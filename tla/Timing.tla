------------------------------- MODULE Timing -------------------------------
(***************************************************************************)
(* The timing templates of timing.rs, and the durations that connect.rs    *)
(* and service.rs make of them.  Times are in milliseconds; HostTime and   *)
(* Service use the durations in units of their own.                        *)
(***************************************************************************)
EXTENDS Integers, FiniteSetsExt

Levels == 0..5

Times(parallel, connect, readTimeout, retries, host) ==
    [parallel |-> parallel, connect |-> connect, read |-> readTimeout,
     retries |-> retries, host |-> host]

Templates == <<
    Times(1, 15000, 10000, 5, 0),
    Times(5, 10000, 8000, 3, 0),
    Times(30, 5000, 5000, 2, 0),
    Times(100, 3000, 3000, 2, 0),
    Times(300, 1500, 2000, 1, 0),
    Times(1000, 800, 1000, 1, 900000) >>

(* Bug: the levels above 4 get the default template, T3.                   *)
TemplateDefaulted(level) == Templates[IF level > 4 THEN 4 ELSE level + 1]

(* Timing::new: every level above 4 is T5.                                 *)
Template(level) == Templates[IF level > 4 THEN 6 ELSE level + 1]

-----------------------------------------------------------------------------
(* The sleeps of a connect scan that is never answered, and its life.      *)
AllSleeps(step, retries) == (step * retries * (retries + 1)) \div 2

LongestProbe(connect, step, retries) == (retries + 1) * connect + AllSleeps(step, retries)

(* detect(): connect, one passive read, then a probe (write and read) or   *)
(* a longer wait and a second read, each cut off by its own timeout.       *)
LongestDetect(connect, readTimeout, longer) ==
    connect + readTimeout + Max({readTimeout, longer}) + readTimeout

(* Rounds of n ports when `limit` of them are probed at a time.            *)
Rounds(n, limit) == (n + limit - 1) \div limit
=============================================================================
