---------------------------- MODULE Service_proofs ----------------------------
(***************************************************************************)
(* Proofs about Service: what arrives is heard, a greeting is not talked   *)
(* over, banner or port names the service, and detect() ends in time, for  *)
(* any ports and any timeouts.                                             *)
(***************************************************************************)
EXTENDS Service, Lemmas, TLAPS

Longest == LongestDetect(ConnectTimeout, ReadTimeout, LongerWait)

States == {"connecting", "reading", "waiting", "writing", "rereading", "returned"}

Typed ==
    /\ port \in PortChoices
    /\ pc \in States
    /\ now \in Nat /\ deadline \in Nat
    /\ spoken \in {"none", "part", "whole"}
    /\ peer \in {"open", "eof", "reset"}
    /\ probed \in BOOLEAN /\ greeted \in BOOLEAN

(* The waits follow each other, and none of them is outlived.              *)
Waits ==
    /\ pc = "connecting" => deadline <= ConnectTimeout
    /\ pc = "reading" => deadline <= ConnectTimeout + ReadTimeout
    /\ pc \in {"waiting", "writing"} => deadline <= Longest - ReadTimeout
    /\ deadline <= Longest
    /\ now <= deadline

(* Nothing is heard before the connection stands, the probe is written     *)
(* once, and on the ports that have one; a greeting stays what it was.     *)
Course ==
    /\ pc = "connecting" => spoken = "none"
    /\ pc \in {"connecting", "reading", "waiting", "writing"} => ~probed
    /\ pc = "writing" => port \in ProbePorts
    /\ greeted => spoken # "none"

(* Until detect() returns nothing is heard; what it then says is a name of *)
(* the table, and the probe went only to a port that has one.              *)
Told ==
    /\ server \in Servers
    /\ heard \in Heads \cup {"silence", "part"}
    /\ name \in Names
    /\ pc # "returned" => heard = "silence"
    /\ probed => port \in ProbePorts
    /\ NamedByBannerOrPort

IInv == Typed /\ Waits /\ Course /\ NeverInterrupts /\ BannerHeard

-----------------------------------------------------------------------------
(* The bound of detect() leaves room for each of its waits.                *)
LEMMA LongestIsLonger ==
    /\ Longest \in Nat
    /\ Longest >= ConnectTimeout + ReadTimeout + SecondWait + ReadTimeout
    /\ SecondWait \in Nat
<1>. DEFINE two == {ReadTimeout, LongerWait}
<1>1. /\ ConnectTimeout \in Nat /\ ReadTimeout \in Nat /\ LongerWait \in Nat
  BY ServiceAssumption
<1>2. \E x \in two : \A y \in two : x >= y
  BY <1>1
<1>3. Max(two) \in two /\ \A y \in two : Max(two) >= y
  BY <1>2, Zenon DEF Max
<1>4. Max(two) \in Nat /\ Max(two) >= ReadTimeout /\ Max(two) >= LongerWait
  BY <1>1, <1>3
<1>5. Longest = ConnectTimeout + ReadTimeout + Max(two) + ReadTimeout
  BY DEF Longest, LongestDetect
<1>. HIDE DEF two
<1>. QED  BY <1>1, <1>4, <1>5 DEF SecondWait

LEMMA InitInv == Init => IInv
<1>. SUFFICES ASSUME Init  PROVE IInv
  OBVIOUS
<1>1. ConnectTimeout \in Nat /\ ReadTimeout \in Nat
  BY ServiceAssumption
<1>2. Typed
  BY <1>1 DEF Init, Typed, States
<1>3. Waits
  <2>1. ConnectTimeout <= Longest /\ 0 <= ConnectTimeout /\ ConnectTimeout <= ConnectTimeout
    BY <1>1, LongestIsLonger
  <2>2. pc = "connecting" /\ now = 0 /\ deadline = ConnectTimeout
    BY DEF Init
  <2>. QED  BY <2>1, <2>2 DEF Waits
<1>4. Course /\ NeverInterrupts /\ BannerHeard
  BY DEF Init, Course, NeverInterrupts, BannerHeard
<1>. QED  BY <1>2, <1>3, <1>4 DEF IInv

(* detect() returns: its clock and the connection stay as they are.        *)
LEMMA ReturnKeepsInv ==
    ASSUME IInv, NEW head, ReturnGuess(head),
           \/ head = Arrived
           \/ peer = "reset"
           \/ head = "silence" /\ port \in ProbePorts /\ ~probed
    PROVE  IInv'
<1>1. /\ UNCHANGED <<port, server, now, deadline, spoken, peer, probed, greeted>>
      /\ pc' = "returned" /\ heard' = head
  BY DEF ReturnGuess
<1>2. Typed' /\ Waits' /\ Course' /\ NeverInterrupts'
  BY <1>1 DEF IInv, Typed, Waits, Course, NeverInterrupts, States
<1>3. Arrived' = Arrived
  BY <1>1 DEF Arrived
<1>4. BannerHeard'
  BY <1>1, <1>3 DEF BannerHeard
<1>. QED  BY <1>2, <1>4 DEF IInv

(* Every step of detect() itself keeps the invariant.                      *)
LEMMA DetectKeepsInv == IInv /\ Detect => IInv'
<1>. SUFFICES ASSUME IInv, Detect  PROVE IInv'
  OBVIOUS
<1>0. /\ ConnectTimeout \in Nat /\ ReadTimeout \in Nat /\ SecondWait \in Nat /\ Longest \in Nat
      /\ Longest >= ConnectTimeout + ReadTimeout + SecondWait + ReadTimeout
      /\ now \in Nat /\ deadline \in Nat /\ now <= deadline
  BY ServiceAssumption, LongestIsLonger DEF IInv, Typed, Waits
<1>1. CASE Connects
  <2>1. /\ pc = "connecting" /\ pc' = "reading" /\ deadline' = now + ReadTimeout
        /\ UNCHANGED <<port, server, now, spoken, peer, heard, name, greeted, probed>>
    BY <1>1 DEF Connects, Await
  <2>2. deadline <= ConnectTimeout
    BY <2>1 DEF IInv, Waits
  <2>3. deadline' \in Nat /\ deadline' <= ConnectTimeout + ReadTimeout /\ deadline' <= Longest
        /\ now' <= deadline'
    BY <1>0, <2>1, <2>2
  <2>. QED  BY <2>1, <2>3 DEF IInv, Typed, Waits, Course, NeverInterrupts, BannerHeard, States
<1>2. CASE ConnectFails
  BY <1>2 DEF ConnectFails, IInv, Typed, Waits, Course, NeverInterrupts, BannerHeard, States
<1>3. CASE FirstRead
  BY <1>3, ReturnKeepsInv DEF FirstRead
<1>4. CASE FirstReadEmpty
  <2>1. /\ pc = "reading" /\ NothingToRead /\ deadline' = now + SecondWait
        /\ pc' = IF port \in ProbePorts THEN "writing" ELSE "waiting"
        /\ UNCHANGED <<port, server, now, spoken, peer, heard, name, greeted, probed>>
    BY <1>4 DEF FirstReadEmpty, Await
  <2>2. deadline <= ConnectTimeout + ReadTimeout
    BY <2>1 DEF IInv, Waits
  <2>3. deadline' \in Nat /\ deadline' <= Longest - ReadTimeout /\ deadline' <= Longest
        /\ now' <= deadline'
    BY <1>0, <2>1, <2>2
  <2>4. peer = "reset" \/ ~greeted
    BY <2>1 DEF NothingToRead, SomethingToRead, IInv, Course
  <2>. QED  BY <2>1, <2>3, <2>4
            DEF IInv, Typed, Waits, Course, NeverInterrupts, BannerHeard, States
<1>5. CASE ProbeWritten
  <2>1. /\ pc = "writing" /\ pc' = "rereading" /\ deadline' = now + ReadTimeout /\ probed' = TRUE
        /\ UNCHANGED <<port, server, now, spoken, peer, heard, name, greeted>>
    BY <1>5 DEF ProbeWritten, Await
  <2>2. deadline <= Longest - ReadTimeout
    BY <2>1 DEF IInv, Waits
  <2>3. deadline' \in Nat /\ deadline' <= Longest /\ now' <= deadline'
    BY <1>0, <2>1, <2>2
  <2>. QED  BY <2>1, <2>3 DEF IInv, Typed, Waits, Course, NeverInterrupts, BannerHeard, States
<1>6. CASE WriteTimesOut
  <2>1. pc = "writing" /\ ReturnGuess("silence")
    BY <1>6 DEF WriteTimesOut
  <2>2. port \in ProbePorts /\ ~probed
    BY <2>1 DEF IInv, Course
  <2>. QED  BY <2>1, <2>2, ReturnKeepsInv
<1>7. CASE LongerWaitOver
  <2>1. /\ pc = "waiting" /\ pc' = "rereading" /\ deadline' = now + ReadTimeout
        /\ UNCHANGED <<port, server, now, spoken, peer, heard, name, greeted, probed>>
    BY <1>7 DEF LongerWaitOver, Await
  <2>2. deadline <= Longest - ReadTimeout
    BY <2>1 DEF IInv, Waits
  <2>3. deadline' \in Nat /\ deadline' <= Longest /\ now' <= deadline'
    BY <1>0, <2>1, <2>2
  <2>. QED  BY <2>1, <2>3 DEF IInv, Typed, Waits, Course, NeverInterrupts, BannerHeard, States
<1>8. CASE SecondRead
  BY <1>8, ReturnKeepsInv DEF SecondRead
<1>9. CASE SecondReadEmpty
  <2>1. ~SomethingToRead /\ ReturnGuess("silence")
    BY <1>9 DEF SecondReadEmpty, NothingToRead
  <2>2. peer = "reset" \/ Arrived = "silence"
    BY <2>1 DEF SomethingToRead, Arrived
  <2>. QED  BY <2>1, <2>2, ReturnKeepsInv
<1>. QED  BY <1>1, <1>2, <1>3, <1>4, <1>5, <1>6, <1>7, <1>8, <1>9 DEF Detect

(* So does what the server and the clock do.                               *)
LEMMA NextKeepsInv == IInv /\ [Next]_vars => IInv'
<1>. SUFFICES ASSUME IInv, [Next]_vars  PROVE IInv'
  OBVIOUS
<1>1. CASE Detect
  BY <1>1, DetectKeepsInv
<1>2. CASE ServerSpeaks
  <2>1. /\ pc \notin {"connecting", "returned"} /\ peer = "open"
        /\ spoken' \in {"part", "whole"}
        /\ greeted' = (greeted \/ (spoken = "none" /\ pc = "reading"))
        /\ UNCHANGED <<port, server, pc, now, deadline, peer, probed, heard, name>>
    BY <1>2 DEF ServerSpeaks, Connected
  <2>2. Typed' /\ Waits' /\ Course'
    BY <2>1 DEF IInv, Typed, Waits, Course, States
  <2>3. NeverInterrupts'
    BY <2>1 DEF IInv, Course, NeverInterrupts
  <2>. QED  BY <2>1, <2>2, <2>3 DEF IInv, BannerHeard
<1>3. CASE ServerCloses
  <2>1. /\ pc \notin {"connecting", "returned"} /\ peer # "reset"
        /\ peer' \in {"eof", "reset"}
        /\ UNCHANGED <<port, server, pc, now, deadline, spoken, probed, heard, name, greeted>>
    BY <1>3 DEF ServerCloses, Connected
  <2>. QED  BY <2>1 DEF IInv, Typed, Waits, Course, NeverInterrupts, BannerHeard, States
<1>4. CASE Tick
  <2>1. /\ pc # "returned" /\ now < deadline /\ now' = now + 1
        /\ UNCHANGED <<port, server, pc, deadline, spoken, peer, probed, heard, name, greeted>>
    BY <1>4 DEF Tick
  <2>2. now \in Nat /\ deadline \in Nat
    BY DEF IInv, Typed
  <2>3. now' \in Nat /\ now' <= deadline
    BY <2>1, <2>2
  <2>. QED  BY <2>1, <2>3 DEF IInv, Typed, Waits, Course, NeverInterrupts, BannerHeard, States
<1>5. CASE UNCHANGED vars
  <2>1. UNCHANGED <<port, server, pc, now, deadline, spoken, peer, probed, heard, name, greeted>>
    BY <1>5 DEF vars
  <2>2. Arrived' = Arrived
    BY <2>1 DEF Arrived
  <2>. QED  BY <2>1, <2>2 DEF IInv, Typed, Waits, Course, NeverInterrupts, BannerHeard
<1>. QED  BY <1>1, <1>2, <1>3, <1>4, <1>5 DEF Next, Returned

(* IInv holds of every run.                                                *)
LEMMA Inductive == Spec => []IInv
BY InitInv, NextKeepsInv, PTL DEF Spec

(* On a connection that stays open detect() makes its guess from all that  *)
(* has arrived (service.rs:34-44).                                         *)
THEOREM BannersAreHeard == Spec => []BannerHeard
<1>1. IInv => BannerHeard
  BY DEF IInv
<1>. QED  BY <1>1, Inductive, PTL

(* A server that greets within read_timeout is not spoken to               *)
(* (service.rs:34-40).                                                     *)
THEOREM GreetingsAwaited == Spec => []NeverInterrupts
<1>1. IInv => NeverInterrupts
  BY DEF IInv
<1>. QED  BY <1>1, Inductive, PTL

(* detect() takes no longer than the sum of its timeouts, which HostTime   *)
(* counts on for every open port.                                          *)
THEOREM DetectionOnTime == Spec => []DetectOnTime
<1>1. IInv => DetectOnTime
  <2>1. IInv => now \in Nat /\ deadline \in Nat /\ now <= deadline /\ deadline <= Longest
    BY DEF IInv, Typed, Waits
  <2>. QED  BY <2>1, LongestIsLonger DEF DetectOnTime, Longest
<1>. QED  BY <1>1, Inductive, PTL

-----------------------------------------------------------------------------
(* What each rule of guess_from_banner promises: the name of who introduces *)
(* itself, and of what is served on its ports.                             *)
Introduces(rule) == <<rule.head, rule.name>> \in Introductions
HintsKnown(rule) == \A q \in rule.hints : <<q, rule.name>> \in KnownPorts

LEMMA RecognisedHeads ==
    \A head : head \in Recognised <=>
        \/ head \in Unmistakable \/ head = "mysql9" \/ head = "redis_version:" \/ head = "FATAL"
        \/ head = "RFB" \/ head = "* OK" \/ head = "+OK"
<1>1. \A a, b : <<a, b>>[1] = a
  OBVIOUS
<1>2. ASSUME NEW pair \in Introductions
      PROVE  \/ pair[1] \in Unmistakable \/ pair[1] = "mysql9" \/ pair[1] = "redis_version:"
             \/ pair[1] = "FATAL" \/ pair[1] = "RFB" \/ pair[1] = "* OK" \/ pair[1] = "+OK"
  <2>1. CASE \/ pair = <<"SSH-", "ssh">> \/ pair = <<"HTTP/", "http">>
             \/ pair = <<"Server:", "http">> \/ pair = <<"220 ", "ftp">>
    BY <1>1, <2>1, Zenon DEF Unmistakable
  <2>2. CASE \/ pair = <<"mysql9", "mysql">> \/ pair = <<"redis_version:", "redis">>
             \/ pair = <<"FATAL", "postgresql">> \/ pair = <<"RFB", "vnc">>
             \/ pair = <<"* OK", "imap">> \/ pair = <<"+OK", "pop3">>
    BY <1>1, <2>2, Zenon
  <2>. QED  BY <2>1, <2>2, Zenon DEF Introductions
<1>3. \A a, b : <<a, b>> \in Introductions => a \in Recognised
  BY <1>1, Zenon DEF Recognised
<1>4. /\ "SSH-" \in Recognised /\ "HTTP/" \in Recognised /\ "Server:" \in Recognised
      /\ "220 " \in Recognised /\ "mysql9" \in Recognised /\ "redis_version:" \in Recognised
      /\ "FATAL" \in Recognised /\ "RFB" \in Recognised /\ "* OK" \in Recognised
      /\ "+OK" \in Recognised
  <2>1. /\ <<"SSH-", "ssh">> \in Introductions /\ <<"HTTP/", "http">> \in Introductions
        /\ <<"Server:", "http">> \in Introductions /\ <<"220 ", "ftp">> \in Introductions
        /\ <<"mysql9", "mysql">> \in Introductions
        /\ <<"redis_version:", "redis">> \in Introductions
        /\ <<"FATAL", "postgresql">> \in Introductions /\ <<"RFB", "vnc">> \in Introductions
        /\ <<"* OK", "imap">> \in Introductions /\ <<"+OK", "pop3">> \in Introductions
    BY DEF Introductions
  <2>. QED  BY <1>3, <2>1
<1>5. ASSUME NEW head \in Recognised
      PROVE  \E pair \in Introductions : head = pair[1]
  BY <1>5, Zenon DEF Recognised
<1>6. \A head \in Recognised :
          \/ head \in Unmistakable \/ head = "mysql9" \/ head = "redis_version:"
          \/ head = "FATAL" \/ head = "RFB" \/ head = "* OK" \/ head = "+OK"
  BY <1>2, <1>5, Zenon
<1>. QED  BY <1>4, <1>6, Zenon DEF Unmistakable

LEMMA WellKnownPorts ==
    WellKnown = {3306, 6379, 5432, 143, 993, 110, 995, 443, 53, 3389, 27017}
BY DEF WellKnown, KnownPorts

(* The table: rules without hints stand first, FTP before SMTP, and every  *)
(* introduction and every known port has its rule.                         *)
LEMMA TableOfRules ==
    /\ Len(Rules) = 15 /\ DOMAIN Rules = 1..15
    /\ \A i \in 1..15 :
           /\ Rules[i].head \in Recognised \cup {"none"}
           /\ HintsKnown(Rules[i])
           /\ i <= 5 => Rules[i].hints = {}
           /\ i <= 11 => Rules[i].hints \subseteq Overruling
           /\ i <= 11 /\ i # 5 => Introduces(Rules[i])
           /\ i > 11 => Rules[i].head = "none"
    /\ Rules[4].head = Rules[5].head /\ Rules[4].on = PortChoices
    /\ \A head \in Recognised : \E j \in 1..11 :
           /\ Rules[j].head = head /\ Rules[j].on = PortChoices
           /\ head \in Unmistakable => j <= 4
    /\ \A q \in WellKnown : \E j \in 1..15 : q \in Rules[j].hints
<1>. DEFINE ssh == Rule("ssh", "SSH-", PortChoices, {})
            http == Rule("http", "HTTP/", PortChoices, {})
            line == Rule("http", "Server:", PortChoices, {})
            ftp == Rule("ftp", "220 ", PortChoices, {})
            smtp == Rule("smtp", "220 ", {25, 587, 465}, {})
            mysql == Rule("mysql", "mysql9", PortChoices, {3306})
            redis == Rule("redis", "redis_version:", PortChoices, {6379})
            postgresql == Rule("postgresql", "FATAL", PortChoices, {5432})
            vnc == Rule("vnc", "RFB", PortChoices, {})
            imap == Rule("imap", "* OK", PortChoices, {143, 993})
            pop3 == Rule("pop3", "+OK", PortChoices, {110, 995})
            https == Rule("https", "none", {}, {443})
            dns == Rule("dns", "none", {}, {53})
            rdp == Rule("rdp", "none", {}, {3389})
            mongodb == Rule("mongodb", "none", {}, {27017})
<1>1. BannerRules = <<ssh, http, line, ftp, smtp>>
  BY DEF BannerRules
<1>2. HintedRules = <<mysql, redis, postgresql, vnc, imap, pop3, https, dns, rdp, mongodb>>
  BY DEF HintedRules
<1>. HIDE DEF ssh, http, line, ftp, smtp, mysql, redis, postgresql, vnc, imap, pop3, https, dns, rdp, mongodb
<1>3. /\ Len(Rules) = 15 /\ DOMAIN Rules = 1..15
      /\ \A i \in 1..5 : Rules[i] = BannerRules[i]
      /\ \A i \in 1..10 : Rules[5 + i] = HintedRules[i]
  <2>. DEFINE S == {ssh, http, line, ftp, smtp, mysql, redis, postgresql, vnc, imap, pop3, https, dns, rdp, mongodb}
  <2>1. BannerRules \in Seq(S) /\ Len(BannerRules) = 5
    BY <1>1
  <2>2. HintedRules \in Seq(S) /\ Len(HintedRules) = 10
    BY <1>2
  <2>3. Rules = BannerRules \o HintedRules
    BY DEF Rules
  <2>. HIDE DEF S
  <2>4. /\ Rules \in Seq(S) /\ Len(Rules) = 15
        /\ \A i \in 1..15 : Rules[i] = IF i <= 5 THEN BannerRules[i] ELSE HintedRules[i - 5]
    <3>1. /\ Rules \in Seq(S) /\ Len(Rules) = Len(BannerRules) + Len(HintedRules)
          /\ \A i \in 1..(Len(BannerRules) + Len(HintedRules)) :
                Rules[i] = IF i <= Len(BannerRules) THEN BannerRules[i]
                                                   ELSE HintedRules[i - Len(BannerRules)]
      BY <2>1, <2>2, <2>3, ConcatProperties
    <3>2. Len(BannerRules) + Len(HintedRules) = 15
      BY <2>1, <2>2
    <3>. QED  BY <2>1, <2>2, <3>1, <3>2
  <2>5. DOMAIN Rules = 1..15
    BY <2>4, LenProperties
  <2>6. ASSUME NEW i \in 1..10
        PROVE  Rules[5 + i] = HintedRules[i]
    <3>. DEFINE n == 5 + i
    <3>1. n \in 1..15 /\ ~(n <= 5) /\ n - 5 = i
      OBVIOUS
    <3>. HIDE DEF n
    <3>2. Rules[n] = HintedRules[n - 5]
      BY <2>4, <3>1
    <3>. QED  BY <3>1, <3>2 DEF n
  <2>7. \A i \in 1..5 : Rules[i] = BannerRules[i]
    BY <2>4
  <2>. QED  BY <2>4, <2>5, <2>6, <2>7
<1>4. /\ Rules[1] = BannerRules[1] /\ Rules[2] = BannerRules[2] /\ Rules[3] = BannerRules[3]
      /\ Rules[4] = BannerRules[4] /\ Rules[5] = BannerRules[5]
  BY <1>3
<1>5. /\ Rules[6] = HintedRules[1] /\ Rules[7] = HintedRules[2] /\ Rules[8] = HintedRules[3]
      /\ Rules[9] = HintedRules[4] /\ Rules[10] = HintedRules[5] /\ Rules[11] = HintedRules[6]
      /\ Rules[12] = HintedRules[7] /\ Rules[13] = HintedRules[8] /\ Rules[14] = HintedRules[9]
      /\ Rules[15] = HintedRules[10]
  <2>1. /\ 5 + 1 = 6 /\ 5 + 2 = 7 /\ 5 + 3 = 8 /\ 5 + 4 = 9 /\ 5 + 5 = 10 /\ 5 + 6 = 11
        /\ 5 + 7 = 12 /\ 5 + 8 = 13 /\ 5 + 9 = 14 /\ 5 + 10 = 15
    OBVIOUS
  <2>. QED  BY <1>3, <2>1
<1>6. /\ Rules[1] = ssh /\ Rules[2] = http /\ Rules[3] = line /\ Rules[4] = ftp /\ Rules[5] = smtp
  BY <1>1, <1>4
<1>7. /\ Rules[6] = mysql /\ Rules[7] = redis /\ Rules[8] = postgresql /\ Rules[9] = vnc
      /\ Rules[10] = imap /\ Rules[11] = pop3 /\ Rules[12] = https /\ Rules[13] = dns
      /\ Rules[14] = rdp /\ Rules[15] = mongodb
  BY <1>2, <1>5
<1>8. /\ \A r \in {ssh, http, line, ftp, mysql, redis, postgresql, vnc, imap, pop3} :
             r.on = PortChoices
      /\ ssh.head = "SSH-" /\ http.head = "HTTP/" /\ line.head = "Server:"
      /\ ftp.head = "220 " /\ smtp.head = "220 " /\ mysql.head = "mysql9"
      /\ redis.head = "redis_version:" /\ postgresql.head = "FATAL" /\ vnc.head = "RFB"
      /\ imap.head = "* OK" /\ pop3.head = "+OK"
      /\ \A r \in {https, dns, rdp, mongodb} : r.head = "none"
  BY DEF ssh, http, line, ftp, smtp, mysql, redis, postgresql, vnc, imap, pop3, https, dns, rdp, mongodb, Rule
<1>9. /\ \A r \in {ssh, http, line, ftp, smtp, vnc} : r.hints = {}
      /\ mysql.hints = {3306} /\ redis.hints = {6379} /\ postgresql.hints = {5432}
      /\ imap.hints = {143, 993} /\ pop3.hints = {110, 995} /\ https.hints = {443}
      /\ dns.hints = {53} /\ rdp.hints = {3389} /\ mongodb.hints = {27017}
  BY DEF ssh, http, line, ftp, smtp, mysql, redis, postgresql, vnc, imap, pop3, https, dns, rdp, mongodb, Rule
<1>10. /\ ssh.name = "ssh" /\ http.name = "http" /\ line.name = "http" /\ ftp.name = "ftp"
       /\ mysql.name = "mysql" /\ redis.name = "redis" /\ postgresql.name = "postgresql"
       /\ vnc.name = "vnc" /\ imap.name = "imap" /\ pop3.name = "pop3" /\ https.name = "https"
       /\ dns.name = "dns" /\ rdp.name = "rdp" /\ mongodb.name = "mongodb"
  BY DEF ssh, http, line, ftp, mysql, redis, postgresql, vnc, imap, pop3, https, dns, rdp, mongodb, Rule
<1>11. /\ Introduces(ssh) /\ Introduces(http) /\ Introduces(line) /\ Introduces(ftp)
       /\ Introduces(mysql) /\ Introduces(redis) /\ Introduces(postgresql)
       /\ Introduces(vnc) /\ Introduces(imap) /\ Introduces(pop3)
  BY <1>8, <1>10 DEF Introduces, Introductions
<1>12. /\ HintsKnown(ssh) /\ HintsKnown(http) /\ HintsKnown(line) /\ HintsKnown(ftp)
       /\ HintsKnown(smtp) /\ HintsKnown(vnc) /\ HintsKnown(mysql) /\ HintsKnown(redis)
       /\ HintsKnown(postgresql) /\ HintsKnown(imap) /\ HintsKnown(pop3)
       /\ HintsKnown(https) /\ HintsKnown(dns) /\ HintsKnown(rdp) /\ HintsKnown(mongodb)
  <2>1. /\ HintsKnown(ssh) /\ HintsKnown(http) /\ HintsKnown(line) /\ HintsKnown(ftp)
        /\ HintsKnown(smtp) /\ HintsKnown(vnc)
    BY <1>9 DEF HintsKnown
  <2>2. HintsKnown(mysql) /\ HintsKnown(redis) /\ HintsKnown(postgresql)
    BY <1>9, <1>10 DEF HintsKnown, KnownPorts
  <2>3. HintsKnown(imap) /\ HintsKnown(pop3)
    BY <1>9, <1>10 DEF HintsKnown, KnownPorts
  <2>4. HintsKnown(https) /\ HintsKnown(dns) /\ HintsKnown(rdp) /\ HintsKnown(mongodb)
    BY <1>9, <1>10 DEF HintsKnown, KnownPorts
  <2>. QED  BY <2>1, <2>2, <2>3, <2>4
<1>13. ASSUME NEW i \in 1..15
       PROVE  /\ HintsKnown(Rules[i])
              /\ i <= 11 /\ i # 5 => Introduces(Rules[i])
  <2>1. \/ i = 1 \/ i = 2 \/ i = 3 \/ i = 4 \/ i = 5 \/ i = 6 \/ i = 7 \/ i = 8
        \/ i = 9 \/ i = 10 \/ i = 11 \/ i \in {12, 13, 14, 15}
    OBVIOUS
  <2>2. i > 11 => ~(i <= 11)
    OBVIOUS
  <2>. QED  BY <1>6, <1>7, <1>11, <1>12, <2>1, <2>2
<1>14. ASSUME NEW i \in 1..15
       PROVE  /\ i <= 5 => Rules[i].hints = {}
              /\ i <= 11 => Rules[i].hints \subseteq Overruling
  <2>1. i <= 5 => \/ i = 1 \/ i = 2 \/ i = 3 \/ i = 4 \/ i = 5
    OBVIOUS
  <2>2. i <= 5 => Rules[i].hints = {}
    BY <1>6, <1>9, <2>1
  <2>3. i <= 11 /\ ~(i <= 5) => \/ i = 6 \/ i = 7 \/ i = 8 \/ i = 9 \/ i = 10 \/ i = 11
    OBVIOUS
  <2>4. /\ mysql.hints \subseteq Overruling /\ redis.hints \subseteq Overruling
        /\ postgresql.hints \subseteq Overruling /\ vnc.hints \subseteq Overruling
        /\ imap.hints \subseteq Overruling /\ pop3.hints \subseteq Overruling
    BY <1>9 DEF Overruling
  <2>. QED  BY <1>7, <2>2, <2>3, <2>4
<1>15. ASSUME NEW i \in 1..15
       PROVE  /\ Rules[i].head \in Recognised \cup {"none"}
              /\ i > 11 => Rules[i].head = "none"
  <2>1. i <= 5 => \/ i = 1 \/ i = 2 \/ i = 3 \/ i = 4 \/ i = 5
    OBVIOUS
  <2>2. i <= 11 /\ ~(i <= 5) => \/ i = 6 \/ i = 7 \/ i = 8 \/ i = 9 \/ i = 10 \/ i = 11
    OBVIOUS
  <2>3. i > 11 => i = 12 \/ i = 13 \/ i = 14 \/ i = 15
    OBVIOUS
  <2>4. i > 11 => Rules[i].head = "none"
    BY <1>7, <1>8, <2>3
  <2>5. i <= 5 => Rules[i].head \in Recognised
    <3>1. /\ "SSH-" \in Recognised /\ "HTTP/" \in Recognised /\ "Server:" \in Recognised
          /\ "220 " \in Recognised
      BY RecognisedHeads, Zenon DEF Unmistakable
    <3>2. /\ ssh.head \in Recognised /\ http.head \in Recognised /\ line.head \in Recognised
          /\ ftp.head \in Recognised /\ smtp.head \in Recognised
      BY <1>8, <3>1, Zenon
    <3>. QED  BY <1>6, <2>1, <3>2
  <2>6. i <= 11 /\ ~(i <= 5) => Rules[i].head \in Recognised
    <3>1. /\ "mysql9" \in Recognised /\ "redis_version:" \in Recognised
          /\ "FATAL" \in Recognised /\ "RFB" \in Recognised /\ "* OK" \in Recognised
          /\ "+OK" \in Recognised
      BY RecognisedHeads, Zenon
    <3>2. /\ mysql.head \in Recognised /\ redis.head \in Recognised
          /\ postgresql.head \in Recognised /\ vnc.head \in Recognised
          /\ imap.head \in Recognised /\ pop3.head \in Recognised
      BY <1>8, <3>1, Zenon
    <3>. QED  BY <1>7, <2>2, <3>2
  <2>7. i <= 11 \/ i > 11
    OBVIOUS
  <2>. QED  BY <2>4, <2>5, <2>6, <2>7
<1>16. Rules[4].head = Rules[5].head /\ Rules[4].on = PortChoices
  BY <1>6, <1>8
<1>17. ASSUME NEW head \in Recognised
       PROVE  \E j \in 1..11 : /\ Rules[j].head = head /\ Rules[j].on = PortChoices
                               /\ head \in Unmistakable => j <= 4
  <2>1. CASE head \in Unmistakable
    <3>1. \E j \in {1, 2, 3, 4} : Rules[j].head = head /\ Rules[j].on = PortChoices
      BY <1>6, <1>8, <2>1 DEF Unmistakable
    <3>2. \A j \in {1, 2, 3, 4} : j \in 1..11 /\ j <= 4
      OBVIOUS
    <3>. QED  BY <3>1, <3>2
  <2>2. CASE head \notin Unmistakable
    <3>1. \/ head = "mysql9" \/ head = "redis_version:" \/ head = "FATAL"
          \/ head = "RFB" \/ head = "* OK" \/ head = "+OK"
      BY <2>2, RecognisedHeads
    <3>2. \E j \in {6, 7, 8, 9, 10, 11} : Rules[j].head = head /\ Rules[j].on = PortChoices
      BY <1>7, <1>8, <3>1
    <3>3. \A j \in {6, 7, 8, 9, 10, 11} : j \in 1..11
      OBVIOUS
    <3>. QED  BY <2>2, <3>2, <3>3
  <2>. QED  BY <2>1, <2>2
<1>18. ASSUME NEW q \in WellKnown
       PROVE  \E j \in 1..15 : q \in Rules[j].hints
  <2>1. \E j \in {6, 7, 8, 10, 11, 12, 13, 14, 15} : q \in Rules[j].hints
    <3>1. \E r \in {mysql, redis, postgresql, imap, pop3, https, dns, rdp, mongodb} : q \in r.hints
      BY <1>9, WellKnownPorts
    <3>. QED  BY <1>7, <3>1
  <2>2. \A j \in {6, 7, 8, 10, 11, 12, 13, 14, 15} : j \in 1..15
    OBVIOUS
  <2>. QED  BY <2>1, <2>2
<1>. QED  BY <1>3, <1>13, <1>14, <1>15, <1>16, <1>17, <1>18

(* The first rule that fits names the service.                             *)
FitsAt(head, i) == (head = Rules[i].head /\ port \in Rules[i].on) \/ port \in Rules[i].hints

LEMMA FirstThatFits ==
    ASSUME NEW head
    PROVE  \/ Guess(head) = "unknown" /\ \A i \in 1..15 : ~FitsAt(head, i)
           \/ \E i \in 1..15 : /\ FitsAt(head, i) /\ \A j \in 1..15 : FitsAt(head, j) => i <= j
                               /\ Guess(head) = Rules[i].name
<1>. DEFINE I == {i \in 1..15 : FitsAt(head, i)}
            first == IF I # {} THEN Min(I) ELSE 0
<1>1. Guess(head) = IF first = 0 THEN "unknown" ELSE Rules[first].name
  BY TableOfRules DEF Guess, SelectInSeq, FitsAt
<1>2. CASE I = {}
  <2>1. \A i \in 1..15 : ~FitsAt(head, i)
    BY <1>2
  <2>. HIDE DEF I
  <2>. QED  BY <1>1, <1>2, <2>1
<1>3. CASE I # {}
  <2>1. PICK least \in I : \A y \in I : least <= y
    <3>1. I \in SUBSET Nat
      OBVIOUS
    <3>. HIDE DEF I
    <3>. QED  BY <1>3, <3>1, LeastNumber
  <2>2. Min(I) \in I /\ \A y \in I : Min(I) <= y
    <3>. HIDE DEF I
    <3>. QED  BY <2>1, Zenon DEF Min
  <2>3. first \in I /\ first \in 1..15 /\ \A y \in I : first <= y
    BY <1>3, <2>2, Zenon
  <2>4. FitsAt(head, first) /\ \A j \in 1..15 : FitsAt(head, j) => first <= j
    BY <2>3
  <2>. HIDE DEF first, I
  <2>5. Guess(head) = Rules[first].name
    BY <1>1, <2>3
  <2>. QED  BY <2>3, <2>4, <2>5
<1>. QED  BY <1>2, <1>3

(* What the table makes of a banner and a port.                            *)
LEMMA Guesses ==
    ASSUME port \in PortChoices, NEW head \in Heads \cup {"silence", "part"}
    PROVE  /\ Guess(head) \in Names
           /\ head \in Recognised =>
                  \/ <<head, Guess(head)>> \in Introductions
                  \/ <<port, Guess(head)>> \in KnownPorts /\ port \in Overruling /\ head \notin Unmistakable
           /\ head \notin Recognised =>
                  IF port \in WellKnown THEN <<port, Guess(head)>> \in KnownPorts
                  ELSE Guess(head) = "unknown"
<1>1. Guess(head) \in Names
  <2>1. Guess(head) = "unknown" \/ \E i \in DOMAIN Rules : Guess(head) = Rules[i].name
    BY FirstThatFits, TableOfRules
  <2>. QED  BY <2>1, Zenon DEF Names
<1>2. \A i \in 1..15 : port \in Rules[i].hints => <<port, Rules[i].name>> \in KnownPorts
  BY TableOfRules DEF HintsKnown
<1>3. ASSUME head \in Recognised
      PROVE  \/ <<head, Guess(head)>> \in Introductions
             \/ <<port, Guess(head)>> \in KnownPorts /\ port \in Overruling /\ head \notin Unmistakable
  <2>1. PICK j \in 1..11 : /\ Rules[j].head = head /\ Rules[j].on = PortChoices
                           /\ head \in Unmistakable => j <= 4
    BY <1>3, TableOfRules
  <2>2. j \in 1..15 /\ FitsAt(head, j)
    BY <2>1 DEF FitsAt
  <2>3. PICK i \in 1..15 : /\ FitsAt(head, i) /\ \A k \in 1..15 : FitsAt(head, k) => i <= k
                           /\ Guess(head) = Rules[i].name
    BY <2>2, FirstThatFits
  <2>4. i <= j /\ i <= 11
    BY <2>1, <2>2, <2>3
  <2>5. CASE port \in Rules[i].hints
    <3>1. ~(i <= 5)
      BY <2>5, TableOfRules
    <3>2. head \notin Unmistakable
      BY <2>1, <2>4, <3>1
    <3>3. port \in Overruling
      BY <2>4, <2>5, TableOfRules
    <3>. QED  BY <1>2, <2>3, <2>5, <3>2, <3>3
  <2>6. CASE port \notin Rules[i].hints
    <3>1. head = Rules[i].head
      BY <2>3, <2>6 DEF FitsAt
    <3>2. i # 5
      <4>1. ASSUME i = 5  PROVE FALSE
        <5>1. FitsAt(head, 4)
          BY <3>1, <4>1, TableOfRules DEF FitsAt
        <5>. QED  BY <2>3, <4>1, <5>1
      <4>. QED  BY <4>1
    <3>3. Introduces(Rules[i])
      BY <2>4, <3>2, TableOfRules
    <3>. QED  BY <2>3, <3>1, <3>3 DEF Introduces
  <2>. QED  BY <2>5, <2>6
<1>4. ASSUME head \notin Recognised
      PROVE  IF port \in WellKnown THEN <<port, Guess(head)>> \in KnownPorts
             ELSE Guess(head) = "unknown"
  <2>1. head # "none"
    BY DEF Heads
  <2>2. \A i \in 1..15 : FitsAt(head, i) <=> port \in Rules[i].hints
    BY <1>4, <2>1, TableOfRules DEF FitsAt
  <2>3. CASE port \in WellKnown
    <3>1. PICK j \in 1..15 : FitsAt(head, j)
      BY <2>2, <2>3, TableOfRules
    <3>2. \E i \in 1..15 : FitsAt(head, i) /\ Guess(head) = Rules[i].name
      BY <3>1, FirstThatFits
    <3>. QED  BY <1>2, <2>2, <2>3, <3>2
  <2>4. CASE port \notin WellKnown
    <3>1. ASSUME NEW i \in 1..15  PROVE port \notin Rules[i].hints
      <4>1. ASSUME port \in Rules[i].hints  PROVE FALSE
        <5>. DEFINE pair == <<port, Rules[i].name>>
        <5>1. pair \in KnownPorts /\ pair[1] = port
          BY <1>2, <4>1
        <5>. HIDE DEF pair
        <5>. QED  BY <2>4, <5>1 DEF WellKnown
      <4>. QED  BY <4>1
    <3>2. Guess(head) = "unknown"
      BY <2>2, <3>1, FirstThatFits
    <3>. QED  BY <2>4, <3>2
  <2>. QED  BY <2>3, <2>4
<1>. QED  BY <1>1, <1>3, <1>4

-----------------------------------------------------------------------------
LEMMA InitTold == Init => Told
<1>. SUFFICES ASSUME Init  PROVE Told
  OBVIOUS
<1>1. /\ server \in Servers /\ pc = "connecting" /\ probed = FALSE
      /\ heard = "silence" /\ name = "pending"
  BY DEF Init
<1>2. name \in Names
  BY <1>1, Zenon DEF Names
<1>3. NamedByBannerOrPort
  BY <1>1 DEF NamedByBannerOrPort
<1>. QED  BY <1>1, <1>2, <1>3 DEF Told

(* Whatever is matched against the table, the answer is as it should be.   *)
LEMMA GuessIsTold ==
    ASSUME IInv, Told, NEW head \in Heads \cup {"silence", "part"}, ReturnGuess(head)
    PROVE  Told'
<1>1. /\ UNCHANGED <<port, server, probed>>
      /\ pc' = "returned" /\ heard' = head /\ name' = Guess(head)
  BY DEF ReturnGuess
<1>2. port \in PortChoices
  BY DEF IInv, Typed
<1>3. name' \in Names
  BY <1>1, <1>2, Guesses
<1>4. /\ heard' \in Recognised =>
             \/ <<heard', name'>> \in Introductions
             \/ <<port', name'>> \in KnownPorts /\ port' \in Overruling /\ heard' \notin Unmistakable
      /\ heard' \notin Recognised =>
             IF port' \in WellKnown THEN <<port', name'>> \in KnownPorts ELSE name' = "unknown"
  BY <1>1, <1>2, Guesses
<1>5. NamedByBannerOrPort'
  BY <1>4, Zenon DEF NamedByBannerOrPort
<1>. QED  BY <1>1, <1>3, <1>5 DEF Told

LEMMA NextKeepsTold == IInv /\ Told /\ [Next]_vars => Told'
<1>. SUFFICES ASSUME IInv, Told, [Next]_vars  PROVE Told'
  OBVIOUS
<1>. DEFINE sounds == Heads \cup {"silence", "part"}
<1>1. Arrived \in sounds /\ "silence" \in sounds
  <2>1. server.head \in Heads
    BY DEF Told, Servers
  <2>. QED  BY <2>1 DEF Arrived
<1>2. CASE FirstRead \/ SecondRead
  BY <1>1, <1>2, GuessIsTold DEF FirstRead, SecondRead
<1>3. CASE WriteTimesOut \/ SecondReadEmpty
  BY <1>1, <1>3, GuessIsTold DEF WriteTimesOut, SecondReadEmpty
<1>4. CASE ConnectFails
  <2>1. /\ pc = "connecting" /\ pc' = "returned" /\ name' = "none"
        /\ UNCHANGED <<port, server, probed, heard>>
    BY <1>4 DEF ConnectFails
  <2>2. heard' = "silence"
    BY <2>1 DEF Told
  <2>3. name' \in Names
    BY <2>1, Zenon DEF Names
  <2>. QED  BY <2>1, <2>2, <2>3 DEF Told, NamedByBannerOrPort
<1>5. ASSUME UNCHANGED <<port, server, heard, name>>, pc' # "returned", pc # "returned",
             probed' = probed \/ port \in ProbePorts
      PROVE  Told'
  BY <1>5 DEF Told, NamedByBannerOrPort
<1>6. CASE Connects \/ FirstReadEmpty \/ LongerWaitOver
  BY <1>5, <1>6 DEF Connects, FirstReadEmpty, LongerWaitOver, Await
<1>7. CASE ProbeWritten
  <2>1. port \in ProbePorts
    BY <1>7 DEF ProbeWritten, IInv, Course
  <2>. QED  BY <1>5, <1>7, <2>1 DEF ProbeWritten, Await
<1>8. CASE ServerSpeaks \/ ServerCloses \/ Tick
  BY <1>5, <1>8 DEF ServerSpeaks, ServerCloses, Connected, Tick
<1>9. CASE UNCHANGED vars
  <2>1. UNCHANGED <<port, server, pc, heard, name, probed>>
    BY <1>9 DEF vars
  <2>2. NamedByBannerOrPort'
    BY <2>1, Zenon DEF Told, NamedByBannerOrPort
  <2>. QED  BY <2>1, <2>2 DEF Told
<1>. QED  BY <1>2, <1>3, <1>4, <1>6, <1>7, <1>8, <1>9 DEF Next, Detect, Returned

(* So Told holds of every run.                                             *)
LEMMA ToldHolds == Spec => []Told
BY InitTold, NextKeepsTold, Inductive, PTL DEF Spec

(* The state has its type, and the probe goes only to the ports that have  *)
(* one (service.rs:37, 65-74).                                             *)
THEOREM TypeCorrect == Spec => []TypeOK
<1>1. IInv /\ Told => TypeOK
  BY DEF IInv, Typed, Told, States, TypeOK
<1>. QED  BY <1>1, Inductive, ToldHolds, PTL

(* Which of banner and port names the service, for every banner and every  *)
(* port (service.rs:100-177).                                              *)
THEOREM ServicesAreNamed == Spec => []NamedByBannerOrPort
<1>1. Told => NamedByBannerOrPort
  BY DEF Told
<1>. QED  BY <1>1, ToldHolds, PTL
=============================================================================
