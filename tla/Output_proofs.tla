---------------------------- MODULE Output_proofs ----------------------------
(***************************************************************************)
(* Proofs about Output, for any reports, texts and names and any write     *)
(* that fails: what a run leaves of its files and of those of an earlier   *)
(* run, that the three renderers show the same rows, and that a text put   *)
(* into the XML is read back as it was.                                    *)
(***************************************************************************)
EXTENDS Output, Lemmas, FiniteSetTheorems, SequenceTheorems, TLAPS

Writers(p) == {j \in DOMAIN Jobs : Jobs[j].path = p}
Contents == Formats \cup {"absent", "old", "partial"}
JobSet == [path: Paths, format: Formats]

(* Between two writes a file is as before if none of its jobs is done, and *)
(* else what the last of them made of it.                                  *)
BetweenWrites ==
    \A p \in Paths :
        /\ (\A j \in Writers(p) : j > done) => files[p] = before[p]
        /\ \A j \in Writers(p) :
              (j <= done /\ \A k \in Writers(p) : k > j => k > done) => files[p] = Jobs[j].format

IInv ==
    /\ TypeOK
    /\ pc = "print" => files = before /\ done = 0
    /\ pc # "exited" => BetweenWrites
    /\ OneFileAtRisk
    /\ SuccessIsWhole

-----------------------------------------------------------------------------
(* The jobs are a sequence of paths and formats, fixed by the options.     *)
LEMMA JobsTyped ==
    ASSUME opts \in Options
    PROVE  /\ Len(Jobs) \in Nat
           /\ DOMAIN Jobs = 1..Len(Jobs)
           /\ \A j \in 1..Len(Jobs) : Jobs[j].path \in Paths /\ Jobs[j].format \in Formats
<1>1. ASSUME NEW path \in Names \cup {NoPath}, NEW format \in Formats
      PROVE  Single(path, format) \in Seq(JobSet)
  <2>1. CASE path = NoPath
    <3>1. Single(path, format) = << >>
      BY <2>1 DEF Single
    <3>. QED  BY <3>1, EmptySeq
  <2>2. CASE path # NoPath
    <3>1. path \in Paths
      BY <1>1, <2>2 DEF Paths
    <3>2. Job(path, format) \in JobSet
      BY <1>1, <3>1 DEF Job, JobSet
    <3>3. Single(path, format) = <<Job(path, format)>>
      BY <2>2 DEF Single
    <3>. QED  BY <3>2, <3>3
  <2>. QED  BY <2>1, <2>2
<1>2. /\ opts.oA \in Bases \cup {NoPath}
      /\ {opts.oN, opts.oX, opts.oJ} \subseteq Names \cup {NoPath}
      /\ {"nmap", "xml", "json"} \subseteq Formats
  BY DEF Options, Formats
<1>. DEFINE all == IF opts.oA = NoPath THEN << >>
                   ELSE <<Job(WithExtension(opts.oA, "nmap"), "nmap"),
                          Job(WithExtension(opts.oA, "xml"), "xml"),
                          Job(WithExtension(opts.oA, "json"), "json")>>
<1>3. all \in Seq(JobSet)
  <2>1. CASE opts.oA = NoPath
    BY <2>1
  <2>2. CASE opts.oA # NoPath
    <3>1. opts.oA \in Bases
      BY <1>2, <2>2
    <3>2. \A e \in Formats : Job(WithExtension(opts.oA, e), e) \in JobSet
      BY <3>1 DEF Job, JobSet, Paths
    <3>3. /\ Job(WithExtension(opts.oA, "nmap"), "nmap") \in JobSet
          /\ Job(WithExtension(opts.oA, "xml"), "xml") \in JobSet
          /\ Job(WithExtension(opts.oA, "json"), "json") \in JobSet
      BY <1>2, <3>2
    <3>. QED  BY <2>2, <3>3
  <2>. QED  BY <2>1, <2>2
<1>4. Jobs = all \o Single(opts.oN, "nmap") \o Single(opts.oX, "xml") \o Single(opts.oJ, "json")
  BY DEF Jobs
<1>5. Jobs \in Seq(JobSet)
  <2>1. /\ Single(opts.oN, "nmap") \in Seq(JobSet)
        /\ Single(opts.oX, "xml") \in Seq(JobSet)
        /\ Single(opts.oJ, "json") \in Seq(JobSet)
    BY <1>1, <1>2
  <2>. HIDE DEF all
  <2>2. all \o Single(opts.oN, "nmap") \in Seq(JobSet)
    BY <1>3, <2>1, ConcatProperties
  <2>3. all \o Single(opts.oN, "nmap") \o Single(opts.oX, "xml") \in Seq(JobSet)
    BY <2>1, <2>2, ConcatProperties
  <2>. QED  BY <1>4, <2>1, <2>3, ConcatProperties
<1>6. \A j \in 1..Len(Jobs) : Jobs[j] \in JobSet
  BY <1>5, ElementOfSeq
<1>7. Len(Jobs) \in Nat /\ DOMAIN Jobs = 1..Len(Jobs)
  BY <1>5, LenProperties
<1>. QED  BY <1>5, <1>6, <1>7 DEF JobSet

(* As long as the options stay, so do the jobs.                            *)
LEMMA JobsStay ==
    ASSUME UNCHANGED opts
    PROVE  Jobs' = Jobs /\ \A p : Writers(p)' = Writers(p)
BY DEF Jobs, Single, Writers

(* The invariant holds before anything is printed or written.              *)
LEMMA InitInv == Init => IInv
<1>. SUFFICES ASSUME Init  PROVE IInv
  OBVIOUS
<1>1. /\ report \in Reports /\ opts \in Options /\ pc = "print" /\ done = 0
      /\ files = before /\ status = "" /\ before \in [Paths -> Contents]
  BY DEF Init, Contents
<1>2. Len(Jobs) \in Nat /\ DOMAIN Jobs = 1..Len(Jobs)
  BY <1>1, JobsTyped
<1>3. done \in 0..Len(Jobs)
  <2>1. done = 0 /\ Len(Jobs) \in Nat
    BY <1>1, <1>2
  <2>. QED  BY <2>1
<1>4. TypeOK
  BY <1>1, <1>3 DEF TypeOK, Contents
<1>5. BetweenWrites /\ OneFileAtRisk
  <2>1. \A j \in DOMAIN Jobs : ~(j <= done)
    <3>1. done = 0 /\ Len(Jobs) \in Nat
      BY <1>1, <1>2
    <3>2. \A j \in 1..Len(Jobs) : ~(j <= done)
      BY <3>1
    <3>. QED  BY <1>2, <3>2
  <2>2. \A p : \A j \in Writers(p) : ~(j <= done)
    BY <2>1 DEF Writers
  <2>. QED  BY <1>1, <2>1, <2>2, Zenon DEF BetweenWrites, OneFileAtRisk, Writers
<1>. QED  BY <1>1, <1>4, <1>5 DEF IInv, SuccessIsWhole

(* Between two writes at most the file of the next job is at risk.         *)
LEMMA BetweenIsSafe ==
    ASSUME TypeOK, pc = "print" => files = before /\ done = 0, BetweenWrites
    PROVE  OneFileAtRisk
<1>1. Len(Jobs) \in Nat /\ DOMAIN Jobs = 1..Len(Jobs) /\ done \in 0..Len(Jobs)
  BY JobsTyped DEF TypeOK
<1>2. ASSUME NEW p \in Paths
      PROVE  /\ (\A j \in Writers(p) : j > done + 1 \/ pc = "print") => files[p] = before[p]
             /\ \A j \in Writers(p) :
                   (j <= done /\ \A k \in Writers(p) : k > j => k > done + 1)
                       => files[p] = Jobs[j].format
  <2>1. \A j \in 1..Len(Jobs) : j > done + 1 => j > done
    BY <1>1
  <2>2. \A j \in Writers(p) : j > done + 1 => j > done
    BY <1>1, <2>1 DEF Writers
  <2>3. /\ (\A j \in Writers(p) : j > done) => files[p] = before[p]
        /\ \A j \in Writers(p) :
              (j <= done /\ \A k \in Writers(p) : k > j => k > done) => files[p] = Jobs[j].format
    BY DEF BetweenWrites
  <2>. QED  BY <2>2, <2>3, Zenon
<1>. QED  BY <1>2, Zenon DEF OneFileAtRisk, Writers

-----------------------------------------------------------------------------
(* A write that succeeds replaces one file by the report in its format.    *)
LEMMA WriteKeepsBetween ==
    ASSUME TypeOK, BetweenWrites, WriteFile
    PROVE  BetweenWrites'
<1>1. /\ Len(Jobs) \in Nat /\ DOMAIN Jobs = 1..Len(Jobs) /\ done \in 0..Len(Jobs)
      /\ done < Len(Jobs) /\ done' = done + 1 /\ files \in [Paths -> Contents]
      /\ before' = before
  BY JobsTyped DEF TypeOK, WriteFile, Contents
<1>2. Jobs' = Jobs /\ \A p : Writers(p)' = Writers(p)
  BY JobsStay DEF WriteFile
<1>3. /\ done + 1 \in 1..Len(Jobs)
      /\ \A j \in 1..Len(Jobs) : (j <= done + 1 <=> j <= done \/ j = done + 1)
                               /\ (j > done <=> j = done + 1 \/ j > done + 1)
                               /\ ~(j <= done /\ j > done) /\ ~(done + 1 > done + 1)
                               /\ (j <= done => done + 1 > j)
  BY <1>1
<1>. DEFINE job == Jobs[done + 1]
<1>4. job.path \in Paths
  BY <1>3, JobsTyped DEF TypeOK
<1>5. files' = [files EXCEPT ![job.path] = job.format]
  BY DEF WriteFile
<1>6. \A p \in Paths : files'[p] = IF p = job.path THEN job.format ELSE files[p]
  BY <1>1, <1>4, <1>5
<1>7. \A p : Writers(p) \subseteq 1..Len(Jobs) /\ (done + 1 \in Writers(p) <=> job.path = p)
  BY <1>1, <1>3 DEF Writers
<1>. HIDE DEF job
<1>8. ASSUME NEW p \in Paths
      PROVE  /\ (\A j \in Writers(p) : j > done + 1) => files'[p] = before[p]
             /\ \A j \in Writers(p) :
                   (j <= done + 1 /\ \A k \in Writers(p) : k > j => k > done + 1)
                       => files'[p] = Jobs[j].format
  <2>1. CASE p = job.path
    <3>1. done + 1 \in Writers(p) /\ files'[p] = Jobs[done + 1].format
      BY <1>6, <1>7, <2>1 DEF job
    <3>2. ~ \A j \in Writers(p) : j > done + 1
      BY <1>3, <3>1
    <3>3. ASSUME NEW j \in Writers(p), j <= done + 1,
                 \A k \in Writers(p) : k > j => k > done + 1
          PROVE  j = done + 1
      <4>1. ~(j <= done)
        BY <1>3, <1>7, <3>1, <3>3
      <4>. QED  BY <1>3, <1>7, <3>3, <4>1
    <3>. QED  BY <3>1, <3>2, <3>3
  <2>2. CASE p # job.path
    <3>1. done + 1 \notin Writers(p) /\ files'[p] = files[p]
      BY <1>6, <1>7, <2>2
    <3>2. \A j \in Writers(p) : (j > done <=> j > done + 1) /\ (j <= done <=> j <= done + 1)
      BY <1>3, <1>7, <3>1
    <3>3. /\ (\A j \in Writers(p) : j > done) => files[p] = before[p]
          /\ \A j \in Writers(p) :
                (j <= done /\ \A k \in Writers(p) : k > j => k > done) => files[p] = Jobs[j].format
      BY DEF BetweenWrites
    <3>. QED  BY <3>1, <3>2, <3>3, Zenon
  <2>. QED  BY <2>1, <2>2
<1>. QED  BY <1>1, <1>2, <1>8 DEF BetweenWrites

(* A write that fails leaves the file of its job alone or cut off.         *)
LEMMA FailureTouchesOne ==
    ASSUME TypeOK, BetweenWrites, WriteFails
    PROVE  OneFileAtRisk' /\ files' \in [Paths -> Contents]
<1>1. /\ Len(Jobs) \in Nat /\ DOMAIN Jobs = 1..Len(Jobs) /\ done \in 0..Len(Jobs)
      /\ done < Len(Jobs) /\ files \in [Paths -> Contents]
      /\ done' = done /\ before' = before /\ pc' = "exited"
  BY JobsTyped DEF TypeOK, WriteFails, Contents
<1>2. Jobs' = Jobs
  BY JobsStay DEF WriteFails
<1>3. /\ done + 1 \in 1..Len(Jobs)
      /\ ~(done + 1 > done + 1)
      /\ \A j \in 1..Len(Jobs) : (j > done + 1 => j > done) /\ (j <= done => done + 1 > j)
  BY <1>1
<1>. DEFINE job == Jobs[done + 1]
<1>4. job.path \in Paths
  BY <1>3, JobsTyped DEF TypeOK
<1>5. PICK content \in {files[job.path], "partial"} :
          files' = [files EXCEPT ![job.path] = content]
  BY DEF WriteFails
<1>6. /\ files' \in [Paths -> Contents]
      /\ \A p \in Paths : p # job.path => files'[p] = files[p]
  BY <1>1, <1>4, <1>5 DEF Contents
<1>7. \A p : Writers(p) \subseteq 1..Len(Jobs) /\ (done + 1 \in Writers(p) <=> job.path = p)
  BY <1>1, <1>3 DEF Writers
<1>. HIDE DEF job
<1>8. ASSUME NEW p \in Paths
      PROVE  /\ (\A j \in Writers(p) : j > done + 1 \/ pc' = "print") => files'[p] = before[p]
             /\ \A j \in Writers(p) :
                   (j <= done /\ \A k \in Writers(p) : k > j => k > done + 1)
                       => files'[p] = Jobs[j].format
  <2>. DEFINE next == done + 1
  <2>0. pc' # "print"
    BY <1>1
  <2>3. /\ \A j \in Writers(p) : (j > next => j > done) /\ (j <= done => next > j)
        /\ ~(next > next) /\ (next \in Writers(p) <=> job.path = p)
    BY <1>3, <1>7
  <2>. HIDE DEF next
  <2>1. CASE p = job.path
    <3>1. next \in Writers(p)
      BY <2>1, <2>3
    <3>2. ~ \A j \in Writers(p) : j > next
      BY <2>3, <3>1, Zenon
    <3>3. \A j \in Writers(p) : j <= done => ~ \A k \in Writers(p) : k > j => k > next
      BY <2>3, <3>1, Zenon
    <3>. QED  BY <2>0, <3>2, <3>3, Zenon DEF next
  <2>2. CASE p # job.path
    <3>1. files'[p] = files[p]
      BY <1>6, <2>2
    <3>2. /\ (\A j \in Writers(p) : j > done) => files[p] = before[p]
          /\ \A j \in Writers(p) :
                (j <= done /\ \A k \in Writers(p) : k > j => k > done) => files[p] = Jobs[j].format
      BY DEF BetweenWrites
    <3>. QED  BY <2>0, <2>3, <3>1, <3>2, Zenon DEF next
  <2>. QED  BY <2>1, <2>2
<1>9. OneFileAtRisk'
  BY <1>1, <1>2, <1>8, Zenon DEF OneFileAtRisk, Writers
<1>. QED  BY <1>6, <1>9

(* After the last write every file holds what its last job made of it.     *)
LEMMA AllDoneIsWhole ==
    ASSUME TypeOK, BetweenWrites, done = Len(Jobs)
    PROVE  \A j \in DOMAIN Jobs :
               (\A k \in DOMAIN Jobs : k > j => Jobs[k].path # Jobs[j].path)
                   => files[Jobs[j].path] = Jobs[j].format
<1>1. /\ Len(Jobs) \in Nat /\ DOMAIN Jobs = 1..Len(Jobs)
      /\ \A j \in 1..Len(Jobs) : Jobs[j].path \in Paths
  BY JobsTyped DEF TypeOK
<1>2. SUFFICES ASSUME NEW j \in DOMAIN Jobs,
                      \A k \in DOMAIN Jobs : k > j => Jobs[k].path # Jobs[j].path
               PROVE  files[Jobs[j].path] = Jobs[j].format
  OBVIOUS
<1>. DEFINE p == Jobs[j].path
<1>3. j <= done /\ p \in Paths
  BY <1>1
<1>4. j \in Writers(p) /\ \A k \in Writers(p) : ~(k > j)
  BY <1>2 DEF Writers
<1>. HIDE DEF p
<1>5. files[p] = Jobs[j].format
  BY <1>3, <1>4, Zenon DEF BetweenWrites
<1>. QED  BY <1>5 DEF p

-----------------------------------------------------------------------------
(* Every step keeps the invariant.                                         *)
LEMMA NextKeepsInv == IInv /\ [Next]_vars => IInv'
<1>. SUFFICES ASSUME IInv, [Next]_vars  PROVE IInv'
  OBVIOUS
<1>0. /\ report \in Reports /\ opts \in Options /\ done \in 0..Len(Jobs) /\ Len(Jobs) \in Nat
      /\ before \in [Paths -> Contents] /\ files \in [Paths -> Contents] /\ TypeOK
      /\ OneFileAtRisk /\ SuccessIsWhole
  BY JobsTyped DEF IInv, TypeOK, Contents
<1>1. CASE PrintReport
  <2>1. /\ UNCHANGED <<report, opts, before, done, files, status>> /\ pc' = "write"
        /\ status = "" /\ BetweenWrites
    BY <1>0, <1>1 DEF PrintReport, IInv, TypeOK
  <2>2. Jobs' = Jobs /\ \A p : Writers(p)' = Writers(p)
    BY <2>1, JobsStay
  <2>3. TypeOK'
    BY <1>0, <2>1, <2>2 DEF TypeOK, Contents
  <2>4. BetweenWrites'
    BY <2>1, <2>2 DEF BetweenWrites
  <2>5. OneFileAtRisk'
    <3>1. (pc = "print" => files = before /\ done = 0)'
      BY <2>1
    <3>. QED  BY <2>3, <2>4, <3>1, BetweenIsSafe, PTL
  <2>. QED  BY <2>1, <2>3, <2>4, <2>5 DEF IInv, SuccessIsWhole
<1>2. CASE PrintPanics
  <2>1. /\ UNCHANGED <<report, opts, before, done, files>> /\ pc' = "exited" /\ status' = "error"
        /\ pc = "print" /\ files = before /\ done = 0 /\ BetweenWrites
    BY <1>2 DEF PrintPanics, IInv
  <2>2. Jobs' = Jobs /\ \A p : Writers(p)' = Writers(p)
    BY <2>1, JobsStay
  <2>3. TypeOK'
    BY <1>0, <2>1, <2>2 DEF TypeOK, Contents
  <2>4. BetweenWrites'
    BY <2>1, <2>2 DEF BetweenWrites
  <2>5. OneFileAtRisk'
    <3>1. (pc = "print" => files = before /\ done = 0)'
      BY <2>1
    <3>. QED  BY <2>3, <2>4, <3>1, BetweenIsSafe, PTL
  <2>. QED  BY <2>1, <2>3, <2>5 DEF IInv, SuccessIsWhole
<1>3. CASE WriteFile
  <2>1. /\ UNCHANGED <<report, opts, before, pc, status>> /\ pc = "write" /\ status = ""
        /\ done < Len(Jobs) /\ done' = done + 1
        /\ files' = [files EXCEPT ![Jobs[done + 1].path] = Jobs[done + 1].format]
    BY <1>0, <1>3 DEF WriteFile, TypeOK
  <2>2. Jobs' = Jobs
    BY <2>1, JobsStay
  <2>3. done' \in 0..Len(Jobs) /\ done + 1 \in 1..Len(Jobs)
    <3>1. Len(Jobs) \in Nat /\ done \in 0..Len(Jobs) /\ done < Len(Jobs) /\ done' = done + 1
      BY <1>0, <2>1
    <3>. QED  BY <3>1
  <2>4. files' \in [Paths -> Contents]
    <3>1. Jobs[done + 1].format \in Contents
      BY <1>0, <2>3, JobsTyped DEF Contents
    <3>. QED  BY <1>0, <2>1, <3>1
  <2>5. TypeOK'
    BY <1>0, <2>1, <2>2, <2>3, <2>4 DEF TypeOK, Contents
  <2>6. BetweenWrites'
    BY <1>0, <1>3, <2>1, WriteKeepsBetween DEF IInv
  <2>7. OneFileAtRisk'
    <3>1. (pc = "print" => files = before /\ done = 0)'
      BY <2>1
    <3>. QED  BY <2>5, <2>6, <3>1, BetweenIsSafe, PTL
  <2>. QED  BY <2>1, <2>5, <2>6, <2>7 DEF IInv, SuccessIsWhole
<1>4. CASE WriteFails
  <2>1. /\ UNCHANGED <<report, opts, before, done>> /\ pc' = "exited" /\ status' = "error"
        /\ pc = "write"
    BY <1>4 DEF WriteFails
  <2>2. Jobs' = Jobs
    BY <2>1, JobsStay
  <2>3. OneFileAtRisk' /\ files' \in [Paths -> Contents]
    BY <1>0, <1>4, <2>1, FailureTouchesOne DEF IInv
  <2>4. TypeOK'
    BY <1>0, <2>1, <2>2, <2>3 DEF TypeOK, Contents
  <2>. QED  BY <2>1, <2>3, <2>4 DEF IInv, SuccessIsWhole
<1>5. CASE AllWritten
  <2>1. /\ UNCHANGED <<report, opts, before, done, files>> /\ pc' = "exited" /\ status' = "ok"
        /\ pc = "write" /\ done = Len(Jobs) /\ BetweenWrites
    BY <1>5 DEF AllWritten, IInv
  <2>2. Jobs' = Jobs /\ \A p : Writers(p)' = Writers(p)
    BY <2>1, JobsStay
  <2>3. TypeOK'
    BY <1>0, <2>1, <2>2 DEF TypeOK, Contents
  <2>4. BetweenWrites'
    BY <2>1, <2>2 DEF BetweenWrites
  <2>5. OneFileAtRisk'
    <3>1. (pc = "print" => files = before /\ done = 0)'
      BY <2>1
    <3>. QED  BY <2>3, <2>4, <3>1, BetweenIsSafe, PTL
  <2>6. SuccessIsWhole'
    BY <1>0, <2>1, <2>2, AllDoneIsWhole, Zenon DEF SuccessIsWhole
  <2>. QED  BY <2>1, <2>3, <2>5, <2>6 DEF IInv
<1>6. CASE UNCHANGED vars
  <2>1. UNCHANGED <<report, opts, before, pc, done, files, status>>
    BY <1>6 DEF vars
  <2>2. Jobs' = Jobs /\ \A p : Writers(p)' = Writers(p)
    BY <2>1, JobsStay
  <2>3. TypeOK'
    BY <1>0, <2>1, <2>2 DEF TypeOK, Contents
  <2>4. BetweenWrites' = BetweenWrites
    BY <2>1, <2>2 DEF BetweenWrites
  <2>5. OneFileAtRisk' /\ SuccessIsWhole'
    BY <1>0, <2>1, <2>2, Zenon DEF OneFileAtRisk, SuccessIsWhole
  <2>. QED  BY <2>1, <2>3, <2>4, <2>5 DEF IInv
<1>. QED  BY <1>1, <1>2, <1>3, <1>4, <1>5, <1>6 DEF Next, Exited

(* IInv holds of every run.                                                *)
LEMMA Inductive == Spec => []IInv
BY InitInv, NextKeepsInv, PTL DEF Spec

(* The state of the end of a run keeps its type, and a process that has    *)
(* exited has a status.                                                    *)
THEOREM TypeCorrect == Spec => []TypeOK
<1>1. IInv => TypeOK
  BY DEF IInv
<1>. QED  BY <1>1, Inductive, PTL

(* Whichever print or write fails (main.rs:342-374), only the file being   *)
(* written is at risk.                                                     *)
THEOREM OthersKept == Spec => []OneFileAtRisk
<1>1. IInv => OneFileAtRisk
  BY DEF IInv
<1>. QED  BY <1>1, Inductive, PTL

(* Exit status 0 says that every file asked for is whole, also when two    *)
(* options name the same file.                                             *)
THEOREM SuccessTellsTruth == Spec => []SuccessIsWhole
<1>1. IInv => SuccessIsWhole
  BY DEF IInv
<1>. QED  BY <1>1, Inductive, PTL

-----------------------------------------------------------------------------
(***************************************************************************)
(* The three renderers.                                                    *)
(***************************************************************************)

(* The rows that are kept one after the other, if the row k is kept where  *)
(* keep[k].                                                                *)
Keeps(t, rows, keep, n) ==
    /\ t \in [0..n -> Seq(Row)] /\ t[0] = << >>
    /\ \A k \in 1..n : t[k] = IF keep[k] THEN Append(t[k - 1], rows[k]) ELSE t[k - 1]

(* The loop of xml.rs.                                                     *)
Loop(open, rows) ==
    FoldLeft(LAMBDA kept, row : IF open /\ row.state # "open" THEN kept ELSE Append(kept, row),
             << >>, rows)

(* The loop of xml.rs keeps the rows one after the other.                  *)
LEMMA LoopIs ==
    ASSUME NEW open \in BOOLEAN, NEW n \in Nat, NEW rows \in [1..n -> Row]
    PROVE  \E t : /\ Keeps(t, rows, [k \in 1..n |-> ~(open /\ rows[k].state # "open")], n)
                  /\ Loop(open, rows) = t[n]
<1>. DEFINE keep == [k \in 1..n |-> ~(open /\ rows[k].state # "open")]
            V == Seq(Row)
            step == [i \in 1..n |-> [v \in V |-> IF keep[i] THEN Append(v, rows[i]) ELSE v]]
            good(g) == g = [s \in SUBSET DOMAIN rows |->
                               IF s = {} THEN << >>
                               ELSE IF open /\ rows[Max(s)].state # "open" THEN g[s \ {Max(s)}]
                               ELSE Append(g[s \ {Max(s)}], rows[Max(s)])]
            iter == CHOOSE g : good(g)
<1>0. DOMAIN rows = 1..n /\ \A i \in 1..n : rows[i] \in Row
  OBVIOUS
<1>1. \A i \in 1..n : \A v \in V : (IF keep[i] THEN Append(v, rows[i]) ELSE v) \in V
  <2>. HIDE DEF keep
  <2>1. \A i \in 1..n : \A v \in Seq(Row) : Append(v, rows[i]) \in Seq(Row)
    BY <1>0, AppendProperties
  <2>. QED  BY <2>1
<1>2. \A i \in 1..n : /\ step[i] \in [V -> V]
                      /\ \A v \in V : step[i][v] = IF keep[i] THEN Append(v, rows[i]) ELSE v
  <2>. HIDE DEF keep, V
  <2>. QED  BY <1>1
<1>3. << >> \in V
  OBVIOUS
<1>4. PICK g \in [SUBSET (1..n) -> V] : FoldsUp(g, step, << >>, n)
  <2>. HIDE DEF step, V
  <2>. DEFINE none == << >>
  <2>1. none \in V
    BY <1>3
  <2>. HIDE DEF none
  <2>2. \E g \in [SUBSET (1..n) -> V] : FoldsUp(g, step, none, n)
    BY <1>2, <2>1, FoldExists
  <2>. QED  BY <2>2 DEF none
<1>. HIDE DEF step, V
<1>5. good(g)
  <2>. DEFINE body(s) == IF open /\ rows[Max(s)].state # "open" THEN g[s \ {Max(s)}]
                         ELSE Append(g[s \ {Max(s)}], rows[Max(s)])
  <2>1. g = [s \in SUBSET (1..n) |-> IF s = {} THEN << >> ELSE step[Max(s)][g[s \ {Max(s)}]]]
    BY <1>4, Zenon DEF FoldsUp
  <2>2. ASSUME NEW s \in SUBSET (1..n), s # {}
        PROVE  step[Max(s)][g[s \ {Max(s)}]] = body(s)
    <3>1. Max(s) \in 1..n /\ s \ {Max(s)} \in SUBSET (1..n)
      BY <2>2, Greatest
    <3>2. g[s \ {Max(s)}] \in V
      BY <1>4, <3>1
    <3>3. keep[Max(s)] <=> ~(open /\ rows[Max(s)].state # "open")
      BY <3>1, Zenon
    <3>. HIDE DEF keep
    <3>4. step[Max(s)][g[s \ {Max(s)}]]
              = IF keep[Max(s)] THEN Append(g[s \ {Max(s)}], rows[Max(s)]) ELSE g[s \ {Max(s)}]
      BY <1>2, <3>1, <3>2, Zenon
    <3>. QED  BY <3>3, <3>4, Zenon
  <2>. HIDE DEF body
  <2>3. g = [s \in SUBSET (1..n) |-> IF s = {} THEN << >> ELSE body(s)]
    BY <2>1, <2>2, Zenon
  <2>. QED  BY <1>0, <2>3, Zenon DEF body
<1>6. good(iter)
  BY <1>5, Zenon
<1>7. Loop(open, rows) = iter[DOMAIN rows]
  BY DEF Loop, FoldLeft, MapThenFoldSet
<1>. HIDE DEF iter
<1>8. \A s \in SUBSET (1..n) :
          iter[s] = IF s = {} THEN << >>
                    ELSE IF open /\ rows[Max(s)].state # "open" THEN iter[s \ {Max(s)}]
                    ELSE Append(iter[s \ {Max(s)}], rows[Max(s)])
  BY <1>0, <1>6, Zenon
<1>. HIDE DEF good
<1>. DEFINE t == [k \in 0..n |-> iter[1..k]]
<1>9. t[0] = << >>
  <2>1. 0 \in 0..n
    OBVIOUS
  <2>. QED  BY <1>8, <2>1, FirstPlaces, Zenon
<1>10. ASSUME NEW k \in 1..n
       PROVE  t[k] = IF keep[k] THEN Append(t[k - 1], rows[k]) ELSE t[k - 1]
  <2>1. k \in 0..n /\ k - 1 \in 0..n
    OBVIOUS
  <2>2. iter[1..k] = IF open /\ rows[k].state # "open" THEN iter[1..(k - 1)]
                     ELSE Append(iter[1..(k - 1)], rows[k])
    BY <1>8, FirstPlaces, Zenon
  <2>3. keep[k] <=> ~(open /\ rows[k].state # "open")
    BY Zenon
  <2>. HIDE DEF keep
  <2>. QED  BY <2>1, <2>2, <2>3, Zenon
<1>11. Loop(open, rows) = t[n]
  <2>1. n \in 0..n
    OBVIOUS
  <2>. QED  BY <1>0, <1>7, <2>1, Zenon
<1>12. DOMAIN t = 0..n /\ t = [k \in 0..n |-> t[k]]
  OBVIOUS
<1>. HIDE DEF t, keep
<1>13. \A k \in 0..n : t[k] \in V
  <2>. DEFINE T == {k \in Nat : k <= n => t[k] \in V}
  <2>1. 0 \in T
    BY <1>3, <1>9
  <2>2. ASSUME NEW k \in Nat, k \in T
        PROVE  k + 1 \in T
    <3>. SUFFICES ASSUME k + 1 <= n  PROVE t[k + 1] \in V
      OBVIOUS
    <3>1. k + 1 \in 1..n /\ k + 1 - 1 = k /\ k <= n
      OBVIOUS
    <3>2. t[k + 1] = IF keep[k + 1] THEN Append(t[k], rows[k + 1]) ELSE t[k]
      <4>1. t[k + 1] = IF keep[k + 1] THEN Append(t[k + 1 - 1], rows[k + 1]) ELSE t[k + 1 - 1]
        <5>. DEFINE j == k + 1
        <5>1. j \in 1..n
          BY <3>1
        <5>. HIDE DEF j
        <5>2. t[j] = IF keep[j] THEN Append(t[j - 1], rows[j]) ELSE t[j - 1]
          BY <1>10, <5>1, Zenon
        <5>. QED  BY <5>2 DEF j
      <4>. QED  BY <3>1, <4>1
    <3>3. t[k] \in V
      BY <2>2, <3>1
    <3>. QED  BY <1>1, <3>1, <3>2, <3>3, Zenon
  <2>. HIDE DEF T
  <2>3. Nat \subseteq T
    BY <2>1, <2>2, AllNumbers
  <2>4. \A k \in 0..n : k \in Nat /\ k <= n
    OBVIOUS
  <2>. QED  BY <2>3, <2>4, Zenon DEF T
<1>14. Keeps(t, rows, keep, n)
  <2>1. t \in [0..n -> V]
    BY <1>12, <1>13, Zenon
  <2>. QED  BY <1>9, <1>10, <2>1, Zenon DEF Keeps, V
<1>. QED  BY <1>11, <1>14, Zenon DEF keep

(* retain and filter keep what the loop of xml.rs keeps.                   *)
LEMMA OpenRowsIs == \A rows : OpenRows(rows) = Loop(TRUE, rows)
<1>. SUFFICES ASSUME NEW rows  PROVE OpenRows(rows) = Loop(TRUE, rows)
  OBVIOUS
<1>. DEFINE Filters(g, s) == IF rows[Max(s)].state = "open"
                             THEN Append(g[s \ {Max(s)}], rows[Max(s)]) ELSE g[s \ {Max(s)}]
            Loops(g, s) == IF TRUE /\ rows[Max(s)].state # "open" THEN g[s \ {Max(s)}]
                           ELSE Append(g[s \ {Max(s)}], rows[Max(s)])
            One(g) == [s \in SUBSET DOMAIN rows |-> IF s = {} THEN << >> ELSE Filters(g, s)]
            Other(g) == [s \in SUBSET DOMAIN rows |-> IF s = {} THEN << >> ELSE Loops(g, s)]
<1>1. OpenRows(rows) = (CHOOSE g : g = One(g))[DOMAIN rows]
  BY Zenon DEF OpenRows, FoldLeft, MapThenFoldSet
<1>2. Loop(TRUE, rows) = (CHOOSE g : g = Other(g))[DOMAIN rows]
  BY Zenon DEF Loop, FoldLeft, MapThenFoldSet
<1>3. ASSUME NEW g  PROVE One(g) = Other(g)
  <2>1. \A s : Filters(g, s) = Loops(g, s)
    BY Zenon
  <2>. HIDE DEF Filters, Loops
  <2>. QED  BY <2>1, Zenon
<1>. HIDE DEF One, Other
<1>4. \A g : (g = One(g)) <=> (g = Other(g))
  BY <1>3, Zenon
<1>5. (CHOOSE g : g = One(g)) = (CHOOSE g : g = Other(g))
  BY <1>4, Zenon
<1>. QED  BY <1>1, <1>2, <1>5, Zenon

(* The rows of a sequence, by their places.                                *)
LEMMA RowsAre ==
    ASSUME NEW rows \in Seq(Row)
    PROVE  Len(rows) \in Nat /\ rows \in [1..Len(rows) -> Row] /\ DOMAIN rows = 1..Len(rows)
BY LenProperties, ElementOfSeq

(* A loop that leaves no row out gives all of them.                        *)
LEMMA LoopAll ==
    ASSUME NEW open \in BOOLEAN, NEW rows \in Seq(Row),
           open => \A k \in 1..Len(rows) : rows[k].state = "open"
    PROVE  Loop(open, rows) = rows
<1>. DEFINE n == Len(rows)
<1>1. n \in Nat /\ rows \in [1..n -> Row]
  BY RowsAre
<1>. HIDE DEF n
<1>. DEFINE keep == [k \in 1..n |-> ~(open /\ rows[k].state # "open")]
<1>2. PICK t : Keeps(t, rows, keep, n) /\ Loop(open, rows) = t[n]
  BY <1>1, LoopIs, Zenon
<1>3. \A k \in 1..n : keep[k]
  BY Zenon DEF n
<1>. HIDE DEF keep
<1>4. /\ t \in [0..n -> Seq(Row)] /\ t[0] = << >>
      /\ \A k \in 1..n : t[k] = Append(t[k - 1], rows[k])
  BY <1>2, <1>3, Zenon DEF Keeps
<1>. DEFINE T == {k \in Nat : k <= n => Len(t[k]) = k /\ \A i \in 1..k : t[k][i] = rows[i]}
<1>5. 0 \in T
  BY <1>4
<1>6. ASSUME NEW k \in Nat, k \in T
      PROVE  k + 1 \in T
  <2>. SUFFICES ASSUME k + 1 <= n
                PROVE  Len(t[k + 1]) = k + 1 /\ \A i \in 1..(k + 1) : t[k + 1][i] = rows[i]
    OBVIOUS
  <2>1. k + 1 \in 1..n /\ k + 1 - 1 = k /\ k <= n /\ k \in 0..n
    BY <1>1
  <2>2. t[k + 1] = Append(t[k], rows[k + 1])
    <3>1. t[k + 1] = Append(t[k + 1 - 1], rows[k + 1])
      BY <1>4, <2>1
    <3>. QED  BY <2>1, <3>1
  <2>3. t[k] \in Seq(Row) /\ rows[k + 1] \in Row
    BY <1>1, <1>4, <2>1
  <2>4. Len(t[k]) = k /\ \A i \in 1..k : t[k][i] = rows[i]
    BY <1>6, <2>1
  <2>5. /\ Len(t[k + 1]) = k + 1
        /\ \A i \in 1..k : t[k + 1][i] = t[k][i]
        /\ t[k + 1][k + 1] = rows[k + 1]
    BY <2>2, <2>3, <2>4, AppendProperties
  <2>6. \A i \in 1..(k + 1) : i \in 1..k \/ i = k + 1
    OBVIOUS
  <2>. QED  BY <2>4, <2>5, <2>6
<1>. HIDE DEF T
<1>7. n \in T /\ n <= n /\ n \in 0..n
  BY <1>1, <1>5, <1>6, AllNumbers
<1>8. Len(t[n]) = n /\ (\A i \in 1..n : t[n][i] = rows[i]) /\ t[n] \in Seq(Row)
  BY <1>4, <1>7, Zenon DEF T
<1>9. t[n] \in [1..n -> Row]
  BY <1>8, RowsAre
<1>10. t[n] = rows
  BY <1>1, <1>8, <1>9
<1>. QED  BY <1>2, <1>10

(* What is kept of open rows only is open.                                 *)
LEMMA LoopOpen ==
    ASSUME NEW rows \in Seq(Row)
    PROVE  /\ Loop(TRUE, rows) \in Seq(Row)
           /\ \A i \in 1..Len(Loop(TRUE, rows)) : Loop(TRUE, rows)[i].state = "open"
<1>. DEFINE n == Len(rows)
            keep == [k \in 1..n |-> ~(TRUE /\ rows[k].state # "open")]
<1>1. n \in Nat /\ rows \in [1..n -> Row]
  BY RowsAre
<1>. HIDE DEF n
<1>2. PICK t : Keeps(t, rows, keep, n) /\ Loop(TRUE, rows) = t[n]
  <2>1. TRUE \in BOOLEAN
    OBVIOUS
  <2>. QED  BY <1>1, <2>1, LoopIs, Zenon
<1>3. \A k \in 1..n : keep[k] <=> rows[k].state = "open"
  BY Zenon
<1>. HIDE DEF keep
<1>4. /\ t \in [0..n -> Seq(Row)] /\ t[0] = << >>
      /\ \A k \in 1..n : t[k] = IF rows[k].state = "open" THEN Append(t[k - 1], rows[k]) ELSE t[k - 1]
  BY <1>2, <1>3, Zenon DEF Keeps
<1>. DEFINE T == {k \in Nat : k <= n => \A i \in 1..Len(t[k]) : t[k][i].state = "open"}
<1>5. 0 \in T
  BY <1>4
<1>6. ASSUME NEW k \in Nat, k \in T
      PROVE  k + 1 \in T
  <2>. SUFFICES ASSUME k + 1 <= n
                PROVE  \A i \in 1..Len(t[k + 1]) : t[k + 1][i].state = "open"
    OBVIOUS
  <2>1. k + 1 \in 1..n /\ k + 1 - 1 = k /\ k <= n /\ k \in 0..n
    BY <1>1
  <2>2. t[k + 1] = IF rows[k + 1].state = "open" THEN Append(t[k], rows[k + 1]) ELSE t[k]
    <3>. DEFINE j == k + 1
    <3>1. j \in 1..n
      BY <2>1
    <3>. HIDE DEF j
    <3>2. t[j] = IF rows[j].state = "open" THEN Append(t[j - 1], rows[j]) ELSE t[j - 1]
      BY <1>4, <3>1, Zenon
    <3>. QED  BY <2>1, <3>2 DEF j
  <2>3. t[k] \in Seq(Row) /\ rows[k + 1] \in Row
    BY <1>1, <1>4, <2>1
  <2>4. \A i \in 1..Len(t[k]) : t[k][i].state = "open"
    BY <1>6, <2>1
  <2>5. CASE rows[k + 1].state = "open"
    <3>. DEFINE more == Append(t[k], rows[k + 1])
    <3>1. /\ Len(more) = Len(t[k]) + 1
          /\ \A i \in 1..Len(t[k]) : more[i] = t[k][i]
          /\ more[Len(t[k]) + 1] = rows[k + 1]
      BY <2>3, AppendProperties
    <3>2. Len(t[k]) \in Nat
      BY <2>3, LenProperties
    <3>. HIDE DEF more
    <3>3. \A i \in 1..Len(more) : i \in 1..Len(t[k]) \/ i = Len(t[k]) + 1
      BY <3>1, <3>2
    <3>4. \A i \in 1..Len(more) : more[i].state = "open"
      BY <2>4, <2>5, <3>1, <3>3
    <3>. QED  BY <2>2, <2>5, <3>4 DEF more
  <2>6. CASE rows[k + 1].state # "open"
    BY <2>2, <2>4, <2>6
  <2>. QED  BY <2>5, <2>6
<1>. HIDE DEF T
<1>7. n \in T /\ n <= n /\ n \in 0..n
  BY <1>1, <1>5, <1>6, AllNumbers
<1>8. (\A i \in 1..Len(t[n]) : t[n][i].state = "open") /\ t[n] \in Seq(Row)
  BY <1>4, <1>7, Zenon DEF T
<1>. QED  BY <1>2, <1>8

(* Taking the open rows twice takes them once; of no rows it is none.      *)
LEMMA OpenRowsFacts ==
    /\ \A rows \in Seq(Row) : OpenRows(rows) \in Seq(Row) /\ OpenRows(OpenRows(rows)) = OpenRows(rows)
    /\ OpenRows(<< >>) = << >>
    /\ \A open \in BOOLEAN : Loop(open, << >>) = << >>
<1>1. ASSUME NEW rows \in Seq(Row)
      PROVE  OpenRows(rows) \in Seq(Row) /\ OpenRows(OpenRows(rows)) = OpenRows(rows)
  <2>. DEFINE some == Loop(TRUE, rows)
  <2>1. some \in Seq(Row) /\ \A i \in 1..Len(some) : some[i].state = "open"
    BY LoopOpen
  <2>. HIDE DEF some
  <2>2. Loop(TRUE, some) = some
    BY <2>1, LoopAll
  <2>3. OpenRows(rows) = some /\ OpenRows(some) = Loop(TRUE, some)
    BY OpenRowsIs DEF some
  <2>. QED  BY <2>1, <2>2, <2>3
<1>2. ASSUME NEW open \in BOOLEAN  PROVE Loop(open, << >>) = << >>
  <2>. DEFINE none == << >>
  <2>1. none \in Seq(Row) /\ \A k \in 1..Len(none) : none[k].state = "open"
    OBVIOUS
  <2>. HIDE DEF none
  <2>2. Loop(open, none) = none
    BY <2>1, LoopAll
  <2>. QED  BY <2>2 DEF none
<1>3. OpenRows(<< >>) = << >>
  BY <1>2, OpenRowsIs
<1>. QED  BY <1>1, <1>2, <1>3

(* The hosts of a report, and its rows.                                    *)
LEMMA ReportIs ==
    ASSUME TypeOK
    PROVE  /\ opts.open \in BOOLEAN
           /\ IsFiniteSet(DOMAIN report)
           /\ \A h \in DOMAIN report :
                 /\ report[h].ports \in Seq(Row)
                 /\ report[h].state # "up" => report[h].ports = << >>
<1>1. report \in Reports /\ opts \in Options
  BY DEF TypeOK
<1>2. opts.open \in BOOLEAN
  BY <1>1 DEF Options
<1>3. report \in Seq(Host)
  BY <1>1, ReportsAssumption
<1>4. Len(report) \in Nat /\ DOMAIN report = 1..Len(report)
  BY <1>3, LenProperties
<1>5. IsFiniteSet(DOMAIN report)
  BY <1>4, FS_Interval
<1>6. \A h \in DOMAIN report : report[h] \in Host
  BY <1>3, <1>4, ElementOfSeq
<1>7. \A h \in DOMAIN report : report[h].ports \in Seq(Row)
  <2>1. \A host \in Host : host.ports \in Seq(Row)
    BY DEF Host
  <2>. QED  BY <1>6, <2>1
<1>8. \A h \in DOMAIN report : report[h].state # "up" => report[h].ports = << >>
  BY <1>1, ReportsAssumption
<1>. QED  BY <1>2, <1>5, <1>7, <1>8

(* Under every host the three formats have the same rows.                  *)
LEMMA RowsAgree ==
    ASSUME TypeOK, NEW h \in DOMAIN report
    PROVE  /\ NormalRows(report[h]) = XmlRows(report[h])
           /\ XmlRows(report[h]) = JsonRows(report[h])
           /\ OpenIn(NormalRows(report[h])) = OpenIn(report[h].ports)
<1>. DEFINE rows == report[h].ports
            open == opts.open
<1>1. open \in BOOLEAN /\ rows \in Seq(Row) /\ (report[h].state # "up" => rows = << >>)
  BY ReportIs
<1>2. XmlRows(report[h]) = Loop(open, rows)
  BY Zenon DEF XmlRows, Loop
<1>3. JsonRows(report[h]) = IF open THEN OpenRows(rows) ELSE rows
  BY Zenon DEF JsonRows
<1>4. NormalRows(report[h]) = IF report[h].state # "up" THEN << >> ELSE IF open THEN OpenRows(rows) ELSE rows
  BY Zenon DEF NormalRows
<1>. HIDE DEF rows, open
<1>5. Loop(open, rows) = IF open THEN OpenRows(rows) ELSE rows
  <2>1. CASE open = TRUE
    BY <2>1, OpenRowsIs
  <2>2. CASE open = FALSE
    <3>1. Loop(open, rows) = rows
      BY <1>1, <2>2, LoopAll
    <3>. QED  BY <2>2, <3>1
  <2>. QED  BY <1>1, <2>1, <2>2
<1>6. CASE rows = << >>
  <2>1. OpenRows(rows) = << >>
    BY <1>6, OpenRowsFacts
  <2>2. NormalRows(report[h]) = rows /\ JsonRows(report[h]) = rows
    BY <1>3, <1>4, <1>6, <2>1
  <2>. QED  BY <1>2, <1>5, <1>6, <2>1, <2>2 DEF rows
<1>7. CASE rows # << >>
  <2>1. NormalRows(report[h]) = IF open THEN OpenRows(rows) ELSE rows
    BY <1>1, <1>4, <1>7
  <2>2. OpenRows(OpenRows(rows)) = OpenRows(rows)
    BY <1>1, OpenRowsFacts
  <2>3. OpenRows(NormalRows(report[h])) = OpenRows(rows)
    BY <2>1, <2>2
  <2>4. OpenIn(NormalRows(report[h])) = OpenIn(rows)
    BY <2>3, Zenon DEF OpenIn
  <2>. QED  BY <1>2, <1>3, <1>5, <2>1, <2>4 DEF rows
<1>. QED  BY <1>6, <1>7

(* The total of the rows shown as open is the total of the open ones.      *)
LEMMA TotalsAgree ==
    ASSUME TypeOK
    PROVE  OpenPortCount = MapThenSumSet(LAMBDA h : OpenIn(NormalRows(report[h])), DOMAIN report)
<1>. DEFINE hosts == DOMAIN report
            any(s) == CHOOSE h \in s : TRUE
            All(h) == OpenIn(report[h].ports)
            Shown(h) == OpenIn(NormalRows(report[h]))
            Adds(g, s) == IF s = {} THEN 0 ELSE All(any(s)) + g[s \ {any(s)}]
            AddsShown(g, s) == IF s = {} THEN 0 ELSE Shown(any(s)) + g[s \ {any(s)}]
            One(g) == [s \in SUBSET hosts |-> Adds(g, s)]
            Other(g) == [s \in SUBSET hosts |-> AddsShown(g, s)]
<1>1. \A h \in hosts : All(h) = Shown(h)
  BY RowsAgree, Zenon
<1>2. OpenPortCount = (CHOOSE g : g = One(g))[hosts]
  BY Zenon DEF OpenPortCount, MapThenSumSet, MapThenFoldSet
<1>3. MapThenSumSet(LAMBDA h : OpenIn(NormalRows(report[h])), DOMAIN report)
      = (CHOOSE g : g = Other(g))[hosts]
  BY Zenon DEF MapThenSumSet, MapThenFoldSet
<1>. HIDE DEF All, Shown, hosts
<1>4. ASSUME NEW g  PROVE One(g) = Other(g)
  <2>1. ASSUME NEW s \in SUBSET hosts  PROVE Adds(g, s) = AddsShown(g, s)
    <3>1. s # {} => any(s) \in s
      BY Zenon
    <3>. HIDE DEF any
    <3>2. s # {} => All(any(s)) = Shown(any(s))
      BY <1>1, <3>1, Zenon
    <3>. QED  BY <3>2
  <2>. HIDE DEF Adds, AddsShown
  <2>. QED  BY <2>1, Zenon
<1>. HIDE DEF One, Other
<1>5. \A g : (g = One(g)) <=> (g = Other(g))
  BY <1>4, Zenon
<1>6. (CHOOSE g : g = One(g)) = (CHOOSE g : g = Other(g))
  BY <1>5, Zenon
<1>. QED  BY <1>2, <1>3, <1>6, Zenon

(* An open port is one of a host that is up.                               *)
LEMMA OpenMeansUp ==
    ASSUME TypeOK, OpenPortCount > 0
    PROVE  UpCount > 0
<1>. DEFINE hosts == DOMAIN report
            up == {h \in hosts : report[h].state = "up"}
            any(s) == CHOOSE h \in s : TRUE
            All(h) == OpenIn(report[h].ports)
            Adds(g, s) == IF s = {} THEN 0 ELSE All(any(s)) + g[s \ {any(s)}]
            Good(g) == g = [s \in SUBSET hosts |-> Adds(g, s)]
            total == CHOOSE g : Good(g)
<1>1. IsFiniteSet(hosts)
  BY ReportIs
<1>2. OpenPortCount = total[hosts]
  BY Zenon DEF OpenPortCount, MapThenSumSet, MapThenFoldSet
<1>3. up # {}
  <2>. SUFFICES ASSUME up = {}  PROVE FALSE
    OBVIOUS
  <2>1. ASSUME NEW h \in hosts  PROVE All(h) = 0
    <3>1. report[h].ports = << >>
      BY ReportIs
    <3>2. OpenIn(<< >>) = 0
      BY OpenRowsFacts DEF OpenIn
    <3>. QED  BY <3>1, <3>2
  <2>. HIDE DEF All, hosts, up
  <2>2. \A s \in SUBSET hosts : s # {} => any(s) \in s /\ any(s) \in hosts
    <3>1. \A s \in SUBSET hosts : s # {} => any(s) \in s
      BY Zenon
    <3>. HIDE DEF any
    <3>. QED  BY <3>1
  <2>. HIDE DEF any
  <2>3. \E g : Good(g)
    <3>. DEFINE zero == [s \in SUBSET hosts |-> 0]
    <3>1. ASSUME NEW s \in SUBSET hosts  PROVE Adds(zero, s) = 0
      <4>1. CASE s = {}
        BY <4>1
      <4>2. CASE s # {}
        <5>1. All(any(s)) = 0 /\ zero[s \ {any(s)}] = 0
          BY <2>1, <2>2, <4>2
        <5>. QED  BY <4>2, <5>1
      <4>. QED  BY <4>1, <4>2
    <3>2. Good(zero)
      <4>. HIDE DEF Adds
      <4>1. [s \in SUBSET hosts |-> Adds(zero, s)] = [s \in SUBSET hosts |-> 0]
        BY <3>1, Zenon
      <4>. QED  BY <4>1, Zenon
    <3>. QED  BY <3>2, Zenon
  <2>4. Good(total)
    BY <2>3, Zenon
  <2>. HIDE DEF total
  <2>5. \A s \in SUBSET hosts : total[s] = Adds(total, s)
    <3>. HIDE DEF Adds
    <3>. QED  BY <2>4, Zenon
  <2>. DEFINE T == {k \in Nat : \A s \in SUBSET hosts : Cardinality(s) = k => total[s] = 0}
  <2>6. 0 \in T
    <3>1. ASSUME NEW s \in SUBSET hosts, Cardinality(s) = 0  PROVE total[s] = 0
      <4>1. s = {}
        BY <1>1, <3>1, FS_Subset, FS_EmptySet
      <4>. QED  BY <2>5, <4>1
    <3>. QED  BY <3>1
  <2>7. ASSUME NEW k \in Nat, k \in T
        PROVE  k + 1 \in T
    <3>. SUFFICES ASSUME NEW s \in SUBSET hosts, Cardinality(s) = k + 1
                  PROVE  total[s] = 0
      OBVIOUS
    <3>1. IsFiniteSet(s) /\ s # {}
      BY <1>1, FS_Subset, FS_EmptySet
    <3>. DEFINE x == any(s)
                r == s \ {x}
    <3>2. x \in s /\ x \in hosts
      BY <2>2, <3>1
    <3>3. r \in SUBSET hosts /\ Cardinality(r) = k
      <4>1. Cardinality(r) = k + 1 - 1
        BY <3>1, <3>2, FS_RemoveElement
      <4>. QED  BY <4>1
    <3>4. total[s] = All(x) + total[r]
      BY <2>5, <3>1
    <3>5. All(x) = 0
      BY <2>1, <3>2
    <3>6. total[r] = 0
      <4>. HIDE DEF r
      <4>. QED  BY <2>7, <3>3
    <3>. HIDE DEF x, r
    <3>. QED  BY <3>4, <3>5, <3>6
  <2>8. Cardinality(hosts) \in Nat
    BY <1>1, FS_CardinalityType
  <2>. HIDE DEF T
  <2>9. Cardinality(hosts) \in T
    BY <2>6, <2>7, <2>8, AllNumbers
  <2>10. total[hosts] = 0
    BY <2>9 DEF T
  <2>. QED  BY <1>2, <2>10
<1>4. IsFiniteSet(up)
  BY <1>1, FS_Subset
<1>5. UpCount = Cardinality(up)
  BY DEF UpCount
<1>6. Cardinality(up) # 0 /\ Cardinality(up) \in Nat
  BY <1>3, <1>4, FS_EmptySet, FS_CardinalityType
<1>. QED  BY <1>5, <1>6

(* The three formats tell the same, with and without --open, and the last  *)
(* line counts what stands above it (normal.rs:33-40, xml.rs:46-48,        *)
(* json.rs:6-11, result.rs:100-109), for any report.                       *)
THEOREM FormatsAgree == Spec => []RenderingsAgree
<1>1. TypeOK => RenderingsAgree
  <2>. SUFFICES ASSUME TypeOK  PROVE RenderingsAgree
    OBVIOUS
  <2>1. \A h \in DOMAIN report : /\ NormalRows(report[h]) = XmlRows(report[h])
                                 /\ XmlRows(report[h]) = JsonRows(report[h])
    BY RowsAgree, Zenon
  <2>2. OpenPortCount = MapThenSumSet(LAMBDA h : OpenIn(NormalRows(report[h])), DOMAIN report)
    BY TotalsAgree, Zenon
  <2>3. OpenPortCount > 0 => UpCount > 0
    BY OpenMeansUp
  <2>. QED  BY <2>1, <2>2, <2>3, Zenon DEF RenderingsAgree
<1>. QED  BY <1>1, TypeCorrect, PTL

-----------------------------------------------------------------------------
(***************************************************************************)
(* The escaping of the XML.                                                *)
(***************************************************************************)
Chars == STRING \cup {"&", "<", ">", "quote", "apostrophe",
                       "amp;", "lt;", "gt;", "quot;", "apos;"}
Entities == [char: Chars, name: Chars]

(* What a character becomes, put after what the text before it has become. *)
Put(text, c, e) == IF c = e.char THEN Append(Append(text, "&"), e.name) ELSE Append(text, c)

(* The ampersand may be in a text.                                         *)
LEMMA Ampersand == "&" \in Chars
  BY DEF Chars

(* What a sequence with one more element looks like.                       *)
LEMMA OneMore ==
    ASSUME NEW X, NEW n \in Nat, NEW text \in Seq(X), Len(text) = n, NEW c \in X
    PROVE  /\ Append(text, c) \in Seq(X) /\ Len(Append(text, c)) = n + 1
           /\ DOMAIN Append(text, c) = 1..(n + 1)
           /\ \A i \in 1..n : Append(text, c)[i] = text[i]
           /\ Append(text, c)[n + 1] = c
<1>1. /\ Append(text, c) \in Seq(X) /\ Len(Append(text, c)) = n + 1
      /\ \A i \in 1..n : Append(text, c)[i] = text[i]
      /\ Append(text, c)[n + 1] = c
  BY AppendProperties
<1>2. DOMAIN Append(text, c) = 1..Len(Append(text, c))
  BY <1>1, LenProperties
<1>. QED  BY <1>1, <1>2

(* The pieces of replaced text.                                            *)
Pieces(text, e) ==
    [i \in DOMAIN text |-> IF text[i] = e.char THEN <<"&", e.name>> ELSE <<text[i]>>]

(* They are texts, and put together they are the replaced text.            *)
LEMMA PiecesAre ==
    ASSUME NEW e \in Entities, NEW n \in Nat, NEW text \in Seq(Chars), Len(text) = n
    PROVE  /\ DOMAIN text = 1..n
           /\ \A i \in 1..n : text[i] \in Chars
           /\ \A i \in 1..n : Pieces(text, e)[i] \in Seq(Chars)
           /\ Pieces(text, e) = FirstOfAll(Pieces(text, e), n)
           /\ Replaced(text, e) = FlattenSeq(FirstOfAll(Pieces(text, e), n))
<1>1. DOMAIN text = 1..n /\ \A i \in 1..n : text[i] \in Chars
  BY LenProperties, ElementOfSeq
<1>2. \A i \in 1..n : Pieces(text, e)[i] \in Seq(Chars)
  <2>1. ASSUME NEW i \in 1..n
        PROVE  Pieces(text, e)[i] \in Seq(Chars)
    <3>1. Pieces(text, e)[i] = IF text[i] = e.char THEN <<"&", e.name>> ELSE <<text[i]>>
      BY <1>1, Zenon DEF Pieces
    <3>2. e.name \in Chars /\ "&" \in Chars /\ text[i] \in Chars
      BY <1>1, Ampersand DEF Entities
    <3>3. \A a, b \in Chars : <<a, b>> \in Seq(Chars) /\ <<a>> \in Seq(Chars)
      OBVIOUS
    <3>. QED  BY <3>1, <3>2, <3>3
  <2>. QED  BY <2>1
<1>3. Pieces(text, e) = FirstOfAll(Pieces(text, e), n)
  BY <1>1 DEF Pieces, FirstOfAll
<1>4. Replaced(text, e) = FlattenSeq(Pieces(text, e))
  BY Zenon DEF Replaced, Pieces
<1>. QED  BY <1>1, <1>2, <1>3, <1>4, Zenon

(* The replaced text is a text.                                            *)
LEMMA ReplacedTyped ==
    ASSUME NEW e \in Entities, NEW text \in Seq(Chars)
    PROVE  Replaced(text, e) \in Seq(Chars)
<1>. DEFINE n == Len(text)
            f == Pieces(text, e)
            T == {k \in Nat : k <= n => FlattenSeq(FirstOfAll(f, k)) \in Seq(Chars)}
<1>1. n \in Nat
  BY LenProperties
<1>2. /\ \A i \in 1..n : f[i] \in Seq(Chars)
      /\ Replaced(text, e) = FlattenSeq(FirstOfAll(f, n))
  BY <1>1, PiecesAre
<1>. HIDE DEF n, f
<1>3. 0 \in T
  <2>1. FlattenSeq(FirstOfAll(f, 0)) = << >>
    BY FlattenNone
  <2>2. << >> \in Seq(Chars)
    OBVIOUS
  <2>. QED  BY <2>1, <2>2, Zenon
<1>4. ASSUME NEW k \in Nat, k \in T
      PROVE  k + 1 \in T
  <2>. SUFFICES ASSUME k + 1 <= n  PROVE FlattenSeq(FirstOfAll(f, k + 1)) \in Seq(Chars)
    OBVIOUS
  <2>1. k <= n /\ k + 1 \in 1..n /\ \A i \in 1..(k + 1) : i \in 1..n
    BY <1>1
  <2>2. FlattenSeq(FirstOfAll(f, k + 1)) = FlattenSeq(FirstOfAll(f, k)) \o f[k + 1]
    BY <1>2, <2>1, FlattenOneMore
  <2>3. FlattenSeq(FirstOfAll(f, k)) \in Seq(Chars) /\ f[k + 1] \in Seq(Chars)
    BY <1>2, <1>4, <2>1
  <2>. QED  BY <2>2, <2>3, ConcatProperties
<1>. HIDE DEF T
<1>5. n \in T /\ n <= n
  BY <1>1, <1>3, <1>4, AllNumbers
<1>. QED  BY <1>2, <1>5, Zenon DEF T

(* Two characters put after a text are put there one after the other.      *)
LEMMA TwoMore ==
    ASSUME NEW r \in Seq(Chars), NEW a \in Chars, NEW b \in Chars
    PROVE  r \o <<a, b>> = Append(Append(r, a), b)
<1>. DEFINE one == Append(r, a)
<1>1. <<a>> \in Seq(Chars) /\ <<b>> \in Seq(Chars) /\ <<a, b>> \in Seq(Chars)
  OBVIOUS
<1>2. <<a, b>> = <<a>> \o <<b>>
  <2>. DEFINE x == <<a>>
              y == <<b>>
              xy == <<a, b>>
  <2>1. /\ x \in Seq(Chars) /\ y \in Seq(Chars) /\ xy \in Seq(Chars)
        /\ Len(x) = 1 /\ Len(y) = 1 /\ Len(xy) = 2
        /\ x[1] = a /\ y[1] = b /\ xy[1] = a /\ xy[2] = b
    BY <1>1
  <2>. HIDE DEF x, y, xy
  <2>2. /\ x \o y \in Seq(Chars) /\ Len(x \o y) = 2
        /\ \A i \in 1..2 : (x \o y)[i] = IF i <= 1 THEN x[i] ELSE y[i - 1]
    <3>1. /\ x \o y \in Seq(Chars) /\ Len(x \o y) = Len(x) + Len(y)
          /\ \A i \in 1..(Len(x) + Len(y)) : (x \o y)[i] = IF i <= Len(x) THEN x[i] ELSE y[i - Len(x)]
      BY <2>1, ConcatProperties
    <3>2. Len(x) = 1 /\ Len(x) + Len(y) = 2
      BY <2>1
    <3>. QED  BY <3>1, <3>2
  <2>. DEFINE z == x \o y
  <2>3. \A i \in 1..Len(xy) : z[i] = xy[i]
    BY <2>1, <2>2
  <2>. HIDE DEF z
  <2>4. xy = z
    BY <2>1, <2>2, <2>3, SeqEqual DEF z
  <2>. QED  BY <2>4 DEF x, y, xy, z
<1>3. r \o (<<a>> \o <<b>>) = (r \o <<a>>) \o <<b>>
  BY <1>1, ConcatAssociative
<1>4. r \o <<a>> = one /\ one \in Seq(Chars)
  BY AppendIsConcat, AppendProperties
<1>. HIDE DEF one
<1>5. one \o <<b>> = Append(one, b)
  BY <1>4, AppendIsConcat
<1>. QED  BY <1>2, <1>3, <1>4, <1>5, Zenon DEF one

(* A text with one more character is replaced piece by piece.              *)
LEMMA ReplacedOneMore ==
    ASSUME NEW e \in Entities, NEW text \in Seq(Chars), NEW c \in Chars
    PROVE  Replaced(Append(text, c), e) = Put(Replaced(text, e), c, e)
<1>. DEFINE n == Len(text)
            more == Append(text, c)
            f == Pieces(more, e)
            old == Pieces(text, e)
            r == Replaced(text, e)
<1>1. n \in Nat
  BY LenProperties
<1>2. /\ more \in Seq(Chars) /\ Len(more) = n + 1
      /\ \A i \in 1..n : more[i] = text[i]
      /\ more[n + 1] = c /\ DOMAIN more = 1..(n + 1) /\ n + 1 \in Nat
  BY <1>1, OneMore
<1>3. /\ DOMAIN text = 1..n
      /\ r = FlattenSeq(FirstOfAll(old, n)) /\ r \in Seq(Chars)
  BY <1>1, PiecesAre, ReplacedTyped
<1>. HIDE DEF more, n
<1>4. /\ \A i \in 1..(n + 1) : f[i] \in Seq(Chars)
      /\ Replaced(more, e) = FlattenSeq(FirstOfAll(f, n + 1))
  <2>. DEFINE m == n + 1
  <2>1. m \in Nat /\ Len(more) = m /\ more \in Seq(Chars)
    BY <1>2
  <2>. HIDE DEF m
  <2>2. /\ \A i \in 1..m : f[i] \in Seq(Chars)
        /\ Replaced(more, e) = FlattenSeq(FirstOfAll(f, m))
    BY <2>1, PiecesAre
  <2>. QED  BY <2>2 DEF m
<1>5. \A i \in 1..(n + 1) : f[i] = IF more[i] = e.char THEN <<"&", e.name>> ELSE <<more[i]>>
  BY <1>2, Zenon DEF Pieces
<1>6. \A i \in 1..n : old[i] = IF text[i] = e.char THEN <<"&", e.name>> ELSE <<text[i]>>
  BY <1>3, Zenon DEF Pieces
<1>. HIDE DEF f, old, r
<1>7. FirstOfAll(f, n) = FirstOfAll(old, n)
  <2>1. \A i \in 1..n : i \in 1..(n + 1)
    BY <1>1
  <2>2. \A i \in 1..n : f[i] = old[i]
    BY <1>2, <1>5, <1>6, <2>1, Zenon
  <2>. QED  BY <2>2, Zenon DEF FirstOfAll
<1>8. Replaced(more, e) = r \o f[n + 1]
  BY <1>1, <1>3, <1>4, <1>7, FlattenOneMore
<1>9. n + 1 \in 1..(n + 1)
  BY <1>1
<1>10. f[n + 1] = IF c = e.char THEN <<"&", e.name>> ELSE <<c>>
  BY <1>2, <1>5, <1>9, Zenon
<1>11. e.name \in Chars /\ "&" \in Chars
  BY Ampersand DEF Entities
<1>12. r \o <<c>> = Append(r, c)
  BY <1>3, AppendIsConcat
<1>13. r \o <<"&", e.name>> = Append(Append(r, "&"), e.name)
  BY <1>3, <1>11, TwoMore
<1>. QED  BY <1>8, <1>10, <1>12, <1>13, Zenon DEF Put, more, r

(* The table of replacements: no name is a character, the ampersand is the *)
(* first, and each character and each name is there once.                  *)
Named(c) == \E i \in 1..5 : Replacements[i].char = c
NameOf(c) == (CHOOSE e \in Range(Replacements) : e.char = c).name

(* The facts about the table that the escaping rests on.                   *)
LEMMA TableOfEntities ==
    /\ DOMAIN Replacements = 1..5
    /\ \A i \in 1..5 : Replacements[i] \in Entities
    /\ Replacements[1].char = "&"
    /\ \A i \in 2..5 : Replacements[i].char # "&"
    /\ \A i, j \in 1..5 : Replacements[i].name # Replacements[j].char
    /\ \A i \in 1..5 : NameOf(Replacements[i].char) = Replacements[i].name
    /\ \A i \in 1..5 : CharOf(Replacements[i].name) = Replacements[i].char
    /\ \A c \in {"<", ">", "quote", "apostrophe"} : Named(c)
    /\ \A i \in 1..5 : Replacements[i].name \notin {"<", ">", "quote", "apostrophe", "&"}
<1>1. /\ Len(Replacements) = 5 /\ DOMAIN Replacements = 1..5
      /\ Replacements[1] = Entity("&", "amp;") /\ Replacements[2] = Entity("<", "lt;")
      /\ Replacements[3] = Entity(">", "gt;") /\ Replacements[4] = Entity("quote", "quot;")
      /\ Replacements[5] = Entity("apostrophe", "apos;")
  BY DEF Replacements
<1>2. /\ Replacements[1].char = "&" /\ Replacements[1].name = "amp;"
      /\ Replacements[2].char = "<" /\ Replacements[2].name = "lt;"
      /\ Replacements[3].char = ">" /\ Replacements[3].name = "gt;"
      /\ Replacements[4].char = "quote" /\ Replacements[4].name = "quot;"
      /\ Replacements[5].char = "apostrophe" /\ Replacements[5].name = "apos;"
  <2>1. \A r, a, b : r = Entity(a, b) => r.char = a /\ r.name = b
    BY DEF Entity
  <2>. HIDE DEF Entity
  <2>2. Replacements[1].char = "&" /\ Replacements[1].name = "amp;"
    <3>1. Replacements[1] = Entity("&", "amp;")
      BY <1>1, Zenon
    <3>. QED  BY <2>1, <3>1, Zenon
  <2>3. Replacements[2].char = "<" /\ Replacements[2].name = "lt;"
    <3>1. Replacements[2] = Entity("<", "lt;")
      BY <1>1, Zenon
    <3>. QED  BY <2>1, <3>1, Zenon
  <2>4. Replacements[3].char = ">" /\ Replacements[3].name = "gt;"
    <3>1. Replacements[3] = Entity(">", "gt;")
      BY <1>1, Zenon
    <3>. QED  BY <2>1, <3>1, Zenon
  <2>5. Replacements[4].char = "quote" /\ Replacements[4].name = "quot;"
    <3>1. Replacements[4] = Entity("quote", "quot;")
      BY <1>1, Zenon
    <3>. QED  BY <2>1, <3>1, Zenon
  <2>6. Replacements[5].char = "apostrophe" /\ Replacements[5].name = "apos;"
    <3>1. Replacements[5] = Entity("apostrophe", "apos;")
      BY <1>1, Zenon
    <3>. QED  BY <2>1, <3>1, Zenon
  <2>. QED  BY <2>2, <2>3, <2>4, <2>5, <2>6
<1>3. ASSUME NEW i \in 1..5
      PROVE  Replacements[i] \in Entities
  <2>1. \A a, b \in Chars : Entity(a, b) \in Entities
    BY DEF Entity, Entities
  <2>2. {"&", "<", ">", "quote", "apostrophe", "amp;", "lt;", "gt;", "quot;", "apos;"} \subseteq Chars
    BY DEF Chars
  <2>3. i = 1 \/ i = 2 \/ i = 3 \/ i = 4 \/ i = 5
    OBVIOUS
  <2>. QED  BY <1>1, <2>1, <2>2, <2>3
<1>4. \A i \in 1..5 : i = 1 \/ i = 2 \/ i = 3 \/ i = 4 \/ i = 5
  OBVIOUS
<1>5. /\ \A i, j \in 1..5 : Replacements[i].char = Replacements[j].char => i = j
      /\ \A i, j \in 1..5 : Replacements[i].name = Replacements[j].name => i = j
  BY <1>2, <1>4
<1>6. ASSUME NEW e  PROVE e \in Range(Replacements) <=> \E i \in 1..5 : e = Replacements[i]
  BY <1>1 DEF Range
<1>7. ASSUME NEW i \in 1..5
      PROVE  /\ NameOf(Replacements[i].char) = Replacements[i].name
             /\ CharOf(Replacements[i].name) = Replacements[i].char
  <2>1. Replacements[i] \in Range(Replacements)
    BY <1>6
  <2>2. \A e \in Range(Replacements) : e.char = Replacements[i].char => e = Replacements[i]
    BY <1>5, <1>6
  <2>3. \A e \in Range(Replacements) : e.name = Replacements[i].name => e = Replacements[i]
    BY <1>5, <1>6
  <2>4. (CHOOSE e \in Range(Replacements) : e.char = Replacements[i].char) = Replacements[i]
    BY <2>1, <2>2, Zenon
  <2>5. (CHOOSE e \in Range(Replacements) : e.name = Replacements[i].name) = Replacements[i]
    BY <2>1, <2>3, Zenon
  <2>. QED  BY <2>4, <2>5, Zenon DEF NameOf, CharOf
<1>8. /\ \A i \in 2..5 : Replacements[i].char # "&"
      /\ \A i, j \in 1..5 : Replacements[i].name # Replacements[j].char
      /\ \A i \in 1..5 : Replacements[i].name \notin {"<", ">", "quote", "apostrophe", "&"}
  <2>1. \A i \in 2..5 : i = 2 \/ i = 3 \/ i = 4 \/ i = 5
    OBVIOUS
  <2>. QED  BY <1>2, <1>4, <2>1
<1>9. \A c \in {"<", ">", "quote", "apostrophe"} : Named(c)
  <2>1. 2 \in 1..5 /\ 3 \in 1..5 /\ 4 \in 1..5 /\ 5 \in 1..5
    OBVIOUS
  <2>. QED  BY <1>2, <2>1 DEF Named
<1>. QED  BY <1>1, <1>2, <1>3, <1>7, <1>8, <1>9

(* What a character has become after the first j replacements.             *)
After(j, text, c) ==
    IF \E i \in 1..j : Replacements[i].char = c
    THEN Append(Append(text, "&"), NameOf(c)) ELSE Append(text, c)

(* A replacement takes what the ones before it made of a character to what *)
(* it makes of it itself: it finds none of their ampersands and names.     *)
LEMMA AfterOneMore ==
    ASSUME NEW j \in 1..5, NEW text \in Seq(Chars), NEW c \in Chars
    PROVE  /\ Replaced(text, Replacements[j]) \in Seq(Chars)
           /\ After(j - 1, text, c) \in Seq(Chars)
           /\ Replaced(After(j - 1, text, c), Replacements[j])
                  = After(j, Replaced(text, Replacements[j]), c)
<1>. DEFINE e == Replacements[j]
            r == Replaced(text, e)
<1>1. e \in Entities /\ e.name \in Chars /\ "&" \in Chars
  BY TableOfEntities, Ampersand DEF Entities
<1>2. r \in Seq(Chars)
  BY <1>1, ReplacedTyped
<1>. HIDE DEF e, r
<1>3. CASE \E i \in 1..(j - 1) : Replacements[i].char = c
  <2>1. PICK i \in 1..(j - 1) : Replacements[i].char = c
    BY <1>3
  <2>2. i \in 1..5 /\ j \in 2..5 /\ i \in 1..j
    OBVIOUS
  <2>3. NameOf(c) = Replacements[i].name
    BY <2>1, <2>2, TableOfEntities
  <2>4. NameOf(c) # e.char /\ e.char # "&" /\ NameOf(c) \in Chars
    BY <2>2, <2>3, TableOfEntities DEF e, Entities
  <2>5. After(j - 1, text, c) = Append(Append(text, "&"), NameOf(c))
    BY <2>1 DEF After
  <2>6. After(j, r, c) = Append(Append(r, "&"), NameOf(c))
    BY <2>1, <2>2 DEF After
  <2>7. Append(text, "&") \in Seq(Chars) /\ Append(Append(text, "&"), NameOf(c)) \in Seq(Chars)
    BY <1>1, <2>4, AppendProperties
  <2>8. Replaced(Append(text, "&"), e) = Append(r, "&")
    BY <1>1, <2>4, ReplacedOneMore DEF Put, r
  <2>9. Replaced(Append(Append(text, "&"), NameOf(c)), e) = Append(Append(r, "&"), NameOf(c))
    <3>. DEFINE head == Append(text, "&")
                name == NameOf(c)
    <3>. HIDE DEF head, name
    <3>1. Replaced(Append(head, name), e) = Put(Replaced(head, e), name, e)
      BY <1>1, <2>4, <2>7, ReplacedOneMore DEF head, name
    <3>2. Put(Replaced(head, e), name, e) = Append(Replaced(head, e), name)
      BY <2>4 DEF Put, name
    <3>. QED  BY <2>8, <3>1, <3>2 DEF head, name
  <2>. QED  BY <1>2, <2>5, <2>6, <2>7, <2>9 DEF e, r
<1>4. CASE ~\E i \in 1..(j - 1) : Replacements[i].char = c
  <2>1. After(j - 1, text, c) = Append(text, c)
    BY <1>4 DEF After
  <2>2. Append(text, c) \in Seq(Chars)
    BY AppendProperties
  <2>3. Replaced(Append(text, c), e) = Put(r, c, e)
    BY <1>1, ReplacedOneMore DEF r
  <2>4. (\E i \in 1..j : Replacements[i].char = c) <=> c = e.char
    <3>1. \A i \in 1..j : i \in 1..(j - 1) \/ i = j
      OBVIOUS
    <3>2. j \in 1..j
      OBVIOUS
    <3>. QED  BY <1>4, <3>1, <3>2 DEF e
  <2>5. c = e.char => NameOf(c) = e.name
    BY TableOfEntities DEF e
  <2>6. After(j, r, c) = Put(r, c, e)
    BY <2>4, <2>5, Zenon DEF After, Put
  <2>. QED  BY <1>2, <2>1, <2>2, <2>3, <2>6 DEF e, r
<1>. QED  BY <1>3, <1>4

(* The five replacements, one after the other.                             *)
LEMMA EscapedIs ==
    ASSUME NEW text \in Seq(Chars)
    PROVE  \E t \in [0..5 -> Seq(Chars)] :
               /\ t[0] = text /\ Escaped(text) = t[5]
               /\ \A j \in 1..5 : t[j] = Replaced(t[j - 1], Replacements[j])
<1>. DEFINE n == 5
            V == Seq(Chars)
            step == [i \in 1..n |-> [v \in V |-> Replaced(v, Replacements[i])]]
            good(g) == g = [s \in SUBSET DOMAIN Replacements |->
                               IF s = {} THEN text
                               ELSE Replaced(g[s \ {Max(s)}], Replacements[Max(s)])]
            iter == CHOOSE g : good(g)
<1>0. DOMAIN Replacements = 1..n /\ n \in Nat
  BY TableOfEntities
<1>1. \A i \in 1..n : \A v \in V : Replaced(v, Replacements[i]) \in V
  BY TableOfEntities, ReplacedTyped
<1>. HIDE DEF n
<1>2. \A i \in 1..n : /\ step[i] \in [V -> V]
                      /\ \A v \in V : step[i][v] = Replaced(v, Replacements[i])
  <2>. HIDE DEF V
  <2>. QED  BY <1>1
<1>3. PICK g \in [SUBSET (1..n) -> V] : FoldsUp(g, step, text, n)
  <2>1. text \in V
    OBVIOUS
  <2>. HIDE DEF step, V
  <2>. QED  BY <1>0, <1>2, <2>1, FoldExists
<1>. HIDE DEF step
<1>4. good(g)
  <2>1. g = [s \in SUBSET (1..n) |-> IF s = {} THEN text ELSE step[Max(s)][g[s \ {Max(s)}]]]
    BY <1>3, Zenon DEF FoldsUp
  <2>. HIDE DEF V
  <2>2. ASSUME NEW s \in SUBSET (1..n), s # {}
        PROVE  step[Max(s)][g[s \ {Max(s)}]] = Replaced(g[s \ {Max(s)}], Replacements[Max(s)])
    <3>1. Max(s) \in 1..n /\ s \ {Max(s)} \in SUBSET (1..n)
      BY <1>0, <2>2, Greatest
    <3>2. g[s \ {Max(s)}] \in V
      BY <1>3, <3>1
    <3>. QED  BY <1>2, <3>1, <3>2, Zenon
  <2>. QED  BY <1>0, <2>1, <2>2, Zenon
<1>5. good(iter)
  BY <1>4, Zenon
<1>6. Escaped(text) = iter[DOMAIN Replacements]
  BY DEF Escaped, FoldLeft, MapThenFoldSet
<1>. HIDE DEF iter
<1>7. \A s \in SUBSET (1..n) :
          iter[s] = IF s = {} THEN text ELSE Replaced(iter[s \ {Max(s)}], Replacements[Max(s)])
  BY <1>0, <1>5, Zenon
<1>. HIDE DEF good
<1>. DEFINE t == [k \in 0..n |-> iter[1..k]]
<1>8. t[0] = text
  <2>1. 0 \in 0..n
    BY <1>0
  <2>. QED  BY <1>0, <1>7, <2>1, FirstPlaces, Zenon
<1>9. ASSUME NEW k \in 1..n
      PROVE  t[k] = Replaced(t[k - 1], Replacements[k])
  <2>1. k \in 0..n /\ k - 1 \in 0..n
    BY <1>0
  <2>2. iter[1..k] = Replaced(iter[1..(k - 1)], Replacements[k])
    <3>. DEFINE s == 1..k
    <3>1. s \in SUBSET (1..n) /\ s # {} /\ Max(s) = k /\ s \ {k} = 1..(k - 1)
      BY <1>0, FirstPlaces
    <3>. HIDE DEF s
    <3>2. iter[s] = Replaced(iter[s \ {Max(s)}], Replacements[Max(s)])
      BY <1>7, <3>1, Zenon
    <3>. QED  BY <3>1, <3>2, Zenon DEF s
  <2>. QED  BY <2>1, <2>2, Zenon
<1>10. Escaped(text) = t[n]
  <2>1. n \in 0..n
    BY <1>0
  <2>. QED  BY <1>0, <1>6, <2>1, Zenon
<1>11. t = [k \in 0..n |-> t[k]]
  OBVIOUS
<1>. HIDE DEF t
<1>12. \A k \in 0..n : t[k] \in V
  <2>1. t[0] \in V
    BY <1>8
  <2>. HIDE DEF V
  <2>2. \A k \in 1..n : t[k - 1] \in V => t[k] \in V
    BY <1>1, <1>9, Zenon
  <2>3. t[1] \in V /\ t[2] \in V /\ t[3] \in V /\ t[4] \in V /\ t[5] \in V
    BY <2>1, <2>2 DEF n
  <2>4. \A k \in 0..n : k = 0 \/ k = 1 \/ k = 2 \/ k = 3 \/ k = 4 \/ k = 5
    BY DEF n
  <2>. QED  BY <2>1, <2>3, <2>4
<1>13. t \in [0..n -> V]
  BY <1>11, <1>12, Zenon
<1>. QED  BY <1>8, <1>9, <1>10, <1>13 DEF n

(* A text with one more character is escaped character by character.       *)
LEMMA EscapedOneMore ==
    ASSUME NEW text \in Seq(Chars), NEW c \in Chars
    PROVE  /\ Escaped(text) \in Seq(Chars)
           /\ Escaped(Append(text, c)) = After(5, Escaped(text), c)
<1>1. Append(text, c) \in Seq(Chars)
  BY AppendProperties
<1>2. PICK t \in [0..5 -> Seq(Chars)] :
          /\ t[0] = text /\ Escaped(text) = t[5]
          /\ \A j \in 1..5 : t[j] = Replaced(t[j - 1], Replacements[j])
  BY EscapedIs
<1>3. PICK u \in [0..5 -> Seq(Chars)] :
          /\ u[0] = Append(text, c) /\ Escaped(Append(text, c)) = u[5]
          /\ \A j \in 1..5 : u[j] = Replaced(u[j - 1], Replacements[j])
  BY <1>1, EscapedIs
<1>. DEFINE Both(j) == u[j] = After(j, t[j], c)
<1>4. Both(0)
  <2>1. ~\E i \in 1..0 : Replacements[i].char = c
    OBVIOUS
  <2>. QED  BY <1>2, <1>3, <2>1 DEF After
<1>5. ASSUME NEW j \in 1..5, Both(j - 1)
      PROVE  Both(j)
  <2>1. j - 1 \in 0..5 /\ t[j - 1] \in Seq(Chars)
    BY <1>2
  <2>2. Replaced(After(j - 1, t[j - 1], c), Replacements[j])
            = After(j, Replaced(t[j - 1], Replacements[j]), c)
    BY <2>1, AfterOneMore
  <2>. QED  BY <1>2, <1>3, <1>5, <2>2
<1>. HIDE DEF Both
<1>6. Both(5)
  <2>1. \A j \in 1..5 : Both(j - 1) => Both(j)
    BY <1>5
  <2>2. Both(1)
    BY <1>4, <2>1
  <2>3. Both(2)
    BY <2>1, <2>2
  <2>4. Both(3)
    BY <2>1, <2>3
  <2>5. Both(4)
    BY <2>1, <2>4
  <2>. QED  BY <2>1, <2>5
<1>. QED  BY <1>2, <1>3, <1>6 DEF Both

(* How a text is read back, one character after the other.                 *)
Out == Chars \cup {CharOf(c) : c \in Chars}
Readers == [text: Seq(Out), named: BOOLEAN]
Start == [text |-> << >>, named |-> FALSE]
Read(read, next) ==
    IF read.named
    THEN [text |-> Append(read.text, CharOf(next)), named |-> FALSE]
    ELSE IF next = "&" THEN [text |-> read.text, named |-> TRUE]
    ELSE [text |-> Append(read.text, next), named |-> FALSE]

(* The reader stays a reader.                                              *)
LEMMA ReadTyped ==
    ASSUME NEW read \in Readers, NEW c \in Chars
    PROVE  Read(read, c) \in Readers
<1>1. read.text \in Seq(Out) /\ c \in Out /\ CharOf(c) \in Out
  BY DEF Readers, Out
<1>. DEFINE d == CharOf(c)
<1>2. Append(read.text, c) \in Seq(Out) /\ Append(read.text, d) \in Seq(Out)
  BY <1>1, AppendProperties
<1>. HIDE DEF d
<1>3. \A t \in Seq(Out) : \A b \in BOOLEAN : [text |-> t, named |-> b] \in Readers
  BY DEF Readers
<1>. QED  BY <1>1, <1>2, <1>3 DEF Read, d

(* The states of the reader.                                               *)
Reads(t, text, n) ==
    /\ t \in [0..n -> Readers] /\ t[0] = Start
    /\ \A k \in 1..n : t[k] = Read(t[k - 1], text[k])

(* Parsing goes through the states of the reader.                          *)
LEMMA ParsedIs ==
    ASSUME NEW n \in Nat, NEW text \in Seq(Chars), Len(text) = n
    PROVE  \E t : Reads(t, text, n) /\ Parsed(text) = t[n]
<1>. DEFINE V == Readers
            step == [i \in 1..n |-> [v \in V |-> Read(v, text[i])]]
            good(g) == g = [s \in SUBSET DOMAIN text |->
                               IF s = {} THEN [text |-> << >>, named |-> FALSE]
                               ELSE IF g[s \ {Max(s)}].named
                               THEN [text |-> Append(g[s \ {Max(s)}].text, CharOf(text[Max(s)])),
                                     named |-> FALSE]
                               ELSE IF text[Max(s)] = "&"
                               THEN [text |-> g[s \ {Max(s)}].text, named |-> TRUE]
                               ELSE [text |-> Append(g[s \ {Max(s)}].text, text[Max(s)]),
                                     named |-> FALSE]]
            iter == CHOOSE g : good(g)
<1>0. DOMAIN text = 1..n /\ \A i \in 1..n : text[i] \in Chars
  BY LenProperties, ElementOfSeq
<1>1. \A i \in 1..n : \A v \in V : Read(v, text[i]) \in V
  BY <1>0, ReadTyped
<1>2. \A i \in 1..n : /\ step[i] \in [V -> V]
                      /\ \A v \in V : step[i][v] = Read(v, text[i])
  <2>. HIDE DEF V
  <2>. QED  BY <1>1
<1>3. Start \in V
  <2>1. << >> \in Seq(Out)
    OBVIOUS
  <2>. QED  BY <2>1 DEF Start, Readers
<1>4. PICK g \in [SUBSET (1..n) -> V] : FoldsUp(g, step, Start, n)
  <2>. HIDE DEF step, V
  <2>. QED  BY <1>2, <1>3, FoldExists
<1>. HIDE DEF step, V
<1>5. good(g)
  <2>1. g = [s \in SUBSET (1..n) |-> IF s = {} THEN Start ELSE step[Max(s)][g[s \ {Max(s)}]]]
    BY <1>4, Zenon DEF FoldsUp
  <2>2. ASSUME NEW s \in SUBSET (1..n), s # {}
        PROVE  step[Max(s)][g[s \ {Max(s)}]] = Read(g[s \ {Max(s)}], text[Max(s)])
    <3>1. Max(s) \in 1..n /\ s \ {Max(s)} \in SUBSET (1..n)
      BY <2>2, Greatest
    <3>2. g[s \ {Max(s)}] \in V
      BY <1>4, <3>1
    <3>. QED  BY <1>2, <3>1, <3>2, Zenon
  <2>3. g = [s \in SUBSET (1..n) |-> IF s = {} THEN Start ELSE Read(g[s \ {Max(s)}], text[Max(s)])]
    BY <2>1, <2>2, Zenon
  <2>. QED  BY <1>0, <2>3, Zenon DEF Read, Start
<1>6. good(iter)
  BY <1>5, Zenon
<1>7. Parsed(text) = iter[DOMAIN text]
  BY DEF Parsed, FoldLeft, MapThenFoldSet
<1>. HIDE DEF iter
<1>8. \A s \in SUBSET (1..n) :
          iter[s] = IF s = {} THEN Start ELSE Read(iter[s \ {Max(s)}], text[Max(s)])
  BY <1>0, <1>6, Zenon DEF Read, Start
<1>. HIDE DEF good
<1>. DEFINE t == [k \in 0..n |-> iter[1..k]]
<1>9. t[0] = Start
  <2>1. 0 \in 0..n
    OBVIOUS
  <2>. QED  BY <1>8, <2>1, FirstPlaces, Zenon
<1>10. ASSUME NEW k \in 1..n
       PROVE  t[k] = Read(t[k - 1], text[k])
  <2>1. k \in 0..n /\ k - 1 \in 0..n
    OBVIOUS
  <2>2. iter[1..k] = Read(iter[1..(k - 1)], text[k])
    BY <1>8, FirstPlaces, Zenon
  <2>. QED  BY <2>1, <2>2, Zenon
<1>11. Parsed(text) = t[n]
  <2>1. n \in 0..n
    OBVIOUS
  <2>. QED  BY <1>0, <1>7, <2>1, Zenon
<1>12. t = [k \in 0..n |-> t[k]]
  OBVIOUS
<1>. HIDE DEF t
<1>13. \A k \in 0..n : t[k] \in V
  <2>. DEFINE T == {k \in Nat : k <= n => t[k] \in V}
  <2>1. 0 \in T
    BY <1>3, <1>9
  <2>2. ASSUME NEW k \in Nat, k \in T
        PROVE  k + 1 \in T
    <3>. SUFFICES ASSUME k + 1 <= n  PROVE t[k + 1] \in V
      OBVIOUS
    <3>. DEFINE j == k + 1
    <3>1. j \in 1..n /\ j - 1 = k /\ k <= n
      OBVIOUS
    <3>2. t[k] \in V
      BY <2>2, <3>1
    <3>. HIDE DEF j
    <3>3. t[j] = Read(t[k], text[j])
      BY <1>10, <3>1
    <3>. QED  BY <1>1, <3>1, <3>2, <3>3, Zenon DEF j
  <2>. HIDE DEF T
  <2>3. Nat \subseteq T
    BY <2>1, <2>2, AllNumbers
  <2>4. \A k \in 0..n : k \in Nat /\ k <= n
    OBVIOUS
  <2>. QED  BY <2>3, <2>4, Zenon DEF T
<1>14. Reads(t, text, n)
  <2>1. t \in [0..n -> V]
    BY <1>12, <1>13, Zenon
  <2>. QED  BY <1>9, <1>10, <2>1, Zenon DEF Reads, V
<1>. QED  BY <1>11, <1>14, Zenon

(* A text with one more character is read like the text, and then the      *)
(* character.                                                              *)
LEMMA ParsedOneMore ==
    ASSUME NEW text \in Seq(Chars), NEW c \in Chars
    PROVE  /\ Parsed(text) \in Readers
           /\ Parsed(Append(text, c)) = Read(Parsed(text), c)
<1>. DEFINE n == Len(text)
            more == Append(text, c)
            m == n + 1
<1>1. n \in Nat /\ m \in Nat /\ m \in 1..m /\ m - 1 = n /\ n \in 0..n
  BY LenProperties
<1>2. /\ more \in Seq(Chars) /\ Len(more) = m
      /\ \A i \in 1..n : more[i] = text[i]
      /\ more[m] = c
  BY <1>1, OneMore
<1>3. \A i \in 1..n : i \in 1..m
  BY <1>1
<1>. HIDE DEF more, m
<1>4. PICK t : Reads(t, text, n) /\ Parsed(text) = t[n]
  BY <1>1, ParsedIs
<1>5. PICK u : Reads(u, more, m) /\ Parsed(more) = u[m]
  BY <1>1, <1>2, ParsedIs
<1>. DEFINE T == {k \in Nat : k <= n => u[k] = t[k]}
<1>. HIDE DEF n
<1>6. 0 \in T
  BY <1>4, <1>5 DEF Reads
<1>7. ASSUME NEW k \in Nat, k \in T
      PROVE  k + 1 \in T
  <2>. SUFFICES ASSUME k + 1 <= n  PROVE u[k + 1] = t[k + 1]
    OBVIOUS
  <2>. DEFINE j == k + 1
  <2>1. j \in 1..n /\ j - 1 = k /\ k <= n
    BY <1>1
  <2>2. u[k] = t[k]
    BY <1>7, <2>1
  <2>. HIDE DEF j
  <2>3. u[j] = Read(u[j - 1], more[j]) /\ t[j] = Read(t[j - 1], text[j])
    BY <1>3, <1>4, <1>5, <2>1, Zenon DEF Reads
  <2>4. u[j] = t[j]
    BY <1>2, <2>1, <2>2, <2>3, Zenon
  <2>. QED  BY <2>4 DEF j
<1>. HIDE DEF T
<1>8. n \in T /\ n <= n
  BY <1>1, <1>6, <1>7, AllNumbers
<1>9. u[n] = t[n]
  BY <1>8, Zenon DEF T
<1>10. u[m] = Read(u[n], c)
  <2>1. u[m] = Read(u[m - 1], more[m])
    BY <1>1, <1>5, Zenon DEF Reads
  <2>. QED  BY <1>1, <1>2, <2>1, Zenon
<1>11. t[n] \in Readers
  BY <1>1, <1>4 DEF Reads
<1>. QED  BY <1>4, <1>5, <1>9, <1>10, <1>11, Zenon DEF more

(* A text that is escaped is read back as it was, and nothing in it is a   *)
(* character of the markup.                                                *)
Markup == {"<", ">", "quote", "apostrophe"}
Good(text) ==
    /\ Parsed(Escaped(text)) = [text |-> text, named |-> FALSE]
    /\ \A i \in DOMAIN Escaped(text) : Escaped(text)[i] \notin Markup

(* The empty text is escaped to the empty text.                            *)
LEMMA NothingEscaped == Good(<< >>)
<1>. DEFINE none == << >>
            zero == 0
<1>1. none \in Seq(Chars) /\ Len(none) = zero /\ DOMAIN none = {} /\ zero \in Nat
  OBVIOUS
<1>. HIDE DEF none, zero
<1>2. ASSUME NEW e \in Entities
      PROVE  Replaced(none, e) = none
  <2>1. Replaced(none, e) = FlattenSeq(FirstOfAll(Pieces(none, e), zero))
    BY <1>1, PiecesAre
  <2>. QED  BY <2>1, FlattenNone, Zenon DEF none, zero
<1>3. PICK t \in [0..5 -> Seq(Chars)] :
          /\ t[0] = none /\ Escaped(none) = t[5]
          /\ \A j \in 1..5 : t[j] = Replaced(t[j - 1], Replacements[j])
  BY <1>1, EscapedIs
<1>4. Escaped(none) = none
  <2>1. \A j \in 1..5 : t[j - 1] = none => t[j] = none
    BY <1>2, <1>3, TableOfEntities
  <2>2. t[1] = none
    BY <1>3, <2>1
  <2>3. t[2] = none
    BY <2>1, <2>2
  <2>4. t[3] = none
    BY <2>1, <2>3
  <2>5. t[4] = none
    BY <2>1, <2>4
  <2>6. t[5] = none
    BY <2>1, <2>5
  <2>. QED  BY <1>3, <2>6
<1>5. PICK u : Reads(u, none, zero) /\ Parsed(none) = u[zero]
  BY <1>1, ParsedIs
<1>6. Parsed(none) = [text |-> none, named |-> FALSE]
  BY <1>5, Zenon DEF Reads, Start, none, zero
<1>7. Good(none)
  BY <1>1, <1>4, <1>6, Zenon DEF Good
<1>. QED  BY <1>7 DEF none

(* What the reader makes of one character that was escaped.                *)
LEMMA OneReadBack ==
    ASSUME NEW r \in Seq(Chars), NEW text, NEW c \in Chars,
           Parsed(r) = [text |-> text, named |-> FALSE],
           \A i \in DOMAIN r : r[i] \notin Markup
    PROVE  /\ Parsed(After(5, r, c)) = [text |-> Append(text, c), named |-> FALSE]
           /\ \A i \in DOMAIN After(5, r, c) : After(5, r, c)[i] \notin Markup
<1>1. ASSUME NEW s \in Seq(Chars), NEW d \in Chars, d \notin Markup,
             \A i \in DOMAIN s : s[i] \notin Markup
      PROVE  \A i \in DOMAIN Append(s, d) : Append(s, d)[i] \notin Markup
  <2>. DEFINE n == Len(s)
              more == Append(s, d)
  <2>1. n \in Nat /\ DOMAIN s = 1..n
    BY LenProperties
  <2>2. /\ DOMAIN more = 1..(n + 1)
        /\ \A i \in 1..n : more[i] = s[i]
        /\ more[n + 1] = d
    BY <2>1, OneMore
  <2>. HIDE DEF n, more
  <2>3. \A i \in 1..(n + 1) : i \in 1..n \/ i = n + 1
    BY <2>1
  <2>4. \A i \in DOMAIN more : more[i] \notin Markup
    BY <1>1, <2>1, <2>2, <2>3, Zenon
  <2>. QED  BY <2>4 DEF more
<1>2. CASE Named(c)
  <2>1. PICK i \in 1..5 : Replacements[i].char = c
    BY <1>2 DEF Named
  <2>. DEFINE name == NameOf(c)
              head == Append(r, "&")
  <2>2. name = Replacements[i].name /\ CharOf(name) = c
    BY <2>1, TableOfEntities
  <2>3. name \in Chars
    BY <2>2, TableOfEntities DEF Entities
  <2>4. name \notin Markup
    BY <2>2, TableOfEntities DEF Markup
  <2>5. After(5, r, c) = Append(head, name)
    BY <2>1 DEF After
  <2>6. head \in Seq(Chars)
    BY Ampersand, AppendProperties
  <2>. HIDE DEF name
  <2>7. \A j \in DOMAIN head : head[j] \notin Markup
    <3>1. "&" \notin Markup
      BY DEF Markup
    <3>. QED  BY <1>1, <3>1, Ampersand
  <2>8. Parsed(head) = [text |-> text, named |-> TRUE]
    <3>1. Parsed(head) = Read(Parsed(r), "&")
      BY Ampersand, ParsedOneMore
    <3>. QED  BY <3>1 DEF Read
  <2>. HIDE DEF head
  <2>9. Parsed(Append(head, name)) = [text |-> Append(text, c), named |-> FALSE]
    <3>1. Parsed(Append(head, name)) = Read(Parsed(head), name)
      BY <2>3, <2>6, ParsedOneMore
    <3>. QED  BY <2>2, <2>8, <3>1 DEF Read
  <2>10. \A j \in DOMAIN Append(head, name) : Append(head, name)[j] \notin Markup
    BY <1>1, <2>3, <2>4, <2>6, <2>7
  <2>. QED  BY <2>5, <2>9, <2>10, Zenon
<1>3. CASE ~Named(c)
  <2>1. After(5, r, c) = Append(r, c)
    BY <1>3 DEF After, Named
  <2>2. c # "&"
    <3>1. 1 \in 1..5
      OBVIOUS
    <3>. QED  BY <1>3, <3>1, TableOfEntities DEF Named
  <2>3. c \notin Markup
    BY <1>3, TableOfEntities DEF Markup
  <2>4. Parsed(Append(r, c)) = [text |-> Append(text, c), named |-> FALSE]
    <3>1. Parsed(Append(r, c)) = Read(Parsed(r), c)
      BY ParsedOneMore
    <3>. QED  BY <2>2, <3>1 DEF Read
  <2>5. \A j \in DOMAIN Append(r, c) : Append(r, c)[j] \notin Markup
    BY <1>1, <2>3
  <2>. QED  BY <2>1, <2>4, <2>5, Zenon
<1>. QED  BY <1>2, <1>3

(* Any text comes back.                                                    *)
LEMMA AllReadBack ==
    ASSUME NEW text \in Seq(Chars)
    PROVE  Good(text)
<1>. DEFINE T == {n \in Nat : \A s \in Seq(Chars) : Len(s) = n => Good(s)}
<1>1. 0 \in T
  <2>1. \A s \in Seq(Chars) : Len(s) = 0 => s = << >>
    BY EmptySeq
  <2>. QED  BY <2>1, NothingEscaped
<1>2. ASSUME NEW n \in Nat, n \in T
      PROVE  n + 1 \in T
  <2>. SUFFICES ASSUME NEW s \in Seq(Chars), Len(s) = n + 1  PROVE Good(s)
    OBVIOUS
  <2>1. s # << >>
    BY EmptySeq
  <2>2. PICK q \in Seq(Chars), c \in Chars : s = Append(q, c)
    BY <2>1, SequenceEmptyOrAppend
  <2>3. Len(q) = n
    <3>1. Len(q) \in Nat /\ Len(s) = Len(q) + 1
      BY <2>2, AppendProperties, LenProperties
    <3>. QED  BY <3>1
  <2>4. Good(q)
    BY <1>2, <2>3
  <2>. DEFINE r == Escaped(q)
  <2>5. r \in Seq(Chars) /\ Escaped(s) = After(5, r, c)
    BY <2>2, EscapedOneMore
  <2>6. Parsed(r) = [text |-> q, named |-> FALSE] /\ \A i \in DOMAIN r : r[i] \notin Markup
    BY <2>4 DEF Good
  <2>. HIDE DEF r
  <2>7. /\ Parsed(After(5, r, c)) = [text |-> Append(q, c), named |-> FALSE]
        /\ \A i \in DOMAIN After(5, r, c) : After(5, r, c)[i] \notin Markup
    BY <2>5, <2>6, OneReadBack
  <2>. QED  BY <2>2, <2>5, <2>7, Zenon DEF Good
<1>. HIDE DEF T
<1>3. Nat \subseteq T
  BY <1>1, <1>2, AllNumbers
<1>4. Len(text) \in T
  BY <1>3, LenProperties
<1>. QED  BY <1>4 DEF T

(* Whatever an attribute has to hold (xml.rs), a parser gets it back, and  *)
(* no character of it is taken for markup: the ampersand is replaced       *)
(* first, so that none is replaced twice.                                  *)
THEOREM EscapesOnce == Spec => []EscapedOnce
<1>1. EscapedOnce
  <2>1. ASSUME NEW text \in Texts
        PROVE  /\ Parsed(Escaped(text)) = [text |-> text, named |-> FALSE]
               /\ Range(Escaped(text)) \cap {"<", ">", "quote", "apostrophe"} = {}
    <3>1. STRING \subseteq Chars
      BY DEF Chars
    <3>2. text \in Seq(Chars)
      <4>. DEFINE S == STRING
      <4>1. text \in Seq(S) /\ S \subseteq Chars
        BY <3>1, TextsAssumption
      <4>. HIDE DEF S
      <4>. QED  BY <4>1, SeqMonotonic
    <3>3. Good(text)
      BY <3>2, AllReadBack
    <3>. QED  BY <3>3, Zenon DEF Good, Markup, Range
  <2>. QED  BY <2>1 DEF EscapedOnce
<1>. QED  BY <1>1, PTL
=============================================================================
