------------------------ MODULE ReleaseJournalProofs ------------------------
(***************************************************************************)
(* What holds of ReleaseJournal for every number of invocations and of     *)
(* outputs: a terminal that says PASS is true, it is written after the     *)
(* worker's group is gone, it can be read back, and what a consumer        *)
(* accepts stays accepted.                                                 *)
(***************************************************************************)
EXTENDS ReleaseJournal, TLAPS

Settled(s) == worker[s] \in {"none", "gone"}

\* An invocation that has not come to its worker's report has done nothing yet.
Early(s) ==
  pc[s] \in {"idle", "inspected", "reserved", "opened", "waiting", "stopping", "cancelling",
             "verifying"} => \A o \in Outputs : installed[o] # s

\* No worker before it is started, none after the group was seen to be gone.
Quiet(s) ==
  /\ pc[s] \in {"idle", "inspected", "reserved", "opened"} => worker[s] = "none"
  /\ pc[s] \in {"verifying", "installing", "removing", "passing", "failed", "retained",
              "committing"} => Settled(s)

\* The outputs before the next one are in place and nobody else's.
Installing(s) ==
  pc[s] = "installing" =>
    next[s] \in Outputs /\ s \notin altered /\ \A o \in 1 .. next[s] - 1 : installed[o] = s

\* What is taken back is the supervisor's own.
Removing(s) ==
  pc[s] = "removing" => next[s] \in Outputs /\ \A o \in 1 .. next[s] : installed[o] = s

Passing(s) == pc[s] = "passing" \/ terminal[s] = "pass" => Stands(s)

\* A failure has its inventory before its terminal, a PASS has none, and its witness is
\* the last thing.
Kept(s) ==
  /\ partial[s] # "none" => pc[s] = "retained" \/ Ended(s)
  /\ pc[s] = "retained" \/ terminal[s] = "fail" => partial[s] = "kept"
  /\ pc[s] = "committing" => terminal[s] = "pass"
  /\ terminal[s] = "pass" => partial[s] = "none"
  /\ witness[s] # "none" => Ended(s)

\* But for the witness, a terminal is the last thing.
Last(s) == terminal[s] # "none" => Ended(s) \/ pc[s] = "committing"

\* Nothing runs that could change what was recorded or put in place.
Behind(s) == terminal[s] # "none" \/ (\E o \in Outputs : installed[o] = s) => Settled(s)

SInv(s) ==
  /\ Early(s) /\ Quiet(s) /\ Installing(s) /\ Removing(s) /\ Passing(s) /\ Kept(s) /\ Last(s)
  /\ Behind(s)

IInv == TypeOK /\ \A s \in Seqs : SInv(s)

USE DEF Seqs, Outputs

--------------------------------------------------------------------------------

LEMMA Starts == Init => IInv
BY JournalAssumption
  DEF Init, IInv, TypeOK, SInv, Early, Quiet, Installing, Removing, Stands, Passing,
   Kept, Last, Behind, Settled, Ended

LEMMA InspectKeeps ==
  ASSUME IInv, NEW s \in Seqs, Inspect(s) PROVE IInv'
<1>1. TypeOK'
  BY JournalAssumption
  DEF IInv, TypeOK, SInv, Installing, Removing, Inspect, Goto, At, files, records, command
<1>2. ASSUME NEW t \in Seqs PROVE SInv(t)'
  BY JournalAssumption
  DEF IInv, TypeOK, SInv, Early, Quiet, Installing, Removing, Stands, Passing,
     Kept, Last, Behind, Settled, Ended, Inspect, Goto, At, files, records, command
<1>. QED
  BY <1>1, <1>2 DEF IInv

LEMMA ReserveKeeps ==
  ASSUME IInv, NEW s \in Seqs, Reserve(s) PROVE IInv'
<1>1. TypeOK'
  BY JournalAssumption
  DEF IInv, TypeOK, SInv, Installing, Removing, Reserve, Goto, At, files, records, command
<1>2. ASSUME NEW t \in Seqs PROVE SInv(t)'
  BY JournalAssumption
  DEF IInv, TypeOK, SInv, Early, Quiet, Installing, Removing, Stands, Passing,
     Kept, Last, Behind, Settled, Ended, Reserve, Goto, At, files, records, command
<1>. QED
  BY <1>1, <1>2 DEF IInv

LEMMA WriteIntentKeeps ==
  ASSUME IInv, NEW s \in Seqs, WriteIntent(s) PROVE IInv'
<1>1. TypeOK'
  BY JournalAssumption
  DEF IInv, TypeOK, SInv, Installing, Removing, WriteIntent, Goto, At, files, records, command
<1>2. ASSUME NEW t \in Seqs PROVE SInv(t)'
  BY JournalAssumption
  DEF IInv, TypeOK, SInv, Early, Quiet, Installing, Removing, Stands, Passing,
     Kept, Last, Behind, Settled, Ended, WriteIntent, Goto, At, files, records, command
<1>. QED
  BY <1>1, <1>2 DEF IInv

LEMMA StartWorkerKeeps ==
  ASSUME IInv, NEW s \in Seqs, StartWorker(s) PROVE IInv'
<1>1. TypeOK'
  BY JournalAssumption
  DEF IInv, TypeOK, SInv, Installing, Removing, StartWorker, Goto, At, files, records, command
<1>2. ASSUME NEW t \in Seqs PROVE SInv(t)'
  BY JournalAssumption
  DEF IInv, TypeOK, SInv, Early, Quiet, Installing, Removing, Stands, Passing,
     Kept, Last, Behind, Settled, Ended, StartWorker, Goto, At, files, records, command
<1>. QED
  BY <1>1, <1>2 DEF IInv

LEMMA RefuseKeeps ==
  ASSUME IInv, NEW s \in Seqs, Refuse(s) PROVE IInv'
<1>1. TypeOK'
  BY JournalAssumption DEF IInv, TypeOK, SInv, Installing, Removing, Refuse, Goto, At, files,
                           records, command
<1>2. ASSUME NEW t \in Seqs PROVE SInv(t)'
  BY JournalAssumption
  DEF IInv, TypeOK, SInv, Early, Quiet, Installing, Removing, Stands, Passing,
     Kept, Last, Behind, Settled, Ended, Refuse, Goto, At, files, records, command
<1>. QED
  BY <1>1, <1>2 DEF IInv

LEMMA WorkerReportsKeeps ==
  ASSUME IInv, NEW s \in Seqs, WorkerReports(s) PROVE IInv'
<1>1. TypeOK'
  BY JournalAssumption
  DEF IInv, TypeOK, SInv, Installing, Removing, WorkerReports, Goto, At, files, records, command
<1>2. ASSUME NEW t \in Seqs PROVE SInv(t)'
  BY JournalAssumption
  DEF IInv, TypeOK, SInv, Early, Quiet, Installing, Removing, Stands, Passing,
     Kept, Last, Behind, Settled, Ended, WorkerReports, Goto, At, files, records, command
<1>. QED
  BY <1>1, <1>2 DEF IInv

LEMMA WorkerDiesKeeps ==
  ASSUME IInv, NEW s \in Seqs, WorkerDies(s) PROVE IInv'
<1>1. TypeOK'
  BY JournalAssumption
  DEF IInv, TypeOK, SInv, Installing, Removing, WorkerDies, Goto, At, files, records, command
<1>2. ASSUME NEW t \in Seqs PROVE SInv(t)'
  BY JournalAssumption
  DEF IInv, TypeOK, SInv, Early, Quiet, Installing, Removing, Stands, Passing,
     Kept, Last, Behind, Settled, Ended, WorkerDies, Goto, At, files, records, command
<1>. QED
  BY <1>1, <1>2 DEF IInv

LEMMA AlterKeeps ==
  ASSUME IInv, NEW s \in Seqs, Alter(s) PROVE IInv'
<1>1. TypeOK'
  BY JournalAssumption DEF IInv, TypeOK, SInv, Installing, Removing, Alter, Goto, At, files,
                           records, command
<1>2. ASSUME NEW t \in Seqs PROVE SInv(t)'
  BY JournalAssumption
  DEF IInv, TypeOK, SInv, Early, Quiet, Installing, Removing, Stands, Passing,
     Kept, Last, Behind, Settled, Ended, Alter, Goto, At, files, records, command
<1>. QED
  BY <1>1, <1>2 DEF IInv

LEMMA WaitKeeps ==
  ASSUME IInv, NEW s \in Seqs, Wait(s) PROVE IInv'
<1>1. TypeOK'
  BY JournalAssumption DEF IInv, TypeOK, SInv, Installing, Removing, Wait, Goto, At, files,
                           records, command
<1>2. ASSUME NEW t \in Seqs PROVE SInv(t)'
  BY JournalAssumption
  DEF IInv, TypeOK, SInv, Early, Quiet, Installing, Removing, Stands, Passing,
     Kept, Last, Behind, Settled, Ended, Wait, Goto, At, files, records, command
<1>. QED
  BY <1>1, <1>2 DEF IInv

LEMMA CancelKeeps ==
  ASSUME IInv, NEW s \in Seqs, Cancel(s) PROVE IInv'
<1>1. TypeOK'
  BY JournalAssumption DEF IInv, TypeOK, SInv, Installing, Removing, Cancel, Goto, At, files,
                           records, command
<1>2. ASSUME NEW t \in Seqs PROVE SInv(t)'
  BY JournalAssumption
  DEF IInv, TypeOK, SInv, Early, Quiet, Installing, Removing, Stands, Passing,
     Kept, Last, Behind, Settled, Ended, Cancel, Goto, At, files, records, command
<1>. QED
  BY <1>1, <1>2 DEF IInv

LEMMA StopGroupKeeps ==
  ASSUME IInv, NEW s \in Seqs, StopGroup(s) PROVE IInv'
<1>1. TypeOK'
  <2>1. CASE At(s, "stopping") /\ result[s] = "pass"
    BY <2>1 DEF IInv, TypeOK, StopGroup, Goto, At, files, records, command
  <2>2. CASE ~(At(s, "stopping") /\ result[s] = "pass")
    BY <2>2 DEF IInv, TypeOK, StopGroup, Goto, At, files, records, command
  <2>. QED
    BY <2>1, <2>2
<1>2. ASSUME NEW t \in Seqs PROVE SInv(t)'
  <2>1. CASE t = s
    BY <2>1, JournalAssumption
    DEF IInv, TypeOK, SInv, Early, Quiet, Installing, Removing, Stands, Passing,
        Kept, Last, Behind, Settled, Ended, StopGroup, Goto, At, files, records, command
  <2>2. CASE t # s
    <3>1. /\ worker'[t] = worker[t] /\ pc'[t] = pc[t]
          /\ UNCHANGED <<partial, terminal, witness, installed, altered, next>>
      BY <2>2 DEF IInv, TypeOK, StopGroup, Goto, files, records
    <3>. QED
      BY <3>1
      DEF IInv, SInv, Early, Quiet, Installing, Removing, Stands, Passing, Kept, Last, Behind,
          Settled, Ended
  <2>. QED
    BY <2>1, <2>2
<1>. QED
  BY <1>1, <1>2 DEF IInv

LEMMA GroupRemainsKeeps ==
  ASSUME IInv, NEW s \in Seqs, GroupRemains(s) PROVE IInv'
<1>1. TypeOK'
  BY JournalAssumption
  DEF IInv, TypeOK, SInv, Installing, Removing, GroupRemains, Goto, At, files, records, command
<1>2. ASSUME NEW t \in Seqs PROVE SInv(t)'
  BY JournalAssumption
  DEF IInv, TypeOK, SInv, Early, Quiet, Installing, Removing, Stands, Passing,
     Kept, Last, Behind, Settled, Ended, GroupRemains, Goto, At, files, records, command
<1>. QED
  BY <1>1, <1>2 DEF IInv

LEMMA VerifyKeeps ==
  ASSUME IInv, NEW s \in Seqs, Verify(s) PROVE IInv'
<1>1. TypeOK'
  BY JournalAssumption DEF IInv, TypeOK, SInv, Installing, Removing, Verify, Goto, At, files,
                           records, command
<1>2. ASSUME NEW t \in Seqs PROVE SInv(t)'
  BY JournalAssumption
  DEF IInv, TypeOK, SInv, Early, Quiet, Installing, Removing, Stands, Passing,
     Kept, Last, Behind, Settled, Ended, Verify, Goto, At, files, records, command
<1>. QED
  BY <1>1, <1>2 DEF IInv

LEMMA RejectKeeps ==
  ASSUME IInv, NEW s \in Seqs, Reject(s) PROVE IInv'
<1>1. TypeOK'
  BY JournalAssumption DEF IInv, TypeOK, SInv, Installing, Removing, Reject, Goto, At, files,
                           records, command
<1>2. ASSUME NEW t \in Seqs PROVE SInv(t)'
  BY JournalAssumption
  DEF IInv, TypeOK, SInv, Early, Quiet, Installing, Removing, Stands, Passing,
     Kept, Last, Behind, Settled, Ended, Reject, Goto, At, files, records, command
<1>. QED
  BY <1>1, <1>2 DEF IInv

LEMMA InstallKeeps ==
  ASSUME IInv, NEW s \in Seqs, Install(s) PROVE IInv'
<1>. DEFINE k == next[s]
<1>1. /\ pc[s] = "installing" /\ k \in Outputs /\ installed[k] = 0 /\ s \notin altered
      /\ \A o \in 1 .. k - 1 : installed[o] = s
  BY DEF IInv, SInv, Installing, Install, At
<1>2. /\ installed' = [installed EXCEPT ![k] = s]
      /\ UNCHANGED <<entry, prior, partial, terminal, witness, result, altered, worker>>
      /\ UNCHANGED <<once, witnessed, overtaken>>
      /\ \/ k = N /\ pc' = [pc EXCEPT ![s] = "passing"] /\ UNCHANGED next
         \/ k # N /\ UNCHANGED pc /\ next' = [next EXCEPT ![s] = k + 1]
  BY DEF Install, Place, Goto, records, command
<1>3. TypeOK'
  <2>1. k + 1 \in 0 .. N \/ k = N
    BY <1>1, JournalAssumption
  <2>2. installed' \in [Outputs -> 0 .. MaxSeq]
    BY <1>1, <1>2, JournalAssumption DEF IInv, TypeOK
  <2>. QED
    BY <1>2, <2>1, <2>2 DEF IInv, TypeOK
<1>4. ASSUME NEW t \in Seqs PROVE SInv(t)'
  <2>1. CASE t = s
    <3>1. \A o \in 1 .. k : installed'[o] = s
      BY <1>1, <1>2, JournalAssumption DEF IInv, TypeOK
    <3>. QED
      BY <1>1, <1>2, <2>1, <3>1, JournalAssumption

     DEF IInv, TypeOK, SInv, Early, Quiet, Installing, Removing, Stands, Passing, Kept, Last,
         Behind,
          Settled, Ended
  <2>2. CASE t # s
    <3>1. /\ pc'[t] = pc[t] /\ next'[t] = next[t]
          /\ \A o \in Outputs : installed[o] = t <=> installed'[o] = t
      BY <1>1, <1>2, <2>2, JournalAssumption DEF IInv, TypeOK
    <3>. QED
      BY <1>2, <3>1, JournalAssumption

     DEF IInv, TypeOK, SInv, Early, Quiet, Installing, Removing, Stands, Passing, Kept, Last,
         Behind,
          Settled, Ended
  <2>. QED
    BY <2>1, <2>2
<1>. QED
  BY <1>3, <1>4 DEF IInv

LEMMA InstallFailsKeeps ==
  ASSUME IInv, NEW s \in Seqs, InstallFails(s) PROVE IInv'
<1>1. TypeOK'
  BY JournalAssumption
  DEF IInv, TypeOK, SInv, Installing, Removing, InstallFails, BackFrom, Goto, At, files,
      records, command
<1>2. ASSUME NEW t \in Seqs PROVE SInv(t)'
  BY JournalAssumption
  DEF IInv, TypeOK, SInv, Early, Quiet, Installing, Removing, Stands, Passing,
     Kept, Last, Behind, Settled, Ended, InstallFails, BackFrom, Goto, At, files, records,
     command
<1>. QED
  BY <1>1, <1>2 DEF IInv

LEMMA InstallUnlistedKeeps ==
  ASSUME IInv, NEW s \in Seqs, InstallUnlisted(s) PROVE IInv'
<1>. DEFINE k == next[s]
<1>1. /\ pc[s] = "installing" /\ k \in Outputs /\ installed[k] = 0
      /\ \A o \in 1 .. k - 1 : installed[o] = s
  BY DEF IInv, SInv, Installing, InstallUnlisted, At
<1>2. /\ installed' = [installed EXCEPT ![k] = s]
      /\ UNCHANGED <<entry, prior, partial, terminal, witness, result, altered, worker>>
      /\ UNCHANGED <<once, witnessed, overtaken>>
      /\ pc' = [pc EXCEPT ![s] = IF k = 1 THEN "failed" ELSE "removing"]
      /\ next' = [next EXCEPT ![s] = k - 1]
  BY DEF InstallUnlisted, Place, BackFrom, Goto, records, command
<1>3. TypeOK'
  <2>1. k - 1 \in 0 .. N
    BY <1>1, JournalAssumption
  <2>2. installed' \in [Outputs -> 0 .. MaxSeq]
    BY <1>1, <1>2, JournalAssumption DEF IInv, TypeOK
  <2>. QED
    BY <1>2, <2>1, <2>2 DEF IInv, TypeOK
<1>4. ASSUME NEW t \in Seqs PROVE SInv(t)'
  <2>1. CASE t = s
    <3>1. \A o \in 1 .. k - 1 : installed'[o] = s
      BY <1>1, <1>2, JournalAssumption DEF IInv, TypeOK
    <3>2. k = 1 \/ k - 1 \in Outputs
      BY <1>1, JournalAssumption
    <3>. QED
      BY <1>1, <1>2, <2>1, <3>1, <3>2, JournalAssumption

     DEF IInv, TypeOK, SInv, Early, Quiet, Installing, Removing, Stands, Passing, Kept, Last,
         Behind,
          Settled, Ended
  <2>2. CASE t # s
    <3>1. /\ pc'[t] = pc[t] /\ next'[t] = next[t]
          /\ \A o \in Outputs : installed[o] = t <=> installed'[o] = t
      BY <1>1, <1>2, <2>2, JournalAssumption DEF IInv, TypeOK
    <3>. QED
      BY <1>2, <3>1, JournalAssumption

     DEF IInv, TypeOK, SInv, Early, Quiet, Installing, Removing, Stands, Passing, Kept, Last,
         Behind,
          Settled, Ended
  <2>. QED
    BY <2>1, <2>2
<1>. QED
  BY <1>3, <1>4 DEF IInv

LEMMA TakeBackKeeps ==
  ASSUME IInv, NEW s \in Seqs, TakeBack(s) PROVE IInv'
<1>. DEFINE k == next[s]
<1>1. pc[s] = "removing" /\ k \in Outputs /\ \A o \in 1 .. k : installed[o] = s
  BY DEF IInv, SInv, Removing, TakeBack, At
<1>2. /\ installed' = [installed EXCEPT ![k] = 0] \/ UNCHANGED installed
      /\ UNCHANGED <<entry, prior, partial, terminal, witness, result, altered, worker>>
      /\ UNCHANGED <<once, witnessed, overtaken>>
      /\ pc' = [pc EXCEPT ![s] = IF k = 1 THEN "failed" ELSE "removing"]
      /\ next' = [next EXCEPT ![s] = k - 1]
  BY DEF TakeBack, BackFrom, Goto, records, command
<1>3. TypeOK'
  <2>1. k - 1 \in 0 .. N
    BY <1>1, JournalAssumption
  <2>2. installed' \in [Outputs -> 0 .. MaxSeq]
    <3>1. installed \in [Outputs -> 0 .. MaxSeq] /\ 0 \in 0 .. MaxSeq
      BY JournalAssumption DEF IInv, TypeOK
    <3>. QED
      BY <1>2, <3>1
  <2>. QED
    BY <1>2, <2>1, <2>2 DEF IInv, TypeOK
<1>4. ASSUME NEW t \in Seqs PROVE SInv(t)'
  <2>1. CASE t = s
    <3>1. \A o \in 1 .. k - 1 : installed'[o] = s
      BY <1>1, <1>2, JournalAssumption DEF IInv, TypeOK
    <3>2. k = 1 \/ k - 1 \in Outputs
      BY <1>1, JournalAssumption
    <3>3. /\ terminal[s] = "none" /\ partial[s] = "none" /\ witness[s] = "none" /\ Settled(s)
          /\ UNCHANGED <<partial, terminal, witness, worker>>
      BY <1>1, <1>2 DEF IInv, TypeOK, SInv, Quiet, Kept, Last, Ended
    <3>4. \/ k = 1 /\ pc'[s] = "failed"
          \/ k - 1 \in Outputs /\ pc'[s] = "removing" /\ next'[s] = k - 1
      BY <1>2, <3>2, JournalAssumption DEF IInv, TypeOK
    <3>. QED
      BY <2>1, <3>1, <3>3, <3>4

     DEF SInv, Early, Quiet, Installing, Removing, Stands, Passing, Kept, Last, Behind,
         Settled, Ended
  <2>2. CASE t # s
    <3>1. installed[k] = s /\ t # 0
      BY <1>1, JournalAssumption
    <3>2. /\ pc'[t] = pc[t] /\ next'[t] = next[t]
          /\ \A o \in Outputs : installed[o] = t <=> installed'[o] = t
      BY <1>1, <1>2, <2>2, <3>1, JournalAssumption DEF IInv, TypeOK
    <3>. QED
      BY <1>2, <3>2, JournalAssumption

     DEF IInv, TypeOK, SInv, Early, Quiet, Installing, Removing, Stands, Passing, Kept, Last,
         Behind,
          Settled, Ended
  <2>. QED
    BY <2>1, <2>2
<1>. QED
  BY <1>3, <1>4 DEF IInv

LEMMA FailKeeps ==
  ASSUME IInv, NEW s \in Seqs, Fail(s) PROVE IInv'
<1>1. TypeOK'
  BY JournalAssumption DEF IInv, TypeOK, SInv, Installing, Removing, Fail, Goto, At, files,
                           records, command
<1>2. ASSUME NEW t \in Seqs PROVE SInv(t)'
  BY JournalAssumption
  DEF IInv, TypeOK, SInv, Early, Quiet, Installing, Removing, Stands, Passing,
     Kept, Last, Behind, Settled, Ended, Fail, Goto, At, files, records, command
<1>. QED
  BY <1>1, <1>2 DEF IInv

LEMMA RetainPartialKeeps ==
  ASSUME IInv, NEW s \in Seqs, RetainPartial(s) PROVE IInv'
<1>1. TypeOK'
  BY JournalAssumption
  DEF IInv, TypeOK, SInv, Installing, Removing, RetainPartial, Goto, At, files, records, command
<1>2. ASSUME NEW t \in Seqs PROVE SInv(t)'
  BY JournalAssumption
  DEF IInv, TypeOK, SInv, Early, Quiet, Installing, Removing, Stands, Passing,
     Kept, Last, Behind, Settled, Ended, RetainPartial, Goto, At, files, records, command
<1>. QED
  BY <1>1, <1>2 DEF IInv

LEMMA CompleteKeeps ==
  ASSUME IInv, NEW s \in Seqs, Complete(s) PROVE IInv'
<1>1. TypeOK'
  BY JournalAssumption
  DEF IInv, TypeOK, SInv, Installing, Removing, Complete, Goto, At, files, records, command
<1>2. ASSUME NEW t \in Seqs PROVE SInv(t)'
  BY JournalAssumption
  DEF IInv, TypeOK, SInv, Early, Quiet, Installing, Removing, Stands, Passing,
     Kept, Last, Behind, Settled, Ended, Complete, Goto, At, files, records, command
<1>. QED
  BY <1>1, <1>2 DEF IInv

LEMMA CommitKeeps ==
  ASSUME IInv, NEW s \in Seqs, Commit(s) PROVE IInv'
<1>1. TypeOK'
  BY JournalAssumption
  DEF IInv, TypeOK, SInv, Installing, Removing, Commit, Goto, At, files, records, command
<1>2. ASSUME NEW t \in Seqs PROVE SInv(t)'
  BY JournalAssumption
  DEF IInv, TypeOK, SInv, Early, Quiet, Installing, Removing, Stands, Passing,
     Kept, Last, Behind, Settled, Ended, Commit, Goto, At, files, records, command
<1>. QED
  BY <1>1, <1>2 DEF IInv

LEMMA CrashKeeps ==
  ASSUME IInv, NEW s \in Seqs, Crash(s) PROVE IInv'
<1>1. TypeOK'
  BY JournalAssumption DEF IInv, TypeOK, SInv, Installing, Removing, Crash, Goto, At, files,
                           records, command
<1>2. ASSUME NEW t \in Seqs PROVE SInv(t)'
  BY JournalAssumption
  DEF IInv, TypeOK, SInv, Early, Quiet, Installing, Removing, Stands, Passing,
     Kept, Last, Behind, Settled, Ended, Crash, Goto, At, files, records, command
<1>. QED
  BY <1>1, <1>2 DEF IInv

LEMMA TearKeeps ==
  ASSUME IInv, NEW s \in Seqs, Tear(s) PROVE IInv'
<1>1. TypeOK'
  BY SMTT(60) DEF IInv, TypeOK, Tear, Goto, At, records, command
<1>2. ASSUME NEW t \in Seqs PROVE SInv(t)'
  BY JournalAssumption
  DEF IInv, TypeOK, SInv, Early, Quiet, Installing, Removing, Stands, Passing,
     Kept, Last, Behind, Settled, Ended, Tear, Goto, At, files, records, command
<1>. QED
  BY <1>1, <1>2 DEF IInv

--------------------------------------------------------------------------------

LEMMA StepKeeps == IInv /\ [Next]_vars => IInv'
<1>1. CASE UNCHANGED vars
  BY <1>1
  DEF vars, files, records, command, IInv, TypeOK, SInv, Early, Quiet, Installing, Removing,
      Stands, Passing,
     Kept, Last, Behind, Settled, Ended
<1>2. ASSUME IInv, NEW s \in Seqs, Step(s) PROVE IInv'
  BY <1>2,
     InspectKeeps, ReserveKeeps, WriteIntentKeeps, StartWorkerKeeps, RefuseKeeps,
     WorkerReportsKeeps, WorkerDiesKeeps, AlterKeeps, WaitKeeps, CancelKeeps,
     StopGroupKeeps, GroupRemainsKeeps, VerifyKeeps, RejectKeeps, InstallKeeps,
     InstallFailsKeeps, InstallUnlistedKeeps, TakeBackKeeps, FailKeeps,
     RetainPartialKeeps, CompleteKeeps, CommitKeeps, CrashKeeps, TearKeeps
  DEF Step, Supervise, WorkerEnds
<1>. QED
  BY <1>1, <1>2 DEF Next

\* The invariant that relates the place of every supervisor to its worker's group, to
\* its terminal and to what stands at the outputs (lines 15600-15708) holds for every
\* number of invocations and outputs.
THEOREM Invariance == Spec => []IInv
<1>. QED
  BY Starts, StepKeeps, PTL DEF Spec

\* Every variable keeps its type.
THEOREM TypeCorrect == Spec => []TypeOK
<1>1. IInv => TypeOK
  BY DEF IInv
<1>. QED
  BY <1>1, Invariance, PTL

\* Every terminal that says PASS has all its outputs in place with the bytes it names,
\* whatever the other supervisors install or take back (lines 15288-15374).
THEOREM PassesHold == Spec => []PassHolds
<1>1. IInv => PassHolds
  BY DEF IInv, SInv, Stands, Passing, PassHolds
<1>. QED
  BY <1>1, Invariance, PTL

\* A terminal or an output of an invocation is there only when no process of its
\* worker is left (lines 15660-15662, 15704-15705).
THEOREM WorkersSettleFirst == Spec => []SettledFirst
<1>1. IInv => SettledFirst
  BY DEF IInv, SInv, Behind, Settled, SettledFirst
<1>. QED
  BY <1>1, Invariance, PTL

--------------------------------------------------------------------------------
(* Reading back *)

\* It has all it needs to be read back, as far as its own records go.
Closed(s) ==
  terminal[s] = "fail" \/ (terminal[s] = "pass" /\ (witnessed => witness[s] = "kept"))

\* An invocation begins with a reservation, and has its intent before it does anything.
Begun(s) ==
  /\ pc[s] \in {"idle", "inspected"} <=> entry[s] = "none"
  /\ pc[s] = "reserved" => entry[s] = "reserved"
  /\ pc[s] \notin {"idle", "inspected", "reserved", "ended"} \/ terminal[s] # "none"
       => entry[s] = "intent"

\* Those before it have theirs, and what it noted of the last one is still so: a terminal
\* stays, and one that had none when it had ended never gets one.
Noted(s) ==
  pc[s] # "idle" =>
    /\ \A p \in 1 .. s - 1 : entry[p] = "intent"
    /\ s > 1 => \/ prior[s] = "terminal" /\ Closed(s - 1)
                \/ /\ prior[s] = "interrupted"
                   /\ s - 1 \in overtaken \/ (terminal[s - 1] = "none" /\ Ended(s - 1))

RInv == \A s \in Seqs : Begun(s) /\ Noted(s)

\* What a step of s may do to the records: they are its own, and are written once.
Records(s) ==
  /\ \A t \in Seqs \ {s} : /\ entry'[t] = entry[t] /\ prior'[t] = prior[t]
                           /\ partial'[t] = partial[t] /\ terminal'[t] = terminal[t]
                           /\ witness'[t] = witness[t] /\ pc'[t] = pc[t]
  /\ UNCHANGED witnessed
  /\ entry[s] = "intent" => entry'[s] = "intent"
  /\ entry[s] = "none" => entry'[s] \in {"none", "reserved"}
  /\ partial'[s] # partial[s] => partial[s] = "none" /\ ~Ended(s)
  /\ terminal'[s] # terminal[s] => terminal[s] = "none" /\ ~Ended(s)
  /\ witness'[s] # witness[s] => witness[s] = "none"
  /\ Ended(s) => Ended(s)'
  /\ Begun(s)'

\* What was noted stays unless it is noted anew.
Stays(s) == UNCHANGED <<prior, overtaken>> /\ (pc'[s] # "idle" => pc[s] # "idle")

LEMMA InspectRecords ==
  ASSUME IInv, NEW s \in Seqs, Begun(s), Inspect(s) PROVE Records(s)
BY DEF IInv, TypeOK, Records, Begun, Ended, Inspect, Goto, At, records, command

LEMMA ReserveRecords ==
  ASSUME IInv, NEW s \in Seqs, Begun(s), Reserve(s) PROVE Records(s) /\ Stays(s)
BY DEF IInv, TypeOK, SInv, Kept, Last, Records, Stays, Begun, Ended, Reserve, Goto, At, files,
       records, command

LEMMA WriteIntentRecords ==
  ASSUME IInv, NEW s \in Seqs, Begun(s), WriteIntent(s) PROVE Records(s) /\ Stays(s)
BY DEF IInv, TypeOK, SInv, Kept, Last, Records, Stays, Begun, Ended, WriteIntent, Goto, At,
       files, records, command

\* Most steps write no record: the invocation has its intent and goes on.
Working == {"opened", "waiting", "stopping", "cancelling", "verifying", "installing",
            "removing", "passing", "failed"}

Silent(s) ==
  /\ UNCHANGED <<entry, prior, partial, terminal, witness, witnessed, overtaken>>
  /\ \/ pc' = pc
     \/ pc[s] \in Working /\ \E place \in Working \cup {"ended"} : Goto(s, place)

LEMMA SilentRecords ==
  ASSUME IInv, NEW s \in Seqs, Begun(s), Silent(s) PROVE Records(s) /\ Stays(s)
<1>1. CASE pc' = pc
  BY <1>1 DEF Silent, Records, Stays, Begun, Ended
<1>2. CASE pc[s] \in Working /\ \E place \in Working \cup {"ended"} : Goto(s, place)
  <2>1. PICK place \in Working \cup {"ended"} : pc' = [pc EXCEPT ![s] = place]
    BY <1>2 DEF Goto
  <2>2. pc'[s] = place /\ \A t \in Seqs \ {s} : pc'[t] = pc[t]
    BY <2>1 DEF IInv, TypeOK
  <2>3. entry[s] = "intent" /\ ~Ended(s)
    BY <1>2 DEF Working, Begun, Ended
  <2>. QED
    BY <1>2, <2>2, <2>3 DEF Silent, Records, Stays, Begun, Ended, Working
<1>. QED
  BY <1>1, <1>2 DEF Silent

LEMMA SilentSteps ==
  ASSUME IInv, NEW s \in Seqs,
         \/ StartWorker(s) \/ Refuse(s) \/ WorkerEnds(s) \/ Alter(s) \/ Wait(s) \/ Cancel(s)
         \/ StopGroup(s) \/ GroupRemains(s) \/ Verify(s) \/ Reject(s) \/ Install(s)
         \/ InstallFails(s) \/ InstallUnlisted(s) \/ TakeBack(s) \/ Fail(s)
  PROVE  Silent(s)
<1>. USE DEF Silent, Working, Goto, At, files, records, command
<1>1. CASE StartWorker(s)
  BY <1>1 DEF StartWorker
<1>2. CASE Refuse(s)
  BY <1>2 DEF Refuse
<1>3. CASE WorkerReports(s)
  BY <1>3 DEF WorkerReports
<1>4. CASE WorkerDies(s)
  BY <1>4 DEF WorkerDies
<1>5. CASE Alter(s)
  BY <1>5 DEF Alter
<1>6. CASE Wait(s)
  BY <1>6 DEF Wait
<1>7. CASE Cancel(s)
  BY <1>7 DEF Cancel
<1>8. CASE StopGroup(s)
  BY <1>8 DEF StopGroup
<1>9. CASE GroupRemains(s)
  BY <1>9 DEF GroupRemains
<1>10. CASE Verify(s)
  BY <1>10 DEF Verify
<1>11. CASE Reject(s)
  BY <1>11 DEF Reject
<1>12. CASE Install(s)
  BY <1>12 DEF Install, Place
<1>13. CASE InstallFails(s)
  BY <1>13 DEF InstallFails, BackFrom
<1>14. CASE InstallUnlisted(s)
  BY <1>14 DEF InstallUnlisted, Place, BackFrom
<1>15. CASE TakeBack(s)
  BY <1>15 DEF TakeBack, BackFrom
<1>16. CASE Fail(s)
  BY <1>16 DEF Fail
<1>. QED
  BY <1>1, <1>2, <1>3, <1>4, <1>5, <1>6, <1>7, <1>8, <1>9, <1>10, <1>11, <1>12, <1>13, <1>14, <1>15, <1>16 DEF WorkerEnds

LEMMA RetainPartialRecords ==
  ASSUME IInv, NEW s \in Seqs, Begun(s), RetainPartial(s) PROVE Records(s) /\ Stays(s)
BY DEF IInv, TypeOK, SInv, Kept, Last, Records, Stays, Begun, Ended, RetainPartial, Goto, At,
       files, records, command

LEMMA CompleteRecords ==
  ASSUME IInv, NEW s \in Seqs, Begun(s), Complete(s) PROVE Records(s) /\ Stays(s)
BY DEF IInv, TypeOK, SInv, Kept, Last, Records, Stays, Begun, Ended, Complete, Goto, At, files,
       records, command

LEMMA CommitRecords ==
  ASSUME IInv, NEW s \in Seqs, Begun(s), Commit(s) PROVE Records(s) /\ Stays(s)
BY DEF IInv, TypeOK, SInv, Kept, Last, Records, Stays, Begun, Ended, Commit, Goto, At, files,
       records, command

LEMMA CrashRecords ==
  ASSUME IInv, NEW s \in Seqs, Begun(s), Crash(s) PROVE Records(s) /\ Stays(s)
BY DEF IInv, TypeOK, SInv, Kept, Last, Records, Stays, Begun, Ended, Crash, Goto, At, files,
       records, command

LEMMA TearRecords ==
  ASSUME IInv, NEW s \in Seqs, Begun(s), Tear(s) PROVE Records(s) /\ Stays(s)
<1>1. /\ terminal[s] # "none" => Ended(s) \/ pc[s] = "committing"
      /\ partial[s] # "none" => pc[s] = "retained" \/ Ended(s)
      /\ witness[s] # "none" => Ended(s)
  BY DEF IInv, SInv, Kept, Last
<1>2. Stays(s) /\ Ended(s)' /\ UNCHANGED witnessed /\ \A t \in Seqs \ {s} : pc'[t] = pc[t]
  BY DEF IInv, TypeOK, Stays, Ended, Tear, Goto, At, command
<1>3. CASE At(s, "reserved")
  BY <1>1, <1>2, <1>3 DEF IInv, TypeOK, Records, Begun, Ended, Tear, At, records
<1>4. CASE At(s, "failed")
  BY <1>1, <1>2, <1>4 DEF IInv, TypeOK, Records, Begun, Ended, Tear, At
<1>5. CASE pc[s] \in {"passing", "retained"}
  BY <1>1, <1>2, <1>5 DEF IInv, TypeOK, Records, Begun, Ended, Tear, At
<1>6. CASE At(s, "committing")
  BY <1>1, <1>2, <1>6 DEF IInv, TypeOK, Records, Begun, Ended, Tear, At
<1>. QED
  BY <1>3, <1>4, <1>5, <1>6 DEF Tear

LEMMA StepRecords ==
  ASSUME IInv, NEW s \in Seqs, Begun(s), Step(s)
  PROVE  Records(s) /\ (Inspect(s) \/ Stays(s))
BY InspectRecords, ReserveRecords, WriteIntentRecords, SilentSteps, SilentRecords,
   RetainPartialRecords, CompleteRecords, CommitRecords, CrashRecords, TearRecords
DEF Step, Supervise

\* A terminal that is there holds: only PASS asks for more, and that is PassHolds.
LEMMA ClosedHolds ==
  ASSUME IInv, NEW s \in Seqs PROVE Closed(s) <=> TerminalHolds(s)
<1>1. /\ terminal[s] = "fail" => Inventory(s)
      /\ terminal[s] = "pass" => Inventory(s) /\ Stands(s)
  BY DEF IInv, SInv, Passing, Kept, Inventory
<1>. QED
  BY <1>1, Zenon DEF Closed, TerminalHolds

LEMMA RecordsKeep ==
  ASSUME IInv, RInv, NEW s \in Seqs, Step(s) PROVE RInv'
<1>0. Records(s) /\ (Inspect(s) \/ Stays(s))
  BY StepRecords DEF RInv
<1>1. ASSUME NEW t \in Seqs PROVE Begun(t)'
  BY <1>0 DEF RInv, Records, Begun
<1>2. ASSUME NEW t \in Seqs, entry[t] = "intent" PROVE entry'[t] = "intent"
  BY <1>0, <1>2 DEF Records
<1>3. ASSUME NEW t \in Seqs, Closed(t) PROVE Closed(t)'
  BY <1>0, <1>3 DEF Records, Closed
<1>4. ASSUME NEW t \in Seqs, terminal[t] = "none", Ended(t)
      PROVE  terminal'[t] = "none" /\ Ended(t)'
  BY <1>0, <1>4 DEF Records, Ended
<1>5. ASSUME NEW t \in Seqs, t > 1, t # s \/ ~Inspect(s), t - 1 \in overtaken
      PROVE  t - 1 \in overtaken'
  BY <1>0, <1>5, JournalAssumption DEF Stays, Inspect
<1>6. ASSUME NEW t \in Seqs, t # s \/ ~Inspect(s), pc'[t] # "idle" PROVE Noted(t)'
  <2>1. pc[t] # "idle" /\ prior'[t] = prior[t]
    BY <1>0, <1>6 DEF Records, Stays
  <2>2. Noted(t) /\ (\A p \in 1 .. t - 1 : p \in Seqs) /\ (t > 1 => t - 1 \in Seqs)
    BY JournalAssumption DEF RInv
  <2>. QED
    BY <1>2, <1>3, <1>4, <1>5, <1>6, <2>1, <2>2 DEF Noted
<1>7. ASSUME Inspect(s) PROVE Noted(s)'
  <2>0. (\A p \in 1 .. s - 1 : p \in Seqs) /\ (s > 1 => s - 1 \in Seqs)
    BY JournalAssumption
  <2>1. ASSUME NEW p \in 1 .. s - 1 PROVE entry'[p] = "intent"
    <3>1. s > 1 /\ s - 1 \in Seqs /\ p \in Seqs /\ (p = s - 1 \/ p \in 1 .. (s - 1) - 1)
      BY <2>0, JournalAssumption
    <3>2. entry[s - 1] = "intent"
      BY <1>7, <3>1 DEF Inspect
    <3>3. entry[p] = "intent"
      BY <3>1, <3>2 DEF RInv, Begun, Noted
    <3>. QED
      BY <1>2, <3>1, <3>3
  <2>2. ASSUME s > 1
        PROVE  \/ prior'[s] = "terminal" /\ Closed(s - 1)
               \/ /\ prior'[s] = "interrupted"
                  /\ s - 1 \in overtaken' \/ (terminal[s - 1] = "none" /\ Ended(s - 1))
    <3>1. s - 1 \in Seqs /\ prior'[s] = IF terminal[s - 1] = "none" THEN "interrupted" ELSE "terminal"
      BY <1>7, <2>0, <2>2 DEF Inspect, IInv, TypeOK
    <3>2. CASE terminal[s - 1] = "none"
      BY <1>7, <2>2, <3>1, <3>2 DEF Inspect
    <3>3. CASE terminal[s - 1] # "none"
      <4>1. TerminalHolds(s - 1)
        BY <1>7, <2>2, <3>3 DEF Inspect, Readable
      <4>. QED
        BY <3>1, <3>3, <4>1, ClosedHolds
    <3>. QED
      BY <3>2, <3>3
  <2>3. s > 1 => (Closed(s - 1) => Closed(s - 1)')
                 /\ (terminal[s - 1] = "none" /\ Ended(s - 1) => terminal'[s - 1] = "none" /\ Ended(s - 1)')
    BY <1>3, <1>4, <2>0
  <2>. QED
    BY <2>1, <2>2, <2>3 DEF Noted
<1>8. ASSUME NEW t \in Seqs PROVE Noted(t)'
  BY <1>6, <1>7 DEF Noted
<1>. QED
  BY <1>1, <1>8 DEF RInv

\* The invariant of the records.
LEMMA RecordsInvariance == Spec => [](IInv /\ RInv)
<1>1. Init => RInv
  BY JournalAssumption DEF Init, RInv, Begun, Noted
<1>2. IInv /\ RInv /\ [Next]_vars => RInv'
  <2>1. CASE UNCHANGED vars
    BY <2>1 DEF vars, files, records, command, RInv, Begun, Noted, Closed, Ended
  <2>. QED
    BY <2>1, RecordsKeep DEF Next
<1>. QED
  BY <1>1, <1>2, Starts, StepKeeps, PTL DEF Spec

\* What an invocation noted of its predecessors is what the readback asks for (lines 10966
\* and 11619), unless one of them was overtaken or cut off while it listed what was left, or
\* a PASS has no witness; for every number of invocations.
THEOREM TerminalsReadBack == Spec => []ReadsBack
<1>1. ASSUME IInv, RInv, NEW s \in Seqs, Closed(s),
             \A p \in 1 .. s - 1 : p \notin overtaken /\ Inventory(p)
      PROVE  Readable(s)
  <2>1. entry[s] = "intent" /\ pc[s] # "idle" /\ TerminalHolds(s)
    BY <1>1, ClosedHolds DEF RInv, Begun, Closed
  <2>2. ASSUME NEW p \in 1 .. s - 1
        PROVE  /\ entry[p] = "intent"
               /\ IF prior[p + 1] = "terminal" THEN TerminalHolds(p)
                                               ELSE terminal[p] = "none" /\ Inventory(p)
    <3>1. /\ p \in Seqs /\ p + 1 \in Seqs /\ p + 1 > 1 /\ (p + 1) - 1 = p
          /\ p \notin overtaken /\ Inventory(p)
          /\ p + 1 = s \/ p + 1 \in 1 .. s - 1
      BY <1>1, JournalAssumption
    <3>2. entry[p] = "intent" /\ pc[p + 1] # "idle"
      BY <1>1, <2>1, <3>1 DEF RInv, Begun, Noted
    <3>3. \/ prior[p + 1] = "terminal" /\ Closed(p)
          \/ prior[p + 1] = "interrupted" /\ terminal[p] = "none"
      BY <1>1, <3>1, <3>2 DEF RInv, Noted
    <3>. QED
      BY <1>1, <3>1, <3>2, <3>3, ClosedHolds
  <2>. QED
    BY <2>1, <2>2 DEF Readable
<1>2. IInv /\ RInv => ReadsBack
  <2>1. SUFFICES ASSUME IInv, RInv, NEW s \in Seqs, terminal[s] \in {"pass", "fail"},
                        \A p \in 1 .. s - 1 : p \notin overtaken /\ Inventory(p),
                        terminal[s] = "pass" /\ witnessed => witness[s] = "kept"
                 PROVE  Readable(s)
    BY Zenon DEF ReadsBack
  <2>2. Closed(s)
    BY <2>1, Zenon DEF Closed
  <2>. QED
    BY <1>1, <2>1, <2>2
<1>. QED
  BY <1>2, RecordsInvariance, PTL

\* An accepted output stays accepted while the journal goes on (line 11834), but for a new
\* reservation and for an overtaken invocation that closes or is cut off.
THEOREM OutputsStayAccepted == Spec => AcceptanceStays
<1>1. ASSUME IInv, IInv', RInv, NEW s \in Seqs, Step(s), NEW o \in Outputs, Accepted(o),
             ~\E t \in Seqs : entry[t] = "none" /\ entry'[t] = "reserved",
             ~\E t \in overtaken : \/ terminal[t] = "none" /\ terminal'[t] # "none"
                                   \/ partial[t] = "none" /\ partial'[t] = "torn"
      PROVE  Accepted(o)'
  <2>0. PICK m \in Seqs : installed[o] = m
    BY <1>1 DEF Accepted, IInv, TypeOK
  <2>1. /\ m \in Seqs /\ terminal[m] = "pass" /\ Readable(m)
        /\ \A t \in Seqs : entry[t] \in {"none", "intent"}
    BY <1>1, <2>0 DEF Accepted, IInv, TypeOK
  <2>2. Records(s) /\ (Inspect(s) \/ Stays(s))
    BY <1>1, StepRecords DEF RInv
  <2>3. terminal'[m] = "pass" /\ installed'[o] = m
    <3>1. terminal'[m] = "pass"
      BY <2>1, <2>2 DEF Records
    <3>. QED
      BY <1>1, <2>0, <2>1, <3>1 DEF IInv, SInv, Stands, Passing
  <2>4. ASSUME NEW t \in Seqs PROVE /\ entry'[t] \in {"none", "intent"}
                                    /\ entry[t] = "intent" => entry'[t] = "intent"
                                    /\ Closed(t) => TerminalHolds(t)'
    <3>1. entry[t] = "intent" => entry'[t] = "intent"
      BY <2>2 DEF Records
    <3>2. entry[t] = "none" => entry'[t] = "none"
      BY <1>1, <2>2 DEF Records
    <3>3. Closed(t) => Closed(t)'
      BY <2>2 DEF Records, Closed
    <3>4. Closed(t)' => TerminalHolds(t)'
      BY <1>1 DEF IInv, SInv, Stands, Passing, Kept, Closed, Inventory, TerminalHolds
    <3>. QED
      BY <2>1, <3>1, <3>2, <3>3, <3>4
  <2>5. ASSUME NEW p \in 1 .. m - 1
        PROVE  /\ entry'[p] = "intent"
               /\ IF prior'[p + 1] = "terminal"
                  THEN TerminalHolds(p)' ELSE terminal'[p] = "none" /\ Inventory(p)'
    <3>1. /\ p \in Seqs /\ p + 1 \in Seqs /\ p + 1 > 1 /\ (p + 1) - 1 = p
          /\ p + 1 = m \/ p + 1 \in 1 .. m - 1
      BY <2>1, JournalAssumption
    <3>2. entry[p] = "intent" /\ entry[p + 1] = "intent"
      BY <2>1, <3>1 DEF Readable
    <3>3. prior'[p + 1] = prior[p + 1]
      BY <2>2, <3>1, <3>2 DEF Records, Stays, Inspect
    <3>4. CASE prior[p + 1] = "terminal"
      BY <1>1, <2>1, <2>4, <3>1, <3>2, <3>3, <3>4, ClosedHolds DEF Readable
    <3>5. CASE prior[p + 1] # "terminal"
      <4>1. terminal[p] = "none" /\ Inventory(p) /\ pc[p + 1] # "idle"
        BY <1>1, <2>1, <3>1, <3>2, <3>5 DEF Readable, RInv, Begun
      <4>2. p \in overtaken \/ Ended(p)
        BY <1>1, <3>1, <3>5, <4>1 DEF RInv, Noted
      <4>3. terminal'[p] = "none" /\ Inventory(p)'
        BY <1>1, <2>2, <3>1, <4>1, <4>2 DEF Records, Inventory
      <4>. QED
        BY <2>4, <3>1, <3>2, <3>3, <3>5, <4>3
    <3>. QED
      BY <3>4, <3>5
  <2>6. entry'[m] = "intent" /\ TerminalHolds(m)'
    <3>1. entry[m] = "intent" /\ Closed(m)
      BY <1>1, <2>1, ClosedHolds DEF Readable
    <3>. QED
      BY <2>4, <3>1
  <2>7. Readable(m)'
    BY <2>5, <2>6 DEF Readable
  <2>. QED
    BY <2>1, <2>3, <2>4, <2>7 DEF Accepted
<1>2. ASSUME UNCHANGED vars, NEW o \in Outputs, Accepted(o) PROVE Accepted(o)'
  BY <1>2 DEF vars, files, records, command, Accepted, Readable, TerminalHolds,
              Stands, Inventory
<1>3. (IInv /\ RInv) /\ (IInv /\ RInv)' /\ [Next]_vars =>
        [\A o \in Outputs :
           Accepted(o) /\ ~Accepted(o)' =>
             \/ \E s \in Seqs : entry[s] = "none" /\ entry'[s] = "reserved"
             \/ \E s \in overtaken :
                  \/ terminal[s] = "none" /\ terminal'[s] # "none"
                  \/ partial[s] = "none" /\ partial'[s] = "torn"]_vars
  BY <1>1, <1>2 DEF Next
<1>. QED
  BY <1>3, RecordsInvariance, PTL DEF Spec, AcceptanceStays

================================================================================
