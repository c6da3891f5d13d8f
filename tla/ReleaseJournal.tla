---------------------------- MODULE ReleaseJournal ----------------------------
(***************************************************************************)
(* The journal of a release command in a run directory                     *)
(* (metriplane/release_control.py, run_release_command): every invocation  *)
(* takes the next sequence number of its stage, leaves an intent there     *)
(* before it does anything, lets a worker make the outputs on the side,    *)
(* installs them, and closes with a terminal record.  There is no lock:    *)
(* the next invocation may begin while an earlier one still runs, which    *)
(* looks the same to it as one that was interrupted.                       *)
(*                                                                         *)
(* A step is one durable effect, with the checks before it.  Supervisors   *)
(* and sequence numbers share a number, for a directory is made once.      *)
(* What an intent says of arguments and inputs is left out: inputs do not  *)
(* change.  The outputs are files that a rename puts in place, as for a    *)
(* promotion (its record and its lock receipt); a directory of artifacts   *)
(* is one of them.                                                         *)
(***************************************************************************)
EXTENDS Naturals

CONSTANTS
  MaxSeq,   \* bound: invocations of the stage
  N         \* planned outputs of the command

ASSUME JournalAssumption == MaxSeq \in Nat \ {0} /\ N \in Nat \ {0}

Seqs    == 1 .. MaxSeq
Outputs == 1 .. N

VARIABLES
  \* files
  entry,      \* directory and intent of an invocation: "none", "reserved", "torn", "intent"
  prior,      \* its predecessor, by its intent: "none", "terminal", "interrupted"
  partial,    \* partial-files.json, what a failure left: "none", "torn", "kept"
  terminal,   \* invocation.json: "none", "torn", "pass", "fail"
  witness,    \* terminal-commit.json: "none", "torn", "kept"
  installed,  \* the invocation whose file is at the destination of an output; 0: none
  result,     \* worker-result.json: "none", "pass", "fail"
  altered,    \* whose output files changed after the worker had reported them
  \* processes
  worker,     \* the worker's group: "none", "running", "lingering" (its head has ended), "gone"
  pc,         \* where the supervisor is
  next,       \* the output it installs or takes back
  \* bookkeeping
  once,       \* the command makes its outputs at the first invocation or never
  witnessed,  \* its PASS needs a commit witness beside the terminal
  overtaken   \* who still ran when its successor noted it as interrupted

command == <<once, witnessed>>
records == <<partial, terminal, witness>>
files   == <<entry, prior, records, installed, result, altered>>
vars    == <<files, worker, pc, next, command, overtaken>>

Init ==
  /\ entry = [s \in Seqs |-> "none"] /\ prior = [s \in Seqs |-> "none"]
  /\ partial = [s \in Seqs |-> "none"] /\ terminal = [s \in Seqs |-> "none"]
  /\ witness = [s \in Seqs |-> "none"] /\ installed = [o \in Outputs |-> 0]
  /\ result = [s \in Seqs |-> "none"] /\ altered = {}
  /\ worker = [s \in Seqs |-> "none"] /\ pc = [s \in Seqs |-> "idle"]
  /\ next = [s \in Seqs |-> 1]
  /\ once \in BOOLEAN /\ witnessed \in BOOLEAN /\ ~(once /\ witnessed)
  /\ overtaken = {}

At(s, place)   == pc[s] = place
Goto(s, place) == pc' = [pc EXCEPT ![s] = place]
Ended(s)       == pc[s] = "ended"

\* Nothing stands where the outputs go.
Vacant == \A o \in Outputs : installed[o] = 0

--------------------------------------------------------------------------------
(* Reading the journal back *)

\* The inventory of what a failure left, if there is one, can be parsed: it was
\* made after the last change to what it lists.
Inventory(s) == partial[s] # "torn"

\* What a PASS names is there with the bytes it names.
Stands(s) == s \notin altered /\ \A o \in Outputs : installed[o] = s

\* A terminal is good while everything it names is; a PASS has its witness too.
TerminalHolds(s) ==
  /\ Inventory(s)
  /\ \/ terminal[s] = "fail"
     \/ terminal[s] = "pass" /\ Stands(s) /\ (witnessed => witness[s] = "kept")

\* So are those before it, down to the first.  One that counts as interrupted must
\* not have a terminal, and an inventory it has is read all the same.
Readable(s) ==
  /\ entry[s] = "intent" /\ TerminalHolds(s)
  /\ \A p \in 1 .. s - 1 :
       /\ entry[p] = "intent"
       /\ IF prior[p + 1] = "terminal" THEN TerminalHolds(p)
                                       ELSE terminal[p] = "none" /\ Inventory(p)

\* A consumer takes an output if it resolves to the invocation that made it, if
\* that one passed, and if every invocation in the run has an intent.
Accepted(o) ==
  /\ installed[o] # 0 /\ terminal[installed[o]] = "pass" /\ Readable(installed[o])
  /\ \A s \in Seqs : entry[s] \in {"none", "intent"}

--------------------------------------------------------------------------------
(* Beginning *)

\* Defect: a terminal that was cut off counts as none.
InspectTorn(s) ==
  /\ pc[s] \in {"idle", "inspected"} /\ entry[s] = "none"
  /\ \A p \in 1 .. s - 1 : entry[p] # "none"
  /\ s > 1 => entry[s - 1] = "intent"
               /\ (terminal[s - 1] \notin {"none", "torn"} => Readable(s - 1))
  /\ prior' = [prior EXCEPT ![s] = IF s = 1 THEN "none"
                                   ELSE IF terminal[s - 1] \in {"none", "torn"} THEN "interrupted"
                                   ELSE "terminal"]
  /\ Goto(s, "inspected")
  /\ UNCHANGED <<entry, records, installed, result, altered, worker, next, command, overtaken>>

\* The number has to be the next one.  A predecessor without a terminal counts as
\* interrupted, one with a terminal must be readable.
Inspect(s) ==
  /\ pc[s] \in {"idle", "inspected"} /\ entry[s] = "none"
  /\ \A p \in 1 .. s - 1 : entry[p] # "none"
  /\ s > 1 => entry[s - 1] = "intent" /\ (terminal[s - 1] # "none" => Readable(s - 1))
  /\ prior' = [prior EXCEPT ![s] = IF s = 1 THEN "none"
                                   ELSE IF terminal[s - 1] = "none" THEN "interrupted"
                                   ELSE "terminal"]
  /\ overtaken' = IF s > 1 /\ terminal[s - 1] = "none" /\ ~Ended(s - 1)
                  THEN overtaken \cup {s - 1} ELSE overtaken \ {s - 1}
  /\ Goto(s, "inspected")
  /\ UNCHANGED <<entry, records, installed, result, altered, worker, next, command>>

\* The directory is made exclusively: of several that inspected, one goes on.
Reserve(s) ==
  /\ At(s, "inspected")
  /\ entry' = [entry EXCEPT ![s] = "reserved"]
  /\ Goto(s, "reserved")
  /\ UNCHANGED <<prior, records, installed, result, altered, worker, next, command, overtaken>>

WriteIntent(s) ==
  /\ At(s, "reserved")
  /\ entry' = [entry EXCEPT ![s] = "intent"]
  /\ Goto(s, "opened")
  /\ UNCHANGED <<prior, records, installed, result, altered, worker, next, command, overtaken>>

--------------------------------------------------------------------------------
(* The worker and its supervisor *)

MayWork(s) == Vacant /\ (once => s = 1)

StartWorker(s) ==
  /\ At(s, "opened") /\ MayWork(s)
  /\ worker' = [worker EXCEPT ![s] = "running"]
  /\ Goto(s, "waiting")
  /\ UNCHANGED <<files, next, command, overtaken>>

Refuse(s) ==
  /\ At(s, "opened") /\ ~MayWork(s)
  /\ Goto(s, "failed")
  /\ UNCHANGED <<files, worker, next, command, overtaken>>

\* The worker has a session of its own: it goes on when its supervisor dies, and
\* what it started goes on when it has ended itself.
WorkerReports(s) ==
  /\ worker[s] = "running"
  /\ \E verdict \in {"pass", "fail"} : result' = [result EXCEPT ![s] = verdict]
  /\ worker' = [worker EXCEPT ![s] = "lingering"]
  /\ UNCHANGED <<entry, prior, records, installed, altered, pc, next, command, overtaken>>

WorkerDies(s) ==
  /\ worker[s] = "running"
  /\ worker' = [worker EXCEPT ![s] = "lingering"]
  /\ UNCHANGED <<files, pc, next, command, overtaken>>

\* A process that the worker left behind writes to an output file, wherever that is.
Alter(s) ==
  /\ worker[s] = "lingering" /\ result[s] = "pass" /\ s \notin altered
  /\ altered' = altered \cup {s}
  /\ UNCHANGED <<entry, prior, records, installed, result, worker, pc, next, command, overtaken>>

Wait(s) ==
  /\ At(s, "waiting") /\ worker[s] = "lingering"
  /\ Goto(s, "stopping")
  /\ UNCHANGED <<files, worker, next, command, overtaken>>

\* The keyboard interrupt while it waits.
Cancel(s) ==
  /\ At(s, "waiting")
  /\ worker' = [worker EXCEPT ![s] = "lingering"]
  /\ Goto(s, "cancelling")
  /\ UNCHANGED <<files, next, command, overtaken>>

\* Defect: the head of the group is enough.
StopGroupUnchecked(s) ==
  /\ pc[s] \in {"stopping", "cancelling"}
  /\ Goto(s, IF At(s, "stopping") /\ result[s] = "pass" THEN "verifying" ELSE "failed")
  /\ UNCHANGED <<files, worker, next, command, overtaken>>

\* Only that the group no longer exists lets it go on.
StopGroup(s) ==
  /\ pc[s] \in {"stopping", "cancelling"}
  /\ worker' = [worker EXCEPT ![s] = "gone"]
  /\ Goto(s, IF At(s, "stopping") /\ result[s] = "pass" THEN "verifying" ELSE "failed")
  /\ UNCHANGED <<files, next, command, overtaken>>

GroupRemains(s) ==
  /\ pc[s] \in {"stopping", "cancelling"}
  /\ Goto(s, "ended")
  /\ UNCHANGED <<files, worker, next, command, overtaken>>

\* The bytes are those the worker reported, and nothing came to stand in the way.
Verify(s) ==
  /\ At(s, "verifying") /\ s \notin altered /\ Vacant
  /\ Goto(s, "installing") /\ next' = [next EXCEPT ![s] = 1]
  /\ UNCHANGED <<files, worker, command, overtaken>>

Reject(s) ==
  /\ At(s, "verifying") /\ (s \in altered \/ ~Vacant)
  /\ Goto(s, "failed")
  /\ UNCHANGED <<files, worker, next, command, overtaken>>

--------------------------------------------------------------------------------
(* Installing: one exclusive rename for each output *)

Place(s) == installed' = [installed EXCEPT ![next[s]] = s]

\* Defect: a rename that replaces.
InstallOver(s) ==
  /\ At(s, "installing") /\ s \notin altered
  /\ Place(s)
  /\ IF next[s] = N THEN Goto(s, "passing") /\ UNCHANGED next
                    ELSE UNCHANGED pc /\ next' = [next EXCEPT ![s] = @ + 1]
  /\ UNCHANGED <<entry, prior, records, result, altered, worker, command, overtaken>>

Install(s) ==
  /\ At(s, "installing") /\ installed[next[s]] = 0 /\ s \notin altered
  /\ Place(s)
  /\ IF next[s] = N THEN Goto(s, "passing") /\ UNCHANGED next
                    ELSE UNCHANGED pc /\ next' = [next EXCEPT ![s] = @ + 1]
  /\ UNCHANGED <<entry, prior, records, result, altered, worker, command, overtaken>>

\* What was installed before is taken back, the last first.
BackFrom(s) == Goto(s, IF next[s] = 1 THEN "failed" ELSE "removing")
               /\ next' = [next EXCEPT ![s] = @ - 1]

\* Defect: what stands at the destination that failed is taken back too.
InstallFailsHere(s) ==
  /\ At(s, "installing")
  /\ Goto(s, "removing")
  /\ UNCHANGED <<files, worker, next, command, overtaken>>

\* The destination was taken meanwhile, or the rename fails.
InstallFails(s) ==
  /\ At(s, "installing")
  /\ BackFrom(s)
  /\ UNCHANGED <<files, worker, command, overtaken>>

\* The rename is done and the flush of a directory fails: what it moved is not yet
\* in the list of what is taken back.
InstallUnlisted(s) ==
  /\ At(s, "installing") /\ installed[next[s]] = 0 /\ s \notin altered
  /\ Place(s) /\ BackFrom(s)
  /\ UNCHANGED <<entry, prior, records, result, altered, worker, command, overtaken>>

\* An error while taking back is swallowed.
TakeBack(s) ==
  /\ At(s, "removing")
  /\ \/ installed' = [installed EXCEPT ![next[s]] = 0]
     \/ UNCHANGED installed
  /\ BackFrom(s)
  /\ UNCHANGED <<entry, prior, records, result, altered, worker, command, overtaken>>

--------------------------------------------------------------------------------
(* The end *)

\* Any error inside the try block.  The last flush of the diagnostics is in it
\* too, and then the outputs stay where they are.
Fail(s) ==
  /\ pc[s] \in {"opened", "verifying", "passing"}
  /\ Goto(s, "failed")
  /\ UNCHANGED <<files, worker, next, command, overtaken>>

\* What is left of the attempt is listed before the terminal says that it failed.
RetainPartial(s) ==
  /\ At(s, "failed")
  /\ partial' = [partial EXCEPT ![s] = "kept"]
  /\ Goto(s, "retained")
  /\ UNCHANGED <<entry, prior, terminal, witness, installed, result, altered, worker, next,
                 command, overtaken>>

Complete(s) ==
  /\ pc[s] \in {"passing", "retained"}
  /\ terminal' = [terminal EXCEPT ![s] = IF At(s, "passing") THEN "pass" ELSE "fail"]
  /\ Goto(s, IF At(s, "passing") /\ witnessed THEN "committing" ELSE "ended")
  /\ UNCHANGED <<entry, prior, partial, witness, installed, result, altered, worker, next,
                 command, overtaken>>

Commit(s) ==
  /\ At(s, "committing")
  /\ witness' = [witness EXCEPT ![s] = "kept"]
  /\ Goto(s, "ended")
  /\ UNCHANGED <<entry, prior, partial, terminal, installed, result, altered, worker, next,
                 command, overtaken>>

\* The process dies, or an error leaves the supervisor.
Crash(s) ==
  /\ pc[s] \notin {"idle", "inspected", "ended"}
  /\ Goto(s, "ended")
  /\ UNCHANGED <<files, worker, next, command, overtaken>>

\* A write that was cut off stays as evidence.
Tear(s) ==
  /\ \/ /\ At(s, "reserved")
        /\ entry' = [entry EXCEPT ![s] = "torn"] /\ UNCHANGED records
     \/ /\ At(s, "failed")
        /\ partial' = [partial EXCEPT ![s] = "torn"] /\ UNCHANGED <<entry, terminal, witness>>
     \/ /\ pc[s] \in {"passing", "retained"}
        /\ terminal' = [terminal EXCEPT ![s] = "torn"] /\ UNCHANGED <<entry, partial, witness>>
     \/ /\ At(s, "committing")
        /\ witness' = [witness EXCEPT ![s] = "torn"] /\ UNCHANGED <<entry, partial, terminal>>
  /\ Goto(s, "ended")
  /\ UNCHANGED <<prior, installed, result, altered, worker, next, command, overtaken>>

\* Once reserved, a supervisor goes on without anybody's help.
Supervise(s) ==
  \/ WriteIntent(s) \/ StartWorker(s) \/ Refuse(s) \/ Wait(s) \/ StopGroup(s) \/ GroupRemains(s)
  \/ Verify(s) \/ Reject(s) \/ Install(s) \/ InstallFails(s) \/ InstallUnlisted(s)
  \/ TakeBack(s) \/ Fail(s) \/ RetainPartial(s) \/ Complete(s) \/ Commit(s)

WorkerEnds(s) == WorkerReports(s) \/ WorkerDies(s)

Step(s) ==
  \/ Inspect(s) \/ Reserve(s) \/ Supervise(s) \/ WorkerEnds(s) \/ Alter(s)
  \/ Cancel(s) \/ Crash(s) \/ Tear(s)

Next == \E s \in Seqs : Step(s)

Spec == Init /\ [][Next]_vars

--------------------------------------------------------------------------------
(* Properties *)

\* Types, and an invocation that has begun has all those before it.
TypeOK ==
  /\ entry \in [Seqs -> {"none", "reserved", "torn", "intent"}]
  /\ prior \in [Seqs -> {"none", "terminal", "interrupted"}]
  /\ partial \in [Seqs -> {"none", "torn", "kept"}]
  /\ terminal \in [Seqs -> {"none", "torn", "pass", "fail"}]
  /\ witness \in [Seqs -> {"none", "torn", "kept"}]
  /\ installed \in [Outputs -> 0 .. MaxSeq]
  /\ result \in [Seqs -> {"none", "pass", "fail"}]
  /\ altered \subseteq Seqs /\ overtaken \subseteq Seqs /\ once \in BOOLEAN /\ witnessed \in BOOLEAN
  /\ worker \in [Seqs -> {"none", "running", "lingering", "gone"}]
  /\ pc \in [Seqs -> {"idle", "inspected", "reserved", "opened", "waiting", "stopping",
                      "cancelling", "verifying", "installing", "removing", "passing",
                      "failed", "retained", "committing", "ended"}]
  /\ next \in [Seqs -> 0 .. N]

\* A terminal that says PASS is true and stays true: all its outputs are there
\* with the bytes it names, although other supervisors install to the same places,
\* take back what they installed, and workers outlive their supervisors (exclusive
\* renames, line 15320; the group is stopped first, line 15660; only what was
\* installed is taken back, line 15338).
PassHolds == \A s \in Seqs : terminal[s] = "pass" => Stands(s)

\* "Unconfirmed cleanup retains an incomplete invocation and cannot install
\* canonical artifacts or write a terminal record"
\* (docs/releases/qualification-runbook.md): no process of a worker is left that
\* could change what was installed or recorded (lines 15660-15662, 15704-15705).
SettledFirst ==
  \A s \in Seqs :
    terminal[s] # "none" \/ (\E o \in Outputs : installed[o] = s) => worker[s] \in {"none", "gone"}

\* Whatever interrupted earlier invocations, a terminal can be read back: what is
\* noted at the beginning (line 11619) is what the readback asks for (line 10966).
\* It takes a predecessor that was noted as interrupted and still ran, one that was
\* cut off while it listed what its failure left (the list is read, line 15406,
\* though nobody asks for it at the beginning), or a PASS without its witness.
ReadsBack ==
  \A s \in Seqs :
    terminal[s] \in {"pass", "fail"} /\ ~Readable(s) =>
      \/ \E p \in 1 .. s - 1 : p \in overtaken \/ ~Inventory(p)
      \/ terminal[s] = "pass" /\ witnessed /\ witness[s] # "kept"

\* An accepted output stays accepted while the journal goes on, but for an
\* invocation that is reserved and has no intent yet (line 11834 reads them all),
\* and for one that was noted as interrupted and goes on all the same: it closes, or
\* is cut off while it lists what is left.
AcceptanceStays ==
  [][\A o \in Outputs :
       Accepted(o) /\ ~Accepted(o)' =>
         \/ \E s \in Seqs : entry[s] = "none" /\ entry'[s] = "reserved"
         \/ \E s \in overtaken :
              \/ terminal[s] = "none" /\ terminal'[s] # "none"
              \/ partial[s] = "none" /\ partial'[s] = "torn"]_vars

================================================================================
