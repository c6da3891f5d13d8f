------------------------- MODULE CandidateFinalization -------------------------
(***************************************************************************)
(* The finalization of a release candidate (metriplane/release_control.py, *)
(* finalize_release_candidate_identity.py): the staging directory of a run *)
(* gets an identity and is renamed to its final place, and a journal       *)
(* outside of it ends with a terminal record and a receipt for it.  The    *)
(* first invocation does that, once; every later one only observes.        *)
(* Meanwhile validators append journals of their own to the tree, under    *)
(* the path they were given.                                               *)
(*                                                                         *)
(* A step is one durable effect, with the checks before it.  The worker,   *)
(* which computes the identity on the side, is part of the step that       *)
(* starts it (its life is in ReleaseJournal), and a validator has a stage  *)
(* of its own.                                                             *)
(***************************************************************************)
EXTENDS Naturals

CONSTANTS
  MaxSeq,       \* bound: invocations of the finalizer
  Validators    \* validator journals

ASSUME FinalizationAssumption == MaxSeq \in Nat \ {0}

Seqs  == 1 .. MaxSeq
Later == 2 .. MaxSeq

VARIABLES
  \* the candidate tree
  home,       \* where it is: "staging", "final"
  stale,      \* something stands at the staging path after the tree has left
  identity,   \* candidate-identity.json in it: "none", "torn", "whole"
  journal,    \* what a validator left in it: "none", "open" (no terminal), "closed"
  path,       \* the path a validator was given
  captured,   \* the journals in the inventory of the first intent
  \* the control journal
  entry,      \* directory and intent: "none", "reserved", "torn", "intent"
  history,    \* what an intent witnesses of the invocations before it
  terminal,   \* invocation.json: "none", "torn", "pass", "blocked"
  flushed,    \* whose terminal is known to be on disk
  receipt,    \* terminal-commit.json of the first: "none", "torn", "whole"
  pc,         \* where the supervisor is
  overlapped  \* bookkeeping: an invocation witnessed one that had not ended

tree    == <<home, stale, identity, journal, path>>
control == <<captured, entry, history, terminal, flushed, receipt>>
vars    == <<tree, control, pc, overlapped>>

Init ==
  /\ home = "staging" /\ stale = FALSE /\ identity = "none"
  /\ journal \in [Validators -> {"none", "closed"}]
  /\ path = [v \in Validators |-> "staging"] /\ captured = journal
  /\ entry = [s \in Seqs |-> "none"] /\ history = [s \in Seqs |-> <<>>]
  /\ terminal = [s \in Seqs |-> "none"] /\ flushed = {} /\ receipt = "none"
  /\ pc = [s \in Seqs |-> "idle"] /\ overlapped = FALSE

At(s, place)   == pc[s] = place
Goto(s, place) == pc' = [pc EXCEPT ![s] = place]
Over(s)        == pc[s] \in {"ended", "announced"}

--------------------------------------------------------------------------------
(* What is read back *)

\* The bytes of the earlier invocations, or their absence: of one that is only
\* reserved, an intent is not there yet.
Witness(s) ==
  [p \in 1 .. s - 1 |->
     <<entry[p], terminal[p], IF p = 1 THEN receipt ELSE "none">>]

Observed(s) == history[s] = Witness(s)

Contradicted(s) == \E p \in 1 .. s - 1 : entry[p] = "intent" /\ ~Observed(p)

\* The staging tree is the one that was captured, and no journal in it is open.
SourceHolds ==
  /\ home = "staging" /\ journal = captured
  /\ \A v \in Validators : journal[v] # "open"

\* Defect: appended journals are allowed here already.
FinalHoldsAppended ==
  /\ home = "final" /\ ~stale /\ identity = "whole"
  /\ \A v \in Validators : captured[v] # "none" => journal[v] = captured[v]

\* The final tree is the captured one with the identity.
FinalHolds ==
  /\ home = "final" /\ ~stale /\ identity = "whole" /\ journal = captured

\* The same for a consumer, but validators may have appended journals.
FinalAppended ==
  /\ home = "final" /\ ~stale /\ identity = "whole"
  /\ \A v \in Validators : captured[v] # "none" => journal[v] = captured[v]
  /\ \A v \in Validators : journal[v] # "open"

\* Defect: whatever the later ones witnessed.
CompletedUnwitnessed ==
  /\ entry[1] = "intent" /\ terminal[1] = "pass" /\ receipt = "whole"
  /\ home = "final" /\ identity = "whole"
  /\ \A s \in Later : entry[s] # "none" => entry[s] = "intent" /\ terminal[s] = "blocked"

\* The control journal proves that the first invocation finalized the candidate.
\* Every later one must have closed, and its witness must be true.
Completed ==
  /\ entry[1] = "intent" /\ terminal[1] = "pass" /\ receipt = "whole"
  /\ home = "final" /\ identity = "whole"
  /\ \A s \in Later : entry[s] # "none" =>
       entry[s] = "intent" /\ terminal[s] = "blocked" /\ Observed(s) /\ ~Contradicted(s)

\* A consumer takes the candidate.
Qualified == Completed /\ FinalAppended

--------------------------------------------------------------------------------
(* Every invocation *)

Reserve(s) ==
  /\ At(s, "idle") /\ \A p \in 1 .. s - 1 : entry[p] # "none"
  /\ entry' = [entry EXCEPT ![s] = "reserved"]
  /\ Goto(s, "capturing")
  /\ UNCHANGED <<tree, captured, history, terminal, flushed, receipt, overlapped>>

Capture(s) ==
  /\ At(s, "capturing")
  /\ history' = [history EXCEPT ![s] = Witness(s)]
  /\ captured' = IF s = 1 THEN journal ELSE captured
  /\ overlapped' = (overlapped \/ \E p \in 1 .. s - 1 : ~Over(p))
  /\ Goto(s, "writing")
  /\ UNCHANGED <<tree, entry, terminal, flushed, receipt>>

WriteIntent(s) ==
  /\ At(s, "writing")
  /\ entry' = [entry EXCEPT ![s] = "intent"]
  /\ Goto(s, "opened")
  /\ UNCHANGED <<tree, captured, history, terminal, flushed, receipt, overlapped>>

\* A later invocation classifies what it sees and is blocked, always.
Diagnose(s) ==
  /\ s > 1 /\ At(s, "opened")
  /\ Goto(s, "failed")
  /\ UNCHANGED <<tree, control, overlapped>>

\* The terminal binds what the intent witnesses: it is not written when that has
\* changed, and then the invocation stays without one.
Close(s) ==
  /\ pc[s] \in {"confirmed", "failed"} /\ Observed(s)
  /\ terminal' = [terminal EXCEPT ![s] = IF At(s, "confirmed") THEN "pass" ELSE "blocked"]
  /\ UNCHANGED <<tree, captured, entry, history, receipt, overlapped>>

Complete(s) ==
  /\ Close(s)
  /\ flushed' = flushed \cup {s}
  /\ Goto(s, IF At(s, "confirmed") THEN "committing" ELSE "ended")

\* Defect: an error of the flush is swallowed.
CompleteUnnoticed(s) ==
  /\ Close(s)
  /\ Goto(s, IF At(s, "confirmed") THEN "committing" ELSE "ended")
  /\ UNCHANGED flushed

\* The bytes of the terminal are all there, and its flush fails.
CompleteUnflushed(s) ==
  /\ Close(s)
  /\ Goto(s, "ended")
  /\ UNCHANGED flushed

Contradict(s) ==
  /\ pc[s] \in {"confirmed", "failed"} /\ ~Observed(s)
  /\ Goto(s, "ended")
  /\ UNCHANGED <<tree, control, overlapped>>

\* The process dies, or an error leaves the supervisor; it may cut off a write.
Crash(s) ==
  /\ ~At(s, "idle") /\ ~Over(s)
  /\ Goto(s, "ended")
  /\ UNCHANGED <<tree, control, overlapped>>

Tear(s) ==
  /\ \/ At(s, "writing") /\ entry' = [entry EXCEPT ![s] = "torn"] /\ UNCHANGED <<terminal, receipt>>
     \/ /\ pc[s] \in {"confirmed", "failed"}
        /\ terminal' = [terminal EXCEPT ![s] = "torn"] /\ UNCHANGED <<entry, receipt>>
     \/ At(s, "committing") /\ receipt' = "torn" /\ UNCHANGED <<entry, terminal>>
  /\ Goto(s, "ended")
  /\ UNCHANGED <<tree, captured, history, flushed, overlapped>>

--------------------------------------------------------------------------------
(* The first invocation *)

\* The worker reads the source and stages the identity; the supervisor reads both
\* again.
StageIdentity ==
  /\ At(1, "opened") /\ SourceHolds /\ identity = "none"
  /\ Goto(1, "verified")
  /\ UNCHANGED <<tree, control, overlapped>>

PlaceIdentity ==
  /\ At(1, "verified") /\ SourceHolds
  /\ \/ identity' = "whole" /\ Goto(1, "placed")
     \/ identity' = "torn" /\ Goto(1, "failed")
  /\ UNCHANGED <<home, stale, journal, path, control, overlapped>>

CheckPlaced ==
  /\ At(1, "placed") /\ home = "staging" /\ journal = captured
  /\ Goto(1, "moving")
  /\ UNCHANGED <<tree, control, overlapped>>

\* One exclusive rename; whoever writes below the staging path meanwhile is taken
\* along.
Move ==
  /\ At(1, "moving")
  /\ home' = "final"
  /\ Goto(1, "moved")
  /\ UNCHANGED <<stale, identity, journal, path, control, overlapped>>

\* The final tree is read before and after everything is flushed.
ConfirmMoved ==
  /\ At(1, "moved") /\ FinalHolds
  /\ Goto(1, "flushing")
  /\ UNCHANGED <<tree, control, overlapped>>

ConfirmFlushed ==
  /\ At(1, "flushing") /\ FinalHolds
  /\ Goto(1, "confirmed")
  /\ UNCHANGED <<tree, control, overlapped>>

\* A check fails, the worker does, or anything else inside the try block.
Fail ==
  /\ pc[1] \in {"opened", "verified", "placed", "moving", "moved", "flushing", "confirmed"}
  /\ Goto(1, "failed")
  /\ UNCHANGED <<tree, control, overlapped>>

\* Written only after the flush of the terminal has returned.
Commit ==
  /\ At(1, "committing")
  /\ receipt' = "whole"
  /\ Goto(1, "completing")
  /\ UNCHANGED <<tree, captured, entry, history, terminal, flushed, overlapped>>

\* Success is announced if the control journal proves it.
Announce ==
  /\ At(1, "completing")
  /\ Goto(1, IF Completed THEN "announced" ELSE "ended")
  /\ UNCHANGED <<tree, control, overlapped>>

Finalize ==
  \/ StageIdentity \/ PlaceIdentity \/ CheckPlaced \/ Move \/ ConfirmMoved \/ ConfirmFlushed
  \/ Fail \/ Commit \/ Announce

--------------------------------------------------------------------------------
(* Validators *)

\* One is started with the path where the tree is, or with the one where it was:
\* then it makes that directory again.
Open(v) ==
  /\ journal[v] = "none"
  /\ \/ /\ journal' = [journal EXCEPT ![v] = "open"]
        /\ path' = [path EXCEPT ![v] = home] /\ UNCHANGED stale
     \/ home = "final" /\ stale' = TRUE /\ UNCHANGED <<journal, path>>
  /\ UNCHANGED <<home, identity, control, pc, overlapped>>

\* Its terminal needs the path it was given.
CloseJournal(v) ==
  /\ journal[v] = "open" /\ path[v] = home
  /\ journal' = [journal EXCEPT ![v] = "closed"]
  /\ UNCHANGED <<home, stale, identity, path, control, pc, overlapped>>

--------------------------------------------------------------------------------

Supervise(s) ==
  \/ Capture(s) \/ WriteIntent(s) \/ Diagnose(s)
  \/ Complete(s) \/ CompleteUnflushed(s) \/ Contradict(s)
  \/ s = 1 /\ Finalize

Next ==
  \/ \E s \in Seqs : Reserve(s) \/ Supervise(s) \/ Crash(s) \/ Tear(s)
  \/ \E v \in Validators : Open(v) \/ CloseJournal(v)

Spec == Init /\ [][Next]_vars

--------------------------------------------------------------------------------
(* Properties *)

\* What can be seen of an earlier invocation.
Witnesses == {"reserved", "torn", "intent"} \X {"none", "torn", "pass", "blocked"}
             \X {"none", "torn", "whole"}

\* Types; a witness covers the invocations before it.
TypeOK ==
  /\ home \in {"staging", "final"} /\ stale \in BOOLEAN
  /\ identity \in {"none", "torn", "whole"}
  /\ journal \in [Validators -> {"none", "open", "closed"}]
  /\ captured \in [Validators -> {"none", "open", "closed"}]
  /\ path \in [Validators -> {"staging", "final"}]
  /\ entry \in [Seqs -> {"none", "reserved", "torn", "intent"}]
  /\ history \in [Seqs -> UNION {[1 .. n -> Witnesses] : n \in 0 .. MaxSeq}]
  /\ terminal \in [Seqs -> {"none", "torn", "pass", "blocked"}]
  /\ flushed \subseteq Seqs /\ receipt \in {"none", "torn", "whole"}
  /\ pc \in [Seqs -> {"idle", "capturing", "writing", "opened", "verified", "placed", "moving",
                      "moved", "flushing", "confirmed", "failed", "committing", "completing",
                      "announced", "ended"}]
  /\ overlapped \in BOOLEAN

\* The receipt proves the terminal: "Its existence proves the terminal's required
\* fsync returned before creation" (line 15562), and the terminal is that of a
\* candidate which was moved as a whole, whatever failed and whoever else ran.
ReceiptProves ==
  receipt # "none" =>
    terminal[1] = "pass" /\ 1 \in flushed /\ home = "final" /\ identity = "whole"

\* A consumer takes the candidate whose success was announced (the supervisor does
\* not read the tree again then, lines 15564-15572) although validators append to
\* it and later invocations observe it, as soon as they are done: unless a
\* validator made the staging directory again, or an invocation ended without a
\* terminal or looked at one that had not ended (lines 10612-10618).
Settled ==
  /\ ~stale /\ \A v \in Validators : journal[v] = "open" => path[v] # home
  /\ \A s \in Later : entry[s] = "none" \/ terminal[s] = "blocked"

AnnouncedQualifies == At(1, "announced") /\ ~overlapped /\ Settled => Qualified

\* "A new observation can record that an earlier witness was contradicted, while the
\* older record remains invalid and public candidate consumption remains blocked"
\* (docs/releases/qualification-runbook.md): a witness that is no longer true blocks
\* the candidate for good.
ContradictionBlocks ==
  [][(\E s \in Seqs : entry[s] = "intent" /\ ~Observed(s)) => ~Qualified']_vars

================================================================================
