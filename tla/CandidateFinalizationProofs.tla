--------------------- MODULE CandidateFinalizationProofs ---------------------
(***************************************************************************)
(* What holds of CandidateFinalization for every number of invocations and *)
(* validators: the receipt proves that the candidate was finalized, a      *)
(* witness that is no longer true blocks it for good, and what was         *)
(* announced can be consumed.                                              *)
(***************************************************************************)
EXTENDS CandidateFinalization, TLAPS

Unclosed == {"idle", "capturing", "writing", "opened", "verified", "placed", "moving", "moved",
             "flushing", "confirmed", "failed"}

\* The intent of an invocation is written once, before it does anything else.
Intent(s) ==
  /\ pc[s] = "idle" => entry[s] = "none"
  /\ pc[s] \in {"capturing", "writing"} => entry[s] = "reserved"
  /\ entry[s] = "intent" => pc[s] \notin {"idle", "capturing", "writing"}

\* Every invocation before it has begun.
Ordered(s) == pc[s] # "idle" => \A p \in 1 .. s - 1 : entry[p] # "none"

\* Its terminal is written once, at the end.
Terminal(s) == pc[s] \in Unclosed => terminal[s] = "none"

\* What a witness says of an invocation before it is still so, or was nothing yet.
Past(s, p) ==
  /\ entry[p] # "none"
  /\ history[s][p][1] \in {"reserved", entry[p]}
  /\ history[s][p][2] \in {"none", terminal[p]}
  /\ history[s][p][3] \in {"none", IF p = 1 THEN receipt ELSE "none"}

Witnessed(s) ==
  pc[s] = "writing" \/ entry[s] = "intent" =>
    history[s] \in [1 .. s - 1 -> Witnesses] /\ \A p \in 1 .. s - 1 : Past(s, p)

\* Only the first invocation does more than observe, and how far it has brought the
\* tree.
First ==
  /\ \A s \in Later : pc[s] \in {"idle", "capturing", "writing", "opened", "failed", "ended"}
  /\ pc[1] \in {"placed", "moving", "moved", "flushing", "confirmed", "committing",
                "completing", "announced"} => identity = "whole"
  /\ pc[1] \in {"moved", "flushing", "confirmed", "committing", "completing", "announced"}
       => home = "final"
  /\ pc[1] \in {"committing", "completing", "announced"} => terminal[1] = "pass" /\ 1 \in flushed
  /\ receipt # "none" => pc[1] \notin Unclosed \cup {"committing"}

IInv == /\ TypeOK /\ First /\ ReceiptProves
        /\ \A s \in Seqs : Intent(s) /\ Terminal(s) /\ Ordered(s) /\ Witnessed(s)

\* The parts that do not look at witnesses.
Base == /\ TypeOK /\ First /\ ReceiptProves
        /\ \A s \in Seqs : Intent(s) /\ Terminal(s) /\ Ordered(s)

\* What the steps need of the types.
Tabled ==
  /\ entry \in [Seqs -> {"none", "reserved", "torn", "intent"}]
  /\ terminal \in [Seqs -> {"none", "torn", "pass", "blocked"}]
  /\ pc \in [Seqs -> {"idle", "capturing", "writing", "opened", "verified", "placed", "moving",
                      "moved", "flushing", "confirmed", "failed", "committing", "completing",
                      "announced", "ended"}]

USE DEF Seqs, Later

--------------------------------------------------------------------------------

LEMMA Starts == Init => IInv
<1>1. Init => TypeOK
  <2>1. \A s \in Seqs : <<>> \in UNION {[1 .. n -> Witnesses] : n \in 0 .. MaxSeq}
    <3>1. <<>> \in [1 .. 0 -> Witnesses] /\ 0 \in 0 .. MaxSeq
      BY FinalizationAssumption
    <3>. QED
      BY <3>1
  <2>2. Init => history \in [Seqs -> UNION {[1 .. n -> Witnesses] : n \in 0 .. MaxSeq}]
    BY <2>1, Zenon DEF Init
  <2>3. Init => /\ journal \in [Validators -> {"none", "open", "closed"}]
               /\ captured \in [Validators -> {"none", "open", "closed"}]
               /\ path \in [Validators -> {"staging", "final"}]
    BY DEF Init
  <2>4. Init => stale \in BOOLEAN /\ overlapped \in BOOLEAN
    BY DEF Init
  <2>5. Init => /\ home \in {"staging", "final"} /\ identity \in {"none", "torn", "whole"}
               /\ entry \in [Seqs -> {"none", "reserved", "torn", "intent"}]
               /\ terminal \in [Seqs -> {"none", "torn", "pass", "blocked"}]
               /\ flushed \subseteq Seqs /\ receipt \in {"none", "torn", "whole"}
               /\ pc \in [Seqs -> {"idle", "capturing", "writing", "opened", "verified", "placed",
                                   "moving", "moved", "flushing", "confirmed", "failed",
                                   "committing", "completing", "announced", "ended"}]
    BY DEF Init
  <2>. QED
    BY <2>2, <2>3, <2>4, <2>5, Zenon DEF TypeOK
<1>. QED
  BY <1>1, FinalizationAssumption
  DEF Init, IInv, First, ReceiptProves, Intent, Terminal, Ordered, Witnessed

LEMMA Tables == Base => Tabled
BY DEF Base, TypeOK, Tabled

LEMMA WitnessType ==
  ASSUME Base, NEW s \in Seqs, pc[s] # "idle"
  PROVE  Witness(s) \in [1 .. s - 1 -> Witnesses]
<1>1. ASSUME NEW p \in 1 .. s - 1
      PROVE  <<entry[p], terminal[p], IF p = 1 THEN receipt ELSE "none">> \in Witnesses
  <2>1. p \in Seqs /\ entry[p] # "none"
    BY FinalizationAssumption DEF Base, Ordered
  <2>. QED
    BY <2>1 DEF Base, TypeOK, Witnesses
<1>. QED
  BY <1>1 DEF Witness

LEMMA ReserveBase ==
  ASSUME Base, NEW s \in Seqs, Reserve(s) PROVE Base'
<1>0. Tabled
  BY Tables
<1>1. TypeOK'
  BY FinalizationAssumption
  DEF Base, TypeOK, Reserve, Goto, At, tree, control
<1>2. First' /\ ReceiptProves'
  BY <1>0, FinalizationAssumption
  DEF Base, Tabled, First, ReceiptProves, Terminal, Unclosed, Reserve, Goto, At, tree,
      control
<1>3. ASSUME NEW t \in Seqs PROVE Intent(t)' /\ Terminal(t)'
  BY <1>0, FinalizationAssumption
  DEF Base, Tabled, Intent, Terminal, Unclosed, Reserve, Goto, At, tree, control
<1>4. ASSUME NEW t \in Seqs PROVE Ordered(t)'
  BY <1>0, FinalizationAssumption
  DEF Base, Tabled, Ordered, Reserve, Goto, At, tree, control
<1>. QED
  BY <1>1, <1>2, <1>3, <1>4 DEF Base

LEMMA CaptureBase ==
  ASSUME Base, NEW s \in Seqs, Capture(s) PROVE Base'
<1>0. Tabled
  BY Tables
<1>1. TypeOK'
  <2>1. s - 1 \in 0 .. MaxSeq /\ pc[s] # "idle"
    BY FinalizationAssumption DEF Capture, At
  <2>2. Witness(s) \in UNION {[1 .. n -> Witnesses] : n \in 0 .. MaxSeq}
    BY <2>1, WitnessType
  <2>. QED
    BY <2>2 DEF Base, TypeOK, Capture, Goto, At, tree
<1>2. First' /\ ReceiptProves'
  BY <1>0, FinalizationAssumption
  DEF Base, Tabled, First, ReceiptProves, Terminal, Unclosed, Capture, Goto, At, tree,
      control
<1>3. ASSUME NEW t \in Seqs PROVE Intent(t)' /\ Terminal(t)'
  BY <1>0, FinalizationAssumption
  DEF Base, Tabled, Intent, Terminal, Unclosed, Capture, Goto, At, tree, control
<1>4. ASSUME NEW t \in Seqs PROVE Ordered(t)'
  BY <1>0, FinalizationAssumption
  DEF Base, Tabled, Ordered, Capture, Goto, At, tree, control
<1>. QED
  BY <1>1, <1>2, <1>3, <1>4 DEF Base

LEMMA WriteIntentBase ==
  ASSUME Base, NEW s \in Seqs, WriteIntent(s) PROVE Base'
<1>0. Tabled
  BY Tables
<1>1. TypeOK'
  BY FinalizationAssumption
  DEF Base, TypeOK, WriteIntent, Goto, At, tree, control
<1>2. First' /\ ReceiptProves'
  BY <1>0, FinalizationAssumption
  DEF Base, Tabled, First, ReceiptProves, Terminal, Unclosed, WriteIntent, Goto, At, tree,
      control
<1>3. ASSUME NEW t \in Seqs PROVE Intent(t)' /\ Terminal(t)'
  BY <1>0, FinalizationAssumption
  DEF Base, Tabled, Intent, Terminal, Unclosed, WriteIntent, Goto, At, tree, control
<1>4. ASSUME NEW t \in Seqs PROVE Ordered(t)'
  BY <1>0, FinalizationAssumption
  DEF Base, Tabled, Ordered, WriteIntent, Goto, At, tree, control
<1>. QED
  BY <1>1, <1>2, <1>3, <1>4 DEF Base

LEMMA DiagnoseBase ==
  ASSUME Base, NEW s \in Seqs, Diagnose(s) PROVE Base'
<1>0. Tabled
  BY Tables
<1>1. TypeOK'
  BY FinalizationAssumption
  DEF Base, TypeOK, Diagnose, Goto, At, tree, control
<1>2. First' /\ ReceiptProves'
  BY <1>0, FinalizationAssumption
  DEF Base, Tabled, First, ReceiptProves, Terminal, Unclosed, Diagnose, Goto, At, tree,
      control
<1>3. ASSUME NEW t \in Seqs PROVE Intent(t)' /\ Terminal(t)'
  BY <1>0, FinalizationAssumption
  DEF Base, Tabled, Intent, Terminal, Unclosed, Diagnose, Goto, At, tree, control
<1>4. ASSUME NEW t \in Seqs PROVE Ordered(t)'
  BY <1>0, FinalizationAssumption
  DEF Base, Tabled, Ordered, Diagnose, Goto, At, tree, control
<1>. QED
  BY <1>1, <1>2, <1>3, <1>4 DEF Base

LEMMA CompleteBase ==
  ASSUME Base, NEW s \in Seqs, Complete(s) PROVE Base'
<1>0. Tabled
  BY Tables
<1>1. TypeOK'
  BY FinalizationAssumption
  DEF Base, TypeOK, Complete, Close, Goto, At, tree, control
<1>2. First' /\ ReceiptProves'
  <2>1. CASE s = 1
    BY <2>1, <1>0, FinalizationAssumption
    DEF Base, Tabled, First, ReceiptProves, Terminal, Unclosed, Complete, Close, Goto, At,
      tree, control
  <2>2. CASE s # 1
    <3>1. /\ pc'[1] = pc[1] /\ terminal'[1] = terminal[1] /\ UNCHANGED <<home, identity, receipt>>
          /\ flushed \subseteq flushed'
      BY <2>2, FinalizationAssumption
      DEF Base, TypeOK, Complete, Close, Goto, At, tree
    <3>2. \A t \in Later : pc'[t] \in {pc[t], "ended"}
      <4>1. s \in Later /\ pc[s] = "failed"
        BY <2>2, FinalizationAssumption DEF Base, First, Complete, Close
      <4>. QED
        BY <4>1, FinalizationAssumption DEF Base, TypeOK, Complete, Goto, At
    <3>. QED
      BY <3>1, <3>2, FinalizationAssumption DEF Base, TypeOK, First, ReceiptProves, Unclosed
  <2>. QED
    BY <2>1, <2>2
<1>3. ASSUME NEW t \in Seqs PROVE Intent(t)' /\ Terminal(t)'
  BY <1>0, FinalizationAssumption
  DEF Base, Tabled, Intent, Terminal, Unclosed, Complete, Close, Goto, At, tree, control
<1>4. ASSUME NEW t \in Seqs PROVE Ordered(t)'
  BY <1>0, FinalizationAssumption
  DEF Base, Tabled, Ordered, Complete, Close, Goto, At, tree, control
<1>. QED
  BY <1>1, <1>2, <1>3, <1>4 DEF Base

LEMMA CompleteUnflushedBase ==
  ASSUME Base, NEW s \in Seqs, CompleteUnflushed(s) PROVE Base'
<1>0. Tabled
  BY Tables
<1>1. TypeOK'
  BY FinalizationAssumption
  DEF Base, TypeOK, CompleteUnflushed, Close, Goto, At, tree, control
<1>2. First' /\ ReceiptProves'
  BY <1>0, FinalizationAssumption
  DEF Base, Tabled, First, ReceiptProves, Terminal, Unclosed, CompleteUnflushed, Close, Goto,
      At, tree, control
<1>3. ASSUME NEW t \in Seqs PROVE Intent(t)' /\ Terminal(t)'
  BY <1>0, FinalizationAssumption
  DEF Base, Tabled, Intent, Terminal, Unclosed, CompleteUnflushed, Close, Goto, At, tree,
      control
<1>4. ASSUME NEW t \in Seqs PROVE Ordered(t)'
  BY <1>0, FinalizationAssumption
  DEF Base, Tabled, Ordered, CompleteUnflushed, Close, Goto, At, tree, control
<1>. QED
  BY <1>1, <1>2, <1>3, <1>4 DEF Base

LEMMA ContradictBase ==
  ASSUME Base, NEW s \in Seqs, Contradict(s) PROVE Base'
<1>0. Tabled
  BY Tables
<1>1. TypeOK'
  BY FinalizationAssumption
  DEF Base, TypeOK, Contradict, Goto, At, tree, control
<1>2. First' /\ ReceiptProves'
  BY <1>0, FinalizationAssumption
  DEF Base, Tabled, First, ReceiptProves, Terminal, Unclosed, Contradict, Goto, At, tree,
      control
<1>3. ASSUME NEW t \in Seqs PROVE Intent(t)' /\ Terminal(t)'
  BY <1>0, FinalizationAssumption
  DEF Base, Tabled, Intent, Terminal, Unclosed, Contradict, Goto, At, tree, control
<1>4. ASSUME NEW t \in Seqs PROVE Ordered(t)'
  BY <1>0, FinalizationAssumption
  DEF Base, Tabled, Ordered, Contradict, Goto, At, tree, control
<1>. QED
  BY <1>1, <1>2, <1>3, <1>4 DEF Base

LEMMA CrashBase ==
  ASSUME Base, NEW s \in Seqs, Crash(s) PROVE Base'
<1>0. Tabled
  BY Tables
<1>1. TypeOK'
  BY FinalizationAssumption
  DEF Base, TypeOK, Crash, Over, Goto, At, tree, control
<1>2. First' /\ ReceiptProves'
  BY <1>0, FinalizationAssumption
  DEF Base, Tabled, First, ReceiptProves, Terminal, Unclosed, Crash, Over, Goto, At, tree,
      control
<1>3. ASSUME NEW t \in Seqs PROVE Intent(t)' /\ Terminal(t)'
  BY <1>0, FinalizationAssumption
  DEF Base, Tabled, Intent, Terminal, Unclosed, Crash, Over, Goto, At, tree, control
<1>4. ASSUME NEW t \in Seqs PROVE Ordered(t)'
  BY <1>0, FinalizationAssumption
  DEF Base, Tabled, Ordered, Crash, Over, Goto, At, tree, control
<1>. QED
  BY <1>1, <1>2, <1>3, <1>4 DEF Base

LEMMA TearBase ==
  ASSUME Base, NEW s \in Seqs, Tear(s) PROVE Base'
<1>0. Tabled
  BY Tables
<1>1. TypeOK'
  BY FinalizationAssumption
  DEF Base, TypeOK, Tear, Over, Goto, At, tree, control
<1>2. First' /\ ReceiptProves'
  BY <1>0, FinalizationAssumption
  DEF Base, Tabled, First, ReceiptProves, Terminal, Unclosed, Tear, Over, Goto, At, tree,
      control
<1>3. ASSUME NEW t \in Seqs PROVE Intent(t)' /\ Terminal(t)'
  BY <1>0, FinalizationAssumption
  DEF Base, Tabled, Intent, Terminal, Unclosed, Tear, Over, Goto, At, tree, control
<1>4. ASSUME NEW t \in Seqs PROVE Ordered(t)'
  BY <1>0, FinalizationAssumption
  DEF Base, Tabled, Ordered, Tear, Over, Goto, At, tree, control
<1>. QED
  BY <1>1, <1>2, <1>3, <1>4 DEF Base

LEMMA StageIdentityBase ==
  ASSUME Base, StageIdentity PROVE Base'
<1>0. Tabled
  BY Tables
<1>1. TypeOK'
  BY FinalizationAssumption
  DEF Base, TypeOK, StageIdentity, SourceHolds, Goto, At, tree, control
<1>2. First' /\ ReceiptProves'
  BY <1>0, FinalizationAssumption
  DEF Base, Tabled, First, ReceiptProves, Terminal, Unclosed, StageIdentity, SourceHolds,
      Goto, At, tree, control
<1>3. ASSUME NEW t \in Seqs PROVE Intent(t)' /\ Terminal(t)'
  BY <1>0, FinalizationAssumption
  DEF Base, Tabled, Intent, Terminal, Unclosed, StageIdentity, SourceHolds, Goto, At, tree,
      control
<1>4. ASSUME NEW t \in Seqs PROVE Ordered(t)'
  BY <1>0, FinalizationAssumption
  DEF Base, Tabled, Ordered, StageIdentity, SourceHolds, Goto, At, tree, control
<1>. QED
  BY <1>1, <1>2, <1>3, <1>4 DEF Base

LEMMA PlaceIdentityBase ==
  ASSUME Base, PlaceIdentity PROVE Base'
<1>0. Tabled
  BY Tables
<1>1. TypeOK'
  BY FinalizationAssumption
  DEF Base, TypeOK, PlaceIdentity, SourceHolds, Goto, At, tree, control
<1>2. First' /\ ReceiptProves'
  BY <1>0, FinalizationAssumption
  DEF Base, Tabled, First, ReceiptProves, Terminal, Unclosed, PlaceIdentity, SourceHolds,
      Goto, At, tree, control
<1>3. ASSUME NEW t \in Seqs PROVE Intent(t)' /\ Terminal(t)'
  BY <1>0, FinalizationAssumption
  DEF Base, Tabled, Intent, Terminal, Unclosed, PlaceIdentity, SourceHolds, Goto, At, tree,
      control
<1>4. ASSUME NEW t \in Seqs PROVE Ordered(t)'
  BY <1>0, FinalizationAssumption
  DEF Base, Tabled, Ordered, PlaceIdentity, SourceHolds, Goto, At, tree, control
<1>. QED
  BY <1>1, <1>2, <1>3, <1>4 DEF Base

LEMMA CheckPlacedBase ==
  ASSUME Base, CheckPlaced PROVE Base'
<1>0. Tabled
  BY Tables
<1>1. TypeOK'
  BY FinalizationAssumption
  DEF Base, TypeOK, CheckPlaced, Goto, At, tree, control
<1>2. First' /\ ReceiptProves'
  BY <1>0, FinalizationAssumption
  DEF Base, Tabled, First, ReceiptProves, Terminal, Unclosed, CheckPlaced, Goto, At, tree,
      control
<1>3. ASSUME NEW t \in Seqs PROVE Intent(t)' /\ Terminal(t)'
  BY <1>0, FinalizationAssumption
  DEF Base, Tabled, Intent, Terminal, Unclosed, CheckPlaced, Goto, At, tree, control
<1>4. ASSUME NEW t \in Seqs PROVE Ordered(t)'
  BY <1>0, FinalizationAssumption
  DEF Base, Tabled, Ordered, CheckPlaced, Goto, At, tree, control
<1>. QED
  BY <1>1, <1>2, <1>3, <1>4 DEF Base

LEMMA MoveBase ==
  ASSUME Base, Move PROVE Base'
<1>0. Tabled
  BY Tables
<1>1. TypeOK'
  BY FinalizationAssumption
  DEF Base, TypeOK, Move, Goto, At, tree, control
<1>2. First' /\ ReceiptProves'
  BY <1>0, FinalizationAssumption
  DEF Base, Tabled, First, ReceiptProves, Terminal, Unclosed, Move, Goto, At, tree, control
<1>3. ASSUME NEW t \in Seqs PROVE Intent(t)' /\ Terminal(t)'
  BY <1>0, FinalizationAssumption
  DEF Base, Tabled, Intent, Terminal, Unclosed, Move, Goto, At, tree, control
<1>4. ASSUME NEW t \in Seqs PROVE Ordered(t)'
  BY <1>0, FinalizationAssumption
  DEF Base, Tabled, Ordered, Move, Goto, At, tree, control
<1>. QED
  BY <1>1, <1>2, <1>3, <1>4 DEF Base

LEMMA ConfirmMovedBase ==
  ASSUME Base, ConfirmMoved PROVE Base'
<1>0. Tabled
  BY Tables
<1>1. TypeOK'
  BY FinalizationAssumption
  DEF Base, TypeOK, ConfirmMoved, FinalHolds, Goto, At, tree, control
<1>2. First' /\ ReceiptProves'
  BY <1>0, FinalizationAssumption
  DEF Base, Tabled, First, ReceiptProves, Terminal, Unclosed, ConfirmMoved, FinalHolds, Goto,
      At, tree, control
<1>3. ASSUME NEW t \in Seqs PROVE Intent(t)' /\ Terminal(t)'
  BY <1>0, FinalizationAssumption
  DEF Base, Tabled, Intent, Terminal, Unclosed, ConfirmMoved, FinalHolds, Goto, At, tree,
      control
<1>4. ASSUME NEW t \in Seqs PROVE Ordered(t)'
  BY <1>0, FinalizationAssumption
  DEF Base, Tabled, Ordered, ConfirmMoved, FinalHolds, Goto, At, tree, control
<1>. QED
  BY <1>1, <1>2, <1>3, <1>4 DEF Base

LEMMA ConfirmFlushedBase ==
  ASSUME Base, ConfirmFlushed PROVE Base'
<1>0. Tabled
  BY Tables
<1>1. TypeOK'
  BY FinalizationAssumption
  DEF Base, TypeOK, ConfirmFlushed, FinalHolds, Goto, At, tree, control
<1>2. First' /\ ReceiptProves'
  BY <1>0, FinalizationAssumption
  DEF Base, Tabled, First, ReceiptProves, Terminal, Unclosed, ConfirmFlushed, FinalHolds,
      Goto, At, tree, control
<1>3. ASSUME NEW t \in Seqs PROVE Intent(t)' /\ Terminal(t)'
  BY <1>0, FinalizationAssumption
  DEF Base, Tabled, Intent, Terminal, Unclosed, ConfirmFlushed, FinalHolds, Goto, At, tree,
      control
<1>4. ASSUME NEW t \in Seqs PROVE Ordered(t)'
  BY <1>0, FinalizationAssumption
  DEF Base, Tabled, Ordered, ConfirmFlushed, FinalHolds, Goto, At, tree, control
<1>. QED
  BY <1>1, <1>2, <1>3, <1>4 DEF Base

LEMMA FailBase ==
  ASSUME Base, Fail PROVE Base'
<1>0. Tabled
  BY Tables
<1>1. TypeOK'
  BY FinalizationAssumption
  DEF Base, TypeOK, Fail, Goto, At, tree, control
<1>2. First' /\ ReceiptProves'
  BY <1>0, FinalizationAssumption
  DEF Base, Tabled, First, ReceiptProves, Terminal, Unclosed, Fail, Goto, At, tree, control
<1>3. ASSUME NEW t \in Seqs PROVE Intent(t)' /\ Terminal(t)'
  BY <1>0, FinalizationAssumption
  DEF Base, Tabled, Intent, Terminal, Unclosed, Fail, Goto, At, tree, control
<1>4. ASSUME NEW t \in Seqs PROVE Ordered(t)'
  BY <1>0, FinalizationAssumption
  DEF Base, Tabled, Ordered, Fail, Goto, At, tree, control
<1>. QED
  BY <1>1, <1>2, <1>3, <1>4 DEF Base

LEMMA CommitBase ==
  ASSUME Base, Commit PROVE Base'
<1>0. Tabled
  BY Tables
<1>1. TypeOK'
  BY FinalizationAssumption
  DEF Base, TypeOK, Commit, Goto, At, tree, control
<1>2. First' /\ ReceiptProves'
  BY <1>0, FinalizationAssumption
  DEF Base, Tabled, First, ReceiptProves, Terminal, Unclosed, Commit, Goto, At, tree,
      control
<1>3. ASSUME NEW t \in Seqs PROVE Intent(t)' /\ Terminal(t)'
  BY <1>0, FinalizationAssumption
  DEF Base, Tabled, Intent, Terminal, Unclosed, Commit, Goto, At, tree, control
<1>4. ASSUME NEW t \in Seqs PROVE Ordered(t)'
  BY <1>0, FinalizationAssumption
  DEF Base, Tabled, Ordered, Commit, Goto, At, tree, control
<1>. QED
  BY <1>1, <1>2, <1>3, <1>4 DEF Base

LEMMA AnnounceBase ==
  ASSUME Base, Announce PROVE Base'
<1>0. Tabled
  BY Tables
<1>1. TypeOK'
  BY FinalizationAssumption
  DEF Base, TypeOK, Announce, Goto, At, tree, control
<1>2. First' /\ ReceiptProves'
  BY <1>0, FinalizationAssumption
  DEF Base, Tabled, First, ReceiptProves, Terminal, Unclosed, Announce, Goto, At, tree,
      control
<1>3. ASSUME NEW t \in Seqs PROVE Intent(t)' /\ Terminal(t)'
  BY <1>0, FinalizationAssumption
  DEF Base, Tabled, Intent, Terminal, Unclosed, Announce, Goto, At, tree, control
<1>4. ASSUME NEW t \in Seqs PROVE Ordered(t)'
  BY <1>0, FinalizationAssumption
  DEF Base, Tabled, Ordered, Announce, Goto, At, tree, control
<1>. QED
  BY <1>1, <1>2, <1>3, <1>4 DEF Base

LEMMA OpenBase ==
  ASSUME Base, NEW v \in Validators, Open(v) PROVE Base'
<1>0. Tabled
  BY Tables
<1>1. TypeOK'
  BY FinalizationAssumption
  DEF Base, TypeOK, Open, Goto, At, tree, control
<1>2. First' /\ ReceiptProves'
  BY <1>0, FinalizationAssumption
  DEF Base, Tabled, First, ReceiptProves, Terminal, Unclosed, Open, Goto, At, tree, control
<1>3. ASSUME NEW t \in Seqs PROVE Intent(t)' /\ Terminal(t)'
  BY <1>0, FinalizationAssumption
  DEF Base, Tabled, Intent, Terminal, Unclosed, Open, Goto, At, tree, control
<1>4. ASSUME NEW t \in Seqs PROVE Ordered(t)'
  BY <1>0, FinalizationAssumption
  DEF Base, Tabled, Ordered, Open, Goto, At, tree, control
<1>. QED
  BY <1>1, <1>2, <1>3, <1>4 DEF Base

LEMMA CloseJournalBase ==
  ASSUME Base, NEW v \in Validators, CloseJournal(v) PROVE Base'
<1>0. Tabled
  BY Tables
<1>1. TypeOK'
  BY FinalizationAssumption
  DEF Base, TypeOK, CloseJournal, Goto, At, tree, control
<1>2. First' /\ ReceiptProves'
  BY <1>0, FinalizationAssumption
  DEF Base, Tabled, First, ReceiptProves, Terminal, Unclosed, CloseJournal, Goto, At, tree,
      control
<1>3. ASSUME NEW t \in Seqs PROVE Intent(t)' /\ Terminal(t)'
  BY <1>0, FinalizationAssumption
  DEF Base, Tabled, Intent, Terminal, Unclosed, CloseJournal, Goto, At, tree, control
<1>4. ASSUME NEW t \in Seqs PROVE Ordered(t)'
  BY <1>0, FinalizationAssumption
  DEF Base, Tabled, Ordered, CloseJournal, Goto, At, tree, control
<1>. QED
  BY <1>1, <1>2, <1>3, <1>4 DEF Base

--------------------------------------------------------------------------------

\* What a step may do to what a witness has seen, and to witnesses.
Lasting(p) ==
  /\ entry[p] # "none" => entry'[p] # "none"
  /\ entry[p] \in {"torn", "intent"} => entry'[p] = entry[p]
  /\ terminal[p] # "none" => terminal'[p] = terminal[p]
  /\ receipt # "none" => receipt' = receipt

Keeping(s) ==
  /\ pc[s] = "writing" \/ entry[s] = "intent" => history'[s] = history[s]
  /\ pc'[s] = "writing" \/ entry'[s] = "intent" =>
       pc[s] = "writing" \/ entry[s] = "intent" \/ Capture(s)

LEMMA Frozen ==
  ASSUME Base, Next, NEW t \in Seqs PROVE Lasting(t) /\ Keeping(t)
<1>1. ASSUME NEW s \in Seqs, Reserve(s) PROVE Lasting(t) /\ Keeping(t)
  BY <1>1, FinalizationAssumption
  DEF Base, TypeOK, First, ReceiptProves, Intent, Terminal, Unclosed, Lasting, Keeping,
      Reserve, Goto, At, tree, control
<1>2. ASSUME NEW s \in Seqs, Capture(s) PROVE Lasting(t) /\ Keeping(t)
  <2>1. /\ UNCHANGED <<entry, terminal, receipt>> /\ pc[s] = "capturing" /\ entry[s] = "reserved"
        /\ t # s => pc'[t] = pc[t] /\ history'[t] = history[t]
    BY <1>2 DEF Base, TypeOK, Intent, Capture, Goto, At
  <2>. QED
    BY <1>2, <2>1 DEF Lasting, Keeping
<1>3. ASSUME NEW s \in Seqs, WriteIntent(s) PROVE Lasting(t) /\ Keeping(t)
  BY <1>3, FinalizationAssumption
  DEF Base, TypeOK, First, ReceiptProves, Intent, Terminal, Unclosed, Lasting, Keeping,
      WriteIntent, Goto, At, tree, control
<1>4. ASSUME NEW s \in Seqs, Diagnose(s) PROVE Lasting(t) /\ Keeping(t)
  BY <1>4, FinalizationAssumption
  DEF Base, TypeOK, First, ReceiptProves, Intent, Terminal, Unclosed, Lasting, Keeping,
      Diagnose, Goto, At, tree, control
<1>5. ASSUME NEW s \in Seqs, Complete(s) PROVE Lasting(t) /\ Keeping(t)
  BY <1>5, FinalizationAssumption
  DEF Base, TypeOK, First, ReceiptProves, Intent, Terminal, Unclosed, Lasting, Keeping,
      Complete, Close, Goto, At, tree, control
<1>6. ASSUME NEW s \in Seqs, CompleteUnflushed(s) PROVE Lasting(t) /\ Keeping(t)
  BY <1>6, FinalizationAssumption
  DEF Base, TypeOK, First, ReceiptProves, Intent, Terminal, Unclosed, Lasting, Keeping,
      CompleteUnflushed, Close, Goto, At, tree, control
<1>7. ASSUME NEW s \in Seqs, Contradict(s) PROVE Lasting(t) /\ Keeping(t)
  BY <1>7, FinalizationAssumption
  DEF Base, TypeOK, First, ReceiptProves, Intent, Terminal, Unclosed, Lasting, Keeping,
      Contradict, Goto, At, tree, control
<1>8. ASSUME NEW s \in Seqs, Crash(s) PROVE Lasting(t) /\ Keeping(t)
  BY <1>8, FinalizationAssumption
  DEF Base, TypeOK, First, ReceiptProves, Intent, Terminal, Unclosed, Lasting, Keeping,
      Crash, Over, Goto, At, tree, control
<1>9. ASSUME NEW s \in Seqs, Tear(s) PROVE Lasting(t) /\ Keeping(t)
  BY <1>9, FinalizationAssumption
  DEF Base, TypeOK, First, ReceiptProves, Intent, Terminal, Unclosed, Lasting, Keeping, Tear,
      Over, Goto, At, tree, control
<1>10. ASSUME StageIdentity PROVE Lasting(t) /\ Keeping(t)
  BY <1>10, FinalizationAssumption
  DEF Base, TypeOK, First, ReceiptProves, Intent, Terminal, Unclosed, Lasting, Keeping,
      StageIdentity, Goto, At, tree, control
<1>11. ASSUME PlaceIdentity PROVE Lasting(t) /\ Keeping(t)
  BY <1>11, FinalizationAssumption
  DEF Base, TypeOK, First, ReceiptProves, Intent, Terminal, Unclosed, Lasting, Keeping,
      PlaceIdentity, Goto, At, tree, control
<1>12. ASSUME CheckPlaced PROVE Lasting(t) /\ Keeping(t)
  BY <1>12, FinalizationAssumption
  DEF Base, TypeOK, First, ReceiptProves, Intent, Terminal, Unclosed, Lasting, Keeping,
      CheckPlaced, Goto, At, tree, control
<1>13. ASSUME Move PROVE Lasting(t) /\ Keeping(t)
  BY <1>13, FinalizationAssumption
  DEF Base, TypeOK, First, ReceiptProves, Intent, Terminal, Unclosed, Lasting, Keeping, Move,
      Goto, At, tree, control
<1>14. ASSUME ConfirmMoved PROVE Lasting(t) /\ Keeping(t)
  BY <1>14, FinalizationAssumption
  DEF Base, TypeOK, First, ReceiptProves, Intent, Terminal, Unclosed, Lasting, Keeping,
      ConfirmMoved, Goto, At, tree, control
<1>15. ASSUME ConfirmFlushed PROVE Lasting(t) /\ Keeping(t)
  BY <1>15, FinalizationAssumption
  DEF Base, TypeOK, First, ReceiptProves, Intent, Terminal, Unclosed, Lasting, Keeping,
      ConfirmFlushed, Goto, At, tree, control
<1>16. ASSUME Fail PROVE Lasting(t) /\ Keeping(t)
  BY <1>16, FinalizationAssumption
  DEF Base, TypeOK, First, ReceiptProves, Intent, Terminal, Unclosed, Lasting, Keeping, Fail,
      Goto, At, tree, control
<1>17. ASSUME Commit PROVE Lasting(t) /\ Keeping(t)
  BY <1>17, FinalizationAssumption
  DEF Base, TypeOK, First, ReceiptProves, Intent, Terminal, Unclosed, Lasting, Keeping,
      Commit, Goto, At, tree, control
<1>18. ASSUME Announce PROVE Lasting(t) /\ Keeping(t)
  BY <1>18, FinalizationAssumption
  DEF Base, TypeOK, First, ReceiptProves, Intent, Terminal, Unclosed, Lasting, Keeping,
      Announce, Goto, At, tree, control
<1>19. ASSUME NEW v \in Validators, Open(v) PROVE Lasting(t) /\ Keeping(t)
  BY <1>19, FinalizationAssumption
  DEF Base, TypeOK, First, ReceiptProves, Intent, Terminal, Unclosed, Lasting, Keeping, Open,
      Goto, At, tree, control
<1>20. ASSUME NEW v \in Validators, CloseJournal(v) PROVE Lasting(t) /\ Keeping(t)
  BY <1>20, FinalizationAssumption
  DEF Base, TypeOK, First, ReceiptProves, Intent, Terminal, Unclosed, Lasting, Keeping,
      CloseJournal, Goto, At, tree, control
<1>. QED
  BY
     <1>1, <1>2, <1>3, <1>4, <1>5, <1>6, <1>7, <1>8, <1>9, <1>10, <1>11, <1>12, <1>13,
     <1>14, <1>15, <1>16, <1>17, <1>18, <1>19, <1>20
  DEF Next, Supervise, Finalize

LEMMA BaseKeeps == Base /\ Next => Base'
<1>1. ASSUME Base, NEW s \in Seqs, Supervise(s) PROVE Base'
  BY <1>1,
     CaptureBase, WriteIntentBase, DiagnoseBase, CompleteBase, CompleteUnflushedBase,
     ContradictBase, StageIdentityBase, PlaceIdentityBase, CheckPlacedBase, MoveBase,
     ConfirmMovedBase, ConfirmFlushedBase, FailBase, CommitBase, AnnounceBase
  DEF Supervise, Finalize
<1>2. ASSUME Base, NEW v \in Validators, Open(v) \/ CloseJournal(v) PROVE Base'
  BY <1>2, OpenBase, CloseJournalBase
<1>. QED
  BY <1>1, <1>2, ReserveBase, CrashBase, TearBase DEF Next

LEMMA WitnessedKeeps ==
  ASSUME IInv, Next, NEW s \in Seqs PROVE Witnessed(s)'
<1>1. Base /\ Lasting(s) /\ Keeping(s) /\ \A p \in Seqs : Lasting(p)
  BY Frozen DEF IInv, Base
<1>2. SUFFICES ASSUME (pc[s] = "writing" \/ entry[s] = "intent")'
               PROVE  /\ (history[s] \in [1 .. s - 1 -> Witnesses])'
                      /\ \A p \in 1 .. s - 1 : Past(s, p)'
  BY DEF Witnessed
<1>3. CASE pc[s] = "writing" \/ entry[s] = "intent"
  <2>1. /\ history'[s] = history[s] /\ history[s] \in [1 .. s - 1 -> Witnesses]
        /\ \A p \in 1 .. s - 1 : Past(s, p)
    BY <1>1, <1>3 DEF IInv, Witnessed, Keeping
  <2>2. ASSUME NEW p \in 1 .. s - 1 PROVE Past(s, p)'
    <3>1. p \in Seqs /\ Lasting(p) /\ Past(s, p) /\ 1 \in Seqs
      BY <1>1, <2>1, FinalizationAssumption
    <3>2. entry[p] \in {"reserved", "torn", "intent"}
      BY <1>1, <3>1 DEF Base, TypeOK, Past
    <3>. QED
      BY <2>1, <3>1, <3>2 DEF Past, Lasting
  <2>. QED
    BY <2>1, <2>2
<1>4. CASE Capture(s)
  <2>1. /\ history'[s] = Witness(s) /\ UNCHANGED <<entry, terminal, receipt>>
        /\ pc[s] # "idle"
    BY <1>1, <1>4 DEF Capture, At, Base, TypeOK
  <2>2. Witness(s) \in [1 .. s - 1 -> Witnesses]
    BY <1>1, <2>1, WitnessType
  <2>3. ASSUME NEW p \in 1 .. s - 1 PROVE Past(s, p)'
    <3>1. /\ Witness(s)[p] = <<entry[p], terminal[p], IF p = 1 THEN receipt ELSE "none">>
          /\ entry[p] # "none"
      BY <1>1, <2>1 DEF Witness, Base, Ordered
    <3>2. history'[s][p] = <<entry'[p], terminal'[p], IF p = 1 THEN receipt' ELSE "none">>
      BY <2>1, <3>1
    <3>3. /\ history'[s][p][1] = entry'[p] /\ history'[s][p][2] = terminal'[p]
          /\ history'[s][p][3] = IF p = 1 THEN receipt' ELSE "none"
      BY <3>2
    <3>. QED
      BY <2>1, <3>1, <3>3 DEF Past
  <2>. QED
    BY <2>1, <2>2, <2>3
<1>. QED
  BY <1>1, <1>2, <1>3, <1>4 DEF Keeping

LEMMA StepKeeps == IInv /\ [Next]_vars => IInv'
<1>1. ASSUME IInv, Next PROVE IInv'
  BY <1>1, BaseKeeps, WitnessedKeeps DEF IInv, Base
<1>2. ASSUME IInv, UNCHANGED vars PROVE IInv'
  <2>1. TypeOK'
    BY <1>2 DEF IInv, TypeOK, vars, tree, control
  <2>2. First' /\ ReceiptProves'
    BY <1>2 DEF IInv, First, ReceiptProves, vars, tree, control
  <2>3. ASSUME NEW s \in Seqs PROVE Intent(s)' /\ Terminal(s)' /\ Ordered(s)' /\ Witnessed(s)'
    BY <1>2 DEF IInv, Intent, Terminal, Ordered, Witnessed, Past, vars, tree, control
  <2>. QED
    BY <2>1, <2>2, <2>3 DEF IInv
<1>. QED
  BY <1>1, <1>2

\* The invariant that relates the place of every supervisor to what it has written, and
\* every witness to what became of what it had seen.
THEOREM Invariance == Spec => []IInv
<1>. QED
  BY Starts, StepKeeps, PTL DEF Spec

\* The receipt exists only for a terminal that says PASS and was flushed, and a candidate
\* that was moved with its identity (lines 15560-15571), whatever failed or was retried.
THEOREM ReceiptsProve == Spec => []ReceiptProves
<1>1. IInv => ReceiptProves
  BY DEF IInv
<1>. QED
  BY <1>1, Invariance, PTL

\* A witness that is no longer true stays untrue: files are written once.
LEMMA ContradictedStays ==
  ASSUME IInv, [Next]_vars, NEW s \in Seqs, entry[s] = "intent", ~Observed(s)
  PROVE  s \in Later /\ entry'[s] = "intent" /\ ~Observed(s)'
<1>. DEFINE W(p) == <<entry[p], terminal[p], IF p = 1 THEN receipt ELSE "none">>
<1>1. /\ history[s] \in [1 .. s - 1 -> Witnesses] /\ \A p \in 1 .. s - 1 : Past(s, p)
      /\ Witness(s) = [p \in 1 .. s - 1 |-> W(p)]
  BY DEF IInv, Witnessed, Witness
<1>2. PICK p \in 1 .. s - 1 : history[s][p] # W(p)
  <2>1. history[s] = [p \in 1 .. s - 1 |-> history[s][p]]
    BY <1>1
  <2>. QED
    BY <1>1, <2>1, Zenon DEF Observed
<1>3. /\ p \in Seqs /\ 1 \in Seqs /\ s # 1
      /\ history[s][p] = <<history[s][p][1], history[s][p][2], history[s][p][3]>>
  BY <1>1, FinalizationAssumption DEF Witnesses
<1>4. \/ history[s][p][1] = "reserved" /\ entry[p] \in {"torn", "intent"}
      \/ history[s][p][2] = "none" /\ terminal[p] # "none"
      \/ history[s][p][3] = "none" /\ p = 1 /\ receipt # "none"
  BY <1>1, <1>2, <1>3 DEF Past, IInv, TypeOK
<1>5. /\ history'[s] = history[s] /\ entry'[s] = "intent"
      /\ Lasting(p)
  <2>1. CASE Next
    BY <1>3, <2>1, Frozen DEF IInv, Base, Keeping, Lasting
  <2>2. CASE UNCHANGED vars
    BY <2>2 DEF vars, control, Lasting
  <2>. QED
    BY <2>1, <2>2
<1>6. history'[s][p] # <<entry'[p], terminal'[p], IF p = 1 THEN receipt' ELSE "none">>
  BY <1>4, <1>5 DEF Lasting
<1>7. Witness(s)'[p] = <<entry'[p], terminal'[p], IF p = 1 THEN receipt' ELSE "none">>
  BY <1>2 DEF Witness
<1>. QED
  BY <1>3, <1>5, <1>6, <1>7 DEF Observed

\* A contradicted witness blocks the candidate for good (lines 10612-10618), for every
\* number of invocations and validators.
THEOREM ContradictionsBlock == Spec => ContradictionBlocks
<1>1. IInv /\ [Next]_vars =>
        [(\E s \in Seqs : entry[s] = "intent" /\ ~Observed(s)) => ~Qualified']_vars
  BY ContradictedStays DEF Qualified, Completed
<1>. QED
  BY <1>1, Invariance, PTL DEF Spec, ContradictionBlocks

--------------------------------------------------------------------------------
(* Consumption *)

\* An invocation that has taken its witness.
Started(s) == pc[s] = "writing" \/ entry[s] = "intent"

\* An invocation that is past its intent, or has a terminal, has an intent.
Known(s) ==
  pc[s] \notin {"idle", "capturing", "writing", "ended"} \/ terminal[s] # "none"
    => entry[s] = "intent"

\* Unless invocations overlapped, what a witness saw was at its end, and stays.
Alone ==
  ~overlapped =>
    \A s \in Seqs : Started(s) => Observed(s) /\ \A p \in 1 .. s - 1 : Over(p)

\* After the check that the moved tree holds all that was captured.
Confirming == {"flushing", "confirmed", "committing", "completing", "announced"}

\* The captured journals are closed, and those that were appended since know where the
\* tree is.
Gathered ==
  /\ pc[1] \in {"verified", "placed", "moving", "moved"} \cup Confirming =>
       \A v \in Validators : captured[v] # "open"
  /\ pc[1] \in Confirming =>
       \A v \in Validators : /\ captured[v] # "none" => journal[v] = captured[v]
                             /\ journal[v] = "open" => path[v] = "final"
  /\ pc[1] \in {"completing", "announced"} => receipt = "whole"

\* The invariant under AnnouncedQualifies.
AInv == IInv /\ Gathered /\ Alone /\ \A s \in Seqs : Known(s)

\* The one invocation a step belongs to.
Apart(t) ==
  /\ ~Over(t)
  /\ \A p \in Seqs \ {t} : /\ pc'[p] = pc[p] /\ entry'[p] = entry[p]
                            /\ terminal'[p] = terminal[p] /\ history'[p] = history[p]
  /\ receipt' = receipt \/ t = 1
  /\ overlapped' = overlapped \/ Capture(t)

\* Every step but those of the validators belongs to one invocation that is not over.
LEMMA OneActs ==
  ASSUME Base, Next
  PROVE  \/ UNCHANGED <<pc, entry, terminal, history, receipt, overlapped>>
         \/ \E t \in Seqs : Apart(t)
<1>0. Tabled /\ 1 \in Seqs
  BY Tables, FinalizationAssumption
<1>1. ASSUME NEW t \in Seqs, Reserve(t) PROVE Apart(t)
  BY <1>0, <1>1 DEF Base, Tabled, Apart, Over, Reserve, Goto, At, tree, control
<1>2. ASSUME NEW t \in Seqs, Capture(t) PROVE Apart(t)
  BY <1>0, <1>2 DEF Base, Tabled, Apart, Over, Capture, Goto, At, tree, control
<1>3. ASSUME NEW t \in Seqs, WriteIntent(t) PROVE Apart(t)
  BY <1>0, <1>3 DEF Base, Tabled, Apart, Over, WriteIntent, Goto, At, tree, control
<1>4. ASSUME NEW t \in Seqs, Diagnose(t) PROVE Apart(t)
  BY <1>0, <1>4 DEF Base, Tabled, Apart, Over, Diagnose, Goto, At, tree, control
<1>5. ASSUME NEW t \in Seqs, Complete(t) PROVE Apart(t)
  BY <1>0, <1>5 DEF Base, Tabled, Apart, Over, Complete, Close, Goto, At, tree, control
<1>6. ASSUME NEW t \in Seqs, CompleteUnflushed(t) PROVE Apart(t)
  BY <1>0, <1>6 DEF Base, Tabled, Apart, Over, CompleteUnflushed, Close, Goto, At, tree, control
<1>7. ASSUME NEW t \in Seqs, Contradict(t) PROVE Apart(t)
  BY <1>0, <1>7 DEF Base, Tabled, Apart, Over, Contradict, Goto, At, tree, control
<1>8. ASSUME NEW t \in Seqs, Crash(t) PROVE Apart(t)
  BY <1>0, <1>8 DEF Base, Tabled, Apart, Over, Crash, Goto, At, tree, control
<1>9. ASSUME NEW t \in Seqs, Tear(t) PROVE Apart(t)
  <2>1. t = 1 \/ t \in Later
    BY FinalizationAssumption
  <2>2. receipt' = receipt \/ t = 1
    BY <1>9, <2>1 DEF Base, First, Tear, At
  <2>. QED
    BY <1>0, <1>9, <2>2 DEF Tabled, Apart, Over, Tear, Goto, At, tree, control
<1>10. ASSUME Finalize PROVE Apart(1)
  <2>1. CASE StageIdentity
    BY <1>0, <2>1 DEF Base, Tabled, Apart, Over, StageIdentity, Goto, At, tree, control
  <2>2. CASE PlaceIdentity
    BY <1>0, <2>2 DEF Base, Tabled, Apart, Over, PlaceIdentity, Goto, At, tree, control
  <2>3. CASE CheckPlaced
    BY <1>0, <2>3 DEF Base, Tabled, Apart, Over, CheckPlaced, Goto, At, tree, control
  <2>4. CASE Move
    BY <1>0, <2>4 DEF Base, Tabled, Apart, Over, Move, Goto, At, tree, control
  <2>5. CASE ConfirmMoved
    BY <1>0, <2>5 DEF Base, Tabled, Apart, Over, ConfirmMoved, Goto, At, tree, control
  <2>6. CASE ConfirmFlushed
    BY <1>0, <2>6 DEF Base, Tabled, Apart, Over, ConfirmFlushed, Goto, At, tree, control
  <2>7. CASE Fail
    BY <1>0, <2>7 DEF Base, Tabled, Apart, Over, Fail, Goto, At, tree, control
  <2>8. CASE Commit
    BY <1>0, <2>8 DEF Base, Tabled, Apart, Over, Commit, Goto, At, tree, control
  <2>9. CASE Announce
    BY <1>0, <2>9 DEF Base, Tabled, Apart, Over, Announce, Goto, At, tree, control
  <2>. QED
    BY <1>10, <2>1, <2>2, <2>3, <2>4, <2>5, <2>6, <2>7, <2>8, <2>9 DEF Finalize
<1>11. ASSUME NEW v \in Validators, Open(v) \/ CloseJournal(v)
       PROVE  UNCHANGED <<pc, entry, terminal, history, receipt, overlapped>>
  BY <1>11 DEF Open, CloseJournal, control
<1>. QED
  BY <1>0, <1>1, <1>2, <1>3, <1>4, <1>5, <1>6, <1>7, <1>8, <1>9, <1>10, <1>11 DEF Next, Supervise

\* Without overlap a witness stays true: those before it are over and write no more.
LEMMA AloneKeeps ==
  ASSUME IInv, Alone, Next PROVE Alone'
<1>0. Base /\ TypeOK /\ \A s \in Seqs : Ordered(s)
  BY DEF IInv, Base
<1>1. SUFFICES ASSUME ~overlapped', NEW s \in Seqs, Started(s)'
               PROVE  Observed(s)' /\ \A p \in 1 .. s - 1 : Over(p)'
  BY DEF Alone
<1>2. CASE UNCHANGED <<pc, entry, terminal, history, receipt, overlapped>>
  BY <1>1, <1>2 DEF Alone, Started, Observed, Witness, Over
<1>3. ASSUME NEW t \in Seqs, Apart(t), t # s \/ ~Capture(s)
      PROVE  Observed(s)' /\ \A p \in 1 .. s - 1 : Over(p)'
  <2>1. ~overlapped /\ Started(s) /\ history'[s] = history[s]
    <3>1. overlapped => overlapped'
      BY <1>3 DEF Apart, Capture
    <3>2. Keeping(s)
      BY <1>0, Frozen
    <3>. QED
      BY <1>1, <1>3, <3>1, <3>2 DEF Started, Keeping, Apart, Capture
  <2>2. Observed(s) /\ \A p \in 1 .. s - 1 : Over(p)
    BY <2>1 DEF Alone
  <2>3. \A p \in 1 .. s - 1 : p \in Seqs \ {t}
    BY <1>3, <2>2, FinalizationAssumption DEF Apart
  <2>4. \A p \in 1 .. s - 1 : p = 1 => receipt' = receipt
    BY <1>3, <2>3 DEF Apart
  <2>5. \A p \in 1 .. s - 1 :
          <<entry'[p], terminal'[p], IF p = 1 THEN receipt' ELSE "none">>
            = <<entry[p], terminal[p], IF p = 1 THEN receipt ELSE "none">>
    BY <1>3, <2>3, <2>4 DEF Apart
  <2>6. Witness(s)' = Witness(s)
    BY <2>5, Zenon DEF Witness
  <2>. QED
    BY <1>3, <2>1, <2>2, <2>3, <2>6 DEF Observed, Over, Apart
<1>4. CASE Capture(s)
  <2>1. /\ ~\E p \in 1 .. s - 1 : ~Over(p)
        /\ UNCHANGED <<entry, terminal, receipt>> /\ history'[s] = Witness(s)
    BY <1>0, <1>1, <1>4 DEF Capture, TypeOK
  <2>2. Witness(s)' = Witness(s)
    BY <2>1 DEF Witness
  <2>3. \A p \in 1 .. s - 1 : pc'[p] = pc[p]
    BY <1>0, <1>4, FinalizationAssumption DEF Capture, Goto, TypeOK
  <2>. QED
    BY <2>1, <2>2, <2>3 DEF Observed, Over
<1>. QED
  BY <1>0, <1>2, <1>3, <1>4, OneActs

\* The intent of an invocation stays.
LEMMA KnownKeeps ==
  ASSUME IInv, Next, \A p \in Seqs : Known(p), NEW s \in Seqs PROVE Known(s)'
<1>0. Base /\ Tabled /\ 1 \in Seqs /\ Known(s) /\ Known(1) /\ Terminal(s) /\ Terminal(1)
  BY Tables, FinalizationAssumption DEF IInv, Base
<1>1. ASSUME NEW t \in Seqs, Reserve(t) PROVE Known(s)'
  BY <1>0, <1>1 DEF Tabled, Known, Terminal, Unclosed, Reserve, Goto, At, tree, control
<1>2. ASSUME NEW t \in Seqs, Capture(t) PROVE Known(s)'
  BY <1>0, <1>2 DEF Tabled, Known, Terminal, Unclosed, Capture, Goto, At, tree, control
<1>3. ASSUME NEW t \in Seqs, WriteIntent(t) PROVE Known(s)'
  BY <1>0, <1>3 DEF Tabled, Known, Terminal, Unclosed, WriteIntent, Goto, At, tree, control
<1>4. ASSUME NEW t \in Seqs, Diagnose(t) PROVE Known(s)'
  BY <1>0, <1>4 DEF Tabled, Known, Terminal, Unclosed, Diagnose, Goto, At, tree, control
<1>5. ASSUME NEW t \in Seqs, Complete(t) PROVE Known(s)'
  BY <1>0, <1>5 DEF Tabled, Known, Terminal, Unclosed, Complete, Close, Goto, At, tree, control
<1>6. ASSUME NEW t \in Seqs, CompleteUnflushed(t) PROVE Known(s)'
  BY <1>0, <1>6 DEF Tabled, Known, Terminal, Unclosed, CompleteUnflushed, Close, Goto, At, tree, control
<1>7. ASSUME NEW t \in Seqs, Contradict(t) PROVE Known(s)'
  BY <1>0, <1>7 DEF Tabled, Known, Terminal, Unclosed, Contradict, Goto, At, tree, control
<1>8. ASSUME NEW t \in Seqs, Crash(t) PROVE Known(s)'
  BY <1>0, <1>8 DEF Tabled, Known, Terminal, Unclosed, Crash, Over, Goto, At, tree, control
<1>9. ASSUME NEW t \in Seqs, Tear(t) PROVE Known(s)'
  BY <1>0, <1>9 DEF Tabled, Known, Terminal, Unclosed, Tear, Goto, At, tree, control
<1>10. ASSUME Finalize PROVE Known(s)'
  <2>1. CASE StageIdentity
    BY <1>0, <2>1 DEF Tabled, Known, Terminal, Unclosed, StageIdentity, Goto, At, tree, control
  <2>2. CASE PlaceIdentity
    BY <1>0, <2>2 DEF Tabled, Known, Terminal, Unclosed, PlaceIdentity, Goto, At, tree, control
  <2>3. CASE CheckPlaced
    BY <1>0, <2>3 DEF Tabled, Known, Terminal, Unclosed, CheckPlaced, Goto, At, tree, control
  <2>4. CASE Move
    BY <1>0, <2>4 DEF Tabled, Known, Terminal, Unclosed, Move, Goto, At, tree, control
  <2>5. CASE ConfirmMoved
    BY <1>0, <2>5 DEF Tabled, Known, Terminal, Unclosed, ConfirmMoved, Goto, At, tree, control
  <2>6. CASE ConfirmFlushed
    BY <1>0, <2>6 DEF Tabled, Known, Terminal, Unclosed, ConfirmFlushed, Goto, At, tree, control
  <2>7. CASE Fail
    BY <1>0, <2>7 DEF Tabled, Known, Terminal, Unclosed, Fail, Goto, At, tree, control
  <2>8. CASE Commit
    BY <1>0, <2>8 DEF Tabled, Known, Terminal, Unclosed, Commit, Goto, At, tree, control
  <2>9. CASE Announce
    BY <1>0, <2>9 DEF Tabled, Known, Terminal, Unclosed, Announce, Goto, At, tree, control
  <2>. QED
    BY <1>10, <2>1, <2>2, <2>3, <2>4, <2>5, <2>6, <2>7, <2>8, <2>9 DEF Finalize
<1>11. ASSUME NEW v \in Validators, Open(v) \/ CloseJournal(v) PROVE Known(s)'
  BY <1>0, <1>11 DEF Known, Open, CloseJournal, control
<1>. QED
  BY <1>0, <1>1, <1>2, <1>3, <1>4, <1>5, <1>6, <1>7, <1>8, <1>9, <1>10, <1>11 DEF Next, Supervise

\* A closed journal stays closed, and one that opens after the move knows the final path.
LEMMA GatheredKeeps ==
  ASSUME IInv, Gathered, Next PROVE Gathered'
<1>0. /\ Base /\ Tabled /\ First /\ 1 \in Seqs /\ Terminal(1)
      /\ journal \in [Validators -> {"none", "open", "closed"}]
      /\ path \in [Validators -> {"staging", "final"}]
  <2>1. Base /\ 1 \in Seqs
    BY FinalizationAssumption DEF IInv, Base
  <2>. QED
    BY <2>1, Tables DEF Base, TypeOK
<1>1. ASSUME NEW t \in Seqs, Reserve(t) PROVE Gathered'
  BY <1>0, <1>1 DEF Tabled, First, Gathered, Confirming, Reserve, Goto, At, tree, control
<1>2. ASSUME NEW t \in Seqs, Capture(t) PROVE Gathered'
  BY <1>0, <1>2 DEF Tabled, First, Gathered, Confirming, Capture, Goto, At, tree, control
<1>3. ASSUME NEW t \in Seqs, WriteIntent(t) PROVE Gathered'
  BY <1>0, <1>3 DEF Tabled, First, Gathered, Confirming, WriteIntent, Goto, At, tree, control
<1>4. ASSUME NEW t \in Seqs, Diagnose(t) PROVE Gathered'
  BY <1>0, <1>4 DEF Tabled, First, Gathered, Confirming, Diagnose, Goto, At, tree, control
<1>5. ASSUME NEW t \in Seqs, Complete(t) PROVE Gathered'
  BY <1>0, <1>5 DEF Tabled, First, Gathered, Confirming, Complete, Close, Goto, At, tree, control
<1>6. ASSUME NEW t \in Seqs, CompleteUnflushed(t) PROVE Gathered'
  BY <1>0, <1>6 DEF Tabled, First, Gathered, Confirming, CompleteUnflushed, Close, Goto, At, tree, control
<1>7. ASSUME NEW t \in Seqs, Contradict(t) PROVE Gathered'
  BY <1>0, <1>7 DEF Tabled, First, Gathered, Confirming, Contradict, Goto, At, tree, control
<1>8. ASSUME NEW t \in Seqs, Crash(t) PROVE Gathered'
  BY <1>0, <1>8 DEF Tabled, First, Gathered, Confirming, Crash, Over, Goto, At, tree, control
<1>9. ASSUME NEW t \in Seqs, Tear(t) PROVE Gathered'
  BY <1>0, <1>9 DEF Tabled, First, Gathered, Confirming, Tear, Goto, At, tree, control
<1>10. ASSUME Finalize PROVE Gathered'
  <2>1. CASE StageIdentity
    BY <1>0, <2>1 DEF Tabled, Gathered, Confirming, StageIdentity, SourceHolds, Goto, At, tree, control
  <2>2. CASE PlaceIdentity
    BY <1>0, <2>2 DEF Tabled, Gathered, Confirming, PlaceIdentity, SourceHolds, Goto, At, tree, control
  <2>3. CASE CheckPlaced
    BY <1>0, <2>3 DEF Tabled, Gathered, Confirming, CheckPlaced, Goto, At, tree, control
  <2>4. CASE Move
    BY <1>0, <2>4 DEF Tabled, Gathered, Confirming, Move, Goto, At, tree, control
  <2>5. CASE ConfirmMoved
    BY <1>0, <2>5 DEF Tabled, Gathered, Confirming, ConfirmMoved, FinalHolds, Goto, At, tree, control
  <2>6. CASE ConfirmFlushed
    BY <1>0, <2>6 DEF Tabled, Gathered, Confirming, ConfirmFlushed, FinalHolds, Goto, At, tree, control
  <2>7. CASE Fail
    BY <1>0, <2>7 DEF Tabled, Gathered, Confirming, Fail, Goto, At, tree, control
  <2>8. CASE Commit
    BY <1>0, <2>8 DEF Tabled, Gathered, Confirming, Commit, Goto, At, tree, control
  <2>9. CASE Announce
    BY <1>0, <2>9 DEF Tabled, Gathered, Confirming, Announce, Goto, At, tree, control
  <2>. QED
    BY <1>10, <2>1, <2>2, <2>3, <2>4, <2>5, <2>6, <2>7, <2>8, <2>9 DEF Finalize
<1>11. ASSUME NEW v \in Validators, Open(v) PROVE Gathered'
  BY <1>0, <1>11 DEF First, Gathered, Confirming, Open, control
<1>12. ASSUME NEW v \in Validators, CloseJournal(v) PROVE Gathered'
  BY <1>0, <1>12 DEF First, Gathered, Confirming, CloseJournal, control
<1>. QED
  BY <1>0, <1>1, <1>2, <1>3, <1>4, <1>5, <1>6, <1>7, <1>8, <1>9, <1>10, <1>11, <1>12 DEF Next, Supervise

\* The invariant that adds to IInv what the finalization has gathered.
LEMMA AInvariance == Spec => []AInv
<1>1. Init => AInv
  <2>1. Init => IInv
    BY Starts
  <2>2. Init => Gathered /\ Alone /\ \A s \in Seqs : Known(s)
    BY FinalizationAssumption DEF Init, Gathered, Confirming, Alone, Started, Known
  <2>. QED
    BY <2>1, <2>2 DEF AInv
<1>2. AInv /\ [Next]_vars => AInv'
  <2>1. ASSUME AInv, Next PROVE AInv'
    <3>1. IInv'
      BY <2>1, StepKeeps DEF AInv
    <3>. QED
      BY <2>1, <3>1, AloneKeeps, KnownKeeps, GatheredKeeps DEF AInv
  <2>2. ASSUME AInv, UNCHANGED vars PROVE AInv'
    <3>1. IInv'
      BY <2>2, StepKeeps DEF AInv
    <3>2. Gathered'
      BY <2>2 DEF AInv, Gathered, Confirming, vars, tree, control
    <3>3. Alone' /\ \A s \in Seqs : Known(s)'
      BY <2>2 DEF AInv, Alone, Started, Known, Observed, Witness, Over, vars, control
    <3>. QED
      BY <3>1, <3>2, <3>3 DEF AInv
  <2>. QED
    BY <2>1, <2>2
<1>. QED
  BY <1>1, <1>2, PTL DEF Spec

\* What was announced can be consumed (the supervisor does not read the tree again then,
\* lines 15564-15572), for every number of invocations and validators.
THEOREM AnnouncedIsConsumed == Spec => []AnnouncedQualifies
<1>1. ASSUME AInv, At(1, "announced"), ~overlapped, Settled PROVE Qualified
  <2>0. /\ 1 \in Seqs /\ pc[1] = "announced" /\ TypeOK /\ First /\ Gathered /\ Alone
        /\ \A s \in Seqs : Known(s) /\ Intent(s)
    BY <1>1, FinalizationAssumption DEF AInv, IInv, At
  <2>1. /\ entry[1] = "intent" /\ terminal[1] = "pass" /\ receipt = "whole"
        /\ home = "final" /\ identity = "whole"
    BY <2>0 DEF Known, First, Gathered
  <2>2. ASSUME NEW s \in Seqs, entry[s] = "intent" PROVE Observed(s)
    BY <1>1, <2>0, <2>2 DEF Alone, Started
  <2>3. ASSUME NEW s \in Later, entry[s] # "none"
        PROVE  /\ entry[s] = "intent" /\ terminal[s] = "blocked" /\ Observed(s)
               /\ ~Contradicted(s)
    <3>1. s \in Seqs /\ \A p \in 1 .. s - 1 : p \in Seqs
      BY FinalizationAssumption
    <3>2. terminal[s] = "blocked" /\ entry[s] = "intent"
      BY <1>1, <2>0, <2>3, <3>1 DEF Settled, Known
    <3>. QED
      BY <2>2, <3>1, <3>2 DEF Contradicted
  <2>4. FinalAppended
    <3>1. ASSUME NEW v \in Validators PROVE journal[v] # "open"
      BY <1>1, <2>0, <2>1 DEF Settled, Gathered, Confirming
    <3>. QED
      BY <1>1, <2>0, <2>1, <3>1 DEF Settled, Gathered, Confirming, FinalAppended
  <2>. QED
    BY <2>1, <2>3, <2>4 DEF Qualified, Completed
<1>2. AInv => AnnouncedQualifies
  BY <1>1 DEF AnnouncedQualifies
<1>. QED
  BY <1>2, AInvariance, PTL

==============================================================================
