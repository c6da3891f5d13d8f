----------------------------- MODULE BrokerProofs -----------------------------
(***************************************************************************)
(* What holds of Broker for any runs, pulls and requests: its types, then  *)
(* LeaseInv, GateInv and AttemptInv, each inductive with TypeInv at hand,  *)
(* then what it promises about main: a pull goes in on the base of its     *)
(* request, and nothing goes in while a run holds the lease.               *)
(***************************************************************************)
EXTENDS BrokerInvariant, TLAPS

-------------------------------------------------------------------------------
(* Types: the process holds what belongs to where it is *)

\* Where the process is, and what it holds.
Control ==
  /\ \/ pc \in AtRun /\ cursor \in Runs
     \/ pc \in AtRequest /\ cursor \in Requests
     \/ pc \in AtCycle /\ cursor = None
  /\ round \in 0 .. 2 /\ todo \subseteq Pulls
  /\ pc = "idle" => round = 0 /\ todo = {}
  /\ seen \in [main : Commits \cup {None}, due : BOOLEAN, phase : Phases \cup {None}]
  /\ pc \notin Judging => seen = Unseen

Leases == [status : Fencing \cup {"none", "abandoned", "released"}, reason : Reasons \cup {None}]
Checks == [status : {"none", "active", "success", "failure"}, reason : Reasons \cup {None}]

\* A finished reconciliation leaves the process at the lease again, at the pulls or idle.
LEMMA DoneControl ==
  ASSUME TypeInv, NEW f, LeaseDone(f)
  PROVE  Control'
  BY DEF Control, TypeInv, TypeOK, LeaseTypeOK, Judging, LeaseDone, EndCycle, Unseen, AtRun,
         AtRequest,
         AtCycle

\* A record of the lease table that is replaced by another leaves the table a table.
LEMMA SetLeaseType ==
  ASSUME TypeInv, NEW r \in Runs, NEW status \in Fencing \cup {"none", "abandoned", "released"},
         NEW reason \in Reasons \cup {None}, SetLease(r, status, reason)
  PROVE  lease' \in [Runs -> Leases]
  BY DEF TypeInv, TypeOK, LeaseTypeOK, SetLease, Leases

\* The same of the check runs.
LEMMA SetCheckType ==
  ASSUME TypeInv, NEW r \in Runs, NEW status \in {"none", "active", "success", "failure"},
         NEW reason \in Reasons \cup {None}, SetCheck(r, status, reason)
  PROVE  check' \in [Runs -> Checks]
  BY DEF TypeInv, TypeOK, LeaseTypeOK, SetCheck, Checks

\* A quarantine takes the process back to the lease and touches nothing on GitHub.
LEMMA QuarantineControl ==
  ASSUME TypeInv, NEW r \in Runs, NEW reason \in Reasons, Quarantine(r, reason)
  PROVE  Control' /\ lease' \in [Runs -> Leases] /\ UNCHANGED provider
<1>1. lease' \in [Runs -> Leases]
  BY SetLeaseType DEF Quarantine, Fencing
<1>2. Control'
  BY DEF Control, TypeInv, TypeOK, LeaseTypeOK, Judging, Quarantine, Unseen, AtRun, AtRequest,
         AtCycle
<1> QED
  BY <1>1, <1>2 DEF Quarantine

\* Whatever reconcile refuses a lease for is one of the reasons it records.
LEMMA GroundType == \A r \in Runs : Ground(r) \in Reasons
  BY DEF Ground, Reasons

\* The types after a step of the lease's side that leaves the workflow alone.
LEMMA Reassembled ==
  ASSUME TypeInv, MergeTypeOK', Elsewhere, Control', refs' \subseteq Runs,
         check' \in [Runs -> Checks], lease' \in [Runs -> Leases]
  PROVE  TypeInv'
  BY DEF TypeInv, TypeOK, Control, LeaseTypeOK, Elsewhere, flow, counters, Leases, Checks,
         Judging, AtCycle,
         AtRun, AtRequest

\* The first state has its types.
LEMMA InitTypes == Init => TypeInv
  BY BrokerAssumption, AdmissionAssumption, SMT
  DEF Init, TypeInv, Judging, TypeOK, LeaseInit, MergeInit, LeaseTypeOK, MergeTypeOK, AtRun,
      AtRequest,
      AtCycle, Blank, Unseen, Commits, Steps, Reasons, Fencing, Phases, Terminal

\* The steps of the publication workflow keep the types.
LEMMA WorkflowTypes ==
  ASSUME TypeInv, Workflow, UNCHANGED mergeVars
  PROVE  TypeInv'
<1> USE BrokerAssumption DEF TypeInv, Judging, TypeOK, AtRun, AtRequest, AtCycle, baseVars,
        leaseVars,
        local, counters, flow, provider, Unseen
<1>1. MergeTypeOK'
  BY DEF mergeVars, github, MergeTypeOK
<1>2. ASSUME NEW r \in Runs, NEW s \in Runs, Rerun(r, s)
      PROVE  TypeInv'
  BY <1>1, <1>2
  DEF Rerun, Steps, LeaseTypeOK
<1>3. ASSUME NEW r \in Runs, Dispatch(r)
      PROVE  TypeInv'
  BY <1>1, <1>3
  DEF Dispatch, Steps, LeaseTypeOK
<1>4. ASSUME NEW r \in Runs, BeginWait(r)
      PROVE  TypeInv'
  BY <1>1, <1>4
  DEF BeginWait, RunStep, Steps, LeaseTypeOK
<1>5. ASSUME NEW r \in Runs, Acquire(r)
      PROVE  TypeInv'
  BY <1>1, <1>5
  DEF Acquire, RunStep, Steps, LeaseTypeOK
<1>6. ASSUME NEW r \in Runs, Reassert(r)
      PROVE  TypeInv'
  BY <1>1, <1>6
  DEF Reassert, RunStep, Steps, LeaseTypeOK
<1>7. ASSUME NEW r \in Runs, Upload(r)
      PROVE  TypeInv'
  BY <1>1, <1>7
  DEF Upload, RunStep, Steps, LeaseTypeOK
<1>8. ASSUME NEW r \in Runs, Verified(r)
      PROVE  TypeInv'
  BY <1>1, <1>8
  DEF Verified, RunStep, Steps, LeaseTypeOK
<1>9. ASSUME NEW r \in Runs, ObserveRelease(r)
      PROVE  TypeInv'
  BY <1>1, <1>9
  DEF ObserveRelease, RunStep, Steps, LeaseTypeOK
<1>10. ASSUME NEW r \in Runs, RunFails(r)
      PROVE  TypeInv'
  BY <1>1, <1>10
  DEF RunFails, RunStep, Steps, LeaseTypeOK
<1>11. ASSUME NEW r \in Runs, AssertFirst(r)
      PROVE  TypeInv'
  BY <1>1, <1>11
  DEF AssertFirst, LeaseTypeOK
<1> QED
  BY <1>2, <1>3, <1>4, <1>5, <1>6, <1>7, <1>8, <1>9, <1>10, <1>11
  DEF Workflow

\* The reconciliation and the recovery of a lease keep the types.
LEMMA LeaseTypes ==
  ASSUME TypeInv, LeaseSide, UNCHANGED mergeVars
  PROVE  TypeInv'
<1> USE BrokerAssumption DEF TypeInv, Judging, TypeOK, AtRun, AtRequest, AtCycle, baseVars,
        leaseVars,
        local, counters, flow, provider, Unseen
<1>1. MergeTypeOK'
  BY DEF mergeVars, github, MergeTypeOK
<1>2. ASSUME NoCandidate
      PROVE  TypeInv'
  BY <1>1, <1>2
  DEF NoCandidate, Elsewhere, LeaseDone, EndCycle, LeaseTypeOK
<1>3. ASSUME DiscoverRaises
      PROVE  TypeInv'
  BY <1>1, <1>3
  DEF DiscoverRaises, Elsewhere, LeaseRaises, EndCycle, LeaseTypeOK
<1>4. ASSUME RestoreRaises
      PROVE  TypeInv'
  BY <1>1, <1>4
  DEF RestoreRaises, Elsewhere, LeaseRaises, EndCycle, LeaseTypeOK
<1>5. ASSUME ActivateRaises
      PROVE  TypeInv'
  BY <1>1, <1>5
  DEF ActivateRaises, Elsewhere, LeaseRaises, EndCycle, LeaseTypeOK
<1>6. ASSUME NEW r \in Runs, Discover(r)
      PROVE  TypeInv'
  BY <1>1, <1>6
  DEF Discover, Elsewhere, LeaseTypeOK
<1>7. ASSUME NEW r \in Runs, Reserve(r)
      PROVE  TypeInv'
  BY <1>1, <1>7
  DEF Reserve, SetLease, Fencing, Elsewhere, LeaseTypeOK
<1>8. ASSUME NEW r \in Runs, RestoreLease(r)
      PROVE  TypeInv'
  BY <1>1, <1>8
  DEF RestoreLease, SetLease, Fencing, Elsewhere, LeaseTypeOK
<1>9. ASSUME NEW r \in Runs, HoldQuarantine(r)
      PROVE  TypeInv'
  <2>1. LeaseDone(TRUE) => Control'
    BY DoneControl
  <2>4. EndCycle /\ seen' = Unseen => Control'
    BY DEF EndCycle, Control, LeaseTypeOK
  <2>5. Control'
    BY <1>9, <2>1, <2>4 DEF HoldQuarantine
  <2>2. lease[r].reason \in Reasons \cup {None}
    BY DEF LeaseTypeOK
  <2>3. check' \in [Runs -> Checks]
    BY <1>9, <2>2, SetCheckType DEF HoldQuarantine, LeaseTypeOK, Checks
  <2> QED
    BY <1>1, <1>9, <2>5, <2>3, Reassembled DEF HoldQuarantine, LeaseTypeOK, Leases
<1>10. ASSUME NEW r \in Runs, ReadLease(r)
      PROVE  TypeInv'
  <2>1. PublishPhase(r) \in Phases
    BY DEF PublishPhase, Phases, LeaseTypeOK, Steps
  <2>2. Control'
    BY <1>10, <2>1 DEF ReadLease, Elsewhere, Control, LeaseTypeOK
  <2> QED
    BY <1>1, <1>10, <2>2, Reassembled DEF ReadLease, LeaseTypeOK, Leases, Checks
<1>11. ASSUME NEW r \in Runs, Refuse(r)
      PROVE  TypeInv'
  <2>1. Control' /\ lease' \in [Runs -> Leases] /\ UNCHANGED provider
    BY <1>11, GroundType, DoneControl, QuarantineControl, SetLeaseType DEF Refuse
  <2> QED
    BY <1>1, <1>11, <2>1, Reassembled DEF Refuse, LeaseTypeOK, Checks
<1>12. ASSUME NEW r \in Runs, Proceed(r)
      PROVE  TypeInv'
  <2>1. "fence" \in Reasons /\ "run" \in Reasons
    BY DEF Reasons
  <2>3. Control' /\ lease' \in [Runs -> Leases] /\ UNCHANGED provider
    BY <1>12, <2>1, DoneControl, QuarantineControl
    DEF Proceed, Accepted, Control, LeaseTypeOK, Leases
  <2> QED
    BY <1>1, <1>12, <2>3, Reassembled DEF Proceed, LeaseTypeOK, Checks
<1>13. ASSUME NEW r \in Runs, CreateRef(r)
      PROVE  TypeInv'
  BY <1>1, <1>13
  DEF CreateRef, Elsewhere, LeaseTypeOK
<1>14. ASSUME NEW r \in Runs, CreateCheck(r)
      PROVE  TypeInv'
  BY <1>1, <1>14
  DEF CreateCheck, SetCheck, Elsewhere, LeaseTypeOK
<1>15. ASSUME NEW r \in Runs, SetActive(r)
      PROVE  TypeInv'
  <2>1. Control'
    BY <1>15, DoneControl DEF SetActive, Control, LeaseTypeOK
  <2>2. lease' \in [Runs -> Leases] /\ UNCHANGED provider
    BY <1>15, SetLeaseType DEF SetActive, Fencing
  <2> QED
    BY <1>1, <1>15, <2>1, <2>2, Reassembled DEF SetActive, LeaseTypeOK, Checks
<1>16. ASSUME NEW r \in Runs, ConfirmRelease(r)
      PROVE  TypeInv'
  <2>1. "run" \in Reasons /\ "authority" \in Reasons
    BY DEF Reasons
  <2>2. Control' /\ lease' \in [Runs -> Leases] /\ UNCHANGED provider
    BY <1>16, <2>1, SetLeaseType, QuarantineControl
    DEF ConfirmRelease, AtRelease, Control, LeaseTypeOK, Fencing
  <2> QED
    BY <1>1, <1>16, <2>2, Reassembled DEF ConfirmRelease, LeaseTypeOK, Checks
<1>17. ASSUME NEW r \in Runs, DeleteRef(r)
      PROVE  TypeInv'
  BY <1>1, <1>17
  DEF DeleteRef, Goto, Elsewhere, LeaseTypeOK
<1>18. ASSUME NEW r \in Runs, Acknowledge(r)
      PROVE  TypeInv'
  BY <1>1, <1>18
  DEF Acknowledge, SetCheck, Goto, Elsewhere, LeaseTypeOK
<1>19. ASSUME NEW r \in Runs, ReleaseRejected(r)
      PROVE  TypeInv'
  BY <1>1, <1>19
  DEF ReleaseRejected, Quarantine, SetLease, Reasons, Fencing, Elsewhere, LeaseTypeOK
<1>20. ASSUME NEW r \in Runs, FinishRelease(r)
      PROVE  TypeInv'
  BY <1>1, <1>20
  DEF FinishRelease, SetLease, LeaseDone, EndCycle, Elsewhere, LeaseTypeOK
<1>21. ASSUME NEW r \in Runs, ReleaseInvalid(r)
      PROVE  TypeInv'
  BY <1>1, <1>21
  DEF ReleaseInvalid, Quarantine, SetLease, Reasons, Fencing, Elsewhere, LeaseTypeOK
<1>22. ASSUME NEW r \in Runs, RecoverDelete(r)
      PROVE  TypeInv'
  BY <1>1, <1>22
  DEF RecoverDelete, Goto, EndCycle, Elsewhere, LeaseTypeOK
<1>23. ASSUME NEW r \in Runs, RecoverAcknowledge(r)
      PROVE  TypeInv'
  BY <1>1, <1>23
  DEF RecoverAcknowledge, SetCheck, Goto, Elsewhere, LeaseTypeOK
<1>24. ASSUME NEW r \in Runs, RecoverFinish(r)
      PROVE  TypeInv'
  BY <1>1, <1>24
  DEF RecoverFinish, SetLease, EndCycle, Elsewhere, LeaseTypeOK
<1> QED
  BY <1>2, <1>3, <1>4, <1>5, <1>6, <1>7, <1>8, <1>9, <1>10, <1>11, <1>12, <1>13, <1>14, <1>15,
  <1>16, <1>17, <1>18, <1>19, <1>20, <1>21, <1>22, <1>23, <1>24
  DEF LeaseSide, Leasing, Recovering

\* The admission and the settling of merges keep the types.
LEMMA MergingTypes ==
  ASSUME TypeInv, Merging, UNCHANGED leaseVars
  PROVE  TypeInv'
<1> USE BrokerAssumption, AdmissionAssumption
        DEF TypeInv, Judging, TypeOK, AtRun, AtRequest, AtCycle, baseVars, leaseVars,
        local, counters, flow, provider, Unseen, mergeVars,
        github
<1>1. LeaseTypeOK'
  BY DEF LeaseTypeOK
<1>2. ASSUME StartCycle
      PROVE  TypeInv'
  BY <1>1, <1>2
  DEF StartCycle, Goto, MergeTypeOK, Terminal
<1>3. ASSUME ListPulls
      PROVE  TypeInv'
  BY <1>1, <1>3
  DEF ListPulls, Journal, MergeTypeOK, Terminal
<1>4. ASSUME GatesClosed
      PROVE  TypeInv'
  BY <1>1, <1>4
  DEF GatesClosed, Journal, MergeTypeOK, Terminal
<1>5. ASSUME AdmissionLapses
      PROVE  TypeInv'
  BY <1>1, <1>5
  DEF AdmissionLapses, EndCycle, Journal, MergeTypeOK, Terminal
<1>6. ASSUME PullsDone
      PROVE  TypeInv'
  BY <1>1, <1>6
  DEF PullsDone, EndCycle, Journal, MergeTypeOK, Terminal
<1>7. ASSUME NEW p \in Pulls, CloseGate(p)
      PROVE  TypeInv'
  BY <1>1, <1>7
  DEF CloseGate, EnsureFailed, Journal, MergeTypeOK, Terminal
<1>8. ASSUME NEW p \in Pulls, PassPull(p)
      PROVE  TypeInv'
  BY <1>1, <1>8
  DEF PassPull, Journal, MergeTypeOK, Terminal
<1>9. ASSUME NEW q \in Requests, OrphanProved(q)
      PROVE  TypeInv'
  BY <1>1, <1>9
  DEF OrphanProved, Record, Journal, MergeTypeOK, Terminal
<1>10. ASSUME NEW q \in Requests, OrphanClosed(q)
      PROVE  TypeInv'
  BY <1>1, <1>10
  DEF OrphanClosed, EnsureFailed, Journal, MergeTypeOK, Terminal
<1>11. ASSUME NEW q \in Requests, OrphanDoubted(q)
      PROVE  TypeInv'
  BY <1>1, <1>11
  DEF OrphanDoubted, Record, Journal, MergeTypeOK, Terminal
<1>12. ASSUME NEW q \in Requests, Admit(q)
      PROVE  TypeInv'
  BY <1>1, <1>12
  DEF Admit, EndCycle, Journal, MergeTypeOK, Terminal
<1>13. ASSUME NEW q \in Requests, ReserveRequest(q)
      PROVE  TypeInv'
  BY <1>1, <1>13
  DEF ReserveRequest, Record, Goto, EndCycle, Journal, MergeTypeOK, Terminal
<1>14. ASSUME NEW q \in Requests, OpenGate(q)
      PROVE  TypeInv'
  BY <1>1, <1>14
  DEF OpenGate, Goto, MergeTypeOK, Terminal
<1>15. ASSUME NEW q \in Requests, SealAgain(q)
      PROVE  TypeInv'
  BY <1>1, <1>15
  DEF SealAgain, Goto, Journal, MergeTypeOK, Terminal
<1>16. ASSUME NEW q \in Requests, SendPut(q)
      PROVE  TypeInv'
  BY <1>1, <1>16
  DEF SendPut, Goto, MergeTypeOK, Terminal
<1>17. ASSUME NEW q \in Requests, PutRejected(q)
      PROVE  TypeInv'
  BY <1>1, <1>17
  DEF PutRejected, EnsureFailed, Goto, Answered, MergeTypeOK, Terminal
<1>18. ASSUME NEW q \in Requests, PutProved(q)
      PROVE  TypeInv'
  BY <1>1, <1>18
  DEF PutProved, Record, EndCycle, Answered, MergeTypeOK, Terminal
<1>19. ASSUME NEW q \in Requests, PutUnproved(q)
      PROVE  TypeInv'
  BY <1>1, <1>19
  DEF PutUnproved, EnsureFailed, Goto, Answered, MergeTypeOK, Terminal
<1>20. ASSUME NEW q \in Requests, Conclude(q)
      PROVE  TypeInv'
  BY <1>1, <1>20
  DEF Conclude, Record, EndCycle, Journal, MergeTypeOK, Terminal
<1> QED
  BY <1>2, <1>3, <1>4, <1>5, <1>6, <1>7, <1>8, <1>9, <1>10, <1>11, <1>12, <1>13, <1>14, <1>15,
  <1>16, <1>17, <1>18, <1>19, <1>20
  DEF Merging
\* What operators, reviewers and GitHub do keeps the types.
LEMMA EnvironmentTypes ==
  ASSUME TypeInv, Environment
  PROVE  TypeInv'
<1> USE BrokerAssumption, AdmissionAssumption
        DEF TypeInv, Judging, TypeOK, AtRun, AtRequest, AtCycle, baseVars, leaseVars, local,
            counters, flow,
        provider, Unseen, mergeVars, github
<1>1. CASE Workflow /\ UNCHANGED mergeVars
  BY <1>1, WorkflowTypes
<1>2. ASSUME NEW r \in Runs, Expire(r) \/ Tamper(r) \/ BeginRecovery(r), UNCHANGED mergeVars
      PROVE  TypeInv'
  <2>1. MergeTypeOK'
    BY <1>2 DEF MergeTypeOK
  <2>2. CASE Expire(r)
    BY <2>1, <2>2 DEF Expire, LeaseTypeOK
  <2>3. CASE Tamper(r)
    BY <2>1, <2>3 DEF Tamper, LeaseTypeOK
  <2>4. CASE BeginRecovery(r)
    BY <2>1, <2>4 DEF BeginRecovery, SetLease, Fencing, Elsewhere, LeaseTypeOK
  <2> QED
    BY <1>2, <2>2, <2>3, <2>4
<1>3. ASSUME NEW q \in Requests, Submit(q) \/ Waver(q) \/ ProviderMerge(q), UNCHANGED leaseVars
      PROVE  TypeInv'
  <2>1. LeaseTypeOK'
    BY <1>3 DEF LeaseTypeOK
  <2>2. CASE Submit(q)
    <3>1. offer' \in [Requests -> {"none", "live", "idle", "old"}]
      BY <2>2 DEF Submit, MergeTypeOK
    <3>2. base' \in [Requests -> Commits \cup {None}]
      BY <2>2 DEF Submit, MergeTypeOK
    <3> QED
      BY <1>3, <2>1, <2>2, <3>1, <3>2 DEF Submit, MergeTypeOK
  <2>3. CASE Waver(q)
    <3>1. offer' \in [Requests -> {"none", "live", "idle", "old"}]
      BY <2>3 DEF Waver, MergeTypeOK
    <3> QED
      BY <1>3, <2>1, <2>3, <3>1 DEF Waver, MergeTypeOK
  <2>4. CASE ProviderMerge(q)
    BY <1>3, <2>1, <2>4 DEF ProviderMerge, MergeTypeOK, Commits
  <2> QED
    BY <1>3, <2>2, <2>3, <2>4
<1>4. CASE Drift
  BY <1>4 DEF Drift, LeaseTypeOK, MergeTypeOK, Commits
<1> QED
  BY <1>1, <1>2, <1>3, <1>4 DEF Environment

\* A crash or a lost spool keeps the types: nothing of a cycle survives it.
LEMMA FaultTypes ==
  ASSUME TypeInv, Crash \/ SpoolLost \/ UNCHANGED vars
  PROVE  TypeInv'
<1> USE BrokerAssumption
        DEF TypeInv, Judging, TypeOK, AtRun, AtRequest, AtCycle, baseVars, leaseVars, local,
            counters, flow,
        provider, Unseen, mergeVars, github, LeaseTypeOK, MergeTypeOK
<1>1. CASE Crash
  BY <1>1 DEF Crash, EndCycle
<1>2. CASE SpoolLost
  BY <1>2 DEF SpoolLost, Blank
<1>3. CASE UNCHANGED vars
  BY <1>3 DEF vars
<1> QED
  BY <1>1, <1>2, <1>3

\* Every step of the specification keeps the types.
LEMMA StepTypes == TypeInv /\ [Next]_vars => TypeInv'
  BY LeaseTypes, MergingTypes, EnvironmentTypes, FaultTypes DEF Next, BrokerStep

\* The types hold of every state the specification reaches.
LEMMA TypesInvariant == Spec => []TypeInv
  BY InitTypes, StepTypes, PTL DEF Spec

\* The variables of the broker, of the workflow and of GitHub have their types, and the process
\* holds nothing between two cycles (run_once).
THEOREM TypeCorrect == Spec => []TypeOK
<1>1. TypeInv => TypeOK
  BY DEF TypeInv
<1> QED
  BY <1>1, TypesInvariant, PTL

-------------------------------------------------------------------------------
(* Leases *)

\* At first there is no lease, so nothing is claimed of one.
LEMMA LeaseInit0 == Init => LeaseInv
  BY DEF Init, LeaseInv, RunInv, CursorInv, TerminalProofs, FenceCoversProvider, LeaseInit, Blank,
         Untouched,
         Fence, Fencing, Releasing

\* After a reconciliation the process works on no lease.
LEMMA DonePlace ==
  ASSUME NEW f, LeaseDone(f)
  PROVE  pc' \in AtCycle /\ cursor' = None /\ seen' = Unseen
  BY DEF LeaseDone, EndCycle, AtCycle

\* A quarantine from anywhere leaves a lease that fences main.
LEMMA QuarantineLease ==
  ASSUME TypeInv, LeaseInv, NEW r \in Runs, NEW reason, Quarantine(r, reason), Elsewhere
  PROVE  LeaseInv'
  BY DEF LeaseInv, RunInv, CursorInv, TerminalProofs, FenceCoversProvider, Releasing, Fence,
         Fencing,
         Untouched, TypeInv, TypeOK, LeaseTypeOK, flow, counters, provider, Quarantine, SetLease,
         Elsewhere

\* How far a run comes is bound to its check run by the workflow itself.
LEMMA WorkflowLease ==
  ASSUME TypeInv, LeaseInv, Workflow, UNCHANGED mergeVars
  PROVE  LeaseInv'
<1> USE DEF LeaseInv, RunInv, CursorInv, TerminalProofs, FenceCoversProvider, Releasing, Fence,
            Fencing,
        Untouched, TypeInv, TypeOK, LeaseTypeOK, AtRun, AtRequest, AtCycle, baseVars, leaseVars,
        local,
        counters, flow, provider
<1>2. ASSUME NEW r \in Runs, NEW s \in Runs, Rerun(r, s)
      PROVE  LeaseInv'
  BY <1>2
  DEF Rerun, Steps
<1>3. ASSUME NEW r \in Runs, Dispatch(r)
      PROVE  LeaseInv'
  BY <1>3
  DEF Dispatch, Steps
<1>4. ASSUME NEW r \in Runs, BeginWait(r)
      PROVE  LeaseInv'
  BY <1>4
  DEF BeginWait, RunStep, Steps
<1>5. ASSUME NEW r \in Runs, Acquire(r)
      PROVE  LeaseInv'
  BY <1>5
  DEF Acquire, Asserted, Held, RunStep, Steps
<1>6. ASSUME NEW r \in Runs, Reassert(r)
      PROVE  LeaseInv'
  BY <1>6
  DEF Reassert, Asserted, Held, RunStep, Steps
<1>7. ASSUME NEW r \in Runs, Upload(r)
      PROVE  LeaseInv'
  BY <1>7
  DEF Upload, RunStep, Steps
<1>8. ASSUME NEW r \in Runs, Verified(r)
      PROVE  LeaseInv'
  BY <1>8
  DEF Verified, RunStep, Steps
<1>9. ASSUME NEW r \in Runs, ObserveRelease(r)
      PROVE  LeaseInv'
  BY <1>9
  DEF ObserveRelease, RunStep, Steps
<1>10. ASSUME NEW r \in Runs, RunFails(r)
      PROVE  LeaseInv'
  BY <1>10
  DEF RunFails, Running, RunStep, Steps
<1>11. ASSUME NEW r \in Runs, AssertFirst(r)
      PROVE  LeaseInv'
  BY <1>11
  DEF AssertFirst, Held
<1> QED
  BY <1>2, <1>3, <1>4, <1>5, <1>6, <1>7, <1>8, <1>9, <1>10, <1>11
  DEF Workflow

\* Every step of a lease finds the status its place calls for and leaves the next one.
LEMMA LeaseSideLease ==
  ASSUME TypeInv, LeaseInv, LeaseSide, UNCHANGED mergeVars
  PROVE  LeaseInv'
<1> USE DEF LeaseInv, RunInv, CursorInv, TerminalProofs, FenceCoversProvider, Releasing, Fence,
            Fencing,
        Untouched, TypeInv, TypeOK, LeaseTypeOK, AtRun, AtRequest, AtCycle, baseVars, leaseVars,
        local,
        counters, flow, provider
<1>2. ASSUME NoCandidate
      PROVE  LeaseInv'
  BY <1>2
  DEF NoCandidate, Elsewhere, LeaseDone, EndCycle
<1>3. ASSUME DiscoverRaises
      PROVE  LeaseInv'
  BY <1>3
  DEF DiscoverRaises, Elsewhere, LeaseRaises, EndCycle
<1>4. ASSUME RestoreRaises
      PROVE  LeaseInv'
  BY <1>4
  DEF RestoreRaises, Elsewhere, LeaseRaises, EndCycle
<1>5. ASSUME ActivateRaises
      PROVE  LeaseInv'
  BY <1>5
  DEF ActivateRaises, Elsewhere, LeaseRaises, EndCycle
<1>6. ASSUME NEW r \in Runs, Discover(r)
      PROVE  LeaseInv'
  BY <1>6
  DEF Discover, Elsewhere
<1>7. ASSUME NEW r \in Runs, Reserve(r)
      PROVE  LeaseInv'
  BY <1>7
  DEF Reserve, Reservable, SetLease, Fencing, Elsewhere
<1>8. ASSUME NEW r \in Runs, RestoreLease(r)
      PROVE  LeaseInv'
  BY <1>8
  DEF RestoreLease, Restorable, Blank, SetLease, Fencing, Elsewhere
<1>9. ASSUME NEW r \in Runs, HoldQuarantine(r)
      PROVE  LeaseInv'
  <2>1. pc' \in AtCycle
    BY <1>9, DonePlace DEF HoldQuarantine, EndCycle
  <2>2. lease[r].status = "quarantined" /\ UNCHANGED <<refs, lease, flow, lost>>
    BY <1>9 DEF HoldQuarantine, Elsewhere
  <2>3. \/ check' = check
        \/ check[r].status \in {"none", "active"} /\ SetCheck(r, "failure", lease[r].reason)
    BY <1>9 DEF HoldQuarantine
  <2>4. CASE check' = check
    BY <2>1, <2>2, <2>4
  <2>5. CASE check[r].status \in {"none", "active"} /\ SetCheck(r, "failure", lease[r].reason)
    BY <2>1, <2>2, <2>5 DEF SetCheck
  <2> QED
    BY <2>3, <2>4, <2>5
<1>10. ASSUME NEW r \in Runs, ReadLease(r)
      PROVE  LeaseInv'
  BY <1>10
  DEF ReadLease, PublishPhase, Phases, Elsewhere
<1>11. ASSUME NEW r \in Runs, Refuse(r)
      PROVE  LeaseInv'
  <2>1. CASE Quarantine(r, Ground(r))
    BY <1>11, <2>1, QuarantineLease DEF Refuse
  <2>2. CASE /\ lease[r].status = "creating" /\ Untouched(r)
             /\ SetLease(r, "abandoned", Ground(r)) /\ LeaseDone(FALSE) /\ UNCHANGED provider
    <3>1. pc' \in AtCycle
      BY <2>2, DonePlace
    <3> QED
      BY <1>11, <2>2, <3>1 DEF Refuse, SetLease, Elsewhere
  <2> QED
    BY <1>11, <2>1, <2>2 DEF Refuse
<1>12. ASSUME NEW r \in Runs, Proceed(r)
      PROVE  LeaseInv'
  <2>1. CASE Quarantine(r, "fence") \/ Quarantine(r, "run")
    BY <1>12, <2>1, QuarantineLease DEF Proceed
  <2>2. CASE /\ lease[r].status = "creating"
             /\ pc' = "activate" /\ UNCHANGED <<local, provider, lease, seen>>
    BY <1>12, <2>2 DEF Proceed, Accepted, Elsewhere
  <2>3. CASE /\ lease[r].status = "active"
             /\ pc' = "release" /\ UNCHANGED <<local, provider, lease, seen>>
    BY <1>12, <2>3 DEF Proceed, Accepted, Elsewhere
  <2>4. CASE LeaseDone(TRUE) /\ UNCHANGED <<provider, lease>>
    <3>1. pc' \in AtCycle
      BY <2>4, DonePlace
    <3> QED
      BY <1>12, <2>4, <3>1 DEF Proceed, Elsewhere
  <2> QED
    BY <1>12, <2>1, <2>2, <2>3, <2>4 DEF Proceed
<1>13. ASSUME NEW r \in Runs, CreateRef(r)
      PROVE  LeaseInv'
  BY <1>13
  DEF CreateRef, Elsewhere
<1>14. ASSUME NEW r \in Runs, CreateCheck(r)
      PROVE  LeaseInv'
  BY <1>14
  DEF CreateCheck, SetCheck, Elsewhere
<1>15. ASSUME NEW r \in Runs, SetActive(r)
      PROVE  LeaseInv'
  BY <1>15
  DEF SetActive, Held, SetLease, LeaseDone, EndCycle, Fencing, Elsewhere
<1>16. ASSUME NEW r \in Runs, ConfirmRelease(r)
      PROVE  LeaseInv'
  <2>1. CASE Quarantine(r, "run") \/ Quarantine(r, "authority")
    BY <1>16, <2>1, QuarantineLease DEF ConfirmRelease, PublishPhase
  <2>2. CASE /\ PublishPhase(r) = "reconciling" /\ main = sha[r]
             /\ SetLease(r, "releasing", None)
             /\ pc' = "unlock" /\ cursor' = r /\ UNCHANGED <<round, todo, provider, seen>>
    <3>1. step[r] = "observe"
      BY <2>2 DEF PublishPhase, Steps
    <3> QED
      BY <1>16, <2>2, <3>1 DEF ConfirmRelease, PublishPhase, SetLease, Elsewhere
  <2> QED
    BY <1>16, <2>1, <2>2 DEF ConfirmRelease, PublishPhase
<1>17. ASSUME NEW r \in Runs, DeleteRef(r)
      PROVE  LeaseInv'
  BY <1>17
  DEF DeleteRef, Goto, Elsewhere
<1>18. ASSUME NEW r \in Runs, Acknowledge(r)
      PROVE  LeaseInv'
  BY <1>18
  DEF Acknowledge, SetCheck, Goto, Elsewhere
<1>19. ASSUME NEW r \in Runs, ReleaseRejected(r)
      PROVE  LeaseInv'
  BY <1>19
  DEF ReleaseRejected, Quarantine, SetLease, Reasons, Fencing, Elsewhere
<1>20. ASSUME NEW r \in Runs, FinishRelease(r)
      PROVE  LeaseInv'
  BY <1>20
  DEF FinishRelease, SetLease, LeaseDone, EndCycle, Elsewhere
<1>21. ASSUME NEW r \in Runs, ReleaseInvalid(r)
      PROVE  LeaseInv'
  BY <1>21
  DEF ReleaseInvalid, Quarantine, SetLease, Reasons, Fencing, Elsewhere
<1>22. ASSUME NEW r \in Runs, RecoverDelete(r)
      PROVE  LeaseInv'
  BY <1>22
  DEF RecoverDelete, Goto, EndCycle, Elsewhere
<1>23. ASSUME NEW r \in Runs, RecoverAcknowledge(r)
      PROVE  LeaseInv'
  BY <1>23
  DEF RecoverAcknowledge, SetCheck, Goto, Elsewhere
<1>24. ASSUME NEW r \in Runs, RecoverFinish(r)
      PROVE  LeaseInv'
  BY <1>24
  DEF RecoverFinish, SetLease, EndCycle, Elsewhere
<1> QED
  BY <1>2, <1>3, <1>4, <1>5, <1>6, <1>7, <1>8, <1>9, <1>10, <1>11, <1>12, <1>13, <1>14, <1>15,
  <1>16, <1>17, <1>18, <1>19, <1>20, <1>21, <1>22, <1>23, <1>24
  DEF LeaseSide, Leasing, Recovering

\* The merge side never works on a lease, nor the lease's side on a request.
LEMMA MergingPlace == Merging => pc' \in AtCycle \cup AtRequest /\ UNCHANGED lost
  BY DEF Merging, StartCycle, ListPulls, GatesClosed, AdmissionLapses, PullsDone, CloseGate,
         PassPull,
         OrphanProved, OrphanClosed, OrphanDoubted, Admit, ReserveRequest, OpenGate, SealAgain,
         SendPut,
         PutRejected, PutProved, PutUnproved, Conclude, AtCycle, AtRequest, Goto, EndCycle, Journal,
         Answered, counters, local

\* Merges, faults and the environment leave what is claimed of leases true.
LEMMA OtherLease ==
  ASSUME TypeInv, LeaseInv,
         \/ Merging /\ UNCHANGED leaseVars
         \/ Environment \/ Crash \/ SpoolLost \/ UNCHANGED vars
  PROVE  LeaseInv'
<1> USE DEF LeaseInv, RunInv, CursorInv, TerminalProofs, FenceCoversProvider, Releasing, Fence,
            Fencing,
        Untouched, TypeInv, TypeOK, LeaseTypeOK, AtRun, AtRequest, AtCycle, baseVars, leaseVars,
        local,
        counters, flow, provider, mergeVars
<1>1. CASE Merging /\ UNCHANGED leaseVars
  BY <1>1, MergingPlace
<1>2. CASE Workflow /\ UNCHANGED mergeVars
  BY <1>2, WorkflowLease
<1>3. ASSUME NEW r \in Runs, Expire(r)
      PROVE  LeaseInv'
  BY <1>3 DEF Expire
<1>4. ASSUME NEW r \in Runs, Tamper(r)
      PROVE  LeaseInv'
  BY <1>4 DEF Tamper
<1>5. ASSUME NEW r \in Runs, BeginRecovery(r)
      PROVE  LeaseInv'
  BY <1>5 DEF BeginRecovery, SetLease, Elsewhere
<1>6. ASSUME NEW q \in Requests, Submit(q) \/ Waver(q) \/ ProviderMerge(q), UNCHANGED leaseVars
      PROVE  LeaseInv'
  BY <1>6 DEF Submit, Waver, ProviderMerge
<1>7. CASE Drift
  BY <1>7 DEF Drift
<1>8. CASE Crash
  BY <1>8 DEF Crash, EndCycle
<1>9. CASE SpoolLost
  BY <1>9 DEF SpoolLost, Blank
<1>10. CASE UNCHANGED vars
  BY <1>10 DEF vars
<1> QED
  BY <1>1, <1>2, <1>3, <1>4, <1>5, <1>6, <1>7, <1>8, <1>9, <1>10 DEF Environment

\* The invariant of leases is preserved by every step.
LEMMA LeaseStep == TypeInv /\ LeaseInv /\ [Next]_vars => LeaseInv'
  BY LeaseSideLease, OtherLease DEF Next, BrokerStep

\* The invariant of leases holds of every state the specification reaches.
LEMMA LeaseInvariant == Spec => []LeaseInv
  BY LeaseInit0, LeaseStep, TypesInvariant, PTL DEF Spec

\* A lease ends only released, after its upload was verified and with its ref gone, or abandoned
\* with nothing of it on GitHub (_release, _recover_creating_failure).
THEOREM LeasesEndProved == Spec => []TerminalProofs
<1>1. LeaseInv => TerminalProofs
  BY DEF LeaseInv
<1> QED
  BY <1>1, LeaseInvariant, PTL

\* As long as its table is not lost, the broker fences main for every lease that has a ref or a
\* check run in progress on GitHub.
THEOREM LeasesFenced == Spec => []FenceCoversProvider
<1>1. LeaseInv => FenceCoversProvider
  BY DEF LeaseInv
<1> QED
  BY <1>1, LeaseInvariant, PTL

-------------------------------------------------------------------------------
(* Merge requests *)

\* The lease side never takes the process to a place of the merge side but the pulls.
LEMMA LeasePlace == LeaseSide => pc' \notin AtRequest /\ UNCHANGED lost
  <1> USE DEF AtRequest, Elsewhere, counters, local
  <1>1. ASSUME NoCandidate PROVE pc' \notin AtRequest /\ UNCHANGED lost
    BY   <1>1 DEF NoCandidate, LeaseDone, EndCycle
  <1>2. ASSUME DiscoverRaises PROVE pc' \notin AtRequest /\ UNCHANGED lost
    BY   <1>2 DEF DiscoverRaises, LeaseRaises, EndCycle
  <1>3. ASSUME RestoreRaises PROVE pc' \notin AtRequest /\ UNCHANGED lost
    BY   <1>3 DEF RestoreRaises, LeaseRaises, EndCycle
  <1>4. ASSUME ActivateRaises PROVE pc' \notin AtRequest /\ UNCHANGED lost
    BY   <1>4 DEF ActivateRaises, LeaseRaises, EndCycle
  <1>5. ASSUME NEW r \in Runs, Discover(r) PROVE pc' \notin AtRequest /\ UNCHANGED lost
    BY   <1>5 DEF Discover
  <1>6. ASSUME NEW r \in Runs, Reserve(r) PROVE pc' \notin AtRequest /\ UNCHANGED lost
    BY   <1>6 DEF Reserve, SetLease
  <1>7. ASSUME NEW r \in Runs, RestoreLease(r) PROVE pc' \notin AtRequest /\ UNCHANGED lost
    BY   <1>7 DEF RestoreLease, SetLease
  <1>8. ASSUME NEW r \in Runs, HoldQuarantine(r) PROVE pc' \notin AtRequest /\ UNCHANGED lost
    BY   <1>8 DEF HoldQuarantine, SetCheck, LeaseDone, EndCycle
  <1>9. ASSUME NEW r \in Runs, ReadLease(r) PROVE pc' \notin AtRequest /\ UNCHANGED lost
    BY   <1>9 DEF ReadLease
  <1>10. ASSUME NEW r \in Runs, Refuse(r) PROVE pc' \notin AtRequest /\ UNCHANGED lost
    BY   <1>10 DEF Refuse, SetLease, Quarantine, LeaseDone, EndCycle
  <1>11. ASSUME NEW r \in Runs, Proceed(r) PROVE pc' \notin AtRequest /\ UNCHANGED lost
    BY   <1>11 DEF Proceed, Quarantine, SetLease, LeaseDone, EndCycle
  <1>12. ASSUME NEW r \in Runs, CreateRef(r) PROVE pc' \notin AtRequest /\ UNCHANGED lost
    BY   <1>12 DEF CreateRef
  <1>13. ASSUME NEW r \in Runs, CreateCheck(r) PROVE pc' \notin AtRequest /\ UNCHANGED lost
    BY   <1>13 DEF CreateCheck, SetCheck
  <1>14. ASSUME NEW r \in Runs, SetActive(r) PROVE pc' \notin AtRequest /\ UNCHANGED lost
    BY   <1>14 DEF SetActive, SetLease, LeaseDone, EndCycle
  <1>15. ASSUME NEW r \in Runs, ConfirmRelease(r) PROVE pc' \notin AtRequest /\ UNCHANGED lost
    BY   <1>15 DEF ConfirmRelease, AtRelease, SetLease, Quarantine
  <1>16. ASSUME NEW r \in Runs, DeleteRef(r) PROVE pc' \notin AtRequest /\ UNCHANGED lost
    BY   <1>16 DEF DeleteRef, Goto
  <1>17. ASSUME NEW r \in Runs, Acknowledge(r) PROVE pc' \notin AtRequest /\ UNCHANGED lost
    BY   <1>17 DEF Acknowledge, SetCheck, Goto
  <1>18. ASSUME NEW r \in Runs, ReleaseRejected(r) PROVE pc' \notin AtRequest /\ UNCHANGED lost
    BY   <1>18 DEF ReleaseRejected, Quarantine, SetLease
  <1>19. ASSUME NEW r \in Runs, FinishRelease(r) PROVE pc' \notin AtRequest /\ UNCHANGED lost
    BY   <1>19 DEF FinishRelease, SetLease, LeaseDone, EndCycle
  <1>20. ASSUME NEW r \in Runs, ReleaseInvalid(r) PROVE pc' \notin AtRequest /\ UNCHANGED lost
    BY   <1>20 DEF ReleaseInvalid, Quarantine, SetLease
  <1>21. ASSUME NEW r \in Runs, RecoverDelete(r) PROVE pc' \notin AtRequest /\ UNCHANGED lost
    BY   <1>21 DEF RecoverDelete, Goto, EndCycle
  <1>22. ASSUME NEW r \in Runs, RecoverAcknowledge(r) PROVE pc' \notin AtRequest /\ UNCHANGED lost
    BY   <1>22 DEF RecoverAcknowledge, SetCheck, Goto
  <1>23. ASSUME NEW r \in Runs, RecoverFinish(r) PROVE pc' \notin AtRequest /\ UNCHANGED lost
    BY   <1>23 DEF RecoverFinish, SetLease, EndCycle
  <1> QED
    BY <1>1, <1>2, <1>3, <1>4, <1>5, <1>6, <1>7, <1>8, <1>9, <1>10, <1>11, <1>12, <1>13, <1>14,
    <1>15, <1>16, <1>17, <1>18, <1>19, <1>20, <1>21, <1>22, <1>23
    DEF LeaseSide, Leasing, Recovering

\* At first every gate is closed.
LEMMA GateInit == Init => GateInv
  BY DEF Init, GateInv, GateIsJournaled, MergeInit

\* A gate is opened only under a request that is on record as merging, and closed before the
\* record goes.
LEMMA MergingGate ==
  ASSUME TypeInv, GateInv, Merging, UNCHANGED leaseVars
  PROVE  GateInv'
<1> USE BrokerAssumption, AdmissionAssumption
        DEF GateInv, GateIsJournaled, TypeInv, TypeOK, MergeTypeOK, AtRequest, AtRun, AtCycle,
            local,
        counters, github
<1>2. ASSUME StartCycle
      PROVE  GateInv'
  BY <1>2
  DEF mergeVars, StartCycle, Goto
<1>3. ASSUME ListPulls
      PROVE  GateInv'
  BY <1>3
  DEF ListPulls, Journal
<1>4. ASSUME GatesClosed
      PROVE  GateInv'
  BY <1>4
  DEF GatesClosed, Journal
<1>5. ASSUME AdmissionLapses
      PROVE  GateInv'
  BY <1>5
  DEF AdmissionLapses, EndCycle, Journal
<1>6. ASSUME PullsDone
      PROVE  GateInv'
  BY <1>6
  DEF PullsDone, EndCycle, Journal
<1>7. ASSUME NEW p \in Pulls, CloseGate(p)
      PROVE  GateInv'
  BY <1>7
  DEF CloseGate, EnsureFailed, Journal
<1>8. ASSUME NEW p \in Pulls, PassPull(p)
      PROVE  GateInv'
  BY <1>8
  DEF PassPull, Journal
<1>9. ASSUME NEW q \in Requests, OrphanProved(q)
      PROVE  GateInv'
  BY <1>9
  DEF OrphanProved, Record, Proof, Journal
<1>10. ASSUME NEW q \in Requests, OrphanClosed(q)
      PROVE  GateInv'
  BY <1>10
  DEF OrphanClosed, EnsureFailed, Journal
<1>11. ASSUME NEW q \in Requests, OrphanDoubted(q)
      PROVE  GateInv'
  BY <1>11
  DEF OrphanDoubted, Record, Journal
<1>12. ASSUME NEW q \in Requests, Admit(q)
      PROVE  GateInv'
  BY <1>12
  DEF Admit, EndCycle, Sealed, Selectable, OwnerGuard, Spent, Journal
<1>13. ASSUME NEW q \in Requests, ReserveRequest(q)
      PROVE  GateInv'
  BY <1>13
  DEF ReserveRequest, Record, Goto, EndCycle, Sealed, Selectable, OwnerGuard, Journal
<1>14. ASSUME NEW q \in Requests, OpenGate(q)
      PROVE  GateInv'
  BY <1>14
  DEF OpenGate, Goto
<1>15. ASSUME NEW q \in Requests, SealAgain(q)
      PROVE  GateInv'
  BY <1>15
  DEF SealAgain, Goto, Journal
<1>16. ASSUME NEW q \in Requests, SendPut(q)
      PROVE  GateInv'
  BY <1>16
  DEF SendPut, Goto
<1>17. ASSUME NEW q \in Requests, PutRejected(q)
      PROVE  GateInv'
  BY <1>17
  DEF PutRejected, EnsureFailed, Goto, Answered
<1>18. ASSUME NEW q \in Requests, PutProved(q)
      PROVE  GateInv'
  BY <1>18
  DEF PutProved, Record, EndCycle, Proof, Answered
<1>19. ASSUME NEW q \in Requests, PutUnproved(q)
      PROVE  GateInv'
  BY <1>19
  DEF PutUnproved, EnsureFailed, Goto, Answered
<1>20. ASSUME NEW q \in Requests, Conclude(q)
      PROVE  GateInv'
  BY <1>20
  DEF Conclude, Record, EndCycle, Journal
<1> QED
  BY <1>2, <1>3, <1>4, <1>5, <1>6, <1>7, <1>8, <1>9, <1>10, <1>11, <1>12, <1>13, <1>14, <1>15,
  <1>16, <1>17, <1>18, <1>19, <1>20
  DEF Merging

\* A request that was put once has left the requests that can be selected.
LEMMA MergingAttempt ==
  ASSUME TypeInv, AttemptInv, Merging, UNCHANGED leaseVars
  PROVE  AttemptInv'
<1> USE BrokerAssumption, AdmissionAssumption
        DEF AttemptInv, Retired, SameKind, TypeInv, TypeOK, MergeTypeOK, AtRequest, AtRun,
            AtCycle, local,
        counters, github
<1>2. ASSUME StartCycle
      PROVE  AttemptInv'
  BY <1>2
  DEF mergeVars, StartCycle, Goto, Selectable
<1>3. ASSUME ListPulls
      PROVE  AttemptInv'
  BY <1>3
  DEF ListPulls, Journal, Selectable
<1>4. ASSUME GatesClosed
      PROVE  AttemptInv'
  BY <1>4
  DEF GatesClosed, Journal, Selectable
<1>5. ASSUME AdmissionLapses
      PROVE  AttemptInv'
  BY <1>5
  DEF AdmissionLapses, EndCycle, Journal, Selectable
<1>6. ASSUME PullsDone
      PROVE  AttemptInv'
  BY <1>6
  DEF PullsDone, EndCycle, Journal, Selectable
<1>7. ASSUME NEW p \in Pulls, CloseGate(p)
      PROVE  AttemptInv'
  BY <1>7
  DEF CloseGate, EnsureFailed, Journal, Selectable
<1>8. ASSUME NEW p \in Pulls, PassPull(p)
      PROVE  AttemptInv'
  BY <1>8
  DEF PassPull, Journal, Selectable
<1>9. ASSUME NEW q \in Requests, OrphanProved(q)
      PROVE  AttemptInv'
  BY <1>9
  DEF OrphanProved, Record, Proof, Journal, Selectable
<1>10. ASSUME NEW q \in Requests, OrphanClosed(q)
      PROVE  AttemptInv'
  BY <1>10
  DEF OrphanClosed, EnsureFailed, Journal, Selectable
<1>11. ASSUME NEW q \in Requests, OrphanDoubted(q)
      PROVE  AttemptInv'
  BY <1>11
  DEF OrphanDoubted, Record, Journal, Selectable
<1>12. ASSUME NEW q \in Requests, Admit(q)
      PROVE  AttemptInv'
  BY <1>12
  DEF Admit, EndCycle, Sealed, Selectable, OwnerGuard, Spent, Journal, Selectable
<1>13. ASSUME NEW q \in Requests, ReserveRequest(q)
      PROVE  AttemptInv'
  BY <1>13
  DEF ReserveRequest, Record, Goto, EndCycle, Sealed, Selectable, OwnerGuard, Journal, Selectable
<1>14. ASSUME NEW q \in Requests, OpenGate(q)
      PROVE  AttemptInv'
  BY <1>14
  DEF OpenGate, Goto, Selectable
<1>15. ASSUME NEW q \in Requests, SealAgain(q)
      PROVE  AttemptInv'
  BY <1>15
  DEF SealAgain, Goto, Journal, Selectable
<1>16. ASSUME NEW q \in Requests, SendPut(q)
      PROVE  AttemptInv'
  BY <1>16
  DEF SendPut, Goto, Selectable
<1>17. ASSUME NEW q \in Requests, PutRejected(q)
      PROVE  AttemptInv'
  BY <1>17
  DEF PutRejected, EnsureFailed, Goto, Answered, Selectable
<1>18. ASSUME NEW q \in Requests, PutProved(q)
      PROVE  AttemptInv'
  BY <1>18
  DEF PutProved, Record, EndCycle, Proof, Answered, Selectable
<1>19. ASSUME NEW q \in Requests, PutUnproved(q)
      PROVE  AttemptInv'
  BY <1>19
  DEF PutUnproved, EnsureFailed, Goto, Answered, Selectable
<1>20. ASSUME NEW q \in Requests, Conclude(q)
      PROVE  AttemptInv'
  BY <1>20
  DEF Conclude, Record, EndCycle, Journal, Selectable
<1> QED
  BY <1>2, <1>3, <1>4, <1>5, <1>6, <1>7, <1>8, <1>9, <1>10, <1>11, <1>12, <1>13, <1>14, <1>15,
  <1>16, <1>17, <1>18, <1>19, <1>20
  DEF Merging

\* The workflow leaves the process and main where they are.
LEMMA WorkflowPlace == Workflow => UNCHANGED baseVars
  BY DEF Workflow, Rerun, Dispatch, BeginWait, AssertFirst, Acquire, Reassert, Upload, Verified,
         ObserveRelease, RunFails, RunStep

\* Leases, faults and the environment open no gate.
LEMMA OtherGate ==
  ASSUME TypeInv, GateInv,
         \/ LeaseSide /\ UNCHANGED mergeVars
         \/ Environment \/ Crash \/ SpoolLost \/ UNCHANGED vars
  PROVE  GateInv'
<1> USE BrokerAssumption, AdmissionAssumption
        DEF GateInv, GateIsJournaled, TypeInv, TypeOK, MergeTypeOK, AtRequest, AtRun, AtCycle,
            local,
        counters, baseVars, leaseVars, mergeVars, github
<1>1. CASE LeaseSide /\ UNCHANGED mergeVars
  BY <1>1, LeasePlace
<1>2. CASE Workflow /\ UNCHANGED mergeVars
  BY <1>2, WorkflowPlace
<1>3. ASSUME NEW r \in Runs, Expire(r) \/ Tamper(r) \/ BeginRecovery(r), UNCHANGED mergeVars
      PROVE  GateInv'
  BY <1>3 DEF Expire, Tamper, BeginRecovery, Elsewhere
<1>4. ASSUME NEW q \in Requests, Submit(q), UNCHANGED leaseVars
      PROVE  GateInv'
  BY <1>4 DEF Submit
<1>5. ASSUME NEW q \in Requests, Waver(q), UNCHANGED leaseVars
      PROVE  GateInv'
  BY <1>5 DEF Waver
<1>6. ASSUME NEW q \in Requests, ProviderMerge(q), UNCHANGED leaseVars
      PROVE  GateInv'
  BY <1>6 DEF ProviderMerge
<1>7. CASE Drift
  BY <1>7 DEF Drift
<1>8. CASE Crash
  BY <1>8 DEF Crash, EndCycle
<1>9. CASE SpoolLost
  BY <1>9 DEF SpoolLost
<1>10. CASE UNCHANGED vars
  BY <1>10 DEF vars
<1> QED
  BY <1>1, <1>2, <1>3, <1>4, <1>5, <1>6, <1>7, <1>8, <1>9, <1>10 DEF Environment

\* Nobody but the merge side puts a request, and no reviewer revives one.
LEMMA OtherAttempt ==
  ASSUME TypeInv, AttemptInv,
         \/ LeaseSide /\ UNCHANGED mergeVars
         \/ Environment \/ Crash \/ SpoolLost \/ UNCHANGED vars
  PROVE  AttemptInv'
<1> USE BrokerAssumption, AdmissionAssumption
        DEF AttemptInv, Retired, SameKind, TypeInv, TypeOK, MergeTypeOK, AtRequest, AtRun,
            AtCycle, local,
        counters, baseVars, leaseVars, mergeVars, github
<1>1. CASE LeaseSide /\ UNCHANGED mergeVars
  BY <1>1, LeasePlace
<1>2. CASE Workflow /\ UNCHANGED mergeVars
  BY <1>2, WorkflowPlace
<1>3. ASSUME NEW r \in Runs, Expire(r) \/ Tamper(r) \/ BeginRecovery(r), UNCHANGED mergeVars
      PROVE  AttemptInv'
  BY <1>3 DEF Expire, Tamper, BeginRecovery, Elsewhere
<1>4. ASSUME NEW q \in Requests, Submit(q), UNCHANGED leaseVars
      PROVE  AttemptInv'
  BY <1>4 DEF Submit
<1>5. ASSUME NEW q \in Requests, Waver(q), UNCHANGED leaseVars
      PROVE  AttemptInv'
  BY <1>5 DEF Waver
<1>6. ASSUME NEW q \in Requests, ProviderMerge(q), UNCHANGED leaseVars
      PROVE  AttemptInv'
  BY <1>6 DEF ProviderMerge
<1>7. CASE Drift
  BY <1>7 DEF Drift
<1>8. CASE Crash
  BY <1>8 DEF Crash, EndCycle
<1>9. CASE SpoolLost
  BY <1>9 DEF SpoolLost
<1>10. CASE UNCHANGED vars
  BY <1>10 DEF vars
<1> QED
  BY <1>1, <1>2, <1>3, <1>4, <1>5, <1>6, <1>7, <1>8, <1>9, <1>10 DEF Environment

\* At first no request was put.
LEMMA AttemptInit == Init => AttemptInv
  BY DEF Init, AttemptInv, MergeInit

\* The invariant of gates is preserved by every step.
LEMMA GateStep == TypeInv /\ GateInv /\ [Next]_vars => GateInv'
  BY MergingGate, OtherGate DEF Next, BrokerStep

\* The invariant of attempts is preserved by every step.
LEMMA AttemptStep == TypeInv /\ AttemptInv /\ [Next]_vars => AttemptInv'
  BY MergingAttempt, OtherAttempt DEF Next, BrokerStep

\* The invariant of attempts holds of every state the specification reaches.
LEMMA AttemptInvariant == Spec => []AttemptInv
  BY AttemptInit, AttemptStep, TypesInvariant, PTL DEF Spec

\* As long as the journal is not lost, a gate that would let an open pull in belongs to a request
\* that is recorded as merging (_process_pull), whatever crash came in between.
THEOREM OpenGatesJournaled == Spec => []GateIsJournaled
<1>1. Spec => []GateInv
  BY GateInit, GateStep, TypesInvariant, PTL DEF Spec
<1>2. GateInv => GateIsJournaled
  BY DEF GateInv, GateIsJournaled
<1> QED
  BY <1>1, <1>2, PTL

\* The merge call is sent at most once for a request, even by a broker whose journal was lost.
THEOREM MergeSentOnce == Spec => []OneAttempt
<1>1. AttemptInv => OneAttempt
  BY DEF AttemptInv, OneAttempt
<1> QED
  BY <1>1, AttemptInvariant, PTL

-------------------------------------------------------------------------------
(* The base of a merge *)

\* The lease's side comes to the places after the gates only from there.
LEMMA LeaseGated ==
  LeaseSide => pc' # "gates" /\ (pc' \in Gated => pc \in Gated) /\ UNCHANGED <<main, counters>>
  <1> USE DEF Gated, AtRun, Elsewhere, local
  <1>1. ASSUME NoCandidate
       PROVE  pc' # "gates" /\ (pc' \in Gated => pc \in Gated) /\ UNCHANGED <<main, counters>>
    BY <1>1 DEF NoCandidate, LeaseDone, EndCycle
  <1>2. ASSUME DiscoverRaises
       PROVE  pc' # "gates" /\ (pc' \in Gated => pc \in Gated) /\ UNCHANGED <<main, counters>>
    BY <1>2 DEF DiscoverRaises, LeaseRaises, EndCycle
  <1>3. ASSUME RestoreRaises
       PROVE  pc' # "gates" /\ (pc' \in Gated => pc \in Gated) /\ UNCHANGED <<main, counters>>
    BY <1>3 DEF RestoreRaises, LeaseRaises, EndCycle
  <1>4. ASSUME ActivateRaises
       PROVE  pc' # "gates" /\ (pc' \in Gated => pc \in Gated) /\ UNCHANGED <<main, counters>>
    BY <1>4 DEF ActivateRaises, LeaseRaises, EndCycle
  <1>5. ASSUME NEW r \in Runs, Discover(r)
       PROVE  pc' # "gates" /\ (pc' \in Gated => pc \in Gated) /\ UNCHANGED <<main, counters>>
    BY <1>5 DEF Discover
  <1>6. ASSUME NEW r \in Runs, Reserve(r)
       PROVE  pc' # "gates" /\ (pc' \in Gated => pc \in Gated) /\ UNCHANGED <<main, counters>>
    BY <1>6 DEF Reserve, SetLease
  <1>7. ASSUME NEW r \in Runs, RestoreLease(r)
       PROVE  pc' # "gates" /\ (pc' \in Gated => pc \in Gated) /\ UNCHANGED <<main, counters>>
    BY <1>7 DEF RestoreLease, SetLease
  <1>8. ASSUME NEW r \in Runs, HoldQuarantine(r)
       PROVE  pc' # "gates" /\ (pc' \in Gated => pc \in Gated) /\ UNCHANGED <<main, counters>>
    BY <1>8 DEF HoldQuarantine, SetCheck, LeaseDone, EndCycle
  <1>9. ASSUME NEW r \in Runs, ReadLease(r)
       PROVE  pc' # "gates" /\ (pc' \in Gated => pc \in Gated) /\ UNCHANGED <<main, counters>>
    BY <1>9 DEF ReadLease
  <1>10. ASSUME NEW r \in Runs, Refuse(r)
       PROVE  pc' # "gates" /\ (pc' \in Gated => pc \in Gated) /\ UNCHANGED <<main, counters>>
    BY <1>10 DEF Refuse, SetLease, Quarantine, LeaseDone, EndCycle
  <1>11. ASSUME NEW r \in Runs, Proceed(r)
       PROVE  pc' # "gates" /\ (pc' \in Gated => pc \in Gated) /\ UNCHANGED <<main, counters>>
    BY <1>11 DEF Proceed, Quarantine, SetLease, LeaseDone, EndCycle, Accepted
  <1>12. ASSUME NEW r \in Runs, CreateRef(r)
       PROVE  pc' # "gates" /\ (pc' \in Gated => pc \in Gated) /\ UNCHANGED <<main, counters>>
    BY <1>12 DEF CreateRef
  <1>13. ASSUME NEW r \in Runs, CreateCheck(r)
       PROVE  pc' # "gates" /\ (pc' \in Gated => pc \in Gated) /\ UNCHANGED <<main, counters>>
    BY <1>13 DEF CreateCheck, SetCheck
  <1>14. ASSUME NEW r \in Runs, SetActive(r)
       PROVE  pc' # "gates" /\ (pc' \in Gated => pc \in Gated) /\ UNCHANGED <<main, counters>>
    BY <1>14 DEF SetActive, SetLease, LeaseDone, EndCycle
  <1>15. ASSUME NEW r \in Runs, ConfirmRelease(r)
       PROVE  pc' # "gates" /\ (pc' \in Gated => pc \in Gated) /\ UNCHANGED <<main, counters>>
    BY <1>15 DEF ConfirmRelease, AtRelease, SetLease, Quarantine
  <1>16. ASSUME NEW r \in Runs, DeleteRef(r)
       PROVE  pc' # "gates" /\ (pc' \in Gated => pc \in Gated) /\ UNCHANGED <<main, counters>>
    BY <1>16 DEF DeleteRef, Goto
  <1>17. ASSUME NEW r \in Runs, Acknowledge(r)
       PROVE  pc' # "gates" /\ (pc' \in Gated => pc \in Gated) /\ UNCHANGED <<main, counters>>
    BY <1>17 DEF Acknowledge, SetCheck, Goto
  <1>18. ASSUME NEW r \in Runs, ReleaseRejected(r)
       PROVE  pc' # "gates" /\ (pc' \in Gated => pc \in Gated) /\ UNCHANGED <<main, counters>>
    BY <1>18 DEF ReleaseRejected, Quarantine, SetLease
  <1>19. ASSUME NEW r \in Runs, FinishRelease(r)
       PROVE  pc' # "gates" /\ (pc' \in Gated => pc \in Gated) /\ UNCHANGED <<main, counters>>
    BY <1>19 DEF FinishRelease, SetLease, LeaseDone, EndCycle
  <1>20. ASSUME NEW r \in Runs, ReleaseInvalid(r)
       PROVE  pc' # "gates" /\ (pc' \in Gated => pc \in Gated) /\ UNCHANGED <<main, counters>>
    BY <1>20 DEF ReleaseInvalid, Quarantine, SetLease
  <1>21. ASSUME NEW r \in Runs, RecoverDelete(r)
       PROVE  pc' # "gates" /\ (pc' \in Gated => pc \in Gated) /\ UNCHANGED <<main, counters>>
    BY <1>21 DEF RecoverDelete, Goto, EndCycle
  <1>22. ASSUME NEW r \in Runs, RecoverAcknowledge(r)
       PROVE  pc' # "gates" /\ (pc' \in Gated => pc \in Gated) /\ UNCHANGED <<main, counters>>
    BY <1>22 DEF RecoverAcknowledge, SetCheck, Goto
  <1>23. ASSUME NEW r \in Runs, RecoverFinish(r)
       PROVE  pc' # "gates" /\ (pc' \in Gated => pc \in Gated) /\ UNCHANGED <<main, counters>>
    BY <1>23 DEF RecoverFinish, SetLease, EndCycle
  <1> QED
    BY <1>1, <1>2, <1>3, <1>4, <1>5, <1>6, <1>7, <1>8, <1>9, <1>10, <1>11, <1>12, <1>13, <1>14,
    <1>15, <1>16, <1>17, <1>18, <1>19, <1>20, <1>21, <1>22, <1>23
    DEF LeaseSide, Leasing, Recovering

\* A merge request is let in only on the commit it was made on.
LEMMA MergingBase ==
  ASSUME TypeInv, AttemptInv, BaseInv, Merging, UNCHANGED leaseVars
  PROVE  BaseInv'
<1> USE BrokerAssumption, AdmissionAssumption
        DEF AttemptInv, BaseInv, MergedOnBase, Gated, TypeInv, TypeOK, MergeTypeOK, AtRequest,
            AtRun,
        AtCycle, local, counters, github
<1>2. ASSUME StartCycle
      PROVE  BaseInv'
  BY <1>2
  DEF mergeVars, StartCycle, Goto, Known, LetsIn
<1>3. ASSUME ListPulls
      PROVE  BaseInv'
  BY <1>3
  DEF ListPulls, Journal, Known, LetsIn
<1>4. ASSUME GatesClosed
      PROVE  BaseInv'
  BY <1>4
  DEF GatesClosed, Journal, Known, LetsIn
<1>5. ASSUME AdmissionLapses
      PROVE  BaseInv'
  BY <1>5
  DEF AdmissionLapses, EndCycle, Journal, Known, LetsIn
<1>6. ASSUME PullsDone
      PROVE  BaseInv'
  BY <1>6
  DEF PullsDone, EndCycle, Journal, Known, LetsIn
<1>7. ASSUME NEW p \in Pulls, CloseGate(p)
      PROVE  BaseInv'
  BY <1>7
  DEF CloseGate, EnsureFailed, Journal, Known, LetsIn
<1>8. ASSUME NEW p \in Pulls, PassPull(p)
      PROVE  BaseInv'
  BY <1>8
  DEF PassPull, Journal, Known, LetsIn
<1>9. ASSUME NEW q \in Requests, OrphanProved(q)
      PROVE  BaseInv'
  BY <1>9
  DEF OrphanProved, Record, Proof, Journal, Known, LetsIn
<1>10. ASSUME NEW q \in Requests, OrphanClosed(q)
      PROVE  BaseInv'
  BY <1>10
  DEF OrphanClosed, EnsureFailed, Journal, Known, LetsIn
<1>11. ASSUME NEW q \in Requests, OrphanDoubted(q)
      PROVE  BaseInv'
  BY <1>11
  DEF OrphanDoubted, Record, Journal, Known, LetsIn
<1>12. ASSUME NEW q \in Requests, Admit(q)
      PROVE  BaseInv'
  BY <1>12
  DEF Admit, EndCycle, Sealed, Selectable, OwnerGuard, Spent, Journal, Known, LetsIn
<1>13. ASSUME NEW q \in Requests, ReserveRequest(q)
      PROVE  BaseInv'
  BY <1>13
  DEF ReserveRequest, Record, Goto, EndCycle, Sealed, Selectable, OwnerGuard, Journal, Known,
  LetsIn
<1>14. ASSUME NEW q \in Requests, OpenGate(q)
      PROVE  BaseInv'
  BY <1>14
  DEF OpenGate, Goto, Known, LetsIn
<1>15. ASSUME NEW q \in Requests, SealAgain(q)
      PROVE  BaseInv'
  BY <1>15
  DEF SealAgain, Goto, Journal, Known, LetsIn
<1>16. ASSUME NEW q \in Requests, SendPut(q)
      PROVE  BaseInv'
  BY <1>16
  DEF SendPut, Goto, Known, LetsIn
<1>17. ASSUME NEW q \in Requests, PutRejected(q)
      PROVE  BaseInv'
  BY <1>17
  DEF PutRejected, EnsureFailed, Goto, Answered, Known, LetsIn
<1>18. ASSUME NEW q \in Requests, PutProved(q)
      PROVE  BaseInv'
  BY <1>18
  DEF PutProved, Record, EndCycle, Proof, Answered, Known, LetsIn
<1>19. ASSUME NEW q \in Requests, PutUnproved(q)
      PROVE  BaseInv'
  BY <1>19
  DEF PutUnproved, EnsureFailed, Goto, Answered, Known, LetsIn
<1>20. ASSUME NEW q \in Requests, Conclude(q)
      PROVE  BaseInv'
  BY <1>20
  DEF Conclude, Record, EndCycle, Journal, Known, LetsIn
<1> QED
  BY <1>2, <1>3, <1>4, <1>5, <1>6, <1>7, <1>8, <1>9, <1>10, <1>11, <1>12, <1>13, <1>14, <1>15,
  <1>16, <1>17, <1>18, <1>19, <1>20
  DEF Merging

\* Leases, faults and the environment let nothing in.
LEMMA OtherBase ==
  ASSUME TypeInv, AttemptInv, BaseInv,
         \/ LeaseSide /\ UNCHANGED mergeVars
         \/ Environment \/ Crash \/ SpoolLost \/ UNCHANGED vars
  PROVE  BaseInv'
<1> USE BrokerAssumption, AdmissionAssumption
        DEF BaseInv, MergedOnBase, Gated, LetsIn, Known, TypeInv, TypeOK, MergeTypeOK, AtRequest,
            AtRun,
        AtCycle, local, counters, baseVars, leaseVars, mergeVars, github
<1>1. CASE LeaseSide /\ UNCHANGED mergeVars
  BY <1>1, LeaseGated, LeasePlace
<1>2. CASE Workflow /\ UNCHANGED mergeVars
  BY <1>2, WorkflowPlace
<1>3. ASSUME NEW r \in Runs, Expire(r) \/ Tamper(r) \/ BeginRecovery(r), UNCHANGED mergeVars
      PROVE  BaseInv'
  BY <1>3 DEF Expire, Tamper, BeginRecovery, Elsewhere
<1>4. ASSUME NEW q \in Requests, Submit(q), UNCHANGED leaseVars
      PROVE  BaseInv'
  BY <1>4 DEF Submit, AttemptInv
<1>5. ASSUME NEW q \in Requests, Waver(q), UNCHANGED leaseVars
      PROVE  BaseInv'
  BY <1>5 DEF Waver
<1>6. ASSUME NEW q \in Requests, ProviderMerge(q), UNCHANGED leaseVars
      PROVE  BaseInv'
  BY <1>6 DEF ProviderMerge
<1>7. CASE Drift
  BY <1>7 DEF Drift
<1>8. CASE Crash
  BY <1>8 DEF Crash, EndCycle
<1>9. CASE SpoolLost
  BY <1>9 DEF SpoolLost
<1>10. CASE UNCHANGED vars
  BY <1>10 DEF vars
<1> QED
  BY <1>1, <1>2, <1>3, <1>4, <1>5, <1>6, <1>7, <1>8, <1>9, <1>10 DEF Environment

\* At first nothing is merged and no gate is open.
LEMMA BaseInit == Init => BaseInv
  BY BrokerAssumption DEF Init, MergeInit, BaseInv, MergedOnBase, LetsIn, Gated, AtRun

\* The invariant of merge bases is preserved by every step.
LEMMA BaseStep == TypeInv /\ AttemptInv /\ BaseInv /\ [Next]_vars => BaseInv'
  BY MergingBase, OtherBase DEF Next, BrokerStep

\* The invariant of merge bases holds of every state the specification reaches.
LEMMA BaseInvariant == Spec => []BaseInv
  BY BaseInit, BaseStep, AttemptInvariant, TypesInvariant, PTL DEF Spec

\* A pull goes in on the main its request was made on, however late the merge call arrives.
THEOREM MergesOnBase == Spec => []MergedOnBase
<1>1. BaseInv => MergedOnBase
  BY DEF BaseInv
<1> QED
  BY <1>1, BaseInvariant, PTL

-------------------------------------------------------------------------------
(* main while a lease is held *)

\* A gate is open, or may be opened before the gates are closed again.
Letting == pc \in {"pulls", "seal", "open"} \/ (\E p \in Pulls : LetsIn(p))

\* The merge side lets nothing in that could not be let in before.
LEMMA MergingLetting ==
  ASSUME TypeInv, Merging, UNCHANGED leaseVars
  PROVE  UNCHANGED <<lost, drift>> /\ pc' # "reserve" /\ (Letting' => Letting)
<1> USE BrokerAssumption, AdmissionAssumption
        DEF Letting, LetsIn, TypeInv, TypeOK, MergeTypeOK, AtRequest, AtRun, AtCycle, local,
            counters, github
<1>2. ASSUME StartCycle
      PROVE  UNCHANGED <<lost, drift>> /\ pc' # "reserve" /\ (Letting' => Letting)
  BY <1>2
  DEF StartCycle, Goto, mergeVars
<1>3. ASSUME ListPulls
      PROVE  UNCHANGED <<lost, drift>> /\ pc' # "reserve" /\ (Letting' => Letting)
  BY <1>3
  DEF ListPulls, Journal
<1>4. ASSUME GatesClosed
      PROVE  UNCHANGED <<lost, drift>> /\ pc' # "reserve" /\ (Letting' => Letting)
  BY <1>4
  DEF GatesClosed, Journal
<1>5. ASSUME AdmissionLapses
      PROVE  UNCHANGED <<lost, drift>> /\ pc' # "reserve" /\ (Letting' => Letting)
  BY <1>5
  DEF AdmissionLapses, EndCycle, Journal
<1>6. ASSUME PullsDone
      PROVE  UNCHANGED <<lost, drift>> /\ pc' # "reserve" /\ (Letting' => Letting)
  BY <1>6
  DEF PullsDone, EndCycle, Journal
<1>7. ASSUME NEW p \in Pulls, CloseGate(p)
      PROVE  UNCHANGED <<lost, drift>> /\ pc' # "reserve" /\ (Letting' => Letting)
  BY <1>7
  DEF CloseGate, EnsureFailed, Journal
<1>8. ASSUME NEW p \in Pulls, PassPull(p)
      PROVE  UNCHANGED <<lost, drift>> /\ pc' # "reserve" /\ (Letting' => Letting)
  BY <1>8
  DEF PassPull, Journal
<1>9. ASSUME NEW q \in Requests, OrphanProved(q)
      PROVE  UNCHANGED <<lost, drift>> /\ pc' # "reserve" /\ (Letting' => Letting)
  BY <1>9
  DEF OrphanProved, Record, Journal
<1>10. ASSUME NEW q \in Requests, OrphanClosed(q)
      PROVE  UNCHANGED <<lost, drift>> /\ pc' # "reserve" /\ (Letting' => Letting)
  BY <1>10
  DEF OrphanClosed, EnsureFailed, Journal
<1>11. ASSUME NEW q \in Requests, OrphanDoubted(q)
      PROVE  UNCHANGED <<lost, drift>> /\ pc' # "reserve" /\ (Letting' => Letting)
  BY <1>11
  DEF OrphanDoubted, Record, Journal
<1>12. ASSUME NEW q \in Requests, Admit(q)
      PROVE  UNCHANGED <<lost, drift>> /\ pc' # "reserve" /\ (Letting' => Letting)
  BY <1>12
  DEF Admit, EndCycle, Journal
<1>13. ASSUME NEW q \in Requests, ReserveRequest(q)
      PROVE  UNCHANGED <<lost, drift>> /\ pc' # "reserve" /\ (Letting' => Letting)
  BY <1>13
  DEF ReserveRequest, Record, Goto, EndCycle, Journal
<1>14. ASSUME NEW q \in Requests, OpenGate(q)
      PROVE  UNCHANGED <<lost, drift>> /\ pc' # "reserve" /\ (Letting' => Letting)
  BY <1>14
  DEF OpenGate, Goto
<1>15. ASSUME NEW q \in Requests, SealAgain(q)
      PROVE  UNCHANGED <<lost, drift>> /\ pc' # "reserve" /\ (Letting' => Letting)
  BY <1>15
  DEF SealAgain, Goto, Journal
<1>16. ASSUME NEW q \in Requests, SendPut(q)
      PROVE  UNCHANGED <<lost, drift>> /\ pc' # "reserve" /\ (Letting' => Letting)
  BY <1>16
  DEF SendPut, Goto
<1>17. ASSUME NEW q \in Requests, PutRejected(q)
      PROVE  UNCHANGED <<lost, drift>> /\ pc' # "reserve" /\ (Letting' => Letting)
  BY <1>17
  DEF PutRejected, EnsureFailed, Goto, Answered
<1>18. ASSUME NEW q \in Requests, PutProved(q)
      PROVE  UNCHANGED <<lost, drift>> /\ pc' # "reserve" /\ (Letting' => Letting)
  BY <1>18
  DEF PutProved, Record, EndCycle, Answered
<1>19. ASSUME NEW q \in Requests, PutUnproved(q)
      PROVE  UNCHANGED <<lost, drift>> /\ pc' # "reserve" /\ (Letting' => Letting)
  BY <1>19
  DEF PutUnproved, EnsureFailed, Goto, Answered
<1>20. ASSUME NEW q \in Requests, Conclude(q)
      PROVE  UNCHANGED <<lost, drift>> /\ pc' # "reserve" /\ (Letting' => Letting)
  BY <1>20
  DEF Conclude, Record, EndCycle, Journal
<1> QED
  BY <1>2, <1>3, <1>4, <1>5, <1>6, <1>7, <1>8, <1>9, <1>10, <1>11, <1>12, <1>13, <1>14, <1>15,
  <1>16, <1>17, <1>18, <1>19, <1>20
  DEF Merging

\* A run acquires only what the broker created, so whoever is guarded is fenced.
LEMMA WorkflowMain ==
  ASSUME TypeInv, LeaseInv, MainInv, Workflow, UNCHANGED mergeVars
  PROVE  MainInv'
<1> USE DEF MainInv, Letting, Guarded, Forgotten, LeaseInv, RunInv, CursorInv, TerminalProofs,
        FenceCoversProvider, Releasing, Fence, Fencing, Untouched, TypeInv, TypeOK, LeaseTypeOK,
        AtRun,
        AtRequest, AtCycle, baseVars, leaseVars, mergeVars, local, counters, flow, provider,
        github, LetsIn
<1>2. ASSUME NEW r \in Runs, NEW s \in Runs, Rerun(r, s)
      PROVE  MainInv'
  BY <1>2
  DEF Rerun, Steps
<1>3. ASSUME NEW r \in Runs, Dispatch(r)
      PROVE  MainInv'
  BY <1>3
  DEF Dispatch, Steps
<1>4. ASSUME NEW r \in Runs, BeginWait(r)
      PROVE  MainInv'
  BY <1>4
  DEF BeginWait, RunStep, Steps
<1>5. ASSUME NEW r \in Runs, Acquire(r)
      PROVE  MainInv'
  BY <1>5
  DEF Acquire, RunStep, Steps, Asserted, Held
<1>6. ASSUME NEW r \in Runs, Reassert(r)
      PROVE  MainInv'
  BY <1>6
  DEF Reassert, RunStep, Steps, Asserted, Held
<1>7. ASSUME NEW r \in Runs, Upload(r)
      PROVE  MainInv'
  BY <1>7
  DEF Upload, RunStep, Steps
<1>8. ASSUME NEW r \in Runs, Verified(r)
      PROVE  MainInv'
  BY <1>8
  DEF Verified, RunStep, Steps
<1>9. ASSUME NEW r \in Runs, ObserveRelease(r)
      PROVE  MainInv'
  BY <1>9
  DEF ObserveRelease, RunStep, Steps
<1>10. ASSUME NEW r \in Runs, RunFails(r)
      PROVE  MainInv'
  BY <1>10
  DEF RunFails, RunStep, Steps, Running
<1>11. ASSUME NEW r \in Runs, AssertFirst(r)
      PROVE  MainInv'
  BY <1>11
  DEF AssertFirst, Held
<1> QED
  BY <1>2, <1>3, <1>4, <1>5, <1>6, <1>7, <1>8, <1>9, <1>10, <1>11
  DEF Workflow

\* A lease is created only when there is none, and let go only with its release announced.
LEMMA LeaseSideMain ==
  ASSUME TypeInv, LeaseInv, BaseInv, MainInv, LeaseSide, UNCHANGED mergeVars
  PROVE  MainInv'
<1> USE DEF MainInv, Letting, Guarded, Forgotten, LeaseInv, RunInv, CursorInv, TerminalProofs,
        FenceCoversProvider, Releasing, Fence, Fencing, Untouched, TypeInv, TypeOK, LeaseTypeOK,
        AtRun,
        AtRequest, AtCycle, baseVars, leaseVars, mergeVars, local, counters, flow, provider,
        github, LetsIn
<1>1. pc \in Gated => \A p \in Pulls : ~LetsIn(p)
  BY DEF BaseInv
<1> USE DEF Gated
<1>2. ASSUME NoCandidate
      PROVE  MainInv'
  BY <1>1, <1>2
  DEF NoCandidate, Elsewhere, LeaseDone, EndCycle
<1>3. ASSUME DiscoverRaises
      PROVE  MainInv'
  BY <1>1, <1>3
  DEF DiscoverRaises, Elsewhere, LeaseRaises, EndCycle
<1>4. ASSUME RestoreRaises
      PROVE  MainInv'
  BY <1>1, <1>4
  DEF RestoreRaises, Elsewhere, LeaseRaises, EndCycle
<1>5. ASSUME ActivateRaises
      PROVE  MainInv'
  BY <1>1, <1>5
  DEF ActivateRaises, Elsewhere, LeaseRaises, EndCycle
<1>6. ASSUME NEW r \in Runs, Discover(r)
      PROVE  MainInv'
  BY <1>1, <1>6
  DEF Discover, Elsewhere
<1>7. ASSUME NEW r \in Runs, Reserve(r)
      PROVE  MainInv'
  BY <1>1, <1>7
  DEF Reserve, SetLease, Fencing, Elsewhere, Reservable
<1>8. ASSUME NEW r \in Runs, RestoreLease(r)
      PROVE  MainInv'
  BY <1>1, <1>8
  DEF RestoreLease, SetLease, Fencing, Elsewhere, Restorable, Blank
<1>9. ASSUME NEW r \in Runs, HoldQuarantine(r)
      PROVE  MainInv'
  BY <1>1, <1>9
  DEF HoldQuarantine, SetCheck, LeaseDone, EndCycle, Elsewhere
<1>10. ASSUME NEW r \in Runs, ReadLease(r)
      PROVE  MainInv'
  BY <1>1, <1>10
  DEF ReadLease, PublishPhase, Phases, Elsewhere
<1>11. ASSUME NEW r \in Runs, Refuse(r)
      PROVE  MainInv'
  BY <1>1, <1>11
  DEF Refuse, SetLease, Quarantine, LeaseDone, Ground, Reasons, Fencing, EndCycle, Elsewhere
<1>12. ASSUME NEW r \in Runs, Proceed(r)
      PROVE  MainInv'
  BY <1>1, <1>12
  DEF Proceed, Quarantine, SetLease, LeaseDone, EndCycle, Reasons, Fencing, Elsewhere, Accepted,
  Held
<1>13. ASSUME NEW r \in Runs, CreateRef(r)
      PROVE  MainInv'
  BY <1>1, <1>13
  DEF CreateRef, Elsewhere
<1>14. ASSUME NEW r \in Runs, CreateCheck(r)
      PROVE  MainInv'
  BY <1>1, <1>14
  DEF CreateCheck, SetCheck, Elsewhere
<1>15. ASSUME NEW r \in Runs, SetActive(r)
      PROVE  MainInv'
  BY <1>1, <1>15
  DEF SetActive, SetLease, LeaseDone, EndCycle, Fencing, Elsewhere, Held
<1>16. ASSUME NEW r \in Runs, ConfirmRelease(r)
      PROVE  MainInv'
  BY <1>1, <1>16
  DEF ConfirmRelease, AtRelease, SetLease, Quarantine, Reasons, Fencing, Elsewhere, PublishPhase
<1>17. ASSUME NEW r \in Runs, DeleteRef(r)
      PROVE  MainInv'
  BY <1>1, <1>17
  DEF DeleteRef, Goto, Elsewhere
<1>18. ASSUME NEW r \in Runs, Acknowledge(r)
      PROVE  MainInv'
  BY <1>1, <1>18
  DEF Acknowledge, SetCheck, Goto, Elsewhere
<1>19. ASSUME NEW r \in Runs, ReleaseRejected(r)
      PROVE  MainInv'
  BY <1>1, <1>19
  DEF ReleaseRejected, Quarantine, SetLease, Reasons, Fencing, Elsewhere
<1>20. ASSUME NEW r \in Runs, FinishRelease(r)
      PROVE  MainInv'
  BY <1>1, <1>20
  DEF FinishRelease, SetLease, LeaseDone, EndCycle, Elsewhere
<1>21. ASSUME NEW r \in Runs, ReleaseInvalid(r)
      PROVE  MainInv'
  BY <1>1, <1>21
  DEF ReleaseInvalid, Quarantine, SetLease, Reasons, Fencing, Elsewhere
<1>22. ASSUME NEW r \in Runs, RecoverDelete(r)
      PROVE  MainInv'
  BY <1>1, <1>22
  DEF RecoverDelete, Goto, EndCycle, Elsewhere
<1>23. ASSUME NEW r \in Runs, RecoverAcknowledge(r)
      PROVE  MainInv'
  BY <1>1, <1>23
  DEF RecoverAcknowledge, SetCheck, Goto, Elsewhere
<1>24. ASSUME NEW r \in Runs, RecoverFinish(r)
      PROVE  MainInv'
  BY <1>1, <1>24
  DEF RecoverFinish, SetLease, EndCycle, Elsewhere
<1> QED
  BY <1>2, <1>3, <1>4, <1>5, <1>6, <1>7, <1>8, <1>9, <1>10, <1>11, <1>12, <1>13, <1>14, <1>15,
  <1>16, <1>17, <1>18, <1>19, <1>20, <1>21, <1>22, <1>23, <1>24
  DEF LeaseSide, Leasing, Recovering

\* Faults and the environment neither release a lease nor let a merge in beside one.
LEMMA OtherMain ==
  ASSUME TypeInv, LeaseInv, MainInv, Environment \/ Crash \/ SpoolLost \/ UNCHANGED vars
  PROVE  MainInv'
<1> USE DEF MainInv, Letting, Guarded, Forgotten, LeaseInv, RunInv, CursorInv, TerminalProofs,
        FenceCoversProvider, Releasing, Fence, Fencing, Untouched, TypeInv, TypeOK, LeaseTypeOK,
        AtRun,
        AtRequest, AtCycle, baseVars, leaseVars, mergeVars, local, counters, flow, provider,
        github, LetsIn
<1>2. CASE Workflow /\ UNCHANGED mergeVars
  BY <1>2, WorkflowMain
<1>3. ASSUME NEW r \in Runs, Expire(r), UNCHANGED mergeVars
      PROVE  MainInv'
  BY <1>3 DEF Expire
<1>4. ASSUME NEW r \in Runs, Tamper(r), UNCHANGED mergeVars
      PROVE  MainInv'
  BY <1>4, BrokerAssumption DEF Tamper
<1>5. ASSUME NEW r \in Runs, BeginRecovery(r), UNCHANGED mergeVars
      PROVE  MainInv'
  BY <1>5 DEF BeginRecovery, SetLease, Elsewhere
<1>6. ASSUME NEW q \in Requests, Submit(q) \/ Waver(q) \/ ProviderMerge(q), UNCHANGED leaseVars
      PROVE  MainInv'
  <2>1. UNCHANGED <<pc, gate, counters>> /\ \A p \in Pulls : pull'[p] = "open" => pull[p] = "open"
    BY <1>6, AdmissionAssumption DEF Submit, Waver, ProviderMerge, MergeTypeOK
  <2> QED
    BY <1>6, <2>1
<1>7. CASE Drift
  BY <1>7, BrokerAssumption DEF Drift
<1>8. CASE Crash
  BY <1>8 DEF Crash, EndCycle
<1>9. CASE SpoolLost
  BY <1>9, BrokerAssumption DEF SpoolLost, Blank
<1>10. CASE UNCHANGED vars
  BY <1>10 DEF vars
<1> QED
  BY <1>2, <1>3, <1>4, <1>5, <1>6, <1>7, <1>8, <1>9, <1>10 DEF Environment

\* At first there is no lease and no open gate.
LEMMA MainInit == Init => MainInv
  BY BrokerAssumption
  DEF Init, LeaseInit, MergeInit, MainInv, Guarded, Fence, Fencing, Blank, LetsIn

\* Gates are opened only when the second round of the lease found nothing.
LEMMA MergingMain ==
  ASSUME TypeInv, MainInv, Merging, UNCHANGED leaseVars
  PROVE  MainInv'
  BY MergingLetting
  DEF MainInv, Letting, Guarded, Forgotten, Fence, leaseVars, flow, provider

\* The invariant of main beside leases is preserved by every step.
LEMMA MainStep == TypeInv /\ LeaseInv /\ BaseInv /\ MainInv /\ [Next]_vars => MainInv'
  BY LeaseSideMain, MergingMain, OtherMain DEF Next, BrokerStep

\* The invariant of main beside leases holds of every state the specification reaches.
LEMMA MainInvariant == Spec => []MainInv
  BY MainInit, MainStep, TypesInvariant, LeaseInvariant, BaseInvariant, PTL DEF Spec

\* Only the merge of an open gate moves main, unless somebody goes past the rulesets.
LEMMA OnlyMerges ==
  ASSUME TypeInv, [Next]_vars, main' # main, main' # Alien
  PROVE  /\ UNCHANGED leaseVars /\ UNCHANGED counters
         /\ \E p \in Pulls : LetsIn(p)
<1>1. \A q \in Requests : ProviderMerge(q) => UNCHANGED counters /\ \E p \in Pulls : LetsIn(p)
  BY AdmissionAssumption DEF ProviderMerge, LetsIn
<1>2. ~LeaseSide
  BY LeaseGated
<1>3. ~Merging
  BY DEF Merging, StartCycle, ListPulls, GatesClosed, AdmissionLapses, PullsDone, CloseGate,
         PassPull,
         OrphanProved, OrphanClosed, OrphanDoubted, Admit, ReserveRequest, OpenGate, SealAgain,
         SendPut,
         PutRejected, PutProved, PutUnproved, Conclude, Journal, Answered
<1>4. ~Workflow
  BY WorkflowPlace DEF baseVars
<1>5. \A r \in Runs : ~Expire(r) /\ ~Tamper(r) /\ ~BeginRecovery(r)
  BY DEF Expire, Tamper, BeginRecovery, Elsewhere, baseVars
<1>6. \A q \in Requests : ~Submit(q) /\ ~Waver(q)
  BY DEF Submit, Waver, baseVars
<1>7. ~Drift /\ ~Crash /\ ~SpoolLost /\ ~UNCHANGED vars
  BY DEF Drift, Crash, SpoolLost, vars, baseVars
<1> QED
  BY <1>1, <1>2, <1>3, <1>4, <1>5, <1>6, <1>7 DEF Next, BrokerStep, Environment

\* Nothing is merged into main from the moment a run holds its lease until its release is
\* announced, whatever becomes of the run and of the broker.
THEOREM MainIsHeld == Spec => MainHeld
<1>1. ASSUME TypeInv, MainInv, [Next]_vars, main' # main, main' # Alien
      PROVE  \A r \in Runs : reached[r] >= 1 /\ check[r].status # "success"
                               => lost > 0 /\ (reached[r] = 3 \/ drift > 0)
  BY <1>1, OnlyMerges DEF MainInv, Guarded, Forgotten
<1>2. TypeInv /\ MainInv /\ [Next]_vars
        => [ main' # main /\ main' # Alien
               => \A r \in Runs : reached[r] >= 1 /\ check[r].status # "success"
                                    => lost > 0 /\ (reached[r] = 3 \/ drift > 0) ]_vars
  BY <1>1
<1> QED
  BY <1>2, TypesInvariant, MainInvariant, PTL DEF Spec, MainHeld

-------------------------------------------------------------------------------
(* The commit of the upload *)

\* Whatever is not a step of the workflow leaves the runs alone.
LEMMA OtherFlow ==
  ASSUME TypeInv, [Next]_vars, ~Workflow
  PROVE  UNCHANGED flow /\ (drift' = 0 => drift = 0)
<1> USE BrokerAssumption DEF TypeInv, TypeOK, counters, flow, baseVars, leaseVars, mergeVars
<1>1. LeaseSide => UNCHANGED flow /\ UNCHANGED drift
  <2>1. LeaseSide => Elsewhere
    BY DEF LeaseSide, Leasing, Recovering, NoCandidate, DiscoverRaises, RestoreRaises,
           ActivateRaises,
           Discover, Reserve, RestoreLease, HoldQuarantine, ReadLease, Refuse, Proceed, CreateRef,
           CreateCheck, SetActive, ConfirmRelease, DeleteRef, Acknowledge, ReleaseRejected,
           FinishRelease,
           ReleaseInvalid, RecoverDelete, RecoverAcknowledge, RecoverFinish
  <2> QED
    BY <2>1 DEF Elsewhere
<1>2. Merging /\ UNCHANGED leaseVars => UNCHANGED flow /\ UNCHANGED drift
  BY MergingLetting
<1>3. \A r \in Runs : Expire(r) \/ BeginRecovery(r) => UNCHANGED flow /\ UNCHANGED drift
  BY DEF Expire, BeginRecovery, Elsewhere
<1>4. \A r \in Runs : Tamper(r) => UNCHANGED flow /\ drift' # 0
  BY DEF Tamper
<1>5. \A q \in Requests : (Submit(q) \/ Waver(q) \/ ProviderMerge(q)) /\ UNCHANGED leaseVars
                            => UNCHANGED flow /\ UNCHANGED drift
  BY DEF Submit, Waver, ProviderMerge
<1>6. Drift => UNCHANGED flow /\ drift' # 0
  BY DEF Drift
<1>7. Crash \/ SpoolLost \/ UNCHANGED vars => UNCHANGED flow /\ UNCHANGED drift
  BY DEF Crash, SpoolLost, vars
<1> QED
  BY <1>1, <1>2, <1>3, <1>4, <1>5, <1>6, <1>7 DEF Next, BrokerStep, Environment

\* main goes to a commit past the rulesets only by going past them.
LEMMA AlienDrift ==
  ASSUME TypeInv, [Next]_vars, main' # main, main' = Alien
  PROVE  drift' # 0 \/ \E q \in Requests : ProviderMerge(q)
<1>2. ~LeaseSide
  BY LeaseGated
<1>3. ~Merging
  BY DEF Merging, StartCycle, ListPulls, GatesClosed, AdmissionLapses, PullsDone, CloseGate,
         PassPull,
         OrphanProved, OrphanClosed, OrphanDoubted, Admit, ReserveRequest, OpenGate, SealAgain,
         SendPut,
         PutRejected, PutProved, PutUnproved, Conclude, Journal, Answered
<1>4. ~Workflow
  BY WorkflowPlace DEF baseVars
<1>5. \A r \in Runs : ~Expire(r) /\ ~Tamper(r) /\ ~BeginRecovery(r)
  BY DEF Expire, Tamper, BeginRecovery, Elsewhere, baseVars
<1>6. \A q \in Requests : ~Submit(q) /\ ~Waver(q)
  BY DEF Submit, Waver, baseVars
<1>7. ~Crash /\ ~SpoolLost /\ ~UNCHANGED vars
  BY DEF Crash, SpoolLost, vars, baseVars
<1>8. Drift => drift' # 0
  BY BrokerAssumption DEF Drift, TypeInv, TypeOK
<1> QED
  BY <1>2, <1>3, <1>4, <1>5, <1>6, <1>7, <1>8 DEF Next, BrokerStep, Environment

\* At first no run has acquired anything.
LEMMA CommitInit == Init => CommitInv
  BY DEF Init, LeaseInit, CommitInv

\* What a run has acquired stays what main is at until it uploads.
LEMMA CommitStep ==
  ASSUME TypeInv, LeaseInv, MainInv, CommitInv, [Next]_vars
  PROVE  CommitInv'
<1> USE BrokerAssumption
        DEF CommitInv, TypeInv, TypeOK, LeaseTypeOK, counters, flow, baseVars, leaseVars, mergeVars
<1>1. CASE main' = main
  <2>1. CASE Workflow
    <3>1. ASSUME NEW r \in Runs, NEW s \in Runs, Rerun(r, s)
          PROVE  CommitInv'
      BY <1>1, <3>1 DEF Rerun, LeaseInv, RunInv
    <3>2. ASSUME NEW r \in Runs, Dispatch(r)
          PROVE  CommitInv'
      BY <1>1, <3>2 DEF Dispatch, LeaseInv, RunInv
    <3>3. ASSUME NEW r \in Runs, Acquire(r)
          PROVE  CommitInv'
      BY <1>1, <3>3 DEF Acquire, Asserted, RunStep
    <3>4. ASSUME NEW r \in Runs,
                 BeginWait(r) \/ Reassert(r) \/ ObserveRelease(r) \/ RunFails(r)
          PROVE  CommitInv'
      BY <1>1, <3>4 DEF BeginWait, Reassert, ObserveRelease, RunFails, RunStep
    <3>5. ASSUME NEW r \in Runs, Upload(r) \/ Verified(r)
          PROVE  CommitInv'
      BY <1>1, <3>5 DEF Upload, Verified, RunStep
    <3>6. ASSUME NEW r \in Runs, AssertFirst(r)
          PROVE  CommitInv'
      BY <1>1, <3>6 DEF AssertFirst
    <3> QED
      BY <2>1, <3>1, <3>2, <3>3, <3>4, <3>5, <3>6 DEF Workflow
  <2>2. CASE UNCHANGED flow /\ (drift' = 0 => drift = 0)
    BY <1>1, <2>2
  <2>3. CASE ~Workflow
    <3>1. UNCHANGED flow /\ (drift' = 0 => drift = 0)
      BY <2>3, OtherFlow
    <3> QED
      BY <2>2, <3>1
  <2> QED
    BY <2>1, <2>3
<1>2. CASE main' # main /\ main' # Alien
  <2>1. UNCHANGED leaseVars /\ UNCHANGED counters /\ \A r \in Runs : ~Guarded(r)
    BY <1>2, OnlyMerges DEF MainInv
  <2>2. \A r \in Runs : drift = 0 => reached[r] # 1
    BY <2>1 DEF Guarded, Forgotten, LeaseInv, TerminalProofs
  <2> QED
    BY <2>1, <2>2
<1>3. CASE main' # main /\ main' = Alien
  <2>1. drift' # 0 \/ \E q \in Requests : ProviderMerge(q)
    BY <1>3, AlienDrift
  <2>2. \A q \in Requests : ~ProviderMerge(q)
    BY <1>3, AdmissionAssumption DEF ProviderMerge
  <2> QED
    BY <2>1, <2>2
<1> QED
  BY <1>1, <1>2, <1>3

\* The invariant of the release commit holds of every state the specification reaches.
LEMMA CommitInvariant == Spec => []CommitInv
  BY CommitInit, CommitStep, TypesInvariant, LeaseInvariant, MainInvariant, PTL DEF Spec

\* What is uploaded is built from the commit main is at, unless somebody with more rights
\* changed main or deleted the lease's ref.
THEOREM UploadsReleaseCommit == Spec => UploadOnReleaseCommit
<1>1. ASSUME TypeInv, LeaseInv, CommitInv, [Next]_vars
      PROVE  drift = 0 => \A r \in Runs : reached'[r] = 2 /\ reached[r] # 2 => sha[r] = main
  <2>1. SUFFICES ASSUME drift = 0, NEW r \in Runs, reached'[r] = 2, reached[r] # 2
                 PROVE  reached[r] = 1
    BY <1>1 DEF CommitInv
  <2>2. Workflow
    BY <1>1, <2>1, OtherFlow DEF flow
  <2> QED
    BY <1>1, <2>1, <2>2
    DEF Workflow, Rerun, Dispatch, BeginWait, AssertFirst, Acquire, Reassert, Upload, Verified,
        ObserveRelease, RunFails, RunStep, LeaseInv, RunInv, TypeInv, TypeOK, LeaseTypeOK
<1>2. TypeInv /\ LeaseInv /\ CommitInv /\ [Next]_vars
        => [ drift = 0 => \A r \in Runs : reached'[r] = 2 /\ reached[r] # 2 => sha[r] = main ]_vars
  BY <1>1
<1> QED
  BY <1>2, TypesInvariant, LeaseInvariant, CommitInvariant, PTL DEF Spec, UploadOnReleaseCommit

===============================================================================
