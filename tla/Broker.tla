-------------------------------- MODULE Broker --------------------------------
(***************************************************************************)
(* The main-health broker whole: one process whose cycle (run_once) first  *)
(* settles interrupted merges, closes every gate, reconciles the           *)
(* publication lease before and after the health of main, and only then    *)
(* merges; beside the production workflow, the reviewers and GitHub.       *)
(*                                                                         *)
(* Health and repair reconciliation (between the two rounds of the lease)  *)
(* write only the state branch: see HealthState.  Here they are an error   *)
(* that ends the cycle, or nothing.                                        *)
(***************************************************************************)
EXTENDS PublishLease, MergeAdmission

vars == <<baseVars, leaseVars, mergeVars>>

AtRun     == {"reserve", "judge", "activate", "release", "unlock", "acknowledge", "finish",
              "recoverDelete", "recoverAcknowledge", "recoverFinish"}
AtRequest == {"orphan", "seal", "open", "ready", "put", "answer", "reject", "doubt"}
AtCycle   == {"idle", "orphans", "gates", "lease", "pulls"}

\* The variables have their types, and the process holds what belongs to where it is: nothing
\* of a cycle is left over when the next one starts.
TypeOK ==
  /\ \/ pc \in AtRun /\ cursor \in Runs
     \/ pc \in AtRequest /\ cursor \in Requests
     \/ pc \in AtCycle /\ cursor = None
  /\ round \in 0 .. 2 /\ todo \subseteq Pulls
  /\ pc = "idle" => round = 0 /\ todo = {} /\ seen = Unseen
  /\ main \in Commits /\ faults \in 0 .. MaxFaults /\ drift \in 0 .. MaxDrift
  /\ lost \in 0 .. MaxLost
  /\ LeaseTypeOK /\ MergeTypeOK

Init ==
  /\ pc = "idle" /\ cursor = None /\ round = 0 /\ todo = {}
  /\ main = Start /\ faults = 0 /\ drift = 0 /\ lost = 0
  /\ LeaseInit /\ MergeInit

-------------------------------------------------------------------------------
(* Faults *)

\* The process dies, or an error or a lost response ends the cycle.
Crash ==
  /\ pc # "idle" /\ faults < MaxFaults
  /\ EndCycle /\ seen' = Unseen /\ faults' = faults + 1
  /\ UNCHANGED <<main, drift, lost, flow, due, provider, lease, mergeVars>>

\* The spool is replaced by an empty one; what GitHub has stays.
SpoolLost ==
  /\ pc = "idle" /\ lost < MaxLost
  /\ lost' = lost + 1
  /\ lease' = [r \in Runs |-> Blank] /\ request' = [q \in Requests |-> "none"]
  /\ UNCHANGED <<pc, local, main, faults, drift, flow, due, provider, seen, github>>

\* main is changed past the rulesets.
Drift ==
  /\ drift < MaxDrift
  /\ drift' = drift + 1 /\ main' = Alien
  /\ UNCHANGED <<pc, local, faults, lost, leaseVars, mergeVars>>

-------------------------------------------------------------------------------
Workflow ==
  \/ \E r, s \in Runs : r # s /\ Rerun(r, s)
  \/ \E r \in Runs :
       \/ Dispatch(r) \/ BeginWait(r) \/ AssertFirst(r) \/ Acquire(r) \/ Reassert(r)
       \/ Upload(r) \/ Verified(r) \/ ObserveRelease(r) \/ RunFails(r)

Leasing ==
  \/ NoCandidate \/ DiscoverRaises \/ RestoreRaises \/ ActivateRaises
  \/ \E r \in Runs :
       \/ Discover(r) \/ Reserve(r) \/ RestoreLease(r) \/ HoldQuarantine(r) \/ ReadLease(r)
       \/ Refuse(r) \/ Proceed(r) \/ CreateRef(r) \/ CreateCheck(r) \/ SetActive(r)
       \/ ConfirmRelease(r) \/ DeleteRef(r) \/ Acknowledge(r) \/ ReleaseRejected(r)
       \/ FinishRelease(r) \/ ReleaseInvalid(r)

Recovering(r) == RecoverDelete(r) \/ RecoverAcknowledge(r) \/ RecoverFinish(r)

Merging ==
  \/ StartCycle \/ ListPulls \/ GatesClosed \/ AdmissionLapses \/ PullsDone
  \/ \E p \in Pulls : CloseGate(p) \/ PassPull(p)
  \/ \E q \in Requests :
       \/ OrphanProved(q) \/ OrphanClosed(q) \/ OrphanDoubted(q) \/ Admit(q)
       \/ ReserveRequest(q) \/ OpenGate(q) \/ SealAgain(q) \/ SendPut(q) \/ PutRejected(q)
       \/ PutProved(q) \/ PutUnproved(q) \/ Conclude(q)

LeaseSide == Leasing \/ \E r \in Runs : Recovering(r)

\* The process goes on by itself; an operator starts a recovery.
BrokerStep ==
  \/ LeaseSide /\ UNCHANGED mergeVars
  \/ Merging /\ UNCHANGED leaseVars

Environment ==
  \/ \E r \in Runs : (Expire(r) \/ Tamper(r) \/ BeginRecovery(r)) /\ UNCHANGED mergeVars
  \/ \E q \in Requests : (Submit(q) \/ Waver(q) \/ ProviderMerge(q)) /\ UNCHANGED leaseVars
  \/ Workflow /\ UNCHANGED mergeVars
  \/ Drift

Next == BrokerStep \/ Environment \/ Crash \/ SpoolLost

Spec == Init /\ [][Next]_vars

FairSpec ==
  /\ Spec
  /\ WF_vars(BrokerStep)
  /\ \A r \in Runs : WF_vars(Expire(r) /\ UNCHANGED mergeVars)

-------------------------------------------------------------------------------
(* Properties *)

\* From the moment a run holds its lease until its release is announced, whatever becomes of
\* the run, nothing is merged into main.  A spool that is lost between the deletion of the
\* ref and the announcement forgets the lease, but by then the upload is verified; one that
\* is lost after somebody deleted the ref forgets it too.
MainHeld ==
  [][ main' # main /\ main' # Alien
        => \A r \in Runs : reached[r] >= 1 /\ check[r].status # "success"
                           => lost > 0 /\ (reached[r] = 3 \/ drift > 0) ]_vars

\* What is uploaded is built from the commit main is at, unless somebody with more rights
\* changed main or deleted the lease's ref.
UploadOnReleaseCommit ==
  [][ drift = 0 => \A r \in Runs : reached'[r] = 2 /\ reached[r] # 2 => sha[r] = main ]_vars

\* A lease ends only one of two ways: released after its upload was verified and with its
\* ref gone, or abandoned with nothing of it on GitHub.
TerminalProofs ==
  \A r \in Runs :
    /\ lease[r].status = "released"
         => reached[r] = 3 /\ r \notin refs /\ check[r].status = "success"
    /\ lease[r].status = "abandoned" => reached[r] = 0 /\ Untouched(r)
    /\ check[r].status = "success" => reached[r] = 3 /\ r \notin refs

\* Whatever of a lease is on GitHub, the spool fences for it.
FenceCoversProvider ==
  lost = 0 => \A r \in Runs : r \in refs \/ check[r].status = "active" => r \in Fence

\* A lease does not stay half created, active or half released: it ends, or is quarantined
\* for the operator.
LeaseSettles ==
  \A r \in Runs : lease[r].status \in {"creating", "active", "releasing"}
                    ~> lease[r].status \notin {"creating", "active", "releasing"}

\* A merge that was started is settled by the cycles that follow.
OrphansResolved == \A q \in Requests : request[q] = "merging" ~> request[q] # "merging"
==============================================================================
