------------------------------ MODULE PublishLease ------------------------------
(***************************************************************************)
(* The publication lease of the main-health broker: the production         *)
(* workflow waits until the broker has created a ref and an in-progress    *)
(* check run for it, uploads, verifies, and waits for the broker to        *)
(* release the lease; in between the broker merges nothing into main.      *)
(* Broker: DurableSpool (publish_leases), PublishLeaseController and       *)
(* ControlledPublishLeaseRecovery.  Workflow: tools/release_artifacts.py   *)
(* and .github/workflows/publish-pypi.yml.                                 *)
(*                                                                         *)
(* A lease is named by its run: ref, external id and commit follow from    *)
(* it.  There is one check run per lease, because it is only created after *)
(* it was read to be missing and nobody but the broker creates it.  The    *)
(* rulesets, the owner's identity and the workflow's blobs (authority) can *)
(* turn out invalid at any time.                                           *)
(***************************************************************************)
EXTENDS BrokerBase

VARIABLES
  \* the workflow
  step,      \* where each run is
  half,      \* the first half of a lease assertion has succeeded
  reached,   \* how far it came: 1 lease acquired, 2 uploaded, 3 upload verified
  sha,       \* the commit it publishes
  due,       \* two hours have passed since it began to wait
  \* GitHub
  refs,      \* runs whose lease ref exists
  check,     \* the lease's check run; reason is part of its output
  \* the broker
  lease,     \* publish_leases
  seen       \* what the reconciliation in progress has read

flow      == <<step, half, reached, sha>>
provider  == <<refs, check>>
leaseVars == <<flow, due, provider, lease, seen>>

Steps   == {"none", "prep", "wait", "reassert", "upload", "verify", "observe", "done",
            "failed", "superseded"}
Phases  == {"not_ready", "awaiting", "publishing", "verifying", "reconciling", "completed",
            "failed", "malformed"}
Reasons == {"run", "main", "expired", "authority", "fence", "release", "unreleased"}
Fencing == {"creating", "active", "quarantined", "releasing"}
Blank   == [status |-> "none", reason |-> None]
Unseen  == [main |-> None, phase |-> None, due |-> FALSE]

PublishPhase(r) ==
  CASE step[r] \in {"none", "prep"}                -> "not_ready"
    [] step[r] = "wait"                            -> "awaiting"
    [] step[r] \in {"reassert", "upload"}            -> "publishing"
    [] step[r] = "verify"                          -> "verifying"
    [] step[r] = "observe"                         -> "reconciling"
    [] step[r] = "done"                            -> "completed"
    [] step[r] = "failed"                          -> "failed"
    [] step[r] = "superseded"                      -> "malformed"

LeaseTypeOK ==
  /\ step \in [Runs -> Steps] /\ half \in [Runs -> BOOLEAN] /\ reached \in [Runs -> 0 .. 3]
  /\ sha \in [Runs -> Commits \cup {None}] /\ due \in [Runs -> BOOLEAN]
  /\ refs \subseteq Runs
  /\ check \in [Runs -> [status : {"none", "active", "success", "failure"},
                         reason : Reasons \cup {None}]]
  /\ lease \in [Runs -> [status : Fencing \cup {"none", "abandoned", "released"},
                         reason : Reasons \cup {None}]]
  /\ seen \in [main : Commits \cup {None}, due : BOOLEAN, phase : Phases \cup {None}]

LeaseInit ==
  /\ step = [r \in Runs |-> "none"] /\ half = [r \in Runs |-> FALSE]
  /\ reached = [r \in Runs |-> 0] /\ sha = [r \in Runs |-> None]
  /\ due = [r \in Runs |-> FALSE] /\ refs = {} /\ seen = Unseen
  /\ check = [r \in Runs |-> Blank] /\ lease = [r \in Runs |-> Blank]

-------------------------------------------------------------------------------
(* The workflow.  Its own steps leave the broker and GitHub alone. *)

Running(r) == step[r] \in Steps \ {"none", "done", "failed", "superseded"}
Held(r)    == r \in refs /\ check[r].status = "active"

RunStep(r, from, to, far) ==
  /\ step[r] = from
  /\ step' = [step EXCEPT ![r] = to]
  /\ half' = [half EXCEPT ![r] = FALSE]
  /\ reached' = [reached EXCEPT ![r] = far]
  /\ UNCHANGED <<baseVars, sha, due, provider, lease, seen>>

\* A run is dispatched on the commit main is at; validation and artifact jobs follow.
Dispatch(r) ==
  /\ step[r] = "none"
  /\ step' = [step EXCEPT ![r] = "prep"] /\ sha' = [sha EXCEPT ![r] = main]
  /\ UNCHANGED <<baseVars, half, reached, due, provider, lease, seen>>

\* A failed run is run again: the next attempt, for the same commit.
Rerun(r, s) ==
  /\ step[r] = "failed" /\ step[s] = "none"
  /\ step' = [step EXCEPT ![r] = "superseded", ![s] = "prep"]
  /\ sha' = [sha EXCEPT ![s] = sha[r]]
  /\ UNCHANGED <<baseVars, half, reached, due, provider, lease, seen>>

BeginWait(r) == RunStep(r, "prep", "wait", reached[r])

\* assert_publish_lease: ref and check, then main, then ref and check again.
AssertFirst(r) ==
  /\ step[r] \in {"wait", "reassert"} /\ ~half[r] /\ Held(r)
  /\ half' = [half EXCEPT ![r] = TRUE]
  /\ UNCHANGED <<baseVars, step, reached, sha, due, provider, lease, seen>>

Asserted(r) == half[r] /\ main = sha[r] /\ Held(r)

Acquire(r)   == Asserted(r) /\ RunStep(r, "wait", "reassert", 1)
Reassert(r)  == Asserted(r) /\ RunStep(r, "reassert", "upload", reached[r])
Upload(r)    == RunStep(r, "upload", "verify", 2)
Verified(r)  == RunStep(r, "verify", "observe", 3)

\* reconcile_publish_lease: the check has ended in success and the ref is gone.
ObserveRelease(r) ==
  check[r].status = "success" /\ r \notin refs /\ RunStep(r, "observe", "done", reached[r])

\* A failed assertion, a failed command, a limit on polling, or a cancellation.
RunFails(r) == Running(r) /\ RunStep(r, step[r], "failed", reached[r])

Expire(r) ==
  /\ ~due[r] /\ step[r] \notin {"none", "prep"}
  /\ due' = [due EXCEPT ![r] = TRUE]
  /\ UNCHANGED <<baseVars, flow, provider, lease, seen>>

-------------------------------------------------------------------------------
(* The broker: PublishLeaseController.reconcile, at pc = "lease". *)

Fence     == {r \in Runs : lease[r].status \in Fencing}
Untouched(r) == r \notin refs /\ check[r].status = "none"

SetLease(r, status, reason) ==
  lease' = [lease EXCEPT ![r] = [status |-> status, reason |-> reason]]
SetCheck(r, status, reason) ==
  check' = [check EXCEPT ![r] = [status |-> status, reason |-> reason]]

\* Defect: the second result is not used either.
LeaseDoneUnfenced(fenced) ==
  /\ seen' = Unseen /\ cursor' = None
  /\ pc' = IF round = 1 THEN "lease" ELSE "pulls"
  /\ round' = 2 /\ UNCHANGED todo

\* reconcile returns whether main is fenced.  The first of the two results is not used;
\* after the second the cycle goes on to the pulls, or ends.
LeaseDone(fenced) ==
  /\ seen' = Unseen /\ cursor' = None
  /\ \/ round = 1 /\ pc' = "lease" /\ round' = 2 /\ UNCHANGED todo
     \/ round = 2 /\ ~fenced /\ pc' = "pulls" /\ UNCHANGED <<round, todo>>
     \/ round = 2 /\ fenced /\ EndCycle

LeaseRaises == EndCycle /\ seen' = Unseen /\ UNCHANGED <<provider, lease>>

Elsewhere == UNCHANGED <<main, counters, flow, due>>

\* _discover_candidate
InProgressOnMain == \A r \in Runs : Running(r) => sha[r] = main
Candidates       == {r \in Runs : step[r] = "wait" /\ ~due[r]}

NoCandidate ==
  /\ pc = "lease" /\ Fence = {} /\ refs = {} /\ InProgressOnMain /\ Candidates = {}
  /\ LeaseDone(FALSE)
  /\ UNCHANGED <<provider, lease>> /\ Elsewhere

Discover(r) ==
  /\ pc = "lease" /\ Fence = {} /\ refs = {} /\ InProgressOnMain /\ Candidates = {r}
  /\ pc' = "reserve" /\ cursor' = r
  /\ UNCHANGED <<round, todo, provider, lease, seen>> /\ Elsewhere

\* A run on another commit, two candidates, or a change between the two reads.
\* begin_publish_lease refuses a lease that was in the table before.
Reservable(r) == step[r] = "wait" /\ main = sha[r] /\ Untouched(r) /\ lease[r] = Blank

DiscoverRaises ==
  /\ \/ /\ pc = "lease" /\ Fence = {} /\ refs = {}
        /\ ~InProgressOnMain \/ Cardinality(Candidates) > 1
     \/ pc = "reserve" /\ ~Reservable(cursor)
  /\ LeaseRaises /\ Elsewhere

Reserve(r) ==
  /\ pc = "reserve" /\ cursor = r /\ Reservable(r)
  /\ SetLease(r, "creating", None)
  /\ pc' = "lease" /\ cursor' = None
  /\ UNCHANGED <<round, todo, provider, seen>> /\ Elsewhere

\* _restore_ref: GitHub has a ref that the spool does not know.
Restorable(r) == step[r] # "superseded" /\ lease[r] = Blank

RestoreLease(r) ==
  /\ pc = "lease" /\ Fence = {} /\ r \in refs /\ Restorable(r)
  /\ SetLease(r, "creating", None)
  /\ UNCHANGED <<pc, local, provider, seen>> /\ Elsewhere

RestoreRaises ==
  /\ pc = "lease" /\ Fence = {} /\ \E r \in refs : ~Restorable(r)
  /\ LeaseRaises /\ Elsewhere

\* _quarantine, up to the spool; HoldQuarantine follows.
Quarantine(r, reason) ==
  /\ check[r].status # "success"
  /\ SetLease(r, "quarantined", reason)
  /\ pc' = "lease" /\ cursor' = None /\ seen' = Unseen
  /\ UNCHANGED <<round, todo, provider>>

\* Defect: a quarantined lease does not fence main.
HoldQuarantineFree(r) ==
  /\ pc = "lease" /\ lease[r].status = "quarantined"
  /\ IF check[r].status \in {"none", "active"} THEN SetCheck(r, "failure", lease[r].reason)
                                               ELSE UNCHANGED check
  /\ LeaseDone(FALSE) /\ UNCHANGED <<refs, lease>> /\ Elsewhere

\* _quarantine of a lease that is quarantined already: the check run carries its reason.
HoldQuarantine(r) ==
  /\ pc = "lease" /\ lease[r].status = "quarantined"
  /\ \/ /\ check[r].status \in {"none", "active"}
        /\ SetCheck(r, "failure", lease[r].reason) /\ LeaseDone(TRUE)
     \/ /\ check[r] = [status |-> "failure", reason |-> lease[r].reason]
        /\ LeaseDone(TRUE) /\ UNCHANGED check
     \/ /\ check[r].status \in {"success", "failure"} /\ check[r].reason # lease[r].reason
        /\ EndCycle /\ seen' = Unseen /\ UNCHANGED check
  /\ UNCHANGED <<refs, lease>> /\ Elsewhere

ReadLease(r) ==
  /\ pc = "lease" /\ lease[r].status \in {"creating", "active"}
  /\ seen' = [main |-> main, phase |-> PublishPhase(r), due |-> due[r]]
  /\ pc' = "judge" /\ cursor' = r
  /\ UNCHANGED <<round, todo, provider, lease>> /\ Elsewhere

\* What was read makes a lease that is being created go on.
Resumable(r) ==
  /\ seen.phase \in {"awaiting", "publishing", "reconciling", "verifying"}
  /\ seen.main = sha[r]
  /\ seen.phase = "awaiting" \/ (r \in refs /\ check[r].status # "none")

\* Defect: an active lease does not expire.
GroundUndated(r) ==
  CASE seen.phase = "malformed"                                -> "run"
    [] lease[r].status = "creating" /\ ~Resumable(r)           -> "run"
    [] lease[r].status = "active" /\ seen.main # sha[r]        -> "main"
    [] OTHER                                                   -> "authority"

\* Why reconcile does not go on with the lease; the authority can fail at any time, and
\* fails when main has moved since it was read.
Ground(r) ==
  CASE seen.phase = "malformed"                                -> "run"
    [] lease[r].status = "creating" /\ ~Resumable(r)           -> "run"
    [] lease[r].status = "active" /\ seen.main # sha[r]        -> "main"
    [] seen.due                                                -> "expired"
    [] OTHER                                                   -> "authority"

\* Defect: whatever was being created is abandoned.
RefuseForgetful(r) ==
  /\ pc = "judge" /\ cursor = r
  /\ \/ /\ lease[r].status = "creating"
        /\ SetLease(r, "abandoned", Ground(r)) /\ LeaseDone(FALSE) /\ UNCHANGED provider
     \/ /\ lease[r].status = "active"
        /\ Quarantine(r, Ground(r))
  /\ Elsewhere

Refuse(r) ==
  /\ pc = "judge" /\ cursor = r
  /\ \/ /\ lease[r].status = "creating" /\ Untouched(r)
        /\ SetLease(r, "abandoned", Ground(r)) /\ LeaseDone(FALSE) /\ UNCHANGED provider
     \/ /\ lease[r].status = "active" \/ ~Untouched(r)
        /\ Quarantine(r, Ground(r))
  /\ Elsewhere

Accepted(r) ==
  pc = "judge" /\ cursor = r /\ Ground(r) = "authority" /\ main = sha[r]

\* An active lease that stands: its objects are there and the phase is read.
Proceed(r) ==
  /\ Accepted(r)
  /\ \/ /\ lease[r].status = "creating"
        /\ pc' = "activate" /\ UNCHANGED <<local, provider, lease, seen>>
     \/ /\ lease[r].status = "active" /\ r \notin refs
        /\ Quarantine(r, "fence")
     \/ /\ lease[r].status = "active" /\ Held(r) /\ seen.phase = "reconciling"
        /\ pc' = "release" /\ UNCHANGED <<local, provider, lease, seen>>
     \/ /\ lease[r].status = "active" /\ Held(r)
        /\ seen.phase \in {"awaiting", "publishing", "verifying"}
        /\ LeaseDone(TRUE) /\ UNCHANGED <<provider, lease>>
     \/ /\ lease[r].status = "active" /\ Held(r)
        /\ seen.phase \in {"not_ready", "completed", "failed"}
        /\ Quarantine(r, "run")
  /\ Elsewhere

\* _activate
CreateRef(r) ==
  /\ pc = "activate" /\ cursor = r /\ Untouched(r)
  /\ refs' = refs \cup {r}
  /\ UNCHANGED <<pc, local, check, lease, seen>> /\ Elsewhere

CreateCheck(r) ==
  /\ pc = "activate" /\ cursor = r /\ r \in refs /\ check[r].status = "none"
  /\ SetCheck(r, "active", None)
  /\ UNCHANGED <<pc, local, refs, lease, seen>> /\ Elsewhere

SetActive(r) ==
  /\ pc = "activate" /\ cursor = r /\ Held(r)
  /\ SetLease(r, "active", None)
  /\ \/ seen.phase = "reconciling" /\ pc' = "release" /\ UNCHANGED <<local, seen>>
     \/ seen.phase # "reconciling" /\ LeaseDone(TRUE)
  /\ UNCHANGED provider /\ Elsewhere

ActivateRaises ==
  /\ pc = "activate" /\ check[cursor].status # "none" /\ ~Held(cursor)
  /\ LeaseRaises /\ Elsewhere

-------------------------------------------------------------------------------
(* _release, for an active lease at pc = "release", or for one left releasing. *)

AtRelease(r) ==
  \/ pc = "release" /\ cursor = r
  \/ pc = "lease" /\ lease[r].status = "releasing"

\* Defect: the check run is completed first.
DeleteRefLast(r) ==
  /\ pc = "unlock" /\ cursor = r
  /\ Goto("acknowledge") /\ UNCHANGED <<refs, check, lease, seen>> /\ Elsewhere

\* Everything is proved once more, and the release is on record before it begins.
ConfirmRelease(r) ==
  /\ AtRelease(r) /\ check[r].status = "active"
  /\ \/ /\ PublishPhase(r) = "reconciling" /\ main = sha[r]
        /\ SetLease(r, "releasing", None)
        /\ pc' = "unlock" /\ cursor' = r /\ UNCHANGED <<round, todo, provider, seen>>
     \/ PublishPhase(r) \notin {"reconciling", "malformed"} /\ Quarantine(r, "run")
     \/ Quarantine(r, "authority")
  /\ Elsewhere

DeleteRef(r) ==
  /\ pc = "unlock" /\ cursor = r
  /\ refs' = refs \ {r}
  /\ Goto("acknowledge") /\ UNCHANGED <<check, lease, seen>> /\ Elsewhere

Acknowledge(r) ==
  /\ pc = "acknowledge" /\ cursor = r
  /\ SetCheck(r, "success", None)
  /\ Goto("finish") /\ UNCHANGED <<refs, lease, seen>> /\ Elsewhere

\* GitHub refuses the deletion or the update of the check run.
ReleaseRejected(r) ==
  /\ pc \in {"unlock", "acknowledge"} /\ cursor = r
  /\ Quarantine(r, "release") /\ Elsewhere

FinishRelease(r) ==
  /\ \/ pc = "finish" /\ cursor = r
     \/ pc = "lease" /\ lease[r].status = "releasing" /\ check[r].status = "success"
        /\ r \notin refs
  /\ SetLease(r, "released", None)
  /\ LeaseDone(FALSE) /\ UNCHANGED provider /\ Elsewhere

\* A lease left releasing whose check run has ended, but not in a clean release.
ReleaseInvalid(r) ==
  /\ pc = "lease" /\ lease[r].status = "releasing" /\ check[r].status = "failure"
  /\ Quarantine(r, "unreleased") /\ Elsewhere

-------------------------------------------------------------------------------
(* ControlledPublishLeaseRecovery: the operator's command, run while the service is stopped. *)

\* verify, and the start that begin_controlled_publish_recovery records
BeginRecovery(r) ==
  /\ pc = "idle" /\ lease[r].status = "quarantined"
  /\ check[r] = [status |-> "failure", reason |-> lease[r].reason]
  /\ refs = {r} /\ main = sha[r]
  /\ step[r] = "failed" /\ reached[r] = 3 /\ \A s \in Runs : ~Running(s)
  /\ SetLease(r, "releasing", None)
  /\ pc' = "recoverDelete" /\ cursor' = r
  /\ UNCHANGED <<round, todo, provider, seen>> /\ Elsewhere

RecoverDelete(r) ==
  /\ pc = "recoverDelete" /\ cursor = r
  /\ \/ r \in refs /\ refs' = refs \ {r} /\ Goto("recoverAcknowledge")
     \/ r \notin refs /\ EndCycle /\ UNCHANGED refs
  /\ UNCHANGED <<check, lease, seen>> /\ Elsewhere

RecoverAcknowledge(r) ==
  /\ pc = "recoverAcknowledge" /\ cursor = r
  /\ SetCheck(r, "success", None)
  /\ Goto("recoverFinish") /\ UNCHANGED <<refs, lease, seen>> /\ Elsewhere

RecoverFinish(r) ==
  /\ pc = "recoverFinish" /\ cursor = r
  /\ SetLease(r, "released", None)
  /\ EndCycle /\ UNCHANGED <<provider, seen>> /\ Elsewhere

\* Somebody with more rights than the rulesets foresee deletes the lease's ref.
Tamper(r) ==
  /\ r \in refs /\ drift < MaxDrift
  /\ refs' = refs \ {r} /\ drift' = drift + 1
  /\ UNCHANGED <<pc, local, main, faults, lost, flow, due, check, lease, seen>>
==============================================================================
