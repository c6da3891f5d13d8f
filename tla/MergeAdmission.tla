---------------------------- MODULE MergeAdmission ----------------------------
(***************************************************************************)
(* How the main-health broker (tools/main_health_broker.py) merges a pull  *)
(* request.  Branch protection lets a pull in only while the broker's own  *)
(* check on its head, the gate, is a success, and only the broker may move *)
(* main.  The broker closes every gate at the start of a cycle, journals a *)
(* request before it opens the gate for it, sends the merge once, and      *)
(* believes only what it then reads of the pull and of main.               *)
(*                                                                         *)
(* A pull stands for its number and its head; a pull with a new head is    *)
(* another pull.  Whether a request is admissible (reviews, permissions,   *)
(* expiry, health of main, checks, rulesets) is one bit that can change at *)
(* any time.  The merge call can reach GitHub late, for it may outlive the *)
(* connection and the cycle.                                               *)
(***************************************************************************)
EXTENDS BrokerBase

CONSTANTS
  PullOf,         \* the pull a request is for
  OwnerRequests   \* requests of the single maintainer or of the machine delegate

ASSUME AdmissionAssumption ==
  PullOf \in [Requests -> Pulls] /\ OwnerRequests \subseteq Requests

VARIABLES
  \* GitHub
  offer,      \* requests as the reviews of their pulls show them
  base,       \* the commit of main a request was made on
  pull,       \* pulls
  mergedOn, mergedBy,  \* the first parent of a merged pull, and the request its gate named
  gate,       \* the broker's check on the head of a pull
  used,       \* the request in the external id of that check, if one ever opened it
  put,        \* the merge call
  puts,       \* how often it was sent
  \* the broker
  request     \* the table requests

github    == <<offer, base, pull, mergedOn, mergedBy, gate, used, put, puts>>
mergeVars == <<github, request>>

Terminal == {"merged", "rejected", "uncertain"}

MergeTypeOK ==
  /\ offer \in [Requests -> {"none", "live", "idle", "old"}]
  /\ base \in [Requests -> Commits \cup {None}]
  /\ pull \in [Pulls -> {"open", "merged"}]
  /\ mergedOn \in [Pulls -> Commits \cup {None}]
  /\ mergedBy \in [Pulls -> Requests \cup {None}]
  /\ gate \in [Pulls -> {"none", "closed", "success"}]
  /\ used \in [Pulls -> Requests \cup {None}]
  /\ put \in [Requests -> {"none", "sent", "done"}]
  /\ puts \in [Requests -> Nat]
  /\ request \in [Requests -> {"none", "merging"} \cup Terminal]

MergeInit ==
  /\ offer = [q \in Requests |-> "none"] /\ base = [q \in Requests |-> None]
  /\ pull = [p \in Pulls |-> "open"]
  /\ mergedOn = [p \in Pulls |-> None] /\ mergedBy = [p \in Pulls |-> None]
  /\ gate = [p \in Pulls |-> "none"] /\ used = [p \in Pulls |-> None]
  /\ put = [q \in Requests |-> "none"] /\ puts = [q \in Requests |-> 0]
  /\ request = [q \in Requests |-> "none"]

-------------------------------------------------------------------------------
(* The reviewers and GitHub. *)

SameKind(q, s) == (q \in OwnerRequests) = (s \in OwnerRequests)

\* A new request for a pull; an earlier one of its kind is not looked at any more.
Submit(q) ==
  /\ offer[q] = "none" /\ pull[PullOf[q]] = "open"
  /\ offer' = [s \in Requests |->
                CASE s = q -> "live"
                  [] s # q /\ PullOf[s] = PullOf[q] /\ SameKind(q, s) /\ offer[s] # "none" -> "old"
                  [] OTHER -> offer[s]]
  /\ base' = [base EXCEPT ![q] = main]
  /\ UNCHANGED <<baseVars, pull, mergedOn, mergedBy, gate, used, put, puts, request>>

\* An approval, a requested change, an expiry, a verdict on main, a rerun check ...
Waver(q) ==
  /\ \/ offer[q] = "live" /\ offer' = [offer EXCEPT ![q] = "idle"]
     \/ offer[q] = "idle" /\ offer' = [offer EXCEPT ![q] = "live"]
  /\ UNCHANGED <<baseVars, base, pull, mergedOn, mergedBy, gate, used, put, puts, request>>

\* GitHub handles the merge call: the head is the pull's, and the required check has passed.
ProviderMerge(q) ==
  LET p == PullOf[q] IN
  /\ put[q] = "sent" /\ pull[p] = "open" /\ gate[p] = "success"
  /\ put' = [put EXCEPT ![q] = "done"]
  /\ pull' = [pull EXCEPT ![p] = "merged"]
  /\ mergedOn' = [mergedOn EXCEPT ![p] = main]
  /\ mergedBy' = [mergedBy EXCEPT ![p] = used[p]]
  /\ main' = p
  /\ UNCHANGED <<pc, local, counters, offer, base, gate, used, puts, request>>

-------------------------------------------------------------------------------
(* The start of a cycle: orphans, then the gates. *)

Record(q, status) == request' = [request EXCEPT ![q] = status]

\* CheckController.ensure_failed: the request that once opened the gate stays named.
EnsureFailed(p) == gate' = [gate EXCEPT ![p] = "closed"]

\* verify_merge_proof
Proof(q) ==
  LET p == PullOf[q] IN pull[p] = "merged" /\ main = p /\ mergedOn[p] = base[q]

Journal == UNCHANGED <<main, counters, offer, base, pull, mergedOn, mergedBy, used, put, puts>>

StartCycle ==
  /\ pc = "idle" /\ Goto("orphans")
  /\ UNCHANGED <<main, counters, mergeVars>>

OrphanProved(q) ==
  /\ pc = "orphans" /\ request[q] = "merging" /\ Proof(q)
  /\ Record(q, "merged")
  /\ UNCHANGED <<pc, local, gate>> /\ Journal

\* No proof, or GitHub did not answer.
OrphanClosed(q) ==
  /\ pc = "orphans" /\ request[q] = "merging"
  /\ EnsureFailed(PullOf[q])
  /\ pc' = "orphan" /\ cursor' = q
  /\ UNCHANGED <<round, todo, request>> /\ Journal

OrphanDoubted(q) ==
  /\ pc = "orphan" /\ cursor = q
  /\ Record(q, "uncertain")
  /\ pc' = "orphans" /\ cursor' = None
  /\ UNCHANGED <<round, todo, gate>> /\ Journal

\* Defect: the orphans are not looked at.
ListPullsFirst ==
  /\ pc = "orphans"
  /\ pc' = "gates" /\ todo' = {p \in Pulls : pull[p] = "open"}
  /\ UNCHANGED <<cursor, round, gate, request>> /\ Journal

ListPulls ==
  /\ pc = "orphans" /\ \A q \in Requests : request[q] # "merging"
  /\ pc' = "gates" /\ todo' = {p \in Pulls : pull[p] = "open"}
  /\ UNCHANGED <<cursor, round, gate, request>> /\ Journal

CloseGate(p) ==
  /\ pc = "gates" /\ p \in todo /\ gate[p] # "closed"
  /\ EnsureFailed(p)
  /\ UNCHANGED <<pc, local, request>> /\ Journal

\* Defect: the gates are left as they are.
GatesSkipped ==
  /\ pc = "gates"
  /\ pc' = "lease" /\ round' = 1
  /\ UNCHANGED <<cursor, todo, gate, request>> /\ Journal

GatesClosed ==
  /\ pc = "gates" /\ \A p \in todo : gate[p] = "closed"
  /\ pc' = "lease" /\ round' = 1
  /\ UNCHANGED <<cursor, todo, gate, request>> /\ Journal

-------------------------------------------------------------------------------
(* _process_pull, for each listed pull until one is merged. *)

Selectable(q) == offer[q] = "live" /\ pull[PullOf[q]] = "open"

\* Defect: only the journal remembers.
SpentInJournal(q) == request[q] # "none"

\* The request was admitted before: by the journal, or by the gate's external id.
Spent(q) == request[q] # "none" \/ used[PullOf[q]] = q

\* _guard_owner_transaction, before the reservation: nothing was ever admitted on this head.
OwnerGuard(q) ==
  q \in OwnerRequests =>
    /\ used[PullOf[q]] = None
    /\ \A s \in Requests : PullOf[s] = PullOf[q] => request[s] = "none"

Sealed(q) == Selectable(q) /\ OwnerGuard(q) /\ main = base[q]

PassPull(p) ==
  /\ pc = "pulls" /\ p \in todo
  /\ \/ \A q \in Requests : PullOf[q] = p => ~Selectable(q)
     \/ \E q \in Requests : PullOf[q] = p /\ Selectable(q) /\ Spent(q)
  /\ todo' = todo \ {p}
  /\ UNCHANGED <<pc, cursor, round, gate, request>> /\ Journal

Admit(q) ==
  /\ pc = "pulls" /\ PullOf[q] \in todo
  /\ Selectable(q) /\ ~Spent(q)
  /\ IF Sealed(q) THEN pc' = "seal" /\ cursor' = q /\ UNCHANGED <<round, todo>> ELSE EndCycle
  /\ UNCHANGED <<gate, request>> /\ Journal

\* The last of the seals, and the reservation in the journal.
ReserveRequest(q) ==
  /\ pc = "seal" /\ cursor = q
  /\ IF Sealed(q)
     THEN Record(q, "merging") /\ Goto("open")
     ELSE EndCycle /\ UNCHANGED request
  /\ UNCHANGED gate /\ Journal

\* CheckController.succeed
OpenGate(q) ==
  LET p == PullOf[q] IN
  /\ pc = "open" /\ cursor = q
  /\ gate' = [gate EXCEPT ![p] = "success"]
  /\ used' = [used EXCEPT ![p] = q]
  /\ Goto("ready")
  /\ UNCHANGED <<main, counters, offer, base, pull, mergedOn, mergedBy, put, puts, request>>

\* _wait_for_provider_merge_ready and _post_success_admission_seal
SealAgain(q) ==
  /\ pc = "ready" /\ cursor = q
  /\ Selectable(q) /\ main = base[q] /\ gate[PullOf[q]] = "success"
  /\ Goto("put")
  /\ UNCHANGED <<gate, request>> /\ Journal

\* The request expired, changed, or did not become ready to merge in time.
AdmissionLapses ==
  /\ pc \in {"open", "ready"} /\ EndCycle
  /\ UNCHANGED <<gate, request>> /\ Journal

SendPut(q) ==
  /\ pc = "put" /\ cursor = q
  /\ put' = [put EXCEPT ![q] = "sent"] /\ puts' = [puts EXCEPT ![q] = @ + 1]
  /\ Goto("answer")
  /\ UNCHANGED <<main, counters, offer, base, pull, mergedOn, mergedBy, gate, used, request>>

Answered ==
  UNCHANGED <<main, counters, offer, base, pull, mergedOn, mergedBy, used, puts>>

\* Defect: the gate stays open behind a refused call.
PutRejectedOpen(q) ==
  /\ pc = "answer" /\ cursor = q /\ put[q] = "sent"
  /\ put' = [put EXCEPT ![q] = "done"]
  /\ Goto("reject") /\ UNCHANGED <<gate, request>> /\ Answered

\* GitHub refuses the call; it is over.
PutRejected(q) ==
  /\ pc = "answer" /\ cursor = q /\ put[q] = "sent"
  /\ put' = [put EXCEPT ![q] = "done"]
  /\ EnsureFailed(PullOf[q])
  /\ Goto("reject") /\ UNCHANGED request /\ Answered

\* GitHub confirms, or its answer is lost: what it did is read.
PutProved(q) ==
  /\ pc = "answer" /\ cursor = q /\ Proof(q)
  /\ Record(q, "merged") /\ EndCycle
  /\ UNCHANGED <<gate, put>> /\ Answered

PutUnproved(q) ==
  /\ pc = "answer" /\ cursor = q
  /\ EnsureFailed(PullOf[q])
  /\ Goto("doubt") /\ UNCHANGED <<put, request>> /\ Answered

Conclude(q) ==
  /\ pc \in {"reject", "doubt"} /\ cursor = q
  /\ Record(q, IF pc = "reject" THEN "rejected" ELSE "uncertain") /\ EndCycle
  /\ UNCHANGED gate /\ Journal

PullsDone ==
  /\ pc = "pulls" /\ todo = {} /\ EndCycle
  /\ UNCHANGED <<gate, request>> /\ Journal

-------------------------------------------------------------------------------
(* Properties *)

\* A gate that lets a pull in is journaled: whatever ends a cycle, the next one finds the
\* request and settles it before it admits anything else.
GateIsJournaled ==
  lost = 0 =>
    \A p \in Pulls :
      gate[p] = "success" /\ pull[p] = "open"
        => used[p] \in Requests /\ PullOf[used[p]] = p /\ request[used[p]] = "merging"

\* A merge call is never sent twice for a request, not even by a broker whose journal was
\* restored from before the request: the external id of the gate remembers it.
OneAttempt == \A q \in Requests : puts[q] <= 1

\* A pull goes in on the main its admitted request was made on, however late the call that
\* merges it arrives; only a change past the rulesets can come in between.
MergedOnBase ==
  \A p \in Pulls :
    pull[p] = "merged" => mergedBy[p] \in Requests /\ mergedOn[p] \in {base[mergedBy[p]], Alien}
==============================================================================
