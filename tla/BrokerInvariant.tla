---------------------------- MODULE BrokerInvariant ----------------------------
(***************************************************************************)
(* Why the safety properties of Broker hold: what is true of the leases    *)
(* and of the merge requests at every place of the broker's process.       *)
(* Module BrokerProofs proves that each of these is inductive.             *)
(***************************************************************************)
EXTENDS Broker

\* Where the reconciliation of a lease holds what it has read.
Judging == {"judge", "activate", "release", "unlock", "acknowledge", "finish"}

TypeInv == TypeOK /\ (pc \notin Judging => seen = Unseen)

-------------------------------------------------------------------------------
(* Leases *)

\* How far a run came follows from where it is, until it fails; it never came past the wait
\* without its check run.
RunInv ==
  \A r \in Runs :
    /\ step[r] \in {"none", "prep", "wait"} => reached[r] = 0
    /\ step[r] \in {"reassert", "upload"} => reached[r] = 1
    /\ step[r] = "verify" => reached[r] = 2
    /\ step[r] \in {"observe", "done"} => reached[r] = 3
    /\ half[r] \/ reached[r] >= 1 => check[r].status # "none"

Releasing == {"unlock", "acknowledge", "finish", "recoverDelete", "recoverAcknowledge",
              "recoverFinish"}

\* The lease the process works on has the status the place calls for.
CursorInv ==
  /\ pc = "judge" => lease[cursor].status \in {"creating", "active"}
  /\ pc = "activate" => lease[cursor].status = "creating"
  /\ pc = "release" => lease[cursor].status = "active"
  /\ pc \in Releasing => lease[cursor].status = "releasing" /\ reached[cursor] = 3
  /\ pc \in {"acknowledge", "finish", "recoverAcknowledge", "recoverFinish"} => cursor \notin refs
  /\ pc \in {"finish", "recoverFinish"} => check[cursor].status = "success"

LeaseInv == RunInv /\ CursorInv /\ TerminalProofs /\ FenceCoversProvider

-------------------------------------------------------------------------------
(* Merge requests *)

\* From the reservation to the last record, the request is merging or its gate is closed.
GateInv ==
  lost = 0 =>
    /\ GateIsJournaled
    /\ pc \in {"open", "ready", "put", "answer"} => request[cursor] = "merging"
    /\ pc \in {"orphan", "reject", "doubt"} => gate[PullOf[cursor]] = "closed"

\* A request that was sent can be selected no more: it is outdated, or its pull's gate names
\* it, or it is an owner's and the gate names another.
Retired(q) ==
  \/ offer[q] = "old"
  \/ used[PullOf[q]] = q
  \/ q \in OwnerRequests /\ used[PullOf[q]] # None

AttemptInv ==
  /\ \A q \in Requests : puts[q] = 0 \/ (puts[q] = 1 /\ offer[q] # "none" /\ Retired(q))
  /\ \A q, s \in Requests :
       q # s /\ PullOf[q] = PullOf[s] /\ SameKind(q, s) /\ offer[q] \in {"live", "idle"}
         => offer[s] \in {"none", "old"}
  /\ pc \in {"seal", "open", "ready", "put"} => puts[cursor] = 0 /\ offer[cursor] # "none"
  /\ pc = "open" =>
       \A q \in Requests :
         PullOf[q] = PullOf[cursor] /\ puts[q] = 1 => offer[q] = "old" \/ q \in OwnerRequests
  /\ pc \in {"ready", "put"} => used[PullOf[cursor]] = cursor
-------------------------------------------------------------------------------
(* Merge requests, and leases beside them *)

LetsIn(p) == gate[p] = "success" /\ pull[p] = "open"

\* Where the process can be between the closing of the gates and the opening of one.
Gated == (AtRun \ {"recoverDelete", "recoverAcknowledge", "recoverFinish"})
           \cup {"lease", "pulls", "seal", "open"}

Known(q) == q \in Requests /\ offer[q] # "none"

\* One gate at most is open, for a request made on the commit main is at.
BaseInv ==
  /\ \A p \in Pulls : pull[p] = "merged" => Known(mergedBy[p])
  /\ MergedOnBase
  /\ \A p \in Pulls : LetsIn(p) => Known(used[p]) /\ main \in {base[used[p]], Alien}
  /\ \A p, s \in Pulls : LetsIn(p) /\ LetsIn(s) => p = s
  /\ pc \in Gated => \A p \in Pulls : ~LetsIn(p)
  /\ pc = "gates" => \A p \in Pulls : pull[p] = "open" => p \in todo
  /\ pc = "open" => main \in {base[cursor], Alien}

\* A run that came past the wait and whose release is not announced, but for the cases in
\* which MainHeld gives up.
Forgotten(r) == lost > 0 /\ (reached[r] = 3 \/ drift > 0)
Guarded(r)   == reached[r] >= 1 /\ check[r].status # "success" /\ ~Forgotten(r)

\* One lease at a time; while a gate is open or may be opened, there is none.
MainInv ==
  /\ \A r, s \in Runs : r \in refs \cup Fence /\ s \in refs \cup Fence => r = s
  /\ pc = "reserve" => Fence = {} /\ refs = {}
  /\ \A r \in Runs : reached[r] >= 1 => r \in refs \/ reached[r] = 3 \/ drift > 0
  /\ \A r \in Runs : Guarded(r) => r \in Fence \cup refs
  /\ pc \in {"pulls", "seal", "open"} \/ (\E p \in Pulls : LetsIn(p))
       => refs = {} /\ \A r \in Runs : ~Guarded(r)

\* What is acquired and not uploaded yet is what main is at.
CommitInv == drift = 0 => \A r \in Runs : reached[r] = 1 => sha[r] = main
==============================================================================
