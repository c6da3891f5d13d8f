----------------------------- MODULE BoundedQueue -----------------------------
(***************************************************************************)
(* metriplane/pipeline/bounded_queue.py: a bounded FIFO queue with an      *)
(* overflow policy, shared by producer and consumer threads.  Everything   *)
(* happens under one Condition, so a step is what a thread does between    *)
(* acquiring it and releasing or waiting on it.                            *)
(*                                                                         *)
(* An item is numbered by the put that the queue accepts it from: items    *)
(* are 1, 2, .. in the order in which they are appended.                   *)
(***************************************************************************)
EXTENDS Integers, Sequences, FiniteSets

CONSTANTS
  Producers,  \* threads that call put()
  Getters,    \* threads that call get()
  Iterators,  \* threads that run  for item in queue
  Managers,   \* threads that call close(), clear() and drain()
  Policies,   \* the policies a queue is constructed with
  Sizes,      \* the values of maxsize it is constructed with
  PutModes,   \* "now": block=False, "wait": block=True, "timed": with a timeout
  GetModes,
  MaxCalls    \* bound: number of put() calls

Consumers == Getters \cup Iterators
Callers   == Producers \cup Consumers
Modes     == {"now", "wait", "timed"}
Policy    == {"KEEP_ALL", "DROP_OLDEST", "KEEP_LATEST"}

ASSUME QueueAssumption ==
  /\ Producers \cap Consumers = {} /\ Getters \cap Iterators = {}
  /\ Policies \subseteq Policy
  /\ Sizes \subseteq Nat \ {0}
  /\ PutModes \subseteq Modes /\ GetModes \subseteq Modes
  /\ MaxCalls \in Nat

VARIABLES
  policy, maxsize,  \* as constructed
  q,                \* the items queued
  closed,
  dropped_total,
  waiters,          \* the condition's waiters, notified first in first out
  pc,               \* where each thread is; "wait" or "timed" but not in waiters: notified
  calls,            \* number of put() calls so far
  accepted,         \* number of puts that returned ok
  taken,            \* items that get() or drain() returned, in order
  discarded,        \* items evicted by a put
  cleared,          \* items removed by clear()
  sealed            \* accepted, when the queue was closed

conf  == <<policy, maxsize>>
fates == <<taken, discarded, cleared>>
vars  == <<conf, q, closed, dropped_total, waiters, pc, calls, accepted, fates, sealed>>

Items == 1 .. MaxCalls
Elements(s) == {s[i] : i \in DOMAIN s}

Waiting(t)  == pc[t] \in {"wait", "timed"}

\* "All policies guarantee: qsize() <= maxsize" (line 21), also when several
\* producers that waited for the same space go on one after the other.
TypeOK ==
  /\ policy \in Policies /\ maxsize \in Sizes
  /\ q \in Seq(Items) /\ Len(q) <= maxsize
  /\ closed \in BOOLEAN
  /\ dropped_total \in 0 .. MaxCalls
  /\ waiters \in Seq(Callers) /\ Len(waiters) = Cardinality(Elements(waiters))
  /\ pc \in [Callers -> {"ready", "wait", "timed", "is_closed", "is_empty", "ended"}]
  /\ Elements(waiters) \subseteq {t \in Callers : Waiting(t)}
  /\ calls \in 0 .. MaxCalls /\ accepted \in 0 .. calls /\ sealed \in 0 .. accepted
  /\ taken \in Seq(Items) /\ discarded \subseteq Items /\ cleared \subseteq Items

Init ==
  /\ policy \in Policies /\ maxsize \in Sizes
  /\ q = <<>> /\ closed = FALSE /\ dropped_total = 0
  /\ waiters = <<>>
  /\ pc = [t \in Callers |-> "ready"]
  /\ calls = 0 /\ accepted = 0 /\ sealed = 0
  /\ taken = <<>> /\ discarded = {} /\ cleared = {}

Full == Len(q) >= maxsize

--------------------------------------------------------------------------------
(* threading.Condition, as CPython implements it.                          *)

\* Defect: close() tells nobody.
NotifyNone(ws) == ws

Notify(ws)    == IF ws = <<>> THEN ws ELSE Tail(ws)
NotifyAll(ws) == <<>>
Leave(t)      == SelectSeq(waiters, LAMBDA w : w # t)

Goto(t, p) == pc' = [pc EXCEPT ![t] = p]

\* t releases the lock and waits, in mode m; it is not on the list yet.
Wait(t, m) == waiters' = Append(waiters, t) /\ Goto(t, m)

\* Defect: timeouts never expire.
AwakeWhenTold(t) == Waiting(t) /\ t \notin Elements(waiters)

\* A notified thread goes on.  So does one whose timeout expires; it takes
\* itself off the list when it has the lock back.
Awake(t) == Waiting(t) /\ (t \in Elements(waiters) => pc[t] = "timed")

--------------------------------------------------------------------------------
(* put                                                                     *)

\* The item is appended, one waiter notified, ok returned.
Accept(p, rest, ws) ==
  /\ q' = Append(rest, accepted + 1)
  /\ accepted' = accepted + 1
  /\ waiters' = Notify(ws)
  /\ Goto(p, "ready")

\* put raises QueueClosed or returns a result that is not ok.
Decline(p, ws) == waiters' = ws /\ Goto(p, "ready") /\ UNCHANGED <<q, accepted>>

Evict(n) == /\ discarded' = discarded \cup {q[i] : i \in 1 .. n}
            /\ dropped_total' = dropped_total + n
NoEviction == UNCHANGED <<discarded, dropped_total>>

Call(p) ==
  /\ pc[p] = "ready" /\ calls < MaxCalls
  /\ calls' = calls + 1
  /\ UNCHANGED <<conf, closed, taken, cleared, sealed>>

PutClosed(p) == /\ Call(p) /\ closed
                /\ Decline(p, waiters) /\ NoEviction

PutSpace(p) == /\ Call(p) /\ ~closed /\ ~Full
               /\ Accept(p, q, waiters) /\ NoEviction

PutWait(p, m) == /\ Call(p) /\ ~closed /\ Full /\ m # "now"
                 /\ Wait(p, m)
                 /\ UNCHANGED <<q, accepted>> /\ NoEviction

\* Defect: the newest item makes room.
PutDropNewest(p, m) == /\ Call(p) /\ ~closed /\ Full /\ m = "now"
                       /\ policy = "DROP_OLDEST"
                       /\ Accept(p, SubSeq(q, 1, Len(q) - 1), waiters)
                       /\ discarded' = discarded \cup {q[Len(q)]}
                       /\ dropped_total' = dropped_total + 1

PutDropOldest(p, m) == /\ Call(p) /\ ~closed /\ Full /\ m = "now"
                       /\ policy = "DROP_OLDEST"
                       /\ Accept(p, Tail(q), waiters) /\ Evict(1)

\* Defect: a drained backlog counts as one drop.
PutKeepUncounted(p, m) == /\ Call(p) /\ ~closed /\ Full /\ m = "now"
                          /\ policy = "KEEP_LATEST"
                          /\ Accept(p, <<>>, waiters) /\ Evict(1)

PutKeepLatest(p, m) == /\ Call(p) /\ ~closed /\ Full /\ m = "now"
                       /\ policy = "KEEP_LATEST"
                       /\ Accept(p, <<>>, waiters) /\ Evict(Len(q))

PutRefused(p, m) == /\ Call(p) /\ ~closed /\ Full /\ m = "now"
                    /\ policy = "KEEP_ALL"
                    /\ Decline(p, waiters) /\ NoEviction

Resume(t) == Awake(t) /\ UNCHANGED <<conf, closed, calls, sealed>>

\* Space is looked at before closed.
PutAfterWait(p) == /\ Resume(p) /\ ~Full
                   /\ Accept(p, q, Leave(p))
                   /\ UNCHANGED <<fates, dropped_total>>

PutInterrupted(p) == /\ Resume(p) /\ Full /\ closed
                     /\ Decline(p, Leave(p))
                     /\ UNCHANGED <<fates, dropped_total>>

PutTimeout(p) == /\ Resume(p) /\ Full /\ ~closed /\ pc[p] = "timed"
                 /\ Decline(p, Leave(p))
                 /\ UNCHANGED <<fates, dropped_total>>

\* Notified, but somebody else was faster.
PutWaitAgain(p) == /\ Resume(p) /\ Full /\ ~closed /\ p \notin Elements(waiters)
                   /\ Wait(p, pc[p])
                   /\ UNCHANGED <<q, accepted, fates, dropped_total>>

--------------------------------------------------------------------------------
(* get and __iter__, whose get() has a timeout of 0.25 s                   *)

ModesOf(c) == IF c \in Iterators THEN {"timed"} ELSE GetModes

\* get raises queue.Empty; the iterator looks at closed and empty next.
Nothing(c) == Goto(c, IF c \in Iterators THEN "is_closed" ELSE "ready")

Deliver(c, ws) ==
  /\ q' = Tail(q)
  /\ taken' = Append(taken, Head(q))
  /\ waiters' = Notify(ws)
  /\ Goto(c, "ready")
  /\ UNCHANGED <<discarded, cleared>>

CallGet(c, m) ==
  /\ pc[c] = "ready" /\ m \in ModesOf(c)
  /\ UNCHANGED <<conf, closed, dropped_total, calls, accepted, sealed>>

GetItem(c, m) == CallGet(c, m) /\ q # <<>> /\ Deliver(c, waiters)

GetNothing(c, m) == /\ CallGet(c, m) /\ q = <<>> /\ (m = "now" \/ closed)
                    /\ Nothing(c)
                    /\ UNCHANGED <<q, waiters, fates>>

GetWait(c, m) == /\ CallGet(c, m) /\ q = <<>> /\ m # "now" /\ ~closed
                 /\ Wait(c, m)
                 /\ UNCHANGED <<q, fates>>

ResumeGet(c) == Resume(c) /\ UNCHANGED <<dropped_total, accepted>>

GetAfterWait(c) == ResumeGet(c) /\ q # <<>> /\ Deliver(c, Leave(c))

GetEmpty(c) == /\ ResumeGet(c) /\ q = <<>> /\ (closed \/ pc[c] = "timed")
               /\ waiters' = Leave(c) /\ Nothing(c)
               /\ UNCHANGED <<q, fates>>

GetWaitAgain(c) == /\ ResumeGet(c) /\ q = <<>> /\ ~closed /\ c \notin Elements(waiters)
                   /\ Wait(c, pc[c])
                   /\ UNCHANGED <<q, fates>>

\* Defect: closed is taken for drained.
IterClosedEnds(c) == /\ pc[c] = "is_closed"
                     /\ Goto(c, IF closed THEN "ended" ELSE "ready")
                     /\ UNCHANGED <<conf, q, closed, dropped_total, waiters, calls, accepted,
                                    fates, sealed>>

IterIsClosed(c) == /\ pc[c] = "is_closed"
                   /\ Goto(c, IF closed THEN "is_empty" ELSE "ready")
                   /\ UNCHANGED <<conf, q, closed, dropped_total, waiters, calls, accepted,
                                  fates, sealed>>

IterIsEmpty(c) == /\ pc[c] = "is_empty"
                  /\ Goto(c, IF q = <<>> THEN "ended" ELSE "ready")
                  /\ UNCHANGED <<conf, q, closed, dropped_total, waiters, calls, accepted,
                                 fates, sealed>>

--------------------------------------------------------------------------------
(* close, clear and drain, which any thread may call                       *)

Close == /\ closed' = TRUE
         /\ sealed' = IF closed THEN sealed ELSE accepted
         /\ waiters' = NotifyAll(waiters)
         /\ UNCHANGED <<conf, q, dropped_total, pc, calls, accepted, fates>>

Clear == /\ q # <<>>
         /\ q' = <<>>
         /\ cleared' = cleared \cup Elements(q)
         /\ waiters' = NotifyAll(waiters)
         /\ UNCHANGED <<conf, closed, dropped_total, pc, calls, accepted, taken, discarded,
                        sealed>>

Drain(n) == /\ q # <<>> /\ n \in 1 .. Len(q)
            /\ taken' = taken \o SubSeq(q, 1, n)
            /\ q' = SubSeq(q, n + 1, Len(q))
            /\ waiters' = NotifyAll(waiters)
            /\ UNCHANGED <<conf, closed, dropped_total, pc, calls, accepted, discarded,
                           cleared, sealed>>

--------------------------------------------------------------------------------

StartPut(p) ==
  \E m \in PutModes :
    \/ PutClosed(p) \/ PutSpace(p) \/ PutWait(p, m)
    \/ PutDropOldest(p, m) \/ PutKeepLatest(p, m) \/ PutRefused(p, m)

FinishPut(p) == PutAfterWait(p) \/ PutInterrupted(p) \/ PutTimeout(p) \/ PutWaitAgain(p)

StartGet(c)  == \E m \in Modes : GetItem(c, m) \/ GetNothing(c, m) \/ GetWait(c, m)
FinishGet(c) == GetAfterWait(c) \/ GetEmpty(c) \/ GetWaitAgain(c)
Iterate(c)   == IterIsClosed(c) \/ IterIsEmpty(c)

Manage == Close \/ Clear \/ \E n \in Items : Drain(n)

Next ==
  \/ \E p \in Producers : StartPut(p) \/ FinishPut(p)
  \/ \E c \in Consumers : StartGet(c) \/ FinishGet(c)
  \/ \E c \in Iterators : Iterate(c)
  \/ Managers # {} /\ Manage

Spec == Init /\ [][Next]_vars

\* A thread that can run gets to run, and a consumer loops over get().
FairSpec ==
  /\ Spec
  /\ \A p \in Producers : WF_vars(FinishPut(p))
  /\ \A c \in Consumers : WF_vars(StartGet(c)) /\ WF_vars(FinishGet(c))
  /\ \A c \in Iterators : WF_vars(Iterate(c))

--------------------------------------------------------------------------------
(* Properties.                                                             *)

\* Every item whose put returned ok is in exactly one place: queued, returned
\* to a consumer, evicted and counted in dropped_total, or cleared.
Accounted ==
  /\ 1 .. accepted = Elements(q) \cup Elements(taken) \cup discarded \cup cleared
  /\ accepted = Len(q) + Len(taken) + Cardinality(discarded) + Cardinality(cleared)
  /\ dropped_total = Cardinality(discarded)

\* First in, first out over all consumers, and an overflow only costs items
\* older than any that is left: a slow consumer always gets to the newest.
InOrder ==
  LET s == taken \o q IN
  /\ \A i, j \in DOMAIN s : i < j => s[i] < s[j]
  /\ \A x \in discarded, i \in DOMAIN q : x < q[i]
  /\ accepted \notin discarded

\* An iteration ends on a closed queue only, and not before everything that was
\* accepted up to close() has left the queue.
DrainedBeforeEnd ==
  \A c \in Iterators : pc[c] = "ended" =>
    closed /\ \A x \in Elements(q) : x > sealed

\* Every accepted item leaves the queue, whatever thread a notification wakes (put()
\* and get() wake one of all who wait, lines 198 and 255) and whoever gives up meanwhile.
\* It takes a consumer that polls, as the iterator does (line 262): where all wait
\* without a timeout, the one notification for a consumer can go to a producer.
Leaves == \A x \in Items : x \in Elements(q) ~> x \notin Elements(q)

\* close() releases every thread that waits.
CloseReleases == \A t \in Callers : closed ~> ~Waiting(t)

================================================================================
