---------------------------- MODULE PublicationOpen ----------------------------
(***************************************************************************)
(* Publication beside a program that knows nothing of the store and        *)
(* creates, changes or removes public destinations at any moment.  It does *)
(* not take the publication lock, so it also acts between a check of a     *)
(* destination and the rename that follows it.                             *)
(***************************************************************************)
EXTENDS Publication

CONSTANT MaxWrites   \* bound: how often the other program acts

ASSUME MaxWritesAssumption == MaxWrites \in Nat

VARIABLES
  foreign,   \* what the other program left at a destination during the open transaction
  defaced,   \* where it destroyed a previous artifact that had no backup yet
  writes     \* how often it acted

ovars == <<vars, foreign, defaced, writes>>

OpenInit == Init /\ foreign = Empty /\ defaced = {} /\ writes = 0

\* Another program writes or removes destination i.
Write(i, c) ==
  /\ writes < MaxWrites
  /\ c # dest[i]
  /\ dest' = [dest EXCEPT ![i] = c]
  /\ foreign' = IF journal = None THEN foreign ELSE [foreign EXCEPT ![i] = c]
  /\ defaced' = IF /\ journal # None /\ dest[i] # None /\ dest[i] # backup[i]
                   /\ dest[i] = journal.previous_targets[i]
                THEN defaced \cup {i} ELSE defaced
  /\ writes' = writes + 1
  /\ UNCHANGED <<backup, quarantine, store, pc, cont, request, outcome>>

\* The bookkeeping concerns one transaction.
Own == /\ Next \/ Refusals
       /\ foreign' = IF journal' = None THEN Empty ELSE foreign
       /\ defaced' = IF journal' = None THEN {} ELSE defaced
       /\ UNCHANGED writes

OpenNext == Own \/ \E i \in Index, c \in Artifact : Write(i, c)

OpenSpec == OpenInit /\ [][OpenNext]_ovars

\* A call that runs keeps running (nothing in it waits), and somebody calls again
\* after an interruption: the journal is only looked at by a later call.  The other
\* program owes nothing.
OpenFairSpec == OpenSpec /\ WF_ovars(Own /\ Advance) /\ WF_ovars(Own /\ RecoverPublication)

--------------------------------------------------------------------------------

\* Something the other program left, that is not what the transaction publishes
\* anyway, is still there: in place or set aside.
Retained(i) ==
  foreign[i] # None /\ foreign[i] # journal.gen[i] =>
    foreign[i] \in {dest[i], backup[i], quarantine[i]}

\* Without overwrite nothing of another program is ever lost, whenever it
\* appears: publishing uses an exclusive rename (line 1476), and a rollback moves
\* what it takes for its own artifact aside and looks at it again (lines 1165-1177).
ForeignRetained ==
  journal # None /\ ~journal.overwrite => \A i \in Index : Retained(i)

\* Whatever the other program does, the protocol itself never loses a previous
\* artifact before the commit point: only what the other program destroyed
\* before its backup is gone.
PriorRetainedBesideWriter ==
  journal # None /\ ~Committed =>
    \A i \in Index \ defaced :
      journal.previous_targets[i] # None =>
        journal.previous_targets[i] \in {dest[i], backup[i]}

\* Once errors and crashes stop, the later calls close an open transaction, forward
\* or backward.  Only what the other program put in the way can keep it open
\* (recovery fails closed, lines 956-1058 and 1132-1240).
ClosedUnlessWritten ==
  <>[][~Raise /\ ~Crash]_ovars => []<>(journal = None \/ writes > 0)

================================================================================
