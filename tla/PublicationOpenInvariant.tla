----------------------- MODULE PublicationOpenInvariant -----------------------
(***************************************************************************)
(* The inductive invariant of PublicationOpen.  What somebody else may     *)
(* change at any moment, the destinations, says nothing; what the journal  *)
(* says of the backups and of the discarded artifacts, which nobody else   *)
(* touches, still holds, and is enough to find what must not be lost.      *)
(***************************************************************************)
EXTENDS PublicationInvariant, PublicationOpen

\* What the journal alone says at each place of a call, whatever the files are.
ProgressOK ==
  /\ journal # None /\ ~Committed => PriorEvidenceAccepted(journal)
  /\ Committed => CommitAccepted(journal)
  /\ pc \in {"backup_check", "backup_move", "backup_done"} => journal.operation.kind = "backup"
  /\ pc = "backup_move" => journal.previous_targets[journal.operation.index] # None
  /\ pc \in {"publish_check", "publish_move", "publish_done"} =>
       journal.operation.kind = "publish"
  /\ pc = "roll_forward" => Committed
  /\ pc \in {"rollback", "remove", "removed", "restore", "restored"} => ~Committed
  /\ pc \in {"remove", "removed", "restore", "restored"} => journal.rolled_back < N
  /\ pc \in {"remove", "removed"} => journal.rollback.kind = "remove"
  /\ pc \in {"restore", "restored"} => journal.rollback.kind = "restore"

CallOK == ContOK /\ PresenceOK /\ BodyOK /\ CleanupOK /\ JournalOK /\ ProgressOK

\* Where the transaction directory has a backup or a discarded artifact of destination i.
PlacesOK(i) ==
  LET new   == journal.gen[i]
      prior == journal.previous_targets[i]
      kind  == journal.rollback.kind
  IN
  /\ i > RollIndex => backup[i] = None /\ quarantine[i] \in {None, new}
  /\ i < RollIndex \/ (i = RollIndex /\ kind = "none") =>
       /\ quarantine[i] = None
       /\ i < journal.backed_up => backup[i] = prior
       /\ i >= journal.backed_up =>
            \/ backup[i] = None
            \/ prior # None /\ journal.operation = [kind |-> "backup", index |-> i]
  /\ i = RollIndex /\ kind = "remove" => backup[i] = prior
  /\ i = RollIndex /\ kind = "restore" => quarantine[i] \in {None, new}

DirectoryOK ==
  /\ journal = None => backup = Empty /\ quarantine = Empty
  /\ Committed => quarantine = Empty
  /\ journal # None /\ ~Committed => \A i \in Index : PlacesOK(i)
  /\ pc \in {"backup_check", "backup_move"} => backup[journal.operation.index] = None
  /\ pc = "restore" => backup[RollIndex] = Prior
  /\ pc = "restored" => backup[RollIndex] = None

\* What the other program left and no exclusive rename could replace is in place or discarded.
ForeignOK ==
  /\ foreign \in [Index -> Artifact]
  /\ journal = None => foreign = Empty
  /\ journal # None /\ ~journal.overwrite =>
       \A i \in Index : foreign[i] # None /\ foreign[i] # journal.gen[i] =>
         foreign[i] \in {dest[i], quarantine[i]}

OInv == TypeOK /\ CallOK /\ DirectoryOK /\ ForeignOK /\ PriorRetainedBesideWriter
================================================================================
