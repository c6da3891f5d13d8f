------------------------- MODULE PublicationInvariant -------------------------
(***************************************************************************)
(* The inductive invariant of Publication: what the journal says about     *)
(* every destination and its backup, whatever step was interrupted, and    *)
(* what holds at every place of a running call.  TLC checks it on an       *)
(* instance; PublicationProofs proves it inductive for all.                *)
(***************************************************************************)
EXTENDS Publication

\* The record of a transaction, going forward, about one destination.
ForwardFiles(i) ==
  LET new   == journal.gen[i]
      prior == journal.previous_targets[i]
      doing(kind) == journal.operation.kind = kind /\ journal.operation.index = i
  IN
  /\ quarantine[i] = None
  /\ i < journal.published => dest[i] = new /\ backup[i] = prior
  /\ i >= journal.published =>
       /\ doing("publish") => dest[i] \in {None, new} /\ backup[i] = prior
       /\ ~doing("publish") /\ i < journal.backed_up => dest[i] = None /\ backup[i] = prior
       /\ ~doing("publish") /\ i >= journal.backed_up =>
            \/ dest[i] = prior /\ backup[i] = None
            \/ doing("backup") /\ dest[i] = None /\ backup[i] = prior

\* The same once a rollback may have started.
IndexFiles(i) ==
  LET new   == journal.gen[i]
      prior == journal.previous_targets[i]
      kind  == journal.rollback.kind
  IN
  /\ i > RollIndex => dest[i] = prior /\ backup[i] = None
  /\ i < RollIndex \/ (i = RollIndex /\ kind = "none") => ForwardFiles(i)
  /\ i = RollIndex /\ kind = "remove" =>
       /\ backup[i] = prior
       /\ \/ dest[i] = new /\ quarantine[i] = None
          \/ dest[i] = None /\ quarantine[i] = new
  /\ i = RollIndex /\ kind = "restore" =>
       \/ dest[i] = None /\ backup[i] = prior
       \/ dest[i] = prior /\ backup[i] = None

ClosedOK ==
  journal = None => /\ backup = Empty /\ quarantine = Empty
                    /\ pointer # None => dest = pointer

OpenOK ==
  journal # None /\ ~Committed =>
    /\ PriorEvidenceAccepted(journal)
    /\ pointer # None => journal.previous_targets = pointer
    /\ \A i \in Index : IndexFiles(i)

CommittedOK ==
  Committed => CommitAccepted(journal) /\ dest = journal.gen /\ quarantine = Empty

JournalOK == JournalAccepted /\ PointerAccepted

ContOK ==
  /\ pc \in {"prepare", "record"} \cup BodyPcs => cont = "commit"
  /\ pc \in RecoverPcs => cont # "commit"

PresenceOK ==
  /\ pc \in {"prepare", "record", "returning"} => journal = None
  /\ pc \in {"cleanup"} \cup BodyPcs \cup (RecoverPcs \ {"recover"}) => journal # None
  /\ pc = "record" => request.gen \in generations

\* The fields of the journal while the transaction that wrote it still runs.
BodyOK ==
  pc \in BodyPcs =>
    /\ journal.gen = request.gen /\ journal.overwrite = request.overwrite
    /\ journal.rolled_back = 0 /\ journal.rollback = NoOp
    /\ Committed <=> pc \in {"pointer", "pointer_done", "verify_pointer"}
    /\ pc \in {"pointer_done", "verify_pointer"} => pointer = journal.gen
    /\ pc = "stage" => journal.backed_up = 0 /\ journal.published = 0
    /\ pc \in {"stage", "backup", "publish", "verify"} => journal.operation = NoOp
    /\ pc \in {"backup", "backup_check", "backup_move", "backup_done"} =>
         journal.overwrite /\ journal.backed_up < N /\ journal.published = 0
    /\ pc \in {"publish", "publish_check", "publish_move", "publish_done"} =>
         journal.published < N /\ (journal.overwrite => journal.backed_up = N)
    /\ pc = "verify" => journal.published = N

\* The destination that is being backed up or published right now.
OperationOK ==
  LET i == journal.operation.index
      prior == journal.previous_targets[i]
  IN
  /\ pc \in {"backup_check", "backup_move", "backup_done"} =>
       /\ journal.operation.kind = "backup"
       /\ pc # "backup_done" => dest[i] = prior
       /\ pc = "backup_move" => prior # None
       /\ pc = "backup_done" => dest[i] = None /\ backup[i] = prior
  /\ pc \in {"publish_check", "publish_move", "publish_done"} =>
       /\ journal.operation.kind = "publish"
       /\ pc # "publish_done" => dest[i] = None
       /\ pc = "publish_done" => dest[i] = journal.gen[i]

RecoveryOK ==
  /\ pc = "roll_forward" => Committed
  /\ pc \in {"rollback", "remove", "removed", "restore", "restored"} => ~Committed
  /\ pc \in {"remove", "removed"} => journal.rollback.kind = "remove"
  /\ pc \in {"restore", "restored"} => journal.rollback.kind = "restore"
  /\ pc \in {"remove", "removed", "restore", "restored"} => journal.rolled_back < N
  /\ pc = "remove" => dest[RollIndex] = journal.gen[RollIndex]
  /\ pc = "removed" => dest[RollIndex] = None
  /\ pc = "restore" => backup[RollIndex] = Prior /\ Prior # None
  /\ pc = "restored" => dest[RollIndex] = Prior

CleanupOK ==
  pc = "cleanup" =>
    /\ Committed => pointer = journal.gen
    /\ ~Committed => journal.rolled_back = N /\ cont # "commit"

\* What the files say, whoever looks at them, and what a running call relies on.
StoreOK   == ClosedOK /\ OpenOK /\ CommittedOK /\ JournalOK
ControlOK == ContOK /\ PresenceOK /\ BodyOK /\ OperationOK /\ RecoveryOK /\ CleanupOK

IInv == TypeOK /\ StoreOK /\ ControlOK
===============================================================================
