------------------------------ MODULE Publication ------------------------------
(***************************************************************************)
(* The durable publication protocol of metriplane/publication.py: one      *)
(* namespace (one set of N sibling destinations), a journal, a transaction *)
(* directory and a pointer.  The caller that runs holds the store's file   *)
(* lock from its first step to its last, so one program counter is enough; *)
(* a crash releases the lock and leaves the files as they are.             *)
(*                                                                         *)
(* Every step is one durable effect (a rename or a journal write together  *)
(* with its fsync) and the checks that precede it, except where a          *)
(* destination is checked first and renamed afterwards: those are two      *)
(* steps, because something else may act in between.                       *)
(***************************************************************************)
EXTENDS Integers

CONSTANTS
  N,        \* number of destinations
  Content,  \* what an artifact can hold
  None      \* nothing at this path

Index      == 0 .. (N - 1)
Artifact   == Content \cup {None}
\* A generation is named by the digest of what it holds, so it is its content.
Generation == [Index -> Content]
Request    == [gen : Generation, overwrite : BOOLEAN]

Operation  == [kind : {"none", "backup", "publish"}, index : Index]
RollbackOp == [kind : {"none", "remove", "restore"}, index : Index]
NoOp       == [kind |-> "none", index |-> 0]

\* The lists backed_up, published and rolled_back hold the indexes 0, 1, ..
\* (N-1, N-2, .. for rolled_back) in order, so their length says it all.
Journal == [phase : {"prepared", "backed_up", "publishing", "published", "pointer_committed"},
            gen : Generation, overwrite : BOOLEAN,
            previous_targets : [Index -> Artifact],
            backed_up : 0 .. N, previous : SUBSET Index,
            published : 0 .. N, operation : Operation,
            rolled_back : 0 .. N, rollback : RollbackOp]

ASSUME NAssumption == N \in Nat \ {0}
ASSUME NoneAssumption == None \notin Content /\ None \notin Generation /\ None \notin Journal

VARIABLES
  dest,         \* the public destinations
  backup,       \* previous-<index> in the transaction directory
  quarantine,   \* discard-<index> in the transaction directory
  generations,  \* complete generations in the store
  pointer,      \* current.json
  journal,      \* transactions/active.json
  pc,           \* where the caller holding the lock is; "idle": nobody does
  cont,         \* what it does when the recovery or cleanup it runs returns
  request,      \* arguments of the latest publish_transaction
  outcome       \* how the latest call ended

files == <<dest, backup, quarantine>>
store == <<generations, pointer, journal>>
vars  == <<dest, backup, quarantine, generations, pointer, journal, pc, cont, request, outcome>>

RecoverPcs == {"recover", "roll_forward", "rollback", "remove", "removed", "restore", "restored"}
BodyPcs    == {"stage", "backup", "backup_check", "backup_move", "backup_done", "publish",
               "publish_check", "publish_move", "publish_done", "verify", "pointer",
               "pointer_done", "verify_pointer"}
EndPcs     == {"cleanup", "returning"}

TypeOK ==
  /\ dest \in [Index -> Artifact]
  /\ backup \in [Index -> Artifact]
  /\ quarantine \in [Index -> Artifact]
  /\ generations \in SUBSET Generation
  /\ pointer \in Generation \cup {None}
  /\ journal \in Journal \cup {None}
  /\ pc \in {"idle", "prepare", "record"} \cup RecoverPcs \cup BodyPcs \cup EndPcs
  /\ cont \in {"begin", "only", "abort", "commit"}
  /\ request \in Request
  /\ outcome \in {"none", "ok", "error", "blocked", "crashed"}

Empty == [i \in Index |-> None]

\* A program starts on any destination directory without a store.
Init ==
  /\ dest \in [Index -> Artifact]
  /\ backup = Empty
  /\ quarantine = Empty
  /\ generations = {}
  /\ pointer = None
  /\ journal = None
  /\ pc = "idle"
  /\ cont = "only"
  /\ request \in Request
  /\ outcome = "none"

--------------------------------------------------------------------------------
(* What the functions check of a journal.                                  *)

Committed == journal # None /\ journal.phase \in {"published", "pointer_committed"}

\* The index that the rollback loop is at.
RollIndex == N - 1 - journal.rolled_back

ProgressAccepted(j) ==
  /\ j.previous \subseteq 0 .. (j.backed_up - 1)
  /\ j.overwrite /\ j.published > 0 => j.backed_up = N
  /\ ~j.overwrite => j.backed_up = 0 /\ j.previous = {}
  /\ j.operation.kind = "backup" => j.overwrite /\ j.operation.index = j.backed_up
  /\ j.operation.kind = "publish" =>
       j.operation.index = j.published /\ (j.overwrite => j.backed_up = N)

RollbackAccepted(j) ==
  /\ j.rollback.kind # "none" => j.rollback.index = N - 1 - j.rolled_back
  /\ j.rollback.kind = "restore" => j.previous_targets[j.rollback.index] # None

PriorEvidenceAccepted(j) ==
  /\ \A i \in j.previous : j.previous_targets[i] # None
  /\ \A i \in Index : j.previous_targets[i] # None /\ i < j.backed_up => i \in j.previous
  /\ ~j.overwrite => \A i \in Index : j.previous_targets[i] = None

CommitAccepted(j) ==
  j.published = N /\ j.operation = NoOp /\ j.rolled_back = 0 /\ j.rollback = NoOp

\* A pointer that exists names a complete generation.
PointerAccepted == pointer # None => pointer \in generations

--------------------------------------------------------------------------------
(* Ways a call ends or fails.                                              *)

End(o) == pc' = "idle" /\ outcome' = o

\* An error in the body of the transaction: recover, then raise.
Abort == pc' = "recover" /\ cont' = "abort"

\* A PublicationError raised by the recovery itself: the journal stays.
Block == End("blocked") /\ UNCHANGED <<cont, request, files, store>>

SetJournal(j) == journal' = j /\ UNCHANGED <<generations, pointer>>

--------------------------------------------------------------------------------
(* Entering and leaving the two public functions.                          *)

Publish(r) ==
  /\ pc = "idle"
  /\ pc' = "recover" /\ cont' = "begin"
  /\ request' = r /\ outcome' = "none"
  /\ UNCHANGED <<files, store>>

RecoverPublication ==
  /\ pc = "idle"
  /\ pc' = "recover" /\ cont' = "only"
  /\ outcome' = "none"
  /\ UNCHANGED <<request, files, store>>

\* The recovery that opens a publication goes on with it; the one that an
\* error started re-raises; the others report success.
Return ==
  /\ pc = "returning"
  /\ IF cont = "begin"
     THEN pc' = "prepare" /\ cont' = "commit" /\ UNCHANGED outcome
     ELSE End(IF cont = "abort" THEN "error" ELSE "ok") /\ UNCHANGED cont
  /\ UNCHANGED <<request, files, store>>

\* An operation fails, or a check does, and raises.  Inside the try block the
\* exception handler recovers; elsewhere the call ends.  The first journal
\* write stands before the try block and may fail after its rename: "stage".
Raise ==
  /\ \/ cont = "commit" /\ pc \in BodyPcs \cup EndPcs /\ Abort /\ UNCHANGED outcome
     \/ /\ pc \in {"prepare", "record", "stage"} \cup RecoverPcs \/ (pc \in EndPcs /\ cont # "commit")
        /\ End("error") /\ UNCHANGED cont
  /\ UNCHANGED <<request, files, store>>

\* The process dies: the lock is released, the files stay.
Crash ==
  /\ pc # "idle"
  /\ End("crashed")
  /\ UNCHANGED <<cont, request, files, store>>

--------------------------------------------------------------------------------
(* _recover_publication_locked                                             *)

MayRollForward ==
  /\ Committed /\ CommitAccepted(journal)
  /\ \A i \in Index : dest[i] = journal.gen[i]

MayRollBack == journal # None /\ ~Committed /\ PriorEvidenceAccepted(journal)

JournalAccepted ==
  journal # None => /\ journal.gen \in generations
                    /\ ProgressAccepted(journal) /\ RollbackAccepted(journal)

RecoverNothing ==
  /\ pc = "recover" /\ journal = None /\ PointerAccepted
  /\ pc' = "returning"
  /\ UNCHANGED <<cont, request, outcome, files, store>>

RecoverForward ==
  /\ pc = "recover" /\ JournalAccepted /\ MayRollForward
  /\ pc' = "roll_forward"
  /\ UNCHANGED <<cont, request, outcome, files, store>>

RecoverBackward ==
  /\ pc = "recover" /\ JournalAccepted /\ MayRollBack
  /\ pc' = "rollback"
  /\ UNCHANGED <<cont, request, outcome, files, store>>

\* One of the checks of the journal, the pointer or the destinations fails.
RecoverRefuses ==
  /\ pc = "recover"
  /\ IF journal = None THEN ~PointerAccepted
     ELSE ~(JournalAccepted /\ (MayRollForward \/ MayRollBack))

RecoverBlocked == RecoverRefuses /\ Block

RollForward ==
  /\ pc = "roll_forward"
  /\ pointer' = journal.gen
  /\ pc' = "cleanup"
  /\ UNCHANGED <<cont, request, outcome, files, generations, journal>>

\* _cleanup_committed: the members of the transaction directory go one by one,
\* the journal after the last of them.
CleanupMember(i) ==
  /\ pc = "cleanup"
  /\ \/ backup[i] # None /\ backup' = [backup EXCEPT ![i] = None] /\ UNCHANGED quarantine
     \/ quarantine[i] # None /\ quarantine' = [quarantine EXCEPT ![i] = None] /\ UNCHANGED backup
  /\ UNCHANGED <<dest, store, pc, cont, request, outcome>>

\* Defect: the journal stays.
CleanupJournalNever ==
  /\ pc = "cleanup" /\ backup = Empty /\ quarantine = Empty
  /\ pc' = "returning"
  /\ UNCHANGED <<store, cont, request, outcome, files>>

CleanupJournal ==
  /\ pc = "cleanup" /\ backup = Empty /\ quarantine = Empty
  /\ SetJournal(None)
  /\ pc' = "returning"
  /\ UNCHANGED <<cont, request, outcome, files>>

--------------------------------------------------------------------------------
(* _rollback, at the index RollIndex.                                      *)

Rolling     == pc = "rollback" /\ journal.rolled_back < N
Resuming(k) == journal.rollback.kind = k

Touched(kind, count) ==
  RollIndex < count \/ journal.operation = [kind |-> kind, index |-> RollIndex]
PublishTouched == Touched("publish", journal.published)
BackupTouched  == Touched("backup", journal.backed_up)

Prior    == journal.previous_targets[RollIndex]
Expected == journal.gen[RollIndex]
AtDest   == dest[RollIndex]

\* Nothing was done to this index.
MaySkip == Resuming("none") /\ ~PublishTouched /\ ~BackupTouched
\* The new artifact is in place.
MayIntendRemove == Resuming("none") /\ PublishTouched /\ AtDest = Expected
MayRemove == Resuming("remove") /\ AtDest = Expected /\ quarantine[RollIndex] = None
MayFinishRemove == AtDest = None /\ quarantine[RollIndex] = Expected
\* Defect: a destination that is missing needs no rollback.
MayPassAny ==
  /\ Resuming("none") /\ (PublishTouched \/ BackupTouched)
  /\ AtDest = None /\ RollIndex >= journal.published

\* Neither artifact is in place.
MayPass ==
  /\ Resuming("none") /\ (PublishTouched \/ BackupTouched)
  /\ AtDest = None /\ Prior = None /\ RollIndex >= journal.published
MayIntendRestore ==
  /\ Resuming("none") /\ (PublishTouched \/ BackupTouched)
  /\ AtDest = None /\ Prior # None /\ backup[RollIndex] # None
\* The backup rename did not happen.
MayKeep ==
  /\ Resuming("none") /\ ~PublishTouched /\ BackupTouched
  /\ Prior # None /\ AtDest = Prior /\ backup[RollIndex] = None
MayRestore ==
  /\ Resuming("restore") /\ backup[RollIndex] # None /\ backup[RollIndex] = Prior
  /\ AtDest = None
MayFinishRestore == backup[RollIndex] = None /\ AtDest = Prior

Intend(kind) ==
  SetJournal([journal EXCEPT !.rollback = [kind |-> kind, index |-> RollIndex]])
CompleteIndex ==
  SetJournal([journal EXCEPT !.rolled_back = @ + 1, !.rollback = NoOp])

RollbackIndexDone ==
  /\ Rolling /\ (MaySkip \/ MayPass \/ MayKeep)
  /\ CompleteIndex
  /\ UNCHANGED <<pc, cont, request, outcome, files>>

IntendRemove ==
  /\ Rolling /\ MayIntendRemove
  /\ Intend("remove")
  /\ UNCHANGED <<pc, cont, request, outcome, files>>

CheckRemove ==
  /\ Rolling /\ MayRemove
  /\ pc' = "remove"
  /\ UNCHANGED <<cont, request, outcome, files, store>>

\* Whatever is at the destination by now is moved, without replacement.
RemoveMove ==
  /\ pc = "remove" /\ AtDest # None /\ quarantine[RollIndex] = None
  /\ quarantine' = [quarantine EXCEPT ![RollIndex] = AtDest]
  /\ dest' = [dest EXCEPT ![RollIndex] = None]
  /\ pc' = "removed"
  /\ UNCHANGED <<backup, store, cont, request, outcome>>

\* Defect: a removed artifact is never replaced by its backup.
FinishRemoveOnly ==
  /\ pc = "removed" \/ (Rolling /\ Resuming("remove") /\ AtDest = None)
  /\ quarantine[RollIndex] = Expected
  /\ CompleteIndex
  /\ pc' = "rollback"
  /\ UNCHANGED <<cont, request, outcome, files>>

FinishRemove ==
  /\ pc = "removed" \/ (Rolling /\ Resuming("remove") /\ AtDest = None)
  /\ quarantine[RollIndex] = Expected
  /\ IF Prior = None THEN CompleteIndex ELSE Intend("restore")
  /\ pc' = "rollback"
  /\ UNCHANGED <<cont, request, outcome, files>>

IntendRestore ==
  /\ Rolling /\ MayIntendRestore
  /\ Intend("restore")
  /\ UNCHANGED <<pc, cont, request, outcome, files>>

CheckRestore ==
  /\ Rolling /\ MayRestore
  /\ pc' = "restore"
  /\ UNCHANGED <<cont, request, outcome, files, store>>

\* os.replace: the backup takes the place of whatever is there by now.
RestoreMove ==
  /\ pc = "restore"
  /\ dest' = [dest EXCEPT ![RollIndex] = backup[RollIndex]]
  /\ backup' = [backup EXCEPT ![RollIndex] = None]
  /\ pc' = "restored"
  /\ UNCHANGED <<quarantine, store, cont, request, outcome>>

FinishRestore ==
  /\ pc = "restored" \/ (Rolling /\ Resuming("restore") /\ backup[RollIndex] = None)
  /\ AtDest = Prior
  /\ CompleteIndex
  /\ pc' = "rollback"
  /\ UNCHANGED <<cont, request, outcome, files>>

\* What rollback finds at a destination is nothing that a step of its own, or of
\* the publication, leaves there.
RollbackRefuses ==
  \/ /\ Rolling
     /\ ~(MaySkip \/ MayPass \/ MayKeep \/ MayIntendRemove \/ MayRemove \/ MayIntendRestore)
     /\ ~MayRestore
     /\ ~(Resuming("remove") /\ MayFinishRemove)
     /\ ~(Resuming("restore") /\ MayFinishRestore)
  \/ pc = "removed" /\ quarantine[RollIndex] # Expected
  \/ pc = "restored" /\ AtDest # Prior

RollbackBlocked == RollbackRefuses /\ Block

\* Defect: the loop leaves out the first destination.
RollbackFinishEarly ==
  /\ pc = "rollback" /\ journal.rolled_back >= N - 1
  /\ pc' = "cleanup"
  /\ UNCHANGED <<cont, request, outcome, files, store>>

RollbackFinish ==
  /\ pc = "rollback" /\ journal.rolled_back = N
  /\ pc' = "cleanup"
  /\ UNCHANGED <<cont, request, outcome, files, store>>

--------------------------------------------------------------------------------
(* _publish_transaction_locked                                             *)

MayStart == request.overwrite \/ dest = Empty

Refuse ==
  /\ pc \in {"prepare", "record"} /\ ~MayStart
  /\ End("error")
  /\ UNCHANGED <<cont, request, files, store>>

\* _prepare_generation: a generation appears whole, by rename, or is reused.
PrepareGeneration ==
  /\ pc = "prepare" /\ MayStart
  /\ generations' = generations \cup {request.gen}
  /\ pc' = "record"
  /\ UNCHANGED <<pointer, journal, cont, request, outcome, files>>

Record ==
  /\ pc = "record" /\ MayStart
  /\ SetJournal([phase |-> "prepared", gen |-> request.gen, overwrite |-> request.overwrite,
                 previous_targets |-> dest, backed_up |-> 0, previous |-> {},
                 published |-> 0, operation |-> NoOp, rolled_back |-> 0, rollback |-> NoOp])
  /\ pc' = "stage"
  /\ UNCHANGED <<cont, request, outcome, files>>

\* The transaction directory is made and holds a copy of the generation.
Stage ==
  /\ pc = "stage"
  /\ pc' = IF journal.overwrite THEN "backup" ELSE "publish"
  /\ UNCHANGED <<cont, request, outcome, files, store>>

BackupIntend ==
  /\ pc = "backup"
  /\ SetJournal([journal EXCEPT !.operation = [kind |-> "backup", index |-> journal.backed_up]])
  /\ pc' = "backup_check"
  /\ UNCHANGED <<cont, request, outcome, files>>

BackupIndex == journal.operation.index

BackupCheck ==
  /\ pc = "backup_check"
  /\ dest[BackupIndex] = journal.previous_targets[BackupIndex]
  /\ pc' = IF journal.previous_targets[BackupIndex] = None THEN "backup_done" ELSE "backup_move"
  /\ UNCHANGED <<cont, request, outcome, files, store>>

BackupMove ==
  /\ pc = "backup_move" /\ dest[BackupIndex] # None
  /\ backup' = [backup EXCEPT ![BackupIndex] = dest[BackupIndex]]
  /\ dest' = [dest EXCEPT ![BackupIndex] = None]
  /\ pc' = "backup_done"
  /\ UNCHANGED <<quarantine, store, cont, request, outcome>>

\* Defect: the backup is not listed.
BackupDoneUnlisted ==
  LET i == BackupIndex IN
  /\ pc = "backup_done"
  /\ backup[i] = journal.previous_targets[i]
  /\ SetJournal([journal EXCEPT !.backed_up = @ + 1, !.operation = NoOp, !.phase = "backed_up"])
  /\ pc' = IF i + 1 < N THEN "backup" ELSE "publish"
  /\ UNCHANGED <<cont, request, outcome, files>>

BackupDone ==
  LET i == BackupIndex
      had == journal.previous_targets[i] # None
  IN
  /\ pc = "backup_done"
  /\ backup[i] = journal.previous_targets[i]
  /\ SetJournal([journal EXCEPT !.previous = IF had THEN @ \cup {i} ELSE @,
                                !.backed_up = @ + 1, !.operation = NoOp, !.phase = "backed_up"])
  /\ pc' = IF i + 1 < N THEN "backup" ELSE "publish"
  /\ UNCHANGED <<cont, request, outcome, files>>

PublishIntend ==
  /\ pc = "publish"
  /\ SetJournal([journal EXCEPT !.operation = [kind |-> "publish", index |-> journal.published]])
  /\ pc' = "publish_check"
  /\ UNCHANGED <<cont, request, outcome, files>>

PublishIndex == journal.operation.index

PublishCheck ==
  /\ pc = "publish_check"
  /\ journal.overwrite => dest[PublishIndex] = None
  /\ pc' = "publish_move"
  /\ UNCHANGED <<cont, request, outcome, files, store>>

\* Defect: os.replace in any case.
PublishOver ==
  /\ pc = "publish_move"
  /\ dest' = [dest EXCEPT ![PublishIndex] = journal.gen[PublishIndex]]
  /\ pc' = "publish_done"
  /\ UNCHANGED <<backup, quarantine, store, cont, request, outcome>>

\* os.replace with overwrite, an exclusive rename without.  (os.replace fails where a
\* directory that is not empty appeared: that is Raise.)
PublishMove ==
  /\ pc = "publish_move"
  /\ journal.overwrite \/ dest[PublishIndex] = None
  /\ dest' = [dest EXCEPT ![PublishIndex] = journal.gen[PublishIndex]]
  /\ pc' = "publish_done"
  /\ UNCHANGED <<backup, quarantine, store, cont, request, outcome>>

\* The destination was empty when the transaction was recorded, and another
\* program took it since.
PublishTaken ==
  /\ pc = "publish_move"
  /\ ~journal.overwrite /\ dest[PublishIndex] # None

PublishRefused ==
  /\ PublishTaken
  /\ SetJournal([journal EXCEPT !.operation = NoOp])
  /\ Abort
  /\ UNCHANGED <<request, outcome, files>>

PublishDone ==
  /\ pc = "publish_done"
  /\ SetJournal([journal EXCEPT !.phase = "publishing", !.published = @ + 1, !.operation = NoOp])
  /\ pc' = IF PublishIndex + 1 < N THEN "publish" ELSE "verify"
  /\ UNCHANGED <<cont, request, outcome, files>>

Matches == \A i \in Index : dest[i] = journal.gen[i]

\* Defect: the pointer is not written.
CommitWithoutPointer ==
  /\ pc = "verify" /\ Matches
  /\ SetJournal([journal EXCEPT !.phase = "published"])
  /\ pc' = "verify_pointer"
  /\ UNCHANGED <<cont, request, outcome, files>>

\* The commit point.
CommitPhase ==
  /\ pc = "verify" /\ Matches
  /\ SetJournal([journal EXCEPT !.phase = "published"])
  /\ pc' = "pointer"
  /\ UNCHANGED <<cont, request, outcome, files>>

WritePointer ==
  /\ pc = "pointer"
  /\ pointer' = journal.gen
  /\ pc' = "pointer_done"
  /\ UNCHANGED <<generations, journal, cont, request, outcome, files>>

PointerPhase ==
  /\ pc = "pointer_done" /\ PointerAccepted
  /\ SetJournal([journal EXCEPT !.phase = "pointer_committed"])
  /\ pc' = "verify_pointer"
  /\ UNCHANGED <<cont, request, outcome, files>>

VerifyPointer ==
  /\ pc = "verify_pointer" /\ Matches
  /\ pc' = "cleanup"
  /\ UNCHANGED <<cont, request, outcome, files, store>>

--------------------------------------------------------------------------------

Recovery ==
  \/ RecoverNothing \/ RecoverForward \/ RecoverBackward \/ RollForward
  \/ RollbackIndexDone \/ IntendRemove \/ CheckRemove \/ RemoveMove \/ FinishRemove
  \/ IntendRestore \/ CheckRestore \/ RestoreMove \/ FinishRestore
  \/ RollbackFinish

Cleanup == CleanupJournal \/ \E i \in Index : CleanupMember(i)

Body ==
  \/ Refuse \/ PrepareGeneration \/ Record \/ Stage
  \/ BackupIntend \/ BackupCheck \/ BackupMove \/ BackupDone
  \/ PublishIntend \/ PublishCheck \/ PublishMove \/ PublishDone
  \/ CommitPhase \/ WritePointer \/ PointerPhase \/ VerifyPointer

\* What a call does by itself once it was made.
Advance == Recovery \/ Cleanup \/ Body \/ Return

\* The refusals that files must have been changed for by somebody else: Next has
\* no other program, and by NeverBlocked their conditions are not met in it.
\* PublicationOpen adds both.
Refusals == RecoverBlocked \/ RollbackBlocked \/ PublishRefused

Next ==
  \/ \E r \in Request : Publish(r)
  \/ RecoverPublication
  \/ Advance \/ Raise \/ Crash

Spec == Init /\ [][Next]_vars

--------------------------------------------------------------------------------
(* Properties.                                                             *)

\* Until the commit point every artifact that was published before survives,
\* at its destination or as a backup, whatever crash or error interrupts the
\* renames of lines 1439-1493 or the rollback of lines 1139-1241.
PriorRetained ==
  journal # None /\ ~Committed =>
    \A i \in Index :
      journal.previous_targets[i] # None =>
        journal.previous_targets[i] \in {dest[i], backup[i]}

\* With no transaction open, the destinations hold exactly the generation that
\* the pointer names: no interrupted call leaves a mixed projection behind.
ProjectionOfPointer ==
  journal = None /\ pointer # None => dest = pointer

\* The pointer, and a journal that recovery has to act on, name a generation
\* that is complete in the store (_validate_pointer, lines 1071-1095).
GenerationsResolve ==
  /\ pointer # None => pointer \in generations
  /\ journal # None => journal.gen \in generations

\* As long as nobody else touches the destinations, recovery never refuses:
\* none of the fail-closed checks of lines 956-1058 and 1132-1240 rejects what
\* an interrupted publication or an interrupted recovery left, and no destination
\* is found taken by the rename of line 1476.
NeverBlocked == ~RecoverRefuses /\ ~RollbackRefuses /\ ~PublishTaken

\* A transaction that is over leaves neither backups nor discarded artifacts:
\* the journal is unlinked last (_cleanup_committed, lines 1098-1110), so what
\* it would be needed for is never orphaned.
NoOrphans == journal = None => backup = Empty /\ quarantine = Empty

--------------------------------------------------------------------------------
(* The abstract publication that this protocol implements: while a         *)
(* transaction is open its journal decides which artifacts count.          *)

ProjectionView == IF journal = None THEN dest
                  ELSE IF Committed THEN journal.gen ELSE journal.previous_targets

CurrentView == IF Committed THEN journal.gen ELSE pointer

\* The transaction of the call under way is past its commit point: its journal
\* says so or was unlinked already.
CommittedCall == Committed \/ (journal = None /\ pc = "returning")

CallView == CASE pc = "idle"    -> "idle"
              [] pc # "idle" /\ cont = "only"  -> "recovering"
              [] pc # "idle" /\ cont = "abort" -> "failing"
              [] pc # "idle" /\ cont = "begin" -> "pending"
              [] pc # "idle" /\ cont = "commit" ->
                   IF CommittedCall THEN "committed" ELSE "pending"

Atomic == INSTANCE PublicationAtomic WITH
            projection <- ProjectionView, current <- CurrentView, call <- CallView,
            asked <- request, reported <- outcome

\* Publication is atomic: what counts changes in one step, at most once per
\* call, and the call reports success only after that step.
IsAtomic == Atomic!ASpec

================================================================================
