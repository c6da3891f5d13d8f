--------------------------- MODULE PublicationProofs ---------------------------
(***************************************************************************)
(* The invariant of PublicationInvariant is inductive, the safety          *)
(* properties of Publication follow from it, and Publication implements    *)
(* PublicationAtomic, for every number of destinations and every set of    *)
(* artifacts.  One lemma for each action that writes a file; the actions   *)
(* that only read are in PureSteps.  Each has a step for the types, one    *)
(* for the files (StoreOK), and one for the running call (ControlOK).  The *)
(* last part does the same for PublicationOpen and the weaker invariant    *)
(* that is left beside another program.                                    *)
(***************************************************************************)
EXTENDS PublicationOpenInvariant, TLAPS

USE DEF files, store, BodyPcs, RecoverPcs, EndPcs, Committed

-------------------------------------------------------------------------------
\* Lemmas on journals.

\* The first position is one, and the empty marker is a record of either kind.
LEMMA ZeroIsIndex == 0 \in Index /\ NoOp \in Operation /\ NoOp \in RollbackOp
  BY NAssumption DEF Index, NoOp, Operation, RollbackOp

\* Counting one more published destination gives a journal again.
LEMMA PublishedJournal ==
  ASSUME NEW j \in Journal, j.published < N
  PROVE  [j EXCEPT !.phase = "publishing", !.published = @ + 1, !.operation = NoOp] \in Journal
  <1> DEFINE v == j.published + 1
             o == NoOp
  <1>1. v \in 0 .. N
    BY NAssumption DEF Journal
  <1>2. o \in Operation
    BY ZeroIsIndex
  <1> HIDE DEF v, o
  <1>3. [j EXCEPT !.phase = "publishing", !.published = v, !.operation = o] \in Journal
    BY <1>1, <1>2 DEF Journal
  <1> QED
    BY <1>3 DEF v, o

\* Counting one more backed up destination gives a journal again.
LEMMA BackedUpJournal ==
  ASSUME NEW j \in Journal, j.backed_up < N, NEW S \in SUBSET Index
  PROVE  [j EXCEPT !.previous = S, !.backed_up = @ + 1, !.operation = NoOp,
                   !.phase = "backed_up"] \in Journal
  <1> DEFINE v == j.backed_up + 1
             o == NoOp
  <1>1. v \in 0 .. N
    BY NAssumption DEF Journal
  <1>2. o \in Operation
    BY ZeroIsIndex
  <1> HIDE DEF v, o
  <1>3. [j EXCEPT !.previous = S, !.backed_up = v, !.operation = o,
                  !.phase = "backed_up"] \in Journal
    BY <1>1, <1>2 DEF Journal
  <1> QED
    BY <1>3 DEF v, o

\* Counting one more rolled back destination gives a journal again.
LEMMA CompletedJournal ==
  ASSUME NEW j \in Journal, j.rolled_back < N
  PROVE  [j EXCEPT !.rolled_back = @ + 1, !.rollback = NoOp] \in Journal
  <1> DEFINE v == j.rolled_back + 1
             o == NoOp
  <1>1. v \in 0 .. N
    BY NAssumption DEF Journal
  <1>2. o \in RollbackOp
    BY ZeroIsIndex
  <1> HIDE DEF v, o
  <1>3. [j EXCEPT !.rolled_back = v, !.rollback = o] \in Journal
    BY <1>1, <1>2 DEF Journal
  <1> QED
    BY <1>3 DEF v, o

\* Setting the intent of a forward move gives a journal again.
LEMMA OperationJournal ==
  ASSUME NEW j \in Journal, NEW o \in Operation
  PROVE  [j EXCEPT !.operation = o] \in Journal
  BY DEF Journal

\* Setting the intent of a rollback move gives a journal again.
LEMMA RollbackJournal ==
  ASSUME NEW j \in Journal, NEW o \in RollbackOp
  PROVE  [j EXCEPT !.rollback = o] \in Journal
  BY DEF Journal

\* So does entering one of the two phases that change nothing else.
LEMMA PhaseJournal ==
  ASSUME NEW j \in Journal, NEW p \in {"published", "pointer_committed"}
  PROVE  [j EXCEPT !.phase = p] \in Journal
  BY DEF Journal

\* The journal keeps what names its transaction and takes these values of the
\* fields that record its progress.
JournalBecomes(phase, backed_up, previous, published, operation, rolled_back, rollback) ==
  /\ journal' \in Journal /\ journal' # None
  /\ journal'.gen = journal.gen /\ journal'.overwrite = journal.overwrite
  /\ journal'.previous_targets = journal.previous_targets
  /\ journal'.phase = phase /\ journal'.backed_up = backed_up /\ journal'.previous = previous
  /\ journal'.published = published /\ journal'.operation = operation
  /\ journal'.rolled_back = rolled_back /\ journal'.rollback = rollback

-------------------------------------------------------------------------------
\* The invariant holds initially and is kept by each action.

\* An empty store with nobody calling satisfies the invariant.
LEMMA InitHolds == Init => IInv
  <1> SUFFICES ASSUME Init PROVE IInv
    OBVIOUS
  <1> USE DEF Init, Empty
  <1>1. TypeOK
    BY DEF TypeOK, Artifact
  <1>2. StoreOK
    BY DEF StoreOK, ClosedOK, OpenOK, CommittedOK, JournalOK, JournalAccepted, PointerAccepted
  <1>3. ControlOK
    BY DEF ControlOK, ContOK, PresenceOK, BodyOK, OperationOK, RecoveryOK, CleanupOK
  <1> QED
    BY <1>1, <1>2, <1>3 DEF IInv

\* What holds of the files depends on the files alone.
LEMMA StoreFrame ==
  ASSUME StoreOK, UNCHANGED <<files, store>>
  PROVE  StoreOK'
  BY DEF StoreOK, ClosedOK, OpenOK, CommittedOK, JournalOK, IndexFiles, ForwardFiles,
     RollIndex, JournalAccepted, PointerAccepted

\* An intent is its kind and its position.
LEMMA OperationIs ==
  ASSUME NEW o \in Operation
  PROVE  o = [kind |-> o.kind, index |-> o.index]
  BY DEF Operation

\* The steps that read the files and write none: calls, returns, crashes, the
\* checks before each move and the start of a recovery.
LEMMA PureSteps ==
  ASSUME IInv,
         \/ \E r \in Request : Publish(r)
         \/ RecoverPublication
         \/ Return
         \/ Raise
         \/ Crash
         \/ RecoverNothing
         \/ RecoverForward
         \/ RecoverBackward
         \/ CheckRemove
         \/ CheckRestore
         \/ RollbackFinish
         \/ Refuse
         \/ Stage
         \/ BackupCheck
         \/ PublishCheck
         \/ VerifyPointer
  PROVE  IInv'
  <1>1. ASSUME \E r \in Request : Publish(r)
        PROVE  TypeOK' /\ ControlOK' /\ UNCHANGED <<files, store>>
    <2> USE <1>1, NAssumption DEF IInv, Publish
    <2>1. UNCHANGED <<files, store>>
      OBVIOUS
    <2>2. TypeOK'
      BY DEF TypeOK
    <2>3. ControlOK'
      BY DEF ControlOK, ContOK, PresenceOK, BodyOK, OperationOK, RecoveryOK, CleanupOK
    <2> QED
      BY <2>1, <2>2, <2>3
  <1>2. ASSUME RecoverPublication
        PROVE  TypeOK' /\ ControlOK' /\ UNCHANGED <<files, store>>
    <2> USE <1>2, NAssumption DEF IInv, RecoverPublication
    <2>1. UNCHANGED <<files, store>>
      OBVIOUS
    <2>2. TypeOK'
      BY DEF TypeOK
    <2>3. ControlOK'
      BY DEF ControlOK, ContOK, PresenceOK, BodyOK, OperationOK, RecoveryOK, CleanupOK
    <2> QED
      BY <2>1, <2>2, <2>3
  <1>3. ASSUME Return
        PROVE  TypeOK' /\ ControlOK' /\ UNCHANGED <<files, store>>
    <2> USE <1>3, NAssumption DEF IInv, Return, End
    <2>1. UNCHANGED <<files, store>>
      OBVIOUS
    <2>2. TypeOK'
      BY DEF TypeOK
    <2>3. ControlOK'
      BY DEF ControlOK, ContOK, PresenceOK, BodyOK, OperationOK, RecoveryOK, CleanupOK
    <2> QED
      BY <2>1, <2>2, <2>3
  <1>4. ASSUME Raise
        PROVE  TypeOK' /\ ControlOK' /\ UNCHANGED <<files, store>>
    <2> USE <1>4, NAssumption DEF IInv, Raise, Abort, End
    <2>1. UNCHANGED <<files, store>>
      OBVIOUS
    <2>2. TypeOK'
      BY DEF TypeOK
    <2>3. ControlOK'
      BY DEF ControlOK, ContOK, PresenceOK, BodyOK, OperationOK, RecoveryOK, CleanupOK
    <2> QED
      BY <2>1, <2>2, <2>3
  <1>5. ASSUME Crash
        PROVE  TypeOK' /\ ControlOK' /\ UNCHANGED <<files, store>>
    <2> USE <1>5, NAssumption DEF IInv, Crash, End
    <2>1. UNCHANGED <<files, store>>
      OBVIOUS
    <2>2. TypeOK'
      BY DEF TypeOK
    <2>3. ControlOK'
      BY DEF ControlOK, ContOK, PresenceOK, BodyOK, OperationOK, RecoveryOK, CleanupOK
    <2> QED
      BY <2>1, <2>2, <2>3
  <1>6. ASSUME RecoverNothing
        PROVE  TypeOK' /\ ControlOK' /\ UNCHANGED <<files, store>>
    <2> USE <1>6, NAssumption DEF IInv, RecoverNothing
    <2>1. UNCHANGED <<files, store>>
      OBVIOUS
    <2>2. TypeOK'
      BY DEF TypeOK
    <2>3. ControlOK'
      BY DEF ControlOK, ContOK, PresenceOK, BodyOK, OperationOK, RecoveryOK, CleanupOK
    <2> QED
      BY <2>1, <2>2, <2>3
  <1>7. ASSUME RecoverForward
        PROVE  TypeOK' /\ ControlOK' /\ UNCHANGED <<files, store>>
    <2> USE <1>7, NAssumption DEF IInv, RecoverForward, MayRollForward
    <2>1. UNCHANGED <<files, store>>
      OBVIOUS
    <2>2. TypeOK'
      BY DEF TypeOK
    <2>3. ControlOK'
      BY DEF ControlOK, ContOK, PresenceOK, BodyOK, OperationOK, RecoveryOK, CleanupOK
    <2> QED
      BY <2>1, <2>2, <2>3
  <1>8. ASSUME RecoverBackward
        PROVE  TypeOK' /\ ControlOK' /\ UNCHANGED <<files, store>>
    <2> USE <1>8, NAssumption DEF IInv, RecoverBackward, MayRollBack
    <2>1. UNCHANGED <<files, store>>
      OBVIOUS
    <2>2. TypeOK'
      BY DEF TypeOK
    <2>3. ControlOK'
      BY DEF ControlOK, ContOK, PresenceOK, BodyOK, OperationOK, RecoveryOK, CleanupOK
    <2> QED
      BY <2>1, <2>2, <2>3
  <1>9. ASSUME CheckRemove
        PROVE  TypeOK' /\ ControlOK' /\ UNCHANGED <<files, store>>
    <2> USE <1>9, NAssumption
           DEF IInv, CheckRemove, Rolling, MayRemove, Resuming, AtDest, Expected
    <2>1. UNCHANGED <<files, store>>
      OBVIOUS
    <2>2. TypeOK'
      BY DEF TypeOK
    <2>3. ControlOK'
      BY DEF ControlOK, ContOK, PresenceOK, BodyOK, OperationOK, RecoveryOK, CleanupOK,
         RollIndex
    <2> QED
      BY <2>1, <2>2, <2>3
  <1>10. ASSUME CheckRestore
         PROVE  TypeOK' /\ ControlOK' /\ UNCHANGED <<files, store>>
    <2> USE <1>10, NAssumption
           DEF IInv, CheckRestore, Rolling, MayRestore, Resuming, AtDest, Expected
    <2>1. UNCHANGED <<files, store>>
      OBVIOUS
    <2>2. TypeOK'
      BY DEF TypeOK
    <2>3. ControlOK'
      BY DEF ControlOK, ContOK, PresenceOK, BodyOK, OperationOK, RecoveryOK, CleanupOK,
         RollIndex, Prior
    <2> QED
      BY <2>1, <2>2, <2>3
  <1>11. ASSUME RollbackFinish
         PROVE  TypeOK' /\ ControlOK' /\ UNCHANGED <<files, store>>
    <2> USE <1>11, NAssumption DEF IInv, RollbackFinish
    <2>1. UNCHANGED <<files, store>>
      OBVIOUS
    <2>2. TypeOK'
      BY DEF TypeOK
    <2>3. ControlOK'
      BY DEF ControlOK, ContOK, PresenceOK, BodyOK, OperationOK, RecoveryOK, CleanupOK
    <2> QED
      BY <2>1, <2>2, <2>3
  <1>12. ASSUME Refuse
         PROVE  TypeOK' /\ ControlOK' /\ UNCHANGED <<files, store>>
    <2> USE <1>12, NAssumption DEF IInv, Refuse, End
    <2>1. UNCHANGED <<files, store>>
      OBVIOUS
    <2>2. TypeOK'
      BY DEF TypeOK
    <2>3. ControlOK'
      BY DEF ControlOK, ContOK, PresenceOK, BodyOK, OperationOK, RecoveryOK, CleanupOK
    <2> QED
      BY <2>1, <2>2, <2>3
  <1>13. ASSUME Stage
         PROVE  TypeOK' /\ ControlOK' /\ UNCHANGED <<files, store>>
    <2> USE <1>13, NAssumption DEF IInv, Stage
    <2>1. UNCHANGED <<files, store>>
      OBVIOUS
    <2>2. TypeOK'
      BY DEF TypeOK
    <2>3. ControlOK'
      BY DEF ControlOK, ContOK, PresenceOK, BodyOK, OperationOK, RecoveryOK, CleanupOK
    <2> QED
      BY <2>1, <2>2, <2>3
  <1>14. ASSUME BackupCheck
         PROVE  TypeOK' /\ ControlOK' /\ UNCHANGED <<files, store>>
    <2> USE <1>14, NAssumption DEF IInv, BackupCheck, BackupIndex
    <2>1. UNCHANGED <<files, store>>
      OBVIOUS
    <2>5. /\ journal \in Journal /\ journal # None /\ ~Committed
          /\ journal.operation.kind = "backup" /\ journal.operation.index = journal.backed_up
          /\ journal.operation.index \in Index
          /\ journal.rolled_back = 0
          /\ journal.rollback.kind = "none"
          /\ journal.published = 0
      BY DEF TypeOK, ControlOK, PresenceOK, BodyOK, OperationOK, StoreOK, JournalOK,
         JournalAccepted, ProgressAccepted, NoOp, Index, Journal
    <2>6. IndexFiles(journal.operation.index)
      BY <2>5 DEF StoreOK, OpenOK
    <2>7. journal.previous_targets[journal.operation.index] = None
            => backup[journal.operation.index] = None
      BY <2>5, <2>6 DEF IndexFiles, ForwardFiles, RollIndex, Journal
    <2>2. TypeOK'
      BY DEF TypeOK
    <2>3. ControlOK'
      BY <2>7 DEF ControlOK, ContOK, PresenceOK, BodyOK, OperationOK, RecoveryOK, CleanupOK
    <2> QED
      BY <2>1, <2>2, <2>3
  <1>15. ASSUME PublishCheck
         PROVE  TypeOK' /\ ControlOK' /\ UNCHANGED <<files, store>>
    <2> USE <1>15, NAssumption DEF IInv, PublishCheck, PublishIndex
    <2>1. UNCHANGED <<files, store>>
      OBVIOUS
    <2>2. TypeOK'
      BY DEF TypeOK
    <2>3. ControlOK'
      BY DEF ControlOK, ContOK, PresenceOK, BodyOK, OperationOK, RecoveryOK, CleanupOK
    <2> QED
      BY <2>1, <2>2, <2>3
  <1>16. ASSUME VerifyPointer
         PROVE  TypeOK' /\ ControlOK' /\ UNCHANGED <<files, store>>
    <2> USE <1>16, NAssumption DEF IInv, VerifyPointer
    <2>1. UNCHANGED <<files, store>>
      OBVIOUS
    <2>2. TypeOK'
      BY DEF TypeOK
    <2>3. ControlOK'
      BY DEF ControlOK, ContOK, PresenceOK, BodyOK, OperationOK, RecoveryOK, CleanupOK
    <2> QED
      BY <2>1, <2>2, <2>3
  <1> QED
    BY <1>1, <1>2, <1>3, <1>4, <1>5, <1>6, <1>7, <1>8, <1>9, <1>10, <1>11, <1>12, <1>13,
       <1>14, <1>15, <1>16, StoreFrame
      DEF IInv

\* Cleanup deletes one backup of a transaction that is decided.
LEMMA CleanupMemberStep ==
  ASSUME IInv, \E i \in Index : CleanupMember(i)
  PROVE  IInv'
  <1> USE NAssumption, NoneAssumption DEF IInv, CleanupMember, Empty
  <1>1. TypeOK'
    BY ZeroIsIndex
      DEF TypeOK, Artifact, ControlOK, ContOK, PresenceOK, BodyOK, OperationOK, RecoveryOK,
       CleanupOK, RollIndex, Prior, StoreOK, JournalOK, JournalAccepted, ProgressAccepted,
       Index, Operation, RollbackOp
  <1>2. StoreOK'
    BY DEF StoreOK, ClosedOK, OpenOK, CommittedOK, JournalOK, IndexFiles, RollIndex,
       JournalAccepted, PointerAccepted, Index, ControlOK, CleanupOK
  <1>3. ControlOK'
    BY DEF ControlOK, ContOK, PresenceOK, BodyOK, OperationOK, RecoveryOK, CleanupOK
  <1> QED
    BY <1>1, <1>2, <1>3

\* Rollback moves a published artifact out of its destination.
LEMMA RemoveMoveStep ==
  ASSUME IInv, RemoveMove
  PROVE  IInv'
  <1> USE NAssumption, NoneAssumption DEF IInv, RemoveMove, AtDest
  <1>1. TypeOK'
    BY ZeroIsIndex
      DEF TypeOK, Artifact, ControlOK, ContOK, PresenceOK, BodyOK, OperationOK, RecoveryOK,
       CleanupOK, RollIndex, Prior, StoreOK, JournalOK, JournalAccepted, ProgressAccepted,
       Index, Operation, RollbackOp
  <1>2. StoreOK'
    BY DEF TypeOK, StoreOK, ClosedOK, OpenOK, CommittedOK, JournalOK, IndexFiles,
       ForwardFiles, RollIndex, JournalAccepted, PointerAccepted, ControlOK, PresenceOK,
       RecoveryOK
  <1>3. ControlOK'
    BY <1>1
      DEF TypeOK, ControlOK, ContOK, PresenceOK, BodyOK, OperationOK, RecoveryOK, CleanupOK,
       RollIndex
  <1> QED
    BY <1>1, <1>2, <1>3

\* Rollback moves a prior artifact back to its destination.
LEMMA RestoreMoveStep ==
  ASSUME IInv, RestoreMove
  PROVE  IInv'
  <1> USE NAssumption, NoneAssumption DEF IInv, RestoreMove
  <1>1. TypeOK'
    BY DEF TypeOK, Artifact
  <1>2. StoreOK'
    BY <1>1
      DEF TypeOK, StoreOK, ClosedOK, OpenOK, CommittedOK, JournalOK, IndexFiles,
       ForwardFiles, RollIndex, JournalAccepted, PointerAccepted, CommitAccepted,
       PriorEvidenceAccepted, ProgressAccepted, RollbackAccepted, Index, Journal, Operation,
       RollbackOp, NoOp, ControlOK, ContOK, PresenceOK, BodyOK, OperationOK, RecoveryOK,
       CleanupOK, Prior
  <1>3. ControlOK'
    BY <1>1
      DEF TypeOK, ControlOK, ContOK, PresenceOK, BodyOK, OperationOK, RecoveryOK, CleanupOK,
       RollIndex, Prior
  <1> QED
    BY <1>1, <1>2, <1>3

\* The prior artifact leaves its destination for the backup.
LEMMA BackupMoveStep ==
  ASSUME IInv, BackupMove
  PROVE  IInv'
  <1> USE NAssumption, NoneAssumption DEF IInv, BackupMove, BackupIndex
  <1> DEFINE k == journal.operation.index
  <1>0. /\ journal \in Journal /\ journal # None /\ ~Committed
        /\ journal.operation.kind = "backup" /\ k = journal.backed_up /\ k \in Index
        /\ journal.published = 0 /\ RollIndex = N - 1 /\ journal.rollback.kind = "none"
        /\ dest[k] = journal.previous_targets[k]
        /\ UNCHANGED <<quarantine, store>>
    BY DEF TypeOK, ControlOK, PresenceOK, BodyOK, OperationOK, StoreOK, JournalOK,
       JournalAccepted, ProgressAccepted, Journal, Operation, NoOp, RollIndex
  <1>1. TypeOK'
    BY <1>0 DEF TypeOK, Artifact
  <1>2. StoreOK'
    <2>1. /\ \A i \in Index : i # k => dest'[i] = dest[i] /\ backup'[i] = backup[i]
          /\ dest'[k] = None /\ backup'[k] = journal.previous_targets[k]
      BY <1>0 DEF TypeOK
    <2>2. ASSUME NEW i \in Index
          PROVE  IndexFiles(i)'
      <3>1. IndexFiles(i) /\ ~(i > RollIndex) /\ i >= 0
        BY <1>0 DEF StoreOK, OpenOK, Index
      <3>2. ForwardFiles(i)
        BY <1>0, <3>1 DEF IndexFiles, Index
      <3>3. ForwardFiles(i)'
        <4>1. CASE i # k
          BY <1>0, <2>1, <3>2, <4>1 DEF ForwardFiles
        <4>2. CASE i = k
          BY <1>0, <2>1, <3>1, <3>2, <4>2 DEF ForwardFiles, Index
        <4> QED
          BY <4>1, <4>2
      <3> QED
        BY <1>0, <3>1, <3>3 DEF IndexFiles, RollIndex
    <2>3. ClosedOK' /\ CommittedOK' /\ JournalOK'
      BY <1>0 DEF ClosedOK, CommittedOK, StoreOK, JournalOK, JournalAccepted, PointerAccepted
    <2> QED
      BY <1>0, <2>2, <2>3 DEF StoreOK, OpenOK
  <1>3. ControlOK'
    BY <1>0, <1>1 DEF TypeOK, ControlOK, ContOK, PresenceOK, BodyOK, OperationOK, RecoveryOK,
       CleanupOK
  <1> QED
    BY <1>1, <1>2, <1>3

\* The new artifact enters its empty destination.
LEMMA PublishMoveStep ==
  ASSUME IInv, PublishMove
  PROVE  IInv'
  <1> USE NAssumption, NoneAssumption DEF IInv, PublishMove, PublishIndex
  <1>1. TypeOK'
    BY DEF TypeOK, Artifact, Generation, Journal, ControlOK, ContOK, PresenceOK
  <1>2. StoreOK'
    BY <1>1
      DEF TypeOK, StoreOK, ClosedOK, OpenOK, CommittedOK, JournalOK, IndexFiles,
       ForwardFiles, RollIndex, JournalAccepted, PointerAccepted, CommitAccepted,
       PriorEvidenceAccepted, ProgressAccepted, RollbackAccepted, Index, Journal, Operation,
       RollbackOp, NoOp, ControlOK, ContOK, PresenceOK, BodyOK, OperationOK, RecoveryOK,
       CleanupOK, Prior
  <1>3. ControlOK'
    BY <1>1 DEF TypeOK, ControlOK, ContOK, PresenceOK, BodyOK, OperationOK, RecoveryOK,
       CleanupOK
  <1> QED
    BY <1>1, <1>2, <1>3

\* Recovery writes the pointer of a committed transaction.
LEMMA RollForwardStep ==
  ASSUME IInv, RollForward
  PROVE  IInv'
  <1> USE NAssumption, NoneAssumption DEF IInv, RollForward
  <1>1. TypeOK'
    BY DEF TypeOK, ControlOK, RecoveryOK, StoreOK, JournalOK, JournalAccepted
  <1>2. StoreOK'
    BY DEF StoreOK, ClosedOK, OpenOK, CommittedOK, JournalOK, JournalAccepted,
       PointerAccepted, ControlOK, RecoveryOK
  <1>3. ControlOK'
    BY DEF ControlOK, ContOK, PresenceOK, BodyOK, OperationOK, RecoveryOK, CleanupOK
  <1> QED
    BY <1>1, <1>2, <1>3

\* The publication writes the pointer after its commit point.
LEMMA WritePointerStep ==
  ASSUME IInv, WritePointer
  PROVE  IInv'
  <1> USE NAssumption, NoneAssumption DEF IInv, WritePointer
  <1>1. TypeOK'
    BY DEF TypeOK, ControlOK, BodyOK, StoreOK, JournalOK, JournalAccepted
  <1>2. StoreOK'
    BY DEF StoreOK, ClosedOK, OpenOK, CommittedOK, JournalOK, JournalAccepted,
       PointerAccepted, ControlOK, BodyOK
  <1>3. ControlOK'
    BY DEF ControlOK, ContOK, PresenceOK, BodyOK, OperationOK, RecoveryOK, CleanupOK
  <1> QED
    BY <1>1, <1>2, <1>3

\* Preparing a generation only adds to the generations.
LEMMA PrepareGenerationStep ==
  ASSUME IInv, PrepareGeneration
  PROVE  IInv'
  <1> USE NAssumption, NoneAssumption DEF IInv, PrepareGeneration
  <1>1. TypeOK'
    BY DEF TypeOK, Request
  <1>2. StoreOK'
    BY DEF StoreOK, ClosedOK, OpenOK, CommittedOK, JournalOK, JournalAccepted,
       PointerAccepted, ControlOK, PresenceOK
  <1>3. ControlOK'
    BY DEF ControlOK, ContOK, PresenceOK, BodyOK, OperationOK, RecoveryOK, CleanupOK
  <1> QED
    BY <1>1, <1>2, <1>3

\* A destination that needs no move is counted as rolled back.
LEMMA RollbackIndexDoneStep ==
  ASSUME IInv, RollbackIndexDone
  PROVE  IInv'
  <1> USE NAssumption, NoneAssumption DEF IInv
  <1>1. /\ journal \in Journal /\ journal # None
        /\ journal.rolled_back < N
    BY DEF TypeOK, RollbackIndexDone, Rolling, ControlOK, PresenceOK
  <1>2. UNCHANGED <<files, generations, pointer>>
    BY DEF RollbackIndexDone, SetJournal, CompleteIndex
  <1>3. JournalBecomes(journal.phase, journal.backed_up, journal.previous, journal.published,
                       journal.operation, journal.rolled_back + 1, NoOp)
    BY <1>1, CompletedJournal
      DEF JournalBecomes, SetJournal, RollbackIndexDone, CompleteIndex, Journal
  <1>4. TypeOK'
    BY <1>2, <1>3 DEF TypeOK, JournalBecomes, RollbackIndexDone
  <1>5. StoreOK'
    <2> USE <1>1, <1>2, <1>3 DEF JournalBecomes
    <2>1. ClosedOK'
      BY DEF ClosedOK
    <2>2. CommittedOK'
      BY DEF CommittedOK, RollbackIndexDone, Rolling, ControlOK, RecoveryOK
    <2>3. JournalOK'
      BY DEF StoreOK, JournalOK, JournalAccepted, PointerAccepted, ProgressAccepted,
         RollbackAccepted, NoOp
    <2>4. OpenOK'
      <3> SUFFICES ASSUME (journal # None /\ ~Committed)'
                   PROVE  /\ PriorEvidenceAccepted(journal)'
                          /\ (pointer # None => journal.previous_targets = pointer)'
                          /\ \A i \in Index : IndexFiles(i)'
        BY DEF OpenOK
      <3>0. ~Committed
        OBVIOUS
      <3>1. PriorEvidenceAccepted(journal)'
        BY DEF StoreOK, OpenOK, PriorEvidenceAccepted
      <3>2. (pointer # None => journal.previous_targets = pointer)'
        BY <3>0 DEF StoreOK, OpenOK
      <3>3. ASSUME NEW i \in Index
            PROVE  IndexFiles(i)'
        <4>1. IndexFiles(i) /\ journal.rollback.kind = "none" /\ journal.rolled_back \in Nat
          BY DEF StoreOK, OpenOK, RollbackIndexDone, MaySkip, MayPass, MayKeep, Resuming,
             Journal
        <4>2. CASE i # RollIndex
          BY <4>1, <4>2 DEF IndexFiles, ForwardFiles, RollIndex, Index, NoOp
        <4>3. CASE i = RollIndex
          <5>1. ForwardFiles(i)
            BY <4>1, <4>3 DEF IndexFiles
          <5>2. dest[i] = journal.previous_targets[i] /\ backup[i] = None
            BY <5>1, <4>3, OperationIs
              DEF ForwardFiles, RollbackIndexDone, MaySkip, MayPass, MayKeep,
               PublishTouched, BackupTouched, Touched, AtDest, Prior, RollIndex, Journal
          <5> QED
            BY <5>2, <4>3, <4>1 DEF IndexFiles, RollIndex
        <4> QED
          BY <4>2, <4>3
      <3> QED
        BY <3>1, <3>2, <3>3
    <2> QED
      BY <2>1, <2>2, <2>3, <2>4 DEF StoreOK
  <1>6. ControlOK'
    BY <1>3
      DEF JournalBecomes, RollbackIndexDone, Rolling, ControlOK, ContOK, PresenceOK, BodyOK,
       OperationOK, RecoveryOK, CleanupOK
  <1> QED
    BY <1>4, <1>5, <1>6

\* Rollback records that it will remove before it removes.
LEMMA IntendRemoveStep ==
  ASSUME IInv, IntendRemove
  PROVE  IInv'
  <1> USE NAssumption, NoneAssumption DEF IInv
  <1>1. /\ journal \in Journal /\ journal # None
        /\ RollIndex \in Index
    BY DEF TypeOK, IntendRemove, Rolling, ControlOK, PresenceOK, RollIndex, Journal, Index
  <1>2. UNCHANGED <<files, generations, pointer>>
    BY DEF IntendRemove, SetJournal, Intend
  <1>3. JournalBecomes(journal.phase, journal.backed_up, journal.previous, journal.published,
                       journal.operation, journal.rolled_back,
                       [kind |-> "remove", index |-> RollIndex])
    <2>1. [kind |-> "remove", index |-> RollIndex] \in RollbackOp
      BY <1>1 DEF RollbackOp
    <2>2. journal' \in Journal
      BY <1>1, <2>1, RollbackJournal DEF SetJournal, IntendRemove, Intend
    <2> QED
      BY <2>2 DEF JournalBecomes, SetJournal, IntendRemove, Intend
  <1>4. TypeOK'
    BY <1>2, <1>3 DEF TypeOK, JournalBecomes, IntendRemove
  <1>5. StoreOK'
    <2> USE <1>1, <1>2, <1>3 DEF JournalBecomes
    <2>1. ClosedOK'
      BY DEF ClosedOK
    <2>2. CommittedOK'
      BY DEF CommittedOK, IntendRemove, Rolling, ControlOK, RecoveryOK
    <2>3. JournalOK'
      BY DEF StoreOK, JournalOK, JournalAccepted, PointerAccepted, ProgressAccepted,
         RollbackAccepted, RollIndex
    <2>4. OpenOK'
      <3> SUFFICES ASSUME (journal # None /\ ~Committed)'
                   PROVE  /\ PriorEvidenceAccepted(journal)'
                          /\ (pointer # None => journal.previous_targets = pointer)'
                          /\ \A i \in Index : IndexFiles(i)'
        BY DEF OpenOK
      <3>0. ~Committed
        OBVIOUS
      <3>1. PriorEvidenceAccepted(journal)'
        BY DEF StoreOK, OpenOK, PriorEvidenceAccepted
      <3>2. (pointer # None => journal.previous_targets = pointer)'
        BY <3>0 DEF StoreOK, OpenOK
      <3>3. ASSUME NEW i \in Index
            PROVE  IndexFiles(i)'
        BY DEF StoreOK, OpenOK, IndexFiles, ForwardFiles, IntendRemove, MayIntendRemove,
           Resuming, AtDest, Expected, PublishTouched, Touched, RollIndex, Journal
      <3> QED
        BY <3>1, <3>2, <3>3
    <2> QED
      BY <2>1, <2>2, <2>3, <2>4 DEF StoreOK
  <1>6. ControlOK'
    BY <1>3
      DEF JournalBecomes, IntendRemove, Rolling, ControlOK, ContOK, PresenceOK, BodyOK,
       OperationOK, RecoveryOK, CleanupOK
  <1> QED
    BY <1>4, <1>5, <1>6

\* Rollback records that it will restore before it restores.
LEMMA IntendRestoreStep ==
  ASSUME IInv, IntendRestore
  PROVE  IInv'
  <1> USE NAssumption, NoneAssumption DEF IInv
  <1>1. /\ journal \in Journal /\ journal # None
        /\ RollIndex \in Index
    BY DEF TypeOK, IntendRestore, Rolling, ControlOK, PresenceOK, RollIndex, Journal, Index
  <1>2. UNCHANGED <<files, generations, pointer>>
    BY DEF IntendRestore, SetJournal, Intend
  <1>3. JournalBecomes(journal.phase, journal.backed_up, journal.previous, journal.published,
                       journal.operation, journal.rolled_back,
                       [kind |-> "restore", index |-> RollIndex])
    <2>1. [kind |-> "restore", index |-> RollIndex] \in RollbackOp
      BY <1>1 DEF RollbackOp
    <2>2. journal' \in Journal
      BY <1>1, <2>1, RollbackJournal DEF SetJournal, IntendRestore, Intend
    <2> QED
      BY <2>2 DEF JournalBecomes, SetJournal, IntendRestore, Intend
  <1>4. TypeOK'
    BY <1>2, <1>3 DEF TypeOK, JournalBecomes, IntendRestore
  <1>5. StoreOK'
    <2> USE <1>1, <1>2, <1>3 DEF JournalBecomes
    <2>1. ClosedOK'
      BY DEF ClosedOK
    <2>2. CommittedOK'
      BY DEF StoreOK, CommittedOK, IntendRestore, MayIntendRestore, AtDest, Generation,
         Journal
    <2>3. JournalOK'
      BY DEF StoreOK, JournalOK, JournalAccepted, PointerAccepted, ProgressAccepted,
         RollbackAccepted, IntendRestore, MayIntendRestore, RollIndex, Prior
    <2>4. OpenOK'
      <3> SUFFICES ASSUME (journal # None /\ ~Committed)'
                   PROVE  /\ PriorEvidenceAccepted(journal)'
                          /\ (pointer # None => journal.previous_targets = pointer)'
                          /\ \A i \in Index : IndexFiles(i)'
        BY DEF OpenOK
      <3>0. ~Committed
        OBVIOUS
      <3>1. PriorEvidenceAccepted(journal)'
        BY DEF StoreOK, OpenOK, PriorEvidenceAccepted
      <3>2. (pointer # None => journal.previous_targets = pointer)'
        BY <3>0 DEF StoreOK, OpenOK
      <3>3. ASSUME NEW i \in Index
            PROVE  IndexFiles(i)'
        BY DEF StoreOK, OpenOK, IndexFiles, ForwardFiles, IntendRestore, MayIntendRestore,
           Resuming, AtDest, RollIndex, Journal
      <3> QED
        BY <3>1, <3>2, <3>3
    <2> QED
      BY <2>1, <2>2, <2>3, <2>4 DEF StoreOK
  <1>6. ControlOK'
    BY <1>3
      DEF JournalBecomes, IntendRestore, Rolling, ControlOK, ContOK, PresenceOK, BodyOK,
       OperationOK, RecoveryOK, CleanupOK
  <1> QED
    BY <1>4, <1>5, <1>6

\* A restored destination is counted as rolled back.
LEMMA FinishRestoreStep ==
  ASSUME IInv, FinishRestore
  PROVE  IInv'
  <1> USE NAssumption, NoneAssumption DEF IInv
  <1>1. /\ journal \in Journal /\ journal # None
        /\ journal.rolled_back < N
    BY DEF TypeOK, FinishRestore, Rolling, ControlOK, PresenceOK, RecoveryOK
  <1>2. UNCHANGED <<files, generations, pointer>>
    BY DEF FinishRestore, SetJournal, CompleteIndex
  <1>3. JournalBecomes(journal.phase, journal.backed_up, journal.previous, journal.published,
                       journal.operation, journal.rolled_back + 1, NoOp)
    BY <1>1, CompletedJournal
      DEF JournalBecomes, SetJournal, FinishRestore, CompleteIndex, Journal
  <1>4. TypeOK'
    BY <1>2, <1>3 DEF TypeOK, JournalBecomes, FinishRestore
  <1>5. StoreOK'
    <2> USE <1>1, <1>2, <1>3 DEF JournalBecomes
    <2>1. ClosedOK'
      BY DEF ClosedOK
    <2>2. CommittedOK'
      BY DEF CommittedOK, FinishRestore, Rolling, ControlOK, RecoveryOK
    <2>3. JournalOK'
      BY DEF StoreOK, JournalOK, JournalAccepted, PointerAccepted, ProgressAccepted,
         RollbackAccepted, NoOp
    <2>4. OpenOK'
      <3> SUFFICES ASSUME (journal # None /\ ~Committed)'
                   PROVE  /\ PriorEvidenceAccepted(journal)'
                          /\ (pointer # None => journal.previous_targets = pointer)'
                          /\ \A i \in Index : IndexFiles(i)'
        BY DEF OpenOK
      <3>0. ~Committed
        OBVIOUS
      <3>1. PriorEvidenceAccepted(journal)'
        BY DEF StoreOK, OpenOK, PriorEvidenceAccepted
      <3>2. (pointer # None => journal.previous_targets = pointer)'
        BY <3>0 DEF StoreOK, OpenOK
      <3>3. ASSUME NEW i \in Index
            PROVE  IndexFiles(i)'
        BY <3>0, <3>3
          DEF StoreOK, OpenOK, IndexFiles, ForwardFiles, FinishRestore, Rolling, Resuming,
           AtDest, Expected, PublishTouched, BackupTouched, Touched, ControlOK, ContOK,
           PresenceOK, BodyOK, OperationOK, RecoveryOK, CleanupOK, RollIndex, Prior, Journal,
           Index, NoOp, JournalOK, JournalAccepted, ProgressAccepted, PriorEvidenceAccepted
      <3> QED
        BY <3>1, <3>2, <3>3
    <2> QED
      BY <2>1, <2>2, <2>3, <2>4 DEF StoreOK
  <1>6. ControlOK'
    BY <1>3
      DEF JournalBecomes, FinishRestore, Rolling, ControlOK, ContOK, PresenceOK, BodyOK,
       OperationOK, RecoveryOK, CleanupOK
  <1> QED
    BY <1>4, <1>5, <1>6

\* The publication records a backup before it moves the artifact.
LEMMA BackupIntendStep ==
  ASSUME IInv, BackupIntend
  PROVE  IInv'
  <1> USE NAssumption, NoneAssumption DEF IInv
  <1>1. /\ journal \in Journal /\ journal # None
        /\ journal.backed_up \in Index
    BY DEF TypeOK, BackupIntend, ControlOK, PresenceOK, BodyOK, Journal, Index
  <1>2. UNCHANGED <<files, generations, pointer>>
    BY DEF BackupIntend, SetJournal
  <1>3. JournalBecomes(journal.phase, journal.backed_up, journal.previous, journal.published,
                       [kind |-> "backup", index |-> journal.backed_up], journal.rolled_back,
                       journal.rollback)
    <2>1. [kind |-> "backup", index |-> journal.backed_up] \in Operation
      BY <1>1 DEF Operation
    <2>2. journal' \in Journal
      BY <1>1, <2>1, OperationJournal DEF SetJournal, BackupIntend
    <2> QED
      BY <2>2 DEF JournalBecomes, SetJournal, BackupIntend
  <1>4. TypeOK'
    BY <1>2, <1>3 DEF TypeOK, JournalBecomes, BackupIntend
  <1>5. StoreOK'
    <2> USE <1>1, <1>2, <1>3 DEF JournalBecomes
    <2>1. ClosedOK'
      BY DEF ClosedOK
    <2>2. CommittedOK'
      BY DEF CommittedOK, BackupIntend, ControlOK, BodyOK
    <2>3. JournalOK'
      BY DEF StoreOK, JournalOK, JournalAccepted, PointerAccepted, ProgressAccepted,
         RollbackAccepted, BackupIntend, ControlOK, BodyOK
    <2>4. OpenOK'
      <3> SUFFICES ASSUME (journal # None /\ ~Committed)'
                   PROVE  /\ PriorEvidenceAccepted(journal)'
                          /\ (pointer # None => journal.previous_targets = pointer)'
                          /\ \A i \in Index : IndexFiles(i)'
        BY DEF OpenOK
      <3>0. ~Committed
        OBVIOUS
      <3>1. PriorEvidenceAccepted(journal)'
        BY DEF StoreOK, OpenOK, PriorEvidenceAccepted
      <3>2. (pointer # None => journal.previous_targets = pointer)'
        BY <3>0 DEF StoreOK, OpenOK
      <3>3. ASSUME NEW i \in Index
            PROVE  IndexFiles(i)'
        BY DEF StoreOK, OpenOK, IndexFiles, ForwardFiles, BackupIntend, ControlOK, BodyOK,
           RollIndex, NoOp
      <3> QED
        BY <3>1, <3>2, <3>3
    <2> QED
      BY <2>1, <2>2, <2>3, <2>4 DEF StoreOK
  <1>6. ControlOK'
    BY <1>1, <1>3
      DEF JournalBecomes, BackupIntend, ControlOK, ContOK, PresenceOK, BodyOK, OperationOK,
       RecoveryOK, CleanupOK, RollIndex, StoreOK, OpenOK, IndexFiles, ForwardFiles, Journal,
       NoOp
  <1> QED
    BY <1>4, <1>5, <1>6

\* A backed up destination is counted.
LEMMA BackupDoneStep ==
  ASSUME IInv, BackupDone
  PROVE  IInv'
  <1> USE NAssumption, NoneAssumption DEF IInv
  <1>1. /\ journal \in Journal /\ journal # None
        /\ journal.backed_up \in Index /\ journal.operation.index = journal.backed_up
    BY DEF TypeOK, BackupDone, ControlOK, PresenceOK, BodyOK, OperationOK, StoreOK,
       JournalOK, JournalAccepted, ProgressAccepted, Journal, Index
  <1>2. UNCHANGED <<files, generations, pointer>>
    BY DEF BackupDone, SetJournal
  <1>3. JournalBecomes("backed_up", journal.backed_up + 1,
                       (IF journal.previous_targets[journal.backed_up] # None
                        THEN journal.previous \cup {journal.backed_up} ELSE journal.previous),
                       journal.published, NoOp, journal.rolled_back, journal.rollback)
    <2>1. /\ journal.backed_up < N
          /\ (IF journal.previous_targets[journal.backed_up] # None
              THEN journal.previous \cup {journal.backed_up} ELSE journal.previous)
             \in SUBSET Index
      BY <1>1 DEF Journal, Index
    <2>2. journal' \in Journal
      BY <1>1, <2>1, BackedUpJournal DEF SetJournal, BackupDone, BackupIndex
    <2> QED
      BY <1>1, <2>2, NoneAssumption DEF JournalBecomes, SetJournal, BackupDone, BackupIndex,
         Journal
  <1>4. TypeOK'
    BY <1>2, <1>3 DEF TypeOK, JournalBecomes, BackupDone
  <1>5. StoreOK'
    <2> USE <1>1, <1>2, <1>3 DEF JournalBecomes
    <2>1. ClosedOK'
      BY DEF ClosedOK
    <2>2. CommittedOK'
      BY DEF CommittedOK
    <2>3. JournalOK'
      BY DEF StoreOK, JournalOK, JournalAccepted, PointerAccepted, ProgressAccepted,
         RollbackAccepted, BackupDone, ControlOK, OperationOK, NoOp, Index
    <2>4. OpenOK'
      <3> SUFFICES ASSUME (journal # None /\ ~Committed)'
                   PROVE  /\ PriorEvidenceAccepted(journal)'
                          /\ (pointer # None => journal.previous_targets = pointer)'
                          /\ \A i \in Index : IndexFiles(i)'
        BY DEF OpenOK
      <3>0. ~Committed
        BY DEF BackupDone, ControlOK, BodyOK
      <3>1. PriorEvidenceAccepted(journal)'
        BY <3>0 DEF StoreOK, OpenOK, PriorEvidenceAccepted, Index
      <3>2. (pointer # None => journal.previous_targets = pointer)'
        BY <3>0 DEF StoreOK, OpenOK
      <3>3. ASSUME NEW i \in Index
            PROVE  IndexFiles(i)'
        BY <3>0
          DEF StoreOK, OpenOK, IndexFiles, ForwardFiles, BackupDone, ControlOK, OperationOK,
           RollIndex, Index, NoOp
      <3> QED
        BY <3>1, <3>2, <3>3
    <2> QED
      BY <2>1, <2>2, <2>3, <2>4 DEF StoreOK
  <1>6. ControlOK'
    BY <1>1, <1>3
      DEF JournalBecomes, BackupDone, BackupIndex, ControlOK, ContOK, PresenceOK, BodyOK,
       OperationOK, RecoveryOK, CleanupOK, Journal
  <1> QED
    BY <1>4, <1>5, <1>6

\* The publication records the publishing of a destination before the move.
LEMMA PublishIntendStep ==
  ASSUME IInv, PublishIntend
  PROVE  IInv'
  <1> USE NAssumption, NoneAssumption DEF IInv
  <1>1. /\ journal \in Journal /\ journal # None
        /\ journal.published \in Index
    BY DEF TypeOK, PublishIntend, ControlOK, PresenceOK, BodyOK, Journal, Index
  <1>2. UNCHANGED <<files, generations, pointer>>
    BY DEF PublishIntend, SetJournal
  <1>3. JournalBecomes(journal.phase, journal.backed_up, journal.previous, journal.published,
                       [kind |-> "publish", index |-> journal.published], journal.rolled_back,
                       journal.rollback)
    <2>1. [kind |-> "publish", index |-> journal.published] \in Operation
      BY <1>1 DEF Operation
    <2>2. journal' \in Journal
      BY <1>1, <2>1, OperationJournal DEF SetJournal, PublishIntend
    <2> QED
      BY <2>2 DEF JournalBecomes, SetJournal, PublishIntend
  <1>4. TypeOK'
    BY <1>2, <1>3 DEF TypeOK, JournalBecomes, PublishIntend
  <1>5. StoreOK'
    <2> USE <1>1, <1>2, <1>3 DEF JournalBecomes
    <2>1. ClosedOK'
      BY DEF ClosedOK
    <2>2. CommittedOK'
      BY DEF CommittedOK, PublishIntend, ControlOK, BodyOK
    <2>3. JournalOK'
      BY DEF StoreOK, JournalOK, JournalAccepted, PointerAccepted, ProgressAccepted,
         RollbackAccepted, PublishIntend, ControlOK, BodyOK
    <2>4. OpenOK'
      <3> SUFFICES ASSUME (journal # None /\ ~Committed)'
                   PROVE  /\ PriorEvidenceAccepted(journal)'
                          /\ (pointer # None => journal.previous_targets = pointer)'
                          /\ \A i \in Index : IndexFiles(i)'
        BY DEF OpenOK
      <3>0. ~Committed
        OBVIOUS
      <3>1. PriorEvidenceAccepted(journal)'
        BY DEF StoreOK, OpenOK, PriorEvidenceAccepted
      <3>2. (pointer # None => journal.previous_targets = pointer)'
        BY <3>0 DEF StoreOK, OpenOK
      <3>3. ASSUME NEW i \in Index
            PROVE  IndexFiles(i)'
        BY DEF StoreOK, OpenOK, IndexFiles, ForwardFiles, PublishIntend, ControlOK, BodyOK,
           RollIndex, Journal, NoOp, PriorEvidenceAccepted
      <3> QED
        BY <3>1, <3>2, <3>3
    <2> QED
      BY <2>1, <2>2, <2>3, <2>4 DEF StoreOK
  <1>6. ControlOK'
    BY <1>1, <1>3, <1>5
      DEF JournalBecomes, TypeOK, PublishIntend, ControlOK, ContOK, PresenceOK, BodyOK,
       OperationOK, RecoveryOK, CleanupOK, RollIndex, StoreOK, JournalOK, JournalAccepted,
       ProgressAccepted, OpenOK, IndexFiles, ForwardFiles, Journal, NoOp
  <1> QED
    BY <1>4, <1>5, <1>6

\* A published destination is counted.
LEMMA PublishDoneStep ==
  ASSUME IInv, PublishDone
  PROVE  IInv'
  <1> USE NAssumption, NoneAssumption DEF IInv
  <1>1. /\ journal \in Journal /\ journal # None
        /\ journal.published \in Index /\ journal.operation.index = journal.published
    BY DEF TypeOK, PublishDone, ControlOK, PresenceOK, BodyOK, OperationOK, StoreOK,
       JournalOK, JournalAccepted, ProgressAccepted, Journal, Index
  <1>2. UNCHANGED <<files, generations, pointer>>
    BY DEF PublishDone, SetJournal
  <1>3. JournalBecomes("publishing", journal.backed_up, journal.previous,
                       journal.published + 1, NoOp, journal.rolled_back, journal.rollback)
    <2>1. journal.published < N
      BY <1>1 DEF Index
    <2>2. journal' \in Journal
      BY <1>1, <2>1, PublishedJournal DEF SetJournal, PublishDone
    <2> QED
      BY <2>2 DEF JournalBecomes, SetJournal, PublishDone
  <1>4. TypeOK'
    BY <1>2, <1>3 DEF TypeOK, JournalBecomes, PublishDone
  <1>5. StoreOK'
    <2> USE <1>1, <1>2, <1>3 DEF JournalBecomes
    <2>1. ClosedOK'
      BY DEF ClosedOK
    <2>2. CommittedOK'
      BY DEF CommittedOK
    <2>3. JournalOK'
      BY DEF StoreOK, JournalOK, JournalAccepted, PointerAccepted, ProgressAccepted,
         RollbackAccepted, PublishDone, ControlOK, OperationOK, NoOp
    <2>4. OpenOK'
      <3> SUFFICES ASSUME (journal # None /\ ~Committed)'
                   PROVE  /\ PriorEvidenceAccepted(journal)'
                          /\ (pointer # None => journal.previous_targets = pointer)'
                          /\ \A i \in Index : IndexFiles(i)'
        BY DEF OpenOK
      <3>0. ~Committed
        BY DEF PublishDone, ControlOK, BodyOK
      <3>1. PriorEvidenceAccepted(journal)'
        BY <3>0 DEF StoreOK, OpenOK, PriorEvidenceAccepted
      <3>2. (pointer # None => journal.previous_targets = pointer)'
        BY <3>0 DEF StoreOK, OpenOK
      <3>3. ASSUME NEW i \in Index
            PROVE  IndexFiles(i)'
        BY <3>0
          DEF StoreOK, OpenOK, IndexFiles, ForwardFiles, PublishDone, ControlOK,
           OperationOK, RollIndex, Index, NoOp
      <3> QED
        BY <3>1, <3>2, <3>3
    <2> QED
      BY <2>1, <2>2, <2>3, <2>4 DEF StoreOK
  <1>6. ControlOK'
    BY <1>1, <1>3
      DEF JournalBecomes, PublishDone, PublishIndex, ControlOK, ContOK, PresenceOK, BodyOK,
       OperationOK, RecoveryOK, CleanupOK, Journal
  <1> QED
    BY <1>4, <1>5, <1>6

\* The commit point: every destination holds its new artifact.
LEMMA CommitPhaseStep ==
  ASSUME IInv, CommitPhase
  PROVE  IInv'
  <1> USE NAssumption, NoneAssumption DEF IInv
  <1>1. /\ journal \in Journal /\ journal # None
        /\ TRUE
    BY DEF TypeOK, CommitPhase, ControlOK, PresenceOK
  <1>2. UNCHANGED <<files, generations, pointer>>
    BY DEF CommitPhase, SetJournal
  <1>3. JournalBecomes("published", journal.backed_up, journal.previous, journal.published,
                       journal.operation, journal.rolled_back, journal.rollback)
    BY <1>1 DEF JournalBecomes, SetJournal, CommitPhase, Journal
  <1>4. TypeOK'
    BY <1>2, <1>3 DEF TypeOK, JournalBecomes, CommitPhase
  <1>5. StoreOK'
    <2> USE <1>1, <1>2, <1>3 DEF JournalBecomes
    <2>1. ClosedOK'
      BY DEF ClosedOK
    <2>2. CommittedOK'
      <3>1. /\ ~Committed /\ journal.rolled_back = 0 /\ journal.rollback = NoOp
            /\ journal.published = N /\ journal.operation = NoOp
        BY DEF CommitPhase, ControlOK, BodyOK
      <3>2. dest = journal.gen
        BY DEF TypeOK, CommitPhase, Matches, Journal, Generation
      <3>3. \A i \in Index : quarantine[i] = None
        BY <3>1 DEF StoreOK, OpenOK, IndexFiles, ForwardFiles, RollIndex, Index, NoOp
      <3>4. quarantine = Empty
        BY <3>3 DEF TypeOK, Empty
      <3> QED
        BY <3>1, <3>2, <3>4 DEF CommittedOK, CommitAccepted
    <2>3. JournalOK'
      BY DEF StoreOK, JournalOK, JournalAccepted, PointerAccepted, ProgressAccepted,
         RollbackAccepted
    <2>4. OpenOK'
      <3> SUFFICES ASSUME (journal # None /\ ~Committed)'
                   PROVE  /\ PriorEvidenceAccepted(journal)'
                          /\ (pointer # None => journal.previous_targets = pointer)'
                          /\ \A i \in Index : IndexFiles(i)'
        BY DEF OpenOK
      <3>0. ~Committed
        OBVIOUS
      <3>1. PriorEvidenceAccepted(journal)'
        OBVIOUS
      <3>2. (pointer # None => journal.previous_targets = pointer)'
        BY <3>0 DEF StoreOK, OpenOK
      <3>3. ASSUME NEW i \in Index
            PROVE  IndexFiles(i)'
        OBVIOUS
      <3> QED
        BY <3>1, <3>2, <3>3
    <2> QED
      BY <2>1, <2>2, <2>3, <2>4 DEF StoreOK
  <1>6. ControlOK'
    BY <1>3
      DEF JournalBecomes, CommitPhase, ControlOK, ContOK, PresenceOK, BodyOK, OperationOK,
       RecoveryOK, CleanupOK
  <1> QED
    BY <1>4, <1>5, <1>6

\* The journal records that the pointer is written.
LEMMA PointerPhaseStep ==
  ASSUME IInv, PointerPhase
  PROVE  IInv'
  <1> USE NAssumption, NoneAssumption DEF IInv
  <1>1. /\ journal \in Journal /\ journal # None
        /\ TRUE
    BY DEF TypeOK, PointerPhase, ControlOK, BodyOK
  <1>2. UNCHANGED <<files, generations, pointer>>
    BY DEF PointerPhase, SetJournal
  <1>3. JournalBecomes("pointer_committed", journal.backed_up, journal.previous,
                       journal.published, journal.operation, journal.rolled_back,
                       journal.rollback)
    BY <1>1 DEF JournalBecomes, SetJournal, PointerPhase, Journal
  <1>4. TypeOK'
    BY <1>2, <1>3 DEF TypeOK, JournalBecomes, PointerPhase
  <1>5. StoreOK'
    <2> USE <1>1, <1>2, <1>3 DEF JournalBecomes
    <2>1. ClosedOK'
      BY DEF ClosedOK
    <2>2. CommittedOK'
      BY DEF StoreOK, CommittedOK, CommitAccepted, PointerPhase, ControlOK, BodyOK
    <2>3. JournalOK'
      BY DEF StoreOK, JournalOK, JournalAccepted, PointerAccepted, ProgressAccepted,
         RollbackAccepted
    <2>4. OpenOK'
      <3> SUFFICES ASSUME (journal # None /\ ~Committed)'
                   PROVE  /\ PriorEvidenceAccepted(journal)'
                          /\ (pointer # None => journal.previous_targets = pointer)'
                          /\ \A i \in Index : IndexFiles(i)'
        BY DEF OpenOK
      <3>0. ~Committed
        OBVIOUS
      <3>1. PriorEvidenceAccepted(journal)'
        OBVIOUS
      <3>2. (pointer # None => journal.previous_targets = pointer)'
        BY <3>0 DEF StoreOK, OpenOK
      <3>3. ASSUME NEW i \in Index
            PROVE  IndexFiles(i)'
        OBVIOUS
      <3> QED
        BY <3>1, <3>2, <3>3
    <2> QED
      BY <2>1, <2>2, <2>3, <2>4 DEF StoreOK
  <1>6. ControlOK'
    BY <1>2, <1>3
      DEF JournalBecomes, PointerPhase, ControlOK, ContOK, PresenceOK, BodyOK, OperationOK,
       RecoveryOK, CleanupOK
  <1> QED
    BY <1>4, <1>5, <1>6

\* Deleting the journal closes the transaction and exposes the files to the
\* clauses on a closed one.
LEMMA CleanupJournalStep ==
  ASSUME IInv, CleanupJournal
  PROVE  IInv'
  <1> USE NAssumption, NoneAssumption DEF IInv, CleanupJournal, SetJournal
  <1>1. TypeOK'
    BY DEF TypeOK
  <1>2. journal \in Journal /\ journal # None
    BY DEF TypeOK, ControlOK, PresenceOK
  <1>3. pointer # None => dest = pointer
    <2>1. CASE Committed
      BY <2>1 DEF ControlOK, CleanupOK, StoreOK, CommittedOK
    <2>2. CASE ~Committed
      <3>1. \A i \in Index : dest[i] = journal.previous_targets[i]
        BY <1>2, <2>2 DEF ControlOK, CleanupOK, StoreOK, OpenOK, IndexFiles, RollIndex, Index
      <3>2. dest = journal.previous_targets
        BY <1>2, <3>1 DEF TypeOK, Journal
      <3> QED
        BY <1>2, <2>2, <3>2 DEF StoreOK, OpenOK
    <2> QED
      BY <2>1, <2>2
  <1>4. StoreOK'
    BY <1>3
      DEF StoreOK, ClosedOK, OpenOK, CommittedOK, JournalOK, JournalAccepted,
       PointerAccepted
  <1>5. ControlOK'
    BY DEF ControlOK, ContOK, PresenceOK, BodyOK, OperationOK, RecoveryOK, CleanupOK
  <1> QED
    BY <1>1, <1>4, <1>5 DEF IInv

\* Writing the first journal opens the transaction over the prior projection.
LEMMA RecordStep ==
  ASSUME IInv, Record
  PROVE  IInv'
  <1> USE NAssumption, NoneAssumption DEF IInv, Record
  <1>1. journal = None /\ cont = "commit" /\ request.gen \in generations /\ request \in Request
    BY DEF TypeOK, ControlOK, PresenceOK, ContOK
  <1>2. /\ journal' \in Journal /\ journal' # None
        /\ journal'.phase = "prepared" /\ journal'.gen = request.gen
        /\ journal'.overwrite = request.overwrite /\ journal'.previous_targets = dest
        /\ journal'.backed_up = 0 /\ journal'.previous = {} /\ journal'.published = 0
        /\ journal'.operation = NoOp /\ journal'.rolled_back = 0 /\ journal'.rollback = NoOp
    BY ZeroIsIndex DEF SetJournal, Journal, TypeOK, Request
  <1>3. /\ UNCHANGED <<files, generations, pointer, cont, request, outcome>>
        /\ pc' = "stage"
        /\ MayStart
    BY DEF SetJournal
  <1> HIDE DEF Record
  <1>4. TypeOK'
    BY <1>2, <1>3 DEF TypeOK
  <1>5. StoreOK'
    <2>1. ClosedOK' /\ CommittedOK'
      BY <1>2 DEF ClosedOK, CommittedOK
    <2>2. JournalOK'
      BY <1>1, <1>2, <1>3
        DEF StoreOK, JournalOK, JournalAccepted, PointerAccepted, ProgressAccepted,
         RollbackAccepted, NoOp
    <2>3. \A i \in Index : IndexFiles(i)'
      BY <1>1, <1>2, <1>3 DEF StoreOK, ClosedOK, IndexFiles, ForwardFiles, Index, NoOp, Empty
    <2>4. PriorEvidenceAccepted(journal)'
      BY <1>2, <1>3 DEF PriorEvidenceAccepted, MayStart, Empty, Index
    <2> QED
      BY <1>1, <1>2, <1>3, <2>1, <2>2, <2>3, <2>4 DEF StoreOK, OpenOK, ClosedOK
  <1>6. ControlOK'
    BY <1>1, <1>2, <1>3
      DEF ControlOK, ContOK, PresenceOK, BodyOK, OperationOK, RecoveryOK, CleanupOK
  <1> QED
    BY <1>4, <1>5, <1>6

\* After a removal, a destination with no prior artifact is rolled back and one
\* with a prior artifact is to be restored.
LEMMA FinishRemoveStep ==
  ASSUME IInv, FinishRemove
  PROVE  IInv'
  <1> USE NAssumption, NoneAssumption DEF IInv
  <1>1. /\ journal \in Journal /\ journal # None /\ ~Committed
        /\ journal.rolled_back < N /\ journal.rollback.kind = "remove" /\ RollIndex \in Index
        /\ dest[RollIndex] = None
    BY DEF FinishRemove, Rolling, Resuming, AtDest, TypeOK, ControlOK, PresenceOK,
       RecoveryOK, Journal, RollIndex, Index
  <1>2. UNCHANGED <<files, generations, pointer, cont, request, outcome>> /\ pc' = "rollback"
    BY DEF FinishRemove, SetJournal, CompleteIndex, Intend
  <1>3. backup[RollIndex] = Prior
    BY <1>1 DEF StoreOK, OpenOK, IndexFiles, Prior
  <1>4. \/ /\ Prior = None
           /\ JournalBecomes(journal.phase, journal.backed_up, journal.previous, journal.published,
                             journal.operation, journal.rolled_back + 1, NoOp)
        \/ /\ Prior # None
           /\ JournalBecomes(journal.phase, journal.backed_up, journal.previous, journal.published,
                             journal.operation, journal.rolled_back,
                             [kind |-> "restore", index |-> RollIndex])
    <2>1. CASE Prior = None
      <3>1. journal' \in Journal
        BY <1>1, <2>1, CompletedJournal DEF SetJournal, FinishRemove, CompleteIndex
      <3> QED
        BY <1>1, <2>1, <3>1 DEF JournalBecomes, SetJournal, FinishRemove, CompleteIndex,
           Journal
    <2>2. CASE Prior # None
      <3>1. [kind |-> "restore", index |-> RollIndex] \in RollbackOp
        BY <1>1 DEF RollbackOp
      <3>2. journal' \in Journal
        BY <1>1, <2>2, <3>1, RollbackJournal DEF SetJournal, FinishRemove, Intend
      <3> QED
        BY <2>2, <3>2 DEF JournalBecomes, SetJournal, FinishRemove, Intend, Journal
    <2> QED
      BY <2>1, <2>2
  <1>5. TypeOK'
    BY <1>2, <1>4 DEF TypeOK, JournalBecomes
  <1>6. StoreOK'
    <2> USE <1>1, <1>2, <1>4 DEF JournalBecomes
    <2>1. ClosedOK' /\ CommittedOK'
      BY DEF ClosedOK, CommittedOK
    <2>2. JournalOK'
      BY DEF StoreOK, JournalOK, JournalAccepted, PointerAccepted, ProgressAccepted,
         RollbackAccepted, NoOp, RollIndex, Prior
    <2>3. PriorEvidenceAccepted(journal)' /\ (pointer # None => journal.previous_targets = pointer)'
      BY DEF StoreOK, OpenOK, PriorEvidenceAccepted
    <2>4. ASSUME NEW i \in Index
          PROVE  IndexFiles(i)'
      <3>1. IndexFiles(i)
        BY DEF StoreOK, OpenOK
      <3> QED
        BY <1>3, <3>1 DEF IndexFiles, ForwardFiles, RollIndex, Index, NoOp, Journal, Prior
    <2> QED
      BY <2>1, <2>2, <2>3, <2>4 DEF StoreOK, OpenOK
  <1>7. ControlOK'
    <2>1. journal' # None /\ journal'.phase = journal.phase
      BY <1>4 DEF JournalBecomes
    <2>2. cont # "commit"
      BY DEF FinishRemove, Rolling, ControlOK, ContOK
    <2> QED
      BY <1>1, <1>2, <2>1, <2>2
        DEF ControlOK, ContOK, PresenceOK, BodyOK, OperationOK, RecoveryOK, CleanupOK
  <1> QED
    BY <1>5, <1>6, <1>7

-------------------------------------------------------------------------------
\* The invariant and what follows from it.

\* Every step of the protocol and of its recovery keeps the invariant.
LEMMA Inductive == IInv /\ [Next]_vars => IInv'
  <1> SUFFICES ASSUME IInv, [Next]_vars
               PROVE  IInv'
    OBVIOUS
  <1>1. CASE UNCHANGED vars
    <2>1. StoreOK'
      BY <1>1, StoreFrame DEF vars, IInv
    <2> QED
      BY <1>1, <2>1
        DEF vars, IInv, TypeOK, ControlOK, ContOK, PresenceOK, BodyOK, OperationOK,
         RecoveryOK, CleanupOK, RollIndex, Prior
  <1>2. CASE \/ \E r \in Request : Publish(r)
             \/ RecoverPublication \/ Return \/ Raise \/ Crash
    BY <1>2, PureSteps
  <1>3. CASE Recovery
    BY <1>3, PureSteps, RollForwardStep, RollbackIndexDoneStep, IntendRemoveStep,
       RemoveMoveStep, FinishRemoveStep, IntendRestoreStep, RestoreMoveStep,
       FinishRestoreStep
      DEF Recovery
  <1>4. CASE Cleanup
    BY <1>4, CleanupJournalStep, CleanupMemberStep DEF Cleanup
  <1>5. CASE Body
    BY <1>5, PureSteps, PrepareGenerationStep, RecordStep, BackupIntendStep, BackupMoveStep,
       BackupDoneStep, PublishIntendStep, PublishMoveStep,
       PublishDoneStep, CommitPhaseStep, WritePointerStep, PointerPhaseStep
      DEF Body
  <1> QED
    BY <1>1, <1>2, <1>3, <1>4, <1>5 DEF Next, Advance

\* The relation of the journal to every destination and backup, and of the
\* running call to the journal, holds in every reachable state.
THEOREM Invariance == Spec => []IInv
  BY InitHolds, Inductive, PTL DEF Spec

\* Every variable keeps its type.
THEOREM TypeCorrect == Spec => []TypeOK
  <1>1. IInv => TypeOK
    BY DEF IInv
  <1> QED
    BY <1>1, Invariance, PTL

\* Before the commit point no prior artifact is lost: it is at its destination
\* or in its backup, whatever step a crash or an error interrupted.
THEOREM PriorIsRetained == Spec => []PriorRetained
  <1>1. IInv => PriorRetained
    <2> SUFFICES ASSUME IInv, journal # None, ~Committed,
                        NEW i \in Index, journal.previous_targets[i] # None
                 PROVE  journal.previous_targets[i] \in {dest[i], backup[i]}
      BY DEF PriorRetained
    <2>1. IndexFiles(i) /\ journal \in Journal
      BY DEF IInv, StoreOK, OpenOK, TypeOK
    <2>2. journal.rollback.kind \in {"none", "remove", "restore"}
      BY <2>1 DEF Journal, RollbackOp
    <2> QED
      BY <2>1, <2>2, NAssumption DEF IndexFiles, ForwardFiles, RollIndex, Index, Journal
  <1> QED
    BY <1>1, Invariance, PTL

\* Once recovery has closed the transaction, the destinations hold exactly the
\* generation that the pointer names.
THEOREM ProjectionIsPointer == Spec => []ProjectionOfPointer
  <1>1. IInv => ProjectionOfPointer
    BY DEF IInv, StoreOK, ClosedOK, ProjectionOfPointer
  <1> QED
    BY <1>1, Invariance, PTL

\* The pointer and the journal only ever name generations that are complete.
THEOREM GenerationsAlwaysResolve == Spec => []GenerationsResolve
  <1>1. IInv => GenerationsResolve
    BY DEF IInv, StoreOK, JournalOK, JournalAccepted, PointerAccepted, GenerationsResolve
  <1> QED
    BY <1>1, Invariance, PTL

\* No refusal is enabled where the invariant holds.
LEMMA NotBlocked ==
  ASSUME IInv
  PROVE  NeverBlocked
  <1> USE NAssumption, NoneAssumption DEF IInv
  <1>1. ~RecoverRefuses
    <2>1. CASE journal = None
      BY <2>1 DEF RecoverRefuses, StoreOK, JournalOK
    <2>2. CASE journal # None
      BY DEF RecoverRefuses, StoreOK, JournalOK, CommittedOK, OpenOK, MayRollForward,
         MayRollBack
    <2> QED
      BY <2>1, <2>2
  <1>2. ~RollbackRefuses
    <2> SUFFICES ASSUME RollbackRefuses
                 PROVE  FALSE
      OBVIOUS
    <2>1. /\ journal \in Journal /\ ~Committed /\ journal.rolled_back < N
          /\ RollIndex \in Index
      BY DEF RollbackRefuses, Rolling, TypeOK, ControlOK, PresenceOK, RecoveryOK, RollIndex,
         Index, Journal
    <2>2. IndexFiles(RollIndex) /\ journal # None
      BY <2>1 DEF StoreOK, OpenOK
    <2>3. Rolling
      BY <2>2 DEF RollbackRefuses, ControlOK, RecoveryOK, IndexFiles, AtDest, Expected
    <2>4. CASE journal.rollback.kind = "none"
      <3>1. ForwardFiles(RollIndex) /\ Expected # None
        BY <2>1, <2>2, <2>4 DEF IndexFiles, Expected, Journal, Generation
      <3>2. journal.operation \in Operation
        BY <2>1 DEF Journal
      <3>3. CASE AtDest = None
        BY <2>1, <2>3, <2>4, <3>1, <3>3
          DEF RollbackRefuses, Rolling, ForwardFiles, MaySkip, MayPass, MayIntendRestore,
           Resuming, AtDest, Prior, Expected, Index, Journal
      <3>4. CASE AtDest # None
        BY <2>1, <2>3, <2>4, <3>1, <3>4, OperationIs
          DEF RollbackRefuses, Rolling, ForwardFiles, MaySkip, MayKeep, MayIntendRemove,
           Resuming, Touched, PublishTouched, AtDest, Prior, Expected, Index, Journal
      <3> QED
        BY <3>3, <3>4
    <2>5. CASE journal.rollback.kind = "remove"
      BY <2>2, <2>3, <2>5
        DEF RollbackRefuses, Rolling, IndexFiles, MayRemove, MayFinishRemove, Resuming,
         AtDest, Expected
    <2>6. CASE journal.rollback.kind = "restore"
      BY <2>2, <2>3, <2>6
        DEF RollbackRefuses, Rolling, IndexFiles, MayRestore, MayFinishRestore, Resuming,
         AtDest, Prior
    <2> QED
      BY <2>1, <2>4, <2>5, <2>6 DEF Journal, RollbackOp
  <1>3. ~PublishTaken
    BY DEF PublishTaken, PublishIndex, ControlOK, OperationOK
  <1> QED
    BY <1>1, <1>2, <1>3 DEF NeverBlocked

\* recover_publication never raises over what the protocol itself left behind.
THEOREM RecoveryIsNeverBlocked == Spec => []NeverBlocked
  <1>1. IInv => NeverBlocked
    BY NotBlocked
  <1> QED
    BY <1>1, Invariance, PTL

\* A closed transaction leaves no backup and no removed artifact behind.
THEOREM NothingIsOrphaned == Spec => []NoOrphans
  <1>1. IInv => NoOrphans
    BY DEF IInv, StoreOK, ClosedOK, NoOrphans
  <1> QED
    BY <1>1, Invariance, PTL

-------------------------------------------------------------------------------
\* Publication implements PublicationAtomic.

\* The initial states are initial states of the atomic publication.
LEMMA InitRefines == Init => Atomic!AInit
  BY DEF Init, Atomic!AInit, ProjectionView, CurrentView, CallView, Atomic!Index,
     Atomic!Artifact, Atomic!Request, Atomic!Generation, Index, Artifact, Request,
     Generation

\* A step that changes none of the four views stutters.
LEMMA ViewStutter ==
  ASSUME UNCHANGED <<ProjectionView, CurrentView, CallView, request, outcome>>
  PROVE  UNCHANGED Atomic!avars
  BY DEF Atomic!avars

\* A rewrite of the journal that does not pass the commit point stutters.
LEMMA JournalRewrite ==
  ASSUME journal # None, journal' # None, pc # "idle", pc' # "idle",
         journal'.gen = journal.gen, journal'.previous_targets = journal.previous_targets,
         Committed' <=> Committed,
         UNCHANGED <<pointer, cont, request, outcome>>
  PROVE  UNCHANGED Atomic!avars
  BY ViewStutter DEF ProjectionView, CurrentView, CallView, CommittedCall

\* Every step replaces the whole projection at once, decides the call, or is
\* invisible to the caller.
LEMMA StepRefines ==
  ASSUME IInv, IInv', [Next]_vars
  PROVE  [Atomic!ANext]_Atomic!avars
  <1> USE NAssumption, NoneAssumption
  <1>1. CASE UNCHANGED vars
    BY <1>1, ViewStutter DEF vars, ProjectionView, CurrentView, CallView
  <1>2. ASSUME NEW r \in Request, Publish(r)
        PROVE  Atomic!Call(r) /\ r \in Atomic!Request
    BY <1>2
      DEF Publish, Atomic!Call, ProjectionView, CurrentView, CallView, Request,
       Atomic!Request, Generation, Atomic!Generation, Index, Atomic!Index
  <1>3. CASE RecoverPublication
    BY <1>3
      DEF RecoverPublication, Atomic!ANext, Atomic!CallRecover, ProjectionView, CurrentView,
       CallView
  <1>4. CASE Crash
    <2>1. Atomic!Finish("crashed")
      BY <1>4 DEF Crash, End, Atomic!Finish, ProjectionView, CurrentView, CallView, IInv,
         TypeOK
    <2> QED
      BY <2>1 DEF Atomic!ANext, Atomic!Outcome
  <1>5. CASE Refuse
    <2>1. Atomic!Finish("error")
      BY <1>5 DEF Refuse, End, Atomic!Finish, ProjectionView, CurrentView, CallView, IInv,
         TypeOK
    <2> QED
      BY <2>1 DEF Atomic!ANext, Atomic!Outcome
  <1>6. CASE Raise
    <2>1. CASE pc' = "idle"
      <3>1. Atomic!Finish("error")
        BY <1>6, <2>1
          DEF Raise, Abort, End, Atomic!Finish, ProjectionView, CurrentView, CallView, IInv,
           TypeOK
      <3> QED
        BY <3>1 DEF Atomic!ANext, Atomic!Outcome
    <2>2. CASE pc' # "idle"
      <3>1. Atomic!GiveUp
        BY <1>6, <2>2 DEF Raise, Abort, End, Atomic!GiveUp, ProjectionView, CurrentView,
           CallView
      <3> QED
        BY <3>1 DEF Atomic!ANext
    <2> QED
      BY <2>1, <2>2
  <1>7. CASE Return
    <2>0. journal = None
      BY <1>7 DEF Return, IInv, ControlOK, PresenceOK
    <2>1. CASE cont = "begin"
      BY <1>7, <2>0, <2>1, ViewStutter
        DEF Return, ProjectionView, CurrentView, CallView, CommittedCall
    <2>2. CASE cont = "abort"
      <3>1. Atomic!Finish("error")
        BY <1>7, <2>2 DEF Return, End, Atomic!Finish, ProjectionView, CurrentView, CallView
      <3> QED
        BY <3>1 DEF Atomic!ANext, Atomic!Outcome
    <2>3. CASE cont \in {"only", "commit"}
      <3>1. Atomic!Finish("ok")
        BY <1>7, <2>0, <2>3
          DEF Return, End, Atomic!Finish, ProjectionView, CurrentView, CallView,
           CommittedCall
      <3> QED
        BY <3>1 DEF Atomic!ANext, Atomic!Outcome
    <2> QED
      BY <2>1, <2>2, <2>3 DEF IInv, TypeOK
  <1>8. CASE Recovery
    <2>0. cont # "commit"
      BY <1>8
        DEF IInv, ControlOK, ContOK, Recovery, RecoverNothing, RecoverForward,
         RecoverBackward, RollForward, RollbackIndexDone, IntendRemove, CheckRemove,
         RemoveMove, FinishRemove, IntendRestore, CheckRestore, RestoreMove, FinishRestore,
         RollbackFinish, Rolling
    <2>1. CASE RecoverNothing
      BY <2>1, ViewStutter DEF RecoverNothing, ProjectionView, CurrentView, CallView
    <2>2. CASE RollForward
      BY <2>2, ViewStutter
        DEF RollForward, ProjectionView, CurrentView, CallView, IInv, ControlOK, RecoveryOK
    <2>3. CASE \/ RecoverForward \/ RecoverBackward \/ CheckRemove \/ RemoveMove
               \/ CheckRestore \/ RestoreMove \/ RollbackFinish
      BY <2>3, JournalRewrite
        DEF RecoverForward, RecoverBackward, CheckRemove, RemoveMove, CheckRestore,
         RestoreMove, RollbackFinish, Rolling, IInv, ControlOK, PresenceOK
    <2>4. CASE RollbackIndexDone \/ IntendRemove \/ FinishRemove \/ IntendRestore \/ FinishRestore
      <3>1. journal \in Journal /\ journal # None /\ ~Committed
        BY <2>4
          DEF RollbackIndexDone, IntendRemove, FinishRemove, IntendRestore, FinishRestore,
           Rolling, IInv, TypeOK, ControlOK, PresenceOK, RecoveryOK
      <3>2. /\ pc # "idle" /\ pc' # "idle" /\ UNCHANGED <<pointer, cont, request, outcome>>
            /\ \/ journal' = [journal EXCEPT !.rolled_back = @ + 1, !.rollback = NoOp]
               \/ \E kind \in {"remove", "restore"} :
                    journal' = [journal EXCEPT !.rollback = [kind |-> kind, index |-> RollIndex]]
        BY <2>4
          DEF RollbackIndexDone, IntendRemove, FinishRemove, IntendRestore, FinishRestore,
           Rolling, SetJournal, CompleteIndex, Intend
      <3>3. /\ journal'.gen = journal.gen /\ journal'.previous_targets = journal.previous_targets
            /\ journal'.phase = journal.phase
        BY <3>1, <3>2 DEF Journal
      <3>4. journal' # None
        BY <2>4
          DEF IInv, ControlOK, PresenceOK, RollbackIndexDone, IntendRemove, FinishRemove,
           IntendRestore, FinishRestore, Rolling
      <3> QED
        BY <3>1, <3>2, <3>3, <3>4, JournalRewrite
    <2> QED
      BY <1>8, <2>0, <2>1, <2>2, <2>3, <2>4 DEF Recovery
  <1>9. CASE Cleanup
    <2>0. journal \in Journal /\ journal # None /\ pc = "cleanup"
      BY <1>9 DEF Cleanup, CleanupJournal, CleanupMember, IInv, TypeOK, ControlOK, PresenceOK
    <2>1. CASE CleanupJournal
      <3>1. dest = ProjectionView /\ pointer = CurrentView
        <4>1. CASE Committed
          BY <2>0, <4>1
            DEF ProjectionView, CurrentView, IInv, StoreOK, CommittedOK, ControlOK,
             CleanupOK
        <4>2. CASE ~Committed
          <5>1. \A i \in Index : dest[i] = journal.previous_targets[i]
            BY <2>0, <4>2 DEF IInv, ControlOK, CleanupOK, StoreOK, OpenOK, IndexFiles,
               RollIndex, Index
          <5> QED
            BY <4>2, <5>1 DEF IInv, TypeOK, Journal, ProjectionView, CurrentView
        <4> QED
          BY <4>1, <4>2
      <3>2. UNCHANGED CallView
        BY <2>1 DEF CleanupJournal, CallView
      <3> QED
        BY <2>1, <3>1, <3>2, ViewStutter DEF CleanupJournal, SetJournal, ProjectionView,
           CurrentView
    <2>2. CASE \E i \in Index : CleanupMember(i)
      BY <2>0, <2>2, JournalRewrite DEF CleanupMember
    <2> QED
      BY <1>9, <2>1, <2>2 DEF Cleanup
  <1>10. CASE Body /\ ~Refuse
    <2>0. cont = "commit"
      BY <1>10
        DEF IInv, ControlOK, ContOK, Body, PrepareGeneration, Record, Stage, BackupIntend,
         BackupCheck, BackupMove, BackupDone, PublishIntend, PublishCheck, PublishMove,
         PublishDone, CommitPhase, WritePointer, PointerPhase, VerifyPointer
    <2>1. CASE PrepareGeneration
      BY <2>1, ViewStutter DEF PrepareGeneration, ProjectionView, CurrentView, CallView
    <2>2. CASE Record
      <3>1. journal = None /\ journal' # None /\ ~Committed'
        BY <2>2 DEF Record, IInv, ControlOK, PresenceOK, BodyOK
      <3>2. journal'.previous_targets = dest
        BY <2>2 DEF Record, SetJournal
      <3> QED
        BY <2>2, <3>1, ViewStutter DEF Record, SetJournal, ProjectionView, CurrentView,
           CallView
    <2>3. CASE WritePointer
      BY <2>3, ViewStutter
        DEF WritePointer, ProjectionView, CurrentView, CallView, IInv, ControlOK, BodyOK
    <2>4. CASE Stage \/ BackupCheck \/ BackupMove \/ PublishCheck \/ PublishMove \/ VerifyPointer
      BY <2>4, JournalRewrite
        DEF Stage, BackupCheck, BackupMove, PublishCheck, PublishMove, VerifyPointer, IInv,
         ControlOK, PresenceOK
    <2>5. CASE CommitPhase
      <3>1. journal \in Journal /\ journal # None /\ ~Committed /\ journal.gen = request.gen
            /\ journal.overwrite = request.overwrite
        BY <2>5 DEF CommitPhase, IInv, TypeOK, ControlOK, PresenceOK, BodyOK
      <3>2. journal' # None /\ Committed' /\ journal'.gen = journal.gen
        BY <2>5, <3>1 DEF CommitPhase, SetJournal, Journal
      <3>3. request.overwrite \/ \A i \in Index : journal.previous_targets[i] = None
        BY <3>1 DEF IInv, StoreOK, OpenOK, PriorEvidenceAccepted
      <3>4. Atomic!Commit
        BY <2>0, <2>5, <3>1, <3>2, <3>3
          DEF CommitPhase, Atomic!Commit, ProjectionView, CurrentView, CallView,
           CommittedCall, Index, Atomic!Index
      <3> QED
        BY <3>4 DEF Atomic!ANext
    <2>6. CASE BackupIntend \/ BackupDone \/ PublishIntend \/ PublishDone
      <3>1. journal \in Journal /\ journal # None /\ ~Committed /\ journal' # None /\ ~Committed'
            /\ pc' # "idle" /\ pc # "idle"
        BY <2>6
          DEF BackupIntend, BackupDone, PublishIntend, PublishDone, IInv, TypeOK, ControlOK,
           PresenceOK, BodyOK
      <3>2. journal'.gen = journal.gen /\ journal'.previous_targets = journal.previous_targets
        BY <2>6, <3>1 DEF BackupIntend, BackupDone, PublishIntend, PublishDone, SetJournal,
           Journal
      <3> QED
        BY <2>6, <3>1, <3>2, JournalRewrite
          DEF BackupIntend, BackupDone, PublishIntend, PublishDone, SetJournal
    <2>7. CASE PointerPhase
      <3>1. journal \in Journal /\ journal # None /\ Committed /\ journal' # None
        BY <2>7 DEF PointerPhase, IInv, TypeOK, ControlOK, BodyOK
      <3>2. /\ journal'.gen = journal.gen
            /\ journal'.previous_targets = journal.previous_targets
            /\ Committed'
        BY <2>7, <3>1 DEF PointerPhase, SetJournal
      <3> QED
        BY <2>7, <3>1, JournalRewrite DEF PointerPhase, SetJournal
    <2> QED
      BY <1>10, <2>1, <2>2, <2>3, <2>4, <2>5, <2>6, <2>7 DEF Body
  <1> QED
    BY <1>1, <1>2, <1>3, <1>4, <1>5, <1>6, <1>7, <1>8, <1>9, <1>10 DEF Next, Advance,
       Atomic!ANext

\* What callers see of the protocol is PublicationAtomic: the destinations and
\* the pointer change together, in one step, at most once in a call, and before
\* the call reports success.
THEOREM PublicationIsAtomic == Spec => IsAtomic
  BY InitRefines, StepRefines, Invariance, PTL DEF Spec, IsAtomic, Atomic!ASpec

-------------------------------------------------------------------------------
\* Beside another program: what a call knows whatever the destinations are.

\* The steps that write nothing.
LEMMA CallReads ==
  ASSUME TypeOK, CallOK,
         \/ \E r \in Request : Publish(r)
         \/ RecoverPublication
         \/ Return
         \/ Raise
         \/ Crash
         \/ RecoverNothing
         \/ RecoverForward
         \/ RecoverBackward
         \/ RecoverBlocked
         \/ CheckRemove
         \/ CheckRestore
         \/ RollbackFinish
         \/ RollbackBlocked
         \/ Refuse
         \/ Stage
         \/ BackupCheck
         \/ PublishCheck
         \/ VerifyPointer
  PROVE  /\ TypeOK' /\ CallOK' /\ UNCHANGED <<dest, backup, quarantine, store>>
         /\ pc' \notin {"backup_check", "restored"}
         /\ pc' = "backup_move" => pc = "backup_check"
         /\ pc' = "restore" => backup[RollIndex] = Prior
  <1> DEFINE Entered == /\ pc' \notin {"backup_check", "restored"}
                        /\ pc' = "backup_move" => pc = "backup_check"
                        /\ pc' = "restore" => backup[RollIndex] = Prior
  <1> USE NAssumption
     DEF CallOK, ContOK, PresenceOK, BodyOK, CleanupOK, JournalOK, ProgressOK
  <1>1. CASE \E r \in Request : Publish(r)
    <2>1. UNCHANGED <<dest, backup, quarantine, store>>
      BY <1>1 DEF Publish
    <2>2. TypeOK'
      BY <1>1, <2>1 DEF TypeOK, Publish
    <2>3. JournalOK'
      BY <2>1 DEF JournalAccepted, PointerAccepted
    <2>4. CallOK'
      BY <1>1, <2>1, <2>3 DEF Publish
    <2>5. Entered
      BY <1>1 DEF Publish
    <2> QED
      BY <2>1, <2>2, <2>4, <2>5
  <1>2. CASE RecoverPublication
    <2>1. UNCHANGED <<dest, backup, quarantine, store>>
      BY <1>2 DEF RecoverPublication
    <2>2. TypeOK'
      BY <1>2, <2>1 DEF TypeOK, RecoverPublication
    <2>3. JournalOK'
      BY <2>1 DEF JournalAccepted, PointerAccepted
    <2>4. CallOK'
      BY <1>2, <2>1, <2>3 DEF RecoverPublication
    <2>5. Entered
      BY <1>2 DEF RecoverPublication
    <2> QED
      BY <2>1, <2>2, <2>4, <2>5
  <1>3. CASE Return
    <2>1. UNCHANGED <<dest, backup, quarantine, store>>
      BY <1>3 DEF Return, End
    <2>2. TypeOK'
      BY <1>3, <2>1 DEF TypeOK, Return, End
    <2>3. JournalOK'
      BY <2>1 DEF JournalAccepted, PointerAccepted
    <2>4. CallOK'
      BY <1>3, <2>1, <2>3 DEF Return, End
    <2>5. Entered
      BY <1>3 DEF Return, End
    <2> QED
      BY <2>1, <2>2, <2>4, <2>5
  <1>4. CASE Raise
    <2>1. UNCHANGED <<dest, backup, quarantine, store>>
      BY <1>4 DEF Raise, Abort, End
    <2>2. TypeOK'
      BY <1>4, <2>1 DEF TypeOK, Raise, Abort, End
    <2>3. JournalOK'
      BY <2>1 DEF JournalAccepted, PointerAccepted
    <2>4. CallOK'
      BY <1>4, <2>1, <2>3 DEF Raise, Abort, End
    <2>5. Entered
      BY <1>4 DEF Raise, Abort, End
    <2> QED
      BY <2>1, <2>2, <2>4, <2>5
  <1>5. CASE Crash
    <2>1. UNCHANGED <<dest, backup, quarantine, store>>
      BY <1>5 DEF Crash, End
    <2>2. TypeOK'
      BY <1>5, <2>1 DEF TypeOK, Crash, End
    <2>3. JournalOK'
      BY <2>1 DEF JournalAccepted, PointerAccepted
    <2>4. CallOK'
      BY <1>5, <2>1, <2>3 DEF Crash, End
    <2>5. Entered
      BY <1>5 DEF Crash, End
    <2> QED
      BY <2>1, <2>2, <2>4, <2>5
  <1>6. CASE RecoverNothing
    <2>1. UNCHANGED <<dest, backup, quarantine, store>>
      BY <1>6 DEF RecoverNothing
    <2>2. TypeOK'
      BY <1>6, <2>1 DEF TypeOK, RecoverNothing
    <2>3. JournalOK'
      BY <2>1 DEF JournalAccepted, PointerAccepted
    <2>4. CallOK'
      BY <1>6, <2>1, <2>3 DEF RecoverNothing
    <2>5. Entered
      BY <1>6 DEF RecoverNothing
    <2> QED
      BY <2>1, <2>2, <2>4, <2>5
  <1>7. CASE RecoverForward
    <2>1. UNCHANGED <<dest, backup, quarantine, store>>
      BY <1>7 DEF RecoverForward, MayRollForward
    <2>2. TypeOK'
      BY <1>7, <2>1 DEF TypeOK, RecoverForward, MayRollForward
    <2>3. JournalOK'
      BY <2>1 DEF JournalAccepted, PointerAccepted
    <2>4. CallOK'
      BY <1>7, <2>1, <2>3 DEF RecoverForward, MayRollForward
    <2>5. Entered
      BY <1>7 DEF RecoverForward, MayRollForward
    <2> QED
      BY <2>1, <2>2, <2>4, <2>5
  <1>8. CASE RecoverBackward
    <2>1. UNCHANGED <<dest, backup, quarantine, store>>
      BY <1>8 DEF RecoverBackward, MayRollBack
    <2>2. TypeOK'
      BY <1>8, <2>1 DEF TypeOK, RecoverBackward, MayRollBack
    <2>3. JournalOK'
      BY <2>1 DEF JournalAccepted, PointerAccepted
    <2>4. CallOK'
      BY <1>8, <2>1, <2>3 DEF RecoverBackward, MayRollBack
    <2>5. Entered
      BY <1>8 DEF RecoverBackward, MayRollBack
    <2> QED
      BY <2>1, <2>2, <2>4, <2>5
  <1>9. CASE RecoverBlocked
    <2>1. UNCHANGED <<dest, backup, quarantine, store>>
      BY <1>9 DEF RecoverBlocked, Block, End, RecoverRefuses
    <2>2. TypeOK'
      BY <1>9, <2>1 DEF TypeOK, RecoverBlocked, Block, End, RecoverRefuses
    <2>3. JournalOK'
      BY <2>1 DEF JournalAccepted, PointerAccepted
    <2>4. CallOK'
      BY <1>9, <2>1, <2>3 DEF RecoverBlocked, Block, End, RecoverRefuses
    <2>5. Entered
      BY <1>9 DEF RecoverBlocked, Block, End, RecoverRefuses
    <2> QED
      BY <2>1, <2>2, <2>4, <2>5
  <1>10. CASE CheckRemove
    <2>1. UNCHANGED <<dest, backup, quarantine, store>>
      BY <1>10 DEF CheckRemove, Rolling, MayRemove, Resuming
    <2>2. TypeOK'
      BY <1>10, <2>1 DEF TypeOK, CheckRemove, Rolling, MayRemove, Resuming
    <2>3. JournalOK'
      BY <2>1 DEF JournalAccepted, PointerAccepted
    <2>4. CallOK'
      BY <1>10, <2>1, <2>3 DEF CheckRemove, Rolling, MayRemove, Resuming
    <2>5. Entered
      BY <1>10 DEF CheckRemove, Rolling, MayRemove, Resuming
    <2> QED
      BY <2>1, <2>2, <2>4, <2>5
  <1>11. CASE CheckRestore
    <2>1. UNCHANGED <<dest, backup, quarantine, store>>
      BY <1>11 DEF CheckRestore, Rolling, MayRestore, Resuming
    <2>2. TypeOK'
      BY <1>11, <2>1 DEF TypeOK, CheckRestore, Rolling, MayRestore, Resuming
    <2>3. JournalOK'
      BY <2>1 DEF JournalAccepted, PointerAccepted
    <2>4. CallOK'
      BY <1>11, <2>1, <2>3 DEF CheckRestore, Rolling, MayRestore, Resuming
    <2>5. Entered
      BY <1>11 DEF CheckRestore, Rolling, MayRestore, Resuming
    <2> QED
      BY <2>1, <2>2, <2>4, <2>5
  <1>12. CASE RollbackFinish
    <2>1. UNCHANGED <<dest, backup, quarantine, store>>
      BY <1>12 DEF RollbackFinish
    <2>2. TypeOK'
      BY <1>12, <2>1 DEF TypeOK, RollbackFinish
    <2>3. JournalOK'
      BY <2>1 DEF JournalAccepted, PointerAccepted
    <2>4. CallOK'
      BY <1>12, <2>1, <2>3 DEF RollbackFinish
    <2>5. Entered
      BY <1>12 DEF RollbackFinish
    <2> QED
      BY <2>1, <2>2, <2>4, <2>5
  <1>13. CASE RollbackBlocked
    <2>1. UNCHANGED <<dest, backup, quarantine, store>>
      BY <1>13 DEF RollbackBlocked, Block, End, RollbackRefuses, Rolling
    <2>2. TypeOK'
      BY <1>13, <2>1 DEF TypeOK, RollbackBlocked, Block, End, RollbackRefuses, Rolling
    <2>3. JournalOK'
      BY <2>1 DEF JournalAccepted, PointerAccepted
    <2>4. CallOK'
      BY <1>13, <2>1, <2>3 DEF RollbackBlocked, Block, End, RollbackRefuses, Rolling
    <2>5. Entered
      BY <1>13 DEF RollbackBlocked, Block, End, RollbackRefuses, Rolling
    <2> QED
      BY <2>1, <2>2, <2>4, <2>5
  <1>14. CASE Refuse
    <2>1. UNCHANGED <<dest, backup, quarantine, store>>
      BY <1>14 DEF Refuse, End
    <2>2. TypeOK'
      BY <1>14, <2>1 DEF TypeOK, Refuse, End
    <2>3. JournalOK'
      BY <2>1 DEF JournalAccepted, PointerAccepted
    <2>4. CallOK'
      BY <1>14, <2>1, <2>3 DEF Refuse, End
    <2>5. Entered
      BY <1>14 DEF Refuse, End
    <2> QED
      BY <2>1, <2>2, <2>4, <2>5
  <1>15. CASE Stage
    <2>1. UNCHANGED <<dest, backup, quarantine, store>>
      BY <1>15 DEF Stage
    <2>2. TypeOK'
      BY <1>15, <2>1 DEF TypeOK, Stage
    <2>3. JournalOK'
      BY <2>1 DEF JournalAccepted, PointerAccepted
    <2>4. CallOK'
      BY <1>15, <2>1, <2>3 DEF Stage
    <2>5. Entered
      BY <1>15 DEF Stage
    <2> QED
      BY <2>1, <2>2, <2>4, <2>5
  <1>16. CASE BackupCheck
    <2>1. UNCHANGED <<dest, backup, quarantine, store>>
      BY <1>16 DEF BackupCheck, BackupIndex
    <2>2. TypeOK'
      BY <1>16, <2>1 DEF TypeOK, BackupCheck, BackupIndex
    <2>3. JournalOK'
      BY <2>1 DEF JournalAccepted, PointerAccepted
    <2>4. CallOK'
      BY <1>16, <2>1, <2>3 DEF BackupCheck, BackupIndex
    <2>5. Entered
      BY <1>16 DEF BackupCheck, BackupIndex
    <2> QED
      BY <2>1, <2>2, <2>4, <2>5
  <1>17. CASE PublishCheck
    <2>1. UNCHANGED <<dest, backup, quarantine, store>>
      BY <1>17 DEF PublishCheck, PublishIndex
    <2>2. TypeOK'
      BY <1>17, <2>1 DEF TypeOK, PublishCheck, PublishIndex
    <2>3. JournalOK'
      BY <2>1 DEF JournalAccepted, PointerAccepted
    <2>4. CallOK'
      BY <1>17, <2>1, <2>3 DEF PublishCheck, PublishIndex
    <2>5. Entered
      BY <1>17 DEF PublishCheck, PublishIndex
    <2> QED
      BY <2>1, <2>2, <2>4, <2>5
  <1>18. CASE VerifyPointer
    <2>1. UNCHANGED <<dest, backup, quarantine, store>>
      BY <1>18 DEF VerifyPointer
    <2>2. TypeOK'
      BY <1>18, <2>1 DEF TypeOK, VerifyPointer
    <2>3. JournalOK'
      BY <2>1 DEF JournalAccepted, PointerAccepted
    <2>4. CallOK'
      BY <1>18, <2>1, <2>3 DEF VerifyPointer
    <2>5. Entered
      BY <1>18 DEF VerifyPointer
    <2> QED
      BY <2>1, <2>2, <2>4, <2>5
  <1> QED
    BY <1>1, <1>2, <1>3, <1>4, <1>5, <1>6, <1>7, <1>8, <1>9, <1>10, <1>11, <1>12, <1>13,
       <1>14, <1>15, <1>16, <1>17, <1>18

\* The bookkeeping of the other program follows the transaction (Own).
Follows ==
  /\ foreign' = IF journal' = None THEN Empty ELSE foreign
  /\ defaced' = IF journal' = None THEN {} ELSE defaced

\* Steps that move nothing and leave the journal as it is keep the whole invariant.
LEMMA ReadsKeep ==
  ASSUME OInv, Follows, TypeOK', CallOK', UNCHANGED <<dest, backup, quarantine, journal>>,
         pc' \notin {"backup_check", "restored"},
         pc' = "backup_move" => pc = "backup_check",
         pc' = "restore" => backup[RollIndex] = Prior
  PROVE  OInv'
  <1>1. DirectoryOK'
    BY DEF OInv, DirectoryOK, PlacesOK, RollIndex, Prior, Empty
  <1>2. ForeignOK'
    BY DEF OInv, Follows, ForeignOK
  <1>3. PriorRetainedBesideWriter'
    BY DEF OInv, Follows, PriorRetainedBesideWriter
  <1> QED
    BY <1>1, <1>2, <1>3 DEF OInv

\* Cleanup deletes one backup, or one discarded artifact, of a decided transaction.
LEMMA CleanupMemberKeeps ==
  ASSUME OInv, Follows, NEW k \in Index, CleanupMember(k)
  PROVE  OInv'
  <1> USE NAssumption, NoneAssumption DEF OInv, CleanupMember
  <1>0. pc = "cleanup" /\ journal \in Journal /\ journal # None /\ UNCHANGED <<dest, store, pc>>
    BY DEF TypeOK, CallOK, PresenceOK
  <1>1. TypeOK'
    BY DEF TypeOK, Artifact
  <1>2. CallOK'
    BY DEF CallOK, ContOK, PresenceOK, BodyOK, CleanupOK, JournalOK, ProgressOK,
       JournalAccepted, PointerAccepted
  <1>3. ~Committed => \A i \in Index : i > RollIndex /\ PlacesOK(i)
    BY <1>0 DEF CallOK, CleanupOK, RollIndex, Index, DirectoryOK
  <1>4. ~Committed => UNCHANGED backup
    BY <1>3 DEF PlacesOK
  <1>5. Committed => UNCHANGED quarantine
    BY <1>0 DEF DirectoryOK, Empty
  <1>6. \A i \in Index : quarantine'[i] \in {None, quarantine[i]}
    BY DEF TypeOK
  <1>7. ~Committed => \A i \in Index : PlacesOK(i)'
    BY <1>0, <1>3, <1>4, <1>6 DEF PlacesOK, RollIndex, Index, Journal
  <1>8. DirectoryOK'
    BY <1>0, <1>5, <1>7 DEF DirectoryOK
  <1>9. ForeignOK'
    BY <1>0, <1>3, <1>5, <1>6 DEF Follows, ForeignOK, PlacesOK
  <1>10. PriorRetainedBesideWriter'
    BY <1>0, <1>4 DEF Follows, PriorRetainedBesideWriter
  <1> QED
    BY <1>1, <1>2, <1>8, <1>9, <1>10

\* Where the rollback is, there is a destination.
LEMMA RollIndexIsIndex ==
  ASSUME journal \in Journal, journal.rolled_back < N
  PROVE  RollIndex \in Index
  BY NAssumption DEF RollIndex, Index, Journal

\* Rollback sets aside whatever it finds at a destination it published to.
LEMMA RemoveMoveKeeps ==
  ASSUME OInv, Follows, RemoveMove
  PROVE  OInv'
  <1> USE NAssumption, NoneAssumption DEF OInv, RemoveMove, AtDest
  <1>0. /\ journal \in Journal /\ journal # None /\ ~Committed /\ UNCHANGED store
        /\ journal.rollback.kind = "remove" /\ journal.rolled_back < N
    BY DEF TypeOK, CallOK, PresenceOK, ProgressOK
  <1>1. RollIndex \in Index
    BY <1>0, RollIndexIsIndex
  <1>2. TypeOK'
    BY <1>1 DEF TypeOK, Artifact
  <1>3. CallOK'
    BY DEF CallOK, ContOK, PresenceOK, BodyOK, CleanupOK, JournalOK, ProgressOK,
       JournalAccepted, PointerAccepted
  <1>4. \A i \in Index : i # RollIndex => dest'[i] = dest[i] /\ quarantine'[i] = quarantine[i]
    BY <1>1 DEF TypeOK
  <1>5. /\ quarantine[RollIndex] = None /\ quarantine'[RollIndex] = dest[RollIndex]
        /\ PlacesOK(RollIndex)
    BY <1>0, <1>1 DEF TypeOK, DirectoryOK
  <1>6. \A i \in Index : PlacesOK(i)'
    BY <1>0, <1>1, <1>4 DEF DirectoryOK, PlacesOK, RollIndex, Index, Journal
  <1>7. DirectoryOK'
    BY <1>0, <1>6 DEF DirectoryOK
  <1>8. ForeignOK'
    BY <1>0, <1>4, <1>5 DEF Follows, ForeignOK
  <1>9. PriorRetainedBesideWriter'
    BY <1>0, <1>4, <1>5 DEF Follows, PriorRetainedBesideWriter, PlacesOK, RollIndex, Index, Journal
  <1> QED
    BY <1>2, <1>3, <1>7, <1>8, <1>9

\* Rollback puts a backup back in place.
LEMMA RestoreMoveKeeps ==
  ASSUME OInv, Follows, RestoreMove
  PROVE  OInv'
  <1> USE NAssumption, NoneAssumption DEF OInv, RestoreMove
  <1>0. /\ journal \in Journal /\ journal # None /\ ~Committed /\ UNCHANGED store
        /\ journal.rollback.kind = "restore" /\ journal.rolled_back < N
        /\ backup[RollIndex] = Prior
    BY DEF TypeOK, CallOK, PresenceOK, ProgressOK, DirectoryOK
  <1>1. RollIndex \in Index
    BY <1>0, RollIndexIsIndex
  <1>2. TypeOK'
    BY <1>1 DEF TypeOK, Artifact
  <1>3. CallOK'
    BY DEF CallOK, ContOK, PresenceOK, BodyOK, CleanupOK, JournalOK, ProgressOK,
       JournalAccepted, PointerAccepted
  <1>4. \A i \in Index : i # RollIndex => dest'[i] = dest[i] /\ backup'[i] = backup[i]
    BY <1>1 DEF TypeOK
  <1>5. dest'[RollIndex] = Prior /\ backup'[RollIndex] = None
    BY <1>0, <1>1 DEF TypeOK
  <1>6. journal.overwrite
    BY <1>0, <1>1
      DEF CallOK, JournalOK, JournalAccepted, RollbackAccepted, ProgressOK, PriorEvidenceAccepted,
       RollIndex
  <1>7. \A i \in Index : PlacesOK(i)'
    BY <1>0, <1>1, <1>4 DEF DirectoryOK, PlacesOK, RollIndex, Index, Journal
  <1>8. DirectoryOK'
    BY <1>0, <1>5, <1>7 DEF DirectoryOK, RollIndex
  <1>9. ForeignOK'
    BY <1>0, <1>6 DEF Follows, ForeignOK
  <1>10. PriorRetainedBesideWriter'
    BY <1>0, <1>4, <1>5 DEF Follows, PriorRetainedBesideWriter, Prior
  <1> QED
    BY <1>2, <1>3, <1>8, <1>9, <1>10

\* While the body runs, nothing is set aside, and the backups are those the journal lists.
LEMMA BodyPlaces ==
  ASSUME TypeOK, CallOK, DirectoryOK, pc \in BodyPcs, ~Committed
  PROVE  /\ journal \in Journal /\ journal # None
         /\ journal.rolled_back = 0 /\ journal.rollback = NoOp /\ RollIndex = N - 1
         /\ journal.rollback.kind = "none"
         /\ \A i \in Index : i <= RollIndex /\ PlacesOK(i) /\ quarantine[i] = None
         /\ \A i \in Index : i < journal.backed_up => backup[i] = journal.previous_targets[i]
  <1>1. /\ journal \in Journal /\ journal # None
        /\ journal.rolled_back = 0 /\ journal.rollback = NoOp
    BY DEF TypeOK, CallOK, PresenceOK, BodyOK
  <1>2. RollIndex = N - 1 /\ journal.rollback.kind = "none"
    BY <1>1, NAssumption DEF RollIndex, NoOp
  <1>3. \A i \in Index : i <= RollIndex /\ PlacesOK(i)
    BY <1>1, <1>2, NAssumption DEF DirectoryOK, Index
  <1>4. ASSUME NEW i \in Index
        PROVE  /\ quarantine[i] = None
               /\ i < journal.backed_up => backup[i] = journal.previous_targets[i]
    <2>1. i < RollIndex \/ i = RollIndex
      BY <1>2, <1>3, NAssumption DEF Index
    <2> QED
      BY <1>2, <1>3, <2>1 DEF PlacesOK
  <1> QED
    BY <1>1, <1>2, <1>3, <1>4

\* The previous artifact becomes its backup.
LEMMA BackupMoveKeeps ==
  ASSUME OInv, Follows, BackupMove
  PROVE  OInv'
  <1> USE NAssumption, NoneAssumption DEF OInv, BackupMove, BackupIndex
  <1>0. /\ journal \in Journal /\ journal # None /\ ~Committed /\ UNCHANGED store
        /\ journal.operation.kind = "backup" /\ journal.operation.index = journal.backed_up
        /\ journal.overwrite /\ journal.previous_targets[journal.operation.index] # None
        /\ backup[journal.operation.index] = None
        /\ journal.operation \in Operation
    BY DEF TypeOK, CallOK, PresenceOK, BodyOK, ProgressOK, DirectoryOK, JournalOK,
       JournalAccepted, ProgressAccepted, Journal
  <1> DEFINE k == journal.operation.index
  <1>1. k \in Index /\ journal.operation = [kind |-> "backup", index |-> k]
    BY <1>0, OperationIs DEF Operation
  <1>2. TypeOK'
    BY <1>1 DEF TypeOK, Artifact
  <1>3. CallOK'
    BY DEF CallOK, ContOK, PresenceOK, BodyOK, CleanupOK, JournalOK, ProgressOK,
       JournalAccepted, PointerAccepted
  <1>4. /\ \A i \in Index : i # k => dest'[i] = dest[i] /\ backup'[i] = backup[i]
        /\ backup'[k] = dest[k]
    BY <1>1 DEF TypeOK
  <1>5. RollIndex = N - 1 /\ \A i \in Index : PlacesOK(i) /\ quarantine[i] = None /\ i <= RollIndex
    BY <1>0, BodyPlaces
  <1>5a. journal.rollback.kind = "none"
    BY <1>0, BodyPlaces
  <1>6. ASSUME NEW i \in Index PROVE PlacesOK(i)'
    <2>1. CASE i = k
      BY <2>1, <1>0, <1>1, <1>4, <1>5, <1>5a DEF PlacesOK, RollIndex, Index, Journal
    <2>2. CASE i # k
      BY <2>2, <1>0, <1>1, <1>4, <1>5, <1>5a DEF PlacesOK, RollIndex, Index, Journal
    <2> QED
      BY <2>1, <2>2
  <1>7. DirectoryOK'
    BY <1>0, <1>6 DEF DirectoryOK
  <1>8. ForeignOK'
    BY <1>0 DEF Follows, ForeignOK
  <1>9. PriorRetainedBesideWriter'
    BY <1>0, <1>4 DEF Follows, PriorRetainedBesideWriter
  <1> QED
    BY <1>2, <1>3, <1>7, <1>8, <1>9

\* The new artifact takes its destination, and without overwrite replaces nothing.
LEMMA PublishMoveKeeps ==
  ASSUME OInv, Follows, PublishMove
  PROVE  OInv'
  <1> USE NAssumption, NoneAssumption DEF OInv, PublishMove, PublishIndex
  <1>0. /\ journal \in Journal /\ journal # None /\ ~Committed /\ UNCHANGED store
        /\ journal.overwrite => journal.backed_up = N
        /\ journal.operation.index \in Index
    BY DEF TypeOK, CallOK, PresenceOK, BodyOK, Journal, Operation
  <1> DEFINE k == journal.operation.index
  <1>1. journal.gen \in Generation
    BY <1>0 DEF Journal
  <1>2. TypeOK'
    BY <1>0, <1>1 DEF TypeOK, Artifact, Generation
  <1>3. CallOK'
    BY DEF CallOK, ContOK, PresenceOK, BodyOK, CleanupOK, JournalOK, ProgressOK,
       JournalAccepted, PointerAccepted
  <1>4. \A i \in Index : i # k => dest'[i] = dest[i]
    BY <1>0 DEF TypeOK
  <1>5. /\ \A i \in Index : quarantine[i] = None
        /\ journal.overwrite => \A i \in Index : backup[i] = journal.previous_targets[i]
    BY <1>0, BodyPlaces DEF Index
  <1>6. ~journal.overwrite =>
          dest[k] = None /\ \A i \in Index : journal.previous_targets[i] = None
    BY <1>0 DEF CallOK, ProgressOK, PriorEvidenceAccepted
  <1>7. DirectoryOK'
    BY <1>0 DEF DirectoryOK, PlacesOK, RollIndex, Prior
  <1>8. ForeignOK'
    BY <1>0, <1>4, <1>5, <1>6 DEF Follows, ForeignOK
  <1>9. PriorRetainedBesideWriter'
    BY <1>0, <1>5, <1>6 DEF Follows, PriorRetainedBesideWriter
  <1> QED
    BY <1>2, <1>3, <1>7, <1>8, <1>9

\* The steps that write the store but not the journal.
LEMMA StoreKeeps ==
  ASSUME OInv, Follows, RollForward \/ WritePointer \/ PrepareGeneration
  PROVE  OInv'
  <1>1. CASE RollForward
    <2> USE <1>1, NAssumption, NoneAssumption DEF OInv, RollForward
    <2>1. TypeOK'
      BY DEF TypeOK, CallOK, ProgressOK, JournalOK, JournalAccepted
    <2>2. CallOK'
      BY DEF CallOK, ContOK, PresenceOK, BodyOK, CleanupOK, JournalOK, ProgressOK,
         JournalAccepted, PointerAccepted
    <2> QED
      BY <2>1, <2>2, ReadsKeep
  <1>2. CASE WritePointer
    <2> USE <1>2, NAssumption, NoneAssumption DEF OInv, WritePointer
    <2>1. TypeOK'
      BY DEF TypeOK, CallOK, PresenceOK, JournalOK, JournalAccepted
    <2>2. CallOK'
      BY DEF CallOK, ContOK, PresenceOK, BodyOK, CleanupOK, JournalOK, ProgressOK,
         JournalAccepted, PointerAccepted
    <2> QED
      BY <2>1, <2>2, ReadsKeep
  <1>3. CASE PrepareGeneration
    <2> USE <1>3, NAssumption, NoneAssumption DEF OInv, PrepareGeneration
    <2>1. TypeOK'
      BY DEF TypeOK, Request
    <2>2. CallOK'
      BY DEF CallOK, ContOK, PresenceOK, BodyOK, CleanupOK, JournalOK, ProgressOK,
         JournalAccepted, PointerAccepted
    <2> QED
      BY <2>1, <2>2, ReadsKeep
  <1> QED
    BY <1>1, <1>2, <1>3

\* What must not be lost stays where it is when only the journal's progress is written.
LEMMA HeldStays ==
  ASSUME ForeignOK, PriorRetainedBesideWriter, Follows, UNCHANGED <<dest, backup, quarantine>>,
         journal # None, journal' # None, Committed => Committed',
         journal'.gen = journal.gen, journal'.overwrite = journal.overwrite,
         journal'.previous_targets = journal.previous_targets
  PROVE  ForeignOK' /\ PriorRetainedBesideWriter'
  <1>1. ForeignOK'
    BY DEF Follows, ForeignOK
  <1>2. PriorRetainedBesideWriter'
    BY DEF Follows, PriorRetainedBesideWriter
  <1> QED
    BY <1>1, <1>2

\* The index of the rollback loop is rolled back.
LEMMA CompleteKeeps ==
  ASSUME OInv, Follows, CompleteIndex, UNCHANGED <<dest, backup, quarantine, cont>>,
         UNCHANGED <<request, outcome>>,
         journal # None, ~Committed, journal.rolled_back < N,
         pc \in RecoverPcs, pc' = "rollback",
         backup[RollIndex] = None, quarantine[RollIndex] \in {None, Expected}
  PROVE  OInv'
  <1> USE NAssumption, NoneAssumption DEF OInv
  <1>1. journal \in Journal /\ RollIndex \in Index
    BY RollIndexIsIndex DEF TypeOK
  <1>2. UNCHANGED <<dest, backup, quarantine, generations, pointer>>
    BY DEF SetJournal, CompleteIndex
  <1>3. JournalBecomes(journal.phase, journal.backed_up, journal.previous, journal.published,
                       journal.operation, journal.rolled_back + 1, NoOp)
    BY <1>1, CompletedJournal DEF JournalBecomes, SetJournal, CompleteIndex, Journal
  <1>4. TypeOK'
    BY <1>2, <1>3 DEF TypeOK, JournalBecomes
  <1>5. CallOK'
    BY <1>1, <1>2, <1>3
      DEF JournalBecomes, CallOK, ContOK, PresenceOK, BodyOK, CleanupOK, JournalOK,
       JournalAccepted, ProgressAccepted, RollbackAccepted, PointerAccepted, ProgressOK,
       PriorEvidenceAccepted, NoOp
  <1>6. RollIndex' = RollIndex - 1 /\ RollIndex \in Int /\ ~Committed' /\ journal' # None
    BY <1>1, <1>3 DEF RollIndex, JournalBecomes, Journal
  <1>7. ASSUME NEW i \in Index
        PROVE  PlacesOK(i)'
    <2>1. PlacesOK(i) /\ i \in Int
      BY DEF DirectoryOK, Index
    <2>2. CASE i > RollIndex
      BY <2>1, <2>2, <1>2, <1>3, <1>6 DEF PlacesOK, JournalBecomes, NoOp
    <2>3. CASE i = RollIndex
      BY <2>1, <2>3, <1>2, <1>3, <1>6 DEF PlacesOK, JournalBecomes, NoOp, Expected
    <2>4. CASE i < RollIndex
      BY <2>1, <2>4, <1>2, <1>3, <1>6 DEF PlacesOK, JournalBecomes, NoOp
    <2> QED
      BY <2>1, <2>2, <2>3, <2>4, <1>6
  <1>8. DirectoryOK'
    BY <1>6, <1>7 DEF DirectoryOK
  <1>9. ForeignOK' /\ PriorRetainedBesideWriter'
    BY <1>2, <1>3, HeldStays DEF JournalBecomes
  <1> QED
    BY <1>4, <1>5, <1>8, <1>9

\* A move of the rollback is announced.
LEMMA IntendKeeps ==
  ASSUME OInv, Follows, NEW k \in {"remove", "restore"}, Intend(k),
         UNCHANGED <<dest, backup, quarantine, cont>>, UNCHANGED <<request, outcome>>,
         journal # None, ~Committed, journal.rolled_back < N,
         pc \in RecoverPcs, pc' = "rollback",
         k = "remove" => backup[RollIndex] = Prior,
         k = "restore" => Prior # None /\ quarantine[RollIndex] \in {None, Expected}
  PROVE  OInv'
  <1> USE NAssumption, NoneAssumption DEF OInv
  <1>1. journal \in Journal /\ RollIndex \in Index
    BY RollIndexIsIndex DEF TypeOK
  <1>2. UNCHANGED <<dest, backup, quarantine, generations, pointer>>
    BY DEF SetJournal, Intend
  <1>3. JournalBecomes(journal.phase, journal.backed_up, journal.previous, journal.published,
                       journal.operation, journal.rolled_back,
                       [kind |-> k, index |-> RollIndex])
    <2>1. [kind |-> k, index |-> RollIndex] \in RollbackOp
      BY <1>1 DEF RollbackOp
    <2>2. journal' \in Journal
      BY <1>1, <2>1, RollbackJournal DEF SetJournal, Intend
    <2> QED
      BY <2>2 DEF JournalBecomes, SetJournal, Intend
  <1>4. TypeOK'
    BY <1>2, <1>3 DEF TypeOK, JournalBecomes
  <1>5. CallOK'
    BY <1>1, <1>2, <1>3
      DEF JournalBecomes, CallOK, ContOK, PresenceOK, BodyOK, CleanupOK, JournalOK,
       JournalAccepted, ProgressAccepted, RollbackAccepted, PointerAccepted, ProgressOK,
       PriorEvidenceAccepted, RollIndex, Prior
  <1>6. RollIndex' = RollIndex /\ RollIndex \in Int /\ ~Committed' /\ journal' # None
    BY <1>1, <1>3 DEF RollIndex, JournalBecomes, Journal
  <1>7. ASSUME NEW i \in Index
        PROVE  PlacesOK(i)'
    <2>1. PlacesOK(i) /\ i \in Int
      BY DEF DirectoryOK, Index
    <2>2. CASE i > RollIndex
      BY <2>1, <2>2, <1>2, <1>3, <1>6 DEF PlacesOK, JournalBecomes
    <2>3. CASE i = RollIndex
      BY <2>1, <2>3, <1>2, <1>3, <1>6 DEF PlacesOK, JournalBecomes, Expected, Prior
    <2>4. CASE i < RollIndex
      BY <2>1, <2>4, <1>2, <1>3, <1>6 DEF PlacesOK, JournalBecomes
    <2> QED
      BY <2>1, <2>2, <2>3, <2>4, <1>6
  <1>8. DirectoryOK'
    BY <1>6, <1>7 DEF DirectoryOK
  <1>9. ForeignOK' /\ PriorRetainedBesideWriter'
    BY <1>2, <1>3, HeldStays DEF JournalBecomes
  <1> QED
    BY <1>4, <1>5, <1>8, <1>9

\* What the directory has of the index that the rollback loop is at.
LEMMA RollPlaces ==
  ASSUME OInv, pc \in {"rollback", "remove", "removed", "restore", "restored"},
         journal.rolled_back < N
  PROVE  /\ journal \in Journal /\ journal # None /\ ~Committed /\ RollIndex \in Index
         /\ PlacesOK(RollIndex) /\ RollIndex \in Int /\ RollIndex < N
         /\ journal.operation \in Operation
  <1>1. journal \in Journal /\ journal # None /\ ~Committed
    BY DEF OInv, TypeOK, CallOK, PresenceOK, ProgressOK
  <1>2. RollIndex \in Index
    BY <1>1, RollIndexIsIndex
  <1> QED
    BY <1>1, <1>2, NAssumption DEF OInv, DirectoryOK, Index, Journal

\* A destination that needs no move is counted as rolled back.
LEMMA RollbackIndexDoneKeeps ==
  ASSUME OInv, Follows, RollbackIndexDone
  PROVE  OInv'
  <1>1. /\ pc = "rollback" /\ journal.rolled_back < N /\ Resuming("none")
        /\ UNCHANGED <<dest, backup, quarantine, cont, request, outcome, pc>> /\ CompleteIndex
    BY DEF RollbackIndexDone, Rolling, MaySkip, MayPass, MayKeep
  <1>2. PlacesOK(RollIndex) /\ journal \in Journal /\ RollIndex \in Int /\ ~Committed
        /\ journal # None
    BY <1>1, RollPlaces
  <1>3. quarantine[RollIndex] = None
    BY <1>1, <1>2 DEF PlacesOK, Resuming
  <1>4. backup[RollIndex] = None
    <2>1. CASE MaySkip
      BY <1>1, <1>2, <2>1 DEF PlacesOK, Resuming, MaySkip, BackupTouched, Touched, Journal
    <2>2. CASE MayPass
      BY <1>1, <1>2, <2>2 DEF PlacesOK, Resuming, MayPass, Prior, Journal
    <2>3. CASE MayKeep
      BY <2>3 DEF MayKeep
    <2> QED
      BY <2>1, <2>2, <2>3 DEF RollbackIndexDone
  <1> QED
    BY <1>1, <1>2, <1>3, <1>4, CompleteKeeps

\* What was published is to be set aside: by then its backup is complete.
LEMMA IntendRemoveKeeps ==
  ASSUME OInv, Follows, IntendRemove
  PROVE  OInv'
  <1>1. /\ pc = "rollback" /\ journal.rolled_back < N /\ Resuming("none") /\ PublishTouched
        /\ UNCHANGED <<dest, backup, quarantine, cont, request, outcome, pc>> /\ Intend("remove")
    BY DEF IntendRemove, Rolling, MayIntendRemove
  <1>2. PlacesOK(RollIndex) /\ journal \in Journal /\ RollIndex \in Index /\ RollIndex \in Int
        /\ ~Committed /\ journal # None /\ RollIndex < N
    BY <1>1, RollPlaces
  <1>3. ProgressAccepted(journal) /\ PriorEvidenceAccepted(journal)
    BY <1>2 DEF OInv, CallOK, JournalOK, JournalAccepted, ProgressOK
  <1>4. CASE journal.overwrite
    <2>1. journal.backed_up = N
      BY <1>1, <1>2, <1>3, <1>4, NAssumption
        DEF PublishTouched, Touched, ProgressAccepted, Journal, Index
    <2>2. backup[RollIndex] = Prior
      BY <1>1, <1>2, <2>1 DEF PlacesOK, Resuming, Prior
    <2> QED
      BY <1>1, <1>2, <2>2, IntendKeeps
  <1>5. CASE ~journal.overwrite
    <2>1. Prior = None
      BY <1>2, <1>3, <1>5 DEF PriorEvidenceAccepted, Prior
    <2>2. backup[RollIndex] = Prior
      BY <1>1, <1>2, <2>1 DEF PlacesOK, Resuming, Prior, Journal
    <2> QED
      BY <1>1, <1>2, <2>2, IntendKeeps
  <1> QED
    BY <1>4, <1>5

\* A backup is to be put back.
LEMMA IntendRestoreKeeps ==
  ASSUME OInv, Follows, IntendRestore
  PROVE  OInv'
  <1>1. /\ pc = "rollback" /\ journal.rolled_back < N /\ Resuming("none") /\ Prior # None
        /\ UNCHANGED <<dest, backup, quarantine, cont, request, outcome, pc>> /\ Intend("restore")
    BY DEF IntendRestore, Rolling, MayIntendRestore
  <1>2. PlacesOK(RollIndex) /\ journal \in Journal /\ ~Committed /\ journal # None
    BY <1>1, RollPlaces
  <1>3. quarantine[RollIndex] = None
    BY <1>1, <1>2 DEF PlacesOK, Resuming
  <1> QED
    BY <1>1, <1>2, <1>3, IntendKeeps

\* Once the published artifact is set aside, its index is done or has a backup to put back.
LEMMA FinishRemoveKeeps ==
  ASSUME OInv, Follows, FinishRemove
  PROVE  OInv'
  <1>1. /\ pc \in {"rollback", "removed"} /\ journal.rolled_back < N /\ Resuming("remove")
        /\ UNCHANGED <<dest, backup, quarantine, cont, request, outcome>>
        /\ pc' = "rollback" /\ quarantine[RollIndex] = Expected
    BY DEF FinishRemove, Rolling, Resuming, OInv, CallOK, ProgressOK
  <1>2. PlacesOK(RollIndex) /\ journal \in Journal /\ ~Committed /\ journal # None
    BY <1>1, RollPlaces
  <1>3. backup[RollIndex] = Prior
    BY <1>1, <1>2 DEF PlacesOK, Resuming, Prior
  <1>4. CASE Prior = None
    BY <1>1, <1>2, <1>3, <1>4, CompleteKeeps DEF FinishRemove
  <1>5. CASE Prior # None
    BY <1>1, <1>2, <1>3, <1>5, IntendKeeps DEF FinishRemove
  <1> QED
    BY <1>4, <1>5

\* Once the backup is back in place, its index is done.
LEMMA FinishRestoreKeeps ==
  ASSUME OInv, Follows, FinishRestore
  PROVE  OInv'
  <1>1. /\ pc \in {"rollback", "restored"} /\ journal.rolled_back < N /\ Resuming("restore")
        /\ UNCHANGED <<dest, backup, quarantine, cont, request, outcome>>
        /\ pc' = "rollback" /\ backup[RollIndex] = None /\ CompleteIndex
    BY DEF FinishRestore, Rolling, Resuming, OInv, CallOK, ProgressOK, DirectoryOK
  <1>2. PlacesOK(RollIndex) /\ journal \in Journal /\ ~Committed /\ journal # None
    BY <1>1, RollPlaces
  <1>3. quarantine[RollIndex] \in {None, Expected}
    BY <1>1, <1>2 DEF PlacesOK, Resuming, Expected
  <1> QED
    BY <1>1, <1>2, <1>3, CompleteKeeps

\* A running call rewrites its journal, moves nothing and lists no backup that is not there.
LEMMA BodyJournalKeeps ==
  ASSUME OInv, Follows, pc \in BodyPcs, ~Committed, journal # None, journal' \in Journal,
         TypeOK', CallOK', UNCHANGED <<dest, backup, quarantine>>,
         ~Committed', journal' # None,
         journal'.gen = journal.gen, journal'.overwrite = journal.overwrite,
         journal'.previous_targets = journal.previous_targets,
         journal'.rolled_back = journal.rolled_back, journal'.rollback = journal.rollback,
         \A i \in Index : i < journal'.backed_up => backup[i] = journal.previous_targets[i],
         \A i \in Index : i >= journal'.backed_up =>
           \/ backup[i] = None
           \/ /\ journal.previous_targets[i] # None
              /\ journal'.operation = [kind |-> "backup", index |-> i],
         pc' \in {"backup_check", "backup_move"} => backup[journal'.operation.index] = None,
         pc' \notin {"restore", "restored"}
  PROVE  OInv'
  <1>1. /\ journal.rolled_back = 0 /\ journal.rollback.kind = "none" /\ RollIndex = N - 1
        /\ \A i \in Index : i <= RollIndex /\ quarantine[i] = None
    BY BodyPlaces DEF OInv
  <1>2. RollIndex' = RollIndex /\ \A i \in Index : ~(i > RollIndex) /\ i \in Int
    BY <1>1, NAssumption DEF RollIndex, Index
  <1>3. \A i \in Index : PlacesOK(i)'
    BY <1>1, <1>2 DEF PlacesOK
  <1>4. DirectoryOK'
    BY <1>3 DEF DirectoryOK
  <1>5. ForeignOK' /\ PriorRetainedBesideWriter'
    BY HeldStays DEF OInv
  <1> QED
    BY <1>4, <1>5 DEF OInv

\* What the directory has beside the backup that is being made.
LEMMA BackupPlaces ==
  ASSUME TypeOK, CallOK, DirectoryOK, pc \in BodyPcs, ~Committed
  PROVE  /\ \A i \in Index : i < journal.backed_up => backup[i] = journal.previous_targets[i]
         /\ \A i \in Index : i >= journal.backed_up =>
              backup[i] = None \/ i = journal.operation.index
         /\ journal.operation.kind # "backup" =>
              \A i \in Index : i >= journal.backed_up => backup[i] = None
  <1>1. /\ \A i \in Index : i <= RollIndex /\ PlacesOK(i)
        /\ journal.rollback.kind = "none" /\ RollIndex = N - 1
        /\ \A i \in Index : i < journal.backed_up => backup[i] = journal.previous_targets[i]
    BY BodyPlaces
  <1>2. \A i \in Index : i < RollIndex \/ i = RollIndex
    BY <1>1, NAssumption DEF Index
  <1>3. ASSUME NEW i \in Index, i >= journal.backed_up
        PROVE  \/ backup[i] = None
               \/ journal.operation.index = i /\ journal.operation.kind = "backup"
    <2>1. PlacesOK(i) /\ (i < RollIndex \/ (i = RollIndex /\ journal.rollback.kind = "none"))
      BY <1>1, <1>2
    <2>2. backup[i] = None \/ journal.operation = [kind |-> "backup", index |-> i]
      BY <1>3, <2>1 DEF PlacesOK
    <2> QED
      BY <2>2
  <1> QED
    BY <1>1, <1>3

\* The publication records a backup before the move.
LEMMA BackupIntendKeeps ==
  ASSUME OInv, Follows, BackupIntend
  PROVE  OInv'
  <1> USE NAssumption, NoneAssumption DEF OInv
  <1>1. /\ journal \in Journal /\ journal # None /\ ~Committed /\ journal.backed_up \in Index
        /\ journal.operation = NoOp /\ pc \in BodyPcs
    BY DEF TypeOK, BackupIntend, CallOK, PresenceOK, BodyOK, Journal, Index
  <1>2. UNCHANGED <<dest, backup, quarantine, generations, pointer>>
    BY DEF BackupIntend, SetJournal
  <1>3. JournalBecomes(journal.phase, journal.backed_up, journal.previous, journal.published,
                       [kind |-> "backup", index |-> journal.backed_up], journal.rolled_back,
                       journal.rollback)
    <2>1. [kind |-> "backup", index |-> journal.backed_up] \in Operation
      BY <1>1 DEF Operation
    <2>2. journal' \in Journal
      BY <1>1, <2>1, OperationJournal DEF SetJournal, BackupIntend
    <2> QED
      BY <2>2 DEF JournalBecomes, SetJournal, BackupIntend
  <1>4. TypeOK'
    BY <1>2, <1>3 DEF TypeOK, JournalBecomes, BackupIntend
  <1>5. CallOK'
    BY <1>1, <1>2, <1>3
      DEF JournalBecomes, BackupIntend, CallOK, ContOK, PresenceOK, BodyOK, CleanupOK, JournalOK,
       JournalAccepted, ProgressAccepted, RollbackAccepted, PointerAccepted, ProgressOK,
       PriorEvidenceAccepted
  <1>6. /\ \A i \in Index : i < journal.backed_up => backup[i] = journal.previous_targets[i]
        /\ \A i \in Index : i >= journal.backed_up => backup[i] = None
    <2>1. journal.operation.kind # "backup"
      BY <1>1 DEF NoOp
    <2> QED
      BY <1>1, <2>1, BackupPlaces
  <1>7. backup[journal'.operation.index] = None
    BY <1>1, <1>3, <1>6 DEF JournalBecomes, Index
  <1>8. pc' = "backup_check"
    BY DEF BackupIntend
  <1> QED
    BY <1>1, <1>2, <1>3, <1>4, <1>5, <1>6, <1>7, <1>8, BodyJournalKeeps DEF JournalBecomes

\* A destination whose previous artifact is in the directory is listed as backed up.
LEMMA BackupDoneKeeps ==
  ASSUME OInv, Follows, BackupDone
  PROVE  OInv'
  <1> USE NAssumption, NoneAssumption DEF OInv
  <1>1. /\ journal \in Journal /\ journal # None /\ ~Committed /\ pc \in BodyPcs
        /\ journal.backed_up \in Index /\ journal.operation.index = journal.backed_up
        /\ journal.published = 0 /\ journal.overwrite
    BY DEF TypeOK, BackupDone, CallOK, PresenceOK, BodyOK, ProgressOK, JournalOK,
       JournalAccepted, ProgressAccepted, Journal, Index
  <1>2. UNCHANGED <<dest, backup, quarantine, generations, pointer>>
    BY DEF BackupDone, SetJournal
  <1>3. JournalBecomes("backed_up", journal.backed_up + 1,
                       (IF journal.previous_targets[journal.backed_up] # None
                        THEN journal.previous \cup {journal.backed_up} ELSE journal.previous),
                       journal.published, NoOp, journal.rolled_back, journal.rollback)
    <2>1. /\ journal.backed_up < N
          /\ (IF journal.previous_targets[journal.backed_up] # None
              THEN journal.previous \cup {journal.backed_up} ELSE journal.previous)
             \in SUBSET Index
      BY <1>1 DEF Journal, Index
    <2>2. journal' \in Journal
      BY <1>1, <2>1, BackedUpJournal DEF SetJournal, BackupDone, BackupIndex
    <2> QED
      BY <1>1, <2>2, NoneAssumption DEF JournalBecomes, SetJournal, BackupDone, BackupIndex,
         Journal
  <1>4. TypeOK'
    BY <1>2, <1>3 DEF TypeOK, JournalBecomes, BackupDone
  <1>5. CallOK'
    <2>1. JournalOK'
      BY <1>1, <1>2, <1>3
        DEF JournalBecomes, CallOK, JournalOK, JournalAccepted, ProgressAccepted,
         RollbackAccepted, PointerAccepted, NoOp, Index
    <2>2. PriorEvidenceAccepted(journal)'
      BY <1>1, <1>3 DEF JournalBecomes, CallOK, ProgressOK, PriorEvidenceAccepted, Index
    <2>3. \/ pc' = "backup" /\ journal.backed_up + 1 < N
          \/ pc' = "publish" /\ journal.backed_up + 1 = N
      BY <1>1 DEF BackupDone, BackupIndex, Index
    <2>4. UNCHANGED <<cont, request>> /\ pc = "backup_done"
      BY DEF BackupDone
    <2>5. BodyOK'
      <3>1. /\ ~Committed' /\ journal'.gen = request'.gen
            /\ journal'.overwrite = request'.overwrite /\ journal'.overwrite
            /\ journal'.rolled_back = 0 /\ journal'.rollback = NoOp
            /\ journal'.operation = NoOp /\ journal'.published = 0
            /\ journal'.backed_up = journal.backed_up + 1
        BY <1>1, <1>3, <2>4 DEF JournalBecomes, CallOK, BodyOK
      <3>2. 0 < N
        BY NAssumption
      <3>3. CASE pc' = "backup" /\ journal.backed_up + 1 < N
        BY <3>1, <3>3 DEF BodyOK
      <3>4. CASE pc' = "publish" /\ journal.backed_up + 1 = N
        BY <3>1, <3>2, <3>4 DEF BodyOK
      <3> QED
        BY <2>3, <3>3, <3>4
    <2>6. ContOK' /\ PresenceOK' /\ CleanupOK'
      BY <1>1, <1>3, <2>3, <2>4 DEF JournalBecomes, CallOK, ContOK, PresenceOK, CleanupOK
    <2> QED
      BY <1>3, <2>1, <2>2, <2>3, <2>5, <2>6 DEF JournalBecomes, CallOK, ProgressOK
  <1>6. /\ \A i \in Index : i < journal.backed_up => backup[i] = journal.previous_targets[i]
        /\ \A i \in Index : i >= journal.backed_up =>
             backup[i] = None \/ i = journal.operation.index
        /\ backup[journal.backed_up] = journal.previous_targets[journal.backed_up]
    BY <1>1, BackupPlaces DEF BackupDone, BackupIndex
  <1>7. /\ \A i \in Index : i < journal'.backed_up => backup[i] = journal.previous_targets[i]
        /\ \A i \in Index : i >= journal'.backed_up => backup[i] = None
    BY <1>1, <1>3, <1>6 DEF JournalBecomes, Index
  <1>8. pc' \in {"backup", "publish"}
    BY DEF BackupDone
  <1> QED
    BY <1>1, <1>2, <1>3, <1>4, <1>5, <1>7, <1>8, BodyJournalKeeps DEF JournalBecomes

\* The publication records a rename before it happens.
LEMMA PublishIntendKeeps ==
  ASSUME OInv, Follows, PublishIntend
  PROVE  OInv'
  <1> USE NAssumption, NoneAssumption DEF OInv
  <1>1. /\ journal \in Journal /\ journal # None /\ ~Committed /\ journal.published \in Index
        /\ journal.operation = NoOp /\ pc \in BodyPcs
    BY DEF TypeOK, PublishIntend, CallOK, PresenceOK, BodyOK, Journal, Index
  <1>2. UNCHANGED <<dest, backup, quarantine, generations, pointer>>
    BY DEF PublishIntend, SetJournal
  <1>3. JournalBecomes(journal.phase, journal.backed_up, journal.previous, journal.published,
                       [kind |-> "publish", index |-> journal.published], journal.rolled_back,
                       journal.rollback)
    <2>1. [kind |-> "publish", index |-> journal.published] \in Operation
      BY <1>1 DEF Operation
    <2>2. journal' \in Journal
      BY <1>1, <2>1, OperationJournal DEF SetJournal, PublishIntend
    <2> QED
      BY <2>2 DEF JournalBecomes, SetJournal, PublishIntend
  <1>4. TypeOK'
    BY <1>2, <1>3 DEF TypeOK, JournalBecomes, PublishIntend
  <1>5. CallOK'
    BY <1>1, <1>2, <1>3
      DEF JournalBecomes, PublishIntend, CallOK, ContOK, PresenceOK, BodyOK, CleanupOK, JournalOK,
       JournalAccepted, ProgressAccepted, RollbackAccepted, PointerAccepted, ProgressOK,
       PriorEvidenceAccepted
  <1>6. /\ \A i \in Index : i < journal.backed_up => backup[i] = journal.previous_targets[i]
        /\ \A i \in Index : i >= journal.backed_up => backup[i] = None
    <2>1. journal.operation.kind # "backup"
      BY <1>1 DEF NoOp
    <2> QED
      BY <1>1, <2>1, BackupPlaces
  <1>7. pc' = "publish_check"
    BY DEF PublishIntend
  <1> QED
    BY <1>1, <1>2, <1>3, <1>4, <1>5, <1>6, <1>7, BodyJournalKeeps DEF JournalBecomes

\* A published destination is counted.
LEMMA PublishDoneKeeps ==
  ASSUME OInv, Follows, PublishDone
  PROVE  OInv'
  <1> USE NAssumption, NoneAssumption DEF OInv
  <1>1. /\ journal \in Journal /\ journal # None /\ ~Committed /\ pc \in BodyPcs
        /\ journal.published \in Index /\ journal.operation.index = journal.published
        /\ journal.operation.kind = "publish" /\ (journal.overwrite => journal.backed_up = N)
    BY DEF TypeOK, PublishDone, CallOK, PresenceOK, BodyOK, ProgressOK, JournalOK,
       JournalAccepted, ProgressAccepted, Journal, Index
  <1>2. UNCHANGED <<dest, backup, quarantine, generations, pointer>>
    BY DEF PublishDone, SetJournal
  <1>3. JournalBecomes("publishing", journal.backed_up, journal.previous,
                       journal.published + 1, NoOp, journal.rolled_back, journal.rollback)
    <2>1. journal.published < N
      BY <1>1 DEF Index
    <2>2. journal' \in Journal
      BY <1>1, <2>1, PublishedJournal DEF SetJournal, PublishDone
    <2> QED
      BY <2>2 DEF JournalBecomes, SetJournal, PublishDone
  <1>4. TypeOK'
    BY <1>2, <1>3 DEF TypeOK, JournalBecomes, PublishDone
  <1>5. CallOK'
    <2>1. JournalOK'
      BY <1>1, <1>2, <1>3
        DEF JournalBecomes, CallOK, JournalOK, JournalAccepted, ProgressAccepted,
         RollbackAccepted, PointerAccepted, NoOp, Index
    <2>2. PriorEvidenceAccepted(journal)'
      BY <1>1, <1>3 DEF JournalBecomes, CallOK, ProgressOK, PriorEvidenceAccepted
    <2>3. BodyOK' /\ ContOK' /\ PresenceOK' /\ CleanupOK' /\ pc' \in {"publish", "verify"}
      BY <1>1, <1>2, <1>3
        DEF JournalBecomes, PublishDone, PublishIndex, CallOK, ContOK, PresenceOK, BodyOK,
         CleanupOK, Index
    <2> QED
      BY <1>3, <2>1, <2>2, <2>3 DEF JournalBecomes, CallOK, ProgressOK
  <1>6. /\ \A i \in Index : i < journal.backed_up => backup[i] = journal.previous_targets[i]
        /\ \A i \in Index : i >= journal.backed_up => backup[i] = None
    BY <1>1, BackupPlaces
  <1>7. pc' \in {"publish", "verify"}
    BY DEF PublishDone
  <1> QED
    BY <1>1, <1>2, <1>3, <1>4, <1>5, <1>6, <1>7, BodyJournalKeeps DEF JournalBecomes

\* A destination that another program took is not replaced: the call gives up.
LEMMA PublishRefusedKeeps ==
  ASSUME OInv, Follows, PublishRefused
  PROVE  OInv'
  <1> USE NAssumption, NoneAssumption DEF OInv
  <1>1. /\ journal \in Journal /\ journal # None /\ ~Committed /\ pc \in BodyPcs
        /\ journal.operation.kind = "publish"
    BY DEF TypeOK, PublishRefused, PublishTaken, CallOK, PresenceOK, BodyOK, ProgressOK
  <1>2. UNCHANGED <<dest, backup, quarantine, generations, pointer>>
    BY DEF PublishRefused, SetJournal
  <1>3. JournalBecomes(journal.phase, journal.backed_up, journal.previous, journal.published,
                       NoOp, journal.rolled_back, journal.rollback)
    <2>1. journal' \in Journal
      BY <1>1, ZeroIsIndex, OperationJournal DEF SetJournal, PublishRefused
    <2> QED
      BY <2>1 DEF JournalBecomes, SetJournal, PublishRefused
  <1>4. TypeOK'
    BY <1>2, <1>3 DEF TypeOK, JournalBecomes, PublishRefused, Abort
  <1>5. CallOK'
    BY <1>1, <1>2, <1>3
      DEF JournalBecomes, PublishRefused, Abort, CallOK, ContOK, PresenceOK, BodyOK, CleanupOK,
       JournalOK, JournalAccepted, ProgressAccepted, RollbackAccepted, PointerAccepted,
       ProgressOK, PriorEvidenceAccepted, NoOp
  <1>6. /\ \A i \in Index : i < journal.backed_up => backup[i] = journal.previous_targets[i]
        /\ \A i \in Index : i >= journal.backed_up => backup[i] = None
    BY <1>1, BackupPlaces
  <1>7. pc' = "recover"
    BY DEF PublishRefused, Abort
  <1> QED
    BY <1>1, <1>2, <1>3, <1>4, <1>5, <1>6, <1>7, BodyJournalKeeps DEF JournalBecomes

\* The commit point: nothing was set aside.
LEMMA CommitPhaseKeeps ==
  ASSUME OInv, Follows, CommitPhase
  PROVE  OInv'
  <1> USE NAssumption, NoneAssumption DEF OInv
  <1>1. /\ journal \in Journal /\ journal # None /\ ~Committed /\ pc \in BodyPcs
        /\ journal.rolled_back = 0 /\ journal.rollback = NoOp
        /\ journal.published = N /\ journal.operation = NoOp
    BY DEF TypeOK, CommitPhase, CallOK, PresenceOK, BodyOK
  <1>2. UNCHANGED <<dest, backup, quarantine, generations, pointer>>
    BY DEF CommitPhase, SetJournal
  <1>3. JournalBecomes("published", journal.backed_up, journal.previous, journal.published,
                       journal.operation, journal.rolled_back, journal.rollback)
    BY <1>1 DEF JournalBecomes, SetJournal, CommitPhase, Journal
  <1>4. TypeOK'
    BY <1>2, <1>3 DEF TypeOK, JournalBecomes, CommitPhase
  <1>5. CallOK'
    BY <1>1, <1>2, <1>3
      DEF JournalBecomes, CommitPhase, CallOK, ContOK, PresenceOK, BodyOK, CleanupOK,
       JournalOK, JournalAccepted, ProgressAccepted, RollbackAccepted, PointerAccepted,
       ProgressOK, CommitAccepted
  <1>6. \A i \in Index : quarantine[i] = None
    BY <1>1, BodyPlaces
  <1>7. DirectoryOK'
    BY <1>2, <1>3, <1>6 DEF DirectoryOK, JournalBecomes, CommitPhase, TypeOK, Empty
  <1>8. ForeignOK' /\ PriorRetainedBesideWriter'
    BY <1>1, <1>2, <1>3, HeldStays DEF JournalBecomes
  <1> QED
    BY <1>4, <1>5, <1>7, <1>8

\* The journal records that the pointer is written.
LEMMA PointerPhaseKeeps ==
  ASSUME OInv, Follows, PointerPhase
  PROVE  OInv'
  <1> USE NAssumption, NoneAssumption DEF OInv
  <1>1. journal \in Journal /\ journal # None /\ Committed /\ pc \in BodyPcs
    BY DEF TypeOK, PointerPhase, CallOK, PresenceOK, BodyOK
  <1>2. UNCHANGED <<dest, backup, quarantine, generations, pointer>>
    BY DEF PointerPhase, SetJournal
  <1>3. JournalBecomes("pointer_committed", journal.backed_up, journal.previous,
                       journal.published, journal.operation, journal.rolled_back,
                       journal.rollback)
    BY <1>1 DEF JournalBecomes, SetJournal, PointerPhase, Journal
  <1>4. TypeOK'
    BY <1>2, <1>3 DEF TypeOK, JournalBecomes, PointerPhase
  <1>5. CallOK'
    BY <1>1, <1>2, <1>3
      DEF JournalBecomes, PointerPhase, CallOK, ContOK, PresenceOK, BodyOK, CleanupOK,
       JournalOK, JournalAccepted, ProgressAccepted, RollbackAccepted, PointerAccepted,
       ProgressOK, CommitAccepted
  <1>6. DirectoryOK'
    BY <1>1, <1>2, <1>3 DEF DirectoryOK, JournalBecomes, PointerPhase
  <1>7. ForeignOK' /\ PriorRetainedBesideWriter'
    BY <1>1, <1>2, <1>3, HeldStays DEF JournalBecomes
  <1> QED
    BY <1>4, <1>5, <1>6, <1>7

\* The first journal lists what is at the destinations, and nothing else is there yet.
LEMMA RecordKeeps ==
  ASSUME OInv, Follows, Record
  PROVE  OInv'
  <1> USE NAssumption, NoneAssumption DEF OInv, Record
  <1>1. /\ journal = None /\ cont = "commit" /\ request.gen \in generations /\ request \in Request
        /\ backup = Empty /\ quarantine = Empty /\ foreign = Empty
    BY DEF TypeOK, CallOK, PresenceOK, ContOK, DirectoryOK, ForeignOK
  <1>2. /\ journal' \in Journal /\ journal' # None
        /\ journal'.phase = "prepared" /\ journal'.gen = request.gen
        /\ journal'.overwrite = request.overwrite /\ journal'.previous_targets = dest
        /\ journal'.backed_up = 0 /\ journal'.previous = {} /\ journal'.published = 0
        /\ journal'.operation = NoOp /\ journal'.rolled_back = 0 /\ journal'.rollback = NoOp
    BY ZeroIsIndex DEF SetJournal, Journal, TypeOK, Request
  <1>3. /\ UNCHANGED <<files, generations, pointer, cont, request, outcome>>
        /\ pc' = "stage"
        /\ MayStart
    BY DEF SetJournal
  <1> HIDE DEF Record
  <1>4. TypeOK'
    BY <1>2, <1>3 DEF TypeOK
  <1>5. CallOK'
    <2>1. JournalOK'
      BY <1>1, <1>2, <1>3
        DEF CallOK, JournalOK, JournalAccepted, PointerAccepted, ProgressAccepted,
         RollbackAccepted, NoOp
    <2>2. PriorEvidenceAccepted(journal)'
      BY <1>2, <1>3 DEF PriorEvidenceAccepted, MayStart, Empty, Index
    <2> QED
      BY <1>1, <1>2, <1>3, <2>1, <2>2
        DEF CallOK, ContOK, PresenceOK, BodyOK, CleanupOK, ProgressOK
  <1>6. RollIndex' = N - 1 /\ \A i \in Index : i \in Int /\ ~(i > N - 1)
    BY <1>2 DEF RollIndex, Index
  <1>7. \A i \in Index : PlacesOK(i)'
    BY <1>1, <1>2, <1>3, <1>6 DEF PlacesOK, NoOp, Empty, Index
  <1>8. DirectoryOK'
    BY <1>2, <1>3, <1>7 DEF DirectoryOK
  <1>9. ForeignOK'
    BY <1>1, <1>2 DEF Follows, ForeignOK, Empty
  <1>10. PriorRetainedBesideWriter'
    BY <1>2, <1>3 DEF PriorRetainedBesideWriter
  <1> QED
    BY <1>4, <1>5, <1>8, <1>9, <1>10

\* The journal goes when the directory is empty.
LEMMA CleanupJournalKeeps ==
  ASSUME OInv, Follows, CleanupJournal
  PROVE  OInv'
  <1> USE NAssumption, NoneAssumption DEF OInv, CleanupJournal, SetJournal
  <1>1. TypeOK'
    BY DEF TypeOK
  <1>2. CallOK'
    BY DEF CallOK, ContOK, PresenceOK, BodyOK, CleanupOK, JournalOK, JournalAccepted,
       PointerAccepted, ProgressOK
  <1>3. DirectoryOK'
    BY DEF DirectoryOK, Empty
  <1>4. ForeignOK' /\ PriorRetainedBesideWriter'
    BY DEF Follows, ForeignOK, PriorRetainedBesideWriter, Empty, Artifact
  <1> QED
    BY <1>1, <1>2, <1>3, <1>4

\* The other program writes a destination: neither the journal nor the directory
\* says anything of it.
LEMMA WriteKeeps ==
  ASSUME OInv, NEW k \in Index, NEW c \in Artifact, Write(k, c)
  PROVE  OInv'
  <1> USE NAssumption, NoneAssumption DEF OInv, Write
  <1>1. UNCHANGED <<backup, quarantine, store, pc, cont, request, outcome>>
    OBVIOUS
  <1>2. TypeOK'
    BY DEF TypeOK
  <1>3. CallOK' /\ DirectoryOK'
    BY <1>1
      DEF CallOK, ContOK, PresenceOK, BodyOK, CleanupOK, JournalOK, JournalAccepted,
       PointerAccepted, ProgressOK, DirectoryOK, PlacesOK, RollIndex, Prior
  <1>4. dest'[k] = c /\ \A i \in Index : i # k => dest'[i] = dest[i]
    BY DEF TypeOK
  <1>5. ForeignOK'
    BY <1>1, <1>4 DEF ForeignOK
  <1>6. PriorRetainedBesideWriter'
    BY <1>1, <1>4 DEF PriorRetainedBesideWriter
  <1> QED
    BY <1>2, <1>3, <1>5, <1>6

\* An empty store beside another program satisfies the invariant.
LEMMA OpenInitHolds == OpenInit => OInv
  <1> SUFFICES ASSUME OpenInit PROVE OInv
    OBVIOUS
  <1> USE DEF OpenInit, Init, Empty
  <1>1. TypeOK
    BY DEF TypeOK, Artifact
  <1>2. CallOK
    BY DEF CallOK, ContOK, PresenceOK, BodyOK, CleanupOK, JournalOK, JournalAccepted,
       PointerAccepted, ProgressOK
  <1>3. DirectoryOK
    BY DEF DirectoryOK
  <1>4. ForeignOK /\ PriorRetainedBesideWriter
    BY DEF ForeignOK, PriorRetainedBesideWriter, Artifact
  <1> QED
    BY <1>1, <1>2, <1>3, <1>4 DEF OInv

\* Every step of the protocol or of the other program keeps the invariant.
LEMMA OpenInductive == OInv /\ [OpenNext]_ovars => OInv'
  <1> SUFFICES ASSUME OInv, [OpenNext]_ovars
               PROVE  OInv'
    OBVIOUS
  <1>1. CASE UNCHANGED ovars
    <2>1. TypeOK' /\ DirectoryOK'
      BY <1>1 DEF ovars, vars, OInv, TypeOK, DirectoryOK, PlacesOK, RollIndex, Prior
    <2>2. CallOK'
      BY <1>1
        DEF ovars, vars, OInv, CallOK, ContOK, PresenceOK, BodyOK, CleanupOK, JournalOK,
         JournalAccepted, PointerAccepted, ProgressOK
    <2>3. ForeignOK' /\ PriorRetainedBesideWriter'
      BY <1>1 DEF ovars, vars, OInv, ForeignOK, PriorRetainedBesideWriter
    <2> QED
      BY <2>1, <2>2, <2>3 DEF OInv
  <1>2. CASE \E i \in Index, c \in Artifact : Write(i, c)
    BY <1>2, WriteKeeps
  <1>3. CASE Own
    <2>1. Follows /\ (Next \/ Refusals)
      BY <1>3 DEF Own, Follows
    <2>2. CASE \/ \E r \in Request : Publish(r)
               \/ RecoverPublication \/ Return \/ Raise \/ Crash
               \/ RecoverNothing \/ RecoverForward \/ RecoverBackward \/ RecoverBlocked
               \/ CheckRemove \/ CheckRestore \/ RollbackFinish \/ RollbackBlocked
               \/ Refuse \/ Stage \/ BackupCheck \/ PublishCheck \/ VerifyPointer
      <3>1. /\ TypeOK' /\ CallOK' /\ UNCHANGED <<dest, backup, quarantine, store>>
            /\ pc' \notin {"backup_check", "restored"}
            /\ pc' = "backup_move" => pc = "backup_check"
            /\ pc' = "restore" => backup[RollIndex] = Prior
        BY <2>2, CallReads DEF OInv
      <3> QED
        BY <2>1, <3>1, ReadsKeep
    <2>3. CASE RollForward \/ WritePointer \/ PrepareGeneration
      BY <2>1, <2>3, StoreKeeps
    <2>4. CASE \E i \in Index : CleanupMember(i)
      BY <2>1, <2>4, CleanupMemberKeeps
    <2>5. CASE RemoveMove \/ RestoreMove \/ BackupMove \/ PublishMove
      BY <2>1, <2>5, RemoveMoveKeeps, RestoreMoveKeeps, BackupMoveKeeps, PublishMoveKeeps
    <2>6. CASE RollbackIndexDone \/ IntendRemove \/ IntendRestore \/ FinishRemove \/ FinishRestore
      BY <2>1, <2>6, RollbackIndexDoneKeeps, IntendRemoveKeeps, IntendRestoreKeeps,
         FinishRemoveKeeps, FinishRestoreKeeps
    <2>7. CASE BackupIntend \/ BackupDone \/ PublishIntend \/ PublishDone \/ PublishRefused
      BY <2>1, <2>7, BackupIntendKeeps, BackupDoneKeeps, PublishIntendKeeps, PublishDoneKeeps,
         PublishRefusedKeeps
    <2>8. CASE CommitPhase \/ PointerPhase \/ Record \/ CleanupJournal
      BY <2>1, <2>8, CommitPhaseKeeps, PointerPhaseKeeps, RecordKeeps, CleanupJournalKeeps
    <2> QED
      BY <2>1, <2>2, <2>3, <2>4, <2>5, <2>6, <2>7, <2>8
        DEF Next, Refusals, Advance, Recovery, Cleanup, Body
  <1> QED
    BY <1>1, <1>2, <1>3 DEF OpenNext

\* The invariant holds in every state that the protocol and the other program reach.
LEMMA OpenInvariance == OpenSpec => []OInv
  BY OpenInitHolds, OpenInductive, PTL DEF OpenSpec

\* Without overwrite nothing that another program leaves at a destination is ever
\* lost, at whatever moment of a publication, a rollback or a recovery it appears.
THEOREM ForeignIsRetained == OpenSpec => []ForeignRetained
  <1>1. OInv => ForeignRetained
    BY DEF OInv, ForeignOK, ForeignRetained, Retained
  <1> QED
    BY <1>1, OpenInvariance, PTL

\* Whatever another program does to the destinations, the protocol itself loses no
\* previous artifact before the commit point.
THEOREM PriorIsRetainedBesideWriter == OpenSpec => []PriorRetainedBesideWriter
  <1>1. OInv => PriorRetainedBesideWriter
    BY DEF OInv
  <1> QED
    BY <1>1, OpenInvariance, PTL
================================================================================
