----------------------- MODULE UpdaterInstall_proofs -----------------------
(***************************************************************************)
(* For any set of editors and releases, on either platform and for any     *)
(* number of kills and failed file operations: as long as no editor opens  *)
(* while another one installs (overlaps = 0), the self-update keeps an     *)
(* intact release on disk, never has an addon directory that is half an    *)
(* update, and is atomic.                                                  *)
(***************************************************************************)
EXTENDS UpdaterInstall, TLAPS

(* The editors that have created the transaction record and not yet        *)
(* tried to remove it.                                                     *)
Holding == {"write", "backup", "abort", "activate", "rollback", "undo"}

(* No recovery runs beside an installation.                                *)
Apart == \A i, j \in Editors : ~(pc[i] \in Busy /\ pc[j] \in Starting)

(* Two installers never share a stage.                                     *)
OwnStages ==
  \A i, j \in Editors : pc[i] \in Busy /\ pc[j] \in Busy /\ own[i] = own[j] => i = j

(* The record names the transaction of its holder, so there is only one.   *)
HolderRecord ==
  \A i \in Editors : pc[i] \in Holding =>
    /\ record # NoRecord
    /\ record.stage = own[i]
    /\ record.torn <=> pc[i] = "write"

(* The stage is verified and whole from the end of its extraction.         *)
VerifiedStage ==
  \A i \in Editors :
    pc[i] \in {"check", "create", "write", "backup", "abort", "activate"}
      => IsWhole(stage[own[i]])

(* What each installer knows of the two directories it swaps.              *)
SwapProgress ==
  \A i \in Editors :
    /\ pc[i] \in {"write", "backup", "abort", "undo"} => backup = NoTree
    /\ pc[i] \in {"activate", "rollback"} => target = NoTree

(* What each recovering editor knows of them.                              *)
RecoveryKnows ==
  \A i \in Editors :
    /\ pc[i] \in Starting => target # NoTree /\ running[i] = target.version
    /\ pc[i] \in {"discard", "discarding", "forget"} => backup = NoTree
    /\ pc[i] \in {"confirm", "confirming"} => tag[i] = running[i]
    /\ pc[i] \in Recovering /\ record # NoRecord => record.version = tag[i]

IInv ==
  /\ TypeOK
  /\ Apart
  /\ OwnStages
  /\ HolderRecord
  /\ VerifiedStage
  /\ SwapProgress
  /\ RecoveryKnows
  /\ IntactCopy
  /\ NoPartialPlugin
  /\ NoOrphanBackup
-----------------------------------------------------------------------------
(* What is left of a half-deleted tree is still a tree.                    *)
LEMMA DamagedTree ==
  ASSUME NEW t \in Tree
  PROVE  Damaged(t) \in Tree /\ ~Damaged(t).whole
BY DEF Damaged, Tree

(* The records and trees an installer writes are of their kind.           *)
LEMMA WrittenTree ==
  ASSUME NEW v \in Versions, NEW b \in BOOLEAN
  PROVE  [version |-> v, whole |-> b] \in Tree
BY DEF Tree

LEMMA WrittenRecord ==
  ASSUME NEW v \in Versions, NEW s \in StageIds, NEW b \in BOOLEAN
  PROVE  [version |-> v, stage |-> s, torn |-> b] \in Record
BY DEF Record

LEMMA SealedRecord ==
  ASSUME NEW r \in Record
  PROVE  /\ [r EXCEPT !.torn = FALSE] \in Record
         /\ [r EXCEPT !.torn = FALSE].version = r.version
         /\ [r EXCEPT !.torn = FALSE].stage = r.stage
         /\ ~[r EXCEPT !.torn = FALSE].torn
BY DEF Record

LEMMA TypeInit == Init => TypeOK
<1> SUFFICES ASSUME Init PROVE TypeOK
  OBVIOUS
<1>1. (CHOOSE s \in StageIds : TRUE) \in StageIds
  BY StageIdsAssumption
<1> QED
  BY <1>1, VersionsAssumption, MaxFaultsAssumption
  DEF Init, TypeOK, Tree, Locations

LEMMA TypeFails ==
  ASSUME TypeOK, NEW e \in Editors, NEW l \in Locations, Fails(e, l)
  PROVE  TypeOK'
BY MaxFaultsAssumption DEF TypeOK, Fails, Bearable, Goto

LEMMA TypeProceed ==
  ASSUME TypeOK, NEW e \in Editors, NEW l \in Locations, Proceed(e, l)
  PROVE  /\ pc' \in [Editors -> Locations]
         /\ UNCHANGED <<running, tag, own, faults, overlaps>>
BY DEF TypeOK, Proceed, Goto

(* Every step of recover_update preserves the types.                       *)
LEMMA TypeRecover ==
  ASSUME TypeOK, NEW e \in Editors, Recover(e)
  PROVE  TypeOK'
<1> USE DEF Locations, Starting, Recovering
<1>1. CASE ReadRecord(e)
  BY <1>1 DEF TypeOK, ReadRecord, Readable, Goto, Record
<1>2. CASE Probe(e)
  BY <1>2, TypeProceed DEF TypeOK, Probe, Recovery, disk
<1>3. CASE Restore(e)
  BY <1>3, TypeProceed, TypeFails DEF TypeOK, Attempt, Disk, Restore, disk
<1>4. CASE Confirm(e)
  BY <1>4, TypeProceed, TypeFails, DamagedTree DEF TypeOK, Attempt, Disk, Confirm, disk
<1>5. CASE FinishConfirm(e)
  BY <1>5, TypeProceed, TypeFails DEF TypeOK, Attempt, Disk, FinishConfirm, disk
<1>6. CASE Discard(e)
  BY <1>6, TypeProceed, TypeFails, DamagedTree DEF TypeOK, Attempt, Disk, Discard, disk
<1>7. CASE FinishDiscard(e)
  BY <1>7, TypeProceed, TypeFails DEF TypeOK, Attempt, Disk, FinishDiscard, disk
<1>8. CASE Forget(e)
  BY <1>8, TypeProceed, TypeFails DEF TypeOK, Attempt, Disk, Forget, disk
<1> QED
  BY <1>1, <1>2, <1>3, <1>4, <1>5, <1>6, <1>7, <1>8 DEF Recover

(* Every step of _install preserves the types.                             *)
LEMMA TypeInstall ==
  ASSUME TypeOK, NEW e \in Editors, Install(e)
  PROVE  TypeOK'
<1> USE DEF Locations, Busy, Installing, Failing
<1>1. CASE Extract(e)
  <2> DEFINE t == [version |-> tag[e], whole |-> TRUE]
  <2>1. t \in Tree
    BY WrittenTree DEF TypeOK
  <2>2. CASE Fails(e, "cleanup")
    BY <2>2, TypeFails
  <2>3. CASE ~Fails(e, "cleanup")
    <3>1. /\ stage' = [stage EXCEPT ![own[e]] = t]
          /\ Proceed(e, "check")
          /\ UNCHANGED <<target, backup, record>>
      BY <1>1, <2>3 DEF Attempt, Disk, Extract
    <3> HIDE DEF t
    <3> QED
      BY <2>1, <3>1, TypeProceed DEF TypeOK
  <2> QED
    BY <2>2, <2>3
<1>2. CASE CheckEvidence(e)
  BY <1>2, TypeProceed DEF TypeOK, CheckEvidence, disk
<1>3. CASE CreateRecord(e)
  <2>1. [version |-> tag[e], stage |-> own[e], torn |-> TRUE] \in Record
    BY WrittenRecord DEF TypeOK
  <2> QED
    BY <1>3, <2>1, TypeProceed, TypeFails DEF TypeOK, Attempt, Disk, CreateRecord, disk
<1>4. CASE WriteRecord(e)
  BY <1>4, TypeProceed, TypeFails, SealedRecord DEF TypeOK, Attempt, Disk, WriteRecord
<1>5. CASE BackUp(e)
  BY <1>5, TypeProceed, TypeFails DEF TypeOK, Attempt, Disk, BackUp, disk
<1>6. CASE Activate(e)
  BY <1>6, TypeProceed, TypeFails DEF TypeOK, Attempt, Disk, Activate, disk
<1>7. CASE Rollback(e)
  BY <1>7, TypeProceed, TypeFails DEF TypeOK, Attempt, Disk, Rollback, disk
<1>8. CASE RemoveRecord(e)
  <2>1. PICK at \in {"abort", "undo"} :
          Attempt(e, at, ~RecordPinned,
            Disk(target, backup, stage, NoRecord), "cleanup", "cleanup")
    BY <1>8 DEF RemoveRecord
  <2>2. CASE Fails(e, "cleanup")
    BY <2>2, TypeFails
  <2>3. CASE ~Fails(e, "cleanup")
    BY <2>1, <2>3, TypeProceed DEF TypeOK, Attempt, Disk, disk
  <2> QED
    BY <2>2, <2>3
<1>9. CASE CleanUp(e)
  BY <1>9, TypeProceed, TypeFails DEF TypeOK, Attempt, Disk, CleanUp
<1> QED
  BY <1>1, <1>2, <1>3, <1>4, <1>5, <1>6, <1>7, <1>8, <1>9 DEF Install

LEMMA TypeStep == TypeOK /\ [Next]_vars => TypeOK'
<1> SUFFICES ASSUME TypeOK, [Next]_vars PROVE TypeOK'
  OBVIOUS
<1>1. ASSUME NEW e \in Editors, Launch(e) PROVE TypeOK'
  BY <1>1, MaxFaultsAssumption DEF TypeOK, Launch, Beside, Bearable, Goto, Tree, Locations, Starting
<1>2. ASSUME NEW e \in Editors, Quit(e) PROVE TypeOK'
  BY <1>2, TypeProceed DEF TypeOK, Quit, Locations, disk
<1>3. ASSUME NEW e \in Editors, Crash(e) PROVE TypeOK'
  BY <1>3, TypeFails DEF Crash, Locations
<1>4. ASSUME NEW e \in Editors, Reserve(e) PROVE TypeOK'
  BY <1>4, MaxFaultsAssumption DEF TypeOK, Reserve, Beside, Bearable, Goto, Tree, Locations, Busy, Installing
<1>5. CASE ManualRestore
  BY <1>5 DEF TypeOK, ManualRestore
<1>6. CASE UNCHANGED vars
  BY <1>6 DEF TypeOK, vars
<1> QED
  BY <1>1, <1>2, <1>3, <1>4, <1>5, <1>6, TypeRecover, TypeInstall DEF Next

(* Every variable holds a value of its kind, in every run of every number  *)
(* of editors.                                                             *)
THEOREM TypeCorrect == Spec => []TypeOK
BY TypeInit, TypeStep, PTL DEF Spec
-----------------------------------------------------------------------------
(* recover_update preserves the invariant: nothing is being installed, so  *)
(* what it read when it started still holds.                               *)
LEMMA RecoverStep ==
  ASSUME IInv, TypeOK', overlaps = 0, overlaps' = 0, NEW e \in Editors, Recover(e)
  PROVE  IInv'
<1> USE DEF IInv, TypeOK, Apart, OwnStages, HolderRecord, VerifiedStage, SwapProgress,
           RecoveryKnows, IntactCopy, NoPartialPlugin, NoOrphanBackup,
            Busy, Starting, Installing, Failing, Recovering, Holding,
            Proceed, Fails, Goto, disk, IsWhole, Readable
<1>1. CASE ReadRecord(e)
  BY <1>1 DEF ReadRecord
<1>2. CASE Probe(e)
  BY <1>2 DEF Probe, Recovery
<1>3. CASE Restore(e)
  BY <1>3 DEF Attempt, Disk, Restore
<1>4. CASE Confirm(e)
  BY <1>4 DEF Attempt, Disk, Confirm, Damaged
<1>5. CASE FinishConfirm(e)
  BY <1>5 DEF Attempt, Disk, FinishConfirm
<1>6. CASE Discard(e)
  BY <1>6 DEF Attempt, Disk, Discard, Damaged
<1>7. CASE FinishDiscard(e)
  BY <1>7 DEF Attempt, Disk, FinishDiscard
<1>8. CASE Forget(e)
  BY <1>8 DEF Attempt, Disk, Forget
<1> QED
  BY <1>1, <1>2, <1>3, <1>4, <1>5, <1>6, <1>7, <1>8 DEF Recover

(* _install preserves it: the record excludes other installers, and the    *)
(* evidence it looked for stays absent.                                    *)
LEMMA InstallStep ==
  ASSUME IInv, TypeOK', overlaps = 0, overlaps' = 0, NEW e \in Editors, Install(e)
  PROVE  IInv'
<1> USE DEF IInv, TypeOK, Apart, OwnStages, HolderRecord, VerifiedStage, SwapProgress,
           RecoveryKnows, IntactCopy, NoPartialPlugin, NoOrphanBackup,
            Busy, Starting, Installing, Failing, Recovering, Holding,
            Proceed, Fails, Goto, disk, IsWhole, Readable
<1>1. CASE Extract(e)
  <2> DEFINE t == [version |-> tag[e], whole |-> TRUE]
  <2>1. tag[e] \in Versions
    OBVIOUS
  <2>2. t \in Tree
    BY <2>1, WrittenTree
  <2>3. t \in Tree /\ t.whole /\ t # NoTree
    BY <2>2, NoTreeAssumption
  <2>4. CASE Fails(e, "cleanup")
    BY <1>1, <2>4 DEF Attempt, Disk, Extract
  <2>5. CASE ~Fails(e, "cleanup")
    <3>1. /\ stage' = [stage EXCEPT ![own[e]] = t]
          /\ Proceed(e, "check")
          /\ UNCHANGED <<target, backup, record>>
          /\ pc[e] = "extract"
      BY <1>1, <2>5 DEF Attempt, Disk, Extract
    <3> HIDE DEF t
    <3>2. VerifiedStage'
      BY <2>3, <3>1
    <3>3. IInv' <=> VerifiedStage'
      BY <3>1
    <3> QED
      BY <3>2, <3>3
  <2> QED
    BY <2>4, <2>5
<1>2. CASE CheckEvidence(e)
  BY <1>2 DEF CheckEvidence
<1>3. CASE CreateRecord(e)
  <2> DEFINE r == [version |-> tag[e], stage |-> own[e], torn |-> TRUE]
  <2>1. tag[e] \in Versions /\ own[e] \in StageIds
    OBVIOUS
  <2>2. r \in Record
    BY <2>1, WrittenRecord
  <2>3. r \in Record /\ r.stage = own[e] /\ r.torn /\ r # NoRecord
    BY <2>2, NoRecordAssumption
  <2>4. CASE Fails(e, "cleanup")
    BY <1>3, <2>4 DEF Attempt, Disk, CreateRecord
  <2>5. CASE Proceed(e, "cleanup") /\ UNCHANGED disk
    BY <1>3, <2>5 DEF Attempt, Disk, CreateRecord
  <2>6. CASE /\ record = NoRecord
             /\ record' = r
             /\ Proceed(e, "write")
             /\ UNCHANGED <<target, backup, stage>>
    <3> HIDE DEF r
    <3>1. pc[e] = "create"
      BY <1>3 DEF Attempt, Disk, CreateRecord
    <3>2. HolderRecord'
      BY <2>3, <2>6, <3>1
    <3>3. (Apart /\ OwnStages /\ VerifiedStage /\ SwapProgress)'
      BY <2>6, <3>1
    <3>4. RecoveryKnows'
      BY <2>6, <3>1
    <3> QED
      BY <2>6, <3>2, <3>3, <3>4
  <2> QED
    BY <1>3, <2>4, <2>5, <2>6 DEF Attempt, Disk, CreateRecord
<1>4. CASE WriteRecord(e)
  <2> DEFINE r == [record EXCEPT !.torn = FALSE]
  <2>1. record \in Record /\ record.stage = own[e]
    BY <1>4 DEF Attempt, Disk, WriteRecord
  <2>2. /\ r \in Record /\ r # NoRecord
        /\ r.stage = own[e] /\ r.version = record.version /\ ~r.torn
    BY <2>1, SealedRecord, NoRecordAssumption
  <2>3. CASE Fails(e, "cleanup")
    BY <1>4, <2>3 DEF Attempt, Disk, WriteRecord
  <2>4. CASE ~Fails(e, "cleanup")
    <3>1. /\ record' = r
          /\ Proceed(e, "backup")
          /\ UNCHANGED <<target, backup, stage>>
          /\ pc[e] = "write"
      BY <1>4, <2>1, <2>4 DEF Attempt, Disk, WriteRecord
    <3> HIDE DEF r
    <3>2. HolderRecord'
      BY <2>2, <3>1
    <3>3. (Apart /\ OwnStages /\ VerifiedStage /\ SwapProgress)'
      BY <3>1
    <3>4. RecoveryKnows'
      BY <2>2, <3>1
    <3> QED
      BY <2>2, <3>1, <3>2, <3>3, <3>4
  <2> QED
    BY <2>3, <2>4
<1>5. CASE BackUp(e)
  BY <1>5 DEF Attempt, Disk, BackUp
<1>6. CASE Activate(e)
  BY <1>6 DEF Attempt, Disk, Activate
<1>7. CASE Rollback(e)
  BY <1>7 DEF Attempt, Disk, Rollback
<1>8. CASE RemoveRecord(e)
  BY <1>8 DEF Attempt, Disk, RemoveRecord
<1>9. CASE CleanUp(e)
  BY <1>9 DEF Attempt, Disk, CleanUp
<1> QED
  BY <1>1, <1>2, <1>3, <1>4, <1>5, <1>6, <1>7, <1>8, <1>9 DEF Install

(* So do the other steps.                                                  *)
LEMMA InvStep ==
  ASSUME IInv, overlaps = 0, overlaps' = 0, [Next]_vars
  PROVE  IInv'
<1>1. TypeOK'
  BY TypeStep DEF IInv
<1> USE <1>1 DEF IInv, TypeOK, Apart, OwnStages, HolderRecord, VerifiedStage, SwapProgress,
           RecoveryKnows, IntactCopy, NoPartialPlugin, NoOrphanBackup,
            Busy, Starting, Installing, Failing, Recovering, Holding,
            Proceed, Fails, Goto, disk, IsWhole, Readable
<1>2. ASSUME NEW e \in Editors, Launch(e) PROVE IInv'
  BY <1>2 DEF Launch, Beside
<1>3. ASSUME NEW e \in Editors, Quit(e) PROVE IInv'
  BY <1>3 DEF Quit
<1>4. ASSUME NEW e \in Editors, Crash(e) PROVE IInv'
  BY <1>4 DEF Crash
<1>5. ASSUME NEW e \in Editors, Reserve(e) PROVE IInv'
  BY <1>5 DEF Reserve, Beside, Fresh
<1>6. CASE ManualRestore
  BY <1>6 DEF ManualRestore
<1>7. CASE UNCHANGED vars
  BY <1>7 DEF vars
<1> QED
  BY <1>2, <1>3, <1>4, <1>5, <1>6, <1>7, RecoverStep, InstallStep DEF Next

LEMMA InvInit == Init => IInv
<1> SUFFICES ASSUME Init PROVE IInv
  OBVIOUS
<1>1. target \in Tree /\ target.whole /\ target.version = First
  BY WrittenTree, VersionsAssumption DEF Init
<1>2. target # NoTree
  BY <1>1, NoTreeAssumption
<1>3. \A e \in Editors : pc[e] = "closed"
  BY DEF Init
<1> QED
  BY <1>1, <1>2, <1>3, TypeInit
  DEF IInv, Apart, OwnStages, HolderRecord, VerifiedStage, SwapProgress,
      RecoveryKnows, IntactCopy, NoPartialPlugin, NoOrphanBackup, IsWhole,
      Busy, Starting, Installing, Failing, Recovering, Holding, Init

(* An overlap is never forgotten.                                          *)
LEMMA OverlapsStay ==
  ASSUME TypeOK, [Next]_vars, overlaps' = 0
  PROVE  overlaps = 0
<1>1. overlaps \in Nat
  BY DEF TypeOK
<1>2. ASSUME NEW e \in Editors, Launch(e) \/ Reserve(e) PROVE overlaps = 0
  BY <1>1, <1>2 DEF Launch, Reserve, Beside
<1>3. ASSUME NEW e \in Editors, Quit(e) \/ Crash(e) PROVE overlaps = 0
  BY <1>3 DEF Quit, Crash, Proceed, Fails
<1>4. ASSUME NEW e \in Editors, Recover(e) PROVE overlaps = 0
  BY <1>4 DEF Recover, ReadRecord, Probe, Restore, Confirm, FinishConfirm, Discard,
     FinishDiscard, Forget, Attempt, Proceed, Fails
<1>5. ASSUME NEW e \in Editors, Install(e) PROVE overlaps = 0
  BY <1>5 DEF Install, Extract, CheckEvidence, CreateRecord, WriteRecord, BackUp,
     Activate, Rollback, RemoveRecord, CleanUp, Attempt, Proceed, Fails
<1>6. CASE ManualRestore
  BY <1>6 DEF ManualRestore
<1>7. CASE UNCHANGED vars
  BY <1>7 DEF vars
<1> QED
  BY <1>2, <1>3, <1>4, <1>5, <1>6, <1>7 DEF Next

(* As long as no editor opens in the middle of an update, the invariant    *)
(* holds.                                                                  *)
Held == TypeOK /\ (overlaps = 0 => IInv)

THEOREM Invariance == Spec => []Held
<1>1. Init => Held
  BY InvInit, TypeInit DEF Held
<1>2. Held /\ [Next]_vars => Held'
  BY OverlapsStay, InvStep, TypeStep DEF Held
<1> QED
  BY <1>1, <1>2, PTL DEF Spec

(* An intact release is always in the addon directory or in the backup.    *)
THEOREM IntactCopySafe == Spec => []IntactCopy
<1>1. Held => IntactCopy
  BY DEF Held, IInv, TypeOK, IntactCopy
<1> QED
  BY <1>1, Invariance, PTL

(* What is in the addon directory is never a partial replacement, on any   *)
(* platform, while no editor opens beside an install.                      *)
THEOREM WholeApart == Spec => [](overlaps = 0 => (target # NoTree => target.whole))
<1>1. Held => (overlaps = 0 => (target # NoTree => target.whole))
  BY DEF Held, IInv, TypeOK, NoPartialPlugin
<1> QED
  BY <1>1, Invariance, PTL

(* A backup never loses its record.                                        *)
THEOREM NoOrphanBackupSafe == Spec => []NoOrphanBackup
<1>1. Held => NoOrphanBackup
  BY DEF Held, IInv, TypeOK, NoOrphanBackup
<1> QED
  BY <1>1, Invariance, PTL

(* Two installers never swap directories at once: both would have to own   *)
(* the one record.                                                         *)
THEOREM OneSwapSafe == Spec => []OneSwap
<1>1. Held => (overlaps > 0 \/ \A i, j \in Editors : pc[i] \in Swapping /\ pc[j] \in Swapping => i = j)
  BY DEF Held, IInv, TypeOK, Swapping, HolderRecord, OwnStages, Holding, Busy, Installing, Failing
<1>2. Held => OneSwap
  BY <1>1 DEF Held, OneSwap
<1> QED
  BY <1>2, Invariance, PTL

(* The backup is only ever moved back, or deleted by an editor that runs   *)
(* the release that replaced it.                                           *)
THEOREM BackupSpentSafe == Spec => BackupSpent
<1> DEFINE Disposed ==
      \/ target = NoTree /\ target' = backup /\ backup' = NoTree
      \/ \E e \in Editors :
           /\ pc[e] \in {"confirm", "confirming"}
           /\ IsWhole(target)
           /\ running[e] = target.version
           /\ record # NoRecord /\ record.version = target.version
<1>1. ASSUME IInv, overlaps = 0, [Next]_vars, backup # NoTree, backup' # backup
      PROVE  Disposed
  <2>1. ASSUME NEW e \in Editors, Confirm(e) \/ FinishConfirm(e)
        PROVE  Disposed
    <3>1. pc[e] \in {"confirm", "confirming"} /\ pc[e] \in Recovering
      BY <2>1 DEF Attempt, Disk, Confirm, FinishConfirm, Recovering
    <3>2. target # NoTree /\ running[e] = target.version /\ tag[e] = running[e]
      BY <1>1, <3>1 DEF IInv, RecoveryKnows, Starting
    <3>3. record # NoRecord /\ record.version = tag[e]
      BY <1>1, <3>1 DEF IInv, RecoveryKnows, NoOrphanBackup, Readable
    <3> QED
      BY <1>1, <3>1, <3>2, <3>3 DEF IInv, NoPartialPlugin, IsWhole
  <2>2. ASSUME NEW e \in Editors, Recover(e), ~Confirm(e), ~FinishConfirm(e)
        PROVE  Disposed
    BY <1>1, <2>2 DEF Recover, ReadRecord, Probe, Restore, Discard,
       FinishDiscard, Forget, Attempt, Disk, Proceed, Fails, disk
  <2>3. ASSUME NEW e \in Editors, Install(e)
        PROVE  Disposed
    BY <1>1, <2>3 DEF Install, Extract, CheckEvidence, CreateRecord,
       WriteRecord, BackUp, Activate, Rollback, RemoveRecord, CleanUp, Attempt, Disk, Proceed,
       Fails, disk
  <2>4. CASE ManualRestore
    BY <2>4 DEF ManualRestore
  <2>5. ASSUME NEW e \in Editors,
               Launch(e) \/ Quit(e) \/ Crash(e) \/ Reserve(e)
        PROVE  FALSE
    BY <1>1, <2>5 DEF Launch, Quit, Crash, Reserve, Proceed, Fails, disk
  <2> QED
    BY <1>1, <2>1, <2>2, <2>3, <2>4, <2>5 DEF Next, vars
<1>2. Held /\ [Next]_vars
        => [overlaps' = 0 /\ backup # NoTree /\ backup' # backup => Disposed]_vars
  BY <1>1, OverlapsStay DEF Held
<1> QED
  BY <1>2, Invariance, PTL DEF Spec, BackupSpent
-----------------------------------------------------------------------------
(* UpdaterInstall implements AtomicUpdate while editors stay apart.        *)

(* A checked stage holds the release that its editor asked for.            *)
Checked == {"check", "create", "write", "backup", "abort", "activate"}
TaggedStage == \A i \in Editors : pc[i] \in Checked => stage[own[i]].version = tag[i]

LEMMA TaggedInit == Init => TaggedStage
BY DEF Init, TaggedStage, Checked

LEMMA TaggedStep ==
  ASSUME IInv, TaggedStage, overlaps = 0, overlaps' = 0, [Next]_vars
  PROVE  TaggedStage'
<1> USE DEF IInv, TypeOK, Apart, OwnStages, TaggedStage, Checked, Busy, Starting, Installing, Failing,
            Recovering, Proceed, Fails, Goto, disk
<1>1. ASSUME NEW e \in Editors, Launch(e) \/ Quit(e) \/ Crash(e) PROVE TaggedStage'
  BY <1>1 DEF Launch, Quit, Crash
<1>2. ASSUME NEW e \in Editors, Reserve(e) PROVE TaggedStage'
  BY <1>2 DEF Reserve, Fresh
<1>3. ASSUME NEW e \in Editors, Recover(e) PROVE TaggedStage'
  <2>1. pc[e] \in Starting
    BY <1>3 DEF Recover, ReadRecord, Probe, Restore, Confirm, FinishConfirm, Discard, FinishDiscard,
       Forget, Attempt
  <2>2. \A i \in Editors : pc[i] \notin Checked /\ pc'[i] \notin Checked
    BY <1>3, <2>1 DEF Recover, ReadRecord, Probe, Recovery, Restore, Confirm, FinishConfirm, Discard,
       FinishDiscard, Forget, Attempt
  <2> QED
    BY <2>2
<1>4. ASSUME NEW e \in Editors, Install(e) PROVE TaggedStage'
  <2>1. CASE Extract(e)
    BY <1>4, <2>1 DEF Attempt, Disk, Extract
  <2>2. CASE CheckEvidence(e)
    BY <2>2 DEF CheckEvidence
  <2>3. CASE CreateRecord(e) \/ WriteRecord(e) \/ BackUp(e) \/ RemoveRecord(e) \/ Rollback(e)
    <3>1. /\ UNCHANGED <<stage, own, tag>>
          /\ \E l \in {"write", "backup", "cleanup", "activate", "abort", "undo", "idle"} :
               pc' = [pc EXCEPT ![e] = l]
          /\ pc[e] \in {"create", "write", "backup", "abort", "rollback", "undo"}
          /\ pc[e] \in {"abort", "rollback", "undo"} => pc'[e] \notin Checked
      BY <2>3 DEF Attempt, Disk, CreateRecord, WriteRecord, BackUp, RemoveRecord, Rollback
    <3> QED
      BY <3>1
  <2>4. CASE Activate(e)
    BY <2>4 DEF Attempt, Disk, Activate
  <2>5. CASE CleanUp(e)
    BY <2>5 DEF Attempt, Disk, CleanUp
  <2> QED
    BY <1>4, <2>1, <2>2, <2>3, <2>4, <2>5 DEF Install
<1>5. CASE ManualRestore
  BY <1>5 DEF ManualRestore
<1>6. CASE UNCHANGED vars
  BY <1>6 DEF vars
<1> QED
  BY <1>1, <1>2, <1>3, <1>4, <1>5, <1>6 DEF Next

(* What an editor wants changes with its own step only.                    *)
Wanted == [e \in Editors |-> IF pc[e] \in Installing THEN {tag[e]} ELSE {}]

LEMMA WantsMore ==
  ASSUME TypeOK, NEW e \in Editors, NEW l, pc' = [pc EXCEPT ![e] = l],
         \A i \in Editors : i # e => tag'[i] = tag[i]
  PROVE  Wanted' = [Wanted EXCEPT ![e] = IF l \in Installing THEN {tag'[e]} ELSE {}]
BY DEF TypeOK, Wanted

(* A step that leaves the plugin in force and loads none is one of the     *)
(* editor's that gives up, asks, or does neither.                          *)
LEMMA WantsOrNot ==
  ASSUME TypeOK, NEW e \in Editors, NEW l, pc' = [pc EXCEPT ![e] = l],
         UNCHANGED <<tag, running, InForce>>, l \in Installing => pc[e] \in Installing
  PROVE  [Update!Next]_(Update!vars)
<1>1. Wanted' = [Wanted EXCEPT ![e] = IF l \in Installing THEN {tag[e]} ELSE {}]
  BY WantsMore
<1>2. CASE l \in Installing
  <2>1. Wanted' = Wanted
    BY <1>1, <1>2 DEF Wanted
  <2> QED
    BY <2>1 DEF Update!vars, Wanted
<1>3. CASE l \notin Installing
  BY <1>1, <1>3 DEF Update!Next, Update!GiveUp, Wanted
<1> QED
  BY <1>2, <1>3

LEMMA UpdateRecover ==
  ASSUME IInv, TypeOK', overlaps = 0, NEW e \in Editors, Recover(e)
  PROVE  [Update!Next]_(Update!vars)
<1>1. UNCHANGED InForce /\ UNCHANGED running
  <2> USE DEF IInv, TypeOK, RecoveryKnows, Starting, Recovering, Proceed, Fails, disk, InForce
  <2>1. CASE ReadRecord(e) \/ Probe(e)
    BY <2>1 DEF ReadRecord, Probe
  <2>2. CASE Restore(e)
    BY <2>2 DEF Attempt, Disk, Restore
  <2>3. CASE Confirm(e) \/ FinishConfirm(e)
    BY <2>3 DEF Attempt, Disk, Confirm, FinishConfirm
  <2>4. CASE Discard(e) \/ FinishDiscard(e) \/ Forget(e)
    BY <2>4 DEF Attempt, Disk, Discard, FinishDiscard, Forget
  <2> QED
    BY <2>1, <2>2, <2>3, <2>4 DEF Recover
<1>2. \A i \in Editors : pc[i] \notin Installing /\ pc'[i] \notin Installing
  <2> USE DEF IInv, TypeOK, Apart, Starting, Recovering, Busy, Installing, Proceed, Fails, Goto
  <2>1. pc[e] \in Starting /\ \A i \in Editors : i # e => pc'[i] = pc[i]
    BY DEF Recover, ReadRecord, Probe, Restore, Confirm, FinishConfirm, Discard, FinishDiscard,
       Forget, Attempt
  <2>2. pc'[e] \notin Installing
    BY DEF Recover, ReadRecord, Probe, Recovery, Restore, Confirm, FinishConfirm, Discard,
       FinishDiscard, Forget, Attempt
  <2> QED
    BY <2>1, <2>2
<1>3. UNCHANGED Wanted
  BY <1>2 DEF Wanted
<1> QED
  BY <1>1, <1>3 DEF Update!vars, Wanted

LEMMA UpdateInstall ==
  ASSUME IInv, TypeOK', TaggedStage, overlaps = 0, overlaps' = 0, NEW e \in Editors, Install(e)
  PROVE  [Update!Next]_(Update!vars)
<1> DEFINE Quiet == UNCHANGED <<tag, running, InForce>>
<1>1. ASSUME Activate(e), stage[own[e]] # NoTree, target = NoTree,
             Disk(stage[own[e]], backup, [stage EXCEPT ![own[e]] = NoTree], record), Proceed(e, "idle")
      PROVE  \E v \in Versions : Update!Commit(e, v)
  <2>1. pc[e] = "activate"
    BY <1>1 DEF Activate, Attempt
  <2>2. PICK v \in Versions : v = tag[e]
    BY DEF IInv, TypeOK
  <2>3. stage[own[e]] \in Tree /\ stage[own[e]].whole /\ stage[own[e]].version = v
    BY <1>1, <2>1, <2>2 DEF IInv, TypeOK, VerifiedStage, IsWhole, TaggedStage, Checked
  <2>4. stage[own[e]] = Update!Intact(v)
    BY <2>3 DEF Tree, Update!Intact
  <2>5. InForce' = Update!Intact(v) /\ UNCHANGED running
    BY <1>1, <2>4 DEF InForce, Disk, Proceed
  <2>6. Wanted' = [Wanted EXCEPT ![e] = {}] /\ Wanted[e] = {v}
    BY <1>1, <2>1, <2>2, WantsMore DEF IInv, Proceed, Goto, Wanted, Installing
  <2> QED
    BY <2>5, <2>6 DEF Update!Commit, Wanted
<1>2. CASE \E v \in Versions : Update!Commit(e, v)
  BY <1>2 DEF Update!Next
<1>3. ASSUME NEW l, Goto(e, l), Quiet, l \in Installing => pc[e] \in Installing
      PROVE  [Update!Next]_(Update!vars)
  BY <1>3, WantsOrNot DEF IInv, Goto
<1>4. CASE Activate(e) /\ ~\E v \in Versions : Update!Commit(e, v)
  <2>1. Goto(e, "rollback") /\ Quiet
    BY <1>1, <1>4 DEF Activate, Attempt, Proceed, Fails, disk, InForce
  <2> QED
    BY <1>3, <2>1 DEF Installing
<1>5. CASE \/ Extract(e) \/ CheckEvidence(e) \/ CreateRecord(e) \/ WriteRecord(e) \/ BackUp(e)
           \/ RemoveRecord(e) \/ CleanUp(e) \/ Rollback(e)
  <2>1. pc[e] \in Installing \/ \E l \in {"cleanup", "undo", "idle"} : Goto(e, l)
    BY <1>5 DEF Extract, CheckEvidence, CreateRecord, WriteRecord, BackUp, RemoveRecord, CleanUp,
       Rollback, Attempt, Proceed, Fails, Installing
  <2>2. \E l : Goto(e, l)
    BY <1>5 DEF Extract, CheckEvidence, CreateRecord, WriteRecord, BackUp, RemoveRecord, CleanUp,
       Rollback, Attempt, Proceed, Fails
  <2>3. UNCHANGED <<tag, running>>
    BY <1>5 DEF Extract, CheckEvidence, CreateRecord, WriteRecord, BackUp, RemoveRecord, CleanUp,
       Rollback, Attempt, Proceed, Fails
  <2>4. UNCHANGED InForce
    BY <1>5 DEF Extract, CheckEvidence, CreateRecord, WriteRecord, BackUp, RemoveRecord, CleanUp,
       Rollback, Attempt, Proceed, Fails, Disk, disk, InForce
  <2> QED
    BY <1>3, <2>1, <2>2, <2>3, <2>4 DEF Installing
<1> QED
  BY <1>2, <1>4, <1>5 DEF Install

LEMMA UpdateStep ==
  ASSUME IInv, TypeOK', TaggedStage, overlaps = 0, overlaps' = 0, [Next]_vars
  PROVE  [Update!Next]_(Update!vars)
<1>1. ASSUME NEW e \in Editors, Launch(e) PROVE Update!Start(e)
  <2>1. InForce' = InForce /\ running' = [running EXCEPT ![e] = InForce.version]
    BY <1>1 DEF Launch, InForce
  <2>2. Wanted' = Wanted /\ Wanted[e] = {}
    BY <1>1 DEF Launch, Goto, Wanted, Installing, IInv, TypeOK
  <2> QED
    BY <2>1, <2>2 DEF Update!Start, Wanted
<1>2. ASSUME NEW e \in Editors, Quit(e) \/ Crash(e) PROVE [Update!Next]_(Update!vars)
  <2>1. pc' = [pc EXCEPT ![e] = "closed"] /\ UNCHANGED <<tag, running, InForce>>
    BY <1>2 DEF Quit, Crash, Proceed, Fails, Goto, disk, InForce
  <2> QED
    BY <2>1, WantsOrNot DEF IInv, Installing
<1>3. ASSUME NEW e \in Editors, Reserve(e) PROVE \E v \in Versions : Update!Ask(e, v)
  <2>1. PICK v \in Versions : /\ v > running[e] /\ pc[e] = "idle" /\ tag' = [tag EXCEPT ![e] = v]
                              /\ pc' = [pc EXCEPT ![e] = "extract"]
                              /\ UNCHANGED <<target, backup, running>>
    BY <1>3 DEF Reserve, Goto
  <2>2. Wanted' = [Wanted EXCEPT ![e] = {v}] /\ Wanted[e] = {}
    BY <2>1, WantsMore DEF IInv, TypeOK, Wanted, Installing
  <2> QED
    BY <2>1, <2>2 DEF Update!Ask, Wanted, InForce
<1>4. CASE ManualRestore
  BY <1>4 DEF ManualRestore, InForce, Update!vars
<1>5. CASE UNCHANGED vars
  BY <1>5 DEF vars, InForce, Update!vars
<1> QED
  BY <1>1, <1>2, <1>3, <1>4, <1>5, UpdateRecover, UpdateInstall DEF Next, Update!Next

(* However an update is interrupted and recovered, it happens in one step, *)
(* the activation, or not at all: UpdaterInstall implements AtomicUpdate   *)
(* while editors stay apart, on either platform.                           *)
THEOREM AtomicSafe == Spec => Atomic
<1> DEFINE I == Held /\ (overlaps = 0 => TaggedStage)
<1>1. Init => I /\ Update!Init
  <2> SUFFICES ASSUME Init PROVE I /\ Update!Init
    OBVIOUS
  <2>1. target \in Tree /\ target # NoTree
    BY WrittenTree, VersionsAssumption, NoTreeAssumption DEF Init
  <2>2. Update!Init
    BY <2>1 DEF Init, InForce, Update!Init, Update!Intact, Installing
  <2> QED
    BY <2>2, InvInit, TypeInit, TaggedInit DEF Held
<1>2. I /\ [Next]_vars => I'
  BY OverlapsStay, InvStep, TypeStep, TaggedStep DEF Held
<1>3. I /\ [Next]_vars => [overlaps' = 0 => [Update!Next]_(Update!vars)]_vars
  BY OverlapsStay, TypeStep, UpdateStep DEF Held
<1> HIDE DEF I
<1> QED
  BY <1>1, <1>2, <1>3, PTL DEF Spec, Atomic
-----------------------------------------------------------------------------
(* Two editors whose ways cross, with nothing killed and nothing failing,  *)
(* where the staging root is pinned.                                       *)

(* A stage that is being deleted is no installer's.                        *)
DiscardedApart ==
  \A e, i \in Editors : pc[e] = "discarding" /\ pc[i] \in Installing => own[i] # own[e]

(* The plugin is away only between the two renames of an install.          *)
AwayToReturn == target = NoTree => \E i \in Editors : pc[i] = "activate"

(* A backup that is not whole is being deleted.                            *)
BackupWhole ==
  backup # NoTree => backup.whole \/ \E c \in Editors : pc[c] = "confirming"

TargetWhole == target # NoTree => target.whole

Crossing ==
  OwnStages /\ VerifiedStage /\ DiscardedApart /\ AwayToReturn /\ BackupWhole /\ TargetWhole

LEMMA CrossingInit == Init => Crossing
<1> SUFFICES ASSUME Init PROVE Crossing
  OBVIOUS
<1>1. target.whole /\ target # NoTree /\ backup = NoTree
  BY WrittenTree, VersionsAssumption, NoTreeAssumption DEF Init
<1>2. \A e \in Editors : pc[e] = "closed"
  BY DEF Init
<1> QED
  BY <1>1, <1>2 DEF Crossing, OwnStages, VerifiedStage, DiscardedApart, AwayToReturn, BackupWhole,
     TargetWhole, Busy, Installing, Failing

(* A backup that is put back is whole: whoever puts it back and whoever    *)
(* has taken the plugin away are the two editors there are.                *)
LEMMA PutBackWhole ==
  ASSUME Crossing, TwoEditors, NEW e \in Editors, pc[e] \in {"restore", "rollback"},
         target = NoTree, backup # NoTree
  PROVE  backup.whole
<1>1. PICK i \in Editors : pc[i] = "activate"
  BY DEF Crossing, AwayToReturn
<1>2. ASSUME NEW c \in Editors, pc[c] = "confirming" PROVE FALSE
  BY <1>1, <1>2 DEF TwoEditors
<1> QED
  BY <1>2 DEF Crossing, BackupWhole

LEMMA CrossingRecover ==
  ASSUME Crossing, TypeOK, TypeOK', Pinning, TwoEditors, faults = 0, faults' = 0,
         NEW e \in Editors, Recover(e)
  PROVE  Crossing'
<1> USE DEF Crossing, TypeOK, OwnStages, VerifiedStage, DiscardedApart, AwayToReturn, BackupWhole,
            TargetWhole, Busy, Installing, Failing, Proceed, Fails, Goto, disk, IsWhole
<1>1. CASE ReadRecord(e)
  BY <1>1 DEF ReadRecord
<1>2. CASE Probe(e)
  BY <1>2 DEF Probe, Recovery
<1>3. CASE Restore(e)
  BY <1>3, PutBackWhole DEF Attempt, Disk, Restore
<1>4. CASE Confirm(e)
  BY <1>4 DEF Attempt, Disk, Confirm, Damaged
<1>5. CASE FinishConfirm(e)
  BY <1>5 DEF Attempt, Disk, FinishConfirm
<1>6. CASE Discard(e)
  BY <1>6 DEF Attempt, Disk, Discard, Damaged, Pinned
<1>7. CASE FinishDiscard(e)
  BY <1>7 DEF Attempt, Disk, FinishDiscard
<1>8. CASE Forget(e)
  BY <1>8 DEF Attempt, Disk, Forget
<1> QED
  BY <1>1, <1>2, <1>3, <1>4, <1>5, <1>6, <1>7, <1>8 DEF Recover

LEMMA CrossingInstall ==
  ASSUME Crossing, TypeOK, TypeOK', Pinning, TwoEditors, faults = 0, faults' = 0,
         NEW e \in Editors, Install(e)
  PROVE  Crossing'
<1> USE DEF Crossing, TypeOK, OwnStages, VerifiedStage, DiscardedApart, AwayToReturn, BackupWhole,
            TargetWhole, Busy, Installing, Failing, Proceed, Fails, Goto, disk, IsWhole
<1>1. CASE Extract(e)
  <2> DEFINE t == [version |-> tag[e], whole |-> TRUE]
  <2>0. tag[e] \in Versions
    OBVIOUS
  <2>1. t \in Tree
    BY <2>0, WrittenTree
  <2>3. t.whole /\ t # NoTree
    BY <2>1, NoTreeAssumption
  <2>2. /\ stage' = [stage EXCEPT ![own[e]] = t]
        /\ Proceed(e, "check")
        /\ UNCHANGED <<target, backup, record>>
        /\ pc[e] = "extract"
    BY <1>1 DEF Attempt, Disk, Extract
  <2> HIDE DEF t
  <2> QED
    BY <2>2, <2>3
<1>2. CASE CheckEvidence(e)
  BY <1>2 DEF CheckEvidence
<1>3. CASE CreateRecord(e) \/ WriteRecord(e) \/ RemoveRecord(e)
  <2>1. /\ UNCHANGED <<target, backup, stage, own>>
        /\ \E l \in {"write", "backup", "cleanup"} : pc' = [pc EXCEPT ![e] = l]
        /\ pc[e] \in {"create", "write", "abort", "undo"}
        /\ pc[e] \in {"abort", "undo"} => pc'[e] = "cleanup"
    BY <1>3 DEF Attempt, Disk, CreateRecord, WriteRecord, RemoveRecord
  <2> QED
    BY <2>1
<1>4. CASE BackUp(e)
  BY <1>4 DEF Attempt, Disk, BackUp
<1>5. CASE Activate(e)
  BY <1>5 DEF Attempt, Disk, Activate
<1>6. CASE Rollback(e)
  BY <1>6, PutBackWhole DEF Attempt, Disk, Rollback
<1>7. CASE CleanUp(e)
  BY <1>7 DEF Attempt, Disk, CleanUp
<1> QED
  BY <1>1, <1>2, <1>3, <1>4, <1>5, <1>6, <1>7 DEF Install

LEMMA CrossingStep ==
  ASSUME Crossing, TypeOK, Pinning, TwoEditors, faults = 0, faults' = 0, [Next]_vars
  PROVE  Crossing'
<1>1. TypeOK'
  BY TypeStep
<1> USE DEF Crossing, TypeOK, OwnStages, VerifiedStage, DiscardedApart, AwayToReturn, BackupWhole,
            TargetWhole, Busy, Installing, Failing, Proceed, Fails, Goto, disk, IsWhole
<1>2. ASSUME NEW e \in Editors, Launch(e) \/ Quit(e) PROVE Crossing'
  BY <1>2 DEF Launch, Quit
<1>3. ASSUME NEW e \in Editors, Crash(e) PROVE Crossing'
  BY <1>3 DEF Crash
<1>4. ASSUME NEW e \in Editors, Reserve(e) PROVE Crossing'
  BY <1>4 DEF Reserve, Fresh, Recovering
<1>5. CASE ManualRestore
  BY <1>5 DEF ManualRestore
<1>6. CASE UNCHANGED vars
  BY <1>6 DEF vars
<1> QED
  BY <1>1, <1>2, <1>3, <1>4, <1>5, <1>6, CrossingRecover, CrossingInstall DEF Next

(* A fault is never forgotten.                                             *)
LEMMA FaultsStay ==
  ASSUME TypeOK, [Next]_vars, faults' = 0
  PROVE  faults = 0
<1>1. faults \in Nat
  BY DEF TypeOK
<1>2. ASSUME NEW e \in Editors, Launch(e) \/ Reserve(e) \/ Quit(e) \/ Crash(e) PROVE faults = 0
  BY <1>1, <1>2 DEF Launch, Reserve, Beside, Quit, Crash, Proceed, Fails
<1>3. ASSUME NEW e \in Editors, Recover(e) PROVE faults = 0
  BY <1>1, <1>3 DEF Recover, ReadRecord, Probe, Restore, Confirm, FinishConfirm, Discard,
     FinishDiscard, Forget, Attempt, Proceed, Fails
<1>4. ASSUME NEW e \in Editors, Install(e) PROVE faults = 0
  BY <1>1, <1>4 DEF Install, Extract, CheckEvidence, CreateRecord, WriteRecord, BackUp,
     Activate, Rollback, RemoveRecord, CleanUp, Attempt, Proceed, Fails
<1>5. CASE ManualRestore
  BY <1>5 DEF ManualRestore
<1>6. CASE UNCHANGED vars
  BY <1>6 DEF vars
<1> QED
  BY <1>2, <1>3, <1>4, <1>5, <1>6 DEF Next

LEMMA CrossingSafe == Pinning => (Spec => [](TwoEditors /\ faults = 0 => Crossing))
<1> SUFFICES ASSUME Pinning PROVE Spec => [](TwoEditors /\ faults = 0 => Crossing)
  OBVIOUS
<1> DEFINE I == TwoEditors /\ faults = 0 => Crossing
<1>1. Init => I
  BY CrossingInit
<1>2. TypeOK /\ I /\ [Next]_vars => I'
  BY FaultsStay, CrossingStep DEF TwoEditors
<1> HIDE DEF I
<1>3. Spec => []I
  BY <1>1, <1>2, TypeCorrect, PTL DEF Spec
<1> QED
  BY <1>3 DEF I

(* Where the stage is pinned, an editor that opens in the middle of        *)
(* another one's update finds an intact release on disk.                   *)
THEOREM IntactSomewhereSafe == Pinning => (Spec => []IntactSomewhere)
<1> SUFFICES ASSUME Pinning PROVE Spec => []IntactSomewhere
  OBVIOUS
<1>1. TypeOK /\ (TwoEditors /\ faults = 0 => Crossing) => IntactSomewhere
  BY DEF TypeOK, Crossing, AwayToReturn, VerifiedStage, TargetWhole, IntactSomewhere, IsWhole
<1> QED
  BY <1>1, CrossingSafe, TypeCorrect, PTL

(* The addon directory never holds a partial replacement, whether editors  *)
(* stay apart or two of them cross each other without a failure.           *)
THEOREM NoPartialPluginSafe == Pinning => (Spec => []NoPartialPlugin)
<1> SUFFICES ASSUME Pinning PROVE Spec => []NoPartialPlugin
  OBVIOUS
<1>1. /\ overlaps = 0 => (target # NoTree => target.whole)
      /\ TwoEditors /\ faults = 0 => Crossing
      => NoPartialPlugin
  BY DEF Crossing, TargetWhole, NoPartialPlugin
<1> QED
  BY <1>1, CrossingSafe, WholeApart, PTL
=============================================================================
