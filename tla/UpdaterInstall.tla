--------------------------- MODULE UpdaterInstall ---------------------------
(***************************************************************************)
(* The editor plugin's self-update: OrchestratorUpdaterVersionPicker's     *)
(* _install, which swaps the addon directory for a verified staged copy,   *)
(* and recover_update, which every editor runs when its update button      *)
(* enters the tree.                                                        *)
(*                                                                         *)
(* Several editor processes may have one project open.  They share the     *)
(* directories below addons/ and nothing else: no lock orders them, except *)
(* that the transaction record is created with O_EXCL and that Windows     *)
(* keeps the staging root open without FILE_SHARE_DELETE (Pinning).        *)
(* Each file operation is a step of its own; a process may be killed, and  *)
(* an operation may fail, between any two of them.                         *)
(***************************************************************************)
EXTENDS Integers

CONSTANTS
  Editors,    \* the editor processes that may have the project open
  Versions,   \* the releases of the plugin, ordered as integers
  First,      \* the release that is installed at the start
  StageIds,   \* random suffixes of staging directory names
  Pinning,    \* TRUE on Windows, where an open handle pins the stage
  MaxFaults,  \* bound on kills, failed file operations and overlaps
  NoTree,     \* a directory that does not exist
  NoRecord    \* a transaction record that does not exist

(* A directory tree is a release of the plugin, whole or half written.     *)
Tree == [version : Versions, whole : BOOLEAN]

(* A record file holds the release and stage of a transaction.  Until its  *)
(* last byte is written it does not parse.                                 *)
Record == [version : Versions, stage : StageIds, torn : BOOLEAN]

ASSUME VersionsAssumption == Versions \subseteq Int /\ First \in Versions
ASSUME StageIdsAssumption == StageIds # {}
ASSUME PlatformAssumption == Pinning \in BOOLEAN
ASSUME MaxFaultsAssumption == MaxFaults \in Nat
ASSUME NoTreeAssumption == NoTree \notin Tree
ASSUME NoRecordAssumption == NoRecord \notin Record

VARIABLES
  target,   \* addons/orchestrator
  backup,   \* addons/.redotchestrator-update-backup
  stage,    \* addons/.redotchestrator-update-stage-<id>, by id
  record,   \* addons/.redotchestrator-update-transaction.json
  pc,       \* where each editor process is
  running,  \* the release an editor process has loaded
  tag,      \* the release an editor installs, or recovers from a record
  own,      \* the stage an editor extracts into, or read from a record
  faults,   \* kills and failed operations so far
  overlaps  \* how often an editor opened while another one installed

disk == <<target, backup, stage, record>>
vars == <<target, backup, stage, record, pc, running, tag, own, faults, overlaps>>

(* Steps of _install, in order; the staging root is pinned in all of them, *)
(* for fail_install closes the handles before it removes the stage.        *)
Installing ==
  {"extract", "check", "create", "write", "backup", "abort", "activate"}
(* Steps of _install that undo what it did.                                *)
Failing == {"cleanup", "rollback", "undo"}
(* Steps of recover_update; the -ing steps are inside a remove_tree.       *)
Recovering == {"probe", "restore", "confirm", "confirming", "discard",
               "discarding", "forget"}
(* From load to recovery, and from the reserved stage to the last cleanup. *)
Starting == {"loaded"} \cup Recovering
Busy == Installing \cup Failing

(* "closed": no process; "loaded": library loaded, button not in the tree. *)
Locations == {"closed", "idle"} \cup Starting \cup Busy

Init ==
  /\ target = [version |-> First, whole |-> TRUE]
  /\ backup = NoTree
  /\ stage = [s \in StageIds |-> NoTree]
  /\ record = NoRecord
  /\ pc = [e \in Editors |-> "closed"]
  /\ running = [e \in Editors |-> First]
  /\ tag = [e \in Editors |-> First]
  /\ own = [e \in Editors |-> CHOOSE s \in StageIds : TRUE]
  /\ faults = 0
  /\ overlaps = 0

-----------------------------------------------------------------------------
Goto(e, l) == pc' = [pc EXCEPT ![e] = l]

(* The next state of the four names below addons/.                         *)
Disk(t, b, s, r) == target' = t /\ backup' = b /\ stage' = s /\ record' = r

(* Process e goes on at l.                                                 *)
Proceed(e, l) == Goto(e, l) /\ UNCHANGED <<running, tag, own, faults, overlaps>>

Bearable == faults + overlaps < MaxFaults

(* A file operation of e fails, leaves the disk as it was, and e goes on   *)
(* at l.                                                                   *)
Fails(e, l) ==
  /\ Bearable
  /\ faults' = faults + 1
  /\ Goto(e, l)
  /\ UNCHANGED <<target, backup, stage, record, running, tag, own, overlaps>>

(* The file operation of e at a location: it takes effect and e goes on at *)
(* yes; it is refused, or fails for a reason of its own, and e goes on at  *)
(* no.                                                                     *)
Attempt(e, at, possible, effect, yes, no) ==
  /\ pc[e] = at
  /\ \/ possible /\ effect /\ Proceed(e, yes)
     \/ ~possible /\ UNCHANGED disk /\ Proceed(e, no)
     \/ Fails(e, no)

(* The process kills itself or is killed; the disk keeps what it has.      *)
Crash(e) == pc[e] # "closed" /\ Fails(e, "closed")

(* Mutant of Pinned: the stage is opened with FILE_SHARE_DELETE.           *)
MutantPinned(s) == FALSE

(* A stage that an installer holds open cannot be deleted on Windows.      *)
Pinned(s) ==
  Pinning /\ \E i \in Editors : own[i] = s /\ pc[i] \in Installing

(* Nor can a record file that is still open for writing.                   *)
RecordPinned == Pinning /\ \E i \in Editors : pc[i] = "write"

(* What is left of a tree that remove_tree has begun to delete.            *)
Damaged(t) == [t EXCEPT !.whole = FALSE]
-----------------------------------------------------------------------------
(* No code keeps an editor from opening while another one installs, nor    *)
(* from installing while another one opens.                                *)
Beside(places) ==
  /\ UNCHANGED faults
  /\ \/ /\ \A i \in Editors : pc[i] \notin places
        /\ UNCHANGED overlaps
     \/ /\ \E i \in Editors : pc[i] \in places
        /\ Bearable
        /\ overlaps' = overlaps + 1

(* The life of an editor process.  The engine loads the library of the     *)
(* addon directory, whatever its state; the button enters the tree later.  *)
Launch(e) ==
  /\ pc[e] = "closed"
  /\ target # NoTree
  /\ Beside(Busy)
  /\ Goto(e, "loaded")
  /\ running' = [running EXCEPT ![e] = target.version]
  /\ UNCHANGED <<target, backup, stage, record, tag, own>>

(* The editor is closed or restarts; _install never returns to the event   *)
(* loop before it is done, so only an idle editor can.                     *)
Quit(e) ==
  /\ pc[e] = "idle"
  /\ Proceed(e, "closed")
  /\ UNCHANGED disk

(* With every editor closed the user does what the message of a failed     *)
(* rollback asks for: "Restore backup to target before reopening".         *)
ManualRestore ==
  /\ \A e \in Editors : pc[e] = "closed"
  /\ target = NoTree
  /\ backup # NoTree
  /\ target' = backup
  /\ backup' = NoTree
  /\ UNCHANGED <<stage, record, pc, running, tag, own, faults, overlaps>>
-----------------------------------------------------------------------------
(* recover_update gives up on a record that does not parse.                *)
Readable == record # NoRecord /\ ~record.torn

(* recover_update, called when the button enters the tree.                 *)
ReadRecord(e) ==
  /\ pc[e] = "loaded"
  /\ UNCHANGED <<target, backup, stage, record, running, faults, overlaps>>
  /\ \/ /\ ~Readable
        /\ Goto(e, "idle")
        /\ UNCHANGED <<tag, own>>
     \/ /\ Readable
        /\ Goto(e, "probe")
        /\ tag' = [tag EXCEPT ![e] = record.version]
        /\ own' = [own EXCEPT ![e] = record.stage]

(* Mutant of Recovery: a transaction without a backup stays pending.       *)
MutantRecoveryKeeps(hasTarget, hasBackup, started) ==
  IF ~hasTarget /\ hasBackup THEN "restore"
  ELSE IF hasTarget /\ started THEN "confirm"
  ELSE "idle"

(* The decision table update_recovery; "idle" is KEEP_PENDING.             *)
Recovery(hasTarget, hasBackup, started) ==
  IF ~hasTarget /\ hasBackup THEN "restore"
  ELSE IF hasTarget /\ started THEN "confirm"
  ELSE IF hasTarget /\ ~hasBackup THEN "discard"
  ELSE "idle"

Probe(e) ==
  /\ pc[e] = "probe"
  /\ Proceed(e, Recovery(target # NoTree, backup # NoTree, tag[e] = running[e]))
  /\ UNCHANGED disk

(* RESTORE_BACKUP; a directory that is not as probed makes rename fail.    *)
Restore(e) ==
  Attempt(e, "restore", target = NoTree /\ backup # NoTree,
    Disk(backup, NoTree, stage, record), "discard", "idle")

(* CONFIRM_STARTED: remove_tree(backup) deletes the files one by one, and  *)
(* fails when the tree is gone before it gets to the root.                 *)
Confirm(e) ==
  \/ /\ pc[e] = "confirm"
     /\ backup = NoTree
     /\ Proceed(e, "discard")
     /\ UNCHANGED disk
  \/ /\ backup # NoTree
     /\ Attempt(e, "confirm", TRUE,
          Disk(target, Damaged(backup), stage, record), "confirming", "idle")

FinishConfirm(e) ==
  Attempt(e, "confirming", backup # NoTree,
    Disk(target, NoTree, stage, record), "discard", "idle")

(* remove_tree(stage) of the stage the record named.                       *)
Discard(e) ==
  \/ /\ pc[e] = "discard"
     /\ stage[own[e]] = NoTree
     /\ Proceed(e, "forget")
     /\ UNCHANGED disk
  \/ /\ stage[own[e]] # NoTree
     /\ Attempt(e, "discard", ~Pinned(own[e]),
          Disk(target, backup, [stage EXCEPT ![own[e]] = Damaged(@)], record),
          "discarding", "idle")

FinishDiscard(e) ==
  Attempt(e, "discarding", stage[own[e]] # NoTree,
    Disk(target, backup, [stage EXCEPT ![own[e]] = NoTree], record),
    "forget", "idle")

(* remove_absolute(record_path): by name, whoever wrote the file.          *)
Forget(e) ==
  Attempt(e, "forget", ~RecordPinned,
    Disk(target, backup, stage, NoRecord), "idle", "idle")
-----------------------------------------------------------------------------
(* _install of a release newer than the one that runs: reserve a fresh     *)
(* staging directory.  A random name is not in use anywhere.               *)
Fresh(s) ==
  /\ stage[s] = NoTree
  /\ record # NoRecord => record.stage # s
  /\ \A i \in Editors : pc[i] \in Busy \cup Recovering => own[i] # s

Reserve(e) ==
  \E v \in Versions, s \in StageIds :
    /\ pc[e] = "idle"
    /\ Beside(Starting)
    /\ v > running[e]
    /\ Fresh(s)
    /\ stage' = [stage EXCEPT ![s] = [version |-> v, whole |-> FALSE]]
    /\ tag' = [tag EXCEPT ![e] = v]
    /\ own' = [own EXCEPT ![e] = s]
    /\ Goto(e, "extract")
    /\ UNCHANGED <<target, backup, record, running>>

(* Mutant of Extract: a failed write of a member is not looked at.         *)
MutantExtract(e) ==
  Attempt(e, "extract", TRUE,
    Disk(target, backup,
      [stage EXCEPT ![own[e]] = [version |-> tag[e], whole |-> TRUE]], record),
    "check", "check")

(* Extract, verify and fsync every member, then check the descriptor.      *)
Extract(e) ==
  Attempt(e, "extract", TRUE,
    Disk(target, backup,
      [stage EXCEPT ![own[e]] = [version |-> tag[e], whole |-> TRUE]], record),
    "check", "cleanup")

(* A record or a backup is evidence of another transaction.                *)
CheckEvidence(e) ==
  /\ pc[e] = "check"
  /\ Proceed(e, IF record = NoRecord /\ backup = NoTree THEN "create" ELSE "cleanup")
  /\ UNCHANGED disk

(* Mutant of CreateRecord: the file is opened without O_EXCL.              *)
MutantCreateRecord(e) ==
  Attempt(e, "create", TRUE,
    Disk(target, backup, stage,
      [version |-> tag[e], stage |-> own[e], torn |-> TRUE]),
    "write", "cleanup")

(* write_update_file of the record: open(O_CREAT | O_EXCL), then write and *)
(* fsync.  A failed write leaves the torn file behind.                     *)
CreateRecord(e) ==
  Attempt(e, "create", record = NoRecord,
    Disk(target, backup, stage,
      [version |-> tag[e], stage |-> own[e], torn |-> TRUE]),
    "write", "cleanup")

(* If the file was unlinked meanwhile the write still works, in vain.      *)
WriteRecord(e) ==
  Attempt(e, "write", TRUE,
    Disk(target, backup, stage,
      IF record # NoRecord /\ record.stage = own[e]
        THEN [record EXCEPT !.torn = FALSE] ELSE record),
    "backup", "cleanup")

(* Mutant of BackUp: the old plugin is deleted, not renamed.               *)
MutantBackUp(e) ==
  Attempt(e, "backup", stage[own[e]] # NoTree /\ target # NoTree /\ backup = NoTree,
    Disk(NoTree, NoTree, stage, record), "activate", "abort")

(* Check stage, target and backup once more and rename target to backup.   *)
BackUp(e) ==
  Attempt(e, "backup", stage[own[e]] # NoTree /\ target # NoTree /\ backup = NoTree,
    Disk(NoTree, target, stage, record), "activate", "abort")

(* Rename stage to target.                                                 *)
Activate(e) ==
  Attempt(e, "activate", stage[own[e]] # NoTree /\ target = NoTree,
    Disk(stage[own[e]], backup, [stage EXCEPT ![own[e]] = NoTree], record),
    "idle", "rollback")

(* Mutants of Rollback: the record goes although the rename failed; the    *)
(* backup is deleted.                                                      *)
MutantRollbackForgets(e) ==
  Attempt(e, "rollback", backup # NoTree /\ target = NoTree,
    Disk(backup, NoTree, stage, record), "undo", "undo")

MutantRollbackDeletes(e) ==
  Attempt(e, "rollback", backup # NoTree /\ target = NoTree,
    Disk(target, NoTree, stage, record), "undo", "idle")

(* Rename backup back to target; when that fails, record, stage and backup *)
(* stay for the user.                                                      *)
Rollback(e) ==
  Attempt(e, "rollback", backup # NoTree /\ target = NoTree,
    Disk(backup, NoTree, stage, record), "undo", "idle")

(* Remove the record, then the stage; whether that worked is not looked at.*)
RemoveRecord(e) ==
  \E at \in {"abort", "undo"} :
    Attempt(e, at, ~RecordPinned,
      Disk(target, backup, stage, NoRecord), "cleanup", "cleanup")

CleanUp(e) ==
  Attempt(e, "cleanup", TRUE,
    Disk(target, backup, [stage EXCEPT ![own[e]] = NoTree], record),
    "idle", "idle")
-----------------------------------------------------------------------------
Recover(e) ==
  \/ ReadRecord(e) \/ Probe(e) \/ Restore(e) \/ Confirm(e) \/ FinishConfirm(e)
  \/ Discard(e) \/ FinishDiscard(e) \/ Forget(e)

Install(e) ==
  \/ Extract(e) \/ CheckEvidence(e) \/ CreateRecord(e) \/ WriteRecord(e)
  \/ BackUp(e) \/ Activate(e) \/ Rollback(e) \/ RemoveRecord(e) \/ CleanUp(e)

Next ==
  \/ \E e \in Editors :
       \/ Launch(e) \/ Quit(e) \/ Crash(e)
       \/ Recover(e)
       \/ Reserve(e) \/ Install(e)
  \/ ManualRestore

Spec == Init /\ [][Next]_vars

(* _install and recover_update run to their end; users restart an editor   *)
(* in the end, open the project again and restore a backup by hand when    *)
(* the addon is missing.                                                   *)
Fairness ==
  /\ \A e \in Editors :
       /\ WF_vars(Recover(e))
       /\ WF_vars(Install(e))
       /\ WF_vars(Launch(e))
       /\ SF_vars(Quit(e))
  /\ WF_vars(ManualRestore)

FairSpec == Spec /\ Fairness
-----------------------------------------------------------------------------
(* Every variable holds a value of its kind.                               *)
TypeOK ==
  /\ target \in Tree \cup {NoTree}
  /\ backup \in Tree \cup {NoTree}
  /\ stage \in [StageIds -> Tree \cup {NoTree}]
  /\ record \in Record \cup {NoRecord}
  /\ pc \in [Editors -> Locations]
  /\ running \in [Editors -> Versions]
  /\ tag \in [Editors -> Versions]
  /\ own \in [Editors -> StageIds]
  /\ faults \in 0 .. MaxFaults
  /\ overlaps \in 0 .. MaxFaults

IsWhole(t) == t # NoTree /\ t.whole

(* "The previous plugin was restored": at every instant, whatever was      *)
(* killed or failed, an intact release of the plugin is in the addon       *)
(* directory or in the backup the user is told to restore, unless editors  *)
(* have opened beside an install.                                          *)
IntactCopy == overlaps > 0 \/ IsWhole(target) \/ IsWhole(backup)

(* An addon directory an editor can load is never a partial replacement.   *)
(* With three editors that holds no longer: one still deletes the backup   *)
(* of an older update while another has moved the plugin there, and the    *)
(* third restores what is left of it.                                      *)
WholePlugin == faults = 0 => (target # NoTree => target.whole)

TwoEditors == \A i, j, k \in Editors : i = j \/ j = k \/ i = k

(* It is so unless an editor has opened beside an install and, of two      *)
(* editors, something failed too.                                          *)
NoPartialPlugin ==
  overlaps = 0 \/ (faults = 0 /\ TwoEditors) => (target # NoTree => target.whole)

(* While a handle pins the stage, even an editor that opens in the middle  *)
(* of another one's update leaves an intact release on disk, if only in    *)
(* that stage, as long as nothing is killed and nothing fails besides.     *)
IntactSomewhere ==
  \/ faults > 0 \/ ~TwoEditors
  \/ IsWhole(target) \/ IsWhole(backup)
  \/ \E e \in Editors : pc[e] = "activate" /\ IsWhole(stage[own[e]])

(* A backup never loses the record that tells recovery what it is.         *)
NoOrphanBackup == overlaps > 0 \/ (backup # NoTree => Readable)

(* The backup goes back to the addon directory, or is deleted by an editor *)
(* that runs the very release that replaced it, while that is in place.    *)
BackupSpent ==
  [][overlaps' = 0 /\ backup # NoTree /\ backup' # backup =>
       \/ target = NoTree /\ target' = backup /\ backup' = NoTree
       \/ \E e \in Editors :
            /\ pc[e] \in {"confirm", "confirming"}
            /\ IsWhole(target)
            /\ running[e] = target.version
            /\ record # NoRecord /\ record.version = target.version]_vars

(* Two editors never take the addon directory apart at the same time.      *)
Swapping == {"backup", "activate", "rollback", "undo"}
OneSwap ==
  /\ TypeOK
  /\ overlaps > 0 \/ \A i, j \in Editors : pc[i] \in Swapping /\ pc[j] \in Swapping => i = j

(* The copy of the plugin that is in force: what an editor that opens now  *)
(* loads or, if there is nothing to load, what is going to be restored.    *)
InForce == IF target # NoTree THEN target ELSE backup

Update == INSTANCE AtomicUpdate WITH
  installed <- InForce,
  wanted    <- [e \in Editors |-> IF pc[e] \in Installing THEN {tag[e]} ELSE {}]

(* The update is atomic (AtomicUpdate): of all renames, deletions, kills,  *)
(* recoveries and repairs by hand only the activation of the stage changes *)
(* the release in force, to the whole release that was asked for; unless   *)
(* editors have opened beside an install.                                  *)
Atomic ==
  /\ Update!Init
  /\ [][overlaps' = 0 => [Update!Next]_(Update!vars)]_vars

(* A recorded update does not stay pending: it is confirmed, discarded or  *)
(* restored in the end, and updates are possible again.                    *)
PendingResolved == Readable ~> (record = NoRecord \/ overlaps > 0)
=============================================================================
