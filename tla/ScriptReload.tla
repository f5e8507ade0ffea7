---------------------------- MODULE ScriptReload ----------------------------
(***************************************************************************)
(* A script between its file, its graph and its compiled functions, and    *)
(* the editor tab it is open in (script/script.cpp OScript::_reload,       *)
(* reload_from_file, set_source; script/language.cpp _reload_scripts;      *)
(* script/serialization/text/resource_saver_text.cpp; editor/editor.cpp).  *)
(*                                                                         *)
(* The graph is what the user edits.  Besides it the script keeps the      *)
(* bytes of the file as it was last read (source), the time of the file    *)
(* when the graph last agreed with it, and the hash of the source it last  *)
(* compiled.  The tab keeps a time of its own.  Whether a file has to be   *)
(* read or a graph to be compiled is decided by these stamps alone.        *)
(*                                                                         *)
(* Contents stand for graphs, files and functions alike; 0 is none.  A     *)
(* handler runs to its end on the main thread; what is deferred runs later *)
(***************************************************************************)
EXTENDS Naturals

CONSTANTS
    Contents,     \* what a file or a graph can hold
    OtherHeader,  \* contents with another base type, name or description
    Worlds        \* projects to consider, see Project

\* Two writes within one second, scenes that are saved, the autosave timer, loads
\* past the resource cache, changes from outside that no tab is open for, or that
\* it is closed before.
Disturbances == {"same second", "scene", "autosave", "reimport", "unwatched"}

\* unreadable: contents no graph can be loaded from; uncompilable: those whose
\* graph does not compile; faulty: those whose static initializer fails; tools:
\* whether the script is a tool script; allowed: what else may happen; maxTime:
\* bound, the last second.
Project == [unreadable : SUBSET Contents, uncompilable : SUBSET Contents, faulty : SUBSET Contents,
            tools : SUBSET BOOLEAN, allowed : SUBSET Disturbances, maxTime : Nat \ {0}]

ASSUME ContentsAssumption == Contents \subseteq Nat \ {0} /\ OtherHeader \subseteq Contents
ASSUME WorldsAssumption == Worlds \subseteq Project

VARIABLES
    disk,      \* the contents of the file
    mtime,     \* the time of its last write
    now,       \* the clock, in seconds
    script,    \* the script object
    settings,  \* one of Worlds, is it a tool script, the two settings
    tab,       \* is it open in a tab
    viewTime,  \* the tab's edited_file_data.last_modified_time
    deferred,  \* a call of _reload_scripts is queued
    dialog,    \* the dialog about files modified outside is shown
    unseen     \* the file's contents were written outside and never shown

vars == <<disk, mtime, now, script, settings, tab, viewTime, deferred, dialog, unseen>>

None == 0
Unreadable == settings.world.unreadable
Allowed == settings.world.allowed
MaxTime == settings.world.maxTime
Maybe == Contents \cup {None}

\* source_last_modified_time is 0 when the next reload must read the file.
Script == [graph : Maybe, edited : BOOLEAN, source : Maybe, srcTime : 0..MaxTime,
           compiled : Maybe, hash : Maybe, valid : BOOLEAN, reloading : BOOLEAN]

Settings == {s \in [world : Worlds, tool : BOOLEAN, onSave : BOOLEAN, auto : BOOLEAN] : s.tool \in s.world.tools}

-----------------------------------------------------------------------------
(* The script, given the contents c and the time t of its file.            *)

\* Bytes that differ from the last ones count as in step with the graph.
LoadedSource(s, c, t) ==
    IF s.source = c THEN s
    ELSE [s EXCEPT !.source = c, !.edited = FALSE, !.srcTime = t]

\* The graph of a first load is the file's; later it takes over the state of a
\* graph read anew, if the file has another time and can be read.  A header
\* that changes marks the graph as edited.
Read(s, c, t) ==
    CASE s.graph = None -> [s EXCEPT !.graph = c, !.srcTime = t]
      [] s.graph # None /\ s.srcTime # t /\ c \notin Unreadable ->
            [s EXCEPT !.graph = c, !.srcTime = t,
                      !.edited = @ \/ (s.graph \in OtherHeader /\ c \notin OtherHeader)
                                   \/ (s.graph \notin OtherHeader /\ c \in OtherHeader)]
      [] OTHER -> [s EXCEPT !.srcTime = t]

Compiled(s) ==
    CASE s.graph \in settings.world.uncompilable -> s
      [] s.graph \in settings.world.faulty /\ settings.tool ->
            [s EXCEPT !.compiled = s.graph, !.valid = TRUE, !.reloading = TRUE]
      [] OTHER -> [s EXCEPT !.compiled = s.graph, !.valid = TRUE, !.hash = s.source]

\* _reload(true): nothing while another runs, nothing if the same source was
\* compiled; a first load that fails leaves the reloading flag set.
Reloaded(s, c, t) ==
    CASE s.reloading -> s
      [] ~s.reloading /\ s.valid /\ s.graph # None /\ s.source = s.hash -> s
      [] ~s.reloading /\ ~(s.valid /\ s.graph # None /\ s.source = s.hash) ->
            IF s.graph = None /\ c \in Unreadable
            THEN [s EXCEPT !.valid = FALSE, !.reloading = TRUE]
            ELSE Compiled(Read([s EXCEPT !.valid = FALSE], c, t))

\* OScriptLanguage::_reload_scripts reads the source first.
ToolReloaded(s, c, t) == Reloaded(LoadedSource(s, c, t), c, t)

\* reload_from_file: only what compiles is read again.
\* The hash of the compiled source is kept.
MutantFromFile(s, c, t) ==
    LET fresh == [s EXCEPT !.srcTime = 0, !.edited = FALSE]
    IN  IF s.valid THEN Reloaded(fresh, c, t) ELSE fresh

FromFile(s, c, t) ==
    LET fresh == [s EXCEPT !.srcTime = 0, !.hash = None, !.edited = FALSE]
    IN  CASE ~s.valid -> fresh
          [] s.valid /\ settings.tool -> ToolReloaded(fresh, c, t)
          [] s.valid /\ ~settings.tool -> Reloaded(fresh, c, t)

-----------------------------------------------------------------------------
(* The file and the loader.                                                *)

Later == IF "same second" \in Allowed THEN {now, now + 1} ELSE {now + 1}

\* Another program writes the file.
WriteOutside(c) ==
    /\ tab \/ "unwatched" \in Allowed
    /\ c # disk /\ disk' = c
    /\ now' \in Later /\ now' <= MaxTime /\ mtime' = now'
    /\ unseen' = TRUE
    /\ UNCHANGED <<script, settings, tab, viewTime, deferred, dialog>>

\* The resource loader asks for the script: the first time, or past the cache.
Load ==
    /\ script.graph = None \/ "reimport" \in Allowed
    /\ script' = ToolReloaded(script, disk, mtime)
    /\ unseen' = (unseen /\ script'.graph # disk)
    /\ UNCHANGED <<disk, mtime, now, settings, tab, viewTime, deferred, dialog>>

-----------------------------------------------------------------------------
(* The tab.                                                                *)

Open ==
    /\ ~tab /\ script.graph # None
    /\ tab' = TRUE /\ viewTime' = mtime
    /\ UNCHANGED <<disk, mtime, now, script, settings, deferred, dialog, unseen>>

Edit(c) ==
    /\ tab /\ c # script.graph /\ c \notin Unreadable
    /\ script' = [script EXCEPT !.graph = c, !.edited = TRUE]
    /\ UNCHANGED <<disk, mtime, now, settings, tab, viewTime, deferred, dialog, unseen>>

IsChanged == tab /\ viewTime # mtime
MustAsk == IsChanged /\ (~settings.auto \/ script.edited)

\* The saver writes the graph and, if so set, reloads; the tab takes the time.
Saved(s, t) ==
    LET saved == [s EXCEPT !.edited = FALSE, !.srcTime = t]
    IN  IF settings.onSave THEN ToolReloaded(saved, s.graph, t) ELSE saved

Store ==
    /\ now' \in Later /\ now' <= MaxTime /\ mtime' = now'
    /\ disk' = script.graph
    /\ script' = Saved(script, mtime')
    /\ unseen' = FALSE
    /\ UNCHANGED settings

\* save_current_script: a change on disk is asked about or read again, but
\* reading is only queued, and the file is written all the same.
SaveCurrent ==
    /\ tab /\ ~MustAsk
    /\ Store
    /\ viewTime' = mtime'
    /\ deferred' = (deferred \/ IsChanged)
    /\ UNCHANGED <<tab, dialog>>

\* Writing fails half-way: what is left can not be read, the graph stays
\* edited, and the tab takes the time.
SaveFails ==
    /\ tab /\ ~MustAsk
    /\ now' \in Later /\ now' <= MaxTime /\ mtime' = now'
    /\ disk' \in Unreadable
    /\ viewTime' = mtime' /\ unseen' = FALSE
    /\ deferred' = (deferred \/ IsChanged)
    /\ UNCHANGED <<script, settings, tab, dialog>>

\* Every save and every return of the focus tests the time of the file.
\* The focus returns: the change is read without asking, also over edits.
MutantFocus ==
    /\ IsChanged
    /\ deferred' = TRUE
    /\ UNCHANGED <<disk, mtime, now, script, settings, tab, viewTime, dialog, unseen>>

Focus ==
    /\ IsChanged
    /\ IF MustAsk THEN dialog' = TRUE /\ UNCHANGED deferred
                  ELSE deferred' = TRUE /\ UNCHANGED dialog
    /\ UNCHANGED <<disk, mtime, now, script, settings, tab, viewTime, unseen>>

\* save_all_scripts of the autosave timer or of a saved scene writes what is
\* edited without a test; a saved scene then refreshes the tab's time.
SaveAll ==
    /\ "autosave" \in Allowed
    /\ tab /\ script.edited
    /\ Store
    /\ viewTime' = mtime'
    /\ UNCHANGED <<tab, deferred, dialog>>

SaveScene ==
    /\ "scene" \in Allowed /\ tab
    /\ IF script.edited THEN Store ELSE UNCHANGED <<disk, mtime, now, script, settings, unseen>>
    /\ viewTime' = mtime'
    /\ UNCHANGED <<tab, deferred, dialog>>

\* The queued _reload_scripts.
\* The tab does not take the time of what it read.
MutantReloadScripts ==
    /\ deferred /\ deferred' = FALSE /\ dialog' = FALSE
    /\ IF IsChanged
       THEN /\ script' = FromFile(script, disk, mtime)
            /\ unseen' = (unseen /\ script'.graph # disk)
            /\ UNCHANGED viewTime
       ELSE UNCHANGED <<viewTime, script, unseen>>
    /\ UNCHANGED <<disk, mtime, now, settings, tab>>

ReloadScripts ==
    /\ deferred /\ deferred' = FALSE /\ dialog' = FALSE
    /\ IF IsChanged
       THEN /\ viewTime' = mtime
            /\ script' = FromFile(script, disk, mtime)
            /\ unseen' = (unseen /\ script'.graph # disk)
       ELSE UNCHANGED <<viewTime, script, unseen>>
    /\ UNCHANGED <<disk, mtime, now, settings, tab>>

\* The dialog: reload, ignore the change and save, or cancel.
AnswerReload ==
    /\ dialog /\ dialog' = FALSE /\ deferred' = TRUE
    /\ UNCHANGED <<disk, mtime, now, script, settings, tab, viewTime, unseen>>

AnswerIgnore ==
    /\ dialog /\ dialog' = FALSE
    /\ IF tab THEN Store /\ viewTime' = mtime'
              ELSE UNCHANGED <<disk, mtime, now, script, settings, viewTime, unseen>>
    /\ UNCHANGED <<tab, deferred>>

AnswerCancel ==
    /\ dialog /\ dialog' = FALSE
    /\ UNCHANGED <<disk, mtime, now, script, settings, tab, viewTime, deferred, unseen>>

\* The menu entry that reloads a tool script.
SoftReload ==
    /\ tab /\ settings.tool
    /\ script' = Reloaded(script, disk, mtime)
    /\ unseen' = (unseen /\ script'.graph # disk)
    /\ UNCHANGED <<disk, mtime, now, settings, tab, viewTime, deferred, dialog>>

\* An edited tab is saved or discarded as it is closed.
CloseClean ==
    /\ tab /\ ~script.edited /\ tab' = FALSE
    /\ unseen => "unwatched" \in Allowed
    /\ UNCHANGED <<disk, mtime, now, script, settings, viewTime, deferred, dialog, unseen>>

CloseDiscard ==
    /\ tab /\ script.edited /\ tab' = FALSE
    /\ unseen => "unwatched" \in Allowed
    /\ script' = FromFile(script, disk, mtime)
    /\ unseen' = (unseen /\ script'.graph # disk)
    /\ UNCHANGED <<disk, mtime, now, settings, viewTime, deferred, dialog>>

\* The tab is closed also if the save stops to ask.
CloseSave ==
    /\ tab /\ script.edited /\ tab' = FALSE
    /\ unseen => "unwatched" \in Allowed
    /\ IF MustAsk
       THEN dialog' = TRUE /\ UNCHANGED <<disk, mtime, now, script, settings, viewTime, unseen>>
       ELSE Store /\ viewTime' = mtime' /\ UNCHANGED dialog
    /\ UNCHANGED deferred

-----------------------------------------------------------------------------

Init ==
    /\ disk \in Contents /\ now = 1 /\ mtime = 1
    /\ script = [graph |-> None, edited |-> FALSE, source |-> None, srcTime |-> 0,
                 compiled |-> None, hash |-> None, valid |-> FALSE, reloading |-> FALSE]
    /\ settings \in Settings
    /\ tab = FALSE /\ viewTime = 0 /\ deferred = FALSE /\ dialog = FALSE /\ unseen = FALSE

Next ==
    \/ \E c \in Contents : WriteOutside(c) \/ Edit(c)
    \/ Load \/ Open \/ SaveCurrent \/ SaveFails \/ Focus \/ SaveAll \/ SaveScene
    \/ ReloadScripts \/ AnswerReload \/ AnswerIgnore \/ AnswerCancel
    \/ SoftReload \/ CloseClean \/ CloseDiscard \/ CloseSave

\* The queue of deferred calls is flushed in every frame; the focus returns to
\* the editor again and again.
Fairness == WF_vars(ReloadScripts) /\ WF_vars(Focus)

Spec == Init /\ [][Next]_vars /\ Fairness

-----------------------------------------------------------------------------
(* Properties.                                                             *)

TypeOK ==
    /\ disk \in Contents /\ mtime \in 1..MaxTime /\ now \in 1..MaxTime
    /\ script \in Script
    /\ settings \in Settings
    /\ tab \in BOOLEAN /\ viewTime \in 0..MaxTime
    /\ deferred \in BOOLEAN /\ dialog \in BOOLEAN /\ unseen \in BOOLEAN

\* A tab that holds the time of the file and no edits shows the file.
ShowsFile == tab /\ viewTime = mtime /\ ~script.edited => script.graph = disk

\* It does when the script is no tool script, its file can always be read and
\* compiled and is written once a second; everything keeps its type.
Plain == ~settings.tool /\ Allowed = {} /\ Unreadable = {} /\ settings.world.uncompilable = {}
TabShowsFile == TypeOK /\ (Plain => ShowsFile)

\* Edits are given up for a save of them, when the user discards them, or for
\* a reload that was queued before; nothing else takes them away.
EditsSurvive == [][script.edited /\ ~script'.edited => disk' = script.graph \/ deferred \/ ~tab']_vars

\* Nothing does, but for loads past the cache; and over edits a reload is queued
\* only with the user's word.
EditsKept ==
    [][/\ script.edited /\ ~script'.edited =>
             disk' = script.graph \/ deferred \/ ~tab' \/ "reimport" \in Allowed
       /\ ~deferred /\ deferred' /\ script.edited => dialog]_vars

\* A change on disk is noticed: the tab takes the file's time, the user gets
\* to edit or is asked, or the tab is closed.
ChangeNoticed == IsChanged ~> (~IsChanged \/ dialog)

\* "Setting this to 0 forces a reload off disk when _reload is called": after
\* the queued reload an open script shows the file.
ReloadReadsFile ==
    [][(ReloadScripts /\ IsChanged /\ script.valid /\ disk \notin Unreadable) => script'.graph = disk]_vars

\* "Check condition but reset flag before early return": no reload ends with
\* the flag set that makes every later one return at once.
FlagReset == ~script.reloading

\* "Automatically reload open Orchestrations when their files are changed on
\* disk outside the editor": with that setting, what was written outside is
\* replaced by the editor only after it was shown or the user was asked.
OutsideChangeShown ==
    [][(settings.auto /\ unseen /\ ~unseen' /\ mtime' # mtime) => dialog]_vars

\* "Reload and re-parse Orchestrations on save so validation always reflects
\* the latest changes": an unedited graph of a script that compiles and is
\* reloaded on save is the one that was compiled.
CompiledIsShown ==
    (settings.onSave /\ script.valid /\ ~script.edited) => script.compiled = script.graph

\* "Close and save changes?": an edited tab that is closed is saved or
\* discarded.
ClosedIsClean == ~tab => ~script.edited
=============================================================================
