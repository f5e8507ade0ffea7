------------------------ MODULE ScriptReload_proofs ------------------------
(***************************************************************************)
(* Proofs about ScriptReload.  The graph is the file's where no edit and   *)
(* no change from outside came between; what was written outside is newer  *)
(* than the tab's time for as long as it was not shown.                    *)
(***************************************************************************)
EXTENDS ScriptReload, TLAPS

-----------------------------------------------------------------------------
(* Types.                                                                  *)

\* What was edited or compiled has a graph, and a graph was read from a source.
Sound(s) ==
    /\ s \in Script
    /\ (s.edited \/ s.valid) => s.graph # None
    /\ s.graph # None => s.source # None

Typed == TypeOK /\ Sound(script) /\ (tab => script.graph # None)

LEMMA SettingsTypes ==
    ASSUME settings \in Settings
    PROVE  /\ Unreadable \in SUBSET Contents /\ MaxTime \in Nat \ {0}
           /\ settings.tool \in BOOLEAN /\ settings.onSave \in BOOLEAN /\ settings.auto \in BOOLEAN
  BY WorldsAssumption DEF Settings, Project, Unreadable, MaxTime

LEMMA ContentsNotNone == \A c \in Contents : c # None
  BY ContentsAssumption DEF None

LEMMA LoadedSourceType ==
    ASSUME NEW s \in Script, NEW c \in Contents, NEW t \in 1..MaxTime, MaxTime \in Nat \ {0}
    PROVE  /\ LoadedSource(s, c, t) \in Script
           /\ LoadedSource(s, c, t).graph = s.graph
           /\ LoadedSource(s, c, t).source = c
           /\ LoadedSource(s, c, t).valid = s.valid
           /\ LoadedSource(s, c, t).hash = s.hash
           /\ LoadedSource(s, c, t).reloading = s.reloading
           /\ LoadedSource(s, c, t).edited => s.edited
  <1>0. c \in Maybe /\ t \in 0..MaxTime
    BY DEF Maybe
  <1> DEFINE l == [s EXCEPT !.source = c, !.edited = FALSE, !.srcTime = t]
  <1>1. CASE s.source = c
    BY <1>1 DEF LoadedSource
  <1>2. CASE s.source # c
    <2>1. LoadedSource(s, c, t) = l
      BY <1>2 DEF LoadedSource
    <2>2. /\ l.graph = s.graph /\ l.source = c /\ l.valid = s.valid
          /\ l.hash = s.hash /\ l.reloading = s.reloading /\ l.edited = FALSE
      BY DEF Script
    <2>3. l \in Script
      BY <1>0 DEF Script
    <2> QED BY <2>1, <2>2, <2>3
  <1> QED BY <1>1, <1>2

LEMMA ReadType ==
    ASSUME NEW s \in Script, NEW c \in Contents, NEW t \in 1..MaxTime, MaxTime \in Nat \ {0}
    PROVE  /\ Read(s, c, t) \in Script
           /\ Read(s, c, t).graph \in {c, s.graph} \ {None}
           /\ s.edited => Read(s, c, t).edited
           /\ Read(s, c, t).source = s.source
           /\ Read(s, c, t).reloading = s.reloading
  <1>0. c \in Maybe /\ t \in 0..MaxTime /\ c # None
    BY ContentsNotNone DEF Maybe
  <1>1. CASE s.graph = None
    <2>1. Read(s, c, t) = [s EXCEPT !.graph = c, !.srcTime = t]
      BY <1>1 DEF Read
    <2> QED BY <1>0, <2>1 DEF Script
  <1>2. CASE s.graph # None /\ s.srcTime # t /\ c \notin Unreadable
    <2> DEFINE e == s.edited \/ (s.graph \in OtherHeader /\ c \notin OtherHeader)
                            \/ (s.graph \notin OtherHeader /\ c \in OtherHeader)
    <2>1. Read(s, c, t) = [s EXCEPT !.graph = c, !.srcTime = t, !.edited = e]
      BY <1>2 DEF Read
    <2>2. e \in BOOLEAN /\ (s.edited => e)
      OBVIOUS
    <2> HIDE DEF e
    <2> QED BY <1>0, <2>1, <2>2 DEF Script
  <1>3. CASE s.graph # None /\ ~(s.srcTime # t /\ c \notin Unreadable)
    <2>1. Read(s, c, t) = [s EXCEPT !.srcTime = t]
      BY <1>3 DEF Read
    <2> QED BY <1>0, <1>3, <2>1 DEF Script
  <1> QED BY <1>1, <1>2, <1>3

LEMMA CompiledType ==
    ASSUME NEW s \in Script, MaxTime \in Nat \ {0}
    PROVE  /\ Compiled(s) \in Script
           /\ Compiled(s).graph = s.graph
           /\ Compiled(s).edited = s.edited
           /\ Compiled(s).source = s.source
  <1>1. CASE s.graph \in settings.world.uncompilable
    BY <1>1 DEF Compiled, Script, Maybe
  <1>2. CASE s.graph \notin settings.world.uncompilable /\ s.graph \in settings.world.faulty /\ settings.tool
    BY <1>2 DEF Compiled, Script, Maybe
  <1>3. CASE s.graph \notin settings.world.uncompilable /\ ~(s.graph \in settings.world.faulty /\ settings.tool)
    BY <1>3 DEF Compiled, Script, Maybe
  <1> QED BY <1>1, <1>2, <1>3

\* A reload keeps a graph there is, the source, and edits; what it leaves valid
\* has a graph.
LEMMA ReloadedType ==
    ASSUME NEW s \in Script, NEW c \in Contents, NEW t \in 1..MaxTime, MaxTime \in Nat \ {0}
    PROVE  /\ Reloaded(s, c, t) \in Script
           /\ s.graph # None => Reloaded(s, c, t).graph # None
           /\ (s.valid => s.graph # None) => (Reloaded(s, c, t).valid => Reloaded(s, c, t).graph # None)
           /\ Reloaded(s, c, t).source = s.source
           /\ s.edited => Reloaded(s, c, t).edited
           /\ Reloaded(s, c, t).edited => s.edited \/ Reloaded(s, c, t).graph # None
  <1> DEFINE u == [s EXCEPT !.valid = FALSE]
             r == Read(u, c, t)
  <1>1. CASE s.reloading
    BY <1>1 DEF Reloaded
  <1>2. CASE ~s.reloading /\ s.valid /\ s.graph # None /\ s.source = s.hash
    BY <1>2 DEF Reloaded
  <1>3. CASE ~s.reloading /\ ~(s.valid /\ s.graph # None /\ s.source = s.hash)
    <2>1. CASE s.graph = None /\ c \in Unreadable
      BY <1>3, <2>1 DEF Reloaded, Script
    <2>2. CASE ~(s.graph = None /\ c \in Unreadable)
      <3>1. Reloaded(s, c, t) = Compiled(r)
        BY <1>3, <2>2 DEF Reloaded
      <3>2. u \in Script /\ u.graph = s.graph /\ u.edited = s.edited /\ u.source = s.source
        BY DEF Script
      <3> HIDE DEF u
      <3>3. r \in Script /\ r.graph # None /\ (u.edited => r.edited) /\ r.source = u.source
        BY <3>2, ReadType
      <3> HIDE DEF r
      <3>4. /\ Compiled(r) \in Script /\ Compiled(r).graph = r.graph
            /\ Compiled(r).edited = r.edited /\ Compiled(r).source = r.source
        BY <3>3, CompiledType
      <3> QED BY <3>1, <3>2, <3>3, <3>4
    <2> QED BY <2>1, <2>2
  <1> QED BY <1>1, <1>2, <1>3

\* So all the ways a script is read keep it sound, and its graph.
LEMMA ReloadedSound ==
    ASSUME NEW s, Sound(s), s.source # None,
           NEW c \in Contents, NEW t \in 1..MaxTime, MaxTime \in Nat \ {0}
    PROVE  /\ Sound(Reloaded(s, c, t)) /\ (s.graph # None => Reloaded(s, c, t).graph # None)
           /\ s.edited => Reloaded(s, c, t).edited
  BY ReloadedType DEF Sound

LEMMA ToolReloadedSound ==
    ASSUME NEW s, Sound(s), NEW c \in Contents, NEW t \in 1..MaxTime, MaxTime \in Nat \ {0}
    PROVE  Sound(ToolReloaded(s, c, t)) /\ (s.graph # None => ToolReloaded(s, c, t).graph # None)
  <1> DEFINE l == LoadedSource(s, c, t)
  <1>1. Sound(l) /\ l.source # None /\ l.graph = s.graph
    BY LoadedSourceType, ContentsNotNone DEF Sound
  <1> HIDE DEF l
  <1>2. Sound(Reloaded(l, c, t)) /\ (l.graph # None => Reloaded(l, c, t).graph # None)
    BY <1>1, ReloadedSound
  <1>3. ToolReloaded(s, c, t) = Reloaded(l, c, t)
    BY DEF ToolReloaded, l
  <1> QED BY <1>1, <1>2, <1>3

LEMMA FromFileSound ==
    ASSUME NEW s, Sound(s), NEW c \in Contents, NEW t \in 1..MaxTime, MaxTime \in Nat \ {0}
    PROVE  Sound(FromFile(s, c, t)) /\ (s.graph # None => FromFile(s, c, t).graph # None)
  <1> DEFINE fresh == [s EXCEPT !.srcTime = 0, !.hash = None, !.edited = FALSE]
  <1>0. None \in Maybe /\ 0 \in 0..MaxTime
    BY DEF Maybe
  <1>1. Sound(fresh) /\ fresh.graph = s.graph /\ fresh.source = s.source
    BY <1>0 DEF Sound, Script
  <1>2. CASE ~s.valid
    BY <1>1, <1>2 DEF FromFile
  <1>3. CASE s.valid /\ settings.tool
    <2>1. FromFile(s, c, t) = ToolReloaded(fresh, c, t)
      BY <1>3 DEF FromFile
    <2> HIDE DEF fresh
    <2> QED BY <1>1, <2>1, ToolReloadedSound
  <1>4. CASE s.valid /\ ~settings.tool
    <2>1. FromFile(s, c, t) = Reloaded(fresh, c, t)
      BY <1>4 DEF FromFile
    <2>2. fresh.source # None
      BY <1>1, <1>4 DEF Sound
    <2> HIDE DEF fresh
    <2> QED BY <1>1, <2>1, <2>2, ReloadedSound
  <1> QED BY <1>2, <1>3, <1>4

LEMMA SavedSound ==
    ASSUME NEW s, Sound(s), s.graph # None, NEW t \in 1..MaxTime, MaxTime \in Nat \ {0}
    PROVE  Sound(Saved(s, t)) /\ Saved(s, t).graph # None
  <1> DEFINE saved == [s EXCEPT !.edited = FALSE, !.srcTime = t]
  <1>0. t \in 0..MaxTime /\ s.graph \in Contents
    BY DEF Sound, Script, Maybe
  <1>1. Sound(saved) /\ saved.graph = s.graph
    BY <1>0 DEF Sound, Script
  <1>2. Saved(s, t) = IF settings.onSave THEN ToolReloaded(saved, s.graph, t) ELSE saved
    BY DEF Saved
  <1> HIDE DEF saved
  <1> QED BY <1>0, <1>1, <1>2, ToolReloadedSound

-----------------------------------------------------------------------------
(* Every step keeps it.                                                    *)

LEMMA TypedInit == Init => Typed
  <1> SUFFICES ASSUME Init PROVE Typed
    OBVIOUS
  <1>1. MaxTime \in Nat \ {0} /\ settings \in Settings
    BY SettingsTypes DEF Init
  <1>2. None \in Maybe /\ 0 \in 0..MaxTime /\ 1 \in 1..MaxTime
    BY <1>1 DEF Maybe
  <1>3. script \in Script
    BY <1>2 DEF Init, Script
  <1> QED BY <1>1, <1>2, <1>3 DEF Init, Typed, TypeOK, Sound

\* What is to be shown of a step that keeps the settings.
StepTyped ==
    /\ settings' = settings
    /\ disk' \in Contents /\ mtime' \in 1..MaxTime /\ now' \in 1..MaxTime
    /\ Sound(script') /\ (tab' => script'.graph # None)
    /\ tab' \in BOOLEAN /\ viewTime' \in 0..MaxTime
    /\ deferred' \in BOOLEAN /\ dialog' \in BOOLEAN /\ unseen' \in BOOLEAN

LEMMA StepTypedSuffices == Typed /\ StepTyped => Typed'
  <1> SUFFICES ASSUME Typed, StepTyped PROVE Typed'
    OBVIOUS
  <1>1. settings' = settings /\ MaxTime' = MaxTime /\ Script' = Script
    BY DEF StepTyped, Script, MaxTime, Maybe
  <1>2. TypeOK'
    BY <1>1 DEF StepTyped, Typed, TypeOK, Sound
  <1>3. Sound(script)' /\ (tab' => script'.graph # None)
    BY <1>1 DEF StepTyped, Sound
  <1> QED BY <1>2, <1>3 DEF Typed

\* The file is written no earlier than now.
LEMMA LaterTimes ==
    ASSUME Typed, now' \in Later, now' <= MaxTime, mtime' = now'
    PROVE  mtime' \in 1..MaxTime /\ now' \in 1..MaxTime /\ MaxTime \in Nat \ {0}
  <1>1. MaxTime \in Nat \ {0} /\ now \in 1..MaxTime
    BY SettingsTypes DEF Typed, TypeOK
  <1>2. now' \in {now, now + 1}
    BY DEF Later
  <1> QED BY <1>1, <1>2

\* A save of a graph there is.
LEMMA StoreTyped ==
    ASSUME Typed, Store, script.graph # None
    PROVE  /\ settings' = settings /\ disk' \in Contents /\ mtime' \in 1..MaxTime /\ now' \in 1..MaxTime
           /\ mtime' \in 0..MaxTime /\ unseen' = FALSE
           /\ Sound(script') /\ script'.graph # None
  <1>1. mtime' \in 1..MaxTime /\ now' \in 1..MaxTime /\ MaxTime \in Nat \ {0}
    BY LaterTimes DEF Store
  <1>2. script.graph \in Contents /\ Sound(script)
    BY DEF Typed, Sound, Script, Maybe
  <1>3. Sound(script') /\ script'.graph # None
    BY <1>1, <1>2, SavedSound DEF Store
  <1> QED BY <1>1, <1>2, <1>3 DEF Store

\* The times and contents a step finds.
LEMMA TypedFacts ==
    ASSUME Typed
    PROVE  /\ settings \in Settings /\ MaxTime \in Nat \ {0} /\ Unreadable \in SUBSET Contents
           /\ disk \in Contents /\ mtime \in 1..MaxTime /\ now \in 1..MaxTime
           /\ mtime \in 0..MaxTime /\ viewTime \in 0..MaxTime
           /\ Sound(script) /\ (tab => script.graph # None)
           /\ tab \in BOOLEAN /\ deferred \in BOOLEAN /\ dialog \in BOOLEAN /\ unseen \in BOOLEAN
  <1>1. settings \in Settings /\ mtime \in 1..MaxTime
    BY DEF Typed, TypeOK
  <1>2. MaxTime \in Nat \ {0} /\ Unreadable \in SUBSET Contents
    BY <1>1, SettingsTypes
  <1>3. mtime \in 0..MaxTime
    BY <1>1, <1>2
  <1> QED BY <1>1, <1>2, <1>3 DEF Typed, TypeOK

LEMMA TypedStep == Typed /\ [Next]_vars => Typed'
  <1> SUFFICES ASSUME Typed, [Next]_vars PROVE StepTyped
    BY StepTypedSuffices
  <1>0. /\ settings \in Settings /\ MaxTime \in Nat \ {0} /\ Unreadable \in SUBSET Contents
        /\ disk \in Contents /\ mtime \in 1..MaxTime /\ now \in 1..MaxTime
        /\ mtime \in 0..MaxTime /\ viewTime \in 0..MaxTime
        /\ Sound(script) /\ (tab => script.graph # None)
        /\ tab \in BOOLEAN /\ deferred \in BOOLEAN /\ dialog \in BOOLEAN /\ unseen \in BOOLEAN
    BY TypedFacts
  <1>st. ASSUME Store, script.graph # None
         PROVE  /\ settings' = settings /\ disk' \in Contents /\ mtime' \in 1..MaxTime /\ now' \in 1..MaxTime
                /\ mtime' \in 0..MaxTime /\ unseen' = FALSE
                /\ Sound(script') /\ script'.graph # None
    BY <1>st, StoreTyped
  <1>ff. /\ Sound(FromFile(script, disk, mtime))
         /\ script.graph # None => FromFile(script, disk, mtime).graph # None
    BY <1>0, FromFileSound
  <1>1. ASSUME NEW c \in Contents, WriteOutside(c) PROVE StepTyped
    <2>1. mtime' \in 1..MaxTime /\ now' \in 1..MaxTime
      BY <1>1, LaterTimes DEF WriteOutside
    <2> QED BY <1>0, <1>1, <2>1 DEF WriteOutside, StepTyped
  <1>2. ASSUME NEW c \in Contents, Edit(c) PROVE StepTyped
    <2>1. Sound(script') /\ script'.graph # None
      BY <1>0, <1>2, ContentsNotNone DEF Edit, Sound, Script, Maybe
    <2> QED BY <1>0, <1>2, <2>1 DEF Edit, StepTyped
  <1>3. CASE Load
    <2>1. Sound(script') /\ (script.graph # None => script'.graph # None)
      BY <1>0, <1>3, ToolReloadedSound DEF Load
    <2> QED BY <1>0, <1>3, <2>1 DEF Load, StepTyped
  <1>4. CASE Open
    BY <1>0, <1>4 DEF Open, StepTyped
  <1>5. CASE SaveCurrent
    <2>1. Store /\ script.graph # None
      BY <1>0, <1>5 DEF SaveCurrent
    <2> QED BY <1>0, <1>5, <2>1, <1>st DEF SaveCurrent, StepTyped, IsChanged
  <1>6. CASE SaveFails
    <2>1. mtime' \in 1..MaxTime /\ now' \in 1..MaxTime /\ mtime' \in 0..MaxTime
      BY <1>6, LaterTimes DEF SaveFails
    <2> QED BY <1>0, <1>6, <2>1 DEF SaveFails, StepTyped, IsChanged
  <1>7. CASE Focus
    BY <1>0, <1>7 DEF Focus, StepTyped
  <1>8. CASE SaveAll
    <2>1. Store /\ script.graph # None
      BY <1>0, <1>8 DEF SaveAll
    <2> QED BY <1>0, <1>8, <2>1, <1>st DEF SaveAll, StepTyped
  <1>9. CASE SaveScene
    <2>1. CASE script.edited
      <3>1. Store /\ script.graph # None
        BY <1>0, <1>9, <2>1 DEF SaveScene
      <3> QED BY <1>0, <1>9, <3>1, <1>st DEF SaveScene, StepTyped
    <2>2. CASE ~script.edited
      BY <1>0, <1>9, <2>2 DEF SaveScene, StepTyped
    <2> QED BY <2>1, <2>2
  <1>10. CASE ReloadScripts
    <2>1. CASE IsChanged
      BY <1>0, <1>10, <1>ff, <2>1 DEF ReloadScripts, StepTyped
    <2>2. CASE ~IsChanged
      BY <1>0, <1>10, <2>2 DEF ReloadScripts, StepTyped
    <2> QED BY <2>1, <2>2
  <1>11. CASE AnswerReload
    BY <1>0, <1>11 DEF AnswerReload, StepTyped
  <1>12. CASE AnswerIgnore
    <2>1. CASE tab
      <3>1. Store /\ script.graph # None
        BY <1>0, <1>12, <2>1 DEF AnswerIgnore
      <3> QED BY <1>0, <1>12, <2>1, <3>1, <1>st DEF AnswerIgnore, StepTyped
    <2>2. CASE ~tab
      BY <1>0, <1>12, <2>2 DEF AnswerIgnore, StepTyped
    <2> QED BY <2>1, <2>2
  <1>13. CASE AnswerCancel
    BY <1>0, <1>13 DEF AnswerCancel, StepTyped
  <1>14. CASE SoftReload
    <2>1. Sound(script') /\ script'.graph # None
      BY <1>0, <1>14, ReloadedSound DEF SoftReload, Sound
    <2> QED BY <1>0, <1>14, <2>1 DEF SoftReload, StepTyped
  <1>15. CASE CloseClean
    BY <1>0, <1>15 DEF CloseClean, StepTyped
  <1>16. CASE CloseDiscard
    BY <1>0, <1>16, <1>ff DEF CloseDiscard, StepTyped
  <1>17. CASE CloseSave
    <2>1. CASE MustAsk
      BY <1>0, <1>17, <2>1 DEF CloseSave, StepTyped
    <2>2. CASE ~MustAsk
      <3>1. Store /\ script.graph # None
        BY <1>0, <1>17, <2>2 DEF CloseSave
      <3> QED BY <1>0, <1>17, <2>2, <3>1, <1>st DEF CloseSave, StepTyped
    <2> QED BY <2>1, <2>2
  <1>18. CASE UNCHANGED vars
    BY <1>0, <1>18 DEF vars, StepTyped
  <1> QED BY <1>1, <1>2, <1>3, <1>4, <1>5, <1>6, <1>7, <1>8, <1>9, <1>10, <1>11, <1>12,
             <1>13, <1>14, <1>15, <1>16, <1>17, <1>18 DEF Next

\* Every variable keeps its type, whatever goes wrong; a tab has a graph.
THEOREM TypeCorrect == Spec => []Typed
  <1>1. Init => Typed
    BY TypedInit
  <1>2. Typed /\ [Next]_vars => Typed'
    BY TypedStep
  <1> QED BY <1>1, <1>2, PTL DEF Spec

-----------------------------------------------------------------------------
(* No edit is lost unasked.                                                *)

EditKept ==
    /\ script.edited /\ ~script'.edited =>
          disk' = script.graph \/ deferred \/ ~tab' \/ "reimport" \in Allowed
    /\ ~deferred /\ deferred' /\ script.edited => dialog

\* Only saves, reloads of the file, and loads past the cache take the mark away.
LEMMA EditKeptStep == Typed /\ [Next]_vars => [EditKept]_vars
  <1> SUFFICES ASSUME Typed, Next PROVE EditKept
    OBVIOUS
  <1>0. /\ MaxTime \in Nat \ {0} /\ disk \in Contents /\ mtime \in 1..MaxTime
        /\ Sound(script) /\ (tab => script.graph # None)
    BY TypedFacts
  <1>1. ASSUME NEW c \in Contents, WriteOutside(c) \/ Edit(c) PROVE EditKept
    <2>1. CASE WriteOutside(c)
      BY <2>1 DEF WriteOutside, EditKept
    <2>2. CASE Edit(c)
      BY <1>0, <2>2 DEF Edit, EditKept, Sound, Script
    <2> QED BY <1>1, <2>1, <2>2
  <1>2. CASE Load
    BY <1>0, <1>2 DEF Load, EditKept, Sound
  <1>3. CASE Open \/ AnswerReload \/ AnswerCancel \/ CloseClean
    BY <1>3 DEF Open, AnswerReload, AnswerCancel, CloseClean, EditKept
  <1>4. CASE SaveCurrent
    BY <1>4 DEF SaveCurrent, Store, MustAsk, EditKept
  <1>5. CASE SaveFails
    BY <1>5 DEF SaveFails, MustAsk, EditKept
  <1>6. CASE Focus
    BY <1>6 DEF Focus, MustAsk, EditKept
  <1>7. CASE SaveAll
    BY <1>7 DEF SaveAll, Store, EditKept
  <1>8. CASE SaveScene
    BY <1>8 DEF SaveScene, Store, EditKept
  <1>9. CASE ReloadScripts
    BY <1>9 DEF ReloadScripts, EditKept
  <1>10. CASE AnswerIgnore
    BY <1>10 DEF AnswerIgnore, Store, EditKept
  <1>11. CASE SoftReload
    <2>1. script.source # None
      BY <1>0, <1>11 DEF SoftReload, Sound
    <2>2. script.edited => Reloaded(script, disk, mtime).edited
      BY <1>0, <2>1, ReloadedSound
    <2> QED BY <1>11, <2>2 DEF SoftReload, EditKept
  <1>12. CASE CloseDiscard
    BY <1>12 DEF CloseDiscard, EditKept
  <1>13. CASE CloseSave
    BY <1>13 DEF CloseSave, EditKept
  <1> QED BY <1>1, <1>2, <1>3, <1>4, <1>5, <1>6, <1>7, <1>8, <1>9, <1>10, <1>11, <1>12, <1>13 DEF Next

\* Edits are given up for a save of them, for a reload that was asked for or
\* queued before, or as the tab closes; over edits a reload is queued only by
\* the user's answer.
THEOREM EditsKeptSafe == Spec => EditsKept
  <1>1. Init => Typed
    BY TypedInit
  <1>2. Typed /\ [Next]_vars => Typed'
    BY TypedStep
  <1>3. Typed /\ [Next]_vars => [EditKept]_vars
    BY EditKeptStep
  <1> QED BY <1>1, <1>2, <1>3, PTL DEF Spec, EditsKept, EditKept

-----------------------------------------------------------------------------
(* A tab that is current shows the file.                                   *)

\* A graph is there and the script can be reloaded, or it is as it was created.
Loaded ==
    \/ /\ script.graph # None /\ script.valid /\ ~script.reloading
    \/ /\ script.graph = None /\ script.source = None /\ ~script.edited /\ ~script.valid /\ ~script.reloading

\* What was written outside is newer than the tab's time until it was shown, and
\* the tab stays; but for it and for edits the graph is the file's.
InStep ==
    /\ Loaded
    /\ mtime = now /\ viewTime <= mtime
    /\ unseen => tab /\ viewTime # mtime
    /\ (script.graph # None /\ ~script.edited /\ ~unseen) => script.graph = disk

IInv == Typed /\ (Plain => InStep)

\* A plain script takes over the file, whatever it was, if its stamp is no
\* longer the file's.
LEMMA PlainReads ==
    ASSUME Plain, NEW s, Sound(s), ~s.reloading, s.source # None,
           NEW c \in Contents, NEW t \in 1..MaxTime, MaxTime \in Nat \ {0},
           s.valid /\ s.graph # None => s.source # s.hash,
           s.graph # None => s.srcTime # t
    PROVE  /\ Reloaded(s, c, t).graph = c /\ Reloaded(s, c, t).valid /\ ~Reloaded(s, c, t).reloading
  <1> DEFINE u == [s EXCEPT !.valid = FALSE]
             r == Read(u, c, t)
  <1>1. c \notin Unreadable /\ ~settings.tool /\ settings.world.uncompilable = {}
    BY DEF Plain
  <1>2. Reloaded(s, c, t) = Compiled(r)
    BY <1>1 DEF Reloaded
  <1>3. /\ u \in Script /\ u.graph = s.graph /\ u.srcTime = s.srcTime /\ ~u.reloading
    BY DEF Script, Sound
  <1> HIDE DEF u
  <1>4. r \in Script /\ ~r.reloading
    BY <1>3, ReadType
  <1>5. r.graph = c
    BY <1>1, <1>3, ContentsNotNone DEF Read, Script
  <1> HIDE DEF r
  <1>6. Compiled(r) = [r EXCEPT !.compiled = r.graph, !.valid = TRUE, !.hash = r.source]
    BY <1>1 DEF Compiled
  <1> QED BY <1>2, <1>4, <1>5, <1>6 DEF Script

\* The first load.
LEMMA PlainLoaded ==
    ASSUME Plain, NEW s, Sound(s), s.graph = None, s.source = None, ~s.valid, ~s.reloading,
           NEW c \in Contents, NEW t \in 1..MaxTime, MaxTime \in Nat \ {0}
    PROVE  LET r == ToolReloaded(s, c, t) IN r.graph = c /\ r.valid /\ ~r.reloading
  <1> DEFINE l == LoadedSource(s, c, t)
  <1>1. /\ Sound(l) /\ l.graph = None /\ l.source = c /\ l.source # None
        /\ ~l.valid /\ ~l.reloading
    BY LoadedSourceType, ContentsNotNone DEF Sound
  <1>2. ToolReloaded(s, c, t) = Reloaded(l, c, t)
    BY DEF ToolReloaded
  <1> HIDE DEF l
  <1> QED BY <1>1, <1>2, PlainReads

\* A reload from the file: its stamps are cleared.
LEMMA PlainFromFile ==
    ASSUME Plain, NEW s, Sound(s), s.graph # None, s.valid, ~s.reloading,
           NEW c \in Contents, NEW t \in 1..MaxTime, MaxTime \in Nat \ {0}
    PROVE  LET r == FromFile(s, c, t) IN r.graph = c /\ r.valid /\ ~r.reloading
  <1> DEFINE fresh == [s EXCEPT !.srcTime = 0, !.hash = None, !.edited = FALSE]
  <1>0. None \in Maybe /\ 0 \in 0..MaxTime /\ 0 # t
    BY DEF Maybe
  <1>1. /\ Sound(fresh) /\ fresh.source # None /\ fresh.hash = None
        /\ ~fresh.reloading /\ fresh.srcTime # t
    BY <1>0 DEF Sound, Script
  <1>2. FromFile(s, c, t) = Reloaded(fresh, c, t)
    BY DEF FromFile, Plain
  <1> HIDE DEF fresh
  <1> QED BY <1>1, <1>2, PlainReads

\* A save: a reload after it has nothing to read, as it carries the file's stamp.
LEMMA PlainSaved ==
    ASSUME Plain, NEW s, Sound(s), s.graph # None, s.valid, ~s.reloading,
           NEW t \in 1..MaxTime, MaxTime \in Nat \ {0}
    PROVE  LET r == Saved(s, t) IN r.graph = s.graph /\ r.valid /\ ~r.reloading
  <1> DEFINE saved == [s EXCEPT !.edited = FALSE, !.srcTime = t]
             l == LoadedSource(saved, s.graph, t)
             u == [l EXCEPT !.valid = FALSE]
             r == [u EXCEPT !.srcTime = t]
  <1>0. t \in 0..MaxTime /\ s.graph \in Contents
    BY DEF Sound, Script, Maybe
  <1>1. saved \in Script /\ saved.graph = s.graph /\ saved.srcTime = t /\ saved.valid /\ ~saved.reloading
    BY <1>0 DEF Sound, Script
  <1>2. Saved(s, t) = IF settings.onSave THEN Reloaded(l, s.graph, t) ELSE saved
    BY DEF Saved, ToolReloaded
  <1> HIDE DEF saved
  <1>3. l \in Script /\ l.graph = s.graph /\ l.valid /\ ~l.reloading
    BY <1>0, <1>1, LoadedSourceType
  <1>4. l.srcTime = t
    BY <1>1 DEF LoadedSource, Script
  <1> HIDE DEF l
  <1>5. /\ u \in Script /\ u.graph = s.graph /\ u.srcTime = t /\ ~u.reloading
    BY <1>3, <1>4 DEF Script
  <1>6. Reloaded(l, s.graph, t) \in {l, Compiled(Read(u, s.graph, t))}
    BY <1>3 DEF Reloaded
  <1> HIDE DEF u
  <1>7. Read(u, s.graph, t) = r /\ r \in Script /\ r.graph = s.graph /\ ~r.reloading
    BY <1>0, <1>5 DEF Read, Script
  <1> HIDE DEF r
  <1>8. Compiled(r) = [r EXCEPT !.compiled = r.graph, !.valid = TRUE, !.hash = r.source]
    BY DEF Compiled, Plain
  <1>9. Compiled(r).graph = s.graph /\ Compiled(r).valid /\ ~Compiled(r).reloading
    BY <1>7, <1>8 DEF Script
  <1> QED BY <1>1, <1>2, <1>3, <1>6, <1>7, <1>9

LEMMA IInvInit == Init => IInv
  <1> SUFFICES ASSUME Init PROVE IInv
    OBVIOUS
  <1>1. script.graph = None /\ script.source = None /\ ~script.edited /\ ~script.valid /\ ~script.reloading
    BY DEF Init
  <1>2. viewTime = 0 /\ mtime = 1 /\ now = 1 /\ unseen = FALSE
    BY DEF Init
  <1> QED BY <1>1, <1>2, TypedInit DEF IInv, InStep, Loaded

\* A save leaves the graph and the file the same.
LEMMA StoreInStep ==
    ASSUME Typed, Plain, InStep, Store, script.graph # None, viewTime' = mtime'
    PROVE  InStep'
  <1>0. MaxTime \in Nat \ {0} /\ Sound(script)
    BY TypedFacts
  <1>1. mtime' \in 1..MaxTime
    BY LaterTimes DEF Store
  <1>2. script.valid /\ ~script.reloading
    BY DEF InStep, Loaded
  <1>3. /\ script'.graph = script.graph /\ script'.valid /\ ~script'.reloading
    BY <1>0, <1>1, <1>2, PlainSaved DEF Store
  <1>4. Loaded'
    BY <1>3 DEF Loaded
  <1>5. mtime' = now' /\ viewTime' <= mtime' /\ ~unseen' /\ disk' = script'.graph
    BY <1>1, <1>3 DEF Store
  <1> QED BY <1>4, <1>5 DEF InStep

LEMMA SettingsKept == Typed /\ [Next]_vars => settings' = settings
  BY DEF Next, vars, WriteOutside, Edit, Load, Open, SaveCurrent, SaveFails, Focus, SaveAll,
     SaveScene, Store, ReloadScripts, AnswerReload, AnswerIgnore, AnswerCancel, SoftReload,
     CloseClean, CloseDiscard, CloseSave

LEMMA InStepStep == Typed /\ Plain /\ InStep /\ [Next]_vars => InStep'
  <1> SUFFICES ASSUME Typed, Plain, InStep, [Next]_vars PROVE InStep'
    OBVIOUS
  <1>0. /\ MaxTime \in Nat \ {0} /\ disk \in Contents /\ mtime \in 1..MaxTime /\ now \in 1..MaxTime
        /\ viewTime \in 0..MaxTime /\ Sound(script) /\ (tab => script.graph # None)
    BY TypedFacts
  <1>p. ~settings.tool /\ Allowed = {} /\ Unreadable = {}
    BY DEF Plain
  <1>t. script.graph # None => script.valid /\ ~script.reloading
    BY DEF InStep, Loaded
  <1>st. ASSUME Store, script.graph # None, viewTime' = mtime' PROVE InStep'
    BY <1>st, StoreInStep
  <1>ff. ASSUME script.graph # None
         PROVE  LET r == FromFile(script, disk, mtime) IN r.graph = disk /\ r.valid /\ ~r.reloading
    BY <1>0, <1>t, <1>ff, PlainFromFile
  \* Steps that leave the file and the script alone.
  <1>un. ASSUME UNCHANGED <<disk, mtime, now, script>>,
                unseen' => tab' /\ viewTime' # mtime', viewTime' <= mtime', unseen => unseen'
         PROVE  InStep'
    BY <1>un DEF InStep, Loaded
  <1>1. ASSUME NEW c \in Contents, WriteOutside(c) PROVE InStep'
    <2>1. tab /\ now' = now + 1 /\ mtime' = now' /\ unseen' /\ viewTime' = viewTime /\ tab' = tab /\ script' = script
      BY <1>1, <1>p DEF WriteOutside, Later
    <2>2. viewTime <= mtime /\ mtime = now
      BY DEF InStep
    <2>3. viewTime' <= mtime' /\ viewTime' # mtime'
      BY <1>0, <2>1, <2>2
    <2> QED BY <2>1, <2>3 DEF InStep, Loaded
  <1>2. ASSUME NEW c \in Contents, Edit(c) PROVE InStep'
    <2>1. /\ script'.graph # None /\ script'.valid /\ ~script'.reloading /\ script'.edited
      BY <1>0, <1>2, <1>t, ContentsNotNone DEF Edit, Sound, Script
    <2> QED BY <1>2, <2>1 DEF Edit, InStep, Loaded
  <1>3. CASE Load
    <2>1. script.graph = None
      BY <1>3, <1>p DEF Load
    <2>2. script.source = None /\ ~script.valid /\ ~script.reloading
      BY <2>1 DEF InStep, Loaded
    <2>3. script'.graph = disk /\ script'.valid /\ ~script'.reloading
      BY <1>0, <1>3, <2>1, <2>2, PlainLoaded DEF Load
    <2> QED BY <1>0, <1>3, <2>3, ContentsNotNone DEF Load, InStep, Loaded
  <1>4. CASE Open
    BY <1>0, <1>4, <1>un DEF Open, InStep
  <1>5. CASE SaveCurrent
    BY <1>0, <1>5, <1>st DEF SaveCurrent
  <1>6. CASE SaveFails
    BY <1>6, <1>p DEF SaveFails
  <1>7. CASE Focus
    BY <1>7, <1>un DEF Focus, InStep
  <1>8. CASE SaveAll
    BY <1>8, <1>p DEF SaveAll
  <1>9. CASE SaveScene
    BY <1>9, <1>p DEF SaveScene
  <1>10. CASE ReloadScripts
    <2>1. CASE IsChanged
      <3>1. script'.graph = disk /\ script'.valid /\ ~script'.reloading /\ viewTime' = mtime /\ ~unseen'
        BY <1>0, <1>10, <1>ff, <2>1 DEF ReloadScripts, IsChanged
      <3>2. viewTime' <= mtime' /\ disk' = disk /\ mtime' = mtime /\ now' = now
        BY <1>0, <1>10, <3>1 DEF ReloadScripts
      <3> QED BY <1>0, <3>1, <3>2, ContentsNotNone DEF InStep, Loaded
    <2>2. CASE ~IsChanged
      BY <1>10, <1>un, <2>2 DEF ReloadScripts, InStep
    <2> QED BY <2>1, <2>2
  <1>11. CASE AnswerReload
    BY <1>11, <1>un DEF AnswerReload, InStep
  <1>12. CASE AnswerIgnore
    <2>1. CASE tab
      BY <1>0, <1>12, <1>st, <2>1 DEF AnswerIgnore
    <2>2. CASE ~tab
      BY <1>12, <1>un, <2>2 DEF AnswerIgnore, InStep
    <2> QED BY <2>1, <2>2
  <1>13. CASE AnswerCancel
    BY <1>13, <1>un DEF AnswerCancel, InStep
  <1>14. CASE SoftReload
    BY <1>14, <1>p DEF SoftReload
  <1>15. CASE CloseClean
    BY <1>15, <1>p, <1>un DEF CloseClean, InStep
  <1>16. CASE CloseDiscard
    <2>1. ~unseen /\ tab
      BY <1>16, <1>p DEF CloseDiscard
    <2>2. script'.graph = disk /\ script'.valid /\ ~script'.reloading /\ ~unseen'
      BY <1>0, <1>16, <1>ff, <2>1 DEF CloseDiscard
    <2> QED BY <1>0, <1>16, <2>2, ContentsNotNone DEF CloseDiscard, InStep, Loaded
  <1>17. CASE CloseSave
    <2>0. ~unseen
      BY <1>17, <1>p DEF CloseSave
    <2>1. CASE MustAsk
      BY <1>17, <1>un, <2>0, <2>1 DEF CloseSave, InStep
    <2>2. CASE ~MustAsk
      BY <1>0, <1>17, <1>st, <2>2 DEF CloseSave
    <2> QED BY <2>1, <2>2
  <1>18. CASE UNCHANGED vars
    BY <1>18, <1>un DEF vars, InStep
  <1> QED BY <1>1, <1>2, <1>3, <1>4, <1>5, <1>6, <1>7, <1>8, <1>9, <1>10, <1>11, <1>12,
             <1>13, <1>14, <1>15, <1>16, <1>17, <1>18 DEF Next

LEMMA IInvStep == IInv /\ [Next]_vars => IInv'
  <1> SUFFICES ASSUME IInv, [Next]_vars PROVE IInv'
    OBVIOUS
  <1>1. Typed' /\ settings' = settings
    BY TypedStep, SettingsKept DEF IInv
  <1>2. ASSUME Plain' PROVE InStep'
    <2>1. Plain
      BY <1>1, <1>2 DEF Plain, Allowed, Unreadable
    <2> QED BY <2>1, InStepStep DEF IInv
  <1> QED BY <1>1, <1>2 DEF IInv

\* For any contents and any length of time, a tab with the file's time and no
\* edits shows the file, if the script is no tool script, its file can always be
\* read and compiled, and is written at most once a second.
THEOREM TabShowsFileSafe == Spec => []TabShowsFile
  <1>1. Init => IInv
    BY IInvInit
  <1>2. IInv /\ [Next]_vars => IInv'
    BY IInvStep
  <1>3. IInv => TabShowsFile
    <2> SUFFICES ASSUME IInv PROVE TypeOK /\ (Plain => ShowsFile)
      BY DEF TabShowsFile
    <2>1. TypeOK /\ (tab => script.graph # None)
      BY DEF IInv, Typed
    <2> QED BY <2>1 DEF IInv, InStep, ShowsFile
  <1> QED BY <1>1, <1>2, <1>3, PTL DEF Spec

=============================================================================
