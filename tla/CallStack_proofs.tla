--------------------------- MODULE CallStack_proofs ---------------------------
(***************************************************************************)
(* The accounts of the calls agree, for any number of coroutines and any   *)
(* depth: call_depth counts the calls whose code runs, and the levels of   *)
(* the debugger are frames of the native stack, all of them but after a    *)
(* call for which the limit of the levels takes effect.                    *)
(***************************************************************************)
EXTENDS CallStack, FiniteSetTheorems, SequenceTheorems, TLAPS

RunningOf(fs) == {i \in 1 .. Len(fs) : fs[i].phase = "running"}

-----------------------------------------------------------------------------
(* The innermost frame comes and goes.                                         *)

\* A sequence without its last element.
LEMMA FrontOf ==
  ASSUME NEW S, NEW s \in Seq(S), s # <<>>
  PROVE  /\ Front(s) \in Seq(S)
         /\ Len(s) \in Nat \ {0}
         /\ Len(Front(s)) = Len(s) - 1
         /\ \A i \in 1 .. Len(s) - 1 : Front(s)[i] = s[i]
         /\ s[Len(s)] \in S
<1> DEFINE n == Len(s) - 1
           t == SubSeq(s, 1, n)
<1>1. Len(s) \in Nat \ {0} /\ s[Len(s)] \in S
  BY EmptySeq, ElementOfSeq
<1>2. 1 \in Int /\ n \in Nat /\ \A i \in 1 .. n : s[i] \in S
  BY <1>1, ElementOfSeq
<1> HIDE DEF n
<1>3. /\ t \in Seq(S)
      /\ Len(t) = IF 1 <= n THEN n - 1 + 1 ELSE 0
      /\ \A i \in 1 .. n - 1 + 1 : t[i] = s[1 + i - 1]
  BY <1>2, SubSeqProperties
<1>4. Front(s) = t
  BY DEF Front, n
<1> HIDE DEF t
<1>5. Len(t) = n /\ \A i \in 1 .. n : t[i] = s[i]
  BY <1>2, <1>3
<1> QED BY <1>1, <1>3, <1>4, <1>5 DEF n

\* The running frames are finitely many.
LEMMA RunningFinite ==
  ASSUME NEW fs \in Seq(Frames)
  PROVE  IsFiniteSet(RunningOf(fs)) /\ Cardinality(RunningOf(fs)) \in Nat
<1>1. IsFiniteSet(1 .. Len(fs))
  BY FS_Interval
<1>2. RunningOf(fs) \subseteq 1 .. Len(fs)
  BY DEF RunningOf
<1> QED BY <1>1, <1>2, FS_Subset, FS_CardinalityType

\* A frame that is entered is one more.
LEMMA RunningEntered ==
  ASSUME NEW fs \in Seq(Frames), NEW f \in Frames, f.phase = "running"
  PROVE  Cardinality(RunningOf(Append(fs, f))) = Cardinality(RunningOf(fs)) + 1
<1>1. RunningOf(Append(fs, f)) = RunningOf(fs) \cup {Len(fs) + 1}
  BY DEF RunningOf, Frames
<1>2. Len(fs) + 1 \notin RunningOf(fs)
  BY DEF RunningOf
<1> QED BY <1>1, <1>2, RunningFinite, FS_AddElement

\* Without the innermost frame there is one less, if its code was running.
LEMMA RunningLeft ==
  ASSUME NEW fs \in Seq(Frames), fs # <<>>
  PROVE  Cardinality(RunningOf(fs)) =
           Cardinality(RunningOf(Front(fs))) + (IF fs[Len(fs)].phase = "running" THEN 1 ELSE 0)
<1> DEFINE n == Len(fs)
<1>0. /\ n \in Nat \ {0} /\ Front(fs) \in Seq(Frames) /\ Len(Front(fs)) = n - 1
      /\ \A i \in 1 .. n - 1 : Front(fs)[i] = fs[i]
  BY FrontOf
<1>1. n \notin RunningOf(Front(fs))
  BY <1>0 DEF RunningOf
<1>2. CASE fs[n].phase = "running"
  <2>1. RunningOf(fs) = RunningOf(Front(fs)) \cup {n}
    BY <1>0, <1>2 DEF RunningOf
  <2> QED BY <1>0, <1>1, <1>2, <2>1, RunningFinite, FS_AddElement
<1>3. CASE fs[n].phase # "running"
  <2>1. RunningOf(fs) = RunningOf(Front(fs))
    BY <1>0, <1>3 DEF RunningOf
  <2> QED BY <1>0, <1>3, <2>1, RunningFinite
<1> QED BY <1>2, <1>3

\* A call that ends and emits is no longer one whose code runs.
LEMMA RunningEnded ==
  ASSUME NEW fs \in Seq(Frames), fs # <<>>, fs[Len(fs)].phase = "running"
  PROVE  LET gs == [fs EXCEPT ![Len(fs)].phase = "emitting"]
         IN  /\ gs \in Seq(Frames)
             /\ Len(gs) = Len(fs)
             /\ Cardinality(RunningOf(gs)) = Cardinality(RunningOf(fs)) - 1
<1> DEFINE n == Len(fs)
           gs == [fs EXCEPT ![n].phase = "emitting"]
<1>1. n \in 1 .. Len(fs) /\ n \in Nat
  OBVIOUS
<1>2. gs = [fs EXCEPT ![n] = [fs[n] EXCEPT !.phase = "emitting"]]
  OBVIOUS
<1>3. fs[n] \in Frames /\ [fs[n] EXCEPT !.phase = "emitting"] \in Frames
  <2>1. fs[n] \in Frames
    BY <1>1, ElementOfSeq
  <2> QED BY <2>1 DEF Frames
<1>4. gs \in Seq(Frames) /\ Len(gs) = n
  BY <1>1, <1>2, <1>3
<1>5. RunningOf(fs) = RunningOf(gs) \cup {n} /\ n \notin RunningOf(gs)
  BY <1>1, <1>2, <1>3, <1>4 DEF RunningOf, Frames
<1> HIDE DEF gs
<1>6. Cardinality(RunningOf(fs)) = Cardinality(RunningOf(gs)) + 1
  BY <1>4, <1>5, RunningFinite, FS_AddElement
<1>7. Cardinality(RunningOf(gs)) \in Nat
  BY <1>4, RunningFinite
<1> QED BY <1>4, <1>6, <1>7 DEF gs

-----------------------------------------------------------------------------
(* The counter.                                                                *)

Counted == depth = Cardinality(RunningOf(frames))

\* DepthCounts, with the count under its name.
LEMMA DepthCountsIs == DepthCounts <=> TypeOK /\ Counted /\ depth <= MaxDepth
  BY DEF DepthCounts, Counted, RunningOf

LEMMA InitDepth == Init => DepthCounts
<1> SUFFICES ASSUME Init PROVE DepthCounts
  OBVIOUS
<1>1. frames \in Seq(Frames) /\ RunningOf(frames) = {}
  BY EmptySeq DEF Init, RunningOf
<1>2. TypeOK
  BY <1>1, EmptySeq DEF Init, TypeOK
<1>3. depth = 0
  BY DEF Init
<1>4. Counted /\ depth <= MaxDepth
  BY <1>1, <1>3, FS_EmptySet, DepthAssumption DEF Counted
<1> QED BY <1>2, <1>4, DepthCountsIs

\* A level is put on the debugger's stack or not, and taken off or not.
LEMMA LevelsTyped ==
  ASSUME TypeOK, EnterFunction \/ ExitFunction \/ UNCHANGED <<levels, over>>
  PROVE  levels' \in Seq(Nat \ {0}) /\ over' \in BOOLEAN
<1>1. CASE EnterFunction
  <2>1. Len(frames) + 1 \in Nat \ {0}
    BY LenProperties DEF TypeOK
  <2>2. over' \in BOOLEAN
    BY <1>1 DEF EnterFunction, TypeOK
  <2> QED BY <1>1, <2>1, <2>2, AppendProperties DEF EnterFunction, TypeOK
<1>2. CASE ExitFunction
  BY <1>2, FrontOf DEF ExitFunction, TypeOK
<1> QED BY <1>1, <1>2 DEF TypeOK

\* The frame that runs is the innermost one.
LEMMA TopRuns ==
  ASSUME TypeOK, frames # <<>>
  PROVE  /\ Top \in Frames
         /\ Running <=> Top.phase = "running"
<1>1. Top \in Frames
  BY FrontOf DEF TypeOK, Top
<1>2. Top.phase \in {"running", "emitting"}
  BY <1>1 DEF Frames
<1> QED BY <1>1, <1>2 DEF Running, Emitting

\* What is entered is counted, and refused at the limit.
LEMMA EnterCounts ==
  ASSUME DepthCounts, NEW c \in Coroutines \cup {None}, Enter(c), UNCHANGED builtin,
         awaits' \in [Coroutines -> Coroutines \cup {Engine, None}]
  PROVE  DepthCounts'
<1>0. TypeOK /\ Counted /\ depth <= MaxDepth
  BY DepthCountsIs
<1>1. CASE depth + 1 > MaxDepth
  BY <1>0, <1>1 DEF Enter, TypeOK, DepthCounts
<1>2. CASE ~(depth + 1 > MaxDepth)
  <2> DEFINE f == [of |-> c, phase |-> "running"]
  <2>1. f \in Frames /\ f.phase = "running"
    BY DEF Frames
  <2>2. depth' = depth + 1 /\ frames' = Append(frames, f) /\ EnterFunction
    BY <1>2 DEF Enter
  <2> HIDE DEF f
  <2>3. frames \in Seq(Frames) /\ frames' \in Seq(Frames)
    BY <1>0, <2>1, <2>2, AppendProperties DEF TypeOK
  <2>4. Cardinality(RunningOf(frames')) = Cardinality(RunningOf(frames)) + 1
    BY <2>1, <2>2, <2>3, RunningEntered
  <2>5. depth' = Cardinality(RunningOf(frames')) /\ depth' \in Nat /\ depth' <= MaxDepth
    BY <1>0, <1>2, <2>2, <2>4, DepthAssumption DEF TypeOK, Counted
  <2>6. TypeOK'
    BY <1>0, <2>2, <2>3, <2>5, LevelsTyped DEF TypeOK
  <2> QED BY <2>5, <2>6 DEF DepthCounts, RunningOf
<1> QED BY <1>1, <1>2

\* What leaves the native stack is no longer counted, if its code was running.
LEMMA PopCounts ==
  ASSUME DepthCounts, frames # <<>>, frames' = Front(frames), ExitFunction, UNCHANGED builtin,
         depth' = depth - (IF Running THEN 1 ELSE 0),
         awaits' \in [Coroutines -> Coroutines \cup {Engine, None}]
  PROVE  DepthCounts'
<1>0. TypeOK /\ Counted /\ depth <= MaxDepth
  BY DepthCountsIs
<1>1. frames \in Seq(Frames) /\ frames' \in Seq(Frames)
  BY <1>0, FrontOf DEF TypeOK
<1>2. Cardinality(RunningOf(frames)) =
        Cardinality(RunningOf(frames')) + (IF Running THEN 1 ELSE 0)
  BY <1>0, <1>1, RunningLeft, TopRuns DEF Top
<1>3. Cardinality(RunningOf(frames')) \in Nat
  BY <1>1, RunningFinite
<1>4. depth' = Cardinality(RunningOf(frames')) /\ depth' \in Nat /\ depth' <= MaxDepth
  BY <1>0, <1>2, <1>3, DepthAssumption DEF Counted, TypeOK
<1>5. TypeOK'
  BY <1>0, <1>1, <1>4, LevelsTyped DEF TypeOK
<1> QED BY <1>4, <1>5 DEF DepthCounts, RunningOf

LEMMA NextDepth == DepthCounts /\ [Next]_vars => DepthCounts'
<1> SUFFICES ASSUME DepthCounts, [Next]_vars PROVE DepthCounts'
  OBVIOUS
<1>0. TypeOK /\ Counted /\ depth <= MaxDepth /\ UNCHANGED builtin
  BY DepthCountsIs DEF Next, vars
<1>1. CASE Call
  BY <1>0, <1>1, EnterCounts DEF Call, TypeOK
<1>2. ASSUME NEW c \in Coroutines, Resume(c) \/ Complete(c) PROVE DepthCounts'
  <2>1. awaits' \in [Coroutines -> Coroutines \cup {Engine, None}] /\ Enter(c)
    BY <1>0, <1>2 DEF Resume, Complete, TypeOK
  <2> QED BY <1>0, <2>1, EnterCounts
<1>3. CASE Await
  <2>1. awaits' \in [Coroutines -> Coroutines \cup {Engine, None}]
    BY <1>0, <1>3 DEF Await, TypeOK
  <2> QED BY <1>0, <1>3, <2>1, PopCounts DEF Await
<1>4. CASE Return
  BY <1>0, <1>4, PopCounts DEF Return, TypeOK
<1>5. CASE Finish
  <2>1. /\ frames' \in Seq(Frames)
        /\ Cardinality(RunningOf(frames')) = Cardinality(RunningOf(frames)) - 1
        /\ Cardinality(RunningOf(frames')) \in Nat
    BY <1>0, <1>5, RunningEnded, RunningFinite, TopRuns DEF Finish, Top, TypeOK
  <2>2. depth' = Cardinality(RunningOf(frames')) /\ depth' <= MaxDepth
    BY <1>0, <1>5, <2>1, DepthAssumption DEF Finish, Counted, TypeOK
  <2>3. TypeOK'
    BY <1>0, <1>5, <2>1, <2>2 DEF Finish, TypeOK
  <2> QED BY <2>2, <2>3 DEF DepthCounts, RunningOf
<1>6. CASE Leave
  BY <1>0, <1>6, PopCounts DEF Leave, TypeOK, Running, Emitting
<1>7. CASE UNCHANGED vars
  BY <1>7 DEF vars, DepthCounts, TypeOK
<1> QED BY <1>1, <1>2, <1>3, <1>4, <1>5, <1>6, <1>7 DEF Next

\* call_depth is the number of calls whose code runs and stays within the guard,
\* through suspensions, resumptions on top of an emission, and refused calls.
THEOREM DepthCountsSafe == Spec => []DepthCounts
<1> QED BY InitDepth, NextDepth, PTL DEF Spec

-----------------------------------------------------------------------------
(* The debugger's stack.                                                       *)

\* One level more for one frame more.
LEMMA LevelEntered ==
  ASSUME NEW fs \in Seq(Frames), NEW f \in Frames
  PROVE  Append([i \in 1 .. Len(fs) |-> i], Len(fs) + 1) = [i \in 1 .. Len(Append(fs, f)) |-> i]
<1> DEFINE n == Len(fs)
           ls == [i \in 1 .. n |-> i]
<1>1. n \in Nat /\ Len(Append(fs, f)) = n + 1
  BY LenProperties, AppendProperties
<1>2. ls \in Seq(Nat) /\ Len(ls) = n
  BY <1>1
<1>3. Append(ls, n + 1) = [i \in 1 .. n + 1 |-> i]
  BY <1>1, <1>2
<1> QED BY <1>1, <1>3

\* One level less for one frame less.
LEMMA LevelLeft ==
  ASSUME NEW fs \in Seq(Frames), fs # <<>>
  PROVE  LET ls == [i \in 1 .. Len(fs) |-> i]
         IN  ls # <<>> /\ Front(ls) = [i \in 1 .. Len(Front(fs)) |-> i]
<1> DEFINE n == Len(fs)
           ls == [i \in 1 .. n |-> i]
<1>1. n \in Nat \ {0} /\ Len(Front(fs)) = n - 1
  BY FrontOf
<1>2. ls \in Seq(Nat) /\ Len(ls) = n
  BY <1>1
<1>3. ls # <<>>
  BY <1>1, <1>2
<1>4. /\ Front(ls) \in Seq(Nat) /\ Len(Front(ls)) = n - 1
      /\ \A i \in 1 .. n - 1 : Front(ls)[i] = ls[i]
  BY <1>2, <1>3, FrontOf
<1>5. Front(ls) = [i \in 1 .. n - 1 |-> i]
  BY <1>1, <1>4
<1> QED BY <1>1, <1>3, <1>5

\* Every level that lives lies in a frame of its own, so that there are no more
\* levels than frames and the outermost of n frames has the outermost level.
LEMMA LevelTakenOff ==
  ASSUME TypeOK, LevelsLive, frames # <<>>, frames' = Front(frames), ExitFunction
  PROVE  LevelsLive'
<1>1. levels \in Seq(Nat \ {0}) /\ Len(frames') = Len(frames) - 1 /\ Len(frames) \in Nat \ {0}
  BY FrontOf DEF TypeOK
<1>2. CASE levels = <<>>
  <2>1. Len(levels') = 0
    BY <1>2 DEF ExitFunction
  <2> QED BY <2>1 DEF LevelsLive
<1>3. CASE levels # <<>>
  <2> DEFINE n == Len(levels)
  <2>1. /\ levels' = Front(levels) /\ n \in Nat \ {0} /\ Len(levels') = n - 1
        /\ \A i \in 1 .. n - 1 : levels'[i] = levels[i]
        /\ \A i \in 1 .. n : levels[i] \in Nat
    BY <1>1, <1>3, FrontOf, ElementOfSeq DEF ExitFunction
  <2>2. ASSUME NEW i \in 1 .. n - 1
        PROVE  levels'[i] <= Len(frames') /\ \A j \in 1 .. i - 1 : levels'[j] < levels'[i]
    <3>1. i \in 1 .. n /\ n \in 1 .. n /\ i \in 1 .. n - 1 /\ \A j \in 1 .. i - 1 : j \in 1 .. n - 1
      BY <2>1
    <3>2. levels[i] < levels[n] /\ levels[n] <= Len(frames)
      BY <3>1 DEF LevelsLive
    <3>3. \A j \in 1 .. i - 1 : levels[j] < levels[i]
      BY <3>1 DEF LevelsLive
    <3>4. levels[i] \in Nat /\ levels[n] \in Nat
      BY <2>1, <3>1
    <3>5. levels'[i] = levels[i] /\ \A j \in 1 .. i - 1 : levels'[j] = levels[j]
      BY <2>1, <3>1
    <3>6. levels[i] <= Len(frames')
      BY <1>1, <3>2, <3>4
    <3> QED BY <3>3, <3>5, <3>6
  <2> QED BY <2>1, <2>2 DEF LevelsLive
<1> QED BY <1>2, <1>3

LEMMA LevelPutOn ==
  ASSUME TypeOK, LevelsLive, EnterFunction, NEW f \in Frames, frames' = Append(frames, f)
  PROVE  LevelsLive'
<1> DEFINE n == Len(levels)
           m == Len(frames)
<1>1. /\ n \in Nat /\ m \in Nat /\ Len(frames') = m + 1
      /\ \A i \in 1 .. n : levels[i] \in Nat
  BY LenProperties, AppendProperties, ElementOfSeq DEF TypeOK
<1>2. CASE levels' = levels
  BY <1>1, <1>2 DEF LevelsLive
<1>3. CASE levels' = Append(levels, m + 1)
  <2>1. /\ Len(levels') = n + 1 /\ levels'[n + 1] = m + 1
        /\ \A i \in 1 .. n : levels'[i] = levels[i]
    BY <1>1, <1>3, AppendProperties DEF TypeOK
  <2>2. ASSUME NEW i \in 1 .. n + 1
        PROVE  levels'[i] <= m + 1 /\ \A j \in 1 .. i - 1 : levels'[j] < levels'[i]
    <3>1. CASE i \in 1 .. n
      <4>1. levels[i] <= m /\ \A j \in 1 .. i - 1 : j \in 1 .. n /\ levels[j] < levels[i]
        BY <1>1, <3>1 DEF LevelsLive
      <4> QED BY <1>1, <2>1, <3>1, <4>1
    <3>2. CASE i = n + 1
      <4>1. \A j \in 1 .. n : levels[j] <= m
        BY DEF LevelsLive
      <4> QED BY <1>1, <2>1, <3>2, <4>1
    <3> QED BY <1>1, <3>1, <3>2
  <2> QED BY <1>1, <2>1, <2>2 DEF LevelsLive
<1> QED BY <1>2, <1>3 DEF EnterFunction

\* Without a native stack there is no level.
LEMMA NoFrameNoLevel ==
  ASSUME NEW ls \in Seq(Nat \ {0}), \A i \in 1 .. Len(ls) : ls[i] <= 0
  PROVE  ls = <<>>
<1>1. Len(ls) = 0
  <2> SUFFICES ASSUME Len(ls) # 0 PROVE FALSE
    OBVIOUS
  <2>1. 1 \in 1 .. Len(ls) /\ ls[1] \in Nat \ {0}
    BY LenProperties, ElementOfSeq
  <2> QED BY <2>1
<1> QED BY <1>1, EmptySeq

LEMMA NextBalanced ==
  ASSUME TypeOK, TypeOK', Balanced, [Next]_vars
  PROVE  Balanced'
<1>0. UNCHANGED builtin /\ over \in BOOLEAN /\ builtin \in BOOLEAN
  BY DEF Next, vars, TypeOK
<1>1. ASSUME NEW c \in Coroutines \cup {None}, Enter(c) PROVE Balanced'
  <2> DEFINE f == [of |-> c, phase |-> "running"]
  <2>1. CASE UNCHANGED <<frames, levels, over>>
    BY <1>0, <2>1 DEF Balanced, LevelsLive
  <2>2. CASE EnterFunction /\ frames' = Append(frames, f)
    <3>1. f \in Frames /\ frames \in Seq(Frames) /\ LevelsLive
      BY DEF Frames, TypeOK, Balanced
    <3>2. LevelsLive'
      BY <2>2, <3>1, LevelPutOn
    <3>3. ~over' => levels' = [i \in 1 .. Len(frames') |-> i]
      <4> SUFFICES ASSUME ~over' PROVE levels' = [i \in 1 .. Len(frames') |-> i]
        OBVIOUS
      <4>1. ~over /\ ~AtLimit
        BY <2>2 DEF EnterFunction
      <4>2. levels' = Append([i \in 1 .. Len(frames) |-> i], Len(frames) + 1)
        BY <2>2, <4>1 DEF EnterFunction, Balanced
      <4> HIDE DEF f
      <4> QED BY <2>2, <3>1, <4>2, LevelEntered
    <3>4. builtin' /\ MaxLevels > 1 => ~over'
      <4> SUFFICES ASSUME builtin, MaxLevels > 1 PROVE ~over'
        BY <1>0
      <4>1. ~AtLimit
        <5>1. Len(levels) \in Nat
          BY LenProperties DEF TypeOK
        <5>2. Unlikely(Len(levels)) \in {0, 1}
          BY <5>1 DEF Unlikely
        <5> QED BY <5>2, DepthAssumption DEF AtLimit
      <4>2. ~over
        BY DEF Balanced
      <4> QED BY <2>2, <4>1, <4>2 DEF EnterFunction
    <3> QED BY <3>2, <3>3, <3>4 DEF Balanced
  <2> QED BY <1>1, <2>1, <2>2 DEF Enter
<1>2. ASSUME frames # <<>>, frames' = Front(frames), ExitFunction PROVE Balanced'
  <2>1. frames \in Seq(Frames) /\ LevelsLive /\ LevelsLive' /\ levels' \in Seq(Nat \ {0})
    BY <1>2, LevelTakenOff DEF Balanced, TypeOK
  <2>2. ~over' => levels' = [i \in 1 .. Len(frames') |-> i]
    <3>1. CASE ~over
      BY <1>2, <2>1, <3>1, LevelLeft DEF ExitFunction, Balanced
    <3>2. CASE over
      <4> SUFFICES ASSUME ~over' PROVE levels' = [i \in 1 .. Len(frames') |-> i]
        OBVIOUS
      <4>1. Len(frames) <= 1
        <5>1. ~(Len(frames) > 1)
          BY <1>2, <3>2 DEF ExitFunction
        <5> QED BY <2>1, <5>1, LenProperties
      <4>2. Len(frames') = 0
        BY <1>2, <2>1, <4>1, FrontOf, LenProperties
      <4>3. levels' = <<>>
        BY <2>1, <4>2, NoFrameNoLevel DEF LevelsLive
      <4> QED BY <4>2, <4>3
    <3> QED BY <3>1, <3>2
  <2>3. builtin' /\ MaxLevels > 1 => ~over'
    <3>1. over' => over
      BY <1>2 DEF ExitFunction
    <3> QED BY <1>0, <3>1 DEF Balanced
  <2> QED BY <2>1, <2>2, <2>3 DEF Balanced
<1>3. CASE Finish
  <2>1. Len(frames') = Len(frames) /\ UNCHANGED <<levels, over>>
    BY <1>3, RunningEnded, TopRuns DEF Finish, Top, TypeOK
  <2> QED BY <1>0, <2>1 DEF Balanced, LevelsLive
<1>4. CASE UNCHANGED vars
  BY <1>4 DEF vars, Balanced, LevelsLive
<1>5. CASE Call
  BY <1>1, <1>5 DEF Call
<1>6. ASSUME NEW c \in Coroutines, Resume(c) \/ Complete(c) PROVE Balanced'
  BY <1>1, <1>6 DEF Resume, Complete
<1>7. CASE Await
  BY <1>2, <1>7 DEF Await
<1>8. CASE Return
  BY <1>2, <1>8 DEF Return
<1>9. CASE Leave
  BY <1>2, <1>9 DEF Leave, Emitting
<1> QED BY <1>3, <1>4, <1>5, <1>6, <1>7, <1>8, <1>9 DEF Next

\* The debugger's stack is the native stack, level by level, until a call is
\* entered without a level; whatever the setting and the compiler, no level is
\* shown that has outlived its frame; and with __builtin_expect and a setting of
\* more than one level every call has its level.
THEOREM BalancedSafe == Spec => []Balanced
<1>1. Init => Balanced
  <2> SUFFICES ASSUME Init PROVE Balanced
    OBVIOUS
  <2>1. levels = <<>> /\ frames = <<>> /\ ~over
    BY DEF Init
  <2> QED BY <2>1, EmptySeq DEF Balanced, LevelsLive
<1>2. DepthCounts /\ DepthCounts' /\ Balanced /\ [Next]_vars => Balanced'
  BY NextBalanced DEF DepthCounts
<1> QED BY <1>1, <1>2, DepthCountsSafe, PTL DEF Spec
=============================================================================
