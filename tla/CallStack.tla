------------------------------ MODULE CallStack ------------------------------
(* The three accounts one thread keeps of the calls it is in: the native stack *)
(* of OScriptCompiledFunction::call (script_vm.cpp), the counter call_depth    *)
(* that guards it, and the levels the debugger shows (language.cpp).           *)
(*                                                                             *)
(* A call that awaits leaves the native stack and goes on later, resumed by a  *)
(* signal.  When it ends then, it emits `completed` before it returns, so that *)
(* whoever awaits it runs on top of it.  A coroutine stands for all the states *)
(* of one asynchronous call: they share one `completed`.                       *)
EXTENDS Naturals, FiniteSets, Sequences, SequencesExt

CONSTANTS Coroutines,   \* the asynchronous calls there may be at a time
          MaxDepth,     \* OScriptCompiledFunction::MAX_CALL_DEPTH
          MaxLevels,    \* debug/settings/max_call_stack
          MaxFrames,    \* bound of the model on the native stack
          Engine        \* what is awaited when it is a signal of the engine

ASSUME DepthAssumption == MaxDepth \in Nat \ {0} /\ MaxLevels \in Nat /\ MaxFrames \in Nat
ASSUME EngineAssumption == Engine \notin Coroutines

None == "none"

VARIABLES builtin,  \* whether the compiler has __builtin_expect (all but MSVC)
          frames,   \* the native stack: whose call, and whether it runs or emits
          depth,    \* call_depth
          levels,   \* _call_stack: the frames whose level is on it, outermost first
          awaits,   \* what a coroutine awaits; None if it is not suspended
          over      \* history: a call was entered without a level, since when
                    \* the native stack was never empty

vars == <<builtin, frames, depth, levels, awaits, over>>

ASSUME NoneAssumption == None \notin Coroutines \cup {Engine}

Frames == [of : Coroutines \cup {None}, phase : {"running", "emitting"}]

TypeOK ==
    /\ frames \in Seq(Frames)
    /\ depth \in Nat
    /\ levels \in Seq(Nat \ {0})
    /\ awaits \in [Coroutines -> Coroutines \cup {Engine, None}]
    /\ builtin \in BOOLEAN
    /\ over \in BOOLEAN

Init ==
    /\ builtin \in BOOLEAN
    /\ frames = <<>>
    /\ depth = 0
    /\ levels = <<>>
    /\ awaits = [c \in Coroutines |-> None]
    /\ over = FALSE

-----------------------------------------------------------------------------
(* Helpers                                                                     *)

Top == frames[Len(frames)]

\* The code that runs is that of the innermost frame, or of the engine; else the
\* innermost frame has ended and emits.
Emitting == frames # <<>> /\ Top.phase = "emitting"
Running == ~Emitting

OnStack(c) == \E i \in 1 .. Len(frames) : frames[i].of = c

Suspended(c) == awaits[c] # None

\* A coroutine is forgotten when it is neither suspended nor on the stack.
Unused(c) == ~Suspended(c) /\ ~OnStack(c) /\ \A d \in Coroutines : awaits[d] # c

\* godot-cpp: __builtin_expect(!!(x), 0), which is 1 for every x but 0; and x
\* itself where the compiler has no such thing.
Unlikely(n) == IF builtin /\ n # 0 THEN 1 ELSE n

\* The call is entered without a level of its own.
AtLimit == Unlikely(Len(levels)) >= MaxLevels

EnterFunction ==
    /\ levels' = IF AtLimit THEN levels ELSE Append(levels, Len(frames) + 1)
    /\ over' = (over \/ AtLimit)

\* As ExitFunction would be, did only calls that were never suspended push a level.
MutantExitFunction ==
    /\ levels' = IF levels = <<>> \/ Top.of # None THEN levels ELSE Front(levels)
    /\ over' = (over /\ Len(frames) > 1)

\* A level is taken off, whether the call has put one on or not.
ExitFunction ==
    /\ levels' = IF levels = <<>> THEN levels ELSE Front(levels)
    /\ over' = (over /\ Len(frames) > 1)

\* call() from its first line to its first opcode, for a state or none; a stack
\* that is too deep returns before anything is done.
Enter(c) ==
    IF depth + 1 > MaxDepth
    THEN UNCHANGED <<frames, depth, levels, over>>
    ELSE /\ depth' = depth + 1
         /\ frames' = Append(frames, [of |-> c, phase |-> "running"])
         /\ EnterFunction

-----------------------------------------------------------------------------
(* Actions                                                                     *)

\* The engine, or an opcode of the innermost call, calls a function.
Call ==
    /\ Running
    /\ Len(frames) < MaxFrames
    /\ Enter(None)
    /\ UNCHANGED awaits

\* A signal of the engine is emitted by the engine or by an opcode: `resume`.
Resume(c) ==
    /\ Running
    /\ Len(frames) < MaxFrames
    /\ awaits[c] = Engine
    /\ awaits' = [awaits EXCEPT ![c] = None]
    /\ Enter(c)

\* `completed` of an ended call is emitted: whoever awaits it is resumed.
Complete(c) ==
    /\ Emitting
    /\ Len(frames) < MaxFrames
    /\ awaits[c] = Top.of
    /\ awaits' = [awaits EXCEPT ![c] = None]
    /\ Enter(c)

\* OPCODE_AWAIT: a first await makes the call asynchronous; the frame ends.
Await ==
    /\ frames # <<>>
    /\ Running
    /\ \E c \in Coroutines, what \in Coroutines \cup {Engine} :
          /\ IF Top.of = None THEN Unused(c) ELSE c = Top.of
          /\ what \in Coroutines => Suspended(what) /\ what # c
          /\ awaits' = [awaits EXCEPT ![c] = what]
    /\ frames' = Front(frames)
    /\ depth' = depth - 1
    /\ ExitFunction

\* The end of a call that was never suspended.
Return ==
    /\ frames # <<>>
    /\ Running
    /\ Top.of = None
    /\ frames' = Front(frames)
    /\ depth' = depth - 1
    /\ ExitFunction
    /\ UNCHANGED awaits

\* As Finish would be, were the counter left to the end of the emission.
MutantFinish ==
    /\ frames # <<>>
    /\ Running
    /\ Top.of # None
    /\ frames' = [frames EXCEPT ![Len(frames)].phase = "emitting"]
    /\ UNCHANGED <<depth, levels, awaits, over>>

\* The end of a resumed call: its values go, `completed` is about to be emitted.
Finish ==
    /\ frames # <<>>
    /\ Running
    /\ Top.of # None
    /\ frames' = [frames EXCEPT ![Len(frames)].phase = "emitting"]
    /\ depth' = depth - 1
    /\ UNCHANGED <<levels, awaits, over>>

\* Everybody who awaited it has been resumed; the level goes last.
Leave ==
    /\ Emitting
    /\ \A c \in Coroutines : awaits[c] # Top.of
    /\ frames' = Front(frames)
    /\ ExitFunction
    /\ UNCHANGED <<depth, awaits>>

Next ==
    /\ \/ Call
       \/ \E c \in Coroutines : Resume(c)
       \/ \E c \in Coroutines : Complete(c)
       \/ Await
       \/ Return
       \/ Finish
       \/ Leave
    /\ UNCHANGED builtin

Spec == Init /\ [][Next]_vars

-----------------------------------------------------------------------------
(* Properties                                                                  *)

\* No level outlives the frame it lies in and none is out of order, through
\* suspensions, resumptions, calls that are refused and calls without a level of
\* their own: a level is the local of a frame, read by the debugger.
LevelsLive ==
    \A i \in 1 .. Len(levels) :
        /\ levels[i] <= Len(frames)
        /\ \A j \in 1 .. i - 1 : levels[j] < levels[i]

\* The debugger's stack is the native stack, level by level.  A call that is
\* entered without a level takes one off that is not its own: from then on levels
\* are missing until the native stack is empty, but those that are there live.
\* Where the compiler has __builtin_expect there is no such call, if the setting
\* allows more than one level.
Balanced ==
    /\ LevelsLive
    /\ ~over => levels = [i \in 1 .. Len(frames) |-> i]
    /\ builtin /\ MaxLevels > 1 => ~over

\* call_depth counts the calls whose code runs, and comes back to zero: what is
\* refused, suspended or ended is not counted.
DepthCounts ==
    /\ TypeOK
    /\ depth = Cardinality({i \in 1 .. Len(frames) : frames[i].phase = "running"})
    /\ depth <= MaxDepth

\* script_vm.cpp:628 "Keep the VM's contribution to the native call stack
\* bounded": no more calls are nested than the guard allows.
NestingBounded == Len(frames) <= MaxDepth

\* script_vm.cpp:4078 "This ensures the call stack can be properly shown when
\* using 'await'": while code runs, and so may stop at a breakpoint, the values
\* of every level that is shown are still there.
LocalsAlive == Running => \A i \in 1 .. Len(levels) : frames[levels[i]].phase = "running"

\* language.cpp:1126 "Stack overflow detected": the levels stay within the setting.
LevelsBounded == Len(levels) <= MaxLevels

\* language.cpp:1160 "Stack Underflow (Engine Bug)": a call that ends finds a
\* level to take off.
NoUnderflow == frames # <<>> => levels # <<>>
=============================================================================
