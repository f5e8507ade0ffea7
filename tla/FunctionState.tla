---------------------------- MODULE FunctionState ----------------------------
(***************************************************************************)
(* Suspended executions of orchestration functions.                        *)
(*                                                                         *)
(* When a function awaits, OPCODE_AWAIT moves its stack to a reference-     *)
(* counted OScriptFunctionState, puts that object in a list of the script  *)
(* and in one of the instance, and connects it to a signal; the connection *)
(* holds a reference to the object.  The signal, or a caller by hand,      *)
(* resumes it; a reload, the end of the script or the end of the instance  *)
(* cancels it.  A function that awaits again suspends in a new object,     *)
(* which passes on the `completed` signal of the first one: this is what   *)
(* a caller that awaits the function is connected to.                      *)
(*                                                                         *)
(* Each execution of OScriptCompiledFunction::call is a process.  Whether  *)
(* two of them are nested on one thread or run on two is not told apart:   *)
(* any of them may take the next step.                                     *)
(***************************************************************************)
EXTENDS Naturals, FiniteSets

CONSTANTS States,      \* function state objects that can exist at a time
          Calls,       \* executions of call() that can be under way at a time
          Scripts,
          Instances,
          Lineage,     \* Lineage[i]: the script of instance i and its bases
          Signals,     \* signals of other objects
          MaxHeld,     \* states that variables may refer to at a time
          None

ASSUME ConstantsAssumption ==
  /\ Lineage \in [Instances -> SUBSET Scripts]
  /\ None \notin States \cup Instances \cup Signals
  /\ States \cap Signals = {}
  /\ MaxHeld \in Nat

VARIABLES state,       \* state[s]: an OScriptFunctionState, or None
          firing,      \* states whose callback an emission has yet to make
          held,        \* states that a variable of the program refers to
          call,        \* call[c]: an execution of call(), or None
          loaded,      \* the scripts that exist
          alive,       \* the instances that exist
          disrupted    \* whether anything has cut an execution short

vars == <<state, firing, held, call, loaded, alive, disrupted>>

-----------------------------------------------------------------------------
(* An OScriptFunctionState with its CallState.  "Deleted" is a pointer to  *)
(* a function that a reload has freed.  The operand is the state object    *)
(* that the saved stack refers to, if the await is for a function call.    *)

FunctionState ==
  [function  : {"Null", "Live", "Deleted"},
   script    : Scripts,
   instance  : Instances \cup {None},
   completed : States,                            \* whose `completed` to emit
   source    : Signals \cup States \cup {None},   \* what resumes it
   operand   : States \cup {None},
   stack     : {"saved", "none"},
   lists     : SUBSET {"script", "instance"}]     \* pending_func_states

Execution ==
  [script   : Scripts,
   instance : Instances \cup {None},
   from     : States \cup {None},                 \* p_state
   pc       : {"claimed", "running", "completing"}]

ASSUME NoneAssumption ==
  /\ None \notin FunctionState \cup Execution
  /\ None \notin [script : Scripts, instance : Instances \cup {None}]

TypeOK ==
  /\ state \in [States -> FunctionState \cup {None}]
  /\ firing \subseteq States
  /\ held \subseteq States
  /\ call \in [Calls -> Execution \cup {None}]
  /\ loaded \subseteq Scripts
  /\ alive \subseteq Instances
  /\ disrupted \in BOOLEAN

Objects == {s \in States : state[s] # None}

Busy(cs) == {c \in Calls : cs[c] # None}

Resumed(cs) == {cs[c].from : c \in Busy(cs)} \ {None}

(* What resume() tests under the language's mutex. *)
Resumable(s) ==
  /\ state[s] # None
  /\ state[s].function # "Null"
  /\ "script" \in state[s].lists
  /\ state[s].instance # None => "instance" \in state[s].lists

-----------------------------------------------------------------------------
(* Reference counts.  A connection holds a reference to its state, and     *)
(* goes with the object whose signal it is; a saved stack holds one to its *)
(* operand.  An object that nothing refers to any more is destroyed, and   *)
(* with it its stack, its connections and its places in the lists.         *)

Root(o, hs, fs, cs, s) ==
  \/ s \in hs \cup fs \cup Resumed(cs)
  \/ o[s].source \in Signals

Refers(o, r, s) == o[s].source = r \/ o[r].operand = s

Closed(o, hs, fs, cs, K) ==
  \A s \in K : Root(o, hs, fs, cs, s) \/ \E r \in K : Refers(o, r, s)

Kept(o, hs, fs, cs) ==
  UNION {K \in SUBSET {s \in States : o[s] # None} : Closed(o, hs, fs, cs, K)}

Settled(o, hs, fs, cs) ==
  LET kept == Kept(o, hs, fs, cs)
  IN  [s \in States |->
         IF s \notin kept THEN None
         ELSE IF o[s].source \in States \ kept THEN [o[s] EXCEPT !.source = None]
         ELSE o[s]]

(* The states connected to a signal, and the end of their one-shot         *)
(* connections when it is emitted.                                         *)
Connected(o, x) == {s \in States : o[s] # None /\ o[s].source = x}

Disconnected(o, S) ==
  [s \in States |-> IF s \in S THEN [o[s] EXCEPT !.source = None] ELSE o[s]]

MutantCancelledListed(o, list, S) ==
  [s \in States |->
     IF s \in S
     THEN [o[s] EXCEPT !.source = None, !.stack = "none", !.operand = None]
     ELSE o[s]]

MutantCancelledConnected(o, list, S) ==
  [s \in States |->
     IF s \in S
     THEN [o[s] EXCEPT !.lists = @ \ {list}, !.stack = "none", !.operand = None]
     ELSE o[s]]

(* _clear_connections and _clear_stack on the states taken out of a list.  *)
Cancelled(o, list, S) ==
  [s \in States |->
     IF s \in S
     THEN [o[s] EXCEPT !.lists = @ \ {list}, !.source = None, !.stack = "none",
                       !.operand = IF o[s].stack = "saved" THEN None ELSE @]
     ELSE o[s]]

(* The functions of script x are freed; pointers to them are left behind.  *)
FunctionsDeleted(o, x) ==
  [s \in States |->
     IF o[s] # None /\ o[s].script = x /\ o[s].function = "Live"
     THEN [o[s] EXCEPT !.function = "Deleted"] ELSE o[s]]

(* resume() after call() has returned. *)
Over(o, s) == IF s = None THEN o ELSE [o EXCEPT ![s].function = "Null"]

(* The stack of a resumed execution is destroyed at the end of call(). *)
StackFreed(o, s) == IF s = None THEN o ELSE [o EXCEPT ![s].operand = None]

-----------------------------------------------------------------------------
Init ==
  /\ state = [s \in States |-> None]
  /\ firing = {}
  /\ held = {}
  /\ call = [c \in Calls |-> None]
  /\ loaded = Scripts
  /\ alive = Instances
  /\ disrupted = FALSE

(* call() without a state: the engine or another function calls.  The      *)
(* function is that of script x, on instance i or static.                  *)
Invoke(c, x, i) ==
  /\ call[c] = None
  /\ x \in loaded
  /\ i # None => i \in alive /\ x \in Lineage[i]
  /\ call' = [call EXCEPT ![c] =
       [script |-> x, instance |-> i, from |-> None, pc |-> "running"]]
  /\ UNCHANGED <<state, firing, held, loaded, alive, disrupted>>

(* A new object; object ids are never used twice, so that a `completed`    *)
(* signal of a destroyed object is nobody's.                               *)
Fresh(n) ==
  /\ state[n] = None
  /\ \A s \in Objects : state[s].completed # n

(* The result of the call that is being awaited.  Nothing comes between    *)
(* that call and the await on the thread that makes both; a state kept in  *)
(* a variable may have been resumed since, and counts as a disruption.      *)
Awaitable(f) == f \in held \cap Objects

(* Whose `completed` a new state stands for: its own, or that which the    *)
(* state being resumed stood for.                                          *)
MutantCompletedUnset(from, n) == IF from = None THEN n ELSE None
MutantCompletedOwn(from, n) == n

Completed(from, n) == IF from = None THEN n ELSE state[from].completed

(* OPCODE_AWAIT with a signal, or with a state, which stands for its       *)
(* `completed` signal.  call() returns the new state, which the caller may *)
(* keep; an emission drops what its callbacks return, whoever resumes by   *)
(* hand need not.  A state that has awaited again is done with.            *)
Await(c, n, x) ==
  /\ call[c] # None
  /\ call[c].pc = "running"
  /\ Fresh(n)
  /\ x \in Signals \/ Awaitable(x)
  /\ LET from == call[c].from
         new  == [function  |-> "Live",
                  script    |-> call[c].script,
                  instance  |-> call[c].instance,
                  completed |-> Completed(from, n),
                  source    |-> x,
                  operand   |-> IF x \in States THEN x ELSE None,
                  stack     |-> "saved",
                  lists     |-> IF call[c].instance = None THEN {"script"}
                                ELSE {"script", "instance"}]
     IN  /\ \/ held' = held
            \/ /\ Cardinality(held) < MaxHeld
               /\ held' = held \cup {n}
         /\ call' = [call EXCEPT ![c] = None]
         /\ state' = Settled(Over(StackFreed([state EXCEPT ![n] = new], from), from),
                             held', firing, call')
         /\ disrupted' = (disrupted \/ (x \in States /\ ~Resumable(x)) \/ (from # None /\ held' # held))
  /\ UNCHANGED <<firing, loaded, alive>>

(* A signal is emitted.  The engine collects the callbacks, ends their     *)
(* one-shot connections, and only then makes the calls.                    *)
Emit(x) ==
  /\ Connected(state, x) # {}
  /\ firing' = firing \cup Connected(state, x)
  /\ state' = Disconnected(state, Connected(state, x))
  /\ UNCHANGED <<held, call, loaded, alive, disrupted>>

MutantResume(c, s, caller) ==
  /\ call[c] = None
  /\ s \in caller
  /\ Resumable(s)
  /\ call' = [call EXCEPT ![c] = [script |-> state[s].script,
                                  instance |-> state[s].instance,
                                  from |-> s, pc |-> "claimed"]]
  /\ UNCHANGED <<state, held, loaded, alive>>

(* resume(), to the end of its critical section: from an emission, or by   *)
(* hand through a reference the program holds.                             *)
Resume(c, s, caller) ==
  /\ call[c] = None
  /\ s \in caller
  /\ Resumable(s)
  /\ call' = [call EXCEPT ![c] = [script |-> state[s].script,
                                  instance |-> state[s].instance,
                                  from |-> s, pc |-> "claimed"]]
  /\ state' = [state EXCEPT ![s].lists = {}]
  /\ UNCHANGED <<held, loaded, alive>>

Callback(c, s) == Resume(c, s, firing) /\ firing' = firing \ {s} /\ UNCHANGED disrupted

ResumeByHand(c, s) ==
  /\ disrupted' = TRUE
  /\ Resume(c, s, held)
  /\ UNCHANGED firing

(* A callback that comes too late: script or instance is gone, or the      *)
(* state has been resumed by hand.                                         *)
Refuse(s) ==
  /\ s \in firing
  /\ ~Resumable(s)
  /\ firing' = firing \ {s}
  /\ state' = Settled(state, held, firing', call)
  /\ UNCHANGED <<held, call, loaded, alive, disrupted>>

MutantEnter(c) ==
  /\ call[c] # None
  /\ call[c].pc = "claimed"
  /\ call' = [call EXCEPT ![c].pc = "running"]
  /\ UNCHANGED <<state, firing, held, loaded, alive, disrupted>>

(* call() with a state: it takes the stack over. *)
Enter(c) ==
  /\ call[c] # None
  /\ call[c].pc = "claimed"
  /\ call' = [call EXCEPT ![c].pc = "running"]
  /\ state' = [state EXCEPT ![call[c].from].stack = "none"]
  /\ UNCHANGED <<firing, held, loaded, alive, disrupted>>

(* call() gives up at MAX_CALL_DEPTH: the execution ends, its stack stays  *)
(* with the state, and nothing is emitted.                                 *)
Overflow(c) ==
  /\ disrupted' = TRUE
  /\ call[c] # None
  /\ call[c].pc = "claimed"
  /\ call' = [call EXCEPT ![c] = None]
  /\ state' = Settled(Over(state, call[c].from), held, firing, call')
  /\ UNCHANGED <<firing, held, loaded, alive>>

(* The function ends, by OPCODE_RETURN, OPCODE_END or an error, without    *)
(* awaiting again.  A resumed one frees its stack and emits `completed` of *)
(* the first state of the execution, if that still exists.                 *)
Return(c) ==
  /\ call[c] # None
  /\ call[c].pc = "running"
  /\ IF call[c].from = None
     THEN /\ call' = [call EXCEPT ![c] = None]
          /\ UNCHANGED <<state, firing>>
     ELSE LET o     == Settled(StackFreed(state, call[c].from), held, firing, call)
              slots == Connected(o, state[call[c].from].completed)
          IN  /\ call' = [call EXCEPT ![c].pc = "completing"]
              /\ firing' = firing \cup slots
              /\ state' = Disconnected(o, slots)
  /\ UNCHANGED <<held, loaded, alive, disrupted>>

(* resume() after call(). *)
Finish(c) ==
  /\ call[c] # None
  /\ call[c].pc = "completing"
  /\ call' = [call EXCEPT ![c] = None]
  /\ state' = Settled(Over(state, call[c].from), held, firing, call')
  /\ UNCHANGED <<firing, held, loaded, alive, disrupted>>

(* A variable is overwritten or goes out of scope. *)
Drop(s) ==
  /\ s \in held
  /\ held' = held \ {s}
  /\ state' = Settled(state, held', firing, call)
  /\ UNCHANGED <<firing, call, loaded, alive, disrupted>>

MutantFreeInstance(i) ==
  /\ disrupted' = TRUE
  /\ i \in alive
  /\ \A c \in Busy(call) : call[c].instance # i
  /\ alive' = alive \ {i}
  /\ UNCHANGED <<state, firing, held, call, loaded>>

(* ~OScriptInstance.  The engine frees no object that is in a call.        *)
FreeInstance(i) ==
  /\ disrupted' = TRUE
  /\ i \in alive
  /\ \A c \in Busy(call) : call[c].instance # i
  /\ alive' = alive \ {i}
  /\ LET S == {s \in Objects : state[s].instance = i /\ "instance" \in state[s].lists}
     IN  state' = Settled(Cancelled(state, "instance", S), held, firing, call)
  /\ UNCHANGED <<firing, held, call, loaded>>

(* What a recompilation and the destructor of a script do to executions.   *)
ScriptCleared(x) ==
  LET S == {s \in Objects : state[s].script = x /\ "script" \in state[s].lists}
  IN  state' = Settled(FunctionsDeleted(Cancelled(state, "script", S), x),
                       held, firing, call)

(* A reload recompiles the script; instances stay.                         *)
Reload(x) ==
  /\ disrupted' = TRUE
  /\ x \in loaded
  /\ \A c \in Busy(call) : call[c].script # x
  /\ ScriptCleared(x)
  /\ UNCHANGED <<firing, held, call, loaded, alive>>

(* ~OScript: nothing refers to the script, neither an instance nor the     *)
(* stack of a call.                                                        *)
Unload(x) ==
  /\ disrupted' = TRUE
  /\ x \in loaded
  /\ \A i \in alive : x \notin Lineage[i]
  /\ \A c \in Busy(call) : call[c].script # x
  /\ loaded' = loaded \ {x}
  /\ ScriptCleared(x)
  /\ UNCHANGED <<firing, held, call, alive>>

(* The object with signal x is freed, and its connections with it. *)
FreeEmitter(x) ==
  /\ disrupted' = TRUE
  /\ state' = Settled(Disconnected(state, Connected(state, x)), held, firing, call)
  /\ UNCHANGED <<firing, held, call, loaded, alive>>

Load(x) ==
  /\ x \notin loaded
  /\ loaded' = loaded \cup {x}
  /\ UNCHANGED <<state, firing, held, call, alive, disrupted>>

Instantiate(i) ==
  /\ i \notin alive
  /\ Lineage[i] \subseteq loaded
  /\ alive' = alive \cup {i}
  /\ UNCHANGED <<state, firing, held, call, loaded, disrupted>>

-----------------------------------------------------------------------------
Execute(c) ==
  \/ \E x \in Scripts, i \in Instances \cup {None} : Invoke(c, x, i)
  \/ \E n \in States, x \in Signals \cup States : Await(c, n, x)
  \/ \E s \in States : Callback(c, s) \/ ResumeByHand(c, s)
  \/ Enter(c)
  \/ Overflow(c)
  \/ Return(c)
  \/ Finish(c)

Environment ==
  \/ \E x \in Signals : Emit(x) \/ FreeEmitter(x)
  \/ \E s \in States : Refuse(s) \/ Drop(s)
  \/ \E i \in Instances : FreeInstance(i) \/ Instantiate(i)
  \/ \E x \in Scripts : Reload(x) \/ Unload(x) \/ Load(x)

Next == (\E c \in Calls : Execute(c)) \/ Environment

Spec == Init /\ [][Next]_vars

-----------------------------------------------------------------------------
(* A state that can be resumed is intact: its script and its instance      *)
(* exist, its function has not been freed, and it has its stack.  This is  *)
(* what the two lists are for (resume, ~OScriptInstance,                   *)
(* cancel_pending_functions).                                              *)
Intact ==
  \A s \in States : Resumable(s) =>
    /\ state[s].function = "Live"
    /\ state[s].stack = "saved"
    /\ state[s].script \in loaded
    /\ state[s].instance \in alive \cup {None}

(* A stack has one owner: a state is resumed by one execution of call(),   *)
(* which finds the stack on the state and takes it over ("we can be sure   *)
(* that p_state->stack won't be cleared before the current call completes, *)
(* and that p_state won't be resumed again", OScriptCompiledFunction::call).*)
StackOwned ==
  \A c \in Busy(call) : call[c].from # None =>
    /\ ~Resumable(call[c].from)
    /\ state[call[c].from].stack = IF call[c].pc = "claimed" THEN "saved" ELSE "none"
    /\ \A d \in Busy(call) : call[d].from = call[c].from => d = c

(* One execution is never suspended or resumed in two states at once: of   *)
(* the states that pass on the same `completed` signal one is current.     *)
Current(s) == Resumable(s) \/ s \in Resumed(call)

OneCurrent ==
  \A s, t \in Objects :
    (state[s].completed = state[t].completed /\ Current(s) /\ Current(t)) => s = t

(* Cancelling breaks the circles of references between a state that waits  *)
(* and the one it waits for: once no script is loaded and nothing runs or  *)
(* is referred to, no state object remains, unless one was resumed by hand *)
(* or for nothing and is still connected.                                  *)
NoLeak ==
  (/\ loaded = {} /\ held = {} /\ firing = {} /\ Busy(call) = {}
   /\ \A s \in Objects : state[s].function # "Null") => Objects = {}

(* Every state implements the contract of an await. *)
Point == INSTANCE AwaitPoint WITH
  waiting <- [s \in States |->
                IF Resumable(s)
                THEN [script |-> state[s].script, instance |-> state[s].instance]
                ELSE None],
  running <- Resumed(call)

Implements == Point!Spec

(* Unless something has cut an execution short (a cancellation, a lost      *)
(* signal, a stack that is too deep), or states that were resumed by hand   *)
(* or are kept beyond their call are awaited, whoever awaits a function     *)
(* waits for one that has not ended: some state of it is yet to emit        *)
(* `completed` (OPCODE_AWAIT passes the signal of the first state down).    *)
Awaited ==
  ~disrupted => \A t \in Objects : state[t].source \in States =>
    \E s \in Objects : /\ state[s].completed = state[state[t].source].completed
                       /\ Current(s)
=============================================================================
