------------------------- MODULE FunctionState_proofs -------------------------
(***************************************************************************)
(* Theorems about FunctionState, for any number of states, executions,     *)
(* scripts, instances and signals.                                         *)
(*                                                                         *)
(* An action computes the objects first and then lets go of what nothing   *)
(* refers to (Settled).  The inductive invariant is therefore stated of    *)
(* any value o of the variable state: Settled preserves it (SettledSane),  *)
(* and an action has only to establish it of the value before.             *)
(***************************************************************************)
EXTENDS FunctionState, TLAPS

Able(o, s) ==
  /\ o[s] # None
  /\ o[s].function # "Null"
  /\ "script" \in o[s].lists
  /\ o[s].instance # None => "instance" \in o[s].lists

(* The lists hold what is there. *)
Listed(o, ls, as) ==
  \A s \in States : o[s] # None =>
    /\ "script" \in o[s].lists => o[s].script \in ls /\ o[s].function = "Live"
    /\ "instance" \in o[s].lists => o[s].instance \in as
    /\ Able(o, s) => o[s].stack = "saved"

(* A state that was cancelled refers to nothing and waits for nothing. *)
Clean(o, cs) ==
  \A s \in States :
    (o[s] # None /\ o[s].function # "Null" /\ ~Able(o, s) /\ s \notin Resumed(cs)) =>
      o[s].source = None /\ o[s].operand = None

(* An execution has its script, its instance and its state, and has the    *)
(* state alone.                                                            *)
Executing(o, cs, ls, as) ==
  \A c \in Calls : cs[c] # None =>
    /\ cs[c].script \in ls
    /\ cs[c].instance \in as \cup {None}
    /\ cs[c].pc # "running" => cs[c].from # None
    /\ cs[c].from # None =>
         /\ o[cs[c].from] # None
         /\ o[cs[c].from].lists = {}
         /\ o[cs[c].from].stack = IF cs[c].pc = "claimed" THEN "saved" ELSE "none"
         /\ \A d \in Calls : cs[d] # None /\ cs[d].from = cs[c].from => d = c

CurrentIn(o, cs, s) == Able(o, s) \/ s \in Resumed(cs)

Single(o, cs) ==
  \A s, t \in States :
    (/\ o[s] # None /\ o[t] # None /\ o[s].completed = o[t].completed
     /\ CurrentIn(o, cs, s) /\ CurrentIn(o, cs, t)) => s = t

Typed(o, cs) ==
  /\ o \in [States -> FunctionState \cup {None}]
  /\ cs \in [Calls -> Execution \cup {None}]

Sane(o, cs, ls, as) ==
  /\ Typed(o, cs)
  /\ Listed(o, ls, as)
  /\ Clean(o, cs)
  /\ Executing(o, cs, ls, as)
  /\ Single(o, cs)

(* Every object has something that refers to it. *)
Grounded(o, hs, fs, cs) ==
  Closed(o, hs, fs, cs, {s \in States : o[s] # None})

Shape ==
  /\ state \in [States -> FunctionState \cup {None}]
  /\ firing \subseteq States
  /\ held \subseteq States
  /\ call \in [Calls -> Execution \cup {None}]
  /\ loaded \subseteq Scripts
  /\ alive \subseteq Instances

IInv ==
  /\ Shape
  /\ Sane(state, call, loaded, alive)
  /\ Grounded(state, held, firing, call)

-----------------------------------------------------------------------------
(* Who is being resumed. *)
LEMMA ResumedChar ==
  ASSUME NEW cs, NEW s \in States
  PROVE  s \in Resumed(cs) <=> \E c \in Calls : cs[c] # None /\ cs[c].from = s
BY ConstantsAssumption DEF Resumed, Busy

(* What remains after Settled is what was there, but for connections to    *)
(* objects that are gone.                                                  *)
LEMMA SettledFields ==
  ASSUME NEW o \in [States -> FunctionState \cup {None}], NEW hs, NEW fs, NEW cs,
         NEW s \in States, Settled(o, hs, fs, cs)[s] # None
  PROVE  LET p == Settled(o, hs, fs, cs)
         IN  /\ o[s] # None
             /\ p[s] \in FunctionState
             /\ p[s].function = o[s].function
             /\ p[s].script = o[s].script
             /\ p[s].instance = o[s].instance
             /\ p[s].completed = o[s].completed
             /\ p[s].operand = o[s].operand
             /\ p[s].stack = o[s].stack
             /\ p[s].lists = o[s].lists
             /\ p[s].source \in {o[s].source, None}
<1> DEFINE kept == Kept(o, hs, fs, cs)
<1>1. s \in kept
  BY DEF Settled
<1>2. o[s] # None
  BY <1>1 DEF Kept
<1>3. o[s] \in FunctionState
  BY <1>2
<1>4. Settled(o, hs, fs, cs)[s] =
        IF o[s].source \in States \ kept THEN [o[s] EXCEPT !.source = None] ELSE o[s]
  BY <1>1 DEF Settled
<1> HIDE DEF kept
<1> QED
  BY <1>2, <1>3, <1>4 DEF FunctionState

LEMMA SettledType ==
  ASSUME NEW o \in [States -> FunctionState \cup {None}], NEW hs, NEW fs, NEW cs
  PROVE  Settled(o, hs, fs, cs) \in [States -> FunctionState \cup {None}]
<1>1. \A s \in States : Settled(o, hs, fs, cs)[s] \in FunctionState \cup {None}
  BY SettledFields
<1> QED
  BY <1>1 DEF Settled

(* What a variable, an emission, an execution or a signal refers to stays. *)
LEMMA SettledKeeps ==
  ASSUME NEW o \in [States -> FunctionState \cup {None}], NEW hs, NEW fs, NEW cs,
         NEW s \in States, o[s] # None, Root(o, hs, fs, cs, s)
  PROVE  Settled(o, hs, fs, cs)[s] # None
<1>1. Closed(o, hs, fs, cs, {s})
  BY DEF Closed
<1>2. s \in Kept(o, hs, fs, cs)
  BY <1>1 DEF Kept
<1>3. Settled(o, hs, fs, cs)[s] \in {o[s], [o[s] EXCEPT !.source = None]}
  BY <1>2 DEF Settled
<1>4. o[s] \in FunctionState /\ [o[s] EXCEPT !.source = None] \in FunctionState
  BY DEF FunctionState
<1>5. None \notin FunctionState
  BY NoneAssumption
<1> QED
  BY <1>3, <1>4, <1>5

(* An update that leaves the objects of executions alone, destroys some    *)
(* others, and lets some wait for nothing or forget their operand.         *)
Shrunk(p, o, cs) ==
  /\ p \in [States -> FunctionState \cup {None}]
  /\ \A s \in States : p[s] # None =>
       /\ o[s] # None
       /\ p[s].function = o[s].function
       /\ p[s].script = o[s].script
       /\ p[s].instance = o[s].instance
       /\ p[s].completed = o[s].completed
       /\ p[s].stack = o[s].stack
       /\ p[s].lists = o[s].lists
       /\ p[s].source \in {o[s].source, None}
       /\ p[s].operand \in {o[s].operand, None}
  /\ \A s \in States : s \in Resumed(cs) /\ o[s] # None => p[s] # None

LEMMA ShrunkSane ==
  ASSUME NEW o, NEW p, NEW cs, NEW ls, NEW as,
         Sane(o, cs, ls, as), Shrunk(p, o, cs)
  PROVE  Sane(p, cs, ls, as)
<1>1. \A s \in States : Able(p, s) => Able(o, s)
  BY DEF Shrunk, Able
<1>2. \A s \in States : p[s] # None /\ Able(o, s) => Able(p, s)
  BY DEF Shrunk, Able
<1>3. Typed(p, cs)
  BY DEF Sane, Typed, Shrunk
<1>4. Listed(p, ls, as)
  BY <1>1 DEF Sane, Listed, Shrunk
<1>5. Clean(p, cs)
  BY <1>2 DEF Sane, Clean, Shrunk
<1>6. Executing(p, cs, ls, as)
  <2>1. ASSUME NEW c \in Calls, cs[c] # None, cs[c].from # None
        PROVE  p[cs[c].from] # None /\ cs[c].from \in States
    <3>1. cs[c].from \in States
      BY <2>1 DEF Sane, Typed, Execution
    <3>2. o[cs[c].from] # None
      BY <2>1 DEF Sane, Executing
    <3>3. cs[c].from \in Resumed(cs)
      BY <2>1, <3>1, ResumedChar
    <3> QED
      BY <3>1, <3>2, <3>3 DEF Shrunk
  <2>2. \A s \in States : p[s] # None => p[s].lists = o[s].lists /\ p[s].stack = o[s].stack
    BY DEF Shrunk
  <2>3. Executing(o, cs, ls, as)
    BY DEF Sane
  <2> QED
    BY <2>1, <2>2, <2>3 DEF Executing
<1>7. Single(p, cs)
  BY <1>1 DEF Sane, Single, Shrunk, CurrentIn
<1> QED
  BY <1>3, <1>4, <1>5, <1>6, <1>7 DEF Sane

(* Letting go of what nothing refers to keeps objects sane, and leaves     *)
(* only what is referred to.                                               *)
LEMMA SettledSane ==
  ASSUME NEW o, NEW hs, NEW fs, NEW cs, NEW ls, NEW as, Sane(o, cs, ls, as)
  PROVE  Sane(Settled(o, hs, fs, cs), cs, ls, as)
<1> DEFINE p == Settled(o, hs, fs, cs)
<1>0. o \in [States -> FunctionState \cup {None}]
  BY DEF Sane, Typed
<1>1. p \in [States -> FunctionState \cup {None}]
  BY <1>0, SettledType
<1>2. \A s \in States : s \in Resumed(cs) /\ o[s] # None => p[s] # None
  BY <1>0, SettledKeeps DEF Root
<1>3. Shrunk(p, o, cs)
  BY <1>0, <1>1, <1>2, SettledFields DEF Shrunk
<1> QED
  BY <1>3, ShrunkSane

LEMMA SettledGrounded ==
  ASSUME NEW o \in [States -> FunctionState \cup {None}], NEW hs, NEW fs, NEW cs
  PROVE  Grounded(Settled(o, hs, fs, cs), hs, fs, cs)
<1> DEFINE kept == Kept(o, hs, fs, cs)
           p == Settled(o, hs, fs, cs)
<1>1. kept \subseteq {s \in States : o[s] # None}
  BY DEF Kept
<1>2. Closed(o, hs, fs, cs, kept)
  <2> SUFFICES ASSUME NEW s \in kept
               PROVE  Root(o, hs, fs, cs, s) \/ \E r \in kept : Refers(o, r, s)
    BY DEF Closed
  <2>1. PICK K \in SUBSET {t \in States : o[t] # None} :
               s \in K /\ Closed(o, hs, fs, cs, K)
    BY DEF Kept
  <2>2. K \subseteq kept
    BY <2>1 DEF Kept
  <2> QED
    BY <2>1, <2>2 DEF Closed
<1>3. \A s \in States : p[s] # None => s \in kept
  BY DEF Settled
<1>4. \A s \in kept : /\ p[s] # None
                      /\ p[s].operand = o[s].operand
                      /\ o[s].source \notin States \ kept => p[s].source = o[s].source
  <2> SUFFICES ASSUME NEW s \in kept
               PROVE  /\ p[s] # None
                      /\ p[s].operand = o[s].operand
                      /\ o[s].source \notin States \ kept => p[s].source = o[s].source
    OBVIOUS
  <2>1. o[s] \in FunctionState
    BY <1>1
  <2>2. p[s] = IF o[s].source \in States \ kept
               THEN [o[s] EXCEPT !.source = None] ELSE o[s]
    BY <1>1 DEF Settled
  <2>3. [o[s] EXCEPT !.source = None] \in FunctionState
    BY <2>1 DEF FunctionState
  <2> HIDE DEF p, kept
  <2>4. [o[s] EXCEPT !.source = None].operand = o[s].operand
    BY <2>1 DEF FunctionState
  <2> QED
    BY <2>1, <2>2, <2>3, <2>4, NoneAssumption
<1> HIDE DEF kept, p
<1>5. {s \in States : p[s] # None} = kept
  BY <1>1, <1>3, <1>4
<1>6. \A s \in kept : Root(p, hs, fs, cs, s) \/ \E r \in kept : Refers(p, r, s)
  <2> SUFFICES ASSUME NEW s \in kept
               PROVE  Root(p, hs, fs, cs, s) \/ \E r \in kept : Refers(p, r, s)
    OBVIOUS
  <2>1. CASE Root(o, hs, fs, cs, s)
    BY <2>1, <1>4, ConstantsAssumption DEF Root
  <2>2. CASE \E r \in kept : Refers(o, r, s)
    BY <2>2, <1>4 DEF Refers
  <2> QED
    BY <2>1, <2>2, <1>2 DEF Closed
<1>7. Closed(p, hs, fs, cs, kept)
  BY <1>6 DEF Closed
<1>8. Grounded(p, hs, fs, cs)
  BY <1>5, <1>7 DEF Grounded
<1> QED
  BY <1>8 DEF p
-----------------------------------------------------------------------------
(* The functions from which the actions compute the objects.               *)

LEMMA DisconnectedShrunk ==
  ASSUME NEW o \in [States -> FunctionState \cup {None}], NEW cs,
         NEW S \in SUBSET {s \in States : o[s] # None}
  PROVE  Shrunk(Disconnected(o, S), o, cs)
<1> DEFINE p == Disconnected(o, S)
<1>1. \A s \in States : p[s] = IF s \in S THEN [o[s] EXCEPT !.source = None] ELSE o[s]
  BY DEF Disconnected
<1>2. \A s \in S : /\ o[s] \in FunctionState
                   /\ p[s] \in FunctionState
                   /\ p[s].function = o[s].function
                   /\ p[s].script = o[s].script
                   /\ p[s].instance = o[s].instance
                   /\ p[s].completed = o[s].completed
                   /\ p[s].stack = o[s].stack
                   /\ p[s].lists = o[s].lists
                   /\ p[s].source = None
                   /\ p[s].operand = o[s].operand
  BY <1>1 DEF FunctionState
<1>3. \A s \in States \ S : p[s] = o[s]
  BY <1>1
<1>4. p \in [States -> FunctionState \cup {None}]
  <2>1. \A s \in States : p[s] \in FunctionState \cup {None}
    BY <1>2, <1>3
  <2> QED
    BY <2>1 DEF Disconnected
<1>5. \A s \in States : o[s] # None => p[s] # None
  BY <1>2, <1>3, NoneAssumption
<1> HIDE DEF p
<1>6. Shrunk(p, o, cs)
  BY <1>2, <1>3, <1>4, <1>5 DEF Shrunk
<1> QED
  BY <1>6 DEF p

LEMMA DisconnectedGrounded ==
  ASSUME NEW o \in [States -> FunctionState \cup {None}], NEW hs, NEW fs, NEW cs,
         NEW S \in SUBSET {s \in States : o[s] # None},
         Grounded(o, hs, fs, cs)
  PROVE  Grounded(Disconnected(o, S), hs, fs \cup S, cs)
<1> DEFINE p == Disconnected(o, S)
           K == {s \in States : o[s] # None}
<1>1. \A s \in States : p[s] = IF s \in S THEN [o[s] EXCEPT !.source = None] ELSE o[s]
  BY DEF Disconnected
<1>2. \A s \in S : o[s] \in FunctionState /\ p[s] \in FunctionState
  BY <1>1 DEF FunctionState
<1>3. \A s \in S : p[s].operand = o[s].operand
  BY <1>1, <1>2 DEF FunctionState
<1>4. \A s \in States \ S : p[s] = o[s]
  BY <1>1
<1> HIDE DEF p
<1>5. \A s \in States : p[s] # None <=> o[s] # None
  BY <1>2, <1>4, NoneAssumption
<1>6. \A s \in K : Root(p, hs, fs \cup S, cs, s) \/ \E r \in K : Refers(p, r, s)
  <2>1. ASSUME NEW s \in K
        PROVE  Root(p, hs, fs \cup S, cs, s) \/ \E r \in K : Refers(p, r, s)
    <3>1. CASE s \in S
      BY <3>1 DEF Root
    <3>2. CASE s \notin S /\ Root(o, hs, fs, cs, s)
      BY <3>2, <1>4 DEF Root
    <3>3. CASE s \notin S /\ \E r \in K : Refers(o, r, s)
      BY <3>3, <1>3, <1>4 DEF Refers
    <3> QED
      BY <3>1, <3>2, <3>3 DEF Grounded, Closed
  <2> QED
    BY <2>1
<1>7. {s \in States : p[s] # None} = K
  BY <1>5
<1>8. Grounded(p, hs, fs \cup S, cs)
  BY <1>6, <1>7 DEF Grounded, Closed
<1> QED
  BY <1>8 DEF p

LEMMA StackFreedShrunk ==
  ASSUME NEW o \in [States -> FunctionState \cup {None}], NEW cs,
         NEW s \in States \cup {None}, s # None => o[s] # None
  PROVE  Shrunk(StackFreed(o, s), o, cs)
<1>1. CASE s = None
  <2>1. StackFreed(o, s) = o
    BY <1>1 DEF StackFreed
  <2> QED
    BY <2>1 DEF Shrunk
<1>2. CASE s # None
  <2> DEFINE p == StackFreed(o, s)
  <2>1. s \in States /\ o[s] \in FunctionState
    BY <1>2
  <2>2. p = [o EXCEPT ![s].operand = None]
    BY <1>2 DEF StackFreed
  <2>3. /\ p[s] \in FunctionState
        /\ p[s].function = o[s].function
        /\ p[s].script = o[s].script
        /\ p[s].instance = o[s].instance
        /\ p[s].completed = o[s].completed
        /\ p[s].stack = o[s].stack
        /\ p[s].lists = o[s].lists
        /\ p[s].source = o[s].source
        /\ p[s].operand = None
    BY <2>1, <2>2 DEF FunctionState
  <2>4. \A t \in States \ {s} : p[t] = o[t]
    BY <2>1, <2>2
  <2>5. p \in [States -> FunctionState \cup {None}]
    BY <2>1, <2>2, <2>3, <2>4
  <2>6. p[s] # None
    BY <2>3, NoneAssumption
  <2> HIDE DEF p
  <2>7. \A t \in States : p[t] # None <=> o[t] # None
    BY <2>1, <2>4, <2>6, NoneAssumption
  <2>8. Shrunk(p, o, cs)
    BY <2>3, <2>4, <2>5, <2>7 DEF Shrunk
  <2> QED
    BY <2>8 DEF p
<1> QED
  BY <1>1, <1>2

(* The end of an execution: its state is done with.                        *)
LEMMA EndSane ==
  ASSUME NEW o, NEW cs, NEW ls, NEW as, Sane(o, cs, ls, as),
         NEW c \in Calls, cs[c] # None
  PROVE  Sane(Over(o, cs[c].from), [cs EXCEPT ![c] = None], ls, as)
<1> DEFINE f == cs[c].from
           p == Over(o, f)
           ds == [cs EXCEPT ![c] = None]
<1>1. /\ o \in [States -> FunctionState \cup {None}]
      /\ cs \in [Calls -> Execution \cup {None}]
  BY DEF Sane, Typed
<1>2. f \in States \cup {None}
  BY <1>1 DEF Execution
<1>3. f # None =>
        /\ o[f] \in FunctionState
        /\ o[f].lists = {}
        /\ \A d \in Calls : cs[d] # None /\ cs[d].from = f => d = c
  BY <1>1, <1>2 DEF Sane, Executing
<1>4. ds \in [Calls -> Execution \cup {None}] /\ ds[c] = None
  BY <1>1
<1>5. \A d \in Calls : ds[d] # None => d # c /\ ds[d] = cs[d]
  BY <1>1
<1>6. \A d \in Calls \ {c} : ds[d] = cs[d]
  BY <1>1
<1>7. f # None => /\ p[f] \in FunctionState
                  /\ p[f].function = "Null"
                  /\ p[f].lists = {}
                  /\ p[f].completed = o[f].completed
                  /\ p = [o EXCEPT ![f].function = "Null"]
  BY <1>1, <1>2, <1>3 DEF Over, FunctionState
<1>8. f = None => p = o
  BY DEF Over
<1>9. \A s \in States : s # f => p[s] = o[s]
  BY <1>1, <1>7, <1>8
<1>10. p \in [States -> FunctionState \cup {None}]
  BY <1>1, <1>7, <1>8, <1>2
<1> HIDE DEF p, ds, f
<1>11. \A s \in States : s # f => (s \in Resumed(ds) <=> s \in Resumed(cs))
  BY <1>4, <1>5, <1>6, ResumedChar DEF f
<1>12. f # None => f \notin Resumed(ds)
  BY <1>2, <1>3, <1>5, ResumedChar
<1>13. \A s \in States : s # f => (Able(p, s) <=> Able(o, s))
  BY <1>9 DEF Able
<1>14. f # None => ~Able(p, f)
  BY <1>7 DEF Able
<1>15. Typed(p, ds)
  BY <1>4, <1>10 DEF Typed
<1>16. Listed(p, ls, as)
  <2> SUFFICES ASSUME NEW s \in States, p[s] # None
               PROVE  /\ "script" \in p[s].lists => p[s].script \in ls /\ p[s].function = "Live"
                      /\ "instance" \in p[s].lists => p[s].instance \in as
                      /\ Able(p, s) => p[s].stack = "saved"
    BY DEF Listed
  <2>1. CASE s = f
    BY <2>1, <1>7, <1>14, ConstantsAssumption
  <2>2. CASE s # f
    BY <2>2, <1>9, <1>13 DEF Sane, Listed
  <2> QED
    BY <2>1, <2>2
<1>17. Clean(p, ds)
  <2> SUFFICES ASSUME NEW s \in States, p[s] # None, p[s].function # "Null",
                      ~Able(p, s), s \notin Resumed(ds)
               PROVE  p[s].source = None /\ p[s].operand = None
    BY DEF Clean
  <2>1. s # f
    BY <1>7, ConstantsAssumption
  <2> QED
    BY <2>1, <1>9, <1>11, <1>13 DEF Sane, Clean
<1>18. Executing(p, ds, ls, as)
  <2>1. ASSUME NEW d \in Calls, ds[d] # None
        PROVE  /\ ds[d].script \in ls
               /\ ds[d].instance \in as \cup {None}
               /\ ds[d].pc # "running" => ds[d].from # None
               /\ ds[d].from # None =>
                    /\ p[ds[d].from] # None
                    /\ p[ds[d].from].lists = {}
                    /\ p[ds[d].from].stack = IF ds[d].pc = "claimed" THEN "saved" ELSE "none"
                    /\ \A e \in Calls : ds[e] # None /\ ds[e].from = ds[d].from => e = d
    <3>1. cs[d] # None /\ ds[d] = cs[d] /\ d # c
      BY <2>1, <1>5
    <3>2. ds[d].from # None => ds[d].from \in States /\ ds[d].from # f
      BY <3>1, <1>1, <1>3 DEF Execution
    <3>3. ds[d].from # None => p[ds[d].from] = o[cs[d].from]
      BY <3>1, <3>2, <1>9
    <3>4. /\ cs[d].script \in ls
          /\ cs[d].instance \in as \cup {None}
          /\ cs[d].pc # "running" => cs[d].from # None
          /\ cs[d].from # None =>
               /\ o[cs[d].from] # None
               /\ o[cs[d].from].lists = {}
               /\ o[cs[d].from].stack = IF cs[d].pc = "claimed" THEN "saved" ELSE "none"
               /\ \A e \in Calls : cs[e] # None /\ cs[e].from = cs[d].from => e = d
      BY <3>1 DEF Sane, Executing
    <3>5. \A e \in Calls : ds[e] # None => cs[e] # None /\ ds[e] = cs[e]
      BY <1>5
    <3> QED
      BY <3>1, <3>3, <3>4, <3>5
  <2> QED
    BY <2>1 DEF Executing
<1>19. Single(p, ds)
  <2>1. \A s \in States : CurrentIn(p, ds, s) => CurrentIn(o, cs, s) /\ s # f
    BY <1>11, <1>12, <1>13, <1>14, ConstantsAssumption DEF CurrentIn
  <2> QED
    BY <2>1, <1>9 DEF Sane, Single
<1>20. Sane(p, ds, ls, as)
  BY <1>15, <1>16, <1>17, <1>18, <1>19 DEF Sane
<1> QED
  BY <1>20 DEF p, ds, f

-----------------------------------------------------------------------------
(* The steps.                                                              *)

LEMMA Rooted ==
  ASSUME Sane(state', call', loaded', alive'),
         Grounded(state', held', firing', call'),
         held' \subseteq States, firing' \subseteq States,
         loaded' \subseteq Scripts, alive' \subseteq Instances
  PROVE  IInv'
BY DEF IInv, Shape, Sane, Typed

LEMMA SettledStep ==
  ASSUME NEW o, Sane(o, call', loaded', alive'),
         state' = Settled(o, held', firing', call'),
         held' \subseteq States, firing' \subseteq States,
         loaded' \subseteq Scripts, alive' \subseteq Instances
  PROVE  IInv'
<1>1. Sane(state', call', loaded', alive')
  BY SettledSane
<1>2. Grounded(state', held', firing', call')
  BY SettledGrounded DEF Sane, Typed
<1> QED
  BY <1>1, <1>2, Rooted

(* Where no link between objects changes, what referred to one still does, *)
(* and more may.                                                           *)
LEMMA SameLinks ==
  ASSUME NEW o, NEW p, NEW hs, NEW fs, NEW cs, NEW gs, NEW ds, NEW es,
         Grounded(o, hs, fs, cs),
         hs \cup fs \cup Resumed(cs) \subseteq gs \cup ds \cup Resumed(es),
         \A s \in States : p[s] # None <=> o[s] # None,
         \A s \in States : o[s] # None =>
           p[s].source = o[s].source /\ p[s].operand = o[s].operand
  PROVE  Grounded(p, gs, ds, es)
<1> DEFINE K == {s \in States : o[s] # None}
<1>1. {s \in States : p[s] # None} = K
  OBVIOUS
<1>2. ASSUME NEW s \in K
      PROVE  Root(p, gs, ds, es, s) \/ \E r \in K : Refers(p, r, s)
  <2>1. CASE Root(o, hs, fs, cs, s)
    BY <2>1 DEF Root
  <2>2. CASE \E r \in K : Refers(o, r, s)
    BY <2>2 DEF Refers
  <2> QED
    BY <2>1, <2>2 DEF Grounded, Closed
<1> QED
  BY <1>1, <1>2 DEF Grounded, Closed

LEMMA InvInit == Init => IInv
<1> SUFFICES ASSUME Init PROVE IInv
  OBVIOUS
<1>1. Shape
  BY DEF Init, Shape
<1>2. \A s \in States : state[s] = None
  BY DEF Init
<1>3. \A c \in Calls : call[c] = None
  BY DEF Init
<1>4. Sane(state, call, loaded, alive)
  BY <1>1, <1>2, <1>3 DEF Sane, Typed, Shape, Listed, Clean, Executing, Single
<1>5. Grounded(state, held, firing, call)
  BY <1>2 DEF Grounded, Closed
<1> QED
  BY <1>1, <1>4, <1>5 DEF IInv

LEMMA InvokeStep ==
  ASSUME IInv, NEW c \in Calls, NEW x \in Scripts, NEW i \in Instances \cup {None},
         Invoke(c, x, i)
  PROVE  IInv'
<1> DEFINE e == [script |-> x, instance |-> i, from |-> None, pc |-> "running"]
<1>1. e \in Execution /\ e # None
  BY NoneAssumption DEF Execution
<1>2. /\ call \in [Calls -> Execution \cup {None}]
      /\ call' = [call EXCEPT ![c] = e]
      /\ UNCHANGED <<state, firing, held, loaded, alive>>
      /\ call[c] = None /\ x \in loaded /\ i \in alive \cup {None}
  BY DEF Invoke, IInv, Shape
<1>3. call' \in [Calls -> Execution \cup {None}] /\ call'[c] = e
  BY <1>1, <1>2
<1>4. \A d \in Calls : d # c => call'[d] = call[d]
  BY <1>2
<1>5. e.script = x /\ e.instance = i /\ e.from = None /\ e.pc = "running"
  OBVIOUS
<1> HIDE DEF e
<1>6. \A s \in States : s \in Resumed(call') <=> s \in Resumed(call)
  <2> TAKE s \in States
  <2>1. s # None
    BY ConstantsAssumption
  <2>2. \A d \in Calls : (call'[d] # None /\ call'[d].from = s)
                       <=> (call[d] # None /\ call[d].from = s)
    BY <2>1, <1>2, <1>3, <1>4, <1>5
  <2> QED
    BY <2>2, ResumedChar
<1>7. Executing(state, call', loaded, alive)
  BY <1>2, <1>3, <1>4, <1>5 DEF IInv, Sane, Executing
<1>8. Sane(state, call', loaded, alive)
  BY <1>3, <1>6, <1>7 DEF IInv, Sane, Typed, Clean, Single, CurrentIn
<1>9. Grounded(state, held, firing, call')
  BY <1>6 DEF IInv, Grounded, Closed, Root
<1> QED
  BY <1>2, <1>8, <1>9, Rooted DEF IInv, Shape

LEMMA EmitStep ==
  ASSUME IInv, NEW x \in Signals, Emit(x)
  PROVE  IInv'
<1> DEFINE S == Connected(state, x)
<1>1. S \in SUBSET {s \in States : state[s] # None}
  BY DEF Connected
<1>2. /\ state \in [States -> FunctionState \cup {None}]
      /\ state' = Disconnected(state, S)
      /\ firing' = firing \cup S
      /\ UNCHANGED <<held, call, loaded, alive>>
  BY DEF Emit, IInv, Shape
<1> HIDE DEF S
<1>3. Sane(state', call', loaded', alive')
  BY <1>1, <1>2, DisconnectedShrunk, ShrunkSane DEF IInv
<1>4. Grounded(state', held', firing', call')
  BY <1>1, <1>2, DisconnectedGrounded DEF IInv
<1> QED
  BY <1>1, <1>2, <1>3, <1>4, Rooted DEF IInv, Shape

LEMMA RefuseStep ==
  ASSUME IInv, NEW s \in States, Refuse(s)
  PROVE  IInv'
BY SettledStep DEF Refuse, IInv, Shape

LEMMA DropStep ==
  ASSUME IInv, NEW s \in States, Drop(s)
  PROVE  IInv'
BY SettledStep DEF Drop, IInv, Shape

LEMMA FreeEmitterStep ==
  ASSUME IInv, NEW x \in Signals, FreeEmitter(x)
  PROVE  IInv'
<1> DEFINE o == Disconnected(state, Connected(state, x))
<1>1. Sane(o, call, loaded, alive)
  <2>1. Connected(state, x) \in SUBSET {s \in States : state[s] # None}
    BY DEF Connected
  <2>2. state \in [States -> FunctionState \cup {None}]
    BY DEF IInv, Shape
  <2> QED
    BY <2>1, <2>2, DisconnectedShrunk, ShrunkSane DEF IInv
<1>2. state' = Settled(o, held, firing, call)
  BY DEF FreeEmitter
<1> HIDE DEF o
<1> QED
  BY <1>1, <1>2, SettledStep DEF FreeEmitter, IInv, Shape

LEMMA LoadStep ==
  ASSUME IInv, NEW x \in Scripts, Load(x)
  PROVE  IInv'
<1>1. /\ UNCHANGED <<state, firing, held, call, alive>>
      /\ loaded' = loaded \cup {x}
  BY DEF Load
<1>2. Sane(state, call, loaded', alive)
  BY <1>1 DEF IInv, Sane, Listed, Executing
<1> QED
  BY <1>1, <1>2, Rooted DEF IInv, Shape

LEMMA InstantiateStep ==
  ASSUME IInv, NEW i \in Instances, Instantiate(i)
  PROVE  IInv'
<1>1. /\ UNCHANGED <<state, firing, held, call, loaded>>
      /\ alive' = alive \cup {i}
  BY DEF Instantiate
<1>2. Sane(state, call, loaded, alive')
  BY <1>1 DEF IInv, Sane, Listed, Executing
<1> QED
  BY <1>1, <1>2, Rooted DEF IInv, Shape

LEMMA ResumeStep ==
  ASSUME IInv, NEW c \in Calls, NEW s \in States, NEW caller,
         Resume(c, s, caller), firing' \subseteq firing,
         caller \subseteq firing \cup held, firing \ firing' \subseteq {s}
  PROVE  IInv'
<1> DEFINE e == [script |-> state[s].script, instance |-> state[s].instance,
                 from |-> s, pc |-> "claimed"]
<1>1. /\ state \in [States -> FunctionState \cup {None}]
      /\ call \in [Calls -> Execution \cup {None}]
      /\ call[c] = None
      /\ Able(state, s)
      /\ call' = [call EXCEPT ![c] = e]
      /\ state' = [state EXCEPT ![s].lists = {}]
      /\ UNCHANGED <<held, loaded, alive>>
  BY DEF Resume, IInv, Shape, Resumable, Able
<1>2. state[s] \in FunctionState /\ state[s] # None
  BY <1>1 DEF Able
<1>3. e \in Execution /\ e # None
  BY <1>2, NoneAssumption DEF Execution, FunctionState
<1>4. /\ e.script = state[s].script
      /\ e.instance = state[s].instance
      /\ e.from = s
      /\ e.pc = "claimed"
  OBVIOUS
<1> HIDE DEF e
<1>5. /\ state'[s] \in FunctionState
      /\ state'[s].function = state[s].function
      /\ state'[s].completed = state[s].completed
      /\ state'[s].source = state[s].source
      /\ state'[s].operand = state[s].operand
      /\ state'[s].stack = state[s].stack
      /\ state'[s].lists = {}
  BY <1>1, <1>2 DEF FunctionState
<1>6. \A t \in States : t # s => state'[t] = state[t]
  BY <1>1
<1>7. call'[c] = e /\ \A d \in Calls : d # c => call'[d] = call[d]
  BY <1>1
<1>8. Typed(state', call')
  BY <1>1, <1>3, <1>5, <1>6, <1>7 DEF Typed
<1>9. \A t \in States : t # s => (Able(state', t) <=> Able(state, t))
  BY <1>6 DEF Able
<1>10. ~Able(state', s)
  BY <1>5 DEF Able
<1>11. \A t \in States : t \in Resumed(call') <=> t = s \/ t \in Resumed(call)
  <2> TAKE t \in States
  <2>1. \A d \in Calls : (call'[d] # None /\ call'[d].from = t)
          <=> (d = c /\ t = s) \/ (call[d] # None /\ call[d].from = t)
    BY <1>1, <1>3, <1>4, <1>7
  <2> QED
    BY <2>1, ResumedChar
<1>12. \A d \in Calls : call[d] # None => call[d].from # s
  <2>1. state[s].lists # {}
    BY <1>1 DEF Able
  <2>2. \A d \in Calls : call[d] # None /\ call[d].from # None => state[call[d].from].lists = {}
    BY DEF IInv, Sane, Executing
  <2> QED
    BY <2>1, <2>2, ConstantsAssumption
<1>13. Listed(state', loaded, alive)
  <2> SUFFICES ASSUME NEW t \in States, state'[t] # None
               PROVE  /\ "script" \in state'[t].lists =>
                           state'[t].script \in loaded /\ state'[t].function = "Live"
                      /\ "instance" \in state'[t].lists => state'[t].instance \in alive
                      /\ Able(state', t) => state'[t].stack = "saved"
    BY DEF Listed
  <2>1. CASE t = s
    BY <2>1, <1>5, <1>10
  <2>2. CASE t # s
    BY <2>2, <1>6, <1>9 DEF IInv, Sane, Listed
  <2> QED
    BY <2>1, <2>2
<1>14. Clean(state', call')
  BY <1>6, <1>9, <1>11 DEF IInv, Sane, Clean
<1>15. Executing(state', call', loaded, alive)
  <2>1. ASSUME NEW d \in Calls, call'[d] # None
        PROVE  /\ call'[d].script \in loaded
               /\ call'[d].instance \in alive \cup {None}
               /\ call'[d].pc # "running" => call'[d].from # None
               /\ call'[d].from # None =>
                    /\ state'[call'[d].from] # None
                    /\ state'[call'[d].from].lists = {}
                    /\ state'[call'[d].from].stack = IF call'[d].pc = "claimed" THEN "saved" ELSE "none"
                    /\ \A b \in Calls : call'[b] # None /\ call'[b].from = call'[d].from => b = d
    <3>1. CASE d = c
      <4>1. /\ state[s].script \in loaded
            /\ state[s].instance \in alive \cup {None}
            /\ state[s].stack = "saved"
        BY <1>1, <1>2 DEF IInv, Sane, Listed, Able
      <4>2. \A b \in Calls : call'[b] # None /\ call'[b].from = s => b = c
        BY <1>7, <1>12
      <4>3. state'[s] # None
        BY <1>5, NoneAssumption
      <4> QED
        BY <3>1, <4>1, <4>2, <4>3, <1>4, <1>5, <1>7, ConstantsAssumption
    <3>2. CASE d # c
      <4>1. call[d] # None /\ call'[d] = call[d]
        BY <2>1, <3>2, <1>7
      <4>2. call[d].from # s
        BY <4>1, <1>12
      <4>3. call[d].from # None => state'[call[d].from] = state[call[d].from]
        BY <4>1, <4>2, <1>1, <1>6 DEF Execution
      <4>4. /\ call[d].script \in loaded
            /\ call[d].instance \in alive \cup {None}
            /\ call[d].pc # "running" => call[d].from # None
            /\ call[d].from # None =>
                 /\ state[call[d].from] # None
                 /\ state[call[d].from].lists = {}
                 /\ state[call[d].from].stack = IF call[d].pc = "claimed" THEN "saved" ELSE "none"
                 /\ \A b \in Calls : call[b] # None /\ call[b].from = call[d].from => b = d
        BY <4>1 DEF IInv, Sane, Executing
      <4>5. \A b \in Calls : call'[b] # None /\ call'[b].from = call[d].from => b # c
        BY <4>2, <1>4, <1>7
      <4> QED
        BY <4>1, <4>3, <4>4, <4>5, <1>7
    <3> QED
      BY <3>1, <3>2
  <2> QED
    BY <2>1 DEF Executing
<1>16. Single(state', call')
  <2>1. \A t \in States : /\ CurrentIn(state', call', t) => CurrentIn(state, call, t)
                          /\ state'[t] # None => state[t] # None
                          /\ state'[t].completed = state[t].completed
    BY <1>1, <1>5, <1>6, <1>9, <1>10, <1>11 DEF CurrentIn, Able
  <2> QED
    BY <2>1 DEF IInv, Sane, Single
<1>17. Sane(state', call', loaded', alive')
  BY <1>1, <1>8, <1>13, <1>14, <1>15, <1>16 DEF Sane
<1>18. Grounded(state', held', firing', call')
  <2>1. \A t \in States : state'[t] # None <=> state[t] # None
    BY <1>2, <1>5, <1>6, NoneAssumption
  <2>2. held \cup firing \cup Resumed(call) \subseteq held' \cup firing' \cup Resumed(call')
    <3>1. Resumed(call) \subseteq States
      BY <1>1 DEF Resumed, Busy, Execution
    <3>2. Resumed(call) \cup {s} \subseteq Resumed(call')
      BY <3>1, <1>11
    <3>3. firing \subseteq firing' \cup {s}
      OBVIOUS
    <3>4. held' = held
      BY <1>1
    <3> QED
      BY <3>2, <3>3, <3>4
  <2>3. \A t \in States : state[t] # None =>
          state'[t].source = state[t].source /\ state'[t].operand = state[t].operand
    BY <1>5, <1>6
  <2>4. Grounded(state, held, firing, call)
    BY DEF IInv
  <2> QED
    BY <2>1, <2>2, <2>3, <2>4, SameLinks
<1> QED
  BY <1>1, <1>17, <1>18, Rooted DEF IInv, Shape

LEMMA CallbackStep ==
  ASSUME IInv, NEW c \in Calls, NEW s \in States, Callback(c, s)
  PROVE  IInv'
BY ResumeStep DEF Callback

LEMMA ResumeByHandStep ==
  ASSUME IInv, NEW c \in Calls, NEW s \in States, ResumeByHand(c, s)
  PROVE  IInv'
BY ResumeStep DEF ResumeByHand

(* What the invariant says of one execution.                               *)
Executes(o, cs, ls, as, c) ==
  /\ cs[c] \in Execution
  /\ cs[c].from \in States \cup {None}
  /\ cs[c].script \in ls
  /\ cs[c].instance \in as \cup {None}
  /\ cs[c].pc # "running" => cs[c].from # None
  /\ cs[c].from # None =>
       /\ o[cs[c].from] \in FunctionState
       /\ o[cs[c].from] # None
       /\ o[cs[c].from].lists = {}
       /\ o[cs[c].from].stack = IF cs[c].pc = "claimed" THEN "saved" ELSE "none"
       /\ ~Able(o, cs[c].from)
       /\ cs[c].from \in Resumed(cs)
       /\ \A d \in Calls : cs[d] # None /\ cs[d].from = cs[c].from => d = c

LEMMA SaneExecutes ==
  ASSUME NEW o, NEW cs, NEW ls, NEW as, Sane(o, cs, ls, as)
  PROVE  \A c \in Calls : cs[c] # None => Executes(o, cs, ls, as, c)
<1> TAKE c \in Calls
<1> HAVE cs[c] # None
<1>1. cs[c] \in Execution /\ o \in [States -> FunctionState \cup {None}]
  BY DEF Sane, Typed
<1>2. cs[c].from \in States \cup {None}
  BY <1>1 DEF Execution
<1>3. /\ cs[c].script \in ls
      /\ cs[c].instance \in as \cup {None}
      /\ cs[c].pc # "running" => cs[c].from # None
      /\ cs[c].from # None =>
           /\ o[cs[c].from] # None
           /\ o[cs[c].from].lists = {}
           /\ o[cs[c].from].stack = IF cs[c].pc = "claimed" THEN "saved" ELSE "none"
           /\ \A d \in Calls : cs[d] # None /\ cs[d].from = cs[c].from => d = c
  BY DEF Sane, Executing
<1>4. cs[c].from # None => ~Able(o, cs[c].from)
  BY <1>3 DEF Able
<1>5. cs[c].from # None => cs[c].from \in Resumed(cs)
  BY <1>2, ResumedChar
<1> QED
  BY <1>1, <1>2, <1>3, <1>4, <1>5 DEF Executes

(* An execution goes on: its place changes, and with it the stack of its   *)
(* state, but nothing else.                                                *)
GoesOn(p, o, ds, cs, c) ==
  /\ p \in [States -> FunctionState \cup {None}]
  /\ ds \in [Calls -> Execution \cup {None}]
  /\ cs[c] # None
  /\ cs[c].from # None
  /\ p[cs[c].from] # None
  /\ p[cs[c].from].function = o[cs[c].from].function
  /\ p[cs[c].from].completed = o[cs[c].from].completed
  /\ p[cs[c].from].stack = "none"
  /\ p[cs[c].from].lists = o[cs[c].from].lists
  /\ \A s \in States : s # cs[c].from => p[s] = o[s]
  /\ ds[c] # None
  /\ ds[c].script = cs[c].script
  /\ ds[c].instance = cs[c].instance
  /\ ds[c].from = cs[c].from
  /\ ds[c].pc \in {"running", "completing"}
  /\ \A d \in Calls : d # c => ds[d] = cs[d]

LEMMA GoesOnSane ==
  ASSUME NEW o, NEW p, NEW cs, NEW ds, NEW ls, NEW as, NEW c \in Calls,
         Sane(o, cs, ls, as), GoesOn(p, o, ds, cs, c)
  PROVE  Sane(p, ds, ls, as) /\ Resumed(ds) = Resumed(cs)
<1> DEFINE f == cs[c].from
<1>0. cs \in [Calls -> Execution \cup {None}] /\ cs[c] # None /\ f # None
  BY DEF Sane, Typed, GoesOn
<1>1. /\ cs[c] \in Execution
      /\ f \in States
      /\ o[f] # None
      /\ o[f].lists = {}
      /\ cs[c].script \in ls
      /\ cs[c].instance \in as \cup {None}
      /\ f \in Resumed(cs)
      /\ \A d \in Calls : cs[d] # None /\ cs[d].from = f => d = c
  <2>1. Executes(o, cs, ls, as, c)
    BY <1>0, SaneExecutes
  <2> QED
    BY <2>1, <1>0 DEF Executes
<1>2. /\ p[f] # None
      /\ p[f].function = o[f].function
      /\ p[f].completed = o[f].completed
      /\ p[f].stack = "none"
      /\ p[f].lists = {}
      /\ \A s \in States : s # f => p[s] = o[s]
  BY <1>1 DEF GoesOn
<1>3. /\ ds[c] # None
      /\ ds[c].script = cs[c].script
      /\ ds[c].instance = cs[c].instance
      /\ ds[c].from = f
      /\ ds[c].pc # "claimed"
  BY DEF GoesOn
<1>4. \A d \in Calls : d # c => ds[d] = cs[d]
  BY DEF GoesOn
<1>5. Typed(p, ds)
  BY DEF GoesOn, Typed
<1>6. \A d \in Calls : (ds[d] # None <=> cs[d] # None) /\ ds[d].from = cs[d].from
  BY <1>0, <1>3, <1>4
<1>7. Resumed(ds) = Resumed(cs)
  BY <1>6 DEF Resumed, Busy
<1>8. \A s \in States : Able(p, s) => Able(o, s) /\ p[s] = o[s]
  BY <1>2 DEF Able
<1>9. \A s \in States : s # f => (Able(p, s) <=> Able(o, s))
  BY <1>2 DEF Able
<1>10. Listed(p, ls, as)
  <2> SUFFICES ASSUME NEW s \in States, p[s] # None
               PROVE  /\ "script" \in p[s].lists => p[s].script \in ls /\ p[s].function = "Live"
                      /\ "instance" \in p[s].lists => p[s].instance \in as
                      /\ Able(p, s) => p[s].stack = "saved"
    BY DEF Listed
  <2>1. CASE s = f
    BY <2>1, <1>2, <1>8 DEF Able
  <2>2. CASE s # f
    BY <2>2, <1>2, <1>9 DEF Sane, Listed
  <2> QED
    BY <2>1, <2>2
<1>11. Clean(p, ds)
  <2>1. f \in Resumed(ds)
    BY <1>1, <1>7
  <2> QED
    BY <2>1, <1>2, <1>7, <1>9 DEF Sane, Clean
<1>12. Executing(p, ds, ls, as)
  <2>1. ASSUME NEW d \in Calls, ds[d] # None
        PROVE  /\ ds[d].script \in ls
               /\ ds[d].instance \in as \cup {None}
               /\ ds[d].pc # "running" => ds[d].from # None
               /\ ds[d].from # None =>
                    /\ p[ds[d].from] # None
                    /\ p[ds[d].from].lists = {}
                    /\ p[ds[d].from].stack = IF ds[d].pc = "claimed" THEN "saved" ELSE "none"
                    /\ \A b \in Calls : ds[b] # None /\ ds[b].from = ds[d].from => b = d
    <3>1. CASE d = c
      <4> QED
        BY <3>1, <1>0, <1>1, <1>2, <1>3, <1>6
    <3>2. CASE d # c
      <4>1. cs[d] # None /\ ds[d] = cs[d]
        BY <2>1, <3>2, <1>4
      <4>2. cs[d].from # f
        BY <4>1, <3>2, <1>1
      <4>3. /\ cs[d].from \in States \cup {None}
            /\ cs[d].script \in ls
            /\ cs[d].instance \in as \cup {None}
            /\ cs[d].pc # "running" => cs[d].from # None
            /\ cs[d].from # None =>
                 /\ o[cs[d].from] # None
                 /\ o[cs[d].from].lists = {}
                 /\ o[cs[d].from].stack = IF cs[d].pc = "claimed" THEN "saved" ELSE "none"
                 /\ \A b \in Calls : cs[b] # None /\ cs[b].from = cs[d].from => b = d
        BY <4>1, <1>0 DEF Sane, Executing, Execution
      <4>4. cs[d].from # None => p[cs[d].from] = o[cs[d].from]
        BY <4>2, <4>3, <1>2
      <4> QED
        BY <4>1, <4>3, <4>4, <1>6
    <3> QED
      BY <3>1, <3>2
  <2> QED
    BY <2>1 DEF Executing
<1>13. Single(p, ds)
  <2>2. \A s \in States : CurrentIn(p, ds, s) => CurrentIn(o, cs, s)
    BY <1>7, <1>8 DEF CurrentIn
  <2>3. \A s \in States : p[s] # None => o[s] # None /\ p[s].completed = o[s].completed
    BY <1>1, <1>2
  <2> QED
    BY <2>2, <2>3 DEF Sane, Single
<1>14. Sane(p, ds, ls, as)
  BY <1>5, <1>10, <1>11, <1>12, <1>13 DEF Sane
<1> QED
  BY <1>7, <1>14

Moves(ds, cs, c, l) ==
  /\ ds \in [Calls -> Execution \cup {None}]
  /\ \A d \in Calls : d # c => ds[d] = cs[d]
  /\ ds[c] # None
  /\ ds[c].script = cs[c].script
  /\ ds[c].instance = cs[c].instance
  /\ ds[c].from = cs[c].from
  /\ ds[c].pc = l

LEMMA PlaceMoves ==
  ASSUME NEW cs \in [Calls -> Execution \cup {None}], NEW c \in Calls, cs[c] # None,
         NEW l \in {"claimed", "running", "completing"}
  PROVE  Moves([cs EXCEPT ![c].pc = l], cs, c, l)
<1> DEFINE ds == [cs EXCEPT ![c].pc = l]
<1>1. cs[c] \in Execution
  OBVIOUS
<1>2. /\ ds[c] \in Execution
      /\ ds[c].script = cs[c].script
      /\ ds[c].instance = cs[c].instance
      /\ ds[c].from = cs[c].from
      /\ ds[c].pc = l
  BY <1>1 DEF Execution
<1>3. \A d \in Calls : d # c => ds[d] = cs[d]
  OBVIOUS
<1>4. ds \in [Calls -> Execution \cup {None}]
  BY <1>2
<1> QED
  BY <1>2, <1>3, <1>4, NoneAssumption DEF Moves

LEMMA EnterStep ==
  ASSUME IInv, NEW c \in Calls, Enter(c)
  PROVE  IInv'
<1> DEFINE f == call[c].from
<1>1. /\ call[c] # None
      /\ call[c].pc = "claimed"
      /\ call' = [call EXCEPT ![c].pc = "running"]
      /\ state' = [state EXCEPT ![f].stack = "none"]
      /\ UNCHANGED <<firing, held, loaded, alive>>
      /\ state \in [States -> FunctionState \cup {None}]
      /\ call \in [Calls -> Execution \cup {None}]
  BY DEF Enter, IInv, Shape
<1>2. Sane(state, call, loaded, alive)
  BY DEF IInv
<1>3. f \in States /\ f # None /\ state[f] \in FunctionState /\ state[f] # None
  <2>1. Executes(state, call, loaded, alive, c)
    BY <1>1, <1>2, SaneExecutes
  <2> QED
    BY <2>1, <1>1 DEF Executes
<1>4. [state[f] EXCEPT !.stack = "none"] \in FunctionState
  BY <1>3 DEF FunctionState
<1>5. /\ state' \in [States -> FunctionState \cup {None}]
      /\ state'[f] = [state[f] EXCEPT !.stack = "none"]
      /\ \A s \in States : s # f => state'[s] = state[s]
  BY <1>1, <1>3, <1>4
<1>5a. /\ state'[f] # None
      /\ state'[f].function = state[f].function
      /\ state'[f].completed = state[f].completed
      /\ state'[f].stack = "none"
      /\ state'[f].lists = state[f].lists
  BY <1>3, <1>4, <1>5, NoneAssumption DEF FunctionState
<1>5b. Moves(call', call, c, "running")
  BY <1>1, PlaceMoves
<1>5c. GoesOn(state', state, call', call, c)
  BY <1>1, <1>3, <1>5, <1>5a, <1>5b DEF GoesOn, Moves
<1>6. Sane(state', call', loaded', alive') /\ Resumed(call') = Resumed(call)
  BY <1>1, <1>2, <1>5c, GoesOnSane
<1>7. Grounded(state', held', firing', call')
  <2>1. \A s \in States : state'[s] # None <=> state[s] # None
    BY <1>3, <1>4, <1>5, NoneAssumption
  <2>2. [state[f] EXCEPT !.stack = "none"].source = state[f].source
        /\ [state[f] EXCEPT !.stack = "none"].operand = state[f].operand
    BY <1>3 DEF FunctionState
  <2>3. \A s \in States : state[s] # None =>
          state'[s].source = state[s].source /\ state'[s].operand = state[s].operand
    BY <1>5, <2>2
  <2>4. held \cup firing \cup Resumed(call) \subseteq held' \cup firing' \cup Resumed(call')
    BY <1>1, <1>6
  <2> QED
    BY <2>1, <2>3, <2>4, SameLinks DEF IInv
<1> QED
  BY <1>1, <1>6, <1>7, Rooted DEF IInv, Shape

LEMMA OverflowStep ==
  ASSUME IInv, NEW c \in Calls, Overflow(c)
  PROVE  IInv'
<1>1. Sane(Over(state, call[c].from), call', loaded, alive)
  BY EndSane DEF Overflow, IInv
<1> QED
  BY <1>1, SettledStep DEF Overflow, IInv, Shape

LEMMA FinishStep ==
  ASSUME IInv, NEW c \in Calls, Finish(c)
  PROVE  IInv'
<1>1. Sane(Over(state, call[c].from), call', loaded, alive)
  BY EndSane DEF Finish, IInv
<1> QED
  BY <1>1, SettledStep DEF Finish, IInv, Shape

LEMMA ReturnStep ==
  ASSUME IInv, NEW c \in Calls, Return(c)
  PROVE  IInv'
<1> DEFINE f == call[c].from
<1>1. /\ state \in [States -> FunctionState \cup {None}]
      /\ call \in [Calls -> Execution \cup {None}]
      /\ call[c] # None
      /\ call[c].pc = "running"
      /\ UNCHANGED <<held, loaded, alive>>
      /\ Sane(state, call, loaded, alive)
      /\ Grounded(state, held, firing, call)
  BY DEF Return, IInv, Shape
<1>2. Executes(state, call, loaded, alive, c)
  BY <1>1, SaneExecutes
<1>3. CASE f = None
  <2>1. call' = [call EXCEPT ![c] = None] /\ UNCHANGED <<state, firing>>
    BY <1>3 DEF Return
  <2>2. Over(state, f) = state
    BY <1>3 DEF Over
  <2>3. Sane(state, call', loaded, alive)
    <3>1. Sane(Over(state, f), [call EXCEPT ![c] = None], loaded, alive)
      BY <1>1, EndSane
    <3> QED
      BY <3>1, <2>1, <2>2
  <2>4. \A s \in States : s \in Resumed(call) => s \in Resumed(call')
    <3> TAKE s \in States
    <3>1. s # None
      BY ConstantsAssumption
    <3>2. \A d \in Calls : call[d] # None /\ call[d].from = s =>
                             call'[d] # None /\ call'[d].from = s
      BY <1>1, <1>3, <2>1, <3>1
    <3> QED
      BY <3>2, ResumedChar
  <2>5. Grounded(state, held, firing, call')
    BY <1>1, <2>4 DEF Grounded, Closed, Root
  <2> QED
    BY <1>1, <2>1, <2>3, <2>5, Rooted DEF IInv, Shape
<1>4. CASE f # None
  <2> DEFINE o == Settled(StackFreed(state, f), held, firing, call)
             slots == Connected(o, state[f].completed)
  <2>1. /\ call' = [call EXCEPT ![c].pc = "completing"]
        /\ firing' = firing \cup slots
        /\ state' = Disconnected(o, slots)
    BY <1>4 DEF Return
  <2>2. Sane(o, call, loaded, alive)
    <3>1. f \in States \cup {None} /\ (f # None => state[f] # None)
      BY <1>2 DEF Executes
    <3>2. Shrunk(StackFreed(state, f), state, call)
      BY <1>1, <3>1, StackFreedShrunk
    <3> QED
      BY <1>1, <3>2, ShrunkSane, SettledSane
  <2>3. Grounded(o, held, firing, call)
    <3>1. StackFreed(state, f) \in [States -> FunctionState \cup {None}]
      <4>1. f \in States \cup {None} /\ (f # None => state[f] # None)
        BY <1>2 DEF Executes
      <4> QED
        BY <1>1, <4>1, StackFreedShrunk DEF Shrunk
    <3> QED
      BY <3>1, SettledGrounded
  <2>4. slots \in SUBSET {s \in States : o[s] # None}
    BY DEF Connected
  <2> HIDE DEF o, slots
  <2>5. o \in [States -> FunctionState \cup {None}]
    BY <2>2 DEF Sane, Typed
  <2>6. Sane(state', call, loaded, alive)
    BY <2>1, <2>2, <2>4, <2>5, DisconnectedShrunk, ShrunkSane
  <2>7. Grounded(state', held, firing', call)
    BY <2>1, <2>3, <2>4, <2>5, DisconnectedGrounded
  <2>8. Moves(call', call, c, "completing")
    BY <1>1, <2>1, PlaceMoves
  <2>9. GoesOn(state', state', call', call, c)
    <3>1. Executes(state', call, loaded, alive, c)
      BY <1>1, <2>6, SaneExecutes
    <3>2. state' \in [States -> FunctionState \cup {None}]
      BY <2>6 DEF Sane, Typed
    <3>3. state'[f].stack = "none"
      BY <3>1, <1>1, <1>4 DEF Executes
    <3> QED
      BY <3>1, <3>2, <3>3, <1>1, <1>4, <2>8 DEF GoesOn, Moves, Executes
  <2>10. Sane(state', call', loaded', alive') /\ Resumed(call') = Resumed(call)
    BY <1>1, <2>6, <2>9, GoesOnSane
  <2>11. Grounded(state', held', firing', call')
    BY <1>1, <2>7, <2>10 DEF Grounded, Closed, Root
  <2>12. firing' \subseteq States
    BY <2>1, <2>4 DEF IInv, Shape
  <2> QED
    BY <1>1, <2>10, <2>11, <2>12, Rooted DEF IInv, Shape
<1> QED
  BY <1>3, <1>4

(* A new object that waits, with a `completed` signal that is no other     *)
(* current one's.                                                          *)
Added(p, o, n, cs, ls, as) ==
  /\ p \in [States -> FunctionState \cup {None}]
  /\ \A s \in States : s # n => p[s] = o[s]
  /\ p[n] # None
  /\ p[n].function = "Live"
  /\ p[n].stack = "saved"
  /\ p[n].script \in ls
  /\ p[n].instance \in as \cup {None}
  /\ p[n].lists = IF p[n].instance = None THEN {"script"} ELSE {"script", "instance"}
  /\ o[n] = None
  /\ \A s \in States : o[s] # None /\ CurrentIn(o, cs, s) => o[s].completed # p[n].completed

LEMMA AddedSane ==
  ASSUME NEW o, NEW p, NEW n \in States, NEW cs, NEW ls, NEW as,
         Sane(o, cs, ls, as), Added(p, o, n, cs, ls, as)
  PROVE  Sane(p, cs, ls, as)
<1>1. Able(p, n)
  BY DEF Added, Able
<1>2. \A s \in States : s # n => p[s] = o[s] /\ (Able(p, s) <=> Able(o, s))
  BY DEF Added, Able
<1>3. Typed(p, cs)
  BY DEF Added, Sane, Typed
<1>4. Listed(p, ls, as)
  <2> SUFFICES ASSUME NEW s \in States, p[s] # None
               PROVE  /\ "script" \in p[s].lists => p[s].script \in ls /\ p[s].function = "Live"
                      /\ "instance" \in p[s].lists => p[s].instance \in as
                      /\ Able(p, s) => p[s].stack = "saved"
    BY DEF Listed
  <2>1. CASE s = n
    <3>1. "instance" \in p[n].lists => p[n].instance \in as
      <4>1. /\ p[n].instance \in as \cup {None}
            /\ p[n].instance = None => p[n].lists = {"script"}
        BY DEF Added
      <4>2. CASE p[n].instance = None
        BY <4>1, <4>2
      <4>3. CASE p[n].instance # None
        BY <4>1, <4>3
      <4> QED
        BY <4>2, <4>3
    <3>2. p[n].script \in ls /\ p[n].function = "Live" /\ p[n].stack = "saved"
      BY DEF Added
    <3> QED
      BY <2>1, <3>1, <3>2
  <2>2. CASE s # n
    BY <2>2, <1>2 DEF Sane, Listed
  <2> QED
    BY <2>1, <2>2
<1>5. Clean(p, cs)
  BY <1>1, <1>2 DEF Sane, Clean
<1>6. Executing(p, cs, ls, as)
  <2>1. ASSUME NEW d \in Calls, cs[d] # None, cs[d].from # None
        PROVE  p[cs[d].from] = o[cs[d].from]
    <3>1. Executes(o, cs, ls, as, d)
      BY <2>1, SaneExecutes
    <3>2. cs[d].from \in States /\ cs[d].from # n
      BY <2>1, <3>1 DEF Executes, Added
    <3> QED
      BY <3>2, <1>2
  <2> QED
    BY <2>1 DEF Sane, Executing
<1>7. Single(p, cs)
  <2>1. n \notin Resumed(cs)
    <3>1. ASSUME NEW d \in Calls, cs[d] # None, cs[d].from = n
          PROVE  FALSE
      <4>1. Executes(o, cs, ls, as, d)
        BY <3>1, SaneExecutes
      <4> QED
        BY <3>1, <4>1, ConstantsAssumption DEF Executes, Added
    <3> QED
      BY <3>1, ResumedChar
  <2> SUFFICES ASSUME NEW s \in States, NEW t \in States, s # t,
                      p[s] # None, p[t] # None, p[s].completed = p[t].completed,
                      CurrentIn(p, cs, s), CurrentIn(p, cs, t)
               PROVE  FALSE
    BY DEF Single
  <2>2. \A r \in States : r # n /\ CurrentIn(p, cs, r) => CurrentIn(o, cs, r)
    BY <1>2 DEF CurrentIn
  <2>3. CASE s = n
    BY <2>3, <2>2, <1>2 DEF Added
  <2>4. CASE t = n
    BY <2>4, <2>2, <1>2 DEF Added
  <2>5. CASE s # n /\ t # n
    BY <2>5, <2>2, <1>2 DEF Sane, Single
  <2> QED
    BY <2>3, <2>4, <2>5
<1> QED
  BY <1>3, <1>4, <1>5, <1>6, <1>7 DEF Sane

LEMMA OverFreed ==
  ASSUME NEW q \in [States -> FunctionState \cup {None}], NEW f \in States,
         q[f] \in FunctionState
  PROVE  /\ Over(StackFreed(q, f), f) \in [States -> FunctionState \cup {None}]
         /\ Over(StackFreed(q, f), f)[f] =
              [[q[f] EXCEPT !.operand = None] EXCEPT !.function = "Null"]
         /\ \A s \in States : s # f => Over(StackFreed(q, f), f)[s] = q[s]
<1> DEFINE r == StackFreed(q, f)
<1>1. r = [q EXCEPT ![f].operand = None]
  BY ConstantsAssumption DEF StackFreed
<1>2. /\ r \in [States -> FunctionState \cup {None}]
      /\ r[f] = [q[f] EXCEPT !.operand = None]
      /\ r[f] \in FunctionState
      /\ \A s \in States : s # f => r[s] = q[s]
  BY <1>1 DEF FunctionState
<1> HIDE DEF r
<1>2a. r \in [States -> FunctionState \cup {None}] /\ r[f] \in FunctionState
  BY <1>2
<1>3. Over(r, f) = [r EXCEPT ![f].function = "Null"]
  BY ConstantsAssumption DEF Over
<1>4. /\ Over(r, f) \in [States -> FunctionState \cup {None}]
      /\ Over(r, f)[f] = [r[f] EXCEPT !.function = "Null"]
      /\ \A s \in States : s # f => Over(r, f)[s] = r[s]
  BY <1>2a, <1>3 DEF FunctionState
<1> QED
  BY <1>2, <1>4 DEF r

(* An await adds a state and is done with the one that was resumed.        *)
LEMMA AwaitAdds ==
  ASSUME IInv, NEW c \in Calls, NEW n \in States, NEW x \in Signals \cup States,
         Await(c, n, x)
  PROVE  LET f == call[c].from
         IN  \E p :
               /\ state' = Settled(p, held', firing', call')
               /\ held' \subseteq States
               /\ Sane(p, call', loaded', alive')
               /\ Able(p, n)
               /\ p[n].completed = Completed(f, n)
               /\ p[n].source = x
               /\ x \in States => p[n].operand = x
               /\ f \in States \cup {None}
               /\ f # n
               /\ f # None => /\ p[f] # None
                              /\ p[f].function = "Null"
                              /\ p[f].completed = state[f].completed
                              /\ p[f].source = state[f].source
               /\ \A s \in States : s \notin {n, f} => p[s] = state[s]
<1> DEFINE f == call[c].from
           new == [function  |-> "Live",
                   script    |-> call[c].script,
                   instance  |-> call[c].instance,
                   completed |-> Completed(f, n),
                   source    |-> x,
                   operand   |-> IF x \in States THEN x ELSE None,
                   stack     |-> "saved",
                   lists     |-> IF call[c].instance = None THEN {"script"}
                                 ELSE {"script", "instance"}]
           o == Over(StackFreed(state, f), f)
           p == Over(StackFreed([state EXCEPT ![n] = new], f), f)
<1>1. /\ state \in [States -> FunctionState \cup {None}]
      /\ call[c] # None
      /\ Sane(state, call, loaded, alive)
      /\ Fresh(n)
      /\ call' = [call EXCEPT ![c] = None]
      /\ state' = Settled(p, held', firing, call')
      /\ UNCHANGED <<firing, loaded, alive>>
      /\ held' \subseteq States
  BY DEF Await, IInv, Shape
<1>2. Executes(state, call, loaded, alive, c)
  BY <1>1, SaneExecutes
<1>3. /\ f \in States \cup {None}
      /\ f # None => state[f] # None /\ state[f] \in FunctionState
      /\ state[n] = None
      /\ f # n
      /\ call[c].script \in loaded /\ call[c].script \in Scripts
      /\ call[c].instance \in alive \cup {None}
      /\ call[c].instance \in Instances \cup {None}
  BY <1>1, <1>2, ConstantsAssumption DEF Executes, Fresh, Execution
<1>4. Completed(f, n) \in States
  BY <1>3 DEF Completed, FunctionState
<1>5. new \in FunctionState
  BY <1>3, <1>4 DEF FunctionState
<1>6. /\ new.function = "Live"
      /\ new.script = call[c].script
      /\ new.instance = call[c].instance
      /\ new.completed = Completed(f, n)
      /\ new.stack = "saved"
      /\ new.lists = IF new.instance = None THEN {"script"} ELSE {"script", "instance"}
      /\ new.source = x
      /\ x \in States => new.operand = x
  OBVIOUS
<1> HIDE DEF new
<1>7. Sane(o, call', loaded, alive)
  <2>1. Shrunk(StackFreed(state, f), state, call)
    BY <1>1, <1>3, StackFreedShrunk
  <2>2. Sane(StackFreed(state, f), call, loaded, alive)
    BY <1>1, <2>1, ShrunkSane
  <2>3. Sane(o, [call EXCEPT ![c] = None], loaded, alive)
    BY <1>1, <2>2, EndSane
  <2> QED
    BY <1>1, <2>3
<1>8. /\ p \in [States -> FunctionState \cup {None}]
      /\ p[n] = new
      /\ \A s \in States : s # n => p[s] = o[s]
      /\ \A s \in States : s # f => o[s] = state[s]
      /\ f # None => /\ o[f] # None
                     /\ o[f].function = "Null"
                     /\ o[f].completed = state[f].completed
                     /\ o[f].source = state[f].source
  <2>1. CASE f = None
    <3>1. p = [state EXCEPT ![n] = new] /\ o = state
      BY <2>1 DEF Over, StackFreed
    <3> HIDE DEF p, o
    <3> QED
      BY <2>1, <3>1, <1>1, <1>5
  <2>2. CASE f # None
    <3> DEFINE q == [state EXCEPT ![n] = new]
    <3>1. q \in [States -> FunctionState \cup {None}] /\ q[n] = new /\ q[f] = state[f]
          /\ \A s \in States : s # n => q[s] = state[s]
      BY <1>1, <1>3, <1>5, <2>2
    <3> HIDE DEF q
    <3> DEFINE g == [[state[f] EXCEPT !.operand = None] EXCEPT !.function = "Null"]
    <3>2. /\ g \in FunctionState /\ g.function = "Null"
          /\ g.completed = state[f].completed /\ g.source = state[f].source
      BY <1>3, <2>2 DEF FunctionState
    <3>3. /\ p \in [States -> FunctionState \cup {None}]
          /\ p[f] = g
          /\ \A s \in States : s # f => p[s] = q[s]
      BY <2>2, <3>1, <1>3, OverFreed DEF q
    <3>4. /\ o[f] = g
          /\ \A s \in States : s # f => o[s] = state[s]
      BY <2>2, <1>1, <1>3, OverFreed
    <3> HIDE DEF g, p, o
    <3> QED
      BY <1>3, <2>2, <3>1, <3>2, <3>3, <3>4, NoneAssumption
  <2> QED
    BY <2>1, <2>2
<1> HIDE DEF o, p
<1>9. \A s \in States : o[s] # None /\ CurrentIn(o, call', s) => o[s].completed # new.completed
  <2> SUFFICES ASSUME NEW s \in States, o[s] # None, CurrentIn(o, call', s),
                      o[s].completed = new.completed
               PROVE  FALSE
    OBVIOUS
  <2>1. CASE f = None
    <3>1. o[s] = state[s] /\ new.completed = n
      BY <2>1, <1>6, <1>8, ConstantsAssumption DEF Completed
    <3> QED
      BY <3>1, <1>1 DEF Fresh, Objects
  <2>2. CASE f # None
    <3>1. new.completed = state[f].completed
      BY <2>2, <1>6 DEF Completed
    <3>2. \A d \in Calls : call'[d] # None => d # c /\ call'[d] = call[d]
      BY <1>1 DEF IInv, Shape
    <3>3. \A d \in Calls : call[d] # None /\ call[d].from = f => d = c
      BY <2>2, <1>2 DEF Executes
    <3>4. f \notin Resumed(call')
      BY <2>2, <1>3, <3>2, <3>3, ResumedChar
    <3>5. ~Able(o, f)
      BY <2>2, <1>8 DEF Able
    <3>6. s # f
      BY <3>4, <3>5 DEF CurrentIn
    <3>7. o[s] = state[s]
      BY <3>6, <1>8
    <3>8. s \in Resumed(call') => s \in Resumed(call)
      BY <3>2, ResumedChar
    <3>9. CurrentIn(state, call, s)
      BY <3>7, <3>8 DEF CurrentIn, Able
    <3>10. CurrentIn(state, call, f)
      BY <2>2, <1>2 DEF Executes, CurrentIn
    <3> QED
      BY <3>1, <3>6, <3>7, <3>9, <3>10, <1>1, <1>3, <2>2 DEF Sane, Single
  <2> QED
    BY <2>1, <2>2
<1>10. Added(p, o, n, call', loaded, alive)
  <2>1. o[n] = None
    BY <1>3, <1>8
  <2>2. new # None
    BY <1>5, NoneAssumption
  <2> QED
    BY <2>1, <2>2, <1>3, <1>6, <1>8, <1>9 DEF Added
<1>11. Sane(p, call', loaded, alive)
  BY <1>7, <1>10, AddedSane
<1>12. /\ Sane(p, call', loaded', alive')
       /\ f # None => /\ p[f] # None
                      /\ p[f].function = "Null"
                      /\ p[f].completed = state[f].completed
                      /\ p[f].source = state[f].source
       /\ \A s \in States : s \notin {n, f} => p[s] = state[s]
  BY <1>1, <1>3, <1>8, <1>11
<1>13. Able(p, n)
  BY <1>5, <1>6, <1>8, NoneAssumption DEF Able
<1> QED
  BY <1>1, <1>3, <1>6, <1>8, <1>12, <1>13

LEMMA AwaitStep ==
  ASSUME IInv, NEW c \in Calls, NEW n \in States, NEW x \in Signals \cup States,
         Await(c, n, x)
  PROVE  IInv'
<1>1. PICK p : /\ state' = Settled(p, held', firing', call')
               /\ Sane(p, call', loaded', alive')
               /\ held' \subseteq States
  BY AwaitAdds
<1>2. UNCHANGED <<firing, loaded, alive>>
  BY DEF Await
<1> QED
  BY <1>1, <1>2, SettledStep DEF IInv, Shape

(* Cancelling the states of a list, and the end of a script or an          *)
(* instance.                                                               *)
LEMMA CancelledFields ==
  ASSUME NEW o \in [States -> FunctionState \cup {None}], NEW list,
         NEW S \in SUBSET {s \in States : o[s] # None}
  PROVE  LET p == Cancelled(o, list, S)
         IN  /\ p \in [States -> FunctionState \cup {None}]
             /\ \A s \in States \ S : p[s] = o[s]
             /\ \A s \in S : /\ p[s] # None
                             /\ p[s].function = o[s].function
                             /\ p[s].script = o[s].script
                             /\ p[s].instance = o[s].instance
                             /\ p[s].completed = o[s].completed
                             /\ p[s].lists = o[s].lists \ {list}
                             /\ p[s].source = None
                             /\ o[s].stack = "saved" => p[s].operand = None
                             /\ o[s].stack # "saved" => p[s].operand = o[s].operand
<1> DEFINE p == Cancelled(o, list, S)
           g(s) == [o[s] EXCEPT !.lists = @ \ {list}, !.source = None, !.stack = "none",
                                !.operand = IF o[s].stack = "saved" THEN None ELSE @]
<1>1. \A s \in States : p[s] = IF s \in S THEN g(s) ELSE o[s]
  BY DEF Cancelled
<1>2. ASSUME NEW s \in S
      PROVE  /\ g(s) \in FunctionState
             /\ g(s).function = o[s].function
             /\ g(s).script = o[s].script
             /\ g(s).instance = o[s].instance
             /\ g(s).completed = o[s].completed
             /\ g(s).lists = o[s].lists \ {list}
             /\ g(s).source = None
             /\ g(s).operand = IF o[s].stack = "saved" THEN None ELSE o[s].operand
  <2>1. o[s] \in FunctionState
    OBVIOUS
  <2> QED
    BY <2>1 DEF FunctionState
<1> HIDE DEF g
<1>3. \A s \in States : p[s] \in FunctionState \cup {None}
  BY <1>1, <1>2
<1>4. p \in [States -> FunctionState \cup {None}]
  BY <1>3 DEF Cancelled
<1> QED
  BY <1>1, <1>2, <1>4, NoneAssumption

LEMMA CancelledSane ==
  ASSUME NEW o, NEW cs, NEW ls, NEW as, NEW list \in {"script", "instance"}, NEW S,
         Sane(o, cs, ls, as),
         S \subseteq {s \in States : o[s] # None /\ list \in o[s].lists},
         list = "instance" => \A s \in S : o[s].instance # None
  PROVE  Sane(Cancelled(o, list, S), cs, ls, as)
<1> DEFINE p == Cancelled(o, list, S)
<1>1. /\ p \in [States -> FunctionState \cup {None}]
      /\ \A s \in States \ S : p[s] = o[s]
      /\ \A s \in S : /\ p[s] # None
                      /\ p[s].function = o[s].function
                      /\ p[s].script = o[s].script
                      /\ p[s].instance = o[s].instance
                      /\ p[s].completed = o[s].completed
                      /\ p[s].lists = o[s].lists \ {list}
                      /\ p[s].source = None
                      /\ o[s].stack = "saved" => p[s].operand = None
                      /\ o[s].stack # "saved" => p[s].operand = o[s].operand
  BY CancelledFields DEF Sane, Typed
<1>2. \A s \in S : s \in States /\ o[s] # None /\ list \in o[s].lists
  OBVIOUS
<1> HIDE DEF p
<1>3. \A s \in S : ~Able(p, s)
  BY <1>1, <1>2 DEF Able
<1>4. \A s \in States \ S : Able(p, s) <=> Able(o, s)
  BY <1>1 DEF Able
<1>5. Listed(p, ls, as)
  <2> SUFFICES ASSUME NEW s \in States, p[s] # None
               PROVE  /\ "script" \in p[s].lists => p[s].script \in ls /\ p[s].function = "Live"
                      /\ "instance" \in p[s].lists => p[s].instance \in as
                      /\ Able(p, s) => p[s].stack = "saved"
    BY DEF Listed
  <2>0. o[s] # None =>
          /\ "script" \in o[s].lists => o[s].script \in ls /\ o[s].function = "Live"
          /\ "instance" \in o[s].lists => o[s].instance \in as
          /\ Able(o, s) => o[s].stack = "saved"
    BY DEF Sane, Listed
  <2>1. CASE s \in S
    <3>1. p[s].lists \subseteq o[s].lists
      BY <2>1, <1>1
    <3> QED
      BY <2>0, <2>1, <3>1, <1>1, <1>2, <1>3
  <2>2. CASE s \notin S
    BY <2>0, <2>2, <1>1, <1>4
  <2> QED
    BY <2>1, <2>2
<1>6. Clean(p, cs)
  <2> SUFFICES ASSUME NEW s \in States, p[s] # None, p[s].function # "Null",
                      ~Able(p, s), s \notin Resumed(cs)
               PROVE  p[s].source = None /\ p[s].operand = None
    BY DEF Clean
  <2>1. CASE s \notin S
    BY <2>1, <1>1, <1>4 DEF Sane, Clean
  <2>2. CASE s \in S /\ Able(o, s)
    <3>1. o[s].stack = "saved"
      BY <2>2, <1>2 DEF Sane, Listed
    <3> QED
      BY <2>2, <3>1, <1>1
  <2>3. CASE s \in S /\ ~Able(o, s)
    <3>1. o[s].operand = None
      BY <2>3, <1>1, <1>2 DEF Sane, Clean
    <3> QED
      BY <2>3, <3>1, <1>1
  <2> QED
    BY <2>1, <2>2, <2>3
<1>7. Executing(p, cs, ls, as)
  <2>1. ASSUME NEW d \in Calls, cs[d] # None, cs[d].from # None
        PROVE  p[cs[d].from] = o[cs[d].from]
    <3>1. Executes(o, cs, ls, as, d)
      BY <2>1, SaneExecutes
    <3>2. cs[d].from \in States /\ cs[d].from \notin S
      BY <2>1, <3>1, <1>2 DEF Executes
    <3> QED
      BY <3>2, <1>1
  <2> QED
    BY <2>1 DEF Sane, Executing
<1>8. Single(p, cs)
  <2>1. \A s \in States : CurrentIn(p, cs, s) => CurrentIn(o, cs, s)
    BY <1>3, <1>4 DEF CurrentIn
  <2>2. \A s \in States : p[s] # None => o[s] # None /\ p[s].completed = o[s].completed
    BY <1>1, <1>2
  <2> QED
    BY <2>1, <2>2 DEF Sane, Single
<1>9. Sane(p, cs, ls, as)
  BY <1>1, <1>5, <1>6, <1>7, <1>8 DEF Sane, Typed
<1> QED
  BY <1>9 DEF p

LEMMA FunctionsDeletedSane ==
  ASSUME NEW o, NEW cs, NEW ls, NEW as, NEW x, Sane(o, cs, ls, as),
         \A s \in States : o[s] # None /\ o[s].script = x => "script" \notin o[s].lists
  PROVE  /\ Sane(FunctionsDeleted(o, x), cs, ls, as)
         /\ \A s \in States : FunctionsDeleted(o, x)[s] # None =>
              /\ o[s] # None
              /\ FunctionsDeleted(o, x)[s].lists = o[s].lists
              /\ FunctionsDeleted(o, x)[s].script = o[s].script
              /\ FunctionsDeleted(o, x)[s].instance = o[s].instance
<1> DEFINE p == FunctionsDeleted(o, x)
           D(s) == o[s] # None /\ o[s].script = x /\ o[s].function = "Live"
<1>0. o \in [States -> FunctionState \cup {None}]
  BY DEF Sane, Typed
<1>1. \A s \in States : p[s] = IF D(s) THEN [o[s] EXCEPT !.function = "Deleted"] ELSE o[s]
  BY DEF FunctionsDeleted
<1>2. ASSUME NEW s \in States, D(s)
      PROVE  /\ p[s] \in FunctionState
             /\ p[s].function = "Deleted"
             /\ p[s].script = o[s].script
             /\ p[s].instance = o[s].instance
             /\ p[s].completed = o[s].completed
             /\ p[s].source = o[s].source
             /\ p[s].operand = o[s].operand
             /\ p[s].stack = o[s].stack
             /\ p[s].lists = o[s].lists
  <2>1. o[s] \in FunctionState /\ p[s] = [o[s] EXCEPT !.function = "Deleted"]
    BY <1>0, <1>1, <1>2
  <2> QED
    BY <2>1 DEF FunctionState
<1>3. \A s \in States : ~D(s) => p[s] = o[s]
  BY <1>1
<1>4. p \in [States -> FunctionState \cup {None}]
  <2>1. \A s \in States : p[s] \in FunctionState \cup {None}
    BY <1>0, <1>2, <1>3
  <2> QED
    BY <2>1 DEF FunctionsDeleted
<1> HIDE DEF p
<1>5. \A s \in States : D(s) => o[s] # None /\ o[s].function = "Live" /\ "script" \notin o[s].lists
                                /\ ~Able(p, s) /\ ~Able(o, s)
  BY <1>2 DEF Able
<1>6. \A s \in States : /\ p[s] # None <=> o[s] # None
                        /\ Able(p, s) <=> Able(o, s)
                        /\ p[s].script = o[s].script
                        /\ p[s].instance = o[s].instance
                        /\ p[s].completed = o[s].completed
                        /\ p[s].source = o[s].source
                        /\ p[s].operand = o[s].operand
                        /\ p[s].stack = o[s].stack
                        /\ p[s].lists = o[s].lists
  <2> TAKE s \in States
  <2>1. CASE D(s)
    BY <2>1, <1>2, <1>5, NoneAssumption
  <2>2. CASE ~D(s)
    BY <2>2, <1>3 DEF Able
  <2> HIDE DEF D
  <2> QED
    BY <2>1, <2>2
<1>7. \A s \in States : /\ p[s].function = "Null" => o[s].function = "Null"
                        /\ "script" \in p[s].lists => p[s].function = o[s].function
  BY <1>2, <1>3, <1>5, <1>6
<1>8. \A s \in States : o[s].function = "Null" => p[s].function = "Null"
  BY <1>3
<1> HIDE DEF D
<1>9. Listed(p, ls, as)
  BY <1>6, <1>7 DEF Sane, Listed
<1>10. Clean(p, cs)
  BY <1>6, <1>8 DEF Sane, Clean
<1>11. Executing(p, cs, ls, as)
  <2>1. ASSUME NEW d \in Calls, cs[d] # None, cs[d].from # None
        PROVE  /\ p[cs[d].from] # None
               /\ p[cs[d].from].stack = o[cs[d].from].stack
               /\ p[cs[d].from].lists = o[cs[d].from].lists
    <3>1. Executes(o, cs, ls, as, d)
      BY <2>1, SaneExecutes
    <3> QED
      BY <2>1, <3>1, <1>6 DEF Executes
  <2> QED
    BY <2>1 DEF Sane, Executing
<1>12. Single(p, cs)
  BY <1>6 DEF Sane, Single, CurrentIn
<1>13. Sane(p, cs, ls, as)
  BY <1>4, <1>9, <1>10, <1>11, <1>12 DEF Sane, Typed
<1> QED
  BY <1>6, <1>13 DEF p

LEMMA FreeInstanceStep ==
  ASSUME IInv, NEW i \in Instances, FreeInstance(i)
  PROVE  IInv'
<1> DEFINE S == {s \in Objects : state[s].instance = i /\ "instance" \in state[s].lists}
           p == Cancelled(state, "instance", S)
<1>1. /\ alive' = alive \ {i}
      /\ state' = Settled(p, held, firing, call)
      /\ UNCHANGED <<firing, held, call, loaded>>
      /\ \A c \in Calls : call[c] # None => call[c].instance # i
      /\ state \in [States -> FunctionState \cup {None}]
  BY DEF FreeInstance, Busy, IInv, Shape
<1>2. i # None
  BY ConstantsAssumption
<1>3. S \in SUBSET {s \in States : state[s] # None}
  BY DEF Objects
<1>4. Sane(p, call, loaded, alive)
  <2>1. S \subseteq {s \in States : state[s] # None /\ "instance" \in state[s].lists}
    BY DEF Objects
  <2>2. \A s \in S : state[s].instance # None
    BY <1>2
  <2> HIDE DEF S
  <2> QED
    BY <2>1, <2>2, CancelledSane DEF IInv
<1>5. \A s \in States : "instance" \in p[s].lists /\ p[s] # None => p[s].instance # i
  <2> TAKE s \in States
  <2>1. CASE s \in S
    BY <2>1, <1>1, <1>3, CancelledFields
  <2>2. CASE s \notin S
    <3>1. p[s] = state[s]
      BY <2>2, <1>1, <1>3, CancelledFields
    <3> QED
      BY <2>2, <3>1 DEF Objects
  <2> QED
    BY <2>1, <2>2
<1> HIDE DEF p, S
<1>6. Listed(p, loaded, alive')
  BY <1>1, <1>4, <1>5 DEF Sane, Listed
<1>7. Executing(p, call, loaded, alive')
  BY <1>1, <1>2, <1>4 DEF Sane, Executing
<1>8. Sane(p, call, loaded, alive')
  BY <1>4, <1>6, <1>7 DEF Sane
<1> QED
  BY <1>1, <1>8, SettledStep DEF IInv, Shape

LEMMA ScriptClearedStep ==
  ASSUME IInv, NEW x \in Scripts, ScriptCleared(x),
         \A c \in Calls : call[c] # None => call[c].script # x,
         loaded' \subseteq loaded, loaded \ {x} \subseteq loaded',
         UNCHANGED <<firing, held, call, alive>>
  PROVE  IInv'
<1> DEFINE S == {s \in Objects : state[s].script = x /\ "script" \in state[s].lists}
           o == Cancelled(state, "script", S)
           p == FunctionsDeleted(o, x)
<1>1. /\ state' = Settled(p, held, firing, call)
      /\ state \in [States -> FunctionState \cup {None}]
  BY DEF ScriptCleared, IInv, Shape
<1>2. S \in SUBSET {s \in States : state[s] # None}
  BY DEF Objects
<1>3. Sane(o, call, loaded, alive)
  <2>1. S \subseteq {s \in States : state[s] # None /\ "script" \in state[s].lists}
    BY DEF Objects
  <2> HIDE DEF S
  <2> QED
    BY <2>1, CancelledSane DEF IInv
<1>4. \A s \in States : o[s] # None /\ o[s].script = x => "script" \notin o[s].lists
  <2> TAKE s \in States
  <2>1. CASE s \in S
    BY <2>1, <1>1, <1>2, CancelledFields
  <2>2. CASE s \notin S
    <3>1. o[s] = state[s]
      BY <2>2, <1>1, <1>2, CancelledFields
    <3> QED
      BY <2>2, <3>1 DEF Objects
  <2> QED
    BY <2>1, <2>2
<1> HIDE DEF o, S
<1>5. /\ Sane(p, call, loaded, alive)
      /\ \A s \in States : p[s] # None =>
           o[s] # None /\ p[s].lists = o[s].lists /\ p[s].script = o[s].script
  BY <1>3, <1>4, FunctionsDeletedSane
<1> HIDE DEF p
<1>6. Listed(p, loaded', alive)
  <2>1. \A s \in States : p[s] # None /\ "script" \in p[s].lists => p[s].script # x
    BY <1>4, <1>5
  <2> QED
    BY <2>1, <1>5 DEF Sane, Listed
<1>7. Executing(p, call, loaded', alive)
  BY <1>5 DEF Sane, Executing
<1>8. Sane(p, call, loaded', alive)
  BY <1>5, <1>6, <1>7 DEF Sane
<1> QED
  BY <1>1, <1>8, SettledStep DEF IInv, Shape

LEMMA ReloadStep ==
  ASSUME IInv, NEW x \in Scripts, Reload(x)
  PROVE  IInv'
BY ScriptClearedStep DEF Reload, Busy

LEMMA UnloadStep ==
  ASSUME IInv, NEW x \in Scripts, Unload(x)
  PROVE  IInv'
BY ScriptClearedStep DEF Unload, Busy

LEMMA InvStep == IInv /\ [Next]_vars => IInv'
<1> SUFFICES ASSUME IInv, [Next]_vars PROVE IInv'
  OBVIOUS
<1>1. ASSUME NEW c \in Calls, Execute(c) PROVE IInv'
  <2>1. CASE \E x \in Scripts, i \in Instances \cup {None} : Invoke(c, x, i)
    BY <2>1, InvokeStep
  <2>2. CASE \E n \in States, x \in Signals \cup States : Await(c, n, x)
    BY <2>2, AwaitStep
  <2>3. CASE \E s \in States : Callback(c, s) \/ ResumeByHand(c, s)
    BY <2>3, CallbackStep, ResumeByHandStep
  <2>4. CASE Enter(c)
    BY <2>4, EnterStep
  <2>5. CASE Overflow(c)
    BY <2>5, OverflowStep
  <2>6. CASE Return(c)
    BY <2>6, ReturnStep
  <2>7. CASE Finish(c)
    BY <2>7, FinishStep
  <2> QED
    BY <1>1, <2>1, <2>2, <2>3, <2>4, <2>5, <2>6, <2>7 DEF Execute
<1>2. ASSUME Environment PROVE IInv'
  <2>1. CASE \E x \in Signals : Emit(x) \/ FreeEmitter(x)
    BY <2>1, EmitStep, FreeEmitterStep
  <2>2. CASE \E s \in States : Refuse(s) \/ Drop(s)
    BY <2>2, RefuseStep, DropStep
  <2>3. CASE \E i \in Instances : FreeInstance(i) \/ Instantiate(i)
    BY <2>3, FreeInstanceStep, InstantiateStep
  <2>4. CASE \E x \in Scripts : Reload(x) \/ Unload(x) \/ Load(x)
    BY <2>4, ReloadStep, UnloadStep, LoadStep
  <2> QED
    BY <1>2, <2>1, <2>2, <2>3, <2>4 DEF Environment
<1>3. ASSUME UNCHANGED vars PROVE IInv'
  BY <1>3 DEF vars, IInv, Shape, Sane, Typed, Listed, Clean, Executing, Single,
     CurrentIn, Able, Resumed, Busy, Grounded, Closed, Root, Refers
<1> QED
  BY <1>1, <1>2, <1>3 DEF Next

(* The invariant holds of every behaviour of suspended executions.         *)
THEOREM Invariance == Spec => []IInv
BY InvInit, InvStep, PTL DEF Spec

-----------------------------------------------------------------------------
(* What resume() tests.                                                    *)
LEMMA AbleNow == \A s \in States : Resumable(s) <=> Able(state, s)
BY DEF Resumable, Able

(* What has cut an execution short is remembered.                          *)
LEMMA DisruptedStep ==
  ASSUME disrupted \in BOOLEAN, [Next]_vars
  PROVE  disrupted' \in BOOLEAN
<1>1. ASSUME NEW c \in Calls, Execute(c) PROVE disrupted' \in BOOLEAN
  <2>1. ASSUME NEW x \in Scripts, NEW i \in Instances \cup {None}, Invoke(c, x, i)
        PROVE  disrupted' \in BOOLEAN
    BY <2>1 DEF Invoke
  <2>2. ASSUME NEW n \in States, NEW x \in Signals \cup States, Await(c, n, x)
        PROVE  disrupted' \in BOOLEAN
    BY <2>2 DEF Await
  <2>3. ASSUME NEW s \in States, Callback(c, s) \/ ResumeByHand(c, s)
        PROVE  disrupted' \in BOOLEAN
    BY <2>3 DEF Callback, ResumeByHand
  <2>4. CASE Enter(c) \/ Overflow(c) \/ Return(c) \/ Finish(c)
    BY <2>4 DEF Enter, Overflow, Return, Finish
  <2> QED
    BY <1>1, <2>1, <2>2, <2>3, <2>4 DEF Execute
<1>2. ASSUME Environment PROVE disrupted' \in BOOLEAN
  BY <1>2 DEF Environment, Emit, FreeEmitter, Refuse, Drop, FreeInstance, Instantiate,
     Reload, Unload, Load, ScriptCleared
<1>3. CASE UNCHANGED vars
  BY <1>3 DEF vars
<1> QED
  BY <1>1, <1>2, <1>3 DEF Next

(* Every state object and every execution keeps its type.                  *)
THEOREM TypeCorrect == Spec => []TypeOK
<1>1. Init => disrupted \in BOOLEAN
  BY DEF Init
<1>2. disrupted \in BOOLEAN /\ [Next]_vars => (disrupted \in BOOLEAN)'
  BY DisruptedStep
<1>3. Spec => [](disrupted \in BOOLEAN)
  BY <1>1, <1>2, PTL DEF Spec
<1>4. IInv /\ disrupted \in BOOLEAN => TypeOK
  BY DEF IInv, Shape, TypeOK
<1> QED
  BY <1>3, <1>4, Invariance, PTL

(* A state that passes the test of resume() has its function, its stack,   *)
(* its script and its instance, whatever was reloaded, unloaded or freed   *)
(* since it was suspended.                                                 *)
THEOREM IntactSafe == Spec => []Intact
<1>1. IInv => Intact
  <2> SUFFICES ASSUME IInv, NEW s \in States, Able(state, s)
               PROVE  /\ state[s].function = "Live"
                      /\ state[s].stack = "saved"
                      /\ state[s].script \in loaded
                      /\ state[s].instance \in alive \cup {None}
    BY AbleNow DEF Intact
  <2> QED
    BY DEF IInv, Sane, Listed, Able
<1> QED
  BY <1>1, Invariance, PTL

(* The stack of a state has one owner: the state, until call() takes it    *)
(* over, then that one execution.                                          *)
THEOREM StackOwnedSafe == Spec => []StackOwned
<1>1. IInv => StackOwned
  <2> SUFFICES ASSUME IInv, NEW c \in Calls, call[c] # None, call[c].from # None
               PROVE  /\ ~Resumable(call[c].from)
                      /\ state[call[c].from].stack =
                           IF call[c].pc = "claimed" THEN "saved" ELSE "none"
                      /\ \A d \in Calls : call[d] # None /\ call[d].from = call[c].from => d = c
    BY DEF StackOwned, Busy
  <2>1. Executes(state, call, loaded, alive, c)
    BY SaneExecutes DEF IInv
  <2> QED
    BY <2>1, AbleNow DEF Executes
<1> QED
  BY <1>1, Invariance, PTL

(* Of the states that stand for the same awaited call at most one is       *)
(* suspended or being resumed.                                             *)
THEOREM OneCurrentSafe == Spec => []OneCurrent
<1>1. IInv => OneCurrent
  <2> SUFFICES ASSUME IInv
               PROVE  OneCurrent
    OBVIOUS
  <2>1. \A s \in States : Current(s) <=> CurrentIn(state, call, s)
    BY AbleNow DEF Current, CurrentIn
  <2> QED
    BY <2>1 DEF OneCurrent, Objects, IInv, Sane, Single
<1> QED
  BY <1>1, Invariance, PTL

(* No state object outlives the scripts, the calls and the variables, but  *)
(* for those that were resumed and are still connected.                    *)
THEOREM NoLeakSafe == Spec => []NoLeak
<1>1. IInv => NoLeak
  <2> SUFFICES ASSUME IInv, loaded = {}, held = {}, firing = {}, Busy(call) = {},
                      \A s \in Objects : state[s].function # "Null",
                      NEW s \in Objects
               PROVE  FALSE
    BY DEF NoLeak
  <2>1. Resumed(call) = {}
    BY DEF Resumed
  <2>2. \A t \in Objects : ~Able(state, t)
    BY DEF IInv, Sane, Listed, Able, Objects
  <2>3. \A t \in Objects : state[t].source = None /\ state[t].operand = None
    BY <2>1, <2>2 DEF IInv, Sane, Clean, Objects
  <2>4. Root(state, held, firing, call, s) \/ \E r \in Objects : Refers(state, r, s)
    BY DEF IInv, Grounded, Closed, Objects
  <2>5. None \notin Signals \cup States
    BY ConstantsAssumption
  <2> QED
    BY <2>1, <2>3, <2>4, <2>5 DEF Root, Refers, Objects
<1> QED
  BY <1>1, Invariance, PTL

-----------------------------------------------------------------------------
(* Every state is an AwaitPoint.  What a step makes of the objects: one    *)
(* that is there before and after belongs to the same owner, and is in no  *)
(* list that it was not in.                                                *)
Follows(p, o) ==
  /\ p \in [States -> FunctionState \cup {None}]
  /\ \A s \in States : (p[s] # None /\ o[s] # None) =>
       /\ p[s].script = o[s].script
       /\ p[s].instance = o[s].instance
       /\ p[s].lists \subseteq o[s].lists

(* Executions begin with states that could be resumed.                     *)
Begins(ds, cs, o) == \A s \in Resumed(ds) \ Resumed(cs) : Able(o, s)

LEMMA ShrunkFollows ==
  ASSUME NEW o, NEW p, NEW q, NEW cs, Follows(p, o), Shrunk(q, p, cs)
  PROVE  Follows(q, o)
BY DEF Follows, Shrunk

LEMMA SettledFollows ==
  ASSUME NEW o, NEW p, NEW hs, NEW fs, NEW cs, Follows(p, o)
  PROVE  Follows(Settled(p, hs, fs, cs), o)
<1> DEFINE q == Settled(p, hs, fs, cs)
<1>1. p \in [States -> FunctionState \cup {None}]
  BY DEF Follows
<1>2. q \in [States -> FunctionState \cup {None}]
  BY <1>1, SettledType
<1>3. \A s \in States : q[s] # None =>
        /\ p[s] # None
        /\ q[s].script = p[s].script
        /\ q[s].instance = p[s].instance
        /\ q[s].lists = p[s].lists
  BY <1>1, SettledFields
<1> HIDE DEF q
<1>4. Follows(q, o)
  BY <1>2, <1>3 DEF Follows
<1> QED
  BY <1>4 DEF q

LEMMA OverFollows ==
  ASSUME NEW o \in [States -> FunctionState \cup {None}], NEW f \in States \cup {None},
         f # None => o[f] # None
  PROVE  Follows(Over(o, f), o)
<1>1. CASE f = None
  BY <1>1 DEF Over, Follows
<1>2. CASE f # None
  <2> DEFINE p == Over(o, f)
  <2>1. f \in States /\ o[f] \in FunctionState
    BY <1>2
  <2>2. p = [o EXCEPT ![f].function = "Null"]
    BY <1>2 DEF Over
  <2>3. /\ p[f] \in FunctionState
        /\ p[f].script = o[f].script
        /\ p[f].instance = o[f].instance
        /\ p[f].lists = o[f].lists
    BY <2>1, <2>2 DEF FunctionState
  <2>4. \A s \in States : s # f => p[s] = o[s]
    BY <2>1, <2>2
  <2>5. p \in [States -> FunctionState \cup {None}]
    BY <2>1, <2>2, <2>3, <2>4
  <2> HIDE DEF p
  <2>6. Follows(p, o)
    BY <2>3, <2>4, <2>5 DEF Follows
  <2> QED
    BY <2>6 DEF p
<1> QED
  BY <1>1, <1>2

LEMMA EndBegins ==
  ASSUME NEW cs \in [Calls -> Execution \cup {None}], NEW c \in Calls, NEW o
  PROVE  Begins([cs EXCEPT ![c] = None], cs, o)
<1> DEFINE ds == [cs EXCEPT ![c] = None]
<1>1. \A d \in Calls : ds[d] # None => cs[d] # None /\ ds[d] = cs[d]
  OBVIOUS
<1>2. Resumed(ds) \subseteq Resumed(cs)
  BY <1>1 DEF Resumed, Busy
<1> QED
  BY <1>2 DEF Begins

LEMMA EndFollows ==
  ASSUME NEW o \in [States -> FunctionState \cup {None}], NEW f \in States \cup {None},
         f # None => o[f] # None
  PROVE  Follows(Over(StackFreed(o, f), f), o)
<1>1. CASE f = None
  BY <1>1 DEF Over, StackFreed, Follows
<1>2. CASE f # None
  <2> DEFINE p == Over(StackFreed(o, f), f)
             g == [[o[f] EXCEPT !.operand = None] EXCEPT !.function = "Null"]
  <2>1. f \in States /\ o[f] \in FunctionState
    BY <1>2
  <2>2. /\ p \in [States -> FunctionState \cup {None}]
        /\ p[f] = g
        /\ \A s \in States : s # f => p[s] = o[s]
    BY <2>1, OverFreed
  <2>3. g.script = o[f].script /\ g.instance = o[f].instance /\ g.lists = o[f].lists
    BY <2>1 DEF FunctionState
  <2> HIDE DEF p, g
  <2>4. Follows(p, o)
    BY <2>2, <2>3 DEF Follows
  <2> QED
    BY <2>4 DEF p
<1> QED
  BY <1>1, <1>2

LEMMA AwaitFollows ==
  ASSUME IInv, NEW c \in Calls, NEW n \in States, NEW x \in Signals \cup States,
         Await(c, n, x)
  PROVE  Follows(state', state) /\ Begins(call', call, state)
<1> DEFINE f == call[c].from
<1>1. PICK new :
        state' = Settled(Over(StackFreed([state EXCEPT ![n] = new], f), f),
                         held', firing, call')
        /\ new \in FunctionState
  <2> DEFINE e == [function  |-> "Live",
                   script    |-> call[c].script,
                   instance  |-> call[c].instance,
                   completed |-> Completed(f, n),
                   source    |-> x,
                   operand   |-> IF x \in States THEN x ELSE None,
                   stack     |-> "saved",
                   lists     |-> IF call[c].instance = None THEN {"script"}
                                 ELSE {"script", "instance"}]
  <2>1. call[c] # None /\ call[c] \in Execution
    BY DEF Await, IInv, Shape
  <2>2. Executes(state, call, loaded, alive, c)
    BY <2>1, SaneExecutes DEF IInv
  <2>3. Completed(f, n) \in States
    BY <2>2 DEF Executes, Completed, FunctionState
  <2>4. e \in FunctionState
    BY <2>1, <2>3 DEF FunctionState, Execution
  <2>5. state' = Settled(Over(StackFreed([state EXCEPT ![n] = e], f), f),
                         held', firing, call')
    BY DEF Await
  <2> QED
    BY <2>4, <2>5
<1>2. /\ call[c] # None
      /\ call' = [call EXCEPT ![c] = None]
      /\ state[n] = None
      /\ state \in [States -> FunctionState \cup {None}]
      /\ call \in [Calls -> Execution \cup {None}]
  BY DEF Await, Fresh, IInv, Shape
<1>3. f \in States \cup {None} /\ (f # None => state[f] # None)
  <2>1. Executes(state, call, loaded, alive, c)
    BY <1>2, SaneExecutes DEF IInv
  <2> QED
    BY <2>1 DEF Executes
<1> DEFINE q == [state EXCEPT ![n] = new]
<1>4. /\ q \in [States -> FunctionState \cup {None}]
      /\ \A s \in States : s # n => q[s] = state[s]
      /\ f # n
  BY <1>1, <1>2, <1>3, ConstantsAssumption
<1>5. f # None => q[f] # None
  BY <1>3, <1>4
<1>6. state' = Settled(Over(StackFreed(q, f), f), held', firing, call')
  BY <1>1
<1> HIDE DEF q, f
<1>7. Follows(Over(StackFreed(q, f), f), q)
  BY <1>3, <1>4, <1>5, EndFollows
<1>8. Follows(Over(StackFreed(q, f), f), state)
  BY <1>2, <1>4, <1>7 DEF Follows
<1>9. Follows(state', state)
  BY <1>6, <1>8, SettledFollows
<1> QED
  BY <1>2, <1>9, EndBegins


LEMMA ResumeFollows ==
  ASSUME IInv, NEW c \in Calls, NEW s \in States, NEW caller, Resume(c, s, caller)
  PROVE  Follows(state', state) /\ Begins(call', call, state)
<1>1. /\ state \in [States -> FunctionState \cup {None}]
      /\ call \in [Calls -> Execution \cup {None}]
      /\ call[c] = None
      /\ Able(state, s)
      /\ state' = [state EXCEPT ![s].lists = {}]
      /\ call' = [call EXCEPT ![c] = [script |-> state[s].script,
                                      instance |-> state[s].instance,
                                      from |-> s, pc |-> "claimed"]]
  BY DEF Resume, IInv, Shape, Resumable, Able
<1>2. state[s] \in FunctionState
  BY <1>1 DEF Able
<1>3. /\ state'[s] \in FunctionState
      /\ state'[s].script = state[s].script
      /\ state'[s].instance = state[s].instance
      /\ state'[s].lists = {}
  BY <1>1, <1>2 DEF FunctionState
<1>4. \A t \in States : t # s => state'[t] = state[t]
  BY <1>1
<1>5. state' \in [States -> FunctionState \cup {None}]
  BY <1>1, <1>3, <1>4
<1>6. Follows(state', state)
  BY <1>3, <1>4, <1>5 DEF Follows
<1>7. call'[c].from = s /\ \A d \in Calls : d # c => call'[d] = call[d]
  BY <1>1
<1>8. Begins(call', call, state)
  BY <1>1, <1>7 DEF Begins, Resumed, Busy
<1> QED
  BY <1>6, <1>8

LEMMA EnterFollows ==
  ASSUME IInv, NEW c \in Calls, Enter(c)
  PROVE  Follows(state', state) /\ Begins(call', call, state)
<1> DEFINE f == call[c].from
<1>1. /\ call[c] # None
      /\ call[c].pc = "claimed"
      /\ call' = [call EXCEPT ![c].pc = "running"]
      /\ state' = [state EXCEPT ![f].stack = "none"]
      /\ state \in [States -> FunctionState \cup {None}]
      /\ call \in [Calls -> Execution \cup {None}]
  BY DEF Enter, IInv, Shape
<1>2. f \in States /\ state[f] \in FunctionState
  <2>1. Executes(state, call, loaded, alive, c)
    BY <1>1, SaneExecutes DEF IInv
  <2> QED
    BY <2>1, <1>1 DEF Executes
<1>3. /\ state'[f] \in FunctionState
      /\ state'[f].script = state[f].script
      /\ state'[f].instance = state[f].instance
      /\ state'[f].lists = state[f].lists
  BY <1>1, <1>2 DEF FunctionState
<1>4. \A t \in States : t # f => state'[t] = state[t]
  BY <1>1
<1>5. state' \in [States -> FunctionState \cup {None}]
  BY <1>1, <1>2, <1>3, <1>4
<1> HIDE DEF f
<1>6. Follows(state', state)
  BY <1>3, <1>4, <1>5 DEF Follows
<1>7. Moves(call', call, c, "running")
  BY <1>1, PlaceMoves
<1>8. \A d \in Calls : (call'[d] # None <=> call[d] # None) /\ call'[d].from = call[d].from
  BY <1>1, <1>7 DEF Moves
<1>9. Resumed(call') = Resumed(call)
  BY <1>8 DEF Resumed, Busy
<1> QED
  BY <1>6, <1>9 DEF Begins

LEMMA GiveUpFollows ==
  ASSUME IInv, NEW c \in Calls, Overflow(c) \/ Finish(c)
  PROVE  Follows(state', state) /\ Begins(call', call, state)
<1>1. /\ call[c] # None
      /\ call' = [call EXCEPT ![c] = None]
      /\ state' = Settled(Over(state, call[c].from), held, firing, call')
      /\ state \in [States -> FunctionState \cup {None}]
      /\ call \in [Calls -> Execution \cup {None}]
  BY DEF Overflow, Finish, IInv, Shape
<1>2. Executes(state, call, loaded, alive, c)
  BY <1>1, SaneExecutes DEF IInv
<1>3. Follows(Over(state, call[c].from), state)
  BY <1>1, <1>2, OverFollows DEF Executes
<1>4. Follows(state', state)
  BY <1>1, <1>3, SettledFollows
<1> QED
  BY <1>1, <1>4, EndBegins

LEMMA ReturnFollows ==
  ASSUME IInv, NEW c \in Calls, Return(c)
  PROVE  Follows(state', state) /\ Begins(call', call, state)
<1> DEFINE f == call[c].from
<1>1. /\ call[c] # None
      /\ state \in [States -> FunctionState \cup {None}]
      /\ call \in [Calls -> Execution \cup {None}]
  BY DEF Return, IInv, Shape
<1>2. CASE f = None
  <2>1. call' = [call EXCEPT ![c] = None] /\ state' = state
    BY <1>2 DEF Return
  <2>2. Follows(state', state)
    BY <1>1, <2>1 DEF Follows
  <2> QED
    BY <1>1, <2>1, <2>2, EndBegins
<1>3. CASE f # None
  <2> DEFINE p == StackFreed(state, f)
             o == Settled(p, held, firing, call)
             slots == Connected(o, state[f].completed)
  <2>1. call' = [call EXCEPT ![c].pc = "completing"] /\ state' = Disconnected(o, slots)
    BY <1>3 DEF Return
  <2>2. Executes(state, call, loaded, alive, c)
    BY <1>1, SaneExecutes DEF IInv
  <2>3. Shrunk(p, state, call)
    BY <1>1, <2>2, StackFreedShrunk DEF Executes
  <2>4. Follows(state, state)
    BY <1>1 DEF Follows
  <2>5. Follows(o, state)
    BY <2>3, <2>4, ShrunkFollows, SettledFollows
  <2>6. slots \in SUBSET {s \in States : o[s] # None}
    BY DEF Connected
  <2> HIDE DEF o, slots
  <2>7. Shrunk(Disconnected(o, slots), o, call)
    BY <2>5, <2>6, DisconnectedShrunk DEF Follows
  <2>8. Follows(state', state)
    BY <2>1, <2>5, <2>7, ShrunkFollows
  <2>9. Moves(call', call, c, "completing")
    BY <1>1, <2>1, PlaceMoves
  <2>10. \A d \in Calls : (call'[d] # None <=> call[d] # None) /\ call'[d].from = call[d].from
    BY <1>1, <2>9 DEF Moves
  <2>11. Resumed(call') = Resumed(call)
    BY <2>10 DEF Resumed, Busy
  <2> QED
    BY <2>8, <2>11 DEF Begins
<1> QED
  BY <1>2, <1>3

LEMMA CancelledFollows ==
  ASSUME NEW o \in [States -> FunctionState \cup {None}], NEW list,
         NEW S \in SUBSET {s \in States : o[s] # None}
  PROVE  Follows(Cancelled(o, list, S), o)
<1> DEFINE p == Cancelled(o, list, S)
<1>1. /\ p \in [States -> FunctionState \cup {None}]
      /\ \A s \in States \ S : p[s] = o[s]
      /\ \A s \in S : /\ p[s].script = o[s].script
                      /\ p[s].instance = o[s].instance
                      /\ p[s].lists \subseteq o[s].lists
  BY CancelledFields
<1> HIDE DEF p
<1>2. Follows(p, o)
  BY <1>1 DEF Follows
<1> QED
  BY <1>2 DEF p

LEMMA ScriptClearedFollows ==
  ASSUME IInv, NEW x \in Scripts, ScriptCleared(x)
  PROVE  Follows(state', state)
<1> DEFINE S == {s \in Objects : state[s].script = x /\ "script" \in state[s].lists}
           o == Cancelled(state, "script", S)
           p == FunctionsDeleted(o, x)
<1>1. /\ state' = Settled(p, held, firing, call)
      /\ state \in [States -> FunctionState \cup {None}]
  BY DEF ScriptCleared, IInv, Shape
<1>2. S \in SUBSET {s \in States : state[s] # None}
  BY DEF Objects
<1>3. Follows(o, state)
  BY <1>1, <1>2, CancelledFollows
<1> HIDE DEF o, S
<1>4. \A s \in States : /\ p[s] = o[s]
                        \/ /\ o[s] \in FunctionState
                           /\ p[s] = [o[s] EXCEPT !.function = "Deleted"]
  <2>1. o \in [States -> FunctionState \cup {None}]
    BY <1>3 DEF Follows
  <2> QED
    BY <2>1 DEF FunctionsDeleted
<1>5. \A s \in States : o[s] \in FunctionState =>
        /\ [o[s] EXCEPT !.function = "Deleted"] \in FunctionState
        /\ [o[s] EXCEPT !.function = "Deleted"].script = o[s].script
        /\ [o[s] EXCEPT !.function = "Deleted"].instance = o[s].instance
        /\ [o[s] EXCEPT !.function = "Deleted"].lists = o[s].lists
  BY DEF FunctionState
<1>6. p \in [States -> FunctionState \cup {None}]
  <2>1. \A s \in States : p[s] \in FunctionState \cup {None}
    BY <1>3, <1>4, <1>5 DEF Follows
  <2> QED
    BY <2>1 DEF FunctionsDeleted
<1> HIDE DEF p
<1>7. \A s \in States : p[s] # None => /\ o[s] # None
                                       /\ p[s].script = o[s].script
                                       /\ p[s].instance = o[s].instance
                                       /\ p[s].lists = o[s].lists
  BY <1>4, <1>5, NoneAssumption
<1>8. Follows(p, state)
  BY <1>3, <1>6, <1>7 DEF Follows
<1> QED
  BY <1>1, <1>8, SettledFollows

LEMMA StepFollows ==
  ASSUME IInv, Next
  PROVE  Follows(state', state) /\ Begins(call', call, state)
<1>0. /\ state \in [States -> FunctionState \cup {None}]
      /\ Follows(state, state)
      /\ Begins(call, call, state)
  BY DEF IInv, Shape, Follows, Begins
<1>1. ASSUME NEW c \in Calls, Execute(c)
      PROVE  Follows(state', state) /\ Begins(call', call, state)
  <2>1. ASSUME NEW x \in Scripts, NEW i \in Instances \cup {None}, Invoke(c, x, i)
        PROVE  Follows(state', state) /\ Begins(call', call, state)
    <3>1. /\ state' = state
          /\ call' = [call EXCEPT ![c] = [script |-> x, instance |-> i,
                                          from |-> None, pc |-> "running"]]
          /\ call \in [Calls -> Execution \cup {None}]
      BY <2>1 DEF Invoke, IInv, Shape
    <3>2. call'[c].from = None /\ \A d \in Calls : d # c => call'[d] = call[d]
      BY <3>1
    <3>3. Resumed(call') \subseteq Resumed(call)
      BY <3>2 DEF Resumed, Busy
    <3> QED
      BY <1>0, <3>1, <3>3 DEF Begins
  <2>2. CASE \E n \in States, x \in Signals \cup States : Await(c, n, x)
    BY <2>2, AwaitFollows
  <2>3. CASE \E s \in States : Callback(c, s) \/ ResumeByHand(c, s)
    BY <2>3, ResumeFollows DEF Callback, ResumeByHand
  <2>4. CASE Enter(c)
    BY <2>4, EnterFollows
  <2>5. CASE Overflow(c) \/ Finish(c)
    BY <2>5, GiveUpFollows
  <2>6. CASE Return(c)
    BY <2>6, ReturnFollows
  <2> QED
    BY <1>1, <2>1, <2>2, <2>3, <2>4, <2>5, <2>6 DEF Execute
<1>2. ASSUME Environment
      PROVE  Follows(state', state) /\ Begins(call', call, state)
  <2>1. call' = call
    BY <1>2 DEF Environment, Emit, FreeEmitter, Refuse, Drop, FreeInstance, Instantiate,
       Reload, Unload, Load
  <2>2. ASSUME NEW x \in Signals, Emit(x) \/ FreeEmitter(x)
        PROVE  Follows(state', state)
    <3> DEFINE o == Disconnected(state, Connected(state, x))
    <3>1. state' \in {o, Settled(o, held, firing, call)}
      BY <2>2 DEF Emit, FreeEmitter
    <3>2. Connected(state, x) \in SUBSET {s \in States : state[s] # None}
      BY DEF Connected
    <3>3. Follows(o, state)
      BY <1>0, <3>2, DisconnectedShrunk, ShrunkFollows
    <3> HIDE DEF o
    <3> QED
      BY <3>1, <3>3, SettledFollows
  <2>3. ASSUME NEW s \in States, Refuse(s) \/ Drop(s)
        PROVE  Follows(state', state)
    BY <2>3, <1>0, SettledFollows DEF Refuse, Drop
  <2>4. ASSUME NEW i \in Instances, FreeInstance(i)
        PROVE  Follows(state', state)
    <3> DEFINE S == {s \in Objects : state[s].instance = i /\ "instance" \in state[s].lists}
    <3>1. state' = Settled(Cancelled(state, "instance", S), held, firing, call)
      BY <2>4 DEF FreeInstance
    <3>2. S \in SUBSET {s \in States : state[s] # None}
      BY DEF Objects
    <3> HIDE DEF S
    <3> QED
      BY <1>0, <3>1, <3>2, CancelledFollows, SettledFollows
  <2>5. ASSUME NEW x \in Scripts, Reload(x) \/ Unload(x)
        PROVE  Follows(state', state)
    BY <2>5, ScriptClearedFollows DEF Reload, Unload
  <2>6. CASE (\E x \in Scripts : Load(x)) \/ (\E i \in Instances : Instantiate(i))
    BY <2>6, <1>0 DEF Load, Instantiate
  <2>7. Follows(state', state)
    BY <1>2, <2>2, <2>3, <2>4, <2>5, <2>6 DEF Environment
  <2> QED
    BY <1>0, <2>1, <2>7 DEF Begins
<1> QED
  BY <1>1, <1>2 DEF Next

(* The owners for which states wait. *)
Waiting(o) ==
  [s \in States |-> IF Able(o, s)
                    THEN [script |-> o[s].script, instance |-> o[s].instance]
                    ELSE None]

LEMMA WaitingFields ==
  ASSUME NEW o \in [States -> FunctionState \cup {None}]
  PROVE  /\ Waiting(o) \in [States -> Point!Owner \cup {None}]
         /\ \A s \in States : Waiting(o)[s] # None <=> Able(o, s)
         /\ \A s \in States : Able(o, s) =>
              /\ Waiting(o)[s] = [script |-> o[s].script, instance |-> o[s].instance]
              /\ Waiting(o)[s].script = o[s].script
              /\ Waiting(o)[s].instance = o[s].instance
<1>1. \A s \in States : Able(o, s) =>
        [script |-> o[s].script, instance |-> o[s].instance] \in Point!Owner
  BY DEF Able, FunctionState, Point!Owner
<1>2. None \notin Point!Owner
  BY NoneAssumption DEF Point!Owner
<1>3. \A s \in States : Waiting(o)[s] =
        IF Able(o, s) THEN [script |-> o[s].script, instance |-> o[s].instance] ELSE None
  BY DEF Waiting
<1>4. \A s \in States : Waiting(o)[s] \in Point!Owner \cup {None}
  BY <1>1, <1>3
<1>5. Waiting(o) \in [States -> Point!Owner \cup {None}]
  BY <1>4 DEF Waiting
<1> HIDE DEF Point!Owner
<1> QED
  BY <1>1, <1>2, <1>3, <1>5

LEMMA PointStep ==
  ASSUME IInv, IInv', Follows(state', state), Begins(call', call, state)
  PROVE  Point!Next
<1> DEFINE w == Waiting(state)
           v == Waiting(state')
<1>1. /\ state \in [States -> FunctionState \cup {None}]
      /\ state' \in [States -> FunctionState \cup {None}]
      /\ call' \in [Calls -> Execution \cup {None}]
  BY DEF IInv, Shape
<1>2. /\ v \in [States -> Point!Owner \cup {None}]
      /\ \A s \in States : w[s] # None <=> Able(state, s)
      /\ \A s \in States : v[s] # None <=> Able(state', s)
  BY <1>1, WaitingFields
<1>3. \A s \in States : Able(state, s) =>
        /\ w[s] = [script |-> state[s].script, instance |-> state[s].instance]
        /\ w[s].script = state[s].script
        /\ w[s].instance = state[s].instance
  BY <1>1, WaitingFields
<1>4. \A s \in States : Able(state', s) =>
        /\ v[s] = [script |-> state'[s].script, instance |-> state'[s].instance]
        /\ v[s].script = state'[s].script
        /\ v[s].instance = state'[s].instance
  BY <1>1, WaitingFields
<1> HIDE DEF w, v
<1>5. Resumed(call') \subseteq States
  BY <1>1 DEF Resumed, Busy, Execution
<1>6. ASSUME NEW s \in States, v[s] # None
      PROVE  /\ Point!Sound(v[s], loaded', alive')
             /\ s \notin Resumed(call) \cup Resumed(call')
             /\ w[s] \in {None, v[s]}
  <2>1. Able(state', s)
    BY <1>2, <1>6
  <2>2. Point!Sound(v[s], loaded', alive')
    <3>1. Listed(state', loaded', alive')
      BY DEF IInv, Sane
    <3>2. state'[s].script \in loaded' /\ state'[s].instance \in alive' \cup {None}
      BY <2>1, <3>1 DEF Listed, Able
    <3> QED
      BY <2>1, <3>2, <1>4 DEF Point!Sound
  <2>3. s \notin Resumed(call)
    <3> SUFFICES ASSUME NEW c \in Calls, call[c] # None, call[c].from = s
                 PROVE  FALSE
      BY ResumedChar
    <3>1. Executes(state, call, loaded, alive, c)
      BY SaneExecutes DEF IInv
    <3>2. state[s] # None /\ state[s].lists = {}
      BY <3>1, ConstantsAssumption DEF Executes
    <3>3. state'[s] # None /\ state'[s].lists # {}
      BY <2>1 DEF Able
    <3> QED
      BY <3>2, <3>3 DEF Follows
  <2>4. s \notin Resumed(call')
    <3> SUFFICES ASSUME NEW c \in Calls, call'[c] # None, call'[c].from = s
                 PROVE  FALSE
      BY ResumedChar
    <3>1. Sane(state', call', loaded', alive')
      BY DEF IInv
    <3>2. Executes(state', call', loaded', alive', c)
      BY <3>1, SaneExecutes
    <3> QED
      BY <2>1, <3>2, ConstantsAssumption DEF Executes
  <2>5. CASE Able(state, s)
    <3>1. state[s] # None /\ state'[s] # None
      BY <2>1, <2>5 DEF Able
    <3>2. state'[s].script = state[s].script /\ state'[s].instance = state[s].instance
      BY <3>1 DEF Follows
    <3> QED
      BY <2>1, <2>2, <2>3, <2>4, <2>5, <3>2, <1>3, <1>4
  <2>6. CASE ~Able(state, s)
    BY <2>2, <2>3, <2>4, <2>6, <1>2
  <2> QED
    BY <2>5, <2>6
<1>7. ASSUME NEW s \in Resumed(call') \ Resumed(call)
      PROVE  w[s] # None /\ Point!Sound(w[s], loaded, alive)
  <2>1. s \in States /\ Able(state, s)
    BY <1>5 DEF Begins
  <2>2. state[s].script \in loaded /\ state[s].instance \in alive \cup {None}
    BY <2>1 DEF IInv, Sane, Listed, Able
  <2> QED
    BY <2>1, <2>2, <1>2, <1>3 DEF Point!Sound
<1>8. w = [s \in States |-> IF Resumable(s)
                            THEN [script |-> state[s].script, instance |-> state[s].instance]
                            ELSE None]
  BY AbleNow DEF w, Waiting
<1>9. v = [s \in States |-> IF Resumable(s)
                            THEN [script |-> state[s].script, instance |-> state[s].instance]
                            ELSE None]'
  BY DEF v, Waiting, Resumable, Able
<1> QED
  BY <1>2, <1>5, <1>6, <1>7, <1>8, <1>9 DEF Point!Next

(* Whatever lists, counts and signals do, each suspended execution keeps   *)
(* what AwaitPoint promises: it waits for its owner alone, ends with it,   *)
(* and is resumed at most once.                                            *)
THEOREM ImplementsSafe == Spec => Implements
<1>1. Init => Point!Init
  <2> SUFFICES ASSUME Init PROVE Point!Init
    OBVIOUS
  <2>1. \A s \in States : ~Resumable(s)
    BY DEF Init, Resumable
  <2>2. Resumed(call) = {}
    BY DEF Init, Resumed, Busy
  <2> QED
    BY <2>1, <2>2 DEF Init, Point!Init
<1>2. IInv /\ IInv' /\ [Next]_vars => [Point!Next]_(Point!vars)
  <2>1. ASSUME IInv, IInv', Next PROVE Point!Next
    BY <2>1, StepFollows, PointStep
  <2>2. ASSUME UNCHANGED vars PROVE UNCHANGED Point!vars
    BY <2>2 DEF vars, Point!vars, Resumable, Resumed, Busy
  <2> QED
    BY <2>1, <2>2
<1> QED
  BY <1>1, <1>2, Invariance, PTL DEF Spec, Implements, Point!Spec

-----------------------------------------------------------------------------
(* Whoever waits is served.  As long as nothing cuts an execution short,   *)
(* a state that can be resumed will be: an emission has it, a signal does, *)
(* or the state it awaits, which it keeps by its operand.  So neither goes *)
(* before the other, and the execution that is awaited is not over.        *)

(* The completed signal of u is still to come. *)
Served(o, cs, u) ==
  /\ o[u] # None
  /\ o[u].completed = u
  /\ \E s \in States : o[s] # None /\ o[s].completed = u /\ CurrentIn(o, cs, s)

Waits(o, cs) ==
  \A t \in States : o[t] # None /\ o[t].source \in States => Served(o, cs, o[t].source)

(* Variables hold first states of executions. *)
First(o, hs) == \A h \in hs : o[h] # None /\ o[h].completed = h

(* After an execution has emitted its signal nobody waits for it. *)
Emitted(o, cs) ==
  \A c \in Calls, t \in States :
    cs[c] # None /\ cs[c].pc = "completing" /\ cs[c].from # None /\ o[t] # None =>
      o[t].source # o[cs[c].from].completed

Due(o, fs) ==
  \A s \in States : Able(o, s) =>
    \/ s \in fs
    \/ o[s].source \in Signals
    \/ o[s].source \in States /\ o[s].operand = o[s].source

Waited(o, hs, fs, cs) == Waits(o, cs) /\ First(o, hs) /\ Emitted(o, cs) /\ Due(o, fs)

(* A state that can be resumed stays, with what it waits for.              *)
LEMMA AbleKept ==
  ASSUME NEW o \in [States -> FunctionState \cup {None}], NEW hs, NEW fs, NEW cs,
         Waits(o, cs), Due(o, fs), NEW s \in States, Able(o, s)
  PROVE  LET p == Settled(o, hs, fs, cs)
         IN  p[s] # None /\ (s \in fs \/ p[s].source = o[s].source)
<1> DEFINE p == Settled(o, hs, fs, cs)
<1>0. o[s] # None
  BY DEF Able
<1>1. CASE s \in fs
  BY <1>0, <1>1, SettledKeeps DEF Root
<1>2. CASE o[s].source \in Signals
  <2>1. p[s] # None
    BY <1>0, <1>2, SettledKeeps DEF Root
  <2>2. o[s].source \notin States
    BY <1>2, ConstantsAssumption
  <2>3. p[s] = o[s]
    BY <2>1, <2>2 DEF Settled
  <2> QED
    BY <2>1, <2>3
<1>3. CASE o[s].source \in States /\ o[s].operand = o[s].source
  <2> DEFINE u == o[s].source
             K == {s, u}
  <2>1. u \in States /\ o[u] # None
    BY <1>0, <1>3 DEF Waits, Served
  <2>2. Closed(o, hs, fs, cs, K)
    BY <1>3 DEF Closed, Refers
  <2>3. K \in SUBSET {r \in States : o[r] # None}
    BY <1>0, <2>1
  <2>4. s \in Kept(o, hs, fs, cs) /\ u \in Kept(o, hs, fs, cs)
    BY <2>2, <2>3 DEF Kept
  <2>5. p[s] = o[s]
    BY <2>4 DEF Settled
  <2> QED
    BY <1>0, <2>5
<1> QED
  BY <1>1, <1>2, <1>3 DEF Due

(* Letting go of what nothing refers to leaves whoever waits served.       *)
LEMMA SettledWaited ==
  ASSUME NEW o, NEW hs \in SUBSET States, NEW fs, NEW cs, NEW ls, NEW as,
         Sane(o, cs, ls, as), Waited(o, hs, fs, cs)
  PROVE  Waited(Settled(o, hs, fs, cs), hs, fs, cs)
<1> DEFINE p == Settled(o, hs, fs, cs)
           kept == Kept(o, hs, fs, cs)
<1>0. /\ o \in [States -> FunctionState \cup {None}]
      /\ cs \in [Calls -> Execution \cup {None}]
      /\ Waits(o, cs) /\ Due(o, fs) /\ First(o, hs) /\ Emitted(o, cs)
  BY DEF Sane, Typed, Waited
<1>1. \A s \in States : p[s] # None =>
        /\ o[s] # None
        /\ p[s].function = o[s].function
        /\ p[s].instance = o[s].instance
        /\ p[s].completed = o[s].completed
        /\ p[s].operand = o[s].operand
        /\ p[s].lists = o[s].lists
        /\ p[s].source \in {o[s].source, None}
        /\ p[s].completed \in States
  BY <1>0, SettledFields DEF FunctionState
<1>2. \A s \in States : Able(o, s) => p[s] # None /\ (s \in fs \/ p[s].source = o[s].source)
  BY <1>0, AbleKept
<1>3. \A s \in States : s \in Resumed(cs) /\ o[s] # None => p[s] # None
  BY <1>0, SettledKeeps DEF Root
<1>4. \A s \in States : o[s] # None /\ CurrentIn(o, cs, s) => p[s] # None /\ CurrentIn(p, cs, s)
  <2> SUFFICES ASSUME NEW s \in States, o[s] # None, CurrentIn(o, cs, s)
               PROVE  p[s] # None /\ CurrentIn(p, cs, s)
    OBVIOUS
  <2>1. p[s] # None
    BY <1>2, <1>3 DEF CurrentIn
  <2> HIDE DEF p
  <2> QED
    BY <1>1, <2>1 DEF CurrentIn, Able
<1>5. \A t \in States : p[t] # None /\ p[t].source \in States =>
        p[t].source = o[t].source /\ p[p[t].source] # None
  <2> SUFFICES ASSUME NEW t \in States, p[t] # None, p[t].source \in States
               PROVE  p[t].source = o[t].source /\ p[p[t].source] # None
    OBVIOUS
  <2>1. p[t].source = o[t].source /\ p[t].source \in States
    BY <1>1, ConstantsAssumption
  <2>2. o[t] \in FunctionState /\ t \in kept
    BY <1>0, <1>1 DEF Settled
  <2>3. o[t].source \in kept
    <3>1. ASSUME o[t].source \in States \ kept PROVE FALSE
      <4>1. p[t] = [o[t] EXCEPT !.source = None]
        BY <2>2, <3>1 DEF Settled
      <4>2. [o[t] EXCEPT !.source = None].source = None
        BY <2>2 DEF FunctionState
      <4> QED
        BY <2>1, <4>1, <4>2, ConstantsAssumption
    <3> QED
      BY <2>1, <3>1
  <2>4. \A u \in kept : p[u] # None
    <3> SUFFICES ASSUME NEW u \in kept PROVE p[u] # None
      OBVIOUS
    <3>1. u \in States /\ o[u] \in FunctionState
      BY <1>0 DEF Kept
    <3>2. [o[u] EXCEPT !.source = None] \in FunctionState
      BY <3>1 DEF FunctionState
    <3>3. p[u] \in {o[u], [o[u] EXCEPT !.source = None]}
      BY <3>1 DEF Settled
    <3> QED
      BY <3>1, <3>2, <3>3, NoneAssumption
  <2> QED
    BY <2>1, <2>3, <2>4
<1> HIDE DEF p, kept
<1>6. Waits(p, cs)
  <2> SUFFICES ASSUME NEW t \in States, p[t] # None, p[t].source \in States
               PROVE  Served(p, cs, p[t].source)
    BY DEF Waits
  <2>1. Served(o, cs, p[t].source)
    BY <1>0, <1>1, <1>5 DEF Waits
  <2> QED
    BY <1>1, <1>4, <1>5, <2>1 DEF Served
<1>7. First(p, hs)
  <2>1. \A h \in hs : p[h] # None
    BY <1>0, SettledKeeps DEF First, Root, p
  <2> QED
    BY <1>0, <1>1, <2>1 DEF First
<1>8. Emitted(p, cs)
  <2> SUFFICES ASSUME NEW c \in Calls, NEW t \in States,
                      cs[c] # None, cs[c].pc = "completing", cs[c].from # None, p[t] # None
               PROVE  p[t].source # p[cs[c].from].completed
    BY DEF Emitted
  <2>1. cs[c].from \in States /\ o[cs[c].from] # None
    BY <1>0 DEF Execution, Sane, Executing
  <2>2. p[cs[c].from] # None
    BY <1>3, <2>1, ResumedChar
  <2>3. o[t].source # o[cs[c].from].completed
    BY <1>0, <1>1 DEF Emitted
  <2> QED
    BY <1>1, <2>1, <2>2, <2>3, ConstantsAssumption
<1>9. Due(p, fs)
  <2> SUFFICES ASSUME NEW s \in States, Able(p, s)
               PROVE  \/ s \in fs
                      \/ p[s].source \in Signals
                      \/ p[s].source \in States /\ p[s].operand = p[s].source
    BY DEF Due
  <2>1. p[s] # None /\ Able(o, s)
    BY <1>1 DEF Able
  <2> QED
    BY <1>0, <1>1, <1>2, <2>1 DEF Due
<1>10. Waited(p, hs, fs, cs)
  BY <1>6, <1>7, <1>8, <1>9 DEF Waited
<1> QED
  BY <1>10 DEF p

(* A step that leaves completed signals and what waits for them alone, and *)
(* executions with a state in them, leaves whoever waits served.           *)
LEMMA WaitsCarried ==
  ASSUME NEW o, NEW p, NEW cs, NEW ds, Waits(o, cs),
         \A s \in States : p[s] # None <=> o[s] # None,
         \A s \in States : p[s] # None =>
           p[s].completed = o[s].completed /\ p[s].source \in {o[s].source, None},
         \A s \in States : o[s] # None /\ CurrentIn(o, cs, s) => CurrentIn(p, ds, s)
  PROVE  Waits(p, ds)
<1> SUFFICES ASSUME NEW t \in States, p[t] # None, p[t].source \in States
             PROVE  Served(p, ds, p[t].source)
  BY DEF Waits
<1>1. p[t].source = o[t].source /\ o[t] # None
  BY ConstantsAssumption
<1>2. Served(o, cs, p[t].source)
  BY <1>1 DEF Waits
<1> QED
  BY <1>2 DEF Served

LEMMA InvokeWaited ==
  ASSUME IInv, Waited(state, held, firing, call),
         NEW c \in Calls, NEW x \in Scripts, NEW i \in Instances \cup {None}, Invoke(c, x, i)
  PROVE  Waited(state', held', firing', call')
<1> DEFINE e == [script |-> x, instance |-> i, from |-> None, pc |-> "running"]
<1>1. /\ call[c] = None /\ call' = [call EXCEPT ![c] = e]
      /\ UNCHANGED <<state, firing, held>>
      /\ call \in [Calls -> Execution \cup {None}]
  BY DEF Invoke, IInv, Shape
<1>2. e.from = None /\ e.pc = "running" /\ e # None
  <2>1. e \in Execution
    BY DEF Execution
  <2> QED
    BY <2>1, NoneAssumption
<1> HIDE DEF e
<1>3. \A s \in States : s \in Resumed(call) => s \in Resumed(call')
  <2>1. \A d \in Calls : call[d] # None => call'[d] = call[d]
    BY <1>1
  <2> QED
    BY <2>1, ResumedChar
<1>4. Waits(state, call')
  BY <1>3, WaitsCarried DEF Waited, CurrentIn
<1>5. Emitted(state, call')
  BY <1>1, <1>2 DEF Waited, Emitted
<1> QED
  BY <1>1, <1>4, <1>5 DEF Waited

LEMMA DisconnectedFields ==
  ASSUME NEW o \in [States -> FunctionState \cup {None}], NEW x, NEW s \in States
  PROVE  LET S == Connected(o, x)
             p == Disconnected(o, S)
         IN  /\ p[s] # None <=> o[s] # None
             /\ o[s] # None =>
                  /\ p[s].function = o[s].function
                  /\ p[s].instance = o[s].instance
                  /\ p[s].completed = o[s].completed
                  /\ p[s].operand = o[s].operand
                  /\ p[s].lists = o[s].lists
                  /\ p[s].source = IF s \in S THEN None ELSE o[s].source
                  /\ o[s].completed \in States
                  /\ p[s].source # x \/ x = None
<1> DEFINE S == Connected(o, x)
           p == Disconnected(o, S)
<1>1. s \in S <=> o[s] # None /\ o[s].source = x
  BY DEF Connected
<1>2. p[s] = IF s \in S THEN [o[s] EXCEPT !.source = None] ELSE o[s]
  BY DEF Disconnected
<1> HIDE DEF p, S
<1>3. CASE o[s] = None
  BY <1>1, <1>2, <1>3 DEF p, S
<1>4. CASE o[s] # None
  <2>1. o[s] \in FunctionState /\ [o[s] EXCEPT !.source = None] \in FunctionState
    BY <1>4 DEF FunctionState
  <2>2. p[s] # None
    BY <1>2, <2>1, NoneAssumption
  <2>3. /\ p[s].function = o[s].function
        /\ p[s].instance = o[s].instance
        /\ p[s].completed = o[s].completed
        /\ p[s].operand = o[s].operand
        /\ p[s].lists = o[s].lists
        /\ p[s].source = IF s \in S THEN None ELSE o[s].source
        /\ o[s].completed \in States
    BY <1>2, <2>1 DEF FunctionState
  <2> QED
    BY <1>1, <1>4, <2>2, <2>3 DEF p, S
<1> QED
  BY <1>3, <1>4

(* An emission: who waited has a callback to come instead.                 *)
LEMMA DisconnectedWaited ==
  ASSUME NEW o, NEW hs \in SUBSET States, NEW fs, NEW cs, NEW ls, NEW as,
         Sane(o, cs, ls, as), Waited(o, hs, fs, cs), NEW x
  PROVE  Waited(Disconnected(o, Connected(o, x)), hs, fs \cup Connected(o, x), cs)
<1> DEFINE S == Connected(o, x)
           p == Disconnected(o, S)
<1>1. /\ o \in [States -> FunctionState \cup {None}]
      /\ cs \in [Calls -> Execution \cup {None}]
  BY DEF Sane, Typed
<1>2. \A s \in States : p[s] # None <=> o[s] # None
  BY <1>1, DisconnectedFields
<1>3. \A s \in States : o[s] # None =>
        /\ p[s].function = o[s].function
        /\ p[s].instance = o[s].instance
        /\ p[s].completed = o[s].completed
        /\ p[s].operand = o[s].operand
        /\ p[s].lists = o[s].lists
        /\ p[s].source = IF s \in S THEN None ELSE o[s].source
        /\ o[s].completed \in States
  BY <1>1, DisconnectedFields
<1>4. \A s \in S : o[s] # None /\ o[s].source = x
  BY DEF Connected
<1> HIDE DEF p, S
<1>5. \A s \in States : Able(p, s) <=> Able(o, s)
  BY <1>2, <1>3 DEF Able
<1>6. Waits(p, cs)
  BY <1>2, <1>3, <1>5, WaitsCarried DEF Waited, CurrentIn
<1>7. First(p, hs)
  BY <1>2, <1>3 DEF Waited, First
<1>8. Emitted(p, cs)
  <2> SUFFICES ASSUME NEW c \in Calls, NEW t \in States,
                      cs[c] # None, cs[c].pc = "completing", cs[c].from # None, p[t] # None
               PROVE  p[t].source # p[cs[c].from].completed
    BY DEF Emitted
  <2>1. cs[c].from \in States /\ o[cs[c].from] # None
    BY <1>1 DEF Execution, Sane, Executing
  <2>2. o[t].source # o[cs[c].from].completed
    BY <1>2 DEF Waited, Emitted
  <2> QED
    BY <1>2, <1>3, <2>1, <2>2, ConstantsAssumption
<1>9. Due(p, fs \cup S)
  <2> SUFFICES ASSUME NEW s \in States, Able(p, s)
               PROVE  \/ s \in fs \cup S
                      \/ p[s].source \in Signals
                      \/ p[s].source \in States /\ p[s].operand = p[s].source
    BY DEF Due
  <2>1. Able(o, s) /\ o[s] # None
    BY <1>5 DEF Able
  <2> QED
    BY <1>3, <2>1 DEF Waited, Due
<1>10. Waited(p, hs, fs \cup S, cs)
  BY <1>6, <1>7, <1>8, <1>9 DEF Waited
<1> QED
  BY <1>10 DEF p, S

LEMMA EmitWaited ==
  ASSUME IInv, Waited(state, held, firing, call), NEW x \in Signals, Emit(x)
  PROVE  Waited(state', held', firing', call')
<1>1. Waited(Disconnected(state, Connected(state, x)), held, firing \cup Connected(state, x), call)
  BY DisconnectedWaited DEF IInv, Shape
<1> QED
  BY <1>1 DEF Emit

(* A state that cannot be resumed need not be called back.                 *)
LEMMA RefuseWaited ==
  ASSUME IInv, Waited(state, held, firing, call), NEW s \in States, Refuse(s)
  PROVE  Waited(state', held', firing', call')
<1>1. /\ firing' = firing \ {s} /\ state' = Settled(state, held, firing', call)
      /\ UNCHANGED <<held, call, loaded, alive>>
      /\ ~Able(state, s)
  BY DEF Refuse, Resumable, Able
<1>2. Due(state, firing')
  BY <1>1 DEF Waited, Due
<1> QED
  BY <1>1, <1>2, SettledWaited DEF Waited, IInv, Shape

LEMMA DropWaited ==
  ASSUME IInv, Waited(state, held, firing, call), NEW s \in States, Drop(s)
  PROVE  Waited(state', held', firing', call')
<1>1. First(state, held') /\ held' \subseteq States
  BY DEF Drop, Waited, First, IInv, Shape
<1> QED
  BY <1>1, SettledWaited DEF Drop, Waited, IInv, Shape

(* A step that changes neither what waits nor what is waited for.          *)
LEMMA AlikeWaited ==
  ASSUME NEW o, NEW p, NEW hs \in SUBSET States, NEW fs, NEW gs, NEW cs, NEW ds,
         Waited(o, hs, fs, cs),
         \A s \in States : p[s] # None <=> o[s] # None,
         \A s \in States : p[s] # None =>
           p[s].completed = o[s].completed /\ p[s].source = o[s].source,
         \A s \in States : Able(p, s) =>
           Able(o, s) /\ p[s].operand = o[s].operand /\ (s \in fs => s \in gs),
         \A s \in States : o[s] # None /\ CurrentIn(o, cs, s) => CurrentIn(p, ds, s),
         \A c \in Calls : ds[c] # None /\ ds[c].pc = "completing" /\ ds[c].from # None =>
           /\ cs[c] # None /\ cs[c].pc = "completing" /\ cs[c].from = ds[c].from
           /\ ds[c].from \in States /\ o[ds[c].from] # None
  PROVE  Waited(p, hs, gs, ds)
<1>1. Waits(p, ds)
  BY WaitsCarried DEF Waited
<1>2. First(p, hs)
  BY DEF Waited, First
<1>3. Emitted(p, ds)
  <2> SUFFICES ASSUME NEW c \in Calls, NEW t \in States,
                      ds[c] # None, ds[c].pc = "completing", ds[c].from # None, p[t] # None
               PROVE  p[t].source # p[ds[c].from].completed
    BY DEF Emitted
  <2>1. o[t].source # o[ds[c].from].completed
    BY DEF Waited, Emitted
  <2> QED
    BY <2>1
<1>4. Due(p, gs)
  <2> SUFFICES ASSUME NEW s \in States, Able(p, s)
               PROVE  \/ s \in gs
                      \/ p[s].source \in Signals
                      \/ p[s].source \in States /\ p[s].operand = p[s].source
    BY DEF Due
  <2>1. p[s] # None
    BY DEF Able
  <2> QED
    BY <2>1 DEF Waited, Due
<1> QED
  BY <1>1, <1>2, <1>3, <1>4 DEF Waited

LEMMA CallbackWaited ==
  ASSUME IInv, Waited(state, held, firing, call), NEW c \in Calls, NEW s \in States, Callback(c, s)
  PROVE  Waited(state', held', firing', call')
<1> DEFINE e == [script |-> state[s].script, instance |-> state[s].instance,
                 from |-> s, pc |-> "claimed"]
<1>1. /\ state \in [States -> FunctionState \cup {None}]
      /\ call \in [Calls -> Execution \cup {None}]
      /\ call[c] = None
      /\ call' = [call EXCEPT ![c] = e]
      /\ state' = [state EXCEPT ![s].lists = {}]
      /\ firing' = firing \ {s}
      /\ UNCHANGED held
  BY DEF Callback, Resume, IInv, Shape
<1>2. state[s] \in FunctionState /\ state[s] # None
  BY <1>1 DEF Callback, Resume, Resumable
<1>3. e.from = s /\ e.pc = "claimed" /\ e # None
  <2>1. e \in Execution
    BY <1>2 DEF Execution, FunctionState
  <2> QED
    BY <2>1, NoneAssumption
<1> HIDE DEF e
<1>4. /\ state'[s] \in FunctionState /\ state'[s] # None
      /\ state'[s].completed = state[s].completed
      /\ state'[s].source = state[s].source
      /\ state'[s].lists = {}
      /\ \A t \in States : t # s => state'[t] = state[t]
  <2>1. [state[s] EXCEPT !.lists = {}] \in FunctionState
    BY <1>2 DEF FunctionState
  <2>2. state'[s] = [state[s] EXCEPT !.lists = {}]
    BY <1>1
  <2> QED
    BY <1>1, <1>2, <2>1, <2>2, NoneAssumption DEF FunctionState
<1>5. call'[c] = e /\ \A d \in Calls : d # c => call'[d] = call[d]
  BY <1>1
<1>6. /\ s \in Resumed(call')
      /\ \A t \in States : t \in Resumed(call) => t \in Resumed(call')
  <2>1. \A d \in Calls : call[d] # None => call'[d] = call[d]
    BY <1>1, <1>5
  <2>2. s \in Resumed(call')
    BY <1>3, <1>5, ResumedChar
  <2>3. \A t \in States : t \in Resumed(call) => t \in Resumed(call')
    BY <2>1, ResumedChar
  <2> QED
    BY <2>2, <2>3
<1>7. \A t \in States : Able(state', t) => t # s
  BY <1>4 DEF Able
<1>8. \A t \in States : t # s => (Able(state', t) <=> Able(state, t))
  BY <1>4 DEF Able
<1>9. \A t \in States : state[t] # None /\ CurrentIn(state, call, t) => CurrentIn(state', call', t)
  BY <1>6, <1>8 DEF CurrentIn
<1>10. \A d \in Calls : call'[d] # None /\ call'[d].pc = "completing" /\ call'[d].from # None =>
         /\ call[d] # None /\ call[d].pc = "completing" /\ call[d].from = call'[d].from
         /\ call'[d].from \in States /\ state[call'[d].from] # None
  <2>1. \A d \in Calls : call[d] # None => Executes(state, call, loaded, alive, d)
    BY SaneExecutes DEF IInv
  <2> QED
    BY <1>3, <1>5, <2>1 DEF Executes
<1>11. Waited(state', held, firing', call')
  <2>1. \A t \in States : (state'[t] # None <=> state[t] # None) /\
          (state'[t] # None => state'[t].completed = state[t].completed /\ state'[t].source = state[t].source)
    BY <1>2, <1>4
  <2>2. \A t \in States : Able(state', t) =>
          Able(state, t) /\ state'[t].operand = state[t].operand /\ (t \in firing => t \in firing')
    BY <1>1, <1>4, <1>7, <1>8
  <2> QED
    BY <1>9, <1>10, <2>1, <2>2, AlikeWaited DEF IInv, Shape
<1> QED
  BY <1>1, <1>11

LEMMA EnterWaited ==
  ASSUME IInv, Waited(state, held, firing, call), NEW c \in Calls, Enter(c)
  PROVE  Waited(state', held', firing', call')
<1> DEFINE f == call[c].from
<1>1. /\ state \in [States -> FunctionState \cup {None}]
      /\ call \in [Calls -> Execution \cup {None}]
      /\ call[c] # None /\ call[c].pc = "claimed"
      /\ call' = [call EXCEPT ![c].pc = "running"]
      /\ state' = [state EXCEPT ![f].stack = "none"]
      /\ UNCHANGED <<firing, held>>
  BY DEF Enter, IInv, Shape
<1>2. \A d \in Calls : call[d] # None => Executes(state, call, loaded, alive, d)
  BY SaneExecutes DEF IInv
<1>3. f \in States /\ state[f] \in FunctionState /\ state[f] # None
  BY <1>1, <1>2 DEF Executes
<1>4. /\ state'[f] # None
      /\ state'[f].function = state[f].function
      /\ state'[f].instance = state[f].instance
      /\ state'[f].completed = state[f].completed
      /\ state'[f].source = state[f].source
      /\ state'[f].operand = state[f].operand
      /\ state'[f].lists = state[f].lists
      /\ \A t \in States : t # f => state'[t] = state[t]
  <2>1. [state[f] EXCEPT !.stack = "none"] \in FunctionState
    BY <1>3 DEF FunctionState
  <2>2. state'[f] = [state[f] EXCEPT !.stack = "none"]
    BY <1>1, <1>3
  <2> QED
    BY <1>1, <1>3, <2>1, <2>2, NoneAssumption DEF FunctionState
<1>5. Moves(call', call, c, "running")
  BY <1>1, PlaceMoves
<1>6. \A t \in States : t \in Resumed(call) => t \in Resumed(call')
  BY <1>5, ResumedChar DEF Moves
<1>7. \A t \in States : Able(state', t) <=> Able(state, t)
  BY <1>3, <1>4 DEF Able
<1>8. \A t \in States : state[t] # None /\ CurrentIn(state, call, t) => CurrentIn(state', call', t)
  BY <1>6, <1>7 DEF CurrentIn
<1>9. \A d \in Calls : call'[d] # None /\ call'[d].pc = "completing" /\ call'[d].from # None =>
         /\ call[d] # None /\ call[d].pc = "completing" /\ call[d].from = call'[d].from
         /\ call'[d].from \in States /\ state[call'[d].from] # None
  BY <1>2, <1>5 DEF Executes, Moves
<1>10. Waited(state', held, firing, call')
  <2>1. \A t \in States : (state'[t] # None <=> state[t] # None) /\
          (state'[t] # None => state'[t].completed = state[t].completed /\ state'[t].source = state[t].source)
    BY <1>3, <1>4
  <2>2. \A t \in States : Able(state', t) => Able(state, t) /\ state'[t].operand = state[t].operand
    BY <1>4, <1>7
  <2> QED
    BY <1>8, <1>9, <2>1, <2>2, AlikeWaited DEF IInv, Shape
<1> QED
  BY <1>1, <1>10

(* The end of an execution nobody waits for.                               *)
LEMMA EndWaited ==
  ASSUME NEW o, NEW hs \in SUBSET States, NEW fs, NEW cs, NEW ls, NEW as,
         Sane(o, cs, ls, as), Waited(o, hs, fs, cs),
         NEW c \in Calls, cs[c] # None,
         cs[c].from # None =>
           \A t \in States : o[t] # None => o[t].source # o[cs[c].from].completed
  PROVE  Waited(Over(o, cs[c].from), hs, fs, [cs EXCEPT ![c] = None])
<1> DEFINE f == cs[c].from
           p == Over(o, f)
           ds == [cs EXCEPT ![c] = None]
<1>1. /\ o \in [States -> FunctionState \cup {None}]
      /\ cs \in [Calls -> Execution \cup {None}]
      /\ Executes(o, cs, ls, as, c)
  BY SaneExecutes DEF Sane, Typed
<1>2. /\ f \in States \cup {None}
      /\ f # None => /\ f \in States /\ o[f] \in FunctionState /\ o[f] # None /\ o[f].lists = {}
                     /\ \A d \in Calls : cs[d] # None /\ cs[d].from = f => d = c
  BY <1>1 DEF Executes
<1>3. /\ f # None => /\ p[f] # None
                     /\ p[f].lists = {}
                     /\ p[f].completed = o[f].completed
                     /\ p[f].source = o[f].source
      /\ \A t \in States : t # f => p[t] = o[t]
  <2>1. CASE f = None
    BY <2>1 DEF Over
  <2>2. CASE f # None
    <3>1. [o[f] EXCEPT !.function = "Null"] \in FunctionState
      BY <1>2, <2>2 DEF FunctionState
    <3>2. p = [o EXCEPT ![f].function = "Null"]
      BY <2>2 DEF Over
    <3>3. p[f] = [o[f] EXCEPT !.function = "Null"] /\ \A t \in States : t # f => p[t] = o[t]
      BY <1>1, <1>2, <2>2, <3>2
    <3> QED
      BY <1>2, <2>2, <3>1, <3>3, NoneAssumption DEF FunctionState
  <2> QED
    BY <2>1, <2>2
<1>4. /\ \A d \in Calls : d # c => ds[d] = cs[d]
      /\ ds[c] = None
  BY <1>1
<1> HIDE DEF p, ds
<1>5. \A s \in States : /\ p[s] # None <=> o[s] # None
                        /\ p[s] # None => p[s].completed = o[s].completed /\ p[s].source = o[s].source
  BY <1>2, <1>3, ConstantsAssumption
<1>6. \A s \in States : Able(p, s) => s # f /\ Able(o, s)
  BY <1>2, <1>3, ConstantsAssumption DEF Able
<1>7. \A s \in States : s # f /\ CurrentIn(o, cs, s) => CurrentIn(p, ds, s)
  <2>1. \A s \in States : s # f /\ s \in Resumed(cs) => s \in Resumed(ds)
    BY <1>4, ResumedChar
  <2> QED
    BY <1>3, <2>1 DEF CurrentIn, Able
<1>8. Waits(p, ds)
  <2> SUFFICES ASSUME NEW t \in States, p[t] # None, p[t].source \in States
               PROVE  Served(p, ds, p[t].source)
    BY DEF Waits
  <2>1. o[t] # None /\ p[t].source = o[t].source /\ Served(o, cs, o[t].source)
    BY <1>5 DEF Waited, Waits
  <2>2. PICK s \in States : o[s] # None /\ o[s].completed = o[t].source /\ CurrentIn(o, cs, s)
    BY <2>1 DEF Served
  <2>3. s # f
    BY <1>2, <2>1, <2>2, ConstantsAssumption
  <2> QED
    BY <1>5, <1>7, <2>1, <2>2, <2>3 DEF Served
<1>9. First(p, hs)
  BY <1>5 DEF Waited, First
<1>10. Emitted(p, ds)
  <2> SUFFICES ASSUME NEW d \in Calls, NEW t \in States,
                      ds[d] # None, ds[d].pc = "completing", ds[d].from # None, p[t] # None
               PROVE  p[t].source # p[ds[d].from].completed
    BY DEF Emitted
  <2>1. d # c /\ ds[d] = cs[d]
    BY <1>4
  <2>2. ds[d].from \in States /\ o[ds[d].from] # None
    BY <1>1, <2>1 DEF Execution, Sane, Executing
  <2> QED
    BY <1>5, <2>1, <2>2 DEF Waited, Emitted
<1>11. Due(p, fs)
  <2> SUFFICES ASSUME NEW s \in States, Able(p, s)
               PROVE  \/ s \in fs
                      \/ p[s].source \in Signals
                      \/ p[s].source \in States /\ p[s].operand = p[s].source
    BY DEF Due
  <2> QED
    BY <1>3, <1>6 DEF Waited, Due
<1>12. Waited(p, hs, fs, ds)
  BY <1>8, <1>9, <1>10, <1>11 DEF Waited
<1> QED
  BY <1>12 DEF p, ds

LEMMA FinishWaited ==
  ASSUME IInv, Waited(state, held, firing, call), NEW c \in Calls, Finish(c)
  PROVE  Waited(state', held', firing', call')
<1> DEFINE o == Over(state, call[c].from)
<1>1. /\ call[c] # None /\ call[c].pc = "completing"
      /\ call' = [call EXCEPT ![c] = None]
      /\ state' = Settled(o, held, firing, call')
      /\ UNCHANGED <<firing, held, loaded, alive>>
      /\ held \in SUBSET States
      /\ Sane(state, call, loaded, alive)
  BY DEF Finish, IInv, Shape
<1>2. \A t \in States : state[t] # None /\ call[c].from # None =>
        state[t].source # state[call[c].from].completed
  BY <1>1 DEF Waited, Emitted
<1>3. Sane(o, call', loaded, alive)
  BY <1>1, EndSane
<1>4. Waited(o, held, firing, call')
  BY <1>1, <1>2, EndWaited
<1> HIDE DEF o
<1> QED
  BY <1>1, <1>3, <1>4, SettledWaited

(* A stack is destroyed with its operand; its state is not to be resumed.  *)
LEMMA StackFreedWaited ==
  ASSUME NEW o, NEW hs \in SUBSET States, NEW fs, NEW cs, NEW ls, NEW as,
         Sane(o, cs, ls, as), Waited(o, hs, fs, cs),
         NEW f \in States, o[f] # None, o[f].lists = {}
  PROVE  /\ Sane(StackFreed(o, f), cs, ls, as)
         /\ Waited(StackFreed(o, f), hs, fs, cs)
         /\ StackFreed(o, f)[f] # None
         /\ StackFreed(o, f)[f].completed = o[f].completed
<1> DEFINE p == StackFreed(o, f)
<1>1. /\ o \in [States -> FunctionState \cup {None}]
      /\ cs \in [Calls -> Execution \cup {None}]
      /\ o[f] \in FunctionState
  BY DEF Sane, Typed
<1>2. Sane(p, cs, ls, as)
  BY <1>1, StackFreedShrunk, ShrunkSane
<1>3. /\ p[f] # None
      /\ p[f].completed = o[f].completed
      /\ p[f].source = o[f].source
      /\ p[f].lists = {}
      /\ \A t \in States : t # f => p[t] = o[t]
  <2>1. [o[f] EXCEPT !.operand = None] \in FunctionState
    BY <1>1 DEF FunctionState
  <2>2. p = [o EXCEPT ![f].operand = None]
    BY ConstantsAssumption DEF StackFreed
  <2>3. p[f] = [o[f] EXCEPT !.operand = None] /\ \A t \in States : t # f => p[t] = o[t]
    BY <1>1, <2>2
  <2> QED
    BY <1>1, <2>1, <2>3, NoneAssumption DEF FunctionState
<1> HIDE DEF p
<1>4. \A s \in States : /\ p[s] # None <=> o[s] # None
                        /\ p[s] # None => p[s].completed = o[s].completed /\ p[s].source = o[s].source
  BY <1>3
<1>5. \A s \in States : Able(p, s) => Able(o, s) /\ p[s].operand = o[s].operand
  BY <1>3 DEF Able
<1>6. \A s \in States : o[s] # None /\ CurrentIn(o, cs, s) => CurrentIn(p, cs, s)
  BY <1>3 DEF CurrentIn, Able
<1>7. \A d \in Calls : cs[d] # None /\ cs[d].from # None => cs[d].from \in States /\ o[cs[d].from] # None
  BY <1>1 DEF Execution, Sane, Executing
<1>8. Waited(p, hs, fs, cs)
  BY <1>4, <1>5, <1>6, <1>7, AlikeWaited
<1> QED
  BY <1>2, <1>3, <1>8 DEF p

LEMMA ReturnWaited ==
  ASSUME IInv, Waited(state, held, firing, call), NEW c \in Calls, Return(c)
  PROVE  Waited(state', held', firing', call')
<1> DEFINE f == call[c].from
<1>1. /\ call[c] # None /\ UNCHANGED held
      /\ held \in SUBSET States
      /\ call \in [Calls -> Execution \cup {None}]
      /\ Sane(state, call, loaded, alive)
      /\ Executes(state, call, loaded, alive, c)
  BY SaneExecutes DEF Return, IInv, Shape
<1>2. CASE f = None
  <2>1. call' = [call EXCEPT ![c] = None] /\ UNCHANGED <<state, firing>>
    BY <1>2 DEF Return
  <2>2. Waited(Over(state, call[c].from), held, firing, call')
    BY <1>1, <1>2, <2>1, EndWaited
  <2> QED
    BY <1>1, <1>2, <2>1, <2>2 DEF Over
<1>3. CASE f # None
  <2> DEFINE u == state[f].completed
             q == StackFreed(state, f)
             o == Settled(q, held, firing, call)
             slots == Connected(o, u)
             p == Disconnected(o, slots)
  <2>1. /\ f \in States /\ state[f] # None /\ state[f] \in FunctionState /\ state[f].lists = {}
    BY <1>1, <1>3 DEF Executes
  <2>2. u \in States
    BY <2>1 DEF FunctionState
  <2>3. /\ call' = [call EXCEPT ![c].pc = "completing"]
        /\ firing' = firing \cup slots
        /\ state' = p
    BY <1>3 DEF Return
  <2>4. /\ Sane(q, call, loaded, alive) /\ Waited(q, held, firing, call)
        /\ q[f] # None /\ q[f].completed = u
    BY <1>1, <2>1, StackFreedWaited
  <2> HIDE DEF q, u
  <2>5. Sane(o, call, loaded, alive) /\ Waited(o, held, firing, call)
    BY <1>1, <2>4, SettledSane, SettledWaited
  <2>6. o[f] # None /\ o[f].completed = u
    <3>1. q \in [States -> FunctionState \cup {None}]
      BY <2>4 DEF Sane, Typed
    <3>2. Root(q, held, firing, call, f)
      BY <1>1, <1>3, <2>1, ResumedChar DEF Root
    <3>3. o[f] # None
      BY <2>1, <2>4, <3>1, <3>2, SettledKeeps
    <3> HIDE DEF o
    <3> QED
      BY <2>1, <2>4, <3>1, <3>3, SettledFields DEF o
  <2> HIDE DEF o
  <2>7. Waited(p, held, firing \cup slots, call)
    BY <1>1, <2>5, DisconnectedWaited
  <2>8. \A s \in States : /\ p[s] # None <=> o[s] # None
                          /\ o[s] # None => p[s].completed = o[s].completed /\ p[s].source # u
    <3>1. o \in [States -> FunctionState \cup {None}]
      BY <2>5 DEF Sane, Typed
    <3> QED
      BY <2>2, <3>1, DisconnectedFields, ConstantsAssumption
  <2> HIDE DEF p, slots
  <2>9. Moves(call', call, c, "completing")
    BY <1>1, <2>3, PlaceMoves
  <2>10. \A d \in Calls : (call'[d] # None <=> call[d] # None) /\ call'[d].from = call[d].from
    BY <1>1, <2>9 DEF Moves
  <2>11. Resumed(call') = Resumed(call)
    BY <2>10 DEF Resumed, Busy
  <2>12. Waits(p, call')
    BY <2>7, <2>8, <2>11 DEF Waited, Waits, Served, CurrentIn
  <2>13. Emitted(p, call')
    <3> SUFFICES ASSUME NEW d \in Calls, NEW t \in States,
                        call'[d] # None, call'[d].pc = "completing", call'[d].from # None, p[t] # None
                 PROVE  p[t].source # p[call'[d].from].completed
      BY DEF Emitted
    <3>1. CASE d = c
      BY <2>1, <2>6, <2>7, <2>8, <2>10, <3>1
    <3>2. CASE d # c
      <4>1. call'[d] = call[d]
        BY <2>9, <3>2 DEF Moves
      <4> QED
        BY <2>7, <2>8, <4>1 DEF Waited, Emitted
    <3> QED
      BY <3>1, <3>2
  <2> QED
    BY <1>1, <2>3, <2>7, <2>8, <2>12, <2>13 DEF Waited
<1> QED
  BY <1>2, <1>3

(* An execution that awaits goes on in a new state, which emits for those  *)
(* who wait for it; the one it waits for has not emitted.                  *)
LEMMA AwaitWaited ==
  ASSUME IInv, Waited(state, held, firing, call),
         NEW c \in Calls, NEW n \in States, NEW x \in Signals \cup States,
         Await(c, n, x), ~disrupted'
  PROVE  Waited(state', held', firing', call')
<1> DEFINE f == call[c].from
<1>1. PICK p :
      /\ state' = Settled(p, held', firing', call')
      /\ held' \subseteq States
      /\ Sane(p, call', loaded', alive')
      /\ Able(p, n)
      /\ p[n].completed = Completed(f, n)
      /\ p[n].source = x
      /\ x \in States => p[n].operand = x
      /\ f \in States \cup {None}
      /\ f # n
      /\ f # None => /\ p[f] # None
                     /\ p[f].function = "Null"
                     /\ p[f].completed = state[f].completed
                     /\ p[f].source = state[f].source
      /\ \A s \in States : s \notin {n, f} => p[s] = state[s]
  BY AwaitAdds
<1>2. /\ call[c] # None
      /\ call' = [call EXCEPT ![c] = None]
      /\ call \in [Calls -> Execution \cup {None}]
      /\ firing' = firing
      /\ held' = held \/ held' = held \cup {n}
      /\ state[n] = None
      /\ Sane(state, call, loaded, alive)
  BY DEF Await, Fresh, IInv, Shape
<1>3. /\ f # None => held' = held
      /\ x \in States => x \in held /\ state[x] # None /\ Able(state, x)
  <2>1. disrupted' = (disrupted \/ (x \in States /\ ~Resumable(x)) \/ (f # None /\ held' # held))
    BY DEF Await
  <2>2. x \in Signals \/ x \in held \cap Objects
    BY DEF Await, Awaitable
  <2>3. x \in States => x \in held /\ Resumable(x)
    BY <2>1, <2>2, ConstantsAssumption
  <2> QED
    BY <2>1, <2>3, AbleNow DEF Able
<1>4. p[n] # None
  BY <1>1 DEF Able
<1>5. f # None =>
        /\ state[f] # None /\ state[f].lists = {}
        /\ \A d \in Calls : call[d] # None /\ call[d].from = f => d = c
  BY <1>1, <1>2, SaneExecutes DEF Executes
<1>6. /\ \A d \in Calls : d # c => call'[d] = call[d]
      /\ call'[c] = None
  BY <1>2
<1>7. \A s \in States : s # n => /\ p[s] # None <=> state[s] # None
                                 /\ p[s] # None => /\ p[s].completed = state[s].completed
                                                   /\ p[s].source = state[s].source
  BY <1>1, <1>5, ConstantsAssumption
<1>8. \A s \in States : s # f /\ state[s] # None /\ CurrentIn(state, call, s) =>
        s # n /\ CurrentIn(p, call', s)
  <2>1. \A s \in States : s # f /\ s \in Resumed(call) => s \in Resumed(call')
    BY <1>6, ResumedChar
  <2> QED
    BY <1>1, <1>2, <2>1 DEF CurrentIn, Able
<1>9. ASSUME NEW u \in States, Served(state, call, u)
      PROVE  Served(p, call', u)
  <2>1. u # n /\ p[u] # None /\ p[u].completed = u
    BY <1>2, <1>7, <1>9 DEF Served
  <2>2. PICK s \in States : state[s] # None /\ state[s].completed = u /\ CurrentIn(state, call, s)
    BY <1>9 DEF Served
  <2>3. CASE s = f
    <3>1. p[n].completed = u
      BY <1>1, <1>4, <2>2, <2>3, ConstantsAssumption DEF Completed
    <3> QED
      BY <1>1, <1>4, <2>1, <3>1 DEF Served, CurrentIn
  <2>4. CASE s # f
    BY <1>7, <1>8, <2>1, <2>2, <2>4 DEF Served
  <2> QED
    BY <2>3, <2>4
<1>10. x \in States => state[x].completed = x
  BY <1>3 DEF Waited, First
<1>11. Waits(p, call')
  <2> SUFFICES ASSUME NEW t \in States, p[t] # None, p[t].source \in States
               PROVE  Served(p, call', p[t].source)
    BY DEF Waits
  <2>1. CASE t = n
    <3>1. p[t].source = x /\ x \in States
      BY <1>1, <1>4, <2>1
    <3>2. Served(state, call, x)
      BY <1>3, <1>10, <3>1 DEF Served, CurrentIn
    <3> QED
      BY <1>9, <3>1, <3>2
  <2>2. CASE t # n
    BY <1>7, <1>9, <2>2 DEF Waited, Waits
  <2> QED
    BY <2>1, <2>2
<1>12. First(p, held')
  <2> SUFFICES ASSUME NEW h \in held' PROVE p[h] # None /\ p[h].completed = h
    BY DEF First
  <2>1. CASE h \in held
    <3>1. state[h] # None /\ state[h].completed = h /\ h \in States
      BY <1>1, <2>1 DEF Waited, First
    <3> QED
      BY <1>2, <1>7, <3>1
  <2>2. CASE h \notin held
    <3>1. h = n /\ f = None
      BY <1>2, <1>3, <2>2
    <3> QED
      BY <1>1, <1>4, <3>1 DEF Completed
  <2> QED
    BY <2>1, <2>2
<1>13. Emitted(p, call')
  <2> SUFFICES ASSUME NEW d \in Calls, NEW t \in States,
                      call'[d] # None, call'[d].pc = "completing", call'[d].from # None, p[t] # None
               PROVE  p[t].source # p[call'[d].from].completed
    BY DEF Emitted
  <2> DEFINE g == call'[d].from
  <2>1. d # c /\ call'[d] = call[d]
    BY <1>6
  <2>2. g \in States /\ state[g] # None /\ state[g] \in FunctionState /\ state[g].lists = {} /\ g # n
    <3>1. Executes(state, call, loaded, alive, d)
      BY <1>2, <2>1, SaneExecutes
    <3> QED
      BY <1>2, <2>1, <3>1 DEF Executes
  <2>3. p[g].completed = state[g].completed
    BY <1>7, <2>2
  <2>4. CASE t # n
    BY <1>7, <2>1, <2>2, <2>3, <2>4 DEF Waited, Emitted
  <2>5. CASE t = n /\ x \in Signals
    BY <1>1, <1>4, <2>2, <2>3, <2>5, ConstantsAssumption DEF FunctionState
  <2>6. CASE t = n /\ x \in States
    <3>1. CurrentIn(state, call, g) /\ CurrentIn(state, call, x)
      BY <1>2, <1>3, <2>1, <2>2, <2>6, ResumedChar DEF CurrentIn
    <3>2. x # g
      BY <1>3, <2>2, <2>6 DEF Able
    <3>3. state[g].completed # state[x].completed
      BY <1>2, <1>3, <2>2, <2>6, <3>1, <3>2 DEF Sane, Single
    <3> QED
      BY <1>1, <1>4, <1>10, <2>3, <2>6, <3>3
  <2> QED
    BY <2>4, <2>5, <2>6
<1>14. Due(p, firing)
  <2> SUFFICES ASSUME NEW s \in States, Able(p, s)
               PROVE  \/ s \in firing
                      \/ p[s].source \in Signals
                      \/ p[s].source \in States /\ p[s].operand = p[s].source
    BY DEF Due
  <2>1. CASE s = n
    BY <1>1, <2>1
  <2>2. CASE s # n
    <3>1. s # f
      BY <1>1, <2>2, ConstantsAssumption DEF Able
    <3>2. p[s] = state[s] /\ Able(state, s)
      BY <1>1, <2>2, <3>1 DEF Able
    <3> QED
      BY <3>2 DEF Waited, Due
  <2> QED
    BY <2>1, <2>2
<1> QED
  BY <1>1, <1>2, <1>11, <1>12, <1>13, <1>14, SettledWaited DEF Waited

WInv == ~disrupted => Waited(state, held, firing, call)

LEMMA WaitedStep == IInv /\ WInv /\ [Next]_vars => WInv'
<1> SUFFICES ASSUME IInv, WInv, [Next]_vars, ~disrupted'
             PROVE  Waited(state', held', firing', call')
  BY DEF WInv
<1>1. ASSUME Next PROVE ~disrupted
  BY <1>1 DEF Next, Execute, Environment, Invoke, Await, Callback, ResumeByHand, Enter, Overflow,
     Return, Finish, Emit, FreeEmitter, Refuse, Drop, FreeInstance, Instantiate, Reload, Unload, Load
<1>2. ~disrupted /\ Waited(state, held, firing, call)
  BY <1>1 DEF vars, WInv
<1>3. ASSUME NEW c \in Calls, Execute(c)
      PROVE  Waited(state', held', firing', call')
  <2>1. CASE \E x \in Scripts, i \in Instances \cup {None} : Invoke(c, x, i)
    BY <1>2, <2>1, InvokeWaited
  <2>2. CASE \E n \in States, x \in Signals \cup States : Await(c, n, x)
    BY <1>2, <2>2, AwaitWaited
  <2>3. CASE \E s \in States : Callback(c, s) \/ ResumeByHand(c, s)
    BY <1>2, <2>3, CallbackWaited DEF ResumeByHand
  <2>4. CASE Enter(c)
    BY <1>2, <2>4, EnterWaited
  <2>5. CASE Overflow(c)
    BY <2>5 DEF Overflow
  <2>6. CASE Return(c)
    BY <1>2, <2>6, ReturnWaited
  <2>7. CASE Finish(c)
    BY <1>2, <2>7, FinishWaited
  <2> QED
    BY <1>3, <2>1, <2>2, <2>3, <2>4, <2>5, <2>6, <2>7 DEF Execute
<1>4. ASSUME Environment
      PROVE  Waited(state', held', firing', call')
  <2>1. CASE \E x \in Signals : Emit(x) \/ FreeEmitter(x)
    BY <1>2, <2>1, EmitWaited DEF FreeEmitter
  <2>2. CASE \E s \in States : Refuse(s) \/ Drop(s)
    BY <1>2, <2>2, RefuseWaited, DropWaited
  <2>3. CASE \E i \in Instances : FreeInstance(i) \/ Instantiate(i)
    BY <1>2, <2>3 DEF FreeInstance, Instantiate
  <2>4. CASE \E x \in Scripts : Reload(x) \/ Unload(x) \/ Load(x)
    BY <1>2, <2>4 DEF Reload, Unload, Load
  <2> QED
    BY <1>4, <2>1, <2>2, <2>3, <2>4 DEF Environment
<1>5. CASE UNCHANGED vars
  BY <1>2, <1>5 DEF vars
<1> QED
  BY <1>3, <1>4, <1>5 DEF Next

(* As long as nothing cuts an execution short, whoever awaits a function   *)
(* waits for one that has yet to emit `completed`, however often it awaits *)
(* itself and whatever the program lets go of.                             *)
THEOREM AwaitedSafe == Spec => []Awaited
<1>1. Init => WInv
  <2> SUFFICES ASSUME Init PROVE WInv
    OBVIOUS
  <2>1. \A s \in States : state[s] = None
    BY DEF Init
  <2>2. \A c \in Calls : call[c] = None
    BY DEF Init
  <2>3. held = {}
    BY DEF Init
  <2> QED
    BY <2>1, <2>2, <2>3 DEF WInv, Waited, Waits, First, Emitted, Due, Able
<1>2. WInv => Awaited
  <2> SUFFICES ASSUME WInv, ~disrupted, NEW t \in States, state[t] # None, state[t].source \in States
               PROVE  \E s \in Objects : /\ state[s].completed = state[state[t].source].completed
                                         /\ Current(s)
    BY DEF Awaited, Objects
  <2>1. Served(state, call, state[t].source)
    BY DEF WInv, Waited, Waits
  <2> QED
    BY <2>1, AbleNow DEF Served, CurrentIn, Current, Objects
<1> QED
  BY <1>1, <1>2, WaitedStep, Invariance, PTL DEF Spec
=============================================================================
