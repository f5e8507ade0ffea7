---------------------------- MODULE Graph_proofs ----------------------------
(***************************************************************************)
(* Proofs about the two modules on graphs.                                 *)
(*                                                                         *)
(* RerouteGraph, for any sets of reroutes and pins: types, acyclic chains  *)
(* of reroutes and single wires at ordinary pins.                          *)
(*                                                                         *)
(* FlowOrder, for any graph of nodes and wires: what the back edges, the   *)
(* linear order and the merge points of the function analyzer are.  Its    *)
(* loops are stepped functions; what is true of all of their values is     *)
(* shown by induction in the form of LeastNumber: a least number at which  *)
(* it would fail.                                                          *)
(***************************************************************************)
EXTENDS RerouteGraph, FlowOrder, FiniteSetTheorems, TLAPS

Acyclic(w) == \A r \in Reroutes : r \notin Downstream(r, w)

(* The kids of n and of the reroutes below n are below n.                  *)
LEMMA DownstreamClosed ==
  ASSUME NEW n, NEW w
  PROVE  Closed(Downstream(n, w), n, w)
BY DEF Downstream, Closed, Kids

(* Downstream is the least closed set.                                     *)
LEMMA DownstreamLeast ==
  ASSUME NEW n, NEW w, NEW S \in SUBSET Reroutes, Closed(S, n, w)
  PROVE  Downstream(n, w) \subseteq S
BY DEF Downstream

(* Fewer wires reach fewer reroutes.                                       *)
LEMMA DownstreamMonotone ==
  ASSUME NEW n, NEW v, NEW w, v \subseteq w
  PROVE  Downstream(n, v) \subseteq Downstream(n, w)
<1>1. Downstream(n, w) \in SUBSET Reroutes
  BY DEF Downstream
<1>2. Closed(Downstream(n, w), n, v)
  BY DownstreamClosed DEF Closed, Kids
<1> QED
  BY <1>1, <1>2, DownstreamLeast

(* A reroute below another has an input wire.                              *)
LEMMA DownstreamFed ==
  ASSUME NEW n, NEW w, NEW m \in Downstream(n, w)
  PROVE  m \in Reroutes /\ \E k : <<k, m>> \in w
<1> DEFINE Fed == {r \in Reroutes : \E k : <<k, r>> \in w}
<1>1. Closed(Fed, n, w)
  BY DEF Closed, Kids
<1> QED
  BY <1>1, DownstreamLeast

LEMMA AcyclicSubset ==
  ASSUME NEW v, NEW w, v \subseteq w, Acyclic(w)
  PROVE  Acyclic(v)
BY DownstreamMonotone DEF Acyclic

(* A wire that would_create_cycle lets pass closes no loop.                *)
LEMMA AcyclicAdd ==
  ASSUME NEW w, NEW n, NEW m, Acyclic(w), ~WouldCreateCycle(n, m, w)
  PROVE  Acyclic(w \cup {<<n, m>>})
<1> DEFINE v == w \cup {<<n, m>>}
           D == {m} \cup Downstream(m, w)
<1> SUFFICES ASSUME NEW r \in Reroutes
             PROVE  r \notin Downstream(r, v)
  BY DEF Acyclic
<1>0. r \notin Downstream(r, w)
  BY DEF Acyclic
<1>1. CASE n \notin Reroutes \/ m \notin Reroutes
  <2>1. \A k \in Reroutes : Kids(k, v) = Kids(k, w)
    BY <1>1 DEF Kids
  <2>2. Closed(Downstream(r, w), r, v)
    BY <2>1, DownstreamClosed DEF Closed, Downstream
  <2>3. Downstream(r, w) \in SUBSET Reroutes
    BY DEF Downstream
  <2> QED
    BY <1>0, <2>2, <2>3, DownstreamLeast
<1>2. CASE n \in Reroutes /\ m \in Reroutes
  <2>1. n \notin D
    BY <1>2 DEF WouldCreateCycle
  <2>2. D \in SUBSET Reroutes /\ Downstream(r, w) \in SUBSET Reroutes
    BY <1>2 DEF Downstream
  <2>3. \A k \in D : Kids(k, w) \subseteq D
    BY DownstreamClosed DEF Closed
  <2>4. \A k \in Reroutes \ {n} : Kids(k, v) = Kids(k, w)
    BY DEF Kids
  <2>5. Kids(n, v) \subseteq Kids(n, w) \cup {m}
    BY DEF Kids
  <2>6. CASE r \in D
    <3>1. Closed(D, r, w)
      BY <2>3, <2>6 DEF Closed
    <3>2. n \notin Downstream(r, w)
      BY <2>1, <2>2, <3>1, DownstreamLeast
    <3>3. Closed(Downstream(r, w), r, v)
      BY <2>1, <2>2, <2>4, <2>6, <3>2, DownstreamClosed DEF Closed
    <3> QED
      BY <1>0, <2>2, <3>3, DownstreamLeast
  <2>7. CASE r \notin D
    <3> DEFINE S == Downstream(r, w) \cup D
    <3>1. Kids(r, v) \subseteq S
      BY <2>4, <2>5, DownstreamClosed DEF Closed
    <3>2. \A k \in S : Kids(k, v) \subseteq S
      BY <2>2, <2>3, <2>4, <2>5, DownstreamClosed DEF Closed
    <3>3. Closed(S, r, v)
      BY <3>1, <3>2 DEF Closed
    <3>4. Downstream(r, v) \subseteq S
      BY <2>2, <3>3, DownstreamLeast
    <3> QED
      BY <1>0, <2>7, <3>4
  <2> QED
    BY <2>6, <2>7
<1> QED
  BY <1>1, <1>2

-----------------------------------------------------------------------------
(***************************************************************************)
(* A good state: typed, with wires between nodes of the graph only, no     *)
(* loop of reroutes and single wires at ordinary pins.                     *)
(***************************************************************************)
Placed(s) == {r \in Reroutes : s.type[r] # "absent"}

Typed(s) ==
  /\ s = State(s.wires, s.type)
  /\ s.wires \subseteq Sources \X Targets
  /\ s.type \in [Reroutes -> Types]

Attached(s) ==
  \A c \in s.wires : {c[1], c[2]} \cap Reroutes \subseteq Placed(s)

Single(w) ==
  /\ \A x \in DataIn : \A c, d \in Into(x, w) : c = d
  /\ \A x \in ExecOut : \A c, d \in OutOf(x, w) : c = d

Good(s) == Typed(s) /\ Attached(s) /\ Acyclic(s.wires) /\ Single(s.wires)

LEMMA StateFields ==
  \A w, t : State(w, t).wires = w /\ State(w, t).type = t /\ State(w, t) = State(State(w, t).wires, State(w, t).type)
BY DEF State

(* What Unlink leaves: the other wires, and types that only change among   *)
(* the reroutes that are in the graph.                                     *)
LEMMA UnlinkResult ==
  ASSUME NEW s, Typed(s), Attached(s), NEW cs, NEW b \in Unlink(s, cs)
  PROVE  /\ b.wires = s.wires \ cs
         /\ Typed(b)
         /\ Placed(b) = Placed(s)
<1> DEFINE w == s.wires \ cs
           starved == {r \in Reroutes : Into(r, cs \cap s.wires) # {} /\ Into(r, w) = {}}
           retyped == starved \cup UNION {Downstream(r, w) : r \in starved}
           choices == {f \in [retyped -> Types] : \A r \in retyped : f[r] \in ResolvedTypes(r, w)}
           typing(f) == [r \in Reroutes |-> IF r \in retyped THEN f[r] ELSE s.type[r]]
<1>1. PICK f \in choices : b = State(w, typing(f))
  BY DEF Unlink
<1>2. b.wires = w /\ b.type = typing(f) /\ b = State(b.wires, b.type)
  BY <1>1, StateFields
<1>3. \A r \in retyped : f[r] \in Types \ {"absent"}
  BY DEF ResolvedTypes, Types
<1>4. typing(f) \in [Reroutes -> Types]
  BY <1>3 DEF Typed
<1>5. retyped \subseteq Placed(s)
  <2>1. \A r \in starved : r \in Placed(s)
    <3> SUFFICES ASSUME NEW r \in starved PROVE r \in Placed(s)
      OBVIOUS
    <3>1. PICK c \in s.wires : c[2] = r
      BY DEF Into
    <3> QED
      BY <3>1 DEF Attached
  <2>2. ASSUME NEW r, NEW m \in Downstream(r, w)
        PROVE  m \in Placed(s)
    <3>0. m \in Reroutes /\ \E k : <<k, m>> \in w
      BY <2>2, DownstreamFed
    <3>1. PICK k : <<k, m>> \in s.wires
      BY <3>0
    <3> QED
      BY <3>0, <3>1 DEF Attached
  <2> QED
    BY <2>1, <2>2
<1>6. Placed(b) = Placed(s)
  BY <1>2, <1>3, <1>5 DEF Placed
<1> QED
  BY <1>2, <1>4, <1>6 DEF Typed

LEMMA UnlinkGood ==
  ASSUME NEW s, Good(s), NEW cs, NEW b \in Unlink(s, cs)
  PROVE  Good(b) /\ b.wires = s.wires \ cs /\ Placed(b) = Placed(s)
<1>1. b.wires = s.wires \ cs /\ Typed(b) /\ Placed(b) = Placed(s)
  BY UnlinkResult DEF Good
<1>2. Attached(b)
  BY <1>1 DEF Good, Attached
<1>3. Acyclic(b.wires)
  BY <1>1, AcyclicSubset DEF Good
<1>4. Single(b.wires)
  BY <1>1 DEF Good, Single, Into, OutOf
<1> QED
  BY <1>1, <1>2, <1>3, <1>4 DEF Good

(* What Attach leaves: one more wire, and types that only change among the *)
(* reroutes that are in the graph.                                         *)
LEMMA AttachResult ==
  ASSUME NEW s, Typed(s), NEW n \in Sources, NEW m \in Targets,
         {n, m} \cap Reroutes \subseteq Placed(s), NEW b \in Attach(s, n, m)
  PROVE  /\ b.wires = s.wires \cup {<<n, m>>}
         /\ Typed(b)
         /\ Placed(b) = Placed(s)
<1> DEFINE w == s.wires \cup {<<n, m>>}
<1>0. w \subseteq Sources \X Targets
  BY DEF Typed
<1>1. CASE m \notin Reroutes
  <2>1. b = State(w, s.type)
    BY <1>1 DEF Attach
  <2>2. b.wires = w /\ b.type = s.type /\ b = State(b.wires, b.type)
    BY <2>1, StateFields
  <2> QED
    BY <1>0, <2>2 DEF Typed, Placed
<1>2. CASE m \in Reroutes
  <2>0. PICK a \in Adopted(m, w, s.type) :
          \E t \in Cascade([s.type EXCEPT ![m] = a], w, m) : b = State(w, t)
    BY <1>2 DEF Attach
  <2>1. PICK t \in Cascade([s.type EXCEPT ![m] = a], w, m) : b = State(w, t)
    BY <2>0
  <2> DEFINE u == [s.type EXCEPT ![m] = a]
             below == Downstream(m, w)
             untyped == {r \in below : u[r] = "any"}
             pushed(f) == [r \in Reroutes |-> IF r \in untyped THEN f[r] ELSE u[r]]
  <2>2. a \in Types \ {"absent"}
    BY <1>2 DEF Adopted, Types, Typed, Placed
  <2>3. u \in [Reroutes -> Types] /\ \A r \in Reroutes : u[r] = "absent" <=> s.type[r] = "absent"
    BY <1>2, <2>2 DEF Typed, Placed
  <2>4. PICK f \in [untyped -> {"data", "control"}] : t = pushed(f)
    BY <2>1 DEF Cascade
  <2>5. t \in [Reroutes -> Types] /\ \A r \in Reroutes : t[r] = "absent" <=> s.type[r] = "absent"
    BY <2>3, <2>4 DEF Types
  <2>6. b.wires = w /\ b.type = t /\ b = State(b.wires, b.type)
    BY <2>1, StateFields
  <2> QED
    BY <1>0, <2>5, <2>6 DEF Typed, Placed
<1> QED
  BY <1>1, <1>2

LEMMA LinkGood ==
  ASSUME NEW s, Good(s), NEW n \in Sources, NEW m \in Targets,
         {n, m} \cap Reroutes \subseteq Placed(s), NEW b \in Link(s, n, m)
  PROVE  Good(b) /\ Placed(b) = Placed(s)
<1> DEFINE ins == IF IsExecution(m, s.type) THEN {} ELSE Into(m, s.wires)
           outs == IF IsExecution(n, s.type) THEN OutOf(n, s.wires) ELSE {}
<1>1. CASE WouldCreateCycle(n, m, s.wires)
  BY <1>1 DEF Link
<1>2. CASE ~WouldCreateCycle(n, m, s.wires)
  <2>1. PICK a \in Unlink(s, ins \cup outs) : b \in Attach(a, n, m)
    BY <1>2 DEF Link
  <2>2. Good(a) /\ a.wires = s.wires \ (ins \cup outs) /\ Placed(a) = Placed(s)
    BY <2>1, UnlinkGood
  <2>3. b.wires = a.wires \cup {<<n, m>>} /\ Typed(b) /\ Placed(b) = Placed(s)
    BY <2>1, <2>2, AttachResult DEF Good
  <2>4. Attached(b)
    BY <2>2, <2>3 DEF Good, Attached
  <2>5. Acyclic(b.wires)
    <3>1. ~WouldCreateCycle(n, m, a.wires)
      BY <1>2, <2>2, DownstreamMonotone DEF WouldCreateCycle
    <3> QED
      BY <2>2, <2>3, <3>1, AcyclicAdd DEF Good
  <2>6. ASSUME NEW x \in DataIn, NEW c \in Into(x, b.wires), NEW d \in Into(x, b.wires)
        PROVE  c = d
    <3>1. CASE m = x
      <4>1. ~IsExecution(x, s.type)
        BY PinsAssumption DEF IsExecution, PinsAssumption
      <4>2. Into(x, a.wires) = {}
        BY <2>2, <3>1, <4>1 DEF Into
      <4> QED
        BY <2>3, <4>2 DEF Into
    <3>2. CASE m # x
      BY <2>2, <2>3, <3>2 DEF Good, Single, Into
    <3> QED
      BY <3>1, <3>2
  <2>7. ASSUME NEW x \in ExecOut, NEW c \in OutOf(x, b.wires), NEW d \in OutOf(x, b.wires)
        PROVE  c = d
    <3>1. CASE n = x
      <4>1. IsExecution(x, s.type)
        BY DEF IsExecution
      <4>2. OutOf(x, a.wires) = {}
        BY <2>2, <3>1, <4>1 DEF OutOf
      <4> QED
        BY <2>3, <4>2 DEF OutOf
    <3>2. CASE n # x
      BY <2>2, <2>3, <3>2 DEF Good, Single, OutOf
    <3> QED
      BY <3>1, <3>2
  <2> QED
    BY <2>3, <2>4, <2>5, <2>6, <2>7 DEF Good, Single
<1> QED
  BY <1>1, <1>2

LEMMA RemovedGood ==
  ASSUME NEW s, Good(s), NEW r \in Reroutes, NEW b \in Removed(s, r)
  PROVE  Good(b)
<1>1. PICK a \in Unlink(s, Into(r, s.wires)) :
        \E x \in Unlink(a, OutOf(r, a.wires)) : b = State(x.wires, [x.type EXCEPT ![r] = "absent"])
  BY DEF Removed
<1>2. Good(a) /\ a.wires = s.wires \ Into(r, s.wires)
  BY <1>1, UnlinkGood
<1>3. PICK x \in Unlink(a, OutOf(r, a.wires)) : b = State(x.wires, [x.type EXCEPT ![r] = "absent"])
  BY <1>1
<1>4. Good(x) /\ x.wires = a.wires \ OutOf(r, a.wires)
  BY <1>2, <1>3, UnlinkGood
<1>5. /\ b.wires = x.wires
      /\ b.type = [x.type EXCEPT ![r] = "absent"]
      /\ b = State(b.wires, b.type)
  BY <1>3, StateFields
<1>6. \A c \in b.wires : r # c[1] /\ r # c[2]
  BY <1>2, <1>4, <1>5 DEF Into, OutOf
<1>7. Typed(b)
  BY <1>4, <1>5 DEF Good, Typed, Types
<1>8. Attached(b)
  BY <1>4, <1>5, <1>6 DEF Good, Typed, Attached, Placed
<1> QED
  BY <1>4, <1>5, <1>7, <1>8 DEF Good

(* A reroute that is placed has no wires yet.                              *)
LEMMA PlacedGood ==
  ASSUME NEW s, Good(s), NEW q \in Reroutes, q \notin Placed(s), NEW t \in Types
  PROVE  /\ Good(State(s.wires, [s.type EXCEPT ![q] = t]))
         /\ t # "absent" => Placed(State(s.wires, [s.type EXCEPT ![q] = t])) = Placed(s) \cup {q}
<1> DEFINE b == State(s.wires, [s.type EXCEPT ![q] = t])
<1>1. b.wires = s.wires /\ b.type = [s.type EXCEPT ![q] = t] /\ b = State(b.wires, b.type)
  BY StateFields
<1>2. Typed(b)
  BY <1>1 DEF Good, Typed
<1>3. Placed(s) \subseteq Placed(b) /\ (t # "absent" => Placed(b) = Placed(s) \cup {q})
  BY <1>1 DEF Good, Typed, Placed
<1>4. Attached(b)
  BY <1>1, <1>3 DEF Good, Attached
<1> HIDE DEF b
<1>5. Good(b)
  BY <1>1, <1>2, <1>4 DEF Good
<1> QED
  BY <1>3, <1>5 DEF b

-----------------------------------------------------------------------------
(***************************************************************************)
(* The invariant.                                                          *)
(***************************************************************************)
IInv == Good(Now)

LEMMA NowFields ==
  Now.wires = wires /\ Now.type = type /\ Placed(Now) = Present /\ Now = State(Now.wires, Now.type)
BY StateFields DEF Now, Placed, Present

(* An operation that leaves a good state.                                  *)
LEMMA BecomesGood ==
  ASSUME NEW s, Good(s), Becomes(s)
  PROVE  IInv'
<1>1. s = State(wires', type')
  BY DEF Good, Typed, Becomes
<1>2. s = Now'
  BY <1>1 DEF Now, State
<1> QED
  BY <1>2 DEF IInv, Good, Typed, Attached, Placed, Single, Acyclic, Into, OutOf, Downstream, Closed, Kids, State

LEMMA InsertedGood ==
  ASSUME IInv, NEW c \in wires, NEW q \in Reroutes \ Present, NEW s \in Inserted(c, q)
  PROVE  Good(s)
<1>1. PICK a \in Unlink(Now, {c}) :
        \E b \in Link(State(a.wires, [a.type EXCEPT ![q] = "any"]), c[1], q) : s \in Link(b, q, c[2])
  BY DEF Inserted
<1> DEFINE p == State(a.wires, [a.type EXCEPT ![q] = "any"])
<1>2. PICK b \in Link(p, c[1], q) : s \in Link(b, q, c[2])
  BY <1>1
<1>3. c[1] \in Sources /\ c[2] \in Targets /\ {c[1], c[2]} \cap Reroutes \subseteq Present
  BY NowFields DEF IInv, Good, Typed, Attached
<1>4. q \in Sources /\ q \in Targets
  BY DEF Sources, Targets
<1>5. Good(a) /\ Placed(a) = Present
  BY <1>1, UnlinkGood, NowFields DEF IInv
<1>6. Good(p) /\ Placed(p) = Present \cup {q}
  BY <1>5, PlacedGood DEF Types
<1> HIDE DEF p
<1>7. Good(b) /\ Placed(b) = Present \cup {q}
  BY <1>2, <1>3, <1>4, <1>6, LinkGood
<1> QED
  BY <1>2, <1>3, <1>4, <1>7, LinkGood

LEMMA DissolvedGood ==
  ASSUME IInv, NEW r \in Reroutes, NEW s \in Dissolved(r)
  PROVE  Good(s)
<1>1. PICK a : s \in Removed(a, r)
               /\ \/ a = Now
                  \/ \E i \in Into(r, wires), o \in OutOf(r, wires) : a \in Link(Now, i[1], o[2])
  BY DEF Dissolved
<1>2. ASSUME NEW i \in Into(r, wires), NEW o \in OutOf(r, wires), a \in Link(Now, i[1], o[2])
      PROVE  Good(a)
  <2>1. /\ i[1] \in Sources /\ o[2] \in Targets
        /\ {i[1], o[2]} \cap Reroutes \subseteq Placed(Now)
    BY NowFields DEF IInv, Good, Typed, Attached, Into, OutOf
  <2> QED
    BY <1>2, <2>1, LinkGood DEF IInv
<1>3. Good(a)
  BY <1>1, <1>2 DEF IInv
<1> QED
  BY <1>1, <1>3, RemovedGood

LEMMA InvInit == Init => IInv
<1> SUFFICES ASSUME Init PROVE IInv
  OBVIOUS
<1>1. Now.wires = {} /\ Now.type = [r \in Reroutes |-> "absent"] /\ Now = State(Now.wires, Now.type)
  BY NowFields DEF Init
<1>2. Acyclic({})
  <2>1. \A r \in Reroutes : Closed({}, r, {})
    BY DEF Closed, Kids
  <2> QED
    BY <2>1, DownstreamLeast DEF Acyclic
<1> QED
  BY <1>1, <1>2 DEF IInv, Good, Typed, Attached, Single, Types, Into, OutOf

LEMMA InvStep == IInv /\ [Next]_vars => IInv'
<1> SUFFICES ASSUME IInv, [Next]_vars
             PROVE  IInv'
  OBVIOUS
<1> USE NowFields
<1>1. ASSUME NEW q \in Reroutes, PlaceReroute(q)
      PROVE  IInv'
  <2>1. Good(State(Now.wires, [Now.type EXCEPT ![q] = "any"]))
    BY <1>1, PlacedGood DEF PlaceReroute, IInv, Types
  <2> QED
    BY <1>1, <2>1 DEF PlaceReroute, IInv, Good, Typed, Attached, Placed, Single, Acyclic, Into, OutOf,
                      Downstream, Closed, Kids, State, Now
<1>2. ASSUME NEW r \in Reroutes, NEW q \in Reroutes, DuplicateReroute(r, q)
      PROVE  IInv'
  <2>1. type[r] \in Types
    BY DEF IInv, Good, Typed
  <2>2. Good(State(Now.wires, [Now.type EXCEPT ![q] = type[r]]))
    BY <1>2, <2>1, PlacedGood DEF DuplicateReroute, IInv
  <2> QED
    BY <1>2, <2>2 DEF DuplicateReroute, IInv, Good, Typed, Attached, Placed, Single, Acyclic, Into, OutOf,
                      Downstream, Closed, Kids, State, Now
<1>3. ASSUME NEW n \in Sources, NEW m \in Targets, Connect(n, m)
      PROVE  IInv'
  BY <1>3, LinkGood, BecomesGood DEF Connect, IInv
<1>4. ASSUME NEW c \in wires, Disconnect(c)
      PROVE  IInv'
  BY <1>4, UnlinkGood, BecomesGood DEF Disconnect, IInv
<1>5. ASSUME NEW r \in Reroutes, RemoveReroute(r)
      PROVE  IInv'
  BY <1>5, RemovedGood, BecomesGood DEF RemoveReroute, IInv
<1>6. ASSUME NEW c \in wires, NEW q \in Reroutes, InsertReroute(c, q)
      PROVE  IInv'
  BY <1>6, InsertedGood, BecomesGood DEF InsertReroute
<1>7. ASSUME NEW r \in Reroutes, DissolveReroute(r)
      PROVE  IInv'
  BY <1>7, DissolvedGood, BecomesGood DEF DissolveReroute
<1>8. CASE UNCHANGED vars
  BY <1>8 DEF vars, IInv, Good, Typed, Attached, Placed, Single, Acyclic, Into, OutOf,
              Downstream, Closed, Kids, State, Now
<1> QED
  BY <1>1, <1>2, <1>3, <1>4, <1>5, <1>6, <1>7, <1>8 DEF Next

(* Every reachable state is good.                                          *)
THEOREM Invariance == Spec => []IInv
<1> QED
  BY InvInit, InvStep, PTL DEF Spec

(* Types are correct and the wires of a removed reroute are gone.          *)
THEOREM TypeCorrect == Spec => []TypeOK
<1>1. IInv => TypeOK
  BY NowFields DEF IInv, Good, Typed, Attached, TypeOK
<1> QED
  BY <1>1, Invariance, PTL

(* No sequence of operations closes a loop of reroutes.                    *)
THEOREM ReroutesAcyclicSafe == Spec => []ReroutesAcyclic
<1>1. IInv => ReroutesAcyclic
  BY NowFields DEF IInv, Good, Acyclic, ReroutesAcyclic
<1> QED
  BY <1>1, Invariance, PTL

LEMMA AtMostOne ==
  ASSUME NEW S, \A c, d \in S : c = d
  PROVE  Cardinality(S) <= 1
<1>1. CASE S = {}
  BY <1>1, FS_EmptySet
<1>2. CASE S # {}
  <2>1. PICK c \in S : S = {c}
    BY <1>2
  <2>2. Cardinality({c}) = 1
    BY FS_Singleton
  <2> QED
    BY <2>1, <2>2
<1> QED
  BY <1>1, <1>2

(* Ordinary data inputs and execution outputs have one wire at most.       *)
THEOREM SingleWireSafe == Spec => []SingleWire
<1>1. IInv => SingleWire
  BY NowFields, AtMostOne DEF IInv, Good, Single, SingleWire
<1> QED
  BY <1>1, Invariance, PTL
-----------------------------------------------------------------------------
(***************************************************************************)
(* Rewiring: insertion and dissolution keep the ends of a wire joined.     *)
(***************************************************************************)

(* A kid's reroutes are its parent's.                                      *)
LEMMA DownstreamStep ==
  ASSUME NEW w, NEW n, NEW m \in Kids(n, w)
  PROVE  m \in Downstream(n, w) /\ Downstream(m, w) \subseteq Downstream(n, w)
<1>1. m \in Downstream(n, w) /\ Downstream(n, w) \in SUBSET Reroutes
  BY DownstreamClosed DEF Closed, Downstream
<1>2. Closed(Downstream(n, w), m, w)
  BY <1>1, DownstreamClosed DEF Closed
<1> QED
  BY <1>1, <1>2, DownstreamLeast

(* The far end of a wire never leads back to its source.                   *)
LEMMA NoWayBack ==
  ASSUME NEW w, Acyclic(w), NEW n, NEW m, <<n, m>> \in w
  PROVE  ~WouldCreateCycle(n, m, w)
<1> SUFFICES ASSUME n \in Reroutes, m \in Reroutes, n \in {m} \cup Downstream(m, w)
             PROVE  FALSE
  BY DEF WouldCreateCycle
<1>1. m \in Kids(n, w)
  BY DEF Kids
<1>2. n \in Downstream(n, w)
  BY <1>1, DownstreamStep
<1> QED
  BY <1>2 DEF Acyclic

(* What a link that closes no loop keeps: every wire at other pins.        *)
LEMMA LinkResult ==
  ASSUME NEW s, Good(s), NEW n \in Sources, NEW m \in Targets,
         {n, m} \cap Reroutes \subseteq Placed(s), ~WouldCreateCycle(n, m, s.wires),
         NEW b \in Link(s, n, m)
  PROVE  /\ <<n, m>> \in b.wires
         /\ b.wires \subseteq s.wires \cup {<<n, m>>}
         /\ \A d \in s.wires : d[1] # n /\ d[2] # m => d \in b.wires
<1> DEFINE ins == IF IsExecution(m, s.type) THEN {} ELSE Into(m, s.wires)
           outs == IF IsExecution(n, s.type) THEN OutOf(n, s.wires) ELSE {}
<1>1. PICK a \in Unlink(s, ins \cup outs) : b \in Attach(a, n, m)
  BY DEF Link
<1>2. Good(a) /\ a.wires = s.wires \ (ins \cup outs) /\ Placed(a) = Placed(s)
  BY <1>1, UnlinkGood
<1>3. b.wires = a.wires \cup {<<n, m>>}
  BY <1>1, <1>2, AttachResult DEF Good
<1> QED
  BY <1>2, <1>3 DEF Into, OutOf

(* Inserting a reroute joins the ends of the wire through it.              *)
LEMMA InsertedJoins ==
  ASSUME IInv, NEW c \in wires, NEW q \in Reroutes \ Present, NEW s \in Inserted(c, q)
  PROVE  {<<c[1], q>>, <<q, c[2]>>} \subseteq s.wires
<1> DEFINE n == c[1]
           m == c[2]
<1>1. PICK a \in Unlink(Now, {c}) :
        \E b \in Link(State(a.wires, [a.type EXCEPT ![q] = "any"]), n, q) : s \in Link(b, q, m)
  BY DEF Inserted
<1> DEFINE p == State(a.wires, [a.type EXCEPT ![q] = "any"])
<1>2. PICK b \in Link(p, n, q) : s \in Link(b, q, m)
  BY <1>1
<1>3. /\ n \in Sources /\ m \in Targets /\ c = <<n, m>>
      /\ {n, m} \cap Reroutes \subseteq Present
      /\ q \in Sources /\ q \in Targets
  BY NowFields DEF IInv, Good, Typed, Attached, Sources, Targets
<1>4. Good(a) /\ Placed(a) = Present /\ a.wires = wires \ {c}
  BY <1>1, UnlinkGood, NowFields DEF IInv
<1>5. Good(p) /\ Placed(p) = Present \cup {q} /\ p.wires = wires \ {c}
  BY <1>4, PlacedGood, StateFields DEF Types
<1> HIDE DEF p
<1>6. \A d \in wires : d[1] # q /\ d[2] # q
  BY NowFields DEF IInv, Good, Attached
<1>7. n # q /\ m # q
  BY <1>3
<1>8. ~WouldCreateCycle(n, q, p.wires)
  <2>1. Kids(q, p.wires) = {}
    BY <1>5, <1>6 DEF Kids
  <2>2. Closed({}, q, p.wires)
    BY <2>1 DEF Closed
  <2>3. Downstream(q, p.wires) = {}
    BY <2>2, DownstreamLeast
  <2> QED
    BY <1>7, <2>3 DEF WouldCreateCycle
<1>9. /\ Good(b) /\ Placed(b) = Present \cup {q}
      /\ <<n, q>> \in b.wires /\ b.wires \subseteq wires \cup {<<n, q>>}
  BY <1>2, <1>3, <1>5, <1>8, LinkGood, LinkResult
<1>10. ~WouldCreateCycle(q, m, b.wires)
  <2> SUFFICES ASSUME m \in Reroutes
               PROVE  q \notin {m} \cup Downstream(m, b.wires)
    BY DEF WouldCreateCycle
  <2> DEFINE S == Downstream(m, wires)
  <2>1. S \in SUBSET Reroutes /\ Closed(S, m, wires)
    BY DownstreamClosed DEF Downstream
  <2>2. n \notin {m} \cup S
    BY <1>3, <2>1, NoWayBack, NowFields DEF IInv, Good, WouldCreateCycle
  <2>3. q \notin S
    <3> SUFFICES ASSUME q \in S PROVE FALSE
      OBVIOUS
    <3>1. PICK k : <<k, q>> \in wires
      BY DownstreamFed
    <3> QED
      BY <1>6, <3>1
  <2>4. \A k \in Reroutes \ {n} : Kids(k, b.wires) \subseteq Kids(k, wires)
    BY <1>9 DEF Kids
  <2>5. Closed(S, m, b.wires)
    BY <2>1, <2>2, <2>4 DEF Closed
  <2> QED
    BY <1>7, <2>1, <2>3, <2>5, DownstreamLeast
<1> QED
  BY <1>2, <1>3, <1>7, <1>9, <1>10, LinkResult

(* Dissolving a reroute joins the ends of its two wires.                   *)
LEMMA DissolvedJoins ==
  ASSUME IInv, NEW r \in Present, Dissolvable(r),
         NEW i \in Into(r, wires), NEW o \in OutOf(r, wires), NEW s \in Dissolved(r)
  PROVE  <<i[1], o[2]>> \in s.wires
<1> DEFINE n == i[1]
           m == o[2]
<1>1. Into(r, wires) = {i} /\ OutOf(r, wires) = {o}
  BY DEF Dissolvable
<1>2. PICK a \in Link(Now, n, m) : s \in Removed(a, r)
  BY <1>1 DEF Dissolved
<1>3. /\ n \in Sources /\ m \in Targets /\ {n, m} \cap Reroutes \subseteq Placed(Now)
      /\ <<n, r>> \in wires /\ <<r, m>> \in wires /\ r \in Reroutes
  BY NowFields DEF IInv, Good, Typed, Attached, Into, OutOf, Present
<1>4. Acyclic(wires)
  BY NowFields DEF IInv, Good
<1>5. ~WouldCreateCycle(n, r, wires) /\ ~WouldCreateCycle(r, m, wires)
  BY <1>3, <1>4, NoWayBack
<1>6. n # r /\ m # r
  BY <1>3, <1>5 DEF WouldCreateCycle
<1>7. ~WouldCreateCycle(n, m, Now.wires)
  <2> SUFFICES ASSUME n \in Reroutes, m \in Reroutes, n \in {m} \cup Downstream(m, wires)
               PROVE  FALSE
    BY NowFields DEF WouldCreateCycle
  <2>1. m \in Kids(r, wires)
    BY <1>3 DEF Kids
  <2>2. n \in Downstream(r, wires)
    BY <2>1, DownstreamStep
  <2> QED
    BY <1>3, <1>5, <2>2 DEF WouldCreateCycle
<1>8. Good(a) /\ <<n, m>> \in a.wires
  BY <1>2, <1>3, <1>7, LinkGood, LinkResult DEF IInv
<1>9. PICK x \in Unlink(a, Into(r, a.wires)) :
        \E y \in Unlink(x, OutOf(r, x.wires)) : s = State(y.wires, [y.type EXCEPT ![r] = "absent"])
  BY <1>2 DEF Removed
<1>10. Good(x) /\ x.wires = a.wires \ Into(r, a.wires)
  BY <1>8, <1>9, UnlinkGood
<1>11. PICK y \in Unlink(x, OutOf(r, x.wires)) : s = State(y.wires, [y.type EXCEPT ![r] = "absent"])
  BY <1>9
<1>12. y.wires = x.wires \ OutOf(r, x.wires) /\ s.wires = y.wires
  BY <1>10, <1>11, UnlinkGood, StateFields
<1> QED
  BY <1>6, <1>8, <1>10, <1>12 DEF Into, OutOf

(* Insertion and dissolution never cut a flow, whatever types the reroutes *)
(* have come to: the second link they make is never refused as a loop and  *)
(* never takes the first one's wire.                                       *)
THEOREM RewireKeepsEndsSafe == Spec => []RewireKeepsEnds
<1>1. IInv => RewireKeepsEnds
  BY InsertedJoins, DissolvedJoins DEF RewireKeepsEnds
<1> QED
  BY <1>1, Invariance, PTL

-----------------------------------------------------------------------------
(* FlowOrder: induction and runs.                                          *)

(* Every set of numbers that is not empty has a least element.             *)
LEMMA LeastNumber ==
  ASSUME NEW T, T \subseteq Nat, T # {}
  PROVE  \E n \in T : \A m \in T : n <= m
<1> PICK b \in T : TRUE OBVIOUS
<1> DEFINE U == {0..n : n \in {m \in T : m <= b}}
<1>0. IsFiniteSet(0..b)
  BY FS_Interval
<1>1. U \subseteq FiniteSubsetsOf(0..b)
  <2> SUFFICES ASSUME NEW n \in T, n <= b PROVE 0..n \in FiniteSubsetsOf(0..b)
    OBVIOUS
  <2>1. 0..n \subseteq 0..b OBVIOUS
  <2> QED BY <2>1, <1>0, FS_Subset DEF FiniteSubsetsOf
<1>2. IsWellFoundedOn(StrictSubsetOrdering(0..b), FiniteSubsetsOf(0..b))
  BY FS_StrictSubsetOrderingWellFounded
<1>3. U # {}
  OBVIOUS
<1> HIDE DEF U
<1>4. PICK u \in U : \A y \in U : <<y, u>> \notin StrictSubsetOrdering(0..b)
  BY <1>1, <1>2, <1>3, WFMin
<1> USE DEF U
<1>5. PICK n \in T : n <= b /\ u = 0..n
  OBVIOUS
<1>6. ASSUME NEW m \in T, m < n PROVE FALSE
  <2>1. 0..m \in U BY <1>5, <1>6
  <2>2. 0..m # 0..n
    <3>1. n \in 0..n /\ n \notin 0..m BY <1>6
    <3> QED BY <3>1
  <2>3. 0..m \subseteq 0..b /\ 0..n \subseteq 0..b /\ 0..m \subseteq 0..n BY <1>5, <1>6
  <2>4. <<0..m, 0..n>> \in StrictSubsetOrdering(0..b)
    BY <2>2, <2>3 DEF StrictSubsetOrdering
  <2> QED BY <2>1, <2>4, <1>4, <1>5
<1>7. \A m \in T : n <= m BY <1>6
<1> QED BY <1>7

(* Induction, for a set of numbers.                                        *)
LEMMA Induction ==
  ASSUME NEW P, 0 \in P, \A n \in Nat : n \in P => n + 1 \in P
  PROVE  Nat \subseteq P
<1> SUFFICES ASSUME Nat \ P # {} PROVE FALSE OBVIOUS
<1>1. PICK n \in Nat \ P : \A m \in Nat \ P : n <= m
  BY LeastNumber
<1>2. n # 0 /\ n - 1 \in Nat /\ ~(n <= n - 1) /\ n = (n - 1) + 1
  OBVIOUS
<1>3. n - 1 \in P
  BY <1>1, <1>2
<1> QED BY <1>2, <1>3

(* f takes the step F, N times, from start on.                             *)
IsRun(f, F, start, N) == f[0] = start /\ \A k \in 1..N : f[k] = F[f[k - 1]]

(* A step F from states to states can be taken any number of times.        *)
LEMMA RunExists ==
  ASSUME NEW S, NEW F \in [S -> S], NEW start \in S, NEW N \in Nat
  PROVE  \E f \in [0..N -> S] : IsRun(f, F, start, N)
<1> DEFINE Run(f, b) == f[0] = start /\ \A k \in 1..b : f[k] = F[f[k - 1]]
           P == {b \in Nat : \E f \in [0..b -> S] : Run(f, b)}
<1>1. 0 \in P
  <2> DEFINE f == [k \in 0..0 |-> start]
  <2>1. f \in [0..0 -> S] /\ Run(f, 0) OBVIOUS
  <2> QED BY <2>1
<1>2. ASSUME NEW b \in Nat, b \in P PROVE b + 1 \in P
  <2>1. PICK f \in [0..b -> S] : Run(f, b) BY <1>2
  <2> DEFINE h == [k \in 0..(b + 1) |-> IF k = b + 1 THEN F[f[b]] ELSE f[k]]
  <2>2. h \in [0..(b + 1) -> S] OBVIOUS
  <2>3. h[0] = start BY <2>1
  <2>4. ASSUME NEW k \in 1..(b + 1) PROVE h[k] = F[h[k - 1]]
    <3>1. CASE k = b + 1 BY <3>1
    <3>2. CASE k # b + 1
      <4>1. k \in 1..b /\ k - 1 \in 0..b /\ k - 1 # b + 1 /\ k \in 0..(b + 1) /\ k - 1 \in 0..(b + 1) BY <3>2
      <4>2. f[k] = F[f[k - 1]] BY <4>1, <2>1
      <4> QED BY <4>1, <4>2, <3>2
    <3> QED BY <3>1, <3>2
  <2>5. h \in [0..(b + 1) -> S] /\ Run(h, b + 1)
    BY <2>2, <2>3, <2>4
  <2> HIDE DEF h
  <2> QED BY <2>5
<1>3. N \in P
  <2> HIDE DEF P
  <2> QED BY <1>1, <1>2, Induction
<1> QED BY <1>3 DEF IsRun

(* The nodes of a graph and its edges, pairs of nodes that a wire leads    *)
(* from and to.                                                            *)
Nodes(succ) == DOMAIN succ
Edges(succ) == {e \in Nodes(succ) \X Nodes(succ) : \E i \in DOMAIN succ[e[1]] : succ[e[1]][i] = e[2]}

(* n is in every set that p is in and that no edge of es leads out of.     *)
Leads(succ, es, p, n) ==
    \A C \in SUBSET Nodes(succ) : (p \in C /\ \A e \in es : e[1] \in C => e[2] \in C) => n \in C

(* What IsGraph says of the nodes and of their successors.                 *)
LEMMA GraphFacts ==
  ASSUME NEW succ, IsGraph(succ)
  PROVE  /\ Nodes(succ) = 1..Len(succ) /\ Len(succ) \in Nat /\ 1 \in Nodes(succ)
         /\ \A n \in Nodes(succ) : /\ succ[n] \in Seq(Nodes(succ)) /\ Len(succ[n]) \in Nat
                                  /\ DOMAIN succ[n] = 1..Len(succ[n])
                                  /\ \A i \in 1..Len(succ[n]) : succ[n][i] \in Nodes(succ)
<1>1. succ \in Seq(Seq(1..Len(succ))) /\ succ # <<>>
  BY DEF IsGraph
<1>2. Nodes(succ) = 1..Len(succ) /\ Len(succ) \in Nat
  BY <1>1 DEF Nodes
<1>3. 1 \in Nodes(succ)
  BY <1>1, <1>2
<1>4. \A n \in Nodes(succ) : succ[n] \in Seq(Nodes(succ))
  BY <1>1, <1>2
<1>5. \A n \in Nodes(succ) : /\ Len(succ[n]) \in Nat
                             /\ DOMAIN succ[n] = 1..Len(succ[n])
                             /\ \A i \in 1..Len(succ[n]) : succ[n][i] \in Nodes(succ)
  BY <1>4
<1> QED BY <1>2, <1>3, <1>4, <1>5

(* Edges are the pairs of a node and one of its successors.                *)
LEMMA EdgeFacts ==
  ASSUME NEW succ, IsGraph(succ)
  PROVE  /\ \A n \in Nodes(succ) : \A i \in 1..Len(succ[n]) : <<n, succ[n][i]>> \in Edges(succ)
         /\ \A e \in Edges(succ) : /\ e = <<e[1], e[2]>> /\ e[1] \in Nodes(succ) /\ e[2] \in Nodes(succ)
                                   /\ \E i \in 1..Len(succ[e[1]]) : succ[e[1]][i] = e[2]
<1>1. ASSUME NEW n \in Nodes(succ), NEW i \in 1..Len(succ[n]) PROVE <<n, succ[n][i]>> \in Edges(succ)
  <2>1. succ[n][i] \in Nodes(succ) /\ i \in DOMAIN succ[n]
    BY GraphFacts
  <2> QED BY <2>1 DEF Edges
<1>2. ASSUME NEW e \in Edges(succ)
      PROVE  e[1] \in Nodes(succ) /\ e[2] \in Nodes(succ) /\ e = <<e[1], e[2]>>
             /\ \E i \in DOMAIN succ[e[1]] : succ[e[1]][i] = e[2]
  BY DEF Edges
<1>3. ASSUME NEW e \in Edges(succ) PROVE DOMAIN succ[e[1]] = 1..Len(succ[e[1]])
  BY <1>2, GraphFacts
<1> QED BY <1>1, <1>2, <1>3

(* A way can be followed along one more edge.                              *)
LEMMA LeadsOn ==
  ASSUME NEW succ, NEW es, NEW p, NEW n, NEW m, Leads(succ, es, p, n), <<n, m>> \in es
  PROVE  Leads(succ, es, p, m)
BY DEF Leads

(* Every node leads to itself.                                             *)
LEMMA LeadsSelf ==
  ASSUME NEW succ, NEW es, NEW p
  PROVE  Leads(succ, es, p, p)
BY DEF Leads

(* More edges, more ways.                                                  *)
LEMMA LeadsMore ==
  ASSUME NEW succ, NEW es, NEW fs, es \subseteq fs, NEW p, NEW n, Leads(succ, es, p, n)
  PROVE  Leads(succ, fs, p, n)
BY DEF Leads

-----------------------------------------------------------------------------
(* The search for back edges.                                              *)

(* The states of the depth first search.                                   *)
SearchState(succ) ==
    [path : Seq(Nodes(succ)), tried : [Nodes(succ) -> Nat], visited : SUBSET Nodes(succ),
     back : SUBSET (Nodes(succ) \X Nodes(succ))]

(* The nodes whose call of classify has returned.                          *)
Finished(s) == s.visited \ Range(s.path)

(* What the search remembers is what it did: all nodes on the active path  *)
(* were visited, those that were left have no successor that was not       *)
(* looked at, and every successor that was looked at was visited.          *)
Tracked(succ, s) ==
    /\ 1 \in s.visited
    /\ \A i \in DOMAIN s.path : s.path[i] \in s.visited
    /\ \A i, j \in DOMAIN s.path : s.path[i] = s.path[j] => i = j
    /\ \A n \in Nodes(succ) : s.tried[n] <= Len(succ[n])
    /\ \A n \in Nodes(succ) : n \notin s.visited => s.tried[n] = 0
    /\ \A n \in Finished(s) : s.tried[n] = Len(succ[n])
    /\ \A n \in Nodes(succ) : \A i \in 1..(s.tried[n]) : succ[n][i] \in s.visited

(* The edges of tree, those the search went down, lead from the entry to   *)
(* all nodes it visited, along the active path, and from the end of every  *)
(* back edge to its beginning; out of a node on the path only the one that *)
(* the path takes leads to a node that was not left.                       *)
Leading(succ, s, tree) ==
    /\ tree \in SUBSET Edges(succ) /\ \A e \in tree : e \notin s.back /\ e[1] \in s.visited
    /\ \A n \in s.visited : Leads(succ, tree, 1, n)
    /\ \A i, j \in DOMAIN s.path : i <= j => Leads(succ, tree, s.path[i], s.path[j])
    /\ \A e \in s.back : e \in Edges(succ) /\ e[2] \in s.visited /\ Leads(succ, tree, e[2], e[1])
    /\ \A e \in tree : \A i \in DOMAIN s.path :
           e[1] = s.path[i] => e[2] \in Finished(s) \/ (i < Len(s.path) /\ e[2] = s.path[i + 1])

(* There are such edges: which they are is not recorded in the state.      *)
Grown(succ, s) == \E tree : Leading(succ, s, tree)

(* What a node on the active path was found to lead to: a node on the path *)
(* (a back edge), a node that was left, or the next node of the path.      *)
Onward(succ, s) ==
    \A i \in DOMAIN s.path : \A j \in 1..(s.tried[s.path[i]]) :
        \/ <<s.path[i], succ[s.path[i]][j]>> \in s.back
        \/ succ[s.path[i]][j] \in Finished(s)
        \/ i < Len(s.path) /\ succ[s.path[i]][j] = s.path[i + 1]

(* f has values below b on the nodes of X; the edges es do not leave X and *)
(* f falls along each of them.                                             *)
Falls(succ, es, X, f, b) ==
    /\ \A x \in X : f[x] < b
    /\ \A e \in es : e[1] \in X => e[2] \in X /\ f[e[2]] < f[e[1]]

(* The nodes that were left can be ranked so that all edges but the back   *)
(* edges lead downwards: they close no cycle.                              *)
Ranked(succ, s) ==
    \E f \in [Nodes(succ) -> Nat] : \E b \in Nat : Falls(succ, Edges(succ) \ s.back, Finished(s), f, b)

(* The invariant of the search.                                            *)
Searched(succ) ==
    {s \in SearchState(succ) : Tracked(succ, s) /\ Grown(succ, s) /\ Onward(succ, s) /\ Ranked(succ, s)}

(* The search starts in it.                                                *)
LEMMA SearchStarts ==
  ASSUME NEW succ, IsGraph(succ)
  PROVE  SearchStart(succ) \in Searched(succ)
<1> DEFINE s == SearchStart(succ)
<1>1. s = [path |-> <<1>>, tried |-> [n \in Nodes(succ) |-> 0], visited |-> {1}, back |-> {}]
  BY DEF SearchStart, Nodes
<1>2. s \in SearchState(succ)
  BY <1>1, GraphFacts DEF SearchState
<1> HIDE DEF s
<1>3. s.path = <<1>> /\ Len(s.path) = 1 /\ DOMAIN s.path = {1} /\ s.path[1] = 1
      /\ s.visited = {1} /\ s.back = {}
      /\ \A n \in Nodes(succ) : s.tried[n] = 0
  BY <1>1
<1>4. Finished(s) = {}
  BY <1>3 DEF Finished, Range
<1>5. Tracked(succ, s)
  BY <1>3, <1>4, GraphFacts DEF Tracked
<1>6. Grown(succ, s)
  <2>1. Leading(succ, s, {}) BY <1>3, LeadsSelf DEF Leading
  <2> QED BY <2>1 DEF Grown
<1>7. Onward(succ, s)
  BY <1>3, GraphFacts DEF Onward
<1>8. Ranked(succ, s)
  <2>1. [n \in Nodes(succ) |-> 0] \in [Nodes(succ) -> Nat] /\ 0 \in Nat OBVIOUS
  <2>2. Falls(succ, Edges(succ) \ s.back, Finished(s), [n \in Nodes(succ) |-> 0], 0)
    BY <1>4 DEF Falls
  <2> QED BY <2>1, <2>2 DEF Ranked
<1> QED BY <1>2, <1>5, <1>6, <1>7, <1>8 DEF s, Searched

(* The innermost call, of n, returns.                                      *)
Returns(succ, s, t, n) ==
    /\ s.path # <<>> /\ n = s.path[Len(s.path)] /\ s.tried[n] = Len(succ[n])
    /\ t = [s EXCEPT !.path = SubSeq(s.path, 1, Len(s.path) - 1)]

(* A return preserves it: the node is ranked above all that were left      *)
(* before.                                                                 *)
LEMMA SearchReturns ==
  ASSUME NEW succ, IsGraph(succ), NEW s \in Searched(succ), NEW t, NEW n, Returns(succ, s, t, n)
  PROVE  /\ t \in Searched(succ) /\ t.tried = s.tried
         /\ Finished(t) = Finished(s) \cup {n} /\ n \in Nodes(succ) \ Finished(s)
<1> DEFINE l == Len(s.path)
<1>0. s \in SearchState(succ) /\ Tracked(succ, s) /\ Grown(succ, s) /\ Onward(succ, s) /\ Ranked(succ, s)
  BY DEF Searched
<1>1. /\ s.path \in Seq(Nodes(succ)) /\ s.tried \in [Nodes(succ) -> Nat] /\ s.visited \in SUBSET Nodes(succ)
      /\ s.back \in SUBSET (Nodes(succ) \X Nodes(succ))
  BY <1>0 DEF SearchState
<1>a. s.path # <<>> /\ n = s.path[Len(s.path)]
  BY DEF Returns
<1>2. l \in Nat /\ l > 0 /\ DOMAIN s.path = 1..l /\ l \in 1..l /\ n \in Nodes(succ)
  BY <1>1, <1>a
<1> DEFINE q == SubSeq(s.path, 1, l - 1)
<1>3. /\ q \in Seq(Nodes(succ)) /\ Len(q) = l - 1 /\ DOMAIN q = 1..(l - 1)
      /\ \A i \in 1..(l - 1) : i \in 1..l /\ q[i] = s.path[i]
  BY <1>1, <1>2
<1>4. /\ t.path = q /\ t.tried = s.tried /\ t.visited = s.visited /\ t.back = s.back
      /\ t \in SearchState(succ)
  <2>1. t = [s EXCEPT !.path = q] BY DEF Returns
  <2> HIDE DEF q
  <2> QED BY <2>1, <1>0, <1>3 DEF SearchState
<1>5. Len(t.path) = l - 1 /\ DOMAIN t.path = 1..(l - 1) /\ \A i \in 1..(l - 1) : i \in 1..l
      /\ t.path[i] = s.path[i]
  BY <1>3, <1>4
<1> HIDE DEF q
<1> HIDE DEF l
<1>6. n = s.path[l] /\ s.tried[n] = Len(succ[n])
  BY DEF Returns, l
<1>7. Finished(t) = Finished(s) \cup {n} /\ n \notin Finished(s)
  <2>1. Range(s.path) = {s.path[i] : i \in 1..l} /\ Range(t.path) = {s.path[i] : i \in 1..(l - 1)}
    BY <1>2, <1>4, <1>5 DEF Range
  <2>2. Range(s.path) = Range(t.path) \cup {n}
    BY <2>1, <1>2, <1>6
  <2>3. n \notin Range(t.path)
    BY <2>1, <1>2, <1>6, <1>0 DEF Tracked
  <2>4. n \in s.visited
    BY <1>0, <1>2, <1>6 DEF Tracked
  <2> QED BY <2>2, <2>3, <2>4, <1>4, <1>5 DEF Finished
<1>8. Tracked(succ, t)
  <2>1. /\ 1 \in t.visited
        /\ \A i \in DOMAIN t.path : t.path[i] \in t.visited
        /\ \A i, j \in DOMAIN t.path : t.path[i] = t.path[j] => i = j
    BY <1>0, <1>2, <1>4, <1>5 DEF Tracked
  <2>2. \A x \in Finished(t) : t.tried[x] = Len(succ[x])
    BY <1>0, <1>4, <1>5, <1>6, <1>7 DEF Tracked
  <2>3. /\ \A x \in Nodes(succ) : t.tried[x] <= Len(succ[x])
        /\ \A x \in Nodes(succ) : x \notin t.visited => t.tried[x] = 0
        /\ \A x \in Nodes(succ) : \A i \in 1..(t.tried[x]) : succ[x][i] \in t.visited
    BY <1>0, <1>4, <1>5 DEF Tracked
  <2> QED BY <2>1, <2>2, <2>3 DEF Tracked
<1>9. Grown(succ, t)
  <2>1. PICK tree : Leading(succ, s, tree) BY <1>0 DEF Grown
  <2>2. tree \in SUBSET Edges(succ) /\ \A e \in tree : e \notin t.back /\ e[1] \in t.visited
    BY <2>1, <1>4 DEF Leading
  <2>3. \A x \in t.visited : Leads(succ, tree, 1, x)
    BY <2>1, <1>4 DEF Leading
  <2>4. \A i, j \in DOMAIN t.path : i <= j => Leads(succ, tree, t.path[i], t.path[j])
    BY <2>1, <1>2, <1>5 DEF Leading
  <2>5. \A e \in t.back : e \in Edges(succ) /\ e[2] \in t.visited /\ Leads(succ, tree, e[2], e[1])
    BY <2>1, <1>4 DEF Leading
  <2>6. ASSUME NEW e \in tree, NEW i \in 1..(l - 1), e[1] = s.path[i]
        PROVE  e[2] \in Finished(t) \/ (i < l - 1 /\ e[2] = s.path[i + 1])
    <3>1. i \in 1..l /\ (i < l - 1 \/ i + 1 = l) BY <1>2
    <3>2. e[2] \in Finished(s) \/ e[2] = s.path[i + 1] BY <2>1, <2>6, <3>1, <1>2 DEF Leading
    <3> QED BY <3>1, <3>2, <1>6, <1>7
  <2>7. \A i \in 1..(l - 1) : t.path[i] = s.path[i] /\ (i < l - 1 => t.path[i + 1] = s.path[i + 1])
    BY <1>4, <1>5, <1>2
  <2>8. \A e \in tree : \A i \in DOMAIN t.path :
           e[1] = t.path[i] => e[2] \in Finished(t) \/ (i < Len(t.path) /\ e[2] = t.path[i + 1])
    BY <2>6, <2>7, <1>5
  <2>9. Leading(succ, t, tree)
    BY <2>2, <2>3, <2>4, <2>5, <2>8 DEF Leading
  <2> QED BY <2>9 DEF Grown
<1>10. Onward(succ, t)
  <2> SUFFICES ASSUME NEW i \in 1..(l - 1), NEW j \in 1..(s.tried[s.path[i]]),
                      <<s.path[i], succ[s.path[i]][j]>> \notin s.back, succ[s.path[i]][j] \notin Finished(t)
               PROVE  i < l - 1 /\ succ[s.path[i]][j] = s.path[i + 1]
    <3>1. DOMAIN t.path = 1..(l - 1) /\ Len(t.path) = l - 1 /\ t.tried = s.tried /\ t.back = s.back
      BY <1>4, <1>5
    <3>2. \A i \in 1..(l - 1) : t.path[i] = s.path[i] /\ (i < l - 1 => t.path[i + 1] = s.path[i + 1])
      BY <1>4, <1>5, <1>2
    <3> QED BY <3>1, <3>2 DEF Onward
  <2>0. i \in 1..l
    BY <1>2
  <2>1. i < l /\ succ[s.path[i]][j] = s.path[i + 1]
    <3>1. \/ <<s.path[i], succ[s.path[i]][j]>> \in s.back
          \/ succ[s.path[i]][j] \in Finished(s)
          \/ i < l /\ succ[s.path[i]][j] = s.path[i + 1]
      BY <2>0, <1>0, <1>2 DEF Onward, l
    <3> QED BY <3>1, <1>7
  <2>2. i + 1 # l
    BY <2>1, <1>6, <1>7
  <2> QED BY <2>1, <2>2, <1>2
<1>11. Ranked(succ, t)
  <2> DEFINE es == Edges(succ) \ s.back
  <2>1. PICK f \in [Nodes(succ) -> Nat], b \in Nat : Falls(succ, es, Finished(s), f, b)
    BY <1>0 DEF Ranked
  <2> DEFINE h == [f EXCEPT ![n] = b]
  <2>2. h \in [Nodes(succ) -> Nat] OBVIOUS
  <2>3. h[n] = b /\ \A x \in Finished(s) : h[x] = f[x] /\ f[x] < b
    <3>1. Finished(s) \subseteq Nodes(succ)
      BY <1>1 DEF Finished
    <3> QED BY <3>1, <2>1, <1>2, <1>7 DEF Falls
  <2>4. ASSUME NEW x \in Finished(t) PROVE h[x] < b + 1
    <3>1. CASE x = n BY <3>1, <2>3
    <3>2. CASE x \in Finished(s)
      <4>1. x \in Nodes(succ) BY <3>2, <1>1 DEF Finished
      <4> QED BY <3>2, <4>1, <2>3
    <3> QED BY <3>1, <3>2, <1>7
  <2>5. ASSUME NEW e \in es, e[1] \in Finished(t) PROVE e[2] \in Finished(s) /\ h[e[2]] < h[e[1]]
    <3>1. CASE e[1] = n
      <4>1. PICK i \in 1..Len(succ[n]) : succ[n][i] = e[2]
        BY <3>1, EdgeFacts
      <4>2. e = <<n, succ[n][i]>>
        BY <3>1, <4>1, EdgeFacts
      <4>3. succ[n][i] \in Finished(s)
        BY <4>1, <4>2, <1>0, <1>2, <1>6 DEF Onward, l
      <4> QED BY <4>1, <4>3, <3>1, <2>3
    <3>2. CASE e[1] \in Finished(s)
      <4>1. e[2] \in Finished(s) /\ f[e[2]] < f[e[1]]
        BY <3>2, <2>1 DEF Falls
      <4> QED BY <3>2, <4>1, <2>3
    <3> QED BY <3>1, <3>2, <1>7, <2>5
  <2>6. Falls(succ, es, Finished(t), h, b + 1)
    BY <2>4, <2>5, <1>7 DEF Falls
  <2>7. b + 1 \in Nat OBVIOUS
  <2> HIDE DEF h
  <2> QED BY <2>2, <2>6, <2>7, <1>4, <1>5 DEF Ranked
<1>12. t \in Searched(succ)
  BY <1>4, <1>8, <1>9, <1>10, <1>11 DEF Searched
<1> QED BY <1>2, <1>4, <1>7, <1>12

(* The innermost call, of n, looks at its successor i, which is m.          *)
Looks(succ, s, t, n, i, m) ==
    /\ s.path # <<>> /\ n = s.path[Len(s.path)]
    /\ i = s.tried[n] + 1 /\ i <= Len(succ[n]) /\ m = succ[n][i]
    /\ t.tried = [s.tried EXCEPT ![n] = i]
    /\ \/ m \in Range(s.path) /\ t.path = s.path /\ t.visited = s.visited /\ t.back = s.back \cup {<<n, m>>}
       \/ m \notin Range(s.path) /\ m \in s.visited /\ t.path = s.path /\ t.visited = s.visited /\ t.back = s.back
       \/ m \notin s.visited /\ t.path = Append(s.path, m) /\ t.visited = s.visited \cup {m} /\ t.back = s.back

(* So does a look at a successor, whether it is on the active path, was    *)
(* left, or is entered.                                                    *)
LEMMA SearchLooks ==
  ASSUME NEW succ, IsGraph(succ), NEW s \in Searched(succ), NEW t \in SearchState(succ),
         NEW n, NEW i, NEW m, Looks(succ, s, t, n, i, m)
  PROVE  t \in Searched(succ) /\ Finished(t) = Finished(s) /\ n \in Nodes(succ)
<1> DEFINE l == Len(s.path)
<1>0. s \in SearchState(succ) /\ Tracked(succ, s) /\ Grown(succ, s) /\ Onward(succ, s) /\ Ranked(succ, s)
  BY DEF Searched
<1>1. /\ s.path \in Seq(Nodes(succ)) /\ s.tried \in [Nodes(succ) -> Nat] /\ s.visited \in SUBSET Nodes(succ)
      /\ s.back \in SUBSET (Nodes(succ) \X Nodes(succ))
  BY <1>0 DEF SearchState
<1>a. s.path # <<>> /\ n = s.path[Len(s.path)]
  BY DEF Looks
<1>b. i = s.tried[n] + 1 /\ i <= Len(succ[n]) /\ m = succ[n][i]
  BY DEF Looks
<1>c. t.tried = [s.tried EXCEPT ![n] = i]
  BY DEF Looks
<1>d. \/ m \in Range(s.path) /\ t.path = s.path /\ t.visited = s.visited /\ t.back = s.back \cup {<<n, m>>}
      \/ m \notin Range(s.path) /\ m \in s.visited /\ t.path = s.path /\ t.visited = s.visited /\ t.back = s.back
      \/ m \notin s.visited /\ t.path = Append(s.path, m) /\ t.visited = s.visited \cup {m} /\ t.back = s.back
  BY DEF Looks
<1>2. l \in Nat /\ l > 0 /\ DOMAIN s.path = 1..l /\ l \in 1..l /\ n \in Nodes(succ) /\ n = s.path[l]
  BY <1>1, <1>a
<1>3. i \in 1..Len(succ[n]) /\ m \in Nodes(succ) /\ <<n, m>> \in Edges(succ)
  <2>1. s.tried[n] \in Nat /\ Len(succ[n]) \in Nat
    BY <1>1, <1>2, GraphFacts
  <2>2. i \in 1..Len(succ[n]) /\ m = succ[n][i]
    BY <2>1, <1>b
  <2> QED BY <2>2, <1>2, GraphFacts, EdgeFacts
<1>4. /\ t.tried[n] = i /\ succ[n][i] = m
      /\ \A x \in Nodes(succ) : x # n => t.tried[x] = s.tried[x]
      /\ \A j \in 1..(t.tried[n]) : j = i \/ j \in 1..(s.tried[n])
  <2>1. s.tried[n] \in Nat BY <1>1, <1>2
  <2>2. t.tried[n] = i /\ \A x \in Nodes(succ) : x # n => t.tried[x] = s.tried[x]
    BY <1>1, <1>2, <1>c
  <2>3. \A j \in 1..i : j = i \/ j \in 1..(s.tried[n])
    BY <2>1, <1>b
  <2> QED BY <2>2, <2>3, <1>b
<1> HIDE DEF l
<1>5. Range(s.path) = {s.path[j] : j \in 1..l} /\ Range(s.path) \subseteq s.visited
  <2>1. Range(s.path) = {s.path[j] : j \in 1..l} BY <1>2 DEF Range
  <2> QED BY <2>1, <1>0, <1>2 DEF Tracked
<1>6. /\ DOMAIN t.path = 1..l \/ (DOMAIN t.path = 1..(l + 1) /\ m \notin s.visited /\ t.path[l + 1] = m /\ m \in t.visited)
      /\ l <= Len(t.path) /\ DOMAIN t.path = 1..Len(t.path)
      /\ \A j \in 1..l : t.path[j] = s.path[j]
      /\ m \notin s.visited => Len(t.path) = l + 1 /\ t.path[l + 1] = m
  <2>1. CASE t.path = s.path /\ m \in s.visited BY <2>1, <1>1, <1>2, <1>5 DEF l
  <2>2. CASE m \notin s.visited /\ t.path = Append(s.path, m) /\ t.visited = s.visited \cup {m}
    BY <2>2, <1>1, <1>2, <1>3 DEF l
  <2> QED BY <2>1, <2>2, <1>5, <1>d
<1>7. s.visited \subseteq t.visited /\ m \in t.visited /\ t.visited \subseteq s.visited \cup {m}
      /\ s.back \subseteq t.back
  BY <1>5, <1>d
<1>8. Finished(t) = Finished(s)
  <2>1. CASE t.path = s.path /\ t.visited = s.visited BY <2>1 DEF Finished
  <2>2. CASE m \notin s.visited /\ t.path = Append(s.path, m) /\ t.visited = s.visited \cup {m}
    <3>1. DOMAIN t.path = 1..(l + 1) /\ t.path[l + 1] = m
      BY <2>2, <1>1, <1>2, <1>3 DEF l
    <3>2. Range(t.path) = Range(s.path) \cup {m}
      <4>1. Range(t.path) = {t.path[j] : j \in 1..(l + 1)} BY <3>1 DEF Range
      <4>2. \A j \in 1..(l + 1) : j \in 1..l \/ j = l + 1 BY <1>2
      <4>3. \A j \in 1..l : j \in 1..(l + 1) BY <1>2
      <4>4. l + 1 \in 1..(l + 1) BY <1>2
      <4> QED BY <4>1, <4>2, <4>3, <4>4, <3>1, <1>5, <1>6
    <3> QED BY <3>2, <2>2 DEF Finished
  <2> QED BY <2>1, <2>2, <1>d
<1>9. Tracked(succ, t)
  <2>1. 1 \in t.visited
    BY <1>0, <1>7 DEF Tracked
  <2>2. \A j \in DOMAIN t.path : t.path[j] \in t.visited
    <3>1. \A j \in 1..l : t.path[j] \in t.visited
      BY <1>0, <1>2, <1>6, <1>7 DEF Tracked
    <3>2. DOMAIN t.path = 1..(l + 1) => \A j \in DOMAIN t.path : j \in 1..l \/ j = l + 1
      BY <1>2
    <3> QED BY <1>6, <3>1, <3>2
  <2>3. \A j, k \in DOMAIN t.path : t.path[j] = t.path[k] => j = k
    <3>1. \A j, k \in 1..l : t.path[j] = t.path[k] => j = k
      BY <1>0, <1>2, <1>6 DEF Tracked
    <3>2. DOMAIN t.path = 1..(l + 1) => \A j \in DOMAIN t.path : j \in 1..l \/ j = l + 1
      BY <1>2
    <3>3. m \notin s.visited => \A j \in 1..l : t.path[j] # m
      BY <1>0, <1>2, <1>6 DEF Tracked
    <3> QED BY <1>6, <3>1, <3>2, <3>3
  <2>4. \A x \in Nodes(succ) : t.tried[x] <= Len(succ[x])
    BY <1>0, <1>b, <1>4 DEF Tracked
  <2>5. \A x \in Nodes(succ) : x \notin t.visited => t.tried[x] = 0
    <3>1. n \in t.visited BY <1>0, <1>2, <1>7 DEF Tracked
    <3> QED BY <3>1, <1>0, <1>4, <1>7 DEF Tracked
  <2>6. \A x \in Finished(t) : t.tried[x] = Len(succ[x])
    <3>1. n \notin Finished(s) BY <1>2, <1>5 DEF Finished
    <3>2. Finished(s) \subseteq Nodes(succ) BY <1>1 DEF Finished
    <3> QED BY <3>1, <3>2, <1>0, <1>4, <1>8 DEF Tracked
  <2>7. \A x \in Nodes(succ) : \A j \in 1..(t.tried[x]) : succ[x][j] \in t.visited
    BY <1>0, <1>4, <1>7 DEF Tracked
  <2> QED BY <2>1, <2>2, <2>3, <2>4, <2>5, <2>6, <2>7 DEF Tracked
<1>10. Grown(succ, t)
  <2> PICK old : Leading(succ, s, old) BY <1>0 DEF Grown
  <2>1. old \in SUBSET Edges(succ) /\ \A e \in old : e \notin s.back /\ e[1] \in s.visited
    BY DEF Leading
  <2>2. \A x \in s.visited : Leads(succ, old, 1, x)
    BY DEF Leading
  <2>3. \A j, k \in 1..l : j <= k => Leads(succ, old, s.path[j], s.path[k])
    BY <1>2 DEF Leading
  <2>4. \A e \in s.back : e \in Edges(succ) /\ e[2] \in s.visited /\ Leads(succ, old, e[2], e[1])
    BY DEF Leading
  <2>5. \A e \in old : \A j \in 1..l :
           e[1] = s.path[j] => e[2] \in Finished(s) \/ (j < l /\ e[2] = s.path[j + 1])
    BY <1>2 DEF Leading, l
  <2>6. \A j \in 1..l : j < l => j + 1 \in 1..l /\ t.path[j + 1] = s.path[j + 1]
    BY <1>2, <1>6
  <2>7. CASE m \in s.visited
    <3>1. t.path = s.path /\ t.visited = s.visited
      BY <2>7, <1>d
    <3>2. t.back = s.back \/ (m \in Range(s.path) /\ t.back = s.back \cup {<<n, m>>})
      BY <1>d
    <3>3. \A e \in old : e \notin t.back
      <4>1. ASSUME m \in Range(s.path) PROVE <<n, m>> \notin old
        <5>1. m \notin Finished(s) BY <4>1 DEF Finished
        <5> QED BY <5>1, <2>5, <1>2
      <4> QED BY <4>1, <3>2, <2>1
    <3>4. \A e \in t.back : e \in Edges(succ) /\ e[2] \in t.visited /\ Leads(succ, old, e[2], e[1])
      <4>1. m \in Range(s.path) => Leads(succ, old, m, n)
        BY <2>3, <1>2, <1>5
      <4> QED BY <4>1, <3>1, <3>2, <2>4, <2>7, <1>3
    <3>5. Leading(succ, t, old)
      BY <2>1, <2>2, <2>3, <2>5, <3>1, <3>3, <3>4, <1>2, <1>8 DEF Leading, l
    <3> QED BY <3>5 DEF Grown
  <2>8. CASE m \notin s.visited
    <3> DEFINE tree == old \cup {<<n, m>>}
    <3>1. t.back = s.back /\ t.visited = s.visited \cup {m} /\ DOMAIN t.path = 1..(l + 1) /\ Len(t.path) = l + 1
          /\ t.path[l + 1] = m /\ \A j \in 1..l : t.path[j] = s.path[j]
      BY <2>8, <1>d, <1>5, <1>6
    <3>2. tree \in SUBSET Edges(succ) /\ old \subseteq tree /\ <<n, m>> \in tree
      BY <2>1, <1>3
    <3>3. n \in s.visited
      BY <1>0, <1>2 DEF Tracked
    <3>4. \A e \in tree : e \notin t.back /\ e[1] \in t.visited
      <4>1. <<n, m>> \notin s.back BY <2>4, <2>8
      <4> QED BY <4>1, <3>1, <3>3, <2>1
    <3> HIDE DEF tree
    <3>5. \A x \in t.visited : Leads(succ, tree, 1, x)
      <4>1. \A x \in s.visited : Leads(succ, tree, 1, x) BY <2>2, <3>2, LeadsMore
      <4>2. Leads(succ, tree, 1, m) BY <4>1, <3>2, <3>3, LeadsOn
      <4> QED BY <4>1, <4>2, <3>1
    <3>6. ASSUME NEW j \in 1..(l + 1), NEW k \in 1..(l + 1), j <= k
          PROVE  Leads(succ, tree, t.path[j], t.path[k])
      <4>1. \A a, b \in 1..l : a <= b => Leads(succ, tree, t.path[a], t.path[b])
        BY <2>3, <3>1, <3>2, LeadsMore
      <4>2. CASE k \in 1..l
        <5>1. j \in 1..l BY <3>6, <4>2, <1>2
        <5> QED BY <3>6, <4>1, <4>2, <5>1
      <4>3. CASE k = l + 1 /\ j = l + 1 BY <4>3, LeadsSelf
      <4>4. CASE k = l + 1 /\ j \in 1..l
        <5>1. Leads(succ, tree, t.path[j], n) BY <4>1, <4>4, <3>1, <1>2
        <5> QED BY <4>4, <5>1, <3>1, <3>2, LeadsOn
      <4> QED BY <4>2, <4>3, <4>4, <1>2
    <3>7. \A e \in t.back : e \in Edges(succ) /\ e[2] \in t.visited /\ Leads(succ, tree, e[2], e[1])
      BY <2>4, <3>1, <3>2, LeadsMore
    <3>8. ASSUME NEW e \in tree, NEW j \in 1..(l + 1), e[1] = t.path[j]
          PROVE  e[2] \in Finished(t) \/ (j < l + 1 /\ e[2] = t.path[j + 1])
      <4>1. CASE e \in old
        <5>1. j # l + 1 BY <4>1, <3>1, <3>8, <2>1, <2>8
        <5>2. j \in 1..l /\ j < l + 1 BY <5>1, <1>2
        <5>3. e[2] \in Finished(s) \/ (j < l /\ e[2] = s.path[j + 1]) BY <4>1, <5>2, <3>1, <3>8, <2>5
        <5> QED BY <5>2, <5>3, <2>6, <1>8
      <4>2. CASE e = <<n, m>>
        <5>1. j # l + 1 BY <4>2, <3>1, <3>3, <3>8, <2>8
        <5>2. j \in 1..l BY <5>1, <1>2
        <5>3. j = l BY <4>2, <5>2, <3>1, <3>8, <1>0, <1>2 DEF Tracked
        <5> QED BY <4>2, <5>3, <3>1, <1>2
      <4> QED BY <4>1, <4>2 DEF tree
    <3>9. Leading(succ, t, tree)
      BY <3>1, <3>2, <3>4, <3>5, <3>6, <3>7, <3>8 DEF Leading
    <3> QED BY <3>9 DEF Grown
  <2> QED BY <2>7, <2>8
<1>11. Onward(succ, t)
  <2> SUFFICES ASSUME NEW j \in DOMAIN t.path, NEW k \in 1..(t.tried[t.path[j]])
               PROVE  \/ <<t.path[j], succ[t.path[j]][k]>> \in t.back
                      \/ succ[t.path[j]][k] \in Finished(s)
                      \/ j < Len(t.path) /\ succ[t.path[j]][k] = t.path[j + 1]
    BY <1>8 DEF Onward
  <2>1. CASE j \in 1..l /\ t.path[j] = n /\ k = i
    <3>1. j = l
      BY <2>1, <1>0, <1>2, <1>6 DEF Tracked
    <3>2. \/ <<n, m>> \in t.back
          \/ m \in Finished(s)
          \/ m \notin s.visited
      BY <1>d DEF Finished
    <3>3. m \notin s.visited => l < Len(t.path) /\ t.path[l + 1] = m
      BY <1>2, <1>6
    <3> QED BY <2>1, <3>1, <3>2, <3>3, <1>4
  <2>2. CASE j \in 1..l /\ ~(t.path[j] = n /\ k = i)
    <3>1. t.path[j] = s.path[j] /\ s.path[j] \in Nodes(succ) /\ j \in DOMAIN s.path
      BY <2>2, <1>1, <1>2, <1>6
    <3>2. k \in 1..(s.tried[s.path[j]])
      BY <2>2, <3>1, <1>4
    <3>3. \/ <<s.path[j], succ[s.path[j]][k]>> \in s.back
          \/ succ[s.path[j]][k] \in Finished(s)
          \/ j < l /\ succ[s.path[j]][k] = s.path[j + 1]
      BY <3>1, <3>2, <1>0 DEF Onward, l
    <3>4. j < l => j + 1 \in 1..l /\ j < Len(t.path) /\ t.path[j + 1] = s.path[j + 1]
      BY <2>2, <1>2, <1>6
    <3> QED BY <3>1, <3>3, <3>4, <1>7
  <2>3. CASE j \notin 1..l
    <3>1. j = l + 1 /\ t.path[j] = m /\ m \notin s.visited /\ m # n
      BY <2>3, <1>2, <1>6, <1>0 DEF Tracked
    <3>2. t.tried[m] = 0
      BY <3>1, <1>0, <1>3, <1>4 DEF Tracked
    <3> QED BY <3>1, <3>2
  <2> QED BY <2>1, <2>2, <2>3
<1>12. Ranked(succ, t)
  <2>1. PICK f \in [Nodes(succ) -> Nat], b \in Nat : Falls(succ, Edges(succ) \ s.back, Finished(s), f, b)
    BY <1>0 DEF Ranked
  <2>2. Falls(succ, Edges(succ) \ t.back, Finished(t), f, b)
    BY <2>1, <1>7, <1>8 DEF Falls
  <2> QED BY <2>2 DEF Ranked
<1> QED BY <1>2, <1>8, <1>9, <1>10, <1>11, <1>12 DEF Searched

(* There are finitely many wires and nodes.                                *)
LEMMA ArcFacts ==
  ASSUME NEW succ, IsGraph(succ)
  PROVE  /\ IsFiniteSet(Arcs(succ)) /\ Cardinality(Arcs(succ)) \in Nat
         /\ IsFiniteSet(Nodes(succ)) /\ Cardinality(Nodes(succ)) = Len(succ)
         /\ \A n \in Nodes(succ) : \A i \in 1..Len(succ[n]) : <<n, i>> \in Arcs(succ)
         /\ \A a \in Arcs(succ) : a = <<a[1], a[2]>> /\ a[1] \in Nodes(succ) /\ a[2] \in 1..Len(succ[a[1]])
<1>1. IsFiniteSet(Nodes(succ)) /\ Cardinality(Nodes(succ)) = Len(succ)
  <2>1. Nodes(succ) = 1..Len(succ) /\ Len(succ) \in Nat /\ 1 <= Len(succ)
    BY GraphFacts
  <2>2. IsFiniteSet(1..Len(succ)) /\ Cardinality(1..Len(succ)) = Len(succ)
    BY <2>1, FS_Interval
  <2> QED BY <2>1, <2>2
<1> DEFINE f == [n \in Nodes(succ) |-> {n} \X DOMAIN succ[n]]
           R == {f[n] : n \in Nodes(succ)}
<1>2. \A T \in R : IsFiniteSet(T)
  <2> SUFFICES ASSUME NEW n \in Nodes(succ) PROVE IsFiniteSet({n} \X DOMAIN succ[n])
    OBVIOUS
  <2>1. IsFiniteSet({n}) BY FS_Singleton
  <2>2. IsFiniteSet(DOMAIN succ[n]) BY GraphFacts, FS_Interval
  <2> QED BY <2>1, <2>2, FS_Product
<1>3. f \in Surjection(Nodes(succ), R)
  BY DEF Surjection
<1>4. IsFiniteSet(R)
  <2> HIDE DEF f, R
  <2> QED BY <1>1, <1>3, FS_Surjection
<1>5. Arcs(succ) = UNION R
  BY DEF Arcs, Nodes
<1>6. IsFiniteSet(Arcs(succ))
  <2> HIDE DEF R
  <2> QED BY <1>2, <1>4, <1>5, FS_UNION
<1>7. ASSUME NEW n \in Nodes(succ), NEW i \in 1..Len(succ[n]) PROVE <<n, i>> \in Arcs(succ)
  <2>1. i \in DOMAIN succ[n] /\ n \in DOMAIN succ BY GraphFacts DEF Nodes
  <2> QED BY <2>1 DEF Arcs
<1>8. ASSUME NEW a \in Arcs(succ) PROVE a = <<a[1], a[2]>> /\ a[1] \in Nodes(succ) /\ a[2] \in 1..Len(succ[a[1]])
  <2>1. PICK n \in Nodes(succ) : a \in {n} \X DOMAIN succ[n] BY DEF Arcs, Nodes
  <2> QED BY <2>1, GraphFacts
<1> QED BY <1>1, <1>6, <1>7, <1>8, FS_CardinalityType

(* The wires the search has looked at.                                     *)
Tried(succ, s) == {a \in Arcs(succ) : a[2] <= s.tried[a[1]]}

(* How many wires were looked at and calls returned from, k in all.        *)
SearchCount(succ, s, k) ==
    s.path = <<>> \/ k = Cardinality(Tried(succ, s)) + Cardinality(Finished(s))

(* Every step preserves the invariant and is a look at one more wire or    *)
(* one more return, until the first call has returned.                     *)
LEMMA SearchStepKeeps ==
  ASSUME NEW succ, IsGraph(succ), NEW s \in Searched(succ), NEW k \in Nat, SearchCount(succ, s, k)
  PROVE  SearchStep(succ, s) \in Searched(succ) /\ SearchCount(succ, SearchStep(succ, s), k + 1)
<1> DEFINE n == s.path[Len(s.path)]
           i == s.tried[n] + 1
           m == succ[n][i]
           t == SearchStep(succ, s)
<1>0. s \in SearchState(succ) /\ Tracked(succ, s)
  BY DEF Searched
<1>1. /\ s.path \in Seq(Nodes(succ)) /\ s.tried \in [Nodes(succ) -> Nat] /\ s.visited \in SUBSET Nodes(succ)
      /\ s.back \in SUBSET (Nodes(succ) \X Nodes(succ))
  BY <1>0 DEF SearchState
<1>2. IsFiniteSet(Tried(succ, s)) /\ IsFiniteSet(Finished(s))
  BY <1>1, ArcFacts, FS_Subset DEF Tried, Finished
<1>3. CASE s.path = <<>>
  <2>1. t = s BY <1>3 DEF SearchStep
  <2> QED BY <2>1, <1>3 DEF SearchCount
<1>4. CASE s.path # <<>> /\ i > Len(succ[n])
  <2>1. t = [s EXCEPT !.path = SubSeq(s.path, 1, Len(s.path) - 1)]
    BY <1>4 DEF SearchStep
  <2>2. n \in Nodes(succ) /\ s.tried[n] \in Nat /\ Len(succ[n]) \in Nat
    <3>1. n \in Nodes(succ) BY <1>1, <1>4
    <3> QED BY <3>1, <1>1, GraphFacts
  <2>3. s.tried[n] = Len(succ[n])
    BY <2>2, <1>0, <1>4 DEF Tracked
  <2> HIDE DEF n, t
  <2>4. t \in Searched(succ) /\ t.tried = s.tried /\ Finished(t) = Finished(s) \cup {n} /\ n \notin Finished(s)
    BY <2>1, <2>3, <1>4, SearchReturns DEF n, Returns
  <2>5. Tried(succ, t) = Tried(succ, s)
    BY <2>4 DEF Tried
  <2>6. Cardinality(Finished(t)) = Cardinality(Finished(s)) + 1
    BY <2>4, <1>2, FS_AddElement
  <2>7. k = Cardinality(Tried(succ, s)) + Cardinality(Finished(s))
    BY <1>4 DEF SearchCount
  <2>8. Cardinality(Tried(succ, s)) \in Nat /\ Cardinality(Finished(s)) \in Nat
    BY <1>2, FS_CardinalityType
  <2>9. k + 1 = Cardinality(Tried(succ, t)) + Cardinality(Finished(t))
    BY <2>5, <2>6, <2>7, <2>8
  <2> QED BY <2>4, <2>9 DEF SearchCount, t
<1>5. CASE s.path # <<>> /\ ~(i > Len(succ[n]))
  <2>2. n \in Nodes(succ) /\ s.tried[n] \in Nat /\ Len(succ[n]) \in Nat
    <3>1. n \in Nodes(succ) BY <1>1, <1>5
    <3> QED BY <3>1, <1>1, GraphFacts
  <2>3. i \in 1..Len(succ[n]) /\ m \in Nodes(succ)
    <3>1. i \in 1..Len(succ[n]) BY <2>2, <1>5
    <3> QED BY <3>1, <2>2, GraphFacts
  <2> DEFINE tr == [s.tried EXCEPT ![n] = i]
             looked == [s EXCEPT !.tried = tr]
  <2>4. tr \in [Nodes(succ) -> Nat]
    BY <2>2, <1>1
  <2>5. t = IF m \in Range(s.path) THEN [looked EXCEPT !.back = s.back \cup {<<n, m>>}]
            ELSE IF m \in s.visited THEN looked
            ELSE [looked EXCEPT !.path = Append(s.path, m), !.visited = s.visited \cup {m}]
    BY <1>5 DEF SearchStep
  <2> HIDE DEF tr
  <2>6. /\ looked \in SearchState(succ) /\ looked.path = s.path /\ looked.tried = tr
        /\ looked.visited = s.visited /\ looked.back = s.back
    BY <2>4, <1>0, <1>1 DEF SearchState
  <2> HIDE DEF looked, i, m, n, t
  <2>7. t \in SearchState(succ) /\ Looks(succ, s, t, n, i, m)
    <3>1. s.path # <<>> /\ n = s.path[Len(s.path)] /\ i = s.tried[n] + 1 /\ i <= Len(succ[n]) /\ m = succ[n][i]
          /\ tr = [s.tried EXCEPT ![n] = i]
      BY <1>5, <2>3, GraphFacts DEF i, m, n, tr
    <3>2. CASE m \in Range(s.path)
      <4>1. t = [looked EXCEPT !.back = s.back \cup {<<n, m>>}] BY <2>5, <3>2
      <4>2. s.back \cup {<<n, m>>} \in SUBSET (Nodes(succ) \X Nodes(succ)) BY <1>1, <2>2, <2>3
      <4>3. t \in SearchState(succ) /\ t.path = s.path /\ t.tried = tr /\ t.visited = s.visited
            /\ t.back = s.back \cup {<<n, m>>}
        BY <4>1, <4>2, <2>6 DEF SearchState
      <4> QED BY <4>3, <3>1, <3>2 DEF Looks
    <3>3. CASE m \notin Range(s.path) /\ m \in s.visited
      <4>1. t = looked BY <2>5, <3>3
      <4> QED BY <4>1, <3>1, <3>3, <2>6 DEF Looks
    <3>4. CASE m \notin Range(s.path) /\ m \notin s.visited
      <4>1. t = [looked EXCEPT !.path = Append(s.path, m), !.visited = s.visited \cup {m}]
        BY <2>5, <3>4
      <4>2. Append(s.path, m) \in Seq(Nodes(succ)) /\ s.visited \cup {m} \in SUBSET Nodes(succ)
        BY <1>1, <2>3
      <4>3. t \in SearchState(succ) /\ t.path = Append(s.path, m) /\ t.tried = tr
            /\ t.visited = s.visited \cup {m} /\ t.back = s.back
        BY <4>1, <4>2, <2>6 DEF SearchState
      <4> QED BY <4>3, <3>1, <3>4 DEF Looks
    <3> QED BY <3>2, <3>3, <3>4
  <2>8. t \in Searched(succ) /\ Finished(t) = Finished(s)
    BY <2>7, SearchLooks
  <2>9. Tried(succ, t) = Tried(succ, s) \cup {<<n, i>>} /\ <<n, i>> \notin Tried(succ, s)
    <3>1. t.tried = [s.tried EXCEPT ![n] = i] BY <2>7 DEF Looks
    <3>2. i = s.tried[n] + 1 BY DEF i
    <3>3. \A a \in Arcs(succ) : (a[2] <= t.tried[a[1]]) <=> (a[2] <= s.tried[a[1]] \/ a = <<n, i>>)
      <4> TAKE a \in Arcs(succ)
      <4>1. a = <<a[1], a[2]>> /\ a[1] \in Nodes(succ) /\ a[2] \in Nat
        BY ArcFacts, GraphFacts
      <4>2. CASE a[1] = n
        <5>1. t.tried[n] = i BY <3>1, <1>1, <2>2
        <5>2. a[2] <= i <=> (a[2] <= s.tried[n] \/ a[2] = i) BY <4>1, <3>2, <2>2
        <5> QED BY <5>1, <5>2, <4>1, <4>2
      <4>3. CASE a[1] # n
        <5>1. t.tried[a[1]] = s.tried[a[1]] BY <3>1, <1>1, <4>1, <4>3
        <5> QED BY <5>1, <4>1, <4>3
      <4> QED BY <4>2, <4>3
    <3>4. <<n, i>> \in Arcs(succ) BY <2>2, <2>3, ArcFacts
    <3>5. ~(i <= s.tried[n]) BY <3>2, <2>2
    <3> QED BY <3>3, <3>4, <3>5 DEF Tried
  <2>10. Cardinality(Tried(succ, t)) = Cardinality(Tried(succ, s)) + 1
    BY <2>9, <1>2, FS_AddElement
  <2>11. k = Cardinality(Tried(succ, s)) + Cardinality(Finished(s))
    BY <1>5 DEF SearchCount
  <2>12. Cardinality(Tried(succ, s)) \in Nat /\ Cardinality(Finished(s)) \in Nat
    BY <1>2, FS_CardinalityType
  <2>13. k + 1 = Cardinality(Tried(succ, t)) + Cardinality(Finished(t))
    BY <2>8, <2>10, <2>11, <2>12
  <2> QED BY <2>8, <2>13 DEF SearchCount, t
<1> QED BY <1>3, <1>4, <1>5

(* With as many steps as there are wires and nodes the search comes to its *)
(* end.                                                                    *)
LEMMA SearchEnds ==
  ASSUME NEW succ, IsGraph(succ)
  PROVE  \E s \in Searched(succ) : s.path = <<>> /\ BackEdges(succ) = s.back
<1> DEFINE N == SearchSteps(succ)
           S == Searched(succ)
           start == SearchStart(succ)
           F == [s \in S |-> SearchStep(succ, s)]
           run == CHOOSE f : f = [k \in 0..N |-> IF k = 0 THEN start ELSE SearchStep(succ, f[k - 1])]
<1>1. N = Len(succ) + Cardinality(Arcs(succ)) /\ N \in Nat
  <2>1. Cardinality(Nodes(succ)) = Len(succ) /\ Len(succ) \in Nat /\ Cardinality(Arcs(succ)) \in Nat
    BY ArcFacts, GraphFacts
  <2> QED BY <2>1 DEF SearchSteps, Nodes
<1>2. start \in S /\ SearchCount(succ, start, 0)
  <2>1. start \in S BY SearchStarts
  <2>2. start.tried = [n \in Nodes(succ) |-> 0] /\ start.visited = {1} /\ start.path = <<1>>
    BY DEF SearchStart, Nodes
  <2>3. Tried(succ, start) = {}
    <3>1. \A a \in Arcs(succ) : start.tried[a[1]] = 0 /\ ~(a[2] <= 0)
      BY <2>2, ArcFacts, GraphFacts
    <3> QED BY <3>1 DEF Tried
  <2>4. Finished(start) = {}
    <3>1. 1 \in Range(<<1>>) BY DEF Range
    <3> QED BY <2>2, <3>1 DEF Finished
  <2> HIDE DEF start
  <2> QED BY <2>1, <2>3, <2>4, FS_EmptySet DEF SearchCount
<1> HIDE DEF start, N
<1>3. F \in [S -> S]
  <2> SUFFICES ASSUME NEW s \in S PROVE SearchStep(succ, s) \in S
    OBVIOUS
  <2>1. IF s.path = <<>> THEN SearchCount(succ, s, 0)
        ELSE \E k \in Nat : SearchCount(succ, s, k)
    <3>1. Cardinality(Tried(succ, s)) \in Nat /\ Cardinality(Finished(s)) \in Nat
      <4>1. s.visited \in SUBSET Nodes(succ) BY DEF Searched, SearchState
      <4>2. IsFiniteSet(Tried(succ, s)) /\ IsFiniteSet(Finished(s))
        BY <4>1, ArcFacts, FS_Subset DEF Tried, Finished
      <4> QED BY <4>2, FS_CardinalityType
    <3> QED BY <3>1 DEF SearchCount
  <2> QED BY <2>1, SearchStepKeeps
<1> HIDE DEF F, S
<1>4. PICK f \in [0..N -> S] : IsRun(f, F, start, N)
  BY <1>1, <1>2, <1>3, RunExists
<1>5. \A k \in 1..N : F[f[k - 1]] = SearchStep(succ, f[k - 1])
  <2> TAKE k \in 1..N
  <2>1. k - 1 \in 0..N BY <1>1
  <2>2. f[k - 1] \in S BY <2>1
  <2> QED BY <2>2 DEF F
<1>6. f = [k \in 0..N |-> IF k = 0 THEN start ELSE SearchStep(succ, f[k - 1])]
  BY <1>1, <1>4, <1>5 DEF IsRun
<1>7. run = [k \in 0..N |-> IF k = 0 THEN start ELSE SearchStep(succ, run[k - 1])]
  BY <1>6, Zenon
<1>8. BackEdges(succ) = run[N].back
  BY DEF BackEdges, N, start
<1> HIDE DEF run
<1>9. run[0] = start /\ \A k \in 1..N : run[k] = SearchStep(succ, run[k - 1])
  BY <1>1, <1>7
<1> DEFINE P == {k \in Nat : k <= N => run[k] \in S /\ SearchCount(succ, run[k], k)}
<1>10. 0 \in P BY <1>2, <1>9
<1>11. ASSUME NEW k \in Nat, k \in P PROVE k + 1 \in P
  <2> SUFFICES ASSUME k + 1 <= N PROVE run[k + 1] \in S /\ SearchCount(succ, run[k + 1], k + 1)
    OBVIOUS
  <2>1. run[k] \in S /\ SearchCount(succ, run[k], k) BY <1>1, <1>11
  <2>2. k + 1 \in 1..N /\ (k + 1) - 1 = k BY <1>1
  <2>3. run[k + 1] = SearchStep(succ, run[k]) BY <1>9, <2>2
  <2> QED BY <2>1, <2>3, SearchStepKeeps DEF S
<1>12. run[N] \in S /\ SearchCount(succ, run[N], N)
  <2> HIDE DEF P
  <2>1. Nat \subseteq P BY <1>10, <1>11, Induction
  <2> QED BY <1>1, <2>1 DEF P
<1> DEFINE s == run[N]
<1> HIDE DEF s
<1>13. s \in Searched(succ) /\ SearchCount(succ, s, N) /\ BackEdges(succ) = s.back
  BY <1>8, <1>12 DEF s, S
<1>14. s.path = <<>>
  <2> SUFFICES ASSUME s.path # <<>> PROVE FALSE OBVIOUS
  <2>1. s.path \in Seq(Nodes(succ)) /\ s.visited \in SUBSET Nodes(succ)
    BY <1>13 DEF Searched, SearchState
  <2>2. Finished(s) \in SUBSET Nodes(succ) /\ Finished(s) # Nodes(succ)
    <3>1. s.path[1] \in Range(s.path) /\ s.path[1] \in Nodes(succ)
      <4>1. 1 \in DOMAIN s.path BY <2>1
      <4> QED BY <2>1, <4>1 DEF Range
    <3> QED BY <2>1, <3>1 DEF Finished
  <2>3. Cardinality(Finished(s)) \in Nat /\ Cardinality(Finished(s)) < Len(succ)
    <3>1. IsFiniteSet(Finished(s)) /\ Cardinality(Finished(s)) <= Cardinality(Nodes(succ))
          /\ Cardinality(Finished(s)) # Cardinality(Nodes(succ))
      BY <2>2, ArcFacts, FS_Subset
    <3> QED BY <3>1, ArcFacts, GraphFacts, FS_CardinalityType
  <2>4. Cardinality(Tried(succ, s)) \in Nat /\ Cardinality(Tried(succ, s)) <= Cardinality(Arcs(succ))
    <3>1. Tried(succ, s) \in SUBSET Arcs(succ) BY DEF Tried
    <3> QED BY <3>1, ArcFacts, FS_Subset, FS_CardinalityType
  <2>5. N = Cardinality(Tried(succ, s)) + Cardinality(Finished(s))
    BY <1>13 DEF SearchCount
  <2> QED BY <1>1, <2>3, <2>4, <2>5, ArcFacts, GraphFacts
<1> QED BY <1>13, <1>14

(* The edges that the order of the nodes takes notice of.                  *)
Onwards(succ) == Edges(succ) \ BackEdges(succ)

(* _build_linear_execution_list takes no edge for a back edge but one that *)
(* closes a cycle: the other edges lead from its end to its beginning, in  *)
(* any graph, and from the entry to both of them.                          *)
THEOREM BackEdgesOnCycles ==
  ASSUME NEW succ, IsGraph(succ), NEW e \in BackEdges(succ)
  PROVE  e \in Edges(succ) /\ Leads(succ, Onwards(succ), 1, e[1]) /\ Leads(succ, Onwards(succ), e[2], e[1])
<1>1. PICK s \in Searched(succ) : s.path = <<>> /\ BackEdges(succ) = s.back
  BY SearchEnds
<1>2. PICK tree : Leading(succ, s, tree)
  BY DEF Searched, Grown
<1>3. e \in Edges(succ) /\ Leads(succ, tree, 1, e[2]) /\ Leads(succ, tree, e[2], e[1])
      /\ tree \subseteq Onwards(succ)
  BY <1>1, <1>2 DEF Leading, Onwards
<1>4. Leads(succ, tree, 1, e[1])
  BY <1>3 DEF Leads
<1> QED BY <1>3, <1>4, LeadsMore

(* The entry leads to every cycle.                                         *)
CyclesFromEntry(succ) ==
    \A e \in Edges(succ) : Leads(succ, Edges(succ), e[2], e[1]) => Leads(succ, Edges(succ), 1, e[1])

(* The back edges are enough: where the entry leads to every cycle, no     *)
(* cycle is left without them, so that Kahn's algorithm does not get       *)
(* stuck.                                                                  *)
THEOREM NoCycleLeft ==
  ASSUME NEW succ, IsGraph(succ), CyclesFromEntry(succ), NEW e \in Onwards(succ)
  PROVE  ~Leads(succ, Onwards(succ), e[2], e[1])
<1> SUFFICES ASSUME Leads(succ, Onwards(succ), e[2], e[1]) PROVE FALSE
  OBVIOUS
<1>1. PICK s \in Searched(succ) : s.path = <<>> /\ BackEdges(succ) = s.back
  BY SearchEnds
<1>2. s \in SearchState(succ) /\ Tracked(succ, s) /\ Ranked(succ, s)
  BY DEF Searched
<1>3. Finished(s) = s.visited /\ s.visited \in SUBSET Nodes(succ)
  BY <1>1, <1>2 DEF Finished, SearchState, Range
<1>4. \A d \in Edges(succ) : d[1] \in s.visited => d[2] \in s.visited
  BY <1>2, <1>3, EdgeFacts DEF Tracked
<1>5. e \in Edges(succ) /\ Leads(succ, Edges(succ), 1, e[1])
  <2>1. Onwards(succ) \subseteq Edges(succ) BY DEF Onwards
  <2>2. Leads(succ, Edges(succ), e[2], e[1]) BY <2>1, LeadsMore
  <2> QED BY <2>1, <2>2 DEF CyclesFromEntry
<1>6. e[1] \in s.visited
  BY <1>2, <1>3, <1>4, <1>5 DEF Leads, Tracked
<1>7. PICK f \in [Nodes(succ) -> Nat], b \in Nat : Falls(succ, Onwards(succ), s.visited, f, b)
  BY <1>1, <1>2, <1>3 DEF Ranked, Onwards
<1>8. e[2] \in s.visited /\ f[e[2]] < f[e[1]]
  BY <1>6, <1>7 DEF Falls
<1> DEFINE C == {x \in s.visited : f[x] <= f[e[2]]}
<1>9. C \in SUBSET Nodes(succ) /\ e[2] \in C
  BY <1>3, <1>8
<1>10. ASSUME NEW d \in Onwards(succ), d[1] \in C PROVE d[2] \in C
  <2>1. d[2] \in s.visited /\ f[d[2]] < f[d[1]] /\ f[d[1]] <= f[e[2]]
    BY <1>7, <1>10 DEF Falls
  <2>2. f[d[1]] \in Nat /\ f[d[2]] \in Nat /\ f[e[2]] \in Nat
    BY <2>1, <1>3, <1>8, <1>10
  <2>3. f[d[2]] <= f[e[2]]
    BY <2>1, <2>2
  <2> QED BY <2>1, <2>3
<1>11. e[1] \in C
  <2> HIDE DEF C
  <2> QED BY <1>9, <1>10 DEF Leads
<1> QED BY <1>3, <1>6, <1>8, <1>11

-----------------------------------------------------------------------------
(* The topological sort.                                                   *)

(* The states of the topological sort.                                     *)
OrderState(succ) ==
    [line : Seq(Nodes(succ)), at : Nat, tried : Nat, seeded : Nat, degree : [Nodes(succ) -> Int]]

(* The wires that were looked at.                                          *)
Handled(succ, s) ==
    {a \in Arcs(succ) : \E j \in DOMAIN s.line :
        s.line[j] = a[1] /\ (j < s.at \/ (j = s.at /\ a[2] <= s.tried))}

(* Places are within bounds, and no node is queued twice.                  *)
Placing(succ, s) ==
    /\ s.seeded <= Len(succ)
    /\ s.at >= 1 /\ s.at <= Len(s.line) + 1
    /\ s.at <= Len(s.line) => s.tried <= Len(succ[s.line[s.at]])
    /\ s.at = Len(s.line) + 1 => s.tried = 0
    /\ s.seeded < Len(succ) => s.at = 1 /\ s.tried = 0
    /\ \A i, j \in DOMAIN s.line : s.line[i] = s.line[j] => i = j

(* The degree of a node counts the wires to it that were not looked at.    *)
Counting(succ, back, s) ==
    \A m \in Nodes(succ) : s.degree[m] = Cardinality(Incoming(succ, back, m) \ Handled(succ, s))

(* A node is in the queue as soon as no such wire is left: at the          *)
(* beginning if there was none at all, when the last one is looked at      *)
(* otherwise.                                                              *)
Queuing(succ, back, s) ==
    \A m \in Nodes(succ) :
        m \in Range(s.line) <=> /\ Incoming(succ, back, m) \subseteq Handled(succ, s)
                                /\ m <= s.seeded \/ Incoming(succ, back, m) # {}

(* No edge leads back in the queue.                                        *)
Sorting(succ, back, s) ==
    \A i, j \in DOMAIN s.line : <<s.line[i], s.line[j]>> \in Edges(succ) \ back => i < j

(* The invariant of the sort.                                              *)
Ordered(succ, back) ==
    {s \in OrderState(succ) : Placing(succ, s) /\ Counting(succ, back, s) /\ Queuing(succ, back, s)
                              /\ Sorting(succ, back, s)}

(* The wires to m that count are those of edges that are no back edges.    *)
LEMMA IncomingFacts ==
  ASSUME NEW succ, IsGraph(succ), NEW back, NEW m \in Nodes(succ)
  PROVE  /\ Incoming(succ, back, m) \subseteq Arcs(succ)
         /\ IsFiniteSet(Incoming(succ, back, m))
         /\ \A a \in Arcs(succ) : a \in Incoming(succ, back, m) <=> succ[a[1]][a[2]] = m /\ <<a[1], m>> \notin back
         /\ \A n \in Nodes(succ) : <<n, m>> \in Edges(succ) \ back =>
                \E a \in Incoming(succ, back, m) : a[1] = n
         /\ \A a \in Incoming(succ, back, m) : a[1] \in Nodes(succ) /\ <<a[1], m>> \in Edges(succ) \ back
<1>1. \A a \in Arcs(succ) : a \in Incoming(succ, back, m) <=> succ[a[1]][a[2]] = m /\ <<a[1], m>> \notin back
  BY DEF Incoming, Edge
<1>2. Incoming(succ, back, m) \subseteq Arcs(succ) /\ IsFiniteSet(Incoming(succ, back, m))
  <2>1. Incoming(succ, back, m) \in SUBSET Arcs(succ) BY DEF Incoming
  <2> QED BY <2>1, ArcFacts, FS_Subset
<1>3. ASSUME NEW n \in Nodes(succ), <<n, m>> \in Edges(succ) \ back
      PROVE  \E a \in Incoming(succ, back, m) : a[1] = n
  <2>1. PICK i \in 1..Len(succ[n]) : succ[n][i] = m BY <1>3, EdgeFacts
  <2>2. <<n, i>> \in Arcs(succ) BY ArcFacts
  <2>3. <<n, i>> \in Incoming(succ, back, m) BY <2>1, <2>2, <1>1, <1>3
  <2> QED BY <2>3
<1>4. ASSUME NEW a \in Incoming(succ, back, m) PROVE a[1] \in Nodes(succ) /\ <<a[1], m>> \in Edges(succ) \ back
  <2>1. a \in Arcs(succ) BY <1>2
  <2>2. a[1] \in Nodes(succ) /\ a[2] \in 1..Len(succ[a[1]]) BY <2>1, ArcFacts
  <2>3. succ[a[1]][a[2]] = m /\ <<a[1], m>> \notin back BY <2>1, <1>1
  <2> QED BY <2>2, <2>3, EdgeFacts
<1> QED BY <1>1, <1>2, <1>3, <1>4

(* The sort starts in its invariant, with no wire looked at.               *)
LEMMA OrderStarts ==
  ASSUME NEW succ, IsGraph(succ), NEW back
  PROVE  OrderStart(succ, back) \in Ordered(succ, back) /\ Handled(succ, OrderStart(succ, back)) = {}
<1> DEFINE s == OrderStart(succ, back)
           d == [m \in Nodes(succ) |-> Cardinality(Incoming(succ, back, m))]
<1>1. s = [line |-> <<>>, at |-> 1, tried |-> 0, seeded |-> 0, degree |-> d]
  BY DEF OrderStart, Nodes
<1>2. d \in [Nodes(succ) -> Int]
  BY IncomingFacts, FS_CardinalityType
<1>3. \A m \in Nodes(succ) : d[m] = Cardinality(Incoming(succ, back, m))
  OBVIOUS
<1> HIDE DEF s, d
<1>4. s.line = <<>> /\ s.at = 1 /\ s.tried = 0 /\ s.seeded = 0 /\ s.degree = d /\ s \in OrderState(succ)
  BY <1>1, <1>2 DEF OrderState
<1>5. Handled(succ, s) = {}
  BY <1>4 DEF Handled
<1>6. Placing(succ, s)
  BY <1>4, GraphFacts DEF Placing
<1>7. Counting(succ, back, s)
  <2>1. \A m \in Nodes(succ) : Incoming(succ, back, m) \ {} = Incoming(succ, back, m) OBVIOUS
  <2> QED BY <2>1, <1>3, <1>4, <1>5 DEF Counting
<1>8. Queuing(succ, back, s)
  <2>1. Range(s.line) = {} BY <1>4 DEF Range
  <2>2. \A m \in Nodes(succ) : ~(m <= s.seeded) BY <1>4, GraphFacts
  <2> QED BY <2>1, <2>2, <1>5 DEF Queuing
<1>9. Sorting(succ, back, s)
  BY <1>4 DEF Sorting
<1> QED BY <1>4, <1>5, <1>6, <1>7, <1>8, <1>9 DEF Ordered, s

(* Node m is asked for its degree.                                         *)
Seeds(succ, s, t, m) ==
    /\ s.seeded < Len(succ) /\ m = s.seeded + 1
    /\ t.seeded = m /\ t.at = s.at /\ t.tried = s.tried /\ t.degree = s.degree
    /\ t.line = IF s.degree[m] = 0 THEN Append(s.line, m) ELSE s.line

(* A node that is asked for its degree is queued if it has no wire at all. *)
LEMMA OrderSeeds ==
  ASSUME NEW succ, IsGraph(succ), NEW back, NEW s \in Ordered(succ, back),
         NEW t \in OrderState(succ), NEW m, Seeds(succ, s, t, m)
  PROVE  t \in Ordered(succ, back) /\ Handled(succ, t) = Handled(succ, s)
<1>0. s \in OrderState(succ) /\ Placing(succ, s) /\ Counting(succ, back, s)
      /\ Queuing(succ, back, s) /\ Sorting(succ, back, s)
  BY DEF Ordered
<1>a. s.seeded < Len(succ) /\ m = s.seeded + 1
  BY DEF Seeds
<1>b. t.seeded = m /\ t.at = s.at /\ t.tried = s.tried /\ t.degree = s.degree
  BY DEF Seeds
<1>c. t.line = IF s.degree[m] = 0 THEN Append(s.line, m) ELSE s.line
  BY DEF Seeds
<1> DEFINE l == Len(s.line)
<1>1. s.line \in Seq(Nodes(succ)) /\ l \in Nat /\ DOMAIN s.line = 1..l /\ s.seeded \in Nat
      /\ s.degree \in [Nodes(succ) -> Int] /\ s.at = 1 /\ s.tried = 0
  BY <1>0, <1>a DEF OrderState, Placing
<1>2. m \in Nodes(succ)
  BY <1>1, <1>a, GraphFacts
<1>3. Handled(succ, s) = {}
  <2>1. \A a \in Arcs(succ) : ~(a[2] <= 0) BY ArcFacts, GraphFacts
  <2>2. \A j \in DOMAIN s.line : ~(j < 1) BY <1>1
  <2> QED BY <1>1, <2>1, <2>2 DEF Handled
<1> HIDE DEF l
<1>4. Handled(succ, t) = {}
  <2>1. \A a \in Arcs(succ) : ~(a[2] <= 0) BY ArcFacts, GraphFacts
  <2>2. t.at = 1 /\ t.tried = 0 BY <1>1, <1>b
  <2>3. t.line \in Seq(Nodes(succ)) BY DEF OrderState
  <2>4. \A j \in DOMAIN t.line : ~(j < 1) BY <2>3
  <2> QED BY <2>1, <2>2, <2>4 DEF Handled
<1>5. \A x \in Nodes(succ) : x \in Range(s.line) <=> Incoming(succ, back, x) = {} /\ x <= s.seeded
  BY <1>0, <1>3 DEF Queuing
<1>6. Incoming(succ, back, m) = {} <=> s.degree[m] = 0
  <2>1. s.degree[m] = Cardinality(Incoming(succ, back, m))
    <3>1. s.degree[m] = Cardinality(Incoming(succ, back, m) \ {}) BY <1>0, <1>2, <1>3 DEF Counting
    <3>2. Incoming(succ, back, m) \ {} = Incoming(succ, back, m) OBVIOUS
    <3> QED BY <3>1, <3>2
  <2> QED BY <2>1, <1>2, IncomingFacts, FS_EmptySet
<1>7. m \notin Range(s.line) /\ \A j \in 1..l : s.line[j] # m /\ s.line[j] \in Nodes(succ)
  <2>1. m \notin Range(s.line) BY <1>1, <1>2, <1>5, <1>a
  <2> QED BY <2>1, <1>1 DEF Range
<1>8. CASE s.degree[m] = 0
  <2>1. t.line = Append(s.line, m) BY <1>8, <1>c
  <2>2. Len(t.line) = l + 1 /\ DOMAIN t.line = 1..(l + 1) /\ t.line[l + 1] = m
        /\ \A j \in 1..l : t.line[j] = s.line[j]
    BY <2>1, <1>1, <1>2 DEF l
  <2>3. \A j \in 1..(l + 1) : j \in 1..l \/ j = l + 1 BY <1>1
  <2>4. Range(t.line) = Range(s.line) \cup {m}
    <3>1. Range(t.line) = {t.line[j] : j \in 1..(l + 1)} /\ Range(s.line) = {s.line[j] : j \in 1..l}
      BY <2>2, <1>1 DEF Range
    <3>2. l + 1 \in 1..(l + 1) /\ \A j \in 1..l : j \in 1..(l + 1) BY <1>1
    <3> QED BY <3>1, <3>2, <2>2, <2>3
  <2>5. Queuing(succ, back, t)
    <3>1. \A x \in Nodes(succ) : x <= m <=> x <= s.seeded \/ x = m
      BY <1>1, <1>a, GraphFacts
    <3>2. \A x \in Nodes(succ) : x \in Range(t.line) <=> Incoming(succ, back, x) = {} /\ x <= m
      BY <3>1, <2>4, <1>2, <1>5, <1>6, <1>8
    <3> QED BY <3>2, <1>4, <1>b DEF Queuing
  <2>6. Sorting(succ, back, t)
    <3> SUFFICES ASSUME NEW i \in 1..(l + 1), NEW j \in 1..(l + 1), <<t.line[i], t.line[j]>> \in Edges(succ) \ back
                 PROVE  FALSE
      BY <2>2 DEF Sorting
    <3> DEFINE x == t.line[i]
               y == t.line[j]
    <3>1. x \in Nodes(succ) /\ y \in Nodes(succ)
      <4>1. t.line \in Seq(Nodes(succ)) BY DEF OrderState
      <4> QED BY <4>1, <2>2
    <3>2. y \in Range(t.line) BY <2>2 DEF Range
    <3> HIDE DEF x, y
    <3>3. Incoming(succ, back, y) = {} BY <3>1, <3>2, <2>4, <1>5, <1>6, <1>8
    <3>4. <<x, y>> \in Edges(succ) \ back BY DEF x, y
    <3> QED BY <3>1, <3>3, <3>4, IncomingFacts
  <2>7. Placing(succ, t)
    <3>1. m <= Len(succ) BY <1>1, <1>a, GraphFacts
    <3>2. 1 <= l + 1 /\ 1 <= l + 2 /\ 1 # l + 2 BY <1>1
    <3>3. 0 <= Len(succ[t.line[1]])
      <4>1. t.line[1] \in Nodes(succ) BY <2>2, <1>1, <1>2, <1>7
      <4> QED BY <4>1, GraphFacts
    <3>4. \A i, j \in DOMAIN t.line : t.line[i] = t.line[j] => i = j
      <4>1. \A i, j \in 1..l : s.line[i] = s.line[j] => i = j BY <1>0, <1>1 DEF Placing
      <4> QED BY <4>1, <2>2, <2>3, <1>7
    <3> QED BY <3>1, <3>2, <3>3, <3>4, <2>2, <1>1, <1>b DEF Placing
  <2>8. Counting(succ, back, t)
    BY <1>0, <1>3, <1>4, <1>b DEF Counting
  <2> QED BY <2>5, <2>6, <2>7, <2>8, <1>3, <1>4 DEF Ordered
<1>9. CASE s.degree[m] # 0
  <2>1. t.line = s.line BY <1>9, <1>c
  <2>2. Queuing(succ, back, t)
    <3>1. \A x \in Nodes(succ) : x <= m <=> x <= s.seeded \/ x = m
      BY <1>1, <1>a, GraphFacts
    <3>2. \A x \in Nodes(succ) : x \in Range(t.line) <=> Incoming(succ, back, x) = {} /\ x <= m
      BY <3>1, <2>1, <1>2, <1>5, <1>6, <1>9
    <3> QED BY <3>2, <1>4, <1>b DEF Queuing
  <2>3. Sorting(succ, back, t) BY <1>0, <2>1 DEF Sorting
  <2>4. m <= Len(succ) BY <1>1, <1>a, GraphFacts
  <2>5. Placing(succ, t) BY <1>0, <1>a, <1>b, <2>1, <2>4 DEF Placing
  <2>6. Counting(succ, back, t) BY <1>0, <1>3, <1>4, <1>b DEF Counting
  <2> QED BY <2>2, <2>3, <2>5, <2>6, <1>3, <1>4 DEF Ordered
<1> QED BY <1>8, <1>9

(* The queue moves on to the next node.                                    *)
MovesOn(succ, s, t) ==
    /\ s.seeded = Len(succ) /\ s.at <= Len(s.line) /\ s.tried = Len(succ[s.line[s.at]])
    /\ t.seeded = s.seeded /\ t.at = s.at + 1 /\ t.tried = 0 /\ t.degree = s.degree /\ t.line = s.line

(* When all wires of a node were looked at, moving on looks at none.       *)
LEMMA OrderMovesOn ==
  ASSUME NEW succ, IsGraph(succ), NEW back, NEW s \in Ordered(succ, back),
         NEW t \in OrderState(succ), MovesOn(succ, s, t)
  PROVE  t \in Ordered(succ, back) /\ Handled(succ, t) = Handled(succ, s)
<1>0. s \in OrderState(succ) /\ Placing(succ, s) /\ Counting(succ, back, s)
      /\ Queuing(succ, back, s) /\ Sorting(succ, back, s)
  BY DEF Ordered
<1>a. s.seeded = Len(succ) /\ s.at <= Len(s.line) /\ s.tried = Len(succ[s.line[s.at]])
  BY DEF MovesOn
<1>b. t.seeded = s.seeded /\ t.at = s.at + 1 /\ t.tried = 0 /\ t.degree = s.degree /\ t.line = s.line
  BY DEF MovesOn
<1> DEFINE l == Len(s.line)
<1>1. s.line \in Seq(Nodes(succ)) /\ l \in Nat /\ DOMAIN s.line = 1..l /\ s.at \in Nat
      /\ s.at >= 1 /\ s.at \in 1..l
  BY <1>0, <1>a DEF OrderState, Placing
<1>2. Handled(succ, t) = Handled(succ, s)
  <2>1. \A a \in Arcs(succ) : \A j \in 1..l :
           s.line[j] = a[1] => (j < s.at + 1 \/ (j = s.at + 1 /\ a[2] <= 0) <=> j < s.at \/ (j = s.at /\ a[2] <= s.tried))
    <3> TAKE a \in Arcs(succ)
    <3> TAKE j \in 1..l
    <3> HAVE s.line[j] = a[1]
    <3>1. a[1] \in Nodes(succ) /\ a[2] \in 1..Len(succ[a[1]])
      BY ArcFacts
    <3>4. a[2] \in Nat /\ ~(a[2] <= 0) /\ a[2] <= Len(succ[a[1]])
      BY <3>1, GraphFacts
    <3>2. j = s.at => a[2] <= s.tried
      BY <3>4, <1>a
    <3>3. j < s.at + 1 <=> j < s.at \/ j = s.at BY <1>1
    <3> QED BY <3>4, <3>2, <3>3
  <2> QED BY <2>1, <1>1, <1>b DEF Handled
<1>3. Placing(succ, t)
  <2>1. s.at + 1 >= 1 /\ s.at + 1 <= l + 1 BY <1>1
  <2>2. s.at + 1 <= l => 0 <= Len(succ[s.line[s.at + 1]])
    <3> SUFFICES ASSUME s.at + 1 <= l PROVE 0 <= Len(succ[s.line[s.at + 1]]) OBVIOUS
    <3>1. s.line[s.at + 1] \in Nodes(succ) BY <1>1
    <3> QED BY <3>1, GraphFacts
  <2>3. ~(s.seeded < Len(succ)) BY <1>a, GraphFacts
  <2> QED BY <2>1, <2>2, <2>3, <1>0, <1>b DEF Placing
<1>4. Counting(succ, back, t) /\ Queuing(succ, back, t) /\ Sorting(succ, back, t)
  BY <1>0, <1>2, <1>b DEF Counting, Queuing, Sorting
<1> QED BY <1>2, <1>3, <1>4 DEF Ordered

(* Successor i of n, which is m, is looked at.                             *)
Passes(succ, back, s, t, n, i, m) ==
    /\ s.seeded = Len(succ) /\ s.at <= Len(s.line) /\ n = s.line[s.at]
    /\ i = s.tried + 1 /\ i <= Len(succ[n]) /\ m = succ[n][i]
    /\ t.seeded = s.seeded /\ t.at = s.at /\ t.tried = i
    /\ \/ <<n, m>> \in back /\ t.degree = s.degree /\ t.line = s.line
       \/ /\ <<n, m>> \notin back /\ t.degree = [s.degree EXCEPT ![m] = s.degree[m] - 1]
          /\ t.line = IF s.degree[m] - 1 = 0 THEN Append(s.line, m) ELSE s.line

(* A look at a successor is a look at one wire that was not looked at      *)
(* before, because its node stands at one place of the queue only.         *)
LEMMA PassesHandles ==
  ASSUME NEW succ, IsGraph(succ), NEW back, NEW s \in Ordered(succ, back), NEW t \in OrderState(succ),
         NEW n, NEW i, NEW m, Passes(succ, back, s, t, n, i, m)
  PROVE  /\ n \in Nodes(succ) /\ i \in 1..Len(succ[n]) /\ m \in Nodes(succ) /\ s.at \in 1..Len(s.line)
         /\ <<n, i>> \in Arcs(succ) /\ <<n, i>> \notin Handled(succ, s) /\ <<n, m>> \in Edges(succ)
         /\ \A a : a \in Handled(succ, t) <=> a \in Handled(succ, s) \/ a = <<n, i>>
<1>0. s \in OrderState(succ) /\ Placing(succ, s)
  BY DEF Ordered
<1>a. s.at <= Len(s.line) /\ n = s.line[s.at] /\ i = s.tried + 1 /\ i <= Len(succ[n]) /\ m = succ[n][i]
  BY DEF Passes
<1>b. t.at = s.at /\ t.tried = i
  BY DEF Passes
<1>c. t.line = s.line \/ t.line = Append(s.line, m)
  BY DEF Passes
<1> DEFINE l == Len(s.line)
<1>1. s.line \in Seq(Nodes(succ)) /\ l \in Nat /\ DOMAIN s.line = 1..l /\ s.at \in 1..l /\ s.tried \in Nat
  BY <1>0, <1>a DEF OrderState, Placing
<1>2. n \in Nodes(succ)
  BY <1>1, <1>a
<1>3. i \in 1..Len(succ[n])
  <2>1. Len(succ[n]) \in Nat BY <1>2, GraphFacts
  <2>2. i \in Nat /\ i >= 1 BY <1>1, <1>a
  <2> QED BY <2>1, <2>2, <1>a
<1>4. m \in Nodes(succ) /\ <<n, m>> \in Edges(succ)
  BY <1>2, <1>3, <1>a, GraphFacts, EdgeFacts
<1>5. \A j \in 1..l : j \in DOMAIN t.line /\ t.line[j] = s.line[j]
  BY <1>1, <1>c, <1>4
<1>6. \A j \in DOMAIN t.line : j \in Nat /\ (j <= s.at => j \in 1..l)
  <2>1. t.line \in Seq(Nodes(succ)) BY DEF OrderState
  <2> QED BY <1>1, <2>1
<1> HIDE DEF l
<1>7. \A j \in 1..l : s.line[j] = n => j = s.at
  BY <1>0, <1>1, <1>a DEF Placing
<1>8. <<n, i>> \in Arcs(succ)
  BY <1>2, <1>3, ArcFacts
<1>9. <<n, i>> \notin Handled(succ, s)
  <2> SUFFICES ASSUME NEW j \in 1..l, s.line[j] = n, j < s.at \/ (j = s.at /\ i <= s.tried) PROVE FALSE
    BY <1>1 DEF Handled
  <2> QED BY <1>1, <1>7, <1>a
<1>10. ASSUME NEW a \in Arcs(succ)
       PROVE  a \in Handled(succ, t) <=> a \in Handled(succ, s) \/ a = <<n, i>>
  <2>0. a = <<a[1], a[2]>> /\ a[1] \in Nodes(succ) /\ a[2] \in Nat
    BY ArcFacts, GraphFacts
  <2>1. ASSUME a \in Handled(succ, s) PROVE a \in Handled(succ, t)
    <3>1. PICK j \in 1..l : s.line[j] = a[1] /\ (j < s.at \/ (j = s.at /\ a[2] <= s.tried))
      BY <1>1, <2>1 DEF Handled
    <3>2. j \in DOMAIN t.line /\ t.line[j] = a[1] /\ (j < t.at \/ (j = t.at /\ a[2] <= t.tried))
      BY <3>1, <1>1, <1>5, <1>a, <1>b, <2>0
    <3> QED BY <3>2 DEF Handled
  <2>2. ASSUME a = <<n, i>> PROVE a \in Handled(succ, t)
    <3>1. s.at \in DOMAIN t.line /\ t.line[s.at] = n BY <1>1, <1>5, <1>a
    <3>2. t.line[s.at] = a[1] /\ s.at = t.at /\ a[2] <= t.tried
      BY <3>1, <2>0, <2>2, <1>b
    <3> QED BY <3>1, <3>2 DEF Handled
  <2>3. ASSUME a \in Handled(succ, t), a # <<n, i>> PROVE a \in Handled(succ, s)
    <3>1. PICK j \in DOMAIN t.line : t.line[j] = a[1] /\ (j < s.at \/ (j = s.at /\ a[2] <= i))
      BY <2>3, <1>b DEF Handled
    <3>2. j \in 1..l BY <3>1, <1>1, <1>6
    <3>3. s.line[j] = a[1] /\ (j = s.at => a[1] = n) BY <3>1, <3>2, <1>5, <1>a
    <3>4. j = s.at => a[2] <= s.tried
      BY <2>0, <2>3, <3>1, <3>3, <1>1, <1>a
    <3> QED BY <3>1, <3>2, <3>3, <3>4, <1>1 DEF Handled
  <2> QED BY <2>1, <2>2, <2>3
<1>11. \A a : a \in Handled(succ, t) <=> a \in Handled(succ, s) \/ a = <<n, i>>
  <2>1. Handled(succ, t) \subseteq Arcs(succ) /\ Handled(succ, s) \subseteq Arcs(succ) BY DEF Handled
  <2> QED BY <2>1, <1>8, <1>10
<1> QED BY <1>1, <1>2, <1>3, <1>4, <1>8, <1>9, <1>11 DEF l

(* It preserves the invariant: only the successor has one wire less left,  *)
(* and if it is queued, it goes behind all nodes that lead to it.          *)
LEMMA OrderPasses ==
  ASSUME NEW succ, IsGraph(succ), NEW back, NEW s \in Ordered(succ, back), NEW t \in OrderState(succ),
         NEW n, NEW i, NEW m, Passes(succ, back, s, t, n, i, m)
  PROVE  t \in Ordered(succ, back)
<1>0. s \in OrderState(succ) /\ Placing(succ, s) /\ Counting(succ, back, s)
      /\ Queuing(succ, back, s) /\ Sorting(succ, back, s)
  BY DEF Ordered
<1> DEFINE l == Len(s.line)
<1>a. s.seeded = Len(succ) /\ n = s.line[s.at] /\ i = s.tried + 1 /\ m = succ[n][i]
  BY DEF Passes
<1>b. t.seeded = s.seeded /\ t.at = s.at /\ t.tried = i
  BY DEF Passes
<1>c. \/ <<n, m>> \in back /\ t.degree = s.degree /\ t.line = s.line
      \/ /\ <<n, m>> \notin back /\ t.degree = [s.degree EXCEPT ![m] = s.degree[m] - 1]
         /\ t.line = IF s.degree[m] - 1 = 0 THEN Append(s.line, m) ELSE s.line
  BY DEF Passes
<1>1. s.line \in Seq(Nodes(succ)) /\ l \in Nat /\ DOMAIN s.line = 1..l /\ s.degree \in [Nodes(succ) -> Int]
  BY <1>0 DEF OrderState
<1>2. n \in Nodes(succ) /\ i \in 1..Len(succ[n]) /\ m \in Nodes(succ) /\ s.at \in 1..l
  BY PassesHandles
<1>3. <<n, i>> \in Arcs(succ) /\ <<n, i>> \notin Handled(succ, s)
      /\ Handled(succ, t) = Handled(succ, s) \cup {<<n, i>>}
  <2>1. <<n, i>> \in Arcs(succ) BY PassesHandles
  <2>2. <<n, i>> \notin Handled(succ, s) BY PassesHandles
  <2>3. \A a : a \in Handled(succ, t) <=> a \in Handled(succ, s) \/ a = <<n, i>> BY PassesHandles
  <2> QED BY <2>1, <2>2, <2>3
<1>d. s.seeded <= Len(succ) /\ ~(s.seeded < Len(succ)) /\ i <= Len(succ[n]) /\ s.at >= 1 /\ s.at <= Len(s.line)
      /\ s.at # Len(s.line) + 1
  <2>1. Len(succ) \in Nat /\ Len(succ[n]) \in Nat BY <1>2, GraphFacts
  <2> QED BY <2>1, <1>a, <1>1, <1>2
<1> HIDE DEF l
<1>4. \A x \in Nodes(succ) : <<n, i>> \in Incoming(succ, back, x) <=> x = m /\ <<n, m>> \notin back
  <2> TAKE x \in Nodes(succ)
  <2>1. <<n, i>> \in Incoming(succ, back, x) <=> succ[n][i] = x /\ <<n, x>> \notin back
    BY <1>3, IncomingFacts
  <2> QED BY <2>1, <1>a
<1>5. \A x \in Nodes(succ) : x <= s.seeded
  BY <1>a, GraphFacts
<1>6. \A x \in Nodes(succ) : x \in Range(s.line) <=> Incoming(succ, back, x) \subseteq Handled(succ, s)
  BY <1>0, <1>5 DEF Queuing
<1>7. CASE <<n, m>> \in back
  <2>1. t.degree = s.degree /\ t.line = s.line BY <1>7, <1>c
  <2>2. \A x \in Nodes(succ) : Incoming(succ, back, x) \ Handled(succ, t) = Incoming(succ, back, x) \ Handled(succ, s)
    BY <1>3, <1>4, <1>7
  <2>3. Counting(succ, back, t) BY <2>1, <2>2, <1>0 DEF Counting
  <2>4. \A x \in Nodes(succ) : Incoming(succ, back, x) \subseteq Handled(succ, t) <=> Incoming(succ, back, x) \subseteq Handled(succ, s)
    BY <2>2
  <2>5. Queuing(succ, back, t) BY <2>1, <2>4, <1>5, <1>6, <1>b DEF Queuing
  <2>6. Sorting(succ, back, t) BY <2>1, <1>0 DEF Sorting
  <2>7. Placing(succ, t)
    BY <2>1, <1>0, <1>a, <1>b, <1>d DEF Placing
  <2> QED BY <2>3, <2>5, <2>6, <2>7 DEF Ordered
<1>8. CASE <<n, m>> \notin back
  <2>1. t.degree = [s.degree EXCEPT ![m] = s.degree[m] - 1]
    BY <1>8, <1>c
  <2>2. t.line = IF s.degree[m] - 1 = 0 THEN Append(s.line, m) ELSE s.line
    BY <1>8, <1>c
  <2>3. \A x \in Nodes(succ) : x # m =>
           Incoming(succ, back, x) \ Handled(succ, t) = Incoming(succ, back, x) \ Handled(succ, s)
    BY <1>3, <1>4
  <2>4. Incoming(succ, back, m) \ Handled(succ, t) = (Incoming(succ, back, m) \ Handled(succ, s)) \ {<<n, i>>}
    BY <1>3
  <2>5. <<n, i>> \in Incoming(succ, back, m) \ Handled(succ, s)
    BY <1>2, <1>3, <1>4, <1>8
  <2>6. IsFiniteSet(Incoming(succ, back, m) \ Handled(succ, s))
    BY <1>2, IncomingFacts, FS_Difference
  <2>7. t.degree[m] = Cardinality(Incoming(succ, back, m) \ Handled(succ, t)) /\ t.degree[m] = s.degree[m] - 1
    <3>1. s.degree[m] = Cardinality(Incoming(succ, back, m) \ Handled(succ, s)) BY <1>0, <1>2 DEF Counting
    <3>2. t.degree[m] = s.degree[m] - 1 BY <2>1, <1>1, <1>2
    <3>3. Cardinality((Incoming(succ, back, m) \ Handled(succ, s)) \ {<<n, i>>})
            = Cardinality(Incoming(succ, back, m) \ Handled(succ, s)) - 1
      BY <2>5, <2>6, FS_RemoveElement
    <3> QED BY <2>4, <3>1, <3>2, <3>3
  <2>8. Counting(succ, back, t)
    <3>1. \A x \in Nodes(succ) : x # m => t.degree[x] = s.degree[x] BY <2>1, <1>1
    <3> QED BY <3>1, <2>3, <2>7, <1>0 DEF Counting
  <2>9. m \notin Range(s.line)
    BY <2>5, <1>2, <1>6
  <2>10. Incoming(succ, back, m) \subseteq Handled(succ, t) <=> s.degree[m] - 1 = 0
    <3>1. IsFiniteSet(Incoming(succ, back, m) \ Handled(succ, t)) BY <1>2, IncomingFacts, FS_Difference
    <3>2. Cardinality(Incoming(succ, back, m) \ Handled(succ, t)) = 0 <=> Incoming(succ, back, m) \ Handled(succ, t) = {}
      BY <3>1, FS_EmptySet
    <3> QED BY <3>2, <2>7
  <2>11. \A x \in Nodes(succ) : x # m =>
            (Incoming(succ, back, x) \subseteq Handled(succ, t) <=> x \in Range(s.line))
    BY <2>3, <1>6
  <2>12. CASE s.degree[m] - 1 # 0
    <3>1. t.line = s.line BY <2>2, <2>12
    <3>2. Queuing(succ, back, t) BY <3>1, <2>9, <2>10, <2>11, <2>12, <1>5, <1>b DEF Queuing
    <3>3. Sorting(succ, back, t) BY <3>1, <1>0 DEF Sorting
    <3>4. Placing(succ, t)
      BY <3>1, <1>0, <1>a, <1>b, <1>d DEF Placing
    <3> QED BY <2>8, <3>2, <3>3, <3>4 DEF Ordered
  <2>13. CASE s.degree[m] - 1 = 0
    <3>1. t.line = Append(s.line, m) BY <2>2, <2>13
    <3>2. Len(t.line) = l + 1 /\ DOMAIN t.line = 1..(l + 1) /\ t.line[l + 1] = m
          /\ \A j \in 1..l : t.line[j] = s.line[j]
      BY <3>1, <1>1, <1>2 DEF l
    <3>3. \A j \in 1..(l + 1) : j \in 1..l \/ j = l + 1 BY <1>1
    <3>4. Range(s.line) = {s.line[j] : j \in 1..l} BY <1>1 DEF Range
    <3>5. Range(t.line) = Range(s.line) \cup {m}
      <4>1. Range(t.line) = {t.line[j] : j \in 1..(l + 1)} BY <3>2 DEF Range
      <4>2. l + 1 \in 1..(l + 1) /\ \A j \in 1..l : j \in 1..(l + 1) BY <1>1
      <4> QED BY <3>2, <3>3, <3>4, <4>1, <4>2
    <3>6. Queuing(succ, back, t)
      <4>1. \A x \in Nodes(succ) : x \in Range(t.line) <=> Incoming(succ, back, x) \subseteq Handled(succ, t)
        BY <3>5, <2>10, <2>11, <2>13
      <4>2. Incoming(succ, back, m) # {} BY <2>5
      <4> QED BY <4>1, <4>2, <1>5, <1>b DEF Queuing
    <3>7. \A j \in 1..l : s.line[j] # m /\ s.line[j] \in Nodes(succ)
      BY <2>9, <3>4, <1>1
    <3>8. Placing(succ, t)
      <4>1. \A j, k \in DOMAIN t.line : t.line[j] = t.line[k] => j = k
        <5>1. \A j, k \in 1..l : s.line[j] = s.line[k] => j = k BY <1>0, <1>1 DEF Placing
        <5> QED BY <5>1, <3>2, <3>3, <3>7
      <4>2. t.at <= Len(t.line) /\ t.at # Len(t.line) + 1 /\ t.at >= 1 /\ t.line[t.at] = n
            /\ t.tried <= Len(succ[n])
        BY <3>2, <1>1, <1>2, <1>a, <1>b, <1>d
      <4>3. t.seeded <= Len(succ) /\ ~(t.seeded < Len(succ)) /\ t.at <= Len(t.line) + 1
        BY <1>b, <1>d, <3>2, <1>1, <1>2
      <4> QED BY <4>1, <4>2, <4>3 DEF Placing
    <3>9. Sorting(succ, back, t)
      <4> SUFFICES ASSUME NEW j \in 1..(l + 1), NEW k \in 1..(l + 1), <<t.line[j], t.line[k]>> \in Edges(succ) \ back
                   PROVE  j < k
        BY <3>2 DEF Sorting
      <4>1. CASE j \in 1..l /\ k \in 1..l
        BY <4>1, <3>2, <1>0, <1>1 DEF Sorting
      <4>2. CASE j \in 1..l /\ k = l + 1
        BY <4>2, <1>1
      <4>3. CASE j = l + 1
        <5> DEFINE y == t.line[k]
        <5>1. y \in Nodes(succ) /\ y \in Range(t.line)
          BY <3>2, <3>3, <3>5, <3>7, <1>2, <3>4
        <5>2. t.line[j] = m BY <4>3, <3>2
        <5> HIDE DEF y
        <5>3. <<m, y>> \in Edges(succ) \ back BY <5>2 DEF y
        <5>4. PICK a \in Incoming(succ, back, y) : a[1] = m
          BY <5>1, <5>3, <1>2, IncomingFacts
        <5>5. a \in Handled(succ, t)
          BY <5>1, <5>4, <3>5, <2>10, <2>11, <2>13, <2>9
        <5>6. m # n /\ a # <<n, i>>
          <6>1. n \in Range(s.line) BY <3>4, <1>2, <1>a
          <6>2. m # n BY <6>1, <2>9
          <6> QED BY <6>2, <5>4
        <5>7. a \in Handled(succ, s) BY <5>5, <5>6, <1>3
        <5>8. PICK x \in 1..l : s.line[x] = a[1] BY <5>7, <1>1 DEF Handled
        <5> QED BY <5>4, <5>8, <3>7
      <4> QED BY <4>1, <4>2, <4>3, <3>3
    <3> QED BY <2>8, <3>6, <3>8, <3>9 DEF Ordered
  <2> QED BY <2>12, <2>13
<1> QED BY <1>7, <1>8

(* The end of the sort: all nodes were asked and all of the queue is       *)
(* handled.                                                                *)
Emptied(succ, s) == s.seeded = Len(succ) /\ s.at = Len(s.line) + 1

(* How many nodes were asked, wires looked at and nodes handled, k in all. *)
OrderCount(succ, s, k) ==
    Emptied(succ, s) \/ k = s.seeded + Cardinality(Handled(succ, s)) + (s.at - 1)

(* At most all wires are looked at.                                        *)
LEMMA HandledFinite ==
  ASSUME NEW succ, IsGraph(succ), NEW s
  PROVE  /\ IsFiniteSet(Handled(succ, s)) /\ Cardinality(Handled(succ, s)) \in Nat
         /\ Cardinality(Handled(succ, s)) <= Cardinality(Arcs(succ))
<1>1. Handled(succ, s) \in SUBSET Arcs(succ)
  BY DEF Handled
<1> QED BY <1>1, ArcFacts, FS_Subset, FS_CardinalityType

(* Every step preserves the invariant and asks, looks or handles once      *)
(* more, until the queue is empty.                                         *)
LEMMA OrderStepKeeps ==
  ASSUME NEW succ, IsGraph(succ), NEW back, NEW s \in Ordered(succ, back), NEW k \in Nat, OrderCount(succ, s, k)
  PROVE  /\ OrderStep(succ, back, s) \in Ordered(succ, back)
         /\ OrderCount(succ, OrderStep(succ, back, s), k + 1)
<1> DEFINE n == s.line[s.at]
           i == s.tried + 1
           m == succ[n][i]
           t == OrderStep(succ, back, s)
           c == Cardinality(Handled(succ, s))
           queued(x, d) == IF d = 0 THEN Append(s.line, x) ELSE s.line
<1>0. s \in OrderState(succ) /\ Placing(succ, s)
  BY DEF Ordered
<1>1. /\ s.line \in Seq(Nodes(succ)) /\ s.at \in Nat /\ s.tried \in Nat /\ s.seeded \in Nat
      /\ s.degree \in [Nodes(succ) -> Int] /\ Len(s.line) \in Nat /\ DOMAIN s.line = 1..Len(s.line)
  BY <1>0 DEF OrderState
<1>2. s.seeded <= Len(succ) /\ s.at >= 1 /\ s.at <= Len(s.line) + 1
  BY <1>0 DEF Placing
<1>3. c \in Nat /\ Len(succ) \in Nat
  BY HandledFinite, GraphFacts
<1>4. CASE s.seeded < Len(succ)
  <2> DEFINE x == s.seeded + 1
             q == queued(x, s.degree[x])
  <2>1. t = [s EXCEPT !.seeded = x, !.line = q]
    BY <1>4 DEF OrderStep
  <2>2. x \in Nodes(succ) /\ x \in Nat
    BY <1>1, <1>4, GraphFacts
  <2>3. q \in Seq(Nodes(succ))
    BY <2>2, <1>1
  <2> HIDE DEF x, q
  <2>4. t \in OrderState(succ) /\ t.seeded = x /\ t.at = s.at /\ t.tried = s.tried
        /\ t.degree = s.degree /\ t.line = q
    BY <2>1, <2>2, <2>3, <1>0 DEF OrderState
  <2> HIDE DEF t
  <2>5. Seeds(succ, s, t, x)
    BY <2>4, <1>4 DEF Seeds, x, q
  <2>6. t \in Ordered(succ, back) /\ Handled(succ, t) = Handled(succ, s)
    BY <2>4, <2>5, OrderSeeds
  <2>7. k = s.seeded + c + (s.at - 1)
    BY <1>1, <1>3, <1>4 DEF OrderCount, Emptied
  <2>8. k + 1 = t.seeded + Cardinality(Handled(succ, t)) + (t.at - 1)
    <3>1. Cardinality(Handled(succ, t)) = c /\ t.seeded = s.seeded + 1 /\ t.at = s.at
      BY <2>4, <2>6 DEF x
    <3>2. k + 1 = (s.seeded + 1) + c + (s.at - 1)
      <4>1. s.seeded \in Nat /\ s.at \in Nat
        BY <1>1
      <4> HIDE DEF c
      <4> QED BY <2>7, <4>1, <1>3, SMT
    <3> HIDE DEF c
    <3> QED BY <3>1, <3>2
  <2> QED BY <2>6, <2>8 DEF OrderCount, t
<1>5. CASE s.seeded = Len(succ) /\ s.at > Len(s.line)
  <2>1. t = s
    BY <1>1, <1>3, <1>5 DEF OrderStep
  <2>2. Emptied(succ, s)
    BY <1>1, <1>2, <1>5 DEF Emptied
  <2> QED BY <2>1, <2>2 DEF OrderCount
<1>6. CASE s.seeded = Len(succ) /\ s.at <= Len(s.line)
  <2>0. ~(s.seeded < Len(succ)) /\ ~(s.at > Len(s.line))
    BY <1>1, <1>3, <1>6
  <2>1. s.at \in 1..Len(s.line) /\ n \in Nodes(succ) /\ Len(succ[n]) \in Nat
    <3>1. s.at \in 1..Len(s.line) BY <1>1, <1>2, <1>6
    <3>2. n \in Nodes(succ) BY <3>1, <1>1
    <3> QED BY <3>1, <3>2, GraphFacts
  <2>2. s.tried <= Len(succ[n])
    BY <1>0, <1>6 DEF Placing
  <2>3. k = s.seeded + c + (s.at - 1)
    BY <1>1, <1>6 DEF OrderCount, Emptied
  <2>4. CASE i > Len(succ[n])
    <3>1. t = [s EXCEPT !.at = s.at + 1, !.tried = 0]
      BY <2>0, <2>4 DEF OrderStep
    <3>2. s.tried = Len(succ[n])
      BY <2>1, <2>2, <2>4, <1>1
    <3>3. t \in OrderState(succ) /\ t.seeded = s.seeded /\ t.at = s.at + 1 /\ t.tried = 0
          /\ t.degree = s.degree /\ t.line = s.line
      <4> HIDE DEF t
      <4>1. s.at + 1 \in Nat BY <1>1
      <4>2. t \in OrderState(succ) BY <3>1, <4>1, <1>0 DEF OrderState
      <4> QED BY <3>1, <4>2, <1>0 DEF OrderState
    <3> HIDE DEF t
    <3>4. MovesOn(succ, s, t)
      BY <3>2, <3>3, <1>6 DEF MovesOn
    <3>5. t \in Ordered(succ, back) /\ Handled(succ, t) = Handled(succ, s)
      BY <3>3, <3>4, OrderMovesOn
    <3>6. k + 1 = t.seeded + Cardinality(Handled(succ, t)) + (t.at - 1)
      BY <3>3, <3>5, <2>3, <1>1, <1>3
    <3> QED BY <3>5, <3>6 DEF OrderCount, t
  <2>5. CASE ~(i > Len(succ[n]))
    <3>1. i <= Len(succ[n]) /\ i \in 1..Len(succ[n]) /\ i \in Nat /\ m \in Nodes(succ)
      <4>1. i <= Len(succ[n]) /\ i \in 1..Len(succ[n]) /\ i \in Nat BY <2>1, <2>5, <1>1
      <4> QED BY <4>1, <2>1, GraphFacts
    <3> DEFINE d == [s.degree EXCEPT ![m] = s.degree[m] - 1]
               q == queued(m, s.degree[m] - 1)
    <3>2. t = IF <<n, m>> \in back THEN [s EXCEPT !.tried = i]
              ELSE [s EXCEPT !.tried = i, !.degree = d, !.line = q]
      BY <2>0, <2>5 DEF OrderStep
    <3>3. d \in [Nodes(succ) -> Int] /\ q \in Seq(Nodes(succ))
      <4>1. m \in Nodes(succ) BY <3>1
      <4> HIDE DEF m
      <4>2. s.degree[m] - 1 \in Int BY <4>1, <1>1
      <4>3. d \in [Nodes(succ) -> Int] BY <4>1, <4>2, <1>1
      <4> QED BY <4>1, <4>3, <1>1
    <3> HIDE DEF d, q, i, m, n, t
    <3>4. t \in OrderState(succ) /\ t.seeded = s.seeded /\ t.at = s.at /\ t.tried = i
          /\ \/ <<n, m>> \in back /\ t.degree = s.degree /\ t.line = s.line
             \/ <<n, m>> \notin back /\ t.degree = d /\ t.line = q
      <4>1. CASE <<n, m>> \in back
        <5>1. t = [s EXCEPT !.tried = i] BY <3>2, <4>1
        <5> QED BY <5>1, <4>1, <3>1, <1>0 DEF OrderState
      <4>2. CASE <<n, m>> \notin back
        <5>1. t = [s EXCEPT !.tried = i, !.degree = d, !.line = q] BY <3>2, <4>2
        <5> QED BY <5>1, <4>2, <3>1, <3>3, <1>0 DEF OrderState
      <4> QED BY <4>1, <4>2
    <3>5. Passes(succ, back, s, t, n, i, m)
      BY <3>1, <3>4, <1>6 DEF Passes, n, i, m, d, q
    <3>6. t \in Ordered(succ, back)
      BY <3>4, <3>5, OrderPasses
    <3> HIDE DEF c, queued
    <3>7. \A a : a \in Handled(succ, t) <=> a \in Handled(succ, s) \/ a = <<n, i>>
      <4>1. t \in OrderState(succ) BY <3>4
      <4> QED BY <4>1, <3>5, PassesHandles
    <3>8. <<n, i>> \notin Handled(succ, s)
      BY <3>4, <3>5, PassesHandles
    <3>9. Handled(succ, t) = Handled(succ, s) \cup {<<n, i>>}
      BY <3>7
    <3>10. Cardinality(Handled(succ, t)) = c + 1
      BY <3>8, <3>9, HandledFinite, FS_AddElement DEF c
    <3>11. t.seeded = s.seeded /\ t.at = s.at
      BY <3>4
    <3>12. k + 1 = t.seeded + Cardinality(Handled(succ, t)) + (t.at - 1)
      BY <3>10, <3>11, <2>3, <1>1, <1>3
    <3> QED BY <3>6, <3>12 DEF OrderCount, t
  <2> QED BY <2>4, <2>5
<1> QED BY <1>1, <1>2, <1>3, <1>4, <1>5, <1>6

(* As many steps as there can be were all of the steps there are.          *)
LEMMA CountsEnd ==
  ASSUME NEW a \in Nat, NEW b \in Nat, NEW u \in Nat, NEW x \in Nat, NEW v \in Nat, NEW w \in Nat,
         u <= a, x <= b, w <= a, v >= 1, v <= w + 1, 2 * a + b = u + x + (v - 1)
  PROVE  u = a /\ v = w + 1
OBVIOUS

(* With twice as many steps as nodes, and one for each wire, the sort      *)
(* comes to its end.                                                       *)
LEMMA OrderEnds ==
  ASSUME NEW succ, IsGraph(succ)
  PROVE  \E s \in Ordered(succ, BackEdges(succ)) : Emptied(succ, s) /\ LinearOrder(succ) = s.line
<1> DEFINE N == OrderSteps(succ)
           B == BackEdges(succ)
           S == Ordered(succ, B)
           start == OrderStart(succ, B)
           F == [s \in S |-> OrderStep(succ, B, s)]
           run == CHOOSE f : f = [k \in 0..N |-> IF k = 0 THEN start ELSE OrderStep(succ, B, f[k - 1])]
<1>1. N = 2 * Len(succ) + Cardinality(Arcs(succ)) /\ N \in Nat
  <2>1. Len(succ) \in Nat /\ Cardinality(Arcs(succ)) \in Nat
    BY ArcFacts, GraphFacts
  <2> QED BY <2>1 DEF OrderSteps
<1> HIDE DEF B
<1>2. start \in S /\ OrderCount(succ, start, 0)
  <2>1. start \in S /\ Handled(succ, start) = {} BY OrderStarts
  <2>2. start.seeded = 0 /\ start.at = 1
    BY DEF OrderStart
  <2> HIDE DEF start
  <2>3. 0 = start.seeded + Cardinality(Handled(succ, start)) + (start.at - 1)
    BY <2>1, <2>2, FS_EmptySet
  <2> QED BY <2>1, <2>3 DEF OrderCount
<1> HIDE DEF start, N
<1>3. F \in [S -> S]
  <2> SUFFICES ASSUME NEW s \in S PROVE OrderStep(succ, B, s) \in S
    OBVIOUS
  <2> DEFINE k == s.seeded + Cardinality(Handled(succ, s)) + (s.at - 1)
  <2>1. k \in Nat /\ OrderCount(succ, s, k)
    <3>1. s.seeded \in Nat /\ s.at \in Nat /\ s.at >= 1 BY DEF Ordered, OrderState, Placing
    <3> QED BY <3>1, HandledFinite DEF OrderCount
  <2> HIDE DEF k
  <2> QED BY <2>1, OrderStepKeeps
<1> HIDE DEF F, S
<1>4. PICK f \in [0..N -> S] : IsRun(f, F, start, N)
  BY <1>1, <1>2, <1>3, RunExists
<1>5. \A k \in 1..N : F[f[k - 1]] = OrderStep(succ, B, f[k - 1])
  <2> TAKE k \in 1..N
  <2>1. k - 1 \in 0..N BY <1>1
  <2>2. f[k - 1] \in S BY <2>1
  <2> QED BY <2>2 DEF F
<1>6. f = [k \in 0..N |-> IF k = 0 THEN start ELSE OrderStep(succ, B, f[k - 1])]
  BY <1>1, <1>4, <1>5 DEF IsRun
<1>7. run = [k \in 0..N |-> IF k = 0 THEN start ELSE OrderStep(succ, B, run[k - 1])]
  BY <1>6, Zenon
<1>8. LinearOrder(succ) = run[N].line
  BY DEF LinearOrder, N, start, B
<1> HIDE DEF run
<1>9. run[0] = start /\ \A k \in 1..N : run[k] = OrderStep(succ, B, run[k - 1])
  BY <1>1, <1>7
<1> DEFINE P == {k \in Nat : k <= N => run[k] \in S /\ OrderCount(succ, run[k], k)}
<1>10. 0 \in P BY <1>2, <1>9
<1>11. ASSUME NEW k \in Nat, k \in P PROVE k + 1 \in P
  <2> SUFFICES ASSUME k + 1 <= N PROVE run[k + 1] \in S /\ OrderCount(succ, run[k + 1], k + 1)
    OBVIOUS
  <2>1. run[k] \in S /\ OrderCount(succ, run[k], k) BY <1>1, <1>11
  <2>2. k + 1 \in 1..N /\ (k + 1) - 1 = k BY <1>1
  <2>3. run[k + 1] = OrderStep(succ, B, run[k]) BY <1>9, <2>2
  <2> QED BY <2>1, <2>3, OrderStepKeeps DEF S
<1>12. run[N] \in S /\ OrderCount(succ, run[N], N)
  <2> HIDE DEF P
  <2>1. Nat \subseteq P BY <1>10, <1>11, Induction
  <2> QED BY <1>1, <2>1 DEF P
<1> DEFINE s == run[N]
<1> HIDE DEF s
<1>13. s \in Ordered(succ, B) /\ OrderCount(succ, s, N) /\ LinearOrder(succ) = s.line
  BY <1>8, <1>12 DEF s, S
<1>14. Emptied(succ, s)
  <2> SUFFICES ASSUME ~Emptied(succ, s) PROVE FALSE OBVIOUS
  <2>1. s.line \in Seq(Nodes(succ)) /\ Placing(succ, s) /\ s.seeded \in Nat /\ s.at \in Nat
    BY <1>13 DEF Ordered, OrderState
  <2>2. Len(s.line) \in Nat /\ DOMAIN s.line = 1..Len(s.line) /\ s.line \in [1..Len(s.line) -> Nodes(succ)]
    BY <2>1
  <2>3. \A i, j \in 1..Len(s.line) : s.line[i] = s.line[j] => i = j
    BY <2>1, <2>2 DEF Placing
  <2>4. Len(s.line) <= Len(succ)
    <3>1. s.line \in Injection(1..Len(s.line), Nodes(succ))
      BY <2>2, <2>3 DEF Injection, IsInjective
    <3>2. Cardinality(1..Len(s.line)) <= Cardinality(Nodes(succ))
      BY <3>1, ArcFacts, FS_Injection
    <3>3. Cardinality(1..Len(s.line)) = Len(s.line)
      <4>1. ASSUME NEW n \in Nat PROVE Cardinality(1..n) = n BY FS_Interval
      <4> QED BY <2>2, <4>1
    <3> QED BY <3>2, <3>3, ArcFacts
  <2>5. s.seeded <= Len(succ) /\ s.at >= 1 /\ s.at <= Len(s.line) + 1
    BY <2>1 DEF Placing
  <2>6. Cardinality(Handled(succ, s)) \in Nat /\ Cardinality(Handled(succ, s)) <= Cardinality(Arcs(succ))
    BY HandledFinite
  <2>7. N = s.seeded + Cardinality(Handled(succ, s)) + (s.at - 1)
    BY <1>13 DEF OrderCount
  <2>8. Len(succ) \in Nat /\ Cardinality(Arcs(succ)) \in Nat
    BY ArcFacts, GraphFacts
  <2> HIDE DEF P
  <2> DEFINE x == Cardinality(Handled(succ, s))
             y == Cardinality(Arcs(succ))
  <2> HIDE DEF x, y
  <2>9. /\ x \in Nat /\ y \in Nat /\ x <= y /\ N = 2 * Len(succ) + y /\ N = s.seeded + x + (s.at - 1)
        /\ Len(succ) \in Nat /\ s.seeded \in Nat /\ s.at \in Nat /\ Len(s.line) \in Nat
    BY <1>1, <2>1, <2>2, <2>6, <2>7, <2>8 DEF x, y
  <2>10. s.seeded = Len(succ) /\ s.at = Len(s.line) + 1
    <3> DEFINE a == Len(succ)
               u == s.seeded
               v == s.at
               w == Len(s.line)
    <3>1. /\ a \in Nat /\ y \in Nat /\ u \in Nat /\ x \in Nat /\ v \in Nat /\ w \in Nat
          /\ u <= a /\ x <= y /\ w <= a /\ v >= 1 /\ v <= w + 1 /\ 2 * a + y = u + x + (v - 1)
      BY <2>4, <2>5, <2>9
    <3> HIDE DEF a, u, v, w
    <3>2. u = a /\ v = w + 1 BY <3>1, CountsEnd
    <3> QED BY <3>2 DEF a, u, v, w
  <2> QED BY <2>10 DEF Emptied
<1> QED BY <1>13, <1>14 DEF B

(* What the invariant says at the end: no node is listed twice, no edge    *)
(* but a back edge leads backwards, and a node is listed exactly if all    *)
(* nodes are listed that edges, other than back edges, come from.          *)
LEMMA OrderFacts ==
  ASSUME NEW succ, IsGraph(succ)
  PROVE  /\ LinearOrder(succ) \in Seq(Nodes(succ))
         /\ DOMAIN LinearOrder(succ) = 1..Len(LinearOrder(succ)) /\ Len(LinearOrder(succ)) \in Nat
         /\ \A i, j \in DOMAIN LinearOrder(succ) : LinearOrder(succ)[i] = LinearOrder(succ)[j] => i = j
         /\ \A i, j \in DOMAIN LinearOrder(succ) :
               <<LinearOrder(succ)[i], LinearOrder(succ)[j]>> \in Onwards(succ) => i < j
         /\ \A m \in Nodes(succ) : m \in Range(LinearOrder(succ)) <=>
               \A e \in Onwards(succ) : e[2] = m => e[1] \in Range(LinearOrder(succ))
<1> DEFINE B == BackEdges(succ)
           l == LinearOrder(succ)
<1>1. PICK s \in Ordered(succ, B) : Emptied(succ, s) /\ l = s.line
  BY OrderEnds
<1>2. s \in OrderState(succ) /\ Placing(succ, s) /\ Queuing(succ, B, s) /\ Sorting(succ, B, s)
  BY DEF Ordered
<1> HIDE DEF l, B
<1>3. l \in Seq(Nodes(succ)) /\ DOMAIN l = 1..Len(l) /\ Len(l) \in Nat
  BY <1>1, <1>2 DEF OrderState
<1>4. \A i, j \in DOMAIN l : l[i] = l[j] => i = j
  BY <1>1, <1>2 DEF Placing
<1>5. \A i, j \in DOMAIN l : <<l[i], l[j]>> \in Onwards(succ) => i < j
  BY <1>1, <1>2 DEF Sorting, Onwards, B
<1>6. \A a \in Arcs(succ) : a \in Handled(succ, s) <=> a[1] \in Range(l)
  <2>1. \A j \in DOMAIN l : j < s.at
    BY <1>1, <1>3 DEF Emptied
  <2> QED BY <1>1, <2>1 DEF Handled, Range
<1>7. ASSUME NEW m \in Nodes(succ)
      PROVE  m \in Range(l) <=> \A e \in Onwards(succ) : e[2] = m => e[1] \in Range(l)
  <2>1. m <= s.seeded
    BY <1>1, GraphFacts DEF Emptied
  <2>2. m \in Range(l) <=> Incoming(succ, B, m) \subseteq Handled(succ, s)
    BY <1>1, <1>2, <2>1 DEF Queuing
  <2>3. m \in Range(l) <=> \A a \in Incoming(succ, B, m) : a[1] \in Range(l)
    BY <2>2, <1>6, IncomingFacts
  <2>4. ASSUME NEW e \in Onwards(succ), e[2] = m, \A a \in Incoming(succ, B, m) : a[1] \in Range(l)
        PROVE  e[1] \in Range(l)
    <3>1. e = <<e[1], m>> /\ e[1] \in Nodes(succ) /\ e \in Edges(succ) \ B
      BY <2>4, EdgeFacts DEF Onwards, B
    <3>2. PICK a \in Incoming(succ, B, m) : a[1] = e[1] BY <3>1, IncomingFacts
    <3> QED BY <2>4, <3>2
  <2>5. ASSUME NEW a \in Incoming(succ, B, m), \A e \in Onwards(succ) : e[2] = m => e[1] \in Range(l)
        PROVE  a[1] \in Range(l)
    <3>1. <<a[1], m>> \in Onwards(succ) BY IncomingFacts DEF Onwards, B
    <3> QED BY <2>5, <3>1
  <2> QED BY <2>3, <2>4, <2>5
<1> QED BY <1>3, <1>4, <1>5, <1>7 DEF l

(* _build_linear_execution_list lists every node exactly if the entry      *)
(* leads to every cycle.  Nodes that it does not reach are listed too, but *)
(* those on a cycle that it does not lead to, and all behind them, are     *)
(* missing.                                                                *)
THEOREM LinearOrderComplete ==
  ASSUME NEW succ, IsGraph(succ)
  PROVE  Range(LinearOrder(succ)) = Nodes(succ) <=> CyclesFromEntry(succ)
<1> DEFINE l == LinearOrder(succ)
           R == Range(l)
<1>1. /\ l \in Seq(Nodes(succ)) /\ DOMAIN l = 1..Len(l) /\ Len(l) \in Nat
      /\ \A i, j \in DOMAIN l : l[i] = l[j] => i = j
      /\ \A i, j \in DOMAIN l : <<l[i], l[j]>> \in Onwards(succ) => i < j
      /\ \A m \in Nodes(succ) : m \in R <=> \A e \in Onwards(succ) : e[2] = m => e[1] \in R
  BY OrderFacts
<1> HIDE DEF l
<1>2. R \subseteq Nodes(succ)
  BY <1>1 DEF Range
<1>3. \A e \in Edges(succ) : e = <<e[1], e[2]>> /\ e[1] \in Nodes(succ) /\ e[2] \in Nodes(succ)
  BY EdgeFacts
<1>4. ASSUME CyclesFromEntry(succ), R # Nodes(succ) PROVE FALSE
  <2> DEFINE Before(x) == {y \in Nodes(succ) : Leads(succ, Onwards(succ), y, x)}
             M == Nodes(succ) \ R
             T == {Cardinality(Before(x)) : x \in M}
  <2>1. \A x \in M : IsFiniteSet(Before(x)) /\ Cardinality(Before(x)) \in Nat
    <3> TAKE x \in M
    <3>1. Before(x) \in SUBSET Nodes(succ) OBVIOUS
    <3> HIDE DEF Before
    <3> QED BY <3>1, ArcFacts, FS_Subset, FS_CardinalityType
  <2>2. T \subseteq Nat /\ T # {}
    <3>1. M # {} BY <1>2, <1>4
    <3> QED BY <2>1, <3>1
  <2>3. PICK c \in T : \A d \in T : c <= d
    <3> HIDE DEF T
    <3> QED BY <2>2, LeastNumber
  <2>4. PICK x \in M : c = Cardinality(Before(x))
    OBVIOUS
  <2>5. PICK e \in Onwards(succ) : e[2] = x /\ e[1] \notin R
    BY <2>4, <1>1
  <2>6. e[1] \in M
    BY <2>5, <1>3 DEF Onwards
  <2>7. Before(e[1]) \subseteq Before(x)
    <3> SUFFICES ASSUME NEW y \in Nodes(succ), Leads(succ, Onwards(succ), y, e[1])
                 PROVE  Leads(succ, Onwards(succ), y, x)
      OBVIOUS
    <3>1. <<e[1], x>> \in Onwards(succ) BY <2>5, <1>3 DEF Onwards
    <3> QED BY <3>1, LeadsOn
  <2>8. x \in Before(x) /\ x \notin Before(e[1])
    <3>1. ~Leads(succ, Onwards(succ), x, e[1]) BY <1>4, <2>5, NoCycleLeft
    <3> QED BY <3>1, <2>4, LeadsSelf
  <2> HIDE DEF Before, T
  <2>9. Cardinality(Before(e[1])) < Cardinality(Before(x))
    <3>1. Cardinality(Before(e[1])) <= Cardinality(Before(x)) /\ Cardinality(Before(e[1])) # Cardinality(Before(x))
      BY <2>1, <2>4, <2>7, <2>8, FS_Subset
    <3> QED BY <3>1, <2>1, <2>4, <2>6
  <2>10. Cardinality(Before(e[1])) \in T BY <2>6 DEF T
  <2> QED BY <2>1, <2>3, <2>4, <2>6, <2>9, <2>10
<1>5. ASSUME R = Nodes(succ) PROVE CyclesFromEntry(succ)
  <2> SUFFICES ASSUME NEW e \in Edges(succ), Leads(succ, Edges(succ), e[2], e[1]), ~Leads(succ, Edges(succ), 1, e[1])
               PROVE  FALSE
    BY DEF CyclesFromEntry
  <2> DEFINE V == {x \in Nodes(succ) : Leads(succ, Edges(succ), 1, x)}
  <2>1. \A d \in Edges(succ) : d[1] \in V => d[2] \in V
    BY <1>3, LeadsOn
  <2>2. \A d \in Edges(succ) : d[1] \notin V => d \in Onwards(succ)
    <3> SUFFICES ASSUME NEW d \in Edges(succ), d \in BackEdges(succ) PROVE d[1] \in V
      BY DEF Onwards
    <3>1. Leads(succ, Onwards(succ), 1, d[1]) BY BackEdgesOnCycles
    <3>2. Onwards(succ) \subseteq Edges(succ) BY DEF Onwards
    <3>3. Leads(succ, Edges(succ), 1, d[1]) BY <3>1, <3>2, LeadsMore
    <3> QED BY <3>3, <1>3
  <2>3. \A x \in Nodes(succ) : \E i \in 1..Len(l) : l[i] = x
    BY <1>1, <1>5 DEF Range
  <2>4. PICK i \in 1..Len(l) : l[i] = e[2]
    BY <2>3, <1>3
  <2> DEFINE C == {x \in Nodes(succ) : x \in V \/ \E j \in 1..Len(l) : l[j] = x /\ i <= j}
  <2> HIDE DEF V
  <2>5. ASSUME NEW d \in Edges(succ), d[1] \in C PROVE d[2] \in C
    <3>1. CASE d[1] \in V BY <3>1, <2>1, <1>3
    <3>2. CASE d[1] \notin V
      <4>1. PICK j \in 1..Len(l) : l[j] = d[1] /\ i <= j BY <3>2, <2>5
      <4>2. PICK k \in 1..Len(l) : l[k] = d[2] BY <2>3, <1>3
      <4>3. <<l[j], l[k]>> \in Onwards(succ) BY <4>1, <4>2, <3>2, <2>2, <1>3
      <4>4. j < k BY <4>3, <1>1
      <4> QED BY <4>1, <4>2, <4>4, <1>3
    <3> QED BY <3>1, <3>2
  <2>6. e[2] \in C
    BY <2>4, <1>3
  <2>7. e[1] \in C
    <3> HIDE DEF C
    <3>1. C \in SUBSET Nodes(succ) BY DEF C
    <3> QED BY <3>1, <2>5, <2>6 DEF Leads
  <2>8. e[1] \notin V
    BY DEF V
  <2>9. PICK j \in 1..Len(l) : l[j] = e[1] /\ i <= j
    BY <2>7, <2>8
  <2>10. <<l[j], l[i]>> \in Onwards(succ)
    BY <2>2, <2>4, <2>8, <2>9, <1>3
  <2>11. j < i BY <2>10, <1>1
  <2> QED BY <2>9, <2>11
<1> QED BY <1>4, <1>5 DEF l

(* Among the nodes that are listed, the back edges are exactly the edges   *)
(* that lead to the same or an earlier place: the forward pass of          *)
(* _find_merge_point meets every node after all that lead to it.           *)
THEOREM LinearOrderForward ==
  ASSUME NEW succ, IsGraph(succ),
         NEW i \in DOMAIN LinearOrder(succ), NEW j \in DOMAIN LinearOrder(succ),
         <<LinearOrder(succ)[i], LinearOrder(succ)[j]>> \in Edges(succ)
  PROVE  <<LinearOrder(succ)[i], LinearOrder(succ)[j]>> \in BackEdges(succ) <=> j <= i
<1> DEFINE l == LinearOrder(succ)
           e == <<l[i], l[j]>>
           R == Range(l)
<1>1. /\ l \in Seq(Nodes(succ)) /\ DOMAIN l = 1..Len(l) /\ Len(l) \in Nat
      /\ \A a, b \in DOMAIN l : l[a] = l[b] => a = b
      /\ \A a, b \in DOMAIN l : <<l[a], l[b]>> \in Onwards(succ) => a < b
      /\ \A m \in Nodes(succ) : m \in R <=> \A d \in Onwards(succ) : d[2] = m => d[1] \in R
  BY OrderFacts
<1> HIDE DEF l
<1>2. ASSUME e \notin BackEdges(succ) PROVE i < j
  BY <1>1, <1>2 DEF Onwards, l
<1>3. ASSUME e \in BackEdges(succ) PROVE j <= i
  <2>1. Leads(succ, Onwards(succ), l[j], l[i])
    BY <1>3, BackEdgesOnCycles
  <2> DEFINE C == {x \in Nodes(succ) : \A k \in DOMAIN l : l[k] = x => j <= k}
  <2>2. l[j] \in C
    BY <1>1 DEF l
  <2>3. ASSUME NEW d \in Onwards(succ), d[1] \in C PROVE d[2] \in C
    <3>1. d = <<d[1], d[2]>> /\ d[1] \in Nodes(succ) /\ d[2] \in Nodes(succ) BY EdgeFacts DEF Onwards
    <3> SUFFICES ASSUME NEW k \in DOMAIN l, l[k] = d[2] PROVE j <= k
      BY <3>1
    <3>2. d[2] \in R BY DEF Range
    <3>3. d[1] \in R BY <3>1, <3>2, <1>1
    <3>4. PICK h \in DOMAIN l : l[h] = d[1] BY <3>3 DEF Range
    <3>5. j <= h BY <3>4, <2>3
    <3>6. <<l[h], l[k]>> \in Onwards(succ) BY <3>1, <3>4
    <3>7. h < k BY <3>6, <1>1
    <3> QED BY <3>5, <3>7, <1>1 DEF l
  <2>4. l[i] \in C
    <3> HIDE DEF C
    <3>1. C \in SUBSET Nodes(succ) BY DEF C
    <3> QED BY <3>1, <2>1, <2>2, <2>3 DEF Leads
  <2> QED BY <2>4 DEF l
<1>4. i \in Nat /\ j \in Nat
  BY <1>1 DEF l
<1> QED BY <1>2, <1>3, <1>4 DEF l

-----------------------------------------------------------------------------
(* Merge points.                                                           *)

(* The ways out that place i of the list has when those before it have f.  *)
Passed(succ, list, paths, f, i) ==
    {p \in paths : \/ p = list[i]
                   \/ \E j \in 1..(i - 1) : p \in f[j] /\ list[i] \in Range(succ[list[j]])}

(* f is the result of passing on the ways out along the first b places of  *)
(* list.                                                                   *)
PassedOn(succ, list, paths, f, b) ==
    \A i \in 1..b : f[i] = Passed(succ, list, paths, f, i)

(* Passing on has a result.                                                *)
LEMMA PassedExists ==
  ASSUME NEW succ, NEW list, NEW paths, NEW b \in Nat
  PROVE  \E f \in [1..b -> SUBSET paths] : PassedOn(succ, list, paths, f, b)
<1> DEFINE G(f, i) == Passed(succ, list, paths, f, i)
           P == {n \in Nat : \E f \in [1..n -> SUBSET paths] : PassedOn(succ, list, paths, f, n)}
<1>1. 0 \in P
  <2> DEFINE f == [i \in 1..0 |-> {}]
  <2>1. f \in [1..0 -> SUBSET paths] OBVIOUS
  <2>2. PassedOn(succ, list, paths, f, 0) BY DEF PassedOn
  <2> HIDE DEF f
  <2> QED BY <2>1, <2>2
<1>2. ASSUME NEW n \in Nat, n \in P PROVE n + 1 \in P
  <2>1. PICK f \in [1..n -> SUBSET paths] : PassedOn(succ, list, paths, f, n) BY <1>2
  <2> DEFINE h == [k \in 1..(n + 1) |-> IF k = n + 1 THEN G(f, n + 1) ELSE f[k]]
  <2>2. G(f, n + 1) \in SUBSET paths BY DEF Passed
  <2>3. \A k \in 1..(n + 1) : k \in 1..n \/ k = n + 1 OBVIOUS
  <2>4. h \in [1..(n + 1) -> SUBSET paths]
    <3> HIDE DEF G
    <3> QED BY <2>2, <2>3
  <2>5. \A k \in 1..n : h[k] = f[k] OBVIOUS
  <2>6. h[n + 1] = G(f, n + 1) OBVIOUS
  <2> HIDE DEF h
  <2>7. \A i \in 1..(n + 1) : G(h, i) = G(f, i)
    <3> TAKE i \in 1..(n + 1)
    <3>1. \A j \in 1..(i - 1) : h[j] = f[j] BY <2>5
    <3> QED BY <3>1 DEF Passed
  <2>8. PassedOn(succ, list, paths, h, n + 1)
    <3> SUFFICES ASSUME NEW i \in 1..(n + 1) PROVE h[i] = G(h, i)
      BY DEF PassedOn
    <3>1. CASE i \in 1..n
      <4>1. f[i] = G(f, i) BY <3>1, <2>1 DEF PassedOn
      <4> HIDE DEF G
      <4> QED BY <3>1, <4>1, <2>5, <2>7
    <3>2. CASE i = n + 1
      <4> HIDE DEF G
      <4> QED BY <3>2, <2>6, <2>7
    <3> QED BY <3>1, <3>2, <2>3
  <2> QED BY <2>4, <2>8
<1>3. b \in P
  <2> HIDE DEF P
  <2> QED BY <1>1, <1>2, Induction
<1> QED BY <1>3

(* Node n is one that all of the ways out lead to.                         *)
Meets(succ, paths, n) == \A p \in paths : Leads(succ, Onwards(succ), p, n)

(* A node of the list is reached by all of the ways out exactly if all of  *)
(* them lead to it: one pass over the list is enough.                      *)
LEMMA PassedLeads ==
  ASSUME NEW succ, IsGraph(succ), NEW paths \in SUBSET Nodes(succ), NEW f,
         PassedOn(succ, LinearOrder(succ), paths, f, Len(LinearOrder(succ))),
         NEW i \in DOMAIN LinearOrder(succ)
  PROVE  f[i] = paths <=> Meets(succ, paths, LinearOrder(succ)[i])
<1> DEFINE l == LinearOrder(succ)
           N == Len(l)
<1>1. /\ l \in Seq(Nodes(succ)) /\ DOMAIN l = 1..N /\ N \in Nat
      /\ \A a, b \in DOMAIN l : l[a] = l[b] => a = b
      /\ \A a, b \in DOMAIN l : <<l[a], l[b]>> \in Onwards(succ) => a < b
      /\ \A m \in Nodes(succ) : m \in Range(l) <=> \A d \in Onwards(succ) : d[2] = m => d[1] \in Range(l)
  BY OrderFacts
<1>2. \A k \in 1..N : f[k] = {p \in paths : \/ p = l[k]
                                            \/ \E j \in 1..(k - 1) : p \in f[j] /\ l[k] \in Range(succ[l[j]])}
  BY DEF PassedOn, Passed
<1>3. \A j \in 1..N : \A k \in 1..N : l[k] \in Range(succ[l[j]]) <=> <<l[j], l[k]>> \in Edges(succ)
  <2> TAKE j \in 1..N
  <2> TAKE k \in 1..N
  <2>1. l[j] \in Nodes(succ) /\ l[k] \in Nodes(succ) BY <1>1
  <2>2. DOMAIN succ[l[j]] = 1..Len(succ[l[j]]) BY <2>1, GraphFacts
  <2> HIDE DEF l
  <2>3. l[k] \in Range(succ[l[j]]) <=> \E x \in DOMAIN succ[l[j]] : succ[l[j]][x] = l[k]
    BY DEF Range
  <2> QED BY <2>1, <2>3 DEF Edges
<1>4. \A j \in 1..N : \A k \in 1..N : <<l[j], l[k]>> \in Edges(succ) =>
         (<<l[j], l[k]>> \in Onwards(succ) <=> j < k)
  <2> TAKE j \in 1..N
  <2> TAKE k \in 1..N
  <2>1. j \in DOMAIN LinearOrder(succ) /\ k \in DOMAIN LinearOrder(succ) BY <1>1
  <2>2. <<l[j], l[k]>> \in Edges(succ) => (<<l[j], l[k]>> \in BackEdges(succ) <=> k <= j)
    BY <2>1, LinearOrderForward
  <2>3. k <= j <=> ~(j < k) BY <1>1
  <2> QED BY <2>2, <2>3 DEF Onwards
<1> HIDE DEF l
<1>5. ASSUME NEW p \in paths, NEW k \in 1..N, p \in f[k] PROVE Leads(succ, Onwards(succ), p, l[k])
  <2> DEFINE T == {n \in 1..N : p \in f[n] /\ ~Leads(succ, Onwards(succ), p, l[n])}
  <2> SUFFICES ASSUME k \in T PROVE FALSE BY <1>5
  <2>1. T \subseteq Nat /\ T # {} OBVIOUS
  <2>2. PICK n \in T : \A o \in T : n <= o
    <3> HIDE DEF T
    <3> QED BY <2>1, LeastNumber
  <2>3. n \in 1..N /\ p \in f[n] /\ ~Leads(succ, Onwards(succ), p, l[n]) OBVIOUS
  <2>4. p # l[n] BY <2>3, LeadsSelf
  <2>5. PICK j \in 1..(n - 1) : p \in f[j] /\ l[n] \in Range(succ[l[j]]) BY <2>3, <2>4, <1>2
  <2>6. j \in 1..N /\ j < n /\ ~(n <= j) BY <2>3, <1>1
  <2>7. <<l[j], l[n]>> \in Onwards(succ) BY <2>3, <2>5, <2>6, <1>3, <1>4
  <2>8. Leads(succ, Onwards(succ), p, l[j]) BY <2>2, <2>5, <2>6
  <2> QED BY <2>3, <2>7, <2>8, LeadsOn
<1>6. ASSUME NEW p \in paths, Leads(succ, Onwards(succ), p, l[i]) PROVE p \in f[i]
  <2> DEFINE C == {x \in Nodes(succ) : \A k \in 1..N : l[k] = x => p \in f[k]}
  <2>1. p \in C
    BY <1>2
  <2>2. ASSUME NEW d \in Onwards(succ), d[1] \in C PROVE d[2] \in C
    <3>1. d = <<d[1], d[2]>> /\ d[1] \in Nodes(succ) /\ d[2] \in Nodes(succ) /\ d \in Edges(succ)
      BY EdgeFacts DEF Onwards
    <3> SUFFICES ASSUME NEW k \in 1..N, l[k] = d[2] PROVE p \in f[k]
      BY <3>1
    <3>2. d[2] \in Range(l) BY <1>1 DEF Range
    <3>3. d[1] \in Range(l) BY <3>1, <3>2, <1>1
    <3>4. PICK h \in 1..N : l[h] = d[1] BY <3>3, <1>1 DEF Range
    <3>5. <<l[h], l[k]>> \in Onwards(succ) /\ <<l[h], l[k]>> \in Edges(succ) BY <3>1, <3>4
    <3>6. h < k /\ l[k] \in Range(succ[l[h]]) BY <3>5, <1>3, <1>4
    <3>7. h \in 1..(k - 1) BY <3>6, <1>1
    <3>8. p \in f[h] BY <3>4, <2>2
    <3> QED BY <3>6, <3>7, <3>8, <1>2
  <2>3. l[i] \in C
    <3> HIDE DEF C
    <3>1. C \in SUBSET Nodes(succ) BY DEF C
    <3> QED BY <3>1, <2>1, <2>2, <1>6 DEF Leads
  <2>4. i \in 1..N BY <1>1 DEF l
  <2> QED BY <2>3, <2>4
<1>7. i \in 1..N /\ f[i] \subseteq paths
  BY <1>1, <1>2 DEF l
<1> QED BY <1>5, <1>6, <1>7 DEF Meets, l

(* _find_merge_point, for a node with several ways out but no more than    *)
(* the masks have bits, finds the first node of the list that all of them  *)
(* lead to without a back edge, and finds none only if there is none in    *)
(* the list.                                                               *)
THEOREM MergePointFirst ==
  ASSUME NEW succ, IsGraph(succ), NEW paths \in SUBSET Nodes(succ),
         Cardinality(paths) > 1, Cardinality(paths) <= 64
  PROVE  LET list == LinearOrder(succ)
             merge == FindMergePoint(succ, list, paths)
         IN  \/ merge = 0 /\ \A i \in DOMAIN list : ~Meets(succ, paths, list[i])
             \/ \E i \in DOMAIN list :
                   /\ merge = list[i] /\ Meets(succ, paths, list[i])
                   /\ \A j \in DOMAIN list : Meets(succ, paths, list[j]) => i <= j
<1> DEFINE l == LinearOrder(succ)
           N == Len(l)
           merge == FindMergePoint(succ, l, paths)
           reach == CHOOSE f : f = [i \in 1..N |->
                        {p \in paths : \/ p = l[i]
                                       \/ \E j \in 1..(i - 1) : p \in f[j] /\ l[i] \in Range(succ[l[j]])}]
           whole == {i \in 1..N : reach[i] = paths}
<1>1. DOMAIN l = 1..N /\ N \in Nat
  BY OrderFacts
<1>2. paths # {} /\ Cardinality(paths) # 1 /\ ~(Cardinality(paths) > MaskBits)
  <2>1. Cardinality(paths) \in Nat
    BY GraphFacts, ArcFacts, FS_Subset, FS_CardinalityType
  <2> QED BY <2>1, FS_EmptySet DEF MaskBits
<1>3. merge = IF whole = {} THEN 0 ELSE l[CHOOSE i \in whole : \A j \in whole : i <= j]
  <2> HIDE DEF l
  <2> QED BY <1>2 DEF FindMergePoint
<1> HIDE DEF l, merge
<1>4. PassedOn(succ, l, paths, reach, N)
  <2>1. PICK f \in [1..N -> SUBSET paths] : PassedOn(succ, l, paths, f, N)
    BY <1>1, PassedExists
  <2>2. f = [i \in 1..N |-> {p \in paths : \/ p = l[i]
                                          \/ \E j \in 1..(i - 1) : p \in f[j] /\ l[i] \in Range(succ[l[j]])}]
    BY <2>1 DEF PassedOn, Passed
  <2>3. reach = [i \in 1..N |-> {p \in paths : \/ p = l[i]
                                          \/ \E j \in 1..(i - 1) : p \in reach[j] /\ l[i] \in Range(succ[l[j]])}]
    BY <2>2, Zenon
  <2> HIDE DEF reach
  <2> QED BY <2>3 DEF PassedOn, Passed
<1> HIDE DEF reach
<1>5. \A i \in 1..N : i \in whole <=> Meets(succ, paths, l[i])
  <2> TAKE i \in 1..N
  <2>1. i \in DOMAIN LinearOrder(succ)
    BY <1>1 DEF l
  <2>2. reach[i] = paths <=> Meets(succ, paths, LinearOrder(succ)[i])
    BY <1>4, <2>1, PassedLeads DEF l
  <2> QED BY <2>2 DEF l
<1>6. CASE whole = {}
  BY <1>1, <1>3, <1>5, <1>6 DEF l, merge
<1>7. CASE whole # {}
  <2>1. \E i \in whole : \A j \in whole : i <= j
    <3>1. whole \subseteq Nat OBVIOUS
    <3> HIDE DEF whole
    <3> QED BY <1>7, <3>1, LeastNumber
  <2>2. PICK i \in whole : (\A j \in whole : i <= j) /\ merge = l[i]
    BY <1>3, <1>7, <2>1
  <2>3. i \in 1..N /\ Meets(succ, paths, l[i]) /\ \A j \in 1..N : Meets(succ, paths, l[j]) => i <= j
    BY <2>2, <1>5
  <2> QED BY <2>2, <2>3, <1>1 DEF l, merge
<1> QED BY <1>6, <1>7

(* With more ways out than bits it finds some node that all of them lead   *)
(* to, over back edges too, which need not be listed nor be the closest,   *)
(* and finds none only if there is none.                                   *)
THEOREM MergePointShared ==
  ASSUME NEW succ, IsGraph(succ), NEW paths \in SUBSET Nodes(succ), Cardinality(paths) > 64
  PROVE  LET merge == FindMergePoint(succ, LinearOrder(succ), paths)
             Common(n) == \A p \in paths : Leads(succ, Edges(succ), p, n)
         IN  \/ merge = 0 /\ \A n \in Nodes(succ) : ~Common(n)
             \/ merge \in Nodes(succ) /\ Common(merge)
<1> DEFINE merge == FindMergePoint(succ, LinearOrder(succ), paths)
           S == Shared(succ, paths)
<1>1. merge = IF S = {} THEN 0 ELSE CHOOSE n \in S : TRUE
  <2>1. Cardinality(paths) \in Nat
    BY GraphFacts, ArcFacts, FS_Subset, FS_CardinalityType
  <2>2. paths # {} /\ Cardinality(paths) # 1 /\ Cardinality(paths) > MaskBits
    BY <2>1, FS_EmptySet DEF MaskBits
  <2> HIDE DEF S
  <2> QED BY <2>2 DEF FindMergePoint, S
<1> HIDE DEF merge
<1>2. \A n : n \in S <=> n \in Nodes(succ) /\ \A p \in paths : Leads(succ, Edges(succ), p, n)
  <2>1. ASSUME NEW C \in SUBSET Nodes(succ)
        PROVE  (\A m \in C : Range(succ[m]) \subseteq C) <=> (\A d \in Edges(succ) : d[1] \in C => d[2] \in C)
    <3>1. ASSUME \A m \in C : Range(succ[m]) \subseteq C, NEW d \in Edges(succ), d[1] \in C PROVE d[2] \in C
      BY <3>1, EdgeFacts DEF Range
    <3>2. ASSUME \A d \in Edges(succ) : d[1] \in C => d[2] \in C, NEW m \in C, NEW n \in Range(succ[m]) PROVE n \in C
      <4>1. PICK i \in DOMAIN succ[m] : n = succ[m][i] BY DEF Range
      <4>2. m \in Nodes(succ) /\ DOMAIN succ[m] = 1..Len(succ[m])
        BY GraphFacts
      <4>3. <<m, n>> \in Edges(succ)
        BY <4>1, <4>2, EdgeFacts
      <4>4. <<m, n>>[1] = m /\ <<m, n>>[2] = n
        OBVIOUS
      <4> QED BY <3>2, <4>3, <4>4
    <3> QED BY <3>1, <3>2
  <2> QED BY <2>1 DEF Shared, Leads, Nodes
<1> HIDE DEF S
<1> QED BY <1>1, <1>2 DEF merge
=============================================================================
