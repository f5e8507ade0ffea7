---------------------------- MODULE RerouteGraph ----------------------------
(***************************************************************************)
(* The wires of one script graph and the types of its reroute nodes        *)
(* (src/orchestration/nodes/reroute.cpp, node_pin.cpp and the editor's     *)
(* graph_panel.cpp).                                                       *)
(*                                                                         *)
(* A reroute is a waypoint on a wire: one input pin, one output pin, and a *)
(* type that says whether those pins carry execution or data.  The type is *)
(* not stored with the wire.  Every link and unlink re-derives it for the  *)
(* reroutes the change reaches, looking at the input of a reroute when a   *)
(* wire arrives and at the far end of its chain when the last one leaves.  *)
(*                                                                         *)
(* The pins of ordinary nodes are fixed: each stands for one pin of a node *)
(* of its own.  All data pins have one data type, so that a data pin       *)
(* always accepts a data pin and no coercion node is inserted.  A wire is  *)
(* a pair <<source pin, target pin>>; the two pins of a reroute are named  *)
(* by the reroute.  Where the code takes the first wire in the order of    *)
(* its connection set, an order given by node ids, any wire may be first.  *)
(***************************************************************************)
EXTENDS Integers, FiniteSets

CONSTANTS
    Reroutes,   \* the reroute nodes the user may create
    ExecOut,    \* execution output pins of ordinary nodes
    DataOut,    \* data output pins of ordinary nodes
    ExecIn,     \* execution input pins of ordinary nodes
    DataIn,     \* data input pins of ordinary nodes
    MaxWires    \* bound on the wires of the graph

PinsAssumption ==
    /\ Reroutes \cap (ExecOut \cup DataOut \cup ExecIn \cup DataIn) = {}
    /\ (ExecOut \cup ExecIn) \cap (DataOut \cup DataIn) = {}
ASSUME PinsAssumption

MaxWiresAssumption == MaxWires \in Nat
ASSUME MaxWiresAssumption

VARIABLES
    wires,      \* Orchestration's connection set
    type        \* _reroute_type of every reroute, "absent" when not in the graph

vars == <<wires, type>>

Sources == ExecOut \cup DataOut \cup Reroutes
Targets == ExecIn \cup DataIn \cup Reroutes
Types == {"absent", "any", "data", "control"}

\* What one call into the model reads and leaves behind.
State(w, t) == [wires |-> w, type |-> t]
Now == State(wires, type)

Present == {r \in Reroutes : type[r] # "absent"}

Into(m, w) == {c \in w : c[2] = m}
OutOf(n, w) == {c \in w : c[1] = n}
-----------------------------------------------------------------------------
(***************************************************************************)
(* Walks over chains of reroutes.                                          *)
(***************************************************************************)
Kids(n, w) == {m \in Reroutes : <<n, m>> \in w}

\* The reroutes reached from n through reroutes only: those in every set that
\* holds n's kids and, with a reroute, its kids.
Closed(S, n, w) ==
    /\ Kids(n, w) \subseteq S
    /\ \A k \in S : Kids(k, w) \subseteq S

Downstream(n, w) ==
    {m \in Reroutes : \A S \in SUBSET Reroutes : Closed(S, n, w) => m \in S}

\* Mutant of WouldCreateCycle: looks one wire ahead only.
MutantWouldCreateCycle(n, m, w) ==
    n \in Reroutes /\ m \in Reroutes /\ n \in {m} \cup Kids(m, w)

\* would_create_cycle of target m for a wire from n.
WouldCreateCycle(n, m, w) ==
    n \in Reroutes /\ m \in Reroutes /\ n \in {m} \cup Downstream(m, w)

\* The non-reroute pins at the ends of the chains that leave r.
Sinks(r, w) ==
    {x \in ExecIn \cup DataIn : \E k \in {r} \cup Downstream(r, w) : <<k, x>> \in w}

\* _resolve_target_pin finds the first of the sinks.
ResolvedTypes(r, w) ==
    IF Sinks(r, w) = {}
      THEN {"any"}
      ELSE {IF x \in ExecIn THEN "control" ELSE "data" : x \in Sinks(r, w)}

\* is_execution of a pin: the pins of an untyped reroute are data pins.
IsExecution(n, t) ==
    n \in ExecOut \cup ExecIn \/ (n \in Reroutes /\ t[n] = "control")

\* OScriptNodePin::can_accept of target m, asked while the user drags a wire
\* from n.
CanAccept(s, m, n) ==
    /\ ~WouldCreateCycle(n, m, s.wires)
    /\ \/ m \in Reroutes /\ s.type[m] = "any"
       \/ IsExecution(m, s.type) <=> IsExecution(n, s.type)
-----------------------------------------------------------------------------
(***************************************************************************)
(* The model's calls.  Each gives the set of states it can leave.          *)
(***************************************************************************)

\* unlink, for all of the wires cs one after the other.  A reroute that loses
\* its last input is retyped from its sinks, and with it every reroute
\* downstream of it, other inputs or not.
Unlink(s, cs) ==
    LET w == s.wires \ cs
        starved == {r \in Reroutes : Into(r, cs \cap s.wires) # {} /\ Into(r, w) = {}}
        retyped == starved \cup UNION {Downstream(r, w) : r \in starved}
        choices == {f \in [retyped -> Types] : \A r \in retyped : f[r] \in ResolvedTypes(r, w)}
    IN  {State(w, [r \in Reroutes |-> IF r \in retyped THEN f[r] ELSE s.type[r]]) : f \in choices}

\* _cascade_type_downstream: below m, an untyped reroute takes the type of the
\* reroute the walk came from; a typed one keeps its own and passes that on.
Cascade(t, w, m) ==
    LET below == Downstream(m, w)
        untyped == {r \in below : t[r] = "any"}
        pushed(f) == [r \in Reroutes |-> IF r \in untyped THEN f[r] ELSE t[r]]
    IN  {u \in {pushed(f) : f \in [untyped -> {"data", "control"}]} :
            \A r \in untyped : \E p \in {m} \cup below : <<p, r>> \in w /\ u[r] = u[p]}

\* The type reroute m takes in on_pin_connected: an untyped reroute looks at
\* the first of its input wires.
Adopted(m, w, t) ==
    IF t[m] # "any"
      THEN {t[m]}
      ELSE {IF IsExecution(c[1], t) THEN "control" ELSE "data" : c \in Into(m, w)}

\* OScriptGraph::link followed by on_pin_connected of the target.
Attach(s, n, m) ==
    LET w == s.wires \cup {<<n, m>>}
    IN  IF m \in Reroutes
          THEN {State(w, t) : t \in
                  UNION {Cascade([s.type EXCEPT ![m] = a], w, m) : a \in Adopted(m, w, s.type)}}
          ELSE {State(w, s.type)}

\* Mutants of Link: an execution output keeps its wires; link refuses what
\* can_accept refuses, also where an operation relinks without asking.
MutantLinkFansOut(s, n, m) ==
    LET ins == IF IsExecution(m, s.type) THEN {} ELSE Into(m, s.wires)
    IN  IF WouldCreateCycle(n, m, s.wires)
          THEN {s}
          ELSE UNION {Attach(b, n, m) : b \in Unlink(s, ins)}

MutantLinkAsksAgain(s, n, m) ==
    LET ins  == IF IsExecution(m, s.type) THEN {} ELSE Into(m, s.wires)
        outs == IF IsExecution(n, s.type) THEN OutOf(n, s.wires) ELSE {}
    IN  IF CanAccept(s, m, n)
          THEN UNION {Attach(b, n, m) : b \in Unlink(s, ins \cup outs)}
          ELSE {s}

\* OScriptNodePin::link.  A data input gives up its wires to the new one, and
\* so does an execution output.
Link(s, n, m) ==
    LET ins  == IF IsExecution(m, s.type) THEN {} ELSE Into(m, s.wires)
        outs == IF IsExecution(n, s.type) THEN OutOf(n, s.wires) ELSE {}
    IN  IF WouldCreateCycle(n, m, s.wires)
          THEN {s}
          ELSE UNION {Attach(b, n, m) : b \in Unlink(s, ins \cup outs)}

\* Mutant of Removed: the output pin is not unlinked.
MutantRemoved(s, r) ==
    {State(a.wires, [a.type EXCEPT ![r] = "absent"]) : a \in Unlink(s, Into(r, s.wires))}

\* Orchestration::remove_node of a reroute: its input pin is unlinked before
\* its output pin.
Removed(s, r) ==
    {State(b.wires, [b.type EXCEPT ![r] = "absent"]) : b \in
        UNION {Unlink(a, OutOf(r, a.wires)) : a \in Unlink(s, Into(r, s.wires))}}

\* "Insert Reroute Node" on wire c: the wire is unlinked, q is placed, and both
\* ends are linked to it without asking can_accept.
Inserted(c, q) ==
    UNION {Link(b, q, c[2]) : b \in
        UNION {Link(State(a.wires, [a.type EXCEPT ![q] = "any"]), c[1], q) : a \in Unlink(Now, {c})}}

\* "Dissolve" of reroute r: when it has one wire in and one wire out their far
\* ends are linked, again without can_accept; then r is removed.
Dissolvable(r) ==
    \E i, o \in wires : Into(r, wires) = {i} /\ OutOf(r, wires) = {o}

Dissolved(r) ==
    LET bridged == IF Dissolvable(r)
                     THEN UNION {Link(Now, i[1], o[2]) : i \in Into(r, wires), o \in OutOf(r, wires)}
                     ELSE {Now}
    IN  UNION {Removed(a, r) : a \in bridged}

-----------------------------------------------------------------------------
(***************************************************************************)
(* The user's operations.                                                  *)
(***************************************************************************)
Becomes(s) ==
    /\ Cardinality(s.wires) <= MaxWires
    /\ wires' = s.wires
    /\ type' = s.type

PlaceReroute(q) ==
    /\ q \notin Present
    /\ type' = [type EXCEPT ![q] = "any"]
    /\ UNCHANGED wires

\* The copy has the original's stored type and none of its wires.
DuplicateReroute(r, q) ==
    /\ r \in Present
    /\ q \notin Present
    /\ type' = [type EXCEPT ![q] = type[r]]
    /\ UNCHANGED wires

Connect(n, m) ==
    /\ {n, m} \cap Reroutes \subseteq Present
    /\ CanAccept(Now, m, n)
    /\ \E s \in Link(Now, n, m) : Becomes(s)

Disconnect(c) ==
    \E s \in Unlink(Now, {c}) : Becomes(s)

RemoveReroute(r) ==
    /\ r \in Present
    /\ \E s \in Removed(Now, r) : Becomes(s)

InsertReroute(c, q) ==
    /\ q \notin Present
    /\ \E s \in Inserted(c, q) : Becomes(s)

DissolveReroute(r) ==
    /\ r \in Present
    /\ \E s \in Dissolved(r) : Becomes(s)

Init ==
    /\ wires = {}
    /\ type = [r \in Reroutes |-> "absent"]

Next ==
    \/ \E q \in Reroutes : PlaceReroute(q)
    \/ \E r, q \in Reroutes : DuplicateReroute(r, q)
    \/ \E n \in Sources, m \in Targets : Connect(n, m)
    \/ \E c \in wires : Disconnect(c)
    \/ \E r \in Reroutes : RemoveReroute(r)
    \/ \E c \in wires, q \in Reroutes : InsertReroute(c, q)
    \/ \E r \in Reroutes : DissolveReroute(r)

Spec == Init /\ [][Next]_vars
-----------------------------------------------------------------------------
(***************************************************************************)
(* Properties.                                                             *)
(***************************************************************************)

\* Wires join pins of nodes that are in the graph: removing a reroute leaves
\* no wire of it behind.
TypeOK ==
    /\ wires \subseteq Sources \X Targets
    /\ type \in [Reroutes -> Types]
    /\ \A c \in wires : \A r \in Reroutes \ Present : r # c[1] /\ r # c[2]

\* No sequence of links, insertions and dissolutions closes a loop of reroutes:
\* would_create_cycle guards each wire alone, and the parser and the type walks
\* follow chains that must end.
ReroutesAcyclic == \A r \in Reroutes : r \notin Downstream(r, wires)

\* A data input of an ordinary node has one source and an execution output one
\* successor, whatever rewiring went before.
SingleWire ==
    /\ \A x \in DataIn : Cardinality(Into(x, wires)) <= 1
    /\ \A x \in ExecOut : Cardinality(OutOf(x, wires)) <= 1

\* Inserting a reroute into a wire keeps its ends joined through the reroute,
\* and dissolving a reroute that has one wire in and one out joins the ends.
\* Each takes several unlinks and links, and a link may drop wires or refuse.
RewireKeepsEnds ==
    /\ \A c \in wires, q \in Reroutes \ Present : \A s \in Inserted(c, q) :
            {<<c[1], q>>, <<q, c[2]>>} \subseteq s.wires
    /\ \A r \in Present : Dissolvable(r) =>
            \A i \in Into(r, wires), o \in OutOf(r, wires) : \A s \in Dissolved(r) :
                <<i[1], o[2]>> \in s.wires

\* "For control/execution reroutes, these enforce a 1-to-1 flow" because
\* "control flow is not allowed to branch through a reroute node" (reroute.h).
\* The code violates this: a reroute that fans out while it is untyped turns
\* into a control reroute with all of its outputs.
ControlUnbranched ==
    \A r \in Reroutes : type[r] = "control" => Cardinality(OutOf(r, wires)) <= 1

\* "Cannot mix data and execution ports" (can_accept in node_pin.cpp).  The code
\* violates this for the pins of ordinary nodes: dissolving an untyped-then-
\* control reroute whose output already fed a data pin joins the two directly.
NoMixedWire ==
    \A c \in wires : c[1] \notin Reroutes /\ c[2] \notin Reroutes =>
        (c[1] \in ExecOut <=> c[2] \in ExecIn)
=============================================================================
