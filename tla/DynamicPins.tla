----------------------------- MODULE DynamicPins -----------------------------
(***************************************************************************)
(* Nodes whose pins come and go (orchestration/nodes/sequence.cpp,         *)
(* random.cpp, switch.cpp, arrays.cpp, dictionary.cpp, dialogue.cpp,       *)
(* call_function.cpp, and OScriptFunction::remove_argument), and the wires *)
(* at them.                                                                *)
(*                                                                         *)
(* A pin is rebuilt from the node's settings whenever they change; a wire  *)
(* knows the port of its pin only, the place among the visible pins of its *)
(* direction.  So every change must move the wires of the pins behind      *)
(* (Orchestration::adjust_connections), or they end at other pins.         *)
(*                                                                         *)
(* The model is one node of one of the layouts.  What is added and removed *)
(* is an element: a step, a case, a choice, an array element, an argument. *)
(***************************************************************************)
EXTENDS Integers, Sequences, FiniteSets

CONSTANTS
    Layouts,     \* the layouts to consider
    Peers,       \* pins of other nodes that wires lead to
    MaxElements, \* most elements a node has
    MaxWires,    \* most wires at it
    Limit        \* elements ever made

Kinds == {"sequence", "random", "array", "dictionary", "vararg", "switch", "select",
          "dialogue", "entry", "call"}

ASSUME LayoutsAssumption == Layouts \subseteq Kinds
\* No node has more pins of a direction than a port of eight bits tells apart.
ASSUME LimitAssumption == MaxElements \in 2..128 /\ MaxWires \in Nat /\ Limit \in Nat /\ Limit >= 2

VARIABLES
    layout,     \* the kind of node
    elems,      \* its elements, in order
    made,       \* how many elements were made
    default,    \* select: is there a default pin
    returns,    \* call: does the function return a value
    getter,     \* call: does the function's name begin with Get or Is
    wires       \* the wires at the node: direction, port and the other end

vars == <<layout, elems, made, default, returns, getter, wires>>

Element == 1..Limit
Roles == {"exec", "value", "base", "element", "key", "out", "done", "default", "return"}
Wire == [dir : {"in", "out"}, port : 0..255, peer : Peers]

-----------------------------------------------------------------------------
(* The visible pins.                                                       *)

Fixed(role) == <<<<role, 0>>>>
PinsOf(role, es) == [i \in 1..Len(es) |-> <<role, es[i]>>]

\* A getter without arguments has no execution pins.
IsPure(es) == layout = "call" /\ returns /\ getter /\ es = <<>>

Ins(es) ==
    CASE layout \in {"sequence", "random"} -> Fixed("exec")
      [] layout = "array" -> PinsOf("element", es)
      [] layout = "dictionary" -> [p \in 1..2 * Len(es) |->
                <<IF p % 2 = 1 THEN "key" ELSE "element", es[(p + 1) \div 2]>>]
      [] layout = "vararg" -> Fixed("exec") \o Fixed("base") \o PinsOf("element", es)
      [] layout = "switch" -> Fixed("exec") \o Fixed("value") \o PinsOf("element", es)
      [] layout = "select" -> Fixed("exec") \o Fixed("value")
      [] layout = "dialogue" -> Fixed("exec") \o Fixed("base") \o Fixed("value") \o Fixed("key")
                                  \o PinsOf("element", es)
      [] layout = "entry" -> <<>>
      [] layout = "call" -> (IF IsPure(es) THEN <<>> ELSE Fixed("exec")) \o PinsOf("element", es)

Outs(es) ==
    CASE layout \in {"sequence", "random"} -> PinsOf("out", es)
      [] layout \in {"array", "dictionary"} -> Fixed("value")
      [] layout = "vararg" -> Fixed("exec")
      [] layout = "switch" -> Fixed("done") \o Fixed("default") \o PinsOf("out", es)
      [] layout = "select" -> PinsOf("out", es) \o IF default THEN Fixed("default") ELSE <<>>
      [] layout = "dialogue" -> IF es = <<>> THEN Fixed("exec") ELSE PinsOf("out", es)
      [] layout = "entry" -> Fixed("exec") \o PinsOf("element", es)
      [] layout = "call" -> (IF IsPure(es) THEN <<>> ELSE Fixed("exec"))
                              \o (IF returns THEN Fixed("return") ELSE <<>>)

Pins(dir) == IF dir = "in" THEN Ins(elems) ELSE Outs(elems)
HasPort(dir, port) == port < Len(Pins(dir))
PinAt(dir, port) == Pins(dir)[port + 1]

IsExecution(pin) == pin[1] \in {"exec", "out", "done", "default"}

\* A data input has one source, an execution output one successor.
IsSingle(dir, pin) == IF dir = "in" THEN ~IsExecution(pin) ELSE IsExecution(pin)

-----------------------------------------------------------------------------
(* Wires.                                                                  *)

Unlinked(W, dir, port) == {w \in W : ~(w.dir = dir /\ w.port = port)}

\* Wires at ports of dirs from offset on move by the given number of ports; a
\* port is eight bits wide.
Adjusted(W, offset, by, dirs) ==
    {IF w.dir \in dirs /\ w.port >= offset THEN [w EXCEPT !.port = (@ + by + 256) % 256] ELSE w : w \in W}

Draw(dir, port, peer) ==
    /\ HasPort(dir, port) /\ Cardinality(wires) < MaxWires
    /\ wires' = (IF IsSingle(dir, PinAt(dir, port)) THEN Unlinked(wires, dir, port) ELSE wires)
                  \cup {[dir |-> dir, port |-> port, peer |-> peer]}
    /\ UNCHANGED <<layout, elems, made, default, returns, getter>>

Erase(w) ==
    /\ w \in wires /\ HasPort(w.dir, w.port)
    /\ wires' = wires \ {w}
    /\ UNCHANGED <<layout, elems, made, default, returns, getter>>

-----------------------------------------------------------------------------
(* Elements.                                                               *)

\* The last element is followed by nothing but the default pin of a select,
\* whose wire makes room.
AddElement ==
    /\ Len(elems) < MaxElements /\ made < Limit
    /\ made' = made + 1
    /\ elems' = Append(elems, made')
    /\ wires' = IF layout = "select" /\ default
                THEN Adjusted(wires, Len(elems), 1, {"out"}) ELSE wires
    /\ UNCHANGED <<layout, default, returns, getter>>

CanRemove ==
    CASE layout = "sequence" -> Len(elems) > 2
      [] layout = "random" -> Len(elems) > 1
      [] OTHER -> elems # <<>>

\* The wires left when element i is removed.  i counts from 0.
WiresWithout(i) ==
    CASE layout \in {"sequence", "random", "select"} ->
            Adjusted(Unlinked(wires, "out", i), i, -1, {"out"})
      [] layout = "array" -> Adjusted(Unlinked(wires, "in", i), i, -1, {"in"})
      [] layout = "dictionary" ->
            Adjusted(Unlinked(Unlinked(wires, "in", 2 * i), "in", 2 * i + 1), 2 * i, -2, {"in"})
      [] layout = "vararg" -> Adjusted(Unlinked(wires, "in", i + 2), i + 2, -1, {"in"})
      [] layout = "switch" ->
            Adjusted(Unlinked(Unlinked(wires, "in", i + 2), "out", i + 2), i + 2, -1, {"in", "out"})
      [] layout = "dialogue" ->
            Adjusted(Adjusted(Unlinked(Unlinked(wires, "in", i + 4), "out", i), i + 4, -1, {"in"}),
                     i, -1, {"out"})
      [] layout = "entry" -> Adjusted(Unlinked(wires, "out", i + 1), i + 2, -1, {"out"})
      [] layout = "call" ->
            LET rest == [k \in 1..Len(elems) - 1 |-> elems[IF k <= i THEN k ELSE k + 1]]
                one == Unlinked(wires, "in", i + 1)
                none == Unlinked(Unlinked(one, "in", 0), "out", 0)
            IN  IF IsPure(rest)
                THEN Adjusted(Adjusted(Adjusted(none, 1, -1, {"out"}), i + 2, -1, {"in"}), 1, -1, {"in"})
                ELSE Adjusted(one, i + 2, -1, {"in"})

\* The execution pins of a call that becomes a getter's go, their wires stay.
MutantRemoveElement(i) ==
    /\ CanRemove /\ i < Len(elems)
    /\ elems' = [k \in 1..Len(elems) - 1 |-> elems[IF k <= i THEN k ELSE k + 1]]
    /\ wires' = IF layout \in {"call", "entry"}
                THEN LET dir == IF layout = "call" THEN "in" ELSE "out"
                     IN  Adjusted(Unlinked(wires, dir, i + 1), i + 2, -1, {dir})
                ELSE WiresWithout(i)
    /\ UNCHANGED <<layout, made, default, returns, getter>>

RemoveElement(i) ==
    /\ CanRemove /\ i < Len(elems)
    /\ elems' = [k \in 1..Len(elems) - 1 |-> elems[IF k <= i THEN k ELSE k + 1]]
    /\ wires' = WiresWithout(i)
    /\ UNCHANGED <<layout, made, default, returns, getter>>

\* The number of elements is set to n: the last ones go with their wires.
MutantShrink(n) ==
    /\ layout \in {"sequence", "random", "switch"}
    /\ n < Len(elems)
    /\ n >= CASE layout = "sequence" -> 2 [] layout = "random" -> 1 [] OTHER -> 0
    /\ elems' = SubSeq(elems, 1, n)
    /\ UNCHANGED <<layout, made, default, returns, getter, wires>>

Shrink(n) ==
    /\ layout \in {"sequence", "random", "switch"}
    /\ n < Len(elems)
    /\ n >= CASE layout = "sequence" -> 2 [] layout = "random" -> 1 [] OTHER -> 0
    /\ elems' = SubSeq(elems, 1, n)
    /\ LET first == IF layout = "switch" THEN n + 2 ELSE n
       IN  wires' = {w \in wires : w.port < first \/ (layout # "switch" /\ w.dir = "in")}
    /\ UNCHANGED <<layout, made, default, returns, getter>>

\* The default pin is the last one; its wires go with it.
ToggleDefault ==
    /\ layout = "select"
    /\ default' = ~default
    /\ wires' = IF default THEN Unlinked(wires, "out", Len(elems)) ELSE wires
    /\ UNCHANGED <<layout, elems, made, returns, getter>>

\* The function gets or loses its return value, or a name that begins or does
\* not begin with Get or Is; the pins of the call are rebuilt.
ToggleReturn ==
    /\ layout = "call"
    /\ returns' = ~returns
    /\ UNCHANGED <<layout, elems, made, default, getter, wires>>

Rename ==
    /\ layout = "call"
    /\ getter' = ~getter
    /\ UNCHANGED <<layout, elems, made, default, returns, wires>>

-----------------------------------------------------------------------------

\* A node as it is placed, without wires; a sequence has two steps, a random
\* one possibility.
Init ==
    /\ layout \in Layouts
    /\ elems = CASE layout = "sequence" -> <<1, 2>> [] layout = "random" -> <<1>> [] OTHER -> <<>>
    /\ made = Len(elems)
    /\ default \in IF layout = "select" THEN BOOLEAN ELSE {FALSE}
    /\ returns \in IF layout = "call" THEN BOOLEAN ELSE {FALSE}
    /\ getter \in IF layout = "call" THEN BOOLEAN ELSE {FALSE}
    /\ wires = {}

Next ==
    \/ \E dir \in {"in", "out"}, port \in 0..2 * MaxElements + 4, peer \in Peers : Draw(dir, port, peer)
    \/ \E w \in wires : Erase(w)
    \/ AddElement
    \/ \E i \in 0..MaxElements - 1 : RemoveElement(i) \/ Shrink(i)
    \/ ToggleDefault \/ ToggleReturn \/ Rename

Spec == Init /\ [][Next]_vars

-----------------------------------------------------------------------------
(* Properties.                                                             *)

TypeOK ==
    /\ layout \in Layouts
    /\ Len(elems) <= MaxElements
    /\ \A i \in 1..Len(elems) : elems[i] \in Element
    /\ made \in 0..Limit
    /\ default \in BOOLEAN /\ returns \in BOOLEAN /\ getter \in BOOLEAN
    /\ wires \subseteq Wire

\* Except at a call, whose pins follow a function's signature, every wire
\* ends at a pin: none is left at a port that is gone.
NoDanglingWire == layout # "call" => \A w \in wires : HasPort(w.dir, w.port)

\* However wires are moved, a data input keeps at most one source and an
\* execution output at most one successor; a call is left out again.
OneWirePerPin ==
    layout # "call" => \A v, w \in wires :
        /\ v.dir = w.dir /\ v.port = w.port /\ HasPort(v.dir, v.port)
        /\ IsSingle(v.dir, PinAt(v.dir, v.port))
        => v = w

\* Whatever comes and goes, the wires are well: none dangles, none shares a pin
\* that takes one.
WellWired == TypeOK /\ NoDanglingWire /\ OneWirePerPin

\* The wires by pin, not by port.
Drawn == {<<w.dir, PinAt(w.dir, w.port), w.peer>> : w \in {v \in wires : HasPort(v.dir, v.port)}}
PinsNow == {<<"in", Ins(elems)[p]>> : p \in DOMAIN Ins(elems)}
             \cup {<<"out", Outs(elems)[p]>> : p \in DOMAIN Outs(elems)}

\* Removing an element, an argument included, takes away the wires of its pins
\* and leaves every other wire at the pin it was drawn to, on both sides.  Adding
\* one moves no wire to another pin, unless other pins appear or go with it: the
\* first choice of a dialogue takes the place of the pin that went on, and a call
\* without execution pins gets them.  Nor does another change of the settings.
KeepsWires ==
    [][/\ Len(elems') < Len(elems) => Drawn' = {d \in Drawn : <<d[1], d[2]>> \in PinsNow'}
       /\ (Len(elems') > Len(elems) /\ ~IsPure(elems) /\ (layout = "dialogue" => elems # <<>>)) =>
              Drawn' = Drawn
       /\ (<<default, returns, getter>>' # <<default, returns, getter>> /\ IsPure(elems)' = IsPure(elems)) =>
              {d \in Drawn : <<d[1], d[2]>> \in PinsNow'} \subseteq Drawn']_vars

\* "Cannot mix data and execution ports": peers are taken for pins of the kind
\* of the pin they were wired to, so no wire of a call ever leads from an
\* execution pin and then, without being drawn again, from a data pin.
KindKept ==
    [][\A w \in wires \cap wires' :
          (HasPort(w.dir, w.port) /\ HasPort(w.dir, w.port)' /\ elems # elems') =>
              (IsExecution(PinAt(w.dir, w.port)) <=> IsExecution(PinAt(w.dir, w.port))')]_vars
=============================================================================
