------------------------- MODULE OrchestrationStore -------------------------
(***************************************************************************)
(* The model of an orchestration in the editor: its nodes, the graphs that *)
(* own them, its functions, variables and signals, and the wires between   *)
(* nodes (orchestration/orchestration.cpp, orchestration/graph.cpp), under *)
(* the operations the script components panel, the graph panel and the     *)
(* clipboard perform on it.                                                *)
(*                                                                         *)
(* A node is its kind and what it refers to.  Nodes refer to a function by *)
(* guid and to a variable or a signal by name.  Ports, pin types, property *)
(* values, signatures and coercion nodes are left out; a wire is the pair  *)
(* of its nodes.                                                           *)
(*                                                                         *)
(* The clipboard, which all graphs share, holds copies of nodes that       *)
(* belong to no graph but still hear of new names, and the names of what   *)
(* they used when they were copied.  It holds one node here, and is pasted *)
(* in the document it is from; wires between several nodes are what        *)
(* DuplicateNodes copies.  Emptying it, which only keeps a paste from      *)
(* happening, is left out.                                                 *)
(***************************************************************************)
EXTENDS Naturals, FiniteSets

CONSTANTS
    Names,      \* identifiers: of graphs, functions, variables and signals
    Main,       \* "EventGraph", the graph every script has
    Guids,      \* identities of functions, never given twice
    NoRef,      \* what a node without a reference refers to
    MaxNode,    \* node ids are 0..MaxNode
    MaxLinks,   \* bound on the number of wires
    MaxReloads  \* how often the file may change behind the editor

ASSUME MainAssumption == Main \in Names
ASSUME NoRefAssumption == NoRef \notin Names \cup Guids
ASSUME BoundAssumption == MaxNode \in Nat /\ MaxLinks \in Nat /\ MaxReloads \in Nat

VARIABLES
    nodes,      \* the nodes by id
    graphs,     \* the graphs by name: kind, node ids and entry node ids
    functions,  \* the functions by name: guid, owning node, user defined or not
    variables,  \* names of the variables
    signals,    \* names of the custom signals
    links,      \* the wires
    clipboard,  \* the node that was copied, and what it used then
    strayed,    \* a node was pasted that uses what nobody declares
    disk,       \* what the last save wrote
    reloads     \* how often the orchestration was reloaded

store == <<nodes, graphs, functions, variables, signals, links>>
vars == <<nodes, graphs, functions, variables, signals, links, clipboard, strayed, disk, reloads>>

NodeIds == 0..MaxNode
Kinds == {"plain", "entry", "event", "result", "call", "variable", "emit"}
Node ==      [kind : {"plain", "result"}, ref : {NoRef}]
        \cup [kind : {"entry", "event", "result", "call"}, ref : Guids]
        \cup [kind : {"variable", "emit"}, ref : Names]
Graph == [kind : {"event", "function"}, nodes : SUBSET NodeIds, funs : SUBSET NodeIds]
Function == [guid : Guids, owner : NodeIds, user : BOOLEAN]

\* The kind and function of the node that was copied, the name of what it used
\* then (key), the name it has for it now, and whether it would still hear of
\* another.
Clip ==      [kind : {"plain", "result"}, ref : {NoRef},
              key : {NoRef}, name : {NoRef}, user : {FALSE}, live : {FALSE}]
        \cup [kind : {"result"}, ref : Guids,
              key : {NoRef}, name : {NoRef}, user : {FALSE}, live : {FALSE}]
        \cup [kind : {"variable", "emit"}, ref : {NoRef},
              key : Names, name : Names, user : {FALSE}, live : BOOLEAN]
        \cup [kind : {"call", "event"}, ref : Guids,
              key : Names, name : Names, user : BOOLEAN, live : BOOLEAN]
Nothing == [kind |-> "none", ref |-> NoRef,
            key |-> NoRef, name |-> NoRef, user |-> FALSE, live |-> FALSE]

Snapshot == [nodes |-> nodes, graphs |-> graphs, functions |-> functions,
             variables |-> variables, signals |-> signals, links |-> links]

-----------------------------------------------------------------------------
(* Helpers.                                                                *)

Without(f, S) == [x \in DOMAIN f \ S |-> f[x]]
With(f, x, v) == [y \in DOMAIN f \cup {x} |-> IF y = x THEN v ELSE f[y]]

\* A function entry or one of its subclass, an event.
IsEntry(kind) == kind \in {"entry", "event"}

\* As many as there are nodes, also when some were removed.
MutantIsAvailable(i) == i \in NodeIds /\ i = Cardinality(DOMAIN nodes)

\* The least id above every id in use.
IsAvailable(i) ==
    /\ i \in NodeIds
    /\ \A j \in DOMAIN nodes : j < i
    /\ i # 0 => i - 1 \in DOMAIN nodes

FreshGuid(g) ==
    /\ \A n \in DOMAIN functions : functions[n].guid # g
    /\ \A i \in DOMAIN nodes : nodes[i].ref # g
    /\ \A n \in DOMAIN disk.functions : disk.functions[n].guid # g
    /\ \A i \in DOMAIN disk.nodes : disk.nodes[i].ref # g
    /\ clipboard.ref # g

\* Graphs register the entry nodes they are made for: a function graph its
\* entries (events are entries too), an event graph its events.
Registers(graph, kind) ==
    \/ graph.kind = "function" /\ IsEntry(kind)
    \/ graph.kind = "event" /\ kind = "event"

WithNodes(graph, S, kindOf) ==
    [graph EXCEPT !.nodes = @ \cup S,
                  !.funs = @ \cup {i \in S : Registers(graph, kindOf[i].kind)}]

WithoutNodes(graph, S) == [graph EXCEPT !.nodes = @ \ S, !.funs = @ \ S]

LinksWithout(S) == {l \in links : l[1] \notin S /\ l[2] \notin S}

\* The functions whose owning node is not among the nodes removed.
FunctionsWithout(S) ==
    [n \in {m \in DOMAIN functions : functions[m].owner \notin S} |-> functions[n]]

\* What removing the nodes in S leaves.
RemoveNodes(S) ==
    /\ nodes' = Without(nodes, S)
    /\ functions' = FunctionsWithout(S)
    /\ links' = LinksWithout(S)

\* Names create_function refuses.
NameTaken(n) == n \in DOMAIN functions \cup variables \cup signals

\* Names the script components panel refuses, for whatever component.
IsIdentifierUsed(n) == NameTaken(n) \/ n \in DOMAIN graphs

\* The editor reads what a strayed node uses as it shows the node; how it goes
\* on from there is not modelled.
Filed == ~strayed /\ UNCHANGED <<strayed, disk, reloads>>
Kept == Filed /\ UNCHANGED clipboard

-----------------------------------------------------------------------------
(* Graphs.                                                                 *)

CreateGraph(n) ==
    /\ ~IsIdentifierUsed(n)
    /\ graphs' = With(graphs, n, [kind |-> "event", nodes |-> {}, funs |-> {}])
    /\ UNCHANGED <<nodes, functions, variables, signals, links>> /\ Kept

\* The panel offers this for event graphs; a script keeps its main graph.
RemoveGraph(n) ==
    /\ n \in DOMAIN graphs \ {Main}
    /\ graphs[n].kind = "event"
    /\ RemoveNodes(graphs[n].nodes)
    /\ graphs' = [m \in DOMAIN graphs \ {n} |-> WithoutNodes(graphs[m], graphs[n].nodes)]
    /\ UNCHANGED <<variables, signals>> /\ Kept

RenameGraph(old, new) ==
    /\ old \in DOMAIN graphs \ {Main}
    /\ graphs[old].kind = "event"
    /\ ~IsIdentifierUsed(new)
    /\ graphs' = Without(With(graphs, new, graphs[old]), {old})
    /\ UNCHANGED <<nodes, functions, variables, signals, links>> /\ Kept

-----------------------------------------------------------------------------
(* Functions.                                                              *)

\* The nodes of a new function: its entry e, which creates the function, and
\* perhaps a result node.
FunctionNodes(g, e, withResult) ==
    [i \in IF withResult THEN {e, e + 1} ELSE {e} |->
        [kind |-> IF i = e THEN "entry" ELSE "result", ref |-> g]]

NodesWith(added) ==
    [i \in DOMAIN nodes \cup DOMAIN added |-> IF i \in DOMAIN added THEN added[i] ELSE nodes[i]]

GraphsWith(n, added) ==
    With(graphs, n, WithNodes([kind |-> "function", nodes |-> {}, funs |-> {}], DOMAIN added, added))

\* A function with a graph of its own, the entry perhaps wired to the result.
CreateFunction(n, g, user, withResult, linked) ==
    /\ ~NameTaken(n) /\ n \notin DOMAIN graphs
    /\ FreshGuid(g)
    /\ linked => withResult
    /\ \E e \in NodeIds :
        /\ IsAvailable(e)
        /\ LET added == FunctionNodes(g, e, withResult)
           IN  /\ DOMAIN added \subseteq NodeIds
               /\ nodes' = NodesWith(added)
               /\ graphs' = GraphsWith(n, added)
               /\ functions' = With(functions, n, [guid |-> g, owner |-> e, user |-> user])
               /\ links' = IF linked THEN links \cup {<<e, e + 1>>} ELSE links
    /\ Cardinality(links') <= MaxLinks
    /\ UNCHANGED <<variables, signals>> /\ Kept

\* An event node placed in an event graph creates its function.
CreateEvent(m, n, g, user) ==
    /\ m \in DOMAIN graphs /\ graphs[m].kind = "event"
    /\ ~NameTaken(n)
    /\ FreshGuid(g)
    /\ \E e \in NodeIds :
        /\ IsAvailable(e)
        /\ nodes' = With(nodes, e, [kind |-> "event", ref |-> g])
        /\ graphs' = [graphs EXCEPT ![m] = WithNodes(@, {e}, nodes')]
        /\ functions' = With(functions, n, [guid |-> g, owner |-> e, user |-> user])
    /\ UNCHANGED <<variables, signals, links>> /\ Kept

\* Nodes that call function n.  A call whose function is gone keeps the old
\* object, which may have had this name.
CallsOf(n) == {i \in DOMAIN nodes : nodes[i].kind = "call" /\ nodes[i].ref = functions[n].guid}
DeadCalls == {i \in DOMAIN nodes : /\ nodes[i].kind = "call"
                                   /\ \A m \in DOMAIN functions : functions[m].guid # nodes[i].ref}

\* The calls are looked for in the event graphs only.
MutantRemoveFunction(n) ==
    /\ n \in DOMAIN functions
    /\ LET own == IF n \in DOMAIN graphs /\ graphs[n].kind = "function" THEN {n} ELSE {}
           gone == (UNION {graphs[m].nodes : m \in own})
                     \cup (UNION {CallsOf(n) \cap graphs[m].nodes :
                                     m \in {k \in DOMAIN graphs : graphs[k].kind = "event"}})
                     \cup {functions[n].owner}
       IN  /\ nodes' = Without(nodes, gone)
           /\ functions' = Without(FunctionsWithout(gone), {n})
           /\ links' = LinksWithout(gone)
           /\ graphs' = [m \in DOMAIN graphs \ own |-> WithoutNodes(graphs[m], gone)]
    /\ UNCHANGED <<variables, signals>> /\ Kept

\* The function's graph with all its nodes, then the calls of the function
\* wherever they are, then its owning node.
RemoveFunction(n) ==
    /\ n \in DOMAIN functions
    /\ \E dead \in SUBSET DeadCalls :
        LET own == IF n \in DOMAIN graphs /\ graphs[n].kind = "function" THEN {n} ELSE {}
            gone == (UNION {graphs[m].nodes : m \in own}) \cup CallsOf(n) \cup dead
                      \cup {functions[n].owner}
        IN  /\ nodes' = Without(nodes, gone)
            /\ functions' = Without(FunctionsWithout(gone), {n})
            /\ links' = LinksWithout(gone)
            /\ graphs' = [m \in DOMAIN graphs \ own |-> WithoutNodes(graphs[m], gone)]
    /\ UNCHANGED <<variables, signals>> /\ Kept

\* A copied call or event knows its function, which has another name now.
FunctionRenamed(old, new) ==
    IF /\ clipboard.kind \in {"call", "event"} /\ clipboard.live
       /\ clipboard.ref = functions[old].guid
    THEN [clipboard EXCEPT !.name = new] ELSE clipboard

\* The function and, if it has one, its graph change names together.
RenameFunction(old, new) ==
    /\ old \in DOMAIN functions /\ old \in DOMAIN graphs
    /\ ~IsIdentifierUsed(new)
    /\ functions[old].user
    /\ graphs' = IF graphs[old].kind = "function"
                 THEN Without(With(graphs, new, graphs[old]), {old}) ELSE graphs
    /\ functions' = Without(With(functions, new, functions[old]), {old})
    /\ clipboard' = FunctionRenamed(old, new)
    /\ UNCHANGED <<nodes, variables, signals, links>> /\ Filed

\* The id the copy of i gets when the nodes of S are copied in id order,
\* beginning at id base.
CopyId(S, base, i) == base + Cardinality({j \in S : j < i})
Copies(S, base) == {CopyId(S, base, i) : i \in S}
Original(S, base, c) == CHOOSE i \in S : CopyId(S, base, i) = c

\* A wire of the original whose end was not copied: the map of ids answers 0.
CopyLinks(S, base) ==
    LET end(i) == IF i \in S THEN CopyId(S, base, i) ELSE 0
    IN  {<<end(l[1]), end(l[2])>> : l \in {k \in links : k[1] \in S \/ k[2] \in S}}

\* The nodes of the function's graph are copied into a graph of the new name,
\* or only its first entry and result, joined; its terminators are then given
\* the new function.  When the function cannot be created because a variable
\* or a signal has the new name, everything is undone.
DuplicateFunction(old, new, g, withCode) ==
    /\ old \in DOMAIN functions \cap DOMAIN graphs
    /\ new \notin DOMAIN functions \cup DOMAIN graphs
    /\ FreshGuid(g)
    /\ LET inner == graphs[old].nodes
           firsts(P) == {i \in P : \A j \in P : i <= j}
           entry == firsts({i \in inner : IsEntry(nodes[i].kind)})
           result == firsts({i \in inner : nodes[i].kind = "result"})
           S == IF withCode THEN inner ELSE entry \cup result
       IN  /\ entry # {}
           /\ \E base \in NodeIds :
               /\ IsAvailable(base)
               /\ LET copies == Copies(S, base)
                      copy(c) == LET x == nodes[Original(S, base, c)]
                                 IN  IF x.kind \in {"entry", "event", "result"}
                                     THEN [x EXCEPT !.ref = g] ELSE x
                      added == [c \in copies |-> copy(c)]
                      ends(P) == {CopyId(S, base, i) : i \in P}
                  IN  /\ copies \subseteq NodeIds
                      /\ IF new \in variables \cup signals
                         THEN UNCHANGED <<nodes, graphs, functions, links>>
                         ELSE /\ nodes' = [c \in DOMAIN nodes \cup copies |->
                                              IF c \in copies THEN added[c] ELSE nodes[c]]
                              /\ graphs' = With(graphs, new,
                                     WithNodes([kind |-> "function", nodes |-> {}, funs |-> {}],
                                               copies, added))
                              /\ functions' = With(functions, new,
                                     [guid |-> g, owner |-> CHOOSE c \in ends(entry) : TRUE,
                                      user |-> functions[old].user])
                              /\ links' = links \cup IF withCode THEN CopyLinks(S, base)
                                                     ELSE ends(entry) \X ends(result)
    /\ Cardinality(links') <= MaxLinks
    /\ UNCHANGED <<variables, signals>> /\ Kept

-----------------------------------------------------------------------------
(* Variables and signals.                                                  *)

NodesOf(kind, n) == {i \in DOMAIN nodes : nodes[i].kind = kind /\ nodes[i].ref = n}

Renamed(kind, old, new) ==
    [i \in DOMAIN nodes |-> IF i \in NodesOf(kind, old) THEN [nodes[i] EXCEPT !.ref = new]
                            ELSE nodes[i]]

RemoveUses(S) ==
    /\ RemoveNodes(S)
    /\ graphs' = [m \in DOMAIN graphs |-> WithoutNodes(graphs[m], S)]

\* A copied node that uses n.
Holds(kind, n) == clipboard.kind = kind /\ clipboard.live /\ clipboard.name = n

\* It hears of a new name as the nodes do, and keeps what was removed.
ClipRenamed(kind, old, new) ==
    clipboard' = IF Holds(kind, old) THEN [clipboard EXCEPT !.name = new] ELSE clipboard
ClipReleased(kind, n) ==
    clipboard' = IF Holds(kind, n) THEN [clipboard EXCEPT !.live = FALSE] ELSE clipboard

\* From the components panel, a promoted pin or a dropped file.
CreateVariable(n) ==
    /\ n \notin variables
    /\ variables' = variables \cup {n}
    /\ UNCHANGED <<nodes, graphs, functions, signals, links>> /\ Kept

RemoveVariable(n) ==
    /\ n \in variables
    /\ RemoveUses(NodesOf("variable", n))
    /\ variables' = variables \ {n}
    /\ ClipReleased("variable", n)
    /\ UNCHANGED signals /\ Filed

\* The nodes hear of the new name by the variable's changed signal.
RenameVariable(old, new) ==
    /\ old \in variables
    /\ ~IsIdentifierUsed(new)
    /\ nodes' = Renamed("variable", old, new)
    /\ variables' = (variables \ {old}) \cup {new}
    /\ ClipRenamed("variable", old, new)
    /\ UNCHANGED <<graphs, functions, signals, links>> /\ Filed

CreateSignal(n) ==
    /\ n \notin signals
    /\ signals' = signals \cup {n}
    /\ UNCHANGED <<nodes, graphs, functions, variables, links>> /\ Kept

RemoveSignal(n) ==
    /\ n \in signals
    /\ RemoveUses(NodesOf("emit", n))
    /\ signals' = signals \ {n}
    /\ ClipReleased("emit", n)
    /\ UNCHANGED variables /\ Filed

RenameSignal(old, new) ==
    /\ old \in signals
    /\ ~IsIdentifierUsed(new)
    /\ nodes' = Renamed("emit", old, new)
    /\ signals' = (signals \ {old}) \cup {new}
    /\ ClipRenamed("emit", old, new)
    /\ UNCHANGED <<graphs, functions, variables, links>> /\ Filed

-----------------------------------------------------------------------------
(* Nodes and wires.                                                        *)

\* Registered nodes that are there, and have a function.
Registered(m) ==
    {i \in graphs[m].funs \cap DOMAIN nodes : nodes[i].kind \in {"entry", "event", "result"}}

\* A result node placed in a function graph takes the function of the first.
Placed(m, x) ==
    IF x.kind = "result" /\ graphs[m].kind = "function" /\ Registered(m) # {}
    THEN [x EXCEPT !.ref = nodes[CHOOSE i \in Registered(m) : \A j \in Registered(m) : i <= j].ref]
    ELSE x

\* What a new node may refer to.
Placeable(m, x) ==
    \/ x.kind = "plain" /\ x.ref = NoRef
    \/ x.kind = "variable" /\ x.ref \in variables
    \/ x.kind = "emit" /\ x.ref \in signals
    \/ x.kind = "call" /\ \E n \in DOMAIN functions : functions[n].guid = x.ref
    \/ x.kind = "result" /\ x.ref = NoRef /\ graphs[m].kind = "function"

\* Node x goes to graph m.
PlaceNode(m, x) ==
    /\ m \in DOMAIN graphs
    /\ \E i \in NodeIds :
        /\ IsAvailable(i)
        /\ nodes' = With(nodes, i, Placed(m, x))
        /\ graphs' = [graphs EXCEPT ![m] = WithNodes(@, {i}, nodes')]
    /\ UNCHANGED <<functions, links>>

AddNode(m, kind, ref) ==
    /\ m \in DOMAIN graphs
    /\ Placeable(m, [kind |-> kind, ref |-> ref])
    /\ PlaceNode(m, [kind |-> kind, ref |-> ref])
    /\ UNCHANGED <<variables, signals>> /\ Kept

\* Deleting or cutting a node; an entry can be neither.
RemoveNode(i) ==
    /\ i \in DOMAIN nodes /\ nodes[i].kind # "entry"
    /\ RemoveNodes({i})
    /\ graphs' = [m \in DOMAIN graphs |-> WithoutNodes(graphs[m], {i})]
    /\ UNCHANGED <<variables, signals>> /\ Kept

\* The copies of the nodes S and of the wires between them go to graph m.
CopyInto(m, S) ==
    \E base \in NodeIds :
        /\ IsAvailable(base)
        /\ LET copies == Copies(S, base)
           IN  /\ copies \subseteq NodeIds
               /\ nodes' = [c \in DOMAIN nodes \cup copies |->
                               IF c \in copies THEN Placed(m, nodes[Original(S, base, c)]) ELSE nodes[c]]
               /\ graphs' = [graphs EXCEPT ![m] = WithNodes(@, copies, nodes')]
               /\ links' = links \cup {<<CopyId(S, base, l[1]), CopyId(S, base, l[2])>> :
                                          l \in {k \in links : k[1] \in S /\ k[2] \in S}}
        /\ Cardinality(links') <= MaxLinks
        /\ UNCHANGED <<functions, variables, signals>> /\ Kept

\* Duplicating nodes S of graph m.
DuplicateNodes(m, S) ==
    /\ S # {}
    /\ \A i \in S : nodes[i].kind # "entry"
    /\ CopyInto(m, S)

\* A call is replaced by the body of its function: copied first, then the
\* call is removed; the two effects are one action of the editor.
ExpandCall(m, i, n) ==
    /\ i \in graphs[m].nodes /\ n \in DOMAIN functions
    /\ nodes[i].kind = "call" /\ nodes[i].ref = functions[n].guid
    /\ LET S == {j \in graphs[n].nodes : ~IsEntry(nodes[j].kind) /\ nodes[j].kind # "result"}
       IN \E base \in NodeIds :
        /\ IsAvailable(base)
        /\ LET copies == Copies(S, base)
           IN  /\ copies \subseteq NodeIds
               /\ nodes' = [c \in (DOMAIN nodes \cup copies) \ {i} |->
                               IF c \in copies THEN nodes[Original(S, base, c)] ELSE nodes[c]]
               /\ graphs' = [k \in DOMAIN graphs |->
                    WithoutNodes(IF k = m THEN WithNodes(graphs[k], copies,
                                                         [c \in copies |-> nodes[Original(S, base, c)]])
                                 ELSE graphs[k], {i})]
               /\ links' = {l \in links \cup {<<CopyId(S, base, k[1]), CopyId(S, base, k[2])>> :
                                      k \in {x \in links : x[1] \in S /\ x[2] \in S}} :
                               l[1] # i /\ l[2] # i}
    /\ Cardinality(links') <= MaxLinks
    /\ UNCHANGED <<functions, variables, signals>> /\ Kept

\* Wires are drawn between two nodes of the graph on display.
Link(a, b) ==
    /\ a # b /\ <<a, b>> \notin links
    /\ Cardinality(links) < MaxLinks
    /\ links' = links \cup {<<a, b>>}
    /\ UNCHANGED <<nodes, graphs, functions, variables, signals>> /\ Kept

Unlink(l) ==
    /\ l \in links
    /\ links' = links \ {l}
    /\ UNCHANGED <<nodes, graphs, functions, variables, signals>> /\ Kept

Severed(S) == {l \in links : (l[1] \in S) # (l[2] \in S)}

\* The nodes S of graph m become the body of a new function n: the function is
\* created, wires that cross the border are cut, the nodes move, a call takes
\* their place, and the cut wires go through the call outside, the entry and
\* the result inside.
Collapse(m, S, n, g) ==
    /\ S # {}
    /\ \A i \in S : nodes[i].kind # "entry"
    /\ ~NameTaken(n) /\ n \notin DOMAIN graphs
    /\ FreshGuid(g)
    /\ LET ins == {l \in links : l[1] \notin S /\ l[2] \in S}
           outs == {l \in links : l[1] \in S /\ l[2] \notin S}
       IN \E e \in NodeIds :
        /\ IsAvailable(e)
        /\ LET r == IF outs = {} THEN {} ELSE {e + 1}
               c == IF outs = {} THEN e + 1 ELSE e + 2
               new == {e, c} \cup r
               added == [i \in new |-> [kind |-> IF i = e THEN "entry"
                                                ELSE IF i = c THEN "call" ELSE "result",
                                        ref |-> g]]
           IN  /\ Cardinality(outs) <= 2
               /\ new \subseteq NodeIds
               /\ nodes' = [i \in DOMAIN nodes \cup new |->
                               IF i \in new THEN added[i] ELSE nodes[i]]
               /\ functions' = With(functions, n, [guid |-> g, owner |-> e, user |-> TRUE])
               /\ graphs' = With(
                      [graphs EXCEPT ![m] = WithNodes(WithoutNodes(@, S), {c}, nodes')], n,
                      WithNodes([kind |-> "function", nodes |-> {}, funs |-> {}],
                                {e} \cup r \cup S, nodes'))
               /\ \E joined \in SUBSET ({e} \X r) :
                    links' = (links \ Severed(S)) \cup joined
                               \cup {<<l[1], c>> : l \in ins} \cup {<<e, l[2]>> : l \in ins}
                               \cup {<<c, l[2]>> : l \in outs} \cup ({l[1] : l \in outs} \X r)
    /\ Cardinality(links') <= MaxLinks
    /\ UNCHANGED <<variables, signals>> /\ Kept

-----------------------------------------------------------------------------
(* The clipboard.                                                          *)

\* A copy of node i of graph m, which looks up what it uses, and the name of
\* that.  A call or an event finds no function when it is gone: pasting the
\* event does nothing, and pasting the call is not modelled.
Copy(m, i) ==
    /\ m \in DOMAIN graphs /\ i \in graphs[m].nodes \cap DOMAIN nodes
    /\ nodes[i].kind # "entry"
    /\ LET x == nodes[i]
           uses(ref, n, user, live) == [kind |-> x.kind, ref |-> ref, key |-> n, name |-> n,
                                        user |-> user, live |-> live]
           found == {n \in DOMAIN functions : functions[n].guid = x.ref}
       IN  CASE x.kind \in {"plain", "result"} -> clipboard' = uses(x.ref, NoRef, FALSE, FALSE)
             [] x.kind \in {"variable", "emit"} -> clipboard' = uses(NoRef, x.ref, FALSE, TRUE)
             [] x.kind \in {"call", "event"} ->
                    \/ found = {} /\ clipboard' = Nothing
                    \/ \E n \in found : clipboard' = uses(x.ref, n, functions[n].user, TRUE)
    /\ UNCHANGED store /\ Filed

PasteNode(m) ==
    /\ clipboard.kind \in {"plain", "result"}
    /\ PlaceNode(m, [kind |-> clipboard.kind, ref |-> clipboard.ref])
    /\ UNCHANGED <<variables, signals>> /\ Kept

\* What is missing is created by the name it had when it was copied; the node
\* uses the name it has now.
PasteUse(m) ==
    /\ ~strayed
    /\ clipboard.kind \in {"variable", "emit"}
    /\ variables' = IF clipboard.kind = "variable" THEN variables \cup {clipboard.key} ELSE variables
    /\ signals' = IF clipboard.kind = "emit" THEN signals \cup {clipboard.key} ELSE signals
    /\ PlaceNode(m, [kind |-> clipboard.kind, ref |-> clipboard.name])
    /\ strayed' = (clipboard.name \notin IF clipboard.kind = "variable" THEN variables' ELSE signals')
    /\ UNCHANGED <<clipboard, disk, reloads>>

\* The call is given the function that has the name of its own now; it is
\* left out when there is none.
PasteCall(m) ==
    /\ clipboard.kind = "call"
    /\ IsIdentifierUsed(clipboard.key)
    /\ clipboard.name \in DOMAIN functions
    /\ PlaceNode(m, [kind |-> "call", ref |-> functions[clipboard.name].guid])
    /\ UNCHANGED <<variables, signals>> /\ Kept

\* A function by the name of before is created first, when there is none and
\* nothing else has its name.
PasteCallCreating(m, g, withResult) ==
    /\ clipboard.kind = "call" /\ m \in DOMAIN graphs
    /\ ~IsIdentifierUsed(clipboard.key)
    /\ FreshGuid(g)
    /\ \E e \in NodeIds :
        /\ IsAvailable(e)
        /\ LET added == FunctionNodes(g, e, withResult)
               c == IF withResult THEN e + 2 ELSE e + 1
               known == With(functions, clipboard.key,
                             [guid |-> g, owner |-> e, user |-> clipboard.user])
               placed == IF clipboard.name \in DOMAIN known THEN {c} ELSE {}
               call == [i \in placed |-> [kind |-> "call", ref |-> known[clipboard.name].guid]]
           IN  /\ DOMAIN added \cup placed \subseteq NodeIds
               /\ nodes' = [i \in DOMAIN nodes \cup DOMAIN added \cup placed |->
                               IF i \in placed THEN call[i] ELSE NodesWith(added)[i]]
               /\ graphs' = [GraphsWith(clipboard.key, added) EXCEPT
                               ![m] = WithNodes(@, placed, call)]
               /\ functions' = known
               /\ links' = IF withResult THEN links \cup {<<e, e + 1>>} ELSE links
    /\ Cardinality(links') <= MaxLinks
    /\ UNCHANGED <<variables, signals>> /\ Kept

\* An event is not pasted but placed anew, if nothing has its name.
PasteEvent(m, g) ==
    /\ clipboard.kind = "event"
    /\ CreateEvent(m, clipboard.name, g, clipboard.user)

-----------------------------------------------------------------------------
(* The file.                                                               *)

\* A save matters to a later reload only.
Save ==
    /\ ~strayed /\ reloads < MaxReloads
    /\ disk' = Snapshot
    /\ UNCHANGED <<store, clipboard, strayed, reloads>>

\* The variables of before stay as well.
MutantForgetsVariables ==
    /\ ~strayed /\ reloads < MaxReloads
    /\ reloads' = reloads + 1
    /\ nodes' = disk.nodes
    /\ graphs' = With(graphs, Main, disk.graphs[Main])
    /\ functions' = disk.functions
    /\ signals' = disk.signals
    /\ links' = disk.links
    /\ clipboard' = [clipboard EXCEPT !.live = FALSE]
    /\ UNCHANGED <<variables, strayed, disk>>

\* copy_state: every table is taken from the file, but the graphs are added to
\* those there were.  post_initialize then registers events, and drops the
\* registrations of nodes that are gone; it erases them while it walks the
\* set, and which of them it meets is not determined.  A copied node keeps the
\* variable, the signal or the function of before.
CopyState ==
    /\ ~strayed /\ reloads < MaxReloads
    /\ reloads' = reloads + 1
    /\ nodes' = disk.nodes
    /\ functions' = disk.functions
    /\ variables' = disk.variables
    /\ signals' = disk.signals
    /\ links' = disk.links
    /\ LET found(n) == IF n \in DOMAIN disk.graphs THEN disk.graphs[n] ELSE graphs[n]
           events(n) == {i \in found(n).nodes \cap DOMAIN disk.nodes :
                            disk.nodes[i].kind = "event"}
           all == DOMAIN graphs \cup DOMAIN disk.graphs
       IN  \E missed \in SUBSET ((UNION {found(n).funs : n \in all}) \ DOMAIN disk.nodes) :
               graphs' = [n \in all |->
                   [found(n) EXCEPT !.funs = {i \in @ \cup events(n) :
                                                 i \in DOMAIN disk.nodes \cup missed}]]
    /\ clipboard' = [clipboard EXCEPT !.live = FALSE]
    /\ UNCHANGED <<strayed, disk>>

-----------------------------------------------------------------------------

Empty == [x \in {} |-> x]

\* A new script: one event graph, saved.
Init ==
    /\ nodes = Empty
    /\ graphs = [n \in {Main} |-> [kind |-> "event", nodes |-> {}, funs |-> {}]]
    /\ functions = Empty
    /\ variables = {}
    /\ signals = {}
    /\ links = {}
    /\ clipboard = Nothing
    /\ strayed = FALSE
    /\ disk = Snapshot
    /\ reloads = 0

EditGraphs ==
    \/ \E n \in Names : CreateGraph(n) \/ RemoveGraph(n)
    \/ \E o, n \in Names : RenameGraph(o, n)

EditFunctions ==
    \/ \E n \in Names, g \in Guids, user, withResult, linked \in BOOLEAN :
           CreateFunction(n, g, user, withResult, linked)
    \/ \E m, n \in Names, g \in Guids : CreateEvent(m, n, g, FALSE)
    \/ \E n \in Names : RemoveFunction(n)
    \/ \E o, n \in Names : RenameFunction(o, n)
    \/ \E o, n \in Names, g \in Guids, withCode \in BOOLEAN : DuplicateFunction(o, n, g, withCode)

EditMembers ==
    \/ \E n \in Names : CreateVariable(n) \/ RemoveVariable(n)
    \/ \E o, n \in Names : RenameVariable(o, n)
    \/ \E n \in Names : CreateSignal(n) \/ RemoveSignal(n)
    \/ \E o, n \in Names : RenameSignal(o, n)

EditNodes ==
    \/ \E m \in Names, kind \in Kinds, ref \in Names \cup Guids \cup {NoRef} : AddNode(m, kind, ref)
    \/ \E i \in NodeIds : RemoveNode(i)
    \/ \E m \in DOMAIN graphs : \E S \in SUBSET graphs[m].nodes : DuplicateNodes(m, S)
    \/ \E m, n \in DOMAIN graphs, i \in DOMAIN nodes : ExpandCall(m, i, n)
    \/ \E m \in DOMAIN graphs : \E a, b \in graphs[m].nodes : Link(a, b)
    \/ \E l \in links : Unlink(l)
    \/ \E m \in DOMAIN graphs, n \in Names, g \in Guids :
           \E S \in SUBSET graphs[m].nodes : Collapse(m, S, n, g)

CopyAndPaste ==
    \/ \E m \in Names, i \in NodeIds : Copy(m, i)
    \/ \E m \in Names : PasteNode(m) \/ PasteUse(m) \/ PasteCall(m)
    \/ \E m \in Names, g \in Guids, withResult \in BOOLEAN : PasteCallCreating(m, g, withResult)
    \/ \E m \in Names, g \in Guids : PasteEvent(m, g)

Next == EditGraphs \/ EditFunctions \/ EditMembers \/ EditNodes \/ CopyAndPaste \/ Save \/ CopyState

Spec == Init /\ [][Next]_vars

-----------------------------------------------------------------------------
(* Properties.                                                             *)

TypeOK ==
    /\ DOMAIN nodes \subseteq NodeIds /\ nodes \in [DOMAIN nodes -> Node]
    /\ DOMAIN graphs \subseteq Names /\ graphs \in [DOMAIN graphs -> Graph]
    /\ DOMAIN functions \subseteq Names /\ functions \in [DOMAIN functions -> Function]
    /\ variables \subseteq Names
    /\ signals \subseteq Names
    /\ links \subseteq NodeIds \X NodeIds
    /\ clipboard \in Clip \cup {Nothing} /\ strayed \in BOOLEAN
    /\ reloads \in 0..MaxReloads

\* Every node is in exactly one graph and no graph holds the id of a node
\* that is gone, whatever was removed, moved, copied or expanded: an id left
\* behind would later name another node, for ids are given again.
NodesInOneGraph ==
    /\ \A m \in DOMAIN graphs : graphs[m].nodes \subseteq DOMAIN nodes
    /\ \A i \in DOMAIN nodes : \E m \in DOMAIN graphs :
           /\ i \in graphs[m].nodes
           /\ \A k \in DOMAIN graphs \ {m} : i \notin graphs[k].nodes

\* No wire leaves its graph: graphs are compiled and shown one by one.  The
\* edits that carry nodes over the border of a graph (collapse, expand,
\* duplicate) must cut or redraw every wire that crosses it.
LinksWithinGraph ==
    \A l \in links : \E m \in DOMAIN graphs : {l[1], l[2]} \subseteq graphs[m].nodes

\* Every function is owned by one entry or event that refers to it by guid.
FunctionOwned ==
    \A n \in DOMAIN functions :
        LET f == functions[n]
        IN  /\ f.owner \in DOMAIN nodes
            /\ IsEntry(nodes[f.owner].kind)
            /\ nodes[f.owner].ref = f.guid
            /\ \A k \in DOMAIN functions \ {n} : functions[k].owner # f.owner

\* A function whose owner is an entry has a function graph, under its own name,
\* that holds the entry: rename and removal find the graph by that name.
GraphOfFunction ==
    \A n \in DOMAIN functions :
        nodes[functions[n].owner].kind = "entry" =>
            /\ n \in DOMAIN graphs /\ graphs[n].kind = "function"
            /\ functions[n].owner \in graphs[n].nodes

\* What a graph has registered as its entries are its entries: all of them,
\* and nothing else.  A result node asks the register for its function.
EntriesRegistered ==
    \A m \in DOMAIN graphs :
        graphs[m].funs = {i \in graphs[m].nodes : IsEntry(nodes[i].kind)}

\* An orchestration is well formed, after edits, saves and reloads in any
\* order: every function has its entry; and as long as no reload has brought
\* graphs of before together with nodes of the file, every node has its graph,
\* every wire and every function too, and graphs know their entries.
WellFormed ==
    /\ TypeOK
    /\ FunctionOwned
    /\ reloads = 0 => NodesInOneGraph /\ LinksWithinGraph /\ GraphOfFunction /\ EntriesRegistered

\* No node uses a variable or a signal that was removed or has another name
\* now: the nodes hear of a new name, also while they are on the clipboard, a
\* removal takes them along, and a paste brings what they use; save for what a
\* node pasted after its declaration was renamed and removed uses.
UsesDeclared ==
    ~strayed => \A i \in DOMAIN nodes :
        /\ nodes[i].kind = "variable" => nodes[i].ref \in variables
        /\ nodes[i].kind = "emit" => nodes[i].ref \in signals

\* "Create missing variables": what a pasted node uses is declared once it is
\* pasted, whatever was renamed and removed since it was copied.
PasteDeclares == ~strayed

\* A function that has a graph and is gone, removed by whatever edit or not in
\* the file that is loaded, leaves no call of it in any graph; until a reload
\* has left a graph behind, with which its entry alone could be removed.
RemovedFunctionUncalled ==
    [][\A n \in DOMAIN functions :
          (reloads = 0 /\ n \notin DOMAIN functions' /\ nodes[functions[n].owner].kind = "entry"
             /\ \A k \in DOMAIN functions' : functions'[k].guid # functions[n].guid)
          => \A i \in DOMAIN nodes' :
                nodes'[i].kind = "call" => nodes'[i].ref # functions[n].guid]_vars

\* "There is only ever 1 function node in a function graph": one node at most
\* begins a function.
OneEntryPerFunction ==
    \A i, j \in DOMAIN nodes :
        IsEntry(nodes[i].kind) /\ IsEntry(nodes[j].kind) /\ nodes[i].ref = nodes[j].ref => i = j

\* "Event nodes can only be placed inside event graphs".
EventsInEventGraphs ==
    \A m \in DOMAIN graphs : graphs[m].kind = "function" =>
        \A i \in graphs[m].nodes \cap DOMAIN nodes : nodes[i].kind # "event"

\* "A variable already exists with the name": a function, a variable and a
\* signal never have the same name.
NamesDisjoint ==
    /\ DOMAIN functions \cap variables = {}
    /\ DOMAIN functions \cap signals = {}
    /\ variables \cap signals = {}

\* A reload copies the state of another orchestration: the graphs afterwards
\* are those of the file.
ReloadReplacesGraphs ==
    [][reloads' # reloads => DOMAIN graphs' = DOMAIN disk.graphs]_vars

=============================================================================
