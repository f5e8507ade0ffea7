------------------------------ MODULE FlowOrder ------------------------------
(***************************************************************************)
(* The order of a function's nodes and the merge points                    *)
(* (OScriptFunctionAnalyzer::_build_linear_execution_list and              *)
(* _find_merge_point).                                                     *)
(*                                                                         *)
(* A graph is given by the successors of its nodes: succ[n] are the nodes  *)
(* at the execution outputs of node n, in the order of the outputs.  Node  *)
(* 1 is the entry, or the node that the only output of the entry leads to: *)
(* nothing leads to the entry.  The two loops over all wires are stepped   *)
(* through one wire at a time.                                             *)
(***************************************************************************)
EXTENDS Integers, Sequences, FiniteSets, Functions

IsGraph(succ) == succ # <<>> /\ succ \in Seq(Seq(1..Len(succ)))

\* Wire <<n, i>> leads from node n to the i-th of its successors; edges are
\* pairs of nodes that a wire leads from and to.
Arcs(succ) == UNION {{n} \X DOMAIN succ[n] : n \in DOMAIN succ}
Edge(succ, a) == <<a[1], succ[a[1]][a[2]]>>

-----------------------------------------------------------------------------
(* Back edges: a depth first search from the entry.                        *)

\* path, the nodes whose call of classify is running, the innermost last;
\* tried, how many successors of every node were looked at.
SearchStart(succ) ==
    [path |-> <<1>>, tried |-> [n \in DOMAIN succ |-> 0], visited |-> {1}, back |-> {}]

\* The innermost call looks at its next successor, or returns.
SearchStep(succ, s) ==
    LET n == s.path[Len(s.path)]
        i == s.tried[n] + 1
        m == succ[n][i]
        looked == [s EXCEPT !.tried = [@ EXCEPT ![n] = i]]
    IN  IF s.path = <<>> THEN s
        ELSE IF i > Len(succ[n]) THEN [s EXCEPT !.path = SubSeq(@, 1, Len(@) - 1)]
        ELSE IF m \in Range(s.path) THEN [looked EXCEPT !.back = @ \cup {<<n, m>>}]
        ELSE IF m \in s.visited THEN looked
        ELSE [looked EXCEPT !.path = Append(@, m), !.visited = @ \cup {m}]

\* Every wire is looked at once and every node returned from once.
SearchSteps(succ) == Cardinality(DOMAIN succ) + Cardinality(Arcs(succ))

\* Wires to a node on the active path.
BackEdges(succ) ==
    LET run[k \in 0..SearchSteps(succ)] ==
            IF k = 0 THEN SearchStart(succ) ELSE SearchStep(succ, run[k - 1])
    IN  run[SearchSteps(succ)].back

-----------------------------------------------------------------------------
(* Topological order without the back edges (Kahn's algorithm).            *)

\* The wires to node m that count.
Incoming(succ, back, m) == {a \in Arcs(succ) : Edge(succ, a)[2] = m /\ Edge(succ, a) \notin back}

\* line, the list so far followed by the queue; at, the place in it of the node
\* that is handled, all before it were taken from the queue; tried, how many of
\* its successors were looked at; seeded, how many nodes were asked for their
\* degree, before the first is handled.
OrderStart(succ, back) ==
    [line |-> <<>>, at |-> 1, tried |-> 0, seeded |-> 0,
     degree |-> [m \in DOMAIN succ |-> Cardinality(Incoming(succ, back, m))]]

OrderStep(succ, back, s) ==
    LET n == s.line[s.at]
        i == s.tried + 1
        m == succ[n][i]
        queued(x, d) == IF d = 0 THEN Append(s.line, x) ELSE s.line
    IN  IF s.seeded < Len(succ)
        THEN [s EXCEPT !.seeded = @ + 1, !.line = queued(s.seeded + 1, s.degree[s.seeded + 1])]
        ELSE IF s.at > Len(s.line) THEN s
        ELSE IF i > Len(succ[n]) THEN [s EXCEPT !.at = @ + 1, !.tried = 0]
        ELSE IF <<n, m>> \in back THEN [s EXCEPT !.tried = i]
        ELSE [s EXCEPT !.tried = i,
                       !.degree = [@ EXCEPT ![m] = s.degree[m] - 1],
                       !.line = queued(m, s.degree[m] - 1)]

\* Every node is asked once, every wire looked at once, every node handled once.
OrderSteps(succ) == 2 * Len(succ) + Cardinality(Arcs(succ))

LinearOrder(succ) ==
    LET back == BackEdges(succ)
        run[k \in 0..OrderSteps(succ)] ==
            IF k = 0 THEN OrderStart(succ, back) ELSE OrderStep(succ, back, run[k - 1])
    IN  run[OrderSteps(succ)].line

-----------------------------------------------------------------------------
(* Merge points.                                                           *)

\* The bits of the masks that the ways out are told apart by.
MaskBits == 64

\* _get_all_reachable_nodes, of all of the ways out: the nodes in every set of
\* nodes that holds the beginning of a way and is closed under its wires.
Shared(succ, paths) ==
    {n \in DOMAIN succ : \A p \in paths : \A C \in SUBSET DOMAIN succ :
        p \in C /\ (\A m \in C : Range(succ[m]) \subseteq C) => n \in C}

\* The closest node that all of the ways out reach, paths the nodes these begin
\* with: every node passes on, in the order of list, the ways that reach it.  0
\* if there is none.  With more ways than bits it is the node that a hash set of
\* those that are shared begins with: any of them.
MutantFindMergePoint(succ, list, paths) ==
    LET reach[i \in 1..Len(list)] ==
            {p \in paths : \/ p = list[i]
                           \/ \E j \in 1..(i - 1) : p \in reach[j] /\ list[i] \in Range(succ[list[j]])}
        whole == {i \in 1..Len(list) : reach[i] = paths}
    IN  CASE paths = {} -> 0
          [] Cardinality(paths) = 1 -> CHOOSE p \in paths : TRUE
          [] Cardinality(paths) > MaskBits ->
                IF Shared(succ, paths) = {} THEN 0 ELSE CHOOSE n \in Shared(succ, paths) : TRUE
          [] OTHER -> IF whole = {} THEN 0 ELSE list[CHOOSE i \in whole : \A j \in whole : i >= j]
FindMergePoint(succ, list, paths) ==
    LET reach[i \in 1..Len(list)] ==
            {p \in paths : \/ p = list[i]
                           \/ \E j \in 1..(i - 1) : p \in reach[j] /\ list[i] \in Range(succ[list[j]])}
        whole == {i \in 1..Len(list) : reach[i] = paths}
    IN  CASE paths = {} -> 0
          [] Cardinality(paths) = 1 -> CHOOSE p \in paths : TRUE
          [] Cardinality(paths) > MaskBits ->
                IF Shared(succ, paths) = {} THEN 0 ELSE CHOOSE n \in Shared(succ, paths) : TRUE
          [] OTHER -> IF whole = {} THEN 0 ELSE list[CHOOSE i \in whole : \A j \in whole : i <= j]
=============================================================================
