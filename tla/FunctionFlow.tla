----------------------------- MODULE FunctionFlow -----------------------------
(***************************************************************************)
(* From a function's graph to its statements (OScriptFunctionAnalyzer,     *)
(* OScriptParser::build_statements).                                       *)
(*                                                                         *)
(* A function is drawn as nodes whose execution outputs are wired to       *)
(* execution inputs.  The parser follows the wires from the entry and      *)
(* writes nested blocks of statements.  Where the ways out of a node meet  *)
(* again it relies on the function analyzer, which names a merge point for *)
(* the node: the blocks stop there and the statements go on behind them.   *)
(*                                                                         *)
(* A graph is drawn, one node at a time, then compiled; then the wires and *)
(* the statements are followed side by side, with the same decisions at    *)
(* every node that has several ways out.  The nodes they come to must be   *)
(* the same.                                                               *)
(***************************************************************************)
EXTENDS FlowOrder, SequencesExt

\* What is drawn and how it is compiled: palette, the kinds that the first,
\* second, ... node may have; wires, how many there may be; converge, the setting
\* use_node_convergence; cyclic, whether wires may lead back to earlier nodes;
\* waived, the conditions on the graphs that are not asked for.
CONSTANT Setups

\* What the kinds stand for, and how many execution outputs they have:
\*   step      a statement with one way out
\*   return    a function result
\*   branch    branch, chance, type cast: one of two outputs
\*   switch    switch on string, integer or enumeration, dialogue: one output or none
\*   random    random: one of two outputs
\*   sequence  every output in turn
\*   match     the switch on any value: outputs done, default and one case
\*   for       for loop and for each: outputs loop body, completed, aborted
\*   while     outputs repeat and done
Arity == [step |-> 1, return |-> 0, branch |-> 2, switch |-> 2, random |-> 2,
          sequence |-> 2, match |-> 3, for |-> 3, while |-> 2]

ASSUME SetupsAssumption ==
    \A u \in Setups :
        /\ u.palette # <<>> /\ \A n \in DOMAIN u.palette : u.palette[n] \subseteq DOMAIN Arity
        /\ u.wires \in Nat
        /\ {u.converge, u.cyclic} \subseteq BOOLEAN
        /\ u.waived \subseteq {"own loop", "loop once", "body", "ends", "random", "break"}

VARIABLES
    setup,   \* the setup of this drawing
    graph,   \* the nodes drawn so far: [kind, out, succ], out the targets of
             \* its outputs, succ the nodes there (cached by the analyzer)
    phase,   \* "draw" or "run"
    errors,  \* what the parser complains of: <<message, node>>
    wires,   \* where the wires are still to be followed from, the next first
    code,    \* the statements still to be run, the next first
    broken,  \* the loops whose break variable is true
    copies   \* how often every node was written

vars == <<setup, graph, phase, errors, wires, code, broken, copies>>

Converge == setup.converge

\* Targets are input pins: the execution input of a node or its break input.
In(n) == <<n, "in">>
Break(n) == <<n, "break">>
Unwired == <<0, "in">>

-----------------------------------------------------------------------------
(* The analysis of the graph.                                              *)

\* The nodes at the outputs, in their order.
Successors(out) ==
    LET wired == SelectSeq(out, LAMBDA t : t # Unwired)
    IN  [i \in DOMAIN wired |-> wired[i][1]]

\* Nodes that can be reached from n.
RECURSIVE ReachFrom(_, _, _)
ReachFrom(g, frontier, found) ==
    LET next == (UNION {Range(g[n].succ) : n \in frontier}) \ found
    IN  IF next = {} THEN found ELSE ReachFrom(g, next, found \cup next)

Reachable(g, n) == ReachFrom(g, {n}, {n})

\* The ways out of a node that are expected to meet again.
DivergencePaths(g, n) ==
    CASE g[n].kind = "for" -> {t[1] : t \in {g[n].out[2], g[n].out[3]} \ {Unwired}}
      [] g[n].kind \in {"branch", "switch", "random"} ->
            IF Len(g[n].succ) > 1 THEN Range(g[n].succ) ELSE {}
      [] OTHER -> {}

\* The combined pass: a depth first search that enters the body of a for loop,
\* not what follows the loop.  It notes the nodes it meets and the innermost
\* for loop (0 if none) that it meets them in.
RECURSIVE Visit(_, _, _, _)
Visit(g, n, loop, st) ==
    LET s == [st EXCEPT !.visited = @ \cup {n}, !.inBody = @ \cup {<<loop, n>>}]
        isFor == g[n].kind = "for"
        next == IF isFor THEN SelectSeq(g[n].succ, LAMBDA m : m = g[n].out[1][1])
                ELSE g[n].succ
    IN  IF n \in st.visited THEN s
        ELSE FoldLeft(LAMBDA x, m : Visit(g, m, IF isFor THEN n ELSE loop, x), s, next)

\* The nodes wired to the break input of loop n.
BreakSources(g, n) == {m \in DOMAIN g : Break(n) \in Range(g[m].out)}

Analyze(g) ==
    LET seen == Visit(g, 1, 0, [visited |-> {}, inBody |-> {}])
        succ == [n \in DOMAIN g |-> g[n].succ]
        list == LinearOrder(succ)
        merge(n) == FindMergePoint(succ, list, DivergencePaths(g, n))
        sources(n) == BreakSources(g, n) \cap seen.visited
    IN  [merge |-> [n \in DOMAIN g |-> IF n \in seen.visited THEN merge(n) ELSE 0],
         breakable |-> {n \in DOMAIN g : sources(n) # {}},
         errors |-> {<<"break source not reachable", m>> :
                        m \in UNION {BreakSources(g, n) : n \in DOMAIN g} \ seen.visited}
                    \cup {<<"break outside loop body", m>> :
                        m \in {x \in DOMAIN g : \E n \in DOMAIN g :
                                    x \in sources(n) /\ <<n, x>> \notin seen.inBody}}]

-----------------------------------------------------------------------------
(* The statements.                                                         *)
(* Building takes a context: the merge points that lie ahead, the nodes    *)
(* being built, the nodes this chain has passed, and the loops whose break *)
(* variable is declared.                                                   *)

Choose(n, arms) == [op |-> "choose", node |-> n, arms |-> arms]
Loop(n, body) == [op |-> "loop", node |-> n, body |-> body]
Single(op, n) == [op |-> op, node |-> n]

Built(stmts, errs, known, next) == [stmts |-> stmts, errors |-> errs, known |-> known, next |-> next]

RECURSIVE BuildStatements(_, _, _, _)

\* A target that this chain has passed or that is being built.  A break input
\* leads back to a loop, but is no cycle.
MutantRepeats(t, c) == t[1] \in c.seen \cup c.busy
Repeats(t, c) == t[2] = "in" /\ t[1] \in c.seen \cup c.busy

\* The innermost merge point ahead: the statements go on there behind the blocks.
AtMerge(t, c) == c.ahead # <<>> /\ Last(c.ahead) = t

\* The break variable of a loop is set to false where it is declared.
Declare(n, c) == IF n \in c.known THEN <<>> ELSE <<Single("reset", n)>>

\* A block of its own, for what is wired to an output.  The mutant forgets the
\* merge points ahead.
MutantBuildSuite(g, info, t, c) == BuildStatements(g, info, t, [c EXCEPT !.seen = {}, !.ahead = <<>>])
BuildSuite(g, info, t, c) == BuildStatements(g, info, t, [c EXCEPT !.seen = {}])

\* The statements of one node, and the target to go on with.
BuildStatement(g, info, n, c) ==
    LET out == g[n].out
        suite == [i \in DOMAIN out |-> BuildSuite(g, info, out[i], c)]
        Errs(is) == UNION {suite[i].errors : i \in is}
        merge == IF Converge /\ info.merge[n] # 0 THEN In(info.merge[n]) ELSE Unwired
        visible == Single(g[n].kind, n)
    IN  CASE g[n].kind = "step" -> Built(<<visible>>, {}, c.known, out[1])
          [] g[n].kind = "return" -> Built(<<visible>>, {}, c.known, Unwired)
          [] g[n].kind \in {"branch", "switch"} ->
                Built(<<Choose(n, <<suite[1].stmts, suite[2].stmts>>)>>, Errs({1, 2}), c.known, merge)
          [] g[n].kind = "random" ->
                Built(<<Choose(n, <<suite[1].stmts, suite[2].stmts>>)>>, Errs({1, 2}), c.known, Unwired)
          [] g[n].kind = "match" ->
                Built(<<Choose(n, <<suite[2].stmts, suite[3].stmts>>)>>, Errs({2, 3}), c.known, out[1])
          [] g[n].kind = "sequence" ->
                LET second == BuildSuite(g, info, out[2], [c EXCEPT !.known = suite[1].known])
                IN  Built(suite[1].stmts \o second.stmts, suite[1].errors \cup second.errors,
                          second.known, Unwired)
          [] g[n].kind = "while" ->
                Built(<<Loop(n, suite[1].stmts)>>, suite[1].errors, c.known, out[2])
          [] g[n].kind = "for" /\ n \notin info.breakable ->
                Built(<<Loop(n, suite[1].stmts)>>, suite[1].errors, c.known, out[2])
          [] OTHER ->
                LET declared == [c EXCEPT !.known = @ \cup {n}]
                    arm(i) == BuildSuite(g, info, out[i], declared)
                IN  Built(Declare(n, c)
                            \o <<Loop(n, arm(1).stmts),
                                 [op |-> "aborted", node |-> n, arms |-> <<arm(3).stmts, arm(2).stmts>>]>>,
                          UNION {arm(i).errors : i \in 1..3}, declared.known, merge)

\* The chain of statements from target t on.
BuildStatements(g, info, t, c) ==
    LET n == t[1]
        nothing(errs) == Built(<<>>, errs, c.known, Unwired)
        ahead == IF Converge /\ info.merge[n] # 0 THEN Append(c.ahead, In(info.merge[n])) ELSE c.ahead
        s == BuildStatement(g, info, n, [c EXCEPT !.ahead = ahead, !.busy = @ \cup {n}])
        rest == BuildStatements(g, info, s.next, [c EXCEPT !.seen = @ \cup {n}, !.known = s.known])
    IN  IF t = Unwired THEN nothing({})
        ELSE IF Repeats(t, c) THEN nothing({<<"cycle", n>>})
        ELSE IF t = Break(n) THEN [nothing({}) EXCEPT !.stmts = <<Single("break", n)>>]
        ELSE IF AtMerge(t, c) THEN nothing({})
        ELSE Built(s.stmts \o rest.stmts, s.errors \cup rest.errors, rest.known, Unwired)

BuildFunction(g) ==
    LET info == Analyze(g)
        body == BuildSuite(g, info, In(1), [ahead |-> <<>>, busy |-> {}, seen |-> {}, known |-> {}])
    IN  [stmts |-> body.stmts, errors |-> info.errors \cup body.errors]

\* How often node n was written.
RECURSIVE Copies(_, _)
Copies(stmts, n) ==
    FoldFunction(+, 0, [i \in DOMAIN stmts |->
        LET s == stmts[i]
        IN  (IF s.node = n /\ s.op \in {"step", "return", "choose", "loop"} THEN 1 ELSE 0)
            + (IF s.op \in {"choose", "aborted"} THEN FoldFunction(+, 0, [a \in DOMAIN s.arms |-> Copies(s.arms[a], n)])
               ELSE IF s.op = "loop" THEN Copies(s.body, n) ELSE 0)])

-----------------------------------------------------------------------------
(* Running the statements.                                                 *)
(* [op |-> "again"] is the head of a loop that is running: its condition.  *)

\* What is left of a block when the loop around it is left.
RECURSIVE AfterLoop(_, _)
AfterLoop(rest, n) ==
    CASE rest = <<>> -> <<Single("break outside a loop", n)>>
      [] rest # <<>> /\ Head(rest).op = "again" -> Tail(rest)
      [] OTHER -> AfterLoop(Tail(rest), n)

\* Runs the statements that only move control: up to the next node.
RECURSIVE Settle(_)
Settle(s) ==
    LET top == Head(s.code)
        rest == Tail(s.code)
    IN  IF s.code = <<>> THEN s
        ELSE CASE top.op = "break" ->
                    Settle([code |-> AfterLoop(rest, top.node), broken |-> s.broken \cup {top.node}])
               [] top.op = "reset" -> Settle([code |-> rest, broken |-> s.broken \ {top.node}])
               [] top.op = "aborted" ->
                    Settle([s EXCEPT !.code = (IF top.node \in s.broken THEN top.arms[1] ELSE top.arms[2]) \o rest])
               [] OTHER -> s

\* The next node's statement, with decision d.
RunStatement(stmts, d) ==
    LET top == Head(stmts)
        rest == Tail(stmts)
    IN  CASE top.op = "step" -> rest
          [] top.op = "return" -> <<>>
          [] top.op = "choose" -> (IF d = 0 THEN <<>> ELSE top.arms[d]) \o rest
          [] top.op \in {"loop", "again"} ->
                IF d = 0 THEN rest ELSE top.body \o <<[top EXCEPT !.op = "again"]>> \o rest

\* The node that the statements come to next, 0 at the end.
NodeOf(stmts) == IF stmts = <<>> THEN 0 ELSE Head(stmts).node

-----------------------------------------------------------------------------
(* Following the wires.                                                    *)
(* A pulse is at an input of a node, or back at a loop whose body is done. *)

At(t) == [node |-> t[1], pin |-> t[2]]
Pulse(t) == IF t = Unwired THEN <<>> ELSE <<At(t)>>

\* A pulse at a break input leaves the loop through its output "aborted";
\* outside of the loop it has no effect.
RECURSIVE LeaveLoop(_, _, _)
LeaveLoop(g, rest, n) ==
    CASE rest = <<>> -> <<>>
      [] rest # <<>> /\ Head(rest) = [node |-> n, pin |-> "again"] -> Pulse(g[n].out[3]) \o Tail(rest)
      [] OTHER -> LeaveLoop(g, Tail(rest), n)

\* Follows the wires up to the next node that does something.
RECURSIVE Follow(_, _)
Follow(g, w) ==
    LET n == Head(w).node
    IN  IF w = <<>> THEN w
        ELSE IF Head(w).pin = "break" THEN Follow(g, LeaveLoop(g, Tail(w), n))
        ELSE IF g[n].kind = "sequence"
             THEN Follow(g, Pulse(g[n].out[1]) \o Pulse(g[n].out[2]) \o Tail(w))
        ELSE w

\* The next node is left, with decision d.
Leave(g, w, d) ==
    LET n == Head(w).node
        rest == Tail(w)
        out == g[n].out
        again == <<[node |-> n, pin |-> "again"]>>
    IN  CASE g[n].kind = "step" -> Pulse(out[1]) \o rest
          [] g[n].kind = "return" -> <<>>
          [] g[n].kind \in {"branch", "switch", "random"} -> (IF d = 0 THEN <<>> ELSE Pulse(out[d])) \o rest
          [] g[n].kind = "match" -> Pulse(out[d + 1]) \o Pulse(out[1]) \o rest
          [] g[n].kind \in {"for", "while"} ->
                IF d = 0 THEN Pulse(out[2]) \o rest ELSE Pulse(out[1]) \o again \o rest

NextNode(w) == IF w = <<>> THEN 0 ELSE Head(w).node

\* 0 is a switch none of whose cases applies and a loop that ends.
Decisions(kind) ==
    CASE kind \in {"step", "return"} -> {0}
      [] kind \in {"branch", "random", "match"} -> {1, 2}
      [] kind = "switch" -> {0, 1, 2}
      [] kind \in {"for", "while"} -> {0, 1}

-----------------------------------------------------------------------------
(* The graphs that are drawn.                                              *)

MaxNodes == Len(setup.palette)
Wires(g) == FoldFunction(+, 0, [n \in DOMAIN g |-> Len(g[n].succ)])

\* Targets for the outputs of node n: later nodes, or any; break inputs.
Targets(n) ==
    {Unwired} \cup {In(m) : m \in IF setup.cyclic THEN 1..MaxNodes ELSE (n + 1)..MaxNodes}
    \cup {Break(m) : m \in {x \in 1..(n - 1) : graph[x].kind = "for"}}

Loops(g) == {n \in DOMAIN g : g[n].kind \in {"for", "while"}}

\* The graph without the bodies of some loops.
Bodiless(g, loops) ==
    [n \in DOMAIN g |->
        IF n \notin loops THEN g[n]
        ELSE LET out == [g[n].out EXCEPT ![1] = Unwired]
             IN  [kind |-> g[n].kind, out |-> out, succ |-> Successors(out)]]

\* A break input is wired from within the body of its loop only.
BreaksWithin(g) ==
    \A n \in Loops(g) : \A m \in BreakSources(g, n) : m \notin Reachable(Bodiless(g, {n}), 1)

\* The loops that are only run from within the body of loop n.
InnerLoops(g, n) == (Loops(g) \ Reachable(Bodiless(g, {n}), 1)) \ {n}

\* The nodes in the body of loop n.
BodyOf(g, n) ==
    LET start == g[n].out[1][1]
    IN  IF start \in {0, n} THEN {} ELSE Reachable([g EXCEPT ![n].succ = <<>>], start) \ {n}

\* A break input is not wired from within a loop inside of its own.
BreaksOwnLoop(g) ==
    \A n \in Loops(g) : \A m \in BreakSources(g, n), k \in InnerLoops(g, n) :
        m \notin BodyOf(g, k) /\ g[k].out[1] # Break(n)

\* The nodes that can be reached through output i of n.
Through(g, n, i) == LET start == g[n].out[i][1] IN IF start = 0 THEN {} ELSE Reachable(g, start)

\* A loop that is broken from is not run by two outputs of one sequence.
LoopsOnce(g) ==
    \A n \in Loops(g), s \in DOMAIN g :
        BreakSources(g, n) # {} /\ g[s].kind = "sequence" => n \notin Through(g, s, 1) \cap Through(g, s, 2)

\* The nodes from n on before merge point m.
Region(g, n, m) == Reachable([g EXCEPT ![m].succ = <<>>], n) \ {m}

\* The outputs of n that the flow may end at.
Exits(g, n) ==
    CASE g[n].kind = "for" -> IF BreakSources(g, n) = {} THEN {2} ELSE {2, 3}
      [] g[n].kind = "while" -> {2}
      [] OTHER -> DOMAIN g[n].out

\* The flow goes on from n to one of its exits, never ends here.
GoesOn(g, n) ==
    \/ g[n].kind = "return"
    \/ /\ g[n].kind \in {"step", "branch", "random", "for", "while"}
       /\ \A i \in Exits(g, n) : g[n].out[i] # Unwired

\* All ways out of n come to its merge point or to a return.
EndsWell(g, n, m) ==
    g[n].kind \in {"branch", "switch", "random"} \/ BreakSources(g, n) # {} =>
        \A k \in Region(Bodiless(g, Loops(g)), n, m) : GoesOn(g, k)

\* No loop on the way comes to the merge point from its body.
NotFromBody(g, n, m) == \A k \in Loops(g) \cap Region(g, n, m) : m \notin BodyOf(g, k)

\* The graphs for which the statements are right: what the analysis and the
\* parser take for granted.
Tidy(g) ==
    /\ "own loop" \in setup.waived \/ BreaksOwnLoop(g)
    /\ "loop once" \in setup.waived \/ LoopsOnce(g)
    /\ Converge =>
        LET merge == Analyze(g).merge
        IN  \A n \in {k \in DOMAIN g : merge[k] # 0} :
                /\ "ends" \in setup.waived \/ EndsWell(g, n, merge[n])
                /\ "body" \in setup.waived \/ NotFromBody(g, n, merge[n])
                /\ "random" \in setup.waived \/ g[n].kind # "random"
                /\ "break" \in setup.waived \/ Break(merge[n]) \notin Range(g[n].out)

-----------------------------------------------------------------------------
Init ==
    /\ setup \in Setups
    /\ graph = <<>> /\ phase = "draw" /\ errors = {}
    /\ wires = <<>> /\ code = <<>> /\ broken = {} /\ copies = <<>>

\* A node is drawn that a node drawn before is wired to.
Draw ==
    /\ phase = "draw" /\ Len(graph) < MaxNodes
    /\ LET n == Len(graph) + 1
       IN  /\ n = 1 \/ setup.cyclic \/ \E m \in DOMAIN graph : In(n) \in Range(graph[m].out)
           /\ \E k \in setup.palette[n] : \E out \in [1..Arity[k] -> Targets(n)] :
                graph' = Append(graph, [kind |-> k, out |-> out, succ |-> Successors(out)])
           /\ Wires(graph') <= setup.wires
    /\ UNCHANGED <<setup, phase, errors, wires, code, broken, copies>>

\* The function is compiled and, without errors, called.
Compile ==
    /\ phase = "draw" /\ graph # <<>>
    /\ \A n \in DOMAIN graph : \A t \in Range(graph[n].out) : t[1] <= Len(graph)
    /\ Reachable(graph, 1) = DOMAIN graph
    /\ BreaksWithin(graph)
    /\ Tidy(graph)
    /\ phase' = "run"
    /\ LET f == BuildFunction(graph)
           s == Settle([code |-> f.stmts, broken |-> {}])
       IN  /\ errors' = f.errors
           /\ copies' = [n \in DOMAIN graph |-> Copies(f.stmts, n)]
           /\ code' = IF f.errors = {} THEN s.code ELSE <<>>
           /\ broken' = IF f.errors = {} THEN s.broken ELSE {}
           /\ wires' = IF f.errors = {} THEN Follow(graph, <<At(In(1))>>) ELSE <<>>
    /\ UNCHANGED <<setup, graph>>

\* The next node, with a decision that both sides take.
Run ==
    /\ phase = "run" /\ wires # <<>> /\ NodeOf(code) = NextNode(wires)
    /\ \E d \in Decisions(graph[NextNode(wires)].kind) :
        LET s == Settle([code |-> RunStatement(code, d), broken |-> broken])
        IN  /\ wires' = Follow(graph, Leave(graph, wires, d))
            /\ code' = s.code
            /\ broken' = s.broken
    /\ UNCHANGED <<setup, graph, phase, errors, copies>>

Next == Draw \/ Compile \/ Run

Spec == Init /\ [][Next]_vars

-----------------------------------------------------------------------------
(* Properties.                                                             *)

TypeOK ==
    /\ phase \in {"draw", "run"}
    /\ Len(graph) <= MaxNodes
    /\ \A n \in DOMAIN graph : graph[n].kind \in setup.palette[n] /\ Len(graph[n].out) = Arity[graph[n].kind]
    /\ broken \subseteq {n \in DOMAIN graph : graph[n].kind = "for"}
    /\ NodeOf(code) \in 0..Len(graph) /\ NextNode(wires) \in 0..Len(graph)
    /\ code = <<>> \/ Head(code).op \in {"step", "return", "choose", "loop", "again"}

\* The statements do what the graph shows: they come to the same nodes, in the
\* same order, whatever the conditions, and end together.
SameNodes == TypeOK /\ (phase = "run" => NodeOf(code) = NextNode(wires))

\* With merge points, a graph is not blown up: where all ways meet again, no
\* node is written twice, however the branches nest.
WrittenOnce ==
    LET kinds == {graph[n].kind : n \in DOMAIN graph}
        merge == Analyze(graph).merge
    IN  phase = "run" /\ Converge /\ errors = {} /\ kinds \subseteq {"step", "branch"}
        /\ (\A n \in DOMAIN graph : graph[n].kind = "branch" => merge[n] # 0) =>
            \A n \in DOMAIN copies : copies[n] <= 1

\* A graph is rejected for a cycle only if its wires have one, break inputs
\* left aside ("not a control-flow cycle").
CyclesOnly ==
    (\E e \in errors : e[1] = "cycle") =>
        LET g == [n \in DOMAIN graph |->
                    [succ |-> Successors(SelectSeq(graph[n].out, LAMBDA t : t[2] = "in"))]]
        IN  \E n \in DOMAIN g : \E m \in Range(g[n].succ) : n \in Reachable(g, m)

\* "it isn't reachable": every node of a graph that is compiled here can be
\* reached from the entry, so none is rejected for that.
NoneUnreachable == \A e \in errors : e[1] # "break source not reachable"
=============================================================================
