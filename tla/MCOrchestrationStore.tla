------------------------ MODULE MCOrchestrationStore ------------------------
(* Small orchestrations: the edits of OrchestrationStore on few things.        *)
EXTENDS OrchestrationStore, TLC

CONSTANTS
    Budget,      \* how many things an orchestration holds when it is edited
    SavedBudget  \* the same for one that was saved or loaded

\* Names other than the main graph's, and guids, are interchangeable.
Symmetry == Permutations(Names \ {Main}) \cup Permutations(Guids)

\* What an orchestration holds; a new one holds its main graph.
Size(s) ==
    Cardinality(DOMAIN s.nodes) + Cardinality(DOMAIN s.graphs) + Cardinality(s.links)
      + Cardinality(s.variables) + Cardinality(s.signals) + Cardinality(DOMAIN s.functions)

\* What is on the clipboard counts too, and the wires with it: least for a
\* call, which needs a function, a graph and an entry besides, and most for
\* what pasting does just as duplicating nodes does.
Held == IF clipboard = Nothing THEN 0
        ELSE Cardinality(links) + CASE clipboard.kind = "plain" -> 4
               [] clipboard.kind = "result" -> 3
               [] clipboard.kind \in {"variable", "emit", "event"} -> 2
               [] clipboard.kind = "call" -> 1

\* Larger orchestrations are reached and checked, but not edited further.
Small ==
    IF Size(disk) = 1 /\ reloads = 0 THEN Size(Snapshot) + Held <= Budget
    ELSE Size(Snapshot) + (IF Held = 0 THEN 0 ELSE 1) <= SavedBudget

\* A reload may leave graphs with ids of nodes that are gone; what the editor
\* does with such a graph is not explored.
Sound == \A m \in DOMAIN graphs : graphs[m].nodes \subseteq DOMAIN nodes
=============================================================================
