---------------------------- MODULE OrphanRepair ----------------------------
(***************************************************************************)
(* The repair of a document as it is loaded (Orchestration::_fix_orphans). *)
(*                                                                         *)
(* A file may hold nodes that no graph lists, graphs that list nodes that  *)
(* are gone and connections with an end that is gone.  The repair visits   *)
(* every node once, in the order of a hash map.  A node in no graph goes   *)
(* back to a graph that lists the node at the other end of a connection,   *)
(* if there is one, and is removed with its connections otherwise.         *)
(*                                                                         *)
(* This is the store before its first state.  The two modules have no name *)
(* in common, so that one module can extend both.                          *)
(***************************************************************************)
EXTENDS FiniteSets

CONSTANTS
    Ids,     \* node ids in the file
    Graphs,  \* graphs
    None     \* no graph

ASSUME NoneAssumption == None \notin Graphs

VARIABLES
    loaded,       \* the nodes there are
    home,         \* the graph that lists an id, if one does
    connections,  \* the connections, as sets of their ends
    pending,      \* nodes not yet visited
    orphans,      \* nodes to be removed
    phase,        \* "visit", "erase", "prune" or "done"
    listed        \* the ids that the graphs of the file list: never changes

repairVars == <<loaded, home, connections, pending, orphans, phase, listed>>

\* Connections between two ids, which may be one.
Pairs == {{a, b} : a \in Ids, b \in Ids}

IsPlaced(n) == home[n] # None

\* The graphs that list an end of a connection of n.
GraphsNear(n) == {home[m] : m \in {x \in Ids : {n, x} \in connections /\ IsPlaced(x)}}

\* A node a graph lists is left where it is.
VisitPlaced(n) ==
    /\ phase = "visit" /\ n \in pending /\ IsPlaced(n)
    /\ pending' = pending \ {n}
    /\ UNCHANGED <<loaded, home, connections, orphans, phase, listed>>

\* Placed nodes are visited as the others are.
MutantReturn(n, g) ==
    /\ phase = "visit" /\ n \in pending
    /\ g \in GraphsNear(n)
    /\ home' = [home EXCEPT ![n] = g]
    /\ pending' = pending \ {n}
    /\ UNCHANGED <<loaded, connections, orphans, phase, listed>>

Return(n, g) ==
    /\ phase = "visit" /\ n \in pending /\ ~IsPlaced(n)
    /\ g \in GraphsNear(n)
    /\ home' = [home EXCEPT ![n] = g]
    /\ pending' = pending \ {n}
    /\ UNCHANGED <<loaded, connections, orphans, phase, listed>>

\* Connections are not looked at.
MutantQueue(n) ==
    /\ phase = "visit" /\ n \in pending /\ ~IsPlaced(n)
    /\ orphans' = orphans \cup {n}
    /\ pending' = pending \ {n}
    /\ UNCHANGED <<loaded, home, connections, phase, listed>>

Queue(n) ==
    /\ phase = "visit" /\ n \in pending /\ ~IsPlaced(n)
    /\ GraphsNear(n) = {}
    /\ orphans' = orphans \cup {n}
    /\ pending' = pending \ {n}
    /\ UNCHANGED <<loaded, home, connections, phase, listed>>

Finish ==
    /\ phase = "visit" /\ pending = {}
    /\ phase' = "erase"
    /\ UNCHANGED <<loaded, home, connections, pending, orphans, listed>>

Erase ==
    /\ phase = "erase"
    /\ loaded' = loaded \ orphans
    /\ phase' = "prune"
    /\ UNCHANGED <<home, connections, pending, orphans, listed>>

Prune ==
    /\ phase = "prune"
    /\ connections' = {l \in connections : l \subseteq loaded}
    /\ phase' = "done"
    /\ UNCHANGED <<loaded, home, pending, orphans, listed>>

\* Any file.
FileInit ==
    /\ loaded \in SUBSET Ids
    /\ home \in [Ids -> Graphs \cup {None}]
    /\ connections \in SUBSET Pairs
    /\ pending = loaded /\ orphans = {} /\ phase = "visit"
    /\ listed = {n \in Ids : IsPlaced(n)}

RepairNext ==
    \/ \E n \in Ids : \/ VisitPlaced(n) \/ Queue(n)
                      \/ \E g \in Graphs : Return(n, g)
    \/ Finish \/ Erase \/ Prune

RepairSpec == FileInit /\ [][RepairNext]_repairVars

-----------------------------------------------------------------------------
(* Properties.                                                             *)

RepairTypeOK ==
    /\ loaded \subseteq Ids
    /\ home \in [Ids -> Graphs \cup {None}]
    /\ connections \subseteq Pairs
    /\ pending \subseteq loaded
    /\ orphans \subseteq Ids
    /\ phase \in {"visit", "erase"} => orphans \subseteq loaded
    /\ listed \subseteq Ids
    /\ phase \in {"visit", "erase", "prune", "done"}

\* Whatever the order of the visits, a node is given up only if it has no
\* connection to an id that a graph of the file lists.
NeighbourKept == \A n \in orphans, m \in listed : {n, m} \notin connections

\* A repaired document is one that the store takes for granted: a graph lists
\* every node, and both ends of every connection are there; and no node was given
\* up that had a connection to one the file's graphs list.
Repaired ==
    /\ RepairTypeOK
    /\ NeighbourKept
    /\ phase = "done" => /\ \A n \in loaded : IsPlaced(n)
                         /\ \A l \in connections : l \subseteq loaded

\* The repair loses nothing that was in order: a node that a graph lists stays,
\* in that graph, and so does a connection of two of them.
PlacedKept ==
    [][/\ \A n \in loaded : IsPlaced(n) => n \in loaded' /\ home'[n] = home[n]
       /\ \A l \in connections : (l \subseteq loaded /\ \A n \in l : IsPlaced(n)) => l \in connections']_repairVars

\* "If a node is orphaned but a connection exists to re-add it back to the
\* graph, do it": no node that is removed has a connection to one that stays.
ReAdded == phase \in {"erase", "prune"} => \A l \in connections : l \cap orphans # {} => l \cap (loaded \ orphans) = {}
=============================================================================
