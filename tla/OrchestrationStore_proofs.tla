----------------------- MODULE OrchestrationStore_proofs -----------------------
(*****************************************************************************)
(* Proofs about OrchestrationStore.  Most edits add nodes to one graph, take *)
(* nodes away, or both; what each keeps of the tables is stated once, of any *)
(* tables, and the edits are then told apart by what they add and remove.    *)
(* The last section is about OrphanRepair, the repair that a document goes   *)
(* through as it is loaded into the store.                                   *)
(*****************************************************************************)
EXTENDS OrchestrationStore, OrphanRepair, FiniteSetTheorems, WellFoundedInduction, TLAPS

-----------------------------------------------------------------------------
(* Nodes and ids.                                                            *)

Terminators == {"entry", "event", "result"}

LEMMA NodeFields ==
    \A x \in Node :
        /\ x.kind \in Kinds /\ x = [kind |-> x.kind, ref |-> x.ref]
        /\ IsEntry(x.kind) => x.ref \in Guids
        /\ x.kind \in Terminators => x.ref \in Guids \cup {NoRef}
        /\ x.kind = "call" => x.ref \in Guids
        /\ x.kind \in {"variable", "emit"} => x.ref \in Names
  BY DEF Node, Kinds, IsEntry, Terminators

LEMMA NodeMade ==
    /\ \A g \in Guids : \A k \in {"entry", "event", "result", "call"} : [kind |-> k, ref |-> g] \in Node
    /\ \A n \in Names : \A k \in {"variable", "emit"} : [kind |-> k, ref |-> n] \in Node
    /\ \A k \in {"plain", "result"} : [kind |-> k, ref |-> NoRef] \in Node
  BY DEF Node

\* A node that refers to something else now.
LEMMA NodeChanged ==
    ASSUME NEW x \in Node, NEW y
    PROVE  /\ (x.kind \in Terminators /\ y \in Guids) => [x EXCEPT !.ref = y] \in Node
           /\ (x.kind \in {"variable", "emit"} /\ y \in Names) => [x EXCEPT !.ref = y] \in Node
           /\ [x EXCEPT !.ref = y].kind = x.kind /\ [x EXCEPT !.ref = y].ref = y
  <1>1. x = [kind |-> x.kind, ref |-> x.ref]
    BY NodeFields
  <1>2. [x EXCEPT !.ref = y] = [kind |-> x.kind, ref |-> y]
    BY <1>1
  <1> QED BY <1>2, NodeMade DEF Terminators

\* The ids of the copies are new and differ.
LEMMA CopyIds ==
    ASSUME NEW S \in SUBSET NodeIds, NEW base \in NodeIds
    PROVE  /\ \A i \in S : CopyId(S, base, i) \in Nat /\ base <= CopyId(S, base, i)
           /\ \A i, j \in S : CopyId(S, base, i) = CopyId(S, base, j) => i = j
  <1> DEFINE B(i) == {j \in S : j < i}
  <1>1. IsFiniteSet(S) /\ S \subseteq Nat /\ base \in Nat
    <2>1. IsFiniteSet(NodeIds) /\ NodeIds \subseteq Nat
      BY FS_Interval, BoundAssumption DEF NodeIds
    <2> QED BY <2>1, FS_Subset
  <1>2. \A i \in S : IsFiniteSet(B(i)) /\ Cardinality(B(i)) \in Nat
    BY <1>1, FS_Subset, FS_CardinalityType
  <1>3. \A i \in S : CopyId(S, base, i) = base + Cardinality(B(i))
    BY DEF CopyId
  <1>4. ASSUME NEW i \in S, NEW j \in S, i < j PROVE Cardinality(B(i)) < Cardinality(B(j))
    <2>0. \A k \in S : k \in Nat
      BY <1>1
    <2>1. B(i) \subseteq B(j) /\ i \in B(j) /\ i \notin B(i)
      BY <1>4, <2>0
    <2>2. Cardinality(B(i) \cup {i}) = Cardinality(B(i)) + 1
      BY <1>2, <2>1, FS_AddElement
    <2>3. Cardinality(B(i) \cup {i}) <= Cardinality(B(j))
      BY <1>2, <2>1, FS_Subset
    <2> HIDE DEF B
    <2> QED BY <1>2, <2>2, <2>3
  <1> HIDE DEF B
  <1>5. ASSUME NEW i \in S, NEW j \in S, CopyId(S, base, i) = CopyId(S, base, j) PROVE i = j
    <2>1. Cardinality(B(i)) = Cardinality(B(j))
      BY <1>1, <1>2, <1>3, <1>5
    <2> QED BY <1>1, <1>2, <1>4, <2>1
  <1> QED BY <1>1, <1>2, <1>3, <1>5

LEMMA Originals ==
    ASSUME NEW S \in SUBSET NodeIds, NEW base \in NodeIds
    PROVE  /\ \A c \in Copies(S, base) : Original(S, base, c) \in S /\ CopyId(S, base, Original(S, base, c)) = c
           /\ \A i \in S : CopyId(S, base, i) \in Copies(S, base) /\ Original(S, base, CopyId(S, base, i)) = i
           /\ Copies(S, base) \subseteq Nat /\ \A c \in Copies(S, base) : base <= c
  <1>1. \A c \in Copies(S, base) : Original(S, base, c) \in S /\ CopyId(S, base, Original(S, base, c)) = c
    BY DEF Copies, Original
  <1>2. \A i \in S : CopyId(S, base, i) \in Copies(S, base)
    BY DEF Copies
  <1>3. \A i \in S : Original(S, base, CopyId(S, base, i)) = i
    BY <1>1, <1>2, CopyIds
  <1>4. Copies(S, base) \subseteq Nat /\ \A c \in Copies(S, base) : base <= c
    BY CopyIds DEF Copies
  <1> QED BY <1>1, <1>2, <1>3, <1>4

\* An id above every id in use is not in use, nor is one above it.
LEMMA AvailableFresh ==
    ASSUME NEW base, IsAvailable(base), DOMAIN nodes \subseteq NodeIds
    PROVE  base \in NodeIds /\ base \in Nat /\ \A c \in Nat : base <= c => c \notin DOMAIN nodes
  BY BoundAssumption DEF IsAvailable, NodeIds

-----------------------------------------------------------------------------
(* Any tables: nodes N, graphs G, functions F, variables V, signals Q, wires L. *)

Typed(N, G, F, V, Q, L) ==
    /\ DOMAIN N \subseteq NodeIds /\ N \in [DOMAIN N -> Node]
    /\ DOMAIN G \subseteq Names /\ G \in [DOMAIN G -> Graph]
    /\ DOMAIN F \subseteq Names /\ F \in [DOMAIN F -> Function]
    /\ V \subseteq Names /\ Q \subseteq Names
    /\ L \subseteq NodeIds \X NodeIds

Owned(N, F) ==
    \A n \in DOMAIN F :
        /\ F[n].owner \in DOMAIN N /\ IsEntry(N[F[n].owner].kind)
        /\ N[F[n].owner].ref = F[n].guid
        /\ \A k \in DOMAIN F : F[k].owner = F[n].owner => k = n

Declared(x, V, Q) == (x.kind = "variable" => x.ref \in V) /\ (x.kind = "emit" => x.ref \in Q)
Uses(N, V, Q) == \A i \in DOMAIN N : Declared(N[i], V, Q)

Fine(N, G, F, V, Q, L) == Typed(N, G, F, V, Q, L) /\ Owned(N, F) /\ Uses(N, V, Q)

\* Each node has one graph,
Apart(N, G) ==
    /\ \A m \in DOMAIN G : G[m].nodes \subseteq DOMAIN N
    /\ \A i \in DOMAIN N : \E m \in DOMAIN G : i \in G[m].nodes
    /\ \A m, k \in DOMAIN G : \A i \in G[m].nodes : i \in G[k].nodes => m = k

\* each wire too,
Inside(G, L) == \A l \in L : \E m \in DOMAIN G : l[1] \in G[m].nodes /\ l[2] \in G[m].nodes

\* each function with an entry has a graph,
Homes(N, G, F) ==
    \A n \in DOMAIN F : N[F[n].owner].kind = "entry" =>
        n \in DOMAIN G /\ G[n].kind = "function" /\ F[n].owner \in G[n].nodes

\* and each graph knows its entries, which are in function graphs only.
Known(N, G) ==
    \A m \in DOMAIN G :
        /\ G[m].funs = {i \in G[m].nodes : IsEntry(N[i].kind)}
        /\ G[m].kind = "event" => \A i \in G[m].nodes : N[i].kind # "entry"

InPlace(N, G, F, L) == Apart(N, G) /\ Inside(G, L) /\ Homes(N, G, F) /\ Known(N, G)

-----------------------------------------------------------------------------
(* The nodes S are removed, and the graphs own with them.                    *)

Shrunk(N, G, F, L, S, own, N1, G1, F1, L1) ==
    /\ N1 = Without(N, S)
    /\ G1 = [m \in DOMAIN G \ own |-> WithoutNodes(G[m], S)]
    /\ \A m \in own \cap DOMAIN G : G[m].nodes \subseteq S
    /\ DOMAIN F1 \subseteq {n \in DOMAIN F : F[n].owner \notin S} /\ F1 = [n \in DOMAIN F1 |-> F[n]]
    /\ L1 \subseteq {l \in L : l[1] \notin S /\ l[2] \notin S}

LEMMA ShrunkFine ==
    ASSUME NEW N, NEW G, NEW F, NEW V, NEW Q, NEW L, Fine(N, G, F, V, Q, L),
           NEW S, NEW own, NEW N1, NEW G1, NEW F1, NEW L1, Shrunk(N, G, F, L, S, own, N1, G1, F1, L1),
           NEW V1 \in SUBSET Names, NEW Q1 \in SUBSET Names, Uses(N1, V1, Q1)
    PROVE  Fine(N1, G1, F1, V1, Q1, L1)
  <1> USE DEF Shrunk
  <1>1. DOMAIN N1 = DOMAIN N \ S /\ \A i \in DOMAIN N1 : N1[i] = N[i]
    BY DEF Without
  <1>2. DOMAIN N1 \subseteq NodeIds /\ N1 \in [DOMAIN N1 -> Node]
    BY DEF Without, Fine, Typed
  <1>3. DOMAIN G1 \subseteq Names /\ G1 \in [DOMAIN G1 -> Graph]
    <2>1. \A m \in DOMAIN G : G[m] \in Graph
      BY DEF Fine, Typed
    <2>2. \A m \in DOMAIN G : WithoutNodes(G[m], S) \in Graph
      BY <2>1 DEF WithoutNodes, Graph
    <2> QED BY <2>2 DEF Fine, Typed
  <1>4. DOMAIN F1 \subseteq Names /\ F1 \in [DOMAIN F1 -> Function]
    BY DEF Fine, Typed
  <1>5. Owned(N1, F1)
    BY <1>1 DEF Fine, Owned
  <1> QED BY <1>2, <1>3, <1>4, <1>5 DEF Fine, Typed

LEMMA ShrunkInPlace ==
    ASSUME NEW N, NEW G, NEW F, NEW V, NEW Q, NEW L, Fine(N, G, F, V, Q, L), InPlace(N, G, F, L),
           NEW S, NEW own, NEW N1, NEW G1, NEW F1, NEW L1, Shrunk(N, G, F, L, S, own, N1, G1, F1, L1)
    PROVE  InPlace(N1, G1, F1, L1)
  <1> USE DEF Shrunk
  <1>1. DOMAIN N1 = DOMAIN N \ S /\ \A i \in DOMAIN N1 : N1[i] = N[i]
    BY DEF Without
  <1>2. /\ DOMAIN G1 = DOMAIN G \ own
        /\ \A m \in DOMAIN G1 : /\ G1[m].nodes = G[m].nodes \ S /\ G1[m].funs = G[m].funs \ S
                                /\ G1[m].kind = G[m].kind
    <2>1. \A m \in DOMAIN G : G[m] \in Graph
      BY DEF Fine, Typed
    <2> QED BY <2>1 DEF WithoutNodes, Graph
  <1>3. \A m \in DOMAIN G : \A i \in G[m].nodes \ S : m \in DOMAIN G1
    BY <1>2
  <1>4. Apart(N1, G1)
    BY <1>1, <1>2, <1>3 DEF InPlace, Apart
  <1>5. Inside(G1, L1)
    <2> SUFFICES ASSUME NEW l \in L1 PROVE \E m \in DOMAIN G1 : l[1] \in G1[m].nodes /\ l[2] \in G1[m].nodes
      BY DEF Inside
    <2>1. PICK m \in DOMAIN G : l[1] \in G[m].nodes \ S /\ l[2] \in G[m].nodes \ S
      BY DEF InPlace, Inside
    <2> QED BY <1>2, <1>3, <2>1
  <1>6. Homes(N1, G1, F1)
    <2> SUFFICES ASSUME NEW n \in DOMAIN F1, N1[F1[n].owner].kind = "entry"
                 PROVE  n \in DOMAIN G1 /\ G1[n].kind = "function" /\ F1[n].owner \in G1[n].nodes
      BY DEF Homes
    <2>1. F1[n] = F[n] /\ n \in DOMAIN F /\ F[n].owner \in DOMAIN N /\ F[n].owner \notin S
      BY DEF Fine, Owned
    <2>2. n \in DOMAIN G /\ G[n].kind = "function" /\ F[n].owner \in G[n].nodes \ S
      BY <1>1, <2>1 DEF InPlace, Homes
    <2> QED BY <1>2, <1>3, <2>1, <2>2
  <1>7. Known(N1, G1)
    <2> SUFFICES ASSUME NEW m \in DOMAIN G1
                 PROVE  /\ G1[m].funs = {i \in G1[m].nodes : IsEntry(N1[i].kind)}
                        /\ G1[m].kind = "event" => \A i \in G1[m].nodes : N1[i].kind # "entry"
      BY DEF Known
    <2>1. \A i \in G1[m].nodes : N1[i] = N[i] /\ i \in G[m].nodes
      BY <1>1, <1>2 DEF InPlace, Apart
    <2> QED BY <1>2, <2>1 DEF InPlace, Known
  <1> QED BY <1>4, <1>5, <1>6, <1>7 DEF InPlace

-----------------------------------------------------------------------------
(* The nodes P are added to a graph m that is there, or to a new function    *)
(* graph, and perhaps a function n that one of them owns.                    *)

GraphOr(G, m) == IF m \in DOMAIN G THEN G[m] ELSE [kind |-> "function", nodes |-> {}, funs |-> {}]

NodesGrown(N, P, N1) ==
    /\ P \subseteq NodeIds /\ P \cap DOMAIN N = {}
    /\ DOMAIN N1 = DOMAIN N \cup P /\ N1 \in [DOMAIN N1 -> Node]
    /\ \A i \in DOMAIN N : N1[i] = N[i]

GraphGrown(G, P, N1, m, G1) ==
    /\ m \in Names /\ DOMAIN G1 = DOMAIN G \cup {m} /\ G1 = [k \in DOMAIN G1 |-> G1[k]]
    /\ \A k \in DOMAIN G \ {m} : G1[k] = G[k]
    /\ G1[m] \in Graph /\ G1[m].kind = GraphOr(G, m).kind
    /\ G1[m].nodes = GraphOr(G, m).nodes \cup P
    /\ G1[m].funs = GraphOr(G, m).funs \cup {i \in P : Registers(GraphOr(G, m), N1[i].kind)}

FunctionGrown(N, F, P, N1, m, kind, F1) ==
    \/ F1 = F
    \/ \E n \in Names \ DOMAIN F, g \in Guids, e \in P, u \in BOOLEAN :
          /\ F1 = With(F, n, [guid |-> g, owner |-> e, user |-> u])
          /\ IsEntry(N1[e].kind) /\ N1[e].ref = g
          /\ N1[e].kind = "entry" => n = m /\ kind = "function"

Grown(N, G, F, P, m, N1, G1, F1) ==
    /\ NodesGrown(N, P, N1) /\ GraphGrown(G, P, N1, m, G1)
    /\ FunctionGrown(N, F, P, N1, m, GraphOr(G, m).kind, F1)
    /\ GraphOr(G, m).kind = "event" => \A i \in P : N1[i].kind # "entry"

\* A graph that is given nodes is a graph.
Given(h, g, P, K) ==
    /\ h \in Graph /\ h.kind = g.kind /\ h.nodes = g.nodes \cup P
    /\ \A i : i \in h.funs <=> i \in g.funs \/ (i \in P /\ Registers(g, K[i].kind))

LEMMA WithNodesGiven ==
    ASSUME NEW g \in Graph, NEW P \in SUBSET NodeIds, NEW K
    PROVE  Given(WithNodes(g, P, K), g, P, K)
  <1> DEFINE R == {i \in P : Registers(g, K[i].kind)}
  <1>1. R \subseteq NodeIds
    OBVIOUS
  <1>2. WithNodes(g, P, K) = [g EXCEPT !.nodes = @ \cup P, !.funs = @ \cup R]
    BY DEF WithNodes
  <1> HIDE DEF R
  <1>3. /\ WithNodes(g, P, K) \in Graph /\ WithNodes(g, P, K).kind = g.kind
        /\ WithNodes(g, P, K).nodes = g.nodes \cup P /\ WithNodes(g, P, K).funs = g.funs \cup R
    BY <1>1, <1>2 DEF Graph
  <1> QED BY <1>3 DEF R, Given

LEMMA GrownFine ==
    ASSUME NEW N, NEW G, NEW F, NEW V, NEW Q, NEW L, Fine(N, G, F, V, Q, L),
           NEW P, NEW m, NEW N1, NEW G1, NEW F1, Grown(N, G, F, P, m, N1, G1, F1),
           NEW L1 \in SUBSET (NodeIds \X NodeIds), \A i \in P : Declared(N1[i], V, Q)
    PROVE  Fine(N1, G1, F1, V, Q, L1)
  <1> USE DEF Grown
  <1>1. DOMAIN N1 \subseteq NodeIds /\ N1 \in [DOMAIN N1 -> Node]
    BY DEF NodesGrown, Fine, Typed
  <1>2. DOMAIN G1 \subseteq Names /\ G1 \in [DOMAIN G1 -> Graph]
    <2>1. \A k \in DOMAIN G1 : G1[k] \in Graph
      BY DEF GraphGrown, Fine, Typed
    <2> QED BY <2>1 DEF GraphGrown, Fine, Typed
  <1>3. Uses(N1, V, Q)
    BY DEF Uses, NodesGrown, Fine
  <1>4. DOMAIN F1 \subseteq Names /\ F1 \in [DOMAIN F1 -> Function] /\ Owned(N1, F1)
    <2>1. CASE F1 = F
      BY <2>1 DEF Fine, Typed, Owned, NodesGrown
    <2>2. CASE F1 # F
      <3>1. PICK n \in Names \ DOMAIN F, g \in Guids, e \in P, u \in BOOLEAN :
                /\ F1 = With(F, n, [guid |-> g, owner |-> e, user |-> u])
                /\ IsEntry(N1[e].kind) /\ N1[e].ref = g
        BY <2>2 DEF FunctionGrown
      <3>2. [guid |-> g, owner |-> e, user |-> u] \in Function
        BY DEF Function, NodesGrown
      <3>3. DOMAIN F1 = DOMAIN F \cup {n} /\ F1[n] = [guid |-> g, owner |-> e, user |-> u]
             /\ \A k \in DOMAIN F : F1[k] = F[k]
        BY <3>1 DEF With
      <3>4. DOMAIN F1 \subseteq Names /\ F1 \in [DOMAIN F1 -> Function]
        BY <3>1, <3>2, <3>3 DEF Fine, Typed, With
      <3>5. F1[n].owner = e /\ F1[n].guid = g /\ e \in DOMAIN N1 /\ e \notin DOMAIN N
        BY <3>3 DEF NodesGrown
      <3>6. \A k \in DOMAIN F : /\ F1[k].owner \in DOMAIN N /\ N1[F1[k].owner] = N[F[k].owner]
                                 /\ F1[k] = F[k]
        BY <3>3 DEF Fine, Owned, NodesGrown
      <3>7. Owned(N1, F1)
        BY <3>1, <3>3, <3>5, <3>6 DEF Owned, Fine, NodesGrown
      <3> QED BY <3>4, <3>7
    <2> QED BY <2>1, <2>2
  <1> QED BY <1>1, <1>2, <1>3, <1>4 DEF Fine, Typed

LEMMA GrownInPlace ==
    ASSUME NEW N, NEW G, NEW F, NEW V, NEW Q, NEW L, Fine(N, G, F, V, Q, L), InPlace(N, G, F, L),
           NEW P, NEW m, NEW N1, NEW G1, NEW F1, Grown(N, G, F, P, m, N1, G1, F1),
           NEW L1, \A l \in L1 : l \in L \/ (l[1] \in G1[m].nodes /\ l[2] \in G1[m].nodes)
    PROVE  InPlace(N1, G1, F1, L1)
  <1> USE DEF Grown
  <1> DEFINE g0 == GraphOr(G, m)
  <1>0. /\ g0 \in Graph /\ g0.kind \in {"event", "function"} /\ g0.nodes \subseteq DOMAIN N
        /\ g0.funs = {i \in g0.nodes : IsEntry(N[i].kind)}
        /\ m \in DOMAIN G => g0 = G[m]
        /\ m \notin DOMAIN G => g0.nodes = {}
        /\ g0.kind = "event" => \A i \in g0.nodes : N[i].kind # "entry"
    <2>1. CASE m \in DOMAIN G
      BY <2>1 DEF GraphOr, Fine, Typed, Graph, InPlace, Apart, Known
    <2>2. CASE m \notin DOMAIN G
      BY <2>2 DEF GraphOr, Graph
    <2> QED BY <2>1, <2>2
  <1>1. /\ DOMAIN G1 = DOMAIN G \cup {m} /\ \A k \in DOMAIN G \ {m} : G1[k] = G[k]
        /\ G1[m].kind = g0.kind /\ G1[m].nodes = g0.nodes \cup P
        /\ G1[m].funs = g0.funs \cup {i \in P : Registers(g0, N1[i].kind)}
    BY DEF GraphGrown
  <1>2. /\ P \cap DOMAIN N = {} /\ DOMAIN N1 = DOMAIN N \cup P /\ \A i \in DOMAIN N : N1[i] = N[i]
    BY DEF NodesGrown
  <1>3. \A k \in DOMAIN G : k \in DOMAIN G1 /\ G[k].nodes \subseteq G1[k].nodes /\ G1[k].kind = G[k].kind
    BY <1>0, <1>1
  <1> HIDE DEF g0
  <1>4. Apart(N1, G1)
    <2>1. \A k \in DOMAIN G1 : G1[k].nodes \subseteq DOMAIN N1
      BY <1>0, <1>1, <1>2 DEF InPlace, Apart
    <2>2. ASSUME NEW i \in DOMAIN N1 PROVE \E k \in DOMAIN G1 : i \in G1[k].nodes
      <3>1. CASE i \in P
        BY <1>1, <3>1
      <3>2. CASE i \in DOMAIN N
        BY <1>3, <3>2 DEF InPlace, Apart
      <3> QED BY <1>2, <3>1, <3>2
    <2>3. ASSUME NEW k \in DOMAIN G1, NEW h \in DOMAIN G1, NEW i \in G1[k].nodes, i \in G1[h].nodes PROVE k = h
      <3>1. \A x \in DOMAIN G \ {m} : \A j \in G1[x].nodes : j \in DOMAIN N /\ j \in G[x].nodes
        BY <1>1 DEF InPlace, Apart
      <3>2. CASE i \in P
        BY <1>1, <1>2, <2>3, <3>1, <3>2
      <3>3. CASE i \notin P
        BY <1>0, <1>1, <2>3, <3>3 DEF InPlace, Apart
      <3> QED BY <3>2, <3>3
    <2> QED BY <2>1, <2>2, <2>3 DEF Apart
  <1>5. Inside(G1, L1)
    BY <1>1, <1>3 DEF InPlace, Inside
  <1>6. Homes(N1, G1, F1)
    <2> SUFFICES ASSUME NEW x \in DOMAIN F1, N1[F1[x].owner].kind = "entry"
                 PROVE  x \in DOMAIN G1 /\ G1[x].kind = "function" /\ F1[x].owner \in G1[x].nodes
      BY DEF Homes
    <2>1. ASSUME x \in DOMAIN F, F1[x] = F[x]
          PROVE  x \in DOMAIN G1 /\ G1[x].kind = "function" /\ F1[x].owner \in G1[x].nodes
      <3>1. F[x].owner \in DOMAIN N /\ N[F[x].owner].kind = "entry"
        BY <1>2, <2>1 DEF Fine, Owned
      <3> QED BY <1>3, <2>1, <3>1 DEF InPlace, Homes
    <2>2. CASE F1 = F
      BY <2>1, <2>2
    <2>3. CASE F1 # F
      <3>1. PICK n \in Names \ DOMAIN F, g \in Guids, e \in P, u \in BOOLEAN :
                /\ F1 = With(F, n, [guid |-> g, owner |-> e, user |-> u])
                /\ N1[e].kind = "entry" => n = m /\ g0.kind = "function"
        BY <2>3 DEF FunctionGrown, g0
      <3>2. F1[n].owner = e /\ DOMAIN F1 = DOMAIN F \cup {n} /\ \A k \in DOMAIN F : F1[k] = F[k]
        BY <3>1 DEF With
      <3>3. CASE x = n
        BY <1>1, <3>1, <3>2, <3>3
      <3>4. CASE x # n
        BY <2>1, <3>2, <3>4
      <3> QED BY <3>3, <3>4
    <2> QED BY <2>2, <2>3
  <1>7. Known(N1, G1)
    <2>1. ASSUME NEW k \in DOMAIN G \ {m}
          PROVE  /\ G1[k].funs = {i \in G1[k].nodes : IsEntry(N1[i].kind)}
                 /\ G1[k].kind = "event" => \A i \in G1[k].nodes : N1[i].kind # "entry"
      <3>1. \A i \in G[k].nodes : N1[i] = N[i]
        BY <1>2 DEF InPlace, Apart
      <3> QED BY <1>1, <3>1 DEF InPlace, Known
    <2>2. \A i \in P : Registers(g0, N1[i].kind) <=> IsEntry(N1[i].kind)
      BY <1>0 DEF Registers, IsEntry, g0
    <2>3. /\ G1[m].funs = {i \in G1[m].nodes : IsEntry(N1[i].kind)}
          /\ G1[m].kind = "event" => \A i \in G1[m].nodes : N1[i].kind # "entry"
      <3>1. \A i \in g0.nodes : N1[i] = N[i]
        BY <1>0, <1>2
      <3>2. g0.kind = "event" => \A i \in P : N1[i].kind # "entry"
        BY DEF g0
      <3> QED BY <1>0, <1>1, <2>2, <3>1, <3>2
    <2> QED BY <1>1, <2>1, <2>3 DEF Known
  <1> QED BY <1>4, <1>5, <1>6, <1>7 DEF InPlace

-----------------------------------------------------------------------------
(* The nodes S move from the graph m to the function graph n.                *)

GraphsMoved(N, G, S, m, n, G1) ==
    /\ m \in DOMAIN G /\ n \in DOMAIN G /\ m # n /\ G[n].kind = "function"
    /\ S \subseteq G[m].nodes
    /\ DOMAIN G1 = DOMAIN G /\ G1 \in [DOMAIN G1 -> Graph]
    /\ \A k \in DOMAIN G \ {m, n} : G1[k] = G[k]
    /\ G1[m].kind = G[m].kind /\ G1[m].nodes = G[m].nodes \ S /\ G1[m].funs = G[m].funs \ S
    /\ G1[n].kind = G[n].kind /\ G1[n].nodes = G[n].nodes \cup S
    /\ G1[n].funs = G[n].funs \cup {i \in S : IsEntry(N[i].kind)}

LinksMoved(L, S, m, n, G1, L1) ==
    \A l \in L1 : \/ l \in L /\ (l[1] \in S <=> l[2] \in S)
                  \/ l[1] \in G1[m].nodes /\ l[2] \in G1[m].nodes
                  \/ l[1] \in G1[n].nodes /\ l[2] \in G1[n].nodes

LEMMA MovedFine ==
    ASSUME NEW N, NEW G, NEW F, NEW V, NEW Q, NEW L, Fine(N, G, F, V, Q, L),
           NEW S, NEW m, NEW n, NEW G1, GraphsMoved(N, G, S, m, n, G1),
           NEW L1 \in SUBSET (NodeIds \X NodeIds)
    PROVE  Fine(N, G1, F, V, Q, L1)
  BY DEF Fine, Typed, GraphsMoved

LEMMA MovedInPlace ==
    ASSUME NEW N, NEW G, NEW F, NEW V, NEW Q, NEW L, Fine(N, G, F, V, Q, L), InPlace(N, G, F, L),
           NEW S, NEW m, NEW n, NEW G1, GraphsMoved(N, G, S, m, n, G1),
           \A i \in S : N[i].kind # "entry",
           NEW L1, LinksMoved(L, S, m, n, G1, L1)
    PROVE  InPlace(N, G1, F, L1)
  <1>0. /\ m \in DOMAIN G /\ n \in DOMAIN G /\ m # n /\ S \subseteq G[m].nodes /\ DOMAIN G1 = DOMAIN G
        /\ \A k \in DOMAIN G \ {m, n} : G1[k] = G[k]
        /\ \A k \in DOMAIN G : G1[k].kind = G[k].kind
        /\ G1[m].nodes = G[m].nodes \ S /\ G1[n].nodes = G[n].nodes \cup S
        /\ \A k \in DOMAIN G \ {n} : G1[k].nodes = G[k].nodes \ S
    <2>1. \A k \in DOMAIN G \ {m, n} : G[k].nodes \cap S = {}
      BY DEF GraphsMoved, InPlace, Apart
    <2> QED BY <2>1 DEF GraphsMoved
  <1>1. Apart(N, G1)
    <2>1. \A k \in DOMAIN G1 : G1[k].nodes \subseteq DOMAIN N
      BY <1>0 DEF InPlace, Apart
    <2>2. \A i \in DOMAIN N : \E k \in DOMAIN G1 : i \in G1[k].nodes
      BY <1>0 DEF InPlace, Apart
    <2>3. \A k, h \in DOMAIN G1 : \A i \in G1[k].nodes : i \in G1[h].nodes => k = h
      BY <1>0 DEF InPlace, Apart
    <2> QED BY <2>1, <2>2, <2>3 DEF Apart
  <1>2. Inside(G1, L1)
    <2> SUFFICES ASSUME NEW l \in L1 PROVE \E k \in DOMAIN G1 : l[1] \in G1[k].nodes /\ l[2] \in G1[k].nodes
      BY DEF Inside
    <2> USE DEF LinksMoved
    <2>1. CASE l \in L /\ l[1] \in S /\ l[2] \in S
      BY <1>0, <2>1
    <2>2. CASE l \in L /\ l[1] \notin S /\ l[2] \notin S
      <3>1. PICK k \in DOMAIN G : l[1] \in G[k].nodes /\ l[2] \in G[k].nodes
        BY <2>2 DEF InPlace, Inside
      <3>2. l[1] \in G1[k].nodes /\ l[2] \in G1[k].nodes
        BY <1>0, <2>2, <3>1
      <3> QED BY <1>0, <3>2
    <2> QED BY <1>0, <2>1, <2>2
  <1>3. Homes(N, G1, F)
    <2> SUFFICES ASSUME NEW x \in DOMAIN F, N[F[x].owner].kind = "entry"
                 PROVE  x \in DOMAIN G1 /\ G1[x].kind = "function" /\ F[x].owner \in G1[x].nodes
      BY DEF Homes
    <2>1. x \in DOMAIN G /\ G[x].kind = "function" /\ F[x].owner \in G[x].nodes /\ F[x].owner \notin S
      BY DEF InPlace, Homes
    <2> QED BY <1>0, <2>1
  <1>4. Known(N, G1)
    BY <1>0 DEF InPlace, Known, GraphsMoved
  <1> QED BY <1>1, <1>2, <1>3, <1>4 DEF InPlace

-----------------------------------------------------------------------------
(* The edits, one by one.                                                    *)

Well == Fine(nodes, graphs, functions, variables, signals, links)
Tidy == InPlace(nodes, graphs, functions, links)
SavedWell == Fine(disk.nodes, disk.graphs, disk.functions, disk.variables, disk.signals, disk.links)

\* Graphs hold nodes that are there.
Sound == \A m \in DOMAIN graphs : graphs[m].nodes \subseteq DOMAIN nodes

Keeps == Well' /\ (Tidy => Tidy')

\* What an edit finds.
LEMMA WellFacts ==
    ASSUME Well
    PROVE  /\ DOMAIN nodes \subseteq NodeIds /\ nodes \in [DOMAIN nodes -> Node]
           /\ \A i \in DOMAIN nodes : nodes[i] \in Node
           /\ DOMAIN graphs \subseteq Names /\ graphs \in [DOMAIN graphs -> Graph]
           /\ \A m \in DOMAIN graphs : /\ graphs[m] \in Graph /\ graphs[m].nodes \subseteq NodeIds
                                       /\ graphs[m].funs \subseteq NodeIds
           /\ DOMAIN functions \subseteq Names /\ functions \in [DOMAIN functions -> Function]
           /\ \A n \in DOMAIN functions : functions[n] \in Function /\ functions[n].guid \in Guids
           /\ variables \subseteq Names /\ signals \subseteq Names /\ links \subseteq NodeIds \X NodeIds
           /\ Owned(nodes, functions) /\ Uses(nodes, variables, signals)
  BY DEF Well, Fine, Typed, Graph, Function

\* Nodes are taken away.
RemovedNow(S, own) == Shrunk(nodes, graphs, functions, links, S, own, nodes', graphs', functions', links')

LEMMA Removal ==
    ASSUME Well, NEW S, NEW own, RemovedNow(S, own),
           variables' \subseteq variables, signals' \subseteq signals,
           \A i \in DOMAIN nodes \ S : Declared(nodes[i], variables', signals')
    PROVE  Keeps
  <1>1. Uses(nodes', variables', signals')
    BY DEF Uses, Without, RemovedNow, Shrunk
  <1>2. variables' \in SUBSET Names /\ signals' \in SUBSET Names
    BY WellFacts
  <1>3. Well'
    BY <1>1, <1>2, ShrunkFine DEF Well, RemovedNow
  <1>4. ASSUME Tidy PROVE Tidy'
    BY <1>4, ShrunkInPlace DEF Well, Tidy, RemovedNow
  <1> QED BY <1>3, <1>4 DEF Keeps

LEMMA RemoveGraphKeeps == ASSUME Well, NEW n \in Names, RemoveGraph(n) PROVE Keeps
  <1>1. RemovedNow(graphs[n].nodes, {n})
    BY DEF RemoveGraph, RemoveNodes, FunctionsWithout, LinksWithout, RemovedNow, Shrunk
  <1>2. variables' = variables /\ signals' = signals
    BY DEF RemoveGraph
  <1>3. \A i \in DOMAIN nodes \ graphs[n].nodes : Declared(nodes[i], variables', signals')
    BY <1>2, WellFacts DEF Uses
  <1> QED BY <1>1, <1>2, <1>3, Removal

LEMMA RemoveFunctionKeeps == ASSUME Well, NEW n \in Names, RemoveFunction(n) PROVE Keeps
  <1> DEFINE own == IF n \in DOMAIN graphs /\ graphs[n].kind = "function" THEN {n} ELSE {}
  <1>1. PICK dead \in SUBSET DeadCalls :
          LET gone == (UNION {graphs[m].nodes : m \in own}) \cup CallsOf(n) \cup dead \cup {functions[n].owner}
          IN  /\ nodes' = Without(nodes, gone)
              /\ functions' = Without(FunctionsWithout(gone), {n})
              /\ links' = LinksWithout(gone)
              /\ graphs' = [m \in DOMAIN graphs \ own |-> WithoutNodes(graphs[m], gone)]
    BY DEF RemoveFunction
  <1> DEFINE S == (UNION {graphs[m].nodes : m \in own}) \cup CallsOf(n) \cup dead \cup {functions[n].owner}
  <1>2. /\ nodes' = Without(nodes, S) /\ links' = LinksWithout(S)
        /\ functions' = Without(FunctionsWithout(S), {n})
        /\ graphs' = [m \in DOMAIN graphs \ own |-> WithoutNodes(graphs[m], S)]
    BY <1>1
  <1>3. \A m \in own \cap DOMAIN graphs : graphs[m].nodes \subseteq S
    OBVIOUS
  <1> HIDE DEF S, own
  <1>4. variables' = variables /\ signals' = signals
    BY DEF RemoveFunction
  <1>5. RemovedNow(S, own)
    BY <1>2, <1>3 DEF FunctionsWithout, Without, LinksWithout, RemovedNow, Shrunk
  <1>6. \A i \in DOMAIN nodes \ S : Declared(nodes[i], variables', signals')
    BY <1>4, WellFacts DEF Uses
  <1> QED BY <1>4, <1>5, <1>6, Removal

\* The nodes of a variable or a signal, or one node.
LEMMA UsesRemoval ==
    ASSUME Well, NEW S, RemoveUses(S), variables' \subseteq variables, signals' \subseteq signals,
           \A i \in DOMAIN nodes \ S : Declared(nodes[i], variables', signals')
    PROVE  Keeps
  <1>1. RemovedNow(S, {})
    BY DEF RemoveUses, RemoveNodes, FunctionsWithout, LinksWithout, RemovedNow, Shrunk
  <1> QED BY <1>1, Removal

LEMMA RemoveVariableKeeps == ASSUME Well, NEW n \in Names, RemoveVariable(n) PROVE Keeps
  <1>1. \A i \in DOMAIN nodes \ NodesOf("variable", n) : Declared(nodes[i], variables', signals')
    BY WellFacts DEF RemoveVariable, NodesOf, Uses, Declared
  <1> QED BY <1>1, UsesRemoval DEF RemoveVariable

LEMMA RemoveSignalKeeps == ASSUME Well, NEW n \in Names, RemoveSignal(n) PROVE Keeps
  <1>1. \A i \in DOMAIN nodes \ NodesOf("emit", n) : Declared(nodes[i], variables', signals')
    BY WellFacts DEF RemoveSignal, NodesOf, Uses, Declared
  <1> QED BY <1>1, UsesRemoval DEF RemoveSignal

LEMMA RemoveNodeKeeps == ASSUME Well, NEW i \in NodeIds, RemoveNode(i) PROVE Keeps
  <1>1. \A j \in DOMAIN nodes \ {i} : Declared(nodes[j], variables', signals')
    BY WellFacts DEF RemoveNode, Uses
  <1>2. RemoveUses({i}) /\ variables' = variables /\ signals' = signals
    BY DEF RemoveNode, RemoveUses
  <1> QED BY <1>1, <1>2, UsesRemoval

-----------------------------------------------------------------------------
(* Edits that add nodes.                                                     *)

AddedNow(P, m) == Grown(nodes, graphs, functions, P, m, nodes', graphs', functions')

LEMMA Addition ==
    ASSUME Well, NEW P, NEW m, AddedNow(P, m), variables' = variables, signals' = signals,
           \A i \in P : Declared(nodes'[i], variables, signals),
           links' \subseteq NodeIds \X NodeIds,
           Tidy => \A l \in links' : l \in links \/ (l[1] \in graphs'[m].nodes /\ l[2] \in graphs'[m].nodes)
    PROVE  Keeps
  <1>1. links' \in SUBSET (NodeIds \X NodeIds)
    OBVIOUS
  <1>2. Fine(nodes', graphs', functions', variables, signals, links')
    BY <1>1, GrownFine DEF Well, AddedNow
  <1>3. ASSUME Tidy PROVE InPlace(nodes', graphs', functions', links')
    BY <1>3, GrownInPlace DEF Well, Tidy, AddedNow
  <1> QED BY <1>2, <1>3 DEF Keeps, Well, Tidy

\* The graph m is given the nodes P, of the kinds K.
LEMMA AnyGraphGrows ==
    ASSUME NEW G, G \in [DOMAIN G -> Graph], NEW P \in SUBSET NodeIds, NEW m \in Names,
           NEW K, NEW N1, \A i \in P : K[i].kind = N1[i].kind,
           NEW G1, \/ m \in DOMAIN G /\ G1 = [G EXCEPT ![m] = WithNodes(@, P, K)]
                   \/ G1 = With(G, m, WithNodes(GraphOr(G, m), P, K))
    PROVE  GraphGrown(G, P, N1, m, G1)
  <1>1. GraphOr(G, m) \in Graph
    BY DEF GraphOr, Graph
  <1> DEFINE h == WithNodes(GraphOr(G, m), P, K)
  <1>2. /\ h \in Graph /\ h.kind = GraphOr(G, m).kind
        /\ h.nodes = GraphOr(G, m).nodes \cup P
        /\ \A i : i \in h.funs <=>
              i \in GraphOr(G, m).funs \/ (i \in P /\ Registers(GraphOr(G, m), K[i].kind))
    <2>1. Given(h, GraphOr(G, m), P, K)
      BY <1>1, WithNodesGiven
    <2> HIDE DEF h
    <2> QED BY <2>1 DEF Given
  <1>3. h.funs = GraphOr(G, m).funs \cup {i \in P : Registers(GraphOr(G, m), N1[i].kind)}
    <2> HIDE DEF h
    <2> QED BY <1>2
  <1>4. ASSUME m \in DOMAIN G PROVE [G EXCEPT ![m] = WithNodes(@, P, K)] = With(G, m, h)
    BY <1>4 DEF With, GraphOr
  <1> HIDE DEF h
  <1>5. G1 = With(G, m, h)
    BY <1>4 DEF h
  <1> QED BY <1>2, <1>3, <1>5 DEF GraphGrown, With

LEMMA GraphGrows ==
    ASSUME Well, NEW P \in SUBSET NodeIds, NEW m \in Names, NEW K, NEW N1, \A i \in P : K[i].kind = N1[i].kind,
           NEW G1, \/ m \in DOMAIN graphs /\ G1 = [graphs EXCEPT ![m] = WithNodes(@, P, K)]
                   \/ G1 = With(graphs, m, WithNodes(GraphOr(graphs, m), P, K))
    PROVE  GraphGrown(graphs, P, N1, m, G1)
  <1>1. graphs \in [DOMAIN graphs -> Graph]
    BY WellFacts
  <1> QED BY <1>1, AnyGraphGrows

LEMMA FunctionGrows ==
    ASSUME NEW P, NEW m, NEW kind, NEW n \in Names, n \notin DOMAIN functions, NEW g \in Guids, NEW e \in P,
           NEW u \in BOOLEAN, NEW N1, NEW F1, F1 = With(functions, n, [guid |-> g, owner |-> e, user |-> u]),
           IsEntry(N1[e].kind), N1[e].ref = g, N1[e].kind = "entry" => n = m /\ kind = "function"
    PROVE  FunctionGrown(nodes, functions, P, N1, m, kind, F1)
  BY DEF FunctionGrown

\* The tables with a new function, its graph and its nodes.
FunctionMade(n, g, user, withResult, e, N1, G1, F1, L1) ==
    /\ n \in Names /\ g \in Guids /\ user \in BOOLEAN /\ e \in NodeIds
    /\ IsAvailable(e) /\ ~NameTaken(n) /\ n \notin DOMAIN graphs
    /\ DOMAIN FunctionNodes(g, e, withResult) \subseteq NodeIds
    /\ N1 = NodesWith(FunctionNodes(g, e, withResult))
    /\ G1 = GraphsWith(n, FunctionNodes(g, e, withResult))
    /\ F1 = With(functions, n, [guid |-> g, owner |-> e, user |-> user])
    /\ L1 = links \/ (withResult /\ L1 = links \cup {<<e, e + 1>>})

TablesKept(g, withResult, e, N1, G1, F1, L1) ==
    /\ Fine(N1, G1, F1, variables, signals, L1)
    /\ Tidy => InPlace(N1, G1, F1, L1)
    /\ DOMAIN N1 = DOMAIN nodes \cup DOMAIN FunctionNodes(g, e, withResult)
    /\ DOMAIN graphs \subseteq DOMAIN G1

LEMMA FunctionTables ==
    ASSUME Well, NEW n, NEW g, NEW user, NEW withResult \in BOOLEAN, NEW e,
           NEW N1, NEW G1, NEW F1, NEW L1, FunctionMade(n, g, user, withResult, e, N1, G1, F1, L1)
    PROVE  TablesKept(g, withResult, e, N1, G1, F1, L1)
  <1> USE DEF FunctionMade
  <1> DEFINE added == FunctionNodes(g, e, withResult)
             P == DOMAIN added
  <1>1. /\ P \subseteq NodeIds /\ e \in P
        /\ withResult => e + 1 \in P
        /\ \A i \in P : i = e \/ i = e + 1
        /\ \A i \in P : /\ added[i] = [kind |-> IF i = e THEN "entry" ELSE "result", ref |-> g]
    BY DEF FunctionNodes
  <1> HIDE DEF added, P
  <1>2. \A i \in P : /\ added[i] \in Node /\ added[i].ref = g /\ added[i].kind \in {"entry", "result"}
                     /\ i = e => added[i].kind = "entry"
    <2> SUFFICES ASSUME NEW i \in P
                 PROVE  /\ added[i] \in Node /\ added[i].ref = g /\ added[i].kind \in {"entry", "result"}
                        /\ i = e => added[i].kind = "entry"
      OBVIOUS
    <2>1. CASE i = e
      <3>1. added[i] = [kind |-> "entry", ref |-> g]
        BY <1>1, <2>1
      <3>2. [kind |-> "entry", ref |-> g] \in Node
        BY NodeMade
      <3> QED BY <2>1, <3>1, <3>2
    <2>2. CASE i # e
      <3>1. added[i] = [kind |-> "result", ref |-> g]
        BY <1>1, <2>2
      <3>2. [kind |-> "result", ref |-> g] \in Node
        BY NodeMade
      <3> QED BY <2>2, <3>1, <3>2
    <2> QED BY <2>1, <2>2
  <1>3. n \notin DOMAIN functions
    BY DEF NameTaken
  <1>4. N1 = [i \in DOMAIN nodes \cup P |-> IF i \in P THEN added[i] ELSE nodes[i]]
    BY DEF NodesWith, added, P
  <1>5. G1 = With(graphs, n, WithNodes([kind |-> "function", nodes |-> {}, funs |-> {}], P, added))
    BY DEF GraphsWith, added, P
  <1>6. P \cap DOMAIN nodes = {}
    <2>1. /\ e \in Nat /\ \A c \in Nat : e <= c => c \notin DOMAIN nodes
      BY AvailableFresh, WellFacts
    <2>2. e + 1 \in Nat /\ e <= e + 1 /\ e <= e
      BY <2>1
    <2> QED BY <1>1, <2>1, <2>2
  <1>7. \A i \in P : N1[i] = added[i]
    BY <1>4
  <1>8. NodesGrown(nodes, P, N1)
    BY <1>1, <1>2, <1>4, <1>6, WellFacts DEF NodesGrown
  <1>9. GraphOr(graphs, n) = [kind |-> "function", nodes |-> {}, funs |-> {}]
    BY DEF GraphOr
  <1>10. GraphGrown(graphs, P, N1, n, G1)
    BY <1>1, <1>5, <1>7, <1>9, GraphGrows
  <1>11. FunctionGrown(nodes, functions, P, N1, n, "function", F1)
    BY <1>1, <1>2, <1>3, <1>7, FunctionGrows DEF IsEntry
  <1>12. Grown(nodes, graphs, functions, P, n, N1, G1, F1)
    BY <1>8, <1>9, <1>10, <1>11 DEF Grown
  <1>13. \A i \in P : Declared(N1[i], variables, signals)
    BY <1>2, <1>7 DEF Declared
  <1>14. L1 \in SUBSET (NodeIds \X NodeIds)
    BY <1>1, WellFacts
  <1>15. P \subseteq G1[n].nodes
    BY <1>10 DEF GraphGrown
  <1>16. \A l \in L1 : l \in links \/ (l[1] \in G1[n].nodes /\ l[2] \in G1[n].nodes)
    BY <1>1, <1>15
  <1>17. Fine(N1, G1, F1, variables, signals, L1)
    BY <1>12, <1>13, <1>14, GrownFine DEF Well
  <1>18. Tidy => InPlace(N1, G1, F1, L1)
    BY <1>12, <1>16, GrownInPlace DEF Well, Tidy
  <1>19. DOMAIN N1 = DOMAIN nodes \cup P /\ DOMAIN graphs \subseteq DOMAIN G1
    BY <1>8, <1>10 DEF NodesGrown, GraphGrown
  <1> QED BY <1>17, <1>18, <1>19 DEF TablesKept, P, added

LEMMA CreateFunctionKeeps ==
    ASSUME Well, NEW n \in Names, NEW g \in Guids, NEW user \in BOOLEAN, NEW withResult \in BOOLEAN,
           NEW linked \in BOOLEAN, CreateFunction(n, g, user, withResult, linked)
    PROVE  Keeps
  <1>1. PICK e \in NodeIds :
          /\ IsAvailable(e)
          /\ DOMAIN FunctionNodes(g, e, withResult) \subseteq NodeIds
          /\ nodes' = NodesWith(FunctionNodes(g, e, withResult))
          /\ graphs' = GraphsWith(n, FunctionNodes(g, e, withResult))
          /\ functions' = With(functions, n, [guid |-> g, owner |-> e, user |-> user])
          /\ links' = IF linked THEN links \cup {<<e, e + 1>>} ELSE links
    BY DEF CreateFunction
  <1>2. /\ ~NameTaken(n) /\ n \notin DOMAIN graphs /\ (linked => withResult)
        /\ variables' = variables /\ signals' = signals
    BY DEF CreateFunction
  <1>3. links' = links \/ (withResult /\ links' = links \cup {<<e, e + 1>>})
    <2>1. CASE linked
      BY <1>1, <1>2, <2>1
    <2>2. CASE ~linked
      BY <1>1, <2>2
    <2> QED BY <2>1, <2>2
  <1>4. /\ Fine(nodes', graphs', functions', variables, signals, links')
        /\ Tidy => InPlace(nodes', graphs', functions', links')
    <2>1. FunctionMade(n, g, user, withResult, e, nodes', graphs', functions', links')
      BY <1>1, <1>2, <1>3 DEF FunctionMade
    <2>2. TablesKept(g, withResult, e, nodes', graphs', functions', links')
      BY <2>1, FunctionTables
    <2> QED BY <2>2 DEF TablesKept
  <1> QED BY <1>2, <1>4 DEF Keeps, Well, Tidy

LEMMA CreateEventKeeps ==
    ASSUME Well, NEW m \in Names, NEW n \in Names, NEW g \in Guids, NEW user \in BOOLEAN,
           CreateEvent(m, n, g, user)
    PROVE  Keeps
  <1>1. PICK e \in NodeIds :
          /\ IsAvailable(e)
          /\ nodes' = With(nodes, e, [kind |-> "event", ref |-> g])
          /\ graphs' = [graphs EXCEPT ![m] = WithNodes(@, {e}, nodes')]
          /\ functions' = With(functions, n, [guid |-> g, owner |-> e, user |-> user])
    BY DEF CreateEvent
  <1>2. /\ m \in DOMAIN graphs /\ n \notin DOMAIN functions
        /\ variables' = variables /\ signals' = signals /\ links' = links
    BY DEF CreateEvent, NameTaken
  <1>3. e \notin DOMAIN nodes
    BY <1>1, AvailableFresh, WellFacts
  <1>4. nodes'[e] = [kind |-> "event", ref |-> g] /\ [kind |-> "event", ref |-> g] \in Node
    BY <1>1, NodeMade DEF With
  <1>5. NodesGrown(nodes, {e}, nodes')
    BY <1>1, <1>3, <1>4, WellFacts DEF NodesGrown, With
  <1>6. GraphGrown(graphs, {e}, nodes', m, graphs')
    BY <1>1, <1>2, GraphGrows
  <1>7. FunctionGrown(nodes, functions, {e}, nodes', m, GraphOr(graphs, m).kind, functions')
    <2>1. /\ e \in {e} /\ nodes'[e].ref = g /\ nodes'[e].kind = "event"
          /\ IsEntry(nodes'[e].kind)
      BY <1>4 DEF IsEntry
    <2> QED BY <1>1, <1>2, <2>1, FunctionGrows
  <1>8. AddedNow({e}, m)
    BY <1>4, <1>5, <1>6, <1>7 DEF AddedNow, Grown
  <1>9. \A i \in {e} : Declared(nodes'[i], variables, signals)
    BY <1>4 DEF Declared
  <1> QED BY <1>2, <1>8, <1>9, WellFacts, Addition

\* There is a first of the nodes that are registered.
LEMMA FirstOf == ASSUME NEW T \in SUBSET Nat, T # {} PROVE \E i \in T : \A j \in T : i <= j
  <1> DEFINE R == OpToRel(<, Nat)
  <1>1. IsWellFoundedOn(R, Nat)
    BY NatLessThanWellFounded
  <1>2. \A x, y \in Nat : x < y => <<x, y>> \in R
    BY DEF OpToRel
  <1> HIDE DEF R
  <1>3. PICK i \in T : \A j \in T : <<j, i>> \notin R
    BY <1>1, WFMin
  <1>4. \A j \in T : ~(j < i)
    BY <1>2, <1>3
  <1>5. \A j \in T : j \in Nat /\ i \in Nat
    OBVIOUS
  <1>6. \A j \in T : i <= j
    BY <1>4, <1>5
  <1> QED BY <1>6

\* Only a result node becomes another as it is placed.
LEMMA PlacedNode ==
    ASSUME Well, NEW m, NEW x \in Node
    PROVE  /\ Placed(m, x) \in Node /\ Placed(m, x).kind = x.kind
           /\ x.kind # "result" => Placed(m, x) = x
  <1>1. CASE x.kind = "result" /\ graphs[m].kind = "function" /\ Registered(m) # {}
    <2> DEFINE first == CHOOSE i \in Registered(m) : \A j \in Registered(m) : i <= j
    <2>1. Registered(m) \in SUBSET Nat
      BY WellFacts, BoundAssumption DEF Registered, NodeIds
    <2>2. first \in Registered(m)
      BY <1>1, <2>1, FirstOf
    <2>3. nodes[first].ref \in Guids \cup {NoRef}
      BY <2>2, NodeFields, WellFacts DEF Registered, Terminators
    <2>4. Placed(m, x) = [x EXCEPT !.ref = nodes[first].ref]
      BY <1>1 DEF Placed
    <2> HIDE DEF first
    <2>5. x = [kind |-> "result", ref |-> x.ref]
      BY <1>1, NodeFields
    <2>6. Placed(m, x) = [kind |-> "result", ref |-> nodes[first].ref]
      BY <2>4, <2>5
    <2>7. [kind |-> "result", ref |-> nodes[first].ref] \in Node
      BY <2>3, NodeMade
    <2>8. [kind |-> "result", ref |-> nodes[first].ref].kind = "result"
      OBVIOUS
    <2> QED BY <1>1, <2>6, <2>7, <2>8
  <1>2. CASE ~(x.kind = "result" /\ graphs[m].kind = "function" /\ Registered(m) # {})
    BY <1>2 DEF Placed
  <1> QED BY <1>1, <1>2

\* A node is placed.
LEMMA PlaceNodeAdds ==
    ASSUME Well, NEW m \in Names, NEW x \in Node, ~IsEntry(x.kind), PlaceNode(m, x)
    PROVE  \E e \in NodeIds : AddedNow({e}, m) /\ nodes'[e] = Placed(m, x)
  <1>1. PICK e \in NodeIds :
          /\ IsAvailable(e)
          /\ nodes' = With(nodes, e, Placed(m, x))
          /\ graphs' = [graphs EXCEPT ![m] = WithNodes(@, {e}, nodes')]
    BY DEF PlaceNode
  <1>2. m \in DOMAIN graphs /\ functions' = functions
    BY DEF PlaceNode
  <1>3. e \notin DOMAIN nodes
    BY <1>1, AvailableFresh, WellFacts
  <1>4. /\ nodes'[e] = Placed(m, x) /\ Placed(m, x) \in Node /\ nodes'[e].kind = x.kind
    BY <1>1, PlacedNode DEF With
  <1>5. NodesGrown(nodes, {e}, nodes')
    BY <1>1, <1>3, <1>4, WellFacts DEF NodesGrown, With
  <1>6. GraphGrown(graphs, {e}, nodes', m, graphs')
    BY <1>1, <1>2, GraphGrows
  <1>7. AddedNow({e}, m)
    BY <1>2, <1>4, <1>5, <1>6 DEF AddedNow, Grown, FunctionGrown, IsEntry
  <1> QED BY <1>4, <1>7

LEMMA PlaceNodeKeeps ==
    ASSUME Well, NEW m \in Names, NEW x \in Node, ~IsEntry(x.kind), PlaceNode(m, x),
           Declared(x, variables, signals), variables' = variables, signals' = signals
    PROVE  Keeps
  <1>1. PICK e \in NodeIds : AddedNow({e}, m) /\ nodes'[e] = Placed(m, x)
    BY PlaceNodeAdds
  <1>2. \A i \in {e} : Declared(nodes'[i], variables, signals)
    BY <1>1, PlacedNode DEF Declared
  <1>3. links' = links
    BY DEF PlaceNode
  <1> QED BY <1>1, <1>2, <1>3, WellFacts, Addition

LEMMA AddNodeKeeps ==
    ASSUME Well, NEW m \in Names, NEW kind \in Kinds, NEW ref, AddNode(m, kind, ref)
    PROVE  Keeps
  <1> DEFINE x == [kind |-> kind, ref |-> ref]
  <1>1. /\ m \in DOMAIN graphs /\ Placeable(m, x) /\ PlaceNode(m, x)
        /\ variables' = variables /\ signals' = signals
    BY DEF AddNode
  <1>2. x \in Node /\ ~IsEntry(x.kind) /\ Declared(x, variables, signals)
    <2>1. CASE kind = "plain" /\ ref = NoRef
      BY <2>1, NodeMade DEF Declared, IsEntry
    <2>2. CASE kind = "variable" /\ ref \in variables
      BY <2>2, NodeMade, WellFacts DEF Declared, IsEntry
    <2>3. CASE kind = "emit" /\ ref \in signals
      BY <2>3, NodeMade, WellFacts DEF Declared, IsEntry
    <2>4. CASE kind = "call" /\ \E k \in DOMAIN functions : functions[k].guid = ref
      BY <2>4, NodeMade, WellFacts DEF Declared, IsEntry
    <2>5. CASE kind = "result" /\ ref = NoRef
      BY <2>5, NodeMade DEF Declared, IsEntry
    <2> QED BY <1>1, <2>1, <2>2, <2>3, <2>4, <2>5 DEF Placeable
  <1> HIDE DEF x
  <1> QED BY <1>1, <1>2, PlaceNodeKeeps

-----------------------------------------------------------------------------
(* Edits that copy nodes.                                                    *)

\* What the copies are when their graph holds only nodes that are there.
LEMMA CopyFacts ==
    ASSUME Well, NEW S \in SUBSET DOMAIN nodes, NEW base \in NodeIds, IsAvailable(base)
    PROVE  /\ Copies(S, base) \cap DOMAIN nodes = {}
           /\ \A c \in Copies(S, base) : /\ Original(S, base, c) \in S
                                         /\ nodes[Original(S, base, c)] \in Node
                                         /\ Declared(nodes[Original(S, base, c)], variables, signals)
           /\ \A i \in S : CopyId(S, base, i) \in Copies(S, base) /\ Original(S, base, CopyId(S, base, i)) = i
  <1>1. S \in SUBSET NodeIds
    BY WellFacts
  <1>2. /\ \A c \in Copies(S, base) : Original(S, base, c) \in S
        /\ \A i \in S : CopyId(S, base, i) \in Copies(S, base) /\ Original(S, base, CopyId(S, base, i)) = i
        /\ Copies(S, base) \subseteq Nat /\ \A c \in Copies(S, base) : base <= c
    BY <1>1, Originals
  <1>3. Copies(S, base) \cap DOMAIN nodes = {}
    BY <1>2, WellFacts, AvailableFresh
  <1> QED BY <1>2, <1>3, WellFacts DEF Uses

\* The wires between copies.
CopiedLinks(S, base) ==
    {<<CopyId(S, base, l[1]), CopyId(S, base, l[2])>> : l \in {k \in links : k[1] \in S /\ k[2] \in S}}

LEMMA CopiedLinksInside ==
    ASSUME NEW S, NEW base, \A i \in S : CopyId(S, base, i) \in Copies(S, base)
    PROVE  \A l \in CopiedLinks(S, base) :
              /\ l[1] \in Copies(S, base) /\ l[2] \in Copies(S, base)
              /\ l \in Copies(S, base) \X Copies(S, base)
  BY DEF CopiedLinks

LEMMA CopyIntoKeeps ==
    ASSUME Well, NEW m \in DOMAIN graphs, NEW S \in SUBSET graphs[m].nodes, Sound,
           \A i \in S : nodes[i].kind # "entry", CopyInto(m, S)
    PROVE  Keeps
  <1>1. PICK base \in NodeIds :
          /\ IsAvailable(base) /\ Copies(S, base) \subseteq NodeIds
          /\ nodes' = [c \in DOMAIN nodes \cup Copies(S, base) |->
                          IF c \in Copies(S, base) THEN Placed(m, nodes[Original(S, base, c)]) ELSE nodes[c]]
          /\ graphs' = [graphs EXCEPT ![m] = WithNodes(@, Copies(S, base), nodes')]
          /\ links' = links \cup CopiedLinks(S, base)
    BY DEF CopyInto, CopiedLinks
  <1> DEFINE P == Copies(S, base)
  <1>2. functions' = functions /\ variables' = variables /\ signals' = signals
    BY DEF CopyInto
  <1>3. S \in SUBSET DOMAIN nodes /\ m \in Names
    BY WellFacts DEF Sound
  <1>4. /\ P \cap DOMAIN nodes = {}
        /\ \A c \in P : /\ Original(S, base, c) \in S /\ nodes[Original(S, base, c)] \in Node
                        /\ Declared(nodes[Original(S, base, c)], variables, signals)
        /\ \A i \in S : CopyId(S, base, i) \in P
    BY <1>1, <1>3, CopyFacts
  <1>5. /\ nodes' = [c \in DOMAIN nodes \cup P |->
                        IF c \in P THEN Placed(m, nodes[Original(S, base, c)]) ELSE nodes[c]]
        /\ graphs' = [graphs EXCEPT ![m] = WithNodes(@, P, nodes')] /\ P \subseteq NodeIds
        /\ links' = links \cup CopiedLinks(S, base)
    BY <1>1
  <1>6. \A l \in CopiedLinks(S, base) : l[1] \in P /\ l[2] \in P /\ l \in P \X P
    BY <1>4, CopiedLinksInside
  <1> HIDE DEF P
  <1>7. \A c \in P : /\ nodes'[c] = Placed(m, nodes[Original(S, base, c)])
                     /\ nodes'[c] \in Node /\ nodes'[c].kind = nodes[Original(S, base, c)].kind
                     /\ nodes'[c].kind # "result" => nodes'[c] = nodes[Original(S, base, c)]
    BY <1>4, <1>5, PlacedNode
  <1>8. NodesGrown(nodes, P, nodes')
    BY <1>4, <1>5, <1>7, WellFacts DEF NodesGrown
  <1>9. GraphGrown(graphs, P, nodes', m, graphs')
    BY <1>3, <1>5, GraphGrows
  <1>10. AddedNow(P, m)
    BY <1>2, <1>4, <1>7, <1>8, <1>9 DEF AddedNow, Grown, FunctionGrown
  <1>11. \A c \in P : Declared(nodes'[c], variables, signals)
    BY <1>4, <1>7 DEF Declared
  <1>12. links' \subseteq NodeIds \X NodeIds
    BY <1>5, <1>6, WellFacts
  <1>13. \A l \in links' : l \in links \/ (l[1] \in graphs'[m].nodes /\ l[2] \in graphs'[m].nodes)
    BY <1>5, <1>6, <1>9 DEF GraphGrown
  <1> QED BY <1>2, <1>10, <1>11, <1>12, <1>13, Addition

\* Copied first, then the call is removed.
LEMMA ExpandCallKeeps ==
    ASSUME Well, NEW m \in DOMAIN graphs, NEW n \in DOMAIN graphs, NEW i \in DOMAIN nodes, Sound, ExpandCall(m, i, n)
    PROVE  Keeps
  <1> DEFINE S == {j \in graphs[n].nodes : ~IsEntry(nodes[j].kind) /\ nodes[j].kind # "result"}
  <1>1. PICK base \in NodeIds :
          /\ IsAvailable(base) /\ Copies(S, base) \subseteq NodeIds
          /\ nodes' = [c \in (DOMAIN nodes \cup Copies(S, base)) \ {i} |->
                          IF c \in Copies(S, base) THEN nodes[Original(S, base, c)] ELSE nodes[c]]
          /\ graphs' = [k \in DOMAIN graphs |->
                WithoutNodes(IF k = m THEN WithNodes(graphs[k], Copies(S, base),
                                        [c \in Copies(S, base) |-> nodes[Original(S, base, c)]])
                             ELSE graphs[k], {i})]
          /\ links' = {l \in links \cup CopiedLinks(S, base) : l[1] # i /\ l[2] # i}
    BY DEF ExpandCall, CopiedLinks
  <1> DEFINE P == Copies(S, base)
             K == [c \in P |-> nodes[Original(S, base, c)]]
             N1 == [c \in DOMAIN nodes \cup P |-> IF c \in P THEN K[c] ELSE nodes[c]]
             G1 == [graphs EXCEPT ![m] = WithNodes(@, P, K)]
             L1 == links \cup CopiedLinks(S, base)
  <1>2. /\ functions' = functions /\ variables' = variables /\ signals' = signals
        /\ nodes[i].kind = "call"
    BY DEF ExpandCall
  <1>3. S \in SUBSET DOMAIN nodes /\ m \in Names /\ \A j \in S : nodes[j].kind # "entry"
    BY WellFacts DEF Sound, IsEntry
  <1>4. /\ P \subseteq NodeIds /\ nodes' = Without(N1, {i})
        /\ graphs' = [k \in DOMAIN G1 \ {} |-> WithoutNodes(G1[k], {i})]
        /\ links' = {l \in L1 : l[1] # i /\ l[2] # i}
    <2>1. nodes' = Without(N1, {i})
      BY <1>1 DEF Without
    <2>2. graphs' = [k \in DOMAIN G1 \ {} |-> WithoutNodes(G1[k], {i})]
      BY <1>1, WellFacts
    <2> QED BY <1>1, <2>1, <2>2
  <1> HIDE DEF S
  <1>5. /\ P \cap DOMAIN nodes = {}
        /\ \A c \in P : K[c] \in Node /\ Declared(K[c], variables, signals) /\ K[c].kind # "entry"
        /\ \A j \in S : CopyId(S, base, j) \in P
    BY <1>1, <1>3, CopyFacts
  <1>6. \A l \in CopiedLinks(S, base) : l[1] \in P /\ l[2] \in P /\ l \in P \X P
    BY <1>5, CopiedLinksInside
  <1> HIDE DEF P, K
  <1>7. NodesGrown(nodes, P, N1) /\ \A c \in P : N1[c] = K[c]
    BY <1>4, <1>5, WellFacts DEF NodesGrown
  <1>8. GraphGrown(graphs, P, N1, m, G1)
    BY <1>3, <1>4, <1>7, GraphGrows
  <1> HIDE DEF N1, G1
  <1>9. Grown(nodes, graphs, functions, P, m, N1, G1, functions)
    BY <1>5, <1>7, <1>8 DEF Grown, FunctionGrown
  <1>10. L1 \in SUBSET (NodeIds \X NodeIds)
    BY <1>4, <1>6, WellFacts
  <1>11. \A l \in L1 : l \in links \/ (l[1] \in G1[m].nodes /\ l[2] \in G1[m].nodes)
    BY <1>6, <1>8 DEF GraphGrown
  <1> HIDE DEF L1
  <1>12. \A c \in P : Declared(N1[c], variables, signals)
    BY <1>5, <1>7
  <1>13. Fine(N1, G1, functions, variables, signals, L1)
    BY <1>9, <1>10, <1>12, GrownFine DEF Well
  <1>14. Tidy => InPlace(N1, G1, functions, L1)
    BY <1>9, <1>11, GrownInPlace DEF Well, Tidy
  <1>15. \A k \in DOMAIN functions : functions[k].owner \notin {i}
    BY <1>2, WellFacts DEF Owned, IsEntry
  <1>16. Shrunk(N1, G1, functions, L1, {i}, {}, nodes', graphs', functions', links')
    BY <1>2, <1>4, <1>15, WellFacts DEF Shrunk
  <1>17. variables' \in SUBSET Names /\ signals' \in SUBSET Names /\ Uses(nodes', variables', signals')
    BY <1>2, <1>4, <1>13, WellFacts DEF Fine, Uses, Without
  <1>18. Well'
    BY <1>13, <1>16, <1>17, ShrunkFine DEF Well
  <1>19. ASSUME Tidy PROVE Tidy'
    BY <1>13, <1>14, <1>16, <1>19, ShrunkInPlace DEF Tidy
  <1> QED BY <1>18, <1>19 DEF Keeps

\* A wire with an end in a graph has both of its ends there.
LEMMA BothEnds ==
    ASSUME Tidy, NEW m \in DOMAIN graphs, NEW l \in links,
           l[1] \in graphs[m].nodes \/ l[2] \in graphs[m].nodes
    PROVE  l[1] \in graphs[m].nodes /\ l[2] \in graphs[m].nodes
  BY DEF Tidy, InPlace, Inside, Apart

LEMMA DuplicateFunctionKeeps ==
    ASSUME Well, Sound, NEW old \in Names, NEW new \in Names, NEW g \in Guids, NEW withCode \in BOOLEAN,
           DuplicateFunction(old, new, g, withCode)
    PROVE  Keeps
  <1> DEFINE inner == graphs[old].nodes
             firsts(P) == {i \in P : \A j \in P : i <= j}
             entry == firsts({i \in inner : IsEntry(nodes[i].kind)})
             result == firsts({i \in inner : nodes[i].kind = "result"})
             S == IF withCode THEN inner ELSE entry \cup result
             copy(b, c) == LET x == nodes[Original(S, b, c)]
                           IN  IF x.kind \in {"entry", "event", "result"} THEN [x EXCEPT !.ref = g] ELSE x
             made(b) == [c \in Copies(S, b) |-> copy(b, c)]
             ends(b, P) == {CopyId(S, b, i) : i \in P}
  <1>0. /\ old \in DOMAIN graphs /\ new \notin DOMAIN functions /\ new \notin DOMAIN graphs
        /\ variables' = variables /\ signals' = signals
    BY DEF DuplicateFunction
  <1>1. PICK base \in NodeIds :
          /\ entry # {} /\ IsAvailable(base) /\ Copies(S, base) \subseteq NodeIds
          /\ IF new \in variables \cup signals
             THEN UNCHANGED <<nodes, graphs, functions, links>>
             ELSE /\ nodes' = [c \in DOMAIN nodes \cup Copies(S, base) |->
                                  IF c \in Copies(S, base) THEN made(base)[c] ELSE nodes[c]]
                  /\ graphs' = With(graphs, new,
                         WithNodes([kind |-> "function", nodes |-> {}, funs |-> {}], Copies(S, base), made(base)))
                  /\ functions' = With(functions, new,
                         [guid |-> g, owner |-> CHOOSE c \in ends(base, entry) : TRUE, user |-> functions[old].user])
                  /\ links' = links \cup IF withCode THEN CopyLinks(S, base)
                                         ELSE ends(base, entry) \X ends(base, result)
    BY DEF DuplicateFunction
  <1>2. CASE new \in variables \cup signals
    BY <1>0, <1>1, <1>2 DEF Keeps, Well, Tidy
  <1>3. CASE new \notin variables \cup signals
    <2> DEFINE P == Copies(S, base)
               K == made(base)
               o == CHOOSE c \in ends(base, entry) : TRUE
               u == functions[old].user
    <2>1. /\ nodes' = [c \in DOMAIN nodes \cup P |-> IF c \in P THEN K[c] ELSE nodes[c]]
          /\ graphs' = With(graphs, new, WithNodes([kind |-> "function", nodes |-> {}, funs |-> {}], P, K))
          /\ functions' = With(functions, new, [guid |-> g, owner |-> o, user |-> u])
          /\ links' = links \cup IF withCode THEN CopyLinks(S, base) ELSE ends(base, entry) \X ends(base, result)
          /\ P \subseteq NodeIds /\ IsAvailable(base) /\ entry # {}
      BY <1>1, <1>3
    <2>2. /\ S \subseteq inner /\ S \in SUBSET DOMAIN nodes /\ entry \subseteq S
          /\ withCode => S = inner
          /\ ~withCode => result \subseteq S
          /\ \A i \in entry : IsEntry(nodes[i].kind)
      BY <1>0 DEF Sound
    <2>3. u \in BOOLEAN
      BY WellFacts DEF DuplicateFunction, Function
    <2> HIDE DEF S, entry, result, inner, u
    <2>4. /\ P \cap DOMAIN nodes = {}
          /\ \A c \in P : /\ Original(S, base, c) \in S
                          /\ nodes[Original(S, base, c)] \in Node
                          /\ Declared(nodes[Original(S, base, c)], variables, signals)
          /\ \A i \in S : CopyId(S, base, i) \in P /\ Original(S, base, CopyId(S, base, i)) = i
      BY <2>1, <2>2, CopyFacts
    <2>5. o \in ends(base, entry)
      BY <2>1
    <2>6. PICK first \in entry : o = CopyId(S, base, first)
      BY <2>5
    <2>7. o \in P /\ Original(S, base, o) = first /\ IsEntry(nodes[first].kind)
      BY <2>2, <2>4, <2>6
    <2>8. ASSUME NEW c \in P
          PROVE  /\ K[c] \in Node /\ K[c].kind = nodes[Original(S, base, c)].kind
                 /\ K[c].kind \in {"entry", "event", "result"} => K[c].ref = g
                 /\ Declared(K[c], variables, signals)
      <3> DEFINE x == nodes[Original(S, base, c)]
      <3>1. x \in Node /\ Declared(x, variables, signals)
        BY <2>4
      <3>2. K[c] = IF x.kind \in {"entry", "event", "result"} THEN [x EXCEPT !.ref = g] ELSE x
        OBVIOUS
      <3> HIDE DEF x, K
      <3>3. CASE x.kind \in {"entry", "event", "result"}
        <4>1. K[c] \in Node /\ K[c].kind = x.kind /\ K[c].ref = g
          BY <3>1, <3>2, <3>3, NodeChanged DEF Terminators
        <4> QED BY <3>3, <4>1 DEF Declared, x
      <3>4. CASE x.kind \notin {"entry", "event", "result"}
        BY <3>1, <3>2, <3>4 DEF x
      <3> QED BY <3>3, <3>4
    <2>9. /\ \A i \in S : CopyId(S, base, i) \in P
          /\ ends(base, entry) \subseteq P
          /\ ~withCode => ends(base, result) \subseteq P
      BY <2>2, <2>4
    <2>10. /\ withCode => links' = links \cup CopyLinks(S, base)
           /\ ~withCode => \A l \in links' : l \in links \/ l \in P \X P
      BY <2>1, <2>9
    <2> HIDE DEF P, K, o, made, ends
    <2>11. \A c \in P : nodes'[c] = K[c]
      BY <2>1
    <2>12. NodesGrown(nodes, P, nodes')
      BY <2>1, <2>4, <2>8, <2>11, WellFacts DEF NodesGrown
    <2>13. GraphOr(graphs, new) = [kind |-> "function", nodes |-> {}, funs |-> {}]
      BY <1>0 DEF GraphOr
    <2>14. GraphGrown(graphs, P, nodes', new, graphs')
      BY <2>1, <2>11, <2>13, GraphGrows
    <2>15. FunctionGrown(nodes, functions, P, nodes', new, "function", functions')
      <3>1. IsEntry(nodes'[o].kind) /\ nodes'[o].ref = g
        BY <2>7, <2>8, <2>11 DEF IsEntry
      <3> QED BY <1>0, <2>1, <2>3, <2>7, <3>1, FunctionGrows
    <2>16. AddedNow(P, new)
      BY <2>12, <2>13, <2>14, <2>15 DEF AddedNow, Grown
    <2>17. \A c \in P : Declared(nodes'[c], variables, signals)
      BY <2>8, <2>11
    <2>18. P \subseteq graphs'[new].nodes
      BY <2>14 DEF GraphGrown
    <2>19. CopyLinks(S, base) \subseteq NodeIds \X NodeIds
      <3>1. 0 \in NodeIds
        BY BoundAssumption DEF NodeIds
      <3> QED BY <2>1, <2>9, <3>1 DEF CopyLinks
    <2>20. links' \subseteq NodeIds \X NodeIds
      BY <2>1, <2>10, <2>19, WellFacts
    <2>21. ASSUME Tidy, NEW l \in links' PROVE l \in links \/ (l[1] \in P /\ l[2] \in P)
      <3>1. CASE ~withCode
        BY <2>10, <3>1
      <3>2. CASE withCode /\ l \notin links
        <4>1. PICK k \in links : /\ k[1] \in S \/ k[2] \in S
                                 /\ l = <<IF k[1] \in S THEN CopyId(S, base, k[1]) ELSE 0,
                                          IF k[2] \in S THEN CopyId(S, base, k[2]) ELSE 0>>
          BY <2>10, <3>2 DEF CopyLinks
        <4>2. S = graphs[old].nodes
          BY <2>2, <3>2 DEF inner
        <4>3. k[1] \in S /\ k[2] \in S
          BY <1>0, <2>21, <4>1, <4>2, BothEnds
        <4> QED BY <2>9, <4>1, <4>3
      <3> QED BY <3>1, <3>2
    <2> QED BY <1>0, <2>16, <2>17, <2>18, <2>20, <2>21, Addition
  <1> QED BY <1>2, <1>3

-----------------------------------------------------------------------------
(* A collapse: the function and its terminators are added, then the call,    *)
(* then the nodes move.                                                      *)

LEMMA CollapseKeeps ==
    ASSUME Well, Sound, NEW m \in DOMAIN graphs, NEW n \in Names, NEW g \in Guids,
           NEW S \in SUBSET graphs[m].nodes, Collapse(m, S, n, g)
    PROVE  Keeps
  <1> DEFINE ins == {l \in links : l[1] \notin S /\ l[2] \in S}
             outs == {l \in links : l[1] \in S /\ l[2] \notin S}
             rOf(e) == IF outs = {} THEN {} ELSE {e + 1}
             cOf(e) == IF outs = {} THEN e + 1 ELSE e + 2
             newOf(e) == {e, cOf(e)} \cup rOf(e)
             made(e) == [i \in newOf(e) |-> [kind |-> IF i = e THEN "entry"
                                                  ELSE IF i = cOf(e) THEN "call" ELSE "result", ref |-> g]]
             fresh == [kind |-> "function", nodes |-> {}, funs |-> {}]
  <1>0. /\ \A i \in S : nodes[i].kind # "entry"
        /\ n \notin DOMAIN functions /\ n \notin DOMAIN graphs /\ m \in Names /\ m # n
        /\ variables' = variables /\ signals' = signals
    BY WellFacts DEF Collapse, NameTaken
  <1>1. PICK e \in NodeIds :
          /\ IsAvailable(e) /\ newOf(e) \subseteq NodeIds
          /\ nodes' = [i \in DOMAIN nodes \cup newOf(e) |-> IF i \in newOf(e) THEN made(e)[i] ELSE nodes[i]]
          /\ functions' = With(functions, n, [guid |-> g, owner |-> e, user |-> TRUE])
          /\ graphs' = With([graphs EXCEPT ![m] = WithNodes(WithoutNodes(@, S), {cOf(e)}, nodes')], n,
                            WithNodes(fresh, {e} \cup rOf(e) \cup S, nodes'))
          /\ \E joined \in SUBSET ({e} \X rOf(e)) :
                links' = (links \ Severed(S)) \cup joined
                           \cup {<<l[1], cOf(e)>> : l \in ins} \cup {<<e, l[2]>> : l \in ins}
                           \cup {<<cOf(e), l[2]>> : l \in outs} \cup ({l[1] : l \in outs} \X rOf(e))
    BY DEF Collapse
  <1> DEFINE r == rOf(e)
             c == cOf(e)
             P == {e} \cup r
             K == made(e)
             N1 == [i \in DOMAIN nodes \cup P |-> IF i \in P THEN K[i] ELSE nodes[i]]
             G1 == With(graphs, n, WithNodes(fresh, P, N1))
             G2 == [G1 EXCEPT ![m] = WithNodes(@, {c}, nodes')]
  <1>2. PICK joined \in SUBSET ({e} \X r) :
           links' = (links \ Severed(S)) \cup joined
                      \cup {<<l[1], c>> : l \in ins} \cup {<<e, l[2]>> : l \in ins}
                      \cup {<<c, l[2]>> : l \in outs} \cup ({l[1] : l \in outs} \X r)
    BY <1>1
  <1>3. /\ P \subseteq NodeIds /\ c \in NodeIds /\ e \in P /\ c \notin P
        /\ nodes' = [i \in DOMAIN N1 \cup {c} |-> IF i = c THEN K[c] ELSE N1[i]]
        /\ functions' = With(functions, n, [guid |-> g, owner |-> e, user |-> TRUE])
        /\ graphs' = With([graphs EXCEPT ![m] = WithNodes(WithoutNodes(@, S), {c}, nodes')], n,
                          WithNodes(fresh, P \cup S, nodes'))
    <2>1. e \in Nat /\ c # e /\ c \notin r
      BY <1>1 DEF IsAvailable, NodeIds
    <2>2. newOf(e) = P \cup {c}
      OBVIOUS
    <2>3. \A i \in DOMAIN nodes \cup newOf(e) : nodes'[i] = IF i = c THEN K[c] ELSE IF i \in P THEN K[i] ELSE nodes[i]
      <3> HIDE DEF made, c, r, rOf, cOf
      <3> QED BY <1>1, <2>2
    <2>4. DOMAIN nodes' = DOMAIN N1 \cup {c}
      BY <1>1, <2>2
    <2>5. nodes' = [i \in DOMAIN N1 \cup {c} |-> IF i = c THEN K[c] ELSE N1[i]]
      <3> HIDE DEF K, c, r, P, made, newOf
      <3> QED BY <1>1, <2>2, <2>3, <2>4
    <2> QED BY <1>1, <2>1, <2>2, <2>5
  <1>4. /\ \A i \in P : K[i] \in Node /\ K[i].ref = g /\ K[i].kind \in {"entry", "result"}
        /\ K[e].kind = "entry"
        /\ K[c] \in Node /\ K[c].ref = g /\ K[c].kind = "call"
    BY <1>3, NodeMade
  <1>5. P \cap DOMAIN nodes = {} /\ c \notin DOMAIN nodes
    BY <1>1, AvailableFresh, WellFacts DEF NodeIds
  <1> HIDE DEF P, K, c, r, made, newOf, rOf, cOf
  <1>6. /\ \A i \in P : N1[i] = K[i]
        /\ \A i \in DOMAIN nodes : N1[i] = nodes[i]
        /\ DOMAIN N1 = DOMAIN nodes \cup P /\ nodes'[c] = K[c]
        /\ \A i \in DOMAIN N1 : nodes'[i] = N1[i]
    BY <1>3, <1>5
  <1>7. NodesGrown(nodes, P, N1)
    BY <1>3, <1>4, <1>5, <1>6, WellFacts DEF NodesGrown
  <1> HIDE DEF N1
  <1>8. GraphOr(graphs, n) = fresh
    BY <1>0 DEF GraphOr
  <1>9. GraphGrown(graphs, P, N1, n, G1)
    BY <1>3, <1>8, GraphGrows
  <1>10. FunctionGrown(nodes, functions, P, N1, n, "function", functions')
    <2>1. IsEntry(N1[e].kind) /\ N1[e].ref = g
      BY <1>3, <1>4, <1>6 DEF IsEntry
    <2> QED BY <1>0, <1>3, <2>1 DEF FunctionGrown
  <1>11. Grown(nodes, graphs, functions, P, n, N1, G1, functions')
    BY <1>7, <1>8, <1>9, <1>10 DEF Grown
  <1>12. \A i \in P : Declared(N1[i], variables, signals)
    BY <1>4, <1>6 DEF Declared
  <1>13. /\ Fine(N1, G1, functions', variables, signals, links)
         /\ Tidy => InPlace(N1, G1, functions', links)
    <2>1. links \in SUBSET (NodeIds \X NodeIds)
      BY WellFacts
    <2>2. Fine(N1, G1, functions', variables, signals, links)
      BY <1>11, <1>12, <2>1, GrownFine DEF Well
    <2>3. Tidy => InPlace(N1, G1, functions', links)
      BY <1>11, GrownInPlace DEF Well, Tidy
    <2> QED BY <2>2, <2>3
  <1>14. /\ m \in DOMAIN G1 /\ G1[m] = graphs[m] /\ G1 \in [DOMAIN G1 -> Graph]
         /\ n \in DOMAIN G1 /\ DOMAIN G1 = DOMAIN graphs \cup {n}
         /\ \A k \in DOMAIN graphs : G1[k] = graphs[k]
         /\ G1[n].kind = "function" /\ G1[n].nodes = P
         /\ \A i : i \in G1[n].funs <=> i \in P /\ IsEntry(N1[i].kind)
    <2>1. \A i : Registers(fresh, N1[i].kind) <=> IsEntry(N1[i].kind)
      BY DEF Registers, IsEntry
    <2>2. fresh.kind = "function" /\ fresh.nodes = {} /\ fresh.funs = {}
      OBVIOUS
    <2> HIDE DEF fresh, G1
    <2> QED BY <1>0, <1>8, <1>9, <1>13, <2>1, <2>2 DEF GraphGrown, Fine, Typed
  <1> HIDE DEF G1
  <1>15. NodesGrown(N1, {c}, nodes')
    <2>1. N1 \in [DOMAIN N1 -> Node]
      BY <1>7 DEF NodesGrown
    <2>2. c \notin DOMAIN N1
      BY <1>3, <1>5, <1>6
    <2> QED BY <1>3, <1>4, <1>6, <2>1, <2>2 DEF NodesGrown
  <1>16. GraphGrown(G1, {c}, nodes', m, G2)
    BY <1>0, <1>3, <1>14, AnyGraphGrows
  <1>17. Grown(N1, G1, functions', {c}, m, nodes', G2, functions')
    BY <1>4, <1>6, <1>15, <1>16 DEF Grown, FunctionGrown
  <1>18. \A i \in {c} : Declared(nodes'[i], variables, signals)
    BY <1>4, <1>6 DEF Declared
  <1>19. /\ Fine(nodes', G2, functions', variables, signals, links)
         /\ Tidy => InPlace(nodes', G2, functions', links)
    <2>1. links \in SUBSET (NodeIds \X NodeIds)
      BY WellFacts
    <2>2. Fine(nodes', G2, functions', variables, signals, links)
      BY <1>13, <1>17, <1>18, <2>1, GrownFine
    <2>3. Tidy => InPlace(nodes', G2, functions', links)
      BY <1>13, <1>17, GrownInPlace
    <2> QED BY <2>2, <2>3
  <1>20. /\ DOMAIN G2 = DOMAIN graphs \cup {n} /\ G2 \in [DOMAIN G2 -> Graph]
         /\ G2[m].kind = graphs[m].kind /\ G2[m].nodes = graphs[m].nodes \cup {c} /\ G2[m].funs = graphs[m].funs
         /\ \A k \in DOMAIN G2 \ {m} : G2[k] = G1[k]
    <2>1. ~Registers(GraphOr(G1, m), nodes'[c].kind)
      BY <1>4, <1>6 DEF Registers, IsEntry
    <2>2. GraphOr(G1, m) = graphs[m]
      BY <1>14 DEF GraphOr
    <2>3. G2 \in [DOMAIN G2 -> Graph]
      BY <1>19 DEF Fine, Typed
    <2> HIDE DEF G2
    <2> QED BY <1>14, <1>16, <2>1, <2>2, <2>3 DEF GraphGrown
  <1> HIDE DEF G2
  <1>21. S \subseteq DOMAIN nodes /\ S \subseteq NodeIds /\ c \notin S
    BY <1>5, WellFacts DEF Sound
  <1>22. /\ DOMAIN graphs' = DOMAIN graphs \cup {n} /\ graphs' \in [DOMAIN graphs' -> Graph]
         /\ \A k \in DOMAIN graphs \ {m} : graphs'[k] = graphs[k]
         /\ graphs'[m].kind = graphs[m].kind /\ graphs'[m].nodes = (graphs[m].nodes \ S) \cup {c}
         /\ graphs'[m].funs = graphs[m].funs \ S
         /\ graphs'[n].kind = "function" /\ graphs'[n].nodes = P \cup S
         /\ \A i : i \in graphs'[n].funs <=> i \in P \cup S /\ IsEntry(nodes'[i].kind)
    <2> DEFINE w == WithoutNodes(graphs[m], S)
               x == WithNodes(w, {c}, nodes')
               y == WithNodes(fresh, P \cup S, nodes')
    <2>1. /\ w \in Graph /\ w.kind = graphs[m].kind /\ w.nodes = graphs[m].nodes \ S /\ w.funs = graphs[m].funs \ S
      <3>1. graphs[m] \in Graph
        BY WellFacts
      <3> QED BY <3>1 DEF WithoutNodes, Graph
    <2>2. {c} \in SUBSET NodeIds /\ P \cup S \in SUBSET NodeIds /\ fresh \in Graph
      BY <1>3, <1>21 DEF Graph
    <2>3. graphs' = With([graphs EXCEPT ![m] = x], n, y)
      BY <1>3
    <2> HIDE DEF w
    <2>4. /\ x \in Graph /\ x.kind = w.kind /\ x.nodes = w.nodes \cup {c}
          /\ \A i : i \in x.funs <=> i \in w.funs \/ (i \in {c} /\ Registers(w, nodes'[i].kind))
      <3>1. Given(x, w, {c}, nodes')
        BY <2>1, <2>2, WithNodesGiven
      <3> QED BY <3>1 DEF Given
    <2>5. ~Registers(w, nodes'[c].kind)
      BY <1>4, <1>6 DEF Registers, IsEntry
    <2>6. x.funs = w.funs
      <3> HIDE DEF x
      <3> QED BY <2>4, <2>5
    <2>7. /\ y \in Graph /\ y.kind = fresh.kind /\ y.nodes = fresh.nodes \cup P \cup S
          /\ \A i : i \in y.funs <=> i \in fresh.funs \/ (i \in P \cup S /\ Registers(fresh, nodes'[i].kind))
      <3>1. Given(y, fresh, P \cup S, nodes')
        <4> HIDE DEF fresh
        <4> QED BY <2>2, WithNodesGiven
      <3> HIDE DEF y, fresh
      <3> QED BY <3>1 DEF Given
    <2>8. \A i : Registers(fresh, nodes'[i].kind) <=> IsEntry(nodes'[i].kind)
      BY DEF Registers, IsEntry
    <2>9. /\ y.kind = "function" /\ y.nodes = P \cup S
          /\ \A i : i \in y.funs <=> i \in P \cup S /\ IsEntry(nodes'[i].kind)
      BY <2>7, <2>8
    <2> HIDE DEF x, y, fresh
    <2> QED BY <1>0, <2>1, <2>3, <2>4, <2>6, <2>7, <2>9, WellFacts DEF With
  <1>23. GraphsMoved(nodes', G2, S, m, n, graphs')
    <2>1. m \in DOMAIN G2 /\ n \in DOMAIN G2 /\ m # n /\ G2[n].kind = "function" /\ G2[n].nodes = P
      BY <1>0, <1>14, <1>20
    <2>2. \A k \in DOMAIN G2 \ {m, n} : graphs'[k] = G2[k]
      BY <1>14, <1>20, <1>22
    <2>3. graphs'[m].nodes = G2[m].nodes \ S /\ graphs'[m].funs = G2[m].funs \ S
      BY <1>20, <1>21, <1>22
    <2>4. graphs'[n].funs = G2[n].funs \cup {i \in S : IsEntry(nodes'[i].kind)}
      <3>1. \A i \in P : nodes'[i] = N1[i]
        BY <1>6
      <3> QED BY <1>0, <1>14, <1>20, <1>22, <3>1
    <2> QED BY <1>20, <1>22, <2>1, <2>2, <2>3, <2>4 DEF GraphsMoved
  <1>24. links' \in SUBSET (NodeIds \X NodeIds)
    <2>1. \A l \in links : l = <<l[1], l[2]>> /\ l[1] \in NodeIds /\ l[2] \in NodeIds
      BY WellFacts
    <2>2. r \subseteq NodeIds /\ e \in NodeIds /\ c \in NodeIds
      BY <1>3 DEF P
    <2> QED BY <1>2, <2>1, <2>2
  <1>25. Well'
    BY <1>0, <1>19, <1>23, <1>24, MovedFine DEF Well
  <1>26. ASSUME Tidy PROVE Tidy'
    <2>1. \A i \in S : nodes'[i].kind # "entry"
      <3>1. \A i \in S : i \in DOMAIN nodes /\ i \in DOMAIN N1
        BY <1>6, <1>21
      <3>2. \A i \in S : nodes'[i] = N1[i] /\ N1[i] = nodes[i]
        BY <1>6, <3>1
      <3> QED BY <1>0, <3>2
    <2>2. \A l \in links : (l[1] \in S \/ l[2] \in S) => l[1] \in graphs[m].nodes /\ l[2] \in graphs[m].nodes
      BY <1>26, BothEnds
    <2>3. /\ \A i \in graphs[m].nodes \ S : i \in graphs'[m].nodes
          /\ c \in graphs'[m].nodes /\ e \in graphs'[n].nodes
          /\ r \subseteq graphs'[n].nodes /\ S \subseteq graphs'[n].nodes
      BY <1>22 DEF P
    <2>4. LinksMoved(links, S, m, n, graphs', links')
      <3> SUFFICES ASSUME NEW l \in links'
                   PROVE  \/ l \in links /\ (l[1] \in S <=> l[2] \in S)
                          \/ l[1] \in graphs'[m].nodes /\ l[2] \in graphs'[m].nodes
                          \/ l[1] \in graphs'[n].nodes /\ l[2] \in graphs'[n].nodes
        BY DEF LinksMoved
      <3>1. CASE l \in links \ Severed(S)
        BY <3>1 DEF Severed
      <3>2. CASE l \in joined
        BY <2>3, <3>2
      <3>3. CASE l \in {<<k[1], c>> : k \in ins}
        BY <2>2, <2>3, <3>3
      <3>4. CASE l \in {<<e, k[2]>> : k \in ins}
        BY <2>3, <3>4
      <3>5. CASE l \in {<<c, k[2]>> : k \in outs}
        BY <2>2, <2>3, <3>5
      <3>6. CASE l \in {k[1] : k \in outs} \X r
        BY <2>3, <3>6
      <3> HIDE DEF ins, outs
      <3> QED BY <1>2, <3>1, <3>2, <3>3, <3>4, <3>5, <3>6
    <2>5. InPlace(nodes', graphs', functions', links')
      BY <1>19, <1>23, <1>26, <2>1, <2>4, MovedInPlace
    <2> QED BY <2>5 DEF Tidy
  <1> QED BY <1>25, <1>26 DEF Keeps

-----------------------------------------------------------------------------
(* Edits that give names, and wires.                                         *)

LEMMA CreateGraphKeeps == ASSUME Well, NEW n \in Names, CreateGraph(n) PROVE Keeps
  <1> DEFINE x == [kind |-> "event", nodes |-> {}, funs |-> {}]
  <1>1. /\ n \notin DOMAIN graphs /\ graphs' = With(graphs, n, x)
        /\ UNCHANGED <<nodes, functions, variables, signals, links>>
    BY DEF CreateGraph, IsIdentifierUsed
  <1>2. x \in Graph /\ x.nodes = {} /\ x.funs = {}
    BY DEF Graph
  <1> HIDE DEF x
  <1>3. /\ DOMAIN graphs' = DOMAIN graphs \cup {n} /\ graphs'[n] = x
        /\ \A m \in DOMAIN graphs : graphs'[m] = graphs[m]
        /\ graphs' \in [DOMAIN graphs' -> Graph]
    BY <1>1, <1>2, WellFacts DEF With
  <1>4. Well'
    BY <1>1, <1>3 DEF Well, Fine, Typed
  <1>5. ASSUME Tidy PROVE Tidy'
    <2>1. Apart(nodes, graphs')
      BY <1>2, <1>3, <1>5 DEF Tidy, InPlace, Apart
    <2>2. Inside(graphs', links)
      BY <1>3, <1>5 DEF Tidy, InPlace, Inside
    <2>3. Homes(nodes, graphs', functions)
      BY <1>3, <1>5 DEF Tidy, InPlace, Homes
    <2>4. Known(nodes, graphs')
      BY <1>2, <1>3, <1>5 DEF Tidy, InPlace, Known
    <2> QED BY <1>1, <2>1, <2>2, <2>3, <2>4 DEF Tidy, InPlace
  <1> QED BY <1>4, <1>5 DEF Keeps

\* A table in which what old named is named new.
Relabelled(T, old, new, T1) ==
    /\ old \in DOMAIN T /\ new \in Names \ DOMAIN T
    /\ DOMAIN T1 = (DOMAIN T \ {old}) \cup {new} /\ T1 = [n \in DOMAIN T1 |-> T1[n]]
    /\ T1[new] = T[old]
    /\ \A n \in DOMAIN T \ {old} : T1[n] = T[n]

LEMMA Relabelling ==
    ASSUME NEW T, NEW old \in DOMAIN T, NEW new \in Names \ DOMAIN T
    PROVE  Relabelled(T, old, new, Without(With(T, new, T[old]), {old}))
  BY DEF Relabelled, With, Without

LEMMA RelabelledGraphs ==
    ASSUME NEW N, NEW G, NEW L, G \in [DOMAIN G -> Graph], DOMAIN G \subseteq Names,
           NEW old, NEW new, NEW G1, Relabelled(G, old, new, G1)
    PROVE  /\ DOMAIN G1 \subseteq Names /\ G1 \in [DOMAIN G1 -> Graph]
           /\ Apart(N, G) => Apart(N, G1)
           /\ Inside(G, L) => Inside(G1, L)
           /\ Known(N, G) => Known(N, G1)
  <1> USE DEF Relabelled
  <1>1. DOMAIN G1 \subseteq Names /\ G1 \in [DOMAIN G1 -> Graph]
    OBVIOUS
  <1>2. Apart(N, G) => Apart(N, G1)
    BY DEF Apart
  <1>3. Inside(G, L) => Inside(G1, L)
    BY DEF Inside
  <1>4. Known(N, G) => Known(N, G1)
    BY DEF Known
  <1> QED BY <1>1, <1>2, <1>3, <1>4

LEMMA RenameGraphKeeps == ASSUME Well, NEW old \in Names, NEW new \in Names, RenameGraph(old, new) PROVE Keeps
  <1>1. /\ old \in DOMAIN graphs /\ graphs[old].kind = "event" /\ new \notin DOMAIN graphs
        /\ graphs' = Without(With(graphs, new, graphs[old]), {old})
        /\ UNCHANGED <<nodes, functions, variables, signals, links>>
    BY DEF RenameGraph, IsIdentifierUsed
  <1>2. Relabelled(graphs, old, new, graphs')
    BY <1>1, Relabelling
  <1>3. /\ DOMAIN graphs' \subseteq Names /\ graphs' \in [DOMAIN graphs' -> Graph]
        /\ Apart(nodes, graphs) => Apart(nodes, graphs')
        /\ Inside(graphs, links) => Inside(graphs', links)
        /\ Known(nodes, graphs) => Known(nodes, graphs')
    BY <1>2, WellFacts, RelabelledGraphs
  <1>4. Well'
    BY <1>1, <1>3 DEF Well, Fine, Typed
  <1>5. ASSUME Tidy PROVE Tidy'
    <2>1. Homes(nodes, graphs', functions)
      BY <1>1, <1>2, <1>5 DEF Tidy, InPlace, Homes, Relabelled
    <2> QED BY <1>1, <1>3, <1>5, <2>1 DEF Tidy, InPlace
  <1> QED BY <1>4, <1>5 DEF Keeps

LEMMA RenameFunctionKeeps ==
    ASSUME Well, NEW old \in Names, NEW new \in Names, RenameFunction(old, new) PROVE Keeps
  <1>1. /\ old \in DOMAIN functions /\ old \in DOMAIN graphs
        /\ new \notin DOMAIN functions /\ new \notin DOMAIN graphs
        /\ graphs' = IF graphs[old].kind = "function"
                     THEN Without(With(graphs, new, graphs[old]), {old}) ELSE graphs
        /\ functions' = Without(With(functions, new, functions[old]), {old})
        /\ UNCHANGED <<nodes, variables, signals, links>>
    BY DEF RenameFunction, IsIdentifierUsed, NameTaken
  <1>2. Relabelled(functions, old, new, functions')
    BY <1>1, Relabelling
  <1>3. graphs' = graphs \/ (graphs[old].kind = "function" /\ Relabelled(graphs, old, new, graphs'))
    BY <1>1, Relabelling
  <1>4. /\ DOMAIN graphs' \subseteq Names /\ graphs' \in [DOMAIN graphs' -> Graph]
        /\ Apart(nodes, graphs) => Apart(nodes, graphs')
        /\ Inside(graphs, links) => Inside(graphs', links)
        /\ Known(nodes, graphs) => Known(nodes, graphs')
    <2>1. CASE graphs' = graphs
      BY <2>1, WellFacts
    <2>2. CASE Relabelled(graphs, old, new, graphs')
      BY <2>2, WellFacts, RelabelledGraphs
    <2> QED BY <1>3, <2>1, <2>2
  <1>5. DOMAIN functions' \subseteq Names /\ functions' \in [DOMAIN functions' -> Function]
    BY <1>2, WellFacts DEF Relabelled
  <1>6. Owned(nodes, functions')
    BY <1>2, WellFacts DEF Owned, Relabelled
  <1>7. Well'
    BY <1>1, <1>4, <1>5, <1>6 DEF Well, Fine, Typed
  <1>8. ASSUME Tidy PROVE Tidy'
    <2>1. Homes(nodes, graphs', functions')
      <3> SUFFICES ASSUME NEW x \in DOMAIN functions', nodes[functions'[x].owner].kind = "entry"
                   PROVE  x \in DOMAIN graphs' /\ graphs'[x].kind = "function" /\ functions'[x].owner \in graphs'[x].nodes
        BY DEF Homes
      <3>1. CASE x = new
        <4>1. functions'[x] = functions[old] /\ nodes[functions[old].owner].kind = "entry"
          BY <1>2, <3>1 DEF Relabelled
        <4>2. graphs[old].kind = "function" /\ functions[old].owner \in graphs[old].nodes
          BY <1>1, <1>8, <4>1 DEF Tidy, InPlace, Homes
        <4>3. Relabelled(graphs, old, new, graphs')
          BY <1>1, <4>2, Relabelling
        <4> QED BY <3>1, <4>1, <4>2, <4>3 DEF Relabelled
      <3>2. CASE x # new
        <4>1. x \in DOMAIN functions \ {old} /\ functions'[x] = functions[x]
          BY <1>2, <3>2 DEF Relabelled
        <4>2. x \in DOMAIN graphs /\ graphs[x].kind = "function" /\ functions[x].owner \in graphs[x].nodes
          BY <1>8, <4>1 DEF Tidy, InPlace, Homes
        <4>3. x \in DOMAIN graphs' /\ graphs'[x] = graphs[x]
          BY <1>3, <4>1, <4>2 DEF Relabelled
        <4> QED BY <4>1, <4>2, <4>3
      <3> QED BY <3>1, <3>2
    <2> QED BY <1>1, <1>4, <1>8, <2>1 DEF Tidy, InPlace
  <1> QED BY <1>7, <1>8 DEF Keeps

\* Only what the nodes of one kind refer to changes.
LEMMA RenamedUses ==
    ASSUME Well, NEW kind \in {"variable", "emit"}, NEW old, NEW new \in Names, nodes' = Renamed(kind, old, new),
           UNCHANGED <<graphs, functions, links>>, variables' \subseteq Names, signals' \subseteq Names,
           \A i \in DOMAIN nodes : Declared(nodes'[i], variables', signals')
    PROVE  Keeps
  <1>1. /\ DOMAIN nodes' = DOMAIN nodes /\ nodes' = [i \in DOMAIN nodes |-> nodes'[i]]
        /\ \A i \in DOMAIN nodes : /\ nodes'[i].kind = nodes[i].kind /\ nodes'[i] \in Node
                                   /\ IsEntry(nodes[i].kind) => nodes'[i] = nodes[i]
    <2>1. \A i \in DOMAIN nodes : nodes'[i] = IF i \in NodesOf(kind, old) THEN [nodes[i] EXCEPT !.ref = new] ELSE nodes[i]
      BY DEF Renamed
    <2>2. \A i \in NodesOf(kind, old) : i \in DOMAIN nodes /\ nodes[i].kind = kind
      BY DEF NodesOf
    <2>3. ASSUME NEW i \in DOMAIN nodes
          PROVE  /\ nodes'[i].kind = nodes[i].kind /\ nodes'[i] \in Node
                 /\ IsEntry(nodes[i].kind) => nodes'[i] = nodes[i]
      <3>1. nodes[i] \in Node
        BY WellFacts
      <3>2. CASE i \in NodesOf(kind, old)
        <4>1. ~IsEntry(nodes[i].kind)
          BY <2>2, <3>2 DEF IsEntry
        <4>2. nodes'[i] = [nodes[i] EXCEPT !.ref = new] /\ nodes[i].kind \in {"variable", "emit"}
          BY <2>1, <2>2, <3>2
        <4> QED BY <3>1, <4>1, <4>2, NodeChanged
      <3>3. CASE i \notin NodesOf(kind, old)
        BY <2>1, <3>1, <3>3
      <3> QED BY <3>2, <3>3
    <2>4. nodes' = [i \in DOMAIN nodes |-> nodes'[i]]
      BY DEF Renamed
    <2> QED BY <2>3, <2>4
  <1>2. DOMAIN nodes' \subseteq NodeIds /\ nodes' \in [DOMAIN nodes' -> Node]
    BY <1>1, WellFacts
  <1>3. Owned(nodes', functions)
    BY <1>1, WellFacts DEF Owned
  <1>4. Uses(nodes', variables', signals')
    BY <1>1 DEF Uses
  <1>5. Well'
    BY <1>2, <1>3, <1>4 DEF Well, Fine, Typed
  <1>6. ASSUME Tidy PROVE Tidy'
    <2>1. Apart(nodes', graphs)
      BY <1>1, <1>6 DEF Tidy, InPlace, Apart
    <2>2. Homes(nodes', graphs, functions)
      BY <1>1, <1>6, WellFacts DEF Tidy, InPlace, Homes, Owned
    <2>3. Known(nodes', graphs)
      <3>1. \A m \in DOMAIN graphs : \A i \in graphs[m].nodes : nodes'[i].kind = nodes[i].kind
        BY <1>1, <1>6 DEF Tidy, InPlace, Apart
      <3> QED BY <1>6, <3>1 DEF Tidy, InPlace, Known
    <2> QED BY <1>6, <2>1, <2>2, <2>3 DEF Tidy, InPlace
  <1> QED BY <1>5, <1>6 DEF Keeps

LEMMA RenameVariableKeeps == ASSUME Well, NEW old \in Names, NEW new \in Names, RenameVariable(old, new) PROVE Keeps
  <1>1. /\ nodes' = Renamed("variable", old, new) /\ variables' = (variables \ {old}) \cup {new}
        /\ UNCHANGED <<graphs, functions, signals, links>>
    BY DEF RenameVariable
  <1>2. ASSUME NEW i \in DOMAIN nodes PROVE Declared(nodes'[i], variables', signals')
    <2>1. nodes[i] \in Node /\ Declared(nodes[i], variables, signals)
      BY WellFacts DEF Uses
    <2>2. CASE i \in NodesOf("variable", old)
      <3>1. nodes'[i] = [nodes[i] EXCEPT !.ref = new] /\ nodes[i].kind = "variable"
        BY <1>1, <2>2 DEF Renamed, NodesOf
      <3>2. nodes'[i].kind = "variable" /\ nodes'[i].ref = new
        BY <2>1, <3>1, NodeChanged
      <3> QED BY <1>1, <3>2 DEF Declared
    <2>3. CASE i \notin NodesOf("variable", old)
      BY <1>1, <2>1, <2>3 DEF Renamed, NodesOf, Declared
    <2> QED BY <2>2, <2>3
  <1>3. variables' \subseteq Names /\ signals' \subseteq Names
    BY <1>1, WellFacts
  <1> QED BY <1>1, <1>2, <1>3, RenamedUses

LEMMA RenameSignalKeeps == ASSUME Well, NEW old \in Names, NEW new \in Names, RenameSignal(old, new) PROVE Keeps
  <1>1. /\ nodes' = Renamed("emit", old, new) /\ signals' = (signals \ {old}) \cup {new}
        /\ UNCHANGED <<graphs, functions, variables, links>>
    BY DEF RenameSignal
  <1>2. ASSUME NEW i \in DOMAIN nodes PROVE Declared(nodes'[i], variables', signals')
    <2>1. nodes[i] \in Node /\ Declared(nodes[i], variables, signals)
      BY WellFacts DEF Uses
    <2>2. CASE i \in NodesOf("emit", old)
      <3>1. nodes'[i] = [nodes[i] EXCEPT !.ref = new] /\ nodes[i].kind = "emit"
        BY <1>1, <2>2 DEF Renamed, NodesOf
      <3>2. nodes'[i].kind = "emit" /\ nodes'[i].ref = new
        BY <2>1, <3>1, NodeChanged
      <3> QED BY <1>1, <3>2 DEF Declared
    <2>3. CASE i \notin NodesOf("emit", old)
      BY <1>1, <2>1, <2>3 DEF Renamed, NodesOf, Declared
    <2> QED BY <2>2, <2>3
  <1>3. variables' \subseteq Names /\ signals' \subseteq Names
    BY <1>1, WellFacts
  <1> QED BY <1>1, <1>2, <1>3, RenamedUses

LEMMA MemberCreatedKeeps ==
    ASSUME Well, NEW n \in Names, CreateVariable(n) \/ CreateSignal(n) PROVE Keeps
  <1>1. /\ UNCHANGED <<nodes, graphs, functions, links>>
        /\ variables \subseteq variables' /\ signals \subseteq signals'
        /\ variables' \subseteq Names /\ signals' \subseteq Names
    BY WellFacts DEF CreateVariable, CreateSignal
  <1>2. Uses(nodes, variables', signals')
    BY <1>1, WellFacts DEF Uses, Declared
  <1> QED BY <1>1, <1>2 DEF Keeps, Well, Tidy, Fine, Typed

LEMMA LinkKeeps ==
    ASSUME Well, NEW m \in DOMAIN graphs, NEW a \in graphs[m].nodes, NEW b \in graphs[m].nodes, Link(a, b)
    PROVE  Keeps
  <1>1. links' = links \cup {<<a, b>>} /\ UNCHANGED <<nodes, graphs, functions, variables, signals>>
    BY DEF Link
  <1>2. links' \subseteq NodeIds \X NodeIds
    BY <1>1, WellFacts
  <1>3. Inside(graphs, links) => Inside(graphs, links')
    BY <1>1 DEF Inside
  <1> QED BY <1>1, <1>2, <1>3 DEF Keeps, Well, Tidy, Fine, Typed, InPlace

LEMMA UnlinkKeeps == ASSUME Well, NEW l \in links, Unlink(l) PROVE Keeps
  <1>1. links' \subseteq links /\ UNCHANGED <<nodes, graphs, functions, variables, signals>>
    BY DEF Unlink
  <1>2. links' \subseteq NodeIds \X NodeIds
    BY <1>1, WellFacts
  <1>3. Inside(graphs, links) => Inside(graphs, links')
    BY <1>1 DEF Inside
  <1> QED BY <1>1, <1>2, <1>3 DEF Keeps, Well, Tidy, Fine, Typed, InPlace

-----------------------------------------------------------------------------
(* The clipboard.                                                            *)

ClipOK == clipboard \in Clip \cup {Nothing}

LEMMA ClipFields ==
    ASSUME NEW c \in Clip
    PROVE  /\ c.kind \in {"plain", "result", "variable", "emit", "call", "event"}
           /\ c.kind \in {"plain", "result"} => c.ref \in Guids \cup {NoRef}
           /\ c.kind \in {"variable", "emit", "call", "event"} => c.key \in Names /\ c.name \in Names
           /\ c.kind \in {"call", "event"} => c.ref \in Guids /\ c.user \in BOOLEAN
           /\ c = [kind |-> c.kind, ref |-> c.ref, key |-> c.key, name |-> c.name,
                   user |-> c.user, live |-> c.live]
  BY DEF Clip

\* What edits do to the clipboard.
LEMMA ClipChanges ==
    ASSUME NEW c \in Clip \cup {Nothing}
    PROVE  /\ [c EXCEPT !.live = FALSE] \in Clip \cup {Nothing}
           /\ \A n \in Names : c.kind \in {"variable", "emit", "call", "event"} =>
                  [c EXCEPT !.name = n] \in Clip \cup {Nothing}
  <1>1. CASE c \in Clip
    <2>2. [c EXCEPT !.live = FALSE] \in Clip
      BY <1>1 DEF Clip
    <2>3. ASSUME NEW n \in Names, c.kind \in {"variable", "emit", "call", "event"}
          PROVE  [c EXCEPT !.name = n] \in Clip
      BY <1>1, <2>3 DEF Clip
    <2> QED BY <2>2, <2>3
  <1>2. CASE c = Nothing
    <2>1. [c EXCEPT !.live = FALSE] = Nothing
      <3>1. DOMAIN Nothing = {"kind", "ref", "key", "name", "user", "live"} /\ Nothing.live = FALSE
        BY DEF Nothing
      <3>2. Nothing = [f \in DOMAIN Nothing |-> Nothing[f]]
        BY DEF Nothing
      <3>3. [c EXCEPT !.live = FALSE] = [f \in DOMAIN Nothing |-> IF f = "live" THEN FALSE ELSE Nothing[f]]
        BY <1>2, <3>1, <3>2
      <3>4. \A f \in DOMAIN Nothing : Nothing[f] = IF f = "live" THEN FALSE ELSE Nothing[f]
        BY <3>1
      <3> QED BY <3>2, <3>3, <3>4
    <2>2. c.kind = "none"
      BY <1>2 DEF Nothing
    <2> QED BY <2>1, <2>2
  <1> QED BY <1>1, <1>2

\* Nothing is pasted from an empty clipboard.
LEMMA Pasted == ASSUME ClipOK, clipboard.kind # "none" PROVE clipboard \in Clip
  BY DEF ClipOK, Nothing

LEMMA PasteNodeKeeps == ASSUME Well, ClipOK, NEW m \in Names, PasteNode(m) PROVE Keeps
  <1> DEFINE x == [kind |-> clipboard.kind, ref |-> clipboard.ref]
  <1>1. clipboard \in Clip /\ clipboard.kind \in {"plain", "result"}
    BY Pasted DEF PasteNode
  <1>2. x \in Node /\ ~IsEntry(x.kind) /\ Declared(x, variables, signals)
    <2>1. clipboard.kind = "plain" => clipboard.ref = NoRef
      BY <1>1 DEF Clip
    <2> QED BY <1>1, <2>1, ClipFields, NodeMade DEF IsEntry, Declared
  <1>3. PlaceNode(m, x) /\ variables' = variables /\ signals' = signals
    BY DEF PasteNode
  <1> HIDE DEF x
  <1> QED BY <1>2, <1>3, PlaceNodeKeeps

LEMMA PasteCallKeeps == ASSUME Well, ClipOK, NEW m \in Names, PasteCall(m) PROVE Keeps
  <1> DEFINE x == [kind |-> "call", ref |-> functions[clipboard.name].guid]
  <1>1. clipboard \in Clip /\ clipboard.name \in DOMAIN functions
    BY Pasted DEF PasteCall
  <1>2. x \in Node /\ ~IsEntry(x.kind) /\ Declared(x, variables, signals)
    BY <1>1, ClipFields, NodeMade, WellFacts DEF IsEntry, Declared
  <1>3. PlaceNode(m, x) /\ variables' = variables /\ signals' = signals
    BY DEF PasteCall
  <1> HIDE DEF x
  <1> QED BY <1>2, <1>3, PlaceNodeKeeps

\* The function first, then the call.
LEMMA PasteCallCreatingKeeps ==
    ASSUME Well, ClipOK, NEW m \in Names, NEW g \in Guids, NEW withResult \in BOOLEAN,
           PasteCallCreating(m, g, withResult)
    PROVE  Keeps
  <1> DEFINE key == clipboard.key
             known(e) == With(functions, clipboard.key, [guid |-> g, owner |-> e, user |-> clipboard.user])
             above(e) == IF withResult THEN e + 2 ELSE e + 1
             there(e) == IF clipboard.name \in DOMAIN known(e) THEN {above(e)} ELSE {}
             calls(e) == [i \in there(e) |-> [kind |-> "call", ref |-> known(e)[clipboard.name].guid]]
  <1>1. PICK e \in NodeIds :
          /\ IsAvailable(e)
          /\ DOMAIN FunctionNodes(g, e, withResult) \cup there(e) \subseteq NodeIds
          /\ nodes' = [i \in DOMAIN nodes \cup DOMAIN FunctionNodes(g, e, withResult) \cup there(e) |->
                          IF i \in there(e) THEN calls(e)[i] ELSE NodesWith(FunctionNodes(g, e, withResult))[i]]
          /\ graphs' = [GraphsWith(key, FunctionNodes(g, e, withResult)) EXCEPT
                          ![m] = WithNodes(@, there(e), calls(e))]
          /\ functions' = known(e)
          /\ links' = IF withResult THEN links \cup {<<e, e + 1>>} ELSE links
    BY DEF PasteCallCreating
  <1> DEFINE P == there(e)
             call == calls(e)
             N0 == NodesWith(FunctionNodes(g, e, withResult))
             G0 == GraphsWith(key, FunctionNodes(g, e, withResult))
  <1>2. /\ key \in Names /\ clipboard.name \in Names /\ clipboard.user \in BOOLEAN
        /\ m \in DOMAIN graphs /\ ~NameTaken(key) /\ key \notin DOMAIN graphs
        /\ variables' = variables /\ signals' = signals
    BY Pasted, ClipFields DEF PasteCallCreating, IsIdentifierUsed
  <1>3. /\ Fine(N0, G0, functions', variables, signals, links')
        /\ Tidy => InPlace(N0, G0, functions', links')
        /\ DOMAIN N0 = DOMAIN nodes \cup DOMAIN FunctionNodes(g, e, withResult)
        /\ DOMAIN graphs \subseteq DOMAIN G0
    <2>1. FunctionMade(key, g, clipboard.user, withResult, e, N0, G0, functions', links')
      BY <1>1, <1>2 DEF FunctionMade
    <2> HIDE DEF N0, G0, key
    <2>2. TablesKept(g, withResult, e, N0, G0, functions', links')
      BY <2>1, FunctionTables
    <2> QED BY <2>2 DEF TablesKept
  <1>4. P \subseteq NodeIds /\ P \cap DOMAIN N0 = {}
    <2>1. /\ e \in Nat /\ \A c \in Nat : e <= c => c \notin DOMAIN nodes
      BY <1>1, AvailableFresh, WellFacts
    <2>2. /\ above(e) \in Nat /\ e <= above(e)
          /\ \A i \in DOMAIN FunctionNodes(g, e, withResult) : i # above(e)
      BY <2>1 DEF FunctionNodes
    <2>3. \A i \in P : i = above(e)
      OBVIOUS
    <2> HIDE DEF there
    <2> QED BY <1>1, <1>3, <2>1, <2>2, <2>3
  <1>5. \A i \in P : /\ call[i] \in Node /\ call[i].kind = "call"
    <2>1. ASSUME clipboard.name \in DOMAIN functions' PROVE functions'[clipboard.name].guid \in Guids
      BY <1>3, <2>1 DEF Fine, Typed, Function
    <2> QED BY <1>1, <2>1, NodeMade
  <1>6. /\ nodes' = [i \in DOMAIN N0 \cup P |-> IF i \in P THEN call[i] ELSE N0[i]]
        /\ graphs' = [G0 EXCEPT ![m] = WithNodes(@, P, call)]
    BY <1>1, <1>3
  <1> HIDE DEF P, call, N0, G0, key
  <1>7. \A i \in P : nodes'[i] = call[i]
    BY <1>6
  <1>8. NodesGrown(N0, P, nodes')
    BY <1>3, <1>4, <1>5, <1>6 DEF NodesGrown, Fine, Typed
  <1>9. GraphGrown(G0, P, nodes', m, graphs')
    <2>1. G0 \in [DOMAIN G0 -> Graph]
      BY <1>3 DEF Fine, Typed
    <2>2. m \in DOMAIN G0 /\ \A i \in P : call[i].kind = nodes'[i].kind
      BY <1>2, <1>3, <1>7
    <2> QED BY <1>2, <1>4, <1>6, <2>1, <2>2, AnyGraphGrows
  <1>10. Grown(N0, G0, functions', P, m, nodes', graphs', functions')
    BY <1>5, <1>7, <1>8, <1>9 DEF Grown, FunctionGrown
  <1>11. links' \in SUBSET (NodeIds \X NodeIds)
    BY <1>3 DEF Fine, Typed
  <1>12. \A i \in P : Declared(nodes'[i], variables, signals)
    BY <1>5, <1>7 DEF Declared
  <1>13. Fine(nodes', graphs', functions', variables, signals, links')
    BY <1>3, <1>10, <1>11, <1>12, GrownFine
  <1>14. Tidy => InPlace(nodes', graphs', functions', links')
    BY <1>3, <1>10, GrownInPlace
  <1> QED BY <1>2, <1>13, <1>14 DEF Keeps, Well, Tidy

\* More may be declared than is used.
LEMMA MoreDeclared ==
    ASSUME NEW N, NEW G, NEW F, NEW V, NEW Q, NEW L, Fine(N, G, F, V, Q, L),
           NEW V1 \in SUBSET Names, NEW Q1 \in SUBSET Names, V \subseteq V1, Q \subseteq Q1
    PROVE  Fine(N, G, F, V1, Q1, L)
  BY DEF Fine, Typed, Uses, Declared

\* What nodes may use: anything, once a node has strayed.
Usable(V) == IF strayed THEN Names ELSE V

LEMMA PasteUseKeeps ==
    ASSUME Well, ClipOK, NEW m \in Names, PasteUse(m)
    PROVE  /\ Fine(nodes', graphs', functions', Usable(variables)', Usable(signals)', links')
           /\ variables' \subseteq Names /\ signals' \subseteq Names /\ strayed' \in BOOLEAN
           /\ Tidy => Tidy'
  <1> DEFINE x == [kind |-> clipboard.kind, ref |-> clipboard.name]
  <1>1. clipboard \in Clip /\ clipboard.kind \in {"variable", "emit"} /\ PlaceNode(m, x)
    BY Pasted DEF PasteUse
  <1>2. x \in Node /\ ~IsEntry(x.kind) /\ clipboard.key \in Names /\ x.kind # "result"
    BY <1>1, ClipFields, NodeMade DEF IsEntry
  <1>3. /\ variables \subseteq variables' /\ signals \subseteq signals'
        /\ variables' \subseteq Names /\ signals' \subseteq Names
        /\ strayed' \in BOOLEAN
        /\ ~strayed' => /\ clipboard.kind = "variable" => clipboard.name \in variables'
                        /\ clipboard.kind = "emit" => clipboard.name \in signals'
    BY <1>1, <1>2, WellFacts DEF PasteUse
  <1>4. /\ Usable(variables)' \in SUBSET Names /\ variables \subseteq Usable(variables)'
        /\ Usable(signals)' \in SUBSET Names /\ signals \subseteq Usable(signals)'
    BY <1>3, WellFacts DEF Usable
  <1>5. Declared(x, Usable(variables)', Usable(signals)')
    BY <1>2, <1>3, NodeFields DEF Usable, Declared
  <1> HIDE DEF x
  <1>6. PICK e \in NodeIds : AddedNow({e}, m) /\ nodes'[e] = x
    BY <1>1, <1>2, PlaceNodeAdds, PlacedNode
  <1>7. links' = links /\ links \in SUBSET (NodeIds \X NodeIds)
    BY <1>1, WellFacts DEF PlaceNode
  <1>8. Fine(nodes, graphs, functions, Usable(variables)', Usable(signals)', links)
    BY <1>4, MoreDeclared DEF Well
  <1>9. \A i \in {e} : Declared(nodes'[i], Usable(variables)', Usable(signals)')
    BY <1>5, <1>6
  <1>10. Fine(nodes', graphs', functions', Usable(variables)', Usable(signals)', links')
    BY <1>6, <1>7, <1>8, <1>9, GrownFine DEF AddedNow
  <1>11. Tidy => Tidy'
    BY <1>6, <1>7, <1>8, GrownInPlace DEF AddedNow, Tidy
  <1> QED BY <1>3, <1>10, <1>11

-----------------------------------------------------------------------------
(* The file, and every step.                                                 *)

\* Before the first reload each node has its place; afterwards graphs of before
\* are with nodes of the file, and only what Well says is left.  A node that
\* strays uses what it likes.
IInv ==
    /\ Fine(nodes, graphs, functions, Usable(variables), Usable(signals), links)
    /\ variables \subseteq Names /\ signals \subseteq Names
    /\ ClipOK /\ strayed \in BOOLEAN
    /\ SavedWell
    /\ reloads \in 0..MaxReloads
    /\ reloads = 0 => Tidy

LEMMA InvWell == ASSUME IInv, ~strayed PROVE Well
  BY DEF IInv, Usable, Well

\* Edits are made only while graphs hold nodes that are there.
Editable == reloads > 0 => Sound

LEMMA TidySound == ASSUME IInv, Editable PROVE Sound
  <1>1. CASE reloads = 0
    BY <1>1 DEF IInv, Tidy, InPlace, Apart, Sound
  <1>2. CASE reloads > 0
    BY <1>2 DEF Editable
  <1> QED BY <1>1, <1>2, BoundAssumption DEF IInv

LEMMA InitInv == Init => IInv
  <1> SUFFICES ASSUME Init PROVE IInv
    OBVIOUS
  <1>1. [kind |-> "event", nodes |-> {}, funs |-> {}] \in Graph
    BY DEF Graph
  <1>2. /\ DOMAIN nodes = {} /\ nodes = [x \in {} |-> x] /\ DOMAIN functions = {} /\ functions = [x \in {} |-> x]
        /\ DOMAIN graphs = {Main} /\ graphs[Main] = [kind |-> "event", nodes |-> {}, funs |-> {}]
        /\ graphs \in [{Main} -> Graph] /\ variables = {} /\ signals = {} /\ links = {} /\ reloads = 0
    BY <1>1 DEF Init, Empty
  <1>3. Well
    BY <1>2, MainAssumption DEF Well, Fine, Typed, Owned, Uses
  <1>4. Tidy
    BY <1>2 DEF Tidy, InPlace, Apart, Inside, Homes, Known
  <1>5. /\ disk.nodes = nodes /\ disk.graphs = graphs /\ disk.functions = functions
        /\ disk.variables = variables /\ disk.signals = signals /\ disk.links = links
    BY DEF Init, Snapshot
  <1>6. SavedWell
    BY <1>3, <1>5 DEF Well, SavedWell
  <1>7. clipboard = Nothing /\ strayed = FALSE
    BY DEF Init
  <1>8. Usable(variables) = variables /\ Usable(signals) = signals
    BY <1>7 DEF Usable
  <1>9. Fine(nodes, graphs, functions, Usable(variables), Usable(signals), links)
    BY <1>3, <1>8 DEF Well
  <1>10. ClipOK /\ strayed \in BOOLEAN
    BY <1>7 DEF ClipOK
  <1>11. variables \subseteq Names /\ signals \subseteq Names /\ reloads \in 0..MaxReloads
    BY <1>2, BoundAssumption
  <1> QED BY <1>4, <1>6, <1>9, <1>10, <1>11 DEF IInv

\* Graphs of before stay as they are, those of the file are theirs; only
\* registrations change.
LEMMA CopyStateInv == ASSUME IInv, CopyState PROVE IInv'
  <1>1. /\ reloads < MaxReloads /\ reloads' = reloads + 1 /\ disk' = disk
        /\ nodes' = disk.nodes /\ functions' = disk.functions /\ variables' = disk.variables
        /\ signals' = disk.signals /\ links' = disk.links
        /\ strayed = FALSE /\ strayed' = FALSE
    BY DEF CopyState, IInv
  <1> DEFINE found(n) == IF n \in DOMAIN disk.graphs THEN disk.graphs[n] ELSE graphs[n]
             events(n) == {i \in found(n).nodes \cap DOMAIN disk.nodes : disk.nodes[i].kind = "event"}
             all == DOMAIN graphs \cup DOMAIN disk.graphs
  <1>2. PICK missed \in SUBSET ((UNION {found(n).funs : n \in all}) \ DOMAIN disk.nodes) :
            graphs' = [n \in DOMAIN graphs \cup DOMAIN disk.graphs |->
                          [found(n) EXCEPT !.funs = {i \in @ \cup events(n) :
                                                        i \in DOMAIN disk.nodes \cup missed}]]
    BY DEF CopyState
  <1>3. /\ DOMAIN disk.graphs \subseteq Names /\ disk.graphs \in [DOMAIN disk.graphs -> Graph]
        /\ DOMAIN graphs \subseteq Names /\ graphs \in [DOMAIN graphs -> Graph]
    BY DEF IInv, SavedWell, Fine, Typed
  <1>4. ASSUME NEW n \in DOMAIN graphs \cup DOMAIN disk.graphs PROVE graphs'[n] \in Graph
    <2>1. found(n) \in Graph
      BY <1>3
    <2>2. graphs'[n] = [found(n) EXCEPT !.funs = {i \in @ \cup events(n) : i \in DOMAIN disk.nodes \cup missed}]
      BY <1>2
    <2> HIDE DEF found
    <2>3. /\ {i \in found(n).funs \cup events(n) : i \in DOMAIN disk.nodes \cup missed} \in SUBSET NodeIds
      BY <2>1 DEF Graph
    <2> QED BY <2>1, <2>2, <2>3 DEF Graph
  <1>5. DOMAIN graphs' \subseteq Names /\ graphs' \in [DOMAIN graphs' -> Graph]
    <2> HIDE DEF found, events
    <2> QED BY <1>2, <1>3, <1>4
  <1>6. Well'
    BY <1>1, <1>5 DEF IInv, SavedWell, Well, Fine, Typed
  <1>7. SavedWell'
    BY <1>1 DEF IInv, SavedWell
  <1>8. reloads' \in 0..MaxReloads /\ reloads' # 0
    BY <1>1, BoundAssumption DEF IInv
  <1>9. ClipOK'
    BY ClipChanges DEF CopyState, IInv, ClipOK
  <1> QED BY <1>1, <1>6, <1>7, <1>8, <1>9 DEF IInv, Well, Usable, Fine, Typed

LEMMA SaveInv == ASSUME IInv, Save PROVE IInv'
  <1>1. /\ disk'.nodes = nodes /\ disk'.graphs = graphs /\ disk'.functions = functions
        /\ disk'.variables = variables /\ disk'.signals = signals /\ disk'.links = links
        /\ UNCHANGED <<nodes, graphs, functions, variables, signals, links, clipboard, strayed, reloads>>
        /\ strayed = FALSE
    BY DEF Save, Snapshot, store, IInv
  <1>2. SavedWell'
    BY <1>1 DEF IInv, Usable, SavedWell
  <1> QED BY <1>1, <1>2 DEF IInv, Usable, Tidy, ClipOK

\* What an edit keeps, a step keeps.
LEMMA EditInv == ASSUME IInv, Keeps, Filed, ClipOK' PROVE IInv'
  BY DEF IInv, Keeps, Well, Usable, Fine, Typed, Filed, SavedWell

LEMMA KeptInv == ASSUME IInv, Keeps, Kept PROVE IInv'
  <1>1. ClipOK'
    BY DEF Kept, IInv, ClipOK
  <1> QED BY <1>1, EditInv DEF Kept

LEMMA EditGraphsInv == ASSUME IInv, Well, EditGraphs PROVE IInv'
  <1>1. ASSUME NEW n \in Names, CreateGraph(n) PROVE IInv'
    BY <1>1, CreateGraphKeeps, KeptInv DEF CreateGraph
  <1>2. ASSUME NEW n \in Names, RemoveGraph(n) PROVE IInv'
    BY <1>2, RemoveGraphKeeps, KeptInv DEF RemoveGraph
  <1>3. ASSUME NEW o \in Names, NEW n \in Names, RenameGraph(o, n) PROVE IInv'
    BY <1>3, RenameGraphKeeps, KeptInv DEF RenameGraph
  <1> QED BY <1>1, <1>2, <1>3 DEF EditGraphs

LEMMA EditFunctionsInv == ASSUME IInv, Well, Sound, EditFunctions PROVE IInv'
  <1>1. ASSUME NEW n \in Names, NEW g \in Guids, NEW user \in BOOLEAN, NEW withResult \in BOOLEAN,
               NEW linked \in BOOLEAN, CreateFunction(n, g, user, withResult, linked)
        PROVE  IInv'
    <2>1. Kept
      BY <1>1 DEF CreateFunction
    <2> QED BY <1>1, <2>1, CreateFunctionKeeps, KeptInv
  <1>2. ASSUME NEW m \in Names, NEW n \in Names, NEW g \in Guids, CreateEvent(m, n, g, FALSE) PROVE IInv'
    <2>1. Kept
      BY <1>2 DEF CreateEvent
    <2> QED BY <1>2, <2>1, CreateEventKeeps, KeptInv
  <1>3. ASSUME NEW n \in Names, RemoveFunction(n) PROVE IInv'
    <2>1. Kept
      BY <1>3 DEF RemoveFunction
    <2> QED BY <1>3, <2>1, RemoveFunctionKeeps, KeptInv
  <1>4. ASSUME NEW o \in Names, NEW n \in Names, RenameFunction(o, n) PROVE IInv'
    <2>1. Filed /\ clipboard' = FunctionRenamed(o, n)
      BY <1>4 DEF RenameFunction
    <2>2. FunctionRenamed(o, n) \in Clip \cup {Nothing}
      BY ClipChanges DEF IInv, ClipOK, FunctionRenamed
    <2>3. ClipOK'
      BY <2>1, <2>2 DEF ClipOK
    <2> QED BY <1>4, <2>1, <2>3, RenameFunctionKeeps, EditInv
  <1>5. ASSUME NEW o \in Names, NEW n \in Names, NEW g \in Guids, NEW withCode \in BOOLEAN,
               DuplicateFunction(o, n, g, withCode)
        PROVE  IInv'
    <2>1. Kept
      BY <1>5 DEF DuplicateFunction
    <2> QED BY <1>5, <2>1, DuplicateFunctionKeeps, KeptInv
  <1> QED BY <1>1, <1>2, <1>3, <1>4, <1>5 DEF EditFunctions

\* A name or its loss reaches the clipboard.
LEMMA MemberClip ==
    ASSUME ClipOK, NEW kind \in {"variable", "emit"}, NEW old, NEW new \in Names,
           ClipRenamed(kind, old, new) \/ ClipReleased(kind, old)
    PROVE  ClipOK'
  BY ClipChanges DEF ClipOK, ClipRenamed, ClipReleased, Holds

LEMMA EditMembersInv == ASSUME IInv, Well, EditMembers PROVE IInv'
  <1>1. ClipOK
    BY DEF IInv
  <1>2. ASSUME NEW n \in Names, CreateVariable(n) \/ CreateSignal(n) PROVE IInv'
    <2>1. Kept
      BY <1>2 DEF CreateVariable, CreateSignal
    <2> QED BY <1>2, <2>1, MemberCreatedKeeps, KeptInv
  <1>3. ASSUME NEW n \in Names, RemoveVariable(n) PROVE IInv'
    <2>1. ClipReleased("variable", n) /\ Filed
      BY <1>3 DEF RemoveVariable
    <2> QED BY <1>1, <1>3, <2>1, MemberClip, RemoveVariableKeeps, EditInv
  <1>4. ASSUME NEW n \in Names, RemoveSignal(n) PROVE IInv'
    <2>1. ClipReleased("emit", n) /\ Filed
      BY <1>4 DEF RemoveSignal
    <2> QED BY <1>1, <1>4, <2>1, MemberClip, RemoveSignalKeeps, EditInv
  <1>5. ASSUME NEW o \in Names, NEW n \in Names, RenameVariable(o, n) PROVE IInv'
    <2>1. ClipRenamed("variable", o, n) /\ Filed
      BY <1>5 DEF RenameVariable
    <2> QED BY <1>1, <1>5, <2>1, MemberClip, RenameVariableKeeps, EditInv
  <1>6. ASSUME NEW o \in Names, NEW n \in Names, RenameSignal(o, n) PROVE IInv'
    <2>1. ClipRenamed("emit", o, n) /\ Filed
      BY <1>6 DEF RenameSignal
    <2> QED BY <1>1, <1>6, <2>1, MemberClip, RenameSignalKeeps, EditInv
  <1> QED BY <1>2, <1>3, <1>4, <1>5, <1>6 DEF EditMembers

LEMMA EditNodesInv == ASSUME IInv, Well, Sound, EditNodes PROVE IInv'
  <1>1. DOMAIN graphs \subseteq Names
    BY WellFacts
  <1>2. ASSUME NEW m \in Names, NEW kind \in Kinds, NEW ref \in Names \cup Guids \cup {NoRef}, AddNode(m, kind, ref)
        PROVE  IInv'
    <2>1. Kept
      BY <1>2 DEF AddNode
    <2> QED BY <1>2, <2>1, AddNodeKeeps, KeptInv
  <1>3. ASSUME NEW i \in NodeIds, RemoveNode(i) PROVE IInv'
    BY <1>3, RemoveNodeKeeps, KeptInv DEF RemoveNode
  <1>4. ASSUME NEW m \in DOMAIN graphs, NEW S \in SUBSET graphs[m].nodes, DuplicateNodes(m, S) PROVE IInv'
    <2>1. CopyInto(m, S) /\ \A i \in S : nodes[i].kind # "entry"
      BY <1>4 DEF DuplicateNodes
    <2>2. Kept
      BY <2>1 DEF CopyInto
    <2> QED BY <2>1, <2>2, CopyIntoKeeps, KeptInv
  <1>5. ASSUME NEW m \in DOMAIN graphs, NEW n \in DOMAIN graphs, NEW i \in DOMAIN nodes, ExpandCall(m, i, n)
        PROVE  IInv'
    <2>1. Kept
      BY <1>5 DEF ExpandCall
    <2> QED BY <1>5, <2>1, ExpandCallKeeps, KeptInv
  <1>6. ASSUME NEW m \in DOMAIN graphs, NEW a \in graphs[m].nodes, NEW b \in graphs[m].nodes, Link(a, b)
        PROVE  IInv'
    BY <1>6, LinkKeeps, KeptInv DEF Link
  <1>7. ASSUME NEW l \in links, Unlink(l) PROVE IInv'
    BY <1>7, UnlinkKeeps, KeptInv DEF Unlink
  <1>8. ASSUME NEW m \in DOMAIN graphs, NEW n \in Names, NEW g \in Guids, NEW S \in SUBSET graphs[m].nodes,
               Collapse(m, S, n, g)
        PROVE  IInv'
    <2>1. Kept
      BY <1>8 DEF Collapse
    <2> QED BY <1>1, <1>8, <2>1, CollapseKeeps, KeptInv
  <1> QED BY <1>2, <1>3, <1>4, <1>5, <1>6, <1>7, <1>8 DEF EditNodes

\* A node that is copied leaves the tables as they are.
LEMMA CopyInv == ASSUME IInv, Well, NEW m \in Names, NEW i \in NodeIds, Copy(m, i) PROVE IInv'
  <1>1. i \in DOMAIN nodes /\ nodes[i] \in Node /\ nodes[i].kind # "entry"
    BY WellFacts DEF Copy
  <1> DEFINE x == nodes[i]
             uses(ref, n, user, live) == [kind |-> x.kind, ref |-> ref, key |-> n, name |-> n,
                                          user |-> user, live |-> live]
             found == {n \in DOMAIN functions : functions[n].guid = x.ref}
  <1>2. \/ x.kind \in {"plain", "result"} /\ clipboard' = uses(x.ref, NoRef, FALSE, FALSE)
        \/ x.kind \in {"variable", "emit"} /\ clipboard' = uses(NoRef, x.ref, FALSE, TRUE)
        \/ clipboard' = Nothing
        \/ /\ x.kind \in {"call", "event"}
           /\ \E n \in found : clipboard' = uses(x.ref, n, functions[n].user, TRUE)
    BY <1>1 DEF Copy, Node
  <1>3. ASSUME x.kind \in {"plain", "result"}, clipboard' = uses(x.ref, NoRef, FALSE, FALSE)
        PROVE  ClipOK'
    <2>1. x.kind = "plain" => x.ref = NoRef
      BY <1>1 DEF Node
    <2>2. x.ref \in Guids \cup {NoRef}
      BY <1>1, <1>3, <2>1, NodeFields DEF Terminators
    <2>3. CASE x.ref = NoRef
      <3>1. clipboard' \in [kind : {"plain", "result"}, ref : {NoRef},
                            key : {NoRef}, name : {NoRef}, user : {FALSE}, live : {FALSE}]
        BY <1>3, <2>3
      <3> QED BY <3>1 DEF ClipOK, Clip
    <2>4. CASE x.ref \in Guids /\ x.kind = "result"
      <3>1. clipboard' \in [kind : {"result"}, ref : Guids,
                            key : {NoRef}, name : {NoRef}, user : {FALSE}, live : {FALSE}]
        BY <1>3, <2>4, NoRefAssumption
      <3> QED BY <3>1 DEF ClipOK, Clip
    <2> QED BY <1>3, <2>1, <2>2, <2>3, <2>4
  <1>4. ASSUME x.kind \in {"variable", "emit"}, clipboard' = uses(NoRef, x.ref, FALSE, TRUE)
        PROVE  ClipOK'
    <2>1. x.ref \in Names
      BY <1>1, <1>4, NodeFields
    <2>2. clipboard' \in [kind : {"variable", "emit"}, ref : {NoRef},
                         key : Names, name : Names, user : {FALSE}, live : BOOLEAN]
      BY <1>4, <2>1
    <2> QED BY <2>2 DEF ClipOK, Clip
  <1>5. ASSUME x.kind \in {"call", "event"}, NEW n \in found, clipboard' = uses(x.ref, n, functions[n].user, TRUE)
        PROVE  ClipOK'
    <2>1. x.ref \in Guids /\ n \in Names /\ functions[n].user \in BOOLEAN
      BY <1>1, <1>5, NodeFields, WellFacts DEF Function, Terminators
    <2>2. clipboard' \in [kind : {"call", "event"}, ref : Guids,
                         key : Names, name : Names, user : BOOLEAN, live : BOOLEAN]
      BY <1>5, <2>1
    <2> QED BY <2>2 DEF ClipOK, Clip
  <1>6. ClipOK'
    <2> HIDE DEF uses, found
    <2>1. clipboard' = Nothing => ClipOK'
      BY DEF ClipOK
    <2> QED BY <1>2, <1>3, <1>4, <1>5, <2>1
  <1>7. /\ UNCHANGED <<nodes, graphs, functions, variables, signals, links>> /\ Filed
    BY DEF Copy, store
  <1>8. Keeps
    BY <1>7 DEF Keeps, Well, Tidy
  <1> QED BY <1>6, <1>7, <1>8, EditInv

LEMMA CopyAndPasteInv == ASSUME IInv, Well, CopyAndPaste PROVE IInv'
  <1>1. ClipOK
    BY DEF IInv
  <1>2. ASSUME NEW m \in Names, PasteNode(m) PROVE IInv'
    BY <1>1, <1>2, PasteNodeKeeps, KeptInv DEF PasteNode
  <1>3. ASSUME NEW m \in Names, PasteUse(m) PROVE IInv'
    <2>1. UNCHANGED <<clipboard, disk, reloads>>
      BY <1>3 DEF PasteUse
    <2>2. ClipOK' /\ SavedWell'
      BY <2>1 DEF IInv, ClipOK, SavedWell
    <2> QED BY <1>1, <1>3, <2>1, <2>2, PasteUseKeeps DEF IInv
  <1>4. ASSUME NEW m \in Names, PasteCall(m) PROVE IInv'
    BY <1>1, <1>4, PasteCallKeeps, KeptInv DEF PasteCall
  <1>5. ASSUME NEW m \in Names, NEW g \in Guids, NEW withResult \in BOOLEAN, PasteCallCreating(m, g, withResult)
        PROVE  IInv'
    <2>1. Kept
      BY <1>5 DEF PasteCallCreating
    <2> QED BY <1>1, <1>5, <2>1, PasteCallCreatingKeeps, KeptInv
  <1>6. ASSUME NEW m \in Names, NEW g \in Guids, PasteEvent(m, g) PROVE IInv'
    <2>1. CreateEvent(m, clipboard.name, g, clipboard.user) /\ clipboard.kind = "event"
      BY <1>6 DEF PasteEvent
    <2>2. clipboard.name \in Names /\ clipboard.user \in BOOLEAN
      BY <1>1, <2>1, Pasted, ClipFields
    <2>3. Kept
      BY <2>1 DEF CreateEvent
    <2> QED BY <2>1, <2>2, <2>3, CreateEventKeeps, KeptInv
  <1> QED BY <1>2, <1>3, <1>4, <1>5, <1>6, CopyInv DEF CopyAndPaste

\* Nothing is done once a node has strayed.
LEMMA NextWell == ASSUME IInv, Next PROVE Well
  <1>1. CASE EditGraphs
    BY <1>1, InvWell DEF EditGraphs, CreateGraph, RemoveGraph, RenameGraph, Kept, Filed
  <1>2. CASE EditFunctions
    <2>1. \A n, g, user, withResult, linked : CreateFunction(n, g, user, withResult, linked) => ~strayed
      BY DEF CreateFunction, Kept, Filed
    <2>2. \A m, n, g, user : CreateEvent(m, n, g, user) => ~strayed
      BY DEF CreateEvent, Kept, Filed
    <2>3. \A n : RemoveFunction(n) => ~strayed
      BY DEF RemoveFunction, Kept, Filed
    <2>4. \A o, n : RenameFunction(o, n) => ~strayed
      BY DEF RenameFunction, Filed
    <2>5. ASSUME NEW o, NEW n, NEW g, NEW withCode, DuplicateFunction(o, n, g, withCode) PROVE ~strayed
      <3>1. Kept
        BY <2>5 DEF DuplicateFunction
      <3> QED BY <3>1 DEF Kept, Filed
    <2> QED BY <1>2, <2>1, <2>2, <2>3, <2>4, <2>5, InvWell DEF EditFunctions
  <1>3. CASE EditMembers
    BY <1>3, InvWell DEF EditMembers, CreateVariable, RemoveVariable, RenameVariable,
                         CreateSignal, RemoveSignal, RenameSignal, Kept, Filed
  <1>4. CASE EditNodes
    <2>1. \A m, kind, ref : AddNode(m, kind, ref) => ~strayed
      BY DEF AddNode, Kept, Filed
    <2>2. \A i : RemoveNode(i) => ~strayed
      BY DEF RemoveNode, Kept, Filed
    <2>3. \A m, S : DuplicateNodes(m, S) => ~strayed
      BY DEF DuplicateNodes, CopyInto, Kept, Filed
    <2>4. \A m, i, n : ExpandCall(m, i, n) => ~strayed
      BY DEF ExpandCall, Kept, Filed
    <2>5. \A a, b, l : Link(a, b) \/ Unlink(l) => ~strayed
      BY DEF Link, Unlink, Kept, Filed
    <2>6. \A m, S, n, g : Collapse(m, S, n, g) => ~strayed
      BY DEF Collapse, Kept, Filed
    <2> QED BY <1>4, <2>1, <2>2, <2>3, <2>4, <2>5, <2>6, InvWell DEF EditNodes
  <1>5. CASE CopyAndPaste
    BY <1>5, InvWell DEF CopyAndPaste, Copy, PasteNode, PasteUse, PasteCall, PasteCallCreating, PasteEvent,
                         CreateEvent, Kept, Filed
  <1>6. CASE Save \/ CopyState
    BY <1>6, InvWell DEF Save, CopyState
  <1> QED BY <1>1, <1>2, <1>3, <1>4, <1>5, <1>6 DEF Next

LEMMA NextInv == IInv /\ Editable /\ [Next]_vars => IInv'
  <1> SUFFICES ASSUME IInv, Editable, [Next]_vars PROVE IInv'
    OBVIOUS
  <1>1. Sound
    BY TidySound
  <1>2. CASE UNCHANGED vars
    BY <1>2 DEF vars, IInv, Usable, ClipOK, SavedWell, Tidy
  <1>3. CASE Next
    BY <1>1, <1>3, NextWell, EditGraphsInv, EditFunctionsInv, EditMembersInv, EditNodesInv, CopyAndPasteInv,
       SaveInv, CopyStateInv DEF Next
  <1> QED BY <1>2, <1>3

LEMMA InvHolds == Spec /\ []Editable => []IInv
  BY InitInv, NextInv, PTL DEF Spec

-----------------------------------------------------------------------------
(* What follows.                                                             *)

LEMMA TidyInPlace == ASSUME Tidy PROVE NodesInOneGraph /\ LinksWithinGraph /\ GraphOfFunction /\ EntriesRegistered
  <1>1. NodesInOneGraph
    BY DEF Tidy, InPlace, Apart, NodesInOneGraph
  <1>2. LinksWithinGraph
    BY DEF Tidy, InPlace, Inside, LinksWithinGraph
  <1>3. GraphOfFunction
    BY DEF Tidy, InPlace, Homes, GraphOfFunction
  <1>4. EntriesRegistered
    BY DEF Tidy, InPlace, Known, EntriesRegistered
  <1> QED BY <1>1, <1>2, <1>3, <1>4

LEMMA InvWellFormed == IInv => WellFormed
  <1> SUFFICES ASSUME IInv PROVE WellFormed
    OBVIOUS
  <1>1. TypeOK
    BY DEF IInv, ClipOK, Fine, Typed, TypeOK
  <1>2. FunctionOwned
    BY DEF IInv, Fine, Owned, FunctionOwned
  <1> QED BY <1>1, <1>2, TidyInPlace DEF IInv, WellFormed

\* However functions are made, copied, collapsed, expanded, renamed and removed,
\* and whatever file a reload brings, a function keeps its own entry; and until
\* a reload mixes graphs of before with nodes of the file, every node is in one
\* graph, every wire within one, and graphs know their entries.
THEOREM WellFormedSafe == Spec /\ []Editable => []WellFormed
  BY InvHolds, InvWellFormed, PTL

\* No edit, no paste and no reload leaves a node that uses a variable or a
\* signal that is not declared; save for a node pasted after what it uses was
\* renamed and removed, with which the model ends.
THEOREM UsesDeclaredSafe == Spec /\ []Editable => []UsesDeclared
  <1>1. IInv => UsesDeclared
    BY DEF IInv, Usable, Fine, Uses, Declared, UsesDeclared
  <1> QED BY <1>1, InvHolds, PTL

-----------------------------------------------------------------------------
(* Functions that go leave no calls.                                         *)

\* A guid that nodes of the file refer to, and a function has now, is the guid
\* of a function of the file: guids of functions made since are new to it.
GuidsSaved ==
    \A n \in DOMAIN functions :
        \/ \A i \in DOMAIN disk.nodes : disk.nodes[i].ref # functions[n].guid
        \/ \E k \in DOMAIN disk.functions : disk.functions[k].guid = functions[n].guid

\* Functions keep their guids; new ones have new guids.
GuidsKept ==
    \A n \in DOMAIN functions' :
        \/ \E k \in DOMAIN functions : functions[k].guid = functions'[n].guid
        \/ FreshGuid(functions'[n].guid)

\* An edit that takes a function with a graph away takes its calls away.
Uncalls ==
    \A n \in DOMAIN functions :
        (n \notin DOMAIN functions' /\ nodes[functions[n].owner].kind = "entry"
           /\ \A k \in DOMAIN functions' : functions'[k].guid # functions[n].guid)
        => \A i \in DOMAIN nodes' : nodes'[i].kind = "call" => nodes'[i].ref # functions[n].guid

LEMMA GuidsSavedKept == ASSUME GuidsSaved, GuidsKept, disk' = disk PROVE GuidsSaved'
  BY DEF GuidsSaved, GuidsKept, FreshGuid

\* One function more, with a new guid.
LEMMA FunctionAdded ==
    ASSUME NEW n, n \notin DOMAIN functions, NEW f, FreshGuid(f.guid), functions' = With(functions, n, f)
    PROVE  GuidsKept /\ Uncalls
  BY DEF With, GuidsKept, Uncalls

LEMMA FunctionsUnchanged == ASSUME functions' = functions PROVE GuidsKept /\ Uncalls
  BY DEF GuidsKept, Uncalls

\* Functions of some nodes fewer, none of them an entry.
LEMMA OthersRemoved ==
    ASSUME NEW S, functions' = FunctionsWithout(S), \A i \in S : nodes[i].kind # "entry"
    PROVE  GuidsKept /\ Uncalls
  BY DEF FunctionsWithout, GuidsKept, Uncalls

LEMMA RemoveGraphUncalls == ASSUME Tidy, NEW n \in Names, RemoveGraph(n) PROVE GuidsKept /\ Uncalls
  <1>1. functions' = FunctionsWithout(graphs[n].nodes) /\ n \in DOMAIN graphs /\ graphs[n].kind = "event"
    BY DEF RemoveGraph, RemoveNodes
  <1>2. \A i \in graphs[n].nodes : nodes[i].kind # "entry"
    BY <1>1 DEF Tidy, InPlace, Known
  <1> QED BY <1>1, <1>2, OthersRemoved

LEMMA RemoveFunctionUncalls == ASSUME Well, Tidy, NEW n \in Names, RemoveFunction(n) PROVE GuidsKept /\ Uncalls
  <1> DEFINE own == IF n \in DOMAIN graphs /\ graphs[n].kind = "function" THEN {n} ELSE {}
             gone(dead) == (UNION {graphs[m].nodes : m \in own}) \cup CallsOf(n) \cup dead \cup {functions[n].owner}
  <1>1. PICK dead \in SUBSET DeadCalls :
            /\ nodes' = Without(nodes, gone(dead))
            /\ functions' = Without(FunctionsWithout(gone(dead)), {n})
    BY DEF RemoveFunction
  <1> DEFINE S == gone(dead)
  <1>2. /\ n \in DOMAIN functions /\ CallsOf(n) \subseteq S
        /\ nodes' = Without(nodes, S) /\ functions' = Without(FunctionsWithout(S), {n})
    <2>1. n \in DOMAIN functions
      BY DEF RemoveFunction
    <2>2. CallsOf(n) \subseteq S
      OBVIOUS
    <2> QED BY <1>1, <2>1, <2>2
  <1>3. \A i \in S : \/ n \in DOMAIN graphs /\ i \in graphs[n].nodes
                     \/ nodes[i].kind = "call"
                     \/ i = functions[n].owner
    <2>1. \A m \in own : m = n /\ n \in DOMAIN graphs
      OBVIOUS
    <2>2. \A i \in CallsOf(n) \cup dead : nodes[i].kind = "call"
      BY DEF CallsOf, DeadCalls
    <2> HIDE DEF own
    <2> QED BY <2>1, <2>2
  <1> HIDE DEF S
  <1>4. /\ \A k \in DOMAIN functions' : k \in DOMAIN functions /\ functions'[k] = functions[k]
        /\ \A k \in DOMAIN functions : k \in DOMAIN functions' \/ k = n \/ functions[k].owner \in S
    BY <1>2 DEF Without, FunctionsWithout
  <1>5. \A i \in DOMAIN nodes' : i \in DOMAIN nodes \ S /\ nodes'[i] = nodes[i]
    BY <1>2 DEF Without
  <1>6. ASSUME NEW k \in DOMAIN functions, k # n, nodes[functions[k].owner].kind = "entry"
        PROVE  functions[k].owner \notin S
    <2>1. functions[k].owner # functions[n].owner
      BY <1>2, <1>6, WellFacts DEF Owned
    <2>2. k \in DOMAIN graphs /\ functions[k].owner \in graphs[k].nodes
      BY <1>6 DEF Tidy, InPlace, Homes
    <2>3. n \in DOMAIN graphs => functions[k].owner \notin graphs[n].nodes
      BY <1>6, <2>2 DEF Tidy, InPlace, Apart
    <2> QED BY <1>3, <1>6, <2>1, <2>3
  <1>7. GuidsKept
    BY <1>4 DEF GuidsKept
  <1>8. Uncalls
    <2> SUFFICES ASSUME NEW k \in DOMAIN functions, k \notin DOMAIN functions',
                        nodes[functions[k].owner].kind = "entry",
                        NEW i \in DOMAIN nodes', nodes'[i].kind = "call"
                 PROVE  nodes'[i].ref # functions[k].guid
      BY DEF Uncalls
    <2>1. k = n
      BY <1>4, <1>6
    <2> QED BY <1>2, <1>5, <2>1 DEF CallsOf
  <1> QED BY <1>7, <1>8

LEMMA RenameFunctionUncalls ==
    ASSUME NEW old \in Names, NEW new \in Names, RenameFunction(old, new) PROVE GuidsKept /\ Uncalls
  <1>1. /\ old \in DOMAIN functions /\ new \notin DOMAIN functions
        /\ functions' = Without(With(functions, new, functions[old]), {old})
    BY DEF RenameFunction, IsIdentifierUsed, NameTaken
  <1>2. Relabelled(functions, old, new, functions')
    BY <1>1, Relabelling
  <1> QED BY <1>2 DEF Relabelled, GuidsKept, Uncalls

LEMMA DuplicateFunctionUncalls ==
    ASSUME NEW old \in Names, NEW new \in Names, NEW g \in Guids, NEW withCode \in BOOLEAN,
           DuplicateFunction(old, new, g, withCode)
    PROVE  GuidsKept /\ Uncalls
  <1>1. /\ new \notin DOMAIN functions /\ FreshGuid(g)
        /\ \/ functions' = functions
           \/ \E o, u : functions' = With(functions, new, [guid |-> g, owner |-> o, user |-> u])
    BY DEF DuplicateFunction
  <1>2. CASE functions' = functions
    BY <1>2, FunctionsUnchanged
  <1>3. ASSUME NEW o, NEW u, functions' = With(functions, new, [guid |-> g, owner |-> o, user |-> u])
        PROVE  GuidsKept /\ Uncalls
    <2>1. [guid |-> g, owner |-> o, user |-> u].guid = g
      OBVIOUS
    <2> QED BY <1>1, <1>3, <2>1, FunctionAdded
  <1> QED BY <1>1, <1>2, <1>3

\* The other edits that make a function.
LEMMA MakingUncalls ==
    ASSUME NEW n, NEW g \in Guids,
           \/ \E user, withResult, linked \in BOOLEAN : CreateFunction(n, g, user, withResult, linked)
           \/ \E m, user : CreateEvent(m, n, g, user)
           \/ \E m \in DOMAIN graphs : \E S \in SUBSET graphs[m].nodes : Collapse(m, S, n, g)
           \/ \E m, withResult : n = clipboard.key /\ PasteCallCreating(m, g, withResult)
    PROVE  GuidsKept /\ Uncalls
  <1>1. /\ n \notin DOMAIN functions /\ FreshGuid(g)
        /\ \E o, u : functions' = With(functions, n, [guid |-> g, owner |-> o, user |-> u])
    <2>1. ASSUME NEW user \in BOOLEAN, NEW withResult \in BOOLEAN, NEW linked \in BOOLEAN,
                 CreateFunction(n, g, user, withResult, linked)
          PROVE  /\ n \notin DOMAIN functions /\ FreshGuid(g)
                 /\ \E o, u : functions' = With(functions, n, [guid |-> g, owner |-> o, user |-> u])
      BY <2>1 DEF CreateFunction, NameTaken
    <2>2. ASSUME NEW m, NEW user, CreateEvent(m, n, g, user)
          PROVE  /\ n \notin DOMAIN functions /\ FreshGuid(g)
                 /\ \E o, u : functions' = With(functions, n, [guid |-> g, owner |-> o, user |-> u])
      BY <2>2 DEF CreateEvent, NameTaken
    <2>3. ASSUME NEW m \in DOMAIN graphs, NEW S \in SUBSET graphs[m].nodes, Collapse(m, S, n, g)
          PROVE  /\ n \notin DOMAIN functions /\ FreshGuid(g)
                 /\ \E o, u : functions' = With(functions, n, [guid |-> g, owner |-> o, user |-> u])
      BY <2>3 DEF Collapse, NameTaken
    <2>4. ASSUME NEW m, NEW withResult, n = clipboard.key, PasteCallCreating(m, g, withResult)
          PROVE  /\ n \notin DOMAIN functions /\ FreshGuid(g)
                 /\ \E o, u : functions' = With(functions, n, [guid |-> g, owner |-> o, user |-> u])
      BY <2>4 DEF PasteCallCreating, IsIdentifierUsed, NameTaken
    <2> QED BY <2>1, <2>2, <2>3, <2>4
  <1>2. PICK o, u : functions' = With(functions, n, [guid |-> g, owner |-> o, user |-> u])
    BY <1>1
  <1>3. [guid |-> g, owner |-> o, user |-> u].guid = g
    OBVIOUS
  <1> QED BY <1>1, <1>2, <1>3, FunctionAdded

\* The other edits that remove nodes.
LEMMA RemovingUncalls ==
    ASSUME NEW n, RemoveVariable(n) \/ RemoveSignal(n) \/ RemoveNode(n)
    PROVE  GuidsKept /\ Uncalls
  <1>1. CASE RemoveVariable(n)
    <2>1. functions' = FunctionsWithout(NodesOf("variable", n))
      BY <1>1 DEF RemoveVariable, RemoveUses, RemoveNodes
    <2>2. \A i \in NodesOf("variable", n) : nodes[i].kind # "entry"
      BY DEF NodesOf
    <2> QED BY <2>1, <2>2, OthersRemoved
  <1>2. CASE RemoveSignal(n)
    <2>1. functions' = FunctionsWithout(NodesOf("emit", n))
      BY <1>2 DEF RemoveSignal, RemoveUses, RemoveNodes
    <2>2. \A i \in NodesOf("emit", n) : nodes[i].kind # "entry"
      BY DEF NodesOf
    <2> QED BY <2>1, <2>2, OthersRemoved
  <1>3. CASE RemoveNode(n)
    <2>1. functions' = FunctionsWithout({n}) /\ \A i \in {n} : nodes[i].kind # "entry"
      BY <1>3 DEF RemoveNode, RemoveNodes
    <2> QED BY <2>1, OthersRemoved
  <1> QED BY <1>1, <1>2, <1>3

\* Until a reload has left a graph behind.
UInv == reloads = 0 => GuidsSaved

LEMMA EditUncalls ==
    ASSUME Well, Tidy, EditGraphs \/ EditFunctions \/ EditMembers \/ EditNodes \/ CopyAndPaste
    PROVE  GuidsKept /\ Uncalls
  <1>1. CASE EditGraphs
    <2>1. ASSUME NEW n \in Names, CreateGraph(n) PROVE GuidsKept /\ Uncalls
      BY <2>1, FunctionsUnchanged DEF CreateGraph
    <2>2. ASSUME NEW o \in Names, NEW n \in Names, RenameGraph(o, n) PROVE GuidsKept /\ Uncalls
      BY <2>2, FunctionsUnchanged DEF RenameGraph
    <2> QED BY <1>1, <2>1, <2>2, RemoveGraphUncalls DEF EditGraphs
  <1>2. CASE EditFunctions
    BY <1>2, MakingUncalls, RemoveFunctionUncalls, RenameFunctionUncalls, DuplicateFunctionUncalls
       DEF EditFunctions
  <1>3. CASE EditMembers
    <2>1. ASSUME NEW n \in Names, CreateVariable(n) \/ CreateSignal(n) PROVE GuidsKept /\ Uncalls
      BY <2>1, FunctionsUnchanged DEF CreateVariable, CreateSignal
    <2>2. ASSUME NEW o \in Names, NEW n \in Names, RenameVariable(o, n) \/ RenameSignal(o, n)
          PROVE  GuidsKept /\ Uncalls
      BY <2>2, FunctionsUnchanged DEF RenameVariable, RenameSignal
    <2> QED BY <1>3, <2>1, <2>2, RemovingUncalls DEF EditMembers
  <1>4. CASE EditNodes
    <2>1. ASSUME NEW m \in Names, NEW kind \in Kinds, NEW ref \in Names \cup Guids \cup {NoRef}, AddNode(m, kind, ref)
          PROVE  GuidsKept /\ Uncalls
      BY <2>1, FunctionsUnchanged DEF AddNode, PlaceNode
    <2>2. ASSUME NEW m \in DOMAIN graphs, NEW S \in SUBSET graphs[m].nodes, DuplicateNodes(m, S)
          PROVE  GuidsKept /\ Uncalls
      BY <2>2, FunctionsUnchanged DEF DuplicateNodes, CopyInto
    <2>3. ASSUME NEW m \in DOMAIN graphs, NEW n \in DOMAIN graphs, NEW i \in DOMAIN nodes, ExpandCall(m, i, n)
          PROVE  GuidsKept /\ Uncalls
      BY <2>3, FunctionsUnchanged DEF ExpandCall
    <2>4. ASSUME NEW a, NEW b, Link(a, b) PROVE GuidsKept /\ Uncalls
      BY <2>4, FunctionsUnchanged DEF Link
    <2>5. ASSUME NEW l, Unlink(l) PROVE GuidsKept /\ Uncalls
      BY <2>5, FunctionsUnchanged DEF Unlink
    <2>6. ASSUME NEW m \in DOMAIN graphs, NEW n \in Names, NEW g \in Guids, NEW S \in SUBSET graphs[m].nodes,
                 Collapse(m, S, n, g)
          PROVE  GuidsKept /\ Uncalls
      BY <2>6, MakingUncalls
    <2> QED BY <1>4, <2>1, <2>2, <2>3, <2>4, <2>5, <2>6, RemovingUncalls DEF EditNodes
  <1>5. CASE CopyAndPaste
    <2>1. ASSUME NEW m \in Names, NEW i \in NodeIds, Copy(m, i) PROVE GuidsKept /\ Uncalls
      BY <2>1, FunctionsUnchanged DEF Copy, store
    <2>2. ASSUME NEW m, PasteNode(m) \/ PasteUse(m) \/ PasteCall(m) PROVE GuidsKept /\ Uncalls
      BY <2>2, FunctionsUnchanged DEF PasteNode, PasteUse, PasteCall, PlaceNode
    <2>3. ASSUME NEW m, NEW g \in Guids, NEW withResult, PasteCallCreating(m, g, withResult)
          PROVE  GuidsKept /\ Uncalls
      BY <2>3, MakingUncalls
    <2>4. ASSUME NEW m, NEW g \in Guids, PasteEvent(m, g) PROVE GuidsKept /\ Uncalls
      BY <2>4, MakingUncalls DEF PasteEvent
    <2> QED BY <1>5, <2>1, <2>2, <2>3, <2>4 DEF CopyAndPaste
  <1> QED BY <1>1, <1>2, <1>3, <1>4, <1>5

\* Edits are before the first reload, or say nothing of it.
OffDisk == disk' = disk /\ reloads' = reloads

LEMMA KeptOffDisk == Kept \/ Filed => OffDisk
  BY DEF Kept, Filed, OffDisk

LEMMA EditOffDisk == EditGraphs \/ EditFunctions \/ EditMembers \/ EditNodes \/ CopyAndPaste => OffDisk
  <1>1. EditGraphs => OffDisk
    BY KeptOffDisk DEF EditGraphs, CreateGraph, RemoveGraph, RenameGraph
  <1>2. EditFunctions => OffDisk
    <2>1. \A n, g, user, withResult, linked : CreateFunction(n, g, user, withResult, linked) => OffDisk
      BY KeptOffDisk DEF CreateFunction
    <2>2. \A m, n, g, user : CreateEvent(m, n, g, user) => OffDisk
      BY KeptOffDisk DEF CreateEvent
    <2>3. \A n : RemoveFunction(n) => OffDisk
      BY KeptOffDisk DEF RemoveFunction
    <2>4. \A o, n : RenameFunction(o, n) => OffDisk
      BY KeptOffDisk DEF RenameFunction
    <2>5. ASSUME NEW o \in Names, NEW n \in Names, NEW g \in Guids, NEW withCode \in BOOLEAN,
                 DuplicateFunction(o, n, g, withCode)
          PROVE  OffDisk
      BY <2>5, KeptOffDisk DEF DuplicateFunction
    <2> QED BY <2>1, <2>2, <2>3, <2>4, <2>5 DEF EditFunctions
  <1>3. EditMembers => OffDisk
    BY KeptOffDisk DEF EditMembers, CreateVariable, RemoveVariable, RenameVariable,
                       CreateSignal, RemoveSignal, RenameSignal
  <1>4. EditNodes => OffDisk
    <2>1. \A m, kind, ref : AddNode(m, kind, ref) => OffDisk
      BY KeptOffDisk DEF AddNode
    <2>2. \A i : RemoveNode(i) => OffDisk
      BY KeptOffDisk DEF RemoveNode
    <2>3. \A m, S : DuplicateNodes(m, S) => OffDisk
      BY KeptOffDisk DEF DuplicateNodes, CopyInto
    <2>4. \A m, i, n : ExpandCall(m, i, n) => OffDisk
      BY KeptOffDisk DEF ExpandCall
    <2>5. \A a, b : Link(a, b) => OffDisk
      BY KeptOffDisk DEF Link
    <2>6. \A l : Unlink(l) => OffDisk
      BY KeptOffDisk DEF Unlink
    <2>7. \A m, S, n, g : Collapse(m, S, n, g) => OffDisk
      BY KeptOffDisk DEF Collapse
    <2> QED BY <2>1, <2>2, <2>3, <2>4, <2>5, <2>6, <2>7 DEF EditNodes
  <1>5. CopyAndPaste => OffDisk
    <2>1. \A m, i : Copy(m, i) => OffDisk
      BY KeptOffDisk DEF Copy
    <2>2. \A m : PasteNode(m) \/ PasteCall(m) => OffDisk
      BY KeptOffDisk DEF PasteNode, PasteCall
    <2>3. \A m : PasteUse(m) => OffDisk
      BY DEF PasteUse, OffDisk
    <2>4. \A m, g, withResult : PasteCallCreating(m, g, withResult) => OffDisk
      BY KeptOffDisk DEF PasteCallCreating
    <2>5. \A m, g : PasteEvent(m, g) => OffDisk
      BY KeptOffDisk DEF PasteEvent, CreateEvent
    <2> QED BY <2>1, <2>2, <2>3, <2>4, <2>5 DEF CopyAndPaste
  <1> QED BY <1>1, <1>2, <1>3, <1>4, <1>5

LEMMA NextUncalls == IInv /\ UInv /\ [Next]_vars => UInv' /\ (reloads = 0 => Uncalls)
  <1> SUFFICES ASSUME IInv, UInv, [Next]_vars PROVE UInv' /\ (reloads = 0 => Uncalls)
    OBVIOUS
  <1>1. CASE UNCHANGED vars
    BY <1>1, FunctionsUnchanged DEF vars, UInv, GuidsSaved
  <1>2. CASE EditGraphs \/ EditFunctions \/ EditMembers \/ EditNodes \/ CopyAndPaste
    <2>1. OffDisk /\ Well
      BY <1>2, EditOffDisk, NextWell DEF Next
    <2>2. CASE reloads = 0
      BY <1>2, <2>1, <2>2, EditUncalls, GuidsSavedKept DEF IInv, UInv, OffDisk
    <2>3. CASE reloads # 0
      BY <2>1, <2>3 DEF OffDisk, UInv
    <2> QED BY <2>2, <2>3
  <1>3. CASE Save
    <2>1. functions' = functions /\ disk'.functions = functions
      BY <1>3 DEF Save, store, Snapshot
    <2>2. GuidsSaved'
      BY <2>1 DEF GuidsSaved
    <2> QED BY <2>1, <2>2, FunctionsUnchanged DEF UInv
  <1>4. CASE CopyState
    <2>1. reloads' = reloads + 1 /\ functions' = disk.functions /\ nodes' = disk.nodes
      BY <1>4 DEF CopyState
    <2>2. UInv'
      BY <2>1, BoundAssumption DEF UInv, IInv
    <2>3. reloads = 0 => Uncalls
      BY <2>1 DEF UInv, GuidsSaved, Uncalls
    <2> QED BY <2>2, <2>3
  <1> QED BY <1>1, <1>2, <1>3, <1>4 DEF Next

\* Whatever edit takes a function away, and if the file that is loaded no
\* longer has it, no call of it is left; until a reload leaves a graph behind.
THEOREM RemovedFunctionUncalledSafe == Spec /\ []Editable => RemovedFunctionUncalled
  <1>1. Init => UInv
    BY DEF Init, Empty, UInv, GuidsSaved
  <1>2. IInv /\ UInv /\ [Next]_vars => UInv'
    BY NextUncalls
  <1>3. IInv /\ UInv /\ [Next]_vars =>
            [\A n \in DOMAIN functions :
                (reloads = 0 /\ n \notin DOMAIN functions' /\ nodes[functions[n].owner].kind = "entry"
                   /\ \A k \in DOMAIN functions' : functions'[k].guid # functions[n].guid)
                => \A i \in DOMAIN nodes' :
                      nodes'[i].kind = "call" => nodes'[i].ref # functions[n].guid]_vars
    BY NextUncalls DEF Uncalls
  <1> QED BY <1>1, <1>2, <1>3, InvHolds, PTL DEF Spec, RemovedFunctionUncalled

-----------------------------------------------------------------------------
(* A document is repaired as it is loaded (OrphanRepair), for any file and   *)
(* any order of the visits.                                                  *)

\* What a graph of the file lists stays placed.
ListedPlaced == \A m \in listed : IsPlaced(m)

\* Nodes that wait to be removed are in no graph and are not visited again.
OrphansApart == orphans \cap pending = {} /\ \A n \in orphans : ~IsPlaced(n)

\* A node that was visited is placed or waits to be removed.
Settled == \A n \in loaded : n \in pending \/ n \in orphans \/ IsPlaced(n)

\* Each phase finds the work of the ones before done.
Phases ==
    /\ phase # "visit" => pending = {}
    /\ phase \in {"prune", "done"} => loaded \cap orphans = {}
    /\ phase = "done" => \A l \in connections : l \subseteq loaded

RepairInv == RepairTypeOK /\ ListedPlaced /\ NeighbourKept /\ OrphansApart /\ Settled /\ Phases

\* A file is in order as far as the repair has come: it has not begun.
LEMMA RepairInitInv == FileInit => RepairInv
  BY DEF FileInit, RepairInv, RepairTypeOK, ListedPlaced, NeighbourKept, OrphansApart, Settled, Phases,
         IsPlaced, Pairs

\* A node with no neighbour in a graph has none that the file listed.
LEMMA NoneNear ==
    ASSUME RepairTypeOK, ListedPlaced, NEW n \in Ids, GraphsNear(n) = {}
    PROVE  \A m \in listed : {n, m} \notin connections
  BY DEF RepairTypeOK, ListedPlaced, GraphsNear, IsPlaced

\* Every visit and every phase leaves the file as far in order.
LEMMA RepairNextInv ==
    ASSUME RepairInv, [RepairNext]_repairVars PROVE RepairInv'
  <1> USE DEF RepairInv, RepairTypeOK, IsPlaced
  <1>1. ASSUME NEW n \in Ids, VisitPlaced(n) PROVE RepairInv'
    BY <1>1 DEF VisitPlaced, ListedPlaced, NeighbourKept, OrphansApart, Settled, Phases
  <1>2. ASSUME NEW n \in Ids, Queue(n) PROVE RepairInv'
    <2>1. RepairTypeOK'
      BY <1>2 DEF Queue
    <2>2. ListedPlaced' /\ OrphansApart' /\ Settled' /\ Phases'
      BY <1>2 DEF Queue, ListedPlaced, OrphansApart, Settled, Phases
    <2>3. NeighbourKept'
      BY <1>2, NoneNear DEF Queue, NeighbourKept
    <2> QED BY <2>1, <2>2, <2>3
  <1>3. ASSUME NEW n \in Ids, NEW g \in Graphs, Return(n, g) PROVE RepairInv'
    <2>1. \A m \in Ids : home'[m] = IF m = n THEN g ELSE home[m]
      BY <1>3 DEF Return
    <2>2. g # None
      BY NoneAssumption
    <2>3. RepairTypeOK'
      BY <1>3 DEF Return
    <2>4. ListedPlaced' /\ NeighbourKept'
      BY <1>3, <2>1, <2>2 DEF Return, ListedPlaced, NeighbourKept
    <2>5. OrphansApart' /\ Settled' /\ Phases'
      BY <1>3, <2>1, <2>2 DEF Return, OrphansApart, Settled, Phases
    <2> QED BY <2>3, <2>4, <2>5
  <1>4. CASE Finish
    BY <1>4 DEF Finish, ListedPlaced, NeighbourKept, OrphansApart, Settled, Phases
  <1>5. CASE Erase
    BY <1>5 DEF Erase, ListedPlaced, NeighbourKept, OrphansApart, Settled, Phases
  <1>6. CASE Prune
    BY <1>6 DEF Prune, ListedPlaced, NeighbourKept, OrphansApart, Settled, Phases
  <1>7. CASE UNCHANGED repairVars
    BY <1>7 DEF repairVars, ListedPlaced, NeighbourKept, OrphansApart, Settled, Phases
  <1> QED BY <1>1, <1>2, <1>3, <1>4, <1>5, <1>6, <1>7 DEF RepairNext

\* The strengthening of Repaired is an invariant of the repair.
LEMMA RepairInvariance == RepairSpec => []RepairInv
  <1>1. RepairInv /\ [RepairNext]_repairVars => RepairInv'
    BY RepairNextInv
  <1> QED BY RepairInitInv, <1>1, PTL DEF RepairSpec

\* A repaired document has no node outside the graphs and no connection with an
\* end that is gone, and no node was given up that a graph's node was wired to.
THEOREM RepairedSafe == RepairSpec => []Repaired
  <1>1. RepairInv => Repaired
    BY DEF RepairInv, Repaired, Settled, Phases
  <1> QED BY <1>1, RepairInvariance, PTL

\* No step of the repair takes what was in order.
LEMMA StepKeeps ==
    ASSUME RepairInv, [RepairNext]_repairVars
    PROVE  /\ \A n \in loaded : IsPlaced(n) => n \in loaded' /\ home'[n] = home[n]
           /\ \A l \in connections : (l \subseteq loaded /\ \A n \in l : IsPlaced(n)) => l \in connections'
  <1> USE DEF RepairInv, RepairTypeOK, IsPlaced
  <1>1. ASSUME NEW n \in Ids, NEW g \in Graphs, Return(n, g)
        PROVE  loaded' = loaded /\ connections' = connections /\ \A m \in loaded : IsPlaced(m) => home'[m] = home[m]
    BY <1>1 DEF Return
  <1>2. CASE Erase
    BY <1>2 DEF Erase, OrphansApart
  <1>3. CASE Prune
    BY <1>3 DEF Prune
  <1>4. ASSUME \/ Finish
               \/ \E n \in Ids : VisitPlaced(n) \/ Queue(n)
               \/ UNCHANGED repairVars
        PROVE  UNCHANGED <<loaded, home, connections>>
    BY <1>4 DEF Finish, VisitPlaced, Queue, repairVars
  <1> QED BY <1>1, <1>2, <1>3, <1>4 DEF RepairNext

\* The repair keeps every node that a graph lists, in its graph, and every
\* connection of two such nodes.
THEOREM PlacedKeptSafe == RepairSpec => PlacedKept
  <1>1. RepairInv /\ [RepairNext]_repairVars =>
          [/\ \A n \in loaded : IsPlaced(n) => n \in loaded' /\ home'[n] = home[n]
           /\ \A l \in connections : (l \subseteq loaded /\ \A n \in l : IsPlaced(n)) => l \in connections']_repairVars
    BY StepKeeps
  <1> QED BY <1>1, RepairInvariance, PTL DEF RepairSpec, PlacedKept

=============================================================================
