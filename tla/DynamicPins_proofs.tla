-------------------------- MODULE DynamicPins_proofs --------------------------
(***************************************************************************)
(* Wires stay with their pins, at nodes of every layout, with any number   *)
(* of elements and wires and any pins at their other ends.                 *)
(*                                                                         *)
(* A change of the pins is told apart from what it is made of: `Carried'   *)
(* says that each wire of after comes from one of before, whose pin has    *)
(* the same role and element, and that no wire was lost whose pin remains. *)
(* From this follow both that wires stay well and that they stay where     *)
(* they were drawn; that each change carries the wires is shown layout by  *)
(* layout.                                                                 *)
(***************************************************************************)
EXTENDS DynamicPins, TLAPS

Dirs == {"in", "out"}

-----------------------------------------------------------------------------
(* Wires carried from pins P to pins Q, both by direction.                   *)

Valid(P, w) == w.port < Len(P[w.dir])
At(P, w) == P[w.dir][w.port + 1]

\* No pin is there twice.
Distinct(P) == \A d \in Dirs : \A p, q \in 1..Len(P[d]) : P[d][p] = P[d][q] => p = q

HasPin(P, d, pin) == \E q \in 1..Len(P[d]) : P[d][q] = pin

\* The wire v of after is the wire w of before, at the same pin.
Follows(v, w, P, Q) ==
    /\ v.dir = w.dir /\ v.peer = w.peer
    /\ Valid(Q, v) => Valid(P, w) /\ At(Q, v) = At(P, w)

Carried(W, V, P, Q) ==
    /\ \A v \in V : \E w \in W : Follows(v, w, P, Q)
    /\ \A w \in W : (Valid(P, w) /\ HasPin(Q, w.dir, At(P, w))) =>
                       \E v \in V : Follows(v, w, P, Q) /\ Valid(Q, v)

\* No wire dangles and none shares a pin that takes one.
Sound(W, P) ==
    /\ \A w \in W : Valid(P, w)
    /\ \A v, w \in W : (v.dir = w.dir /\ v.port = w.port /\ IsSingle(v.dir, At(P, v))) => v = w

DrawnAt(W, P) == {<<w.dir, At(P, w), w.peer>> : w \in {v \in W : Valid(P, v)}}

\* The wires at the pins of Q.
DrawnStill(W, P, Q) == {d \in DrawnAt(W, P) : HasPin(Q, d[1], d[2])}

\* A record of three fields is its fields.
LEMMA SameWire ==
    ASSUME NEW v \in Wire, NEW w \in Wire, v.dir = w.dir, v.port = w.port, v.peer = w.peer PROVE v = w
  BY DEF Wire

LEMMA WireFacts == \A w \in Wire : w.dir \in Dirs /\ w.port \in Nat /\ w.port <= 255 /\ w.peer \in Peers
  BY DEF Wire, Dirs

\* What is carried stays sound.
LEMMA CarriedSound ==
    ASSUME NEW W \in SUBSET Wire, NEW V \in SUBSET Wire, NEW P, NEW Q,
           Carried(W, V, P, Q), Distinct(P), Sound(W, P), \A v \in V : Valid(Q, v),
           \A d \in Dirs : Len(P[d]) \in Nat
    PROVE  Sound(V, Q)
  <1> SUFFICES ASSUME NEW v1 \in V, NEW v2 \in V, v1.dir = v2.dir, v1.port = v2.port,
                      IsSingle(v1.dir, At(Q, v1))
               PROVE  v1 = v2
    BY DEF Sound
  <1>1. PICK w1 \in W : Follows(v1, w1, P, Q)
    BY DEF Carried
  <1>2. PICK w2 \in W : Follows(v2, w2, P, Q)
    BY DEF Carried
  <1>3. At(Q, v1) = At(Q, v2)
    BY DEF At
  <1>4. /\ w1.dir = v1.dir /\ w2.dir = v1.dir /\ w1.peer = v1.peer /\ w2.peer = v2.peer
        /\ Valid(P, w1) /\ Valid(P, w2) /\ At(P, w1) = At(Q, v1) /\ At(P, w2) = At(Q, v1)
    BY <1>1, <1>2, <1>3 DEF Follows
  <1>5. w1 \in Wire /\ w2 \in Wire
    BY <1>1, <1>2
  <1>6. w1.port = w2.port
    <2>1. w1.port + 1 \in 1..Len(P[w1.dir]) /\ w2.port + 1 \in 1..Len(P[w1.dir]) /\ w1.dir \in Dirs
      <3>1. w1.dir \in Dirs /\ w1.port \in Nat /\ w1.port < Len(P[w1.dir])
        BY <1>4, <1>5, WireFacts DEF Valid
      <3>2. w2.port \in Nat /\ w2.port < Len(P[w1.dir])
        BY <1>4, <1>5, WireFacts DEF Valid
      <3> QED BY <3>1, <3>2
    <2>2. P[w1.dir][w1.port + 1] = P[w1.dir][w2.port + 1]
      BY <1>4 DEF At
    <2>3. w1.port + 1 = w2.port + 1
      BY <2>1, <2>2 DEF Distinct
    <2>4. w1.port \in Nat /\ w2.port \in Nat
      BY <1>5, WireFacts
    <2> QED BY <2>3, <2>4
  <1>7. w1 = w2
    <2>1. IsSingle(w1.dir, At(P, w1))
      BY <1>4
    <2> QED BY <1>1, <1>2, <1>4, <1>6, <2>1 DEF Sound
  <1>8. v1.peer = v2.peer /\ v1 \in Wire /\ v2 \in Wire
    BY <1>4, <1>7
  <1> QED BY <1>8, SameWire

\* What is carried is drawn as before, at the pins there are still.
LEMMA CarriedDrawn ==
    ASSUME NEW W \in SUBSET Wire, NEW V \in SUBSET Wire, NEW P, NEW Q, Carried(W, V, P, Q),
           \A d \in Dirs : Len(Q[d]) \in Nat
    PROVE  DrawnAt(V, Q) = DrawnStill(W, P, Q)
  <1>1. ASSUME NEW v \in V, Valid(Q, v)
        PROVE  <<v.dir, At(Q, v), v.peer>> \in DrawnAt(W, P) /\ HasPin(Q, v.dir, At(Q, v))
    <2>1. PICK w \in W : Follows(v, w, P, Q)
      BY DEF Carried
    <2>2. Valid(P, w) /\ <<v.dir, At(Q, v), v.peer>> = <<w.dir, At(P, w), w.peer>>
      BY <1>1, <2>1 DEF Follows
    <2>3. v.port + 1 \in 1..Len(Q[v.dir]) /\ At(Q, v) = Q[v.dir][v.port + 1]
      <3>1. v.dir \in Dirs /\ v.port \in Nat /\ v.port < Len(Q[v.dir])
        <4>1. v \in Wire
          OBVIOUS
        <4> QED BY <1>1, <4>1, WireFacts DEF Valid
      <3> QED BY <3>1 DEF At
    <2> QED BY <2>2, <2>3 DEF DrawnAt, HasPin
  <1>2. ASSUME NEW w \in W, Valid(P, w), HasPin(Q, w.dir, At(P, w))
        PROVE  <<w.dir, At(P, w), w.peer>> \in DrawnAt(V, Q)
    <2>1. PICK v \in V : Follows(v, w, P, Q) /\ Valid(Q, v)
      BY <1>2 DEF Carried
    <2>2. <<w.dir, At(P, w), w.peer>> = <<v.dir, At(Q, v), v.peer>>
      BY <2>1 DEF Follows
    <2> QED BY <2>1, <2>2 DEF DrawnAt
  <1>3. ASSUME NEW d \in DrawnAt(V, Q) PROVE d \in DrawnStill(W, P, Q)
    <2>1. PICK v \in V : Valid(Q, v) /\ d = <<v.dir, At(Q, v), v.peer>>
      BY <1>3 DEF DrawnAt
    <2>2. d \in DrawnAt(W, P) /\ HasPin(Q, v.dir, At(Q, v))
      BY <1>1, <2>1
    <2>3. d[1] = v.dir /\ d[2] = At(Q, v)
      BY <2>1
    <2> QED BY <2>2, <2>3 DEF DrawnStill
  <1>4. ASSUME NEW d \in DrawnStill(W, P, Q) PROVE d \in DrawnAt(V, Q)
    <2>1. d \in DrawnAt(W, P) /\ HasPin(Q, d[1], d[2])
      BY <1>4 DEF DrawnStill
    <2>2. PICK w \in W : Valid(P, w) /\ d = <<w.dir, At(P, w), w.peer>>
      BY <2>1 DEF DrawnAt
    <2>3. d[1] = w.dir /\ d[2] = At(P, w)
      BY <2>2
    <2> QED BY <1>2, <2>1, <2>2, <2>3
  <1> QED BY <1>3, <1>4

-----------------------------------------------------------------------------
(* Pins taken out: of direction d those from A[d] on, K[d] of them.          *)

Gone(w, A, K) == A[w.dir] <= w.port /\ w.port < A[w.dir] + K[w.dir]
Moved(w, A, K) == IF w.port >= A[w.dir] THEN [w EXCEPT !.port = @ - K[w.dir]] ELSE w

CutWires(W, A, K) == {Moved(w, A, K) : w \in {v \in W : ~Gone(v, A, K)}}

\* The row q is the row p without k pins from a on.
CutRow(p, q, a, k) ==
    \A n \in 0..Len(p) - 1 :
        /\ n < a => n < Len(q) /\ q[n + 1] = p[n + 1]
        /\ n >= a + k => n - k < Len(q) /\ q[n - k + 1] = p[n + 1]
        /\ (a <= n /\ n < a + k) => \A m \in 1..Len(q) : q[m] # p[n + 1]

\* A wire that ends nowhere ends nowhere afterwards.
StillLoose(W, P, Q, A, K) ==
    \A w \in W : (~Valid(P, w) /\ ~Gone(w, A, K)) => ~Valid(Q, Moved(w, A, K))

LEMMA WireAt == ASSUME NEW w \in Wire, NEW x \in 0..255 PROVE [w EXCEPT !.port = x] \in Wire
  BY DEF Wire

LEMMA MovedFacts ==
    ASSUME NEW w \in Wire, NEW A \in [Dirs -> Nat], NEW K \in [Dirs -> Nat]
    PROVE  /\ Moved(w, A, K).dir = w.dir /\ Moved(w, A, K).peer = w.peer
           /\ Moved(w, A, K).port = IF w.port >= A[w.dir] THEN w.port - K[w.dir] ELSE w.port
           /\ A[w.dir] \in Nat /\ K[w.dir] \in Nat
           /\ ~Gone(w, A, K) => Moved(w, A, K) \in Wire
  <1>1. A[w.dir] \in Nat /\ K[w.dir] \in Nat /\ w.port \in Nat
    BY WireFacts
  <1>2. /\ Moved(w, A, K).dir = w.dir /\ Moved(w, A, K).peer = w.peer
        /\ Moved(w, A, K).port = IF w.port >= A[w.dir] THEN w.port - K[w.dir] ELSE w.port
    BY DEF Moved, Wire
  <1>3. ASSUME ~Gone(w, A, K) PROVE Moved(w, A, K) \in Wire
    <2>1. CASE w.port >= A[w.dir]
      <3>1. w.port - K[w.dir] \in 0..255
        <4>1. \A n, a, k \in Nat : (n <= 255 /\ ~(a <= n /\ n < a + k) /\ n >= a) => n - k \in 0..255
          OBVIOUS
        <4>2. w.port <= 255 /\ ~(A[w.dir] <= w.port /\ w.port < A[w.dir] + K[w.dir])
          BY <1>3, WireFacts DEF Gone
        <4> QED BY <1>1, <2>1, <4>1, <4>2
      <3> DEFINE x == w.port - K[w.dir]
      <3>2. Moved(w, A, K) = [w EXCEPT !.port = x]
        BY <2>1 DEF Moved
      <3>3. x \in 0..255
        BY <3>1
      <3> HIDE DEF x
      <3>4. [w EXCEPT !.port = x] \in Wire
        BY <3>3, WireAt
      <3> QED BY <3>2, <3>4
    <2>2. CASE ~(w.port >= A[w.dir])
      BY <2>2 DEF Moved
    <2> QED BY <2>1, <2>2
  <1> QED BY <1>1, <1>2, <1>3

LEMMA CutWiresTyped ==
    ASSUME NEW W \in SUBSET Wire, NEW A \in [Dirs -> Nat], NEW K \in [Dirs -> Nat]
    PROVE  CutWires(W, A, K) \in SUBSET Wire
  <1>1. \A w \in W : ~Gone(w, A, K) => Moved(w, A, K) \in Wire
    BY MovedFacts
  <1> QED BY <1>1 DEF CutWires

\* A wire that is not taken out follows its pin.
LEMMA MovedFollows ==
    ASSUME NEW w \in Wire, NEW A \in [Dirs -> Nat], NEW K \in [Dirs -> Nat], NEW P, NEW Q,
           \A d \in Dirs : Len(P[d]) \in Nat /\ CutRow(P[d], Q[d], A[d], K[d]),
           ~Gone(w, A, K), Valid(P, w)
    PROVE  Follows(Moved(w, A, K), w, P, Q) /\ Valid(Q, Moved(w, A, K))
  <1> DEFINE v == Moved(w, A, K)
             a == A[w.dir]
             k == K[w.dir]
  <1>1. /\ v.dir = w.dir /\ v.peer = w.peer /\ a \in Nat /\ k \in Nat
        /\ v.port = IF w.port >= a THEN w.port - k ELSE w.port
        /\ w.port \in Nat /\ w.dir \in Dirs
    BY MovedFacts, WireFacts
  <1>2. w.port \in 0..Len(P[w.dir]) - 1
    <2>1. w.port < Len(P[w.dir]) /\ Len(P[w.dir]) \in Nat
      BY <1>1 DEF Valid
    <2> QED BY <1>1, <2>1
  <1>3. CutRow(P[w.dir], Q[w.dir], a, k)
    BY <1>1
  <1>4. w.port < a \/ w.port >= a + k
    BY <1>1 DEF Gone
  <1> HIDE DEF v, a, k
  <1>5. v.port < Len(Q[w.dir]) /\ Q[w.dir][v.port + 1] = P[w.dir][w.port + 1]
    <2>1. CASE w.port < a
      <3>1. v.port = w.port
        BY <1>1, <2>1
      <3> QED BY <1>2, <1>3, <2>1, <3>1 DEF CutRow
    <2>2. CASE w.port >= a + k
      <3>1. v.port = w.port - k
        BY <1>1, <2>2
      <3> QED BY <1>2, <1>3, <2>2, <3>1 DEF CutRow
    <2> QED BY <1>4, <2>1, <2>2
  <1>6. Valid(Q, v) /\ At(Q, v) = At(P, w)
    BY <1>1, <1>5 DEF Valid, At
  <1>7. Follows(v, w, P, Q) /\ Valid(Q, v)
    BY <1>1, <1>6 DEF Follows, Valid
  <1> QED BY <1>7 DEF v

LEMMA CutCarries ==
    ASSUME NEW W \in SUBSET Wire, NEW A \in [Dirs -> Nat], NEW K \in [Dirs -> Nat], NEW P, NEW Q,
           \A d \in Dirs : Len(P[d]) \in Nat /\ CutRow(P[d], Q[d], A[d], K[d]),
           StillLoose(W, P, Q, A, K)
    PROVE  Carried(W, CutWires(W, A, K), P, Q)
  <1>1. ASSUME NEW w \in W, Valid(P, w), HasPin(Q, w.dir, At(P, w)) PROVE ~Gone(w, A, K)
    <2>1. w \in Wire
      OBVIOUS
    <2>2. w.port \in 0..Len(P[w.dir]) - 1 /\ w.dir \in Dirs /\ A[w.dir] \in Nat /\ K[w.dir] \in Nat
      <3>1. w.port \in Nat /\ w.dir \in Dirs /\ w.port < Len(P[w.dir])
        BY <1>1, <2>1, WireFacts DEF Valid
      <3> QED BY <3>1
    <2>3. CutRow(P[w.dir], Q[w.dir], A[w.dir], K[w.dir])
      BY <2>2
    <2>4. PICK m \in 1..Len(Q[w.dir]) : Q[w.dir][m] = P[w.dir][w.port + 1]
      BY <1>1 DEF HasPin, At
    <2> QED BY <2>2, <2>3, <2>4 DEF CutRow, Gone
  <1>2. ASSUME NEW w \in W, ~Gone(w, A, K)
        PROVE  Follows(Moved(w, A, K), w, P, Q)
    <2>1. w \in Wire
      OBVIOUS
    <2>2. CASE Valid(P, w)
      BY <1>2, <2>1, <2>2, MovedFollows
    <2>3. CASE ~Valid(P, w)
      <3>1. ~Valid(Q, Moved(w, A, K))
        BY <1>2, <2>3 DEF StillLoose
      <3> QED BY <2>1, <3>1, MovedFacts DEF Follows
    <2> QED BY <2>2, <2>3
  <1>3. \A v \in CutWires(W, A, K) : \E w \in W : Follows(v, w, P, Q)
    BY <1>2 DEF CutWires
  <1>4. ASSUME NEW w \in W, Valid(P, w), HasPin(Q, w.dir, At(P, w))
        PROVE  \E v \in CutWires(W, A, K) : Follows(v, w, P, Q) /\ Valid(Q, v)
    <2>1. ~Gone(w, A, K) /\ w \in Wire
      BY <1>1, <1>4
    <2>2. Follows(Moved(w, A, K), w, P, Q) /\ Valid(Q, Moved(w, A, K))
      BY <1>4, <2>1, MovedFollows
    <2>3. Moved(w, A, K) \in CutWires(W, A, K)
      BY <2>1 DEF CutWires
    <2> QED BY <2>2, <2>3
  <1> QED BY <1>3, <1>4 DEF Carried

-----------------------------------------------------------------------------
(* Rows of pins: h fixed ones, one for each element, t fixed ones.           *)

\* Elements are told apart, and from no element.
Named(es) ==
    /\ es \in Seq(Nat)
    /\ \A n \in 1..Len(es) : es[n] > 0
    /\ \A m, n \in 1..Len(es) : es[m] = es[n] => m = n

Row(p, h, role, es, t) ==
    /\ Len(p) = h + Len(es) + t
    /\ \A n \in 1..Len(es) : p[h + n] = <<role, es[n]>>
    /\ \A n \in 1..h : p[n][2] = 0
    /\ \A n \in 1..t : p[h + Len(es) + n][2] = 0

Rest(es, i) == [k \in 1..Len(es) - 1 |-> es[IF k <= i THEN k ELSE k + 1]]

LEMMA RestNamed ==
    ASSUME NEW es, Named(es), NEW i \in Nat, i < Len(es)
    PROVE  /\ Named(Rest(es, i)) /\ Len(Rest(es, i)) = Len(es) - 1
           /\ \A k \in 1..Len(es) - 1 : Rest(es, i)[k] = es[IF k <= i THEN k ELSE k + 1]
  <1>1. Len(es) \in Nat /\ Len(es) - 1 \in Nat /\ \A k \in 1..Len(es) : es[k] \in Nat
    BY DEF Named
  <1>2. \A k \in 1..Len(es) - 1 : (IF k <= i THEN k ELSE k + 1) \in 1..Len(es)
    BY <1>1
  <1>3. /\ Rest(es, i) \in Seq(Nat) /\ Len(Rest(es, i)) = Len(es) - 1
        /\ \A k \in 1..Len(es) - 1 : Rest(es, i)[k] = es[IF k <= i THEN k ELSE k + 1]
    BY <1>1, <1>2 DEF Rest
  <1>4. ASSUME NEW m \in 1..Len(es) - 1, NEW n \in 1..Len(es) - 1, Rest(es, i)[m] = Rest(es, i)[n] PROVE m = n
    <2>1. es[IF m <= i THEN m ELSE m + 1] = es[IF n <= i THEN n ELSE n + 1]
      BY <1>3, <1>4
    <2>2. (IF m <= i THEN m ELSE m + 1) = (IF n <= i THEN n ELSE n + 1)
      BY <1>2, <2>1 DEF Named
    <2> QED BY <1>1, <2>2
  <1>5. \A k \in 1..Len(es) - 1 : Rest(es, i)[k] > 0
    BY <1>2, <1>3 DEF Named
  <1> QED BY <1>3, <1>4, <1>5 DEF Named

\* Without element i, whose pin is at port h + i.
LEMMA RowCut ==
    ASSUME NEW es, Named(es), NEW i \in Nat, i < Len(es), NEW role, NEW h \in Nat, NEW t \in Nat, NEW p, NEW q,
           Row(p, h, role, es, t), Row(q, h, role, Rest(es, i), t),
           \A n \in 1..h : q[n] = p[n],
           \A n \in 1..t : q[h + Len(es) - 1 + n] = p[h + Len(es) + n]
    PROVE  CutRow(p, q, h + i, 1)
  <1> DEFINE len == Len(es)
             rest == Rest(es, i)
  <1>1. /\ len \in Nat /\ Len(p) = h + len + t /\ Len(q) = h + len - 1 + t /\ Len(rest) = len - 1 /\ i < len
        /\ \A k \in 1..len - 1 : rest[k] = es[IF k <= i THEN k ELSE k + 1]
    <2>1. Len(rest) = len - 1 /\ \A k \in 1..len - 1 : rest[k] = es[IF k <= i THEN k ELSE k + 1]
      BY RestNamed
    <2>2. len \in Nat
      BY DEF Named
    <2> HIDE DEF len, rest
    <2>3. Len(p) = h + len + t /\ Len(q) = h + Len(rest) + t
      BY DEF Row, len, rest
    <2>4. i < len
      BY DEF len
    <2> QED BY <2>1, <2>2, <2>3, <2>4
  <1>2. /\ \A n \in 1..len : p[h + n] = <<role, es[n]>>
        /\ \A n \in 1..len - 1 : q[h + n] = <<role, rest[n]>>
    BY <1>1 DEF Row
  <1>3. /\ \A n \in 1..h : q[n] = p[n] /\ q[n][2] = 0
        /\ \A n \in 1..t : q[h + len - 1 + n] = p[h + len + n] /\ q[h + len - 1 + n][2] = 0
    BY <1>1 DEF Row
  <1>4. /\ \A n \in 1..len : es[n] > 0 /\ es[n] \in Nat
        /\ \A m, n \in 1..len : es[m] = es[n] => m = n
    BY DEF Named
  <1> HIDE DEF len, rest
  <1> SUFFICES ASSUME NEW n \in 0..Len(p) - 1
               PROVE  /\ n < h + i => n < Len(q) /\ q[n + 1] = p[n + 1]
                      /\ n >= h + i + 1 => n - 1 < Len(q) /\ q[n - 1 + 1] = p[n + 1]
                      /\ (h + i <= n /\ n < h + i + 1) => \A m \in 1..Len(q) : q[m] # p[n + 1]
    BY DEF CutRow
  <1>5. ASSUME n < h + i PROVE n < Len(q) /\ q[n + 1] = p[n + 1]
    <2>1. CASE n < h
      <3>1. n + 1 \in 1..h
        BY <2>1
      <3> QED BY <1>1, <1>3, <2>1, <3>1
    <2>2. CASE n >= h
      <3> DEFINE k == n - h + 1
      <3>1. k \in 1..len - 1 /\ k \in 1..len /\ k <= i /\ n + 1 = h + k
        BY <1>1, <1>5, <2>2
      <3>2. rest[k] = es[k]
        BY <1>1, <3>1
      <3> HIDE DEF k
      <3>3. q[h + k] = <<role, rest[k]>> /\ p[h + k] = <<role, es[k]>>
        BY <1>2, <3>1
      <3>4. q[n + 1] = p[n + 1]
        BY <3>1, <3>2, <3>3
      <3> QED BY <1>1, <1>5, <3>1, <3>4
    <2> QED BY <2>1, <2>2
  <1>6. ASSUME n >= h + i + 1 PROVE n - 1 < Len(q) /\ q[n - 1 + 1] = p[n + 1]
    <2>1. CASE n < h + len
      <3> DEFINE k == n - h
      <3>1. k \in 1..len - 1 /\ k + 1 \in 1..len /\ ~(k <= i) /\ n - 1 + 1 = h + k /\ n + 1 = h + (k + 1)
        BY <1>1, <1>6, <2>1
      <3>2. rest[k] = es[k + 1]
        BY <1>1, <3>1
      <3> HIDE DEF k
      <3>3. q[h + k] = <<role, rest[k]>> /\ p[h + (k + 1)] = <<role, es[k + 1]>>
        BY <1>2, <3>1
      <3>4. q[n - 1 + 1] = p[n + 1]
        BY <3>1, <3>2, <3>3
      <3> QED BY <1>1, <2>1, <3>4
    <2>2. CASE n >= h + len
      <3> DEFINE k == n - h - len + 1
      <3>1. k \in 1..t /\ n - 1 + 1 = h + len - 1 + k /\ n + 1 = h + len + k
        BY <1>1, <2>2
      <3> HIDE DEF k
      <3>2. q[n - 1 + 1] = p[n + 1]
        BY <1>3, <3>1
      <3> QED BY <1>1, <3>2
    <2> QED BY <1>1, <2>1, <2>2
  <1>7. ASSUME n = h + i, NEW m \in 1..Len(q) PROVE q[m] # p[n + 1]
    <2>1. p[n + 1] = <<role, es[i + 1]>> /\ i + 1 \in 1..len
      <3>1. i + 1 \in 1..len /\ n + 1 = h + (i + 1)
        BY <1>1, <1>7
      <3> QED BY <1>2, <3>1
    <2>2. p[n + 1][2] = es[i + 1] /\ es[i + 1] > 0
      BY <1>4, <2>1
    <2>3. CASE m <= h
      <3>1. m \in 1..h
        BY <2>3
      <3> QED BY <1>3, <1>4, <2>1, <2>2, <3>1
    <2>4. CASE m > h /\ m <= h + len - 1
      <3> DEFINE k == m - h
      <3>1. k \in 1..len - 1 /\ m = h + k
        BY <1>1, <2>4
      <3>2. (IF k <= i THEN k ELSE k + 1) \in 1..len /\ (IF k <= i THEN k ELSE k + 1) # i + 1
        BY <1>1, <3>1
      <3>3. rest[k] # es[i + 1]
        BY <1>1, <1>4, <2>1, <3>1, <3>2
      <3> HIDE DEF k
      <3>4. q[m][2] = rest[k]
        BY <1>2, <3>1
      <3> QED BY <2>2, <3>3, <3>4
    <2>5. CASE m > h + len - 1
      <3> DEFINE k == m - h - len + 1
      <3>1. k \in 1..t /\ m = h + len - 1 + k
        BY <1>1, <2>5
      <3> HIDE DEF k
      <3>2. q[m][2] = 0
        BY <1>3, <3>1
      <3> QED BY <1>4, <2>1, <2>2, <3>2
    <2> QED BY <1>1, <2>3, <2>4, <2>5
  <1>8. (h + i <= n /\ n < h + i + 1) => n = h + i
    BY <1>1
  <1> QED BY <1>5, <1>6, <1>7, <1>8

LEMMA SameRow == ASSUME NEW p, Len(p) \in Nat, NEW a \in Nat PROVE CutRow(p, p, a, 0)
  BY DEF CutRow

\* The first n of a row differ; all do.
ApartTo(p, n) == \A j, k \in 1..n : p[j] = p[k] => j = k
Apart(p) == \A j, k \in 1..Len(p) : p[j] = p[k] => j = k

\* Fixed pins differ from each other; those of elements from these.
LEMMA RowDistinct ==
    ASSUME NEW es, Named(es), NEW role, NEW h \in Nat, NEW t \in {0, 1}, NEW p, Row(p, h, role, es, t),
           ApartTo(p, h), t = 1 => h = 0
    PROVE  Apart(p)
  <1> DEFINE len == Len(es)
  <1>1. len \in Nat /\ Len(p) = h + len + t
    BY DEF Row, Named
  <1>2. \A n \in 1..len : p[h + n][2] = es[n] /\ es[n] > 0 /\ es[n] \in Nat
    BY DEF Row, Named
  <1>3. \A m, n \in 1..len : es[m] = es[n] => m = n
    BY DEF Named
  <1>4. (\A n \in 1..h : p[n][2] = 0) /\ (t = 1 => p[h + len + 1][2] = 0)
    BY DEF Row
  <1> HIDE DEF len
  <1>5. \A m \in 1..Len(p) : \/ m \in 1..h
                             \/ \E k \in 1..len : m = h + k
                             \/ t = 1 /\ m = h + len + 1
    <2> SUFFICES ASSUME NEW m \in 1..Len(p), m \notin 1..h, ~(t = 1 /\ m = h + len + 1)
                 PROVE  \E k \in 1..len : m = h + k
      OBVIOUS
    <2>1. m - h \in 1..len /\ m = h + (m - h)
      BY <1>1
    <2> QED BY <2>1
  <1> SUFFICES ASSUME NEW m \in 1..Len(p), NEW n \in 1..Len(p), p[m] = p[n] PROVE m = n
    BY DEF Apart
  <1>6. CASE p[m][2] = 0
    <2>1. (m \in 1..h \/ (t = 1 /\ m = h + len + 1)) /\ (n \in 1..h \/ (t = 1 /\ n = h + len + 1))
      BY <1>2, <1>5, <1>6
    <2> QED BY <2>1 DEF ApartTo
  <1>7. CASE p[m][2] # 0
    <2>1. PICK k \in 1..len : m = h + k
      BY <1>4, <1>5, <1>7
    <2>2. PICK l \in 1..len : n = h + l
      BY <1>4, <1>5, <1>7
    <2>3. es[k] = es[l]
      BY <1>2, <2>1, <2>2
    <2> QED BY <1>3, <2>1, <2>2, <2>3
  <1> QED BY <1>6, <1>7

-----------------------------------------------------------------------------
(* Sequences put together.                                                   *)

LEMMA Concat ==
    ASSUME NEW S, NEW s \in Seq(S), NEW t \in Seq(S)
    PROVE  /\ s \o t \in Seq(S) /\ Len(s \o t) = Len(s) + Len(t)
           /\ \A n \in 1..Len(s) : (s \o t)[n] = s[n]
           /\ \A n \in 1..Len(t) : (s \o t)[Len(s) + n] = t[n]
  OBVIOUS

\* By one.
LEMMA Longer ==
    ASSUME NEW S, NEW s \in Seq(S), NEW t \in Seq(S)
    PROVE  Len(t) = 1 => /\ s \o t \in Seq(S) /\ Len(s \o t) = Len(s) + 1
                         /\ \A n \in 1..Len(s) : (s \o t)[n] = s[n]
                         /\ (s \o t)[Len(s) + 1] = t[1]
  <1>1. /\ s \o t \in Seq(S) /\ Len(s \o t) = Len(s) + Len(t)
        /\ \A n \in 1..Len(s) : (s \o t)[n] = s[n]
        /\ \A n \in 1..Len(t) : (s \o t)[Len(s) + n] = t[n]
    BY Concat
  <1> QED BY <1>1

LEMMA One == ASSUME NEW S, NEW x \in S PROVE <<x>> \in Seq(S) /\ Len(<<x>>) = 1 /\ <<x>>[1] = x
  OBVIOUS

-----------------------------------------------------------------------------
(* The pins of each layout.                                                  *)

Pin == Roles \X Nat

LEMMA FixedPin ==
    ASSUME NEW role \in Roles
    PROVE  Fixed(role) \in Seq(Pin) /\ Len(Fixed(role)) = 1 /\ Fixed(role)[1] = <<role, 0>>
  <1>1. <<role, 0>> \in Pin
    BY DEF Pin
  <1>2. \A x \in Pin : <<x>> \in Seq(Pin) /\ Len(<<x>>) = 1 /\ <<x>>[1] = x
    BY One
  <1> QED BY <1>1, <1>2 DEF Fixed

LEMMA TwoFixed ==
    ASSUME NEW a \in Roles, NEW b \in Roles
    PROVE  LET H == Fixed(a) \o Fixed(b)
           IN  H \in Seq(Pin) /\ Len(H) = 2 /\ H[1] = <<a, 0>> /\ H[2] = <<b, 0>>
  <1>1. /\ Fixed(a) \in Seq(Pin) /\ Len(Fixed(a)) = 1 /\ Fixed(a)[1] = <<a, 0>>
        /\ Fixed(b) \in Seq(Pin) /\ Len(Fixed(b)) = 1 /\ Fixed(b)[1] = <<b, 0>>
    BY FixedPin
  <1> QED BY <1>1, Concat

LEMMA FourFixed ==
    LET H == Fixed("exec") \o Fixed("base") \o Fixed("value") \o Fixed("key")
    IN  /\ H \in Seq(Pin) /\ Len(H) = 4
        /\ H[1] = <<"exec", 0>> /\ H[2] = <<"base", 0>> /\ H[3] = <<"value", 0>> /\ H[4] = <<"key", 0>>
  <1>0. "exec" \in Roles /\ "base" \in Roles /\ "value" \in Roles /\ "key" \in Roles
    BY DEF Roles
  <1>1. /\ Fixed("value") \in Seq(Pin) /\ Len(Fixed("value")) = 1 /\ Fixed("value")[1] = <<"value", 0>>
        /\ Fixed("key") \in Seq(Pin) /\ Len(Fixed("key")) = 1 /\ Fixed("key")[1] = <<"key", 0>>
    BY <1>0, FixedPin
  <1> DEFINE two == Fixed("exec") \o Fixed("base")
             three == two \o Fixed("value")
             four == three \o Fixed("key")
  <1>2. two \in Seq(Pin) /\ Len(two) = 2 /\ two[1] = <<"exec", 0>> /\ two[2] = <<"base", 0>>
    BY <1>0, TwoFixed
  <1> HIDE DEF two
  <1>3. three \in Seq(Pin) /\ Len(three) = 3 /\ three[1] = <<"exec", 0>> /\ three[2] = <<"base", 0>> /\ three[3] = <<"value", 0>>
    <2>1. /\ three \in Seq(Pin) /\ Len(three) = Len(two) + 1 /\ \A n \in 1..Len(two) : three[n] = two[n]
          /\ three[Len(two) + 1] = Fixed("value")[1]
      BY <1>1, <1>2, Longer
    <2> QED BY <1>1, <1>2, <2>1
  <1> HIDE DEF three
  <1>4. /\ four \in Seq(Pin) /\ Len(four) = 4
        /\ four[1] = <<"exec", 0>> /\ four[2] = <<"base", 0>> /\ four[3] = <<"value", 0>> /\ four[4] = <<"key", 0>>
    <2>1. three \in Seq(Pin) /\ Fixed("key") \in Seq(Pin) /\ Len(Fixed("key")) = 1
      BY <1>1, <1>3
    <2>2. /\ four \in Seq(Pin) /\ Len(four) = Len(three) + 1 /\ \A n \in 1..Len(three) : four[n] = three[n]
          /\ four[Len(three) + 1] = Fixed("key")[1]
      BY <2>1, Longer
    <2> QED BY <1>1, <1>3, <2>2
  <1> QED BY <1>4 DEF two, three, four

\* Fixed pins, each of a role of its own.
IsHead(H) ==
    /\ H \in Seq(Pin) /\ Len(H) <= 4
    /\ \A n \in 1..Len(H) : H[n][2] = 0
    /\ \A m, n \in 1..Len(H) : H[m] = H[n] => m = n

LEMMA Heads ==
    /\ IsHead(<<>>) /\ Len(<<>>) = 0
    /\ \A a \in Roles : IsHead(Fixed(a)) /\ Len(Fixed(a)) = 1
    /\ \A a, b \in Roles : a # b => IsHead(Fixed(a) \o Fixed(b)) /\ Len(Fixed(a) \o Fixed(b)) = 2
    /\ LET H == Fixed("exec") \o Fixed("base") \o Fixed("value") \o Fixed("key")
       IN  IsHead(H) /\ Len(H) = 4
  <1>1. IsHead(<<>>) /\ Len(<<>>) = 0
    BY DEF IsHead
  <1>2. ASSUME NEW a \in Roles PROVE IsHead(Fixed(a)) /\ Len(Fixed(a)) = 1
    <2>1. Fixed(a) \in Seq(Pin) /\ Len(Fixed(a)) = 1 /\ Fixed(a)[1] = <<a, 0>>
      BY FixedPin
    <2>2. \A n \in 1..1 : n = 1
      OBVIOUS
    <2> QED BY <2>1, <2>2 DEF IsHead
  <1>3. ASSUME NEW a \in Roles, NEW b \in Roles, a # b
        PROVE  IsHead(Fixed(a) \o Fixed(b)) /\ Len(Fixed(a) \o Fixed(b)) = 2
    <2> DEFINE H == Fixed(a) \o Fixed(b)
    <2>1. H \in Seq(Pin) /\ Len(H) = 2 /\ H[1] = <<a, 0>> /\ H[2] = <<b, 0>>
      BY TwoFixed
    <2> HIDE DEF H
    <2>2. \A n \in 1..2 : n = 1 \/ n = 2
      OBVIOUS
    <2>3. IsHead(H) /\ Len(H) = 2
      BY <1>3, <2>1, <2>2 DEF IsHead
    <2> QED BY <2>3 DEF H
  <1>4. LET H == Fixed("exec") \o Fixed("base") \o Fixed("value") \o Fixed("key") IN IsHead(H) /\ Len(H) = 4
    <2> DEFINE H == Fixed("exec") \o Fixed("base") \o Fixed("value") \o Fixed("key")
    <2>1. /\ H \in Seq(Pin) /\ Len(H) = 4
          /\ H[1] = <<"exec", 0>> /\ H[2] = <<"base", 0>> /\ H[3] = <<"value", 0>> /\ H[4] = <<"key", 0>>
      BY FourFixed
    <2> HIDE DEF H
    <2>2. \A n \in 1..4 : n = 1 \/ n = 2 \/ n = 3 \/ n = 4
      OBVIOUS
    <2>3. IsHead(H) /\ Len(H) = 4
      BY <2>1, <2>2 DEF IsHead
    <2> QED BY <2>3 DEF H
  <1> QED BY <1>1, <1>2, <1>3, <1>4

LEMMA PinsOfRow ==
    ASSUME NEW es \in Seq(Nat), NEW role \in Roles
    PROVE  /\ Len(PinsOf(role, es)) = Len(es) /\ PinsOf(role, es) \in Seq(Pin)
           /\ \A n \in 1..Len(es) : PinsOf(role, es)[n] = <<role, es[n]>>
  <1>1. Len(es) \in Nat /\ \A n \in 1..Len(es) : es[n] \in Nat
    OBVIOUS
  <1>2. \A n \in 1..Len(es) : <<role, es[n]>> \in Pin
    BY <1>1 DEF Pin
  <1> HIDE DEF Pin
  <1> QED BY <1>1, <1>2 DEF PinsOf

\* The fixed pins H, then one of the role for each element, then the fixed pins T.
IsRow(p, H, role, es, T) ==
    /\ p \in Seq(Pin) /\ Row(p, Len(H), role, es, Len(T))
    /\ \A n \in 1..Len(H) : p[n] = H[n]
    /\ \A n \in 1..Len(T) : p[Len(H) + Len(es) + n] = T[n]

LEMMA ElementRow ==
    ASSUME NEW es \in Seq(Nat), NEW role \in Roles PROVE IsRow(PinsOf(role, es), <<>>, role, es, <<>>)
  BY PinsOfRow, Heads DEF IsRow, Row

LEMMA HeadRow ==
    ASSUME NEW es \in Seq(Nat), NEW role \in Roles, NEW H, IsHead(H)
    PROVE  IsRow(H \o PinsOf(role, es), H, role, es, <<>>)
  <1> DEFINE e == PinsOf(role, es)
             p == H \o e
  <1>1. Len(e) = Len(es) /\ e \in Seq(Pin) /\ Len(es) \in Nat /\ \A n \in 1..Len(es) : e[n] = <<role, es[n]>>
    BY PinsOfRow
  <1>2. H \in Seq(Pin) /\ Len(H) \in Nat /\ \A n \in 1..Len(H) : H[n][2] = 0
    BY DEF IsHead
  <1> HIDE DEF e
  <1>3. /\ p \in Seq(Pin) /\ Len(p) = Len(H) + Len(e)
        /\ \A n \in 1..Len(H) : p[n] = H[n]
        /\ \A n \in 1..Len(e) : p[Len(H) + n] = e[n]
    <2>1. H \in Seq(Pin) /\ e \in Seq(Pin)
      BY <1>1, <1>2
    <2> QED BY <2>1, Concat
  <1> HIDE DEF p
  <1>4. IsRow(p, H, role, es, <<>>)
    <2>1. Len(<<>>) = 0 /\ \A n \in 1..0 : FALSE
      BY Heads
    <2>2. Row(p, Len(H), role, es, 0)
      <3>1. \A n \in 1..Len(es) : p[Len(H) + n] = <<role, es[n]>>
        BY <1>1, <1>3
      <3>2. \A n \in 1..Len(H) : p[n][2] = 0
        BY <1>2, <1>3
      <3>3. Len(p) = Len(H) + Len(es) + 0
        BY <1>1, <1>2, <1>3
      <3> QED BY <2>1, <3>1, <3>2, <3>3 DEF Row
    <2> QED BY <1>3, <2>1, <2>2 DEF IsRow
  <1> QED BY <1>4 DEF p, e

LEMMA TailRow ==
    ASSUME NEW es \in Seq(Nat), NEW role \in Roles, NEW T, IsHead(T)
    PROVE  IsRow(PinsOf(role, es) \o T, <<>>, role, es, T)
  <1> DEFINE e == PinsOf(role, es)
             p == e \o T
  <1>1. Len(e) = Len(es) /\ e \in Seq(Pin) /\ Len(es) \in Nat /\ \A n \in 1..Len(es) : e[n] = <<role, es[n]>>
    BY PinsOfRow
  <1>2. T \in Seq(Pin) /\ Len(T) \in Nat /\ \A n \in 1..Len(T) : T[n][2] = 0
    BY DEF IsHead
  <1> HIDE DEF e
  <1>3. /\ p \in Seq(Pin) /\ Len(p) = Len(e) + Len(T)
        /\ \A n \in 1..Len(e) : p[n] = e[n]
        /\ \A n \in 1..Len(T) : p[Len(e) + n] = T[n]
    <2>1. e \in Seq(Pin) /\ T \in Seq(Pin)
      BY <1>1, <1>2
    <2> QED BY <2>1, Concat
  <1> HIDE DEF p
  <1>4. IsRow(p, <<>>, role, es, T)
    <2>1. Len(<<>>) = 0 /\ \A n \in 1..0 : FALSE
      BY Heads
    <2>2. Row(p, 0, role, es, Len(T))
      <3>1. \A n \in 1..Len(es) : p[0 + n] = <<role, es[n]>>
        BY <1>1, <1>3
      <3>2. \A n \in 1..Len(T) : p[0 + Len(es) + n][2] = 0
        BY <1>1, <1>2, <1>3
      <3>3. Len(p) = 0 + Len(es) + Len(T)
        BY <1>1, <1>2, <1>3
      <3> QED BY <2>1, <3>1, <3>2, <3>3 DEF Row
    <2>3. \A n \in 1..Len(T) : p[0 + Len(es) + n] = T[n]
      BY <1>1, <1>3
    <2> QED BY <1>3, <2>1, <2>2, <2>3 DEF IsRow
  <1> QED BY <1>4 DEF p, e

\* Without element i.
LEMMA RowsCut ==
    ASSUME NEW es, Named(es), NEW i \in Nat, i < Len(es), NEW role, NEW H, NEW T, IsHead(H), IsHead(T), NEW p, NEW q,
           IsRow(p, H, role, es, T), IsRow(q, H, role, Rest(es, i), T)
    PROVE  CutRow(p, q, Len(H) + i, 1)
  <1>1. Len(H) \in Nat /\ Len(T) \in Nat
    BY DEF IsHead
  <1>2. Row(p, Len(H), role, es, Len(T)) /\ Row(q, Len(H), role, Rest(es, i), Len(T))
    BY DEF IsRow
  <1>3. \A n \in 1..Len(H) : q[n] = p[n]
    BY DEF IsRow
  <1>4. Len(Rest(es, i)) = Len(es) - 1
    BY RestNamed
  <1>5. \A n \in 1..Len(T) : q[Len(H) + Len(es) - 1 + n] = p[Len(H) + Len(es) + n]
    <2>1. \A n \in 1..Len(T) : /\ q[Len(H) + (Len(es) - 1) + n] = T[n]
                               /\ p[Len(H) + Len(es) + n] = T[n]
      BY <1>4 DEF IsRow
    <2>2. Len(es) \in Nat
      BY DEF Named
    <2>3. \A n \in 1..Len(T) : Len(H) + (Len(es) - 1) + n = Len(H) + Len(es) - 1 + n
      BY <1>1, <2>2
    <2> QED BY <2>1, <2>3
  <1> QED BY <1>1, <1>2, <1>3, <1>5, RowCut

LEMMA InsLaw ==
    ASSUME NEW es \in Seq(Nat)
    PROVE  /\ layout \in {"sequence", "random"} => Ins(es) = Fixed("exec")
           /\ layout = "select" => Ins(es) = Fixed("exec") \o Fixed("value")
           /\ layout = "entry" => Ins(es) = <<>>
           /\ layout = "array" => IsRow(Ins(es), <<>>, "element", es, <<>>)
           /\ layout = "vararg" => IsRow(Ins(es), Fixed("exec") \o Fixed("base"), "element", es, <<>>)
           /\ layout = "switch" => IsRow(Ins(es), Fixed("exec") \o Fixed("value"), "element", es, <<>>)
           /\ layout = "dialogue" => IsRow(Ins(es), Fixed("exec") \o Fixed("base") \o Fixed("value") \o Fixed("key"),
                                           "element", es, <<>>)
           /\ (layout = "call" /\ ~IsPure(es)) => IsRow(Ins(es), Fixed("exec"), "element", es, <<>>)
           /\ (layout = "call" /\ IsPure(es)) => Ins(es) = <<>>
  <1>0. {"exec", "base", "value", "key", "element"} \subseteq Roles
    BY DEF Roles
  <1>1. ASSUME layout \in {"sequence", "random"} PROVE Ins(es) = Fixed("exec")
    BY <1>1 DEF Ins
  <1>2. ASSUME layout = "select" PROVE Ins(es) = Fixed("exec") \o Fixed("value")
    BY <1>2 DEF Ins
  <1>3. ASSUME layout = "entry" PROVE Ins(es) = <<>>
    BY <1>3 DEF Ins
  <1>4. ASSUME layout = "array" PROVE IsRow(Ins(es), <<>>, "element", es, <<>>)
    <2>1. Ins(es) = PinsOf("element", es)
      BY <1>4 DEF Ins
    <2> QED BY <1>0, <2>1, ElementRow
  <1>5. ASSUME layout = "vararg" PROVE IsRow(Ins(es), Fixed("exec") \o Fixed("base"), "element", es, <<>>)
    <2>1. Ins(es) = Fixed("exec") \o Fixed("base") \o PinsOf("element", es)
      BY <1>5 DEF Ins
    <2>2. IsHead(Fixed("exec") \o Fixed("base"))
      BY <1>0, Heads
    <2> QED BY <1>0, <2>1, <2>2, HeadRow
  <1>6. ASSUME layout = "switch" PROVE IsRow(Ins(es), Fixed("exec") \o Fixed("value"), "element", es, <<>>)
    <2>1. Ins(es) = Fixed("exec") \o Fixed("value") \o PinsOf("element", es)
      BY <1>6 DEF Ins
    <2>2. IsHead(Fixed("exec") \o Fixed("value"))
      BY <1>0, Heads
    <2> QED BY <1>0, <2>1, <2>2, HeadRow
  <1>7. ASSUME layout = "dialogue"
        PROVE  IsRow(Ins(es), Fixed("exec") \o Fixed("base") \o Fixed("value") \o Fixed("key"), "element", es, <<>>)
    <2>1. Ins(es) = Fixed("exec") \o Fixed("base") \o Fixed("value") \o Fixed("key") \o PinsOf("element", es)
      BY <1>7 DEF Ins
    <2>2. IsHead(Fixed("exec") \o Fixed("base") \o Fixed("value") \o Fixed("key"))
      BY Heads
    <2> QED BY <1>0, <2>1, <2>2, HeadRow
  <1>8. ASSUME layout = "call", ~IsPure(es) PROVE IsRow(Ins(es), Fixed("exec"), "element", es, <<>>)
    <2>1. Ins(es) = Fixed("exec") \o PinsOf("element", es)
      BY <1>8 DEF Ins
    <2>2. IsHead(Fixed("exec"))
      BY <1>0, Heads
    <2> QED BY <1>0, <2>1, <2>2, HeadRow
  <1>9. ASSUME layout = "call", IsPure(es) PROVE Ins(es) = <<>>
    <2>1. es = <<>> /\ Ins(es) = <<>> \o PinsOf("element", es)
      BY <1>9 DEF Ins, IsPure
    <2>2. PinsOf("element", <<>>) = <<>>
      BY DEF PinsOf
    <2> QED BY <2>1, <2>2
  <1> QED BY <1>1, <1>2, <1>3, <1>4, <1>5, <1>6, <1>7, <1>8, <1>9

LEMMA OutsLaw ==
    ASSUME NEW es \in Seq(Nat)
    PROVE  /\ layout \in {"sequence", "random"} => IsRow(Outs(es), <<>>, "out", es, <<>>)
           /\ layout \in {"array", "dictionary"} => Outs(es) = Fixed("value")
           /\ layout = "vararg" => Outs(es) = Fixed("exec")
           /\ layout = "switch" => IsRow(Outs(es), Fixed("done") \o Fixed("default"), "out", es, <<>>)
           /\ layout = "select" => IsRow(Outs(es), <<>>, "out", es, IF default THEN Fixed("default") ELSE <<>>)
           /\ (layout = "dialogue" /\ es # <<>>) => IsRow(Outs(es), <<>>, "out", es, <<>>)
           /\ (layout = "dialogue" /\ es = <<>>) => Outs(es) = Fixed("exec")
           /\ layout = "entry" => IsRow(Outs(es), Fixed("exec"), "element", es, <<>>)
           /\ layout = "call" => Outs(es) = (IF IsPure(es) THEN <<>> ELSE Fixed("exec"))
                                              \o (IF returns THEN Fixed("return") ELSE <<>>)
  <1>0. {"exec", "done", "default", "out", "element"} \subseteq Roles
    BY DEF Roles
  <1>1. ASSUME layout \in {"sequence", "random"} PROVE IsRow(Outs(es), <<>>, "out", es, <<>>)
    <2>1. Outs(es) = PinsOf("out", es)
      BY <1>1 DEF Outs
    <2> QED BY <1>0, <2>1, ElementRow
  <1>2. ASSUME layout \in {"array", "dictionary"} PROVE Outs(es) = Fixed("value")
    BY <1>2 DEF Outs
  <1>3. ASSUME layout = "vararg" PROVE Outs(es) = Fixed("exec")
    BY <1>3 DEF Outs
  <1>4. ASSUME layout = "switch" PROVE IsRow(Outs(es), Fixed("done") \o Fixed("default"), "out", es, <<>>)
    <2>1. Outs(es) = Fixed("done") \o Fixed("default") \o PinsOf("out", es)
      BY <1>4 DEF Outs
    <2>2. IsHead(Fixed("done") \o Fixed("default"))
      BY <1>0, Heads
    <2> QED BY <1>0, <2>1, <2>2, HeadRow
  <1>5. ASSUME layout = "select"
        PROVE  IsRow(Outs(es), <<>>, "out", es, IF default THEN Fixed("default") ELSE <<>>)
    <2> DEFINE T == IF default THEN Fixed("default") ELSE <<>>
    <2>1. Outs(es) = PinsOf("out", es) \o T
      BY <1>5 DEF Outs
    <2>2. IsHead(T)
      BY <1>0, Heads
    <2> HIDE DEF T
    <2>3. IsRow(Outs(es), <<>>, "out", es, T)
      BY <1>0, <2>1, <2>2, TailRow
    <2> QED BY <2>3 DEF T
  <1>6. ASSUME layout = "dialogue", es # <<>> PROVE IsRow(Outs(es), <<>>, "out", es, <<>>)
    <2>1. Outs(es) = PinsOf("out", es)
      BY <1>6 DEF Outs
    <2> QED BY <1>0, <2>1, ElementRow
  <1>7. ASSUME layout = "dialogue", es = <<>> PROVE Outs(es) = Fixed("exec")
    BY <1>7 DEF Outs
  <1>8. ASSUME layout = "entry" PROVE IsRow(Outs(es), Fixed("exec"), "element", es, <<>>)
    <2>1. Outs(es) = Fixed("exec") \o PinsOf("element", es)
      BY <1>8 DEF Outs
    <2>2. IsHead(Fixed("exec"))
      BY <1>0, Heads
    <2> QED BY <1>0, <2>1, <2>2, HeadRow
  <1>9. ASSUME layout = "call"
        PROVE  Outs(es) = (IF IsPure(es) THEN <<>> ELSE Fixed("exec")) \o (IF returns THEN Fixed("return") ELSE <<>>)
    BY <1>9 DEF Outs
  <1> QED BY <1>1, <1>2, <1>3, <1>4, <1>5, <1>6, <1>7, <1>8, <1>9

-----------------------------------------------------------------------------
(* Wires moved as the pins are.                                              *)

Adj(w, offset, by, dirs) ==
    IF w.dir \in dirs /\ w.port >= offset THEN [w EXCEPT !.port = (@ + by + 256) % 256] ELSE w

LEMMA AdjustedIs == ASSUME NEW W, NEW o, NEW by, NEW dirs PROVE Adjusted(W, o, by, dirs) = {Adj(w, o, by, dirs) : w \in W}
  BY DEF Adjusted, Adj

\* Ports are not wrapped.
LEMMA PortDown ==
    /\ \A n \in 1..255 : (n + -1 + 256) % 256 = n - 1
    /\ \A n \in 2..255 : (n + -2 + 256) % 256 = n - 2
    /\ \A n \in 0..254 : (n + 1 + 256) % 256 = n + 1
  OBVIOUS

LEMMA PortKept == ASSUME NEW w \in Wire PROVE [w EXCEPT !.port = w.port] = w /\ [w EXCEPT !.port = w.port - 0] = w
  <1>1. [w EXCEPT !.port = w.port] = w
    BY DEF Wire
  <1>2. w.port - 0 = w.port
    BY WireFacts
  <1> QED BY <1>1, <1>2

\* One pin of direction d taken out, at port a, the wires behind it moved.
LEMMA AdjOne ==
    ASSUME NEW w \in Wire, NEW d \in Dirs, NEW a \in Nat, NEW o \in {a, a + 1}, ~(w.dir = d /\ w.port = a)
    PROVE  /\ w.dir = d => Adj(w, o, -1, {d}) = IF w.port >= a THEN [w EXCEPT !.port = w.port - 1] ELSE w
           /\ w.dir # d => Adj(w, o, -1, {d}) = w
  <1>1. w.port \in Nat /\ w.port <= 255
    BY WireFacts
  <1>2. CASE w.dir # d
    BY <1>2 DEF Adj
  <1>3. CASE w.dir = d
    <2>1. (w.port >= o) <=> (w.port >= a)
      BY <1>1, <1>3
    <2>2. CASE w.port >= a
      <3>1. w.port \in 1..255
        BY <1>1, <1>3, <2>2
      <3>2. (w.port + -1 + 256) % 256 = w.port - 1
        BY <3>1, PortDown
      <3>3. Adj(w, o, -1, {d}) = [w EXCEPT !.port = (w.port + -1 + 256) % 256]
        BY <1>3, <2>1, <2>2 DEF Adj
      <3> QED BY <1>3, <2>2, <3>2, <3>3
    <2>3. CASE ~(w.port >= a)
      BY <1>3, <2>1, <2>3 DEF Adj
    <2> QED BY <1>3, <2>2, <2>3
  <1> QED BY <1>2, <1>3

\* Cuts by direction: a at the inputs, b at the outputs.
By(a, b) == [d \in Dirs |-> IF d = "in" THEN a ELSE b]

LEMMA ByFacts ==
    ASSUME NEW a \in Nat, NEW b \in Nat
    PROVE  By(a, b) \in [Dirs -> Nat] /\ By(a, b)["in"] = a /\ By(a, b)["out"] = b
  BY DEF By, Dirs

\* The wires V are what is left of the wires W: those of S, moved.
Left(V, W, S, A, K) ==
    /\ S \subseteq W
    /\ \A w \in W : w \in S <=> ~Gone(w, A, K)
    /\ \A v \in V : \E w \in S : v = Moved(w, A, K)
    /\ \A w \in S : Moved(w, A, K) \in V

LEMMA LeftIsCut ==
    ASSUME NEW V, NEW W, NEW S, NEW A, NEW K, Left(V, W, S, A, K) PROVE V = CutWires(W, A, K)
  <1>1. \A v \in V : v \in CutWires(W, A, K)
    BY DEF Left, CutWires
  <1>2. \A v \in CutWires(W, A, K) : v \in V
    BY DEF Left, CutWires
  <1> QED BY <1>1, <1>2

\* A and K take out one pin of direction d, at port a.
OneTaken(W, d, a, o, A, K) ==
    /\ W \in SUBSET Wire /\ d \in Dirs /\ a \in Nat /\ o \in {a, a + 1}
    /\ A \in [Dirs -> Nat] /\ K \in [Dirs -> Nat]
    /\ A[d] = a /\ K[d] = 1
    /\ \A x \in Dirs \ {d} : K[x] = 0

LEMMA OneCut ==
    ASSUME NEW W, NEW d, NEW a, NEW o, NEW A, NEW K, OneTaken(W, d, a, o, A, K)
    PROVE  Adjusted(Unlinked(W, d, a), o, -1, {d}) = CutWires(W, A, K)
  <1> USE DEF OneTaken
  <1> DEFINE S == Unlinked(W, d, a)
             V == Adjusted(S, o, -1, {d})
  <1>1. S \subseteq W /\ \A w \in W : w \in S <=> ~(w.dir = d /\ w.port = a)
    BY DEF Unlinked
  <1>2. \A w \in W : w.port \in Nat /\ w.dir \in Dirs /\ w \in Wire
    BY WireFacts
  <1>3. \A w \in W : w \in S <=> ~Gone(w, A, K)
    <2> SUFFICES ASSUME NEW w \in W PROVE w \in S <=> ~Gone(w, A, K)
      OBVIOUS
    <2>1. CASE w.dir = d
      BY <1>1, <1>2, <2>1 DEF Gone
    <2>2. CASE w.dir # d
      <3>1. K[w.dir] = 0 /\ A[w.dir] \in Nat
        BY <1>2, <2>2
      <3> QED BY <1>1, <1>2, <2>2, <3>1 DEF Gone
    <2> QED BY <2>1, <2>2
  <1>4. ASSUME NEW w \in S PROVE Adj(w, o, -1, {d}) = Moved(w, A, K)
    <2>1. w \in Wire /\ ~(w.dir = d /\ w.port = a) /\ w.port \in Nat /\ w.dir \in Dirs
      BY <1>1, <1>2
    <2>2. CASE w.dir = d
      <3>1. Adj(w, o, -1, {d}) = IF w.port >= a THEN [w EXCEPT !.port = w.port - 1] ELSE w
        BY <2>1, <2>2, AdjOne
      <3>2. Moved(w, A, K) = IF w.port >= a THEN [w EXCEPT !.port = w.port - 1] ELSE w
        BY <2>2 DEF Moved
      <3> QED BY <3>1, <3>2
    <2>3. CASE w.dir # d
      <3>1. Adj(w, o, -1, {d}) = w
        BY <2>3 DEF Adj
      <3>2. Moved(w, A, K) = w
        <4>1. K[w.dir] = 0
          BY <2>1, <2>3
        <4> QED BY <2>1, <4>1, PortKept DEF Moved
      <3> QED BY <3>1, <3>2
    <2> QED BY <2>2, <2>3
  <1>5. V = {Adj(w, o, -1, {d}) : w \in S}
    BY AdjustedIs
  <1> HIDE DEF S, V
  <1>6. Left(V, W, S, A, K)
    BY <1>1, <1>3, <1>4, <1>5 DEF Left
  <1>7. V = CutWires(W, A, K)
    BY <1>6, LeftIsCut
  <1> QED BY <1>7 DEF S, V

\* Two pins of a dictionary's element.
LEMMA PairCut ==
    ASSUME NEW W \in SUBSET Wire, NEW a \in Nat
    PROVE  Adjusted(Unlinked(Unlinked(W, "in", a), "in", a + 1), a, -2, {"in"}) = CutWires(W, By(a, 0), By(2, 0))
  <1> DEFINE S == Unlinked(Unlinked(W, "in", a), "in", a + 1)
             A == By(a, 0)
             K == By(2, 0)
             V == Adjusted(S, a, -2, {"in"})
  <1>1. A["in"] = a /\ A["out"] = 0 /\ K["in"] = 2 /\ K["out"] = 0
    BY ByFacts
  <1>2. S \subseteq W /\ \A w \in W : w \in S <=> ~(w.dir = "in" /\ (w.port = a \/ w.port = a + 1))
    BY DEF Unlinked
  <1> HIDE DEF A, K, S
  <1>3. \A w \in W : w.port \in Nat /\ w.port <= 255 /\ (w.dir = "in" \/ w.dir = "out") /\ w \in Wire
    BY WireFacts DEF Dirs
  <1>4. \A w \in W : w \in S <=> ~Gone(w, A, K)
    <2> SUFFICES ASSUME NEW w \in W PROVE w \in S <=> ~Gone(w, A, K)
      OBVIOUS
    <2>1. CASE w.dir = "in"
      BY <1>1, <1>2, <1>3, <2>1 DEF Gone
    <2>2. CASE w.dir = "out"
      BY <1>1, <1>2, <1>3, <2>2 DEF Gone
    <2> QED BY <1>3, <2>1, <2>2
  <1>5. ASSUME NEW w \in S PROVE Adj(w, a, -2, {"in"}) = Moved(w, A, K)
    <2>1. w \in Wire /\ w.port \in Nat /\ w.port <= 255
      BY <1>2, <1>3
    <2>2. CASE w.dir = "in" /\ w.port >= a
      <3>1. w.port # a /\ w.port # a + 1
        BY <1>2, <2>2
      <3>2. w.port \in 2..255
        BY <2>1, <2>2, <3>1
      <3>3. (w.port + -2 + 256) % 256 = w.port - 2
        BY <3>2, PortDown
      <3>4. Adj(w, a, -2, {"in"}) = [w EXCEPT !.port = (w.port + -2 + 256) % 256]
        BY <2>2 DEF Adj
      <3>5. Moved(w, A, K) = [w EXCEPT !.port = w.port - 2]
        BY <1>1, <2>2 DEF Moved
      <3> QED BY <3>3, <3>4, <3>5
    <2>3. CASE w.dir = "in" /\ ~(w.port >= a)
      BY <1>1, <2>3 DEF Adj, Moved
    <2>4. CASE w.dir = "out"
      <3>1. Adj(w, a, -2, {"in"}) = w
        BY <2>4 DEF Adj
      <3>2. Moved(w, A, K) = w
        BY <1>1, <2>1, <2>4, PortKept DEF Moved
      <3> QED BY <3>1, <3>2
    <2> QED BY <1>2, <1>3, <2>2, <2>3, <2>4
  <1>6. V = {Adj(w, a, -2, {"in"}) : w \in S}
    BY AdjustedIs
  <1> HIDE DEF V
  <1>7. Left(V, W, S, A, K)
    BY <1>2, <1>4, <1>5, <1>6 DEF Left
  <1>8. V = CutWires(W, A, K)
    BY <1>7, LeftIsCut
  <1> QED BY <1>8 DEF S, V, A, K

\* An input and an output, at once or one after the other.
LEMMA BothCut ==
    ASSUME NEW W \in SUBSET Wire, NEW a \in Nat, NEW b \in Nat
    PROVE  LET S == Unlinked(Unlinked(W, "in", a), "out", b)
           IN  /\ Adjusted(Adjusted(S, a, -1, {"in"}), b, -1, {"out"}) = CutWires(W, By(a, b), By(1, 1))
               /\ a = b => Adjusted(S, a, -1, {"in", "out"}) = CutWires(W, By(a, b), By(1, 1))
  <1> DEFINE S == Unlinked(Unlinked(W, "in", a), "out", b)
             A == By(a, b)
             K == By(1, 1)
             V1 == Adjusted(S, a, -1, {"in"})
             V2 == Adjusted(V1, b, -1, {"out"})
             V == Adjusted(S, a, -1, {"in", "out"})
  <1>1. A["in"] = a /\ A["out"] = b /\ K["in"] = 1 /\ K["out"] = 1
    BY ByFacts
  <1>2. S \subseteq W /\ \A w \in W : w \in S <=> ~(w.dir = "in" /\ w.port = a) /\ ~(w.dir = "out" /\ w.port = b)
    BY DEF Unlinked
  <1> HIDE DEF A, K, S
  <1>3. \A w \in W : w.port \in Nat /\ w.port <= 255 /\ (w.dir = "in" \/ w.dir = "out") /\ w \in Wire
    BY WireFacts DEF Dirs
  <1>4. \A w \in W : w \in S <=> ~Gone(w, A, K)
    <2> SUFFICES ASSUME NEW w \in W PROVE w \in S <=> ~Gone(w, A, K)
      OBVIOUS
    <2>1. CASE w.dir = "in"
      BY <1>1, <1>2, <1>3, <2>1 DEF Gone
    <2>2. CASE w.dir = "out"
      BY <1>1, <1>2, <1>3, <2>2 DEF Gone
    <2> QED BY <1>3, <2>1, <2>2
  <1>5. ASSUME NEW w \in S
        PROVE  /\ w.dir = "in" => /\ Adj(w, a, -1, {"in"}) = Moved(w, A, K)
                                  /\ Adj(Moved(w, A, K), b, -1, {"out"}) = Moved(w, A, K)
               /\ w.dir = "out" => Adj(w, a, -1, {"in"}) = w /\ Adj(w, b, -1, {"out"}) = Moved(w, A, K)
               /\ a = b => Adj(w, a, -1, {"in", "out"}) = Moved(w, A, K)
    <2>1. w \in Wire /\ w.port \in Nat /\ ~(w.dir = "in" /\ w.port = a) /\ ~(w.dir = "out" /\ w.port = b)
      BY <1>2, <1>3
    <2>2. ASSUME w.dir = "in"
          PROVE  /\ Adj(w, a, -1, {"in"}) = Moved(w, A, K)
                 /\ Adj(Moved(w, A, K), b, -1, {"out"}) = Moved(w, A, K)
                 /\ Adj(w, a, -1, {"in", "out"}) = Adj(w, a, -1, {"in"})
      <3>1. Adj(w, a, -1, {"in"}) = IF w.port >= a THEN [w EXCEPT !.port = w.port - 1] ELSE w
        BY <2>1, <2>2, AdjOne DEF Dirs
      <3>2. Moved(w, A, K) = IF w.port >= a THEN [w EXCEPT !.port = w.port - 1] ELSE w
        BY <1>1, <2>2 DEF Moved
      <3>3. Moved(w, A, K).dir = "in"
        BY <2>1, <2>2, <3>2 DEF Wire
      <3>4. Adj(Moved(w, A, K), b, -1, {"out"}) = Moved(w, A, K)
        BY <3>3 DEF Adj
      <3>5. Adj(w, a, -1, {"in", "out"}) = Adj(w, a, -1, {"in"})
        BY <2>2 DEF Adj
      <3> QED BY <3>1, <3>2, <3>4, <3>5
    <2>3. ASSUME w.dir = "out"
          PROVE  /\ Adj(w, a, -1, {"in"}) = w /\ Adj(w, b, -1, {"out"}) = Moved(w, A, K)
                 /\ Adj(w, b, -1, {"in", "out"}) = Adj(w, b, -1, {"out"})
      <3>1. Adj(w, b, -1, {"out"}) = IF w.port >= b THEN [w EXCEPT !.port = w.port - 1] ELSE w
        BY <2>1, <2>3, AdjOne DEF Dirs
      <3>2. Moved(w, A, K) = IF w.port >= b THEN [w EXCEPT !.port = w.port - 1] ELSE w
        BY <1>1, <2>3 DEF Moved
      <3>3. Adj(w, a, -1, {"in"}) = w /\ Adj(w, b, -1, {"in", "out"}) = Adj(w, b, -1, {"out"})
        BY <2>3 DEF Adj
      <3> QED BY <3>1, <3>2, <3>3
    <2>4. w.dir = "in" \/ w.dir = "out"
      BY <1>2, <1>3
    <2> QED BY <2>2, <2>3, <2>4
  <1>6. /\ V1 = {Adj(w, a, -1, {"in"}) : w \in S} /\ V2 = {Adj(w, b, -1, {"out"}) : w \in V1}
        /\ V = {Adj(w, a, -1, {"in", "out"}) : w \in S}
    BY AdjustedIs
  <1> HIDE DEF V, V1, V2
  <1>7. \A w \in S : w.dir = "in" \/ w.dir = "out"
    BY <1>2, <1>3
  <1>8. V2 = CutWires(W, A, K)
    <2>1. \A v \in V2 : \E w \in S : v = Moved(w, A, K)
      BY <1>5, <1>6, <1>7
    <2>2. \A w \in S : Moved(w, A, K) \in V2
      BY <1>5, <1>6, <1>7
    <2>3. Left(V2, W, S, A, K)
      BY <1>2, <1>4, <2>1, <2>2 DEF Left
    <2> QED BY <2>3, LeftIsCut
  <1>9. ASSUME a = b PROVE V = CutWires(W, A, K)
    <2>1. Left(V, W, S, A, K)
      BY <1>2, <1>4, <1>5, <1>6, <1>9 DEF Left
    <2> QED BY <2>1, LeftIsCut
  <1> QED BY <1>8, <1>9 DEF S, V, V1, V2, A, K

\* Both inputs and the execution output of a call that becomes a getter's.
LEMMA GetterCut ==
    ASSUME NEW W \in SUBSET Wire
    PROVE  LET S == Unlinked(Unlinked(Unlinked(W, "in", 1), "in", 0), "out", 0)
           IN  Adjusted(Adjusted(Adjusted(S, 1, -1, {"out"}), 2, -1, {"in"}), 1, -1, {"in"})
                 = CutWires(W, By(0, 0), By(2, 1))
  <1> DEFINE S == Unlinked(Unlinked(Unlinked(W, "in", 1), "in", 0), "out", 0)
             A == By(0, 0)
             K == By(2, 1)
             V1 == Adjusted(S, 1, -1, {"out"})
             V2 == Adjusted(V1, 2, -1, {"in"})
             V == Adjusted(V2, 1, -1, {"in"})
  <1>1. A["in"] = 0 /\ A["out"] = 0 /\ K["in"] = 2 /\ K["out"] = 1
    BY ByFacts
  <1>2. S \subseteq W /\ \A w \in W : w \in S <=> ~(w.dir = "in" /\ (w.port = 0 \/ w.port = 1))
                                                    /\ ~(w.dir = "out" /\ w.port = 0)
    BY DEF Unlinked
  <1> HIDE DEF A, K, S
  <1>3. \A w \in W : w.port \in Nat /\ w.port <= 255 /\ (w.dir = "in" \/ w.dir = "out") /\ w \in Wire
    BY WireFacts DEF Dirs
  <1>4. \A w \in W : w \in S <=> ~Gone(w, A, K)
    <2> SUFFICES ASSUME NEW w \in W PROVE w \in S <=> ~Gone(w, A, K)
      OBVIOUS
    <2>1. CASE w.dir = "in"
      BY <1>1, <1>2, <1>3, <2>1 DEF Gone
    <2>2. CASE w.dir = "out"
      BY <1>1, <1>2, <1>3, <2>2 DEF Gone
    <2> QED BY <1>3, <2>1, <2>2
  <1>5. ASSUME NEW w \in S
        PROVE  Adj(Adj(Adj(w, 1, -1, {"out"}), 2, -1, {"in"}), 1, -1, {"in"}) = Moved(w, A, K)
    <2>1. w \in Wire /\ w.port \in Nat /\ w.port <= 255 /\ (w.dir = "in" \/ w.dir = "out")
      BY <1>2, <1>3
    <2>2. CASE w.dir = "in"
      <3>1. w.port >= 2
        BY <1>2, <2>1, <2>2
      <3> DEFINE v == [w EXCEPT !.port = w.port - 1]
      <3>2. v \in Wire /\ v.dir = "in" /\ v.port = w.port - 1
        <4>1. w.port - 1 \in 0..255
          BY <2>1, <3>1
        <4> DEFINE x == w.port - 1
        <4> HIDE DEF x
        <4>2. [w EXCEPT !.port = x] \in Wire
          BY <2>1, <4>1, WireAt DEF x
        <4>3. v.dir = "in" /\ v.port = w.port - 1
          BY <2>1, <2>2 DEF Wire
        <4> QED BY <4>2, <4>3 DEF x
      <3>3. Adj(w, 1, -1, {"out"}) = w
        BY <2>2 DEF Adj
      <3>4. Adj(w, 2, -1, {"in"}) = v
        <4>1. (w.port + -1 + 256) % 256 = w.port - 1
          BY <2>1, <3>1, PortDown
        <4>2. Adj(w, 2, -1, {"in"}) = [w EXCEPT !.port = (w.port + -1 + 256) % 256]
          BY <2>2, <3>1 DEF Adj
        <4> QED BY <4>1, <4>2
      <3>5. Adj(v, 1, -1, {"in"}) = [v EXCEPT !.port = w.port - 2]
        <4>1. v.port \in 1..255
          BY <2>1, <3>1, <3>2
        <4>2. (v.port + -1 + 256) % 256 = v.port - 1
          BY <4>1, PortDown
        <4>3. v.port - 1 = w.port - 2
          BY <2>1, <3>2
        <4> HIDE DEF v
        <4>4. Adj(v, 1, -1, {"in"}) = [v EXCEPT !.port = (v.port + -1 + 256) % 256]
          BY <3>2, <4>1 DEF Adj
        <4> QED BY <4>2, <4>3, <4>4
      <3>6. [v EXCEPT !.port = w.port - 2] = [w EXCEPT !.port = w.port - 2]
        OBVIOUS
      <3>7. Moved(w, A, K) = [w EXCEPT !.port = w.port - 2]
        BY <1>1, <2>1, <2>2 DEF Moved
      <3> HIDE DEF v
      <3> QED BY <3>3, <3>4, <3>5, <3>6, <3>7
    <2>3. CASE w.dir = "out"
      <3> DEFINE v == [w EXCEPT !.port = w.port - 1]
      <3>1. w.port \in 1..255
        BY <1>2, <2>1, <2>3
      <3>2. Adj(w, 1, -1, {"out"}) = v
        <4>1. (w.port + -1 + 256) % 256 = w.port - 1
          BY <3>1, PortDown
        <4>2. Adj(w, 1, -1, {"out"}) = [w EXCEPT !.port = (w.port + -1 + 256) % 256]
          BY <2>3, <3>1 DEF Adj
        <4> QED BY <4>1, <4>2
      <3>3. v.dir = "out"
        BY <2>1, <2>3 DEF Wire
      <3>4. Adj(v, 2, -1, {"in"}) = v /\ Adj(v, 1, -1, {"in"}) = v
        BY <3>3 DEF Adj
      <3>5. Moved(w, A, K) = v
        BY <1>1, <2>1, <2>3 DEF Moved
      <3> HIDE DEF v
      <3> QED BY <3>2, <3>4, <3>5
    <2> QED BY <2>1, <2>2, <2>3
  <1>6. /\ V1 = {Adj(w, 1, -1, {"out"}) : w \in S} /\ V2 = {Adj(w, 2, -1, {"in"}) : w \in V1}
        /\ V = {Adj(w, 1, -1, {"in"}) : w \in V2}
    BY AdjustedIs
  <1> HIDE DEF V, V1, V2
  <1>7. \A v \in V : \E w \in S : v = Moved(w, A, K)
    BY <1>5, <1>6
  <1>8. \A w \in S : Moved(w, A, K) \in V
    BY <1>5, <1>6
  <1>9. Left(V, W, S, A, K)
    BY <1>2, <1>4, <1>7, <1>8 DEF Left
  <1>10. V = CutWires(W, A, K)
    BY <1>9, LeftIsCut
  <1> QED BY <1>10 DEF S, V, V1, V2, A, K

-----------------------------------------------------------------------------
(* A dictionary has a key and a value for each element.                      *)

Half(n) == (n + 1) \div 2

LEMMA DictionaryLaw ==
    ASSUME NEW es \in Seq(Nat), layout = "dictionary"
    PROVE  /\ Ins(es) \in Seq(Pin) /\ Len(Ins(es)) = 2 * Len(es)
           /\ \A n \in 1..2 * Len(es) :
                  Half(n) \in 1..Len(es) /\ Ins(es)[n] = <<IF n % 2 = 1 THEN "key" ELSE "element", es[Half(n)]>>
  <1>1. Len(es) \in Nat
    OBVIOUS
  <1>2. 2 * Len(es) \in Nat /\ \A n \in 1..2 * Len(es) : Half(n) \in 1..Len(es)
    BY <1>1 DEF Half
  <1>3. Ins(es) = [p \in 1..2 * Len(es) |-> <<IF p % 2 = 1 THEN "key" ELSE "element", es[Half(p)]>>]
    BY DEF Ins, Half
  <1>4. ASSUME NEW n \in 1..2 * Len(es) PROVE <<IF n % 2 = 1 THEN "key" ELSE "element", es[Half(n)]>> \in Pin
    <2>1. es[Half(n)] \in Nat
      BY <1>2
    <2>2. (IF n % 2 = 1 THEN "key" ELSE "element") \in Roles
      BY DEF Roles
    <2> QED BY <2>1, <2>2 DEF Pin
  <1> DEFINE f(n) == <<IF n % 2 = 1 THEN "key" ELSE "element", es[Half(n)]>>
             m == 2 * Len(es)
  <1>5. m \in Nat /\ (\A n \in 1..m : f(n) \in Pin) /\ Ins(es) = [n \in 1..m |-> f(n)]
    BY <1>2, <1>3, <1>4
  <1> HIDE DEF f, m
  <1>6. Ins(es) \in Seq(Pin) /\ Len(Ins(es)) = m /\ \A n \in 1..m : Ins(es)[n] = f(n)
    <2>1. [n \in 1..m |-> f(n)] \in Seq(Pin) /\ Len([n \in 1..m |-> f(n)]) = m
      <3> HIDE DEF Pin
      <3> QED BY <1>5
    <2>2. \A n \in 1..m : [k \in 1..m |-> f(k)][n] = f(n)
      OBVIOUS
    <2> QED BY <1>5, <2>1, <2>2
  <1> QED BY <1>2, <1>6 DEF f, m

LEMMA DictionaryCut ==
    ASSUME NEW es, Named(es), NEW i \in Nat, i < Len(es), layout = "dictionary"
    PROVE  CutRow(Ins(es), Ins(Rest(es, i)), 2 * i, 2)
  <1> DEFINE len == Len(es)
             rest == Rest(es, i)
             p == Ins(es)
             q == Ins(rest)
             role(n) == IF n % 2 = 1 THEN "key" ELSE "element"
  <1>1. /\ len \in Nat /\ es \in Seq(Nat) /\ rest \in Seq(Nat) /\ Len(rest) = len - 1 /\ i < len
        /\ \A k \in 1..len - 1 : rest[k] = es[IF k <= i THEN k ELSE k + 1]
    BY RestNamed DEF Named
  <1>2. Len(p) = 2 * len /\ \A n \in 1..2 * len : Half(n) \in 1..len /\ p[n] = <<role(n), es[Half(n)]>>
    BY <1>1, DictionaryLaw
  <1>3. /\ Len(q) = 2 * (len - 1)
        /\ \A n \in 1..2 * (len - 1) : Half(n) \in 1..len - 1 /\ q[n] = <<role(n), rest[Half(n)]>>
    BY <1>1, DictionaryLaw
  <1>4. \A m, n \in 1..len : es[m] = es[n] => m = n
    BY DEF Named
  <1> HIDE DEF len, rest, p, q, role
  <1> SUFFICES ASSUME NEW n \in 0..Len(p) - 1
               PROVE  /\ n < 2 * i => n < Len(q) /\ q[n + 1] = p[n + 1]
                      /\ n >= 2 * i + 2 => n - 2 < Len(q) /\ q[n - 2 + 1] = p[n + 1]
                      /\ (2 * i <= n /\ n < 2 * i + 2) => \A m \in 1..Len(q) : q[m] # p[n + 1]
    BY DEF CutRow, p, q, rest
  <1>5. n \in Nat /\ n + 1 \in 1..2 * len /\ p[n + 1] = <<role(n + 1), es[Half(n + 1)]>>
    <2>1. Len(p) \in Nat /\ Len(p) = 2 * len
      BY <1>1, <1>2
    <2>2. n \in Nat /\ n + 1 \in 1..2 * len
      BY <2>1
    <2> QED BY <1>2, <2>2
  <1>6. ASSUME n < 2 * i PROVE n < Len(q) /\ q[n + 1] = p[n + 1]
    <2>1. n + 1 \in 1..2 * (len - 1) /\ Half(n + 1) <= i
      BY <1>1, <1>5, <1>6 DEF Half
    <2>2. q[n + 1] = <<role(n + 1), rest[Half(n + 1)]>> /\ Half(n + 1) \in 1..len - 1
      BY <1>3, <2>1
    <2>3. rest[Half(n + 1)] = es[Half(n + 1)]
      BY <1>1, <2>1, <2>2
    <2>4. n < Len(q)
      BY <1>1, <1>3, <1>5, <2>1
    <2> QED BY <1>5, <2>2, <2>3, <2>4
  <1>7. ASSUME n >= 2 * i + 2 PROVE n - 2 < Len(q) /\ q[n - 2 + 1] = p[n + 1]
    <2>1. n - 2 + 1 \in 1..2 * (len - 1) /\ Half(n - 2 + 1) + 1 = Half(n + 1) /\ ~(Half(n - 2 + 1) <= i)
      BY <1>1, <1>5, <1>7 DEF Half
    <2>2. role(n - 2 + 1) = role(n + 1)
      <3>1. (n - 2 + 1) % 2 = (n + 1) % 2
        <4>1. \A k \in Nat : (k + 2) % 2 = k % 2
          OBVIOUS
        <4>2. n - 2 + 1 \in Nat /\ (n - 2 + 1) + 2 = n + 1
          BY <1>1, <1>5, <1>7
        <4> QED BY <4>1, <4>2
      <3> QED BY <3>1 DEF role
    <2>3. q[n - 2 + 1] = <<role(n - 2 + 1), rest[Half(n - 2 + 1)]>> /\ Half(n - 2 + 1) \in 1..len - 1
      BY <1>3, <2>1
    <2>4. rest[Half(n - 2 + 1)] = es[Half(n + 1)]
      BY <1>1, <2>1, <2>3
    <2>5. n - 2 < Len(q)
      BY <1>1, <1>3, <1>5, <2>1
    <2> QED BY <1>5, <2>2, <2>3, <2>4, <2>5
  <1>8. ASSUME 2 * i <= n, n < 2 * i + 2, NEW m \in 1..Len(q) PROVE q[m] # p[n + 1]
    <2>1. Half(n + 1) = i + 1 /\ i + 1 \in 1..len
      BY <1>1, <1>5, <1>8 DEF Half
    <2>2. q[m] = <<role(m), rest[Half(m)]>> /\ Half(m) \in 1..len - 1
      BY <1>3
    <2>3. rest[Half(m)] # es[i + 1]
      <3> DEFINE k == Half(m)
                 j == IF k <= i THEN k ELSE k + 1
      <3>1. k \in 1..len - 1 /\ j \in 1..len /\ j # i + 1 /\ rest[k] = es[j]
        <4>1. k \in 1..len - 1
          BY <2>2
        <4> HIDE DEF k
        <4>2. j \in 1..len /\ j # i + 1
          BY <1>1, <4>1
        <4> QED BY <1>1, <4>1, <4>2
      <3> HIDE DEF k, j
      <3>2. rest[k] # es[i + 1]
        BY <1>4, <2>1, <3>1
      <3> QED BY <3>2 DEF k
    <2> QED BY <1>5, <2>1, <2>2, <2>3
  <1> QED BY <1>6, <1>7, <1>8

-----------------------------------------------------------------------------
(* What removing an element takes out, layout by layout.                     *)

\* Places behind the last pin are places behind the last pin afterwards.
LooseRow(p, q, a, k) ==
    \A n \in Nat : n >= Len(p) => /\ n < a => n >= Len(q)
                                  /\ n >= a + k => n - k >= Len(q)

Removal(i, A, K) ==
    /\ A \in [Dirs -> Nat] /\ K \in [Dirs -> Nat]
    /\ CutRow(Ins(elems), Ins(Rest(elems, i)), A["in"], K["in"])
    /\ CutRow(Outs(elems), Outs(Rest(elems, i)), A["out"], K["out"])
    /\ WiresWithout(i) = CutWires(wires, A, K)
    /\ layout = "call" => /\ LooseRow(Ins(elems), Ins(Rest(elems, i)), A["in"], K["in"])
                          /\ LooseRow(Outs(elems), Outs(Rest(elems, i)), A["out"], K["out"])

LEMMA RemovalSide ==
    ASSUME Named(elems), wires \in SUBSET Wire, NEW i \in Nat, i < Len(elems), layout # "call",
           NEW d \in Dirs, NEW a \in Nat, NEW o \in {a, a + 1},
           WiresWithout(i) = Adjusted(Unlinked(wires, d, a), o, -1, {d}),
           d = "in" => /\ CutRow(Ins(elems), Ins(Rest(elems, i)), a, 1)
                       /\ CutRow(Outs(elems), Outs(Rest(elems, i)), a, 0),
           d = "out" => /\ CutRow(Outs(elems), Outs(Rest(elems, i)), a, 1)
                        /\ CutRow(Ins(elems), Ins(Rest(elems, i)), a, 0)
    PROVE  \E A, K : Removal(i, A, K)
  <1>1. CASE d = "in"
    <2>1. By(a, a) \in [Dirs -> Nat] /\ By(a, a)["in"] = a /\ By(a, a)["out"] = a
      BY ByFacts
    <2>2. By(1, 0) \in [Dirs -> Nat] /\ By(1, 0)["in"] = 1 /\ By(1, 0)["out"] = 0
      BY ByFacts
    <2>3. \A x \in Dirs \ {d} : By(1, 0)[x] = 0
      BY <1>1, <2>2 DEF Dirs
    <2>4. WiresWithout(i) = CutWires(wires, By(a, a), By(1, 0))
      <3>1. OneTaken(wires, d, a, o, By(a, a), By(1, 0))
        BY <1>1, <2>1, <2>2, <2>3 DEF OneTaken
      <3> QED BY <3>1, OneCut
    <2>5. Removal(i, By(a, a), By(1, 0))
      BY <1>1, <2>1, <2>2, <2>4 DEF Removal
    <2> QED BY <2>5
  <1>2. CASE d = "out"
    <2>1. By(a, a) \in [Dirs -> Nat] /\ By(a, a)["in"] = a /\ By(a, a)["out"] = a
      BY ByFacts
    <2>2. By(0, 1) \in [Dirs -> Nat] /\ By(0, 1)["in"] = 0 /\ By(0, 1)["out"] = 1
      BY ByFacts
    <2>3. \A x \in Dirs \ {d} : By(0, 1)[x] = 0
      BY <1>2, <2>2 DEF Dirs
    <2>4. WiresWithout(i) = CutWires(wires, By(a, a), By(0, 1))
      <3>1. OneTaken(wires, d, a, o, By(a, a), By(0, 1))
        BY <1>2, <2>1, <2>2, <2>3 DEF OneTaken
      <3> QED BY <3>1, OneCut
    <2>5. Removal(i, By(a, a), By(0, 1))
      BY <1>2, <2>1, <2>2, <2>4 DEF Removal
    <2> QED BY <2>5
  <1> QED BY <1>1, <1>2 DEF Dirs

\* Rows of which one side does not know the elements.
LEMMA FixedRows ==
    /\ Len(<<>>) \in Nat
    /\ \A r \in Roles : Len(Fixed(r)) \in Nat
    /\ \A r, s \in Roles : Len(Fixed(r) \o Fixed(s)) \in Nat
  BY Heads, FixedPin, TwoFixed

LEMMA RemovalOut ==
    ASSUME Named(elems), wires \in SUBSET Wire, NEW i \in Nat, i < Len(elems),
           layout \in {"sequence", "random", "select", "entry"}
    PROVE  \E A, K : Removal(i, A, K)
  <1>0. /\ elems \in Seq(Nat) /\ Rest(elems, i) \in Seq(Nat)
        /\ {"exec", "value", "default", "out", "element"} \subseteq Roles
    BY RestNamed DEF Named, Roles
  <1>1. Ins(elems) = Ins(Rest(elems, i)) /\ Len(Ins(elems)) \in Nat
    BY <1>0, InsLaw, FixedRows
  <1>2. CASE layout \in {"sequence", "random", "select"}
    <2> DEFINE T == IF layout = "select" /\ default THEN Fixed("default") ELSE <<>>
    <2>1. IsHead(T) /\ IsHead(<<>>) /\ Len(<<>>) = 0
      BY <1>0, Heads
    <2>2. IsRow(Outs(elems), <<>>, "out", elems, T) /\ IsRow(Outs(Rest(elems, i)), <<>>, "out", Rest(elems, i), T)
      BY <1>0, <1>2, OutsLaw
    <2> HIDE DEF T
    <2>3. CutRow(Outs(elems), Outs(Rest(elems, i)), Len(<<>>) + i, 1)
      BY <2>1, <2>2, RowsCut
    <2>4. Len(<<>>) + i = i
      BY <2>1
    <2>5. WiresWithout(i) = Adjusted(Unlinked(wires, "out", i), i, -1, {"out"})
      BY <1>2 DEF WiresWithout
    <2>6. CutRow(Ins(elems), Ins(Rest(elems, i)), i, 0)
      BY <1>1, SameRow
    <2> QED BY <1>2, <2>3, <2>4, <2>5, <2>6, RemovalSide DEF Dirs
  <1>3. CASE layout = "entry"
    <2>1. IsHead(Fixed("exec")) /\ IsHead(<<>>) /\ Len(Fixed("exec")) = 1
      BY <1>0, Heads
    <2>2. /\ IsRow(Outs(elems), Fixed("exec"), "element", elems, <<>>)
          /\ IsRow(Outs(Rest(elems, i)), Fixed("exec"), "element", Rest(elems, i), <<>>)
      BY <1>0, <1>3, OutsLaw
    <2>3. CutRow(Outs(elems), Outs(Rest(elems, i)), Len(Fixed("exec")) + i, 1)
      BY <2>1, <2>2, RowsCut
    <2> DEFINE a == i + 1
    <2>4. a \in Nat /\ Len(Fixed("exec")) + i = a /\ i + 2 = a + 1
      <3>1. Len(Fixed("exec")) = 1
        BY <2>1
      <3>2. \A n \in Nat : n + 1 \in Nat /\ 1 + n = n + 1 /\ n + 2 = n + 1 + 1
        OBVIOUS
      <3> QED BY <3>1, <3>2
    <2>5. WiresWithout(i) = Adjusted(Unlinked(wires, "out", a), i + 2, -1, {"out"})
      BY <1>3 DEF WiresWithout
    <2> HIDE DEF a
    <2>6. CutRow(Ins(elems), Ins(Rest(elems, i)), a, 0)
      BY <1>1, <2>4, SameRow
    <2>7. "out" \in Dirs /\ i + 2 \in {a, a + 1}
      BY <2>4 DEF Dirs
    <2>8. CutRow(Outs(elems), Outs(Rest(elems, i)), a, 1)
      BY <2>3, <2>4
    <2> QED BY <1>3, <2>4, <2>5, <2>6, <2>7, <2>8, RemovalSide
  <1> QED BY <1>2, <1>3

LEMMA RemovalIn ==
    ASSUME Named(elems), wires \in SUBSET Wire, NEW i \in Nat, i < Len(elems), layout \in {"array", "vararg"}
    PROVE  \E A, K : Removal(i, A, K)
  <1>0. /\ elems \in Seq(Nat) /\ Rest(elems, i) \in Seq(Nat)
        /\ {"exec", "value", "base", "element"} \subseteq Roles
    BY RestNamed DEF Named, Roles
  <1>1. Outs(elems) = Outs(Rest(elems, i)) /\ Len(Outs(elems)) \in Nat
    BY <1>0, OutsLaw, FixedRows
  <1> DEFINE H == IF layout = "array" THEN <<>> ELSE Fixed("exec") \o Fixed("base")
             a == IF layout = "array" THEN i ELSE i + 2
  <1>2. IsHead(H) /\ IsHead(<<>>) /\ Len(H) + i = a /\ a \in Nat
    <2>1. IsHead(<<>>) /\ Len(<<>>) = 0 /\ IsHead(Fixed("exec") \o Fixed("base")) /\ Len(Fixed("exec") \o Fixed("base")) = 2
      BY <1>0, Heads
    <2> QED BY <2>1
  <1>3. IsRow(Ins(elems), H, "element", elems, <<>>) /\ IsRow(Ins(Rest(elems, i)), H, "element", Rest(elems, i), <<>>)
    BY <1>0, InsLaw
  <1>4. WiresWithout(i) = Adjusted(Unlinked(wires, "in", a), a, -1, {"in"})
    BY DEF WiresWithout
  <1> HIDE DEF H, a
  <1>5. CutRow(Ins(elems), Ins(Rest(elems, i)), a, 1)
    BY <1>2, <1>3, RowsCut
  <1>6. CutRow(Outs(elems), Outs(Rest(elems, i)), a, 0)
    BY <1>1, <1>2, SameRow
  <1>7. "in" \in Dirs /\ a \in {a, a + 1} /\ layout # "call"
    BY DEF Dirs
  <1> QED BY <1>2, <1>4, <1>5, <1>6, <1>7, RemovalSide

LEMMA RemovalPair ==
    ASSUME Named(elems), wires \in SUBSET Wire, NEW i \in Nat, i < Len(elems), layout = "dictionary"
    PROVE  \E A, K : Removal(i, A, K)
  <1>0. elems \in Seq(Nat) /\ Rest(elems, i) \in Seq(Nat) /\ "value" \in Roles /\ 2 * i \in Nat
    BY RestNamed DEF Named, Roles
  <1>1. Outs(elems) = Outs(Rest(elems, i)) /\ Len(Outs(elems)) \in Nat
    BY <1>0, OutsLaw, FixedRows
  <1> DEFINE a == 2 * i
  <1>2. WiresWithout(i) = Adjusted(Unlinked(Unlinked(wires, "in", a), "in", a + 1), a, -2, {"in"})
    BY DEF WiresWithout
  <1>3. CutRow(Ins(elems), Ins(Rest(elems, i)), a, 2)
    BY DictionaryCut
  <1> HIDE DEF a
  <1>4. a \in Nat
    BY <1>0 DEF a
  <1>5. WiresWithout(i) = CutWires(wires, By(a, 0), By(2, 0))
    BY <1>2, <1>4, PairCut
  <1>6. /\ By(a, 0) \in [Dirs -> Nat] /\ By(a, 0)["in"] = a /\ By(a, 0)["out"] = 0
        /\ By(2, 0) \in [Dirs -> Nat] /\ By(2, 0)["in"] = 2 /\ By(2, 0)["out"] = 0
    BY <1>4, ByFacts
  <1>7. CutRow(Outs(elems), Outs(Rest(elems, i)), 0, 0)
    BY <1>1, SameRow
  <1>8. Removal(i, By(a, 0), By(2, 0))
    BY <1>3, <1>5, <1>6, <1>7 DEF Removal
  <1> QED BY <1>8

LEMMA RemovalBoth ==
    ASSUME Named(elems), wires \in SUBSET Wire, NEW i \in Nat, i < Len(elems), layout \in {"switch", "dialogue"}
    PROVE  \E A, K : Removal(i, A, K)
  <1> DEFINE rest == Rest(elems, i)
             H == IF layout = "switch" THEN Fixed("exec") \o Fixed("value")
                  ELSE Fixed("exec") \o Fixed("base") \o Fixed("value") \o Fixed("key")
             a == IF layout = "switch" THEN i + 2 ELSE i + 4
             b == IF layout = "switch" THEN i + 2 ELSE i
  <1>0. /\ elems \in Seq(Nat) /\ rest \in Seq(Nat) /\ {"exec", "value", "base", "done", "default", "element", "out"} \subseteq Roles
        /\ Len(rest) = Len(elems) - 1 /\ Len(elems) \in Nat
    BY RestNamed DEF Named, Roles
  <1>1. /\ IsHead(<<>>) /\ Len(<<>>) = 0
        /\ IsHead(Fixed("exec") \o Fixed("value")) /\ Len(Fixed("exec") \o Fixed("value")) = 2
        /\ IsHead(Fixed("done") \o Fixed("default")) /\ Len(Fixed("done") \o Fixed("default")) = 2
    BY <1>0, Heads
  <1>2. IsHead(H) /\ Len(H) + i = a /\ a \in Nat /\ b \in Nat
    <2>1. /\ IsHead(Fixed("exec") \o Fixed("base") \o Fixed("value") \o Fixed("key"))
          /\ Len(Fixed("exec") \o Fixed("base") \o Fixed("value") \o Fixed("key")) = 4
      BY Heads
    <2>2. CASE layout = "switch"
      BY <1>1, <2>2
    <2>3. CASE layout = "dialogue"
      BY <2>1, <2>3
    <2> QED BY <2>2, <2>3
  <1>3. IsRow(Ins(elems), H, "element", elems, <<>>) /\ IsRow(Ins(rest), H, "element", rest, <<>>)
    BY <1>0, InsLaw
  <1>4. /\ layout = "switch" => /\ a = b
                                /\ WiresWithout(i) = Adjusted(Unlinked(Unlinked(wires, "in", a), "out", b), a, -1, {"in", "out"})
        /\ layout = "dialogue" => WiresWithout(i) = Adjusted(Adjusted(Unlinked(Unlinked(wires, "in", a), "out", b), a, -1, {"in"}),
                                                             b, -1, {"out"})
    BY DEF WiresWithout
  <1>5. CutRow(Outs(elems), Outs(rest), b, 1)
    <2>1. CASE layout = "switch"
      <3>1. /\ IsRow(Outs(elems), Fixed("done") \o Fixed("default"), "out", elems, <<>>)
            /\ IsRow(Outs(rest), Fixed("done") \o Fixed("default"), "out", rest, <<>>)
        BY <1>0, <2>1, OutsLaw
      <3>2. CutRow(Outs(elems), Outs(rest), Len(Fixed("done") \o Fixed("default")) + i, 1)
        BY <1>1, <3>1, RowsCut
      <3>3. Len(Fixed("done") \o Fixed("default")) + i = b
        BY <1>1, <2>1
      <3> QED BY <3>2, <3>3
    <2>2. CASE layout = "dialogue" /\ rest # <<>>
      <3>1. elems # <<>>
        BY <1>0
      <3>2. IsRow(Outs(elems), <<>>, "out", elems, <<>>) /\ IsRow(Outs(rest), <<>>, "out", rest, <<>>)
        BY <1>0, <2>2, <3>1, OutsLaw
      <3>3. CutRow(Outs(elems), Outs(rest), Len(<<>>) + i, 1)
        BY <1>1, <3>2, RowsCut
      <3>4. Len(<<>>) + i = b
        BY <1>1, <2>2
      <3> QED BY <3>3, <3>4
    <2>3. CASE layout = "dialogue" /\ rest = <<>>
      <3>1. Len(elems) = 1 /\ i = 0 /\ elems # <<>> /\ b = 0
        <4>1. Len(elems) = 1
          <5> HIDE DEF rest
          <5>1. Len(rest) = 0
            BY <1>1, <2>3
          <5> QED BY <1>0, <5>1
        <4>2. i = 0
          BY <4>1
        <4>3. elems # <<>>
          BY <1>1, <4>1
        <4> QED BY <2>3, <4>1, <4>2, <4>3
      <3>2. IsRow(Outs(elems), <<>>, "out", elems, <<>>)
        BY <1>0, <2>3, <3>1, OutsLaw
      <3>3. Len(Outs(elems)) = 1 /\ Outs(elems)[1] = <<"out", elems[1]>>
        BY <1>1, <3>1, <3>2 DEF IsRow, Row
      <3>4. Outs(rest) = Fixed("exec") /\ Len(Fixed("exec")) = 1 /\ Fixed("exec")[1] = <<"exec", 0>>
        BY <1>0, <2>3, OutsLaw, FixedPin
      <3>5. \A m \in 1..1 : Outs(rest)[m] # Outs(elems)[1]
        BY <3>3, <3>4
      <3> HIDE DEF rest, b
      <3>6. Len(Outs(elems)) = 1 /\ Len(Outs(rest)) = 1
        BY <3>3, <3>4
      <3>7. \A n \in 0..Len(Outs(elems)) - 1 : n = 0
        BY <3>6
      <3> QED BY <3>1, <3>5, <3>6, <3>7 DEF CutRow
    <2> QED BY <2>1, <2>2, <2>3
  <1> HIDE DEF H, a, b, rest
  <1>6. CutRow(Ins(elems), Ins(rest), a, 1)
    <2>1. CutRow(Ins(elems), Ins(rest), Len(H) + i, 1)
      BY <1>1, <1>2, <1>3, RowsCut DEF rest
    <2> QED BY <1>2, <2>1
  <1>7. WiresWithout(i) = CutWires(wires, By(a, b), By(1, 1))
    BY <1>2, <1>4, BothCut
  <1>8. /\ By(a, b) \in [Dirs -> Nat] /\ By(a, b)["in"] = a /\ By(a, b)["out"] = b
        /\ By(1, 1) \in [Dirs -> Nat] /\ By(1, 1)["in"] = 1 /\ By(1, 1)["out"] = 1
    BY <1>2, ByFacts
  <1>9. Removal(i, By(a, b), By(1, 1))
    BY <1>5, <1>6, <1>7, <1>8 DEF Removal, rest
  <1> QED BY <1>9

LEMMA RemovalCall ==
    ASSUME Named(elems), wires \in SUBSET Wire, NEW i \in Nat, i < Len(elems), layout = "call"
    PROVE  \E A, K : Removal(i, A, K)
  <1> DEFINE rest == Rest(elems, i)
             one == Unlinked(wires, "in", i + 1)
             none == Unlinked(Unlinked(one, "in", 0), "out", 0)
  <1>0. /\ elems \in Seq(Nat) /\ rest \in Seq(Nat) /\ {"exec", "return", "element"} \subseteq Roles
        /\ Len(rest) = Len(elems) - 1 /\ Len(elems) \in Nat
    BY RestNamed DEF Named, Roles
  <1>1. /\ IsHead(<<>>) /\ Len(<<>>) = 0 /\ IsHead(Fixed("exec")) /\ Len(Fixed("exec")) = 1
        /\ Fixed("exec") \in Seq(Pin) /\ Fixed("exec")[1] = <<"exec", 0>>
        /\ Fixed("return") \in Seq(Pin) /\ Len(Fixed("return")) = 1 /\ Fixed("return")[1] = <<"return", 0>>
    BY <1>0, Heads, FixedPin
  <1>2. ~IsPure(elems)
    <2>1. elems # <<>>
      BY <1>0, <1>1
    <2> QED BY <2>1 DEF IsPure
  <1>3. IsRow(Ins(elems), Fixed("exec"), "element", elems, <<>>) /\ Len(Ins(elems)) = Len(elems) + 1
    <2>1. IsRow(Ins(elems), Fixed("exec"), "element", elems, <<>>)
      BY <1>0, <1>2, InsLaw
    <2>2. Len(Ins(elems)) = 1 + Len(elems) + 0
      BY <1>1, <2>1 DEF IsRow, Row
    <2> QED BY <1>0, <2>1, <2>2
  <1>4. WiresWithout(i) = IF IsPure(rest)
                          THEN Adjusted(Adjusted(Adjusted(none, 1, -1, {"out"}), i + 2, -1, {"in"}), 1, -1, {"in"})
                          ELSE Adjusted(one, i + 2, -1, {"in"})
    BY DEF WiresWithout, Rest
  <1>5. Outs(elems) = Fixed("exec") \o (IF returns THEN Fixed("return") ELSE <<>>)
    BY <1>0, <1>2, OutsLaw
  <1>6. CASE ~IsPure(rest)
    <2> DEFINE a == i + 1
    <2>1. a \in Nat /\ i + 2 \in {a, a + 1} /\ Len(Fixed("exec")) + i = a /\ a <= Len(elems)
      <3>1. \A n \in Nat : n + 1 \in Nat /\ 1 + n = n + 1 /\ n + 2 = n + 1 + 1
        OBVIOUS
      <3>2. i + 1 <= Len(elems)
        BY <1>0
      <3> QED BY <1>1, <3>1, <3>2
    <2>2. IsRow(Ins(rest), Fixed("exec"), "element", rest, <<>>) /\ Len(Ins(rest)) = Len(elems)
      <3>1. IsRow(Ins(rest), Fixed("exec"), "element", rest, <<>>)
        BY <1>0, <1>6, InsLaw
      <3> HIDE DEF rest
      <3>2. Len(Ins(rest)) = 1 + Len(rest) + 0
        BY <1>1, <3>1 DEF IsRow, Row
      <3> QED BY <1>0, <3>1, <3>2
    <2>3. Outs(rest) = Outs(elems)
      BY <1>0, <1>5, <1>6, OutsLaw
    <2>4. Len(Outs(elems)) \in Nat
      <3>1. "exec" \in Roles /\ "return" \in Roles
        BY <1>0
      <3>2. Len(Fixed("exec") \o Fixed("return")) \in Nat
        BY <3>1, FixedRows
      <3>3. Len(Fixed("exec") \o <<>>) \in Nat
        BY <1>1, Concat
      <3> QED BY <1>5, <3>2, <3>3
    <2>5. WiresWithout(i) = Adjusted(Unlinked(wires, "in", a), i + 2, -1, {"in"})
      BY <1>4, <1>6
    <2>6. CutRow(Ins(elems), Ins(rest), Len(Fixed("exec")) + i, 1)
      BY <1>1, <1>3, <2>2, RowsCut
    <2> HIDE DEF a, rest
    <2>7. CutRow(Ins(elems), Ins(rest), a, 1)
      BY <2>1, <2>6
    <2>8. CutRow(Outs(elems), Outs(rest), a, 0)
      BY <2>1, <2>3, <2>4, SameRow
    <2>9. By(a, a) \in [Dirs -> Nat] /\ By(a, a)["in"] = a /\ By(a, a)["out"] = a
      BY <2>1, ByFacts
    <2>10. By(1, 0) \in [Dirs -> Nat] /\ By(1, 0)["in"] = 1 /\ By(1, 0)["out"] = 0
      BY ByFacts
    <2>11. OneTaken(wires, "in", a, i + 2, By(a, a), By(1, 0))
      BY <2>1, <2>9, <2>10 DEF OneTaken, Dirs
    <2>12. WiresWithout(i) = CutWires(wires, By(a, a), By(1, 0))
      BY <2>5, <2>11, OneCut
    <2>13. LooseRow(Ins(elems), Ins(rest), a, 1)
      BY <1>0, <1>3, <2>1, <2>2 DEF LooseRow
    <2>14. LooseRow(Outs(elems), Outs(rest), a, 0)
      BY <2>1, <2>3, <2>4 DEF LooseRow
    <2>15. Removal(i, By(a, a), By(1, 0))
      BY <2>7, <2>8, <2>9, <2>10, <2>12, <2>13, <2>14 DEF Removal, rest
    <2> QED BY <2>15
  <1>7. CASE IsPure(rest)
    <2>1. rest = <<>> /\ returns
      BY <1>7 DEF IsPure
    <2>2. Len(elems) = 1 /\ i = 0
      <3> HIDE DEF rest
      <3>1. Len(elems) = 1
        BY <1>0, <1>1, <2>1
      <3> QED BY <3>1
    <2>3. Ins(rest) = <<>>
      BY <1>0, <1>7, InsLaw
    <2>4. Outs(rest) = <<>> \o Fixed("return")
      BY <1>0, <1>7, <2>1, OutsLaw
    <2>5. Outs(elems) = Fixed("exec") \o Fixed("return")
      BY <1>5, <2>1
    <2>6. Len(Ins(elems)) = 2 /\ Len(Ins(rest)) = 0
      BY <1>1, <1>3, <2>2, <2>3
    <2>7. Len(Outs(elems)) = 2 /\ Outs(elems)[1] = <<"exec", 0>> /\ Outs(elems)[2] = <<"return", 0>>
      <3>1. "exec" \in Roles /\ "return" \in Roles
        BY <1>0
      <3> QED BY <2>5, <3>1, TwoFixed
    <2>8. Len(Outs(rest)) = 1 /\ Outs(rest)[1] = <<"return", 0>>
      BY <1>1, <2>4
    <2>9. WiresWithout(i) = Adjusted(Adjusted(Adjusted(Unlinked(Unlinked(Unlinked(wires, "in", 1), "in", 0), "out", 0),
                                                       1, -1, {"out"}), 2, -1, {"in"}), 1, -1, {"in"})
      BY <1>4, <1>7, <2>2
    <2> HIDE DEF rest
    <2>10. WiresWithout(i) = CutWires(wires, By(0, 0), By(2, 1))
      BY <2>9, GetterCut
    <2>11. CutRow(Ins(elems), Ins(rest), 0, 2)
      BY <2>6 DEF CutRow
    <2>12. CutRow(Outs(elems), Outs(rest), 0, 1)
      <3>1. \A n \in 0..Len(Outs(elems)) - 1 : n = 0 \/ n = 1
        BY <2>7
      <3>2. \A m \in 1..Len(Outs(rest)) : m = 1
        BY <2>8
      <3>3. <<"exec", 0>> # <<"return", 0>>
        OBVIOUS
      <3> QED BY <2>7, <2>8, <3>1, <3>2, <3>3 DEF CutRow
    <2>13. LooseRow(Ins(elems), Ins(rest), 0, 2) /\ LooseRow(Outs(elems), Outs(rest), 0, 1)
      BY <2>6, <2>7, <2>8 DEF LooseRow
    <2>14. /\ By(0, 0) \in [Dirs -> Nat] /\ By(0, 0)["in"] = 0 /\ By(0, 0)["out"] = 0
           /\ By(2, 1) \in [Dirs -> Nat] /\ By(2, 1)["in"] = 2 /\ By(2, 1)["out"] = 1
      BY ByFacts
    <2>15. Removal(i, By(0, 0), By(2, 1))
      BY <2>10, <2>11, <2>12, <2>13, <2>14 DEF Removal, rest
    <2> QED BY <2>15
  <1> QED BY <1>6, <1>7

LEMMA RemovalAny ==
    ASSUME Named(elems), wires \in SUBSET Wire, NEW i \in Nat, i < Len(elems), layout \in Kinds
    PROVE  \E A, K : Removal(i, A, K)
  <1>1. layout \in {"sequence", "random", "select", "entry"} \/ layout \in {"array", "vararg"}
          \/ layout = "dictionary" \/ layout \in {"switch", "dialogue"} \/ layout = "call"
    BY DEF Kinds
  <1> QED BY <1>1, RemovalOut, RemovalIn, RemovalPair, RemovalBoth, RemovalCall

-----------------------------------------------------------------------------
(* All pins: how many there are, and that they differ.                       *)

\* The pins, by direction, with the elements es.
Over(es) == [d \in Dirs |-> IF d = "in" THEN Ins(es) ELSE Outs(es)]

AllPins == [d \in Dirs |-> Pins(d)]

LEMMA OverIs ==
    /\ AllPins = Over(elems)
    /\ AllPins["in"] = Ins(elems) /\ AllPins["out"] = Outs(elems)
    /\ \A es : Over(es)["in"] = Ins(es) /\ Over(es)["out"] = Outs(es)
  BY DEF AllPins, Over, Pins, Dirs

LEMMA RowLength ==
    ASSUME NEW p, NEW H, NEW role, NEW es, NEW T, IsRow(p, H, role, es, T) PROVE Len(p) = Len(H) + Len(es) + Len(T)
  BY DEF IsRow, Row

\* A port of eight bits tells all pins apart.
LEMMA PinsSized ==
    ASSUME NEW es \in Seq(Nat), layout \in Kinds
    PROVE  /\ Len(Ins(es)) \in Nat /\ Len(Outs(es)) \in Nat
           /\ Len(es) <= 128 => Len(Ins(es)) <= 256 /\ Len(Outs(es)) <= 256
  <1>0. Len(es) \in Nat /\ {"exec", "value", "base", "key", "done", "default", "return", "out", "element"} \subseteq Roles
    BY DEF Roles
  <1>1. /\ Len(<<>>) = 0 /\ Len(Fixed("exec")) = 1 /\ Len(Fixed("value")) = 1
        /\ Len(Fixed("default")) = 1 /\ Len(Fixed("return")) = 1
        /\ Len(Fixed("exec") \o Fixed("value")) = 2 /\ Len(Fixed("exec") \o Fixed("base")) = 2
        /\ Len(Fixed("done") \o Fixed("default")) = 2
        /\ Len(Fixed("exec") \o Fixed("base") \o Fixed("value") \o Fixed("key")) = 4
    BY <1>0, Heads
  <1>2. Len(Ins(es)) \in Nat /\ (Len(es) <= 128 => Len(Ins(es)) <= 256)
    <2>1. CASE layout \in {"sequence", "random", "select", "entry"} \/ (layout = "call" /\ IsPure(es))
      <3>1. Ins(es) = Fixed("exec") \/ Ins(es) = Fixed("exec") \o Fixed("value") \/ Ins(es) = <<>>
        BY <2>1, InsLaw
      <3>2. Len(Ins(es)) \in 0..2
        <4>1. Len(Ins(es)) = 1 \/ Len(Ins(es)) = 2 \/ Len(Ins(es)) = 0
          BY <1>1, <3>1, Zenon
        <4> DEFINE m == Len(Ins(es))
        <4>2. m = 1 \/ m = 2 \/ m = 0
          BY <4>1
        <4> HIDE DEF m
        <4>3. m \in 0..2
          BY <4>2
        <4> QED BY <4>3 DEF m
      <3> DEFINE m == Len(Ins(es))
      <3>3. m \in 0..2
        BY <3>2
      <3> HIDE DEF m
      <3>4. m \in Nat /\ m <= 256
        BY <3>3
      <3> QED BY <3>4 DEF m
    <2>2. CASE layout \in {"array", "vararg", "switch", "dialogue"} \/ (layout = "call" /\ ~IsPure(es))
      <3>1. PICK H : IsRow(Ins(es), H, "element", es, <<>>) /\ Len(H) \in 0..4
        <4>1. CASE layout = "array"
          BY <1>1, <4>1, InsLaw
        <4>2. CASE layout = "vararg"
          <5> DEFINE H == Fixed("exec") \o Fixed("base")
          <5>1. IsRow(Ins(es), H, "element", es, <<>>) /\ Len(H) \in 0..4
            BY <1>1, <4>2, InsLaw
          <5> QED BY <5>1
        <4>3. CASE layout = "switch"
          <5> DEFINE H == Fixed("exec") \o Fixed("value")
          <5>1. IsRow(Ins(es), H, "element", es, <<>>) /\ Len(H) \in 0..4
            BY <1>1, <4>3, InsLaw
          <5> QED BY <5>1
        <4>4. CASE layout = "dialogue"
          <5> DEFINE H == Fixed("exec") \o Fixed("base") \o Fixed("value") \o Fixed("key")
          <5>1. IsRow(Ins(es), H, "element", es, <<>>) /\ Len(H) \in 0..4
            BY <1>1, <4>4, InsLaw
          <5> QED BY <5>1
        <4>5. CASE layout = "call" /\ ~IsPure(es)
          BY <1>1, <4>5, InsLaw
        <4> QED BY <2>2, <4>1, <4>2, <4>3, <4>4, <4>5
      <3>2. Len(Ins(es)) = Len(H) + Len(es) + 0
        <4>1. IsRow(Ins(es), H, "element", es, <<>>)
          BY <3>1
        <4>2. Len(Ins(es)) = Len(H) + Len(es) + Len(<<>>)
          BY <4>1, RowLength
        <4> QED BY <1>1, <4>2
      <3> DEFINE m == Len(Ins(es))
                 h == Len(H)
      <3>3. m = h + Len(es) + 0 /\ h \in 0..4
        BY <3>1, <3>2
      <3> HIDE DEF m, h
      <3>4. m \in Nat /\ (Len(es) <= 128 => m <= 256)
        BY <1>0, <3>3
      <3> QED BY <3>4 DEF m
    <2>3. CASE layout = "dictionary"
      <3>1. Len(Ins(es)) = 2 * Len(es)
        BY <2>3, DictionaryLaw
      <3> QED BY <1>0, <3>1
    <2> QED BY <2>1, <2>2, <2>3 DEF Kinds
  <1>3. Len(Outs(es)) \in Nat /\ (Len(es) <= 128 => Len(Outs(es)) <= 256)
    <2>1. CASE layout \in {"array", "dictionary", "vararg"} \/ (layout = "dialogue" /\ es = <<>>)
      <3>1. Outs(es) = Fixed("value") \/ Outs(es) = Fixed("exec")
        BY <2>1, OutsLaw
      <3>2. Len(Outs(es)) = 1
        BY <1>0, <1>1, <3>1
      <3> QED BY <3>2
    <2>2. CASE layout \in {"sequence", "random", "switch", "select", "entry"} \/ (layout = "dialogue" /\ es # <<>>)
      <3>1. PICK H, role, T : IsRow(Outs(es), H, role, es, T) /\ Len(H) \in 0..4 /\ Len(T) \in 0..1
        <4>1. CASE layout \in {"sequence", "random"} \/ (layout = "dialogue" /\ es # <<>>)
          <5>1. IsRow(Outs(es), <<>>, "out", es, <<>>)
            BY <4>1, OutsLaw
          <5>2. Len(<<>>) \in 0..4 /\ Len(<<>>) \in 0..1
            BY <1>1
          <5> QED BY <5>1, <5>2
        <4>2. CASE layout = "switch"
          <5> DEFINE H == Fixed("done") \o Fixed("default")
          <5>1. IsRow(Outs(es), H, "out", es, <<>>) /\ Len(H) \in 0..4 /\ Len(<<>>) \in 0..1
            BY <1>1, <4>2, OutsLaw
          <5> QED BY <5>1
        <4>3. CASE layout = "select"
          <5> DEFINE T == IF default THEN Fixed("default") ELSE <<>>
          <5>1. Len(T) \in 0..1
            BY <1>0, <1>1
          <5>2. IsRow(Outs(es), <<>>, "out", es, T)
            BY <4>3, OutsLaw
          <5> HIDE DEF T
          <5> QED BY <1>1, <5>1, <5>2
        <4>4. CASE layout = "entry"
          <5>1. IsRow(Outs(es), Fixed("exec"), "element", es, <<>>) /\ Len(Fixed("exec")) \in 0..4 /\ Len(<<>>) \in 0..1
            BY <1>1, <4>4, OutsLaw
          <5> QED BY <5>1
        <4> QED BY <2>2, <4>1, <4>2, <4>3, <4>4
      <3>2. Len(Outs(es)) = Len(H) + Len(es) + Len(T)
        <4>1. IsRow(Outs(es), H, role, es, T)
          BY <3>1
        <4> QED BY <4>1, RowLength
      <3> DEFINE m == Len(Outs(es))
                 h == Len(H)
                 s == Len(T)
      <3>3. m = h + Len(es) + s /\ h \in 0..4 /\ s \in 0..1
        BY <3>1, <3>2
      <3> HIDE DEF m, h, s
      <3>4. m \in Nat /\ (Len(es) <= 128 => m <= 256)
        BY <1>0, <3>3
      <3> QED BY <3>4 DEF m
    <2>3. CASE layout = "call"
      <3> DEFINE E == IF IsPure(es) THEN <<>> ELSE Fixed("exec")
                 R == IF returns THEN Fixed("return") ELSE <<>>
      <3>1. E \in Seq(Pin) /\ Len(E) \in 0..1 /\ R \in Seq(Pin) /\ Len(R) \in 0..1
        <4>1. <<>> \in Seq(Pin) /\ Fixed("exec") \in Seq(Pin) /\ Fixed("return") \in Seq(Pin)
          BY <1>0, FixedPin
        <4> QED BY <1>1, <4>1
      <3>2. Outs(es) = E \o R
        BY <2>3, OutsLaw
      <3> HIDE DEF E, R
      <3>3. Len(E \o R) = Len(E) + Len(R)
        BY <3>1, Concat
      <3> QED BY <3>1, <3>2, <3>3
    <2> QED BY <2>1, <2>2, <2>3 DEF Kinds
  <1> QED BY <1>2, <1>3

LEMMA RowsApart ==
    ASSUME NEW es, Named(es), NEW role, NEW H, NEW T, IsHead(H), IsHead(T), NEW p, IsRow(p, H, role, es, T)
    PROVE  (Len(T) = 0 \/ (Len(T) = 1 /\ Len(H) = 0)) => Apart(p)
  <1> SUFFICES ASSUME Len(T) = 0 \/ (Len(T) = 1 /\ Len(H) = 0) PROVE Apart(p)
    OBVIOUS
  <1> DEFINE h == Len(H)
             t == Len(T)
  <1>1. h \in Nat /\ t \in {0, 1} /\ (t = 1 => h = 0)
    <2>1. h \in Nat
      BY DEF IsHead
    <2>2. t \in {0, 1} /\ (t = 1 => h = 0)
      OBVIOUS
    <2> QED BY <2>1, <2>2
  <1>2. Row(p, h, role, es, t)
    BY DEF IsRow
  <1>3. ApartTo(p, h)
    BY DEF IsRow, IsHead, ApartTo
  <1> HIDE DEF h, t
  <1> QED BY <1>1, <1>2, <1>3, RowDistinct

LEMMA HeadApart == ASSUME NEW H, IsHead(H) PROVE Apart(H)
  BY DEF IsHead, Apart

LEMMA DictionaryApart ==
    ASSUME NEW es, Named(es), layout = "dictionary" PROVE Apart(Ins(es))
  <1>1. es \in Seq(Nat) /\ Len(es) \in Nat /\ \A m, n \in 1..Len(es) : es[m] = es[n] => m = n
    BY DEF Named
  <1>2. /\ Len(Ins(es)) = 2 * Len(es)
        /\ \A n \in 1..2 * Len(es) :
               Half(n) \in 1..Len(es) /\ Ins(es)[n] = <<IF n % 2 = 1 THEN "key" ELSE "element", es[Half(n)]>>
    BY <1>1, DictionaryLaw
  <1> SUFFICES ASSUME NEW m \in 1..2 * Len(es), NEW n \in 1..2 * Len(es), Ins(es)[m] = Ins(es)[n] PROVE m = n
    BY <1>2 DEF Apart
  <1>3. Half(m) = Half(n)
    <2>1. es[Half(m)] = es[Half(n)] /\ Half(m) \in 1..Len(es) /\ Half(n) \in 1..Len(es)
      BY <1>2
    <2> QED BY <1>1, <2>1
  <1>4. m % 2 = n % 2
    <2>1. (IF m % 2 = 1 THEN "key" ELSE "element") = (IF n % 2 = 1 THEN "key" ELSE "element")
      BY <1>2
    <2>2. (m % 2 = 1) <=> (n % 2 = 1)
      BY <2>1
    <2>3. m \in Nat /\ n \in Nat
      BY <1>1
    <2>4. m % 2 \in {0, 1} /\ n % 2 \in {0, 1}
      BY <2>3
    <2> QED BY <2>2, <2>4
  <1>5. \A j, k \in Nat : (j % 2 = k % 2 /\ (j + 1) \div 2 = (k + 1) \div 2) => j = k
    OBVIOUS
  <1>6. m \in Nat /\ n \in Nat
    BY <1>1
  <1> QED BY <1>3, <1>4, <1>5, <1>6 DEF Half

LEMMA PinsApart ==
    ASSUME NEW es, Named(es), layout \in Kinds, layout # "call" PROVE Distinct(Over(es))
  <1>0. es \in Seq(Nat) /\ {"exec", "value", "base", "key", "done", "default", "out", "element"} \subseteq Roles
    BY DEF Named, Roles
  <1>1. /\ IsHead(<<>>) /\ Len(<<>>) = 0
        /\ IsHead(Fixed("exec")) /\ IsHead(Fixed("value")) /\ IsHead(Fixed("default")) /\ Len(Fixed("default")) = 1
        /\ IsHead(Fixed("exec") \o Fixed("value")) /\ IsHead(Fixed("exec") \o Fixed("base"))
        /\ IsHead(Fixed("done") \o Fixed("default"))
        /\ IsHead(Fixed("exec") \o Fixed("base") \o Fixed("value") \o Fixed("key"))
    BY <1>0, Heads
  <1>2. Apart(Ins(es))
    <2>1. CASE layout \in {"sequence", "random", "select", "entry"}
      <3>1. IsHead(Ins(es))
        BY <1>0, <1>1, <2>1, InsLaw
      <3> QED BY <3>1, HeadApart
    <2>2. CASE layout \in {"array", "vararg", "switch", "dialogue"}
      <3>1. PICK H : IsRow(Ins(es), H, "element", es, <<>>) /\ IsHead(H)
        BY <1>0, <1>1, <2>2, InsLaw
      <3> QED BY <1>1, <3>1, RowsApart
    <2>3. CASE layout = "dictionary"
      BY <2>3, DictionaryApart
    <2> QED BY <2>1, <2>2, <2>3 DEF Kinds
  <1>3. Apart(Outs(es))
    <2>1. CASE layout \in {"array", "dictionary", "vararg"} \/ (layout = "dialogue" /\ es = <<>>)
      <3>1. IsHead(Outs(es))
        BY <1>0, <1>1, <2>1, OutsLaw
      <3> QED BY <3>1, HeadApart
    <2>2. CASE layout \in {"sequence", "random", "switch", "entry"} \/ (layout = "dialogue" /\ es # <<>>)
      <3>1. PICK H, role : IsRow(Outs(es), H, role, es, <<>>) /\ IsHead(H)
        BY <1>0, <1>1, <2>2, OutsLaw
      <3> QED BY <1>1, <3>1, RowsApart
    <2>3. CASE layout = "select"
      <3> DEFINE T == IF default THEN Fixed("default") ELSE <<>>
      <3>1. IsHead(T) /\ Len(T) \in {0, 1}
        BY <1>1
      <3>2. IsRow(Outs(es), <<>>, "out", es, T)
        BY <1>0, <2>3, OutsLaw
      <3> HIDE DEF T
      <3> QED BY <1>1, <3>1, <3>2, RowsApart
    <2> QED BY <2>1, <2>2, <2>3 DEF Kinds
  <1> QED BY <1>2, <1>3, OverIs DEF Distinct, Apart, Dirs

-----------------------------------------------------------------------------
(* Pins behind the last one, more or fewer: no wire moves.                   *)

Extends(p, q) ==
    /\ Len(p) \in Nat /\ Len(q) \in Nat /\ Len(p) <= Len(q)
    /\ \A n \in 1..Len(p) : q[n] = p[n]

LEMMA PortIn ==
    ASSUME NEW w \in Wire, NEW P, Valid(P, w), Len(P[w.dir]) \in Nat
    PROVE  w.port + 1 \in 1..Len(P[w.dir]) /\ At(P, w) = P[w.dir][w.port + 1] /\ w.dir \in Dirs /\ w.port \in Nat
  <1>1. w.port \in Nat /\ w.dir \in Dirs
    BY WireFacts
  <1>2. w.port < Len(P[w.dir])
    BY DEF Valid
  <1> QED BY <1>1, <1>2 DEF At

LEMMA MoreCarried ==
    ASSUME NEW W \in SUBSET Wire, NEW P, NEW Q, \A d \in Dirs : Extends(P[d], Q[d]), \A w \in W : Valid(P, w)
    PROVE  Carried(W, W, P, Q) /\ \A w \in W : Valid(Q, w)
  <1>1. ASSUME NEW w \in W PROVE Follows(w, w, P, Q) /\ Valid(Q, w)
    <2>1. w \in Wire /\ w.dir \in Dirs /\ Valid(P, w)
      BY WireFacts
    <2>2. Extends(P[w.dir], Q[w.dir])
      BY <2>1
    <2>3. w.port + 1 \in 1..Len(P[w.dir]) /\ w.port \in Nat
      BY <2>1, <2>2, PortIn DEF Extends
    <2>4. Q[w.dir][w.port + 1] = P[w.dir][w.port + 1] /\ w.port < Len(Q[w.dir])
      BY <2>2, <2>3 DEF Extends
    <2> QED BY <2>1, <2>4 DEF Follows, Valid, At
  <1> QED BY <1>1 DEF Carried

LEMMA FewerCarried ==
    ASSUME NEW W \in SUBSET Wire, NEW P, NEW Q, \A d \in Dirs : Extends(Q[d], P[d]), Distinct(P)
    PROVE  Carried(W, {w \in W : Valid(Q, w)}, P, Q)
  <1>1. ASSUME NEW w \in W, Valid(Q, w) PROVE Follows(w, w, P, Q)
    <2>1. w \in Wire /\ w.dir \in Dirs
      BY WireFacts
    <2>2. Extends(Q[w.dir], P[w.dir])
      BY <2>1
    <2>3. w.port + 1 \in 1..Len(Q[w.dir]) /\ w.port \in Nat
      BY <1>1, <2>1, <2>2, PortIn DEF Extends
    <2>4. Q[w.dir][w.port + 1] = P[w.dir][w.port + 1] /\ w.port < Len(P[w.dir])
      BY <2>2, <2>3 DEF Extends
    <2> QED BY <2>1, <2>4 DEF Follows, Valid, At
  <1>2. ASSUME NEW w \in W, Valid(P, w), HasPin(Q, w.dir, At(P, w)) PROVE Valid(Q, w)
    <2>1. w \in Wire /\ w.dir \in Dirs
      BY WireFacts
    <2>2. Extends(Q[w.dir], P[w.dir])
      BY <2>1
    <2>3. w.port + 1 \in 1..Len(P[w.dir]) /\ w.port \in Nat /\ At(P, w) = P[w.dir][w.port + 1]
      BY <1>2, <2>1, <2>2, PortIn DEF Extends
    <2>4. PICK m \in 1..Len(Q[w.dir]) : Q[w.dir][m] = P[w.dir][w.port + 1]
      BY <1>2, <2>3 DEF HasPin
    <2>5. P[w.dir][m] = P[w.dir][w.port + 1] /\ m \in 1..Len(P[w.dir])
      BY <2>2, <2>4 DEF Extends
    <2>6. m = w.port + 1
      BY <2>1, <2>3, <2>5 DEF Distinct
    <2>7. Len(Q[w.dir]) \in Nat
      BY <2>2 DEF Extends
    <2> QED BY <2>3, <2>4, <2>6, <2>7 DEF Valid
  <1> QED BY <1>1, <1>2 DEF Carried

LEMMA RowsExtend ==
    ASSUME NEW es, NEW fs, Extends(es, fs), NEW role, NEW H, IsHead(H), NEW p, NEW q,
           IsRow(p, H, role, es, <<>>), IsRow(q, H, role, fs, <<>>)
    PROVE  Extends(p, q)
  <1> DEFINE h == Len(H)
  <1>1. h \in Nat /\ Len(es) \in Nat /\ Len(fs) \in Nat /\ Len(es) <= Len(fs) /\ \A n \in 1..Len(es) : fs[n] = es[n]
    BY DEF IsHead, Extends
  <1>2. Row(p, h, role, es, Len(<<>>)) /\ Row(q, h, role, fs, Len(<<>>)) /\ \A n \in 1..h : p[n] = q[n]
    BY DEF IsRow
  <1> HIDE DEF h
  <1>3. Len(p) = h + Len(es) /\ Len(q) = h + Len(fs)
    <2>1. Len(<<>>) = 0
      BY Heads
    <2>2. Len(p) = h + Len(es) + 0 /\ Len(q) = h + Len(fs) + 0
      BY <1>2, <2>1 DEF Row
    <2> QED BY <1>1, <2>2
  <1>4. \A n \in 1..Len(es) : q[h + n] = p[h + n]
    <2>1. (\A n \in 1..Len(es) : p[h + n] = <<role, es[n]>>) /\ (\A n \in 1..Len(fs) : q[h + n] = <<role, fs[n]>>)
      BY <1>2 DEF Row
    <2>2. \A n \in 1..Len(es) : n \in 1..Len(fs)
      BY <1>1
    <2> QED BY <1>1, <2>1, <2>2
  <1>5. ASSUME NEW n \in 1..Len(p) PROVE q[n] = p[n]
    <2>1. CASE n <= h
      BY <1>1, <1>2, <1>3, <2>1
    <2>2. CASE n > h
      <3>1. n - h \in 1..Len(es) /\ n = h + (n - h)
        BY <1>1, <1>3, <2>2
      <3> QED BY <1>4, <3>1
    <2> QED BY <1>1, <1>3, <2>1, <2>2
  <1>6. Len(p) \in Nat /\ Len(q) \in Nat /\ Len(p) <= Len(q)
    BY <1>1, <1>3
  <1> QED BY <1>5, <1>6 DEF Extends

LEMMA DictionaryExtends ==
    ASSUME NEW es \in Seq(Nat), NEW fs \in Seq(Nat), Extends(es, fs), layout = "dictionary"
    PROVE  Extends(Ins(es), Ins(fs))
  <1> DEFINE role(n) == IF n % 2 = 1 THEN "key" ELSE "element"
  <1>1. Len(es) \in Nat /\ Len(fs) \in Nat /\ Len(es) <= Len(fs) /\ \A n \in 1..Len(es) : fs[n] = es[n]
    BY DEF Extends
  <1>2. Len(Ins(es)) = 2 * Len(es) /\ \A n \in 1..2 * Len(es) : Half(n) \in 1..Len(es) /\ Ins(es)[n] = <<role(n), es[Half(n)]>>
    BY DictionaryLaw
  <1>3. Len(Ins(fs)) = 2 * Len(fs) /\ \A n \in 1..2 * Len(fs) : Ins(fs)[n] = <<role(n), fs[Half(n)]>>
    BY DictionaryLaw
  <1> HIDE DEF role
  <1>4. 2 * Len(es) \in Nat /\ 2 * Len(fs) \in Nat /\ 2 * Len(es) <= 2 * Len(fs)
    BY <1>1
  <1>5. ASSUME NEW n \in 1..2 * Len(es) PROVE Ins(fs)[n] = Ins(es)[n]
    <2>1. n \in 1..2 * Len(fs)
      BY <1>4
    <2>2. fs[Half(n)] = es[Half(n)]
      BY <1>1, <1>2
    <2> QED BY <1>2, <1>3, <2>1, <2>2
  <1> QED BY <1>2, <1>3, <1>4, <1>5 DEF Extends

LEMMA SameExtends == ASSUME NEW p, Len(p) \in Nat PROVE Extends(p, p)
  BY DEF Extends

LEMMA PinsExtend ==
    ASSUME NEW es \in Seq(Nat), NEW fs \in Seq(Nat), Extends(es, fs), layout \in Kinds, layout # "call"
    PROVE  /\ Extends(Ins(es), Ins(fs))
           /\ (~(layout = "select" /\ default) /\ ~(layout = "dialogue" /\ es = <<>>)) => Extends(Outs(es), Outs(fs))
  <1>0. {"exec", "value", "base", "key", "done", "default", "out", "element"} \subseteq Roles
    BY DEF Roles
  <1>1. /\ IsHead(<<>>) /\ IsHead(Fixed("exec")) /\ IsHead(Fixed("exec") \o Fixed("value"))
        /\ IsHead(Fixed("exec") \o Fixed("base")) /\ IsHead(Fixed("done") \o Fixed("default"))
        /\ IsHead(Fixed("exec") \o Fixed("base") \o Fixed("value") \o Fixed("key"))
    BY <1>0, Heads
  <1>2. Extends(Ins(es), Ins(fs))
    <2>1. CASE layout \in {"sequence", "random", "select", "entry"}
      <3>1. Ins(es) = Ins(fs)
        <4>1. ASSUME NEW gs \in Seq(Nat)
              PROVE  Ins(gs) = CASE layout \in {"sequence", "random"} -> Fixed("exec")
                                 [] layout = "select" -> Fixed("exec") \o Fixed("value")
                                 [] layout = "entry" -> <<>>
          BY <2>1, InsLaw
        <4> QED BY <4>1
      <3>2. Len(Ins(es)) \in Nat
        BY PinsSized
      <3> QED BY <3>1, <3>2, SameExtends
    <2>2. CASE layout \in {"array", "vararg", "switch", "dialogue"}
      <3>1. PICK H : IsRow(Ins(es), H, "element", es, <<>>) /\ IsRow(Ins(fs), H, "element", fs, <<>>) /\ IsHead(H)
        BY <1>1, <2>2, InsLaw
      <3> QED BY <3>1, RowsExtend
    <2>3. CASE layout = "dictionary"
      BY <2>3, DictionaryExtends
    <2> QED BY <2>1, <2>2, <2>3 DEF Kinds
  <1>3. ASSUME ~(layout = "select" /\ default), ~(layout = "dialogue" /\ es = <<>>)
        PROVE  Extends(Outs(es), Outs(fs))
    <2>1. CASE layout \in {"array", "dictionary", "vararg"}
      <3>1. Outs(es) = Outs(fs)
        <4>1. ASSUME NEW gs \in Seq(Nat) PROVE Outs(gs) = Fixed(IF layout = "vararg" THEN "exec" ELSE "value")
          BY <2>1, OutsLaw
        <4> QED BY <4>1
      <3>2. Len(Outs(es)) \in Nat
        BY PinsSized
      <3> QED BY <3>1, <3>2, SameExtends
    <2>2. CASE layout \in {"sequence", "random", "select", "dialogue"}
      <3>1. layout = "dialogue" => fs # <<>>
        <4>1. ASSUME es # <<>> PROVE fs # <<>>
          <5>1. Len(es) # 0
            BY <4>1
          <5>2. Len(fs) # 0
            BY <5>1 DEF Extends
          <5> QED BY <5>2, Heads
        <4> QED BY <1>3, <4>1
      <3>2. IsRow(Outs(es), <<>>, "out", es, <<>>) /\ IsRow(Outs(fs), <<>>, "out", fs, <<>>)
        BY <1>3, <2>2, <3>1, OutsLaw
      <3> QED BY <1>1, <3>2, RowsExtend
    <2>3. CASE layout = "switch"
      <3> DEFINE H == Fixed("done") \o Fixed("default")
      <3>1. IsRow(Outs(es), H, "out", es, <<>>) /\ IsRow(Outs(fs), H, "out", fs, <<>>) /\ IsHead(H)
        BY <1>1, <2>3, OutsLaw
      <3> QED BY <3>1, RowsExtend
    <2>4. CASE layout = "entry"
      <3>1. IsRow(Outs(es), Fixed("exec"), "element", es, <<>>) /\ IsRow(Outs(fs), Fixed("exec"), "element", fs, <<>>)
        BY <2>4, OutsLaw
      <3> QED BY <1>1, <3>1, RowsExtend
    <2> QED BY <2>1, <2>2, <2>3, <2>4 DEF Kinds
  <1> QED BY <1>2, <1>3

\* The outputs of a select with a default pin.
LEMMA SelectOuts ==
    ASSUME NEW es, Named(es), layout = "select" /\ default
    PROVE  /\ Len(Outs(es)) = Len(es) + 1 /\ Outs(es)[Len(es) + 1] = Fixed("default")[1]
           /\ \A k \in 1..Len(es) : Outs(es)[k] = <<"out", es[k]>>
  <1> DEFINE n == Len(es)
             p == Outs(es)
  <1>0. es \in Seq(Nat) /\ n \in Nat /\ "default" \in Roles
    BY DEF Named, Roles
  <1>1. Len(Fixed("default")) = 1 /\ Len(<<>>) = 0
    BY <1>0, Heads
  <1>2. IsRow(p, <<>>, "out", es, Fixed("default"))
    BY <1>0, OutsLaw
  <1>3. /\ Len(p) = 0 + n + 1 /\ \A k \in 1..n : p[0 + k] = <<"out", es[k]>>
        /\ \A k \in 1..1 : p[0 + n + k] = Fixed("default")[k]
    BY <1>1, <1>2 DEF IsRow, Row
  <1> HIDE DEF n, p
  <1>4. 0 + n + 1 = n + 1 /\ \A k \in 1..n : 0 + k = k
    BY <1>0
  <1>5. p[0 + n + 1] = Fixed("default")[1]
    BY <1>3
  <1>6. Len(p) = n + 1 /\ p[n + 1] = Fixed("default")[1] /\ \A k \in 1..n : p[k] = <<"out", es[k]>>
    BY <1>3, <1>4, <1>5
  <1> QED BY <1>6 DEF n, p

\* The default pin of a select makes room for the new element's.
LEMMA SelectAdds ==
    ASSUME Named(elems), wires \in SUBSET Wire, layout = "select", default,
           NEW es, Named(es), Extends(elems, es), Len(es) = Len(elems) + 1, Len(elems) < 128,
           \A w \in wires : Valid(Over(elems), w)
    PROVE  LET V == Adjusted(wires, Len(elems), 1, {"out"})
           IN  /\ V \in SUBSET Wire /\ Carried(wires, V, Over(elems), Over(es))
               /\ \A v \in V : Valid(Over(es), v)
  <1> DEFINE n == Len(elems)
             V == Adjusted(wires, n, 1, {"out"})
             P == Over(elems)
             Q == Over(es)
             p == Outs(elems)
             q == Outs(es)
  <1>0. elems \in Seq(Nat) /\ es \in Seq(Nat) /\ n \in Nat /\ "default" \in Roles /\ layout \in Kinds
    BY DEF Named, Roles, Kinds
  <1>1. /\ P["in"] = Ins(elems) /\ P["out"] = p /\ Q["in"] = Ins(es) /\ Q["out"] = q
        /\ Extends(Ins(elems), Ins(es))
    BY <1>0, OverIs, PinsExtend
  <1>2. Len(p) = n + 1 /\ p[n + 1] = Fixed("default")[1] /\ \A k \in 1..n : p[k] = <<"out", elems[k]>>
    BY SelectOuts
  <1>3. Len(q) = n + 2 /\ q[n + 2] = Fixed("default")[1] /\ \A k \in 1..n : q[k] = <<"out", elems[k]>>
    <2> DEFINE m == Len(es)
    <2>1. Len(q) = m + 1 /\ q[m + 1] = Fixed("default")[1] /\ \A k \in 1..m : q[k] = <<"out", es[k]>>
      BY SelectOuts
    <2>2. m = n + 1 /\ \A k \in 1..n : es[k] = elems[k]
      BY DEF Extends
    <2> HIDE DEF n, q, m
    <2>3. m + 1 = n + 2 /\ \A k \in 1..n : k \in 1..m
      BY <1>0, <2>2
    <2> QED BY <2>1, <2>2, <2>3
  <1>4. n <= 127
    BY <1>0
  <1>5. V = {Adj(w, n, 1, {"out"}) : w \in wires}
    BY AdjustedIs
  <1> HIDE DEF n, V, P, Q, p, q
  <1>6. ASSUME NEW w \in wires
        PROVE  LET v == Adj(w, n, 1, {"out"}) IN v \in Wire /\ Follows(v, w, P, Q) /\ Valid(Q, v)
    <2>1. w \in Wire /\ w.port \in Nat /\ w.port <= 255 /\ w.dir \in Dirs /\ Valid(P, w)
      BY WireFacts DEF P
    <2>2. CASE w.dir = "in"
      <3>1. Adj(w, n, 1, {"out"}) = w
        BY <2>2 DEF Adj
      <3>2. Len(Ins(elems)) \in Nat /\ w.port < Len(Ins(elems))
        BY <1>1, <2>1, <2>2 DEF Extends, Valid
      <3>3. w.port + 1 \in 1..Len(Ins(elems))
        BY <2>1, <3>2
      <3>4. w.port < Len(Ins(es)) /\ Ins(es)[w.port + 1] = Ins(elems)[w.port + 1]
        BY <1>1, <2>1, <3>2, <3>3 DEF Extends
      <3> QED BY <1>1, <2>1, <2>2, <3>1, <3>4 DEF Follows, Valid, At
    <2>3. CASE w.dir = "out" /\ w.port < n
      <3>1. Adj(w, n, 1, {"out"}) = w
        BY <1>0, <2>1, <2>3 DEF Adj
      <3>2. w.port + 1 \in 1..n
        BY <1>0, <2>1, <2>3
      <3>3. w.port < Len(q) /\ q[w.port + 1] = p[w.port + 1]
        <4>1. w.port < n + 2
          BY <1>0, <2>1, <2>3
        <4>2. \A k \in 1..n : q[k] = p[k]
          BY <1>2, <1>3
        <4> QED BY <1>3, <3>2, <4>1, <4>2
      <3> QED BY <1>1, <2>1, <2>3, <3>1, <3>3 DEF Follows, Valid, At
    <2>4. CASE w.dir = "out" /\ ~(w.port < n)
      <3>1. w.port = n
        <4>1. w.port < n + 1
          BY <1>1, <1>2, <2>1, <2>4 DEF Valid
        <4> QED BY <1>0, <2>1, <2>4, <4>1
      <3> DEFINE x == n + 1
                 v == [w EXCEPT !.port = x]
      <3>2. x \in 0..255 /\ (n + 1 + 256) % 256 = x
        BY <1>0, <1>4, PortDown
      <3>3. Adj(w, n, 1, {"out"}) = [w EXCEPT !.port = (w.port + 1 + 256) % 256]
        BY <1>0, <2>4, <3>1 DEF Adj
      <3>4. Adj(w, n, 1, {"out"}) = v
        BY <3>1, <3>2, <3>3
      <3> HIDE DEF x
      <3>5. v \in Wire
        BY <2>1, <3>2, WireAt
      <3>6. v.dir = "out" /\ v.peer = w.peer /\ v.port = x
        BY <2>1, <2>4 DEF Wire
      <3> HIDE DEF v
      <3>7. x < n + 2 /\ x + 1 = n + 2
        BY <1>0 DEF x
      <3>8. v.port < Len(q) /\ q[v.port + 1] = p[w.port + 1]
        BY <1>2, <1>3, <3>1, <3>6, <3>7
      <3> QED BY <1>1, <2>1, <2>4, <3>4, <3>5, <3>6, <3>8 DEF Follows, Valid, At
    <2> QED BY <2>1, <2>2, <2>3, <2>4 DEF Dirs
  <1>7. V \in SUBSET Wire /\ Carried(wires, V, P, Q) /\ \A v \in V : Valid(Q, v)
    BY <1>5, <1>6 DEF Carried
  <1> QED BY <1>7 DEF V, n, P, Q

\* Elements with one more, and without the last ones.
LEMMA Grown ==
    ASSUME NEW es, Named(es), NEW x \in Nat, x > 0, \A n \in 1..Len(es) : es[n] < x
    PROVE  LET fs == Append(es, x)
           IN  /\ Named(fs) /\ Extends(es, fs) /\ Len(fs) = Len(es) + 1
               /\ \A n \in 1..Len(fs) : fs[n] <= x /\ (fs[n] = x \/ \E k \in 1..Len(es) : fs[n] = es[k])
  <1> DEFINE fs == Append(es, x)
  <1>1. /\ es \in Seq(Nat) /\ Len(es) \in Nat /\ \A n \in 1..Len(es) : es[n] \in Nat /\ es[n] > 0
        /\ \A m, n \in 1..Len(es) : es[m] = es[n] => m = n
    BY DEF Named
  <1>2. /\ fs \in Seq(Nat) /\ Len(fs) = Len(es) + 1 /\ fs[Len(es) + 1] = x
        /\ \A n \in 1..Len(es) : fs[n] = es[n]
    BY <1>1
  <1>3. \A n \in 1..Len(fs) : n \in 1..Len(es) \/ n = Len(es) + 1
    BY <1>1, <1>2
  <1> HIDE DEF fs
  <1>4. ASSUME NEW n \in 1..Len(fs)
        PROVE  fs[n] > 0 /\ fs[n] <= x /\ (fs[n] = x \/ \E k \in 1..Len(es) : fs[n] = es[k])
    <2>1. CASE n \in 1..Len(es)
      <3>1. fs[n] = es[n] /\ es[n] \in Nat /\ es[n] > 0 /\ es[n] < x
        BY <1>1, <1>2, <2>1
      <3> QED BY <2>1, <3>1
    <2>2. CASE n = Len(es) + 1
      BY <1>2, <2>2
    <2> QED BY <1>3, <2>1, <2>2
  <1>5. ASSUME NEW m \in 1..Len(fs), NEW n \in 1..Len(fs), fs[m] = fs[n] PROVE m = n
    <2>1. CASE m \in 1..Len(es) /\ n \in 1..Len(es)
      BY <1>1, <1>2, <1>5, <2>1
    <2>2. CASE m \in 1..Len(es) /\ n = Len(es) + 1
      <3>1. es[m] = x /\ es[m] < x /\ es[m] \in Nat
        BY <1>1, <1>2, <1>5, <2>2
      <3> QED BY <3>1
    <2>3. CASE m = Len(es) + 1 /\ n \in 1..Len(es)
      <3>1. es[n] = x /\ es[n] < x /\ es[n] \in Nat
        BY <1>1, <1>2, <1>5, <2>3
      <3> QED BY <3>1
    <2> QED BY <1>3, <2>1, <2>2, <2>3
  <1>6. Named(fs)
    BY <1>2, <1>4, <1>5 DEF Named
  <1>7. Extends(es, fs)
    BY <1>1, <1>2 DEF Extends
  <1> QED BY <1>2, <1>4, <1>6, <1>7 DEF fs

LEMMA Shrunk ==
    ASSUME NEW es, Named(es), NEW n \in Nat, n < Len(es)
    PROVE  LET fs == SubSeq(es, 1, n)
           IN  Named(fs) /\ Extends(fs, es) /\ Len(fs) = n /\ \A k \in 1..n : fs[k] = es[k] /\ k \in 1..Len(es)
  <1> DEFINE fs == SubSeq(es, 1, n)
  <1>1. /\ es \in Seq(Nat) /\ Len(es) \in Nat /\ \A k \in 1..Len(es) : es[k] > 0
        /\ \A j, k \in 1..Len(es) : es[j] = es[k] => j = k
    BY DEF Named
  <1>2. fs \in Seq(Nat) /\ Len(fs) = n /\ \A k \in 1..n : fs[k] = es[k] /\ k \in 1..Len(es)
    BY <1>1
  <1> HIDE DEF fs
  <1>3. Named(fs)
    BY <1>1, <1>2 DEF Named
  <1>4. Extends(fs, es)
    BY <1>1, <1>2 DEF Extends
  <1> QED BY <1>2, <1>3, <1>4 DEF fs

-----------------------------------------------------------------------------
(* The invariant: elements are told apart and wires are sound.               *)

\* At a call no wire ends behind its last argument's pin.
Within(W, es) == \A w \in W : w.dir = "in" => w.port <= Len(es)

Inv ==
    /\ TypeOK
    /\ Named(elems)
    /\ \A n \in 1..Len(elems) : elems[n] <= made
    /\ layout # "call" => Sound(wires, AllPins)
    /\ layout = "call" => Within(wires, elems)

LEMMA InvFacts ==
    ASSUME Inv
    PROVE  /\ layout \in Kinds /\ elems \in Seq(Nat) /\ Len(elems) \in Nat /\ Len(elems) <= 128
           /\ wires \in SUBSET Wire
           /\ \A d \in Dirs : Len(AllPins[d]) \in Nat /\ Len(AllPins[d]) <= 256
  <1>1. layout \in Kinds /\ elems \in Seq(Nat) /\ wires \in SUBSET Wire
    BY LayoutsAssumption DEF Inv, TypeOK, Named
  <1>2. Len(elems) \in Nat /\ Len(elems) <= 128
    <2>1. Len(elems) <= MaxElements /\ MaxElements \in 2..128 /\ Len(elems) \in Nat
      BY <1>1, LimitAssumption DEF Inv, TypeOK
    <2> QED BY <2>1
  <1>3. \A d \in Dirs : Len(AllPins[d]) \in Nat /\ Len(AllPins[d]) <= 256
    BY <1>1, <1>2, PinsSized, OverIs DEF Dirs
  <1> QED BY <1>1, <1>2, <1>3

\* The pins of a node whose settings stay.
LEMMA PinsKept ==
    ASSUME UNCHANGED <<layout, default, returns, getter>>
    PROVE  AllPins' = Over(elems') /\ (elems' = elems => AllPins' = AllPins)
  <1>1. layout' = layout /\ default' = default /\ returns' = returns /\ getter' = getter
    OBVIOUS
  <1>2. IsPure(elems)' = IsPure(elems')
    BY <1>1 DEF IsPure
  <1>3. Ins(elems)' = Ins(elems')
    BY <1>1, <1>2 DEF Ins
  <1>4. Outs(elems)' = Outs(elems')
    BY <1>1, <1>2 DEF Outs
  <1>5. AllPins' = Over(elems')
    BY <1>3, <1>4 DEF AllPins, Pins, Over
  <1> QED BY <1>5, OverIs

LEMMA DrawnIs == wires \in SUBSET Wire => Drawn = DrawnAt(wires, AllPins)
  <1> SUFFICES ASSUME wires \in SUBSET Wire PROVE Drawn = DrawnAt(wires, AllPins)
    OBVIOUS
  <1>1. ASSUME NEW w \in wires
        PROVE  (HasPort(w.dir, w.port) <=> Valid(AllPins, w)) /\ PinAt(w.dir, w.port) = At(AllPins, w)
    <2>1. w.dir \in Dirs
      BY WireFacts
    <2>2. AllPins[w.dir] = Pins(w.dir)
      BY <2>1 DEF AllPins
    <2> QED BY <2>2 DEF HasPort, Valid, PinAt, At
  <1> QED BY <1>1 DEF Drawn, DrawnAt

\* Rows of pins are sequences.
LEMMA PinsTyped ==
    ASSUME NEW es \in Seq(Nat), layout \in Kinds PROVE Ins(es) \in Seq(Pin) /\ Outs(es) \in Seq(Pin)
  <1>0. {"exec", "value", "base", "key", "done", "default", "return", "out", "element"} \subseteq Roles
    BY DEF Roles
  <1>1. /\ <<>> \in Seq(Pin) /\ Fixed("exec") \in Seq(Pin) /\ Fixed("value") \in Seq(Pin)
        /\ Fixed("return") \in Seq(Pin) /\ Fixed("exec") \o Fixed("value") \in Seq(Pin)
    BY <1>0, FixedPin, TwoFixed
  <1>2. \A p, H, role, T : IsRow(p, H, role, es, T) => p \in Seq(Pin)
    BY DEF IsRow
  <1>3. Ins(es) \in Seq(Pin)
    <2>1. CASE layout \in {"sequence", "random", "select", "entry"} \/ (layout = "call" /\ IsPure(es))
      BY <1>1, <2>1, InsLaw
    <2>2. CASE layout \in {"array", "vararg", "switch", "dialogue"} \/ (layout = "call" /\ ~IsPure(es))
      BY <1>2, <2>2, InsLaw
    <2>3. CASE layout = "dictionary"
      BY <2>3, DictionaryLaw
    <2> QED BY <2>1, <2>2, <2>3 DEF Kinds
  <1>4. Outs(es) \in Seq(Pin)
    <2>1. CASE layout \in {"array", "dictionary", "vararg"} \/ (layout = "dialogue" /\ es = <<>>)
      BY <1>1, <2>1, OutsLaw
    <2>2. CASE layout \in {"sequence", "random", "switch", "select", "entry"} \/ (layout = "dialogue" /\ es # <<>>)
      BY <1>2, <2>2, OutsLaw
    <2>3. CASE layout = "call"
      <3> DEFINE E == IF IsPure(es) THEN <<>> ELSE Fixed("exec")
                 R == IF returns THEN Fixed("return") ELSE <<>>
      <3>1. E \in Seq(Pin) /\ R \in Seq(Pin) /\ Outs(es) = E \o R
        BY <1>1, <2>3, OutsLaw
      <3> HIDE DEF E, R
      <3>2. E \o R \in Seq(Pin)
        BY <3>1, Concat
      <3> QED BY <3>1, <3>2
    <2> QED BY <2>1, <2>2, <2>3 DEF Kinds
  <1> QED BY <1>3, <1>4

LEMMA PinsNowIs ==
    (elems \in Seq(Nat) /\ layout \in Kinds) =>
        \A d \in Dirs : \A pin : <<d, pin>> \in PinsNow <=> HasPin(AllPins, d, pin)
  <1> SUFFICES ASSUME elems \in Seq(Nat), layout \in Kinds, NEW d \in Dirs, NEW pin
               PROVE  <<d, pin>> \in PinsNow <=> HasPin(AllPins, d, pin)
    OBVIOUS
  <1>1. DOMAIN Ins(elems) = 1..Len(Ins(elems)) /\ DOMAIN Outs(elems) = 1..Len(Outs(elems))
    <2>1. \A s \in Seq(Pin) : DOMAIN s = 1..Len(s)
      OBVIOUS
    <2> QED BY <2>1, PinsTyped
  <1>2. CASE d = "in"
    BY <1>1, <1>2, OverIs DEF PinsNow, HasPin
  <1>3. CASE d = "out"
    BY <1>1, <1>3, OverIs DEF PinsNow, HasPin
  <1> QED BY <1>2, <1>3 DEF Dirs

\* What is carried, in the terms of the property.
LEMMA DrawnStillIs ==
    ASSUME Inv, wires' \in SUBSET Wire, elems' \in Seq(Nat), layout' \in Kinds,
           Carried(wires, wires', AllPins, AllPins'), \A d \in Dirs : Len(AllPins'[d]) \in Nat
    PROVE  Drawn' = {d \in Drawn : <<d[1], d[2]>> \in PinsNow'}
  <1>1. wires \in SUBSET Wire
    BY InvFacts
  <1>2. Drawn = DrawnAt(wires, AllPins)
    BY <1>1, DrawnIs
  <1>3. Drawn' = DrawnAt(wires', AllPins')
    <2>1. (wires \in SUBSET Wire => Drawn = DrawnAt(wires, AllPins))'
      BY DrawnIs, PTL
    <2> QED BY <2>1
  <1>4. \A d \in Dirs : \A pin : <<d, pin>> \in PinsNow' <=> HasPin(AllPins', d, pin)
    <2>1. ((elems \in Seq(Nat) /\ layout \in Kinds) =>
               \A d \in Dirs : \A pin : <<d, pin>> \in PinsNow <=> HasPin(AllPins, d, pin))'
      BY PinsNowIs, PTL
    <2> QED BY <2>1
  <1>5. DrawnAt(wires', AllPins') = DrawnStill(wires, AllPins, AllPins')
    BY <1>1, CarriedDrawn
  <1>6. ASSUME NEW d \in DrawnAt(wires, AllPins) PROVE HasPin(AllPins', d[1], d[2]) <=> <<d[1], d[2]>> \in PinsNow'
    <2>1. PICK w \in wires : d = <<w.dir, At(AllPins, w), w.peer>>
      BY <1>6 DEF DrawnAt
    <2>2. d[1] = w.dir /\ w.dir \in Dirs
      BY <1>1, <2>1, WireFacts
    <2> QED BY <1>4, <2>2
  <1> QED BY <1>2, <1>3, <1>5, <1>6 DEF DrawnStill

-----------------------------------------------------------------------------
(* Each step keeps the invariant.                                            *)

\* The inputs of a call.
LEMMA CallIns ==
    ASSUME layout = "call", NEW es \in Seq(Nat)
    PROVE  /\ Len(Ins(es)) \in Nat /\ Len(Ins(es)) <= Len(es) + 1
           /\ ~IsPure(es) => Len(Ins(es)) = Len(es) + 1
           /\ IsPure(es) => Ins(es) = <<>> /\ es = <<>>
  <1>0. "exec" \in Roles /\ Len(es) \in Nat
    BY DEF Roles
  <1>1. Len(<<>>) = 0 /\ Len(Fixed("exec")) = 1
    BY <1>0, Heads
  <1>2. CASE IsPure(es)
    <2>1. Ins(es) = <<>> /\ es = <<>>
      BY <1>2, InsLaw DEF IsPure
    <2> QED BY <1>1, <1>2, <2>1
  <1>3. CASE ~IsPure(es)
    <2>1. IsRow(Ins(es), Fixed("exec"), "element", es, <<>>)
      BY <1>3, InsLaw
    <2>2. Len(Ins(es)) = 1 + Len(es) + 0
      BY <1>1, <2>1 DEF IsRow, Row
    <2> QED BY <1>0, <1>3, <2>2
  <1> QED BY <1>2, <1>3

LEMMA InitInv == Init => Inv
  <1> SUFFICES ASSUME Init PROVE Inv
    OBVIOUS
  <1>1. elems = <<1, 2>> \/ elems = <<1>> \/ elems = <<>>
    BY DEF Init
  <1>2. /\ elems \in Seq(Nat) /\ Len(elems) \in 0..2
        /\ \A n \in 1..Len(elems) : elems[n] = n
    <2>1. CASE elems = <<1, 2>>
      BY <2>1
    <2>2. CASE elems = <<1>>
      BY <2>2
    <2>3. CASE elems = <<>>
      BY <2>3
    <2> QED BY <1>1, <2>1, <2>2, <2>3
  <1>3. MaxElements \in 2..128 /\ Limit \in Nat /\ Limit >= 2
    BY LimitAssumption
  <1>4. Named(elems) /\ \A n \in 1..Len(elems) : elems[n] <= made
    <2>1. made = Len(elems)
      BY DEF Init
    <2> QED BY <1>2, <2>1 DEF Named
  <1>5. TypeOK
    <2>1. Len(elems) <= MaxElements /\ made \in 0..Limit
      <3> DEFINE n == Len(elems)
      <3>1. n \in 0..2 /\ made = n
        BY <1>2 DEF Init
      <3> HIDE DEF n
      <3>2. n <= MaxElements /\ made \in 0..Limit
        BY <1>3, <3>1
      <3> QED BY <3>2 DEF n
    <2>2. \A n \in 1..Len(elems) : elems[n] \in Element
      BY <1>2, <1>3 DEF Element
    <2>3. layout \in Layouts /\ wires \subseteq Wire /\ default \in BOOLEAN /\ returns \in BOOLEAN /\ getter \in BOOLEAN
      BY DEF Init
    <2> QED BY <2>1, <2>2, <2>3 DEF TypeOK
  <1>6. Sound(wires, AllPins) /\ Within(wires, elems)
    BY DEF Init, Sound, Within
  <1> QED BY <1>4, <1>5, <1>6 DEF Inv

LEMMA DrawInv ==
    ASSUME Inv, NEW dir \in Dirs, NEW port \in Nat, NEW peer \in Peers, Draw(dir, port, peer) PROVE Inv'
  <1> DEFINE new == [dir |-> dir, port |-> port, peer |-> peer]
             old == IF IsSingle(dir, PinAt(dir, port)) THEN Unlinked(wires, dir, port) ELSE wires
  <1>1. /\ wires' = old \cup {new} /\ HasPort(dir, port)
        /\ layout' = layout /\ elems' = elems /\ made' = made /\ default' = default /\ returns' = returns /\ getter' = getter
    BY DEF Draw
  <1>2. wires \in SUBSET Wire /\ Len(AllPins[dir]) \in Nat /\ Len(AllPins[dir]) <= 256
    BY InvFacts
  <1>3. AllPins[dir] = Pins(dir) /\ port < Len(AllPins[dir]) /\ At(AllPins, new) = PinAt(dir, port)
    BY <1>1 DEF HasPort, AllPins, At, PinAt
  <1>4. new \in Wire
    <2>1. port \in 0..255
      BY <1>2, <1>3
    <2> QED BY <2>1 DEF Wire, Dirs
  <1>5. old \subseteq wires
    BY DEF Unlinked
  <1>6. wires' \subseteq Wire
    BY <1>1, <1>2, <1>4, <1>5
  <1>7. AllPins' = AllPins
    BY <1>1, PinsKept
  <1>8. new.dir = dir /\ new.port = port
    OBVIOUS
  <1>9. \A w \in old : IsSingle(dir, PinAt(dir, port)) => ~(w.dir = dir /\ w.port = port)
    BY DEF Unlinked
  <1> HIDE DEF new, old
  <1>10. ASSUME layout # "call" PROVE Sound(wires', AllPins)
    <2>1. Sound(wires, AllPins)
      BY <1>10 DEF Inv
    <2>2. \A w \in wires' : Valid(AllPins, w)
      BY <1>1, <1>3, <1>5, <1>8, <2>1 DEF Sound, Valid
    <2>3. ASSUME NEW v \in wires', NEW w \in wires', v.dir = w.dir, v.port = w.port, IsSingle(v.dir, At(AllPins, v))
          PROVE  v = w
      <3>1. v \in old \/ v = new
        BY <1>1
      <3>2. w \in old \/ w = new
        BY <1>1
      <3>3. CASE v \in old /\ w \in old
        BY <1>5, <2>1, <2>3, <3>3 DEF Sound
      <3>4. CASE v = new /\ w \in old
        BY <1>3, <1>8, <1>9, <2>3, <3>4
      <3>5. CASE v \in old /\ w = new
        <4>1. At(AllPins, v) = At(AllPins, new)
          BY <2>3, <3>5 DEF At
        <4> QED BY <1>3, <1>8, <1>9, <2>3, <3>5, <4>1
      <3> QED BY <3>1, <3>2, <3>3, <3>4, <3>5
    <2> QED BY <2>2, <2>3 DEF Sound
  <1>11. TypeOK'
    BY <1>1, <1>6 DEF Inv, TypeOK
  <1>12. Named(elems)' /\ (\A n \in 1..Len(elems) : elems[n] <= made)'
    BY <1>1 DEF Inv
  <1>13. (layout # "call" => Sound(wires, AllPins))'
    BY <1>1, <1>7, <1>10
  <1>14. layout = "call" => Within(wires', elems)
    <2> SUFFICES ASSUME layout = "call", NEW w \in wires', w.dir = "in" PROVE w.port <= Len(elems)
      BY DEF Within
    <2>1. CASE w \in old
      BY <1>5, <2>1 DEF Inv, Within
    <2>2. CASE w = new
      <3>1. dir = "in" /\ w.port = port /\ AllPins["in"] = Ins(elems)
        BY <1>8, <2>2, OverIs
      <3>2. Len(elems) \in Nat /\ elems \in Seq(Nat) /\ Len(Ins(elems)) <= Len(elems) + 1 /\ Len(Ins(elems)) \in Nat
        BY InvFacts, CallIns
      <3> QED BY <1>3, <3>1, <3>2
    <2> QED BY <1>1, <2>1, <2>2
  <1>15. (layout = "call" => Within(wires, elems))'
    BY <1>1, <1>14
  <1> QED BY <1>11, <1>12, <1>13, <1>15 DEF Inv

\* Fewer wires are no less sound.
LEMMA SoundSubset == ASSUME NEW W, NEW P, Sound(W, P), NEW V \in SUBSET W PROVE Sound(V, P)
  BY DEF Sound

LEMMA EraseInv == ASSUME Inv, NEW w, Erase(w) PROVE Inv'
  <1>1. /\ wires' = wires \ {w}
        /\ layout' = layout /\ elems' = elems /\ made' = made /\ default' = default /\ returns' = returns /\ getter' = getter
    BY DEF Erase
  <1>2. AllPins' = AllPins
    BY <1>1, PinsKept
  <1>3. TypeOK'
    BY <1>1 DEF Inv, TypeOK
  <1>4. Named(elems)' /\ (\A n \in 1..Len(elems) : elems[n] <= made)'
    BY <1>1 DEF Inv
  <1>5. (layout # "call" => Sound(wires, AllPins))'
    <2>1. layout # "call" => Sound(wires', AllPins)
      BY <1>1, SoundSubset DEF Inv
    <2> QED BY <1>1, <1>2, <2>1
  <1>6. (layout = "call" => Within(wires, elems))'
    BY <1>1 DEF Inv, Within
  <1> QED BY <1>3, <1>4, <1>5, <1>6 DEF Inv

\* The invariant after a change of the elements that leaves the node's settings.
LEMMA ElementsInv ==
    ASSUME Inv, UNCHANGED <<layout, default, returns, getter>>, Named(elems'), made' \in 0..Limit,
           Len(elems') <= MaxElements, \A n \in 1..Len(elems') : elems'[n] \in Element /\ elems'[n] <= made',
           wires' \in SUBSET Wire, layout # "call" => Sound(wires', Over(elems')),
           layout = "call" => Within(wires', elems')
    PROVE  Inv'
  <1>1. AllPins' = Over(elems')
    BY PinsKept
  <1>2. TypeOK'
    BY DEF Inv, TypeOK
  <1> QED BY <1>1, <1>2 DEF Inv

\* What is carried and ends at pins is sound again.
LEMMA CarriedOver ==
    ASSUME Inv, layout # "call", NEW es \in Seq(Nat), NEW V \in SUBSET Wire,
           Carried(wires, V, AllPins, Over(es)), \A v \in V : Valid(Over(es), v)
    PROVE  Sound(V, Over(es))
  <1>1. /\ wires \in SUBSET Wire /\ layout \in Kinds /\ \A d \in Dirs : Len(AllPins[d]) \in Nat
        /\ Sound(wires, AllPins) /\ Named(elems)
    BY InvFacts DEF Inv
  <1>2. Distinct(AllPins)
    BY <1>1, PinsApart, OverIs
  <1> QED BY <1>1, <1>2, CarriedSound

\* A node has all the pins it had, and another one: no wire is drawn anew.
LEMMA AllStill ==
    ASSUME Inv, NEW Q, \A d \in Dirs : \A n \in 1..Len(AllPins[d]) : HasPin(Q, d, AllPins[d][n])
    PROVE  DrawnStill(wires, AllPins, Q) = DrawnAt(wires, AllPins)
  <1>1. ASSUME NEW d \in DrawnAt(wires, AllPins) PROVE HasPin(Q, d[1], d[2])
    <2>1. PICK w \in wires : Valid(AllPins, w) /\ d = <<w.dir, At(AllPins, w), w.peer>>
      BY <1>1 DEF DrawnAt
    <2>2. w \in Wire /\ w.dir \in Dirs /\ Len(AllPins[w.dir]) \in Nat
      BY InvFacts, WireFacts
    <2>3. w.port + 1 \in 1..Len(AllPins[w.dir]) /\ At(AllPins, w) = AllPins[w.dir][w.port + 1]
      BY <2>1, <2>2, PortIn
    <2>4. HasPin(Q, w.dir, At(AllPins, w))
      BY <2>2, <2>3
    <2>5. d[1] = w.dir /\ d[2] = At(AllPins, w)
      BY <2>1
    <2> QED BY <2>4, <2>5
  <1> QED BY <1>1 DEF DrawnStill

LEMMA ExtendsHas ==
    ASSUME NEW P, NEW Q, NEW d, Extends(P[d], Q[d]), NEW n \in 1..Len(P[d]) PROVE HasPin(Q, d, P[d][n])
  <1>1. n \in 1..Len(Q[d]) /\ Q[d][n] = P[d][n]
    BY DEF Extends
  <1> QED BY <1>1 DEF HasPin

LEMMA AddInv ==
    ASSUME Inv, AddElement
    PROVE  Inv' /\ (~IsPure(elems) /\ (layout = "dialogue" => elems # <<>>) => Drawn' = Drawn)
  <1> DEFINE x == made + 1
             es == Append(elems, x)
  <1>1. /\ layout' = layout /\ default' = default /\ returns' = returns /\ getter' = getter
        /\ made' = x /\ elems' = es /\ Len(elems) < MaxElements /\ made < Limit
        /\ wires' = IF layout = "select" /\ default THEN Adjusted(wires, Len(elems), 1, {"out"}) ELSE wires
    BY DEF AddElement
  <1>2. /\ Named(elems) /\ made \in 0..Limit /\ elems \in Seq(Nat) /\ Len(elems) \in Nat /\ layout \in Kinds
        /\ wires \in SUBSET Wire
        /\ \A n \in 1..Len(elems) : elems[n] \in Element /\ elems[n] <= made
    BY InvFacts DEF Inv, TypeOK
  <1>3. x \in Nat /\ x > 0 /\ x \in 0..Limit /\ x \in Element /\ made \in Nat /\ Limit \in Nat
    BY <1>1, <1>2, LimitAssumption DEF Element
  <1>4. \A n \in 1..Len(elems) : elems[n] < x /\ elems[n] <= x
    <2> SUFFICES ASSUME NEW n \in 1..Len(elems) PROVE elems[n] < x /\ elems[n] <= x
      OBVIOUS
    <2>1. elems[n] \in Nat /\ elems[n] <= made
      BY <1>2
    <2> QED BY <1>3, <2>1
  <1> HIDE DEF x
  <1>5. /\ Named(es) /\ Extends(elems, es) /\ Len(es) = Len(elems) + 1 /\ es \in Seq(Nat)
        /\ \A n \in 1..Len(es) : es[n] <= x /\ (es[n] = x \/ \E k \in 1..Len(elems) : es[n] = elems[k])
    BY <1>2, <1>3, <1>4, Grown DEF Named
  <1> HIDE DEF es
  <1>6. /\ AllPins' = Over(es) /\ AllPins = Over(elems)
        /\ \A d \in Dirs : Len(AllPins[d]) \in Nat
    BY <1>1, PinsKept, OverIs, InvFacts
  <1>7. /\ layout # "call" => Extends(Ins(elems), Ins(es))
        /\ (layout # "call" /\ ~(layout = "select" /\ default) /\ ~(layout = "dialogue" /\ elems = <<>>))
              => Extends(Outs(elems), Outs(es))
    BY <1>2, <1>5, PinsExtend
  <1>8. /\ AllPins["in"] = Ins(elems) /\ AllPins["out"] = Outs(elems)
        /\ Over(es)["in"] = Ins(es) /\ Over(es)["out"] = Outs(es)
    BY OverIs
  <1>9. layout # "call" => \A w \in wires : Valid(AllPins, w)
    BY DEF Inv, Sound
  <1>10. MaxElements \in 2..128 /\ Len(elems) < 128 /\ Len(es) <= MaxElements
    <2>1. MaxElements \in 2..128
      BY LimitAssumption
    <2> QED BY <1>1, <1>2, <1>5, <2>1
  <1>11. ASSUME layout # "call", ~(layout = "dialogue" /\ elems = <<>>)
         PROVE  /\ wires' \in SUBSET Wire /\ Carried(wires, wires', AllPins, Over(es))
                /\ \A v \in wires' : Valid(Over(es), v)
    <2>1. CASE layout = "select" /\ default
      BY <1>1, <1>2, <1>5, <1>6, <1>9, <1>10, <2>1, SelectAdds
    <2>2. CASE ~(layout = "select" /\ default)
      <3>1. \A d \in Dirs : Extends(AllPins[d], Over(es)[d])
        BY <1>7, <1>8, <1>11, <2>2 DEF Dirs
      <3>2. Carried(wires, wires, AllPins, Over(es)) /\ \A w \in wires : Valid(Over(es), w)
        BY <1>2, <1>9, <1>11, <3>1, MoreCarried
      <3>3. wires' = wires
        BY <1>1, <2>2
      <3> QED BY <1>2, <3>2, <3>3
    <2> QED BY <2>1, <2>2
  <1>12. wires' \in SUBSET Wire
    <2>1. (layout = "call" \/ layout = "dialogue") => wires' = wires
      BY <1>1
    <2> QED BY <1>2, <1>11, <2>1
  <1>13. layout # "call" => Sound(wires', Over(es))
    <2>1. CASE layout # "call" /\ ~(layout = "dialogue" /\ elems = <<>>)
      BY <1>5, <1>11, <2>1, CarriedOver
    <2>2. CASE layout = "dialogue" /\ elems = <<>>
      <3>1. wires' = wires /\ Sound(wires, AllPins)
        BY <1>1, <2>2 DEF Inv
      <3>2. /\ Outs(elems) = Fixed("exec") /\ Len(Outs(elems)) = 1 /\ Outs(elems)[1] = <<"exec", 0>>
        <4>1. "exec" \in Roles
          BY DEF Roles
        <4> QED BY <1>2, <2>2, <4>1, OutsLaw, FixedPin
      <3>3. Len(Outs(es)) = 1 /\ Outs(es)[1] = <<"out", es[1]>>
        <4>1. Len(es) = 1 /\ es # <<>> /\ Len(<<>>) = 0
          <5>1. Len(<<>>) = 0
            BY Heads
          <5>2. Len(es) = 1
            BY <1>5, <2>2, <5>1
          <5> QED BY <5>1, <5>2
        <4>2. IsRow(Outs(es), <<>>, "out", es, <<>>)
          BY <1>5, <2>2, <4>1, OutsLaw
        <4> QED BY <4>1, <4>2 DEF IsRow, Row
      <3>4. ASSUME NEW w \in wires
            PROVE  Valid(Over(es), w) /\ (IsSingle(w.dir, At(Over(es), w)) => IsSingle(w.dir, At(AllPins, w)))
        <4>1. w \in Wire /\ w.dir \in Dirs /\ Valid(AllPins, w) /\ w.port \in Nat
          BY <1>2, <1>9, <2>2, WireFacts
        <4>2. w.port + 1 \in 1..Len(AllPins[w.dir])
          BY <1>6, <4>1, PortIn
        <4>3. CASE w.dir = "in"
          <5>1. Extends(Ins(elems), Ins(es))
            BY <1>7, <2>2
          <5>2. Ins(es)[w.port + 1] = Ins(elems)[w.port + 1] /\ w.port < Len(Ins(es))
            BY <1>8, <4>1, <4>2, <4>3, <5>1 DEF Extends
          <5>3. Valid(Over(es), w) /\ At(Over(es), w) = At(AllPins, w)
            BY <1>8, <4>3, <5>2 DEF Valid, At
          <5> QED BY <5>3
        <4>4. CASE w.dir = "out"
          <5>1. w.port = 0
            <6>1. w.port + 1 \in 1..1
              BY <1>8, <3>2, <4>2, <4>4
            <6> QED BY <4>1, <6>1
          <5>2. At(AllPins, w) = <<"exec", 0>> /\ At(Over(es), w) = <<"out", es[1]>> /\ Valid(Over(es), w)
            <6>1. w.port + 1 = 1 /\ w.port < 1
              BY <5>1
            <6> QED BY <1>8, <3>2, <3>3, <4>4, <6>1 DEF At, Valid
          <5> QED BY <4>4, <5>2 DEF IsSingle, IsExecution
        <4> QED BY <4>1, <4>3, <4>4 DEF Dirs
      <3> QED BY <3>1, <3>4 DEF Sound
    <2> QED BY <2>1, <2>2
  <1>14. Inv'
    <2>1. \A n \in 1..Len(es) : es[n] \in Element /\ es[n] <= x
      BY <1>2, <1>3, <1>5
    <2>2. layout = "call" => Within(wires', es)
      <3> SUFFICES ASSUME layout = "call", NEW w \in wires, w.dir = "in" PROVE w.port <= Len(es)
        BY <1>1 DEF Within
      <3>1. w.port <= Len(elems) /\ w.port \in Nat
        BY <1>2, WireFacts DEF Inv, Within
      <3> QED BY <1>2, <1>5, <3>1
    <2> QED BY <1>1, <1>3, <1>5, <1>10, <1>12, <1>13, <2>1, <2>2, ElementsInv
  <1>15. ASSUME layout = "call", ~IsPure(elems)
         PROVE  /\ Extends(Ins(elems), Ins(es)) /\ Outs(es) = Outs(elems)
                /\ Carried(wires, wires', AllPins, Over(es))
    <2>1. ~IsPure(es)
      <3>1. Len(<<>>) = 0 /\ Len(es) # 0
        BY <1>2, <1>5, Heads
      <3>2. es # <<>>
        BY <3>1
      <3> QED BY <3>2 DEF IsPure
    <2>2. Extends(Ins(elems), Ins(es))
      <3>1. "exec" \in Roles
        BY DEF Roles
      <3>2. /\ IsRow(Ins(elems), Fixed("exec"), "element", elems, <<>>) /\ IsHead(Fixed("exec"))
            /\ IsRow(Ins(es), Fixed("exec"), "element", es, <<>>)
        BY <1>2, <1>5, <1>15, <2>1, <3>1, InsLaw, Heads
      <3> QED BY <1>5, <3>2, RowsExtend
    <2>3. Outs(es) = Outs(elems)
      BY <1>2, <1>5, <1>15, <2>1, OutsLaw
    <2>4. ASSUME NEW w \in wires
          PROVE  Follows(w, w, AllPins, Over(es)) /\ (Valid(AllPins, w) => Valid(Over(es), w))
      <3>1. w \in Wire /\ w.dir \in Dirs /\ w.port \in Nat
        BY <1>2, WireFacts
      <3>2. CASE w.dir = "out"
        BY <1>8, <2>3, <3>2 DEF Follows, Valid, At
      <3>3. CASE w.dir = "in"
        <4>1. w.port <= Len(elems) /\ Len(Ins(elems)) = Len(elems) + 1
          BY <1>2, <1>15, <3>3, CallIns DEF Inv, Within
        <4>2. w.port + 1 \in 1..Len(Ins(elems))
          BY <1>2, <3>1, <4>1
        <4>3. Ins(es)[w.port + 1] = Ins(elems)[w.port + 1] /\ w.port < Len(Ins(es)) /\ w.port < Len(Ins(elems))
          BY <2>2, <3>1, <4>2 DEF Extends
        <4> QED BY <1>8, <3>3, <4>3 DEF Follows, Valid, At
      <3> QED BY <3>1, <3>2, <3>3 DEF Dirs
    <2>5. wires' = wires
      BY <1>1, <1>15
    <2>6. Carried(wires, wires', AllPins, Over(es))
      BY <2>4, <2>5 DEF Carried
    <2> QED BY <2>2, <2>3, <2>6
  <1>16. ASSUME ~IsPure(elems), layout = "dialogue" => elems # <<>> PROVE Drawn' = Drawn
    <2>1. Carried(wires, wires', AllPins, Over(es))
      BY <1>11, <1>15, <1>16
    <2>2. \A d \in Dirs : Len(Over(es)[d]) \in Nat
      BY <1>2, <1>5, <1>8, PinsSized DEF Dirs
    <2>3. DrawnAt(wires', Over(es)) = DrawnStill(wires, AllPins, Over(es))
      BY <1>2, <1>12, <2>1, <2>2, CarriedDrawn
    <2>4. \A d \in Dirs : \A n \in 1..Len(AllPins[d]) : HasPin(Over(es), d, AllPins[d][n])
      <3>1. CASE layout = "select" /\ default
        <4>1. \A n \in 1..Len(Ins(elems)) : HasPin(Over(es), "in", Ins(elems)[n])
          BY <1>7, <1>8, <3>1, ExtendsHas
        <4>2. ASSUME NEW n \in 1..Len(Outs(elems)) PROVE HasPin(Over(es), "out", Outs(elems)[n])
          <5>1. /\ Len(Outs(elems)) = Len(elems) + 1 /\ Outs(elems)[Len(elems) + 1] = Fixed("default")[1]
                /\ \A k \in 1..Len(elems) : Outs(elems)[k] = <<"out", elems[k]>>
            BY <1>2, <3>1, SelectOuts
          <5>2. /\ Len(Outs(es)) = Len(es) + 1 /\ Outs(es)[Len(es) + 1] = Fixed("default")[1]
                /\ \A k \in 1..Len(es) : Outs(es)[k] = <<"out", es[k]>>
            BY <1>5, <3>1, SelectOuts
          <5>3. CASE n \in 1..Len(elems)
            <6>1. n \in 1..Len(es) /\ es[n] = elems[n] /\ n \in 1..Len(Outs(es))
              BY <1>2, <1>5, <5>2, <5>3 DEF Extends
            <6> QED BY <1>8, <5>1, <5>2, <5>3, <6>1 DEF HasPin
          <5>4. CASE n = Len(elems) + 1
            <6>1. Len(es) + 1 \in 1..Len(Outs(es))
              BY <1>2, <1>5, <5>2
            <6> QED BY <1>8, <5>1, <5>2, <5>4, <6>1 DEF HasPin
          <5> QED BY <1>2, <5>1, <5>3, <5>4
        <4> QED BY <1>8, <4>1, <4>2 DEF Dirs
      <3>2. CASE layout # "call" /\ ~(layout = "select" /\ default)
        <4>1. \A d \in Dirs : Extends(AllPins[d], Over(es)[d])
          BY <1>7, <1>8, <1>16, <3>2 DEF Dirs
        <4> QED BY <4>1, ExtendsHas
      <3>3. CASE layout = "call"
        <4>1. Extends(Ins(elems), Ins(es)) /\ Extends(Outs(elems), Outs(es))
          BY <1>6, <1>8, <1>15, <1>16, <3>3, SameExtends DEF Dirs
        <4>2. \A d \in Dirs : Extends(AllPins[d], Over(es)[d])
          BY <1>8, <4>1 DEF Dirs
        <4> QED BY <4>2, ExtendsHas
      <3> QED BY <3>1, <3>2, <3>3
    <2>5. DrawnAt(wires', Over(es)) = DrawnAt(wires, AllPins)
      BY <2>3, <2>4, AllStill
    <2>6. Drawn' = DrawnAt(wires', AllPins')
      <3>1. (wires \in SUBSET Wire => Drawn = DrawnAt(wires, AllPins))'
        BY DrawnIs, PTL
      <3> QED BY <1>12, <3>1
    <2>7. Drawn = DrawnAt(wires, AllPins)
      BY <1>2, DrawnIs
    <2> QED BY <1>6, <2>5, <2>6, <2>7
  <1> QED BY <1>14, <1>16

\* Without element i, at a node of any layout.
LEMMA RemoveInv ==
    ASSUME Inv, NEW i \in Nat, RemoveElement(i)
    PROVE  Inv' /\ Drawn' = {d \in Drawn : <<d[1], d[2]>> \in PinsNow'}
  <1> DEFINE es == Rest(elems, i)
             P == AllPins
             Q == Over(es)
  <1>1. /\ layout' = layout /\ default' = default /\ returns' = returns /\ getter' = getter /\ made' = made
        /\ i < Len(elems) /\ elems' = es /\ wires' = WiresWithout(i)
    BY DEF RemoveElement, Rest
  <1>2. /\ Named(elems) /\ made \in 0..Limit /\ elems \in Seq(Nat) /\ Len(elems) \in Nat /\ layout \in Kinds
        /\ wires \in SUBSET Wire /\ Len(elems) <= MaxElements
        /\ \A n \in 1..Len(elems) : elems[n] \in Element /\ elems[n] <= made
        /\ \A d \in Dirs : Len(P[d]) \in Nat
    BY InvFacts DEF Inv, TypeOK
  <1>3. /\ Named(es) /\ es \in Seq(Nat) /\ Len(es) = Len(elems) - 1
        /\ \A k \in 1..Len(elems) - 1 : es[k] = elems[IF k <= i THEN k ELSE k + 1]
    BY <1>1, <1>2, RestNamed DEF Named
  <1>4. PICK A, K : Removal(i, A, K)
    BY <1>1, <1>2, RemovalAny
  <1>5. /\ P["in"] = Ins(elems) /\ P["out"] = Outs(elems) /\ Q["in"] = Ins(es) /\ Q["out"] = Outs(es)
    BY OverIs
  <1>6. /\ A \in [Dirs -> Nat] /\ K \in [Dirs -> Nat] /\ wires' = CutWires(wires, A, K)
        /\ \A d \in Dirs : Len(P[d]) \in Nat /\ CutRow(P[d], Q[d], A[d], K[d])
    <2>1. /\ A \in [Dirs -> Nat] /\ K \in [Dirs -> Nat] /\ WiresWithout(i) = CutWires(wires, A, K)
          /\ CutRow(Ins(elems), Ins(es), A["in"], K["in"]) /\ CutRow(Outs(elems), Outs(es), A["out"], K["out"])
      BY <1>4 DEF Removal
    <2> HIDE DEF P, Q, es
    <2> QED BY <1>1, <1>2, <1>5, <2>1 DEF Dirs
  <1>7. wires' \in SUBSET Wire
    BY <1>2, <1>6, CutWiresTyped
  <1>8. \A d \in Dirs : Len(Q[d]) \in Nat
    BY <1>2, <1>3, <1>5, PinsSized DEF Dirs
  <1>9. layout # "call" => \A w \in wires : Valid(P, w)
    BY DEF Inv, Sound
  <1>10. StillLoose(wires, P, Q, A, K)
    <2>1. CASE layout # "call"
      BY <1>9, <2>1 DEF StillLoose
    <2>2. CASE layout = "call"
      <3>1. LooseRow(Ins(elems), Ins(es), A["in"], K["in"]) /\ LooseRow(Outs(elems), Outs(es), A["out"], K["out"])
        BY <1>4, <2>2 DEF Removal
      <3> HIDE DEF P, Q, es
      <3>2. \A d \in Dirs : LooseRow(P[d], Q[d], A[d], K[d])
        BY <1>5, <3>1 DEF Dirs
      <3> SUFFICES ASSUME NEW w \in wires, ~Valid(P, w), ~Gone(w, A, K) PROVE ~Valid(Q, Moved(w, A, K))
        BY DEF StillLoose
      <3> DEFINE v == Moved(w, A, K)
                 a == A[w.dir]
                 k == K[w.dir]
      <3>3. w \in Wire /\ w.port \in Nat /\ w.dir \in Dirs
        BY <1>2, WireFacts
      <3>4. v.dir = w.dir /\ a \in Nat /\ k \in Nat /\ v.port = IF w.port >= a THEN w.port - k ELSE w.port
        BY <1>6, <3>3, MovedFacts
      <3>5. w.port < a \/ w.port >= a + k
        BY <3>3, <3>4 DEF Gone
      <3>6. LooseRow(P[w.dir], Q[w.dir], a, k)
        BY <3>2, <3>3
      <3> HIDE DEF v, a, k
      <3>7. Len(P[w.dir]) \in Nat /\ Len(Q[w.dir]) \in Nat
        BY <1>2, <1>8, <3>3
      <3>8. w.port >= Len(P[w.dir])
        BY <3>3, <3>7 DEF Valid
      <3>9. v.port >= Len(Q[w.dir]) /\ v.port \in Int
        <4>1. CASE w.port < a
          <5>1. v.port = w.port
            BY <3>3, <3>4, <4>1
          <5> QED BY <3>3, <3>6, <3>8, <4>1, <5>1 DEF LooseRow
        <4>2. CASE w.port >= a + k
          <5>1. v.port = w.port - k
            BY <3>3, <3>4, <4>2
          <5> QED BY <3>3, <3>4, <3>6, <3>8, <4>2, <5>1 DEF LooseRow
        <4> QED BY <3>5, <4>1, <4>2
      <3>10. ~Valid(Q, v)
        BY <3>4, <3>7, <3>9 DEF Valid
      <3> QED BY <3>10 DEF v
    <2> QED BY <2>1, <2>2
  <1> HIDE DEF P, Q, es
  <1>11. Carried(wires, wires', P, Q)
    BY <1>2, <1>6, <1>10, CutCarries
  <1>12. layout # "call" => \A v \in wires' : Valid(Q, v)
    <2> SUFFICES ASSUME layout # "call", NEW v \in wires' PROVE Valid(Q, v)
      OBVIOUS
    <2>1. PICK w \in wires : ~Gone(w, A, K) /\ v = Moved(w, A, K)
      BY <1>6 DEF CutWires
    <2>2. w \in Wire /\ Valid(P, w)
      BY <1>2, <1>9
    <2> QED BY <1>6, <2>1, <2>2, MovedFollows
  <1>17. layout = "call" => Within(wires', es)
    <2> SUFFICES ASSUME layout = "call", NEW v \in wires', v.dir = "in" PROVE v.port <= Len(es)
      BY DEF Within
    <2>1. PICK w \in wires : ~Gone(w, A, K) /\ v = Moved(w, A, K)
      BY <1>6 DEF CutWires
    <2>2. w \in Wire /\ w.port \in Nat /\ w.dir = "in"
      BY <1>2, <1>6, <2>1, WireFacts, MovedFacts
    <2>3. Valid(P, w)
      <3>1. w.port <= Len(elems)
        BY <2>2 DEF Inv, Within
      <3>2. ~IsPure(elems)
        <4>1. Len(<<>>) = 0 /\ Len(elems) # 0
          BY <1>1, <1>2, Heads
        <4> QED BY <4>1 DEF IsPure
      <3>3. Len(Ins(elems)) = Len(elems) + 1
        BY <1>2, <3>2, CallIns
      <3> QED BY <1>2, <1>5, <2>2, <3>1, <3>3 DEF Valid
    <2>4. Valid(Q, v)
      BY <1>6, <2>1, <2>2, <2>3, MovedFollows
    <2>5. Len(Ins(es)) <= Len(es) + 1 /\ Len(Ins(es)) \in Nat
      BY <1>3, CallIns
    <2>6. v \in Wire /\ v.port \in Nat
      BY <1>7, WireFacts
    <2> QED BY <1>2, <1>3, <1>5, <2>4, <2>5, <2>6 DEF Valid
  <1>13. layout # "call" => Sound(wires', Over(elems'))
    BY <1>1, <1>3, <1>7, <1>11, <1>12, CarriedOver DEF P, Q
  <1>14. Inv'
    <2>1. Len(es) <= MaxElements
      BY <1>2, <1>3, LimitAssumption
    <2>2. ASSUME NEW n \in 1..Len(es) PROVE es[n] \in Element /\ es[n] <= made
      <3>1. n \in 1..Len(elems) - 1 /\ (IF n <= i THEN n ELSE n + 1) \in 1..Len(elems)
        BY <1>2, <1>3
      <3> QED BY <1>2, <1>3, <3>1
    <2> QED BY <1>1, <1>2, <1>3, <1>7, <1>13, <1>17, <2>1, <2>2, ElementsInv
  <1>15. AllPins' = Q
    BY <1>1, PinsKept DEF Q
  <1>16. Drawn' = {d \in Drawn : <<d[1], d[2]>> \in PinsNow'}
    <2>1. elems' \in Seq(Nat) /\ layout' \in Kinds
      BY <1>1, <1>2, <1>3
    <2>2. Carried(wires, wires', AllPins, AllPins') /\ \A d \in Dirs : Len(AllPins'[d]) \in Nat
      BY <1>8, <1>11, <1>15 DEF P
    <2> QED BY <1>7, <2>1, <2>2, DrawnStillIs
  <1> QED BY <1>14, <1>16

\* Without the last elements.
LEMMA ShrinkInv ==
    ASSUME Inv, NEW n \in Nat, Shrink(n)
    PROVE  Inv' /\ Drawn' = {d \in Drawn : <<d[1], d[2]>> \in PinsNow'}
  <1> DEFINE es == SubSeq(elems, 1, n)
             P == AllPins
             Q == Over(es)
             first == IF layout = "switch" THEN n + 2 ELSE n
  <1>1. /\ layout' = layout /\ default' = default /\ returns' = returns /\ getter' = getter /\ made' = made
        /\ n < Len(elems) /\ elems' = es /\ layout \in {"sequence", "random", "switch"}
        /\ wires' = {w \in wires : w.port < first \/ (layout # "switch" /\ w.dir = "in")}
    BY DEF Shrink
  <1>2. /\ Named(elems) /\ made \in 0..Limit /\ elems \in Seq(Nat) /\ Len(elems) \in Nat /\ layout \in Kinds
        /\ wires \in SUBSET Wire /\ Len(elems) <= MaxElements
        /\ \A k \in 1..Len(elems) : elems[k] \in Element /\ elems[k] <= made
        /\ \A d \in Dirs : Len(P[d]) \in Nat
        /\ Sound(wires, P)
    BY <1>1, InvFacts DEF Inv, TypeOK
  <1>3. Named(es) /\ es \in Seq(Nat) /\ Extends(es, elems) /\ Len(es) = n /\ \A k \in 1..n : es[k] = elems[k] /\ k \in 1..Len(elems)
    BY <1>1, <1>2, Shrunk DEF Named
  <1>4. /\ P["in"] = Ins(elems) /\ P["out"] = Outs(elems) /\ Q["in"] = Ins(es) /\ Q["out"] = Outs(es) /\ P = Over(elems)
    BY OverIs
  <1> HIDE DEF es, P, Q, first
  <1>5. Extends(Ins(es), Ins(elems)) /\ Extends(Outs(es), Outs(elems))
    BY <1>1, <1>2, <1>3, PinsExtend
  <1>6. \A d \in Dirs : Extends(Q[d], P[d])
    BY <1>4, <1>5 DEF Dirs
  <1>7. Distinct(P)
    BY <1>1, <1>2, <1>4, PinsApart
  <1>8. /\ Len(Outs(es)) = first
        /\ layout = "switch" => Len(Ins(es)) = first
        /\ layout # "switch" => Ins(es) = Ins(elems)
    <2>0. "exec" \in Roles /\ "value" \in Roles /\ "done" \in Roles /\ "default" \in Roles
      BY DEF Roles
    <2>1. CASE layout = "switch"
      <3>1. /\ IsRow(Ins(es), Fixed("exec") \o Fixed("value"), "element", es, <<>>)
            /\ IsRow(Outs(es), Fixed("done") \o Fixed("default"), "out", es, <<>>)
        BY <1>3, <2>1, InsLaw, OutsLaw
      <3>2. Len(Fixed("exec") \o Fixed("value")) = 2 /\ Len(Fixed("done") \o Fixed("default")) = 2 /\ Len(<<>>) = 0
        BY <2>0, Heads
      <3>3. Len(Ins(es)) = 2 + n + 0 /\ Len(Outs(es)) = 2 + n + 0
        BY <1>3, <3>1, <3>2 DEF IsRow, Row
      <3> QED BY <2>1, <3>3 DEF first
    <2>2. CASE layout # "switch"
      <3>1. IsRow(Outs(es), <<>>, "out", es, <<>>) /\ Len(<<>>) = 0
        BY <1>1, <1>3, <2>2, OutsLaw, Heads
      <3>2. Len(Outs(es)) = 0 + n + 0
        BY <1>3, <3>1 DEF IsRow, Row
      <3>3. Ins(es) = Fixed("exec") /\ Ins(elems) = Fixed("exec")
        BY <1>1, <1>2, <1>3, <2>2, InsLaw
      <3> QED BY <2>2, <3>2, <3>3 DEF first
    <2> QED BY <2>1, <2>2
  <1>9. \A w \in wires : (w.port < first \/ (layout # "switch" /\ w.dir = "in")) <=> Valid(Q, w)
    <2> SUFFICES ASSUME NEW w \in wires
                 PROVE  (w.port < first \/ (layout # "switch" /\ w.dir = "in")) <=> Valid(Q, w)
      OBVIOUS
    <2>1. w \in Wire /\ w.dir \in Dirs /\ Valid(P, w)
      BY <1>2, WireFacts DEF Sound
    <2>2. CASE w.dir = "out"
      BY <1>4, <1>8, <2>2 DEF Valid
    <2>3. CASE w.dir = "in" /\ layout = "switch"
      BY <1>4, <1>8, <2>3 DEF Valid
    <2>4. CASE w.dir = "in" /\ layout # "switch"
      BY <1>4, <1>8, <2>1, <2>4 DEF Valid
    <2> QED BY <2>1, <2>2, <2>3, <2>4 DEF Dirs
  <1>10. wires' = {w \in wires : Valid(Q, w)}
    BY <1>1, <1>9
  <1>11. Carried(wires, wires', P, Q) /\ wires' \in SUBSET Wire /\ \A w \in wires' : Valid(Q, w)
    BY <1>2, <1>6, <1>7, <1>10, FewerCarried
  <1>12. layout # "call" => Sound(wires', Over(elems'))
    BY <1>1, <1>3, <1>11, CarriedOver DEF P, Q
  <1>13. Inv'
    <2>1. Len(es) <= MaxElements
      BY <1>1, <1>2, <1>3, LimitAssumption
    <2> QED BY <1>1, <1>2, <1>3, <1>11, <1>12, <2>1, ElementsInv
  <1>14. AllPins' = Q
    BY <1>1, PinsKept DEF Q
  <1>15. Drawn' = {d \in Drawn : <<d[1], d[2]>> \in PinsNow'}
    <2>1. elems' \in Seq(Nat) /\ layout' \in Kinds
      BY <1>1, <1>2, <1>3
    <2>2. Carried(wires, wires', AllPins, AllPins') /\ \A d \in Dirs : Len(AllPins'[d]) \in Nat
      BY <1>6, <1>11, <1>14 DEF P, Extends
    <2> QED BY <1>11, <2>1, <2>2, DrawnStillIs
  <1> QED BY <1>13, <1>15

\* The default pin comes or goes, behind all others.
LEMMA ToggleDefaultInv ==
    ASSUME Inv, ToggleDefault PROVE Inv' /\ Drawn' = {d \in Drawn : <<d[1], d[2]>> \in PinsNow'}
  <1> DEFINE n == Len(elems)
             e == PinsOf("out", elems)
             short == e \o <<>>
             long == e \o Fixed("default")
             P == AllPins
             Q == AllPins'
  <1>1. /\ layout = "select" /\ layout' = layout /\ default' = ~default /\ returns' = returns /\ getter' = getter
        /\ made' = made /\ elems' = elems
        /\ wires' = IF default THEN Unlinked(wires, "out", n) ELSE wires
    BY DEF ToggleDefault
  <1>2. /\ Named(elems) /\ elems \in Seq(Nat) /\ n \in Nat /\ layout \in Kinds /\ wires \in SUBSET Wire
        /\ default \in BOOLEAN /\ Sound(wires, P) /\ \A d \in Dirs : Len(P[d]) \in Nat
    BY <1>1, InvFacts DEF Inv, TypeOK
  <1>3. "default" \in Roles /\ "out" \in Roles
    BY DEF Roles
  <1>4. P["in"] = Ins(elems) /\ P["out"] = Outs(elems) /\ Q["in"] = Ins(elems)' /\ Q["out"] = Outs(elems)'
    BY <1>1 DEF AllPins, Pins, Dirs
  <1>5. Ins(elems)' = Ins(elems)
    BY <1>1 DEF Ins
  <1>6. Outs(elems) = IF default THEN long ELSE short
    BY <1>1 DEF Outs
  <1>7. Outs(elems)' = IF default THEN short ELSE long
    BY <1>1 DEF Outs
  <1>8. Len(short) = n /\ Len(long) = n + 1 /\ Extends(short, long)
    <2>1. e \in Seq(Pin) /\ Len(e) = n
      BY <1>2, <1>3, PinsOfRow
    <2>2. Fixed("default") \in Seq(Pin) /\ Len(Fixed("default")) = 1 /\ <<>> \in Seq(Pin) /\ Len(<<>>) = 0
      BY <1>3, FixedPin, Heads
    <2> HIDE DEF e
    <2>3. Len(short) = Len(e) + 0 /\ \A k \in 1..Len(e) : short[k] = e[k]
      BY <2>1, <2>2, Concat
    <2>4. Len(long) = Len(e) + 1 /\ \A k \in 1..Len(e) : long[k] = e[k]
      BY <2>1, <2>2, Longer
    <2> HIDE DEF short, long, n
    <2> QED BY <1>2, <2>1, <2>3, <2>4 DEF Extends
  <1>9. Extends(Ins(elems), Ins(elems))
    BY <1>1, <1>2, <1>4, SameExtends DEF Dirs
  <1>10. Distinct(P)
    BY <1>1, <1>2, PinsApart, OverIs
  <1> HIDE DEF n, e, short, long, P, Q
  <1>11. Carried(wires, wires', P, Q) /\ wires' \in SUBSET Wire /\ \A w \in wires' : Valid(Q, w)
    <2>1. CASE default
      <3>1. \A d \in Dirs : Extends(Q[d], P[d])
        BY <1>4, <1>5, <1>6, <1>7, <1>8, <1>9, <2>1 DEF Dirs
      <3>2. ASSUME NEW w \in wires PROVE ~(w.dir = "out" /\ w.port = n) <=> Valid(Q, w)
        <4>1. w \in Wire /\ w.dir \in Dirs /\ Valid(P, w) /\ w.port \in Nat
          BY <1>2, WireFacts DEF Sound
        <4>2. CASE w.dir = "in"
          BY <1>4, <1>5, <4>1, <4>2 DEF Valid
        <4>3. CASE w.dir = "out"
          <5>1. w.port < n + 1
            BY <1>4, <1>6, <1>8, <2>1, <4>1, <4>3 DEF Valid
          <5>2. Valid(Q, w) <=> w.port < n
            BY <1>4, <1>7, <1>8, <2>1, <4>3 DEF Valid
          <5> QED BY <1>2, <4>1, <4>3, <5>1, <5>2
        <4> QED BY <4>1, <4>2, <4>3 DEF Dirs
      <3>3. wires' = {w \in wires : Valid(Q, w)}
        BY <1>1, <2>1, <3>2 DEF Unlinked
      <3> QED BY <1>2, <1>10, <3>1, <3>3, FewerCarried
    <2>2. CASE ~default
      <3>1. \A d \in Dirs : Extends(P[d], Q[d])
        BY <1>4, <1>5, <1>6, <1>7, <1>8, <1>9, <2>2 DEF Dirs
      <3>2. \A w \in wires : Valid(P, w)
        BY <1>2 DEF Sound
      <3>3. wires' = wires
        BY <1>1, <2>2
      <3> QED BY <1>2, <3>1, <3>2, <3>3, MoreCarried
    <2> QED BY <2>1, <2>2
  <1>12. Sound(wires', Q)
    BY <1>2, <1>10, <1>11, CarriedSound
  <1>13. TypeOK'
    BY <1>1, <1>2, <1>11 DEF Inv, TypeOK
  <1>14. Named(elems)' /\ (\A k \in 1..Len(elems) : elems[k] <= made)'
    BY <1>1 DEF Inv
  <1>15. (layout # "call" => Sound(wires, AllPins))'
    BY <1>12 DEF Q
  <1>16. (layout = "call" => Within(wires, elems))'
    BY <1>1
  <1>17. Inv'
    BY <1>13, <1>14, <1>15, <1>16 DEF Inv
  <1>18. \A d \in Dirs : Len(AllPins'[d]) \in Nat
    <2>1. Q["in"] = Ins(elems) /\ (Q["out"] = short \/ Q["out"] = long)
      BY <1>4, <1>5, <1>7
    <2>2. Len(Ins(elems)) \in Nat
      BY <1>2, <1>4 DEF Dirs
    <2>3. Len(Q["in"]) \in Nat /\ Len(Q["out"]) \in Nat
      BY <1>2, <1>8, <2>1, <2>2
    <2> QED BY <2>3 DEF Dirs, Q
  <1>19. Drawn' = {d \in Drawn : <<d[1], d[2]>> \in PinsNow'}
    <2>1. Carried(wires, wires', AllPins, AllPins')
      BY <1>11 DEF P, Q
    <2> QED BY <1>1, <1>2, <1>11, <1>18, <2>1, DrawnStillIs
  <1> QED BY <1>17, <1>19

\* A call's pins follow its function.
LEMMA SignatureInv ==
    ASSUME Inv, ToggleReturn \/ Rename
    PROVE  /\ Inv'
           /\ IsPure(elems)' = IsPure(elems) => {d \in Drawn : <<d[1], d[2]>> \in PinsNow'} \subseteq Drawn'
  <1>1. /\ layout = "call" /\ layout' = layout /\ elems' = elems /\ made' = made /\ default' = default /\ wires' = wires
        /\ returns' = returns \/ returns' = ~returns
        /\ getter' = getter \/ getter' = ~getter
        /\ returns' = returns \/ getter' = getter
        /\ returns' # returns \/ getter' # getter
    BY DEF ToggleReturn, Rename, Inv, TypeOK
  <1>2. TypeOK'
    BY <1>1 DEF Inv, TypeOK
  <1>3. Named(elems)' /\ (\A k \in 1..Len(elems) : elems[k] <= made)'
    BY <1>1 DEF Inv
  <1>4. (layout = "call" => Within(wires, elems))'
    BY <1>1 DEF Inv
  <1>5. Inv'
    BY <1>1, <1>2, <1>3, <1>4 DEF Inv
  <1>6. ASSUME IsPure(elems)' = IsPure(elems), NEW d \in Drawn, <<d[1], d[2]>> \in PinsNow' PROVE d \in Drawn'
    <2>1. PICK w \in wires : HasPort(w.dir, w.port) /\ d = <<w.dir, PinAt(w.dir, w.port), w.peer>>
      BY DEF Drawn
    <2>2. w \in Wire /\ w.dir \in Dirs /\ w.port \in Nat /\ elems \in Seq(Nat)
      BY InvFacts, WireFacts
    <2>3. Ins(elems)' = Ins(elems)
      BY <1>1, <1>6 DEF Ins
    <2>4. CASE w.dir = "in"
      <3>1. HasPort(w.dir, w.port)' /\ PinAt(w.dir, w.port)' = PinAt(w.dir, w.port)
        BY <2>1, <2>3, <2>4 DEF HasPort, PinAt, Pins
      <3> QED BY <1>1, <2>1, <3>1 DEF Drawn
    <2>5. CASE w.dir = "out"
      <3> DEFINE short == Fixed("exec") \o <<>>
                 long == Fixed("exec") \o Fixed("return")
                 p == Outs(elems)
                 q == Outs(elems)'
      <3>1. ~IsPure(elems) /\ ~IsPure(elems)'
        BY <1>1, <1>6 DEF IsPure, Inv, TypeOK
      <3>2. p = IF returns THEN long ELSE short
        BY <1>1, <3>1 DEF Outs
      <3>3. q = IF returns' THEN long ELSE short
        BY <1>1, <3>1 DEF Outs
      <3>4. "exec" \in Roles /\ "return" \in Roles
        BY DEF Roles
      <3>5. Len(long) = 2 /\ long[1] = <<"exec", 0>> /\ long[2] = <<"return", 0>> /\ long \in Seq(Pin)
        BY <3>4, TwoFixed
      <3>6. Len(short) = 1 /\ short[1] = <<"exec", 0>> /\ short \in Seq(Pin)
        <4>1. Fixed("exec") \in Seq(Pin) /\ Len(Fixed("exec")) = 1 /\ Fixed("exec")[1] = <<"exec", 0>> /\ <<>> \in Seq(Pin) /\ Len(<<>>) = 0
          BY <3>4, FixedPin, Heads
        <4> QED BY <4>1, Concat
      <3> HIDE DEF short, long, p, q
      <3>7. PICK k \in DOMAIN q : q[k] = d[2]
        <4>1. d[1] = "out" /\ <<"out", d[2]>> \in PinsNow'
          BY <1>6, <2>1, <2>5
        <4>2. PinsNow' = {<<"in", Ins(elems)'[m]>> : m \in DOMAIN Ins(elems)'} \cup {<<"out", q[m]>> : m \in DOMAIN q}
          BY DEF PinsNow, q
        <4> QED BY <4>1, <4>2
      <3>8. w.port < Len(p) /\ d[2] = p[w.port + 1]
        BY <2>1, <2>5 DEF HasPort, PinAt, Pins, p
      <3>9. w.port < Len(q) /\ q[w.port + 1] = p[w.port + 1]
        <4>1. DOMAIN q = 1..Len(q) /\ (q = long \/ q = short) /\ (p = long \/ p = short)
          BY <3>2, <3>3, <3>5, <3>6
        <4>2. CASE w.port = 0
          BY <3>5, <3>6, <4>1, <4>2
        <4>3. CASE w.port # 0
          <5>1. p = long /\ w.port = 1
            <6>1. w.port < Len(p) /\ w.port \in Nat
              BY <2>2, <3>8
            <6>2. CASE p = short
              <7>1. w.port < 1
                BY <3>6, <6>1, <6>2
              <7> QED BY <4>3, <6>1, <7>1
            <6>3. CASE p = long
              <7>1. w.port < 2
                BY <3>5, <6>1, <6>3
              <7> QED BY <4>3, <6>1, <6>3, <7>1
            <6> QED BY <4>1, <6>2, <6>3
          <5>2. q[k] = <<"return", 0>>
            BY <3>5, <3>7, <3>8, <5>1
          <5>3. q = long
            <6> SUFFICES ASSUME q = short PROVE FALSE
              BY <4>1
            <6>1. DOMAIN short = 1..1
              BY <3>6
            <6>2. k = 1
              BY <6>1, <3>7
            <6> QED BY <3>6, <5>2, <6>2
          <5> QED BY <3>5, <5>1, <5>3
        <4> QED BY <4>2, <4>3
      <3>10. HasPort(w.dir, w.port)' /\ PinAt(w.dir, w.port)' = PinAt(w.dir, w.port)
        <4>1. HasPort(w.dir, w.port)' <=> w.port < Len(q)
          BY <2>5 DEF HasPort, Pins, q
        <4>2. PinAt(w.dir, w.port)' = q[w.port + 1] /\ PinAt(w.dir, w.port) = p[w.port + 1]
          BY <2>5 DEF PinAt, Pins, p, q
        <4> QED BY <3>9, <4>1, <4>2
      <3> QED BY <1>1, <2>1, <3>10 DEF Drawn
    <2> QED BY <2>2, <2>4, <2>5 DEF Dirs
  <1> QED BY <1>5, <1>6

\* What a step may do to the wires.
Keeping ==
    /\ Len(elems') < Len(elems) => Drawn' = {d \in Drawn : <<d[1], d[2]>> \in PinsNow'}
    /\ (Len(elems') > Len(elems) /\ ~IsPure(elems) /\ (layout = "dialogue" => elems # <<>>)) =>
           Drawn' = Drawn
    /\ (<<default, returns, getter>>' # <<default, returns, getter>> /\ IsPure(elems)' = IsPure(elems)) =>
           {d \in Drawn : <<d[1], d[2]>> \in PinsNow'} \subseteq Drawn'

LEMMA NextInv == ASSUME Inv, [Next]_vars PROVE Inv' /\ (Keeping \/ UNCHANGED vars)
  <1>0. Len(elems) \in Nat
    BY InvFacts
  <1>1. ASSUME NEW dir \in {"in", "out"}, NEW port \in 0..2 * MaxElements + 4, NEW peer \in Peers, Draw(dir, port, peer)
        PROVE  Inv' /\ Keeping
    <2>1. port \in Nat /\ dir \in Dirs
      BY <1>1 DEF Dirs
    <2>2. elems' = elems /\ UNCHANGED <<default, returns, getter>>
      BY <1>1 DEF Draw
    <2> QED BY <1>0, <1>1, <2>1, <2>2, DrawInv DEF Keeping
  <1>2. ASSUME NEW w \in wires, Erase(w) PROVE Inv' /\ Keeping
    <2>1. elems' = elems /\ UNCHANGED <<default, returns, getter>>
      BY <1>2 DEF Erase
    <2> QED BY <1>0, <1>2, <2>1, EraseInv DEF Keeping
  <1>3. CASE AddElement
    <2>1. Inv' /\ (~IsPure(elems) /\ (layout = "dialogue" => elems # <<>>) => Drawn' = Drawn)
      BY <1>3, AddInv
    <2>2. Len(elems') = Len(elems) + 1
      <3>1. elems' = Append(elems, made') /\ elems \in Seq(Nat)
        BY <1>3, InvFacts DEF AddElement
      <3> QED BY <3>1
    <2>3. UNCHANGED <<default, returns, getter>>
      BY <1>3 DEF AddElement
    <2> QED BY <1>0, <2>1, <2>2, <2>3 DEF Keeping
  <1>4. ASSUME NEW i \in 0..MaxElements - 1, RemoveElement(i) \/ Shrink(i) PROVE Inv' /\ Keeping
    <2>0. i \in Nat
      BY LimitAssumption
    <2>1. Inv' /\ Drawn' = {d \in Drawn : <<d[1], d[2]>> \in PinsNow'}
      BY <1>4, <2>0, RemoveInv, ShrinkInv
    <2>2. Len(elems') < Len(elems)
      <3>0. Named(elems) /\ elems \in Seq(Nat)
        BY InvFacts DEF Inv
      <3>1. CASE RemoveElement(i)
        <4>1. i < Len(elems) /\ elems' = Rest(elems, i)
          BY <3>1 DEF RemoveElement, Rest
        <4>2. Len(elems') = Len(elems) - 1
          BY <2>0, <3>0, <4>1, RestNamed
        <4> QED BY <1>0, <4>2
      <3>2. CASE Shrink(i)
        <4>1. i < Len(elems) /\ elems' = SubSeq(elems, 1, i)
          BY <3>2 DEF Shrink
        <4>2. Len(elems') = i
          BY <2>0, <3>0, <4>1, Shrunk
        <4> QED BY <4>1, <4>2
      <3> QED BY <1>4, <3>1, <3>2
    <2>3. Len(elems') \in Nat
      <3>1. (Inv => elems \in Seq(Nat))'
        BY InvFacts, PTL
      <3>2. elems' \in Seq(Nat)
        BY <2>1, <3>1
      <3> QED BY <3>2
    <2>4. UNCHANGED <<default, returns, getter>>
      BY <1>4 DEF RemoveElement, Shrink
    <2> QED BY <1>0, <2>1, <2>2, <2>3, <2>4 DEF Keeping
  <1>5. CASE ToggleDefault
    <2>1. elems' = elems
      BY <1>5 DEF ToggleDefault
    <2> QED BY <1>0, <1>5, <2>1, ToggleDefaultInv DEF Keeping
  <1>6. CASE ToggleReturn \/ Rename
    <2>1. elems' = elems
      BY <1>6 DEF ToggleReturn, Rename
    <2> QED BY <1>0, <1>6, <2>1, SignatureInv DEF Keeping
  <1>7. CASE UNCHANGED vars
    <2>1. /\ layout' = layout /\ elems' = elems /\ made' = made /\ default' = default /\ returns' = returns
          /\ getter' = getter /\ wires' = wires
      BY <1>7 DEF vars
    <2>2. AllPins' = AllPins
      BY <2>1, PinsKept
    <2>3. TypeOK'
      BY <2>1 DEF Inv, TypeOK
    <2> QED BY <1>7, <2>1, <2>2, <2>3 DEF Inv
  <1> QED BY <1>1, <1>2, <1>3, <1>4, <1>5, <1>6, <1>7 DEF Next

LEMMA Invariance == Spec => []Inv
  <1>1. Inv /\ [Next]_vars => Inv'
    BY NextInv
  <1> QED BY InitInv, <1>1, PTL DEF Spec

LEMMA WellWiredNow == Inv => WellWired
  <1> SUFFICES ASSUME Inv PROVE WellWired
    OBVIOUS
  <1>1. wires \in SUBSET Wire
    BY InvFacts
  <1>2. ASSUME NEW w \in wires
        PROVE  (Valid(AllPins, w) <=> HasPort(w.dir, w.port)) /\ At(AllPins, w) = PinAt(w.dir, w.port)
    <2>1. w.dir \in Dirs
      BY <1>1, WireFacts
    <2>2. AllPins[w.dir] = Pins(w.dir)
      BY <2>1 DEF AllPins
    <2> QED BY <2>2 DEF Valid, HasPort, At, PinAt
  <1>3. NoDanglingWire
    BY <1>2 DEF Inv, Sound, NoDanglingWire
  <1>4. OneWirePerPin
    BY <1>2 DEF Inv, Sound, OneWirePerPin
  <1> QED BY <1>3, <1>4 DEF Inv, WellWired

-----------------------------------------------------------------------------
(* Theorems.                                                                 *)

\* Whatever is drawn, erased, added, removed, set and toggled, and in whatever
\* order, at a node other than a call each wire ends at a pin and no two share
\* one that takes one, for every number of elements that ports of eight bits
\* tell apart: adjust_connections never leaves a wire over.
THEOREM WellWiredSafe == Spec => []WellWired
  BY Invariance, WellWiredNow, PTL

\* Removing an element takes away the wires of its pins and no others, and
\* leaves these at the pins they were drawn to, at every kind of node, a call
\* that becomes a getter's included.  Adding one moves none, nor does any other
\* change of the settings, unless a pin goes for it or execution pins come.
THEOREM KeepsWiresSafe == Spec => KeepsWires
  <1>1. Inv /\ [Next]_vars =>
            [/\ Len(elems') < Len(elems) => Drawn' = {d \in Drawn : <<d[1], d[2]>> \in PinsNow'}
             /\ (Len(elems') > Len(elems) /\ ~IsPure(elems) /\ (layout = "dialogue" => elems # <<>>)) =>
                    Drawn' = Drawn
             /\ (<<default, returns, getter>>' # <<default, returns, getter>> /\ IsPure(elems)' = IsPure(elems)) =>
                    {d \in Drawn : <<d[1], d[2]>> \in PinsNow'} \subseteq Drawn']_vars
    BY NextInv DEF Keeping
  <1> QED BY Invariance, <1>1, PTL DEF Spec, KeepsWires

=============================================================================
