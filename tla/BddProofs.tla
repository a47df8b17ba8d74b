------------------------------ MODULE BddProofs ------------------------------
(* Proofs about the store of nodes (module BddNodes). *)
EXTENDS BddNodes, FiniteSetTheorems, WellFoundedInduction, TLAPS
----------------------------------------------------------------------------
(* Induction over numbers, stated with a set. *)

\* A set of numbers that is not empty has a least element.
LEMMA Least == ASSUME NEW X, X \subseteq Nat, X # {} PROVE \E x \in X : \A y \in X : x <= y
<1>1. PICK m \in X : TRUE
  OBVIOUS
<1> DEFINE U == 0 .. m
           I == {0 .. k : k \in {j \in X : j <= m}}
<1>2. IsFiniteSet(U)
  BY <1>1, FS_Interval
<1>3. IsWellFoundedOn(StrictSubsetOrdering(U), SUBSET U)
  BY <1>2, FS_StrictSubsetOrderingWellFounded, FS_FiniteSubsetsOfFinite
<1>4. I \subseteq SUBSET U /\ I # {}
  BY <1>1
<1>5. \E x \in I : \A y \in I : ~ (<<y, x>> \in StrictSubsetOrdering(U))
  <2> HIDE DEF I, U
  <2> QED BY <1>3, <1>4, WFMin
<1>6. PICK k \in X : k <= m /\ \A y \in I : ~ (<<y, 0 .. k>> \in StrictSubsetOrdering(U))
  BY <1>5
<1>7. ASSUME NEW y \in X, y < k PROVE FALSE
  <2>1. 0 .. y \in I
    BY <1>6, <1>7
  <2>2. 0 .. y \subseteq 0 .. k /\ 0 .. k \subseteq U /\ 0 .. y # 0 .. k
    BY <1>6, <1>7
  <2> QED BY <1>6, <2>1, <2>2 DEF StrictSubsetOrdering
<1> QED BY <1>6, <1>7

\* A set that has 0, and n + 1 with n, has every number.
LEMMA SetInduction ==
  ASSUME NEW X, 0 \in X, \A n \in Nat : n \in X => n + 1 \in X
  PROVE  Nat \subseteq X
<1> SUFFICES ASSUME NEW n \in Nat, n \notin X PROVE FALSE
  OBVIOUS
<1> DEFINE B == {m \in Nat : m \notin X}
<1>1. PICK x \in B : \A y \in B : x <= y
  <2>1. B \subseteq Nat /\ B # {}
    OBVIOUS
  <2> HIDE DEF B
  <2> QED BY <2>1, Least
<1>2. x # 0 /\ x \in Nat /\ x - 1 \in Nat
  BY <1>1
<1>3. x - 1 \in X
  BY <1>1, <1>2
<1> QED BY <1>1, <1>2, <1>3
----------------------------------------------------------------------------
(* The function a reference denotes exists, when nodes point down. *)

Ref  == [out : {0, 1}, inp : {0, 1}, sh : Nat, id : Nat \ {0}]
Node == [h : Ref, l : Ref]

PointDown(nodes) ==
  /\ nodes \in Seq(Node) /\ Len(nodes) > 0
  /\ \A i \in 2 .. Len(nodes) : nodes[i].h.id < i /\ nodes[i].l.id < i

\* References with the same parts are the same.
LEMMA RefEq ==
  ASSUME NEW x \in Ref, NEW y \in Ref,
         x.out = y.out, x.inp = y.inp, x.sh = y.sh, x.id = y.id
  PROVE  x = y
<1>1. x = [out |-> x.out, inp |-> x.inp, sh |-> x.sh, id |-> x.id]
  BY DEF Ref
<1>2. y = [out |-> y.out, inp |-> y.inp, sh |-> y.sh, id |-> y.id]
  BY DEF Ref
<1> QED BY <1>1, <1>2

LEMMA RefsAreRef == ASSUME NEW nodes, Len(nodes) \in Nat PROVE Refs(nodes) \subseteq Ref
BY DEF Refs, Ref

\* The inverter and the shift keep a reference one, to the same node.
LEMMA FlipIs ==
  ASSUME NEW x \in Ref
  PROVE  /\ flip(x) \in Ref /\ flip(x).id = x.id /\ flip(x).sh = x.sh /\ flip(x).inp = x.inp
         /\ flip(x).out = 1 - x.out
BY DEF Ref, flip

LEMMA FlipFlip == ASSUME NEW x \in Ref PROVE flip(flip(x)) = x
<1>1. flip(x) \in Ref /\ flip(flip(x)) \in Ref
  BY FlipIs
<1>2. flip(flip(x)).id = x.id /\ flip(flip(x)).sh = x.sh /\ flip(flip(x)).inp = x.inp
  BY <1>1, FlipIs
<1>3. flip(flip(x)).out = 1 - (1 - x.out)
  BY <1>1, FlipIs
<1>4. flip(flip(x)).out = x.out
  BY <1>3 DEF Ref
<1> QED BY <1>1, <1>2, <1>4, RefEq

LEMMA ShiftIs ==
  ASSUME NEW x \in Ref, NEW n \in Nat
  PROVE  /\ plus_shift(x, n) \in Ref /\ plus_shift(x, n).id = x.id
         /\ plus_shift(x, n).out = x.out /\ plus_shift(x, n).inp = x.inp
         /\ plus_shift(x, n).sh = IF leaf(x) THEN x.sh ELSE x.sh + n
BY DEF Ref, plus_shift, leaf

LEMMA FlipShift ==
  ASSUME NEW x \in Ref, NEW n \in Nat
  PROVE  flip(plus_shift(x, n)) = plus_shift(flip(x), n)
<1> DEFINE a == flip(plus_shift(x, n))
           b == plus_shift(flip(x), n)
<1>1. flip(x) \in Ref /\ plus_shift(x, n) \in Ref /\ (leaf(flip(x)) <=> leaf(x))
  BY FlipIs, ShiftIs DEF leaf
<1>2. /\ a \in Ref /\ a.id = x.id /\ a.inp = x.inp /\ a.out = 1 - x.out
      /\ a.sh = IF leaf(x) THEN x.sh ELSE x.sh + n
  BY <1>1, FlipIs, ShiftIs
<1>3. /\ b \in Ref /\ b.id = x.id /\ b.inp = x.inp /\ b.out = 1 - x.out
      /\ b.sh = IF leaf(x) THEN x.sh ELSE x.sh + n
  BY <1>1, FlipIs, ShiftIs
<1>4. a = b
  <2> HIDE DEF a, b
  <2> QED BY <1>2, <1>3, RefEq
<1> QED BY <1>4

\* The branches of a reference are references to nodes further down.
LEMMA GetDown ==
  ASSUME NEW nodes, PointDown(nodes), NEW x \in Refs(nodes), ~leaf(x)
  PROVE  /\ get(nodes, x).h \in Refs(nodes) /\ get(nodes, x).h.id < x.id
         /\ get(nodes, x).l \in Refs(nodes) /\ get(nodes, x).l.id < x.id
<1>1. x \in Ref /\ x.id \in 2 .. Len(nodes) /\ Len(nodes) \in Nat /\ x.sh \in Nat
  BY DEF Refs, PointDown, leaf, Ref
<1> DEFINE n == nodes[x.id]
           seen(r) == IF x.out = 1 THEN flip(plus_shift(r, x.sh)) ELSE plus_shift(r, x.sh)
<1>2. n \in Node /\ n.h.id < x.id /\ n.l.id < x.id
  BY <1>1 DEF PointDown
<1>3. n.h \in Ref /\ n.l \in Ref
  BY <1>2 DEF Node
<1>4. ASSUME NEW r \in Ref, r.id < x.id
      PROVE  seen(r) \in Refs(nodes) /\ seen(r).id < x.id
  <2>1. plus_shift(r, x.sh) \in Ref /\ plus_shift(r, x.sh).id = r.id
    BY <1>1, <1>4, ShiftIs
  <2>2. seen(r) \in Ref /\ seen(r).id = r.id
    BY <2>1, FlipIs
  <2> HIDE DEF seen
  <2> QED BY <1>1, <1>4, <2>2 DEF Ref, Refs
<1>5. seen(n.h) \in Refs(nodes) /\ seen(n.h).id < x.id /\ seen(n.l) \in Refs(nodes) /\ seen(n.l).id < x.id
  BY <1>2, <1>3, <1>4
<1>6. get(nodes, x) = IF x.inp = 1 THEN [h |-> seen(n.l), l |-> seen(n.h)] ELSE [h |-> seen(n.h), l |-> seen(n.l)]
  BY DEF get
<1> HIDE DEF n, seen
<1> QED BY <1>5, <1>6

\* What a reference denotes, from what the references further down denote.
Body(nodes, f, x) ==
  IF leaf(x) THEN IF x.out = 1 THEN {} ELSE Assignment
  ELSE ite_of(bit(x.sh, TRUE), f[get(nodes, x).h], f[get(nodes, x).l])

LEMMA BodyTyped ==
  ASSUME NEW nodes, NEW f, NEW x,
         ~leaf(x) => f[get(nodes, x).h] \subseteq Assignment /\ f[get(nodes, x).l] \subseteq Assignment
  PROVE  Body(nodes, f, x) \subseteq Assignment
<1>1. CASE leaf(x)
  BY <1>1 DEF Body
<1>2. CASE ~leaf(x)
  BY <1>2 DEF Body, ite_of
<1> QED BY <1>1, <1>2

LEMMA FunctionsExist ==
  ASSUME NEW nodes, PointDown(nodes)
  PROVE  \E f \in [Refs(nodes) -> SUBSET Assignment] : \A x \in Refs(nodes) : f[x] = Body(nodes, f, x)
<1> DEFINE R(n) == { x \in Refs(nodes) : x.id <= n }
           X == { n \in Nat : \E f \in [R(n) -> SUBSET Assignment] :
                                \A x \in R(n) : f[x] = Body(nodes, f, x) }
<1>0. Len(nodes) \in Nat /\ \A x \in Refs(nodes) : x.id \in 1 .. Len(nodes)
  BY DEF Refs, PointDown
<1>1. 0 \in X
  <2>1. R(0) = {}
    BY <1>0
  <2>2. [x \in {} |-> {}] \in [{} -> SUBSET Assignment]
    OBVIOUS
  <2> QED BY <2>1, <2>2
<1>2. ASSUME NEW n \in Nat, n \in X PROVE n + 1 \in X
  <2>1. PICK f \in [R(n) -> SUBSET Assignment] : \A x \in R(n) : f[x] = Body(nodes, f, x)
    BY <1>2
  <2> DEFINE g == [x \in R(n + 1) |-> IF x.id <= n THEN f[x] ELSE Body(nodes, f, x)]
  <2>2. ASSUME NEW x \in R(n + 1), ~leaf(x)
        PROVE  /\ get(nodes, x).h \in R(n) /\ get(nodes, x).l \in R(n)
               /\ get(nodes, x).h \in R(n + 1) /\ get(nodes, x).l \in R(n + 1)
    BY <1>0, <2>2, GetDown
  <2>3. ASSUME NEW x \in R(n + 1) PROVE Body(nodes, g, x) = Body(nodes, f, x)
    <3>1. CASE leaf(x)
      BY <3>1 DEF Body
    <3>2. CASE ~leaf(x)
      <4>1. g[get(nodes, x).h] = f[get(nodes, x).h] /\ g[get(nodes, x).l] = f[get(nodes, x).l]
        BY <2>2, <3>2
      <4> HIDE DEF g
      <4> QED BY <3>2, <4>1 DEF Body
    <3> QED BY <3>1, <3>2
  <2>4. ASSUME NEW x \in R(n + 1)
        PROVE  g[x] = Body(nodes, g, x) /\ g[x] \in SUBSET Assignment
    <3>1. g[x] = Body(nodes, f, x)
      BY <2>1
    <3>2. Body(nodes, f, x) \subseteq Assignment
      BY <2>1, <2>2, BodyTyped
    <3> HIDE DEF g
    <3> QED BY <2>3, <3>1, <3>2
  <2>5. g \in [R(n + 1) -> SUBSET Assignment]
    BY <2>4
  <2>6. \E h \in [R(n + 1) -> SUBSET Assignment] : \A x \in R(n + 1) : h[x] = Body(nodes, h, x)
    <3> HIDE DEF g, R
    <3> QED BY <2>4, <2>5
  <2>7. n + 1 \in Nat
    OBVIOUS
  <2> HIDE DEF g, R
  <2> QED BY <2>6, <2>7
<1>3. Len(nodes) \in X
  <2> HIDE DEF X
  <2> QED BY <1>0, <1>1, <1>2, SetInduction
<1>4. R(Len(nodes)) = Refs(nodes)
  BY <1>0
<1> QED BY <1>3, <1>4

LEMMA MeaningIs ==
  ASSUME NEW nodes, PointDown(nodes)
  PROVE  /\ functions(nodes) \in [Refs(nodes) -> SUBSET Assignment]
         /\ \A x \in Refs(nodes) : meaning(nodes, x) = Body(nodes, functions(nodes), x)
<1>1. PICK f \in [Refs(nodes) -> SUBSET Assignment] : \A x \in Refs(nodes) : f[x] = Body(nodes, f, x)
  BY FunctionsExist
<1>2. f = [x \in Refs(nodes) |-> Body(nodes, f, x)]
  BY <1>1
<1>3. functions(nodes) = CHOOSE m : m = [x \in Refs(nodes) |-> Body(nodes, m, x)]
  BY DEF functions, Body
<1>4. functions(nodes) = [x \in Refs(nodes) |-> Body(nodes, functions(nodes), x)]
  BY <1>2, <1>3
<1> DEFINE X == { n \in Nat : \A x \in Refs(nodes) : x.id <= n => functions(nodes)[x] \subseteq Assignment }
<1>5. Nat \subseteq X
  <2>1. 0 \in X
    BY DEF Refs
  <2>2. ASSUME NEW n \in Nat, n \in X PROVE n + 1 \in X
    <3> SUFFICES ASSUME NEW x \in Refs(nodes), x.id <= n + 1
                 PROVE  functions(nodes)[x] \subseteq Assignment
      OBVIOUS
    <3>1. ~leaf(x) => /\ functions(nodes)[get(nodes, x).h] \subseteq Assignment
                      /\ functions(nodes)[get(nodes, x).l] \subseteq Assignment
      <4> SUFFICES ASSUME ~leaf(x)
                   PROVE  /\ functions(nodes)[get(nodes, x).h] \subseteq Assignment
                          /\ functions(nodes)[get(nodes, x).l] \subseteq Assignment
        OBVIOUS
      <4>1. /\ get(nodes, x).h \in Refs(nodes) /\ get(nodes, x).h.id < x.id
            /\ get(nodes, x).l \in Refs(nodes) /\ get(nodes, x).l.id < x.id
        BY GetDown
      <4>2. get(nodes, x).h.id <= n /\ get(nodes, x).l.id <= n
        BY <4>1 DEF Refs
      <4> QED BY <2>2, <4>1, <4>2
    <3>2. functions(nodes)[x] = Body(nodes, functions(nodes), x)
      BY <1>4
    <3> QED BY <3>1, <3>2, BodyTyped
  <2> HIDE DEF X
  <2> QED BY <2>1, <2>2, SetInduction
<1>6. ASSUME NEW x \in Refs(nodes) PROVE functions(nodes)[x] \subseteq Assignment
  <2>1. x.id \in Nat
    BY DEF Refs, PointDown
  <2> QED BY <1>5, <2>1
<1>7. functions(nodes) \in [Refs(nodes) -> SUBSET Assignment]
  BY <1>4, <1>6
<1> QED BY <1>4, <1>7 DEF meaning

\* The function of a reference, assignment by assignment.
LEMMA MeaningIn ==
  ASSUME NEW nodes, PointDown(nodes), NEW x \in Refs(nodes), NEW s \in Assignment
  PROVE  s \in meaning(nodes, x) <=>
           IF leaf(x) THEN x.out = 0
           ELSE IF x.sh \in s THEN s \in meaning(nodes, get(nodes, x).h)
                ELSE s \in meaning(nodes, get(nodes, x).l)
<1>1. meaning(nodes, x) = Body(nodes, functions(nodes), x)
  BY MeaningIs
<1>2. CASE leaf(x)
  <2>1. x.out \in {0, 1}
    BY DEF Refs
  <2> QED BY <1>1, <1>2, <2>1 DEF Body
<1>3. CASE ~leaf(x)
  <2>1. meaning(nodes, x) = ite_of(bit(x.sh, TRUE), meaning(nodes, get(nodes, x).h),
                                                   meaning(nodes, get(nodes, x).l))
    BY <1>1, <1>3 DEF Body, meaning
  <2>2. s \in bit(x.sh, TRUE) <=> x.sh \in s
    BY DEF bit
  <2> QED BY <1>3, <2>1, <2>2 DEF ite_of
<1> QED BY <1>2, <1>3

LEMMA MeaningTyped ==
  ASSUME NEW nodes, PointDown(nodes), NEW x \in Refs(nodes)
  PROVE  meaning(nodes, x) \subseteq Assignment
BY MeaningIs DEF meaning

\* The inverter on the output is the complement.
LEMMA Complement ==
  ASSUME NEW nodes, PointDown(nodes), NEW x \in Refs(nodes)
  PROVE  flip(x) \in Refs(nodes) /\ meaning(nodes, flip(x)) = Assignment \ meaning(nodes, x)
<1> DEFINE N == Len(nodes)
           X == { n \in Nat : \A y \in Refs(nodes), s \in Assignment :
                    y.id <= n => (s \in meaning(nodes, flip(y)) <=> s \notin meaning(nodes, y)) }
<1>0. Refs(nodes) \subseteq Ref /\ N \in Nat
  BY RefsAreRef DEF PointDown
<1>1. ASSUME NEW y \in Refs(nodes) PROVE flip(y) \in Refs(nodes)
  BY <1>0, FlipIs DEF Refs, Ref
<1>2. 0 \in X
  BY DEF Refs
<1>3. ASSUME NEW n \in Nat, n \in X PROVE n + 1 \in X
  <2> SUFFICES ASSUME NEW y \in Refs(nodes), NEW s \in Assignment, y.id <= n + 1
               PROVE  s \in meaning(nodes, flip(y)) <=> s \notin meaning(nodes, y)
    OBVIOUS
  <2> DEFINE z == flip(y)
             a == get(nodes, y)
             b == get(nodes, z)
  <2>1. z \in Refs(nodes) /\ z.id = y.id /\ z.sh = y.sh /\ z.inp = y.inp /\ z.out = 1 - y.out
    BY <1>0, <1>1, FlipIs
  <2>2. CASE leaf(y)
    <3>1. leaf(z) /\ y.out \in {0, 1}
      BY <2>1, <2>2 DEF leaf, Refs
    <3>2. s \in meaning(nodes, z) <=> z.out = 0
      BY <2>1, <3>1, MeaningIn
    <3>3. s \in meaning(nodes, y) <=> y.out = 0
      BY <2>2, MeaningIn
    <3> QED BY <2>1, <3>1, <3>2, <3>3
  <2>3. CASE ~leaf(y)
    <3>1. ~leaf(z)
      BY <2>1, <2>3 DEF leaf
    <3>2. /\ a.h \in Refs(nodes) /\ a.h.id < y.id /\ a.l \in Refs(nodes) /\ a.l.id < y.id
      BY <2>3, GetDown
    <3>3. a.h.id <= n /\ a.l.id <= n
      BY <3>2 DEF Refs
    <3>4. b.h = flip(a.h) /\ b.l = flip(a.l)
      <4>0. y.id \in 1 .. Len(nodes) /\ nodes \in Seq(Node)
        BY DEF PointDown, Refs
      <4>1. nodes[y.id].h \in Ref /\ nodes[y.id].l \in Ref /\ y.sh \in Nat /\ y.out \in {0, 1}
        <5>1. nodes[y.id] \in Node
          BY <4>0
        <5> QED BY <5>1 DEF Node, Refs
      <4>2. /\ plus_shift(nodes[y.id].h, y.sh) \in Ref
            /\ plus_shift(nodes[y.id].l, y.sh) \in Ref
        BY <4>1, ShiftIs
      <4>3. /\ flip(flip(plus_shift(nodes[y.id].h, y.sh))) = plus_shift(nodes[y.id].h, y.sh)
            /\ flip(flip(plus_shift(nodes[y.id].l, y.sh))) = plus_shift(nodes[y.id].l, y.sh)
        BY <4>2, FlipFlip
      <4> QED BY <2>1, <4>1, <4>3 DEF get
    <3>5. /\ s \in meaning(nodes, b.h) <=> s \notin meaning(nodes, a.h)
          /\ s \in meaning(nodes, b.l) <=> s \notin meaning(nodes, a.l)
      BY <1>3, <3>2, <3>3, <3>4
    <3>6. s \in meaning(nodes, z) <=> IF z.sh \in s THEN s \in meaning(nodes, b.h)
                                      ELSE s \in meaning(nodes, b.l)
      BY <2>1, <3>1, MeaningIn
    <3>7. s \in meaning(nodes, y) <=> IF y.sh \in s THEN s \in meaning(nodes, a.h)
                                      ELSE s \in meaning(nodes, a.l)
      BY <2>3, MeaningIn
    <3> HIDE DEF a, b, z
    <3>8. s \in meaning(nodes, z) <=> s \notin meaning(nodes, y)
      BY <2>1, <3>5, <3>6, <3>7
    <3> QED BY <3>8 DEF z
  <2> QED BY <2>2, <2>3
<1>4. x.id \in X
  <2>1. x.id \in Nat
    BY DEF Refs, PointDown
  <2> HIDE DEF X
  <2> QED BY <1>2, <1>3, <2>1, SetInduction
<1>5. \A s \in Assignment : s \in meaning(nodes, flip(x)) <=> s \notin meaning(nodes, x)
  <2>1. x.id <= x.id
    BY DEF Refs, PointDown
  <2> QED BY <1>4, <2>1
<1>6. flip(x) \in Refs(nodes) /\ meaning(nodes, flip(x)) \subseteq Assignment
  BY <1>1, MeaningTyped
<1> QED BY <1>5, <1>6

----------------------------------------------------------------------------
(* Nodes and references in normal form. *)

Proper(nodes, x) ==
  /\ x \in Refs(nodes)
  /\ IF leaf(x) THEN x.sh = 0 /\ x.inp = 0
     ELSE x.sh > 0 /\ (x.inp = 1 => nodes[x.id].h.out = 0)

NormalNode(nodes, n) ==
  /\ Proper(nodes, n.h) /\ Proper(nodes, n.l)
  /\ bdd_lt(n.h, n.l) /\ n.l.out = 0

Normal(nodes) ==
  /\ PointDown(nodes)
  /\ nodes[1] = [h |-> T, l |-> T]
  /\ \A i \in 2 .. Len(nodes) : NormalNode(nodes, nodes[i])
  /\ \A i, j \in 2 .. Len(nodes) : nodes[i] = nodes[j] => i = j

\* depth[i]: the last variable under node i, where a reference has no shift
Measures(nodes, depth) ==
  /\ depth \in [1 .. Len(nodes) -> Nat] /\ depth[1] = 0
  /\ \A i \in 2 .. Len(nodes) :
       LET n == nodes[i]
           a == n.h.sh + depth[n.h.id]
           b == n.l.sh + depth[n.l.id]
       IN  depth[i] \in {a, b} /\ a <= depth[i] /\ b <= depth[i]

\* the last variable of a reference
last_var(depth, x) == x.sh + depth[x.id]

LEMMA NodeParts ==
  ASSUME NEW nodes, PointDown(nodes), NEW i \in 1 .. Len(nodes)
  PROVE  nodes[i] \in Node /\ nodes[i].h \in Ref /\ nodes[i].l \in Ref
<1>1. nodes[i] \in Node
  BY DEF PointDown
<1> QED BY <1>1 DEF Node

\* A reference as it is seen through another: its variables are counted from
\* the other's, and it is inverted when the other is.
seen_through(x, r) == IF x.out = 1 THEN flip(plus_shift(r, x.sh)) ELSE plus_shift(r, x.sh)

LEMMA SeenIs ==
  ASSUME NEW x \in Ref, NEW r \in Ref
  PROVE  LET y == seen_through(x, r) IN
         /\ y \in Ref /\ y.id = r.id /\ y.inp = r.inp
         /\ y.out = IF x.out = 1 THEN 1 - r.out ELSE r.out
         /\ y.sh = IF leaf(r) THEN r.sh ELSE r.sh + x.sh
<1> DEFINE y == plus_shift(r, x.sh)
<1>1. /\ y \in Ref /\ y.id = r.id /\ y.inp = r.inp /\ y.out = r.out
      /\ y.sh = IF leaf(r) THEN r.sh ELSE r.sh + x.sh
  <2>1. x.sh \in Nat
    BY DEF Ref
  <2> QED BY <2>1, ShiftIs
<1>2. /\ flip(y) \in Ref /\ flip(y).id = r.id /\ flip(y).inp = r.inp /\ flip(y).out = 1 - r.out
      /\ flip(y).sh = y.sh
  BY <1>1, FlipIs
<1>3. seen_through(x, r) = IF x.out = 1 THEN flip(y) ELSE y
  BY DEF seen_through
<1> HIDE DEF y
<1> QED BY <1>1, <1>2, <1>3

LEMMA SeenDiffer ==
  ASSUME NEW x \in Ref, NEW r \in Ref, NEW t \in Ref, seen_through(x, r) = seen_through(x, t)
  PROVE  r = t
<1> DEFINE y == seen_through(x, r)
           z == seen_through(x, t)
<1>1. /\ y.id = r.id /\ y.inp = r.inp
      /\ y.out = IF x.out = 1 THEN 1 - r.out ELSE r.out
      /\ y.sh = IF leaf(r) THEN r.sh ELSE r.sh + x.sh
  BY SeenIs
<1>2. /\ z.id = t.id /\ z.inp = t.inp
      /\ z.out = IF x.out = 1 THEN 1 - t.out ELSE t.out
      /\ z.sh = IF leaf(t) THEN t.sh ELSE t.sh + x.sh
  BY SeenIs
<1>3. y = z
  OBVIOUS
<1>4. r.id = t.id /\ r.inp = t.inp /\ r.out = t.out /\ r.sh = t.sh
  <2> HIDE DEF y, z
  <2> QED BY <1>1, <1>2, <1>3 DEF Ref, leaf
<1> QED BY <1>4, RefEq

\* What the branches are, by the input inverter.
LEMMA GetIs ==
  ASSUME NEW nodes, NEW x
  PROVE  /\ get(nodes, x).h = seen_through(x, IF x.inp = 1 THEN nodes[x.id].l ELSE nodes[x.id].h)
         /\ get(nodes, x).l = seen_through(x, IF x.inp = 1 THEN nodes[x.id].h ELSE nodes[x.id].l)
BY DEF get, seen_through

\* It keeps its form, below the other's variable.
LEMMA SeenProper ==
  ASSUME NEW nodes, PointDown(nodes), NEW depth, Measures(nodes, depth),
         NEW x \in Ref, NEW r, Proper(nodes, r)
  PROVE  LET y == seen_through(x, r) IN
         /\ Proper(nodes, y) /\ y.id = r.id
         /\ (x.out = 1 => y.out = 1 - r.out) /\ (x.out = 0 => y.out = r.out)
         /\ last_var(depth, r) \in Nat /\ last_var(depth, y) \in Nat
         /\ IF leaf(r) THEN leaf(y) /\ last_var(depth, r) = 0 /\ last_var(depth, y) = 0
            ELSE /\ ~leaf(y) /\ y.sh = r.sh + x.sh /\ r.sh > 0
                 /\ last_var(depth, y) = last_var(depth, r) + x.sh
<1> DEFINE y == seen_through(x, r)
<1>1. /\ r \in Ref /\ r \in Refs(nodes) /\ Len(nodes) \in Nat /\ r.id \in 1 .. Len(nodes)
      /\ r.sh \in Nat /\ depth[1] = 0 /\ x.sh \in Nat
  BY RefsAreRef DEF Proper, Refs, PointDown, Measures, Ref
<1>2. depth[r.id] \in Nat
  BY <1>1 DEF Measures
<1>3. /\ y \in Ref /\ y.id = r.id /\ y.inp = r.inp
      /\ y.out = IF x.out = 1 THEN 1 - r.out ELSE r.out
      /\ y.sh = IF leaf(r) THEN r.sh ELSE r.sh + x.sh
  BY <1>1, SeenIs
<1> HIDE DEF y
<1>4. y \in Refs(nodes)
  BY <1>1, <1>3 DEF Ref, Refs
<1>5. Proper(nodes, y)
  BY <1>1, <1>3, <1>4 DEF Proper, leaf
<1>6. CASE leaf(r)
  <2>1. leaf(y) /\ r.sh = 0 /\ y.sh = 0 /\ y.id = 1 /\ r.id = 1
    BY <1>3, <1>6 DEF leaf, Proper
  <2>2. last_var(depth, r) = 0 /\ last_var(depth, y) = 0
    BY <1>1, <2>1 DEF last_var
  <2> QED BY <1>3, <1>5, <1>6, <2>1, <2>2 DEF y
<1>7. CASE ~leaf(r)
  <2>1. ~leaf(y) /\ r.sh > 0
    BY <1>3, <1>7 DEF leaf, Proper
  <2>2. /\ last_var(depth, r) \in Nat /\ last_var(depth, y) \in Nat
        /\ last_var(depth, y) = last_var(depth, r) + x.sh
    BY <1>1, <1>2, <1>3, <1>7 DEF last_var
  <2> QED BY <1>3, <1>5, <1>7, <2>1, <2>2 DEF y
<1> QED BY <1>6, <1>7

\* The branches of a reference in normal form are different, in normal form,
\* on later variables, and one of them says whether the output is inverted.
LEMMA GetProper ==
  ASSUME NEW nodes, Normal(nodes), NEW depth, Measures(nodes, depth),
         NEW x, Proper(nodes, x), ~leaf(x)
  PROVE  LET h == get(nodes, x).h
             l == get(nodes, x).l
         IN  /\ Proper(nodes, h) /\ h.id < x.id /\ (leaf(h) \/ h.sh > x.sh)
             /\ Proper(nodes, l) /\ l.id < x.id /\ (leaf(l) \/ l.sh > x.sh)
             /\ h # l /\ l.out = x.out
             /\ last_var(depth, h) <= last_var(depth, x) /\ last_var(depth, l) <= last_var(depth, x)
             /\ last_var(depth, x) \in {x.sh, last_var(depth, h), last_var(depth, l)}
<1> DEFINE n == nodes[x.id]
           a == IF x.inp = 1 THEN n.l ELSE n.h
           b == IF x.inp = 1 THEN n.h ELSE n.l
           h == seen_through(x, a)
           l == seen_through(x, b)
<1>1. /\ PointDown(nodes) /\ x \in Refs(nodes) /\ x.id \in 2 .. Len(nodes) /\ x.sh \in Nat
      /\ x.out \in {0, 1} /\ x.inp \in {0, 1} /\ x.id \in Nat /\ x \in Ref
  BY RefsAreRef DEF Proper, Refs, leaf, Normal, PointDown
<1>2. /\ NormalNode(nodes, n) /\ n.h.id < x.id /\ n.l.id < x.id /\ n.h \in Ref /\ n.l \in Ref
      /\ x.inp = 1 => n.h.out = 0
  BY <1>1, NodeParts DEF Normal, PointDown, Proper
<1>3. n.h # n.l
  BY <1>2 DEF NormalNode, bdd_lt, Ref
<1>4. /\ depth[x.id] \in {n.h.sh + depth[n.h.id], n.l.sh + depth[n.l.id]}
      /\ n.h.sh + depth[n.h.id] <= depth[x.id] /\ n.l.sh + depth[n.l.id] <= depth[x.id]
      /\ depth[x.id] \in Nat
  BY <1>1 DEF Measures
<1>5. /\ Proper(nodes, a) /\ Proper(nodes, b) /\ a.id < x.id /\ b.id < x.id /\ a # b /\ b.out = 0
      /\ a \in Ref /\ b \in Ref
  <2> HIDE DEF n
  <2> QED BY <1>1, <1>2, <1>3 DEF NormalNode
<1>6. /\ depth[x.id] \in {last_var(depth, a), last_var(depth, b)}
      /\ last_var(depth, a) <= depth[x.id] /\ last_var(depth, b) <= depth[x.id]
  <2> HIDE DEF n
  <2> QED BY <1>1, <1>4 DEF last_var
<1>7. last_var(depth, x) = x.sh + depth[x.id]
  BY DEF last_var
<1> HIDE DEF n, a, b
<1>8. /\ Proper(nodes, h) /\ h.id = a.id
      /\ last_var(depth, a) \in Nat /\ last_var(depth, h) \in Nat
      /\ IF leaf(a) THEN leaf(h) /\ last_var(depth, a) = 0 /\ last_var(depth, h) = 0
         ELSE /\ ~leaf(h) /\ h.sh = a.sh + x.sh /\ a.sh > 0
              /\ last_var(depth, h) = last_var(depth, a) + x.sh
  <2>1. Proper(nodes, a) /\ PointDown(nodes) /\ x \in Ref
    BY <1>1, <1>5
  <2> QED BY <2>1, SeenProper
<1>9. /\ Proper(nodes, l) /\ l.id = b.id
      /\ (x.out = 1 => l.out = 1 - b.out) /\ (x.out = 0 => l.out = b.out)
      /\ last_var(depth, b) \in Nat /\ last_var(depth, l) \in Nat
      /\ IF leaf(b) THEN leaf(l) /\ last_var(depth, b) = 0 /\ last_var(depth, l) = 0
         ELSE /\ ~leaf(l) /\ l.sh = b.sh + x.sh /\ b.sh > 0
              /\ last_var(depth, l) = last_var(depth, b) + x.sh
  <2>1. Proper(nodes, b) /\ PointDown(nodes) /\ x \in Ref
    BY <1>1, <1>5
  <2> QED BY <2>1, SeenProper
<1>10. h # l
  BY <1>1, <1>5, SeenDiffer
<1>11. a.sh \in Nat /\ b.sh \in Nat
  BY <1>5 DEF Ref
<1> HIDE DEF h, l
<1>12. /\ Proper(nodes, h) /\ h.id < x.id /\ (leaf(h) \/ h.sh > x.sh)
       /\ Proper(nodes, l) /\ l.id < x.id /\ (leaf(l) \/ l.sh > x.sh)
       /\ h # l /\ l.out = x.out
  BY <1>1, <1>5, <1>8, <1>9, <1>10, <1>11
<1>13. /\ last_var(depth, h) <= last_var(depth, x) /\ last_var(depth, l) <= last_var(depth, x)
       /\ last_var(depth, x) \in {x.sh, last_var(depth, h), last_var(depth, l)}
  <2> DEFINE D == depth[x.id]
             A == last_var(depth, a)
             B == last_var(depth, b)
  <2>1. D \in Nat /\ A \in Nat /\ B \in Nat /\ A <= D /\ B <= D /\ (D = A \/ D = B)
    BY <1>4, <1>6, <1>8, <1>9
  <2>2. last_var(depth, h) = IF leaf(a) THEN 0 ELSE A + x.sh
    BY <1>8
  <2>3. last_var(depth, l) = IF leaf(b) THEN 0 ELSE B + x.sh
    BY <1>9
  <2>4. (leaf(a) => A = 0) /\ (leaf(b) => B = 0)
    BY <1>8, <1>9
  <2>5. last_var(depth, x) = x.sh + D /\ x.sh \in Nat
    BY <1>1, <1>7
  <2> HIDE DEF A, B, D
  <2>6. last_var(depth, h) <= last_var(depth, x) /\ last_var(depth, l) <= last_var(depth, x)
    BY <2>1, <2>2, <2>3, <2>4, <2>5
  <2>7. \/ last_var(depth, x) = x.sh \/ last_var(depth, x) = last_var(depth, h)
        \/ last_var(depth, x) = last_var(depth, l)
    BY <2>1, <2>2, <2>3, <2>4, <2>5
  <2> QED BY <2>6, <2>7
<1>14. get(nodes, x).h = h /\ get(nodes, x).l = l
  BY <1>1, GetIs DEF h, l, a, b, n
<1> QED BY <1>12, <1>13, <1>14

\* A reference in normal form is told by its variable and its branches.
LEMMA GetSame ==
  ASSUME NEW nodes, Normal(nodes), NEW depth, Measures(nodes, depth),
         NEW x, Proper(nodes, x), ~leaf(x), NEW y, Proper(nodes, y), ~leaf(y),
         x.sh = y.sh, get(nodes, x).h = get(nodes, y).h, get(nodes, x).l = get(nodes, y).l
  PROVE  x = y
<1> DEFINE n == nodes[x.id]
           m == nodes[y.id]
           a == IF x.inp = 1 THEN n.l ELSE n.h
           b == IF x.inp = 1 THEN n.h ELSE n.l
           c == IF y.inp = 1 THEN m.l ELSE m.h
           d == IF y.inp = 1 THEN m.h ELSE m.l
<1>1. /\ PointDown(nodes) /\ x.id \in 2 .. Len(nodes) /\ y.id \in 2 .. Len(nodes)
      /\ x \in Ref /\ y \in Ref
  BY RefsAreRef DEF Proper, Refs, leaf, Normal, PointDown
<1>2. x.out = y.out
  BY GetProper
<1>3. /\ NormalNode(nodes, n) /\ n \in Node /\ n.h \in Ref /\ n.l \in Ref
      /\ NormalNode(nodes, m) /\ m \in Node /\ m.h \in Ref /\ m.l \in Ref
  BY <1>1, NodeParts DEF Normal
<1>4. a = c /\ b = d
  <2>1. seen_through(x, c) = seen_through(y, c) /\ seen_through(x, d) = seen_through(y, d)
    BY <1>2 DEF seen_through
  <2>2. seen_through(x, a) = seen_through(x, c) /\ seen_through(x, b) = seen_through(x, d)
    BY <2>1, GetIs
  <2>3. a \in Ref /\ b \in Ref /\ c \in Ref /\ d \in Ref
    BY <1>3
  <2> HIDE DEF a, b, c, d
  <2> QED BY <1>1, <2>2, <2>3, SeenDiffer
<1>5. x.inp = y.inp
  <2>1. bdd_lt(n.h, n.l) /\ bdd_lt(m.h, m.l)
    BY <1>3 DEF NormalNode
  <2>2. ASSUME n.h = m.l, n.l = m.h PROVE FALSE
    <3>1. bdd_lt(n.h, n.l) /\ bdd_lt(n.l, n.h)
      BY <2>1, <2>2
    <3> HIDE DEF n
    <3> QED BY <1>3, <3>1 DEF bdd_lt, Ref
  <2>3. x.inp \in {0, 1} /\ y.inp \in {0, 1}
    BY <1>1 DEF Ref
  <2> HIDE DEF n, m
  <2> QED BY <1>4, <2>2, <2>3
<1>6. n = m
  <2>1. n = [h |-> n.h, l |-> n.l] /\ m = [h |-> m.h, l |-> m.l]
    <3> HIDE DEF n, m
    <3> QED BY <1>3 DEF Node
  <2>2. n.h = m.h /\ n.l = m.l
    <3> HIDE DEF n, m
    <3> QED BY <1>4, <1>5
  <2> HIDE DEF n, m
  <2> QED BY <2>1, <2>2
<1>7. x.id = y.id
  BY <1>1, <1>6 DEF Normal
<1> QED BY <1>1, <1>2, <1>5, <1>7, RefEq

\* A function does not depend on a variable before or after the reference's.
LEMMA Untouched ==
  ASSUME NEW nodes, Normal(nodes), NEW depth, Measures(nodes, depth),
         NEW x, Proper(nodes, x), NEW v \in Nat, leaf(x) \/ v < x.sh \/ v > last_var(depth, x),
         NEW s \in Assignment, NEW t \in Assignment, s \ {v} = t \ {v}
  PROVE  s \in meaning(nodes, x) <=> t \in meaning(nodes, x)
<1> DEFINE same(y) == s \in meaning(nodes, y) <=> t \in meaning(nodes, y)
           X == { n \in Nat : \A y \in Refs(nodes) :
                    Proper(nodes, y) /\ (leaf(y) \/ v < y.sh \/ v > last_var(depth, y)) /\ y.id <= n
                      => same(y) }
<1>0. PointDown(nodes)
  BY DEF Normal
<1>1. 0 \in X
  BY DEF Refs
<1>2. ASSUME NEW n \in Nat, n \in X PROVE n + 1 \in X
  <2> SUFFICES ASSUME NEW y \in Refs(nodes), Proper(nodes, y), y.id <= n + 1,
                      leaf(y) \/ v < y.sh \/ v > last_var(depth, y)
               PROVE  same(y)
    OBVIOUS
  <2>1. CASE leaf(y)
    BY <1>0, <2>1, MeaningIn
  <2>2. CASE ~leaf(y)
    <3> DEFINE h == get(nodes, y).h
               l == get(nodes, y).l
    <3>1. /\ Proper(nodes, h) /\ h.id < y.id /\ (leaf(h) \/ h.sh > y.sh)
          /\ Proper(nodes, l) /\ l.id < y.id /\ (leaf(l) \/ l.sh > y.sh)
          /\ last_var(depth, h) <= last_var(depth, y) /\ last_var(depth, l) <= last_var(depth, y)
      BY <2>2, GetProper
    <3>2. y.sh \in Nat /\ y.id \in Nat /\ depth[y.id] \in Nat /\ last_var(depth, y) = y.sh + depth[y.id]
      BY DEF Refs, Measures, last_var
    <3>3. ASSUME NEW z, Proper(nodes, z) PROVE z \in Refs(nodes) /\ z.id \in Nat /\ z.sh \in Nat /\ last_var(depth, z) \in Nat
      <4>1. z \in Refs(nodes)
        BY <3>3 DEF Proper
      <4>2. z.id \in 1 .. Len(nodes) /\ z.sh \in Nat
        BY <4>1 DEF Refs
      <4> QED BY <4>1, <4>2 DEF Measures, last_var
    <3> HIDE DEF h, l
    <3>4. same(h) /\ same(l)
      <4>1. h.id <= n /\ l.id <= n
        BY <3>1, <3>2, <3>3
      <4>2. leaf(h) \/ v < h.sh \/ v > last_var(depth, h)
        BY <2>2, <3>1, <3>2, <3>3
      <4>3. leaf(l) \/ v < l.sh \/ v > last_var(depth, l)
        BY <2>2, <3>1, <3>2, <3>3
      <4> QED BY <1>2, <3>1, <3>3, <4>1, <4>2, <4>3
    <3>5. y.sh \in s <=> y.sh \in t
      <4>1. y.sh # v
        BY <2>2, <3>2
      <4> QED BY <4>1
    <3>6. /\ s \in meaning(nodes, y) <=> IF y.sh \in s THEN s \in meaning(nodes, h) ELSE s \in meaning(nodes, l)
          /\ t \in meaning(nodes, y) <=> IF y.sh \in t THEN t \in meaning(nodes, h) ELSE t \in meaning(nodes, l)
      BY <1>0, <2>2, MeaningIn DEF h, l
    <3> QED BY <3>4, <3>5, <3>6
  <2> QED BY <2>1, <2>2
<1>3. x \in Refs(nodes) /\ x.id \in Nat /\ x.id <= x.id
  BY <1>0 DEF Proper, Refs, PointDown
<1>4. x.id \in X
  <2> HIDE DEF X
  <2> QED BY <1>1, <1>2, <1>3, SetInduction
<1> QED BY <1>3, <1>4

\* Up to node n, references that denote the same function are the same.
OneEach(nodes, depth, n) ==
  \A x, y \in Refs(nodes) :
    /\ Proper(nodes, x) /\ Proper(nodes, y) /\ x.id <= n /\ y.id <= n
    /\ last_var(depth, x) <= NVars /\ last_var(depth, y) <= NVars
    /\ \A s \in Assignment : s \in meaning(nodes, x) <=> s \in meaning(nodes, y)
    => x = y

\* Types of the parts of a reference in normal form.
LEMMA ProperParts ==
  ASSUME NEW nodes, PointDown(nodes), NEW depth, Measures(nodes, depth), NEW x, Proper(nodes, x)
  PROVE  /\ x \in Refs(nodes) /\ x \in Ref /\ x.id \in 1 .. Len(nodes) /\ x.id \in Nat /\ x.sh \in Nat
         /\ last_var(depth, x) \in Nat /\ x.sh <= last_var(depth, x)
         /\ ~leaf(x) => x.sh > 0
         /\ leaf(x) => x.sh = 0 /\ last_var(depth, x) = 0
<1>1. x \in Refs(nodes) /\ Len(nodes) \in Nat
  BY DEF Proper, PointDown
<1>2. x.id \in 1 .. Len(nodes) /\ x.sh \in Nat /\ x.id \in Nat /\ x \in Ref
  BY <1>1, RefsAreRef DEF Refs
<1>3. depth[x.id] \in Nat /\ depth[1] = 0
  BY <1>2 DEF Measures
<1>4. ~leaf(x) => x.sh > 0
  BY DEF Proper
<1>5. leaf(x) => x.sh = 0 /\ x.id = 1
  BY DEF Proper, leaf
<1> QED BY <1>1, <1>2, <1>3, <1>4, <1>5 DEF last_var

\* The branches of a reference are what its function is where its variable is
\* true and where it is false.
LEMMA Branches ==
  ASSUME NEW nodes, Normal(nodes), NEW depth, Measures(nodes, depth),
         NEW x, Proper(nodes, x), ~leaf(x), last_var(depth, x) <= NVars, NEW s \in Assignment
  PROVE  /\ s \cup {x.sh} \in Assignment /\ s \ {x.sh} \in Assignment
         /\ s \in meaning(nodes, get(nodes, x).h) <=> s \cup {x.sh} \in meaning(nodes, x)
         /\ s \in meaning(nodes, get(nodes, x).l) <=> s \ {x.sh} \in meaning(nodes, x)
<1> DEFINE h == get(nodes, x).h
           l == get(nodes, x).l
           v == x.sh
           s1 == s \cup {v}
           s0 == s \ {v}
<1>0. PointDown(nodes)
  BY DEF Normal
<1>1. v \in 1 .. NVars /\ x \in Refs(nodes) /\ v \in Nat
  BY <1>0, ProperParts, BddRefsAssumption
<1>2. s1 \in Assignment /\ s0 \in Assignment
  BY <1>1 DEF Assignment
<1>3. /\ Proper(nodes, h) /\ (leaf(h) \/ h.sh > v)
      /\ Proper(nodes, l) /\ (leaf(l) \/ l.sh > v)
  BY GetProper
<1>4. h.sh \in Nat /\ l.sh \in Nat
  BY <1>0, <1>3, ProperParts
<1>5. s \in meaning(nodes, h) <=> s1 \in meaning(nodes, h)
  <2>1. s \ {v} = s1 \ {v}
    OBVIOUS
  <2>2. leaf(h) \/ v < h.sh
    BY <1>1, <1>3, <1>4
  <2> HIDE DEF h, v, s1
  <2> QED BY <1>1, <1>2, <1>3, <2>1, <2>2, Untouched
<1>6. s \in meaning(nodes, l) <=> s0 \in meaning(nodes, l)
  <2>1. s \ {v} = s0 \ {v}
    OBVIOUS
  <2>2. leaf(l) \/ v < l.sh
    BY <1>1, <1>3, <1>4
  <2> HIDE DEF l, v, s0
  <2> QED BY <1>1, <1>2, <1>3, <2>1, <2>2, Untouched
<1>7. s1 \in meaning(nodes, x) <=> s1 \in meaning(nodes, h)
  BY <1>0, <1>1, <1>2, MeaningIn
<1>8. s0 \in meaning(nodes, x) <=> s0 \in meaning(nodes, l)
  BY <1>0, <1>1, <1>2, MeaningIn
<1> QED BY <1>2, <1>5, <1>6, <1>7, <1>8

\* A function depends on its reference's variable.
LEMMA DependsOnTop ==
  ASSUME NEW nodes, Normal(nodes), NEW depth, Measures(nodes, depth), NEW n \in Nat,
         OneEach(nodes, depth, n),
         NEW x, Proper(nodes, x), ~leaf(x), last_var(depth, x) <= NVars, x.id <= n + 1
  PROVE  \E s \in Assignment : ~ (s \cup {x.sh} \in meaning(nodes, x) <=> s \ {x.sh} \in meaning(nodes, x))
<1> DEFINE h == get(nodes, x).h
           l == get(nodes, x).l
<1>0. PointDown(nodes)
  BY DEF Normal
<1>1. /\ Proper(nodes, h) /\ h.id < x.id /\ Proper(nodes, l) /\ l.id < x.id /\ h # l
      /\ last_var(depth, h) <= last_var(depth, x) /\ last_var(depth, l) <= last_var(depth, x)
  BY GetProper
<1>2. /\ h \in Refs(nodes) /\ h.id \in Nat /\ last_var(depth, h) \in Nat
      /\ l \in Refs(nodes) /\ l.id \in Nat /\ last_var(depth, l) \in Nat
      /\ x.id \in Nat /\ last_var(depth, x) \in Nat
  BY <1>0, <1>1, ProperParts
<1>3. \E s \in Assignment : ~ (s \in meaning(nodes, h) <=> s \in meaning(nodes, l))
  <2> HIDE DEF h, l
  <2>1. h.id <= n /\ l.id <= n /\ last_var(depth, h) <= NVars /\ last_var(depth, l) <= NVars
    BY <1>1, <1>2, BddRefsAssumption
  <2> QED BY <1>1, <1>2, <2>1 DEF OneEach
<1> QED BY <1>3, Branches

\* References in normal form that denote the same function are the same.
LEMMA AllOneEach ==
  ASSUME NEW nodes, Normal(nodes), NEW depth, Measures(nodes, depth), NEW n \in Nat
  PROVE  OneEach(nodes, depth, n)
<1> DEFINE X == { k \in Nat : OneEach(nodes, depth, k) }
<1>0. PointDown(nodes)
  BY DEF Normal
<1>1. 0 \in X
  BY DEF OneEach, Refs
<1>2. ASSUME NEW k \in Nat, k \in X PROVE k + 1 \in X
  <2>0. OneEach(nodes, depth, k)
    BY <1>2
  <2> SUFFICES ASSUME NEW x \in Refs(nodes), NEW y \in Refs(nodes),
                      Proper(nodes, x), Proper(nodes, y), x.id <= k + 1, y.id <= k + 1,
                      last_var(depth, x) <= NVars, last_var(depth, y) <= NVars,
                      \A s \in Assignment : s \in meaning(nodes, x) <=> s \in meaning(nodes, y)
               PROVE  x = y
    BY DEF OneEach
  <2>1. /\ x.sh \in Nat /\ y.sh \in Nat /\ x \in Ref /\ y \in Ref
        /\ last_var(depth, x) \in Nat /\ last_var(depth, y) \in Nat
        /\ ~leaf(x) => x.sh \in 1 .. NVars
        /\ ~leaf(y) => y.sh \in 1 .. NVars
    BY <1>0, ProperParts, BddRefsAssumption
  <2>2. ASSUME NEW a \in {x, y}, NEW b \in {x, y}, ~leaf(a), leaf(b) \/ a.sh < b.sh PROVE FALSE
    <3>1. PICK s \in Assignment : ~ (s \cup {a.sh} \in meaning(nodes, a) <=> s \ {a.sh} \in meaning(nodes, a))
      BY <2>0, <2>2, DependsOnTop
    <3>2. s \cup {a.sh} \in Assignment /\ s \ {a.sh} \in Assignment
      BY <2>1, <2>2 DEF Assignment
    <3>3. s \cup {a.sh} \in meaning(nodes, b) <=> s \ {a.sh} \in meaning(nodes, b)
      <4>1. (s \cup {a.sh}) \ {a.sh} = (s \ {a.sh}) \ {a.sh}
        OBVIOUS
      <4>2. a.sh \in Nat /\ Proper(nodes, b)
        BY <2>1
      <4> QED BY <2>2, <3>2, <4>1, <4>2, Untouched
    <3> QED BY <3>1, <3>2, <3>3
  <2>3. CASE leaf(x) /\ leaf(y)
    <3>1. {} \in Assignment
      BY DEF Assignment
    <3>2. x.out = 0 <=> y.out = 0
      BY <1>0, <2>3, <3>1, MeaningIn
    <3>3. x.id = y.id /\ x.sh = y.sh /\ x.inp = y.inp
      BY <2>3 DEF leaf, Proper
    <3>4. x.out = y.out
      BY <3>2 DEF Refs
    <3> QED BY <2>1, <3>3, <3>4, RefEq
  <2>4. CASE ~leaf(x) /\ ~leaf(y)
    <3>1. x.sh = y.sh
      BY <2>1, <2>2, <2>4
    <3>2. ASSUME NEW s \in Assignment
          PROVE  /\ s \in meaning(nodes, get(nodes, x).h) <=> s \in meaning(nodes, get(nodes, y).h)
                 /\ s \in meaning(nodes, get(nodes, x).l) <=> s \in meaning(nodes, get(nodes, y).l)
      <4>1. /\ s \cup {x.sh} \in Assignment /\ s \ {x.sh} \in Assignment
            /\ s \in meaning(nodes, get(nodes, x).h) <=> s \cup {x.sh} \in meaning(nodes, x)
            /\ s \in meaning(nodes, get(nodes, x).l) <=> s \ {x.sh} \in meaning(nodes, x)
        BY <2>4, Branches
      <4>2. /\ s \in meaning(nodes, get(nodes, y).h) <=> s \cup {x.sh} \in meaning(nodes, y)
            /\ s \in meaning(nodes, get(nodes, y).l) <=> s \ {x.sh} \in meaning(nodes, y)
        BY <2>4, <3>1, Branches
      <4> QED BY <4>1, <4>2
    <3>3. ASSUME NEW a \in {x, y}
          PROVE  /\ get(nodes, a).h \in Refs(nodes) /\ Proper(nodes, get(nodes, a).h)
                 /\ get(nodes, a).l \in Refs(nodes) /\ Proper(nodes, get(nodes, a).l)
                 /\ get(nodes, a).h.id <= k /\ get(nodes, a).l.id <= k
                 /\ last_var(depth, get(nodes, a).h) <= NVars /\ last_var(depth, get(nodes, a).l) <= NVars
      <4> DEFINE h == get(nodes, a).h
                 l == get(nodes, a).l
      <4>1. /\ Proper(nodes, h) /\ h.id < a.id /\ Proper(nodes, l) /\ l.id < a.id
            /\ last_var(depth, h) <= last_var(depth, a) /\ last_var(depth, l) <= last_var(depth, a)
        BY <2>4, GetProper
      <4>2. /\ h \in Refs(nodes) /\ h.id \in Nat /\ last_var(depth, h) \in Nat
            /\ l \in Refs(nodes) /\ l.id \in Nat /\ last_var(depth, l) \in Nat
            /\ a.id \in Nat /\ last_var(depth, a) \in Nat
        BY <1>0, <4>1, ProperParts
      <4>3. last_var(depth, a) <= NVars /\ a.id <= k + 1
        OBVIOUS
      <4> HIDE DEF h, l
      <4>4. h.id <= k /\ l.id <= k /\ last_var(depth, h) <= NVars /\ last_var(depth, l) <= NVars
        BY <4>1, <4>2, <4>3, BddRefsAssumption
      <4> QED BY <4>1, <4>2, <4>4 DEF h, l
    <3>4. get(nodes, x).h = get(nodes, y).h
      BY <2>0, <3>2, <3>3 DEF OneEach
    <3>5. get(nodes, x).l = get(nodes, y).l
      BY <2>0, <3>2, <3>3 DEF OneEach
    <3> QED BY <2>4, <3>1, <3>4, <3>5, GetSame
  <2> QED BY <2>2, <2>3, <2>4
<1>3. n \in X
  <2> HIDE DEF X
  <2> QED BY <1>1, <1>2, SetInduction
<1> QED BY <1>3

LEMMA Unique ==
  ASSUME NEW nodes, Normal(nodes), NEW depth, Measures(nodes, depth),
         NEW x, Proper(nodes, x), last_var(depth, x) <= NVars,
         NEW y, Proper(nodes, y), last_var(depth, y) <= NVars,
         meaning(nodes, x) = meaning(nodes, y)
  PROVE  x = y
<1>1. Len(nodes) \in Nat /\ PointDown(nodes)
  BY DEF Normal, PointDown
<1>2. /\ x \in Refs(nodes) /\ x.id <= Len(nodes)
      /\ y \in Refs(nodes) /\ y.id <= Len(nodes)
  BY <1>1, ProperParts
<1>3. OneEach(nodes, depth, Len(nodes))
  BY <1>1, AllOneEach
<1> QED BY <1>2, <1>3 DEF OneEach

\* A function depends on its reference's last variable.
LEMMA DependsOnLast ==
  ASSUME NEW nodes, Normal(nodes), NEW depth, Measures(nodes, depth),
         NEW x, Proper(nodes, x), ~leaf(x), last_var(depth, x) <= NVars
  PROVE  LET w == last_var(depth, x) IN
         /\ w \in 1 .. NVars
         /\ \E s \in Assignment : ~ (s \cup {w} \in meaning(nodes, x) <=> s \ {w} \in meaning(nodes, x))
<1> DEFINE split(y) == \E s \in Assignment : ~ (s \cup {last_var(depth, y)} \in meaning(nodes, y)
                                               <=> s \ {last_var(depth, y)} \in meaning(nodes, y))
           X == { n \in Nat : \A y \in Refs(nodes) :
                    Proper(nodes, y) /\ ~leaf(y) /\ last_var(depth, y) <= NVars /\ y.id <= n => split(y) }
<1>0. PointDown(nodes)
  BY DEF Normal
<1>1. 0 \in X
  BY DEF Refs
<1>2. ASSUME NEW n \in Nat, n \in X PROVE n + 1 \in X
  <2> SUFFICES ASSUME NEW y \in Refs(nodes), Proper(nodes, y), ~leaf(y),
                      last_var(depth, y) <= NVars, y.id <= n + 1
               PROVE  split(y)
    OBVIOUS
  <2> DEFINE h == get(nodes, y).h
             l == get(nodes, y).l
             v == y.sh
             w == last_var(depth, y)
  <2>1. /\ Proper(nodes, h) /\ h.id < y.id /\ Proper(nodes, l) /\ l.id < y.id
        /\ w = v \/ w = last_var(depth, h) \/ w = last_var(depth, l)
    BY GetProper
  <2>2. /\ h \in Refs(nodes) /\ h.id \in Nat /\ (leaf(h) => last_var(depth, h) = 0)
        /\ l \in Refs(nodes) /\ l.id \in Nat /\ (leaf(l) => last_var(depth, l) = 0)
        /\ y.id \in Nat /\ v \in Nat /\ v > 0 /\ w \in Nat /\ v <= w
    BY <1>0, <2>1, ProperParts
  <2>3. CASE w = v
    <3>1. OneEach(nodes, depth, n)
      BY AllOneEach
    <3> QED BY <2>3, <3>1, DependsOnTop
  <2>4. ASSUME w # v, w = last_var(depth, h) PROVE split(y)
    <3>1. h.id <= n /\ ~leaf(h) /\ w <= NVars
      BY <2>1, <2>2, <2>4
    <3>2. PICK s \in Assignment : ~ (s \cup {w} \in meaning(nodes, h) <=> s \ {w} \in meaning(nodes, h))
      <4>1. split(h)
        <5> HIDE DEF h, split
        <5> QED BY <1>2, <2>1, <2>2, <2>4, <3>1
      <4> HIDE DEF h
      <4> QED BY <2>4, <4>1
    <3>3. s \cup {w} \in Assignment /\ s \ {w} \in Assignment /\ s \cup {v} \in Assignment
      <4>1. w \in 1 .. NVars /\ v \in 1 .. NVars
        BY <2>2, <3>1, BddRefsAssumption
      <4> HIDE DEF w, v
      <4> QED BY <4>1 DEF Assignment
    <3>4. /\ s \cup {w} \in meaning(nodes, h) <=> (s \cup {w}) \cup {v} \in meaning(nodes, y)
          /\ s \ {w} \in meaning(nodes, h) <=> (s \ {w}) \cup {v} \in meaning(nodes, y)
      BY <3>3, Branches
    <3>5. (s \cup {w}) \cup {v} = (s \cup {v}) \cup {w} /\ (s \ {w}) \cup {v} = (s \cup {v}) \ {w}
      BY <2>4
    <3> HIDE DEF w, v, h
    <3>6. ~ ((s \cup {v}) \cup {w} \in meaning(nodes, y) <=> (s \cup {v}) \ {w} \in meaning(nodes, y))
      BY <3>2, <3>4, <3>5
    <3> QED BY <3>3, <3>6 DEF w
  <2>5. ASSUME w # v, w = last_var(depth, l) PROVE split(y)
    <3>1. l.id <= n /\ ~leaf(l) /\ w <= NVars
      BY <2>1, <2>2, <2>5
    <3>2. PICK s \in Assignment : ~ (s \cup {w} \in meaning(nodes, l) <=> s \ {w} \in meaning(nodes, l))
      <4>1. split(l)
        <5> HIDE DEF l, split
        <5> QED BY <1>2, <2>1, <2>2, <2>5, <3>1
      <4> HIDE DEF l
      <4> QED BY <2>5, <4>1
    <3>3. s \cup {w} \in Assignment /\ s \ {w} \in Assignment /\ s \ {v} \in Assignment
      <4>1. w \in 1 .. NVars /\ v \in 1 .. NVars
        BY <2>2, <3>1, BddRefsAssumption
      <4> HIDE DEF w, v
      <4> QED BY <4>1 DEF Assignment
    <3>4. /\ s \cup {w} \in meaning(nodes, l) <=> (s \cup {w}) \ {v} \in meaning(nodes, y)
          /\ s \ {w} \in meaning(nodes, l) <=> (s \ {w}) \ {v} \in meaning(nodes, y)
      BY <3>3, Branches
    <3>5. (s \cup {w}) \ {v} = (s \ {v}) \cup {w} /\ (s \ {w}) \ {v} = (s \ {v}) \ {w}
      BY <2>5
    <3> HIDE DEF w, v, l
    <3>6. ~ ((s \ {v}) \cup {w} \in meaning(nodes, y) <=> (s \ {v}) \ {w} \in meaning(nodes, y))
      BY <3>2, <3>4, <3>5
    <3> QED BY <3>3, <3>6 DEF w
  <2> QED BY <2>1, <2>3, <2>4, <2>5
<1>3. x \in Refs(nodes) /\ x.id \in Nat /\ x.id <= x.id /\ last_var(depth, x) \in 1 .. NVars
  <2>1. x \in Refs(nodes) /\ x.id \in Nat /\ x.sh > 0 /\ x.sh \in Nat /\ x.sh <= last_var(depth, x)
        /\ last_var(depth, x) \in Nat
    BY <1>0, ProperParts
  <2> QED BY <2>1, BddRefsAssumption
<1>4. x.id \in X
  <2> HIDE DEF X
  <2> QED BY <1>1, <1>2, <1>3, SetInduction
<1>5. split(x)
  <2> HIDE DEF split
  <2> QED BY <1>3, <1>4
<1> QED BY <1>3, <1>5

\* A choice between functions of the first b variables is one of them.
LEMMA IteLast ==
  ASSUME NEW nodes, Normal(nodes), NEW depth, Measures(nodes, depth),
         NEW x, Proper(nodes, x), NEW y, Proper(nodes, y), NEW z, Proper(nodes, z), NEW r, Proper(nodes, r),
         NEW b \in Nat, last_var(depth, x) <= b, last_var(depth, y) <= b, last_var(depth, z) <= b,
         last_var(depth, r) <= NVars,
         meaning(nodes, r) = ite_of(meaning(nodes, x), meaning(nodes, y), meaning(nodes, z))
  PROVE  last_var(depth, r) <= b
<1> SUFFICES ASSUME ~ (last_var(depth, r) <= b) PROVE FALSE
  OBVIOUS
<1> DEFINE w == last_var(depth, r)
<1>0. PointDown(nodes)
  BY DEF Normal
<1>1. /\ w \in Nat /\ (leaf(r) => w = 0) /\ last_var(depth, x) \in Nat
      /\ last_var(depth, y) \in Nat /\ last_var(depth, z) \in Nat
  BY <1>0, ProperParts
<1>2. ~leaf(r) /\ w > last_var(depth, x) /\ w > last_var(depth, y) /\ w > last_var(depth, z)
  BY <1>1
<1>3. /\ w \in 1 .. NVars
      /\ \E s \in Assignment : ~ (s \cup {w} \in meaning(nodes, r) <=> s \ {w} \in meaning(nodes, r))
  BY <1>2, DependsOnLast
<1> HIDE DEF w
<1>4. PICK s \in Assignment : ~ (s \cup {w} \in meaning(nodes, r) <=> s \ {w} \in meaning(nodes, r))
  BY <1>3
<1>5. s \cup {w} \in Assignment /\ s \ {w} \in Assignment /\ (s \cup {w}) \ {w} = (s \ {w}) \ {w}
  BY <1>3 DEF Assignment
<1>6. ASSUME NEW a \in {x, y, z}
      PROVE  s \cup {w} \in meaning(nodes, a) <=> s \ {w} \in meaning(nodes, a)
  <2>1. Proper(nodes, a) /\ w > last_var(depth, a)
    BY <1>2
  <2> QED BY <1>1, <1>5, <2>1, Untouched
<1> QED BY <1>4, <1>6 DEF ite_of
----------------------------------------------------------------------------
(* Shifting. *)

\* an assignment to the variables after k, as one to the variables after 0
down(s, k) == { v \in 1 .. NVars : v + k \in s }

LEMMA GetShift ==
  ASSUME NEW nodes, PointDown(nodes), NEW x \in Refs(nodes), ~leaf(x), NEW k \in Nat
  PROVE  /\ plus_shift(x, k) \in Refs(nodes)
         /\ get(nodes, plus_shift(x, k)).h = plus_shift(get(nodes, x).h, k)
         /\ get(nodes, plus_shift(x, k)).l = plus_shift(get(nodes, x).l, k)
<1> DEFINE z == plus_shift(x, k)
<1>1. x \in Ref /\ x.id \in 1 .. Len(nodes) /\ Len(nodes) \in Nat
  BY RefsAreRef DEF Refs, PointDown
<1>2. z \in Ref /\ z.id = x.id /\ z.out = x.out /\ z.inp = x.inp /\ z.sh = x.sh + k
  BY <1>1, ShiftIs
<1>3. ASSUME NEW r \in Ref PROVE seen_through(z, r) = plus_shift(seen_through(x, r), k)
  <2> DEFINE p == seen_through(z, r)
             q == seen_through(x, r)
             t == plus_shift(q, k)
  <2> HIDE DEF z
  <2>1. /\ p \in Ref /\ p.id = r.id /\ p.inp = r.inp
        /\ p.out = IF z.out = 1 THEN 1 - r.out ELSE r.out
        /\ p.sh = IF leaf(r) THEN r.sh ELSE r.sh + z.sh
    BY <1>2, SeenIs
  <2>2. /\ q \in Ref /\ q.id = r.id /\ q.inp = r.inp
        /\ q.out = IF x.out = 1 THEN 1 - r.out ELSE r.out
        /\ q.sh = IF leaf(r) THEN r.sh ELSE r.sh + x.sh
    BY <1>1, SeenIs
  <2>3. t \in Ref /\ t.id = q.id /\ t.out = q.out /\ t.inp = q.inp /\ t.sh = IF leaf(q) THEN q.sh ELSE q.sh + k
    BY <2>2, ShiftIs
  <2>4. p.sh = t.sh
    <3> HIDE DEF p, q, t
    <3> QED BY <1>1, <1>2, <2>1, <2>2, <2>3 DEF Ref, leaf
  <2>5. p = t
    <3> HIDE DEF p, q, t
    <3> QED BY <1>2, <2>1, <2>2, <2>3, <2>4, RefEq
  <2> QED BY <2>5
<1>4. z \in Refs(nodes)
  <2> HIDE DEF z
  <2> QED BY <1>1, <1>2 DEF Ref, Refs
<1>5. nodes[x.id].h \in Ref /\ nodes[x.id].l \in Ref
  BY <1>1, NodeParts
<1> DEFINE a == IF x.inp = 1 THEN nodes[x.id].l ELSE nodes[x.id].h
           b == IF x.inp = 1 THEN nodes[x.id].h ELSE nodes[x.id].l
<1>6. get(nodes, x).h = seen_through(x, a) /\ get(nodes, x).l = seen_through(x, b)
  BY GetIs
<1>7. get(nodes, z).h = seen_through(z, a) /\ get(nodes, z).l = seen_through(z, b)
  <2> HIDE DEF z
  <2> QED BY <1>2, GetIs
<1>8. a \in Ref /\ b \in Ref
  BY <1>5
<1> HIDE DEF a, b, z
<1>9. get(nodes, z).h = plus_shift(get(nodes, x).h, k) /\ get(nodes, z).l = plus_shift(get(nodes, x).l, k)
  BY <1>3, <1>6, <1>7, <1>8
<1> QED BY <1>4, <1>9 DEF z

\* The function of a shifted reference is the function, of the shifted variables.
LEMMA ShiftMeaning ==
  ASSUME NEW nodes, Normal(nodes), NEW depth, Measures(nodes, depth),
         NEW x, Proper(nodes, x), NEW k \in Nat, NEW s \in Assignment
  PROVE  s \in meaning(nodes, plus_shift(x, k)) <=> down(s, k) \in meaning(nodes, x)
<1> DEFINE shifts(y) == s \in meaning(nodes, plus_shift(y, k)) <=> down(s, k) \in meaning(nodes, y)
           X == { n \in Nat : \A y \in Refs(nodes) : Proper(nodes, y) /\ y.id <= n => shifts(y) }
<1>0. PointDown(nodes) /\ down(s, k) \in Assignment
  BY DEF Normal, Assignment, down
<1>1. 0 \in X
  BY DEF Refs
<1>2. ASSUME NEW n \in Nat, n \in X PROVE n + 1 \in X
  <2> SUFFICES ASSUME NEW y \in Refs(nodes), Proper(nodes, y), y.id <= n + 1
               PROVE  shifts(y)
    OBVIOUS
  <2>1. CASE leaf(y)
    <3>1. plus_shift(y, k) = y
      BY <2>1 DEF plus_shift
    <3> QED BY <1>0, <2>1, <3>1, MeaningIn
  <2>2. CASE ~leaf(y)
    <3> DEFINE h == get(nodes, y).h
               l == get(nodes, y).l
               z == plus_shift(y, k)
    <3>1. Proper(nodes, h) /\ h.id < y.id /\ Proper(nodes, l) /\ l.id < y.id
      BY <2>2, GetProper
    <3>2. /\ h \in Refs(nodes) /\ h.id \in Nat /\ l \in Refs(nodes) /\ l.id \in Nat
          /\ y.id \in Nat /\ y.sh \in Nat /\ y.sh > 0 /\ y \in Ref
      BY <1>0, <2>2, <3>1, ProperParts
    <3>3. z \in Refs(nodes) /\ get(nodes, z).h = plus_shift(h, k) /\ get(nodes, z).l = plus_shift(l, k)
      BY <1>0, <2>2, GetShift
    <3>4. ~leaf(z) /\ z.sh = y.sh + k
      BY <2>2, <3>2, ShiftIs DEF leaf
    <3>5. shifts(h) /\ shifts(l)
      <4>1. h.id <= n /\ l.id <= n
        BY <3>1, <3>2
      <4> HIDE DEF h, l, shifts
      <4> QED BY <1>2, <3>1, <3>2, <4>1
    <3>6. z.sh \in s <=> y.sh \in down(s, k)
      <4>1. s \subseteq 1 .. NVars
        BY DEF Assignment
      <4> QED BY <3>2, <3>4, <4>1, BddRefsAssumption DEF down
    <3>7. s \in meaning(nodes, z) <=> IF z.sh \in s THEN s \in meaning(nodes, plus_shift(h, k))
                                      ELSE s \in meaning(nodes, plus_shift(l, k))
      <4> HIDE DEF h, l, z
      <4> QED BY <1>0, <3>3, <3>4, MeaningIn
    <3>8. down(s, k) \in meaning(nodes, y) <=>
            IF y.sh \in down(s, k) THEN down(s, k) \in meaning(nodes, h) ELSE down(s, k) \in meaning(nodes, l)
      BY <1>0, <2>2, MeaningIn
    <3> HIDE DEF h, l
    <3> QED BY <3>5, <3>6, <3>7, <3>8
  <2> QED BY <2>1, <2>2
<1>3. x \in Refs(nodes) /\ x.id \in Nat /\ x.id <= x.id
  BY <1>0 DEF Proper, Refs, PointDown
<1>4. x.id \in X
  <2> HIDE DEF X
  <2> QED BY <1>1, <1>2, <1>3, SetInduction
<1> QED BY <1>3, <1>4

----------------------------------------------------------------------------
(* Renumbering: the nodes of L go where sigma says. *)

moved(sigma, x) == [x EXCEPT !.id = sigma[@]]

Renumbers(sigma, L, nodes, new) ==
  /\ L \subseteq 1 .. Len(nodes) /\ 1 \in L
  /\ sigma \in [L -> 1 .. Len(new)]
  /\ \A i \in L : sigma[i] = 1 <=> i = 1
  /\ \A i \in L \ {1} :
       /\ nodes[i].h.id \in L /\ new[sigma[i]].h = moved(sigma, nodes[i].h)
       /\ nodes[i].l.id \in L /\ new[sigma[i]].l = moved(sigma, nodes[i].l)

LEMMA MovedIs ==
  ASSUME NEW sigma, NEW x \in Ref, sigma[x.id] \in Nat \ {0}
  PROVE  /\ moved(sigma, x) \in Ref /\ moved(sigma, x).id = sigma[x.id]
         /\ moved(sigma, x).out = x.out /\ moved(sigma, x).inp = x.inp /\ moved(sigma, x).sh = x.sh
<1> DEFINE n == sigma[x.id]
<1>1. moved(sigma, x) = [x EXCEPT !.id = n]
  BY DEF moved
<1>2. n \in Nat \ {0}
  OBVIOUS
<1> HIDE DEF n
<1>3. /\ [x EXCEPT !.id = n] \in Ref /\ [x EXCEPT !.id = n].id = n
      /\ [x EXCEPT !.id = n].out = x.out /\ [x EXCEPT !.id = n].inp = x.inp
      /\ [x EXCEPT !.id = n].sh = x.sh
  BY <1>2 DEF Ref
<1> QED BY <1>1, <1>3 DEF n

LEMMA MovedRef ==
  ASSUME NEW nodes, PointDown(nodes), NEW new, PointDown(new), NEW sigma, NEW L,
         Renumbers(sigma, L, nodes, new), NEW x \in Ref, x.id \in L
  PROVE  /\ moved(sigma, x) \in Ref /\ moved(sigma, x).id = sigma[x.id]
         /\ moved(sigma, x).out = x.out /\ moved(sigma, x).inp = x.inp /\ moved(sigma, x).sh = x.sh
         /\ moved(sigma, x) \in Refs(new) /\ (leaf(moved(sigma, x)) <=> leaf(x))
<1>1. sigma[x.id] \in 1 .. Len(new) /\ (sigma[x.id] = 1 <=> x.id = 1) /\ Len(new) \in Nat
  <2>1. sigma \in [L -> 1 .. Len(new)] /\ \A i \in L : sigma[i] = 1 <=> i = 1
    BY DEF Renumbers
  <2>2. Len(new) \in Nat
    BY DEF PointDown
  <2> QED BY <2>1, <2>2
<1> DEFINE y == moved(sigma, x)
<1>2. y \in Ref /\ y.id = sigma[x.id] /\ y.out = x.out /\ y.inp = x.inp /\ y.sh = x.sh
  BY <1>1, MovedIs
<1> HIDE DEF y
<1>3. y \in Refs(new) /\ (leaf(y) <=> leaf(x))
  BY <1>1, <1>2 DEF Ref, Refs, leaf
<1> QED BY <1>2, <1>3 DEF y

LEMMA GetMoved ==
  ASSUME NEW nodes, PointDown(nodes), NEW new, PointDown(new), NEW sigma, NEW L,
         Renumbers(sigma, L, nodes, new), NEW x \in Refs(nodes), x.id \in L, ~leaf(x)
  PROVE  /\ get(nodes, x).h.id \in L /\ get(new, moved(sigma, x)).h = moved(sigma, get(nodes, x).h)
         /\ get(nodes, x).l.id \in L /\ get(new, moved(sigma, x)).l = moved(sigma, get(nodes, x).l)
<1> DEFINE z == moved(sigma, x)
           a == IF x.inp = 1 THEN nodes[x.id].l ELSE nodes[x.id].h
           b == IF x.inp = 1 THEN nodes[x.id].h ELSE nodes[x.id].l
           c == IF z.inp = 1 THEN new[z.id].l ELSE new[z.id].h
           d == IF z.inp = 1 THEN new[z.id].h ELSE new[z.id].l
<1>1. x \in Ref /\ x.id \in 1 .. Len(nodes) /\ x.id \in L \ {1}
  BY RefsAreRef DEF Refs, PointDown, leaf
<1>2. z \in Ref /\ z.id = sigma[x.id] /\ z.out = x.out /\ z.inp = x.inp /\ z.sh = x.sh
  BY <1>1, MovedRef
<1>3. /\ get(nodes, x).h = seen_through(x, a) /\ get(nodes, x).l = seen_through(x, b)
      /\ get(new, z).h = seen_through(z, c) /\ get(new, z).l = seen_through(z, d)
  BY GetIs
<1>4. nodes[x.id].h \in Ref /\ nodes[x.id].l \in Ref
  BY <1>1, NodeParts
<1>5. a \in Ref /\ b \in Ref /\ a.id \in L /\ b.id \in L /\ c = moved(sigma, a) /\ d = moved(sigma, b)
  <2>1. /\ nodes[x.id].h.id \in L /\ new[sigma[x.id]].h = moved(sigma, nodes[x.id].h)
        /\ nodes[x.id].l.id \in L /\ new[sigma[x.id]].l = moved(sigma, nodes[x.id].l)
    BY <1>1 DEF Renumbers
  <2> HIDE DEF z
  <2> QED BY <1>2, <1>4, <2>1
<1> HIDE DEF a, b, c, d, z
<1>6. ASSUME NEW r \in Ref, r.id \in L
      PROVE  /\ seen_through(x, r).id \in L
             /\ seen_through(z, moved(sigma, r)) = moved(sigma, seen_through(x, r))
  <2> DEFINE p == seen_through(x, r)
             m == moved(sigma, r)
             q == seen_through(z, m)
             t == moved(sigma, p)
  <2>1. /\ p \in Ref /\ p.id = r.id /\ p.inp = r.inp
        /\ p.out = IF x.out = 1 THEN 1 - r.out ELSE r.out
        /\ p.sh = IF leaf(r) THEN r.sh ELSE r.sh + x.sh
    BY <1>1, SeenIs
  <2>2. /\ m \in Ref /\ m.id = sigma[r.id] /\ m.out = r.out /\ m.inp = r.inp /\ m.sh = r.sh
        /\ leaf(m) <=> leaf(r)
    BY <1>6, MovedRef
  <2>3. /\ q \in Ref /\ q.id = m.id /\ q.inp = m.inp
        /\ q.out = IF z.out = 1 THEN 1 - m.out ELSE m.out
        /\ q.sh = IF leaf(m) THEN m.sh ELSE m.sh + z.sh
    <3> HIDE DEF m
    <3> QED BY <1>2, <2>2, SeenIs
  <2>4. t \in Ref /\ t.id = sigma[p.id] /\ t.out = p.out /\ t.inp = p.inp /\ t.sh = p.sh
    <3> HIDE DEF p
    <3> QED BY <1>6, <2>1, MovedRef
  <2>5. p.id \in L /\ q = t
    <3> HIDE DEF p, q, t, m
    <3>1. q.id = t.id /\ q.inp = t.inp
      BY <2>1, <2>2, <2>3, <2>4
    <3>2. q.out = t.out /\ q.sh = t.sh
      BY <1>2, <2>1, <2>2, <2>3, <2>4
    <3> QED BY <1>6, <2>1, <2>3, <2>4, <3>1, <3>2, RefEq
  <2> QED BY <2>5
<1> QED BY <1>3, <1>5, <1>6 DEF z

\* A renumbered reference denotes the function it did.
LEMMA MovedMeaning ==
  ASSUME NEW nodes, PointDown(nodes), NEW new, PointDown(new), NEW sigma, NEW L,
         Renumbers(sigma, L, nodes, new), NEW x \in Refs(nodes), x.id \in L
  PROVE  moved(sigma, x) \in Refs(new) /\ meaning(new, moved(sigma, x)) = meaning(nodes, x)
<1> DEFINE same(y) == \A s \in Assignment : s \in meaning(new, moved(sigma, y)) <=> s \in meaning(nodes, y)
           X == { n \in Nat : \A y \in Refs(nodes) : y.id \in L /\ y.id <= n => same(y) }
<1>0. Refs(nodes) \subseteq Ref
  BY RefsAreRef DEF PointDown
<1>1. 0 \in X
  BY DEF Refs
<1>2. ASSUME NEW n \in Nat, n \in X PROVE n + 1 \in X
  <2> SUFFICES ASSUME NEW y \in Refs(nodes), y.id \in L, y.id <= n + 1, NEW s \in Assignment
               PROVE  s \in meaning(new, moved(sigma, y)) <=> s \in meaning(nodes, y)
    OBVIOUS
  <2> DEFINE z == moved(sigma, y)
  <2>1. z \in Refs(new) /\ (leaf(z) <=> leaf(y)) /\ z.out = y.out /\ z.sh = y.sh
    <3>1. y \in Ref
      BY <1>0
    <3> QED BY <3>1, MovedRef
  <2>2. CASE leaf(y)
    <3> HIDE DEF z
    <3>1. s \in meaning(new, z) <=> s \in meaning(nodes, y)
      BY <2>1, <2>2, MeaningIn
    <3> QED BY <3>1 DEF z
  <2>3. CASE ~leaf(y)
    <3> DEFINE h == get(nodes, y).h
               l == get(nodes, y).l
    <3>1. h \in Refs(nodes) /\ h.id < y.id /\ l \in Refs(nodes) /\ l.id < y.id
      BY <2>3, GetDown
    <3>2. /\ h.id \in L /\ get(new, z).h = moved(sigma, h)
          /\ l.id \in L /\ get(new, z).l = moved(sigma, l)
      BY <2>3, GetMoved
    <3>3. h.id <= n /\ l.id <= n
      BY <3>1 DEF Refs
    <3>4. same(h) /\ same(l)
      <4> HIDE DEF h, l, same
      <4> QED BY <1>2, <3>1, <3>2, <3>3
    <3>5. s \in meaning(new, z) <=> IF z.sh \in s THEN s \in meaning(new, moved(sigma, h))
                                    ELSE s \in meaning(new, moved(sigma, l))
      <4> HIDE DEF h, l, z
      <4> QED BY <2>1, <2>3, <3>2, MeaningIn
    <3>6. s \in meaning(nodes, y) <=> IF y.sh \in s THEN s \in meaning(nodes, h) ELSE s \in meaning(nodes, l)
      BY <2>3, MeaningIn
    <3> HIDE DEF h, l, z
    <3>7. s \in meaning(new, z) <=> s \in meaning(nodes, y)
      BY <2>1, <3>4, <3>5, <3>6
    <3> QED BY <3>7 DEF z
  <2> QED BY <2>2, <2>3
<1>3. x.id \in Nat /\ x.id <= x.id
  BY DEF Refs, PointDown
<1>4. x.id \in X
  <2> HIDE DEF X
  <2> QED BY <1>1, <1>2, <1>3, SetInduction
<1>5. same(x)
  <2> HIDE DEF same
  <2> QED BY <1>3, <1>4
<1>6. moved(sigma, x) \in Refs(new)
  BY <1>0, MovedRef
<1>7. meaning(new, moved(sigma, x)) \subseteq Assignment /\ meaning(nodes, x) \subseteq Assignment
  BY <1>6, MeaningTyped
<1> QED BY <1>5, <1>6, <1>7

\* Adding nodes changes no function.
LEMMA LongerMeaning ==
  ASSUME NEW nodes, PointDown(nodes), NEW new, PointDown(new), Len(nodes) <= Len(new),
         \A i \in 1 .. Len(nodes) : new[i] = nodes[i], NEW x \in Refs(nodes)
  PROVE  x \in Refs(new) /\ meaning(new, x) = meaning(nodes, x)
<1> DEFINE L == 1 .. Len(nodes)
           id == [i \in L |-> i]
<1>0. Len(nodes) \in Nat /\ Len(new) \in Nat /\ Len(nodes) > 0 /\ x \in Ref /\ x.id \in L
  BY RefsAreRef DEF PointDown, Refs
<1>1. ASSUME NEW r \in Ref, r.id \in L PROVE moved(id, r) = r
  <2>1. id[r.id] = r.id /\ id[r.id] \in Nat \ {0}
    BY <1>0, <1>1
  <2> HIDE DEF id
  <2>2. /\ moved(id, r) \in Ref /\ moved(id, r).id = r.id
        /\ moved(id, r).out = r.out /\ moved(id, r).inp = r.inp /\ moved(id, r).sh = r.sh
    BY <2>1, MovedIs
  <2> QED BY <2>2, RefEq
<1>2. ASSUME NEW i \in L \ {1}
      PROVE  /\ nodes[i].h.id \in L /\ new[id[i]].h = moved(id, nodes[i].h)
             /\ nodes[i].l.id \in L /\ new[id[i]].l = moved(id, nodes[i].l)
  <2>1. nodes[i].h \in Ref /\ nodes[i].l \in Ref
    BY <1>0, NodeParts
  <2>2. nodes[i].h.id \in L /\ nodes[i].l.id \in L
    <3>1. nodes[i].h.id \in Nat \ {0} /\ nodes[i].l.id \in Nat \ {0}
      BY <2>1 DEF Ref
    <3>2. i \in 2 .. Len(nodes)
      BY <1>0
    <3>3. nodes[i].h.id < i /\ nodes[i].l.id < i
      BY <3>2 DEF PointDown
    <3> QED BY <1>0, <3>1, <3>2, <3>3
  <2>3. new[id[i]] = nodes[i]
    OBVIOUS
  <2> HIDE DEF id, L
  <2> QED BY <1>1, <2>1, <2>2, <2>3
<1>3. Renumbers(id, L, nodes, new)
  <2>1. id \in [L -> 1 .. Len(new)] /\ 1 \in L /\ \A i \in L : id[i] = 1 <=> i = 1
    BY <1>0
  <2> HIDE DEF id, L
  <2> QED BY <1>2, <2>1 DEF Renumbers, L
<1> HIDE DEF id, L
<1>4. moved(id, x) \in Refs(new) /\ meaning(new, moved(id, x)) = meaning(nodes, x)
  BY <1>0, <1>3, MovedMeaning
<1> QED BY <1>0, <1>1, <1>4

\* Nodes renumbered in their order, without gaps.
KeepsOrder(sigma, L, new) ==
  /\ \A i, j \in L : i < j => sigma[i] < sigma[j]
  /\ \A k \in 1 .. Len(new) : \E i \in L : sigma[i] = k

\* Order and form stay as they were.
LEMMA MovedLess ==
  ASSUME NEW nodes, PointDown(nodes), NEW new, PointDown(new), NEW sigma, NEW L,
         Renumbers(sigma, L, nodes, new), KeepsOrder(sigma, L, new),
         NEW x \in Ref, x.id \in L, NEW y \in Ref, y.id \in L
  PROVE  /\ bdd_lt(x, y) => bdd_lt(moved(sigma, x), moved(sigma, y))
         /\ moved(sigma, x) = moved(sigma, y) => x = y
<1> DEFINE u == moved(sigma, x)
           w == moved(sigma, y)
<1>1. /\ u.id = sigma[x.id] /\ u.out = x.out /\ u.inp = x.inp /\ u.sh = x.sh
      /\ w.id = sigma[y.id] /\ w.out = y.out /\ w.inp = y.inp /\ w.sh = y.sh
  BY MovedRef
<1>2. /\ x.id < y.id => sigma[x.id] < sigma[y.id]
      /\ y.id < x.id => sigma[y.id] < sigma[x.id]
      /\ x.id \in Nat /\ y.id \in Nat /\ sigma[x.id] \in Nat /\ sigma[y.id] \in Nat
  BY DEF KeepsOrder, Ref, Renumbers
<1> HIDE DEF u, w
<1>3. bdd_lt(x, y) => bdd_lt(u, w)
  BY <1>1, <1>2 DEF bdd_lt
<1>4. ASSUME u = w PROVE x = y
  <2>1. x.id = y.id
    BY <1>1, <1>2, <1>4
  <2> QED BY <1>1, <1>4, <2>1, RefEq
<1> QED BY <1>3, <1>4 DEF u, w

LEMMA MovedPointDown ==
  ASSUME NEW nodes, PointDown(nodes), NEW new \in Seq(Node), Len(new) > 0, NEW sigma, NEW L,
         Renumbers(sigma, L, nodes, new), KeepsOrder(sigma, L, new)
  PROVE  PointDown(new)
<1> SUFFICES ASSUME NEW k \in 2 .. Len(new) PROVE new[k].h.id < k /\ new[k].l.id < k
  BY DEF PointDown
<1>0. Len(new) \in Nat /\ k \in 1 .. Len(new) /\ k # 1
  OBVIOUS
<1>1. PICK i \in L : sigma[i] = k
  BY <1>0 DEF KeepsOrder
<1>2. i \in L \ {1} /\ i \in 2 .. Len(nodes) /\ L \subseteq 1 .. Len(nodes)
  BY <1>0, <1>1 DEF Renumbers, PointDown
<1>3. /\ nodes[i].h.id \in L /\ new[k].h = moved(sigma, nodes[i].h)
      /\ nodes[i].l.id \in L /\ new[k].l = moved(sigma, nodes[i].l)
  BY <1>1, <1>2 DEF Renumbers
<1>4. nodes[i].h \in Ref /\ nodes[i].l \in Ref /\ nodes[i].h.id < i /\ nodes[i].l.id < i
  BY <1>2, NodeParts DEF PointDown
<1>5. sigma[nodes[i].h.id] < k /\ sigma[nodes[i].l.id] < k
  BY <1>1, <1>2, <1>3, <1>4 DEF KeepsOrder
<1>6. sigma[nodes[i].h.id] \in 1 .. Len(new) /\ sigma[nodes[i].l.id] \in 1 .. Len(new)
  BY <1>3 DEF Renumbers
<1>7. new[k].h.id = sigma[nodes[i].h.id] /\ new[k].l.id = sigma[nodes[i].l.id]
  BY <1>3, <1>4, <1>6, MovedIs
<1> QED BY <1>5, <1>7

LEMMA MovedProper ==
  ASSUME NEW nodes, PointDown(nodes), NEW new, PointDown(new), NEW sigma, NEW L,
         Renumbers(sigma, L, nodes, new), NEW x, Proper(nodes, x), x.id \in L
  PROVE  Proper(new, moved(sigma, x))
<1> DEFINE y == moved(sigma, x)
<1>1. x \in Refs(nodes) /\ x \in Ref
  BY RefsAreRef DEF Proper, PointDown
<1>2. /\ y \in Refs(new) /\ (leaf(y) <=> leaf(x)) /\ y.id = sigma[x.id]
      /\ y.out = x.out /\ y.inp = x.inp /\ y.sh = x.sh
  BY <1>1, MovedRef
<1>3. ASSUME ~leaf(x), x.inp = 1 PROVE new[sigma[x.id]].h.out = 0
  <2>1. x.id \in L \ {1}
    BY <1>3 DEF leaf
  <2>2. new[sigma[x.id]].h = moved(sigma, nodes[x.id].h) /\ nodes[x.id].h.id \in L
    BY <2>1 DEF Renumbers
  <2>3. nodes[x.id].h \in Ref /\ nodes[x.id].h.out = 0
    BY <1>1, <1>3, NodeParts DEF Refs, Proper
  <2> QED BY <2>2, <2>3, MovedRef
<1> HIDE DEF y
<1>4. Proper(new, y)
  BY <1>2, <1>3 DEF Proper
<1> QED BY <1>4 DEF y

\* Renumbering in order leaves the nodes in normal form, and as deep.
LEMMA MovedNormal ==
  ASSUME NEW nodes, Normal(nodes), NEW depth, Measures(nodes, depth),
         NEW new \in Seq(Node), Len(new) > 0, new[1] = [h |-> T, l |-> T], NEW sigma, NEW L,
         Renumbers(sigma, L, nodes, new), KeepsOrder(sigma, L, new)
  PROVE  /\ Normal(new)
         /\ \E deep : /\ Measures(new, deep)
                      /\ \A x \in Ref : Proper(nodes, x) /\ x.id \in L =>
                           last_var(deep, moved(sigma, x)) = last_var(depth, x)
<1> DEFINE old(k) == CHOOSE i \in L : sigma[i] = k
           deep == [k \in 1 .. Len(new) |-> depth[old(k)]]
<1>0. PointDown(nodes) /\ PointDown(new) /\ Len(new) \in Nat
  BY MovedPointDown DEF Normal
<1>1. L \subseteq 1 .. Len(nodes) /\ 1 \in L /\ sigma \in [L -> 1 .. Len(new)] /\ sigma[1] = 1
  BY DEF Renumbers
<1>2. ASSUME NEW i \in L, NEW j \in L, sigma[i] = sigma[j] PROVE i = j
  <2>1. i \in Nat /\ j \in Nat /\ sigma[i] \in Nat /\ sigma[j] \in Nat
    BY <1>1
  <2>2. (i < j => sigma[i] < sigma[j]) /\ (j < i => sigma[j] < sigma[i])
    BY DEF KeepsOrder
  <2> QED BY <1>2, <2>1, <2>2
<1>3. ASSUME NEW k \in 1 .. Len(new) PROVE old(k) \in L /\ sigma[old(k)] = k
  <2>1. \E i \in L : sigma[i] = k
    BY DEF KeepsOrder
  <2> QED BY <2>1
<1>4. ASSUME NEW i \in L PROVE old(sigma[i]) = i
  <2>1. sigma[i] \in 1 .. Len(new)
    BY <1>1
  <2>2. old(sigma[i]) \in L /\ sigma[old(sigma[i])] = sigma[i]
    BY <1>3, <2>1
  <2> HIDE DEF old
  <2> QED BY <1>2, <2>2
<1> HIDE DEF old
<1>5. ASSUME NEW k \in 2 .. Len(new)
      PROVE  /\ old(k) \in L \ {1} /\ old(k) \in 2 .. Len(nodes) /\ sigma[old(k)] = k
             /\ nodes[old(k)].h \in Ref /\ nodes[old(k)].l \in Ref
             /\ nodes[old(k)].h.id \in L /\ new[k].h = moved(sigma, nodes[old(k)].h)
             /\ nodes[old(k)].l.id \in L /\ new[k].l = moved(sigma, nodes[old(k)].l)
  <2>0. k \in 1 .. Len(new) /\ k # 1
    BY <1>0
  <2>1. old(k) \in L /\ sigma[old(k)] = k /\ old(k) # 1
    BY <1>1, <1>3, <2>0
  <2>2. old(k) \in L \ {1} /\ old(k) \in 1 .. Len(nodes) /\ old(k) \in 2 .. Len(nodes)
    <3>1. Len(nodes) \in Nat
      BY <1>0 DEF PointDown
    <3>2. old(k) \in 1 .. Len(nodes)
      BY <1>1, <2>1
    <3> QED BY <2>1, <3>1, <3>2
  <2>3. nodes[old(k)].h \in Ref /\ nodes[old(k)].l \in Ref
    BY <1>0, <2>2, NodeParts
  <2>4. /\ nodes[old(k)].h.id \in L /\ new[k].h = moved(sigma, nodes[old(k)].h)
        /\ nodes[old(k)].l.id \in L /\ new[k].l = moved(sigma, nodes[old(k)].l)
    BY <2>1, <2>2 DEF Renumbers
  <2> QED BY <2>1, <2>2, <2>3, <2>4
<1>6. ASSUME NEW k \in 2 .. Len(new) PROVE NormalNode(new, new[k])
  <2> DEFINE n == nodes[old(k)]
  <2>1. NormalNode(nodes, n)
    BY <1>5 DEF Normal
  <2>2. Proper(new, new[k].h) /\ Proper(new, new[k].l)
    BY <1>0, <1>5, <2>1, MovedProper DEF NormalNode
  <2>3. bdd_lt(new[k].h, new[k].l)
    BY <1>0, <1>5, <2>1, MovedLess DEF NormalNode
  <2>4. new[k].l.out = 0
    BY <1>0, <1>5, <2>1, MovedRef DEF NormalNode
  <2> QED BY <2>2, <2>3, <2>4 DEF NormalNode
<1>7. ASSUME NEW k \in 2 .. Len(new), NEW m \in 2 .. Len(new), new[k] = new[m] PROVE k = m
  <2> DEFINE a == nodes[old(k)].h
             b == nodes[old(m)].h
             c == nodes[old(k)].l
             d == nodes[old(m)].l
  <2>1. /\ a \in Ref /\ a.id \in L /\ b \in Ref /\ b.id \in L /\ moved(sigma, a) = moved(sigma, b)
        /\ c \in Ref /\ c.id \in L /\ d \in Ref /\ d.id \in L /\ moved(sigma, c) = moved(sigma, d)
    <3>1. ASSUME NEW i \in {k, m}
          PROVE  /\ nodes[old(i)].h \in Ref /\ nodes[old(i)].h.id \in L /\ new[i].h = moved(sigma, nodes[old(i)].h)
                 /\ nodes[old(i)].l \in Ref /\ nodes[old(i)].l.id \in L /\ new[i].l = moved(sigma, nodes[old(i)].l)
      BY <1>5
    <3> QED BY <1>7, <3>1
  <2>2. a = b /\ c = d
    <3> HIDE DEF a, b, c, d
    <3> QED BY <1>0, <2>1, MovedLess
  <2>3. nodes[old(k)] = nodes[old(m)]
    <3>1. nodes[old(k)] \in Node /\ nodes[old(m)] \in Node
      BY <1>0, <1>1, <1>5, NodeParts
    <3> QED BY <2>2, <3>1 DEF Node
  <2>4. old(k) = old(m)
    <3>1. old(k) \in 2 .. Len(nodes) /\ old(m) \in 2 .. Len(nodes)
      BY <1>5
    <3> QED BY <2>3, <3>1 DEF Normal
  <2> QED BY <1>5, <2>4
<1>8. Normal(new)
  BY <1>0, <1>6, <1>7 DEF Normal
<1>9. ASSUME NEW x \in Ref, x.id \in L PROVE last_var(deep, moved(sigma, x)) = last_var(depth, x)
  <2>1. moved(sigma, x).id = sigma[x.id] /\ moved(sigma, x).sh = x.sh
    BY <1>0, <1>9, MovedRef
  <2>2. sigma[x.id] \in 1 .. Len(new) /\ old(sigma[x.id]) = x.id
    BY <1>1, <1>4, <1>9
  <2>3. deep[sigma[x.id]] = depth[x.id]
    BY <2>2
  <2> HIDE DEF deep
  <2> QED BY <2>1, <2>3 DEF last_var
<1>10. Measures(new, deep)
  <2>1. deep \in [1 .. Len(new) -> Nat]
    <3>1. ASSUME NEW k \in 1 .. Len(new) PROVE depth[old(k)] \in Nat
      BY <1>1, <1>3 DEF Measures
    <3> QED BY <3>1
  <2>2. deep[1] = 0
    <3>1. 1 \in 1 .. Len(new) /\ old(1) = 1
      BY <1>0, <1>1, <1>4
    <3> QED BY <3>1 DEF Measures
  <2>3. ASSUME NEW k \in 2 .. Len(new)
        PROVE  LET a == new[k].h.sh + deep[new[k].h.id]
                   b == new[k].l.sh + deep[new[k].l.id]
               IN  deep[k] \in {a, b} /\ a <= deep[k] /\ b <= deep[k]
    <3> DEFINE n == nodes[old(k)]
    <3>1. LET a == n.h.sh + depth[n.h.id]
              b == n.l.sh + depth[n.l.id]
          IN  depth[old(k)] \in {a, b} /\ a <= depth[old(k)] /\ b <= depth[old(k)]
      BY <1>5 DEF Measures
    <3>2. deep[k] = depth[old(k)]
      BY <1>0
    <3>3. last_var(deep, new[k].h) = last_var(depth, n.h) /\ last_var(deep, new[k].l) = last_var(depth, n.l)
      <4> HIDE DEF deep
      <4> QED BY <1>5, <1>9
    <3> HIDE DEF deep, n
    <3> QED BY <3>1, <3>2, <3>3 DEF last_var
  <2> HIDE DEF deep
  <2> QED BY <2>1, <2>2, <2>3 DEF Measures
<1> QED BY <1>8, <1>9, <1>10

----------------------------------------------------------------------------
(* Adding a node. *)

\* A reference as add stores it, with the variables counted from v and the
\* sign o taken off, is seen through the new reference as it was.
LEMMA StoredIs ==
  ASSUME NEW nodes, PointDown(nodes), NEW depth, Measures(nodes, depth), NEW v \in Nat, v > 0,
         NEW x, Proper(nodes, x), leaf(x) \/ v < x.sh, NEW o \in {0, 1}
  PROVE  LET m == minus_shift(x, v)
             c == IF o = 1 THEN flip(m) ELSE m
         IN  /\ c \in Ref /\ Proper(nodes, c) /\ c.id = x.id
             /\ (o = 1 => c.out = 1 - x.out) /\ (o = 0 => c.out = x.out)
             /\ last_var(depth, c) \in Nat
             /\ last_var(depth, c) = 0 \/ last_var(depth, c) + v = last_var(depth, x)
             /\ \A r \in Ref : r.out = o /\ r.sh = v => seen_through(r, c) = x
<1> DEFINE m == minus_shift(x, v)
           c == IF o = 1 THEN flip(m) ELSE m
<1>1. /\ x \in Ref /\ x \in Refs(nodes) /\ x.id \in 1 .. Len(nodes) /\ x.sh \in Nat /\ Len(nodes) \in Nat
      /\ last_var(depth, x) \in Nat /\ (leaf(x) => last_var(depth, x) = 0) /\ (leaf(x) => x.sh = 0)
  BY ProperParts DEF PointDown
<1>2. /\ m \in Ref /\ m.id = x.id /\ m.out = x.out /\ m.inp = x.inp
      /\ m.sh = IF leaf(x) THEN x.sh ELSE x.sh - v
  <2>1. CASE leaf(x)
    BY <1>1, <2>1 DEF minus_shift
  <2>2. CASE ~leaf(x)
    <3> DEFINE k == x.sh - v
    <3>1. k \in Nat
      BY <1>1, <2>2
    <3>2. m = [x EXCEPT !.sh = k]
      BY <2>2 DEF minus_shift
    <3> HIDE DEF k, m
    <3>3. m \in Ref /\ m.id = x.id /\ m.out = x.out /\ m.inp = x.inp /\ m.sh = k
      BY <1>1, <3>1, <3>2 DEF Ref
    <3> QED BY <2>2, <3>3 DEF k
  <2> QED BY <2>1, <2>2
<1>3. plus_shift(m, v) = x
  <2>1. /\ plus_shift(m, v) \in Ref /\ plus_shift(m, v).id = m.id
        /\ plus_shift(m, v).out = m.out /\ plus_shift(m, v).inp = m.inp
        /\ plus_shift(m, v).sh = IF leaf(m) THEN m.sh ELSE m.sh + v
    <3> HIDE DEF m
    <3> QED BY <1>2, ShiftIs
  <2>2. leaf(m) <=> leaf(x)
    BY <1>2 DEF leaf
  <2> HIDE DEF m
  <2>3. plus_shift(m, v).sh = x.sh
    BY <1>1, <1>2, <2>1, <2>2
  <2> QED BY <1>1, <1>2, <2>1, <2>3, RefEq
<1> HIDE DEF m
<1>4. /\ flip(m) \in Ref /\ flip(m).id = m.id /\ flip(m).sh = m.sh /\ flip(m).inp = m.inp
      /\ flip(m).out = 1 - m.out /\ flip(flip(plus_shift(m, v))) = plus_shift(m, v)
      /\ flip(plus_shift(m, v)) = plus_shift(flip(m), v)
  BY <1>1, <1>2, <1>3, FlipIs, FlipFlip, FlipShift
<1>5. /\ c \in Ref /\ c.id = x.id /\ c.inp = x.inp /\ c.sh = IF leaf(x) THEN x.sh ELSE x.sh - v
      /\ (o = 1 => c.out = 1 - x.out) /\ (o = 0 => c.out = x.out)
  BY <1>2, <1>4
<1>6. ASSUME NEW r \in Ref, r.out = o, r.sh = v PROVE seen_through(r, c) = x
  <2>1. CASE o = 1
    BY <1>3, <1>4, <1>6, <2>1 DEF seen_through
  <2>2. CASE o = 0
    BY <1>3, <1>6, <2>2 DEF seen_through
  <2> QED BY <2>1, <2>2
<1> HIDE DEF c
<1>7. leaf(c) <=> leaf(x)
  BY <1>5 DEF leaf
<1>8. c \in Refs(nodes)
  BY <1>1, <1>5 DEF Ref, Refs
<1>9. Proper(nodes, c)
  BY <1>1, <1>5, <1>7, <1>8 DEF Proper
<1>10. /\ last_var(depth, c) \in Nat
       /\ last_var(depth, c) = 0 \/ last_var(depth, c) + v = last_var(depth, x)
  <2>1. last_var(depth, c) \in Nat /\ (leaf(c) => last_var(depth, c) = 0)
    BY <1>9, ProperParts
  <2>2. depth[x.id] \in Nat
    BY <1>1 DEF Measures
  <2>3. ~leaf(x) => last_var(depth, c) + v = last_var(depth, x)
    BY <1>1, <1>5, <2>2 DEF last_var
  <2> QED BY <1>7, <2>1, <2>3
<1> QED BY <1>5, <1>6, <1>9, <1>10 DEF c, m

\* More nodes leave a reference in its form.
LEMMA LongerProper ==
  ASSUME NEW nodes, PointDown(nodes), NEW new, Len(new) \in Nat, Len(nodes) <= Len(new),
         \A i \in 1 .. Len(nodes) : new[i] = nodes[i], NEW x, Proper(nodes, x)
  PROVE  Proper(new, x)
<1>1. x \in Refs(nodes) /\ x.id \in 1 .. Len(nodes) /\ Len(nodes) \in Nat
  BY DEF Proper, Refs, PointDown
<1>2. x \in Refs(new)
  BY <1>1 DEF Refs
<1> QED BY <1>1, <1>2 DEF Proper

\* A node in normal form is found, or put at the end.
LEMMA LinkedNormal ==
  ASSUME NEW nodes, Normal(nodes), NEW depth, Measures(nodes, depth),
         NEW n \in Node, NormalNode(nodes, n)
  PROVE  LET new == linked(nodes, n)
             i == id_of(new, n)
         IN  /\ Normal(new) /\ Len(nodes) <= Len(new) /\ \A k \in 1 .. Len(nodes) : new[k] = nodes[k]
             /\ i \in 2 .. Len(new) /\ new[i] = n
             /\ \E deep : Measures(new, deep) /\ \A k \in 1 .. Len(nodes) : deep[k] = depth[k]
<1> DEFINE new == linked(nodes, n)
<1>0. PointDown(nodes) /\ Len(nodes) \in Nat /\ Len(nodes) > 0 /\ nodes \in Seq(Node)
  BY DEF Normal, PointDown
<1>1. CASE \E i \in 2 .. Len(nodes) : nodes[i] = n
  <2>1. new = nodes
    BY <1>1 DEF linked
  <2>2. id_of(nodes, n) \in 2 .. Len(nodes) /\ nodes[id_of(nodes, n)] = n
    BY <1>1 DEF id_of
  <2> QED BY <1>0, <2>1, <2>2
<1>2. CASE ~ \E i \in 2 .. Len(nodes) : nodes[i] = n
  <2> DEFINE N == Len(nodes)
             deep == [k \in 1 .. N + 1 |->
                        IF k <= N THEN depth[k]
                        ELSE IF last_var(depth, n.l) <= last_var(depth, n.h) THEN last_var(depth, n.h)
                        ELSE last_var(depth, n.l)]
  <2>1. new = Append(nodes, n)
    BY <1>2 DEF linked
  <2>2. /\ new \in Seq(Node) /\ Len(new) = N + 1 /\ new[N + 1] = n
        /\ \A k \in 1 .. N : new[k] = nodes[k]
    BY <1>0, <2>1
  <2> HIDE DEF new
  <2>3. Proper(nodes, n.h) /\ Proper(nodes, n.l) /\ bdd_lt(n.h, n.l) /\ n.l.out = 0
    BY DEF NormalNode
  <2>4. /\ n.h.id \in 1 .. N /\ n.l.id \in 1 .. N
        /\ last_var(depth, n.h) \in Nat /\ last_var(depth, n.l) \in Nat
    BY <1>0, <2>3, ProperParts
  <2>5. PointDown(new)
    <3>1. ASSUME NEW i \in 2 .. N + 1 PROVE new[i].h.id < i /\ new[i].l.id < i
      <4>1. CASE i = N + 1
        BY <1>0, <2>2, <2>4, <4>1
      <4>2. CASE i # N + 1
        <5>1. i \in 2 .. N
          BY <1>0, <4>2
        <5> QED BY <1>0, <2>2, <5>1 DEF PointDown
      <4> QED BY <4>1, <4>2
    <3> QED BY <1>0, <2>2, <3>1 DEF PointDown
  <2>6. ASSUME NEW r, Proper(nodes, r) PROVE Proper(new, r)
    BY <1>0, <2>2, <2>6, LongerProper
  <2>7. ASSUME NEW i \in 2 .. N + 1 PROVE NormalNode(new, new[i])
    <3>1. CASE i = N + 1
      BY <2>2, <2>3, <2>6, <3>1 DEF NormalNode
    <3>2. CASE i # N + 1
      <4>1. i \in 2 .. N /\ new[i] = nodes[i]
        BY <1>0, <2>2, <3>2
      <4>2. NormalNode(nodes, nodes[i])
        BY <4>1 DEF Normal
      <4> QED BY <2>6, <4>1, <4>2 DEF NormalNode
    <3> QED BY <3>1, <3>2
  <2>8. ASSUME NEW i \in 2 .. N + 1, NEW j \in 2 .. N + 1, new[i] = new[j] PROVE i = j
    <3>1. CASE i = N + 1 \/ j = N + 1
      <4>1. \A k \in 2 .. N + 1 : k # N + 1 => k \in 2 .. N /\ new[k] = nodes[k]
        BY <1>0, <2>2
      <4> QED BY <1>2, <2>2, <2>8, <3>1, <4>1
    <3>2. CASE i # N + 1 /\ j # N + 1
      <4>1. i \in 2 .. N /\ j \in 2 .. N /\ nodes[i] = nodes[j]
        BY <1>0, <2>2, <2>8, <3>2
      <4> QED BY <4>1 DEF Normal
    <3> QED BY <3>1, <3>2
  <2>9. Normal(new)
    <3>1. new[1] = nodes[1] /\ nodes[1] = [h |-> T, l |-> T]
      BY <1>0, <2>2 DEF Normal
    <3> QED BY <2>2, <2>5, <2>7, <2>8, <3>1 DEF Normal
  <2>10. id_of(new, n) \in 2 .. Len(new) /\ new[id_of(new, n)] = n
    <3>1. N + 1 \in 2 .. Len(new)
      BY <1>0, <2>2
    <3> QED BY <2>2, <3>1 DEF id_of
  <2>11. \A k \in 1 .. N : deep[k] = depth[k]
    BY <1>0
  <2>12. Measures(new, deep)
    <3>1. deep \in [1 .. Len(new) -> Nat]
      <4>1. \A k \in 1 .. N + 1 : k <= N => depth[k] \in Nat
        BY <1>0 DEF Measures
      <4> QED BY <2>2, <2>4, <4>1
    <3>2. deep[1] = 0
      BY <1>0, <2>11 DEF Measures
    <3>3. ASSUME NEW i \in 2 .. Len(new)
          PROVE  LET a == new[i].h.sh + deep[new[i].h.id]
                     b == new[i].l.sh + deep[new[i].l.id]
                 IN  deep[i] \in {a, b} /\ a <= deep[i] /\ b <= deep[i]
      <4>1. CASE i = N + 1
        <5>1. deep[i] = IF last_var(depth, n.l) <= last_var(depth, n.h) THEN last_var(depth, n.h)
                        ELSE last_var(depth, n.l)
          BY <1>0, <4>1
        <5>2. /\ n.h.sh + deep[n.h.id] = last_var(depth, n.h)
              /\ n.l.sh + deep[n.l.id] = last_var(depth, n.l)
          BY <2>4, <2>11 DEF last_var
        <5> HIDE DEF deep
        <5> QED BY <2>2, <2>4, <4>1, <5>1, <5>2
      <4>2. CASE i # N + 1
        <5>1. i \in 2 .. N /\ i \in 1 .. N /\ new[i] = nodes[i]
          BY <1>0, <2>2, <4>2
        <5>2. nodes[i].h.id \in 1 .. N /\ nodes[i].l.id \in 1 .. N
          <6>1. Proper(nodes, nodes[i].h) /\ Proper(nodes, nodes[i].l)
            BY <5>1 DEF Normal, NormalNode
          <6> QED BY <1>0, <6>1, ProperParts
        <5>3. deep[i] = depth[i] /\ deep[nodes[i].h.id] = depth[nodes[i].h.id] /\ deep[nodes[i].l.id] = depth[nodes[i].l.id]
          BY <2>11, <5>1, <5>2
        <5> HIDE DEF deep
        <5> QED BY <5>1, <5>3 DEF Measures
      <4> QED BY <4>1, <4>2
    <3> HIDE DEF deep
    <3> QED BY <3>1, <3>2, <3>3 DEF Measures
  <2> HIDE DEF deep
  <2> QED BY <1>0, <2>2, <2>9, <2>10, <2>11, <2>12 DEF new
<1> QED BY <1>1, <1>2

\* From these nodes come new ones, with r in normal form for f.
Adds(nodes, depth, f, new, r) ==
  /\ Normal(new) /\ Len(nodes) <= Len(new) /\ \A k \in 1 .. Len(nodes) : new[k] = nodes[k]
  /\ \E deep : /\ Measures(new, deep) /\ \A k \in 1 .. Len(nodes) : deep[k] = depth[k]
               /\ Proper(new, r) /\ last_var(deep, r) <= NVars
  /\ meaning(new, r) = f

\* bdd::add keeps the normal form, and its result is the choice between the two.
LEMMA AddedIs ==
  ASSUME NEW nodes, Normal(nodes), NEW depth, Measures(nodes, depth), NEW v \in 1 .. NVars,
         NEW x, Proper(nodes, x), last_var(depth, x) <= NVars, leaf(x) \/ v < x.sh,
         NEW y, Proper(nodes, y), last_var(depth, y) <= NVars, leaf(y) \/ v < y.sh
  PROVE  Adds(nodes, depth, ite_of(bit(v, TRUE), meaning(nodes, x), meaning(nodes, y)),
              added(nodes, v, x, y).nodes, added(nodes, v, x, y).ref)
<1> SUFFICES LET new == added(nodes, v, x, y).nodes
                 r == added(nodes, v, x, y).ref
             IN  /\ Normal(new) /\ Len(nodes) <= Len(new) /\ \A k \in 1 .. Len(nodes) : new[k] = nodes[k]
                 /\ \E deep : /\ Measures(new, deep) /\ \A k \in 1 .. Len(nodes) : deep[k] = depth[k]
                              /\ Proper(new, r) /\ last_var(deep, r) <= NVars
                 /\ meaning(new, r) = ite_of(bit(v, TRUE), meaning(nodes, x), meaning(nodes, y))
  BY DEF Adds
<1>0. /\ PointDown(nodes) /\ Len(nodes) \in Nat /\ v \in Nat /\ v > 0 /\ x \in Refs(nodes) /\ y \in Refs(nodes)
      /\ x \in Ref /\ y \in Ref /\ y.out \in {0, 1} /\ last_var(depth, x) \in Nat /\ last_var(depth, y) \in Nat
  <2>1. PointDown(nodes) /\ Len(nodes) \in Nat
    BY DEF Normal, PointDown
  <2> QED BY <2>1, ProperParts DEF Ref
<1>1. CASE x = y
  <2>1. added(nodes, v, x, y) = [nodes |-> nodes, ref |-> x]
    BY <1>1 DEF added
  <2>2. meaning(nodes, x) = ite_of(bit(v, TRUE), meaning(nodes, x), meaning(nodes, x))
    BY DEF ite_of
  <2>3. /\ Measures(nodes, depth) /\ \A k \in 1 .. Len(nodes) : depth[k] = depth[k]
        /\ Proper(nodes, x) /\ last_var(depth, x) <= NVars
    OBVIOUS
  <2>4. added(nodes, v, x, y).nodes = nodes /\ added(nodes, v, x, y).ref = x
    BY <2>1
  <2>5. Len(nodes) <= Len(nodes)
    BY <1>0
  <2> QED BY <1>1, <2>2, <2>3, <2>4, <2>5
<1>2. CASE x # y
  <2> DEFINE a == IF y.out = 1 THEN flip(minus_shift(x, v)) ELSE minus_shift(x, v)
             b == IF y.out = 1 THEN flip(minus_shift(y, v)) ELSE minus_shift(y, v)
             swap == bdd_lt(b, a)
             n == IF swap THEN [h |-> b, l |-> a] ELSE [h |-> a, l |-> b]
             new == linked(nodes, n)
             r == [out |-> y.out, inp |-> IF swap THEN 1 ELSE 0, sh |-> v, id |-> id_of(new, n)]
  <2>1. added(nodes, v, x, y) = [nodes |-> new, ref |-> r]
    BY <1>2 DEF added, node_ref
  <2>2. /\ a \in Ref /\ Proper(nodes, a) /\ a.id = x.id
        /\ last_var(depth, a) \in Nat
        /\ last_var(depth, a) = 0 \/ last_var(depth, a) + v = last_var(depth, x)
        /\ \A q \in Ref : q.out = y.out /\ q.sh = v => seen_through(q, a) = x
    BY <1>0, StoredIs
  <2>3. /\ b \in Ref /\ Proper(nodes, b) /\ b.id = y.id
        /\ (y.out = 1 => b.out = 1 - y.out) /\ (y.out = 0 => b.out = y.out)
        /\ last_var(depth, b) \in Nat
        /\ last_var(depth, b) = 0 \/ last_var(depth, b) + v = last_var(depth, y)
        /\ \A q \in Ref : q.out = y.out /\ q.sh = v => seen_through(q, b) = y
    <3> DEFINE o == y.out
    <3>1. o \in {0, 1}
      BY <1>0
    <3>2. b = IF o = 1 THEN flip(minus_shift(y, v)) ELSE minus_shift(y, v)
      OBVIOUS
    <3> HIDE DEF o, b
    <3>3. /\ b \in Ref /\ Proper(nodes, b) /\ b.id = y.id
          /\ (o = 1 => b.out = 1 - y.out) /\ (o = 0 => b.out = y.out)
          /\ last_var(depth, b) \in Nat
          /\ last_var(depth, b) = 0 \/ last_var(depth, b) + v = last_var(depth, y)
          /\ \A q \in Ref : q.out = o /\ q.sh = v => seen_through(q, b) = y
      BY <1>0, <3>1, <3>2, StoredIs
    <3> QED BY <3>3 DEF o
  <2> HIDE DEF a, b
  <2>4. a # b
    <3> DEFINE q == [out |-> y.out, inp |-> 0, sh |-> v, id |-> 1]
    <3>1. q \in Ref /\ q.out = y.out /\ q.sh = v
      BY <1>0 DEF Ref
    <3> HIDE DEF q
    <3>2. seen_through(q, a) = x /\ seen_through(q, b) = y
      BY <2>2, <2>3, <3>1
    <3> QED BY <1>2, <3>2
  <2>5. b.out = 0
    BY <1>0, <2>3
  <2>6. swap => a.out = 0
    BY <2>2, <2>3, <2>5 DEF bdd_lt, Ref
  <2>7. ~swap => bdd_lt(a, b)
    <3>1. ASSUME ~swap, ~bdd_lt(a, b) PROVE FALSE
      <4>1. a.out = b.out /\ a.inp = b.inp /\ a.sh = b.sh /\ a.id = b.id
        BY <2>2, <2>3, <3>1 DEF bdd_lt, Ref
      <4> QED BY <2>2, <2>3, <2>4, <4>1, RefEq
    <3> QED BY <3>1
  <2>8. n \in Node /\ NormalNode(nodes, n) /\ (swap => n.h.out = 0)
    <3>1. CASE swap
      BY <2>2, <2>3, <2>5, <2>6, <3>1 DEF Node, NormalNode
    <3>2. CASE ~swap
      BY <2>2, <2>3, <2>5, <2>7, <3>2 DEF Node, NormalNode
    <3> QED BY <3>1, <3>2
  <2>9. n.h = (IF swap THEN b ELSE a) /\ n.l = (IF swap THEN a ELSE b)
    OBVIOUS
  <2> HIDE DEF n, swap
  <2>10. /\ Normal(new) /\ Len(nodes) <= Len(new) /\ \A k \in 1 .. Len(nodes) : new[k] = nodes[k]
         /\ id_of(new, n) \in 2 .. Len(new) /\ new[id_of(new, n)] = n
         /\ \E deep : Measures(new, deep) /\ \A k \in 1 .. Len(nodes) : deep[k] = depth[k]
    BY <2>8, LinkedNormal
  <2>11. PICK deep : Measures(new, deep) /\ \A k \in 1 .. Len(nodes) : deep[k] = depth[k]
    BY <2>10
  <2> HIDE DEF new
  <2>12. PointDown(new) /\ Len(new) \in Nat
    BY <2>10 DEF Normal, PointDown
  <2>13. /\ r \in Refs(new) /\ r \in Ref /\ r.out = y.out /\ r.sh = v /\ r.id = id_of(new, n) /\ ~leaf(r)
         /\ r.inp = (IF swap THEN 1 ELSE 0)
    BY <1>0, <2>10, <2>12 DEF Refs, Ref, leaf
  <2> HIDE DEF r
  <2>14. Proper(new, r)
    BY <1>0, <2>8, <2>10, <2>13 DEF Proper
  <2>15. get(new, r).h = x /\ get(new, r).l = y
    <3>1. /\ get(new, r).h = seen_through(r, IF r.inp = 1 THEN n.l ELSE n.h)
          /\ get(new, r).l = seen_through(r, IF r.inp = 1 THEN n.h ELSE n.l)
      BY <2>10, <2>13, GetIs
    <3>2. seen_through(r, a) = x /\ seen_through(r, b) = y
      BY <2>2, <2>3, <2>13
    <3> QED BY <2>9, <2>13, <3>1, <3>2
  <2>16. last_var(deep, r) <= NVars
    <3> DEFINE A == last_var(depth, a)
               B == last_var(depth, b)
    <3>1. /\ deep[r.id] \in {n.h.sh + deep[n.h.id], n.l.sh + deep[n.l.id]}
      BY <2>10, <2>11, <2>13 DEF Measures
    <3>2. a.id \in 1 .. Len(nodes) /\ b.id \in 1 .. Len(nodes)
      BY <1>0, <2>2, <2>3, ProperParts
    <3>3. a.sh + deep[a.id] = A /\ b.sh + deep[b.id] = B
      BY <2>11, <3>2 DEF last_var
    <3>4. deep[r.id] = A \/ deep[r.id] = B
      BY <2>9, <3>1, <3>3
    <3>5. A \in Nat /\ (A = 0 \/ A + v = last_var(depth, x)) /\ B \in Nat /\ (B = 0 \/ B + v = last_var(depth, y))
      BY <2>2, <2>3
    <3> HIDE DEF A, B
    <3>6. v + deep[r.id] <= NVars
      BY <1>0, <3>4, <3>5, BddRefsAssumption
    <3> QED BY <2>13, <3>6 DEF last_var
  <2>17. meaning(new, r) = ite_of(bit(v, TRUE), meaning(nodes, x), meaning(nodes, y))
    <3>1. meaning(new, x) = meaning(nodes, x) /\ meaning(new, y) = meaning(nodes, y)
      BY <1>0, <2>10, <2>12, LongerMeaning
    <3>2. meaning(new, r) = Body(new, functions(new), r)
      BY <2>12, <2>13, MeaningIs
    <3> QED BY <2>13, <2>15, <3>1, <3>2 DEF Body, meaning
  <2>18. added(nodes, v, x, y).nodes = new /\ added(nodes, v, x, y).ref = r
    BY <2>1 DEF new, r
  <2> QED BY <2>10, <2>11, <2>14, <2>16, <2>17, <2>18
<1> QED BY <1>1, <1>2

----------------------------------------------------------------------------
(* What gc keeps: the live nodes. *)

\* the nodes reached among the n newest, from those among the n - 1 newest
grown(R, n) ==
  LET i == Len(V) + 1 - n
  IN  IF i \in roots \/ \E j \in R : i \in children(j) THEN R \cup {i} ELSE R

\* mark_all's loop has a result.
LEMMA ReachedExists ==
  ASSUME Len(V) \in Nat
  PROVE  \E f : /\ f = [n \in 0 .. Len(V) |-> IF n = 0 THEN {} ELSE grown(f[n - 1], n)]
<1> DEFINE X == { m \in Nat : \E f : f = [n \in 0 .. m |-> IF n = 0 THEN {} ELSE grown(f[n - 1], n)] }
<1>1. 0 \in X
  <2> DEFINE f == [n \in 0 .. 0 |-> {}]
  <2>1. f = [n \in 0 .. 0 |-> IF n = 0 THEN {} ELSE grown(f[n - 1], n)]
    OBVIOUS
  <2> HIDE DEF f
  <2> QED BY <2>1
<1>2. ASSUME NEW m \in Nat, m \in X PROVE m + 1 \in X
  <2>1. PICK f : f = [n \in 0 .. m |-> IF n = 0 THEN {} ELSE grown(f[n - 1], n)]
    BY <1>2
  <2> DEFINE g == [n \in 0 .. m + 1 |-> IF n <= m THEN f[n] ELSE grown(f[m], n)]
  <2>2. ASSUME NEW n \in 0 .. m + 1 PROVE g[n] = IF n = 0 THEN {} ELSE grown(g[n - 1], n)
    <3>1. CASE n = 0
      <4>1. g[0] = f[0] /\ f[0] = {}
        <5>1. 0 \in 0 .. m /\ 0 \in 0 .. m + 1
          OBVIOUS
        <5> QED BY <2>1, <5>1
      <4> QED BY <3>1, <4>1
    <3>2. CASE n # 0 /\ n <= m
      <4>1. n \in 0 .. m /\ n - 1 \in 0 .. m /\ n - 1 \in 0 .. m + 1
        BY <3>2
      <4>2. g[n] = f[n] /\ g[n - 1] = f[n - 1]
        BY <4>1
      <4>3. f[n] = grown(f[n - 1], n)
        BY <2>1, <3>2, <4>1
      <4> HIDE DEF g
      <4> QED BY <3>2, <4>2, <4>3
    <3>3. CASE n = m + 1
      <4>1. g[n] = grown(f[m], n) /\ g[m] = f[m] /\ n - 1 = m /\ n # 0
        BY <3>3
      <4> HIDE DEF g
      <4> QED BY <4>1
    <3> QED BY <3>1, <3>2, <3>3
  <2>3. g = [n \in 0 .. m + 1 |-> g[n]]
    OBVIOUS
  <2>4. g = [n \in 0 .. m + 1 |-> IF n = 0 THEN {} ELSE grown(g[n - 1], n)]
    <3> HIDE DEF g
    <3> QED BY <2>2, <2>3
  <2> HIDE DEF g
  <2> QED BY <2>4
<1>3. Nat \subseteq X
  <2> HIDE DEF X
  <2> QED BY <1>1, <1>2, SetInduction
<1> QED BY <1>3

\* Live nodes are nodes; the roots are live, and the children of what is live.
LEMMA LiveIs ==
  ASSUME PointDown(V), \A x \in held : x.ref.id \in 1 .. Len(V)
  PROVE  /\ live \subseteq 1 .. Len(V) /\ roots \subseteq live
         /\ \A i \in live \ {1} : V[i].h.id \in live /\ V[i].l.id \in live
<1> DEFINE N == Len(V)
           body(f, n) == IF n = 0 THEN {} ELSE grown(f[n - 1], n)
           r == CHOOSE f : f = [n \in 0 .. N |-> body(f, n)]
<1>0. N \in Nat /\ N > 0
  BY DEF PointDown
<1>1. live = r[N]
  BY DEF live, grown
<1>2. r = [n \in 0 .. N |-> body(r, n)]
  <2>1. \E f : f = [n \in 0 .. N |-> body(f, n)]
    BY <1>0, ReachedExists
  <2> HIDE DEF body
  <2> QED BY <2>1
<1>3. r[0] = {} /\ \A n \in 0 .. N : n # 0 => r[n] = grown(r[n - 1], n)
  <2> HIDE DEF r, body
  <2>1. \A n \in 0 .. N : r[n] = body(r, n)
    BY <1>2
  <2>2. body(r, 0) = {} /\ \A n \in 0 .. N : n # 0 => body(r, n) = grown(r[n - 1], n)
    BY DEF body
  <2>3. 0 \in 0 .. N
    BY <1>0
  <2> QED BY <2>1, <2>2, <2>3
<1> HIDE DEF r
<1> DEFINE X == { n \in Nat : n <= N =>
                    /\ r[n] \subseteq (N + 1 - n) .. N
                    /\ \A i \in roots : i >= N + 1 - n => i \in r[n]
                    /\ \A j \in r[n] : \A i \in children(j) : N + 1 - n <= i /\ i < j => i \in r[n] }
<1>4. roots \subseteq 1 .. N /\ 1 \in roots
  BY <1>0 DEF roots
<1>5. ASSUME NEW j \in 2 .. N PROVE V[j].h.id \in 1 .. j - 1 /\ V[j].l.id \in 1 .. j - 1
  <2>1. j \in 1 .. Len(V)
    BY <1>0, <1>5
  <2>2. V[j].h \in Ref /\ V[j].l \in Ref
    BY <2>1, NodeParts
  <2>3. V[j].h.id < j /\ V[j].l.id < j
    BY <1>5 DEF PointDown
  <2> QED BY <1>5, <2>2, <2>3 DEF Ref
<1>6. 0 \in X
  BY <1>0, <1>3, <1>4
<1>7. ASSUME NEW n \in Nat, n \in X PROVE n + 1 \in X
  <2> SUFFICES ASSUME n + 1 <= N
               PROVE  /\ r[n + 1] \subseteq (N - n) .. N
                      /\ \A i \in roots : i >= N - n => i \in r[n + 1]
                      /\ \A j \in r[n + 1] : \A i \in children(j) : N - n <= i /\ i < j => i \in r[n + 1]
    BY <1>0
  <2>1. /\ r[n] \subseteq (N + 1 - n) .. N
        /\ \A i \in roots : i >= N + 1 - n => i \in r[n]
        /\ \A j \in r[n] : \A i \in children(j) : N + 1 - n <= i /\ i < j => i \in r[n]
    BY <1>0, <1>7
  <2>2. r[n + 1] = grown(r[n], n + 1)
    BY <1>0, <1>3
  <2> DEFINE a == N - n
             takes == a \in roots \/ \E j \in r[n] : a \in children(j)
  <2>3. (takes => r[n + 1] = r[n] \cup {a}) /\ (~takes => r[n + 1] = r[n])
    <3>1. N + 1 - (n + 1) = a
      BY <1>0
    <3> QED BY <2>2, <3>1 DEF grown
  <2>4. a \in Nat /\ a + 1 = N + 1 - n
    BY <1>0
  <2>5. r[n + 1] \subseteq a .. N
    <3> HIDE DEF takes
    <3> QED BY <1>0, <2>1, <2>3, <2>4
  <2>6. ASSUME NEW i \in roots, i >= a PROVE i \in r[n + 1]
    BY <1>0, <1>4, <2>1, <2>3, <2>4, <2>6
  <2>7. ASSUME NEW j \in r[n + 1], NEW i \in children(j), a <= i, i < j PROVE i \in r[n + 1]
    <3>1. j \in 2 .. N
      <4>1. j \in a .. N
        BY <2>5, <2>7
      <4>2. j # 1
        <5> SUFFICES ASSUME j = 1 PROVE FALSE
          OBVIOUS
        <5>1. 1 \in 1 .. Len(V)
          BY <1>0
        <5>2. V[1].h \in Ref /\ V[1].l \in Ref
          BY <5>1, NodeParts
        <5>3. i \in Nat \ {0}
          BY <2>7, <5>2 DEF children, Ref
        <5> QED BY <2>7, <5>3
      <4>3. j # 0
        <5> SUFFICES ASSUME j = 0 PROVE FALSE
          OBVIOUS
        <5>1. a = 0
          BY <2>4, <4>1
        <5> QED BY <1>0, <5>1
      <4> QED BY <1>0, <2>4, <4>1, <4>2, <4>3
    <3>2. i \in 1 .. j - 1
      BY <1>5, <2>7, <3>1 DEF children
    <3>3. j # a
      BY <2>4, <2>7, <3>1, <3>2
    <3>4. j \in r[n]
      BY <2>3, <2>7, <3>3
    <3>5. CASE i = a
      BY <2>3, <2>7, <3>4, <3>5
    <3>6. CASE i # a
      <4>1. a + 1 <= i
        BY <2>4, <2>7, <3>1, <3>2, <3>6
      <4>2. i \in r[n]
        BY <2>1, <2>4, <2>7, <3>4, <4>1
      <4> QED BY <2>3, <4>2
    <3> QED BY <3>5, <3>6
  <2> QED BY <2>5, <2>6, <2>7
<1>8. N \in X
  <2> HIDE DEF X
  <2> QED BY <1>0, <1>6, <1>7, SetInduction
<1>9. /\ live \subseteq 1 .. N /\ roots \subseteq live
      /\ \A j \in live : \A i \in children(j) : 1 <= i /\ i < j => i \in live
  BY <1>0, <1>1, <1>4, <1>8
<1>10. ASSUME NEW i \in live \ {1} PROVE V[i].h.id \in live /\ V[i].l.id \in live
  <2>1. i \in 2 .. N
    BY <1>0, <1>9
  <2>2. V[i].h.id \in children(i) /\ V[i].l.id \in children(i)
    BY DEF children
  <2>3. V[i].h.id \in 1 .. i - 1 /\ V[i].l.id \in 1 .. i - 1
    BY <1>5, <2>1
  <2> QED BY <1>9, <2>1, <2>2, <2>3
<1> QED BY <1>9, <1>10

----------------------------------------------------------------------------
(* The numbers gc gives: a node's place among the live ones. *)

place(L, i) == Cardinality({ k \in L : k <= i })

\* Counting from 0 to N, the place moves on at the members.
Counts(L, N) ==
  /\ Cardinality(L) \in Nat /\ place(L, 0) = 0 /\ place(L, N) = Cardinality(L)
  /\ \A m \in Nat : /\ place(L, m) \in Nat
                    /\ m + 1 \in L => place(L, m + 1) = place(L, m) + 1
                    /\ m + 1 \notin L => place(L, m + 1) = place(L, m)

LEMMA PlaceIs == ASSUME NEW N \in Nat, NEW L, L \subseteq 1 .. N PROVE Counts(L, N)
<1> DEFINE upto(i) == { k \in L : k <= i }
<1>0. \A k \in L : k \in Nat /\ 1 <= k /\ k <= N
  OBVIOUS
<1>1. IsFiniteSet(L)
  <2>1. IsFiniteSet(1 .. N)
    BY FS_Interval
  <2> QED BY <2>1, FS_Subset
<1>2. ASSUME NEW m \in Nat PROVE IsFiniteSet(upto(m)) /\ Cardinality(upto(m)) \in Nat
  <2>1. upto(m) \subseteq L
    OBVIOUS
  <2> HIDE DEF upto
  <2>2. IsFiniteSet(upto(m))
    BY <1>1, <2>1, FS_Subset
  <2> QED BY <2>2, FS_CardinalityType
<1>3. upto(0) = {} /\ upto(N) = L
  <2>1. upto(0) = {}
    <3> SUFFICES ASSUME NEW k \in upto(0) PROVE FALSE
      OBVIOUS
    <3> QED BY <1>0
  <2>2. upto(N) = L
    BY <1>0
  <2> QED BY <2>1, <2>2
<1>4. ASSUME NEW m \in Nat
      PROVE  Cardinality(upto(m + 1)) =
               IF m + 1 \in L THEN Cardinality(upto(m)) + 1 ELSE Cardinality(upto(m))
  <2>1. CASE m + 1 \in L
    <3>1. upto(m + 1) = upto(m) \cup {m + 1} /\ m + 1 \notin upto(m)
      <4>1. \A k \in L : k <= m + 1 <=> k <= m \/ k = m + 1
        BY <1>0
      <4>2. ASSUME NEW k PROVE k \in upto(m + 1) <=> k \in upto(m) \cup {m + 1}
        BY <2>1, <4>1
      <4>3. m + 1 \notin upto(m)
        OBVIOUS
      <4> HIDE DEF upto
      <4> QED BY <4>2, <4>3
    <3> HIDE DEF upto
    <3>2. Cardinality(upto(m) \cup {m + 1}) = Cardinality(upto(m)) + 1
      BY <1>2, <3>1, FS_AddElement
    <3> QED BY <2>1, <3>1, <3>2
  <2>2. CASE m + 1 \notin L
    <3>1. upto(m + 1) = upto(m)
      <4>1. \A k \in L : k <= m + 1 <=> k <= m
        BY <1>0, <2>2
      <4> QED BY <4>1
    <3> HIDE DEF upto
    <3> QED BY <2>2, <3>1
  <2> QED BY <2>1, <2>2
<1>5. \A m : place(L, m) = Cardinality(upto(m))
  BY DEF place
<1>6. Cardinality(L) \in Nat /\ Cardinality({}) = 0
  BY <1>1, FS_CardinalityType, FS_EmptySet
<1> HIDE DEF upto
<1> QED BY <1>2, <1>3, <1>4, <1>5, <1>6 DEF Counts

\* Places are in order, and each up to the last is taken.
LEMMA PlacesInOrder ==
  ASSUME NEW N \in Nat, NEW L, L \subseteq 1 .. N
  PROVE  /\ Cardinality(L) \in Nat
         /\ \A i \in L : place(L, i) \in 1 .. Cardinality(L)
         /\ \A i, j \in L : i < j => place(L, i) < place(L, j)
         /\ \A k \in 1 .. Cardinality(L) : \E i \in L : place(L, i) = k
<1>0. /\ Cardinality(L) \in Nat /\ place(L, 0) = 0 /\ place(L, N) = Cardinality(L)
      /\ \A m \in Nat : /\ place(L, m) \in Nat
                        /\ m + 1 \in L => place(L, m + 1) = place(L, m) + 1
                        /\ m + 1 \notin L => place(L, m + 1) = place(L, m)
  <2>1. Counts(L, N)
    BY PlaceIs
  <2> QED BY <2>1 DEF Counts
<1> DEFINE grows(m) == \A i \in 0 .. m : /\ place(L, i) <= place(L, m)
                                         /\ m \in L /\ i < m => place(L, i) < place(L, m)
           fills(m) == \A k \in 1 .. place(L, m) : \E i \in L : i <= m /\ place(L, i) = k
           X == { m \in Nat : grows(m) /\ fills(m) }
<1>1. Nat \subseteq X
  <2>1. 0 \in X
    BY <1>0
  <2>2. ASSUME NEW m \in Nat, m \in X PROVE m + 1 \in X
    <3>1. /\ place(L, m) \in Nat /\ place(L, m + 1) \in Nat
          /\ m + 1 \in L => place(L, m + 1) = place(L, m) + 1
          /\ m + 1 \notin L => place(L, m + 1) = place(L, m)
      BY <1>0
    <3>2. grows(m) /\ fills(m) /\ \A i \in 0 .. m : place(L, i) \in Nat
      BY <1>0, <2>2
    <3>3. ASSUME NEW i \in 0 .. m + 1
          PROVE  place(L, i) <= place(L, m + 1) /\ (m + 1 \in L /\ i < m + 1 => place(L, i) < place(L, m + 1))
      <4>1. CASE i = m + 1
        BY <3>1, <4>1
      <4>2. CASE i \in 0 .. m
        <5>1. place(L, i) <= place(L, m) /\ place(L, i) \in Nat
          BY <3>2, <4>2
        <5> QED BY <3>1, <5>1
      <4> QED BY <4>1, <4>2
    <3>4. ASSUME NEW k \in 1 .. place(L, m + 1)
          PROVE  \E i \in L : i <= m + 1 /\ place(L, i) = k
      <4>1. CASE k \in 1 .. place(L, m)
        <5>1. PICK i \in L : i <= m /\ place(L, i) = k
          BY <3>2, <4>1
        <5>2. i <= m + 1
          BY <5>1
        <5> QED BY <5>1, <5>2
      <4>2. CASE k \notin 1 .. place(L, m)
        <5>1. m + 1 \in L /\ place(L, m + 1) = k
          BY <3>1, <4>2
        <5> QED BY <5>1
      <4> QED BY <4>1, <4>2
    <3> QED BY <3>3, <3>4
  <2> HIDE DEF X
  <2> QED BY <2>1, <2>2, SetInduction
<1>3. ASSUME NEW i \in L PROVE place(L, i) \in 1 .. Cardinality(L)
  <2>1. i \in 1 .. N /\ grows(N) /\ grows(i)
    BY <1>1
  <2>2. place(L, i) \in Nat /\ place(L, i) <= place(L, N) /\ place(L, 0) < place(L, i)
    BY <1>0, <2>1
  <2> QED BY <1>0, <2>2
<1>4. ASSUME NEW i \in L, NEW j \in L, i < j PROVE place(L, i) < place(L, j)
  BY <1>1, <1>4
<1>5. ASSUME NEW k \in 1 .. Cardinality(L) PROVE \E i \in L : place(L, i) = k
  <2>1. fills(N)
    BY <1>1
  <2> QED BY <1>0, <2>1
<1> QED BY <1>0, <1>3, <1>4, <1>5

\* The nodes gc keeps, as a renumbering.
number == [i \in live |-> new_id(i)]

LEMMA KeptIs ==
  ASSUME PointDown(V), V[1] = [h |-> T, l |-> T], \A x \in held : x.ref.id \in 1 .. Len(V)
  PROVE  /\ kept_nodes \in Seq(Node) /\ Len(kept_nodes) > 0 /\ kept_nodes[1] = [h |-> T, l |-> T]
         /\ Renumbers(number, live, V, kept_nodes) /\ KeepsOrder(number, live, kept_nodes)
         /\ \A x \in held : x.ref.id \in live
         /\ \A x : x.id \in live => renamed(x) = moved(number, x)
<1> DEFINE N == Len(V)
           M == Cardinality(live)
           old(k) == CHOOSE i \in live : new_id(i) = k
<1>1. /\ N \in Nat /\ live \subseteq 1 .. N /\ 1 \in live /\ \A x \in held : x.ref.id \in live
      /\ \A i \in live \ {1} : V[i].h.id \in live /\ V[i].l.id \in live
  <2>1. /\ live \subseteq 1 .. N /\ roots \subseteq live
        /\ \A i \in live \ {1} : V[i].h.id \in live /\ V[i].l.id \in live
    BY LiveIs
  <2>2. N \in Nat
    BY DEF PointDown
  <2> QED BY <2>1, <2>2 DEF roots
<1>2. \A i : new_id(i) = place(live, i)
  BY DEF new_id, place
<1>3. /\ M \in Nat
      /\ \A i \in live : new_id(i) \in 1 .. M
      /\ \A i, j \in live : i < j => new_id(i) < new_id(j)
      /\ \A k \in 1 .. M : \E i \in live : new_id(i) = k
  <2>1. live \subseteq 1 .. N /\ N \in Nat
    BY <1>1
  <2> HIDE DEF N
  <2> QED BY <1>2, <2>1, PlacesInOrder
<1>4. ASSUME NEW i \in live PROVE old(new_id(i)) = i
  <2>1. old(new_id(i)) \in live /\ new_id(old(new_id(i))) = new_id(i)
    <3>1. \E j \in live : new_id(j) = new_id(i)
      OBVIOUS
    <3> QED BY <3>1
  <2> DEFINE j == old(new_id(i))
  <2> HIDE DEF j
  <2>2. j \in live /\ new_id(j) = new_id(i)
    BY <2>1 DEF j
  <2>3. i \in Nat /\ j \in Nat /\ new_id(i) \in Nat /\ new_id(j) \in Nat
    BY <1>1, <1>3, <2>2
  <2>4. i = j
    BY <1>3, <2>2, <2>3
  <2> QED BY <2>4 DEF j
<1>5. M > 0 /\ new_id(1) = 1 /\ \A i \in live : new_id(i) = 1 <=> i = 1
  <2>1. new_id(1) \in 1 .. M
    BY <1>1, <1>3
  <2>2. PICK i \in live : new_id(i) = 1
    <3>1. 1 \in 1 .. M
      BY <1>3, <2>1
    <3> QED BY <1>3, <3>1
  <2>3. i = 1
    BY <1>1, <1>3, <2>1, <2>2
  <2>4. new_id(1) = 1
    BY <2>2, <2>3
  <2>5. ASSUME NEW j \in live, new_id(j) = 1 PROVE j = 1
    BY <1>1, <1>3, <2>4, <2>5
  <2> QED BY <1>3, <2>1, <2>4, <2>5
<1>6. ASSUME NEW x, x.id \in live PROVE renamed(x) = moved(number, x)
  BY <1>6 DEF renamed, moved, number
<1>7. kept_nodes = [k \in 1 .. M |-> [h |-> renamed(V[old(k)].h), l |-> renamed(V[old(k)].l)]]
  BY DEF kept_nodes
<1>8. \A i \in live : number[i] = new_id(i)
  BY DEF number
<1>9. ASSUME NEW k \in 1 .. M
      PROVE  /\ old(k) \in live /\ new_id(old(k)) = k
             /\ V[old(k)].h \in Ref /\ V[old(k)].h.id \in live
             /\ V[old(k)].l \in Ref /\ V[old(k)].l.id \in live
  <2>1. old(k) \in live /\ new_id(old(k)) = k
    BY <1>3
  <2> HIDE DEF old
  <2>2. old(k) \in 1 .. Len(V)
    BY <1>1, <2>1
  <2>3. V[old(k)].h \in Ref /\ V[old(k)].l \in Ref
    BY <2>2, NodeParts
  <2>4. V[1].h.id = 1 /\ V[1].l.id = 1
    BY DEF T
  <2> QED BY <1>1, <2>1, <2>3, <2>4
<1> HIDE DEF old, M
<1>10. ASSUME NEW k \in 1 .. M PROVE kept_nodes[k] \in Node
  <2>1. /\ renamed(V[old(k)].h) = moved(number, V[old(k)].h)
        /\ renamed(V[old(k)].l) = moved(number, V[old(k)].l)
    BY <1>6, <1>9
  <2>2. number[V[old(k)].h.id] \in Nat \ {0} /\ number[V[old(k)].l.id] \in Nat \ {0}
    BY <1>3, <1>8, <1>9
  <2>3. moved(number, V[old(k)].h) \in Ref /\ moved(number, V[old(k)].l) \in Ref
    BY <1>9, <2>2, MovedIs
  <2>4. kept_nodes[k] = [h |-> renamed(V[old(k)].h), l |-> renamed(V[old(k)].l)]
    BY <1>7
  <2> QED BY <2>1, <2>3, <2>4 DEF Node
<1>11. kept_nodes \in Seq(Node) /\ Len(kept_nodes) = M /\ DOMAIN kept_nodes = 1 .. M
  <2>1. kept_nodes \in [1 .. M -> Node]
    BY <1>7, <1>10
  <2> QED BY <1>3, <2>1
<1>12. kept_nodes[1] = [h |-> T, l |-> T]
  <2>1. old(1) = 1 /\ 1 \in 1 .. M
    BY <1>1, <1>3, <1>4, <1>5
  <2>2. renamed(T) = T
    BY <1>5 DEF renamed, T
  <2>3. kept_nodes[1] = [h |-> renamed(V[1].h), l |-> renamed(V[1].l)]
    BY <1>7, <2>1
  <2> QED BY <2>2, <2>3
<1>13. Renumbers(number, live, V, kept_nodes)
  <2>1. number \in [live -> 1 .. Len(kept_nodes)]
    BY <1>3, <1>11 DEF number
  <2>2. ASSUME NEW i \in live \ {1}
        PROVE  /\ V[i].h.id \in live /\ kept_nodes[number[i]].h = moved(number, V[i].h)
               /\ V[i].l.id \in live /\ kept_nodes[number[i]].l = moved(number, V[i].l)
    <3>1. number[i] \in 1 .. M /\ old(number[i]) = i
      BY <1>3, <1>4, <1>8
    <3>2. kept_nodes[number[i]] = [h |-> renamed(V[i].h), l |-> renamed(V[i].l)]
      BY <1>7, <3>1
    <3> QED BY <1>1, <1>6, <3>2
  <2> QED BY <1>1, <1>5, <1>8, <2>1, <2>2 DEF Renumbers
<1>14. KeepsOrder(number, live, kept_nodes)
  BY <1>3, <1>8, <1>11 DEF KeepsOrder
<1> QED BY <1>1, <1>5, <1>6, <1>11, <1>12, <1>13, <1>14

----------------------------------------------------------------------------
(* The inductive invariant: one list of nodes in normal form, in which every *)
(* handle, every entry of C and every other memo says what it should.        *)

\* in normal form, and a function of 1 .. NVars
Within(nodes, depth, x) == Proper(nodes, x) /\ last_var(depth, x) <= NVars

SoundHandle(nodes, depth, x) ==
  /\ x \in [ref : Ref, fun : SUBSET Assignment]
  /\ Within(nodes, depth, x.ref) /\ meaning(nodes, x.ref) = x.fun

SoundIte(nodes, depth, k, r) ==
  LET f(x) == meaning(nodes, plus_shift(x, 1))
  IN  /\ \A x \in {k[1], k[2], k[3], r} : x \in Ref /\ Within(nodes, depth, plus_shift(x, 1))
      /\ f(r) = ite_of(f(k[1]), f(k[2]), f(k[3]))

all_in(nodes, S) == { s \in Assignment : \A x \in S : s \in meaning(nodes, x) }

SoundMemo(nodes, depth, k, r) ==
  /\ \A x \in k[4] \cup {r} : Within(nodes, depth, x)
  /\ meaning(nodes, r) = renamed_ex(all_in(nodes, k[4]), k[2], k[3])

SoundStore(nodes, depth, c, m, handles) ==
  /\ Normal(nodes) /\ Measures(nodes, depth)
  /\ \A x \in handles : SoundHandle(nodes, depth, x)
  /\ \A k \in DOMAIN c : SoundIte(nodes, depth, k, c[k])
  /\ \A k \in DOMAIN m : SoundMemo(nodes, depth, k, m[k])

Sound == \E depth : SoundStore(V, depth, C, memos, held)

\* Adding nodes leaves all that is said about the others.
LEMMA LongerSound ==
  ASSUME NEW nodes, NEW depth, NEW c, NEW m, NEW handles, SoundStore(nodes, depth, c, m, handles),
         NEW new, NEW deep, Normal(new), Measures(new, deep), Len(nodes) <= Len(new),
         \A i \in 1 .. Len(nodes) : new[i] = nodes[i] /\ deep[i] = depth[i]
  PROVE  SoundStore(new, deep, c, m, handles)
<1>1. PointDown(nodes) /\ PointDown(new) /\ Len(nodes) \in Nat /\ Len(new) \in Nat /\ Measures(nodes, depth)
  BY DEF SoundStore, Normal, PointDown
<1>2. ASSUME NEW x, Within(nodes, depth, x)
      PROVE  Within(new, deep, x) /\ meaning(new, x) = meaning(nodes, x)
  <2>1. Proper(nodes, x) /\ x \in Refs(nodes) /\ x.id \in 1 .. Len(nodes)
    BY <1>1, <1>2, ProperParts DEF Within
  <2>2. Proper(new, x) /\ meaning(new, x) = meaning(nodes, x)
    BY <1>1, <2>1, LongerProper, LongerMeaning
  <2>3. last_var(deep, x) = last_var(depth, x)
    BY <2>1 DEF last_var
  <2> QED BY <1>2, <2>2, <2>3 DEF Within
<1>3. ASSUME NEW x \in handles PROVE SoundHandle(new, deep, x)
  <2>1. SoundHandle(nodes, depth, x)
    BY DEF SoundStore
  <2> QED BY <1>2, <2>1 DEF SoundHandle
<1>4. ASSUME NEW k \in DOMAIN c PROVE SoundIte(new, deep, k, c[k])
  <2>1. SoundIte(nodes, depth, k, c[k])
    BY DEF SoundStore
  <2> QED BY <1>2, <2>1 DEF SoundIte
<1>5. ASSUME NEW k \in DOMAIN m PROVE SoundMemo(new, deep, k, m[k])
  <2>1. SoundMemo(nodes, depth, k, m[k])
    BY DEF SoundStore
  <2>2. \A x \in k[4] \cup {m[k]} : Within(new, deep, x) /\ meaning(new, x) = meaning(nodes, x)
    BY <1>2, <2>1 DEF SoundMemo
  <2>3. all_in(new, k[4]) = all_in(nodes, k[4])
    BY <2>2 DEF all_in
  <2> QED BY <2>1, <2>2, <2>3 DEF SoundMemo
<1> QED BY <1>3, <1>4, <1>5 DEF SoundStore

\* Nor does renumbering, for handles and entries whose nodes all stay.
LEMMA MovedSound ==
  ASSUME NEW nodes, Normal(nodes), NEW depth, NEW new, Normal(new), NEW deep, NEW sigma, NEW L,
         Renumbers(sigma, L, nodes, new), Measures(nodes, depth),
         \A x \in Ref : Proper(nodes, x) /\ x.id \in L => last_var(deep, moved(sigma, x)) = last_var(depth, x)
  PROVE  /\ \A x : Within(nodes, depth, x) /\ x.id \in L =>
              Within(new, deep, moved(sigma, x)) /\ meaning(new, moved(sigma, x)) = meaning(nodes, x)
         /\ \A x : SoundHandle(nodes, depth, x) /\ x.ref.id \in L =>
              SoundHandle(new, deep, [x EXCEPT !.ref = moved(sigma, @)])
         /\ \A k, r : SoundIte(nodes, depth, k, r) /\ {k[1].id, k[2].id, k[3].id, r.id} \subseteq L =>
              SoundIte(new, deep, <<moved(sigma, k[1]), moved(sigma, k[2]), moved(sigma, k[3])>>, moved(sigma, r))
         /\ \A k, r : SoundMemo(nodes, depth, k, r) /\ { x.id : x \in k[4] \cup {r} } \subseteq L =>
              SoundMemo(new, deep, <<k[1], k[2], k[3], { moved(sigma, x) : x \in k[4] }>>, moved(sigma, r))
<1>1. PointDown(nodes) /\ PointDown(new)
  BY DEF Normal
<1>2. ASSUME NEW x, Within(nodes, depth, x), x.id \in L
      PROVE  /\ Within(new, deep, moved(sigma, x)) /\ moved(sigma, x) \in Ref
             /\ meaning(new, moved(sigma, x)) = meaning(nodes, x)
  <2>1. Proper(nodes, x) /\ x \in Refs(nodes) /\ x \in Ref
    BY <1>1, <1>2, ProperParts DEF Within
  <2>2. Proper(new, moved(sigma, x)) /\ meaning(new, moved(sigma, x)) = meaning(nodes, x)
    BY <1>1, <1>2, <2>1, MovedProper, MovedMeaning
  <2>3. last_var(deep, moved(sigma, x)) = last_var(depth, x)
    BY <1>2, <2>1
  <2>4. moved(sigma, x) \in Ref
    BY <1>1, <1>2, <2>1, MovedRef
  <2> QED BY <1>2, <2>2, <2>3, <2>4 DEF Within
<1>3. ASSUME NEW x, SoundHandle(nodes, depth, x), x.ref.id \in L
      PROVE  SoundHandle(new, deep, [x EXCEPT !.ref = moved(sigma, @)])
  <2> DEFINE r == moved(sigma, x.ref)
             y == [x EXCEPT !.ref = r]
  <2>1. Within(new, deep, r) /\ r \in Ref /\ meaning(new, r) = x.fun
    BY <1>2, <1>3 DEF SoundHandle
  <2>2. x \in [ref : Ref, fun : SUBSET Assignment]
    BY <1>3 DEF SoundHandle
  <2>3. y \in [ref : Ref, fun : SUBSET Assignment] /\ y.ref = r /\ y.fun = x.fun
    <3> HIDE DEF r
    <3> QED BY <2>1, <2>2
  <2> HIDE DEF y
  <2>4. SoundHandle(new, deep, y)
    <3> HIDE DEF r
    <3> QED BY <2>1, <2>3 DEF SoundHandle
  <2> QED BY <2>4 DEF y
<1>4. ASSUME NEW x \in Ref, x.id \in L, Within(nodes, depth, plus_shift(x, 1))
      PROVE  /\ moved(sigma, x) \in Ref /\ Within(new, deep, plus_shift(moved(sigma, x), 1))
             /\ meaning(new, plus_shift(moved(sigma, x), 1)) = meaning(nodes, plus_shift(x, 1))
  <2> DEFINE u == plus_shift(moved(sigma, x), 1)
             w == moved(sigma, plus_shift(x, 1))
  <2>1. /\ moved(sigma, x) \in Ref /\ moved(sigma, x).id = sigma[x.id] /\ (leaf(moved(sigma, x)) <=> leaf(x))
        /\ moved(sigma, x).out = x.out /\ moved(sigma, x).inp = x.inp /\ moved(sigma, x).sh = x.sh
    BY <1>1, <1>4, MovedRef
  <2>2. /\ plus_shift(x, 1) \in Ref /\ plus_shift(x, 1).id = x.id
        /\ plus_shift(x, 1).out = x.out /\ plus_shift(x, 1).inp = x.inp
        /\ plus_shift(x, 1).sh = IF leaf(x) THEN x.sh ELSE x.sh + 1
    BY ShiftIs
  <2>3. /\ u \in Ref /\ u.id = sigma[x.id] /\ u.out = x.out /\ u.inp = x.inp
        /\ u.sh = IF leaf(x) THEN x.sh ELSE x.sh + 1
    BY <2>1, ShiftIs
  <2>4. /\ w \in Ref /\ w.id = sigma[x.id] /\ w.out = x.out /\ w.inp = x.inp
        /\ w.sh = IF leaf(x) THEN x.sh ELSE x.sh + 1
    BY <1>1, <1>4, <2>2, MovedRef
  <2>5. u = w
    <3> HIDE DEF u, w
    <3> QED BY <2>3, <2>4, RefEq
  <2>6. Within(new, deep, w) /\ meaning(new, w) = meaning(nodes, plus_shift(x, 1))
    BY <1>2, <1>4, <2>2
  <2> QED BY <2>1, <2>5, <2>6
<1>5. ASSUME NEW k, NEW r, SoundIte(nodes, depth, k, r), {k[1].id, k[2].id, k[3].id, r.id} \subseteq L
      PROVE  SoundIte(new, deep, <<moved(sigma, k[1]), moved(sigma, k[2]), moved(sigma, k[3])>>, moved(sigma, r))
  <2> DEFINE q == <<moved(sigma, k[1]), moved(sigma, k[2]), moved(sigma, k[3])>>
  <2>1. q[1] = moved(sigma, k[1]) /\ q[2] = moved(sigma, k[2]) /\ q[3] = moved(sigma, k[3])
    OBVIOUS
  <2>2. \A x \in {k[1], k[2], k[3], r} :
          /\ moved(sigma, x) \in Ref /\ Within(new, deep, plus_shift(moved(sigma, x), 1))
          /\ meaning(new, plus_shift(moved(sigma, x), 1)) = meaning(nodes, plus_shift(x, 1))
    BY <1>4, <1>5 DEF SoundIte
  <2> HIDE DEF q
  <2>3. SoundIte(new, deep, q, moved(sigma, r))
    BY <1>5, <2>1, <2>2 DEF SoundIte
  <2> QED BY <2>3 DEF q
<1>6. ASSUME NEW k, NEW r, SoundMemo(nodes, depth, k, r), { x.id : x \in k[4] \cup {r} } \subseteq L
      PROVE  SoundMemo(new, deep, <<k[1], k[2], k[3], { moved(sigma, x) : x \in k[4] }>>, moved(sigma, r))
  <2> DEFINE S == { moved(sigma, x) : x \in k[4] }
             q == <<k[1], k[2], k[3], S>>
  <2>1. q[2] = k[2] /\ q[3] = k[3] /\ q[4] = S
    OBVIOUS
  <2>2. \A x \in k[4] \cup {r} :
          /\ Within(new, deep, moved(sigma, x))
          /\ meaning(new, moved(sigma, x)) = meaning(nodes, x)
    BY <1>2, <1>6 DEF SoundMemo
  <2>3. all_in(new, S) = all_in(nodes, k[4])
    BY <2>2 DEF all_in
  <2>4. \A x \in S \cup {moved(sigma, r)} : Within(new, deep, x)
    BY <2>2
  <2> HIDE DEF q, S
  <2>5. SoundMemo(new, deep, q, moved(sigma, r))
    BY <1>6, <2>1, <2>2, <2>3, <2>4 DEF SoundMemo
  <2> QED BY <2>5 DEF q, S
<1> QED BY <1>2, <1>3, <1>5, <1>6

\* The first store: the leaf, true and false.
LEMMA InitSound == NodesInit => Sound
<1> SUFFICES ASSUME NodesInit PROVE Sound
  OBVIOUS
<1> DEFINE depth == [i \in 1 .. 1 |-> 0]
<1>1. T \in Ref /\ F \in Ref /\ leaf(T) /\ leaf(F)
  BY DEF T, F, Ref, leaf
<1>2. /\ V \in Seq(Node) /\ Len(V) = 1 /\ V[1] = [h |-> T, l |-> T]
      /\ C = << >> /\ memos = << >> /\ held = {TrueHandle, FalseHandle}
  BY <1>1 DEF NodesInit, Node
<1>3. PointDown(V) /\ Normal(V)
  BY <1>2 DEF Normal, PointDown
<1>4. Measures(V, depth)
  BY <1>2 DEF Measures
<1>5. Proper(V, T) /\ Proper(V, F) /\ T \in Refs(V) /\ F \in Refs(V)
  BY <1>2 DEF Proper, T, F, Refs, leaf
<1>6. Within(V, depth, T) /\ Within(V, depth, F)
  BY <1>5, BddRefsAssumption DEF Within, last_var, T, F
<1>7. meaning(V, T) = Assignment /\ meaning(V, F) = {}
  <2>1. /\ meaning(V, T) = Body(V, functions(V), T)
        /\ meaning(V, F) = Body(V, functions(V), F)
    BY <1>3, <1>5, MeaningIs
  <2> QED BY <1>1, <2>1 DEF Body, T, F
<1>8. SoundHandle(V, depth, TrueHandle) /\ SoundHandle(V, depth, FalseHandle)
  BY <1>1, <1>6, <1>7 DEF SoundHandle, TrueHandle, FalseHandle
<1>9. DOMAIN C = {} /\ DOMAIN memos = {}
  BY <1>2
<1>10. SoundStore(V, depth, C, memos, held)
  <2> HIDE DEF depth
  <2> QED BY <1>2, <1>3, <1>4, <1>8, <1>9 DEF SoundStore
<1> QED BY <1>10 DEF Sound

\* gc.
LEMMA CollectSound == Sound /\ Collect => Sound'
<1> SUFFICES ASSUME Sound, Collect PROVE Sound'
  OBVIOUS
<1>1. PICK depth : SoundStore(V, depth, C, memos, held)
  BY DEF Sound
<1>2. Normal(V) /\ PointDown(V) /\ Measures(V, depth) /\ V[1] = [h |-> T, l |-> T]
  BY <1>1 DEF SoundStore, Normal
<1>3. \A x \in held : x.ref.id \in 1 .. Len(V)
  BY <1>1, <1>2, ProperParts DEF SoundStore, SoundHandle, Within
<1> DEFINE new == kept_nodes
           sigma == number
           L == live
<1>4. /\ new \in Seq(Node) /\ Len(new) > 0 /\ new[1] = [h |-> T, l |-> T]
      /\ Renumbers(sigma, L, V, new) /\ KeepsOrder(sigma, L, new)
      /\ \A x \in held : x.ref.id \in L
      /\ \A x : x.id \in L => renamed(x) = moved(sigma, x)
  BY <1>2, <1>3, KeptIs
<1> HIDE DEF new, sigma, L
<1>5. PICK deep : /\ Normal(new) /\ Measures(new, deep)
                  /\ \A x \in Ref : Proper(V, x) /\ x.id \in L =>
                       last_var(deep, moved(sigma, x)) = last_var(depth, x)
  BY <1>2, <1>4, MovedNormal
<1>6. /\ \A x : SoundHandle(V, depth, x) /\ x.ref.id \in L =>
           SoundHandle(new, deep, [x EXCEPT !.ref = moved(sigma, @)])
      /\ \A k, r : SoundIte(V, depth, k, r) /\ {k[1].id, k[2].id, k[3].id, r.id} \subseteq L =>
           SoundIte(new, deep, <<moved(sigma, k[1]), moved(sigma, k[2]), moved(sigma, k[3])>>, moved(sigma, r))
      /\ \A k, r : SoundMemo(V, depth, k, r) /\ { x.id : x \in k[4] \cup {r} } \subseteq L =>
           SoundMemo(new, deep, <<k[1], k[2], k[3], { moved(sigma, x) : x \in k[4] }>>, moved(sigma, r))
  BY <1>2, <1>4, <1>5, MovedSound
<1>7. ASSUME NEW y \in updated(held) PROVE SoundHandle(new, deep, y)
  <2>1. PICK x \in held : y = [x EXCEPT !.ref = renamed(@)]
    BY <1>7 DEF updated
  <2>2. x.ref.id \in L /\ renamed(x.ref) = moved(sigma, x.ref) /\ SoundHandle(V, depth, x)
    BY <1>1, <1>4 DEF SoundStore
  <2>3. [x EXCEPT !.ref = renamed(@)] = [x EXCEPT !.ref = moved(sigma, @)]
    BY <2>2
  <2> QED BY <1>6, <2>1, <2>2, <2>3
<1> DEFINE ite_key(k) == <<renamed(k[1]), renamed(k[2]), renamed(k[3])>>
           ite_was(n) == CHOOSE k \in kept_ite : ite_key(k) = n
           c == [n \in { ite_key(k) : k \in kept_ite } |-> renamed(C[ite_was(n)])]
           memo_key(k) == <<k[1], k[2], k[3], { renamed(x) : x \in k[4] }>>
           memo_was(n) == CHOOSE k \in kept_memos : memo_key(k) = n
           m == [n \in { memo_key(k) : k \in kept_memos } |-> renamed(memos[memo_was(n)])]
<1>8. ASSUME NEW n \in DOMAIN c PROVE SoundIte(new, deep, n, c[n])
  <2> DEFINE k == ite_was(n)
  <2>1. k \in kept_ite /\ n = ite_key(k)
    OBVIOUS
  <2>2. c[n] = renamed(C[k])
    OBVIOUS
  <2> HIDE DEF k, c
  <2>3. /\ SoundIte(V, depth, k, C[k]) /\ {k[1].id, k[2].id, k[3].id, C[k].id} \subseteq L
    BY <1>1, <2>1 DEF SoundStore, kept_ite, L
  <2>4. /\ renamed(k[1]) = moved(sigma, k[1]) /\ renamed(k[2]) = moved(sigma, k[2])
        /\ renamed(k[3]) = moved(sigma, k[3]) /\ renamed(C[k]) = moved(sigma, C[k])
    BY <1>4, <2>3
  <2> QED BY <1>6, <2>1, <2>2, <2>3, <2>4
<1>9. ASSUME NEW n \in DOMAIN m PROVE SoundMemo(new, deep, n, m[n])
  <2> DEFINE k == memo_was(n)
  <2>1. k \in kept_memos /\ n = memo_key(k)
    OBVIOUS
  <2>2. m[n] = renamed(memos[k])
    OBVIOUS
  <2> HIDE DEF k, m
  <2>3. /\ SoundMemo(V, depth, k, memos[k]) /\ { x.id : x \in k[4] \cup {memos[k]} } \subseteq L
    BY <1>1, <2>1 DEF SoundStore, kept_memos, L
  <2>4. (\A x \in k[4] : renamed(x) = moved(sigma, x)) /\ renamed(memos[k]) = moved(sigma, memos[k])
    BY <1>4, <2>3
  <2>5. { renamed(x) : x \in k[4] } = { moved(sigma, x) : x \in k[4] }
    BY <2>4
  <2> QED BY <1>6, <2>1, <2>2, <2>3, <2>4, <2>5
<1>10. collected = [V |-> new, C |-> c, memos |-> m]
  BY DEF collected, new
<1>11. V' = new /\ C' = c /\ memos' = m /\ held' = updated(held)
  <2> HIDE DEF c, m
  <2> QED BY <1>10 DEF Collect
<1> HIDE DEF c, m
<1>12. SoundStore(new, deep, c, m, updated(held))
  BY <1>5, <1>7, <1>8, <1>9 DEF SoundStore
<1> QED BY <1>11, <1>12 DEF Sound

\* The last handle of a function goes.
LEMMA LetGoSound == ASSUME NEW x PROVE Sound /\ LetGo(x) => Sound'
BY DEF Sound, LetGo, SoundStore

\* add.
LEMMA AddSound ==
  ASSUME NEW v \in 1 .. NVars, NEW x \in held, NEW y \in held
  PROVE  Sound /\ Add(v, x, y) => Sound'
<1> SUFFICES ASSUME Sound, Add(v, x, y) PROVE Sound'
  OBVIOUS
<1>1. PICK depth : SoundStore(V, depth, C, memos, held)
  BY DEF Sound
<1>2. Normal(V) /\ Measures(V, depth) /\ PointDown(V)
  BY <1>1 DEF SoundStore, Normal
<1>3. /\ Within(V, depth, x.ref) /\ meaning(V, x.ref) = x.fun /\ x.fun \subseteq Assignment
      /\ Within(V, depth, y.ref) /\ meaning(V, y.ref) = y.fun /\ y.fun \subseteq Assignment
  BY <1>1 DEF SoundStore, SoundHandle
<1>4. (leaf(x.ref) \/ v < x.ref.sh) /\ (leaf(y.ref) \/ v < y.ref.sh)
  <2>1. x.ref.sh \in Nat /\ y.ref.sh \in Nat
    BY <1>2, <1>3, ProperParts DEF Within
  <2> QED BY <2>1 DEF Add, from
<1> DEFINE new == added(V, v, x.ref, y.ref).nodes
           r == added(V, v, x.ref, y.ref).ref
           f == ite_of(bit(v, TRUE), x.fun, y.fun)
<1>5. /\ Normal(new) /\ Len(V) <= Len(new) /\ \A k \in 1 .. Len(V) : new[k] = V[k]
      /\ \E deep : /\ Measures(new, deep) /\ \A k \in 1 .. Len(V) : deep[k] = depth[k]
                   /\ Proper(new, r) /\ last_var(deep, r) <= NVars
      /\ meaning(new, r) = f
  <2> DEFINE a == x.ref
             b == y.ref
  <2>1. /\ Proper(V, a) /\ last_var(depth, a) <= NVars /\ (leaf(a) \/ v < a.sh) /\ meaning(V, a) = x.fun
        /\ Proper(V, b) /\ last_var(depth, b) <= NVars /\ (leaf(b) \/ v < b.sh) /\ meaning(V, b) = y.fun
    BY <1>3, <1>4 DEF Within
  <2> HIDE DEF a, b
  <2>2. Adds(V, depth, ite_of(bit(v, TRUE), meaning(V, a), meaning(V, b)),
             added(V, v, a, b).nodes, added(V, v, a, b).ref)
    BY <1>2, <2>1, AddedIs
  <2>3. Adds(V, depth, f, new, r)
    BY <2>1, <2>2 DEF a, b
  <2> HIDE DEF new, r, f
  <2> QED BY <2>3 DEF Adds
<1>6. V' = new /\ held' = held \cup {[ref |-> r, fun |-> f]} /\ C' = C /\ memos' = memos
  BY DEF Add, Hold
<1>7. f \subseteq Assignment
  BY <1>3 DEF ite_of
<1> HIDE DEF new, r, f
<1>8. PICK deep : /\ Measures(new, deep) /\ \A k \in 1 .. Len(V) : deep[k] = depth[k]
                  /\ Proper(new, r) /\ last_var(deep, r) <= NVars
  BY <1>5
<1>9. SoundStore(new, deep, C, memos, held)
  BY <1>1, <1>5, <1>8, LongerSound
<1>10. r \in Ref
  <2>1. PointDown(new)
    BY <1>5 DEF Normal
  <2> QED BY <1>8, <2>1, ProperParts
<1>11. SoundHandle(new, deep, [ref |-> r, fun |-> f])
  BY <1>5, <1>7, <1>8, <1>10 DEF SoundHandle, Within
<1>12. SoundStore(new, deep, C, memos, held \cup {[ref |-> r, fun |-> f]})
  BY <1>9, <1>11 DEF SoundStore
<1> QED BY <1>6, <1>12 DEF Sound

\* One more handle.
LEMMA HoldSound ==
  ASSUME NEW r, NEW f, NEW depth, SoundStore(V, depth, C, memos, held),
         Within(V, depth, r), meaning(V, r) = f
  PROVE  Hold(r, f) /\ UNCHANGED <<V, C, memos>> => Sound'
<1> SUFFICES ASSUME Hold(r, f), UNCHANGED <<V, C, memos>> PROVE Sound'
  OBVIOUS
<1>1. PointDown(V) /\ Measures(V, depth)
  BY DEF SoundStore, Normal
<1>2. r \in Ref /\ r \in Refs(V)
  BY <1>1, ProperParts DEF Within
<1>3. f \subseteq Assignment
  BY <1>1, <1>2, MeaningTyped
<1>4. SoundHandle(V, depth, [ref |-> r, fun |-> f])
  BY <1>2, <1>3 DEF SoundHandle
<1>5. SoundStore(V, depth, C, memos, held \cup {[ref |-> r, fun |-> f]})
  BY <1>4 DEF SoundStore
<1> QED BY <1>5 DEF Sound, Hold

\* ~.
LEMMA InvertSound == ASSUME NEW x \in held PROVE Sound /\ Invert(x) => Sound'
<1> SUFFICES ASSUME Sound, Invert(x) PROVE Sound'
  OBVIOUS
<1>1. PICK depth : SoundStore(V, depth, C, memos, held)
  BY DEF Sound
<1>2. Measures(V, depth) /\ PointDown(V)
  BY <1>1 DEF SoundStore, Normal
<1> DEFINE r == x.ref
<1>3. Proper(V, r) /\ last_var(depth, r) <= NVars /\ meaning(V, r) = x.fun
  BY <1>1 DEF SoundStore, SoundHandle, Within
<1> HIDE DEF r
<1>4. r \in Ref /\ r \in Refs(V)
  BY <1>2, <1>3, ProperParts
<1>5. flip(r) \in Refs(V) /\ meaning(V, flip(r)) = Assignment \ meaning(V, r)
  BY <1>2, <1>4, Complement
<1>6. flip(r).id = r.id /\ flip(r).sh = r.sh /\ flip(r).inp = r.inp
  BY <1>4, FlipIs
<1>7. Within(V, depth, flip(r))
  BY <1>3, <1>5, <1>6 DEF Within, Proper, last_var, leaf
<1>8. Hold(flip(r), Assignment \ x.fun) /\ UNCHANGED <<V, C, memos>>
  BY DEF Invert, r
<1> QED BY <1>1, <1>3, <1>5, <1>7, <1>8, HoldSound

\* hi and lo.
LEMMA BranchSound == ASSUME NEW x \in held, NEW high \in BOOLEAN PROVE Sound /\ Branch(x, high) => Sound'
<1> SUFFICES ASSUME Sound, Branch(x, high) PROVE Sound'
  OBVIOUS
<1>1. PICK depth : SoundStore(V, depth, C, memos, held)
  BY DEF Sound
<1>2. Normal(V) /\ Measures(V, depth) /\ PointDown(V)
  BY <1>1 DEF SoundStore, Normal
<1> DEFINE r == x.ref
           g == get(V, r)
<1>3. Proper(V, r) /\ last_var(depth, r) <= NVars /\ meaning(V, r) = x.fun
  BY <1>1 DEF SoundStore, SoundHandle, Within
<1>4. /\ ~leaf(r) /\ UNCHANGED <<V, C, memos>>
      /\ Hold(IF high THEN g.h ELSE g.l, cofactor(x.fun, r.sh, high))
  BY DEF Branch
<1> HIDE DEF r
<1>5. /\ Proper(V, g.h) /\ last_var(depth, g.h) <= last_var(depth, r)
      /\ Proper(V, g.l) /\ last_var(depth, g.l) <= last_var(depth, r)
  BY <1>2, <1>3, <1>4, GetProper
<1>6. /\ last_var(depth, r) \in Nat /\ last_var(depth, g.h) \in Nat /\ last_var(depth, g.l) \in Nat
      /\ g.h \in Refs(V) /\ g.l \in Refs(V)
  BY <1>2, <1>3, <1>5, ProperParts
<1>7. Within(V, depth, g.h) /\ Within(V, depth, g.l)
  BY <1>3, <1>5, <1>6, BddRefsAssumption DEF Within
<1>8. meaning(V, g.h) \subseteq Assignment /\ meaning(V, g.l) \subseteq Assignment
  BY <1>2, <1>6, MeaningTyped
<1>9. \A s \in Assignment :
        /\ s \in meaning(V, g.h) <=> s \cup {r.sh} \in meaning(V, r)
        /\ s \in meaning(V, g.l) <=> s \ {r.sh} \in meaning(V, r)
  BY <1>2, <1>3, <1>4, Branches
<1> HIDE DEF g
<1>10. meaning(V, g.h) = cofactor(x.fun, r.sh, TRUE) /\ meaning(V, g.l) = cofactor(x.fun, r.sh, FALSE)
  BY <1>3, <1>8, <1>9 DEF cofactor
<1>11. CASE high
  BY <1>1, <1>4, <1>7, <1>10, <1>11, HoldSound
<1>12. CASE ~high
  BY <1>1, <1>4, <1>7, <1>10, <1>12, HoldSound
<1> QED BY <1>11, <1>12

\* A function of the first b variables does not tell assignments apart that
\* agree on those.
LEMMA UpTo ==
  ASSUME NEW nodes, Normal(nodes), NEW depth, Measures(nodes, depth),
         NEW x, Proper(nodes, x), NEW b \in Nat, last_var(depth, x) <= b,
         NEW s \in Assignment, NEW t \in Assignment, s \cap (1 .. b) = t \cap (1 .. b)
  PROVE  s \in meaning(nodes, x) <=> t \in meaning(nodes, x)
<1> DEFINE close(u, m) == \A v \in 1 .. NVars : v <= b \/ v > b + m => (v \in s <=> v \in u)
           X == { m \in Nat : \A u \in Assignment :
                    close(u, m) => (s \in meaning(nodes, x) <=> u \in meaning(nodes, x)) }
<1>0. NVars \in Nat /\ last_var(depth, x) \in Nat
  <2>1. PointDown(nodes)
    BY DEF Normal
  <2> QED BY <2>1, ProperParts, BddRefsAssumption
<1>1. 0 \in X
  <2> SUFFICES ASSUME NEW u \in Assignment, close(u, 0)
               PROVE  s \in meaning(nodes, x) <=> u \in meaning(nodes, x)
    OBVIOUS
  <2>1. \A v \in 1 .. NVars : v \in s <=> v \in u
    BY <1>0
  <2>2. s = u
    BY <2>1 DEF Assignment
  <2> QED BY <2>2
<1>2. ASSUME NEW m \in Nat, m \in X PROVE m + 1 \in X
  <2> SUFFICES ASSUME NEW u \in Assignment, close(u, m + 1)
               PROVE  s \in meaning(nodes, x) <=> u \in meaning(nodes, x)
    OBVIOUS
  <2> DEFINE v == b + m + 1
             w == (u \ {v}) \cup (s \cap {v})
  <2>1. v \in Nat /\ v > last_var(depth, x)
    BY <1>0
  <2>2. w \in Assignment /\ w \ {v} = u \ {v}
    BY DEF Assignment
  <2>3. close(w, m)
    <3> SUFFICES ASSUME NEW j \in 1 .. NVars, j <= b \/ j > b + m PROVE j \in s <=> j \in w
      OBVIOUS
    <3>1. CASE j = v
      BY <3>1
    <3>2. CASE j # v
      <4>1. j <= b \/ j > b + (m + 1)
        BY <1>0, <3>2
      <4>2. j \in s <=> j \in u
        BY <4>1
      <4> QED BY <3>2, <4>2
    <3> QED BY <3>1, <3>2
  <2> HIDE DEF v, w
  <2>4. s \in meaning(nodes, x) <=> w \in meaning(nodes, x)
    BY <1>2, <2>2, <2>3
  <2>5. w \in meaning(nodes, x) <=> u \in meaning(nodes, x)
    BY <2>1, <2>2, Untouched
  <2> QED BY <2>4, <2>5
<1>3. NVars \in X
  <2> HIDE DEF X
  <2> QED BY <1>0, <1>1, <1>2, SetInduction
<1>4. close(t, NVars)
  <2> SUFFICES ASSUME NEW v \in 1 .. NVars, v <= b \/ v > b + NVars PROVE v \in s <=> v \in t
    OBVIOUS
  <2>1. v \in 1 .. b
    BY <1>0
  <2> QED BY <2>1
<1> QED BY <1>3, <1>4

LEMMA MinusIs ==
  ASSUME NEW x \in Ref, NEW n \in Nat, leaf(x) \/ n <= x.sh
  PROVE  /\ minus_shift(x, n) \in Ref /\ minus_shift(x, n).id = x.id
         /\ minus_shift(x, n).out = x.out /\ minus_shift(x, n).inp = x.inp
         /\ minus_shift(x, n).sh = IF leaf(x) THEN x.sh ELSE x.sh - n
BY DEF Ref, minus_shift, leaf

LEMMA PlusPlus ==
  ASSUME NEW x \in Ref, NEW a \in Nat, NEW b \in Nat
  PROVE  plus_shift(plus_shift(x, a), b) = plus_shift(x, a + b)
<1> DEFINE y == plus_shift(x, a)
           u == plus_shift(y, b)
           w == plus_shift(x, a + b)
<1>1. /\ y \in Ref /\ y.id = x.id /\ y.out = x.out /\ y.inp = x.inp /\ (leaf(y) <=> leaf(x))
      /\ y.sh = IF leaf(x) THEN x.sh ELSE x.sh + a
  BY ShiftIs DEF leaf
<1> HIDE DEF y
<1>2. /\ u \in Ref /\ u.id = x.id /\ u.out = x.out /\ u.inp = x.inp
      /\ u.sh = IF leaf(x) THEN y.sh ELSE y.sh + b
  BY <1>1, ShiftIs
<1>3. /\ w \in Ref /\ w.id = x.id /\ w.out = x.out /\ w.inp = x.inp
      /\ w.sh = IF leaf(x) THEN x.sh ELSE x.sh + (a + b)
  BY ShiftIs
<1> HIDE DEF u, w
<1>4. u.sh = w.sh
  BY <1>1, <1>2, <1>3 DEF Ref
<1>5. u = w
  BY <1>2, <1>3, <1>4, RefEq
<1> QED BY <1>5 DEF u, w, y

LEMMA ShiftProper ==
  ASSUME NEW nodes, PointDown(nodes), NEW depth, Measures(nodes, depth), NEW x, Proper(nodes, x), NEW k \in Nat
  PROVE  /\ Proper(nodes, plus_shift(x, k))
         /\ last_var(depth, plus_shift(x, k)) = IF leaf(x) THEN 0 ELSE last_var(depth, x) + k
<1> DEFINE y == plus_shift(x, k)
<1>1. /\ x \in Refs(nodes) /\ x \in Ref /\ x.sh \in Nat /\ x.id \in 1 .. Len(nodes) /\ Len(nodes) \in Nat
      /\ (leaf(x) => x.sh = 0 /\ last_var(depth, x) = 0) /\ (~leaf(x) => x.sh > 0)
  BY ProperParts DEF PointDown
<1>2. /\ y \in Ref /\ y.id = x.id /\ y.out = x.out /\ y.inp = x.inp /\ (leaf(y) <=> leaf(x))
      /\ y.sh = IF leaf(x) THEN x.sh ELSE x.sh + k
  BY <1>1, ShiftIs DEF leaf
<1>3. depth[x.id] \in Nat
  BY <1>1 DEF Measures
<1> HIDE DEF y
<1>4. y \in Refs(nodes)
  BY <1>1, <1>2 DEF Refs, Ref
<1>5. Proper(nodes, y)
  BY <1>1, <1>2, <1>4 DEF Proper
<1>6. last_var(depth, y) = IF leaf(x) THEN 0 ELSE last_var(depth, x) + k
  BY <1>1, <1>2, <1>3 DEF last_var
<1> QED BY <1>5, <1>6 DEF y

\* An entry of C is shifted to 0, where it would be about the variables before 1:
\* one up again, it is a reference like another.
LEMMA EntryProper ==
  ASSUME NEW nodes, PointDown(nodes), NEW depth, Measures(nodes, depth), NEW x, Proper(nodes, x),
         last_var(depth, x) <= NVars, NEW n \in 1 .. NVars, from(n, x)
  PROVE  LET y == plus_shift(minus_shift(x, n), 1)
         IN  /\ minus_shift(x, n) \in Ref /\ Proper(nodes, y) /\ plus_shift(y, n - 1) = x
             /\ last_var(depth, y) <= NVars - (n - 1) /\ last_var(depth, y) <= NVars
<1> DEFINE m == minus_shift(x, n)
           y == plus_shift(m, 1)
           z == plus_shift(y, n - 1)
<1>1. /\ x \in Refs(nodes) /\ x \in Ref /\ x.sh \in Nat /\ x.id \in 1 .. Len(nodes) /\ Len(nodes) \in Nat
      /\ (leaf(x) => x.sh = 0 /\ last_var(depth, x) = 0) /\ (~leaf(x) => x.sh > 0)
      /\ n \in Nat /\ n - 1 \in Nat /\ NVars \in Nat /\ n <= NVars
  BY ProperParts, BddRefsAssumption DEF PointDown
<1>2. leaf(x) \/ n <= x.sh
  BY DEF from
<1>3. /\ m \in Ref /\ m.id = x.id /\ m.out = x.out /\ m.inp = x.inp /\ (leaf(m) <=> leaf(x))
      /\ m.sh = IF leaf(x) THEN x.sh ELSE x.sh - n
  BY <1>1, <1>2, MinusIs DEF leaf
<1> HIDE DEF m
<1>4. /\ y \in Ref /\ y.id = x.id /\ y.out = x.out /\ y.inp = x.inp /\ (leaf(y) <=> leaf(x))
      /\ y.sh = IF leaf(x) THEN m.sh ELSE m.sh + 1
  BY <1>3, ShiftIs DEF leaf
<1> HIDE DEF y
<1>5. y.sh \in Nat /\ (leaf(x) => y.sh = 0) /\ (~leaf(x) => y.sh = x.sh - n + 1 /\ y.sh > 0)
  BY <1>1, <1>2, <1>3, <1>4
<1>6. y \in Refs(nodes)
  BY <1>1, <1>4 DEF Refs, Ref
<1>7. Proper(nodes, y)
  BY <1>1, <1>4, <1>5, <1>6 DEF Proper
<1>8. z = x
  <2>1. /\ z \in Ref /\ z.id = x.id /\ z.out = x.out /\ z.inp = x.inp
        /\ z.sh = IF leaf(x) THEN y.sh ELSE y.sh + (n - 1)
    BY <1>1, <1>4, ShiftIs
  <2>2. z.sh = x.sh
    BY <1>1, <1>5, <2>1
  <2> HIDE DEF z
  <2> QED BY <1>1, <2>1, <2>2, RefEq
<1>9. depth[x.id] \in Nat /\ depth[1] = 0
  BY <1>1 DEF Measures
<1>10. last_var(depth, y) <= NVars - (n - 1) /\ last_var(depth, y) <= NVars
  <2>1. CASE leaf(x)
    BY <1>1, <1>4, <1>5, <1>9, <2>1 DEF last_var, leaf
  <2>2. CASE ~leaf(x)
    BY <1>1, <1>4, <1>5, <1>9, <2>2 DEF last_var
  <2> QED BY <2>1, <2>2
<1> QED BY <1>3, <1>7, <1>8, <1>10 DEF m, y

\* A choice stays a choice when all of it is shifted.
LEMMA ShiftIte ==
  ASSUME NEW nodes, Normal(nodes), NEW depth, Measures(nodes, depth), NEW k \in Nat, k <= NVars,
         NEW x, Proper(nodes, x), last_var(depth, x) <= NVars - k,
         NEW y, Proper(nodes, y), last_var(depth, y) <= NVars - k,
         NEW z, Proper(nodes, z), last_var(depth, z) <= NVars - k,
         NEW r, Proper(nodes, r), last_var(depth, r) <= NVars - k
  PROVE  meaning(nodes, r) = ite_of(meaning(nodes, x), meaning(nodes, y), meaning(nodes, z))
           <=> meaning(nodes, plus_shift(r, k)) =
                 ite_of(meaning(nodes, plus_shift(x, k)), meaning(nodes, plus_shift(y, k)),
                        meaning(nodes, plus_shift(z, k)))
<1> DEFINE f(a) == meaning(nodes, a)
           g(a) == meaning(nodes, plus_shift(a, k))
           A == {x, y, z, r}
<1>0. PointDown(nodes) /\ NVars \in Nat /\ NVars - k \in Nat
  BY BddRefsAssumption DEF Normal
<1>1. ASSUME NEW a \in A
      PROVE  /\ Proper(nodes, a) /\ last_var(depth, a) <= NVars - k
             /\ f(a) \subseteq Assignment /\ g(a) \subseteq Assignment
  <2>1. Proper(nodes, a) /\ last_var(depth, a) <= NVars - k
    OBVIOUS
  <2>2. a \in Refs(nodes) /\ plus_shift(a, k) \in Refs(nodes)
    BY <1>0, <2>1, ShiftProper DEF Proper
  <2> QED BY <1>0, <2>1, <2>2, MeaningTyped
<1>2. ASSUME NEW s \in Assignment PROVE \A a \in A : s \in g(a) <=> down(s, k) \in f(a)
  BY <1>1, ShiftMeaning
<1>3. ASSUME NEW s \in Assignment PROVE down(s, k) \in Assignment
  BY DEF down, Assignment
<1>4. ASSUME NEW t \in Assignment
      PROVE  \E s \in Assignment : \A a \in A : t \in f(a) <=> s \in g(a)
  <2> DEFINE s == { v \in 1 .. NVars : v > k /\ v - k \in t }
             b == NVars - k
  <2>1. s \in Assignment
    BY DEF Assignment
  <2>2. down(s, k) \cap (1 .. b) = t \cap (1 .. b)
    <3>1. ASSUME NEW v \in 1 .. b PROVE v \in down(s, k) <=> v \in t
      <4>1. v \in 1 .. NVars /\ v + k \in 1 .. NVars /\ v + k > k /\ (v + k) - k = v
        BY <1>0
      <4>2. v \in down(s, k) <=> v + k \in s
        BY <4>1 DEF down
      <4> QED BY <4>1, <4>2
    <3> HIDE DEF s, b
    <3> QED BY <3>1
  <2> HIDE DEF s
  <2>3. ASSUME NEW a \in A PROVE t \in f(a) <=> s \in g(a)
    <3>1. down(s, k) \in f(a) <=> t \in f(a)
      <4>1. down(s, k) \in Assignment /\ Proper(nodes, a) /\ last_var(depth, a) <= b /\ b \in Nat
        BY <1>0, <1>1, <1>3, <2>1
      <4> HIDE DEF b
      <4> QED BY <2>2, <4>1, UpTo
    <3> QED BY <1>2, <2>1, <3>1
  <2> QED BY <2>1, <2>3
<1>5. ASSUME f(r) = ite_of(f(x), f(y), f(z)) PROVE g(r) = ite_of(g(x), g(y), g(z))
  <2>1. ASSUME NEW s \in Assignment PROVE s \in g(r) <=> s \in ite_of(g(x), g(y), g(z))
    <3>1. /\ s \in g(x) <=> down(s, k) \in f(x)
          /\ s \in g(y) <=> down(s, k) \in f(y)
          /\ s \in g(z) <=> down(s, k) \in f(z)
          /\ s \in g(r) <=> down(s, k) \in f(r)
      BY <1>2
    <3> HIDE DEF f, g
    <3> QED BY <1>5, <3>1 DEF ite_of
  <2>2. g(r) \subseteq Assignment /\ ite_of(g(x), g(y), g(z)) \subseteq Assignment
    BY <1>1 DEF ite_of
  <2> HIDE DEF f, g
  <2> QED BY <2>1, <2>2
<1>6. ASSUME g(r) = ite_of(g(x), g(y), g(z)) PROVE f(r) = ite_of(f(x), f(y), f(z))
  <2>1. ASSUME NEW t \in Assignment PROVE t \in f(r) <=> t \in ite_of(f(x), f(y), f(z))
    <3>1. PICK s \in Assignment : \A a \in A : t \in f(a) <=> s \in g(a)
      BY <1>4
    <3>2. /\ t \in f(x) <=> s \in g(x)
          /\ t \in f(y) <=> s \in g(y)
          /\ t \in f(z) <=> s \in g(z)
          /\ t \in f(r) <=> s \in g(r)
      BY <3>1
    <3> HIDE DEF f, g
    <3> QED BY <1>6, <3>2 DEF ite_of
  <2>2. f(r) \subseteq Assignment /\ ite_of(f(x), f(y), f(z)) \subseteq Assignment
    BY <1>1 DEF ite_of
  <2> HIDE DEF f, g
  <2> QED BY <2>1, <2>2
<1> QED BY <1>5, <1>6

\* An answer goes into C under its shifted question.
LEMMA RememberIteSound ==
  ASSUME NEW n \in 1 .. NVars, NEW x \in held, NEW y \in held, NEW z \in held, NEW r \in held
  PROVE  Sound /\ RememberIte(x, y, z, r, n) => Sound'
<1> SUFFICES ASSUME Sound, RememberIte(x, y, z, r, n) PROVE Sound'
  OBVIOUS
<1>1. PICK depth : SoundStore(V, depth, C, memos, held)
  BY DEF Sound
<1>2. Normal(V) /\ Measures(V, depth) /\ PointDown(V) /\ n - 1 \in Nat /\ n - 1 <= NVars
  BY <1>1, BddRefsAssumption DEF SoundStore, Normal
<1> DEFINE low(a) == minus_shift(a.ref, n)
           base(a) == plus_shift(low(a), 1)
           key == <<low(x), low(y), low(z)>>
<1>3. ASSUME NEW a \in {x, y, z, r}
      PROVE  /\ low(a) \in Ref /\ Proper(V, base(a)) /\ plus_shift(base(a), n - 1) = a.ref
             /\ last_var(depth, base(a)) <= NVars - (n - 1) /\ last_var(depth, base(a)) <= NVars
             /\ meaning(V, a.ref) = a.fun
  <2> DEFINE q == a.ref
  <2>1. Proper(V, q) /\ last_var(depth, q) <= NVars /\ meaning(V, q) = a.fun
    BY <1>1 DEF SoundStore, SoundHandle, Within
  <2>2. from(n, q)
    BY DEF RememberIte
  <2> HIDE DEF q
  <2>3. /\ minus_shift(q, n) \in Ref /\ Proper(V, plus_shift(minus_shift(q, n), 1))
        /\ plus_shift(plus_shift(minus_shift(q, n), 1), n - 1) = q
        /\ last_var(depth, plus_shift(minus_shift(q, n), 1)) <= NVars - (n - 1)
        /\ last_var(depth, plus_shift(minus_shift(q, n), 1)) <= NVars
    BY <1>2, <2>1, <2>2, EntryProper
  <2> QED BY <2>1, <2>3 DEF q
<1>4. /\ r.fun = ite_of(x.fun, y.fun, z.fun) /\ V' = V /\ memos' = memos /\ held' = held
      /\ C' = [k \in DOMAIN C \cup {key} |-> IF k \in DOMAIN C THEN C[k] ELSE low(r)]
  BY DEF RememberIte, ite_key_of
<1> HIDE DEF low, key
<1>5. meaning(V, base(r)) = ite_of(meaning(V, base(x)), meaning(V, base(y)), meaning(V, base(z)))
  <2> DEFINE bx == base(x)
             by == base(y)
             bz == base(z)
             br == base(r)
  <2>1. /\ Proper(V, bx) /\ last_var(depth, bx) <= NVars - (n - 1) /\ plus_shift(bx, n - 1) = x.ref
        /\ Proper(V, by) /\ last_var(depth, by) <= NVars - (n - 1) /\ plus_shift(by, n - 1) = y.ref
        /\ Proper(V, bz) /\ last_var(depth, bz) <= NVars - (n - 1) /\ plus_shift(bz, n - 1) = z.ref
        /\ Proper(V, br) /\ last_var(depth, br) <= NVars - (n - 1) /\ plus_shift(br, n - 1) = r.ref
    BY <1>3
  <2>2. meaning(V, r.ref) = ite_of(meaning(V, x.ref), meaning(V, y.ref), meaning(V, z.ref))
    BY <1>3, <1>4
  <2> HIDE DEF bx, by, bz, br
  <2>3. meaning(V, br) = ite_of(meaning(V, bx), meaning(V, by), meaning(V, bz))
    BY <1>2, <2>1, <2>2, ShiftIte
  <2> QED BY <2>3 DEF bx, by, bz, br
<1>6. SoundIte(V, depth, key, low(r))
  <2>1. key[1] = low(x) /\ key[2] = low(y) /\ key[3] = low(z)
    BY DEF key
  <2>2. \A a \in {low(x), low(y), low(z), low(r)} : a \in Ref /\ Within(V, depth, plus_shift(a, 1))
    BY <1>3 DEF Within
  <2> QED BY <1>5, <2>1, <2>2 DEF SoundIte
<1>7. \A k \in DOMAIN C' : SoundIte(V, depth, k, C'[k])
  <2>1. \A k \in DOMAIN C : SoundIte(V, depth, k, C[k])
    BY <1>1 DEF SoundStore
  <2>2. DOMAIN C' = DOMAIN C \cup {key}
    BY <1>4
  <2>3. \A k \in DOMAIN C' : C'[k] = IF k \in DOMAIN C THEN C[k] ELSE low(r)
    BY <1>4
  <2> QED BY <1>6, <2>1, <2>2, <2>3
<1>8. SoundStore(V, depth, C', memos, held)
  BY <1>1, <1>7 DEF SoundStore
<1> QED BY <1>4, <1>8 DEF Sound

\* A question answered from C, for other variables than it was asked for.
LEMMA RecallIteSound ==
  ASSUME NEW n \in 1 .. NVars, NEW x \in held, NEW y \in held, NEW z \in held
  PROVE  Sound /\ RecallIte(x, y, z, n) => Sound'
<1> SUFFICES ASSUME Sound, RecallIte(x, y, z, n) PROVE Sound'
  OBVIOUS
<1>1. PICK depth : SoundStore(V, depth, C, memos, held)
  BY DEF Sound
<1>2. /\ Normal(V) /\ Measures(V, depth) /\ PointDown(V) /\ NVars \in Nat
      /\ n - 1 \in Nat /\ n - 1 <= NVars /\ NVars - (n - 1) \in Nat /\ 1 + (n - 1) = n
  BY <1>1, BddRefsAssumption DEF SoundStore, Normal
<1> DEFINE low(a) == minus_shift(a.ref, n)
           base(a) == plus_shift(low(a), 1)
           key == <<low(x), low(y), low(z)>>
<1>3. ASSUME NEW a \in {x, y, z}
      PROVE  /\ low(a) \in Ref /\ Proper(V, base(a)) /\ plus_shift(base(a), n - 1) = a.ref
             /\ last_var(depth, base(a)) <= NVars - (n - 1) /\ last_var(depth, base(a)) <= NVars
             /\ meaning(V, a.ref) = a.fun
  <2> DEFINE q == a.ref
  <2>1. Proper(V, q) /\ last_var(depth, q) <= NVars /\ meaning(V, q) = a.fun
    BY <1>1 DEF SoundStore, SoundHandle, Within
  <2>2. from(n, q)
    BY DEF RecallIte
  <2> HIDE DEF q
  <2>3. /\ minus_shift(q, n) \in Ref /\ Proper(V, plus_shift(minus_shift(q, n), 1))
        /\ plus_shift(plus_shift(minus_shift(q, n), 1), n - 1) = q
        /\ last_var(depth, plus_shift(minus_shift(q, n), 1)) <= NVars - (n - 1)
        /\ last_var(depth, plus_shift(minus_shift(q, n), 1)) <= NVars
    BY <1>2, <2>1, <2>2, EntryProper
  <2> QED BY <2>1, <2>3 DEF q
<1>4. /\ key \in DOMAIN C /\ UNCHANGED <<V, C, memos>>
      /\ Hold(plus_shift(C[key], n), ite_of(x.fun, y.fun, z.fun))
  BY DEF RecallIte, ite_key_of
<1> DEFINE bx == base(x)
           by == base(y)
           bz == base(z)
           br == plus_shift(C[key], 1)
<1>5. C[key] \in Ref /\ Within(V, depth, br) /\ meaning(V, br) = ite_of(meaning(V, bx), meaning(V, by), meaning(V, bz))
  <2>1. SoundIte(V, depth, key, C[key])
    BY <1>1, <1>4 DEF SoundStore
  <2>2. key[1] = low(x) /\ key[2] = low(y) /\ key[3] = low(z)
    OBVIOUS
  <2> HIDE DEF key, low
  <2> QED BY <2>1, <2>2 DEF SoundIte
<1>6. /\ Proper(V, bx) /\ last_var(depth, bx) <= NVars - (n - 1) /\ plus_shift(bx, n - 1) = x.ref
      /\ Proper(V, by) /\ last_var(depth, by) <= NVars - (n - 1) /\ plus_shift(by, n - 1) = y.ref
      /\ Proper(V, bz) /\ last_var(depth, bz) <= NVars - (n - 1) /\ plus_shift(bz, n - 1) = z.ref
      /\ meaning(V, x.ref) = x.fun /\ meaning(V, y.ref) = y.fun /\ meaning(V, z.ref) = z.fun
  BY <1>3
<1>7. plus_shift(br, n - 1) = plus_shift(C[key], n)
  BY <1>2, <1>5, PlusPlus
<1> HIDE DEF bx, by, bz, br, key
<1>8. Proper(V, br) /\ last_var(depth, br) <= NVars - (n - 1)
  BY <1>2, <1>5, <1>6, IteLast DEF Within
<1>9. meaning(V, plus_shift(br, n - 1)) = ite_of(x.fun, y.fun, z.fun)
  <2>1. meaning(V, plus_shift(br, n - 1)) =
          ite_of(meaning(V, plus_shift(bx, n - 1)), meaning(V, plus_shift(by, n - 1)), meaning(V, plus_shift(bz, n - 1)))
    BY <1>2, <1>5, <1>6, <1>8, ShiftIte
  <2> QED BY <1>6, <2>1
<1>10. Within(V, depth, plus_shift(br, n - 1))
  <2>1. /\ Proper(V, plus_shift(br, n - 1))
        /\ last_var(depth, plus_shift(br, n - 1)) = IF leaf(br) THEN 0 ELSE last_var(depth, br) + (n - 1)
    BY <1>2, <1>8, ShiftProper
  <2>2. last_var(depth, br) \in Nat
    BY <1>2, <1>8, ProperParts
  <2> QED BY <1>2, <1>8, <2>1, <2>2 DEF Within
<1> QED BY <1>1, <1>4, <1>7, <1>9, <1>10, HoldSound

\* What handles' references mean together is what their functions do.
LEMMA MeetIs ==
  ASSUME NEW depth, SoundStore(V, depth, C, memos, held), NEW S \in SUBSET held
  PROVE  all_in(V, refs(S)) = meet(S) /\ \A x \in refs(S) : Within(V, depth, x)
<1>1. \A x \in S : meaning(V, x.ref) = x.fun /\ Within(V, depth, x.ref)
  BY DEF SoundStore, SoundHandle
<1> QED BY <1>1 DEF all_in, meet, refs

\* An answer goes into a memo.
LEMMA RememberSound ==
  ASSUME NEW op, NEW ex, NEW p, NEW S \in SUBSET held, NEW r \in held
  PROVE  Sound /\ Remember(op, ex, p, S, r) => Sound'
<1> SUFFICES ASSUME Sound, Remember(op, ex, p, S, r) PROVE Sound'
  OBVIOUS
<1>1. PICK depth : SoundStore(V, depth, C, memos, held)
  BY DEF Sound
<1> DEFINE key == <<op, ex, p, refs(S)>>
<1>2. /\ r.fun = renamed_ex(meet(S), ex, p) /\ V' = V /\ C' = C /\ held' = held
      /\ memos' = [k \in DOMAIN memos \cup {key} |-> IF k \in DOMAIN memos THEN memos[k] ELSE r.ref]
  BY DEF Remember
<1>3. key[2] = ex /\ key[3] = p /\ key[4] = refs(S)
  OBVIOUS
<1> HIDE DEF key
<1>4. Within(V, depth, r.ref) /\ meaning(V, r.ref) = r.fun
  BY <1>1 DEF SoundStore, SoundHandle
<1>5. SoundMemo(V, depth, key, r.ref)
  BY <1>1, <1>2, <1>3, <1>4, MeetIs DEF SoundMemo
<1>6. \A k \in DOMAIN memos' : SoundMemo(V, depth, k, memos'[k])
  <2>1. \A k \in DOMAIN memos : SoundMemo(V, depth, k, memos[k])
    BY <1>1 DEF SoundStore
  <2>2. DOMAIN memos' = DOMAIN memos \cup {key}
    BY <1>2
  <2>3. \A k \in DOMAIN memos' : memos'[k] = IF k \in DOMAIN memos THEN memos[k] ELSE r.ref
    BY <1>2
  <2> QED BY <1>5, <2>1, <2>2, <2>3
<1>7. SoundStore(V, depth, C, memos', held)
  BY <1>1, <1>6 DEF SoundStore
<1> QED BY <1>2, <1>7 DEF Sound

\* A question answered from a memo.
LEMMA RecallSound ==
  ASSUME NEW op, NEW ex, NEW p, NEW S \in SUBSET held
  PROVE  Sound /\ Recall(op, ex, p, S) => Sound'
<1> SUFFICES ASSUME Sound, Recall(op, ex, p, S) PROVE Sound'
  OBVIOUS
<1>1. PICK depth : SoundStore(V, depth, C, memos, held)
  BY DEF Sound
<1> DEFINE key == <<op, ex, p, refs(S)>>
<1>2. key \in DOMAIN memos /\ Hold(memos[key], renamed_ex(meet(S), ex, p)) /\ UNCHANGED <<V, C, memos>>
  BY DEF Recall
<1>3. key[2] = ex /\ key[3] = p /\ key[4] = refs(S)
  OBVIOUS
<1> HIDE DEF key
<1>4. SoundMemo(V, depth, key, memos[key])
  BY <1>1, <1>2 DEF SoundStore
<1>5. Within(V, depth, memos[key]) /\ meaning(V, memos[key]) = renamed_ex(meet(S), ex, p)
  BY <1>1, <1>3, <1>4, MeetIs DEF SoundMemo
<1> QED BY <1>1, <1>2, <1>5, HoldSound
----------------------------------------------------------------------------
(* The theorems. *)

LEMMA NextSound == Sound /\ [NodesNext]_nodesVars => Sound'
<1> SUFFICES ASSUME Sound, [NodesNext]_nodesVars PROVE Sound'
  OBVIOUS
<1>1. ASSUME NEW v \in 1 .. NVars, NEW x \in held, NEW y \in held, Add(v, x, y) PROVE Sound'
  BY <1>1, AddSound
<1>2. ASSUME NEW x \in held, Invert(x) PROVE Sound'
  BY <1>2, InvertSound
<1>3. ASSUME NEW x \in held, NEW high \in BOOLEAN, Branch(x, high) PROVE Sound'
  BY <1>3, BranchSound
<1>4. ASSUME NEW n \in 1 .. NVars, NEW x \in held, NEW y \in held, NEW z \in held, RecallIte(x, y, z, n)
      PROVE  Sound'
  BY <1>4, RecallIteSound
<1>5. ASSUME NEW n \in 1 .. NVars, NEW x \in held, NEW y \in held, NEW z \in held, NEW r \in held,
             RememberIte(x, y, z, r, n)
      PROVE  Sound'
  BY <1>5, RememberIteSound
<1>6. ASSUME NEW op \in Memos, NEW q \in Renamings, NEW S \in SUBSET held, Recall(op, q[1], q[2], S)
      PROVE  Sound'
  BY <1>6, RecallSound
<1>7. ASSUME NEW op \in Memos, NEW q \in Renamings, NEW S \in SUBSET held, NEW r \in held,
             Remember(op, q[1], q[2], S, r)
      PROVE  Sound'
  BY <1>7, RememberSound
<1>8. CASE Collect
  BY <1>8, CollectSound
<1>9. ASSUME NEW x \in held, LetGo(x) PROVE Sound'
  BY <1>9, LetGoSound
<1>10. CASE UNCHANGED nodesVars
  BY <1>10 DEF nodesVars, Sound
<1>11. CASE Step
  BY <1>1, <1>2, <1>3, <1>4, <1>5, <1>6, <1>7, <1>11 DEF Step
<1> QED BY <1>8, <1>9, <1>10, <1>11 DEF NodesNext

\* The inductive invariant: the nodes are in normal form, and every handle and
\* every memo's entry says what it should, after any steps of the store.
THEOREM StoreSoundAlways == NodesSpec => []Sound
<1>1. NodesInit => Sound
  BY InitSound
<1>2. Sound /\ [NodesNext]_nodesVars => Sound'
  BY NextSound
<1> QED BY <1>1, <1>2, PTL DEF NodesSpec

\* A handle denotes the function it was made for, however many nodes were added,
\* collected and renumbered since (bdd::add, bdd::gc, bdd_handle::update).
THEOREM FaithfulAlways == NodesSpec => []Faithful
<1>1. Sound => Faithful
  BY DEF Sound, SoundStore, SoundHandle, Faithful
<1> QED BY <1>1, StoreSoundAlways, PTL

\* Equal functions have equal references, and equal nodes one number: comparing
\* two spbdd_handles compares what they hold, for every number of variables.
THEOREM CanonicalAlways == NodesSpec => []Canonical
<1>1. Sound => Canonical
  <2> SUFFICES ASSUME Sound PROVE Canonical
    OBVIOUS
  <2>1. PICK depth : SoundStore(V, depth, C, memos, held)
    BY DEF Sound
  <2>2. Normal(V) /\ Measures(V, depth) /\ PointDown(V) /\ Len(V) \in Nat
    BY <2>1 DEF SoundStore, Normal, PointDown
  <2>3. ASSUME NEW x \in held, NEW y \in held PROVE x.fun = y.fun <=> x.ref = y.ref
    <3> DEFINE a == x.ref
               b == y.ref
    <3>1. /\ Proper(V, a) /\ last_var(depth, a) <= NVars /\ meaning(V, a) = x.fun
          /\ Proper(V, b) /\ last_var(depth, b) <= NVars /\ meaning(V, b) = y.fun
      BY <2>1 DEF SoundStore, SoundHandle, Within
    <3> HIDE DEF a, b
    <3>2. meaning(V, a) = meaning(V, b) => a = b
      BY <2>2, <3>1, Unique
    <3>3. x.fun = y.fun <=> a = b
      BY <3>1, <3>2
    <3> QED BY <3>3 DEF a, b
  <2>4. ASSUME NEW i \in 2 .. Len(V)
        PROVE  /\ bdd_lt(V[i].h, V[i].l) /\ V[i].l.out = 0
               /\ \A r \in {V[i].h, V[i].l} : r.id <= Len(V) /\ (leaf(r) \/ r.sh > 0)
    <3>1. NormalNode(V, V[i])
      BY <2>2 DEF Normal
    <3>2. ASSUME NEW r, Proper(V, r) PROVE r.id <= Len(V) /\ (leaf(r) \/ r.sh > 0)
      <4>1. r.id \in 1 .. Len(V)
        BY <2>2, <3>2, ProperParts
      <4> QED BY <2>2, <3>2, <4>1 DEF Proper
    <3> QED BY <3>1, <3>2 DEF NormalNode
  <2>5. ASSUME NEW i \in 2 .. Len(V) PROVE V[i] # V[1]
    <3>1. ~ bdd_lt(T, T)
      BY DEF bdd_lt, T
    <3>2. V[1].h = T /\ V[1].l = T
      BY <2>2 DEF Normal
    <3> QED BY <2>4, <3>1, <3>2
  <2>6. ASSUME NEW i \in 1 .. Len(V), NEW j \in 1 .. Len(V), V[i] = V[j] PROVE i = j
    <3>1. i \in 2 .. Len(V) /\ j \in 2 .. Len(V) => i = j
      BY <2>2, <2>6 DEF Normal
    <3>2. (i = 1 \/ i \in 2 .. Len(V)) /\ (j = 1 \/ j \in 2 .. Len(V))
      BY <2>2
    <3> QED BY <2>5, <2>6, <3>1, <3>2
  <2> QED BY <2>3, <2>4, <2>6 DEF Canonical
<1> QED BY <1>1, StoreSoundAlways, PTL

\* What C and the other memos remember is the answer to the question they would
\* give it for, after any collections (bdd::gc keeps an entry or drops it).
THEOREM MemoSoundAlways == NodesSpec => []MemoSound
<1>1. Sound => MemoSound
  <2> SUFFICES ASSUME Sound PROVE MemoSound
    OBVIOUS
  <2>1. PICK depth : SoundStore(V, depth, C, memos, held)
    BY DEF Sound
  <2> DEFINE f(x) == meaning(V, plus_shift(x, 1))
  <2>2. ASSUME NEW k \in DOMAIN C PROVE f(C[k]) = ite_of(f(k[1]), f(k[2]), f(k[3]))
    BY <2>1 DEF SoundStore, SoundIte
  <2>3. ASSUME NEW k \in DOMAIN memos PROVE meaning(V, memos[k]) = renamed_ex(all_of(k[4]), k[2], k[3])
    <3>1. meaning(V, memos[k]) = renamed_ex(all_in(V, k[4]), k[2], k[3])
      BY <2>1 DEF SoundStore, SoundMemo
    <3>2. all_of(k[4]) = all_in(V, k[4])
      BY DEF all_of, all_in
    <3> QED BY <3>1, <3>2
  <2> QED BY <2>2, <2>3 DEF MemoSound
<1> QED BY <1>1, StoreSoundAlways, PTL

----------------------------------------------------------------------------
(* The readings of a reference: side, bdd_subsumes and allsat. *)

\* What goes two ways until it meets a base: a and b say where, both what is made
\* of the two answers, and mu how far there is to go, at most N.
GoesDown(D, S, N, mu, B, base, a, b, both) ==
  /\ N \in Nat /\ mu \in [D -> 0 .. N] /\ base \in [D -> S]
  /\ a \in [D -> D] /\ b \in [D -> D] /\ both \in [S \X S -> S]
  /\ \A x \in D : x \notin B => mu[a[x]] < mu[x] /\ mu[b[x]] < mu[x]

\* It is a function.
LEMMA TwoWays ==
  ASSUME NEW D, NEW S, NEW N, NEW mu, NEW B, NEW base, NEW a, NEW b, NEW both,
         GoesDown(D, S, N, mu, B, base, a, b, both)
  PROVE  \E f \in [D -> S] : \A x \in D :
           f[x] = IF x \in B THEN base[x] ELSE both[<<f[a[x]], f[b[x]]>>]
<1> USE DEF GoesDown
<1> DEFINE R(n) == { x \in D : mu[x] < n }
           Is(f, x) == IF x \in B THEN base[x] ELSE both[<<f[a[x]], f[b[x]]>>]
           X == { n \in Nat : \E f \in [R(n) -> S] : \A x \in R(n) : f[x] = Is(f, x) }
<1>1. 0 \in X
  <2>1. R(0) = {} /\ [x \in {} |-> {}] \in [{} -> S]
    OBVIOUS
  <2> QED BY <2>1
<1>2. ASSUME NEW n \in Nat, n \in X PROVE n + 1 \in X
  <2>1. PICK f \in [R(n) -> S] : \A x \in R(n) : f[x] = Is(f, x)
    BY <1>2
  <2> DEFINE g == [x \in R(n + 1) |-> IF x \in R(n) THEN f[x] ELSE Is(f, x)]
  <2>2. ASSUME NEW x \in R(n + 1), x \notin B PROVE a[x] \in R(n) /\ b[x] \in R(n)
    BY <2>2
  <2>3. R(n) \subseteq R(n + 1) /\ R(n + 1) \subseteq D
    OBVIOUS
  <2>4. ASSUME NEW x \in R(n + 1) PROVE Is(g, x) = Is(f, x) /\ Is(f, x) \in S
    <3>1. CASE x \in B
      BY <3>1, <2>3
    <3>2. CASE x \notin B
      <4>1. a[x] \in R(n) /\ b[x] \in R(n)
        BY <2>2, <3>2
      <4>2. g[a[x]] = f[a[x]] /\ g[b[x]] = f[b[x]] /\ f[a[x]] \in S /\ f[b[x]] \in S
        <5> HIDE DEF R
        <5> QED BY <2>1, <2>3, <4>1
      <4> HIDE DEF g, R
      <4> QED BY <3>2, <4>2
    <3> HIDE DEF Is
    <3> QED BY <3>1, <3>2
  <2>5. ASSUME NEW x \in R(n + 1) PROVE g[x] = Is(g, x) /\ g[x] \in S
    <3>1. g[x] = IF x \in R(n) THEN f[x] ELSE Is(f, x)
      BY DEF g
    <3>2. g[x] = Is(f, x)
      <4> HIDE DEF Is, R, g
      <4> QED BY <2>1, <3>1
    <3> HIDE DEF Is, R, g
    <3> QED BY <2>4, <3>2
  <2>6. g \in [R(n + 1) -> S]
    <3> HIDE DEF Is, R
    <3> QED BY <2>5
  <2>7. n + 1 \in Nat
    OBVIOUS
  <2> HIDE DEF g, R, Is
  <2> QED BY <2>5, <2>6, <2>7
<1>3. N + 1 \in X
  <2> HIDE DEF X
  <2> QED BY <1>1, <1>2, SetInduction
<1>4. R(N + 1) = D
  OBVIOUS
<1> HIDE DEF R
<1> QED BY <1>3, <1>4

\* The branch of x on v is the function of x where v is val, and does not depend
\* on v.
SideOf(nodes, depth, x, v, val, y) ==
  /\ Within(nodes, depth, y) /\ from(v + 1, y) /\ y.id <= x.id
  /\ ~leaf(x) /\ x.sh = v => y.id < x.id
  /\ \A s \in Assignment : (v \in s <=> val) => (s \in meaning(nodes, y) <=> s \in meaning(nodes, x))
  /\ \A s, t \in Assignment : s \ {v} = t \ {v} => (s \in meaning(nodes, y) <=> t \in meaning(nodes, y))

LEMMA SideIs ==
  ASSUME NEW nodes, Normal(nodes), NEW depth, Measures(nodes, depth),
         NEW x, Within(nodes, depth, x), NEW v \in 1 .. NVars, from(v, x), NEW val \in BOOLEAN
  PROVE  SideOf(nodes, depth, x, v, val, side(nodes, x, v, val))
<1> DEFINE y == side(nodes, x, v, val)
           h == get(nodes, x).h
           l == get(nodes, x).l
<1>0. PointDown(nodes) /\ v \in Nat /\ NVars \in Nat
  BY BddRefsAssumption DEF Normal
<1>1. Proper(nodes, x) /\ last_var(depth, x) <= NVars
  BY DEF Within
<1>2. /\ x \in Refs(nodes) /\ x.id \in Nat /\ x.sh \in Nat /\ last_var(depth, x) \in Nat
      /\ x.sh <= last_var(depth, x) /\ (leaf(x) => x.sh = 0)
  BY <1>0, <1>1, ProperParts
<1>3. /\ Within(nodes, depth, y) /\ from(v + 1, y) /\ y.id <= x.id
      /\ ~leaf(x) /\ x.sh = v => y.id < x.id
      /\ \A s \in Assignment : (v \in s <=> val) => (s \in meaning(nodes, y) <=> s \in meaning(nodes, x))
  <2>1. CASE leaf(x) \/ x.sh # v
    <3>1. y = x
      BY <2>1 DEF side
    <3>2. from(v + 1, x)
      BY <1>0, <1>2, <2>1 DEF from
    <3> HIDE DEF y
    <3> QED BY <1>2, <2>1, <3>1, <3>2
  <2>2. CASE ~leaf(x) /\ x.sh = v
    <3>1. y = IF val THEN h ELSE l
      BY <2>2 DEF side
    <3>2. /\ Proper(nodes, h) /\ h.id < x.id /\ (leaf(h) \/ h.sh > v)
          /\ Proper(nodes, l) /\ l.id < x.id /\ (leaf(l) \/ l.sh > v)
          /\ last_var(depth, h) <= last_var(depth, x) /\ last_var(depth, l) <= last_var(depth, x)
      BY <1>1, <2>2, GetProper
    <3>3. /\ h.id \in Nat /\ h.sh \in Nat /\ last_var(depth, h) \in Nat
          /\ l.id \in Nat /\ l.sh \in Nat /\ last_var(depth, l) \in Nat
      BY <1>0, <3>2, ProperParts
    <3>4. ASSUME NEW s \in Assignment
          PROVE  s \in meaning(nodes, x) <=> IF v \in s THEN s \in meaning(nodes, h) ELSE s \in meaning(nodes, l)
      BY <1>0, <1>2, <2>2, MeaningIn
    <3>5. /\ Within(nodes, depth, h) /\ from(v + 1, h) /\ h.id <= x.id
          /\ Within(nodes, depth, l) /\ from(v + 1, l) /\ l.id <= x.id
      <4> HIDE DEF h, l
      <4> QED BY <1>0, <1>1, <1>2, <3>2, <3>3 DEF Within, from
    <3> HIDE DEF y, h, l
    <3>6. CASE val
      BY <3>1, <3>2, <3>4, <3>5, <3>6
    <3>7. CASE ~val
      BY <3>1, <3>2, <3>4, <3>5, <3>7
    <3> QED BY <3>6, <3>7
  <2> HIDE DEF y
  <2> QED BY <2>1, <2>2
<1>4. ASSUME NEW s \in Assignment, NEW t \in Assignment, s \ {v} = t \ {v}
      PROVE  s \in meaning(nodes, y) <=> t \in meaning(nodes, y)
  <2> HIDE DEF y
  <2>1. Proper(nodes, y) /\ (leaf(y) \/ v + 1 <= y.sh)
    BY <1>3 DEF Within, from
  <2>2. y.sh \in Nat
    BY <1>0, <2>1, ProperParts
  <2>3. leaf(y) \/ v < y.sh
    BY <1>0, <2>1, <2>2
  <2> QED BY <1>0, <1>4, <2>1, <2>3, Untouched
<1> HIDE DEF y
<1>5. SideOf(nodes, depth, x, v, val, y)
  BY <1>3, <1>4 DEF SideOf
<1> QED BY <1>5 DEF y

first_var(x, y) == IF x.sh < y.sh THEN x.sh ELSE y.sh

\* where a question of bdd_subsumes goes on the branch val
asked(nodes, q, val) ==
  LET v == first_var(q[1], q[2])
  IN  <<side(nodes, q[1], v, val), side(nodes, q[2], v, val)>>

SubsumesBody(nodes, f, q) ==
  IF leaf(q[1]) \/ leaf(q[2]) THEN q[1] = T \/ q[2] = F
  ELSE f[asked(nodes, q, TRUE)] /\ f[asked(nodes, q, FALSE)]

\* A branch of a reference is one; one on its own variable is further down.
LEMMA SideDown ==
  ASSUME NEW nodes, PointDown(nodes), NEW x \in Refs(nodes), NEW v, NEW val \in BOOLEAN
  PROVE  LET y == side(nodes, x, v, val) IN
         /\ y \in Refs(nodes) /\ y.id <= x.id
         /\ ~leaf(x) /\ x.sh = v => y.id < x.id
<1> DEFINE y == side(nodes, x, v, val)
<1>1. x.id \in Nat
  BY DEF Refs, PointDown
<1>2. CASE leaf(x) \/ x.sh # v
  <2>1. y = x
    BY <1>2 DEF side
  <2> HIDE DEF y
  <2>2. y \in Refs(nodes) /\ y.id <= x.id /\ (~leaf(x) /\ x.sh = v => y.id < x.id)
    BY <1>1, <1>2, <2>1
  <2> QED BY <2>2 DEF y
<1>3. CASE ~leaf(x) /\ x.sh = v
  <2> DEFINE h == get(nodes, x).h
             l == get(nodes, x).l
  <2>1. h \in Refs(nodes) /\ h.id < x.id /\ l \in Refs(nodes) /\ l.id < x.id
    BY <1>3, GetDown
  <2>2. y = IF val THEN h ELSE l
    BY <1>3 DEF side
  <2>3. h.id \in Nat /\ l.id \in Nat
    BY <2>1 DEF Refs, PointDown
  <2> HIDE DEF y, h, l
  <2>4. y \in Refs(nodes) /\ y.id <= x.id /\ (~leaf(x) /\ x.sh = v => y.id < x.id)
    BY <1>1, <2>1, <2>2, <2>3
  <2> QED BY <2>4 DEF y
<1> QED BY <1>2, <1>3

LEMMA AskedDown ==
  ASSUME NEW nodes, PointDown(nodes), NEW x \in Refs(nodes), NEW y \in Refs(nodes),
         ~leaf(x), ~leaf(y), NEW val \in BOOLEAN
  PROVE  LET v == first_var(x, y)
             a == side(nodes, x, v, val)
             b == side(nodes, y, v, val)
         IN  /\ a \in Refs(nodes) /\ b \in Refs(nodes)
             /\ a.id + b.id < x.id + y.id
<1> DEFINE v == first_var(x, y)
           a == side(nodes, x, v, val)
           b == side(nodes, y, v, val)
<1>1. /\ a \in Refs(nodes) /\ a.id <= x.id /\ (x.sh = v => a.id < x.id)
      /\ b \in Refs(nodes) /\ b.id <= y.id /\ (y.sh = v => b.id < y.id)
  <2> HIDE DEF v
  <2> QED BY SideDown
<1>2. x.sh = v \/ y.sh = v
  BY DEF first_var
<1>3. a.id \in Nat /\ b.id \in Nat /\ x.id \in Nat /\ y.id \in Nat
  BY <1>1 DEF Refs, PointDown
<1> HIDE DEF a, b, v
<1>4. a \in Refs(nodes) /\ b \in Refs(nodes) /\ a.id + b.id < x.id + y.id
  BY <1>1, <1>2, <1>3
<1> QED BY <1>4 DEF a, b, v

LEMMA SubsumesExists ==
  ASSUME NEW nodes, PointDown(nodes)
  PROVE  \E f \in [Refs(nodes) \X Refs(nodes) -> BOOLEAN] :
           \A q \in Refs(nodes) \X Refs(nodes) : f[q] = SubsumesBody(nodes, f, q)
<1> DEFINE D == Refs(nodes) \X Refs(nodes)
           N == Len(nodes) + Len(nodes)
           mu == [q \in D |-> q[1].id + q[2].id]
           B == { q \in D : leaf(q[1]) \/ leaf(q[2]) }
           base == [q \in D |-> q[1] = T \/ q[2] = F]
           a == [q \in D |-> IF q \in B THEN q ELSE asked(nodes, q, TRUE)]
           b == [q \in D |-> IF q \in B THEN q ELSE asked(nodes, q, FALSE)]
           both == [p \in BOOLEAN \X BOOLEAN |-> p[1] /\ p[2]]
<1>0. Len(nodes) \in Nat /\ \A x \in Refs(nodes) : x.id \in 1 .. Len(nodes)
  BY DEF Refs, PointDown
<1>1. N \in Nat /\ mu \in [D -> 0 .. N]
  <2>1. ASSUME NEW x \in Refs(nodes), NEW y \in Refs(nodes) PROVE x.id + y.id \in 0 .. N
    BY <1>0
  <2>2. ASSUME NEW q \in D PROVE q[1].id + q[2].id \in 0 .. N
    <3> HIDE DEF N
    <3> QED BY <2>1
  <2>3. mu \in [D -> 0 .. N]
    <3> HIDE DEF N, D
    <3> QED BY <2>2
  <2> QED BY <1>0, <2>3
<1>2. ASSUME NEW q \in D, q \notin B, NEW val \in BOOLEAN
      PROVE  asked(nodes, q, val) \in D /\ mu[asked(nodes, q, val)] < mu[q]
  <2>1. q[1] \in Refs(nodes) /\ q[2] \in Refs(nodes) /\ ~leaf(q[1]) /\ ~leaf(q[2])
    BY <1>2
  <2> DEFINE v == first_var(q[1], q[2])
             c == side(nodes, q[1], v, val)
             d == side(nodes, q[2], v, val)
  <2>2. c \in Refs(nodes) /\ d \in Refs(nodes) /\ c.id + d.id < q[1].id + q[2].id
    BY <2>1, AskedDown
  <2>3. asked(nodes, q, val) = <<c, d>>
    BY DEF asked
  <2> HIDE DEF c, d
  <2> QED BY <2>2, <2>3
<1>3. base \in [D -> BOOLEAN] /\ both \in [BOOLEAN \X BOOLEAN -> BOOLEAN]
  OBVIOUS
<1>4. a \in [D -> D] /\ b \in [D -> D]
  <2> HIDE DEF D, B, mu
  <2> QED BY <1>2
<1>5. ASSUME NEW q \in D, q \notin B PROVE mu[a[q]] < mu[q] /\ mu[b[q]] < mu[q]
  <2>1. a[q] = asked(nodes, q, TRUE) /\ b[q] = asked(nodes, q, FALSE)
    BY <1>5
  <2> HIDE DEF D, B, mu, a, b
  <2> QED BY <1>2, <1>5, <2>1
<1>6. PICK f \in [D -> BOOLEAN] : \A q \in D : f[q] = IF q \in B THEN base[q] ELSE both[<<f[a[q]], f[b[q]]>>]
  <2> HIDE DEF D, N, mu, B, base, a, b, both
  <2>1. GoesDown(D, BOOLEAN, N, mu, B, base, a, b, both)
    BY <1>1, <1>3, <1>4, <1>5 DEF GoesDown
  <2> QED BY <2>1, TwoWays
<1>7. ASSUME NEW q \in D PROVE f[q] = SubsumesBody(nodes, f, q)
  <2>1. CASE q \in B
    BY <1>6, <2>1 DEF SubsumesBody
  <2>2. CASE q \notin B
    <3>1. a[q] = asked(nodes, q, TRUE) /\ b[q] = asked(nodes, q, FALSE) /\ ~leaf(q[1]) /\ ~leaf(q[2])
      BY <2>2
    <3>2. f[a[q]] \in BOOLEAN /\ f[b[q]] \in BOOLEAN
      <4> HIDE DEF D, a, b
      <4> QED BY <1>4, <1>6
    <3>3. both[<<f[a[q]], f[b[q]]>>] = (f[a[q]] /\ f[b[q]])
      <4> HIDE DEF D, a, b
      <4> QED BY <3>2
    <3> HIDE DEF D, B, a, b, both, base
    <3> QED BY <1>6, <2>2, <3>1, <3>3 DEF SubsumesBody
  <2> QED BY <2>1, <2>2
<1> QED BY <1>7

LEMMA SubsumesIs ==
  ASSUME NEW nodes, PointDown(nodes), NEW x \in Refs(nodes), NEW y \in Refs(nodes)
  PROVE  bdd_subsumes(nodes, x, y) <=>
           IF leaf(x) \/ leaf(y) THEN x = T \/ y = F
           ELSE LET v == first_var(x, y)
                IN  \A val \in BOOLEAN :
                      bdd_subsumes(nodes, side(nodes, x, v, val), side(nodes, y, v, val))
<1> DEFINE D == Refs(nodes) \X Refs(nodes)
           sub == CHOOSE f : f = [q \in D |-> SubsumesBody(nodes, f, q)]
<1>1. PICK f \in [D -> BOOLEAN] : \A q \in D : f[q] = SubsumesBody(nodes, f, q)
  BY SubsumesExists
<1>2. f = [q \in D |-> SubsumesBody(nodes, f, q)]
  BY <1>1
<1>3. sub = [q \in D |-> SubsumesBody(nodes, sub, q)]
  BY <1>2
<1>4. ASSUME NEW a, NEW b PROVE bdd_subsumes(nodes, a, b) = sub[<<a, b>>]
  BY DEF bdd_subsumes, SubsumesBody, asked, first_var
<1>5. sub[<<x, y>>] = SubsumesBody(nodes, sub, <<x, y>>)
  <2> HIDE DEF sub
  <2> QED BY <1>3
<1> HIDE DEF sub
<1>6. CASE leaf(x) \/ leaf(y)
  BY <1>4, <1>5, <1>6 DEF SubsumesBody
<1>7. CASE ~leaf(x) /\ ~leaf(y)
  <2> DEFINE v == first_var(x, y)
             s(val) == bdd_subsumes(nodes, side(nodes, x, v, val), side(nodes, y, v, val))
  <2>1. sub[<<x, y>>] = (sub[asked(nodes, <<x, y>>, TRUE)] /\ sub[asked(nodes, <<x, y>>, FALSE)])
    BY <1>5, <1>7 DEF SubsumesBody
  <2>2. ASSUME NEW val PROVE s(val) = sub[asked(nodes, <<x, y>>, val)]
    BY <1>4 DEF asked
  <2>3. sub[<<x, y>>] = (s(TRUE) /\ s(FALSE))
    <3> HIDE DEF s
    <3> QED BY <2>1, <2>2
  <2>4. bdd_subsumes(nodes, x, y) = (s(TRUE) /\ s(FALSE))
    BY <1>4, <2>3
  <2> QED BY <1>7, <2>4
<1> QED BY <1>6, <1>7

\* The leaves are the only references of the two constant functions.
LEMMA LeafIs ==
  ASSUME NEW nodes, Normal(nodes), NEW depth, Measures(nodes, depth)
  PROVE  /\ Within(nodes, depth, T) /\ meaning(nodes, T) = Assignment
         /\ Within(nodes, depth, F) /\ meaning(nodes, F) = {}
         /\ \A x : Within(nodes, depth, x) /\ leaf(x) => x = T \/ x = F
<1>0. PointDown(nodes) /\ NVars \in Nat /\ Len(nodes) \in Nat /\ Len(nodes) > 0
  BY BddRefsAssumption DEF Normal, PointDown
<1>1. T \in Refs(nodes) /\ F \in Refs(nodes)
  BY <1>0 DEF T, F, Refs
<1>2. /\ leaf(T) /\ T.sh = 0 /\ T.inp = 0 /\ T.out = 0 /\ T.id = 1
      /\ leaf(F) /\ F.sh = 0 /\ F.inp = 0 /\ F.out = 1 /\ F.id = 1
  BY DEF T, F, leaf
<1>3. Within(nodes, depth, T) /\ Within(nodes, depth, F)
  <2>1. depth[1] = 0
    BY DEF Measures
  <2> QED BY <1>0, <1>1, <1>2, <2>1 DEF Within, Proper, last_var
<1>4. meaning(nodes, T) = Assignment /\ meaning(nodes, F) = {}
  <2>1. /\ meaning(nodes, T) = Body(nodes, functions(nodes), T)
        /\ meaning(nodes, F) = Body(nodes, functions(nodes), F)
    BY <1>0, <1>1, MeaningIs
  <2> QED BY <1>2, <2>1 DEF Body
<1>5. ASSUME NEW x, Within(nodes, depth, x), leaf(x) PROVE x = T \/ x = F
  <2>1. x \in Ref /\ x.sh = 0 /\ x.inp = 0 /\ x.id = 1 /\ x.out \in {0, 1}
    <3>1. Proper(nodes, x)
      BY <1>5 DEF Within
    <3>2. x \in Ref
      BY <1>0, <3>1, ProperParts
    <3> QED BY <1>5, <3>1, <3>2 DEF Proper, leaf, Ref
  <2>2. T \in Ref /\ F \in Ref
    BY DEF T, F, Ref
  <2> QED BY <1>2, <2>1, <2>2, RefEq
<1> QED BY <1>3, <1>4, <1>5

Includes(nodes, x, y) == \A s \in Assignment : s \in meaning(nodes, y) => s \in meaning(nodes, x)

\* Inclusion is decided on the branches.
LEMMA IncludesOnSides ==
  ASSUME NEW nodes, Normal(nodes), NEW depth, Measures(nodes, depth), NEW v \in 1 .. NVars,
         NEW x, Within(nodes, depth, x), from(v, x), NEW y, Within(nodes, depth, y), from(v, y)
  PROVE  Includes(nodes, x, y) <=>
           \A val \in BOOLEAN : Includes(nodes, side(nodes, x, v, val), side(nodes, y, v, val))
<1> DEFINE a(val) == side(nodes, x, v, val)
           b(val) == side(nodes, y, v, val)
<1>1. ASSUME NEW val \in BOOLEAN
      PROVE  SideOf(nodes, depth, x, v, val, a(val)) /\ SideOf(nodes, depth, y, v, val, b(val))
  BY SideIs
<1> HIDE DEF a, b
<1>2. ASSUME Includes(nodes, x, y), NEW val \in BOOLEAN PROVE Includes(nodes, a(val), b(val))
  <2> SUFFICES ASSUME NEW s \in Assignment, s \in meaning(nodes, b(val))
               PROVE  s \in meaning(nodes, a(val))
    BY DEF Includes
  <2> DEFINE t == IF val THEN s \cup {v} ELSE s \ {v}
  <2>1. t \in Assignment /\ (v \in t <=> val) /\ s \ {v} = t \ {v}
    BY DEF Assignment
  <2> HIDE DEF t
  <2>2. t \in meaning(nodes, b(val))
    BY <1>1, <2>1 DEF SideOf
  <2>3. t \in meaning(nodes, y)
    BY <1>1, <2>1, <2>2 DEF SideOf
  <2>4. t \in meaning(nodes, x)
    BY <1>2, <2>1, <2>3 DEF Includes
  <2>5. t \in meaning(nodes, a(val))
    BY <1>1, <2>1, <2>4 DEF SideOf
  <2> QED BY <1>1, <2>1, <2>5 DEF SideOf
<1>3. ASSUME \A val \in BOOLEAN : Includes(nodes, a(val), b(val)) PROVE Includes(nodes, x, y)
  <2> SUFFICES ASSUME NEW s \in Assignment, s \in meaning(nodes, y) PROVE s \in meaning(nodes, x)
    BY DEF Includes
  <2> DEFINE val == v \in s
  <2>1. val \in BOOLEAN /\ (v \in s <=> val)
    OBVIOUS
  <2> HIDE DEF val
  <2>2. s \in meaning(nodes, b(val))
    BY <1>1, <2>1 DEF SideOf
  <2>3. s \in meaning(nodes, a(val))
    BY <1>3, <2>1, <2>2 DEF Includes
  <2> QED BY <1>1, <2>1, <2>3 DEF SideOf
<1>4. Includes(nodes, x, y) <=> \A val \in BOOLEAN : Includes(nodes, a(val), b(val))
  BY <1>2, <1>3
<1> QED BY <1>4 DEF a, b

\* bdd_subsumes decides inclusion.
LEMMA SubsumesIncludes ==
  ASSUME NEW nodes, Normal(nodes), NEW depth, Measures(nodes, depth),
         NEW x0, Within(nodes, depth, x0), NEW y0, Within(nodes, depth, y0)
  PROVE  bdd_subsumes(nodes, x0, y0) <=> Includes(nodes, x0, y0)
<1> DEFINE X == { n \in Nat : \A x, y \in Refs(nodes) :
                    Within(nodes, depth, x) /\ Within(nodes, depth, y) /\ x.id + y.id <= n
                    => (bdd_subsumes(nodes, x, y) <=> Includes(nodes, x, y)) }
<1>0. PointDown(nodes) /\ NVars \in Nat
  BY BddRefsAssumption DEF Normal
<1>a. ASSUME NEW x, Within(nodes, depth, x)
      PROVE  /\ x \in Refs(nodes) /\ x.id \in Nat /\ x.id > 0 /\ x.sh \in Nat
             /\ ~leaf(x) => x.sh \in 1 .. NVars
  <2>1. Proper(nodes, x) /\ last_var(depth, x) <= NVars
    BY <1>a DEF Within
  <2>2. /\ x \in Refs(nodes) /\ x.id \in 1 .. Len(nodes) /\ x.sh \in Nat /\ (~leaf(x) => x.sh > 0)
        /\ x.sh <= last_var(depth, x) /\ last_var(depth, x) \in Nat
    BY <1>0, <2>1, ProperParts
  <2> QED BY <1>0, <2>1, <2>2
<1>1. 0 \in X
  <2>1. ASSUME NEW x, NEW y, Within(nodes, depth, x), Within(nodes, depth, y) PROVE ~ (x.id + y.id <= 0)
    BY <1>a, <2>1
  <2> QED BY <2>1
<1>2. ASSUME NEW n \in Nat, n \in X PROVE n + 1 \in X
  <2> SUFFICES ASSUME NEW x \in Refs(nodes), NEW y \in Refs(nodes),
                      Within(nodes, depth, x), Within(nodes, depth, y), x.id + y.id <= n + 1
               PROVE  bdd_subsumes(nodes, x, y) <=> Includes(nodes, x, y)
    OBVIOUS
  <2>1. CASE leaf(x) \/ leaf(y)
    <3>1. bdd_subsumes(nodes, x, y) <=> x = T \/ y = F
      BY <1>0, <2>1, SubsumesIs
    <3>2. /\ Within(nodes, depth, T) /\ meaning(nodes, T) = Assignment
          /\ Within(nodes, depth, F) /\ meaning(nodes, F) = {}
          /\ (leaf(x) => x = T \/ x = F) /\ (leaf(y) => y = T \/ y = F)
      BY LeafIs
    <3>3. meaning(nodes, x) \subseteq Assignment /\ meaning(nodes, y) \subseteq Assignment
      BY <1>0, MeaningTyped
    <3>4. ASSUME x = T \/ y = F PROVE Includes(nodes, x, y)
      BY <3>2, <3>4 DEF Includes
    <3>5. ASSUME x # T, y # F PROVE ~Includes(nodes, x, y)
      <4>1. meaning(nodes, x) # Assignment
        <5>1. meaning(nodes, x) = meaning(nodes, T) => x = T
          BY <3>2, Unique DEF Within
        <5> QED BY <3>2, <3>5, <5>1
      <4>2. meaning(nodes, y) # {}
        <5>1. meaning(nodes, y) = meaning(nodes, F) => y = F
          BY <3>2, Unique DEF Within
        <5> QED BY <3>2, <3>5, <5>1
      <4>3. CASE leaf(x)
        <5>1. meaning(nodes, x) = {}
          BY <3>2, <3>5, <4>3
        <5>2. PICK s \in meaning(nodes, y) : TRUE
          BY <4>2
        <5> QED BY <3>3, <5>1, <5>2 DEF Includes
      <4>4. CASE leaf(y)
        <5>1. meaning(nodes, y) = Assignment
          BY <3>2, <3>5, <4>4
        <5>2. PICK s \in Assignment : s \notin meaning(nodes, x)
          BY <3>3, <4>1
        <5> QED BY <5>1, <5>2 DEF Includes
      <4> QED BY <2>1, <4>3, <4>4
    <3> QED BY <3>1, <3>4, <3>5
  <2>2. CASE ~leaf(x) /\ ~leaf(y)
    <3> DEFINE v == first_var(x, y)
               a(val) == side(nodes, x, v, val)
               b(val) == side(nodes, y, v, val)
    <3>1. v \in 1 .. NVars /\ v <= x.sh /\ v <= y.sh
      BY <1>a, <2>2 DEF first_var
    <3>2. from(v, x) /\ from(v, y)
      BY <3>1 DEF from
    <3>3. ASSUME NEW val \in BOOLEAN
          PROVE  Within(nodes, depth, a(val)) /\ Within(nodes, depth, b(val)) /\ a(val).id + b(val).id < x.id + y.id
      <4>1. SideOf(nodes, depth, x, v, val, a(val)) /\ SideOf(nodes, depth, y, v, val, b(val))
        <5> HIDE DEF v
        <5> QED BY <3>1, <3>2, SideIs
      <4>2. a(val).id + b(val).id < x.id + y.id
        BY <1>0, <2>2, AskedDown
      <4> QED BY <4>1, <4>2 DEF SideOf
    <3>4. ASSUME NEW val \in BOOLEAN
          PROVE  bdd_subsumes(nodes, a(val), b(val)) <=> Includes(nodes, a(val), b(val))
      <4> DEFINE c == a(val)
                 d == b(val)
      <4>1. /\ Within(nodes, depth, c) /\ c \in Refs(nodes) /\ c.id \in Nat
            /\ Within(nodes, depth, d) /\ d \in Refs(nodes) /\ d.id \in Nat
            /\ c.id + d.id < x.id + y.id /\ x.id \in Nat /\ y.id \in Nat
        BY <1>a, <3>3
      <4> HIDE DEF c, d
      <4>2. c.id + d.id <= n
        BY <4>1
      <4>3. bdd_subsumes(nodes, c, d) <=> Includes(nodes, c, d)
        BY <1>2, <4>1, <4>2
      <4> QED BY <4>3 DEF c, d
    <3>5. bdd_subsumes(nodes, x, y) <=> \A val \in BOOLEAN : bdd_subsumes(nodes, a(val), b(val))
      BY <1>0, <2>2, SubsumesIs
    <3>6. Includes(nodes, x, y) <=> \A val \in BOOLEAN : Includes(nodes, a(val), b(val))
      <4> HIDE DEF v
      <4> QED BY <3>1, <3>2, IncludesOnSides
    <3> HIDE DEF a, b
    <3> QED BY <3>4, <3>5, <3>6
  <2> QED BY <2>1, <2>2
<1>3. x0.id + y0.id \in X
  <2>1. x0.id + y0.id \in Nat
    BY <1>a
  <2> HIDE DEF X
  <2> QED BY <1>1, <1>2, <2>1, SetInduction
<1>4. x0 \in Refs(nodes) /\ y0 \in Refs(nodes) /\ x0.id + y0.id <= x0.id + y0.id
  BY <1>a
<1> QED BY <1>3, <1>4

\* where sat goes on the branch val
Choices(nodes) == Refs(nodes) \X (1 .. NVars + 1) \X Assignment

chose(nodes, q, val) ==
  <<side(nodes, q[1], q[2], val), q[2] + 1, IF val THEN q[3] \cup {q[2]} ELSE q[3]>>

SatBody(nodes, f, q) ==
  IF q[1] = F THEN {}
  ELSE IF q[2] > NVars THEN {q[3]}
  ELSE f[chose(nodes, q, TRUE)] \cup f[chose(nodes, q, FALSE)]

LEMMA SatExists ==
  ASSUME NEW nodes, PointDown(nodes)
  PROVE  \E f \in [Choices(nodes) -> SUBSET Assignment] :
           \A q \in Choices(nodes) : f[q] = SatBody(nodes, f, q)
<1> DEFINE D == Choices(nodes)
           S == SUBSET Assignment
           mu == [q \in D |-> NVars + 1 - q[2]]
           B == { q \in D : q[1] = F \/ q[2] > NVars }
           base == [q \in D |-> IF q[1] = F THEN {} ELSE {q[3]}]
           a == [q \in D |-> IF q \in B THEN q ELSE chose(nodes, q, TRUE)]
           b == [q \in D |-> IF q \in B THEN q ELSE chose(nodes, q, FALSE)]
           both == [p \in S \X S |-> p[1] \cup p[2]]
<1>0. NVars \in Nat
  BY BddRefsAssumption
<1>1. ASSUME NEW q \in D PROVE q[1] \in Refs(nodes) /\ q[2] \in 1 .. NVars + 1 /\ q[3] \in Assignment
  BY DEF Choices
<1>2. mu \in [D -> 0 .. NVars]
  <2> HIDE DEF D
  <2> QED BY <1>0, <1>1
<1>3. ASSUME NEW q \in D, q \notin B, NEW val \in BOOLEAN
      PROVE  chose(nodes, q, val) \in D /\ mu[chose(nodes, q, val)] < mu[q]
  <2> DEFINE x == side(nodes, q[1], q[2], val)
             p == IF val THEN q[3] \cup {q[2]} ELSE q[3]
  <2>1. q[2] \in 1 .. NVars
    BY <1>0, <1>1, <1>3
  <2>2. x \in Refs(nodes)
    BY <1>1, SideDown
  <2>3. p \in Assignment
    BY <1>1, <2>1 DEF Assignment
  <2>4. chose(nodes, q, val) = <<x, q[2] + 1, p>>
    BY DEF chose
  <2> HIDE DEF x, p
  <2>5. chose(nodes, q, val) \in D
    BY <1>0, <2>1, <2>2, <2>3, <2>4 DEF Choices
  <2>6. mu[chose(nodes, q, val)] = NVars + 1 - (q[2] + 1) /\ mu[q] = NVars + 1 - q[2]
    <3> HIDE DEF D
    <3> QED BY <2>4, <2>5
  <2> QED BY <1>0, <2>1, <2>5, <2>6
<1>4. base \in [D -> S] /\ both \in [S \X S -> S]
  <2>1. base \in [D -> S]
    <3> HIDE DEF D
    <3> QED BY <1>1
  <2> QED BY <2>1
<1>5. a \in [D -> D] /\ b \in [D -> D]
  <2> HIDE DEF D, B, mu
  <2> QED BY <1>3
<1>6. ASSUME NEW q \in D, q \notin B PROVE mu[a[q]] < mu[q] /\ mu[b[q]] < mu[q]
  <2>1. a[q] = chose(nodes, q, TRUE) /\ b[q] = chose(nodes, q, FALSE)
    BY <1>6
  <2> HIDE DEF D, B, mu, a, b
  <2> QED BY <1>3, <1>6, <2>1
<1>7. PICK f \in [D -> S] : \A q \in D : f[q] = IF q \in B THEN base[q] ELSE both[<<f[a[q]], f[b[q]]>>]
  <2> HIDE DEF D, S, mu, B, base, a, b, both
  <2>1. GoesDown(D, S, NVars, mu, B, base, a, b, both)
    BY <1>0, <1>2, <1>4, <1>5, <1>6 DEF GoesDown
  <2> QED BY <2>1, TwoWays
<1>8. ASSUME NEW q \in D PROVE f[q] = SatBody(nodes, f, q)
  <2>1. CASE q \in B
    <3>1. f[q] = IF q[1] = F THEN {} ELSE {q[3]}
      <4> HIDE DEF D, B, both, a, b
      <4> QED BY <1>7, <2>1
    <3>2. q[1] # F => q[2] > NVars
      BY <2>1
    <3> QED BY <3>1, <3>2 DEF SatBody
  <2>2. CASE q \notin B
    <3>1. a[q] = chose(nodes, q, TRUE) /\ b[q] = chose(nodes, q, FALSE) /\ q[1] # F /\ ~(q[2] > NVars)
      BY <2>2
    <3>2. f[a[q]] \in S /\ f[b[q]] \in S
      <4> HIDE DEF D, S, a, b
      <4> QED BY <1>5, <1>7
    <3>3. both[<<f[a[q]], f[b[q]]>>] = f[a[q]] \cup f[b[q]]
      <4> HIDE DEF D, S, a, b
      <4> QED BY <3>2
    <3> HIDE DEF D, S, B, a, b, both, base
    <3> QED BY <1>7, <2>2, <3>1, <3>3 DEF SatBody
  <2> QED BY <2>1, <2>2
<1> QED BY <1>7, <1>8

\* allsat lists what the reference denotes.
LEMMA AllsatIs ==
  ASSUME NEW nodes, Normal(nodes), NEW depth, Measures(nodes, depth),
         NEW x0, Within(nodes, depth, x0)
  PROVE  allsat(nodes, x0) = meaning(nodes, x0)
<1> DEFINE D == Choices(nodes)
           sat == CHOOSE f : f = [q \in D |-> SatBody(nodes, f, q)]
           tuples(x, v, p) == { s \in Assignment : s \in meaning(nodes, x) /\ s \cap (1 .. v - 1) = p }
           X == { n \in Nat : \A x \in Refs(nodes), v \in 1 .. NVars + 1 : \A p \in SUBSET (1 .. v - 1) :
                    /\ Within(nodes, depth, x) /\ from(v, x) /\ NVars + 1 - v <= n
                    => sat[<<x, v, p>>] = tuples(x, v, p) }
<1>0. PointDown(nodes) /\ NVars \in Nat
  BY BddRefsAssumption DEF Normal
<1>1. PICK f \in [D -> SUBSET Assignment] : \A q \in D : f[q] = SatBody(nodes, f, q)
  BY <1>0, SatExists
<1>2. f = [q \in D |-> SatBody(nodes, f, q)]
  BY <1>1
<1>3. sat = [q \in D |-> SatBody(nodes, sat, q)]
  BY <1>2
<1>4. allsat(nodes, x0) = sat[<<x0, 1, {}>>]
  BY DEF allsat, SatBody, chose, Choices
<1> HIDE DEF sat
<1>5. ASSUME NEW x \in Refs(nodes), NEW v \in 1 .. NVars + 1, NEW p \in SUBSET (1 .. v - 1)
      PROVE  sat[<<x, v, p>>] =
               IF x = F THEN {}
               ELSE IF v > NVars THEN {p}
               ELSE sat[<<side(nodes, x, v, TRUE), v + 1, p \cup {v}>>]
                      \cup sat[<<side(nodes, x, v, FALSE), v + 1, p>>]
  <2>1. p \in Assignment
    BY <1>0 DEF Assignment
  <2>2. <<x, v, p>> \in D
    BY <2>1 DEF Choices
  <2>3. sat[<<x, v, p>>] = SatBody(nodes, sat, <<x, v, p>>)
    BY <1>3, <2>2
  <2> QED BY <2>3 DEF SatBody, chose
<1>6. ASSUME NEW x \in Refs(nodes), NEW v \in 1 .. NVars + 1, NEW p \in SUBSET (1 .. v - 1),
             Within(nodes, depth, x), x = F
      PROVE  sat[<<x, v, p>>] = tuples(x, v, p)
  <2>1. sat[<<x, v, p>>] = {}
    BY <1>5, <1>6
  <2>2. meaning(nodes, x) = {}
    BY <1>6, LeafIs
  <2> QED BY <2>1, <2>2
<1>7. 0 \in X
  <2> SUFFICES ASSUME NEW x \in Refs(nodes), NEW v \in 1 .. NVars + 1, NEW p \in SUBSET (1 .. v - 1),
                      Within(nodes, depth, x), from(v, x), NVars + 1 - v <= 0, x # F
               PROVE  sat[<<x, v, p>>] = tuples(x, v, p)
    BY <1>6
  <2>1. v = NVars + 1
    BY <1>0
  <2>2. sat[<<x, v, p>>] = {p}
    <3>1. v > NVars
      BY <1>0, <2>1
    <3> QED BY <1>5, <3>1
  <2>3. leaf(x)
    <3>1. Proper(nodes, x) /\ last_var(depth, x) <= NVars
      BY DEF Within
    <3>2. x.sh <= last_var(depth, x) /\ x.sh \in Nat /\ last_var(depth, x) \in Nat
      BY <1>0, <3>1, ProperParts
    <3> QED BY <1>0, <2>1, <3>1, <3>2 DEF from
  <2>4. meaning(nodes, x) = Assignment
    BY <2>3, LeafIs
  <2>5. 1 .. v - 1 = 1 .. NVars
    BY <1>0, <2>1
  <2>6. tuples(x, v, p) = {p}
    BY <2>4, <2>5 DEF Assignment
  <2> QED BY <2>2, <2>6
<1>8. ASSUME NEW n \in Nat, n \in X PROVE n + 1 \in X
  <2> SUFFICES ASSUME NEW x \in Refs(nodes), NEW v \in 1 .. NVars + 1, NEW p \in SUBSET (1 .. v - 1),
                      Within(nodes, depth, x), from(v, x), NVars + 1 - v <= n + 1, x # F
               PROVE  sat[<<x, v, p>>] = tuples(x, v, p)
    BY <1>6
  <2>1. CASE v = NVars + 1
    <3>1. NVars + 1 - v <= 0
      BY <1>0, <2>1
    <3> HIDE DEF tuples
    <3> QED BY <1>7, <3>1
  <2>2. CASE v # NVars + 1
    <3> DEFINE a(val) == side(nodes, x, v, val)
               w == v + 1
    <3>1. v \in 1 .. NVars /\ w \in 1 .. NVars + 1 /\ ~(v > NVars) /\ NVars + 1 - w <= n
      BY <1>0, <2>2
    <3>2. ASSUME NEW val \in BOOLEAN
          PROVE  SideOf(nodes, depth, x, v, val, a(val)) /\ a(val) \in Refs(nodes)
      <4>1. SideOf(nodes, depth, x, v, val, a(val))
        BY <3>1, SideIs
      <4> QED BY <1>0, <4>1, SideDown
    <3>3. sat[<<x, v, p>>] = sat[<<a(TRUE), w, p \cup {v}>>] \cup sat[<<a(FALSE), w, p>>]
      BY <1>5, <3>1
    <3>4. p \cup {v} \in SUBSET (1 .. w - 1) /\ p \in SUBSET (1 .. w - 1)
      BY <3>1
    <3> HIDE DEF a
    <3>5. ASSUME NEW val \in BOOLEAN, NEW q \in SUBSET (1 .. w - 1)
          PROVE  sat[<<a(val), w, q>>] = tuples(a(val), w, q)
      <4> DEFINE y == a(val)
      <4>1. y \in Refs(nodes) /\ Within(nodes, depth, y) /\ from(w, y)
        BY <3>2 DEF SideOf
      <4> HIDE DEF y, w, tuples
      <4>2. sat[<<y, w, q>>] = tuples(y, w, q)
        BY <1>8, <3>1, <4>1
      <4> QED BY <4>2 DEF y
    <3>6. sat[<<x, v, p>>] = tuples(a(TRUE), w, p \cup {v}) \cup tuples(a(FALSE), w, p)
      <4> HIDE DEF tuples, w
      <4> QED BY <3>3, <3>4, <3>5
    <3>7. ASSUME NEW s \in Assignment
          PROVE  s \in tuples(x, v, p) <=> s \in tuples(a(TRUE), w, p \cup {v}) \/ s \in tuples(a(FALSE), w, p)
      <4>1. s \cap (1 .. w - 1) = IF v \in s THEN (s \cap (1 .. v - 1)) \cup {v} ELSE s \cap (1 .. v - 1)
        BY <3>1
      <4>2. v \notin p /\ v \notin s \cap (1 .. v - 1)
        BY <3>1
      <4>3. CASE v \in s
        <5>1. s \in meaning(nodes, a(TRUE)) <=> s \in meaning(nodes, x)
          BY <3>2, <4>3 DEF SideOf
        <5>2. s \cap (1 .. w - 1) # p
          BY <4>1, <4>2, <4>3
        <5>3. s \cap (1 .. w - 1) = p \cup {v} <=> s \cap (1 .. v - 1) = p
          BY <4>1, <4>2, <4>3
        <5> QED BY <5>1, <5>2, <5>3
      <4>4. CASE v \notin s
        <5>1. s \in meaning(nodes, a(FALSE)) <=> s \in meaning(nodes, x)
          BY <3>2, <4>4 DEF SideOf
        <5>2. s \cap (1 .. w - 1) # p \cup {v}
          BY <4>4
        <5> QED BY <4>1, <4>4, <5>1, <5>2
      <4> QED BY <4>3, <4>4
    <3>8. /\ tuples(x, v, p) \subseteq Assignment
          /\ tuples(a(TRUE), w, p \cup {v}) \subseteq Assignment /\ tuples(a(FALSE), w, p) \subseteq Assignment
      OBVIOUS
    <3> HIDE DEF tuples, w
    <3> QED BY <3>6, <3>7, <3>8
  <2> QED BY <2>1, <2>2
<1>9. Nat \subseteq X
  <2> HIDE DEF X
  <2> QED BY <1>7, <1>8, SetInduction
<1>10. sat[<<x0, 1, {}>>] = tuples(x0, 1, {})
  <2>1. Proper(nodes, x0)
    BY DEF Within
  <2>2. x0 \in Refs(nodes) /\ from(1, x0)
    BY <1>0, <2>1, ProperParts DEF from
  <2>3. NVars \in X /\ 1 \in 1 .. NVars + 1 /\ {} \in SUBSET (1 .. 1 - 1) /\ NVars + 1 - 1 <= NVars
    BY <1>0, <1>9
  <2> HIDE DEF tuples
  <2> QED BY <2>2, <2>3
<1>11. tuples(x0, 1, {}) = meaning(nodes, x0)
  <2>1. Proper(nodes, x0)
    BY DEF Within
  <2>2. x0 \in Refs(nodes)
    BY <1>0, <2>1, ProperParts
  <2>3. meaning(nodes, x0) \subseteq Assignment
    BY <1>0, <2>2, MeaningTyped
  <2>4. 1 .. 1 - 1 = {}
    OBVIOUS
  <2> QED BY <2>3, <2>4
<1> QED BY <1>4, <1>10, <1>11

\* bdd_subsumes and allsat, which read the nodes and make none, agree with the
\* functions of the handles they are asked about, for every number of variables
\* (bdd::bdd_subsumes, bdd::sat).
THEOREM ReadingsAgreeAlways == NodesSpec => []ReadingsAgree
<1>1. Sound => ReadingsAgree
  <2> SUFFICES ASSUME Sound PROVE ReadingsAgree
    OBVIOUS
  <2>1. PICK depth : SoundStore(V, depth, C, memos, held)
    BY DEF Sound
  <2>2. Normal(V) /\ Measures(V, depth)
    BY <2>1 DEF SoundStore
  <2>3. ASSUME NEW x \in held
        PROVE  /\ Within(V, depth, x.ref) /\ meaning(V, x.ref) = x.fun /\ x.fun \subseteq Assignment
    BY <2>1 DEF SoundStore, SoundHandle
  <2>4. ASSUME NEW x \in held, NEW y \in held
        PROVE  bdd_subsumes(V, x.ref, y.ref) <=> y.fun \subseteq x.fun
    <3> DEFINE a == x.ref
               b == y.ref
    <3>1. Within(V, depth, a) /\ meaning(V, a) = x.fun /\ Within(V, depth, b) /\ meaning(V, b) = y.fun
      BY <2>3
    <3> HIDE DEF a, b
    <3>2. bdd_subsumes(V, a, b) <=> Includes(V, a, b)
      BY <2>2, <3>1, SubsumesIncludes
    <3>3. Includes(V, a, b) <=> y.fun \subseteq x.fun
      BY <2>3, <3>1 DEF Includes
    <3> QED BY <3>2, <3>3 DEF a, b
  <2>5. ASSUME NEW x \in held PROVE allsat(V, x.ref) = x.fun
    BY <2>2, <2>3, AllsatIs
  <2> QED BY <2>4, <2>5 DEF ReadingsAgree
<1> QED BY <1>1, StoreSoundAlways, PTL

=============================================================================
