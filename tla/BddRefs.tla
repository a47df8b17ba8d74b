------------------------------- MODULE BddRefs -------------------------------
(***************************************************************************)
(* References to the nodes of a decision diagram, the one way to make a    *)
(* node, and the function a reference denotes (bdd.cpp, bdd.h).            *)
(*                                                                         *)
(* A reference is the id of a node with a shift of the variables, an input *)
(* inverter (the two branches are swapped) and an output inverter.  The    *)
(* nodes are a sequence of pairs [h, l] of references, by id; node 1 is    *)
(* the leaf.                                                               *)
(***************************************************************************)
EXTENDS Naturals, Sequences

CONSTANT NVars     \* the variables are 1 .. NVars

ASSUME BddRefsAssumption == NVars \in Nat
----------------------------------------------------------------------------
(* References: BDD_REF and the macros on it. *)

T == [out |-> 0, inp |-> 0, sh |-> 0, id |-> 1]
F == [out |-> 1, inp |-> 0, sh |-> 0, id |-> 1]

leaf(x) == x.id = 1
flip(x) == [x EXCEPT !.out = 1 - @]
plus_shift(x, n)  == IF leaf(x) THEN x ELSE [x EXCEPT !.sh = @ + n]
minus_shift(x, n) == IF leaf(x) THEN x ELSE [x EXCEPT !.sh = @ - n]

\* BDD_LT compares the bits of a reference as one signed number
bdd_lt(x, y) ==
  IF x.out # y.out THEN x.out > y.out
  ELSE IF x.inp # y.inp THEN x.inp < y.inp
  ELSE IF x.sh # y.sh THEN x.sh < y.sh
  ELSE x.id < y.id

\* bdd::get
get(nodes, x) ==
  LET n == nodes[x.id]
      seen(r) == IF x.out = 1 THEN flip(plus_shift(r, x.sh)) ELSE plus_shift(r, x.sh)
  IN  IF x.inp = 1 THEN [h |-> seen(n.l), l |-> seen(n.h)] ELSE [h |-> seen(n.h), l |-> seen(n.l)]
----------------------------------------------------------------------------
(* bdd::add: the nodes it leaves and the reference it returns. *)

linked(nodes, n) == IF \E i \in 2 .. Len(nodes) : nodes[i] = n THEN nodes ELSE Append(nodes, n)

id_of(nodes, n) == CHOOSE i \in 2 .. Len(nodes) : nodes[i] = n

node_ref(nodes, v, n, inv_inp, inv_out) ==
  [nodes |-> linked(nodes, n),
   ref   |-> [out |-> inv_out, inp |-> inv_inp, sh |-> v, id |-> id_of(linked(nodes, n), n)]]

added(nodes, v, h, l) ==
  IF h = l THEN [nodes |-> nodes, ref |-> h]
  ELSE LET sign(x) == IF l.out = 1 THEN flip(x) ELSE x
           a == sign(minus_shift(h, v))
           b == sign(minus_shift(l, v))
       IN  IF bdd_lt(b, a) THEN node_ref(nodes, v, [h |-> b, l |-> a], 1, l.out)
                           ELSE node_ref(nodes, v, [h |-> a, l |-> b], 0, l.out)
----------------------------------------------------------------------------
(* Functions.  An assignment is the set of the variables that are true.    *)

Assignment == SUBSET (1 .. NVars)

bit(v, val) == { s \in Assignment : (v \in s) = val }
ite_of(f, g, h) == (f \cap g) \cup (h \ f)
ex_of(f, ex) == { s \in Assignment : \E e \in SUBSET ex : (s \ ex) \cup e \in f }

\* the references there may be
Refs(nodes) == [out : {0, 1}, inp : {0, 1}, sh : Nat, id : 1 .. Len(nodes)]

\* the function a reference denotes
functions(nodes) ==
  LET m[x \in Refs(nodes)] ==
        IF leaf(x) THEN IF x.out = 1 THEN {} ELSE Assignment
        ELSE ite_of(bit(x.sh, TRUE), m[get(nodes, x).h], m[get(nodes, x).l])
  IN  m

meaning(nodes, x) == functions(nodes)[x]
----------------------------------------------------------------------------
(* The two readings of a reference that build no node.                     *)

\* x where the variable v is val; x starts at v or after it
side(nodes, x, v, val) ==
  IF leaf(x) \/ x.sh # v THEN x ELSE IF val THEN get(nodes, x).h ELSE get(nodes, x).l

\* mutant: only the high branches are compared below a node of both
bdd_subsumes_high(nodes, x, y) ==
  LET sub[q \in Refs(nodes) \X Refs(nodes)] ==
        LET a == q[1]  b == q[2]
            v == IF a.sh < b.sh THEN a.sh ELSE b.sh
            both(val) == sub[<<side(nodes, a, v, val), side(nodes, b, v, val)>>]
        IN  IF leaf(a) \/ leaf(b) THEN a = T \/ b = F
            ELSE both(TRUE) /\ (a.sh = b.sh \/ both(FALSE))
  IN  sub[<<x, y>>]

\* x holds wherever y does
bdd_subsumes(nodes, x, y) ==
  LET sub[q \in Refs(nodes) \X Refs(nodes)] ==
        LET a == q[1]  b == q[2]
            v == IF a.sh < b.sh THEN a.sh ELSE b.sh
            both(val) == sub[<<side(nodes, a, v, val), side(nodes, b, v, val)>>]
        IN  IF leaf(a) \/ leaf(b) THEN a = T \/ b = F ELSE both(TRUE) /\ both(FALSE)
  IN  sub[<<x, y>>]

\* bdd::sat: the satisfying assignments over v .. NVars, on top of those chosen
allsat(nodes, x) ==
  LET sat[q \in Refs(nodes) \X (1 .. NVars + 1) \X Assignment] ==
        LET y == q[1]  v == q[2]  chosen == q[3]
        IN  IF y = F THEN {}
            ELSE IF v > NVars THEN {chosen}
            ELSE sat[<<side(nodes, y, v, TRUE), v + 1, chosen \cup {v}>>]
                   \cup sat[<<side(nodes, y, v, FALSE), v + 1, chosen>>]
  IN  sat[<<x, 1, {}>>]
=============================================================================
