------------------------------ MODULE BddNodes ------------------------------
(***************************************************************************)
(* The store of nodes by its smallest steps (bdd.cpp, bdd.h): a reference  *)
(* is made by add from two others, is a branch of another or its           *)
(* complement, or is what a memo answers; an answer is remembered; a       *)
(* reference is let go; gc throws away what no handle reaches, renumbering *)
(* the nodes that stay and everything that names them.                     *)
(*                                                                         *)
(* Every operation of the store is made of these steps.  The references an *)
(* operation has in hand count as handles here: gc runs before operations  *)
(* and between them only.                                                  *)
(***************************************************************************)
EXTENDS BddRefs, FiniteSets

CONSTANTS
  Memos,      \* the operations that have a memo of their own, besides C
  Renamings   \* the pairs <<variables quantified over, permutation>> asked for

ASSUME BddNodesAssumption ==
  Renamings \subseteq (SUBSET (1 .. NVars)) \X [1 .. NVars -> 1 .. NVars]

VARIABLES
  V,          \* the nodes [h, l] by id; node 1 is the leaf
  C,          \* memo: <<x, y, z>> |-> if x then y else z
  memos,      \* the other memos: <<operation, vars, permutation, operands>> |-> result
  held        \* the live handles, each with the function it was made for

nodesVars == <<V, C, memos, held>>

TrueHandle  == [ref |-> T, fun |-> Assignment]
FalseHandle == [ref |-> F, fun |-> {}]

\* bdd::init
NodesInit ==
  /\ V = << [h |-> T, l |-> T] >>
  /\ C = << >> /\ memos = << >>
  /\ held = {TrueHandle, FalseHandle}
----------------------------------------------------------------------------
(* bdd::gc *)

children(i) == {V[i].h.id, V[i].l.id}

roots == {1} \cup { x.ref.id : x \in held }

\* mark_all: a child comes before its parents, so one pass from the newest node
\* down meets them all; reached[n] are those among the n newest.
live ==
  LET reached[n \in 0 .. Len(V)] ==
        IF n = 0 THEN {}
        ELSE LET i == Len(V) + 1 - n
                 R == reached[n - 1]
             IN  IF i \in roots \/ \E j \in R : i \in children(j) THEN R \cup {i} ELSE R
  IN  reached[Len(V)]

\* p: where a live node goes
new_id(i) == Cardinality({ k \in live : k <= i })

renamed(x) == [x EXCEPT !.id = new_id(@)]

kept_nodes ==
  LET old(i) == CHOOSE k \in live : new_id(k) = i
  IN  [i \in 1 .. Cardinality(live) |-> [h |-> renamed(V[old(i)].h), l |-> renamed(V[old(i)].l)]]

\* mutant: an entry is kept when one of its operands is alive
kept_memos_some ==
  { k \in DOMAIN memos : (\E x \in k[4] : x.id \in live) /\ memos[k].id \in live }

\* mutant: the result of an entry is not looked at
kept_ite_key_only == { k \in DOMAIN C : {k[1].id, k[2].id, k[3].id} \subseteq live }

\* the entries whose nodes are all alive
kept_ite   == { k \in DOMAIN C : {k[1].id, k[2].id, k[3].id, C[k].id} \subseteq live }
kept_memos == { k \in DOMAIN memos : { x.id : x \in k[4] \cup {memos[k]} } \subseteq live }

\* what gc leaves of the store and of the handles
collected ==
  LET ite_key(k) == <<renamed(k[1]), renamed(k[2]), renamed(k[3])>>
      memo_key(k) == <<k[1], k[2], k[3], { renamed(x) : x \in k[4] }>>
  IN  [V |-> kept_nodes,
       C |-> [n \in { ite_key(k) : k \in kept_ite } |->
                renamed(C[CHOOSE k \in kept_ite : ite_key(k) = n])],
       memos |-> [n \in { memo_key(k) : k \in kept_memos } |->
                    renamed(memos[CHOOSE k \in kept_memos : memo_key(k) = n])]]

updated(S) == { [x EXCEPT !.ref = renamed(@)] : x \in S }

Collect ==
  /\ V' = collected.V /\ C' = collected.C /\ memos' = collected.memos
  /\ held' = updated(held)

\* the last owner of a handle lets it go (the leaves are always held)
LetGo(x) ==
  /\ ~leaf(x.ref)
  /\ held' = held \ {x}
  /\ UNCHANGED <<V, C, memos>>
----------------------------------------------------------------------------
(* The steps operations are made of. *)

Hold(ref, fun) == held' = held \cup {[ref |-> ref, fun |-> fun]}

\* x does not depend on variables before v
from(v, x) == leaf(x) \/ v <= x.sh

\* bdd::add, "Precondition is that h and l depend only on variables after v"
Add(v, x, y) ==
  /\ from(v + 1, x.ref) /\ from(v + 1, y.ref)
  /\ V' = added(V, v, x.ref, y.ref).nodes
  /\ Hold(added(V, v, x.ref, y.ref).ref, ite_of(bit(v, TRUE), x.fun, y.fun))
  /\ UNCHANGED <<C, memos>>

\* f with the variable v set
cofactor(f, v, val) == { s \in Assignment : (IF val THEN s \cup {v} ELSE s \ {v}) \in f }

\* bdd::hi and bdd::lo
Branch(x, high) ==
  /\ ~leaf(x.ref)
  /\ LET g == get(V, x.ref)
     IN  Hold(IF high THEN g.h ELSE g.l, cofactor(x.fun, x.ref.sh, high))
  /\ UNCHANGED <<V, C, memos>>

Invert(x) ==
  /\ Hold(flip(x.ref), Assignment \ x.fun)
  /\ UNCHANGED <<V, C, memos>>

\* the entry of a question in C is shifted down by n variables
ite_key_of(x, y, z, n) ==
  <<minus_shift(x.ref, n), minus_shift(y.ref, n), minus_shift(z.ref, n)>>

\* a leaf as the condition, or as what it chooses, is answered at once
asks(x, y) == ~leaf(x.ref) /\ ~leaf(y.ref)

RememberIte(x, y, z, r, n) ==
  LET key == ite_key_of(x, y, z, n)
  IN  /\ asks(x, y)
      /\ \A a \in {x, y, z, r} : from(n, a.ref)
      /\ r.fun = ite_of(x.fun, y.fun, z.fun)
      /\ C' = [k \in DOMAIN C \cup {key} |->
                 IF k \in DOMAIN C THEN C[k] ELSE minus_shift(r.ref, n)]
      /\ UNCHANGED <<V, memos, held>>

\* its answer is shifted up again
RecallIte(x, y, z, n) ==
  LET key == ite_key_of(x, y, z, n)
  IN  /\ asks(x, y)
      /\ \A a \in {x, y, z} : from(n, a.ref)
      /\ key \in DOMAIN C
      /\ Hold(plus_shift(C[key], n), ite_of(x.fun, y.fun, z.fun))
      /\ UNCHANGED <<V, C, memos>>

meet(S) == { s \in Assignment : \A x \in S : s \in x.fun }
refs(S) == { x.ref : x \in S }

\* f quantified over ex and its variables renamed by p
renamed_ex(f, ex, p) ==
  { s \in Assignment : { v \in (1 .. NVars) \ ex : p[v] \in s } \in ex_of(f, ex) }

Remember(op, ex, p, S, r) ==
  LET key == <<op, ex, p, refs(S)>>
  IN  /\ r.fun = renamed_ex(meet(S), ex, p)
      /\ memos' = [k \in DOMAIN memos \cup {key} |->
                     IF k \in DOMAIN memos THEN memos[k] ELSE r.ref]
      /\ UNCHANGED <<V, C, held>>

Recall(op, ex, p, S) ==
  LET key == <<op, ex, p, refs(S)>>
  IN  /\ key \in DOMAIN memos
      /\ Hold(memos[key], renamed_ex(meet(S), ex, p))
      /\ UNCHANGED <<V, C, memos>>

Step ==
  \/ \E v \in 1 .. NVars, x, y \in held : Add(v, x, y)
  \/ \E x \in held : Invert(x) \/ \E high \in BOOLEAN : Branch(x, high)
  \/ \E n \in 1 .. NVars, x, y, z \in held :
       RecallIte(x, y, z, n) \/ \E r \in held : RememberIte(x, y, z, r, n)
  \/ \E op \in Memos, q \in Renamings, S \in SUBSET held :
       Recall(op, q[1], q[2], S) \/ \E r \in held : Remember(op, q[1], q[2], S, r)

NodesNext == Step \/ Collect \/ \E x \in held : LetGo(x)

NodesSpec == NodesInit /\ [][NodesNext]_nodesVars
----------------------------------------------------------------------------
(* Properties. *)

all_of(S) == LET M == { meaning(V, x) : x \in S } IN { s \in Assignment : \A m \in M : s \in m }

\* A handle denotes the function it was made for, whatever was computed,
\* dropped, collected and renumbered since.
Faithful == \A x \in held : meaning(V, x.ref) = x.fun

\* Two handles are equal exactly when their functions are: this is what
\* pfp's comparison of fronts and all the `== hfalse` tests stand on.
\* And the store never holds two nodes, or a node that is written in another
\* way, for one function: add keeps it so and gc's renumbering leaves it so.
Canonical ==
  /\ \A x, y \in held : x.fun = y.fun <=> x.ref = y.ref
  /\ \A i, j \in 1 .. Len(V) : V[i] = V[j] => i = j
  /\ \A i \in 2 .. Len(V) :
       /\ bdd_lt(V[i].h, V[i].l) /\ V[i].l.out = 0
       /\ \A r \in {V[i].h, V[i].l} : r.id <= Len(V) /\ (leaf(r) \/ r.sh > 0)

\* Every remembered answer is the answer, also when the nodes of the question
\* were numbered otherwise when it was asked.
MemoSound ==
  /\ \A k \in DOMAIN C :
       LET f(x) == meaning(V, plus_shift(x, 1))   \* the entries are shifted down to 0
       IN  f(C[k]) = ite_of(f(k[1]), f(k[2]), f(k[3]))
  /\ \A k \in DOMAIN memos : meaning(V, memos[k]) = renamed_ex(all_of(k[4]), k[2], k[3])

\* The two readings the engine makes of a table without building one:
\* bdd_subsumes is inclusion, and allsat lists exactly the tuples.
ReadingsAgree ==
  /\ \A x, y \in held : bdd_subsumes(V, x.ref, y.ref) <=> y.fun \subseteq x.fun
  /\ \A x \in held : allsat(V, x.ref) = x.fun
=============================================================================
