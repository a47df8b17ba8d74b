------------------------------ MODULE MCRules ------------------------------
(***************************************************************************)
(* A small universe for the modules about rules: two values, the visible   *)
(* tables p and q, a hidden table h, __fp__ and three builtins.  The pool  *)
(* holds a rule for each way rules can interact; a program is any set of   *)
(* up to MaxRules of them.                                                 *)
(***************************************************************************)
EXTENDS Naturals, FiniteSets, TLC

CONSTANTS
  MaxRules,  \* rules of a program at most
  a, b       \* the two values of the universe

MCTuple == {a, b}
MCSubst == {a, b}

p == 0
q == 1
h == 2
fp == 3
halt_b == 4
error_b == 5
false_b == 6
MCNTables == 7
MCEffect == (halt_b :> "halt") @@ (error_b :> "error") @@ (false_b :> "false")
MCHidden == {h, fp}

id   == [x \in {a, b} |-> x]
swap == [x \in {a, b} |-> IF x = a THEN b ELSE a]
unit == [x \in {a, b} |-> a]

pos(tab, arg) == [tab |-> tab, neg |-> FALSE, arg |-> arg]
not(tab, arg) == [tab |-> tab, neg |-> TRUE, arg |-> arg]
alt(bodies)   == [bodies |-> bodies, rng |-> {a, b}, head |-> id]
fact(bodies)  == [bodies |-> bodies, rng |-> {a, b}, head |-> unit]
adds(tab, alts) == [tab |-> tab, neg |-> FALSE, alts |-> alts, eq |-> {a, b}]
dels(tab, alts) == [tab |-> tab, neg |-> TRUE, alts |-> alts, eq |-> {a, b}]

MCPool ==
  { adds(q, {alt({pos(p, id)}), alt({pos(h, swap)})}),   \* q(?x) :- p(?x); h(~?x).
    adds(p, {alt({pos(q, swap)})}),
    adds(p, {alt({not(p, id), not(q, id)})}),
    dels(p, {alt({pos(p, id)})}),
    dels(q, {alt({pos(q, id), pos(p, swap)})}),
    adds(h, {alt({not(h, id)})}),
    dels(h, {alt({pos(h, id)})}),
    adds(q, {alt({pos(p, id), pos(fp, unit)})}),
    dels(fp, {fact({pos(fp, unit)})}),
    dels(fp, {fact({pos(fp, unit), not(q, id)})}),
    adds(halt_b, {fact({pos(p, id), pos(p, swap)})}),
    adds(error_b, {fact({pos(q, id)})}),
    adds(false_b, {fact({pos(q, id), pos(q, swap)})}) }

MCPrograms == { s \in SUBSET MCPool : Cardinality(s) \in 1 .. MaxRules }

MCEDBs ==
  { [t \in 0 .. MCNTables - 1 |->
       IF t = p THEN x ELSE IF t = q THEN y ELSE IF t = fp THEN z ELSE {}] :
    x \in {{}, {a}, {a, b}}, y \in {{}, {b}}, z \in {{}, {a}} }
=============================================================================
