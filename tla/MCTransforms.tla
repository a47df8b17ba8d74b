---------------------------- MODULE MCTransforms ----------------------------
(***************************************************************************)
(* Programs of one or two rules over five relations, with facts for all.   *)
(***************************************************************************)
EXTENDS Transforms

x == Var(1)
y == Var(2)
z == Var(3)
P(a)    == Rel(<<"rel", 1>>, <<a>>)
Q(a)    == Rel(<<"rel", 2>>, <<a>>)
H(a)    == Rel(<<"rel", 3>>, <<a>>)
G(a)    == Rel(<<"rel", 4>>, <<a>>)
E(a, b) == Rel(<<"rel", 5>>, <<a, b>>)
n(rt)   == negate(rt)
L(rt)   == Leaf(rt)
All(v, t) == Quant("FORALL", v, t)
Some(v, t) == Quant("EXISTS", v, t)
And(a, b) == Tree("AND", a, b)
Or(a, b) == Tree("ALT", a, b)

MCFacts == mapped(Fact, <<P(Num(1)), Q(Num(1)), H(Num(1)), G(Num(1)), E(Num(1), Num(1))>>)

\* conjunctive rules, with and without negation
Plain == {
  Rule(<<H(x)>>, <<<<P(x), Q(x)>>>>),
  Rule(<<H(x)>>, <<<<P(x)>>>>),
  Rule(<<H(x)>>, <<<<E(x, y), E(x, z)>>>>),
  Rule(<<H(x)>>, <<<<E(x, x)>>>>),
  Rule(<<H(x)>>, <<<<P(x), n(Q(x))>>>>),
  Rule(<<H(x)>>, <<<<Q(x)>>>>),
  Rule(<<n(H(x))>>, <<<<Q(x), H(x)>>>>),
  Rule(<<E(x, z)>>, <<<<E(x, y), E(y, z)>>>>) }
Others == {
  Rule(<<P(x), n(H(x))>>, <<<<H(x), Q(x)>>>>),
  Rule(<<n(P(x))>>, <<<<n(Q(x))>>>>),
  Rule(<<Q(Num(1))>>, <<<<P(Num(2)), Eq(x, Num(2)), H(x)>>>>) }
Forms == {
  FormRule(<<H(x)>>, And(L(P(x)), All(y, Tree("IMPLIES", L(E(x, y)), L(Q(y)))))),
  FormRule(<<H(x)>>, And(L(P(x)), Some(y, And(L(E(x, y)), L(n(Q(y))))))),
  FormRule(<<G(x)>>, Or(L(H(x)), And(L(P(x)), L(n(H(x)))))),
  FormRule(<<Q(x)>>, And(L(P(x)), Quant("UNIQUE", y, L(E(x, y))))),
  FormRule(<<n(P(x))>>, And(L(Q(x)), Tree("COIMPLIES", L(P(x)), L(H(x))))),
  FormRule(<<G(y)>>, Some(x, Some(y, And(L(E(x, y)), L(P(x)))))),
  FormRule(<<H(x)>>, And(L(P(x)), Some(x, L(Q(x))))) }
\* safe or not only by an equality, a disjunction or a quantifier
Doubtful == {
  Rule(<<H(x)>>, <<<<n(P(x))>>>>),
  Rule(<<H(x)>>, <<<<Eq(x, y), P(y)>>>>),
  Rule(<<H(x)>>, <<<<Eq(x, y), n(P(y))>>>>),
  FormRule(<<H(x)>>, Or(L(P(x)), L(Q(y)))),
  FormRule(<<H(x)>>, Or(L(P(x)), And(L(Eq(x, y)), L(Q(y))))),
  FormRule(<<H(x)>>, Or(And(L(P(x)), L(Q(y))), And(L(Eq(x, y)), L(Q(x))))),
  FormRule(<<H(x)>>, Not(Or(L(n(P(x))), L(Q(x))))),
  FormRule(<<H(x)>>, Some(y, And(L(P(x)), Not(L(Eq(x, y)))))),
  FormRule(<<H(x)>>, And(L(P(x)), All(y, Tree("IMPLIES", L(E(x, y)), L(Eq(x, y)))))),
  FormRule(<<H(x)>>, And(L(P(x)), All(y, L(E(x, y))))),
  FormRule(<<n(H(x))>>, L(n(P(x)))) }

Job(rs, opts, k) == [r |-> rs \o MCFacts, opts |-> opts, iterate |-> k, prog |-> <<>>]
pairs(A, B) == { <<a, b>> : a \in A, b \in B }
Everything == Plain \cup Others \cup Forms

\* bodies that occur in other rules as they are, no two of their variables merged
Sharing == {
  <<Rule(<<H(x)>>, <<<<P(x), Q(x)>>>>), Rule(<<G(x)>>, <<<<Q(x), P(x), E(x, y)>>>>)>>,
  <<Rule(<<H(x)>>, <<<<P(x), E(x, y)>>>>), Rule(<<G(y)>>, <<<<P(x), E(x, y)>>>>)>>,
  <<Rule(<<G(x)>>, <<<<P(x), Q(x)>>>>), Rule(<<n(G(x))>>, <<<<P(x), Q(x), H(x)>>>>)>> }

\* nested programs, branches and loops over relations without arguments
F(i)  == Rel(<<"rel", 5 + i>>, <<>>)
rule(h, b)     == Stmt(Rule(<<h>>, <<b>>))
formula(h, t)  == Stmt(FormRule(<<h>>, t))
assert(hs)     == Stmt(Rule(hs, <<>>))
holding(is)    == IF is = {} THEN <<>> ELSE <<assert(mapped(F, listed(is)))>>
NestedProgs == {
  \* adds, rules that add and delete, and programs two deep
  <<rule(F(3), <<F(1), n(F(2))>>),
    Nested(<<assert(<<F(2), n(F(3))>>), rule(F(4), <<F(2), n(F(1))>>), rule(n(F(2)), <<F(3)>>),
             Nested(<<rule(F(5), <<n(F(4))>>), rule(n(F(1)), <<F(5)>>)>>)>>),
    Nested(<<formula(F(3), And(L(F(1)), L(n(F(5)))))>>)>>,
  \* a branch with rules, another branch inside the other
  <<rule(F(3), <<F(1), F(2)>>),
    IfElse(And(L(F(1)), L(n(F(3)))), <<assert(<<F(4)>>), rule(n(F(1)), <<F(4)>>), rule(F(5), <<n(F(1))>>)>>,
           <<assert(<<F(5)>>), If(L(F(2)), <<rule(F(4), <<F(5)>>)>>)>>)>>,
  <<Nested(<<rule(F(3), <<n(F(1))>>), IfElse(L(F(3)), <<assert(<<n(F(2))>>)>>, <<Nested(<<assert(<<F(4)>>)>>)>>)>>)>>,
  \* a loop that ends because nothing changes any more
  <<assert(<<F(5)>>), While(L(F(5)), <<assert(<<F(3)>>), rule(F(4), <<F(3), n(F(1))>>), rule(n(F(2)), <<F(4)>>)>>),
    Nested(<<rule(n(F(5)), <<n(F(2))>>)>>)>>,
  <<assert(<<F(5)>>), While(L(F(5)), <<Nested(<<rule(F(3), <<F(1)>>)>>)>>)>>,
  \* a contradiction of two rules of a branch, unless F(2) holds
  <<If(L(F(1)), <<rule(F(3), <<F(1)>>), rule(n(F(3)), <<F(1), n(F(2))>>), Nested(<<assert(<<F(4)>>)>>)>>)>> }
guarded_job(p) == [r |-> <<>>, opts |-> {"guards"}, iterate |-> 0, prog |-> p]
MCGuarded == { guarded_job(holding(is) \o p) : is \in SUBSET {1, 2}, p \in NestedProgs }

MCJobs ==
  MCGuarded \cup
  { Job(<<r>>, {"safecheck"}, 0) : r \in Everything \cup Doubtful } \cup
  { Job(<<a, b>>, {"to-dnf"}, 0) : a \in Forms, b \in Everything } \cup
  { Job(<<a, b>>, {"cqc-subsume"}, 0) : a \in Plain, b \in Plain } \cup
  { Job(<<a, b>>, {"cqnc-subsume"}, 0) : a \in Plain, b \in Plain } \cup
  { Job(p, {"cqc-factor"}, 0) : p \in Sharing } \cup
  { Job(<<a, b>>, {}, 1) : a \in Everything, b \in Plain } \cup
  { Job(<<a>>, {}, 2) : a \in Everything } \cup
  { Job(<<a>>, {"to-dnf"}, 1) : a \in Everything }

\* a constant under a negation, which cqnc does not put among the symbols
MCConstant == {
  Job(<<Rule(<<H(x)>>, <<<<P(x), n(Q(x))>>>>), Rule(<<H(x)>>, <<<<P(x), n(Q(Num(2)))>>>>)>>,
      {"cqnc-subsume"}, 0) }

MCOutside == Num(9)
MCUniverse == { Num(1), Num(2) }
p(i) == <<P(x).rel, <<Num(i)>>>>
q(i) == <<Q(x).rel, <<Num(i)>>>>
h(i) == <<H(x).rel, <<Num(i)>>>>
e(i, j) == <<E(x, y).rel, <<Num(i), Num(j)>>>>
MCContents == { {p(1), p(2), q(2), e(1, 2), e(2, 2), e(2, 1)}, {p(1), h(1), h(2), q(1), e(1, 1)} }
=============================================================================
