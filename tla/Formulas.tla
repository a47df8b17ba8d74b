------------------------------ MODULE Formulas ------------------------------
(***************************************************************************)
(* Terms, formula trees and rules as the driver rewrites them (raw_term,   *)
(* raw_form_tree, raw_rule of input.h), the operators on them the          *)
(* transformations share (input.cpp, driver.cpp), and what a program of    *)
(* such rules does to a database in one step.                              *)
(*                                                                         *)
(* An element is a tuple tagged "var", "num" (a constant) or "sym" (a      *)
(* symbol made by a transformation); a relation's name is a tuple too, so  *)
(* that a transformation can derive a new name from an old one.  A goal    *)
(* leaves the database alone and has no place here.                        *)
(***************************************************************************)
EXTENDS SequencesExt

Var(i) == <<"var", i>>
Num(i) == <<"num", i>>
IsVar(e) == e[1] = "var"

\* a raw_term: the relation's name apart from its arguments
Rel(r, args) == [extype |-> "REL", rel |-> r, e |-> args, neg |-> FALSE]
Eq(a, b)     == [extype |-> "EQ", rel |-> <<"eq">>, e |-> <<a, b>>, neg |-> FALSE]
negate(rt)   == [rt EXCEPT !.neg = ~@]

\* raw_form_tree
Not(t)          == [type |-> "NOT", l |-> t]
Leaf(rt)        == IF rt.neg THEN Not([type |-> "NONE", rt |-> negate(rt)])
                   ELSE [type |-> "NONE", rt |-> rt]
Tree(op, l, r)  == [type |-> op, l |-> l, r |-> r]
Quant(op, v, t) == [type |-> op, v |-> v, r |-> t]
NoTree          == [type |-> "ABSENT"]
Connectives     == {"AND", "ALT", "IMPLIES", "COIMPLIES"}
Quantifiers     == {"EXISTS", "FORALL", "UNIQUE"}

\* raw_rule: a tree counts only while there are no bodies
Rule(h, b)      == [h |-> h, b |-> b, prft |-> NoTree]
FormRule(h, t)  == [h |-> h, b |-> <<>>, prft |-> t]
Fact(rt)        == Rule(<<rt>>, <<>>)
is_dnf(rr)      == rr.b # <<>>
is_form(rr)     == rr.b = <<>> /\ rr.prft # NoTree
is_fact(rr)     == rr.b = <<>> /\ rr.prft = NoTree
set_prft(rr, t) == [rr EXCEPT !.b = <<>>, !.prft = t]
set_b(rr, b)    == [rr EXCEPT !.b = b, !.prft = NoTree]

get_relation_info(rt) == <<rt.rel, Len(rt.e)>>

\* a set in some order, whatever its size
listed(S) == FoldSet(LAMBDA m, s : Append(s, m), <<>>, S)
----------------------------------------------------------------------------
(* Between the two forms of a body. *)

RECURSIVE flatten_associative(_, _)
flatten_associative(t, op) ==
  IF t.type = op THEN flatten_associative(t.l, op) \o flatten_associative(t.r, op)
  ELSE <<t>>

join(op, ts) == FoldLeft(LAMBDA l, r : Tree(op, l, r), Head(ts), Tail(ts))
mapped(f(_), s) == [i \in DOMAIN s |-> f(s[i])]

conj_to_tree(conj) == join("AND", mapped(Leaf, conj))

get_prft(rr) == IF rr.prft # NoTree \/ rr.b = <<>> THEN rr.prft
                ELSE join("ALT", mapped(conj_to_tree, rr.b))

try_as_prft(rr) == IF rr.prft = NoTree /\ rr.b # <<>> THEN set_prft(rr, get_prft(rr)) ELSE rr

\* a conjunct and the sign it ends up with under its negations
RECURSIVE signed(_, _)
signed(t, neg) == IF t.type = "NOT" THEN signed(t.l, ~neg) ELSE [t |-> t, neg |-> neg]

\* the tree as a disjunction of conjunctions, or <<>> if it is none
get_b(rr) ==
  IF rr.b # <<>> \/ rr.prft = NoTree THEN rr.b
  ELSE LET conjuncts(t) == mapped(LAMBDA c : signed(c, FALSE), flatten_associative(t, "AND"))
           disjuncts    == mapped(conjuncts, flatten_associative(rr.prft, "ALT"))
       IN  IF \E i \in DOMAIN disjuncts : \E j \in DOMAIN disjuncts[i] :
                 disjuncts[i][j].t.type # "NONE"
           THEN <<>>
           ELSE mapped(LAMBDA d : mapped(LAMBDA c : [c.t.rt EXCEPT !.neg = c.neg], d), disjuncts)

try_as_b(rr) == IF is_form(rr) /\ get_b(rr) # <<>> THEN set_b(rr, get_b(rr)) ELSE rr
----------------------------------------------------------------------------
(* Variables. *)

collect_vars(rt) == { e \in Range(rt.e) : IsVar(e) }
vars_of(rts)     == UNION { collect_vars(rt) : rt \in rts }

RECURSIVE collect_free_vars(_)
collect_free_vars(t) ==
  CASE t.type = "NONE"         -> collect_vars(t.rt)
    [] t.type = "NOT"          -> collect_free_vars(t.l)
    [] t.type \in Connectives  -> collect_free_vars(t.l) \cup collect_free_vars(t.r)
    [] t.type \in Quantifiers  -> collect_free_vars(t.r) \ {t.v}

body_vars(rr) == IF is_form(rr) THEN collect_free_vars(rr.prft)
                 ELSE UNION { vars_of(Range(rr.b[i])) : i \in DOMAIN rr.b }
free_vars(rr) == vars_of(Range(rr.h)) \cup body_vars(rr)

\* also the bound ones: what a fresh variable has to differ from
RECURSIVE all_vars(_)
all_vars(t) ==
  CASE t.type = "NONE"         -> collect_vars(t.rt)
    [] t.type = "NOT"          -> all_vars(t.l)
    [] t.type \in Connectives  -> all_vars(t.l) \cup all_vars(t.r)
    [] t.type \in Quantifiers  -> all_vars(t.r) \cup {t.v}

\* elem::fresh_var, the n-th variable after those in use
fresh_var(used, n) == Var(n + Max({0} \cup { v[2] : v \in used }))

\* A variable that has no new name gets the one `gen` has for it, a quantified
\* one always does, within its quantifier.
renamed(e, renames, gen) == IF ~IsVar(e) THEN e
                            ELSE IF e \in DOMAIN renames THEN renames[e] ELSE gen[e]
RECURSIVE rename_variables(_, _, _)
rename_variables(t, renames, gen) ==
  CASE t.type = "NONE" ->
         [t EXCEPT !.rt.e = mapped(LAMBDA e : renamed(e, renames, gen), @)]
    [] t.type = "NOT" -> Not(rename_variables(t.l, renames, gen))
    [] t.type \in Connectives ->
         Tree(t.type, rename_variables(t.l, renames, gen), rename_variables(t.r, renames, gen))
    [] t.type \in Quantifiers ->
         Quant(t.type, gen[t.v], rename_variables(t.r, (t.v :> gen[t.v]) @@ renames, gen))

gen_id_var(used) == [v \in used |-> v]
gen_fresh_var(vs, used) ==
  LET s == listed(vs) IN [v \in vs |-> fresh_var(used, CHOOSE n \in DOMAIN s : s[n] = v)]

\* the top operator in terms of simpler ones; `used` are variables in scope
expand_formula_node(t, used) ==
  CASE t.type = "IMPLIES"   -> Tree("ALT", Not(t.l), t.r)
    [] t.type = "COIMPLIES" -> Tree("AND", Tree("IMPLIES", t.l, t.r), Tree("IMPLIES", t.r, t.l))
    [] t.type = "UNIQUE"    ->
         LET evar == fresh_var(used \cup all_vars(t), 1)
             copy == rename_variables(t.r, t.v :> evar, gen_id_var(all_vars(t)))
         IN  Quant("EXISTS", t.v,
               Tree("AND", t.r,
                 Quant("FORALL", evar, Tree("IMPLIES", copy, Leaf(Eq(evar, t.v))))))
    [] OTHER -> t
----------------------------------------------------------------------------
(* What the interpreter makes of a rule: U is the universe, a database is  *)
(* a set of facts <<relation, arguments>>.                                 *)

fact(rt, env) == <<rt.rel, [i \in DOMAIN rt.e |-> IF IsVar(rt.e[i]) THEN env[rt.e[i]]
                                                  ELSE rt.e[i]]>>
holds(rt, env, db) ==
  (IF rt.extype = "EQ" THEN LET a == fact(rt, env)[2] IN a[1] = a[2]
   ELSE fact(rt, env) \in db) # rt.neg

RECURSIVE satisfied(_, _, _, _)
satisfied(t, env, db, U) ==
  LET sub(f) == satisfied(f, env, db, U)
      witnesses == { u \in U : satisfied(t.r, (t.v :> u) @@ env, db, U) }
  IN CASE t.type = "NONE"      -> holds(t.rt, env, db)
       [] t.type = "NOT"       -> ~sub(t.l)
       [] t.type = "AND"       -> sub(t.l) /\ sub(t.r)
       [] t.type = "ALT"       -> sub(t.l) \/ sub(t.r)
       [] t.type = "IMPLIES"   -> sub(t.l) => sub(t.r)
       [] t.type = "COIMPLIES" -> sub(t.l) <=> sub(t.r)
       [] t.type = "EXISTS"    -> witnesses # {}
       [] t.type = "FORALL"    -> witnesses = U
       [] t.type = "UNIQUE"    -> Cardinality(witnesses) = 1

\* the assignments of the rule's variables under which its body holds; a
\* conjunction binds one term after the other (alt_query)
bound(rt, env, db, U) ==
  LET vs == collect_vars(rt) \ DOMAIN env
  IN  { x @@ env : x \in { y \in [vs -> U] : holds(rt, y @@ env, db) } }
matches(conj, db, U) ==
  FoldLeft(LAMBDA envs, rt : UNION { bound(rt, env, db, U) : env \in envs }, {<< >>}, conj)

\* The variables of outermost existential quantifiers are seen by the head too.
RECURSIVE inside(_)
inside(t) == IF t.type = "EXISTS" THEN inside(t.r) ELSE t

substitutions(rr, db, U) ==
  IF is_form(rr)
  THEN { env \in [collect_free_vars(inside(rr.prft)) \cup vars_of(Range(rr.h)) -> U] :
           satisfied(inside(rr.prft), env, db, U) }
  ELSE UNION { UNION { { x @@ env : x \in [free_vars(rr) \ DOMAIN env -> U] } :
                         env \in matches(rr.b[i], db, U) } : i \in DOMAIN rr.b }
answers(rr, h, db, U) == { fact(h, env) : env \in substitutions(rr, db, U) }

effects(rules, neg, db, U) ==
  UNION { UNION { answers(rr, h, db, U) : h \in { x \in Range(rr.h) : x.neg = neg } } :
            rr \in { r \in rules : ~is_fact(r) } }

\* one evaluation and commit; a table whose insertions are all deleted contradicts
step(rules, db, U) == (db \cup effects(rules, FALSE, db, U)) \ effects(rules, TRUE, db, U)
contradicts(rules, db, U) ==
  LET table(fs, f) == { g \in fs : g[1] = f[1] /\ Len(g[2]) = Len(f[2]) }
      add == effects(rules, FALSE, db, U)
      del == effects(rules, TRUE, db, U)
  IN  \E f \in add : table(add, f) \subseteq del
=============================================================================
