---------------------------- MODULE Containment ----------------------------
(***************************************************************************)
(* Query containment and what the driver does with it: the tests of        *)
(* --cqc-subsume and --cqnc-subsume, the removal of rules and subformulas   *)
(* they find redundant (subsume_queries, minimize), and the sharing of      *)
(* bodies by --cqc-factor (factor_rules).                                   *)
(*                                                                          *)
(* A containment is tested by running the second rule on the body of the    *)
(* first, its variables frozen to symbols (tables::run_prog_wedb).  Heads   *)
(* do not occur in bodies here, so that one step is the whole run.          *)
(***************************************************************************)
EXTENDS Formulas

single(rr) == Len(rr.h) = 1 /\ ~rr.h[1].neg /\ Len(rr.b) = 1
is_cqn(rr) == single(rr) /\ \A rt \in Range(rr.b[1]) : rt.extype = "REL"
is_cq(rr)  == is_cqn(rr) /\ \A rt \in Range(rr.b[1]) : ~rt.neg

conjuncts(rr) == Range(rr.b[1])
terms(rr)     == Range(rr.h) \cup conjuncts(rr)
constants(rr) == UNION { { e \in Range(rt.e) : ~IsVar(e) } : rt \in terms(rr) }
Sym(v)        == <<"sym", v[2]>>
frozen(rts, subs) == { fact(rt, subs) : rt \in rts }

\* the universe of tables that know these values: all numbers to the greatest
with_numbers(vs) == vs \cup { Num(i) : i \in 0 .. Max({0} \cup { v[2] : v \in { x \in vs : x[1] = "num" } }) }

\* run_prog_wedb: what rr derives from the facts edb, and the symbols known
derived(rr, edb, syms) ==
  answers(rr, rr.h[1], edb, with_numbers(syms \cup constants(rr) \cup UNION { Range(f[2]) : f \in edb }))

same_head(rr1, rr2) == get_relation_info(rr1.h[1]) = get_relation_info(rr2.h[1])

cqc(rr1, rr2) ==
  /\ is_cq(rr1) /\ is_cq(rr2) /\ same_head(rr1, rr2)
  /\ LET freeze_map == [v \in free_vars(rr1) |-> Sym(v)]
     IN  fact(rr1.h[1], freeze_map) \in derived(rr2, frozen(conjuncts(rr1), freeze_map), {})

\* partition_iter: each variable with the least one of its part
partitions(vs) == { f \in [vs -> vs] : \A v \in vs : f[f[v]] = f[v] /\ f[v][2] <= v[2] }

\* the Levy-Sagiv test: in every way of identifying rr1's variables, on every
\* extension of its positive terms that avoids its negative ones
cqnc(rr1, rr2) ==
  /\ is_cqn(rr1) /\ is_cqn(rr2) /\ same_head(rr1, rr2)
  /\ LET rels == { get_relation_info(rt) : rt \in conjuncts(rr1) \cup conjuncts(rr2) }
     IN  \A p \in partitions(free_vars(rr1)) :
           LET subs       == [v \in DOMAIN p |-> Sym(p[v])]
               canonical  == frozen({ rt \in conjuncts(rr1) : ~rt.neg }, subs)
               negative   == frozen({ rt \in conjuncts(rr1) : rt.neg }, subs)
               symbol_set == Range(subs) \cup constants(rr1)
               superset   == UNION { { <<ri[1], a>> : a \in [1 .. ri[2] -> symbol_set] } :
                                       ri \in rels } \ negative
           IN  \/ canonical \cap negative # {}
               \/ \A ext \in SUBSET (superset \ canonical) :
                    fact(rr1.h[1], subs) \in derived(rr2, canonical \cup ext, symbol_set)

contained(test, rr1, rr2) == IF test = "cqc" THEN cqc(rr1, rr2) ELSE cqnc(rr1, rr2)
----------------------------------------------------------------------------
(* Minimization.  A position in a tree is the way to it. *)

RECURSIVE subtree(_, _), replaced(_, _, _), minimize_aux(_, _, _, _)
subtree(t, way) == IF way = <<>> THEN t ELSE subtree(t[Head(way)], Tail(way))
replaced(t, way, s) == IF way = <<>> THEN s
                       ELSE [t EXCEPT ![Head(way)] = replaced(@, Tail(way), s)]

\* Dropping an operand makes the rule smaller or bigger by the operator and the
\* sign of its context: the other direction is what has to be tested.
redundant(test, rr, trial, grows) ==
  IF grows THEN contained(test, try_as_b(trial), try_as_b(rr))
  ELSE contained(test, try_as_b(rr), try_as_b(trial))

minimize_aux(test, rr, way, sign) ==
  LET op == subtree(rr.prft, way).type
  IN CASE op \in {"AND", "ALT", "IMPLIES"} ->
            LET left  == minimize_aux(test, rr, way \o <<"l">>, IF op = "IMPLIES" THEN ~sign ELSE sign)
                both  == minimize_aux(test, left, way \o <<"r">>, sign)
                t     == subtree(both.prft, way)
                trial(s) == [both EXCEPT !.prft = replaced(@, way, s)]
                fits(s)  == redundant(test, both, trial(s), sign = (op = "AND"))
                first == IF op = "IMPLIES" THEN Not(t.l) ELSE t.l
            IN  IF fits(first) THEN trial(first) ELSE IF fits(t.r) THEN trial(t.r) ELSE both
       [] op = "NOT" -> minimize_aux(test, rr, way \o <<"l">>, ~sign)
       [] op \in {"EXISTS", "FORALL"} -> minimize_aux(test, rr, way \o <<"r">>, sign)
       [] OTHER -> rr

minimize(test, rr) ==
  LET least == minimize_aux(test, try_as_prft(rr), <<>>, TRUE)
  IN  IF is_fact(rr) THEN rr ELSE IF is_dnf(rr) THEN try_as_b(least) ELSE least

\* one rule meets those kept so far, in order, up to one that contains it
admit(test, reduced, rr) ==
  LET by   == { k \in DOMAIN reduced : contained(test, rr, reduced[k]) }
      met  == IF by = {} THEN reduced ELSE SubSeq(reduced, 1, Min(by) - 1)
      kept == SelectSeq(met, LAMBDA nrr : ~contained(test, nrr, rr))
  IN  IF by = {} THEN Append(kept, minimize(test, rr))
      ELSE kept \o SubSeq(reduced, Min(by), Len(reduced))
subsume_queries(test, rp) == FoldLeft(LAMBDA kept, rr : admit(test, kept, rr), <<>>, rp)
----------------------------------------------------------------------------
(* Factoring.  A homomorphism is the terms of rr1 it maps onto and what it  *)
(* makes of the variables of rr2's body.                                    *)

thawed(e) == IF e[1] = "sym" THEN Var(e[2]) ELSE e
cbc(rr1, rr2) ==
  LET freeze_map == [v \in free_vars(rr1) |-> Sym(v)]
      edb        == frozen(conjuncts(rr1), freeze_map)
      image(env) == frozen(conjuncts(rr2), env)
  IN  { [terms |-> { rt \in conjuncts(rr1) : fact(rt, freeze_map) \in image(env) },
         vars  |-> [v \in DOMAIN env |-> thawed(env[v])]] :
          env \in matches(rr2.b[1], edb, UNION { Range(f[2]) : f \in edb }) }

compute_required_vars(rr, hom) ==
  LET shared == vars_of(terms(rr) \ hom.terms) \cap vars_of(hom.terms)
  IN  { v \in DOMAIN hom.vars : hom.vars[v] \in shared }

count_related_rules(rr1, rp) == Cardinality({ k \in DOMAIN rp : same_head(rp[k], rr1) })

rule_smaller(rr2, rr1) ==
  IF Len(rr1.b) = 1 /\ Len(rr2.b) = 1
  THEN \/ Len(rr1.b[1]) > Len(rr2.b[1])
       \/ Len(rr1.b[1]) = Len(rr2.b[1]) /\ Len(rr1.h[1].e) > Len(rr2.h[1].e)
  ELSE Len(rr1.b) > Len(rr2.b)

\* `rp` may still need the rules from the i-th on to be tried on all the others
factors(rp, i) ==
  UNION { { [at |-> k, hom |-> hom] : hom \in { x \in cbc(rp[k], rp[i]) :
                                                  Cardinality(x.terms) >= Len(rp[i].b[1]) } } :
            k \in { j \in DOMAIN rp : is_cq(rp[j]) } }

substitute(rp, a, target) ==
  LET subbed == Rel(target.rel, mapped(LAMBDA e : IF e \in DOMAIN a.hom.vars THEN a.hom.vars[e]
                                                  ELSE e, target.e))
      rest   == SelectSeq(rp[a.at].b[1], LAMBDA rt : rt \notin a.hom.terms)
  IN  IF a.hom.terms \subseteq conjuncts(rp[a.at])
      THEN [rp EXCEPT ![a.at].b[1] = Append(rest, subbed)] ELSE rp

RECURSIVE factored(_, _, _)
factored(rp, i, pending) ==
  IF i > Len(rp) THEN rp \o pending
  ELSE IF ~is_cq(rp[i]) \/ Len(rp[i].b[1]) < 2 THEN factored(rp, i + 1, pending)
  ELSE LET rr2     == rp[i]
           agg     == factors(rp, i)
           needed  == UNION { compute_required_vars(rp[a.at], a.hom) : a \in agg }
           tmp_rel == ~ \/ collect_vars(rr2.h[1]) = needed /\ count_related_rules(rr2, rp) = 1
                        \/ Cardinality(agg) = 1
           target  == IF tmp_rel THEN Rel(<<"factor", i>>, listed(needed)) ELSE rr2.h[1]
           sites   == { a \in agg : tmp_rel \/ a.at # i }
       IN  factored(FoldSet(LAMBDA a, r : substitute(r, a, target), rp, sites), i + 1,
                    IF tmp_rel THEN Append(pending, Rule(<<target>>, rr2.b)) ELSE pending)

factor_rules(rp) == factored(SortSeq(rp, LAMBDA a, b : rule_smaller(b, a)), 1, <<>>)
=============================================================================
