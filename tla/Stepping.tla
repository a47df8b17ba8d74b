------------------------------ MODULE Stepping ------------------------------
(***************************************************************************)
(* The transformations that change what a step is: bodies as formulas made *)
(* into rules for parts of them (to_dnf), rules run in turn under a clock  *)
(* (step_transform), several steps in one (pdatalog_transform,             *)
(* square_program), and the removal of columns nothing depends on          *)
(* (eliminate_dead_variables).  A program is its rules and the relations    *)
(* that are hidden; one Fact rule stands for all facts of its relation.    *)
(***************************************************************************)
EXTENDS Formulas

Prog(r, hidden) == [r |-> r, hidden |-> hidden]
with(rp, rules, hidden) == Prog(rp.r \o rules, rp.hidden \cup hidden)
general(info) == Rel(info[1], [i \in 1 .. info[2] |-> Var(i)])
flag(name) == Rel(name, <<>>)
infos(rts) == { get_relation_info(rt) : rt \in rts }
heads(rules) == UNION { Range(rr.h) : rr \in rules }
renamed_to(rt, name) == [rt EXCEPT !.rel = name]
under(tag, rt) == renamed_to(rt, <<tag>> \o rt.rel)
facts_of(rules) == { rr \in rules : is_fact(rr) }

\* a rule with several heads becomes as many rules, last head first
split(rr) == IF Len(rr.h) = 1 THEN <<rr>>
             ELSE Reverse(mapped(LAMBDA h : [rr EXCEPT !.h = <<h>>], rr.h))
split_heads(rp) == [rp EXCEPT !.r = FlattenSeq(mapped(split, @))]
----------------------------------------------------------------------------
(* to_dnf: a term that stands for the tree t, whose variables `fv` are seen *)
(* outside, and the rules that define it.                                   *)

part(id, fv) == Rel(<<"part">> \o id, listed(fv))

\* what a conjunct has to show: the variables others know too
shared(ands, k, fv) ==
  collect_free_vars(ands[k]) \cap
    (fv \cup UNION { collect_free_vars(ands[j]) : j \in DOMAIN ands \ {k} })

RECURSIVE chain_vars(_, _), chain_body(_, _), to_dnf(_, _, _)
chain_vars(t, op) == IF t.type = op THEN {t.v} \cup chain_vars(t.r, op) ELSE {}
chain_body(t, op) == IF t.type = op THEN chain_body(t.r, op) ELSE t

to_dnf(t, fv, id) ==
  LET operands == flatten_associative(t, t.type)
      defined(rules) == [rt |-> part(id, fv), rules |-> rules]
      all_rules(subs) == FlattenSeq(mapped(LAMBDA s : s.rules, subs))
      terms_of(subs) == mapped(LAMBDA s : s.rt, subs)
      qvars == chain_vars(t, t.type)
  IN CASE t.type \in {"IMPLIES", "COIMPLIES", "UNIQUE"} ->
            to_dnf(expand_formula_node(t, fv), fv, id)
       [] t.type = "AND" ->
            LET subs == [k \in DOMAIN operands |->
                           to_dnf(operands[k], shared(operands, k, fv), Append(id, k))]
            IN  defined(Append(all_rules(subs), Rule(<<part(id, fv)>>, <<terms_of(subs)>>)))
       [] t.type = "ALT" ->
            LET subs == [k \in DOMAIN operands |-> to_dnf(operands[k], fv, Append(id, k))]
            IN  defined(all_rules(subs) \o
                  mapped(LAMBDA s : Rule(<<part(id, fv)>>, <<<<s.rt>>>>), subs))
       [] t.type = "NOT" ->
            LET sub == to_dnf(t.l, fv, id) IN [sub EXCEPT !.rt = negate(@)]
       [] t.type = "EXISTS" ->
            LET sub  == to_dnf(chain_body(t, "EXISTS"), fv \cup qvars, Append(id, 0))
                head == part(id, fv \ qvars)
            IN  [rt |-> head, rules |-> Append(sub.rules, Rule(<<head>>, <<<<sub.rt>>>>))]
       [] t.type = "FORALL" ->
            to_dnf(Not(FoldSet(LAMBDA v, f : Quant("EXISTS", v, f),
                               Not(chain_body(t, "FORALL")), qvars)), fv, id)
       [] t.type = "NONE" -> [rt |-> t.rt, rules |-> <<>>]

to_dnf_prog(rp) ==
  LET sub(k) == to_dnf(rp.r[k].prft, free_vars(rp.r[k]), <<k>>)
      forms  == { k \in DOMAIN rp.r : is_form(rp.r[k]) }
      main   == [k \in DOMAIN rp.r |-> IF k \in forms THEN set_b(rp.r[k], <<<<sub(k).rt>>>>)
                                       ELSE rp.r[k]]
      parts  == FlattenSeq([k \in DOMAIN rp.r |-> IF k \in forms THEN sub(k).rules ELSE <<>>])
  IN  with([rp EXCEPT !.r = main], parts, infos(heads(Range(parts))))
----------------------------------------------------------------------------
(* step_transform.  Rules derive into an alias of their relation; if some   *)
(* need the results of others, a clock runs them level by level, and its    *)
(* state 0 writes the aliases back.                                         *)

is_alias(rel) == rel[1] = "alias"
original(rel) == IF is_alias(rel) THEN Tail(rel) ELSE rel
map_heads(f(_), rr) == [rr EXCEPT !.h = mapped(f, @)]
aliased(rp) ==
  LET r == mapped(LAMBDA rr : map_heads(LAMBDA h : under("alias", h), rr), rp.r)
  IN  Prog(r, rp.hidden \cup infos(heads(Range(r))))
unaliased(rr) == map_heads(LAMBDA h : renamed_to(h, original(h.rel)), rr)

body_terms(rr) == UNION { Range(rr.b[i]) : i \in DOMAIN rr.b }
dependencies(rules) ==
  LET rels == infos(heads(rules))
  IN  [info \in rels |-> rels \cap UNION { infos(body_terms(rr)) :
                           rr \in { x \in rules : get_relation_info(x.h[1]) = info } }]

\* Kahn's algorithm: the relations whose last dependency was on this level come next
RECURSIVE levels(_, _)
levels(level, rdeps) ==
  IF level = {} THEN <<>>
  ELSE LET left == [m \in DOMAIN rdeps |-> rdeps[m] \ level]
       IN  <<level>> \o levels({ m \in DOMAIN rdeps : rdeps[m] # {} /\ left[m] = {} }, left)
sorted(rules) == LET rdeps == dependencies(rules)
                 IN  levels({ m \in DOMAIN rdeps : rdeps[m] = {} }, rdeps)

clock(k) == flag(<<"clock", k>>)
stage(k) == flag(<<"stage", k>>)
condition_rule(rr, cond) == [rr EXCEPT !.b = mapped(LAMBDA body : Append(body, cond), @)]
passes_kept(from, to) == <<Rule(<<to>>, <<<<from>>>>)>>
passes(from, to) == <<Rule(<<to>>, <<<<from>>>>), Rule(<<negate(from)>>, <<<<from>>>>)>>

\* a temporary relation is emptied, an alias copied to the relation it is for
cleared(info) == <<Rule(<<negate(general(info))>>, <<<<general(info), clock(0)>>>>)>>
written_back_only_added(info) ==
  LET a == general(info) IN <<Rule(<<renamed_to(a, original(a.rel))>>, <<<<a, clock(0)>>>>)>>
written_back(info) ==
  LET a == general(info)
      o == renamed_to(a, original(a.rel))
  IN  <<Rule(<<negate(o)>>, <<<<negate(a), clock(0)>>>>), Rule(<<o>>, <<<<a, clock(0)>>>>)>>
exposed(info) == IF is_alias(info[1]) THEN written_back(info) ELSE cleared(info)

sequenced(rp) ==
  LET facts == facts_of(Range(rp.r))
      rules == Range(rp.r) \ facts
      lv    == sorted(rules)
      last  == Len(lv)
      on(k, info) == { condition_rule(rr, clock(k)) :
                         rr \in { x \in rules : get_relation_info(x.h[1]) = info } }
      turn(k) == Range(passes(clock(k - 1), clock(k))) \cup
                 UNION { Range(exposed(info)) \cup on(k, info) : info \in lv[k] }
      kept(f) == IF infos(Range(f.h)) \subseteq infos(heads(rules)) THEN f ELSE unaliased(f)
      start   == {Fact(stage(0)), Rule(<<stage(1)>>, <<<<stage(0)>>>>),
                  Rule(<<clock(0)>>, <<<<stage(0), negate(stage(1))>>>>)}
  IN  IF last > 1
      THEN Prog(listed({ kept(f) : f \in facts } \cup UNION { turn(k) : k \in 1 .. last }
                           \cup start \cup Range(passes(clock(last), clock(0)))),
                rp.hidden \cup infos({ stage(k) : k \in 0 .. 1 } \cup { clock(k) : k \in 0 .. last }))
      ELSE [rp EXCEPT !.r = mapped(unaliased, @)]
----------------------------------------------------------------------------
(* --iterate.  In between, a program of which nothing persists by itself   *)
(* (P-DATALOG) is squared, each term being replaced by what derived it.    *)

frozen_head(h) == IF h.neg THEN negate(under("del", h)) ELSE under("ins", h)
carried_undeleted(info) ==
  LET o == general(info)
      put(from) == Rule(<<o>>, <<<<under(from, o)>>>>)
  IN  <<Rule(<<under("prev", o)>>, <<<<o>>>>), put("ins"), put("prev")>>
carried(info) ==
  LET o == general(info)
      put(from) == Rule(<<o>>, <<<<under(from, o), negate(under("del", o))>>>>)
  IN  <<Rule(<<under("prev", o)>>, <<<<o>>>>), put("ins"), put("prev")>>
to_pdatalog(rp) ==
  LET rels  == infos(heads(Range(rp.r)))
      moved == mapped(LAMBDA rr : IF is_fact(rr) THEN rr ELSE map_heads(frozen_head, rr), rp.r)
  IN  with([rp EXCEPT !.r = moved], FlattenSeq(mapped(carried, listed(rels))),
           infos({ under(tag, general(info)) : tag \in {"ins", "del", "prev"}, info \in rels }))

expand_term(use, def) ==
  LET head    == def.h[1]
      args    == { i \in DOMAIN head.e : IsVar(head.e[i]) }
      body    == get_prft(def)
      known   == [v \in collect_vars(head) |->
                    use.e[Max({ i \in args : head.e[i] = v })]]
      gen     == gen_fresh_var(all_vars(body) \cup collect_vars(head),
                               all_vars(body) \cup collect_vars(head) \cup collect_vars(use))
      renames == known @@ [v \in collect_free_vars(body) |-> gen[v]]
      inner   == { renames[v] : v \in DOMAIN renames } \ Range(use.e)
      subst   == FoldSet(LAMBDA v, t : Quant("EXISTS", v, t),
                         rename_variables(body, known, gen), inner)
      link(i) == Leaf(Eq(use.e[i], renamed(head.e[i], renames, gen)))
      open    == { i \in DOMAIN head.e : renamed(head.e[i], renames, gen) # use.e[i] }
  IN  FoldSet(LAMBDA i, t : Tree("AND", t, link(i)), subst, open)

RECURSIVE inlined(_, _)
inlined(t, defs) ==
  LET mine == { rr \in defs : get_relation_info(rr.h[1]) = get_relation_info(t.rt) }
  IN CASE t.type = "NONE" ->
            IF t.rt.extype # "REL" \/ mine = {} THEN t
            ELSE join("ALT", mapped(LAMBDA rr : expand_term(t.rt, rr), listed(mine)))
       [] t.type = "NOT" -> Not(inlined(t.l, defs))
       [] t.type \in Connectives -> Tree(t.type, inlined(t.l, defs), inlined(t.r, defs))
       [] t.type \in Quantifiers -> Quant(t.type, t.v, inlined(t.r, defs))

square_program(rp) ==
  LET defs == Range(rp.r) \ facts_of(Range(rp.r))
  IN  [rp EXCEPT !.r = mapped(LAMBDA rr : IF is_fact(rr) THEN rr
                                          ELSE FormRule(rr.h, inlined(get_prft(rr), defs)), @)]

tick == flag(<<"tick">>)
from_pdatalog(rp) ==
  LET rules == Range(rp.r) \ facts_of(Range(rp.r))
      rels  == infos(heads(rules))
      low(rr) == IF is_fact(rr) THEN rr
                 ELSE set_prft(map_heads(LAMBDA h : under("scratch", h), rr),
                               Tree("AND", get_prft(rr), Leaf(negate(tick))))
      moved(info) == LET o == general(info)
                         s == under("scratch", o)
                     IN  <<Rule(<<o>>, <<<<s, tick>>>>), Rule(<<negate(o)>>, <<<<negate(s), tick>>>>),
                           Rule(<<negate(s)>>, <<<<tick>>>>)>>
      alternates  == <<Rule(<<tick>>, <<<<negate(tick)>>>>), Rule(<<negate(tick)>>, <<<<tick>>>>)>>
  IN  with([rp EXCEPT !.r = mapped(low, @)],
           FlattenSeq(mapped(moved, listed(rels))) \o alternates,
           infos({ under("scratch", general(info)) : info \in rels } \cup {tick}))

squared(rp, n) == FoldLeft(LAMBDA p, i : square_program(p), rp, [i \in 1 .. n |-> i])
iterated(rp, n) == from_pdatalog(squared(split_heads(to_pdatalog(rp)), n))
----------------------------------------------------------------------------
(* eliminate_dead_variables. *)

first_body(rr) == IF rr.b = <<>> THEN {} ELSE Range(rr.b[1])
hidden_in(rp, rts) == { sig \in infos({ rt \in rts : rt.extype = "REL" }) : sig \in rp.hidden }
occurring(rr) == {rr.h[1]} \cup first_body(rr)

\* a constant and what a negative term mentions count double
weight(rt, e) == IF e \notin Range(rt.e) THEN 0 ELSE IF IsVar(e) /\ ~rt.neg THEN 1 ELSE 2
used_in(rr, sig, e) ==
  LET head  == rr.h[1]
      bodie == first_body(rr) \cup (IF head.neg THEN {negate(head)} ELSE {})
      mine  == get_relation_info(head) = sig
      relevant == UNION { Range(rt.e) : rt \in { x \in bodie : get_relation_info(x) = sig } }
  IN  IF mine /\ e \notin relevant THEN 0
      ELSE (IF mine THEN 0 ELSE weight(head, e)) + MapThenSumSet(LAMBDA rt : weight(rt, e), bodie)
calculate_variable_usage(sig, rules) ==
  [i \in 1 .. sig[2] |->
     Max({1} \cup UNION { { used_in(rr, sig, rt.e[i]) :
                              rt \in { x \in occurring(rr) : get_relation_info(x) = sig } } :
                            rr \in rules })]

contract_term(rt, sig, uses, new_rel) ==
  IF get_relation_info(rt) # sig THEN rt
  ELSE [rt EXCEPT !.rel = new_rel,
                  !.e = LET keep == SetToSortSeq({ i \in DOMAIN uses : uses[i] > 1 }, <)
                        IN  mapped(LAMBDA i : rt.e[i], keep)]

\* one relation: its dead columns go wherever it occurs, and the hidden relations
\* beside it have to be looked at again
contracted(rp, pending, sig) ==
  LET at   == { k \in DOMAIN rp.r : sig \in infos(occurring(rp.r[k])) }
      uses == calculate_variable_usage(sig, { rp.r[k] : k \in at })
      name == <<"narrow">> \o sig[1]
      narrow(rt) == contract_term(rt, sig, uses, name)
      new  == <<name, Cardinality({ i \in DOMAIN uses : uses[i] > 1 })>>
      beside == UNION { hidden_in(rp, occurring(rp.r[k])) : k \in at } \ {sig}
      rules  == [k \in DOMAIN rp.r |->
                   IF k \notin at THEN rp.r[k]
                   ELSE [rp.r[k] EXCEPT !.h = mapped(narrow, @),
                                        !.b = IF @ = <<>> THEN @ ELSE [@ EXCEPT ![1] = mapped(narrow, @)]]]
  IN  IF \A i \in DOMAIN uses : uses[i] > 1 THEN [rp |-> rp, pending |-> pending]
      ELSE [rp |-> Prog(rules, rp.hidden \cup {new}),
            pending |-> (IF sig \in pending THEN (pending \ {sig}) \cup {new} ELSE pending) \cup beside]

RECURSIVE eliminated(_, _)
eliminated(rp, pending) ==
  IF pending = {} THEN rp
  ELSE LET round == FoldSet(LAMBDA sig, s : contracted(s.rp, s.pending, sig),
                            [rp |-> rp, pending |-> {}], pending)
       IN  eliminated(round.rp, round.pending)
eliminate_dead_variables(rp) ==
  eliminated(rp, UNION { hidden_in(rp, occurring(rr)) : rr \in Range(rp.r) })
=============================================================================
