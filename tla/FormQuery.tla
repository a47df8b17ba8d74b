----------------------------- MODULE FormQuery -----------------------------
(***************************************************************************)
(* First-order bodies: how a formula becomes a tree of conjunctions (pnft, *)
(* form.h) and how that tree answers a query, step after step, with the    *)
(* memo every node keeps.                                                  *)
(*                                                                         *)
(* A diagram is the set of assignments of values to positions that satisfy *)
(* it; its variables are the bits of the values, read position by position *)
(* and the highest bit first while quantifiers are handled. Which position *)
(* a variable has is part of the compilation: a quantifier moves its       *)
(* variable to the front and the others back.                              *)
(***************************************************************************)
EXTENDS Integers, Sequences, FiniteSets, SequencesExt

CONSTANTS
    Rules,      \* records [head, form]: the head's variables and the body
    Contents,   \* for each relation, the tables it can be seen to have
    Bits,       \* bits of a value
    Width,      \* positions a diagram has room for
    MaxSteps    \* bound: how often the rule is asked

ASSUME WidthAssumption == Width \in Nat \ {0} /\ Bits \in Nat \ {0}

VARIABLES
    tbls,    \* the tables: a set of tuples for each relation
    rule,    \* the rule asked
    f,       \* its pnft with the memos, alt::f
    rlast,   \* what alt_query answered last, a set of head tuples
    n        \* queries so far

fvars == <<tbls, rule, f, rlast, n>>

Values == 0..2^Bits-1
Positions == 0..Width-1
All == [Positions -> Values]
Relations == DOMAIN Contents

-----------------------------------------------------------------------------
(* Diagrams. *)

\* the bit a diagram's k-th variable is, and an assignment with that bit set
weight(k) == 2^(Bits - 1 - (k % Bits))
bit(a, k) == (a[k \div Bits] \div weight(k)) % 2
with_bit(a, k, v) == [a EXCEPT ![k \div Bits] = @ + (v - bit(a, k)) * weight(k)]

cofactor(x, k, v) == {a \in All : with_bit(a, k, v) \in x}
add(k, h, l) == {a \in All : a \in IF bit(a, k) = 1 THEN h ELSE l}
depends(x, k) == cofactor(x, k, 1) # cofactor(x, k, 0)
bdd_not(x) == All \ x
bdd_ex(x, vs) == {a \in All : \E b \in x : \A i \in Positions \ vs : a[i] = b[i]}
\* x ^ perm: position i of the result's assignments is read at perm[i]
permute(x, perm) == {a \in All : [i \in Positions |-> a[perm[i]]] \in x}

\* The walk over the quantified positions. It keeps or empties a diagram, it
\* does not project it: what survives an exists still names its witnesses.
RECURSIVE bdd_quantify(_, _, _)
bdd_quantify(x, k, quants) ==
    LET h == bdd_quantify(cofactor(x, k, 1), k + 1, quants)
        l == bdd_quantify(cofactor(x, k, 0), k + 1, quants)
        skipped == bdd_quantify(x, k + 1, quants)
        quant == quants[k \div Bits + 1]
        size == Len(quants) * Bits
        free == \A j \in 0..size-1 : ~depends(x, j)
        split == cofactor(x, k, 1) # {} /\ cofactor(x, k, 0) # {}
    IN IF k = size THEN x
       ELSE IF x \in {{}, All} THEN IF quant = "UNIQUE1" THEN {} ELSE x
       ELSE IF free THEN x
       ELSE IF ~depends(x, k) THEN IF quant = "UNIQUE1" THEN {} ELSE skipped
       ELSE CASE quant = "FORALL1" -> IF split /\ h # {} /\ l # {} THEN x ELSE {}
              [] quant = "EXISTS1" -> IF h # {} /\ l # {} THEN x ELSE add(k, h, l)
              [] quant = "UNIQUE1" -> IF split \/ (h = l /\ h \in {{}, All}) THEN {} ELSE x

-----------------------------------------------------------------------------
(* Compilation. A node is a conjunction (matrix) of nodes, negated if neg,  *)
(* quantified, and then moved to the positions of the node around it. A     *)
(* leaf asks a table (b) or is a constraint (cons). bodies are the tables   *)
(* the memo of the node depends on.                                         *)

\* what to_quant_t makes of the quantifiers of individuals
Quantifiers == {"FORALL1", "EXISTS1", "UNIQUE1"}
is_quant(g) == g.type \in Quantifiers

pnft == [neg |-> FALSE, quants |-> <<>>, matrix |-> <<>>, b |-> {}, cons |-> All,
         bodies |-> {}, perm |-> <<>>, keep |-> Width, last |-> {}, seen |-> <<>>]

toggle(p) == [p EXCEPT !.neg = ~@]
toggle_at(p, i) == [p EXCEPT !.matrix[i].neg = ~@]
push(p, q) == [p EXCEPT !.matrix = Append(@, q)]
push_all(p, q) == [p EXCEPT !.matrix = q.matrix \o @]
owns(p, q) == [p EXCEPT !.bodies = @ \union q.bodies]

\* An atom asks its table for the variables' positions.
body(g, vm) == [tab |-> g.rel, at |-> [i \in 1..Len(g.args) |-> vm[g.args[i]]]]

atom(p, g, vm) ==
    IF g.type = "ATOM"
    THEN LET b == body(g, vm)
         IN [push(p, [pnft EXCEPT !.b = {b}]) EXCEPT !.bodies = @ \union {b}]
    ELSE push(p, [pnft EXCEPT !.neg = g.neg,
                   !.cons = {a \in All : a[vm[g.args[1]]] = a[vm[g.args[2]]]}])

leaf(g) == g.type \in {"ATOM", "EQ"}

\* The quantified variable takes position `at` - a head variable by changing
\* places, a new one by moving those behind it.
at_front(vm, v, at) ==
    IF v \in DOMAIN vm
    THEN [w \in DOMAIN vm |-> IF w = v THEN at ELSE IF vm[w] = at THEN vm[v] ELSE vm[w]]
    ELSE [w \in DOMAIN vm \union {v} |->
            IF w = v THEN at ELSE IF vm[w] >= at THEN vm[w] + 1 ELSE vm[w]]

\* get_perm: from the positions inside the node to those around it; the
\* variables the node brought along come after.
moved_out(vm, around) ==
    LET fresh == SetToSortSeq(DOMAIN vm \ DOMAIN around, LAMBDA v, w : v < w)
        aux(v) == IF v \in DOMAIN around THEN around[v]
                  ELSE Cardinality(DOMAIN around) + (CHOOSE i \in DOMAIN fresh : fresh[i] = v) - 1
    IN [i \in Positions |-> IF \E v \in DOMAIN vm : vm[v] = i
                            THEN aux(CHOOSE v \in DOMAIN vm : vm[v] = i) ELSE i]

RECURSIVE handler_form1(_, _, _, _)
\* p with formula g added to it, and the varmap its caller goes on with
handler_form1(p, g, vm, fq) ==
    LET in(q, h) == handler_form1(q, h, vm, fq).p  \* same varmap, as it was
        own(h) == in(pnft, h)
        \* the operand of a conjunction or disjunction joins p's matrix when
        \* its type is one of `flat`, and is a node of its own otherwise
        conjunct(q, h) ==
            IF leaf(h) \/ h.type \in {"AND", "NOT"} THEN in(q, h)
            ELSE LET p0 == own(h) IN push(owns(q, p0), p0)
        disjunct(q, h) ==
            IF h.type = "OR" THEN in(q, h)
            ELSE IF leaf(h) \/ h.type = "NOT"
            THEN toggle_at(in(q, h), Len(q.matrix) + 1)
            ELSE LET p0 == toggle(own(h)) IN push(owns(q, p0), p0)
        merged(q, p0, h) ==
            IF ~is_quant(h) /\ ~p0.neg THEN push_all(owns(q, p0), p0)
            ELSE push(owns(q, p0), p0)
        premise(q, h) == IF leaf(h) THEN in(q, h) ELSE merged(q, own(h), h)
        conclusion(q, h) ==
            IF leaf(h) THEN LET r == in(q, h)
                            IN [r EXCEPT !.matrix[Len(r.matrix)].neg = TRUE]
            ELSE merged(q, toggle(own(h)), h)
        same(q) == [p |-> q, vm |-> vm]
    IN CASE leaf(g) -> same(atom(p, g, vm))
         [] g.type = "IMPLIES" -> same(toggle(conclusion(premise(p, g.l), g.r)))
         [] g.type = "AND" -> same(conjunct(conjunct(p, g.l), g.r))
         [] g.type = "OR" -> same([disjunct(disjunct(p, g.l), g.r) EXCEPT !.neg = TRUE])
         [] g.type = "NOT" /\ leaf(g.l) ->
              same(LET q == in(p, g.l) IN toggle_at(q, Len(q.matrix)))
         [] g.type = "NOT" /\ g.l.type = "NOT" -> same(toggle(in(p, g.l)))
         [] g.type = "NOT" /\ g.l.type \in {"AND", "IMPLIES"} ->
              same(push(p, in(toggle(pnft), g.l)))
         [] g.type = "NOT" /\ ~leaf(g.l) /\ g.l.type \notin {"NOT", "AND", "IMPLIES"} ->
              same(push(p, push(toggle(pnft), own(g.l))))
         [] g.type = "COIMPLIES" -> same(p)
         [] is_quant(g) ->
              LET q == [p EXCEPT !.quants = Append(@, g.type)]
                  inner == handler_form1(q, g.r, at_front(vm, g.v, Len(p.quants)),
                                         ~is_quant(g.r))
              IN IF ~fq THEN inner
                 ELSE [p |-> [inner.p EXCEPT !.perm = moved_out(inner.vm, vm),
                                             !.keep = Cardinality(DOMAIN vm)],
                       vm |-> vm]

\* get_form: the head's variables come first; a formula that starts with no
\* quantifier is in their order already
get_form(r) ==
    LET vm == [v \in {r.head[i] : i \in DOMAIN r.head} |->
                  (CHOOSE i \in DOMAIN r.head : r.head[i] = v) - 1]
        p == handler_form1(pnft, r.form, vm, TRUE).p
    IN IF p.perm # <<>> THEN p
       ELSE [p EXCEPT !.perm = [i \in Positions |-> i], !.keep = Len(r.head)]

-----------------------------------------------------------------------------
(* Queries. *)

body_query(b, db) == {a \in All : [i \in DOMAIN b.at |-> a[b.at[i]]] \in db[b.tab]}

\* a node that trusts its memo as soon as one of its tables is unchanged
fp_some(p, db) == /\ p.bodies # {} /\ p.seen # <<>>
                  /\ \E b \in p.bodies : p.seen[b.tab] = db[b.tab]

\* every table the node knows of is the one its last answer was computed from
fp(p, db) == /\ p.bodies # {} /\ p.seen # <<>>
             /\ \A b \in p.bodies : p.seen[b.tab] = db[b.tab]

negated(p, q) == IF p.neg THEN bdd_not(q) ELSE q

RECURSIVE fol_query(_, _)
\* the node with its memos renewed; its answer is in `last`
fol_query(p, db) ==
    IF fp(p, db) THEN p
    ELSE LET asked == [i \in DOMAIN p.matrix |->
                LET c == p.matrix[i]
                IN IF c.b # {} \/ c.cons # All THEN c ELSE fol_query(c, db)]
             value(c) == IF c.b # {} THEN negated(c, body_query(CHOOSE b \in c.b : TRUE, db))
                         ELSE IF c.cons # All THEN negated(c, c.cons) ELSE c.last
             vs == {value(asked[i]) : i \in DOMAIN asked}
             q == negated(p, {a \in All : \A v \in vs : a \in v})
             quantified == IF p.quants = <<>> THEN q ELSE bdd_quantify(q, 0, p.quants)
             placed == IF p.perm = <<>> THEN quantified
                       ELSE bdd_ex(permute(quantified, p.perm),
                                   {i \in Positions : i >= p.keep})
         IN [p EXCEPT !.matrix = asked, !.last = placed, !.seen = db]

\* the head tuples an answer stands for
projected(r, x) == {[i \in DOMAIN r.head |-> a[(CHOOSE j \in DOMAIN r.head : r.head[j] = r.head[i]) - 1]] :
                       a \in x}

-----------------------------------------------------------------------------
Init ==
    /\ tbls \in [Relations -> UNION {Contents[r] : r \in Relations}]
    /\ \A r \in Relations : tbls[r] \in Contents[r]
    /\ rule \in Rules
    /\ f = get_form(rule)
    /\ rlast = {}
    /\ n = 0

\* alt_query of a rule with a formula, at a step of the program
AltQuery ==
    /\ n < MaxSteps
    /\ f' = fol_query(f, tbls)
    /\ rlast' = projected(rule, f'.last)
    /\ n' = n + 1
    /\ UNCHANGED <<tbls, rule>>

\* the step's commit: other rules change one of the tables
Commit ==
    /\ n \in 1..MaxSteps-1
    /\ \E r \in Relations : \E t \in Contents[r] : tbls' = [tbls EXCEPT ![r] = t]
    /\ UNCHANGED <<rule, f, rlast, n>>

Next == AltQuery \/ Commit
Spec == Init /\ [][Next]_fvars

-----------------------------------------------------------------------------
(* What formulas mean: the connectives and quantifiers of README.md's       *)
(* chapter on formulas, under an assignment of values to variables.         *)

bound(env, v, x) == [w \in DOMAIN env \union {v} |-> IF w = v THEN x ELSE env[w]]

RECURSIVE true(_, _, _)
true(g, env, db) ==
    CASE g.type = "ATOM" -> [i \in DOMAIN g.args |-> env[g.args[i]]] \in db[g.rel]
      [] g.type = "EQ" -> (env[g.args[1]] = env[g.args[2]]) # g.neg
      [] g.type = "NOT" -> ~true(g.l, env, db)
      [] g.type = "AND" -> true(g.l, env, db) /\ true(g.r, env, db)
      [] g.type = "OR" -> true(g.l, env, db) \/ true(g.r, env, db)
      [] g.type = "IMPLIES" -> true(g.l, env, db) => true(g.r, env, db)
      [] g.type = "COIMPLIES" -> true(g.l, env, db) = true(g.r, env, db)
      [] g.type = "EXISTS1" -> \E x \in Values : true(g.r, bound(env, g.v, x), db)
      [] g.type = "FORALL1" -> \A x \in Values : true(g.r, bound(env, g.v, x), db)
      [] g.type = "UNIQUE1" ->
           Cardinality({x \in Values : true(g.r, bound(env, g.v, x), db)}) = 1

\* an exists over a head variable only says that the rule asks for its values
RECURSIVE asked_for(_, _)
asked_for(g, head) ==
    IF g.type = "EXISTS1" /\ g.v \in head THEN asked_for(g.r, head) ELSE g

solutions(r, db) ==
    LET head == {r.head[i] : i \in DOMAIN r.head}
    IN {[i \in DOMAIN r.head |-> env[r.head[i]]] :
          env \in {e \in [head -> Values] : true(asked_for(r.form, head), e, db)}}

-----------------------------------------------------------------------------
(* The formulas the walk over the diagram is made for: exists below the    *)
(* connectives, but not as an alternative or a conclusion, where the       *)
(* negation that belongs outside it is applied inside; no double negation; *)
(* forall and unique only outermost, and with no variable left to the head.*)

RECURSIVE regular(_)
regular(g) ==
    CASE leaf(g) -> TRUE
      [] g.type = "NOT" -> g.l.type # "NOT" /\ regular(g.l)
      [] g.type = "AND" -> regular(g.l) /\ regular(g.r)
      [] g.type = "OR" -> \A h \in {g.l, g.r} : regular(h) /\ ~is_quant(h)
      [] g.type = "IMPLIES" -> regular(g.l) /\ regular(g.r) /\ ~is_quant(g.r)
      [] g.type = "EXISTS1" -> regular(g.r)
      [] OTHER -> FALSE

RECURSIVE prenex(_)
prenex(g) == IF g.type \in {"EXISTS1", "FORALL1"} THEN prenex(g.r) ELSE regular(g)

supported(r) == \/ regular(r.form)
                \/ r.head = <<>> /\ prenex(r.form)
                \/ r.head = <<>> /\ r.form.type = "UNIQUE1" /\ regular(r.form.r)

\* every table asked below a node that remembers its answer is one the node
\* watches
RECURSIVE tables_of(_)
tables_of(p) == UNION {{b.tab : b \in c.b} \union tables_of(c) : c \in ToSet(p.matrix)}
RECURSIVE watched(_)
watched(p) == /\ p.bodies # {} => tables_of(p) \subseteq {b.tab : b \in p.bodies}
              /\ \A c \in ToSet(p.matrix) : watched(c)

\* A supported formula whose nodes watch all their tables has exactly the
\* solutions it means over the tables of the moment, whatever was asked and
\* remembered before: fol_query with its memos, bdd_quantify and the moves of
\* variables by handler_form1.
FormulasAnswered ==
    [][AltQuery /\ supported(rule) /\ watched(f) => rlast' = solutions(rule, tbls)]_fvars
============================================================================
