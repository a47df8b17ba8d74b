------------------------------ MODULE Grammar ------------------------------
(***************************************************************************)
(* Grammars of TML programs and what ir_builder.cpp makes of them:         *)
(* transform_strsplit, transform_ebnf (struct ptransformer) and            *)
(* transform_alts, which the Earley parser and transform_grammar share, and*)
(* the rules transform_grammar writes for them.                            *)
(*                                                                         *)
(* A production is a sequence of elements, its head first.  Names and      *)
(* characters are tuples, so that any two of them can be compared.         *)
(***************************************************************************)
EXTENDS Integers, Sequences, FiniteSets, SequencesExt

\* an element of a production: its type, and a name, characters or nothing
Sym(x) == [type |-> "SYM", e |-> x]
Chr(c) == [type |-> "CHR", e |-> <<c>>]
Str(s) == [type |-> "STR", e |-> s]
Op(t)  == [type |-> t, e |-> <<>>]
null   == Sym(<<"null">>)

\* s with its elements i to j replaced by new
spliced(s, i, j, new) == SubSeq(s, 1, i - 1) \o new \o SubSeq(s, j + 1, Len(s))

-----------------------------------------------------------------------------
(* transform_strsplit: a string becomes its characters.  The loop has       *)
(* moved past them when it moves on by one more, so that the element after  *)
(* a string is not looked at.                                               *)
RECURSIVE strsplit(_, _)
strsplit(p, n) ==
  IF n > Len(p) THEN p
  ELSE IF p[n].type # "STR" THEN strsplit(p, n + 1)
  ELSE LET s == p[n].e
       IN strsplit(spliced(p, n, n, [i \in 1..Len(s) |-> Chr(s[i])]), n + Len(s) + 1)

transform_strsplit(g) == [k \in 1..Len(g) |-> strsplit(g[k], 1)]

-----------------------------------------------------------------------------
(* transform_ebnf.  A visit is a record: the production (next) with the     *)
(* place it is read at (cur), the productions made on the way (lp), the     *)
(* static counter of fresh names, and whether it has failed.                *)
is_firstoffactor(c) == c.type \in {"SYM", "STR", "CHR", "OPENB", "OPENP", "OPENSB"}
closing == [OPENSB |-> "CLOSESB", OPENP |-> "CLOSEP", OPENB |-> "CLOSEB"]

\* "the element at i": behind the last one the code reads what is not there,
\* which is taken for nothing it asks for
is_at(p, i, types) == i <= Len(p) /\ p[i].type \in types

get_fresh_nonterminal(v) == Sym(<<"_R", v.next[1].e, v.count>>)
last_new(v) == Last(v.lp)[1]

\* the production R => inner [R] [ | inner or null ]
made(v, inner, bnull, brecur, balt) ==
  LET sym == get_fresh_nonterminal(v)
      rest == IF bnull THEN <<null>> ELSE inner
  IN [v EXCEPT !.count = @ + 1,
        !.lp = Append(@, <<sym>> \o inner \o (IF brecur THEN <<sym>> ELSE <<>>)
                           \o (IF balt THEN <<Op("ALT")>> \o rest ELSE <<>>))]

\* mutant: the alternatives are repeated where they stand
synth_recur_flat(v, inner, bnull, brecur, balt) == made(v, inner, bnull, brecur, balt)

\* alternatives under a repetition get a nonterminal of their own first
synth_recur(v, inner, bnull, brecur, balt) ==
  IF brecur /\ \E i \in 1..Len(inner) : inner[i].type = "ALT"
  THEN LET w == made(v, inner, FALSE, FALSE, FALSE)
       IN made(w, <<last_new(w)>>, bnull, brecur, balt)
  ELSE made(v, inner, bnull, brecur, balt)

\* elements i to j give way to the nonterminal made last
replaced(v, i, j) == [v EXCEPT !.next = spliced(@, i, j, <<last_new(v)>>), !.cur = i + 1]
failed(v) == [v EXCEPT !.ok = FALSE]

repeated(v, i)  == is_at(v.next, i, {"MULT", "ADD"})
or_not_at_all(v, i) == is_at(v.next, i, {"MULT"})

parse_single(v) ==
  LET i == v.cur
  IN IF repeated(v, i + 1)
     THEN replaced(synth_recur(v, <<v.next[i]>>, or_not_at_all(v, i + 1), TRUE, TRUE), i, i + 1)
     ELSE [v EXCEPT !.cur = i + 1]

\* what is bracketed from element i on has been read
parse_bracket(v, i) ==
  LET type == v.next[i].type
      inner == SubSeq(v.next, i + 1, v.cur - 1)
      made_into(bnull, brecur, balt, j) == replaced(synth_recur(v, inner, bnull, brecur, balt), i, j)
  IN IF ~v.ok \/ ~is_at(v.next, v.cur, {closing[type]}) THEN failed(v)
     ELSE CASE type = "OPENSB" -> made_into(TRUE, FALSE, TRUE, v.cur)
            [] type = "OPENB" -> made_into(TRUE, TRUE, TRUE, v.cur)
            [] type = "OPENP" /\ repeated(v, v.cur + 1) ->
                 made_into(or_not_at_all(v, v.cur + 1), TRUE, TRUE, v.cur + 1)
            [] OTHER -> made_into(FALSE, FALSE, FALSE, v.cur)

RECURSIVE parse_alts(_), more_alts(_), parse_alt(_), more_factors(_)
parse_factor(v) ==
  LET type == v.next[v.cur].type
  IN CASE type \in {"SYM", "STR", "CHR"} -> parse_single(v)
       [] type \in DOMAIN closing -> parse_bracket(parse_alts([v EXCEPT !.cur = @ + 1]), v.cur)
       [] OTHER -> failed(v)

parse_alt(v) ==
  IF v.cur > Len(v.next) \/ ~is_firstoffactor(v.next[v.cur]) THEN failed(v)
  ELSE more_factors(parse_factor(v))
more_factors(v) ==
  IF v.ok /\ v.cur <= Len(v.next) /\ is_firstoffactor(v.next[v.cur]) THEN parse_alt(v) ELSE v

parse_alts(v) == more_alts(parse_alt(v))
more_alts(v) ==
  IF v.ok /\ is_at(v.next, v.cur, {"ALT"})
  THEN IF v.cur = Len(v.next) THEN [v EXCEPT !.cur = @ + 1] ELSE parse_alts([v EXCEPT !.cur = @ + 1])
  ELSE v

visit(p, count) == parse_alts([next |-> p, cur |-> 2, lp |-> <<>>, count |-> count, ok |-> TRUE])

\* the productions made are visited in their turn; an error gives no grammar
RECURSIVE transform_ebnf(_, _, _)
transform_ebnf(g, k, count) ==
  IF k > Len(g) THEN g
  ELSE LET v == visit(g[k], count)
       IN IF ~v.ok \/ v.cur <= Len(v.next) THEN <<>>
          ELSE transform_ebnf([g EXCEPT ![k] = v.next] \o v.lp, k + 1, v.count)

\* transform_alts: a production with alternatives becomes its first one and the
\* rest.  An empty one is complained of, and kept.
RECURSIVE transform_alts(_, _)
transform_alts(g, k) ==
  IF k > Len(g) THEN g
  ELSE LET p == g[k]
           n == SelectInSeq(p, LAMBDA c : c.type = "ALT")
       IN IF n = 0 THEN transform_alts(g, k + 1)
          ELSE transform_alts(RemoveAt(g, k) \o <<SubSeq(p, 1, n - 1), <<p[1]>> \o SubSeq(p, n + 1, Len(p))>>, k)

\* load_tml_grammar, and the beginning of transform_grammar
transformed(g) == transform_alts(transform_ebnf(transform_strsplit(g), 1, 0), 1)

-----------------------------------------------------------------------------
(* The rules of transform_grammar, read as relations between places of a    *)
(* string: head(?1 ?n) :- the elements' relations joined in a chain.        *)
compose(r, q) == { <<a[1], b[2]>> : <<a, b>> \in { x \in r \X q : x[1][2] = x[2][1] } }
identity(A) == { <<a, a>> : a \in A }

\* facts of a string: a relation for each character and each builtin class
chars_of(s, cs) == { <<i - 1, i>> : i \in { j \in 1..Len(s) : s[j] \in cs } }

\* facts are triples of a name and two places
of_name(D, x) == { <<f[2], f[3]>> : f \in { d \in D : d[1] = x } }
facts(x, r) == { <<x, q[1], q[2]>> : q \in r }

\* the relation an element stands for; classes are the builtins the rules know
element(c, classes, s, D) ==
  IF c.type = "CHR" THEN chars_of(s, {c.e[1]})
  ELSE IF c.e \in DOMAIN classes THEN chars_of(s, classes[c.e]) ELSE of_name(D, c.e)

RECURSIVE chain(_, _, _, _, _)
chain(p, n, classes, s, D) ==
  IF n = Len(p) THEN element(p[n], classes, s, D)
  ELSE compose(element(p[n], classes, s, D), chain(p, n + 1, classes, s, D))

\* what one production adds: x(?a ?a) for all numbers when it is null.  (The
\* code collects the terms of all rules in one vector, which std::set leaves as
\* it is when it has the rule already: that no production is there twice is a
\* premise of RulesAgree.)
empty_side(p) == Len(p) = 1 \/ (Len(p) = 2 /\ p[2] = null)
rule_of(p, places, classes, s, D) ==
  facts(p[1].e, IF empty_side(p) THEN identity(places) ELSE chain(p, 2, classes, s, D))

unexpected(g) == \E k \in 1..Len(g) : \E n \in 1..Len(g[k]) : g[k][n].type \notin {"SYM", "CHR"}

heads(g) == { g[k][1].e : k \in 1..Len(g) }

\* the fixed point of the rules, before the clean-up of prog_after_fp
RECURSIVE grammar_fp(_, _, _, _, _)
grammar_fp(g, places, classes, s, D) ==
  LET E == UNION { rule_of(g[k], places, classes, s, D) : k \in 1..Len(g) }
  IN IF E \subseteq D THEN D ELSE grammar_fp(g, places, classes, s, D \cup E)

rules_derive(g, places, classes, s) == grammar_fp(g, places, classes, s, {})
=============================================================================
