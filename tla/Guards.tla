------------------------------- MODULE Guards -------------------------------
(***************************************************************************)
(* Programs with nested programs, `if` and `while`, and the single program *)
(* of guarded rules they are made into with --guards (raw_prog and         *)
(* guard_statement of input.cpp, transform_guards.cpp).                    *)
(*                                                                         *)
(* A program is written as a sequence of statements.  Reading it numbers   *)
(* the programs in it and notes which states each will go through; the     *)
(* transformation gives a fact to each state and lets rules and facts wait *)
(* for it.  A state of program i is the relation <<state, i>>.             *)
(***************************************************************************)
EXTENDS Formulas

Stmt(rr)           == [is |-> "rule", rr |-> rr]
Nested(p)          == [is |-> "nested", p |-> p]
If(c, then)        == [is |-> "if", c |-> c, branches |-> <<then>>]
IfElse(c, then, e) == [is |-> "if", c |-> c, branches |-> <<then, e>>]
\* the body of a while is a rule or a program in braces
While(c, p)        == [is |-> "while", c |-> c, p |-> p, braces |-> TRUE]
WhileRule(c, rr)   == [is |-> "while", c |-> c, p |-> <<Stmt(rr)>>, braces |-> FALSE]
----------------------------------------------------------------------------
(* Reading. *)

nobody == -1
raw_prog(id) == [id |-> id, r |-> <<>>, gs |-> <<>>, nps |-> <<>>,
                 guarded_by |-> nobody, true_rp_id |-> nobody, has |-> {}]

update_states(rr) ==
  IF is_fact(rr) THEN { IF h.neg THEN "del" ELSE "add" : h \in Range(rr.h) } ELSE {"rule"}

\* what has been read so far: a program and the last number given
with_rule(s, rr)  == [s EXCEPT !.rp.r = Append(@, rr), !.rp.has = @ \cup update_states(rr)]
with_np(s, np, last) == [s EXCEPT !.rp.nps = Append(@, np), !.last = last]
with_guard(s, type, c, rp_id, true_rp_id) ==
  [s EXCEPT !.rp.gs = Append(@, [type |-> type, prft |-> c, rp_id |-> rp_id, true_rp_id |-> true_rp_id])]

RECURSIVE parse(_, _)
parse_nested(s, p) == LET np == parse(p, s.last) IN with_np(s, np.rp, np.last)
parse_if(s, c, branches) ==
  LET t_p  == parse(branches[1], s.last)
      then == with_np(s, [t_p.rp EXCEPT !.guarded_by = s.rp.id], t_p.last)
      f_p  == parse(branches[2], then.last)
      read == IF Len(branches) = 1 THEN then
              ELSE with_np(then, [f_p.rp EXCEPT !.guarded_by = s.rp.id, !.true_rp_id = t_p.rp.id], f_p.last)
  IN  with_guard([read EXCEPT !.rp.has = @ \cup {"cond"}], "IF", c, s.rp.id, t_p.rp.id)
\* a rule without braces does not become a state of the loop
parse_while(s, c, p, braces) ==
  LET l_p == parse(p, s.last)
      has == IF braces THEN l_p.rp.has ELSE {}
  IN  with_guard(with_np(s, [l_p.rp EXCEPT !.has = has \cup {"curr"}], l_p.last), "WHILE", c, l_p.rp.id, 0)

parse_statement(s, st) ==
  CASE st.is = "rule"   -> with_rule(s, st.rr)
    [] st.is = "nested" -> parse_nested(s, st.p)
    [] st.is = "if"     -> parse_if(s, st.c, st.branches)
    [] st.is = "while"  -> parse_while(s, st.c, st.p, st.braces)
parse(p, last) == FoldLeft(parse_statement, [rp |-> raw_prog(last + 1), last |-> last + 1], p)

read_prog(p) == parse(p, 0).rp
----------------------------------------------------------------------------
(* The transformation. *)

iid(name, id)      == Rel(<<name, id>>, <<>>)
fp_fact            == Rel(<<"fp">>, <<>>)
guard(id, id2)     == Rel(<<"guard", id, id2>>, <<>>)

waiting(rr, id) ==
  IF is_form(rr) THEN set_prft(rr, Tree("AND", rr.prft, Leaf(iid("rule", id))))
  ELSE IF is_fact(rr) THEN set_b(rr, <<<<iid(IF rr.h[1].neg THEN "del" ELSE "add", id)>>>>)
  ELSE set_b(rr, [rr.b EXCEPT ![Len(rr.b)] = Append(@, iid("rule", id))])

states == <<"init", "start", "add", "del", "rule", "cond", "fp">>
next_state(has, state) ==
  LET at    == CHOOSE k \in DOMAIN states : states[k] = state
      later == { k \in at + 1 .. Len(states) : states[k] \in has \cup {"fp"} }
  IN  IF state = "init" THEN "start"
      ELSE states[CHOOSE k \in later : \A j \in later : k <= j]

\* how a program is entered: from the fixed point of the one it is a branch of,
\* or of the one before it
entering(rp, first, prev_id) ==
  LET curr == IF "curr" \in rp.has THEN <<iid("curr", rp.id)>> ELSE <<>>
      into == <<iid(first, rp.id)>> \o curr
      on   == guard(rp.guarded_by, IF rp.true_rp_id = nobody THEN rp.id ELSE rp.true_rp_id)
  IN  IF rp.guarded_by = nobody
      THEN Rule(<<negate(iid("fp", prev_id))>> \o into, <<<<iid("fp", prev_id)>>>>)
      ELSE IF rp.true_rp_id = nobody
      THEN Rule(<<negate(on)>> \o into, <<<<iid("fp", rp.guarded_by), on>>>>)
      ELSE Rule(into, <<<<iid("fp", rp.guarded_by), negate(on)>>>>)

\* mutant: the fixed point of one program's rules is taken for the next one's
passing_fp_kept(rp, state) ==
  LET next == iid(next_state(rp.has, state), rp.id)
      here == iid(state, rp.id)
  IN  Rule(<<negate(here), next>>, <<IF state = "rule" THEN <<here, fp_fact>> ELSE <<here>>>>)

passing(rp, state) ==
  LET next == iid(next_state(rp.has, state), rp.id)
      here == iid(state, rp.id)
  IN  IF state = "rule" THEN Rule(<<negate(here), negate(fp_fact), next>>, <<<<here, fp_fact>>>>)
      ELSE Rule(<<negate(here), next>>, <<<<here>>>>)

RECURSIVE from_state(_, _)
from_state(rp, state) ==
  IF state = "fp" THEN <<>>
  ELSE <<passing(rp, state)>> \o from_state(rp, next_state(rp.has, state))

leaving(rp) ==
  LET fp   == iid("fp", rp.id)
      curr == iid("curr", rp.id)
  IN  (IF "curr" \in rp.has THEN <<Rule(<<negate(curr)>>, <<<<fp, curr>>>>)>> ELSE <<>>)
      \o <<Rule(<<negate(fp)>>, <<<<fp>>>>)>>

\* the rules of a program, without those of the programs in it
program_rules(rp, prev_id) ==
  LET first == next_state(rp.has, IF "curr" \in rp.has THEN "init" ELSE "start")
  IN  mapped(LAMBDA rr : waiting(rr, rp.id), rp.r)
      \o <<entering(rp, first, prev_id)>> \o from_state(rp, first) \o leaving(rp)

\* `trp` is what has been made and the program that was made last: the next one
\* follows it
RECURSIVE transform_guards_program(_, _)
transform_guards_program(trp, rp) ==
  FoldLeft(transform_guards_program,
           [r |-> trp.r \o program_rules(rp, trp.prev_id), prev_id |-> rp.id], rp.nps)

\* The break of a while looks up what it should stop through p_break_rp, which
\* points into a program that was copied and is gone: `found` is what it reads.
statement(rp, c, found) ==
  LET curr  == iid("curr", c.rp_id)
      stops == SelectSeq(<<"add", "del", "rule">>, LAMBDA s : s \in found[c.rp_id])
  IN  IF c.type = "IF"
      THEN <<FormRule(<<guard(c.rp_id, c.true_rp_id)>>, Tree("AND", c.prft, Leaf(iid("cond", c.rp_id))))>>
      ELSE IF rp.has \cap {"add", "del", "rule"} = {} THEN <<>>
      ELSE <<FormRule(<<negate(curr), negate(iid("start", c.rp_id))>>
                      \o mapped(LAMBDA s : negate(iid(s, c.rp_id)), stops) \o <<iid("fp", c.rp_id)>>,
                      Tree("AND", Not(c.prft), Leaf(curr)))>>

RECURSIVE transform_guard_statements(_, _)
transform_guard_statements(rp, found) ==
  FlattenSeq(mapped(LAMBDA c : statement(rp, c, found), rp.gs))
  \o FlattenSeq(mapped(LAMBDA np : transform_guard_statements(np, found), rp.nps))

transform_guards(rp, found) ==
  transform_guards_program([r |-> <<Fact(iid("fp", 0))>>, prev_id |-> 0], rp).r
  \o transform_guard_statements(rp, found)

RECURSIVE whiles(_)
whiles(rp) == { c.rp_id : c \in { x \in Range(rp.gs) : x.type = "WHILE" } }
              \cup UNION { whiles(np) : np \in Range(rp.nps) }
----------------------------------------------------------------------------
(* What the statements mean.  A program adds its facts, makes its          *)
(* deletions, runs its rules until nothing changes and decides its         *)
(* conditions; then the programs in it are run one after the other.  The   *)
(* body of a while is given up as soon as its condition does not hold.     *)
(* Nothing is done any more once there was a contradiction (`unsat`).      *)

broken(c, db, U) == c # NoTree /\ ~satisfied(c, <<>>, db, U)
unsat == <<<<"unsat">>, <<>>>>
done(rs, c, db, U) == IF unsat \in db \/ broken(c, db, U) THEN db
                      ELSE IF contradicts(rs, db, U) THEN db \cup {unsat}
                      ELSE step(rs, db, U)

facts_in(rp, state) ==
  { Rule(rr.h, <<<<>>>>) : rr \in { x \in Range(rp.r) : is_fact(x) /\ x.h[1].neg = (state = "del") } }

RECURSIVE settled(_, _, _, _)
settled(rs, c, db, U) ==
  LET new == done(rs, c, db, U) IN IF new = db THEN db ELSE settled(rs, c, new, U)

chosen(rp, np, db, U) ==
  \/ np.guarded_by = nobody
  \/ \E c \in Range(rp.gs) :
       /\ c.type = "IF" /\ c.true_rp_id \in {np.id, np.true_rp_id}
       /\ satisfied(c.prft, <<>>, db, U) <=> c.true_rp_id = np.id
condition(rp, np) ==
  IF "curr" \in np.has THEN (CHOOSE c \in Range(rp.gs) : c.rp_id = np.id).prft ELSE NoTree

RECURSIVE executed(_, _, _, _)
executed(rp, c, db, U) ==
  LET rs    == { rr \in Range(rp.r) : ~is_fact(rr) }
      ended == settled(rs, c, done(facts_in(rp, "del"), c, done(facts_in(rp, "add"), c, db, U), U), U)
  IN  FoldLeft(LAMBDA d, np : IF chosen(rp, np, ended, U) THEN executed(np, condition(rp, np), d, U) ELSE d,
               ended, rp.nps)
=============================================================================
