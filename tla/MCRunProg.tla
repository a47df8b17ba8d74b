----------------------------- MODULE MCRunProg -----------------------------
(***************************************************************************)
(* RunProg over small programs.  A name is a sequence: <<0, i>> is leaf i  *)
(* alone; <<1, i, j>> is i with j nested in it; <<2, i, j, k>> is i with j *)
(* and then k nested in it; <<3, i, j, k>> is i with j in it with k in it. *)
(***************************************************************************)
EXTENDS RunProg, MCRules

CONSTANTS Outer, Inner   \* the leaves that have others in them, that are nested

none == [t \in 0 .. MCNTables - 1 |-> {}]
leaf(facts, rs) ==
  [facts |-> facts, dels |-> none, builtins |-> {}, rules |-> rs, after |-> {}, nps |-> << >>]
stating(t) == [leaf(<< >>, {}) EXCEPT !.builtins = {t}]
only_a(al) == [al EXCEPT !.rng = {a}]

Leaves == <<
  leaf(p :> {a}, {}),                                           \* 1: facts
  leaf(p :> {b}, { adds(q, {alt({pos(p, id)})}) }),             \* 2: facts and a rule
  leaf(q :> {b}, { adds(p, {alt({pos(q, swap)})}) }),           \* 3
  leaf(<< >>, { adds(p, {alt({not(p, id), not(q, id)})}),       \* 4: loops unless q holds
                dels(p, {alt({pos(p, id)})}) }),
  leaf(<< >>, { adds(q, {alt({pos(p, id)})}),                   \* 5: contradicts itself
                dels(q, {alt({pos(p, id)})}) }),
  leaf(<< >>, { adds(halt_b, {fact({pos(p, id)})}) }),          \* 6: halts if p holds
  stating(halt_b), stating(false_b), stating(error_b),          \* 7, 8, 9
  [leaf(<< >>, { adds(p, {only_a(alt({}))}) }) EXCEPT           \* 10: a null production
     !.after = { dels(p, {only_a(alt({pos(p, id)}))}) }],
  leaf(<< >>, { adds(h, {alt({not(h, id)})}),                   \* 11: only h changes for ever
                dels(h, {alt({pos(h, id)})}) }),
  [leaf(<< >>, {}) EXCEPT !.dels[p] = {a}] >>                   \* 12: a negated fact

MCRoots ==
  ({0} \X Inner) \cup ({1} \X Outer \X Inner) \cup ({2, 3} \X Outer \X Inner \X Inner)

MCNames == ({0} \X (Outer \cup Inner)) \cup ({1} \X (Outer \cup Inner) \X Inner) \cup MCRoots

MCSource ==
  [n \in MCNames |->
     [Leaves[n[2]] EXCEPT !.nps =
        CASE n[1] = 0 -> << >>
          [] n[1] = 1 -> << <<0, n[3]>> >>
          [] n[1] = 2 -> << <<0, n[3]>>, <<0, n[4]>> >>
          [] n[1] = 3 -> << <<1, n[3], n[4]>> >>]]
=============================================================================
