------------------------------ MODULE TmlRules ------------------------------
(***************************************************************************)
(* What one evaluation of a TML program's rules does to its database       *)
(* (tables::body_query, alt_query, fwd and table::commit of tables.cpp).   *)
(*                                                                         *)
(* The BDDs are read as the sets they denote: a table is a set of tuples,  *)
(* the result of a body term is the set of substitutions that satisfy it,  *)
(* and a conjunction of BDDs is an intersection.  A table of arity 0 holds *)
(* NoArgs (htrue) or nothing (hfalse).  Tables are numbered and fwd walks  *)
(* them in that order.                                                     *)
(***************************************************************************)
EXTENDS Naturals

CONSTANTS
  NTables,   \* number of tables, tbls.size()
  Tuple,     \* the tuples over the program's universe
  NoArgs,    \* the only tuple of a table of arity 0
  Subst,     \* the assignments of values to a rule's variables
  Effect     \* what the head builtin of a builtin table does when it runs

Table   == 0 .. NTables - 1
Builtin == DOMAIN Effect

ASSUME TmlRulesAssumption ==
  /\ NTables \in Nat
  /\ NoArgs \in Tuple
  /\ Builtin \subseteq Table
  /\ Effect \in [Builtin -> {"none", "halt", "error", "false"}]

DB   == [Table -> SUBSET Tuple]
Body == [tab : Table, neg : BOOLEAN, arg : [Subst -> Tuple]]
Alt  == [bodies : SUBSET Body, rng : SUBSET Subst, head : [Subst -> Tuple]]

\* The head of a builtin relation is never negated (the DBG assertion of fwd).
Rule == { r \in [tab : Table, neg : BOOLEAN, alts : SUBSET Alt, eq : SUBSET Tuple] :
            r.tab \in Builtin => ~r.neg }
----------------------------------------------------------------------------
(* Evaluation of a rule. *)

\* bdd_and_ex_perm / bdd_and_not_ex_perm of the body's constants with its table
body_query(b, db) == { s \in Subst : (b.arg[s] \in db[b.tab]) # b.neg }

\* the conjunction of range, equalities and bodies, projected to the head
alt_query(a, db) ==
  { a.head[s] : s \in { z \in a.rng : \A b \in a.bodies : z \in body_query(b, db) } }

rule_query(r, db) == (UNION { alt_query(a, db) : a \in r.alts }) \cap r.eq

\* table.add (neg = FALSE) and table.del (neg = TRUE) of every table once the
\* rules have run
pending(rules, db, neg) ==
  [tab \in Table |->
     UNION { rule_query(r, db) : r \in { q \in rules : q.tab = tab /\ q.neg = neg } }]
----------------------------------------------------------------------------
(* table::commit and the walk over the tables, `add` and `del` being what  *)
(* is pending for each.  A table whose insertions are all deleted too is a *)
(* contradiction and keeps its contents; else a deletion beats an          *)
(* insertion.                                                              *)

contradicts(add, del) == add # {} /\ add \subseteq del

commit(t, add, del) == (t \cup add) \ del

\* fwd returns at this table: its builtin stopped the run, or its commit failed
stops(add, del, tab) ==
  IF tab \in Builtin
  THEN Effect[tab] \in {"halt", "false"} /\ add[tab] # {}
  ELSE contradicts(add[tab], del[tab])

\* fwd gets past this table
passes(add, del, tab) == \A k \in 0 .. tab : ~stops(add, del, k)

stopped_at(add, del) ==
  { tab \in Table : stops(add, del, tab) /\ \A k \in 0 .. tab - 1 : ~stops(add, del, k) }

commit_all(db, add, del) ==
  [tab \in Table |->
     IF passes(add, del, tab) /\ tab \notin Builtin
     THEN commit(db[tab], add[tab], del[tab])
     ELSE db[tab]]

\* an `error` builtin ran: it sets a flag and stops nothing
raised(add, del) ==
  \E tab \in Builtin : Effect[tab] = "error" /\ passes(add, del, tab) /\ add[tab] # {}

\* tables::fwd: the new tables, its return value and what it did to the flags
fwd(rules, db) ==
  LET add  == pending(rules, db, FALSE)
      del  == pending(rules, db, TRUE)
      new  == commit_all(db, add, del)
      stop == stopped_at(add, del)
      halt == \E tab \in stop \cap Builtin : Effect[tab] = "halt"
  IN  [ tbls    |-> new,
        changed |-> stop # {} \/ new # db,
        halt    |-> halt,
        unsat   |-> stop # {} /\ ~halt,
        raised  |-> raised(add, del) ]

\* `datalog`: no rule of the program deletes
datalog(rules) == \A r \in rules : ~r.neg
=============================================================================
