------------------------------ MODULE FwdSteps ------------------------------
(***************************************************************************)
(* tables::fwd in detail: the rules are evaluated one after the other,     *)
(* each body term, alternative and rule keeping the last question it was   *)
(* asked with its answer, and then the tables commit one after the other.  *)
(* Between two calls of fwd the loop of Pfp goes on unchanged, and what    *)
(* this module adds must not be seen there: FairSpec of Pfp is its         *)
(* abstract specification, under the identity mapping.  `tbls` is the      *)
(* database fwd was called with, `work` the one it is committing to.       *)
(***************************************************************************)
EXTENDS Pfp, FiniteSets

VARIABLES
  phase,          \* of fwd: "idle", evaluating "rules", or committing "tables"
  todo,           \* rules fwd has still to evaluate
  body_memo,      \* body |-> [tlast, rlast]: a table it was asked about, its answer
  alt_memo,       \* alt |-> [last, rlast]: its conjuncts, what they joined to
  rule_memo,      \* rule |-> [last, rlast]: its alternatives' results, their union
  add, del,       \* what is pending for each table
  work,           \* the tables
  tab,            \* the table to commit next
  changed,        \* a commit changed a table
  err             \* an `error` builtin has run

memos   == <<body_memo, alt_memo, rule_memo>>
fwdVars == <<phase, todo, memos, add, del, work, tab, changed, err>>

\* a function with the values of g where it has one, and those of f elsewhere
override(f, g) ==
  [x \in DOMAIN f \cup DOMAIN g |-> IF x \in DOMAIN g THEN g[x] ELSE f[x]]

alts_of(rs) == UNION { r.alts : r \in rs }

bodies_of(rs) == UNION { a.bodies : a \in alts_of(rs) }

nothing == [t \in Table |-> {}]

\* Bodies and alternatives are shared by the programs that have them, so an
\* earlier program may have asked them before, about another database.
FwdInit ==
  /\ Init
  /\ phase = "idle" /\ todo = {}
  /\ \E seen \in {{}, rules}, db \in EDBs :
       /\ body_memo =
            [b \in bodies_of(seen) |-> [tlast |-> db[b.tab], rlast |-> body_query(b, db)]]
       /\ alt_memo =
            [a \in { x \in alts_of(seen) : \A b \in x.bodies : body_query(b, db) # {} } |->
               [last  |-> { body_query(b, db) : b \in a.bodies } \cup {a.rng},
                rlast |-> alt_query(a, db)]]
  /\ rule_memo = [r \in {} |-> {}]
  /\ add = nothing /\ del = nothing
  /\ work = tbls /\ tab = 0
  /\ changed = FALSE /\ err = FALSE
----------------------------------------------------------------------------
(* The three memos. *)

\* mutant: the answer is kept whatever became of the table
body_value_stale(b) ==
  IF b \in DOMAIN body_memo THEN body_memo[b].rlast ELSE body_query(b, tbls)

body_value(b) ==
  IF b \in DOMAIN body_memo /\ body_memo[b].tlast = tbls[b.tab]
  THEN body_memo[b].rlast
  ELSE body_query(b, tbls)

failing(a) == { b \in a.bodies : body_value(b) = {} }

\* alt_query goes through the bodies in an order that changes with every
\* failure, up to the first that is false
asked(a) ==
  IF failing(a) = {} THEN {a.bodies}
  ELSE { s \in SUBSET a.bodies : Cardinality(s \cap failing(a)) = 1 }

conjuncts(a) == { body_value(b) : b \in a.bodies } \cup {a.rng}

alt_value(a) ==
  IF failing(a) # {} THEN {}
  ELSE IF a \in DOMAIN alt_memo /\ alt_memo[a].last = conjuncts(a)
       THEN alt_memo[a].rlast
       ELSE { a.head[s] : s \in { z \in a.rng : \A v \in conjuncts(a) : z \in v } }

alt_values(r) == [a \in r.alts |-> alt_value(a)]

unchanged_since(r) == r \in DOMAIN rule_memo /\ rule_memo[r].last = alt_values(r)

rule_value(r) ==
  IF unchanged_since(r) THEN rule_memo[r].rlast
  ELSE (UNION { alt_value(a) : a \in r.alts }) \cap r.eq

\* mutant: also in a program that deletes
skips_always(r) == unchanged_since(r)

\* `if (v == r.last) { if (datalog) continue; ...`
skips(r) == unchanged_since(r) /\ datalog(rules)
----------------------------------------------------------------------------
StartFwd ==
  /\ pc = "loop" /\ phase = "idle"
  /\ phase' = "rules" /\ todo' = rules
  /\ work' = tbls /\ tab' = 0 /\ changed' = FALSE /\ err' = FALSE
  /\ UNCHANGED <<vars, memos, add, del>>

\* one turn of fwd's loop over the rules
EvalRule(r) ==
  /\ phase = "rules" /\ r \in todo
  /\ todo' = todo \ {r}
  /\ \E s \in [r.alts -> SUBSET bodies_of({r})] :
       /\ \A a \in r.alts : s[a] \in asked(a)
       /\ body_memo' = override(body_memo,
            [b \in UNION { s[a] : a \in r.alts } |-> [tlast |-> tbls[b.tab], rlast |-> body_value(b)]])
  /\ alt_memo' = override(alt_memo,
       [a \in { x \in r.alts : failing(x) = {} } |-> [last |-> conjuncts(a), rlast |-> alt_value(a)]])
  /\ rule_memo' = override(rule_memo,
       [x \in {r} |-> [last |-> alt_values(r), rlast |-> rule_value(r)]])
  /\ LET x == IF skips(r) THEN {} ELSE rule_value(r)
     IN  IF r.neg THEN del' = [del EXCEPT ![r.tab] = @ \cup x] /\ UNCHANGED add
                  ELSE add' = [add EXCEPT ![r.tab] = @ \cup x] /\ UNCHANGED del
  /\ UNCHANGED <<vars, phase, work, tab, changed, err>>

StartCommit ==
  /\ phase = "rules" /\ todo = {}
  /\ phase' = "tables"
  /\ UNCHANGED <<vars, todo, memos, add, del, work, tab, changed, err>>

\* The table's head builtin ran for something and stops the run, or its
\* insertions are all deleted.
stops_here == phase = "tables" /\ tab < NTables /\ stops(add, del, tab)

\* mutant: the insertions of a builtin table are not cleared
CommitTable_keep ==
  /\ phase = "tables" /\ tab < NTables /\ ~stops_here
  /\ IF tab \in Builtin
     THEN /\ err' = (err \/ (add[tab] # {} /\ Effect[tab] = "error"))
          /\ UNCHANGED <<add, del, work, changed>>
     ELSE /\ work' = [work EXCEPT ![tab] = commit(@, add[tab], del[tab])]
          /\ changed' = (changed \/ work' # work)
          /\ add' = [add EXCEPT ![tab] = {}] /\ del' = [del EXCEPT ![tab] = {}]
          /\ UNCHANGED err
  /\ tab' = tab + 1
  /\ UNCHANGED <<vars, phase, todo, memos>>

\* one turn of fwd's loop over the tables that does not end it
CommitTable ==
  /\ phase = "tables" /\ tab < NTables /\ ~stops_here
  /\ IF tab \in Builtin
     THEN /\ err' = (err \/ (add[tab] # {} /\ Effect[tab] = "error"))
          /\ UNCHANGED <<work, changed>>
     ELSE /\ work' = [work EXCEPT ![tab] = commit(@, add[tab], del[tab])]
          /\ changed' = (changed \/ work' # work)
          /\ UNCHANGED err
  /\ add' = [add EXCEPT ![tab] = {}] /\ del' = [del EXCEPT ![tab] = {}]
  /\ tab' = tab + 1
  /\ UNCHANGED <<vars, phase, todo, memos>>

\* fwd returns `out` to pfp, which goes on with it
Returned(out) ==
  /\ Finish(out)
  /\ err => error'
  /\ phase' = "idle"
  /\ UNCHANGED <<todo, memos, add, del, work, tab, changed, err>>

ReturnStopped ==
  /\ stops_here
  /\ LET halts == tab \in Builtin /\ Effect[tab] = "halt"
     IN  Returned([tbls |-> work, changed |-> TRUE, halt |-> halts, unsat |-> ~halts, raised |-> err])

ReturnCommitted ==
  /\ phase = "tables" /\ tab = NTables
  /\ Returned([tbls |-> work, changed |-> changed, halt |-> FALSE, unsat |-> FALSE, raised |-> err])

FwdEnter == Enter /\ UNCHANGED fwdVars

FwdStep ==
  \/ StartFwd
  \/ \E r \in rules : EvalRule(r)
  \/ StartCommit
  \/ CommitTable
  \/ ReturnStopped
  \/ ReturnCommitted

FwdDone == Done /\ UNCHANGED fwdVars

FwdNext == FwdEnter \/ FwdStep \/ FwdDone

FwdSpec == FwdInit /\ [][FwdNext]_<<vars, fwdVars>>

\* sequential code, as in Pfp
FwdFairSpec == FwdSpec /\ WF_<<vars, fwdVars>>(FwdEnter \/ FwdStep)
----------------------------------------------------------------------------
(* Properties. *)

\* What pfp sees of a call of fwd is one atomic application of all rules to
\* one database: neither the order of the rules, nor the answers remembered,
\* nor committing table by table can be told from it, and every call returns.
ImplementsPfp == FairSpec

\* A remembered answer is the answer to the remembered question, whoever asked
\* it: this is what makes skipping the evaluation right.
MemosCoherent ==
  /\ \A b \in DOMAIN body_memo :
       body_memo[b].rlast = { s \in Subst : (b.arg[s] \in body_memo[b].tlast) # b.neg }
  /\ \A a \in DOMAIN alt_memo :
       alt_memo[a].rlast = { a.head[s] : s \in { z \in a.rng : \A v \in alt_memo[a].last : z \in v } }
  /\ \A r \in DOMAIN rule_memo :
       rule_memo[r].rlast =
         (UNION { rule_memo[r].last[a] : a \in DOMAIN rule_memo[r].last }) \cap r.eq

\* A rule that is skipped has nothing to add: what its bodies give was put
\* into the table before, and nothing has taken it out since.
DatalogSkipSound ==
  phase = "rules" =>
    \A r \in todo : skips(r) /\ r.tab \notin Builtin => rule_query(r, tbls) \subseteq tbls[r.tab]
=============================================================================
