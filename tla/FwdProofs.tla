------------------------------ MODULE FwdProofs ------------------------------
(***************************************************************************)
(* What the memos of fwd hold, and that a call of fwd, rule by rule and     *)
(* table by table, is the one atomic step Pfp takes it for: for every      *)
(* universe, program and database.                                         *)
(***************************************************************************)
EXTENDS FwdSteps, PfpProofs

----------------------------------------------------------------------------
(* The memos. *)

body_coherent(b, m) == m.rlast = { s \in Subst : (b.arg[s] \in m.tlast) # b.neg }

alt_coherent(a, m) ==
  m.rlast = { a.head[s] : s \in { z \in a.rng : \A v \in m.last : z \in v } }

rule_coherent(r, m) == m.rlast = (UNION { m.last[a] : a \in DOMAIN m.last }) \cap r.eq

\* MemosCoherent, memo by memo.
LEMMA Coherence ==
  MemosCoherent <=>
    /\ \A b \in DOMAIN body_memo : body_coherent(b, body_memo[b])
    /\ \A a \in DOMAIN alt_memo : alt_coherent(a, alt_memo[a])
    /\ \A r \in DOMAIN rule_memo : rule_coherent(r, rule_memo[r])
BY DEF MemosCoherent, body_coherent, alt_coherent, rule_coherent

\* The memos an earlier program leaves are coherent.
LEMMA MemosInit == FwdInit => MemosCoherent
<1> SUFFICES ASSUME FwdInit PROVE MemosCoherent
  OBVIOUS
<1>1. PICK seen \in {{}, rules}, db \in EDBs :
        /\ body_memo =
             [b \in bodies_of(seen) |-> [tlast |-> db[b.tab], rlast |-> body_query(b, db)]]
        /\ alt_memo =
             [a \in { x \in alts_of(seen) : \A b \in x.bodies : body_query(b, db) # {} } |->
                [last  |-> { body_query(b, db) : b \in a.bodies } \cup {a.rng},
                 rlast |-> alt_query(a, db)]]
  BY DEF FwdInit
<1>2. \A b \in DOMAIN body_memo : body_coherent(b, body_memo[b])
  BY <1>1 DEF body_coherent, body_query
<1>3. \A a \in DOMAIN alt_memo : alt_coherent(a, alt_memo[a])
  <2> SUFFICES ASSUME NEW a \in DOMAIN alt_memo PROVE alt_coherent(a, alt_memo[a])
    OBVIOUS
  <2>1. /\ alt_memo[a].last = { body_query(b, db) : b \in a.bodies } \cup {a.rng}
        /\ alt_memo[a].rlast = alt_query(a, db)
    BY <1>1
  <2>2. { z \in a.rng : \A v \in alt_memo[a].last : z \in v }
          = { z \in a.rng : \A b \in a.bodies : z \in body_query(b, db) }
    BY <2>1
  <2> QED BY <2>1, <2>2 DEF alt_coherent, alt_query
<1>4. rule_memo = [r \in {} |-> {}]
  BY DEF FwdInit
<1> QED BY <1>2, <1>3, <1>4, Coherence

\* Evaluating a rule, whatever it reads from its memos, leaves them coherent.
LEMMA MemosEval ==
  ASSUME MemosCoherent, NEW r \in rules, EvalRule(r)
  PROVE  MemosCoherent'
<1>1. \A b \in DOMAIN body_memo' : body_coherent(b, body_memo'[b])
  <2>1. PICK s \in [r.alts -> SUBSET bodies_of({r})] :
          body_memo' = override(body_memo,
            [b \in UNION { s[a] : a \in r.alts } |-> [tlast |-> tbls[b.tab], rlast |-> body_value(b)]])
    BY DEF EvalRule
  <2>2. \A b : body_coherent(b, [tlast |-> tbls[b.tab], rlast |-> body_value(b)])
    BY Coherence DEF body_coherent, body_value, body_query
  <2> QED BY <2>1, <2>2, Coherence DEF override
<1>2. \A a \in DOMAIN alt_memo' : alt_coherent(a, alt_memo'[a])
  <2>1. alt_memo' = override(alt_memo,
          [a \in { x \in r.alts : failing(x) = {} } |-> [last |-> conjuncts(a), rlast |-> alt_value(a)]])
    BY DEF EvalRule
  <2>2. \A a : failing(a) = {} => alt_coherent(a, [last |-> conjuncts(a), rlast |-> alt_value(a)])
    BY Coherence DEF alt_coherent, alt_value
  <2> QED BY <2>1, <2>2, Coherence DEF override
<1>3. \A x \in DOMAIN rule_memo' : rule_coherent(x, rule_memo'[x])
  <2>1. rule_memo' = override(rule_memo,
          [x \in {r} |-> [last |-> alt_values(r), rlast |-> rule_value(r)]])
    BY DEF EvalRule
  <2>2. rule_coherent(r, [last |-> alt_values(r), rlast |-> rule_value(r)])
    <3>1. CASE unchanged_since(r)
      BY <3>1, Coherence DEF rule_coherent, unchanged_since, rule_value
    <3>2. CASE ~unchanged_since(r)
      BY <3>2 DEF rule_coherent, rule_value, alt_values
    <3> QED BY <3>1, <3>2
  <2> QED BY <2>1, <2>2, Coherence DEF override
<1> QED BY <1>1, <1>2, <1>3 DEF MemosCoherent, body_coherent, alt_coherent, rule_coherent

\* No other step touches a memo.
LEMMA MemosKept ==
  ASSUME MemosCoherent, UNCHANGED memos
  PROVE  MemosCoherent'
BY DEF memos, MemosCoherent

\* Whatever the rules, the databases and the order of evaluation, a remembered
\* answer is the answer to the remembered question: reusing it in body_query,
\* alt_query and fwd is the same as evaluating again.
THEOREM MemosCoherentAlways == FwdSpec => []MemosCoherent
<1>1. FwdInit => MemosCoherent
  BY MemosInit
<1>2. MemosCoherent /\ [FwdNext]_<<vars, fwdVars>> => MemosCoherent'
  <2> SUFFICES ASSUME MemosCoherent, [FwdNext]_<<vars, fwdVars>> PROVE MemosCoherent'
    OBVIOUS
  <2>1. CASE \E r \in rules : EvalRule(r)
    BY <2>1, MemosEval
  <2>2. CASE StartFwd
    BY <2>2, MemosKept DEF StartFwd, memos
  <2>3. CASE StartCommit
    BY <2>3, MemosKept DEF StartCommit, memos
  <2>4. CASE CommitTable
    BY <2>4, MemosKept DEF CommitTable, memos
  <2>5. CASE ReturnStopped
    BY <2>5, MemosKept DEF ReturnStopped, Returned, memos
  <2>6. CASE ReturnCommitted
    BY <2>6, MemosKept DEF ReturnCommitted, Returned, memos
  <2>7. CASE FwdEnter \/ FwdDone \/ UNCHANGED <<vars, fwdVars>>
    BY <2>7, MemosKept DEF FwdEnter, FwdDone, fwdVars, memos
  <2> QED
    BY <2>1, <2>2, <2>3, <2>4, <2>5, <2>6, <2>7 DEF FwdNext, FwdStep
<1> QED BY <1>1, <1>2, PTL DEF FwdSpec
----------------------------------------------------------------------------
(* What is remembered is what an evaluation would give. *)

\* tables::body_query, with or without its memo.
LEMMA BodyRight ==
  ASSUME MemosCoherent, NEW b
  PROVE  body_value(b) = body_query(b, tbls)
BY Coherence DEF body_value, body_query, body_coherent

\* tables::alt_query, with or without its memo and its early exit.
LEMMA AltRight ==
  ASSUME MemosCoherent, NEW a
  PROVE  alt_value(a) = alt_query(a, tbls)
<1>1. \A b \in a.bodies : body_value(b) = body_query(b, tbls)
  BY BodyRight
<1>2. CASE failing(a) # {}
  <2>1. PICK b \in a.bodies : body_query(b, tbls) = {}
    BY <1>1, <1>2 DEF failing
  <2>2. alt_query(a, tbls) = {}
    BY <2>1 DEF alt_query
  <2> QED BY <1>2, <2>2 DEF alt_value
<1>3. CASE failing(a) = {}
  <2>1. { z \in a.rng : \A v \in conjuncts(a) : z \in v }
          = { z \in a.rng : \A b \in a.bodies : z \in body_query(b, tbls) }
    BY <1>1 DEF conjuncts
  <2>2. alt_query(a, tbls) = { a.head[s] : s \in { z \in a.rng : \A v \in conjuncts(a) : z \in v } }
    BY <2>1 DEF alt_query
  <2> QED BY <1>3, <2>2, Coherence DEF alt_value, alt_coherent
<1> QED BY <1>2, <1>3

\* The result fwd uses for a rule, remembered or not.
LEMMA RuleRight ==
  ASSUME MemosCoherent, NEW r
  PROVE  rule_value(r) = rule_query(r, tbls)
<1>1. \A a \in r.alts : alt_value(a) = alt_query(a, tbls)
  BY AltRight
<1>2. rule_query(r, tbls) = (UNION { alt_value(a) : a \in r.alts }) \cap r.eq
  BY <1>1 DEF rule_query
<1>3. CASE unchanged_since(r)
  <2>1. /\ r \in DOMAIN rule_memo /\ rule_memo[r].last = alt_values(r)
        /\ rule_memo[r].rlast = (UNION { alt_values(r)[a] : a \in DOMAIN alt_values(r) }) \cap r.eq
    BY <1>3, Coherence DEF unchanged_since, rule_coherent
  <2>2. DOMAIN alt_values(r) = r.alts /\ \A a \in r.alts : alt_values(r)[a] = alt_value(a)
    BY DEF alt_values
  <2> QED BY <1>2, <1>3, <2>1, <2>2 DEF rule_value
<1>4. CASE ~unchanged_since(r)
  BY <1>2, <1>4 DEF rule_value
<1> QED BY <1>3, <1>4
----------------------------------------------------------------------------
(* A call of fwd on its way. *)

\* what the rules evaluated so far give, had none been skipped
given_add == pending(rules \ todo, tbls, FALSE)
given_del == pending(rules \ todo, tbls, TRUE)

\* Pending x has the effect pending y would have: y itself in a program that
\* deletes; in another one what skipped rules give is missing, and the table
\* has it.  An `error` builtin may miss its call.
does_for(t, x, y) ==
  IF datalog(rules)
  THEN /\ x \subseteq y
       /\ IF t \in Builtin THEN Effect[t] \in {"halt", "false"} => x = y
                           ELSE y \subseteq x \cup tbls[t]
  ELSE x = y

\* an `error` builtin below n was given something
gave_error(n) == \E k \in Builtin : k < n /\ Effect[k] = "error" /\ given_add[k] # {}

FwdTypeOK ==
  /\ phase \in {"idle", "rules", "tables"}
  /\ todo \subseteq rules /\ DOMAIN rule_memo \subseteq rules
  /\ add \in DB /\ del \in DB /\ work \in DB
  /\ tab \in 0 .. NTables
  /\ changed \in BOOLEAN /\ err \in BOOLEAN

BetweenCalls == pc # "done" /\ phase = "idle" => add = nothing /\ del = nothing

\* The tables below `tab` have committed what the rules give, and those above
\* have it pending.
InCall ==
  phase # "idle" =>
    /\ pc = "loop"
    /\ phase = "rules" => tab = 0
    /\ phase = "tables" => todo = {}
    /\ \A t \in Table :
         IF t < tab THEN add[t] = {} /\ del[t] = {}
                    ELSE del[t] = given_del[t] /\ does_for(t, add[t], given_add[t])
    /\ work = [t \in Table |->
                 IF t < tab /\ t \notin Builtin
                 THEN commit(tbls[t], given_add[t], given_del[t]) ELSE tbls[t]]
    /\ \A k \in Table : k < tab => ~stops(given_add, given_del, k)
    /\ changed <=> work # tbls
    /\ err => gave_error(tab)
    /\ ~datalog(rules) /\ gave_error(tab) => err

\* what the rule gave when it was last evaluated is in its table
already(r, db) ==
  IF r.tab \in Builtin THEN Effect[r.tab] \in {"halt", "false"} => rule_memo[r].rlast = {}
                       ELSE rule_memo[r].rlast \subseteq db[r.tab]

\* Where nothing is deleted, what a rule gave stays: in its table, or pending.
Remembered ==
  datalog(rules) =>
    \A r \in DOMAIN rule_memo :
      /\ pc # "done" /\ phase = "idle" => already(r, tbls)
      /\ phase = "rules" /\ r \in todo => already(r, tbls)
      /\ phase # "idle" =>
           already(r, work) \/ (tab <= r.tab /\ rule_memo[r].rlast \subseteq add[r.tab])

FwdInv == FwdTypeOK /\ BetweenCalls /\ InCall /\ Remembered

\* A program that deletes nothing has nothing pending to delete.
LEMMA NothingToDelete ==
  ASSUME NEW rs, NEW db, datalog(rs), NEW t \in Table
  PROVE  pending(rs, db, TRUE)[t] = {}
BY DEF pending, datalog

\* One more rule adds what it gives to what is pending for its table.
LEMMA PendingGrows ==
  ASSUME NEW rs, NEW more, NEW r, \A q : q \in more <=> q \in rs \/ q = r,
         NEW db, NEW t \in Table
  PROVE  /\ \A x : x \in pending(more, db, FALSE)[t] <=>
                     \/ x \in pending(rs, db, FALSE)[t]
                     \/ r.tab = t /\ r.neg = FALSE /\ x \in rule_query(r, db)
         /\ \A x : x \in pending(more, db, TRUE)[t] <=>
                     \/ x \in pending(rs, db, TRUE)[t]
                     \/ r.tab = t /\ r.neg = TRUE /\ x \in rule_query(r, db)
BY DEF pending

\* No rule leaves something pending for no table.
LEMMA NoRules ==
  ASSUME NEW db, NEW neg, NEW t \in Table
  PROVE  pending({}, db, neg)[t] = {}
BY DEF pending

\* Before the first call nothing is pending.
LEMMA FwdInit_Inv == FwdInit => FwdInv
<1> SUFFICES ASSUME FwdInit PROVE FwdInv
  OBVIOUS
<1>1. TypeOK
  BY InitType DEF FwdInit
<1>2. nothing \in DB
  BY DEF nothing, DB
<1>3. /\ phase = "idle" /\ todo = {} /\ DOMAIN rule_memo = {}
      /\ add = nothing /\ del = nothing /\ work = tbls /\ tab = 0
      /\ changed = FALSE /\ err = FALSE
  BY DEF FwdInit
<1>4. FwdTypeOK
  <2>1. 0 \in 0 .. NTables
    BY TmlRulesAssumption
  <2>2. tbls \in DB
    BY <1>1 DEF TypeOK
  <2>3. phase \in {"idle", "rules", "tables"} /\ todo \subseteq rules /\ DOMAIN rule_memo \subseteq rules
    BY <1>3
  <2> QED BY <1>2, <1>3, <2>1, <2>2, <2>3 DEF FwdTypeOK
<1>5. BetweenCalls
  BY <1>3 DEF BetweenCalls
<1>6. InCall
  BY <1>3 DEF InCall
<1>7. Remembered
  BY <1>3 DEF Remembered
<1> QED BY <1>4, <1>5, <1>6, <1>7 DEF FwdInv

\* A call begins with nothing pending and nothing committed.
LEMMA StartKeeps ==
  ASSUME TypeOK, FwdInv, StartFwd
  PROVE  FwdInv'
<1> USE DEF FwdInv, vars, memos, args
<1>1. /\ pc = "loop" /\ phase = "idle" /\ phase' = "rules" /\ todo' = rules
      /\ work' = tbls /\ tab' = 0 /\ changed' = FALSE /\ err' = FALSE
      /\ UNCHANGED <<rules, tbls, pc, rule_memo, add, del>>
  BY DEF StartFwd
<1>2. add = nothing /\ del = nothing
  BY <1>1 DEF BetweenCalls
<1>3. FwdTypeOK'
  <2>1. 0 \in 0 .. NTables
    BY TmlRulesAssumption
  <2> QED BY <1>1, <2>1 DEF FwdTypeOK, TypeOK
<1>4. \A t \in Table : given_add'[t] = {} /\ given_del'[t] = {}
  <2>1. rules' \ todo' = {}
    BY <1>1
  <2>2. given_add' = pending({}, tbls', FALSE) /\ given_del' = pending({}, tbls', TRUE)
    BY <2>1 DEF given_add, given_del
  <2> QED BY <2>2, NoRules
<1>5. \A t \in Table : add'[t] = {} /\ del'[t] = {} /\ ~(t < tab')
  BY <1>1, <1>2 DEF nothing, Table
<1>6. \A t \in Table : del'[t] = given_del'[t] /\ does_for(t, add[t], given_add[t])'
  BY <1>4, <1>5 DEF does_for
<1>7. work' = [t \in Table |->
                 IF t < tab' /\ t \notin Builtin
                 THEN commit(tbls'[t], given_add'[t], given_del'[t]) ELSE tbls'[t]]
  BY <1>1, <1>5 DEF TypeOK, DB
<1>8. ~gave_error(tab)'
  BY <1>5, TmlRulesAssumption DEF gave_error
<1>9. InCall'
  BY <1>1, <1>5, <1>6, <1>7, <1>8 DEF InCall
<1>10. Remembered'
  BY <1>1 DEF Remembered, already
<1> QED BY <1>1, <1>3, <1>9, <1>10 DEF BetweenCalls

\* Evaluating a rule makes pending what it gives; what it skips is there already.
LEMMA EvalKeeps ==
  ASSUME TypeOK, MemosCoherent, FwdInv, NEW r \in rules, EvalRule(r)
  PROVE  FwdInv'
<1> DEFINE v == rule_value(r)
           x == IF skips(r) THEN {} ELSE v
<1>1. /\ phase = "rules" /\ r \in todo /\ todo' = todo \ {r}
      /\ UNCHANGED <<rules, tbls, pc, phase, work, tab, changed, err>>
  BY DEF EvalRule, vars, args
<1>2. /\ r.neg => del' = [del EXCEPT ![r.tab] = @ \cup x] /\ add' = add
      /\ ~r.neg => add' = [add EXCEPT ![r.tab] = @ \cup x] /\ del' = del
  BY DEF EvalRule
<1>3. rule_memo' = override(rule_memo, [y \in {r} |-> [last |-> alt_values(r), rlast |-> v]])
  BY DEF EvalRule
<1>4. r \in Rule /\ r.tab \in Table /\ r.neg \in BOOLEAN /\ (r.tab \in Builtin => ~r.neg)
  BY DEF TypeOK, Rule
<1>5. v = rule_query(r, tbls) /\ v \in SUBSET Tuple /\ x \in SUBSET Tuple
  BY <1>4, RuleRight, RuleQueryType DEF TypeOK
<1>6. /\ add \in DB /\ del \in DB /\ tab = 0 /\ pc = "loop" /\ work = tbls
      /\ todo \subseteq rules /\ DOMAIN rule_memo \subseteq rules
  <2>1. /\ add \in DB /\ del \in DB /\ todo \subseteq rules /\ DOMAIN rule_memo \subseteq rules
    BY DEF FwdInv, FwdTypeOK
  <2>2. tab = 0 /\ pc = "loop" /\ work = [t \in Table |->
                                          IF t < tab /\ t \notin Builtin
                                          THEN commit(tbls[t], given_add[t], given_del[t]) ELSE tbls[t]]
    BY <1>1 DEF FwdInv, InCall
  <2>3. \A t \in Table : ~(t < tab)
    BY <2>2 DEF Table
  <2>4. work = tbls
    BY <2>2, <2>3 DEF TypeOK, DB
  <2> QED BY <2>1, <2>2, <2>4
<1>7. add' \in DB /\ del' \in DB
  BY <1>2, <1>4, <1>5, <1>6 DEF DB
<1>0. \A t \in Table :
        /\ add'[t] = add[t] \cup (IF r.tab = t /\ r.neg = FALSE THEN x ELSE {})
        /\ del'[t] = del[t] \cup (IF r.tab = t /\ r.neg = TRUE THEN x ELSE {})
  <2> HIDE DEF x
  <2>1. CASE r.neg = TRUE
    BY <1>2, <1>4, <1>6, <2>1 DEF DB
  <2>2. CASE r.neg = FALSE
    BY <1>2, <1>4, <1>6, <2>2 DEF DB
  <2> QED BY <1>4, <2>1, <2>2
<1>8. /\ DOMAIN rule_memo' = DOMAIN rule_memo \cup {r}
      /\ rule_memo'[r].rlast = v
      /\ \A y \in DOMAIN rule_memo : y # r => rule_memo'[y] = rule_memo[y]
  BY <1>3 DEF override
<1>9. FwdTypeOK'
  BY <1>1, <1>6, <1>7, <1>8 DEF FwdInv, FwdTypeOK
<1>10. skips(r) => datalog(rules) /\ already(r, tbls) /\ rule_memo[r].rlast = v
  <2> SUFFICES ASSUME skips(r) PROVE datalog(rules) /\ already(r, tbls) /\ rule_memo[r].rlast = v
    OBVIOUS
  <2>1. datalog(rules) /\ r \in DOMAIN rule_memo /\ rule_memo[r].rlast = v
    BY DEF skips, unchanged_since, rule_value
  <2> QED BY <1>1, <2>1 DEF FwdInv, Remembered
<1> HIDE DEF v, x
<1>11. InCall'
  <2>1. \A t \in Table :
          /\ given_add'[t] = given_add[t] \cup (IF r.tab = t /\ r.neg = FALSE THEN v ELSE {})
          /\ given_del'[t] = given_del[t] \cup (IF r.tab = t /\ r.neg = TRUE THEN v ELSE {})
    <3> DEFINE before == rules \ todo
               after  == rules' \ todo'
    <3>1. \A q : q \in after <=> q \in before \/ q = r
      BY <1>1, <1>6
    <3>2. /\ given_add = pending(before, tbls, FALSE)
          /\ given_del = pending(before, tbls, TRUE)
          /\ given_add' = pending(after, tbls, FALSE)
          /\ given_del' = pending(after, tbls, TRUE)
      BY <1>1 DEF given_add, given_del
    <3>3. v = rule_query(r, tbls)
      BY <1>5 DEF v
    <3> HIDE DEF before, after
    <3>4. ASSUME NEW t \in Table
          PROVE  /\ \A z : z \in given_add'[t] <=>
                             z \in given_add[t] \/ (r.tab = t /\ r.neg = FALSE /\ z \in v)
                 /\ \A z : z \in given_del'[t] <=>
                             z \in given_del[t] \/ (r.tab = t /\ r.neg = TRUE /\ z \in v)
      <4>1. /\ \A z : z \in pending(after, tbls, FALSE)[t] <=>
                        \/ z \in pending(before, tbls, FALSE)[t]
                        \/ r.tab = t /\ r.neg = FALSE /\ z \in rule_query(r, tbls)
            /\ \A z : z \in pending(after, tbls, TRUE)[t] <=>
                        \/ z \in pending(before, tbls, TRUE)[t]
                        \/ r.tab = t /\ r.neg = TRUE /\ z \in rule_query(r, tbls)
        BY <3>1, PendingGrows
      <4> QED BY <3>2, <3>3, <4>1
    <3> QED BY <3>4
  <2>2. \A t \in Table : ~(t < tab) /\ ~(t < tab')
    BY <1>1, <1>6 DEF Table
  <2>3. \A t \in Table : del[t] = given_del[t] /\ does_for(t, add[t], given_add[t])
    BY <1>1, <2>2 DEF FwdInv, InCall
  <2>4. ASSUME NEW t \in Table
        PROVE  del'[t] = given_del'[t]
    <3>1. CASE r.neg = TRUE /\ r.tab = t
      <4>1. x = v
        BY <1>1, <1>10, <3>1 DEF datalog, x
      <4>2. del'[t] = del[t] \cup x
        BY <1>0, <3>1
      <4>3. given_del'[t] = given_del[t] \cup v
        BY <2>1, <3>1
      <4> QED BY <2>3, <4>1, <4>2, <4>3
    <3>2. CASE ~(r.neg = TRUE /\ r.tab = t)
      BY <1>0, <2>1, <2>3, <3>2
    <3> QED BY <3>1, <3>2
  <2>5. ASSUME NEW t \in Table
        PROVE  does_for(t, add[t], given_add[t])'
    <3>1. does_for(t, add[t], given_add[t])
      BY <2>3
    <3>2. CASE r.neg = FALSE /\ r.tab = t
      <4>1. add'[t] = add[t] \cup x /\ given_add'[t] = given_add[t] \cup v
        BY <1>0, <2>1, <3>2
      <4>2. CASE ~skips(r)
        <5>1. x = v
          BY <4>2 DEF x
        <5> QED BY <1>1, <3>1, <4>1, <5>1 DEF does_for
      <4>3. CASE skips(r)
        <5>1. x = {} /\ datalog(rules)
          BY <1>10, <4>3 DEF x
        <5>2. IF t \in Builtin THEN Effect[t] \in {"halt", "false"} => v = {} ELSE v \subseteq tbls[t]
          BY <1>10, <3>2, <4>3 DEF already
        <5> QED BY <1>1, <3>1, <4>1, <5>1, <5>2 DEF does_for
      <4> QED BY <4>2, <4>3
    <3>3. CASE ~(r.neg = FALSE /\ r.tab = t)
      <4>1. add'[t] = add[t] /\ given_add'[t] = given_add[t]
        BY <1>0, <2>1, <3>3
      <4> QED BY <1>1, <3>1, <4>1 DEF does_for
    <3> QED BY <3>2, <3>3
  <2>6. work' = [t \in Table |->
                   IF t < tab' /\ t \notin Builtin
                   THEN commit(tbls'[t], given_add'[t], given_del'[t]) ELSE tbls'[t]]
    BY <1>1, <1>6, <2>2 DEF TypeOK, DB
  <2>7. ~gave_error(tab) /\ ~gave_error(tab)'
    BY <2>2, TmlRulesAssumption DEF gave_error
  <2>8. err' = err /\ ~err /\ (changed' <=> work' # tbls') /\ pc' = "loop" /\ phase' = "rules" /\ tab' = 0
    BY <1>1, <1>6, <2>7 DEF FwdInv, InCall
  <2> QED BY <2>2, <2>4, <2>5, <2>6, <2>7, <2>8 DEF InCall
<1>12. Remembered'
  <2> SUFFICES ASSUME datalog(rules), NEW y \in DOMAIN rule_memo'
               PROVE  /\ y \in todo' => already(y, tbls)'
                      /\ \/ already(y, work)'
                         \/ tab' <= y.tab /\ rule_memo'[y].rlast \subseteq add'[y.tab]
    BY <1>1 DEF Remembered
  <2>1. CASE y = r
    <3>1. CASE skips(r)
      BY <1>1, <1>6, <1>8, <1>10, <2>1, <3>1 DEF already
    <3>2. CASE ~skips(r)
      <4>1. r.neg = FALSE /\ x = v /\ 0 <= r.tab
        BY <1>4, <3>2 DEF datalog, x, Table
      <4>2. v \subseteq add'[r.tab]
        BY <1>0, <1>4, <4>1
      <4> QED BY <1>1, <1>6, <1>8, <2>1, <4>1, <4>2
    <3> QED BY <3>1, <3>2
  <2>2. CASE y # r
    <3>1. y \in DOMAIN rule_memo /\ rule_memo'[y] = rule_memo[y]
      BY <1>8, <2>2
    <3>2. y.tab \in Table
      BY <3>1, <1>6 DEF TypeOK, Rule
    <3>3. add[y.tab] \subseteq add'[y.tab]
      BY <1>0, <3>2
    <3> QED BY <1>1, <3>1, <3>3 DEF FwdInv, Remembered, already
  <2> QED BY <2>1, <2>2
<1>13. BetweenCalls'
  BY <1>1 DEF BetweenCalls
<1> QED BY <1>9, <1>11, <1>12, <1>13 DEF FwdInv

\* Between the loop over the rules and the loop over the tables nothing changes.
LEMMA StartCommitKeeps ==
  ASSUME FwdInv, StartCommit
  PROVE  FwdInv'
<1>1. /\ phase = "rules" /\ todo = {} /\ phase' = "tables"
      /\ UNCHANGED <<rules, tbls, pc, todo, rule_memo, add, del, work, tab, changed, err>>
  BY DEF StartCommit, vars, args, memos
<1>2. given_add' = given_add /\ given_del' = given_del /\ gave_error(tab)' = gave_error(tab)
  BY <1>1 DEF given_add, given_del, gave_error
<1>3. InCall'
  BY <1>1, <1>2 DEF FwdInv, InCall, does_for
<1>4. Remembered'
  BY <1>1 DEF FwdInv, Remembered, already
<1>5. FwdTypeOK' /\ BetweenCalls'
  BY <1>1 DEF FwdInv, FwdTypeOK, BetweenCalls
<1> QED BY <1>3, <1>4, <1>5 DEF FwdInv

\* What is pending for a table stops fwd there, or changes the table, exactly as
\* everything the rules give would.
LEMMA PendingSuffices ==
  ASSUME TypeOK, NEW t \in Table, del[t] = given_del[t], does_for(t, add[t], given_add[t])
  PROVE  /\ stops(add, del, t) <=> stops(given_add, given_del, t)
         /\ t \notin Builtin =>
              commit(tbls[t], add[t], del[t]) = commit(tbls[t], given_add[t], given_del[t])
         /\ add[t] \subseteq given_add[t]
         /\ datalog(rules) => del[t] = {}
<1>1. CASE ~datalog(rules)
  BY <1>1 DEF does_for, stops
<1>2. CASE datalog(rules)
  <2>1. datalog(rules \ todo)
    BY <1>2 DEF datalog
  <2>2. del[t] = {} /\ given_del[t] = {}
    BY <2>1, NothingToDelete DEF given_del
  <2>3. CASE t \in Builtin
    BY <1>2, <2>2, <2>3 DEF does_for, stops
  <2>4. CASE t \notin Builtin
    <3>1. ~contradicts(add[t], del[t]) /\ ~contradicts(given_add[t], given_del[t])
      BY <2>2 DEF contradicts
    <3>2. add[t] \subseteq given_add[t] /\ given_add[t] \subseteq add[t] \cup tbls[t]
      BY <1>2, <2>4 DEF does_for
    <3>3. commit(tbls[t], add[t], del[t]) = commit(tbls[t], given_add[t], given_del[t])
      BY <2>2, <3>2 DEF commit
    <3> QED BY <2>2, <2>4, <3>1, <3>2, <3>3 DEF stops
  <2> QED BY <2>3, <2>4
<1> QED BY <1>1, <1>2

\* A table's commit, or the run of its builtin, does what the rules ask of it.
LEMMA CommitKeeps ==
  ASSUME TypeOK, FwdInv, CommitTable
  PROVE  FwdInv'
<1>1. /\ phase = "tables" /\ tab < NTables /\ ~stops(add, del, tab) /\ tab' = tab + 1
      /\ add' = [add EXCEPT ![tab] = {}] /\ del' = [del EXCEPT ![tab] = {}]
      /\ UNCHANGED <<rules, tbls, pc, phase, todo, rule_memo>>
  BY DEF CommitTable, stops_here, vars, args, memos
<1>2. tab \in Builtin =>
        /\ err' = (err \/ (add[tab] # {} /\ Effect[tab] = "error"))
        /\ work' = work /\ changed' = changed
  BY DEF CommitTable
<1>3. tab \notin Builtin =>
        /\ work' = [work EXCEPT ![tab] = commit(@, add[tab], del[tab])]
        /\ changed' = (changed \/ work' # work)
        /\ err' = err
  BY DEF CommitTable
<1>4. /\ tab \in 0 .. NTables /\ add \in DB /\ del \in DB /\ work \in DB
      /\ changed \in BOOLEAN /\ err \in BOOLEAN
      /\ todo \subseteq rules /\ DOMAIN rule_memo \subseteq rules
  BY DEF FwdInv, FwdTypeOK
<1>5. tab \in Table /\ tab' \in 0 .. NTables /\ \A t \in Table : t < tab' <=> t < tab \/ t = tab
  BY <1>1, <1>4, TmlRulesAssumption DEF Table
<1>6. /\ pc = "loop" /\ todo = {}
      /\ \A t \in Table : IF t < tab THEN add[t] = {} /\ del[t] = {}
                                     ELSE del[t] = given_del[t] /\ does_for(t, add[t], given_add[t])
      /\ \A t \in Table : work[t] = IF t < tab /\ t \notin Builtin
                                    THEN commit(tbls[t], given_add[t], given_del[t]) ELSE tbls[t]
      /\ \A k \in Table : k < tab => ~stops(given_add, given_del, k)
      /\ changed <=> work # tbls
      /\ err => gave_error(tab)
      /\ ~datalog(rules) /\ gave_error(tab) => err
  BY <1>1 DEF FwdInv, InCall
<1>7. /\ \A t \in Table : t # tab => add'[t] = add[t] /\ del'[t] = del[t]
      /\ add'[tab] = {} /\ del'[tab] = {}
  BY <1>1, <1>4, <1>5 DEF DB
<1>8. given_add' = given_add /\ given_del' = given_del
  BY <1>1 DEF given_add, given_del
<1>9. /\ stops(add, del, tab) <=> stops(given_add, given_del, tab)
      /\ tab \notin Builtin =>
           commit(tbls[tab], add[tab], del[tab]) = commit(tbls[tab], given_add[tab], given_del[tab])
      /\ add[tab] \subseteq given_add[tab]
      /\ datalog(rules) => del[tab] = {}
  BY <1>5, <1>6, PendingSuffices DEF Table
<1>10. \A t \in Table : t # tab => work'[t] = work[t]
  BY <1>2, <1>3, <1>4 DEF DB
<1>11. work'[tab] = IF tab \in Builtin THEN tbls[tab]
                    ELSE commit(tbls[tab], given_add[tab], given_del[tab])
  <2>1. work[tab] = tbls[tab]
    BY <1>4, <1>5, <1>6
  <2> QED BY <1>2, <1>3, <1>4, <1>5, <1>9, <2>1 DEF DB
<1>12. work' \in DB
  <2>1. CASE tab \in Builtin
    BY <1>2, <1>4, <2>1
  <2>2. CASE tab \notin Builtin
    BY <1>3, <1>4, <1>5, <2>2 DEF DB, commit
  <2> QED BY <2>1, <2>2
<1>13. FwdTypeOK'
  <2>1. add' \in DB /\ del' \in DB
    BY <1>1, <1>4 DEF DB
  <2>2. changed' \in BOOLEAN /\ err' \in BOOLEAN
    BY <1>2, <1>3, <1>4
  <2> QED BY <1>1, <1>4, <1>5, <1>12, <2>1, <2>2 DEF FwdTypeOK
<1>14. work' = [t \in Table |-> IF t < tab' /\ t \notin Builtin
                               THEN commit(tbls[t], given_add[t], given_del[t]) ELSE tbls[t]]
  <2>1. ASSUME NEW t \in Table
        PROVE  work'[t] = IF t < tab' /\ t \notin Builtin
                          THEN commit(tbls[t], given_add[t], given_del[t]) ELSE tbls[t]
    <3>1. CASE t = tab
      BY <1>5, <1>11, <3>1
    <3>2. CASE t # tab
      BY <1>5, <1>6, <1>10, <3>2
    <3> QED BY <3>1, <3>2
  <2> QED BY <1>12, <2>1 DEF DB
<1>15. changed' <=> work' # tbls
  <2>1. CASE tab \in Builtin
    BY <1>2, <1>6, <2>1
  <2>2. CASE tab \notin Builtin /\ changed
    <3>1. PICK k \in Table : work[k] # tbls[k]
      BY <1>4, <1>6, <2>2 DEF TypeOK, DB
    <3>2. k # tab
      BY <1>4, <1>6, <3>1
    <3> QED BY <1>3, <1>10, <2>2, <3>1, <3>2
  <2>3. CASE tab \notin Builtin /\ ~changed
    BY <1>3, <1>4, <1>6, <2>3
  <2> QED BY <1>4, <2>1, <2>2, <2>3
<1>16. gave_error(tab)' <=> gave_error(tab) \/ (tab \in Builtin /\ Effect[tab] = "error" /\ given_add[tab] # {})
  BY <1>5, <1>8, TmlRulesAssumption DEF gave_error
<1>17. /\ err' => gave_error(tab)'
       /\ ~datalog(rules) /\ gave_error(tab)' => err'
  <2>1. ~datalog(rules) => add[tab] = given_add[tab]
    BY <1>4, <1>5, <1>6 DEF does_for
  <2>2. CASE tab \in Builtin
    BY <1>2, <1>6, <1>9, <1>16, <2>1, <2>2
  <2>3. CASE tab \notin Builtin
    BY <1>3, <1>6, <1>16, <2>3
  <2> QED BY <2>2, <2>3
<1>18. InCall'
  <2>1. \A t \in Table : IF t < tab' THEN add'[t] = {} /\ del'[t] = {}
                         ELSE del'[t] = given_del'[t] /\ does_for(t, add[t], given_add[t])'
    <3> SUFFICES ASSUME NEW t \in Table
                 PROVE  IF t < tab' THEN add'[t] = {} /\ del'[t] = {}
                        ELSE del'[t] = given_del'[t] /\ does_for(t, add[t], given_add[t])'
      OBVIOUS
    <3>1. CASE t = tab
      BY <1>5, <1>7, <3>1
    <3>2. CASE t # tab
      BY <1>1, <1>5, <1>6, <1>7, <1>8, <3>2 DEF does_for
    <3> QED BY <3>1, <3>2
  <2>2. \A k \in Table : k < tab' => ~stops(given_add', given_del', k)
    BY <1>1, <1>5, <1>6, <1>8, <1>9
  <2> QED BY <1>1, <1>6, <1>8, <1>14, <1>15, <1>17, <2>1, <2>2 DEF InCall
<1>19. Remembered'
  <2> SUFFICES ASSUME datalog(rules), NEW r \in DOMAIN rule_memo
               PROVE  already(r, work)' \/ (tab' <= r.tab /\ rule_memo'[r].rlast \subseteq add'[r.tab])
    BY <1>1 DEF Remembered
  <2>1. r.tab \in Table
    BY <1>4 DEF TypeOK, Rule
  <2>2. already(r, work) \/ (tab <= r.tab /\ rule_memo[r].rlast \subseteq add[r.tab])
    BY <1>1 DEF FwdInv, Remembered
  <2>3. CASE r.tab = tab
    <3>1. CASE tab \in Builtin
      <4>1. Effect[tab] \in {"halt", "false"} => add[tab] = {}
        BY <1>1, <3>1 DEF stops
      <4> QED BY <1>1, <2>2, <2>3, <3>1, <4>1 DEF already
    <3>2. CASE tab \notin Builtin
      <4>1. work'[tab] = work[tab] \cup add[tab]
        BY <1>3, <1>4, <1>5, <1>9, <3>2 DEF commit, DB
      <4> QED BY <1>1, <2>2, <2>3, <3>2, <4>1 DEF already
    <3> QED BY <3>1, <3>2
  <2>4. CASE r.tab # tab
    BY <1>1, <1>4, <1>5, <1>7, <1>10, <2>1, <2>2, <2>4 DEF already, Table
  <2> QED BY <2>3, <2>4
<1>20. BetweenCalls'
  BY <1>1 DEF BetweenCalls
<1> QED BY <1>13, <1>18, <1>19, <1>20 DEF FwdInv
----------------------------------------------------------------------------
(* What a call returns. *)

\* An iteration that goes on from a result goes on the same way from one that
\* differs in whether a skipped `error` builtin would have run.
LEMMA FinishSame ==
  ASSUME error \in BOOLEAN, NEW out, NEW spec, Finish(out),
         out.tbls = spec.tbls, out.changed = spec.changed,
         out.halt = spec.halt, out.unsat = spec.unsat,
         out.raised = TRUE => spec.raised /\ error',
         out.raised = FALSE => ~spec.raised \/ datalog(rules),
         out.raised \in BOOLEAN
  PROVE  Finish(spec)
<1>1. error' \in raise(out) => error' \in raise(spec)
  BY DEF raise
<1>2. /\ Called(out) <=> Called(spec)
      /\ wants_fp_fact(fp_step, out) <=> wants_fp_fact(fp_step, spec)
      /\ is_repeat(out) <=> is_repeat(spec)
  BY DEF Called, wants_fp_fact, is_repeat
<1>3. Pushed(out) <=> Pushed(spec)
  BY <1>2 DEF Pushed
<1>4. CASE Halted(out)
  BY <1>1, <1>2, <1>4 DEF Halted, Finish
<1>5. CASE FixedPointStep(out)
  BY <1>1, <1>2, <1>5 DEF FixedPointStep, Finish
<1>6. CASE Contradiction(out)
  BY <1>3, <1>6 DEF Contradiction, Finish
<1>7. CASE LimitReached(out)
  BY <1>1, <1>3, <1>7 DEF LimitReached, Finish
<1>8. CASE InfloopDetected(out)
  BY <1>2, <1>3, <1>8 DEF InfloopDetected, Finish
<1>9. CASE FixedPoint(out)
  BY <1>1, <1>2, <1>3, <1>9 DEF FixedPoint, Finish
<1>10. CASE Continue(out)
  BY <1>1, <1>2, <1>3, <1>10 DEF Continue, Finish
<1> QED BY <1>4, <1>5, <1>6, <1>7, <1>8, <1>9, <1>10 DEF Finish

\* Past the table where fwd is, nothing is decided yet.
LEMMA CommittedSoFar ==
  ASSUME TypeOK, FwdInv, phase = "tables"
  PROVE  /\ given_add = pending(rules, tbls, FALSE)
         /\ given_del = pending(rules, tbls, TRUE)
         /\ \A t \in Table : t < tab => passes(given_add, given_del, t)
         /\ stops_here =>
              /\ stops(given_add, given_del, tab)
              /\ \A t \in Table : passes(given_add, given_del, t) => t < tab
<1>1. todo = {} /\ rules \ todo = rules
  BY DEF FwdInv, InCall
<1>2. \A k \in Table : k < tab => ~stops(given_add, given_del, k)
  BY DEF FwdInv, InCall
<1>3. \A t \in Table : t < tab => passes(given_add, given_del, t)
  <2>1. tab \in 0 .. NTables /\ NTables \in Nat
    BY TmlRulesAssumption DEF FwdInv, FwdTypeOK
  <2>2. \A t \in Table : t < tab => \A k \in 0 .. t : k \in Table /\ k < tab
    BY <2>1 DEF Table
  <2> QED BY <1>2, <2>2 DEF passes
<1>4. ASSUME stops_here
      PROVE  /\ stops(given_add, given_del, tab)
             /\ \A t \in Table : passes(given_add, given_del, t) => t < tab
  <2>1. tab \in Table /\ stops(add, del, tab)
    BY <1>4, TmlRulesAssumption DEF stops_here, FwdInv, FwdTypeOK, Table
  <2>2. del[tab] = given_del[tab] /\ does_for(tab, add[tab], given_add[tab])
    BY <2>1 DEF FwdInv, InCall, Table
  <2>3. stops(given_add, given_del, tab)
    BY <2>1, <2>2, PendingSuffices
  <2>4. ASSUME NEW t \in Table, ~(t < tab) PROVE ~passes(given_add, given_del, t)
    <3>1. tab \in 0 .. t
      BY <2>1, <2>4 DEF Table
    <3> QED BY <2>3, <3>1 DEF passes
  <2> QED BY <2>3, <2>4
<1> QED BY <1>1, <1>3, <1>4 DEF given_add, given_del

\* Where fwd is stopped, it would be stopped by everything the rules give, with
\* the same tables committed.
LEMMA StoppedCall ==
  ASSUME TypeOK, FwdInv, stops_here
  PROVE  LET spec  == fwd(rules, tbls)
             halts == tab \in Builtin /\ Effect[tab] = "halt"
         IN  /\ spec.tbls = work /\ spec.changed = TRUE
             /\ spec.halt = halts /\ spec.unsat = ~halts
             /\ spec.raised <=> gave_error(tab)
<1> DEFINE new   == commit_all(tbls, given_add, given_del)
           stop  == stopped_at(given_add, given_del)
           halts == tab \in Builtin /\ Effect[tab] = "halt"
<1>1. phase = "tables" /\ tab \in Table
  BY TmlRulesAssumption DEF stops_here, FwdInv, FwdTypeOK, Table
<1>2. /\ given_add = pending(rules, tbls, FALSE)
      /\ given_del = pending(rules, tbls, TRUE)
      /\ \A t \in Table : t < tab => passes(given_add, given_del, t)
      /\ stops(given_add, given_del, tab)
      /\ \A t \in Table : passes(given_add, given_del, t) => t < tab
  BY <1>1, CommittedSoFar
<1>3. \A t \in Table : passes(given_add, given_del, t) <=> t < tab
  BY <1>2
<1>4. new = work
  <2>1. work = [t \in Table |-> IF t < tab /\ t \notin Builtin
                               THEN commit(tbls[t], given_add[t], given_del[t]) ELSE tbls[t]]
    BY <1>1 DEF FwdInv, InCall
  <2> QED BY <1>3, <2>1 DEF commit_all
<1>5. stop = {tab}
  <2>1. \A k \in Table : k < tab => ~stops(given_add, given_del, k)
    BY <1>1 DEF FwdInv, InCall
  <2>2. \A k \in 0 .. tab - 1 : k \in Table /\ k < tab
    BY <1>1, TmlRulesAssumption DEF Table
  <2>3. tab \in stop
    BY <1>1, <1>2, <2>1, <2>2 DEF stopped_at
  <2>4. ASSUME NEW t \in stop PROVE t = tab
    <3>1. t \in Table /\ stops(given_add, given_del, t)
          /\ \A k \in 0 .. t - 1 : ~stops(given_add, given_del, k)
      BY DEF stopped_at
    <3>2. ~(t < tab)
      BY <2>1, <3>1
    <3>3. tab \in Nat /\ t \in Nat
      BY <1>1, <3>1, TmlRulesAssumption DEF Table
    <3>4. ~(tab \in 0 .. t - 1)
      BY <1>2, <3>1
    <3> QED BY <3>2, <3>3, <3>4
  <2> HIDE DEF stop
  <2> QED BY <2>3, <2>4
<1>6. raised(given_add, given_del) <=> gave_error(tab)
  BY <1>3, TmlRulesAssumption DEF raised, gave_error
<1> HIDE DEF stop, new
<1>7. (\E t \in stop \cap Builtin : Effect[t] = "halt") <=> halts
  BY <1>5
<1>8. fwd(rules, tbls) =
        [ tbls    |-> new,
          changed |-> stop # {} \/ new # tbls,
          halt    |-> \E t \in stop \cap Builtin : Effect[t] = "halt",
          unsat   |-> stop # {} /\ ~(\E t \in stop \cap Builtin : Effect[t] = "halt"),
          raised  |-> raised(given_add, given_del) ]
  BY <1>2 DEF fwd, stop, new
<1>9. /\ fwd(rules, tbls).tbls = new /\ fwd(rules, tbls).changed = (stop # {} \/ new # tbls)
      /\ fwd(rules, tbls).halt = (\E t \in stop \cap Builtin : Effect[t] = "halt")
      /\ fwd(rules, tbls).unsat = (stop # {} /\ ~(\E t \in stop \cap Builtin : Effect[t] = "halt"))
      /\ fwd(rules, tbls).raised = raised(given_add, given_del)
  BY <1>8
<1> QED BY <1>4, <1>5, <1>6, <1>7, <1>9

\* A call that goes through all tables leaves what the rules ask for.
LEMMA CommittedCall ==
  ASSUME TypeOK, FwdInv, phase = "tables", tab = NTables
  PROVE  LET spec == fwd(rules, tbls)
         IN  /\ spec.tbls = work /\ spec.changed = changed
             /\ spec.halt = FALSE /\ spec.unsat = FALSE
             /\ spec.raised <=> gave_error(tab)
<1> DEFINE new   == commit_all(tbls, given_add, given_del)
           stop  == stopped_at(given_add, given_del)
<1>1. /\ given_add = pending(rules, tbls, FALSE)
      /\ given_del = pending(rules, tbls, TRUE)
      /\ \A t \in Table : t < tab => passes(given_add, given_del, t)
  BY CommittedSoFar
<1>2. \A t \in Table : t < tab /\ passes(given_add, given_del, t)
  <2>1. \A t \in Table : t < NTables
    BY TmlRulesAssumption DEF Table
  <2> QED BY <1>1, <2>1
<1>3. work = [t \in Table |-> IF t < tab /\ t \notin Builtin
                             THEN commit(tbls[t], given_add[t], given_del[t]) ELSE tbls[t]]
      /\ (changed <=> work # tbls) /\ changed \in BOOLEAN
      /\ \A k \in Table : k < tab => ~stops(given_add, given_del, k)
  BY DEF FwdInv, FwdTypeOK, InCall
<1>4. new = work
  BY <1>2, <1>3 DEF commit_all
<1>5. stop = {}
  BY <1>2, <1>3 DEF stopped_at
<1>6. raised(given_add, given_del) <=> gave_error(tab)
  BY <1>2, TmlRulesAssumption DEF raised, gave_error
<1> HIDE DEF stop, new
<1>7. fwd(rules, tbls) =
        [ tbls    |-> new,
          changed |-> stop # {} \/ new # tbls,
          halt    |-> \E t \in stop \cap Builtin : Effect[t] = "halt",
          unsat   |-> stop # {} /\ ~(\E t \in stop \cap Builtin : Effect[t] = "halt"),
          raised  |-> raised(given_add, given_del) ]
  BY <1>1 DEF fwd, stop, new
<1>8. /\ fwd(rules, tbls).tbls = new /\ fwd(rules, tbls).changed = (stop # {} \/ new # tbls)
      /\ fwd(rules, tbls).halt = (\E t \in stop \cap Builtin : Effect[t] = "halt")
      /\ fwd(rules, tbls).unsat = (stop # {} /\ ~(\E t \in stop \cap Builtin : Effect[t] = "halt"))
      /\ fwd(rules, tbls).raised = raised(given_add, given_del)
  BY <1>7
<1> QED BY <1>3, <1>4, <1>5, <1>6, <1>8

\* pfp goes on from what a call returned as it would from fwd in one step.
LEMMA ReturnIsIterate ==
  ASSUME TypeOK, FwdInv, ReturnStopped \/ ReturnCommitted
  PROVE  Finish(fwd(rules, tbls))
<1>1. error \in BOOLEAN /\ err \in BOOLEAN /\ phase = "tables" /\ tab \in 0 .. NTables
      /\ (err => gave_error(tab)) /\ (~datalog(rules) /\ gave_error(tab) => err)
  BY DEF TypeOK, FwdInv, FwdTypeOK, InCall, ReturnStopped, ReturnCommitted, stops_here
<1>2. CASE ReturnStopped
  <2> DEFINE halts == tab \in Builtin /\ Effect[tab] = "halt"
             out == [tbls |-> work, changed |-> TRUE, halt |-> halts, unsat |-> ~halts, raised |-> err]
  <2>1. Finish(out) /\ (err => error') /\ stops_here
    BY <1>2 DEF ReturnStopped, Returned
  <2>2. /\ fwd(rules, tbls).tbls = work /\ fwd(rules, tbls).changed = TRUE
        /\ fwd(rules, tbls).halt = halts /\ fwd(rules, tbls).unsat = ~halts
        /\ fwd(rules, tbls).raised <=> gave_error(tab)
    BY <2>1, StoppedCall
  <2>3. /\ out.tbls = work /\ out.changed = TRUE /\ out.halt = halts /\ out.unsat = ~halts
        /\ out.raised = err
    OBVIOUS
  <2> HIDE DEF out, halts
  <2> QED BY <1>1, <2>1, <2>2, <2>3, FinishSame
<1>3. CASE ReturnCommitted
  <2> DEFINE out == [tbls |-> work, changed |-> changed, halt |-> FALSE, unsat |-> FALSE, raised |-> err]
  <2>1. Finish(out) /\ (err => error') /\ tab = NTables
    BY <1>3 DEF ReturnCommitted, Returned
  <2>2. /\ fwd(rules, tbls).tbls = work /\ fwd(rules, tbls).changed = changed
        /\ fwd(rules, tbls).halt = FALSE /\ fwd(rules, tbls).unsat = FALSE
        /\ fwd(rules, tbls).raised <=> gave_error(tab)
    BY <1>1, <2>1, CommittedCall
  <2>3. /\ out.tbls = work /\ out.changed = changed /\ out.halt = FALSE /\ out.unsat = FALSE
        /\ out.raised = err
    OBVIOUS
  <2> HIDE DEF out
  <2> QED BY <1>1, <2>1, <2>2, <2>3, FinishSame
<1> QED BY <1>2, <1>3

\* A call that was stopped ends pfp.
LEMMA StoppedIsDone ==
  ASSUME ReturnStopped
  PROVE  pc' = "done"
<1> DEFINE halts == tab \in Builtin /\ Effect[tab] = "halt"
           out == [tbls |-> work, changed |-> TRUE, halt |-> halts, unsat |-> ~halts, raised |-> err]
<1>1. Finish(out)
  BY DEF ReturnStopped, Returned
<1>2. out.changed = TRUE /\ (out.halt \/ out.unsat)
  OBVIOUS
<1> HIDE DEF out
<1>3. Called(out) => halt' \/ unsat'
  BY <1>2 DEF Called
<1> QED
  BY <1>1, <1>2, <1>3
     DEF Finish, Halted, FixedPointStep, wants_fp_fact, Contradiction, LimitReached,
         InfloopDetected, FixedPoint, Continue, Pushed, Return

\* What pfp does with a database it was given it does to that database.
LEMMA FinishTables ==
  ASSUME NEW out, Finish(out)
  PROVE  /\ rules' = rules
         /\ tbls' = out.tbls \/ tbls' = [out.tbls EXCEPT ![FpTable] = @ \cup {NoArgs}]
         /\ pc = "loop"
BY DEF Finish, Halted, FixedPointStep, Contradiction, LimitReached, InfloopDetected, FixedPoint,
       Continue, Pushed, Called, args

\* A return leaves nothing pending for the next call, and what the rules gave in
\* the tables.
LEMMA ReturnKeeps ==
  ASSUME TypeOK, FwdInv, ReturnStopped \/ ReturnCommitted
  PROVE  FwdInv'
<1>1. /\ phase = "tables" /\ phase' = "idle"
      /\ UNCHANGED <<todo, rule_memo, add, del, work, tab, changed, err>>
  BY DEF ReturnStopped, ReturnCommitted, Returned, stops_here, memos
<1>2. rules' = rules
  BY FinishTables, ReturnIsIterate
<1>3. FwdTypeOK' /\ InCall'
  BY <1>1, <1>2 DEF FwdInv, FwdTypeOK, InCall
<1>4. CASE ReturnStopped
  BY <1>1, <1>3, <1>4, StoppedIsDone DEF FwdInv, BetweenCalls, Remembered
<1>5. CASE ReturnCommitted
  <2>1. tab = NTables /\ \A t \in Table : t < tab /\ ~(tab <= t)
    <3>1. \A t \in Table : t < NTables /\ ~(NTables <= t)
      BY TmlRulesAssumption DEF Table
    <3> QED BY <1>5, <3>1 DEF ReturnCommitted
  <2>2. add = nothing /\ del = nothing
    <3>1. \A t \in Table : add[t] = {} /\ del[t] = {}
      BY <1>1, <2>1 DEF FwdInv, InCall
    <3> QED BY <3>1 DEF FwdInv, FwdTypeOK, DB, nothing
  <2>3. tbls' = work \/ tbls' = [work EXCEPT ![FpTable] = @ \cup {NoArgs}]
    BY <1>5, FinishTables DEF ReturnCommitted, Returned
  <2>4. \A t \in Table : work[t] \subseteq tbls'[t]
    BY <2>3 DEF FwdInv, FwdTypeOK, DB
  <2>5. Remembered'
    <3> SUFFICES ASSUME datalog(rules), NEW r \in DOMAIN rule_memo PROVE already(r, tbls)'
      BY <1>1, <1>2 DEF Remembered
    <3>1. r.tab \in Table
      BY DEF FwdInv, FwdTypeOK, TypeOK, Rule
    <3>2. already(r, work)
      BY <1>1, <2>1, <3>1 DEF FwdInv, Remembered
    <3> QED BY <1>1, <2>4, <3>1, <3>2 DEF already
  <2> QED BY <1>1, <1>3, <2>2, <2>5 DEF FwdInv, BetweenCalls
<1> QED BY <1>4, <1>5
----------------------------------------------------------------------------
(* The two specifications. *)

\* Every step of the detailed loop keeps what a call of fwd rests on.
LEMMA FwdStepKeeps ==
  ASSUME TypeOK, MemosCoherent, FwdInv, [FwdNext]_<<vars, fwdVars>>
  PROVE  FwdInv'
<1>1. CASE FwdEnter
  <2>1. /\ UNCHANGED <<rules, tbls, fwdVars>> /\ pc = "enter" /\ pc' = "loop"
    BY <1>1 DEF FwdEnter, Enter, args
  <2>2. phase = "idle"
    BY <2>1 DEF FwdInv, FwdTypeOK, InCall
  <2> QED
    BY <2>1, <2>2 DEF FwdInv, FwdTypeOK, BetweenCalls, InCall, Remembered, already, fwdVars, memos
<1>2. CASE StartFwd
  BY <1>2, StartKeeps
<1>3. CASE \E r \in rules : EvalRule(r)
  BY <1>3, EvalKeeps
<1>4. CASE StartCommit
  BY <1>4, StartCommitKeeps
<1>5. CASE CommitTable
  BY <1>5, CommitKeeps
<1>6. CASE ReturnStopped \/ ReturnCommitted
  BY <1>6, ReturnKeeps
<1>7. CASE UNCHANGED <<vars, fwdVars>>
  <2>1. given_add' = given_add /\ given_del' = given_del /\ gave_error(tab)' = gave_error(tab)
    BY <1>7 DEF given_add, given_del, gave_error, vars, args, fwdVars
  <2> QED
    BY <1>7, <2>1 DEF FwdInv, FwdTypeOK, BetweenCalls, InCall, does_for, Remembered, already,
                      vars, args, fwdVars, memos
<1> QED
  BY <1>1, <1>2, <1>3, <1>4, <1>5, <1>6, <1>7 DEF FwdNext, FwdStep, FwdDone, Done

\* Every step of the detailed loop is a step of Pfp, or none.
LEMMA FwdStepRefines ==
  ASSUME TypeOK, FwdInv, [FwdNext]_<<vars, fwdVars>>
  PROVE  [Next]_vars
<1>1. CASE ReturnStopped \/ ReturnCommitted
  BY <1>1, ReturnIsIterate, FinishTables DEF Next, Iterate
<1>2. CASE StartFwd \/ (\E r \in rules : EvalRule(r)) \/ StartCommit \/ CommitTable
  BY <1>2 DEF StartFwd, EvalRule, StartCommit, CommitTable
<1>3. CASE FwdEnter \/ FwdDone \/ UNCHANGED <<vars, fwdVars>>
  BY <1>3 DEF FwdEnter, FwdDone, Next
<1> QED
  BY <1>1, <1>2, <1>3 DEF FwdNext, FwdStep

\* A call of fwd that evaluates rule by rule from its memos, skips what has not
\* changed and commits table by table implements the atomic call of Pfp, for
\* every program and database: the safety part of ImplementsPfp.
THEOREM FwdImplementsPfp == FwdSpec => Spec
<1> DEFINE All == TypeOK /\ MemosCoherent /\ FwdInv
<1>1. FwdInit => Init /\ All
  BY InitType, MemosInit, FwdInit_Inv DEF FwdInit
<1>2. All /\ [FwdNext]_<<vars, fwdVars>> => [Next]_vars /\ FwdInv'
  BY FwdStepRefines, FwdStepKeeps
<1>3. TypeOK /\ [Next]_vars => TypeOK'
  BY StepType
<1>4. FwdSpec => []MemosCoherent
  BY MemosCoherentAlways
<1> HIDE DEF All
<1> QED BY <1>1, <1>2, <1>3, <1>4, PTL DEF FwdSpec, Spec, All

\* The two invariants of fwd and the types of pfp hold together.
LEMMA FwdInvAlways == FwdSpec => [](TypeOK /\ MemosCoherent /\ FwdInv)
BY FwdInit_Inv, FwdStepKeeps, MemosCoherentAlways, FwdImplementsPfp, TypeCorrect, PTL DEF FwdSpec

\* A rule that fwd skips would have added nothing to its table: what its bodies
\* give was put there before, and a program that skips never takes it out.
THEOREM DatalogSkipSoundAlways == FwdSpec => []DatalogSkipSound
<1>1. TypeOK /\ MemosCoherent /\ FwdInv => DatalogSkipSound
  <2> SUFFICES ASSUME TypeOK, MemosCoherent, FwdInv, phase = "rules",
                      NEW r \in todo, skips(r), r.tab \notin Builtin
               PROVE  rule_query(r, tbls) \subseteq tbls[r.tab]
    BY DEF DatalogSkipSound
  <2>1. datalog(rules) /\ r \in DOMAIN rule_memo /\ rule_value(r) = rule_memo[r].rlast
    BY DEF skips, unchanged_since, rule_value
  <2>2. rule_value(r) = rule_query(r, tbls)
    BY RuleRight
  <2> QED BY <2>1, <2>2 DEF FwdInv, Remembered, already
<1> QED BY <1>1, FwdInvAlways, PTL

\* The answers of pfp are right when fwd is taken apart, too.
THEOREM FwdAnswersAlways == FwdSpec => [](FixedPointIsReal /\ InfloopIsReal)
BY FwdImplementsPfp, FixedPointIsRealAlways, InfloopIsRealAlways, PTL
=============================================================================
