----------------------------- MODULE PfpProofs -----------------------------
(***************************************************************************)
(* What pfp guarantees for every universe, rule set, database and limit.   *)
(***************************************************************************)
EXTENDS Pfp, SequenceTheorems, WellFoundedInduction, TLAPS

----------------------------------------------------------------------------
(* One evaluation of the rules. *)

\* Whatever a rule derives is made of the program's tuples (rule_query).
LEMMA RuleQueryType ==
  ASSUME NEW r \in Rule, NEW db \in DB
  PROVE  rule_query(r, db) \in SUBSET Tuple
BY DEF rule_query, Rule

\* What is pending for a table is made of the program's tuples.
LEMMA PendingType ==
  ASSUME NEW rs \in SUBSET Rule, NEW db \in DB, NEW neg \in BOOLEAN
  PROVE  pending(rs, db, neg) \in DB
<1>1. \A r \in rs : rule_query(r, db) \in SUBSET Tuple
  BY RuleQueryType
<1>2. \A tab \in Table :
        UNION { rule_query(r, db) : r \in { q \in rs : q.tab = tab /\ q.neg = neg } }
          \in SUBSET Tuple
  BY <1>1
<1> QED BY <1>2 DEF pending, DB

\* fwd leaves a database, and one that it reports unchanged is unchanged.
LEMMA FwdFacts ==
  ASSUME NEW rs \in SUBSET Rule, NEW db \in DB
  PROVE  /\ fwd(rs, db).tbls \in DB
         /\ fwd(rs, db).halt \in BOOLEAN
         /\ fwd(rs, db).unsat \in BOOLEAN
         /\ fwd(rs, db).changed \in BOOLEAN
         /\ ~fwd(rs, db).changed => fwd(rs, db).tbls = db
<1> DEFINE ad == pending(rs, db, FALSE)
           de == pending(rs, db, TRUE)
<1>1. ad \in DB /\ de \in DB
  BY PendingType
<1>2. commit_all(db, ad, de) \in DB
  BY <1>1 DEF commit_all, commit, DB
<1> QED BY <1>2 DEF fwd
----------------------------------------------------------------------------
(* Type correctness. *)

\* Whatever an iteration of the loop ends with, it keeps the types.
LEMMA FinishType ==
  ASSUME TypeOK, NEW out, Finish(out),
         out.tbls \in DB, out.halt \in BOOLEAN, out.unsat \in BOOLEAN
  PROVE  TypeOK'
<1> USE DEF TypeOK, Called, Return, args
<1>0. raise(out) \subseteq BOOLEAN
  BY DEF raise
<1>1. Called(out) => nstep' \in Nat /\ halt' \in BOOLEAN /\ unsat' \in BOOLEAN
  OBVIOUS
<1>2. CASE Halted(out)
  BY <1>0, <1>1, <1>2 DEF Halted
<1>3. CASE FixedPointStep(out)
  <2>1. tbls' \in DB
    BY <1>3, PfpAssumption, TmlRulesAssumption DEF FixedPointStep, DB
  <2> QED BY <2>1, <1>0, <1>1, <1>3 DEF FixedPointStep
<1>4. Pushed(out) => /\ fronts' \in Seq(DB) /\ tbls' \in DB
                     /\ UNCHANGED <<rules, fp_step, nsteps, break_on_step>>
  BY AppendProperties DEF Pushed
<1>5. Pushed(out) => Called(out)
  BY DEF Pushed
<1>6. CASE Contradiction(out)
  BY <1>1, <1>4, <1>5, <1>6 DEF Contradiction
<1>7. CASE LimitReached(out)
  BY <1>0, <1>1, <1>4, <1>5, <1>7 DEF LimitReached
<1>8. CASE InfloopDetected(out)
  BY <1>1, <1>4, <1>5, <1>8 DEF InfloopDetected
<1>9. CASE FixedPoint(out)
  BY <1>0, <1>1, <1>4, <1>5, <1>9 DEF FixedPoint
<1>10. CASE Continue(out)
  BY <1>0, <1>1, <1>4, <1>5, <1>10 DEF Continue
<1> QED BY <1>2, <1>3, <1>6, <1>7, <1>8, <1>9, <1>10 DEF Finish

\* A run starts with every variable in its type.
LEMMA InitType ==
  ASSUME Init
  PROVE  TypeOK
<1>1. rules \in SUBSET Rule /\ tbls \in DB /\ nsteps \in Nat /\ break_on_step \in Nat
  BY PfpAssumption DEF Init
<1>2. fronts \in Seq(DB)
  BY EmptySeq DEF Init
<1> QED BY <1>1, <1>2 DEF Init, TypeOK

\* Every step keeps the types.
LEMMA StepType ==
  ASSUME TypeOK, [Next]_vars
  PROVE  TypeOK'
<1>1. CASE Enter
  BY <1>1, AppendProperties DEF Enter, TypeOK, args
<1>2. CASE Iterate
  BY <1>2, FwdFacts, FinishType DEF Iterate, TypeOK
<1>3. CASE UNCHANGED vars
  BY <1>3 DEF vars, TypeOK
<1> QED BY <1>1, <1>2, <1>3 DEF Next, Done

\* pfp keeps every variable in its type.
THEOREM TypeCorrect == Spec => []TypeOK
<1>1. Init => TypeOK
  BY InitType
<1>2. TypeOK /\ [Next]_vars => TypeOK'
  BY StepType
<1> QED BY <1>1, <1>2, PTL DEF Spec
----------------------------------------------------------------------------
(* The fronts follow the semantics. *)

\* Everything the other invariants rest on: while pfp runs nothing has stopped
\* it, its fronts follow step_of, and only the newest can be a repetition.
Running == pc # "done" => ~halt /\ ~unsat

\* When pfp calls itself the fronts are all different and __fp__ is new.
Reentry ==
  pc = "enter" =>
    /\ \A i, j \in 1 .. Len(fronts) : i < j => fronts[i] # fronts[j]
    /\ fronts # << >> => fp_step /\ NoArgs \in tbls[FpTable]

IInv == TypeOK /\ Running /\ FrontsFollow /\ NoRevisit /\ Reentry

\* The semantics takes databases to databases (fwd and add_fixed_point_fact).
LEMMA StepOfType ==
  ASSUME TypeOK, NEW db \in DB
  PROVE  step_of(rules, fp_step, db) \in DB
<1> DEFINE out == fwd(rules, db)
<1>1. out.tbls \in DB
  BY FwdFacts DEF TypeOK
<1>2. [out.tbls EXCEPT ![FpTable] = @ \cup {NoArgs}] \in DB
  BY <1>1, PfpAssumption, TmlRulesAssumption DEF DB
<1> QED BY <1>1, <1>2 DEF step_of

\* The front an iteration pushes is the semantic successor of the one before.
LEMMA PushedFollows ==
  ASSUME TypeOK, FrontsFollow, pc = "loop", NEW out, out = fwd(rules, tbls), Pushed(out)
  PROVE  /\ chained'
         /\ fronts' \in Seq(DB)
         /\ Len(fronts') = Len(fronts) + 1
         /\ Len(fronts) \in Nat \ {0}
         /\ \A i \in 1 .. Len(fronts) : fronts'[i] = fronts[i]
         /\ fronts'[Len(fronts')] = out.tbls
         /\ tbls' = out.tbls
         /\ out.tbls \in DB
<1>1. out.tbls \in DB
  BY FwdFacts DEF TypeOK
<1>2. fronts' = Append(fronts, out.tbls) /\ tbls' = out.tbls
  BY DEF Pushed
<1>3. /\ fronts' \in Seq(DB)
      /\ Len(fronts') = Len(fronts) + 1
      /\ \A i \in 1 .. Len(fronts) : fronts'[i] = fronts[i]
      /\ fronts'[Len(fronts) + 1] = out.tbls
  BY <1>1, <1>2, AppendProperties DEF TypeOK
<1>4. Len(fronts) \in Nat \ {0}
  BY EmptySeq DEF TypeOK, FrontsFollow
<1>5. out.tbls = step_of(rules, fp_step, fronts[Len(fronts)])
  BY DEF Pushed, step_of, FrontsFollow
<1>7. ASSUME NEW i \in 1 .. Len(fronts') - 1
      PROVE  fronts'[i + 1] = step_of(rules, fp_step, fronts'[i])
  <2>1. CASE i = Len(fronts)
    BY <1>3, <1>4, <1>5, <2>1
  <2>2. CASE i # Len(fronts)
    <3>1. i \in 1 .. Len(fronts) - 1 /\ i + 1 \in 1 .. Len(fronts)
      BY <1>3, <1>4, <1>7, <2>2
    <3> QED BY <1>3, <3>1 DEF FrontsFollow, chained
  <2> QED BY <2>1, <2>2
<1>8. rules' = rules /\ fp_step' = fp_step
  BY DEF Pushed, args
<1>9. chained'
  BY <1>7, <1>8 DEF chained
<1> QED BY <1>1, <1>2, <1>3, <1>4, <1>9

\* NoRevisit survives an iteration that goes on: a front that came back
\* unnoticed has its successor among the fronts too, so the step from it repeats.
LEMMA ContinueKeepsNoRevisit ==
  ASSUME IInv, NEW out, out = fwd(rules, tbls), Continue(out)
  PROVE  NoRevisit'
<1> USE DEF IInv
<1>1. pc = "loop" /\ Pushed(out) /\ ~is_repeat(out)
  BY DEF Continue, Pushed, Called
<1>2. /\ fronts' \in Seq(DB)
      /\ Len(fronts') = Len(fronts) + 1
      /\ Len(fronts) \in Nat \ {0}
      /\ \A i \in 1 .. Len(fronts) : fronts'[i] = fronts[i]
      /\ chained'
  BY <1>1, PushedFollows
<1>3. \A j \in 1 .. Len(fronts) : fronts'[j] # fronts'[Len(fronts')]
  BY <1>1, <1>2 DEF is_repeat, seen_before
<1>4. ASSUME NEW i \in 1 .. Len(fronts'), NEW j \in 1 .. Len(fronts'),
             i < j, fronts'[i] = fronts'[j]
      PROVE  FALSE
  <2>1. i \in 1 .. Len(fronts) /\ j \in 1 .. Len(fronts)
    BY <1>2, <1>3, <1>4
  <2>2. fronts[i] = fronts[j]
    BY <1>2, <1>4, <2>1
  <2>3. j = Len(fronts)
    BY <1>1, <1>4, <2>1, <2>2 DEF NoRevisit
  <2>4. i \in 1 .. Len(fronts') - 1 /\ j \in 1 .. Len(fronts') - 1
    BY <1>2, <2>1
  <2>5. fronts'[i + 1] = fronts'[j + 1]
    BY <1>2, <1>4, <2>4 DEF chained
  <2> QED BY <1>2, <1>3, <1>4, <2>1, <2>3, <2>5
<1> QED BY <1>4 DEF NoRevisit

\* An iteration of the loop keeps the inductive invariant.
LEMMA IterateKeeps ==
  ASSUME IInv, TypeOK', NEW out, out = fwd(rules, tbls), Finish(out)
  PROVE  Running' /\ FrontsFollow' /\ NoRevisit' /\ Reentry'
<1> USE DEF IInv
<1>0. pc = "loop" /\ ~halt /\ ~unsat
  BY DEF Finish, Halted, FixedPointStep, Contradiction, LimitReached, InfloopDetected,
         FixedPoint, Continue, Pushed, Called, Running
<1>1. CASE Halted(out)
  <2>1. pc' = "done" /\ UNCHANGED <<fronts, rules, fp_step>>
    BY <1>1 DEF Halted, Return, args
  <2>2. chained'
    BY <2>1 DEF FrontsFollow, chained
  <2> QED BY <2>1, <2>2 DEF FrontsFollow, NoRevisit, Running, Reentry
<1>2. CASE FixedPointStep(out)
  <2>1. /\ pc' = "enter" /\ UNCHANGED <<fronts, rules, fp_step>>
        /\ ~halt' /\ wants_fp_fact(fp_step, out)
        /\ tbls' = [out.tbls EXCEPT ![FpTable] = @ \cup {NoArgs}]
    BY <1>2 DEF FixedPointStep, args
  <2>2. chained'
    BY <2>1 DEF FrontsFollow, chained
  <2>3. tbls' = step_of(rules, fp_step, fronts[Len(fronts)])
    BY <1>0, <2>1 DEF FrontsFollow, step_of
  <2>4. FrontsFollow'
    BY <2>1, <2>2, <2>3 DEF FrontsFollow
  <2>5. ~out.changed
    BY <2>1 DEF wants_fp_fact
  <2>6. ~unsat'
    BY <1>0, <1>2, <2>5 DEF FixedPointStep, Called, fwd
  <2>7. out.tbls = tbls /\ NoArgs \notin fronts[Len(fronts)][FpTable]
    BY <1>0, <2>1, <2>5, FwdFacts DEF TypeOK, FrontsFollow, wants_fp_fact
  <2>8. \A i, j \in 1 .. Len(fronts) : i < j => fronts[i] # fronts[j]
    BY <1>0, <2>7 DEF NoRevisit
  <2>9. fp_step /\ NoArgs \in tbls'[FpTable]
    BY <2>1, FwdFacts, PfpAssumption DEF TypeOK, DB, wants_fp_fact
  <2> QED BY <2>1, <2>4, <2>6, <2>8, <2>9 DEF NoRevisit, Running, Reentry
<1>3. CASE Pushed(out) /\ pc' = "done"
  BY <1>0, <1>3, PushedFollows DEF FrontsFollow, NoRevisit, Running, Reentry
<1>4. CASE Continue(out)
  <2>1. Pushed(out) /\ pc' = "loop" /\ ~unsat' /\ ~halt'
    BY <1>0, <1>4 DEF Continue, Pushed
  <2>2. FrontsFollow'
    BY <1>0, <2>1, PushedFollows, EmptySeq DEF FrontsFollow
  <2>3. NoRevisit'
    BY <1>4, ContinueKeepsNoRevisit
  <2> QED BY <2>1, <2>2, <2>3 DEF Running, Reentry
<1> QED
  BY <1>1, <1>2, <1>3, <1>4
     DEF Finish, Contradiction, LimitReached, InfloopDetected, FixedPoint, Return

\* Entering pfp, for the first time or again with __fp__, keeps the inductive invariant.
LEMMA EnterKeeps ==
  ASSUME IInv, Enter
  PROVE  Running' /\ FrontsFollow' /\ NoRevisit' /\ Reentry'
<1> USE DEF IInv
<1>1. /\ pc = "enter" /\ pc' = "loop" /\ fronts' = Append(fronts, tbls)
      /\ UNCHANGED <<rules, fp_step, tbls, halt, unsat>>
  BY DEF Enter, args
<1>2. /\ fronts' \in Seq(DB)
      /\ Len(fronts') = Len(fronts) + 1
      /\ Len(fronts) \in Nat
      /\ \A i \in 1 .. Len(fronts) : fronts'[i] = fronts[i]
      /\ fronts'[Len(fronts')] = tbls
  BY <1>1, AppendProperties DEF TypeOK
<1>3. Running'
  BY <1>1 DEF Running
<1>4. FrontsFollow'
  <2>1. ASSUME NEW i \in 1 .. Len(fronts') - 1
        PROVE  fronts'[i + 1] = step_of(rules', fp_step', fronts'[i])
    <3>1. CASE i = Len(fronts)
      <4>1. fronts # << >>
        BY <1>2, <2>1, <3>1, EmptySeq DEF TypeOK
      <4> QED BY <1>1, <1>2, <2>1, <3>1, <4>1 DEF FrontsFollow
    <3>2. CASE i # Len(fronts)
      <4>1. i \in 1 .. Len(fronts) - 1 /\ i + 1 \in 1 .. Len(fronts)
        BY <1>2, <2>1, <3>2
      <4> QED BY <1>1, <1>2, <4>1 DEF FrontsFollow, chained
    <3> QED BY <3>1, <3>2
  <2>2. fronts' # << >>
    BY <1>2, EmptySeq
  <2> QED BY <1>1, <1>2, <2>1, <2>2 DEF FrontsFollow, chained
<1>5. NoRevisit'
  <2> SUFFICES ASSUME NEW i \in 1 .. Len(fronts'), NEW j \in 1 .. Len(fronts'),
                      i < j, fronts'[i] = fronts'[j]
               PROVE  j = Len(fronts') /\ fp_step' /\ NoArgs \in fronts'[j][FpTable]
    BY DEF NoRevisit
  <2>1. j = Len(fronts')
    BY <1>1, <1>2 DEF Reentry
  <2>2. fronts # << >>
    BY <1>2, <2>1, EmptySeq DEF TypeOK
  <2> QED BY <1>1, <1>2, <2>1, <2>2 DEF Reentry
<1> QED BY <1>1, <1>3, <1>4, <1>5 DEF Reentry

\* While pfp runs its fronts are consecutive and different, whatever the rules do.
THEOREM LoopInvariant == Spec => []IInv
<1>1. Init => IInv
  <2> SUFFICES ASSUME Init PROVE IInv
    OBVIOUS
  <2>1. TypeOK
    BY InitType
  <2>2. fronts = << >> /\ Len(fronts) = 0 /\ pc = "enter" /\ ~halt /\ ~unsat
    BY EmptySeq DEF Init
  <2> QED BY <2>1, <2>2 DEF IInv, Running, FrontsFollow, chained, NoRevisit, Reentry
<1>2. IInv /\ TypeOK' /\ [Next]_vars => IInv'
  <2> SUFFICES ASSUME IInv, TypeOK', [Next]_vars PROVE IInv'
    OBVIOUS
  <2>1. CASE Enter
    BY <2>1, EnterKeeps DEF IInv
  <2>2. CASE Iterate
    BY <2>2, IterateKeeps DEF IInv, Iterate
  <2>3. CASE UNCHANGED vars
    BY <2>3 DEF vars, IInv, TypeOK, Running, FrontsFollow, chained, NoRevisit, Reentry
  <2> QED BY <2>1, <2>2, <2>3 DEF Next, Done
<1> QED BY <1>1, <1>2, TypeCorrect, PTL DEF Spec

\* The fronts pfp compares are consecutive databases of the semantics.
THEOREM FrontsFollowAlways == Spec => []FrontsFollow
BY LoopInvariant, PTL DEF IInv

\* pfp never goes on from a database it has stepped from before.
THEOREM NoRevisitAlways == Spec => []NoRevisit
BY LoopInvariant, PTL DEF IInv
----------------------------------------------------------------------------
(* The answer. *)

\* A bounded set of numbers that is not empty has a greatest element.
LEMMA Greatest ==
  ASSUME NEW n \in Nat, NEW T \in SUBSET (1 .. n), T # {}
  PROVE  \E x \in T : \A y \in T : y <= x
<1> DEFINE U == { n - x : x \in T }
           R == { ss \in Nat \X Nat : ss[1] < ss[2] }
<1>1. U \subseteq Nat /\ U # {}
  <2>1. \A x \in T : n - x \in Nat
    OBVIOUS
  <2> QED BY <2>1
<1>2. IsWellFoundedOn(R, Nat)
  BY NatLessThanWellFounded DEF OpToRel
<1>3. \E m \in U : \A u \in U : ~(<<u, m>> \in R)
  <2> HIDE DEF U, R
  <2> QED BY <1>1, <1>2, WFMin
<1>4. PICK x \in T : \A u \in U : ~(<<u, n - x>> \in R)
  BY <1>3
<1>5. ASSUME NEW y \in T PROVE y <= x
  <2>1. n - y \in U /\ n - y \in Nat /\ n - x \in Nat
    BY <1>1
  <2>2. ~(n - y < n - x)
    BY <1>4, <2>1
  <2>3. x \in Nat /\ y \in Nat
    OBVIOUS
  <2> QED BY <2>1, <2>2, <2>3
<1> QED BY <1>4, <1>5

\* compute_fixpoint's backward search stops at the last earlier front like the newest.
LEMMA CycleStart ==
  ASSUME NEW fr \in Seq(DB), seen_before(fr)
  PROVE  is_cycle_start(fr, cycle_start(fr))
<1> DEFINE T == { j \in 1 .. Len(fr) - 1 : fr[j] = fr[Len(fr)] }
<1>1. Len(fr) \in Nat /\ T # {} /\ T \subseteq 1 .. Len(fr)
  BY LenProperties DEF seen_before
<1>2. PICK x \in T : \A y \in T : y <= x
  BY <1>1, Greatest
<1>3. is_cycle_start(fr, x)
  BY <1>1, <1>2 DEF is_cycle_start
<1> QED BY <1>2, <1>3 DEF cycle_start

\* A table has no undefined fact exactly when every front of the period agrees on it.
LEMMA Undefineds ==
  ASSUME NEW fr \in Seq(DB), seen_before(fr), NEW tab \in Table
  PROVE  undefineds(fr, tab) = {} <=>
           \A i \in cycle_start(fr) .. Len(fr) : fr[i][tab] = fr[Len(fr)][tab]
<1> DEFINE c == cycle_start(fr)
           n == Len(fr)
<1>1. /\ n \in Nat /\ c \in 1 .. n - 1 /\ fr[c] = fr[n]
  BY CycleStart, LenProperties DEF is_cycle_start
<1>2. \A i \in 1 .. n : fr[i][tab] \in SUBSET Tuple
  BY ElementOfSeq DEF DB
<1>3. \A i \in c + 1 .. n : fr[i][tab] \in cycle(fr, tab) /\ i \in 1 .. n
  BY <1>1 DEF cycle
<1>4. ASSUME undefineds(fr, tab) = {}, NEW i \in c .. n
      PROVE  fr[i][tab] = fr[n][tab]
  <2>1. CASE i = c
    BY <1>1, <2>1
  <2>2. CASE i # c
    <3>1. /\ fr[i][tab] \in cycle(fr, tab) /\ fr[n][tab] \in cycle(fr, tab)
          /\ fr[i][tab] \in SUBSET Tuple /\ fr[n][tab] \in SUBSET Tuple
      BY <1>1, <1>2, <1>3, <1>4, <2>2
    <3>2. \A x \in Tuple : x \in trues(fr, tab) \/ x \in falses(fr, tab)
      BY <1>4 DEF undefineds
    <3>3. ASSUME NEW t1 \in cycle(fr, tab), NEW t2 \in cycle(fr, tab), t2 \in SUBSET Tuple
          PROVE  t2 \subseteq t1
      BY <3>2, <3>3 DEF trues, falses
    <3>4. fr[i][tab] \subseteq fr[n][tab] /\ fr[n][tab] \subseteq fr[i][tab]
      BY <3>1, <3>3
    <3> QED BY <3>4
  <2> QED BY <2>1, <2>2
<1>5. ASSUME \A i \in c .. n : fr[i][tab] = fr[n][tab]
      PROVE  undefineds(fr, tab) = {}
  <2>1. cycle(fr, tab) = { fr[n][tab] }
    BY <1>1, <1>5 DEF cycle
  <2> QED BY <2>1 DEF undefineds, trues, falses
<1> QED BY <1>4, <1>5

\* The period that compute_fixpoint finds in the pushed fronts is a lap of the semantics.
LEMMA LapFound ==
  ASSUME IInv, pc = "loop", NEW out, out = fwd(rules, tbls), Pushed(out), is_repeat(out)
  PROVE  /\ seen_before(fronts') /\ fronts' \in Seq(DB)
         /\ lap(cycle_start(fronts))'
         /\ tbls' = fronts'[Len(fronts')]
         /\ cycle_start(fronts') \in 1 .. Len(fronts')
         /\ Len(fronts') \in Nat
<1> USE DEF IInv
<1>1. /\ chained' /\ fronts' \in Seq(DB)
      /\ Len(fronts') = Len(fronts) + 1
      /\ Len(fronts) \in Nat \ {0}
      /\ \A i \in 1 .. Len(fronts) : fronts'[i] = fronts[i]
      /\ fronts'[Len(fronts')] = out.tbls
      /\ tbls' = out.tbls
  BY PushedFollows
<1>2. seen_before(fronts')
  <2>1. CASE ~out.changed
    <3>1. out.tbls = fronts[Len(fronts)]
      BY <2>1, FwdFacts DEF TypeOK, FrontsFollow
    <3> QED BY <1>1, <3>1 DEF seen_before
  <2>2. CASE out.changed
    BY <2>2 DEF is_repeat
  <2> QED BY <2>1, <2>2
<1>3. is_cycle_start(fronts', cycle_start(fronts'))
  BY <1>1, <1>2, CycleStart
<1>4. lap(cycle_start(fronts))'
  BY <1>1, <1>3 DEF lap, chained, is_cycle_start
<1> QED BY <1>1, <1>2, <1>3, <1>4 DEF is_cycle_start

Answer == FixedPointIsReal /\ InfloopIsReal

\* The answer yes is justified by the period the fronts end with.
LEMMA FixedPointAnswer ==
  ASSUME IInv, NEW out, out = fwd(rules, tbls), FixedPoint(out)
  PROVE  Answer'
<1>1. /\ pc = "loop" /\ Pushed(out) /\ is_repeat(out) /\ ~is_infloop(fronts')
      /\ pc' = "done" /\ result'
  BY DEF FixedPoint, Pushed, Called, Return
<1>2. /\ seen_before(fronts') /\ fronts' \in Seq(DB)
      /\ lap(cycle_start(fronts))'
      /\ tbls' = fronts'[Len(fronts')]
      /\ cycle_start(fronts') \in 1 .. Len(fronts')
  BY <1>1, LapFound
<1>3. \A tab \in Table \ Hidden : undefineds(fronts', tab) = {}
  BY <1>1, <1>2 DEF is_infloop
<1>4. \A i \in cycle_start(fronts') .. Len(fronts'), tab \in Table \ Hidden :
        fronts'[i][tab] = tbls'[tab]
  BY <1>2, <1>3, Undefineds
<1> QED BY <1>1, <1>2, <1>4 DEF Answer, FixedPointIsReal, InfloopIsReal

\* The report of an infinite loop is justified by the period the fronts end with.
LEMMA InfloopAnswer ==
  ASSUME IInv, NEW out, out = fwd(rules, tbls), InfloopDetected(out)
  PROVE  Answer'
<1>1. /\ pc = "loop" /\ Pushed(out) /\ is_repeat(out) /\ is_infloop(fronts')
      /\ pc' = "done" /\ ~result' /\ error'
  BY DEF InfloopDetected, Pushed, Called, Return
<1>2. /\ seen_before(fronts') /\ fronts' \in Seq(DB)
      /\ lap(cycle_start(fronts))'
      /\ tbls' = fronts'[Len(fronts')]
      /\ cycle_start(fronts') \in 1 .. Len(fronts')
  BY <1>1, LapFound
<1>3. PICK tab \in Table \ Hidden : undefineds(fronts', tab) # {}
  BY <1>1 DEF is_infloop
<1>4. \E i \in cycle_start(fronts') .. Len(fronts') : fronts'[i][tab] # tbls'[tab]
  BY <1>2, <1>3, Undefineds
<1> QED BY <1>1, <1>2, <1>3, <1>4 DEF Answer, FixedPointIsReal, InfloopIsReal

\* Whatever an iteration ends with, the answer it gives is right.
LEMMA FinishAnswer ==
  ASSUME IInv, Answer, NEW out, out = fwd(rules, tbls), Finish(out)
  PROVE  Answer'
<1>1. CASE Halted(out)
  BY <1>1 DEF Halted, Return, Answer, FixedPointIsReal, InfloopIsReal
<1>2. CASE FixedPointStep(out)
  BY <1>2 DEF FixedPointStep, Answer, FixedPointIsReal, InfloopIsReal
<1>3. CASE Contradiction(out)
  BY <1>3 DEF Contradiction, Return, Answer, FixedPointIsReal, InfloopIsReal
<1>4. CASE LimitReached(out)
  BY <1>4 DEF LimitReached, Pushed, Return, at_limit, Answer, FixedPointIsReal, InfloopIsReal,
              limited
<1>5. CASE InfloopDetected(out)
  BY <1>5, InfloopAnswer
<1>6. CASE FixedPoint(out)
  BY <1>6, FixedPointAnswer
<1>7. CASE Continue(out)
  BY <1>7 DEF Continue, Pushed, Called, Answer, FixedPointIsReal, InfloopIsReal
<1> QED BY <1>1, <1>2, <1>3, <1>4, <1>5, <1>6, <1>7 DEF Finish

\* Both answers of pfp are right in every reachable state.
LEMMA AnswerAlways == Spec => []Answer
<1>1. Init => Answer
  BY DEF Init, Answer, FixedPointIsReal, InfloopIsReal
<1>2. IInv /\ Answer /\ [Next]_vars => Answer'
  <2> SUFFICES ASSUME IInv, Answer, [Next]_vars PROVE Answer'
    OBVIOUS
  <2>1. CASE Enter
    BY <2>1 DEF Enter, Answer, FixedPointIsReal, InfloopIsReal
  <2>2. CASE Iterate
    BY <2>2, FinishAnswer DEF Iterate
  <2>3. CASE UNCHANGED vars
    BY <2>3 DEF vars, Answer, FixedPointIsReal, InfloopIsReal, lap, limited
  <2> QED BY <2>1, <2>2, <2>3 DEF Next, Done
<1> QED BY <1>1, <1>2, LoopInvariant, PTL DEF Spec

\* When pfp answers yes and was not halted, the database recurs and what is shown of it
\* never changes again.
THEOREM FixedPointIsRealAlways == Spec => []FixedPointIsReal
BY AnswerAlways, PTL DEF Answer

\* When pfp reports an infinite loop, something that is shown changes for ever.
THEOREM InfloopIsRealAlways == Spec => []InfloopIsReal
BY AnswerAlways, PTL DEF Answer
----------------------------------------------------------------------------
(* Step limits. *)

BelowLimit ==
  ~fp_step => \A lim \in {nsteps, break_on_step} :
                lim # 0 => nstep <= lim /\ (pc # "done" => nstep < lim)

\* Without __fp__ steps a run never goes past the limit it was given.
THEOREM LimitHonouredAlways == Spec => []LimitHonoured
<1>1. Init => BelowLimit
  BY PfpAssumption DEF Init, BelowLimit
<1>2. TypeOK /\ BelowLimit /\ [Next]_vars => BelowLimit'
  <2> SUFFICES ASSUME TypeOK, BelowLimit, [Next]_vars PROVE BelowLimit'
    OBVIOUS
  <2>1. CASE Enter
    BY <2>1 DEF Enter, BelowLimit, args
  <2>2. ASSUME NEW out, Finish(out)
        PROVE  BelowLimit'
    <3>1. /\ pc = "loop" /\ nstep' = nstep + 1 /\ fp_step' = fp_step
      BY <2>2 DEF Finish, Halted, FixedPointStep, Contradiction, LimitReached, InfloopDetected,
                  FixedPoint, Continue, Pushed, Called, args
    <3>2. CASE FixedPointStep(out)
      BY <3>1, <3>2 DEF FixedPointStep, wants_fp_fact, BelowLimit
    <3>3. (nsteps' = nsteps /\ break_on_step' = break_on_step) \/ FixedPointStep(out)
      BY <2>2 DEF Finish, Halted, Contradiction, LimitReached, InfloopDetected,
                  FixedPoint, Continue, Pushed
    <3>4. CASE nsteps' = nsteps /\ break_on_step' = break_on_step /\ pc' = "done"
      BY <3>1, <3>4 DEF TypeOK, BelowLimit
    <3>5. CASE nsteps' = nsteps /\ break_on_step' = break_on_step /\ Continue(out)
      BY <3>1, <3>5 DEF TypeOK, BelowLimit, Continue, at_limit
    <3> QED BY <2>2, <3>2, <3>3, <3>4, <3>5
               DEF Finish, Halted, Contradiction, LimitReached, InfloopDetected, FixedPoint, Return
  <2>3. CASE UNCHANGED vars
    BY <2>3 DEF vars, BelowLimit
  <2> QED BY <2>1, <2>2, <2>3 DEF Next, Iterate, Done
<1>3. BelowLimit => LimitHonoured
  BY DEF BelowLimit, LimitHonoured
<1> QED BY <1>1, <1>2, <1>3, TypeCorrect, PTL DEF Spec
=============================================================================
