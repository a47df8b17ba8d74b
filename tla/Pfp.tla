-------------------------------- MODULE Pfp --------------------------------
(***************************************************************************)
(* tables::pfp: the partial-fixed-point loop.  It applies fwd to the       *)
(* database until a database comes back, a rule set contradicts itself, a  *)
(* builtin halts it or a step limit is met, and then decides from the      *)
(* databases it has seen (`fronts`) what the program's answer is.          *)
(*                                                                         *)
(* With opts.fp_step, a fixed point without the fact __fp__ is not the     *)
(* end: the fact is added and pfp calls itself.                            *)
(***************************************************************************)
EXTENDS TmlRules, Sequences

CONSTANTS
  Hidden,    \* the tables that are not shown (names of the form __x__)
  FpTable,   \* the table of __fp__
  Programs,  \* the sets of rules a run may start with
  EDBs,      \* the databases a run may start with
  Limits     \* the step limits a run may be given; 0 is none

ASSUME PfpAssumption ==
  /\ Hidden \subseteq Table
  /\ FpTable \in Hidden
  /\ FpTable \notin Builtin
  /\ Programs \subseteq SUBSET Rule
  /\ EDBs \subseteq DB
  /\ Limits \subseteq Nat

VARIABLES
  rules,          \* the program's rules
  fp_step,        \* opts.fp_step
  tbls,           \* the database
  fronts,         \* the databases seen, oldest first
  nstep,          \* steps done
  nsteps,         \* argument: stop when nstep reaches it
  break_on_step,  \* argument: stop when nstep reaches it
  halt, unsat, error,
  pc,             \* "enter" pfp, in its "loop", or "done"
  result          \* what pfp returned

args == <<rules, fp_step>>
vars == <<rules, fp_step, tbls, fronts, nstep, nsteps, break_on_step,
          halt, unsat, error, pc, result>>

TypeOK ==
  /\ rules \in SUBSET Rule
  /\ fp_step \in BOOLEAN
  /\ tbls \in DB
  /\ fronts \in Seq(DB)
  /\ nstep \in Nat
  /\ nsteps \in Nat
  /\ break_on_step \in Nat
  /\ halt \in BOOLEAN /\ unsat \in BOOLEAN /\ error \in BOOLEAN
  /\ pc \in {"enter", "loop", "done"}
  /\ result \in BOOLEAN
----------------------------------------------------------------------------
(* Reading the answer off the fronts. *)

\* mutant: only an unchanged database is a repetition
seen_before_last_only(fr) == Len(fr) > 1 /\ fr[Len(fr) - 1] = fr[Len(fr)]

\* std::find over all fronts but the newest
seen_before(fr) == \E j \in 1 .. Len(fr) - 1 : fr[j] = fr[Len(fr)]

\* the last earlier front equal to the newest one: the fronts after it are a period
is_cycle_start(fr, j) ==
  /\ j \in 1 .. Len(fr) - 1
  /\ fr[j] = fr[Len(fr)]
  /\ \A i \in j + 1 .. Len(fr) - 1 : fr[i] # fr[Len(fr)]

cycle_start(fr) == CHOOSE j \in 1 .. Len(fr) - 1 : is_cycle_start(fr, j)

\* mutants: the period read without its first front, and from the first front
\* of the run
cycle_off_by_one(fr, tab) == { fr[i][tab] : i \in cycle_start(fr) + 2 .. Len(fr) }
cycle_from_start(fr, tab) == { fr[i][tab] : i \in 1 .. Len(fr) }

\* what a table holds in each front of the period
cycle(fr, tab) == { fr[i][tab] : i \in cycle_start(fr) + 1 .. Len(fr) }

trues(fr, tab)  == { x \in Tuple : \A t \in cycle(fr, tab) : x \in t }
falses(fr, tab) == Tuple \ UNION cycle(fr, tab)

\* facts that hold in some fronts of the period and not in others
undefineds(fr, tab) == Tuple \ (trues(fr, tab) \cup falses(fr, tab))

is_infloop(fr) ==
  /\ seen_before(fr)
  /\ \E tab \in Table \ Hidden : undefineds(fr, tab) # {}
----------------------------------------------------------------------------
Init ==
  /\ rules \in Programs
  /\ fp_step \in BOOLEAN
  /\ tbls \in EDBs
  /\ fronts = << >>
  /\ nstep = 0
  /\ nsteps \in Limits
  /\ break_on_step \in Limits
  /\ halt = FALSE /\ unsat = FALSE /\ error = FALSE
  /\ pc = "enter"
  /\ result = FALSE

\* pfp up to its loop
Enter ==
  /\ pc = "enter"
  /\ error' = FALSE
  /\ fronts' = Append(fronts, tbls)
  /\ pc' = "loop"
  /\ UNCHANGED <<args, tbls, nstep, nsteps, break_on_step, halt, unsat, result>>

\* The flags and the counter after the call of fwd that returned `out`.  A
\* program without deletions skips a rule whose bodies gave what they gave at
\* its last evaluation, so its `error` builtin need not run again.
Called(out) ==
  /\ pc = "loop"
  /\ nstep' = nstep + 1
  /\ halt' = (halt \/ out.halt)
  /\ unsat' = (unsat \/ out.unsat)

raise(out) ==
  IF ~out.raised THEN {error}
  ELSE IF datalog(rules) THEN {TRUE, error} ELSE {TRUE}

Return(r) == pc' = "done" /\ result' = r

Halted(out) ==
  /\ Called(out)
  /\ halt'
  /\ tbls' = out.tbls
  /\ error' \in raise(out)
  /\ Return(TRUE)
  /\ UNCHANGED <<args, fronts, nsteps, break_on_step>>

wants_fp_fact(fs, out) ==
  ~out.changed /\ fs /\ NoArgs \notin out.tbls[FpTable]

\* mutants: the call passes what is left of the limits, which nstep, that goes
\* on counting, may have passed; and the front is pushed
\* before the fact is added
FixedPointStep_rest(out) ==
  /\ Called(out)
  /\ ~halt' /\ wants_fp_fact(fp_step, out)
  /\ tbls' = [out.tbls EXCEPT ![FpTable] = @ \cup {NoArgs}]
  /\ error' \in raise(out)
  /\ nsteps' = nsteps - nstep' /\ break_on_step' = 0
  /\ pc' = "enter"
  /\ UNCHANGED <<args, fronts, result>>

FixedPointStep_push(out) ==
  /\ Called(out)
  /\ ~halt' /\ wants_fp_fact(fp_step, out)
  /\ tbls' = [out.tbls EXCEPT ![FpTable] = @ \cup {NoArgs}]
  /\ fronts' = Append(fronts, out.tbls)
  /\ error' \in raise(out)
  /\ nsteps' = 0 /\ break_on_step' = 0
  /\ pc' = "enter"
  /\ UNCHANGED <<args, result>>

\* add_fixed_point_fact, then pfp(): the call passes no limit on
FixedPointStep(out) ==
  /\ Called(out)
  /\ ~halt' /\ wants_fp_fact(fp_step, out)
  /\ tbls' = [out.tbls EXCEPT ![FpTable] = @ \cup {NoArgs}]
  /\ error' \in raise(out)
  /\ nsteps' = 0 /\ break_on_step' = 0
  /\ pc' = "enter"
  /\ UNCHANGED <<args, fronts, result>>

\* mutant: the fronts fill a buffer nobody empties
Pushed_full(out) ==
  /\ Called(out)
  /\ Len(fronts) < 3
  /\ ~halt' /\ ~wants_fp_fact(fp_step, out)
  /\ tbls' = out.tbls
  /\ fronts' = Append(fronts, out.tbls)
  /\ UNCHANGED <<args, nsteps, break_on_step>>

Pushed(out) ==
  /\ Called(out)
  /\ ~halt' /\ ~wants_fp_fact(fp_step, out)
  /\ tbls' = out.tbls
  /\ fronts' = Append(fronts, out.tbls)
  /\ UNCHANGED <<args, nsteps, break_on_step>>

\* mutants: the limit is compared with the counter before this step
at_limit_late == (break_on_step # 0 /\ nstep = break_on_step) \/ (nsteps # 0 /\ nstep = nsteps)

at_limit == (break_on_step # 0 /\ nstep' = break_on_step) \/ (nsteps # 0 /\ nstep' = nsteps)

is_repeat(out) == ~out.changed \/ seen_before(fronts')

Contradiction(out) ==
  /\ Pushed(out)
  /\ unsat'
  /\ error' = TRUE
  /\ Return(FALSE)

LimitReached(out) ==
  /\ Pushed(out)
  /\ ~unsat' /\ at_limit
  /\ error' \in raise(out)
  /\ Return(FALSE)

InfloopDetected(out) ==
  /\ Pushed(out)
  /\ ~unsat' /\ ~at_limit /\ is_repeat(out) /\ is_infloop(fronts')
  /\ error' = TRUE
  /\ Return(FALSE)

FixedPoint(out) ==
  /\ Pushed(out)
  /\ ~unsat' /\ ~at_limit /\ is_repeat(out) /\ ~is_infloop(fronts')
  /\ error' \in raise(out)
  /\ Return(TRUE)

Continue(out) ==
  /\ Pushed(out)
  /\ ~unsat' /\ ~at_limit /\ ~is_repeat(out)
  /\ error' \in raise(out)
  /\ UNCHANGED <<pc, result>>

\* the rest of an iteration once fwd has returned
Finish(out) ==
  \/ Halted(out)
  \/ FixedPointStep(out)
  \/ Contradiction(out)
  \/ LimitReached(out)
  \/ InfloopDetected(out)
  \/ FixedPoint(out)
  \/ Continue(out)

\* one iteration of the loop
Iterate == pc = "loop" /\ \E out \in {fwd(rules, tbls)} : Finish(out)

Done == pc = "done" /\ UNCHANGED vars

Next == Enter \/ Iterate \/ Done

Spec == Init /\ [][Next]_vars

\* the loop is sequential code: while pfp has not returned, it takes its next step
FairSpec == Spec /\ WF_vars(Enter \/ Iterate)
----------------------------------------------------------------------------
(* Properties. *)

\* the database after one step of the semantics: fwd, or __fp__ at a fixed point
step_of(rs, fs, db) ==
  LET out == fwd(rs, db)
  IN  IF wants_fp_fact(fs, out)
      THEN [out.tbls EXCEPT ![FpTable] = @ \cup {NoArgs}]
      ELSE out.tbls

\* the fronts are consecutive databases of the semantics
chained == \A i \in 1 .. Len(fronts) - 1 : fronts[i + 1] = step_of(rules, fp_step, fronts[i])

\* fronts[j] .. fronts[Len(fronts)] is one lap of a period of the semantics
lap(j) ==
  /\ j \in 1 .. Len(fronts) - 1
  /\ fronts[j] = fronts[Len(fronts)]
  /\ \A i \in j .. Len(fronts) - 1 : fronts[i + 1] = step_of(rules, fp_step, fronts[i])

limited == nstep \in {nsteps, break_on_step}

\* The fronts are consecutive databases of the semantics and, while pfp runs,
\* the database in hand is the newest or follows from it: neither the call of
\* pfp by itself nor an early return loses or repeats one.
FrontsFollow ==
  /\ chained
  /\ pc = "loop" => fronts # << >> /\ tbls = fronts[Len(fronts)]
  /\ pc = "enter" /\ fronts # << >> => tbls = step_of(rules, fp_step, fronts[Len(fronts)])

\* pfp goes on only from a database it has not stepped from before; the one
\* that may come back unnoticed is the one add_fixed_point_fact makes, and it
\* is the newest.
NoRevisit ==
  pc = "loop" =>
    \A i, j \in 1 .. Len(fronts) :
      i < j /\ fronts[i] = fronts[j] =>
        /\ j = Len(fronts)
        /\ fp_step
        /\ NoArgs \in fronts[j][FpTable]

\* When pfp answers yes and was not halted, the database it leaves recurs under
\* the semantics and every table that is shown keeps its contents for ever:
\* only hidden tables may still alternate.
FixedPointIsReal ==
  pc = "done" /\ result /\ ~halt =>
    /\ tbls = fronts[Len(fronts)]
    /\ \E j \in 1 .. Len(fronts) : lap(j) /\
         \A i \in j .. Len(fronts), tab \in Table \ Hidden : fronts[i][tab] = tbls[tab]

\* When pfp reports an infinite loop, a table that is shown really changes and
\* comes back for ever.
InfloopIsReal ==
  pc = "done" /\ ~result /\ ~unsat /\ ~limited =>
    /\ error
    /\ \E j \in 1 .. Len(fronts) : lap(j) /\
         \E i \in j .. Len(fronts), tab \in Table \ Hidden : fronts[i][tab] # tbls[tab]

\* A run that was given a limit never goes past it, unless it met a fixed point
\* and went on from there with __fp__.
LimitHonoured ==
  ~fp_step => \A lim \in {nsteps, break_on_step} : lim # 0 => nstep <= lim

\* pfp comes to an end whatever the rules do.
Terminates == <>(pc = "done")
=============================================================================
