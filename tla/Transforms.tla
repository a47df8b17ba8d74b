----------------------------- MODULE Transforms -----------------------------
(***************************************************************************)
(* What becomes of a program between reading and running it                *)
(* (driver::transform_handler, transform): the safety check and, one after *)
(* the other, the transformations that are asked for.  The program they    *)
(* leave is then run beside the one that was read.                         *)
(*                                                                         *)
(* A job is a program and the options it is run with.  Its facts are given *)
(* when it is loaded; its Fact rules say which relations have any and,     *)
(* after the transformations, under which names they are stored.  A job    *)
(* with --guards has nested programs instead, with facts of their own.     *)
(***************************************************************************)
EXTENDS Safety, Containment, Stepping, Guards

CONSTANTS
  Jobs,       \* records of rules r, options opts, the number iterate and nested prog
  Universe,   \* the values of the program
  Outside,    \* a value that occurs nowhere
  Contents,   \* the databases a job may start with
  MaxRounds   \* rounds of the transformed program that are followed

VARIABLES
  job,        \* the program as read, with its options
  rp,         \* the program as it is now
  reported,   \* whether the safety check has complained
  pc,         \* the transformation that comes next, or what the run is at
  was,        \* the database of the program as read
  now,        \* the database of the transformed program
  rounds,     \* rounds finished
  ticks       \* evaluations since the last round was finished

vars == <<job, rp, reported, pc, was, now, rounds, ticks>>

StepOptions == {"cqnc-subsume", "cqc-subsume", "cqc-factor", "to-dnf"}
asked(o)    == o \in job.opts

Init == /\ job \in Jobs
        /\ rp = Prog(job.r, {})
        /\ reported = FALSE
        /\ pc = "safecheck"
        /\ was = {} /\ now = {} /\ rounds = 0 /\ ticks = 0
----------------------------------------------------------------------------
(* The transformations, on the rules or on all of the program. *)

Turn(at, next, prog) == pc = at /\ pc' = next /\ rp' = prog /\ UNCHANGED <<job, reported, was, now, rounds, ticks>>

rules_of(r)      == SelectSeq(r, LAMBDA rr : ~is_fact(rr))
apart(f(_), r)   == f(rules_of(r)) \o SelectSeq(r, is_fact)
export           == [rp EXCEPT !.r = export_outer_quantifiers(@)]

\* the complaint is printed, and that is all: the program is run anyway
SafeCheck == /\ pc = "safecheck"
             /\ reported' = (asked("safecheck") /\ ~is_safe(rp.r))
             /\ pc' = "iterate"
             /\ UNCHANGED <<job, rp, was, now, rounds, ticks>>

Iterate ==
  Turn("iterate", "step", IF job.iterate > 0 THEN iterated(export, job.iterate) ELSE rp)
NoStep == job.opts \cap StepOptions = {} /\ Turn("step", "guards", rp)
StepTransform == job.opts \cap StepOptions # {} /\ Turn("step", "dnf", aliased(export))
ToDnf == Turn("dnf", "cqnc", split_heads(to_dnf_prog(rp)))

Subsume(test, option, next) ==
  Turn(test, next,
       IF asked(option)
       THEN [rp EXCEPT !.r = apart(LAMBDA r : subsume_queries(test, r), @)] ELSE rp)
SubsumeCqnc == Subsume("cqnc", "cqnc-subsume", "cqc")
SubsumeCqc  == Subsume("cqc", "cqc-subsume", "factor")
Factor      == Turn("factor", "sequence",
                    IF asked("cqc-factor") THEN [rp EXCEPT !.r = apart(factor_rules, @)] ELSE rp)
Sequence    == Turn("sequence", "strip", sequenced(rp))
Strip       == Turn("strip", "guards", eliminate_dead_variables(rp))

\* the break of each while finds in a program that is gone what it finds there
np == read_prog(job.prog)
Guard  == \E found \in [whiles(np) -> SUBSET {"add", "del", "rule"}] :
            Turn("guards", "load",
                 IF asked("guards") THEN [rp EXCEPT !.r = transform_guards(np, found)] ELSE rp)
----------------------------------------------------------------------------
(* The run.  A round of the transformed program lasts until its clock, and *)
(* the tick of --iterate, are back where they were; the program as read    *)
(* makes `pace` steps meanwhile.                                           *)

rules(r)   == Range(r) \ facts_of(Range(r))
read_rules == rules(job.r)
shown(db)  == { f \in db : f[1][1] = "rel" }

stored(f, name) == <<name, f[2]>>
loaded(content) ==
  UNION { LET name == rr.h[1].rel
          IN  IF name[1] \in {"stage", "fp"} THEN {<<name, <<>>>>}
              ELSE { stored(f, name) : f \in { x \in content : x[1] = original(name) } } :
            rr \in facts_of(Range(rp.r)) }

clocked == <<clock(0).rel, 0>> \in infos(heads(Range(rp.r)))
around(db) == /\ clocked => <<clock(1).rel, <<>>>> \in db
              /\ <<tick.rel, <<>>>> \notin db
pace == IF job.iterate = 0 THEN 1 ELSE 2 ^ (job.iterate - 1)

Load == /\ pc = "load"
        /\ \E content \in IF asked("guards") THEN {{}} ELSE Contents :
             /\ was' = IF asked("guards") THEN executed(np, NoTree, content, Universe) ELSE content
             /\ now' = loaded(content)
        /\ pc' = IF asked("guards") THEN "guarded" ELSE "run"
        /\ rounds' = IF clocked THEN 0 ELSE 1
        /\ UNCHANGED <<job, rp, reported, ticks>>

RECURSIVE read_contradicts(_, _), read_db(_, _)
read_db(db, n) == IF n = 0 THEN db ELSE read_db(step(read_rules, db, Universe), n - 1)
read_contradicts(db, n) ==
  n > 0 /\ (contradicts(read_rules, db, Universe) \/
            read_contradicts(step(read_rules, db, Universe), n - 1))

\* the program as read makes its steps when the round is over; in the first
\* round of a clocked program the facts are only put into place
due == IF around(now') /\ rounds > 0 THEN pace ELSE 0

Tick == /\ pc = "run" /\ rounds <= MaxRounds
        /\ ~contradicts(rules(rp.r), now, Universe)
        /\ now' = step(rules(rp.r), now, Universe)
        /\ was' = read_db(was, due)
        /\ pc' = IF read_contradicts(was, due) THEN "halt" ELSE "run"
        /\ rounds' = IF around(now') THEN rounds + 1 ELSE rounds
        /\ ticks' = IF around(now') THEN 0 ELSE ticks + 1
        /\ UNCHANGED <<job, rp, reported>>

\* a contradiction of the transformed program
Halt == /\ pc = "run" /\ contradicts(rules(rp.r), now, Universe)
        /\ pc' = IF read_contradicts(was, pace) THEN "halt" ELSE "unsat"
        /\ UNCHANGED <<job, rp, reported, was, now, rounds, ticks>>

\* The program with guards is run by pfp, which adds __fp__ at a fixed point
\* and goes on (--guards enables --fp-step).
GuardedTick == /\ pc = "guarded" /\ ~contradicts(rules(rp.r), now, Universe)
               /\ LET new == step(rules(rp.r), now, Universe)
                      fp  == <<fp_fact.rel, <<>>>>
                  IN  /\ now' = IF new = now THEN new \cup {fp} ELSE new
                      /\ pc' = IF new = now /\ fp \in now THEN "ended" ELSE pc
               /\ UNCHANGED <<job, rp, reported, was, rounds, ticks>>

GuardedUnsat == /\ pc = "guarded" /\ contradicts(rules(rp.r), now, Universe)
                /\ pc' = "unsat"
                /\ UNCHANGED <<job, rp, reported, was, now, rounds, ticks>>

Ended == \/ pc = "run" /\ rounds > MaxRounds
         \/ pc \in {"halt", "unsat", "ended"}
Idle  == Ended /\ UNCHANGED vars

Next == \/ SafeCheck \/ Iterate \/ NoStep \/ StepTransform \/ ToDnf
        \/ SubsumeCqnc \/ SubsumeCqc \/ Factor \/ Sequence \/ Strip \/ Guard
        \/ Load \/ Tick \/ Halt \/ GuardedTick \/ GuardedUnsat \/ Idle

Spec == Init /\ [][Next]_vars
----------------------------------------------------------------------------
(* What it should come to. *)

\* What the safety check lets pass has the same answers in a larger universe, a
\* deletion as far as there is something to delete (is_safe looks at the first
\* head of a rule only).
SafeAnswersFinite ==
  pc = "iterate" /\ asked("safecheck") /\ ~reported =>
    \A rr \in read_rules, content \in Contents :
      LET seen(U) == IF rr.h[1].neg THEN answers(rr, rr.h[1], content, U) \cap content
                     ELSE answers(rr, rr.h[1], content, U)
      IN  seen(Universe) = seen(Universe \cup {Outside})

\* At the end of a round the relations of the program are what its steps would
\* have made them, however its rules were taken apart, merged and clocked
\* (step_transform, to_dnf, subsume_queries, eliminate_dead_variables), and a
\* contradiction is one of the program as read.  With --iterate a round is worth
\* 2^(iterate - 1) of the steps (pdatalog_transform, square_program).
faithful     == /\ pc = "run" /\ around(now) /\ rounds > 0 => shown(now) = was
                /\ pc = "unsat" => asked("guards")
RoundIsAStep == faithful

\* "the results of a program obtained by applying these optimizations to
\* another should be indistinguishable from those of the original" (README.md,
\* of the subsumptions and of the factorization)
OptimizedIndistinguishable == faithful

\* The rules step_transform makes for its clock hand one state to the next and
\* come round: a round is over when each state had its turn, twice where a tick
\* of --iterate goes round with it, and no two states are ever on at once.
clock_states == { info[1] : info \in { i \in infos(heads(Range(rp.r))) : i[1][1] = "clock" } }
ClockComesRound ==
  pc = "run" =>
    /\ ticks <= 2 + Cardinality(clock_states) * (IF job.iterate > 0 THEN 2 ELSE 1)
    /\ rounds > 0 => Cardinality({ c \in clock_states : <<c, <<>>>> \in now }) = (IF clocked THEN 1 ELSE 0)

\* The program with guards leaves what its nested programs come to when they
\* are run one after the other, branches where their condition was decided, and
\* control is in one state of one program at a time; it ends in a contradiction
\* only if one of them does (transform_guards).  (Of programs with nothing after
\* an if in the same program, and with whiles in braces whose condition holds at
\* first: the code does not keep the sequence of others.)
in_control == { f \in now : Len(f[1]) = 2 /\ f[1][1] \in Range(states) }
GuardsKeepSequence ==
  /\ pc = "guarded" => Cardinality(in_control) <= 1
  /\ pc = "ended" => shown(now) = was /\ in_control = {}
  /\ asked("guards") /\ pc = "unsat" => unsat \in was
=============================================================================
