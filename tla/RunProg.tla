------------------------------ MODULE RunProg ------------------------------
(***************************************************************************)
(* tables::run_prog and its callers driver::run and repl::run: a program   *)
(* puts its facts into the tables, runs its rules to an answer (the loop   *)
(* of Pfp), cleans up after its grammar, and then runs the programs nested *)
(* in it one after the other, each on what the one before left.            *)
(*                                                                         *)
(* The frames of run_prog's recursion are a stack.  The variables of Pfp   *)
(* are the members of the one `tables` object all the programs share.      *)
(***************************************************************************)
EXTENDS Pfp

CONSTANTS
  Source,     \* the programs, by name
  Roots,      \* the programs a run may be given
  SizeMod,    \* size_t counts modulo this
  MaxRuns     \* how often the user says run

Prog == DOMAIN Source

\* What transform_grammar leaves to be done for a null production x: ~x(?a ?a) :- x(?a ?a).
NullCleanUp == { r \in Rule : r.neg /\ \A al \in r.alts : \A b \in al.bodies : ~b.neg }

\* A program has the facts of some tables, the tuples its negated facts delete,
\* builtins stated as facts, rules, the deletions that clean up after its null
\* productions, and its nested programs in order.
ASSUME RunProgAssumption ==
  /\ \A p \in Prog :
       /\ DOMAIN Source[p].facts \subseteq Table \ Builtin
       /\ \A t \in DOMAIN Source[p].facts : Source[p].facts[t] \subseteq Tuple
       /\ Source[p].dels \in DB
       /\ Source[p].builtins \subseteq Builtin
       /\ Source[p].rules \subseteq Rule
       /\ Source[p].after \subseteq NullCleanUp
       /\ Source[p].nps \in Seq(Prog)
  /\ Roots \subseteq Prog
  /\ SizeMod \in Nat \ {0}
  /\ \A n \in Limits : n < SizeMod
  /\ MaxRuns \in Nat

VARIABLES
  root,       \* the user's program
  stack,      \* the frames of run_prog, the running one last
  start0,     \* nstep when the user said run
  steps0,     \* the steps the user asked for
  brk,        \* the argument break_on_step, handed down unchanged
  at,         \* where the running frame is
  ret,        \* its r
  after_fp,   \* prog_after_fp: deletions to do after the fixed point
  runs,       \* runs so far
  cleaned     \* (history) a clean-up ran since the user said run

run      == <<root, start0, steps0, brk, runs>>
progVars == <<root, stack, start0, steps0, brk, at, ret, after_fp, runs, cleaned>>
allVars  == <<vars, progVars>>

top   == stack[Len(stack)]
below == SubSeq(stack, 1, Len(stack) - 1)

source == Source[top.prog]
nps(f) == Source[f.prog].nps

\* mutants: no wrap; the distance; what went is not taken off
minus_signed(x, y) == x - y
minus_abs(x, y) == IF x < y THEN y - x ELSE x - y
minus_nothing(x, y) == x

minus(x, y) == (x + SizeMod - (y % SizeMod)) % SizeMod

RunTypeOK ==
  /\ \A i \in 1 .. Len(stack) :
       /\ stack[i].prog \in Prog
       /\ stack[i].steps \in 0 .. SizeMod - 1
       /\ stack[i].begstep \in 0 .. nstep
       /\ stack[i].next \in 1 .. Len(nps(stack[i])) + 1
  /\ at \in {"load", "pfp", "answer", "after", "nested", "return", "idle"}
  /\ at # "idle" <=> stack # << >>
  /\ tbls \in DB
----------------------------------------------------------------------------
(* driver::run, called once by main and by each run command of the repl *)

frame(p, n) == [prog |-> p, steps |-> n, begstep |-> nstep, next |-> 1]

RunInit ==
  /\ rules = {} /\ fp_step \in BOOLEAN
  /\ tbls = [t \in Table |-> {}]
  /\ fronts = << >> /\ nstep = 0 /\ nsteps = 0 /\ break_on_step = 0
  /\ halt = FALSE /\ unsat = FALSE /\ error = FALSE
  /\ pc = "done" /\ result = FALSE
  /\ root \in Roots /\ start0 = 0
  /\ steps0 \in Limits /\ brk \in Limits
  /\ stack = <<frame(root, steps0)>>
  /\ at = "load" /\ ret = FALSE /\ after_fp = {} /\ runs = 1 /\ cleaned = FALSE

\* `if (!fin) fin = d->run(steps, break_on_step)`: the same program again, on
\* the tables as they are, whatever the run before it came to (eval_input sets
\* fin back after every command)
RunAgain ==
  /\ at = "idle" /\ runs < MaxRuns
  /\ runs' = runs + 1 /\ start0' = nstep
  /\ steps0' \in Limits /\ brk' \in Limits
  /\ stack' = <<frame(root, steps0')>>
  /\ cleaned' = FALSE
  /\ at' = "load"
  /\ UNCHANGED <<vars, root, ret, after_fp>>
----------------------------------------------------------------------------
(* add_prog_wprod *)

ran(blts, what) == \E t \in blts : Effect[t] = what

\* get_facts: a table that has facts is assigned them; negated facts are then
\* taken out
with_facts(p) ==
  [t \in Table |-> (IF t \in DOMAIN p.facts THEN p.facts[t] ELSE tbls[t]) \ p.dels[t]]

\* mutant: every program begins with its own flags
Flags_reset(blts) ==
  /\ halt'  = ran(blts, "halt")
  /\ unsat' = ran(blts, "false")
  /\ error' = ran(blts, "error")

\* the flags once get_facts has run the builtins among the facts
Flags(blts) ==
  /\ halt'  = (halt \/ ran(blts, "halt"))
  /\ unsat' = (unsat \/ ran(blts, "false"))
  /\ error' = ran(blts, "error")

\* run_prog fails with add_prog_wprod
LoadFails ==
  /\ at = "load"
  /\ Flags(source.builtins) /\ (halt' \/ unsat')
  /\ rules' = {}
  /\ after_fp' = after_fp \cup source.after
  /\ ret' = FALSE /\ at' = "return"
  /\ UNCHANGED <<fp_step, tbls, fronts, nstep, nsteps, break_on_step, pc, result,
                 stack, run, cleaned>>

Loads ==
  /\ at = "load"
  /\ Flags(source.builtins) /\ ~halt' /\ ~unsat'
  /\ tbls' = with_facts(source)
  /\ rules' = source.rules
  /\ after_fp' = after_fp \cup source.after
  /\ UNCHANGED <<fp_step, nstep, result, stack, run, cleaned>>

\* mutant: the fronts are kept
LoadRules_keep ==
  /\ Loads /\ rules' # {}
  /\ nsteps' = IF top.steps = 0 THEN 0 ELSE (nstep + top.steps) % SizeMod
  /\ break_on_step' = brk
  /\ pc' = "enter" /\ at' = "pfp"
  /\ UNCHANGED <<fronts, ret>>

\* the rules run: fronts.clear(), pfp(steps ? nstep + steps : 0, break_on_step)
LoadRules ==
  /\ Loads /\ rules' # {}
  /\ fronts' = << >>
  /\ nsteps' = IF top.steps = 0 THEN 0 ELSE (nstep + top.steps) % SizeMod
  /\ break_on_step' = brk
  /\ pc' = "enter" /\ at' = "pfp"
  /\ UNCHANGED ret

\* no rules: fronts = {l, l}
LoadFacts ==
  /\ Loads /\ rules' = {}
  /\ fronts' = <<tbls', tbls'>>
  /\ ret' = TRUE /\ at' = "answer"
  /\ UNCHANGED <<nsteps, break_on_step, pc>>
----------------------------------------------------------------------------
(* the answer, and what comes after it *)

PfpStep ==
  /\ at \in {"pfp", "after"}
  /\ Enter \/ Iterate
  /\ UNCHANGED progVars

PfpReturns ==
  /\ at \in {"pfp", "after"} /\ pc = "done"
  /\ ret' = result
  /\ at' = IF at = "pfp" THEN "answer" ELSE "nested"
  /\ UNCHANGED <<vars, stack, run, after_fp, cleaned>>

cleans_up == at = "answer" /\ ret /\ after_fp # {}

\* add_prog_wprod(move(prog_after_fp), {}), then pfp() on the fronts there are
CleanUp ==
  /\ cleans_up /\ ~halt
  /\ error' = FALSE
  /\ rules' = after_fp /\ after_fp' = {}
  /\ nsteps' = 0 /\ break_on_step' = 0
  /\ pc' = "enter" /\ at' = "after" /\ cleaned' = TRUE
  /\ UNCHANGED <<fp_step, tbls, fronts, nstep, halt, unsat, result,
                 stack, run, ret>>

CleanUpFails ==
  /\ cleans_up /\ halt
  /\ error' = FALSE
  /\ rules' = {} /\ after_fp' = {}
  /\ ret' = FALSE /\ at' = "return"
  /\ UNCHANGED <<fp_step, tbls, fronts, nstep, nsteps, break_on_step, halt, unsat, pc, result,
                 stack, run, cleaned>>

NoCleanUp ==
  /\ at = "answer" /\ ~cleans_up
  /\ at' = "nested"
  /\ UNCHANGED <<vars, stack, run, ret, after_fp, cleaned>>
----------------------------------------------------------------------------
(* the nested programs *)

\* mutant: the loop over the nested programs forgets to take the next
CallNext_again(frames, f) ==
  LET left == minus(f.steps, nstep - f.begstep)
  IN  /\ stack' = frames \o << [f EXCEPT !.steps = left, !.begstep = nstep], frame(nps(f)[f.next], left) >>
      /\ at' = "load"
      /\ UNCHANGED <<vars, run, ret, after_fp, cleaned>>

\* the frame `f` calls run_prog for its next nested program:
\* `steps -= went; begstep = nstep; r = run_prog(np, strs_in, steps, break_on_step)`
CallNext(frames, f) ==
  LET left == minus(f.steps, nstep - f.begstep)
  IN  /\ stack' = frames \o
           << [f EXCEPT !.steps = left, !.begstep = nstep, !.next = @ + 1],
              frame(nps(f)[f.next], left) >>
      /\ at' = "load"
      /\ UNCHANGED <<vars, run, ret, after_fp, cleaned>>

\* mutant: whatever the program's own answer
runs_nested_always == at = "nested" /\ nps(top) # << >>

runs_nested == at = "nested" /\ ret /\ nps(top) # << >>

FirstNested == runs_nested /\ CallNext(below, top)

NoneNested ==
  /\ at = "nested" /\ ~runs_nested
  /\ at' = "return"
  /\ UNCHANGED <<vars, stack, run, ret, after_fp, cleaned>>

\* the frame run_prog returns to
returns_to == at = "return" /\ Len(stack) > 1

caller == stack[Len(stack) - 1]

\* its loop is over: no program left, or `if (!r && went >= steps) break`
gives_up == ~ret /\ nstep - caller.begstep >= caller.steps

is_last == caller.next > Len(nps(caller))

ReturnToNext ==
  /\ returns_to /\ ~gives_up /\ ~is_last
  /\ CallNext(SubSeq(stack, 1, Len(stack) - 2), caller)

ReturnToLast ==
  /\ returns_to /\ (gives_up \/ is_last)
  /\ stack' = below
  /\ UNCHANGED <<vars, run, at, ret, after_fp, cleaned>>

ReturnToUser ==
  /\ at = "return" /\ Len(stack) = 1
  /\ stack' = << >>
  /\ at' = "idle"
  /\ UNCHANGED <<vars, run, ret, after_fp, cleaned>>

Step ==
  \/ LoadFails
  \/ LoadRules
  \/ LoadFacts
  \/ PfpStep
  \/ PfpReturns
  \/ CleanUp
  \/ CleanUpFails
  \/ NoCleanUp
  \/ FirstNested
  \/ NoneNested
  \/ ReturnToNext
  \/ ReturnToLast
  \/ ReturnToUser

\* the user need not run again
Idle == at = "idle" /\ UNCHANGED allVars

RunNext == Step \/ RunAgain \/ Idle

RunSpec == RunInit /\ [][RunNext]_allVars

\* sequential code: a run that has begun goes on
RunFairSpec == RunSpec /\ WF_allVars(Step)
----------------------------------------------------------------------------
(* Properties. *)

\* A run that was given n steps makes no more than n, however its programs are
\* nested: what is left is handed down and taken off correctly.  (A null
\* production's clean-up and the call of pfp by itself know no limit.)  The
\* subtraction `steps -= went` goes below zero in a run without a limit; still
\* no program of it is cut off.
StepsBudget ==
  /\ ~fp_step /\ ~cleaned /\ steps0 # 0 => nstep <= start0 + steps0
  /\ steps0 = 0 /\ brk = 0 /\ pc = "done" /\ at \in {"pfp", "after"} /\ ~result =>
       unsat \/ is_infloop(fronts)

\* Until the clean-up, the fronts are databases of the running program only.
FrontsOfOneProgram == at = "pfp" => FrontsFollow

\* Nested programs start from the fixed point of the program they are in.
NestedFromFixedPoint ==
  runs_nested /\ ~halt =>
    \/ fronts = <<tbls, tbls>>
    \/ \E j \in 1 .. Len(fronts) :
         /\ fronts[j] = tbls
         /\ fwd(rules, tbls).tbls = tbls \/ lap(j)

\* After a program was halted or contradicted itself no program touches the
\* database or takes a step.
StoppedForGood == [][halt \/ unsat => UNCHANGED <<tbls, nstep>>]_allVars

\* Every run comes to an end.
RunTerminates == at # "idle" ~> at = "idle"
=============================================================================
