----------------------------- MODULE RunProofs -----------------------------
(***************************************************************************)
(* What run_prog guarantees for every program, however its programs are    *)
(* nested, and however often the user says run.                            *)
(***************************************************************************)
EXTENDS RunProg, PfpProofs

----------------------------------------------------------------------------
(* The inductive invariant. *)

Frame == [prog : Prog, steps : 0 .. SizeMod - 1, begstep : Nat, next : Nat \ {0}]

limit == start0 + steps0

\* What is left of a frame's steps always leads to the same last step.
good(f) ==
  /\ f.begstep <= nstep
  /\ f.next <= Len(nps(f)) + 1
  /\ (f.steps + f.begstep) % SizeMod = limit % SizeMod

\* The running frame is where its own program is, before its nested ones.
own == at \in {"load", "pfp", "answer", "after", "nested"}

FramesOK ==
  /\ stack \in Seq(Frame)
  /\ \A i \in 1 .. Len(stack) : good(stack[i])
  /\ at # "idle" <=> stack # << >>
  /\ own => top.next = 1
  /\ at = "load" => top.begstep = nstep

ProgTypeOK ==
  /\ root \in Roots
  /\ steps0 \in Limits /\ brk \in Limits
  /\ start0 \in Nat /\ start0 <= nstep
  /\ at \in {"load", "pfp", "answer", "after", "nested", "return", "idle"}
  /\ ret \in BOOLEAN /\ cleaned \in BOOLEAN
  /\ after_fp \subseteq NullCleanUp

\* No program of a run goes on once a flag stands.
Stops ==
  /\ at \in {"pfp", "after"} => Running /\ (pc = "done" /\ result => ~unsat)
  /\ at = "answer" /\ ret => ~unsat

FixedSeen ==
  \/ fronts = <<tbls, tbls>>
  \/ \E j \in 1 .. Len(fronts) :
       /\ fronts[j] = tbls
       /\ fwd(rules, tbls).tbls = tbls \/ lap(j)

\* What stands behind the answer yes of a program and of its clean-up.
Answered ==
  /\ at = "pfp" => IInv /\ Answer
  /\ at = "after" =>
       /\ rules \subseteq NullCleanUp
       /\ pc = "done" /\ result /\ ~halt => FixedSeen
  /\ at \in {"answer", "nested"} /\ ret /\ ~halt => FixedSeen

RunInv == TypeOK /\ ProgTypeOK /\ FramesOK /\ Stops /\ Answered

\* While a limited run is within its limit, whoever may still take a step has one left.
InBudget ==
  ~fp_step /\ ~cleaned /\ steps0 # 0 =>
    /\ nstep <= limit
    /\ at = "pfp" =>
         /\ nsteps = limit
         /\ pc # "done" => nstep < limit
         /\ result => nstep < limit \/ halt
    /\ at = "load" \/ (at \in {"answer", "nested", "return"} /\ ret) =>
         nstep < limit \/ halt \/ unsat
    /\ at # "after"

\* In a run without a limit, the one that wraps round is behind.
NoLimit ==
  steps0 = 0 /\ brk = 0 /\ at \in {"pfp", "after"} =>
    /\ break_on_step = 0
    /\ nsteps <= nstep
    /\ pc = "done" /\ ~result => unsat \/ is_infloop(fronts)
----------------------------------------------------------------------------
(* The clean-up. *)

\* A deletion with positive bodies finds no more in fewer tuples.
LEMMA CleanUpMonotone ==
  ASSUME NEW r \in NullCleanUp, NEW db, NEW less,
         \A t \in Table : less[t] \subseteq db[t]
  PROVE  \A x : x \in rule_query(r, less) => x \in rule_query(r, db)
<1>1. ASSUME NEW al \in r.alts, NEW x \in alt_query(al, less)
      PROVE  x \in alt_query(al, db)
  <2>1. PICK z \in al.rng :
          x = al.head[z] /\ \A b \in al.bodies : z \in body_query(b, less)
    BY DEF alt_query
  <2>2. ASSUME NEW b \in al.bodies PROVE z \in body_query(b, db)
    <3>1. b.tab \in Table /\ ~b.neg
      BY DEF NullCleanUp, Rule, Alt, Body
    <3>2. z \in Subst /\ (b.arg[z] \in less[b.tab]) # b.neg
      BY <2>1 DEF body_query
    <3>3. b.neg \in BOOLEAN
      BY DEF NullCleanUp, Rule, Alt, Body
    <3>4. b.arg[z] \in db[b.tab]
      BY <3>1, <3>2, <3>3
    <3> QED BY <3>1, <3>2, <3>3, <3>4 DEF body_query
  <2> QED BY <2>1, <2>2 DEF alt_query
<1> QED BY <1>1 DEF rule_query

\* Nothing is inserted.
LEMMA CleanUpDeletes ==
  ASSUME NEW rs, rs \subseteq NullCleanUp, NEW db, NEW t \in Table
  PROVE  pending(rs, db, FALSE)[t] = {}
<1>1. \A r \in rs : r.neg
  BY DEF NullCleanUp
<1> QED BY <1>1 DEF pending

\* A clean-up takes from each table what its rules delete, and stops at none.
LEMMA CleanUpTables ==
  ASSUME NEW rs, rs \subseteq NullCleanUp, NEW db \in DB
  PROVE  /\ \A t \in Table : fwd(rs, db).tbls[t] =
              IF t \in Builtin THEN db[t] ELSE db[t] \ pending(rs, db, TRUE)[t]
         /\ fwd(rs, db).tbls \in DB
         /\ ~fwd(rs, db).halt /\ ~fwd(rs, db).unsat
<1> DEFINE ad == pending(rs, db, FALSE)
           de == pending(rs, db, TRUE)
<1>1. \A t \in Table : ad[t] = {}
  BY CleanUpDeletes
<1>2. \A t \in Table : ~stops(ad, de, t)
  BY <1>1 DEF stops, contradicts
<1>3. \A t \in Table : passes(ad, de, t)
  <2>1. \A t \in Table : \A k \in 0 .. t : k \in Table
    BY TmlRulesAssumption DEF Table
  <2> QED BY <1>2, <2>1 DEF passes
<1>4. stopped_at(ad, de) = {}
  BY <1>2 DEF stopped_at
<1>5. \A t \in Table : commit_all(db, ad, de)[t] =
         IF t \in Builtin THEN db[t] ELSE db[t] \ de[t]
  <2> HIDE DEF ad, de
  <2> QED BY <1>1, <1>3 DEF commit_all, commit
<1>6. /\ fwd(rs, db).tbls = commit_all(db, ad, de)
      /\ ~fwd(rs, db).halt /\ ~fwd(rs, db).unsat
  BY <1>4 DEF fwd
<1>7. rs \in SUBSET Rule
  BY DEF NullCleanUp
<1> QED BY <1>5, <1>6, <1>7, FwdFacts

\* One evaluation of a clean-up is all it does.
LEMMA CleanUpOnce ==
  ASSUME NEW rs, rs \subseteq NullCleanUp, NEW db \in DB
  PROVE  fwd(rs, fwd(rs, db).tbls).tbls = fwd(rs, db).tbls
<1> DEFINE one == fwd(rs, db).tbls
           two == fwd(rs, one).tbls
<1>1. one \in DB /\ \A t \in Table : one[t] =
        IF t \in Builtin THEN db[t] ELSE db[t] \ pending(rs, db, TRUE)[t]
  BY CleanUpTables
<1>2. two \in DB /\ \A t \in Table : two[t] =
        IF t \in Builtin THEN one[t] ELSE one[t] \ pending(rs, one, TRUE)[t]
  <2> HIDE DEF one
  <2> QED BY <1>1, CleanUpTables
<1> HIDE DEF one, two
<1>3. \A t \in Table : one[t] \subseteq db[t]
  BY <1>1
<1>4. \A r \in rs : \A x : x \in rule_query(r, one) => x \in rule_query(r, db)
  BY <1>3, CleanUpMonotone
<1>5. \A t \in Table : \A x :
        x \in pending(rs, one, TRUE)[t] => x \in pending(rs, db, TRUE)[t]
  BY <1>4 DEF pending
<1>6. ASSUME NEW t \in Table PROVE two[t] = one[t]
  BY <1>1, <1>2, <1>5
<1>7. two = one
  BY <1>1, <1>2, <1>6 DEF DB
<1> QED BY <1>7 DEF one, two
----------------------------------------------------------------------------
(* The steps that are handed down. *)

\* Division with remainder.
LEMMA Division ==
  ASSUME NEW m \in Nat \ {0}, NEW x \in Int
  PROVE  /\ x \div m \in Int
         /\ x % m \in 0 .. m - 1
         /\ x = m * (x \div m) + (x % m)
OBVIOUS

\* The remainder is the only number below the divisor that leaves a multiple of it.
LEMMA Remainder ==
  ASSUME NEW m \in Nat \ {0}, NEW x \in Int, NEW k \in Int, NEW r \in 0 .. m - 1,
         x = k * m + r
  PROVE  x % m = r
BY SMTT(30)

\* Adding a multiple of the divisor changes no remainder.
LEMMA SameRemainder ==
  ASSUME NEW m \in Nat \ {0}, NEW x \in Int, NEW y \in Int, NEW k \in Int, x = y + k * m
  PROVE  x % m = y % m
<1> DEFINE q == y \div m
           r == y % m
<1>1. q \in Int /\ r \in 0 .. m - 1 /\ y = m * q + r
  BY Division
<1> HIDE DEF q, r
<1>2. x = (q + k) * m + r
  <2>1. (q + k) * m = m * q + k * m
    BY <1>1
  <2> QED BY <1>1, <2>1
<1>3. x % m = r
  BY <1>1, <1>2, Remainder
<1> QED BY <1>3 DEF r

\* size_t counts in its range.
LEMMA MinusType ==
  ASSUME NEW x \in Int, NEW y \in Int
  PROVE  minus(x, y) \in 0 .. SizeMod - 1
<1>1. SizeMod \in Nat \ {0}
  BY RunProgAssumption
<1>2. y % SizeMod \in 0 .. SizeMod - 1
  BY <1>1, Division
<1>3. x + SizeMod - (y % SizeMod) \in Int
  BY <1>1, <1>2
<1> QED BY <1>1, <1>3, Division DEF minus

\* `steps -= went` leads to the same last step as before.
LEMMA MinusKeeps ==
  ASSUME NEW x \in Int, NEW from \in Int, NEW to \in Int
  PROVE  (minus(x, to - from) + to) % SizeMod = (x + from) % SizeMod
<1> DEFINE y == to - from
           r == y % SizeMod
           z == x + SizeMod - r
           w == minus(x, y)
<1>1. SizeMod \in Nat \ {0} /\ y \in Int
  BY RunProgAssumption
<1>2. r \in Int /\ y \div SizeMod \in Int /\ y = SizeMod * (y \div SizeMod) + r
  BY <1>1, Division
<1>3. z \in Int
  BY <1>1, <1>2
<1>4. w \in Int /\ z \div SizeMod \in Int /\ z = SizeMod * (z \div SizeMod) + w
  <2>1. w = z % SizeMod
    BY DEF minus
  <2> HIDE DEF z, w
  <2> QED BY <1>1, <1>3, <2>1, Division
<1>5. PICK q \in Int : y = SizeMod * q + r
  BY <1>2
<1>6. PICK p \in Int : z = SizeMod * p + w
  BY <1>4
<1> DEFINE k == 1 + q - p
           a == w + to
           b == x + from
<1>7. a = b + k * SizeMod
  <2>1. k * SizeMod = SizeMod + SizeMod * q - SizeMod * p
    BY <1>1
  <2>2. z = x + SizeMod - r /\ y = to - from
    OBVIOUS
  <2> HIDE DEF w, z, y, r, k
  <2> QED BY <1>1, <1>2, <1>3, <1>4, <1>5, <1>6, <2>1, <2>2
<1>8. k \in Int /\ a \in Int /\ b \in Int
  <2> HIDE DEF w
  <2> QED BY <1>4
<1> HIDE DEF k, a, b
<1>9. a % SizeMod = b % SizeMod
  BY <1>1, <1>7, <1>8, SameRemainder
<1> QED BY <1>9 DEF a, b, w, y
----------------------------------------------------------------------------
(* The frames. *)

\* The running frame is one of the frames, and the others are the ones below it.
LEMMA TopFrame ==
  ASSUME FramesOK, stack # << >>
  PROVE  /\ Len(stack) \in Nat \ {0}
         /\ top \in Frame /\ good(top)
         /\ below \in Seq(Frame) /\ Len(below) = Len(stack) - 1
         /\ \A i \in 1 .. Len(below) : good(below[i])
<1>1. Len(stack) \in Nat \ {0} /\ stack \in Seq(Frame)
  BY EmptySeq DEF FramesOK
<1>2. \A i \in 1 .. Len(stack) : stack[i] \in Frame /\ good(stack[i])
  BY ElementOfSeq DEF FramesOK
<1>3. /\ below \in Seq(Frame)
      /\ Len(below) = Len(stack) - 1
      /\ \A i \in 1 .. Len(stack) - 1 : below[i] = stack[i]
  <2> DEFINE n == Len(stack) - 1
  <2>1. n \in Int /\ \A i \in 1 .. n : stack[i] \in Frame
    BY <1>1, <1>2
  <2>2. /\ SubSeq(stack, 1, n) \in Seq(Frame)
        /\ Len(SubSeq(stack, 1, n)) = IF 1 <= n THEN n - 1 + 1 ELSE 0
        /\ \A i \in 1 .. n - 1 + 1 : SubSeq(stack, 1, n)[i] = stack[1 + i - 1]
    <3> HIDE DEF n
    <3> QED BY <2>1, SubSeqProperties
  <2>3. n \in Nat
    BY <1>1
  <2> HIDE DEF n
  <2>4. below = SubSeq(stack, 1, n)
    BY DEF below, n
  <2>5. below \in Seq(Frame) /\ Len(below) = n /\ \A i \in 1 .. n : below[i] = stack[i]
    <3>1. (IF 1 <= n THEN n - 1 + 1 ELSE 0) = n /\ n - 1 + 1 = n
          /\ \A i \in 1 .. n : 1 + i - 1 = i
      BY <2>3
    <3> QED BY <2>2, <2>4, <3>1
  <2> QED BY <2>5 DEF n
<1> QED BY <1>1, <1>2, <1>3 DEF top

\* A frame that calls run_prog for its next nested program hands it what is left.
LEMMA CallKeeps ==
  ASSUME TypeOK, ProgTypeOK,
         NEW frames \in Seq(Frame), \A i \in 1 .. Len(frames) : good(frames[i]),
         NEW f \in Frame, good(f), f.next <= Len(nps(f)), CallNext(frames, f)
  PROVE  FramesOK'
<1> DEFINE left == minus(f.steps, nstep - f.begstep)
           up   == [f EXCEPT !.steps = left, !.begstep = nstep, !.next = @ + 1]
           new  == frame(nps(f)[f.next], left)
<1>1. stack' = frames \o <<up, new>> /\ at' = "load"
      /\ UNCHANGED <<vars, run, ret, after_fp, cleaned>>
  BY DEF CallNext
<1>2. nps(f) \in Seq(Prog) /\ nps(f)[f.next] \in Prog
  BY RunProgAssumption, ElementOfSeq DEF nps, Frame
<1>3. left \in 0 .. SizeMod - 1 /\ (left + nstep) % SizeMod = limit % SizeMod
  <2>1. f.steps \in Int /\ f.begstep \in Int /\ nstep \in Int
    BY DEF TypeOK, Frame
  <2>2. (left + nstep) % SizeMod = (f.steps + f.begstep) % SizeMod
    BY <2>1, MinusKeeps
  <2>3. nstep - f.begstep \in Int
    BY <2>1
  <2>4. left \in 0 .. SizeMod - 1
    BY <2>1, <2>3, MinusType
  <2>5. (f.steps + f.begstep) % SizeMod = limit % SizeMod
    BY DEF good
  <2> QED BY <2>2, <2>4, <2>5
<1> HIDE DEF left
<1>4. up \in Frame /\ up.prog = f.prog /\ up.steps = left /\ up.begstep = nstep
      /\ up.next = f.next + 1
  <2>1. f.prog \in Prog /\ f.next \in Nat \ {0} /\ nstep \in Nat
    BY DEF Frame, TypeOK
  <2>2. up.prog = f.prog /\ up.steps = left /\ up.begstep = nstep /\ up.next = f.next + 1
    BY DEF Frame
  <2> DEFINE m == f.next + 1
  <2>3. m \in Nat \ {0}
    BY <2>1
  <2>4. up = [f EXCEPT !.steps = left, !.begstep = nstep, !.next = m]
    OBVIOUS
  <2> HIDE DEF m, up
  <2>5. up \in Frame
    BY <1>3, <2>1, <2>3, <2>4 DEF Frame
  <2> QED BY <2>2, <2>5
<1>5. new \in Frame /\ new.steps = left /\ new.begstep = nstep /\ new.next = 1
  BY <1>2, <1>3 DEF Frame, TypeOK, frame
<1>6. nps(up) = nps(f) /\ Len(nps(new)) \in Nat /\ Len(nps(f)) \in Nat
  BY <1>2, <1>4, <1>5, RunProgAssumption, LenProperties DEF nps, Frame
<1>7. good(up) /\ good(new)
  <2> HIDE DEF up, new
  <2>1. nstep \in Nat /\ f.next \in Nat
    BY DEF TypeOK, Frame
  <2> QED BY <1>3, <1>4, <1>5, <1>6, <2>1 DEF good
<1> HIDE DEF up, new
<1>8. <<up, new>> \in Seq(Frame) /\ Len(<<up, new>>) = 2
  BY <1>4, <1>5
<1>9. /\ stack' \in Seq(Frame)
      /\ Len(stack') = Len(frames) + 2
      /\ \A i \in 1 .. Len(frames) : stack'[i] = frames[i]
      /\ stack'[Len(frames) + 1] = up /\ stack'[Len(frames) + 2] = new
      /\ Len(frames) \in Nat
  <2>1. Len(frames) \in Nat
    BY LenProperties
  <2>2. /\ stack' \in Seq(Frame)
        /\ Len(stack') = Len(frames) + 2
        /\ \A i \in 1 .. Len(frames) + 2 : stack'[i] =
             IF i <= Len(frames) THEN frames[i] ELSE <<up, new>>[i - Len(frames)]
    BY <1>1, <1>8, ConcatProperties
  <2> QED BY <2>1, <2>2
<1>10. \A i \in 1 .. Len(stack') : good(stack'[i])
  BY <1>7, <1>9
<1>11. \A g : good(g)' = good(g)
  BY <1>1 DEF good, nps, limit, vars, run
<1>12. top' = new /\ stack' # << >> /\ nstep' = nstep
  BY <1>1, <1>9, EmptySeq DEF top, vars
<1> QED BY <1>1, <1>5, <1>9, <1>10, <1>11, <1>12 DEF FramesOK, own

\* The frames stay as they are while the counter goes on.
LEMMA SameFrames ==
  ASSUME TypeOK, FramesOK, nstep' \in Nat, nstep <= nstep', UNCHANGED <<stack, start0, steps0>>,
         (at = "idle") = (at' = "idle"), own' => own,
         at' = "load" => at = "load" /\ nstep' = nstep
  PROVE  FramesOK'
<1>1. \A i \in 1 .. Len(stack) : stack[i] \in Frame /\ good(stack[i])
  BY ElementOfSeq DEF FramesOK
<1>2. ASSUME NEW g \in Frame, good(g)
      PROVE  good(g)'
  <2>1. g.begstep \in Nat /\ nstep \in Nat /\ g.begstep <= nstep
    BY <1>2 DEF Frame, good, TypeOK
  <2> QED BY <1>2, <2>1 DEF good, limit, nps
<1>3. (\A i \in 1 .. Len(stack) : good(stack[i]))'
  BY <1>1, <1>2
<1>4. top' = top
  BY DEF top
<1> QED BY <1>3, <1>4 DEF FramesOK

\* run_prog returns to the frame that called it, or to the user.
LEMMA ReturnFrames ==
  ASSUME TypeOK, FramesOK, UNCHANGED <<nstep, start0, steps0>>, at = "return",
         \/ Len(stack) > 1 /\ stack' = below /\ at' = "return"
         \/ Len(stack) = 1 /\ stack' = << >> /\ at' = "idle"
  PROVE  FramesOK'
<1>1. \A g : good(g)' = good(g)
  BY DEF good, limit, nps
<1>2. stack # << >>
  BY DEF FramesOK
<1>3. CASE Len(stack) > 1 /\ stack' = below /\ at' = "return"
  <2>1. Len(stack') \in Nat \ {0} /\ stack' \in Seq(Frame)
        /\ \A i \in 1 .. Len(stack') : good(stack'[i])
    <3>1. below \in Seq(Frame) /\ \A i \in 1 .. Len(below) : good(below[i])
      BY <1>2, TopFrame
    <3>2. Len(below) = Len(stack) - 1 /\ Len(stack) \in Nat
      BY <1>2, TopFrame
    <3> QED BY <1>3, <3>1, <3>2
  <2>2. stack' # << >>
    BY <2>1, EmptySeq
  <2> QED BY <1>1, <1>3, <2>1, <2>2 DEF FramesOK, own
<1>4. CASE Len(stack) = 1 /\ stack' = << >> /\ at' = "idle"
  <2>1. stack' \in Seq(Frame) /\ Len(stack') = 0
    BY <1>4, EmptySeq
  <2> QED BY <1>4, <2>1 DEF FramesOK, own
<1> QED BY <1>3, <1>4

\* The user's program is the only frame when a run begins.
LEMMA FirstFrame ==
  ASSUME nstep \in Nat, NEW p \in Prog, NEW n \in Limits
  PROVE  /\ <<frame(p, n)>> \in Seq(Frame)
         /\ Len(<<frame(p, n)>>) = 1 /\ <<frame(p, n)>> # << >>
         /\ frame(p, n) = <<frame(p, n)>>[1]
         /\ frame(p, n).begstep = nstep /\ frame(p, n).next = 1 /\ frame(p, n).steps = n
         /\ 1 <= Len(nps(frame(p, n))) + 1
<1>1. n \in 0 .. SizeMod - 1
  BY RunProgAssumption, PfpAssumption
<1>2. frame(p, n) \in Frame
  BY <1>1 DEF frame, Frame
<1>3. Len(nps(frame(p, n))) \in Nat
  BY RunProgAssumption, LenProperties DEF nps, frame
<1>4. <<frame(p, n)>> \in Seq(Frame) /\ Len(<<frame(p, n)>>) = 1
      /\ <<frame(p, n)>>[1] = frame(p, n)
  BY <1>2
<1>5. <<frame(p, n)>> # << >>
  BY <1>4, EmptySeq
<1> QED BY <1>3, <1>4, <1>5 DEF frame
----------------------------------------------------------------------------
(* One iteration of pfp, whichever program it is for. *)

\* Once a flag stands pfp returns, and it does not answer yes to a contradiction.
LEMMA FinishStops ==
  ASSUME TypeOK, Running, NEW out, out = fwd(rules, tbls), Finish(out)
  PROVE  Running' /\ (pc' = "done" /\ result' => ~unsat')
<1>1. pc = "loop" /\ ~halt /\ ~unsat
  BY DEF Finish, Halted, FixedPointStep, Contradiction, LimitReached, InfloopDetected,
         FixedPoint, Continue, Pushed, Called, Running
<1>2. CASE Halted(out)
  <2>1. halt' /\ pc' = "done" /\ halt' = (halt \/ out.halt) /\ unsat' = (unsat \/ out.unsat)
    BY <1>2 DEF Halted, Called, Return
  <2>2. out.halt => ~out.unsat
    BY DEF fwd
  <2> QED BY <1>1, <2>1, <2>2 DEF Running
<1>3. CASE FixedPointStep(out)
  <2>1. pc' = "enter" /\ ~halt' /\ ~out.changed /\ unsat' = (unsat \/ out.unsat)
    BY <1>3 DEF FixedPointStep, wants_fp_fact, Called
  <2>2. ~out.unsat
    BY <2>1 DEF fwd
  <2> QED BY <1>1, <2>1, <2>2 DEF Running
<1>4. CASE Contradiction(out) \/ LimitReached(out) \/ InfloopDetected(out) \/ FixedPoint(out)
  BY <1>4 DEF Contradiction, LimitReached, InfloopDetected, FixedPoint, Return, Running
<1>5. CASE Continue(out)
  BY <1>1, <1>5 DEF Continue, Pushed, Running
<1> QED BY <1>2, <1>3, <1>4, <1>5 DEF Finish

\* pfp's own arguments stay, and only a fixed point gives up the limits.
LEMMA FinishArgs ==
  ASSUME NEW out, Finish(out)
  PROVE  /\ pc = "loop" /\ rules' = rules /\ fp_step' = fp_step /\ nstep' = nstep + 1
         /\ \/ nsteps' = nsteps /\ break_on_step' = break_on_step
            \/ fp_step /\ nsteps' = 0 /\ break_on_step' = 0 /\ pc' = "enter"
BY DEF Finish, Halted, FixedPointStep, Contradiction, LimitReached, InfloopDetected,
       FixedPoint, Continue, Pushed, Called, args, wants_fp_fact

\* The clean-up's answer yes is a fixed point of the clean-up, whatever the
\* fronts it is compared with.
LEMMA CleanUpAnswer ==
  ASSUME TypeOK, rules \subseteq NullCleanUp, NEW out, out = fwd(rules, tbls), Finish(out),
         pc' = "done", result', ~halt'
  PROVE  FixedSeen'
<1>1. FixedPoint(out)
  BY DEF Finish, Halted, FixedPointStep, Contradiction, LimitReached, InfloopDetected,
         Continue, Pushed, Called, Return
<1>2. tbls' = out.tbls /\ fronts' = Append(fronts, out.tbls) /\ rules' = rules
  BY <1>1 DEF FixedPoint, Pushed, args
<1>3. fwd(rules, out.tbls).tbls = out.tbls
  BY CleanUpOnce DEF TypeOK
<1>4. out.tbls \in DB
  BY FwdFacts DEF TypeOK
<1>5. Len(fronts) + 1 \in 1 .. Len(fronts') /\ fronts'[Len(fronts) + 1] = tbls'
  BY <1>2, <1>4, AppendProperties, LenProperties DEF TypeOK
<1>6. fwd(rules', tbls').tbls = tbls'
  BY <1>2, <1>3
<1> QED BY <1>5, <1>6 DEF FixedSeen

\* The program's own answer yes is the lap its fronts end with.
LEMMA ProgramAnswer ==
  ASSUME Answer, pc = "done", result, ~halt
  PROVE  FixedSeen
<1>1. /\ tbls = fronts[Len(fronts)]
      /\ \E j \in 1 .. Len(fronts) : lap(j)
  BY DEF Answer, FixedPointIsReal
<1> QED BY <1>1 DEF FixedSeen, lap
----------------------------------------------------------------------------
(* Every step keeps the invariant. *)

\* A run begins as RunInv says.
LEMMA BeginsWell == RunInit => RunInv
<1> SUFFICES ASSUME RunInit PROVE RunInv
  OBVIOUS
<1>1. TypeOK
  <2>1. tbls \in DB
    BY DEF RunInit, DB
  <2>2. fronts \in Seq(DB)
    BY EmptySeq DEF RunInit
  <2> QED BY <2>1, <2>2 DEF RunInit, TypeOK
<1>2. ProgTypeOK
  <2>1. /\ root \in Roots /\ steps0 \in Limits /\ brk \in Limits
        /\ start0 = 0 /\ nstep = 0 /\ at = "load" /\ ret = FALSE /\ cleaned = FALSE
        /\ after_fp = {}
    BY DEF RunInit
  <2>2. after_fp \subseteq NullCleanUp
    BY <2>1
  <2>3. start0 \in Nat /\ start0 <= nstep
    BY <2>1
  <2> QED BY <2>1, <2>2, <2>3 DEF ProgTypeOK
<1>3. FramesOK
  <2>1. root \in Prog /\ steps0 \in Limits /\ nstep \in Nat /\ stack = <<frame(root, steps0)>>
        /\ at = "load" /\ start0 = nstep
    BY RunProgAssumption DEF RunInit
  <2>2. steps0 \in Nat
    BY <2>1, PfpAssumption
  <2>3. good(frame(root, steps0))
    BY <2>1, <2>2, FirstFrame DEF good, limit
  <2>4. top = frame(root, steps0) /\ \A i \in 1 .. Len(stack) : stack[i] = frame(root, steps0)
    BY <2>1, FirstFrame DEF top
  <2> QED BY <2>1, <2>3, <2>4, FirstFrame DEF FramesOK, own
<1> QED BY <1>1, <1>2, <1>3 DEF RunInit, RunInv, Stops, Answered

\* add_prog_wprod takes tables to tables.
LEMMA LoadType ==
  ASSUME RunInv, at = "load"
  PROVE  /\ with_facts(source) \in DB /\ source.rules \in SUBSET Rule
         /\ after_fp \cup source.after \subseteq NullCleanUp
<1>1. top.prog \in Prog
  BY TopFrame DEF RunInv, FramesOK, Frame
<1>2. /\ source.dels \in DB
      /\ \A t \in DOMAIN source.facts : source.facts[t] \subseteq Tuple
      /\ source.rules \subseteq Rule /\ source.after \subseteq NullCleanUp
  BY <1>1, RunProgAssumption DEF source
<1>3. with_facts(source) \in DB
  BY <1>2 DEF with_facts, DB, RunInv, TypeOK
<1> QED BY <1>2, <1>3 DEF RunInv, ProgTypeOK

\* Putting a program's facts into the tables, or failing to.
LEMMA LoadKeeps ==
  ASSUME RunInv, LoadFails \/ LoadRules \/ LoadFacts
  PROVE  RunInv'
<1>1. at = "load" /\ halt' \in BOOLEAN /\ unsat' \in BOOLEAN /\ error' \in BOOLEAN
      /\ UNCHANGED <<fp_step, nstep, stack, run, cleaned>>
  BY DEF LoadFails, LoadRules, LoadFacts, Loads, Flags, RunInv, TypeOK, ran
<1>2. FramesOK'
  <2>1. at' \in {"return", "pfp", "answer"}
    BY DEF LoadFails, LoadRules, LoadFacts
  <2> QED BY <1>1, <2>1, SameFrames DEF RunInv, TypeOK, run, own
<1>3. ProgTypeOK'
  BY <1>1, LoadType DEF LoadFails, LoadRules, LoadFacts, Loads, RunInv, ProgTypeOK, run
<1>4. CASE LoadFails
  BY <1>1, <1>2, <1>3, <1>4 DEF LoadFails, RunInv, TypeOK, Stops, Answered
<1>5. CASE LoadRules
  <2>1. /\ tbls' \in DB /\ rules' \in SUBSET Rule /\ ~halt' /\ ~unsat'
        /\ fronts' = << >> /\ pc' = "enter" /\ at' = "pfp"
        /\ UNCHANGED <<result, ret>>
    BY <1>1, <1>5, LoadType DEF LoadRules, Loads
  <2>2. nsteps' \in Nat /\ break_on_step' \in Nat
    <3>1. top.steps \in Nat /\ SizeMod \in Nat \ {0} /\ nstep \in Nat /\ brk \in Nat
      BY <1>1, TopFrame, RunProgAssumption, PfpAssumption
         DEF RunInv, FramesOK, Frame, TypeOK, ProgTypeOK
    <3>2. (nstep + top.steps) % SizeMod \in Nat
      BY <3>1, Division
    <3> QED BY <1>5, <3>1, <3>2 DEF LoadRules
  <2>3. fronts' \in Seq(DB) /\ Len(fronts') = 0
    BY <2>1, EmptySeq
  <2>4. TypeOK'
    BY <1>1, <2>1, <2>2, <2>3 DEF RunInv, TypeOK
  <2>5. IInv' /\ Answer'
    BY <2>1, <2>3, <2>4 DEF IInv, Running, FrontsFollow, chained, NoRevisit, Reentry,
                            Answer, FixedPointIsReal, InfloopIsReal
  <2> QED BY <1>2, <1>3, <2>1, <2>4, <2>5 DEF RunInv, Stops, Answered, Running
<1>6. CASE LoadFacts
  <2>1. /\ tbls' \in DB /\ rules' \in SUBSET Rule /\ ~halt' /\ ~unsat'
        /\ fronts' = <<tbls', tbls'>> /\ at' = "answer"
        /\ UNCHANGED <<result, pc, nsteps, break_on_step>>
    BY <1>1, <1>6, LoadType DEF LoadFacts, Loads
  <2>2. fronts' \in Seq(DB)
    BY <2>1
  <2> QED BY <1>1, <1>2, <1>3, <2>1, <2>2 DEF RunInv, TypeOK, Stops, Answered, FixedSeen
<1> QED BY <1>4, <1>5, <1>6

\* pfp's iterations and its return, for a program and for its clean-up.
LEMMA PfpKeeps ==
  ASSUME RunInv, PfpStep \/ PfpReturns
  PROVE  RunInv'
<1>1. CASE PfpStep
  <2>1. at \in {"pfp", "after"} /\ (Enter \/ Iterate) /\ UNCHANGED progVars
    BY <1>1 DEF PfpStep
  <2>2. TypeOK'
    BY <2>1, StepType DEF RunInv, Next
  <2>3. nstep' \in Nat /\ nstep <= nstep' /\ rules' = rules
    <3>1. CASE Enter
      BY <3>1 DEF Enter, args, RunInv, TypeOK
    <3>2. CASE Iterate
      BY <3>2, FinishArgs DEF Iterate, RunInv, TypeOK
    <3> QED BY <2>1, <3>1, <3>2
  <2>4. ProgTypeOK' /\ FramesOK'
    <3>1. UNCHANGED <<root, stack, start0, steps0, brk, at, ret, after_fp, cleaned>>
      BY <2>1 DEF progVars
    <3>2. FramesOK'
      BY <2>1, <2>3, <3>1, SameFrames DEF RunInv, own
    <3>3. ProgTypeOK'
      BY <2>3, <3>1 DEF RunInv, ProgTypeOK, TypeOK
    <3> QED BY <3>2, <3>3
  <2>5. Stops'
    <3>1. Running' /\ (pc' = "done" /\ result' => ~unsat')
      <4>1. CASE Enter
        BY <2>1, <4>1 DEF Enter, RunInv, Stops, Running
      <4>2. CASE Iterate
        BY <2>1, <4>2, FinishStops DEF Iterate, RunInv, Stops
      <4> QED BY <2>1, <4>1, <4>2
    <3> QED BY <2>1, <3>1 DEF Stops, progVars
  <2>6. Answered'
    <3>1. at = "pfp" => IInv' /\ Answer'
      <4>1. CASE Enter
        BY <2>2, <4>1, EnterKeeps
           DEF Enter, RunInv, Answered, IInv, Answer, FixedPointIsReal, InfloopIsReal
      <4>2. CASE Iterate
        BY <2>2, <4>2, IterateKeeps, FinishAnswer DEF Iterate, RunInv, Answered, IInv
      <4> QED BY <2>1, <4>1, <4>2
    <3>2. ASSUME at = "after", pc' = "done", result', ~halt' PROVE FixedSeen'
      <4>1. CASE Enter
        BY <3>2, <4>1 DEF Enter
      <4>2. CASE Iterate
        BY <3>2, <4>2, CleanUpAnswer DEF Iterate, RunInv, Answered
      <4> QED BY <2>1, <4>1, <4>2
    <3> QED BY <2>1, <2>3, <3>1, <3>2 DEF RunInv, Answered, progVars
  <2> QED BY <2>2, <2>4, <2>5, <2>6 DEF RunInv
<1>2. CASE PfpReturns
  <2>1. /\ at \in {"pfp", "after"} /\ pc = "done" /\ ret' = result
        /\ at' = IF at = "pfp" THEN "answer" ELSE "nested"
        /\ UNCHANGED <<vars, stack, run, after_fp, cleaned>>
    BY <1>2 DEF PfpReturns
  <2>2. UNCHANGED <<rules, fp_step, tbls, fronts, nstep, halt, unsat>> /\ TypeOK'
        /\ UNCHANGED <<root, stack, start0, steps0, brk>>
    BY <2>1 DEF vars, run, RunInv, TypeOK
  <2>3. FramesOK'
    BY <2>1, <2>2, SameFrames DEF RunInv, TypeOK, own
  <2>4. ProgTypeOK'
    BY <2>1, <2>2 DEF RunInv, ProgTypeOK, TypeOK
  <2>5. Stops'
    BY <2>1, <2>2 DEF RunInv, Stops
  <2>6. result /\ ~halt => FixedSeen
    BY <2>1, ProgramAnswer DEF RunInv, Answered
  <2>7. FixedSeen' <=> FixedSeen
    BY <2>2 DEF FixedSeen, lap
  <2> QED BY <2>1, <2>2, <2>3, <2>4, <2>5, <2>6, <2>7 DEF RunInv, Answered
<1> QED BY <1>1, <1>2

\* Cleaning up after an answer, failing to, or having nothing to clean up.
LEMMA CleanUpKeeps ==
  ASSUME RunInv, CleanUp \/ CleanUpFails \/ NoCleanUp
  PROVE  RunInv'
<1>1. /\ at = "answer" /\ at' \in {"after", "return", "nested"}
      /\ UNCHANGED <<nstep, tbls, fronts, fp_step, halt, unsat, result, stack, run>>
  BY DEF CleanUp, CleanUpFails, NoCleanUp, cleans_up, vars
<1>2. FramesOK'
  BY <1>1, SameFrames DEF RunInv, TypeOK, own, run
<1>3. ProgTypeOK' /\ TypeOK'
  <2>1. /\ ret' \in BOOLEAN /\ cleaned' \in BOOLEAN /\ after_fp' \subseteq NullCleanUp
        /\ rules' \in SUBSET Rule /\ error' \in BOOLEAN
        /\ nsteps' \in Nat /\ break_on_step' \in Nat /\ pc' \in {"enter", "loop", "done"}
    <3>1. after_fp \in SUBSET Rule
      BY DEF RunInv, ProgTypeOK, NullCleanUp
    <3>2. CASE CleanUp \/ CleanUpFails
      <4>1. /\ ret' \in {ret, FALSE} /\ cleaned' \in {cleaned, TRUE} /\ after_fp' = {}
            /\ rules' \in {after_fp, {}} /\ error' = FALSE
            /\ nsteps' \in {nsteps, 0} /\ break_on_step' \in {break_on_step, 0}
            /\ pc' \in {pc, "enter"}
        BY <3>2 DEF CleanUp, CleanUpFails
      <4>2. after_fp' \subseteq NullCleanUp
        BY <4>1
      <4>3. rules' \in SUBSET Rule
        BY <3>1, <4>1
      <4>4. ret' \in BOOLEAN /\ cleaned' \in BOOLEAN /\ error' \in BOOLEAN
        BY <4>1 DEF RunInv, ProgTypeOK
      <4>5. nsteps' \in Nat /\ break_on_step' \in Nat /\ pc' \in {"enter", "loop", "done"}
        BY <4>1 DEF RunInv, TypeOK
      <4> QED BY <4>2, <4>3, <4>4, <4>5
    <3>3. CASE NoCleanUp
      BY <3>3 DEF NoCleanUp, vars, RunInv, ProgTypeOK, TypeOK
    <3> QED BY <3>2, <3>3
  <2> QED BY <1>1, <2>1 DEF RunInv, TypeOK, ProgTypeOK, run
<1>4. CASE CleanUp
  <2>1. ret /\ ~halt /\ ~unsat /\ pc' = "enter" /\ at' = "after" /\ rules' \subseteq NullCleanUp
    BY <1>4 DEF CleanUp, cleans_up, RunInv, Stops, ProgTypeOK
  <2> QED BY <1>1, <1>2, <1>3, <2>1 DEF RunInv, Stops, Answered, Running
<1>5. CASE CleanUpFails
  BY <1>2, <1>3, <1>5 DEF CleanUpFails, RunInv, Stops, Answered
<1>6. CASE NoCleanUp
  <2>1. at' = "nested" /\ UNCHANGED <<ret, rules>>
    BY <1>6 DEF NoCleanUp, vars
  <2>2. FixedSeen' <=> FixedSeen
    BY <1>1, <2>1 DEF FixedSeen, lap
  <2> QED BY <1>1, <1>2, <1>3, <2>1, <2>2 DEF RunInv, Stops, Answered
<1> QED BY <1>4, <1>5, <1>6

\* Calling run_prog for a nested program.
LEMMA CallsKeep ==
  ASSUME RunInv, FirstNested \/ ReturnToNext
  PROVE  RunInv'
<1>1. at' = "load" /\ UNCHANGED <<vars, run, ret, after_fp, cleaned>>
  BY DEF FirstNested, ReturnToNext, CallNext
<1>2. FramesOK'
  <2>1. CASE FirstNested
    <3>1. at = "nested" /\ nps(top) # << >> /\ CallNext(below, top)
      BY <2>1 DEF FirstNested, runs_nested
    <3>2. stack # << >> /\ top.next = 1
      BY <3>1 DEF RunInv, FramesOK, own
    <3>3. /\ top \in Frame /\ good(top) /\ below \in Seq(Frame)
          /\ \A i \in 1 .. Len(below) : good(below[i])
      BY <3>2, TopFrame DEF RunInv
    <3>4. nps(top) \in Seq(Prog)
      BY <3>3, RunProgAssumption DEF nps, Frame
    <3>5. Len(nps(top)) \in Nat \ {0}
      BY <3>1, <3>4, EmptySeq
    <3>6. top.next <= Len(nps(top))
      BY <3>2, <3>5
    <3> QED BY <3>1, <3>3, <3>6, CallKeeps DEF RunInv
  <2>2. CASE ReturnToNext
    <3> DEFINE rest == SubSeq(stack, 1, Len(stack) - 2)
    <3>1. Len(stack) > 1 /\ ~is_last /\ CallNext(rest, caller)
      BY <2>2 DEF ReturnToNext, returns_to
    <3>2. Len(stack) \in Nat /\ stack \in Seq(Frame)
      BY LenProperties DEF RunInv, FramesOK
    <3>3. \A i \in 1 .. Len(stack) : stack[i] \in Frame /\ good(stack[i])
      BY ElementOfSeq DEF RunInv, FramesOK
    <3>4. caller \in Frame /\ good(caller)
      BY <3>1, <3>2, <3>3 DEF caller
    <3>5. rest \in Seq(Frame) /\ \A i \in 1 .. Len(rest) : good(rest[i])
      <4> DEFINE n == Len(stack) - 2
      <4>1. n \in Nat /\ \A i \in 1 .. n : stack[i] \in Frame /\ good(stack[i])
        BY <3>1, <3>2, <3>3
      <4> HIDE DEF n
      <4>2. /\ SubSeq(stack, 1, n) \in Seq(Frame)
            /\ Len(SubSeq(stack, 1, n)) = IF 1 <= n THEN n - 1 + 1 ELSE 0
            /\ \A i \in 1 .. n - 1 + 1 : SubSeq(stack, 1, n)[i] = stack[1 + i - 1]
        BY <4>1, SubSeqProperties
      <4>3. (IF 1 <= n THEN n - 1 + 1 ELSE 0) = n /\ n - 1 + 1 = n
            /\ \A i \in 1 .. n : 1 + i - 1 = i
        BY <4>1
      <4>4. \A i \in 1 .. n : SubSeq(stack, 1, n)[i] = stack[i]
        BY <4>2, <4>3
      <4> QED BY <4>1, <4>2, <4>3, <4>4 DEF n
    <3>6. caller.next <= Len(nps(caller))
      <4>1. Len(nps(caller)) \in Nat /\ caller.next \in Nat
        BY <3>4, RunProgAssumption, LenProperties DEF nps, Frame
      <4> QED BY <3>1, <4>1 DEF is_last
    <3> HIDE DEF rest
    <3> QED BY <3>1, <3>4, <3>5, <3>6, CallKeeps DEF RunInv
  <2> QED BY <2>1, <2>2
<1> QED BY <1>1, <1>2 DEF RunInv, TypeOK, ProgTypeOK, Stops, Answered, vars, run

\* Returning, to a frame whose loop is over or to the user.
LEMMA ReturnsKeep ==
  ASSUME RunInv, NoneNested \/ ReturnToLast \/ ReturnToUser
  PROVE  RunInv'
<1>1. UNCHANGED <<vars, run, ret, after_fp, cleaned>> /\ at' \in {"return", "idle"}
  BY DEF NoneNested, ReturnToLast, ReturnToUser, returns_to
<1>2. FramesOK'
  <2>1. UNCHANGED <<nstep, start0, steps0>> /\ nstep \in Nat
    BY <1>1 DEF vars, run, RunInv, TypeOK
  <2>2. CASE NoneNested
    BY <2>1, <2>2, SameFrames DEF NoneNested, RunInv, own
  <2>3. CASE ReturnToLast \/ ReturnToUser
    BY <2>1, <2>3, ReturnFrames DEF ReturnToLast, ReturnToUser, returns_to, RunInv
  <2> QED BY <2>2, <2>3
<1> QED BY <1>1, <1>2 DEF RunInv, TypeOK, ProgTypeOK, Stops, Answered, vars, run

\* The user says run again.
LEMMA AgainKeeps ==
  ASSUME RunInv, RunAgain
  PROVE  RunInv'
<1>1. /\ at' = "load" /\ start0' = nstep /\ steps0' \in Limits /\ brk' \in Limits
      /\ stack' = <<frame(root, steps0')>> /\ cleaned' = FALSE
      /\ UNCHANGED <<vars, root, ret, after_fp>>
  BY DEF RunAgain
<1>2. FramesOK'
  <2> DEFINE n == steps0'
             f == frame(root, n)
  <2>1. root \in Prog /\ n \in Limits /\ n \in Nat /\ nstep \in Nat /\ nstep' = nstep
    BY <1>1, RunProgAssumption, PfpAssumption DEF RunInv, ProgTypeOK, TypeOK, vars
  <2>2. /\ <<f>> \in Seq(Frame) /\ Len(<<f>>) = 1 /\ <<f>> # << >> /\ f = <<f>>[1]
        /\ f.begstep = nstep /\ f.next = 1 /\ f.steps = n /\ 1 <= Len(nps(f)) + 1
    <3> HIDE DEF n
    <3> QED BY <2>1, FirstFrame
  <2>3. stack' = <<f>> /\ limit' = nstep + n
    BY <1>1 DEF limit
  <2> HIDE DEF n, f
  <2>4. /\ f.begstep <= nstep' /\ f.next <= Len(nps(f)) + 1
        /\ (f.steps + f.begstep) % SizeMod = limit' % SizeMod
    BY <2>1, <2>2, <2>3
  <2>5. \A i \in 1 .. Len(stack') : stack'[i] = f
    BY <2>2, <2>3
  <2>6. (\A i \in 1 .. Len(stack) : good(stack[i]))'
    BY <2>4, <2>5 DEF good, nps
  <2>7. top' = f
    BY <2>2, <2>3 DEF top
  <2> QED BY <1>1, <2>1, <2>2, <2>3, <2>6, <2>7 DEF FramesOK, own
<1>3. TypeOK'
  BY <1>1 DEF RunInv, TypeOK, vars
<1>4. ProgTypeOK'
  <2>1. nstep' = nstep /\ nstep \in Nat /\ cleaned' \in BOOLEAN
    BY <1>1 DEF vars, RunInv, TypeOK
  <2>2. start0' \in Nat /\ start0' <= nstep'
    BY <1>1, <2>1
  <2> QED BY <1>1, <2>1, <2>2 DEF RunInv, ProgTypeOK
<1> QED BY <1>1, <1>2, <1>3, <1>4 DEF RunInv, Stops, Answered

\* Every step keeps RunInv.
LEMMA RunStepKeeps == RunInv /\ [RunNext]_allVars => RunInv'
<1> SUFFICES ASSUME RunInv, [RunNext]_allVars PROVE RunInv'
  OBVIOUS
<1>1. CASE UNCHANGED allVars
  <2>1. UNCHANGED <<vars, root, stack, start0, steps0, brk, at, ret, after_fp, cleaned>>
    BY <1>1 DEF allVars, progVars
  <2>2. FramesOK'
    BY <2>1 DEF RunInv, FramesOK, good, nps, limit, own, top, vars
  <2>3. IInv' <=> IInv
    BY <2>1 DEF vars, IInv, TypeOK, Running, FrontsFollow, chained, NoRevisit, Reentry
  <2>4. Answer' <=> Answer
    BY <2>1 DEF vars, Answer, FixedPointIsReal, InfloopIsReal, lap, limited
  <2>5. FixedSeen' <=> FixedSeen
    BY <2>1 DEF vars, FixedSeen, lap
  <2> QED BY <2>1, <2>2, <2>3, <2>4, <2>5
          DEF vars, RunInv, TypeOK, ProgTypeOK, Stops, Answered, Running
<1> QED BY <1>1, LoadKeeps, PfpKeeps, CleanUpKeeps, CallsKeep, ReturnsKeep, AgainKeeps
        DEF RunNext, Step, Idle

\* What the proofs of the properties below stand on: where a program was entered, what
\* its fronts are, and what the frames below it have.
THEOREM RunInvAlways == RunSpec => []RunInv
BY BeginsWell, RunStepKeeps, PTL DEF RunSpec

\* However programs are nested and however often they are run, the fronts a
\* program is judged by are its own.
THEOREM FrontsOfOneProgramAlways == RunSpec => []FrontsOfOneProgram
<1>1. RunInv => FrontsOfOneProgram
  BY DEF RunInv, Answered, IInv, FrontsOfOneProgram
<1> QED BY <1>1, RunInvAlways, PTL

\* Nested programs start from a database in which the program they are in, or
\* the clean-up after it, has come to rest.
THEOREM NestedFromFixedPointAlways == RunSpec => []NestedFromFixedPoint
<1>1. RunInv => NestedFromFixedPoint
  BY DEF RunInv, Answered, FixedSeen, NestedFromFixedPoint, runs_nested
<1> QED BY <1>1, RunInvAlways, PTL

\* Once a program was halted or contradicted itself no program of the run, and
\* of no later run, touches the database or takes a step.
THEOREM StoppedForGoodAlways == RunSpec => StoppedForGood
<1>1. RunInv /\ [RunNext]_allVars => [halt \/ unsat => UNCHANGED <<tbls, nstep>>]_allVars
  <2> SUFFICES ASSUME RunInv, RunNext, halt \/ unsat
               PROVE  UNCHANGED <<tbls, nstep>> \/ UNCHANGED allVars
    OBVIOUS
  <2>1. ~Loads
    BY DEF Loads, Flags
  <2>2. CASE PfpStep
    <3>1. ~Iterate
      BY <2>2 DEF PfpStep, Iterate, RunInv, Stops, Running
    <3> QED BY <2>2, <3>1 DEF PfpStep, Enter
  <2>3. CASE LoadFails \/ CleanUp \/ CleanUpFails
    BY <2>3 DEF LoadFails, CleanUp, CleanUpFails
  <2>4. CASE PfpReturns \/ NoCleanUp \/ FirstNested \/ NoneNested \/ ReturnToNext
             \/ ReturnToLast \/ ReturnToUser \/ RunAgain \/ Idle
    BY <2>4 DEF PfpReturns, NoCleanUp, FirstNested, NoneNested, ReturnToNext, CallNext,
                ReturnToLast, ReturnToUser, RunAgain, Idle, allVars, vars
  <2> QED BY <2>1, <2>2, <2>3, <2>4 DEF RunNext, Step, LoadRules, LoadFacts
<1> QED BY <1>1, RunInvAlways, PTL DEF RunSpec, StoppedForGood
----------------------------------------------------------------------------
(* Step limits. *)

\* The number of the run's last step is one that size_t has.
Fits == limit < SizeMod

\* A remainder of what is smaller than the divisor.
LEMMA SmallRemainder ==
  ASSUME NEW x \in Nat, x < SizeMod
  PROVE  x % SizeMod = x
<1>1. SizeMod \in Nat \ {0}
  BY RunProgAssumption
<1> QED BY <1>1

\* The numbers of the budget.
LEMMA LimitType ==
  ASSUME RunInv
  PROVE  steps0 \in Nat /\ start0 \in Nat /\ start0 <= nstep /\ nstep \in Nat /\ limit \in Nat
         /\ brk \in Nat /\ SizeMod \in Nat \ {0}
BY PfpAssumption, RunProgAssumption DEF RunInv, ProgTypeOK, TypeOK, limit

\* pfp is given the limit of the run, or none when nothing is left.
LEMMA LoadLimit ==
  ASSUME RunInv, Fits, at = "load"
  PROVE  /\ (nstep + top.steps) % SizeMod = limit
         /\ nstep < limit => top.steps # 0
<1>1. top \in Frame /\ good(top) /\ top.begstep = nstep
  BY TopFrame DEF RunInv, FramesOK
<1>2. top.steps \in Nat /\ nstep \in Nat /\ limit \in Nat
  BY <1>1, LimitType DEF Frame
<1>3. limit % SizeMod = limit
  BY <1>2, SmallRemainder DEF Fits
<1>4. (top.steps + nstep) % SizeMod = limit
  BY <1>1, <1>3 DEF good
<1>5. top.steps + nstep = nstep + top.steps
  BY <1>2
<1>6. ASSUME nstep < limit, top.steps = 0 PROVE FALSE
  <2>1. nstep < SizeMod
    BY <1>2, <1>6, LimitType DEF Fits
  <2>2. nstep % SizeMod = nstep
    BY <1>2, <2>1, SmallRemainder
  <2>3. top.steps + nstep = nstep
    BY <1>2, <1>6
  <2> QED BY <1>2, <1>4, <1>6, <2>2, <2>3
<1> QED BY <1>4, <1>5, <1>6

\* A frame that has steps of its own left is not at the end of the run.
LEMMA StepsLeft ==
  ASSUME RunInv, Fits, nstep <= limit, NEW f \in Frame, good(f), nstep - f.begstep < f.steps
  PROVE  nstep < limit
<1> DEFINE w == f.steps + f.begstep
<1>1. /\ f.steps \in 0 .. SizeMod - 1 /\ f.begstep \in Nat /\ f.begstep <= nstep
      /\ nstep \in Nat /\ limit \in Nat /\ SizeMod \in Nat \ {0} /\ limit < SizeMod
  BY LimitType DEF Frame, good, Fits
<1>2. w % SizeMod = limit
  BY <1>1, SmallRemainder DEF good
<1>3. w \in Nat /\ nstep < w /\ w < limit + SizeMod
  BY <1>1
<1>4. CASE w < SizeMod
  <2>1. w % SizeMod = w
    <3> HIDE DEF w
    <3> QED BY <1>3, <1>4, SmallRemainder
  <2> QED BY <1>2, <1>3, <2>1
<1>5. CASE w >= SizeMod
  <2> DEFINE r == w - SizeMod
  <2>1. r \in 0 .. SizeMod - 1 /\ w = 1 * SizeMod + r
    BY <1>1, <1>3, <1>5
  <2>2. w % SizeMod = r
    <3> HIDE DEF w, r
    <3> QED BY <1>1, <1>3, <2>1, Remainder
  <2> QED BY <1>1, <1>2, <1>3, <2>2
<1> QED BY <1>1, <1>3, <1>4, <1>5

\* An iteration that pushes a front answers yes only short of the limit.
LEMMA FinishBudget ==
  ASSUME RunInv, InBudget, ~fp_step, ~cleaned, steps0 # 0, at = "pfp",
         NEW out, Finish(out)
  PROVE  /\ nstep' <= limit
         /\ pc' # "done" => nstep' < limit
         /\ result' => nstep' < limit \/ halt'
         /\ nsteps' = limit
<1>1. /\ pc = "loop" /\ nstep' = nstep + 1 /\ nsteps' = nsteps
  BY FinishArgs
<1>2. nsteps = limit /\ nstep < limit /\ nstep \in Nat /\ limit \in Nat
      /\ (result => nstep < limit \/ halt)
  BY <1>1, LimitType DEF InBudget
<1>3. nstep' <= limit /\ (nstep' # limit => nstep' < limit)
  BY <1>1, <1>2
<1>4. nstep' = nsteps => at_limit
  BY <1>1, <1>2 DEF at_limit
<1>5. CASE Halted(out)
  BY <1>1, <1>2, <1>3, <1>5 DEF Halted, Return
<1>6. CASE FixedPointStep(out)
  BY <1>6 DEF FixedPointStep, wants_fp_fact
<1>7. CASE Contradiction(out) \/ LimitReached(out) \/ InfloopDetected(out)
  BY <1>1, <1>2, <1>3, <1>7 DEF Contradiction, LimitReached, InfloopDetected, Return
<1>8. CASE FixedPoint(out) \/ Continue(out)
  BY <1>1, <1>2, <1>3, <1>4, <1>8 DEF FixedPoint, Continue
<1> QED BY <1>5, <1>6, <1>7, <1>8 DEF Finish

\* Every step keeps within the budget.
LEMMA BudgetKeeps ==
  ASSUME RunInv, InBudget, Fits, [RunNext]_allVars
  PROVE  InBudget'
<1>1. /\ steps0 \in Nat /\ start0 \in Nat /\ start0 <= nstep /\ nstep \in Nat /\ limit \in Nat
  BY LimitType
<1>2. CASE LoadFails
  BY <1>2 DEF LoadFails, InBudget, run, limit
<1>3. CASE LoadRules \/ LoadFacts
  <2>1. /\ at = "load" /\ ~halt /\ ~unsat /\ ~halt' /\ ~unsat'
        /\ UNCHANGED <<fp_step, nstep, result, start0, steps0, cleaned>>
    BY <1>3 DEF LoadRules, LoadFacts, Loads, Flags, run
  <2>2. CASE LoadFacts
    BY <2>1, <2>2 DEF LoadFacts, InBudget, limit
  <2>3. CASE LoadRules
    <3>1. at' = "pfp" /\ pc' = "enter"
          /\ nsteps' = IF top.steps = 0 THEN 0 ELSE (nstep + top.steps) % SizeMod
      BY <2>3 DEF LoadRules
    <3>2. (nstep + top.steps) % SizeMod = limit /\ (nstep < limit => top.steps # 0)
      BY <2>1, LoadLimit
    <3>3. limit' = limit
      BY <2>1 DEF limit
    <3> QED BY <2>1, <3>1, <3>2, <3>3 DEF InBudget
  <2> QED BY <1>3, <2>2, <2>3
<1>4. CASE PfpStep
  <2>1. at \in {"pfp", "after"} /\ UNCHANGED <<at, start0, steps0, cleaned, ret>>
    BY <1>4 DEF PfpStep, progVars
  <2>2. limit' = limit
    BY <2>1 DEF limit
  <2>3. CASE Enter
    BY <2>1, <2>2, <2>3 DEF Enter, args, InBudget
  <2>4. CASE Iterate
    <3>1. PICK out : Finish(out)
      BY <2>4 DEF Iterate
    <3>2. fp_step' = fp_step
      BY <3>1, FinishArgs
    <3>3. ~fp_step /\ ~cleaned /\ steps0 # 0 => at = "pfp"
      BY <2>1 DEF InBudget
    <3> QED BY <2>1, <2>2, <3>1, <3>2, <3>3, FinishBudget DEF InBudget
  <2> QED BY <1>4, <2>3, <2>4 DEF PfpStep
<1>5. CASE PfpReturns
  BY <1>5 DEF PfpReturns, vars, run, InBudget, limit
<1>6. CASE CleanUp \/ CleanUpFails \/ NoCleanUp
  BY <1>6 DEF CleanUp, CleanUpFails, NoCleanUp, cleans_up, vars, run, InBudget, limit
<1>7. CASE FirstNested
  BY <1>7 DEF FirstNested, runs_nested, CallNext, vars, run, InBudget, limit
<1>8. CASE ReturnToNext
  <2>1. /\ at = "return" /\ Len(stack) > 1 /\ ~gives_up /\ at' = "load"
        /\ UNCHANGED <<vars, run, ret, cleaned>>
    BY <1>8 DEF ReturnToNext, returns_to, CallNext
  <2>2. caller \in Frame /\ good(caller)
    <3>1. Len(stack) \in Nat /\ stack \in Seq(Frame)
      BY LenProperties DEF RunInv, FramesOK
    <3>2. Len(stack) - 1 \in 1 .. Len(stack)
      BY <2>1, <3>1
    <3> QED BY <3>1, <3>2, ElementOfSeq DEF caller, RunInv, FramesOK
  <2>3. ASSUME ~ret, nstep <= limit PROVE nstep < limit
    <3>1. caller.steps \in Nat /\ caller.begstep \in Nat
      BY <2>2 DEF Frame
    <3>2. nstep - caller.begstep < caller.steps
      BY <1>1, <2>1, <2>3, <3>1 DEF gives_up
    <3> QED BY <2>2, <2>3, <3>2, StepsLeft
  <2> QED BY <2>1, <2>3 DEF InBudget, vars, run, limit
<1>9. CASE NoneNested \/ ReturnToLast \/ ReturnToUser
  BY <1>9 DEF NoneNested, ReturnToLast, ReturnToUser, returns_to, vars, run, InBudget, limit
<1>10. CASE RunAgain
  <2>1. steps0' \in Nat /\ start0' = nstep /\ nstep' = nstep /\ at' = "load"
    BY <1>10, PfpAssumption DEF RunAgain, vars
  <2>2. limit' = nstep + steps0'
    BY <2>1 DEF limit
  <2>3. steps0' # 0 => nstep' < limit' /\ nstep' <= limit'
    <3> DEFINE n == steps0'
    <3>1. n \in Nat /\ nstep \in Nat
      BY <1>1, <2>1
    <3> HIDE DEF n
    <3>2. n # 0 => nstep < nstep + n /\ nstep <= nstep + n
      BY <3>1
    <3>3. limit' = nstep + n /\ nstep' = nstep
      BY <2>1, <2>2 DEF n
    <3>4. n # 0 => nstep' < limit' /\ nstep' <= limit'
      BY <3>2, <3>3
    <3> QED BY <3>4 DEF n
  <2> QED BY <2>1, <2>3 DEF InBudget
<1>11. CASE UNCHANGED allVars
  BY <1>11 DEF allVars, vars, progVars, InBudget, limit
<1> QED
  BY <1>2, <1>3, <1>4, <1>5, <1>6, <1>7, <1>8, <1>9, <1>10, <1>11 DEF RunNext, Step, Idle

\* Whatever an iteration ends with, a run without a limit is not cut off.
LEMMA FinishNoLimit ==
  ASSUME RunInv, NoLimit, steps0 = 0, brk = 0, at \in {"pfp", "after"},
         NEW out, Finish(out)
  PROVE  /\ break_on_step' = 0
         /\ nsteps' <= nstep'
         /\ pc' = "done" /\ ~result' => unsat' \/ is_infloop(fronts')
<1>1. /\ nstep' = nstep + 1 /\ pc = "loop"
      /\ \/ nsteps' = nsteps /\ break_on_step' = break_on_step
         \/ fp_step /\ nsteps' = 0 /\ break_on_step' = 0 /\ pc' = "enter"
  BY FinishArgs
<1>2. nsteps <= nstep /\ break_on_step = 0 /\ nstep \in Nat /\ nsteps \in Nat
  BY DEF NoLimit, RunInv, TypeOK
<1>3. ~at_limit
  BY <1>1, <1>2 DEF at_limit
<1>4. break_on_step' = 0 /\ nsteps' <= nstep'
  BY <1>1, <1>2
<1> QED BY <1>1, <1>3, <1>4
        DEF Finish, Halted, FixedPointStep, Contradiction, LimitReached, InfloopDetected,
            FixedPoint, Continue, Return, Pushed, Called

\* A program that was given no limit has none, but for a broken one.
LEMMA NoLimitKeeps ==
  ASSUME RunInv, NoLimit, Fits, [RunNext]_allVars
  PROVE  NoLimit'
<1>1. start0 <= nstep /\ nstep \in Nat /\ limit = start0 + steps0 /\ start0 \in Nat
  BY LimitType DEF limit
<1>2. CASE LoadRules
  <2>1. /\ at = "load" /\ pc' = "enter" /\ break_on_step' = brk
        /\ nsteps' = IF top.steps = 0 THEN 0 ELSE (nstep + top.steps) % SizeMod
        /\ UNCHANGED <<nstep, steps0, brk>>
    BY <1>2 DEF LoadRules, Loads, run
  <2>2. (nstep + top.steps) % SizeMod = limit
    BY <2>1, LoadLimit
  <2> QED BY <1>1, <2>1, <2>2 DEF NoLimit
<1>3. CASE PfpStep
  <2>1. at \in {"pfp", "after"} /\ UNCHANGED <<at, start0, steps0, brk>>
    BY <1>3 DEF PfpStep, progVars
  <2>2. CASE Enter
    BY <2>1, <2>2 DEF Enter, NoLimit
  <2>3. CASE Iterate
    BY <2>1, <2>3, FinishNoLimit DEF Iterate, NoLimit
  <2> QED BY <1>3, <2>2, <2>3 DEF PfpStep
<1>4. CASE CleanUp
  BY <1>1, <1>4 DEF CleanUp, NoLimit
<1>5. CASE UNCHANGED allVars
  BY <1>5 DEF allVars, vars, progVars, NoLimit
<1>6. CASE at' \notin {"pfp", "after"}
  BY <1>6 DEF NoLimit
<1> QED BY <1>2, <1>3, <1>4, <1>5, <1>6
        DEF RunNext, Step, Idle, LoadFails, LoadFacts, PfpReturns, CleanUpFails, NoCleanUp,
            FirstNested, NoneNested, ReturnToNext, CallNext, ReturnToLast, returns_to,
            ReturnToUser, RunAgain

\* As long as the number of the last step is one that size_t has, a run that was
\* given n steps makes no more than n, and one that was given no limit is cut off
\* by none, however its programs are nested.
THEOREM StepsBudgetHolds == RunSpec /\ []Fits => []StepsBudget
<1>1. RunInit => InBudget /\ NoLimit
  <2> SUFFICES ASSUME RunInit PROVE InBudget /\ NoLimit
    OBVIOUS
  <2>1. /\ steps0 \in Nat /\ limit = steps0 /\ nstep = 0 /\ at = "load" /\ start0 = 0
    BY PfpAssumption DEF RunInit, limit
  <2> QED BY <2>1 DEF InBudget, NoLimit
<1>2. RunInv /\ InBudget /\ NoLimit /\ Fits /\ [RunNext]_allVars => InBudget' /\ NoLimit'
  BY BudgetKeeps, NoLimitKeeps
<1>3. RunInv /\ InBudget /\ NoLimit => StepsBudget
  <2> SUFFICES ASSUME RunInv, InBudget, NoLimit PROVE StepsBudget
    OBVIOUS
  <2>1. ~fp_step /\ ~cleaned /\ steps0 # 0 => nstep <= start0 + steps0
    BY DEF InBudget, limit
  <2> QED BY <2>1 DEF NoLimit, StepsBudget
<1> QED BY <1>1, <1>2, <1>3, RunInvAlways, PTL DEF RunSpec
=============================================================================
