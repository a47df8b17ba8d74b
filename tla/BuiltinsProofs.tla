--------------------------- MODULE BuiltinsProofs ---------------------------
(***************************************************************************)
(* What the cache of builtin calls guarantees, for every set of            *)
(* alternatives and every relation they may be asked with.                 *)
(*                                                                         *)
(* The outputs of an evaluation are determined by the cache alone when all *)
(* its calls are cached: a path notes what the contexts have put out at    *)
(* each call, and every call of the path is in the cache with what it adds *)
(* to them.  The path of a first answer leads every later evaluation to    *)
(* the same one, because the cache only grows until it is forgotten.       *)
(***************************************************************************)
EXTENDS Builtins, TLAPS

Outs == Seq(Nat \cup {Cardinality(r) : r \in SUBSET Values})

least(g, S) == g \in S /\ \A h \in S : g <= h

BuiltinsTypeOK ==
  /\ program \subseteq DOMAIN Alts
  /\ relation \subseteq Values
  /\ cache = [k \in DOMAIN cache |-> cache[k]]
  /\ \A k \in DOMAIN cache :
       k.alt \in DOMAIN Alts /\ k.term \in Term /\ ~k.term.renew /\ ~k.term.forget
  /\ \A k \in DOMAIN cache : cache[k] \in Outs
  /\ asked \in [DOMAIN Alts -> SUBSET SUBSET Values]
  /\ alt = NoAlt => todo = {} /\ nth = 1
  /\ alt # NoAlt => /\ alt \in DOMAIN Alts /\ nth \in DOMAIN Alts[alt] /\ todo \subseteq Nat
                    /\ outs \in [DOMAIN Alts[alt] -> Outs]
                    /\ relation \in asked[alt]
                    /\ todo = {} => nth = 1
  /\ answer # NoAnswer => /\ answer.alt \in DOMAIN Alts
                          /\ answer.outs \in [DOMAIN Alts[answer.alt] -> Outs]

\* What the calls of count have put out was counted at the right time, in the
\* cache, in the evaluation under way and in its answer.
times(a, i, r) == IF Alts[a][i].renew \/ Alts[a][i].forget THEN {r} ELSE asked[a]

Counted(s, T) == \A n \in DOMAIN s : \E r \in T : s[n] = Cardinality(r)

CountedInv ==
  /\ \A k \in DOMAIN cache : k.term.name = "count" => Counted(cache[k], asked[k.alt])
  /\ alt # NoAlt =>
       \A i \in DOMAIN Alts[alt] :
         Alts[alt][i].name = "count" => Counted(outs[i], times(alt, i, relation))
  /\ answer # NoAnswer =>
       \A i \in DOMAIN answer.outs :
         Alts[answer.alt][i].name = "count" =>
           Counted(answer.outs[i], times(answer.alt, i, answer.relation))

\* What was heard and is kept is in the cache, under the key it is looked up by:
\* println puts nothing out, so the key is the same for each of its calls.
HeardInv ==
  /\ \A k \in DOMAIN cache : k.term.name = "println" => cache[k] = <<>>
  /\ alt # NoAlt =>
       \A i \in DOMAIN Alts[alt] : Alts[alt][i].name = "println" => outs[i] = <<>>
  /\ \A k \in DOMAIN said :
       /\ k[1] \in DOMAIN Alts /\ k[2] \in DOMAIN Alts[k[1]]
       /\ Alts[k[1]][k[2]].name = "println"
       /\ LET t == Alts[k[1]][k[2]]
          IN  ~t.renew /\ ~t.forget => said[k] <= 1 /\ key(k[1], t, k[3], <<>>) \in DOMAIN cache

\* A position of an evaluation: the groundings that are left and the builtin that
\* is called next.  P is a path to the position `end`.
start(a, r) == <<IF bltinvars(a) THEN r ELSE {0}, 1>>

after(a, p, g) == IF p[2] = Len(Alts[a]) THEN <<p[1] \ {g}, 1>> ELSE <<p[1], p[2] + 1>>

call_at(a, p, g, os) == key(a, Alts[a][p[2]], g, os[p[2]])

Follows(a, P, p) ==
  \A g \in p[1] :
    least(g, p[1]) =>
      /\ call_at(a, p, g, P[p]) \in DOMAIN cache
      /\ after(a, p, g) \in DOMAIN P
      /\ P[after(a, p, g)] = [P[p] EXCEPT ![p[2]] = cache[call_at(a, p, g, P[p])]]

Path(a, r, P, end) ==
  /\ start(a, r) \in DOMAIN P /\ P[start(a, r)] = no_outs(a)
  /\ end \in DOMAIN P
  /\ \A p \in DOMAIN P :
       end[1] \subseteq p[1] /\ p[2] \in Nat /\ (p[1] = end[1] => p[2] <= end[2])
  /\ \A p \in DOMAIN P : p # end => Follows(a, P, p)

over == <<{}, 1>>

PathTo(a, r, P, os) == Path(a, r, P, over) /\ P[over] = os

\* Every first answer has its path; an evaluation under way has one as far as it
\* has come, and is on the path of the first answer when there is one.
StableInv ==
  /\ \A a \in DOMAIN Alts, r \in SUBSET Values :
       <<a, r>> \in DOMAIN first /\ cached(a) => \E P : PathTo(a, r, P, first[<<a, r>>])
  /\ alt # NoAlt /\ cached(alt) =>
       \E P : Path(alt, relation, P, <<todo, nth>>) /\ P[<<todo, nth>>] = outs
  /\ alt # NoAlt /\ cached(alt) /\ <<alt, relation>> \in DOMAIN first =>
       \E P : /\ PathTo(alt, relation, P, first[<<alt, relation>>])
              /\ <<todo, nth>> \in DOMAIN P /\ P[<<todo, nth>>] = outs
  /\ answer # NoAnswer => <<answer.alt, answer.relation>> \in DOMAIN first
  /\ StableAnswers

BuiltinsInv == BuiltinsTypeOK /\ CountedInv /\ HeardInv /\ StableInv
----------------------------------------------------------------------------
(* Operators. *)

\* The program's alternatives call builtins.
LEMMA AltsType ==
  ASSUME NEW a \in DOMAIN Alts
  PROVE  /\ Alts[a] \in Seq(Term) /\ Len(Alts[a]) \in Nat /\ Len(Alts[a]) >= 1
         /\ DOMAIN Alts[a] = 1 .. Len(Alts[a])
         /\ a # NoAlt
<1>1. Alts[a] \in Seq(Term) /\ Alts[a] # <<>> /\ a # NoAlt
  BY BuiltinsAssumption
<1> QED
  BY <1>1

\* What is emplaced is there, and what was there is as it was (map::emplace).
LEMMA Emplaced ==
  ASSUME NEW f, NEW k, NEW v
  PROVE  /\ DOMAIN emplaced(f, k, v) = DOMAIN f \cup {k}
         /\ \A x \in DOMAIN f : emplaced(f, k, v)[x] = f[x]
         /\ k \notin DOMAIN f => emplaced(f, k, v)[k] = v
         /\ emplaced(f, k, v) = [x \in DOMAIN emplaced(f, k, v) |-> emplaced(f, k, v)[x]]
  BY DEF emplaced

\* What a handler puts out goes behind what its context has put out.
LEMMA HandledType ==
  ASSUME BuiltinsTypeOK, alt # NoAlt, NEW g \in todo, NEW out \in handled(called, g)
  PROVE  /\ outs[nth] \o out \in Outs
         /\ called.name = "println" => outs[nth] \o out = outs[nth]
         /\ called.name = "count" => outs[nth] \o out = Append(outs[nth], Cardinality(relation))
<1>1. called \in Term
  BY AltsType DEF BuiltinsTypeOK, called
<1>2. outs[nth] \in Outs /\ g \in Nat
  BY DEF BuiltinsTypeOK
<1>3. relation \in SUBSET Values
  BY DEF BuiltinsTypeOK
<1>4. CASE called.name = "rnd"
  <2>1. PICK n \in 0 .. g : out = <<n>>
    BY <1>4 DEF handled
  <2> QED
    BY <1>2, <1>4, <2>1 DEF Outs
<1>5. CASE called.name = "count"
  <2>1. out = <<Cardinality(relation)>>
    BY <1>5 DEF handled
  <2>2. Cardinality(relation) \in {Cardinality(r) : r \in SUBSET Values}
    BY <1>3
  <2> QED
    BY <1>2, <1>5, <2>1, <2>2 DEF Outs
<1>6. CASE called.name = "println"
  <2>1. out = <<>>
    BY <1>6 DEF handled
  <2> QED
    BY <1>2, <1>6, <2>1 DEF Outs
<1> QED
  BY <1>1, <1>4, <1>5, <1>6 DEF Term

\* A call of the builtin that is next, found in the cache or handled.
Calls(g) == alt # NoAlt /\ least(g, todo) /\ (Remembered(g) \/ Handled(g)) /\ NextCall(g)

\* A call changes what its own context has put out and leaves the answer in the
\* cache, unless its term asks for no such thing; the cache only grows.
LEMMA CallGives ==
  ASSUME BuiltinsTypeOK, NEW g, Calls(g)
  PROVE  /\ nth \in DOMAIN outs /\ outs' = [outs EXCEPT ![nth] = outs'[nth]]
         /\ outs'[nth] \in Outs
         /\ \A k \in DOMAIN cache : k \in DOMAIN cache' /\ cache'[k] = cache[k]
         /\ \A k \in DOMAIN cache' :
              k \notin DOMAIN cache =>
                k = asks(g) /\ ~called.renew /\ ~called.forget /\ cache'[k] = outs'[nth]
         /\ ~called.renew /\ ~called.forget =>
              asks(g) \in DOMAIN cache' /\ cache'[asks(g)] = outs'[nth]
         /\ cache' = [k \in DOMAIN cache' |-> cache'[k]]
<1>1. nth \in DOMAIN outs /\ g \in todo /\ outs \in [DOMAIN outs -> Outs]
  BY DEF BuiltinsTypeOK, Calls, least
<1>2. CASE Remembered(g)
  <2>1. outs'[nth] = cache[asks(g)] /\ cache' = cache /\ asks(g) \in DOMAIN cache
    BY <1>1, <1>2 DEF Remembered, known
  <2> QED
    BY <1>1, <1>2, <2>1 DEF Remembered, BuiltinsTypeOK
<1>3. CASE Handled(g)
  <2>1. PICK out \in handled(called, g) :
          /\ outs' = [outs EXCEPT ![nth] = @ \o out]
          /\ cache' = IF called.forget \/ called.renew THEN cache
                      ELSE emplaced(cache, asks(g), outs'[nth])
    BY <1>3 DEF Handled
  <2>2. outs'[nth] = outs[nth] \o out /\ outs'[nth] \in Outs
    BY <1>1, <2>1, HandledType DEF Calls
  <2>3. CASE called.forget \/ called.renew
    BY <1>1, <2>1, <2>2, <2>3 DEF BuiltinsTypeOK
  <2>4. CASE ~(called.forget \/ called.renew)
    <3>1. asks(g) \notin DOMAIN cache
      BY <1>3, <2>4 DEF Handled, known
    <3>2. cache' = emplaced(cache, asks(g), outs'[nth])
      BY <2>1, <2>4
    <3>3. /\ DOMAIN cache' = DOMAIN cache \cup {asks(g)}
          /\ \A x \in DOMAIN cache : cache'[x] = cache[x]
          /\ cache'[asks(g)] = outs'[nth]
          /\ cache' = [x \in DOMAIN cache' |-> cache'[x]]
      BY <3>1, <3>2 DEF emplaced
    <3> QED
      BY <1>1, <2>1, <2>2, <2>4, <3>3
  <2> QED
    BY <2>3, <2>4
<1> QED
  BY <1>2, <1>3 DEF Calls

\* What the evaluation goes on with.
LEMMA CallGoesOn ==
  ASSUME BuiltinsTypeOK, NEW g, Calls(g)
  PROVE  /\ alt \in DOMAIN Alts /\ g \in Nat
         /\ <<todo', nth'>> = after(alt, <<todo, nth>>, g)
         /\ todo' \subseteq todo /\ nth' \in DOMAIN Alts[alt]
         /\ todo' = {} => nth' = 1
         /\ todo' = todo => nth' = nth + 1
         /\ todo # {} /\ nth \in Nat /\ nth' \in Nat
         /\ todo' # todo => nth' = 1
<1>1. alt \in DOMAIN Alts /\ nth \in DOMAIN Alts[alt] /\ g \in todo /\ todo \subseteq Nat
  BY DEF BuiltinsTypeOK, Calls, least
<1>2. nth \in 1 .. Len(Alts[alt]) /\ DOMAIN Alts[alt] = 1 .. Len(Alts[alt]) /\ Len(Alts[alt]) \in Nat
  BY <1>1, AltsType
<1>3. CASE nth = Len(Alts[alt])
  BY <1>1, <1>2, <1>3 DEF Calls, NextCall, after
<1>4. CASE nth # Len(Alts[alt])
  BY <1>1, <1>2, <1>4 DEF Calls, NextCall, after
<1> QED
  BY <1>3, <1>4
----------------------------------------------------------------------------
(* Every step keeps the invariant, part by part. *)

RunsBody(g) == Calls(g) /\ UNCHANGED <<program, relation, alt, answer, first, asked>>

\* A turn of body_builtins is a call for the least grounding left.
LEMMA RunBodyIs ==
  ASSUME RunBody
  PROVE  \E g : RunsBody(g)
  BY DEF RunBody, RunsBody, Calls, least

\* Every step keeps the types.
LEMMA TypeStep ==
  ASSUME BuiltinsTypeOK, BuiltinsNext
  PROVE  BuiltinsTypeOK'
<1>1. ASSUME NEW a \in program, AltQuery(a) PROVE BuiltinsTypeOK'
  <2>1. a \in DOMAIN Alts /\ a # NoAlt /\ 1 \in DOMAIN Alts[a]
    BY AltsType DEF BuiltinsTypeOK
  <2>2. todo' \subseteq Nat /\ todo' # {}
    <3>1. todo' = (IF bltinvars(a) THEN relation ELSE {0}) /\ relation # {}
      BY <1>1 DEF AltQuery
    <3>2. relation \subseteq Nat
      BY BuiltinsAssumption DEF BuiltinsTypeOK
    <3> QED
      BY <3>1, <3>2
  <2>3. outs' \in [DOMAIN Alts[a] -> Outs]
    BY <1>1 DEF AltQuery, no_outs, Outs
  <2>4. asked' \in [DOMAIN Alts -> SUBSET SUBSET Values] /\ relation \in asked'[a]
    BY <1>1, <2>1 DEF AltQuery, BuiltinsTypeOK
  <2> QED
    BY <1>1, <2>1, <2>2, <2>3, <2>4 DEF AltQuery, BuiltinsTypeOK
<1>2. ASSUME NEW g, RunsBody(g) PROVE BuiltinsTypeOK'
  <2>1. Calls(g)
    BY <1>2 DEF RunsBody
  <2>2. \A k \in DOMAIN cache' :
          /\ k.alt \in DOMAIN Alts /\ k.term \in Term /\ ~k.term.renew /\ ~k.term.forget
          /\ cache'[k] \in Outs
    <3> SUFFICES ASSUME NEW k \in DOMAIN cache', k \notin DOMAIN cache
                 PROVE  /\ k.alt \in DOMAIN Alts /\ k.term \in Term
                        /\ ~k.term.renew /\ ~k.term.forget
                        /\ cache'[k] \in Outs
      BY <2>1, CallGives DEF BuiltinsTypeOK
    <3>1. k = asks(g) /\ ~called.renew /\ ~called.forget /\ cache'[k] \in Outs
      BY <2>1, CallGives
    <3>2. called \in Term /\ alt \in DOMAIN Alts
      BY <2>1, AltsType DEF BuiltinsTypeOK, Calls, called
    <3>3. k.alt = alt /\ k.term = called
      BY <3>1 DEF asks, key
    <3> QED
      BY <3>1, <3>2, <3>3
  <2>3. outs' \in [DOMAIN Alts[alt] -> Outs]
    <3>1. outs' = [outs EXCEPT ![nth] = outs'[nth]] /\ outs'[nth] \in Outs
      BY <2>1, CallGives
    <3> QED
      BY <2>1, <3>1 DEF BuiltinsTypeOK, Calls
  <2>4. cache' = [k \in DOMAIN cache' |-> cache'[k]]
    BY <2>1, CallGives
  <2>5. alt # NoAlt /\ todo' \subseteq Nat /\ nth' \in DOMAIN Alts[alt] /\ (todo' = {} => nth' = 1)
    BY <2>1, CallGoesOn DEF BuiltinsTypeOK, Calls
  <2> QED
    BY <1>2, <2>2, <2>3, <2>4, <2>5 DEF RunsBody, BuiltinsTypeOK
<1>3. CASE Collect
  BY <1>3 DEF Collect, BuiltinsTypeOK
<1>4. CASE Commit
  BY <1>4 DEF Commit, evaluation, history, BuiltinsTypeOK
<1>5. CASE Forget
  BY <1>5 DEF Forget, evaluation, NoFunction, NoAnswer, BuiltinsTypeOK
<1> QED
  BY <1>1, <1>2, <1>3, <1>4, <1>5, RunBodyIs DEF BuiltinsNext

\* Every step keeps that counts are of relations asked.
LEMMA CountedStep ==
  ASSUME BuiltinsTypeOK, CountedInv, BuiltinsNext
  PROVE  CountedInv'
<1>1. ASSUME NEW a \in program, AltQuery(a) PROVE CountedInv'
  <2>1. /\ a \in DOMAIN Alts /\ a # NoAlt /\ DOMAIN asked' = DOMAIN Alts
        /\ \A b \in DOMAIN Alts : asked[b] \subseteq asked'[b]
    BY <1>1, AltsType DEF BuiltinsTypeOK, AltQuery
  <2>2. /\ cache' = cache /\ answer' = answer /\ relation' = relation
        /\ alt' = a /\ outs' = no_outs(a)
    BY <1>1 DEF AltQuery
  <2>3. \A k \in DOMAIN cache' : k.term.name = "count" => Counted(cache'[k], asked'[k.alt])
    BY <2>1, <2>2 DEF BuiltinsTypeOK, CountedInv, Counted
  <2>4. \A i \in DOMAIN Alts[a] : Counted(outs'[i], times(a, i, relation)')
    BY <2>2 DEF no_outs, Counted
  <2>5. ASSUME answer # NoAnswer, NEW i \in DOMAIN answer.outs,
               Alts[answer.alt][i].name = "count"
        PROVE  Counted(answer.outs[i], times(answer.alt, i, answer.relation)')
    <3>1. Counted(answer.outs[i], times(answer.alt, i, answer.relation))
      BY <2>5 DEF CountedInv
    <3>2. answer.alt \in DOMAIN Alts
      BY <2>5 DEF BuiltinsTypeOK
    <3>3. times(answer.alt, i, answer.relation) \subseteq times(answer.alt, i, answer.relation)'
      BY <2>1, <2>2, <3>2 DEF times
    <3> QED
      BY <3>1, <3>3 DEF Counted
  <2> QED
    BY <2>2, <2>3, <2>4, <2>5 DEF CountedInv
<1>2. ASSUME NEW g, RunsBody(g) PROVE CountedInv'
  <2>1. Calls(g) /\ alt # NoAlt /\ alt \in DOMAIN Alts /\ nth \in DOMAIN outs
    BY <1>2, CallGives, CallGoesOn DEF RunsBody, Calls
  <2>2. relation' = relation /\ alt' = alt /\ answer' = answer /\ asked' = asked
    BY <1>2 DEF RunsBody
  <2>3. relation \in asked[alt] /\ called = Alts[alt][nth]
    BY <2>1 DEF BuiltinsTypeOK, called
  <2>4. called.name = "count" => Counted(outs'[nth], times(alt, nth, relation))
    <3> SUFFICES ASSUME called.name = "count"
                 PROVE  Counted(outs'[nth], times(alt, nth, relation))
      OBVIOUS
    <3>1. CASE Remembered(g)
      <4>1. outs'[nth] = cache[asks(g)] /\ asks(g) \in DOMAIN cache
        BY <2>1, <3>1 DEF Remembered, known
      <4>2. asks(g).alt = alt /\ asks(g).term = called
        BY DEF asks, key
      <4>3. Counted(cache[asks(g)], asked[alt])
        BY <4>1, <4>2 DEF CountedInv
      <4>4. ~called.renew /\ ~called.forget
        BY <4>1, <4>2 DEF BuiltinsTypeOK
      <4>5. times(alt, nth, relation) = asked[alt]
        BY <2>3, <4>4 DEF times
      <4> QED
        BY <4>1, <4>3, <4>5
    <3>2. CASE Handled(g)
      <4>1. PICK out \in handled(called, g) : outs' = [outs EXCEPT ![nth] = @ \o out]
        BY <3>2 DEF Handled
      <4>2. outs'[nth] = Append(outs[nth], Cardinality(relation)) /\ outs[nth] \in Outs
        BY <2>1, <4>1, HandledType DEF Calls, least, BuiltinsTypeOK
      <4>3. Counted(outs[nth], times(alt, nth, relation))
        BY <2>1, <2>3 DEF CountedInv, BuiltinsTypeOK
      <4>4. relation \in times(alt, nth, relation)
        BY <2>3 DEF times
      <4>5. ASSUME NEW n \in DOMAIN outs'[nth]
            PROVE  \E r \in times(alt, nth, relation) : outs'[nth][n] = Cardinality(r)
        <5>1. n \in DOMAIN outs[nth] \/ outs'[nth][n] = Cardinality(relation)
          BY <4>2, <4>5 DEF Outs
        <5>2. n \in DOMAIN outs[nth] => outs'[nth][n] = outs[nth][n]
          BY <4>2 DEF Outs
        <5> QED
          BY <4>3, <4>4, <5>1, <5>2 DEF Counted
      <4> QED
        BY <4>5 DEF Counted
    <3> QED
      BY <2>1, <3>1, <3>2 DEF Calls
  <2>5. ASSUME NEW k \in DOMAIN cache', k.term.name = "count"
        PROVE  Counted(cache'[k], asked[k.alt])
    <3>1. CASE k \in DOMAIN cache
      BY <2>1, <2>5, <3>1, CallGives DEF CountedInv
    <3>2. CASE k \notin DOMAIN cache
      <4>1. k = asks(g) /\ ~called.renew /\ ~called.forget /\ cache'[k] = outs'[nth]
        BY <2>1, <3>2, CallGives
      <4>2. k.alt = alt /\ k.term = called
        BY <4>1 DEF asks, key
      <4>3. times(alt, nth, relation) = asked[alt]
        BY <2>3, <4>1 DEF times
      <4> QED
        BY <2>4, <2>5, <4>1, <4>2, <4>3
    <3> QED
      BY <3>1, <3>2
  <2>6. ASSUME NEW i \in DOMAIN Alts[alt], Alts[alt][i].name = "count"
        PROVE  Counted(outs'[i], times(alt, i, relation))
    <3>1. i # nth => outs'[i] = outs[i]
      BY <2>1, CallGives DEF BuiltinsTypeOK
    <3> QED
      BY <2>1, <2>3, <2>4, <2>6, <3>1 DEF CountedInv
  <2>7. \A a, i, r : times(a, i, r)' = times(a, i, r)
    BY <2>2 DEF times
  <2> QED
    BY <2>1, <2>2, <2>5, <2>6, <2>7 DEF CountedInv, times
<1>3. CASE Collect
  <2>1. /\ alt \in DOMAIN Alts /\ outs \in [DOMAIN Alts[alt] -> Outs] /\ alt # NoAlt
        /\ alt' = NoAlt /\ cache' = cache /\ asked' = asked
        /\ answer'.alt = alt /\ answer'.relation = relation /\ answer'.outs = outs
    BY <1>3 DEF Collect, BuiltinsTypeOK
  <2> QED
    BY <2>1 DEF CountedInv, times
<1>4. CASE Commit
  BY <1>4 DEF Commit, evaluation, history, CountedInv, times
<1>5. CASE Forget
  BY <1>5 DEF Forget, evaluation, NoFunction, CountedInv
<1> QED
  BY <1>1, <1>2, <1>3, <1>4, <1>5, RunBodyIs DEF BuiltinsNext

\* Every step keeps that what was heard is remembered.
LEMMA HeardStep ==
  ASSUME BuiltinsTypeOK, HeardInv, BuiltinsNext
  PROVE  HeardInv'
<1>1. ASSUME NEW a \in program, AltQuery(a) PROVE HeardInv'
  <2>1. alt' = a /\ outs' = no_outs(a) /\ cache' = cache /\ said' = said
    BY <1>1 DEF AltQuery
  <2> QED
    BY <2>1 DEF HeardInv, no_outs
<1>2. ASSUME NEW g, RunsBody(g) PROVE HeardInv'
  <2>1. /\ Calls(g) /\ alt # NoAlt /\ alt \in DOMAIN Alts /\ nth \in DOMAIN outs
        /\ nth \in DOMAIN Alts[alt] /\ alt' = alt
    BY <1>2, CallGives, CallGoesOn DEF RunsBody, Calls, BuiltinsTypeOK
  <2>2. called = Alts[alt][nth]
    BY DEF called
  <2>3. called.name = "println" => outs[nth] = <<>> /\ outs'[nth] = <<>>
    <3> SUFFICES ASSUME called.name = "println" PROVE outs[nth] = <<>> /\ outs'[nth] = <<>>
      OBVIOUS
    <3>1. outs[nth] = <<>>
      BY <2>1, <2>2 DEF HeardInv
    <3>2. CASE Remembered(g)
      <4>1. outs'[nth] = cache[asks(g)] /\ asks(g) \in DOMAIN cache
        BY <2>1, <3>2 DEF Remembered, known
      <4>2. asks(g).term = called
        BY DEF asks, key
      <4> QED
        BY <3>1, <4>1, <4>2 DEF HeardInv
    <3>3. CASE Handled(g)
      <4>1. PICK out \in handled(called, g) : outs' = [outs EXCEPT ![nth] = @ \o out]
        BY <3>3 DEF Handled
      <4> QED
        BY <2>1, <3>1, <4>1, HandledType DEF Calls, least
    <3> QED
      BY <2>1, <3>2, <3>3 DEF Calls
  <2>4. \A k \in DOMAIN cache' : k.term.name = "println" => cache'[k] = <<>>
    <3> SUFFICES ASSUME NEW k \in DOMAIN cache', k.term.name = "println", k \notin DOMAIN cache
                 PROVE  cache'[k] = <<>>
      BY <2>1, CallGives DEF HeardInv
    <3>1. k = asks(g) /\ cache'[k] = outs'[nth]
      BY <2>1, CallGives
    <3>2. k.term = called
      BY <3>1 DEF asks, key
    <3> QED
      BY <2>3, <3>1, <3>2
  <2>5. \A i \in DOMAIN Alts[alt] : Alts[alt][i].name = "println" => outs'[i] = <<>>
    <3> SUFFICES ASSUME NEW i \in DOMAIN Alts[alt], Alts[alt][i].name = "println"
                 PROVE  outs'[i] = <<>>
      OBVIOUS
    <3>1. i # nth => outs'[i] = outs[i]
      BY <2>1, CallGives DEF BuiltinsTypeOK
    <3> QED
      BY <2>1, <2>2, <2>3, <3>1 DEF HeardInv
  <2>6. ASSUME NEW k \in DOMAIN said'
        PROVE  /\ k[1] \in DOMAIN Alts /\ k[2] \in DOMAIN Alts[k[1]]
               /\ Alts[k[1]][k[2]].name = "println"
               /\ LET t == Alts[k[1]][k[2]]
                  IN  ~t.renew /\ ~t.forget =>
                        said'[k] <= 1 /\ key(k[1], t, k[3], <<>>) \in DOMAIN cache'
    <3>1. CASE k \in DOMAIN said /\ said'[k] = said[k]
      <4>1. \A x : x \in DOMAIN cache => x \in DOMAIN cache'
        BY <2>1, CallGives
      <4> QED
        BY <3>1, <4>1 DEF HeardInv
    <3>2. CASE ~(k \in DOMAIN said /\ said'[k] = said[k])
      <4>1. Handled(g)
        BY <2>1, <2>6, <3>2 DEF Calls, Remembered
      <4>2. Heard(g) /\ ~known(g)
        BY <4>1 DEF Handled
      <4>3. called.name = "println" /\ k = <<alt, nth, g>> /\ said'[k] = heard(k)
        BY <2>6, <3>2, <4>2 DEF Heard
      <4>4. k[1] = alt /\ k[2] = nth /\ k[3] = g
        BY <4>3
      <4>5. asks(g) = key(alt, called, g, <<>>)
        BY <2>3, <4>3 DEF asks
      <4>6. ASSUME ~called.renew, ~called.forget
            PROVE  said'[k] <= 1 /\ key(alt, called, g, <<>>) \in DOMAIN cache'
        <5>1. asks(g) \notin DOMAIN cache
          BY <4>2, <4>6 DEF known
        <5>2. k \notin DOMAIN said
          BY <2>2, <4>4, <4>5, <4>6, <5>1 DEF HeardInv
        <5>3. said'[k] = (IF 0 < SaidBound THEN 0 + 1 ELSE 0)
          BY <4>3, <5>2 DEF heard
        <5> QED
          BY <2>1, <4>5, <4>6, <5>3, CallGives
      <4> QED
        BY <2>1, <2>2, <4>3, <4>4, <4>6
    <3> QED
      BY <3>1, <3>2
  <2> QED
    BY <2>1, <2>4, <2>5, <2>6 DEF HeardInv
<1>3. CASE Collect
  BY <1>3 DEF Collect, HeardInv
<1>4. CASE Commit
  BY <1>4 DEF Commit, evaluation, history, HeardInv
<1>5. CASE Forget
  BY <1>5 DEF Forget, evaluation, NoFunction, HeardInv
<1> QED
  BY <1>1, <1>2, <1>3, <1>4, <1>5, RunBodyIs DEF BuiltinsNext

\* The cache grows: what follows at a position still does.
LEMMA FollowsOn ==
  ASSUME NEW a, NEW P, NEW p, Follows(a, P, p),
         \A k \in DOMAIN cache : k \in DOMAIN cache' /\ cache'[k] = cache[k]
  PROVE  Follows(a, P, p)'
  BY DEF Follows, call_at, after, key, grounds, least

\* A path that is over is a path in a cache that has grown.
LEMMA PathGrows ==
  ASSUME NEW a, NEW r, NEW P, NEW end, Path(a, r, P, end),
         \A k \in DOMAIN cache : k \in DOMAIN cache' /\ cache'[k] = cache[k]
  PROVE  Path(a, r, P, end)'
<1>1. \A p \in DOMAIN P : p # end => Follows(a, P, p)'
  BY FollowsOn DEF Path
<1> QED
  BY <1>1 DEF Path, start, no_outs, bltinvars, grounds

\* While nothing is cached or forgotten the first answers keep their paths.
LEMMA FirstKept ==
  ASSUME StableInv,
         \A k \in DOMAIN cache : k \in DOMAIN cache' /\ cache'[k] = cache[k],
         NEW a \in DOMAIN Alts, NEW r \in SUBSET Values, <<a, r>> \in DOMAIN first, cached(a),
         first'[<<a, r>>] = first[<<a, r>>]
  PROVE  \E P : PathTo(a, r, P, first[<<a, r>>])'
<1>1. PICK P : PathTo(a, r, P, first[<<a, r>>])
  BY DEF StableInv
<1>2. Path(a, r, P, over)'
  BY <1>1, PathGrows DEF PathTo, over
<1> QED
  BY <1>1, <1>2 DEF PathTo, over

\* A call that is cached takes the evaluation one position on.
LEMMA CallOnPath ==
  ASSUME BuiltinsTypeOK, NEW g, Calls(g), cached(alt),
         NEW a, a = alt, NEW p, p = <<todo, nth>>,
         NEW P, p \in DOMAIN P, P[p] = outs,
         after(a, p, g) \in DOMAIN P, P[after(a, p, g)] = outs'
  PROVE  Follows(a, P, p)'
<1>1. p[1] = todo /\ p[2] = nth
  OBVIOUS
<1>2. \A h \in todo : least(h, todo) => h = g
  <2>1. g \in todo /\ todo \subseteq Nat /\ \A h \in todo : g <= h
    BY DEF Calls, least, BuiltinsTypeOK
  <2> QED
    BY <2>1 DEF least
<1>3. call_at(a, p, g, outs) = asks(g)
  BY <1>1 DEF call_at, asks, called
<1>4. ~called.renew /\ ~called.forget
  BY DEF cached, called, BuiltinsTypeOK, Calls
<1>5. /\ asks(g) \in DOMAIN cache' /\ cache'[asks(g)] = outs'[nth]
      /\ outs' = [outs EXCEPT ![nth] = outs'[nth]]
  BY <1>4, CallGives
<1>6. \A h \in p[1] : least(h, p[1]) =>
        /\ call_at(a, p, h, P[p]) \in DOMAIN cache'
        /\ after(a, p, h) \in DOMAIN P
        /\ P[after(a, p, h)] = [P[p] EXCEPT ![p[2]] = cache'[call_at(a, p, h, P[p])]]
  <2> SUFFICES ASSUME NEW h \in p[1], least(h, p[1])
               PROVE  /\ call_at(a, p, h, P[p]) \in DOMAIN cache'
                      /\ after(a, p, h) \in DOMAIN P
                      /\ P[after(a, p, h)] =
                           [P[p] EXCEPT ![p[2]] = cache'[call_at(a, p, h, P[p])]]
    OBVIOUS
  <2>1. h = g
    BY <1>1, <1>2
  <2>2. call_at(a, p, h, P[p]) = asks(g)
    BY <1>3, <2>1
  <2> QED
    BY <1>1, <1>5, <2>1, <2>2
<1> QED
  BY <1>6 DEF Follows, call_at, after, key, grounds, least

\* A path that is followed as far as it has been cached is followed further.
LEMMA PathExtended ==
  ASSUME BuiltinsTypeOK, NEW g, Calls(g), cached(alt),
         NEW a, a = alt, NEW r, NEW p, p = <<todo, nth>>,
         NEW P, Path(a, r, P, p), P[p] = outs
  PROVE  \E Q : Path(a, r, Q, <<todo, nth>>)' /\ Q[<<todo', nth'>>] = outs'
<1>1. PICK n : n = after(a, p, g)
  OBVIOUS
<1>2. n = <<todo', nth'>>
  BY <1>1, CallGoesOn
<1>3. n[1] = todo' /\ n[2] = nth' /\ p[1] = todo /\ p[2] = nth
  BY <1>2
<1>4. /\ todo' \subseteq todo /\ nth \in Nat /\ nth' \in Nat
      /\ todo' = todo => nth' = nth + 1
      /\ todo' # todo => nth' = 1
  BY CallGoesOn
<1>5. \A x \in DOMAIN P :
        todo \subseteq x[1] /\ x[2] \in Nat /\ (x[1] = todo => x[2] <= nth)
  BY <1>3 DEF Path
<1>6. n \notin DOMAIN P
  <2> SUFFICES ASSUME n \in DOMAIN P PROVE FALSE
    OBVIOUS
  <2>1. todo \subseteq todo' /\ (todo' = todo => nth' <= nth)
    BY <1>3, <1>5
  <2>2. todo' = todo
    BY <1>4, <2>1
  <2> QED
    BY <1>4, <2>1, <2>2
<1>7. PICK Q : Q = [x \in DOMAIN P \cup {n} |-> IF x = n THEN outs' ELSE P[x]]
  OBVIOUS
<1>8. Q[n] = outs' /\ n \in DOMAIN Q /\ DOMAIN Q = DOMAIN P \cup {n}
  BY <1>7
<1>9. \A x \in DOMAIN P : x \in DOMAIN Q /\ Q[x] = P[x]
  BY <1>6, <1>7
<1>10. p \in DOMAIN P /\ p # n
  BY <1>6 DEF Path
<1>11. \A x \in DOMAIN Q : n[1] \subseteq x[1] /\ x[2] \in Nat /\ (x[1] = n[1] => x[2] <= n[2])
  <2>1. ASSUME NEW x \in DOMAIN P
        PROVE  todo' \subseteq x[1] /\ x[2] \in Nat /\ (x[1] = todo' => x[2] <= nth')
    <3>1. todo \subseteq x[1] /\ x[2] \in Nat /\ (x[1] = todo => x[2] <= nth)
      BY <1>5
    <3>2. CASE todo' = todo
      BY <1>4, <3>1, <3>2
    <3>3. CASE todo' # todo
      BY <1>4, <3>1, <3>3
    <3> QED
      BY <3>2, <3>3
  <2> QED
    BY <1>3, <1>4, <1>8, <2>1
<1>12. ASSUME NEW x \in DOMAIN Q, x # n PROVE Follows(a, Q, x)'
  <2>1. x \in DOMAIN P
    BY <1>8, <1>12
  <2>2. CASE x = p
    <3>1. p \in DOMAIN Q /\ Q[p] = outs /\ n \in DOMAIN Q /\ Q[n] = outs'
      BY <1>8, <1>9, <1>10
    <3>2. Follows(a, Q, p)'
      BY <1>1, <3>1, CallOnPath
    <3> QED
      BY <2>2, <3>2
  <2>3. CASE x # p
    <3>1. Follows(a, P, x)
      BY <2>1, <2>3 DEF Path
    <3>2. Follows(a, Q, x)
      BY <1>8, <1>9, <2>1, <3>1 DEF Follows
    <3>3. \A k \in DOMAIN cache : k \in DOMAIN cache' /\ cache'[k] = cache[k]
      BY CallGives
    <3> QED
      BY <3>2, <3>3, FollowsOn
  <2> QED
    BY <2>2, <2>3
<1>13. start(a, r) \in DOMAIN Q /\ Q[start(a, r)] = no_outs(a)
  BY <1>9 DEF Path
<1>14. Path(a, r, Q, n)'
  BY <1>8, <1>11, <1>12, <1>13 DEF Path, start, no_outs, bltinvars, grounds
<1> QED
  BY <1>2, <1>8, <1>14

\* An evaluation that is on the path of a first answer stays on it.
LEMMA StaysOnPath ==
  ASSUME BuiltinsTypeOK, NEW g, Calls(g), cached(alt),
         NEW a, a = alt, NEW r, NEW p, p = <<todo, nth>>,
         NEW P, Path(a, r, P, over), p \in DOMAIN P, P[p] = outs
  PROVE  <<todo', nth'>> \in DOMAIN P /\ P[<<todo', nth'>>] = outs'
<1>1. p[1] = todo /\ p[2] = nth /\ least(g, todo) /\ todo # {}
  BY CallGoesOn DEF Calls
<1>2. Follows(a, P, p)
  BY <1>1 DEF Path, over
<1>3. call_at(a, p, g, outs) = asks(g)
  BY <1>1 DEF call_at, asks, called
<1>4. <<todo', nth'>> = after(a, p, g)
  BY CallGoesOn
<1>5. /\ asks(g) \in DOMAIN cache
      /\ after(a, p, g) \in DOMAIN P
      /\ P[after(a, p, g)] = [outs EXCEPT ![nth] = cache[asks(g)]]
  BY <1>1, <1>2, <1>3 DEF Follows, least
<1>6. ~called.renew
  BY DEF cached, called, BuiltinsTypeOK, Calls
<1>7. Remembered(g)
  BY <1>5, <1>6 DEF Calls, Handled, known
<1>8. outs' = [outs EXCEPT ![nth] = cache[asks(g)]]
  BY <1>7 DEF Remembered
<1> QED
  BY <1>4, <1>5, <1>8

\* Every step keeps the paths through the cache.
LEMMA StableStep ==
  ASSUME BuiltinsTypeOK, StableInv, BuiltinsNext
  PROVE  StableInv'
<1>1. ASSUME NEW a \in program, AltQuery(a) PROVE StableInv'
  <2>1. /\ a \in DOMAIN Alts /\ alt' = a /\ relation' = relation /\ cache' = cache
        /\ first' = first /\ answer' = answer /\ outs' = no_outs(a)
        /\ <<todo', nth'>> = start(a, relation)
    BY <1>1 DEF AltQuery, BuiltinsTypeOK, start
  <2>2. PICK r : r = relation
    OBVIOUS
  <2>3. r \in SUBSET Values
    BY <2>2 DEF BuiltinsTypeOK
  <2>4. PICK p : p = start(a, r)
    OBVIOUS
  <2>5. \A b \in DOMAIN Alts, s \in SUBSET Values :
          <<b, s>> \in DOMAIN first /\ cached(b) => \E P : PathTo(b, s, P, first[<<b, s>>])'
    BY <2>1, FirstKept
  <2>6. cached(a) => \E P : Path(a, r, P, p)' /\ P[p] = outs'
    <3>1. PICK P : P = [x \in {p} |-> no_outs(a)]
      OBVIOUS
    <3>2. DOMAIN P = {p} /\ P[p] = no_outs(a) /\ p[2] = 1
      BY <2>4, <3>1 DEF start
    <3>3. Path(a, r, P, p)'
      BY <2>4, <3>2 DEF Path, start, no_outs, bltinvars, grounds
    <3> QED
      BY <2>1, <3>2, <3>3
  <2>7. cached(a) /\ <<a, r>> \in DOMAIN first =>
          \E P : PathTo(a, r, P, first[<<a, r>>])' /\ p \in DOMAIN P /\ P[p] = outs'
    <3> SUFFICES ASSUME cached(a), <<a, r>> \in DOMAIN first
                 PROVE  \E P : PathTo(a, r, P, first[<<a, r>>])' /\ p \in DOMAIN P /\ P[p] = outs'
      OBVIOUS
    <3>1. PICK P : PathTo(a, r, P, first[<<a, r>>])'
      BY <2>1, <2>3, <2>5
    <3>2. (p \in DOMAIN P /\ P[p] = no_outs(a))'
      BY <2>4, <3>1 DEF PathTo, Path, start, no_outs, bltinvars, grounds
    <3> QED
      BY <2>1, <3>1, <3>2 DEF no_outs
  <2> QED
    BY <2>1, <2>2, <2>4, <2>5, <2>6, <2>7 DEF StableInv, StableAnswers, cached
<1>2. ASSUME NEW g, RunsBody(g) PROVE StableInv'
  <2>1. /\ Calls(g) /\ alt # NoAlt /\ alt' = alt /\ relation' = relation
        /\ first' = first /\ answer' = answer
    BY <1>2 DEF RunsBody, Calls
  <2>2. \A k \in DOMAIN cache : k \in DOMAIN cache' /\ cache'[k] = cache[k]
    BY <2>1, CallGives
  <2>3. PICK a, r, p : a = alt /\ r = relation /\ p = <<todo, nth>>
    OBVIOUS
  <2>4. a \in DOMAIN Alts /\ r \in SUBSET Values
    BY <2>1, <2>3 DEF BuiltinsTypeOK
  <2>5. \A b \in DOMAIN Alts, s \in SUBSET Values :
          <<b, s>> \in DOMAIN first /\ cached(b) => \E P : PathTo(b, s, P, first[<<b, s>>])'
    BY <2>1, <2>2, FirstKept
  <2>6. cached(a) => \E P : Path(a, r, P, <<todo, nth>>)' /\ P[<<todo', nth'>>] = outs'
    <3> SUFFICES ASSUME cached(alt)
                 PROVE  \E P : Path(a, r, P, <<todo, nth>>)' /\ P[<<todo', nth'>>] = outs'
      BY <2>3
    <3>1. PICK P : Path(a, r, P, p) /\ P[p] = outs
      BY <2>1, <2>3 DEF StableInv
    <3> QED
      BY <2>1, <2>3, <3>1, PathExtended
  <2>7. cached(a) /\ <<a, r>> \in DOMAIN first =>
          \E P : /\ PathTo(a, r, P, first[<<a, r>>])'
                 /\ <<todo', nth'>> \in DOMAIN P /\ P[<<todo', nth'>>] = outs'
    <3> SUFFICES ASSUME cached(alt), <<a, r>> \in DOMAIN first
                 PROVE  \E P : /\ PathTo(a, r, P, first[<<a, r>>])'
                               /\ <<todo', nth'>> \in DOMAIN P /\ P[<<todo', nth'>>] = outs'
      BY <2>3
    <3>1. PICK P : PathTo(a, r, P, first[<<a, r>>]) /\ p \in DOMAIN P /\ P[p] = outs
      BY <2>1, <2>3 DEF StableInv
    <3>2. Path(a, r, P, over)'
      BY <2>2, <3>1, PathGrows DEF PathTo, over
    <3>3. PathTo(a, r, P, first[<<a, r>>])'
      BY <2>1, <3>1, <3>2 DEF PathTo, over
    <3>4. <<todo', nth'>> \in DOMAIN P /\ P[<<todo', nth'>>] = outs'
      BY <2>1, <2>3, <3>1, StaysOnPath DEF PathTo
    <3> QED
      BY <3>3, <3>4
  <2> QED
    BY <2>1, <2>3, <2>5, <2>6, <2>7 DEF StableInv, StableAnswers, cached
<1>3. CASE Collect
  <2>1. /\ alt \in DOMAIN Alts /\ alt # NoAlt /\ alt' = NoAlt /\ <<todo, nth>> = over
        /\ cache' = cache /\ relation \in SUBSET Values
        /\ first' = emplaced(first, <<alt, relation>>, outs)
        /\ answer' = [alt |-> alt, relation |-> relation, outs |-> outs]
    BY <1>3 DEF Collect, BuiltinsTypeOK, over
  <2>2. PICK a, r : a = alt /\ r = relation
    OBVIOUS
  <2>3. /\ DOMAIN first' = DOMAIN first \cup {<<a, r>>}
        /\ \A x \in DOMAIN first : first'[x] = first[x]
        /\ <<a, r>> \notin DOMAIN first => first'[<<a, r>>] = outs
    BY <2>1, <2>2 DEF emplaced
  <2>4. ASSUME NEW b \in DOMAIN Alts, NEW s \in SUBSET Values, <<b, s>> \in DOMAIN first', cached(b)
        PROVE  \E P : PathTo(b, s, P, first[<<b, s>>])'
    <3>1. CASE <<b, s>> \in DOMAIN first
      BY <2>1, <2>3, <2>4, <3>1, FirstKept
    <3>2. CASE <<b, s>> \notin DOMAIN first
      <4>1. b = a /\ s = r /\ first'[<<b, s>>] = outs
        BY <2>3, <2>4, <3>2
      <4>2. PICK P : Path(b, s, P, over) /\ P[over] = outs
        BY <2>1, <2>2, <2>4, <4>1 DEF StableInv
      <4>3. Path(b, s, P, over)'
        BY <2>1, <4>2, PathGrows DEF over
      <4> QED
        BY <4>1, <4>2, <4>3 DEF PathTo, over
    <3> QED
      BY <3>1, <3>2
  <2>5. cached(a) => outs = first'[<<a, r>>]
    <3>1. CASE <<a, r>> \in DOMAIN first
      BY <2>1, <2>2, <2>3, <3>1 DEF StableInv, PathTo
    <3> QED
      BY <2>3, <3>1
  <2>6. answer'.alt = a /\ answer'.relation = r /\ answer'.outs = outs
    BY <2>1, <2>2
  <2>7. <<a, r>> \in DOMAIN first'
    BY <2>3
  <2>8. (answer # NoAnswer => <<answer.alt, answer.relation>> \in DOMAIN first)'
    BY <2>6, <2>7
  <2>9. StableAnswers'
    BY <2>5, <2>6 DEF StableAnswers, cached
  <2> QED
    BY <2>1, <2>4, <2>8, <2>9 DEF StableInv
<1>4. CASE Commit
  <2>1. /\ alt = NoAlt /\ alt' = NoAlt /\ cache' = cache /\ first' = first /\ answer' = answer
    BY <1>4 DEF Commit, evaluation, history
  <2>2. \A b \in DOMAIN Alts, s \in SUBSET Values :
          <<b, s>> \in DOMAIN first /\ cached(b) => \E P : PathTo(b, s, P, first[<<b, s>>])'
    BY <2>1, FirstKept
  <2> QED
    BY <2>1, <2>2 DEF StableInv, StableAnswers, cached
<1>5. CASE Forget
  BY <1>5 DEF Forget, evaluation, NoFunction, StableInv, StableAnswers
<1> QED
  BY <1>1, <1>2, <1>3, <1>4, <1>5, RunBodyIs DEF BuiltinsNext
----------------------------------------------------------------------------
(* The theorems. *)

\* At first nothing is cached.
LEMMA BuiltinsInit_Inv ==
  ASSUME BuiltinsInit
  PROVE  BuiltinsInv
<1>1. BuiltinsTypeOK
  BY BuiltinsAssumption DEF BuiltinsInit, BuiltinsTypeOK, NoFunction
<1>2. CountedInv /\ HeardInv /\ StableInv
  BY DEF BuiltinsInit, CountedInv, HeardInv, StableInv, StableAnswers, NoFunction
<1> QED
  BY <1>1, <1>2 DEF BuiltinsInv

\* Nothing changes when nothing changes.
LEMMA BuiltinsStutter ==
  ASSUME BuiltinsInv, UNCHANGED vars
  PROVE  BuiltinsInv'
<1>1. BuiltinsTypeOK'
  BY DEF vars, evaluation, history, BuiltinsInv, BuiltinsTypeOK
<1>2. CountedInv' /\ HeardInv'
  BY DEF vars, evaluation, history, BuiltinsInv, CountedInv, times, HeardInv
<1>3. \A b \in DOMAIN Alts, s \in SUBSET Values :
        <<b, s>> \in DOMAIN first /\ cached(b) => \E P : PathTo(b, s, P, first[<<b, s>>])'
  BY FirstKept DEF vars, evaluation, history, BuiltinsInv
<1>4. PICK a, r, p : a = alt /\ r = relation /\ p = <<todo, nth>>
  OBVIOUS
<1>5. \A P, end : Path(a, r, P, end) => Path(a, r, P, end)'
  BY PathGrows DEF vars, evaluation, history
<1>6. /\ alt' = alt /\ relation' = relation /\ todo' = todo /\ nth' = nth /\ outs' = outs
      /\ first' = first /\ answer' = answer
  BY DEF vars, evaluation, history
<1>7. alt # NoAlt /\ cached(alt) => \E P : Path(a, r, P, p)' /\ P[p] = outs
  BY <1>4, <1>5 DEF BuiltinsInv, StableInv
<1>8. alt # NoAlt /\ cached(alt) /\ <<alt, relation>> \in DOMAIN first =>
        \E P : PathTo(a, r, P, first[<<a, r>>])' /\ p \in DOMAIN P /\ P[p] = outs
  BY <1>4, <1>5, <1>6 DEF BuiltinsInv, StableInv, PathTo, over
<1>9. StableInv'
  BY <1>3, <1>4, <1>6, <1>7, <1>8 DEF BuiltinsInv, StableInv, StableAnswers, cached
<1> QED
  BY <1>1, <1>2, <1>9 DEF BuiltinsInv

\* The invariant holds in every state of every run.
THEOREM BuiltinsInvAlways == BuiltinsSpec => []BuiltinsInv
<1>1. BuiltinsInit => BuiltinsInv
  BY BuiltinsInit_Inv
<1>2. BuiltinsInv /\ [BuiltinsNext]_vars => BuiltinsInv'
  BY TypeStep, CountedStep, HeardStep, StableStep, BuiltinsStutter DEF BuiltinsInv
<1> QED
  BY <1>1, <1>2, PTL DEF BuiltinsSpec

\* An alternative whose calls are cached gives one relation one answer until the
\* cache is forgotten, for every set of alternatives (builtins::run).
THEOREM StableAnswersAlways == BuiltinsSpec => []StableAnswers
<1>1. BuiltinsInv => StableAnswers
  BY DEF BuiltinsInv, StableInv
<1> QED
  BY <1>1, BuiltinsInvAlways, PTL

\* What is counted was in the relation at a time since the last forget, and in
\* this evaluation's when the call is renewed or not kept (count of
\* init_builtins).
THEOREM CountedSinceForgetAlways == BuiltinsSpec => []CountedSinceForget
<1>1. BuiltinsInv => CountedSinceForget
  BY DEF BuiltinsInv, CountedInv, Counted, times, CountedSinceForget
<1> QED
  BY <1>1, BuiltinsInvAlways, PTL

\* A cached call is heard once until the cache is forgotten (println and
\* builtins::run).
THEOREM HeardOnceAlways == BuiltinsSpec => []HeardOnce
<1>1. BuiltinsInv => HeardOnce
  BY DEF BuiltinsInv, HeardInv, HeardOnce
<1> QED
  BY <1>1, BuiltinsInvAlways, PTL
=============================================================================
