------------------------------ MODULE Builtins ------------------------------
(****************************************************************************)
(* Builtins in the bodies of rules, and the cache of their calls            *)
(* (builtins.cpp, builtins.h, tables_builtins.cpp).                         *)
(*                                                                          *)
(* An alternative asks a relation and calls builtins.  Each time fwd comes  *)
(* to it, body_builtins decompresses the query of the builtins' input       *)
(* variables and runs every builtin once for every grounding, or once when  *)
(* nothing is to be grounded; what they put out is conjoined with the       *)
(* answers of the body.  A call is looked up in the cache first, by the     *)
(* alternative, the grounded term with its modifiers and what the call's    *)
(* context has put out so far.                                              *)
(*                                                                          *)
(* The relation is a set of numbers, free to change between evaluations as  *)
(* the tables do from step to step.                                         *)
(****************************************************************************)
EXTENDS Naturals, Sequences, FiniteSets

CONSTANTS
    Alts,       \* alternatives: a function from names to sequences of terms
    Programs,   \* sets of alternatives that make a program
    Values,     \* what the relation may hold
    SaidBound   \* bound: how often one call is counted as heard

NoAlt == "none"
Term  == [name : {"rnd", "count", "println"}, renew : BOOLEAN, forget : BOOLEAN]

ASSUME BuiltinsAssumption ==
    /\ Values \subseteq Nat /\ SaidBound \in Nat
    /\ Programs \subseteq SUBSET DOMAIN Alts
    /\ \A a \in DOMAIN Alts : Alts[a] \in Seq(Term) /\ Alts[a] # <<>>
    /\ NoAlt \notin DOMAIN Alts

VARIABLES
    program,    \* the alternatives of the program that runs
    cache,      \* blt_cache: a function from keys to outputs
    relation,   \* what the body of every alternative asks
    alt,        \* the alternative whose builtins are run
    todo,       \* the groundings decompression has still to come to
    nth,        \* the builtin that is called next
    outs,       \* what the context of each builtin has put out
    answer,     \* what the last evaluation put out: [alt, relation, outs]
    first,      \* history: the first answer of an alternative to a relation,
                \*   since the cache was forgotten
    asked,      \* history: the relations an alternative was evaluated with, since
    said        \* history: how often a call was heard, since
evaluation == <<alt, todo, nth, outs>>
history    == <<first, asked, said>>
vars == <<program, cache, relation, evaluation, answer, history>>

NoFunction == [k \in {} |-> <<>>]
NoAnswer   == [alt |-> NoAlt, relation |-> {}, outs |-> <<>>]

\* map::emplace: a value that is there stays
emplaced(f, k, v) == [x \in DOMAIN f \cup {k} |-> IF x \in DOMAIN f THEN f[x] ELSE v]

\* Does a builtin ground what it is called with?  count has variable arguments,
\* the last of them its output, and none of the others is grounded.
grounds(t) == t.name # "count"
bltinvars(a) == \E i \in DOMAIN Alts[a] : grounds(Alts[a][i])

\* What a handler may answer.  rnd draws from 0 to its grounded argument, count
\* counts what the body has found.
handled(t, g) ==
    CASE t.name = "rnd"     -> {<<n>> : n \in 0..g}
      [] t.name = "count"   -> {<<Cardinality(relation)>>}
      [] t.name = "println" -> {<<>>}

key(a, t, g, out) == [alt |-> a, term |-> t, ground |-> IF grounds(t) THEN g ELSE 0, outs |-> out]

no_outs(a) == [i \in DOMAIN Alts[a] |-> <<>>]

BuiltinsInit ==
    /\ program \in Programs
    /\ cache = NoFunction /\ relation = {} /\ answer = NoAnswer
    /\ alt = NoAlt /\ todo = {} /\ nth = 1 /\ outs = <<>>
    /\ first = NoFunction
    /\ asked = [a \in DOMAIN Alts |-> {}]
    /\ said = NoFunction

\* alt_query, where the alternative calls builtins: nothing runs when the query
\* for the groundings fails.  When nothing is to be grounded, every builtin is
\* run once.
AltQuery(a) ==
    /\ alt = NoAlt /\ relation # {}
    /\ alt' = a /\ nth' = 1 /\ outs' = no_outs(a)
    /\ todo' = IF bltinvars(a) THEN relation ELSE {0}
    /\ asked' = [asked EXCEPT ![a] = @ \cup {relation}]
    /\ UNCHANGED <<program, cache, relation, answer, first, said>>

called   == Alts[alt][nth]
asks(g)  == key(alt, called, g, outs[nth])
known(g) == ~called.renew /\ asks(g) \in DOMAIN cache

\* builtins::run of a body builtin that finds its call in the cache
Remembered(g) ==
    /\ known(g)
    /\ outs' = [outs EXCEPT ![nth] = cache[asks(g)]]
    /\ UNCHANGED <<cache, said>>

heard(k) ==
    LET before == IF k \in DOMAIN said THEN said[k] ELSE 0
    IN  IF before < SaidBound THEN before + 1 ELSE before

Heard(g) ==
    LET k == <<alt, nth, g>>
    IN  said' = IF called.name # "println" THEN said
                ELSE [c \in DOMAIN said \cup {k} |-> IF c = k THEN heard(k) ELSE said[c]]

\* Mutant: the key is taken after the handler has put out what it found.
Handled_key_late(g) ==
    /\ ~known(g)
    /\ \E out \in handled(called, g) :
          /\ outs' = [outs EXCEPT ![nth] = @ \o out]
          /\ cache' = IF called.forget \/ called.renew THEN cache
                      ELSE emplaced(cache, key(alt, called, g, outs'[nth]), outs'[nth])
    /\ Heard(g)

\* Mutant: a call that puts nothing out is not worth remembering.
Handled_outs_only(g) ==
    /\ ~known(g)
    /\ \E out \in handled(called, g) :
          /\ outs' = [outs EXCEPT ![nth] = @ \o out]
          /\ cache' = IF called.forget \/ called.renew \/ out = <<>> THEN cache
                      ELSE emplaced(cache, asks(g), outs'[nth])
    /\ Heard(g)

\* and of one that does not.  The key is only made when the cache is consulted:
\* what a renewed call finds is stored under the empty key, where no call looks.
Handled(g) ==
    /\ ~known(g)
    /\ \E out \in handled(called, g) :
          /\ outs' = [outs EXCEPT ![nth] = @ \o out]
          /\ cache' = IF called.forget \/ called.renew THEN cache
                      ELSE emplaced(cache, asks(g), outs'[nth])
    /\ Heard(g)

\* body_builtins: for every grounding, from the least on, every builtin
NextCall(g) ==
    IF nth = Len(Alts[alt]) THEN nth' = 1 /\ todo' = todo \ {g}
                            ELSE nth' = nth + 1 /\ todo' = todo

RunBody ==
    /\ alt # NoAlt
    /\ \E g \in todo : /\ \A h \in todo : g <= h
                       /\ Remembered(g) \/ Handled(g)
                       /\ NextCall(g)
    /\ UNCHANGED <<program, relation, alt, answer, first, asked>>

\* the outputs are collected
Collect ==
    /\ alt # NoAlt /\ todo = {}
    /\ answer' = [alt |-> alt, relation |-> relation, outs |-> outs]
    /\ first' = emplaced(first, <<alt, relation>>, outs)
    /\ alt' = NoAlt /\ outs' = <<>>
    /\ UNCHANGED <<program, cache, relation, todo, nth, asked, said>>

\* The tables go on: other rules give the relation other records.
Commit ==
    /\ alt = NoAlt
    /\ \E r \in SUBSET Values : relation' = r /\ r # relation
    /\ UNCHANGED <<program, cache, evaluation, answer, history>>

\* Mutant: nothing is forgotten.
Forget_nothing == /\ alt = NoAlt
                  /\ answer' = NoAnswer /\ first' = NoFunction
                  /\ asked' = [a \in DOMAIN Alts |-> {}] /\ said' = NoFunction
                  /\ UNCHANGED <<program, cache, relation, evaluation>>

\* The head builtin forget.
Forget ==
    /\ alt = NoAlt
    /\ cache' = NoFunction
    /\ answer' = NoAnswer /\ first' = NoFunction
    /\ asked' = [a \in DOMAIN Alts |-> {}] /\ said' = NoFunction
    /\ UNCHANGED <<program, relation, evaluation>>

BuiltinsNext == \/ \E a \in program : AltQuery(a)
                \/ RunBody \/ Collect \/ Commit \/ Forget
BuiltinsSpec == BuiltinsInit /\ [][BuiltinsNext]_vars
------------------------------------------------------------------------------
(****************************************************************************)
(* Properties                                                               *)
(****************************************************************************)
cached(a) == \A i \in DOMAIN Alts[a] : ~Alts[a][i].renew /\ ~Alts[a][i].forget

\* An alternative whose calls are all cached gives one relation one answer until
\* the cache is forgotten, whatever it was asked in between, even when what it
\* calls draws at random: without it a program that calls rnd would never come
\* to a fixed point (builtins::run).
StableAnswers ==
    answer # NoAnswer /\ cached(answer.alt) => answer.outs = first[<<answer.alt, answer.relation>>]

\* What is counted was there to be counted: in the relation of this evaluation
\* when the call is renewed or not kept, in one since the last forget otherwise.
CountedSinceForget ==
    answer # NoAnswer =>
        \A i \in DOMAIN answer.outs :
            LET t == Alts[answer.alt][i]
                times == IF t.renew \/ t.forget THEN {answer.relation} ELSE asked[answer.alt]
            IN  t.name = "count" =>
                    \A n \in DOMAIN answer.outs[i] : \E r \in times : answer.outs[i][n] = Cardinality(r)

\* A cached call is heard once for a grounding until the cache is forgotten
\* (tests/regression/builtins/renew_and_forget.tml:19).
HeardOnce ==
    \A k \in DOMAIN said : LET t == Alts[k[1]][k[2]] IN ~t.renew /\ ~t.forget => said[k] <= 1
==============================================================================
