------------------------------ MODULE BddOps ------------------------------
(***************************************************************************)
(* The operations on binary decision diagrams (bdd.cpp, bdd.h): from a     *)
(* store of nodes and memos and some references to the store they leave    *)
(* and the reference they return.                                          *)
(*                                                                         *)
(* A store is a record: V, the nodes; C, the memo of and and ite; memos,   *)
(* the six others in one, keyed by operation, quantified variables,        *)
(* permutation and operands; hf, whether the compiler evaluates the        *)
(* argument for the high branch first.                                     *)
(***************************************************************************)
EXTENDS BddRefs, FiniteSets, FiniteSetsExt, TLC

CONSTANT GcLimit   \* gclimit: entries the memo C may hold

ASSUME BddOpsAssumption == GcLimit \in Nat
----------------------------------------------------------------------------
hi(st, x) == get(st.V, x).h
lo(st, x) == get(st.V, x).l

high(st, x, v) == side(st.V, x, v, TRUE)
low(st, x, v)  == side(st.V, x, v, FALSE)
----------------------------------------------------------------------------
(* The operations.  Each returns the store it leaves and its result, and   *)
(* after hands both to what the code computes next.                        *)

is(st, r) == [st |-> st, r |-> r]

after(new, Op(_, _)) == Op(new.st, new.r)

\* bdd::add
add(st, v, h, l) ==
  LET new == added(st.V, v, h, l) IN is([st EXCEPT !.V = new.nodes], new.ref)

from_bit(st, v, val) == IF val THEN add(st, v, T, F) ELSE add(st, v, F, T)

\* Op for the high and for the low branch, the two calls in the compiler's order
both(st, Op(_, _)) ==
  after(Op(st, st.hf), LAMBDA s, a :
    after(Op(s, ~s.hf), LAMBDA t, b :
      is(t, IF t.hf THEN [h |-> a, l |-> b] ELSE [h |-> b, l |-> a])))

\* add(v, Op(high), Op(low))
branch(st, v, Op(_, _)) ==
  after(both(st, Op), LAMBDA s, r : add(s, v, r.h, r.l))

memoize(st, key, r, allowed) ==
  is([st EXCEPT !.C = IF Cardinality(DOMAIN @) < allowed THEN @ @@ (key :> r) ELSE @], r)

RECURSIVE bdd_and(_, _, _)

\* mutant: the memo is given the result in the caller's variables
bdd_and_upshifted(st, x, y) ==
  IF F \in {x, y} \/ x = flip(y) THEN is(st, F)
  ELSE IF x = T \/ x = y THEN is(st, y)
  ELSE IF y = T THEN is(st, x)
  ELSE LET min_shift == Min({x.sh, y.sh})
           a == minus_shift(IF bdd_lt(y, x) THEN y ELSE x, min_shift)
           b == minus_shift(IF bdd_lt(y, x) THEN x ELSE y, min_shift)
           key == <<a, b, F>>
           sub(s, h) == IF h THEN bdd_and(s, high(s, a, 0), high(s, b, 0))
                             ELSE bdd_and(s, low(s, a, 0), low(s, b, 0))
       IN  IF key \in DOMAIN st.C THEN is(st, plus_shift(st.C[key], min_shift))
           ELSE after(branch(st, 0, sub), LAMBDA s, r :
                  memoize(s, key, plus_shift(r, min_shift), GcLimit))

bdd_and(st, x, y) ==
  IF F \in {x, y} \/ x = flip(y) THEN is(st, F)
  ELSE IF x = T \/ x = y THEN is(st, y)
  ELSE IF y = T THEN is(st, x)
  ELSE LET min_shift == Min({x.sh, y.sh})
           a == minus_shift(IF bdd_lt(y, x) THEN y ELSE x, min_shift)
           b == minus_shift(IF bdd_lt(y, x) THEN x ELSE y, min_shift)
           key == <<a, b, F>>
           sub(s, h) == IF h THEN bdd_and(s, high(s, a, 0), high(s, b, 0))
                             ELSE bdd_and(s, low(s, a, 0), low(s, b, 0))
       IN  IF key \in DOMAIN st.C THEN is(st, plus_shift(st.C[key], min_shift))
           ELSE after(after(branch(st, 0, sub), LAMBDA s, r : memoize(s, key, r, GcLimit)),
                      LAMBDA s, r : is(s, plus_shift(r, min_shift)))

bdd_or(st, x, y) ==
  after(bdd_and(st, flip(x), flip(y)), LAMBDA s, r : is(s, flip(r)))

RECURSIVE bdd_ite(_, _, _, _)
bdd_ite(st, x, y, z) ==
  IF x.out = 1 THEN bdd_ite(st, flip(x), z, y)
  ELSE IF x = T \/ y = z THEN is(st, y)
  ELSE IF x = flip(y) \/ x = z THEN is(st, F)
  ELSE IF y = T THEN bdd_or(st, x, z)
  ELSE IF y = F THEN bdd_and(st, flip(x), z)
  ELSE IF z = F THEN bdd_and(st, x, y)
  ELSE IF z = T THEN bdd_or(st, flip(x), y)
  ELSE LET min_shift == Min({x.sh, y.sh, z.sh})
           a == minus_shift(x, min_shift)
           b == minus_shift(y, min_shift)
           c == minus_shift(z, min_shift)
           key == <<a, b, c>>
           sub(s, h) == IF h THEN bdd_ite(s, high(s, a, 0), high(s, b, 0), high(s, c, 0))
                             ELSE bdd_ite(s, low(s, a, 0), low(s, b, 0), low(s, c, 0))
       IN  IF key \in DOMAIN st.C THEN is(st, plus_shift(st.C[key], min_shift))
           ELSE after(after(branch(st, 0, sub), LAMBDA s, r : memoize(s, key, r, GcLimit + 1)),
                      LAMBDA s, r : is(s, plus_shift(r, min_shift)))
----------------------------------------------------------------------------
(* Quantification and renaming.  A renaming is a function of the variables *)
(* that is one to one on those kept; NoPerm stands for asking for none.    *)

NoPerm == [v \in 1 .. NVars |-> v]

remember(st, key, r) == is([st EXCEPT !.memos = @ @@ (key :> r)], r)

\* the last variable that is quantified or renamed
last_of(ex, p) ==
  LET touched == ex \cup { v \in 1 .. NVars : p[v] # v }
  IN  IF touched = {} THEN 1 ELSE Max(touched)

\* mutant: the variable is put on top wherever it belongs
ite_var_on_top(st, v, h, l) == add(st, v, h, l)

\* bdd_ite_var
ite_var(st, v, h, l) ==
  IF v < h.sh /\ v < l.sh THEN add(st, v, h, l)
  ELSE after(from_bit(st, v, TRUE), LAMBDA s, b : bdd_ite(s, b, h, l))

RECURSIVE bdd_ex(_, _, _)
bdd_ex(st, x, ex) ==
  LET key == <<"ex", ex, NoPerm, {x}>>
      sub(s, h) == bdd_ex(s, IF h THEN hi(s, x) ELSE lo(s, x), ex)
  IN  IF leaf(x) \/ x.sh > last_of(ex, NoPerm) THEN is(st, x)
      ELSE IF key \in DOMAIN st.memos THEN is(st, st.memos[key])
      ELSE IF x.sh \in ex
      THEN after(bdd_or(st, hi(st, x), lo(st, x)), LAMBDA s, r : bdd_ex(s, r, ex))
      ELSE after(branch(st, x.sh, sub), LAMBDA s, r : remember(s, key, r))

RECURSIVE bdd_permute(_, _, _)
bdd_permute(st, x, p) ==
  LET key == <<"perm", {}, p, {x}>>
      sub(s, h) == bdd_permute(s, IF h THEN hi(s, x) ELSE lo(s, x), p)
  IN  IF leaf(x) THEN is(st, x)
      ELSE IF key \in DOMAIN st.memos THEN is(st, st.memos[key])
      ELSE after(after(both(st, sub), LAMBDA s, r : ite_var(s, p[x.sh], r.h, r.l)),
                 LAMBDA s, r : remember(s, key, r))

\* quantify at the root of x until its variable is kept
RECURSIVE top_ex(_, _, _)
top_ex(st, x, ex) ==
  IF leaf(x) \/ x.sh \notin ex THEN is(st, x)
  ELSE after(bdd_or(st, hi(st, x), lo(st, x)), LAMBDA s, r : top_ex(s, r, ex))

RECURSIVE bdd_permute_ex(_, _, _, _)
bdd_permute_ex(st, x, ex, p) ==
  LET key == <<"perm_ex", ex, p, {x}>>
      below(s, y) ==
        LET sub(t, h) == bdd_permute_ex(t, IF h THEN hi(t, y) ELSE lo(t, y), ex, p)
        IN  IF leaf(y) THEN is(s, y)
            ELSE after(both(s, sub), LAMBDA t, r : ite_var(t, p[y.sh], r.h, r.l))
  IN  IF leaf(x) \/ x.sh > last_of(ex, p) THEN is(st, x)
      ELSE IF key \in DOMAIN st.memos THEN is(st, st.memos[key])
      ELSE after(after(top_ex(st, x, ex), below), LAMBDA s, r : remember(s, key, r))
----------------------------------------------------------------------------
(* Conjunctions of many.  am_sort makes a vector of operands canonical, so *)
(* it is read as a set.                                                    *)

am_sort(S) ==
  IF F \in S \/ \E x \in S : flip(x) \in S THEN {F} ELSE S \ {T}

top_var(S) == Min({ x.sh : x \in S })

\* the operands on the branch of variable m
branch_of(st, S, m, h) ==
  am_sort({ IF x.sh # m THEN x ELSE IF h THEN hi(st, x) ELSE lo(st, x) : x \in S })

RECURSIVE bdd_and_many(_, _)

\* mutant: what the branches share is taken out of both and put back into one
factored_high(st, h, l) ==
  LET x == h \cap l
  IN  IF F \in h \cup l \/ Cardinality(x) < 2 THEN is(st, [h |-> h, l |-> l])
      ELSE after(bdd_and_many(st, x), LAMBDA s, r :
             is(s, [h |-> am_sort((h \ x) \cup {r}), l |-> l \ x]))

\* what two or more operands the branches share come to stands for them in both
factored(st, h, l) ==
  LET x == h \cap l
      with(S, r) == am_sort((S \ x) \cup {r})
  IN  IF F \in h \cup l \/ Cardinality(x) < 2 THEN is(st, [h |-> h, l |-> l])
      ELSE after(bdd_and_many(st, x), LAMBDA s, r :
             is(s, IF r = F THEN [h |-> {F}, l |-> {F}] ELSE [h |-> with(h, r), l |-> with(l, r)]))

\* the operands of the two branches of m
bdd_and_many_iter(st, S, m) == factored(st, branch_of(st, S, m, TRUE), branch_of(st, S, m, FALSE))

\* The lookup of pairs of operands in C never answers: a key of C is shifted
\* down until one operand is at variable 0, and no operand is here.
bdd_and_many(st, S) ==
  LET key == <<"and", {}, NoPerm, S>>
      m == top_var(S)
      x == CHOOSE z \in S : TRUE
      y == CHOOSE z \in S : z # x
      joined(s, b) ==
        after(bdd_and_many(s, b.l), LAMBDA t, l :
          after(bdd_and_many(t, b.h), LAMBDA u, h : add(u, m, h, l)))
  IN  IF S = {} THEN is(st, T)
      ELSE IF Cardinality(S) = 1 THEN is(st, x)
      ELSE IF key \in DOMAIN st.memos THEN is(st, st.memos[key])
      ELSE after(IF Cardinality(S) = 2 THEN bdd_and(st, x, y)
                 ELSE after(bdd_and_many_iter(st, S, m), joined),
                 LAMBDA s, r : remember(s, key, r))
----------------------------------------------------------------------------
(* Conjunction, quantification and renaming in one pass.                   *)

\* bdd_ex or bdd_permute_ex of the one operand left
project(st, x, ex, p) == IF p = NoPerm THEN bdd_ex(st, x, ex) ELSE bdd_permute_ex(st, x, ex, p)

\* the result for variable v from those for its branches
rejoin(st, v, h, l, ex, p) ==
  IF v \in ex THEN bdd_or(st, h, l)
  ELSE IF p = NoPerm THEN add(st, v, h, l) ELSE ite_var(st, p[v], h, l)

\* bdd_and_ex and sbdd_and_ex_perm
RECURSIVE bdd_and_ex(_, _, _, _, _)
bdd_and_ex(st, x, y, ex, p) ==
  LET key == <<"and_ex", ex, p, {x, y}>>
      m == Min({x.sh, y.sh})
      joined ==
        after(bdd_and_ex(st, high(st, x, m), high(st, y, m), ex, p), LAMBDA s, h :
          after(bdd_and_ex(s, low(s, x, m), low(s, y, m), ex, p), LAMBDA t, l :
            rejoin(t, m, h, l, ex, p)))
  IN  IF F \in {x, y} \/ x = flip(y) THEN is(st, F)
      ELSE IF T \in {x, y} \/ x = y THEN project(st, IF y = T THEN x ELSE y, ex, p)
      ELSE IF key \in DOMAIN st.memos THEN is(st, st.memos[key])
      ELSE after(IF m > last_of(ex, p) THEN bdd_and(st, x, y) ELSE joined,
                 LAMBDA s, r : remember(s, key, r))

\* sbdd_and_many_ex and sbdd_and_many_ex_perm
RECURSIVE bdd_and_many_ex(_, _, _, _)
bdd_and_many_ex(st, S, ex, p) ==
  LET key == <<"and_many_ex", ex, p, S>>
      m == top_var(S)
      x == CHOOSE z \in S : TRUE
      y == CHOOSE z \in S : z # x
      plain(s, b) ==
        LET sub(t, h) == bdd_and_many(t, IF h THEN b.h ELSE b.l) IN branch(s, m, sub)
      joined(s, b) ==
        after(bdd_and_many_ex(s, b.l, ex, p), LAMBDA t, l :
          after(bdd_and_many_ex(t, b.h, ex, p), LAMBDA u, h : rejoin(u, m, h, l, ex, p)))
      branches_of_m ==
        IF p = NoPerm
        THEN is(st, [h |-> branch_of(st, S, m, TRUE), l |-> branch_of(st, S, m, FALSE)])
        ELSE bdd_and_many_iter(st, S, m)
  IN  IF S = {} THEN is(st, T)
      ELSE IF Cardinality(S) = 1 THEN project(st, x, ex, p)
      ELSE IF Cardinality(S) = 2 THEN bdd_and_ex(st, x, y, ex, p)
      ELSE IF key \in DOMAIN st.memos THEN is(st, st.memos[key])
      ELSE after(after(branches_of_m, LAMBDA s, b :
                         IF m > last_of(ex, p) THEN plain(s, b) ELSE joined(s, b)),
                 LAMBDA s, r : remember(s, key, r))

\* add up in pairs until one is left
RECURSIVE bdd_or_reduce(_, _)
bdd_or_reduce(st, v) ==
  LET n == Len(v)
      pairs[k \in 0 .. n \div 2] ==
        IF k = 0 THEN is(st, << >>)
        ELSE after(pairs[k - 1], LAMBDA s, w :
               after(bdd_or(s, v[2 * k - 1], v[2 * k]), LAMBDA t, r : is(t, Append(w, r))))
  IN  IF n = 0 THEN is(st, F)
      ELSE IF n = 1 THEN is(st, v[1])
      ELSE IF n = 2 THEN bdd_or(st, v[1], v[2])
      ELSE after(after(pairs[n \div 2], bdd_or_reduce), LAMBDA s, r :
             bdd_or(s, IF n % 2 = 1 THEN v[n] ELSE F, r))
=============================================================================
