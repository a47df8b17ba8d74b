----------------------------- MODULE BddArith -----------------------------
(***************************************************************************)
(* Arithmetic over diagrams (bdd_ext.cpp): operations that compute, from   *)
(* the diagrams of two sets of numbers, the diagram of the set of the      *)
(* results (the ad-hoc mode: bw_and, bw_or, bw_xor, pw_add, pw_mult).      *)
(*                                                                         *)
(* A diagram is a leaf or <<variable, high branch, low branch>>.  Three    *)
(* numbers are interleaved: the k-th bit of the left, of the right and of  *)
(* the result are the variables 3k+1, 3k+2 and 3k+3.  Shared nodes, shifts *)
(* and inverters are the store's (module BddOps), not this module's.       *)
(***************************************************************************)
EXTENDS Integers, Sequences, FiniteSetsExt, SequencesExt, TLC

n_args == 3

T == <<1>>
F == <<0>>

leaf(x) == Len(x) = 1
hi(x) == IF leaf(x) THEN x ELSE x[2]
lo(x) == IF leaf(x) THEN x ELSE x[3]
GET_SHIFT(x) == IF leaf(x) THEN 0 ELSE x[1]
add(v, h, l) == IF h = l THEN h ELSE <<v, h, l>>

\* the branches of x on v, whether or not x tests v
hi_at(x, v) == IF GET_SHIFT(x) = v THEN hi(x) ELSE x
lo_at(x, v) == IF GET_SHIFT(x) = v THEN lo(x) ELSE x
top(x, y) == IF leaf(x) \/ (~leaf(y) /\ GET_SHIFT(y) < GET_SHIFT(x))
             THEN GET_SHIFT(y) ELSE GET_SHIFT(x)

RECURSIVE bdd_or(_, _), bdd_and(_, _), bdd_permute(_, _), bdd_ex(_, _)

bdd_or(x, y) ==
  IF T \in {x, y} THEN T
  ELSE IF x = F THEN y ELSE IF y = F \/ x = y THEN x
  ELSE LET v == top(x, y)
       IN  add(v, bdd_or(hi_at(x, v), hi_at(y, v)), bdd_or(lo_at(x, v), lo_at(y, v)))

bdd_and(x, y) ==
  IF F \in {x, y} THEN F
  ELSE IF x = T THEN y ELSE IF y = T \/ x = y THEN x
  ELSE LET v == top(x, y)
       IN  add(v, bdd_and(hi_at(x, v), hi_at(y, v)), bdd_and(lo_at(x, v), lo_at(y, v)))

bdd_ite_var(v, h, l) == bdd_or(bdd_and(add(v, T, F), h), bdd_and(add(v, F, T), l))

\* perm maps the variables it moves
bdd_permute(x, perm) ==
  IF leaf(x) THEN x
  ELSE LET v == IF x[1] \in DOMAIN perm THEN perm[x[1]] ELSE x[1]
       IN  bdd_ite_var(v, bdd_permute(hi(x), perm), bdd_permute(lo(x), perm))

bdd_ex(x, vars) ==
  IF leaf(x) THEN x
  ELSE LET h == bdd_ex(hi(x), vars)
           l == bdd_ex(lo(x), vars)
       IN  IF x[1] \in vars THEN bdd_or(h, l) ELSE add(x[1], h, l)
----------------------------------------------------------------------------
(* and, or and xor: the two diagrams are descended together, one of them   *)
(* waiting where it does not test a bit the other one tests.               *)

RECURSIVE bitwise(_, _, _)

\* ones: the pairs of bits whose result is one
bitwise(ones, a, b) ==
  IF a = T /\ b = T THEN T
  ELSE IF F \in {a, b} THEN F
  ELSE LET av == GET_SHIFT(a)
           bv == GET_SHIFT(b)
           leftWaits  == av > bv + 1 /\ bv # 0
           rightWaits == ~leftWaits /\ av + 2 < bv /\ av # 0
           left(bit)  == IF leftWaits  THEN a ELSE IF bit = 1 THEN hi(a) ELSE lo(a)
           right(bit) == IF rightWaits THEN b ELSE IF bit = 1 THEN hi(b) ELSE lo(b)
           of(pairs) == FoldSet(bdd_or, F, {bitwise(ones, left(p[1]), right(p[2])) : p \in pairs})
       IN  add(IF leftWaits \/ av = 0 THEN bv + 1 ELSE av + 2,
               of(ones), of(((0 .. 1) \X (0 .. 1)) \ ones))

bitwise_and(a, b) == bitwise({<<1, 1>>}, a, b)
bitwise_or(a, b)  == bitwise({<<0, 1>>, <<1, 0>>, <<1, 1>>}, a, b)
bitwise_xor(a, b) == bitwise({<<0, 1>>, <<1, 0>>}, a, b)

\* TODO in the code: the operand itself
bitwise_not(a) == a
----------------------------------------------------------------------------
(* The adder: the lowest bits first, with the carry into the bit.          *)

RECURSIVE adder(_, _, _, _)

adder(a, b, carry, bit) ==
  IF a = T /\ b = T THEN T
  ELSE IF F \in {a, b} THEN F
  ELSE LET av == GET_SHIFT(a)
           bv == GET_SHIFT(b)
           leftWaits  == av > bv + 1 /\ bv # 0
           rightWaits == ~leftWaits /\ av + 2 < bv /\ av # 0
           pos   == IF leftWaits THEN bv + 1 ELSE av + 2
           delta == (pos \div n_args) - 1
           left(x)  == IF leftWaits  THEN a ELSE IF x = 1 THEN hi(a) ELSE lo(a)
           right(y) == IF rightWaits THEN b ELSE IF y = 1 THEN hi(b) ELSE lo(b)
           \* the pairs of bits whose sum with the carry is r modulo two
           sums(r) == FoldSet(bdd_or, F,
             {adder(left(p[1]), right(p[2]), (p[1] + p[2] + carry) \div 2, bit + 1) :
                p \in {q \in (0 .. 1) \X (0 .. 1) : (q[1] + q[2] + carry) % 2 = r}})
           either == bdd_or(adder(a, b, 1, delta), adder(a, b, 0, delta))
       IN  IF pos > (bit + 1) * n_args
           THEN IF carry = 1 THEN add(pos - 3, either, adder(a, b, 1, delta))
                             ELSE add(pos - 3, adder(a, b, 0, delta), either)
           ELSE add(pos, sums(1), sums(0))
----------------------------------------------------------------------------
(* Addition path by path.  A path assigns L, H or X (either) to each bit,  *)
(* the highest first.  mem holds what solve_path's calls share: the        *)
(* results covered for a bit without and with a carry, and for each        *)
(* operand the values still owed for its X bits.                           *)

\* the bits of the two paths at bit i; past the last one the code reads
\* the word before the vectors, which is the upper half of a chunk's size
here(i, p) == IF i = Len(p.a) THEN [a |-> "L", b |-> "L"]
              ELSE [a |-> p.a[Len(p.a) - i], b |-> p.b[Len(p.b) - i]]

value(t) == IF t = "H" THEN 1 ELSE 0
is(c, mem) == [c |-> c, mem |-> mem]
after(r, Op(_, _)) == Op(r.c, r.mem)

\* the result's bit i is the sum's parity, c what follows
emit(i, sum, c) == IF sum % 2 = 1 THEN add(i * n_args + 3, c, F) ELSE add(i * n_args + 3, F, c)

push(mem, op, t) == [mem EXCEPT !.owed[op] = Append(@, t)]
pop(mem, op)     == [mem EXCEPT !.owed[op] = Tail(@)]
other(op) == IF op = "a" THEN "b" ELSE "a"
nothing_owed(mem) == \A op \in {"a", "b"} : mem.owed[op] = <<>>

RECURSIVE solve(_, _, _, _, _), solve_path(_, _, _, _), merge_pathX(_, _, _, _)

\* mutant: what is covered is used whatever is owed
merge_pathX_always(i, carry, p, mem) ==
  IF i \in DOMAIN mem.covered[carry] THEN is(mem.covered[carry][i], mem)
  ELSE after(solve_path(i, carry, p, mem), LAMBDA c, m : is(c, [m EXCEPT !.covered[carry] = (i :> c) @@ @]))

merge_pathX(i, carry, p, mem) ==
  IF i \in DOMAIN mem.covered[carry] /\ nothing_owed(mem) THEN is(mem.covered[carry][i], mem)
  ELSE after(solve_path(i, carry, p, mem), LAMBDA c, m : is(c, [m EXCEPT !.covered[carry] = (i :> c) @@ @]))

\* one operand's bit is X: a value another X owes it, or both values, each
\* owed in turn to the other operand's next X
solve_one_free(kind, i, carry, p, mem) ==
  LET x == IF kind.a = "X" THEN "a" ELSE "b"
      fixed == value(kind[other(x)])
      \* solve_pathHX goes on as solve_pathXH in one of its branches
      next(t) == IF kind = [a |-> "H", b |-> "X"] /\ carry = 1 /\ t = "L" /\ mem.owed.a # <<>>
                 THEN [a |-> "X", b |-> "H"] ELSE kind
      go(t, m) == LET sum == value(t) + fixed + carry
                  IN  solve(next(t), i + 1, sum \div 2, p, m)
      sum(t) == value(t) + fixed + carry
      first == mem.owed[other(x)][1]
  IN  IF mem.owed[other(x)] = <<>>
      THEN after(go("L", push(mem, x, "L")), LAMBDA c0, m0 :
           after(go("H", push([m0 EXCEPT !.owed[x] = mem.owed[x]], x, "H")), LAMBDA c1, m1 :
             is(bdd_or(emit(i, sum("L"), c0), emit(i, sum("H"), c1)), m1)))
      ELSE after(go(first, pop(mem, other(x))), LAMBDA c, m : is(emit(i, sum(first), c), m))

\* both bits are X
solve_both_free(i, carry, p, mem) ==
  LET free(k) == here(k, p) = [a |-> "X", b |-> "X"]
      end == CHOOSE k \in i .. Len(p.a) : ~free(k) /\ \A j \in i .. k - 1 : free(j)
      x == IF mem.owed.a # <<>> THEN "a" ELSE "b"
      first == mem.owed[x][1]
      sum(t) == value(first) + value(t) + carry
      go(t, m) == solve(here(i, p), i + 1, sum(t) \div 2, p, pop(push(m, x, t), x))
  IN  IF nothing_owed(mem)
      THEN after(solve_path(end, 0, p, mem), LAMBDA c0, m0 :
           after(solve_path(end, 1, p, m0), LAMBDA c1, m1 :
             is(add(i * n_args + 3, bdd_or(c0, c1), F), m1)))
      ELSE after(go("L", mem), LAMBDA c0, m0 :
           after(go("H", [m0 EXCEPT !.owed = mem.owed]), LAMBDA c1, m1 :
             is(bdd_or(emit(i, sum("L"), c0), emit(i, sum("H"), c1)), m1)))

\* solve_pathXL, LX, XH, HX and XX: the kind of the pair they were called for
solve(kind, i, carry, p, mem) ==
  LET both == kind = [a |-> "X", b |-> "X"]
  IN  IF here(i, p) # kind
      THEN IF both THEN solve_path(i, carry, p, mem) ELSE merge_pathX(i, carry, p, mem)
      ELSE IF both THEN solve_both_free(i, carry, p, mem)
      ELSE solve_one_free(kind, i, carry, p, mem)

solve_path(i, carry, p, mem) ==
  LET t == here(i, p)
      sum == value(t.a) + value(t.b) + carry
  IN  IF i = Len(p.a) THEN is(T, mem)
      ELSE IF "X" \in {t.a, t.b} THEN solve(t, i, carry, p, mem)
      ELSE after(solve_path(i + 1, sum \div 2, p, mem), LAMBDA c, m : is(emit(i, sum, c), m))
----------------------------------------------------------------------------
(* The paths of a diagram, one after the other.  A walk is the nodes on    *)
(* the way down, the bit reached (from 1) and the path, U where unset.     *)

RECURSIVE backtrack(_), descend(_, _)

ended == [nodes |-> <<>>, bit |-> 0, path |-> <<>>]

\* up to where the path can be continued
backtrack(w) ==
  LET t == w.path[w.bit]
      up == [nodes |-> IF t = "X" THEN w.nodes ELSE Front(w.nodes),
             bit |-> w.bit - 1, path |-> [w.path EXCEPT ![w.bit] = "U"]]
  IN  IF t = "U" THEN descend(w, FALSE)
      ELSE IF t = "L" /\ hi(Last(w.nodes)) # F THEN descend(w, TRUE)
      ELSE IF up.bit = 0 THEN ended ELSE backtrack(up)

\* down to a leaf, first by the high branch where high is set
descend(w, high) ==
  LET x == Last(w.nodes)
      byLow == lo(x) # F /\ ~high
      y == IF byLow THEN lo(x) ELSE hi(x)
      until == IF y = T THEN Len(w.path) + 1
               ELSE w.bit + (GET_SHIFT(y) - GET_SHIFT(x)) \div n_args
      path == [j \in DOMAIN w.path |-> IF j = w.bit THEN IF byLow THEN "L" ELSE "H"
                                       ELSE IF j \in w.bit + 1 .. until - 1 THEN "X" ELSE w.path[j]]
  IN  IF x = F THEN ended
      ELSE IF y = T THEN [w EXCEPT !.path = path]
      ELSE descend([nodes |-> Append(w.nodes, y), bit |-> until, path |-> path], FALSE)

walk(x, bits) == [nodes |-> <<x>>, bit |-> 1, path |-> [j \in 1 .. bits |-> "U"]]
bdd_next_path(w) == backtrack(w)

free_bits(path) == Cardinality({j \in DOMAIN path : path[j] = "X"})

\* the path with its first n X bits low, and the paths put aside for it
RECURSIVE split(_, _)
split(path, n) ==
  IF n = 0 THEN [path |-> path, aside |-> <<>>]
  ELSE LET j == CHOOSE j \in DOMAIN path : path[j] = "X" /\ \A k \in 1 .. j - 1 : path[k] # "X"
           rest == split([path EXCEPT ![j] = "L"], n - 1)
       IN  [path |-> rest.path, aside |-> Append(rest.aside, [path EXCEPT ![j] = "H"])]

\* both operands' paths with the same number of X bits: the one with more is
\* split.  turn says whose next path is wanted: "a", "b" or "ab".
balance_paths(next, aside) ==
  LET path(op) == IF aside[op] = <<>> THEN next[op] ELSE Head(aside[op])
      left(op) == IF aside[op] = <<>> THEN <<>> ELSE Tail(aside[op])
      a == path("a")
      b == path("b")
      more == IF free_bits(a) < free_bits(b) THEN "b" ELSE "a"
      few  == other(more)
      s == split(path(more), free_bits(path(more)) - free_bits(path(few)))
  IN  IF free_bits(a) = free_bits(b)
      THEN [next |-> [a |-> a, b |-> b], aside |-> [a |-> left("a"), b |-> left("b")],
            turn |-> IF left("a") # <<>> THEN "b" ELSE IF left("b") # <<>> THEN "a" ELSE "ab"]
      ELSE [next |-> (more :> s.path) @@ (few :> path(few)),
            aside |-> (more :> s.aside \o left(more)) @@ (few :> left(few)),
            turn |-> few]

RECURSIVE add_paths(_, _, _, _, _)

\* the sum of a path of each operand, until one of them has no more
add_paths(walks, next, aside, mem, c) ==
  IF ended \in {walks.a, walks.b} THEN c
  ELSE after(is(balance_paths(next, aside), mem), LAMBDA bal, m :
       after(solve_path(0, 0, bal.next, m), LAMBDA sum, m1 :
         LET wanted(op) == bal.turn \in {op, "ab"}
             moved == [op \in {"a", "b"} |-> IF wanted(op) THEN bdd_next_path(walks[op]) ELSE walks[op]]
             then  == [op \in {"a", "b"} |-> IF wanted(op) THEN moved[op].path ELSE bal.next[op]]
         IN  add_paths(moved, then, bal.aside, m1, bdd_or(c, sum))))

no_memory == [covered |-> [carry \in {0, 1} |-> <<>>], owed |-> [a |-> <<>>, b |-> <<>>]]

adder_be(a, b, bits) ==
  LET walks == [a |-> bdd_next_path(walk(a, bits)), b |-> bdd_next_path(walk(b, bits))]
  IN  add_paths(walks, [a |-> walks.a.path, b |-> walks.b.path],
                [a |-> <<>>, b |-> <<>>], no_memory, F)
----------------------------------------------------------------------------
(* The multiplier: one accumulator per bit of the left operand, to which   *)
(* the right operand, shifted, is added where the bit is one.              *)

\* the variable of bit i (from 0) of argument arg (from 1)
at(i, arg) == n_args * i + arg

RECURSIVE all_zero(_)
all_zero(vars) == IF vars = {} THEN T
                  ELSE LET v == Max(vars) IN bdd_and(add(v, F, T), all_zero(vars \ {v}))
zero(arg, bits) == all_zero({at(i, arg) : i \in 0 .. bits - 1})

\* the number moved up x bits, zeros below it
shlx(b, x, bits) ==
  LET moved == bdd_permute(b, [v \in {at(i, 2) : i \in 0 .. bits - 1} |-> v + n_args * x])
  IN  bdd_and(all_zero({at(i, 2) : i \in 0 .. x - 1}), moved)

copy_arg2arg(b, arg_a, arg_b, bits) ==
  bdd_permute(b, [v \in {at(i, arg_a) : i \in 0 .. bits - 1} |-> v + arg_b - arg_a])

\* all bits low, down the low branches
RECURSIVE is_zero(_, _)
is_zero(a, bits) == bits = 0 \/ (hi(a) = F /\ is_zero(lo(a), bits - 1))

reversal(bits) == [v \in 1 .. bits * n_args |->
  (bits - 1 - ((v - 1) \div n_args)) * n_args + ((v - 1) % n_args) + 1]

\* the accumulator with the number shifted by depth
adder_accs(b, acc, depth, bits) ==
  LET ext_bits == bits + depth
      b_aux == shlx(b, depth, bits)
      acc_aux == bdd_and(acc, all_zero({at(i, 3) : i \in bits .. ext_bits - 1}))
      lowest_last(x) == bdd_permute(x, reversal(ext_bits))
  IN  IF is_zero(acc_aux, ext_bits) THEN copy_arg2arg(b_aux, 2, 3, ext_bits)
      ELSE adder_be(lowest_last(b_aux), lowest_last(acc_aux), ext_bits)

RECURSIVE mult_dfs(_, _, _, _, _)

mult_dfs(a, b, acc, depth, bits) ==
  LET pos == at(depth, 1)
      a1 == IF GET_SHIFT(a) > pos THEN [h |-> a, l |-> a] ELSE [h |-> hi(a), l |-> lo(a)]
      kept  == IF depth = 0 THEN zero(3, bits) ELSE acc
      added == IF depth = 0 THEN copy_arg2arg(b, 2, 3, bits) ELSE adder_accs(b, acc, depth, bits)
      below(x, acc1) == IF x = F THEN F ELSE mult_dfs(x, b, acc1, depth + 1, bits)
  IN  IF depth = bits THEN acc
      ELSE bdd_or(below(a1.l, kept), below(a1.h, added))

bdd_mult_dfs(a, b, bits) ==
  bdd_ex(mult_dfs(a, b, F, 0, bits), n_args * bits + 2 .. 2 * bits * n_args)
=============================================================================
