----------------------------- MODULE TermArith -----------------------------
(***************************************************************************)
(* The arithmetic of rule bodies (tables_ext.cpp, tables.cpp).             *)
(*                                                                         *)
(* Pre-computed mode: a term ?x + ?y = ?z, ?x * ?y = ?z, ?x * ?y = ?h ?l,  *)
(* ?x << n = ?y, ?x >> n = ?y, ?x = ?y, ?x <= ?y becomes the diagram of    *)
(* the values of its variables that satisfy it.  Ad-hoc mode: pw_add and   *)
(* the like compute a diagram from the diagrams of their operands          *)
(* (BddArith).                                                             *)
(*                                                                         *)
(* A value is written in bits bits, the two lowest its type (10 for a      *)
(* number), and grows with the universe.  A diagram is here its question   *)
(* and the width it was built for: whether it holds of an assignment of    *)
(* the variables of the diagrams is computed when it is asked.             *)
(***************************************************************************)
EXTENDS BddArith

CONSTANTS
  Terms,      \* terms of rule bodies: [op, args, neg], a variable negative
  AdHoc,      \* terms of the ad-hoc mode: [op, left, right], sets of numbers
  Facts,      \* numbers that facts of the one relation hold
  Maxima,     \* greatest numbers of the programs that are run
  MaxAsked    \* terms compiled in a run

VARIABLES
  bits,       \* tables::bits
  rel,        \* the values in the relation
  memo,       \* smemo, ememo, leqmemo, addermemo, carrymemo, cs_addermemo:
              \* the width each diagram was built for
  asked,      \* terms compiled (of the model)
  answer      \* the last term compiled and its diagram

vars == <<bits, rel, memo, asked, answer>>
----------------------------------------------------------------------------
(* Values and their places in a diagram's variables.                       *)

mknum(n) == 4 * n + 2
numbers(w) == 0 .. 2^(w - 2) - 1

\* A shift to the right by nothing counts tables::shr's loop past zero and reads
\* outside of its permutation.
ASSUME ShiftsRight == \A t \in Terms : t.op = "SHR" => t.args[2] >= mknum(1)

\* bit b of argument arg among args, in width w
pos(w, b, arg, args) == (w - b - 1) * args + arg

\* the assignment for the values v of the arguments, in width w
assignment(v, w) ==
  [p \in 0 .. w * Len(v) - 1 |->
     (v[(p % Len(v)) + 1] \div 2^(w - 1 - (p \div Len(v)))) % 2 = 1]

\* s: an assignment; q: the width and the number of arguments of a diagram
bit(s, q, b, arg) == s[pos(q.w, b, arg, q.n)]
constrain_to_num(s, q, arg) == bit(s, q, 1, arg) /\ ~bit(s, q, 0, arg)
from_sym(s, q, arg, val) == \A b \in 0 .. q.w - 1 : bit(s, q, b, arg) <=> (val \div 2^b) % 2 = 1
from_sym_eq(s, q, a, b)  == \A k \in 0 .. q.w - 1 : bit(s, q, k, a) <=> bit(s, q, k, b)

RECURSIVE leq_const(_, _, _, _, _), leq_var(_, _, _, _, _)

\* the lowest k bits of arg are at most those of c
leq_const(s, q, c, arg, k) ==
  LET one == (c \div 2^(k - 1)) % 2 = 1
  IN  IF k = 1 THEN one \/ ~bit(s, q, 0, arg)
      ELSE IF bit(s, q, k - 1, arg) THEN one /\ leq_const(s, q, c, arg, k - 1)
      ELSE one \/ leq_const(s, q, c, arg, k - 1)

leq_var(s, q, a, b, k) ==
  IF k = 1 THEN bit(s, q, 0, b) \/ ~bit(s, q, 0, a)
  ELSE IF bit(s, q, k - 1, b) THEN bit(s, q, k - 1, a) => leq_var(s, q, a, b, k - 1)
  ELSE ~bit(s, q, k - 1, a) /\ leq_var(s, q, a, b, k - 1)
----------------------------------------------------------------------------
(* Addition: the carry rippled up from the lowest bit of the number, bit 2.*)

RECURSIVE full_addder_carry(_, _, _, _, _)

full_addder_carry(s, q, a, b, k) ==
  /\ k > 1
  /\ LET x == bit(s, q, k, a)
         y == bit(s, q, k, b)
     IN  IF full_addder_carry(s, q, a, b, k - 1) THEN x \/ y ELSE x /\ y

full_adder(s, q, a, b, k) ==
  LET x == bit(s, q, k, a)
      y == bit(s, q, k, b)
  IN  IF k = 2 THEN x # y
      ELSE IF full_addder_carry(s, q, a, b, k - 1) THEN x = y ELSE x # y

add_var_eq(s, q, a, b, c) ==
  /\ \A arg \in {a, b, c} : constrain_to_num(s, q, arg)
  /\ \A k \in 2 .. q.w - 1 : bit(s, q, k, c) <=> full_adder(s, q, a, b, k)
----------------------------------------------------------------------------
(* Multiplication: add_ite(i, j) is bit i of the sum of the first rows up  *)
(* to row j, row j the number b where bit j of a is one, shifted.          *)

RECURSIVE add_ite(_, _, _, _, _, _), add_ite_carry(_, _, _, _, _, _)

add_ite_carry(s, q, a, b, i, j) ==
  /\ i # 2 /\ j # 2
  /\ LET acc == add_ite(s, q, a, b, i, j - 1)
         row == bit(s, q, j, a) /\ bit(s, q, i - j + 2, b)
     IN  IF i = j THEN acc /\ row
         ELSE IF row THEN acc \/ add_ite_carry(s, q, a, b, i - 1, j)
                     ELSE acc /\ add_ite_carry(s, q, a, b, i - 1, j)

\* mutant: the carry of the row is taken from the same bit
add_ite_late_carry(s, q, a, b, i, j) ==
  IF i - j = q.w - 2 THEN add_ite_carry(s, q, a, b, i - 1, j)
  ELSE IF i = 2 \/ j = 2 THEN bit(s, q, j, a) /\ bit(s, q, i, b)
  ELSE LET row == bit(s, q, j, a) /\ bit(s, q, i - j + 2, b)
           sum == row # add_ite(s, q, a, b, i, j - 1)
       IN  IF i = j THEN sum ELSE sum # add_ite_carry(s, q, a, b, i, j)

add_ite(s, q, a, b, i, j) ==
  IF i - j = q.w - 2 THEN add_ite_carry(s, q, a, b, i - 1, j)
  ELSE IF i = 2 \/ j = 2 THEN bit(s, q, j, a) /\ bit(s, q, i, b)
  ELSE LET row == bit(s, q, j, a) /\ bit(s, q, i - j + 2, b)
           sum == row # add_ite(s, q, a, b, i, j - 1)
       IN  IF i = j THEN sum ELSE sum # add_ite_carry(s, q, a, b, i - 1, j)

mul_var_eq(s, q, a, b, c) ==
  /\ \A arg \in {a, b, c} : constrain_to_num(s, q, arg)
  /\ \A k \in 2 .. q.w - 1 : bit(s, q, k, c) <=> add_ite(s, q, a, b, k, k)

\* the double-precision product: its upper half in h, its lower half in l
mul_var_eq_ext(s, q, a, b, h, l) ==
  /\ mul_var_eq(s, q, a, b, l)
  /\ constrain_to_num(s, q, h)
  /\ \A k \in 2 .. q.w - 1 : bit(s, q, k, h) <=> add_ite(s, q, a, b, q.w + k - 2, q.w - 1)
----------------------------------------------------------------------------
(* Shifts by n: the bits that stay in the number are equal n places apart, *)
(* the bits shifted in are zero.  i counts the bits from the highest.      *)

shl(s, q, a, n, c) ==
  LET pb == q.w - 2
      high(i, arg) == bit(s, q, q.w - 1 - i, arg)
  IN  /\ n <= pb => \A i \in (0 .. q.w - 1) \ (pb - n .. pb - 1) :
           high(i, c) <=> high(IF i < pb THEN i + n ELSE i, a)
      /\ \A i \in 0 .. Min({n, pb}) - 1 : ~bit(s, q, i + 2, c)
      /\ constrain_to_num(s, q, a) /\ constrain_to_num(s, q, c)

shr(s, q, a, n, c) ==
  LET pb == q.w - 2
      high(i, arg) == bit(s, q, q.w - 1 - i, arg)
  IN  /\ n <= pb => \A i \in n .. q.w - 1 : high(i, c) <=> high(IF i < pb THEN i - n ELSE i, a)
      /\ \A i \in 0 .. Min({n, pb}) - 1 : ~high(i, c)
      /\ constrain_to_num(s, q, a) /\ constrain_to_num(s, q, c)
----------------------------------------------------------------------------
(* A term compiled: what its diagram says of an assignment of the values v *)
(* to the rule's variables, when the universe has grown to width w.        *)

variables(t) == {t.args[k] : k \in {j \in DOMAIN t.args : t.args[j] < 0}}

\* vm: a variable's argument in the rule's diagrams
vm(x) == -x - 1

\* set_constants and get_perm: the term's own arguments, its constants put
\* in and its variables aligned with the rule's, as a diagram of width
\* built reads them from an assignment of the values v in width w
aligned(t, v, w, built) ==
  LET n == Len(t.args)
      s == assignment(v, w)
  IN  [p \in 0 .. built * n - 1 |->
         LET x == t.args[(p % n) + 1]
             row == p \div n
         IN  IF x < 0 THEN s[row * Len(v) + vm(x)] ELSE (x \div 2^(built - 1 - row)) % 2 = 1]

handler_arith(t, v, w, built) ==
  LET own == aligned(t, v, w, built)
      s == assignment(v, w)
      of(n) == [w |-> built, n |-> n]
  IN  CASE t.op = "ADD" -> add_var_eq(own, of(3), 0, 1, 2)
        [] t.op = "MULT" /\ Len(t.args) = 3 -> mul_var_eq(own, of(3), 0, 1, 2)
        [] t.op = "MULT" /\ Len(t.args) = 4 -> mul_var_eq_ext(own, of(4), 0, 1, 2, 3)
        [] t.op = "SHL" -> shl(s, of(Len(v)), vm(t.args[1]), t.args[2] \div 4, vm(t.args[3]))
        [] t.op = "SHR" -> shr(s, of(Len(v)), vm(t.args[1]), t.args[2] \div 4, vm(t.args[3]))
        [] OTHER -> TRUE

handler_eq(t, v, w, built) ==
  LET s == assignment(v, w)
      q == [w |-> built, n |-> Len(v)]
      x == t.args[1]
      y == t.args[2]
      eq == IF x < 0 /\ y < 0 THEN from_sym_eq(s, q, vm(x), vm(y))
            ELSE IF x < 0 THEN from_sym(s, q, vm(x), y) ELSE from_sym(s, q, vm(y), x)
  IN  IF x = y THEN ~t.neg ELSE IF x >= 0 /\ y >= 0 THEN t.neg ELSE eq # t.neg

handler_leq(t, v, w, built) ==
  LET s == assignment(v, w)
      q == [w |-> built, n |-> Len(v)]
      x == t.args[1]
      y == t.args[2]
      leq == IF x < 0 /\ y < 0 THEN leq_var(s, q, vm(x), vm(y), built)
             ELSE IF x < 0 THEN leq_const(s, q, y, vm(x), built)
             ELSE ~leq_const(s, q, x, vm(y), built) \/ from_sym(s, q, vm(y), x)
  IN  IF x = y THEN ~t.neg
      ELSE IF x >= 0 /\ y >= 0 THEN (x <= y) # t.neg
      ELSE (leq # t.neg) /\ \A z \in variables(t) : constrain_to_num(s, q, vm(z))

\* whether the term's diagram, built for that width, holds of v in width w
holds(t, v, w, built) ==
  CASE t.op = "EQ"  -> handler_eq(t, v, w, built)
    [] t.op = "LEQ" -> handler_leq(t, v, w, built)
    [] OTHER -> handler_arith(t, v, w, built)
----------------------------------------------------------------------------
(* The memos.  They are kept for the process; the adders are found by the  *)
(* term alone, all others by the width too.                                *)

\* mutant: no memo knows the width it is for
memo_key_widthless(t, w) == <<t>>

memo_key(t, w) == IF t.op = "ADD" THEN <<t>> ELSE <<t, w>>

found(t) == IF memo_key(t, bits) \in DOMAIN memo THEN memo[memo_key(t, bits)] ELSE bits

no_answer == [mode |-> "none"]

\* get_alt: a term of a body
Compile(t) ==
  /\ asked < MaxAsked
  /\ \A k \in DOMAIN t.args : t.args[k] < 2^bits
  /\ memo' = (memo_key(t, bits) :> found(t)) @@ memo
  /\ answer' = [mode |-> "term", term |-> t, built |-> found(t)]
  /\ asked' = asked + 1
  /\ UNCHANGED <<bits, rel>>

\* add_bit: the new bit is the lowest one, and is low
add_bit(values) == {2 * x : x \in values}

\* run_prog: the universe grows until the program's numbers fit in it, and
\* add_prog_wprod forgets the memos but those of adders and multipliers
RunProg(max) ==
  LET grown[w \in Nat] == IF max < 2^(w - 2) THEN [bits |-> w, rel |-> rel]
                          ELSE [grown[w + 1] EXCEPT !.rel = add_bit(@)]
  IN  /\ bits' = grown[bits].bits
      /\ rel' = grown[bits].rel
      /\ memo' = [key \in {k \in DOMAIN memo : k[1].op \in {"ADD", "MULT"}} |-> memo[key]]
      /\ answer' = no_answer
      /\ UNCHANGED asked

\* a fact of the program
AddFact(n) ==
  /\ n \in numbers(bits)
  /\ rel' = rel \cup {mknum(n)}
  /\ UNCHANGED <<bits, memo, asked, answer>>
----------------------------------------------------------------------------
(* The ad-hoc mode: the head's variable is the first argument of the       *)
(* rule's diagrams, the operands are the second and the third.  The type   *)
(* bits, removed before and put back after, are left out.                  *)

RECURSIVE from_set(_, _, _, _)

\* the diagram of numbers of pb bits, the highest first, from bit i
from_set(S, arg, i, pb) ==
  LET with(b) == {n \in S : (n \div 2^(pb - 1 - i)) % 2 = b}
  IN  IF S = {} THEN F ELSE IF i = pb THEN T
      ELSE add(at(i, arg), from_set(with(1), arg, i + 1, pb), from_set(with(0), arg, i + 1, pb))

perm_from_to(x, from, to, pb) ==
  bdd_permute(x, [v \in {at(i, from) : i \in 0 .. pb - 1} |-> v + to - from])

perm_bit_reverse(x, pb) == bdd_permute(x, reversal(pb))

bitwise_handler(op, in0, in1, pb) ==
  LET s0 == perm_from_to(in0, 2, 1, pb)
      s1 == perm_from_to(in1, 3, 2, pb)
      x == CASE op = "bw_and" -> bitwise_and(s0, s1)
             [] op = "bw_or"  -> bitwise_or(s0, s1)
             [] op = "bw_xor" -> bitwise_xor(s0, s1)
             [] op = "bw_not" -> bitwise_not(s0)
  IN  perm_from_to(x, 3, 1, pb)

\* mutant: the result is left with its lowest bit first
pairwise_handler_unreversed(op, in0, in1, pb) ==
  LET s0 == perm_bit_reverse(perm_from_to(in0, 2, 1, pb), pb)
      s1 == perm_bit_reverse(perm_from_to(in1, 3, 2, pb), pb)
  IN  perm_from_to(IF op = "pw_add" THEN adder(s0, s1, 0, 0) ELSE bdd_mult_dfs(s0, s1, pb), 3, 1, pb)

pairwise_handler(op, in0, in1, pb) ==
  LET s0 == perm_bit_reverse(perm_from_to(in0, 2, 1, pb), pb)
      s1 == perm_bit_reverse(perm_from_to(in1, 3, 2, pb), pb)
      x == IF op = "pw_add" THEN adder(s0, s1, 0, 0) ELSE bdd_mult_dfs(s0, s1, pb)
  IN  perm_from_to(perm_bit_reverse(x, pb), 3, 1, pb)

\* the handlers of the builtins
Compute(c) ==
  LET pb == bits - 2
      in0 == from_set(c.left, 2, 0, pb)
      in1 == from_set(c.right, 3, 0, pb)
  IN  /\ asked < MaxAsked
      /\ pb > 0    \* without a bit mult_dfs reads before its accumulators
      /\ c.left \cup c.right \subseteq numbers(bits)
      /\ asked' = asked + 1
      /\ answer' = [mode |-> "adhoc", call |-> c,
                    result |-> IF c.op \in {"pw_add", "pw_mult"}
                               THEN pairwise_handler(c.op, in0, in1, pb)
                               ELSE bitwise_handler(c.op, in0, in1, pb)]
      /\ UNCHANGED <<bits, rel, memo>>

Init ==
  /\ bits = 2
  /\ rel = {}
  /\ memo = <<>>
  /\ asked = 0
  /\ answer = no_answer

Next ==
  \/ \E t \in Terms : Compile(t)
  \/ \E c \in AdHoc : Compute(c)
  \/ \E max \in Maxima : RunProg(max)
  \/ \E n \in Facts : AddFact(n)

Spec == Init /\ [][Next]_vars
----------------------------------------------------------------------------
(* What the answers mean.                                                  *)

is_number(x) == x % 4 = 2
num(x) == x \div 4

\* the term's own arithmetic, modulo the universe
Meaning(t, v) ==
  LET x(k) == IF t.args[k] < 0 THEN v[vm(t.args[k]) + 1] ELSE t.args[k]
      n(k) == num(x(k))
      M == 2^(bits - 2)
      all_numbers == \A k \in DOMAIN t.args : is_number(x(k))
  IN  CASE t.op = "EQ"  -> (x(1) = x(2)) # t.neg
        [] t.op = "LEQ" /\ t.args[1] = t.args[2] -> ~t.neg   \* whatever its type
        [] t.op = "LEQ" /\ t.args[1] # t.args[2] -> all_numbers /\ (n(1) <= n(2)) # t.neg
        [] t.op = "ADD" -> all_numbers /\ n(3) = (n(1) + n(2)) % M
        [] t.op = "MULT" /\ Len(t.args) = 3 -> all_numbers /\ n(3) = (n(1) * n(2)) % M
        [] t.op = "MULT" /\ Len(t.args) = 4 -> all_numbers /\ n(3) * M + n(4) = n(1) * n(2)
        [] t.op = "SHL" -> all_numbers /\ n(3) = (n(1) * 2^n(2)) % M
        [] t.op = "SHR" -> all_numbers /\ n(3) = n(1) \div 2^n(2)

\* numbers and a few symbols and characters
Values == {mknum(n) : n \in numbers(bits)} \cup {0, 1}

\* A compiled term holds of exactly the values that satisfy its arithmetic,
\* in the universe as it is now, whatever was compiled before the universe
\* grew: circuits, constants, alignment and memos together.  An adder found
\* in its memo is left out: it may be of an earlier width (tables_ext.cpp:63).
AnswerExact ==
  answer.mode = "term" =>
    LET t == answer.term
    IN  (t.op = "ADD" => answer.built = bits) =>
          \A v \in [1 .. Cardinality(variables(t)) -> Values] :
            holds(t, v, bits, answer.built) <=> Meaning(t, v)

RECURSIVE both_bits(_, _)
both_bits(x, y) == IF x = 0 \/ y = 0 THEN 0
                   ELSE 2 * both_bits(x \div 2, y \div 2) + (x % 2) * (y % 2)

result_of(op, x, y) ==
  CASE op = "bw_and"  -> both_bits(x, y)
    [] op = "bw_or"   -> x + y - both_bits(x, y)
    [] op = "bw_xor"  -> x + y - 2 * both_bits(x, y)
    [] op = "pw_add"  -> (x + y) % 2^(bits - 2)
    [] op = "pw_mult" -> (x * y) % 2^(bits - 2)

RECURSIVE Sat(_, _)
Sat(x, n) == IF leaf(x) THEN x = T
             ELSE LET i == (x[1] - 1) \div n_args
                  IN  Sat(IF (n \div 2^(bits - 3 - i)) % 2 = 1 THEN hi(x) ELSE lo(x), n)

results(c) == {result_of(c.op, x, y) : x \in c.left, y \in c.right}

\* what bdd_ext.cpp computes right: bitwise operations of any sets, sums with
\* a single number, products with a single number that fit in the universe
\* (a row's carry out of it clears the accumulator, bdd_ext.cpp:1153)
InReach(c) ==
  \/ c.op \in {"bw_and", "bw_or", "bw_xor"}
  \/ Cardinality(c.right) = 1 /\ c.op = "pw_add"
  \/ Cardinality(c.right) = 1 /\ \A x \in c.left, y \in c.right : x * y < 2^(bits - 2)

computed == {n \in numbers(bits) : Sat(answer.result, n)}

\* The ad-hoc mode computes the set of the results of the operation from the
\* diagrams of its operands, descended together though they test different
\* bits, over every pair of a left and a right number.
ResultsComputed ==
  answer.mode = "adhoc" /\ InReach(answer.call) => computed = results(answer.call)
=============================================================================
