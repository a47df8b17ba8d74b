-------------------------- MODULE RecognizerProofs --------------------------
(***************************************************************************)
(* The recogniser accepts a string exactly when the productions derive it  *)
(* (RecognizesLanguageAlways).                                             *)
(***************************************************************************)
EXTENDS Recognizer, FiniteSetTheorems, TLAPS

----------------------------------------------------------------------------
(* Numbers, and functions given from one number to the next.               *)

LEMMA Least == ASSUME NEW X, X \subseteq Nat, X # {} PROVE \E x \in X : \A y \in X : x <= y
<1>1. PICK m \in X : TRUE
  OBVIOUS
<1> DEFINE U == 0 .. m
           I == {0 .. k : k \in {j \in X : j <= m}}
<1>2. IsFiniteSet(U)
  BY <1>1, FS_Interval
<1>3. IsWellFoundedOn(StrictSubsetOrdering(U), SUBSET U)
  BY <1>2, FS_StrictSubsetOrderingWellFounded, FS_FiniteSubsetsOfFinite
<1>4. I \subseteq SUBSET U /\ I # {}
  BY <1>1
<1>5. \E x \in I : \A y \in I : ~ (<<y, x>> \in StrictSubsetOrdering(U))
  <2> HIDE DEF I, U
  <2> QED BY <1>3, <1>4, WFMin
<1>6. PICK k \in X : k <= m /\ \A y \in I : ~ (<<y, 0 .. k>> \in StrictSubsetOrdering(U))
  BY <1>5
<1>7. ASSUME NEW y \in X, y < k PROVE FALSE
  <2>1. 0 .. y \in I
    BY <1>6, <1>7
  <2>2. 0 .. y \subseteq 0 .. k /\ 0 .. k \subseteq U /\ 0 .. y # 0 .. k
    BY <1>6, <1>7
  <2> QED BY <1>6, <2>1, <2>2 DEF StrictSubsetOrdering
<1> QED BY <1>6, <1>7

\* Induction over the numbers of a set.
LEMMA SetInduction ==
  ASSUME NEW X, 0 \in X, \A k \in Nat : k \in X => k + 1 \in X
  PROVE  Nat \subseteq X
<1> SUFFICES ASSUME NEW k \in Nat, k \notin X PROVE FALSE
  OBVIOUS
<1> DEFINE B == {m \in Nat : m \notin X}
<1>1. PICK x \in B : \A y \in B : x <= y
  <2>1. B \subseteq Nat /\ B # {}
    OBVIOUS
  <2> HIDE DEF B
  <2> QED BY <2>1, Least
<1>2. x # 0 /\ x \in Nat /\ x - 1 \in Nat
  BY <1>1
<1>3. x - 1 \in X
  BY <1>1, <1>2
<1> QED BY <1>1, <1>2, <1>3

\* The functions on 0 .. k that begin with b and go on by F.
Begun(X, b, F, k) ==
  { f \in [0 .. k -> X] : f[0] = b /\ \A m \in 0 .. k - 1 : f[m + 1] = F[<<m, f[m]>>] }

LEMMA BegunAgree ==
  ASSUME NEW X, NEW b, NEW F
  PROVE  \A k, m \in Nat : \A f \in Begun(X, b, F, k), g \in Begun(X, b, F, m) :
           \A i \in Nat : i <= k /\ i <= m => f[i] = g[i]
<1> SUFFICES ASSUME NEW k \in Nat, NEW m \in Nat, NEW f \in Begun(X, b, F, k), NEW g \in Begun(X, b, F, m)
             PROVE  \A i \in Nat : i <= k /\ i <= m => f[i] = g[i]
  OBVIOUS
<1> DEFINE A == { i \in Nat : i <= k /\ i <= m => f[i] = g[i] }
<1>1. 0 \in A
  BY DEF Begun
<1>2. ASSUME NEW i \in Nat, i \in A PROVE i + 1 \in A
  <2> SUFFICES ASSUME i + 1 <= k, i + 1 <= m PROVE f[i + 1] = g[i + 1]
    OBVIOUS
  <2>1. i \in 0 .. k - 1 /\ i \in 0 .. m - 1 /\ f[i] = g[i]
    BY <1>2
  <2> QED BY <2>1 DEF Begun
<1>3. Nat \subseteq A
  <2> HIDE DEF A
  <2> QED BY <1>1, <1>2, SetInduction
<1> QED BY <1>3

LEMMA BegunExists ==
  ASSUME NEW X, NEW b \in X, NEW F \in [Nat \X X -> X]
  PROVE  \A k \in Nat : Begun(X, b, F, k) # {}
<1> DEFINE A == { k \in Nat : Begun(X, b, F, k) # {} }
<1>1. 0 \in A
  <2>1. [i \in 0 .. 0 |-> b] \in Begun(X, b, F, 0)
    BY DEF Begun
  <2> QED BY <2>1
<1>2. ASSUME NEW k \in Nat, k \in A PROVE k + 1 \in A
  <2>1. PICK f \in Begun(X, b, F, k) : TRUE
    BY <1>2
  <2> DEFINE g == [i \in 0 .. k + 1 |-> IF i = k + 1 THEN F[<<k, f[k]>>] ELSE f[i]]
  <2>2. f \in [0 .. k -> X] /\ f[0] = b /\ \A m \in 0 .. k - 1 : f[m + 1] = F[<<m, f[m]>>]
    BY <2>1 DEF Begun
  <2>3. F[<<k, f[k]>>] \in X
    BY <2>2
  <2>4. g \in [0 .. k + 1 -> X]
    BY <2>2, <2>3
  <2>5. g[0] = b
    BY <2>2
  <2>6. ASSUME NEW m \in 0 .. (k + 1) - 1 PROVE g[m + 1] = F[<<m, g[m]>>]
    <3>1. CASE m = k
      <4>1. g[k + 1] = F[<<k, f[k]>>] /\ g[k] = f[k]
        OBVIOUS
      <4> QED BY <3>1, <4>1
    <3>2. CASE m # k
      <4>1. m \in 0 .. k - 1
        BY <3>2
      <4>2. g[m + 1] = f[m + 1] /\ g[m] = f[m]
        BY <4>1
      <4> QED BY <2>2, <4>1, <4>2
    <3> QED BY <3>1, <3>2
  <2>7. g \in Begun(X, b, F, k + 1)
    <3> HIDE DEF g
    <3> QED BY <2>4, <2>5, <2>6 DEF Begun
  <2> QED BY <2>7
<1>3. Nat \subseteq A
  <2> HIDE DEF A
  <2> QED BY <1>1, <1>2, SetInduction
<1> QED BY <1>3

\* A function that is given from each number to the next exists.
Goes(X, b, F) == b \in X /\ F \in [Nat \X X -> X]
Follows(X, b, F, f) == f \in [Nat -> X] /\ f[0] = b /\ \A k \in Nat : f[k + 1] = F[<<k, f[k]>>]

LEMMA Recursion == \A X, b, F : Goes(X, b, F) => \E f : Follows(X, b, F, f)
<1> SUFFICES ASSUME NEW X, NEW b \in X, NEW F \in [Nat \X X -> X] PROVE \E f : Follows(X, b, F, f)
  BY DEF Goes
<1> DEFINE c(k) == CHOOSE g \in Begun(X, b, F, k) : TRUE
           f == [k \in Nat |-> c(k)[k]]
<1>1. \A k \in Nat : c(k) \in Begun(X, b, F, k)
  BY BegunExists
<1>2. f \in [Nat -> X]
  <2>1. \A k \in Nat : c(k)[k] \in X
    <3> HIDE DEF c
    <3> QED BY <1>1 DEF Begun
  <2> QED BY <2>1
<1>3. f[0] = b
  <2> HIDE DEF c
  <2> QED BY <1>1 DEF Begun
<1>4. ASSUME NEW k \in Nat PROVE f[k + 1] = F[<<k, f[k]>>]
  <2> HIDE DEF c
  <2>1. c(k) \in Begun(X, b, F, k) /\ c(k + 1) \in Begun(X, b, F, k + 1)
    BY <1>1
  <2>2. c(k + 1)[k] = c(k)[k]
    <3>1. k + 1 \in Nat /\ k <= k /\ k <= k + 1
      OBVIOUS
    <3> QED BY <2>1, <3>1, BegunAgree
  <2>3. c(k + 1)[k + 1] = F[<<k, c(k + 1)[k]>>]
    BY <2>1 DEF Begun
  <2> QED BY <2>2, <2>3
<1> HIDE DEF f
<1> QED BY <1>2, <1>3, <1>4 DEF Follows

----------------------------------------------------------------------------
(* The language of the productions.                                        *)

Stretches(s) == places(s) \X places(s)
Stay(s) == { q \in Stretches(s) : q[1] = q[2] }

\* the stretches of r with one more literal
Then(j, s, D, l, r) ==
  { q \in Stretches(s) : \E z \in places(s) : <<q[1], z>> \in r /\ reads_as(j, s, D, l, z, q[2]) }

LEMMA UptoIs ==
  ASSUME NEW j, NEW s, NEW D, NEW p
  PROVE  /\ upto(j, s, D, p) \in [Nat -> SUBSET Stretches(s)]
         /\ upto(j, s, D, p)[1] = Stay(s)
         /\ \A d \in Nat : d >= 1 => upto(j, s, D, p)[d + 1] = Then(j, s, D, p[d + 1], upto(j, s, D, p)[d])
<1> DEFINE X == SUBSET Stretches(s)
           F == [q \in Nat \X X |-> IF q[1] = 0 THEN Stay(s) ELSE Then(j, s, D, p[q[1] + 1], q[2])]
           B(r) == [d \in Nat |-> IF d <= 1 THEN Stay(s) ELSE Then(j, s, D, p[d], r[d - 1])]
<1>1. Stay(s) \in X
  BY DEF Stay
<1>2. \A l, r : Then(j, s, D, l, r) \in X
  BY DEF Then
<1>3. F \in [Nat \X X -> X]
  <2> HIDE DEF X
  <2> QED BY <1>1, <1>2
<1>4. PICK f \in [Nat -> X] : f[0] = Stay(s) /\ \A k \in Nat : f[k + 1] = F[<<k, f[k]>>]
  <2> HIDE DEF X, F
  <2>1. Goes(X, Stay(s), F)
    BY <1>1, <1>3 DEF Goes
  <2> QED BY <2>1, Recursion DEF Follows
<1>5. \A k \in Nat : f[k + 1] = IF k = 0 THEN Stay(s) ELSE Then(j, s, D, p[k + 1], f[k])
  <2> HIDE DEF X
  <2> QED BY <1>4
<1>6. ASSUME NEW d \in Nat PROVE f[d] = IF d <= 1 THEN Stay(s) ELSE Then(j, s, D, p[d], f[d - 1])
  <2>1. CASE d = 0
    BY <1>4, <2>1
  <2>2. CASE d # 0
    <3>1. d - 1 \in Nat /\ (d - 1) + 1 = d /\ (d - 1 = 0 <=> d <= 1)
      BY <2>2
    <3> QED BY <1>5, <3>1
  <2> QED BY <2>1, <2>2
<1>7. f = B(f)
  <2>1. DOMAIN f = Nat
    BY <1>4
  <2> QED BY <1>4, <1>6, <2>1
<1>8. upto(j, s, D, p) = CHOOSE r : r = B(r)
  BY DEF upto, Stay, Then, Stretches
<1> DEFINE u == upto(j, s, D, p)
<1>9. u = B(u)
  <2> HIDE DEF B
  <2> QED BY <1>7, <1>8
<1>10. \A d \in Nat : u[d] = IF d <= 1 THEN Stay(s) ELSE Then(j, s, D, p[d], u[d - 1])
  <2> HIDE DEF u
  <2> QED BY <1>9
<1>11. u \in [Nat -> X]
  <2>1. \A d \in Nat : u[d] \in X
    <3> HIDE DEF u, X
    <3> QED BY <1>1, <1>2, <1>10
  <2>2. B(u) \in [Nat -> X]
    <3>1. \A d \in Nat : B(u)[d] \in X
      <4> HIDE DEF u, X
      <4> QED BY <1>1, <1>2
    <3> HIDE DEF X, u
    <3> QED BY <3>1
  <2> HIDE DEF X, u, B
  <2> QED BY <1>9, <2>2
<1>12. u[1] = Stay(s)
  <2> HIDE DEF u
  <2> QED BY <1>10
<1>13. ASSUME NEW d \in Nat, d >= 1 PROVE u[d + 1] = Then(j, s, D, p[d + 1], u[d])
  <2>1. d + 1 \in Nat /\ ~(d + 1 <= 1) /\ (d + 1) - 1 = d
    BY <1>13
  <2> HIDE DEF u
  <2> QED BY <1>10, <2>1
<1> QED BY <1>11, <1>12, <1>13

\* The same of two places.
LEMMA UptoAt ==
  ASSUME NEW j, NEW s, NEW D, NEW p
  PROVE  /\ \A x, y : <<x, y>> \in upto(j, s, D, p)[1] <=> x \in places(s) /\ y = x
         /\ \A d \in Nat : d >= 1 =>
              \A x, y : <<x, y>> \in upto(j, s, D, p)[d + 1] <=>
                x \in places(s) /\ y \in places(s) /\
                \E z \in places(s) : <<x, z>> \in upto(j, s, D, p)[d] /\ reads_as(j, s, D, p[d + 1], z, y)
<1>1. \A x, y : <<x, y>> \in upto(j, s, D, p)[1] <=> x \in places(s) /\ y = x
  BY UptoIs DEF Stay, Stretches
<1>2. ASSUME NEW d \in Nat, d >= 1, NEW x, NEW y
      PROVE  <<x, y>> \in upto(j, s, D, p)[d + 1] <=>
                x \in places(s) /\ y \in places(s) /\
                \E z \in places(s) : <<x, z>> \in upto(j, s, D, p)[d] /\ reads_as(j, s, D, p[d + 1], z, y)
  <2>1. upto(j, s, D, p)[d + 1] = Then(j, s, D, p[d + 1], upto(j, s, D, p)[d])
    BY <1>2, UptoIs
  <2> QED BY <2>1 DEF Then, Stretches
<1> QED BY <1>1, <1>2

LEMMA UptoEnds ==
  ASSUME NEW j, NEW s, NEW D, NEW p, NEW d \in Nat, NEW x, NEW y, <<x, y>> \in upto(j, s, D, p)[d]
  PROVE  x \in places(s) /\ y \in places(s)
<1>1. upto(j, s, D, p)[d] \subseteq Stretches(s)
  BY UptoIs
<1> QED BY <1>1 DEF Stretches

LEMMA UptoOn ==
  ASSUME NEW j, NEW s, NEW D, NEW p, NEW d \in Nat, d >= 1,
         NEW x \in places(s), NEW z \in places(s), NEW y \in places(s),
         <<x, z>> \in upto(j, s, D, p)[d], reads_as(j, s, D, p[d + 1], z, y)
  PROVE  <<x, y>> \in upto(j, s, D, p)[d + 1]
<1>1. upto(j, s, D, p)[d + 1] = Then(j, s, D, p[d + 1], upto(j, s, D, p)[d])
  BY UptoIs
<1> QED BY <1>1 DEF Then, Stretches

\* What is derived are facts.
LEMMA DeriveIs ==
  ASSUME NEW j, NEW s, NEW D, \A p \in DOMAIN j.g : Len(j.g[p]) \in Nat \ {0}
  PROVE  /\ derive(j, s, D) \subseteq Facts(j, s)
         /\ \A l, x, y : <<l, x, y>> \in derive(j, s, D) <=>
              \E p \in DOMAIN j.g : l = j.g[p][1] /\ <<x, y>> \in upto(j, s, D, j.g[p])[Len(j.g[p])]
<1>1. \A p \in DOMAIN j.g : upto(j, s, D, j.g[p])[Len(j.g[p])] \subseteq Stretches(s)
  BY UptoIs
<1>2. derive(j, s, D) \subseteq Facts(j, s)
  BY <1>1 DEF derive, Facts, Stretches
<1>3. ASSUME NEW l, NEW x, NEW y, <<l, x, y>> \in derive(j, s, D)
      PROVE  \E p \in DOMAIN j.g : l = j.g[p][1] /\ <<x, y>> \in upto(j, s, D, j.g[p])[Len(j.g[p])]
  <2>1. PICK p \in DOMAIN j.g : \E q \in upto(j, s, D, j.g[p])[Len(j.g[p])] : <<l, x, y>> = <<j.g[p][1], q[1], q[2]>>
    BY <1>3 DEF derive
  <2>2. PICK q \in upto(j, s, D, j.g[p])[Len(j.g[p])] : <<l, x, y>> = <<j.g[p][1], q[1], q[2]>>
    BY <2>1
  <2>3. q = <<x, y>>
    <3>1. q \in Stretches(s)
      BY <1>1, <2>2
    <3> QED BY <2>2, <3>1 DEF Stretches
  <2> QED BY <2>2, <2>3
<1>4. ASSUME NEW p \in DOMAIN j.g, NEW x, NEW y, <<x, y>> \in upto(j, s, D, j.g[p])[Len(j.g[p])]
      PROVE  <<j.g[p][1], x, y>> \in derive(j, s, D)
  BY <1>4 DEF derive
<1> QED BY <1>2, <1>3, <1>4

\* More known, more derived.
LEMMA ReadsMore ==
  ASSUME NEW j, NEW s, NEW D, NEW E, D \subseteq E
  PROVE  \A l, x, y : reads_as(j, s, D, l, x, y) => reads_as(j, s, E, l, x, y)
BY DEF reads_as

LEMMA UptoMore ==
  ASSUME NEW j, NEW s, NEW D, NEW E, D \subseteq E, NEW p
  PROVE  \A d \in Nat : d >= 1 => upto(j, s, D, p)[d] \subseteq upto(j, s, E, p)[d]
<1> DEFINE A == { d \in Nat : upto(j, s, D, p)[d + 1] \subseteq upto(j, s, E, p)[d + 1] }
<1>1. 0 \in A
  BY UptoIs
<1>2. ASSUME NEW d \in Nat, d \in A PROVE d + 1 \in A
  <2>1. upto(j, s, D, p)[d + 1] \subseteq upto(j, s, E, p)[d + 1]
    BY <1>2
  <2>2. Then(j, s, D, p[(d + 1) + 1], upto(j, s, D, p)[d + 1]) \subseteq Then(j, s, E, p[(d + 1) + 1], upto(j, s, E, p)[d + 1])
    BY <2>1, ReadsMore DEF Then
  <2>3. d + 1 \in Nat /\ d + 1 >= 1
    OBVIOUS
  <2>4. \A C : upto(j, s, C, p)[(d + 1) + 1] = Then(j, s, C, p[(d + 1) + 1], upto(j, s, C, p)[d + 1])
    BY <2>3, UptoIs
  <2> QED BY <2>2, <2>4
<1>3. Nat \subseteq A
  <2> HIDE DEF A
  <2> QED BY <1>1, <1>2, SetInduction
<1> QED
  <2> TAKE d \in Nat
  <2> HAVE d >= 1
  <2>1. d - 1 \in A /\ (d - 1) + 1 = d
    BY <1>3
  <2> QED BY <2>1

LEMMA DeriveMore ==
  ASSUME NEW j, NEW s, NEW D, NEW E, D \subseteq E, \A p \in DOMAIN j.g : Len(j.g[p]) \in Nat \ {0}
  PROVE  derive(j, s, D) \subseteq derive(j, s, E)
<1> SUFFICES ASSUME NEW p \in DOMAIN j.g
             PROVE  upto(j, s, D, j.g[p])[Len(j.g[p])] \subseteq upto(j, s, E, j.g[p])[Len(j.g[p])]
  BY DEF derive
<1>1. Len(j.g[p]) \in Nat /\ Len(j.g[p]) >= 1
  OBVIOUS
<1> QED BY <1>1, UptoMore

LEMMA DerivableIs ==
  ASSUME NEW j, NEW s, \A p \in DOMAIN j.g : Len(j.g[p]) \in Nat \ {0}
  PROVE  /\ derivable(j, s)[0] = {}
         /\ \A k \in Nat : derivable(j, s)[k + 1] = derive(j, s, derivable(j, s)[k])
<1> DEFINE X == SUBSET Facts(j, s)
           F == [q \in Nat \X X |-> derive(j, s, q[2])]
           B(f) == [k \in Nat |-> IF k = 0 THEN {} ELSE derive(j, s, f[k - 1])]
<1>1. F \in [Nat \X X -> X]
  BY DeriveIs
<1>2. PICK f \in [Nat -> X] : f[0] = {} /\ \A k \in Nat : f[k + 1] = F[<<k, f[k]>>]
  <2>1. {} \in X
    OBVIOUS
  <2> HIDE DEF X, F
  <2>2. Goes(X, {}, F)
    BY <1>1, <2>1 DEF Goes
  <2> QED BY <2>2, Recursion DEF Follows
<1>3. \A k \in Nat : f[k + 1] = derive(j, s, f[k])
  <2> HIDE DEF X
  <2> QED BY <1>2
<1>4. ASSUME NEW k \in Nat PROVE f[k] = IF k = 0 THEN {} ELSE derive(j, s, f[k - 1])
  <2>1. CASE k = 0
    BY <1>2, <2>1
  <2>2. CASE k # 0
    <3>1. k - 1 \in Nat /\ (k - 1) + 1 = k
      BY <2>2
    <3> QED BY <1>3, <2>2, <3>1
  <2> QED BY <2>1, <2>2
<1>5. f = B(f)
  <2>1. DOMAIN f = Nat
    BY <1>2
  <2> QED BY <1>2, <1>4, <2>1
<1>6. derivable(j, s) = CHOOSE u : u = B(u)
  BY DEF derivable
<1> DEFINE u == derivable(j, s)
<1>7. u = B(u)
  <2> HIDE DEF B
  <2> QED BY <1>5, <1>6
<1>8. \A k \in Nat : u[k] = IF k = 0 THEN {} ELSE derive(j, s, u[k - 1])
  <2> HIDE DEF u
  <2> QED BY <1>7
<1>9. u[0] = {}
  <2> HIDE DEF u
  <2> QED BY <1>8
<1>10. ASSUME NEW k \in Nat PROVE u[k + 1] = derive(j, s, u[k])
  <2>1. k + 1 \in Nat /\ k + 1 # 0 /\ (k + 1) - 1 = k
    OBVIOUS
  <2> HIDE DEF u
  <2> QED BY <1>8, <2>1
<1> QED BY <1>9, <1>10

\* What is derived only grows from level to level, and there are finitely many
\* facts: it stops growing after no more levels than facts.
LEMMA LevelsGrow ==
  ASSUME NEW j, NEW s, \A p \in DOMAIN j.g : Len(j.g[p]) \in Nat \ {0}
  PROVE  \A k \in Nat : derivable(j, s)[k] \subseteq derivable(j, s)[k + 1] /\ derivable(j, s)[k] \subseteq Facts(j, s)
<1> DEFINE D == derivable(j, s)
           A == { k \in Nat : D[k] \subseteq D[k + 1] /\ D[k] \subseteq Facts(j, s) }
<1>1. 0 \in A
  BY DerivableIs
<1>2. ASSUME NEW k \in Nat, k \in A PROVE k + 1 \in A
  <2>1. D[k + 1] = derive(j, s, D[k]) /\ D[(k + 1) + 1] = derive(j, s, D[k + 1]) /\ D[k] \subseteq D[k + 1]
    BY <1>2, DerivableIs
  <2>2. D[k + 1] \subseteq D[(k + 1) + 1]
    <3> HIDE DEF D
    <3> QED BY <2>1, DeriveMore
  <2>3. D[k + 1] \subseteq Facts(j, s)
    <3> HIDE DEF D
    <3> QED BY <2>1, DeriveIs
  <2> QED BY <2>2, <2>3
<1>3. Nat \subseteq A
  <2> HIDE DEF A
  <2> QED BY <1>1, <1>2, SetInduction
<1> QED BY <1>3

LEMMA FiniteImage == ASSUME NEW A, IsFiniteSet(A), NEW f, NEW B, B \subseteq { f[x] : x \in A } PROVE IsFiniteSet(B)
<1> DEFINE h == [x \in A |-> f[x]]
           C == { f[x] : x \in A }
<1>1. h \in Surjection(A, C)
  BY DEF Surjection
<1>2. IsFiniteSet(C)
  <2> HIDE DEF h, C
  <2> QED BY <1>1, FS_Surjection
<1> QED BY <1>2, FS_Subset

LEMMA FactsFinite ==
  ASSUME NEW j, NEW s, j.g \in Seq(Seq(used(j.g))), Len(s) \in Nat
  PROVE  IsFiniteSet(Facts(j, s))
<1> DEFINE H == { j.g[p][1] : p \in DOMAIN j.g }
           heads == [p \in 1 .. Len(j.g) |-> j.g[p][1]]
<1>1. IsFiniteSet(H)
  <2>1. Len(j.g) \in Nat /\ DOMAIN j.g = 1 .. Len(j.g)
    OBVIOUS
  <2>2. IsFiniteSet(1 .. Len(j.g))
    <3>1. \A k \in Nat : IsFiniteSet(1 .. k)
      BY FS_Interval
    <3> QED BY <2>1, <3>1
  <2>3. H \subseteq { heads[p] : p \in 1 .. Len(j.g) }
    BY <2>1
  <2> HIDE DEF H, heads
  <2> QED BY <2>2, <2>3, FiniteImage
<1>2. IsFiniteSet(places(s))
  BY FS_Interval DEF places
<1>3. IsFiniteSet(places(s) \X places(s))
  BY <1>2, FS_Product
<1>4. IsFiniteSet(H \X (places(s) \X places(s)))
  BY <1>1, <1>3, FS_Product
<1> DEFINE f == [q \in H \X (places(s) \X places(s)) |-> <<q[1], q[2][1], q[2][2]>>]
<1>5. Facts(j, s) \subseteq { f[q] : q \in H \X (places(s) \X places(s)) }
  <2> SUFFICES ASSUME NEW e \in H \X places(s) \X places(s)
               PROVE  e \in { f[q] : q \in H \X (places(s) \X places(s)) }
    BY DEF Facts
  <2>1. <<e[1], <<e[2], e[3]>> >> \in H \X (places(s) \X places(s)) /\ f[<<e[1], <<e[2], e[3]>> >>] = e
    <3> HIDE DEF H
    <3> QED OBVIOUS
  <2> HIDE DEF f, H
  <2> QED BY <2>1
<1> HIDE DEF f, H
<1> QED BY <1>4, <1>5, FiniteImage

LEMMA LevelsStop ==
  ASSUME NEW j, NEW s, j.g \in Seq(Seq(used(j.g))), Len(s) \in Nat,
         \A p \in DOMAIN j.g : Len(j.g[p]) \in Nat \ {0}
  PROVE  \E k \in 0 .. Cardinality(Facts(j, s)) : derivable(j, s)[k + 1] = derivable(j, s)[k]
<1> DEFINE D == derivable(j, s)
           c == Cardinality(Facts(j, s))
<1>1. IsFiniteSet(Facts(j, s)) /\ c \in Nat
  BY FactsFinite, FS_CardinalityType
<1>2. \A k \in Nat : D[k] \subseteq D[k + 1] /\ D[k] \subseteq Facts(j, s)
  BY LevelsGrow
<1> HIDE DEF D, c
<1>3. \A k \in Nat : IsFiniteSet(D[k]) /\ Cardinality(D[k]) \in Nat /\ Cardinality(D[k]) <= c
  BY <1>1, <1>2, FS_Subset, FS_CardinalityType DEF c
<1> SUFFICES ASSUME \A k \in 0 .. c : D[k + 1] # D[k] PROVE FALSE
  BY DEF D, c
<1> DEFINE A == { k \in Nat : k <= c + 1 => Cardinality(D[k]) >= k }
<1>4. 0 \in A
  BY <1>3
<1>5. ASSUME NEW k \in Nat, k \in A PROVE k + 1 \in A
  <2> SUFFICES ASSUME k + 1 <= c + 1 PROVE Cardinality(D[k + 1]) >= k + 1
    OBVIOUS
  <2>1. k \in 0 .. c /\ Cardinality(D[k]) >= k
    BY <1>1, <1>5
  <2>2. D[k] \subseteq D[k + 1] /\ D[k] # D[k + 1]
    BY <1>2, <2>1
  <2>3. k + 1 \in Nat
    OBVIOUS
  <2>4. Cardinality(D[k]) < Cardinality(D[k + 1])
    <3> HIDE DEF A
    <3>1. IsFiniteSet(D[k + 1]) /\ D[k] \in SUBSET D[k + 1]
      BY <1>3, <2>2, <2>3
    <3>2. Cardinality(D[k]) <= Cardinality(D[k + 1]) /\ Cardinality(D[k + 1]) # Cardinality(D[k])
      BY <2>2, <3>1, FS_Subset
    <3> QED BY <1>3, <2>3, <3>2
  <2> QED BY <1>3, <2>1, <2>3, <2>4
<1>6. Nat \subseteq A
  <2> HIDE DEF A
  <2> QED BY <1>4, <1>5, SetInduction
<1>7. c + 1 \in Nat
  BY <1>1
<1> QED BY <1>1, <1>3, <1>6, <1>7

\* What is derived in the end: closed, and reached from nothing.
LEMMA DerivedIs ==
  ASSUME NEW j, NEW s, j.g \in Seq(Seq(used(j.g))), Len(s) \in Nat,
         \A p \in DOMAIN j.g : Len(j.g[p]) \in Nat \ {0}
  PROVE  /\ derive(j, s, derived(j, s)) = derived(j, s)
         /\ \E k \in Nat : derived(j, s) = derivable(j, s)[k]
         /\ derived(j, s) \subseteq Facts(j, s)
<1> DEFINE D == derivable(j, s)
           k == CHOOSE m \in 0 .. Cardinality(Facts(j, s)) : D[m + 1] = D[m]
<1>1. k \in 0 .. Cardinality(Facts(j, s)) /\ D[k + 1] = D[k]
  BY LevelsStop
<1>2. Cardinality(Facts(j, s)) \in Nat
  BY FactsFinite, FS_CardinalityType
<1>3. k \in Nat
  BY <1>1, <1>2
<1>4. derived(j, s) = D[k]
  BY DEF derived
<1> HIDE DEF k
<1>5. D[k + 1] = derive(j, s, D[k])
  <2>1. \A m \in Nat : derivable(j, s)[m + 1] = derive(j, s, derivable(j, s)[m])
    BY DerivableIs
  <2> QED BY <1>3, <2>1
<1>6. D[k] \subseteq Facts(j, s)
  BY <1>3, LevelsGrow
<1> HIDE DEF D
<1> QED BY <1>1, <1>3, <1>4, <1>5, <1>6 DEF D

----------------------------------------------------------------------------
(* What a parser is built with.                                            *)

LEMMA JobIs ==
  ASSUME NEW j \in Jobs
  PROVE  /\ j.g \in Seq(Seq(used(j.g)))
         /\ DOMAIN j.g = 1 .. Len(j.g) /\ Len(j.g) \in Nat
         /\ \A p \in DOMAIN j.g : /\ Len(j.g[p]) \in Nat \ {0} /\ DOMAIN j.g[p] = 1 .. Len(j.g[p])
                                  /\ nt(j.g[p][1])
         /\ \A p \in DOMAIN j.g : \A k \in 1 .. Len(j.g[p]) : j.g[p][k] \in {"nt", "c"} \X {j.g[p][k][2]}
         /\ j.uses \in Nat
<1>1. j.g \in Seq(Seq(used(j.g))) /\ j.uses \in Nat
  BY JobsAssumption
<1>2. DOMAIN j.g = 1 .. Len(j.g) /\ Len(j.g) \in Nat /\ \A p \in DOMAIN j.g : j.g[p] \in Seq(used(j.g))
  BY <1>1
<1>3. ASSUME NEW p \in DOMAIN j.g
      PROVE  /\ Len(j.g[p]) \in Nat \ {0} /\ DOMAIN j.g[p] = 1 .. Len(j.g[p])
             /\ nt(j.g[p][1])
             /\ \A k \in 1 .. Len(j.g[p]) : j.g[p][k] \in {"nt", "c"} \X {j.g[p][k][2]}
  <2>1. j.g[p] \in Seq(used(j.g)) /\ j.g[p] # <<>> /\ nt(j.g[p][1])
    BY <1>2, JobsAssumption
  <2>2. Len(j.g[p]) \in Nat \ {0} /\ DOMAIN j.g[p] = 1 .. Len(j.g[p])
    BY <2>1
  <2>3. ASSUME NEW k \in 1 .. Len(j.g[p]) PROVE j.g[p][k] \in {"nt", "c"} \X {j.g[p][k][2]}
    <3>1. j.g[p][k] \in used(j.g)
      BY <2>2 DEF used
    <3> QED BY <3>1, JobsAssumption
  <2> QED BY <2>1, <2>2, <2>3
<1> QED BY <1>1, <1>2, <1>3

LEMMA NextPlace ==
  ASSUME NEW m \in Nat, NEW x \in 0 .. m, x # m
  PROVE  x + 1 \in 1 .. m
  OBVIOUS

LEMMA InputIs ==
  ASSUME NEW j \in Jobs, NEW s \in j.inputs
  PROVE  /\ Len(s) \in Nat /\ 0 \in places(s) /\ Len(s) \in places(s)
         /\ \A x \in places(s) : x # Len(s) => char_at(s, x) # "0" /\ char_at(s, x) # Eof
<1>1. s \in Seq(elements(s)) /\ "0" \notin elements(s) /\ Eof \notin elements(s)
  BY JobsAssumption
<1>2. Len(s) \in Nat /\ DOMAIN s = 1 .. Len(s)
  BY <1>1
<1>3. ASSUME NEW x \in places(s), x # Len(s) PROVE char_at(s, x) \in elements(s)
  <2>1. x \in 0 .. Len(s)
    BY <1>3 DEF places
  <2>2. x + 1 \in 1 .. Len(s)
    BY <1>2, <1>3, <2>1, NextPlace
  <2>3. x + 1 \in DOMAIN s
    BY <1>2, <2>2
  <2> QED BY <2>1, <2>3 DEF char_at, elements
<1>4. 0 \in places(s) /\ Len(s) \in places(s)
  BY <1>2 DEF places
<1>5. \A x \in places(s) : x # Len(s) => char_at(s, x) # "0" /\ char_at(s, x) # Eof
  BY <1>1, <1>3
<1> QED BY <1>2, <1>4, <1>5

\* Where a character or a class is read, and what is read as eps.
LEMMA AfterIs ==
  ASSUME NEW s, Len(s) \in Nat
  PROVE  \A x \in places(s) : after(s, x) \in places(s) /\ after(s, x) >= x /\ (x # Len(s) => after(s, x) = x + 1)
BY DEF places, after

\* A production of literals that may be empty is read as nothing anywhere.
LEMMA AllNullsRead ==
  ASSUME NEW j, NEW s, NEW D, NEW known, NEW p, Len(p) \in Nat \ {0}, all_nulls(p, known),
         \A l \in known : nt(l) /\ ~builtin_of(j, l) /\ \A x \in places(s) : <<l, x, x>> \in D
  PROVE  \A x \in places(s) : <<x, x>> \in upto(j, s, D, p)[Len(p)]
<1> SUFFICES ASSUME NEW x \in places(s) PROVE <<x, x>> \in upto(j, s, D, p)[Len(p)]
  OBVIOUS
<1> DEFINE A == { d \in Nat : d + 1 <= Len(p) => <<x, x>> \in upto(j, s, D, p)[d + 1] }
<1>1. 0 \in A
  BY UptoAt
<1>2. ASSUME NEW d \in Nat, d \in A PROVE d + 1 \in A
  <2> SUFFICES ASSUME (d + 1) + 1 <= Len(p) PROVE <<x, x>> \in upto(j, s, D, p)[(d + 1) + 1]
    OBVIOUS
  <2>1. <<x, x>> \in upto(j, s, D, p)[d + 1] /\ d + 1 \in Nat /\ d + 1 >= 1 /\ (d + 1) + 1 \in 2 .. Len(p)
    BY <1>2
  <2>2. reads_as(j, s, D, p[(d + 1) + 1], x, x)
    <3>1. p[(d + 1) + 1] = eps \/ p[(d + 1) + 1] \in known
      BY <2>1 DEF all_nulls
    <3> QED BY <3>1 DEF reads_as
  <2>3. upto(j, s, D, p)[(d + 1) + 1] = Then(j, s, D, p[(d + 1) + 1], upto(j, s, D, p)[d + 1])
    BY <2>1, UptoIs
  <2> HIDE DEF A
  <2> QED BY <2>1, <2>2, <2>3 DEF Then, Stretches
<1>3. Nat \subseteq A
  <2> HIDE DEF A
  <2> QED BY <1>1, <1>2, SetInduction
<1>4. Len(p) - 1 \in A /\ (Len(p) - 1) + 1 = Len(p)
  BY <1>3
<1> QED BY <1>4

LEMMA NullableLitsIs ==
  ASSUME NEW g, Len(g) \in Nat
  PROVE  \E nulls \in [Nat -> SUBSET { g[p][1] : p \in DOMAIN g }] :
           /\ nullable_lits(g) = nulls[Len(g)]
           /\ nulls[0] = {}
           /\ \A k \in Nat : nulls[k + 1] = nulls[k] \cup { g[p][1] : p \in { q \in DOMAIN g : all_nulls(g[q], nulls[k]) } }
<1> DEFINE X == SUBSET { g[p][1] : p \in DOMAIN g }
           More(known) == known \cup { g[p][1] : p \in { q \in DOMAIN g : all_nulls(g[q], known) } }
           F == [q \in Nat \X X |-> More(q[2])]
           B(f) == [k \in Nat |-> IF k = 0 THEN {} ELSE More(f[k - 1])]
<1>1. \A known \in X : More(known) \in X
  OBVIOUS
<1>2. PICK f \in [Nat -> X] : f[0] = {} /\ \A k \in Nat : f[k + 1] = F[<<k, f[k]>>]
  <2>1. {} \in X
    OBVIOUS
  <2>2. F \in [Nat \X X -> X]
    <3> HIDE DEF X, More
    <3> QED BY <1>1
  <2> HIDE DEF X, F
  <2>3. Goes(X, {}, F)
    BY <2>1, <2>2 DEF Goes
  <2> QED BY <2>3, Recursion DEF Follows
<1>3. \A k \in Nat : f[k + 1] = More(f[k])
  <2> HIDE DEF X, More
  <2> QED BY <1>2
<1>4. ASSUME NEW k \in Nat PROVE f[k] = IF k = 0 THEN {} ELSE More(f[k - 1])
  <2> HIDE DEF More
  <2>1. CASE k = 0
    BY <1>2, <2>1
  <2>2. CASE k # 0
    <3>1. k - 1 \in Nat /\ (k - 1) + 1 = k
      BY <2>2
    <3> QED BY <1>3, <2>2, <3>1
  <2> QED BY <2>1, <2>2
<1>5. f = B(f)
  <2>1. DOMAIN f = Nat
    BY <1>2
  <2> HIDE DEF More
  <2> QED BY <1>2, <1>4, <2>1
<1> DEFINE u == CHOOSE w : w = B(w)
<1>6. nullable_lits(g) = u[Len(g)]
  BY DEF nullable_lits
<1>7. u = B(u)
  <2> HIDE DEF B
  <2> QED BY <1>5
<1> HIDE DEF u
<1>8. \A k \in Nat : u[k] = IF k = 0 THEN {} ELSE More(u[k - 1])
  <2> HIDE DEF More
  <2> QED BY <1>7
<1>9. u[0] = {} /\ \A k \in Nat : u[k + 1] = More(u[k])
  <2>1. \A k \in Nat : k + 1 \in Nat /\ k + 1 # 0 /\ (k + 1) - 1 = k
    OBVIOUS
  <2> HIDE DEF More
  <2> QED BY <1>8, <2>1
<1>10. u \in [Nat -> X]
  <2> DEFINE A == { k \in Nat : u[k] \in X }
  <2>1. 0 \in A
    BY <1>9
  <2>2. ASSUME NEW k \in Nat, k \in A PROVE k + 1 \in A
    <3>1. u[k] \in X /\ u[k + 1] = More(u[k])
      <4> HIDE DEF More, X
      <4> QED BY <1>9, <2>2
    <3>2. u[k + 1] \in X
      <4> HIDE DEF More, X
      <4> QED BY <1>1, <3>1
    <3> QED BY <3>2
  <2>3. Nat \subseteq A
    <3> HIDE DEF A
    <3> QED BY <2>1, <2>2, SetInduction
  <2>4. u = [k \in Nat |-> u[k]]
    <3> HIDE DEF More
    <3> QED BY <1>7
  <2> HIDE DEF X
  <2> QED BY <2>3, <2>4
<1> QED BY <1>6, <1>9, <1>10

\* Whatever is closed under the productions has the empty stretches of nullables.
LEMMA NullablesRead ==
  ASSUME NEW j \in Jobs, NEW s, NEW D, derive(j, s, D) \subseteq D,
         \A p \in DOMAIN j.g : ~builtin_of(j, j.g[p][1])
  PROVE  \A l \in nullable_lits(j.g) : nt(l) /\ ~builtin_of(j, l) /\ \A x \in places(s) : <<l, x, x>> \in D
<1>1. PICK f \in [Nat -> SUBSET { j.g[p][1] : p \in DOMAIN j.g }] :
           /\ nullable_lits(j.g) = f[Len(j.g)]
           /\ f[0] = {}
           /\ \A k \in Nat : f[k + 1] = f[k] \cup { j.g[p][1] : p \in { q \in DOMAIN j.g : all_nulls(j.g[q], f[k]) } }
  <2>1. Len(j.g) \in Nat
    BY JobIs
  <2> QED BY <2>1, NullableLitsIs
<1>2. \A p \in DOMAIN j.g : Len(j.g[p]) \in Nat \ {0} /\ nt(j.g[p][1])
  BY JobIs
<1> DEFINE Ok(l) == nt(l) /\ ~builtin_of(j, l) /\ \A x \in places(s) : <<l, x, x>> \in D
           A == { k \in Nat : \A l \in f[k] : Ok(l) }
<1>3. 0 \in A
  BY <1>1
<1>4. ASSUME NEW k \in Nat, k \in A PROVE k + 1 \in A
  <2> SUFFICES ASSUME NEW p \in DOMAIN j.g, all_nulls(j.g[p], f[k]) PROVE Ok(j.g[p][1])
    <3> HIDE DEF Ok
    <3>1. f[k + 1] = f[k] \cup { j.g[p][1] : p \in { q \in DOMAIN j.g : all_nulls(j.g[q], f[k]) } }
      BY <1>1
    <3>2. k + 1 \in Nat /\ \A l \in f[k] : Ok(l)
      BY <1>4
    <3> QED BY <3>1, <3>2
  <2>1. \A x \in places(s) : <<x, x>> \in upto(j, s, D, j.g[p])[Len(j.g[p])]
    BY <1>2, <1>4, AllNullsRead
  <2>2. \A x \in places(s) : <<j.g[p][1], x, x>> \in D
    BY <1>2, <2>1, DeriveIs
  <2> QED BY <1>2, <2>2
<1>5. Nat \subseteq A
  <2> HIDE DEF A
  <2> QED BY <1>3, <1>4, SetInduction
<1>6. Len(j.g) \in Nat
  BY JobIs
<1> QED BY <1>1, <1>5, <1>6

----------------------------------------------------------------------------
(* The order of items.                                                     *)

Tuples == Nat \X Nat \X Nat \X Nat

\* before, written out
Less(i, j) ==
  \/ i[1] < j[1]
  \/ i[1] = j[1] /\ i[2] < j[2]
  \/ i[1] = j[1] /\ i[2] = j[2] /\ i[3] < j[3]
  \/ i[1] = j[1] /\ i[2] = j[2] /\ i[3] = j[3] /\ i[4] < j[4]

LEMMA BeforeIs == \A i, j \in Tuples : before(i, j) <=> Less(i, j)
<1> SUFFICES ASSUME NEW i \in Tuples, NEW j \in Tuples PROVE before(i, j) <=> Less(i, j)
  OBVIOUS
<1>1. ASSUME before(i, j) PROVE Less(i, j)
  <2>1. PICK k \in 1 .. 4 : i[k] < j[k] /\ \A m \in 1 .. (k - 1) : i[m] = j[m]
    BY <1>1 DEF before
  <2>2. CASE k = 1
    BY <2>1, <2>2 DEF Less
  <2>3. CASE k = 2
    <3>1. 1 \in 1 .. (k - 1)
      BY <2>3
    <3> QED BY <2>1, <2>3, <3>1 DEF Less
  <2>4. CASE k = 3
    <3>1. 1 \in 1 .. (k - 1) /\ 2 \in 1 .. (k - 1)
      BY <2>4
    <3> QED BY <2>1, <2>4, <3>1 DEF Less
  <2>5. CASE k = 4
    <3>1. 1 \in 1 .. (k - 1) /\ 2 \in 1 .. (k - 1) /\ 3 \in 1 .. (k - 1)
      BY <2>5
    <3> QED BY <2>1, <2>5, <3>1 DEF Less
  <2> QED BY <2>2, <2>3, <2>4, <2>5
<1>2. ASSUME NEW k \in 1 .. 4, i[k] < j[k], \A m \in 1 .. (k - 1) : i[m] = j[m] PROVE before(i, j)
  BY <1>2 DEF before
<1>3. ASSUME Less(i, j) PROVE before(i, j)
  <2>1. CASE i[1] < j[1]
    BY <1>2, <2>1
  <2>2. CASE i[1] = j[1] /\ i[2] < j[2]
    <3>1. \A m \in 1 .. (2 - 1) : i[m] = j[m]
      <4>1. \A m \in 1 .. (2 - 1) : m = 1
        OBVIOUS
      <4> QED BY <2>2, <4>1
    <3> QED BY <1>2, <2>2, <3>1
  <2>3. CASE i[1] = j[1] /\ i[2] = j[2] /\ i[3] < j[3]
    <3>1. \A m \in 1 .. (3 - 1) : i[m] = j[m]
      <4>1. \A m \in 1 .. (3 - 1) : m = 1 \/ m = 2
        OBVIOUS
      <4> QED BY <2>3, <4>1
    <3> QED BY <1>2, <2>3, <3>1
  <2>4. CASE i[1] = j[1] /\ i[2] = j[2] /\ i[3] = j[3] /\ i[4] < j[4]
    <3>1. \A m \in 1 .. (4 - 1) : i[m] = j[m]
      <4>1. \A m \in 1 .. (4 - 1) : m = 1 \/ m = 2 \/ m = 3
        OBVIOUS
      <4> QED BY <2>4, <4>1
    <3> QED BY <1>2, <2>4, <3>1
  <2> QED BY <1>3, <2>1, <2>2, <2>3, <2>4 DEF Less
<1> QED BY <1>1, <1>3

LEMMA OrderIs ==
  /\ \A i, j \in Tuples : i = j \/ before(i, j) \/ before(j, i)
  /\ \A i, j \in Tuples : ~(before(i, j) /\ before(j, i))
  /\ \A i, j, k \in Tuples : before(i, j) /\ before(j, k) => before(i, k)
<1>1. ASSUME NEW i \in Tuples, NEW j \in Tuples PROVE i = j \/ Less(i, j) \/ Less(j, i)
  <2>1. CASE i[1] = j[1] /\ i[2] = j[2] /\ i[3] = j[3] /\ i[4] = j[4]
    BY <2>1 DEF Tuples
  <2>2. CASE ~(i[1] = j[1] /\ i[2] = j[2] /\ i[3] = j[3] /\ i[4] = j[4])
    BY <2>2 DEF Less, Tuples
  <2> QED BY <2>1, <2>2
<1>2. \A i, j \in Tuples : ~(Less(i, j) /\ Less(j, i))
  BY DEF Less, Tuples
<1>3. \A i, j, k \in Tuples : Less(i, j) /\ Less(j, k) => Less(i, k)
  BY DEF Less, Tuples
<1> QED BY <1>1, <1>2, <1>3, BeforeIs

\* The least item of a set: by set, then production, then from, then dot.
LEMMA LeastIs ==
  ASSUME NEW A \in SUBSET Tuples, A # {}
  PROVE  least(A) \in A /\ \A j \in A \ {least(A)} : before(least(A), j)
<1>0. \A B \in SUBSET Tuples : B # {} =>
        /\ \E i \in B : \A j \in B : i[1] <= j[1]
        /\ \E i \in B : \A j \in B : i[2] <= j[2]
        /\ \E i \in B : \A j \in B : i[3] <= j[3]
        /\ \E i \in B : \A j \in B : i[4] <= j[4]
  <2> SUFFICES ASSUME NEW B \in SUBSET Tuples, B # {}
               PROVE  /\ \E i \in B : \A j \in B : i[1] <= j[1]
                      /\ \E i \in B : \A j \in B : i[2] <= j[2]
                      /\ \E i \in B : \A j \in B : i[3] <= j[3]
                      /\ \E i \in B : \A j \in B : i[4] <= j[4]
    OBVIOUS
  <2>1. \A i \in B : i[1] \in Nat /\ i[2] \in Nat /\ i[3] \in Nat /\ i[4] \in Nat
    BY DEF Tuples
  <2>2. \E x \in { i[1] : i \in B } : \A y \in { i[1] : i \in B } : x <= y
    <3> DEFINE V == { i[1] : i \in B }
    <3>1. V \subseteq Nat /\ V # {}
      BY <2>1
    <3> HIDE DEF V
    <3>2. \E x \in V : \A y \in V : x <= y
      BY <3>1, Least
    <3> QED BY <3>2 DEF V
  <2>3. \E x \in { i[2] : i \in B } : \A y \in { i[2] : i \in B } : x <= y
    <3> DEFINE V == { i[2] : i \in B }
    <3>1. V \subseteq Nat /\ V # {}
      BY <2>1
    <3> HIDE DEF V
    <3>2. \E x \in V : \A y \in V : x <= y
      BY <3>1, Least
    <3> QED BY <3>2 DEF V
  <2>4. \E x \in { i[3] : i \in B } : \A y \in { i[3] : i \in B } : x <= y
    <3> DEFINE V == { i[3] : i \in B }
    <3>1. V \subseteq Nat /\ V # {}
      BY <2>1
    <3> HIDE DEF V
    <3>2. \E x \in V : \A y \in V : x <= y
      BY <3>1, Least
    <3> QED BY <3>2 DEF V
  <2>5. \E x \in { i[4] : i \in B } : \A y \in { i[4] : i \in B } : x <= y
    <3> DEFINE V == { i[4] : i \in B }
    <3>1. V \subseteq Nat /\ V # {}
      BY <2>1
    <3> HIDE DEF V
    <3>2. \E x \in V : \A y \in V : x <= y
      BY <3>1, Least
    <3> QED BY <3>2 DEF V
  <2>6. \E i \in B : \A j \in B : i[1] <= j[1]
    BY <2>2
  <2>7. \E i \in B : \A j \in B : i[2] <= j[2]
    BY <2>3
  <2>8. \E i \in B : \A j \in B : i[3] <= j[3]
    BY <2>4
  <2>9. \E i \in B : \A j \in B : i[4] <= j[4]
    BY <2>5
  <2> QED BY <2>6, <2>7, <2>8, <2>9
<1>1. PICK a \in A : \A j \in A : a[1] <= j[1]
  BY <1>0
<1> DEFINE B == { i \in A : i[1] = a[1] }
<1>2. PICK b \in B : \A j \in B : b[2] <= j[2]
  <2>1. B \in SUBSET Tuples /\ B # {}
    BY <1>1
  <2> HIDE DEF B
  <2> QED BY <1>0, <2>1
<1> DEFINE C == { i \in B : i[2] = b[2] }
<1>3. PICK c \in C : \A j \in C : c[3] <= j[3]
  <2>1. C \in SUBSET Tuples /\ C # {}
    BY <1>2
  <2> HIDE DEF C
  <2> QED BY <1>0, <2>1
<1> DEFINE E == { i \in C : i[3] = c[3] }
<1>4. PICK e \in E : \A j \in E : e[4] <= j[4]
  <2>1. E \in SUBSET Tuples /\ E # {}
    BY <1>3
  <2> HIDE DEF E
  <2> QED BY <1>0, <2>1
<1>5. e \in A /\ e[1] = a[1] /\ e[2] = b[2] /\ e[3] = c[3]
  BY <1>4
<1>6. ASSUME NEW j \in A, j # e PROVE before(e, j)
  <2>1. e \in Tuples /\ j \in Tuples
    BY <1>5
  <2>2. ~Less(j, e)
    <3>1. a[1] <= j[1]
      BY <1>1
    <3>2. j[1] = a[1] => b[2] <= j[2]
      BY <1>2
    <3>3. j[1] = a[1] /\ j[2] = b[2] => c[3] <= j[3]
      BY <1>3
    <3>4. j[1] = a[1] /\ j[2] = b[2] /\ j[3] = c[3] => e[4] <= j[4]
      BY <1>4
    <3> HIDE DEF B, C, E
    <3> QED BY <1>5, <2>1, <3>1, <3>2, <3>3, <3>4 DEF Less, Tuples
  <2> QED BY <1>6, <2>1, <2>2, OrderIs, BeforeIs
<1>7. \E i \in A : \A j \in A \ {i} : before(i, j)
  BY <1>5, <1>6
<1> QED BY <1>7 DEF least

----------------------------------------------------------------------------
(* What add, complete and predict leave in t.                              *)

Fits(i) == i \in Tuples /\ Len(G[i[2]]) \in Nat /\ i[4] \in 1 .. Len(G[i[2]])

\* U has, beside T, the items of I and those past literals that may be empty:
\* all of these where such a literal is the empty string itself, so to speak
Reached(i, d) == d \in i[4] .. Len(G[i[2]]) /\ \A m \in i[4] .. (d - 1) : nullable(dotted(i, m))
Added(T, U, I) ==
  /\ T \subseteq U
  /\ I \subseteq S \cup U
  /\ \A k \in U \ T : \E i \in I : \E d \in Nat : Reached(i, d) /\ k = dotted(i, d)
  /\ \A k \in U \ T : nullable(k) => advanced(k, k[1]) \in S \cup U

LEMMA AddAdds ==
  ASSUME NEW T, NEW i, Fits(i)
  PROVE  Added(T, add(T, i), {i})
<1> DEFINE L == Len(G[i[2]])
           Ok(e) == /\ \A m \in i[4] .. e : dotted(i, m) \notin S \cup T
                    /\ \A m \in i[4] .. (e - 1) : nullable(dotted(i, m))
           U == add(T, i)
<1>1. U = T \cup { dotted(i, d) : d \in { e \in i[4] .. L : Ok(e) } }
  BY DEF add
<1>2. L \in Nat /\ i[4] \in Nat /\ i[4] <= L /\ i[4] >= 1 /\ dotted(i, i[4]) = i
  BY DEF Fits, Tuples, dotted, item
<1>3. \A d : dotted(i, d)[1] = i[1] /\ dotted(i, d)[2] = i[2] /\ dotted(i, d)[3] = i[3] /\ dotted(i, d)[4] = d
  BY DEF dotted, item
<1> HIDE DEF U
<1>4. {i} \subseteq S \cup U
  <2>1. CASE i \in S \cup T
    BY <1>1, <2>1
  <2>2. CASE i \notin S \cup T
    <3>1. i[4] \in i[4] .. L /\ Ok(i[4])
      <4>1. \A m \in i[4] .. i[4] : m = i[4]
        BY <1>2
      <4>2. \A m \in i[4] .. (i[4] - 1) : FALSE
        BY <1>2
      <4> QED BY <1>2, <2>2, <4>1, <4>2
    <3> HIDE DEF Ok
    <3> QED BY <1>1, <1>2, <3>1
  <2> QED BY <2>1, <2>2
<1>5. ASSUME NEW k \in U \ T
      PROVE  \E d \in i[4] .. L : Ok(d) /\ k = dotted(i, d)
  <2> HIDE DEF Ok
  <2> QED BY <1>1, <1>5
<1>6. ASSUME NEW k \in U \ T PROVE \E d \in Nat : Reached(i, d) /\ k = dotted(i, d)
  BY <1>2, <1>5 DEF Reached
<1>7. ASSUME NEW k \in U \ T, nullable(k) PROVE advanced(k, k[1]) \in S \cup U
  <2>1. PICK d \in i[4] .. L : Ok(d) /\ k = dotted(i, d)
    BY <1>5
  <2>2. advanced(k, k[1]) = dotted(i, d + 1)
    BY <1>3, <2>1 DEF advanced, item, dotted
  <2>3. d + 1 \in i[4] .. L
    <3>1. d # L
      BY <1>3, <1>7, <2>1 DEF nullable, completed
    <3> QED BY <1>2, <2>1, <3>1
  <2>4. CASE dotted(i, d + 1) \in S \cup T
    BY <1>1, <2>2, <2>4
  <2>5. CASE dotted(i, d + 1) \notin S \cup T
    <3>1. Ok(d + 1)
      <4>1. \A m \in i[4] .. (d + 1) : m = d + 1 \/ m \in i[4] .. d
        BY <1>2, <2>1
      <4>2. \A m \in i[4] .. ((d + 1) - 1) : m = d \/ m \in i[4] .. (d - 1)
        BY <1>2, <2>1
      <4> QED BY <1>7, <2>1, <2>5, <4>1, <4>2
    <3> HIDE DEF Ok
    <3> QED BY <1>1, <2>2, <2>3, <3>1
  <2> QED BY <2>4, <2>5
<1>8. T \subseteq U
  BY <1>1
<1> QED
  <2> HIDE DEF Ok
  <2> QED BY <1>4, <1>6, <1>7, <1>8 DEF Added, U

\* The same of many items, each added to T.
LEMMA ManyAdded ==
  ASSUME NEW T, NEW I, NEW U, \A i \in I : Fits(i),
         T \subseteq U, \A i \in I : add(T, i) \subseteq U,
         \A k \in U \ T : \E i \in I : k \in add(T, i)
  PROVE  Added(T, U, I)
<1>1. \A i \in I : Added(T, add(T, i), {i})
  BY AddAdds
<1>2. I \subseteq S \cup U
  BY <1>1 DEF Added
<1>3. ASSUME NEW k \in U \ T
      PROVE  /\ \E i \in I : \E d \in Nat : Reached(i, d) /\ k = dotted(i, d)
             /\ nullable(k) => advanced(k, k[1]) \in S \cup U
  <2>1. PICK i \in I : k \in add(T, i) \ T
    OBVIOUS
  <2>2. Added(T, add(T, i), {i})
    BY <1>1
  <2>3. \E d \in Nat : Reached(i, d) /\ k = dotted(i, d)
    BY <2>1, <2>2 DEF Added
  <2>4. nullable(k) => advanced(k, k[1]) \in S \cup U
    BY <2>1, <2>2 DEF Added
  <2> QED BY <2>3, <2>4
<1> QED BY <1>2, <1>3 DEF Added

Completing(i) == { advanced(k, i[1]) : k \in waiting(i) }
Predicting(i) == { item(i[1], p, i[1], 1) : p \in prods(get_lit(i)) }

LEMMA CompleteAdds ==
  ASSUME NEW T, NEW i, \A k \in Completing(i) : Fits(k)
  PROVE  Added(T, complete(i, T), Completing(i))
<1> DEFINE U == complete(i, T)
<1>1. U = T \cup UNION { add(T, k) : k \in Completing(i) }
  BY DEF complete, Completing
<1>2. T \subseteq U /\ \A k \in Completing(i) : add(T, k) \subseteq U
  <2> HIDE DEF U
  <2> QED BY <1>1
<1>3. \A k \in U \ T : \E m \in Completing(i) : k \in add(T, m)
  <2> HIDE DEF U
  <2> QED BY <1>1
<1> HIDE DEF U
<1>4. Added(T, U, Completing(i))
  BY <1>2, <1>3, ManyAdded
<1> QED BY <1>4 DEF U

LEMMA PredictAdds ==
  ASSUME NEW T, NEW i, \A k \in Predicting(i) : Fits(k)
  PROVE  Added(T, predict(i, T), Predicting(i))
<1> DEFINE U == predict(i, T)
<1>1. U = T \cup UNION { add(T, k) : k \in Predicting(i) }
  BY DEF predict, Predicting
<1>2. T \subseteq U /\ \A k \in Predicting(i) : add(T, k) \subseteq U
  <2> HIDE DEF U
  <2> QED BY <1>1
<1>3. \A k \in U \ T : \E m \in Predicting(i) : k \in add(T, m)
  <2> HIDE DEF U
  <2> QED BY <1>1
<1> HIDE DEF U
<1>4. Added(T, U, Predicting(i))
  BY <1>2, <1>3, ManyAdded
<1> QED BY <1>4 DEF U

----------------------------------------------------------------------------
(* What is always so of the parser and of the items it has.                *)

\* a production that scan_builtin has made
CharProd(key, p) ==
  /\ p \in Len(job.g) + 1 .. Len(G) /\ G[p] = <<NT(key[1]), Ch(key[2])>>
  /\ key[1] \in DOMAIN job.builtins /\ key[2] \in job.builtins[key[1]]

BuiltInv ==
  /\ job \in Jobs /\ parses \in Nat
  /\ nts = productions_of(job.g) /\ nullables = nullable_lits(job.g)
  /\ G \in Seq(elements(G)) /\ Len(job.g) <= Len(G)
  /\ \A p \in 1 .. Len(job.g) : G[p] = job.g[p]
  /\ \A key \in DOMAIN builtin_char_prod : CharProd(key, builtin_char_prod[key])
  /\ \A p \in Len(job.g) + 1 .. Len(G) : \E key \in DOMAIN builtin_char_prod : builtin_char_prod[key] = p

PlaceInv ==
  /\ n = idle \/ n \in places(inputstr)
  /\ n # idle \/ parses > 0 => inputstr \in job.inputs

Proper(i) ==
  /\ Fits(i) /\ i[2] \in 1 .. Len(G)
  /\ i[3] <= i[1] /\ i[1] <= Len(inputstr)
  /\ i[4] = 1 => i[3] = i[1]
  /\ i[2] > Len(job.g) => i[4] = 2

ItemInv ==
  n # idle =>
    /\ \A i \in S \cup t : Proper(i)
    /\ \A i \in t : i[1] = n
    /\ it = <<>> \/ (it \in S /\ it[1] = n)

\* a production as written, and one of a character
LEMMA ProdIs ==
  ASSUME BuiltInv
  PROVE  /\ Len(G) \in Nat /\ Len(job.g) \in Nat /\ DOMAIN job.g = 1 .. Len(job.g)
         /\ \A p \in 1 .. Len(G) : p <= Len(job.g) \/ p > Len(job.g)
         /\ \A p \in 1 .. Len(job.g) : G[p] = job.g[p]
         /\ \A p \in 1 .. Len(G) : Len(G[p]) \in Nat \ {0} /\ nt(G[p][1])
         /\ \A p \in 1 .. Len(G) : p > Len(job.g) =>
              /\ Len(G[p]) = 2 /\ is_builtin(G[p][1])
              /\ \E c \in job.builtins[G[p][1][2]] : G[p][2] = Ch(c)
<1>1. Len(G) \in Nat /\ Len(job.g) \in Nat /\ DOMAIN job.g = 1 .. Len(job.g) /\ Len(job.g) <= Len(G)
  BY JobIs DEF BuiltInv
<1>2. \A p \in 1 .. Len(job.g) : G[p] = job.g[p] /\ Len(G[p]) \in Nat \ {0} /\ nt(G[p][1])
  BY <1>1, JobIs DEF BuiltInv
<1>3. ASSUME NEW p \in 1 .. Len(G), p > Len(job.g)
      PROVE  /\ Len(G[p]) = 2 /\ is_builtin(G[p][1]) /\ nt(G[p][1])
             /\ \E c \in job.builtins[G[p][1][2]] : G[p][2] = Ch(c)
  <2>1. p \in Len(job.g) + 1 .. Len(G)
    BY <1>1, <1>3
  <2>2. PICK key \in DOMAIN builtin_char_prod : builtin_char_prod[key] = p
    BY <2>1 DEF BuiltInv
  <2>3. CharProd(key, p)
    BY <2>2 DEF BuiltInv
  <2> QED BY <2>3 DEF CharProd, is_builtin, builtin_of, NT, nt
<1> QED BY <1>1, <1>2, <1>3

LEMMA ProdsAre ==
  ASSUME BuiltInv
  PROVE  \A l, p : p \in prods(l) <=> p \in 1 .. Len(job.g) /\ job.g[p][1] = l
BY ProdIs DEF BuiltInv, prods, productions_of

\* An item with something to come is of a production as written.
LEMMA OpenIs ==
  ASSUME BuiltInv, NEW i, Proper(i), ~completed(i)
  PROVE  /\ i[2] \in 1 .. Len(job.g) /\ G[i[2]] = job.g[i[2]]
         /\ i[4] + 1 \in 2 .. Len(G[i[2]])
         /\ get_lit(i) \in {"nt", "c"} \X {get_lit(i)[2]}
         /\ (eps_alone /\ get_lit(i) = eps) => Len(G[i[2]]) = 2
<1>1. i[2] \in 1 .. Len(job.g)
  <2>1. i[2] \in 1 .. Len(G) /\ (i[2] > Len(job.g) => i[4] = 2)
    BY DEF Proper
  <2>2. ~(i[2] > Len(job.g))
    <3>1. i[2] > Len(job.g) => Len(G[i[2]]) = 2
      BY <2>1, ProdIs
    <3> QED BY <2>1, <3>1 DEF completed
  <2> QED BY <2>1, <2>2, ProdIs
<1>2. G[i[2]] = job.g[i[2]]
  BY <1>1, ProdIs
<1>3. i[4] + 1 \in 2 .. Len(G[i[2]])
  <2>1. Len(G[i[2]]) \in Nat /\ i[4] \in 1 .. Len(G[i[2]]) /\ Len(G[i[2]]) # i[4]
    BY DEF Proper, Fits, completed
  <2>2. \A len \in Nat : \A d \in 1 .. len : len # d => d + 1 \in 2 .. len
    OBVIOUS
  <2> QED BY <2>1, <2>2
<1>4. get_lit(i) \in {"nt", "c"} \X {get_lit(i)[2]}
  <2>1. i[4] + 1 \in 1 .. Len(job.g[i[2]])
    BY <1>2, <1>3
  <2>2. i[2] \in DOMAIN job.g /\ job \in Jobs
    BY <1>1, ProdIs DEF BuiltInv
  <2> QED BY <1>2, <2>1, <2>2, JobIs DEF get_lit
<1>5. (eps_alone /\ get_lit(i) = eps) => Len(G[i[2]]) = 2
  <2>1. i[2] \in DOMAIN job.g
    BY <1>1, ProdIs DEF BuiltInv
  <2> QED BY <1>2, <1>3, <2>1 DEF get_lit, eps_alone
<1> QED BY <1>1, <1>2, <1>3, <1>4, <1>5

\* New productions leave the items as they are.
Extends ==
  /\ UNCHANGED <<built, inputstr>>
  /\ Len(G') \in Nat /\ Len(G) <= Len(G')
  /\ \A p \in 1 .. Len(G) : G'[p] = G[p]

LEMMA ExtendsItems ==
  ASSUME BuiltInv, Extends, NEW i, Proper(i)
  PROVE  /\ Proper(i)' /\ (completed(i)' <=> completed(i)) /\ get_nt(i)' = get_nt(i)
         /\ get_lit(i)' = get_lit(i) /\ (nullable(i)' <=> nullable(i)) /\ (is_builtin(get_lit(i))' <=> is_builtin(get_lit(i)))
         /\ prods(get_lit(i))' = prods(get_lit(i))
<1>1. G'[i[2]] = G[i[2]] /\ i[2] \in 1 .. Len(G') /\ job' = job /\ nullables' = nullables /\ inputstr' = inputstr /\ nts' = nts
  BY ProdIs DEF Proper, Extends, built
<1>2. completed(i)' <=> completed(i)
  BY <1>1 DEF completed
<1>3. get_nt(i)' = get_nt(i) /\ get_lit(i)' = get_lit(i)
  BY <1>1 DEF get_nt, get_lit
<1>4. nullable(i)' <=> nullable(i)
  BY <1>1, <1>2, <1>3 DEF nullable
<1>5. is_builtin(get_lit(i))' <=> is_builtin(get_lit(i))
  BY <1>1, <1>3 DEF is_builtin
<1>6. prods(get_lit(i))' = prods(get_lit(i))
  BY <1>1, <1>3 DEF prods
<1>7. Proper(i)'
  BY <1>1 DEF Proper, Fits
<1> QED BY <1>2, <1>3, <1>4, <1>5, <1>6, <1>7

LEMMA AppendIs ==
  ASSUME NEW s, s \in Seq(elements(s)), NEW e
  PROVE  /\ Append(s, e) \in Seq(elements(Append(s, e)))
         /\ Len(s) \in Nat /\ Len(Append(s, e)) = Len(s) + 1
         /\ \A k \in 1 .. Len(s) : Append(s, e)[k] = s[k]
         /\ Append(s, e)[Len(s) + 1] = e
<1> DEFINE X == elements(s) \cup {e}
           u == Append(s, e)
<1>1. s \in Seq(X) /\ e \in X
  BY DEF elements
<1>2. u \in Seq(X) /\ Len(s) \in Nat /\ Len(u) = Len(s) + 1 /\ DOMAIN u = 1 .. Len(s) + 1
  BY <1>1
<1>3. (\A k \in 1 .. Len(s) : u[k] = s[k]) /\ u[Len(s) + 1] = e
  BY <1>1
<1>4. u \in Seq(elements(u))
  <2>1. \A k \in 1 .. Len(u) : u[k] \in elements(u)
    BY <1>2 DEF elements
  <2> QED BY <1>2, <2>1
<1> QED BY <1>2, <1>3, <1>4

\* What scan_builtin does when the character is of the class.
Scanned(i, p) ==
  /\ p \in Len(job.g) + 1 .. Len(G') /\ G'[p] = <<get_lit(i), Ch(ch)>>
  /\ S' = S \cup {item(after(inputstr, n), i[2], n, 2), item(after(inputstr, n), p, n, 2)}

LEMMA ScanBuiltinIs ==
  ASSUME BuiltInv, NEW i, Proper(i), ~completed(i), is_builtin(get_lit(i)),
         scan_builtin(i), UNCHANGED <<built, inputstr, parses>>
  PROVE  /\ Extends /\ BuiltInv'
         /\ IF ch \in job.builtins[get_lit(i)[2]] THEN \E p : Scanned(i, p) ELSE S' = S /\ G' = G
<1>1. get_lit(i) = NT(get_lit(i)[2]) /\ get_lit(i)[2] \in DOMAIN job.builtins
  <2>1. get_lit(i) \in {"nt", "c"} \X {get_lit(i)[2]} /\ nt(get_lit(i)) /\ get_lit(i)[2] \in DOMAIN job.builtins
    BY OpenIs DEF is_builtin, builtin_of
  <2> QED BY <2>1 DEF nt, NT
<1>2. Len(G) \in Nat /\ Len(job.g) \in Nat /\ Len(job.g) <= Len(G) /\ G \in Seq(elements(G))
  BY ProdIs DEF BuiltInv
<1>3. CASE ch \notin job.builtins[get_lit(i)[2]]
  <2>1. UNCHANGED <<S, G, builtin_char_prod>>
    BY <1>3 DEF scan_builtin
  <2>2. Extends
    BY <1>2, <2>1 DEF Extends
  <2>3. BuiltInv'
    BY <2>1 DEF BuiltInv, CharProd, built
  <2> QED BY <1>3, <2>1, <2>2, <2>3
<1>4. CASE ch \in job.builtins[get_lit(i)[2]]
  <2> DEFINE key == <<get_lit(i)[2], ch>>
             known == key \in DOMAIN builtin_char_prod
             p == IF known THEN builtin_char_prod[key] ELSE Len(G) + 1
             new == <<get_lit(i), Ch(ch)>>
  <2>1. /\ S' = S \cup {item(after(inputstr, n), i[2], n, 2), item(after(inputstr, n), p, n, 2)}
        /\ G' = IF known THEN G ELSE Append(G, new)
        /\ builtin_char_prod' = [k \in DOMAIN builtin_char_prod \cup {key} |-> IF k = key THEN p ELSE builtin_char_prod[k]]
    BY <1>4 DEF scan_builtin
  <2>2. new = <<NT(key[1]), Ch(key[2])>> /\ key[1] \in DOMAIN job.builtins /\ key[2] \in job.builtins[key[1]]
    BY <1>1, <1>4
  <2>3. /\ G' \in Seq(elements(G')) /\ Len(G') \in Nat /\ Len(G) <= Len(G')
        /\ \A q \in 1 .. Len(G) : G'[q] = G[q]
        /\ p \in Len(job.g) + 1 .. Len(G') /\ G'[p] = new
        /\ \A q \in 1 .. Len(G') : q \in 1 .. Len(G) \/ q = p
    <3>1. CASE known
      <4>1. CharProd(key, builtin_char_prod[key])
        BY <3>1 DEF BuiltInv
      <4>2. p = builtin_char_prod[key] /\ G' = G
        BY <2>1, <3>1
      <4> HIDE DEF p, known, key, new
      <4>3. p \in Len(job.g) + 1 .. Len(G) /\ G[p] = new
        BY <2>2, <4>1, <4>2 DEF CharProd
      <4> QED BY <1>2, <4>2, <4>3
    <3>2. CASE ~known
      <4> HIDE DEF new, known
      <4>1. G' = Append(G, new) /\ p = Len(G) + 1
        BY <2>1, <3>2
      <4> QED BY <1>2, <4>1, AppendIs
    <3> QED BY <3>1, <3>2
  <2> HIDE DEF p, new, known
  <2>4. Extends
    BY <2>3 DEF Extends
  <2>5. job' = job /\ nts' = nts /\ nullables' = nullables
    BY DEF built
  <2>6. \A q \in DOMAIN builtin_char_prod' :
          /\ builtin_char_prod'[q] \in Len(job.g) + 1 .. Len(G') /\ G'[builtin_char_prod'[q]] = <<NT(q[1]), Ch(q[2])>>
          /\ q[1] \in DOMAIN job.builtins /\ q[2] \in job.builtins[q[1]]
    <3> SUFFICES ASSUME NEW q \in DOMAIN builtin_char_prod'
                 PROVE  /\ builtin_char_prod'[q] \in Len(job.g) + 1 .. Len(G')
                        /\ G'[builtin_char_prod'[q]] = <<NT(q[1]), Ch(q[2])>>
                        /\ q[1] \in DOMAIN job.builtins /\ q[2] \in job.builtins[q[1]]
      OBVIOUS
    <3>1. CASE q = key
      <4> HIDE DEF key
      <4>1. builtin_char_prod'[q] = p
        BY <2>1, <3>1
      <4> QED BY <2>2, <2>3, <3>1, <4>1
    <3>2. CASE q # key
      <4> HIDE DEF key
      <4>1. q \in DOMAIN builtin_char_prod /\ builtin_char_prod'[q] = builtin_char_prod[q]
        BY <2>1, <3>2
      <4>2. CharProd(q, builtin_char_prod[q])
        BY <4>1 DEF BuiltInv
      <4>3. builtin_char_prod[q] \in 1 .. Len(G) /\ builtin_char_prod[q] \in Len(job.g) + 1 .. Len(G')
        BY <1>2, <2>3, <4>2 DEF CharProd
      <4> QED BY <2>3, <4>1, <4>2, <4>3 DEF CharProd
    <3> QED BY <3>1, <3>2
  <2>7. \A q \in Len(job.g) + 1 .. Len(G') : \E k \in DOMAIN builtin_char_prod' : builtin_char_prod'[k] = q
    <3> SUFFICES ASSUME NEW q \in Len(job.g) + 1 .. Len(G')
                 PROVE  \E k \in DOMAIN builtin_char_prod' : builtin_char_prod'[k] = q
      OBVIOUS
    <3>1. CASE q = p
      BY <2>1, <3>1
    <3>2. CASE q # p
      <4>1. q \in Len(job.g) + 1 .. Len(G)
        <5>1. q \in 1 .. Len(G')
          BY <1>2
        <5> QED BY <1>2, <2>3, <3>2, <5>1
      <4>2. PICK k \in DOMAIN builtin_char_prod : builtin_char_prod[k] = q
        BY <4>1 DEF BuiltInv
      <4>3. k # key
        BY <2>1, <3>2, <4>2 DEF p, known
      <4> QED BY <2>1, <4>2, <4>3
    <3> QED BY <3>1, <3>2
  <2>8. BuiltInv'
    <3>1. /\ job' \in Jobs /\ parses' \in Nat /\ nts' = productions_of(job'.g) /\ nullables' = nullable_lits(job'.g)
      BY <2>5 DEF BuiltInv
    <3>2. Len(job'.g) <= Len(G')
      BY <1>2, <2>3, <2>5
    <3>3. \A q \in 1 .. Len(job'.g) : G'[q] = job'.g[q]
      BY <1>2, <2>3, <2>5 DEF BuiltInv
    <3> QED BY <2>3, <2>5, <2>6, <2>7, <3>1, <3>2, <3>3 DEF BuiltInv, CharProd
  <2>9. Scanned(i, p)
    BY <2>1, <2>3 DEF Scanned, new
  <2> QED BY <1>4, <2>4, <2>8, <2>9
<1> QED BY <1>3, <1>4

----------------------------------------------------------------------------
(* What Process does with the item it looks at.                            *)

Looked(i) ==
  /\ n # idle /\ i \in S /\ i[1] = n /\ (it = <<>> \/ before(it, i))
  /\ \A j \in S : (j[1] = n /\ j # i /\ (it = <<>> \/ before(it, j))) => before(i, j)
  /\ it' = i /\ UNCHANGED <<built, n, inputstr, found, parses>>

Completes(i) == completed(i) /\ UNCHANGED <<S, G>> /\ Added(t, t', Completing(i))
Predicts(i) ==
  /\ ~completed(i) /\ ~is_builtin(get_lit(i)) /\ nt(get_lit(i))
  /\ UNCHANGED <<S, G>> /\ Added(t, t', Predicting(i))
ScansBuiltin(i) ==
  /\ ~completed(i) /\ is_builtin(get_lit(i)) /\ t' = t
  /\ IF ch \in job.builtins[get_lit(i)[2]] THEN \E p : Scanned(i, p) ELSE S' = S /\ G' = G
Scans(i) ==
  /\ ~completed(i) /\ ~nt(get_lit(i)) /\ UNCHANGED <<t, G>>
  /\ S' = S \cup IF get_lit(i) = Ch(ch) /\ n # Len(inputstr) THEN {advanced(i, n + 1)} ELSE {}

\* an item for t
Made(k) == Proper(k) /\ k[1] = n /\ k[2] <= Len(job.g)

LEMMA CompletingMade ==
  ASSUME BuiltInv, ItemInv, n # idle, NEW i \in S, i[1] = n
  PROVE  \A k \in Completing(i) : Made(k)
<1> SUFFICES ASSUME NEW j \in waiting(i) PROVE Made(advanced(j, i[1]))
  BY DEF Completing
<1>1. j \in S /\ j[1] = i[3] /\ ~completed(j) /\ Proper(j) /\ Proper(i)
  BY DEF waiting, ItemInv
<1>2. j[2] \in 1 .. Len(job.g) /\ j[4] + 1 \in 2 .. Len(G[j[2]])
  BY <1>1, OpenIs
<1>3. Len(job.g) \in Nat /\ Len(G[j[2]]) \in Nat /\ Len(G) \in Nat /\ j \in Tuples /\ i \in Tuples
  BY <1>1, ProdIs DEF Proper, Fits
<1>4. /\ advanced(j, i[1])[1] = i[1] /\ advanced(j, i[1])[2] = j[2]
      /\ advanced(j, i[1])[3] = j[3] /\ advanced(j, i[1])[4] = j[4] + 1
      /\ advanced(j, i[1]) \in Tuples
  <2>1. advanced(j, i[1]) = <<i[1], j[2], j[3], j[4] + 1>>
    BY DEF advanced, item
  <2>2. i[1] \in Nat /\ j[2] \in Nat /\ j[3] \in Nat /\ j[4] + 1 \in Nat
    BY <1>3 DEF Tuples
  <2> QED BY <2>1, <2>2 DEF Tuples
<1>5. i[1] \in Nat /\ i[3] \in Nat /\ j[3] \in Nat /\ j[4] \in Nat /\ j[3] <= j[1] /\ i[3] <= i[1] /\ i[1] <= Len(inputstr)
      /\ j[2] \in 1 .. Len(G)
  BY <1>1, <1>3 DEF Proper, Tuples
<1> DEFINE k == advanced(j, i[1])
<1> HIDE DEF k
<1>6. k[1] = i[1] /\ k[2] = j[2] /\ k[3] = j[3] /\ k[4] = j[4] + 1 /\ k \in Tuples
  BY <1>4 DEF k
<1>7. Fits(k) /\ k[4] # 1 /\ k[3] <= k[1] /\ k[2] <= Len(job.g)
  <2>1. Fits(k)
    BY <1>2, <1>3, <1>6 DEF Fits
  <2> QED BY <1>1, <1>2, <1>3, <1>5, <1>6, <2>1
<1>8. Made(k)
  BY <1>3, <1>5, <1>6, <1>7 DEF Made, Proper
<1> QED BY <1>8 DEF k

LEMMA PredictingMade ==
  ASSUME BuiltInv, ItemInv, n # idle, NEW i \in S, i[1] = n
  PROVE  \A k \in Predicting(i) : Made(k)
<1> SUFFICES ASSUME NEW p \in prods(get_lit(i)) PROVE Made(item(i[1], p, i[1], 1))
  BY DEF Predicting
<1>1. Proper(i) /\ i[1] \in Nat /\ i[1] <= Len(inputstr)
  BY DEF ItemInv, Proper, Fits, Tuples
<1>2. p \in 1 .. Len(job.g)
  BY ProdsAre
<1>3. p \in 1 .. Len(G) /\ p \in Nat /\ Len(G[p]) \in Nat \ {0} /\ Len(job.g) \in Nat
  BY <1>2, ProdIs DEF BuiltInv
<1> DEFINE k == item(i[1], p, i[1], 1)
<1>4. k \in Tuples /\ k[1] = i[1] /\ k[2] = p /\ k[3] = i[1] /\ k[4] = 1
  BY <1>1, <1>3 DEF Tuples, item
<1> HIDE DEF k
<1>5. Made(k)
  BY <1>1, <1>2, <1>3, <1>4 DEF Made, Proper, Fits
<1> QED BY <1>5 DEF k

LEMMA DottedMade ==
  ASSUME NEW i, Made(i), Len(job.g) \in Nat, NEW d \in i[4] .. Len(G[i[2]])
  PROVE  /\ Made(dotted(i, d))
         /\ dotted(i, d)[1] = i[1] /\ dotted(i, d)[2] = i[2] /\ dotted(i, d)[3] = i[3] /\ dotted(i, d)[4] = d
<1>1. /\ dotted(i, d)[1] = i[1] /\ dotted(i, d)[2] = i[2] /\ dotted(i, d)[3] = i[3] /\ dotted(i, d)[4] = d
  BY DEF dotted, item
<1>2. i \in Tuples /\ Len(G[i[2]]) \in Nat /\ i[4] \in 1 .. Len(G[i[2]])
  BY DEF Made, Proper, Fits
<1>3. i[4] \in Nat /\ d \in Nat /\ d \in 1 .. Len(G[i[2]]) /\ (d = 1 => i[4] = 1)
  BY <1>2
<1>4. dotted(i, d) \in Tuples
  BY <1>2, <1>3 DEF dotted, item, Tuples
<1>5. ~(i[2] > Len(job.g))
  BY <1>2 DEF Made, Tuples
<1> QED BY <1>1, <1>2, <1>3, <1>4, <1>5 DEF Made, Proper, Fits

LEMMA AddedMade ==
  ASSUME BuiltInv, NEW T, NEW U, NEW I, Added(T, U, I), \A k \in I : Made(k)
  PROVE  \A k \in U \ T : Made(k)
<1> SUFFICES ASSUME NEW k \in U \ T PROVE Made(k)
  OBVIOUS
<1>1. PICK i \in I, d \in Nat : Reached(i, d) /\ k = dotted(i, d)
  BY DEF Added
<1>2. Made(i) /\ d \in i[4] .. Len(G[i[2]]) /\ Len(job.g) \in Nat
  BY <1>1, ProdIs DEF Reached
<1> QED BY <1>1, <1>2, DottedMade

LEMMA ProcessIs ==
  ASSUME BuiltInv, PlaceInv, ItemInv, Process
  PROVE  /\ BuiltInv' /\ Extends
         /\ \E i : Looked(i) /\ Proper(i) /\ (Completes(i) \/ Predicts(i) \/ ScansBuiltin(i) \/ Scans(i))
<1> DEFINE i == least(ahead)
<1>1. n # idle /\ ahead # {} /\ it' = i /\ UNCHANGED <<built, n, inputstr, found, parses>>
  BY DEF Process
<1>2. i \in ahead /\ \A j \in ahead \ {i} : before(i, j)
  <2>1. ahead \in SUBSET Tuples
    BY <1>1 DEF ahead, ItemInv, Proper, Fits
  <2> QED BY <1>1, <2>1, LeastIs
<1>3. /\ completed(i) => t' = complete(i, t) /\ UNCHANGED <<S, G, builtin_char_prod>>
      /\ ~completed(i) /\ is_builtin(get_lit(i)) => scan_builtin(i) /\ UNCHANGED t
      /\ ~completed(i) /\ ~is_builtin(get_lit(i)) /\ nt(get_lit(i)) =>
           t' = predict(i, t) /\ UNCHANGED <<S, G, builtin_char_prod>>
      /\ ~completed(i) /\ ~is_builtin(get_lit(i)) /\ ~nt(get_lit(i)) =>
           S' = S \cup (IF at_end THEN {} ELSE scan(i, ch)) /\ UNCHANGED <<t, G, builtin_char_prod>>
  BY DEF Process
<1> HIDE DEF i
<1>4. i \in S /\ i[1] = n /\ Proper(i)
  BY <1>1, <1>2 DEF ahead, ItemInv
<1>5. Looked(i)
  BY <1>1, <1>2, <1>4 DEF Looked, ahead
<1>6. (\A k \in Completing(i) : Fits(k)) /\ (\A k \in Predicting(i) : Fits(k))
  BY <1>1, <1>4, CompletingMade, PredictingMade DEF Made, Proper
<1>7. UNCHANGED <<G, builtin_char_prod>> => BuiltInv' /\ Extends
  BY <1>1, ProdIs DEF BuiltInv, CharProd, Extends, built
<1>8. CASE completed(i)
  BY <1>3, <1>4, <1>5, <1>6, <1>7, <1>8, CompleteAdds DEF Completes
<1>9. CASE ~completed(i) /\ is_builtin(get_lit(i))
  BY <1>1, <1>3, <1>4, <1>5, <1>9, ScanBuiltinIs DEF ScansBuiltin
<1>10. CASE ~completed(i) /\ ~is_builtin(get_lit(i)) /\ nt(get_lit(i))
  BY <1>3, <1>4, <1>5, <1>6, <1>7, <1>10, PredictAdds DEF Predicts
<1>11. CASE ~completed(i) /\ ~is_builtin(get_lit(i)) /\ ~nt(get_lit(i))
  <2>1. S' = S \cup (IF at_end THEN {} ELSE scan(i, ch)) /\ UNCHANGED <<t, G, builtin_char_prod>>
    BY <1>3, <1>11
  <2>2. Scans(i)
    BY <1>11, <2>1 DEF Scans, scan, at_end
  <2> QED BY <1>4, <1>5, <1>7, <2>1, <2>2
<1> QED BY <1>8, <1>9, <1>10, <1>11

RecInv == BuiltInv /\ PlaceInv /\ ItemInv

LEMMA SeqElements ==
  ASSUME NEW X, NEW s \in Seq(X)
  PROVE  s \in Seq(elements(s)) /\ Len(s) \in Nat
<1>1. DOMAIN s = 1 .. Len(s) /\ Len(s) \in Nat
  OBVIOUS
<1>2. \A k \in 1 .. Len(s) : s[k] \in elements(s)
  BY <1>1 DEF elements
<1> QED BY <1>1, <1>2

LEMMA RecInvInit == RecInit => RecInv
<1> SUFFICES ASSUME RecInit PROVE RecInv
  OBVIOUS
<1>1. /\ job \in Jobs /\ G = job.g /\ nts = productions_of(job.g) /\ nullables = nullable_lits(job.g)
      /\ builtin_char_prod = <<>> /\ n = idle /\ parses = 0
  BY DEF RecInit
<1>2. job.g \in Seq(elements(job.g)) /\ Len(job.g) \in Nat
  <2>1. job.g \in Seq(Seq(used(job.g))) /\ DOMAIN job.g = 1 .. Len(job.g)
    BY <1>1, JobIs
  <2> QED BY <2>1, SeqElements
<1>3. DOMAIN builtin_char_prod = {} /\ Len(job.g) + 1 .. Len(G) = {}
  BY <1>1, <1>2
<1>4. BuiltInv
  BY <1>1, <1>2, <1>3 DEF BuiltInv
<1>5. PlaceInv /\ ItemInv
  BY <1>1 DEF PlaceInv, ItemInv
<1> QED BY <1>4, <1>5 DEF RecInv

LEMMA RecInvRecognize == RecInv /\ Recognize => RecInv'
<1> SUFFICES ASSUME RecInv, Recognize PROVE RecInv'
  OBVIOUS
<1>1. /\ S' = { item(0, p, 0, 1) : p \in prods(start) } /\ t' = {} /\ n' = 0 /\ it' = <<>> /\ parses' = parses + 1
      /\ inputstr' \in job.inputs /\ UNCHANGED <<built, G, builtin_char_prod>>
  BY DEF Recognize
<1>2. job \in Jobs /\ UNCHANGED <<job, nts, nullables>>
  BY <1>1 DEF RecInv, BuiltInv, built
<1>3. BuiltInv'
  BY <1>1, <1>2 DEF RecInv, BuiltInv, CharProd
<1>4. 0 \in places(inputstr') /\ Len(inputstr') \in Nat
  BY <1>1, <1>2, InputIs
<1>5. PlaceInv'
  BY <1>1, <1>2, <1>4 DEF PlaceInv, places
<1>6. ASSUME NEW p \in prods(start) PROVE Proper(item(0, p, 0, 1))'
  <2>1. p \in 1 .. Len(job.g) /\ p \in 1 .. Len(G) /\ Len(G[p]) \in Nat \ {0} /\ Len(job.g) \in Nat
    <3>1. p \in 1 .. Len(job.g)
      BY ProdsAre DEF RecInv
    <3> QED BY <3>1, ProdIs DEF RecInv, BuiltInv
  <2> DEFINE k == item(0, p, 0, 1)
  <2>2. k \in Tuples /\ k[1] = 0 /\ k[2] = p /\ k[3] = 0 /\ k[4] = 1
    BY <2>1 DEF Tuples, item
  <2> HIDE DEF k
  <2>3. Proper(k)'
    BY <1>1, <1>2, <1>4, <2>1, <2>2 DEF Proper, Fits
  <2> QED BY <2>3 DEF k
<1>7. ItemInv'
  BY <1>1, <1>6 DEF ItemInv
<1> QED BY <1>3, <1>5, <1>7 DEF RecInv

LEMMA RecInvProcess == RecInv /\ Process => RecInv'
<1> SUFFICES ASSUME BuiltInv, PlaceInv, ItemInv, Process PROVE BuiltInv' /\ PlaceInv' /\ ItemInv'
  BY DEF RecInv
<1>1. BuiltInv' /\ Extends
  BY ProcessIs
<1>2. PICK i : Looked(i) /\ Proper(i) /\ (Completes(i) \/ Predicts(i) \/ ScansBuiltin(i) \/ Scans(i))
  BY ProcessIs
<1>3. n # idle /\ i \in S /\ i[1] = n /\ it' = i /\ n' = n /\ inputstr' = inputstr /\ parses' = parses /\ job' = job
  BY <1>2 DEF Looked, built
<1>4. PlaceInv'
  BY <1>3 DEF PlaceInv, places
<1>5. inputstr \in job.inputs /\ job \in Jobs /\ n \in places(inputstr) /\ Len(inputstr) \in Nat /\ n \in Nat
  <2>1. inputstr \in job.inputs /\ job \in Jobs /\ n \in places(inputstr)
    BY <1>3 DEF PlaceInv, BuiltInv
  <2>2. Len(inputstr) \in Nat
    BY <2>1, InputIs
  <2> QED BY <2>1, <2>2 DEF places
<1>6. \A k \in S \cup t : Proper(k)'
  BY <1>1, <1>3, ExtendsItems DEF ItemInv
<1>7. ASSUME Completes(i) \/ Predicts(i)
      PROVE  S' = S /\ \A k \in t' : Proper(k)' /\ k[1] = n
  <2>1. S' = S /\ \A k \in t' \ t : Made(k)
    <3>1. CASE Completes(i)
      BY <1>3, <3>1, CompletingMade, AddedMade DEF Completes
    <3>2. CASE Predicts(i)
      BY <1>3, <3>2, PredictingMade, AddedMade DEF Predicts
    <3> QED BY <1>7, <3>1, <3>2
  <2>2. \A k \in t' \ t : Proper(k)' /\ k[1] = n
    BY <1>1, <2>1, ExtendsItems DEF Made
  <2> QED BY <1>3, <1>6, <2>1, <2>2 DEF ItemInv
<1>8. ASSUME ~completed(i) PROVE i \in Tuples /\ i[2] \in 1 .. Len(job.g) /\ i[4] \in Nat /\ i[4] >= 1
                                 /\ i[4] + 1 \in 1 .. Len(G[i[2]]) /\ Len(G[i[2]]) \in Nat /\ i[2] \in 1 .. Len(G)
  BY <1>2, <1>8, OpenIs DEF Proper, Fits
<1>9. G'[i[2]] = G[i[2]] /\ Len(G') \in Nat /\ Len(G) \in Nat /\ Len(G) <= Len(G') /\ Len(job.g) \in Nat
  BY <1>1, <1>2, ProdIs DEF Extends, Proper
<1>10. ASSUME Scans(i) PROVE t' = t /\ S \subseteq S' /\ \A k \in S' \ S : Proper(k)'
  <2>1. t' = t /\ ~completed(i) /\ S \subseteq S' /\ \A k \in S' \ S : k = advanced(i, n + 1) /\ n # Len(inputstr)
    BY <1>10 DEF Scans
  <2> SUFFICES ASSUME NEW k, k = advanced(i, n + 1), n # Len(inputstr) PROVE Proper(k)'
    BY <2>1
  <2>2. k \in Tuples /\ k[1] = n + 1 /\ k[2] = i[2] /\ k[3] = i[3] /\ k[4] = i[4] + 1
    BY <1>5, <1>8, <2>1 DEF advanced, item, Tuples
  <2>3. i[3] <= n /\ i[3] \in Nat /\ n + 1 <= Len(inputstr)
    BY <1>2, <1>3, <1>5 DEF Proper, Fits, Tuples, places
  <2>4. Fits(k)' /\ k[4] # 1 /\ k[2] \in 1 .. Len(G') /\ ~(k[2] > Len(job.g))
    <3>1. /\ i[4] \in Nat /\ i[4] >= 1 /\ i[4] + 1 \in 1 .. Len(G'[i[2]]) /\ Len(G'[i[2]]) \in Nat
          /\ i[2] \in 1 .. Len(job.g) /\ i[2] \in 1 .. Len(G')
      BY <1>8, <1>9, <2>1
    <3>2. k[4] # 1 /\ k[2] \in 1 .. Len(G') /\ ~(k[2] > Len(job.g))
      <4>1. i[4] + 1 # 1 /\ ~(i[2] > Len(job.g)) /\ i[2] \in 1 .. Len(G')
        BY <1>9, <3>1
      <4> QED BY <2>2, <4>1
    <3>3. k \in Tuples /\ Len(G'[k[2]]) \in Nat /\ k[4] \in 1 .. Len(G'[k[2]])
      BY <2>2, <3>1
    <3> QED BY <3>2, <3>3 DEF Fits
  <2>5. k[3] <= k[1] /\ k[1] <= Len(inputstr)
    BY <1>5, <2>2, <2>3
  <2> QED BY <1>3, <2>4, <2>5 DEF Proper
<1>11. ASSUME ScansBuiltin(i) PROVE t' = t /\ S \subseteq S' /\ \A k \in S' \ S : Proper(k)'
  <2>1. t' = t /\ ~completed(i)
    BY <1>11 DEF ScansBuiltin
  <2>2. CASE S' = S
    BY <2>1, <2>2
  <2>3. CASE ~(S' = S)
    <3>1. PICK p : Scanned(i, p)
      BY <1>11, <2>3 DEF ScansBuiltin
    <3> DEFINE to == after(inputstr, n)
    <3>2. p \in 1 .. Len(G') /\ p \in Nat /\ Len(G'[p]) = 2
      BY <1>9, <3>1 DEF Scanned
    <3>3. to \in Nat /\ n <= to /\ to <= Len(inputstr)
      BY <1>5, AfterIs DEF places
    <3> HIDE DEF to
    <3>4. ASSUME NEW q \in {i[2], p}, NEW k, k = item(to, q, n, 2) PROVE Proper(k)'
      <4>1. q \in 1 .. Len(G') /\ q \in Nat /\ Len(G'[q]) \in Nat /\ 2 \in 1 .. Len(G'[q])
        <5>1. CASE q = p
          <6>1. \A m : m = 2 => m \in Nat /\ 2 \in 1 .. m
            OBVIOUS
          <6> QED BY <3>2, <5>1, <6>1
        <5>2. CASE q = i[2]
          <6>1. i[2] \in 1 .. Len(G) /\ Len(G[i[2]]) \in Nat /\ Len(G[i[2]]) >= 2
            BY <1>8, <2>1
          <6> QED BY <1>9, <5>2, <6>1
        <5> QED BY <5>1, <5>2
      <4>2. k \in Tuples /\ k[1] = to /\ k[2] = q /\ k[3] = n /\ k[4] = 2
        BY <1>5, <3>3, <3>4, <4>1 DEF item, Tuples
      <4>3. Fits(k)'
        BY <4>1, <4>2 DEF Fits
      <4> QED BY <1>3, <3>3, <4>1, <4>2, <4>3 DEF Proper
    <3>5. S' = S \cup {item(to, i[2], n, 2), item(to, p, n, 2)}
      BY <3>1 DEF Scanned, to
    <3>6. \A k \in S' \ S : \E q \in {i[2], p} : k = item(to, q, n, 2)
      BY <3>5
    <3>7. \A k \in S' \ S : Proper(k)'
      <4> SUFFICES ASSUME NEW k \in S' \ S PROVE Proper(k)'
        OBVIOUS
      <4>1. PICK q \in {i[2], p} : k = item(to, q, n, 2)
        BY <3>6
      <4> QED BY <3>4, <4>1
    <3> QED BY <2>1, <3>5, <3>7
  <2> QED BY <2>2, <2>3
<1>12. S \subseteq S' /\ \A k \in S' \cup t' : Proper(k)'
  BY <1>2, <1>6, <1>7, <1>10, <1>11
<1>13. \A k \in t' : k[1] = n
  BY <1>2, <1>3, <1>7, <1>10, <1>11 DEF ItemInv
<1>14. ItemInv'
  BY <1>3, <1>12, <1>13 DEF ItemInv
<1> QED BY <1>1, <1>4, <1>14

LEMMA RecInvPass == RecInv /\ Pass => RecInv'
<1> SUFFICES ASSUME RecInv, Pass PROVE RecInv'
  OBVIOUS
<1>1. /\ n # idle /\ S' = S \cup t /\ t' = {} /\ it' = <<>> /\ n' = IF t = {} THEN n + 1 ELSE n
      /\ (t # {} \/ n # Len(inputstr)) /\ UNCHANGED <<job, nts, nullables, G, builtin_char_prod, inputstr, parses>>
  BY DEF Pass, built, at_end
<1>2. BuiltInv'
  BY <1>1 DEF RecInv, BuiltInv, CharProd
<1>3. n \in places(inputstr) /\ Len(inputstr) \in Nat
  BY <1>1, InputIs DEF RecInv, PlaceInv, BuiltInv
<1>4. PlaceInv'
  BY <1>1, <1>3 DEF RecInv, PlaceInv, places
<1>5. ItemInv'
  BY <1>1 DEF RecInv, ItemInv, Proper, Fits
<1> QED BY <1>2, <1>4, <1>5 DEF RecInv

LEMMA RecInvFinish == RecInv /\ Finish => RecInv'
<1> SUFFICES ASSUME RecInv, Finish PROVE RecInv'
  OBVIOUS
<1>1. n # idle /\ n' = idle /\ UNCHANGED <<job, nts, nullables, G, builtin_char_prod, inputstr, parses>>
  BY DEF Finish, built
<1> QED BY <1>1 DEF RecInv, BuiltInv, CharProd, PlaceInv, ItemInv

LEMMA RecInvStutter == RecInv /\ UNCHANGED recvars => RecInv'
BY DEF RecInv, BuiltInv, CharProd, PlaceInv, ItemInv, Proper, Fits, recvars, built

\* What a parser is built with, its characters' productions and its items are as they must be.
THEOREM RecognizerStateIsProper == RecSpec => []RecInv
<1>1. RecInv /\ [RecNext]_recvars => RecInv'
  BY RecInvRecognize, RecInvProcess, RecInvPass, RecInvFinish, RecInvStutter DEF RecNext
<1> QED BY <1>1, RecInvInit, PTL DEF RecSpec

----------------------------------------------------------------------------
(* Every item says truly what has been read: soundness.                    *)

Language == derived(job, inputstr)
ReadAs(l, x, y) == reads_as(job, inputstr, Language, l, x, y)
UpTo(p, d) == upto(job, inputstr, Language, job.g[p])[d]

\* what an item stands for: its literals up to the dot are read from its place
\* of origin to its set; an item of a builtin's character, the builtin is
Read(i) ==
  IF i[2] <= Len(job.g) THEN <<i[3], i[1]>> \in UpTo(i[2], i[4])
  ELSE ReadAs(get_nt(i), i[3], i[1])

SoundInv == (n # idle /\ no_builtin_defined /\ builtins_lead) => \A i \in S \cup t : Read(i)

LEMMA LanguageIs ==
  ASSUME BuiltInv, inputstr \in job.inputs
  PROVE  /\ derive(job, inputstr, Language) = Language
         /\ \E k \in Nat : Language = derivable(job, inputstr)[k]
         /\ Len(inputstr) \in Nat
<1>1. job \in Jobs
  BY DEF BuiltInv
<1>2. Len(inputstr) \in Nat
  BY <1>1, InputIs
<1>3. job.g \in Seq(Seq(used(job.g))) /\ \A p \in DOMAIN job.g : Len(job.g[p]) \in Nat \ {0}
  BY <1>1, JobIs
<1> QED BY <1>2, <1>3, DerivedIs DEF Language

LEMMA ReadExtends ==
  ASSUME BuiltInv, Extends, NEW i, Proper(i)
  PROVE  Read(i)' <=> Read(i)
<1>1. G'[i[2]] = G[i[2]] /\ job' = job /\ inputstr' = inputstr
  BY ProdIs DEF Proper, Extends, built
<1>2. Language' = Language
  BY <1>1 DEF Language
<1> QED BY <1>1, <1>2 DEF Read, ReadAs, UpTo, get_nt

\* The dot goes past a literal that is read.
LEMMA ReadOn ==
  ASSUME BuiltInv, inputstr \in job.inputs, NEW i, Proper(i), ~completed(i), Read(i),
         NEW y \in places(inputstr), ReadAs(get_lit(i), i[1], y)
  PROVE  Read(advanced(i, y))
<1>1. i[2] \in 1 .. Len(job.g) /\ G[i[2]] = job.g[i[2]] /\ i[2] <= Len(job.g)
  BY OpenIs, ProdIs
<1>2. i[4] \in Nat /\ i[4] >= 1 /\ i[1] \in places(inputstr) /\ i[3] \in places(inputstr)
  BY LanguageIs DEF Proper, Fits, Tuples, places
<1>3. <<i[3], i[1]>> \in UpTo(i[2], i[4])
  BY <1>1 DEF Read
<1>4. ReadAs(job.g[i[2]][i[4] + 1], i[1], y)
  BY <1>1 DEF get_lit
<1>5. <<i[3], y>> \in UpTo(i[2], i[4] + 1)
  <2> DEFINE q == job.g[i[2]]
  <2>1. <<i[3], i[1]>> \in upto(job, inputstr, Language, q)[i[4]]
    BY <1>3 DEF UpTo
  <2>2. reads_as(job, inputstr, Language, q[i[4] + 1], i[1], y)
    BY <1>4 DEF ReadAs
  <2> HIDE DEF q
  <2>3. <<i[3], y>> \in upto(job, inputstr, Language, q)[i[4] + 1]
    BY <1>2, <2>1, <2>2, UptoOn
  <2> QED BY <2>3 DEF UpTo, q
<1> QED BY <1>1, <1>5 DEF Read, advanced, item

LEMMA NullableReads ==
  ASSUME BuiltInv, inputstr \in job.inputs, no_builtin_defined, NEW i, nullable(i), NEW x \in places(inputstr)
  PROVE  ReadAs(get_lit(i), x, x)
<1>1. get_lit(i) = eps \/ get_lit(i) \in nullable_lits(job.g)
  BY DEF nullable, BuiltInv
<1>2. ASSUME get_lit(i) \in nullable_lits(job.g)
      PROVE  nt(get_lit(i)) /\ ~builtin_of(job, get_lit(i)) /\ <<get_lit(i), x, x>> \in Language
  <2>1. job \in Jobs /\ derive(job, inputstr, Language) \subseteq Language
    BY LanguageIs DEF BuiltInv
  <2>2. \A p \in DOMAIN job.g : ~builtin_of(job, job.g[p][1])
    BY DEF no_builtin_defined, is_builtin
  <2> QED BY <1>2, <2>1, <2>2, NullablesRead
<1> QED BY <1>1, <1>2 DEF ReadAs, reads_as

LEMMA ReadChain ==
  ASSUME BuiltInv, inputstr \in job.inputs, no_builtin_defined, NEW i, Made(i), Read(i)
  PROVE  \A d \in Nat : Reached(i, d) => Read(dotted(i, d))
<1> DEFINE A == { d \in Nat : Reached(i, d) => Read(dotted(i, d)) }
<1>1. i \in Tuples /\ Len(G[i[2]]) \in Nat /\ i[4] \in Nat /\ i[4] >= 1 /\ i[1] \in places(inputstr) /\ Len(job.g) \in Nat
  BY LanguageIs, ProdIs DEF Made, Proper, Fits, Tuples, places
<1>2. 0 \in A
  BY <1>1 DEF Reached
<1>3. ASSUME NEW d \in Nat, d \in A PROVE d + 1 \in A
  <2> SUFFICES ASSUME Reached(i, d + 1) PROVE Read(dotted(i, d + 1))
    OBVIOUS
  <2>1. d + 1 \in i[4] .. Len(G[i[2]]) /\ \A m \in i[4] .. d : nullable(dotted(i, m))
    BY <1>1 DEF Reached
  <2>2. CASE d + 1 = i[4]
    <3>1. dotted(i, d + 1) = i
      BY <1>1, <2>2 DEF dotted, item, Tuples
    <3> QED BY <3>1
  <2>3. CASE d >= i[4]
    <3>1. d \in i[4] .. Len(G[i[2]]) /\ d \in i[4] .. d /\ \A m \in i[4] .. (d - 1) : m \in i[4] .. d
      BY <1>1, <2>1, <2>3
    <3>2. Reached(i, d) /\ nullable(dotted(i, d))
      BY <2>1, <3>1 DEF Reached
    <3> DEFINE k == dotted(i, d)
    <3>3. Read(k) /\ Made(k) /\ k[1] = i[1] /\ advanced(k, i[1]) = dotted(i, d + 1)
      <4>1. Read(dotted(i, d))
        BY <1>3, <3>2
      <4>2. Made(dotted(i, d)) /\ dotted(i, d)[1] = i[1] /\ dotted(i, d)[2] = i[2] /\ dotted(i, d)[3] = i[3] /\ dotted(i, d)[4] = d
        BY <1>1, <3>1, DottedMade
      <4> QED BY <4>1, <4>2 DEF advanced, item, dotted
    <3>4. nullable(k)
      BY <3>2
    <3> HIDE DEF k
    <3>5. ReadAs(get_lit(k), i[1], i[1])
      BY <1>1, <3>4, NullableReads
    <3>6. Proper(k) /\ ~completed(k)
      BY <3>3, <3>4 DEF Made, nullable
    <3>7. Read(advanced(k, i[1]))
      BY <1>1, <3>3, <3>5, <3>6, ReadOn
    <3> QED BY <3>3, <3>7
  <2> QED BY <1>1, <2>1, <2>2, <2>3
<1>4. Nat \subseteq A
  <2> HIDE DEF A
  <2> QED BY <1>2, <1>3, SetInduction
<1> QED BY <1>4

LEMMA AddedRead ==
  ASSUME BuiltInv, inputstr \in job.inputs, no_builtin_defined,
         NEW T, NEW U, NEW I, Added(T, U, I), \A k \in I : Made(k) /\ Read(k)
  PROVE  \A k \in U \ T : Read(k)
<1> SUFFICES ASSUME NEW k \in U \ T PROVE Read(k)
  OBVIOUS
<1>1. PICK i \in I, d \in Nat : Reached(i, d) /\ k = dotted(i, d)
  BY DEF Added
<1>2. Made(i) /\ Read(i)
  OBVIOUS
<1> QED BY <1>1, <1>2, ReadChain

\* What a completed item gives for the items that wait.
LEMMA CompletedReads ==
  ASSUME BuiltInv, inputstr \in job.inputs, no_builtin_defined, NEW i, Proper(i), completed(i), Read(i)
  PROVE  ReadAs(get_nt(i), i[3], i[1])
<1>1. CASE ~(i[2] <= Len(job.g))
  BY <1>1 DEF Read
<1>2. CASE i[2] <= Len(job.g)
  <2>1. i[2] \in 1 .. Len(job.g) /\ i[2] \in DOMAIN job.g
    BY <1>2, ProdIs DEF Proper
  <2>2. G[i[2]] = job.g[i[2]]
    BY <2>1, ProdIs
  <2>3. i[4] = Len(job.g[i[2]]) /\ <<i[3], i[1]>> \in UpTo(i[2], i[4])
    BY <1>2, <2>2 DEF Read, completed
  <2>4. \A p \in DOMAIN job.g : Len(job.g[p]) \in Nat \ {0} /\ nt(job.g[p][1])
    BY JobIs DEF BuiltInv
  <2>5. <<job.g[i[2]][1], i[3], i[1]>> \in derive(job, inputstr, Language)
    <3>1. <<i[3], i[1]>> \in upto(job, inputstr, Language, job.g[i[2]])[Len(job.g[i[2]])]
      BY <2>3 DEF UpTo
    <3> QED BY <2>1, <2>4, <3>1, DeriveIs
  <2>6. <<get_nt(i), i[3], i[1]>> \in Language /\ nt(get_nt(i)) /\ ~builtin_of(job, get_nt(i))
    BY <2>1, <2>2, <2>4, <2>5, LanguageIs DEF get_nt, no_builtin_defined, is_builtin
  <2> QED BY <2>6 DEF ReadAs, reads_as, eps, nt, Ch
<1> QED BY <1>1, <1>2

LEMMA CompletingRead ==
  ASSUME BuiltInv, ItemInv, inputstr \in job.inputs, no_builtin_defined, n # idle, NEW i \in S, completed(i), \A k \in S : Read(k)
  PROVE  \A k \in Completing(i) : Read(k)
<1> SUFFICES ASSUME NEW j \in waiting(i) PROVE Read(advanced(j, i[1]))
  BY DEF Completing
<1>1. j \in S /\ j[1] = i[3] /\ ~completed(j) /\ get_lit(j) = get_nt(i) /\ Proper(j) /\ Proper(i)
  BY DEF waiting, ItemInv
<1>2. ReadAs(get_lit(j), j[1], i[1])
  BY <1>1, CompletedReads
<1>3. i[1] \in places(inputstr)
  BY <1>1, LanguageIs DEF Proper, Fits, Tuples, places
<1> QED BY <1>1, <1>2, <1>3, ReadOn

\* An item at the beginning of a production has read nothing.
LEMMA BeginningRead ==
  ASSUME BuiltInv, NEW p \in 1 .. Len(job.g), NEW x \in places(inputstr)
  PROVE  Read(item(x, p, x, 1))
<1>1. <<x, x>> \in UpTo(p, 1)
  BY UptoAt DEF UpTo
<1>2. p <= Len(job.g)
  BY ProdIs
<1> QED BY <1>1, <1>2 DEF Read, item

LEMMA SoundRecognize == RecInv /\ Recognize => SoundInv'
<1> SUFFICES ASSUME RecInv, Recognize PROVE SoundInv'
  OBVIOUS
<1>1. S' = { item(0, p, 0, 1) : p \in prods(start) } /\ t' = {} /\ UNCHANGED <<job, G>> /\ inputstr' \in job'.inputs
  BY DEF Recognize, built
<1>2. BuiltInv'
  BY RecInvRecognize DEF RecInv
<1>3. 0 \in places(inputstr')
  BY <1>1, <1>2, InputIs DEF BuiltInv
<1>4. \A p \in prods(start) : <<0, 0>> \in UpTo(p, 1)' /\ p <= Len(job.g)
  BY <1>3, UptoAt, ProdsAre, ProdIs DEF UpTo, RecInv
<1>5. \A p \in prods(start) : Read(item(0, p, 0, 1))'
  BY <1>1, <1>4 DEF Read, item
<1> QED BY <1>1, <1>5 DEF SoundInv

\* What scan and scan_builtin add has been read.
LEMMA ScanRead ==
  ASSUME RecInv, n # idle, NEW i \in S, i[1] = n, ~completed(i), Read(i),
         get_lit(i) = Ch(ch), n # Len(inputstr)
  PROVE  Read(advanced(i, n + 1))
<1>1. Proper(i) /\ BuiltInv /\ inputstr \in job.inputs /\ n \in places(inputstr) /\ job \in Jobs
  BY DEF RecInv, ItemInv, PlaceInv, BuiltInv
<1>2. Len(inputstr) \in Nat /\ char_at(inputstr, n) # "0"
  BY <1>1, InputIs
<1>3. n + 1 \in places(inputstr) /\ after(inputstr, n) = n + 1
  BY <1>1, <1>2 DEF places, after
<1>4. ReadAs(get_lit(i), n, n + 1)
  BY <1>2, <1>3 DEF ReadAs, reads_as, eps, Ch, builtin_of, nt, ch
<1> QED BY <1>1, <1>3, <1>4, ReadOn

LEMMA ScanBuiltinRead ==
  ASSUME RecInv, builtins_lead, n # idle, NEW i \in S, i[1] = n, ~completed(i), Read(i),
         is_builtin(get_lit(i)), ch \in job.builtins[get_lit(i)[2]]
  PROVE  /\ ReadAs(get_lit(i), n, after(inputstr, n))
         /\ \A k : k = item(after(inputstr, n), i[2], n, 2) => Read(k) /\ Proper(k)
<1>1. Proper(i) /\ BuiltInv /\ inputstr \in job.inputs /\ n \in places(inputstr) /\ job \in Jobs
  BY DEF RecInv, ItemInv, PlaceInv, BuiltInv
<1>2. Len(inputstr) \in Nat
  BY <1>1, InputIs
<1>3. after(inputstr, n) \in places(inputstr) /\ after(inputstr, n) >= n
  BY <1>1, <1>2, AfterIs
<1>4. ReadAs(get_lit(i), n, after(inputstr, n))
  BY DEF ReadAs, reads_as, eps, Ch, is_builtin, builtin_of, nt, ch
<1>5. i[2] \in 1 .. Len(job.g) /\ G[i[2]] = job.g[i[2]] /\ i[4] + 1 \in 2 .. Len(G[i[2]])
  BY <1>1, OpenIs
<1>6. Len(G[i[2]]) \in Nat /\ i[4] \in Nat /\ i[4] >= 1 /\ i \in Tuples /\ DOMAIN job.g = 1 .. Len(job.g) /\ Len(job.g) \in Nat
  BY <1>1, ProdIs DEF Proper, Fits, Tuples
<1>7. i[4] = 1 /\ i[3] = n
  <2>1. ~(i[4] + 1 \in 3 .. Len(job.g[i[2]]))
    BY <1>5, <1>6 DEF builtins_lead, get_lit
  <2>2. i[4] = 1
    BY <1>5, <1>6, <2>1
  <2> QED BY <1>1, <2>2 DEF Proper
<1>8. Read(advanced(i, after(inputstr, n)))
  BY <1>1, <1>3, <1>4, ReadOn
<1>9. ASSUME NEW k, k = item(after(inputstr, n), i[2], n, 2) PROVE Read(k) /\ Proper(k)
  <2>1. k = advanced(i, after(inputstr, n))
    BY <1>7, <1>9 DEF advanced
  <2>2. k \in Tuples /\ k[1] = after(inputstr, n) /\ k[2] = i[2] /\ k[3] = n /\ k[4] = 2
    BY <1>1, <1>3, <1>6, <1>9 DEF item, Tuples, places
  <2>3. 2 \in 1 .. Len(G[i[2]]) /\ ~(i[2] > Len(job.g))
    BY <1>5, <1>6, <1>7
  <2>4. k[1] <= Len(inputstr)
    BY <1>2, <1>3, <2>2 DEF places
  <2> QED BY <1>1, <1>3, <1>6, <1>8, <2>1, <2>2, <2>3, <2>4 DEF Proper, Fits
<1> QED BY <1>4, <1>9

LEMMA SoundProcess == RecInv /\ SoundInv /\ Process => SoundInv'
<1> SUFFICES ASSUME RecInv, SoundInv, Process, no_builtin_defined', builtins_lead' PROVE \A k \in S' \cup t' : Read(k)'
  BY DEF SoundInv
<1>1. BuiltInv /\ PlaceInv /\ ItemInv /\ Extends
  BY ProcessIs DEF RecInv
<1>2. PICK i : Looked(i) /\ Proper(i) /\ (Completes(i) \/ Predicts(i) \/ ScansBuiltin(i) \/ Scans(i))
  BY ProcessIs DEF RecInv
<1>3. n # idle /\ i \in S /\ i[1] = n /\ inputstr' = inputstr /\ job' = job /\ inputstr \in job.inputs /\ n \in places(inputstr)
  BY <1>1, <1>2 DEF Looked, built, PlaceInv
<1>4. no_builtin_defined /\ builtins_lead
  BY <1>3 DEF no_builtin_defined, builtins_lead, is_builtin
<1>5. \A k \in S \cup t : Read(k) /\ Proper(k)
  BY <1>1, <1>3, <1>4 DEF SoundInv, ItemInv
<1>6. \A k : Read(k) /\ Proper(k) => Read(k)'
  BY <1>1, ReadExtends
<1>7. CASE Completes(i)
  <2>1. S' = S /\ Added(t, t', Completing(i)) /\ completed(i)
    BY <1>7 DEF Completes
  <2>2. \A k \in Completing(i) : Made(k) /\ Read(k)
    BY <1>1, <1>3, <1>4, <1>5, <2>1, CompletingMade, CompletingRead
  <2>3. \A k \in t' \ t : Made(k) /\ Read(k)
    BY <1>1, <1>3, <1>4, <2>1, <2>2, AddedMade, AddedRead
  <2> QED BY <1>5, <1>6, <2>1, <2>3 DEF Made
<1>8. CASE Predicts(i)
  <2>1. S' = S /\ Added(t, t', Predicting(i)) /\ ~completed(i)
    BY <1>8 DEF Predicts
  <2>2. \A k \in Predicting(i) : Read(k)
    BY <1>1, <1>3, ProdsAre, BeginningRead DEF Predicting
  <2>3. \A k \in Predicting(i) : Made(k) /\ Read(k)
    BY <1>1, <1>3, <2>1, <2>2, PredictingMade
  <2>4. \A k \in t' \ t : Made(k) /\ Read(k)
    BY <1>1, <1>3, <1>4, <2>1, <2>3, AddedMade, AddedRead
  <2> QED BY <1>5, <1>6, <2>1, <2>4 DEF Made
<1>9. CASE Scans(i)
  <2>1. ~completed(i) /\ t' = t /\ G' = G /\ S' = S \cup IF get_lit(i) = Ch(ch) /\ n # Len(inputstr) THEN {advanced(i, n + 1)} ELSE {}
    BY <1>9 DEF Scans
  <2>2. \A k \in S' \ S : Read(k)
    BY <1>3, <1>5, <2>1, ScanRead
  <2>3. \A k : Read(k) => Read(k)'
    BY <1>3, <2>1 DEF Read, ReadAs, UpTo, Language, get_nt
  <2> QED BY <1>5, <1>6, <2>1, <2>2, <2>3
<1>10. CASE ScansBuiltin(i)
  <2>1. t' = t /\ ~completed(i) /\ is_builtin(get_lit(i))
    BY <1>10 DEF ScansBuiltin
  <2>2. CASE S' = S
    BY <1>5, <1>6, <2>1, <2>2
  <2>3. CASE ~(S' = S)
    <3>1. ch \in job.builtins[get_lit(i)[2]]
      BY <1>10, <2>3 DEF ScansBuiltin
    <3>2. PICK p : Scanned(i, p)
      BY <1>10, <3>1 DEF ScansBuiltin
    <3>3. ReadAs(get_lit(i), n, after(inputstr, n)) /\ \A k : k = item(after(inputstr, n), i[2], n, 2) => Read(k) /\ Proper(k)
      BY <1>3, <1>4, <1>5, <2>1, <3>1, ScanBuiltinRead
    <3>4. p \in Len(job.g) + 1 .. Len(G') /\ G'[p] = <<get_lit(i), Ch(ch)>> /\ Len(job.g) \in Nat
      BY <1>1, <3>2, ProdIs DEF Scanned
    <3>5. ASSUME NEW k, k = item(after(inputstr, n), p, n, 2) PROVE Read(k)'
      <4>1. k[1] = after(inputstr, n) /\ k[2] = p /\ k[3] = n
        BY <3>5 DEF item
      <4>2. ReadAs(get_lit(i), k[3], k[1])
        BY <3>3, <4>1
      <4>3. ~(k[2] <= Len(job.g)) /\ G'[k[2]][1] = get_lit(i)
        BY <3>4, <4>1
      <4> QED BY <1>3, <4>2, <4>3 DEF Read, ReadAs, Language, get_nt
    <3>6. S' = S \cup {item(after(inputstr, n), i[2], n, 2), item(after(inputstr, n), p, n, 2)}
      BY <3>2 DEF Scanned
    <3> SUFFICES ASSUME NEW k \in S' \cup t' PROVE Read(k)'
      OBVIOUS
    <3>7. CASE k \in S \cup t
      BY <1>5, <1>6, <3>7
    <3>8. CASE k = item(after(inputstr, n), i[2], n, 2)
      BY <1>6, <3>3, <3>8
    <3>9. CASE k = item(after(inputstr, n), p, n, 2)
      BY <3>5, <3>9
    <3> QED BY <2>1, <3>6, <3>7, <3>8, <3>9
  <2> QED BY <2>2, <2>3
<1> QED BY <1>2, <1>7, <1>8, <1>9, <1>10

LEMMA SoundPass == SoundInv /\ Pass => SoundInv'
BY DEF SoundInv, Pass, built, Read, ReadAs, UpTo, Language, get_nt, no_builtin_defined, builtins_lead, is_builtin

LEMMA SoundFinish == Finish => SoundInv'
BY DEF SoundInv, Finish

LEMMA SoundStutter == SoundInv /\ UNCHANGED recvars => SoundInv'
BY DEF SoundInv, recvars, built, Read, ReadAs, UpTo, Language, get_nt, no_builtin_defined, builtins_lead, is_builtin

----------------------------------------------------------------------------
(* Nothing that could be read is left out: completeness.                   *)

\* what the loop has done when it has been at an item
Handled(i) ==
  /\ completed(i) => \A k \in waiting(i) : advanced(k, i[1]) \in S \cup t
  /\ ~completed(i) =>
       /\ (is_builtin(get_lit(i)) /\ char_at(inputstr, i[1]) \in job.builtins[get_lit(i)[2]]) =>
            \E q \in Len(job.g) + 1 .. Len(G) :
              G[q][1] = get_lit(i) /\ item(after(inputstr, i[1]), q, i[1], 2) \in S
       /\ (nt(get_lit(i)) /\ ~is_builtin(get_lit(i))) =>
            \A p \in prods(get_lit(i)) : item(i[1], p, i[1], 1) \in S \cup t
       /\ (get_lit(i) = Ch(char_at(inputstr, i[1])) /\ i[1] # Len(inputstr)) => advanced(i, i[1] + 1) \in S

\* the items it has been at, in this pass or in those before
Past(i) == i[1] < n \/ (i[1] = n /\ it # <<>> /\ ~before(it, i))

Conditions == no_builtin_defined /\ eof_closes /\ ~starts_null /\ eps_alone
BeginsStart == \A p \in prods(start) : item(0, p, 0, 1) \in S
SkipsEps == \A i \in S \cup t : (~completed(i) /\ get_lit(i) = eps) => advanced(i, i[1]) \in S \cup t
PastHandled == \A i \in S : Past(i) => Handled(i)

CompleteInv == (n # idle /\ Conditions) => BeginsStart /\ SkipsEps /\ PastHandled

LEMMA ConditionsKept == job' = job => (Conditions' <=> Conditions)
BY DEF Conditions, no_builtin_defined, eof_closes, starts_null, eps_alone, is_builtin

LEMMA CompleteRecognize == RecInv /\ Recognize => CompleteInv'
<1> SUFFICES ASSUME RecInv, Recognize, Conditions' PROVE BeginsStart' /\ SkipsEps' /\ PastHandled'
  BY DEF CompleteInv
<1>1. /\ S' = { item(0, p, 0, 1) : p \in prods(start) } /\ t' = {} /\ n' = 0 /\ it' = <<>>
      /\ UNCHANGED <<job, G, nts>>
  BY DEF Recognize, built
<1>2. BeginsStart'
  BY <1>1 DEF BeginsStart, prods
<1>3. Conditions /\ BuiltInv
  BY <1>1, ConditionsKept DEF RecInv
<1>4. ASSUME NEW p \in prods(start), NEW k, k = item(0, p, 0, 1), ~completed(k), get_lit(k) = eps PROVE FALSE
  <2>1. p \in 1 .. Len(job.g) /\ job.g[p][1] = start /\ p \in DOMAIN job.g
    BY <1>3, <1>4, ProdsAre, ProdIs
  <2>2. G[p] = job.g[p] /\ k[2] = p /\ k[4] = 1
    BY <1>3, <1>4, <2>1, ProdIs DEF item
  <2>3. /\ Len(job.g[p]) \in Nat \ {0} /\ DOMAIN job.g[p] = 1 .. Len(job.g[p]) /\ job.g[p] \in Seq(used(job.g))
        /\ \A m \in 2 .. Len(job.g[p]) : job.g[p][m] = eps => Len(job.g[p]) = 2
    BY <1>3, <2>1, JobIs DEF BuiltInv, Conditions, eps_alone
  <2>4. Len(job.g[p]) # 1 /\ job.g[p][2] = eps
    <3>1. k[4] + 1 = 2 /\ Len(G[k[2]]) # k[4] /\ G[k[2]][k[4] + 1] = eps
      BY <1>4, <2>2 DEF completed, get_lit
    <3>2. G[k[2]] = job.g[p] /\ Len(job.g[p]) # 1
      BY <2>2, <3>1
    <3> QED BY <3>1, <3>2
  <2>5. Len(job.g[p]) = 2
    <3>1. 2 \in 2 .. Len(job.g[p])
      <4>1. \A m \in Nat \ {0} : m # 1 => 2 \in 2 .. m
        OBVIOUS
      <4> QED BY <2>3, <2>4, <4>1
    <3> QED BY <2>3, <2>4, <3>1
  <2>6. job.g[p] = <<start, eps>>
    BY <2>1, <2>3, <2>4, <2>5
  <2> QED BY <1>3, <2>1, <2>6 DEF Conditions, starts_null
<1>5. SkipsEps'
  <2>1. \A k \in S' : ~(~completed(k) /\ get_lit(k) = eps)
    BY <1>1, <1>4
  <2> QED BY <1>1, <2>1 DEF SkipsEps, completed, get_lit
<1>6. PastHandled'
  <2>1. \A k \in S' : k[1] = 0
    BY <1>1 DEF item
  <2> QED BY <1>1, <2>1 DEF PastHandled, Past
<1> QED BY <1>2, <1>5, <1>6

\* What has been done stays done, if nothing new waits for it.
LEMMA HandledStays ==
  ASSUME BuiltInv, Extends, S \subseteq S', S \cup t \subseteq S' \cup t',
         \A j \in S : Proper(j), NEW k, Proper(k), Handled(k),
         \A j \in S' \ S : j \notin waiting(k)'
  PROVE  Handled(k)'
<1>1. /\ completed(k)' <=> completed(k)
      /\ get_nt(k)' = get_nt(k) /\ get_lit(k)' = get_lit(k)
      /\ is_builtin(get_lit(k))' <=> is_builtin(get_lit(k))
      /\ prods(get_lit(k))' = prods(get_lit(k))
  BY ExtendsItems
<1>2. job' = job /\ inputstr' = inputstr /\ Len(G) \in Nat /\ Len(job.g) \in Nat /\ Len(G') \in Nat /\ Len(G) <= Len(G')
      /\ \A p \in 1 .. Len(G) : G'[p] = G[p]
  BY ProdIs DEF Extends, built
<1>3. waiting(k)' \subseteq waiting(k)
  <2> SUFFICES ASSUME NEW j \in waiting(k)' PROVE j \in waiting(k)
    OBVIOUS
  <2>1. j \in S /\ j[1] = k[3] /\ ~completed(j)' /\ get_lit(j)' = get_nt(k)'
    BY DEF waiting
  <2>2. ~completed(j) /\ get_lit(j) = get_nt(k)
    BY <1>1, <2>1, ExtendsItems
  <2> QED BY <2>1, <2>2 DEF waiting
<1>4. completed(k)' => \A j \in waiting(k)' : advanced(j, k[1]) \in S' \cup t'
  BY <1>1, <1>3 DEF Handled
<1> SUFFICES ASSUME ~completed(k)
             PROVE  /\ (is_builtin(get_lit(k)) /\ char_at(inputstr, k[1]) \in job.builtins[get_lit(k)[2]]) =>
                         \E q \in Len(job.g) + 1 .. Len(G') :
                           G'[q][1] = get_lit(k) /\ item(after(inputstr, k[1]), q, k[1], 2) \in S'
                    /\ (nt(get_lit(k)) /\ ~is_builtin(get_lit(k))) =>
                         \A p \in prods(get_lit(k)) : item(k[1], p, k[1], 1) \in S' \cup t'
                    /\ (get_lit(k) = Ch(char_at(inputstr, k[1])) /\ k[1] # Len(inputstr)) => advanced(k, k[1] + 1) \in S'
  BY <1>1, <1>2, <1>4 DEF Handled
<1>5. ASSUME is_builtin(get_lit(k)), char_at(inputstr, k[1]) \in job.builtins[get_lit(k)[2]]
      PROVE  \E q \in Len(job.g) + 1 .. Len(G') : G'[q][1] = get_lit(k) /\ item(after(inputstr, k[1]), q, k[1], 2) \in S'
  <2>1. PICK q \in Len(job.g) + 1 .. Len(G) : G[q][1] = get_lit(k) /\ item(after(inputstr, k[1]), q, k[1], 2) \in S
    BY <1>5 DEF Handled
  <2>2. q \in Len(job.g) + 1 .. Len(G') /\ q \in 1 .. Len(G)
    BY <1>2
  <2> QED BY <1>2, <2>1, <2>2
<1> QED BY <1>5 DEF Handled

\* The new items of scan and scan_builtin come later, and none waits for an item gone past.
Later(j) ==
  /\ ~Past(j)' /\ j[4] # 1
  /\ \A k \in S : Past(k)' => j \notin waiting(k)'

LEMMA OrderOf ==
  ASSUME NEW i \in Tuples, NEW j \in Tuples, Less(i, j)
  PROVE  before(i, j)
BY BeforeIs

LEMMA ScanLater ==
  ASSUME RecInv, NEW i, Looked(i), Proper(i), Scans(i)
  PROVE  \A j \in S' \ S : Later(j)
<1>1. n # idle /\ i[1] = n /\ it' = i /\ n' = n /\ n \in Nat /\ i[4] \in Nat /\ i[4] >= 1
  BY DEF Looked, Proper, Fits, Tuples
<1> SUFFICES ASSUME NEW j, j = advanced(i, n + 1) PROVE Later(j)
  BY DEF Scans
<1>2. j[1] = n + 1 /\ j[4] = i[4] + 1
  BY DEF advanced, item
<1>3. ~Past(j)' /\ j[4] # 1
  BY <1>1, <1>2 DEF Past
<1>4. ASSUME NEW k \in S, Past(k)' PROVE j \notin waiting(k)'
  <2>1. k[3] \in Nat /\ k[1] \in Nat /\ k[3] <= k[1]
    BY <1>1 DEF RecInv, ItemInv, Proper, Fits, Tuples
  <2>2. k[1] <= n
    BY <1>1, <1>4, <2>1 DEF Past
  <2>3. j[1] # k[3]
    BY <1>1, <1>2, <2>1, <2>2
  <2> QED BY <2>3 DEF waiting
<1> QED BY <1>3, <1>4 DEF Later

LEMMA ScanBuiltinLater ==
  ASSUME RecInv, Extends, NEW i, Looked(i), Proper(i), ScansBuiltin(i), no_builtin_defined, eof_closes
  PROVE  \A j \in S' \ S : Later(j)
<1>1. n # idle /\ i \in S /\ i[1] = n /\ it' = i /\ n' = n /\ n \in Nat /\ i[4] \in Nat /\ i[4] >= 1 /\ job' = job
      /\ i \in Tuples /\ i[2] \in Nat /\ i[3] \in Nat /\ i[3] <= n
  BY DEF Looked, Proper, Fits, Tuples, built
<1>2. BuiltInv /\ ItemInv /\ inputstr \in job.inputs /\ n \in places(inputstr) /\ job \in Jobs
  BY <1>1 DEF RecInv, PlaceInv, BuiltInv
<1>3. ~completed(i) /\ is_builtin(get_lit(i))
  BY DEF ScansBuiltin
<1>4. i[2] \in 1 .. Len(job.g) /\ G[i[2]] = job.g[i[2]] /\ i[4] + 1 \in 2 .. Len(G[i[2]]) /\ G'[i[2]] = job.g[i[2]]
  <2>1. i[2] \in 1 .. Len(job.g) /\ G[i[2]] = job.g[i[2]] /\ i[4] + 1 \in 2 .. Len(G[i[2]])
    BY <1>2, <1>3, OpenIs
  <2>2. i[2] \in 1 .. Len(G)
    BY DEF Proper
  <2> QED BY <2>1, <2>2 DEF Extends
<1>5. Len(job.g) \in Nat /\ DOMAIN job.g = 1 .. Len(job.g) /\ Len(job.g[i[2]]) \in Nat
  BY <1>2, <1>4, ProdIs DEF Proper, Fits
<1> DEFINE to == after(inputstr, n)
<1>6. to \in Nat /\ Len(inputstr) \in Nat /\ (to = n + 1 \/ (to = n /\ n = Len(inputstr) /\ ch = Eof))
  <2>1. Len(inputstr) \in Nat
    BY <1>2, InputIs
  <2> QED BY <1>1, <2>1 DEF after, ch, char_at
<1> SUFFICES ASSUME S' # S PROVE \A j \in S' \ S : Later(j)
  OBVIOUS
<1>7. ch \in job.builtins[get_lit(i)[2]]
  BY DEF ScansBuiltin
<1>8. PICK p : Scanned(i, p)
  BY <1>7 DEF ScansBuiltin
<1>9. p \in Len(job.g) + 1 .. Len(G') /\ G'[p] = <<get_lit(i), Ch(ch)>> /\ p \in Nat /\ i[2] < p
      /\ S' = S \cup {item(to, i[2], n, 2), item(to, p, n, 2)}
  BY <1>4, <1>5, <1>8 DEF Scanned
<1> HIDE DEF to
\* at the end of the string, the class is the last literal of its production
<1>10. ASSUME to = n
       PROVE  i[4] + 1 = Len(job.g[i[2]]) /\ i[4] \in 1 .. 2 /\ get_lit(i) = job.g[i[2]][i[4] + 1]
  <2>1. Eof \in job.builtins[get_lit(i)[2]]
    BY <1>1, <1>6, <1>7, <1>10
  <2>2. get_lit(i) = job.g[i[2]][i[4] + 1]
    BY <1>4 DEF get_lit
  <2>3. i[4] + 1 \in 2 .. Len(job.g[i[2]]) /\ i[2] \in DOMAIN job.g
    BY <1>4, <1>5
  <2>4. i[4] + 1 = Len(job.g[i[2]]) /\ i[4] + 1 <= 3
    BY <1>3, <2>1, <2>2, <2>3 DEF eof_closes
  <2> QED BY <1>1, <2>2, <2>4
<1> SUFFICES ASSUME NEW j, j \notin S, NEW q \in {i[2], p}, j = item(to, q, n, 2) PROVE Later(j)
  BY <1>9
<1>11. j \in Tuples /\ j[1] = to /\ j[2] = q /\ j[3] = n /\ j[4] = 2 /\ q \in Nat
  BY <1>1, <1>6, <1>9 DEF item, Tuples
<1>12. ~Past(j)'
  <2>1. CASE to = n + 1
    BY <1>1, <1>11, <2>1 DEF Past
  <2>2. CASE to = n
    <3>1. Less(i, j)
      <4>1. CASE q = p
        BY <1>1, <1>9, <1>11, <2>2, <4>1 DEF Less
      <4>2. CASE q = i[2] /\ i[3] # n
        BY <1>1, <1>11, <2>2, <4>2 DEF Less
      <4>3. CASE q = i[2] /\ i[3] = n
        <5>1. i[4] # 2
          <6>1. i[4] = 2 => j = i
            BY <1>1, <1>11, <2>2, <4>3 DEF Tuples
          <6> QED BY <1>1, <6>1
        <5>2. i[4] < 2
          BY <1>10, <2>2, <5>1
        <5> QED BY <1>1, <1>11, <2>2, <4>3, <5>2 DEF Less
      <4> QED BY <4>1, <4>2, <4>3
    <3>2. before(i, j)
      BY <1>1, <1>11, <3>1, OrderOf
    <3> QED BY <1>1, <1>11, <2>2, <3>2 DEF Past
  <2> QED BY <1>6, <2>1, <2>2
<1>13. ASSUME NEW k \in S, Past(k)', j \in waiting(k)' PROVE FALSE
  <2>1. j[1] = k[3] /\ ~completed(j)' /\ get_lit(j)' = get_nt(k)'
    BY <1>13 DEF waiting
  <2>2. Proper(k) /\ k \in Tuples /\ k[3] \in Nat /\ k[1] \in Nat /\ k[2] \in Nat /\ k[3] <= k[1]
    <3>1. Proper(k)
      BY <1>1, <1>2, <1>13 DEF ItemInv
    <3> QED BY <3>1 DEF Proper, Fits, Tuples
  <2>3. k[1] <= n
    BY <1>1, <1>13, <2>2 DEF Past
  <2>4. to = n /\ k[1] = n
    BY <1>1, <1>6, <1>11, <2>1, <2>2, <2>3
  <2>5. q = i[2]
    <3>1. \A a, b : Len(<<a, b>>) = 2
      OBVIOUS
    <3>2. Len(G'[p]) = 2
      BY <1>9, <3>1
    <3>3. q = p => completed(j)'
      BY <1>11, <3>2 DEF completed
    <3> QED BY <2>1, <3>3
  <2>6. Len(job.g[i[2]]) # 2 /\ get_lit(j)' = job.g[i[2]][3]
    <3>1. G'[j[2]] = job.g[i[2]] /\ j[4] + 1 = 3
      BY <1>4, <1>11, <2>5
    <3>2. Len(G'[j[2]]) # 2 /\ get_lit(j)' = G'[j[2]][3]
      BY <1>11, <2>1, <3>1 DEF completed, get_lit
    <3> QED BY <3>1, <3>2
  <2>7. i[4] = 2 /\ get_nt(k)' = get_lit(i)
    <3>1. i[4] + 1 = Len(job.g[i[2]]) /\ i[4] \in 1 .. 2 /\ get_lit(i) = job.g[i[2]][i[4] + 1]
      BY <1>10, <2>4
    <3>2. \A m \in 1 .. 2 : m + 1 # 2 => m = 2 /\ m + 1 = 3
      OBVIOUS
    <3>3. i[4] = 2 /\ i[4] + 1 = 3
      BY <2>6, <3>1, <3>2
    <3> QED BY <2>1, <2>6, <3>1, <3>3
  <2>8. get_nt(k) = get_lit(i)
    BY <1>2, <2>2, <2>7, ExtendsItems
  <2>9. CASE k[2] <= Len(job.g)
    <3>1. k[2] \in 1 .. Len(job.g)
      BY <1>5, <2>2, <2>9 DEF Proper
    <3>2. get_nt(k) = job.g[k[2]][1]
      BY <1>2, <3>1, ProdIs DEF get_nt
    <3> QED BY <1>3, <1>5, <2>8, <3>1, <3>2 DEF no_builtin_defined
  <2>10. CASE ~(k[2] <= Len(job.g))
    <3>1. Less(i, k)
      BY <1>1, <1>4, <1>5, <2>2, <2>4, <2>10 DEF Less
    <3>2. before(i, k)
      BY <1>1, <2>2, <3>1, OrderOf
    <3> QED BY <1>1, <1>13, <2>4, <3>2 DEF Past
  <2> QED BY <2>9, <2>10
<1> QED BY <1>11, <1>12, <1>13 DEF Later

\* What Process has done of the item it looks at.
LEMMA ProcessHandles ==
  ASSUME RecInv, Extends, NEW i, Looked(i), Proper(i),
         Completes(i) \/ Predicts(i) \/ ScansBuiltin(i) \/ Scans(i)
  PROVE  S \subseteq S' /\ S \cup t \subseteq S' \cup t' /\ Handled(i)'
<1>1. n # idle /\ i \in S /\ i[1] = n /\ inputstr' = inputstr /\ job' = job /\ nts' = nts /\ n' = n
  BY DEF Looked, built
<1>2. /\ completed(i)' <=> completed(i)
      /\ get_nt(i)' = get_nt(i) /\ get_lit(i)' = get_lit(i)
      /\ is_builtin(get_lit(i))' <=> is_builtin(get_lit(i))
      /\ prods(get_lit(i))' = prods(get_lit(i))
  BY ExtendsItems DEF RecInv
<1>3. CASE Completes(i)
  <2>1. S' = S /\ G' = G /\ completed(i) /\ t \subseteq t' /\ Completing(i) \subseteq S \cup t'
    BY <1>3 DEF Completes, Added
  <2>2. waiting(i)' = waiting(i)
    BY <2>1 DEF waiting, completed, get_lit, get_nt
  <2>3. \A k \in waiting(i) : advanced(k, i[1]) \in S' \cup t'
    BY <2>1 DEF Completing
  <2>4. Handled(i)'
    BY <1>2, <2>1, <2>2, <2>3 DEF Handled
  <2> QED BY <2>1, <2>4
<1>4. CASE Predicts(i)
  <2>1. S' = S /\ ~completed(i) /\ ~is_builtin(get_lit(i)) /\ nt(get_lit(i)) /\ t \subseteq t' /\ Predicting(i) \subseteq S \cup t'
    BY <1>4 DEF Predicts, Added
  <2>2. \A p \in prods(get_lit(i)) : item(i[1], p, i[1], 1) \in S' \cup t'
    BY <2>1 DEF Predicting
  <2>3. get_lit(i) # Ch(char_at(inputstr, i[1]))
    BY <2>1 DEF nt, Ch
  <2>4. Handled(i)'
    BY <1>1, <1>2, <2>1, <2>2, <2>3 DEF Handled
  <2> QED BY <2>1, <2>4
<1>5. CASE Scans(i)
  <2>1. /\ ~completed(i) /\ ~nt(get_lit(i)) /\ t' = t
        /\ S' = S \cup IF get_lit(i) = Ch(ch) /\ n # Len(inputstr) THEN {advanced(i, n + 1)} ELSE {}
    BY <1>5 DEF Scans
  <2>2. ~is_builtin(get_lit(i))
    BY <2>1 DEF is_builtin, builtin_of
  <2>3. (get_lit(i) = Ch(char_at(inputstr, i[1])) /\ i[1] # Len(inputstr)) => advanced(i, i[1] + 1) \in S'
    BY <1>1, <2>1 DEF ch
  <2>4. Handled(i)'
    BY <1>1, <1>2, <2>1, <2>2, <2>3 DEF Handled
  <2> QED BY <2>1, <2>4
<1>6. CASE ScansBuiltin(i)
  <2>1. t' = t /\ ~completed(i) /\ is_builtin(get_lit(i)) /\ nt(get_lit(i))
    BY <1>6 DEF ScansBuiltin, is_builtin, builtin_of
  <2>2. get_lit(i) # Ch(char_at(inputstr, i[1]))
    BY <2>1 DEF nt, Ch
  <2>3. CASE ch \notin job.builtins[get_lit(i)[2]]
    <3>1. S' = S /\ char_at(inputstr, i[1]) \notin job.builtins[get_lit(i)[2]]
      BY <1>1, <1>6, <2>3 DEF ScansBuiltin, ch
    <3>2. Handled(i)'
      BY <1>1, <1>2, <2>1, <2>2, <3>1 DEF Handled
    <3> QED BY <2>1, <3>1, <3>2
  <2>4. CASE ch \in job.builtins[get_lit(i)[2]]
    <3>1. PICK p : Scanned(i, p)
      BY <1>6, <2>4 DEF ScansBuiltin
    <3>2. S \subseteq S' /\ p \in Len(job.g) + 1 .. Len(G') /\ G'[p][1] = get_lit(i) /\ item(after(inputstr, i[1]), p, i[1], 2) \in S'
      BY <1>1, <3>1 DEF Scanned
    <3>3. Handled(i)'
      BY <1>1, <1>2, <2>1, <2>2, <3>2 DEF Handled
    <3> QED BY <2>1, <3>2, <3>3
  <2> QED BY <2>3, <2>4
<1> QED BY <1>3, <1>4, <1>5, <1>6

\* Where the empty string is alone in its productions, it is first in them.
OnlyFirst == \A k : (eps_alone /\ Proper(k) /\ ~completed(k) /\ get_lit(k) = eps) => k[4] = 1
LEMMA EpsFirst == BuiltInv => OnlyFirst
<1> SUFFICES ASSUME BuiltInv, NEW k, eps_alone, Proper(k), ~completed(k), get_lit(k) = eps PROVE k[4] = 1
  BY DEF OnlyFirst
<1>1. k[4] + 1 \in 2 .. Len(G[k[2]]) /\ Len(G[k[2]]) = 2
  BY OpenIs
<1>2. k[4] \in Nat
  BY DEF Proper, Fits, Tuples
<1> QED BY <1>1, <1>2

LEMMA EpsFirstNext == BuiltInv' => OnlyFirst'
BY EpsFirst, PTL

LEMMA CompleteProcess == RecInv /\ CompleteInv /\ Process => CompleteInv'
<1> SUFFICES ASSUME RecInv, CompleteInv, Process, Conditions' PROVE BeginsStart' /\ SkipsEps' /\ PastHandled'
  BY DEF CompleteInv
<1>1. BuiltInv /\ PlaceInv /\ ItemInv /\ Extends /\ BuiltInv'
  BY ProcessIs DEF RecInv
<1>2. PICK i : Looked(i) /\ Proper(i) /\ (Completes(i) \/ Predicts(i) \/ ScansBuiltin(i) \/ Scans(i))
  BY ProcessIs DEF RecInv
<1>3. n # idle /\ i \in S /\ i[1] = n /\ it' = i /\ n' = n /\ inputstr' = inputstr /\ job' = job /\ nts' = nts
  BY <1>2 DEF Looked, built
<1>4. Conditions /\ BeginsStart /\ SkipsEps /\ PastHandled
  BY <1>3, ConditionsKept DEF CompleteInv
<1>5. S \subseteq S' /\ S \cup t \subseteq S' \cup t' /\ Handled(i)'
  BY <1>1, <1>2, ProcessHandles
<1>6. \A j \in S' \ S : Later(j)
  <2>1. Completes(i) \/ Predicts(i) => S' = S
    BY DEF Completes, Predicts
  <2> QED BY <1>1, <1>2, <1>4, <2>1, ScanLater, ScanBuiltinLater DEF Conditions
<1>7. BeginsStart'
  BY <1>3, <1>4, <1>5 DEF BeginsStart, prods
<1>8. ItemInv'
  BY RecInvProcess DEF RecInv
<1>9. SkipsEps'
  <2> SUFFICES ASSUME NEW k \in S' \cup t', ~completed(k)', get_lit(k)' = eps PROVE advanced(k, k[1]) \in S' \cup t'
    BY DEF SkipsEps
  <2>1. CASE k \in S \cup t
    <3>1. Proper(k)
      BY <1>1, <1>3, <2>1 DEF ItemInv
    <3>2. ~completed(k) /\ get_lit(k) = eps
      BY <1>1, <3>1, ExtendsItems
    <3> QED BY <1>4, <1>5, <2>1, <3>2 DEF SkipsEps
  <2>2. CASE k \in t' \ t
    <3>1. PICK I : Added(t, t', I) /\ G' = G
      BY <1>2, <2>2 DEF Completes, Predicts, Scans, ScansBuiltin
    <3>2. nullable(k)
      BY <3>1 DEF nullable, completed, get_lit
    <3> QED BY <1>5, <2>2, <3>1, <3>2 DEF Added
  <2>3. CASE k \in S' \ S
    <3>1. k[4] # 1
      BY <1>6, <2>3 DEF Later
    <3>2. Proper(k)'
      BY <1>3, <1>8, <2>3 DEF ItemInv
    <3>3. OnlyFirst' /\ eps_alone'
      BY <1>1, EpsFirstNext DEF Conditions
    <3> QED BY <3>1, <3>2, <3>3 DEF OnlyFirst
  <2> QED BY <2>1, <2>2, <2>3
<1>10. PastHandled'
  <2> SUFFICES ASSUME NEW k \in S', Past(k)' PROVE Handled(k)'
    BY DEF PastHandled
  <2>1. k \in S
    BY <1>6 DEF Later
  <2>2. CASE k = i
    BY <1>5, <2>2
  <2>3. CASE k # i
    <3>1. k[1] < n \/ (k[1] = n /\ ~before(i, k))
      BY <1>3 DEF Past
    <3>2. Past(k)
      BY <1>2, <2>1, <2>3, <3>1 DEF Past, Looked
    <3>3. Handled(k) /\ Proper(k) /\ \A j \in S : Proper(j)
      BY <1>1, <1>3, <1>4, <2>1, <3>2 DEF PastHandled, ItemInv
    <3>4. \A j \in S' \ S : j \notin waiting(k)'
      BY <1>6, <2>1 DEF Later
    <3> QED BY <1>1, <1>5, <3>3, <3>4, HandledStays
  <2> QED BY <2>2, <2>3
<1> QED BY <1>7, <1>9, <1>10

LEMMA CompletePass == RecInv /\ CompleteInv /\ Pass => CompleteInv'
<1> SUFFICES ASSUME RecInv, CompleteInv, Pass, Conditions' PROVE BeginsStart' /\ SkipsEps' /\ PastHandled'
  BY DEF CompleteInv
<1>1. /\ n # idle /\ ahead = {} /\ S' = S \cup t /\ t' = {} /\ it' = <<>> /\ n' = IF t = {} THEN n + 1 ELSE n
      /\ UNCHANGED <<job, nts, nullables, G, builtin_char_prod, inputstr, parses>>
  BY DEF Pass, built
<1>2. Conditions /\ BeginsStart /\ SkipsEps /\ PastHandled
  BY <1>1, ConditionsKept DEF CompleteInv
<1>3. BuiltInv /\ Extends /\ (\A k \in S \cup t : Proper(k)) /\ (\A k \in t : k[1] = n) /\ n \in Nat
  BY <1>1, ProdIs DEF RecInv, ItemInv, PlaceInv, places, Extends, built
<1>4. BeginsStart' /\ SkipsEps'
  BY <1>1, <1>2 DEF BeginsStart, SkipsEps, prods, completed, get_lit
<1>5. PastHandled'
  <2> SUFFICES ASSUME NEW k \in S', Past(k)' PROVE Handled(k)'
    BY DEF PastHandled
  <2>1. k[1] < n' /\ Proper(k) /\ k[1] \in Nat /\ k[3] \in Nat /\ k[3] <= k[1]
    BY <1>1, <1>3 DEF Past, Proper, Fits, Tuples
  <2>2. k \in S /\ k[1] <= n /\ \A j \in S' \ S : j[1] # k[3]
    BY <1>1, <1>3, <2>1
  <2>3. Past(k)
    <3>1. CASE k[1] = n
      <4>1. k \notin ahead
        BY <1>1
      <4> QED BY <2>2, <3>1, <4>1 DEF ahead, Past
    <3> QED BY <1>3, <2>1, <2>2, <3>1 DEF Past
  <2>4. \A j \in S' \ S : j \notin waiting(k)'
    BY <2>2 DEF waiting
  <2>5. Handled(k)
    BY <1>2, <2>2, <2>3 DEF PastHandled
  <2> QED BY <1>1, <1>3, <2>1, <2>4, <2>5, HandledStays
<1> QED BY <1>4, <1>5

LEMMA CompleteFinish == Finish => CompleteInv'
BY DEF CompleteInv, Finish

LEMMA CompleteStutter == CompleteInv /\ UNCHANGED recvars => CompleteInv'
<1> SUFFICES ASSUME CompleteInv, UNCHANGED recvars PROVE CompleteInv'
  OBVIOUS
<1>1. UNCHANGED <<job, nts, nullables, G, builtin_char_prod, S, t, n, it, inputstr>>
  BY DEF recvars, built
<1>2. Conditions' <=> Conditions
  BY <1>1, ConditionsKept
<1>3. \A k : (completed(k)' <=> completed(k)) /\ get_lit(k)' = get_lit(k) /\ get_nt(k)' = get_nt(k) /\ waiting(k)' = waiting(k)
             /\ (is_builtin(get_lit(k))' <=> is_builtin(get_lit(k))) /\ prods(get_lit(k))' = prods(get_lit(k))
  BY <1>1 DEF completed, get_lit, get_nt, waiting, is_builtin, prods
<1>4. \A k : (Past(k)' <=> Past(k)) /\ (Handled(k)' <=> Handled(k))
  BY <1>1, <1>3 DEF Past, Handled
<1>5. (BeginsStart' <=> BeginsStart) /\ (SkipsEps' <=> SkipsEps)
  BY <1>1, <1>3 DEF BeginsStart, SkipsEps, prods
<1> QED BY <1>1, <1>2, <1>4, <1>5 DEF CompleteInv, PastHandled

----------------------------------------------------------------------------
(* At the end of the loop the items are the language's.                    *)

\* what holds of the items when there is nothing left to go through
Whole ==
  /\ BuiltInv /\ inputstr \in job.inputs /\ no_builtin_defined
  /\ t = {} /\ SkipsEps /\ \A i \in S : Proper(i) /\ Handled(i)

Predicted(l, x) == \A p \in prods(l) : item(x, p, x, 1) \in S
Found(l, x, y) == \E p \in prods(l) : item(y, p, x, Len(G[p])) \in S
AllFound(D) == \A l, x, y : (<<l, x, y>> \in D /\ Predicted(l, x)) => Found(l, x, y)

LEMMA CompletedMoves ==
  ASSUME Whole, NEW i \in S, NEW c \in S, ~completed(i), completed(c), c[3] = i[1], get_nt(c) = get_lit(i)
  PROVE  advanced(i, c[1]) \in S
<1>1. i \in waiting(c)
  BY DEF waiting
<1>2. Handled(c) /\ t = {}
  BY DEF Whole
<1> QED BY <1>1, <1>2 DEF Handled

\* An item goes past whatever can be read there.
LEMMA StepFound ==
  ASSUME Whole, NEW D, AllFound(D), NEW i \in S, ~completed(i),
         NEW y \in places(inputstr), reads_as(job, inputstr, D, get_lit(i), i[1], y)
  PROVE  advanced(i, y) \in S
<1>1. BuiltInv /\ Proper(i) /\ Handled(i) /\ t = {} /\ inputstr \in job.inputs
  BY DEF Whole
<1>2. CASE get_lit(i) = eps
  <2>1. y = i[1]
    BY <1>2 DEF reads_as
  <2> QED BY <1>1, <1>2, <2>1 DEF Whole, SkipsEps
<1>3. CASE get_lit(i) # eps /\ is_builtin(get_lit(i))
  <2>1. y = after(inputstr, i[1]) /\ char_at(inputstr, i[1]) \in job.builtins[get_lit(i)[2]]
    BY <1>3 DEF reads_as, is_builtin
  <2>2. PICK q \in Len(job.g) + 1 .. Len(G) : G[q][1] = get_lit(i) /\ item(y, q, i[1], 2) \in S
    BY <1>1, <1>3, <2>1 DEF Handled
  <2>3. Len(job.g) \in Nat /\ Len(G) \in Nat
    BY <1>1, ProdIs
  <2>4. q \in 1 .. Len(G) /\ q > Len(job.g)
    BY <2>3
  <2>5. Len(G[q]) = 2
    BY <1>1, <2>4, ProdIs
  <2> DEFINE c == item(y, q, i[1], 2)
  <2>6. c \in S /\ completed(c) /\ c[3] = i[1] /\ get_nt(c) = get_lit(i) /\ c[1] = y
    BY <2>2, <2>5 DEF completed, get_nt, item
  <2> HIDE DEF c
  <2> QED BY <2>6, CompletedMoves
<1>4. CASE get_lit(i) # eps /\ ~is_builtin(get_lit(i)) /\ nt(get_lit(i))
  <2>1. <<get_lit(i), i[1], y>> \in D
    BY <1>4 DEF reads_as, is_builtin
  <2>2. Predicted(get_lit(i), i[1])
    BY <1>1, <1>4 DEF Handled, Predicted
  <2>3. PICK p \in prods(get_lit(i)) : item(y, p, i[1], Len(G[p])) \in S
    BY <2>1, <2>2 DEF AllFound, Found
  <2>4. G[p][1] = get_lit(i)
    <3>1. p \in 1 .. Len(job.g) /\ job.g[p][1] = get_lit(i)
      BY <1>1, ProdsAre
    <3> QED BY <1>1, <3>1, ProdIs
  <2> DEFINE c == item(y, p, i[1], Len(G[p]))
  <2>5. c \in S /\ completed(c) /\ c[3] = i[1] /\ get_nt(c) = get_lit(i) /\ c[1] = y
    BY <2>3, <2>4 DEF completed, get_nt, item
  <2> HIDE DEF c
  <2> QED BY <2>5, CompletedMoves
<1>5. CASE get_lit(i) # eps /\ ~is_builtin(get_lit(i)) /\ ~nt(get_lit(i))
  <2>1. y = after(inputstr, i[1]) /\ get_lit(i) = Ch(char_at(inputstr, i[1])) /\ i[1] # Len(inputstr)
    BY <1>5 DEF reads_as, is_builtin
  <2>2. y = i[1] + 1
    BY <2>1 DEF after
  <2> QED BY <1>1, <2>1, <2>2 DEF Handled
<1> QED BY <1>2, <1>3, <1>4, <1>5

LEMMA UptoFound ==
  ASSUME Whole, NEW D, AllFound(D), NEW p \in 1 .. Len(job.g), NEW x \in places(inputstr), item(x, p, x, 1) \in S
  PROVE  \A d \in Nat : d + 1 <= Len(job.g[p]) =>
           \A y : <<x, y>> \in upto(job, inputstr, D, job.g[p])[d + 1] => item(y, p, x, d + 1) \in S
<1> DEFINE U == upto(job, inputstr, D, job.g[p])
           A == { d \in Nat : d + 1 <= Len(job.g[p]) => \A y : <<x, y>> \in U[d + 1] => item(y, p, x, d + 1) \in S }
<1>1. 0 \in A
  <2>1. \A y : <<x, y>> \in U[1] => y = x
    BY UptoAt
  <2> HIDE DEF U
  <2> QED BY <2>1
<1>2. Len(job.g[p]) \in Nat /\ G[p] = job.g[p]
  BY ProdIs, JobIs DEF Whole, BuiltInv
<1>3. ASSUME NEW d \in Nat, d \in A PROVE d + 1 \in A
  <2> SUFFICES ASSUME (d + 1) + 1 <= Len(job.g[p]), NEW y, <<x, y>> \in U[(d + 1) + 1]
               PROVE  item(y, p, x, (d + 1) + 1) \in S
    OBVIOUS
  <2>1. d + 1 \in Nat /\ d + 1 >= 1 /\ d + 1 <= Len(job.g[p]) /\ d + 1 # Len(job.g[p])
    BY <1>2
  <2>2. y \in places(inputstr)
    <3>1. (d + 1) + 1 \in Nat
      BY <2>1
    <3>2. <<x, y>> \in upto(job, inputstr, D, job.g[p])[(d + 1) + 1]
      OBVIOUS
    <3> HIDE DEF U
    <3> QED BY <3>1, <3>2, UptoEnds
  <2>3. PICK z \in places(inputstr) : <<x, z>> \in U[d + 1] /\ reads_as(job, inputstr, D, job.g[p][(d + 1) + 1], z, y)
    <3> DEFINE q == job.g[p]
               m == d + 1
    <3>1. m \in Nat /\ m >= 1 /\ <<x, y>> \in upto(job, inputstr, D, q)[m + 1]
      BY <2>1
    <3> HIDE DEF q, m
    <3>2. \E z \in places(inputstr) : <<x, z>> \in upto(job, inputstr, D, q)[m] /\ reads_as(job, inputstr, D, q[m + 1], z, y)
      <4>1. upto(job, inputstr, D, q)[m + 1] = Then(job, inputstr, D, q[m + 1], upto(job, inputstr, D, q)[m])
        BY <3>1, UptoIs
      <4> QED BY <3>1, <4>1 DEF Then, Stretches
    <3> QED BY <3>2 DEF m, q
  <2> DEFINE i == item(z, p, x, d + 1)
  <2>4. i \in S
    BY <1>3, <2>1, <2>3
  <2>5. i[1] = z /\ ~completed(i) /\ get_lit(i) = job.g[p][(d + 1) + 1]
    BY <1>2, <2>1 DEF item, completed, get_lit
  <2>6. advanced(i, y) = item(y, p, x, (d + 1) + 1)
    BY DEF advanced, item
  <2> HIDE DEF i
  <2>7. advanced(i, y) \in S
    BY <2>2, <2>3, <2>4, <2>5, StepFound
  <2> QED BY <2>6, <2>7
<1>4. Nat \subseteq A
  <2> HIDE DEF A
  <2> QED BY <1>1, <1>3, SetInduction
<1> QED BY <1>4

LEMMA LevelsFound ==
  ASSUME Whole
  PROVE  \A k \in Nat : AllFound(derivable(job, inputstr)[k])
<1> DEFINE A == { k \in Nat : AllFound(derivable(job, inputstr)[k]) }
<1>1. /\ \A p \in DOMAIN job.g : Len(job.g[p]) \in Nat \ {0}
      /\ DOMAIN job.g = 1 .. Len(job.g)
      /\ \A p \in DOMAIN job.g : G[p] = job.g[p]
  BY JobIs DEF Whole, BuiltInv
<1>2. derivable(job, inputstr)[0] = {} /\ \A k \in Nat : derivable(job, inputstr)[k + 1] = derive(job, inputstr, derivable(job, inputstr)[k])
  BY <1>1, DerivableIs
<1>3. 0 \in A
  BY <1>2 DEF AllFound
<1>4. ASSUME NEW k \in Nat, k \in A PROVE k + 1 \in A
  <2> DEFINE D == derivable(job, inputstr)[k]
  <2>1. AllFound(D)
    BY <1>4
  <2>2. derivable(job, inputstr)[k + 1] = derive(job, inputstr, D)
    BY <1>2
  <2> HIDE DEF D
  <2> SUFFICES ASSUME NEW l, NEW x, NEW y, <<l, x, y>> \in derive(job, inputstr, D), Predicted(l, x) PROVE Found(l, x, y)
    BY <2>2 DEF AllFound
  <2>3. PICK p \in DOMAIN job.g : l = job.g[p][1] /\ <<x, y>> \in upto(job, inputstr, D, job.g[p])[Len(job.g[p])]
    BY <1>1, DeriveIs
  <2>4. p \in prods(l) /\ p \in 1 .. Len(job.g)
    BY <1>1, <2>3, ProdsAre DEF Whole
  <2>5. item(x, p, x, 1) \in S
    BY <2>4 DEF Predicted
  <2>6. x \in places(inputstr)
    <3>1. <<l, x, y>> \in Facts(job, inputstr)
      BY <1>1, DeriveIs
    <3> QED BY <3>1 DEF Facts
  <2>7. Len(job.g[p]) - 1 \in Nat /\ (Len(job.g[p]) - 1) + 1 = Len(job.g[p])
    BY <1>1
  <2>8. item(y, p, x, Len(job.g[p])) \in S
    <3> DEFINE d == Len(job.g[p]) - 1
    <3>1. d \in Nat /\ d + 1 = Len(job.g[p]) /\ d + 1 <= Len(job.g[p])
      BY <1>1, <2>7
    <3> HIDE DEF d
    <3>2. <<x, y>> \in upto(job, inputstr, D, job.g[p])[d + 1]
      BY <2>3, <3>1
    <3>3. item(y, p, x, d + 1) \in S
      BY <2>1, <2>4, <2>5, <2>6, <3>1, <3>2, UptoFound
    <3> QED BY <3>1, <3>3
  <2> QED BY <1>1, <2>4, <2>8 DEF Found
<1>5. Nat \subseteq A
  <2> HIDE DEF A
  <2> QED BY <1>3, <1>4, SetInduction
<1> QED BY <1>5

LEMMA FinishWhole ==
  ASSUME RecInv, CompleteInv, Finish, Conditions
  PROVE  Whole /\ BeginsStart
<1>1. n # idle /\ ahead = {} /\ t = {} /\ n = Len(inputstr)
  BY DEF Finish, at_end
<1>2. BuiltInv /\ inputstr \in job.inputs /\ n \in Nat /\ \A i \in S : Proper(i)
  BY <1>1 DEF RecInv, ItemInv, PlaceInv, places
<1>3. BeginsStart /\ SkipsEps /\ PastHandled
  BY <1>1 DEF CompleteInv
<1>4. ASSUME NEW i \in S PROVE Past(i)
  <2>1. i[1] \in Nat /\ i[1] <= n /\ i \notin ahead
    BY <1>1, <1>2 DEF Proper, Fits, Tuples
  <2> QED BY <1>2, <2>1 DEF Past, ahead
<1> QED BY <1>1, <1>2, <1>3, <1>4 DEF Whole, PastHandled, Conditions

LEMMA AnswerRight ==
  ASSUME RecInv, SoundInv, CompleteInv, Finish, no_builtin_defined
  PROVE  LET inside == <<start, 0, Len(inputstr)>> \in derived(job, inputstr)
         IN /\ (inside /\ eps_alone /\ ~starts_null /\ eof_closes) => found'
            /\ (found' /\ builtins_lead) => inside
<1>1. n # idle /\ n = Len(inputstr) /\ found' = \E p \in prods(start) : item(n, p, 0, Len(G[p])) \in S
  BY DEF Finish, at_end
<1>2. BuiltInv /\ inputstr \in job.inputs /\ \A i \in S : Proper(i)
  BY <1>1 DEF RecInv, ItemInv, PlaceInv
<1>3. ASSUME <<start, 0, Len(inputstr)>> \in Language, eps_alone, ~starts_null, eof_closes PROVE found'
  <2>1. Whole /\ BeginsStart
    BY <1>3, FinishWhole DEF Conditions
  <2>2. PICK k \in Nat : Language = derivable(job, inputstr)[k]
    BY <1>2, LanguageIs
  <2>3. AllFound(Language)
    BY <2>1, <2>2, LevelsFound
  <2>4. Predicted(start, 0)
    BY <2>1 DEF BeginsStart, Predicted
  <2> QED BY <1>1, <1>3, <2>3, <2>4 DEF AllFound, Found
<1>4. ASSUME found', builtins_lead PROVE <<start, 0, Len(inputstr)>> \in Language
  <2>1. PICK p \in prods(start) : item(n, p, 0, Len(G[p])) \in S
    BY <1>1, <1>4
  <2>2. p \in 1 .. Len(job.g) /\ job.g[p][1] = start /\ G[p] = job.g[p] /\ p \in DOMAIN job.g
    BY <1>2, ProdsAre, ProdIs
  <2> DEFINE i == item(n, p, 0, Len(G[p]))
  <2>3. i \in S /\ completed(i) /\ get_nt(i) = start /\ i[3] = 0 /\ i[1] = n
    BY <2>1, <2>2 DEF completed, get_nt, item
  <2> HIDE DEF i
  <2>4. Proper(i) /\ Read(i)
    BY <1>1, <1>2, <1>4, <2>3 DEF SoundInv
  <2>5. ReadAs(start, 0, n)
    BY <1>2, <2>3, <2>4, CompletedReads
  <2>6. ~builtin_of(job, start)
    BY <2>2 DEF no_builtin_defined, is_builtin
  <2> QED BY <1>1, <2>5, <2>6 DEF ReadAs, reads_as, start, NT, eps, Ch, nt
<1> QED BY <1>3, <1>4 DEF Language

RecognizerInv == RecInv /\ SoundInv /\ CompleteInv /\ RecognizesLanguage

LEMMA RecognizesKept == RecognizerInv /\ [RecNext]_recvars => RecognizesLanguage'
<1> SUFFICES ASSUME RecognizerInv, [RecNext]_recvars PROVE RecognizesLanguage'
  OBVIOUS
<1>1. CASE Recognize
  BY <1>1 DEF Recognize, RecognizesLanguage, answered, idle
<1>2. CASE Process
  BY <1>2 DEF Process, RecognizesLanguage, answered
<1>3. CASE Pass
  <2>1. n' # idle
    <3>1. n \in Nat /\ n' = IF t = {} THEN n + 1 ELSE n
      BY <1>3 DEF Pass, RecognizerInv, RecInv, PlaceInv, places
    <3> QED BY <3>1 DEF idle
  <2> QED BY <2>1 DEF RecognizesLanguage, answered
<1>4. CASE Finish
  <2>1. UNCHANGED <<job, inputstr>>
    BY <1>4 DEF Finish, built
  <2>2. /\ no_builtin_defined' <=> no_builtin_defined
        /\ eps_alone' <=> eps_alone
        /\ starts_null' <=> starts_null
        /\ eof_closes' <=> eof_closes
        /\ builtins_lead' <=> builtins_lead
        /\ derived(job, inputstr)' = derived(job, inputstr)
    BY <2>1 DEF no_builtin_defined, eps_alone, starts_null, eof_closes, builtins_lead, is_builtin
  <2>3. no_builtin_defined =>
          LET inside == <<start, 0, Len(inputstr)>> \in derived(job, inputstr)
          IN /\ (inside /\ eps_alone /\ ~starts_null /\ eof_closes) => found'
             /\ (found' /\ builtins_lead) => inside
    BY <1>4, AnswerRight DEF RecognizerInv
  <2> QED BY <2>1, <2>2, <2>3 DEF RecognizesLanguage
<1>5. CASE UNCHANGED recvars
  <2>1. UNCHANGED <<job, inputstr, found, n, parses>>
    BY <1>5 DEF recvars, built
  <2>2. /\ no_builtin_defined' <=> no_builtin_defined
        /\ eps_alone' <=> eps_alone
        /\ starts_null' <=> starts_null
        /\ eof_closes' <=> eof_closes
        /\ builtins_lead' <=> builtins_lead
        /\ answered' <=> answered
        /\ derived(job, inputstr)' = derived(job, inputstr)
    BY <2>1 DEF no_builtin_defined, eps_alone, starts_null, eof_closes, builtins_lead, is_builtin, answered
  <2> QED BY <2>1, <2>2 DEF RecognizerInv, RecognizesLanguage
<1> QED BY <1>1, <1>2, <1>3, <1>4, <1>5 DEF RecNext

\* recognize answers whether the string is in the language of the grammar: it
\* accepts all of the language where start has no empty production, the empty
\* string is alone in its productions and a class that is read at the end of the
\* string ends a production of at most two literals, and nothing else where builtins are first in their productions,
\* for every grammar in which no builtin has a production, and every string.
THEOREM RecognizesLanguageAlways == RecSpec => []RecognizesLanguage
<1>1. RecInit => RecognizerInv
  <2> SUFFICES ASSUME RecInit PROVE RecognizerInv
    OBVIOUS
  <2>1. n = idle /\ parses = 0
    BY DEF RecInit
  <2> QED BY <2>1, RecInvInit DEF RecognizerInv, SoundInv, CompleteInv, RecognizesLanguage, answered
<1>2. RecognizerInv /\ [RecNext]_recvars => RecognizerInv'
  <2> SUFFICES ASSUME RecInv, SoundInv, CompleteInv, [RecNext]_recvars PROVE RecInv' /\ SoundInv' /\ CompleteInv'
    BY RecognizesKept DEF RecognizerInv
  <2>1. CASE Recognize
    BY <2>1, RecInvRecognize, SoundRecognize, CompleteRecognize
  <2>2. CASE Process
    BY <2>2, RecInvProcess, SoundProcess, CompleteProcess
  <2>3. CASE Pass
    BY <2>3, RecInvPass, SoundPass, CompletePass
  <2>4. CASE Finish
    BY <2>4, RecInvFinish, SoundFinish, CompleteFinish
  <2>5. CASE UNCHANGED recvars
    BY <2>5, RecInvStutter, SoundStutter, CompleteStutter
  <2> QED BY <2>1, <2>2, <2>3, <2>4, <2>5 DEF RecNext
<1>3. RecognizerInv => RecognizesLanguage
  BY DEF RecognizerInv
<1> QED BY <1>1, <1>2, <1>3, PTL DEF RecSpec
=============================================================================
