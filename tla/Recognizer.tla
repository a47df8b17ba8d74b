----------------------------- MODULE Recognizer -----------------------------
(***************************************************************************)
(* earley<CharT>::recognize of earley.cpp: whether a string is in the      *)
(* language of a grammar, an item of the loop at a time.                   *)
(*                                                                         *)
(* Items are tuples <<set, prod, from, dot>> as in struct item, which order *)
(* the way std::set<item> does; dot counts as in the code: 1 is before the *)
(* first literal of the right side, G[prod] is complete at its length.     *)
(*                                                                         *)
(* No operator here is RECURSIVE: what the code does by recursion and by   *)
(* loops is written as sets and as functions on numbers, so that it can be *)
(* proved about (RecognizerProofs).                                        *)
(***************************************************************************)
EXTENDS Integers, Sequences, FiniteSets

CONSTANTS
  Jobs        \* what parsers are used for: records with g, the productions as literals;
              \* builtins, the characters of builtin names; inputs: strings; uses: a number

VARIABLES
  job,        \* (of the model)
  G,          \* productions, grown by those of builtins' characters
  nts,        \* the productions of each nonterminal the parser was built with
  nullables,  \* literals that may be empty
  builtin_char_prod, \* production of a builtin and a character
  S, t,       \* items, and those found in this pass
  n, it,      \* the place in the string, and the item looked at last (<<>>: none)
  inputstr,
  found,      \* what recognize returned
  parses      \* calls of recognize so far

built == <<job, nts, nullables>>
recvars == <<built, G, builtin_char_prod, S, t, n, it, inputstr, found, parses>>

idle == -1      \* n outside of recognize
Eof == "eof"    \* char_traits::eof(), which no string has: it is read at the end
-----------------------------------------------------------------------------
(* Literals: nonterminals, characters and the empty string.                 *)
NT(x) == <<"nt", x>>
Ch(c) == <<"c", c>>
eps == Ch("0")
start == NT(<<"start">>)
nt(l) == l[1] # "c"

\* is_builtin: the literal has a character class
builtin_of(j, l) == nt(l) /\ l[2] \in DOMAIN j.builtins
is_builtin(l) == builtin_of(job, l)
prods(l) == IF l \in DOMAIN nts THEN nts[l] ELSE {}

productions_of(g) == [l \in { g[p][1] : p \in DOMAIN g } |-> { p \in DOMAIN g : g[p][1] = l }]

\* the constructor goes through the productions until no literal is new
all_nulls(p, known) == \A k \in 2..Len(p) : p[k] = eps \/ p[k] \in known
nullable_lits(g) ==
  LET nulls[k \in Nat] ==
        IF k = 0 THEN {}
        ELSE nulls[k - 1] \cup { g[p][1] : p \in { q \in DOMAIN g : all_nulls(g[q], nulls[k - 1]) } }
  IN nulls[Len(g)]

used(g) == UNION { { g[p][k] : k \in DOMAIN g[p] } : p \in DOMAIN g }
elements(s) == { s[k] : k \in DOMAIN s }

\* what the constructors make of any grammar: productions have heads
ASSUME JobsAssumption ==
  \A j \in Jobs :
    /\ j.g \in Seq(Seq(used(j.g)))
    /\ \A l \in used(j.g) : l \in {"nt", "c"} \X {l[2]}
    /\ \A p \in DOMAIN j.g : j.g[p] # <<>> /\ nt(j.g[p][1])
    /\ \A s \in j.inputs : s \in Seq(elements(s)) /\ "0" \notin elements(s) /\ Eof \notin elements(s)
    /\ j.uses \in Nat
-----------------------------------------------------------------------------
(* Items.                                                                   *)
item(set, prod, from, dot) == <<set, prod, from, dot>>
completed(i) == Len(G[i[2]]) = i[4]
get_lit(i) == G[i[2]][i[4] + 1]
get_nt(i) == G[i[2]][1]
nullable(i) == ~completed(i) /\ (get_lit(i) = eps \/ get_lit(i) \in nullables)
advanced(i, set) == item(set, i[2], i[3], i[4] + 1)

before(i, j) == \E k \in 1..4 : i[k] < j[k] /\ \A m \in 1..(k - 1) : i[m] = j[m]
least(A) == CHOOSE i \in A : \A j \in A \ {i} : before(i, j)

\* mutant: only the item itself
add_plain(T, i) == T \cup ({i} \ S)

\* add: the item, and past every literal that may be empty, up to one there is
dotted(i, d) == item(i[1], i[2], i[3], d)
add(T, i) ==
  T \cup { dotted(i, d) : d \in { e \in i[4]..Len(G[i[2]]) :
             /\ \A m \in i[4]..e : dotted(i, m) \notin S \cup T
             /\ \A m \in i[4]..(e - 1) : nullable(dotted(i, m)) } }

\* the items that wait for what i completes
waiting(i) == { j \in S : j[1] = i[3] /\ ~completed(j) /\ get_lit(j) = get_nt(i) }
complete(i, T) == T \cup UNION { add(T, advanced(j, i[1])) : j \in waiting(i) }
predict(i, T) == T \cup UNION { add(T, item(i[1], p, i[1], 1)) : p \in prods(get_lit(i)) }
scan(i, c) == IF get_lit(i) = Ch(c) THEN {advanced(i, n + 1)} ELSE {}

\* what can be read at place x, and where it ends
char_at(s, x) == IF x = Len(s) THEN Eof ELSE s[x + 1]
after(s, x) == IF x = Len(s) THEN x ELSE x + 1
at_end == n = Len(inputstr)
ch == char_at(inputstr, n)

\* scan_builtin: the item is taken to begin here and to end with the character
scan_builtin(i) ==
  LET b == get_lit(i)[2]
      known == <<b, ch>> \in DOMAIN builtin_char_prod
      p == IF known THEN builtin_char_prod[<<b, ch>>] ELSE Len(G) + 1
      to == after(inputstr, n)
  IN IF ch \notin job.builtins[b] THEN UNCHANGED <<S, G, builtin_char_prod>>
     ELSE /\ S' = S \cup {item(to, i[2], n, 2), item(to, p, n, 2)}
          /\ G' = IF known THEN G ELSE Append(G, <<get_lit(i), Ch(ch)>>)
          /\ builtin_char_prod' =
               [k \in DOMAIN builtin_char_prod \cup {<<b, ch>>} |-> IF k = <<b, ch>> THEN p ELSE builtin_char_prod[k]]
-----------------------------------------------------------------------------
(* recognize, an item at a time.                                            *)
RecInit ==
  /\ job \in Jobs
  /\ G = job.g
  /\ nts = productions_of(job.g)
  /\ nullables = nullable_lits(job.g)
  /\ builtin_char_prod = <<>>
  /\ S = {} /\ t = {} /\ n = idle /\ it = <<>>
  /\ inputstr = <<>> /\ found = FALSE /\ parses = 0

Recognize ==
  /\ n = idle /\ parses < job.uses
  /\ inputstr' \in job.inputs
  /\ S' = { item(0, p, 0, 1) : p \in prods(start) }
  /\ t' = {} /\ n' = 0 /\ it' = <<>> /\ parses' = parses + 1
  /\ UNCHANGED <<built, G, builtin_char_prod, found>>

\* the items of this set the loop has not come to
ahead == { i \in S : i[1] = n /\ (it = <<>> \/ before(it, i)) }

Process ==
  /\ n # idle /\ ahead # {}
  /\ LET i == least(ahead)
     IN /\ it' = i
        /\ IF completed(i) THEN t' = complete(i, t) /\ UNCHANGED <<S, G, builtin_char_prod>>
           ELSE IF is_builtin(get_lit(i)) THEN scan_builtin(i) /\ UNCHANGED t
           ELSE IF nt(get_lit(i)) THEN t' = predict(i, t) /\ UNCHANGED <<S, G, builtin_char_prod>>
           ELSE S' = S \cup (IF at_end THEN {} ELSE scan(i, ch)) /\ UNCHANGED <<t, G, builtin_char_prod>>
  /\ UNCHANGED <<built, n, inputstr, found, parses>>

\* the end of a pass: again with what it found, or on to the next character
Pass ==
  /\ n # idle /\ ahead = {} /\ (t # {} \/ ~at_end)
  /\ S' = S \cup t /\ t' = {} /\ it' = <<>>
  /\ n' = IF t = {} THEN n + 1 ELSE n
  /\ UNCHANGED <<built, G, builtin_char_prod, inputstr, found, parses>>

Finish ==
  /\ n # idle /\ ahead = {} /\ t = {} /\ at_end
  /\ found' = \E p \in prods(start) : item(n, p, 0, Len(G[p])) \in S
  /\ n' = idle /\ it' = <<>>
  /\ UNCHANGED <<built, G, builtin_char_prod, S, t, inputstr, parses>>

RecNext == Recognize \/ Process \/ Pass \/ Finish
RecSpec == RecInit /\ [][RecNext]_recvars
-----------------------------------------------------------------------------
(* The language of a job's grammar: facts <<l, x, y>>, the literal l can be *)
(* read in s from place x to place y.                                       *)
places(s) == 0..Len(s)
Facts(j, s) == { j.g[p][1] : p \in DOMAIN j.g } \X places(s) \X places(s)

\* by what is known of nonterminals, l can be read from x to y
reads_as(j, s, D, l, x, y) ==
  IF l = eps THEN x = y
  ELSE IF builtin_of(j, l) THEN y = after(s, x) /\ char_at(s, x) \in j.builtins[l[2]]
  ELSE IF nt(l) THEN <<l, x, y>> \in D
  ELSE y = after(s, x) /\ l = Ch(char_at(s, x)) /\ x # Len(s)

\* the stretches that the literals of p after its head and up to the d-th are read in
upto(j, s, D, p) ==
  LET r[d \in Nat] ==
        IF d <= 1 THEN { q \in places(s) \X places(s) : q[1] = q[2] }
        ELSE { q \in places(s) \X places(s) :
                 \E z \in places(s) : <<q[1], z>> \in r[d - 1] /\ reads_as(j, s, D, p[d], z, q[2]) }
  IN r

\* what the productions give of what is known
derive(j, s, D) ==
  UNION { { <<j.g[p][1], q[1], q[2]>> : q \in upto(j, s, D, j.g[p])[Len(j.g[p])] } : p \in DOMAIN j.g }

\* applied again and again, to the first time that gives nothing new
derivable(j, s) == LET D[k \in Nat] == IF k = 0 THEN {} ELSE derive(j, s, D[k - 1]) IN D
derived(j, s) ==
  LET D == derivable(j, s)
  IN D[CHOOSE k \in 0..Cardinality(Facts(j, s)) : D[k + 1] = D[k]]
-----------------------------------------------------------------------------
answered == n = idle /\ parses > 0

\* conditions on the grammar
eps_alone == \A p \in DOMAIN job.g : \A k \in 2..Len(job.g[p]) : job.g[p][k] = eps => Len(job.g[p]) = 2
starts_null == \E p \in DOMAIN job.g : job.g[p] = <<start, eps>>
builtins_lead == \A p \in DOMAIN job.g : \A k \in 3..Len(job.g[p]) : ~is_builtin(job.g[p][k])
no_builtin_defined == \A p \in DOMAIN job.g : ~is_builtin(job.g[p][1])
eof_closes ==
  \A p \in DOMAIN job.g : \A k \in 2..Len(job.g[p]) :
    (is_builtin(job.g[p][k]) /\ Eof \in job.builtins[job.g[p][k][2]]) => k = Len(job.g[p]) /\ k <= 3

\* RecognizesLanguage: what start stands for by the productions is accepted,
\* through empty and recursive productions and in whatever order items were
\* found, unless start itself has an empty production or a class that is read
\* at the end of the string has more than one literal beside it or one after it
\* (scan_builtin puts its item among those of the set that is being gone
\* through), or the second constructor was given an empty string beside other
\* literals (scan does not move past one); and nothing else is, where builtins
\* stand only first in their productions (scan_builtin takes the item to begin
\* at the builtin).
RecognizesLanguage ==
  (answered /\ no_builtin_defined) =>
    LET inside == <<start, 0, Len(inputstr)>> \in derived(job, inputstr)
    IN /\ (inside /\ eps_alone /\ ~starts_null /\ eof_closes) => found
       /\ (found /\ builtins_lead) => inside
=============================================================================
