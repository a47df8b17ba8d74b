-------------------------------- MODULE Ebnf --------------------------------
(***************************************************************************)
(* Grammars as an author of a TML program writes them: for each name a      *)
(* right side, which is an expression.  What ir_builder and the Earley      *)
(* parser promise is said of these: the stretches of a string that a name  *)
(* stands for.                                                              *)
(***************************************************************************)
EXTENDS Grammar

\* expressions
name(x)   == [k |-> "name", x |-> x]
char(c)   == [k |-> "char", x |-> c]
text(s)   == [k |-> "text", x |-> s]
none      == [k |-> "none"]
nothing   == [k |-> "nothing"]            \* after the last | of a side
then(e)   == [k |-> "then", of |-> e]     \* one after the other
either(e) == [k |-> "either", of |-> e]   \* one of them, only where brackets or a side begin
opt(e)    == [k |-> "opt", of |-> <<e>>]
any(e)    == [k |-> "any", of |-> <<e>>]  \* { e }
grp(e)    == [k |-> "grp", of |-> <<e>>]
star(e)   == [k |-> "star", of |-> <<e>>] \* of a single element or a group
plus(e)   == [k |-> "plus", of |-> <<e>>]

\* production::parse: the elements of an expression
RECURSIVE tokens(_)
tokens(e) ==
  LET All(sep) == FlattenSeq([i \in 1..Len(e.of) |-> (IF i > 1 THEN sep ELSE <<>>) \o tokens(e.of[i])])
      In(l, r) == <<Op(l)>> \o tokens(e.of[1]) \o <<Op(r)>>
  IN CASE e.k = "name" -> <<Sym(e.x)>>
       [] e.k = "char" -> <<Chr(e.x)>>
       [] e.k = "text" -> <<Str(e.x)>>
       [] e.k = "none" -> <<null>>
       [] e.k = "nothing" -> <<>>
       [] e.k = "then" -> All(<<>>)
       [] e.k = "either" -> All(<<Op("ALT")>>)
       [] e.k = "opt" -> In("OPENSB", "CLOSESB")
       [] e.k = "any" -> In("OPENB", "CLOSEB")
       [] e.k = "grp" -> In("OPENP", "CLOSEP")
       [] e.k = "star" -> tokens(e.of[1]) \o <<Op("MULT")>>
       [] e.k = "plus" -> tokens(e.of[1]) \o <<Op("ADD")>>

\* defs: a sequence of [name, is]
productions(defs) == [k \in 1..Len(defs) |-> <<Sym(defs[k].name)>> \o tokens(defs[k].is)]

\* all expressions within one
RECURSIVE within(_)
within(e) == {e} \cup IF "of" \in DOMAIN e THEN UNION { within(e.of[i]) : i \in 1..Len(e.of) } ELSE {}
-----------------------------------------------------------------------------
(* The language: pairs of places of s between which an expression, or a name,*)
(* can be read.  classes gives the characters of the builtin names.          *)
\* At the end of s there is "eof", the Eof of the Recognizer, to be read.
classes_of(s, cs) == chars_of(s, cs) \cup IF "eof" \in cs THEN {<<Len(s), Len(s)>>} ELSE {}

RECURSIVE closed(_)
closed(r) == LET q == r \cup compose(r, r) IN IF q = r THEN r ELSE closed(q)

RECURSIVE reads(_, _, _, _)
reads(e, classes, s, D) ==
  LET R(i) == reads(e.of[i], classes, s, D)
      empty == identity(0..Len(s))
  IN CASE e.k = "name" -> IF e.x \in DOMAIN classes THEN classes_of(s, classes[e.x]) ELSE of_name(D, e.x)
       [] e.k = "char" -> chars_of(s, {e.x})
       [] e.k = "text" -> { x \in (0..Len(s)) \X (0..Len(s)) : x[1] <= x[2] /\ SubSeq(s, x[1] + 1, x[2]) = e.x }
       [] e.k \in {"none", "nothing"} -> empty
       [] e.k = "then" -> FoldLeft(compose, empty, [i \in 1..Len(e.of) |-> R(i)])
       [] e.k = "either" -> UNION { R(i) : i \in 1..Len(e.of) }
       [] e.k = "opt" -> R(1) \cup empty
       [] e.k \in {"any", "star"} -> closed(R(1)) \cup empty
       [] e.k = "grp" -> R(1)
       [] e.k = "plus" -> closed(R(1))

RECURSIVE least_reading(_, _, _, _)
least_reading(defs, classes, s, D) ==
  LET E == UNION { facts(defs[k].name, reads(defs[k].is, classes, s, D)) : k \in 1..Len(defs) }
  IN IF E = D THEN D ELSE least_reading(defs, classes, s, E)

\* what the names of a grammar stand for in s, as facts
language(defs, classes, s) == least_reading(defs, classes, s, {})
=============================================================================
