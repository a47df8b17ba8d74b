------------------------------ MODULE MCEarley ------------------------------
(***************************************************************************)
(* Small grammars, each with all strings of up to three or four characters. *)
(***************************************************************************)
EXTENDS Earley

strings(A, k) == UNION { [1..i -> A] : i \in 0..k }
def(x, e) == [name |-> <<x>>, is |-> e]
N(x) == name(<<x>>)
a == char("a")
b == char("b")
c == char("c")

Plain == {
  \* the bracketed: options, repetitions of one element, of a text, of alternatives
  << def("start", then(<<a, any(b), opt(c)>>)) >>,
  << def("start", then(<<grp(either(<<a, b>>)), star(c), plus(a)>>)) >>,
  << def("start", then(<<plus(grp(either(<<a, then(<<b, b>>)>>))), c>>)) >>,
  << def("start", then(<<any(then(<<a, opt(either(<<b, c>>))>>)), a>>)) >>,
  << def("start", either(<<then(<<text(<<"a", "b">>), opt(N("start"))>>), c>>)) >>,
  \* empty productions, in chains and in brackets
  << def("start", N("A")), def("A", either(<<then(<<a, N("A"), b>>), none>>)) >>,
  << def("start", then(<<N("A"), N("B"), c>>)), def("A", either(<<none, a>>)),
     def("B", either(<<then(<<N("A"), N("A")>>), b>>)) >>,
  << def("start", either(<<none, then(<<a, N("start")>>)>>)) >>,
  << def("start", then(<<N("A"), b>>)), def("A", either(<<then(<<a, N("A")>>), nothing>>)) >>,
  << def("start", either(<<a, nothing>>)) >>,
  \* left and right recursion, ambiguity, productions of one nonterminal
  << def("start", N("E")), def("E", either(<<then(<<N("E"), N("E")>>), a, b>>)) >>,
  << def("start", either(<<then(<<N("start"), a, b>>), c>>)) >>,
  << def("start", then(<<N("A"), N("A"), N("A")>>)), def("A", either(<<a, then(<<a, a>>)>>)) >>,
  << def("start", then(<<N("A"), b, N("A"), opt(b)>>)), def("A", either(<<a, then(<<a, b, a>>)>>)) >>,
  << def("start", N("A")), def("A", either(<<N("B"), a>>)), def("B", either(<<N("A"), a>>)) >> }

Built == {
  << def("start", plus(N("alpha"))) >>,
  << def("start", then(<<N("A"), opt(N("A")), N("E")>>)), def("A", either(<<N("alpha"), c>>)), def("E", N("eof")) >>,
  << def("start", either(<<then(<<c, N("alpha"), a>>), then(<<a, N("start")>>)>>)) >>,
  << def("start", then(<<N("A"), N("eof")>>)), def("A", either(<<c, then(<<N("alpha"), opt(N("A"))>>)>>)) >> }

classes == [x \in {<<"alpha">>, <<"eof">>} |-> IF x = <<"eof">> THEN {Eof} ELSE {"a", "b"}]
only(x) == [y \in {x} |-> classes[y]]
uses_eof(g) == \E k \in 1..Len(g) : N("eof") \in within(g[k].is)

job_of(g, cs, bin, ins, u) ==
  [g |-> grammar(transformed(productions(g)), cs), defs |-> g, builtins |-> cs, bin_lr |-> bin, inputs |-> ins, uses |-> u]
MCJobs ==
  { job_of(g, <<>>, bin, strings({"a", "b", "c"}, 3), 1) : g \in Plain, bin \in BOOLEAN } \cup
  { job_of(g, IF uses_eof(g) THEN classes ELSE only(<<"alpha">>), FALSE, strings({"a", "c"}, 2), 2) : g \in Built }
=============================================================================
