----------------------------- MODULE MCBuiltins -----------------------------
(* Alternatives with one and with two builtins, with every modifier.        *)
EXTENDS Builtins

call(name)    == [name |-> name, renew |-> FALSE, forget |-> FALSE]
renewed(name) == [call(name) EXCEPT !.renew = TRUE]
unkept(name)  == [call(name) EXCEPT !.forget = TRUE]

MCAlts == [draw   |-> <<call("rnd")>>,
           tell   |-> <<call("println"), call("rnd")>>,
           total  |-> <<call("count")>>,
           totals |-> <<renewed("count"), unkept("count")>>,
           mixed  |-> <<unkept("println"), call("count")>>]

MCPrograms == {{"draw", "total"}, {"tell", "total"}, {"totals", "draw"}, {"mixed", "total"}}
==============================================================================
