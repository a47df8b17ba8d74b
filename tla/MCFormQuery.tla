---------------------------- MODULE MCFormQuery ----------------------------
(* Formulas over a set A and a relation E of the values 0 to 3.            *)
EXTENDS FormQuery

Tup(s) == {<<v>> : v \in s}
MCContents ==
    [A |-> {Tup({}), Tup({0, 2}), Tup(Values)},
     E |-> {{<<v, v>> : v \in Values}, {0, 2} \X Values,
            {<<v, (v + 1) % 4>> : v \in Values}}]

At(r, as) == [type |-> "ATOM", rel |-> r, args |-> as]
Not(l) == [type |-> "NOT", l |-> l]
Bin(t, l, r) == [type |-> t, l |-> l, r |-> r]
Quant(t, v, r) == [type |-> t, v |-> v, r |-> r]
x == -1
y == -2
Ax == At("A", <<x>>)
Ay == At("A", <<y>>)
Exy == At("E", <<x, y>>)
Eyx == At("E", <<y, x>>)
Same(not) == [type |-> "EQ", args |-> <<x, y>>, neg |-> not]
Connectives == {"AND", "OR", "IMPLIES"}

Literals == {Ax, Not(Ay), Same(TRUE)}
Pairs == {Bin(t, g, Exy) : t \in Connectives, g \in Literals}
Open == {Bin(t, Ax, Not(g)) : t \in Connectives, g \in Pairs}
        \union {Bin(t, g, Eyx) : t \in Connectives, g \in Pairs}
ExistsY == {Quant("EXISTS1", y, g) :
              g \in {Not(Eyx), Bin("AND", Ay, Exy), Bin("IMPLIES", Ay, Eyx)}}
Nested == ExistsY \union {Bin("AND", Ax, g) : g \in ExistsY}
                  \union {Bin("IMPLIES", g, Ax) : g \in ExistsY}
                  \union {Not(g) : g \in ExistsY}
Closed == {Quant(q, x, g) : q \in {"EXISTS1", "FORALL1"}, g \in Nested}
          \union {Quant("EXISTS1", x, Quant("FORALL1", y, g)) : g \in Pairs}
          \union {Quant("UNIQUE1", x, g) : g \in {Ax, Not(Ax), Bin("AND", Ax, Quant("EXISTS1", y, Exy))}}

MCRules == {[head |-> <<x, y>>, form |-> g] : g \in Open}
           \union {[head |-> <<y>>, form |-> Quant("EXISTS1", x, g)] : g \in Pairs}
           \union {[head |-> <<x>>, form |-> g] : g \in Nested}
           \union {[head |-> <<>>, form |-> g] : g \in Closed}
=============================================================================
