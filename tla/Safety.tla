------------------------------- MODULE Safety -------------------------------
(***************************************************************************)
(* The safety check (driver::is_safe, --safecheck): every variable of a    *)
(* rule has to be limited, that is, range over values the database holds   *)
(* rather than over the universe.  `scopes` gives each variable the tree   *)
(* it is free in, `wrt` the variables whose limitation is being asked for  *)
(* at the moment, through equalities.                                      *)
(***************************************************************************)
EXTENDS Formulas

nested(t, op) == Range(flatten_associative(t, op))
expanded(t, scopes) == expand_formula_node(t, DOMAIN scopes)
Expandable == {"IMPLIES", "COIMPLIES", "UNIQUE"}

\* in x = y the one is limited if the other is: by the whole scope of the other
RECURSIVE is_limited(_, _, _, _)
limited_by_eq(var, rt, wrt, scopes) ==
  LET other == IF rt.e[1] = var THEN rt.e[2] ELSE rt.e[1]
  IN  /\ var \in Range(rt.e) \ wrt
      /\ IsVar(other) => is_limited(other, scopes[other], wrt \cup {var}, scopes)

limited_in_leaf_any(var, rt, wrt, scopes) == var \in Range(rt.e)
limited_in_leaf(var, rt, wrt, scopes) ==
  IF rt.extype = "EQ" THEN limited_by_eq(var, rt, wrt, scopes) ELSE var \in Range(rt.e)

is_limited(var, t, wrt, scopes) ==
  LET limited(f)   == is_limited(var, f, wrt, scopes)
      within(q, f) == /\ q.v # var
                      /\ is_limited(var, f, wrt, (q.v :> q.r) @@ scopes)
      l            == t.l
  IN CASE t.type \in Expandable           -> limited(expanded(t, scopes))
       [] t.type = "AND"                  -> \E f \in nested(t, "AND") : limited(f)
       [] t.type = "ALT"                  -> \A f \in nested(t, "ALT") : limited(f)
       [] t.type \in {"EXISTS", "FORALL"} -> within(t, t.r)
       [] t.type = "NONE"                 -> limited_in_leaf(var, t.rt, wrt, scopes)
       [] t.type = "NOT" ->
            CASE l.type = "NOT"                  -> limited(l.l)
              [] l.type = "AND"                  -> \A f \in nested(l, "AND") : limited(Not(f))
              [] l.type = "ALT"                  -> \E f \in nested(l, "ALT") : limited(Not(f))
              [] l.type \in Expandable           -> limited(Not(expanded(l, scopes)))
              [] l.type \in {"EXISTS", "FORALL"} -> within(l, Not(l.r))
              [] l.type = "NONE"                 -> FALSE

RECURSIVE all_quantifiers_limited(_, _)
all_quantifiers_limited(t, scopes) ==
  LET inner == (t.v :> t.r) @@ scopes
  IN CASE t.type \in Expandable     -> all_quantifiers_limited(expanded(t, scopes), scopes)
       [] t.type \in {"AND", "ALT"} -> \A f \in nested(t, t.type) : all_quantifiers_limited(f, scopes)
       [] t.type = "NOT"            -> all_quantifiers_limited(t.l, scopes)
       [] t.type = "EXISTS"         -> /\ is_limited(t.v, t.r, {}, inner)
                                       /\ all_quantifiers_limited(t.r, inner)
       [] t.type = "FORALL"         -> /\ is_limited(t.v, Not(t.r), {}, inner)
                                       /\ all_quantifiers_limited(t.r, inner)
       [] t.type = "NONE"           -> TRUE

\* a deletion only concerns what is there: its head is one more conjunct
guarded(rr) == IF rr.h[1].neg THEN Tree("AND", Leaf(negate(rr.h[1])), get_prft(rr))
               ELSE get_prft(rr)

\* of several heads only the first is looked at
is_safe_rule(rr) ==
  LET of_rule == collect_vars(rr.h[1]) \cup body_vars(rr)
      scopes  == [v \in of_rule |-> guarded(rr)]
  IN  IF is_fact(rr) THEN of_rule = {}
      ELSE /\ \A v \in of_rule : is_limited(v, guarded(rr), {}, scopes)
           /\ all_quantifiers_limited(guarded(rr), scopes)

\* A variable of an outermost quantifier that is used outside it, or twice, is
\* exported by conjoining what is inside.
RECURSIVE stripped(_, _), reused(_, _)
stripped(t, ops) == IF t.type \in ops THEN stripped(t.r, ops) ELSE t
reused(t, used)  == /\ t.type \in {"EXISTS", "UNIQUE"}
                    /\ t.v \in used \/ reused(t.r, used \cup {t.v})
exported(rr) ==
  IF is_form(rr) /\ reused(rr.prft, vars_of(Range(rr.h)))
  THEN set_prft(rr, Tree("AND", stripped(rr.prft, {"EXISTS", "UNIQUE"}),
                                stripped(rr.prft, {"EXISTS"})))
  ELSE rr
export_outer_quantifiers(rp) == mapped(exported, rp)

is_safe(rp) == \A rr \in Range(export_outer_quantifiers(rp)) : is_safe_rule(rr)
=============================================================================
