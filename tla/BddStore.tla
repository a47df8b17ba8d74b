------------------------------ MODULE BddStore ------------------------------
(***************************************************************************)
(* The node store under every table (bdd.cpp, bdd.h): nodes are shared     *)
(* pairs of attributed references, an operation answers from the memos     *)
(* where it can, and gc throws away what no handle reaches, renumbering    *)
(* the nodes that stay and everything that names them.                     *)
(*                                                                         *)
(* Two handles are compared by their references only, so everything above  *)
(* relies on a function having one reference.  Garbage collection is on,   *)
(* the default of its option.                                              *)
(***************************************************************************)
EXTENDS BddOps, BddNodes, SequencesExt

CONSTANTS
  Bits,      \* the bits asked for: <<variable, value>>
  Families,  \* what is asked for: "plain" or "joined" operations, or single "steps"
  VarLists,  \* by family, the sets of variables quantified over
  MaxHeld,   \* by family, the handles alive at once (bound)
  MaxOps     \* operations of a behaviour (bound)

ASSUME BddStoreAssumption ==
  /\ MaxOps \in Nat /\ MaxHeld \in [Families -> Nat]
  /\ Bits \subseteq (1 .. NVars) \X BOOLEAN
  /\ VarLists \in [Families -> SUBSET SUBSET (1 .. NVars)]

VARIABLES
  high_first,  \* the compiler evaluates the call for the high branch first
  family,      \* the operations this behaviour asks for
  ops          \* operations so far

store == [V |-> V, C |-> C, memos |-> memos, hf |-> high_first]
bddVars == <<nodesVars, high_first, family, ops>>

\* the variables a function depends on
support(f) ==
  { v \in 1 .. NVars : \E s \in Assignment : ((s \cup {v}) \in f) # ((s \ {v}) \in f) }
----------------------------------------------------------------------------
BddInit ==
  /\ NodesInit
  /\ high_first \in BOOLEAN /\ family \in Families
  /\ family = "steps" => high_first   \* no step makes two calls
  /\ ops = 0

Drop(x) == LetGo(x) /\ UNCHANGED <<high_first, family, ops>>

\* gc on request: from the repl, and around a program with --optimize
Gc == Collect /\ UNCHANGED <<high_first, family, ops>>
----------------------------------------------------------------------------
(* The operations on handles. *)

\* bdd_handle::get of what an operation gave, next to the handles there were
HoldsNextTo(handles, new, fun) ==
  /\ V' = new.st.V /\ C' = new.st.C /\ memos' = new.st.memos
  /\ held' = handles \cup {[ref |-> new.r, fun |-> fun]}
  /\ Cardinality(held') <= MaxHeld[family] + 2
  /\ UNCHANGED <<high_first, family>>

Holds(new, fun) ==
  /\ ops < MaxOps /\ ops' = ops + 1
  /\ HoldsNextTo(held, new, fun)

FromBit(v, val) ==
  /\ HoldsNextTo(held, from_bit(store, v, val), bit(v, val))
  /\ UNCHANGED ops

And(x, y) == Holds(bdd_and(store, x.ref, y.ref), x.fun \cap y.fun)

Sub(x, y) == Holds(bdd_and(store, x.ref, flip(y.ref)), x.fun \ y.fun)

Or(x, y) == Holds(bdd_or(store, x.ref, y.ref), x.fun \cup y.fun)

\* from_eq, bdd_ite_var under a permutation and the adders ask bdd_ite about a
\* bit or a carry and functions of other bits
branches(x) ==
  LET vars == support(x.fun) IN { y \in held : support(y.fun) \cap vars = {} }

Ite(x, y, z) ==
  Holds(bdd_ite(store, x.ref, y.ref, z.ref), ite_of(x.fun, y.fun, z.fun))

Xor(x, y) ==
  Holds(bdd_ite(store, x.ref, flip(y.ref), y.ref), (x.fun \ y.fun) \cup (y.fun \ x.fun))

Ex(x, ex) == Holds(bdd_ex(store, x.ref, ex), ex_of(x.fun, ex))

AndEx(x, y, ex) ==
  Holds(bdd_and_ex(store, x.ref, y.ref, ex, NoPerm), ex_of(x.fun \cap y.fun, ex))

AndNotEx(x, y, ex) ==
  Holds(bdd_and_ex(store, x.ref, flip(y.ref), ex, NoPerm), ex_of(x.fun \ y.fun, ex))

\* renamings are asked for that keep the variables of S apart
renames(S, ex, p) ==
  LET vars == UNION { support(x.fun) : x \in S } \ ex
  IN  \A v, w \in vars : p[v] = p[w] => v = w

Permute(x, p) ==
  /\ renames({x}, {}, p)
  /\ Holds(bdd_permute(store, x.ref, p), renamed_ex(x.fun, {}, p))

PermuteEx(x, ex, p) ==
  /\ renames({x}, ex, p)
  /\ Holds(bdd_permute_ex(store, x.ref, ex, p), renamed_ex(x.fun, ex, p))

AndExPerm(x, y, ex, p) ==
  /\ renames({x, y}, ex, p)
  /\ Holds(bdd_and_ex(store, x.ref, y.ref, ex, p), renamed_ex(x.fun \cap y.fun, ex, p))

AndNotExPerm(x, y, ex, p) ==
  /\ renames({x, y}, ex, p)
  /\ Holds(bdd_and_ex(store, x.ref, flip(y.ref), ex, p), renamed_ex(x.fun \ y.fun, ex, p))

OrMany(S) ==
  Holds(bdd_or_reduce(store, SetToSeq(refs(S))), UNION { x.fun : x \in S })

\* an operation on many operands, by Op(store, operands); gc comes first when
\* the nodes, counted with the unused node 0, have reached the limit
Many(S, Op(_, _), fun) ==
  /\ ops < MaxOps /\ ops' = ops + 1
  /\ \/ /\ Len(V) + 1 < GcLimit
        /\ HoldsNextTo(held, Op(store, am_sort(refs(S))), fun)
     \/ /\ Len(V) + 1 >= GcLimit
        /\ HoldsNextTo(updated(held), Op(collected @@ [hf |-> high_first], am_sort(refs(updated(S)))), fun)

AndMany(S) == Many(S, bdd_and_many, meet(S))

AndManyEx(S, ex) ==
  LET op(st, v) == IF ex = {} THEN bdd_and_many(st, v) ELSE bdd_and_many_ex(st, v, ex, NoPerm)
  IN  Many(S, op, ex_of(meet(S), ex))

AndManyExPerm(S, ex, p) ==
  LET op(st, v) == bdd_and_many_ex(st, v, ex, p)
  IN  renames(S, ex, p) /\ Many(S, op, renamed_ex(meet(S), ex, p))

Plain ==
  /\ family = "plain"
  /\ \/ \E x, y \in held : And(x, y) \/ Sub(x, y) \/ Or(x, y) \/ Xor(x, y)
     \/ \E x \in held : \E y, z \in branches(x) : Ite(x, y, z)
     \/ \E x \in held, ex \in VarLists[family] : Ex(x, ex)

\* handles of nodes (bound on Joined's operands, which meet the leaves below)
operands == { x \in held : ~leaf(x.ref) }

Joined ==
  /\ family = "joined"
  /\ \/ \E x, y \in operands, ex \in VarLists[family] : AndEx(x, y, ex) \/ AndNotEx(x, y, ex)
     \/ \E x, y \in operands, <<ex, p>> \in Renamings :
          AndExPerm(x, y, ex, p) \/ AndNotExPerm(x, y, ex, p)
     \/ \E x \in operands, <<ex, p>> \in Renamings : Permute(x, p) \/ PermuteEx(x, ex, p)
     \/ \E S \in SUBSET operands : OrMany(S) \/ AndMany(S)
     \/ \E S \in SUBSET operands, ex \in VarLists[family] : AndManyEx(S, ex)
     \/ \E S \in SUBSET operands, <<ex, p>> \in Renamings : AndManyExPerm(S, ex, p)

\* a single step, where no operation is looked at as a whole
Single ==
  /\ family = "steps"
  /\ ops < MaxOps /\ ops' = ops + 1
  /\ Step
  /\ Cardinality(held') <= MaxHeld[family] + 2
  /\ UNCHANGED <<high_first, family>>

BddNext ==
  \/ \E <<v, val>> \in Bits : FromBit(v, val)
  \/ Plain
  \/ Joined
  \/ Single
  \/ \E x \in held : Drop(x)
  \/ Gc

BddSpec == BddInit /\ [][BddNext]_bddVars
=============================================================================
