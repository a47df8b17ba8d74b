------------------------------- MODULE Earley -------------------------------
(***************************************************************************)
(* The Earley parser of earley.cpp: its constructor, recognize (Recognizer) *)
(* with the parse forest it ends in, and what is read off the forest.      *)
(***************************************************************************)
EXTENDS Ebnf, Recognizer, FiniteSetsExt, Functions

VARIABLES
  sorted,     \* sorted_citem and rsorted_citem: items by the literal they are for
  pfgraph     \* the forest

vars == <<recvars, sorted, pfgraph>>
-----------------------------------------------------------------------------
(* The constructor.  Of the grammar a job has defs as written, and in g what *)
(* the constructor makes of it.                                             *)

\* the elements of a production as literals: a name that is no nonterminal,
\* or a string that was not split, is spelled out
spelling(s) == [i \in 1..Len(s) |-> Ch(s[i])]
lits(p, nonterminals) ==
  FlattenSeq([k \in 1..Len(p) |->
    IF p[k].type = "SYM" /\ p[k].e \in nonterminals THEN <<NT(p[k].e)>>
    ELSE IF Len(p) = 2 /\ p[k] = null THEN <<eps>>
    ELSE IF p[k].type = "STR" THEN spelling(<<"q">> \o p[k].e \o <<"q">>)
    ELSE spelling(p[k].e)])
grammar(g, builtins) == [k \in 1..Len(g) |-> lits(g[k], heads(g) \cup DOMAIN builtins)]
written(j) == transformed(productions(j.defs))

ASSUME JobsBuilt == \A j \in Jobs : j.g = grammar(written(j), j.builtins) /\ j.bin_lr \in BOOLEAN
-----------------------------------------------------------------------------
(* The forest.  A node is a literal with its span; a pack is a sequence of  *)
(* nodes.  root stands for what build_forest recurses over: the nodes that  *)
(* packs reach.                                                             *)
node(l, from, to) == [l |-> l, from |-> from, to |-> to]

\* bin_tnt: a nonterminal of its own for the beginning of a production, made
\* anew by each parse
temp(v) == <<"temp", v, parses>>
prefix(i) == SubSeq(G[i[2]], 2, i[4])

sorted_now ==
  sorted \cup { <<get_nt(i), i>> : i \in { j \in S : completed(j) } }
         \cup IF job.bin_lr THEN { <<temp(prefix(i)), i>> : i \in { j \in S : ~completed(j) /\ j[4] >= 3 } }
              ELSE {}

items_of(srt, l) == { x[2] : x \in { y \in srt : y[1] = l } }
from_items(srt, l, from) == { i \in items_of(srt, l) : i[3] = from }

\* sbl_chd_forest: the ways to cover the literals from k on by x up to the item's end
RECURSIVE sbl_chd_forest(_, _, _, _, _)
sbl_chd_forest(srt, s, i, k, x) ==
  IF k > Len(G[i[2]]) THEN IF x = i[1] THEN {<<>>} ELSE {}
  ELSE LET l == G[i[2]][k]
           ends == IF nt(l) THEN { v[1] : v \in from_items(srt, l, x) }
                   ELSE IF l = eps THEN {x}
                   ELSE IF x < Len(s) /\ Ch(s[x + 1]) = l THEN {x + 1} ELSE {}
       IN UNION { { <<node(l, x, e)>> \o rest : rest \in sbl_chd_forest(srt, s, i, k + 1, e) }
                  : e \in { y \in ends : y <= i[1] \/ ~nt(l) } }

\* bin_lr_comb: the last literal before the dot beside what is before it
right_nodes(srt, s, i) ==
  LET l == G[i[2]][i[4]]
  IN IF nt(l) THEN { node(l, v[3], v[1]) : v \in { w \in items_of(srt, l) : w[1] = i[1] /\ i[3] <= w[3] } }
     ELSE IF l = eps THEN {node(l, i[1], i[1])}
     ELSE IF i[1] > 0 /\ Ch(s[i[1]]) = l THEN {node(l, i[1] - 1, i[1])} ELSE {}

left_nodes(srt, s, i) ==
  LET l == IF i[4] > 3 THEN temp(SubSeq(G[i[2]], 2, i[4] - 1)) ELSE G[i[2]][2]
  IN IF nt(l) THEN { node(l, i[3], v[1]) : v \in from_items(srt, l, i[3]) }
     ELSE IF l = eps THEN {node(l, i[3], i[3])}
     ELSE IF i[3] < Len(s) /\ Ch(s[i[3] + 1]) = l THEN {node(l, i[3], i[3] + 1)} ELSE {}

bin_lr_comb(srt, s, i) ==
  IF i[4] < 2 THEN {}
  ELSE IF i[4] = 2 THEN { <<r>> : r \in { x \in right_nodes(srt, s, i) : i[3] <= x.from } }
  ELSE { <<y[1], y[2]>> : y \in { z \in left_nodes(srt, s, i) \X right_nodes(srt, s, i) : z[1].to = z[2].from } }

items_at(srt, nd) == { i \in from_items(srt, nd.l, nd.from) : i[1] = nd.to }


packs(srt, s, nd) ==
  UNION { IF job.bin_lr THEN bin_lr_comb(srt, s, i) ELSE sbl_chd_forest(srt, s, i, 2, i[3]) : i \in items_at(srt, nd) }

\* build_forest, build_forest2: from the nodes still to build and those built
RECURSIVE build_forest(_, _, _, _)
build_forest(srt, s, todo, g) ==
  LET new == { nd \in todo : nt(nd.l) /\ nd \notin DOMAIN g /\ items_at(srt, nd) # {} }
      h == [nd \in new |-> packs(srt, s, nd)]
  IN IF new = {} THEN g
     ELSE build_forest(srt, s, UNION { Range(p) : p \in UNION { h[nd] : nd \in new } }, h @@ g)

root(s) == node(start, 0, Len(s))
forest(srt, s) == build_forest(srt, s, {root(s)}, <<>>)
-----------------------------------------------------------------------------
(* recognize with the forest it makes at its end.                            *)
Init == RecInit /\ sorted = {} /\ pfgraph = <<>>

FinishForest ==
  /\ Finish
  /\ sorted' = sorted_now
  /\ pfgraph' = forest(sorted', inputstr)

Next ==
  \/ Recognize /\ UNCHANGED <<sorted, pfgraph>>
  \/ Process /\ UNCHANGED <<sorted, pfgraph>>
  \/ Pass /\ UNCHANGED <<sorted, pfgraph>>
  \/ FinishForest
Spec == Init /\ [][Next]_vars
-----------------------------------------------------------------------------
(* What is read off the forest.                                             *)
\* children, a pack; the code's map and sets order them, which nothing here needs
children(nd) == IF nd \in DOMAIN pfgraph THEN pfgraph[nd] ELSE {}
nodes == DOMAIN pfgraph \cup UNION { Range(p) : p \in UNION { pfgraph[nd] : nd \in DOMAIN pfgraph } }

\* the packs of a node multiply, those of a shared node once
count_parsed_trees ==
  LET Counted == { nd \in nodes : nt(nd.l) }
  IN IF root(inputstr) \notin DOMAIN pfgraph \/ ~Counted \subseteq DOMAIN pfgraph THEN 0
     ELSE FoldFunctionOnSet(LAMBDA a, b : a * b, 1, [nd \in Counted |-> Cardinality(pfgraph[nd])], Counted)

\* visit_forest: ids of nodes, with room after the ambiguous ones for their packs
is_temp(l) == l[1] = "temp"
label(l) == IF is_temp(l) THEN l ELSE IF nt(l) THEN l[2] ELSE <<l[2]>>
args(nd) == <<label(nd.l), nd.from, nd.to>>
room(nd) == IF Cardinality(pfgraph[nd]) = 1 THEN 1 ELSE 1 + Cardinality(pfgraph[nd])

\* in some order; the terminals are numbered as they are come to, after all others
listed(A) == FoldSet(LAMBDA x, s : Append(s, x), <<>>, A)
ids ==
  LET Place(f, nd) == Append(f, <<nd, IF f = <<>> THEN 0 ELSE Last(f)[2] + room(Last(f)[1])>>)
      own == FoldSet(LAMBDA nd, f : Place(f, nd), <<>>, DOMAIN pfgraph)
      next == IF own = <<>> THEN 0 ELSE Last(own)[2] + room(Last(own)[1])
      later == listed(nodes \ DOMAIN pfgraph)
  IN { own[k] : k \in 1..Len(own) } \cup { <<later[k], next + k - 1>> : k \in 1..Len(later) }
nid == LET f == ids IN [nd \in nodes |-> (CHOOSE x \in f : x[1] = nd)[2]]

facts_of(nd, numbers) ==
  LET ps == listed(pfgraph[nd])
      ambiguous == Len(ps) > 1
      at(k) == numbers[nd] + IF ambiguous THEN k ELSE 0
  IN { <<"node", numbers[nd], args(nd)>> }
     \cup (IF ambiguous THEN UNION { { <<"edge", numbers[nd], at(k)>>, <<"node", at(k), <<>> >> } : k \in 1..Len(ps) } ELSE {})
     \cup UNION { UNION { { <<"node", numbers[c], args(c)>>, <<"edge", at(k), numbers[c]>> } : c \in Range(ps[k]) } : k \in 1..Len(ps) }
get_parse_graph_facts == LET f == nid IN UNION { facts_of(nd, f) : nd \in DOMAIN pfgraph }

\* flatten: the characters of the first pack, without those of a child that
\* begin with NUL or the end; a node that is not in the forest gives a NUL
first_pack(nd) == CHOOSE p \in children(nd) : TRUE

kept(flat) == IF flat # <<>> /\ flat[1] \in {"0", Eof} THEN <<>> ELSE flat

RECURSIVE flatten(_)
flatten(nd) ==
  IF nd \notin DOMAIN pfgraph THEN <<"0">>
  ELSE IF children(nd) = {} THEN <<>>
  ELSE FlattenSeq([k \in 1..Len(first_pack(nd)) |->
         LET c == first_pack(nd)[k]
         IN IF ~nt(c.l) THEN <<c.l[2]>>
            ELSE kept(flatten(c))])

\* down, with actions that note the node they are called with and go down it;
\* a nonterminal that an expression was given counts as the name it stands in
acted(l) == IF Len(label(l)) > 1 /\ label(l)[1] = "_R" THEN label(l)[2] ELSE label(l)
RECURSIVE down(_, _)
down(nd, actions) ==
  (IF acted(nd.l) \in actions THEN <<nd>> ELSE <<>>) \o
  FlattenSeq([k \in 1..Cardinality(children(nd)) |->
    LET pack == listed(children(nd))[k]
    IN FlattenSeq([m \in 1..Len(pack) |-> down(pack[m], actions)])])

\* topdown: the first node of the name, which is the one that begins and ends first
topdown(actions) ==
  LET tops == { nd \in DOMAIN pfgraph : nd.l = start }
      first == CHOOSE a \in tops : \A b \in tops \ {a} : a.from < b.from \/ (a.from = b.from /\ a.to < b.to)
  IN IF tops = {} THEN <<>> ELSE down(first, actions)
-----------------------------------------------------------------------------
(* What a parser is for.                                                    *)
means == language(job.defs, job.builtins, inputstr)

\* conditions on the grammar
literals_after(k) == UNION { { job.g[p][m] : m \in (k + 1)..Len(job.g[p]) } : p \in DOMAIN job.g }
no_bare == \A p \in DOMAIN job.g : Len(job.g[p]) > 1
no_unit == \A l \in DOMAIN nts : \A p \in nts[l] : Len(G[p]) = 2 => ~nt(G[p][2])

\* of what is derived, the stretches of the grammar's own names
named == { job.defs[k].name : k \in 1..Len(job.defs) }

\* RulesAgree: for every name of the grammar the stretches of the string that
\* it stands for as written, with its strings, brackets and repetitions, are
\* those the parser's productions derive, and those that the rules derive
\* which transform_grammar writes.  (The rules know builtins as classes of
\* characters, and the end of the string is none; a production that is there
\* twice may leave its terms to the next rule.)
RulesAgree ==
  (answered /\ ~unexpected(written(job))) =>
    /\ means = { <<f[1][2], f[2], f[3]>> : f \in { d \in derived(job, inputstr) : d[1][2] \in named } }
    /\ (IsInjective(written(job)) /\ \A b \in DOMAIN job.builtins : Eof \notin job.builtins[b]) =>
         means = { f \in rules_derive(written(job), 0..Len(inputstr), job.builtins, inputstr) : f[1] \in named }

\* the ways a node is made up by productions
RECURSIVE ways(_, _, _, _, _)
ways(p, k, x, y, D) ==
  IF k > Len(G[p]) THEN IF x = y THEN {<<>>} ELSE {}
  ELSE UNION { { <<node(G[p][k], x, e)>> \o w : w \in ways(p, k + 1, e, y, D) }
               : e \in { z \in places(inputstr) : z <= y /\ reads_as(job, inputstr, D, G[p][k], x, z) } }
made_up(nd, D) ==
  IF is_builtin(nd.l) THEN { <<node(Ch(inputstr[i]), i - 1, i)>> : i \in { j \in 1..Len(inputstr) :
                               nd.from = j - 1 /\ nd.to = j /\ inputstr[j] \in job.builtins[nd.l[2]] } }
  ELSE UNION { ways(p, 2, nd.from, nd.to, D) : p \in nts[nd.l] }

\* a pack with its temporary nonterminals replaced by what they stand for
RECURSIVE spelled_out(_)
spelled_out(pack) ==
  IF pack # <<>> /\ is_temp(pack[1].l)
  THEN UNION { { q \o Tail(pack) : q \in spelled_out(r) } : r \in children(pack[1]) }
  ELSE {pack}

\* the facts read back: by id a node's description, and its packs as sets
described(F, id) == { f[3] : f \in { x \in F : x[1] = "node" /\ x[2] = id } }
below(F, id) == { f[3] : f \in { x \in F : x[1] = "edge" /\ x[2] = id } }
packs_read(F, id) ==
  LET amb == { k \in below(F, id) : <<>> \in described(F, k) }
      Kids(i) == UNION { described(F, k) : k \in below(F, i) }
  IN IF amb # {} THEN { Kids(k) : k \in amb } ELSE IF below(F, id) = {} THEN {} ELSE {Kids(id)}


=============================================================================
