------------------------------- MODULE Storage -------------------------------
(****************************************************************************)
(* The files TML maps into memory: class memory_map and its allocator       *)
(* (memory_map.h), the inputs that are read through a map (input.h,         *)
(* input.cpp) and the vector of BDD nodes, which --bdd-mmap and             *)
(* --bdd-max-size ask to keep in one and which gc copies through a mapped   *)
(* vector (bdd.cpp).                                                        *)
(*                                                                          *)
(* The operating system is one record s: the sizes of the files, which      *)
(* objects hold an open descriptor and a live mapping, what no object holds *)
(* any more but was never released, and the members of every memory_map     *)
(* object.  A call is an operator from s to the s it leaves; `fails` is the *)
(* set of system calls that fail inside it.  A pointer is the name of the   *)
(* object whose mapping it points into.                                     *)
(****************************************************************************)
EXTENDS Naturals, Sequences, FiniteSets, SequencesExt

CONSTANTS
    Inputs,         \* input objects
    Paths,          \* names of files that may be given as inputs
    Sizes,          \* sizes a file may have; 0 is an empty file
    MaxNodes,       \* the values --bdd-max-size may leave in max_bdd_nodes
    StoreBound,     \* bound: nodes the store may hold
    NoPath,         \* no name at all
    Absent,         \* the size of a file that is not there
    v1, v1next      \* the memory_map objects of gc's vector, its first and its
                    \* next, by turns, and the files tmpfile() makes for them

Null == "null"  \* pointers to nothing and to what the default allocator gave
Heap == "heap"

ASSUME StorageAssumption ==
    /\ MaxNodes \subseteq Nat \ {0, 1} /\ StoreBound \in Nat
    /\ Sizes \subseteq Nat /\ Absent \notin Nat
    /\ Paths \cap {v1, v1next, NoPath} = {} /\ Inputs \cap {v1, v1next, Null, Heap} = {}
    /\ {v1, v1next} \cap {NoPath, Null, Heap} = {} /\ v1 # v1next

Modes   == {"NONE", "READ", "WRITE"}
Objects == Inputs \cup {v1, v1next}
Files   == Paths \cup {v1, v1next}
Calls   == {"open", "fill", "mmap", "msync"}

VARIABLES
    s,          \* the operating system and the memory_map objects
    inputs,     \* the inputs read_inputs made and has not dropped
    mmap_mode,  \* bdd_mmap_mode
    max_nodes,  \* max_bdd_nodes
    V,          \* the nodes: a sequence of the order in which they were made
    copy,       \* gc's vector: its pointer, its capacity and what is in it
    kept,       \* the positions of V that gc keeps
    pc,         \* where bdd::gc is: "idle", "push", or "lost" for good
    failed      \* history: the system calls that have failed so far
vars == <<s, inputs, mmap_mode, max_nodes, V, copy, kept, pc, failed>>

(****************************************************************************)
(* memory_map                                                               *)
(****************************************************************************)
Closed == [mode |-> "NONE", state |-> "CLOSED", file |-> NoPath, size |-> 0,
           temporary |-> FALSE, error |-> FALSE]

err(t, o)  == [t EXCEPT !.map[o].error = TRUE]
data(t, o) == t.map[o].state = "MAPPED"        \* data() is not null

file_exists(t, o) == t.map[o].file # NoPath /\ t.files[t.map[o].file] # Absent

\* create: a temporary file, or the named one made now, filled to its size.
\* Nothing of what goes wrong here is handed on to open.
create(t, o, fails) ==
    LET temp == t.map[o].file = NoPath
        name == IF temp THEN o ELSE t.map[o].file
        made == [t EXCEPT !.map[o].file = name, !.map[o].temporary = temp,
                          !.files[name] = 0, !.fds = @ \cup {o}]
    IN  IF "open" \in fails THEN err(t, o)
        ELSE IF "fill" \in fails THEN err(made, o)
        ELSE [made EXCEPT !.files[name] = t.map[o].size]

\* A file that is written to gets the size asked for, if one was asked for.
truncate(t, o) ==
    IF t.map[o].size # 0 THEN [t EXCEPT !.files[t.map[o].file] = t.map[o].size] ELSE t

\* Refused, it leaves the descriptor open in an object that stays closed.  Only
\* a named file that is there is truncated, which no use in this module has.
truncate_fails(t, o, fails) ==
    "truncate" \in fails /\ t.map[o].size \notin {0, t.files[t.map[o].file]}

\* The size is detected when none was given.
opened(t, o) ==
    LET name == t.map[o].file
        known == name # NoPath /\ t.files[name] # Absent
    IN  [t EXCEPT !.map[o].state = "UNMAPPED",
                  !.map[o].size = IF @ # 0 THEN @ ELSE IF known THEN t.files[name] ELSE 0]

open(t, o, fails) ==
    LET m == t.map[o]
        fd == [t EXCEPT !.fds = @ \cup {o}]
    IN  IF m.mode = "NONE" \/ m.state # "CLOSED" THEN err(t, o)
        ELSE IF m.mode = "WRITE" /\ ~file_exists(t, o) THEN opened(create(t, o, fails), o)
        ELSE IF "open" \in fails \/ ~file_exists(t, o) THEN err(t, o)
        ELSE IF m.mode = "WRITE" /\ truncate_fails(t, o, fails) THEN err(fd, o)
        ELSE opened(IF m.mode = "WRITE" THEN truncate(fd, o) ELSE fd, o)

\* Mutant: the pointer is taken for good without looking at it.
map_unchecked(t, o, fails) ==
    IF t.map[o].state # "UNMAPPED" THEN err(t, o)
    ELSE [t EXCEPT !.map[o].state = "MAPPED"]

\* mmap refuses an empty range and a descriptor that is not open.
map(t, o, fails) ==
    IF t.map[o].state # "UNMAPPED" THEN err(t, o)
    ELSE IF "mmap" \in fails \/ t.map[o].size = 0 \/ o \notin t.fds THEN err(t, o)
    ELSE [t EXCEPT !.map[o].state = "MAPPED", !.mapped = @ \cup {<<o, t.map[o].file>>}]

\* Not unmapped when it cannot be written back.  munmap is given the range that
\* mmap returned, which the system does not refuse.
unmap(t, o, fails) ==
    IF t.map[o].state # "MAPPED" \/ "msync" \in fails THEN err(t, o)
    ELSE [t EXCEPT !.map[o].state = "UNMAPPED", !.mapped = @ \ {<<o, t.map[o].file>>}]

unlink(t, o) ==
    IF t.map[o].state # "CLOSED" THEN err(t, o)
    ELSE [t EXCEPT !.files[t.map[o].file] = Absent]

\* Mutant: an object that was opened but never mapped is not closed.
close_mapped_only(t, o, fails) ==
    IF t.map[o].state # "MAPPED" THEN t
    ELSE [unmap(t, o, fails) EXCEPT !.map[o].state = "CLOSED", !.fds = @ \ {o},
                                    !.files[t.map[o].file] = IF t.map[o].temporary THEN Absent ELSE @]

close(t, o, fails) ==
    LET u == IF t.map[o].state = "MAPPED" THEN unmap(t, o, fails) ELSE t
        c == [u EXCEPT !.map[o].state = "CLOSED", !.fds = @ \ {o}]
    IN  IF t.map[o].state = "CLOSED" THEN t
        ELSE IF u.map[o].state = "MAPPED" THEN u
        ELSE IF t.map[o].temporary THEN unlink([c EXCEPT !.map[o].temporary = FALSE], o)
        ELSE c

\* The constructor opens and maps at once; the destructor closes.
memory_map(t, o, file, size, mode, fails) ==
    LET t0 == [t EXCEPT !.map[o] = [Closed EXCEPT !.file = file, !.size = size, !.mode = mode]]
        t1 == open(t0, o, fails)
    IN  IF mode = "NONE" THEN t0
        ELSE IF t1.map[o].state = "CLOSED" THEN t1 ELSE map(t1, o, fails)

\* What close could not release stays when the object is gone.
destroyed(t, o, fails) ==
    LET c == close(t, o, fails)
        mine == {x \in c.mapped : x[1] = o}
    IN  [c EXCEPT !.map[o] = Closed, !.mapped = @ \ mine, !.fds = @ \ {o},
                  !.leaked = @ \cup mine \cup ({o} \cap c.fds) \X {NoPath}]
------------------------------------------------------------------------------
(****************************************************************************)
(* memory_map_allocator and the vector of nodes                             *)
(****************************************************************************)
\* allocate: a new map each time.  `mm` is assigned after the new map is made,
\* which destroys the one before it: the block the vector still has to read.
allocate(t, o, old, n, fails) ==
    LET u == memory_map(t, o, NoPath, n, "WRITE", fails)
    IN  IF old \in Objects THEN destroyed(u, old, fails) ELSE u

pointer(t, o) == IF data(t, o) THEN o ELSE Null

StorageInit ==
    /\ \E sizes \in [Paths -> Sizes \cup {Absent}] :
          s = [files |-> [p \in Files |-> IF p \in Paths THEN sizes[p] ELSE Absent],
               fds |-> {}, mapped |-> {}, leaked |-> {}, map |-> [o \in Objects |-> Closed]]
    /\ inputs = {} /\ failed = {}
    /\ mmap_mode \in {"NONE", "WRITE"}
    /\ max_nodes \in MaxNodes
    /\ V = <<1, 2>>                          \* the two leaves
    /\ copy = [at |-> Null, cap |-> 0, nodes |-> <<>>]
    /\ kept = {} /\ pc = "idle"

\* An input given as a file is mapped as it is constructed; when that fails the
\* constructor throws, and what it had opened is closed with it.
AddInput(i, p, fails) ==
    LET t == memory_map(s, i, p, 0, "READ", fails)
    IN  /\ pc = "idle" /\ i \notin inputs
        /\ s' = IF t.map[i].error THEN destroyed(t, i, fails) ELSE t
        /\ inputs' = IF t.map[i].error THEN inputs ELSE inputs \cup {i}
        /\ failed' = failed \cup fails
        /\ UNCHANGED <<mmap_mode, max_nodes, V, copy, kept, pc>>

\* The chain of inputs goes with its owner.
DropInput(i, fails) ==
    /\ pc = "idle" /\ i \in inputs
    /\ s' = destroyed(s, i, fails)
    /\ inputs' = inputs \ {i}
    /\ failed' = failed \cup fails
    /\ UNCHANGED <<mmap_mode, max_nodes, V, copy, kept, pc>>

\* bdd::add appends a node.  V's allocator is the default one: the assignment
\* in bdd::init does not propagate the allocator of the vector it moves from,
\* so V lives on the heap in both modes; and nothing asks max_bdd_size_check.
AddNode ==
    /\ pc = "idle" /\ Len(V) < StoreBound
    /\ V' = Append(V, CHOOSE n \in 1..StoreBound : n \notin ToSet(V))
    /\ UNCHANGED <<s, inputs, mmap_mode, max_nodes, copy, kept, pc, failed>>

\* Mutant: room for the nodes but not for the two leaves.
reserved_inner(keep) == IF mmap_mode = "NONE" THEN Cardinality(keep) ELSE max_nodes - 1

\* gc reserves room for what it keeps, or for the most the store may have.
reserved(keep) == IF mmap_mode = "NONE" THEN Cardinality(keep) ELSE max_nodes

GcReserve(keep, fails) ==
    LET t == allocate(s, v1, Null, reserved(keep), fails)
    IN  /\ pc = "idle"
        /\ kept' = keep
        /\ IF mmap_mode = "NONE" THEN s' = s /\ fails = {} ELSE s' = t
        /\ copy' = [at |-> IF mmap_mode = "NONE" THEN Heap ELSE pointer(t, v1),
                    cap |-> reserved(keep), nodes |-> <<>>]
        /\ pc' = "push"
        /\ failed' = failed \cup fails
        /\ UNCHANGED <<inputs, mmap_mode, max_nodes, V>>

\* What gc keeps of V, in V's order.
kept_of(nodes, keep) == LET in_kept(n) == n \in {nodes[i] : i \in keep} IN SelectSeq(nodes, in_kept)
survivors == kept_of(V, kept)

\* May n nodes be written at this pointer?  A map over a file that was never
\* filled has no pages behind it.
writable(t, at, n) == \/ at = Heap
                      \/ \E f \in Files : /\ <<at, f>> \in t.mapped \cup t.leaked
                                         /\ t.files[f] # Absent /\ t.files[f] >= n

unfinished == pc = "push" /\ Len(copy.nodes) < Cardinality(kept)

\* emplace_back within the room there is.
GcPush ==
    LET n == Len(copy.nodes) + 1
    IN  /\ unfinished /\ n <= copy.cap
        /\ IF writable(s, copy.at, n)
           THEN copy' = [copy EXCEPT !.nodes = Append(@, survivors[n])] /\ pc' = pc
           ELSE copy' = copy /\ pc' = "lost"
        /\ UNCHANGED <<s, inputs, mmap_mode, max_nodes, V, kept, failed>>

\* emplace_back past it: the vector asks for twice the room, moves what it has
\* out of the old block, which is gone unless it could not be written back, and
\* deallocates that block; `mm`, which deallocate closes, is the new map by then.
GcGrow(fails, closing) ==
    LET o == IF copy.at = v1 THEN v1next ELSE v1
        t == allocate(s, o, copy.at, 2 * copy.cap, fails)
    IN  /\ unfinished /\ Len(copy.nodes) = copy.cap
        /\ copy' = [copy EXCEPT !.at = pointer(t, o), !.cap = 2 * @]
        /\ IF writable(t, copy.at, copy.cap)
           THEN s' = close(t, o, closing) /\ failed' = failed \cup fails \cup closing /\ pc' = pc
           ELSE s' = t /\ failed' = failed \cup fails /\ closing = {} /\ pc' = "lost"
        /\ UNCHANGED <<inputs, mmap_mode, max_nodes, V, kept>>

\* V = move(v1), node by node since the allocators differ; then ~v1, which
\* deallocates and destroys its allocator.
GcMove(fails) ==
    /\ pc = "push" /\ ~unfinished
    /\ V' = copy.nodes
    /\ s' = IF copy.at = Heap THEN s ELSE destroyed(s, copy.at, fails)
    /\ failed' = failed \cup fails
    /\ copy' = [at |-> Null, cap |-> 0, nodes |-> <<>>]
    /\ kept' = {} /\ pc' = "idle"
    /\ UNCHANGED <<inputs, mmap_mode, max_nodes>>

\* Touching memory that is not there ends the program.
Lost == pc = "lost" /\ UNCHANGED vars

StorageNext ==
    \/ \E i \in Inputs, p \in Paths, fails \in SUBSET {"open", "mmap"} : AddInput(i, p, fails)
    \/ \E i \in Inputs, fails \in SUBSET {"msync"} : DropInput(i, fails)
    \/ AddNode
    \/ \E keep \in SUBSET (1..Len(V)), fails \in SUBSET {"open", "fill", "mmap"} :
          {1, 2} \subseteq keep /\ GcReserve(keep, fails)
    \/ GcPush
    \/ \E fails \in SUBSET Calls, closing \in SUBSET {"msync"} : GcGrow(fails, closing)
    \/ \E fails \in SUBSET {"msync"} : GcMove(fails)
    \/ Lost

(****************************************************************************)
(* Properties                                                               *)
(****************************************************************************)
\* An input that was made shows the whole of its file, as it was when it was
\* opened, until it is dropped (input(f), memory_map(f)).
InputsWhole ==
    \A i \in inputs : /\ data(s, i) /\ <<i, s.map[i].file>> \in s.mapped
                      /\ s.map[i].size = s.files[s.map[i].file]

\* Nothing is left behind: a mapping, a descriptor or the temporary file is
\* there only while an input or a collection uses it, whatever calls failed on
\* the way, short of the write-back without which close gives up.
NothingLeft ==
    "msync" \notin failed =>
        LET users == inputs \cup (IF pc = "idle" THEN {} ELSE {v1, v1next})
        IN  /\ s.mapped \subseteq users \X Files /\ s.fds \subseteq users
            /\ s.leaked = {}
            /\ pc = "idle" => s.files[v1] = Absent /\ s.files[v1next] = Absent

\* A collection that loses its nodes has been refused something by the system,
\* or keeps more than --bdd-max-size allows: within the limit the vector it
\* copies through never has to grow, and the copy is what gc meant to keep.
CollectionSafe ==
    /\ pc = "lost" => failed # {} \/ Cardinality(kept) > max_nodes
    /\ pc = "push" => copy.nodes = SubSeq(survivors, 1, Len(copy.nodes))

StorageSpec == StorageInit /\ [][StorageNext]_vars
==============================================================================
