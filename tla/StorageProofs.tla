---------------------------- MODULE StorageProofs ----------------------------
(***************************************************************************)
(* What the mapped files guarantee for any number of inputs, any files, any *)
(* limit on the store and whatever system calls fail.                       *)
(***************************************************************************)
EXTENDS Storage, FiniteSetTheorems, SequenceTheorems, TLAPS

----------------------------------------------------------------------------
(* The inductive invariant. *)

Vectors == {v1, v1next}
Names   == Files \cup {NoPath}

MapRec == [mode : Modes, state : {"CLOSED", "UNMAPPED", "MAPPED"}, file : Names,
           size : Nat, temporary : BOOLEAN, error : BOOLEAN]

OS == [files : [Files -> Nat \cup {Absent}], fds : SUBSET Objects,
       mapped : SUBSET (Objects \X Names), leaked : SUBSET (Objects \X Names),
       map : [Objects -> MapRec]]

\* Only a temporary file is ever removed, and it has its object's name.
OwnFile(t, o) == t.map[o].temporary => o \in Vectors /\ t.map[o].file = o

Whole(t, i) == /\ t.map[i].file \in Paths /\ ~t.map[i].temporary
               /\ data(t, i) /\ <<i, t.map[i].file>> \in t.mapped
               /\ t.map[i].size = t.files[t.map[i].file]

OSInv ==
  /\ s \in OS
  /\ inputs \subseteq Inputs
  /\ \A o \in Objects : OwnFile(s, o)
  /\ \A i \in inputs : Whole(s, i)

StoreInv ==
  /\ max_nodes \in Nat \ {0, 1}
  /\ Len(V) \in Nat /\ V = SubSeq(V, 1, Len(V))
  /\ pc \in {"idle", "push", "lost"}

\* gc's vector holds the first of the nodes to keep, and has room for more
\* where it has no pointer.
CopyInv ==
  /\ pc # "idle" => IsFiniteSet(kept) /\ Cardinality(kept) \in Nat \ {0}
  /\ pc = "push" =>
       /\ copy \in [at : {v1, v1next, Null, Heap}, cap : Nat \ {0}, nodes : {copy.nodes}]
       /\ Len(copy.nodes) \in 0 .. copy.cap
       /\ copy.nodes = SubSeq(survivors, 1, Len(copy.nodes))
       /\ copy.at = Heap => copy.cap = Cardinality(kept)
       /\ copy.at = Null => unfinished /\ Len(copy.nodes) < copy.cap

\* While every write-back succeeds, what an object has is what it says.
Shape(t, o) ==
  /\ \A f \in Names : <<o, f>> \in t.mapped <=> t.map[o].state = "MAPPED" /\ t.map[o].file = f
  /\ t.map[o].state = "MAPPED" => t.map[o].file # NoPath
  /\ o \in t.fds => t.map[o].state # "CLOSED"
  /\ o \in Vectors /\ t.files[o] # Absent =>
       t.map[o].state # "CLOSED" /\ t.map[o].temporary /\ t.map[o].file = o

Shut(t, o) == t.map[o].state = "CLOSED"

ReleasedInv ==
  "msync" \notin failed =>
    /\ s.leaked = {}
    /\ \A o \in Objects : Shape(s, o)
    /\ \A i \in Inputs \ inputs : Shut(s, i)
    /\ pc = "idle" => Shut(s, v1) /\ Shut(s, v1next)
    /\ pc = "push" => Shut(s, v1next) /\ copy.at # v1next /\ (copy.at = Heap => Shut(s, v1))

\* A collection within the limit, of which no call has failed, has its room.
RoomInv ==
  failed = {} /\ pc # "idle" /\ Cardinality(kept) <= max_nodes =>
    /\ pc = "push"
    /\ copy.at = Heap \/ /\ copy.at = v1 /\ copy.cap = max_nodes
                         /\ <<v1, v1>> \in s.mapped /\ s.files[v1] = max_nodes

StorageInv == OSInv /\ StoreInv /\ CopyInv /\ ReleasedInv /\ RoomInv
----------------------------------------------------------------------------
(* What one call may touch. *)

Same(t, u, x) ==
  /\ u.map[x] = t.map[x]
  /\ x \in u.fds <=> x \in t.fds
  /\ \A f \in Names : <<x, f>> \in u.mapped <=> <<x, f>> \in t.mapped

\* A call on an object leaves the other objects, and the files but its own, alone.
Touches(t, u, o) ==
  /\ u \in OS
  /\ \A x \in Objects : x # o => Same(t, u, x)
  /\ \A f \in Files : f # o => u.files[f] = t.files[f]

\* Calls on one object one after the other touch no more than one of them.
LEMMA TouchesOn ==
  ASSUME NEW t, NEW u, NEW w, NEW o, Touches(t, u, o), Touches(u, w, o)
  PROVE  Touches(t, w, o)
BY DEF Touches, Same

\* An object's record is one of memory_map's.
LEMMA MapType ==
  ASSUME NEW t \in OS, NEW o \in Objects
  PROVE  /\ t.map \in [Objects -> MapRec] /\ t.map[o] \in MapRec
         /\ t.files \in [Files -> Nat \cup {Absent}]
         /\ t.fds \in SUBSET Objects
         /\ t.mapped \in SUBSET (Objects \X Names)
         /\ t.leaked \in SUBSET (Objects \X Names)
BY DEF OS

\* A call that only changes its own object's record touches nothing else.
LEMMA OwnRecord ==
  ASSUME NEW t \in OS, NEW o \in Objects, NEW m \in MapRec
  PROVE  LET u == [t EXCEPT !.map[o] = m]
         IN  /\ Touches(t, u, o)
             /\ u.files = t.files /\ u.fds = t.fds /\ u.mapped = t.mapped
             /\ u.leaked = t.leaked /\ u.map[o] = m
BY DEF OS, Touches, Same

\* err notes an error and does no more.
LEMMA Erring ==
  ASSUME NEW t \in OS, NEW o \in Objects
  PROVE  /\ Touches(t, err(t, o), o)
         /\ err(t, o).files = t.files /\ err(t, o).fds = t.fds
         /\ err(t, o).mapped = t.mapped /\ err(t, o).leaked = t.leaked
         /\ err(t, o).map[o] = [t.map[o] EXCEPT !.error = TRUE]
<1> DEFINE m == [t.map[o] EXCEPT !.error = TRUE]
<1>1. m \in MapRec
  BY MapType DEF MapRec
<1>2. err(t, o) = [t EXCEPT !.map[o] = m]
  BY DEF err, OS
<1> HIDE DEF m
<1>3. /\ Touches(t, err(t, o), o)
      /\ err(t, o).files = t.files /\ err(t, o).fds = t.fds
      /\ err(t, o).mapped = t.mapped /\ err(t, o).leaked = t.leaked
      /\ err(t, o).map[o] = m
  BY <1>1, <1>2, OwnRecord
<1> QED BY <1>3 DEF m

\* open leaves the object unmapped, with the size it was given or the file has.
LEMMA Opening ==
  ASSUME NEW t \in OS, NEW o \in Objects
  PROVE  LET u == opened(t, o)
         IN  /\ Touches(t, u, o)
             /\ u.files = t.files /\ u.fds = t.fds
             /\ u.mapped = t.mapped /\ u.leaked = t.leaked
             /\ u.map[o].state = "UNMAPPED" /\ u.map[o].mode = t.map[o].mode
             /\ u.map[o].file = t.map[o].file /\ u.map[o].temporary = t.map[o].temporary
             /\ u.map[o].error = t.map[o].error
             /\ t.map[o].size # 0 => u.map[o].size = t.map[o].size
             /\ t.map[o].size = 0 /\ t.map[o].file # NoPath
                  /\ t.files[t.map[o].file] # Absent => u.map[o].size = t.files[t.map[o].file]
<1> DEFINE name == t.map[o].file
           known == name # NoPath /\ t.files[name] # Absent
           sz == IF t.map[o].size # 0 THEN t.map[o].size
                 ELSE IF known THEN t.files[name] ELSE 0
           m == [t.map[o] EXCEPT !.state = "UNMAPPED", !.size = sz]
<1>1. t.map[o] \in MapRec /\ t.files \in [Files -> Nat \cup {Absent}]
  BY MapType
<1>2. sz \in Nat
  BY <1>1 DEF MapRec, Names
<1>3. m \in MapRec
  <2> HIDE DEF sz
  <2> QED BY <1>1, <1>2 DEF MapRec
<1>4. opened(t, o) = [t EXCEPT !.map[o] = m]
  BY <1>1 DEF opened, OS, MapRec
<1>5. /\ m.state = "UNMAPPED" /\ m.mode = t.map[o].mode
      /\ m.file = name /\ m.temporary = t.map[o].temporary
      /\ m.error = t.map[o].error /\ m.size = sz
  <2> HIDE DEF sz
  <2> QED BY <1>1 DEF MapRec
<1> HIDE DEF m
<1>6. /\ Touches(t, opened(t, o), o)
      /\ opened(t, o).files = t.files /\ opened(t, o).fds = t.fds
      /\ opened(t, o).mapped = t.mapped /\ opened(t, o).leaked = t.leaked
      /\ opened(t, o).map[o] = m
  BY <1>3, <1>4, OwnRecord
<1> QED BY <1>5, <1>6

\* A map that was opened is mapped, when it has an extent and a descriptor and
\* the system agrees, or else stays as it is, with an error.
LEMMA Mapping ==
  ASSUME NEW t \in OS, NEW o \in Objects, t.map[o].state = "UNMAPPED", NEW fails
  PROVE  LET u == map(t, o, fails)
             bad == "mmap" \in fails \/ t.map[o].size = 0 \/ o \notin t.fds
         IN  /\ Touches(t, u, o)
             /\ u.files = t.files /\ u.fds = t.fds /\ u.leaked = t.leaked
             /\ u.map[o].mode = t.map[o].mode /\ u.map[o].file = t.map[o].file
             /\ u.map[o].size = t.map[o].size /\ u.map[o].temporary = t.map[o].temporary
             /\ bad => u.mapped = t.mapped /\ u.map[o].state = "UNMAPPED" /\ u.map[o].error
             /\ ~bad => /\ u.mapped = t.mapped \cup {<<o, t.map[o].file>>}
                        /\ u.map[o].state = "MAPPED"
                        /\ u.map[o].error = t.map[o].error
<1> DEFINE bad == "mmap" \in fails \/ t.map[o].size = 0 \/ o \notin t.fds
           m == [t.map[o] EXCEPT !.state = "MAPPED"]
           more == t.mapped \cup {<<o, t.map[o].file>>}
           w == [t EXCEPT !.mapped = more]
<1>1. t.map[o] \in MapRec
  BY MapType
<1>2. CASE bad
  <2>1. map(t, o, fails) = err(t, o)
    BY <1>2 DEF map
  <2>2. /\ Touches(t, err(t, o), o)
        /\ err(t, o).files = t.files /\ err(t, o).fds = t.fds
        /\ err(t, o).mapped = t.mapped /\ err(t, o).leaked = t.leaked
        /\ err(t, o).map[o] = [t.map[o] EXCEPT !.error = TRUE]
    BY Erring
  <2> QED BY <1>1, <1>2, <2>1, <2>2 DEF MapRec
<1>3. CASE ~bad
  <2>1. map(t, o, fails) = [w EXCEPT !.map[o] = m]
    BY <1>3 DEF map, OS
  <2>2. more \in SUBSET (Objects \X Names)
    BY <1>1, MapType DEF MapRec
  <2>3. m \in MapRec
    BY <1>1 DEF MapRec
  <2>4. /\ m.state = "MAPPED" /\ m.mode = t.map[o].mode
        /\ m.file = t.map[o].file /\ m.temporary = t.map[o].temporary
        /\ m.error = t.map[o].error /\ m.size = t.map[o].size
    BY <1>1 DEF MapRec
  <2>5. \A x \in Objects, f \in Names : x # o => (<<x, f>> \in more <=> <<x, f>> \in t.mapped)
    OBVIOUS
  <2>6. w \in OS
    <3> HIDE DEF more
    <3> QED BY <2>2 DEF OS
  <2>7. /\ w.map = t.map /\ w.files = t.files /\ w.fds = t.fds
        /\ w.leaked = t.leaked /\ w.mapped = more
    BY DEF OS
  <2>8. Touches(t, w, o)
    <3> HIDE DEF w, more
    <3> QED BY <2>5, <2>6, <2>7 DEF Touches, Same
  <2> DEFINE u == [w EXCEPT !.map[o] = m]
  <2> HIDE DEF w, m, more
  <2>9. Touches(w, u, o) /\ u.files = w.files /\ u.fds = w.fds /\ u.mapped = w.mapped
        /\ u.leaked = w.leaked /\ u.map[o] = m
    BY <2>3, <2>6, OwnRecord
  <2> HIDE DEF u
  <2>10. Touches(t, u, o)
    BY <2>8, <2>9, TouchesOn
  <2>11. u = map(t, o, fails)
    BY <2>1 DEF u
  <2> QED BY <1>3, <2>4, <2>7, <2>9, <2>10, <2>11 DEF more
<1> QED BY <1>2, <1>3

\* A descriptor for an object touches nothing else.
LEMMA Describing ==
  ASSUME NEW t \in OS, NEW o \in Objects
  PROVE  LET u == [t EXCEPT !.fds = @ \cup {o}]
         IN  /\ Touches(t, u, o)
             /\ u.files = t.files /\ u.mapped = t.mapped /\ u.leaked = t.leaked
             /\ u.map = t.map /\ u.fds = t.fds \cup {o}
<1> DEFINE more == t.fds \cup {o}
           u == [t EXCEPT !.fds = more]
<1>1. more \in SUBSET Objects /\ \A x \in Objects : x # o => (x \in more <=> x \in t.fds)
  BY MapType
<1> HIDE DEF more
<1>2. u \in OS
  BY <1>1 DEF OS
<1>3. /\ u.files = t.files /\ u.mapped = t.mapped /\ u.leaked = t.leaked
      /\ u.map = t.map /\ u.fds = more
  BY DEF OS
<1>4. Touches(t, u, o)
  <2> HIDE DEF u
  <2> QED BY <1>1, <1>2, <1>3 DEF Touches, Same
<1>5. u = [t EXCEPT !.fds = @ \cup {o}]
  BY DEF more, OS
<1> QED BY <1>3, <1>4, <1>5 DEF more

\* A file map that is constructed for reading has no error only if it shows
\* the whole of its file.
LEMMA ReadMap ==
  ASSUME NEW t \in OS, NEW i \in Inputs, NEW p \in Paths, NEW fails
  PROVE  LET u == memory_map(t, i, p, 0, "READ", fails)
         IN  /\ Touches(t, u, i)
             /\ u.files = t.files /\ u.leaked = t.leaked
             /\ u.map[i].file = p /\ ~u.map[i].temporary
             /\ ~u.map[i].error => Whole(u, i)
             /\ Shape(t, i) /\ Shut(t, i) => Shape(u, i)
<1> DEFINE m0 == [Closed EXCEPT !.file = p, !.size = 0, !.mode = "READ"]
           t0 == [t EXCEPT !.map[i] = m0]
           t1 == open(t0, i, fails)
           u == memory_map(t, i, p, 0, "READ", fails)
<1>0. i \in Objects /\ p \in Files /\ p \in Names /\ p # NoPath
  BY StorageAssumption DEF Objects, Files, Names
<1>1. /\ m0 \in MapRec
      /\ m0.mode = "READ" /\ m0.state = "CLOSED" /\ m0.file = p /\ m0.size = 0
      /\ m0.temporary = FALSE /\ m0.error = FALSE
  BY <1>0 DEF MapRec, Closed, Modes
<1>2. /\ Touches(t, t0, i)
      /\ t0.files = t.files /\ t0.fds = t.fds /\ t0.mapped = t.mapped
      /\ t0.leaked = t.leaked /\ t0.map[i] = m0
  <2> HIDE DEF m0
  <2> QED BY <1>0, <1>1, OwnRecord
<1>3. t0 \in OS
  BY <1>2 DEF Touches
<1>4. u = IF t1.map[i].state = "CLOSED" THEN t1 ELSE map(t1, i, fails)
  BY DEF memory_map
<1>5. file_exists(t0, i) <=> t.files[p] # Absent
  <2> HIDE DEF t0, m0
  <2> QED BY <1>0, <1>1, <1>2 DEF file_exists
<1> HIDE DEF t0, m0
<1>6. CASE "open" \in fails \/ t.files[p] = Absent
  <2>1. t1 = err(t0, i)
    BY <1>1, <1>2, <1>5, <1>6 DEF open
  <2>2. /\ Touches(t0, t1, i)
        /\ t1.files = t0.files /\ t1.fds = t0.fds
        /\ t1.mapped = t0.mapped /\ t1.leaked = t0.leaked
        /\ t1.map[i] = [m0 EXCEPT !.error = TRUE]
    BY <1>0, <1>2, <1>3, <2>1, Erring
  <2>3. t1.map[i].state = "CLOSED" /\ t1.map[i].error = TRUE /\ t1.map[i].file = p
        /\ t1.map[i].temporary = FALSE
    BY <1>1, <2>2 DEF MapRec
  <2>4. u = t1
    BY <1>4, <2>3
  <2>5. Touches(t, u, i)
    BY <1>2, <2>2, <2>4, TouchesOn
  <2>6. Shape(t, i) /\ Shut(t, i) => Shape(u, i)
    <3> HIDE DEF u, t1
    <3> QED BY <1>2, <2>2, <2>3, <2>4, StorageAssumption DEF Shape, Shut, Vectors
  <2> QED BY <1>2, <2>2, <2>3, <2>4, <2>5, <2>6
<1>7. CASE ~("open" \in fails \/ t.files[p] = Absent)
  <2> DEFINE d == [t0 EXCEPT !.fds = @ \cup {i}]
  <2>1. /\ Touches(t0, d, i) /\ d \in OS
        /\ d.files = t0.files /\ d.mapped = t0.mapped /\ d.leaked = t0.leaked
        /\ d.map = t0.map /\ d.fds = t0.fds \cup {i}
    BY <1>0, <1>3, Describing DEF Touches
  <2>2. t1 = opened(d, i)
    BY <1>1, <1>2, <1>5, <1>7 DEF open
  <2> HIDE DEF d
  <2>3. /\ Touches(d, t1, i)
        /\ t1.files = d.files /\ t1.fds = d.fds
        /\ t1.mapped = d.mapped /\ t1.leaked = d.leaked
        /\ t1.map[i].state = "UNMAPPED"
        /\ t1.map[i].file = d.map[i].file /\ t1.map[i].temporary = d.map[i].temporary
        /\ t1.map[i].error = d.map[i].error
        /\ d.map[i].size = 0 /\ d.map[i].file # NoPath
             /\ d.files[d.map[i].file] # Absent => t1.map[i].size = d.files[d.map[i].file]
    BY <1>0, <2>1, <2>2, Opening
  <2>4. u = map(t1, i, fails)
    BY <1>4, <2>3
  <2> HIDE DEF t1, u
  <2>5. t1 \in OS
    BY <2>3 DEF Touches
  <2>6. /\ Touches(t1, u, i)
        /\ u.files = t1.files /\ u.fds = t1.fds /\ u.leaked = t1.leaked
        /\ u.map[i].file = t1.map[i].file
        /\ u.map[i].size = t1.map[i].size /\ u.map[i].temporary = t1.map[i].temporary
        /\ \/ u.mapped = t1.mapped /\ u.map[i].state = "UNMAPPED" /\ u.map[i].error
           \/ /\ u.mapped = t1.mapped \cup {<<i, t1.map[i].file>>}
              /\ u.map[i].state = "MAPPED"
    BY <1>0, <2>3, <2>4, <2>5, Mapping
  <2>7. Touches(t, u, i)
    BY <1>2, <2>1, <2>3, <2>6, TouchesOn
  <2>8. /\ u.files = t.files /\ u.leaked = t.leaked /\ u.map[i].file = p
        /\ ~u.map[i].temporary /\ u.map[i].size = t.files[p]
    BY <1>0, <1>1, <1>2, <1>7, <2>1, <2>3, <2>6
  <2>9. ~u.map[i].error => Whole(u, i)
    BY <1>0, <2>6, <2>8, <2>3, <2>1, <1>2, <1>1 DEF Whole, data
  <2>10. Shape(t, i) /\ Shut(t, i) => Shape(u, i)
    <3> SUFFICES ASSUME Shape(t, i), Shut(t, i) PROVE Shape(u, i)
      OBVIOUS
    <3>1. \A f \in Names : <<i, f>> \notin t1.mapped
      BY <1>2, <2>1, <2>3 DEF Shape, Shut
    <3>2. \A f \in Names : <<i, f>> \in u.mapped <=> u.map[i].state = "MAPPED" /\ u.map[i].file = f
      BY <3>1, <2>6
    <3> QED BY <1>0, <3>2, <2>6, <2>8, StorageAssumption DEF Shape, Vectors
  <2> QED BY <2>7, <2>8, <2>9, <2>10 DEF u
<1> QED BY <1>6, <1>7

\* A file that is written touches nothing else.
LEMMA Filling ==
  ASSUME NEW t \in OS, NEW v \in Vectors, NEW n \in Nat
  PROVE  LET u == [t EXCEPT !.files[v] = n]
         IN  /\ Touches(t, u, v)
             /\ u.fds = t.fds /\ u.mapped = t.mapped /\ u.leaked = t.leaked
             /\ u.map = t.map /\ u.files[v] = n
<1>1. v \in Files /\ v \in Objects
  BY DEF Vectors, Files, Objects
<1> QED BY <1>1 DEF OS, Touches, Same

\* create that cannot open makes nothing.
LEMMA NotCreating ==
  ASSUME NEW t \in OS, NEW v \in Vectors, t.map[v].file = NoPath, NEW fails, "open" \in fails
  PROVE  LET u == create(t, v, fails)
         IN  /\ Touches(t, u, v)
             /\ u.leaked = t.leaked /\ u.mapped = t.mapped
             /\ u.files = t.files /\ u.fds = t.fds
             /\ u.map[v].size = t.map[v].size
             /\ u.map[v].file = NoPath /\ u.map[v].temporary = t.map[v].temporary
<1>1. v \in Objects
  BY DEF Vectors, Objects
<1>2. t.map[v] \in MapRec
  BY <1>1, MapType
<1>3. create(t, v, fails) = err(t, v)
  BY DEF create
<1>4. /\ Touches(t, err(t, v), v)
      /\ err(t, v).files = t.files /\ err(t, v).fds = t.fds
      /\ err(t, v).mapped = t.mapped /\ err(t, v).leaked = t.leaked
      /\ err(t, v).map[v] = [t.map[v] EXCEPT !.error = TRUE]
  BY <1>1, Erring
<1> QED BY <1>2, <1>3, <1>4 DEF MapRec

\* create makes a temporary file of the object's name.
LEMMA Creating ==
  ASSUME NEW t \in OS, NEW v \in Vectors, t.map[v].file = NoPath, NEW fails, "open" \notin fails
  PROVE  LET u == create(t, v, fails)
         IN  /\ Touches(t, u, v)
             /\ u.leaked = t.leaked /\ u.mapped = t.mapped
             /\ v \in u.fds
             /\ u.map[v].size = t.map[v].size
             /\ u.map[v].file = v /\ u.map[v].temporary
             /\ u.files[v] # Absent
             /\ "fill" \notin fails => u.files[v] = t.map[v].size
<1> DEFINE u == create(t, v, fails)
<1>1. v \in Objects /\ v \in Files /\ v \in Names
  BY DEF Vectors, Objects, Files, Names
<1>2. t.map[v] \in MapRec
  BY <1>1, MapType
<1> QED
  <2> DEFINE m == [t.map[v] EXCEPT !.file = v, !.temporary = TRUE]
             a == [t EXCEPT !.map[v] = m]
             b == [a EXCEPT !.files[v] = 0]
             made == [b EXCEPT !.fds = @ \cup {v}]
  <2>1. m \in MapRec /\ m.file = v /\ m.temporary = TRUE /\ m.size = t.map[v].size
    BY <1>1, <1>2 DEF MapRec
  <2> HIDE DEF m
  <2>2. /\ Touches(t, a, v) /\ a \in OS
        /\ a.files = t.files /\ a.fds = t.fds /\ a.mapped = t.mapped
        /\ a.leaked = t.leaked /\ a.map[v] = m
    BY <1>1, <2>1, OwnRecord DEF Touches
  <2>3. made = [t EXCEPT !.map[v].file = v, !.map[v].temporary = (t.map[v].file = NoPath),
                         !.files[v] = 0, !.fds = @ \cup {v}]
    <3>1. (t.map[v].file = NoPath) = TRUE
      OBVIOUS
    <3>2. made = [t EXCEPT !.map[v].file = v, !.map[v].temporary = TRUE,
                           !.files[v] = 0, !.fds = @ \cup {v}]
      BY DEF m, OS
    <3> QED BY <3>1, <3>2
  <2> HIDE DEF a
  <2>4. /\ Touches(a, b, v) /\ b \in OS
        /\ b.fds = a.fds /\ b.mapped = a.mapped /\ b.leaked = a.leaked
        /\ b.map = a.map /\ b.files[v] = 0
    BY <2>2, Filling DEF Touches
  <2> HIDE DEF b
  <2>5. /\ Touches(b, made, v) /\ made \in OS
        /\ made.files = b.files /\ made.mapped = b.mapped /\ made.leaked = b.leaked
        /\ made.map = b.map /\ made.fds = b.fds \cup {v}
    BY <1>1, <2>4, Describing DEF Touches
  <2> HIDE DEF made
  <2>6. /\ Touches(t, made, v)
        /\ made.mapped = t.mapped /\ made.leaked = t.leaked
        /\ made.map[v] = m /\ made.fds = t.fds \cup {v} /\ made.files[v] = 0
    BY <2>2, <2>4, <2>5, TouchesOn
  <2>7. u = IF "fill" \in fails THEN err(made, v)
            ELSE [made EXCEPT !.files[v] = t.map[v].size]
    BY <2>3 DEF create
  <2>8. CASE "fill" \in fails
    <3>1. /\ Touches(made, u, v)
          /\ u.files = made.files /\ u.fds = made.fds
          /\ u.mapped = made.mapped /\ u.leaked = made.leaked
          /\ u.map[v] = [m EXCEPT !.error = TRUE]
      BY <1>1, <2>5, <2>6, <2>7, <2>8, Erring
    <3>2. /\ u.map[v].file = v /\ u.map[v].temporary
          /\ u.map[v].size = t.map[v].size
      BY <2>1, <3>1 DEF MapRec
    <3> QED BY <2>6, <2>8, <3>1, <3>2, TouchesOn, StorageAssumption
  <2>9. CASE "fill" \notin fails
    <3>1. t.map[v].size \in Nat
      BY <1>2 DEF MapRec
    <3>2. /\ Touches(made, u, v)
          /\ u.fds = made.fds /\ u.mapped = made.mapped /\ u.leaked = made.leaked
          /\ u.map = made.map /\ u.files[v] = t.map[v].size
      BY <2>5, <2>7, <2>9, <3>1, Filling
    <3> QED BY <2>1, <2>6, <2>9, <3>1, <3>2, TouchesOn, StorageAssumption
  <2> QED BY <2>8, <2>9

\* A map that is made to be written to, of a temporary file, is of that file or
\* of none, and holds n bytes when no call has failed.
LEMMA WriteMap ==
  ASSUME NEW t \in OS, NEW v \in Vectors, NEW n \in Nat \ {0}, NEW fails
  PROVE  LET u == memory_map(t, v, NoPath, n, "WRITE", fails)
         IN  /\ Touches(t, u, v) /\ u.leaked = t.leaked /\ OwnFile(u, v)
             /\ Shape(t, v) /\ Shut(t, v) => Shape(u, v)
             /\ fails = {} => data(u, v) /\ <<v, v>> \in u.mapped /\ u.files[v] = n
<1> DEFINE m0 == [Closed EXCEPT !.file = NoPath, !.size = n, !.mode = "WRITE"]
           t0 == [t EXCEPT !.map[v] = m0]
           c == create(t0, v, fails)
           t1 == opened(c, v)
           u == memory_map(t, v, NoPath, n, "WRITE", fails)
<1>0. v \in Objects /\ v \in Files /\ v # NoPath
  BY StorageAssumption DEF Vectors, Objects, Files
<1>1. /\ m0 \in MapRec
      /\ m0.mode = "WRITE" /\ m0.state = "CLOSED" /\ m0.file = NoPath /\ m0.size = n
      /\ m0.temporary = FALSE /\ m0.error = FALSE
  BY DEF MapRec, Closed, Modes, Names
<1> HIDE DEF m0
<1>2. /\ Touches(t, t0, v) /\ t0 \in OS
      /\ t0.files = t.files /\ t0.fds = t.fds /\ t0.mapped = t.mapped
      /\ t0.leaked = t.leaked /\ t0.map[v] = m0
  BY <1>0, <1>1, OwnRecord DEF Touches
<1>3. open(t0, v, fails) = t1
  <2> HIDE DEF t0
  <2> QED BY <1>1, <1>2 DEF open, file_exists
<1>4. u = IF t1.map[v].state = "CLOSED" THEN t1 ELSE map(t1, v, fails)
  BY <1>3 DEF memory_map, m0
<1> HIDE DEF t0
<1>5. /\ Touches(t0, c, v) /\ c \in OS
      /\ c.leaked = t0.leaked /\ c.mapped = t0.mapped /\ c.map[v].size = n
      /\ "open" \in fails =>
           /\ c.files = t0.files /\ c.fds = t0.fds
           /\ c.map[v].file = NoPath /\ ~c.map[v].temporary
      /\ "open" \notin fails =>
           /\ v \in c.fds
           /\ c.map[v].file = v /\ c.map[v].temporary
           /\ c.files[v] # Absent
           /\ "fill" \notin fails => c.files[v] = n
  <2>1. t0.map[v].file = NoPath /\ t0.map[v].size = n /\ t0.map[v].temporary = FALSE
    BY <1>1, <1>2
  <2>2. CASE "open" \in fails
    BY <1>2, <2>1, <2>2, NotCreating DEF Touches
  <2>3. CASE "open" \notin fails
    BY <1>2, <2>1, <2>3, Creating DEF Touches
  <2> QED BY <2>2, <2>3
<1> HIDE DEF c
<1>6. /\ Touches(c, t1, v) /\ t1 \in OS
      /\ t1.files = c.files /\ t1.fds = c.fds
      /\ t1.mapped = c.mapped /\ t1.leaked = c.leaked
      /\ t1.map[v].state = "UNMAPPED" /\ t1.map[v].file = c.map[v].file
      /\ t1.map[v].temporary = c.map[v].temporary
      /\ t1.map[v].size = n
  BY <1>0, <1>5, Opening DEF Touches
<1> HIDE DEF t1
<1>7. LET bad == "mmap" \in fails \/ v \notin t1.fds
      IN  /\ Touches(t1, u, v)
          /\ u.files = t1.files /\ u.fds = t1.fds /\ u.leaked = t1.leaked
          /\ u.map[v].file = t1.map[v].file /\ u.map[v].temporary = t1.map[v].temporary
          /\ bad => u.mapped = t1.mapped /\ u.map[v].state = "UNMAPPED"
          /\ ~bad => /\ u.mapped = t1.mapped \cup {<<v, t1.map[v].file>>}
                     /\ u.map[v].state = "MAPPED"
  BY <1>0, <1>4, <1>6, Mapping
<1> HIDE DEF u
<1>8. Touches(t, u, v) /\ u.leaked = t.leaked
  BY <1>2, <1>5, <1>6, <1>7, TouchesOn
<1>9. OwnFile(u, v)
  BY <1>5, <1>6, <1>7 DEF OwnFile
<1>10. Shape(t, v) /\ Shut(t, v) => Shape(u, v)
  <2> SUFFICES ASSUME Shape(t, v), Shut(t, v) PROVE Shape(u, v)
    OBVIOUS
  <2>1. /\ \A f \in Names : <<v, f>> \notin t1.mapped
        /\ v \notin t.fds /\ t.files[v] = Absent
    BY <1>2, <1>5, <1>6 DEF Shape, Shut
  <2>2. CASE "open" \in fails
    BY <1>2, <1>5, <1>6, <1>7, <2>1, <2>2 DEF Shape
  <2>3. CASE "open" \notin fails
    <3>1. \A f \in Names : <<v, f>> \in u.mapped <=> u.map[v].state = "MAPPED" /\ u.map[v].file = f
      BY <1>7, <2>1
    <3> QED BY <1>0, <1>5, <1>6, <1>7, <2>3, <3>1 DEF Shape
  <2> QED BY <2>2, <2>3
<1>11. fails = {} => data(u, v) /\ <<v, v>> \in u.mapped /\ u.files[v] = n
  BY <1>5, <1>6, <1>7 DEF data
<1> QED BY <1>8, <1>9, <1>10, <1>11 DEF u

\* A map that can be written back is unmapped.
LEMMA Unmapping ==
  ASSUME NEW t \in OS, NEW o \in Objects, t.map[o].state = "MAPPED",
         NEW fails, "msync" \notin fails
  PROVE  LET u == unmap(t, o, fails)
         IN  /\ Touches(t, u, o)
             /\ u.files = t.files /\ u.leaked = t.leaked
             /\ \A f \in Names : <<o, f>> \in u.mapped => <<o, f>> \in t.mapped /\ f # t.map[o].file
             /\ u.map[o].state = "UNMAPPED" /\ u.map[o].file = t.map[o].file
             /\ u.map[o].temporary <=> t.map[o].temporary
<1> DEFINE less == t.mapped \ {<<o, t.map[o].file>>}
           m == [t.map[o] EXCEPT !.state = "UNMAPPED"]
           w == [t EXCEPT !.mapped = less]
           u == [w EXCEPT !.map[o] = m]
<1>1. t.map[o] \in MapRec
  BY MapType
<1>2. unmap(t, o, fails) = u
  BY DEF unmap, OS
<1>3. m \in MapRec /\ m.state = "UNMAPPED" /\ m.file = t.map[o].file
      /\ m.temporary = t.map[o].temporary
  BY <1>1 DEF MapRec
<1>4. /\ less \in SUBSET (Objects \X Names)
      /\ \A x \in Objects, f \in Names : x # o => (<<x, f>> \in less <=> <<x, f>> \in t.mapped)
      /\ \A f \in Names : <<o, f>> \in less => <<o, f>> \in t.mapped /\ f # t.map[o].file
  BY MapType
<1> HIDE DEF m, less
<1>5. w \in OS
  BY <1>4 DEF OS
<1>6. /\ w.map = t.map /\ w.files = t.files /\ w.fds = t.fds
      /\ w.leaked = t.leaked /\ w.mapped = less
  BY DEF OS
<1> HIDE DEF w
<1>7. Touches(t, w, o)
  BY <1>4, <1>5, <1>6 DEF Touches, Same
<1>8. Touches(w, u, o) /\ u.files = w.files /\ u.mapped = w.mapped
      /\ u.leaked = w.leaked /\ u.map[o] = m
  BY <1>3, <1>5, OwnRecord
<1> HIDE DEF u
<1>9. Touches(t, u, o)
  BY <1>7, <1>8, TouchesOn
<1> QED BY <1>2, <1>3, <1>4, <1>6, <1>8, <1>9

\* An object that is closed gives up its descriptor, and its temporary file.
LEMMA Shutting ==
  ASSUME NEW t \in OS, NEW o \in Objects, OwnFile(t, o)
  PROVE  LET c == [t EXCEPT !.map[o].state = "CLOSED", !.fds = @ \ {o}]
             u == IF t.map[o].temporary
                  THEN unlink([c EXCEPT !.map[o].temporary = FALSE], o) ELSE c
         IN  /\ Touches(t, u, o)
             /\ u.mapped = t.mapped /\ u.leaked = t.leaked
             /\ u.map[o].state = "CLOSED" /\ ~u.map[o].temporary /\ o \notin u.fds
             /\ t.map[o].temporary => u.files[o] = Absent
             /\ ~t.map[o].temporary => u.files = t.files
<1> DEFINE less == t.fds \ {o}
           m == [t.map[o] EXCEPT !.state = "CLOSED", !.temporary = FALSE]
           n == [t.map[o] EXCEPT !.state = "CLOSED"]
           w == [t EXCEPT !.fds = less]
           c == [t EXCEPT !.map[o].state = "CLOSED", !.fds = @ \ {o}]
           d == [w EXCEPT !.map[o] = m]
           e == [d EXCEPT !.files[o] = Absent]
           u == IF t.map[o].temporary
                THEN unlink([c EXCEPT !.map[o].temporary = FALSE], o) ELSE c
<1>1. t.map[o] \in MapRec
  BY MapType
<1>2. m \in MapRec /\ m.state = "CLOSED" /\ ~m.temporary /\ m.file = t.map[o].file
  BY <1>1 DEF MapRec
<1>3. less \in SUBSET Objects /\ o \notin less
      /\ \A x \in Objects : x # o => (x \in less <=> x \in t.fds)
  BY MapType
<1>4. ~t.map[o].temporary => n = m
  BY <1>1 DEF MapRec
<1>5. c = [w EXCEPT !.map[o] = n]
  BY DEF OS
<1>6. [c EXCEPT !.map[o].temporary = FALSE] = d
  BY <1>1 DEF OS, MapRec
<1> HIDE DEF m, n, less, c
<1>7. w \in OS
  BY <1>3 DEF OS
<1>8. /\ w.map = t.map /\ w.files = t.files /\ w.fds = less
      /\ w.leaked = t.leaked /\ w.mapped = t.mapped
  BY DEF OS
<1> HIDE DEF w
<1>9. Touches(t, w, o)
  BY <1>3, <1>7, <1>8 DEF Touches, Same
<1>10. Touches(w, d, o) /\ d \in OS /\ d.files = w.files /\ d.fds = w.fds
       /\ d.mapped = w.mapped /\ d.leaked = w.leaked /\ d.map[o] = m
  BY <1>2, <1>7, OwnRecord DEF Touches
<1>11. Touches(t, d, o)
  BY <1>9, <1>10, TouchesOn
<1>12. ~t.map[o].temporary => c = d
  BY <1>4, <1>5
<1> HIDE DEF d
<1>13. CASE ~t.map[o].temporary
  <2>1. u = d
    BY <1>12, <1>13
  <2> QED BY <1>2, <1>3, <1>8, <1>10, <1>11, <1>13, <2>1 DEF c
<1>14. CASE t.map[o].temporary
  <2>1. o \in Vectors /\ t.map[o].file = o /\ o \in Files
    BY <1>14 DEF OwnFile, Vectors, Files
  <2>2. unlink(d, o) = e
    BY <1>2, <1>10, <2>1 DEF unlink
  <2>3. /\ e \in OS /\ e.files[o] = Absent
        /\ e.fds = d.fds /\ e.mapped = d.mapped /\ e.leaked = d.leaked /\ e.map = d.map
        /\ \A f \in Files : f # o => e.files[f] = d.files[f]
    BY <1>10, <2>1 DEF OS
  <2> HIDE DEF e
  <2>4. Touches(d, e, o)
    BY <2>3 DEF Touches, Same
  <2>5. Touches(t, e, o)
    BY <1>11, <2>4, TouchesOn
  <2>6. u = e
    BY <1>6, <1>14, <2>2
  <2> QED BY <1>2, <1>3, <1>8, <1>10, <1>14, <2>3, <2>5, <2>6 DEF c
<1> QED BY <1>13, <1>14

\* close touches its own object, and lets go of all of it when the write-back succeeds.
LEMMA Closing ==
  ASSUME NEW t \in OS, NEW o \in Objects, OwnFile(t, o), NEW fails
  PROVE  LET u == close(t, o, fails)
         IN  /\ Touches(t, u, o) /\ OwnFile(u, o) /\ u.leaked = t.leaked
             /\ ~t.map[o].temporary => u.files = t.files
             /\ Shape(t, o) /\ "msync" \notin fails => Shape(u, o) /\ Shut(u, o)
<1> DEFINE u == IF t.map[o].state = "MAPPED" THEN unmap(t, o, fails) ELSE t
           c == [u EXCEPT !.map[o].state = "CLOSED", !.fds = @ \ {o}]
           w == IF u.map[o].temporary
                THEN unlink([c EXCEPT !.map[o].temporary = FALSE], o) ELSE c
           z == close(t, o, fails)
<1>1. t.map[o] \in MapRec
  BY MapType
<1>2. CASE t.map[o].state = "CLOSED"
  <2>1. z = t
    BY <1>2 DEF close
  <2>2. Touches(t, t, o)
    BY DEF Touches, Same
  <2> QED BY <1>2, <2>1, <2>2 DEF Shut
<1>3. CASE t.map[o].state = "MAPPED" /\ "msync" \in fails
  <2>1. /\ Touches(t, err(t, o), o)
        /\ err(t, o).files = t.files /\ err(t, o).leaked = t.leaked
        /\ err(t, o).map[o] = [t.map[o] EXCEPT !.error = TRUE]
    BY Erring
  <2>2. u = err(t, o)
    BY <1>3 DEF unmap
  <2>3. /\ err(t, o).map[o].state = "MAPPED"
        /\ err(t, o).map[o].file = t.map[o].file
        /\ (err(t, o).map[o].temporary <=> t.map[o].temporary)
    BY <1>1, <1>3, <2>1 DEF MapRec
  <2>4. z = err(t, o)
    BY <1>3, <2>2, <2>3 DEF close
  <2> QED BY <1>3, <2>1, <2>3, <2>4 DEF OwnFile
<1>4. CASE t.map[o].state = "UNMAPPED" \/ (t.map[o].state = "MAPPED" /\ "msync" \notin fails)
  <2>1. /\ Touches(t, u, o)
        /\ u.files = t.files /\ u.leaked = t.leaked
        /\ \A f \in Names : <<o, f>> \in u.mapped =>
              <<o, f>> \in t.mapped /\ (t.map[o].state = "MAPPED" => f # t.map[o].file)
        /\ u.map[o].state = "UNMAPPED" /\ u.map[o].file = t.map[o].file
        /\ u.map[o].temporary <=> t.map[o].temporary
    <3>1. CASE t.map[o].state = "MAPPED"
      BY <1>4, <3>1, Unmapping
    <3>2. CASE t.map[o].state = "UNMAPPED"
      <4>1. Touches(t, t, o)
        BY DEF Touches, Same
      <4> QED BY <3>2, <4>1
    <3> QED BY <1>4, <3>1, <3>2
  <2>2. u \in OS /\ OwnFile(u, o)
    BY <2>1 DEF Touches, OwnFile
  <2>3. z = w
    BY <1>4, <2>1 DEF close
  <2> HIDE DEF u
  <2>4. /\ Touches(u, w, o)
        /\ w.mapped = u.mapped /\ w.leaked = u.leaked
        /\ w.map[o].state = "CLOSED" /\ ~w.map[o].temporary /\ o \notin w.fds
        /\ u.map[o].temporary => w.files[o] = Absent
        /\ ~u.map[o].temporary => w.files = u.files
    BY <2>2, Shutting
  <2> HIDE DEF w
  <2>5. Touches(t, w, o)
    BY <2>1, <2>4, TouchesOn
  <2>6. OwnFile(w, o)
    BY <2>4 DEF OwnFile
  <2>7. Shape(t, o) => Shape(w, o) /\ Shut(w, o)
    <3> SUFFICES ASSUME Shape(t, o) PROVE Shape(w, o) /\ Shut(w, o)
      OBVIOUS
    <3>1. \A f \in Names : <<o, f>> \notin w.mapped
      BY <1>4, <2>1, <2>4 DEF Shape
    <3>2. o \in Vectors => w.files[o] = Absent
      BY <2>1, <2>4 DEF Shape
    <3> QED BY <2>4, <3>1, <3>2 DEF Shape, Shut
  <2> QED BY <2>1, <2>3, <2>4, <2>5, <2>6, <2>7
<1>5. t.map[o].state \in {"CLOSED", "UNMAPPED", "MAPPED"}
  BY <1>1 DEF MapRec
<1> QED BY <1>2, <1>3, <1>4, <1>5

\* An object that goes leaves nothing when the write-back succeeds.
LEMMA Destroying ==
  ASSUME NEW t \in OS, NEW o \in Objects, OwnFile(t, o), NEW fails
  PROVE  LET u == destroyed(t, o, fails)
         IN  /\ Touches(t, u, o) /\ OwnFile(u, o) /\ Shut(u, o)
             /\ ~t.map[o].temporary => u.files = t.files
             /\ Shape(t, o) /\ "msync" \notin fails => Shape(u, o) /\ u.leaked = t.leaked
<1> DEFINE c == close(t, o, fails)
           mine == {x \in c.mapped : x[1] = o}
           less == c.mapped \ mine
           fewer == c.fds \ {o}
           left == c.leaked \cup mine \cup ({o} \cap c.fds) \X {NoPath}
           u == destroyed(t, o, fails)
<1>1. /\ Touches(t, c, o) /\ c \in OS /\ c.leaked = t.leaked
      /\ ~t.map[o].temporary => c.files = t.files
      /\ Shape(t, o) /\ "msync" \notin fails => Shape(c, o) /\ Shut(c, o)
  BY Closing DEF Touches
<1>2. u = [c EXCEPT !.map[o] = Closed, !.mapped = less, !.fds = fewer, !.leaked = left]
  BY <1>1 DEF destroyed, OS
<1> HIDE DEF c
<1>3. Closed \in MapRec
  BY DEF Closed, MapRec, Modes, Names
<1>4. /\ less \in SUBSET (Objects \X Names)
      /\ \A x \in Objects, f \in Names : x # o => (<<x, f>> \in less <=> <<x, f>> \in c.mapped)
      /\ \A f \in Names : <<o, f>> \notin less
  BY <1>1, MapType
<1>5. /\ fewer \in SUBSET Objects /\ o \notin fewer
      /\ \A x \in Objects : x # o => (x \in fewer <=> x \in c.fds)
  BY <1>1, MapType
<1>6. left \in SUBSET (Objects \X Names)
  BY <1>1, MapType DEF Names
<1>7. Shape(c, o) /\ Shut(c, o) => left = c.leaked
  <2> SUFFICES ASSUME Shape(c, o), Shut(c, o) PROVE left = c.leaked
    OBVIOUS
  <2>1. c.mapped \in SUBSET (Objects \X Names)
    BY <1>1, MapType
  <2>2. mine = {}
    BY <2>1 DEF Shape, Shut
  <2>3. o \notin c.fds
    BY DEF Shape, Shut
  <2> QED BY <2>2, <2>3
<1> HIDE DEF less, fewer, left
<1>8. /\ u \in OS
      /\ u.map[o] = Closed /\ u.files = c.files /\ u.fds = fewer
      /\ u.mapped = less /\ u.leaked = left
      /\ \A x \in Objects : x # o => u.map[x] = c.map[x]
  <2>1. [c.map EXCEPT ![o] = Closed] \in [Objects -> MapRec]
    BY <1>1, <1>3, MapType
  <2>2. /\ u.files = c.files /\ u.fds = fewer /\ u.mapped = less /\ u.leaked = left
        /\ u.map = [c.map EXCEPT ![o] = Closed]
    BY <1>1, <1>2 DEF OS
  <2>3. u \in OS
    <3>1. u = [files |-> c.files, fds |-> fewer, mapped |-> less, leaked |-> left,
               map |-> [c.map EXCEPT ![o] = Closed]]
      BY <1>1, <1>2 DEF OS
    <3>2. c.files \in [Files -> Nat \cup {Absent}]
      BY <1>1, MapType
    <3> QED BY <1>4, <1>5, <1>6, <2>1, <3>1, <3>2 DEF OS
  <2>4. /\ u.map[o] = Closed
        /\ \A x \in Objects : x # o => u.map[x] = c.map[x]
    BY <1>1, <2>2, MapType
  <2> QED BY <2>2, <2>3, <2>4
<1> HIDE DEF u
<1>9. Touches(c, u, o)
  BY <1>4, <1>5, <1>8 DEF Touches, Same
<1>10. Touches(t, u, o)
  BY <1>1, <1>9, TouchesOn
<1>11. u.map[o].state = "CLOSED" /\ ~u.map[o].temporary
  BY <1>8 DEF Closed
<1>12. OwnFile(u, o) /\ Shut(u, o)
  BY <1>11 DEF OwnFile, Shut
<1>13. ~t.map[o].temporary => u.files = t.files
  BY <1>1, <1>8
<1>14. Shape(t, o) /\ "msync" \notin fails => Shape(u, o) /\ u.leaked = t.leaked
  BY <1>1, <1>4, <1>5, <1>7, <1>8, <1>11 DEF Shape, Shut
<1> QED BY <1>10, <1>12, <1>13, <1>14 DEF u
----------------------------------------------------------------------------
(* What the invariant says of the other objects is left as it was. *)

\* An operation on one object leaves what is known of the others.
LEMMA KeepsOthers ==
  ASSUME NEW t \in OS, NEW o \in Objects, NEW u, Touches(t, u, o),
         o \in Vectors \/ u.files = t.files, NEW x \in Objects, x # o
  PROVE  /\ OwnFile(t, x) => OwnFile(u, x)
         /\ Whole(t, x) => Whole(u, x)
         /\ Shut(t, x) => Shut(u, x)
         /\ Shape(t, x) => Shape(u, x)
<1>1. Same(t, u, x) /\ \A f \in Files : f # o => u.files[f] = t.files[f]
  BY DEF Touches
<1>2. OwnFile(t, x) => OwnFile(u, x)
  BY <1>1 DEF Same, OwnFile
<1>3. Whole(t, x) => Whole(u, x)
  <2> SUFFICES ASSUME Whole(t, x) PROVE Whole(u, x)
    OBVIOUS
  <2>1. t.map[x].file \in Files /\ t.map[x].file \in Names
    BY DEF Whole, Files, Names
  <2>2. o \in Vectors => t.map[x].file # o
    BY StorageAssumption DEF Whole, Vectors
  <2> QED BY <1>1, <2>1, <2>2 DEF Whole, Same, data
<1>4. Shut(t, x) => Shut(u, x)
  BY <1>1 DEF Same, Shut
<1>5. Shape(t, x) => Shape(u, x)
  <2>1. x \in Vectors => x \in Files
    BY DEF Vectors, Files
  <2> QED BY <1>1, <2>1 DEF Same, Shape
<1> QED BY <1>2, <1>3, <1>4, <1>5

\* The files of inputs are none of the temporary ones.
LEMMA InputsApart ==
  /\ Inputs \subseteq Objects /\ Vectors \subseteq Objects
  /\ \A i \in Inputs : i \notin Vectors /\ i # Null /\ i # Heap
  /\ \A v \in Vectors : v \notin Paths /\ v # NoPath /\ v # Null /\ v # Heap
  /\ Null \notin Objects /\ Heap \notin Objects /\ Null # Heap
BY StorageAssumption DEF Objects, Vectors, Null, Heap

\* A sequence with one more element.
LEMMA AppendKeeps ==
  ASSUME NEW q, Len(q) \in Nat, q = SubSeq(q, 1, Len(q)), NEW x
  PROVE  /\ Len(Append(q, x)) = Len(q) + 1
         /\ Append(q, x) = SubSeq(Append(q, x), 1, Len(q) + 1)
OBVIOUS

\* A prefix and the element after it.
LEMMA SubSeqNext ==
  ASSUME NEW q, NEW n \in Nat
  PROVE  /\ SubSeq(q, 1, n + 1) = Append(SubSeq(q, 1, n), q[n + 1])
         /\ Len(SubSeq(q, 1, n)) = n
         /\ SubSeq(SubSeq(q, 1, n), 1, n) = SubSeq(q, 1, n)
OBVIOUS

\* What survives depends on the nodes and the marks only.
LEMMA SurvivorsStay ==
  ASSUME V' = V, kept' = kept
  PROVE  survivors' = survivors
BY DEF survivors

----------------------------------------------------------------------------
(* The steps. *)

\* At first nothing is open.
LEMMA StorageInit_Inv == StorageInit => StorageInv
<1> SUFFICES ASSUME StorageInit PROVE StorageInv
  OBVIOUS
<1>1. PICK sizes \in [Paths -> Sizes \cup {Absent}] :
        s = [files |-> [p \in Files |-> IF p \in Paths THEN sizes[p] ELSE Absent],
             fds |-> {}, mapped |-> {}, leaked |-> {}, map |-> [o \in Objects |-> Closed]]
  BY DEF StorageInit
<1>2. Closed \in MapRec /\ Closed.state = "CLOSED" /\ ~Closed.temporary
  BY DEF Closed, MapRec, Modes, Names
<1>3. [p \in Files |-> IF p \in Paths THEN sizes[p] ELSE Absent] \in [Files -> Nat \cup {Absent}]
  BY StorageAssumption
<1>4. s \in OS /\ \A o \in Objects : s.map[o] = Closed
  BY <1>1, <1>2, <1>3 DEF OS
<1>5. OSInv
  BY <1>2, <1>4 DEF StorageInit, OSInv, OwnFile
<1>6. StoreInv
  BY StorageAssumption DEF StorageInit, StoreInv
<1>7. CopyInv /\ RoomInv
  BY DEF StorageInit, CopyInv, RoomInv
<1>8. \A o \in Objects : Shape(s, o) /\ Shut(s, o)
  <2>1. \A o \in Objects : o \in Vectors => s.files[o] = Absent
    BY <1>1, InputsApart DEF Files, Vectors
  <2> QED BY <1>1, <1>2, <1>4, <2>1 DEF Shape, Shut
<1>9. ReleasedInv
  BY <1>1, <1>8, InputsApart DEF StorageInit, ReleasedInv, Vectors
<1> QED BY <1>5, <1>6, <1>7, <1>9 DEF StorageInv

\* An input is constructed.
LEMMA AddInputKeeps ==
  ASSUME StorageInv, NEW i \in Inputs, NEW p \in Paths, NEW fails, "msync" \notin fails,
         AddInput(i, p, fails)
  PROVE  StorageInv'
<1> DEFINE t == memory_map(s, i, p, 0, "READ", fails)
           d == destroyed(t, i, fails)
<1>0. i \in Objects /\ i \notin Vectors /\ s \in OS /\ i \notin inputs /\ pc = "idle"
  BY InputsApart DEF StorageInv, OSInv, AddInput
<1>1. /\ Touches(s, t, i) /\ t \in OS
      /\ t.files = s.files /\ t.leaked = s.leaked
      /\ t.map[i].file = p /\ ~t.map[i].temporary
      /\ ~t.map[i].error => Whole(t, i)
      /\ Shape(s, i) /\ Shut(s, i) => Shape(t, i)
  BY <1>0, ReadMap DEF Touches
<1>2. OwnFile(t, i)
  BY <1>1 DEF OwnFile
<1>3. UNCHANGED <<mmap_mode, max_nodes, V, copy, kept, pc>> /\ failed' = failed \cup fails
  BY DEF AddInput
<1> HIDE DEF t
<1>4. /\ Touches(t, d, i) /\ OwnFile(d, i) /\ Shut(d, i)
      /\ d.files = t.files
      /\ Shape(t, i) => Shape(d, i) /\ d.leaked = t.leaked
  BY <1>0, <1>1, <1>2, Destroying
<1>5. s' = (IF t.map[i].error THEN d ELSE t)
      /\ inputs' = (IF t.map[i].error THEN inputs ELSE inputs \cup {i})
  BY DEF AddInput, t
<1> HIDE DEF d
<1>6. /\ Touches(s, s', i) /\ s'.files = s.files /\ OwnFile(s', i) /\ s' \in OS
      /\ i \in inputs' => Whole(s', i)
      /\ Shape(s, i) /\ Shut(s, i) =>
           Shape(s', i) /\ s'.leaked = s.leaked /\ (i \notin inputs' => Shut(s', i))
  <2>1. Touches(s, d, i)
    BY <1>1, <1>4, TouchesOn
  <2>2. CASE t.map[i].error
    BY <1>0, <1>1, <1>4, <1>5, <2>1, <2>2 DEF Touches
  <2>3. CASE ~t.map[i].error
    BY <1>0, <1>1, <1>2, <1>5, <2>3 DEF Touches
  <2> QED BY <2>2, <2>3
<1>7. \A x \in Inputs : x # i => (x \in inputs' <=> x \in inputs)
  BY <1>5
<1>8. \A x \in Objects : x # i =>
        /\ OwnFile(s, x) => OwnFile(s', x)
        /\ Whole(s, x) => Whole(s', x)
        /\ Shut(s, x) => Shut(s', x)
        /\ Shape(s, x) => Shape(s', x)
  BY <1>0, <1>6, KeepsOthers
<1>9. OSInv'
  <2>1. inputs' \subseteq Inputs
    BY <1>5 DEF StorageInv, OSInv
  <2> QED BY <1>6, <1>7, <1>8, <2>1, InputsApart DEF StorageInv, OSInv
<1>10. StoreInv' /\ CopyInv' /\ RoomInv'
  BY <1>0, <1>3 DEF StorageInv, StoreInv, CopyInv, RoomInv
<1>11. ReleasedInv'
  <2> SUFFICES ASSUME "msync" \notin failed' PROVE ReleasedInv'
    BY DEF ReleasedInv
  <2>1. /\ s.leaked = {} /\ Shut(s, v1) /\ Shut(s, v1next)
        /\ \A o \in Objects : Shape(s, o)
        /\ \A x \in Inputs \ inputs : Shut(s, x)
    BY <1>0, <1>3 DEF StorageInv, ReleasedInv
  <2>2. s'.leaked = {} /\ \A o \in Objects : Shape(s', o)
    BY <1>0, <1>6, <1>8, <2>1
  <2>3. \A x \in Inputs \ inputs' : Shut(s', x)
    BY <1>0, <1>6, <1>7, <1>8, <2>1, InputsApart
  <2>4. Shut(s', v1) /\ Shut(s', v1next)
    BY <1>0, <1>8, <2>1, InputsApart DEF Vectors
  <2> QED BY <1>0, <1>3, <2>2, <2>3, <2>4 DEF ReleasedInv
<1> QED BY <1>9, <1>10, <1>11 DEF StorageInv

\* An input is destroyed.
LEMMA DropInputKeeps ==
  ASSUME StorageInv, NEW i \in Inputs, NEW fails, DropInput(i, fails)
  PROVE  StorageInv'
<1>0. i \in Objects /\ i \notin Vectors /\ s \in OS /\ i \in inputs /\ pc = "idle"
  BY InputsApart DEF StorageInv, OSInv, DropInput
<1>1. OwnFile(s, i) /\ ~s.map[i].temporary
  BY <1>0 DEF StorageInv, OSInv, Whole
<1>2. /\ s' = destroyed(s, i, fails) /\ inputs' = inputs \ {i}
      /\ failed' = failed \cup fails
      /\ UNCHANGED <<mmap_mode, max_nodes, V, copy, kept, pc>>
  BY DEF DropInput
<1>3. /\ Touches(s, s', i) /\ OwnFile(s', i) /\ Shut(s', i) /\ s'.files = s.files
      /\ Shape(s, i) /\ "msync" \notin fails => Shape(s', i) /\ s'.leaked = s.leaked
  BY <1>0, <1>1, <1>2, Destroying
<1>4. \A x \in Objects : x # i =>
        /\ OwnFile(s, x) => OwnFile(s', x)
        /\ Whole(s, x) => Whole(s', x)
        /\ Shut(s, x) => Shut(s', x)
        /\ Shape(s, x) => Shape(s', x)
  BY <1>0, <1>3, KeepsOthers
<1>5. OSInv'
  <2>1. inputs' \subseteq Inputs /\ i \notin inputs' /\ s' \in OS
    BY <1>2, <1>3 DEF StorageInv, OSInv, Touches
  <2> QED BY <1>2, <1>3, <1>4, <2>1, InputsApart DEF StorageInv, OSInv
<1>6. StoreInv' /\ CopyInv' /\ RoomInv'
  BY <1>0, <1>2 DEF StorageInv, StoreInv, CopyInv, RoomInv
<1>7. ReleasedInv'
  <2> SUFFICES ASSUME "msync" \notin failed' PROVE ReleasedInv'
    BY DEF ReleasedInv
  <2>1. /\ s.leaked = {} /\ Shut(s, v1) /\ Shut(s, v1next)
        /\ \A o \in Objects : Shape(s, o)
        /\ \A x \in Inputs \ inputs : Shut(s, x)
        /\ "msync" \notin fails
    BY <1>0, <1>2 DEF StorageInv, ReleasedInv
  <2>2. s'.leaked = {} /\ \A o \in Objects : Shape(s', o)
    BY <1>0, <1>3, <1>4, <2>1
  <2>3. \A x \in Inputs \ inputs' : Shut(s', x)
    BY <1>2, <1>3, <1>4, <2>1, InputsApart
  <2>4. Shut(s', v1) /\ Shut(s', v1next)
    BY <1>0, <1>4, <2>1, InputsApart DEF Vectors
  <2> QED BY <1>0, <1>2, <2>2, <2>3, <2>4 DEF ReleasedInv
<1> QED BY <1>5, <1>6, <1>7 DEF StorageInv

\* A node is added.
LEMMA AddNodeKeeps ==
  ASSUME StorageInv, AddNode
  PROVE  StorageInv'
<1>1. PICK x : V' = Append(V, x)
  BY DEF AddNode
<1>2. UNCHANGED <<s, inputs, mmap_mode, max_nodes, copy, kept, pc, failed>> /\ pc = "idle"
  BY DEF AddNode
<1>3. StoreInv'
  <2>1. Len(V) \in Nat /\ V = SubSeq(V, 1, Len(V))
    BY DEF StorageInv, StoreInv
  <2>2. Len(V') = Len(V) + 1 /\ V' = SubSeq(V', 1, Len(V) + 1)
    BY <1>1, <2>1, AppendKeeps
  <2>3. Len(V') \in Nat /\ V' = SubSeq(V', 1, Len(V'))
    BY <2>1, <2>2
  <2> QED BY <1>2, <2>3 DEF StorageInv, StoreInv
<1>4. OSInv'
  BY <1>2 DEF StorageInv, OSInv
<1>5. CopyInv' /\ RoomInv'
  BY <1>2 DEF CopyInv, RoomInv
<1>6. ReleasedInv'
  BY <1>2 DEF StorageInv, ReleasedInv
<1> QED BY <1>3, <1>4, <1>5, <1>6 DEF StorageInv

\* gc's vector with other nodes, or another pointer and room, is a vector.
LEMMA CopyType ==
  ASSUME NEW A, NEW C, NEW N, NEW c \in [at : A, cap : C, nodes : N]
  PROVE  /\ \A x : [c EXCEPT !.nodes = x] = [at |-> c.at, cap |-> c.cap, nodes |-> x]
         /\ \A x, y : [c EXCEPT !.at = x, !.cap = y] = [at |-> x, cap |-> y, nodes |-> c.nodes]
<1>1. ASSUME NEW x PROVE [c EXCEPT !.nodes = x] = [at |-> c.at, cap |-> c.cap, nodes |-> x]
  OBVIOUS
<1>2. ASSUME NEW x, NEW y
      PROVE  [c EXCEPT !.at = x, !.cap = y] = [at |-> x, cap |-> y, nodes |-> c.nodes]
  <2> DEFINE d == [c EXCEPT !.at = x]
  <2>1. d = [at |-> x, cap |-> c.cap, nodes |-> c.nodes]
    OBVIOUS
  <2>2. d \in [at : {x}, cap : C, nodes : N] /\ d.at = x /\ d.nodes = c.nodes
    BY <2>1
  <2> HIDE DEF d
  <2>3. [d EXCEPT !.cap = y] = [at |-> x, cap |-> y, nodes |-> c.nodes]
    BY <2>2
  <2> QED BY <2>3 DEF d
<1> QED BY <1>1, <1>2

\* What gc keeps is some of a store, and not nothing.
LEMMA KeptCounted ==
  ASSUME Len(V) \in Nat, NEW keep \in SUBSET (1 .. Len(V)), {1, 2} \subseteq keep
  PROVE  IsFiniteSet(keep) /\ Cardinality(keep) \in Nat \ {0}
<1>1. IsFiniteSet(1 .. Len(V))
  BY FS_Interval
<1>2. IsFiniteSet(keep)
  BY <1>1, FS_Subset
<1>3. Cardinality(keep) \in Nat
  BY <1>2, FS_CardinalityType
<1>4. keep # {}
  OBVIOUS
<1>5. Cardinality(keep) # 0
  BY <1>2, <1>4, FS_EmptySet
<1> QED BY <1>2, <1>3, <1>5

\* A collection reserves its copy.
LEMMA GcReserveKeeps ==
  ASSUME StorageInv, NEW keep \in SUBSET (1 .. Len(V)), {1, 2} \subseteq keep, NEW fails,
         "msync" \notin fails, GcReserve(keep, fails)
  PROVE  StorageInv'
<1> DEFINE t == memory_map(s, v1, NoPath, max_nodes, "WRITE", fails)
<1>0. /\ v1 \in Objects /\ v1 \in Vectors /\ v1next \in Objects /\ v1next \in Vectors
      /\ v1next # v1 /\ v1 # Null /\ v1 # Heap /\ v1next # Null /\ v1next # Heap /\ Null # Heap
  BY InputsApart, StorageAssumption DEF Vectors
<1>1. /\ s \in OS /\ pc = "idle" /\ max_nodes \in Nat \ {0} /\ Len(V) \in Nat
      /\ \A o \in Objects : OwnFile(s, o)
      /\ \A i \in inputs : Whole(s, i)
  BY DEF StorageInv, OSInv, StoreInv, GcReserve
<1>2. IsFiniteSet(keep) /\ Cardinality(keep) \in Nat \ {0}
  BY <1>1, KeptCounted
<1>3. /\ UNCHANGED <<inputs, mmap_mode, max_nodes, V>>
      /\ pc' = "push" /\ kept' = keep /\ failed' = failed \cup fails
      /\ copy'.nodes = << >>
      /\ copy' = [at |-> copy'.at, cap |-> copy'.cap, nodes |-> copy'.nodes]
  BY DEF GcReserve
<1>4. CASE mmap_mode = "NONE"
  <2>1. s' = s /\ copy'.at = Heap /\ copy'.cap = Cardinality(keep)
    BY <1>4 DEF GcReserve, reserved
  <2>2. CopyInv'
    <3>1. copy'.nodes = SubSeq(survivors', 1, 0) /\ Len(copy'.nodes) = 0
      BY <1>3
    <3> QED BY <1>0, <1>2, <1>3, <2>1, <3>1 DEF CopyInv
  <2>3. OSInv' /\ StoreInv' /\ RoomInv'
    BY <1>3, <2>1 DEF StorageInv, OSInv, StoreInv, RoomInv
  <2>4. ReleasedInv'
    BY <1>0, <1>1, <1>3, <2>1 DEF StorageInv, ReleasedInv
  <2> QED BY <2>2, <2>3, <2>4 DEF StorageInv
<1>5. CASE mmap_mode # "NONE"
  <2>1. s' = t /\ copy'.at = pointer(t, v1) /\ copy'.cap = max_nodes
    BY <1>0, <1>5, InputsApart DEF GcReserve, reserved, allocate
  <2>2. /\ Touches(s, t, v1) /\ t \in OS /\ t.leaked = s.leaked /\ OwnFile(t, v1)
        /\ Shape(s, v1) /\ Shut(s, v1) => Shape(t, v1)
        /\ fails = {} => data(t, v1) /\ <<v1, v1>> \in t.mapped /\ t.files[v1] = max_nodes
    <3> DEFINE n == max_nodes
    <3>1. n \in Nat \ {0}
      BY <1>1
    <3> HIDE DEF n
    <3>2. LET u == memory_map(s, v1, NoPath, n, "WRITE", fails)
          IN  /\ Touches(s, u, v1) /\ u.leaked = s.leaked /\ OwnFile(u, v1)
              /\ Shape(s, v1) /\ Shut(s, v1) => Shape(u, v1)
              /\ fails = {} => data(u, v1) /\ <<v1, v1>> \in u.mapped /\ u.files[v1] = n
      BY <1>0, <1>1, <3>1, WriteMap
    <3> QED BY <3>2 DEF Touches, n
  <2> HIDE DEF t
  <2>3. \A x \in Objects : x # v1 =>
          /\ OwnFile(s, x) => OwnFile(t, x)
          /\ Whole(s, x) => Whole(t, x)
          /\ Shut(s, x) => Shut(t, x)
          /\ Shape(s, x) => Shape(t, x)
    BY <1>0, <1>1, <2>2, KeepsOthers
  <2>4. copy'.at \in {v1, Null} /\ (data(t, v1) => copy'.at = v1)
    BY <2>1 DEF pointer
  <2>5. OSInv'
    <3>1. \A o \in Objects : OwnFile(t, o)
      BY <1>1, <2>2, <2>3
    <3>2. inputs \subseteq Inputs /\ \A i \in inputs : Whole(t, i)
      BY <1>0, <1>1, <2>3, InputsApart DEF StorageInv, OSInv
    <3> QED BY <1>3, <2>1, <2>2, <3>1, <3>2 DEF OSInv
  <2>6. StoreInv'
    BY <1>3 DEF StorageInv, StoreInv
  <2>7. CopyInv'
    <3>1. copy'.nodes = SubSeq(survivors', 1, 0) /\ Len(copy'.nodes) = 0
      BY <1>3
    <3>2. unfinished'
      BY <1>2, <1>3, <3>1 DEF unfinished
    <3> QED BY <1>0, <1>1, <1>2, <1>3, <2>1, <2>4, <3>1, <3>2 DEF CopyInv
  <2>8. RoomInv'
    BY <1>3, <2>1, <2>2, <2>4 DEF RoomInv
  <2>9. ReleasedInv'
    <3> SUFFICES ASSUME "msync" \notin failed' PROVE ReleasedInv'
      BY DEF ReleasedInv
    <3>1. /\ s.leaked = {} /\ Shut(s, v1) /\ Shut(s, v1next)
          /\ \A o \in Objects : Shape(s, o)
          /\ \A x \in Inputs \ inputs : Shut(s, x)
      BY <1>1, <1>3 DEF StorageInv, ReleasedInv
    <3>2. s'.leaked = {} /\ \A o \in Objects : Shape(s', o)
      BY <1>0, <2>1, <2>2, <2>3, <3>1
    <3>3. \A x \in Inputs \ inputs' : Shut(s', x)
      BY <1>0, <1>3, <2>1, <2>3, <3>1, InputsApart
    <3> QED BY <1>0, <1>3, <2>1, <2>3, <2>4, <3>1, <3>2, <3>3 DEF ReleasedInv
  <2> QED BY <2>5, <2>6, <2>7, <2>8, <2>9 DEF StorageInv
<1> QED BY <1>4, <1>5

\* A survivor is copied within the room.
LEMMA GcPushKeeps ==
  ASSUME StorageInv, GcPush
  PROVE  StorageInv'
<1> DEFINE n == Len(copy.nodes) + 1
<1>0. /\ v1 \in Objects /\ v1 \in Files /\ Null \notin Objects /\ Null # Heap
      /\ s \in OS /\ max_nodes \in Nat
  BY InputsApart DEF StorageInv, OSInv, StoreInv, Vectors, Files
<1>1. /\ pc = "push" /\ Len(copy.nodes) < Cardinality(kept) /\ n <= copy.cap
      /\ UNCHANGED <<s, inputs, mmap_mode, max_nodes, V, kept, failed>>
  BY DEF GcPush, unfinished
<1>5. PICK N : copy \in [at : {v1, v1next, Null, Heap}, cap : Nat \ {0}, nodes : N]
  BY <1>1 DEF StorageInv, CopyInv
<1>2. /\ IsFiniteSet(kept) /\ Cardinality(kept) \in Nat \ {0}
      /\ copy.at \in {v1, v1next, Null, Heap}
      /\ copy.cap \in Nat \ {0}
      /\ Len(copy.nodes) \in 0 .. copy.cap
      /\ copy.nodes = SubSeq(survivors, 1, Len(copy.nodes))
      /\ copy.at = Heap => copy.cap = Cardinality(kept)
      /\ copy.at = Null => unfinished /\ Len(copy.nodes) < copy.cap
  BY <1>1 DEF StorageInv, CopyInv
<1>3. CASE writable(s, copy.at, n)
  <2>1. copy' = [copy EXCEPT !.nodes = Append(@, survivors[n])] /\ pc' = pc
    BY <1>3 DEF GcPush
  <2>2. copy.at # Null
    BY <1>0, <1>3, MapType DEF writable
  <2>3. copy'.nodes = SubSeq(survivors, 1, n) /\ Len(copy'.nodes) = n
        /\ copy' = [at |-> copy.at, cap |-> copy.cap, nodes |-> copy'.nodes]
    <3> DEFINE k == Len(copy.nodes)
    <3>1. k \in Nat /\ copy.nodes = SubSeq(survivors, 1, k)
      BY <1>2
    <3>2. SubSeq(survivors, 1, k + 1) = Append(SubSeq(survivors, 1, k), survivors[k + 1])
          /\ Len(SubSeq(survivors, 1, k + 1)) = k + 1
      <4> HIDE DEF k
      <4> QED BY <3>1, SubSeqNext
    <3>3. copy'.nodes = Append(copy.nodes, survivors[k + 1])
          /\ copy' = [at |-> copy.at, cap |-> copy.cap, nodes |-> copy'.nodes]
      <4> DEFINE q == Append(copy.nodes, survivors[k + 1])
      <4>1. copy' = [copy EXCEPT !.nodes = q]
        BY <2>1
      <4> HIDE DEF q
      <4>3. copy' = [at |-> copy.at, cap |-> copy.cap, nodes |-> q]
        BY <1>5, <4>1, CopyType
      <4>2. /\ copy'.nodes = q /\ copy'.at = copy.at /\ copy'.cap = copy.cap
            /\ copy' = [at |-> copy.at, cap |-> copy.cap, nodes |-> copy'.nodes]
        BY <4>3
      <4> QED BY <4>2 DEF q
    <3> QED BY <3>1, <3>2, <3>3
  <2>4. CopyInv'
    BY <1>1, <1>2, <2>2, <2>3, SurvivorsStay DEF CopyInv
  <2> QED BY <1>1, <2>1, <2>3, <2>4 DEF StorageInv, OSInv, StoreInv, ReleasedInv, RoomInv
<1>4. CASE ~writable(s, copy.at, n)
  <2>1. copy' = copy /\ pc' = "lost"
    BY <1>4 DEF GcPush
  <2>2. ~(failed = {} /\ Cardinality(kept) <= max_nodes)
    <3> SUFFICES ASSUME failed = {}, Cardinality(kept) <= max_nodes PROVE FALSE
      OBVIOUS
    <3>1. copy.at = Heap \/ /\ copy.at = v1 /\ copy.cap = max_nodes
                            /\ <<v1, v1>> \in s.mapped /\ s.files[v1] = max_nodes
      BY <1>1 DEF StorageInv, RoomInv
    <3>2. n <= max_nodes \/ copy.at = Heap
      BY <1>1, <3>1
    <3>3. max_nodes # Absent
      BY <1>0, StorageAssumption
    <3> QED BY <1>0, <1>4, <3>1, <3>2, <3>3 DEF writable
  <2> QED BY <1>1, <2>1, <2>2 DEF StorageInv, OSInv, StoreInv, CopyInv, ReleasedInv, RoomInv
<1> QED BY <1>3, <1>4

\* The copy takes the place of the store.
LEMMA GcMoveKeeps ==
  ASSUME StorageInv, NEW fails, GcMove(fails)
  PROVE  StorageInv'
<1>0. /\ v1 \in Vectors /\ v1next \in Vectors /\ Vectors \subseteq Objects
      /\ v1 # v1next /\ Heap \notin Objects /\ Null # Heap
      /\ s \in OS /\ \A o \in Objects : OwnFile(s, o)
      /\ inputs \subseteq Inputs /\ \A i \in inputs : Whole(s, i)
  BY InputsApart, StorageAssumption DEF Vectors, StorageInv, OSInv
<1>1. /\ pc = "push" /\ ~unfinished /\ pc' = "idle" /\ V' = copy.nodes
      /\ s' = IF copy.at = Heap THEN s ELSE destroyed(s, copy.at, fails)
      /\ failed' = failed \cup fails
      /\ UNCHANGED <<inputs, mmap_mode, max_nodes>>
  BY DEF GcMove
<1>2. /\ copy.at = Heap \/ copy.at \in Vectors
      /\ copy.nodes = SubSeq(survivors, 1, Len(copy.nodes)) /\ Len(copy.nodes) \in Nat
  BY <1>1 DEF StorageInv, CopyInv, Vectors
<1>3. StoreInv'
  <2> DEFINE k == Len(copy.nodes)
  <2>1. k \in Nat /\ copy.nodes = SubSeq(survivors, 1, k)
    BY <1>2
  <2> HIDE DEF k
  <2>2. Len(copy.nodes) = k /\ copy.nodes = SubSeq(copy.nodes, 1, k)
    BY <2>1, SubSeqNext
  <2>3. Len(V') \in Nat /\ V' = SubSeq(V', 1, Len(V'))
    BY <1>1, <2>1, <2>2
  <2> QED BY <1>1, <2>3 DEF StorageInv, StoreInv
<1>4. CopyInv' /\ RoomInv'
  BY <1>1 DEF CopyInv, RoomInv
<1>5. CASE copy.at = Heap
  <2>1. s' = s
    BY <1>1, <1>5
  <2>2. OSInv'
    BY <1>1, <2>1 DEF StorageInv, OSInv
  <2>3. ReleasedInv'
    BY <1>1, <1>5, <2>1 DEF StorageInv, ReleasedInv
  <2> QED BY <1>3, <1>4, <2>2, <2>3 DEF StorageInv
<1>6. CASE copy.at \in Vectors
  <2> DEFINE o == copy.at
  <2>1. o \in Objects /\ o \in Vectors /\ s' = destroyed(s, o, fails)
    BY <1>0, <1>1, <1>6
  <2> HIDE DEF o
  <2>2. /\ Touches(s, s', o) /\ OwnFile(s', o) /\ Shut(s', o)
        /\ Shape(s, o) /\ "msync" \notin fails => Shape(s', o) /\ s'.leaked = s.leaked
    BY <1>0, <2>1, Destroying
  <2>3. \A x \in Objects : x # o =>
          /\ OwnFile(s, x) => OwnFile(s', x)
          /\ Whole(s, x) => Whole(s', x)
          /\ Shut(s, x) => Shut(s', x)
          /\ Shape(s, x) => Shape(s', x)
    BY <1>0, <2>1, <2>2, KeepsOthers
  <2>4. OSInv'
    <3>1. \A x \in Objects : OwnFile(s', x)
      BY <1>0, <2>2, <2>3
    <3>2. \A i \in inputs : Whole(s', i)
      BY <1>0, <2>1, <2>3, InputsApart
    <3> QED BY <1>0, <1>1, <2>2, <3>1, <3>2 DEF OSInv, Touches
  <2>5. ReleasedInv'
    <3> SUFFICES ASSUME "msync" \notin failed' PROVE ReleasedInv'
      BY DEF ReleasedInv
    <3>1. /\ s.leaked = {} /\ Shut(s, v1next) /\ o # v1next
          /\ \A x \in Objects : Shape(s, x)
          /\ \A x \in Inputs \ inputs : Shut(s, x)
          /\ "msync" \notin fails
      BY <1>1 DEF StorageInv, ReleasedInv, o
    <3>2. s'.leaked = {} /\ \A x \in Objects : Shape(s', x)
      BY <2>1, <2>2, <2>3, <3>1
    <3>3. \A x \in Inputs \ inputs' : Shut(s', x)
      BY <1>1, <2>1, <2>3, <3>1, InputsApart
    <3>4. Shut(s', v1) /\ Shut(s', v1next)
      <4>1. o = v1
        BY <2>1, <3>1 DEF Vectors
      <4> QED BY <1>0, <2>2, <2>3, <3>1, <4>1
    <3> QED BY <1>1, <3>2, <3>3, <3>4 DEF ReleasedInv
  <2> QED BY <1>3, <1>4, <2>4, <2>5 DEF StorageInv
<1> QED BY <1>2, <1>5, <1>6

\* A growth swaps the two maps: the new one is made, the old one is destroyed.
LEMMA Growing ==
  ASSUME NEW t \in OS, NEW o \in Vectors, NEW old \in Vectors, o # old,
         OwnFile(t, o), OwnFile(t, old), NEW n \in Nat \ {0}, NEW fails
  PROVE  LET u == allocate(t, o, old, n, fails)
         IN  /\ u \in OS /\ OwnFile(u, o) /\ OwnFile(u, old)
             /\ \A x \in Objects \ Vectors :
                  /\ OwnFile(t, x) => OwnFile(u, x)
                  /\ Whole(t, x) => Whole(u, x)
                  /\ Shut(t, x) => Shut(u, x)
                  /\ Shape(t, x) => Shape(u, x)
             /\ Shape(t, o) /\ Shut(t, o) /\ Shape(t, old) /\ "msync" \notin fails =>
                  /\ Shape(u, o) /\ Shape(u, old) /\ Shut(u, old)
                  /\ u.leaked = t.leaked
<1> DEFINE m == memory_map(t, o, NoPath, n, "WRITE", fails)
           u == allocate(t, o, old, n, fails)
<1>0. o \in Objects /\ old \in Objects
  BY InputsApart
<1>1. u = destroyed(m, old, fails)
  BY <1>0 DEF allocate
<1>2. /\ Touches(t, m, o) /\ m.leaked = t.leaked /\ OwnFile(m, o)
      /\ Shape(t, o) /\ Shut(t, o) => Shape(m, o)
  <2>1. /\ Touches(t, m, o) /\ m.leaked = t.leaked /\ OwnFile(m, o)
        /\ Shape(t, o) /\ Shut(t, o) => Shape(m, o)
        /\ fails = {} => data(m, o) /\ <<o, o>> \in m.mapped /\ m.files[o] = n
    BY WriteMap
  <2> QED BY <2>1
<1>3. m \in OS
  BY <1>2 DEF Touches
<1> HIDE DEF m
<1>4. \A x \in Objects : x # o =>
        /\ OwnFile(t, x) => OwnFile(m, x)
        /\ Whole(t, x) => Whole(m, x)
        /\ Shut(t, x) => Shut(m, x)
        /\ Shape(t, x) => Shape(m, x)
  BY <1>0, <1>2, KeepsOthers
<1>5. OwnFile(m, old)
  BY <1>0, <1>4
<1>6. /\ Touches(m, u, old) /\ OwnFile(u, old) /\ Shut(u, old)
      /\ Shape(m, old) /\ "msync" \notin fails => Shape(u, old) /\ u.leaked = m.leaked
  BY <1>0, <1>1, <1>3, <1>5, Destroying
<1> HIDE DEF u
<1>7. \A x \in Objects : x # old =>
        /\ OwnFile(m, x) => OwnFile(u, x)
        /\ Whole(m, x) => Whole(u, x)
        /\ Shut(m, x) => Shut(u, x)
        /\ Shape(m, x) => Shape(u, x)
  BY <1>0, <1>3, <1>6, KeepsOthers
<1>8. u \in OS
  BY <1>6 DEF Touches
<1>9. OwnFile(u, o)
  BY <1>0, <1>2, <1>7
<1>10. \A x \in Objects \ Vectors :
         /\ OwnFile(t, x) => OwnFile(u, x)
         /\ Whole(t, x) => Whole(u, x)
         /\ Shut(t, x) => Shut(u, x)
         /\ Shape(t, x) => Shape(u, x)
  BY <1>4, <1>7
<1>11. Shape(t, o) /\ Shut(t, o) /\ Shape(t, old) /\ "msync" \notin fails =>
         /\ Shape(u, o) /\ Shape(u, old) /\ Shut(u, old)
         /\ u.leaked = t.leaked
  BY <1>0, <1>2, <1>4, <1>6, <1>7
<1> QED BY <1>6, <1>8, <1>9, <1>10, <1>11 DEF u

\* The copy grows, and its old block is given back.
LEMMA GcGrowKeeps ==
  ASSUME StorageInv, NEW fails, NEW closing, GcGrow(fails, closing)
  PROVE  StorageInv'
<1> DEFINE old == copy.at
           o == IF old = v1 THEN v1next ELSE v1
           n == 2 * copy.cap
           t == allocate(s, o, old, n, fails)
<1>0. /\ v1 \in Vectors /\ v1next \in Vectors /\ Vectors \subseteq Objects
      /\ v1 # v1next /\ Heap \notin Objects /\ Null \notin Objects /\ Null # Heap
      /\ s \in OS /\ \A x \in Objects : OwnFile(s, x)
      /\ inputs \subseteq Inputs /\ \A i \in inputs : Whole(s, i)
      /\ max_nodes \in Nat
  BY InputsApart, StorageAssumption DEF Vectors, StorageInv, OSInv, StoreInv
<1>1. /\ pc = "push" /\ Len(copy.nodes) < Cardinality(kept) /\ Len(copy.nodes) = copy.cap
      /\ UNCHANGED <<inputs, mmap_mode, max_nodes, V, kept>>
  BY DEF GcGrow, unfinished
<1>2. /\ IsFiniteSet(kept) /\ Cardinality(kept) \in Nat \ {0}
      /\ copy.cap \in Nat \ {0}
      /\ Len(copy.nodes) \in 0 .. copy.cap
      /\ copy.nodes = SubSeq(survivors, 1, Len(copy.nodes))
      /\ copy.at \in {v1, v1next}
  <2>1. /\ IsFiniteSet(kept) /\ Cardinality(kept) \in Nat \ {0}
        /\ copy.at \in {v1, v1next, Null, Heap} /\ copy.cap \in Nat \ {0}
        /\ Len(copy.nodes) \in 0 .. copy.cap
        /\ copy.nodes = SubSeq(survivors, 1, Len(copy.nodes))
        /\ copy.at = Heap => copy.cap = Cardinality(kept)
        /\ copy.at = Null => Len(copy.nodes) < copy.cap
    BY <1>1 DEF StorageInv, CopyInv
  <2>2. copy.at # Heap /\ copy.at # Null
    BY <1>1, <2>1
  <2> QED BY <2>1, <2>2
<1>3. PICK N : copy \in [at : {v1, v1next, Null, Heap}, cap : Nat \ {0}, nodes : N]
  BY <1>1 DEF StorageInv, CopyInv
<1>4. n \in Nat \ {0} /\ o \in Vectors /\ old \in Vectors /\ o # old
  BY <1>0, <1>2
<1>5. copy' = [at |-> pointer(t, o), cap |-> n, nodes |-> copy.nodes]
  <2>1. copy' = [copy EXCEPT !.at = pointer(t, o), !.cap = n]
    BY <1>1 DEF GcGrow
  <2> HIDE DEF t, n
  <2> QED BY <1>3, <2>1, CopyType
<1>6. \/ /\ writable(t, old, copy.cap)
         /\ s' = close(t, o, closing) /\ failed' = failed \cup fails \cup closing /\ pc' = pc
      \/ /\ ~writable(t, old, copy.cap)
         /\ s' = t /\ failed' = failed \cup fails /\ pc' = "lost"
  BY DEF GcGrow
<1> HIDE DEF o, old, n
<1>7. /\ t \in OS /\ OwnFile(t, o) /\ OwnFile(t, old)
      /\ \A x \in Objects \ Vectors :
           /\ OwnFile(s, x) => OwnFile(t, x)
           /\ Whole(s, x) => Whole(t, x)
           /\ Shut(s, x) => Shut(t, x)
           /\ Shape(s, x) => Shape(t, x)
      /\ Shape(s, o) /\ Shut(s, o) /\ Shape(s, old) /\ "msync" \notin fails =>
           /\ Shape(t, o) /\ Shape(t, old) /\ Shut(t, old)
           /\ t.leaked = s.leaked
  <2>1. OwnFile(s, o) /\ OwnFile(s, old)
    BY <1>0, <1>4
  <2> QED BY <1>0, <1>4, <2>1, Growing
<1> HIDE DEF t
<1>8. \A x \in Vectors : x = o \/ x = old
  BY <1>4 DEF Vectors
<1>9. /\ \A x \in Objects : OwnFile(t, x)
      /\ \A i \in inputs : Whole(t, i)
  BY <1>0, <1>7, <1>8, InputsApart
<1>10. "msync" \notin failed /\ "msync" \notin fails =>
         /\ ~writable(t, old, copy.cap)
         /\ t.leaked = {} /\ \A x \in Objects : Shape(t, x)
         /\ \A i \in Inputs \ inputs : Shut(t, i)
  <2> SUFFICES ASSUME "msync" \notin failed, "msync" \notin fails
               PROVE  /\ ~writable(t, old, copy.cap)
                      /\ t.leaked = {} /\ \A x \in Objects : Shape(t, x)
                      /\ \A i \in Inputs \ inputs : Shut(t, i)
    OBVIOUS
  <2>1. /\ s.leaked = {} /\ \A x \in Objects : Shape(s, x)
        /\ \A i \in Inputs \ inputs : Shut(s, i)
        /\ Shut(s, v1next) /\ copy.at # v1next
    BY <1>1 DEF StorageInv, ReleasedInv
  <2>2. old = v1 /\ o = v1next
    BY <1>2, <2>1 DEF old, o
  <2>3. /\ Shape(t, o) /\ Shape(t, old) /\ Shut(t, old) /\ t.leaked = {}
    BY <1>0, <1>7, <2>1, <2>2
  <2>4. \A x \in Objects : Shape(t, x)
    BY <1>7, <1>8, <2>1, <2>3
  <2>5. \A i \in Inputs \ inputs : Shut(t, i)
    BY <1>7, <2>1, InputsApart
  <2>6. \A f \in Files : <<old, f>> \notin t.mapped \cup t.leaked
    BY <2>3 DEF Shape, Shut, Names
  <2>7. ~writable(t, old, copy.cap)
    BY <1>0, <1>4, <2>6 DEF writable
  <2> QED BY <2>3, <2>4, <2>5, <2>7
<1>11. OSInv'
  <2>1. CASE s' = t
    BY <1>0, <1>1, <1>7, <1>9, <2>1 DEF OSInv
  <2>2. CASE s' = close(t, o, closing)
    <3>1. o \in Objects
      BY <1>0, <1>4
    <3>2. Touches(t, s', o) /\ OwnFile(s', o)
      BY <1>7, <2>2, <3>1, Closing
    <3>3. \A x \in Objects : x # o =>
            /\ OwnFile(t, x) => OwnFile(s', x)
            /\ Whole(t, x) => Whole(s', x)
      BY <1>4, <1>7, <3>1, <3>2, KeepsOthers
    <3>4. s' \in OS
      BY <3>2 DEF Touches
    <3>5. \A x \in Objects : OwnFile(s', x)
      BY <1>9, <3>2, <3>3
    <3>6. \A i \in inputs : Whole(s', i)
      BY <1>0, <1>4, <1>9, <3>3, InputsApart
    <3> QED BY <1>0, <1>1, <3>4, <3>5, <3>6 DEF OSInv
  <2> QED BY <1>6, <2>1, <2>2
<1>12. StoreInv'
  BY <1>1, <1>6 DEF StorageInv, StoreInv
<1>13. CopyInv'
  <2>1. /\ copy'.at = pointer(t, o) /\ copy'.cap = n /\ copy'.nodes = copy.nodes
    BY <1>5
  <2>2. pointer(t, o) \in {v1, v1next, Null} /\ pointer(t, o) # Heap
    BY <1>0, <1>4 DEF pointer, Vectors
  <2>3. n > copy.cap /\ n \in Nat \ {0}
    BY <1>2 DEF n
  <2>4. pc' = "push" => unfinished'
    BY <1>1, <2>1 DEF unfinished
  <2>5. survivors' = survivors
    BY <1>1, SurvivorsStay
  <2>6. Len(copy'.nodes) \in 0 .. n /\ Len(copy'.nodes) < n
    BY <1>1, <1>2, <2>1, <2>3
  <2>7. copy' \in [at : {v1, v1next, Null, Heap}, cap : Nat \ {0}, nodes : {copy'.nodes}]
    BY <1>5, <2>1, <2>2, <2>3
  <2> QED BY <1>1, <1>2, <2>1, <2>2, <2>4, <2>5, <2>6, <2>7 DEF CopyInv
<1>14. ReleasedInv'
  <2> SUFFICES ASSUME "msync" \notin failed' PROVE ReleasedInv'
    BY DEF ReleasedInv
  <2>1. "msync" \notin failed /\ "msync" \notin fails
    BY <1>6
  <2>2. s' = t /\ pc' = "lost"
    BY <1>6, <1>10, <2>1
  <2> QED BY <1>1, <1>10, <2>1, <2>2 DEF ReleasedInv
<1>15. RoomInv'
  <2> SUFFICES ASSUME failed' = {}, Cardinality(kept') <= max_nodes' PROVE FALSE
    BY DEF RoomInv
  <2>1. failed = {}
    BY <1>6
  <2>2. copy.cap = max_nodes
    BY <1>0, <1>1, <1>2, <2>1 DEF StorageInv, RoomInv, Vectors
  <2> QED BY <1>0, <1>1, <1>2, <2>2
<1> QED BY <1>11, <1>12, <1>13, <1>14, <1>15 DEF StorageInv

\* Every step keeps the invariant.
LEMMA StorageStepKeeps == StorageInv /\ [StorageNext]_vars => StorageInv'
<1> SUFFICES ASSUME StorageInv, [StorageNext]_vars PROVE StorageInv'
  OBVIOUS
<1>1. ASSUME NEW i \in Inputs, NEW p \in Paths, NEW fails \in SUBSET {"open", "mmap"},
             AddInput(i, p, fails)
      PROVE  StorageInv'
  <2>1. "msync" \notin fails
    OBVIOUS
  <2> QED BY <1>1, <2>1, AddInputKeeps
<1>2. ASSUME NEW i \in Inputs, NEW fails, DropInput(i, fails)
      PROVE  StorageInv'
  BY <1>2, DropInputKeeps
<1>3. CASE AddNode
  BY <1>3, AddNodeKeeps
<1>4. ASSUME NEW keep \in SUBSET (1 .. Len(V)), NEW fails \in SUBSET {"open", "fill", "mmap"},
             {1, 2} \subseteq keep, GcReserve(keep, fails)
      PROVE  StorageInv'
  <2>1. "msync" \notin fails
    OBVIOUS
  <2> QED BY <1>4, <2>1, GcReserveKeeps
<1>5. CASE GcPush
  BY <1>5, GcPushKeeps
<1>6. ASSUME NEW fails, NEW closing, GcGrow(fails, closing)
      PROVE  StorageInv'
  BY <1>6, GcGrowKeeps
<1>7. ASSUME NEW fails, GcMove(fails)
      PROVE  StorageInv'
  BY <1>7, GcMoveKeeps
<1>8. CASE Lost \/ UNCHANGED vars
  <2>1. UNCHANGED <<s, inputs, mmap_mode, max_nodes, V, copy, kept, pc, failed>>
    BY <1>8 DEF Lost, vars
  <2>2. survivors' = survivors /\ unfinished' = unfinished
    BY <2>1, SurvivorsStay DEF unfinished
  <2> QED BY <2>1, <2>2 DEF StorageInv, OSInv, StoreInv, CopyInv, ReleasedInv, RoomInv
<1> QED BY <1>1, <1>2, <1>3, <1>4, <1>5, <1>6, <1>7, <1>8 DEF StorageNext

\* The inductive invariant holds of every run.
THEOREM StorageInvAlways == StorageSpec => []StorageInv
<1>1. StorageInit => StorageInv
  BY StorageInit_Inv
<1>2. StorageInv /\ [StorageNext]_vars => StorageInv'
  BY StorageStepKeeps
<1> QED BY <1>1, <1>2, PTL DEF StorageSpec

\* An input that was made shows the whole of its file until it is dropped,
\* whatever is mapped, moved and removed beside it (input(f), memory_map(f)).
THEOREM InputsWholeAlways == StorageSpec => []InputsWhole
<1>1. StorageInv => InputsWhole
  BY DEF StorageInv, OSInv, Whole, InputsWhole
<1> QED BY <1>1, StorageInvAlways, PTL

\* Unless a write-back fails, no mapping, descriptor or temporary file outlives
\* the input or the collection it was made for (memory_map::close, ~memory_map).
THEOREM NothingLeftAlways == StorageSpec => []NothingLeft
<1>1. StorageInv => NothingLeft
  <2> SUFFICES ASSUME StorageInv, "msync" \notin failed
               PROVE  LET users == inputs \cup (IF pc = "idle" THEN {} ELSE {v1, v1next})
                      IN  /\ s.mapped \subseteq users \X Files /\ s.fds \subseteq users
                          /\ s.leaked = {}
                          /\ pc = "idle" => s.files[v1] = Absent /\ s.files[v1next] = Absent
    BY DEF NothingLeft
  <2> DEFINE users == inputs \cup (IF pc = "idle" THEN {} ELSE {v1, v1next})
  <2>1. /\ s \in OS /\ s.leaked = {}
        /\ \A o \in Objects : Shape(s, o)
        /\ \A i \in Inputs \ inputs : Shut(s, i)
        /\ pc = "idle" => Shut(s, v1) /\ Shut(s, v1next)
    BY DEF StorageInv, OSInv, ReleasedInv
  <2>2. \A o \in Objects : o \notin users => Shut(s, o)
    BY <2>1 DEF Objects
  <2>3. \A o \in Objects, f \in Names : <<o, f>> \in s.mapped => o \in users /\ f \in Files
    BY <2>1, <2>2 DEF Shape, Shut, Names
  <2>4. \A o \in Objects : o \in s.fds => o \in users
    BY <2>1, <2>2 DEF Shape, Shut
  <2>5. s.mapped \in SUBSET (Objects \X Names) /\ s.fds \in SUBSET Objects
    BY <2>1 DEF OS
  <2>6. pc = "idle" => s.files[v1] = Absent /\ s.files[v1next] = Absent
    BY <2>1, InputsApart DEF Shape, Shut, Vectors
  <2> HIDE DEF users
  <2>7. s.mapped \subseteq users \X Files /\ s.fds \subseteq users
    BY <2>3, <2>4, <2>5
  <2> QED BY <2>1, <2>6, <2>7 DEF users
<1> QED BY <1>1, StorageInvAlways, PTL

\* Within --bdd-max-size a collection of which no call fails never grows its
\* vector, and what it has copied is what it meant to keep (bdd::gc).
THEOREM CollectionSafeAlways == StorageSpec => []CollectionSafe
<1>1. StorageInv => CollectionSafe
  <2> SUFFICES ASSUME StorageInv PROVE CollectionSafe
    OBVIOUS
  <2>1. pc = "push" => copy.nodes = SubSeq(survivors, 1, Len(copy.nodes))
    BY DEF StorageInv, CopyInv
  <2>2. pc = "lost" => failed # {} \/ Cardinality(kept) > max_nodes
    <3>1. pc = "lost" => max_nodes \in Nat /\ Cardinality(kept) \in Nat
      BY DEF StorageInv, StoreInv, CopyInv
    <3>2. pc = "lost" => failed # {} \/ ~(Cardinality(kept) <= max_nodes)
      BY DEF StorageInv, RoomInv
    <3> QED BY <3>1, <3>2
  <2> QED BY <2>1, <2>2 DEF CollectionSafe
<1> QED BY <1>1, StorageInvAlways, PTL
==============================================================================
