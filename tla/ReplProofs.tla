----------------------------- MODULE ReplProofs -----------------------------
(***************************************************************************)
(* What the repl's threads promise for any lines, datagrams and bound: the *)
(* console's queue is in one thread's hands at a time, and no line or      *)
(* datagram is lost, repeated or overtaken.                                *)
(***************************************************************************)
EXTENDS Repl, TLAPS

----------------------------------------------------------------------------
(* Who holds the console's mutex: the thread that is in a critical         *)
(* section, and nobody else unlocks it.                                    *)

Shapes ==
  /\ chan \in Channel
  /\ thr \in [Channel -> {"unborn", "born", "read", "lock", "emplace", "sleep", "ended",
                          "stray"}]
  /\ locked \in [Channel -> BOOLEAN]

\* the thread does not run before it is started; once aborted nothing runs
Held ==
  /\ at = "base" /\ chan = "in" => thr["in"] = "unborn"
  /\ at # "aborted" =>
       /\ locked["in"] <=> inside("in") \/ main_inside("in")
       /\ Exclusive("in")

HInv == Shapes /\ Held

\* Before the threads run no mutex is held.
LEMMA InitHeld == Init => HInv
  BY DEF Init, HInv, Shapes, Held, inside, main_inside, Exclusive, Channel

\* A step of the main thread keeps it: it enters a critical section only when the
\* mutex is free, and frees it when it leaves.
LEMMA MainKeeps == HInv /\ Main => HInv'
<1> SUFFICES ASSUME HInv, Main PROVE HInv'
  OBVIOUS
<1> USE DEF HInv, Shapes, Held, inside, main_inside, Exclusive, Channel
<1>1. CASE StartReader
  BY <1>1 DEF StartReader
<1>2. CASE InReaderBuilt
  BY <1>2 DEF InReaderBuilt, readerVars
<1>3. CASE UdpBound
  BY <1>3 DEF UdpBound, readerVars
<1>4. CASE UdpFails
  BY <1>4 DEF UdpFails
<1>5. CASE Poll
  BY <1>5 DEF Poll, next_ask, readerVars
<1>6. CASE MainLocks
  <2>1. CASE chan = "in"
    BY <1>6, <2>1 DEF MainLocks, readerVars
  <2>2. CASE chan = "udp"
    BY <1>6, <2>2 DEF MainLocks, readerVars
  <2> QED
    BY <2>1, <2>2
<1>7. CASE Asked
  <2>1. CASE chan = "in"
    BY <1>7, <2>1 DEF Asked, next_ask, readerVars
  <2>2. CASE chan = "udp"
    BY <1>7, <2>2 DEF Asked, next_ask, readerVars
  <2> QED
    BY <2>1, <2>2
<1>8. CASE Took
  <2>1. CASE chan = "in"
    BY <1>8, <2>1 DEF Took
  <2>2. CASE chan = "udp"
    BY <1>8, <2>2 DEF Took
  <2> QED
    BY <2>1, <2>2
<1>9. CASE SkipLine
  BY <1>9 DEF SkipLine, next_ask, readerVars
<1>10. CASE EvalInput
  BY <1>10 DEF EvalInput, next_ask, readerVars
<1> QED
  BY <1>1, <1>2, <1>3, <1>4, <1>5, <1>6, <1>7, <1>8, <1>9, <1>10 DEF Main

\* So does a step of the console's thread.
LEMMA InReaderKeeps == HInv /\ InReader => HInv'
<1> SUFFICES ASSUME HInv, InReader PROVE HInv'
  OBVIOUS
<1> USE DEF HInv, Shapes, Held, inside, main_inside, Exclusive, Channel, mainVars, Goes, ended
<1>1. CASE Begin("in")
  BY <1>1 DEF Begin
<1>2. CASE GetLine
  BY <1>2 DEF GetLine, Reads
<1>3. CASE GetLineFails
  BY <1>3 DEF GetLineFails
<1>4. CASE Lock("in")
  BY <1>4 DEF Lock
<1>5. CASE Push
  BY <1>5 DEF Push
<1> QED
  BY <1>1, <1>2, <1>3, <1>4, <1>5 DEF InReader

\* The other thread touches another mutex.
LEMMA UdpReaderKeeps == HInv /\ UdpReader => HInv'
<1> SUFFICES ASSUME HInv, UdpReader PROVE HInv'
  OBVIOUS
<1> USE DEF HInv, Shapes, Held, inside, main_inside, Exclusive, Channel, mainVars, Goes
<1>1. CASE Begin("udp")
  BY <1>1 DEF Begin
<1>2. CASE RecvFrom
  BY <1>2 DEF RecvFrom, Reads
<1>3. CASE RecvNothing
  BY <1>3 DEF RecvNothing
<1>4. CASE Lock("udp")
  BY <1>4 DEF Lock
<1>5. CASE Emplace
  BY <1>5 DEF Emplace
<1>6. CASE Sleep
  BY <1>6 DEF Sleep
<1> QED
  BY <1>1, <1>2, <1>3, <1>4, <1>5, <1>6 DEF UdpReader

\* The console's queue is never in the hands of both threads (repl.h's and
\* async_reader.h's lock_guards), whatever happens on the socket beside it.
THEOREM ConsoleExclusiveAlways == Spec => []ConsoleExclusive
<1>1. HInv /\ [Next]_replVars => HInv'
  <2> SUFFICES ASSUME HInv, [Next]_replVars PROVE HInv'
    OBVIOUS
  <2>1. CASE Main
    BY <2>1, MainKeeps
  <2>2. CASE InReader
    BY <2>2, InReaderKeeps
  <2>3. CASE UdpReader
    BY <2>3, UdpReaderKeeps
  <2>4. CASE Undefined
    BY <2>4 DEF Undefined, HInv, Shapes, Held, readerVars
  <2>5. CASE UNCHANGED replVars
    BY <2>5 DEF replVars, mainVars, readerVars, HInv, Shapes, Held, inside, main_inside,
                Exclusive
  <2> QED
    BY <2>1, <2>2, <2>3, <2>4, <2>5 DEF Next, Ended
<1>2. HInv => ConsoleExclusive
  BY DEF HInv, Held, ConsoleExclusive, Exclusive, main_inside
<1> QED
  BY InitHeld, <1>1, <1>2, PTL DEF Spec
----------------------------------------------------------------------------
(* Where everything that was read is. *)

Words(c) == IF c = "in" THEN Line ELSE Datagram

ReadTypeOK ==
  /\ ReplTypeOK
  /\ \A c \in Channel :
       /\ given[c] \in Seq(Words(c)) /\ q[c] \in Seq(Words(c))
       /\ thr[c] \in {"lock", "emplace"} => got[c] \in Words(c)

\* Nobody has asked the socket before it is bound; the loop only takes from a
\* queue it has found something in.
Ready ==
  /\ at \in {"base", "derived"} => closed /\ (chan = "in" => thr["udp"] = "unborn")
  /\ at = "base" => thr[chan] = "unborn"
  /\ closed => thr["udp"] \notin {"lock", "emplace"}
  /\ at \in {"take", "taking"} => q[chan] # << >>

Flow(c) ==
  as_commands(c, given[c]) =
    evaluated[c] \o in_hands(c) \o as_commands(c, q[c]) \o in_thread(c)

Accounted == at # "aborted" => \A c \in Channel : Flow(c)

ReadInv == ReadTypeOK /\ Ready /\ Accounted

----------------------------------------------------------------------------
(* Sequences. *)

\* What the loop makes of a line or a datagram is a command.
LEMMA CommandType ==
  ASSUME NEW c \in Channel, NEW w \in Words(c)
  PROVE  as_command(c, w) \in Command
BY ReplAssumption DEF Channel, Words, as_command, Command

\* What was read makes commands.
LEMMA CommandsType ==
  ASSUME NEW c \in Channel, NEW ws \in Seq(Words(c))
  PROVE  as_commands(c, ws) \in Seq(Command)
BY CommandType DEF as_commands

\* One more read is one more command.
LEMMA CommandsAppend ==
  ASSUME NEW c \in Channel, NEW ws \in Seq(Words(c)), NEW w \in Words(c)
  PROVE  as_commands(c, Append(ws, w)) = Append(as_commands(c, ws), as_command(c, w))
BY DEF as_commands

\* The first of a queue comes before the rest.
LEMMA CommandsHead ==
  ASSUME NEW c \in Channel, NEW ws \in Seq(Words(c)), ws # << >>
  PROVE  as_commands(c, ws) = <<as_command(c, Head(ws))>> \o as_commands(c, Tail(ws))
BY DEF as_commands

\* What is read joins the end.
LEMMA JoinsEnd ==
  ASSUME NEW S, NEW a \in Seq(S), NEW b \in Seq(S), NEW r \in Seq(S), NEW x \in S
  PROVE  Append(a \o b \o r \o << >>, x) = a \o b \o r \o <<x>>
OBVIOUS

\* What is queued leaves the thread.
LEMMA JoinsQueue ==
  ASSUME NEW S, NEW a \in Seq(S), NEW b \in Seq(S), NEW r \in Seq(S), NEW x \in S
  PROVE  a \o b \o Append(r, x) \o << >> = a \o b \o r \o <<x>>
OBVIOUS

\* What is taken leaves the queue.
LEMMA LeavesQueue ==
  ASSUME NEW S, NEW a \in Seq(S), NEW r \in Seq(S), NEW t \in Seq(S), NEW x \in S
  PROVE  a \o << >> \o (<<x>> \o r) \o t = a \o <<x>> \o r \o t
OBVIOUS

\* What is evaluated leaves the hands.
LEMMA LeavesHands ==
  ASSUME NEW S, NEW a \in Seq(S), NEW r \in Seq(S), NEW t \in Seq(S), NEW x \in S
  PROVE  Append(a, x) \o << >> \o r \o t = a \o <<x>> \o r \o t
OBVIOUS

----------------------------------------------------------------------------
(* The steps. *)

\* Before the threads run nothing is read.
LEMMA InitRead == Init => ReadInv
<1> SUFFICES ASSUME Init PROVE ReadInv
  OBVIOUS
<1>1. Empty \in Command /\ Empty \in Line
  BY ReplAssumption DEF Command
<1>2. ReadTypeOK
  BY <1>1 DEF Init, ReadTypeOK, ReplTypeOK, Channel, Words
<1>3. Ready
  BY DEF Init, Ready, Channel
<1>4. Accounted
  BY DEF Init, Accounted, Flow, Channel, as_commands, in_hands, in_thread
<1> QED BY <1>2, <1>3, <1>4 DEF ReadInv

\* The loop's steps that neither take nor evaluate, and the construction, move nothing.
LEMMA WaitingKeeps ==
  ASSUME ReadInv,
         StartReader \/ InReaderBuilt \/ UdpBound \/ UdpFails \/ Poll \/ MainLocks \/ Asked
  PROVE  ReadInv'
<1> USE DEF Channel
<1>1. /\ UNCHANGED <<given, q, got, evaluated, input, ll>>
      /\ at # "eval" /\ at' # "eval" /\ at # "aborted"
  BY DEF StartReader, InReaderBuilt, UdpBound, UdpFails, Poll, MainLocks, Asked, next_ask, readerVars
<1>2. \A c \in Channel : (thr'[c] \in {"lock", "emplace"}) <=> (thr[c] \in {"lock", "emplace"})
  <2>1. CASE StartReader
    BY <2>1 DEF StartReader, ReadInv, Ready, ReadTypeOK, ReplTypeOK
  <2>2. CASE UdpFails
    BY <2>2 DEF UdpFails, ReadInv, Ready, ReadTypeOK, ReplTypeOK
  <2>3. CASE InReaderBuilt \/ UdpBound \/ Poll \/ MainLocks \/ Asked
    BY <2>3 DEF InReaderBuilt, UdpBound, Poll, MainLocks, Asked, readerVars
  <2> QED BY <2>1, <2>2, <2>3
<1>3. Accounted'
  BY <1>1, <1>2 DEF ReadInv, Accounted, Flow, in_hands, in_thread
<1>4. ReadTypeOK'
  <2>1. ReplTypeOK'
    <3> USE DEF ReadInv, ReadTypeOK, ReplTypeOK
    <3>1. CASE StartReader
      BY <3>1 DEF StartReader
    <3>2. CASE InReaderBuilt
      BY <3>2 DEF InReaderBuilt, readerVars
    <3>3. CASE UdpBound
      BY <3>3 DEF UdpBound, readerVars
    <3>4. CASE UdpFails
      BY <3>4 DEF UdpFails
    <3>5. CASE Poll
      BY <3>5 DEF Poll, next_ask, readerVars
    <3>6. CASE MainLocks
      BY <3>6 DEF MainLocks, readerVars
    <3>7. CASE Asked
      BY <3>7 DEF Asked, next_ask, readerVars
    <3> QED BY <3>1, <3>2, <3>3, <3>4, <3>5, <3>6, <3>7
  <2> QED BY <1>1, <1>2, <2>1 DEF ReadInv, ReadTypeOK
<1>5. Ready'
  <2> USE DEF ReadInv, Ready, ReadTypeOK, ReplTypeOK
  <2>1. CASE StartReader
    BY <2>1 DEF StartReader
  <2>2. CASE InReaderBuilt
    BY <2>2 DEF InReaderBuilt, readerVars
  <2>3. CASE UdpBound
    BY <2>3 DEF UdpBound, readerVars
  <2>4. CASE UdpFails
    BY <2>4 DEF UdpFails
  <2>5. CASE Poll
    BY <2>5 DEF Poll, next_ask, readerVars
  <2>6. CASE MainLocks
    BY <2>6 DEF MainLocks, readerVars
  <2>7. CASE Asked
    BY <2>7 DEF Asked, next_ask, readable, readerVars
  <2> QED BY <2>1, <2>2, <2>3, <2>4, <2>5, <2>6, <2>7
<1> QED BY <1>3, <1>4, <1>5 DEF ReadInv

\* The first of the queue comes into the loop's hands.
LEMMA TookKeeps ==
  ASSUME ReadInv, Took
  PROVE  ReadInv'
<1>0. PICK c \in Channel : c = chan
  BY DEF ReadInv, ReadTypeOK, ReplTypeOK
<1> DEFINE R == Words(c)
<1>1. /\ at = "taking" /\ at' = "eval" /\ chan' = chan
      /\ q' = [q EXCEPT ![chan] = Tail(@)]
      /\ input' = as_command(chan, Head(q[chan]))
      /\ UNCHANGED <<ll, evaluated, up_udp, closed, thr, got, given, cin>>
      /\ locked' = [locked EXCEPT ![chan] = FALSE]
  BY DEF Took
<1>2. /\ ReplTypeOK /\ c \in Channel
      /\ q[c] \in Seq(R) /\ q[c] # << >>
      /\ \A d \in Channel : given[d] \in Seq(Words(d)) /\ q[d] \in Seq(Words(d))
      /\ \A d \in Channel : thr[d] \in {"lock", "emplace"} => got[d] \in Words(d)
      /\ \A d \in Channel : Flow(d)
  BY <1>0, <1>1 DEF ReadInv, ReadTypeOK, ReplTypeOK, Ready, Accounted
<1>3. Head(q[c]) \in R /\ Tail(q[c]) \in Seq(R)
  BY <1>2
<1>4. input' \in Command
  BY <1>0, <1>1, <1>2, <1>3, CommandType
<1>5. q'[c] = Tail(q[c]) /\ \A d \in Channel : d # c => q'[d] = q[d]
  BY <1>0, <1>1, <1>2 DEF ReplTypeOK
<1>6. ReadTypeOK'
  <2>1. R \subseteq Line \cup Datagram
    BY DEF Words
  <2>2. q' \in [Channel -> Seq(Line \cup Datagram)]
    BY <1>0, <1>1, <1>2, <1>3, <2>1 DEF ReplTypeOK
  <2>3. ReplTypeOK'
    BY <1>1, <1>2, <1>4, <2>2 DEF ReplTypeOK
  <2> QED BY <1>1, <1>2, <1>3, <1>5, <2>3 DEF ReadTypeOK
<1>7. Ready'
  BY <1>1 DEF ReadInv, Ready
<1>8. Accounted'
  <2>1. ASSUME NEW d \in Channel, d # c PROVE Flow(d)'
    BY <1>0, <1>1, <1>2, <1>5, <2>1 DEF Flow, in_hands, in_thread
  <2>2. Flow(c)'
    <3> DEFINE a == evaluated[c]
               x == as_command(c, Head(q[c]))
               r == as_commands(c, Tail(q[c]))
               t == in_thread(c)
    <3>1. a \in Seq(Command) /\ x \in Command /\ r \in Seq(Command) /\ t \in Seq(Command)
      <4>1. a \in Seq(Command) /\ x \in Command /\ r \in Seq(Command)
        BY <1>2, <1>3, CommandType, CommandsType DEF ReplTypeOK
      <4>2. t \in Seq(Command)
        BY <1>2, CommandType DEF in_thread
      <4> QED BY <4>1, <4>2
    <3>2. as_commands(c, q[c]) = <<x>> \o r
      BY <1>2, CommandsHead
    <3>3. as_commands(c, given[c]) = a \o << >> \o (<<x>> \o r) \o t
      BY <1>0, <1>1, <1>2, <3>2 DEF Flow, in_hands
    <3>4. as_commands(c, given'[c]) = as_commands(c, given[c]) /\ in_thread(c)' = t
          /\ in_hands(c)' = <<x>> /\ evaluated'[c] = a /\ as_commands(c, q'[c]) = r
      BY <1>0, <1>1, <1>5 DEF in_thread, in_hands
    <3> HIDE DEF a, x, r, t
    <3>5. a \o << >> \o (<<x>> \o r) \o t = a \o <<x>> \o r \o t
      BY <3>1, LeavesQueue
    <3>6. as_commands(c, given'[c]) = evaluated'[c] \o in_hands(c)' \o as_commands(c, q'[c]) \o in_thread(c)'
      BY <3>3, <3>4, <3>5
    <3> QED BY <1>1, <3>6 DEF Flow
  <2> QED BY <2>1, <2>2 DEF Accounted
<1> QED BY <1>6, <1>7, <1>8 DEF ReadInv

\* What was in the loop's hands has been evaluated, or was an empty line.
LEMMA HandsEmptied ==
  ASSUME ReadInv, SkipLine \/ EvalInput
  PROVE  ReadInv'
<1>0. PICK c \in Channel : c = chan
  BY DEF ReadInv, ReadTypeOK, ReplTypeOK
<1>1. /\ at = "eval" /\ at' \in {"ask", "loop", "quit"} /\ chan' \in Channel
      /\ evaluated' = [evaluated EXCEPT ![c] = Append(@, input)]
      /\ input' = Empty /\ ll' \in {ll, input}
      /\ UNCHANGED <<up_udp, closed, thr, got, given, q, cin, locked>>
  <2>1. CASE SkipLine
    BY <1>0, <2>1 DEF SkipLine, next_ask, readerVars, Channel
  <2>2. CASE EvalInput
    BY <1>0, <2>2 DEF EvalInput, next_ask, readerVars, Channel
  <2> QED BY <2>1, <2>2
<1>2. /\ ReplTypeOK /\ input \in Command /\ Empty \in Command
      /\ \A d \in Channel : given[d] \in Seq(Words(d)) /\ q[d] \in Seq(Words(d))
      /\ \A d \in Channel : thr[d] \in {"lock", "emplace"} => got[d] \in Words(d)
      /\ \A d \in Channel : Flow(d)
  BY <1>1 DEF ReadInv, ReadTypeOK, ReplTypeOK, Accounted, Command
<1>3. evaluated'[c] = Append(evaluated[c], input)
      /\ \A d \in Channel : d # c => evaluated'[d] = evaluated[d]
  BY <1>1, <1>2 DEF ReplTypeOK
<1>4. ReadTypeOK'
  <2>1. evaluated' \in [Channel -> Seq(Command)]
    BY <1>1, <1>2 DEF ReplTypeOK
  <2>2. ReplTypeOK'
    BY <1>1, <1>2, <2>1 DEF ReplTypeOK
  <2> QED BY <1>1, <1>2, <2>2 DEF ReadTypeOK
<1>5. Ready'
  BY <1>1 DEF ReadInv, Ready
<1>6. Accounted'
  <2>1. ASSUME NEW d \in Channel, d # c PROVE Flow(d)'
    BY <1>0, <1>1, <1>2, <1>3, <2>1 DEF Flow, in_hands, in_thread
  <2>2. Flow(c)'
    <3> DEFINE a == evaluated[c]
               r == as_commands(c, q[c])
               t == in_thread(c)
    <3>1. a \in Seq(Command) /\ input \in Command /\ r \in Seq(Command) /\ t \in Seq(Command)
      <4>1. a \in Seq(Command) /\ r \in Seq(Command)
        BY <1>2, CommandsType DEF ReplTypeOK
      <4>2. t \in Seq(Command)
        BY <1>2, CommandType DEF in_thread
      <4> QED BY <1>2, <4>1, <4>2
    <3>2. as_commands(c, given[c]) = a \o <<input>> \o r \o t
      BY <1>0, <1>1, <1>2 DEF Flow, in_hands
    <3>3. as_commands(c, given'[c]) = as_commands(c, given[c]) /\ in_thread(c)' = t
          /\ in_hands(c)' = << >> /\ evaluated'[c] = Append(a, input) /\ as_commands(c, q'[c]) = r
      BY <1>1, <1>3 DEF in_thread, in_hands
    <3> HIDE DEF a, r, t
    <3>4. Append(a, input) \o << >> \o r \o t = a \o <<input>> \o r \o t
      BY <3>1, LeavesHands
    <3>5. as_commands(c, given'[c]) = evaluated'[c] \o in_hands(c)' \o as_commands(c, q'[c]) \o in_thread(c)'
      BY <3>2, <3>3, <3>4
    <3> QED BY <3>5 DEF Flow
  <2> QED BY <2>1, <2>2 DEF Accounted
<1> QED BY <1>4, <1>5, <1>6 DEF ReadInv

\* A thread's step that neither reads nor queues moves nothing.
LEMMA ThreadKeeps ==
  ASSUME ReadInv, NEW c \in Channel,
         Begin(c) \/ (c = "in" /\ GetLineFails) \/ (c = "udp" /\ RecvNothing) \/ Lock(c)
           \/ (c = "udp" /\ Sleep)
  PROVE  ReadInv'
<1>1. /\ UNCHANGED <<mainVars, got, given, q>> /\ at # "aborted"
      /\ locked' \in {locked, [locked EXCEPT ![c] = TRUE], [locked EXCEPT ![c] = FALSE]}
      /\ cin' \in {cin, FALSE}
      /\ \E from, to \in {"born", "read", "lock", "emplace", "sleep", "ended"} :
           /\ thr[c] = from /\ thr' = [thr EXCEPT ![c] = to]
           /\ from = "lock" <=> to = "emplace"
           /\ to # "lock" /\ from # "emplace"
  BY DEF Begin, GetLineFails, RecvNothing, Lock, Sleep, Goes, ended
<1>2. PICK from, to \in {"born", "read", "lock", "emplace", "sleep", "ended"} :
        /\ thr[c] = from /\ thr' = [thr EXCEPT ![c] = to]
        /\ from = "lock" <=> to = "emplace"
        /\ to # "lock" /\ from # "emplace"
  BY <1>1
<1>3. ReplTypeOK
  BY DEF ReadInv, ReadTypeOK
<1>4. thr'[c] = to /\ \A d \in Channel : d # c => thr'[d] = thr[d]
  BY <1>2, <1>3 DEF ReplTypeOK
<1>5. \A d \in Channel : (thr'[d] \in {"lock", "emplace"}) <=> (thr[d] \in {"lock", "emplace"})
  BY <1>2, <1>4
<1>6. ReadTypeOK'
  <2>1. ReplTypeOK'
    BY <1>1, <1>2, <1>3 DEF ReplTypeOK, mainVars
  <2> QED BY <1>1, <1>5, <2>1 DEF ReadInv, ReadTypeOK, mainVars
<1>7. Ready'
  BY <1>1, <1>2, <1>3, <1>4, <1>5 DEF ReadInv, Ready, mainVars, Channel, ReplTypeOK
<1>8. Accounted'
  BY <1>1, <1>5 DEF ReadInv, Accounted, Flow, in_hands, in_thread, mainVars
<1> QED BY <1>6, <1>7, <1>8 DEF ReadInv

\* A line or a datagram that was read is the last of its channel.
LEMMA ReadsKeeps ==
  ASSUME ReadInv, NEW c \in Channel, NEW w \in Words(c), Reads(c, w), c = "udp" => ~closed
  PROVE  ReadInv'
<1>1. /\ at # "aborted" /\ thr[c] = "read" /\ thr' = [thr EXCEPT ![c] = "lock"]
      /\ got' = [got EXCEPT ![c] = w]
      /\ given' = [given EXCEPT ![c] = Append(@, w)]
      /\ UNCHANGED <<mainVars, q, locked, cin>>
  BY DEF Reads, Goes, ended
<1>2. /\ ReplTypeOK
      /\ \A d \in Channel : given[d] \in Seq(Words(d)) /\ q[d] \in Seq(Words(d))
      /\ \A d \in Channel : thr[d] \in {"lock", "emplace"} => got[d] \in Words(d)
      /\ \A d \in Channel : Flow(d)
      /\ Words(c) \subseteq Line \cup Datagram
  BY <1>1 DEF ReadInv, ReadTypeOK, Accounted, Words
<1>3. /\ thr'[c] = "lock" /\ got'[c] = w /\ given'[c] = Append(given[c], w)
      /\ \A d \in Channel : d # c => thr'[d] = thr[d] /\ got'[d] = got[d] /\ given'[d] = given[d]
  BY <1>1, <1>2 DEF ReplTypeOK
<1>4. ReadTypeOK'
  <2>1. /\ thr' \in [Channel -> {"unborn", "born", "read", "lock", "emplace", "sleep", "ended",
                                 "stray"}]
        /\ got' \in [Channel -> Line \cup Datagram \cup {Empty}]
    BY <1>1, <1>2 DEF ReplTypeOK
  <2>2. given' \in [Channel -> Seq(Line \cup Datagram)]
    BY <1>1, <1>2 DEF ReplTypeOK
  <2>3. ReplTypeOK'
    BY <1>1, <1>2, <2>1, <2>2 DEF ReplTypeOK, mainVars
  <2> QED BY <1>1, <1>2, <1>3, <2>3 DEF ReadTypeOK
<1>5. Ready'
  BY <1>1, <1>3 DEF ReadInv, Ready, mainVars, Channel
<1>6. Accounted'
  <2>1. ASSUME NEW d \in Channel, d # c PROVE Flow(d)'
    BY <1>1, <1>2, <1>3, <2>1 DEF Flow, in_hands, in_thread, mainVars
  <2>2. Flow(c)'
    <3> DEFINE a == evaluated[c]
               b == in_hands(c)
               r == as_commands(c, q[c])
               x == as_command(c, w)
    <3>1. a \in Seq(Command) /\ b \in Seq(Command) /\ r \in Seq(Command) /\ x \in Command
      BY <1>2, CommandsType, CommandType DEF ReplTypeOK, in_hands
    <3>2. as_commands(c, given[c]) = a \o b \o r \o << >>
      BY <1>1, <1>2 DEF Flow, in_thread
    <3>3. as_commands(c, given'[c]) = Append(as_commands(c, given[c]), x)
      BY <1>2, <1>3, CommandsAppend
    <3>4. in_thread(c)' = <<x>> /\ in_hands(c)' = b /\ evaluated'[c] = a /\ as_commands(c, q'[c]) = r
      BY <1>1, <1>3 DEF in_thread, in_hands, mainVars, as_command
    <3> HIDE DEF a, b, r, x
    <3>5. Append(a \o b \o r \o << >>, x) = a \o b \o r \o <<x>>
      BY <3>1, JoinsEnd
    <3>6. as_commands(c, given'[c]) = evaluated'[c] \o in_hands(c)' \o as_commands(c, q'[c]) \o in_thread(c)'
      BY <3>2, <3>3, <3>4, <3>5
    <3> QED BY <3>6 DEF Flow
  <2> QED BY <2>1, <2>2 DEF Accounted
<1> QED BY <1>4, <1>5, <1>6 DEF ReadInv

\* What is queued is the last of the queue.
LEMMA QueuesKeeps ==
  ASSUME ReadInv, NEW c \in Channel, (c = "in" /\ Push) \/ (c = "udp" /\ Emplace)
  PROVE  ReadInv'
<1>1. /\ at # "aborted" /\ thr[c] = "emplace"
      /\ thr' \in {[thr EXCEPT ![c] = "read"], [thr EXCEPT ![c] = "sleep"]}
      /\ q' = [q EXCEPT ![c] = Append(@, got[c])]
      /\ got' = [got EXCEPT ![c] = Empty]
      /\ locked' \in {locked, [locked EXCEPT ![c] = FALSE]}
      /\ UNCHANGED <<mainVars, given, cin>>
  BY DEF Push, Emplace, Goes, ended
<1>2. /\ ReplTypeOK
      /\ \A d \in Channel : given[d] \in Seq(Words(d)) /\ q[d] \in Seq(Words(d))
      /\ \A d \in Channel : thr[d] \in {"lock", "emplace"} => got[d] \in Words(d)
      /\ \A d \in Channel : Flow(d)
      /\ Words(c) \subseteq Line \cup Datagram /\ got[c] \in Words(c)
  BY <1>1 DEF ReadInv, ReadTypeOK, Accounted, Words
<1>3. /\ thr'[c] \in {"read", "sleep"} /\ q'[c] = Append(q[c], got[c])
      /\ \A d \in Channel : d # c => thr'[d] = thr[d] /\ got'[d] = got[d] /\ q'[d] = q[d]
  BY <1>1, <1>2 DEF ReplTypeOK
<1>4. ReadTypeOK'
  <2>1. /\ thr' \in [Channel -> {"unborn", "born", "read", "lock", "emplace", "sleep", "ended",
                                 "stray"}]
        /\ got' \in [Channel -> Line \cup Datagram \cup {Empty}]
    BY <1>1, <1>2 DEF ReplTypeOK
  <2>2. q' \in [Channel -> Seq(Line \cup Datagram)]
    BY <1>1, <1>2 DEF ReplTypeOK
  <2>3. locked' \in [Channel -> BOOLEAN]
    BY <1>1, <1>2 DEF ReplTypeOK
  <2>4. ReplTypeOK'
    BY <1>1, <1>2, <2>1, <2>2, <2>3 DEF ReplTypeOK, mainVars
  <2> QED BY <1>1, <1>2, <1>3, <2>4 DEF ReadTypeOK
<1>5. Ready'
  <2>1. at \in {"take", "taking"} => q'[chan] # << >>
    BY <1>2, <1>3 DEF ReadInv, Ready, ReplTypeOK
  <2>2. at = "base" => chan # c
    BY <1>1 DEF ReadInv, Ready
  <2> QED BY <1>1, <1>2, <1>3, <2>1, <2>2 DEF ReadInv, Ready, mainVars, Channel, ReplTypeOK
<1>6. Accounted'
  <2>1. ASSUME NEW d \in Channel, d # c PROVE Flow(d)'
    BY <1>1, <1>2, <1>3, <2>1 DEF Flow, in_hands, in_thread, mainVars
  <2>2. Flow(c)'
    <3> DEFINE a == evaluated[c]
               b == in_hands(c)
               r == as_commands(c, q[c])
               x == as_command(c, got[c])
    <3>1. a \in Seq(Command) /\ b \in Seq(Command) /\ r \in Seq(Command) /\ x \in Command
      BY <1>2, CommandsType, CommandType DEF ReplTypeOK, in_hands
    <3>2. as_commands(c, given[c]) = a \o b \o r \o <<x>>
      BY <1>1, <1>2 DEF Flow, in_thread
    <3>3. as_commands(c, q'[c]) = Append(r, x)
      BY <1>2, <1>3, CommandsAppend
    <3>4. in_thread(c)' = << >> /\ in_hands(c)' = b /\ evaluated'[c] = a
          /\ as_commands(c, given'[c]) = as_commands(c, given[c])
      BY <1>1, <1>3 DEF in_thread, in_hands, mainVars
    <3> HIDE DEF a, b, r, x
    <3>5. a \o b \o Append(r, x) \o << >> = a \o b \o r \o <<x>>
      BY <3>1, JoinsQueue
    <3>6. as_commands(c, given'[c]) = evaluated'[c] \o in_hands(c)' \o as_commands(c, q'[c]) \o in_thread(c)'
      BY <3>2, <3>3, <3>4, <3>5
    <3> QED BY <3>6 DEF Flow
  <2> QED BY <2>1, <2>2 DEF Accounted
<1> QED BY <1>4, <1>5, <1>6 DEF ReadInv

\* Every step keeps what is waiting in order.
LEMMA ReadStepKeeps == ReadInv /\ [Next]_replVars => ReadInv'
<1> SUFFICES ASSUME ReadInv, [Next]_replVars PROVE ReadInv'
  OBVIOUS
<1>0. "in" \in Channel /\ "udp" \in Channel /\ Words("in") = Line /\ Words("udp") = Datagram
  BY DEF Channel, Words
<1>1. CASE Main
  BY <1>1, WaitingKeeps, TookKeeps, HandsEmptied DEF Main
<1>2. CASE InReader
  <2>1. ASSUME NEW l \in Line, Reads("in", l) PROVE ReadInv'
    BY <1>0, <2>1, ReadsKeeps
  <2>2. CASE Begin("in") \/ GetLineFails \/ Lock("in")
    BY <1>0, <2>2, ThreadKeeps
  <2>3. CASE Push
    BY <1>0, <2>3, QueuesKeeps
  <2> QED BY <1>2, <2>1, <2>2, <2>3 DEF InReader, GetLine
<1>3. CASE UdpReader
  <2>1. ASSUME ~closed, NEW d \in Datagram, Reads("udp", d) PROVE ReadInv'
    BY <1>0, <2>1, ReadsKeeps
  <2>2. CASE Begin("udp") \/ RecvNothing \/ Lock("udp") \/ Sleep
    BY <1>0, <2>2, ThreadKeeps
  <2>3. CASE Emplace
    BY <1>0, <2>3, QueuesKeeps
  <2> QED BY <1>3, <2>1, <2>2, <2>3 DEF UdpReader, RecvFrom
<1>4. CASE Undefined
  BY <1>4 DEF Undefined, readerVars, ReadInv, ReadTypeOK, ReplTypeOK, Ready, Accounted
<1>5. CASE UNCHANGED replVars
  BY <1>5 DEF replVars, mainVars, readerVars, ReadInv, ReadTypeOK, ReplTypeOK, Ready, Accounted,
              Flow, in_hands, in_thread
<1> QED BY <1>1, <1>2, <1>3, <1>4, <1>5 DEF Next, Ended

----------------------------------------------------------------------------
(* The loop and its readers deliver in order: from where everything is      *)
(* before and after a step it follows what the step does to what is held.   *)

\* What is held of a channel is a sequence of commands, and what was read is what
\* was evaluated and what is held.
LEMMA FlowIs ==
  ASSUME ReadInv, at # "aborted", NEW c \in Channel
  PROVE  /\ waiting(c) \in Seq(Command) /\ evaluated[c] \in Seq(Command)
         /\ as_commands(c, given[c]) = evaluated[c] \o waiting(c)
<1>1. evaluated[c] \in Seq(Command) /\ in_hands(c) \in Seq(Command)
  BY DEF ReadInv, ReadTypeOK, ReplTypeOK, in_hands
<1>2. as_commands(c, q[c]) \in Seq(Command)
  BY CommandsType DEF ReadInv, ReadTypeOK
<1>3. in_thread(c) \in Seq(Command)
  BY CommandType DEF ReadInv, ReadTypeOK, in_thread
<1>4. Flow(c)
  BY DEF ReadInv, Accounted
<1>5. waiting(c) = in_hands(c) \o as_commands(c, q[c]) \o in_thread(c)
  BY DEF waiting
<1>6. /\ waiting(c) \in Seq(Command)
      /\ evaluated[c] \o in_hands(c) \o as_commands(c, q[c]) \o in_thread(c)
           = evaluated[c] \o waiting(c)
  <2>1. PICK e, h, k, t : /\ e = evaluated[c] /\ h = in_hands(c)
                          /\ k = as_commands(c, q[c]) /\ t = in_thread(c)
    OBVIOUS
  <2>2. e \in Seq(Command) /\ h \in Seq(Command) /\ k \in Seq(Command) /\ t \in Seq(Command)
    BY <1>1, <1>2, <1>3, <2>1
  <2>3. h \o k \o t \in Seq(Command) /\ e \o h \o k \o t = e \o (h \o k \o t)
    <3>1. h \o k \in Seq(Command) /\ e \o h \o k = e \o (h \o k)
      BY <2>2
    <3>2. \A s \in Seq(Command) : s \o t \in Seq(Command) /\ e \o s \o t = e \o (s \o t)
      BY <2>2
    <3> QED
      BY <3>1, <3>2
  <2> QED
    BY <1>5, <2>1, <2>3
<1> QED
  BY <1>1, <1>4, <1>6 DEF Flow

\* What comes after the same beginning.
LEMMA SameRest ==
  ASSUME NEW S, NEW a \in Seq(S), NEW b \in Seq(S), NEW t \in Seq(S), a \o t = a \o b
  PROVE  t = b
<1>1. Len(t) = Len(b)
  <2>1. Len(a \o t) = Len(a) + Len(t) /\ Len(a \o b) = Len(a) + Len(b)
    OBVIOUS
  <2> QED
    BY <2>1
<1>2. \A i \in 1 .. Len(t) : t[i] = (a \o t)[Len(a) + i] /\ b[i] = (a \o b)[Len(a) + i]
  BY <1>1
<1> QED
  BY <1>1, <1>2

\* What joins the end of a flow joins the end of what waits.
LEMMA LastJoins ==
  ASSUME NEW S, NEW a \in Seq(S), NEW b \in Seq(S), NEW t \in Seq(S), NEW x \in S,
         a \o t = Append(a \o b, x)
  PROVE  t = Append(b, x)
<1>1. a \o t = a \o Append(b, x)
  OBVIOUS
<1>2. Append(b, x) \in Seq(S)
  OBVIOUS
<1> QED
  BY <1>1, <1>2, SameRest

\* What leaves for the evaluated was the first of what waited.
LEMMA FirstLeaves ==
  ASSUME NEW S, NEW a \in Seq(S), NEW b \in Seq(S), NEW t \in Seq(S), NEW x \in S,
         Append(a, x) \o t = a \o b
  PROVE  b # << >> /\ Head(b) = x /\ Tail(b) = t
<1>1. a \o (<<x>> \o t) = a \o b
  OBVIOUS
<1>2. <<x>> \o t \in Seq(S)
  OBVIOUS
<1>3. b = <<x>> \o t
  BY <1>1, <1>2, SameRest
<1> QED
  BY <1>3

\* A step reads or evaluates one thing of one channel, or neither.
Quiet   == UNCHANGED <<given, evaluated>>
ReadsOne == \E c \in Channel : \E w \in Words(c) :
  given' = [given EXCEPT ![c] = Append(@, w)] /\ UNCHANGED evaluated
EvaluatesOne == \E c \in Channel :
  evaluated' = [evaluated EXCEPT ![c] = Append(@, input)] /\ UNCHANGED given

\* A step reads one, evaluates one, or does neither; an aborted program does nothing.
LEMMA StepIs ==
  ASSUME ReadInv, [Next]_replVars
  PROVE  /\ Quiet \/ (at # "aborted" /\ at' # "aborted" /\ (ReadsOne \/ EvaluatesOne))
         /\ at = "aborted" => at' = "aborted"
<1> USE DEF Quiet
<1>0. "in" \in Channel /\ "udp" \in Channel /\ Words("in") = Line /\ Words("udp") = Datagram
  BY DEF Channel, Words
<1>1. CASE Main
  <2>1. CASE StartReader \/ InReaderBuilt \/ UdpBound \/ UdpFails
    BY <2>1 DEF StartReader, InReaderBuilt, UdpBound, UdpFails, readerVars
  <2>2. CASE Poll \/ MainLocks \/ Asked \/ Took
    BY <2>2 DEF Poll, MainLocks, Asked, Took, next_ask, readerVars
  <2>3. CASE SkipLine
    <3>1. at # "aborted" /\ at' # "aborted" /\ given' = given
      BY <2>3 DEF SkipLine, next_ask, readerVars
    <3>2. evaluated' = [evaluated EXCEPT !["in"] = Append(@, input)]
      BY <2>3 DEF SkipLine
    <3> QED
      BY <1>0, <3>1, <3>2 DEF EvaluatesOne
  <2>4. CASE EvalInput
    <3>1. at # "aborted" /\ at' # "aborted" /\ given' = given
      BY <2>4 DEF EvalInput, next_ask, readerVars
    <3>2. evaluated' = [evaluated EXCEPT ![chan] = Append(@, input)] /\ chan \in Channel
      BY <2>4 DEF EvalInput, ReadInv, ReadTypeOK, ReplTypeOK
    <3> QED
      BY <3>1, <3>2 DEF EvaluatesOne
  <2> QED
    BY <1>1, <2>1, <2>2, <2>3, <2>4 DEF Main
<1>2. CASE InReader \/ UdpReader
  <2>1. ASSUME NEW c \in Channel, NEW w \in Words(c), Reads(c, w) PROVE ReadsOne /\ at # "aborted" /\ at' = at
    BY <2>1 DEF Reads, Goes, ended, mainVars, ReadsOne
  <2>2. CASE Begin("in") \/ GetLineFails \/ Lock("in") \/ Push
    BY <2>2 DEF Begin, GetLineFails, Lock, Push, mainVars
  <2>3. CASE Begin("udp") \/ RecvNothing \/ Lock("udp") \/ Emplace \/ Sleep
    BY <2>3 DEF Begin, RecvNothing, Lock, Emplace, Sleep, mainVars
  <2> QED
    BY <1>0, <1>2, <2>1, <2>2, <2>3 DEF InReader, GetLine, UdpReader, RecvFrom
<1>3. CASE Undefined
  BY <1>3 DEF Undefined, readerVars
<1>4. CASE UNCHANGED replVars
  BY <1>4 DEF replVars, mainVars, readerVars
<1> QED BY <1>1, <1>2, <1>3, <1>4 DEF Next, Ended

\* Every line and every datagram that was read is evaluated, or on its way to be,
\* once and in the order it was read, unless the program is aborted
\* (read_in_thread, read, loop).
THEOREM NothingLostOrRepeatedAlways == Spec => []NothingLostOrRepeated
<1>1. ReadInv => NothingLostOrRepeated
  BY FlowIs DEF NothingLostOrRepeated
<1> QED BY InitRead, ReadStepKeeps, <1>1, PTL DEF Spec

on_the_way == [c \in Channel |-> waiting(c)]

FlowOf(c) ==
  /\ waiting(c) \in Seq(Command) /\ evaluated[c] \in Seq(Command)
  /\ as_commands(c, given[c]) = evaluated[c] \o waiting(c)
  /\ given[c] \in Seq(Words(c)) /\ input \in Command

\* A step of a program that goes on is a step of what it promises.
LEMMA LiveStep ==
  ASSUME \A c \in Channel : FlowOf(c), \A c \in Channel : FlowOf(c)',
         Quiet \/ ReadsOne \/ EvaluatesOne,
         at # "aborted", at' # "aborted",
         evaluated \in [Channel -> Seq(Command)],
         given \in [Channel -> Seq(Line \cup Datagram)]
  PROVE  \/ on_the_way' = on_the_way /\ evaluated' = evaluated
         \/ \E c \in Channel : \E x \in Command :
              on_the_way' = [on_the_way EXCEPT ![c] = Append(@, x)] /\ evaluated' = evaluated
         \/ \E c \in Channel :
              /\ on_the_way[c] # << >>
              /\ evaluated' = [evaluated EXCEPT ![c] = Append(@, Head(on_the_way[c]))]
              /\ on_the_way' = [on_the_way EXCEPT ![c] = Tail(@)]
<1>1. ASSUME NEW c \in Channel, given'[c] = given[c], evaluated'[c] = evaluated[c]
      PROVE  waiting(c)' = waiting(c)
  <2>1. evaluated[c] \o waiting(c)' = evaluated[c] \o waiting(c)
    BY <1>1 DEF FlowOf
  <2> QED
    BY <2>1, SameRest DEF FlowOf
<1>2. CASE Quiet
  <2>1. \A c \in Channel : waiting(c)' = waiting(c)
    BY <1>1, <1>2 DEF Quiet
  <2> QED
    BY <1>2, <2>1 DEF Quiet, on_the_way
<1>3. CASE ReadsOne
  <2>0. PICK c \in Channel : \E w \in Words(c) :
          given' = [given EXCEPT ![c] = Append(@, w)] /\ evaluated' = evaluated
    BY <1>3 DEF ReadsOne
  <2>1. PICK w \in Words(c) : given' = [given EXCEPT ![c] = Append(@, w)] /\ evaluated' = evaluated
    BY <2>0
  <2>2. PICK x : x = as_command(c, w)
    OBVIOUS
  <2>3. x \in Command
    BY <2>2, CommandType
  <2>4. as_commands(c, given'[c]) = Append(as_commands(c, given[c]), x)
    BY <2>1, <2>2, CommandsAppend DEF FlowOf
  <2>5. evaluated[c] \o waiting(c)' = Append(evaluated[c] \o waiting(c), x)
    BY <2>1, <2>4 DEF FlowOf
  <2>51. /\ evaluated[c] \in Seq(Command) /\ waiting(c) \in Seq(Command)
         /\ waiting(c)' \in Seq(Command)
    BY DEF FlowOf
  <2>6. waiting(c)' = Append(waiting(c), x)
    <3>1. PICK a, b, t : a = evaluated[c] /\ b = waiting(c) /\ t = waiting(c)'
      OBVIOUS
    <3>2. a \in Seq(Command) /\ b \in Seq(Command) /\ t \in Seq(Command) /\ a \o t = Append(a \o b, x)
      BY <2>5, <2>51, <3>1
    <3>3. t = Append(b, x)
      BY <2>3, <3>2, LastJoins
    <3> QED
      BY <3>1, <3>3
  <2>7. \A d \in Channel : d # c => waiting(d)' = waiting(d)
    BY <1>1, <2>1
  <2>8. on_the_way' = [on_the_way EXCEPT ![c] = Append(@, x)]
    BY <2>6, <2>7 DEF on_the_way
  <2> QED
    BY <2>1, <2>3, <2>8
<1>4. CASE EvaluatesOne
  <2>1. PICK c \in Channel : evaluated' = [evaluated EXCEPT ![c] = Append(@, input)] /\ given' = given
    BY <1>4 DEF EvaluatesOne
  <2>2. Append(evaluated[c], input) \o waiting(c)' = evaluated[c] \o waiting(c)
    BY <2>1 DEF FlowOf
  <2>21. /\ evaluated[c] \in Seq(Command) /\ waiting(c) \in Seq(Command)
         /\ waiting(c)' \in Seq(Command) /\ input \in Command
    BY DEF FlowOf
  <2>3. waiting(c) # << >> /\ Head(waiting(c)) = input /\ Tail(waiting(c)) = waiting(c)'
    BY <2>2, <2>21, FirstLeaves
  <2>4. \A d \in Channel : d # c => waiting(d)' = waiting(d)
    BY <1>1, <2>1
  <2>5. on_the_way' = [on_the_way EXCEPT ![c] = Tail(@)]
    BY <2>3, <2>4 DEF on_the_way
  <2> QED
    BY <2>1, <2>3, <2>5 DEF on_the_way
<1> QED
  BY <1>2, <1>3, <1>4

\* What a channel was given is what it evaluated and what waits.
LEMMA FlowOfAll == ReadInv /\ at # "aborted" => \A c \in Channel : FlowOf(c)
  BY FlowIs DEF FlowOf, ReadInv, ReadTypeOK, ReplTypeOK

\* Every step of the threads is one of InOrder or changes nothing it sees.
LEMMA InOrderStep ==
  ASSUME ReadInv, ReadInv', [Next]_replVars
  PROVE  [InOrderly!Next]_<<[c \in Channel |-> IF at = "aborted" THEN << >> ELSE waiting(c)],
                            evaluated, at = "aborted">>
<1> DEFINE held == [c \in Channel |-> IF at = "aborted" THEN << >> ELSE waiting(c)]
<1>1. CASE at = "aborted"
  <2>1. at' = "aborted" /\ evaluated' = evaluated
    BY <1>1, StepIs DEF Quiet
  <2> QED
    BY <1>1, <2>1
<1>2. CASE at # "aborted" /\ at' = "aborted"
  <2>1. evaluated' = evaluated
    BY <1>2, StepIs DEF Quiet
  <2>2. InOrderly!Break
    BY <1>2, <2>1 DEF InOrderly!Break, InOrderly!nothing
  <2> QED
    BY <2>2 DEF InOrderly!Next
<1>3. CASE at # "aborted" /\ at' # "aborted"
  <2>1. \A c \in Channel : FlowOf(c)
    BY <1>3, FlowOfAll
  <2>2. \A c \in Channel : FlowOf(c)'
    <3>1. (ReadInv /\ at # "aborted" => \A c \in Channel : FlowOf(c))'
      BY FlowOfAll, PTL
    <3> QED
      BY <1>3, <3>1
  <2>4. on_the_way = held /\ on_the_way' = held'
    BY <1>3 DEF on_the_way
  <2>5. evaluated \in [Channel -> Seq(Command)] /\ given \in [Channel -> Seq(Line \cup Datagram)]
    BY DEF ReadInv, ReadTypeOK, ReplTypeOK
  <2>6. Quiet \/ ReadsOne \/ EvaluatesOne
    BY StepIs
  <2>7. \/ on_the_way' = on_the_way /\ evaluated' = evaluated
        \/ \E c \in Channel : \E x \in Command :
              on_the_way' = [on_the_way EXCEPT ![c] = Append(@, x)] /\ evaluated' = evaluated
        \/ \E c \in Channel :
              /\ on_the_way[c] # << >>
              /\ evaluated' = [evaluated EXCEPT ![c] = Append(@, Head(on_the_way[c]))]
              /\ on_the_way' = [on_the_way EXCEPT ![c] = Tail(@)]
    BY <1>3, <2>1, <2>2, <2>5, <2>6, LiveStep
  <2>8. CASE on_the_way' = on_the_way /\ evaluated' = evaluated
    BY <1>3, <2>4, <2>8
  <2>9. CASE \E c \in Channel : \E x \in Command :
              on_the_way' = [on_the_way EXCEPT ![c] = Append(@, x)] /\ evaluated' = evaluated
    <3>1. \E c \in Channel : \E x \in Command : InOrderly!Arrive(c, x)
      BY <1>3, <2>4, <2>9 DEF InOrderly!Arrive
    <3> QED
      BY <3>1 DEF InOrderly!Next
  <2>10. CASE \E c \in Channel :
              /\ on_the_way[c] # << >>
              /\ evaluated' = [evaluated EXCEPT ![c] = Append(@, Head(on_the_way[c]))]
              /\ on_the_way' = [on_the_way EXCEPT ![c] = Tail(@)]
    <3>1. \E c \in Channel : InOrderly!Deliver(c)
      BY <1>3, <2>4, <2>10 DEF InOrderly!Deliver
    <3> QED
      BY <3>1 DEF InOrderly!Next
  <2> QED
    BY <2>7, <2>8, <2>9, <2>10
<1> QED
  BY <1>1, <1>2, <1>3

\* The loop, its queues and its readers' threads implement InOrder: what a channel
\* holds is delivered once and in the order it arrived, for any number of lines
\* and datagrams (read_in_thread, read, loop).
THEOREM DeliversInOrderAlways == Spec => DeliversInOrder
<1>1. Init => InOrderly!Init
  <2> SUFFICES ASSUME Init PROVE InOrderly!Init
    OBVIOUS
  <2>1. \A c \in Channel : waiting(c) = << >>
    BY DEF Init, waiting, in_hands, in_thread, as_commands, Channel
  <2>2. [c \in Channel |-> IF at = "aborted" THEN << >> ELSE waiting(c)] = [c \in Channel |-> << >>]
    BY <2>1
  <2> QED
    BY <2>2 DEF Init, InOrderly!Init, InOrderly!nothing
<1> QED
  BY <1>1, InitRead, ReadStepKeeps, InOrderStep, PTL DEF Spec, DeliversInOrder, InOrderly!Spec
=============================================================================
