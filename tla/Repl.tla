-------------------------------- MODULE Repl --------------------------------
(***************************************************************************)
(* The repl's loop and the threads that read its input (repl.cpp, repl.h,  *)
(* async_reader.h, udp.h).  One thread reads lines from the console, the   *)
(* other, if asked for, datagrams from a socket; each has a queue and a    *)
(* mutex of its own, which the loop polls in turn.                         *)
(*                                                                         *)
(* What a command does to the program is left to RunProg; here a command   *)
(* either quits or does not.  The network may lose, repeat and reorder     *)
(* datagrams: any may arrive at any time.  Where the code's behaviour is   *)
(* undefined, the program goes on or is aborted.                           *)
(***************************************************************************)
EXTENDS Naturals, Sequences, SequencesExt

CONSTANTS
  Line,       \* what the user may enter
  Datagram,   \* what peers may send
  Popped,     \* a datagram without its last character
  Empty,      \* the empty line, which repeats the last command
  Quit,       \* the line q
  MaxIn       \* how many lines, and how many datagrams, are read (bound)

Command == Line \cup {Popped[d] : d \in Datagram} \cup {Empty}
Channel == {"in", "udp"}

ASSUME ReplAssumption ==
  /\ Popped \in [Datagram -> Command]
  /\ {Empty, Quit} \subseteq Line
  /\ MaxIn \in Nat

VARIABLES
  at,         \* where the main thread is
  chan,       \* the reader it builds or asks
  input,      \* the command in its hands
  ll,         \* eval_input's static: the last command
  evaluated,  \* (history) each channel's commands that were evaluated, with Empty for
              \* a line of the console that was dropped
  up_udp,     \* there is, or will be, a socket to ask
  thr,        \* where each reader's thread is
  got,        \* what it has read and not queued
  given,      \* (history) all it has read
  q,          \* its queue
  locked,     \* its mutex
  cin,        \* the console's stream is good
  closed      \* the socket is not bound

mainVars   == <<at, chan, input, ll, evaluated, up_udp, closed>>
readerVars == <<thr, got, given, q, cin>>
replVars   == <<mainVars, readerVars, locked>>

\* inside a critical section of a channel
inside(c)      == thr[c] = "emplace"
main_inside(c) == chan = c /\ at \in {"asking", "taking"}

ended == at \in {"quit", "aborted"}

ReplTypeOK ==
  /\ at \in {"base", "derived", "loop", "ask", "asking", "take", "taking", "eval",
             "quit", "aborted"}
  /\ chan \in Channel /\ up_udp \in BOOLEAN /\ cin \in BOOLEAN /\ closed \in BOOLEAN
  /\ input \in Command /\ ll \in Command
  /\ evaluated \in [Channel -> Seq(Command)]
  /\ thr \in [Channel -> {"unborn", "born", "read", "lock", "emplace", "sleep", "ended",
                          "stray"}]
  /\ got \in [Channel -> Line \cup Datagram \cup {Empty}]
  /\ given \in [Channel -> Seq(Line \cup Datagram)]
  /\ q \in [Channel -> Seq(Line \cup Datagram)]
  /\ locked \in [Channel -> BOOLEAN]

Init ==
  /\ at = "base" /\ chan = "in" /\ input = Empty /\ ll = Empty
  /\ evaluated = [c \in Channel |-> << >>]
  /\ up_udp \in BOOLEAN
  /\ thr = [c \in Channel |-> "unborn"]
  /\ got = [c \in Channel |-> Empty]
  /\ given = [c \in Channel |-> << >>]
  /\ q = [c \in Channel |-> << >>]
  /\ locked = [c \in Channel |-> FALSE]
  /\ cin = TRUE /\ closed = TRUE
----------------------------------------------------------------------------
(* Construction: the base class starts the thread, then the derived class  *)
(* comes into being.                                                       *)

StartReader ==
  /\ at = "base"
  /\ at' = "derived"
  /\ thr' = [thr EXCEPT ![chan] = "born"]
  /\ UNCHANGED <<chan, input, ll, evaluated, up_udp, closed, got, given, q, locked, cin>>

InReaderBuilt ==
  /\ at = "derived" /\ chan = "in"
  /\ IF up_udp THEN at' = "base" /\ chan' = "udp" ELSE at' = "loop" /\ chan' = chan
  /\ UNCHANGED <<input, ll, evaluated, up_udp, closed, readerVars, locked>>

UdpBound ==
  /\ at = "derived" /\ chan = "udp"
  /\ at' = "loop" /\ closed' = FALSE
  /\ UNCHANGED <<chan, input, ll, evaluated, up_udp, readerVars, locked>>

\* no socket or no address: the reader is destroyed, its thread is detached
UdpFails ==
  /\ at = "derived" /\ chan = "udp"
  /\ at' = "loop" /\ up_udp' = FALSE
  /\ thr' = [thr EXCEPT !["udp"] = "stray"]
  /\ UNCHANGED <<chan, input, ll, evaluated, closed, got, given, q, locked, cin>>

\* A thread that calls read_in_thread before there is one, or runs on a reader
\* that is gone, and two threads in one queue, may do no harm (the other actions)
\* or anything else: "aborted" stands for every outcome the other states are not.
Undefined ==
  /\ ~ended
  /\ \/ at = "derived" /\ thr[chan] = "born"
     \/ thr["udp"] = "stray"
     \/ \E c \in Channel : inside(c) /\ main_inside(c)
  /\ at' = "aborted"
  /\ UNCHANGED <<chan, input, ll, evaluated, up_udp, closed, readerVars, locked>>
----------------------------------------------------------------------------
(* The threads: read_in_thread of istream_async_reader and of udp *)

Goes(c, from, to) == ~ended /\ thr[c] = from /\ thr' = [thr EXCEPT ![c] = to]

Begin(c) ==
  /\ Goes(c, "born", "read")
  /\ UNCHANGED <<mainVars, got, given, q, locked, cin>>

Reads(c, x) ==
  /\ Len(given[c]) < MaxIn
  /\ Goes(c, "read", "lock")
  /\ got' = [got EXCEPT ![c] = x]
  /\ given' = [given EXCEPT ![c] = Append(@, x)]
  /\ UNCHANGED <<mainVars, q, locked, cin>>

GetLine == \E l \in Line : Reads("in", l)

\* getline fails: the end of the input
GetLineFails ==
  /\ Goes("in", "read", "ended")
  /\ cin' = FALSE
  /\ UNCHANGED <<mainVars, got, given, q, locked>>

RecvFrom == ~closed /\ \E d \in Datagram : Reads("udp", d)

\* not bound yet, nothing there, or an empty datagram: on to sleep()
RecvNothing ==
  /\ Goes("udp", "read", "sleep")
  /\ UNCHANGED <<mainVars, got, given, q, locked, cin>>

\* mutant: the lock is not waited for
Lock_ignored(c) ==
  /\ Goes(c, "lock", "emplace")
  /\ locked' = [locked EXCEPT ![c] = TRUE]
  /\ UNCHANGED <<mainVars, got, given, q, cin>>

Lock(c) ==
  /\ ~locked[c]
  /\ Goes(c, "lock", "emplace")
  /\ locked' = [locked EXCEPT ![c] = TRUE]
  /\ UNCHANGED <<mainVars, got, given, q, cin>>

\* mutant: m.lock() for a lock_guard, and no unlock
Push_locked ==
  /\ Goes("in", "emplace", "read")
  /\ q' = [q EXCEPT !["in"] = Append(@, got["in"])]
  /\ got' = [got EXCEPT !["in"] = Empty]
  /\ UNCHANGED <<mainVars, given, locked, cin>>

Push ==
  /\ Goes("in", "emplace", "read")
  /\ q' = [q EXCEPT !["in"] = Append(@, got["in"])]
  /\ got' = [got EXCEPT !["in"] = Empty]
  /\ locked' = [locked EXCEPT !["in"] = FALSE]
  /\ UNCHANGED <<mainVars, given, cin>>

Emplace ==
  /\ Goes("udp", "emplace", "sleep")
  /\ q' = [q EXCEPT !["udp"] = Append(@, got["udp"])]
  /\ got' = [got EXCEPT !["udp"] = Empty]
  /\ UNCHANGED <<mainVars, given, locked, cin>>

\* sleep() unlocks the mutex, whoever has locked it
Sleep ==
  /\ Goes("udp", "sleep", "read")
  /\ locked' = [locked EXCEPT !["udp"] = FALSE]
  /\ UNCHANGED <<mainVars, got, given, q, cin>>

InReader  == Begin("in") \/ GetLine \/ GetLineFails \/ Lock("in") \/ Push
UdpReader ==
  Begin("udp") \/ RecvFrom \/ RecvNothing \/ Lock("udp") \/ Emplace \/ Sleep
----------------------------------------------------------------------------
(* The main thread: repl::loop, with readable() and read() *)

\* the next test of an iteration, and its sleep
next_ask(c) ==
  IF c = "in" /\ up_udp THEN at' = "ask" /\ chan' = "udp"
                        ELSE at' = "loop" /\ chan' = "in"

Poll ==
  /\ at = "loop"
  /\ IF cin THEN at' = "ask" /\ chan' = "in" ELSE next_ask("in")
  /\ UNCHANGED <<input, ll, evaluated, up_udp, closed, readerVars, locked>>

\* lock_guard of readable() and of read()
MainLocks ==
  /\ at \in {"ask", "take"} /\ ~locked[chan]
  /\ locked' = [locked EXCEPT ![chan] = TRUE]
  /\ at' = IF at = "ask" THEN "asking" ELSE "taking"
  /\ UNCHANGED <<chan, input, ll, evaluated, up_udp, closed, readerVars>>

\* mutant: the last element is left for later
readable_more(c) == Len(q[c]) > 1

readable(c) == q[c] # << >>

Asked ==
  /\ at = "asking"
  /\ locked' = [locked EXCEPT ![chan] = FALSE]
  /\ IF readable(chan) THEN at' = "take" /\ chan' = chan ELSE next_ask(chan)
  /\ UNCHANGED <<input, ll, evaluated, up_udp, closed, readerVars>>

\* mutant: the newline stays
as_command_raw(c, x) == x

as_command(c, x) == IF c = "udp" THEN Popped[x] ELSE x

\* mutant: read() takes the newest
Took_newest ==
  /\ at = "taking"
  /\ locked' = [locked EXCEPT ![chan] = FALSE]
  /\ q' = [q EXCEPT ![chan] = Front(@)]
  /\ input' = as_command(chan, Last(q[chan]))
  /\ at' = "eval"
  /\ UNCHANGED <<chan, ll, evaluated, up_udp, closed, thr, got, given, cin>>

\* only this thread takes, so the queue is not empty
Took ==
  /\ at = "taking"
  /\ locked' = [locked EXCEPT ![chan] = FALSE]
  /\ q' = [q EXCEPT ![chan] = Tail(@)]
  /\ input' = as_command(chan, Head(q[chan]))
  /\ at' = "eval"
  /\ UNCHANGED <<chan, ll, evaluated, up_udp, closed, thr, got, given, cin>>

\* an empty line of the console is dropped
SkipLine ==
  /\ at = "eval" /\ chan = "in" /\ input = Empty
  /\ next_ask("in")
  /\ evaluated' = [evaluated EXCEPT !["in"] = Append(@, Empty)]
  /\ UNCHANGED <<input, ll, up_udp, closed, readerVars, locked>>

\* eval_input: the empty command is the last one again; what it repeats counts
EvalInput ==
  /\ at = "eval" /\ ~(chan = "in" /\ input = Empty)
  /\ LET l == IF input = Empty THEN ll ELSE input
     IN /\ ll' = l
        /\ evaluated' = [evaluated EXCEPT ![chan] = Append(@, input)]
        /\ IF l = Quit THEN at' = "quit" /\ chan' = chan ELSE next_ask(chan)
  /\ input' = Empty
  /\ UNCHANGED <<up_udp, closed, readerVars, locked>>

Main ==
  \/ StartReader \/ InReaderBuilt \/ UdpBound \/ UdpFails
  \/ Poll \/ MainLocks \/ Asked \/ Took \/ SkipLine \/ EvalInput
----------------------------------------------------------------------------
\* the program has ended
Ended == ended /\ UNCHANGED replVars

Next == Main \/ InReader \/ UdpReader \/ Undefined \/ Ended

Spec == Init /\ [][Next]_replVars

\* Each thread goes on; the user need not enter anything, nor end the input.
FairSpec ==
  /\ Spec
  /\ WF_replVars(Main)
  /\ WF_replVars(Begin("in") \/ Lock("in") \/ Push)
  /\ WF_replVars(UdpReader)
----------------------------------------------------------------------------
(* Properties *)

\* what of a channel is on its way to be evaluated
in_hands(c) == IF chan = c /\ at = "eval" THEN <<input>> ELSE << >>
in_thread(c) == IF thr[c] \in {"lock", "emplace"} THEN <<as_command(c, got[c])>> ELSE << >>
as_commands(c, s) == [i \in DOMAIN s |-> as_command(c, s[i])]

waiting(c) == in_hands(c) \o as_commands(c, q[c]) \o in_thread(c)

\* Every line and datagram that was read is evaluated or held somewhere on the
\* way, once and in the order it was read, unless the program is aborted; only
\* empty console lines are dropped (read_in_thread, read, loop).
NothingLostOrRepeated ==
  at # "aborted" => \A c \in Channel : as_commands(c, given[c]) = evaluated[c] \o waiting(c)

\* The readers' threads, their queues and the loop that polls them deliver what
\* arrives as InOrder promises, whatever their interleaving: what a channel holds
\* is in its queue, in its thread's hands or in the main thread's.
InOrderly == INSTANCE InOrder WITH
  held <- [c \in Channel |-> IF at = "aborted" THEN << >> ELSE waiting(c)],
  delivered <- evaluated,
  broken <- at = "aborted"

DeliversInOrder == InOrderly!Spec

Exclusive(c) == ~(inside(c) /\ main_inside(c))

\* The console's queue is never in both threads' hands: its lock_guards pair
\* every lock with its own unlock (repl.h, async_reader.h).
ConsoleExclusive == Exclusive("in")

\* The loop comes round again and again: no lock is left behind by a thread, and
\* none is waited for in vain (loop).
LoopComesRound == []<>(at = "loop" \/ ended)

\* What the console's thread has queued is taken from the queue, unless the input
\* ends first (loop).
LinesTaken == [](q["in"] # << >> => <>(q["in"] = << >> \/ ~cin \/ ended))

\* The user has entered q; the program comes to its end (Development.md, "enter
\* `q` to quit").  It need not: once getline has met the end of the input,
\* `CIN &&` keeps the loop from the lines still queued.
QuitHonoured == [](Quit \in ToSet(given["in"]) => <>ended)
=============================================================================
