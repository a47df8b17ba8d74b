------------------------------ MODULE InOrder ------------------------------
(***************************************************************************)
(* What reading in threads promises whoever enters commands: each channel  *)
(* delivers what arrives on it once and in the order it arrived, one       *)
(* command at a time, and loses nothing unless everything breaks off.      *)
(* It says nothing of threads, queues and mutexes; Repl implements it.     *)
(***************************************************************************)
EXTENDS Sequences

CONSTANTS
  Channel,    \* where commands come from
  Command     \* what may be entered

VARIABLES
  held,       \* by channel, what has arrived and is not delivered yet
  delivered,  \* by channel, what was delivered
  broken      \* the program has broken off

nothing == [c \in Channel |-> << >>]

Init == held = nothing /\ delivered = nothing /\ broken = FALSE

Arrive(c, x) ==
  /\ ~broken
  /\ held' = [held EXCEPT ![c] = Append(@, x)]
  /\ UNCHANGED <<delivered, broken>>

Deliver(c) ==
  /\ ~broken /\ held[c] # << >>
  /\ delivered' = [delivered EXCEPT ![c] = Append(@, Head(held[c]))]
  /\ held' = [held EXCEPT ![c] = Tail(@)]
  /\ UNCHANGED broken

Break == ~broken /\ broken' = TRUE /\ held' = nothing /\ UNCHANGED delivered

Next ==
  \/ \E c \in Channel : Deliver(c) \/ \E x \in Command : Arrive(c, x)
  \/ Break

Spec == Init /\ [][Next]_<<held, delivered, broken>>
=============================================================================
