\* Both channels; the socket may be asked for, refused or bound.
SPECIFICATION FairSpec
CONSTANTS
  x = x
  empty = empty
  quit = quit
  x_nl = x_nl
  nl = nl
  quit_nl = quit_nl
  Line <- MCLine
  Datagram <- MCDatagram
  Popped <- MCPopped
  Empty = empty
  Quit = quit
  MaxIn = 2
INVARIANTS
  ConsoleExclusive
PROPERTIES
  DeliversInOrder
  LoopComesRound
  LinesTaken
