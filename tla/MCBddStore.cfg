\* Up to three handles at a time, up to four for the joins, over three variables.
SPECIFICATION BddSpec
CONSTANTS
  Bits <- MCBits
  VarLists <- MCVarLists
  Renamings <- MCRenamings
  NVars = 3
  Memos = {"and_ex"}
  Families = {"plain", "joined", "steps"}
  GcLimit = 4
  MaxHeld <- MCMaxHeld
  MaxOps = 2
INVARIANTS
  Faithful
  Canonical
  MemoSound
  ReadingsAgree
