\* Every program of up to three parts, limited and not, run up to twice.
SPECIFICATION RunFairSpec
CONSTANTS
  a = a
  b = b
  MaxRules = 1
  NTables <- MCNTables
  Tuple <- MCTuple
  NoArgs = a
  Subst <- MCSubst
  Effect <- MCEffect
  Hidden <- MCHidden
  FpTable = 3
  Programs = {}
  EDBs = {}
  Limits = {0, 3}
  Source <- MCSource
  Roots <- MCRoots
  Outer = {1, 2, 10, 11}
  Inner = {1, 2, 3, 4, 5, 6, 7, 8, 9, 10, 11, 12}
  SizeMod = 64
  MaxRuns = 2
INVARIANTS
  StepsBudget
  FrontsOfOneProgram
  NestedFromFixedPoint
PROPERTIES
  StoppedForGood
  RunTerminates
