\* Every program of up to two rules, in either order of evaluation, with fresh
\* memos or memos an earlier program left.
SPECIFICATION FwdFairSpec
CONSTANTS
  a = a
  b = b
  MaxRules = 2
  NTables <- MCNTables
  Tuple <- MCTuple
  NoArgs = a
  Subst <- MCSubst
  Effect <- MCEffect
  Hidden <- MCHidden
  FpTable = 3
  Programs <- MCPrograms
  EDBs <- MCFwdEDBs
  Limits = {0}
INVARIANTS
  MemosCoherent
  DatalogSkipSound
PROPERTIES
  ImplementsPfp
