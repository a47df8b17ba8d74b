\* Every program of up to three rules of the pool, from every small database,
\* with and without __fp__, unlimited or limited to two steps.
SPECIFICATION FairSpec
CONSTANTS
  a = a
  b = b
  MaxRules = 3
  NTables <- MCNTables
  Tuple <- MCTuple
  NoArgs = a
  Subst <- MCSubst
  Effect <- MCEffect
  Hidden <- MCHidden
  FpTable = 3
  Programs <- MCPrograms
  EDBs <- MCEDBs
  Limits = {0, 2}
INVARIANTS
  TypeOK
  FrontsFollow
  NoRevisit
  FixedPointIsReal
  InfloopIsReal
  LimitHonoured
PROPERTIES
  Terminates
