SPECIFICATION Spec
CONSTANTS
  Jobs <- MCConstant
  Universe <- MCUniverse
  Outside <- MCOutside
  Contents <- MCContents
  MaxRounds = 2
INVARIANT OptimizedIndistinguishable
