SPECIFICATION Spec
CONSTANTS
  Jobs <- MCJobs
  Universe <- MCUniverse
  Outside <- MCOutside
  Contents <- MCContents
  MaxRounds = 3
INVARIANTS SafeAnswersFinite RoundIsAStep ClockComesRound GuardsKeepSequence
