SPECIFICATION BuiltinsSpec
CONSTANTS
    Alts <- MCAlts
    Programs <- MCPrograms
    Values = {0, 1}
    SaidBound = 2
INVARIANTS
    StableAnswers
    CountedSinceForget
    HeardOnce
