CONSTANTS
    Rules <- MCRules
    Contents <- MCContents
    Bits = 2
    Width = 2
    MaxSteps = 2
SPECIFICATION Spec
PROPERTY FormulasAnswered
CHECK_DEADLOCK FALSE
