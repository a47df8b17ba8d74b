CONSTANTS
  Terms <- MCTerms
  AdHoc <- MCAdHoc
  Facts = {1}
  Maxima = {3, 7}
  MaxAsked = 2
SPECIFICATION Spec
INVARIANTS AnswerExact ResultsComputed
CHECK_DEADLOCK FALSE
