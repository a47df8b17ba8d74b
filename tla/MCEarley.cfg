CONSTANT Jobs <- MCJobs
SPECIFICATION Spec
INVARIANTS
  RecognizesLanguage
  RulesAgree
  
  
CHECK_DEADLOCK FALSE
