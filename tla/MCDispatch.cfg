SPECIFICATION FairSpec
CONSTANTS
  Stack <- Chain
  Counts <- NoneOrTwo
INVARIANTS AppHooksBracket ScopedHooksNest SeenErrorsReported
PROPERTIES TimeoutAnswers
CHECK_DEADLOCK FALSE
