CONSTANTS
  Names = {"n", "m"}
  Callers = {c1, c2}
  Slots <- MCSlots
  MaxVersion = 3
  Scenarios <- MCScenarios
SYMMETRY Symmetry
SPECIFICATION Spec
CHECK_DEADLOCK FALSE
INVARIANTS StatCacheInStep TypeHidesNothing AnswersAreLinear
PROPERTIES RenameLosesNothing
