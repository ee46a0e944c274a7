CONSTANTS
  SeqzResults = {"a0", "s0", "s1"}
  Algorithms = {"minirv"}
SPECIFICATION Spec
CHECK_DEADLOCK FALSE
PROPERTY MinirvCorrect
