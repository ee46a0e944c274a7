CONSTANTS
  SeqzResults = {}
  Algorithms = {"preprocess"}
SPECIFICATION Spec
CHECK_DEADLOCK FALSE
PROPERTY EnvRemembered
