CONSTANTS
  SeqzResults = {"a0", "s1"}
  Algorithms = {"minirv", "klib", "expr", "deps", "cachesim", "fixdep", "preprocess"}
SPECIFICATION Spec
CHECK_DEADLOCK FALSE
PROPERTIES MinirvCorrect KlibCorrect EvalExact RecursionFound CachesimCorrect DepsTracked
