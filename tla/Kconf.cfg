SPECIFICATION Spec
CONSTANTS
  SymType <- MCSymType
  Literals <- MCLiterals
  modules_sym = "MOD"
  ChoiceSyms = {"CH"}
  Optional = {}
  Raw <- MCRaw
  SymOrder <- MCSymOrder
  Allnoconfig_y = {"MOD"}
  HandConfigs <- MCHandConfigs
  Seeds <- MCHandConfigs1
  Modes = {"defconfig","savedefconfig","olddefconfig","randconfig","allnoconfig","allyesconfig","allmodconfig","alldefconfig","yes2modconfig","mod2yesconfig","oldconfig","oldaskconfig","syncconfig","listnewconfig","menuconfig"}
  Repeated = {"defconfig","syncconfig","olddefconfig"}
  Answers = {"1","3","4"}
  BuildAfterKill = FALSE
  MaxRuns = 2
  MaxEdits = 2
  MaxKills = 1
  MaxDepth = 2
CHECK_DEADLOCK FALSE
INVARIANTS ConfigReproducible CacheCurrent SyncAgrees ObjectsCurrent
PROPERTIES ConfigKept
