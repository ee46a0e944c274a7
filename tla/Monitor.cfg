CONSTANTS
    NR_WP = 2
    Expr = {"low", "dev", "bad"}
    BadExpr = {"bad"}
    WordVal = {0, 1, 2}
    NDEBUG = TRUE
    ValNum = 3
    DeviceExpr = {"dev"}
    CONFIG_WATCHPOINT = TRUE
    ExprVal <- MCExprVal
    StepCounts = {1}

SPECIFICATION FairSpec

INVARIANTS
    PoolIntact
    WatchpointsCurrent

PROPERTIES
    DiffTestFaithful
    EndKept
    MonitorReturns
