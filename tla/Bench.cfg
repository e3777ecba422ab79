CONSTANTS
    MaxInt = 524287
    Loops <- NaiveAndAssembly
    Spike = 2000
SPECIFICATION Spec
INVARIANT
    LimitUnreached
PROPERTIES
    BudgetIsSpent
    EstimateIsPossible
    Terminates
