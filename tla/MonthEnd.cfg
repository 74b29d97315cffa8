SPECIFICATION MonthEndSpec
CONSTANTS
    None = None
    NoBook = NoBook
    Items <- MCItems
    Quantities = {3}
    Price <- MCPrice
    Plan <- MCPlan
    IdOf <- MCIdOf
    Named <- MCNamed
    Feed <- MCFeed
    FeedRows <- MCFeedRows
    BudgetFiles <- MCBudgetFiles
    Contexts <- MCContexts
    Texts <- MCTexts
    MinMonths = 2
INVARIANTS LayoutsAgree BridgeExplainsVariance GranularitiesAgree StreakIsMonotoneRun
    ClosingKeepsFaith ConfidenceIsEarned DrillDownAgrees UnbilledOnlyWhenRetryDies
PROPERTIES JoinOnlyFillsIn
