SPECIFICATION FairSpec
CONSTANTS
    T1 = T1
    T2 = T2
    Tabs = {T1, T2}
    Budgets <- MCBudgets
    Window = 1
    ApiMax = 1000
    BulkMax = 10
INVARIANTS
    TypeOK
    PageShowsStored
    LoneImportAdmitted
    SpinnerExplained
PROPERTIES
    HandlersEnd
CHECK_DEADLOCK FALSE
