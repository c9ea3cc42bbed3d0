SPECIFICATION Spec
CONSTANTS
    Funcs <- MCFuncs
    Labels <- MCLabels
    Variables <- MCVariables
    Programs <- MCPrograms
    New <- MCNew
    NewBodies <- MCNewBodies
    NewExits <- MCNewExits
    NewValues <- MCNewValues
    MaxCalls = 3
INVARIANT GraphExact
PROPERTY ReplacedEverywhere
CHECK_DEADLOCK FALSE
