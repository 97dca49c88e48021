INIT InvestigationInit
NEXT InvestigationNext
CONSTANTS
    MaxIterations = 2
    MaxCalls = 1
    CompleteAttempts = 2
INVARIANT CutShortStillReports
CHECK_DEADLOCK FALSE
