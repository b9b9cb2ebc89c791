\* Two workers; no task, fewer tasks than workers, more, and too many.
SPECIFICATION FairCallerSpec
CONSTANTS
    TaskCounts = {0, 1, 3, 4}
    MaxTasks = 3
    MaxConcurrency = 2
INVARIANTS
    TypeOK
    AnswerIsTrue
    WorkConserving
    NoAbandonedChild
PROPERTY CallerAnswered
CHECK_DEADLOCK FALSE
