\* Initialize, a launch or an attach, and two more requests of any command.
SPECIFICATION FairSpec
CONSTANT MaxRequests = 4
INVARIANTS
    NoSecondAnswer
    SuccessMeansDone
PROPERTIES
    EveryRequestAnswered
CHECK_DEADLOCK FALSE
