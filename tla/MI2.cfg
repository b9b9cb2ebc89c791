\* Two callers and two init commands; GDB answers, prints, hangs or dies.
SPECIFICATION FairSpec
CONSTANTS
    MaxUser = 2
    InitCount = 2
    ResultClasses = {"running", "error"}
    Talkers = {1}
INVARIANTS
    TypeOK
    RepliesMatch
    OutputProvenance
PROPERTIES
    ImplementsSerialChannel
    CommandsSettle
    StartSettles
CHECK_DEADLOCK FALSE
