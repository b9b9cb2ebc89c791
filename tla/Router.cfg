\* One client sends every operation with every kind of parameter, the other sets and
\* removes breakpoints beside it.
SPECIFICATION Spec
CONSTANTS
    Clients = {"any", "breakpoints"}
    Wide = {"any"}
    MaxId = 2
    MaxLine = 2
    Files = {"f", "g"}
    ShortNamed = {"f"}
INVARIANTS
    ToolsAreServed
    
PROPERTY RemovesOnlyNamed
CHECK_DEADLOCK FALSE
