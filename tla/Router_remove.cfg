\* Two breakpoints on neighbouring lines, of which the second is removed.
SPECIFICATION Spec
CONSTANTS
    Clients = {"any"}
    Wide = {"any"}
    MaxId = 2
    MaxLine = 2
    Files = {"f"}
    ShortNamed = {}
INVARIANT RemovesTheBreakpointAt
CHECK_DEADLOCK FALSE
