\* Any three calls, initialize among them, and a second GDB that may replace the first.
SPECIFICATION Spec
CONSTANTS
    MaxCalls = 3
    MaxGdb = 2
    MaxFrame = 1
    MaxBps = 2
    Ops = {"initialize", "attach", "start", "continue", "until", "selectFrame", "switchThread",
           "arguments", "setBreakpoint", "removeBreakpoint", "removeAll"}
INVARIANTS
    TypeOK
    StoppedReportIsTrue
    ArgumentsOfFrame
    ListedBreakpointsExist
    SetBreakpointsListed
CHECK_DEADLOCK FALSE
