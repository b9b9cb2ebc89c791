\* One session and the HTTP front; a program that is run, stopped, continued, ended and
\* attached to, and a GDB that replaces the first.
SPECIFICATION FairSpec
CONSTANTS
    Sessions = {s1}
    Keys = {"gdb"}
    MaxBackends = 1
    MaxGdbs = 2
    MaxOut = 2
    Commands = {"run", "attach", "continue"}
INVARIANTS
    ViewIsTrue
PROPERTIES
    TerminatedIsReleased
CHECK_DEADLOCK FALSE
