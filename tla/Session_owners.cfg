\* Two sessions, two spellings of the type and two GDB processes that run no program.
SPECIFICATION Spec
CONSTANTS
    Sessions = {s1, s2}
    Keys = {"gdb", "GDB"}
    MaxBackends = 2
    MaxGdbs = 2
    MaxOut = 0
    Commands = {}
INVARIANTS
    TypeOK
    GdbIsCached
    CurrentIsCached
CHECK_DEADLOCK FALSE
