\* One session that attaches.
SPECIFICATION Spec
CONSTANTS
    Sessions = {s1}
    Keys = {"gdb"}
    MaxBackends = 1
    MaxGdbs = 1
    MaxOut = 2
    Commands = {"run", "attach", "continue"}
PROPERTIES
    AttachKeepsProgram
CHECK_DEADLOCK FALSE
