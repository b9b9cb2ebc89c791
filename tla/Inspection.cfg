\* Any two requests at once, and a program that stops twice.
SPECIFICATION Spec
CONSTANTS
    MaxRequests = 2
    MaxStops = 2
    MaxStale = 0
    MaxFrame = 1
    Ops = {"getVariables", "evaluate", "query", "getScopePreview",
           "whatis", "switchThread", "getLastStopInfo",
           "selectFrame", "resume"}
INVARIANTS
    SoloReadsAreOfFrame
    StopInfoIsFresh
    WhatisLeavesNothing
CHECK_DEADLOCK FALSE
