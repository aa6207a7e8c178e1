SPECIFICATION FairSpec
CONSTANTS
    Callers = {c1, c2}
    Modes = {0, 1}
    Methods = {"elevated", "service", "task"}
    MaxCrashes = 1
    NoReq = NoReq
    NoResult = NoResult
INVARIANTS TypeOK NobodyForgotten
PROPERTIES ToldTheTruth  EveryoneAnswered 
CHECK_DEADLOCK FALSE
