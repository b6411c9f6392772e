SPECIFICATION FairSpec
CONSTANTS
    MaxPane = 2
    MaxRoom = 1
    Addrs = {x1, x2}
    Repos = {q}
    Roles = {g}
    Callers = {c1}
    NoAddr = NoAddr
    NoId = NoId
    NoCaller = NoCaller
    MaxMoves = 1
    MaxMail = 0
    MaxCalls = 2
    Tools = {"spawn", "add", "status"}
    Events = {"close"}
PROPERTIES MembersSettle DeadRoomsReaped 
CHECK_DEADLOCK FALSE
