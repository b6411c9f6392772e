SPECIFICATION Spec
CONSTANTS
    MaxPane = 3
    MaxRoom = 1
    Addrs = {x1, x2, x3}
    Repos = {q}
    Roles = {g}
    Callers = {c1, c2}
    NoAddr = NoAddr
    NoId = NoId
    NoCaller = NoCaller
    MaxMoves = 0
    MaxMail = 1
    MaxCalls = 2
    Tools = {"spawn", "add", "remove", "kill"}
    Events = {"adhoc", "crash", "tmux"}
SYMMETRY Symmetry
INVARIANTS TypeOK 
PROPERTIES KillSparesStrangers
CHECK_DEADLOCK FALSE
