SPECIFICATION IdentitySpec
CONSTANTS
    Panes = {p1, p2}
    Addrs = {a1, a2}
    Cwds = {c1}
    NoPane = NoPane
    NoAddr = NoAddr
    NoId = NoId
    NoRow = NoRow
    MaxGen = 1
    MaxMoves = 1
    Sources = {"pane_title", "fallback"}
    Reconcilers = {}
    Events = {}
    Envs = {"full", "stripped"}
SYMMETRY Symmetry
PROPERTIES SignsAsItself RegistrationSparesLivePanes
CHECK_DEADLOCK FALSE
INVARIANTS PidFileNamesRow
