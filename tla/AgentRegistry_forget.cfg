SPECIFICATION FairSpec
CONSTANTS
    Panes = {p1, p2}
    Addrs = {a1}
    Cwds = {c1}
    NoPane = NoPane
    NoAddr = NoAddr
    NoId = NoId
    NoRow = NoRow
    MaxGen = 1
    MaxMoves = 0
    Sources = {"fallback"}
    Reconcilers = {"list_agents"}
    Events = {}
PROPERTIES DeadPanesForgotten ReconcileSparesLivePanes
