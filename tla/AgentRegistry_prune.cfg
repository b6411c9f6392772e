SPECIFICATION Spec
CONSTANTS
    Panes = {p1, p2}
    Addrs = {a1, a2}
    Cwds = {c1}
    NoPane = NoPane
    NoAddr = NoAddr
    NoId = NoId
    NoRow = NoRow
    MaxGen = 1
    MaxMoves = 1
    Sources = {"fallback"}
    Reconcilers = {"bus_prune"}
    Events = {"flaky"}
SYMMETRY Symmetry
PROPERTIES ReconcileSparesLivePanes
