SPECIFICATION Spec
CONSTANTS
    Panes = {p1, p2}
    Addrs = {a1, a2}
    Cwds = {c1, c2}
    NoPane = NoPane
    NoAddr = NoAddr
    NoId = NoId
    NoRow = NoRow
    MaxGen = 2
    MaxMoves = 1
    Sources = {"fallback"}
    Reconcilers = {}
    Events = {"crash"}
SYMMETRY Symmetry
CHECK_DEADLOCK FALSE
INVARIANTS OneRowPerLivePane
PROPERTIES WeakIdStable
