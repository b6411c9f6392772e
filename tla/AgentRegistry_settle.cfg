SPECIFICATION FairSpec
CONSTANTS
    Panes = {p1}
    Addrs = {a1, a2}
    Cwds = {c1}
    NoPane = NoPane
    NoAddr = NoAddr
    NoId = NoId
    NoRow = NoRow
    MaxGen = 1
    MaxMoves = 1
    Sources = {"bare_title", "fallback"}
    Reconcilers = {"list_agents"}
    Events = {"session_end", "timeout", "crash", "mcp"}
PROPERTIES AddressesSettle ReconcileSparesLivePanes
INVARIANTS TypeOK
