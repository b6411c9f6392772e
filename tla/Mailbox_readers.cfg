SPECIFICATION Spec
CONSTANTS
    Agents = {a1}
    Nudgeable = {a1}
    Servers = {s1, s2}
    Topics = {t1, t2}
    AnyTopic = AnyTopic
    NoAgent = NoAgent
    NoMsg = NoMsg
    MaxMsgs = 2
    Events = {"crash", "disk", "unreachable"}
SYMMETRY Symmetry
INVARIANTS TypeOK NothingLost FifoPerSender
PROPERTIES ImplementsPost
