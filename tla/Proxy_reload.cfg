SPECIFICATION FairSpec
CONSTANTS
    MaxMsgs = 3
    MaxEdits = 2
    Events = {"broken", "crash", "slow", "nospawn"}
CHECK_DEADLOCK FALSE
INVARIANTS TypeOK HandshakeFirst OrderKept AtMostOneAnswer
PROPERTIES GoodChangesPickedUp
