SPECIFICATION FairSpec
CONSTANTS
    MaxMsgs = 2
    MaxEdits = 2
    Events = {"broken"}
CHECK_DEADLOCK FALSE
PROPERTIES ChangesPickedUp
