SPECIFICATION Spec
CONSTANTS
    Types = {"mgmt", "normal", "poll"}
    Kinds <- InService
    Ids = 3
    Cap = 2
    Limit = 2
    MaxMsgs = 4
    Faulty = TRUE
INVARIANT ChannelInv
INVARIANT NoFalseBad
PROPERTY CallbacksExpected
PROPERTY ResponseDelivered
CHECK_DEADLOCK FALSE
