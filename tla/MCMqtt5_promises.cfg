SPECIFICATION MCCutSpec
CONSTANTS
    Parts5 = {"delivery"}
    Topics = {"test", "alarms"}
    FirstTopic = "test"
    Grants <- MCAnyGrant
    SessionExpired = "session_expired"
    Unset = 7
    MaxDrops = 4
    MaxChannel = 3
    Requests = {"a", "b"}
    Incoming = {"m", "n"}
    Exchanges <- MCCutExchanges
    Kinds <- MCCutKinds
    Levels <- MCCutLevels
    Then <- MCCutThen
    Nobody = "nobody"
    Refused = {}
    PacketIdsMax = 2
    SerialMod = 16
    Serials = {14}
    Unlimited = 8
    ReceiveMaximums = {1}
    MaxBreaks = 3
    MaxFaults = 0
    ServerLists <- MCServerLists
    Accepting <- MCAccepting
    Authenticates = TRUE
    MaxFailures = 1
    MaxMishaps = 3
    MaxPacketId = 6
    Alphabet = {"/", "+", "#", "bad", "$share"}
    MaxTopicSize = 5
    MaxTextSize = 6
    Messages <- MCNoMessages
    Radix = 4
    Frames <- MCFrames
    Garbled <- MCGarbled
    Capacity = 8
    MaxFrames = 2
    MaxOutages = 1
INVARIANTS
    SomePromiseOfDelivery
CHECK_DEADLOCK FALSE
