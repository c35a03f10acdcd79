SPECIFICATION MCSpec
CONSTANTS
    Parts5 = {"session", "delivery", "connection", "ids", "topics", "codecs", "framing"}
    Topics = {"test", "alarms"}
    FirstTopic = "test"
    Grants <- MCAnyGrant
    SessionExpired = "session_expired"
    Unset = 7
    MaxDrops = 4
    MaxChannel = 3
    Requests = {"a", "b", "c"}
    Incoming = {"m"}
    Exchanges <- MCExchanges
    Kinds <- MCKinds
    Levels <- MCLevels
    Then <- MCThen
    Nobody = "nobody"
    Refused = {"c"}
    PacketIdsMax = 2
    SerialMod = 16
    Serials = {14}
    Unlimited = 8
    ReceiveMaximums = {1}
    MaxBreaks = 1
    MaxFaults = 1
    ServerLists <- MCServerLists
    Accepting <- MCAccepting
    Authenticates = TRUE
    MaxFailures = 1
    MaxMishaps = 3
    MaxPacketId = 6
    Alphabet = {"/", "+", "#", "bad", "$share"}
    MaxTopicSize = 5
    MaxTextSize = 6
    Messages <- MCMessages
    Radix = 4
    Frames <- MCFrames
    Garbled <- MCGarbled
    Capacity = 8
    MaxFrames = 2
    MaxOutages = 1
INVARIANTS
    TypeOK
    SessionAsShown
    RequestsAccounted
    DeliveredAsPromised
    TakenInOrder
    OrderlyReconnection
    CodecsAgree
    TopicsChecked
    FramesWhole
PROPERTIES
    ConnectsAgain
    NothingPending
    CancelIsFinal
    IdsArePooled
CHECK_DEADLOCK FALSE
