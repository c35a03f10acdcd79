SPECIFICATION FairSpec
CONSTANTS
    DayMinutes = 3
    WeekDays = {0}
    MaxId = 4
    Songs = {"", "a.mp3"}
    DefaultSong = "a.mp3"
    NoSong = NoSong
    PhoneLists <- MCPhoneLists
    Edits <- MCEdits
    SnoozeDelay = 2
    Overlap = TRUE
    MaxHostEdits = 2
    MaxPhoneEdits = 1
    MaxLosses = 1
    MaxCrashes = 1
INVARIANTS TypeOK UniqueIds
PROPERTIES EditsAreCareful Settles
CHECK_DEADLOCK FALSE
