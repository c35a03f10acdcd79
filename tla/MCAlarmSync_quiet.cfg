SPECIFICATION FairSpec
CONSTANTS
    DayMinutes = 3
    WeekDays = {0}
    MaxId = 4
    Songs = {"", "a.mp3"}
    DefaultSong = "a.mp3"
    NoSong = NoSong
    PhoneLists <- MCPhoneLists
    Edits <- MCEdits
    SnoozeDelay = 2
    Overlap = FALSE
    MaxHostEdits = 4
    MaxPhoneEdits = 2
    MaxLosses = 0
    MaxCrashes = 0

INVARIANT QuietInSync
PROPERTY OneSharedList
CHECK_DEADLOCK FALSE
