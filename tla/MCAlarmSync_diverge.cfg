SPECIFICATION Spec
CONSTANTS
    DayMinutes = 3
    WeekDays = {0}
    MaxId = 4
    Songs = {"", "a.mp3"}
    DefaultSong = "a.mp3"
    NoSong = NoSong
    PhoneLists <- MCPhoneLists
    Edits <- MCEdits
    SnoozeDelay = 2
    Overlap = TRUE
    MaxHostEdits = 1
    MaxPhoneEdits = 1
    MaxLosses = 0
    MaxCrashes = 0
INVARIANT QuietInSync
CHECK_DEADLOCK FALSE
