SPECIFICATION MCSpec
CONSTANTS
    DayMinutes = 3
    WeekDays = {0}
    MaxId = 4
    Songs = {"", "a.mp3"}
    DefaultSong = "a.mp3"
    NoSong = NoSong
    PhoneLists <- MCPhoneLists
    Edits <- MCEdits
    SnoozeDelay = 2
    Overlap = FALSE
    MaxHostEdits = 2
    MaxPhoneEdits = 1
    MaxLosses = 1
    MaxCrashes = 1
    DayLength = 3
    LastMinute = 7
    Calendars <- MCCalendars
    ReminderTime = 1
    ReminderDays = 1
    MaxLists = 2
    MaxJolts = 1
    Keys = {"current_song", "standart_delay", "volume"}
    OnlyIfChanged = {"current_song"}
    DelayKey = "standart_delay"
    Defaults = {"current_song", "standart_delay"}
    Values = {"1", "2"}
    Missing = ""
    Nobody = Nobody
    Accounts = {alice, bob}
    FirstAccount = alice
    NoAccount = NoAccount
    Free = Free
    SpotifySlots = 3
    MaxSerial = 2
    MaxCodes = 1
    MaxMishaps = 1
INVARIANTS
    DurableWhenIdle
    EventsAreSaved
    DaysShowTheirEvents
    RemindersBounded
    StaysLoggedIn
    NewAccountOnly
PROPERTY SettingsSurvive
CHECK_DEADLOCK FALSE
