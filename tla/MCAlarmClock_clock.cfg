SPECIFICATION FairSpec
CONSTANTS
    DayMinutes = 3
    WeekDays = {0, 1, 2}
    MaxId = 3
    Songs = {""}
    DefaultSong = ""
    NoSong = NoSong
    NumDays = 3
    HourMinutes = 1
    MinuteSecs = 2
    Lists <- MCLists
    Edits <- MCEdits
    ServerTimes <- MCServerTimes
    MaxEdits = 2
INVARIANTS TypeOK DueAlarmRings RingsOnlyWhenDue OneShotStaysOff
PROPERTIES KeepsRinging
