SPECIFICATION Spec
CONSTANTS
    DayMinutes = 3
    WeekDays = {0, 1, 2}
    MaxId = 3
    Songs = {""}
    DefaultSong = ""
    NoSong = NoSong
    NumDays = 3
    HourMinutes = 1
    MinuteSecs = 2
    Lists <- MCMissed
    Edits <- MCEdits
    ServerTimes <- MCNoServer
    MaxEdits = 0
INVARIANTS EveryDueAlarmRings
