SPECIFICATION MCSpec
CONSTANTS
    Parts = {"screen"}
    Songs = {"", "a.mp3", "b.mp3", "c.mp3"}
    Broken = {"c.mp3"}
    NoMusic = NoMusic
    Closed = Closed
    MixMaxVolume = 128
    UserVolumes = {0, 6, 13}
    VolumeStep = 4
    Home = kazan
    Cities = {kazan, tomsk, nowhere}
    Unlocated = {nowhere}
    NoPlace = NoPlace
    MaxLoad = 6
    MaxCityChanges = 2
    MaxDays = 0
    MaxFailures = 1
    Playlists = {rock, jazz}
    Songbook = 1
    NoPlaylist = NoPlaylist
    NoRequest = NoRequest
    PlayerLines = 3
    MaxPresses = 2
    MaxUpsets = 1
    Header = "SSID"
    NetLines <- MCNetLines
    NameOf <- MCNameOf
    MaxScans = 2
    Readings = {dry}
    NoReading = NoReading
PROPERTY SomePromiseOfSound
CHECK_DEADLOCK FALSE
