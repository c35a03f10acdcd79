--------------------------- MODULE SpotifyPlayer ---------------------------
(***************************************************************************)
(* Playback and the tracks of a playlist in src/spotify.cpp.  Spotify plays *)
(* on a device of its own; the host asks for its state every second and     *)
(* sends commands.  Requests run side by side, are served one at a time in  *)
(* any order, and their answers come in any order or not at all.  While no  *)
(* device is active the state is an empty answer and a command an error.    *)
(*                                                                         *)
(* set_volume, change_shuffle and change_repeat_mode send one request whose *)
(* answer changes nothing, to settings of Spotify the host does not decide  *)
(* on: left out.  Of a track its number is kept, of a playlist its name.    *)
(* A page shows the tracks as they were when tracks_changed was sent last.  *)
(*                                                                         *)
(* The play button of Music.qml and of Mini_Music.qml calls                 *)
(* change_track_status itself, and again through togglePlayback of          *)
(* main.qml; its picture is isMusicPlaying, which togglePlayback assigns,   *)
(* and that ends its binding to current_track.                              *)
(***************************************************************************)
EXTENDS Integers, Sequences, FiniteSets, FiniteSetsExt

CONSTANTS Playlists,         \* playlists to open
          Songbook,          \* tracks: 0..n, the next after the last is the first
          NoPlaylist,        \* none opened yet
          NoRequest,         \* a line that is free
          PlayerLines,       \* bound on the requests under way
          MaxPresses,        \* bound on what the user does, and on alarms
          MaxUpsets          \* bound on lost requests and on the device coming and going

State == [playing : BOOLEAN, track : 0 .. Songbook]

\* An empty answer: no track, and toBool of nothing is false.
Nothing == [playing |-> FALSE, track |-> -1]

\* The requests, and the answers to the questions for the state.
PlayerRequest ==
    [kind : {"current", "toggle", "pause", "play", "next", "prev", "done"}]
       \cup [kind : {"currentIs", "toggleIs"}, state : State \cup {Nothing}]
       \cup [kind : {"set"}, track : 0 .. Songbook]
       \cup [kind : {"tracks"}, playlist : Playlists]

ASSUME SpotifyPlayerAssumption ==
       /\ NoPlaylist \notin Playlists
       /\ NoRequest \notin PlayerRequest
       /\ Songbook \in Nat
       /\ {PlayerLines, MaxPresses, MaxUpsets} \subseteq Nat

VARIABLES
    remote,        \* what Spotify does: [playing, track]
    active,        \* it has a device to play on
    shown,         \* current_track: the same as last heard
    picture,       \* isMusicPlaying of main.qml: the button shows pause
    bound,         \* it is bound to current_track
    opened,        \* history: the playlist opened last
    tracks,        \* tracks: the answers one after the other, at most two
    shownTracks,   \* those that the page shows
    line,          \* requests and answers under way
    presses, upsets,
    aims,          \* history: whether Spotify may play once nothing acts
    wanted,        \* history: whether it should, after a press that met nothing else
    keptTracks,    \* history: shownTracks is what was shown when opened was opened
    awaited        \* history: playlists whose answers were awaited then

playerVars == <<remote, active, shown, picture, bound, opened, tracks, shownTracks, line, presses, upsets,
                aims, wanted, keptTracks, awaited>>
shownVars == <<shown, picture, bound>>
aimVars == <<aims, wanted>>
trackVars == <<opened, tracks, shownTracks, keptTracks, awaited>>

Lines == 1 .. PlayerLines

-----------------------------------------------------------------------------
Idle == {l \in Lines : line[l] = NoRequest}

\* A request that Spotify has not served; one that it has, with its answer.
Command(name) == [kind |-> name]
StateIs(name, s) == [kind |-> name, state |-> s]
TracksOf(p) == [kind |-> "tracks", playlist |-> p]

\* What an answer tells of the state.
Reported == IF active THEN remote ELSE Nothing

Send(l, r) == line' = [line EXCEPT ![l] = r]
Unserved(l, names) == line[l] # NoRequest /\ line[l].kind \in names

\* What is under way on a line asks which command to send, or is such a command.
Asks(l) == \/ Unserved(l, {"toggle"})
           \/ Unserved(l, {"toggleIs"}) /\ line[l].state # Nothing
Acts(l) == Asks(l) \/ Unserved(l, {"pause", "play", "set", "next", "prev"})
Undisturbed == \A l \in Lines : ~ Acts(l)

\* What a command leads to: alone exactly that, with others one of what they lead to,
\* with a question for the state either.  The button asks twice: without a device both
\* answers are empty, otherwise the second may be asked before or after the first acts.
Playing(target) == IF active THEN target ELSE remote.playing
AimAt(target) ==
    /\ aims' = IF Undisturbed THEN {Playing(target)}
               ELSE IF \E l \in Lines : Asks(l) THEN BOOLEAN
               ELSE aims \cup {Playing(target)}
    /\ wanted' = BOOLEAN
AimToggle ==
    /\ aims' = IF Undisturbed /\ ~ active THEN {remote.playing} ELSE BOOLEAN
    /\ wanted' = IF Undisturbed THEN {Playing(~ remote.playing)} ELSE BOOLEAN

-----------------------------------------------------------------------------
PlayerInit ==
    /\ remote \in State
    /\ active \in BOOLEAN /\ (remote.playing => active)
    /\ shown = [playing |-> FALSE, track |-> 0]
    /\ picture = FALSE
    /\ bound = TRUE
    /\ opened = NoPlaylist
    /\ tracks = <<>>
    /\ shownTracks = <<>>
    /\ line = [l \in Lines |-> NoRequest]
    /\ presses = 0
    /\ upsets = 0
    /\ aims = {remote.playing}
    /\ wanted = BOOLEAN
    /\ keptTracks = FALSE
    /\ awaited = {}

\* What the user, an alarm or the clock starts: one request more.
Start(l, r) == line[l] = NoRequest /\ l = Min(Idle) /\ Send(l, r)
Press == presses < MaxPresses /\ presses' = presses + 1
Upset == upsets < MaxUpsets /\ upsets' = upsets + 1

\* get_current_track, every second.
GetCurrentTrack(l) ==
    /\ \A m \in Lines : ~ Unserved(m, {"current"})
    /\ Start(l, Command("current"))
    /\ UNCHANGED <<remote, shownVars, trackVars, active, presses, upsets, aimVars>>

\* The play button: change_track_status twice, in a row, and the picture turned.
PressPlayButton(l) ==
    /\ Press
    /\ l \in Idle /\ l = Min(Idle) /\ Idle # {l}
    /\ line' = [m \in Lines |-> IF m \in {l, Min(Idle \ {l})} THEN Command("toggle") ELSE line[m]]
    /\ AimToggle
    /\ picture' = ~ picture
    /\ bound' = FALSE
    /\ UNCHANGED <<remote, shown, trackVars, active, upsets>>

\* next_track and prev_track; set_track starts a track.
Skip(l) ==
    /\ Press
    /\ \E name \in {"next", "prev"} : Start(l, Command(name))
    /\ AimAt(TRUE)
    /\ UNCHANGED <<remote, shownVars, trackVars, active, upsets>>

SetTrack(l) ==
    /\ Press
    /\ \E t \in 0 .. Songbook : Start(l, [kind |-> "set", track |-> t])
    /\ AimAt(TRUE)
    /\ UNCHANGED <<remote, shownVars, trackVars, active, upsets>>

\* pause_track, when an alarm rings (Alarms.qml).
PauseTrack(l) ==
    /\ Press
    /\ Start(l, Command("pause"))
    /\ AimAt(FALSE)
    /\ UNCHANGED <<remote, shownVars, trackVars, active, upsets>>

\* A playlist is opened: what was shown, and which answers are awaited.
Opens(l) ==
    /\ Press
    /\ \E p \in Playlists :
          /\ Start(l, TracksOf(p))
          /\ opened' = p
    /\ keptTracks' = TRUE
    /\ awaited' = {line[m].playlist : m \in {n \in Lines : Unserved(n, {"tracks"})}}
    /\ UNCHANGED <<remote, shownVars, shownTracks, active, upsets, aimVars>>

\* Mutant: the tracks are left where they are.
ScanPlaylistTracksKeeps(l) == Opens(l) /\ tracks' = tracks

\* scan_playlist_tracks empties the list and tells nobody.
ScanPlaylistTracks(l) == Opens(l) /\ tracks' = <<>>

\* handleSpotifyCode does the same, when the phone sends a code.
SpotifyCodeComes ==
    /\ tracks # <<>>
    /\ tracks' = <<>>
    /\ UNCHANGED <<remote, shownVars, opened, shownTracks, keptTracks, awaited, line, active,
                   presses, upsets, aimVars>>

-----------------------------------------------------------------------------
\* Spotify serves a request.
Next1(t) == IF t = Songbook THEN 0 ELSE t + 1
Prev1(t) == IF t = 0 THEN Songbook ELSE t - 1

ServeQuestion(l) ==
    /\ \/ Unserved(l, {"current"}) /\ Send(l, StateIs("currentIs", Reported))
       \/ Unserved(l, {"toggle"}) /\ Send(l, StateIs("toggleIs", Reported))
    /\ UNCHANGED <<remote, shownVars, trackVars, active, presses, upsets, aimVars>>

ServeCommand(l) ==
    /\ active
    /\ \/ /\ Unserved(l, {"pause"})
          /\ remote' = [remote EXCEPT !.playing = FALSE]
          /\ Send(l, NoRequest)
       \/ /\ Unserved(l, {"play"})
          /\ remote' = [remote EXCEPT !.playing = TRUE]
          /\ Send(l, NoRequest)
       \/ /\ Unserved(l, {"set"})
          /\ remote' = [playing |-> TRUE, track |-> line[l].track]
          /\ Send(l, Command("done"))
       \/ /\ Unserved(l, {"next", "prev"})
          /\ remote' = [playing |-> TRUE,
                        track |-> IF line[l].kind = "next" THEN Next1(remote.track)
                                  ELSE Prev1(remote.track)]
          /\ Send(l, Command("done"))
    /\ UNCHANGED <<shownVars, trackVars, active, presses, upsets, aimVars>>

\* No device: an error, and the error branches do nothing.
RefuseCommand(l) ==
    /\ ~ active
    /\ Unserved(l, {"pause", "play", "set", "next", "prev"})
    /\ Send(l, NoRequest)
    /\ UNCHANGED <<remote, shownVars, trackVars, active, presses, upsets, aimVars>>

\* The device is switched off or comes back, paused.
DeviceGoes ==
    /\ active /\ Upset
    /\ active' = FALSE
    /\ remote' = [remote EXCEPT !.playing = FALSE]
    /\ aims' = IF Undisturbed THEN {FALSE} ELSE aims \cup {FALSE}
    /\ wanted' = BOOLEAN
    /\ UNCHANGED <<shownVars, trackVars, line, presses>>

DeviceComes ==
    /\ ~ active /\ Upset
    /\ active' = TRUE
    /\ aims' = IF Undisturbed THEN aims ELSE BOOLEAN
    /\ wanted' = BOOLEAN
    /\ UNCHANGED <<remote, shownVars, trackVars, line, presses>>

-----------------------------------------------------------------------------
\* Mutant: the answer shows what was heard first.
CurrentReplyOnce(l) ==
    /\ Unserved(l, {"currentIs"})
    /\ shown' = IF shown.playing THEN shown ELSE line[l].state
    /\ picture' = IF bound THEN shown'.playing ELSE picture
    /\ Send(l, NoRequest)
    /\ UNCHANGED <<remote, bound, trackVars, active, presses, upsets, aimVars>>

\* The answer in get_current_track.
CurrentReply(l) ==
    /\ Unserved(l, {"currentIs"})
    /\ shown' = line[l].state
    /\ picture' = IF bound THEN shown'.playing ELSE picture
    /\ Send(l, NoRequest)
    /\ UNCHANGED <<remote, bound, trackVars, active, presses, upsets, aimVars>>

\* Mutant: an empty answer is taken for one of a player that pauses.
StatusReplyUnguarded(l) ==
    /\ Unserved(l, {"toggleIs"})
    /\ Send(l, Command(IF line[l].state.playing THEN "pause" ELSE "play"))
    /\ UNCHANGED <<remote, shownVars, trackVars, active, presses, upsets, aimVars>>

\* The answer in change_track_status decides which command follows, if any.
StatusReply(l) ==
    /\ Unserved(l, {"toggleIs"})
    /\ Send(l, IF line[l].state = Nothing THEN NoRequest
               ELSE Command(IF line[l].state.playing THEN "pause" ELSE "play"))
    /\ UNCHANGED <<remote, shownVars, trackVars, active, presses, upsets, aimVars>>

\* The answers in next_track and prev_track, half a second later, and in set_track.
CommandReply(l) ==
    /\ Unserved(l, {"done"})
    /\ Send(l, Command("current"))
    /\ UNCHANGED <<remote, shownVars, trackVars, active, presses, upsets, aimVars>>

\* The answer in scan_playlist_tracks is appended, and the page shows the list.
TracksReply(l) ==
    /\ Unserved(l, {"tracks"})
    /\ tracks' = IF Len(tracks) < 2 THEN Append(tracks, line[l].playlist) ELSE tracks
    /\ shownTracks' = tracks'
    /\ keptTracks' = FALSE
    /\ Send(l, NoRequest)
    /\ UNCHANGED <<remote, shownVars, opened, awaited, active, presses, upsets, aimVars>>

\* A request or its answer is lost; the error branches do nothing.
LineLost(l) ==
    /\ line[l] # NoRequest
    /\ Upset
    /\ Send(l, NoRequest)
    /\ aims' = IF Acts(l) THEN aims \cup {remote.playing} ELSE aims
    /\ wanted' = IF Acts(l) THEN BOOLEAN ELSE wanted
    /\ UNCHANGED <<remote, shownVars, trackVars, active, presses>>

Operate(l) == \/ PressPlayButton(l) \/ Skip(l) \/ SetTrack(l) \/ PauseTrack(l)
              \/ ScanPlaylistTracks(l)
Serve(l) == ServeQuestion(l) \/ ServeCommand(l) \/ RefuseCommand(l)
Reply(l) == CurrentReply(l) \/ StatusReply(l) \/ CommandReply(l) \/ TracksReply(l)

PlayerNext ==
    \/ \E l \in Lines : GetCurrentTrack(l) \/ Operate(l) \/ Serve(l) \/ Reply(l) \/ LineLost(l)
    \/ SpotifyCodeComes \/ DeviceGoes \/ DeviceComes

PlayerSpec == PlayerInit /\ [][PlayerNext]_playerVars

\* The clock asks every second, and Spotify serves and answers.
PlayerFairness ==
    /\ WF_playerVars(\E l \in Lines : GetCurrentTrack(l))
    /\ \A l \in Lines : WF_playerVars(Serve(l) \/ Reply(l))

PlayerFairSpec == PlayerSpec /\ PlayerFairness

-----------------------------------------------------------------------------
\* Once nothing under way can change it, Spotify plays or not as the operations said.
\* A command that met no other did what it says: an alarm left Spotify paused, a track
\* chosen plays.  Of commands that met, one decided, and a lost one may have changed
\* nothing.  Without a device nothing plays, and what was pressed meanwhile and has
\* been answered does not act when the device is back.  Either may be only after the
\* play button with a device, which asks twice, and after what met it, and where the
\* device came back to a request.
OperationsTakeEffect == Undisturbed => remote.playing \in aims

\* A press of the play button that met nothing else and lost nothing turns playing into
\* pausing and back, once its requests are done.
PlayButtonToggles == Undisturbed => remote.playing \in wanted

\* The page shows what it did when the playlist was opened until the first answer;
\* after that the tracks of this playlist, and of others only those whose answers were
\* awaited when it was opened.
TracksOfOpened ==
    keptTracks \/ \A i \in DOMAIN shownTracks : shownTracks[i] \in {opened} \cup awaited

\* In the end the state shown is Spotify's, however late the answers came.
ShownCatchesUp == <>[](shown = Reported)

\* In the end the button shows pause exactly when the state shown is that Spotify plays.
ButtonCatchesUp == <>[](picture = shown.playing)

\* main.qml:22 and 25 promise both, and the code keeps neither.  One run shows it: one
\* of the two is kept.
SomePromiseOfButton == []PlayButtonToggles \/ ButtonCatchesUp
=============================================================================
