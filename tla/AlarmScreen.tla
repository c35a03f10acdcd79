----------------------------- MODULE AlarmScreen -----------------------------
(***************************************************************************)
(* Who makes a sound: the ringing screen (AlarmScreen.qml) with its rising  *)
(* volume, the preview in the alarm settings dialog                         *)
(* (AlarmSettings_Popup.qml) and the one on the sound page (Sound_Page.qml) *)
(* share one AudioPlayer, and changing pages (main.qml,                     *)
(* Settings_for_Alarm.qml) stops it.                                        *)
(*                                                                         *)
(* The ringing screen and the dialog are modal: while one is open the user  *)
(* reaches nothing below.  But an alarm rings whatever the user is doing,   *)
(* also over the open dialog, over an earlier alarm nobody has stopped,     *)
(* while a swipe between pages is still moving, and while a dialog that was *)
(* told to close is still shrinking away: it stops the player only then.    *)
(* (The ringing screen has no such transition.)  Everything runs in the GUI *)
(* thread.  AlarmClock says when an alarm rings; here it is the environment.*)
(***************************************************************************)
EXTENDS AudioPlayer

CONSTANTS UserVolumes,   \* settings of the volume slider, in percent
          VolumeStep,    \* 4: percent per second
          Closed         \* no song: the screen or the dialog is closed

ASSUME AlarmScreenAssumption ==
       /\ UserVolumes \subseteq 0 .. 100
       /\ VolumeStep \in Nat \ {0}
       /\ Closed \notin Songs

VARIABLES player,        \* the AudioPlayer
          userVolume,    \* user.volume
          smooth,        \* user.smooth_sound
          popup,         \* the song the open ringing screen plays, or Closed
          timer,         \* volumeTimer.running
          currentVolume, \* volumeTimer.currentVolume
          dialog,        \* alarm_song of the open settings dialog, or Closed
          closing,       \* the dialog's exit transition runs
          page,          \* the page of ver_sv; the settings page has a section
          section,       \* "sound" or another one
          swiping,       \* a swipe between pages has not come to rest
          silencedBy     \* history: what first made the open ringing screen silent

user == <<userVolume, smooth>>
view == <<page, section, swiping>>
ringing == <<popup, timer, currentVolume, silencedBy>>
vars == <<player, user, ringing, dialog, closing, view>>

Pages == {"settings", "home", "music"}
Silencers == {"nothing", "file", "swipe", "dialog"}

\* What the user can reach.
OnPage(p) == popup = Closed /\ dialog = Closed /\ page = p

\* main.cpp sets the player's volume before the user interface is loaded.
Init == /\ userVolume \in UserVolumes /\ smooth \in BOOLEAN
        /\ player = SetVolume([music |-> NoMusic, isPlaying |-> FALSE, isPaused |-> FALSE,
                               mixing |-> FALSE, active |-> TRUE, volume |-> MixMaxVolume],
                              userVolume)
        /\ popup = Closed /\ timer = FALSE /\ currentVolume = 0 /\ silencedBy = "nothing"
        /\ dialog = Closed /\ closing = FALSE
        /\ page = "home" /\ section = "other" /\ swiping = FALSE

-----------------------------------------------------------------------------
(* The ringing screen *)

\* Mutant: a song that already plays is not started again.
RingOnce(song) ==
    /\ \E started \in IF player.isPlaying THEN {player} ELSE StartMusic(player, song) :
          /\ player' = SetVolume(started, IF smooth THEN 0 ELSE userVolume)
          /\ silencedBy' = IF started.music = song THEN "nothing" ELSE "file"
    /\ popup' = song
    /\ timer' = (timer \/ smooth)
    /\ UNCHANGED <<currentVolume, user, dialog, closing, view>>

\* show.
Ring(song) ==
    /\ \E started \in StartMusic(player, song) :
          /\ player' = SetVolume(started, IF smooth THEN 0 ELSE userVolume)
          /\ silencedBy' = IF started.music = song THEN "nothing" ELSE "file"
    /\ popup' = song
    /\ timer' = (timer \/ smooth)
    /\ UNCHANGED <<currentVolume, user, dialog, closing, view>>

\* Mutant: a last step that would go beyond the user's volume is not taken.
VolumeTickWholeSteps ==
    /\ timer
    /\ IF currentVolume + VolumeStep <= userVolume
       THEN /\ currentVolume' = currentVolume + VolumeStep
            /\ player' = SetVolume(player, currentVolume')
            /\ UNCHANGED timer
       ELSE timer' = FALSE /\ UNCHANGED <<currentVolume, player>>
    /\ UNCHANGED <<popup, silencedBy, user, dialog, closing, view>>

\* Mutant: the last step goes beyond the user's volume.
VolumeTickPast ==
    /\ timer
    /\ IF currentVolume < userVolume
       THEN /\ currentVolume' = currentVolume + VolumeStep
            /\ player' = SetVolume(player, currentVolume')
            /\ UNCHANGED timer
       ELSE timer' = FALSE /\ UNCHANGED <<currentVolume, player>>
    /\ UNCHANGED <<popup, silencedBy, user, dialog, closing, view>>

\* volumeTimer's onTriggered.  currentVolume keeps its value from one alarm to
\* the next.
VolumeTick ==
    /\ timer
    /\ IF currentVolume < userVolume
       THEN /\ currentVolume' = IF currentVolume + VolumeStep > userVolume THEN userVolume
                                ELSE currentVolume + VolumeStep
            /\ player' = SetVolume(player, currentVolume')
            /\ UNCHANGED timer
       ELSE timer' = FALSE /\ UNCHANGED <<currentVolume, player>>
    /\ UNCHANGED <<popup, silencedBy, user, dialog, closing, view>>

\* Mutant: onClosed leaves the timer running.
CloseLeavesTimer ==
    /\ popup # Closed /\ popup' = Closed /\ silencedBy' = "nothing"
    /\ player' = SetVolume(StopMusic(player), userVolume)
    /\ UNCHANGED <<timer, currentVolume, user, dialog, closing, view>>

\* Either button, and onClosed.  (Snooze creates an alarm as well; an armed diff
\* may then ring once more before the player is stopped, to the same effect.)
Close ==
    /\ popup # Closed /\ popup' = Closed /\ silencedBy' = "nothing"
    /\ timer' = FALSE
    /\ player' = SetVolume(StopMusic(player), userVolume)
    /\ UNCHANGED <<currentVolume, user, dialog, closing, view>>

-----------------------------------------------------------------------------
(* The settings dialog *)

OpenDialog == /\ OnPage("home")
              /\ dialog' \in Songs
              /\ UNCHANGED <<player, user, ringing, closing, view>>

\* What silences an alarm whose screen is open, if nothing has yet.
Silence(by) == silencedBy' = IF popup # Closed /\ silencedBy = "nothing" THEN by ELSE silencedBy

\* The play button of the dialog and of the sound page.
PlayPause(song) ==
    IF player.isPlaying THEN player' = TogglePause(player)
                        ELSE player' \in StartMusic(player, song)

DialogPreview == /\ popup = Closed /\ dialog # Closed
                 /\ PlayPause(dialog)
                 /\ UNCHANGED <<user, ringing, dialog, closing, view>>

DialogSong == /\ popup = Closed /\ dialog # Closed
              /\ dialog' \in Songs \ {""}
              /\ player' = StopMusic(player)
              /\ UNCHANGED <<user, ringing, closing, view>>

\* Save, create, delete and a press outside start the exit transition.  While it
\* runs the dialog is still there, above the pages.
CloseDialog == /\ popup = Closed /\ dialog # Closed /\ ~closing
               /\ closing' = TRUE
               /\ UNCHANGED <<player, user, ringing, dialog, view>>

\* Mutant: the dialog has no onClosed.
DialogClosedSilently == /\ closing /\ closing' = FALSE
                        /\ dialog' = Closed
                        /\ UNCHANGED <<player, user, ringing, view>>

\* onClosed, when the transition has ended, whatever has opened meanwhile.
DialogClosed == /\ closing /\ closing' = FALSE
                /\ dialog' = Closed
                /\ player' = StopMusic(player)
                /\ Silence("dialog")
                /\ UNCHANGED <<user, popup, timer, currentVolume, view>>

-----------------------------------------------------------------------------
(* The pages *)

SoundPreview == /\ OnPage("settings") /\ section = "sound"
                /\ \E song \in Songs : PlayPause(song)
                /\ UNCHANGED <<user, ringing, dialog, closing, view>>

SoundSong == /\ OnPage("settings") /\ section = "sound"
             /\ player' = StopMusic(player)
             /\ UNCHANGED <<user, ringing, dialog, closing, view>>

MoveSlider == /\ OnPage("settings") /\ section = "sound"
              /\ userVolume' \in UserVolumes
              /\ player' = SetVolume(player, userVolume')
              /\ UNCHANGED <<smooth, ringing, dialog, closing, view>>

\* The switch on Alarm_Page.
SetSmooth == /\ OnPage("settings") /\ section = "other"
             /\ smooth' = ~smooth
             /\ UNCHANGED <<player, userVolume, ringing, dialog, closing, view>>

\* onCurrentIndexChanged of the list of sections.
Section == /\ OnPage("settings")
           /\ section' \in {"sound", "other"} \ {section}
           /\ player' = StopMusic(player)
           /\ UNCHANGED <<user, ringing, dialog, closing, page, swiping>>

StartSwipe == /\ popup = Closed /\ dialog = Closed /\ ~swiping
              /\ swiping' = TRUE
              /\ UNCHANGED <<player, user, ringing, dialog, closing, page, section>>

\* ver_sv comes to rest on another page, and onCurrentItemChanged stops the
\* player, or on the same one.
Settle == /\ swiping /\ swiping' = FALSE
          /\ \/ UNCHANGED <<page, player, silencedBy>>
             \/ /\ page' \in Pages \ {page}
                /\ player' = StopMusic(player)
                /\ Silence("swipe")
          /\ UNCHANGED <<user, popup, timer, currentVolume, dialog, closing, section>>

AnAlarmRings == \E song \in Songs : Ring(song)
Next == \/ AnAlarmRings \/ VolumeTick \/ Close
        \/ OpenDialog \/ DialogPreview \/ DialogSong \/ CloseDialog \/ DialogClosed
        \/ SoundPreview \/ SoundSong \/ MoveSlider \/ SetSmooth \/ Section
        \/ StartSwipe \/ Settle

Spec == Init /\ [][Next]_vars

\* Qt's timer fires while it runs; nobody has to touch the screen.
FairSpec == Spec /\ WF_vars(VolumeTick)

-----------------------------------------------------------------------------
\* Types; the ramp never goes beyond the volumes the user can set.
TypeOK == /\ player \in Player
          /\ currentVolume \in Nat /\ \E v \in UserVolumes : currentVolume <= v
          /\ userVolume \in UserVolumes /\ smooth \in BOOLEAN
          /\ popup \in Songs \cup {Closed} /\ dialog \in Songs \cup {Closed}
          /\ timer \in BOOLEAN /\ silencedBy \in Silencers
          /\ closing \in BOOLEAN /\ (closing => dialog # Closed)
          /\ page \in Pages /\ section \in {"sound", "other"} /\ swiping \in BOOLEAN

\* audioplayer.cpp:190, "the flag must be synchronised": is_song_active and
\* is_paused, which the play buttons show and decide on, tell what the mixer does.
FlagsFollowMixer == InStep(player)

Aloud == player.isPlaying /\ ~player.isPaused /\ player.music = popup

\* While the ringing screen is open its song plays and is not paused, whatever was
\* previewed or paused before, with three exceptions: the file could not be played, a
\* swipe that was still moving ended on another page, or the settings dialog that was
\* closing has closed.
RingsAloud == popup # Closed /\ silencedBy = "nothing" => Aloud

\* README.md:19, "Flexible alarm clock control and playback": an alarm that can be
\* played is heard until someone stops it, though a swipe was under way when it rang,
HeardThroughSwipe == popup # Closed /\ silencedBy \in {"nothing", "swipe"} => Aloud

\* and though the settings dialog was.
HeardPastDialog == popup # Closed /\ silencedBy \in {"nothing", "dialog"} => Aloud

\* A preview does not outlive the dialog or the page it was started on, nor an
\* alarm the screen it rang on.
QuietElsewhere ==
    player.isPlaying => popup # Closed \/ dialog # Closed
                        \/ (page = "settings" /\ section = "sound")

\* With no alarm ringing the volume is the one the user has set, and stays so.
VolumeRestored == popup = Closed => player.volume = SdlVolume(userVolume) /\ ~timer

\* A ramp that has not reached the user's volume gets there.
RampCompletes ==
    popup # Closed /\ timer /\ currentVolume < userVolume
       ~> popup = Closed \/ player.volume = SdlVolume(userVolume)

\* README.md:19, "Flexible alarm clock control and playback": the last alarm to
\* ring, unless someone stops it, gets as loud as the user has set.
GetsLoud ==
    <>[][~AnAlarmRings]_vars
       => (popup # Closed ~> popup = Closed \/ player.volume = SdlVolume(userVolume))

\* The code keeps none of these three promises.  One run shows it: whatever alarms ring,
\* one of the promises is kept.
SomePromiseOfSound == []HeardThroughSwipe \/ []HeardPastDialog \/ GetsLoud
=============================================================================
