---------------------------- MODULE AudioPlayer ----------------------------
(***************************************************************************)
(* AudioPlayer (src/audioplayer.cpp), the SDL_mixer wrapper, as operators   *)
(* on its state, a record of                                                *)
(*   music                  what m_music holds, or NoMusic                  *)
(*   isPlaying, isPaused    m_isPlaying, m_isPaused                         *)
(*   mixing, active         SDL_mixer: music is being played; not paused    *)
(*   volume                 SDL_mixer's music volume, 0 .. MixMaxVolume     *)
(* An operation that may fail is a set of outcomes.                         *)
(***************************************************************************)
EXTENDS Integers

CONSTANTS Songs,      \* paths of sound files, and the empty path
          Broken,     \* paths Mix_LoadMUS fails on
          NoMusic,
          MixMaxVolume   \* MIX_MAX_VOLUME, 128

ASSUME AudioPlayerAssumption ==
       /\ "" \in Songs /\ Broken \subseteq Songs /\ NoMusic \notin Songs
       /\ MixMaxVolume \in Nat

Player == [music : Songs \cup {NoMusic}, isPlaying : BOOLEAN, isPaused : BOOLEAN,
           mixing : BOOLEAN, active : BOOLEAN, volume : 0 .. MixMaxVolume]

\* Mutant: the flag survives the music.
StopMusicKeepsFlag(p) ==
    [p EXCEPT !.music = NoMusic, !.mixing = FALSE, !.isPaused = FALSE]

\* stop: Mix_HaltMusic does not end a pause.
StopMusic(p) == [p EXCEPT !.music = NoMusic, !.mixing = FALSE,
                          !.isPlaying = FALSE, !.isPaused = FALSE]

\* start.  An empty path is refused before stop is called; after it the file may
\* not load and the mixer may not play it.
StartMusic(p, path) ==
    IF path = "" THEN {p}
    ELSE {StopMusic(p)}
         \cup (IF path \in Broken THEN {}
               ELSE {[p EXCEPT !.music = path, !.mixing = TRUE, !.active = TRUE,
                               !.isPlaying = TRUE, !.isPaused = FALSE]})

\* togglePause asks the mixer, not the flag, whether the music is paused.
TogglePause(p) == IF p.isPlaying THEN [p EXCEPT !.active = ~@, !.isPaused = p.active] ELSE p

\* setVolume: a percentage, bounded and rounded to the mixer's scale.
SdlVolume(percentage) ==
    LET bounded == IF percentage < 0 THEN 0 ELSE IF percentage > 100 THEN 100 ELSE percentage
    IN  (2 * bounded * MixMaxVolume + 100) \div 200

SetVolume(p, percentage) == [p EXCEPT !.volume = SdlVolume(percentage)]

\* The player's flags tell what the mixer does.
InStep(p) == /\ p.isPlaying <=> p.mixing
             /\ p.mixing <=> p.music # NoMusic
             /\ p.isPlaying => (p.isPaused <=> ~p.active)
             /\ p.isPaused => p.isPlaying
=============================================================================
