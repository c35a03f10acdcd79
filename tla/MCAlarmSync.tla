---------------------------- MODULE MCAlarmSync ----------------------------
(***************************************************************************)
(* Small instances of AlarmSync: a day of three minutes, one week day.      *)
(***************************************************************************)
EXTENDS AlarmSync

Raw(id, time, enabled, days, song) ==
    [id |-> id, time |-> time, isEnabled |-> enabled, delete_after |-> song # NoSong,
     repeatDays |-> days, song |-> song]

\* An empty list, a list of two without "song" keys, one alarm that is off, and
\* one that repeats and is to be deleted after it rang.
MCPhoneLists == {<<>>,
                 <<Raw(1, 0, TRUE, {}, NoSong), Raw(2, 2, TRUE, {0}, NoSong)>>,
                 <<Raw(2, 1, FALSE, {}, NoSong)>>,
                 <<Raw(1, 2, TRUE, {0}, "a.mp3")>>}

MCEdits == {[time |-> 0, song |-> "a.mp3", delete_after |-> FALSE, repeatDays |-> {}],
            [time |-> 1, song |-> "a.mp3", delete_after |-> TRUE, repeatDays |-> {0}]}
=============================================================================
