------------------------------ MODULE AlarmList ------------------------------
(***************************************************************************)
(* The alarm list of MqttClient (src/mqttclient.cpp) and the operations the *)
(* GUI calls on it, as operators on sequences.                              *)
(*                                                                         *)
(* An alarm is a QVariantMap.  The fields kept are those some code decides  *)
(* on: id, time (minute of the day), isEnabled, delete_after, repeatDays    *)
(* and song.  isHaptic, label, musicUri and delay are only copied and shown *)
(* and are left out.  repeatDays is the set of the selected days instead of *)
(* the list of seven booleans: the code only asks whether a day is selected *)
(* and whether any is.                                                      *)
(***************************************************************************)
EXTENDS Integers, Sequences, SequencesExt

CONSTANTS DayMinutes,   \* minutes in a day: 1440 in the code, fewer when checked
          WeekDays,     \* days of the week: 0..6, Monday first, as find_first_alarm
          MaxId,        \* bound on the ids that are handed out
          Songs,        \* song paths an alarm can hold
          DefaultSong,  \* userdata.json's current_song
          NoSong        \* the JSON object has no "song" key

ASSUME AlarmListAssumption ==
       /\ DayMinutes \in Nat \ {0}
       /\ MaxId \in Nat
       /\ "" \in Songs
       /\ DefaultSong \in Songs
       /\ NoSong \notin Songs

-----------------------------------------------------------------------------
Times == 0 .. DayMinutes - 1

\* QTime::fromString("") is an invalid QTime.  It compares below every valid one.
NullTime == -1

\* An alarm in memory: every key has a value.
Alarm == [ id           : 0 .. MaxId,
           time         : Times \cup {NullTime},
           isEnabled    : BOOLEAN,
           delete_after : BOOLEAN,
           repeatDays   : SUBSET WeekDays,
           song         : Songs ]

\* An alarm in JSON: the phone may leave "song" (and with it "delay" and
\* "delete_after") out.
JsonAlarm == [ id           : 0 .. MaxId,
               time         : Times \cup {NullTime},
               isEnabled    : BOOLEAN,
               delete_after : BOOLEAN,
               repeatDays   : SUBSET WeekDays,
               song         : Songs \cup {NoSong} ]

\* read_json_alarms: an alarm without "song" gets the defaults.
ReadAlarm(a) ==
    IF a.song = NoSong THEN [a EXCEPT !.song = DefaultSong, !.delete_after = FALSE]
                       ELSE a

ReadJsonAlarms(json) == [i \in DOMAIN json |-> ReadAlarm(json[i])]

-----------------------------------------------------------------------------
Ids(list) == {list[i].id : i \in DOMAIN list}

\* The loops that look an id up stop at its first occurrence.
IndexOf(list, id) == Min({i \in DOMAIN list : list[i].id = id})

\* Mutant: the id from the length of the list.
NextIdByLength(list) == 1 + Len(list)

\* create_alarm counts up from 0 (empty list) or from the largest id.
NextId(list) == 1 + Max({0} \cup Ids(list))

\* Mutant: insert(i) instead of insert(i+1) at the last alarm.
InsertPosShort(list, time) ==
    IF list = <<>> THEN 1
    ELSE Min({i \in DOMAIN list : time < list[i].time} \cup {Len(list)})

\* The insertion loop of create_alarm and change_alarm: before the first alarm
\* that is later than time, else at the end.
InsertPos(list, time) ==
    Min({i \in DOMAIN list : time < list[i].time} \cup {Len(list) + 1})

InsertByTime(list, time, a) == InsertAt(list, InsertPos(list, time), a)

\* What the settings dialog passes to change_alarm.
Edit == [time : Times, song : Songs, delete_after : BOOLEAN, repeatDays : SUBSET WeekDays]

\* new_map of change_alarm when no alarm has the id: an empty QVariantMap.  Its
\* fields read as 0, "", false and an empty list from then on.
Phantom == [id |-> 0, time |-> NullTime, isEnabled |-> FALSE, delete_after |-> FALSE,
            repeatDays |-> {}, song |-> ""]

-----------------------------------------------------------------------------
CreateAlarm(list, edit) ==
    InsertByTime(list, edit.time,
        [id |-> NextId(list), time |-> edit.time, isEnabled |-> TRUE,
         delete_after |-> edit.delete_after, repeatDays |-> edit.repeatDays,
         song |-> edit.song])

ChangeAlarm(list, id, edit) ==
    IF id \in Ids(list)
    THEN LET i == IndexOf(list, id)
         IN  InsertByTime(RemoveAt(list, i), edit.time,
                [list[i] EXCEPT !.time = edit.time, !.song = edit.song,
                                !.delete_after = edit.delete_after,
                                !.repeatDays = edit.repeatDays])
    ELSE InsertByTime(list, edit.time, Phantom)

\* Mutant: the id taken for a row.
DeleteRow(list, id) == IF id \in DOMAIN list THEN RemoveAt(list, id) ELSE list

DeleteAlarm(list, id) ==
    IF id \in Ids(list) THEN RemoveAt(list, IndexOf(list, id)) ELSE list

UpdateStatus(list, id, status) ==
    IF id \in Ids(list) THEN [list EXCEPT ![IndexOf(list, id)].isEnabled = status] ELSE list

\* Mutant: every alarm but a temporary one stays on.
StartKeepsOn(list, id) ==
    IF id \in Ids(list) /\ list[IndexOf(list, id)].delete_after
    THEN RemoveAt(list, IndexOf(list, id)) ELSE list

\* Mutant: a repeating alarm is switched off, too.
StartSwitchesOff(list, id) ==
    IF id \notin Ids(list) THEN list
    ELSE LET i == IndexOf(list, id)
         IN  IF list[i].delete_after THEN RemoveAt(list, i)
             ELSE [list EXCEPT ![i].isEnabled = FALSE]

\* alarm_start: the alarm rings.  A temporary one is removed, a repeating one
\* stays enabled, any other is switched off.
StartAlarm(list, id) ==
    IF id \notin Ids(list) THEN list
    ELSE LET i == IndexOf(list, id)
         IN  IF list[i].delete_after THEN RemoveAt(list, i)
             ELSE [list EXCEPT ![i].isEnabled = (list[i].repeatDays # {})]

\* Some alarm's switch is on.
AnyEnabled(list) == \E i \in DOMAIN list : list[i].isEnabled

-----------------------------------------------------------------------------
\* No two alarms of a list share an id, phantoms (id 0) excepted: a lookup by id
\* finds the alarm that was meant.
Distinct(list) == \A i, j \in DOMAIN list : list[i].id = list[j].id => i = j \/ list[i].id = 0

\* In order of time, phantoms aside.
Sorted(list) == \A i, j \in DOMAIN list :
                   i < j /\ list[i].time # NullTime /\ list[j].time # NullTime
                      => list[i].time <= list[j].time

\* The alarms with another id.
Others(list, id) == {a \in ToSet(list) : a.id # id}
=============================================================================
