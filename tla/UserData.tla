------------------------------ MODULE UserData ------------------------------
(***************************************************************************)
(* The settings and their file, userdata.json (src/general_func.cpp).       *)
(* write_user_json reads the file, changes one key, truncates and writes;   *)
(* the GUI thread calls it for each setting, from src/user.cpp,             *)
(* src/linuxterminal.cpp, src/weather.cpp and src/mqttclient.cpp.  The MQTT *)
(* thread reads the defaults of an alarm from the file meanwhile, without a *)
(* lock, and the power may fail at any moment.                              *)
(*                                                                         *)
(* A file that is empty or half written does not parse and reads like one   *)
(* without any key, so both are the file without keys.                      *)
(***************************************************************************)
EXTENDS Integers

CONSTANTS Keys,            \* keys of userdata.json
          OnlyIfChanged,   \* those whose setters do nothing for the same value
          DelayKey,        \* "standart_delay"
          Defaults,        \* keys read_json_alarms reads in the MQTT thread
          Values,
          Missing,         \* what a key that is not in the file reads as
          Nobody           \* no key is being written

ASSUME UserDataAssumption ==
       /\ OnlyIfChanged \subseteq Keys
       /\ Defaults \subseteq Keys
       /\ DelayKey \in Keys
       /\ Missing \notin Values
       /\ Nobody \notin Keys

VARIABLES
    memory,       \* the members m_city, volume, theme, ... of the objects
    userfile,     \* the file, by key
    writing,      \* the key write_user_json is at, or Nobody
    copy,         \* its jsonObj, with the new value
    truncated,    \* the file is open for writing
    snooze        \* delay of AlarmScreen.qml: get_alarm_delay() when it was created

userVars == <<memory, userfile, writing, copy, truncated, snooze>>

Settings == [Keys -> Values \cup {Missing}]
Blank == [k \in Keys |-> Missing]

-----------------------------------------------------------------------------
\* The constructors read each key; AlarmScreen.qml's binding calls a function and
\* names no property, so it is evaluated once.
UserInit ==
    /\ userfile \in Settings
    /\ memory = userfile
    /\ writing = Nobody
    /\ copy = Blank
    /\ truncated = FALSE
    /\ snooze = memory[DelayKey]

\* Mutant: the object is made anew.
JsonAnew(k, v) == [Blank EXCEPT ![k] = v]

\* The object read from the file, with one key changed.
JsonWith(k, v) == [userfile EXCEPT ![k] = v]

\* set_song, set_photo and set_city do nothing for the same value.
Accepts(k, v) == k \in OnlyIfChanged => memory[k] # v

\* Mutant: the member is set when the file has been written, elsewhere.
SetLater(k, v) ==
    /\ writing = Nobody
    /\ Accepts(k, v)
    /\ copy' = JsonWith(k, v)
    /\ writing' = k
    /\ UNCHANGED <<memory, userfile, truncated, snooze>>

\* A setter, to the reading of the file: set_volume, set_theme, set_song, ...
Set(k, v) ==
    /\ writing = Nobody
    /\ Accepts(k, v)
    /\ memory' = [memory EXCEPT ![k] = v]
    /\ copy' = JsonWith(k, v)
    /\ writing' = k
    /\ UNCHANGED <<userfile, truncated, snooze>>

\* open(WriteOnly | Truncate)
Truncate ==
    /\ writing # Nobody /\ ~ truncated
    /\ truncated' = TRUE
    /\ userfile' = Blank
    /\ UNCHANGED <<memory, writing, copy, snooze>>

\* write, close
WriteBack ==
    /\ truncated
    /\ userfile' = copy
    /\ writing' = Nobody
    /\ copy' = Blank
    /\ truncated' = FALSE
    /\ UNCHANGED <<memory, snooze>>

\* The power fails and the program starts again.
UserRestart ==
    /\ memory' = userfile
    /\ writing' = Nobody
    /\ copy' = Blank
    /\ truncated' = FALSE
    /\ snooze' = userfile[DelayKey]
    /\ UNCHANGED userfile

\* What read_user_json gives the MQTT thread for an alarm without a song.
ReadUserJson(k) == userfile[k]

UserNext ==
    \/ \E k \in Keys, v \in Values : Set(k, v)
    \/ Truncate
    \/ WriteBack
    \/ UserRestart

UserSpec == UserInit /\ [][UserNext]_userVars

-----------------------------------------------------------------------------
UserTypeOK ==
    /\ memory \in Settings
    /\ userfile \in Settings
    /\ copy \in Settings
    /\ writing \in Keys \cup {Nobody}
    /\ truncated \in BOOLEAN
    /\ snooze \in Values \cup {Missing}

\* The file holds what the program works with: all of it when no setting is being
\* written, all but the key that is being written before the file is truncated.
FileFollowsMemory ==
    /\ writing = Nobody => userfile = memory
    /\ ~ truncated => \A k \in Keys \ {writing} : userfile[k] = memory[k]

\* The MQTT thread gets the setting as it is for a new alarm, or as it was before
\* the change being written, unless the file is open for writing just then: only in
\* that moment an alarm gets no song and no delay.
DefaultsAreRead ==
    \A k \in Defaults : ReadUserJson(k) # memory[k] => truncated \/ k = writing

\* A restart loses no setting but the one being written, unless the power fails
\* while the file is open for writing.
SettingsSurvive ==
    [][UserRestart => truncated \/ \A k \in Keys \ {writing} : memory'[k] = memory[k]]_userVars
=============================================================================
