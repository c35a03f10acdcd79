-------------------------- MODULE AlarmSyncProofs --------------------------
(***************************************************************************)
(* Type correctness of AlarmSync, and the safety of the alarm list under    *)
(* every interleaving of the two threads, the phone and power failures, for *)
(* every value of the constants.                                            *)
(***************************************************************************)
EXTENDS AlarmSync, AlarmListProofs

LEMMA AlarmsAreJson == Alarm \subseteq JsonAlarm /\ Seq(Alarm) \subseteq Seq(JsonAlarm)
<1>1. Alarm \subseteq JsonAlarm
    BY DEF Alarm, JsonAlarm
<1> QED
    BY <1>1, SeqMonotonic

\* A file that a list was written to, or that was just truncated, is a file.
LEMMA FilesAreFiles ==
    ASSUME NEW list \in Seq(JsonAlarm)
    PROVE  Truncated \in Files /\ Torn \in Files /\ Holding(list) \in Files
<1>1. <<>> \in Seq(JsonAlarm)
    BY EmptySeq
<1> QED
    BY <1>1 DEF Truncated, Torn, Holding, Files

LEMMA FlushedIsFile ==
    ASSUME NEW list \in Seq(JsonAlarm), NEW f \in Flushed(list)
    PROVE  f \in Files
<1>1. f \in {Torn, Holding(list)}
    BY DEF Flushed
<1> QED
    BY <1>1, FilesAreFiles

\* What a start of the host reads and does.
LEMMA StartProperties ==
    ASSUME NEW f \in Files
    PROVE  /\ Contents(f) \in Seq(Alarm)
           /\ StartGui(f) \in {"idle", "save", "save_publish"}
           /\ StartFile(f) \in Files
<1>1. f.list \in Seq(JsonAlarm)
    BY DEF Files
<1>2. Contents(f) \in Seq(Alarm)
    BY <1>1, ReadJsonAlarmsKeeps DEF Contents
<1>3. StartGui(f) \in {"idle", "save", "save_publish"}
    BY DEF StartGui
<1>4. StartFile(f) \in Files
    BY <1>1, FilesAreFiles DEF StartFile
<1> QED
    BY <1>2, <1>3, <1>4

\* The alarm a snooze asks for is one create_alarm can be called with.
LEMMA SnoozeIsEdit ==
    ASSUME NEW time \in Int, NEW song \in Songs
    PROVE  [time |-> (time + SnoozeDelay) % DayMinutes, song |-> song,
            delete_after |-> TRUE, repeatDays |-> {}] \in Edit
<1>1. DayMinutes \in Nat \ {0}
    BY AlarmListAssumption
<1>2. SnoozeDelay \in Nat
    BY AlarmSyncAssumption
<1>3. (time + SnoozeDelay) % DayMinutes \in 0 .. DayMinutes - 1
    BY <1>1, <1>2
<1> QED
    BY <1>3 DEF Edit, Times

-----------------------------------------------------------------------------
LEMMA InitType == Init => TypeOK
<1> SUFFICES ASSUME Init PROVE TypeOK
    OBVIOUS
<1>1. phone \in Seq(JsonAlarm)
    BY AlarmSyncAssumption DEF Init
<1>2. Holding(phone) \in Files
    BY <1>1, FilesAreFiles
<1>3. alarms \in Seq(Alarm)
    BY <1>1, ReadJsonAlarmsKeeps DEF Init
<1>4. file \in Files /\ gui \in {"idle", "save", "save_publish"}
    BY <1>2, StartProperties DEF Init
<1>5. /\ net \in {"receive", "save"} /\ netMsg \in Seq(JsonAlarm)
      /\ guiQ \in Seq(Seq(Alarm))
      /\ toHost \in Seq(Seq(JsonAlarm)) /\ toPhone \in Seq(Seq(Alarm))
    BY EmptySeq DEF Init
<1>6. timers \in Nat /\ dialog \in 0 .. MaxId \cup {Closed}
    BY DEF Init
<1>7. popup \in [time : Times \cup {NullTime, Closed}, song : Songs]
    BY AlarmListAssumption DEF Init, NoPopup
<1>8. used \in Budget
    BY AlarmSyncAssumption DEF Init, Budget
<1> QED
    BY <1>1, <1>3, <1>4, <1>5, <1>6, <1>7, <1>8 DEF TypeOK

\* Save leaves the file truncated and the thread with the rest of the handler.
LEMMA SaveType ==
    ASSUME NEW then \in {"save", "save_publish"}, Save(then)
    PROVE  file' \in Files /\ gui' \in {"idle", "save", "save_publish"}
<1>1. <<>> \in Seq(JsonAlarm)
    BY EmptySeq
<1> QED
    BY <1>1, FilesAreFiles DEF Save

\* A host event moves the bound on host events and nothing else of its own.
LEMMA HostEventType ==
    ASSUME TypeOK, HostEvent
    PROVE  used' \in Budget
<1>1. used \in Budget /\ used' = [used EXCEPT !.host = @ + 1] /\ used.host < MaxHostEdits
    BY DEF TypeOK, HostEvent
<1>2. MaxHostEdits \in Nat /\ used.host \in 0 .. MaxHostEdits
    BY <1>1, AlarmSyncAssumption DEF Budget
<1>3. used.host + 1 \in 0 .. MaxHostEdits
    BY <1>1, <1>2
<1> QED
    BY <1>1, <1>3 DEF Budget

-----------------------------------------------------------------------------
\* No step leaves the types: one step per action.
LEMMA NextType == TypeOK /\ [Next]_vars => TypeOK'
<1> SUFFICES ASSUME TypeOK, [Next]_vars PROVE TypeOK'
    OBVIOUS
<1> USE DEF TypeOK
<1>1. CASE OpenDialog
    <2>1. dialog' \in 0 .. MaxId
        BY <1>1, AlarmOfList DEF OpenDialog, Ids
    <2> QED
        BY <1>1, <2>1, HostEventType DEF OpenDialog, HostEvent, netVars
<1>2. CASE Create
    <2>1. alarms' \in Seq(Alarm)
        BY <1>2, CreateAlarmKeeps, AlarmSyncAssumption DEF Create
    <2>2. file' \in Files /\ gui' \in {"idle", "save", "save_publish"} /\ used' \in Budget
        BY <1>2, SaveType, HostEventType DEF Create
    <2> QED
        BY <1>2, <2>1, <2>2 DEF Create, HostEvent, netVars
<1>3. CASE Change
    <2>1. dialog \in Nat
        BY <1>3 DEF Change
    <2>2. alarms' \in Seq(Alarm)
        BY <1>3, <2>1, ChangeAlarmKeeps, AlarmSyncAssumption DEF Change
    <2>3. file' \in Files /\ gui' \in {"idle", "save", "save_publish"} /\ used' \in Budget
        BY <1>3, SaveType, HostEventType DEF Change
    <2> QED
        BY <1>3, <2>2, <2>3 DEF Change, HostEvent, netVars
<1>4. CASE Delete
    <2>1. alarms' \in Seq(Alarm)
        BY <1>4, DeleteAlarmKeeps DEF Delete
    <2>2. file' \in Files /\ gui' \in {"idle", "save", "save_publish"} /\ used' \in Budget
        BY <1>4, SaveType, HostEventType DEF Delete
    <2> QED
        BY <1>4, <2>1, <2>2 DEF Delete, HostEvent, netVars
<1>5. CASE Toggle
    <2>1. alarms' \in Seq(Alarm)
        <3>1. PICK i \in DOMAIN alarms, checked \in BOOLEAN :
                 alarms' = UpdateStatus(alarms, alarms[i].id, checked)
            BY <1>5 DEF Toggle
        <3> QED
            BY <3>1, UpdateStatusKeeps
    <2>2. file' \in Files /\ gui' \in {"idle", "save", "save_publish"} /\ used' \in Budget
        BY <1>5, SaveType, HostEventType DEF Toggle
    <2> QED
        BY <1>5, <2>1, <2>2 DEF Toggle, HostEvent, netVars
<1>6. CASE Ring
    <2>1. PICK i \in DOMAIN alarms :
             /\ popup' = [time |-> alarms[i].time, song |-> alarms[i].song]
             /\ alarms' = StartAlarm(alarms, alarms[i].id)
        BY <1>6 DEF Ring
    <2>2. alarms' \in Seq(Alarm)
        BY <2>1, StartAlarmKeeps
    <2>3. popup' \in [time : Times \cup {NullTime, Closed}, song : Songs]
        <3>1. alarms[i].time \in Times \cup {NullTime} /\ alarms[i].song \in Songs
            BY AlarmOfList
        <3> QED
            BY <2>1, <3>1
    <2>4. file' \in Files /\ gui' \in {"idle", "save", "save_publish"} /\ used' \in Budget
        BY <1>6, SaveType, HostEventType DEF Ring
    <2> QED
        BY <1>6, <2>2, <2>3, <2>4 DEF Ring, HostEvent, netVars
<1>7. CASE Snooze
    <2> DEFINE shown == IF popup.time = NullTime THEN 0 ELSE popup.time
               edit == [time |-> (shown + SnoozeDelay) % DayMinutes, song |-> popup.song,
                        delete_after |-> TRUE, repeatDays |-> {}]
    <2>1. shown \in Int /\ popup.song \in Songs
        BY TimesAreIntegers DEF Closed
    <2>2. edit \in Edit
        BY <2>1, SnoozeIsEdit
    <2>3. alarms' = CreateAlarm(alarms, edit) /\ NextId(alarms) <= MaxId
        BY <1>7 DEF Snooze
    <2> HIDE DEF edit
    <2>4. alarms' \in Seq(Alarm)
        BY <2>2, <2>3, CreateAlarmKeeps
    <2>5. popup' \in [time : Times \cup {NullTime, Closed}, song : Songs]
        BY <1>7, AlarmListAssumption DEF Snooze, NoPopup
    <2>6. file' \in Files /\ gui' \in {"idle", "save", "save_publish"} /\ used' \in Budget
        BY <1>7, SaveType, HostEventType DEF Snooze
    <2> QED
        BY <1>7, <2>4, <2>5, <2>6 DEF Snooze, HostEvent, netVars
<1>8. CASE Stop
    <2>1. NoPopup \in [time : Times \cup {NullTime, Closed}, song : Songs]
        BY AlarmListAssumption DEF NoPopup
    <2> QED
        BY <1>8, <2>1 DEF Stop, netVars
<1>9. CASE Flush
    <2>1. file' \in Files
        BY <1>9, FlushedIsFile, AlarmsAreJson DEF Flush
    <2>2. toPhone' \in Seq(Seq(Alarm))
        BY <1>9, AppendProperties DEF Flush
    <2> QED
        BY <1>9, <2>1, <2>2 DEF Flush, netVars
<1>10. CASE PublishLater
    <2>1. toPhone' \in Seq(Seq(Alarm))
        BY <1>10, AppendProperties DEF PublishLater
    <2> QED
        BY <1>10, <2>1 DEF PublishLater, netVars
<1>11. CASE SetAlarms
    <2>1. alarms' \in Seq(Alarm) /\ guiQ' \in Seq(Seq(Alarm))
        BY <1>11, HeadTailProperties DEF SetAlarms
    <2>2. file' \in Files /\ gui' \in {"idle", "save", "save_publish"}
        BY <1>11, SaveType DEF SetAlarms
    <2> QED
        BY <1>11, <2>1, <2>2 DEF SetAlarms
<1>12. CASE Receive
    <2>1. netMsg' \in Seq(JsonAlarm) /\ toHost' \in Seq(Seq(JsonAlarm))
        BY <1>12, HeadTailProperties DEF Receive
    <2>2. file' \in Files
        BY <1>12, <2>1, FilesAreFiles DEF Receive
    <2> QED
        BY <1>12, <2>1, <2>2 DEF Receive, hostVars
<1>13. CASE Received
    <2>1. file' \in Files
        BY <1>13, FlushedIsFile DEF Received
    <2>2. guiQ' \in Seq(Seq(Alarm))
        BY <1>13, ReadJsonAlarmsKeeps, AppendProperties DEF Received
    <2>3. netMsg' \in Seq(JsonAlarm)
        BY <1>13, EmptySeq DEF Received
    <2> QED
        BY <1>13, <2>1, <2>2, <2>3 DEF Received, hostVars
<1>14. CASE PhoneEdit
    <2>1. phone' \in Seq(JsonAlarm)
        BY <1>14, AlarmSyncAssumption DEF PhoneEdit
    <2>2. toHost' \in Seq(Seq(JsonAlarm))
        BY <1>14, <2>1, AppendProperties DEF PhoneEdit
    <2>3. used' \in Budget
        <3>1. used \in Budget /\ used' = [used EXCEPT !.phone = @ + 1] /\ used.phone < MaxPhoneEdits
            BY <1>14 DEF PhoneEdit
        <3>2. MaxPhoneEdits \in Nat /\ used.phone \in 0 .. MaxPhoneEdits
            BY <3>1, AlarmSyncAssumption DEF Budget
        <3>3. used.phone + 1 \in 0 .. MaxPhoneEdits
            BY <3>1, <3>2
        <3> QED
            BY <3>1, <3>3 DEF Budget
    <2> QED
        BY <1>14, <2>1, <2>2, <2>3 DEF PhoneEdit, hostVars, netVars
<1>15. CASE PhoneReceive
    <2>1. phone' \in Seq(JsonAlarm) /\ toPhone' \in Seq(Seq(Alarm))
        BY <1>15, HeadTailProperties, AlarmsAreJson DEF PhoneReceive
    <2> QED
        BY <1>15, <2>1 DEF PhoneReceive, hostVars, netVars
<1>16. CASE Lose
    <2>1. toHost # <<>> => Tail(toHost) \in Seq(Seq(JsonAlarm))
        BY HeadTailProperties
    <2>3. toPhone # <<>> => Tail(toPhone) \in Seq(Seq(Alarm))
        BY HeadTailProperties
    <2>4. toHost' \in Seq(Seq(JsonAlarm)) /\ toPhone' \in Seq(Seq(Alarm))
        BY <1>16, <2>1, <2>3 DEF Lose
    <2>2. used' \in Budget
        <3>1. used \in Budget /\ used' = [used EXCEPT !.lost = @ + 1] /\ used.lost < MaxLosses
            BY <1>16 DEF Lose
        <3>2. MaxLosses \in Nat /\ used.lost \in 0 .. MaxLosses
            BY <3>1, AlarmSyncAssumption DEF Budget
        <3>3. used.lost + 1 \in 0 .. MaxLosses
            BY <3>1, <3>2
        <3> QED
            BY <3>1, <3>3 DEF Budget
    <2> QED
        BY <1>16, <2>2, <2>4 DEF Lose, hostVars, netVars
<1>17. CASE Restart
    <2>1. alarms' \in Seq(Alarm) /\ file' \in Files /\ gui' \in {"idle", "save", "save_publish"}
        BY <1>17, StartProperties DEF Restart
    <2>2. netMsg' \in Seq(JsonAlarm) /\ guiQ' \in Seq(Seq(Alarm)) /\ toHost' \in Seq(Seq(JsonAlarm))
        BY <1>17, EmptySeq DEF Restart
    <2>3. popup' \in [time : Times \cup {NullTime, Closed}, song : Songs]
        BY <1>17, AlarmListAssumption DEF Restart, NoPopup
    <2>4. used' \in Budget
        <3>1. used \in Budget /\ used' = [used EXCEPT !.crash = @ + 1] /\ used.crash < MaxCrashes
            BY <1>17 DEF Restart
        <3>2. MaxCrashes \in Nat /\ used.crash \in 0 .. MaxCrashes
            BY <3>1, AlarmSyncAssumption DEF Budget
        <3>3. used.crash + 1 \in 0 .. MaxCrashes
            BY <3>1, <3>2
        <3> QED
            BY <3>1, <3>3 DEF Budget
    <2> QED
        BY <1>17, <2>1, <2>2, <2>3, <2>4 DEF Restart
<1>18. CASE UNCHANGED vars
    BY <1>18 DEF vars, netVars
<1> QED
    BY <1>1, <1>2, <1>3, <1>4, <1>5, <1>6, <1>7, <1>8, <1>9, <1>10, <1>11, <1>12, <1>13,
       <1>14, <1>15, <1>16, <1>17, <1>18
    DEF Next, Gui, HostEdit, Net

\* Every reachable state is well typed.
THEOREM TypeCorrect == Spec => []TypeOK
<1>1. Init => TypeOK
    BY InitType
<1>2. TypeOK /\ [Next]_vars => TypeOK'
    BY NextType
<1> QED
    BY <1>1, <1>2, PTL DEF Spec

-----------------------------------------------------------------------------
(***************************************************************************)
(* Distinct ids.  UniqueIds alone is not inductive: the list in memory is   *)
(* replaced by what was queued, received or read from the file, so these    *)
(* must hold lists with distinct ids too.                                   *)
(***************************************************************************)
DistinctLists ==
    /\ Distinct(alarms)
    /\ Distinct(file.list)
    /\ Distinct(netMsg)
    /\ \A i \in DOMAIN guiQ : Distinct(guiQ[i])
    /\ \A i \in DOMAIN toHost : Distinct(toHost[i])

LEMMA EmptyDistinct == Distinct(<<>>)
BY DEF Distinct

LEMMA FilesDistinct ==
    ASSUME NEW list, Distinct(list)
    PROVE  /\ Distinct(Truncated.list) /\ Distinct(Holding(list).list)
           /\ \A f \in Flushed(list) : Distinct(f.list)
BY EmptyDistinct DEF Truncated, Torn, Holding, Flushed

\* Queues of lists with distinct ids, after a list leaves or joins them.
LEMMA TailDistinct ==
    ASSUME NEW S, NEW q \in Seq(S), q # <<>>, \A i \in DOMAIN q : Distinct(q[i])
    PROVE  Distinct(Head(q)) /\ \A i \in DOMAIN Tail(q) : Distinct(Tail(q)[i])
<1>1. DOMAIN q = 1 .. Len(q) /\ Len(q) \in Nat /\ Len(q) # 0
    BY LenProperties, EmptySeq
<1>2. Head(q) = q[1]
    OBVIOUS
<1>3. /\ Tail(q) \in Seq(S) /\ Len(Tail(q)) = Len(q) - 1
      /\ \A i \in 1 .. Len(Tail(q)) : Tail(q)[i] = q[i + 1]
    BY HeadTailProperties
<1>4. DOMAIN Tail(q) = 1 .. Len(q) - 1
    BY <1>3, LenProperties
<1>5. \A i \in 1 .. Len(q) - 1 : i + 1 \in DOMAIN q
    BY <1>1
<1> QED
    BY <1>1, <1>2, <1>3, <1>4, <1>5

LEMMA AppendDistinct ==
    ASSUME NEW S, NEW q \in Seq(S), NEW list \in S, Distinct(list),
           \A i \in DOMAIN q : Distinct(q[i])
    PROVE  \A i \in DOMAIN Append(q, list) : Distinct(Append(q, list)[i])
<1>1. DOMAIN q = 1 .. Len(q) /\ Len(q) \in Nat
    BY LenProperties
<1>2. /\ Append(q, list) \in Seq(S) /\ Len(Append(q, list)) = Len(q) + 1
      /\ \A i \in 1 .. Len(q) : Append(q, list)[i] = q[i]
      /\ Append(q, list)[Len(q) + 1] = list
    BY AppendProperties
<1>3. DOMAIN Append(q, list) = 1 .. Len(q) + 1
    BY <1>2, LenProperties
<1>4. \A i \in 1 .. Len(q) + 1 : i \in 1 .. Len(q) \/ i = Len(q) + 1
    BY <1>1
<1> QED
    BY <1>1, <1>2, <1>3, <1>4

LEMMA InitDistinct == Init => DistinctLists
<1> SUFFICES ASSUME Init PROVE DistinctLists
    OBVIOUS
<1>1. phone \in Seq(JsonAlarm) /\ Distinct(phone)
    BY AlarmSyncAssumption DEF Init
<1>2. Distinct(alarms)
    BY <1>1, ReadJsonAlarmsKeeps DEF Init
<1>3. Distinct(file.list)
    BY <1>1, FilesDistinct DEF Init, StartFile
<1> QED
    BY <1>2, <1>3, EmptyDistinct DEF Init, DistinctLists

\* What the operations of the GUI do to the ids, the order and the other alarms.
LEMMA HostEditKeeps ==
    ASSUME TypeOK, HostEdit
    PROVE  /\ Distinct(alarms) => Distinct(alarms')
           /\ Sorted(alarms) => Sorted(alarms')
           /\ \E id \in 0 .. MaxId : Others(alarms', id) = Others(alarms, id)
           /\ file' = file \/ file' = Truncated
           /\ UNCHANGED <<netVars, toHost>>
<1> USE DEF TypeOK
<1>0. \A i \in DOMAIN alarms : alarms[i].id \in 0 .. MaxId
    BY AlarmOfList
<1>1. CASE OpenDialog
    <2>1. 0 \in 0 .. MaxId
        <3>1. MaxId \in Nat
            BY AlarmListAssumption
        <3> QED
            BY <3>1
    <2> QED
        BY <1>1, <2>1 DEF OpenDialog, HostEvent
<1>2. CASE Create
    <2>1. PICK edit \in Edits : alarms' = CreateAlarm(alarms, edit)
        BY <1>2 DEF Create
    <2>2. edit \in Edit /\ NextId(alarms) <= MaxId
        BY <1>2, <2>1, AlarmSyncAssumption DEF Create
    <2> QED
        BY <1>2, <2>1, <2>2, CreateAlarmKeeps DEF Create, HostEvent, Save
<1>3. CASE Change
    <2>1. PICK edit \in Edits : alarms' = ChangeAlarm(alarms, dialog, edit)
        BY <1>3 DEF Change
    <2>2. edit \in Edit /\ dialog \in Nat
        BY <1>3, <2>1, AlarmSyncAssumption DEF Change
    <2> QED
        BY ZenonT(40), <1>3, <2>1, <2>2, ChangeAlarmKeeps DEF Change, HostEvent, Save
<1>4. CASE Delete
    <2>1. dialog \in 0 .. MaxId /\ alarms' = DeleteAlarm(alarms, dialog)
        BY <1>4 DEF Delete
    <2> QED
        BY <1>4, <2>1, DeleteAlarmKeeps DEF Delete, HostEvent, Save
<1>5. CASE Toggle
    <2>1. PICK i \in DOMAIN alarms, checked \in BOOLEAN :
             alarms' = UpdateStatus(alarms, alarms[i].id, checked)
        BY <1>5 DEF Toggle
    <2> QED
        BY <1>0, <1>5, <2>1, UpdateStatusKeeps DEF Toggle, HostEvent, Save
<1>6. CASE Ring
    <2>1. PICK i \in DOMAIN alarms : alarms' = StartAlarm(alarms, alarms[i].id)
        BY <1>6 DEF Ring
    <2> QED
        BY <1>0, <1>6, <2>1, StartAlarmKeeps DEF Ring, HostEvent, Save
<1>7. CASE Snooze
    <2> DEFINE shown == IF popup.time = NullTime THEN 0 ELSE popup.time
               edit == [time |-> (shown + SnoozeDelay) % DayMinutes, song |-> popup.song,
                        delete_after |-> TRUE, repeatDays |-> {}]
    <2>1. shown \in Int /\ popup.song \in Songs
        BY TimesAreIntegers DEF Closed
    <2>2. edit \in Edit
        BY <2>1, SnoozeIsEdit
    <2>3. alarms' = CreateAlarm(alarms, edit) /\ NextId(alarms) <= MaxId
        BY <1>7 DEF Snooze
    <2> HIDE DEF edit
    <2> QED
        BY <1>7, <2>2, <2>3, CreateAlarmKeeps DEF Snooze, HostEvent, Save
<1> QED
    BY <1>1, <1>2, <1>3, <1>4, <1>5, <1>6, <1>7 DEF HostEdit

LEMMA NextDistinct == TypeOK /\ DistinctLists /\ [Next]_vars => DistinctLists'
<1> SUFFICES ASSUME TypeOK, DistinctLists, [Next]_vars PROVE DistinctLists'
    OBVIOUS
<1> USE DEF TypeOK, DistinctLists
<1>1. CASE HostEdit
    <2>1. /\ Distinct(alarms') /\ (file' = file \/ file' = Truncated)
          /\ UNCHANGED <<netVars, toHost>>
        BY <1>1, HostEditKeeps
    <2> QED
        BY <2>1, FilesDistinct, EmptyDistinct DEF netVars
<1>2. CASE Stop
    BY <1>2 DEF Stop, netVars
<1>3. CASE Flush
    <2>1. Distinct(file'.list)
        BY <1>3, FilesDistinct DEF Flush
    <2> QED
        BY <1>3, <2>1 DEF Flush, netVars
<1>4. CASE PublishLater
    BY <1>4 DEF PublishLater, netVars
<1>5. CASE SetAlarms
    <2>1. Distinct(alarms') /\ \A i \in DOMAIN guiQ' : Distinct(guiQ'[i])
        BY <1>5, TailDistinct DEF SetAlarms
    <2>2. Distinct(file'.list)
        BY <1>5, FilesDistinct, EmptyDistinct DEF SetAlarms, Save
    <2> QED
        BY <1>5, <2>1, <2>2 DEF SetAlarms
<1>6. CASE Receive
    <2>1. Distinct(netMsg') /\ \A i \in DOMAIN toHost' : Distinct(toHost'[i])
        BY <1>6, TailDistinct DEF Receive
    <2>2. Distinct(file'.list)
        BY <1>6, FilesDistinct, EmptyDistinct DEF Receive
    <2> QED
        BY <1>6, <2>1, <2>2 DEF Receive, hostVars
<1>7. CASE Received
    <2>1. Distinct(file'.list) /\ Distinct(netMsg')
        BY <1>7, FilesDistinct, EmptyDistinct DEF Received
    <2>2. ReadJsonAlarms(netMsg) \in Seq(Alarm) /\ Distinct(ReadJsonAlarms(netMsg))
        BY ReadJsonAlarmsKeeps
    <2>3. \A i \in DOMAIN guiQ' : Distinct(guiQ'[i])
        BY <1>7, <2>2, AppendDistinct DEF Received
    <2> QED
        BY <1>7, <2>1, <2>3 DEF Received, hostVars
<1>8. CASE PhoneEdit
    <2>1. phone' \in Seq(JsonAlarm) /\ Distinct(phone')
        BY <1>8, AlarmSyncAssumption DEF PhoneEdit
    <2>2. \A i \in DOMAIN toHost' : Distinct(toHost'[i])
        BY <1>8, <2>1, AppendDistinct DEF PhoneEdit
    <2> QED
        BY <1>8, <2>2 DEF PhoneEdit, hostVars, netVars
<1>9. CASE PhoneReceive
    BY <1>9 DEF PhoneReceive, hostVars, netVars
<1>10. CASE Lose
    <2>1. toHost # <<>> => \A i \in DOMAIN Tail(toHost) : Distinct(Tail(toHost)[i])
        BY TailDistinct
    <2>2. \A i \in DOMAIN toHost' : Distinct(toHost'[i])
        BY <1>10, <2>1 DEF Lose
    <2> QED
        BY <1>10, <2>2 DEF Lose, hostVars, netVars
<1>11. CASE Restart
    <2>1. file.list \in Seq(JsonAlarm)
        BY DEF Files
    <2>2. Distinct(alarms')
        BY <1>11, <2>1, ReadJsonAlarmsKeeps DEF Restart, Contents
    <2>3. Distinct(file'.list)
        BY <1>11, FilesDistinct, EmptyDistinct DEF Restart, StartFile
    <2> QED
        BY <1>11, <2>2, <2>3, EmptyDistinct DEF Restart
<1>12. CASE UNCHANGED vars
    BY <1>12 DEF vars, netVars
<1> QED
    BY <1>1, <1>2, <1>3, <1>4, <1>5, <1>6, <1>7, <1>8, <1>9, <1>10, <1>11, <1>12
    DEF Next, Gui, Net

\* create_alarm, change_alarm and the exchange of lists never leave two alarms
\* with one id, in whatever order the threads run.
THEOREM IdsStayUnique == Spec => []UniqueIds
<1>1. Init => TypeOK /\ DistinctLists
    BY InitType, InitDistinct
<1>2. TypeOK /\ DistinctLists /\ [Next]_vars => (TypeOK /\ DistinctLists)'
    BY NextType, NextDistinct
<1>3. DistinctLists => UniqueIds
    BY DEF DistinctLists, UniqueIds
<1> QED
    BY <1>1, <1>2, <1>3, PTL DEF Spec

-----------------------------------------------------------------------------
\* An operation of the host never puts a list that is in order of time out of
\* order.
THEOREM OrderIsKept == Spec => EditsKeepOrder
<1>1. TypeOK /\ [Next]_vars => [HostEdit /\ Sorted(alarms) => Sorted(alarms')]_vars
    BY HostEditKeeps
<1> QED
    BY <1>1, TypeCorrect, PTL DEF Spec, EditsKeepOrder

\* Save and delete in the settings dialog touch the alarm of the dialog.
LEMMA DialogKeepsOthers ==
    ASSUME TypeOK, Delete \/ (Change /\ dialog \in Ids(alarms))
    PROVE  Others(alarms', dialog) = Others(alarms, dialog)
<1> USE DEF TypeOK
<1>1. CASE Delete
    <2>1. alarms' = DeleteAlarm(alarms, dialog)
        BY <1>1 DEF Delete
    <2> QED
        BY <2>1, DeleteAlarmKeeps
<1>2. CASE Change /\ dialog \in Ids(alarms)
    <2>1. PICK edit \in Edits : alarms' = ChangeAlarm(alarms, dialog, edit)
        BY <1>2 DEF Change
    <2>2. edit \in Edit /\ dialog \in Nat
        BY <1>2, <2>1, AlarmSyncAssumption DEF Change
    <2> QED
        BY <1>2, <2>1, <2>2, ChangeAlarmKeeps
<1> QED
    BY <1>1, <1>2

\* An operation of the host changes, adds or removes one alarm and no other, and
\* the settings dialog's that of its own alarm.
THEOREM OtherAlarmsAreKept == Spec => EditsTouchOneAlarm
<1> DEFINE Kept == /\ HostEdit => \E id \in 0 .. MaxId : Others(alarms', id) = Others(alarms, id)
                   /\ Delete \/ (Change /\ dialog \in Ids(alarms))
                         => Others(alarms', dialog) = Others(alarms, dialog)
<1>1. TypeOK /\ [Next]_vars => [Kept]_vars
    BY HostEditKeeps, DialogKeepsOthers
<1> QED
    BY <1>1, TypeCorrect, PTL DEF Spec, EditsTouchOneAlarm

\* An edit leaves a list that is in order in order, and every alarm but one, which with
\* the settings dialog is the dialog's, as it was.
THEOREM EditsLeaveTheRest == Spec => EditsAreCareful
BY OrderIsKept, OtherAlarmsAreKept DEF EditsAreCareful

-----------------------------------------------------------------------------
(***************************************************************************)
(* Edits that do not overlap.  An edit then starts from a quiet state, so   *)
(* one list at most is on its way to the host, in one of three places, and  *)
(* no two threads have the file open at once.                               *)
(***************************************************************************)
OneOnItsWay ==
    /\ toHost # <<>> => /\ Tail(toHost) = <<>>
                        /\ net = "receive" /\ guiQ = <<>> /\ gui = "idle"
    /\ net = "save" => guiQ = <<>> /\ gui = "idle"
    /\ guiQ # <<>> => Tail(guiQ) = <<>> /\ gui = "idle"

\* What the file holds while a writer has it open, and between Received and
\* SetAlarms; otherwise DurableWhenIdle says it.
FileFollows ==
    /\ gui # "idle" \/ net = "save" => file.state = "truncated"
    /\ guiQ # <<>> => Contents(file) = Head(guiQ)

Durable == OneOnItsWay /\ FileFollows /\ DurableWhenIdle

\* Whose list is the last one written: the phone's while it is on its way to the
\* host; else the host's, which is on its way to the phone unless it is there.
LastWriteSpreads ==
    /\ toHost # <<>> \/ net = "save" \/ guiQ # <<>> =>
          Written = ReadJsonAlarms(phone) /\ toPhone = <<>> /\ timers = 0
    /\ \A i \in DOMAIN toPhone : toPhone[i] = alarms
    /\ \/ InSync
       \/ toHost # <<>> \/ net = "save" \/ guiQ # <<>>
       \/ toPhone # <<>> \/ gui = "save_publish" \/ timers > 0

-----------------------------------------------------------------------------
\* A list of the host is read back from JSON as it was written.
LEMMA AlarmsReadBack ==
    ASSUME NEW list \in Seq(Alarm)
    PROVE  ReadJsonAlarms(list) = list
<1>1. \A i \in DOMAIN list : ReadAlarm(list[i]) = list[i]
    <2>1. \A i \in DOMAIN list : list[i].song \in Songs
        BY AlarmOfList
    <2> QED
        BY <2>1, AlarmListAssumption DEF ReadAlarm
<1>2. list = [i \in DOMAIN list |-> list[i]]
    BY LenProperties
<1> QED
    BY <1>1, <1>2 DEF ReadJsonAlarms

LEMMA NothingRead == ReadJsonAlarms(<<>>) = <<>>
<1>1. <<>> \in Seq(Alarm)
    BY EmptySeq
<1> QED
    BY <1>1, AlarmsReadBack

\* The only list of a queue.
LEMMA OnlyOne == ASSUME NEW list PROVE /\ Append(<<>>, list) # <<>>
                                       /\ Head(Append(<<>>, list)) = list
                                       /\ Tail(Append(<<>>, list)) = <<>>
OBVIOUS

\* A file as a start of the host finds it, and as it leaves it.
LEMMA StartDurable ==
    ASSUME NEW f \in Files
    PROVE  /\ StartGui(f) \in {"idle", "save_publish"}
           /\ StartGui(f) = "idle" => Contents(StartFile(f)) = Contents(f)
           /\ StartGui(f) # "idle" => StartFile(f).state = "truncated"
BY DEF StartGui, StartFile, Truncated

\* What the operations of the GUI leave to be done.
LEMMA HostEditEffects ==
    ASSUME TypeOK, HostEdit
    PROVE  /\ UNCHANGED <<net, netMsg, guiQ, toHost, toPhone, phone>>
           /\ gui = "idle" /\ (Overlap \/ Quiet)
           /\ \/ UNCHANGED <<alarms, file, gui, timers>>
              \/ gui' = "save_publish" /\ file' = Truncated /\ timers' \in {timers, timers + 1}
              \/ gui' = "save" /\ file' = Truncated /\ timers' = timers + 1
<1>1. CASE OpenDialog
    BY <1>1 DEF OpenDialog, HostEvent, netVars
<1>2. CASE Create \/ Change \/ Delete \/ Toggle \/ Snooze
    BY <1>2 DEF Create, Change, Delete, Toggle, Snooze, HostEvent, Save, netVars
<1>3. CASE Ring
    BY <1>3 DEF Ring, HostEvent, Save, netVars
<1> QED
    BY <1>1, <1>2, <1>3 DEF HostEdit

LEMMA InitDurable == Init => Durable
<1> SUFFICES ASSUME Init PROVE Durable
    OBVIOUS
<1>1. phone \in Seq(JsonAlarm)
    BY AlarmSyncAssumption DEF Init
<1>2. Holding(phone) \in Files
    BY <1>1, FilesAreFiles
<1>3. /\ gui = "idle" => Contents(file) = Contents(Holding(phone))
      /\ gui # "idle" => file.state = "truncated"
    BY <1>2, StartDurable DEF Init
<1>4. Contents(Holding(phone)) = alarms
    BY DEF Init, Contents, Holding
<1> QED
    BY <1>3, <1>4 DEF Init, Durable, OneOnItsWay, FileFollows, DurableWhenIdle

\* A save that finds the file truncated leaves it with the list.
LEMMA FlushedAlone ==
    ASSUME NEW list, NEW f \in Flushed(list), file.state = "truncated"
    PROVE  Contents(f) = ReadJsonAlarms(list)
BY DEF Flushed, Contents, Holding

LEMMA NextDurable == ~Overlap /\ TypeOK /\ Durable /\ [Next]_vars => Durable'
<1> SUFFICES ASSUME ~Overlap, TypeOK, Durable, [Next]_vars PROVE Durable'
    OBVIOUS
<1> USE DEF TypeOK, Durable, OneOnItsWay, FileFollows, DurableWhenIdle
<1>0. \A f : file' = f => Contents(file)' = Contents(f)
    BY DEF Contents
<1>1. CASE HostEdit
    <2>1. Quiet
        BY <1>1, HostEditEffects
    <2>2. CASE UNCHANGED <<alarms, file, gui, timers>>
        BY <1>1, <2>2, HostEditEffects DEF Contents
    <2>3. CASE gui' # "idle" /\ file' = Truncated
        BY <1>1, <2>1, <2>3, HostEditEffects DEF Quiet, Truncated
    <2> QED
        BY <1>1, <2>2, <2>3, HostEditEffects
<1>2. CASE Stop
    BY <1>2 DEF Stop, netVars, Contents
<1>3. CASE Flush
    <2>1. file' \in Flushed(alarms) /\ file.state = "truncated"
        BY <1>3 DEF Flush
    <2>2. Contents(file') = alarms
        BY <2>1, FlushedAlone, AlarmsReadBack
    <2>3. gui # "idle" /\ gui' = "idle"
        BY <1>3 DEF Flush
    <2>4. UNCHANGED <<alarms, net, guiQ, toHost>>
        BY <1>3 DEF Flush, netVars
    <2> QED
        BY <1>0, <2>2, <2>3, <2>4
<1>4. CASE PublishLater
    BY <1>4 DEF PublishLater, netVars, Contents
<1>5. CASE SetAlarms
    <2>1. guiQ' = <<>> /\ toHost = <<>> /\ net = "receive"
        BY <1>5 DEF SetAlarms
    <2>2. CASE AnyEnabled(alarms')
        BY <1>5, <2>1, <2>2 DEF SetAlarms, Save, Truncated
    <2>3. CASE ~AnyEnabled(alarms')
        BY <1>5, <2>1, <2>3 DEF SetAlarms, Contents
    <2> QED
        BY <2>2, <2>3
<1>6. CASE Receive
    <2>1. UNCHANGED <<gui, guiQ>> /\ toHost' = <<>> /\ net' = "save" /\ file' = Truncated
        BY <1>6 DEF Receive, hostVars
    <2> QED
        BY <1>6, <2>1 DEF Receive, Truncated
<1>7. CASE Received
    <2>1. guiQ = <<>> /\ gui = "idle" /\ toHost = <<>> /\ file.state = "truncated"
        BY <1>7 DEF Received
    <2>2. Contents(file') = ReadJsonAlarms(netMsg)
        BY <1>7, <2>1, FlushedAlone DEF Received
    <2>3. guiQ' # <<>> /\ Head(guiQ') = ReadJsonAlarms(netMsg) /\ Tail(guiQ') = <<>>
        BY <1>7, <2>1, OnlyOne DEF Received
    <2>4. net' = "receive" /\ gui' = "idle" /\ toHost' = <<>>
        BY <1>7, <2>1 DEF Received, hostVars
    <2> QED
        BY <1>0, <2>2, <2>3, <2>4
<1>8. CASE PhoneEdit
    <2>1. Quiet
        BY <1>8 DEF PhoneEdit
    <2>2. toHost' # <<>> /\ Tail(toHost') = <<>>
        BY <1>8, <2>1, OnlyOne DEF PhoneEdit, Quiet
    <2>3. UNCHANGED <<alarms, file, gui, net, guiQ>>
        BY <1>8 DEF PhoneEdit, hostVars, netVars
    <2> QED
        BY <2>1, <2>2, <2>3 DEF Quiet, Contents
<1>9. CASE PhoneReceive
    BY <1>9 DEF PhoneReceive, hostVars, netVars, Contents
<1>10. CASE Lose
    <2>1. UNCHANGED <<alarms, file, gui, net, guiQ>> /\ toHost' \in {toHost, Tail(toHost)}
        BY <1>10 DEF Lose, hostVars, netVars
    <2>2. toHost' = toHost \/ (toHost # <<>> /\ toHost' = Tail(toHost))
        BY <1>10 DEF Lose
    <2> QED
        BY <2>1, <2>2 DEF Contents
<1>11. CASE Restart
    <2>1. /\ alarms' = Contents(file) /\ gui' = StartGui(file) /\ file' = StartFile(file)
          /\ net' = "receive" /\ guiQ' = <<>> /\ toHost' = <<>>
        BY <1>11 DEF Restart
    <2>2. gui' = "idle" => Contents(file') = alarms'
        BY <2>1, StartDurable
    <2>3. gui' # "idle" => file'.state = "truncated"
        BY <2>1, StartDurable
    <2> QED
        BY <1>0, <2>1, <2>2, <2>3
<1>12. CASE UNCHANGED vars
    BY <1>12 DEF vars, Contents
<1> QED
    BY <1>1, <1>2, <1>3, <1>4, <1>5, <1>6, <1>7, <1>8, <1>9, <1>10, <1>11, <1>12
    DEF Next, Gui, Net

\* While edits do not overlap, whatever is lost and however often the power
\* fails, alarms.json holds the list in memory whenever no handler is in the
\* middle of a save.
THEOREM IdleIsDurable == ASSUME ~Overlap PROVE Spec => []DurableWhenIdle
<1>1. Init => TypeOK /\ Durable
    BY InitType, InitDurable
<1>2. TypeOK /\ Durable /\ [Next]_vars => (TypeOK /\ Durable)'
    BY NextType, NextDurable
<1>3. Durable => DurableWhenIdle
    BY DEF Durable
<1> QED
    BY <1>1, <1>2, <1>3, PTL DEF Spec

-----------------------------------------------------------------------------
(***************************************************************************)
(* Nothing lost, no power failure: the last write reaches both sides.       *)
(***************************************************************************)
Reliable == ~Overlap /\ MaxLosses = 0 /\ MaxCrashes = 0

LEMMA NothingIsLost == Reliable /\ TypeOK => ~Lose /\ ~Restart
<1> SUFFICES ASSUME Reliable, TypeOK PROVE ~Lose /\ ~Restart
    OBVIOUS
<1>1. used.lost \in 0 .. 0 /\ used.crash \in 0 .. 0
    BY DEF TypeOK, Budget, Reliable
<1> QED
    BY <1>1 DEF Lose, Restart, Reliable

LEMMA InitSpreads == Init => LastWriteSpreads
BY DEF Init, LastWriteSpreads, InSync

\* A queue of copies of one list, after a copy joins or leaves it.
LEMMA CopiesAppended ==
    ASSUME NEW S, NEW q \in Seq(S), NEW list \in S, \A i \in DOMAIN q : q[i] = list
    PROVE  /\ Append(q, list) # <<>>
           /\ \A i \in DOMAIN Append(q, list) : Append(q, list)[i] = list
<1>1. DOMAIN q = 1 .. Len(q) /\ Len(q) \in Nat
    BY LenProperties
<1>2. /\ Append(q, list) \in Seq(S) /\ Len(Append(q, list)) = Len(q) + 1
      /\ \A i \in 1 .. Len(q) : Append(q, list)[i] = q[i]
      /\ Append(q, list)[Len(q) + 1] = list
    BY AppendProperties
<1>3. DOMAIN Append(q, list) = 1 .. Len(q) + 1
    BY <1>2, LenProperties
<1>4. \A i \in 1 .. Len(q) + 1 : i \in 1 .. Len(q) \/ i = Len(q) + 1
    BY <1>1
<1> QED
    BY <1>1, <1>2, <1>3, <1>4

LEMMA CopiesTaken ==
    ASSUME NEW S, NEW q \in Seq(S), NEW list, q # <<>>, \A i \in DOMAIN q : q[i] = list
    PROVE  Head(q) = list /\ \A i \in DOMAIN Tail(q) : Tail(q)[i] = list
<1>1. DOMAIN q = 1 .. Len(q) /\ Len(q) \in Nat /\ Len(q) # 0
    BY LenProperties, EmptySeq
<1>2. Head(q) = q[1]
    OBVIOUS
<1>3. /\ Tail(q) \in Seq(S) /\ Len(Tail(q)) = Len(q) - 1
      /\ \A i \in 1 .. Len(Tail(q)) : Tail(q)[i] = q[i + 1]
    BY HeadTailProperties
<1>4. DOMAIN Tail(q) = 1 .. Len(q) - 1
    BY <1>3, LenProperties
<1>5. \A i \in 1 .. Len(q) - 1 : i + 1 \in DOMAIN q
    BY <1>1
<1> QED
    BY <1>1, <1>2, <1>3, <1>4, <1>5

\* The list as it was last written, at each place it can be.
LEMMA WrittenAt ==
    ASSUME OneOnItsWay
    PROVE  /\ toHost # <<>> => Written = ReadJsonAlarms(Head(toHost))
           /\ toHost = <<>> /\ net = "save" => Written = ReadJsonAlarms(netMsg)
           /\ toHost = <<>> /\ net # "save" /\ guiQ # <<>> => Written = Head(guiQ)
           /\ toHost = <<>> /\ net # "save" /\ guiQ = <<>> => Written = alarms
BY DEF Written

\* Nothing on its way: both copies are the list last written.
LEMMA QuietUpToDate ==
    ASSUME TypeOK, LastWriteSpreads, Quiet
    PROVE  InSync /\ Written = alarms
BY DEF TypeOK, LastWriteSpreads, Quiet, Written

\* Every step of AlarmSync spreads the last write, and is a step of the shared list
\* or leaves it alone.
LEMMA StepSpreads ==
    ASSUME Reliable, TypeOK, OneOnItsWay, LastWriteSpreads, [Next]_vars
    PROVE  LastWriteSpreads' /\ [Shared!Next]_(Shared!vars)
<1> DEFINE copy == ReadJsonAlarms(phone)
           OnItsWay == toHost # <<>> \/ net = "save" \/ guiQ # <<>>
           Spreads == /\ OnItsWay => Written = copy /\ toPhone = <<>> /\ timers = 0
                      /\ \A i \in DOMAIN toPhone : toPhone[i] = alarms
                      /\ \/ alarms = copy \/ OnItsWay
                         \/ toPhone # <<>> \/ gui = "save_publish" \/ timers > 0
           Stays == UNCHANGED <<Written, alarms, copy>>
           Moves == \/ alarms = Written /\ copy = Written /\ Written' \in Seq(Alarm)
                       /\ \/ alarms' = Written' /\ copy' = copy
                          \/ copy' = Written' /\ alarms' = alarms
                    \/ alarms # Written /\ alarms' = Written /\ Written' = Written /\ copy' = copy
                    \/ copy # Written /\ copy' = Written /\ Written' = Written /\ alarms' = alarms
<1> SUFFICES Spreads' /\ (Moves \/ Stays)
    BY DEF Shared!Next, Shared!vars, Shared!HostWrites, Shared!PhoneWrites, Shared!HostFollows,
           Shared!PhoneFollows, Shared!UpToDate, LastWriteSpreads, InSync
<1>0. Spreads
    BY DEF LastWriteSpreads, InSync
<1>t. TypeOK'
    BY NextType
<1>w. ~OnItsWay => Written = alarms
    BY DEF Written
<1>v. ~OnItsWay' => Written' = alarms'
    BY DEF Written
<1>q. Quiet => alarms = copy /\ ~OnItsWay /\ toPhone = <<>> /\ timers = 0
    BY QuietUpToDate DEF InSync, Quiet
<1>l. ~Lose /\ ~Restart
    BY NothingIsLost
<1>a. /\ Append(toPhone, alarms) # <<>>
      /\ \A i \in DOMAIN Append(toPhone, alarms) : Append(toPhone, alarms)[i] = alarms
    <2>1. toPhone \in Seq(Seq(Alarm)) /\ alarms \in Seq(Alarm) /\ \A i \in DOMAIN toPhone : toPhone[i] = alarms
        BY <1>0 DEF TypeOK
    <2> HIDE DEF Spreads
    <2> QED
        BY <2>1, CopiesAppended
<1> USE DEF TypeOK
<1>1. CASE HostEdit
    <2>1. Quiet
        BY <1>1, HostEditEffects DEF Reliable
    <2>2. UNCHANGED <<copy, net, guiQ, toHost, toPhone>>
        BY <1>1, HostEditEffects
    <2>3. \/ alarms' = alarms /\ gui' = gui /\ timers' = timers
          \/ gui' = "save_publish" \/ timers' = timers + 1
        BY <1>1, HostEditEffects
    <2>4. ~OnItsWay' /\ toPhone' = <<>> /\ Written' = alarms' /\ Written = alarms /\ copy = alarms
        BY <2>1, <2>2, <1>q, <1>v, <1>w
    <2>5. alarms' \in Seq(Alarm)
        BY <1>t
    <2> QED
        BY <2>1, <2>2, <2>3, <2>4, <2>5, <1>q
<1>2. CASE Stop
    BY <1>2, <1>0 DEF Stop, netVars, Written
<1>3. CASE Flush
    <2>1. ~OnItsWay
        BY <1>3 DEF Flush, OneOnItsWay
    <2>2. UNCHANGED <<alarms, copy, net, guiQ, toHost, timers>> /\ gui' = "idle"
        BY <1>3 DEF Flush, netVars
    <2>3. ~OnItsWay' /\ Written' = alarms /\ Written = alarms
        BY <2>1, <2>2, <1>w, <1>v
    <2>4. toPhone' = IF gui = "save_publish" THEN Append(toPhone, alarms) ELSE toPhone
        BY <1>3 DEF Flush
    <2>5. gui = "save_publish" => toPhone' # <<>>
        BY <2>4, <1>a
    <2>6. \A i \in DOMAIN toPhone' : toPhone'[i] = alarms
        BY <2>4, <1>0, <1>a
    <2> QED
        BY <2>1, <2>2, <2>3, <2>4, <2>5, <2>6, <1>0
<1>4. CASE PublishLater
    <2>1. ~OnItsWay
        BY <1>4, <1>0 DEF PublishLater
    <2>2. UNCHANGED <<alarms, copy, net, guiQ, toHost>> /\ toPhone' = Append(toPhone, alarms)
        BY <1>4 DEF PublishLater, netVars
    <2>3. ~OnItsWay' /\ Written' = alarms /\ Written = alarms
        BY <2>1, <2>2, <1>w, <1>v
    <2>4. toPhone' # <<>> /\ \A i \in DOMAIN toPhone' : toPhone'[i] = alarms
        BY <2>2, <1>a
    <2> QED
        BY <2>2, <2>3, <2>4
<1>5. CASE SetAlarms
    <2>1. alarms' = Head(guiQ) /\ guiQ # <<>> /\ guiQ' = <<>> /\ toHost = <<>> /\ net # "save"
        BY <1>5 DEF SetAlarms, OneOnItsWay
    <2>2. UNCHANGED <<copy, net, toHost, toPhone, timers>>
        BY <1>5 DEF SetAlarms
    <2>3. Written = Head(guiQ)
        BY <2>1 DEF Written
    <2>4. Written' = alarms' /\ ~OnItsWay'
        BY <2>1, <2>2, <1>v
    <2>5. toPhone = <<>> /\ Written = copy
        BY <2>1, <1>0
    <2> QED
        BY <2>1, <2>2, <2>3, <2>4, <2>5
<1>6. CASE Receive
    <2>1. toHost # <<>> /\ toHost' = <<>> /\ net' = "save" /\ netMsg' = Head(toHost)
        BY <1>6 DEF Receive, OneOnItsWay
    <2>2. UNCHANGED <<alarms, copy, gui, toPhone, timers>>
        BY <1>6 DEF Receive, hostVars
    <2>3. Written' = Written
        BY <2>1 DEF Written
    <2> QED
        BY <2>1, <2>2, <2>3, <1>0
<1>7. CASE Received
    <2>1. net = "save" /\ guiQ = <<>> /\ toHost = <<>>
        BY <1>7 DEF Received, OneOnItsWay
    <2>2. UNCHANGED <<alarms, copy, gui, toHost, toPhone, timers>> /\ net' = "receive"
        BY <1>7 DEF Received, hostVars
    <2>3. guiQ' # <<>> /\ Head(guiQ') = ReadJsonAlarms(netMsg)
        BY <1>7, <2>1, OnlyOne DEF Received
    <2>4. Written' = Written
        BY <2>1, <2>2, <2>3 DEF Written
    <2> QED
        BY <2>1, <2>2, <2>3, <2>4, <1>0
<1>8. CASE PhoneEdit
    <2>1. Quiet
        BY <1>8 DEF PhoneEdit, Reliable
    <2>2. UNCHANGED <<alarms, gui, net, guiQ, toPhone, timers>>
        BY <1>8 DEF PhoneEdit, hostVars, netVars
    <2>3. toHost' # <<>> /\ Head(toHost') = phone'
        BY <1>8, <2>1, OnlyOne DEF PhoneEdit, Quiet
    <2>4. Written' = copy'
        BY <2>3 DEF Written
    <2>5. copy' \in Seq(Alarm)
        BY <1>t, ReadJsonAlarmsKeeps
    <2> QED
        BY <2>1, <2>2, <2>3, <2>4, <2>5, <1>q, <1>w
<1>9. CASE PhoneReceive
    <2>1. ~OnItsWay
        BY <1>9, <1>0 DEF PhoneReceive
    <2>2. UNCHANGED <<alarms, gui, net, guiQ, toHost, timers>>
        BY <1>9 DEF PhoneReceive, hostVars, netVars
    <2>3. ~OnItsWay' /\ Written' = alarms /\ Written = alarms
        BY <2>1, <2>2, <1>w, <1>v
    <2>4. phone' = alarms /\ \A i \in DOMAIN toPhone' : toPhone'[i] = alarms
        BY <1>9, <1>0, CopiesTaken DEF PhoneReceive
    <2>5. copy' = alarms
        BY <2>4, AlarmsReadBack
    <2> QED
        BY <2>2, <2>3, <2>4, <2>5
<1>10. CASE UNCHANGED vars
    BY <1>10, <1>0 DEF vars, Written
<1> QED
    BY <1>1, <1>2, <1>3, <1>4, <1>5, <1>6, <1>7, <1>8, <1>9, <1>10, <1>l
    DEF Next, Gui, Net

\* The initial state is one of the shared list.
LEMMA InitShared == Init => Shared!Init
<1> SUFFICES ASSUME Init PROVE Shared!Init
    OBVIOUS
<1>1. phone \in Seq(JsonAlarm) /\ alarms = ReadJsonAlarms(phone) /\ Written = alarms
    BY AlarmSyncAssumption DEF Init, Written
<1>2. alarms \in Seq(Alarm)
    BY <1>1, ReadJsonAlarmsKeeps
<1> QED
    BY <1>1, <1>2 DEF Shared!Init, Shared!UpToDate

LEMMA ReliableSteps ==
    Reliable => /\ TypeOK /\ Durable /\ LastWriteSpreads /\ [Next]_vars
                      => (TypeOK /\ Durable /\ LastWriteSpreads)' /\ [Shared!Next]_(Shared!vars)
<1> SUFFICES ASSUME Reliable, TypeOK, Durable, LastWriteSpreads, [Next]_vars
             PROVE  (TypeOK /\ Durable /\ LastWriteSpreads)' /\ [Shared!Next]_(Shared!vars)
    OBVIOUS
<1>1. TypeOK' /\ Durable'
    BY NextType, NextDurable DEF Reliable
<1>2. LastWriteSpreads' /\ [Shared!Next]_(Shared!vars)
    BY StepSpreads DEF Durable
<1> QED
    BY <1>1, <1>2

\* While edits do not overlap, nothing is lost and the power stays on, host and
\* phone hold the same list whenever everything that was started is done.
THEOREM QuietMeansInSync == ASSUME Reliable PROVE Spec => []QuietInSync
<1>1. Init => TypeOK /\ Durable /\ LastWriteSpreads
    BY InitType, InitDurable, InitSpreads
<1>2. TypeOK /\ Durable /\ LastWriteSpreads /\ [Next]_vars => (TypeOK /\ Durable /\ LastWriteSpreads)'
    BY ReliableSteps
<1>3. TypeOK /\ LastWriteSpreads => QuietInSync
    BY QuietUpToDate DEF QuietInSync
<1> QED
    BY <1>1, <1>2, <1>3, PTL DEF Spec

\* Under the same conditions the two threads, the file and the two channels
\* implement SharedList: each list written, on either side, reaches the other
\* before the next is written.  (That it does reach it is left to TLC.)
THEOREM ImplementsSharedList ==
    ASSUME Reliable
    PROVE  Spec => Shared!Init /\ [][Shared!Next]_(Shared!vars)
<1>1. Init => TypeOK /\ Durable /\ LastWriteSpreads /\ Shared!Init
    BY InitType, InitDurable, InitSpreads, InitShared
<1>2. /\ TypeOK /\ Durable /\ LastWriteSpreads /\ [Next]_vars
            => (TypeOK /\ Durable /\ LastWriteSpreads)' /\ [Shared!Next]_(Shared!vars)
    BY ReliableSteps
<1> QED
    BY <1>1, <1>2, PTL DEF Spec
=============================================================================
