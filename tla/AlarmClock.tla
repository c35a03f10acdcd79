----------------------------- MODULE AlarmClock -----------------------------
(***************************************************************************)
(* When an alarm rings: the clock (Clock.qml, GlobalTime.qml), the choice   *)
(* of the first alarm (find_first_alarm in mqttclient.cpp) and the two QML  *)
(* bindings of Alarms.qml that connect them:                                *)
(*                                                                         *)
(*   time_of_first_alarm = find_first_alarm(day, GlobalTime)                *)
(*   diff                = getTimeDiff(GlobalTime, time_of_first_alarm)     *)
(*                                                                         *)
(* getTimeDiff is what rings: called with an alarm one second away it shows *)
(* the ringing screen and calls alarm_start.  The first binding depends on  *)
(* the clock only, so time_of_first_alarm does not follow the list between  *)
(* two ticks.  The second depends on the clock and on the first, and on     *)
(* mqttclient.alarms once an evaluation has rung (only then is the property *)
(* read).  Bindings waiting to be evaluated are in pending; Qt does not say *)
(* in which order a change notifies them.  All of it is the GUI thread:     *)
(* the clock and the list change only when no binding is pending.           *)
(*                                                                         *)
(* The saving and publishing that the operations on the list also do are in *)
(* AlarmSync; the ringing screen is AlarmScreen.                            *)
(***************************************************************************)
EXTENDS AlarmList

CONSTANTS NumDays,       \* days in a week: 7
          HourMinutes,   \* minutes in an hour: 60
          MinuteSecs,    \* seconds in a minute: 60
          Lists,         \* alarm lists at the start, and lists the phone sends
          Edits,         \* the edits the user makes
          ServerTimes,   \* the moments the time server may report
          MaxEdits       \* bound on the operations on the list

\* Only a phantom has no time, and nobody has set its days.
OnlyPhantomsLackTime(list) ==
    \A i \in DOMAIN list : list[i].time = NullTime => list[i].id = 0 /\ list[i].repeatDays = {}

DaySecs == DayMinutes * MinuteSecs
Moments == 0 .. NumDays * DaySecs - 1

ASSUME AlarmClockAssumption ==
       /\ NumDays \in Nat \ {0} /\ HourMinutes \in Nat \ {0} /\ MinuteSecs \in Nat \ {0, 1}
       /\ WeekDays = 0 .. NumDays - 1
       /\ Lists \subseteq Seq(Alarm)
       /\ \A list \in Lists : Distinct(list) /\ OnlyPhantomsLackTime(list)
       /\ Edits \subseteq Edit
       /\ ServerTimes \subseteq Moments
       /\ MaxEdits \in Nat

VARIABLES alarms,    \* m_alarms
          now,       \* GlobalTime.currentDateTime, in seconds of the week
          millis,    \* whether its milliseconds are not zero
          first,     \* time_of_first_alarm
          pending,   \* evaluations to come: of "first", of "diff" because of
                     \* the clock, and of diff "again"
          armed,     \* whether diff depends on mqttclient.alarms
          edits,     \* how many operations on the list there were
          \* history, read by the properties only:
          before,    \* m_alarms when the clock last changed
          read,      \* the list that first was found in
          due,       \* ids of the alarms that may ring until the clock changes again
          rung,      \* ids of those that have rung since
          spent      \* one-shot alarms that have rung and were not edited since

clockVars == <<now, millis, before, due>>
vars == <<alarms, now, millis, first, pending, armed, edits, before, read, due, rung, spent>>

Day(t) == t \div DaySecs
Sec(t) == t % DaySecs

-----------------------------------------------------------------------------
(* find_first_alarm *)

\* hour()*60 + minute(): both are -1 for an invalid QTime.
Minutes(a) == IF a.time = NullTime THEN -HourMinutes - 1 ELSE a.time
Week == NumDays * DayMinutes

\* Mutant: the hours until the next day of this week are not added.
RepeatsSameHour(a, day, sec, ms) ==
    IF \E d \in a.repeatDays : d >= day THEN {Minutes(a)} ELSE {Minutes(a) + Week}

\* The number of minutes, from the start of the day, at which a repeating alarm
\* is taken to ring: today, in a week, on the next selected day of this week
\* (the search starts with today) and on the first selected day of the next.
Repeats(a, day, sec, ms) ==
    LET at        == a.time * MinuteSecs
        onOrAfter == {d \in a.repeatDays : d >= day}
        toRight   == IF onOrAfter = {} THEN day ELSE Min(onOrAfter)
        toLeft    == Min(a.repeatDays)
    IN  (IF day \in a.repeatDays /\ at > sec THEN {Minutes(a)} ELSE {})
        \cup (IF day \in a.repeatDays /\ (at < sec \/ (at = sec /\ ms))
              THEN {Minutes(a) + Week} ELSE {})
        \cup (IF toRight > day THEN {Minutes(a) + (toRight - day) * DayMinutes} ELSE {})
        \cup (IF toLeft < day THEN {Minutes(a) + Week - (day - toLeft) * DayMinutes} ELSE {})

\* An alarm that does not repeat is taken at its time whether or not that has
\* passed today.
Candidates(a, day, sec, ms) ==
    IF ~a.isEnabled THEN {}
    ELSE IF a.repeatDays = {} THEN {Minutes(a)}
    ELSE Repeats(a, day, sec, ms)

NoFirst == [minutes |-> 0, id |-> -1]   \* the empty string

\* The smallest candidate, and the first alarm of the list that has it.
FindFirst(alarmList, t, ms) ==
    LET of(i) == Candidates(alarmList[i], Day(t), Sec(t), ms)
        all   == UNION {of(i) : i \in DOMAIN alarmList}
    IN  IF all = {} THEN NoFirst
        ELSE [minutes |-> Min(all),
              id      |-> alarmList[Min({i \in DOMAIN alarmList : Min(all) \in of(i)})].id]

-----------------------------------------------------------------------------
(* getTimeDiff *)

\* Seconds to the first alarm.
Difference(f, sec) ==
    LET at == f.minutes * MinuteSecs
    IN  IF at > sec THEN at - sec ELSE DaySecs - (sec - at)

\* Mutant: getTimeDiff waits for the second itself.
FiresLate(f, t) == f # NoFirst /\ Difference(f, Sec(t)) < 1

\* The alarm is at most a second away.
Fires(f, t) == f # NoFirst /\ Difference(f, Sec(t)) <= 1

\* What the properties call due: the alarm is on and its minute begins at t.
StartsAt(a, t) == a.isEnabled /\ a.time * MinuteSecs = Sec(t)
IsDue(a, t) == StartsAt(a, t) /\ (a.repeatDays = {} \/ Day(t) \in a.repeatDays)

\* Mutant: the week has no end.
FollowingForever(t) == t + 1

\* The clock one second later.
Following(t) == (t + 1) % (NumDays * DaySecs)
DueIds(alarmList, t)   == {a.id : a \in {b \in ToSet(alarmList) : IsDue(b, Following(t))}}
StartIds(alarmList, t) == {a.id : a \in {b \in ToSet(alarmList) : StartsAt(b, Following(t))}}

Init == /\ alarms \in Lists
        /\ now \in Moments /\ millis \in BOOLEAN
        /\ first = NoFirst
        /\ pending = {"first", "diff"}
        /\ armed = FALSE /\ edits = 0
        /\ before = alarms /\ read = alarms /\ due = DueIds(alarms, now) /\ rung = {} /\ spent = {}

-----------------------------------------------------------------------------
\* The clock shows another time: both bindings are notified.
SetClock(t) == /\ pending = {}
               /\ now' = t
               /\ pending' = {"first", "diff"}
               /\ before' = alarms /\ rung' = {}
               /\ UNCHANGED <<alarms, first, armed, edits, read, spent>>

\* Clock.qml's timer, once a second.
Tick == /\ SetClock(Following(now))
        /\ due' = DueIds(read, now') \cup DueIds(alarms, now')
        /\ UNCHANGED millis

\* onUnixtimeChanged: the clock is set from the weather service's answer.
Synchronise == \E t \in ServerTimes :
                  /\ SetClock(t)
                  /\ due' = StartIds(read, t) \cup StartIds(alarms, t)
                  /\ millis' = FALSE

\* time_of_first_alarm; a new value notifies diff.
EvalFirst == /\ "first" \in pending
             /\ first' = FindFirst(alarms, now, millis) /\ read' = alarms
             /\ \/ pending' = (pending \ {"first"}) \cup {"again"}
                \/ first' = first /\ pending' = pending \ {"first"}
             /\ UNCHANGED <<alarms, clockVars, armed, edits, rung, spent>>

\* diff.  One second before the first alarm the ringing screen is shown and
\* alarm_start is called, unless the alarm is no longer in the list: show then
\* throws.  alarm_start's own alarmschanged does not evaluate the binding again.
EvalDiff ==
    /\ \E why \in pending \cap {"diff", "again"} : pending' = pending \ {why}
    /\ armed' = Fires(first, now)
    /\ IF armed' /\ first.id \in Ids(alarms)
       THEN /\ alarms' = StartAlarm(alarms, first.id)
            /\ rung' = rung \cup {first.id}
            /\ spent' = IF alarms[IndexOf(alarms, first.id)].repeatDays = {}
                        THEN spent \cup {first.id} ELSE spent
       ELSE UNCHANGED <<alarms, rung, spent>>
    /\ UNCHANGED <<clockVars, first, edits, read>>

\* An operation on the list of alarms, among them those with the given ids.
Edited(ids) == /\ pending = {} /\ edits < MaxEdits
               /\ edits' = edits + 1
               /\ pending' = IF armed THEN {"again"} ELSE {}
               /\ spent' = spent \ ids
               /\ UNCHANGED <<clockVars, first, armed, read, rung>>

Create == /\ NextId(alarms) <= MaxId
          /\ \E edit \in Edits : alarms' = CreateAlarm(alarms, edit)
          /\ Edited({NextId(alarms)})

Change == \E id \in Ids(alarms), edit \in Edits :
             alarms' = ChangeAlarm(alarms, id, edit) /\ Edited({id})

Delete == \E id \in Ids(alarms) : alarms' = DeleteAlarm(alarms, id) /\ Edited({id})

Toggle == \E i \in DOMAIN alarms, checked \in BOOLEAN :
             /\ checked # alarms[i].isEnabled
             /\ alarms' = UpdateStatus(alarms, alarms[i].id, checked)
             /\ Edited({alarms[i].id})

\* A list from the phone.  (setAlarms first announces an empty list: an armed
\* diff is evaluated then, too, and finds no alarm to show.)
SetAlarms == \E new \in Lists : alarms' = new /\ Edited(0 .. MaxId)

Evaluate == EvalFirst \/ EvalDiff
Next == Tick \/ Synchronise \/ Evaluate \/ Create \/ Change \/ Delete \/ Toggle \/ SetAlarms

Spec == Init /\ [][Next]_vars

\* The event loop evaluates what is pending, and the clock's timer keeps firing.
FairSpec == Spec /\ WF_vars(Evaluate) /\ WF_vars(Tick)

-----------------------------------------------------------------------------
\* Types; the bindings are never evaluated for an alarm the week cannot hold.
TypeOK == /\ alarms \in Seq(Alarm) /\ before \in Seq(Alarm) /\ read \in Seq(Alarm)
          /\ now \in Moments /\ millis \in BOOLEAN
          /\ first \in [minutes : -HourMinutes - 1 .. 2 * Week, id : -1 .. MaxId]
          /\ pending \subseteq {"first", "diff", "again"}
          /\ armed \in BOOLEAN /\ edits \in 0 .. MaxEdits
          /\ due \subseteq 0 .. MaxId /\ rung \subseteq 0 .. MaxId /\ spent \subseteq 0 .. MaxId

\* Where on the list the alarms were that were due when the clock last changed.
DueNow == {i \in DOMAIN before : IsDue(before[i], Following(now))}

\* README.md:19, "Flexible alarm clock control and playback": an alarm that is on
\* rings when its time comes.
EveryDueAlarmRings == pending = {} => \A i \in DueNow : before[i].id \in rung

\* An alarm of the list that keeps a from being the first.
Hides(b, a) == b.isEnabled /\ b.repeatDays = {} /\ b.time < a.time

\* An alarm of the same time that comes first in the list rings instead.
RangInstead(i) == \E j \in 1 .. i - 1 : before[j].time = before[i].time /\ before[j].id \in rung

\* It does, with three exceptions: at 00:00, when an alarm that does not repeat is on
\* with an earlier time of day, and when an alarm of the same time before it in the
\* list has rung (find_first_alarm finds only the first of equal ones).
DueAlarmRings ==
    pending = {} =>
        \A i \in DueNow :
            \/ before[i].time = 0
            \/ \E b \in ToSet(before) : Hides(b, before[i])
            \/ RangInstead(i)
            \/ before[i].id \in rung

\* Nothing rings but at its time: on a day it is set for (after the clock was set
\* the day may be another), and not if it was switched off, deleted or moved more
\* than a second ago.  A phantom (id 0) has no time.
RingsOnlyWhenDue == rung \ {0} \subseteq due

\* An alarm that does not repeat rings once: having rung it stays off, or gone,
\* until it is edited or the phone sends a list, however the clock is set.  (A list
\* can hold two phantoms; the loops find the first.)
OneShotStaysOff == \A a \in ToSet(alarms) : a.id \in spent \ {0} => ~a.isEnabled

\* An alarm that repeats, not at 00:00 and not hidden by another, rings week after
\* week once nothing is edited any more: no ringing, its own or another's, stops it.
Regular(id) ==
    /\ id \in Ids(alarms)
    /\ LET a == alarms[IndexOf(alarms, id)]
       IN  /\ a.isEnabled /\ a.repeatDays # {} /\ ~a.delete_after /\ a.time \notin {0, NullTime}
           /\ \A b \in ToSet(alarms) : b = a \/ (b.time # a.time /\ (b.isEnabled => b.repeatDays # {}))

LeftAlone(id) == edits = MaxEdits /\ Regular(id)

KeepsRinging ==
    <>[][~Synchronise]_vars
       => \A id \in 1 .. MaxId : <>LeftAlone(id) => []<>(id \in rung)
=============================================================================
