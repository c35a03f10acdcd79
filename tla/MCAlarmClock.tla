---------------------------- MODULE MCAlarmClock ----------------------------
(***************************************************************************)
(* Small instances of AlarmClock: a week of three days, a day of           *)
(* three minutes and a minute of two seconds.                               *)
(***************************************************************************)
EXTENDS AlarmClock

A(id, time, enabled, days, once) ==
    [id |-> id, time |-> time, isEnabled |-> enabled, delete_after |-> once,
     repeatDays |-> days, song |-> ""]

\* Alarms that repeat, at different times; alarms that do not, one of them
\* temporary, two at the same time; and one that lost its time in a change after a
\* deletion.
MCLists == {<<A(1, 1, TRUE, {0, 2}, FALSE), A(2, 2, TRUE, {1, 2}, FALSE)>>,
            <<A(3, 0, TRUE, {}, FALSE), A(1, 1, TRUE, {1}, TRUE), A(2, 1, TRUE, {}, FALSE)>>,
            <<A(0, NullTime, TRUE, {}, FALSE), A(1, 2, FALSE, {}, FALSE)>>}

\* Every day at 00:00.
MCMidnight == {<<A(1, 0, TRUE, WeekDays, FALSE)>>}

\* An alarm for tomorrow morning and one for later today.
MCEarlier == {<<A(1, 1, TRUE, {}, FALSE), A(2, 2, TRUE, {}, FALSE)>>}

\* Two alarms for the same minute.
MCEqual == {<<A(1, 1, TRUE, {0, 1}, FALSE), A(2, 1, TRUE, WeekDays, FALSE)>>}

\* Any of them.
MCMissed == MCMidnight \cup MCEarlier \cup MCEqual

\* What a snooze creates, and an alarm for the first day of each week.
MCEdits == {[time |-> 1, song |-> "", delete_after |-> TRUE, repeatDays |-> {}],
            [time |-> 2, song |-> "", delete_after |-> FALSE, repeatDays |-> {0}]}

\* On the first and the last day the server sets the clock to the second before an
\* alarm's minute, into that minute, or to the last second.
MCServerTimes == {t \in Moments : Day(t) # 1 /\ Sec(t) \in {1, 2, 5}}
MCNoServer == {}
=============================================================================
