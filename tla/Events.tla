------------------------------- MODULE Events -------------------------------
(***************************************************************************)
(* The calendar's events in src/mqttclient.cpp: lists from the phone, the   *)
(* removal of past events, the events of a day, and the alarms made of      *)
(* coming events at the start and every evening.  events.json is written by *)
(* the MQTT thread when a list comes and by the GUI thread every five       *)
(* minutes, each time truncated and then written, without a lock; the power *)
(* may fail at any moment.                                                  *)
(*                                                                         *)
(* An event has an id, begins and ends at a minute, and has details (its    *)
(* calendar, its description, whether it takes all day).  A reminder is an  *)
(* alarm made of an event, at a minute of the day.  When it rings it is     *)
(* deleted; but it may be hidden by another alarm, share its minute with    *)
(* one, be switched off or be passed over by the clock (AlarmClock), and    *)
(* then it stays.  alarms.json keeps the reminders (AlarmSync).             *)
(***************************************************************************)
EXTENDS Integers, Sequences, SequencesExt, Selection

CONSTANTS DayLength,     \* minutes of a day
          LastMinute,    \* bound on the time
          Calendars,     \* lists the phone may send
          ReminderTime,  \* time_event, a minute of the day
          ReminderDays,  \* event_remind
          MaxLists,      \* bound on lists from the phone
          MaxJolts       \* bound on restarts and on settings of the clock

\* An event as read_json_events reads it, times in minutes.
CalendarEvent == [id : Int, start : Int, stop : Int, details : BOOLEAN]

ASSUME EventsAssumption ==
       /\ Calendars \subseteq Seq(CalendarEvent)
       /\ DayLength \in Nat \ {0}
       /\ ReminderTime \in 0 .. DayLength - 1
       /\ {LastMinute, ReminderDays, MaxLists, MaxJolts} \subseteq Nat

VARIABLES
    now,          \* GlobalTime.currentDateTime, in minutes
    events,       \* m_events
    eventsFile,   \* events.json
    guiSaves,     \* the GUI thread is between truncation and writing
    netStep,      \* the MQTT thread: "receive", "save" (the file truncated), "queue"
    netEvents,    \* the list that it saves
    eventQueue,   \* queued calls of setEvents
    reminders,    \* the alarms made of events, in the order of the list
    lists, starts, clockSets,
    setbacks,     \* history: how often it was set back
    crossed       \* history: the two threads' saves of the last list overlapped, or the
                  \* list in memory was saved over one that was not yet set

fileVars == <<eventsFile, guiSaves>>
netEventVars == <<netStep, netEvents>>
eventVars == <<now, events, fileVars, netEventVars, eventQueue, reminders, lists, starts,
               clockSets, setbacks, crossed>>
clockVars == <<clockSets, setbacks>>

-----------------------------------------------------------------------------
\* events_to_json names the details otherwise than read_json_events: they are lost
\* in a file that was written from memory.
EventsToJson(list) == [i \in DOMAIN list |-> [list[i] EXCEPT !.details = FALSE]]

\* The loop of delete_past_events.
KeepComing(list, t) == At(list, {i \in DOMAIN list : t <= list[i].stop})

\* Mutant: the window is a day longer.
ComingFarther(list, t) ==
    At(list, {i \in DOMAIN list : /\ t <= list[i].start
                                   /\ list[i].start <= t + (ReminderDays + 1) * DayLength})

\* The window of from_events_to_alarms.
Coming(list, t) ==
    At(list, {i \in DOMAIN list : /\ t <= list[i].start
                                   /\ list[i].start <= t + ReminderDays * DayLength})

\* from_events_to_alarms: the alarms follow one another by a minute.
FromEventsToAlarms(list, t) ==
    LET coming == Coming(list, t)
    IN  [i \in DOMAIN coming |-> [event |-> coming[i].id, start |-> coming[i].start,
                                  minute |-> (ReminderTime + i - 1) % DayLength]]

\* Mutant: the search ends before the end of the day is looked at.
EventsOnDayShort(list, day) ==
    LET last == day + DayLength
    IN  At(list, {i \in DOMAIN list : /\ day <= list[i].start /\ list[i].start <= last
                                      /\ \A j \in 1 .. i : list[j].start < last})

\* get_events_onDay: up to the first event that begins after the day; the day's
\* end belongs to it.
EventsOnDay(list, day) ==
    LET last == day + DayLength
    IN  At(list, {i \in DOMAIN list : /\ day <= list[i].start
                                      /\ \A j \in 1 .. i : list[j].start <= last})

\* check_eventOnDay
CheckEventOnDay(list, day) ==
    \E i \in DOMAIN list : day <= list[i].start /\ list[i].start <= day + DayLength

-----------------------------------------------------------------------------
\* events.json as a reader finds it: a list, nothing, or bytes of two writers, which
\* do not parse.
HoldsEvents(list) == [state |-> "ok", list |-> list]
NoEvents          == [state |-> "truncated", list |-> <<>>]
TornEvents        == [state |-> "torn", list |-> <<>>]

\* What save_data leaves when it writes: the list, and where the other thread has written
\* since the truncation perhaps a mixture.
SavedEvents(list) == {HoldsEvents(list)} \cup (IF eventsFile = NoEvents THEN {} ELSE {TornEvents})

Jolt == starts - 1 + clockSets < MaxJolts

\* Nobody else has a list that is not in memory.
Alone == netStep = "receive" /\ eventQueue = <<>>

\* delete_past_events, to the truncation by save_data.
DeletePastEvents(list) ==
    /\ events' = KeepComing(list, now')
    /\ guiSaves' = TRUE
    /\ eventsFile' = NoEvents

\* Component.onCompleted of Clock.qml: alarms of the events read, then the removal
\* of past ones.
EventsInit ==
    /\ now \in 0 .. DayLength - 1
    /\ \E list \in Calendars :
          /\ events = KeepComing(list, now)
          /\ reminders = FromEventsToAlarms(list, now)
    /\ guiSaves = TRUE
    /\ eventsFile = NoEvents
    /\ netStep = "receive" /\ netEvents = <<>>
    /\ eventQueue = <<>>
    /\ lists = 0
    /\ starts = 1
    /\ clockSets = 0
    /\ setbacks = 0
    /\ crossed = FALSE

\* The power fails; what is in the file is read, nothing if it does not parse.
EventsRestart ==
    /\ Jolt
    /\ starts' = starts + 1
    /\ now' = now
    /\ DeletePastEvents(eventsFile.list)
    /\ reminders' = reminders \o FromEventsToAlarms(eventsFile.list, now)
    /\ netStep' = "receive" /\ netEvents' = <<>>
    /\ eventQueue' = <<>>
    /\ crossed' = FALSE
    /\ UNCHANGED <<lists, clockVars>>

\* Mutant: the list is saved when it is set, from memory.
ReceiveEventsUnsaved(list) ==
    /\ netStep = "receive"
    /\ lists < MaxLists
    /\ lists' = lists + 1
    /\ netStep' = "queue"
    /\ netEvents' = list
    /\ crossed' = guiSaves
    /\ UNCHANGED <<now, events, fileVars, eventQueue, reminders, starts, clockVars>>

\* The events branch of the receive loop, to the truncation by save_data.
ReceiveEvents(list) ==
    /\ netStep = "receive"
    /\ lists < MaxLists
    /\ lists' = lists + 1
    /\ netStep' = "save"
    /\ netEvents' = list
    /\ eventsFile' = NoEvents
    /\ crossed' = guiSaves
    /\ UNCHANGED <<now, events, guiSaves, eventQueue, reminders, starts, clockVars>>

\* The list is written as it came,
WriteReceived ==
    /\ netStep = "save"
    /\ eventsFile' \in SavedEvents(netEvents)
    /\ netStep' = "queue"
    /\ UNCHANGED <<now, events, guiSaves, netEvents, eventQueue, reminders, lists, starts,
                   clockVars, crossed>>

\* and then the call is queued.
QueueReceived ==
    /\ netStep = "queue"
    /\ eventQueue' = Append(eventQueue, netEvents)
    /\ netStep' = "receive" /\ netEvents' = <<>>
    /\ UNCHANGED <<now, events, fileVars, reminders, lists, starts, clockVars, crossed>>

\* setEvents
SetEvents ==
    /\ ~ guiSaves
    /\ eventQueue # <<>>
    /\ events' = Head(eventQueue)
    /\ eventQueue' = Tail(eventQueue)
    /\ UNCHANGED <<now, fileVars, netEventVars, reminders, lists, starts, clockVars, crossed>>

\* One of the alarms of a minute may ring and is deleted then; the others stay, and all
\* may.
Rung(list, t) ==
    {list} \cup {RemoveAt(list, i) : i \in {k \in DOMAIN list : list[k].minute = t % DayLength}}

\* A minute passes: an alarm may ring, past events are removed (in the code every
\* fifth minute), and in the last minute of a day alarms are made of the coming ones.
MinutePasses ==
    /\ ~ guiSaves
    /\ now < LastMinute
    /\ now' = now + 1
    /\ DeletePastEvents(events)
    /\ \E rest \in Rung(reminders, now') :
          reminders' = rest \o (IF now' % DayLength = DayLength - 1
                                THEN FromEventsToAlarms(events', now') ELSE <<>>)
    /\ crossed' = ~ Alone
    /\ UNCHANGED <<netEventVars, eventQueue, lists, starts, clockVars>>

\* The rest of save_data in the GUI thread.
WriteEvents ==
    /\ guiSaves
    /\ guiSaves' = FALSE
    /\ eventsFile' \in SavedEvents(EventsToJson(events))
    /\ UNCHANGED <<now, events, netEventVars, eventQueue, reminders, lists, starts, clockVars,
                   crossed>>

\* onUnixtimeChanged: the time service sets the clock.
ClockIsSet(t) ==
    /\ ~ guiSaves
    /\ t # now
    /\ now' = t
    /\ Jolt
    /\ clockSets' = clockSets + 1
    /\ setbacks' = IF t < now THEN setbacks + 1 ELSE setbacks
    /\ UNCHANGED <<events, fileVars, netEventVars, eventQueue, reminders, lists, starts, crossed>>

EventsNext ==
    \/ \E list \in Calendars : ReceiveEvents(list)
    \/ WriteReceived \/ QueueReceived
    \/ SetEvents
    \/ MinutePasses \/ WriteEvents
    \/ \E t \in 0 .. LastMinute : ClockIsSet(t)
    \/ EventsRestart

EventsSpec == EventsInit /\ [][EventsNext]_eventVars

-----------------------------------------------------------------------------
EventIds(list) == [i \in DOMAIN list |-> list[i].id]
StartsInOrder(list) == \A i, j \in DOMAIN list : i < j => list[i].start <= list[j].start

\* While no thread saves, the file holds the events that memory holds or will hold when
\* the queued lists are set.  That fails only where the two threads' saves overlapped, or
\* where a removal of past events saved the old list over one that was on its way to
\* memory; and then until the next save that meets nothing.
EventsAreSaved ==
    netStep = "receive" /\ ~ guiSaves /\ ~ crossed =>
       EventIds(eventsFile.list) = EventIds(IF eventQueue = <<>> THEN events ELSE Last(eventQueue))

\* A list in order of time shows on each day all of its events, and a day is marked
\* in the calendar exactly when it shows one; the search may stop early only
\* because the list is in order.
DaysShowTheirEvents ==
    StartsInOrder(events) =>
       \A d \in 0 .. LastMinute :
          /\ ToSet(EventsOnDay(events, d))
                = {e \in ToSet(events) : d <= e.start /\ e.start <= d + DayLength}
          /\ CheckEventOnDay(events, d) <=> EventsOnDay(events, d) # <<>>

\* However many reminders stay, those of an event with the same beginning are no more
\* than one for each start of the program and one for each of the ReminderDays evenings
\* before it, or that evening itself; what an evening adds may come again each time the
\* clock is set back.
RemindersBounded ==
    \A r \in ToSet(reminders) :
       Cardinality({i \in DOMAIN reminders :
                       reminders[i].event = r.event /\ reminders[i].start = r.start})
          <= starts + ReminderDays + (ReminderDays + 1) * setbacks
=============================================================================
