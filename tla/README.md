# Verification of smart-alarm-host

smart-alarm-host is the program of an alarm clock with a touch screen: a Qt/QML user
interface in C++, synchronised over MQTT with a phone application. This directory holds TLA+
specifications of its core, the TLC configurations that check them on small instances, and
theorems about them proved with TLAPS. Paths without a directory are under `src/src/` (C++)
or `src/qml/` (QML); line numbers are those of the revision beside which
this project is kept.

- [1. The system](#1-the-system)
- [2. Modules](#2-modules)
- [3. Runs](#3-runs)
- [4. Disagreements found](#4-disagreements-found)
- [5. Proofs](#5-proofs)
- [6. Assumptions and abstractions](#6-assumptions-and-abstractions)
- [7. Plan](#7-plan)

## 1. The system

Two threads matter. The **GUI thread** runs the QML engine, its timers and bindings, and
every C++ handler QML calls. The **MQTT thread** runs the event loop of Boost.MQTT5 and, on
it, one coroutine, `subscribe_and_receive` (`mqttclient.cpp`). The coroutine talks to the GUI
thread by queued calls only (`QMetaObject::invokeMethod(..., Qt::QueuedConnection)`), but both
threads write the same files, without a lock.

| Part | State it keeps | Operations | Interacts with |
|---|---|---|---|
| Alarm list (`mqttclient.cpp`) | `m_alarms` in order of time; `alarms.json` | create, change, delete, switch on or off, `alarm_start` (an alarm rings), `setAlarms` (a list from the phone), loading at start | QML list view and dialogs; MQTT thread; phone |
| Alarm clock (`find_first_alarm`, `Alarms.qml`, `Clock.qml`, `GlobalTime.qml`) | the shown time, `time_of_first_alarm`, two QML bindings | tick, synchronisation with the time service, evaluation of the bindings | reads the alarm list; starts the ringing screen; calls `alarm_start` |
| Ringing screen and sound (`AlarmScreen.qml`, `AlarmSettings_Popup.qml`, `Sound_Page.qml`, `main.qml`, `audioplayer.cpp`) | SDL_mixer's music and volume, the player's flags, the timer of the rising volume, the open screen, dialog, page | ring, snooze, stop, preview, pause, choose a song, set the volume, change pages | one `AudioPlayer` shared by all of them |
| MQTT session (`subscribe_and_receive`) | the coroutine's place, `connectionStatus` | subscribe, receive, subscribe again when the session expired | Boost.MQTT5; GUI thread (`setConnectionStatus`, `setAlarms`, `setEvents`) |
| Boost.MQTT5: connection (`reconnect_op`, `connect_op`, `async_mutex`, `ping_op`, `sentry_op`, `disconnect_op`) | stream, lock and its queue, list of brokers, timers | connect, authenticate, find the connection lost, pause, ping, disconnect, cancel | network; delivery |
| Boost.MQTT5: delivery (`async_sender`, `replies`, `publish_send_op`, `subscribe_op`, `publish_rec_op`) | write queue, awaited and early replies, packet identifiers, quota, session state | publish with QoS 0, 1, 2, subscribe, unsubscribe, acknowledge, send again, cancel | broker; the coroutine |
| Boost.MQTT5: packets (`assemble_op`, `codecs/`, `control_packet.hpp`) | read buffer, free identifiers | cut the stream into packets, encode, decode, allocate | delivery |
| Calendar events (`mqttclient.cpp`, calendar pages) | `m_events`, `events.json` | list from the phone, events of a day, removal of past ones, an alarm for each coming event | alarm list; evening timer of `Clock.qml` |
| User settings (`user.cpp`, `general_func.cpp`) | `userdata.json`, read and rewritten for each setting | one setter for each setting | almost everything |
| Weather and time (`weather.cpp`) | city, coordinates, last answers | three chained HTTP requests, repeated on errors | sets the clock |
| Spotify (`spotify.cpp`) | tokens, playlists, tracks, playing state | token renewal on a timer, lists, play, pause | account data that comes over MQTT |
| Sensors, Wi-Fi, songs, pictures (`sensors.cpp`, `linuxterminal.cpp`) | the last result | external processes, directory listings | sensor data is published over MQTT |
| Phone and broker | their copies of the lists; sessions | outside this repository | topics `mqtt/alarms`, `mqtt/events`, `mqtt/spotify`, ... |

What is hard in it:

- *Two writers, one file.* A list from the phone is saved by the MQTT thread while the GUI
  thread may save its own. `save_data` truncates, writes and closes; a power failure or the
  other thread may come between.
- *Two lists that cross.* Both sides send whole lists, with QoS 0, and take whatever arrives.
- *A queued list.* Between the save of a received list and `setAlarms` the GUI thread works
  on the old one; a dialog or the ringing screen keeps ids and times of a list since replaced.
- *Bindings as control flow.* What rings is decided while a QML binding is evaluated, which
  changes the list that the binding may depend on; the order of two notifications is Qt's.
- *A clock that jumps,* because it is set from an HTTP answer.
- *Weeks.* The search for the next alarm wraps at the end of the day and of the week.
- *One player for three users* and an alarm that rings whatever the user is doing.
- *Sessions.* The broker may keep the subscriptions over a reconnection or forget them; the
  coroutine learns of it through the channel of received messages.
- *Answers out of order.* Weather, tokens, tracks and the playing state are asked for by
  requests that overlap; the code acts on each answer as if it were the last.
- *Exchanges over lost connections.* A packet may have been written, read, answered, or the
  answer read but not yet awaited when the connection goes; the reader, the writer and the
  keep-alive find out each for itself, while the program may cancel.

For each part, what makes it correct: **alarm list** — no two alarms share an id, the list
stays in order, an edit touches one alarm, the file holds the list, phone and host agree and
do not answer each other for ever; **clock** — an alarm rings when it is due and only then,
once if it does not repeat, for ever if it does; **screen** — the alarm is heard, nothing
else is, the volume rises and is restored; **session** — the host never waits for messages
nobody will send, and shows so; **events** — a day shows its events, reminders do not pile up,
the file holds the list; **settings** — a restart loses none; **weather, Spotify** — the last
choice wins over late answers, the account is not lost; **delivery** — what is reported as
delivered was, once and in order, and every request ends; **connection** — one connects at a
time, a cancelled client stays cancelled and its run ends; **packets** — what is written is
read back, however the bytes come. `PROJECT.json` lists under `hazards` each place in the code
where one of these can go wrong, with the properties that watch it.

## 2. Modules

| Module | Models | Proofs in |
|---|---|---|
| `AlarmList` | the alarm list's operations as operators on sequences; used by the next two | `AlarmListProofs` |
| `AlarmSync` | list, file, both threads, both channels, phone, power failure | `AlarmSyncProofs` |
| `SharedList` | abstract: one list with a copy on each side; implemented by `AlarmSync` | `AlarmSyncProofs` |
| `AlarmClock` | clock, `find_first_alarm`, the bindings, `alarm_start` | `AlarmClockProofs` |
| `AudioPlayer` | `audioplayer.cpp` as operators on a record | |
| `AlarmScreen` | everything that uses the player | `HostServicesProofs` |
| `Events` | the calendar's events, their file, the alarms made of them | `HostServicesProofs` |
| `UserData` | the settings, `userdata.json` and its two readers | `HostServicesProofs` |
| `Weather` | the three kinds of requests of `weather.cpp` | `HostServicesProofs` |
| `SpotifyAccount` | tokens, their renewal, a change of the account, playlists | `HostServicesProofs` |
| `SpotifyPlayer` | play, pause and the tracks of a playlist | `HostServicesProofs` |
| `Terminal` | scans for networks, the output of the sensors' script | `HostServicesProofs` |
| `Selection` | the loops that keep some members of a list; used by `Events`, `Terminal`, `Delivery` | `SequenceLemmas` |
| `MqttSession` | coroutine, the library's session state, broker | `Mqtt5Proofs` |
| `Delivery` | the library's exchanges in both directions, and a broker | `DeliveryProofs`, `PromiseProofs` |
| `Connection` | the library's connection, from the list of brokers to its end | `Mqtt5Proofs` |
| `Framing` | packets cut from the bytes that come | `Mqtt5Proofs` |
| `Codecs`, `Varint` | every encoder and decoder | |
| `PacketIds` | the allocator of packet identifiers; implements `IdPool` | `Mqtt5Proofs` |
| `IdPool` | abstract: a set of free identifiers, of which the least is given out | |
| `Topics` | the checks of topic names and filters | `Mqtt5Proofs` |
| `MCFiles` | what is kept in files, side by side: `AlarmSync`, `Events`, `UserData`, `SpotifyAccount` | |
| `MCHostServices` | the rest of the host but the clock and the session, side by side | |
| `MCMqtt5` | the parts of the library, which share no state, side by side | |
| `SequenceLemmas` | lemmas on `InsertAt`, `RemoveAt`, `ToSet`, `FlattenSeq` and the like, cited by all proofs; and on `FoldLeft` with any operation, instantiated for each loop of `Delivery` | itself |
| other `MC...` | values for the constants of each | |

`PROJECT.json`'s `map` gives the source lines of every definition. The variables carry the
names of the code where there is one.

**AlarmList.** An alarm is a record of the fields the code decides on. `time` is the minute
of the day, `repeatDays` the set of selected days; `NullTime` is the invalid `QTime` of an
alarm without a time. Such alarms exist: `change_alarm` for an id that is not in the list
inserts an empty map (`Phantom`). `ReadJsonAlarms` is the reading of a payload or of the
file, with the defaults for missing keys: writing and reading a list is therefore not the
identity. Lookups by id take the first occurrence, as the loops do.

**AlarmSync.** A handler that saves is two steps, because another thread, the network or a
power failure may come in between: one up to the truncation of the file, and one (`Flush`,
`Received`) with its write, close, and the publication that follows. Between them the thread
does nothing else. `Flushed` gives what the file may hold afterwards: if another writer has
touched the file since it was truncated, the list or bytes that do not parse. Setting a list
rebuilds the list view, and each switch that is on then runs its `onCheckedChanged` handler,
which saves and publishes: `SetAlarms`, `Ring` and the start of the program include that.
Several switches do it several times with the same list and the same result; the model does
it once. `alarm_start` publishes five seconds later (`PublishLater`). `dialog` is the id the
settings dialog was opened with, `popup` what the ringing screen shows; both may be older
than the list. `Ring` lets any alarm ring at any moment: `AlarmClock` says when.

**AlarmClock.** Time is a second of the week. `Candidates` are the candidate distances that
`find_first_alarm` collects for one alarm and `FindFirst` its choice. `pending` holds the
evaluations that a change of the clock or of the list has caused; they happen in any order
(`EvalFirst`, `EvalDiff`), and the clock and the list change only when none is left, because
all of it is one thread. `armed` says that the second binding depends on the list, which it
does only when its last evaluation read it. `before`, `read`, `due`, `rung` and `spent` are
history for the properties.

**AudioPlayer, AlarmScreen.** The player's state is a record, its functions operators;
`StartMusic` is a set of outcomes, since loading or playing may fail. `AlarmScreen` has an
action for every button, page change and timer that reaches the player. What the user can
reach is limited by modality (`OnPage`); `Ring` is not. A swipe is two steps, since the page
changes when it comes to rest, and so is the closing of the settings dialog, whose `onClosed`
stops the player only when its exit transition of 200 ms has ended (`CloseDialog`,
`DialogClosed`). An alarm may ring between the two; `silencedBy` is history of what silenced it.

**MqttSession.** `request` is the SUBSCRIBE packet on its way through client and broker,
`channel` the client's channel of received messages, in which it also puts the error
`session_expired`. `Connect` contains what the client does when the connection is up:
comparing CONNACK's `session_present` with its own flag and sending unanswered packets again.
`calls` are the queued calls of `setConnectionStatus`.

**Events.** `events.json` is truncated and then written, by each thread (`ReceiveEvents` and
`WriteReceived`, `DeletePastEvents` and `WriteEvents`); in between the other thread may do the
same, which leaves one list or bytes that do not parse (`SavedEvents`), and the power may fail.
Only after its save does the MQTT thread queue the call of `setEvents` (`QueueReceived`).
`crossed` is history: the saves of the two threads overlapped, or a removal of past events
saved the old list over one on its way to memory. Reminders are alarms like others: that
one rings and is deleted is possible in its minute, never certain (`Rung`), since another alarm may hide it,
ring in its place, or the clock pass it over. `ClockIsSet` sets the clock to any minute. The
search for a day's events is the loop of the code, with its inclusive end and its early end.

**UserData.** `write_user_json` is three steps: a setter up to the reading of the file,
`Truncate`, `WriteBack`; the MQTT thread and a power failure may come between any two.
Setters run in the GUI thread one after the other, so `writing` holds one key.

**Weather.** A request is its kind and position; the bag of requests under way is bounded by
`MaxLoad`. A failed data request makes three anew, as line 133 does. Each answer sets what
the code sets, whether or not the city has changed since. What the pages *show* is kept apart
from what the members hold (`shownWeather`, `shownDays`): `set_city` empties the lists and
emits `city_changed` alone, so a page goes on showing the old forecast until an answer comes.

**SpotifyAccount, SpotifyPlayer.** Requests occupy slots and are served and answered in any
order, or lost. The service may replace a refresh token and then refuses the old one. The
tokens are saved one after the other, each by truncating and writing `userdata.json`
(`TruncateFile`, `WriteFile`), and so is any other setting (`SaveSetting`); the power may fail at
each step, and the program then starts with what the file holds. Playlists and tracks are
emptied without a signal, so that what a page shows (`shownLists`, `shownTracks`) is kept apart
here, too. Spotify's device comes and goes: without one the state is an empty answer, which the guard
of `spotify.cpp:205` drops, and commands are refused. A press of the play button is what the QML makes of it: two questions
for the state, and an assignment to the picture that ends its binding. `aims` is history of how
Spotify may be left by the operations that met; `wanted` of what one press that met nothing should do.

**Terminal.** The list entry's name is `NameOf` its line: `scanNets` cuts each line to 18
characters and trims it, so lines of different networks may share a name, also with the
header. Scans run side by side and end in any order.

**Delivery.** All of the library runs in one thread, so what a handler calls at once is one
step and the client is one record, `svc`; a function of the code is an operator from records
to records, under its name (`DoWrite`, `Unanswered`, `SenderResend`, ...). Only `asio::post`
and the end of a write defer. The wire is two queues; a lost connection cuts the write at any
packet, and the broker may have read what was written. `stale` says that the stream was
replaced while the sender has not been told. Serial numbers wrap at `SerialMod`.

**Connection.** The reader, the writer and the disconnection are actors with a place each
(`cn.at`): using the stream, waiting for the lock, resolving, connecting, shaking hands,
pausing. `cn.stream` numbers the streams, so that an actor knows whether the one it found lost
has been replaced. Timers (ping, sentry, pause, timeout of a disconnection) fire at any moment
in which they run.

**Framing, Codecs, Varint.** A packet is a sequence of bytes. Bytes arrive in portions of any
size; `Capacity` is the free buffer. Every encoder lists the parts of its packet, each with its
size and bytes, which the code computes apart; every decoder lists the fields it expects.
Numbers of variable length have the radix `Radix`, 128 in the code.

**PacketIds.** The vector of intervals as the code keeps it, highest first, begin excluded.

`AlarmSync`, `AlarmClock` and `AlarmScreen` meet at the ringing of an alarm and in the
operators of `AlarmList`; each leaves the rest of the others open (any alarm may ring, any
edit may happen, any song may be played), so what holds in one holds in their composition.
`MqttSession` has the library's session state and one request; `Delivery` has the requests in
full and leaves the coroutine open. `Connection` says when a connection is there, `Delivery`
and `Framing` let it come and go at any moment.

## 3. Runs

| Run | Shows |
|---|---|
| `sync_quiet` | With edits that do not overlap, phone and host hold the same list whenever nothing is on its way (`QuietInSync`), and the whole machinery implements `SharedList`, liveness included (`OneSharedList`). |
| `sync_overlap` | With edits on both sides at any moment, a lost message and a power failure: types (`TypeOK`), no shared ids (`UniqueIds`), order kept and one alarm touched (`EditsAreCareful`), and no endless exchange (`Settles`). |
| `sync_diverge` | Violation: one edit on each side, crossing, and the lists stay different. |
| `clock_rings` | With ticks, synchronisations and edits at any moment: types (`TypeOK`), due alarms ring but for three exceptions (`DueAlarmRings`), nothing else does (`RingsOnlyWhenDue`), one-shot alarms ring once (`OneShotStaysOff`), repeating ones for ever (`KeepsRinging`). |
| `clock_missed` | Violation: the exceptions. |
| `services` | *Screen:* types (`TypeOK`); an alarm is heard whatever was played, paused or previewed, unless its file cannot be played or a swipe or a closing dialog silences it (`RingsAloud`), nothing outlives its place (`QuietElsewhere`), the flags tell what the mixer does (`FlagsFollowMixer`), the volume is restored (`VolumeRestored`) and a ramp ends (`RampCompletes`). *Weather, Spotify, networks:* what is shown is of the city, the playlist and the scan chosen last, or of what was still to come then (`ShownAsChosen`, of `NothingOfTheOldCity`, `TracksOfOpened`, `LatestScanShown`); what operations of the player say happens, whichever meet (`OperationsTakeEffect`); and what is shown catches up (`WhatIsShownCatchesUp`, of `LastCityWins`, `ShownCatchesUp`). |
| `files` | *Alarms,* with power failures and lost messages, without overlap: the file holds the list in memory whenever no save is in progress (`DurableWhenIdle`). *Events:* while nothing is being saved the file holds the list in memory or queued (`EventsAreSaved`), days show all their events (`DaysShowTheirEvents`), and reminders are no more than starts, evenings and settings of the clock explain (`RemindersBounded`). *Settings:* a restart loses at most the setting being written, unless the power failed between truncation and write (`SettingsSurvive`). *Account:* through renewals, codes, losses, settings and power failures the host does not lock itself out of Spotify, with three exceptions (`StaysLoggedIn`), and what it has and shows after a login is the new account's (`NewAccountOnly`). |
| `screen_silent` | Violation: a swipe that was moving silences an alarm, a dialog that was closing silences another, a second one with rising volume stays silent. |
| `weather_stale` | Violation: the daily forecast shown stays the first one. |
| `player_button` | Violation: one press of the play button has no effect, and its picture does not follow Spotify afterwards. |
| `mqtt5` | *Session:* the coroutine never waits in vain and its status is right (`TypeOK`, `SessionAsShown`). *Delivery:* every request is in one place (`RequestsAccounted`), what either side is told is true (`DeliveredAsPromised`), the order is kept (`TakenInOrder`). *Connection:* `OrderlyReconnection`, `CancelIsFinal`. *Packets:* `CodecsAgree`, `FramesWhole`, `IdsArePooled`, `TopicsChecked`. Once the network holds: `ConnectsAgain`, `NothingPending`. |
| `mqtt5_promises` | Violation: the broker takes a publication of QoS 0 twice, a message whose acknowledgment the broker has is given up, and one of QoS 2 is handed to the program twice. |

`services`, `files` and `mqtt5` hold several parts that share no variable. A behaviour is one of one
part, chosen at the start: a product of their states would add nothing to any property. Three of the
violated properties (`SomePromise...`) are disjunctions of promises each of which the code breaks: one
behaviour that violates the disjunction breaks all of them.
Several properties are conjunctions of the invariants of one part, each named and commented
where it is defined; `mutants` has a bug for each conjunct.

**Bounds.** *Sync:* a day of three minutes has a first, a middle and a last place, equal
times, and a snooze that wraps; one week day distinguishes alarms that repeat from those
that do not; the phone's lists cover the empty list, two alarms, missing keys, an alarm
that is off, and a temporary one. The checked hazards take one or two edits of the host, one
of the phone, a lost message and a restart; the quiet run, which has fewer interleavings, allows four and
two. `MaxId` bounds creation: ids are handed out while they are at most `MaxId`. *Clock:* three days of three minutes of two seconds: a day before, the day itself and a
day after, with the wrap of the day and of the week; two seconds per minute are the due
second and the one before it. `HourMinutes` is 1, which only places the distance of an
alarm without a time. The server sets the clock, at any moment and any number of times, to the
second before an alarm's minute, into that minute or to the last second of the first and the
last day; two edits, among them a snooze, and lists from the phone. *Screen:* two playable files and one broken, the empty
path; volumes 0, 6, 13 with a step of 4: the step never divides the volume, so that a ramp
has a shorter last step. Nothing else is bounded. *Session:* the topic whose answer is
read and one other; four lost connections, three waiting messages: enough for a loss in every
phase of a subscription and of its renewal. *Weather:* two cities with a position and one
without, two changes, one failure, requests up to a weight of five (a position counts the three that
follow it); for `weather_stale` one midnight and no change. *Spotify:* two accounts, one code, three requests, two new
tokens, one mishap, which may be a power failure at any step of a save; two playlists, two tracks, three lines,
two presses and one upset (a loss, or the device coming or going). *Settings:* three
settings with two values, unbounded changes, power failures and reads. *Events:* days of three minutes up to the
evening of the third, four calendars, among them an unsorted one and an empty one, two lists, and one jolt (a restart or a setting of the
clock). *Networks:* two scans; lines of the same network, of another, and of one listed like the header. *Delivery:*
three requests, the third started by the completion of the first and refused by the broker (QoS 2,
QoS 1 and unsubscribe, beside a message of QoS 2 to the host; QoS 0, subscribe and QoS 2, beside one of QoS 1); two packet
identifiers, so that one is given again; a quota of one; serial numbers to the base 16 from 14,
so that they wrap; one lost connection and one further fault (a lost session, a cancellation).
`mqtt5_promises` needs three lost connections, one for each promise. *Connection:* no broker, one that refuses, and a list
whose second broker is accepting at its second address; one failed attempt and three mishaps
(lost connections, cancellation). *Packets:* every packet and every property by itself, twice and in pairs, and
lengths from 0 to 70 with the radix 4, where they grow by a byte at 4, 16 and 64; buffers of
eight bytes and packets of seven and eight, so that one fills the buffer and one does not fit. *Topics:* all
texts of five letters out of `/`, `+`, `#`, one that is not UTF-8 and the prefix of a shared
subscription. *Identifiers:* six, with every order of giving and returning.

**Deadlock** is checked for the clock. The others may stop: their bounds on
edits, failures, losses and requests get used up.

**Fairness.** `AlarmSync`: each thread's event loop gets to what is ready (`Flush`,
`PublishLater`, `SetAlarms`, `Receive`, `Received`), and the broker delivers what is not lost
(`PhoneReceive`). Edits, losses and power failures are never forced. `AlarmClock`: pending
bindings are evaluated and the repeating one-second timer fires; synchronisation is not
forced. `KeepsRinging` assumes that the clock is set only finitely often, since one that is
set again and again may jump over every alarm, and speaks of alarms once no
edit is left. `AlarmScreen`: the timer of the volume fires
while it runs. `MqttSession`: the client reconnects for ever (it backs off and tries again),
the broker answers, both threads run; connections are lost at most `MaxDrops` times, so
`ConnectsAgain` is about what happens once the network holds. `Weather`: the five-minute timer
fires and each request is answered or fails, as HTTP requests do. `SpotifyPlayer`: the clock
asks for the state every second, Spotify serves and answers; operations, losses and the device are
not forced. `Delivery`: while the client has
something to do, or the sentry's time is up, some step of it happens in the end
(`DeliveryFairness`); new requests, cancellations and faults are never forced. `Connection`:
each actor goes on, timers fire. `Framing`: the reader reads what is there.

`PROJECT.json`'s `mutants` show for each property a plausible bug that it finds: the
subscription without `no_local` makes the exchange endless, a missing save, an id from the
length of the list, an id taken for a row, a preview that is not stopped, a session loss
reported twice, and so on. The definitions marked "Mutant" are used by nothing else.

## 4. Disagreements found

1. **Crossing edits diverge** (`sync_diverge`, `mqttclient.cpp:312`). README.md promises
   automatic synchronisation. When phone and host change the list within the time a message
   takes, each takes the other's list and the two stay exchanged until the next edit.
2. **No alarm at midnight** (`clock_missed`, `mqttclient.cpp:508`). For an alarm at 00:00
   that repeats every day the search finds today's 00:00, which has passed, and so puts it a
   week ahead; the search for the next selected day starts with today and stops there. In
   the last second of a day the distance is therefore not one second, and it does not ring;
   only across the end of the week the search from the other side finds it.
3. **An earlier alarm hides a later one** (`clock_missed`, `mqttclient.cpp:556`). An alarm that
   does not repeat is a candidate at its time even if that has passed today. One set
   for tomorrow at 7:00 keeps today's alarm at 22:00 from ringing. And of two alarms for the same minute only the
   first in the list is found: the other does not ring and, if it does not repeat, stays on.
4. **Rising volume works once** (`screen_silent`, `AlarmScreen.qml:69`). The counter of the
   volume timer is not reset. At a second alarm it is already at the user's volume, so the
   timer stops at once and the music stays at volume 0.
5. **The daily forecast is the first day's** (`weather_stale`, `weather.cpp:330`). Each answer is
   appended to the last one, and the pages show the beginning of the list.
6. **QoS 2 delivers twice** (`mqtt5_promises`, `publish_rec_op.hpp:142`). The receiver keeps no
   record of identifiers: a message sent again after a lost PUBREC is a second one to it.
7. **QoS 0 arrives twice** (`mqtt5_promises`, `publish_send_op.hpp:168`). Packets are written together; when
   the connection is lost in the middle of the write all of them are sent again, those of QoS 0, too,
   that the broker has read. `types.hpp:46` promises once or not at all.
8. **An acknowledged message is given up** (`mqtt5_promises`, `publish_rec_op.hpp:116`). If the write of which a
   PUBACK is a part fails, the client drops the message and expects it again; but the broker may
   have read the PUBACK. `types.hpp:49` promises at least once.
9. **A swipe or a closing dialog silences the alarm** (`screen_silent`, `main.qml:297` and
   `AlarmSettings_Popup.qml:40`). Both end by stopping the player, whatever it plays by then. An alarm that
   rang after the swipe had begun, or within the dialog's exit transition, falls silent with its screen open.
10. **A setting saved may cost the login** (`general_func.cpp:40`). Every setting is saved by
    truncating the file that holds all of them, the Spotify tokens and client id among them; `StaysLoggedIn` excepts a
    power failure then.
11. **Play may do nothing** (`player_button`, `main.qml:24`). The play button asks for the state twice and
    acts on each answer; asked after the first has acted, the second undoes it.
12. **The play button forgets Spotify** (`player_button`, `main.qml:26`). The first press assigns a property that was
    bound to the state heard, and ends the binding.

What holds beside these is stated by `DueAlarmRings` (2, 3), `RampCompletes` (4), `DeliveredAsPromised`
(6, 7, 8: without a cancellation or a cut write), `RingsAloud` (9), `StaysLoggedIn` (10) and `OperationsTakeEffect` (11).
(`TakenInOrder` has a condition of the same kind, see section 5.) The host itself uses QoS 0 towards the phone.

## 5. Proofs

`tlapm` proves all of these for every value of the constants that meets the named
assumptions.

**AlarmListProofs** holds lemmas about the operators: where a new alarm is inserted, what
inserting and removing keep (types, distinct ids, order, the other alarms), that a new id is
in use nowhere.

**AlarmSyncProofs**
- `TypeCorrect`: `Spec => []TypeOK`. One lemma for the actions of the GUI thread, one for the
  rest. `TypeOK` is inductive: the file, the messages and the queue hold typed lists, and each
  operation maps typed lists to typed lists.
- `IdsStayUnique`: `Spec => []UniqueIds`. `UniqueIds` speaks of the list in memory, which is
  replaced from the file, the queue and the phone. The inductive invariant is `TypeOK` with
  `DistinctLists`: distinctness of every list that may become the host's, in memory, in the
  file, being saved, queued, and on its way to the host.
- `OrderIsKept`, `OtherAlarmsAreKept`: the action properties `EditsKeepOrder` and
  `EditsTouchOneAlarm`, from the same invariants; `EditsLeaveTheRest` is both, `EditsAreCareful`.

- `IdleIsDurable`: `DurableWhenIdle`, while edits do not overlap (`~Overlap`; the run
  `sync_overlap` shows what they do otherwise), whatever is lost and however often the power
  fails. The list in memory, the file and the list in the middle of being saved agree in
  different ways at each place of the two threads (`FileFollows`), and only one list is on
  its way at a time (`OneOnItsWay`).
- `QuietMeansInSync`: `QuietInSync`, when also nothing is lost and the power stays on (`Reliable`;
  `sync_diverge` shows that crossing edits break it). The invariant `LastWriteSpreads` says
  of every state where the list written last has got to: the phone, a message, the save of the MQTT
  thread, the queue of the GUI thread, or the host.
- `ImplementsSharedList`: under the same conditions every step of `AlarmSync` is a step of
  `SharedList` or a stutter, with the mapping `Written` and the like that the run `sync_quiet` uses for
  `OneSharedList`. That a list does get to the other side is liveness and left to TLC.

The first four rest on `AlarmListAssumption` and `AlarmSyncAssumption`; the only one that says something
about the world is that the phone gives each of its alarms an id of its own. Nothing bounds
edits, losses, failures or the length of a list. The last three name what else they
assume in their statement, and are about the values of `Overlap`, `MaxLosses` and
`MaxCrashes` that their runs use.

**AlarmClockProofs**
- `ClockTyped`, `RingsAtItsTime`, `RingsOnce`, `DueAlarmsRing`: all safety properties of
  `AlarmClock`, from one invariant, `ClockInv`. The arithmetic comes first: what
  `find_first_alarm` finds is at least the distance of each alarm that is considered, which distances are
  one second and which are none, and how they change when a second passes or the day wraps. `ClockInv`
  then says what the two bindings know while they are still to be evaluated: which list they were
  last evaluated with, that an alarm that is due is still the first, and that what has rung and does not repeat is off
  (`SpentIsOff`).

They rest on `AlarmClockAssumption`: a minute has more than one second, and in the phone's
lists ids are distinct and only phantoms lack a time. A phantom (id 0) itself is left out of
`OneShotStaysOff`: a list can hold two of them, and the loops switch off the first.

**HostServicesProofs**
- `SettingsTyped`, `FileIsMemory`, `DefaultsReadRight`, and the action property
  `SettingsSurviveRestarts` (`SettingsSurvive`): from `FileFollowsMemory` with `CopyIsMemory`,
  that what is about to be written back is what the program works with.
- `WeatherOfThisCity`: `NothingOfTheOldCity`, from `ForThisCity`: every request under way is for the
  city or for a place that was awaited when it was chosen, and so is the position, unless the city was
  chosen while nothing was under way: then only its own position is asked for, and nothing is requested with the old one.
- `NeverLockedOut`, `OneAccountAtATime`: `StaysLoggedIn` and `NewAccountOnly`. Invariants: between
  two handlers the file is what is in memory, and while one saves, what is in memory is written last
  (`FileFollows`); a token on its way was handed out once and is held by nobody yet (`TokensOnTheWay`); every request made
  since the code came is for its account (`SinceLogin`), and so are the lists that came, whether or not the page was
  told of them (`ListsOfLogin`).
- `OperationsDoWhatTheySay`, `OnlyTracksOfOpened`: `OperationsTakeEffect` and
  `TracksOfOpened`. While something acts, what it leads to is among `aims`, and either outcome is
  while something asks (`AimsOfCommands`); what tracks come is what was
  opened when they were asked for (`AwaitedTracks`).

- `FileHoldsEvents`, `DaysAreComplete`: `EventsAreSaved` and `DaysShowTheirEvents`, for calendars of
  any length. As long as the saves have not met, the thread that is between truncation and writing finds the file
  empty, and if it is the GUI thread no list is on its way to memory; what the MQTT thread has written and not yet queued is
  in the file (`OneSaves`). That a day is complete although the search ends early is a lemma about
  one list: in a list in order, what begins by the end of the day is before what does not.
- `RemindersAreFew`: `RemindersBounded`, for calendars in which no id comes twice (`Fit`; with two events of one id
  the count is of both, and the code does not check). The invariant (`CountsFit`) bounds the reminders of an event by
  the starts and by the evenings of its window that have passed (`EveningsOf`): an evening adds
  one reminder to an event within its window, and is itself one evening more. A clock set back may let all of them pass
  again, so each setting back counts as a whole window. Before its window opens an event has one reminder less, since one may
  come in the first minute. Reminders that ring only make them fewer.
- `LastScanIsShown`: `LatestScanShown`, for output of any length and any cut of the names: nothing queued or shown has a
  name twice, every scan that runs is the one started last or ran when it was started, and so did the one whose result comes last (`LastIsRival`).

- `ScreenTyped`, `FlagsTellTheMixer`, `AlarmsAreHeard`, `NothingPlaysOn`, `UsersVolumeIsBack`:
  all invariants of `AlarmScreen`, together inductive with `NamedMusic`: the player never
  holds the empty path. Without it an alarm without a song could "ring" with a paused song. First, one lemma for each
  operation of the player, where that of `setVolume` says that the rounding stays within
  SDL_mixer's scale for every percentage; then one for each group of actions. `AlarmsAreHeard` has
  the exceptions of its property: a file that cannot be played, and the two ends of disagreement 9.

They rest on the named assumptions of the modules, all on values: that the mark of an
unused slot (`Free`, `NoRequest`) is not a request, that no place, account and playlist is none
of the real ones, that a calendar is a list of events, that the bounds are numbers.

**Mqtt5Proofs**
- `AllocatorIsPool` (`IdsArePooled`): the vector of intervals of `packet_id_allocator` is a
  refinement of `IdPool`, for any `MAX_PACKET_ID`. The invariant `Sound`: the intervals are in
  order, apart by at least one identifier that is in use, and not empty. A lemma for each of the five ways
  in which the code changes the vector: shortened or emptied by `allocate`; in `free` extended on
  either side, merged, inserted.
- `ReconnectsOrderly` (`OrderlyReconnection`) for any lists of brokers and any number of lost
  connections and cancellations. The invariant `Orderly` adds: each actor is in one
  place, the queue of the lock holds those who wait, once each (`LockExact` says who holds it), who has been granted the
  lock finds no connection, and the brokers tried are those up to the present one (`Walked`).
  `CancelledForGood` (`[][StaysCancelled]_connectionVars`) follows from it.
- What the waiting operations do when packets were written or are to be sent again is stated in
  `Connection` for the set of these packets (`Answered`): each changes a field of its own, so
  their order says nothing.

- `TopicsAreChecked` (`TopicsChecked`), for any alphabet and texts of any length. Both sides are first said in
  places of the text: a character is ordinary, or a "+" with a "/" or an end on either side, or the last
  "#" (`FilterForm`). For the code's check this is unfolding; for levels, which are what is between
  two cuts, it needs where the level around a place begins and ends (`LevelAround`).
- `PacketsWhole` (`FramesWhole`), for packets of any number and size, portions of any size and any number of lost
  connections. `Going` says what holds while the reader is in step: what is handled is
  what was sent, from the beginning, and what is read and on its way is the rest, one packet after
  the other. A packet's length is read from its first bytes, and is the same whatever follows
  (`Parsed`, `SaysItsLength`); so, once a header is complete, it ends where the next
  packet that was sent ends (`NextFrame`). That the reader has room for what it waits for is from
  `Fits` and from the header's five bytes, for any `Capacity` above `MaxDigits`.

- `SessionTyped`, `NeverWaitsInVain`: `TypeOK` (with the claim that a lost session is
  reported at most once) and `ReceivingMeansSubscribed`. Neither is inductive. `SessionInv`
  adds that a request is under way exactly while the coroutine waits for its answer
  (`RequestAwaited`), that a report and the client's flag exclude each other (`ReportedOnce`),
  that an answer on its way names subscriptions the broker has (`AnswerHolds`), and, as it
  must be kept while the connection is down, that a receiving coroutine is subscribed
  or has a report waiting (`SubscribedOrTold`).
- `StatusIsRight`: `StatusMatches`, from `StatusInv`, which speaks of the status after the
  queued calls (`FinalStatus`) instead of the one after they have run. `SessionIsShown`
  (`SessionAsShown`) is both.

**DeliveryProofs**
- `RequestsAreAccounted` (`RequestsAccounted`): identifiers, places, quota and aborts, for any requests,
  messages, brokers, limits and serial numbers and any number of faults. The lists of the client are sequences that the loops
  take apart and put together again, so the invariant counts: a request that is sent is in the
  queue, the write, the awaited replies and the deferred completions together once (`Placed`). It has to
  hold in the middle of a loop, too, where the requests still to be handled are in none of them: hence
  the parameter D of `Sane(s, D)`. With it go that what is in a list carries the identifier of its request (`Matching`),
  that identifiers are free or of one request (`Ids`), and that who is about to be aborted was to be (`Excused`).
- The quota is the limit less the publications that the broker has, or may have, to acknowledge
  (`Within`); those that a loop is about to send again do not count among them (the parameter N). This holds until a request
  or the client is cancelled: a cancelled publication gives its share back while the broker may
  still have to acknowledge it. `WithinQuota` follows as nothing that is written or awaited waits for room.
- There is one lemma for each function of the code (`DoWriteKeeps`, `StartKeeps`, `FinishKeeps`, `WaitReplyKeeps`, ...),
  each saying both of these, then one for each loop (`WrittenFolds`, `UnwrittenFolds`, ...), then one for each action.
- `DeliveryInvariant`: the invariant itself. A reply that was deferred before a connection was
  lost would meet requests that are sent again; the code does not let it, and the invariant has it (`stale` and `posted` in `Accounted`).

They rest on `DeliveryAssumption`: identifiers, limits and serial numbers are those of the code's types, and
`MAX_PACKET_ID` is not above `MAX_LIMIT` (both are 65535).

**PromiseProofs**
- `DeliveryTruth`, `PromisesAreKept` (`DeliveredAsPromised`): what the program and the broker are told. `RequestsAccounted`
  is about the client alone; this needs the client, the packets and replies on their way, and the broker together.
  The invariant (`Truth`, which is `Candid` of the present connection) says:
  - *Who knows what* (`Good`, `Proper`, `Truthful`): success is told only of what the broker took; a PUBREL is sent and a PUBCOMP
    awaited only for a publication that it took; one of QoS 2 that it still holds does not end and is told nothing but the
    PUBREC; one that it has released is not published again; one of QoS 0 that it took is not sent again.
  - *What is on its way* (`Fares`): of a request one packet or reply at most, counting the write, the wire, the
    broker's answers and early replies, and only while it is written or awaits the reply; every identifier that the broker
    holds is that of a request that waits. So when a reply comes, it is for the one who has its identifier now, not for one
    who had it before.
  - *What a cut write means* (`Trails`, `Tailed`): the end of the wire is the write under way; a publication of QoS 0
    that the broker took is in that part of the write, and an acknowledgment that it took is of a message that was stored or is about to be.
  - *What the broker counts* (`TakenOnce`, `OnceAtMost`).

  Parts are conditional, as the properties are: on no request having been cancelled (its identifier is given to another
  while the broker may hold it), no session lost, no write cut.
- While a function of the code runs, the broker and the wire stand still. So the functions are proved to keep what is known
  with the broker's part as a parameter, the record K of four sets of requests (`Known`), and a relation between the client before and
  after (`Moves`, `Goes`, `Lasts`); `CandidBut`, `FaresOn`, `TrailsAlong` and their like then bring the broker and the wire back, once for each action. When the broker takes a
  packet K grows by one request (`KnownTakes`); when a connection is lost it has taken some of the wire, one after the
  other (`Receiving`, an instance of `SequenceLemmas`), and then the wire is dropped (`CandidDropped`).

They rest on `DeliveryAssumption`, too.

**SequenceLemmas** holds what the operators on sequences return: the community modules'
`InsertAt`, `RemoveAt`, `FlattenSeq`, and `At`. The last two are defined by recursive
functions. The library's theorems on such definitions take an operator as a parameter; here the step is
a function and the property a set instead (`Recursion`, `NatInductive`), and induction is a least
element (`MinOfNats`). `FoldLeft` is treated in the same
way, with its operation as a constant of the module, `Op`: each instance is about one loop (`FoldSteps`).

The strengthened invariants were checked with TLC on the runs' instances before they were proved.

Model-checked only:
- *Liveness*, which needs fairness and is beyond the prover: `Settles`, `KeepsRinging`, `RampCompletes`,
  `ConnectsAgain`, `NothingPending`, `CancelIsFinal` (but for `StaysCancelled`),
  `LastCityWins`, `ShownCatchesUp`, and the fairness part of `OneSharedList`.
- `CodecsAgree`, the decoding of every packet that is encoded: `Codecs` is a table of all fields of all packets, and what
  its folds return for each is left to TLC.
- `TakenInOrder` of `Delivery`. It is not so for all values of the constants: `write_req::operator<` compares serial numbers
  within a window of half their range, and subscriptions have the serial number 0 wherever they come, so that it is no order of long
  lists in which they are mixed with publications. It holds on the run's instances, where the numbers wrap. Nor is
  it so when one publication is cancelled and the broker loses its session: with `MaxBreaks` and `MaxFaults` at 2, TLC
  finds that a cancelled publication of QoS 2 leaves its identifier to another, which the broker then takes for the cancelled one
  sent again; after the loss it takes it for the first time, behind younger ones. Hence the condition in the property.

## 6. Assumptions and abstractions

- *Phone and broker* are not part of the repository. The phone publishes its list after an
  edit and takes each list it receives. Channels keep the order; `no_local` keeps the host's
  messages from coming back to it.
- *Data.* Labels, vibration, `musicUri` and the alarm's own `delay` are copied and never
  decided on. Payloads are well-formed lists; a payload or file that does not parse is read
  as the empty list, which is among the lists.
- *Queued calls* from the MQTT thread run in order, one at a time, between other handlers.
- *Data races.* `publish_alarms` uses the MQTT client in the GUI thread while the MQTT thread
  runs it. Any outcome is possible, and no model of it would show anything. The two writers
  of one file are modelled by the outcomes the file may have.
- *Failing disks* are not modelled; the code does not react to them.
- *Timers of the clock* fire in time: a GUI thread that is blocked for a second would
  jump over a moment, as a synchronisation does.
- *HTTP services* answer any request with success or failure, in any order; Spotify's may also
  lose one. Times without an answer end in failure, as Qt's do.
- *The broker* keeps a session or loses it, at once and only while no connection is up. It
  sends each message until it is acknowledged, in the session.
- *Delivery* after a lost connection: a posted early reply that races the sending again is left
  out, as is a CONNACK that is lost after the broker has opened a new session.
- *Packets of a broker*, good or bad, are as long as they say (`Whole`), unless the length itself does not end.
- *Framing* promises nothing (`muddled`), until the connection is made anew, after a malformed packet, for which the client
  disconnects, and where a PUBLISH that cannot be decoded is followed by a lost connection: the reader
  then goes on with bytes of the old connection on the new one (`read_message_op.hpp:94`), until it finds them malformed or that connection is lost.
- *Characters.* `Topics` is about levels and wildcards. Which characters a topic may have is not checked: the library refuses,
  beside what MQTT forbids, every character whose number ends in FE or FF (`utf8_mqtt.hpp:65`), and does
  not look at the form of continuation bytes (`:24`).
- *A write of the client* that the broker has read whole is reported as written, as on a TCP connection that is not
  yet known to be lost; a cut write is one of which some packet did not arrive.
- *What properties leave out.* `EditsTouchOneAlarm` says that an edit leaves the other alarms alone; a phantom alarm, or an
  id given out again to another alarm, is outside it. `SettingsSurvive` excepts the power failure between truncation and
  write of `userdata.json`, after which the file is empty (`StaysLoggedIn` excepts it, too, and says so).
- *Which errors a socket reports* is the operating system's: `Connection` has errors after which the
  client connects again and others, after which it ends (`read_op.hpp:124`); a host that
  cannot be reached is among the latter.

*Not modelled:* the table of reason codes and the traits of Boost.MQTT5 (names and types); the
comparison of a publication's properties with CONNACK's (`publish_send_op.hpp`, a list of
independent checks); TLS and WebSocket streams, which the host does not use; replies that
cannot be decoded, after which the client connects again, as after a loss; songs and pictures
(one directory listing each); three controls of Spotify whose answers change nothing
(`set_volume`, `change_shuffle`, `change_repeat_mode`); appearance; pages that cannot be reached
from `main.qml`.

## 7. State

All parts of the host that keep state are modelled, and of Boost.MQTT5 the connection, the delivery, the packets, the
topics and the identifiers. Every safety property that a passing run checks is proved for all values of the constants,
but for `CodecsAgree` and `TakenInOrder` (section 5 says why); liveness is model-checked.

What would come next: the comparison of a publication's properties with what CONNACK allows; `TakenInOrder` for publications
alone, whose serial numbers stay within half their range; the round trip of one packet after the other in `Codecs`.

Where a new question is close to one of an existing run, it joins that run.
