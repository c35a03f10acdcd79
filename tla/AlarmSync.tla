------------------------------ MODULE AlarmSync ------------------------------
(***************************************************************************)
(* The alarm list as it is shared between the GUI thread, the MQTT thread,  *)
(* the file alarms.json and the phone.                                      *)
(*                                                                         *)
(* Two threads of the host write alarms.json with save_data, which opens    *)
(* (and truncates), writes and closes the file without any lock: the GUI    *)
(* thread after every operation on m_alarms, the MQTT thread when a message *)
(* arrives.  Every handler that saves is therefore two steps here: one up   *)
(* to the truncation and one from the flush to the end of the handler.      *)
(* Between the two a thread does nothing else, while the other thread, the  *)
(* network, the phone and a power failure may all take steps.               *)
(*                                                                         *)
(* Outside src/ and modelled from how src/ uses it: the broker and the two  *)
(* channels (QoS 0: in order, possibly lost, no echo of one's own messages  *)
(* because of no_local) and the phone application, which publishes its      *)
(* whole list after a local edit and adopts every list it receives.         *)
(***************************************************************************)
EXTENDS AlarmList

CONSTANTS PhoneLists,    \* the lists the phone publishes
          Edits,         \* the edits the user makes on the host
          SnoozeDelay,   \* minutes an alarm is snoozed for
          Overlap,       \* TRUE: edits may begin while an earlier one is on its way
          MaxHostEdits, MaxPhoneEdits, MaxLosses, MaxCrashes  \* bounds on the environment

\* The phone gives every alarm an id of its own; the host relies on that.
ASSUME AlarmSyncAssumption ==
       /\ PhoneLists \subseteq Seq(JsonAlarm)
       /\ \A list \in PhoneLists : Distinct(list)
       /\ Edits \subseteq Edit
       /\ SnoozeDelay \in Nat
       /\ Overlap \in BOOLEAN
       /\ {MaxHostEdits, MaxPhoneEdits, MaxLosses, MaxCrashes} \subseteq Nat

VARIABLES alarms,   \* m_alarms, owned by the GUI thread
          file,     \* alarms.json
          gui,      \* what the GUI thread's current handler still has to do
          net,      \* what the MQTT thread's receive loop is doing
          netMsg,   \* the payload the MQTT thread is saving
          guiQ,     \* setAlarms calls queued for the GUI thread
          timers,   \* publications that alarm_start has scheduled
          dialog,   \* the id the settings dialog was opened with
          popup,    \* the time and song of the alarm on the ringing screen
          toHost, toPhone,  \* messages on their way
          phone,    \* the phone's list
          used      \* how much of each bound is used up

hostVars  == <<alarms, gui, timers, dialog, popup>>
netVars   == <<net, netMsg, guiQ>>
vars == <<alarms, file, gui, net, netMsg, guiQ, timers, dialog, popup,
          toHost, toPhone, phone, used>>

\* No dialog; and the ringing screen when it is not open.
Closed == -2
NoPopup == [time |-> Closed, song |-> ""]

\* A file as a reader finds it: empty, bytes of two writers, or a list.
Truncated    == [state |-> "truncated", list |-> <<>>]
Torn         == [state |-> "torn", list |-> <<>>]
Holding(list) == [state |-> "ok", list |-> list]
Files == [state : {"truncated", "torn", "ok"}, list : Seq(JsonAlarm)]

\* setup_data: what does not parse is read as an empty list.
Contents(f) == ReadJsonAlarms(f.list)

\* close() flushes the writer's buffer from offset 0.  Over another writer's
\* bytes the result parses only if it covers them all.
Flushed(list) == {Holding(list)} \cup (IF file.state = "truncated" THEN {} ELSE {Torn})

Budget == [host : 0 .. MaxHostEdits, phone : 0 .. MaxPhoneEdits,
           lost : 0 .. MaxLosses, crash : 0 .. MaxCrashes]

\* Everything that was started has reached the file, the host and the phone.
Quiet == /\ gui = "idle" /\ net = "receive"
         /\ guiQ = <<>> /\ timers = 0
         /\ toHost = <<>> /\ toPhone = <<>>

-----------------------------------------------------------------------------
\* The constructor of MqttClient loads the file; the list view then builds its
\* delegates, and each enabled switch saves and publishes, as after SetAlarms.
StartGui(f)  == IF AnyEnabled(Contents(f)) THEN "save_publish" ELSE "idle"
StartFile(f) == IF AnyEnabled(Contents(f)) THEN Truncated ELSE f

Init == /\ phone \in PhoneLists
        /\ alarms = ReadJsonAlarms(phone)
        /\ file = StartFile(Holding(phone)) /\ gui = StartGui(Holding(phone))
        /\ net = "receive" /\ netMsg = <<>> /\ guiQ = <<>>
        /\ timers = 0 /\ dialog = Closed /\ popup = NoPopup
        /\ toHost = <<>> /\ toPhone = <<>>
        /\ used = [host |-> 0, phone |-> 0, lost |-> 0, crash |-> 0]

-----------------------------------------------------------------------------
(* GUI thread *)

\* save_data up to the truncation; the rest of the handler is Flush.
Save(then) == gui' = then /\ file' = Truncated

\* Mutant: the subscription without no_local.
FlushToSelf ==
    /\ gui \in {"save", "save_publish"}
    /\ file' \in Flushed(alarms)
    /\ IF gui = "save_publish"
       THEN toPhone' = Append(toPhone, alarms) /\ toHost' = Append(toHost, alarms)
       ELSE UNCHANGED <<toPhone, toHost>>
    /\ gui' = "idle"
    /\ UNCHANGED <<alarms, netVars, timers, dialog, popup, phone, used>>

\* save_data's write and close, then publish_alarms where the handler has one.
Flush ==
    /\ gui \in {"save", "save_publish"}
    /\ file' \in Flushed(alarms)
    /\ toPhone' = IF gui = "save_publish" THEN Append(toPhone, alarms) ELSE toPhone
    /\ gui' = "idle"
    /\ UNCHANGED <<alarms, netVars, timers, dialog, popup, toHost, phone, used>>

\* A user action or an alarm's time coming up.
HostEvent == /\ gui = "idle"
             /\ Overlap \/ Quiet
             /\ used.host < MaxHostEdits
             /\ used' = [used EXCEPT !.host = @ + 1]
             /\ UNCHANGED <<netVars, toHost, toPhone, phone>>

OpenDialog == /\ HostEvent
              /\ dialog = Closed /\ popup = NoPopup
              /\ dialog' \in Ids(alarms)
              /\ UNCHANGED <<alarms, file, gui, timers, popup>>

Create == /\ HostEvent
          /\ dialog = Closed /\ popup = NoPopup
          /\ NextId(alarms) <= MaxId
          /\ \E edit \in Edits : alarms' = CreateAlarm(alarms, edit)
          /\ Save("save_publish")
          /\ UNCHANGED <<timers, dialog, popup>>

\* The dialog still holds the id of the alarm it was opened with.
Change == /\ HostEvent
          /\ dialog # Closed /\ popup = NoPopup
          /\ \E edit \in Edits : alarms' = ChangeAlarm(alarms, dialog, edit)
          /\ dialog' = Closed
          /\ Save("save_publish")
          /\ UNCHANGED <<timers, popup>>

Delete == /\ HostEvent
          /\ dialog # Closed /\ popup = NoPopup
          /\ alarms' = DeleteAlarm(alarms, dialog)
          /\ dialog' = Closed
          /\ Save("save_publish")
          /\ UNCHANGED <<timers, popup>>

\* Mutant: update_alarm_status without save_data.
ToggleUnsaved == /\ HostEvent
                 /\ dialog = Closed /\ popup = NoPopup
                 /\ \E i \in DOMAIN alarms, checked \in BOOLEAN :
                       /\ checked # alarms[i].isEnabled
                       /\ alarms' = UpdateStatus(alarms, alarms[i].id, checked)
                 /\ UNCHANGED <<file, gui, timers, dialog, popup>>

\* A switch of the list view: its alarm is in the list.
Toggle == /\ HostEvent
          /\ dialog = Closed /\ popup = NoPopup
          /\ \E i \in DOMAIN alarms, checked \in BOOLEAN :
                /\ checked # alarms[i].isEnabled
                /\ alarms' = UpdateStatus(alarms, alarms[i].id, checked)
          /\ Save("save_publish")
          /\ UNCHANGED <<timers, dialog, popup>>

\* Mutant: alarm_start without the delayed publish_alarms.
RingUnpublished ==
        /\ HostEvent
        /\ \E i \in DOMAIN alarms :
              /\ popup' = [time |-> alarms[i].time, song |-> alarms[i].song]
              /\ alarms' = StartAlarm(alarms, alarms[i].id)
        /\ Save(IF AnyEnabled(alarms') THEN "save_publish" ELSE "save")
        /\ UNCHANGED <<timers, dialog>>

\* getTimeDiff shows the ringing screen and calls alarm_start, whose publication
\* is five seconds away.  Rebuilding the list view publishes now if a switch of
\* the new list is on.
Ring == /\ HostEvent
        /\ \E i \in DOMAIN alarms :
              /\ popup' = [time |-> alarms[i].time, song |-> alarms[i].song]
              /\ alarms' = StartAlarm(alarms, alarms[i].id)
        /\ Save(IF AnyEnabled(alarms') THEN "save_publish" ELSE "save")
        /\ timers' = timers + 1
        /\ UNCHANGED dialog

\* Mutant: minutes added without QTime's wrap at midnight.
SnoozeNoWrap == /\ HostEvent
                /\ popup # NoPopup
                /\ NextId(alarms) <= MaxId
                /\ alarms' = CreateAlarm(alarms, [time |-> popup.time + SnoozeDelay,
                                                  song |-> popup.song, delete_after |-> TRUE,
                                                  repeatDays |-> {}])
                /\ popup' = NoPopup
                /\ Save("save_publish")
                /\ UNCHANGED <<timers, dialog>>

\* The ringing screen's first button: a temporary alarm SnoozeDelay later.  The
\* empty time of a phantom is parsed as 00:00.
Snooze == /\ HostEvent
          /\ popup # NoPopup
          /\ NextId(alarms) <= MaxId
          /\ LET shown == IF popup.time = NullTime THEN 0 ELSE popup.time
             IN  alarms' = CreateAlarm(alarms, [time |-> (shown + SnoozeDelay) % DayMinutes,
                                                song |-> popup.song, delete_after |-> TRUE,
                                                repeatDays |-> {}])
          /\ popup' = NoPopup
          /\ Save("save_publish")
          /\ UNCHANGED <<timers, dialog>>

\* The ringing screen's second button, and the dialog closed without saving.
Stop == /\ gui = "idle"
        /\ \/ popup # NoPopup /\ popup' = NoPopup /\ UNCHANGED dialog
           \/ popup = NoPopup /\ dialog # Closed /\ dialog' = Closed /\ UNCHANGED popup
        /\ UNCHANGED <<alarms, file, gui, netVars, timers, toHost, toPhone, phone, used>>

\* alarm_start's single-shot timer.
PublishLater == /\ gui = "idle" /\ timers > 0
                /\ timers' = timers - 1
                /\ toPhone' = Append(toPhone, alarms)
                /\ UNCHANGED <<alarms, file, gui, netVars, dialog, popup, toHost, phone, used>>

\* The queued setAlarms.  It ends in alarmschanged: the list view rebuilds its
\* delegates, and the handler of each enabled switch saves and publishes.
SetAlarms == /\ gui = "idle" /\ guiQ # <<>>
             /\ alarms' = Head(guiQ)
             /\ guiQ' = Tail(guiQ)
             /\ IF AnyEnabled(alarms') THEN Save("save_publish") ELSE UNCHANGED <<gui, file>>
             /\ UNCHANGED <<net, netMsg, timers, dialog, popup, toHost, toPhone, phone, used>>

HostEdit == OpenDialog \/ Create \/ Change \/ Delete \/ Toggle \/ Ring \/ Snooze
Gui == HostEdit \/ Stop \/ Flush \/ PublishLater \/ SetAlarms

-----------------------------------------------------------------------------
(* MQTT thread *)

\* async_receive completes with a message on mqtt/alarms; save_data truncates.
Receive == /\ net = "receive" /\ toHost # <<>>
           /\ netMsg' = Head(toHost)
           /\ toHost' = Tail(toHost)
           /\ net' = "save" /\ file' = Truncated
           /\ UNCHANGED <<hostVars, guiQ, toPhone, phone, used>>

\* Mutant: an empty list is saved but not handed on.
ReceivedUnlessEmpty ==
            /\ net = "save"
            /\ file' \in Flushed(netMsg)
            /\ guiQ' = IF netMsg = <<>> THEN guiQ ELSE Append(guiQ, ReadJsonAlarms(netMsg))
            /\ net' = "receive" /\ netMsg' = <<>>
            /\ UNCHANGED <<hostVars, toHost, toPhone, phone, used>>

\* save_data closes the file with the payload as it came; the list read from it
\* goes to the GUI thread.
Received == /\ net = "save"
            /\ file' \in Flushed(netMsg)
            /\ guiQ' = Append(guiQ, ReadJsonAlarms(netMsg))
            /\ net' = "receive" /\ netMsg' = <<>>
            /\ UNCHANGED <<hostVars, toHost, toPhone, phone, used>>

Net == Receive \/ Received

-----------------------------------------------------------------------------
(* Environment *)

PhoneEdit == /\ Overlap \/ Quiet
             /\ used.phone < MaxPhoneEdits
             /\ used' = [used EXCEPT !.phone = @ + 1]
             /\ phone' \in PhoneLists
             /\ toHost' = Append(toHost, phone')
             /\ UNCHANGED <<hostVars, file, netVars, toPhone>>

PhoneReceive == /\ toPhone # <<>>
                /\ phone' = Head(toPhone)
                /\ toPhone' = Tail(toPhone)
                /\ UNCHANGED <<hostVars, file, netVars, toHost, used>>

\* QoS 0: a message may be lost.
Lose == /\ used.lost < MaxLosses
        /\ used' = [used EXCEPT !.lost = @ + 1]
        /\ \/ toHost # <<>> /\ toHost' = Tail(toHost) /\ UNCHANGED toPhone
           \/ toPhone # <<>> /\ toPhone' = Tail(toPhone) /\ UNCHANGED toHost
        /\ UNCHANGED <<hostVars, file, netVars, phone>>

\* The host loses power and starts again; what was on its way to it is lost.
Restart == /\ used.crash < MaxCrashes
           /\ used' = [used EXCEPT !.crash = @ + 1]
           /\ alarms' = Contents(file)
           /\ gui' = StartGui(file) /\ file' = StartFile(file)
           /\ net' = "receive" /\ netMsg' = <<>> /\ guiQ' = <<>>
           /\ timers' = 0 /\ dialog' = Closed /\ popup' = NoPopup
           /\ toHost' = <<>>
           /\ UNCHANGED <<toPhone, phone>>

Next == Gui \/ Net \/ PhoneEdit \/ PhoneReceive \/ Lose \/ Restart

Spec == Init /\ [][Next]_vars

\* The event loop of each thread gets to every event that is ready for it, and
\* the broker forwards what is not lost.  Users, phone edits, losses and power
\* failures are not forced.
Fairness == /\ WF_vars(Flush) /\ WF_vars(PublishLater) /\ WF_vars(SetAlarms)
            /\ WF_vars(Receive) /\ WF_vars(Received)
            /\ WF_vars(PhoneReceive)

FairSpec == Spec /\ Fairness

-----------------------------------------------------------------------------
\* Every variable holds values of its type; in particular no operation creates
\* an alarm outside the day or with an id that was not handed out.
TypeOK ==
    /\ alarms \in Seq(Alarm)
    /\ file \in Files
    /\ gui \in {"idle", "save", "save_publish"}
    /\ net \in {"receive", "save"}
    /\ netMsg \in Seq(JsonAlarm)
    /\ guiQ \in Seq(Seq(Alarm))
    /\ timers \in Nat
    /\ dialog \in 0 .. MaxId \cup {Closed}
    /\ popup \in [time : Times \cup {NullTime, Closed}, song : Songs]
    /\ toHost \in Seq(Seq(JsonAlarm)) /\ toPhone \in Seq(Seq(Alarm))
    /\ phone \in Seq(JsonAlarm)
    /\ used \in Budget

\* create_alarm never hands out an id in use, whatever the phone, the file and
\* earlier edits have left in the list.
UniqueIds == Distinct(alarms)

\* Every operation of the host keeps a list that is in order of time in order.
EditsKeepOrder == [][HostEdit /\ Sorted(alarms) => Sorted(alarms')]_vars

\* An operation touches one alarm only, and all the others are kept as they are.
\* Save and delete in the settings dialog touch the alarm it was opened with,
\* wherever the list has moved it since. (That an alarm deleted by the phone comes
\* back when its dialog is saved, or that an id is given out again, is allowed.)
EditsTouchOneAlarm ==
    [][/\ HostEdit => \E id \in 0 .. MaxId : Others(alarms', id) = Others(alarms, id)
       /\ Delete \/ (Change /\ dialog \in Ids(alarms))
             => Others(alarms', dialog) = Others(alarms, dialog)]_vars

\* An edit leaves the list in order, and alone what it does not touch.
EditsAreCareful == EditsKeepOrder /\ EditsTouchOneAlarm

InSync == ReadJsonAlarms(phone) = alarms

\* README.md:21, "Automatic data synchronization with the mobile application":
\* once every message is delivered and every handler has run, phone and host
\* hold the same list.
QuietInSync == Quiet => InSync

\* While no handler is in the middle of a save, alarms.json holds the list in
\* memory: a power failure at that moment loses no alarm.
DurableWhenIdle ==
    gui = "idle" /\ net = "receive" /\ guiQ = <<>> => Contents(file) = alarms

\* Host and phone do not keep answering each other's publications.
Settles == <>[]Quiet

\* The list that is on its way to the host, else the host's.
Written == IF toHost # <<>> THEN ReadJsonAlarms(Head(toHost))
           ELSE IF net = "save" THEN ReadJsonAlarms(netMsg)
           ELSE IF guiQ # <<>> THEN Head(guiQ)
           ELSE alarms

Shared == INSTANCE SharedList WITH Lists <- Seq(Alarm), written <- Written,
                                   onHost <- alarms, onPhone <- ReadJsonAlarms(phone)

\* Edits that do not overlap reach the other side, each of them and in order:
\* the two threads, the file and the two channels implement one shared list.
OneSharedList == Shared!Spec
=============================================================================
