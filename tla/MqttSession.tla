----------------------------- MODULE MqttSession -----------------------------
(***************************************************************************)
(* The subscription of the host: the coroutine subscribe_and_receive        *)
(* (mqttclient.cpp), the part of Boost.MQTT5 that keeps it alive over lost  *)
(* connections (connect_op, client_service, async_sender, replies,          *)
(* subscribe_op), and the broker.                                           *)
(*                                                                         *)
(* The client reconnects by itself and sends what was not answered again.   *)
(* When the broker has not kept the session and something was subscribed,   *)
(* the client puts session_expired in the channel of received messages, and *)
(* the coroutine subscribes again when it gets to it.  Coroutine and client *)
(* run in one thread; setConnectionStatus is queued for the GUI thread.     *)
(* What a message carries is left to AlarmSync.                             *)
(***************************************************************************)
EXTENDS Integers, Sequences

CONSTANTS Topics,       \* the topic filters of subscribe, and the first of them
          FirstTopic,
          Grants,       \* the sets of topics the broker may grant
          SessionExpired,
          Unset,        \* an uninitialised m_connectionStatus
          MaxDrops,     \* bound on the lost connections
          MaxChannel    \* bound on the received messages that wait

ASSUME MqttSessionAssumption ==
       /\ FirstTopic \in Topics /\ SessionExpired \notin Topics
       /\ Grants \subseteq SUBSET Topics
       /\ Unset \notin {0, 1}
       /\ MaxDrops \in Nat /\ MaxChannel \in Nat \ {0}

VARIABLES connected,   \* the connection is up (CONNACK received)
          drops,       \* how often it was lost
          granted,     \* the subscriptions of the broker's session
          subscriptionsPresent,   \* the client's flag
          request,     \* the SUBSCRIBE packet: none, "queued" by the client,
                       \* "sent", or "answered" with SUBACK on its way
          codes,       \* the topics granted by that SUBACK
          channel,     \* received messages: a topic, or SessionExpired
          loop,        \* the coroutine: "subscribing" the first time, "receiving",
                       \* "resubscribing", or "ended"
          calls,       \* queued calls of setConnectionStatus
          connectionStatus,   \* m_connectionStatus
          received     \* history: the first subscription succeeded

client == <<subscriptionsPresent, request, codes>>
gui == <<calls, connectionStatus>>
vars == <<connected, drops, granted, client, channel, loop, gui, received>>

\* subscribe's reading of the answer: the code of the first topic.
Succeeds == FirstTopic \in codes

Init == /\ connected = FALSE /\ drops = 0 /\ granted = {}
        /\ subscriptionsPresent = FALSE
        /\ request = "queued" /\ codes = {}
        /\ channel = <<>>
        /\ loop = "subscribing" /\ received = FALSE
        /\ calls = <<>> /\ connectionStatus \in {0, 1, Unset}

-----------------------------------------------------------------------------
(* The client *)

\* Mutant: subscriptionsPresent stays up, and every lost session is reported.
UpdateSessionStateAlways(present) ==
    /\ channel' = IF ~present /\ subscriptionsPresent THEN Append(channel, SessionExpired) ELSE channel
    /\ UNCHANGED subscriptionsPresent

\* What the client does with CONNACK's session_present.
UpdateSessionState(present) ==
    IF ~present /\ subscriptionsPresent
    THEN /\ channel' = Append(channel, SessionExpired)
         /\ subscriptionsPresent' = FALSE
    ELSE UNCHANGED <<channel, subscriptionsPresent>>

\* Mutant: replies that were awaited are awaited further.
ResendQueued == UNCHANGED request

\* Packets that wait to be written or answered are written to the new connection.
Resend == IF request = "none" THEN request' = "none" ELSE request' = "queued"

\* The broker has kept the session, or starts a new one.
Connect == /\ ~connected /\ connected' = TRUE
           /\ \E present \in BOOLEAN :
                 /\ present => granted # {}
                 /\ granted' = IF present THEN granted ELSE {}
                 /\ UpdateSessionState(present)
           /\ Resend
           /\ UNCHANGED <<drops, codes, loop, gui, received>>

Drop == /\ connected /\ drops < MaxDrops
        /\ connected' = FALSE /\ drops' = drops + 1
        /\ UNCHANGED <<granted, client, channel, loop, gui, received>>

SendSubscribe == /\ connected /\ request = "queued"
                 /\ request' = "sent"
                 /\ UNCHANGED <<connected, drops, granted, subscriptionsPresent, codes, channel, loop, gui, received>>

Broker == /\ connected /\ request = "sent"
          /\ codes' \in Grants
          /\ granted' = granted \cup codes'
          /\ request' = "answered"
          /\ UNCHANGED <<connected, drops, subscriptionsPresent, channel, loop, gui, received>>

\* A message of a subscribed topic is received.
Message == /\ connected /\ Len(channel) < MaxChannel
           /\ \E topic \in granted : channel' = Append(channel, topic)
           /\ UNCHANGED <<connected, drops, granted, client, loop, gui, received>>

-----------------------------------------------------------------------------
(* The coroutine *)

\* Mutant: subscriptions_present is never set.
CompletedSilently == UNCHANGED subscriptionsPresent

\* subscriptions_present is set when any topic was granted.
Completed == subscriptionsPresent' = (subscriptionsPresent \/ codes # {})

\* Mutant: a refused renewal is not reported.
StatusCallsOnce == <<1>>

\* What the coroutine queues for the GUI thread: an answer is a connection, a
\* refused renewal ends it.
StatusCalls == IF loop = "resubscribing" /\ ~Succeeds THEN <<1, 0>> ELSE <<1>>

\* SUBACK is received, subscribe returns and the coroutine goes on or ends.
SubAck == /\ connected /\ request = "answered"
          /\ request' = "none"
          /\ Completed
          /\ calls' = calls \o StatusCalls
          /\ loop' = IF Succeeds THEN "receiving" ELSE "ended"
          /\ received' = (received \/ Succeeds)
          /\ UNCHANGED <<connected, drops, granted, codes, channel, connectionStatus>>

\* async_receive returns a message, which is handled, or session_expired.
Receive == /\ loop = "receiving" /\ channel # <<>>
           /\ channel' = Tail(channel)
           /\ IF Head(channel) = SessionExpired
              THEN loop' = "resubscribing" /\ request' = "queued"
              ELSE UNCHANGED <<loop, request>>
           /\ UNCHANGED <<connected, drops, granted, subscriptionsPresent, codes, gui, received>>

\* setConnectionStatus, in the GUI thread.
SetConnectionStatus == /\ calls # <<>>
                       /\ connectionStatus' = Head(calls) /\ calls' = Tail(calls)
                       /\ UNCHANGED <<connected, drops, granted, client, channel, loop, received>>

Next == \/ Connect \/ Drop \/ SendSubscribe \/ Broker \/ Message
        \/ SubAck \/ Receive \/ SetConnectionStatus

Spec == Init /\ [][Next]_vars

\* The client keeps trying to connect, the broker answers, both threads run; the
\* connection is lost only finitely often (MaxDrops).
FairSpec == Spec /\ WF_vars(Connect) /\ WF_vars(SendSubscribe) /\ WF_vars(Broker)
                 /\ WF_vars(SubAck) /\ WF_vars(Receive) /\ WF_vars(SetConnectionStatus)

-----------------------------------------------------------------------------
LossReported == \E i \in DOMAIN channel : channel[i] = SessionExpired

\* Types; a lost session is reported once, until the host has subscribed again.
TypeOK == /\ connected \in BOOLEAN /\ drops \in 0 .. MaxDrops
          /\ granted \subseteq Topics /\ codes \subseteq Topics
          /\ subscriptionsPresent \in BOOLEAN
          /\ request \in {"none", "queued", "sent", "answered"}
          /\ channel \in Seq(Topics \cup {SessionExpired})
          /\ \A i, j \in DOMAIN channel : channel[i] = SessionExpired /\ channel[j] = SessionExpired => i = j
          /\ loop \in {"subscribing", "receiving", "resubscribing", "ended"}
          /\ calls \in Seq({0, 1}) /\ connectionStatus \in {0, 1, Unset}
          /\ received \in BOOLEAN

\* While the coroutine waits for messages on an open connection the broker sends
\* them, or the coroutine is about to hear that it must subscribe again: it never
\* waits for messages that cannot come.
ReceivingMeansSubscribed ==
    loop = "receiving" /\ connected => FirstTopic \in granted \/ LossReported

\* When the GUI thread has caught up, the status is 1 while the coroutine receives
\* and 0 when it has stopped receiving for good.  (One whose first subscription was
\* refused ends with status 1.)
StatusMatches == calls = <<>> => /\ loop = "receiving" => connectionStatus = 1
                                 /\ loop = "ended" /\ received => connectionStatus = 0

\* What the host is told of its session is so.
SessionAsShown == ReceivingMeansSubscribed /\ StatusMatches

Listening == loop = "receiving" /\ connected /\ FirstTopic \in granted /\ connectionStatus = 1

\* When the connection is no longer lost the host comes to receive, subscribed and
\* showing it, for good, unless the broker has refused it.
Recovers == <>[](Listening \/ loop = "ended")
=============================================================================
