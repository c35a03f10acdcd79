------------------------------ MODULE Connection ------------------------------
(***************************************************************************)
(* How Boost.MQTT5 keeps a connection: the reader (read_message_op,         *)
(* assemble_op, read_op) and the writer (async_sender, write_op) that find  *)
(* it lost and make it again under a lock (reconnect_op, async_mutex,       *)
(* endpoints, connect_op), the PINGREQs, the sentry, the ways to disconnect *)
(* and to cancel.  What is written and read is left to Delivery.            *)
(*                                                                         *)
(* All of it runs in one thread; a handler runs to its end.  The client is  *)
(* one record, cn, and a function of the code maps a record to the next.    *)
(***************************************************************************)
EXTENDS Integers, Sequences, FiniteSets, SequencesExt

CONSTANTS ServerLists,    \* the lists of brokers looked at: of each the number of
                          \* endpoints its name resolves to
          Accepting,      \* the endpoints <<host, endpoint>> that accept
          Authenticates,  \* an authenticator is set
          MaxFailures,    \* bound on the failed attempts at an accepting endpoint
          MaxMishaps      \* bound on the lost connections, malformed packets and
                          \* replies that do not come, together

ASSUME ConnectionAssumption ==
       /\ ServerLists \subseteq Seq(Nat \ {0})
       /\ Accepting \subseteq (Nat \ {0}) \X (Nat \ {0})
       /\ Authenticates \in BOOLEAN
       /\ MaxFailures \in Nat /\ MaxMishaps \in Nat

VARIABLES cn,      \* the client, see NewClient
          mishaps  \* how often the bounded events have happened
connectionVars == <<cn, mishaps>>

Actor == {"reader", "writer"}
\* Where connect_op is: TCP, CONNECT and what is read after it, an AUTH packet to
\* answer, what is read then.
Connecting == {"tcp", "connack", "auth", "final"}

\* Where an actor is while it has the lock: granted but not yet run, between two
\* endpoints, in the pause between two rounds, resolving, connecting.
Holding == {"granted", "no host", "wrapped", "backoff", "resolving"} \cup Connecting

\* Disconnections that do not end the client: who asked for them.
Passing == {"malformed", "expired", "reauth"}

NewClient(servers) ==
    [ servers |-> servers, open |-> TRUE, stream |-> 0, link |-> "lost",
      locked |-> FALSE, waiting |-> <<>>,
      at |-> [reader |-> "io", writer |-> "idle"],
      saw |-> [a \in Actor |-> 0],          \* the stream an actor uses
      host |-> 0, endpoint |-> 0,           \* _current_host + 1, and eps
      queue |-> <<>>, batch |-> <<>>,
      ping |-> "timer", sentry |-> "timer", disconnect |-> "none",
      tried |-> {} ]    \* history: hosts since the last backoff of this actor, and 0 for it

ConnectionInit ==
    /\ cn \in {NewClient(servers) : servers \in ServerLists}
    /\ mishaps = [troubles |-> 0, failures |-> 0]

-----------------------------------------------------------------------------
(* async_sender, as far as the connection is concerned *)

IsDisconnect(packet) == packet \in Passing \cup {"terminal"}

\* do_write: a DISCONNECT is written alone and first.
StartWrite(s) ==
    LET disconnects == {i \in DOMAIN s.queue : IsDisconnect(s.queue[i])}
        first == CHOOSE i \in disconnects : \A j \in disconnects : i <= j
        writing == [s EXCEPT !.at["writer"] = "io", !.saw["writer"] = s.stream]
    IN  IF s.at["writer"] # "idle" \/ s.queue = <<>> THEN s
        ELSE IF disconnects = {} THEN [writing EXCEPT !.batch = s.queue, !.queue = <<>>]
        ELSE [writing EXCEPT !.batch = <<s.queue[first]>>, !.queue = RemoveAt(@, first)]

Enqueue(s, packet) == StartWrite([s EXCEPT !.queue = Append(@, packet)])

\* What the operations that wait for these packets do, when they are written and when
\* they are to be sent again: a ping waits for its timer, a disconnection that is only
\* passing is done, and the reader that asked for one reads on.  Each changes a field of
\* its own, so that their order says nothing.
Answered(s, packets) ==
    LET readsOn == "malformed" \in packets
    IN  [s EXCEPT !.ping = IF "ping" \in packets THEN "timer" ELSE @,
                  !.sentry = IF "expired" \in packets THEN "timer" ELSE @,
                  !.at["reader"] = IF readsOn THEN "io" ELSE @,
                  !.saw["reader"] = IF readsOn THEN s.stream ELSE @]

\* resend; update_session_state has stopped the ping timer, which starts again.  Only
\* the terminal DISCONNECT is written anew, and the program asks for one once.
ResendPackets(s) ==
    LET packets == Range(s.queue)
        again == IF "terminal" \in packets THEN <<"terminal">> ELSE <<>>
    IN  IF s.at["writer"] # "idle" THEN s
        ELSE StartWrite([Answered(s, packets) EXCEPT !.queue = again])

-----------------------------------------------------------------------------
(* The lock, and what ends a reconnection *)

\* async_mutex::lock.
Lock(s, a) ==
    IF s.locked THEN [s EXCEPT !.waiting = Append(@, a), !.at[a] = "waiting"]
    ELSE [s EXCEPT !.locked = TRUE, !.at[a] = "granted"]

\* Mutant: the lock is freed, and the next who waits is not told.
UnlockAlone(s) == [s EXCEPT !.locked = FALSE]

\* async_mutex::unlock: to the next who waits.
Unlock(s) ==
    IF s.waiting = <<>> THEN [s EXCEPT !.locked = FALSE]
    ELSE [s EXCEPT !.at[Head(s.waiting)] = "granted", !.waiting = Tail(@)]

\* client_service::cancel.
CancelClient(s) ==
    IF ~s.open THEN s
    ELSE [s EXCEPT !.open = FALSE, !.link = "lost", !.queue = <<>>, !.waiting = <<>>,
                   !.at = [a \in Actor |-> IF @[a] = "waiting" THEN "refused" ELSE @[a]]]

\* Mutant: what was being written counts as being written further on.
WriterHearsKeeping(s, ec) ==
    LET idle == [s EXCEPT !.at["writer"] = "idle"]
    IN  CASE ec = "try_again" -> ResendPackets([idle EXCEPT !.queue = s.batch \o @])
          [] ec = "no_recovery" -> CancelClient(idle)
          [] OTHER -> idle

\* A write or a read comes to its end.
WriterHears(s, ec) ==
    LET idle == [s EXCEPT !.at["writer"] = "idle", !.batch = <<>>]
    IN  CASE ec = "try_again" -> ResendPackets([idle EXCEPT !.queue = s.batch \o @])
          [] ec = "no_recovery" -> CancelClient(idle)
          [] OTHER -> idle

ReaderHears(s, ec) ==
    CASE ec = "try_again" ->
            ResendPackets([s EXCEPT !.at["reader"] = "io", !.saw["reader"] = s.stream])
      [] ec = "no_recovery" -> CancelClient([s EXCEPT !.at["reader"] = "ended"])
      [] OTHER -> [s EXCEPT !.at["reader"] = "ended"]

\* Mutant: an aborted reconnection is tried again, though the client is cancelled.
OnReconnectAlways(s, a, ec) ==
    LET heard == IF ec \in {"none", "aborted"} THEN "try_again" ELSE ec
    IN  IF a = "reader" THEN ReaderHears(s, heard) ELSE WriterHears(s, heard)

\* on_reconnect of read_op and write_op.
OnReconnect(s, a, ec) ==
    LET heard == IF ec = "none" \/ (ec = "aborted" /\ s.open) THEN "try_again" ELSE ec
    IN  IF a = "reader" THEN ReaderHears(s, heard) ELSE WriterHears(s, heard)

Complete(s, a, ec) == OnReconnect(Unlock(s), a, ec)

-----------------------------------------------------------------------------
(* reconnect_op and endpoints *)

\* Mutant: the last host of the list is left out.
NextHostShort(s, a) ==
    IF s.servers = <<>> THEN [s EXCEPT !.at[a] = "no host"]
    ELSE IF s.host + 1 >= Len(s.servers) THEN [s EXCEPT !.at[a] = "wrapped", !.host = 0]
    ELSE [s EXCEPT !.at[a] = "resolving", !.host = @ + 1, !.tried = @ \cup {s.host + 1}]

\* resolve_op::perform.
NextHost(s, a) ==
    IF s.servers = <<>> THEN [s EXCEPT !.at[a] = "no host"]
    ELSE IF s.host + 1 > Len(s.servers) THEN [s EXCEPT !.at[a] = "wrapped", !.host = 0]
    ELSE [s EXCEPT !.at[a] = "resolving", !.host = @ + 1, !.tried = @ \cup {s.host + 1}]

\* Mutant: who gets the lock connects, though another has done so.
LockedHasty(s, a) ==
    IF ~s.open THEN Complete(s, a, "aborted") ELSE NextHost([s EXCEPT !.tried = {}], a)

Locked(s, a) ==
    IF ~s.open THEN Complete(s, a, "aborted")
    ELSE IF s.saw[a] # s.stream THEN Complete(s, a, "try_again")
    ELSE NextHost([s EXCEPT !.tried = {}], a)

OnLocked(a) ==
    /\ cn.at[a] = "granted"
    /\ cn' = Locked(cn, a) /\ UNCHANGED mishaps

\* The lock was not got: cancel.
OnRefused(a) ==
    /\ cn.at[a] = "refused"
    /\ cn' = OnReconnect(cn, a, "aborted") /\ UNCHANGED mishaps

OnNoHost(a) ==
    /\ cn.at[a] = "no host"
    /\ cn' = Complete(cn, a, IF cn.open THEN "no_recovery" ELSE "aborted")
    /\ UNCHANGED mishaps

\* After the last host: a pause, then the first one again.
OnWrapped(a) ==
    /\ cn.at[a] = "wrapped"
    /\ cn' = IF cn.open THEN [cn EXCEPT !.at[a] = "backoff"] ELSE Complete(cn, a, "aborted")
    /\ UNCHANGED mishaps

OnBackoff(a) ==
    /\ cn.at[a] = "backoff"
    /\ cn' = IF cn.open THEN NextHost([cn EXCEPT !.tried = {0}], a) ELSE Complete(cn, a, "aborted")
    /\ UNCHANGED mishaps

Here == <<cn.host, cn.endpoint>>

Fails(accepting) ==
    IF accepting THEN /\ mishaps.failures < MaxFailures
                      /\ mishaps' = [mishaps EXCEPT !.failures = @ + 1]
    ELSE UNCHANGED mishaps

\* on_resolve: the endpoints of the host, or on to the next host.
OnResolve(a) ==
    /\ cn.at[a] = "resolving"
    /\ \/ ~cn.open /\ cn' = Complete(cn, a, "aborted") /\ UNCHANGED mishaps
       \/ cn.open /\ cn' = [cn EXCEPT !.at[a] = "tcp", !.endpoint = 1] /\ UNCHANGED mishaps
       \/ /\ cn.open /\ Fails(\E e \in Accepting : e[1] = cn.host)
          /\ cn' = NextHost(cn, a)

\* connect_op: TCP, CONNECT, then CONNACK, after an AUTH packet if the client
\* authenticates and the broker challenges it (here once).
Proceeds(a) ==
    /\ cn.open /\ Here \in Accepting
    /\ \/ cn.at[a] = "tcp" /\ cn' = [cn EXCEPT !.at[a] = "connack"]
       \/ cn.at[a] = "connack" /\ Authenticates /\ cn' = [cn EXCEPT !.at[a] = "auth"]
       \/ cn.at[a] = "auth" /\ cn' = [cn EXCEPT !.at[a] = "final"]
    /\ mishaps' = mishaps

\* A failure of any of its steps, a refusal, or five seconds without an end: the
\* next endpoint of the host, or the next host.
Gives(a) ==
    /\ cn.open /\ cn.at[a] \in Connecting
    /\ Fails(Here \in Accepting)
    /\ cn' = IF cn.endpoint < cn.servers[cn.host]
             THEN [cn EXCEPT !.at[a] = "tcp", !.endpoint = @ + 1]
             ELSE NextHost(cn, a)

\* Mutant: a connection that is made after cancel opens the client again.
ConnectedAnyway(s, a) == Complete([s EXCEPT !.stream = @ + 1, !.link = "up", !.open = TRUE], a, "none")

\* on_connect: the new stream replaces the old one, which is closed.
Connected(s, a) ==
    IF s.open THEN Complete([s EXCEPT !.stream = @ + 1, !.link = "up"], a, "none")
    ELSE Complete(s, a, "aborted")

OnConnect(a) ==
    /\ \/ cn.at[a] \in Connecting /\ ~cn.open
       \/ cn.at[a] \in {"connack", "final"} /\ cn.open /\ Here \in Accepting
    /\ cn' = Connected(cn, a) /\ UNCHANGED mishaps

-----------------------------------------------------------------------------
(* Reading and writing *)

Uses(a) == cn.at[a] = "io" /\ cn.saw[a] = cn.stream

\* on_read, on_write with an error: the stream was lost, shut down or replaced.
IoFails(a) ==
    /\ cn.at[a] = "io"
    /\ ~cn.open \/ cn.saw[a] # cn.stream \/ cn.link # "up"
    /\ cn' = IF ~cn.open THEN OnReconnect(cn, a, "aborted") ELSE Lock(cn, a)
    /\ UNCHANGED mishaps

\* Nothing was read in one and a half times the keep-alive time, or the connection
\* is lost.
Lose == /\ cn.link = "up" /\ mishaps.troubles < MaxMishaps
        /\ cn' = [cn EXCEPT !.link = "lost"]
        /\ mishaps' = [mishaps EXCEPT !.troubles = @ + 1]

\* A read or write fails with another error than those of should_reconnect.
Unrecoverable(a) ==
    /\ Uses(a) /\ cn.open /\ cn.link = "up" /\ mishaps.troubles < MaxMishaps
    /\ cn' = IF a = "reader" THEN ReaderHears(cn, "no_recovery") ELSE WriterHears(cn, "no_recovery")
    /\ mishaps' = [mishaps EXCEPT !.troubles = @ + 1]

\* A packet that cannot be understood: the reader disconnects, and reads on when
\* that is done.
Malformed ==
    /\ Uses("reader") /\ cn.open /\ cn.link = "up" /\ mishaps.troubles < MaxMishaps
    /\ cn' = Enqueue([cn EXCEPT !.at["reader"] = "disconnecting"], "malformed")
    /\ mishaps' = [mishaps EXCEPT !.troubles = @ + 1]

\* re_auth_op disconnects when an AUTH packet is not what it should be, and nobody
\* waits for that.
AuthFails ==
    /\ Uses("reader") /\ cn.open /\ cn.link = "up" /\ mishaps.troubles < MaxMishaps
    /\ cn' = Enqueue(cn, "reauth")
    /\ mishaps' = [mishaps EXCEPT !.troubles = @ + 1]

\* The broker disconnects: shutdown, and the reader reads on.
BrokerDisconnects ==
    /\ Uses("reader") /\ cn.open /\ cn.link = "up" /\ mishaps.troubles < MaxMishaps
    /\ cn' = [cn EXCEPT !.link = "shut"]
    /\ mishaps' = [mishaps EXCEPT !.troubles = @ + 1]

ShutDown(s) == [s EXCEPT !.link = IF @ = "up" THEN "shut" ELSE @]

\* Mutant: after a malformed packet the reader does not read on.
DeliveredHasty(s, packets) ==
    LET heard == Answered(s, packets \ {"malformed"})
        closed == IF \E p \in packets : IsDisconnect(p) THEN ShutDown(heard) ELSE heard
    IN  IF "terminal" \in packets THEN CancelClient(closed) ELSE closed

\* Packets are written: their operations go on.  After a DISCONNECT the socket is shut
\* down; the terminal one cancels the client.
Delivered(s, packets) ==
    LET heard == Answered(s, packets)
        closed == IF \E p \in packets : IsDisconnect(p) THEN ShutDown(heard) ELSE heard
    IN  IF "terminal" \in packets THEN CancelClient(closed) ELSE closed

\* A write ends well.
WriteEnds ==
    /\ Uses("writer") /\ cn.open /\ cn.link = "up"
    /\ cn' = StartWrite(Delivered([cn EXCEPT !.at["writer"] = "idle", !.batch = <<>>],
                                 Range(cn.batch)))
    /\ UNCHANGED mishaps

-----------------------------------------------------------------------------
(* Pings, the sentry, and the program *)

Waits(packet) == \E i \in DOMAIN cn.batch : cn.batch[i] = packet

\* The timer of ping_op: a PINGREQ, or the end.
PingTimer ==
    /\ cn.ping = "timer" /\ cn.open
    /\ cn' = Enqueue([cn EXCEPT !.ping = "sending"], "ping") /\ UNCHANGED mishaps
PingEnds ==
    /\ cn.ping # "ended" /\ ~cn.open /\ ~Waits("ping")
    /\ cn' = [cn EXCEPT !.ping = "ended"] /\ UNCHANGED mishaps

\* sentry_op: a reply that has not come in 20 seconds.
SentryTimer ==
    /\ cn.sentry = "timer" /\ cn.open /\ mishaps.troubles < MaxMishaps
    /\ cn' = Enqueue([cn EXCEPT !.sentry = "sending"], "expired")
    /\ mishaps' = [mishaps EXCEPT !.troubles = @ + 1]
SentryEnds ==
    /\ cn.sentry # "ended" /\ ~cn.open /\ ~Waits("expired")
    /\ cn' = [cn EXCEPT !.sentry = "ended"] /\ UNCHANGED mishaps

\* read_message_op ends too when its DISCONNECT is aborted.
ReaderEnds ==
    /\ cn.at["reader"] = "disconnecting" /\ ~cn.open /\ ~Waits("malformed")
    /\ cn' = [cn EXCEPT !.at["reader"] = "ended"] /\ UNCHANGED mishaps

\* async_disconnect: a DISCONNECT, and after five seconds the end all the same.
AsyncDisconnect ==
    /\ cn.open /\ cn.disconnect = "none"
    /\ cn' = Enqueue([cn EXCEPT !.disconnect = "asked"], "terminal") /\ UNCHANGED mishaps

\* Mutant: the five seconds are not measured.
DisconnectTimerNever == FALSE /\ UNCHANGED connectionVars

DisconnectTimer ==
    /\ cn.open /\ cn.disconnect = "asked"
    /\ cn' = CancelClient(cn) /\ UNCHANGED mishaps

Cancelled ==
    /\ cn.open /\ cn' = CancelClient(cn) /\ UNCHANGED mishaps

Progress(a) == \/ OnLocked(a) \/ OnRefused(a) \/ OnNoHost(a) \/ OnWrapped(a) \/ OnBackoff(a)
               \/ OnResolve(a) \/ Proceeds(a) \/ Gives(a) \/ OnConnect(a) \/ IoFails(a)

ConnectionNext ==
    \/ \E a \in Actor : Progress(a) \/ Unrecoverable(a)
    \/ Lose \/ Malformed \/ AuthFails \/ BrokerDisconnects \/ WriteEnds
    \/ PingTimer \/ PingEnds \/ SentryTimer \/ SentryEnds \/ ReaderEnds
    \/ AsyncDisconnect \/ DisconnectTimer \/ Cancelled

ConnectionSpec == ConnectionInit /\ [][ConnectionNext]_connectionVars

\* Timers fire, the network answers, connects or fails, and a write ends.
ConnectionFairSpec ==
    /\ ConnectionSpec
    /\ \A a \in Actor : WF_connectionVars(Progress(a))
    /\ WF_connectionVars(WriteEnds) /\ WF_connectionVars(DisconnectTimer)
    /\ WF_connectionVars(PingEnds) /\ WF_connectionVars(SentryEnds) /\ WF_connectionVars(ReaderEnds)

-----------------------------------------------------------------------------
\* Types; the writer works when it has something to write.
ConnectionTypeOK ==
    /\ cn.open \in BOOLEAN /\ cn.stream \in Nat /\ cn.link \in {"up", "shut", "lost"}
    /\ cn.at["reader"] \in Holding \cup {"io", "waiting", "refused", "disconnecting", "ended"}
    /\ cn.at["writer"] \in Holding \cup {"io", "waiting", "refused", "idle"}
    /\ cn.at["writer"] = "idle" <=> cn.batch = <<>>
    /\ cn.host \in 0 .. Len(cn.servers)

\* The lock is taken when one of the two reconnects, by that one alone, and the
\* other waits only while it is taken: nobody waits for a lock that is free.
LockExact ==
    /\ cn.locked <=> \E a \in Actor : cn.at[a] \in Holding
    /\ \A a, b \in Actor : a # b => ~(cn.at[a] \in Holding /\ cn.at[b] \in Holding)
    /\ cn.waiting # <<>> => cn.locked
    /\ \A a \in Actor : cn.at[a] = "waiting" <=> \E i \in DOMAIN cn.waiting : cn.waiting[i] = a

\* Nobody connects anew over a connection that is up: the second who found the old
\* one lost takes what the first has made.
LiveConnectionKept ==
    cn.link = "up" => \A a \in Actor : cn.at[a] \notin Holding \ {"granted"}

\* Between two pauses every broker of the list has been tried.
EveryHostTried ==
    \A a \in Actor : cn.at[a] = "backoff" /\ 0 \in cn.tried => DOMAIN cn.servers \subseteq cn.tried

\* Reconnection is orderly: one connects at a time, with the lock, only when there is
\* no connection, and goes through all brokers before it pauses.
OrderlyReconnection == ConnectionTypeOK /\ LockExact /\ LiveConnectionKept /\ EveryHostTried

\* A cancelled client does not come to life again: no stream is put in place, no
\* packet is written.
StaysCancelled == ~cn.open => ~cn'.open /\ cn'.stream = cn.stream /\ cn'.link # "up"

\* async_run ends once the client is cancelled: the reader, the pings and the sentry
\* all end, and the lock is free.
Ended == cn.at["reader"] = "ended" /\ cn.ping = "ended" /\ cn.sentry = "ended" /\ ~cn.locked
RunEnds == <>[](cn.open \/ Ended)

\* async_disconnect ends the client, whether a broker can be reached or not.
DisconnectEnds == <>[](cn.disconnect = "asked" => Ended)

\* When the connection is no longer lost, it is up and read from, if a broker accepts;
\* a client without a broker is cancelled.
Reads == cn.link = "up" /\ Uses("reader")
Reachable == \E e \in Accepting : e[1] \in DOMAIN cn.servers /\ e[2] <= cn.servers[e[1]]
StaysConnected == Reachable \/ cn.servers = <<>> => <>[](Reads \/ ~cn.open)
=============================================================================
