------------------------------- MODULE Delivery -------------------------------
(***************************************************************************)
(* How Boost.MQTT5 delivers: the write queue (async_sender), the replies    *)
(* that are awaited (replies), the operations publish_send_op, subscribe_op *)
(* and unsubscribe_op of the program and publish_rec_op of the broker's     *)
(* messages, over connections that are lost and made again, with a broker   *)
(* that keeps or loses the session.                                         *)
(*                                                                         *)
(* All of it runs in one thread.  What a handler calls runs at once, inside *)
(* the same step; only what asio::post defers is a step of its own.  So the *)
(* client's state is one record, svc, and each function of the code maps a  *)
(* record to the next one.                                                  *)
(***************************************************************************)
EXTENDS Integers, Sequences, FiniteSets, SequencesExt, Selection

CONSTANTS Requests,     \* publications and subscriptions of the program
          Incoming,     \* messages of the broker
          Kinds,        \* the kinds the requests may have: a set of functions from
                        \* Requests to "qos0", "qos1", "qos2", "subscribe", "unsubscribe"
          Levels,       \* the same for the messages: "qos0", "qos1", "qos2"
          Then,         \* the request that the handler of another starts: Then[r],
                        \* or Nobody
          Nobody,
          Refused,      \* requests the broker answers with an error
          PacketIdsMax, \* the largest packet identifier, 65535
          SerialMod,    \* the serial numbers are modulo this, 2^32
          Serials,      \* the serial numbers a client may have come to
          Unlimited,    \* MAX_LIMIT
          ReceiveMaximums,   \* what CONNACK may bring as receive_maximum, or Unlimited
          MaxBreaks,    \* bound on the lost connections
          MaxFaults     \* bound on the lost sessions, cancelled requests and
                        \* cancellations of the client together

ASSUME DeliveryAssumption ==
       /\ Nobody \notin Requests \cup Incoming
       /\ Requests \cap Incoming = {} /\ Refused \subseteq Requests
       /\ Kinds \subseteq [Requests -> {"qos0", "qos1", "qos2", "subscribe", "unsubscribe"}]
       /\ Levels \subseteq [Incoming -> {"qos0", "qos1", "qos2"}]
       /\ Then \in [Requests -> Requests \cup {Nobody}]
       /\ PacketIdsMax \in 1 .. Unlimited /\ SerialMod \in Nat \ {0}
       /\ Serials \subseteq 0 .. SerialMod - 1
       /\ Unlimited \in Nat \ {0} /\ ReceiveMaximums \subseteq 1 .. Unlimited
       /\ MaxBreaks \in Nat /\ MaxFaults \in Nat

VARIABLES kind, level,   \* chosen at the start
          svc,           \* the client, see Client
          link,          \* "down", "up", or "closed" by cancel
          stale,         \* the write under way belongs to the connection before, and
                         \* will find out
          b2c,           \* packets on their way from the broker
          brk,           \* the broker, see NewBroker
          budget         \* how often the faults have happened
deliveryVars == <<kind, level, svc, link, stale, b2c, brk, budget>>

\* write_req: a packet, its serial number and its flags.
WriteReq(op, code, pid, serial) ==
    [op |-> op, code |-> code, pid |-> pid, serial |-> serial, throttled |-> FALSE]

Disconnect == WriteReq(Nobody, "DISCONNECT", 0, 0)

\* The members of client_service, async_sender and replies: the packets that wait
\* and those that are being written, whether a write is in progress, the limit and
\* what is left of it, the awaited replies, replies that came early, deferred
\* completions, free packet identifiers, serial numbers; per request its state and
\* its numbers; the messages put in the channel.  wire is what was written and is
\* still on its way.
Client ==
    [ queue |-> <<>>, batch |-> <<>>, writing |-> FALSE, wire |-> <<>>,
      maximum |-> Unlimited, limit |-> Unlimited, quota |-> Unlimited,
      handlers |-> <<>>, fast |-> <<>>, posted |-> <<>>,
      free |-> 1 .. PacketIdsMax, last |-> 0,
      status |-> [r \in Requests |-> "idle"], pid |-> [r \in Requests |-> 0],
      serial |-> [r \in Requests |-> 0], abandoned |-> {},
      stored |-> [m \in Incoming |-> 0], subscribed |-> FALSE, expired |-> FALSE,
      open |-> TRUE, shut |-> FALSE ]

\* The broker: whether it has a session, the identifiers of the QoS 2 messages it
\* took and has not released, how often it took a request and in which order, and
\* how far each of its messages is.
NewBroker ==
    [ session |-> FALSE, open |-> {}, taken |-> [r \in Requests |-> 0], order |-> <<>>,
      out |-> [m \in Incoming |-> "new"] ]

DeliveryInit ==
    /\ kind \in Kinds /\ level \in Levels
    /\ svc \in {[Client EXCEPT !.last = serial] : serial \in Serials}
    /\ link = "down" /\ stale = FALSE
    /\ b2c = <<>> /\ brk = NewBroker
    /\ budget = [breaks |-> 0, losses |-> 0, abandons |-> 0, cancels |-> 0,
                 cut |-> FALSE]

Faults == budget.losses + budget.abandons + budget.cancels

-----------------------------------------------------------------------------
(* async_sender *)

Prioritized(r) == r.code = "PUBREL"
Terminal(r) == r.code = "DISCONNECT"

\* Mutant: serial numbers are compared as they are.
PrecedesPlain(r1, r2) ==
    IF Prioritized(r1) # Prioritized(r2) THEN Prioritized(r1) ELSE r1.serial < r2.serial

\* write_req::operator<: serial numbers wrap around.
Precedes(r1, r2) ==
    IF Prioritized(r1) # Prioritized(r2) THEN Prioritized(r1)
    ELSE IF r1.serial < r2.serial THEN r2.serial - r1.serial < SerialMod \div 2
                                  ELSE r1.serial - r2.serial >= SerialMod \div 2

\* Behind all that r need not precede.
InsertInOrder(queue, r) ==
    InsertAt(queue, 1 + Max({0} \cup {i \in DOMAIN queue : ~Precedes(r, queue[i])}), r)

\* std::stable_sort.
Sorted(queue) == FoldLeft(InsertInOrder, <<>>, queue)

ThrottledUpTo(queue, i) == {j \in 1 .. i : queue[j].throttled}

\* Mutant: everything is written, whatever the broker can take.
ChosenAlways(s) == DOMAIN s.queue

\* What the next write takes from the queue: a terminal packet alone, otherwise
\* everything that is not throttled, and as much of the rest as the quota allows.
Chosen(s) ==
    LET terminal == {i \in DOMAIN s.queue : Terminal(s.queue[i])}
    IN  IF terminal # {} THEN {CHOOSE i \in terminal : \A j \in terminal : i <= j}
        ELSE {i \in DOMAIN s.queue :
                 \/ s.limit = Unlimited \/ ~s.queue[i].throttled
                 \/ Cardinality(ThrottledUpTo(s.queue, i)) <= s.quota}

\* Mutant: what is written stays in the queue.
DoWriteKeeping(s) ==
    LET chosen == Chosen(s)
        batch == At(s.queue, chosen)
        counted == IF s.limit = Unlimited \/ \E i \in DOMAIN batch : Terminal(batch[i])
                   THEN {} ELSE ThrottledUpTo(batch, Len(batch))
    IN  IF s.writing \/ chosen = {} THEN s
        ELSE [s EXCEPT !.writing = TRUE,
                       !.batch = batch,
                       !.quota = @ - Cardinality(counted),
                       !.fast = <<>>,
                       !.wire = @ \o [i \in DOMAIN batch |->
                                        [op |-> batch[i].op, code |-> batch[i].code,
                                         pid |-> batch[i].pid]]]

\* do_write.
DoWrite(s) ==
    LET chosen == Chosen(s)
        batch == At(s.queue, chosen)
        counted == IF s.limit = Unlimited \/ \E i \in DOMAIN batch : Terminal(batch[i])
                   THEN {} ELSE ThrottledUpTo(batch, Len(batch))
    IN  IF s.writing \/ chosen = {} THEN s
        ELSE [s EXCEPT !.writing = TRUE,
                       !.batch = batch,
                       !.queue = At(@, DOMAIN @ \ chosen),
                       !.quota = @ - Cardinality(counted),
                       !.fast = <<>>,
                       !.wire = @ \o [i \in DOMAIN batch |->
                                        [op |-> batch[i].op, code |-> batch[i].code,
                                         pid |-> batch[i].pid]]]

Send(s, r) == DoWrite([s EXCEPT !.queue = Append(@, r)])

ThrottledOpDone(s) ==
    IF s.limit = Unlimited THEN s ELSE DoWrite([s EXCEPT !.quota = @ + 1])

-----------------------------------------------------------------------------
(* The program's requests *)

\* next_serial_num.
NextSerial(s) == (s.last + 1) % SerialMod

Subscribing(r) == kind[r] \in {"subscribe", "unsubscribe"}

RequestPacket(s, r) ==
    [WriteReq(r, IF kind[r] = "subscribe" THEN "SUBSCRIBE"
                 ELSE IF kind[r] = "unsubscribe" THEN "UNSUBSCRIBE" ELSE "PUBLISH",
              s.pid[r], s.serial[r])
        EXCEPT !.throttled = kind[r] \in {"qos1", "qos2"}]

PubRel(s, r, throttled) ==
    [WriteReq(r, "PUBREL", s.pid[r], s.serial[r]) EXCEPT !.throttled = throttled]

\* perform: the smallest free packet identifier, none for QoS 0; subscriptions
\* have no serial number.
Start(s, r) ==
    LET pid == IF kind[r] = "qos0" THEN 0 ELSE CHOOSE p \in s.free : \A q \in s.free : p <= q
        started == [s EXCEPT !.status[r] = "sent", !.pid[r] = pid,
                             !.free = @ \ {pid},
                             !.last = IF Subscribing(r) THEN @ ELSE NextSerial(s),
                             !.serial[r] = IF Subscribing(r) THEN 0 ELSE NextSerial(s)]
    IN  IF kind[r] # "qos0" /\ s.free = {}
        THEN [s EXCEPT !.status[r] = "failed"]
        ELSE Send(started, RequestPacket(started, r))

\* Mutant: the identifier is not given back.
FinishKeepingId(s, r, status) == [s EXCEPT !.status[r] = status, !.pid[r] = 0]

\* complete: the identifier is free again, which for a throttled request makes
\* room for another one, and the program's handler runs, which may start another
\* request.
Finish(s, r, status) ==
    LET freed == [s EXCEPT !.status[r] = status, !.pid[r] = 0,
                           !.free = IF s.pid[r] = 0 THEN @ ELSE @ \cup {s.pid[r]}]
        granted == IF kind[r] = "subscribe" /\ status = "done"
                   THEN [freed EXCEPT !.subscribed = TRUE] ELSE freed
        roomy == IF kind[r] \in {"qos1", "qos2"} THEN ThrottledOpDone(granted) ELSE granted
    IN  IF Then[r] # Nobody /\ roomy.status[Then[r]] = "idle" /\ roomy.open
        THEN Start(roomy, Then[r]) ELSE roomy

\* resend_publish, resend_subscribe: not when the operation was cancelled.
Again(s, r) ==
    IF r \in s.abandoned THEN Finish(s, r, "aborted") ELSE Send(s, RequestPacket(s, r))

-----------------------------------------------------------------------------
(* replies *)

\* find_handler, find_fast_reply: the place of the first in the list for this reply.
Find(list, code, pid) ==
    LET Same(h) == h.code = code /\ h.pid = pid
    IN  SelectInSeq(list, Same)

Erase(list, i) == IF i = 0 THEN list ELSE RemoveAt(list, i)

\* async_wait_reply: another who waits for the same reply is aborted, a reply that
\* is there already is handed over later.
WaitReply(s, code, pid, op) ==
    LET twin == Find(s.handlers, code, pid)
        early == Find(s.fast, code, pid)
        Waiter(who, result) == [op |-> who, code |-> code, pid |-> pid, result |-> result]
        alone == [s EXCEPT !.handlers = Erase(@, twin),
                           !.posted = IF twin = 0 THEN @
                                      ELSE Append(@, Waiter(s.handlers[twin].op, "aborted"))]
    IN  IF early = 0
        THEN [alone EXCEPT !.handlers = Append(@, Waiter(op, "none"))]
        ELSE [alone EXCEPT !.fast = Erase(@, early),
                           !.posted = Append(@, Waiter(op, s.fast[early].result))]

Awaited(r) == CASE kind[r] = "qos1" -> "PUBACK"
                [] kind[r] = "qos2" -> "PUBREC"
                [] kind[r] = "subscribe" -> "SUBACK"
                [] kind[r] = "unsubscribe" -> "UNSUBACK"

\* channel_store.
Store(s, m) == IF s.open THEN [s EXCEPT !.stored[m] = @ + 1] ELSE s

\* A reply reaches the operation that awaits it: on_puback, on_pubrec, on_pubcomp,
\* on_suback, on_unsuback; on_pubrel for a message of the broker.
Replied(s, h) ==
    IF h.result = "aborted"
    THEN IF h.op \in Requests THEN Finish(s, h.op, "aborted") ELSE s
    ELSE CASE h.code = "PUBREL" -> Send(s, WriteReq(h.op, "PUBCOMP", h.pid, 0))
           [] h.code = "PUBREC" /\ h.result = "ok" -> Send(s, PubRel(s, h.op, FALSE))
           [] OTHER -> Finish(s, h.op, IF h.result = "ok" THEN "done" ELSE "failed")

\* replies::dispatch: nobody awaits it yet, or the one who does gets it.
Dispatch(s, p) ==
    LET found == Find(s.handlers, p.code, p.pid)
    IN  IF found = 0 THEN [s EXCEPT !.fast = Append(@, p)]
        ELSE Replied([s EXCEPT !.handlers = Erase(@, found)],
                     [s.handlers[found] EXCEPT !.result = p.result])

\* Mutant: a publication whose PUBREC came is sent from the start.
UnansweredFromTheStart(s, h) ==
    IF h.code = "PUBREL" THEN WaitReply(s, "PUBREL", h.pid, h.op) ELSE Again(s, h.op)

\* Who awaits a reply hears that there is a new connection, resend_unanswered.
Unanswered(s, h) ==
    CASE h.code = "PUBREL" -> WaitReply(s, "PUBREL", h.pid, h.op)
      [] h.code = "PUBCOMP" -> Send(s, PubRel(s, h.op, TRUE))
      [] OTHER -> Again(s, h.op)

\* So does who waits for a packet to be written.  An acknowledgment is given up:
\* the broker will send its message again.
Unwritten(s, r) ==
    CASE r.code \in {"PUBLISH", "SUBSCRIBE", "UNSUBSCRIBE"} -> Again(s, r.op)
      [] r.code = "PUBREL" -> Send(s, PubRel(s, r.op, TRUE))
      [] r.code = "PUBCOMP" -> WaitReply(s, "PUBREL", r.pid, r.op)
      [] OTHER -> s

\* Mutant: who awaits a reply is not told.
SenderResendForgetful(s) ==
    LET cleared == [s EXCEPT !.writing = TRUE, !.limit = s.maximum, !.quota = s.maximum,
                             !.queue = <<>>, !.handlers = <<>>]
        refilled == FoldLeft(Unwritten, cleared, s.queue)
    IN  IF s.writing THEN s
        ELSE DoWrite([refilled EXCEPT !.queue = Sorted(@), !.writing = FALSE])

\* Mutant: who awaits a reply is told, and awaits it still.
SenderResendTwice(s) ==
    LET cleared == [s EXCEPT !.writing = TRUE, !.limit = s.maximum, !.quota = s.maximum,
                             !.queue = <<>>]
        refilled == FoldLeft(Unwritten, FoldLeft(Unanswered, cleared, s.handlers), s.queue)
    IN  IF s.writing THEN s
        ELSE DoWrite([refilled EXCEPT !.queue = Sorted(@), !.writing = FALSE])

\* resend: the queue is filled with what awaited a reply and what was not written,
\* put in order and written.
SenderResend(s) ==
    LET cleared == [s EXCEPT !.writing = TRUE, !.limit = s.maximum, !.quota = s.maximum,
                             !.queue = <<>>, !.handlers = <<>>]
        refilled == FoldLeft(Unwritten, FoldLeft(Unanswered, cleared, s.handlers), s.queue)
    IN  IF s.writing THEN s
        ELSE DoWrite([refilled EXCEPT !.queue = Sorted(@), !.writing = FALSE])

-----------------------------------------------------------------------------
(* A write has ended *)

\* Mutant: a message of QoS 2 is not put in the channel.
WrittenUnstored(s, r) ==
    CASE r.code = "PUBLISH" /\ kind[r.op] = "qos0" -> Finish(s, r.op, "done")
      [] r.code \in {"PUBLISH", "SUBSCRIBE", "UNSUBSCRIBE"} /\ kind[r.op] # "qos0" ->
            WaitReply(s, Awaited(r.op), r.pid, r.op)
      [] r.code = "PUBREL" -> WaitReply(s, "PUBCOMP", r.pid, r.op)
      [] r.code = "PUBREC" -> WaitReply(s, "PUBREL", r.pid, r.op)
      [] r.code = "PUBACK" -> Store(s, r.op)
      [] OTHER -> s

\* The write's completion goes to the packets it took.
Written(s, r) ==
    CASE r.code = "PUBLISH" /\ kind[r.op] = "qos0" -> Finish(s, r.op, "done")
      [] r.code \in {"PUBLISH", "SUBSCRIBE", "UNSUBSCRIBE"} /\ kind[r.op] # "qos0" ->
            WaitReply(s, Awaited(r.op), r.pid, r.op)
      [] r.code = "PUBREL" -> WaitReply(s, "PUBCOMP", r.pid, r.op)
      [] r.code = "PUBREC" -> WaitReply(s, "PUBREL", r.pid, r.op)
      [] r.code \in {"PUBACK", "PUBCOMP"} -> Store(s, r.op)
      [] r.code = "DISCONNECT" -> [s EXCEPT !.shut = TRUE]

WriteDone ==
    /\ svc.writing /\ svc.open /\ ~stale
    /\ svc' = DoWrite(FoldLeft(Written, [svc EXCEPT !.writing = FALSE, !.batch = <<>>],
                               svc.batch))
    /\ UNCHANGED <<kind, level, link, stale, b2c, brk, budget>>

\* After cancel the write ends with an error, which its packets' operations get;
\* what is then in the queue is not written, unless one of them starts a write.
Aborted(s, r) == IF r.op \in Requests THEN Finish(s, r.op, "aborted") ELSE s

WriteAborted ==
    /\ svc.writing /\ ~svc.open
    /\ svc' = FoldLeft(Aborted, [svc EXCEPT !.writing = FALSE, !.batch = <<>>], svc.batch)
    /\ stale' = FALSE
    /\ UNCHANGED <<kind, level, link, b2c, brk, budget>>

\* A completion that asio::post has deferred.
RunPosted ==
    /\ svc.posted # <<>>
    /\ svc' = Replied([svc EXCEPT !.posted = Tail(@)], Head(svc.posted))
    /\ UNCHANGED <<kind, level, link, stale, b2c, brk, budget>>

-----------------------------------------------------------------------------
(* The program *)

Begin(r) ==
    /\ svc.open /\ svc.status[r] = "idle" /\ r \notin {Then[q] : q \in Requests}
    /\ svc' = Start(svc, r)
    /\ UNCHANGED <<kind, level, link, stale, b2c, brk, budget>>

\* A cancellation signal (total or partial) for one operation.
Abandon(r) ==
    /\ svc.open /\ svc.status[r] = "sent" /\ r \notin svc.abandoned
    /\ Faults < MaxFaults
    /\ svc' = [svc EXCEPT !.abandoned = @ \cup {r}]
    /\ budget' = [budget EXCEPT !.abandons = @ + 1]
    /\ UNCHANGED <<kind, level, link, stale, b2c, brk>>

\* client_service::cancel: everything that waits is aborted, later; a write that
\* is under way ends by itself.
Cancel ==
    /\ svc.open /\ Faults < MaxFaults
    /\ LET waiting == [i \in DOMAIN svc.handlers |-> [svc.handlers[i] EXCEPT !.result = "aborted"]]
           queued == [i \in DOMAIN svc.queue |->
                         [op |-> svc.queue[i].op, code |-> svc.queue[i].code,
                          pid |-> svc.queue[i].pid, result |-> "aborted"]]
       IN  svc' = [svc EXCEPT !.handlers = <<>>, !.queue = <<>>, !.wire = <<>>,
                              !.posted = @ \o waiting \o queued, !.open = FALSE]
    /\ link' = "closed" /\ b2c' = <<>>
    /\ budget' = [budget EXCEPT !.cancels = @ + 1]
    /\ UNCHANGED <<kind, level, stale, brk>>

-----------------------------------------------------------------------------
(* The connection *)

\* update_session_state: without a session nobody will release the broker's
\* messages, and the subscriptions are gone, which the program hears of.
UpdateSession(s, present) ==
    LET lasting == {i \in DOMAIN s.handlers : s.handlers[i].code # "PUBREL"}
    IN  IF present THEN s
        ELSE [s EXCEPT !.handlers = At(@, lasting),
                       !.expired = @ \/ s.subscribed, !.subscribed = FALSE]

\* Mutant: the write stays in progress.
RequeuedWriting(s) == [s EXCEPT !.batch = <<>>, !.queue = s.batch \o @]

Requeued(s) == [s EXCEPT !.writing = FALSE, !.batch = <<>>, !.queue = s.batch \o @]

\* The message the broker sends again when the session is resumed; there is one at
\* most, see BrokerSends.
Retransmitted ==
    LET unfinished == {m \in Incoming : brk.out[m] \in {"sent", "released"}}
        message == CHOOSE m \in unfinished : TRUE
    IN  IF unfinished = {} THEN <<>>
        ELSE <<[op |-> message, pid |-> 1, result |-> "ok",
                code |-> IF brk.out[message] = "sent" THEN "PUBLISH" ELSE "PUBREL"]>>

\* A connection is made (Connection.tla).  Reader and writer resume with
\* try_again: when the write in progress was the first to notice, or none is in
\* progress, everything is sent again at once; otherwise when the write notices.
\* (Connecting takes several turns of the executor: what was posted has run.)
Reconnect ==
    /\ link = "down" /\ ~stale /\ svc.posted = <<>>
    /\ link' = "up"
    /\ b2c' = Retransmitted
    /\ brk' = [brk EXCEPT !.session = TRUE]
    /\ \E maximum \in ReceiveMaximums :
          LET s == UpdateSession([svc EXCEPT !.maximum = maximum, !.wire = <<>>,
                                                  !.shut = FALSE],
                                      brk.session)
          IN  \/ svc' = SenderResend(Requeued(s)) /\ UNCHANGED stale
              \/ svc.writing /\ svc' = s /\ stale' = TRUE
    /\ UNCHANGED <<kind, level, budget>>

Rejoin ==
    /\ stale /\ svc.open
    /\ svc' = SenderResend(Requeued(svc)) /\ stale' = FALSE
    /\ UNCHANGED <<kind, level, link, b2c, brk, budget>>

\* Mutant: no reply is ever too late.
AnyExpiredNever == FALSE

\* any_expired: a reply did not come in 20 seconds.  Networks and brokers answer
\* faster than that, so it is a reply that was lost.
AnyExpired == svc.handlers # <<>> /\ svc.wire = <<>> /\ b2c = <<>>

\* Then the sentry disconnects, and the client connects again.
Sentry ==
    /\ link = "up" /\ ~svc.shut /\ AnyExpired
    /\ ~svc.writing /\ svc.posted = <<>>
    /\ svc' = Send(svc, Disconnect)
    /\ UNCHANGED <<kind, level, link, stale, b2c, brk, budget>>

-----------------------------------------------------------------------------
(* The broker *)

Answer(p, code) ==
    <<[op |-> p.op, code |-> code, pid |-> p.pid,
       result |-> IF p.op \in Refused THEN "refused" ELSE "ok"]>>

Took(b, p) ==
    [b EXCEPT !.taken[p.op] = @ + 1,
              !.order = IF b.taken[p.op] = 0 THEN Append(@, p.op) ELSE @]

\* What the broker becomes when it takes a packet.
Taking(b, p) ==
    CASE p.code = "PUBLISH" /\ kind[p.op] = "qos2" ->
            IF p.op \in Refused \/ p.pid \in b.open THEN b
            ELSE Took([b EXCEPT !.open = @ \cup {p.pid}], p)
      [] p.code = "PUBLISH" /\ kind[p.op] # "qos2" -> IF p.op \in Refused THEN b ELSE Took(b, p)
      [] p.code \in {"SUBSCRIBE", "UNSUBSCRIBE"} -> Took(b, p)
      [] p.code = "PUBREL" -> [b EXCEPT !.open = @ \ {p.pid}]
      [] p.code = "PUBREC" ->
            [b EXCEPT !.out[p.op] = IF @ = "sent" THEN "released" ELSE @]
      [] p.code \in {"PUBACK", "PUBCOMP"} ->
            [b EXCEPT !.out[p.op] = IF @ = "lost" THEN @ ELSE "done"]
      [] OTHER -> b

\* What it answers.
Answers(p) ==
    CASE p.code = "PUBLISH" /\ kind[p.op] = "qos1" -> Answer(p, "PUBACK")
      [] p.code = "PUBLISH" /\ kind[p.op] = "qos2" -> Answer(p, "PUBREC")
      [] p.code = "PUBREL" -> Answer(p, "PUBCOMP")
      [] p.code = "PUBREC" -> Answer(p, "PUBREL")
      [] p.code = "SUBSCRIBE" -> Answer(p, "SUBACK")
      [] p.code = "UNSUBSCRIBE" -> Answer(p, "UNSUBACK")
      [] OTHER -> <<>>

BrokerTakes ==
    /\ link = "up" /\ svc.wire # <<>>
    /\ LET p == Head(svc.wire)
       IN  brk' = Taking(brk, p) /\ b2c' = b2c \o Answers(p)
    /\ svc' = [svc EXCEPT !.wire = Tail(@)]
    /\ UNCHANGED <<kind, level, link, stale, budget>>

\* A message of the broker; one identifier, so one QoS 1 or 2 message at a time.
BrokerSends(m) ==
    /\ link = "up" /\ brk.out[m] = "new"
    /\ level[m] # "qos0" => \A n \in Incoming : brk.out[n] \notin {"sent", "released"}
    /\ b2c' = Append(b2c, [op |-> m, code |-> "PUBLISH", pid |-> 1, result |-> "ok"])
    /\ brk' = [brk EXCEPT !.out[m] = IF level[m] = "qos0" THEN "done" ELSE "sent"]
    /\ UNCHANGED <<kind, level, svc, link, stale, budget>>

\* publish_rec_op::perform.
OnPublish(s, m) ==
    IF level[m] = "qos0" THEN Store(s, m)
    ELSE Send(s, WriteReq(m, IF level[m] = "qos1" THEN "PUBACK" ELSE "PUBREC", 1, 0))

\* The client reads a packet.
Read ==
    /\ link = "up" /\ ~svc.shut /\ b2c # <<>>
    /\ svc' = IF Head(b2c).code = "PUBLISH" THEN OnPublish(svc, Head(b2c).op)
              ELSE Dispatch(svc, Head(b2c))
    /\ b2c' = Tail(b2c)
    /\ UNCHANGED <<kind, level, link, stale, brk, budget>>

\* The connection is lost, or shut down after a DISCONNECT.  Of what is on its way
\* to the broker some may still arrive; a write is cut short when part of it does.  (A
\* write to a TCP socket that all arrived of is reported as written.)
Break ==
    /\ link = "up" /\ (svc.shut \/ budget.breaks < MaxBreaks)
    /\ link' = "down" /\ b2c' = <<>>
    /\ \E arrived \in 0 .. Len(svc.wire) :
          LET left == Len(svc.wire) - arrived
              cut == svc.writing /\ ~stale /\ left < Len(svc.batch)
          IN  /\ svc.writing /\ ~stale => left > 0
              /\ brk' = FoldLeft(Taking, brk, SubSeq(svc.wire, 1, arrived))
              /\ budget' = [budget EXCEPT !.breaks = IF svc.shut THEN @ ELSE @ + 1,
                                          !.cut = @ \/ cut]
    /\ svc' = [svc EXCEPT !.wire = <<>>]
    /\ UNCHANGED <<kind, level, stale>>

\* The broker forgets the session.
LoseSession ==
    /\ link = "down" /\ brk.session /\ Faults < MaxFaults
    /\ budget' = [budget EXCEPT !.losses = @ + 1]
    /\ brk' = [brk EXCEPT !.session = FALSE, !.open = {},
                          !.out = [m \in Incoming |->
                                      IF @[m] \in {"sent", "released"} THEN "lost" ELSE @[m]]]
    /\ UNCHANGED <<kind, level, svc, link, stale, b2c>>

DeliveryNext ==
    \/ WriteDone \/ WriteAborted \/ RunPosted \/ Cancel
    \/ Reconnect \/ Rejoin \/ Sentry \/ BrokerTakes \/ Read \/ Break \/ LoseSession
    \/ \E r \in Requests : Begin(r) \/ Abandon(r)
    \/ \E m \in Incoming : BrokerSends(m)

DeliverySpec == DeliveryInit /\ [][DeliveryNext]_deliveryVars

-----------------------------------------------------------------------------
Sending == {r \in Requests : svc.status[r] = "sent"}

\* Types of what the steps compute; a write in progress has something to write, and
\* the quota is what the limit leaves.
DeliveryTypeOK ==
    /\ svc.limit \in 1 .. Unlimited /\ svc.quota \in Int
    /\ svc.writing <=> svc.batch # <<>>
    /\ svc.free \subseteq 1 .. PacketIdsMax
    /\ svc.last \in 0 .. SerialMod - 1
    /\ svc.status \in [Requests -> {"idle", "sent", "done", "failed", "aborted"}]
    /\ link \in {"down", "up", "closed"} /\ stale \in BOOLEAN

\* Packet identifiers are neither shared nor lost: those that are not free are
\* those of the requests under way, each its own.
IdsExact ==
    LET numbered == {r \in Sending : kind[r] # "qos0"}
    IN  /\ svc.free = 1 .. PacketIdsMax \ {svc.pid[r] : r \in numbered}
        /\ \A r, q \in numbered : r # q => svc.pid[r] # svc.pid[q]

\* Every request under way is at one place: in the queue, being written, awaiting
\* its reply, or about to be told; it is neither forgotten nor there twice.
Count(list, r) == Cardinality({i \in DOMAIN list : list[i].op = r})
Places(r) == Count(svc.queue, r) + Count(svc.batch, r) +
             Count(svc.handlers, r) + Count(svc.posted, r)
NothingForgotten == \A r \in Requests : Places(r) = IF r \in Sending THEN 1 ELSE 0

\* A request is aborted only when the program has asked for it.
AbortedOnRequest ==
    \A r \in Requests : svc.status[r] = "aborted" => ~svc.open \/ r \in svc.abandoned

\* What is reported as delivered was taken by the broker: once at QoS 2, while it
\* keeps the session.
SuccessMeansTaken ==
    \A r \in Requests :
       svc.status[r] = "done" /\ kind[r] # "qos0" =>
          /\ brk.taken[r] >= 1
          /\ kind[r] = "qos2" /\ budget.losses = 0 => brk.taken[r] = 1
TakenUnlessAbandoned == budget.abandons = 0 => SuccessMeansTaken

\* A publication of QoS 0 is taken once or not at all.  Not so when a write is cut short
\* after the broker has it all: publish_send_op sends it again.
QosZeroOnce == \A r \in Requests : kind[r] = "qos0" => brk.taken[r] <= 1

\* As long as no write is cut short it is.
AtMostOnce == ~budget.cut => QosZeroOnce

\* Publications of QoS 1 and 2 are taken for the first time in the order in which
\* they were started, however often they are sent again.  (One that was abandoned has left
\* its identifier to another: when the broker loses its session as well it may take the
\* other for the first time when that is sent again, behind younger ones.)
TakenInOrder ==
    budget.abandons = 0 \/ budget.losses = 0 =>
    \A i, j \in DOMAIN brk.order :
       LET r == brk.order[i]  q == brk.order[j]
       IN  i < j /\ {kind[r], kind[q]} \subseteq {"qos1", "qos2"} =>
             (svc.serial[q] - svc.serial[r]) % SerialMod \in 1 .. SerialMod \div 2

\* The broker never has more publications to acknowledge than it has asked for (but
\* that a cancelled one makes room at once).
InFlight == {r \in Sending :
                /\ kind[r] \in {"qos1", "qos2"}
                /\ \/ \E i \in DOMAIN svc.batch : svc.batch[i].op = r
                   \/ \E i \in DOMAIN svc.handlers : svc.handlers[i].op = r}
WithinQuota == link = "up" /\ ~stale /\ budget.abandons = 0 => Cardinality(InFlight) <= svc.limit

\* A message of QoS 1 or 2 that the broker has seen acknowledged does come to the
\* program.  Not so when the write of the acknowledgment is cut short after the broker has
\* it: publish_rec_op gives the message up, and the broker does not send it again.
AcknowledgedComes ==
    \A m \in Incoming :
       brk.out[m] = "done" /\ level[m] # "qos0" /\ svc.open =>
          \/ svc.stored[m] >= 1
          \/ \E i \in DOMAIN svc.batch : svc.batch[i].op = m

\* As long as no write is cut short it comes.
AcknowledgedArrives == ~budget.cut => AcknowledgedComes

\* A message of QoS 2 comes to the program once, while the broker keeps the session.
ReceivedOnce ==
    \A m \in Incoming : level[m] = "qos2" /\ budget.losses = 0 => svc.stored[m] <= 1

\* types.hpp:46-53 promises at most once with QoS 0, at least once with QoS 1 and exactly
\* once with QoS 2, and the code keeps none of it when connections are lost.  One run
\* shows it: one of the promises is kept.
SomePromiseOfDelivery == QosZeroOnce \/ AcknowledgedComes \/ ReceivedOnce

\* Every request under way is accounted for: its packet identifier, its one place, its
\* share of the broker's quota, and who asked for its end.
RequestsAccounted ==
    DeliveryTypeOK /\ IdsExact /\ NothingForgotten /\ WithinQuota /\ AbortedOnRequest

\* What either program is told of a message is true: what is reported as delivered was
\* taken, unless some request was cancelled; and as long as no write is cut short, nothing
\* of QoS 0 is taken twice, and what the broker takes for received comes.
DeliveredAsPromised == TakenUnlessAbandoned /\ AtMostOnce /\ AcknowledgedArrives

ClientStep == WriteDone \/ WriteAborted \/ RunPosted \/ Reconnect \/ Rejoin \/ Sentry
              \/ BrokerTakes \/ Read \/ (svc.shut /\ Break)
Busy == \/ svc.writing \/ svc.posted # <<>> \/ link = "down"  \/ stale
        \/ link = "up" /\ (AnyExpired \/ svc.wire # <<>> \/ b2c # <<>> \/ svc.shut)
DeliveryFairness == <>[]Busy => []<><<ClientStep>>_deliveryVars

\* Every request ends, however often the connection is lost and whatever reply came
\* too early to be heard; or the client is cancelled.  (None starts twice.)
EveryRequestEnds == <>[](Sending = {} \/ ~svc.open)

DeliveryFairSpec == DeliverySpec /\ DeliveryFairness
=============================================================================
