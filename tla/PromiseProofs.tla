----------------------------- MODULE PromiseProofs -----------------------------
(***************************************************************************)
(* What the program and the broker are told of a message is true: for any   *)
(* requests, messages, brokers and limits, any number of lost connections   *)
(* and sessions, and whatever is cancelled and when.                        *)
(*                                                                         *)
(* This relates the client to the broker and to what is on its way between  *)
(* them.  While a function of the code runs neither changes, so what they   *)
(* mean for the requests is a parameter there, K: of whom success may be    *)
(* said, who must not be sent any more, who must not end.                   *)
(***************************************************************************)
EXTENDS DeliveryProofs

-----------------------------------------------------------------------------
(* What is known while a function of the code runs *)

\* The requests that the broker took.
Has(b) == {r \in Requests : b.taken[r] # 0}

\* What is known of the requests, and does not change while a function runs: of whom success
\* may be said; publications of QoS 2 that the broker took and was asked to release; those
\* it has not released, which must not end; and publications of QoS 0 that it took, which
\* must not be sent.
Known(s, b, u) ==
    [ sure  |-> IF u.abandons = 0 THEN Has(b) ELSE Requests,
      late  |-> IF u.abandons = 0 /\ u.losses = 0 /\ s.open
                THEN {r \in Has(b) : kind[r] = "qos2" /\ s.pid[r] \notin b.open} ELSE {},
      held  |-> IF u.abandons = 0 /\ s.open
                THEN {r \in Requests : kind[r] = "qos2" /\ Sent(s, r) /\ s.pid[r] \in b.open}
                ELSE {},
      spent |-> IF ~ u.cut /\ s.open THEN {r \in Has(b) : kind[r] = "qos0"} ELSE {} ]

Apt(K) ==
    /\ K.sure \subseteq Requests /\ K.late \subseteq Requests
    /\ K.held \subseteq Requests /\ K.spent \subseteq Requests
    /\ \A r \in K.late \cup K.held : kind[r] = "qos2"
    /\ \A r \in K.spent : kind[r] = "qos0"

\* The second half of a publication of QoS 2.
Second(x) == x.code \in {"PUBREL", "PUBCOMP"}

\* A packet, or who awaits a reply: the second half comes when the broker has the message,
\* and the first half does not come any more when it was released.
Proper(x, K) ==
    x.op \in Requests => /\ Second(x) => x.op \in K.sure
                         /\ x.op \in K.late => Second(x)
Unsent(K) == {x \in WriteReqs : Proper(x, K) /\ x.op \notin K.spent}
Writable(K) == {x \in WriteReqs : Proper(x, K)}
Hopeful(K) == {h \in Waiters : Proper(h, K)}

\* A reply about to be told: success is true, and none but the PUBREC comes to a publication
\* that the broker has not released.
Truthful(h, K) ==
    h.op \in Requests /\ h.result # "aborted" =>
        /\ h.result = "ok" => h.op \in K.sure
        /\ h.op \in K.held => h.code = "PUBREC" /\ h.result = "ok"
Tellable(K) == {h \in Posts : Truthful(h, K)}

Good(s, K) ==
    /\ s.queue \in Seq(Unsent(K)) /\ s.batch \in Seq(Writable(K))
    /\ s.handlers \in Seq(Hopeful(K)) /\ s.posted \in Seq(Tellable(K))
    /\ \A r \in Requests : s.status[r] = "done" /\ kind[r] # "qos0" => r \in K.sure
    /\ \A r \in K.late \cup K.held \cup K.spent : s.status[r] # "idle"
    /\ \A r \in K.held : Sent(s, r)
    /\ K.held # {} => s.open /\ s.abandoned = {}

-----------------------------------------------------------------------------
(* What a function of the code does *)

Packet(x) == [op |-> x.op, code |-> x.code, pid |-> x.pid]
Packets(l) == [i \in DOMAIN l |-> Packet(l[i])]

\* Replies that came early are at most forgotten, unless a write begins.
Advances(s, t) ==
    \/ /\ t.writing = s.writing /\ t.batch = s.batch /\ t.wire = s.wire
       /\ \A r \in Requests : Count(t.fast, r) <= Count(s.fast, r)
       /\ ToSet(t.fast) \subseteq ToSet(s.fast)
    \/ /\ ~ s.writing /\ t.writing
       /\ t.wire = s.wire \o Packets(t.batch) /\ t.fast = <<>>

\* Who has begun goes on with its numbers, who has ended has ended, who awaits a reply awaits
\* it still, and what was stored is.
Goes(s, t) ==
    /\ Advances(s, t)
    /\ \A r \in Requests : s.status[r] # "idle" =>
          /\ t.status[r] # "idle" /\ t.serial[r] = s.serial[r]
          /\ ~ Sent(s, r) => t.status[r] = s.status[r]
          /\ Sent(t, r) => t.pid[r] = s.pid[r]
    /\ \A i \in DOMAIN s.handlers : s.handlers[i].op \in Requests =>
          \E j \in DOMAIN t.handlers : t.handlers[j] = s.handlers[i]
    /\ \A m \in Incoming : s.stored[m] <= t.stored[m]

\* A write that begins takes packets that may be sent.
Fresh(s, t, K) == ~ s.writing /\ t.writing => t.batch \in Seq(Unsent(K))

Moves(s, t, K) == t \in Clients /\ Good(t, K) /\ Goes(s, t) /\ Fresh(s, t, K)

\* The same of the requests and of what was stored alone.
Lasts(s, t) ==
    /\ \A r \in Requests : s.status[r] # "idle" =>
          /\ t.status[r] # "idle" /\ t.serial[r] = s.serial[r]
          /\ ~ Sent(s, r) => t.status[r] = s.status[r]
          /\ Sent(t, r) => t.pid[r] = s.pid[r]
    /\ \A m \in Incoming : s.stored[m] <= t.stored[m]

-----------------------------------------------------------------------------
(* The invariants *)

\* What is on its way between the client and the broker.
Wires == {y \in [op : Anyone, code : PacketCodes, pid : Nat] :
             /\ y.op \in Requests => \/ y.code = BeginsWith(y.op)
                                     \/ y.code = "PUBREL" /\ kind[y.op] = "qos2"
             /\ y.op \in Incoming => y.code \in {"PUBACK", "PUBREC", "PUBCOMP"}
             /\ y.op = Nobody => y.code = "DISCONNECT"}
Flying(s, w, c, r) == Count(w, r) + Count(c, r) + IF s.writing THEN Count(s.fast, r) ELSE 0
Carries(s, r) == \/ \E i \in DOMAIN s.batch : s.batch[i].op = r
                 \/ \E i \in DOMAIN s.handlers : s.handlers[i].op = r

\* A reply is for the one who awaits it.
Apposite(s, p, K) ==
    p.op \in Requests =>
      /\ kind[p.op] # "qos0" /\ p.pid = s.pid[p.op]
      /\ p.code \in {"PUBACK", "PUBREC", "PUBCOMP", "SUBACK", "UNSUBACK"}
      /\ p.result = "ok" => p.op \in K.sure
      /\ p.op \in K.held => p.code = "PUBREC" /\ p.result = "ok"
Foreign(p) == p.op \notin Requests => p.op \in Incoming /\ p.code \in {"PUBLISH", "PUBREL"}

\* The second half of a publication is on its way for who is at it.
Paired(s, w) ==
    \A i \in DOMAIN w : w[i].code = "PUBREL" =>
        /\ \A j \in DOMAIN s.batch : s.batch[j].op = w[i].op => s.batch[j].code = "PUBREL"
        /\ \A j \in DOMAIN s.handlers : s.handlers[j].op = w[i].op => s.handlers[j].code = "PUBCOMP"

\* Of every request one packet or reply is on its way, at most, as long as it is written or
\* awaits the reply.
Fares(s, w, c, b, K) ==
    /\ \A r \in Requests : kind[r] # "qos0" =>
          /\ Flying(s, w, c, r) <= 1
          /\ Flying(s, w, c, r) # 0 => Carries(s, r)
    /\ \A i \in DOMAIN w : w[i].op \in Requests /\ kind[w[i].op] # "qos0" =>
          w[i].pid = s.pid[w[i].op] /\ Proper(w[i], K)
    /\ Paired(s, w)
    /\ \A i \in DOMAIN c : Foreign(c[i]) /\ Apposite(s, c[i], K)
    /\ s.writing => \A i \in DOMAIN s.fast : Foreign(s.fast[i]) /\ Apposite(s, s.fast[i], K)
    /\ \A p \in b.open : \E r \in K.held : s.pid[r] = p
    /\ K.held \cap Refused = {} /\ K.held \subseteq Has(b)

\* Taken in one session, a publication of QoS 2 is taken once.
TakenOnce(b, u) ==
    u.abandons = 0 /\ u.losses = 0 => \A r \in Requests : kind[r] = "qos2" => b.taken[r] <= 1

Brokers == [ session : BOOLEAN, open : SUBSET Nat, taken : [Requests -> Nat],
             order : Seq(Requests),
             out : [Incoming -> {"new", "sent", "released", "done", "lost"}] ]
Budgets == [ breaks : Nat, losses : Nat, abandons : Nat, cancels : Nat, cut : BOOLEAN ]

\* What was written last is at the end of what is on its way.
Older(s, w) == Len(w) - Len(s.batch)
Tailed(s, w) ==
    \A j \in DOMAIN s.batch : j + Older(s, w) \in DOMAIN w => w[j + Older(s, w)] = Packet(s.batch[j])

Ack(x) == x.code \in {"PUBACK", "PUBCOMP"}
Once(x) == x.op \in Requests /\ kind[x.op] = "qos0"

\* What the broker has taken of the write that is under way, on a connection that is there.
Arrived(s, w, up) == {i \in DOMAIN s.batch : up /\ i + Older(s, w) <= 0}

\* A publication of QoS 0 is on its way once, to be taken for the first time; an
\* acknowledgment that was written is of a message that was stored.
Trails(s, w, b, up) ==
    /\ \A i \in DOMAIN w : Once(w[i]) =>
          /\ b.taken[w[i].op] = 0 /\ s.status[w[i].op] # "idle"
          /\ \A j \in DOMAIN w : w[j].op = w[i].op => i = j
          /\ i <= Older(s, w) => ~ Sent(s, w[i].op)
    /\ \A i \in DOMAIN s.batch : Once(s.batch[i]) /\ b.taken[s.batch[i].op] # 0 => i \in Arrived(s, w, up)
    /\ \A i \in DOMAIN w : Ack(w[i]) /\ i <= Older(s, w) => s.stored[w[i].op] >= 1
    /\ \A m \in Incoming : b.out[m] = "done" /\ level[m] # "qos0" =>
          \/ s.stored[m] >= 1
          \/ \E i \in Arrived(s, w, up) : Ack(s.batch[i]) /\ s.batch[i].op = m

OnceAtMost(b, u) == ~ u.cut => \A r \in Requests : kind[r] = "qos0" => b.taken[r] <= 1

\* The client, with packets w on their way to the broker and c on their way from it, on a
\* connection that is there or not.
Candid(s, w, c, b, u, up) ==
    /\ b \in Brokers /\ u \in Budgets /\ w \in Seq(Wires)
    /\ Good(s, Known(s, b, u))
    /\ TakenOnce(b, u) /\ OnceAtMost(b, u)
    /\ u.abandons = 0 /\ s.open => Fares(s, w, c, b, Known(s, b, u))
    /\ Tailed(s, w)
    /\ ~ u.cut /\ s.open => Trails(s, w, b, up)

\* A write that has to find out that its connection is gone has nothing on its way.
Late(s, c) == s.writing /\ s.wire = <<>> /\ \A i \in DOMAIN c : c[i].op \in Incoming

TruthOf(s, c, b, u, l, st) ==
    /\ Candid(s, s.wire, c, b, u, l = "up" /\ ~ st)
    /\ st /\ s.open => Late(s, c)
    /\ l # "up" => c = <<>>

Truth == TruthOf(svc, b2c, brk, budget, link, stale)

-----------------------------------------------------------------------------
(* Packets that are sent, requests that begin and end *)

\* What a client's parts are.
LEMMA ClientParts ==
    ASSUME NEW s \in Clients
    PROVE  /\ s.queue \in Seq(WriteReqs) /\ s.batch \in Seq(WriteReqs)
           /\ s.handlers \in Seq(Waiters) /\ s.posted \in Seq(Posts) /\ s.fast \in Seq(Replies)
           /\ s.wire \in Seq([op : Anyone, code : PacketCodes, pid : Nat])
           /\ s.status \in [Requests -> Statuses] /\ s.pid \in [Requests -> 0 .. PacketIdsMax]
           /\ s.serial \in [Requests -> 0 .. SerialMod - 1] /\ s.stored \in [Incoming -> Nat]
           /\ s.open \in BOOLEAN /\ s.writing \in BOOLEAN /\ s.abandoned \subseteq Requests
           /\ \A r : Count(s.fast, r) \in Nat
<1>1. s.fast \in Seq(Replies)
    BY DEF Clients
<1> QED
    BY <1>1, MineIsFinite DEF Clients

\* A write goes on from one function to the next.
LEMMA AdvancesOn ==
    ASSUME NEW s \in Clients, NEW t \in Clients, NEW u \in Clients, Advances(s, t), Advances(t, u)
    PROVE  Advances(s, u)
<1>1. \A r : Count(s.fast, r) \in Nat /\ Count(t.fast, r) \in Nat /\ Count(u.fast, r) \in Nat
    BY ClientParts
<1>2. u.fast \in Seq(Replies) /\ t.fast \in Seq(Replies)
    BY ClientParts
<1>3. t.fast = <<>> /\ ToSet(u.fast) \subseteq ToSet(t.fast) => u.fast = <<>>
    <2>1. ASSUME t.fast = <<>>, ToSet(u.fast) \subseteq ToSet(t.fast), u.fast # <<>>
          PROVE  FALSE
        <3>1. Len(u.fast) \in Nat /\ Len(u.fast) # 0 /\ DOMAIN u.fast = 1 .. Len(u.fast)
            BY <1>2, <2>1, LenProperties, EmptySeq
        <3>2. u.fast[1] \in ToSet(u.fast)
            BY <3>1 DEF ToSet
        <3>3. ToSet(<<>>) = {}
            BY DEF ToSet
        <3> QED
            BY <2>1, <3>2, <3>3
    <2> QED
        BY <2>1
<1>4. \A r \in Requests : Count(t.fast, r) <= Count(s.fast, r) /\ Count(u.fast, r) <= Count(t.fast, r)
                            => Count(u.fast, r) <= Count(s.fast, r)
    BY <1>1
<1> QED
    BY <1>3, <1>4 DEF Advances

\* Functions that go on one after the other go on.
LEMMA GoesOn ==
    ASSUME NEW s \in Clients, NEW t \in Clients, NEW u \in Clients, Goes(s, t), Goes(t, u)
    PROVE  Goes(s, u)
<1>1. Advances(s, u)
    BY AdvancesOn DEF Goes
<1>2. ASSUME NEW r \in Requests, s.status[r] # "idle"
      PROVE  /\ u.status[r] # "idle" /\ u.serial[r] = s.serial[r]
             /\ ~ Sent(s, r) => u.status[r] = s.status[r]
             /\ Sent(u, r) => u.pid[r] = s.pid[r]
    <2>1. /\ t.status[r] # "idle" /\ t.serial[r] = s.serial[r]
          /\ ~ Sent(s, r) => t.status[r] = s.status[r]
          /\ Sent(t, r) => t.pid[r] = s.pid[r]
        BY <1>2 DEF Goes
    <2>2. /\ u.status[r] # "idle" /\ u.serial[r] = t.serial[r]
          /\ ~ Sent(t, r) => u.status[r] = t.status[r]
          /\ Sent(u, r) => u.pid[r] = t.pid[r]
        BY <2>1 DEF Goes
    <2> QED
        BY <2>1, <2>2 DEF Sent
<1>3. ASSUME NEW i \in DOMAIN s.handlers, s.handlers[i].op \in Requests
      PROVE  \E j \in DOMAIN u.handlers : u.handlers[j] = s.handlers[i]
    BY <1>3 DEF Goes
<1>4. ASSUME NEW m \in Incoming
      PROVE  s.stored[m] <= u.stored[m]
    <2>1. s.stored[m] \in Nat /\ t.stored[m] \in Nat /\ u.stored[m] \in Nat
        BY ClientParts
    <2> QED
        BY <2>1 DEF Goes
<1> QED
    BY <1>1, <1>2, <1>3, <1>4 DEF Goes

\* ... and keep what is known.
LEMMA MovesOn ==
    ASSUME NEW s \in Clients, NEW t, NEW u, NEW K, Moves(s, t, K), Moves(t, u, K)
    PROVE  Moves(s, u, K)
<1>1. t \in Clients /\ u \in Clients /\ Goes(s, u) /\ Good(u, K)
    BY GoesOn DEF Moves
<1>2. Fresh(s, u, K)
    <2>1. CASE t.writing
        <3>1. u.batch = t.batch
            BY <2>1 DEF Moves, Goes, Advances
        <3> QED
            BY <2>1, <3>1 DEF Fresh, Moves
    <2>2. CASE ~ t.writing
        BY <2>2 DEF Fresh, Moves
    <2> QED
        BY <2>1, <2>2
<1> QED
    BY <1>1, <1>2 DEF Moves

\* What changes none of the requests goes on, as far as the write does.
LEMMA GoesAlike ==
    ASSUME NEW s \in Clients, NEW t, Advances(s, t), t.status = s.status, t.pid = s.pid,
           t.serial = s.serial, t.handlers = s.handlers, t.stored = s.stored
    PROVE  Goes(s, t)
<1>1. \A m \in Incoming : s.stored[m] <= t.stored[m]
    BY ClientParts
<1>2. \A r \in Requests : Sent(t, r) <=> Sent(s, r)
    BY DEF Sent
<1> QED
    BY <1>1, <1>2 DEF Goes

\* Nor the write, nor what came.
LEMMA AdvancesAlike ==
    ASSUME NEW s \in Clients, NEW t, t.writing = s.writing, t.batch = s.batch, t.wire = s.wire,
           t.fast = s.fast
    PROVE  Advances(s, t)
<1>1. ASSUME NEW r PROVE Count(s.fast, r) <= Count(s.fast, r)
    <2>1. Count(s.fast, r) \in Nat
        BY ClientParts
    <2> QED
        BY <2>1
<1> QED
    BY <1>1 DEF Advances

\* What changes none of these parts.
LEMMA Unmoved ==
    ASSUME NEW s \in Clients, NEW t \in Clients, NEW K, Good(s, K), Untouched(s, t),
           t.fast = s.fast, t.wire = s.wire, t.stored = s.stored, t.serial = s.serial
    PROVE  Moves(s, t, K)
<1>1. Good(t, K)
    BY DEF Good, Untouched, Alike, Sent
<1>2. Goes(s, t)
    BY AdvancesAlike, GoesAlike DEF Untouched, Alike
<1> QED
    BY <1>1, <1>2 DEF Moves, Fresh, Untouched

\* The packets of a write are packets.
LEMMA PacketsAreWires ==
    ASSUME NEW l \in Seq(WriteReqs)
    PROVE  /\ Packets(l) \in Seq([op : Anyone, code : PacketCodes, pid : Nat])
           /\ DOMAIN Packets(l) = DOMAIN l /\ Len(Packets(l)) = Len(l)
           /\ \A i \in DOMAIN l : Packets(l)[i] = Packet(l[i])
<1> DEFINE n == Len(l)
           P == [op : Anyone, code : PacketCodes, pid : Nat]
<1>1. n \in Nat /\ DOMAIN l = 1 .. n /\ \A i \in 1 .. n : l[i] \in WriteReqs
    BY LenProperties, ElementOfSeq
<1>2. \A i \in DOMAIN l : Packet(l[i]) \in P
    BY <1>1 DEF WriteReqs, Packet
<1>3. Packets(l) \in [1 .. n -> P] /\ \A i \in DOMAIN l : Packets(l)[i] = Packet(l[i])
    BY <1>1, <1>2 DEF Packets
<1> HIDE DEF n, P
<1>4. Packets(l) \in Seq(P)
    BY <1>1, <1>3, SeqDef
<1>5. DOMAIN Packets(l) = 1 .. n
    BY <1>3
<1>6. Len(Packets(l)) = n
    <2>1. Len(Packets(l)) \in Nat /\ 1 .. Len(Packets(l)) = 1 .. n
        BY <1>4, <1>5, LenProperties
    <2> QED
        BY <1>1, <2>1
<1> QED
    BY <1>1, <1>3, <1>4, <1>5, <1>6 DEF n, P

\* do_write puts what it takes on its way.
LEMMA DoWriteMoves ==
    ASSUME NEW s \in Clients, NEW K, Good(s, K)
    PROVE  Moves(s, DoWrite(s), K)
<1> DEFINE chosen == Chosen(s)
           batch == At(s.queue, chosen)
           rest == At(s.queue, DOMAIN s.queue \ chosen)
           counted == IF s.limit = Unlimited \/ \E i \in DOMAIN batch : Terminal(batch[i])
                      THEN {} ELSE ThrottledUpTo(batch, Len(batch))
           quota == s.quota - Cardinality(counted)
           packets == [i \in DOMAIN batch |->
                          [op |-> batch[i].op, code |-> batch[i].code, pid |-> batch[i].pid]]
           wire == s.wire \o packets
           t == [s EXCEPT !.writing = TRUE, !.batch = batch, !.queue = rest, !.quota = quota,
                          !.fast = <<>>, !.wire = wire]
<1>1. DoWrite(s) = IF s.writing \/ chosen = {} THEN s ELSE t
    BY Zenon DEF DoWrite
<1>2. Moves(s, s, K)
    BY Unmoved DEF Untouched, Alike
<1>3. SUFFICES ASSUME ~ s.writing PROVE Moves(s, t, K)
    BY <1>1, <1>2
<1>4. /\ s.queue \in Seq(Unsent(K)) /\ s.queue \in Seq(WriteReqs) /\ s.quota \in Int
      /\ s.wire \in Seq([op : Anyone, code : PacketCodes, pid : Nat])
    BY DEF Good, Clients
<1>5. batch \in Seq(Unsent(K)) /\ rest \in Seq(Unsent(K))
    <2> HIDE DEF chosen
    <2> QED
        BY <1>4, CountParted
<1>6. batch \in Seq(WriteReqs) /\ rest \in Seq(WriteReqs)
    <2> HIDE DEF chosen
    <2> QED
        BY <1>4, CountParted
<1>7. batch \in Seq(Writable(K))
    <2> HIDE DEF batch
    <2>1. \A i \in DOMAIN batch : batch[i] \in Unsent(K)
        BY <1>5, ElementOfSeq, LenProperties
    <2>2. \A i \in DOMAIN batch : batch[i] \in Writable(K)
        BY <2>1 DEF Unsent, Writable
    <2> QED
        BY <1>5, <2>2, MembersOf
<1>8. packets = Packets(batch)
    BY DEF Packets, Packet
<1>9. quota \in Int
    <2>1. Len(batch) \in Nat
        BY <1>6, LenProperties
    <2>2. IsFiniteSet(1 .. Len(batch))
        BY <2>1, FS_Interval
    <2>3. counted \subseteq 1 .. Len(batch)
        BY DEF ThrottledUpTo
    <2>4. Cardinality(counted) \in Nat
        <3> HIDE DEF counted, batch
        <3> QED
            BY <2>2, <2>3, FS_Subset, FS_CardinalityType
    <2> HIDE DEF counted
    <2> QED
        BY <1>4, <2>4
<1>10. wire \in Seq([op : Anyone, code : PacketCodes, pid : Nat])
    <2> HIDE DEF batch, packets
    <2>1. packets \in Seq([op : Anyone, code : PacketCodes, pid : Nat])
        BY <1>6, <1>8, PacketsAreWires
    <2> QED
        BY <1>4, <2>1, ConcatProperties
<1>11. <<>> \in Seq(Replies)
    BY EmptySeq
<1> HIDE DEF chosen, batch, rest, counted, quota, packets, wire
<1>12. t \in Clients
    BY <1>6, <1>9, <1>10, <1>11 DEF Clients
<1>13. /\ t.queue = rest /\ t.batch = batch /\ t.handlers = s.handlers /\ t.posted = s.posted
       /\ t.status = s.status /\ t.open = s.open /\ t.abandoned = s.abandoned /\ t.writing
       /\ t.pid = s.pid /\ t.serial = s.serial /\ t.stored = s.stored /\ t.fast = <<>>
       /\ t.wire = s.wire \o packets
    BY DEF Clients, wire
<1> HIDE DEF t
<1>14. Good(t, K)
    BY <1>5, <1>7, <1>13 DEF Good, Sent
<1>15. Goes(s, t)
    BY <1>3, <1>8, <1>13, GoesAlike DEF Advances
<1> QED
    BY <1>5, <1>12, <1>13, <1>14, <1>15 DEF Moves, Fresh

\* A packet that may be sent is.
LEMMA SendMoves ==
    ASSUME NEW s \in Clients, NEW K, Good(s, K), NEW x \in Unsent(K)
    PROVE  Moves(s, Send(s, x), K)
<1> DEFINE queue == Append(s.queue, x)
           t == [s EXCEPT !.queue = queue]
<1>1. s \in Clients /\ s.queue \in Seq(Unsent(K)) /\ s.queue \in Seq(WriteReqs) /\ x \in WriteReqs
    BY DEF Clients, Good, Unsent
<1>2. Send(s, x) = DoWrite(t)
    BY DEF Send
<1>3. queue \in Seq(Unsent(K)) /\ queue \in Seq(WriteReqs)
    <2>1. queue \in Seq(Unsent(K))
        BY <1>1, AppendProperties
    <2>2. queue \in Seq(WriteReqs)
        BY <1>1, AppendProperties
    <2> QED
        BY <2>1, <2>2
<1> HIDE DEF queue
<1>4. t \in Clients
    BY <1>1, <1>3 DEF Clients
<1>5. /\ t.queue = queue /\ t.batch = s.batch /\ t.handlers = s.handlers /\ t.posted = s.posted
      /\ t.status = s.status /\ t.open = s.open /\ t.abandoned = s.abandoned
      /\ t.writing = s.writing /\ t.pid = s.pid /\ t.serial = s.serial /\ t.stored = s.stored
      /\ t.fast = s.fast /\ t.wire = s.wire
    BY <1>1 DEF Clients
<1> HIDE DEF t
<1>6. Good(t, K)
    BY <1>3, <1>5 DEF Good, Sent
<1>7. Goes(s, t)
    BY <1>1, <1>5, AdvancesAlike, GoesAlike
<1>8. Moves(t, DoWrite(t), K)
    BY <1>4, <1>6, DoWriteMoves
<1>9. Moves(s, t, K)
    BY <1>4, <1>5, <1>6, <1>7 DEF Moves, Fresh
<1> QED
    BY <1>2, <1>8, <1>9, MovesOn

\* throttled_op_done sends what it may.
LEMMA ThrottledOpDoneMoves ==
    ASSUME NEW s \in Clients, NEW K, Good(s, K)
    PROVE  Moves(s, ThrottledOpDone(s), K)
<1> DEFINE quota == s.quota + 1
           t == [s EXCEPT !.quota = quota]
<1>1. ThrottledOpDone(s) = IF s.limit = Unlimited THEN s ELSE DoWrite(t)
    BY DEF ThrottledOpDone
<1>2. quota \in Int
    BY DEF Clients
<1> HIDE DEF quota
<1>3. t \in Clients
    BY <1>2 DEF Clients
<1>4. /\ Untouched(s, t) /\ t.fast = s.fast /\ t.wire = s.wire /\ t.stored = s.stored
      /\ t.serial = s.serial
    BY <1>2 DEF Clients, Untouched, Alike
<1> HIDE DEF t
<1>5. Moves(s, t, K) /\ Moves(s, s, K)
    BY <1>3, <1>4, Unmoved DEF Untouched, Alike
<1>6. Moves(t, DoWrite(t), K)
    BY <1>3, <1>5, DoWriteMoves DEF Moves
<1> QED
    BY <1>1, <1>5, <1>6, MovesOn

\* The kinds of the requests.
Kinded == kind \in [Requests -> {"qos0", "qos1", "qos2", "subscribe", "unsubscribe"}]

\* The packet a request begins with may be sent, unless the broker has it for good.
LEMMA RequestPacketUnsent ==
    ASSUME Kinded, NEW s \in Clients, NEW K, Apt(K), NEW r \in Requests, r \notin K.late, r \notin K.spent
    PROVE  RequestPacket(s, r) \in Unsent(K) /\ RequestPacket(s, r).op = r
<1> DEFINE x == RequestPacket(s, r)
<1>1. x \in WriteReqs /\ x.op = r
    BY RequestPacketFits DEF Kinded, Fitting
<1>2. x.code = BeginsWith(r)
    BY DEF RequestPacket, WriteReq, BeginsWith
<1>3. ~ Second(x)
    BY <1>2 DEF Second, BeginsWith
<1> HIDE DEF x
<1> QED
    BY <1>1, <1>3 DEF Unsent, Proper, x

\* So may the second one when the broker has the first.
LEMMA PubRelUnsent ==
    ASSUME NEW s \in Clients, NEW K, Apt(K), NEW r \in Requests, kind[r] = "qos2", r \in K.sure,
           NEW throttled \in BOOLEAN
    PROVE  PubRel(s, r, throttled) \in Unsent(K) /\ PubRel(s, r, throttled).op = r
<1> DEFINE x == PubRel(s, r, throttled)
<1>1. x \in WriteReqs /\ x.op = r
    BY PubRelFits DEF Fitting
<1>2. Second(x)
    BY DEF PubRel, WriteReq, Second
<1>3. r \notin K.spent
    BY DEF Apt
<1> HIDE DEF x
<1> QED
    BY <1>1, <1>2, <1>3 DEF Unsent, Proper, x

\* So may what is of no request.
LEMMA OtherUnsent ==
    ASSUME NEW K, Apt(K), NEW op, NEW code, NEW pid \in Nat,
           \/ op \in Incoming /\ code \in {"PUBACK", "PUBREC", "PUBCOMP"}
           \/ op = Nobody /\ code = "DISCONNECT"
    PROVE  WriteReq(op, code, pid, 0) \in Unsent(K)
<1> DEFINE x == WriteReq(op, code, pid, 0)
<1>1. x \in WriteReqs /\ x.op = op /\ op \notin Requests
    BY OtherFits DEF Fitting
<1> HIDE DEF x
<1> QED
    BY <1>1 DEF Unsent, Proper, Apt, x

\* perform sends the first packet of a request.
LEMMA StartMoves ==
    ASSUME Kinded, NEW s \in Clients, NEW K, Apt(K), Good(s, K), NEW r \in Requests,
           s.status[r] = "idle"
    PROVE  Moves(s, Start(s, r), K)
<1> DEFINE pid == IF kind[r] = "qos0" THEN 0 ELSE CHOOSE p \in s.free : \A q \in s.free : p <= q
           last == IF Subscribing(r) THEN s.last ELSE NextSerial(s)
           number == IF Subscribing(r) THEN 0 ELSE NextSerial(s)
           free == s.free \ {pid}
           pids == [s.pid EXCEPT ![r] = pid]
           serials == [s.serial EXCEPT ![r] = number]
           begun == [s.status EXCEPT ![r] = "sent"]
           over == [s.status EXCEPT ![r] = "failed"]
           failed == [s EXCEPT !.status = over]
           t == [s EXCEPT !.status = begun, !.pid = pids, !.free = free, !.last = last,
                          !.serial = serials]
<1>1. /\ s.free \subseteq 1 .. PacketIdsMax /\ s.pid \in [Requests -> 0 .. PacketIdsMax]
      /\ s.status \in [Requests -> Statuses] /\ s.serial \in [Requests -> 0 .. SerialMod - 1]
      /\ s.last \in 0 .. SerialMod - 1
    BY DEF Clients
<1>2. Start(s, r) = IF kind[r] # "qos0" /\ s.free = {} THEN failed
                    ELSE Send(t, RequestPacket(t, r))
    BY DEF Start, Clients
<1>3. r \notin K.late /\ r \notin K.held /\ r \notin K.spent /\ ~ Sent(s, r)
    BY DEF Good, Sent
<1>4. ASSUME NEW u \in Clients, u.queue = s.queue, u.batch = s.batch, u.handlers = s.handlers,
             u.posted = s.posted, u.writing = s.writing, u.wire = s.wire, u.fast = s.fast,
             u.stored = s.stored, u.open = s.open, u.abandoned = s.abandoned,
             u.status[r] \in {"sent", "failed"},
             \A q \in Requests \ {r} : /\ u.status[q] = s.status[q] /\ u.pid[q] = s.pid[q]
                                       /\ u.serial[q] = s.serial[q]
      PROVE  Moves(s, u, K)
    <2>1. \A q \in Requests : q # r => (Sent(u, q) <=> Sent(s, q))
        BY <1>4 DEF Sent
    <2>2. Good(u, K)
        <3>1. \A q \in Requests : u.status[q] = "done" /\ kind[q] # "qos0" => q \in K.sure
            BY <1>4 DEF Good
        <3>2. \A q \in K.late \cup K.held \cup K.spent : u.status[q] # "idle"
            BY <1>4 DEF Good, Apt
        <3>3. \A q \in K.held : Sent(u, q)
            BY <1>3, <2>1 DEF Good, Apt
        <3> QED
            BY <1>4, <3>1, <3>2, <3>3 DEF Good
    <2>3. Goes(s, u)
        <3>1. Advances(s, u)
            BY <1>4, AdvancesAlike
        <3>2. ASSUME NEW q \in Requests, s.status[q] # "idle"
              PROVE  /\ u.status[q] # "idle" /\ u.serial[q] = s.serial[q]
                     /\ ~ Sent(s, q) => u.status[q] = s.status[q]
                     /\ Sent(u, q) => u.pid[q] = s.pid[q]
            BY <1>4, <3>2
        <3>3. \A m \in Incoming : s.stored[m] <= u.stored[m]
            BY <1>4, ClientParts
        <3> QED
            BY <1>4, <3>1, <3>2, <3>3 DEF Goes
    <2> QED
        BY <1>4, <2>2, <2>3 DEF Moves, Fresh
<1>5. CASE kind[r] # "qos0" /\ s.free = {}
    <2>1. over \in [Requests -> Statuses] /\ over[r] = "failed"
       /\ \A q \in Requests \ {r} : over[q] = s.status[q]
        BY <1>1 DEF Statuses
    <2> HIDE DEF over
    <2>2. failed \in Clients
        BY <2>1 DEF Clients
    <2>3. /\ failed.status = over /\ failed.pid = s.pid /\ failed.serial = s.serial
          /\ failed.open = s.open /\ failed.fast = s.fast /\ failed.wire = s.wire
          /\ failed.abandoned = s.abandoned /\ failed.queue = s.queue /\ failed.batch = s.batch
          /\ failed.handlers = s.handlers /\ failed.posted = s.posted /\ failed.writing = s.writing
          /\ failed.stored = s.stored
        BY DEF Clients
    <2> HIDE DEF failed
    <2>4. Moves(s, failed, K)
        BY <1>4, <2>1, <2>2, <2>3
    <2> QED
        BY <1>2, <1>5, <2>4
<1>6. CASE ~ (kind[r] # "qos0" /\ s.free = {})
    <2>1. IF kind[r] = "qos0" THEN pid = 0 ELSE pid \in s.free
        <3>1. s.free # {} => \E p \in s.free : \A q \in s.free : p <= q
            <4>1. s.free \subseteq Nat
                BY <1>1
            <4> QED
                BY <4>1, MinOfNats
        <3> QED
            BY <1>6, <3>1
    <2>2. pid \in 0 .. PacketIdsMax
        BY <1>1, <2>1, DeliveryAssumption
    <2>3. NextSerial(s) \in 0 .. SerialMod - 1
        BY <1>1, DeliveryAssumption DEF NextSerial
    <2>4. last \in 0 .. SerialMod - 1 /\ number \in 0 .. SerialMod - 1
        BY <1>1, <2>3, DeliveryAssumption
    <2> HIDE DEF pid, last, number
    <2>5. /\ pids \in [Requests -> 0 .. PacketIdsMax]
          /\ \A q \in Requests \ {r} : pids[q] = s.pid[q]
        BY <1>1, <2>2
    <2>6. /\ begun \in [Requests -> Statuses] /\ begun[r] = "sent"
          /\ \A q \in Requests \ {r} : begun[q] = s.status[q]
        BY <1>1 DEF Statuses
    <2>7. /\ serials \in [Requests -> 0 .. SerialMod - 1] /\ free \subseteq 1 .. PacketIdsMax
          /\ \A q \in Requests \ {r} : serials[q] = s.serial[q]
        BY <1>1, <2>4
    <2> HIDE DEF pids, begun, serials, free
    <2>8. t \in Clients
        BY <2>4, <2>5, <2>6, <2>7 DEF Clients
    <2>9. /\ t.status = begun /\ t.pid = pids /\ t.serial = serials /\ t.open = s.open
          /\ t.abandoned = s.abandoned /\ t.queue = s.queue /\ t.batch = s.batch
          /\ t.handlers = s.handlers /\ t.posted = s.posted /\ t.writing = s.writing
          /\ t.fast = s.fast /\ t.wire = s.wire /\ t.stored = s.stored
        BY DEF Clients
    <2> HIDE DEF t
    <2>10. Moves(s, t, K)
        BY <1>4, <2>5, <2>6, <2>7, <2>8, <2>9
    <2>11. RequestPacket(t, r) \in Unsent(K)
        BY <1>3, <2>8, RequestPacketUnsent
    <2>12. Moves(t, Send(t, RequestPacket(t, r)), K)
        BY <2>8, <2>10, <2>11, SendMoves DEF Moves
    <2>13. Moves(s, Send(t, RequestPacket(t, r)), K)
        BY <2>10, <2>12, MovesOn
    <2> QED
        BY <1>2, <1>6, <2>13
<1> QED
    BY <1>5, <1>6

\* complete ends a request that may end, and may start the next one.
LEMMA FinishMoves ==
    ASSUME Kinded, NEW s \in Clients, NEW K, Apt(K), Good(s, K), NEW r \in Requests, Sent(s, r),
           r \notin K.held, NEW status \in {"done", "failed", "aborted"},
           status = "done" /\ kind[r] # "qos0" => r \in K.sure
    PROVE  Moves(s, Finish(s, r, status), K) /\ ~ Sent(Finish(s, r, status), r)
<1> DEFINE over == [s.status EXCEPT ![r] = status]
           pids == [s.pid EXCEPT ![r] = 0]
           free == IF s.pid[r] = 0 THEN s.free ELSE s.free \cup {s.pid[r]}
           freed == [s EXCEPT !.status = over, !.pid = pids, !.free = free]
           granted == IF kind[r] = "subscribe" /\ status = "done"
                      THEN [freed EXCEPT !.subscribed = TRUE] ELSE freed
           roomy == IF kind[r] \in {"qos1", "qos2"} THEN ThrottledOpDone(granted) ELSE granted
<1>1. /\ s.free \subseteq 1 .. PacketIdsMax /\ s.pid \in [Requests -> 0 .. PacketIdsMax]
      /\ s.status \in [Requests -> Statuses] /\ s.pid[r] \in 0 .. PacketIdsMax
    BY DEF Clients
<1>2. Finish(s, r, status) = IF Then[r] # Nobody /\ roomy.status[Then[r]] = "idle" /\ roomy.open
                             THEN Start(roomy, Then[r]) ELSE roomy
    BY DEF Finish, Clients
<1>3. /\ over \in [Requests -> Statuses] /\ over[r] = status
      /\ \A q \in Requests \ {r} : over[q] = s.status[q]
    BY <1>1 DEF Statuses
<1>4. /\ pids \in [Requests -> 0 .. PacketIdsMax] /\ pids[r] = 0
      /\ \A q \in Requests \ {r} : pids[q] = s.pid[q]
    BY <1>1, DeliveryAssumption
<1>5. free \subseteq 1 .. PacketIdsMax
    BY <1>1
<1> HIDE DEF over, pids, free
<1>6. freed \in Clients
    BY <1>3, <1>4, <1>5, ZenonT(40) DEF Clients
<1>7. /\ freed.status = over /\ freed.pid = pids /\ freed.serial = s.serial /\ freed.open = s.open
      /\ freed.abandoned = s.abandoned /\ freed.queue = s.queue /\ freed.batch = s.batch
      /\ freed.handlers = s.handlers /\ freed.posted = s.posted /\ freed.writing = s.writing
      /\ freed.fast = s.fast /\ freed.wire = s.wire /\ freed.stored = s.stored
    BY DEF Clients
<1> HIDE DEF freed
<1>8. \A q \in Requests \ {r} : freed.status[q] = s.status[q] /\ (Sent(freed, q) <=> Sent(s, q))
                                /\ freed.pid[q] = s.pid[q]
    BY <1>3, <1>4, <1>7 DEF Sent
<1>9. freed.status[r] = status /\ s.status[r] = "sent" /\ ~ Sent(freed, r)
    BY <1>3, <1>7 DEF Sent
<1>10. Moves(s, freed, K)
    <2>1. Good(freed, K)
        <3>1. \A q \in Requests : freed.status[q] = "done" /\ kind[q] # "qos0" => q \in K.sure
            BY <1>8, <1>9 DEF Good
        <3>2. \A q \in K.late \cup K.held \cup K.spent : freed.status[q] # "idle"
            BY <1>8, <1>9 DEF Good, Apt
        <3>3. \A q \in K.held : Sent(freed, q)
            BY <1>8 DEF Good, Apt
        <3> QED
            BY <1>7, <3>1, <3>2, <3>3 DEF Good
    <2>2. Goes(s, freed)
        <3>1. Advances(s, freed)
            BY <1>7, AdvancesAlike
        <3>2. ASSUME NEW q \in Requests, s.status[q] # "idle"
              PROVE  /\ freed.status[q] # "idle" /\ freed.serial[q] = s.serial[q]
                     /\ ~ Sent(s, q) => freed.status[q] = s.status[q]
                     /\ Sent(freed, q) => freed.pid[q] = s.pid[q]
            BY <1>7, <1>8, <1>9, <3>2
        <3>3. \A m \in Incoming : s.stored[m] <= freed.stored[m]
            BY <1>7, ClientParts
        <3> QED
            BY <1>7, <3>1, <3>2, <3>3 DEF Goes
    <2> QED
        BY <1>6, <1>7, <2>1, <2>2 DEF Moves, Fresh
<1>11. Moves(freed, granted, K)
    <2> DEFINE t == [freed EXCEPT !.subscribed = TRUE]
    <2>1. t \in Clients
        BY <1>6 DEF Clients
    <2>2. /\ Untouched(freed, t) /\ t.fast = freed.fast /\ t.wire = freed.wire
          /\ t.stored = freed.stored /\ t.serial = freed.serial
        BY <1>6 DEF Untouched, Alike, Clients
    <2> HIDE DEF t
    <2>3. Moves(freed, t, K) /\ Moves(freed, freed, K)
        BY <1>6, <1>10, <2>1, <2>2, Unmoved DEF Moves, Untouched, Alike
    <2> QED
        BY <2>3 DEF t
<1> HIDE DEF granted
<1>12. Moves(granted, roomy, K)
    <2>1. granted \in Clients /\ Good(granted, K)
        BY <1>11 DEF Moves
    <2>2. Moves(granted, granted, K)
        BY <2>1, Unmoved DEF Untouched, Alike
    <2> QED
        BY <2>1, <2>2, ThrottledOpDoneMoves
<1> HIDE DEF roomy
<1>13. Moves(freed, roomy, K) /\ Moves(s, roomy, K)
    <2>1. Moves(freed, roomy, K)
        BY <1>6, <1>11, <1>12, MovesOn
    <2> QED
        BY <1>10, <2>1, MovesOn
<1>14. CASE Then[r] # Nobody /\ roomy.status[Then[r]] = "idle" /\ roomy.open
    <2>1. Then[r] \in Requests
        BY <1>14, DeliveryAssumption
    <2>2. roomy \in Clients /\ Good(roomy, K)
        BY <1>13 DEF Moves
    <2>3. Moves(roomy, Start(roomy, Then[r]), K)
        BY <1>14, <2>1, <2>2, StartMoves
    <2>4. Moves(freed, Start(roomy, Then[r]), K) /\ Moves(s, Start(roomy, Then[r]), K)
        <3>1. Moves(freed, Start(roomy, Then[r]), K)
            BY <1>6, <1>13, <2>3, MovesOn
        <3>2. Moves(s, Start(roomy, Then[r]), K)
            BY <1>13, <2>3, MovesOn
        <3> QED
            BY <3>1, <3>2
    <2>5. ~ Sent(Start(roomy, Then[r]), r)
        BY <1>9, <2>4 DEF Moves, Goes, Sent
    <2> QED
        BY <1>2, <1>14, <2>4, <2>5
<1>15. CASE ~ (Then[r] # Nobody /\ roomy.status[Then[r]] = "idle" /\ roomy.open)
    <2>1. ~ Sent(roomy, r)
        BY <1>9, <1>13 DEF Moves, Goes, Sent
    <2> QED
        BY <1>2, <1>13, <1>15, <2>1
<1> QED
    BY <1>14, <1>15

\* A request is sent afresh, unless the broker has it for good; or it ends.
LEMMA AgainMoves ==
    ASSUME Kinded, NEW s \in Clients, NEW K, Apt(K), Good(s, K), NEW r \in Requests, Sent(s, r),
           r \notin K.late, r \notin K.spent
    PROVE  Moves(s, Again(s, r), K)
<1>1. CASE r \in s.abandoned
    <2>1. r \notin K.held
        BY <1>1 DEF Good
    <2> QED
        BY <1>1, <2>1, FinishMoves DEF Again
<1>2. CASE r \notin s.abandoned
    BY <1>2, RequestPacketUnsent, SendMoves DEF Again
<1> QED
    BY <1>1, <1>2

\* So is its second packet.
LEMMA ReleaseMoves ==
    ASSUME NEW s \in Clients, NEW K, Apt(K), Good(s, K), NEW r \in Requests, kind[r] = "qos2",
           r \in K.sure, NEW throttled \in BOOLEAN
    PROVE  Moves(s, Send(s, PubRel(s, r, throttled)), K)
BY PubRelUnsent, SendMoves

-----------------------------------------------------------------------------
(* Replies that are awaited, and that come *)

\* A list that loses what was found in it has the others still, and no more.
LEMMA EraseLeaves ==
    ASSUME NEW T, NEW l \in Seq(T), NEW i \in 0 .. Len(l)
    PROVE  /\ \A j \in DOMAIN l : j # i => \E k \in DOMAIN Erase(l, i) : Erase(l, i)[k] = l[j]
           /\ \A k \in DOMAIN Erase(l, i) : \E j \in DOMAIN l : l[j] = Erase(l, i)[k]
<1> DEFINE n == Len(l)
           e == Erase(l, i)
<1>1. n \in Nat /\ DOMAIN l = 1 .. n
    BY LenProperties
<1>2. CASE i = 0
    <2>1. e = l
        BY <1>2 DEF Erase
    <2> HIDE DEF e
    <2> QED
        BY <2>1 DEF e
<1>3. CASE i # 0
    <2>1. e = RemoveAt(l, i) /\ i \in 1 .. n
        BY <1>3 DEF Erase
    <2>2. /\ e \in Seq(T) /\ Len(e) = n - 1
          /\ \A k \in 1 .. n - 1 : e[k] = IF k < i THEN l[k] ELSE l[k + 1]
        BY <2>1, RemoveAtProperties
    <2>3. DOMAIN e = 1 .. n - 1
        <3> HIDE DEF e
        <3> QED
            BY <2>2, LenProperties
    <2> HIDE DEF e
    <2>4. ASSUME NEW j \in DOMAIN l, j # i
          PROVE  \E k \in DOMAIN e : e[k] = l[j]
        <3>1. CASE j < i
            <4>1. j \in 1 .. n - 1
                BY <1>1, <2>1, <3>1
            <4> QED
                BY <2>2, <2>3, <3>1, <4>1
        <3>2. CASE ~ (j < i)
            <4>1. j - 1 \in 1 .. n - 1 /\ ~ (j - 1 < i) /\ j - 1 + 1 = j
                BY <1>1, <2>1, <2>4, <3>2
            <4>2. e[j - 1] = l[j]
                BY <2>2, <4>1
            <4> QED
                BY <2>3, <4>1, <4>2
        <3> QED
            BY <3>1, <3>2
    <2>5. ASSUME NEW k \in DOMAIN e
          PROVE  \E j \in DOMAIN l : l[j] = e[k]
        <3>1. k \in 1 .. n /\ k + 1 \in 1 .. n
            BY <1>1, <2>3
        <3> QED
            BY <1>1, <2>2, <2>3, <3>1
    <2> QED
        BY <2>4, <2>5 DEF e
<1> QED
    BY <1>2, <1>3

\* A list that gains one has the others still.
LEMMA AppendLeaves ==
    ASSUME NEW T, NEW l \in Seq(T), NEW x \in T
    PROVE  /\ \A j \in DOMAIN l : \E k \in DOMAIN Append(l, x) : Append(l, x)[k] = l[j]
           /\ \E k \in DOMAIN Append(l, x) : Append(l, x)[k] = x
<1> DEFINE n == Len(l)
           a == Append(l, x)
<1>1. n \in Nat /\ DOMAIN l = 1 .. n
    BY LenProperties
<1>2. /\ a \in Seq(T) /\ Len(a) = n + 1 /\ (\A i \in 1 .. n : a[i] = l[i]) /\ a[n + 1] = x
    BY AppendProperties
<1> HIDE DEF a
<1>3. DOMAIN a = 1 .. n + 1
    BY <1>2, LenProperties
<1>4. n + 1 \in 1 .. n + 1 /\ \A i \in 1 .. n : i \in 1 .. n + 1
    BY <1>1
<1> QED
    BY <1>1, <1>2, <1>3, <1>4 DEF a

\* A reply that is there already is for him who asks for it.
Meant(fast, op, code, pid, K) ==
    op \in Requests => \A i \in DOMAIN fast : fast[i].code = code /\ fast[i].pid = pid =>
        /\ fast[i].result = "ok" => op \in K.sure
        /\ op \in K.held => code = "PUBREC" /\ fast[i].result = "ok"

\* Who waits for a reply waits, or has it.
Waiting(s, t, op, code, pid) ==
    \/ \E j \in DOMAIN t.handlers : t.handlers[j] = Expecting(op, code, pid, "none")
    \/ \E i \in DOMAIN s.fast : s.fast[i].code = code /\ s.fast[i].pid = pid

\* async_wait_reply leaves the others waiting.
LEMMA WaitReplyMoves ==
    ASSUME NEW s, NEW D, Sane(s, D), NEW K, Apt(K), Good(s, K), NEW op, NEW code, NEW pid,
           Expecting(op, code, pid, "none") \in Fitting(s, Waiters), op \in Requests => op \in D,
           Proper(Expecting(op, code, pid, "none"), K), Meant(s.fast, op, code, pid, K)
    PROVE  /\ Moves(s, WaitReply(s, code, pid, op), K)
           /\ Waiting(s, WaitReply(s, code, pid, op), op, code, pid)
<1> DEFINE twin == Find(s.handlers, code, pid)
           early == Find(s.fast, code, pid)
           late == Expecting(s.handlers[twin].op, code, pid, "aborted")
           w == Expecting(op, code, pid, "none")
           told == Expecting(op, code, pid, s.fast[early].result)
           H == Erase(s.handlers, twin)
           P == IF twin = 0 THEN s.posted ELSE Append(s.posted, late)
           F == Erase(s.fast, early)
           Hw == Append(H, w)
           Pw == Append(P, told)
           t == [s EXCEPT !.handlers = Hw, !.posted = P]
           u == [s EXCEPT !.handlers = H, !.posted = Pw, !.fast = F]
           Right == Fitting(s, Waiters)
<1>1. /\ s \in Clients /\ s.handlers \in Seq(Right) /\ s.handlers \in Seq(Waiters)
      /\ s.posted \in Seq(Posts) /\ s.fast \in Seq(Replies)
      /\ s.handlers \in Seq(Hopeful(K)) /\ s.posted \in Seq(Tellable(K))
    BY DEF Sane, Matching, Clients, Good
<1>2. WaitReply(s, code, pid, op) = IF early = 0 THEN t ELSE u
    BY <1>1 DEF WaitReply, Clients, Expecting
<1>3. twin \in 0 .. Len(s.handlers) /\ early \in 0 .. Len(s.fast)
    BY <1>1, FindTells
<1>4. /\ w.op = op /\ w.code = code /\ w.pid = pid /\ w \in Waiters /\ w \in Hopeful(K)
      /\ IsWaiting(w) /\ op \in Anyone /\ code \in ReplyCodes /\ pid \in Nat
    BY DEF Expecting, Fitting, Waiters, Hopeful
<1>5. twin # 0 => s.handlers[twin].op \notin Requests /\ late \in Posts /\ late \in Tellable(K)
    <2>1. SUFFICES ASSUME twin # 0
                   PROVE  s.handlers[twin].op \notin Requests /\ late \in Posts /\ late \in Tellable(K)
        OBVIOUS
    <2> DEFINE h == s.handlers[twin]
    <2>2. h \in Right /\ h.code = code /\ h.pid = pid /\ twin \in 1 .. Len(s.handlers)
        BY <1>1, <2>1, FindTells
    <2>3. twin \in DOMAIN s.handlers
        BY <1>1, <2>2, LenProperties
    <2> HIDE DEF twin
    <2>4. h.op \notin Requests
        BY <2>2, <2>3, NoTwin
    <2>5. h.op \in Anyone
        BY <2>2 DEF Fitting, Waiters
    <2>6. late.op = h.op /\ late.result = "aborted"
        BY DEF Expecting
    <2>7. late \in [op : Anyone, code : ReplyCodes \cup PacketCodes, pid : Nat,
                    result : {"ok", "refused", "aborted"}]
        BY <1>4, <2>5 DEF Expecting
    <2>8. late \in Posts
        BY <2>6, <2>7 DEF Posts
    <2> QED
        BY <2>4, <2>6, <2>8 DEF Tellable, Truthful
<1>6. early # 0 => /\ told \in Posts /\ told \in Tellable(K)
                   /\ \E i \in DOMAIN s.fast : s.fast[i].code = code /\ s.fast[i].pid = pid
    <2>1. SUFFICES ASSUME early # 0
                   PROVE  /\ told \in Posts /\ told \in Tellable(K)
                          /\ \E i \in DOMAIN s.fast : s.fast[i].code = code /\ s.fast[i].pid = pid
        OBVIOUS
    <2> DEFINE result == s.fast[early].result
    <2>2. /\ early \in 1 .. Len(s.fast) /\ s.fast[early] \in Replies
          /\ s.fast[early].code = code /\ s.fast[early].pid = pid
        BY <1>1, <2>1, FindTells
    <2>3. early \in DOMAIN s.fast
        BY <1>1, <2>2, LenProperties
    <2>4. result \in {"ok", "refused"}
        <3> HIDE DEF early
        <3> QED
            BY <2>2 DEF Replies
    <2>5. op \in Requests => /\ result = "ok" => op \in K.sure
                             /\ op \in K.held => code = "PUBREC" /\ result = "ok"
        <3> HIDE DEF early
        <3> QED
            BY <2>2, <2>3 DEF Meant
    <2> HIDE DEF result
    <2>6. told = Expecting(op, code, pid, result)
        BY DEF result
    <2> HIDE DEF told
    <2>7. told.op = op /\ told.code = code /\ told.pid = pid /\ told.result = result
        BY <2>6 DEF Expecting
    <2>8. told \in [op : Anyone, code : ReplyCodes \cup PacketCodes, pid : Nat,
                    result : {"ok", "refused", "aborted"}]
        BY <1>4, <2>4, <2>6 DEF Expecting
    <2>9. IsWaiting(told)
        BY <1>4, <2>7 DEF IsWaiting
    <2>10. told \in Posts
        BY <2>8, <2>9 DEF Posts
    <2>11. told \in Tellable(K)
        BY <2>5, <2>7, <2>10 DEF Tellable, Truthful
    <2> HIDE DEF early
    <2> QED
        BY <2>2, <2>3, <2>10, <2>11
<1>7. /\ \A j \in DOMAIN s.handlers : j # twin => \E k \in DOMAIN H : H[k] = s.handlers[j]
      /\ \A k \in DOMAIN F : \E j \in DOMAIN s.fast : s.fast[j] = F[k]
    <2> HIDE DEF twin, early
    <2>1. \A j \in DOMAIN s.handlers : j # twin => \E k \in DOMAIN H : H[k] = s.handlers[j]
        BY <1>1, <1>3, EraseLeaves
    <2>2. \A k \in DOMAIN F : \E j \in DOMAIN s.fast : s.fast[j] = F[k]
        BY <1>1, <1>3, EraseLeaves
    <2> QED
        BY <2>1, <2>2
<1> HIDE DEF twin, early, late, w, told, Right
<1>8. /\ H \in Seq(Hopeful(K)) /\ H \in Seq(Waiters) /\ F \in Seq(Replies)
      /\ \A r : Count(F, r) <= Count(s.fast, r)
    <2>1. H \in Seq(Hopeful(K))
        BY <1>1, <1>3, EraseTells
    <2>2. H \in Seq(Waiters)
        BY <1>1, <1>3, EraseTells
    <2>3. F \in Seq(Replies)
        BY <1>1, <1>3, EraseTells
    <2>4. ASSUME NEW r PROVE Count(F, r) <= Count(s.fast, r)
        <3>1. Count(s.fast, r) = Count(F, r) + IF early # 0 /\ s.fast[early].op = r THEN 1 ELSE 0
            BY <1>1, <1>3, EraseTells
        <3>2. Count(F, r) \in Nat
            BY <2>3, MineIsFinite
        <3> QED
            BY <3>1, <3>2
    <2> QED
        BY <2>1, <2>2, <2>3, <2>4
<1>9. \A i \in DOMAIN s.handlers : s.handlers[i].op \in Requests =>
         \E k \in DOMAIN H : H[k] = s.handlers[i]
    <2>1. ASSUME NEW i \in DOMAIN s.handlers, s.handlers[i].op \in Requests
          PROVE  i # twin
        <3>1. i \in 1 .. Len(s.handlers)
            BY <1>1, LenProperties
        <3> QED
            BY <1>5, <2>1, <3>1
    <2> QED
        BY <1>7, <2>1
<1>10. P \in Seq(Tellable(K)) /\ P \in Seq(Posts)
    <2>1. P \in Seq(Tellable(K))
        BY <1>1, <1>5, AppendProperties
    <2>2. P \in Seq(Posts)
        BY <1>1, <1>5, AppendProperties
    <2> QED
        BY <2>1, <2>2
<1>11. ToSet(F) \subseteq ToSet(s.fast)
    BY <1>7 DEF ToSet
<1> HIDE DEF H, F, P
<1>12. CASE early = 0
    <2>1. /\ Hw \in Seq(Hopeful(K)) /\ Hw \in Seq(Waiters)
          /\ \A j \in DOMAIN H : \E k \in DOMAIN Hw : Hw[k] = H[j]
          /\ \E k \in DOMAIN Hw : Hw[k] = w
        <3>1. Hw \in Seq(Hopeful(K))
            BY <1>4, <1>8, AppendProperties
        <3>2. Hw \in Seq(Waiters)
            BY <1>4, <1>8, AppendProperties
        <3>3. /\ \A j \in DOMAIN H : \E k \in DOMAIN Hw : Hw[k] = H[j]
              /\ \E k \in DOMAIN Hw : Hw[k] = w
            BY <1>4, <1>8, AppendLeaves
        <3> QED
            BY <3>1, <3>2, <3>3
    <2> HIDE DEF Hw
    <2>2. t \in Clients
        BY <1>1, <1>10, <2>1 DEF Clients
    <2>3. /\ Alike(s, t) /\ t.writing = s.writing /\ t.queue = s.queue /\ t.batch = s.batch
          /\ t.fast = s.fast /\ t.wire = s.wire /\ t.serial = s.serial /\ t.stored = s.stored
          /\ t.handlers = Hw /\ t.posted = P
        BY <1>1 DEF Clients, Alike
    <2> HIDE DEF t
    <2>4. Good(t, K)
        BY <1>10, <2>1, <2>3 DEF Good, Alike, Sent
    <2>5. \A i \in DOMAIN s.handlers : s.handlers[i].op \in Requests =>
             \E k \in DOMAIN t.handlers : t.handlers[k] = s.handlers[i]
        <3>1. ASSUME NEW i \in DOMAIN s.handlers, s.handlers[i].op \in Requests
              PROVE  \E k \in DOMAIN t.handlers : t.handlers[k] = s.handlers[i]
            <4>1. PICK j \in DOMAIN H : H[j] = s.handlers[i]
                BY <1>9, <3>1
            <4>2. PICK k \in DOMAIN Hw : Hw[k] = H[j]
                BY <2>1
            <4> QED
                BY <2>3, <4>1, <4>2
        <3> QED
            BY <3>1
    <2>6. Goes(s, t)
        <3>1. Advances(s, t)
            BY <1>1, <2>3, AdvancesAlike
        <3>2. \A m \in Incoming : s.stored[m] <= t.stored[m]
            BY <1>1, <2>3, ClientParts
        <3>3. \A r \in Requests : Sent(t, r) <=> Sent(s, r)
            BY <2>3 DEF Alike, Sent
        <3> QED
            BY <2>3, <2>5, <3>1, <3>2, <3>3 DEF Goes, Alike
    <2>7. Waiting(s, t, op, code, pid)
        BY <2>1, <2>3 DEF Waiting, w
    <2> QED
        BY <1>2, <1>12, <2>2, <2>3, <2>4, <2>6, <2>7 DEF Moves, Fresh
<1>13. CASE early # 0
    <2>1. Pw \in Seq(Tellable(K)) /\ Pw \in Seq(Posts)
        <3>1. Pw \in Seq(Tellable(K))
            BY <1>6, <1>10, <1>13, AppendProperties
        <3>2. Pw \in Seq(Posts)
            BY <1>6, <1>10, <1>13, AppendProperties
        <3> QED
            BY <3>1, <3>2
    <2> HIDE DEF Pw
    <2>2. u \in Clients
        BY <1>1, <1>8, <2>1 DEF Clients
    <2>3. /\ Alike(s, u) /\ u.writing = s.writing /\ u.queue = s.queue /\ u.batch = s.batch
          /\ u.fast = F /\ u.wire = s.wire /\ u.serial = s.serial /\ u.stored = s.stored
          /\ u.handlers = H /\ u.posted = Pw
        BY <1>1 DEF Clients, Alike
    <2> HIDE DEF u
    <2>4. Good(u, K)
        BY <1>8, <2>1, <2>3 DEF Good, Alike, Sent
    <2>5. Goes(s, u)
        <3>1. Advances(s, u)
            BY <1>8, <1>11, <2>3 DEF Advances
        <3>2. \A m \in Incoming : s.stored[m] <= u.stored[m]
            BY <1>1, <2>3, ClientParts
        <3>3. \A r \in Requests : Sent(u, r) <=> Sent(s, r)
            BY <2>3 DEF Alike, Sent
        <3> QED
            BY <1>9, <2>3, <3>1, <3>2, <3>3 DEF Goes, Alike
    <2>6. Waiting(s, u, op, code, pid)
        BY <1>6, <1>13 DEF Waiting
    <2> QED
        BY <1>2, <1>13, <2>2, <2>3, <2>4, <2>5, <2>6 DEF Moves, Fresh
<1> QED
    BY <1>12, <1>13

-----------------------------------------------------------------------------
(* Who is told a reply, is sent again, or was written *)

\* channel_store counts a message.
LEMMA StoreMoves ==
    ASSUME NEW s \in Clients, NEW K, Good(s, K), NEW m \in Incoming
    PROVE  Moves(s, Store(s, m), K) /\ (s.open => Store(s, m).stored[m] >= 1)
<1> DEFINE stored == [s.stored EXCEPT ![m] = @ + 1]
           t == [s EXCEPT !.stored = stored]
<1>1. s.stored \in [Incoming -> Nat]
    BY DEF Clients
<1>2. stored \in [Incoming -> Nat] /\ stored[m] >= 1 /\ \A q \in Incoming : s.stored[q] <= stored[q]
    BY <1>1
<1>3. Store(s, m) = IF s.open THEN t ELSE s
    BY DEF Store, Clients
<1> HIDE DEF stored
<1>4. t \in Clients
    BY <1>2 DEF Clients
<1>5. /\ Untouched(s, t) /\ t.fast = s.fast /\ t.wire = s.wire /\ t.serial = s.serial
      /\ t.stored = stored
    BY DEF Untouched, Alike, Clients
<1> HIDE DEF t
<1>6. Good(t, K)
    BY <1>5 DEF Good, Untouched, Alike, Sent
<1>7. Goes(s, t)
    <2>1. Advances(s, t)
        BY <1>5, AdvancesAlike DEF Untouched
    <2>2. \A r \in Requests : Sent(t, r) <=> Sent(s, r)
        BY <1>5 DEF Untouched, Alike, Sent
    <2> QED
        BY <1>2, <1>5, <2>1, <2>2 DEF Goes, Untouched, Alike
<1>8. Moves(s, s, K)
    BY Unmoved DEF Untouched, Alike
<1> QED
    BY <1>2, <1>3, <1>4, <1>5, <1>6, <1>7, <1>8 DEF Moves, Fresh, Untouched

\* A client that changes nothing.
LEMMA SelfMoves ==
    ASSUME NEW s \in Clients, NEW K, Good(s, K)
    PROVE  Moves(s, s, K)
BY Unmoved DEF Untouched, Alike

\* Who is told the truth sends the next packet, or ends.
LEMMA RepliedMoves ==
    ASSUME NEW s, NEW D, Sane(s, D), NEW K, Apt(K), Good(s, K), NEW h \in PostsOf(s),
           h.op \in Requests => h.op \in D, h \in Tellable(K)
    PROVE  Moves(s, Replied(s, h), K)
<1>1. s \in Clients /\ Kinded /\ Requests \cap Incoming = {}
    BY DeliveryAssumption DEF Sane, Kinded
<1>2. /\ h \in Posts /\ h.result \in {"ok", "refused", "aborted"} /\ h.pid \in Nat
      /\ h.result = "aborted" \/ IsWaiting(h)
      /\ h.result = "aborted" /\ h.op \in Requests => MayAbort(s, h.op)
      /\ Truthful(h, K)
    BY DEF PostsOf, Fitting, Posts, Tellable
<1>3. h.op \in Requests => Sent(s, h.op)
    BY DEF Sane
<1>4. CASE h.result = "aborted"
    <2>1. ASSUME h.op \in Requests PROVE Moves(s, Finish(s, h.op, "aborted"), K)
        <3>1. h.op \notin K.held
            BY <1>2, <1>4, <2>1 DEF Good, MayAbort
        <3> QED
            BY <1>1, <1>3, <2>1, <3>1, FinishMoves
    <2> QED
        BY <1>1, <1>4, <2>1, SelfMoves DEF Replied
<1>5. CASE h.result # "aborted" /\ h.code = "PUBREL"
    <2> DEFINE x == WriteReq(h.op, "PUBCOMP", h.pid, 0)
    <2>1. h.op \in Incoming
        BY <1>1, <1>2, <1>5, AwaitedIs DEF IsWaiting, Kinded
    <2>2. Replied(s, h) = Send(s, x)
        BY <1>5 DEF Replied
    <2>3. x \in Unsent(K)
        BY <1>2, <2>1, OtherUnsent
    <2> HIDE DEF x
    <2> QED
        BY <1>1, <2>2, <2>3, SendMoves
<1>6. CASE h.result = "ok" /\ h.code = "PUBREC"
    <2>1. h.op \in Requests /\ kind[h.op] = "qos2"
        BY <1>1, <1>2, <1>6, AwaitedIs DEF IsWaiting, Kinded
    <2>2. Replied(s, h) = Send(s, PubRel(s, h.op, FALSE))
        BY <1>6 DEF Replied
    <2>3. h.op \in K.sure
        BY <1>2, <1>6, <2>1 DEF Truthful
    <2> QED
        BY <1>1, <2>1, <2>2, <2>3, ReleaseMoves
<1>7. CASE h.result # "aborted" /\ h.code # "PUBREL" /\ ~ (h.result = "ok" /\ h.code = "PUBREC")
    <2> DEFINE status == IF h.result = "ok" THEN "done" ELSE "failed"
    <2>1. h.op \in Requests
        BY <1>2, <1>7 DEF IsWaiting
    <2>2. Replied(s, h) = Finish(s, h.op, status)
        BY <1>7 DEF Replied
    <2>3. /\ status \in {"done", "failed", "aborted"}
          /\ status = "done" => h.op \in K.sure
          /\ h.op \notin K.held
        BY <1>2, <1>7, <2>1 DEF Truthful
    <2> HIDE DEF status
    <2> QED
        BY <1>1, <1>3, <2>1, <2>2, <2>3, FinishMoves
<1> QED
    BY <1>2, <1>4, <1>5, <1>6, <1>7

\* Who may await a reply is sent again, or ends, or awaits it again.
LEMMA UnansweredMoves ==
    ASSUME NEW s, NEW D, Sane(s, D), NEW K, Apt(K), Good(s, K), NEW h \in Fitting(s, Waiters),
           h.op \in Requests => h.op \in D, Proper(h, K)
    PROVE  Moves(s, Unanswered(s, h), K)
<1>1. s \in Clients /\ Kinded /\ Requests \cap Incoming = {}
    BY DeliveryAssumption DEF Sane, Kinded
<1>2. IsWaiting(h) /\ h.pid \in Nat /\ (h.op \in Requests => Sent(s, h.op))
    BY DEF Fitting, Waiters, Sane
<1>3. CASE h.code = "PUBREL"
    <2>1. h.op \in Incoming
        BY <1>1, <1>2, <1>3, AwaitedIs DEF IsWaiting, Kinded
    <2>2. Expecting(h.op, "PUBREL", h.pid, "none") \in Fitting(s, Waiters)
        BY <1>1, <1>2, <2>1, WaiterFits
    <2>3. h.op \notin Requests
        BY <1>1, <2>1
    <2>4. Proper(Expecting(h.op, "PUBREL", h.pid, "none"), K)
        BY <2>3 DEF Proper, Expecting
    <2>5. Meant(s.fast, h.op, "PUBREL", h.pid, K)
        BY <2>3 DEF Meant
    <2> QED
        BY <1>3, <2>2, <2>3, <2>4, <2>5, WaitReplyMoves DEF Unanswered
<1>4. CASE h.code = "PUBCOMP"
    <2>1. h.op \in Requests /\ kind[h.op] = "qos2"
        BY <1>1, <1>2, <1>4, AwaitedIs DEF IsWaiting, Kinded
    <2>2. h.op \in K.sure
        BY <1>4, <2>1 DEF Proper, Second
    <2> QED
        BY <1>1, <1>4, <2>1, <2>2, ReleaseMoves DEF Unanswered
<1>5. CASE h.code # "PUBREL" /\ h.code # "PUBCOMP"
    <2>1. h.op \in Requests /\ kind[h.op] # "qos0"
        BY <1>2, <1>5 DEF IsWaiting
    <2>2. h.op \notin K.late /\ h.op \notin K.spent
        BY <1>5, <2>1 DEF Proper, Second, Apt
    <2> QED
        BY <1>1, <1>2, <1>5, <2>1, <2>2, AgainMoves DEF Unanswered
<1> QED
    BY <1>3, <1>4, <1>5

\* So is who waited to be written.
LEMMA UnwrittenMoves ==
    ASSUME NEW s, NEW D, Sane(s, D), NEW K, Apt(K), Good(s, K), NEW x \in Fitting(s, WriteReqs),
           x.op \in Requests => x.op \in D, x \in Unsent(K)
    PROVE  Moves(s, Unwritten(s, x), K)
<1>1. s \in Clients /\ Kinded /\ Requests \cap Incoming = {} /\ Proper(x, K) /\ x.op \notin K.spent
    BY DeliveryAssumption DEF Sane, Kinded, Unsent
<1>2. x.op \in Requests => Sent(s, x.op)
    BY DEF Sane
<1>3. CASE x.code \in {"PUBLISH", "SUBSCRIBE", "UNSUBSCRIBE"}
    <2>1. x.op \in Requests
        BY <1>3, PacketsAre
    <2>2. x.op \notin K.late
        BY <1>1, <1>3, <2>1 DEF Proper, Second
    <2> QED
        BY <1>1, <1>2, <1>3, <2>1, <2>2, AgainMoves DEF Unwritten
<1>4. CASE x.code = "PUBREL"
    <2>1. x.op \in Requests /\ kind[x.op] = "qos2"
        BY <1>4, PacketsAre
    <2>2. x.op \in K.sure
        BY <1>1, <1>4, <2>1 DEF Proper, Second
    <2> QED
        BY <1>1, <1>4, <2>1, <2>2, ReleaseMoves DEF Unwritten
<1>5. CASE x.code = "PUBCOMP"
    <2>1. x.op \in Incoming /\ x.pid \in Nat /\ (x.op \in Requests => x.pid = s.pid[x.op])
        BY <1>5, PacketsAre
    <2>2. Expecting(x.op, "PUBREL", x.pid, "none") \in Fitting(s, Waiters)
        BY <2>1, WaiterFits
    <2>3. x.op \notin Requests
        BY <1>1, <2>1
    <2>4. Proper(Expecting(x.op, "PUBREL", x.pid, "none"), K)
        BY <2>3 DEF Proper, Expecting
    <2>5. Meant(s.fast, x.op, "PUBREL", x.pid, K)
        BY <2>3 DEF Meant
    <2> QED
        BY <1>5, <2>2, <2>3, <2>4, <2>5, WaitReplyMoves DEF Unwritten
<1>6. CASE x.code \notin {"PUBLISH", "SUBSCRIBE", "UNSUBSCRIBE", "PUBREL", "PUBCOMP"}
    BY <1>1, <1>6, SelfMoves DEF Unwritten
<1> QED
    BY <1>3, <1>4, <1>5, <1>6

\* The reply to a packet.
Expected(x) == IF x.code = "PUBREL" THEN "PUBCOMP" ELSE Awaited(x.op)
Owed(x) == x.op \in Requests /\ kind[x.op] # "qos0"

\* What has become of a packet that was written.
Handled(s, t, x) ==
    /\ Once(x) => ~ Sent(t, x.op)
    /\ Owed(x) => Waiting(s, t, x.op, Expected(x), x.pid)
    /\ Ack(x) /\ s.open => t.stored[x.op] >= 1

\* Who was written awaits a reply, or has it, or ends.
LEMMA WrittenMoves ==
    ASSUME NEW s, NEW D, Sane(s, D), NEW K, Apt(K), Good(s, K), NEW x \in Fitting(s, WriteReqs),
           x.op \in Requests => x.op \in D, x \in Writable(K),
           Owed(x) => Meant(s.fast, x.op, Expected(x), x.pid, K)
    PROVE  Moves(s, Written(s, x), K) /\ Handled(s, Written(s, x), x)
<1>1. s \in Clients /\ Kinded /\ Requests \cap Incoming = {} /\ Proper(x, K)
    BY DeliveryAssumption DEF Sane, Kinded, Writable
<1>2. /\ x.code \in PacketCodes /\ x.pid \in Nat /\ (x.op \in Requests => x.pid = s.pid[x.op])
      /\ x.op \in Requests => Sent(s, x.op)
    BY PacketsAre DEF Sane
<1>3. CASE x.code = "PUBLISH" /\ kind[x.op] = "qos0"
    <2>1. x.op \in Requests
        BY <1>3, PacketsAre
    <2>2. x.op \notin K.held
        BY <1>3 DEF Apt
    <2>3. Moves(s, Finish(s, x.op, "done"), K) /\ ~ Sent(Finish(s, x.op, "done"), x.op)
        BY <1>1, <1>2, <1>3, <2>1, <2>2, FinishMoves
    <2>4. ~ Owed(x) /\ ~ Ack(x)
        BY <1>3 DEF Owed, Ack
    <2> QED
        BY <1>3, <2>3, <2>4 DEF Written, Handled
<1>4. ASSUME Owed(x), Expected(x) \in {"PUBCOMP", Awaited(x.op)},
             Expected(x) = "PUBCOMP" => kind[x.op] = "qos2" /\ x.code = "PUBREL",
             Expected(x) # "PUBCOMP" => x.code # "PUBREL", ~ Ack(x),
             Written(s, x) = WaitReply(s, Expected(x), x.pid, x.op)
      PROVE  Moves(s, Written(s, x), K) /\ Handled(s, Written(s, x), x)
    <2>1. x.op \in Requests /\ kind[x.op] # "qos0" /\ ~ Once(x)
        BY <1>4 DEF Owed, Once
    <2>2. Expecting(x.op, Expected(x), x.pid, "none") \in Fitting(s, Waiters)
        BY <1>1, <1>2, <1>4, <2>1, WaiterFits DEF Kinded
    <2>3. Proper(Expecting(x.op, Expected(x), x.pid, "none"), K)
        <3>1. Expected(x) \notin {"PUBREL", "PUBCOMP"} \/ x.code = "PUBREL"
            BY <1>1, <1>4, <2>1, AwaitedIs DEF Kinded
        <3>2. Second(x) <=> x.code = "PUBREL"
            BY <1>4 DEF Second, Ack
        <3>3. x.code = "PUBREL" => Expected(x) = "PUBCOMP"
            BY DEF Expected
        <3> QED
            BY <1>1, <2>1, <3>1, <3>2, <3>3 DEF Proper, Expecting, Second
    <2>4. Meant(s.fast, x.op, Expected(x), x.pid, K)
        BY <1>4
    <2>5. /\ Moves(s, WaitReply(s, Expected(x), x.pid, x.op), K)
          /\ Waiting(s, WaitReply(s, Expected(x), x.pid, x.op), x.op, Expected(x), x.pid)
        BY <2>2, <2>3, <2>4, WaitReplyMoves
    <2> QED
        BY <1>4, <2>1, <2>5 DEF Handled
<1>5. CASE x.code \in {"PUBLISH", "SUBSCRIBE", "UNSUBSCRIBE"}
   /\ ~ (x.code = "PUBLISH" /\ kind[x.op] = "qos0")
    <2>1. x.op \in Requests /\ x.code = BeginsWith(x.op)
        BY <1>5, PacketsAre
    <2>2. kind[x.op] # "qos0"
        BY <1>5, <2>1 DEF BeginsWith
    <2>3. Written(s, x) = WaitReply(s, Awaited(x.op), x.pid, x.op)
        BY <1>5, <2>2 DEF Written
    <2>4. Expected(x) = Awaited(x.op) /\ Awaited(x.op) # "PUBCOMP" /\ x.code # "PUBREL" /\ ~ Ack(x)
        BY <1>1, <1>5, <2>1, <2>2, AwaitedIs DEF Expected, Kinded, Ack
    <2> QED
        BY <1>4, <2>1, <2>2, <2>3, <2>4 DEF Owed
<1>6. CASE x.code = "PUBREL"
    <2>1. x.op \in Requests /\ kind[x.op] = "qos2"
        BY <1>6, PacketsAre
    <2>2. Written(s, x) = WaitReply(s, "PUBCOMP", x.pid, x.op) /\ Expected(x) = "PUBCOMP" /\ ~ Ack(x)
        BY <1>6 DEF Written, Expected, Ack
    <2> QED
        BY <1>4, <1>6, <2>1, <2>2 DEF Owed
<1>7. CASE x.code = "PUBREC"
    <2>1. x.op \in Incoming
        BY <1>7, PacketsAre
    <2>2. Expecting(x.op, "PUBREL", x.pid, "none") \in Fitting(s, Waiters)
        BY <1>2, <2>1, WaiterFits
    <2>3. x.op \notin Requests
        BY <1>1, <2>1
    <2>4. Proper(Expecting(x.op, "PUBREL", x.pid, "none"), K)
        BY <2>3 DEF Proper, Expecting
    <2>5. Meant(s.fast, x.op, "PUBREL", x.pid, K)
        BY <2>3 DEF Meant
    <2>6. Moves(s, WaitReply(s, "PUBREL", x.pid, x.op), K)
        BY <2>2, <2>3, <2>4, <2>5, WaitReplyMoves
    <2> QED
        BY <1>7, <2>3, <2>6 DEF Written, Handled, Once, Owed, Ack
<1>8. CASE x.code \in {"PUBACK", "PUBCOMP"}
    <2>1. x.op \in Incoming /\ x.op \notin Requests
        BY <1>1, <1>8, PacketsAre
    <2>2. Moves(s, Store(s, x.op), K) /\ (s.open => Store(s, x.op).stored[x.op] >= 1)
        BY <1>1, <2>1, StoreMoves
    <2> QED
        BY <1>8, <2>1, <2>2 DEF Written, Handled, Once, Owed
<1>9. CASE x.code = "DISCONNECT"
    <2> DEFINE t == [s EXCEPT !.shut = TRUE]
    <2>1. x.op \notin Requests
        BY <1>9, PacketsAre
    <2>2. t \in Clients
        BY <1>1 DEF Clients
    <2>3. /\ Untouched(s, t) /\ t.fast = s.fast /\ t.wire = s.wire /\ t.stored = s.stored
          /\ t.serial = s.serial
        BY <1>1 DEF Untouched, Alike, Clients
    <2>4. Written(s, x) = t
        BY <1>9 DEF Written
    <2> HIDE DEF t
    <2>5. Moves(s, t, K)
        BY <1>1, <2>2, <2>3, Unmoved
    <2> QED
        BY <1>9, <2>1, <2>4, <2>5 DEF Handled, Once, Owed, Ack
<1> QED
    BY <1>2, <1>3, <1>5, <1>6, <1>7, <1>8, <1>9 DEF PacketCodes

\* Who is aborted ends.
LEMMA AbortedMoves ==
    ASSUME NEW s, NEW D, Sane(s, D), ~ s.open, NEW K, Apt(K), Good(s, K), NEW x,
           x.op \in Requests => x.op \in D
    PROVE  Moves(s, Aborted(s, x), K)
<1>1. s \in Clients /\ Kinded /\ (x.op \in Requests => Sent(s, x.op)) /\ x.op \notin K.held
    BY DEF Sane, Kinded, Good
<1>2. x.op \in Requests => Moves(s, Finish(s, x.op, "aborted"), K)
    BY <1>1, FinishMoves
<1> QED
    BY <1>1, <1>2, SelfMoves DEF Aborted

-----------------------------------------------------------------------------
(* The loops, again *)

\* resend_unanswered, for all who await a reply.
LEMMA UnansweredAllMove ==
    ASSUME NEW s, NEW D, Sane(s, D), NEW E \in SUBSET Requests,
           NEW l \in Seq(Fitting(s, Waiters)), Distinct(l, E), D = Left(l, E, 0),
           NEW K, Apt(K), Good(s, K),
           \A i \in 1 .. Len(l) : Proper(l[i], K)
    PROVE  Moves(s, FoldLeft(Unanswered, s, l), K)
<1> DEFINE n == Len(l)
           Is(t, i) == Keeps(s, t, Left(l, E, i)) /\ Moves(s, t, K)
           Q == [i \in 0 .. n |-> {t \in Clients : Is(t, i)}]
<1>1. n \in Nat /\ \A i \in 1 .. n : i \in 1 .. Len(l) /\ l[i] \in Fitting(s, Waiters)
    BY LenProperties, ElementOfSeq
<1>2. s \in Q[0]
    <2>1. s \in Clients /\ Keeps(s, s, Left(l, E, 0))
        BY DEF Sane, Keeps
    <2>2. Moves(s, s, K)
        BY <2>1, SelfMoves
    <2> QED
        BY <1>1, <2>1, <2>2
<1>3. ASSUME NEW i \in 1 .. n, NEW t \in Q[i - 1]
      PROVE  Unanswered(t, l[i]) \in Q[i]
    <2> DEFINE x == l[i]
               F == Left(l, E, i - 1)
               u == Unanswered(t, x)
    <2>1. Keeps(s, t, F) /\ Moves(s, t, K)
        BY <1>3
    <2>2. x \in Fitting(s, Waiters) /\ i \in 1 .. Len(l)
        BY <1>1
    <2>3. F \ {x.op} = Left(l, E, i) /\ (x.op \in Requests => x.op \in F)
        BY <2>2, LeftGoes
    <2>4. Proper(x, K)
        BY <2>2
    <2> HIDE DEF F, x
    <2>5. Sane(t, F) /\ Good(t, K) /\ (t.open = s.open) /\ s \in Clients
        BY <2>1 DEF Keeps, Moves, Sane
    <2>6. x \in Fitting(t, Waiters)
        BY <2>1, <2>2, <2>3 DEF Keeps, Fitting
    <2>7. Keeps(t, u, F \ {x.op})
        BY <2>3, <2>5, <2>6, UnansweredKeeps
    <2>8. Moves(t, u, K)
        BY <2>3, <2>4, <2>5, <2>6, UnansweredMoves
    <2>9. Keeps(s, u, F \ {x.op}) /\ Moves(s, u, K)
        BY <2>1, <2>5, <2>7, <2>8, KeepsOn, MovesOn
    <2>10. Keeps(s, u, Left(l, E, i)) /\ u \in Clients /\ Moves(s, u, K)
        BY <2>3, <2>9 DEF Moves
    <2> HIDE DEF u
    <2>11. u \in Q[i]
        BY <1>1, <2>10
    <2> QED
        BY <2>11 DEF u, x
<1> HIDE DEF Q
<1>4. Answering!LeadsOn(Q, l)
    BY <1>3 DEF Answering!LeadsOn
<1>5. Answering!FoldLeft(Unanswered, s, l) \in Q[n]
    BY <1>2, <1>4, Answering!FoldSteps
<1>6. FoldLeft(Unanswered, s, l) \in Q[n]
    BY <1>5 DEF FoldLeft, MapThenFoldSet, Answering!FoldLeft, Answering!MapThenFoldSet, Max,
       Answering!Max
<1> QED
    <2> DEFINE t == FoldLeft(Unanswered, s, l)
    <2>1. t \in Q[n] /\ n \in 0 .. n
        BY <1>1, <1>6
    <2> HIDE DEF t, Is, n
    <2>2. Is(t, n)
        BY <2>1 DEF Q
    <2> QED
        BY <2>2 DEF t, Is

\* resend, for all who wait to be written.
LEMMA UnwrittenAllMove ==
    ASSUME NEW s, NEW D, Sane(s, D), NEW E \in SUBSET Requests,
           NEW l \in Seq(Fitting(s, WriteReqs)), Distinct(l, E), D = Left(l, E, 0),
           NEW K, Apt(K), Good(s, K),
           \A i \in 1 .. Len(l) : l[i] \in Unsent(K)
    PROVE  Moves(s, FoldLeft(Unwritten, s, l), K)
<1> DEFINE n == Len(l)
           Is(t, i) == Keeps(s, t, Left(l, E, i)) /\ Moves(s, t, K)
           Q == [i \in 0 .. n |-> {t \in Clients : Is(t, i)}]
<1>1. n \in Nat /\ \A i \in 1 .. n : i \in 1 .. Len(l) /\ l[i] \in Fitting(s, WriteReqs)
    BY LenProperties, ElementOfSeq
<1>2. s \in Q[0]
    <2>1. s \in Clients /\ Keeps(s, s, Left(l, E, 0))
        BY DEF Sane, Keeps
    <2>2. Moves(s, s, K)
        BY <2>1, SelfMoves
    <2> QED
        BY <1>1, <2>1, <2>2
<1>3. ASSUME NEW i \in 1 .. n, NEW t \in Q[i - 1]
      PROVE  Unwritten(t, l[i]) \in Q[i]
    <2> DEFINE x == l[i]
               F == Left(l, E, i - 1)
               u == Unwritten(t, x)
    <2>1. Keeps(s, t, F) /\ Moves(s, t, K)
        BY <1>3
    <2>2. x \in Fitting(s, WriteReqs) /\ i \in 1 .. Len(l)
        BY <1>1
    <2>3. F \ {x.op} = Left(l, E, i) /\ (x.op \in Requests => x.op \in F)
        BY <2>2, LeftGoes
    <2>4. x \in Unsent(K)
        BY <2>2
    <2> HIDE DEF F, x
    <2>5. Sane(t, F) /\ Good(t, K) /\ (t.open = s.open) /\ s \in Clients
        BY <2>1 DEF Keeps, Moves, Sane
    <2>6. x \in Fitting(t, WriteReqs)
        BY <2>1, <2>2, <2>3 DEF Keeps, Fitting
    <2>7. Keeps(t, u, F \ {x.op})
        BY <2>3, <2>5, <2>6, UnwrittenKeeps
    <2>8. Moves(t, u, K)
        BY <2>3, <2>4, <2>5, <2>6, UnwrittenMoves
    <2>9. Keeps(s, u, F \ {x.op}) /\ Moves(s, u, K)
        BY <2>1, <2>5, <2>7, <2>8, KeepsOn, MovesOn
    <2>10. Keeps(s, u, Left(l, E, i)) /\ u \in Clients /\ Moves(s, u, K)
        BY <2>3, <2>9 DEF Moves
    <2> HIDE DEF u
    <2>11. u \in Q[i]
        BY <1>1, <2>10
    <2> QED
        BY <2>11 DEF u, x
<1> HIDE DEF Q
<1>4. Rewriting!LeadsOn(Q, l)
    BY <1>3 DEF Rewriting!LeadsOn
<1>5. Rewriting!FoldLeft(Unwritten, s, l) \in Q[n]
    BY <1>2, <1>4, Rewriting!FoldSteps
<1>6. FoldLeft(Unwritten, s, l) \in Q[n]
    BY <1>5 DEF FoldLeft, MapThenFoldSet, Rewriting!FoldLeft, Rewriting!MapThenFoldSet, Max,
       Rewriting!Max
<1> QED
    <2> DEFINE t == FoldLeft(Unwritten, s, l)
    <2>1. t \in Q[n] /\ n \in 0 .. n
        BY <1>1, <1>6
    <2> HIDE DEF t, Is, n
    <2>2. Is(t, n)
        BY <2>1 DEF Q
    <2> QED
        BY <2>2 DEF t, Is

\* A write that ends with an error, for all who were written.
LEMMA AbortedAllMove ==
    ASSUME NEW s, NEW D, Sane(s, D), NEW E \in SUBSET Requests, ~ s.open,
           NEW l \in Seq(Fitting(s, WriteReqs)), Distinct(l, E), D = Left(l, E, 0),
           NEW K, Apt(K), Good(s, K)
    PROVE  Moves(s, FoldLeft(Aborted, s, l), K)
<1> DEFINE n == Len(l)
           Is(t, i) == Keeps(s, t, Left(l, E, i)) /\ Moves(s, t, K)
           Q == [i \in 0 .. n |-> {t \in Clients : Is(t, i)}]
<1>1. n \in Nat /\ \A i \in 1 .. n : i \in 1 .. Len(l) /\ l[i] \in Fitting(s, WriteReqs)
    BY LenProperties, ElementOfSeq
<1>2. s \in Q[0]
    <2>1. s \in Clients /\ Keeps(s, s, Left(l, E, 0))
        BY DEF Sane, Keeps
    <2>2. Moves(s, s, K)
        BY <2>1, SelfMoves
    <2> QED
        BY <1>1, <2>1, <2>2
<1>3. ASSUME NEW i \in 1 .. n, NEW t \in Q[i - 1]
      PROVE  Aborted(t, l[i]) \in Q[i]
    <2> DEFINE x == l[i]
               F == Left(l, E, i - 1)
               u == Aborted(t, x)
    <2>1. Keeps(s, t, F) /\ Moves(s, t, K)
        BY <1>3
    <2>2. x \in Fitting(s, WriteReqs) /\ i \in 1 .. Len(l)
        BY <1>1
    <2>3. F \ {x.op} = Left(l, E, i) /\ (x.op \in Requests => x.op \in F)
        BY <2>2, LeftGoes
    <2> HIDE DEF F, x
    <2>5. Sane(t, F) /\ Good(t, K) /\ (t.open = s.open) /\ s \in Clients
        BY <2>1 DEF Keeps, Moves, Sane
    <2>6. x \in Fitting(t, WriteReqs)
        BY <2>1, <2>2, <2>3 DEF Keeps, Fitting
    <2>7. Keeps(t, u, F \ {x.op})
        BY <2>3, <2>5, <2>6, AbortedKeeps
    <2>8. Moves(t, u, K)
        BY <2>3, <2>5, <2>6, AbortedMoves
    <2>9. Keeps(s, u, F \ {x.op}) /\ Moves(s, u, K)
        BY <2>1, <2>5, <2>7, <2>8, KeepsOn, MovesOn
    <2>10. Keeps(s, u, Left(l, E, i)) /\ u \in Clients /\ Moves(s, u, K)
        BY <2>3, <2>9 DEF Moves
    <2> HIDE DEF u
    <2>11. u \in Q[i]
        BY <1>1, <2>10
    <2> QED
        BY <2>11 DEF u, x
<1> HIDE DEF Q
<1>4. Aborting!LeadsOn(Q, l)
    BY <1>3 DEF Aborting!LeadsOn
<1>5. Aborting!FoldLeft(Aborted, s, l) \in Q[n]
    BY <1>2, <1>4, Aborting!FoldSteps
<1>6. FoldLeft(Aborted, s, l) \in Q[n]
    BY <1>5 DEF FoldLeft, MapThenFoldSet, Aborting!FoldLeft, Aborting!MapThenFoldSet, Max,
       Aborting!Max
<1> QED
    <2> DEFINE t == FoldLeft(Aborted, s, l)
    <2>1. t \in Q[n] /\ n \in 0 .. n
        BY <1>1, <1>6
    <2> HIDE DEF t, Is, n
    <2>2. Is(t, n)
        BY <2>1 DEF Q
    <2> QED
        BY <2>2 DEF t, Is

\* Of the replies that came early none is added.
LEMMA EarlyOnes ==
    ASSUME NEW s \in Clients, NEW t \in Clients, Goes(s, t)
    PROVE  \A i \in DOMAIN t.fast : \E j \in DOMAIN s.fast : t.fast[i] = s.fast[j]
<1>1. CASE ToSet(t.fast) \subseteq ToSet(s.fast)
    <2>1. ASSUME NEW i \in DOMAIN t.fast
          PROVE  \E j \in DOMAIN s.fast : t.fast[i] = s.fast[j]
        <3>1. t.fast[i] \in ToSet(s.fast)
            BY <1>1, <2>1 DEF ToSet
        <3> QED
            BY <3>1 DEF ToSet
    <2> QED
        BY <2>1
<1>2. CASE t.fast = <<>>
    BY <1>2
<1> QED
    BY <1>1, <1>2 DEF Goes, Advances

\* What has become of a packet remains so.
LEMMA HandledStays ==
    ASSUME NEW s \in Clients, NEW t \in Clients, NEW u \in Clients, NEW x, Goes(s, t), Goes(t, u),
           Handled(s, t, x), Once(x) => Sent(s, x.op), Ack(x) => x.op \in Incoming
    PROVE  Handled(s, u, x)
<1>1. ASSUME Once(x) PROVE ~ Sent(u, x.op)
    <2>1. x.op \in Requests /\ ~ Sent(t, x.op) /\ s.status[x.op] # "idle"
        BY <1>1 DEF Once, Handled, Sent
    <2>2. t.status[x.op] # "idle"
        BY <2>1 DEF Goes
    <2>3. u.status[x.op] = t.status[x.op]
        BY <2>1, <2>2 DEF Goes
    <2> QED
        BY <2>1, <2>3 DEF Sent
<1>2. ASSUME Owed(x) PROVE Waiting(s, u, x.op, Expected(x), x.pid)
    <2>1. Waiting(s, t, x.op, Expected(x), x.pid) /\ x.op \in Requests
        BY <1>2 DEF Handled, Owed
    <2>2. ASSUME NEW j \in DOMAIN t.handlers,
                 t.handlers[j] = Expecting(x.op, Expected(x), x.pid, "none")
          PROVE  \E k \in DOMAIN u.handlers : u.handlers[k] = Expecting(x.op, Expected(x), x.pid, "none")
        <3>1. t.handlers[j].op = x.op
            BY <2>2 DEF Expecting
        <3> QED
            BY <2>1, <2>2, <3>1 DEF Goes
    <2> QED
        BY <2>1, <2>2 DEF Waiting
<1>3. ASSUME Ack(x), s.open PROVE u.stored[x.op] >= 1
    <2>1. x.op \in Incoming /\ t.stored[x.op] >= 1
        BY <1>3 DEF Handled
    <2>2. t.stored[x.op] \in Nat /\ u.stored[x.op] \in Nat /\ t.stored[x.op] <= u.stored[x.op]
        BY <2>1, ClientParts DEF Goes
    <2> QED
        BY <2>1, <2>2
<1> QED
    BY <1>1, <1>2, <1>3 DEF Handled

\* The completion of a write, for all who were written.
LEMMA WrittenAllMove ==
    ASSUME NEW s, NEW D, Sane(s, D), NEW E \in SUBSET Requests,
           NEW l \in Seq(Fitting(s, WriteReqs)), Distinct(l, E), D = Left(l, E, 0),
           NEW K, Apt(K), Good(s, K),
           \A i \in 1 .. Len(l) :
              l[i] \in Writable(K) /\ (Owed(l[i]) => Meant(s.fast, l[i].op, Expected(l[i]), l[i].pid, K))
    PROVE  /\ Moves(s, FoldLeft(Written, s, l), K)
           /\ \A i \in 1 .. Len(l) : Handled(s, FoldLeft(Written, s, l), l[i])
<1> DEFINE n == Len(l)
           Is(t, i) == /\ Keeps(s, t, Left(l, E, i)) /\ Moves(s, t, K)
                       /\ \A j \in 1 .. i : Handled(s, t, l[j])
           Q == [i \in 0 .. n |-> {t \in Clients : Is(t, i)}]
<1>1. n \in Nat /\ \A i \in 1 .. n : i \in 1 .. Len(l) /\ l[i] \in Fitting(s, WriteReqs)
    BY LenProperties, ElementOfSeq
<1>2. s \in Q[0]
    <2>1. s \in Clients /\ Keeps(s, s, Left(l, E, 0))
        BY DEF Sane, Keeps
    <2>2. Moves(s, s, K)
        BY <2>1, SelfMoves
    <2>3. \A j \in 1 .. 0 : Handled(s, s, l[j])
        OBVIOUS
    <2>4. Is(s, 0)
        BY <2>1, <2>2, <2>3
    <2> HIDE DEF Is
    <2> QED
        BY <1>1, <2>1, <2>4
<1>3. ASSUME NEW i \in 1 .. n, NEW t \in Q[i - 1]
      PROVE  Written(t, l[i]) \in Q[i]
    <2> DEFINE x == l[i]
               F == Left(l, E, i - 1)
               u == Written(t, x)
    <2>1. Is(t, i - 1)
        <3> HIDE DEF Is
        <3> QED
            BY <1>1, <1>3
    <2>2. x \in Fitting(s, WriteReqs) /\ i \in 1 .. Len(l)
        BY <1>1
    <2>3. F \ {x.op} = Left(l, E, i) /\ (x.op \in Requests => x.op \in F)
        BY <2>2, LeftGoes
    <2>4. x \in Writable(K) /\ (Owed(x) => Meant(s.fast, x.op, Expected(x), x.pid, K))
        BY <2>2
    <2>5. Keeps(s, t, F) /\ Moves(s, t, K) /\ \A j \in 1 .. i - 1 : Handled(s, t, l[j])
        BY <2>1
    <2> HIDE DEF F, x, Is
    <2>6. /\ Sane(t, F) /\ Good(t, K) /\ (t.open = s.open) /\ s \in Clients /\ t \in Clients
          /\ Goes(s, t)
        BY <2>5 DEF Keeps, Moves, Sane
    <2>7. x \in Fitting(t, WriteReqs)
        BY <2>2, <2>3, <2>5 DEF Keeps, Fitting
    <2>8. Owed(x) => Meant(t.fast, x.op, Expected(x), x.pid, K)
        <3>1. \A k \in DOMAIN t.fast : \E j \in DOMAIN s.fast : t.fast[k] = s.fast[j]
            BY <2>6, EarlyOnes
        <3> QED
            BY <2>4, <3>1 DEF Meant
    <2>9. Keeps(t, u, F \ {x.op})
        BY <2>3, <2>6, <2>7, WrittenKeeps
    <2>10. Moves(t, u, K) /\ Handled(t, u, x)
        BY <2>3, <2>4, <2>6, <2>7, <2>8, WrittenMoves
    <2>11. Keeps(s, u, F \ {x.op}) /\ Moves(s, u, K)
        BY <2>5, <2>6, <2>9, <2>10, KeepsOn, MovesOn
    <2>12. Handled(s, u, x)
        <3>1. Waiting(t, u, x.op, Expected(x), x.pid) => Waiting(s, u, x.op, Expected(x), x.pid)
            <4>1. \A k \in DOMAIN t.fast : \E j \in DOMAIN s.fast : t.fast[k] = s.fast[j]
                BY <2>6, EarlyOnes
            <4> QED
                BY <4>1 DEF Waiting
        <3> QED
            BY <2>6, <2>10, <3>1 DEF Handled
    <2> HIDE DEF u
    <2>13. u \in Clients /\ Goes(t, u)
        BY <2>10 DEF Moves
    <2>14. ASSUME NEW j \in 1 .. i - 1 PROVE Handled(s, u, l[j])
        <3> DEFINE y == l[j]
        <3>1. j \in 1 .. n
            BY <1>1, <2>14
        <3>2. y \in Fitting(s, WriteReqs) /\ (y.op \in Requests => y.op \in D)
            <4>1. y \in Fitting(s, WriteReqs)
                BY <1>1, <3>1
            <4>2. y.op \in Requests => y.op \in D
                BY <1>1, <3>1 DEF Left
            <4> QED
                BY <4>1, <4>2
        <3> HIDE DEF y
        <3>3. Once(y) => Sent(s, y.op)
            BY <3>2 DEF Once, Sane
        <3>4. Ack(y) => y.op \in Incoming
            <4>1. Requests \cap Incoming = {}
                BY DeliveryAssumption
            <4>2. y.code = "PUBCOMP" \/ y.code = "PUBACK" => y.op \in Incoming
                BY <3>2, PacketsAre
            <4> QED
                BY <4>2 DEF Ack
        <3>5. Handled(s, t, y)
            BY <2>5, <2>14 DEF y
        <3>6. Handled(s, u, y)
            BY <2>6, <2>13, <3>3, <3>4, <3>5, HandledStays
        <3> QED
            BY <3>6 DEF y
    <2>15. \A j \in 1 .. i : Handled(s, u, l[j])
        <3>1. \A j \in 1 .. i : j \in 1 .. i - 1 \/ j = i
            BY <1>1
        <3> QED
            BY <2>12, <2>14, <3>1 DEF x
    <2>16. Is(u, i)
        BY <2>3, <2>11, <2>15 DEF Is
    <2>17. u \in Q[i]
        BY <1>1, <2>13, <2>16
    <2> QED
        BY <2>17 DEF u, x
<1> HIDE DEF Q
<1>4. Ending!LeadsOn(Q, l)
    BY <1>3 DEF Ending!LeadsOn
<1>5. Ending!FoldLeft(Written, s, l) \in Q[n]
    BY <1>2, <1>4, Ending!FoldSteps
<1>6. FoldLeft(Written, s, l) \in Q[n]
    BY <1>5 DEF FoldLeft, MapThenFoldSet, Ending!FoldLeft, Ending!MapThenFoldSet, Max, Ending!Max
<1> QED
    <2> DEFINE t == FoldLeft(Written, s, l)
    <2>1. t \in Q[n] /\ n \in 0 .. n
        BY <1>1, <1>6
    <2> HIDE DEF t, Is
    <2>2. Is(t, n)
        BY <2>1 DEF Q
    <2> QED
        BY <2>2 DEF t, Is

-----------------------------------------------------------------------------
(* resend *)

\* Everything is sent again that may be, and what was on its way is not touched.
LEMMA SenderResendMoves ==
    ASSUME NEW s, Sane(s, {}), ~ s.writing, NEW K, Apt(K), Good(s, K)
    PROVE  LET t == SenderResend(s)
           IN  t \in Clients /\ Good(t, K) /\ Lasts(s, t) /\ Advances(s, t) /\ Fresh(s, t, K)
<1> DEFINE cleared == Cleared(s)
           told == Retold(s)
           refilled == Refilled(s)
           queue == Sorted(refilled.queue)
           sorted == [refilled EXCEPT !.queue = queue, !.writing = FALSE]
           E == Left(s.queue, {}, 0)
           D == Left(s.handlers, E, 0)
<1>1. /\ cleared \in Clients /\ Alike(s, cleared) /\ cleared.queue = <<>>
      /\ cleared.handlers = <<>> /\ cleared.batch = <<>> /\ cleared.posted = s.posted
      /\ cleared.fast = s.fast /\ cleared.wire = s.wire /\ cleared.serial = s.serial
      /\ cleared.stored = s.stored /\ cleared.writing
      /\ E \in SUBSET Requests /\ Distinct(s.queue, {}) /\ Distinct(s.handlers, E)
      /\ Sane(cleared, D) /\ s.handlers \in Seq(Fitting(cleared, Waiters))
      /\ Keeps(cleared, told, E) /\ s.queue \in Seq(Fitting(told, WriteReqs))
      /\ E = Left(s.queue, {}, 0) /\ D = Left(s.handlers, E, 0)
    <2> HIDE DEF E, D
    <2>1. E = Left(s.queue, {}, 0) /\ D = Left(s.handlers, E, 0)
        BY DEF E, D
    <2> QED
        BY <2>1, ClearedKeeps
<1>2. SenderResend(s) = DoWrite(sorted)
    BY Zenon DEF SenderResend, Cleared, Retold, Refilled
<1>3. told = FoldLeft(Unanswered, cleared, s.handlers)
    BY DEF Retold
<1>4. refilled = FoldLeft(Unwritten, told, s.queue)
    BY DEF Refilled
<1> HIDE DEF cleared, told, refilled, E, D
<1>5. s \in Clients /\ s.queue \in Seq(Unsent(K)) /\ s.handlers \in Seq(Hopeful(K)) /\ s.batch = <<>>
    BY DEF Sane, Good
<1>6. Good(cleared, K)
    <2>1. <<>> \in Seq(Unsent(K)) /\ <<>> \in Seq(Writable(K)) /\ <<>> \in Seq(Hopeful(K))
        BY EmptySeq
    <2> QED
        BY <1>1, <2>1 DEF Good, Alike, Sent
<1>7. Moves(cleared, told, K)
    <2>1. \A i \in 1 .. Len(s.handlers) : Proper(s.handlers[i], K)
        <3>1. \A i \in 1 .. Len(s.handlers) : s.handlers[i] \in Hopeful(K)
            BY <1>5, ElementOfSeq
        <3> QED
            BY <3>1 DEF Hopeful
    <2> QED
        BY <1>1, <1>3, <1>6, <2>1, UnansweredAllMove
<1>8. Moves(told, refilled, K)
    <2>1. \A i \in 1 .. Len(s.queue) : s.queue[i] \in Unsent(K)
        BY <1>5, ElementOfSeq
    <2>2. Sane(told, E) /\ Good(told, K)
        BY <1>1, <1>7 DEF Keeps, Moves
    <2>3. {} \in SUBSET Requests
        OBVIOUS
    <2> QED
        BY <1>1, <1>4, <2>1, <2>2, <2>3, UnwrittenAllMove
<1>9. Moves(cleared, refilled, K)
    BY <1>1, <1>7, <1>8, MovesOn
<1>10. refilled \in Clients /\ refilled.queue \in Seq(WriteReqs) /\ refilled.queue \in Seq(Unsent(K))
    BY <1>9 DEF Moves, Clients, Good
<1>11. queue \in Seq(WriteReqs) /\ queue \in Seq(Unsent(K))
    BY <1>10, SortedTells
<1> HIDE DEF queue
<1>12. sorted \in Clients
    BY <1>10, <1>11 DEF Clients
<1>13. /\ Alike(refilled, sorted) /\ sorted.queue = queue /\ sorted.handlers = refilled.handlers
       /\ sorted.batch = refilled.batch /\ sorted.posted = refilled.posted /\ sorted.writing = FALSE
       /\ sorted.fast = refilled.fast /\ sorted.wire = refilled.wire
       /\ sorted.serial = refilled.serial /\ sorted.stored = refilled.stored
    BY <1>10 DEF Clients, Alike
<1> HIDE DEF sorted
<1>14. Good(sorted, K)
    BY <1>9, <1>11, <1>13 DEF Good, Moves, Alike, Sent
<1>15. Moves(sorted, DoWrite(sorted), K)
    BY <1>12, <1>14, DoWriteMoves
<1>16. Advances(s, sorted)
    <2>1. /\ refilled.writing /\ refilled.batch = <<>> /\ refilled.wire = s.wire
          /\ \A r \in Requests : Count(refilled.fast, r) <= Count(s.fast, r)
          /\ ToSet(refilled.fast) \subseteq ToSet(s.fast)
        BY <1>1, <1>9 DEF Moves, Goes, Advances
    <2>2. s.writing = FALSE
        BY <1>5, ClientParts
    <2> QED
        BY <1>5, <1>13, <2>1, <2>2 DEF Advances
<1>17. Lasts(s, sorted)
    BY <1>1, <1>9, <1>13 DEF Lasts, Moves, Goes, Alike, Sent
<1>18. DoWrite(sorted) \in Clients /\ Good(DoWrite(sorted), K) /\ Goes(sorted, DoWrite(sorted))
    BY <1>15 DEF Moves
<1>19. Advances(s, DoWrite(sorted))
    BY <1>5, <1>12, <1>16, <1>18, AdvancesOn DEF Goes
<1>20. Lasts(s, DoWrite(sorted))
    <2>1. \A m \in Incoming : /\ s.stored[m] \in Nat /\ sorted.stored[m] \in Nat
                              /\ DoWrite(sorted).stored[m] \in Nat
        BY <1>5, <1>12, <1>18, ClientParts
    <2>2. ASSUME NEW m \in Incoming PROVE s.stored[m] <= DoWrite(sorted).stored[m]
        BY <1>17, <1>18, <2>1 DEF Goes, Lasts
    <2>3. ASSUME NEW r \in Requests, s.status[r] # "idle"
          PROVE  /\ DoWrite(sorted).status[r] # "idle" /\ DoWrite(sorted).serial[r] = s.serial[r]
                 /\ ~ Sent(s, r) => DoWrite(sorted).status[r] = s.status[r]
                 /\ Sent(DoWrite(sorted), r) => DoWrite(sorted).pid[r] = s.pid[r]
        <3>1. /\ sorted.status[r] # "idle" /\ sorted.serial[r] = s.serial[r]
              /\ ~ Sent(s, r) => sorted.status[r] = s.status[r]
              /\ Sent(sorted, r) => sorted.pid[r] = s.pid[r]
            BY <1>17, <2>3 DEF Lasts
        <3>2. /\ DoWrite(sorted).status[r] # "idle" /\ DoWrite(sorted).serial[r] = sorted.serial[r]
              /\ ~ Sent(sorted, r) => DoWrite(sorted).status[r] = sorted.status[r]
              /\ Sent(DoWrite(sorted), r) => DoWrite(sorted).pid[r] = sorted.pid[r]
            BY <1>18, <3>1 DEF Goes
        <3> QED
            BY <3>1, <3>2 DEF Sent
    <2> QED
        BY <2>2, <2>3 DEF Lasts
<1>21. Fresh(s, DoWrite(sorted), K)
    BY <1>13, <1>15 DEF Moves, Fresh
<1> QED
    BY <1>2, <1>18, <1>19, <1>20, <1>21

-----------------------------------------------------------------------------
(* What is known from one step to the next *)

\* What is known of the requests is of requests.
LEMMA KnownIsApt ==
    ASSUME Kinded, NEW s, NEW b, NEW u
    PROVE  Apt(Known(s, b, u))
BY DEF Apt, Known, Has

\* With less to forbid, and more of whom success may be said, all is as good.
Weaker(K, L) ==
    K.sure \subseteq L.sure /\ L.late \subseteq K.late /\ L.held \subseteq K.held
    /\ L.spent \subseteq K.spent

\* What may be sent, awaited or told may be with less known.
LEMMA ProperWeaker ==
    ASSUME NEW K, NEW L, Weaker(K, L)
    PROVE  /\ \A x : Proper(x, K) => Proper(x, L)
           /\ \A h : Truthful(h, K) => Truthful(h, L)
           /\ Unsent(K) \subseteq Unsent(L) /\ Writable(K) \subseteq Writable(L)
           /\ Hopeful(K) \subseteq Hopeful(L) /\ Tellable(K) \subseteq Tellable(L)
<1>1. \A x : Proper(x, K) => Proper(x, L)
    BY DEF Weaker, Proper
<1>2. \A h : Truthful(h, K) => Truthful(h, L)
    BY DEF Weaker, Truthful
<1> QED
    BY <1>1, <1>2 DEF Weaker, Unsent, Writable, Hopeful, Tellable

\* A list of members of a set is one of members of a larger set.
LEMMA WiderSeq == ASSUME NEW S, NEW T, S \subseteq T, NEW l \in Seq(S) PROVE l \in Seq(T)
<1>1. \A i \in DOMAIN l : l[i] \in T
    BY ElementOfSeq, LenProperties
<1> QED
    BY <1>1, MembersOf

\* The client is as good with less known.
LEMMA GoodWeaker ==
    ASSUME NEW K, NEW L, Weaker(K, L), NEW s, Good(s, K)
    PROVE  Good(s, L)
<1>1. s.queue \in Seq(Unsent(L))
    BY ProperWeaker, WiderSeq DEF Good
<1>2. s.batch \in Seq(Writable(L))
    BY ProperWeaker, WiderSeq DEF Good
<1>3. s.handlers \in Seq(Hopeful(L))
    BY ProperWeaker, WiderSeq DEF Good
<1>4. s.posted \in Seq(Tellable(L))
    BY ProperWeaker, WiderSeq DEF Good
<1> QED
    BY <1>1, <1>2, <1>3, <1>4 DEF Good, Weaker

\* Requests that have begun and go on keep what is known of them: none begins with the
\* identifier of one that the broker has not released.
LEMMA KnownOn ==
    ASSUME NEW s, NEW D, Sane(s, D), NEW t, NEW E, Sane(t, E), Lasts(s, t), t.open = s.open,
           NEW b, NEW u, Good(t, Known(s, b, u)),
           u.abandons = 0 /\ s.open => \A p \in b.open : \E r \in Known(s, b, u).held : s.pid[r] = p
    PROVE  LET K == Known(s, b, u)
               L == Known(t, b, u)
           IN  /\ L.sure = K.sure /\ L.held = K.held /\ L.spent = K.spent
               /\ L.late \subseteq K.late /\ Good(t, L)
<1> DEFINE K == Known(s, b, u)
           L == Known(t, b, u)
<1>1. L.sure = K.sure /\ L.spent = K.spent
    BY DEF Known
<1>2. ASSUME NEW r \in K.held
      PROVE  /\ r \in Requests /\ kind[r] = "qos2" /\ Sent(s, r) /\ s.pid[r] \in b.open
             /\ Sent(t, r) /\ t.pid[r] = s.pid[r] /\ u.abandons = 0 /\ s.open
    <2>1. /\ r \in Requests /\ kind[r] = "qos2" /\ Sent(s, r) /\ s.pid[r] \in b.open
          /\ u.abandons = 0 /\ s.open
        BY <1>2 DEF Known
    <2>2. Sent(t, r)
        BY <1>2 DEF Good
    <2> QED
        BY <2>1, <2>2 DEF Lasts, Sent
<1>3. ASSUME NEW r \in L.held PROVE r \in K.held
    <2>1. /\ r \in Requests /\ kind[r] = "qos2" /\ Sent(t, r) /\ t.pid[r] \in b.open
          /\ u.abandons = 0 /\ s.open
        BY <1>3 DEF Known
    <2>2. PICK q \in K.held : s.pid[q] = t.pid[r]
        BY <2>1
    <2>3. q = r
        BY <1>2, <2>1, <2>2 DEF Sane, Ids, Numbered
    <2> QED
        BY <2>2, <2>3
<1>4. L.held = K.held
    <2>1. ASSUME NEW r \in K.held PROVE r \in L.held
        BY <1>2, <2>1 DEF Known
    <2> QED
        BY <1>3, <2>1
<1>5. ASSUME NEW r \in L.late PROVE r \in K.late
    <2>1. /\ r \in Has(b) /\ r \in Requests /\ kind[r] = "qos2" /\ t.pid[r] \notin b.open
          /\ u.abandons = 0 /\ u.losses = 0 /\ s.open
        BY <1>5 DEF Known, Has
    <2>2. s.pid[r] \notin b.open
        <3>1. SUFFICES ASSUME s.pid[r] \in b.open PROVE FALSE
            OBVIOUS
        <3>2. PICK q \in K.held : s.pid[q] = s.pid[r]
            BY <2>1, <3>1
        <3>3. q \in Requests /\ Numbered(s, q) /\ s.pid[q] \in 1 .. PacketIdsMax
            <4>1. q \in Requests /\ Numbered(s, q)
                BY <1>2, <3>2 DEF Numbered
            <4>2. s.pid[q] \in IF Numbered(s, q) THEN 1 .. PacketIdsMax ELSE {0}
                BY <4>1 DEF Sane, Ids
            <4> QED
                BY <4>1, <4>2
        <3>4. Numbered(s, r)
            <4>1. s.pid[r] \in IF Numbered(s, r) THEN 1 .. PacketIdsMax ELSE {0}
                BY <2>1 DEF Sane, Ids
            <4> QED
                BY <3>2, <3>3, <4>1
        <3>5. q = r
            BY <2>1, <3>2, <3>3, <3>4 DEF Sane, Ids
        <3> QED
            BY <1>2, <2>1, <3>1, <3>2, <3>5
    <2> QED
        BY <2>1, <2>2 DEF Known
<1>6. Weaker(K, L)
    BY <1>1, <1>4, <1>5 DEF Weaker
<1>7. Good(t, L)
    BY <1>6, GoodWeaker
<1> QED
    BY <1>1, <1>4, <1>5, <1>7

\* A request that is in one of the lists is there once, and in no other.
LEMMA OnePlace ==
    ASSUME NEW s, NEW D, Sane(s, D), NEW r \in Requests
    PROVE  /\ (\E i \in DOMAIN s.batch : s.batch[i].op = r) =>
                 /\ Count(s.batch, r) = 1
                 /\ \A i \in DOMAIN s.handlers : s.handlers[i].op # r
                 /\ \A i \in DOMAIN s.posted : s.posted[i].op # r
                 /\ \A i \in DOMAIN s.queue : s.queue[i].op # r
                 /\ \A i, j \in DOMAIN s.batch : s.batch[i].op = r /\ s.batch[j].op = r => i = j
           /\ (\E i \in DOMAIN s.handlers : s.handlers[i].op = r) =>
                 /\ Count(s.batch, r) = 0
                 /\ \A i \in DOMAIN s.batch : s.batch[i].op # r
                 /\ \A i \in DOMAIN s.posted : s.posted[i].op # r
                 /\ \A i \in DOMAIN s.queue : s.queue[i].op # r
                 /\ \A i, j \in DOMAIN s.handlers : s.handlers[i].op = r /\ s.handlers[j].op = r => i = j
           /\ Carries(s, r) => Sent(s, r) /\ r \notin D
           /\ ~ Sent(s, r) => /\ \A i \in DOMAIN s.batch : s.batch[i].op # r
                              /\ \A i \in DOMAIN s.handlers : s.handlers[i].op # r
                              /\ \A i \in DOMAIN s.posted : s.posted[i].op # r
                              /\ \A i \in DOMAIN s.queue : s.queue[i].op # r
<1>1. /\ s.queue \in Seq(WriteReqs) /\ s.batch \in Seq(WriteReqs) /\ s.handlers \in Seq(Waiters)
      /\ s.posted \in Seq(Posts)
    BY ClientParts DEF Sane
<1>2. /\ Count(s.queue, r) \in Nat
      /\ Count(s.queue, r) = 0 <=> \A i \in DOMAIN s.queue : s.queue[i].op # r
    BY <1>1, CountTells
<1>3. /\ Count(s.batch, r) \in Nat
      /\ Count(s.batch, r) = 0 <=> \A i \in DOMAIN s.batch : s.batch[i].op # r
      /\ Count(s.batch, r) = 1 =>
           \A i, j \in DOMAIN s.batch : s.batch[i].op = r /\ s.batch[j].op = r => i = j
    BY <1>1, CountTells
<1>4. /\ Count(s.handlers, r) \in Nat
      /\ Count(s.handlers, r) = 0 <=> \A i \in DOMAIN s.handlers : s.handlers[i].op # r
      /\ Count(s.handlers, r) = 1 =>
           \A i, j \in DOMAIN s.handlers : s.handlers[i].op = r /\ s.handlers[j].op = r => i = j
    BY <1>1, CountTells
<1>5. /\ Count(s.posted, r) \in Nat
      /\ Count(s.posted, r) = 0 <=> \A i \in DOMAIN s.posted : s.posted[i].op # r
    BY <1>1, CountTells
<1>6. Count(s.queue, r) + Count(s.batch, r) + Count(s.handlers, r) + Count(s.posted, r) =
      IF Sent(s, r) /\ r \notin D THEN 1 ELSE 0
    BY DEF Sane, Placed, Held
<1> DEFINE cq == Count(s.queue, r)
           cb == Count(s.batch, r)
           ch == Count(s.handlers, r)
           cp == Count(s.posted, r)
<1>11. cq \in Nat /\ cb \in Nat /\ ch \in Nat /\ cp \in Nat
    BY <1>2, <1>3, <1>4, <1>5
<1>12. cq + cb + ch + cp = IF Sent(s, r) /\ r \notin D THEN 1 ELSE 0
    BY <1>6
<1> HIDE DEF cq, cb, ch, cp
<1>13. cb # 0 => cb = 1 /\ ch = 0 /\ cp = 0 /\ cq = 0 /\ Sent(s, r) /\ r \notin D
    BY <1>11, <1>12
<1>14. ch # 0 => ch = 1 /\ cb = 0 /\ cp = 0 /\ cq = 0 /\ Sent(s, r) /\ r \notin D
    BY <1>11, <1>12
<1>15. ~ Sent(s, r) => ch = 0 /\ cb = 0 /\ cp = 0 /\ cq = 0
    BY <1>11, <1>12
<1>7. ASSUME \E i \in DOMAIN s.batch : s.batch[i].op = r
      PROVE  /\ Count(s.batch, r) = 1 /\ Count(s.handlers, r) = 0 /\ Count(s.posted, r) = 0
             /\ Count(s.queue, r) = 0 /\ Sent(s, r) /\ r \notin D
    <2>1. Count(s.batch, r) # 0
        BY <1>3, <1>7
    <2> QED
        BY <1>13, <2>1 DEF cb, ch, cp, cq
<1>8. ASSUME \E i \in DOMAIN s.handlers : s.handlers[i].op = r
      PROVE  /\ Count(s.handlers, r) = 1 /\ Count(s.batch, r) = 0 /\ Count(s.posted, r) = 0
             /\ Count(s.queue, r) = 0 /\ Sent(s, r) /\ r \notin D
    <2>1. Count(s.handlers, r) # 0
        BY <1>4, <1>8
    <2> QED
        BY <1>14, <2>1 DEF cb, ch, cp, cq
<1>9. ~ Sent(s, r) => /\ Count(s.handlers, r) = 0 /\ Count(s.batch, r) = 0
                      /\ Count(s.posted, r) = 0 /\ Count(s.queue, r) = 0
    BY <1>15 DEF cb, ch, cp, cq
<1>10. Carries(s, r) => Sent(s, r) /\ r \notin D
    BY <1>7, <1>8 DEF Carries
<1> QED
    BY <1>2, <1>3, <1>4, <1>5, <1>7, <1>8, <1>9, <1>10

-----------------------------------------------------------------------------
(* What is on its way when a function has run *)

\* Packets that are written are those of the requests and messages.
LEMMA WiresOn ==
    ASSUME NEW s \in Clients, NEW t \in Clients, Advances(s, t), s.wire \in Seq(Wires)
    PROVE  t.wire \in Seq(Wires)
<1>1. t.batch \in Seq(WriteReqs)
    BY ClientParts
<1>2. \A x \in WriteReqs : Packet(x) \in Wires
    <2>1. ASSUME NEW x \in WriteReqs PROVE Packet(x) \in Wires
        <3>1. /\ x.op \in Anyone /\ x.code \in PacketCodes /\ x.pid \in Nat /\ IsWrite(x)
              /\ Packet(x) \in [op : Anyone, code : PacketCodes, pid : Nat]
              /\ Packet(x).op = x.op /\ Packet(x).code = x.code
            BY DEF WriteReqs, Packet
        <3> QED
            BY <3>1, DeliveryAssumption DEF Wires, IsWrite
    <2> QED
        BY <2>1
<1>3. Packets(t.batch) \in Seq(Wires)
    <2>1. /\ Packets(t.batch) \in Seq([op : Anyone, code : PacketCodes, pid : Nat])
          /\ DOMAIN Packets(t.batch) = DOMAIN t.batch
          /\ \A i \in DOMAIN t.batch : Packets(t.batch)[i] = Packet(t.batch[i])
        BY <1>1, PacketsAreWires
    <2>2. \A i \in DOMAIN t.batch : t.batch[i] \in WriteReqs
        BY <1>1, ElementOfSeq, LenProperties
    <2>3. \A i \in DOMAIN Packets(t.batch) : Packets(t.batch)[i] \in Wires
        BY <1>2, <2>1, <2>2
    <2> QED
        BY <2>1, <2>3, MembersOf
<1> QED
    BY <1>3, ConcatProperties DEF Advances

\* The packets of a write on the wire: those that were there, then its own.
LEMMA WrittenWire ==
    ASSUME NEW s \in Clients, NEW t \in Clients, s.wire \in Seq(Wires), t.wire \in Seq(Wires),
           t.wire = s.wire \o Packets(t.batch)
    PROVE  /\ Len(t.wire) = Len(s.wire) + Len(t.batch) /\ Older(t, t.wire) = Len(s.wire)
           /\ Len(s.wire) \in Nat /\ Len(t.batch) \in Nat
           /\ \A i \in DOMAIN s.wire : i \in DOMAIN t.wire /\ i <= Len(s.wire) /\ t.wire[i] = s.wire[i]
           /\ \A i \in DOMAIN t.wire :
                 \/ i \in DOMAIN s.wire /\ i <= Len(s.wire) /\ t.wire[i] = s.wire[i]
                 \/ /\ i - Len(s.wire) \in DOMAIN t.batch /\ i > Len(s.wire)
                    /\ t.wire[i] = Packet(t.batch[i - Len(s.wire)])
           /\ \A r : Count(t.wire, r) = Count(s.wire, r) + Count(t.batch, r)
           /\ Tailed(t, t.wire)
<1> DEFINE w == s.wire
           p == Packets(t.batch)
           P == [op : Anyone, code : PacketCodes, pid : Nat]
<1>1. t.batch \in Seq(WriteReqs)
    BY ClientParts
<1>2. /\ p \in Seq(P) /\ DOMAIN p = DOMAIN t.batch /\ Len(p) = Len(t.batch)
      /\ \A i \in DOMAIN t.batch : p[i] = Packet(t.batch[i])
    BY <1>1, PacketsAreWires
<1>3. w \in Seq(P)
    <2>1. Wires \subseteq P
        BY DEF Wires
    <2> QED
        BY <2>1, WiderSeq
<1> HIDE DEF p, P
<1>4. t.wire = w \o p
    BY DEF p
<1> HIDE DEF w
<1>5. /\ Len(w) \in Nat /\ DOMAIN w = 1 .. Len(w) /\ Len(p) \in Nat /\ DOMAIN p = 1 .. Len(p)
      /\ Len(w \o p) = Len(w) + Len(p) /\ DOMAIN (w \o p) = 1 .. Len(w) + Len(p)
      /\ \A i \in 1 .. Len(w) + Len(p) : (w \o p)[i] = IF i <= Len(w) THEN w[i] ELSE p[i - Len(w)]
    <2>1. /\ Len(w) \in Nat /\ DOMAIN w = 1 .. Len(w) /\ Len(p) \in Nat /\ DOMAIN p = 1 .. Len(p)
        BY <1>2, <1>3, LenProperties
    <2>2. /\ w \o p \in Seq(P) /\ Len(w \o p) = Len(w) + Len(p)
          /\ \A i \in 1 .. Len(w) + Len(p) : (w \o p)[i] = IF i <= Len(w) THEN w[i] ELSE p[i - Len(w)]
        BY <1>2, <1>3, ConcatProperties
    <2>3. DOMAIN (w \o p) = 1 .. Len(w) + Len(p)
        BY <2>2, LenProperties
    <2> QED
        BY <2>1, <2>2, <2>3
<1>6. Older(t, t.wire) = Len(w)
    BY <1>2, <1>4, <1>5 DEF Older
<1>7. \A i \in DOMAIN w : i \in DOMAIN t.wire /\ i <= Len(w) /\ t.wire[i] = w[i]
    BY <1>4, <1>5
<1>8. ASSUME NEW i \in DOMAIN t.wire
      PROVE  \/ i \in DOMAIN w /\ i <= Len(w) /\ t.wire[i] = w[i]
             \/ i - Len(w) \in DOMAIN t.batch /\ i > Len(w) /\ t.wire[i] = Packet(t.batch[i - Len(w)])
    <2>1. i \in 1 .. Len(w) + Len(p)
        BY <1>4, <1>5, <1>8
    <2>2. CASE i <= Len(w)
        BY <1>4, <1>5, <2>1, <2>2
    <2>3. CASE ~ (i <= Len(w))
        <3>1. i - Len(w) \in 1 .. Len(p) /\ i > Len(w)
            BY <1>5, <2>1, <2>3
        <3>2. t.wire[i] = p[i - Len(w)]
            BY <1>4, <1>5, <2>1, <2>3
        <3> QED
            BY <1>2, <1>5, <3>1, <3>2
    <2> QED
        BY <2>2, <2>3
<1>9. ASSUME NEW r PROVE Count(t.wire, r) = Count(w, r) + Count(t.batch, r)
    <2>1. Count(w \o p, r) = Count(w, r) + Count(p, r)
        BY <1>2, <1>3, CountConcat
    <2>2. \A i \in DOMAIN p : p[i].op = t.batch[i].op
        <3>1. \A x : Packet(x).op = x.op
            BY DEF Packet
        <3> QED
            BY <1>2, <3>1
    <2>3. Count(p, r) = Count(t.batch, r)
        BY <1>2, <2>2, CountSame
    <2> QED
        BY <1>4, <2>1, <2>3
<1>10. Tailed(t, t.wire)
    <2>1. ASSUME NEW j \in DOMAIN t.batch, j + Len(w) \in DOMAIN t.wire
          PROVE  t.wire[j + Len(w)] = Packet(t.batch[j])
        <3>1. j \in 1 .. Len(p)
            BY <1>2, <1>5, <2>1
        <3> DEFINE i == j + Len(w)
        <3>4. i \in 1 .. Len(w) + Len(p) /\ ~ (i <= Len(w)) /\ i - Len(w) = j
            BY <1>5, <3>1
        <3> HIDE DEF i
        <3>5. t.wire[i] = p[i - Len(w)]
            BY <1>4, <1>5, <3>4
        <3>3. t.wire[j + Len(w)] = p[j]
            BY <3>4, <3>5 DEF i
        <3> QED
            BY <1>2, <2>1, <3>3
    <2> QED
        BY <1>6, <2>1 DEF Tailed
<1>11. Len(t.wire) = Len(w) + Len(t.batch) /\ Len(t.batch) \in Nat
    BY <1>2, <1>4, <1>5
<1> QED
    BY <1>5, <1>6, <1>7, <1>8, <1>9, <1>10, <1>11 DEF w

\* What was written last is at the end, whatever function has run.
LEMMA TailedOn ==
    ASSUME NEW s, NEW D, Sane(s, D), NEW t \in Clients, Advances(s, t), s.wire \in Seq(Wires),
           s.writing => Tailed(s, s.wire), ~ t.writing => t.batch = <<>>
    PROVE  Tailed(t, t.wire)
<1>1. s \in Clients /\ t.wire \in Seq(Wires)
    BY WiresOn DEF Sane
<1>2. CASE t.writing = s.writing /\ t.batch = s.batch /\ t.wire = s.wire
    <2>1. CASE s.writing
        BY <1>2, <2>1 DEF Tailed, Older
    <2>2. CASE ~ s.writing
        <3>1. DOMAIN <<>> = {}
            OBVIOUS
        <3>2. t.batch = <<>>
            BY <1>2, <2>2
        <3> QED
            BY <3>1, <3>2 DEF Tailed
    <2> QED
        BY <2>1, <2>2
<1>3. CASE t.wire = s.wire \o Packets(t.batch)
    BY <1>1, <1>3, WrittenWire
<1> QED
    BY <1>2, <1>3 DEF Advances

\* What is on its way of a request is for who was being written, or for who awaits its reply
\* when a function has run; its second half for the second half.
Pair(w, r, code, second) == (\E i \in DOMAIN w : w[i].op = r /\ w[i].code = "PUBREL") => code = second
Kept(s, t, w, r) ==
    \/ s.writing /\ \E j \in DOMAIN s.batch :
          s.batch[j].op = r /\ Pair(w, r, s.batch[j].code, "PUBREL")
    \/ \E j \in DOMAIN t.handlers :
          t.handlers[j].op = r /\ Pair(w, r, t.handlers[j].code, "PUBCOMP")

Rides(s, t, w, c, b, K) ==
    /\ \A r \in Requests : kind[r] # "qos0" =>
          /\ Flying(s, w, c, r) <= 1
          /\ Flying(s, w, c, r) # 0 => Sent(s, r) /\ Kept(s, t, w, r)
    /\ \A i \in DOMAIN w : w[i].op \in Requests /\ kind[w[i].op] # "qos0" =>
          w[i].pid = s.pid[w[i].op] /\ Proper(w[i], K)
    /\ \A i \in DOMAIN c : Foreign(c[i]) /\ Apposite(s, c[i], K)
    /\ s.writing => \A i \in DOMAIN s.fast : Foreign(s.fast[i]) /\ Apposite(s, s.fast[i], K)
    /\ \A p \in b.open : \E r \in K.held : s.pid[r] = p
    /\ K.held \cap Refused = {} /\ K.held \subseteq Has(b)

\* The second packet is one of a publication of QoS 2.
LEMMA PubRelIs ==
    ASSUME NEW y \in Wires, y.code = "PUBREL"
    PROVE  y.op \in Requests /\ kind[y.op] = "qos2"
BY DEF Wires, BeginsWith, Anyone

\* So what is on its way is for who is at it, still.
LEMMA FaresOn ==
    ASSUME NEW s \in Clients, NEW t, Sane(t, {}), Advances(s, t), Lasts(s, t),
           s.wire \in Seq(Wires), NEW c \in Seq(Arriving), NEW b, NEW K, NEW L,
           L.sure = K.sure, L.held = K.held, L.late \subseteq K.late, K.held \subseteq Requests,
           \A r \in K.held : Sent(s, r), Good(t, L), Rides(s, t, s.wire, c, b, K)
    PROVE  Fares(t, t.wire, c, b, L)
<1> DEFINE w == s.wire
           Anew == t.writing /\ t.wire = w \o Packets(t.batch) /\ t.fast = <<>> /\ ~ s.writing
           Same == /\ t.writing = s.writing /\ t.batch = s.batch /\ t.wire = w
                   /\ \A r \in Requests : Count(t.fast, r) <= Count(s.fast, r)
                   /\ ToSet(t.fast) \subseteq ToSet(s.fast)
<1>1. t \in Clients /\ t.wire \in Seq(Wires) /\ (Anew \/ Same)
    BY WiresOn DEF Sane, Advances
<1>2. ASSUME NEW r
      PROVE  /\ Count(w, r) \in Nat /\ Count(c, r) \in Nat /\ Count(s.fast, r) \in Nat
             /\ Count(t.fast, r) \in Nat /\ Count(t.batch, r) \in Nat
             /\ \A i \in DOMAIN w : w[i].op = r => Count(w, r) # 0
             /\ \A i \in DOMAIN c : c[i].op = r => Count(c, r) # 0
             /\ \A i \in DOMAIN s.fast : s.fast[i].op = r => Count(s.fast, r) # 0
             /\ Count(t.batch, r) # 0 => \E i \in DOMAIN t.batch : t.batch[i].op = r
    <2>1. Count(w, r) \in Nat /\ (Count(w, r) = 0 <=> \A i \in DOMAIN w : w[i].op # r)
        BY CountTells
    <2>2. Count(c, r) \in Nat /\ (Count(c, r) = 0 <=> \A i \in DOMAIN c : c[i].op # r)
        BY CountTells
    <2>3. /\ Count(s.fast, r) \in Nat /\ Count(t.fast, r) \in Nat
          /\ s.fast \in Seq(Replies) /\ t.batch \in Seq(WriteReqs)
        BY <1>1, ClientParts
    <2>4. Count(s.fast, r) = 0 <=> \A i \in DOMAIN s.fast : s.fast[i].op # r
        BY <2>3, CountTells
    <2>5. Count(t.batch, r) \in Nat /\ (Count(t.batch, r) = 0 <=> \A i \in DOMAIN t.batch : t.batch[i].op # r)
        BY <2>3, CountTells
    <2> QED
        BY <2>1, <2>2, <2>3, <2>4, <2>5
<1> HIDE DEF w
<1>3. ASSUME NEW r \in Requests, kind[r] # "qos0", Flying(s, w, c, r) # 0
      PROVE  Carries(t, r) /\ Sent(t, r) /\ t.pid[r] = s.pid[r] /\ Kept(s, t, w, r)
    <2>1. Sent(s, r) /\ Kept(s, t, w, r)
        BY <1>3 DEF Rides, w
    <2>2. Carries(t, r)
        BY <1>1, <2>1 DEF Kept, Carries
    <2>3. Sent(t, r)
        BY <2>2, OnePlace
    <2> QED
        BY <2>1, <2>2, <2>3 DEF Lasts, Sent
<1>4. ASSUME NEW r \in Requests, kind[r] # "qos0"
      PROVE  /\ Flying(t, t.wire, c, r) <= 1
             /\ Flying(t, t.wire, c, r) # 0 => Carries(t, r)
    <2>1. Flying(s, w, c, r) <= 1
        BY <1>4 DEF Rides, w
    <2> DEFINE cw == Count(w, r)
               cc == Count(c, r)
               cf == Count(s.fast, r)
               df == Count(t.fast, r)
               cb == Count(t.batch, r)
               f == Flying(s, w, c, r)
               g == Flying(t, t.wire, c, r)
    <2>2. cw \in Nat /\ cc \in Nat /\ cf \in Nat /\ df \in Nat /\ cb \in Nat
        BY <1>2
    <2>3. f = cw + cc + IF s.writing THEN cf ELSE 0
        BY DEF Flying
    <2>4. CASE Same
        <3>1. g = cw + cc + IF s.writing THEN df ELSE 0
            BY <2>4 DEF Flying
        <3>2. df <= cf
            BY <2>4
        <3> HIDE DEF cw, cc, cf, df, f, g
        <3>3. g <= f /\ (g # 0 => f # 0)
            BY <2>2, <2>3, <3>1, <3>2
        <3>4. f \in Nat /\ g \in Nat
            BY <2>2, <2>3, <3>1
        <3> QED
            BY <1>3, <1>4, <2>1, <3>3, <3>4 DEF f, g
    <2>5. CASE Anew
        <3>1. Count(t.wire, r) = cw + cb
            <4>1. t.wire = s.wire \o Packets(t.batch)
                BY <2>5 DEF w
            <4>2. Count(t.wire, r) = Count(s.wire, r) + Count(t.batch, r)
                BY <1>1, <4>1, WrittenWire
            <4> QED
                BY <4>2 DEF w
        <3>2. df = 0
            BY <2>5, CountEmpty
        <3>3. g = (cw + cb) + cc + 0
            BY <2>5, <3>1, <3>2 DEF Flying
        <3>4. f = cw + cc + 0
            BY <2>3, <2>5
        <3>5. cb # 0 => cb = 1 /\ f = 0 /\ Carries(t, r)
            <4>1. SUFFICES ASSUME cb # 0 PROVE cb = 1 /\ f = 0 /\ Carries(t, r)
                OBVIOUS
            <4>2. \E i \in DOMAIN t.batch : t.batch[i].op = r
                BY <1>2, <4>1
            <4>3. cb = 1 /\ \A i \in DOMAIN t.handlers : t.handlers[i].op # r
                BY <4>2, OnePlace
            <4>4. ~ Kept(s, t, w, r)
                BY <2>5, <4>3 DEF Kept
            <4> QED
                BY <1>3, <1>4, <4>2, <4>3, <4>4 DEF Carries
        <3>6. f # 0 => Carries(t, r)
            BY <1>3, <1>4
        <3> HIDE DEF cw, cc, cf, df, cb, f, g
        <3>7. g <= 1 /\ (g # 0 => Carries(t, r))
            BY <2>1, <2>2, <3>3, <3>4, <3>5, <3>6 DEF f
        <3> QED
            BY <3>7 DEF g
    <2> QED
        BY <1>1, <2>4, <2>5
<1>5. ASSUME NEW r
      PROVE  /\ \A i \in DOMAIN w : w[i].op = r => Flying(s, w, c, r) # 0
             /\ \A i \in DOMAIN c : c[i].op = r => Flying(s, w, c, r) # 0
             /\ s.writing => \A i \in DOMAIN s.fast : s.fast[i].op = r => Flying(s, w, c, r) # 0
    <2> DEFINE cw == Count(w, r)
               cc == Count(c, r)
               cf == Count(s.fast, r)
    <2>1. Flying(s, w, c, r) = cw + cc + IF s.writing THEN cf ELSE 0
        BY DEF Flying
    <2>2. /\ cw \in Nat /\ cc \in Nat /\ cf \in Nat
          /\ \A i \in DOMAIN w : w[i].op = r => cw # 0
          /\ \A i \in DOMAIN c : c[i].op = r => cc # 0
          /\ \A i \in DOMAIN s.fast : s.fast[i].op = r => cf # 0
        BY <1>2
    <2> HIDE DEF cw, cc, cf
    <2>3. (cw # 0 \/ cc # 0 \/ (s.writing /\ cf # 0)) => Flying(s, w, c, r) # 0
        BY <2>1, <2>2
    <2> QED
        BY <2>2, <2>3
<1>6. ASSUME NEW i \in DOMAIN w, w[i].op \in Requests, kind[w[i].op] # "qos0"
      PROVE  w[i].pid = t.pid[w[i].op] /\ Proper(w[i], L)
    <2>1. Flying(s, w, c, w[i].op) # 0
        BY <1>5, <1>6
    <2>2. t.pid[w[i].op] = s.pid[w[i].op]
        BY <1>3, <1>6, <2>1
    <2>3. w[i].pid = s.pid[w[i].op] /\ Proper(w[i], K)
        BY <1>6 DEF Rides, w
    <2> QED
        BY <2>2, <2>3 DEF Proper
<1>7. \A i \in DOMAIN t.wire :
         \/ i \in DOMAIN w /\ t.wire[i] = w[i]
         \/ Anew /\ \E k \in DOMAIN t.batch : t.wire[i] = Packet(t.batch[k])
    <2>1. CASE Same
        BY <2>1
    <2>2. CASE Anew
        <3>1. \A i \in DOMAIN t.wire :
                \/ i \in DOMAIN s.wire /\ i <= Len(s.wire) /\ t.wire[i] = s.wire[i]
                \/ /\ i - Len(s.wire) \in DOMAIN t.batch /\ i > Len(s.wire)
                   /\ t.wire[i] = Packet(t.batch[i - Len(s.wire)])
            <4>1. t.wire = s.wire \o Packets(t.batch)
                BY <2>2 DEF w
            <4> QED
                BY <1>1, <4>1, WrittenWire
        <3> QED
            BY <2>2, <3>1 DEF w
    <2> QED
        BY <1>1, <2>1, <2>2
<1>8. ASSUME NEW i \in DOMAIN t.wire, t.wire[i].op \in Requests, kind[t.wire[i].op] # "qos0"
      PROVE  t.wire[i].pid = t.pid[t.wire[i].op] /\ Proper(t.wire[i], L)
    <2>1. CASE i \in DOMAIN w /\ t.wire[i] = w[i]
        BY <1>6, <1>8, <2>1
    <2>2. ASSUME NEW k \in DOMAIN t.batch, t.wire[i] = Packet(t.batch[k])
          PROVE  t.wire[i].pid = t.pid[t.wire[i].op] /\ Proper(t.wire[i], L)
        <3>1. t.batch \in Seq(Fitting(t, WriteReqs)) /\ t.batch \in Seq(Writable(L))
            BY DEF Sane, Matching, Good
        <3>2. t.batch[k] \in Fitting(t, WriteReqs) /\ t.batch[k] \in Writable(L)
            BY <3>1, ElementOfSeq, LenProperties
        <3>3. /\ t.wire[i].op = t.batch[k].op /\ t.wire[i].pid = t.batch[k].pid
              /\ t.wire[i].code = t.batch[k].code
            BY <2>2 DEF Packet
        <3> QED
            BY <1>8, <3>2, <3>3 DEF Fitting, Writable, Proper, Second
    <2> QED
        BY <1>7, <2>1, <2>2
<1>9. Paired(t, t.wire)
    <2>1. SUFFICES ASSUME NEW i \in DOMAIN t.wire, t.wire[i].code = "PUBREL"
                   PROVE  /\ \A j \in DOMAIN t.batch : t.batch[j].op = t.wire[i].op => t.batch[j].code = "PUBREL"
                          /\ \A j \in DOMAIN t.handlers :
                                t.handlers[j].op = t.wire[i].op => t.handlers[j].code = "PUBCOMP"
        BY DEF Paired
    <2> DEFINE r == t.wire[i].op
    <2>2. r \in Requests /\ kind[r] = "qos2"
        <3>1. t.wire[i] \in Wires
            BY <1>1, ElementOfSeq, LenProperties
        <3> QED
            BY <2>1, <3>1, PubRelIs
    <2>3. CASE i \in DOMAIN w /\ t.wire[i] = w[i]
        <3>1. Flying(s, w, c, r) # 0
            BY <1>5, <2>3
        <3>2. Kept(s, t, w, r)
            BY <1>3, <2>2, <3>1
        <3>3. \E k \in DOMAIN w : w[k].op = r /\ w[k].code = "PUBREL"
            BY <2>1, <2>3
        <3>4. CASE s.writing /\ \E j \in DOMAIN s.batch : s.batch[j].op = r /\ s.batch[j].code = "PUBREL"
            <4>1. \E j \in DOMAIN t.batch : t.batch[j].op = r /\ t.batch[j].code = "PUBREL"
                BY <1>1, <3>4
            <4> HIDE DEF r
            <4>2. /\ \A j \in DOMAIN t.handlers : t.handlers[j].op # r
                  /\ \A j, k \in DOMAIN t.batch : t.batch[j].op = r /\ t.batch[k].op = r => j = k
                BY <2>2, <4>1, OnePlace
            <4> QED
                BY <4>1, <4>2 DEF r
        <3>5. CASE \E j \in DOMAIN t.handlers : t.handlers[j].op = r /\ t.handlers[j].code = "PUBCOMP"
            <4> HIDE DEF r
            <4>2. /\ \A j \in DOMAIN t.batch : t.batch[j].op # r
                  /\ \A j, k \in DOMAIN t.handlers : t.handlers[j].op = r /\ t.handlers[k].op = r => j = k
                BY <2>2, <3>5, OnePlace
            <4> QED
                BY <3>5, <4>2 DEF r
        <3> HIDE DEF r
        <3> QED
            BY <3>2, <3>3, <3>4, <3>5 DEF Kept, Pair
    <2>4. ASSUME NEW k \in DOMAIN t.batch, t.wire[i] = Packet(t.batch[k])
          PROVE  /\ \A j \in DOMAIN t.batch : t.batch[j].op = r => t.batch[j].code = "PUBREL"
                 /\ \A j \in DOMAIN t.handlers : t.handlers[j].op = r => t.handlers[j].code = "PUBCOMP"
        <3>1. t.batch[k].op = r /\ t.batch[k].code = "PUBREL"
            BY <2>1, <2>4 DEF Packet
        <3> HIDE DEF r
        <3>2. /\ \A j \in DOMAIN t.handlers : t.handlers[j].op # r
              /\ \A j, l \in DOMAIN t.batch : t.batch[j].op = r /\ t.batch[l].op = r => j = l
            BY <2>2, <3>1, OnePlace
        <3> QED
            BY <3>1, <3>2
    <2> QED
        BY <1>7, <2>3, <2>4
<1>10. ASSUME NEW p, Foreign(p), Apposite(s, p, K), p.op \in Requests => Flying(s, w, c, p.op) # 0
       PROVE  Foreign(p) /\ Apposite(t, p, L)
    <2>1. ASSUME p.op \in Requests PROVE t.pid[p.op] = s.pid[p.op]
        BY <1>3, <1>10, <2>1 DEF Apposite
    <2> QED
        BY <1>10, <2>1 DEF Apposite
<1>11. ASSUME NEW i \in DOMAIN c PROVE Foreign(c[i]) /\ Apposite(t, c[i], L)
    <2>1. Foreign(c[i]) /\ Apposite(s, c[i], K)
        BY DEF Rides
    <2>2. Flying(s, w, c, c[i].op) # 0
        BY <1>5
    <2> QED
        BY <1>10, <2>1, <2>2
<1>12. ASSUME t.writing, NEW i \in DOMAIN t.fast PROVE Foreign(t.fast[i]) /\ Apposite(t, t.fast[i], L)
    <2>1. Same
        <3>1. DOMAIN <<>> = {}
            OBVIOUS
        <3> QED
            BY <1>1, <1>12, <3>1
    <2>2. t.fast[i] \in ToSet(s.fast)
        BY <1>12, <2>1 DEF ToSet
    <2>3. PICK j \in DOMAIN s.fast : s.fast[j] = t.fast[i]
        BY <2>2 DEF ToSet
    <2>4. s.writing /\ Foreign(s.fast[j]) /\ Apposite(s, s.fast[j], K)
        BY <1>12, <2>1 DEF Rides
    <2>5. Flying(s, w, c, s.fast[j].op) # 0
        BY <1>5, <2>4
    <2> QED
        BY <1>10, <2>3, <2>4, <2>5
<1>13. ASSUME NEW p \in b.open PROVE \E r \in L.held : t.pid[r] = p
    <2>1. PICK r \in K.held : s.pid[r] = p
        BY <1>13 DEF Rides
    <2>2. Sent(s, r) /\ Sent(t, r) /\ r \in Requests
        BY <2>1 DEF Good
    <2> QED
        BY <2>1, <2>2 DEF Lasts, Sent
<1>14. L.held \cap Refused = {} /\ L.held \subseteq Has(b)
    BY DEF Rides
<1> QED
    BY <1>4, <1>8, <1>9, <1>11, <1>12, <1>13, <1>14 DEF Fares

\* Nothing that is known of publications of QoS 0 and of acknowledgments changes when no
\* write ends or begins.
LEMMA TrailsAlong ==
    ASSUME NEW s \in Clients, NEW t \in Clients, Lasts(s, t), t.batch = s.batch,
           NEW w \in Seq(Wires), NEW b, NEW up, Trails(s, w, b, up)
    PROVE  Trails(t, w, b, up)
<1>1. Older(t, w) = Older(s, w) /\ Arrived(t, w, up) = Arrived(s, w, up)
    BY DEF Older, Arrived
<1>2. ASSUME NEW i \in DOMAIN w, Once(w[i])
      PROVE  /\ b.taken[w[i].op] = 0 /\ t.status[w[i].op] # "idle"
             /\ \A j \in DOMAIN w : w[j].op = w[i].op => i = j
             /\ i <= Older(t, w) => ~ Sent(t, w[i].op)
    <2>1. w[i].op \in Requests
        BY <1>2 DEF Once
    <2>2. /\ b.taken[w[i].op] = 0 /\ s.status[w[i].op] # "idle"
          /\ \A j \in DOMAIN w : w[j].op = w[i].op => i = j
          /\ i <= Older(s, w) => ~ Sent(s, w[i].op)
        BY <1>2 DEF Trails
    <2> QED
        BY <1>1, <2>1, <2>2 DEF Lasts, Sent
<1>3. ASSUME NEW m \in Incoming, s.stored[m] >= 1 PROVE t.stored[m] >= 1
    <2>1. s.stored[m] \in Nat /\ t.stored[m] \in Nat /\ s.stored[m] <= t.stored[m]
        BY ClientParts DEF Lasts
    <2> QED
        BY <1>3, <2>1
<1>4. ASSUME NEW i \in DOMAIN w, Ack(w[i]), i <= Older(t, w) PROVE t.stored[w[i].op] >= 1
    <2>1. s.stored[w[i].op] >= 1
        BY <1>1, <1>4 DEF Trails
    <2>2. w[i].op \in Incoming
        <3>1. w[i] \in Wires
            BY ElementOfSeq, LenProperties
        <3> QED
            BY <1>4, <3>1 DEF Wires, Ack, BeginsWith, Anyone
    <2> QED
        BY <1>3, <2>1, <2>2
<1>5. \A i \in DOMAIN t.batch : Once(t.batch[i]) /\ b.taken[t.batch[i].op] # 0 => i \in Arrived(t, w, up)
    BY <1>1 DEF Trails
<1>6. ASSUME NEW m \in Incoming, b.out[m] = "done", level[m] # "qos0"
      PROVE  \/ t.stored[m] >= 1
             \/ \E i \in Arrived(t, w, up) : Ack(t.batch[i]) /\ t.batch[i].op = m
    <2>1. \/ s.stored[m] >= 1
          \/ \E i \in Arrived(s, w, up) : Ack(s.batch[i]) /\ s.batch[i].op = m
        BY <1>6 DEF Trails
    <2> QED
        BY <1>1, <1>3, <2>1
<1> QED
    BY <1>2, <1>4, <1>5, <1>6 DEF Trails

\* When no write is in progress all that is on its way has been told.
Settled(t, w, b) ==
    /\ \A i \in DOMAIN w : Once(w[i]) =>
          /\ b.taken[w[i].op] = 0 /\ t.status[w[i].op] # "idle" /\ ~ Sent(t, w[i].op)
          /\ \A j \in DOMAIN w : w[j].op = w[i].op => i = j
    /\ \A i \in DOMAIN w : Ack(w[i]) => t.stored[w[i].op] >= 1
    /\ \A m \in Incoming : b.out[m] = "done" /\ level[m] # "qos0" => t.stored[m] >= 1

\* Then the next one may begin, with publications of QoS 0 that the broker has not taken.
LEMMA TrailsAnew ==
    ASSUME NEW t, Sane(t, {}), NEW w \in Seq(Wires), NEW b \in Brokers, NEW up, Settled(t, w, b),
           \/ ~ t.writing /\ t.wire = w
           \/ \E s \in Clients : s.wire = w /\ t.wire = s.wire \o Packets(t.batch),
           t.wire \in Seq(Wires), NEW K, t.batch \in Seq(Unsent(K)),
           {r \in Has(b) : kind[r] = "qos0"} \subseteq K.spent
    PROVE  Trails(t, t.wire, b, up)
<1>1. t \in Clients /\ t.batch \in Seq(WriteReqs)
    BY ClientParts DEF Sane
<1>2. ASSUME NEW k \in DOMAIN t.batch, Once(t.batch[k])
      PROVE  b.taken[t.batch[k].op] = 0
    <2>1. t.batch[k] \in Unsent(K)
        BY ElementOfSeq, LenProperties
    <2> QED
        BY <1>2, <2>1 DEF Unsent, Once, Has
<1>3. \A m \in Incoming : b.out[m] = "done" /\ level[m] # "qos0" => t.stored[m] >= 1
    BY DEF Settled
<1>4. CASE ~ t.writing /\ t.wire = w
    <2>1. t.batch = <<>> /\ DOMAIN <<>> = {}
        BY <1>4 DEF Sane
    <2> QED
        BY <1>3, <1>4, <2>1 DEF Trails, Settled
<1>5. ASSUME NEW s \in Clients, s.wire = w, t.wire = s.wire \o Packets(t.batch)
      PROVE  Trails(t, t.wire, b, up)
    <2>1. /\ Older(t, t.wire) = Len(w) /\ Len(w) \in Nat
          /\ \A i \in DOMAIN w : i \in DOMAIN t.wire /\ i <= Len(w) /\ t.wire[i] = w[i]
          /\ \A i \in DOMAIN t.wire :
                \/ i \in DOMAIN w /\ i <= Len(w) /\ t.wire[i] = w[i]
                \/ /\ i - Len(w) \in DOMAIN t.batch /\ i > Len(w)
                   /\ t.wire[i] = Packet(t.batch[i - Len(w)])
        <3>1. s.wire \in Seq(Wires) /\ t.wire = s.wire \o Packets(t.batch)
            BY <1>5
        <3>2. /\ Older(t, t.wire) = Len(s.wire) /\ Len(s.wire) \in Nat
              /\ \A i \in DOMAIN s.wire :
                    i \in DOMAIN t.wire /\ i <= Len(s.wire) /\ t.wire[i] = s.wire[i]
              /\ \A i \in DOMAIN t.wire :
                    \/ i \in DOMAIN s.wire /\ i <= Len(s.wire) /\ t.wire[i] = s.wire[i]
                    \/ /\ i - Len(s.wire) \in DOMAIN t.batch /\ i > Len(s.wire)
                       /\ t.wire[i] = Packet(t.batch[i - Len(s.wire)])
            BY <1>1, <3>1, WrittenWire
        <3> QED
            BY <1>5, <3>2
    <2>2. t.wire \in Seq(Wires) /\ DOMAIN t.wire = 1 .. Len(t.wire) /\ Len(t.wire) \in Nat
        BY LenProperties
    <2>3. ASSUME NEW i \in DOMAIN t.wire, Once(t.wire[i])
          PROVE  /\ b.taken[t.wire[i].op] = 0 /\ t.status[t.wire[i].op] # "idle"
                 /\ \A j \in DOMAIN t.wire : t.wire[j].op = t.wire[i].op => i = j
                 /\ i <= Older(t, t.wire) => ~ Sent(t, t.wire[i].op)
        <3> DEFINE r == t.wire[i].op
        <3>1. r \in Requests
            BY <2>3 DEF Once
        <3>2. ASSUME NEW j \in DOMAIN t.wire, j - Len(w) \in DOMAIN t.batch, t.wire[j].op = r,
                     t.wire[j] = Packet(t.batch[j - Len(w)])
              PROVE  t.batch[j - Len(w)].op = r /\ Sent(t, r)
            <4>1. t.batch[j - Len(w)].op = r
                BY <3>2 DEF Packet
            <4> HIDE DEF r
            <4>2. Carries(t, r)
                BY <3>2, <4>1 DEF Carries
            <4> QED
                BY <3>1, <4>1, <4>2, OnePlace
        <3>3. CASE i \in DOMAIN w /\ i <= Len(w) /\ t.wire[i] = w[i]
            <4>1. /\ b.taken[r] = 0 /\ t.status[r] # "idle" /\ ~ Sent(t, r)
                  /\ \A j \in DOMAIN w : w[j].op = r => i = j
                BY <2>3, <3>3 DEF Settled
            <4>2. ASSUME NEW j \in DOMAIN t.wire, t.wire[j].op = r PROVE i = j
                BY <2>1, <3>2, <4>1, <4>2
            <4> QED
                BY <4>1, <4>2
        <3>4. CASE i - Len(w) \in DOMAIN t.batch /\ i > Len(w) /\ t.wire[i] = Packet(t.batch[i - Len(w)])
            <4>1. t.batch[i - Len(w)].op = r /\ Sent(t, r)
                BY <3>2, <3>4
            <4>2. Once(t.batch[i - Len(w)])
                BY <2>3, <4>1 DEF Once
            <4>3. b.taken[r] = 0 /\ t.status[r] # "idle"
                BY <1>2, <3>4, <4>1, <4>2 DEF Sent
            <4>4. ~ (i <= Older(t, t.wire))
                BY <2>1, <2>2, <3>4
            <4>5. ASSUME NEW j \in DOMAIN t.wire, t.wire[j].op = r PROVE i = j
                <5>1. CASE j \in DOMAIN w /\ j <= Len(w) /\ t.wire[j] = w[j]
                    <6>1. Once(w[j])
                        BY <2>3, <4>5, <5>1 DEF Once
                    <6> QED
                        BY <4>1, <4>5, <5>1, <6>1 DEF Settled
                <5>2. CASE j - Len(w) \in DOMAIN t.batch /\ t.wire[j] = Packet(t.batch[j - Len(w)])
                    <6>1. t.batch[j - Len(w)].op = r
                        BY <3>2, <4>5, <5>2
                    <6> HIDE DEF r
                    <6>2. j - Len(w) = i - Len(w)
                        BY <3>1, <3>4, <4>1, <5>2, <6>1, OnePlace
                    <6> QED
                        BY <2>1, <2>2, <4>5, <6>2
                <5> QED
                    BY <2>1, <5>1, <5>2
            <4> QED
                BY <4>3, <4>4, <4>5
        <3> QED
            BY <2>1, <3>3, <3>4
    <2>4. \A i \in DOMAIN t.batch : ~ (Once(t.batch[i]) /\ b.taken[t.batch[i].op] # 0)
        BY <1>2
    <2>5. ASSUME NEW i \in DOMAIN t.wire, Ack(t.wire[i]), i <= Older(t, t.wire)
          PROVE  t.stored[t.wire[i].op] >= 1
        <3>1. i \in DOMAIN w /\ t.wire[i] = w[i]
            BY <2>1, <2>2, <2>5
        <3> QED
            BY <2>5, <3>1 DEF Settled
    <2> QED
        BY <1>3, <2>3, <2>4, <2>5 DEF Trails
<1> QED
    BY <1>4, <1>5

\* Between two writes all that is on its way has been told, and remains so.
LEMMA SettledOn ==
    ASSUME NEW s \in Clients, s.batch = <<>>, NEW t \in Clients, Lasts(s, t),
           NEW w \in Seq(Wires), NEW b, NEW up, Trails(s, w, b, up)
    PROVE  Settled(t, w, b)
<1>1. Older(s, w) = Len(w) /\ Len(w) \in Nat /\ DOMAIN w = 1 .. Len(w) /\ Arrived(s, w, up) = {}
    <2>1. Len(<<>>) = 0 /\ DOMAIN <<>> = {}
        OBVIOUS
    <2>2. Len(w) \in Nat /\ DOMAIN w = 1 .. Len(w)
        BY LenProperties
    <2> QED
        BY <2>1, <2>2 DEF Older, Arrived
<1>2. \A i \in DOMAIN w : i <= Older(s, w)
    BY <1>1
<1>3. ASSUME NEW i \in DOMAIN w, Once(w[i])
      PROVE  /\ b.taken[w[i].op] = 0 /\ t.status[w[i].op] # "idle" /\ ~ Sent(t, w[i].op)
             /\ \A j \in DOMAIN w : w[j].op = w[i].op => i = j
    <2>1. w[i].op \in Requests
        BY <1>3 DEF Once
    <2>2. /\ b.taken[w[i].op] = 0 /\ s.status[w[i].op] # "idle" /\ ~ Sent(s, w[i].op)
          /\ \A j \in DOMAIN w : w[j].op = w[i].op => i = j
        BY <1>2, <1>3 DEF Trails
    <2> QED
        BY <2>1, <2>2 DEF Lasts, Sent
<1>4. ASSUME NEW m \in Incoming, s.stored[m] >= 1 PROVE t.stored[m] >= 1
    <2>1. s.stored[m] \in Nat /\ t.stored[m] \in Nat /\ s.stored[m] <= t.stored[m]
        BY ClientParts DEF Lasts
    <2> QED
        BY <1>4, <2>1
<1>5. ASSUME NEW i \in DOMAIN w, Ack(w[i]) PROVE t.stored[w[i].op] >= 1
    <2>1. s.stored[w[i].op] >= 1
        BY <1>2, <1>5 DEF Trails
    <2>2. w[i].op \in Incoming
        <3>1. w[i] \in Wires
            BY ElementOfSeq, LenProperties
        <3> QED
            BY <1>5, <3>1 DEF Wires, Ack, BeginsWith, Anyone
    <2> QED
        BY <1>4, <2>1, <2>2
<1>6. \A m \in Incoming : b.out[m] = "done" /\ level[m] # "qos0" => t.stored[m] >= 1
    BY <1>1, <1>4 DEF Trails
<1> QED
    BY <1>3, <1>5, <1>6 DEF Settled

\* What a function of the code does keeps a client candid.
LEMMA CandidOn ==
    ASSUME NEW s, NEW D, Sane(s, D), NEW c \in Seq(Arriving), NEW b, NEW u, NEW up,
           Candid(s, s.wire, c, b, u, up), NEW t, Sane(t, {}), Moves(s, t, Known(s, b, u)),
           t.open = s.open
    PROVE  Candid(t, t.wire, c, b, u, up)
<1> DEFINE K == Known(s, b, u)
           L == Known(t, b, u)
           w == s.wire
<1>1. /\ s \in Clients /\ t \in Clients /\ w \in Seq(Wires) /\ b \in Brokers /\ u \in Budgets
      /\ Advances(s, t) /\ Lasts(s, t) /\ Goes(s, t) /\ Good(t, K) /\ Fresh(s, t, K)
    BY DEF Sane, Candid, Moves, Goes, Lasts
<1>2. t.wire \in Seq(Wires)
    BY <1>1, WiresOn
<1>3. u.abandons = 0 /\ s.open => Fares(s, w, c, b, K)
    BY DEF Candid
<1>4. /\ L.sure = K.sure /\ L.held = K.held /\ L.spent = K.spent /\ L.late \subseteq K.late
      /\ Good(t, L)
    <2>1. u.abandons = 0 /\ s.open => \A p \in b.open : \E r \in K.held : s.pid[r] = p
        BY <1>3 DEF Fares
    <2> QED
        BY <1>1, <2>1, KnownOn
<1>5. ASSUME u.abandons = 0, t.open PROVE Fares(t, t.wire, c, b, L)
    <2>1. Fares(s, w, c, b, K)
        BY <1>3, <1>5
    <2>2. ASSUME NEW r \in Requests, kind[r] # "qos0", Flying(s, w, c, r) # 0
          PROVE  Sent(s, r) /\ Kept(s, t, w, r)
        <3>1. Carries(s, r)
            BY <2>1, <2>2 DEF Fares
        <3>2. Sent(s, r)
            BY <3>1, OnePlace
        <3>3. ASSUME NEW j \in DOMAIN s.batch, s.batch[j].op = r PROVE Kept(s, t, w, r)
            <4>1. s.writing
                <5>1. DOMAIN <<>> = {}
                    OBVIOUS
                <5> QED
                    BY <3>3, <5>1 DEF Sane
            <4>2. Pair(w, r, s.batch[j].code, "PUBREL")
                BY <2>1, <3>3 DEF Fares, Paired, Pair
            <4> QED
                BY <3>3, <4>1, <4>2 DEF Kept
        <3>4. ASSUME NEW j \in DOMAIN s.handlers, s.handlers[j].op = r PROVE Kept(s, t, w, r)
            <4>1. PICK k \in DOMAIN t.handlers : t.handlers[k] = s.handlers[j]
                BY <1>1, <3>4 DEF Goes
            <4>2. Pair(w, r, s.handlers[j].code, "PUBCOMP")
                BY <2>1, <3>4 DEF Fares, Paired, Pair
            <4> QED
                BY <3>4, <4>1, <4>2 DEF Kept
        <3> QED
            BY <3>1, <3>2, <3>3, <3>4 DEF Carries
    <2>3. Rides(s, t, w, c, b, K)
        BY <2>1, <2>2 DEF Fares, Rides
    <2>4. K.held \subseteq Requests /\ \A r \in K.held : Sent(s, r)
        BY DEF Known
    <2> HIDE DEF K, L
    <2> QED
        BY <1>1, <1>4, <2>3, <2>4, FaresOn
<1>6. Tailed(t, t.wire)
    BY <1>1, TailedOn DEF Candid, Sane
<1>7. ASSUME ~ u.cut, t.open PROVE Trails(t, t.wire, b, up)
    <2>1. Trails(s, w, b, up)
        BY <1>7 DEF Candid
    <2>2. CASE t.batch = s.batch /\ t.wire = s.wire
        <3>1. Trails(t, w, b, up)
            BY <1>1, <2>1, <2>2, TrailsAlong
        <3> QED
            BY <2>2, <3>1
    <2>3. CASE ~ s.writing /\ t.writing /\ t.wire = s.wire \o Packets(t.batch)
        <3>1. s.batch = <<>>
            BY <2>3 DEF Sane
        <3>2. Settled(t, w, b)
            BY <1>1, <2>1, <3>1, SettledOn
        <3>3. t.batch \in Seq(Unsent(K))
            BY <1>1, <2>3 DEF Fresh
        <3>4. {r \in Has(b) : kind[r] = "qos0"} \subseteq K.spent
            BY <1>7 DEF Known
        <3> HIDE DEF K
        <3> QED
            BY <1>1, <1>2, <2>3, <3>2, <3>3, <3>4, TrailsAnew
    <2> QED
        BY <1>1, <2>2, <2>3 DEF Advances
<1> QED
    BY <1>1, <1>2, <1>4, <1>5, <1>6, <1>7 DEF Candid

\* A write that is late remains so.
LEMMA LateOn ==
    ASSUME NEW s, NEW t, Advances(s, t), NEW c, Late(s, c)
    PROVE  Late(t, c)
BY DEF Late, Advances

\* A client that differs in what awaits a reply, what came early and what is deferred alone.
LEMMA CandidBut ==
    ASSUME NEW s, NEW w, NEW c, NEW b, NEW u, NEW up, Candid(s, w, c, b, u, up),
           NEW m, m.pid = s.pid, m.status = s.status, m.open = s.open, m.batch = s.batch,
           m.stored = s.stored, NEW d, Good(m, Known(s, b, u)),
           u.abandons = 0 /\ s.open => Fares(m, w, d, b, Known(s, b, u))
    PROVE  Candid(m, w, d, b, u, up) /\ Known(m, b, u) = Known(s, b, u)
<1>1. \A r : Sent(m, r) <=> Sent(s, r)
    BY DEF Sent
<1>2. Known(m, b, u) = Known(s, b, u)
    BY <1>1 DEF Known
<1>3. Tailed(m, w) <=> Tailed(s, w)
    BY DEF Tailed, Older
<1>4. Trails(m, w, b, up) <=> Trails(s, w, b, up)
    BY <1>1 DEF Trails, Arrived, Older
<1> QED
    BY <1>2, <1>3, <1>4 DEF Candid

\* A packet less is on its way from the broker.
LEMMA FaresLess ==
    ASSUME NEW s, NEW w \in Seq(Wires), NEW c \in Seq(Arriving), c # <<>>, NEW b, NEW K,
           s \in Clients, Fares(s, w, c, b, K)
    PROVE  /\ Fares(s, w, Tail(c), b, K)
           /\ \A r : /\ Flying(s, w, c, r) \in Nat /\ Flying(s, w, Tail(c), r) \in Nat
                     /\ Flying(s, w, c, r) = Flying(s, w, Tail(c), r) + IF Head(c).op = r THEN 1 ELSE 0
           /\ Head(c) \in Arriving /\ Foreign(Head(c)) /\ Apposite(s, Head(c), K)
           /\ Tail(c) \in Seq(Arriving)
<1>1. Tail(c) \in Seq(Arriving) /\ Head(c) \in Arriving
    BY CountTail
<1>2. ASSUME NEW r
      PROVE  /\ Flying(s, w, c, r) \in Nat /\ Flying(s, w, Tail(c), r) \in Nat
             /\ Flying(s, w, c, r) = Flying(s, w, Tail(c), r) + IF Head(c).op = r THEN 1 ELSE 0
    <2> DEFINE x == Count(w, r)
               y == Count(c, r)
               z == Count(Tail(c), r)
               v == Count(s.fast, r)
    <2>1. y = z + IF Head(c).op = r THEN 1 ELSE 0
        BY CountTail
    <2>2. x \in Nat /\ y \in Nat
        BY MineIsFinite
    <2>3. z \in Nat
        BY <1>1, MineIsFinite
    <2>4. v \in Nat
        BY ClientParts
    <2>5. /\ Flying(s, w, c, r) = x + y + IF s.writing THEN v ELSE 0
          /\ Flying(s, w, Tail(c), r) = x + z + IF s.writing THEN v ELSE 0
        BY DEF Flying
    <2> HIDE DEF x, y, z, v
    <2> QED
        BY <2>1, <2>2, <2>3, <2>4, <2>5
<1>3. Head(c) = c[1] /\ 1 \in DOMAIN c /\ DOMAIN Tail(c) = 1 .. Len(c) - 1
      /\ \A i \in DOMAIN Tail(c) : Tail(c)[i] = c[i + 1] /\ i + 1 \in DOMAIN c
    BY LenProperties, EmptySeq, HeadTailProperties
<1>4. \A i \in DOMAIN Tail(c) : Foreign(Tail(c)[i]) /\ Apposite(s, Tail(c)[i], K)
    BY <1>3 DEF Fares
<1>5. \A r \in Requests : kind[r] # "qos0" =>
         /\ Flying(s, w, Tail(c), r) <= 1
         /\ Flying(s, w, Tail(c), r) # 0 => Carries(s, r)
    <2>1. ASSUME NEW r \in Requests, kind[r] # "qos0"
          PROVE  /\ Flying(s, w, Tail(c), r) <= 1
                 /\ Flying(s, w, Tail(c), r) # 0 => Carries(s, r)
        <3> DEFINE x == Flying(s, w, c, r)
                   y == Flying(s, w, Tail(c), r)
        <3>1. x \in Nat /\ y \in Nat /\ x = y + IF Head(c).op = r THEN 1 ELSE 0
            BY <1>2
        <3>2. x <= 1 /\ (x # 0 => Carries(s, r))
            BY <2>1 DEF Fares
        <3> HIDE DEF x, y
        <3>3. y <= 1 /\ (y # 0 => Carries(s, r))
            BY <3>1, <3>2
        <3> QED
            BY <3>3 DEF y
    <2> QED
        BY <2>1
<1>6. Foreign(Head(c)) /\ Apposite(s, Head(c), K)
    BY <1>3 DEF Fares
<1> QED
    BY <1>1, <1>2, <1>4, <1>5, <1>6 DEF Fares

\* So of a client.
LEMMA CandidFewer ==
    ASSUME NEW s \in Clients, NEW w, NEW c \in Seq(Arriving), c # <<>>, NEW b, NEW u, NEW up,
           Candid(s, w, c, b, u, up)
    PROVE  Candid(s, w, Tail(c), b, u, up)
<1>1. w \in Seq(Wires)
    BY DEF Candid
<1>2. u.abandons = 0 /\ s.open => Fares(s, w, Tail(c), b, Known(s, b, u))
    BY <1>1, FaresLess DEF Candid
<1> QED
    BY <1>2 DEF Candid

\* What a function of the code does keeps the invariant.
LEMMA TruthOn ==
    ASSUME NEW s, NEW D, Sane(s, D), NEW c \in Seq(Arriving), NEW b, NEW u, NEW l, NEW st,
           TruthOf(s, c, b, u, l, st), NEW t, Sane(t, {}), Moves(s, t, Known(s, b, u)),
           t.open = s.open
    PROVE  TruthOf(t, c, b, u, l, st)
<1> DEFINE up == l = "up" /\ ~ st
<1>1. Candid(s, s.wire, c, b, u, up) /\ (st /\ s.open => Late(s, c)) /\ (l # "up" => c = <<>>)
    BY DEF TruthOf
<1> HIDE DEF up
<1>2. Candid(t, t.wire, c, b, u, up)
    BY <1>1, CandidOn
<1>3. Advances(s, t)
    BY DEF Moves, Goes
<1>4. st /\ t.open => Late(t, c)
    BY <1>1, <1>3, LateOn
<1> QED
    BY <1>1, <1>2, <1>4 DEF TruthOf, up

-----------------------------------------------------------------------------
(* The steps keep it *)

\* The invariant, of what the parts are after a step.
NextTruth == TruthOf(svc', b2c', brk', budget', link', stale')

\* A request of the program.
LEMMA BeginTruth ==
    ASSUME DeliveryInv, Truth, NEW r \in Requests, Begin(r)
    PROVE  NextTruth
<1>1. /\ svc.status[r] = "idle" /\ svc' = Start(svc, r)
      /\ link' = link /\ stale' = stale /\ b2c' = b2c /\ brk' = brk /\ budget' = budget
    BY DEF Begin
<1>2. /\ Sane(svc, {}) /\ Sound(svc) /\ b2c \in Seq(Arriving) /\ svc \in Clients /\ Kinded
    BY DEF DeliveryInv, Accounted, Sound, Sane, Kinded
<1>3. Sane(svc', {}) /\ svc'.open = svc.open
    BY <1>2, BeginSound DEF Sound, Onward
<1>4. Good(svc, Known(svc, brk, budget)) /\ Apt(Known(svc, brk, budget))
    BY <1>2, KnownIsApt DEF Truth, TruthOf, Candid
<1>5. Moves(svc, svc', Known(svc, brk, budget))
    BY <1>1, <1>2, <1>4, StartMoves
<1>6. TruthOf(svc', b2c, brk, budget, link, stale)
    BY <1>2, <1>3, <1>5, TruthOn DEF Truth
<1> QED
    BY <1>1, <1>6 DEF NextTruth

\* A DISCONNECT of the sentry.
LEMMA SentryTruth ==
    ASSUME DeliveryInv, Truth, Sentry
    PROVE  NextTruth
<1>1. /\ svc' = Send(svc, Disconnect)
      /\ link' = link /\ stale' = stale /\ b2c' = b2c /\ brk' = brk /\ budget' = budget
    BY DEF Sentry
<1>2. /\ Sane(svc, {}) /\ Sound(svc) /\ b2c \in Seq(Arriving) /\ svc \in Clients /\ Kinded
    BY DEF DeliveryInv, Accounted, Sound, Sane, Kinded
<1>3. Sane(svc', {}) /\ svc'.open = svc.open
    BY <1>2, SentrySound DEF Sound, Onward
<1>4. Good(svc, Known(svc, brk, budget)) /\ Apt(Known(svc, brk, budget))
    BY <1>2, KnownIsApt DEF Truth, TruthOf, Candid
<1>5. Disconnect \in Unsent(Known(svc, brk, budget))
    BY <1>4, OtherUnsent DEF Disconnect
<1>6. Moves(svc, svc', Known(svc, brk, budget))
    BY <1>1, <1>2, <1>4, <1>5, SendMoves
<1>7. TruthOf(svc', b2c, brk, budget, link, stale)
    BY <1>2, <1>3, <1>6, TruthOn DEF Truth
<1> QED
    BY <1>1, <1>7 DEF NextTruth

\* A deferred completion.
LEMMA RunPostedTruth ==
    ASSUME DeliveryInv, Truth, RunPosted
    PROVE  NextTruth
<1> DEFINE h == Head(svc.posted)
           m == Eased(svc)
           t == Replied(m, h)
           K == Known(svc, brk, budget)
<1>1. /\ svc.posted # <<>> /\ svc' = t
      /\ link' = link /\ stale' = stale /\ b2c' = b2c /\ brk' = brk /\ budget' = budget
    BY DEF RunPosted, Eased
<1>2. /\ Sane(svc, {}) /\ Steady(svc) /\ Sound(svc) /\ b2c \in Seq(Arriving) /\ svc \in Clients
      /\ Kinded
    BY DEF DeliveryInv, Accounted, Sound, Sane, Kinded
<1>3. Sane(svc', {}) /\ svc'.open = svc.open
    BY <1>2, RunPostedSound DEF Sound, Onward
<1>4. Good(svc, K) /\ Apt(K)
    BY <1>2, KnownIsApt DEF Truth, TruthOf, Candid
<1>5. Candid(svc, svc.wire, b2c, brk, budget, link = "up" /\ ~ stale)
    BY DEF Truth, TruthOf
<1>6. /\ m \in Clients /\ Alike(svc, m) /\ m.queue = svc.queue /\ m.batch = svc.batch
      /\ m.handlers = svc.handlers /\ m.posted = Tail(svc.posted)
      /\ m.writing = svc.writing /\ m.fast = svc.fast /\ m.wire = svc.wire
      /\ m.serial = svc.serial /\ m.stored = svc.stored
      /\ Sane(m, {h.op} \cap Requests) /\ h \in PostsOf(m)
    BY <1>1, <1>2, EasedKeeps
<1>7. h \in Tellable(K) /\ Tail(svc.posted) \in Seq(Tellable(K))
    BY <1>1, <1>4, CountTail DEF Good
<1> HIDE DEF m, h, K
<1>8. Good(m, K)
    BY <1>4, <1>6, <1>7 DEF Good, Alike, Sent
<1>9. budget.abandons = 0 /\ svc.open => Fares(m, svc.wire, b2c, brk, K)
    <2>1. ASSUME budget.abandons = 0, svc.open PROVE Fares(m, svc.wire, b2c, brk, K)
        <3>1. Fares(svc, svc.wire, b2c, brk, K)
            BY <1>5, <2>1 DEF Candid, K
        <3> QED
            BY <1>6, <3>1 DEF Fares, Flying, Carries, Paired, Apposite, Alike
    <2> QED
        BY <2>1
<1>10. Candid(m, m.wire, b2c, brk, budget, link = "up" /\ ~ stale) /\ Known(m, brk, budget) = K
    <2>1. /\ m.pid = svc.pid /\ m.status = svc.status /\ m.open = svc.open
          /\ m.batch = svc.batch /\ m.stored = svc.stored
        BY <1>6 DEF Alike
    <2> QED
        BY <1>5, <1>6, <1>8, <1>9, <2>1, CandidBut DEF K
<1>11. TruthOf(m, b2c, brk, budget, link, stale)
    BY <1>6, <1>10 DEF Truth, TruthOf, Late, Alike
<1>12. Moves(m, t, K)
    <2>1. h.op \in Requests => h.op \in {h.op} \cap Requests
        OBVIOUS
    <2> QED
        BY <1>4, <1>6, <1>7, <1>8, <2>1, RepliedMoves
<1> HIDE DEF t
<1>13. t.open = m.open
    BY <1>1, <1>3, <1>6 DEF Alike
<1>14. TruthOf(t, b2c, brk, budget, link, stale)
    BY <1>1, <1>2, <1>3, <1>6, <1>10, <1>11, <1>12, <1>13, TruthOn
<1> QED
    BY <1>1, <1>14 DEF NextTruth

\* A reply that nobody awaits yet is kept.
LEMMA EarlyFares ==
    ASSUME NEW s \in Clients, NEW w \in Seq(Wires), NEW c \in Seq(Arriving), c # <<>>, NEW b,
           NEW K, Fares(s, w, c, b, K), NEW p \in Replies, p = Head(c),
           NEW t \in Clients, t.fast = Append(s.fast, p), t.writing = s.writing, t.pid = s.pid,
           t.batch = s.batch, t.handlers = s.handlers
    PROVE  Fares(t, w, Tail(c), b, K)
<1>1. /\ Fares(s, w, Tail(c), b, K) /\ Foreign(p) /\ Apposite(s, p, K)
      /\ \A r : /\ Flying(s, w, c, r) \in Nat /\ Flying(s, w, Tail(c), r) \in Nat
                /\ Flying(s, w, c, r) = Flying(s, w, Tail(c), r) + IF p.op = r THEN 1 ELSE 0
      /\ Tail(c) \in Seq(Arriving)
    BY FaresLess
<1>2. s.fast \in Seq(Replies)
    BY ClientParts
<1>3. ASSUME NEW r \in Requests, kind[r] # "qos0"
      PROVE  /\ Flying(t, w, Tail(c), r) <= 1
             /\ Flying(t, w, Tail(c), r) # 0 => Carries(t, r)
    <2> DEFINE x == Count(w, r)
               z == Count(Tail(c), r)
               v == Count(s.fast, r)
               y == Count(t.fast, r)
               e == Flying(s, w, c, r)
               f == Flying(s, w, Tail(c), r)
               g == Flying(t, w, Tail(c), r)
    <2>1. y = v + IF p.op = r THEN 1 ELSE 0
        BY <1>2, CountAppend
    <2>2. x \in Nat /\ v \in Nat
        BY <1>2, MineIsFinite
    <2>3. z \in Nat
        BY <1>1, MineIsFinite
    <2>4. f = x + z + (IF s.writing THEN v ELSE 0) /\ g = x + z + (IF s.writing THEN y ELSE 0)
        BY DEF Flying
    <2>5. e \in Nat /\ f \in Nat /\ e = f + IF p.op = r THEN 1 ELSE 0
        BY <1>1
    <2>6. e <= 1 /\ (e # 0 => Carries(s, r))
        BY <1>3 DEF Fares
    <2>7. Carries(t, r) <=> Carries(s, r)
        BY DEF Carries
    <2> HIDE DEF x, z, v, y, e, f, g
    <2>8. g \in Nat /\ g <= e
        BY <2>1, <2>2, <2>3, <2>4, <2>5
    <2>9. g <= 1 /\ (g # 0 => Carries(t, r))
        BY <2>5, <2>6, <2>7, <2>8
    <2> QED
        BY <2>9 DEF g
<1>4. s.writing => \A i \in DOMAIN t.fast : Foreign(t.fast[i]) /\ Apposite(t, t.fast[i], K)
    <2>1. ASSUME s.writing, NEW i \in DOMAIN t.fast
          PROVE  Foreign(t.fast[i]) /\ Apposite(t, t.fast[i], K)
        <3>1. t.fast[i] = p \/ (i \in DOMAIN s.fast /\ t.fast[i] = s.fast[i])
            <4>1. /\ DOMAIN t.fast = 1 .. Len(s.fast) + 1 /\ DOMAIN s.fast = 1 .. Len(s.fast)
                  /\ Len(s.fast) \in Nat
                  /\ \A j \in 1 .. Len(s.fast) : t.fast[j] = s.fast[j]
                  /\ t.fast[Len(s.fast) + 1] = p
                BY <1>2, AppendProperties, LenProperties
            <4> QED
                BY <2>1, <4>1
        <3> QED
            BY <1>1, <2>1, <3>1 DEF Fares, Apposite
    <2> QED
        BY <2>1
<1> QED
    BY <1>1, <1>3, <1>4 DEF Fares, Paired, Apposite

\* A reply finds the request that it is of.
LEMMA ReplyFinds ==
    ASSUME NEW s, Sane(s, {}), NEW w \in Seq(Wires), NEW c \in Seq(Arriving), c # <<>>, NEW b,
           NEW K, Fares(s, w, c, b, K), NEW p \in Replies, p = Head(c), NEW h \in Fitting(s, Waiters),
           h.op \in Requests, \E i \in DOMAIN s.handlers : s.handlers[i].op = h.op,
           h.code = p.code, h.pid = p.pid
    PROVE  p.op = h.op
<1>1. /\ s \in Clients /\ Ids(s)
      /\ kind \in [Requests -> {"qos0", "qos1", "qos2", "subscribe", "unsubscribe"}]
    BY DEF Sane
<1>2. /\ Foreign(p) /\ Apposite(s, p, K)
      /\ Flying(s, w, c, p.op) \in Nat /\ Flying(s, w, Tail(c), p.op) \in Nat
      /\ Flying(s, w, c, p.op) = Flying(s, w, Tail(c), p.op) + 1
    BY <1>1, FaresLess
<1>3. h.pid = s.pid[h.op] /\ kind[h.op] # "qos0" /\ h.code # "PUBLISH" /\ h.code # "PUBREL"
    <2>1. h.pid = s.pid[h.op] /\ IsWaiting(h)
        BY DEF Fitting, Waiters
    <2>2. h.op \notin Incoming
        BY DeliveryAssumption
    <2> QED
        BY <1>1, <2>1, <2>2 DEF IsWaiting, Awaited
<1>4. Sent(s, h.op)
    BY OnePlace DEF Carries
<1>5. p.op \in Requests
    BY <1>2, <1>3 DEF Foreign
<1>6. p.pid = s.pid[p.op] /\ kind[p.op] # "qos0"
    BY <1>2, <1>5 DEF Apposite
<1>7. Flying(s, w, c, p.op) # 0
    BY <1>2
<1>8. Sent(s, p.op)
    <2>1. Carries(s, p.op)
        BY <1>5, <1>6, <1>7 DEF Fares
    <2> QED
        BY <1>5, <2>1, OnePlace
<1> QED
    BY <1>1, <1>3, <1>4, <1>5, <1>6, <1>8 DEF Ids, Numbered

\* Who awaited it has it, and the others await theirs.
LEMMA FoundFares ==
    ASSUME NEW s, Sane(s, {}), NEW w \in Seq(Wires), NEW c \in Seq(Arriving), c # <<>>, NEW b,
           NEW K, Fares(s, w, c, b, K), NEW p \in Replies, p = Head(c),
           NEW found \in 1 .. Len(s.handlers), NEW h, h = s.handlers[found],
           h.op \in Requests => p.op = h.op,
           NEW t \in Clients, t.handlers = Erase(s.handlers, found), t.fast = s.fast,
           t.writing = s.writing, t.pid = s.pid, t.batch = s.batch
    PROVE  Fares(t, w, Tail(c), b, K)
<1>1. /\ s \in Clients /\ s.handlers \in Seq(Waiters)
    BY DEF Sane, Clients
<1>2. /\ Fares(s, w, Tail(c), b, K)
      /\ \A r : /\ Flying(s, w, c, r) \in Nat /\ Flying(s, w, Tail(c), r) \in Nat
                /\ Flying(s, w, c, r) = Flying(s, w, Tail(c), r) + IF p.op = r THEN 1 ELSE 0
    BY <1>1, FaresLess
<1>3. /\ \A j \in DOMAIN s.handlers : j # found =>
              \E k \in DOMAIN t.handlers : t.handlers[k] = s.handlers[j]
      /\ \A k \in DOMAIN t.handlers : \E j \in DOMAIN s.handlers : s.handlers[j] = t.handlers[k]
    <2>1. found \in 0 .. Len(s.handlers)
        BY <1>1, LenProperties
    <2> QED
        BY <1>1, <2>1, EraseLeaves
<1>4. ASSUME NEW r \in Requests, kind[r] # "qos0"
      PROVE  /\ Flying(t, w, Tail(c), r) <= 1
             /\ Flying(t, w, Tail(c), r) # 0 => Carries(t, r)
    <2>1. Flying(t, w, Tail(c), r) = Flying(s, w, Tail(c), r)
        BY DEF Flying
    <2>2. /\ Flying(s, w, Tail(c), r) <= 1
          /\ Flying(s, w, Tail(c), r) # 0 => Carries(s, r)
        BY <1>2, <1>4 DEF Fares
    <2>3. CASE r = h.op
        <3> DEFINE x == Flying(s, w, c, r)
                   y == Flying(s, w, Tail(c), r)
        <3>1. x \in Nat /\ y \in Nat /\ x = y + 1
            BY <1>2, <2>3
        <3>2. x <= 1
            BY <1>4 DEF Fares
        <3> HIDE DEF x, y
        <3>3. y = 0
            BY <3>1, <3>2
        <3> QED
            BY <2>1, <3>3 DEF y
    <2>4. CASE r # h.op
        <3>1. Carries(s, r) => Carries(t, r)
            BY <1>3, <2>4 DEF Carries
        <3> QED
            BY <2>1, <2>2, <3>1
    <2> QED
        BY <2>3, <2>4
<1>5. Paired(t, w)
    <2>1. Paired(s, w)
        BY <1>2 DEF Fares
    <2> QED
        BY <1>3, <2>1 DEF Paired
<1> QED
    BY <1>2, <1>4, <1>5 DEF Fares, Apposite

\* The client that keeps a reply.
LEMMA EarlyParts ==
    ASSUME NEW s \in Clients, NEW p \in Replies
    PROVE  LET t == [s EXCEPT !.fast = Append(s.fast, p)]
           IN  /\ t \in Clients
               /\ t.fast = Append(s.fast, p) /\ t.writing = s.writing /\ t.pid = s.pid
               /\ t.batch = s.batch /\ t.handlers = s.handlers /\ t.status = s.status
               /\ t.open = s.open /\ t.stored = s.stored /\ t.queue = s.queue
               /\ t.wire = s.wire /\ t.posted = s.posted /\ t.abandoned = s.abandoned
<1> DEFINE fast == Append(s.fast, p)
<1>1. fast \in Seq(Replies)
    BY ClientParts, AppendProperties
<1> HIDE DEF fast
<1>2. [s EXCEPT !.fast = fast] \in Clients
    BY <1>1 DEF Clients
<1> QED
    BY <1>2 DEF Clients, fast

\* The packet that is read.
Reads(c, p) == c # <<>> /\ p = Head(c)

\* A reply is kept.
LEMMA EarlyTruth ==
    ASSUME DeliveryInv, Truth, link = "up", NEW p \in Replies, Reads(b2c, p),
           Find(svc.handlers, p.code, p.pid) = 0
    PROVE  TruthOf(Dispatch(svc, p), Tail(b2c), brk, budget, link, stale)
<1> DEFINE t == [svc EXCEPT !.fast = Append(svc.fast, p)]
           K == Known(svc, brk, budget)
<1>1. svc \in Clients /\ b2c \in Seq(Arriving)
    BY DEF DeliveryInv, Accounted, Sound, Sane
<1>2. Dispatch(svc, p) = t
    BY DEF Dispatch
<1>5. /\ t \in Clients
      /\ t.fast = Append(svc.fast, p) /\ t.writing = svc.writing /\ t.pid = svc.pid
      /\ t.batch = svc.batch /\ t.handlers = svc.handlers /\ t.status = svc.status
      /\ t.open = svc.open /\ t.stored = svc.stored /\ t.queue = svc.queue /\ t.wire = svc.wire
      /\ t.posted = svc.posted /\ t.abandoned = svc.abandoned
    BY <1>1, EarlyParts
<1>6. Candid(svc, svc.wire, b2c, brk, budget, link = "up" /\ ~ stale) /\ svc.wire \in Seq(Wires)
      /\ (stale /\ svc.open => Late(svc, b2c))
    BY DEF Truth, TruthOf, Candid
<1> HIDE DEF t
<1>7. Good(t, K)
    BY <1>5, <1>6 DEF Good, Sent, Candid
<1>8. budget.abandons = 0 /\ svc.open => Fares(t, svc.wire, Tail(b2c), brk, K)
    <2>1. ASSUME budget.abandons = 0, svc.open PROVE Fares(t, svc.wire, Tail(b2c), brk, K)
        <3>1. Fares(svc, svc.wire, b2c, brk, K)
            BY <1>6, <2>1 DEF Candid
        <3> HIDE DEF K
        <3> QED
            BY <1>1, <1>5, <1>6, <3>1, EarlyFares DEF Reads
    <2> QED
        BY <2>1
<1>9. Candid(t, t.wire, Tail(b2c), brk, budget, link = "up" /\ ~ stale)
    BY <1>5, <1>6, <1>7, <1>8, CandidBut
<1>10. \A i \in DOMAIN Tail(b2c) : \E j \in DOMAIN b2c : Tail(b2c)[i] = b2c[j]
    BY <1>1, LenProperties, EmptySeq, HeadTailProperties DEF Reads
<1>11. stale /\ t.open => Late(t, Tail(b2c))
    BY <1>5, <1>6, <1>10 DEF Late
<1> QED
    BY <1>2, <1>9, <1>11 DEF TruthOf

\* A reply goes to who awaits it.
LEMMA FoundTruth ==
    ASSUME DeliveryInv, Truth, link = "up", NEW p \in Replies, Reads(b2c, p),
           Find(svc.handlers, p.code, p.pid) # 0, Sane(Dispatch(svc, p), {}),
           Dispatch(svc, p).open = svc.open
    PROVE  TruthOf(Dispatch(svc, p), Tail(b2c), brk, budget, link, stale)
<1> DEFINE found == Find(svc.handlers, p.code, p.pid)
           h == svc.handlers[found]
           g == Granted(svc, found, p.result)
           m == Relieved(svc, found)
           t == Replied(m, g)
           K == Known(svc, brk, budget)
<1>1. /\ Sane(svc, {}) /\ Steady(svc) /\ svc \in Clients /\ b2c \in Seq(Arriving) /\ Kinded
    BY DEF DeliveryInv, Accounted, Sound, Sane, Kinded
<1>2. Dispatch(svc, p) = t
    BY DEF Dispatch, Relieved, Granted
<1>3. /\ found \in 1 .. Len(svc.handlers) /\ h \in Fitting(svc, Waiters)
      /\ h.code = p.code /\ h.pid = p.pid
      /\ m \in Clients /\ Alike(svc, m) /\ m.queue = svc.queue /\ m.batch = svc.batch
      /\ m.handlers = Erase(svc.handlers, found) /\ m.posted = svc.posted
      /\ m.writing = svc.writing /\ m.fast = svc.fast /\ m.wire = svc.wire
      /\ m.serial = svc.serial /\ m.stored = svc.stored
      /\ Sane(m, {h.op} \cap Requests)
      /\ g.op = h.op /\ g.code = h.code /\ g.result = p.result /\ g \in PostsOf(m)
    BY <1>1, RelievedKeeps
<1>4. h = svc.handlers[found]
    OBVIOUS
<1> DEFINE D == {h.op} \cap Requests
<1>5. (h.op \in Requests => h.op \in D) /\ Sane(m, D)
    BY <1>3
<1> HIDE DEF found, h, g, m, D
<1>6. Candid(svc, svc.wire, b2c, brk, budget, link = "up" /\ ~ stale) /\ svc.wire \in Seq(Wires)
      /\ (stale /\ svc.open => Late(svc, b2c))
    BY DEF Truth, TruthOf, Candid
<1>7. Apt(K)
    BY <1>1, KnownIsApt
<1>8. found \in DOMAIN svc.handlers /\ svc.handlers \in Seq(Hopeful(K)) /\ found \in 0 .. Len(svc.handlers)
    <2>1. svc.handlers \in Seq(Hopeful(K))
        BY <1>6 DEF Candid, Good
    <2> QED
        BY <1>3, <2>1, LenProperties
<1>9. Good(m, K)
    <2>1. m.handlers \in Seq(Hopeful(K))
        BY <1>3, <1>8, EraseTells
    <2> QED
        BY <1>3, <1>6, <2>1 DEF Good, Sent, Candid, Alike
<1>10. budget.abandons = 0 => Fares(svc, svc.wire, b2c, brk, K)
    <2>1. svc.open
        BY DEF DeliveryInv, Accounted
    <2> QED
        BY <1>6, <2>1 DEF Candid
<1>11. budget.abandons = 0 /\ h.op \in Requests => p.op = h.op /\ Apposite(svc, p, K)
    <2>1. ASSUME budget.abandons = 0, h.op \in Requests PROVE p.op = h.op /\ Apposite(svc, p, K)
        <3> HIDE DEF K
        <3>1. Fares(svc, svc.wire, b2c, brk, K)
            BY <1>10, <2>1
        <3>2. \E i \in DOMAIN svc.handlers : svc.handlers[i].op = h.op
            BY <1>4, <1>8
        <3>3. p.op = h.op
            BY <1>1, <1>3, <1>6, <2>1, <3>1, <3>2, ReplyFinds DEF Reads
        <3>4. Apposite(svc, p, K)
            BY <1>1, <1>6, <3>1, FaresLess DEF Reads
        <3> QED
            BY <3>3, <3>4
    <2> QED
        BY <2>1
<1>12. budget.abandons = 0 /\ svc.open => Fares(m, svc.wire, Tail(b2c), brk, K)
    <2>1. ASSUME budget.abandons = 0 PROVE Fares(m, svc.wire, Tail(b2c), brk, K)
        <3> HIDE DEF K
        <3>1. Fares(svc, svc.wire, b2c, brk, K) /\ (h.op \in Requests => p.op = h.op)
            BY <1>10, <1>11, <2>1
        <3>2. m.pid = svc.pid
            BY <1>3 DEF Alike
        <3> QED
            BY <1>1, <1>3, <1>4, <1>6, <3>1, <3>2, FoundFares DEF Reads
    <2> QED
        BY <2>1
<1>13. g \in Tellable(K)
    <2>1. g \in Posts
        BY <1>3 DEF PostsOf, Fitting
    <2>2. Truthful(g, K)
        <3>1. CASE budget.abandons # 0
            BY <3>1 DEF Truthful, Known
        <3>2. CASE budget.abandons = 0
            <4> HIDE DEF K
            <4> QED
                BY <1>3, <1>11, <3>2 DEF Truthful, Apposite
        <3> QED
            BY <3>1, <3>2
    <2> QED
        BY <2>1, <2>2 DEF Tellable
<1>14. Candid(m, m.wire, Tail(b2c), brk, budget, link = "up" /\ ~ stale) /\ Known(m, brk, budget) = K
    <2>1. /\ m.pid = svc.pid /\ m.status = svc.status /\ m.open = svc.open
          /\ m.batch = svc.batch /\ m.stored = svc.stored
        BY <1>3 DEF Alike
    <2> DEFINE up == link = "up" /\ ~ stale
    <2>2. Candid(svc, svc.wire, b2c, brk, budget, up)
        BY <1>6
    <2>3. Good(m, Known(svc, brk, budget))
        BY <1>9
    <2>4. budget.abandons = 0 /\ svc.open => Fares(m, svc.wire, Tail(b2c), brk, Known(svc, brk, budget))
        BY <1>12
    <2> HIDE DEF up, K
    <2>5. Candid(m, svc.wire, Tail(b2c), brk, budget, up) /\ Known(m, brk, budget) = Known(svc, brk, budget)
        BY <2>1, <2>2, <2>3, <2>4, CandidBut
    <2> QED
        BY <1>3, <2>5 DEF up, K
<1>15. \A i \in DOMAIN Tail(b2c) : \E j \in DOMAIN b2c : Tail(b2c)[i] = b2c[j]
    BY <1>1, LenProperties, EmptySeq, HeadTailProperties DEF Reads
<1> HIDE DEF K
<1>16. stale /\ m.open => Late(m, Tail(b2c))
    BY <1>3, <1>6, <1>15 DEF Late, Alike
<1>17. TruthOf(m, Tail(b2c), brk, budget, link, stale)
    BY <1>14, <1>16 DEF TruthOf
<1>18. Moves(m, t, K)
    BY <1>3, <1>5, <1>7, <1>9, <1>13, RepliedMoves
<1> HIDE DEF t
<1>19. Tail(b2c) \in Seq(Arriving)
    BY <1>1, CountTail DEF Reads
<1>20. Sane(t, {}) /\ t.open = m.open
    BY <1>2, <1>3 DEF Alike
<1> QED
    BY <1>2, <1>3, <1>5, <1>14, <1>17, <1>18, <1>19, <1>20, TruthOn

\* A packet that is read.
LEMMA ReadTruth ==
    ASSUME DeliveryInv, Truth, Read
    PROVE  NextTruth
<1> DEFINE p == Head(b2c)
           K == Known(svc, brk, budget)
<1>1. /\ b2c # <<>> /\ b2c' = Tail(b2c) /\ link = "up"
      /\ svc' = IF p.code = "PUBLISH" THEN OnPublish(svc, p.op) ELSE Dispatch(svc, p)
      /\ link' = link /\ stale' = stale /\ brk' = brk /\ budget' = budget
    BY DEF Read
<1>2. /\ Sane(svc, {}) /\ Sound(svc) /\ b2c \in Seq(Arriving) /\ svc \in Clients /\ Kinded /\ svc.open
      /\ level \in [Incoming -> {"qos0", "qos1", "qos2"}]
    BY <1>1 DEF DeliveryInv, Accounted, Sound, Sane, Kinded
<1>3. Sane(svc', {}) /\ svc'.open = svc.open
    BY <1>2, ReadSound DEF Sound, Onward
<1>4. p \in Arriving /\ Tail(b2c) \in Seq(Arriving)
    BY <1>1, <1>2, CountTail
<1>5. Reads(b2c, p)
    BY <1>1 DEF Reads
<1> HIDE DEF p
<1>6. CASE p.code = "PUBLISH"
    <2> DEFINE m == p.op
    <2>1. m \in Incoming
        BY <1>4, <1>6 DEF Arriving
    <2> HIDE DEF m
    <2>2. Candid(svc, svc.wire, Tail(b2c), brk, budget, link = "up" /\ ~ stale)
        BY <1>1, <1>2, CandidFewer DEF Truth, TruthOf
    <2>3. \A i \in DOMAIN Tail(b2c) : \E j \in DOMAIN b2c : Tail(b2c)[i] = b2c[j]
        BY <1>1, <1>2, LenProperties, EmptySeq, HeadTailProperties
    <2>4. TruthOf(svc, Tail(b2c), brk, budget, link, stale)
        BY <1>1, <2>2, <2>3 DEF Truth, TruthOf, Late
    <2>5. Good(svc, K) /\ Apt(K)
        BY <1>2, KnownIsApt DEF Truth, TruthOf, Candid
    <2>6. Moves(svc, svc', K)
        <3> HIDE DEF K
        <3>1. CASE level[m] = "qos0"
            <4>1. svc' = Store(svc, m)
                BY <1>1, <1>6, <3>1 DEF OnPublish, m
            <4> QED
                BY <1>2, <2>1, <2>5, <4>1, StoreMoves
        <3>2. CASE level[m] # "qos0"
            <4> DEFINE code == IF level[m] = "qos1" THEN "PUBACK" ELSE "PUBREC"
                       x == WriteReq(m, code, 1, 0)
            <4>1. svc' = Send(svc, x)
                BY <1>1, <1>6, <3>2 DEF OnPublish, m
            <4>2. x \in Unsent(K)
                BY <2>1, <2>5, OtherUnsent
            <4> HIDE DEF x
            <4> QED
                BY <1>2, <2>5, <4>1, <4>2, SendMoves
        <3> QED
            BY <3>1, <3>2
    <2>7. TruthOf(svc', Tail(b2c), brk, budget, link, stale)
        BY <1>2, <1>3, <1>4, <2>4, <2>6, TruthOn
    <2> QED
        BY <1>1, <2>7 DEF NextTruth
<1>7. CASE p.code # "PUBLISH"
    <2>1. p \in Replies
        BY <1>4, <1>7 DEF Arriving, Replies
    <2>2. svc' = Dispatch(svc, p)
        BY <1>1, <1>7
    <2>3. TruthOf(Dispatch(svc, p), Tail(b2c), brk, budget, link, stale)
        <3>1. CASE Find(svc.handlers, p.code, p.pid) = 0
            BY <1>1, <1>2, <1>5, <2>1, <3>1, EarlyTruth
        <3>2. CASE Find(svc.handlers, p.code, p.pid) # 0
            BY <1>1, <1>2, <1>3, <1>5, <2>1, <2>2, <3>2, FoundTruth
        <3> QED
            BY <3>1, <3>2
    <2> QED
        BY <1>1, <2>2, <2>3 DEF NextTruth
<1> QED
    BY <1>6, <1>7

\* A reply that came early is of the request whose number it has.
LEMMA EarlyIs ==
    ASSUME NEW s, Sane(s, {}), NEW w \in Seq(Wires), NEW c \in Seq(Arriving), NEW b, NEW K,
           Fares(s, w, c, b, K), s.writing = TRUE, NEW i \in DOMAIN s.fast, NEW op \in Requests,
           Numbered(s, op), s.fast[i].pid = s.pid[op],
           s.fast[i].code \in {"PUBACK", "PUBREC", "PUBCOMP", "SUBACK", "UNSUBACK"}
    PROVE  s.fast[i].op = op /\ Apposite(s, s.fast[i], K) /\ Flying(s, w, <<>>, op) > Count(w, op)
<1> DEFINE p == s.fast[i]
<1>1. s \in Clients /\ Ids(s) /\ s.fast \in Seq(Replies)
    BY ClientParts DEF Sane
<1>2. Foreign(p) /\ Apposite(s, p, K)
    BY DEF Fares
<1>3. p.op \in Requests
    BY <1>2 DEF Foreign
<1>4. p.pid = s.pid[p.op] /\ kind[p.op] # "qos0"
    BY <1>2, <1>3 DEF Apposite
<1>5. Count(s.fast, p.op) # 0 /\ Count(s.fast, p.op) \in Nat
    BY <1>1, CountTells
<1>6. Count(w, p.op) \in Nat /\ Count(c, p.op) \in Nat /\ Count(<<>>, p.op) = 0
    <2>1. Count(w, p.op) \in Nat
        BY MineIsFinite
    <2>2. Count(c, p.op) \in Nat
        BY MineIsFinite
    <2> QED
        BY <2>1, <2>2, CountEmpty
<1>7. /\ Flying(s, w, c, p.op) = Count(w, p.op) + Count(c, p.op) + Count(s.fast, p.op)
      /\ Flying(s, w, <<>>, p.op) = Count(w, p.op) + Count(<<>>, p.op) + Count(s.fast, p.op)
    BY DEF Flying
<1> HIDE DEF p
<1>8. Flying(s, w, c, p.op) # 0 /\ Flying(s, w, <<>>, p.op) > Count(w, p.op)
    BY <1>5, <1>6, <1>7
<1>9. Sent(s, p.op)
    <2>1. Carries(s, p.op)
        BY <1>3, <1>4, <1>8 DEF Fares
    <2> QED
        BY <1>3, <2>1, OnePlace
<1>10. p.op = op
    BY <1>1, <1>3, <1>4, <1>9 DEF Ids, Numbered, p
<1> QED
    BY <1>2, <1>8, <1>10 DEF p

\* Who is written and awaits a reply has a number.
LEMMA OwedIs ==
    ASSUME NEW s, Sane(s, {}), NEW i \in DOMAIN s.batch, Owed(s.batch[i])
    PROVE  /\ s.batch[i].op \in Requests /\ kind[s.batch[i].op] # "qos0"
           /\ Numbered(s, s.batch[i].op) /\ s.batch[i].pid = s.pid[s.batch[i].op]
           /\ Expected(s.batch[i]) \in {"PUBACK", "PUBREC", "PUBCOMP", "SUBACK", "UNSUBACK"}
<1> DEFINE x == s.batch[i]
<1>1. s.batch \in Seq(Fitting(s, WriteReqs))
      /\ kind \in [Requests -> {"qos0", "qos1", "qos2", "subscribe", "unsubscribe"}]
    BY DEF Sane, Matching
<1>2. x \in Fitting(s, WriteReqs)
    BY <1>1, LenProperties, ElementOfSeq
<1>3. x.op \in Requests /\ kind[x.op] # "qos0"
    BY DEF Owed
<1>4. Sent(s, x.op)
    BY <1>3, OnePlace DEF Carries
<1>5. x.pid = s.pid[x.op]
    BY <1>2, <1>3 DEF Fitting
<1>6. Expected(x) \in {"PUBACK", "PUBREC", "PUBCOMP", "SUBACK", "UNSUBACK"}
    BY <1>1, <1>3 DEF Expected, Awaited
<1> QED
    BY <1>3, <1>4, <1>5, <1>6 DEF Numbered

\* So what came early is meant for who was written.
LEMMA DoneMeant ==
    ASSUME NEW s, Sane(s, {}), NEW w \in Seq(Wires), NEW c \in Seq(Arriving), NEW b, NEW K,
           Fares(s, w, c, b, K), s.writing = TRUE, NEW i \in DOMAIN s.batch, Owed(s.batch[i])
    PROVE  Meant(s.fast, s.batch[i].op, Expected(s.batch[i]), s.batch[i].pid, K)
<1> DEFINE x == s.batch[i]
<1>1. /\ x.op \in Requests /\ kind[x.op] # "qos0" /\ Numbered(s, x.op) /\ x.pid = s.pid[x.op]
      /\ Expected(x) \in {"PUBACK", "PUBREC", "PUBCOMP", "SUBACK", "UNSUBACK"}
    BY OwedIs
<1> HIDE DEF x
<1>2. ASSUME NEW j \in DOMAIN s.fast, s.fast[j].code = Expected(x), s.fast[j].pid = x.pid
      PROVE  /\ s.fast[j].result = "ok" => x.op \in K.sure
             /\ x.op \in K.held => Expected(x) = "PUBREC" /\ s.fast[j].result = "ok"
    <2>1. s.fast[j].op = x.op /\ Apposite(s, s.fast[j], K)
        BY <1>1, <1>2, EarlyIs
    <2> QED
        BY <1>1, <1>2, <2>1 DEF Apposite
<1> QED
    BY <1>2 DEF Meant, x

\* What is on its way is for who awaits its reply when the write has ended.
LEMMA DoneRides ==
    ASSUME NEW s, Sane(s, {}), NEW w \in Seq(Wires), NEW c \in Seq(Arriving), NEW b, NEW K,
           Fares(s, w, c, b, K), s.writing = TRUE,
           NEW base, base.writing = FALSE, base.status = s.status, base.pid = s.pid,
           base.handlers = s.handlers, base.fast = s.fast, NEW t, Goes(base, t),
           \A i \in DOMAIN s.batch : Handled(base, t, s.batch[i])
    PROVE  Rides(base, t, w, c, b, K)
<1>1. ASSUME NEW r \in Requests, kind[r] # "qos0"
      PROVE  /\ Flying(base, w, c, r) <= 1
             /\ Flying(base, w, c, r) # 0 => Sent(base, r) /\ Kept(base, t, w, r)
    <2> DEFINE x == Count(w, r)
               y == Count(c, r)
               v == Count(s.fast, r)
               f == Flying(s, w, c, r)
               g == Flying(base, w, c, r)
    <2>1. x \in Nat
        BY MineIsFinite
    <2>2. y \in Nat
        BY MineIsFinite
    <2>3. v \in Nat
        BY ClientParts DEF Sane
    <2>4. f = x + y + v /\ g = x + y
        <3>1. f = x + y + v /\ g = x + y + 0
            BY DEF Flying
        <3> HIDE DEF x, y, v, f, g
        <3> QED
            BY <2>1, <2>2, <3>1
    <2>5. f <= 1 /\ (f # 0 => Carries(s, r))
        BY <1>1 DEF Fares
    <2> HIDE DEF x, y, v, f, g
    <2>6. g \in Nat /\ g <= 1 /\ (g # 0 => Carries(s, r) /\ v = 0)
        BY <2>1, <2>2, <2>3, <2>4, <2>5
    <2>7. ASSUME g # 0 PROVE Sent(base, r) /\ Kept(base, t, w, r)
        <3>1. Carries(s, r) /\ v = 0
            BY <2>6, <2>7
        <3>2. Sent(s, r)
            BY <3>1, OnePlace
        <3>3. Paired(s, w)
            BY DEF Fares
        <3>4. ASSUME NEW j \in DOMAIN s.batch, s.batch[j].op = r PROVE Kept(base, t, w, r)
            <4>1. Owed(s.batch[j])
                BY <1>1, <3>4 DEF Owed
            <4>2. Waiting(base, t, r, Expected(s.batch[j]), s.batch[j].pid)
                BY <3>4, <4>1 DEF Handled
            <4>3. CASE \E k \in DOMAIN t.handlers :
                          t.handlers[k] = Expecting(r, Expected(s.batch[j]), s.batch[j].pid, "none")
                <5>1. PICK k \in DOMAIN t.handlers :
                          t.handlers[k] = Expecting(r, Expected(s.batch[j]), s.batch[j].pid, "none")
                    BY <4>3
                <5>2. t.handlers[k].op = r /\ t.handlers[k].code = Expected(s.batch[j])
                    BY <5>1 DEF Expecting
                <5>3. Pair(w, r, t.handlers[k].code, "PUBCOMP")
                    BY <3>3, <3>4, <5>2 DEF Paired, Pair, Expected
                <5> QED
                    BY <5>2, <5>3 DEF Kept
            <4>4. CASE \E k \in DOMAIN base.fast :
                          base.fast[k].code = Expected(s.batch[j]) /\ base.fast[k].pid = s.batch[j].pid
                <5>1. PICK k \in DOMAIN s.fast :
                          s.fast[k].code = Expected(s.batch[j]) /\ s.fast[k].pid = s.batch[j].pid
                    BY <4>4
                <5>2. /\ Numbered(s, r) /\ s.batch[j].pid = s.pid[r]
                      /\ Expected(s.batch[j]) \in {"PUBACK", "PUBREC", "PUBCOMP", "SUBACK", "UNSUBACK"}
                    BY <3>4, <4>1, OwedIs
                <5>3. s.fast[k].op = r
                    BY <5>1, <5>2, EarlyIs
                <5>4. s.fast \in Seq(Replies)
                    BY ClientParts DEF Sane
                <5>5. v # 0
                    BY <5>3, <5>4, CountTells DEF v
                <5> QED
                    BY <3>1, <5>5
            <4> QED
                BY <4>2, <4>3, <4>4 DEF Waiting
        <3>5. ASSUME NEW j \in DOMAIN s.handlers, s.handlers[j].op = r PROVE Kept(base, t, w, r)
            <4>1. PICK k \in DOMAIN t.handlers : t.handlers[k] = s.handlers[j]
                BY <3>5 DEF Goes
            <4>2. Pair(w, r, s.handlers[j].code, "PUBCOMP")
                BY <3>3, <3>5 DEF Paired, Pair
            <4> QED
                BY <3>5, <4>1, <4>2 DEF Kept
        <3> QED
            BY <3>1, <3>2, <3>4, <3>5 DEF Carries, Sent
    <2> QED
        BY <2>6, <2>7 DEF g
<1> QED
    BY <1>1 DEF Fares, Rides, Apposite

\* When a write has ended all that is on its way has been told.
LEMMA DoneSettled ==
    ASSUME NEW s \in Clients, NEW w \in Seq(Wires), NEW b, NEW up, Trails(s, w, b, up),
           Tailed(s, w), NEW base, base.status = s.status, base.stored = s.stored,
           base.open = TRUE, NEW t \in Clients, Lasts(base, t),
           \A i \in DOMAIN s.batch : Handled(base, t, s.batch[i])
    PROVE  Settled(t, w, b)
<1>1. /\ s.batch \in Seq(WriteReqs) /\ Len(s.batch) \in Nat /\ DOMAIN s.batch = 1 .. Len(s.batch)
      /\ Len(w) \in Nat /\ DOMAIN w = 1 .. Len(w)
    BY ClientParts, LenProperties
<1>0. \A m \in Incoming : s.stored[m] \in Nat /\ t.stored[m] \in Nat
    BY ClientParts
<1>2. ASSUME NEW i \in DOMAIN w, ~ (i <= Older(s, w))
      PROVE  \E j \in DOMAIN s.batch : w[i] = Packet(s.batch[j])
    <2> DEFINE j == i - Older(s, w)
    <2>1. j \in DOMAIN s.batch /\ j + Older(s, w) = i
        BY <1>1, <1>2 DEF Older
    <2> QED
        BY <2>1 DEF Tailed
<1>3. ASSUME NEW i \in DOMAIN w, Once(w[i])
      PROVE  /\ b.taken[w[i].op] = 0 /\ t.status[w[i].op] # "idle" /\ ~ Sent(t, w[i].op)
             /\ \A j \in DOMAIN w : w[j].op = w[i].op => i = j
    <2>1. /\ b.taken[w[i].op] = 0 /\ s.status[w[i].op] # "idle"
          /\ \A j \in DOMAIN w : w[j].op = w[i].op => i = j
          /\ i <= Older(s, w) => ~ Sent(s, w[i].op)
        BY <1>3 DEF Trails
    <2>2. w[i].op \in Requests
        BY <1>3 DEF Once
    <2>3. ~ Sent(t, w[i].op)
        <3>1. CASE i <= Older(s, w)
            BY <2>1, <2>2, <3>1 DEF Lasts, Sent
        <3>2. CASE ~ (i <= Older(s, w))
            <4>1. PICK j \in DOMAIN s.batch : w[i] = Packet(s.batch[j])
                BY <1>2, <3>2
            <4>2. s.batch[j].op = w[i].op
                BY <4>1 DEF Packet
            <4>3. Once(s.batch[j])
                BY <1>3, <4>2 DEF Once
            <4> QED
                BY <4>2, <4>3 DEF Handled
        <3> QED
            BY <3>1, <3>2
    <2> QED
        BY <2>1, <2>2, <2>3 DEF Lasts
<1>4. ASSUME NEW i \in DOMAIN w, Ack(w[i]) PROVE t.stored[w[i].op] >= 1
    <2>1. w[i] \in Wires
        BY ElementOfSeq, <1>1
    <2>2. w[i].op \in Incoming
        BY <1>4, <2>1, DeliveryAssumption DEF Ack, Wires, Anyone, BeginsWith
    <2>3. CASE i <= Older(s, w)
        <3>1. s.stored[w[i].op] >= 1 /\ s.stored[w[i].op] <= t.stored[w[i].op]
            BY <1>4, <2>2, <2>3 DEF Trails, Lasts
        <3> QED
            BY <1>0, <2>2, <3>1
    <2>4. CASE ~ (i <= Older(s, w))
        <3>1. PICK j \in DOMAIN s.batch : w[i] = Packet(s.batch[j])
            BY <1>2, <2>4
        <3>2. s.batch[j].op = w[i].op /\ s.batch[j].code = w[i].code
            BY <3>1 DEF Packet
        <3> QED
            BY <1>4, <3>2 DEF Handled, Ack
    <2> QED
        BY <2>3, <2>4
<1>5. ASSUME NEW m \in Incoming, b.out[m] = "done", level[m] # "qos0" PROVE t.stored[m] >= 1
    <2>1. \/ s.stored[m] >= 1
          \/ \E i \in Arrived(s, w, up) : Ack(s.batch[i]) /\ s.batch[i].op = m
        BY <1>5 DEF Trails
    <2>2. CASE s.stored[m] >= 1
        BY <1>0, <2>2 DEF Lasts
    <2>3. CASE \E i \in Arrived(s, w, up) : Ack(s.batch[i]) /\ s.batch[i].op = m
        BY <2>3 DEF Arrived, Handled
    <2> QED
        BY <2>1, <2>2, <2>3
<1> QED
    BY <1>3, <1>4, <1>5 DEF Settled

\* What ends with the end of a write.
Ended(s) == [s EXCEPT !.writing = FALSE, !.batch = <<>>]

\* It ends nothing else.
LEMMA EndedParts ==
    ASSUME NEW s \in Clients
    PROVE  /\ Ended(s).writing = FALSE /\ Ended(s).batch = <<>> /\ Ended(s).status = s.status
           /\ Ended(s).pid = s.pid /\ Ended(s).handlers = s.handlers /\ Ended(s).fast = s.fast
           /\ Ended(s).wire = s.wire /\ Ended(s).stored = s.stored /\ Ended(s).open = s.open
           /\ Ended(s).queue = s.queue /\ Ended(s).posted = s.posted
           /\ Ended(s).abandoned = s.abandoned /\ Ended(s).serial = s.serial
BY DEF Ended, Clients

\* Then all goes as before.
LEMMA EndedGood ==
    ASSUME NEW s \in Clients, NEW K, Good(s, K)
    PROVE  Good(Ended(s), K)
<1>1. <<>> \in Seq(Writable(K))
    BY EmptySeq
<1>2. /\ Ended(s).batch = <<>> /\ Ended(s).status = s.status /\ Ended(s).handlers = s.handlers
      /\ Ended(s).open = s.open /\ Ended(s).queue = s.queue /\ Ended(s).posted = s.posted
      /\ Ended(s).abandoned = s.abandoned
    BY EndedParts
<1> QED
    BY <1>1, <1>2 DEF Good, Sent

\* The end of a write.
LEMMA DoneCandid ==
    ASSUME NEW s, Sane(s, {}), s.writing = TRUE, s.open = TRUE, NEW c \in Seq(Arriving), NEW b,
           NEW u, NEW up, Candid(s, s.wire, c, b, u, up), NEW D, Sane(Ended(s), D),
           NEW t, Sane(t, {}), Moves(Ended(s), t, Known(s, b, u)), t.open = s.open,
           \A i \in DOMAIN s.batch : Handled(Ended(s), t, s.batch[i])
    PROVE  Candid(t, t.wire, c, b, u, up)
<1> DEFINE K == Known(s, b, u)
           L == Known(t, b, u)
           w == s.wire
           base == Ended(s)
<1>1. /\ s \in Clients /\ t \in Clients /\ base \in Clients /\ w \in Seq(Wires) /\ b \in Brokers
      /\ u \in Budgets
      /\ Advances(base, t) /\ Lasts(base, t) /\ Goes(base, t) /\ Good(t, K) /\ Fresh(base, t, K)
    BY DEF Sane, Candid, Moves, Goes, Lasts
<1>2. /\ base.writing = FALSE /\ base.batch = <<>> /\ base.status = s.status
      /\ base.pid = s.pid /\ base.handlers = s.handlers /\ base.fast = s.fast
      /\ base.wire = w /\ base.stored = s.stored /\ base.open = TRUE
    BY <1>1, EndedParts
<1> HIDE DEF base
<1>3. Known(base, b, u) = K
    BY <1>2 DEF Known, Sent
<1>4. t.wire \in Seq(Wires)
    BY <1>1, <1>2, WiresOn
<1>5. u.abandons = 0 => Fares(s, w, c, b, K)
    BY DEF Candid
<1>6. /\ L.sure = K.sure /\ L.held = K.held /\ L.spent = K.spent /\ L.late \subseteq K.late
      /\ Good(t, L)
    <2>1. u.abandons = 0 /\ base.open => \A p \in b.open : \E r \in K.held : base.pid[r] = p
        BY <1>2, <1>5 DEF Fares
    <2>2. t.open = base.open /\ Sane(base, D)
        BY <1>2 DEF base
    <2> HIDE DEF K
    <2> QED
        BY <1>1, <1>3, <2>1, <2>2, KnownOn
<1>7. ASSUME u.abandons = 0 PROVE Fares(t, t.wire, c, b, L)
    <2>1. Fares(s, w, c, b, K)
        BY <1>5, <1>7
    <2>2. K.held \subseteq Requests /\ \A r \in K.held : Sent(base, r)
        BY <1>2 DEF Known, Sent
    <2>3. \A i \in DOMAIN s.batch : Handled(base, t, s.batch[i])
        BY DEF base
    <2> HIDE DEF K, L
    <2>4. Rides(base, t, w, c, b, K)
        BY <1>1, <1>2, <2>1, <2>3, DoneRides
    <2> HIDE DEF w
    <2>5. Rides(base, t, base.wire, c, b, K) /\ base.wire \in Seq(Wires)
        BY <1>1, <1>2, <2>4
    <2> QED
        BY <1>1, <1>6, <2>2, <2>5, FaresOn
<1>8. Tailed(t, t.wire)
    <2>1. Sane(base, D) /\ base.wire \in Seq(Wires) /\ (base.writing => Tailed(base, base.wire))
        BY <1>1, <1>2 DEF base
    <2>2. ~ t.writing => t.batch = <<>>
        BY DEF Sane
    <2> QED
        BY <1>1, <2>1, <2>2, TailedOn
<1>9. ASSUME ~ u.cut PROVE Trails(t, t.wire, b, up)
    <2>1. Trails(s, w, b, up) /\ Tailed(s, w)
        BY <1>9 DEF Candid
    <2>2. \A i \in DOMAIN s.batch : Handled(base, t, s.batch[i])
        BY DEF base
    <2>3. Settled(t, w, b)
        BY <1>1, <1>2, <2>1, <2>2, DoneSettled
    <2>4. {r \in Has(b) : kind[r] = "qos0"} \subseteq K.spent
        BY <1>9 DEF Known
    <2> HIDE DEF K
    <2>5. t.batch \in Seq(Unsent(K))
        BY <1>1, <1>2, EmptySeq DEF Fresh, Advances
    <2>6. \/ ~ t.writing /\ t.wire = w
          \/ \E v \in Clients : v.wire = w /\ t.wire = v.wire \o Packets(t.batch)
        BY <1>1, <1>2 DEF Advances
    <2> HIDE DEF w
    <2> QED
        BY <1>1, <1>4, <2>3, <2>4, <2>5, <2>6, TrailsAnew
<1> QED
    BY <1>1, <1>4, <1>6, <1>7, <1>8, <1>9 DEF Candid

\* So a write that has ended keeps the invariant.
LEMMA WriteDoneTruth ==
    ASSUME DeliveryInv, Truth, WriteDone
    PROVE  NextTruth
<1> DEFINE base == Ended(svc)
           D == Left(svc.batch, {}, 0)
           e == FoldLeft(Written, base, svc.batch)
           K == Known(svc, brk, budget)
           l == svc.batch
<1>1. /\ svc' = DoWrite(e) /\ svc.writing /\ svc.open /\ ~ stale
      /\ link' = link /\ stale' = stale /\ b2c' = b2c /\ brk' = brk /\ budget' = budget
    BY DEF WriteDone, Ended
<1>2. /\ Sane(svc, {}) /\ Sound(svc) /\ b2c \in Seq(Arriving) /\ svc \in Clients /\ Kinded
      /\ svc.writing = TRUE /\ svc.open = TRUE
    BY <1>1 DEF DeliveryInv, Accounted, Sound, Sane, Kinded, Clients
<1>3. Sane(svc', {}) /\ svc'.open = svc.open
    BY <1>2, WriteDoneSound DEF Sound, Onward
<1>4. /\ Sane(base, D) /\ l \in Seq(Fitting(base, WriteReqs)) /\ Distinct(l, {})
      /\ D = Left(l, {}, 0)
    <2>1. base = [svc EXCEPT !.writing = FALSE, !.batch = <<>>]
        BY DEF Ended
    <2> HIDE DEF base
    <2> QED
        BY <1>2, <2>1, Unbatched
<1>5. Candid(svc, svc.wire, b2c, brk, budget, link = "up" /\ ~ stale) /\ Good(svc, K)
      /\ (link # "up" => b2c = <<>>)
    BY DEF Truth, TruthOf, Candid
<1>6. Apt(K) /\ Good(base, K)
    BY <1>2, <1>5, KnownIsApt, EndedGood
<1>7. base.fast = svc.fast /\ base \in Clients /\ base.status = svc.status
    BY <1>2, <1>4, EndedParts DEF Sane
<1>8. l \in Seq(Writable(K)) /\ Len(l) \in Nat /\ DOMAIN l = 1 .. Len(l)
    BY <1>5, LenProperties DEF Good
<1>9. ASSUME NEW i \in DOMAIN l, Owed(l[i])
      PROVE  Meant(base.fast, l[i].op, Expected(l[i]), l[i].pid, K)
    <2>1. CASE budget.abandons # 0
        BY <2>1 DEF Meant, Known
    <2>2. CASE budget.abandons = 0
        <3>1. Fares(svc, svc.wire, b2c, brk, K) /\ svc.wire \in Seq(Wires)
            BY <1>2, <1>5, <2>2 DEF Candid
        <3> HIDE DEF K, base
        <3> QED
            BY <1>2, <1>7, <1>9, <3>1, DoneMeant
    <2> QED
        BY <2>1, <2>2
<1> HIDE DEF base, D, K, l
<1>10. Moves(base, e, K) /\ \A i \in 1 .. Len(l) : Handled(base, e, l[i])
    <2>1. \A i \in 1 .. Len(l) : l[i] \in Writable(K)
        BY <1>8, ElementOfSeq
    <2>2. \A i \in 1 .. Len(l) : Owed(l[i]) => Meant(base.fast, l[i].op, Expected(l[i]), l[i].pid, K)
        BY <1>8, <1>9
    <2>3. {} \in SUBSET Requests /\ e = FoldLeft(Written, base, l)
        BY DEF l
    <2> HIDE DEF e
    <2> QED
        BY <1>4, <1>6, <2>1, <2>2, <2>3, WrittenAllMove
<1> HIDE DEF e
<1>11. Moves(e, svc', K) /\ Moves(base, svc', K)
    <2>1. e \in Clients /\ Good(e, K)
        BY <1>10 DEF Moves
    <2>2. Moves(e, svc', K)
        BY <1>1, <2>1, DoWriteMoves
    <2> QED
        BY <1>7, <1>10, <2>2, MovesOn
<1>12. ASSUME NEW i \in DOMAIN l PROVE Handled(base, svc', l[i])
    <2>1. Handled(base, e, l[i])
        BY <1>8, <1>10
    <2>2. l[i] \in WriteReqs
        BY <1>8, ElementOfSeq DEF Writable
    <2>3. Ack(l[i]) => l[i].op \in Incoming
        BY <2>2, DeliveryAssumption DEF Ack, WriteReqs, IsWrite, BeginsWith
    <2>4. Once(l[i]) => Sent(base, l[i].op)
        <3>1. ASSUME Once(l[i]) PROVE Sent(svc, l[i].op)
            BY <1>2, <3>1, OnePlace DEF Once, Carries, l
        <3> QED
            BY <1>7, <3>1 DEF Sent
    <2>5. e \in Clients /\ svc' \in Clients /\ Goes(base, e) /\ Goes(e, svc')
        BY <1>10, <1>11 DEF Moves
    <2> QED
        BY <1>7, <2>1, <2>3, <2>4, <2>5, HandledStays
<1>13. Candid(svc', svc'.wire, b2c, brk, budget, link = "up" /\ ~ stale)
    <2> DEFINE up == link = "up" /\ ~ stale
               t == svc'
    <2>1. Candid(svc, svc.wire, b2c, brk, budget, up)
        BY <1>5
    <2>2. Sane(Ended(svc), D) /\ Moves(Ended(svc), t, Known(svc, brk, budget))
          /\ \A i \in DOMAIN svc.batch : Handled(Ended(svc), t, svc.batch[i])
        BY <1>4, <1>11, <1>12 DEF base, K, l
    <2>3. Sane(t, {}) /\ t.open = svc.open
        BY <1>3
    <2> HIDE DEF up, t
    <2>4. Candid(t, t.wire, b2c, brk, budget, up)
        BY <1>2, <2>1, <2>2, <2>3, DoneCandid
    <2> QED
        BY <2>4 DEF up, t
<1> QED
    BY <1>1, <1>5, <1>13 DEF NextTruth, TruthOf

\* The same requests and the same write.
LEMMA TrailsLike ==
    ASSUME NEW s, NEW t, t.status = s.status, t.batch = s.batch, t.stored = s.stored,
           NEW w, NEW b, NEW up, Trails(s, w, b, up)
    PROVE  Trails(t, w, b, up)
<1>1. \A r : Sent(t, r) <=> Sent(s, r)
    BY DEF Sent
<1> QED
    BY <1>1 DEF Trails, Arrived, Older

\* The end of a write of a client that is cancelled.
LEMMA WriteAbortedTruth ==
    ASSUME DeliveryInv, Truth, WriteAborted
    PROVE  NextTruth
<1> DEFINE base == Ended(svc)
           D == Left(svc.batch, {}, 0)
           t == FoldLeft(Aborted, base, svc.batch)
           K == Known(svc, brk, budget)
           l == svc.batch
<1>1. /\ svc' = t /\ ~ svc.open /\ stale' = FALSE
      /\ link' = link /\ b2c' = b2c /\ brk' = brk /\ budget' = budget
    BY DEF WriteAborted, Ended
<1>2. /\ Sane(svc, {}) /\ Sound(svc) /\ b2c \in Seq(Arriving) /\ svc \in Clients /\ Kinded
      /\ svc.open = FALSE
    BY <1>1 DEF DeliveryInv, Accounted, Sound, Sane, Kinded, Clients
<1>3. Sane(svc', {}) /\ svc'.open = FALSE
    BY <1>2, WriteAbortedSound DEF Sound, Onward
<1>4. /\ Sane(base, D) /\ l \in Seq(Fitting(base, WriteReqs)) /\ Distinct(l, {})
      /\ D = Left(l, {}, 0)
    <2>1. base = [svc EXCEPT !.writing = FALSE, !.batch = <<>>]
        BY DEF Ended
    <2> HIDE DEF base
    <2> QED
        BY <1>2, <2>1, Unbatched
<1>5. Candid(svc, svc.wire, b2c, brk, budget, link = "up" /\ ~ stale) /\ Good(svc, K)
      /\ (link # "up" => b2c = <<>>)
    BY DEF Truth, TruthOf, Candid
<1>6. Apt(K) /\ Good(base, K) /\ svc.wire \in Seq(Wires)
    BY <1>2, <1>5, KnownIsApt, EndedGood DEF Candid
<1>7. base \in Clients /\ base.open = FALSE /\ base.writing = FALSE /\ base.wire = svc.wire
    BY <1>2, <1>4, EndedParts DEF Sane
<1>8. Known(svc', brk, budget) = K
    BY <1>2, <1>3 DEF Known
<1>9. t = FoldLeft(Aborted, base, l)
    OBVIOUS
<1> HIDE DEF base, D, K, l, t
<1>10. Moves(base, svc', K)
    <2>1. {} \in SUBSET Requests /\ ~ base.open
        BY <1>7
    <2> QED
        BY <1>1, <1>4, <1>6, <1>9, <2>1, AbortedAllMove
<1>11. svc' \in Clients /\ Advances(base, svc') /\ Good(svc', K)
    BY <1>10 DEF Moves, Goes
<1>12. svc'.wire \in Seq(Wires) /\ Tailed(svc', svc'.wire)
    <2>1. base.wire \in Seq(Wires)
        BY <1>6, <1>7
    <2>2. ~ svc'.writing => svc'.batch = <<>>
        BY <1>3 DEF Sane
    <2> DEFINE v == svc'
    <2>3. v \in Clients /\ Advances(base, v) /\ (~ v.writing => v.batch = <<>>)
        BY <1>11, <2>2
    <2> HIDE DEF v
    <2>4. v.wire \in Seq(Wires)
        BY <1>7, <2>1, <2>3, WiresOn
    <2>5. Tailed(v, v.wire)
        BY <1>4, <1>7, <2>1, <2>3, TailedOn
    <2> QED
        BY <2>4, <2>5 DEF v
<1>13. \A up : Candid(svc', svc'.wire, b2c, brk, budget, up)
    BY <1>3, <1>5, <1>8, <1>11, <1>12 DEF Candid
<1> QED
    BY <1>1, <1>5, <1>13 DEF NextTruth, TruthOf

\* A request is abandoned, of which nothing is said then.
LEMMA AbandonTruth ==
    ASSUME DeliveryInv, Truth, NEW r \in Requests, Abandon(r)
    PROVE  NextTruth
<1> DEFINE K == Known(svc, brk, budget)
           t == svc'
           v == budget'
           L == Known(t, brk, v)
<1>1. /\ t = [svc EXCEPT !.abandoned = @ \cup {r}]
      /\ v = [budget EXCEPT !.abandons = @ + 1]
      /\ link' = link /\ stale' = stale /\ b2c' = b2c /\ brk' = brk
    BY DEF Abandon
<1>2. svc \in Clients /\ Kinded
    BY DEF DeliveryInv, Accounted, Sound, Sane, Kinded
<1>3. /\ t.open = svc.open /\ t.pid = svc.pid /\ t.status = svc.status /\ t.queue = svc.queue
      /\ t.batch = svc.batch /\ t.handlers = svc.handlers /\ t.posted = svc.posted
      /\ t.writing = svc.writing /\ t.wire = svc.wire /\ t.stored = svc.stored
    BY <1>1, <1>2 DEF Clients
<1>4. Candid(svc, svc.wire, b2c, brk, budget, link = "up" /\ ~ stale)
    BY DEF Truth, TruthOf
<1>5. /\ v \in Budgets /\ v.abandons # 0 /\ v.cut = budget.cut /\ v.losses = budget.losses
    BY <1>1, <1>4 DEF Candid, Budgets
<1> HIDE DEF t, v
<1>6. Apt(K)
    BY <1>2, KnownIsApt
<1>7. Weaker(K, L) /\ L.held = {}
    <2>1. L.spent = K.spent
        BY <1>3, <1>5 DEF Known
    <2>2. K.sure \subseteq Requests
        BY <1>6 DEF Apt
    <2>3. L.sure = Requests /\ L.late = {} /\ L.held = {}
        BY <1>5 DEF Known
    <2> HIDE DEF K, L
    <2> QED
        BY <2>1, <2>2, <2>3 DEF Weaker
<1>8. Good(svc, K)
    BY <1>4 DEF Candid
<1> HIDE DEF K
<1>9. Good(t, L)
    <2> HIDE DEF L
    <2>1. Good(svc, L)
        BY <1>7, <1>8, GoodWeaker
    <2> QED
        BY <1>3, <1>7, <2>1 DEF Good, Sent
<1>10. Tailed(t, t.wire)
    BY <1>3, <1>4 DEF Candid, Tailed, Older
<1>11. ASSUME ~ v.cut, t.open PROVE Trails(t, t.wire, brk, link = "up" /\ ~ stale)
    <2> DEFINE up == link = "up" /\ ~ stale
    <2>1. Trails(svc, svc.wire, brk, up)
        BY <1>3, <1>4, <1>5, <1>11 DEF Candid
    <2> HIDE DEF up
    <2>2. Trails(t, svc.wire, brk, up)
        BY <1>3, <2>1, TrailsLike
    <2> QED
        BY <1>3, <2>2 DEF up
<1>12. Candid(t, t.wire, b2c, brk, v, link = "up" /\ ~ stale)
    BY <1>3, <1>4, <1>5, <1>9, <1>10, <1>11 DEF Candid, TakenOnce, OnceAtMost
<1>13. /\ stale /\ t.open => Late(t, b2c)
       /\ link # "up" => b2c = <<>>
    BY <1>3 DEF Truth, TruthOf, Late
<1> QED
    BY <1>1, <1>12, <1>13 DEF NextTruth, TruthOf, t, v

\* The broker forgets the session, and with it what it has not released.
LEMMA LoseSessionTruth ==
    ASSUME DeliveryInv, Truth, LoseSession
    PROVE  NextTruth
<1> DEFINE K == Known(svc, brk, budget)
           v == budget'
           d == brk'
           L == Known(svc, d, v)
           w == svc.wire
           up == link = "up" /\ ~ stale
           out == [m \in Incoming |-> IF brk.out[m] \in {"sent", "released"} THEN "lost" ELSE brk.out[m]]
<1>1. /\ link = "down" /\ v = [budget EXCEPT !.losses = @ + 1]
      /\ d = [brk EXCEPT !.session = FALSE, !.open = {}, !.out = out]
      /\ svc' = svc /\ link' = link /\ stale' = stale /\ b2c' = b2c
    BY DEF LoseSession
<1>2. svc \in Clients /\ Kinded
    BY DEF DeliveryInv, Accounted, Sound, Sane, Kinded
<1>3. Candid(svc, w, b2c, brk, budget, up) /\ b2c = <<>> /\ (stale /\ svc.open => Late(svc, b2c))
    BY <1>1 DEF Truth, TruthOf
<1>4. /\ v \in Budgets /\ v.losses # 0 /\ v.cut = budget.cut /\ v.abandons = budget.abandons
    BY <1>1, <1>3 DEF Candid, Budgets
<1>5. out \in [Incoming -> {"new", "sent", "released", "done", "lost"}]
    BY <1>3 DEF Candid, Brokers
<1>6. \A m \in Incoming : out[m] = "done" => brk.out[m] = "done"
    OBVIOUS
<1> HIDE DEF out
<1>7. d \in Brokers /\ d.open = {} /\ d.taken = brk.taken /\ d.out = out
    BY <1>1, <1>3, <1>5 DEF Candid, Brokers
<1> HIDE DEF v, d, up, w
<1>8. Apt(K)
    BY <1>2, KnownIsApt
<1>9. Weaker(K, L) /\ L.held = {}
    <2>1. L.spent = K.spent /\ L.sure = K.sure
        BY <1>4, <1>7 DEF Known, Has
    <2>2. L.late = {} /\ L.held = {}
        BY <1>4, <1>7 DEF Known
    <2> HIDE DEF K, L
    <2> QED
        BY <2>1, <2>2 DEF Weaker
<1>10. Good(svc, K) /\ (budget.abandons = 0 /\ svc.open => Fares(svc, w, b2c, brk, K))
    BY <1>3 DEF Candid
<1> HIDE DEF K
<1>11. Good(svc, L)
    <2> HIDE DEF L
    <2> QED
        BY <1>9, <1>10, GoodWeaker
<1>12. ASSUME v.abandons = 0, svc.open PROVE Fares(svc, w, b2c, d, L)
    <2> HIDE DEF L
    <2>1. Fares(svc, w, b2c, brk, K)
        BY <1>4, <1>10, <1>12
    <2>2. \A x : Proper(x, K) => Proper(x, L)
        BY <1>9, ProperWeaker
    <2>3. \A p : Apposite(svc, p, K) => Apposite(svc, p, L)
        BY <1>9 DEF Weaker, Apposite
    <2> QED
        BY <1>7, <1>9, <2>1, <2>2, <2>3 DEF Fares
<1>13. ASSUME ~ v.cut, svc.open PROVE Trails(svc, w, d, up)
    BY <1>3, <1>4, <1>6, <1>7, <1>13 DEF Candid, Trails
<1>14. Candid(svc, w, b2c, d, v, up)
    BY <1>3, <1>4, <1>7, <1>11, <1>12, <1>13 DEF Candid, TakenOnce, OnceAtMost
<1> QED
    BY <1>1, <1>3, <1>14 DEF NextTruth, TruthOf, v, d, w, up

\* A message of the broker is of no request.
LEMMA BrokerSendsTruth ==
    ASSUME DeliveryInv, Truth, NEW m \in Incoming, BrokerSends(m)
    PROVE  NextTruth
<1> DEFINE K == Known(svc, brk, budget)
           d == brk'
           L == Known(svc, d, budget)
           w == svc.wire
           up == link = "up" /\ ~ stale
           x == [op |-> m, code |-> "PUBLISH", pid |-> 1, result |-> "ok"]
           sent == IF level[m] = "qos0" THEN "done" ELSE "sent"
<1>1. /\ link = "up" /\ budget' = budget /\ b2c' = Append(b2c, x)
      /\ d = [brk EXCEPT !.out[m] = sent]
      /\ svc' = svc /\ link' = link /\ stale' = stale
    BY DEF BrokerSends
<1>2. svc \in Clients /\ Kinded /\ b2c \in Seq(Arriving)
    BY DEF DeliveryInv, Accounted, Sound, Sane, Kinded
<1>3. Candid(svc, w, b2c, brk, budget, up) /\ (stale /\ svc.open => Late(svc, b2c))
    BY <1>1 DEF Truth, TruthOf
<1>4. sent \in {"done", "sent"} /\ (sent = "done" => level[m] = "qos0")
    OBVIOUS
<1> HIDE DEF sent
<1>5. /\ d \in Brokers /\ d.open = brk.open /\ d.taken = brk.taken
      /\ \A n \in Incoming : d.out[n] = "done" /\ level[n] # "qos0" => brk.out[n] = "done"
    BY <1>1, <1>3, <1>4 DEF Candid, Brokers
<1> HIDE DEF d, up, w
<1>6. L = K
    BY <1>5 DEF Known, Has
<1>7. x \in Arriving /\ x.op = m /\ x.code = "PUBLISH" /\ m \notin Requests
    BY DeliveryAssumption DEF Arriving, Anyone
<1> HIDE DEF x
<1>8. \A r \in Requests : Count(Append(b2c, x), r) = Count(b2c, r) /\ Count(b2c, r) \in Nat
    <2>1. ASSUME NEW r \in Requests
          PROVE  Count(Append(b2c, x), r) = Count(b2c, r) /\ Count(b2c, r) \in Nat
        <3>1. Count(Append(b2c, x), r) = Count(b2c, r) + IF x.op = r THEN 1 ELSE 0
            BY <1>2, <1>7, CountAppend
        <3>2. Count(b2c, r) \in Nat
            BY <1>2, MineIsFinite
        <3>3. x.op # r
            BY <1>7
        <3> QED
            BY <3>1, <3>2, <3>3
    <2> QED
        BY <2>1
<1>9. \A i \in DOMAIN Append(b2c, x) : Append(b2c, x)[i] = x \/
          (i \in DOMAIN b2c /\ Append(b2c, x)[i] = b2c[i])
    <2>1. /\ DOMAIN Append(b2c, x) = 1 .. Len(b2c) + 1 /\ DOMAIN b2c = 1 .. Len(b2c)
          /\ Len(b2c) \in Nat
          /\ \A j \in 1 .. Len(b2c) : Append(b2c, x)[j] = b2c[j]
          /\ Append(b2c, x)[Len(b2c) + 1] = x
        BY <1>2, <1>7, AppendProperties, LenProperties
    <2> QED
        BY <2>1
<1>10. ASSUME budget.abandons = 0, svc.open PROVE Fares(svc, w, Append(b2c, x), d, L)
    <2>1. Fares(svc, w, b2c, brk, K)
        BY <1>3, <1>10 DEF Candid
    <2> HIDE DEF K, L
    <2>2. \A r \in Requests : Flying(svc, w, Append(b2c, x), r) = Flying(svc, w, b2c, r)
        BY <1>8 DEF Flying
    <2>3. Foreign(x) /\ Apposite(svc, x, K)
        BY <1>7 DEF Foreign, Apposite
    <2>4. \A i \in DOMAIN Append(b2c, x) :
              Foreign(Append(b2c, x)[i]) /\ Apposite(svc, Append(b2c, x)[i], K)
        BY <1>9, <2>1, <2>3 DEF Fares
    <2>5. Has(d) = Has(brk)
        BY <1>5 DEF Has
    <2> QED
        BY <1>5, <1>6, <2>1, <2>2, <2>4, <2>5 DEF Fares
<1>11. ASSUME ~ budget.cut, svc.open PROVE Trails(svc, w, d, up)
    BY <1>3, <1>5, <1>11 DEF Candid, Trails
<1>12. Good(svc, L)
    BY <1>3, <1>6 DEF Candid
<1>13. Candid(svc, w, Append(b2c, x), d, budget, up)
    BY <1>3, <1>5, <1>10, <1>11, <1>12 DEF Candid, TakenOnce, OnceAtMost
<1>14. stale /\ svc.open => Late(svc, Append(b2c, x))
    BY <1>3, <1>7, <1>9 DEF Late
<1> QED
    BY <1>1, <1>13, <1>14 DEF NextTruth, TruthOf, d, w, up

\* A list and another one after it.
LEMMA InEither ==
    ASSUME NEW S, NEW a \in Seq(S), NEW T, NEW b \in Seq(T)
    PROVE  /\ a \o b \in Seq(S \cup T)
           /\ \A i \in DOMAIN (a \o b) : \/ i \in DOMAIN a /\ (a \o b)[i] = a[i]
                                        \/ \E j \in DOMAIN b : (a \o b)[i] = b[j]
<1>1. a \in Seq(S \cup T) /\ b \in Seq(S \cup T)
    BY WiderSeq
<1>2. /\ a \o b \in Seq(S \cup T) /\ Len(a \o b) = Len(a) + Len(b)
      /\ \A i \in 1 .. Len(a) + Len(b) :
            (a \o b)[i] = IF i <= Len(a) THEN a[i] ELSE b[i - Len(a)]
    BY <1>1, ConcatProperties
<1>3. /\ Len(a) \in Nat /\ DOMAIN a = 1 .. Len(a) /\ Len(b) \in Nat /\ DOMAIN b = 1 .. Len(b)
      /\ DOMAIN (a \o b) = 1 .. Len(a) + Len(b)
    BY <1>2, LenProperties
<1>4. ASSUME NEW i \in DOMAIN (a \o b)
      PROVE  \/ i \in DOMAIN a /\ (a \o b)[i] = a[i]
             \/ \E j \in DOMAIN b : (a \o b)[i] = b[j]
    <2>1. CASE i <= Len(a)
        BY <1>2, <1>3, <2>1
    <2>2. CASE ~ (i <= Len(a))
        <3>1. i - Len(a) \in DOMAIN b /\ (a \o b)[i] = b[i - Len(a)]
            BY <1>2, <1>3, <2>2
        <3> QED
            BY <3>1
    <2> QED
        BY <2>1, <2>2
<1> QED
    BY <1>2, <1>4

\* cancel: everybody is told that it is over, of which nothing is said.
LEMMA CancelTruth ==
    ASSUME DeliveryInv, Truth, Cancel
    PROVE  NextTruth
<1> DEFINE K == Known(svc, brk, budget)
           waiting == [i \in DOMAIN svc.handlers |-> [svc.handlers[i] EXCEPT !.result = "aborted"]]
           queued == [i \in DOMAIN svc.queue |->
                         [op |-> svc.queue[i].op, code |-> svc.queue[i].code,
                          pid |-> svc.queue[i].pid, result |-> "aborted"]]
           told == (svc.posted \o waiting) \o queued
           t == svc'
           v == budget'
           L == Known(t, brk, v)
<1>1. /\ t = [svc EXCEPT !.handlers = <<>>, !.queue = <<>>, !.wire = <<>>, !.posted = told,
                         !.open = FALSE]
      /\ v = [budget EXCEPT !.cancels = @ + 1]
      /\ link' = "closed" /\ b2c' = <<>> /\ stale' = stale /\ brk' = brk
    BY DEF Cancel
<1>2. svc \in Clients /\ Kinded /\ Sound(svc)
    BY DEF DeliveryInv, Accounted, Sound, Sane, Kinded
<1>3. /\ svc.posted \in Seq(Posts) /\ svc.handlers \in Seq(Waiters) /\ svc.queue \in Seq(WriteReqs)
    BY <1>2, ClientParts
<1>4. \A i \in DOMAIN told :
         told[i].result = "aborted" \/ (i \in DOMAIN svc.posted /\ told[i] = svc.posted[i])
    <2>1. /\ \A i \in DOMAIN svc.handlers : svc.handlers[i] \in Waiters
          /\ DOMAIN svc.handlers = 1 .. Len(svc.handlers) /\ Len(svc.handlers) \in Nat
          /\ DOMAIN svc.queue = 1 .. Len(svc.queue) /\ Len(svc.queue) \in Nat
        BY <1>3, LenProperties, ElementOfSeq
    <2>2. /\ DOMAIN waiting = 1 .. Len(svc.handlers)
          /\ \A i \in DOMAIN waiting : waiting[i].result = "aborted"
        BY <2>1 DEF Waiters
    <2>3. /\ DOMAIN queued = 1 .. Len(svc.queue)
          /\ \A i \in DOMAIN queued : queued[i].result = "aborted"
        BY <2>1
    <2>4. /\ waiting \in Seq(Range(waiting)) /\ Len(waiting) = Len(svc.handlers)
          /\ queued \in Seq(Range(queued)) /\ Len(queued) = Len(svc.queue)
        <3>1. waiting = [i \in 1 .. Len(svc.handlers) |-> waiting[i]]
              /\ queued = [i \in 1 .. Len(svc.queue) |-> queued[i]]
            BY <2>1
        <3> HIDE DEF waiting, queued
        <3>2. \A i \in 1 .. Len(svc.handlers) : waiting[i] \in Range(waiting)
            BY <2>2 DEF Range
        <3>3. \A i \in 1 .. Len(svc.queue) : queued[i] \in Range(queued)
            BY <2>3 DEF Range
        <3>4. waiting \in Seq(Range(waiting)) /\ Len(waiting) = Len(svc.handlers)
            BY <2>1, <3>1, <3>2
        <3>5. queued \in Seq(Range(queued)) /\ Len(queued) = Len(svc.queue)
            BY <2>1, <3>1, <3>3
        <3> QED
            BY <3>4, <3>5
    <2> HIDE DEF waiting, queued
    <2> DEFINE first == svc.posted \o waiting
    <2>5. /\ first \in Seq(Posts \cup Range(waiting))
          /\ \A i \in DOMAIN first : \/ i \in DOMAIN svc.posted /\ first[i] = svc.posted[i]
                                     \/ \E j \in DOMAIN waiting : first[i] = waiting[j]
        BY <1>3, <2>4, InEither
    <2>6. told = first \o queued
        OBVIOUS
    <2> HIDE DEF told, first
    <2>7. \A i \in DOMAIN told : \/ i \in DOMAIN first /\ told[i] = first[i]
                                 \/ \E j \in DOMAIN queued : told[i] = queued[j]
        BY <2>4, <2>5, <2>6, InEither
    <2> QED
        BY <2>2, <2>3, <2>5, <2>7
<1> HIDE DEF told
<1>5. /\ t.handlers = <<>> /\ t.queue = <<>> /\ t.wire = <<>> /\ t.posted = told /\ t.open = FALSE
      /\ t.status = svc.status /\ t.pid = svc.pid /\ t.batch = svc.batch
    BY <1>1, <1>2 DEF Clients
<1>6. Candid(svc, svc.wire, b2c, brk, budget, link = "up" /\ ~ stale) /\ Good(svc, K)
    BY DEF Truth, TruthOf, Candid
<1>7. v \in Budgets /\ v.abandons = budget.abandons /\ v.cut = budget.cut /\ v.losses = budget.losses
    BY <1>1, <1>6 DEF Candid, Budgets
<1>8. told \in Seq(Posts)
    <2>1. svc'.posted \in Seq(Posts)
        BY <1>2, CancelSound, ClientParts DEF Sound, Sane
    <2> QED
        BY <1>5, <2>1
<1> HIDE DEF t, v
<1>9. Apt(K)
    BY <1>2, KnownIsApt
<1>10. Weaker(K, L) /\ L.held = {} /\ L.late = {} /\ L.spent = {}
    <2>1. L.sure = K.sure
        BY <1>7 DEF Known
    <2>2. L.late = {} /\ L.held = {} /\ L.spent = {}
        BY <1>5 DEF Known
    <2> HIDE DEF K, L
    <2> QED
        BY <2>1, <2>2 DEF Weaker
<1> HIDE DEF K
<1>11. Good(t, L)
    <2> HIDE DEF L
    <2>1. Good(svc, L)
        BY <1>6, <1>10, GoodWeaker
    <2>2. told \in Seq(Tellable(L))
        <3>1. ASSUME NEW i \in DOMAIN told PROVE told[i] \in Tellable(L)
            <4>1. told[i] \in Posts
                BY <1>8, <3>1, LenProperties, ElementOfSeq
            <4>2. CASE told[i].result = "aborted"
                BY <4>1, <4>2 DEF Tellable, Truthful
            <4>3. CASE i \in DOMAIN svc.posted /\ told[i] = svc.posted[i]
                <5>1. svc.posted \in Seq(Tellable(L))
                    BY <2>1 DEF Good
                <5> QED
                    BY <4>3, <5>1, LenProperties, ElementOfSeq
            <4> QED
                BY <1>4, <4>2, <4>3
        <3> QED
            BY <1>8, <3>1, MembersOf
    <2>3. <<>> \in Seq(Unsent(L)) /\ <<>> \in Seq(Hopeful(L))
        BY EmptySeq
    <2> QED
        BY <1>5, <1>10, <2>1, <2>2, <2>3 DEF Good
<1>12. <<>> \in Seq(Wires) /\ DOMAIN <<>> = {}
    BY EmptySeq
<1>13. Tailed(t, <<>>)
    BY <1>12 DEF Tailed
<1>14. \A up : Candid(t, <<>>, <<>>, brk, v, up)
    BY <1>5, <1>6, <1>7, <1>11, <1>12, <1>13 DEF Candid, TakenOnce, OnceAtMost
<1> QED
    BY <1>1, <1>5, <1>14 DEF NextTruth, TruthOf, t, v

-----------------------------------------------------------------------------
(* The packets that the broker takes, and the connections that are lost and made *)

\* Whether the broker takes a request, or the message of it, with a packet.
Takes(b, p) ==
    /\ p.op \in Requests /\ p.code = BeginsWith(p.op)
    /\ p.code = "PUBLISH" => p.op \notin Refused
    /\ kind[p.op] = "qos2" => p.pid \notin b.open

\* What packets are.
LEMMA WireIs ==
    ASSUME Kinded, NEW p \in Wires
    PROVE  /\ p.op \in Anyone /\ p.pid \in Nat
           /\ p.code = "PUBLISH" => p.op \in Requests /\ BeginsWith(p.op) = "PUBLISH"
                                    /\ kind[p.op] \in {"qos0", "qos1", "qos2"}
           /\ p.code \in {"SUBSCRIBE", "UNSUBSCRIBE"} =>
                 p.op \in Requests /\ BeginsWith(p.op) = p.code
                 /\ kind[p.op] \in {"subscribe", "unsubscribe"}
           /\ p.code = "PUBREL" => p.op \in Requests /\ kind[p.op] = "qos2"
                                   /\ BeginsWith(p.op) = "PUBLISH"
           /\ p.code \in {"PUBACK", "PUBREC", "PUBCOMP"} => p.op \in Incoming /\ p.op \notin Requests
           /\ p.code = "DISCONNECT" => p.op = Nobody /\ p.op \notin Requests /\ p.op \notin Incoming
           /\ p.code \in PacketCodes
BY DeliveryAssumption DEF Wires, BeginsWith, Anyone, Kinded, PacketCodes

\* What taking a packet does to the broker.
LEMMA TakingTells ==
    ASSUME Kinded, NEW b \in Brokers, NEW p \in Wires
    PROVE  /\ Taking(b, p) \in Brokers
           /\ \A r \in Requests :
                 Taking(b, p).taken[r] = b.taken[r] + IF Takes(b, p) /\ r = p.op THEN 1 ELSE 0
           /\ p.code = "PUBREL" => Taking(b, p).open = b.open \ {p.pid}
           /\ Takes(b, p) /\ kind[p.op] = "qos2" => Taking(b, p).open = b.open \cup {p.pid}
           /\ p.code # "PUBREL" /\ ~ (Takes(b, p) /\ kind[p.op] = "qos2") =>
                 Taking(b, p).open = b.open
           /\ \A m \in Incoming : Taking(b, p).out[m] = "done" =>
                 b.out[m] = "done" \/ (m = p.op /\ Ack(p))
<1> DEFINE B == Taking(b, p)
           C == [b EXCEPT !.open = @ \cup {p.pid}]
<1>1. /\ b.open \in SUBSET Nat /\ b.taken \in [Requests -> Nat] /\ b.order \in Seq(Requests)
      /\ b.out \in [Incoming -> {"new", "sent", "released", "done", "lost"}] /\ p.pid \in Nat
    BY WireIs DEF Brokers
<1>2. \A d \in Brokers : p.op \in Requests =>
         /\ Took(d, p) \in Brokers /\ Took(d, p).open = d.open /\ Took(d, p).out = d.out
         /\ \A r \in Requests : Took(d, p).taken[r] = d.taken[r] + IF r = p.op THEN 1 ELSE 0
    <2>1. SUFFICES ASSUME NEW d \in Brokers, p.op \in Requests
                   PROVE  /\ Took(d, p) \in Brokers /\ Took(d, p).open = d.open
                          /\ Took(d, p).out = d.out
                          /\ \A r \in Requests :
                                Took(d, p).taken[r] = d.taken[r] + IF r = p.op THEN 1 ELSE 0
        OBVIOUS
    <2> DEFINE order == IF d.taken[p.op] = 0 THEN Append(d.order, p.op) ELSE d.order
               taken == [d.taken EXCEPT ![p.op] = @ + 1]
    <2>2. order \in Seq(Requests)
        BY <2>1, AppendProperties DEF Brokers
    <2>3. taken \in [Requests -> Nat]
          /\ \A r \in Requests : taken[r] = d.taken[r] + IF r = p.op THEN 1 ELSE 0
        BY <2>1 DEF Brokers
    <2>4. Took(d, p) = [d EXCEPT !.taken = taken, !.order = order]
        BY <2>1 DEF Took, Brokers
    <2> HIDE DEF order, taken
    <2> QED
        BY <2>2, <2>3, <2>4 DEF Brokers
<1>3. CASE p.code = "PUBLISH" /\ kind[p.op] = "qos2"
    <2>1. /\ p.op \in Requests /\ p.code = BeginsWith(p.op) /\ ~ Ack(p)
          /\ B = IF p.op \in Refused \/ p.pid \in b.open THEN b ELSE Took(C, p)
        BY <1>3, WireIs DEF Taking, Ack
    <2>2. C \in Brokers /\ C.open = b.open \cup {p.pid} /\ C.taken = b.taken /\ C.out = b.out
        BY <1>1 DEF Brokers
    <2>3. /\ Took(C, p) \in Brokers /\ Took(C, p).open = C.open /\ Took(C, p).out = C.out
          /\ \A r \in Requests : Took(C, p).taken[r] = C.taken[r] + IF r = p.op THEN 1 ELSE 0
        BY <1>2, <2>1, <2>2
    <2> HIDE DEF B, C
    <2>4. CASE p.op \in Refused \/ p.pid \in b.open
        <3>1. ~ Takes(b, p) /\ B = b
            BY <1>3, <2>1, <2>4 DEF Takes
        <3> QED
            BY <1>1, <1>3, <3>1 DEF B
    <2>5. CASE ~ (p.op \in Refused \/ p.pid \in b.open)
        <3>1. Takes(b, p) /\ B = Took(C, p)
            BY <1>3, <2>1, <2>5 DEF Takes
        <3> QED
            BY <1>3, <2>2, <2>3, <3>1 DEF B
    <2> QED
        BY <2>4, <2>5
<1>4. CASE p.code = "PUBLISH" /\ kind[p.op] # "qos2"
    <2>1. /\ p.op \in Requests /\ p.code = BeginsWith(p.op) /\ ~ Ack(p)
          /\ B = IF p.op \in Refused THEN b ELSE Took(b, p)
        BY <1>4, WireIs DEF Taking, Ack
    <2>3. /\ Took(b, p) \in Brokers /\ Took(b, p).open = b.open /\ Took(b, p).out = b.out
          /\ \A r \in Requests : Took(b, p).taken[r] = b.taken[r] + IF r = p.op THEN 1 ELSE 0
        BY <1>2, <2>1
    <2>4. Takes(b, p) <=> p.op \notin Refused
        BY <1>4, <2>1 DEF Takes
    <2> HIDE DEF B
    <2>5. CASE p.op \in Refused
        <3>1. ~ Takes(b, p) /\ B = b
            BY <2>1, <2>4, <2>5
        <3> QED
            BY <1>1, <1>4, <3>1 DEF B
    <2>6. CASE p.op \notin Refused
        <3>1. Takes(b, p) /\ B = Took(b, p)
            BY <2>1, <2>4, <2>6
        <3> QED
            BY <1>4, <2>3, <3>1 DEF B
    <2> QED
        BY <2>5, <2>6
<1>5. CASE p.code \in {"SUBSCRIBE", "UNSUBSCRIBE"}
    <2>1. /\ p.op \in Requests /\ p.code = BeginsWith(p.op) /\ ~ Ack(p) /\ B = Took(b, p)
          /\ kind[p.op] # "qos2"
        BY <1>5, WireIs DEF Taking, Ack
    <2>3. /\ Took(b, p) \in Brokers /\ Took(b, p).open = b.open /\ Took(b, p).out = b.out
          /\ \A r \in Requests : Took(b, p).taken[r] = b.taken[r] + IF r = p.op THEN 1 ELSE 0
        BY <1>2, <2>1
    <2>4. Takes(b, p)
        BY <1>5, <2>1 DEF Takes
    <2> HIDE DEF B
    <2> QED
        BY <1>5, <2>1, <2>3, <2>4 DEF B
<1>6. ASSUME p.code \notin {"PUBLISH", "SUBSCRIBE", "UNSUBSCRIBE"} PROVE ~ Takes(b, p)
    BY <1>6 DEF Takes, BeginsWith
<1>7. CASE p.code = "PUBREL"
    <2>1. B = [b EXCEPT !.open = @ \ {p.pid}] /\ ~ Takes(b, p)
        BY <1>6, <1>7 DEF Taking
    <2>2. B \in Brokers /\ B.open = b.open \ {p.pid} /\ B.taken = b.taken /\ B.out = b.out
        BY <1>1, <2>1 DEF Brokers
    <2> HIDE DEF B
    <2> QED
        BY <1>1, <1>7, <2>1, <2>2 DEF B
<1>8. CASE p.code \in {"PUBREC", "PUBACK", "PUBCOMP"}
    <2>1. p.op \in Incoming
        BY <1>8, WireIs
    <2> DEFINE out == IF p.code = "PUBREC"
                      THEN [b.out EXCEPT ![p.op] = IF @ = "sent" THEN "released" ELSE @]
                      ELSE [b.out EXCEPT ![p.op] = IF @ = "lost" THEN @ ELSE "done"]
    <2>4. out \in [Incoming -> {"new", "sent", "released", "done", "lost"}]
        BY <1>1, <2>1
    <2>5. \A m \in Incoming : out[m] = "done" => b.out[m] = "done" \/ (m = p.op /\ Ack(p))
        <3>1. CASE p.code = "PUBREC"
            BY <1>1, <2>1, <3>1
        <3>2. CASE p.code \in {"PUBACK", "PUBCOMP"}
            BY <1>1, <2>1, <3>2 DEF Ack
        <3> QED
            BY <1>8, <3>1, <3>2
    <2>6. B = [b EXCEPT !.out = out]
        BY <1>8 DEF Taking, Brokers
    <2> HIDE DEF out, B
    <2>2. /\ B \in Brokers /\ B.open = b.open /\ B.taken = b.taken
          /\ \A m \in Incoming : B.out[m] = "done" => b.out[m] = "done" \/ (m = p.op /\ Ack(p))
        BY <2>4, <2>5, <2>6 DEF Brokers
    <2>3. ~ Takes(b, p) /\ p.code # "PUBREL"
        BY <1>6, <1>8
    <2> QED
        BY <1>1, <2>2, <2>3 DEF B
<1>9. CASE p.code = "DISCONNECT"
    <2>1. B = b /\ ~ Takes(b, p)
        BY <1>6, <1>9 DEF Taking
    <2> HIDE DEF B
    <2> QED
        BY <1>1, <1>9, <2>1 DEF B
<1> QED
    BY <1>3, <1>4, <1>5, <1>7, <1>8, <1>9, WireIs DEF PacketCodes

\* What the broker answers: nothing, or a reply to who sent the packet.
LEMMA AnswersTell ==
    ASSUME Kinded, NEW p \in Wires
    PROVE  /\ Answers(p) \in Seq(Arriving)
           /\ \A r : Count(Answers(p), r) \in Nat /\ Count(Answers(p), r) <= IF p.op = r THEN 1 ELSE 0
           /\ \A i \in DOMAIN Answers(p) :
                 LET a == Answers(p)[i]
                 IN  /\ a.op = p.op /\ a.pid = p.pid /\ (a.result = "ok" <=> p.op \notin Refused)
                     /\ Foreign(a)
                     /\ p.op \in Requests =>
                          /\ kind[p.op] # "qos0"
                          /\ a.code \in {"PUBACK", "PUBREC", "PUBCOMP", "SUBACK", "UNSUBACK"}
                          /\ kind[p.op] = "qos2" /\ p.code # "PUBREL" => a.code = "PUBREC"
<1> DEFINE x(code) == [op |-> p.op, code |-> code, pid |-> p.pid,
                       result |-> IF p.op \in Refused THEN "refused" ELSE "ok"]
           Fitted(code) ==
              /\ p.op \notin Requests => p.op \in Incoming /\ code = "PUBREL"
              /\ p.op \in Requests =>
                   /\ kind[p.op] # "qos0"
                   /\ code \in {"PUBACK", "PUBREC", "PUBCOMP", "SUBACK", "UNSUBACK"}
                   /\ kind[p.op] = "qos2" /\ p.code # "PUBREL" => code = "PUBREC"
<1>1. /\ p.op \in Anyone /\ p.pid \in Nat
    BY WireIs
<1>2. \/ Answers(p) = <<>>
      \/ \E code \in ReplyCodes : Answers(p) = Answer(p, code) /\ Fitted(code)
    <2>1. CASE p.code = "PUBLISH" /\ kind[p.op] = "qos1"
        BY <2>1, WireIs DEF Answers, ReplyCodes
    <2>2. CASE p.code = "PUBLISH" /\ kind[p.op] = "qos2"
        BY <2>2, WireIs DEF Answers, ReplyCodes
    <2>3. CASE p.code = "PUBREL"
        BY <2>3, WireIs DEF Answers, ReplyCodes
    <2>4. CASE p.code = "PUBREC"
        BY <2>4, WireIs DEF Answers, ReplyCodes
    <2>5. CASE p.code = "SUBSCRIBE"
        BY <2>5, WireIs DEF Answers, ReplyCodes
    <2>6. CASE p.code = "UNSUBSCRIBE"
        BY <2>6, WireIs DEF Answers, ReplyCodes
    <2> QED
        BY <2>1, <2>2, <2>3, <2>4, <2>5, <2>6 DEF Answers
<1>3. CASE Answers(p) = <<>>
    <2>1. <<>> \in Seq(Arriving) /\ DOMAIN <<>> = {}
        BY EmptySeq
    <2>2. \A r : Count(<<>>, r) = 0
        BY CountEmpty
    <2>3. \A r : 0 <= IF p.op = r THEN 1 ELSE 0
        OBVIOUS
    <2> QED
        BY <1>3, <2>1, <2>2, <2>3
<1>4. ASSUME NEW code \in ReplyCodes, Answers(p) = Answer(p, code), Fitted(code)
      PROVE  /\ Answers(p) \in Seq(Arriving)
             /\ \A r : Count(Answers(p), r) \in Nat /\ Count(Answers(p), r) <= IF p.op = r THEN 1 ELSE 0
             /\ DOMAIN Answers(p) = {1} /\ Answers(p)[1] = x(code)
    <2> DEFINE y == x(code)
    <2>1. y \in Arriving /\ y.op = p.op
        BY <1>1 DEF Arriving, ReplyCodes
    <2>2. Answers(p) = <<y>>
        BY <1>4 DEF Answer
    <2>3. DOMAIN <<y>> = {1} /\ <<y>>[1] = y
        OBVIOUS
    <2> HIDE DEF y
    <2>4. <<y>> \in Seq(Arriving) /\ \A r : Count(<<y>>, r) = IF y.op = r THEN 1 ELSE 0
        BY <2>1, CountOne
    <2> QED
        BY <2>1, <2>2, <2>3, <2>4 DEF y
<1>5. ASSUME NEW code \in ReplyCodes, Fitted(code), NEW a, a = x(code)
      PROVE  /\ a.op = p.op /\ a.pid = p.pid /\ (a.result = "ok" <=> p.op \notin Refused)
             /\ Foreign(a)
             /\ p.op \in Requests =>
                  /\ kind[p.op] # "qos0"
                  /\ a.code \in {"PUBACK", "PUBREC", "PUBCOMP", "SUBACK", "UNSUBACK"}
                  /\ kind[p.op] = "qos2" /\ p.code # "PUBREL" => a.code = "PUBREC"
    BY <1>5 DEF Foreign
<1> HIDE DEF x, Fitted
<1>6. CASE \E code \in ReplyCodes : Answers(p) = Answer(p, code) /\ Fitted(code)
    <2>1. PICK code \in ReplyCodes : Answers(p) = Answer(p, code) /\ Fitted(code)
        BY <1>6
    <2>2. /\ Answers(p) \in Seq(Arriving)
          /\ \A r : Count(Answers(p), r) \in Nat /\ Count(Answers(p), r) <= IF p.op = r THEN 1 ELSE 0
          /\ DOMAIN Answers(p) = {1} /\ Answers(p)[1] = x(code)
        BY <1>4, <2>1
    <2>3. \A i \in DOMAIN Answers(p) : Answers(p)[i] = x(code)
        BY <2>2
    <2> QED
        BY <1>5, <2>1, <2>2, <2>3
<1> QED
    BY <1>2, <1>3, <1>6

\* The first packet on its way, and the others.
LEMMA WireHead ==
    ASSUME NEW w \in Seq(Wires), w # <<>>
    PROVE  /\ Head(w) \in Wires /\ Head(w) = w[1] /\ 1 \in DOMAIN w
           /\ Tail(w) \in Seq(Wires) /\ Len(Tail(w)) = Len(w) - 1 /\ Len(w) \in Nat
           /\ \A i \in DOMAIN Tail(w) : i \in Nat /\ i + 1 \in DOMAIN w /\ Tail(w)[i] = w[i + 1] /\ i + 1 # 1
           /\ \A r : Count(w, r) = Count(Tail(w), r) + IF Head(w).op = r THEN 1 ELSE 0
           /\ \A r : Count(w, r) \in Nat /\ Count(Tail(w), r) \in Nat
<1>1. /\ Tail(w) \in Seq(Wires) /\ Head(w) \in Wires
      /\ \A r : Count(w, r) = Count(Tail(w), r) + IF Head(w).op = r THEN 1 ELSE 0
    BY CountTail
<1>2. \A r : Count(w, r) \in Nat /\ Count(Tail(w), r) \in Nat
    BY <1>1, MineIsFinite
<1>3. /\ Head(w) = w[1] /\ 1 \in DOMAIN w /\ DOMAIN Tail(w) = 1 .. Len(w) - 1 /\ Len(w) \in Nat
      /\ Len(Tail(w)) = Len(w) - 1 /\ DOMAIN w = 1 .. Len(w)
      /\ \A i \in DOMAIN Tail(w) : Tail(w)[i] = w[i + 1]
    BY LenProperties, EmptySeq, HeadTailProperties
<1>4. \A i \in DOMAIN Tail(w) : i \in Nat /\ i + 1 \in DOMAIN w /\ i + 1 # 1
    BY <1>3
<1> QED
    BY <1>1, <1>2, <1>3, <1>4

\* Of who sent the packet nothing else is on its way; with the answer no more is than before.
LEMMA HeadFares ==
    ASSUME Kinded, NEW s, Sane(s, {}), NEW w \in Seq(Wires), w # <<>>, NEW c \in Seq(Arriving),
           NEW b, NEW K, Fares(s, w, c, b, K)
    PROVE  /\ Head(w).op \in Requests /\ kind[Head(w).op] # "qos0" =>
                /\ Carries(s, Head(w).op) /\ Sent(s, Head(w).op)
                /\ Head(w).pid = s.pid[Head(w).op] /\ Proper(Head(w), K)
                /\ \A i \in DOMAIN Tail(w) : Tail(w)[i].op # Head(w).op
                /\ \A i \in DOMAIN c : c[i].op # Head(w).op
                /\ s.writing => \A i \in DOMAIN s.fast : s.fast[i].op # Head(w).op
           /\ \A r \in Requests : kind[r] # "qos0" =>
                /\ Flying(s, Tail(w), c \o Answers(Head(w)), r) <= 1
                /\ Flying(s, Tail(w), c \o Answers(Head(w)), r) # 0 => Carries(s, r)
<1> DEFINE p == Head(w)
           v == Tail(w)
           a == Answers(p)
           fl(r) == IF s.writing THEN Count(s.fast, r) ELSE 0
<1>1. /\ p \in Wires /\ p = w[1] /\ 1 \in DOMAIN w /\ v \in Seq(Wires)
      /\ \A r : Count(w, r) = Count(v, r) + IF p.op = r THEN 1 ELSE 0
      /\ \A r : Count(w, r) \in Nat /\ Count(v, r) \in Nat
    BY WireHead
<1> HIDE DEF p, v
<1>2. a \in Seq(Arriving)
      /\ \A r : Count(a, r) \in Nat /\ Count(a, r) <= IF p.op = r THEN 1 ELSE 0
    BY <1>1, AnswersTell
<1> HIDE DEF a
<1>3. /\ s \in Clients /\ s.fast \in Seq(Replies)
    BY ClientParts DEF Sane
<1>4. \A r : /\ Count(c \o a, r) = Count(c, r) + Count(a, r) /\ Count(c, r) \in Nat
             /\ Count(s.fast, r) \in Nat /\ fl(r) \in Nat
    BY <1>2, <1>3, CountConcat, MineIsFinite
<1>5. ASSUME NEW r
      PROVE  /\ Flying(s, w, c, r) = Count(w, r) + Count(c, r) + fl(r)
             /\ Flying(s, v, c \o a, r) = Count(v, r) + Count(c \o a, r) + fl(r)
    BY DEF Flying
<1> HIDE DEF fl
<1>6. ASSUME NEW r
      PROVE  /\ Flying(s, w, c, r) \in Nat /\ Flying(s, v, c \o a, r) \in Nat
             /\ Flying(s, v, c \o a, r) <= Flying(s, w, c, r)
    <2> DEFINE x == Count(w, r)
               y == Count(v, r)
               z == Count(c, r)
               q == Count(a, r)
               o == IF p.op = r THEN 1 ELSE 0
    <2>1. x \in Nat /\ y \in Nat /\ z \in Nat /\ q \in Nat /\ fl(r) \in Nat /\ x = y + o /\ q <= o
          /\ o \in Nat
        BY <1>1, <1>2, <1>4
    <2>2. Flying(s, w, c, r) = x + z + fl(r) /\ Flying(s, v, c \o a, r) = y + (z + q) + fl(r)
        BY <1>4, <1>5
    <2> HIDE DEF x, y, z, q, o
    <2> QED
        BY <2>1, <2>2
<1>7. ASSUME NEW r \in Requests, kind[r] # "qos0"
      PROVE  /\ Flying(s, v, c \o a, r) <= 1
             /\ Flying(s, v, c \o a, r) # 0 => Carries(s, r)
    <2> DEFINE x == Flying(s, w, c, r)
               y == Flying(s, v, c \o a, r)
    <2>1. x <= 1 /\ (x # 0 => Carries(s, r))
        BY <1>7 DEF Fares
    <2>2. x \in Nat /\ y \in Nat /\ y <= x
        BY <1>6
    <2> HIDE DEF x, y
    <2>3. y <= 1 /\ (y # 0 => Carries(s, r))
        BY <2>1, <2>2
    <2> QED
        BY <2>3 DEF y
<1>8. ASSUME p.op \in Requests, kind[p.op] # "qos0"
      PROVE  /\ Carries(s, p.op) /\ Sent(s, p.op) /\ p.pid = s.pid[p.op] /\ Proper(p, K)
             /\ \A i \in DOMAIN v : v[i].op # p.op
             /\ \A i \in DOMAIN c : c[i].op # p.op
             /\ s.writing => \A i \in DOMAIN s.fast : s.fast[i].op # p.op
    <2> DEFINE r == p.op
               x == Count(w, r)
               y == Count(v, r)
               z == Count(c, r)
               f == Count(s.fast, r)
               g == fl(r)
               h == Flying(s, w, c, r)
    <2>1. x \in Nat /\ y \in Nat /\ z \in Nat /\ f \in Nat /\ g \in Nat /\ x = y + 1 /\ h = x + z + g
        BY <1>1, <1>4, <1>5
    <2>2. h <= 1 /\ (h # 0 => Carries(s, r))
        BY <1>8 DEF Fares
    <2>3. s.writing => g = f
        BY DEF fl
    <2>4. /\ y = 0 => \A i \in DOMAIN v : v[i].op # r
          /\ z = 0 => \A i \in DOMAIN c : c[i].op # r
          /\ f = 0 => \A i \in DOMAIN s.fast : s.fast[i].op # r
        BY <1>1, <1>3, CountTells
    <2>5. p.pid = s.pid[r] /\ Proper(p, K)
        BY <1>1, <1>8 DEF Fares
    <2> HIDE DEF x, y, z, f, g, h
    <2>6. y = 0 /\ z = 0 /\ g = 0 /\ h # 0
        BY <2>1, <2>2
    <2>7. Carries(s, r)
        BY <2>2, <2>6
    <2>8. Sent(s, r)
        BY <1>8, <2>7, OnePlace
    <2> QED
        BY <2>3, <2>4, <2>5, <2>6, <2>7, <2>8
<1> QED
    BY <1>7, <1>8 DEF p, v, a

\* A first packet that was written last is the first of those.
LEMMA HeadTrails ==
    ASSUME Kinded, NEW s, Sane(s, {}), NEW w \in Seq(Wires), w # <<>>, Tailed(s, w),
           NEW b, NEW up, Trails(s, w, b, up)
    PROVE  /\ Older(s, w) \in Int /\ Older(s, Tail(w)) = Older(s, w) - 1
           /\ Once(Head(w)) =>
                /\ b.taken[Head(w).op] = 0 /\ s.status[Head(w).op] # "idle"
                /\ \A i \in DOMAIN s.queue : s.queue[i].op # Head(w).op
                /\ \A i \in DOMAIN s.batch : s.batch[i].op = Head(w).op => i + Older(s, w) = 1
                /\ \A i \in DOMAIN Tail(w) : Tail(w)[i].op # Head(w).op
           /\ Ack(Head(w)) =>
                \/ s.stored[Head(w).op] >= 1
                \/ \E i \in DOMAIN s.batch : /\ Ack(s.batch[i]) /\ s.batch[i].op = Head(w).op
                                             /\ i + Older(s, w) = 1
<1> DEFINE p == Head(w)
           n == Older(s, w)
           l == Len(s.batch)
<1>1. /\ p \in Wires /\ p = w[1] /\ 1 \in DOMAIN w /\ Len(w) \in Nat
      /\ Len(Tail(w)) = Len(w) - 1
      /\ \A i \in DOMAIN Tail(w) : i \in Nat /\ i + 1 \in DOMAIN w /\ Tail(w)[i] = w[i + 1] /\ i + 1 # 1
    BY WireHead
<1>2. s.batch \in Seq(WriteReqs) /\ l \in Nat /\ DOMAIN s.batch = 1 .. l /\ Len(w) >= 1
    <2>1. s.batch \in Seq(WriteReqs)
        BY ClientParts DEF Sane
    <2>2. DOMAIN w = 1 .. Len(w)
        BY LenProperties
    <2>3. l \in Nat /\ DOMAIN s.batch = 1 .. l
        BY <2>1, LenProperties
    <2> QED
        BY <1>1, <2>1, <2>2, <2>3
<1>3. n = Len(w) - l
    BY DEF Older
<1>4. Older(s, Tail(w)) = n - 1 /\ n \in Int
    BY <1>1, <1>2, <1>3 DEF Older
<1> HIDE DEF p, n, l
<1>5. ASSUME ~ (1 <= n)
      PROVE  1 - n \in DOMAIN s.batch /\ (1 - n) + n = 1 /\ w[1] = Packet(s.batch[1 - n])
    <2>1. 1 - n \in 1 .. l /\ (1 - n) + n = 1
        BY <1>2, <1>3, <1>5, <1>1
    <2>2. w[(1 - n) + n] = Packet(s.batch[1 - n])
        <3>1. (1 - n) + n \in DOMAIN w
            BY <1>1, <2>1
        <3> QED
            BY <1>2, <2>1, <3>1 DEF Tailed, n
    <2> QED
        BY <1>2, <2>1, <2>2
<1>6. ASSUME Once(p)
      PROVE  /\ b.taken[p.op] = 0 /\ s.status[p.op] # "idle"
             /\ \A i \in DOMAIN s.queue : s.queue[i].op # p.op
             /\ \A i \in DOMAIN s.batch : s.batch[i].op = p.op => i + n = 1
             /\ \A i \in DOMAIN Tail(w) : Tail(w)[i].op # p.op
    <2>1. /\ p.op \in Requests /\ b.taken[p.op] = 0 /\ s.status[p.op] # "idle"
          /\ \A j \in DOMAIN w : w[j].op = p.op => 1 = j
          /\ 1 <= n => ~ Sent(s, p.op)
        BY <1>1, <1>6 DEF Trails, Once, n
    <2>2. \A i \in DOMAIN Tail(w) : Tail(w)[i].op # p.op
        BY <1>1, <2>1
    <2> DEFINE r == p.op
    <2> HIDE DEF r
    <2>3. r \in Requests
        BY <2>1 DEF r
    <2>4. CASE 1 <= n
        <3>1. ~ Sent(s, r)
            BY <2>1, <2>4 DEF r
        <3>2. /\ \A i \in DOMAIN s.queue : s.queue[i].op # r
              /\ \A i \in DOMAIN s.batch : s.batch[i].op # r
            BY <2>3, <3>1, OnePlace
        <3> QED
            BY <2>1, <2>2, <3>2 DEF r
    <2>5. CASE ~ (1 <= n)
        <3>1. 1 - n \in DOMAIN s.batch /\ (1 - n) + n = 1 /\ s.batch[1 - n].op = r
            BY <1>1, <1>5, <2>5 DEF Packet, r
        <3>2. /\ \A i \in DOMAIN s.queue : s.queue[i].op # r
              /\ \A i, j \in DOMAIN s.batch : s.batch[i].op = r /\ s.batch[j].op = r => i = j
            BY <2>3, <3>1, OnePlace
        <3>3. \A i \in DOMAIN s.batch : s.batch[i].op = r => i + n = 1
            BY <3>1, <3>2
        <3> QED
            BY <2>1, <2>2, <3>2, <3>3 DEF r
    <2> QED
        BY <2>4, <2>5
<1>7. ASSUME Ack(p)
      PROVE  \/ s.stored[p.op] >= 1
             \/ \E i \in DOMAIN s.batch : Ack(s.batch[i]) /\ s.batch[i].op = p.op /\ i + n = 1
    <2>1. CASE 1 <= n
        BY <1>1, <1>7, <2>1 DEF Trails, n
    <2>2. CASE ~ (1 <= n)
        <3>1. /\ 1 - n \in DOMAIN s.batch /\ (1 - n) + n = 1
              /\ s.batch[1 - n].op = p.op /\ s.batch[1 - n].code = p.code
            BY <1>1, <1>5, <2>2 DEF Packet
        <3>2. Ack(s.batch[1 - n])
            BY <1>7, <3>1 DEF Ack
        <3> QED
            BY <3>1, <3>2
    <2> QED
        BY <2>1, <2>2
<1> QED
    BY <1>4, <1>6, <1>7 DEF p, n

\* What is known when the broker has taken a packet p.
Grown(K, L, b, p) ==
    /\ K.sure \subseteq L.sure
    /\ \A r \in L.late : r \in K.late \/ (r = p.op /\ p.code = "PUBREL")
    /\ \A r \in L.held : r \in K.held \/ (r = p.op /\ Takes(b, p) /\ kind[r] = "qos2")
    /\ \A r \in L.spent : r \in K.spent \/ (r = p.op /\ Takes(b, p) /\ kind[r] = "qos0")

\* A packet is of who sent it, and the identifiers that the broker has are of who waits.
Owned(s, b, p, u) ==
    u.abandons = 0 =>
      /\ p.op \in Requests /\ kind[p.op] # "qos0" => Sent(s, p.op) /\ p.pid = s.pid[p.op]
      /\ \A x \in b.open : \E r \in Known(s, b, u).held : s.pid[r] = x
      /\ Known(s, b, u).held \cap Refused = {} /\ Known(s, b, u).held \subseteq Has(b)

\* What is known grows by the packet, and those identifiers are of who waits, still.
Regrown(s, b, p, u) ==
    LET K == Known(s, b, u)
        L == Known(s, Taking(b, p), u)
    IN  /\ Grown(K, L, b, p)
        /\ u.abandons = 0 =>
             /\ p.op \in Requests /\ Takes(b, p) => p.op \in L.sure
             /\ p.code = "PUBREL" => p.op \notin L.held
             /\ \A x \in Taking(b, p).open : \E r \in L.held : s.pid[r] = x
             /\ L.held \cap Refused = {} /\ L.held \subseteq Has(Taking(b, p))
             /\ p.op \in Requests /\ kind[p.op] = "qos2" /\ p.pid \in b.open => p.op \in K.held

\* So it is when the broker has taken it.
LEMMA KnownTakes ==
    ASSUME Kinded, NEW s, Sane(s, {}), s.open = TRUE, NEW b \in Brokers, NEW p \in Wires, NEW u,
           Owned(s, b, p, u)
    PROVE  Regrown(s, b, p, u)
<1> DEFINE K == Known(s, b, u)
           B == Taking(b, p)
           L == Known(s, B, u)
           r0 == p.op
<1>11. u.abandons = 0 =>
         /\ p.op \in Requests /\ kind[p.op] # "qos0" => Sent(s, p.op) /\ p.pid = s.pid[p.op]
         /\ \A x \in b.open : \E r \in K.held : s.pid[r] = x
         /\ K.held \cap Refused = {} /\ K.held \subseteq Has(b)
    BY DEF Owned
<1>1. /\ B \in Brokers
      /\ \A r \in Requests : B.taken[r] = b.taken[r] + IF Takes(b, p) /\ r = r0 THEN 1 ELSE 0
      /\ p.code = "PUBREL" => B.open = b.open \ {p.pid}
      /\ Takes(b, p) /\ kind[r0] = "qos2" => B.open = b.open \cup {p.pid}
      /\ p.code # "PUBREL" /\ ~ (Takes(b, p) /\ kind[r0] = "qos2") => B.open = b.open
    BY TakingTells
<1> HIDE DEF B
<1>2. /\ p.code = "PUBREL" => r0 \in Requests /\ kind[r0] = "qos2" /\ ~ Takes(b, p)
      /\ Takes(b, p) => r0 \in Requests
    BY WireIs DEF Takes
<1>3. Has(b) \subseteq Has(B) /\ \A r \in Has(B) : r \in Has(b) \/ (r = r0 /\ Takes(b, p))
    <2>1. b.taken \in [Requests -> Nat]
        BY DEF Brokers
    <2> QED
        BY <1>1, <2>1 DEF Has
<1>4. Takes(b, p) => r0 \in Has(B)
    <2>1. b.taken \in [Requests -> Nat]
        BY DEF Brokers
    <2> QED
        BY <1>1, <1>2, <2>1 DEF Has
<1>5. ASSUME u.abandons = 0, NEW r \in Requests, kind[r] = "qos2", r0 \in Requests,
             kind[r0] = "qos2", Sent(s, r) \/ p.pid = s.pid[r]
      PROVE  p.pid = s.pid[r] <=> r = r0
    <2>1. Numbered(s, r0) /\ p.pid = s.pid[r0]
        BY <1>5, <1>11 DEF Numbered
    <2>2. Ids(s)
        BY DEF Sane
    <2>3. Numbered(s, r) \/ s.pid[r] = s.pid[r0]
        BY <1>5, <2>1 DEF Numbered
    <2>4. s.pid[r0] \in 1 .. PacketIdsMax
        BY <1>5, <2>1, <2>2 DEF Ids
    <2>5. s.pid[r] = s.pid[r0] => Numbered(s, r)
        BY <1>5, <2>2, <2>4 DEF Ids
    <2> QED
        BY <1>5, <2>1, <2>2, <2>3, <2>5 DEF Ids
<1>6. K.sure \subseteq L.sure
    BY <1>3 DEF Known
<1>7. \A r \in L.late : r \in K.late \/ (r = r0 /\ p.code = "PUBREL")
    <2>1. SUFFICES ASSUME NEW r \in L.late, r \notin K.late PROVE r = r0 /\ p.code = "PUBREL"
        OBVIOUS
    <2>2. /\ u.abandons = 0 /\ u.losses = 0 /\ r \in Has(B) /\ kind[r] = "qos2" /\ r \in Requests
          /\ s.pid[r] \notin B.open
        BY <2>1 DEF Known, Has
    <2>3. ~ (r \in Has(b) /\ s.pid[r] \notin b.open)
        BY <2>1, <2>2 DEF Known
    <2>4. CASE r \notin Has(b)
        <3>1. r = r0 /\ Takes(b, p)
            BY <1>3, <2>2, <2>4
        <3>2. B.open = b.open \cup {p.pid} /\ p.pid = s.pid[r]
            BY <1>1, <1>11, <2>2, <3>1
        <3> QED
            BY <2>2, <3>2
    <2>5. CASE s.pid[r] \in b.open
        <3>1. p.code = "PUBREL" /\ s.pid[r] = p.pid
            BY <1>1, <2>2, <2>5
        <3> QED
            BY <1>2, <1>5, <2>2, <3>1
    <2> QED
        BY <2>3, <2>4, <2>5
<1>8. \A r \in L.held : r \in K.held \/ (r = r0 /\ Takes(b, p) /\ kind[r] = "qos2")
    <2>1. SUFFICES ASSUME NEW r \in L.held, r \notin K.held
                   PROVE  r = r0 /\ Takes(b, p) /\ kind[r] = "qos2"
        OBVIOUS
    <2>2. u.abandons = 0 /\ kind[r] = "qos2" /\ r \in Requests /\ Sent(s, r) /\ s.pid[r] \in B.open
        BY <2>1 DEF Known
    <2>3. s.pid[r] \notin b.open
        BY <2>1, <2>2 DEF Known
    <2>4. Takes(b, p) /\ kind[r0] = "qos2" /\ s.pid[r] = p.pid
        BY <1>1, <2>2, <2>3
    <2> QED
        BY <1>2, <1>5, <2>2, <2>4
<1>9. \A r \in L.spent : r \in K.spent \/ (r = r0 /\ Takes(b, p) /\ kind[r] = "qos0")
    <2>1. SUFFICES ASSUME NEW r \in L.spent, r \notin K.spent
                   PROVE  r = r0 /\ Takes(b, p) /\ kind[r] = "qos0"
        OBVIOUS
    <2>2. ~ u.cut /\ r \in Has(B) /\ kind[r] = "qos0"
        BY <2>1 DEF Known
    <2>3. r \notin Has(b)
        BY <2>1, <2>2 DEF Known
    <2> QED
        BY <1>3, <2>2, <2>3
<1>10. ASSUME u.abandons = 0
       PROVE  /\ r0 \in Requests /\ Takes(b, p) => r0 \in L.sure
              /\ p.code = "PUBREL" => r0 \notin L.held
              /\ \A x \in B.open : \E r \in L.held : s.pid[r] = x
              /\ L.held \cap Refused = {} /\ L.held \subseteq Has(B)
              /\ r0 \in Requests /\ kind[r0] = "qos2" /\ p.pid \in b.open => r0 \in K.held
    <2>1. r0 \in Requests /\ Takes(b, p) => r0 \in L.sure
        BY <1>4, <1>10, <1>11 DEF Known
    <2>2. p.code = "PUBREL" => r0 \notin L.held
        <3>1. SUFFICES ASSUME p.code = "PUBREL", r0 \in L.held PROVE FALSE
            OBVIOUS
        <3>2. s.pid[r0] \in B.open /\ B.open = b.open \ {p.pid} /\ s.pid[r0] = p.pid
            BY <1>1, <1>2, <1>10, <1>11, <3>1 DEF Known
        <3> QED
            BY <3>2
    <2>3. ASSUME NEW x \in B.open PROVE \E r \in L.held : s.pid[r] = x
        <3>1. CASE x \in b.open
            <4>1. PICK r \in K.held : s.pid[r] = x
                BY <1>10, <1>11, <3>1
            <4>2. r \in Requests /\ kind[r] = "qos2" /\ Sent(s, r)
                BY <4>1 DEF Known
            <4>3. r \in L.held
                BY <1>10, <1>11, <2>3, <4>1, <4>2 DEF Known
            <4> QED
                BY <4>1, <4>3
        <3>2. CASE x \notin b.open
            <4>1. Takes(b, p) /\ kind[r0] = "qos2" /\ x = p.pid
                BY <1>1, <2>3, <3>2
            <4>2. r0 \in Requests /\ Sent(s, r0) /\ s.pid[r0] = x
                BY <1>2, <1>10, <1>11, <4>1
            <4>3. r0 \in L.held
                BY <1>10, <1>11, <2>3, <4>1, <4>2 DEF Known
            <4> QED
                BY <4>2, <4>3
        <3> QED
            BY <3>1, <3>2
    <2>4. ASSUME NEW r \in L.held PROVE r \notin Refused /\ r \in Has(B)
        <3>1. CASE r \in K.held
            BY <1>3, <1>10, <1>11, <3>1
        <3>2. CASE r = r0 /\ Takes(b, p) /\ kind[r] = "qos2"
            <4>1. p.code = "PUBLISH"
                BY <3>2 DEF Takes, BeginsWith
            <4>2. r0 \notin Refused
                BY <3>2, <4>1 DEF Takes
            <4> QED
                BY <1>4, <3>2, <4>2
        <3> QED
            BY <1>8, <3>1, <3>2
    <2>5. r0 \in Requests /\ kind[r0] = "qos2" /\ p.pid \in b.open => r0 \in K.held
        BY <1>10, <1>11 DEF Known
    <2> HIDE DEF L, K, r0
    <2> QED
        BY <2>1, <2>2, <2>3, <2>4, <2>5
<1> QED
    BY <1>6, <1>7, <1>8, <1>9, <1>10 DEF Grown, Regrown, B

\* What is proper remains so, but for a first half of what was released.
LEMMA GrownProper ==
    ASSUME NEW K, NEW L, NEW b, NEW p, Grown(K, L, b, p), NEW x, Proper(x, K),
           p.code = "PUBREL" /\ x.op = p.op => Second(x)
    PROVE  Proper(x, L)
BY DEF Grown, Proper

\* So the client is as good as before.
LEMMA GoodTakes ==
    ASSUME NEW s, NEW K, NEW L, NEW b, NEW p, Good(s, K), Grown(K, L, b, p),
           p.code = "PUBREL" /\ p.op \in L.late =>
             /\ Sent(s, p.op)
             /\ \A i \in DOMAIN s.queue : s.queue[i].op # p.op
             /\ \A i \in DOMAIN s.batch : s.batch[i].op = p.op => s.batch[i].code = "PUBREL"
             /\ \A i \in DOMAIN s.handlers : s.handlers[i].op = p.op => s.handlers[i].code = "PUBCOMP",
           Takes(b, p) /\ kind[p.op] = "qos2" /\ p.op \in L.held =>
             /\ Sent(s, p.op) /\ s.open /\ s.abandoned = {}
             /\ \A i \in DOMAIN s.posted : s.posted[i].op # p.op,
           Takes(b, p) /\ kind[p.op] = "qos0" /\ p.op \in L.spent =>
             /\ s.status[p.op] # "idle"
             /\ \A i \in DOMAIN s.queue : s.queue[i].op # p.op
    PROVE  Good(s, L)
<1>1. /\ s.queue \in Seq(Unsent(K)) /\ s.batch \in Seq(Writable(K))
      /\ s.handlers \in Seq(Hopeful(K)) /\ s.posted \in Seq(Tellable(K))
    BY DEF Good
<1>2. ASSUME NEW x, Proper(x, K), p.code = "PUBREL" /\ p.op \in L.late /\ x.op = p.op => Second(x)
      PROVE  Proper(x, L)
    BY <1>2 DEF Grown, Proper
<1>3. s.queue \in Seq(Unsent(L))
    <2>1. ASSUME NEW i \in DOMAIN s.queue PROVE s.queue[i] \in Unsent(L)
        <3> DEFINE x == s.queue[i]
        <3>1. x \in Unsent(K)
            BY <1>1, ElementOfSeq, LenProperties
        <3>2. Proper(x, L)
            BY <1>2, <2>1, <3>1 DEF Unsent
        <3>3. x.op \notin L.spent
            BY <2>1, <3>1 DEF Unsent, Grown
        <3> QED
            BY <3>1, <3>2, <3>3 DEF Unsent
    <2> QED
        BY <1>1, <2>1, MembersOf
<1>4. s.batch \in Seq(Writable(L))
    <2>1. ASSUME NEW i \in DOMAIN s.batch PROVE s.batch[i] \in Writable(L)
        <3> DEFINE x == s.batch[i]
        <3>1. x \in Writable(K)
            BY <1>1, ElementOfSeq, LenProperties
        <3>2. Proper(x, L)
            BY <1>2, <2>1, <3>1 DEF Writable, Second
        <3> QED
            BY <3>1, <3>2 DEF Writable
    <2> QED
        BY <1>1, <2>1, MembersOf
<1>5. s.handlers \in Seq(Hopeful(L))
    <2>1. ASSUME NEW i \in DOMAIN s.handlers PROVE s.handlers[i] \in Hopeful(L)
        <3> DEFINE x == s.handlers[i]
        <3>1. x \in Hopeful(K)
            BY <1>1, ElementOfSeq, LenProperties
        <3>2. Proper(x, L)
            BY <1>2, <2>1, <3>1 DEF Hopeful, Second
        <3> QED
            BY <3>1, <3>2 DEF Hopeful
    <2> QED
        BY <1>1, <2>1, MembersOf
<1>6. s.posted \in Seq(Tellable(L))
    <2>1. ASSUME NEW i \in DOMAIN s.posted PROVE s.posted[i] \in Tellable(L)
        <3> DEFINE x == s.posted[i]
        <3>1. x \in Tellable(K)
            BY <1>1, ElementOfSeq, LenProperties
        <3>2. Truthful(x, L)
            BY <2>1, <3>1 DEF Tellable, Truthful, Grown
        <3> QED
            BY <3>1, <3>2 DEF Tellable
    <2> QED
        BY <1>1, <2>1, MembersOf
<1>7. \A r \in Requests : s.status[r] = "done" /\ kind[r] # "qos0" => r \in L.sure
    BY DEF Good, Grown
<1>8. \A r \in L.late \cup L.held \cup L.spent : s.status[r] # "idle"
    <2>1. SUFFICES ASSUME NEW r \in L.late \cup L.held \cup L.spent PROVE s.status[r] # "idle"
        OBVIOUS
    <2>2. CASE r \in K.late \cup K.held \cup K.spent
        BY <2>2 DEF Good
    <2>3. CASE r \notin K.late \cup K.held \cup K.spent
        <3>1. \/ r \in L.late /\ r = p.op /\ p.code = "PUBREL"
              \/ r \in L.held /\ r = p.op /\ Takes(b, p) /\ kind[r] = "qos2"
              \/ r \in L.spent /\ r = p.op /\ Takes(b, p) /\ kind[r] = "qos0"
            BY <2>1, <2>3 DEF Grown
        <3> QED
            BY <3>1 DEF Sent
    <2> QED
        BY <2>2, <2>3
<1>9. (\A r \in L.held : Sent(s, r)) /\ (L.held # {} => s.open /\ s.abandoned = {})
    BY DEF Good, Grown
<1> QED
    BY <1>3, <1>4, <1>5, <1>6, <1>7, <1>8, <1>9 DEF Good

\* What is on its way is for who is at it, still.
LEMMA FaresTakes ==
    ASSUME Kinded, NEW s, Sane(s, {}), s.open = TRUE, NEW w \in Seq(Wires), w # <<>>,
           NEW c \in Seq(Arriving), NEW b \in Brokers, NEW u, u.abandons = 0,
           Fares(s, w, c, b, Known(s, b, u))
    PROVE  Fares(s, Tail(w), c \o Answers(Head(w)), Taking(b, Head(w)),
                 Known(s, Taking(b, Head(w)), u))
<1> DEFINE p == Head(w)
           v == Tail(w)
           a == Answers(p)
           B == Taking(b, p)
           K == Known(s, b, u)
           L == Known(s, B, u)
<1>1. /\ p \in Wires /\ p = w[1] /\ 1 \in DOMAIN w /\ v \in Seq(Wires)
      /\ \A i \in DOMAIN v : i + 1 \in DOMAIN w /\ v[i] = w[i + 1]
    BY WireHead
<1>2. p.op \in Requests /\ kind[p.op] # "qos0" =>
        /\ Carries(s, p.op) /\ Sent(s, p.op) /\ p.pid = s.pid[p.op] /\ Proper(p, K)
        /\ \A i \in DOMAIN v : v[i].op # p.op
        /\ \A i \in DOMAIN c : c[i].op # p.op
        /\ s.writing => \A i \in DOMAIN s.fast : s.fast[i].op # p.op
    <2> HIDE DEF K
    <2>1. Fares(s, w, c, b, K)
        BY DEF K
    <2> QED
        BY <2>1, HeadFares
<1>3. \A r \in Requests : kind[r] # "qos0" =>
        /\ Flying(s, v, c \o a, r) <= 1
        /\ Flying(s, v, c \o a, r) # 0 => Carries(s, r)
    <2> HIDE DEF K
    <2>1. Fares(s, w, c, b, K)
        BY DEF K
    <2> QED
        BY <2>1, HeadFares
<1>4. /\ \A x \in b.open : \E r \in K.held : s.pid[r] = x
      /\ K.held \cap Refused = {} /\ K.held \subseteq Has(b)
    BY DEF Fares
<1>5. /\ Grown(K, L, b, p)
      /\ p.op \in Requests /\ Takes(b, p) => p.op \in L.sure
      /\ p.code = "PUBREL" => p.op \notin L.held
      /\ \A x \in B.open : \E r \in L.held : s.pid[r] = x
      /\ L.held \cap Refused = {} /\ L.held \subseteq Has(B)
      /\ p.op \in Requests /\ kind[p.op] = "qos2" /\ p.pid \in b.open => p.op \in K.held
    <2>1. p \in Wires
        BY <1>1
    <2>2. Owned(s, b, p, u)
        BY <1>2, <1>4 DEF Owned
    <2> HIDE DEF p
    <2>3. Regrown(s, b, p, u)
        BY <2>1, <2>2, KnownTakes
    <2> QED
        BY <2>3 DEF Regrown
<1> HIDE DEF K, L, B
<1>6. K.held \subseteq K.sure
    BY <1>4 DEF K, Known
<1> HIDE DEF p, v
<1>7. /\ a \in Seq(Arriving)
      /\ \A i \in DOMAIN a :
            /\ a[i].op = p.op /\ a[i].pid = p.pid /\ (a[i].result = "ok" <=> p.op \notin Refused)
            /\ Foreign(a[i])
            /\ p.op \in Requests =>
                 /\ kind[p.op] # "qos0"
                 /\ a[i].code \in {"PUBACK", "PUBREC", "PUBCOMP", "SUBACK", "UNSUBACK"}
                 /\ kind[p.op] = "qos2" /\ p.code # "PUBREL" => a[i].code = "PUBREC"
    BY <1>1, AnswersTell
<1> HIDE DEF a
<1>8. ASSUME NEW y, Foreign(y), Apposite(s, y, K),
             p.op \in Requests /\ kind[p.op] # "qos0" => y.op # p.op
      PROVE  Apposite(s, y, L)
    BY <1>5, <1>8 DEF Apposite, Grown
<1>9. ASSUME NEW i \in DOMAIN a PROVE Foreign(a[i]) /\ Apposite(s, a[i], L)
    <2>1. ASSUME p.op \in Requests, p.op \notin Refused PROVE p.op \in L.sure
        <3>1. kind[p.op] # "qos0"
            BY <1>7, <1>9, <2>1
        <3>2. Proper(p, K)
            BY <1>2, <2>1, <3>1
        <3>3. CASE p.code = "PUBREL"
            BY <1>5, <2>1, <3>2, <3>3 DEF Proper, Second, Grown
        <3>4. CASE p.code # "PUBREL"
            <4>1. p.code = BeginsWith(p.op)
                BY <1>1, <2>1, <3>4 DEF Wires
            <4>2. CASE Takes(b, p)
                BY <1>5, <2>1, <4>2
            <4>3. CASE ~ Takes(b, p)
                <5>1. kind[p.op] = "qos2" /\ p.pid \in b.open
                    BY <2>1, <4>1, <4>3 DEF Takes
                <5>2. p.op \in K.sure
                    BY <1>5, <1>6, <2>1, <5>1
                <5> QED
                    BY <1>5, <5>2 DEF Grown
            <4> QED
                BY <4>2, <4>3
        <3> QED
            BY <3>3, <3>4
    <2>2. ASSUME p.op \in Requests, p.op \in L.held
          PROVE  a[i].code = "PUBREC" /\ a[i].result = "ok"
        <3>1. p.code # "PUBREL" /\ p.op \notin Refused
            BY <1>5, <2>2
        <3>2. kind[p.op] = "qos2"
            BY <2>2 DEF L, Known
        <3> QED
            BY <1>7, <2>2, <3>1, <3>2
    <2>3. p.op \in Requests => a[i].pid = s.pid[p.op]
        BY <1>2, <1>7, <1>9
    <2> QED
        BY <1>7, <1>9, <2>1, <2>2, <2>3 DEF Apposite
<1>10. ASSUME NEW i \in DOMAIN (c \o a)
       PROVE  Foreign((c \o a)[i]) /\ Apposite(s, (c \o a)[i], L)
    <2>1. \/ i \in DOMAIN c /\ (c \o a)[i] = c[i]
          \/ \E j \in DOMAIN a : (c \o a)[i] = a[j]
        BY <1>7, InEither
    <2>2. CASE i \in DOMAIN c /\ (c \o a)[i] = c[i]
        <3>1. Foreign(c[i]) /\ Apposite(s, c[i], K)
            BY <2>2 DEF Fares, K
        <3> QED
            BY <1>2, <1>8, <2>2, <3>1
    <2> QED
        BY <1>9, <2>1, <2>2
<1>11. ASSUME s.writing, NEW i \in DOMAIN s.fast
       PROVE  Foreign(s.fast[i]) /\ Apposite(s, s.fast[i], L)
    <2>1. Foreign(s.fast[i]) /\ Apposite(s, s.fast[i], K)
        BY <1>11 DEF Fares, K
    <2> QED
        BY <1>2, <1>8, <1>11, <2>1
<1>12. ASSUME NEW i \in DOMAIN v, v[i].op \in Requests, kind[v[i].op] # "qos0"
       PROVE  v[i].pid = s.pid[v[i].op] /\ Proper(v[i], L)
    <2>1. v[i].pid = s.pid[v[i].op] /\ Proper(v[i], K)
        <3>1. i + 1 \in DOMAIN w /\ v[i] = w[i + 1]
            BY <1>1
        <3> QED
            BY <1>12, <3>1 DEF Fares, K
    <2>2. ~ (p.code = "PUBREL" /\ v[i].op = p.op)
        BY <1>1, <1>2, <1>12, WireIs
    <2> QED
        BY <1>5, <2>1, <2>2, GrownProper
<1>13. Paired(s, v)
    BY <1>1 DEF Fares, Paired
<1>14. Fares(s, v, c \o a, B, L)
    BY <1>3, <1>5, <1>10, <1>11, <1>12, <1>13 DEF Fares
<1> QED
    BY <1>14 DEF p, v, a, B, L

\* Publications of QoS 0 that it takes are taken for the first time, and acknowledgments come
\* of what is, or is about to be, told.
LEMMA TrailsTakes ==
    ASSUME Kinded, NEW s, Sane(s, {}), NEW w \in Seq(Wires), w # <<>>, Tailed(s, w),
           NEW b \in Brokers, Trails(s, w, b, TRUE)
    PROVE  Trails(s, Tail(w), Taking(b, Head(w)), TRUE)
<1> DEFINE p == Head(w)
           v == Tail(w)
           B == Taking(b, p)
           n == Older(s, w)
<1>1. /\ p \in Wires /\ v \in Seq(Wires)
      /\ \A i \in DOMAIN v : i \in Nat /\ i + 1 \in DOMAIN w /\ v[i] = w[i + 1]
    BY WireHead
<1>2. /\ n \in Int /\ Older(s, v) = n - 1
      /\ Once(p) =>
           /\ b.taken[p.op] = 0 /\ s.status[p.op] # "idle"
           /\ \A i \in DOMAIN s.queue : s.queue[i].op # p.op
           /\ \A i \in DOMAIN s.batch : s.batch[i].op = p.op => i + n = 1
           /\ \A i \in DOMAIN v : v[i].op # p.op
      /\ Ack(p) =>
           \/ s.stored[p.op] >= 1
           \/ \E i \in DOMAIN s.batch : Ack(s.batch[i]) /\ s.batch[i].op = p.op /\ i + n = 1
    BY HeadTrails
<1>3. /\ \A r \in Requests : B.taken[r] = b.taken[r] + IF Takes(b, p) /\ r = p.op THEN 1 ELSE 0
      /\ \A m \in Incoming : B.out[m] = "done" => b.out[m] = "done" \/ (m = p.op /\ Ack(p))
    BY <1>1, TakingTells
<1>4. \A r \in Requests : b.taken[r] \in Nat
    BY DEF Brokers
<1> DEFINE old == Arrived(s, w, TRUE)
           new == Arrived(s, v, TRUE)
<1>5. DOMAIN s.batch \subseteq Nat
    <2>1. s.batch \in Seq(WriteReqs)
        BY ClientParts DEF Sane
    <2>2. DOMAIN s.batch = 1 .. Len(s.batch) /\ Len(s.batch) \in Nat
        BY <2>1, LenProperties
    <2> QED
        BY <2>2
<1> HIDE DEF p, v, B
<1>6. old \subseteq new /\ \A i \in DOMAIN s.batch : i + n = 1 => i \in new
    <2>1. old = {i \in DOMAIN s.batch : i + n <= 0}
        BY DEF Arrived
    <2>2. new = {i \in DOMAIN s.batch : i + (n - 1) <= 0}
        BY <1>2 DEF Arrived
    <2> HIDE DEF old, new, n
    <2> QED
        BY <1>2, <1>5, <2>1, <2>2
<1> HIDE DEF old, new, n
<1>7. ASSUME NEW i \in DOMAIN v, Once(v[i])
      PROVE  /\ B.taken[v[i].op] = 0 /\ s.status[v[i].op] # "idle"
             /\ \A j \in DOMAIN v : v[j].op = v[i].op => i = j
             /\ i <= Older(s, v) => ~ Sent(s, v[i].op)
    <2>1. i \in Nat /\ i + 1 \in DOMAIN w /\ v[i] = w[i + 1] /\ v[i].op \in Requests
        BY <1>1, <1>7 DEF Once
    <2>2. /\ b.taken[v[i].op] = 0 /\ s.status[v[i].op] # "idle"
          /\ \A j \in DOMAIN w : w[j].op = v[i].op => i + 1 = j
          /\ i + 1 <= n => ~ Sent(s, v[i].op)
        BY <1>7, <2>1 DEF Trails, n
    <2>3. B.taken[v[i].op] = 0
        <3>1. v[i].op # p.op
            <4>1. CASE Once(p)
                BY <1>2, <1>7, <4>1
            <4>2. CASE ~ Once(p)
                BY <1>7, <4>2 DEF Once
            <4> QED
                BY <4>1, <4>2
        <3> DEFINE r == v[i].op
        <3>2. r \in Requests /\ b.taken[r] = 0 /\ ~ (Takes(b, p) /\ r = p.op)
            BY <2>1, <2>2, <3>1
        <3> HIDE DEF r
        <3>3. B.taken[r] = b.taken[r] + 0
            BY <1>3, <3>2
        <3> QED
            BY <3>2, <3>3 DEF r
    <2>4. ASSUME NEW j \in DOMAIN v, v[j].op = v[i].op PROVE i = j
        <3>1. j \in Nat /\ j + 1 \in DOMAIN w /\ v[j] = w[j + 1]
            BY <1>1, <2>4
        <3>2. i + 1 = j + 1
            BY <2>2, <2>4, <3>1
        <3> QED
            BY <2>1, <3>1, <3>2
    <2>5. i <= Older(s, v) => i + 1 <= n
        BY <1>2, <2>1
    <2> QED
        BY <2>2, <2>3, <2>4, <2>5
<1>8. ASSUME NEW i \in DOMAIN s.batch, Once(s.batch[i]), B.taken[s.batch[i].op] # 0
      PROVE  i \in new
    <2> DEFINE r == s.batch[i].op
    <2>1. r \in Requests /\ kind[r] = "qos0"
        BY <1>8 DEF Once
    <2>2. CASE b.taken[r] # 0
        <3>1. i \in old
            BY <1>8, <2>2 DEF Trails, old
        <3> QED
            BY <1>6, <3>1
    <2>3. CASE b.taken[r] = 0
        <3>1. r = p.op /\ Takes(b, p)
            BY <1>3, <1>8, <2>1, <2>3
        <3>2. Once(p)
            BY <2>1, <3>1 DEF Once
        <3>3. i + n = 1
            BY <1>2, <3>1, <3>2
        <3> QED
            BY <1>6, <3>3
    <2> QED
        BY <2>2, <2>3
<1>9. ASSUME NEW i \in DOMAIN v, Ack(v[i]), i <= Older(s, v) PROVE s.stored[v[i].op] >= 1
    <2>1. i \in Nat /\ i + 1 \in DOMAIN w /\ v[i] = w[i + 1]
        BY <1>1
    <2>2. i + 1 <= n
        BY <1>2, <1>9, <2>1
    <2> QED
        BY <1>9, <2>1, <2>2 DEF Trails, n
<1>10. ASSUME NEW m \in Incoming, B.out[m] = "done", level[m] # "qos0"
       PROVE  s.stored[m] >= 1 \/ \E i \in new : Ack(s.batch[i]) /\ s.batch[i].op = m
    <2>1. CASE b.out[m] = "done"
        <3>1. s.stored[m] >= 1 \/ \E i \in old : Ack(s.batch[i]) /\ s.batch[i].op = m
            BY <1>10, <2>1 DEF Trails, old
        <3> QED
            BY <1>6, <3>1
    <2>2. CASE m = p.op /\ Ack(p)
        BY <1>2, <1>6, <2>2
    <2> QED
        BY <1>3, <1>10, <2>1, <2>2
<1>11. Trails(s, v, B, TRUE)
    BY <1>7, <1>8, <1>9, <1>10 DEF Trails, new
<1> QED
    BY <1>11 DEF p, v, B

\* A client that is open, with something on its way, none of whose requests is cancelled.
Takable(s, w, u) == s.open = TRUE /\ w # <<>> /\ (u.abandons = 0 => s.abandoned = {})

\* A packet that the broker takes, of a client that is connected.
LEMMA TakeHead ==
    ASSUME Kinded, NEW s, Sane(s, {}), NEW w, NEW c \in Seq(Arriving), NEW b, NEW u,
           Candid(s, w, c, b, u, TRUE), Takable(s, w, u)
    PROVE  /\ Candid(s, Tail(w), c \o Answers(Head(w)), Taking(b, Head(w)), u, TRUE)
           /\ c \o Answers(Head(w)) \in Seq(Arriving)
<1> DEFINE p == Head(w)
           v == Tail(w)
           a == c \o Answers(p)
           B == Taking(b, p)
           K == Known(s, b, u)
           L == Known(s, B, u)
<1>21. s.open = TRUE /\ w # <<>> /\ (u.abandons = 0 => s.abandoned = {})
    BY DEF Takable
<1>1. /\ w \in Seq(Wires) /\ b \in Brokers /\ u \in Budgets /\ Good(s, K) /\ Tailed(s, w)
      /\ TakenOnce(b, u) /\ OnceAtMost(b, u)
      /\ u.abandons = 0 => Fares(s, w, c, b, K)
      /\ ~ u.cut => Trails(s, w, b, TRUE)
    BY <1>21 DEF Candid
<1>2. /\ p \in Wires /\ p = w[1] /\ 1 \in DOMAIN w /\ v \in Seq(Wires) /\ Len(v) = Len(w) - 1
      /\ Len(w) \in Nat
      /\ \A i \in DOMAIN v : i \in Nat /\ i + 1 \in DOMAIN w /\ v[i] = w[i + 1]
    BY <1>1, <1>21, WireHead
<1>3. a \in Seq(Arriving)
    <2>1. Answers(p) \in Seq(Arriving)
        BY <1>2, AnswersTell
    <2> QED
        BY <2>1, ConcatProperties
<1>4. /\ B \in Brokers
      /\ \A r \in Requests : B.taken[r] = b.taken[r] + IF Takes(b, p) /\ r = p.op THEN 1 ELSE 0
    BY <1>1, <1>2, TakingTells
<1>5. b.taken \in [Requests -> Nat]
    BY <1>1 DEF Brokers
<1>6. u.abandons = 0 /\ p.op \in Requests /\ kind[p.op] # "qos0" =>
        /\ Carries(s, p.op) /\ Sent(s, p.op) /\ p.pid = s.pid[p.op] /\ Proper(p, K)
    <2> SUFFICES ASSUME u.abandons = 0
                 PROVE  p.op \in Requests /\ kind[p.op] # "qos0" =>
                          Carries(s, p.op) /\ Sent(s, p.op) /\ p.pid = s.pid[p.op] /\ Proper(p, K)
        OBVIOUS
    <2> HIDE DEF K
    <2>1. Fares(s, w, c, b, K)
        BY <1>1
    <2> QED
        BY <1>1, <1>21, <2>1, HeadFares
<1>7. ~ u.cut /\ Once(p) =>
        /\ b.taken[p.op] = 0 /\ s.status[p.op] # "idle"
        /\ \A i \in DOMAIN s.queue : s.queue[i].op # p.op
    <2> SUFFICES ASSUME ~ u.cut
                 PROVE  Once(p) =>
                          /\ b.taken[p.op] = 0 /\ s.status[p.op] # "idle"
                          /\ \A i \in DOMAIN s.queue : s.queue[i].op # p.op
        OBVIOUS
    <2>1. Trails(s, w, b, TRUE)
        BY <1>1
    <2> QED
        BY <1>1, <1>21, <2>1, HeadTrails
<1> HIDE DEF p, v, a, B
<1>8. Owned(s, b, p, u)
    BY <1>1, <1>6, <1>21 DEF Owned, Fares
<1>9. Grown(K, L, b, p)
    <2>1. Regrown(s, b, p, u)
        BY <1>1, <1>2, <1>8, <1>21, KnownTakes
    <2> QED
        BY <2>1 DEF Regrown, B
<1>10. /\ L.late # {} => u.abandons = 0
       /\ L.held # {} => u.abandons = 0
       /\ L.spent # {} => ~ u.cut
       /\ K.late = IF u.abandons = 0 /\ u.losses = 0
                   THEN {r \in Has(b) : kind[r] = "qos2" /\ s.pid[r] \notin b.open} ELSE {}
    BY <1>21 DEF Known
<1> HIDE DEF K, L
<1>11. ASSUME p.code = "PUBREL", p.op \in L.late
       PROVE  /\ Sent(s, p.op)
              /\ \A i \in DOMAIN s.queue : s.queue[i].op # p.op
              /\ \A i \in DOMAIN s.batch : s.batch[i].op = p.op => s.batch[i].code = "PUBREL"
              /\ \A i \in DOMAIN s.handlers : s.handlers[i].op = p.op => s.handlers[i].code = "PUBCOMP"
    <2> DEFINE r == p.op
    <2>1. u.abandons = 0 /\ r \in Requests /\ kind[r] = "qos2"
        BY <1>2, <1>10, <1>11, WireIs
    <2>2. Carries(s, r) /\ Sent(s, r)
        BY <1>6, <2>1
    <2>3. /\ \A i \in DOMAIN s.batch : s.batch[i].op = r => s.batch[i].code = "PUBREL"
          /\ \A i \in DOMAIN s.handlers : s.handlers[i].op = r => s.handlers[i].code = "PUBCOMP"
        BY <1>1, <1>2, <1>11, <2>1 DEF Fares, Paired
    <2> HIDE DEF r
    <2>4. \A i \in DOMAIN s.queue : s.queue[i].op # r
        BY <2>1, <2>2, OnePlace DEF Carries
    <2> QED
        BY <2>2, <2>3, <2>4 DEF r
<1>12. ASSUME Takes(b, p), kind[p.op] = "qos2", p.op \in L.held
       PROVE  /\ Sent(s, p.op) /\ s.open /\ s.abandoned = {}
              /\ \A i \in DOMAIN s.posted : s.posted[i].op # p.op
    <2> DEFINE r == p.op
    <2>1. u.abandons = 0 /\ r \in Requests /\ kind[r] = "qos2"
        BY <1>10, <1>12 DEF Takes
    <2>2. Carries(s, r) /\ Sent(s, r)
        BY <1>6, <2>1
    <2>3. s.abandoned = {} /\ s.open = TRUE
        BY <1>21, <2>1
    <2> HIDE DEF r
    <2>4. \A i \in DOMAIN s.posted : s.posted[i].op # r
        BY <2>1, <2>2, OnePlace DEF Carries
    <2> QED
        BY <2>2, <2>3, <2>4 DEF r
<1>13. ASSUME Takes(b, p), kind[p.op] = "qos0", p.op \in L.spent
       PROVE  /\ s.status[p.op] # "idle"
              /\ \A i \in DOMAIN s.queue : s.queue[i].op # p.op
    BY <1>7, <1>10, <1>13 DEF Takes, Once
<1>14. Good(s, L)
    BY <1>1, <1>9, <1>11, <1>12, <1>13, GoodTakes
<1>15. TakenOnce(B, u)
    <2>1. ASSUME u.abandons = 0, u.losses = 0, NEW r \in Requests, kind[r] = "qos2"
          PROVE  B.taken[r] <= 1
        <3>1. b.taken[r] \in Nat /\ b.taken[r] <= 1
            BY <1>1, <1>5, <2>1 DEF TakenOnce
        <3>2. CASE Takes(b, p) /\ r = p.op
            <4>1. p.pid = s.pid[r] /\ Proper(p, K) /\ p.code = "PUBLISH" /\ p.pid \notin b.open
                BY <1>6, <2>1, <3>2 DEF Takes, BeginsWith
            <4>2. r \notin K.late
                BY <2>1, <3>2, <4>1 DEF Proper, Second
            <4>3. r \notin Has(b)
                BY <1>10, <2>1, <4>1, <4>2
            <4>4. b.taken[r] = 0
                BY <4>3 DEF Has
            <4>5. B.taken[r] = b.taken[r] + 1
                BY <1>4, <3>2
            <4> QED
                BY <4>4, <4>5
        <3>3. CASE ~ (Takes(b, p) /\ r = p.op)
            <4>1. B.taken[r] = b.taken[r] + 0
                BY <1>4, <3>3
            <4> QED
                BY <3>1, <4>1
        <3> QED
            BY <3>2, <3>3
    <2> QED
        BY <2>1 DEF TakenOnce
<1>16. OnceAtMost(B, u)
    <2>1. ASSUME ~ u.cut, NEW r \in Requests, kind[r] = "qos0"
          PROVE  B.taken[r] <= 1
        <3>1. b.taken[r] \in Nat /\ b.taken[r] <= 1
            BY <1>1, <1>5, <2>1 DEF OnceAtMost
        <3>2. CASE Takes(b, p) /\ r = p.op
            <4>4. b.taken[r] = 0
                BY <1>7, <2>1, <3>2 DEF Once
            <4>5. B.taken[r] = b.taken[r] + 1
                BY <1>4, <3>2
            <4> QED
                BY <4>4, <4>5
        <3>3. CASE ~ (Takes(b, p) /\ r = p.op)
            <4>1. B.taken[r] = b.taken[r] + 0
                BY <1>4, <3>3
            <4> QED
                BY <3>1, <4>1
        <3> QED
            BY <3>2, <3>3
    <2> QED
        BY <2>1 DEF OnceAtMost
<1>17. u.abandons = 0 => Fares(s, v, a, B, L)
    <2>1. ASSUME u.abandons = 0 PROVE Fares(s, v, a, B, L)
        <3>1. Fares(s, w, c, b, Known(s, b, u))
            BY <1>1, <2>1 DEF K
        <3> QED
            BY <1>1, <2>1, <1>21, <3>1, FaresTakes DEF p, v, a, B, L
    <2> QED
        BY <2>1
<1>18. Tailed(s, v)
    <2>1. Older(s, v) = Older(s, w) - 1 /\ Older(s, w) \in Int /\ DOMAIN s.batch \subseteq Nat
        <3>1. s.batch \in Seq(WriteReqs)
            BY ClientParts DEF Sane
        <3>2. DOMAIN s.batch = 1 .. Len(s.batch) /\ Len(s.batch) \in Nat
            BY <3>1, LenProperties
        <3> QED
            BY <1>2, <3>2 DEF Older
    <2>2. ASSUME NEW j \in DOMAIN s.batch, j + Older(s, v) \in DOMAIN v
          PROVE  v[j + Older(s, v)] = Packet(s.batch[j])
        <3> DEFINE n == Older(s, w)
        <3>1. (j + Older(s, v)) + 1 = j + n
            BY <2>1, <2>2
        <3>2. j + n \in DOMAIN w /\ v[j + Older(s, v)] = w[j + n]
            BY <1>2, <2>2, <3>1
        <3> QED
            BY <1>1, <2>2, <3>2 DEF Tailed
    <2> QED
        BY <2>2 DEF Tailed
<1>19. ~ u.cut => Trails(s, v, B, TRUE)
    <2>1. ASSUME ~ u.cut PROVE Trails(s, v, B, TRUE)
        <3>1. Trails(s, w, b, TRUE)
            BY <1>1, <2>1
        <3> QED
            BY <1>1, <1>21, <3>1, TrailsTakes DEF p, v, B
    <2> QED
        BY <2>1
<1>20. Candid(s, v, a, B, u, TRUE)
    BY <1>1, <1>2, <1>4, <1>14, <1>15, <1>16, <1>17, <1>18, <1>19, <1>21 DEF Candid, L
<1> QED
    BY <1>3, <1>20 DEF p, v, a, B

\* A client that differs in what is on its way alone.
LEMMA CandidWire ==
    ASSUME NEW s \in Clients, NEW wire, NEW maximum, NEW shut
    PROVE  LET t == [s EXCEPT !.wire = wire, !.maximum = maximum, !.shut = shut]
           IN  \A w, c, b, u, up : Candid(s, w, c, b, u, up) <=> Candid(t, w, c, b, u, up)
<1> DEFINE t == [s EXCEPT !.wire = wire, !.maximum = maximum, !.shut = shut]
<1>1. /\ t.queue = s.queue /\ t.batch = s.batch /\ t.writing = s.writing
      /\ t.handlers = s.handlers /\ t.fast = s.fast /\ t.posted = s.posted
      /\ t.status = s.status /\ t.pid = s.pid /\ t.abandoned = s.abandoned
      /\ t.stored = s.stored /\ t.open = s.open
    BY DEF Clients
<1> HIDE DEF t
<1>2. \A r : Sent(t, r) <=> Sent(s, r)
    BY <1>1 DEF Sent
<1>3. \A b, u : Known(t, b, u) = Known(s, b, u)
    BY <1>1, <1>2 DEF Known
<1>4. \A K : Good(t, K) <=> Good(s, K)
    BY <1>1, <1>2 DEF Good
<1>5. \A w, c, r : Flying(t, w, c, r) = Flying(s, w, c, r)
    BY <1>1 DEF Flying
<1>6. \A r : Carries(t, r) <=> Carries(s, r)
    BY <1>1 DEF Carries
<1>7. \A w : Paired(t, w) <=> Paired(s, w)
    BY <1>1 DEF Paired
<1>8. \A p, K : Apposite(t, p, K) <=> Apposite(s, p, K)
    BY <1>1 DEF Apposite
<1>9. \A w, c, b, K : Fares(t, w, c, b, K) <=> Fares(s, w, c, b, K)
    BY <1>1, <1>5, <1>6, <1>7, <1>8 DEF Fares
<1>10. \A w : Older(t, w) = Older(s, w)
    BY <1>1 DEF Older
<1>11. \A w : Tailed(t, w) <=> Tailed(s, w)
    BY <1>1, <1>10 DEF Tailed
<1>12. \A w, up : Arrived(t, w, up) = Arrived(s, w, up)
    BY <1>1, <1>10 DEF Arrived
<1>13. \A w, b, up : Trails(t, w, b, up) <=> Trails(s, w, b, up)
    BY <1>1, <1>2, <1>10, <1>12 DEF Trails
<1>14. \A w, c, b, u, up : Candid(s, w, c, b, u, up) <=> Candid(t, w, c, b, u, up)
    BY <1>1, <1>3, <1>4, <1>9, <1>11, <1>13 DEF Candid
<1> QED
    BY <1>14 DEF t

\* A packet that the broker takes.
LEMMA BrokerTakesTruth ==
    ASSUME DeliveryInv, Truth, BrokerTakes
    PROVE  NextTruth
<1> DEFINE w == svc.wire
           p == Head(w)
           up == link = "up" /\ ~ stale
           t == svc'
<1>1. /\ link = "up" /\ w # <<>> /\ brk' = Taking(brk, p) /\ b2c' = b2c \o Answers(p)
      /\ t = [svc EXCEPT !.wire = Tail(w)]
      /\ link' = link /\ stale' = stale /\ budget' = budget
    BY DEF BrokerTakes
<1>2. /\ svc \in Clients /\ Kinded /\ Sane(svc, {}) /\ b2c \in Seq(Arriving) /\ svc.open
      /\ stale \in BOOLEAN /\ (budget.abandons = 0 => svc.abandoned = {})
    BY <1>1 DEF DeliveryInv, Accounted, Sound, Sane, Kinded
<1>3. Candid(svc, w, b2c, brk, budget, up) /\ (stale /\ svc.open => Late(svc, b2c))
    BY <1>1 DEF Truth, TruthOf
<1>4. ~ stale
    BY <1>1, <1>2, <1>3 DEF Late
<1>5. up = TRUE /\ svc.open = TRUE
    BY <1>1, <1>2, <1>4 DEF Clients
<1>6. t = [svc EXCEPT !.wire = Tail(w), !.maximum = svc.maximum, !.shut = svc.shut]
      /\ t.wire = Tail(w)
    BY <1>1, <1>2 DEF Clients
<1> HIDE DEF w, p, t, up
<1>7. Candid(svc, w, b2c, brk, budget, TRUE)
    BY <1>3, <1>5
<1>8. Candid(svc, Tail(w), b2c \o Answers(Head(w)), Taking(brk, Head(w)), budget, TRUE)
    <2>1. Takable(svc, w, budget)
        BY <1>1, <1>2, <1>5 DEF Takable
    <2> QED
        BY <1>2, <1>7, <2>1, TakeHead
<1>9. Candid(t, Tail(w), b2c \o Answers(Head(w)), Taking(brk, Head(w)), budget, TRUE)
    <2> DEFINE m == [svc EXCEPT !.wire = Tail(w), !.maximum = svc.maximum, !.shut = svc.shut]
    <2>1. \A x, c, b, u, y : Candid(svc, x, c, b, u, y) <=> Candid(m, x, c, b, u, y)
        BY <1>2, CandidWire
    <2> QED
        BY <1>6, <1>8, <2>1
<1>10. Candid(t, t.wire, b2c', brk', budget', up)
    BY <1>1, <1>5, <1>6, <1>9 DEF p
<1> QED
    BY <1>1, <1>4, <1>10 DEF NextTruth, TruthOf, t, up

\* FoldLeft for what the broker becomes when it takes packets.
Receiving == INSTANCE SequenceLemmas WITH Op <- Taking

\* What is on its way is lost: nothing that the broker took of a write that goes on may be
\* forgotten, unless it was cut short.
LEMMA CandidDropped ==
    ASSUME NEW s \in Clients, NEW v, NEW c \in Seq(Arriving), NEW b, NEW u, NEW up,
           Candid(s, v, c, b, u, up), NEW x \in Budgets, x.abandons = u.abandons,
           x.losses = u.losses, u.cut => x.cut,
           ~ x.cut => Arrived(s, v, up) = {}
    PROVE  Candid(s, <<>>, <<>>, b, x, FALSE)
<1> DEFINE K == Known(s, b, u)
           L == Known(s, b, x)
<1>1. /\ b \in Brokers /\ u \in Budgets /\ v \in Seq(Wires) /\ Good(s, K)
      /\ TakenOnce(b, u) /\ OnceAtMost(b, u)
      /\ u.abandons = 0 /\ s.open => Fares(s, v, c, b, K)
      /\ ~ u.cut /\ s.open => Trails(s, v, b, up)
    BY DEF Candid
<1>2. <<>> \in Seq(Wires) /\ DOMAIN <<>> = {}
    BY EmptySeq
<1>3. L.sure = K.sure /\ L.late = K.late /\ L.held = K.held /\ L.spent \subseteq K.spent
    BY DEF Known
<1> HIDE DEF K, L
<1>4. Good(s, L)
    BY <1>1, <1>3, GoodWeaker DEF Weaker
<1>5. ASSUME x.abandons = 0, s.open PROVE Fares(s, <<>>, <<>>, b, L)
    <2>1. Fares(s, v, c, b, K)
        BY <1>1, <1>5
    <2>2. ASSUME NEW r \in Requests, kind[r] # "qos0"
          PROVE  /\ Flying(s, <<>>, <<>>, r) <= 1
                 /\ Flying(s, <<>>, <<>>, r) # 0 => Carries(s, r)
        <3> DEFINE cv == Count(v, r)
                   cc == Count(c, r)
                   cf == IF s.writing THEN Count(s.fast, r) ELSE 0
                   f == Flying(s, v, c, r)
                   g == Flying(s, <<>>, <<>>, r)
        <3>1. Count(<<>>, r) = 0
            BY CountEmpty
        <3>2. cv \in Nat /\ cc \in Nat /\ Count(s.fast, r) \in Nat
            BY <1>1, ClientParts, MineIsFinite
        <3>3. cf \in Nat
            BY <3>2
        <3>4. f = cv + cc + cf /\ g = 0 + 0 + cf
            BY <3>1 DEF Flying
        <3>5. f <= 1 /\ (f # 0 => Carries(s, r))
            BY <2>1, <2>2 DEF Fares
        <3> HIDE DEF cv, cc, cf, f, g
        <3>6. g <= 1 /\ (g # 0 => Carries(s, r))
            BY <3>2, <3>3, <3>4, <3>5
        <3> QED
            BY <3>6 DEF g
    <2>3. \A y : Apposite(s, y, K) => Apposite(s, y, L)
        BY <1>3 DEF Apposite
    <2>4. Paired(s, <<>>)
        BY <1>2 DEF Paired
    <2> QED
        BY <1>2, <1>3, <2>1, <2>2, <2>3, <2>4 DEF Fares
<1>6. Tailed(s, <<>>)
    BY <1>2 DEF Tailed
<1>7. ASSUME ~ x.cut, s.open PROVE Trails(s, <<>>, b, FALSE)
    <2>1. Trails(s, v, b, up) /\ Arrived(s, v, up) = {}
        BY <1>1, <1>7
    <2> QED
        BY <1>2, <2>1 DEF Trails
<1> QED
    BY <1>1, <1>2, <1>4, <1>5, <1>6, <1>7 DEF Candid, TakenOnce, OnceAtMost, L

\* The connection is lost.
LEMMA BreakTruth ==
    ASSUME DeliveryInv, Truth, Break
    PROVE  NextTruth
<1> DEFINE w == svc.wire
           n == Len(w)
           up == link = "up" /\ ~ stale
           t == svc'
<1>1. /\ link = "up" /\ link' = "down" /\ b2c' = <<>> /\ stale' = stale
      /\ t = [svc EXCEPT !.wire = <<>>]
    BY DEF Break
<1>2. PICK arrived \in 0 .. n :
        /\ brk' = FoldLeft(Taking, brk, SubSeq(w, 1, arrived))
        /\ budget' = [budget EXCEPT !.breaks = IF svc.shut THEN @ ELSE @ + 1,
                                    !.cut = @ \/ (svc.writing /\ ~ stale /\ n - arrived < Len(svc.batch))]
    BY DEF Break
<1>3. /\ svc \in Clients /\ Kinded /\ Sane(svc, {}) /\ b2c \in Seq(Arriving) /\ svc.open
      /\ stale \in BOOLEAN /\ (budget.abandons = 0 => svc.abandoned = {})
    BY <1>1 DEF DeliveryInv, Accounted, Sound, Sane, Kinded
<1>4. Candid(svc, w, b2c, brk, budget, up) /\ (stale /\ svc.open => Late(svc, b2c))
    BY <1>1 DEF Truth, TruthOf
<1>5. t = [svc EXCEPT !.wire = <<>>, !.maximum = svc.maximum, !.shut = svc.shut]
      /\ t.wire = <<>> /\ svc.open = TRUE
    BY <1>1, <1>3 DEF Clients
<1>6. stale => w = <<>>
    BY <1>3, <1>4 DEF Late
<1>7. ~ stale => up = TRUE
    BY <1>1
<1>8. /\ w \in Seq(Wires) /\ n \in Nat /\ DOMAIN w = 1 .. n /\ brk \in Brokers /\ budget \in Budgets
    BY <1>4, LenProperties DEF Candid
<1> DEFINE list == SubSeq(w, 1, arrived)
           Rest(i) == SubSeq(w, i + 1, n)
           Q == [i \in Nat |-> {b \in Brokers : \E c \in Seq(Arriving) :
                                   Candid(svc, Rest(i), c, b, budget, up)}]
<1>9. list \in Seq(Wires) /\ Len(list) = arrived /\ \A i \in 1 .. arrived : list[i] = w[i]
    <2>1. \A i \in 1 .. arrived : w[i] \in Wires
        BY <1>8, ElementOfSeq
    <2>2. /\ list \in Seq(Wires) /\ Len(list) = IF 1 <= arrived THEN arrived - 1 + 1 ELSE 0
          /\ \A i \in 1 .. arrived - 1 + 1 : list[i] = w[1 + i - 1]
        BY <2>1, SubSeqProperties
    <2> HIDE DEF list
    <2>3. arrived \in Nat /\ arrived - 1 + 1 = arrived
        OBVIOUS
    <2>4. Len(list) = arrived
        BY <2>2, <2>3
    <2>5. \A i \in 1 .. arrived : list[i] = w[i]
        BY <2>2, <2>3
    <2> QED
        BY <2>2, <2>4, <2>5
<1>10. brk \in Q[0]
    <2>1. Rest(0) = w
        BY <1>8, SubSeqFull
    <2> QED
        BY <1>3, <1>4, <1>8, <2>1
<1> HIDE DEF w, n, up, t, list
<1>11. Receiving!LeadsOn(Q, list)
    <2>1. SUFFICES ASSUME NEW i \in 1 .. Len(list), NEW b \in Q[i - 1]
                   PROVE  Taking(b, list[i]) \in Q[i]
        BY DEF Receiving!LeadsOn
    <2>2. /\ i \in 1 .. n /\ i - 1 \in Nat /\ i \in Nat /\ (i - 1) + 1 = i /\ n \in i .. n
          /\ list[i] = w[i] /\ n \in Nat
        BY <1>8, <1>9
    <2>3. PICK c \in Seq(Arriving) : Candid(svc, Rest(i - 1), c, b, budget, up)
        BY <2>1, <2>2
    <2>4. Rest(i - 1) = SubSeq(w, i, n)
        BY <2>2
    <2>5. Head(Rest(i - 1)) = w[i] /\ Tail(Rest(i - 1)) = Rest(i)
        BY <1>8, <2>2, <2>4, HeadTailOfSubSeq DEF n
    <2>6. Rest(i - 1) # <<>>
        <3>1. \A j \in i .. n : w[j] \in Wires
            BY <1>8, <2>2, ElementOfSeq DEF n
        <3>2. Len(Rest(i - 1)) = n - i + 1
            <4>1. Len(SubSeq(w, i, n)) = IF i <= n THEN n - i + 1 ELSE 0
                BY <2>2, <3>1, SubSeqProperties
            <4> QED
                BY <2>2, <2>4, <4>1
        <3>3. Len(<<>>) = 0
            OBVIOUS
        <3> HIDE DEF Rest
        <3> QED
            BY <2>2, <3>2, <3>3
    <2>7. up = TRUE
        <3>1. w # <<>>
            <4>1. Len(<<>>) = 0
                OBVIOUS
            <4> QED
                BY <2>2, <4>1 DEF n
        <3> QED
            BY <1>3, <1>6, <1>7, <3>1
    <2> DEFINE v == Rest(i - 1)
    <2>8. Candid(svc, v, c, b, budget, TRUE) /\ Takable(svc, v, budget)
        BY <1>3, <1>5, <2>3, <2>6, <2>7 DEF Takable
    <2> HIDE DEF v
    <2>9. /\ Candid(svc, Tail(v), c \o Answers(Head(v)), Taking(b, Head(v)), budget, TRUE)
          /\ c \o Answers(Head(v)) \in Seq(Arriving)
        BY <1>3, <2>8, TakeHead
    <2>10. Candid(svc, Rest(i), c \o Answers(Head(v)), Taking(b, list[i]), budget, up)
        BY <2>2, <2>5, <2>7, <2>9 DEF v
    <2>11. Taking(b, list[i]) \in Brokers
        BY <2>10 DEF Candid
    <2> HIDE DEF Rest
    <2> QED
        BY <2>2, <2>9, <2>10, <2>11
<1> HIDE DEF Q
<1>12. FoldLeft(Taking, brk, list) \in Q[Len(list)]
    <2>1. Receiving!FoldLeft(Taking, brk, list) \in Q[Len(list)]
        BY <1>9, <1>10, <1>11, Receiving!FoldSteps
    <2> QED
        BY <2>1 DEF FoldLeft, MapThenFoldSet, Receiving!FoldLeft, Receiving!MapThenFoldSet, Max,
           Receiving!Max
<1>13. brk' \in Q[arrived]
    BY <1>2, <1>9, <1>12 DEF list
<1>14. PICK c \in Seq(Arriving) : Candid(svc, Rest(arrived), c, brk', budget, up)
    <2>1. arrived \in Nat
        OBVIOUS
    <2> QED
        BY <1>13, <2>1 DEF Q
<1>15. Len(Rest(arrived)) = n - arrived
    <2>1. \A j \in arrived + 1 .. n : w[j] \in Wires
        BY <1>8, ElementOfSeq DEF n
    <2>2. Len(Rest(arrived)) = IF arrived + 1 <= n THEN n - (arrived + 1) + 1 ELSE 0
        BY <1>8, <2>1, SubSeqProperties
    <2> QED
        BY <1>8, <2>2
<1> HIDE DEF Rest, Q
<1> DEFINE x == budget'
           v == Rest(arrived)
<1>16. /\ x \in Budgets /\ x.abandons = budget.abandons /\ x.losses = budget.losses
       /\ x.cut <=> (budget.cut \/ (svc.writing /\ ~ stale /\ n - arrived < Len(svc.batch)))
    <2> DEFINE cut == budget.cut \/ (svc.writing /\ ~ stale /\ n - arrived < Len(svc.batch))
               breaks == IF svc.shut THEN budget.breaks ELSE budget.breaks + 1
    <2>1. x = [budget EXCEPT !.breaks = breaks, !.cut = cut]
        BY <1>2, <1>8 DEF Budgets
    <2>2. breaks \in Nat /\ cut \in BOOLEAN
        BY <1>8 DEF Budgets
    <2> HIDE DEF breaks, cut
    <2>3. /\ x \in Budgets /\ x.abandons = budget.abandons /\ x.losses = budget.losses
          /\ x.cut = cut
        BY <1>8, <2>1, <2>2 DEF Budgets
    <2> QED
        BY <2>3 DEF cut
<1>17. ~ x.cut => Arrived(svc, v, up) = {}
    <2>1. SUFFICES ASSUME ~ x.cut, NEW i \in DOMAIN svc.batch, up, i + Older(svc, v) <= 0
                   PROVE  FALSE
        BY DEF Arrived
    <2>2. svc.batch \in Seq(WriteReqs) /\ DOMAIN <<>> = {}
        BY <1>3, ClientParts
    <2>3. DOMAIN svc.batch = 1 .. Len(svc.batch) /\ Len(svc.batch) \in Nat
        BY <2>2, LenProperties
    <2>4. svc.writing
        BY <1>3, <2>2 DEF Sane
    <2>5. ~ stale
        BY <2>1 DEF up
    <2>6. ~ (n - arrived < Len(svc.batch))
        BY <1>16, <2>1, <2>4, <2>5
    <2>7. Older(svc, v) = (n - arrived) - Len(svc.batch)
        BY <1>15 DEF Older
    <2> DEFINE l == Len(svc.batch)
               o == Older(svc, v)
    <2> HIDE DEF l, o
    <2>8. i \in 1 .. l /\ l \in Nat /\ o = (n - arrived) - l /\ ~ (n - arrived < l) /\ i + o <= 0
        BY <2>1, <2>3, <2>6, <2>7 DEF l, o
    <2> QED
        BY <1>8, <2>8
<1>18. budget.cut => x.cut
    BY <1>16
<1> HIDE DEF x, v
<1>19. Candid(svc, <<>>, <<>>, brk', x, FALSE)
    <2>1. Candid(svc, v, c, brk', budget, up)
        BY <1>14 DEF v
    <2> QED
        BY <1>3, <1>16, <1>17, <1>18, <2>1, CandidDropped
<1>20. Candid(t, <<>>, <<>>, brk', x, FALSE)
    <2> DEFINE m == [svc EXCEPT !.wire = <<>>, !.maximum = svc.maximum, !.shut = svc.shut]
    <2>1. \A a, d, b, u, y : Candid(svc, a, d, b, u, y) <=> Candid(m, a, d, b, u, y)
        BY <1>3, CandidWire
    <2> QED
        BY <1>5, <1>19, <2>1
<1>21. stale /\ t.open => Late(t, <<>>)
    <2>1. t.open = svc.open /\ t.writing = svc.writing
        BY <1>1, <1>3 DEF Clients, t
    <2>2. DOMAIN <<>> = {}
        OBVIOUS
    <2> QED
        BY <1>4, <1>5, <2>1, <2>2 DEF Late
<1>22. (link' = "up" /\ ~ stale') = FALSE
    BY <1>1
<1> QED
    BY <1>1, <1>5, <1>20, <1>21, <1>22 DEF NextTruth, TruthOf, t, x

\* Nothing is learned.
Recalls(s, t, b, u) == Known(t, b, u) = Known(s, b, u)

\* What was being written is in the queue again: nothing of it that may not be sent.
LEMMA RequeuedCandid ==
    ASSUME NEW s, Sane(s, {}), NEW w, NEW c, NEW b, NEW u, Candid(s, w, c, b, u, FALSE)
    PROVE  Good(Requeued(s), Known(s, b, u)) /\ Recalls(s, Requeued(s), b, u)
<1> DEFINE K == Known(s, b, u)
           q == s.batch \o s.queue
           t == [s EXCEPT !.writing = FALSE, !.batch = <<>>, !.queue = q]
<1>1. s \in Clients /\ Requeued(s) = t
    BY DEF Sane, Requeued
<1>2. /\ t.queue = q /\ t.batch = <<>> /\ t.handlers = s.handlers /\ t.posted = s.posted
      /\ t.status = s.status /\ t.pid = s.pid /\ t.open = s.open /\ t.abandoned = s.abandoned
    BY <1>1 DEF Clients
<1> HIDE DEF t
<1>3. \A r : Sent(t, r) <=> Sent(s, r)
    BY <1>2 DEF Sent
<1>4. Known(t, b, u) = K
    BY <1>2, <1>3 DEF Known
<1>5. Good(s, K) /\ (~ u.cut /\ s.open => Trails(s, w, b, FALSE))
    BY DEF Candid
<1>6. s.batch \in Seq(Unsent(K))
    <2>1. ASSUME NEW i \in DOMAIN s.batch PROVE s.batch[i] \in Unsent(K)
        <3> DEFINE x == s.batch[i]
        <3>1. x \in Writable(K)
            BY <1>5, ElementOfSeq, LenProperties DEF Good
        <3>2. ASSUME x.op \in K.spent PROVE FALSE
            <4>1. ~ u.cut /\ s.open /\ b.taken[x.op] # 0 /\ Once(x)
                BY <3>2 DEF Known, Has, Once
            <4>2. i \in Arrived(s, w, FALSE)
                BY <1>5, <2>1, <4>1 DEF Trails
            <4> QED
                BY <4>2 DEF Arrived
        <3> QED
            BY <3>1, <3>2 DEF Writable, Unsent
    <2>2. s.batch \in Seq(Writable(K))
        BY <1>5 DEF Good
    <2> QED
        BY <2>1, <2>2, MembersOf
<1> HIDE DEF K
<1>7. q \in Seq(Unsent(K))
    BY <1>5, <1>6, ConcatProperties DEF Good
<1>8. <<>> \in Seq(Writable(K))
    BY EmptySeq
<1>9. Good(t, K)
    BY <1>2, <1>3, <1>5, <1>7, <1>8 DEF Good
<1> QED
    BY <1>1, <1>4, <1>9 DEF K, Recalls

\* All is sent again over a connection that has nothing on its way but messages of the broker.
LEMMA ResendCandid ==
    ASSUME Kinded, NEW s, Sound(s), s.wire = <<>>, NEW d \in Seq(Arriving),
           \A i \in DOMAIN d : d[i].op \in Incoming, NEW b, NEW u,
           Candid(s, <<>>, d, b, u, FALSE), NEW up
    PROVE  LET t == SenderResend(Requeued(s))
           IN  Candid(t, t.wire, d, b, u, up)
<1> DEFINE K == Known(s, b, u)
           q == Requeued(s)
           t == SenderResend(q)
           L == Known(t, b, u)
<1>1. /\ s \in Clients /\ Sane(s, {}) /\ b \in Brokers /\ u \in Budgets /\ Good(s, K)
      /\ TakenOnce(b, u) /\ OnceAtMost(b, u)
      /\ u.abandons = 0 /\ s.open => Fares(s, <<>>, d, b, K)
      /\ ~ u.cut /\ s.open => Trails(s, <<>>, b, FALSE)
    BY DEF Sound, Sane, Candid
<1>2. /\ q.wire = <<>> /\ q.batch = <<>> /\ q.handlers = s.handlers /\ q.posted = s.posted
      /\ q.status = s.status /\ q.pid = s.pid /\ q.open = s.open /\ q.stored = s.stored
      /\ q.fast = s.fast
    BY <1>1 DEF Clients, Requeued
<1>3. Sound(q) /\ ~ q.writing
    BY RequeuedKeeps
<1>4. Good(q, K) /\ Known(q, b, u) = K
    <2>1. Good(Requeued(s), Known(s, b, u)) /\ Recalls(s, Requeued(s), b, u)
        BY <1>1, RequeuedCandid
    <2> QED
        BY <2>1 DEF Recalls
<1>5. Sane(q, {}) /\ q \in Clients
    BY <1>3 DEF Sound, Sane
<1>6. Sound(t) /\ Sane(t, {}) /\ t \in Clients
    BY ResendSound DEF Sound, Sane
<1>7. Apt(K)
    BY KnownIsApt
<1>8. t.open = s.open
    <2>1. t.open = q.open
        BY <1>3, <1>5, SenderResendKeeps
    <2> QED
        BY <1>2, <2>1
<1> HIDE DEF K, q, t, L
<1>9. Good(t, K) /\ Lasts(q, t) /\ Advances(q, t) /\ Fresh(q, t, K)
    BY <1>3, <1>4, <1>5, <1>7, SenderResendMoves DEF t
<1>10. <<>> \in Seq(Wires) /\ DOMAIN <<>> = {}
    BY EmptySeq
<1>11. q.wire \in Seq(Wires) /\ t.wire \in Seq(Wires)
    <2>1. q.wire \in Seq(Wires)
        BY <1>2, <1>10
    <2> QED
        BY <1>5, <1>6, <1>9, <2>1, WiresOn
<1>12. \A r \in K.held : Sent(q, r)
    <2>1. \A r : Sent(q, r) <=> Sent(s, r)
        BY <1>2 DEF Sent
    <2> QED
        BY <1>1, <2>1 DEF Good
<1>13. /\ L.sure = K.sure /\ L.held = K.held /\ L.spent = K.spent /\ L.late \subseteq K.late
       /\ Good(t, L)
    <2>1. u.abandons = 0 /\ q.open => \A p \in b.open : \E r \in Known(q, b, u).held : q.pid[r] = p
        BY <1>1, <1>2, <1>4 DEF Fares
    <2>2. t.open = q.open /\ Good(t, Known(q, b, u))
        BY <1>2, <1>4, <1>8, <1>9
    <2> QED
        BY <1>4, <1>5, <1>6, <1>9, <2>1, <2>2, KnownOn DEF L
<1>14. ASSUME u.abandons = 0, t.open PROVE Fares(t, t.wire, d, b, L)
    <2>1. Fares(s, <<>>, d, b, K)
        BY <1>1, <1>8, <1>14
    <2>2. ASSUME NEW r \in Requests PROVE Flying(q, q.wire, d, r) = 0
        <3>1. Count(<<>>, r) = 0
            BY CountEmpty
        <3>2. Count(d, r) = 0
            <4>1. \A i \in DOMAIN d : d[i].op # r
                BY DeliveryAssumption
            <4> QED
                BY <4>1, CountTells
        <3>3. Flying(q, q.wire, d, r) = 0 + 0 + 0
            BY <1>2, <1>3, <3>1, <3>2 DEF Flying
        <3> QED
            BY <3>3
    <2>3. Rides(q, t, q.wire, d, b, K)
        <3>1. \A i \in DOMAIN d : Foreign(d[i]) /\ Apposite(q, d[i], K)
            BY <2>1, DeliveryAssumption DEF Fares, Apposite
        <3>2. \A r \in Requests : Flying(q, q.wire, d, r) <= 1 /\ ~ (Flying(q, q.wire, d, r) # 0)
            BY <2>2
        <3>3. DOMAIN q.wire = {}
            BY <1>2, <1>10
        <3>4. \A p \in b.open : \E r \in K.held : q.pid[r] = p
            BY <1>2, <2>1 DEF Fares
        <3>5. K.held \cap Refused = {} /\ K.held \subseteq Has(b)
            BY <2>1 DEF Fares
        <3> QED
            BY <1>3, <3>1, <3>2, <3>3, <3>4, <3>5 DEF Rides
    <2>4. K.held \subseteq Requests
        BY <1>7 DEF Apt
    <2> QED
        BY <1>5, <1>6, <1>9, <1>11, <1>12, <1>13, <2>3, <2>4, FaresOn
<1>15. Tailed(t, t.wire)
    <2>1. q.writing => Tailed(q, q.wire)
        BY <1>3
    <2>2. ~ t.writing => t.batch = <<>>
        BY <1>6 DEF Sane
    <2> QED
        BY <1>5, <1>6, <1>9, <1>11, <2>1, <2>2, TailedOn
<1>16. ASSUME ~ u.cut, t.open PROVE Trails(t, t.wire, b, up)
    <2>1. Trails(s, <<>>, b, FALSE)
        BY <1>1, <1>8, <1>16
    <2>2. \A m \in Incoming : b.out[m] = "done" /\ level[m] # "qos0" => t.stored[m] >= 1
        <3>1. SUFFICES ASSUME NEW m \in Incoming, b.out[m] = "done", level[m] # "qos0"
                       PROVE  t.stored[m] >= 1
            OBVIOUS
        <3>2. s.stored[m] >= 1
            BY <2>1, <3>1 DEF Trails, Arrived
        <3>3. q.stored[m] \in Nat /\ t.stored[m] \in Nat /\ q.stored[m] <= t.stored[m]
            BY <1>5, <1>6, <1>9, ClientParts DEF Lasts
        <3> QED
            BY <1>2, <3>2, <3>3
    <2>3. Settled(t, <<>>, b)
        BY <1>10, <2>2 DEF Settled
    <2>4. \/ ~ t.writing /\ t.wire = <<>>
          \/ \E y \in Clients : y.wire = <<>> /\ t.wire = y.wire \o Packets(t.batch)
        BY <1>2, <1>3, <1>5, <1>9 DEF Advances
    <2>5. t.batch \in Seq(Unsent(K))
        <3>1. CASE t.writing
            BY <1>3, <1>9, <3>1 DEF Fresh
        <3>2. CASE ~ t.writing
            BY <1>6, <3>2, EmptySeq DEF Sane
        <3> QED
            BY <3>1, <3>2
    <2>6. {r \in Has(b) : kind[r] = "qos0"} \subseteq K.spent
        BY <1>8, <1>16 DEF Known, K
    <2> QED
        BY <1>1, <1>6, <1>10, <1>11, <2>3, <2>4, <2>5, <2>6, TrailsAnew
<1>17. Candid(t, t.wire, d, b, u, up)
    BY <1>1, <1>8, <1>11, <1>13, <1>14, <1>15, <1>16 DEF Candid, L
<1> QED
    BY <1>17 DEF t, q

\* A write that finds out late.
LEMMA RejoinTruth ==
    ASSUME DeliveryInv, Truth, Rejoin
    PROVE  NextTruth
<1> DEFINE up == link = "up" /\ ~ stale
           new == link = "up"
           t == svc'
<1>1. /\ stale /\ svc.open /\ t = SenderResend(Requeued(svc)) /\ stale' = FALSE
      /\ link' = link /\ b2c' = b2c /\ brk' = brk /\ budget' = budget
    BY DEF Rejoin
<1>2. Kinded /\ Sound(svc) /\ b2c \in Seq(Arriving)
    BY DEF DeliveryInv, Accounted, Sound, Sane, Kinded
<1>3. /\ Candid(svc, svc.wire, b2c, brk, budget, up) /\ Late(svc, b2c)
      /\ (link # "up" => b2c = <<>>)
    BY <1>1 DEF Truth, TruthOf
<1>4. up = FALSE
    BY <1>1
<1> HIDE DEF t, up
<1>5. /\ svc.wire = <<>> /\ \A i \in DOMAIN b2c : b2c[i].op \in Incoming
    BY <1>3 DEF Late
<1>6. Candid(svc, <<>>, b2c, brk, budget, FALSE)
    BY <1>3, <1>4, <1>5
<1> HIDE DEF new
<1>7. Candid(t, t.wire, b2c, brk, budget, new)
    BY <1>1, <1>2, <1>5, <1>6, ResendCandid
<1>8. new = (link' = "up" /\ ~ stale')
    BY <1>1 DEF new
<1> QED
    BY <1>1, <1>3, <1>7, <1>8 DEF NextTruth, TruthOf, t

\* A session that is not resumed: replies are awaited no more by those who acknowledge alone.
LEMMA UpdatedCandid ==
    ASSUME Kinded, NEW s, Sane(s, {}), NEW b, NEW u, NEW present,
           Candid(s, <<>>, <<>>, b, u, FALSE)
    PROVE  Candid(UpdateSession(s, present), <<>>, <<>>, b, u, FALSE)
<1> DEFINE K == Known(s, b, u)
           lasting == {i \in DOMAIN s.handlers : s.handlers[i].code # "PUBREL"}
           H == At(s.handlers, lasting)
           t == [s EXCEPT !.handlers = H, !.expired = @ \/ s.subscribed, !.subscribed = FALSE]
<1>1. UpdateSession(s, present) = IF present THEN s ELSE t
    BY DEF UpdateSession
<1>2. /\ s \in Clients /\ Good(s, K)
      /\ (u.abandons = 0 /\ s.open => Fares(s, <<>>, <<>>, b, K))
    BY DEF Sane, Candid
<1>3. s.handlers \in Seq(Hopeful(K)) /\ s.handlers \in Seq(Waiters)
    BY <1>2, ClientParts DEF Good
<1>4. H \in Seq(Hopeful(K))
    <2> HIDE DEF lasting, K
    <2> QED
        BY <1>3, CountParted
<1>5. ASSUME NEW i \in DOMAIN s.handlers, s.handlers[i].op \in Requests
      PROVE  \E j \in DOMAIN H : H[j].op = s.handlers[i].op
    <2>1. s.handlers[i] \in Waiters /\ DOMAIN s.handlers = 1 .. Len(s.handlers)
        BY <1>3, ElementOfSeq, LenProperties
    <2>2. IsWaiting(s.handlers[i])
        BY <2>1 DEF Waiters
    <2>3. s.handlers[i].code # "PUBREL"
        <3>1. s.handlers[i].op \notin Incoming
            BY <1>5, DeliveryAssumption
        <3> QED
            BY <2>2, <3>1, AwaitedIs DEF IsWaiting, Kinded
    <2>4. i \in lasting
        BY <2>3
    <2>5. \A x : x \in ToSet(H) <=> \E j \in 1 .. Len(s.handlers) : j \in lasting /\ x = s.handlers[j]
        <3> HIDE DEF lasting
        <3> QED
            BY <1>3, AtProperties
    <2> HIDE DEF lasting, H
    <2>6. s.handlers[i] \in ToSet(H)
        BY <2>1, <2>4, <2>5
    <2> QED
        BY <2>6 DEF ToSet
<1>6. /\ t.handlers = H /\ t.pid = s.pid /\ t.status = s.status /\ t.open = s.open
      /\ t.batch = s.batch /\ t.stored = s.stored /\ t.queue = s.queue /\ t.posted = s.posted
      /\ t.abandoned = s.abandoned /\ t.writing = s.writing /\ t.fast = s.fast
    BY <1>2 DEF Clients
<1> HIDE DEF t, H, K, lasting
<1>7. Good(t, K)
    <2>1. \A r : Sent(t, r) <=> Sent(s, r)
        BY <1>6 DEF Sent
    <2> QED
        BY <1>2, <1>4, <1>6, <2>1 DEF Good
<1>8. ASSUME u.abandons = 0, s.open PROVE Fares(t, <<>>, <<>>, b, K)
    <2>1. Fares(s, <<>>, <<>>, b, K)
        BY <1>2, <1>8
    <2>2. \A r \in Requests : Carries(s, r) => Carries(t, r)
        BY <1>5, <1>6 DEF Carries
    <2>3. \A r : Flying(t, <<>>, <<>>, r) = Flying(s, <<>>, <<>>, r)
        BY <1>6 DEF Flying
    <2>4. \A y : Apposite(s, y, K) => Apposite(t, y, K)
        BY <1>6 DEF Apposite
    <2>5. DOMAIN <<>> = {}
        OBVIOUS
    <2>6. Paired(t, <<>>)
        BY <2>5 DEF Paired
    <2> QED
        BY <1>6, <2>1, <2>2, <2>3, <2>4, <2>5, <2>6 DEF Fares
<1>9. Candid(t, <<>>, <<>>, b, u, FALSE)
    <2>1. t.pid = s.pid /\ t.status = s.status /\ t.open = s.open /\ t.batch = s.batch
          /\ t.stored = s.stored
        BY <1>6
    <2>2. Good(t, Known(s, b, u)) /\ (u.abandons = 0 /\ s.open => Fares(t, <<>>, <<>>, b, Known(s, b, u)))
        BY <1>7, <1>8 DEF K
    <2> QED
        BY <2>1, <2>2, CandidBut
<1> QED
    BY <1>1, <1>9

\* Messages of the broker are told to nobody's request.
LEMMA ToldCandid ==
    ASSUME NEW s, s.fast \in Seq(Replies), NEW b, NEW u, NEW up, Candid(s, <<>>, <<>>, b, u, up),
           NEW d \in Seq(Arriving), \A i \in DOMAIN d : d[i].op \in Incoming /\ Foreign(d[i])
    PROVE  Candid(s, <<>>, d, [b EXCEPT !.session = TRUE], u, up)
<1> DEFINE e == [b EXCEPT !.session = TRUE]
           K == Known(s, b, u)
<1>1. /\ b \in Brokers /\ u \in Budgets /\ <<>> \in Seq(Wires) /\ Good(s, K)
      /\ TakenOnce(b, u) /\ OnceAtMost(b, u)
      /\ (u.abandons = 0 /\ s.open => Fares(s, <<>>, <<>>, b, K))
      /\ Tailed(s, <<>>)
      /\ (~ u.cut /\ s.open => Trails(s, <<>>, b, up))
    BY DEF Candid
<1>2. e \in Brokers /\ e.taken = b.taken /\ e.open = b.open /\ e.out = b.out
    BY <1>1 DEF Brokers
<1> HIDE DEF e
<1>3. Known(s, e, u) = K /\ Has(e) = Has(b)
    BY <1>2 DEF Known, Has
<1> HIDE DEF K
<1>4. TakenOnce(e, u) /\ OnceAtMost(e, u) /\ (Trails(s, <<>>, b, up) => Trails(s, <<>>, e, up))
    BY <1>1, <1>2 DEF TakenOnce, OnceAtMost, Trails
<1>5. ASSUME u.abandons = 0, s.open PROVE Fares(s, <<>>, d, e, K)
    <2>1. Fares(s, <<>>, <<>>, b, K)
        BY <1>1, <1>5
    <2>2. ASSUME NEW r \in Requests
          PROVE  Flying(s, <<>>, d, r) = Flying(s, <<>>, <<>>, r)
        <3>1. Count(<<>>, r) = 0
            BY CountEmpty
        <3>2. Count(d, r) = 0
            <4>1. \A i \in DOMAIN d : d[i].op # r
                BY DeliveryAssumption
            <4> QED
                BY <4>1, CountTells
        <3> QED
            BY <3>1, <3>2 DEF Flying
    <2>3. \A i \in DOMAIN d : Foreign(d[i]) /\ Apposite(s, d[i], K)
        BY DeliveryAssumption DEF Apposite
    <2> QED
        BY <1>2, <1>3, <2>1, <2>2, <2>3 DEF Fares
<1>6. Candid(s, <<>>, d, e, u, up)
    BY <1>1, <1>2, <1>3, <1>4, <1>5 DEF Candid
<1> QED
    BY <1>6 DEF e

\* What the broker sends again.
LEMMA RetransmittedForeign ==
    /\ Retransmitted \in Seq(Arriving)
    /\ \A i \in DOMAIN Retransmitted : /\ Retransmitted[i].op \in Incoming
                                       /\ Foreign(Retransmitted[i])
<1> DEFINE unfinished == {m \in Incoming : brk.out[m] \in {"sent", "released"}}
           message == CHOOSE m \in unfinished : TRUE
           code == IF brk.out[message] = "sent" THEN "PUBLISH" ELSE "PUBREL"
           x == [op |-> message, pid |-> 1, result |-> "ok", code |-> code]
<1>1. Retransmitted = IF unfinished = {} THEN <<>> ELSE <<x>>
    BY Zenon DEF Retransmitted
<1>2. CASE unfinished = {}
    BY <1>1, <1>2, RetransmittedArriving
<1>3. CASE unfinished # {}
    <2>1. message \in Incoming
        BY <1>3
    <2> HIDE DEF message
    <2>2. code \in {"PUBLISH", "PUBREL"}
        OBVIOUS
    <2> HIDE DEF code, unfinished
    <2>3. x.op \in Incoming /\ Foreign(x)
        BY <2>1, <2>2 DEF Foreign
    <2> HIDE DEF x
    <2>4. Retransmitted = <<x>>
        BY <1>1, <1>3
    <2> QED
        BY <2>3, <2>4, RetransmittedArriving
<1> QED
    BY <1>2, <1>3

\* A connection is made.
LEMMA ReconnectTruth ==
    ASSUME DeliveryInv, Truth, Reconnect
    PROVE  NextTruth
<1>1. PICK maximum \in ReceiveMaximums :
          LET s == UpdateSession([svc EXCEPT !.maximum = maximum, !.wire = <<>>,
                                             !.shut = FALSE],
                                 brk.session)
          IN  \/ svc' = SenderResend(Requeued(s)) /\ stale' = stale
              \/ svc.writing /\ svc' = s /\ stale' = TRUE
    BY DEF Reconnect
<1> DEFINE t == [svc EXCEPT !.wire = <<>>, !.maximum = maximum, !.shut = FALSE]
           s == UpdateSession(t, brk.session)
           d == Retransmitted
           e == [brk EXCEPT !.session = TRUE]
           up == link = "up" /\ ~ stale
<1>2. /\ link = "down" /\ ~ stale /\ link' = "up" /\ b2c' = d /\ brk' = e /\ budget' = budget
    BY DEF Reconnect
<1>3. /\ svc \in Clients /\ Kinded /\ Sound(svc) /\ Sane(svc, {}) /\ b2c \in Seq(Arriving)
    BY DEF DeliveryInv, Accounted, Sound, Sane, Kinded
<1>4. t = [svc EXCEPT !.maximum = maximum, !.wire = <<>>, !.shut = FALSE]
    BY <1>3 DEF Clients
<1>5. \/ svc' = SenderResend(Requeued(s)) /\ stale' = stale
      \/ svc.writing /\ svc' = s /\ stale' = TRUE
    BY <1>1, <1>4
<1>6. up = FALSE
    BY <1>2
<1>7. Candid(svc, svc.wire, b2c, brk, budget, FALSE)
    <2>1. Candid(svc, svc.wire, b2c, brk, budget, up)
        BY DEF Truth, TruthOf
    <2> QED
        BY <1>6, <2>1
<1>8. Candid(svc, <<>>, <<>>, brk, budget, FALSE)
    <2>1. Arrived(svc, svc.wire, FALSE) = {}
        BY DEF Arrived
    <2>2. budget \in Budgets
        BY <1>7 DEF Candid
    <2> QED
        BY <1>3, <1>7, <2>1, <2>2, CandidDropped
<1>9. Candid(t, <<>>, <<>>, brk, budget, FALSE)
    <2>1. \A v, c, b, u, y : Candid(svc, v, c, b, u, y) <=> Candid(t, v, c, b, u, y)
        BY <1>3, CandidWire
    <2> QED
        BY <1>8, <2>1
<1>10. Sound(t) /\ t.writing = svc.writing /\ t.wire = <<>>
    <2>1. <<>> \in Seq([op : Anyone, code : PacketCodes, pid : Nat]) /\ maximum \in 1 .. Unlimited
        BY EmptySeq, DeliveryAssumption
    <2>2. t.wire = <<>>
        BY <1>3 DEF Clients
    <2> HIDE DEF t
    <2> QED
        BY <1>3, <1>4, <2>1, <2>2, WireSound
<1> HIDE DEF t
<1>11. Sound(s) /\ s.writing = svc.writing
    BY <1>10, UpdateSessionSound
<1>12. s.wire = <<>> /\ s.fast \in Seq(Replies)
    <2>1. t \in Clients
        BY <1>10 DEF Sound, Sane
    <2>2. s.wire = t.wire /\ s.fast = t.fast
        BY <2>1 DEF UpdateSession, Clients
    <2> QED
        BY <1>10, <2>1, <2>2, ClientParts
<1>13. Candid(s, <<>>, <<>>, brk, budget, FALSE)
    <2>1. Sane(t, {})
        BY <1>10 DEF Sound
    <2> QED
        BY <1>3, <1>9, <2>1, UpdatedCandid
<1> HIDE DEF s, up
<1>14. /\ d \in Seq(Arriving) /\ \A i \in DOMAIN d : d[i].op \in Incoming /\ Foreign(d[i])
    BY RetransmittedForeign
<1> HIDE DEF d
<1>15. Candid(s, <<>>, d, e, budget, FALSE)
    BY <1>12, <1>13, <1>14, ToldCandid
<1> HIDE DEF e
<1>16. CASE svc' = SenderResend(Requeued(s)) /\ stale' = stale
    <2> DEFINE y == SenderResend(Requeued(s))
    <2>1. Candid(y, y.wire, d, e, budget, TRUE)
        <3>1. LET z == SenderResend(Requeued(s)) IN Candid(z, z.wire, d, e, budget, TRUE)
            BY <1>3, <1>11, <1>12, <1>14, <1>15, ResendCandid
        <3> QED
            BY <3>1
    <2> HIDE DEF y
    <2>2. (link' = "up" /\ ~ stale') = TRUE
        BY <1>2, <1>16
    <2>3. Candid(svc', svc'.wire, b2c', brk', budget', (link' = "up" /\ ~ stale'))
        BY <1>2, <1>16, <2>1, <2>2 DEF y
    <2> QED
        BY <1>2, <1>16, <2>3 DEF NextTruth, TruthOf
<1>17. CASE svc.writing /\ svc' = s /\ stale' = TRUE
    <2>1. (link' = "up" /\ ~ stale') = FALSE
        BY <1>17
    <2>2. Candid(svc', svc'.wire, b2c', brk', budget', (link' = "up" /\ ~ stale'))
        BY <1>2, <1>12, <1>15, <1>17, <2>1
    <2>3. Late(svc', b2c')
        BY <1>2, <1>11, <1>12, <1>14, <1>17 DEF Late
    <2> QED
        BY <1>2, <2>2, <2>3 DEF NextTruth, TruthOf
<1> QED
    BY <1>5, <1>16, <1>17

-----------------------------------------------------------------------------
(* The steps together *)

\* Every step keeps what is known.
LEMMA StepTruth ==
    ASSUME DeliveryInv, Truth, DeliveryNext
    PROVE  NextTruth
<1>1. CASE WriteDone
    BY <1>1, WriteDoneTruth
<1>2. CASE WriteAborted
    BY <1>2, WriteAbortedTruth
<1>3. CASE RunPosted
    BY <1>3, RunPostedTruth
<1>4. CASE Cancel
    BY <1>4, CancelTruth
<1>5. CASE Reconnect
    BY <1>5, ReconnectTruth
<1>6. CASE Rejoin
    BY <1>6, RejoinTruth
<1>7. CASE Sentry
    BY <1>7, SentryTruth
<1>8. CASE BrokerTakes
    BY <1>8, BrokerTakesTruth
<1>9. CASE Read
    BY <1>9, ReadTruth
<1>10. CASE Break
    BY <1>10, BreakTruth
<1>11. CASE LoseSession
    BY <1>11, LoseSessionTruth
<1>12. CASE \E r \in Requests : Begin(r)
    BY <1>12, BeginTruth
<1>13. CASE \E r \in Requests : Abandon(r)
    BY <1>13, AbandonTruth
<1>14. CASE \E m \in Incoming : BrokerSends(m)
    BY <1>14, BrokerSendsTruth
<1> QED
    BY <1>1, <1>2, <1>3, <1>4, <1>5, <1>6, <1>7, <1>8, <1>9, <1>10, <1>11, <1>12, <1>13, <1>14
    DEF DeliveryNext

\* The kinds and the levels do not change.
LEMMA TruthNext ==
    ASSUME NextTruth, kind' = kind, level' = level
    PROVE  Truth'
<1> DEFINE up == link' = "up" /\ ~ stale'
           K == Known(svc', brk', budget')
<1>1. /\ WriteReqs' = WriteReqs /\ Waiters' = Waiters /\ Posts' = Posts /\ Wires' = Wires
    <2>1. WriteReqs' = WriteReqs /\ Wires' = Wires
        BY DEF WriteReqs, IsWrite, BeginsWith, Wires
    <2>2. Waiters' = Waiters /\ Posts' = Posts
        BY DEF Waiters, Posts, IsWaiting, Awaited
    <2> QED
        BY <2>1, <2>2
<1>2. Known(svc, brk, budget)' = K
    BY DEF Known, Sent
<1> HIDE DEF K
<1>3. Good(svc, Known(svc, brk, budget))' <=> Good(svc', K)
    <2>1. /\ Unsent(Known(svc, brk, budget))' = Unsent(K)
          /\ Writable(Known(svc, brk, budget))' = Writable(K)
          /\ Hopeful(Known(svc, brk, budget))' = Hopeful(K)
          /\ Tellable(Known(svc, brk, budget))' = Tellable(K)
        BY <1>1, <1>2 DEF Unsent, Writable, Hopeful, Tellable, Proper, Truthful, Second
    <2> QED
        BY <1>2, <2>1 DEF Good, Sent
<1>4. Fares(svc, svc.wire, b2c, brk, Known(svc, brk, budget))' <=> Fares(svc', svc'.wire, b2c', brk', K)
    BY <1>2 DEF Fares, Flying, Carries, Paired, Foreign, Apposite, Proper, Second, Has
<1>5. TakenOnce(brk, budget)' <=> TakenOnce(brk', budget')
    BY DEF TakenOnce
<1>6. OnceAtMost(brk, budget)' <=> OnceAtMost(brk', budget')
    BY DEF OnceAtMost
<1>7. Trails(svc, svc.wire, brk, link = "up" /\ ~ stale)' <=> Trails(svc', svc'.wire, brk', up)
    BY DEF Trails, Arrived, Older, Once, Ack, Sent
<1>8. Tailed(svc, svc.wire)' <=> Tailed(svc', svc'.wire)
    BY DEF Tailed, Older, Packet
<1>9. Candid(svc', svc'.wire, b2c', brk', budget', up)
      /\ (stale' /\ svc'.open => Late(svc', b2c')) /\ (link' # "up" => b2c' = <<>>)
    BY DEF NextTruth, TruthOf
<1>10. Candid(svc, svc.wire, b2c, brk, budget, link = "up" /\ ~ stale)'
    BY <1>1, <1>2, <1>3, <1>4, <1>5, <1>6, <1>7, <1>8, <1>9 DEF Candid, Brokers, Budgets, K
<1> QED
    BY <1>9, <1>10 DEF Truth, TruthOf, Late

\* It is so at the start.
LEMMA StartsTrue == DeliveryInit => Truth
<1> SUFFICES ASSUME DeliveryInit PROVE Truth
    OBVIOUS
<1> DEFINE K == Known(svc, brk, budget)
<1>1. PICK serial \in Serials : svc = [Client EXCEPT !.last = serial]
    BY DEF DeliveryInit
<1>2. /\ link = "down" /\ ~ stale /\ b2c = <<>> /\ brk = NewBroker
      /\ budget = [breaks |-> 0, losses |-> 0, abandons |-> 0, cancels |-> 0, cut |-> FALSE]
    BY DEF DeliveryInit
<1>3. /\ svc.queue = <<>> /\ svc.batch = <<>> /\ svc.handlers = <<>> /\ svc.posted = <<>>
      /\ svc.wire = <<>> /\ svc.writing = FALSE /\ svc.fast = <<>>
      /\ \A r \in Requests : svc.status[r] = "idle"
    BY <1>1 DEF Client
<1>4. /\ brk \in Brokers /\ budget \in Budgets /\ brk.open = {} /\ Has(brk) = {}
      /\ (\A r \in Requests : brk.taken[r] = 0) /\ (\A m \in Incoming : brk.out[m] = "new")
    <2>1. <<>> \in Seq(Requests)
        BY EmptySeq
    <2> QED
        BY <1>2, <2>1 DEF NewBroker, Brokers, Budgets, Has
<1>5. K.sure = {} /\ K.late = {} /\ K.held = {} /\ K.spent = {}
    BY <1>2, <1>4 DEF Known
<1> HIDE DEF K
<1>6. \A S : <<>> \in Seq(S)
    BY EmptySeq
<1>7. DOMAIN <<>> = {}
    OBVIOUS
<1>8. Good(svc, K)
    <2>1. \A r \in Requests : svc.status[r] # "done"
        BY <1>3
    <2> QED
        BY <1>3, <1>5, <1>6, <2>1 DEF Good
<1>9. Fares(svc, <<>>, <<>>, brk, K)
    <2>1. \A r : Flying(svc, <<>>, <<>>, r) = 0
        <3>1. \A r : Count(<<>>, r) = 0
            BY CountEmpty
        <3> QED
            BY <1>3, <3>1 DEF Flying
    <2> QED
        BY <1>3, <1>4, <1>5, <1>7, <2>1 DEF Fares, Paired
<1>10. TakenOnce(brk, budget) /\ OnceAtMost(brk, budget) /\ Tailed(svc, <<>>)
    BY <1>3, <1>4, <1>7 DEF TakenOnce, OnceAtMost, Tailed
<1>11. \A up : Trails(svc, <<>>, brk, up)
    BY <1>3, <1>4, <1>7 DEF Trails
<1>12. Candid(svc, svc.wire, b2c, brk, budget, link = "up" /\ ~ stale)
    BY <1>2, <1>3, <1>4, <1>6, <1>8, <1>9, <1>10, <1>11 DEF Candid, K
<1> QED
    BY <1>2, <1>12 DEF Truth, TruthOf

\* What is known of the requests, of what is on its way and of what the broker took, is so in
\* every state.
THEOREM DeliveryTruth == DeliverySpec => []Truth
<1>1. DeliveryInit => Truth
    BY StartsTrue
<1>2. DeliveryInv /\ Truth /\ [DeliveryNext]_deliveryVars => Truth'
    <2> SUFFICES ASSUME DeliveryInv, Truth, [DeliveryNext]_deliveryVars PROVE Truth'
        OBVIOUS
    <2>1. NextTruth /\ kind' = kind /\ level' = level
        <3>1. CASE DeliveryNext
            BY <3>1, StepAccounts, StepTruth DEF Accounts
        <3>2. CASE UNCHANGED deliveryVars
            BY <3>2 DEF deliveryVars, Truth, NextTruth
        <3> QED
            BY <3>1, <3>2
    <2> QED
        BY <2>1, TruthNext
<1> QED
    BY <1>1, <1>2, DeliveryInvariant, PTL DEF DeliverySpec

\* The invariant has what is promised.
LEMMA TruthTells == DeliveryInv /\ Truth => DeliveredAsPromised
<1> SUFFICES ASSUME DeliveryInv, Truth PROVE DeliveredAsPromised
    OBVIOUS
<1> DEFINE K == Known(svc, brk, budget)
           up == link = "up" /\ ~ stale
<1>1. /\ brk \in Brokers /\ svc.wire \in Seq(Wires) /\ Good(svc, K)
      /\ TakenOnce(brk, budget) /\ OnceAtMost(brk, budget)
      /\ (~ budget.cut /\ svc.open => Trails(svc, svc.wire, brk, up))
    BY DEF Truth, TruthOf, Candid
<1>2. ASSUME budget.abandons = 0 PROVE SuccessMeansTaken
    <2>1. SUFFICES ASSUME NEW r \in Requests, svc.status[r] = "done", kind[r] # "qos0"
                   PROVE  /\ brk.taken[r] >= 1
                          /\ kind[r] = "qos2" /\ budget.losses = 0 => brk.taken[r] = 1
        BY DEF SuccessMeansTaken
    <2>2. r \in K.sure
        BY <1>1, <2>1 DEF Good
    <2>3. brk.taken[r] # 0 /\ brk.taken[r] \in Nat
        BY <1>1, <1>2, <2>1, <2>2 DEF Known, Has, Brokers
    <2>4. kind[r] = "qos2" /\ budget.losses = 0 => brk.taken[r] <= 1
        BY <1>1, <1>2 DEF TakenOnce
    <2> QED
        BY <2>3, <2>4
<1>3. AtMostOnce
    BY <1>1 DEF OnceAtMost, AtMostOnce, QosZeroOnce
<1>4. AcknowledgedArrives
    BY <1>1 DEF Trails, Arrived, AcknowledgedArrives, AcknowledgedComes
<1> QED
    BY <1>2, <1>3, <1>4 DEF DeliveredAsPromised, TakenUnlessAbandoned

\* What is reported as delivered was taken by the broker, once at QoS 2 while it keeps the
\* session, if no request is cancelled; and as long as no write is cut short after part of
\* it has arrived, a publication of QoS 0 is not taken twice and a message that the broker
\* sees acknowledged comes to the program: through any number of lost connections and
\* sessions (publish_send_op, publish_rec_op, replies, async_sender::resend).  Without
\* those conditions both can fail, see QosZeroOnce and AcknowledgedComes.
THEOREM PromisesAreKept == DeliverySpec => []DeliveredAsPromised
BY DeliveryInvariant, DeliveryTruth, TruthTells, PTL
=============================================================================
