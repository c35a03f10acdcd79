---------------------------- MODULE DeliveryProofs ----------------------------
(***************************************************************************)
(* Every request under way is accounted for: for any requests, messages,    *)
(* brokers and limits, any number of lost connections and sessions, and     *)
(* whatever is cancelled and when.                                          *)
(*                                                                         *)
(* The functions of the code that map one client to the next are taken one  *)
(* by one.  Most of them run inside loops (over what was written, what      *)
(* awaits a reply, what is queued), so the invariant of the client has a    *)
(* parameter: the requests that the loop has still to handle, which are in  *)
(* no list.  At the end of a step there are none.                           *)
(***************************************************************************)
EXTENDS Delivery, SequenceLemmas, FiniteSetTheorems, TLAPS

-----------------------------------------------------------------------------
(* What the lists of the client hold *)

Statuses == {"idle", "sent", "done", "failed", "aborted"}
PacketCodes == {"PUBLISH", "SUBSCRIBE", "UNSUBSCRIBE", "PUBREL", "PUBACK", "PUBREC", "PUBCOMP",
                "DISCONNECT"}
ReplyCodes == {"PUBACK", "PUBREC", "PUBREL", "PUBCOMP", "SUBACK", "UNSUBACK"}
Anyone == Requests \cup Incoming \cup {Nobody}

\* The packet of a request: the one it begins with, or the second one of a publication
\* of QoS 2.
BeginsWith(r) == IF kind[r] = "subscribe" THEN "SUBSCRIBE"
                 ELSE IF kind[r] = "unsubscribe" THEN "UNSUBSCRIBE" ELSE "PUBLISH"
IsWrite(x) ==
    \/ /\ x.op \in Requests
       /\ x.code = BeginsWith(x.op) \/ (x.code = "PUBREL" /\ kind[x.op] = "qos2")
       /\ x.throttled => kind[x.op] \in {"qos1", "qos2"}
    \/ x.op \in Incoming /\ x.code \in {"PUBACK", "PUBREC", "PUBCOMP"} /\ ~ x.throttled
    \/ x.op = Nobody /\ x.code = "DISCONNECT" /\ ~ x.throttled
WriteReqs == {x \in [op : Anyone, code : PacketCodes, pid : Nat, serial : Nat, throttled :
   BOOLEAN] :
                 IsWrite(x)}

\* Who awaits which reply.
IsWaiting(h) ==
    \/ /\ h.op \in Requests /\ kind[h.op] # "qos0"
       /\ h.code = Awaited(h.op) \/ (h.code = "PUBCOMP" /\ kind[h.op] = "qos2")
    \/ h.op \in Incoming /\ h.code = "PUBREL"
Waiters == {h \in [op : Anyone, code : ReplyCodes, pid : Nat, result : {"none"}] : IsWaiting(h)}
Posts == {h \in [op : Anyone, code : ReplyCodes \cup PacketCodes, pid : Nat,
                 result : {"ok", "refused", "aborted"}] : h.result = "aborted" \/ IsWaiting(h)}
Replies == [op : Anyone, code : ReplyCodes, pid : Nat, result : {"ok", "refused"}]
Arriving == {p \in [op : Anyone, code : ReplyCodes \cup {"PUBLISH"}, pid : Nat, result :
   {"ok", "refused"}] :
                p.code = "PUBLISH" => p.op \in Incoming}

Clients ==
    [ queue : Seq(WriteReqs), batch : Seq(WriteReqs), writing : BOOLEAN,
      wire : Seq([op : Anyone, code : PacketCodes, pid : Nat]),
      maximum : 1 .. Unlimited, limit : 1 .. Unlimited, quota : Int,
      handlers : Seq(Waiters), fast : Seq(Replies), posted : Seq(Posts),
      free : SUBSET (1 .. PacketIdsMax), last : 0 .. SerialMod - 1,
      status : [Requests -> Statuses], pid : [Requests -> 0 .. PacketIdsMax],
      serial : [Requests -> 0 .. SerialMod - 1], abandoned : SUBSET Requests,
      stored : [Incoming -> Nat], subscribed : BOOLEAN, expired : BOOLEAN,
      open : BOOLEAN, shut : BOOLEAN ]

-----------------------------------------------------------------------------
(* The invariant *)

Sent(s, r) == s.status[r] = "sent"
Numbered(s, r) == Sent(s, r) /\ kind[r] # "qos0"

\* Packet identifiers are free or of one request.
Ids(s) ==
    /\ \A r \in Requests : s.pid[r] \in IF Numbered(s, r) THEN 1 .. PacketIdsMax ELSE {0}
    /\ \A r \in Requests : s.pid[r] \notin s.free
    /\ \A r, q \in Requests : Numbered(s, r) /\ Numbered(s, q) /\ s.pid[r] = s.pid[q] => r = q
    /\ \A p \in 1 .. PacketIdsMax : p \in s.free \/ \E r \in Requests : s.pid[r] = p

\* Each request that is sent is in one place, but for those that a loop is about to handle.
Held(s, r) == Count(s.queue, r) + Count(s.batch, r) + Count(s.handlers, r) + Count(s.posted, r)
Placed(s, D) == \A r \in Requests : Held(s, r) = IF Sent(s, r) /\ r \notin D THEN 1 ELSE 0

\* What is in a list has its request's identifier, and who is aborted, or is about to be,
\* was to be.
Fitting(s, T) == {x \in T : x.op \in Requests => x.pid = s.pid[x.op]}
MayAbort(s, r) == ~ s.open \/ r \in s.abandoned
PostsOf(s) == {h \in Fitting(s, Posts) : h.result = "aborted"
   /\ h.op \in Requests => MayAbort(s, h.op)}
Matching(s) ==
    /\ s.queue \in Seq(Fitting(s, WriteReqs)) /\ s.batch \in Seq(Fitting(s, WriteReqs))
    /\ s.handlers \in Seq(Fitting(s, Waiters)) /\ s.posted \in Seq(PostsOf(s))
Excused(s) == \A r \in Requests : s.status[r] = "aborted" => MayAbort(s, r)

\* The client, while a loop has still to handle the requests in D.
Sane(s, D) ==
    /\ kind \in [Requests -> {"qos0", "qos1", "qos2", "subscribe", "unsubscribe"}]
    /\ s \in Clients /\ D \subseteq Requests /\ \A r \in D : Sent(s, r)
    /\ ~ s.writing => s.batch = <<>>
    /\ Ids(s) /\ Placed(s, D) /\ Matching(s) /\ Excused(s)

Steady(s) == s.writing => s.batch # <<>>

-----------------------------------------------------------------------------
(* How often a request is in a list *)

Mine(list, r) == {i \in DOMAIN list : list[i].op = r}

\* The places of a request in a list are finitely many, and Count is their number.
LEMMA MineIsFinite ==
    ASSUME NEW T, NEW l \in Seq(T), NEW r
    PROVE  /\ Len(l) \in Nat /\ DOMAIN l = 1 .. Len(l)
           /\ Mine(l, r) \subseteq 1 .. Len(l) /\ IsFiniteSet(Mine(l, r))
           /\ Count(l, r) = Cardinality(Mine(l, r)) /\ Count(l, r) \in Nat
<1>1. Len(l) \in Nat /\ DOMAIN l = 1 .. Len(l)
    BY LenProperties
<1>2. Mine(l, r) \subseteq 1 .. Len(l)
    BY <1>1 DEF Mine
<1>3. IsFiniteSet(Mine(l, r))
    <2>1. IsFiniteSet(1 .. Len(l))
        BY <1>1, FS_Interval
    <2> QED
        BY <1>2, <2>1, FS_Subset
<1>4. Count(l, r) = Cardinality(Mine(l, r))
    BY DEF Count, Mine
<1> QED
    BY <1>1, <1>2, <1>3, <1>4, FS_CardinalityType

\* A list without r has it no times; one that has it once has it in one place.
LEMMA CountTells ==
    ASSUME NEW T, NEW l \in Seq(T), NEW r
    PROVE  /\ Count(l, r) \in Nat
           /\ Count(l, r) = 0 <=> \A i \in DOMAIN l : l[i].op # r
           /\ Count(l, r) = 1 => \A i, j \in DOMAIN l : l[i].op = r /\ l[j].op = r => i = j
<1>1. /\ IsFiniteSet(Mine(l, r)) /\ Count(l, r) = Cardinality(Mine(l, r)) /\ Count(l, r) \in Nat
    BY MineIsFinite
<1>2. Count(l, r) = 0 <=> Mine(l, r) = {}
    BY <1>1, FS_EmptySet
<1>3. Count(l, r) = 1 => \E x : Mine(l, r) = {x}
    BY <1>1, FS_Singleton
<1> QED
    BY <1>1, <1>2, <1>3 DEF Mine

\* Nobody is in the empty list.
LEMMA CountEmpty == \A r : Count(<<>>, r) = 0
<1> TAKE r
<1>1. <<>> \in Seq({}) /\ DOMAIN <<>> = {}
    BY EmptySeq
<1> QED
    BY <1>1, FS_EmptySet DEF Count

\* Lists of the same members, as far as they are whose.
LEMMA CountSame ==
    ASSUME NEW a, NEW b, NEW r, DOMAIN a = DOMAIN b, \A i \in DOMAIN a : a[i].op = b[i].op
    PROVE  Count(a, r) = Count(b, r)
<1>1. {i \in DOMAIN a : a[i].op = r} = {i \in DOMAIN b : b[i].op = r}
    OBVIOUS
<1> QED
    BY <1>1 DEF Count

\* Two lists one after the other hold what both hold.
LEMMA CountConcat ==
    ASSUME NEW T, NEW a \in Seq(T), NEW b \in Seq(T), NEW r
    PROVE  Count(a \o b, r) = Count(a, r) + Count(b, r)
<1> DEFINE m == Len(a)
           n == Len(b)
           c == a \o b
           A == Mine(a, r)
           B == Mine(b, r)
           S == {m + j : j \in B}
           f == [j \in B |-> m + j]
<1>1. /\ m \in Nat /\ n \in Nat /\ c \in Seq(T) /\ DOMAIN c = 1 .. m + n
      /\ \A i \in 1 .. m + n : c[i] = IF i <= m THEN a[i] ELSE b[i - m]
    <2>1. c \in Seq(T) /\ Len(c) = m + n
        BY ConcatProperties
    <2>2. \A i \in 1 .. m + n : c[i] = IF i <= m THEN a[i] ELSE b[i - m]
        BY ConcatProperties
    <2> QED
        BY <2>1, <2>2, LenProperties
<1>2. /\ A \subseteq 1 .. m /\ IsFiniteSet(A) /\ Count(a, r) = Cardinality(A) /\ Count(a, r) \in Nat
      /\ B \subseteq 1 .. n /\ IsFiniteSet(B) /\ Count(b, r) = Cardinality(B) /\ Count(b, r) \in Nat
      /\ DOMAIN a = 1 .. m /\ DOMAIN b = 1 .. n
    BY MineIsFinite
<1>3. IsFiniteSet(S) /\ Cardinality(S) = Cardinality(B)
    <2>1. f \in [B -> S] /\ \A x, y \in B : f[x] = f[y] => x = y
        BY <1>1, <1>2
    <2>2. \A y \in S : \E x \in B : f[x] = y
        OBVIOUS
    <2>3. f \in Bijection(B, S)
        BY <2>1, <2>2 DEF Bijection, Injection, Surjection, IsInjective
    <2> QED
        BY <1>2, <2>3, FS_Bijection DEF ExistsBijection
<1>4. Mine(c, r) = A \cup S /\ A \cap S = {}
    <2>1. ASSUME NEW i \in 1 .. m + n
          PROVE  c[i].op = r <=> i \in A \cup S
        <3>1. CASE i <= m
            <4>1. c[i] = a[i] /\ i \in 1 .. m /\ i \notin S
                BY <1>1, <1>2, <3>1
            <4> QED
                BY <1>2, <4>1 DEF Mine
        <3>2. CASE ~ (i <= m)
            <4>1. c[i] = b[i - m] /\ i - m \in 1 .. n /\ i \notin A
                BY <1>1, <1>2, <3>2
            <4>2. i \in S <=> i - m \in B
                BY <1>1, <1>2
            <4> QED
                BY <1>2, <4>1, <4>2 DEF Mine
        <3> QED
            BY <3>1, <3>2
    <2>2. A \cup S \subseteq 1 .. m + n /\ A \cap S = {}
        BY <1>1, <1>2
    <2>3. Mine(c, r) = {i \in 1 .. m + n : c[i].op = r}
        BY <1>1 DEF Mine
    <2> HIDE DEF A, S, c
    <2> QED
        BY <2>1, <2>2, <2>3
<1>5. Count(c, r) = Cardinality(Mine(c, r))
    BY <1>1, MineIsFinite
<1> HIDE DEF A, B, S, c
<1>6. Cardinality(A \cup S) = Cardinality(A) + Cardinality(S) - Cardinality(A \cap S)
    BY <1>2, <1>3, FS_Union
<1>7. Cardinality(A \cap S) = 0
    BY <1>4, FS_EmptySet
<1>8. Cardinality(A \cup S) = Cardinality(A) + Cardinality(B)
    BY <1>2, <1>3, <1>6, <1>7
<1>9. Count(c, r) = Count(a, r) + Count(b, r)
    BY <1>2, <1>4, <1>5, <1>8
<1> QED
    BY <1>9 DEF c

\* A list that gains a member.
LEMMA CountAppend ==
    ASSUME NEW T, NEW l \in Seq(T), NEW x \in T, NEW r
    PROVE  Count(Append(l, x), r) = Count(l, r) + IF x.op = r THEN 1 ELSE 0
<1> DEFINE n == Len(l)
           c == Append(l, x)
<1>1. /\ n \in Nat /\ DOMAIN l = 1 .. n /\ Mine(l, r) \subseteq 1 .. n /\ IsFiniteSet(Mine(l, r))
      /\ Count(l, r) = Cardinality(Mine(l, r)) /\ Count(l, r) \in Nat
    BY MineIsFinite
<1>2. c \in Seq(T) /\ Len(c) = n + 1 /\ (\A i \in 1 .. n : c[i] = l[i]) /\ c[n + 1] = x
    BY AppendProperties
<1>3. DOMAIN c = 1 .. n + 1 /\ Count(c, r) = Cardinality(Mine(c, r))
    BY <1>2, LenProperties, MineIsFinite
<1>4. Mine(c, r) = IF x.op = r THEN Mine(l, r) \cup {n + 1} ELSE Mine(l, r)
    <2> HIDE DEF c, n
    <2>1. \A i \in 1 .. n + 1 : i \in 1 .. n \/ i = n + 1
        BY <1>1
    <2> QED
        BY <1>1, <1>2, <1>3, <2>1 DEF Mine
<1>5. n + 1 \notin Mine(l, r)
    BY <1>1
<1>6. Cardinality(Mine(l, r) \cup {n + 1}) = Cardinality(Mine(l, r)) + 1
    BY <1>1, <1>5, FS_AddElement
<1> QED
    BY <1>1, <1>3, <1>4, <1>6

\* A list whose members are of a set.
LEMMA MembersOf ==
    ASSUME NEW T, NEW l \in Seq(T), NEW U, \A i \in DOMAIN l : l[i] \in U
    PROVE  l \in Seq(U)
<1>1. Len(l) \in Nat /\ DOMAIN l = 1 .. Len(l)
    BY LenProperties
<1>2. SubSeq(l, 1, Len(l)) \in Seq(U)
    BY <1>1, SubSeqProperties
<1> QED
    BY <1>2, SubSeqFull

\* A list of one.
LEMMA CountOne ==
    ASSUME NEW T, NEW x \in T, NEW r
    PROVE  <<x>> \in Seq(T) /\ Count(<<x>>, r) = IF x.op = r THEN 1 ELSE 0
<1>1. <<>> \in Seq(T)
    BY EmptySeq
<1>2. Append(<<>>, x) = <<x>> /\ Append(<<>>, x) \in Seq(T)
    BY <1>1, AppendProperties
<1>3. Count(Append(<<>>, x), r) = Count(<<>>, r) + IF x.op = r THEN 1 ELSE 0
    BY <1>1, CountAppend
<1>4. Count(<<>>, r) = 0
    BY CountEmpty
<1>5. Count(Append(<<>>, x), r) = IF x.op = r THEN 1 ELSE 0
    BY <1>3, <1>4
<1> QED
    BY <1>2, <1>5

\* A list cut in two.
LEMMA CountCut ==
    ASSUME NEW T, NEW l \in Seq(T), NEW k \in 0 .. Len(l), NEW r
    PROVE  /\ SubSeq(l, 1, k) \in Seq(T) /\ SubSeq(l, k + 1, Len(l)) \in Seq(T)
           /\ Count(l, r) = Count(SubSeq(l, 1, k), r) + Count(SubSeq(l, k + 1, Len(l)), r)
<1> DEFINE a == SubSeq(l, 1, k)
           b == SubSeq(l, k + 1, Len(l))
<1>1. Len(l) \in Nat /\ \A i \in 1 .. Len(l) : l[i] \in T
    BY LenProperties, ElementOfSeq
<1>2. a \in Seq(T)
    BY <1>1, SubSeqProperties
<1>3. b \in Seq(T)
    BY <1>1, SubSeqProperties
<1>4. a \o b = l
    <2>1. 1 \in 1 .. Len(l) + 1 /\ k \in 1 - 1 .. Len(l) /\ Len(l) \in k .. Len(l)
        BY <1>1
    <2>2. a \o b = SubSeq(l, 1, Len(l))
        BY <2>1, ConcatAdjacentSubSeq
    <2> QED
        BY <2>2, SubSeqFull
<1> HIDE DEF a, b
<1>5. Count(l, r) = Count(a, r) + Count(b, r)
    BY <1>2, <1>3, <1>4, CountConcat
<1> QED
    BY <1>2, <1>3, <1>5 DEF a, b

\* A list that loses one.
LEMMA CountRemove ==
    ASSUME NEW T, NEW l \in Seq(T), NEW i \in 1 .. Len(l), NEW r
    PROVE  /\ RemoveAt(l, i) \in Seq(T) /\ l[i] \in T
           /\ Count(l, r) = Count(RemoveAt(l, i), r) + IF l[i].op = r THEN 1 ELSE 0
<1> DEFINE a == SubSeq(l, 1, i - 1)
           b == SubSeq(l, i, Len(l))
           c == SubSeq(l, i + 1, Len(l))
           x == l[i]
<1>1. Len(l) \in Nat /\ i - 1 \in 0 .. Len(l) /\ i \in 0 .. Len(l) /\ (i - 1) + 1 = i /\ x \in T
    BY LenProperties, ElementOfSeq
<1>2. a \in Seq(T) /\ b \in Seq(T) /\ c \in Seq(T)
    BY <1>1, CountCut
<1>3. Count(l, r) = Count(a, r) + Count(b, r)
    BY <1>1, CountCut
<1>4. b = <<x>> \o c
    <2>1. Len(l) \in i .. Len(l)
        BY <1>1
    <2> QED
        BY <2>1, SubSeqRecursiveFirst
<1>5. RemoveAt(l, i) = a \o c
    BY DEF RemoveAt
<1> HIDE DEF a, b, c, x
<1>6. Count(b, r) = Count(<<x>>, r) + Count(c, r) /\ Count(<<x>>, r) = IF x.op = r THEN 1 ELSE 0
    <2>1. <<x>> \in Seq(T) /\ Count(<<x>>, r) = IF x.op = r THEN 1 ELSE 0
        BY <1>1, CountOne
    <2>2. Count(<<x>> \o c, r) = Count(<<x>>, r) + Count(c, r)
        BY <1>2, <2>1, CountConcat
    <2> QED
        BY <1>4, <2>1, <2>2
<1>7. Count(RemoveAt(l, i), r) = Count(a, r) + Count(c, r) /\ RemoveAt(l, i) \in Seq(T)
    BY <1>2, <1>5, CountConcat, ConcatProperties
<1>8. Count(a, r) \in Nat /\ Count(c, r) \in Nat
    BY <1>2, MineIsFinite
<1>9. Count(l, r) = Count(RemoveAt(l, i), r) + IF x.op = r THEN 1 ELSE 0
    BY <1>3, <1>6, <1>7, <1>8
<1> QED
    BY <1>1, <1>7, <1>9 DEF x

\* A list that gains one somewhere.
LEMMA CountInsert ==
    ASSUME NEW T, NEW l \in Seq(T), NEW i \in 1 .. Len(l) + 1, NEW x \in T, NEW r
    PROVE  /\ InsertAt(l, i, x) \in Seq(T)
           /\ Count(InsertAt(l, i, x), r) = Count(l, r) + IF x.op = r THEN 1 ELSE 0
<1> DEFINE a == SubSeq(l, 1, i - 1)
           b == SubSeq(l, i, Len(l))
<1>1. Len(l) \in Nat /\ i - 1 \in 0 .. Len(l) /\ (i - 1) + 1 = i
    BY LenProperties
<1>2. a \in Seq(T) /\ b \in Seq(T) /\ Count(l, r) = Count(a, r) + Count(b, r)
    BY <1>1, CountCut
<1>3. InsertAt(l, i, x) = (a \o <<x>>) \o b
    BY DEF InsertAt
<1> HIDE DEF a, b
<1>4. <<x>> \in Seq(T) /\ Count(<<x>>, r) = IF x.op = r THEN 1 ELSE 0
    BY CountOne
<1>5. a \o <<x>> \in Seq(T) /\ Count(a \o <<x>>, r) = Count(a, r) + Count(<<x>>, r)
    BY <1>2, <1>4, CountConcat, ConcatProperties, ZenonT(40)
<1>6. /\ (a \o <<x>>) \o b \in Seq(T)
      /\ Count((a \o <<x>>) \o b, r) = Count(a \o <<x>>, r) + Count(b, r)
    BY <1>2, <1>5, CountConcat, ConcatProperties, ZenonT(40)
<1>7. Count(a, r) \in Nat /\ Count(b, r) \in Nat
    BY <1>2, MineIsFinite
<1> QED
    BY <1>2, <1>3, <1>4, <1>5, <1>6, <1>7

\* A list that loses its first.
LEMMA CountTail ==
    ASSUME NEW T, NEW l \in Seq(T), l # <<>>, NEW r
    PROVE  /\ Tail(l) \in Seq(T) /\ Head(l) \in T
           /\ Count(l, r) = Count(Tail(l), r) + IF Head(l).op = r THEN 1 ELSE 0
<1> DEFINE a == Tail(l)
           x == Head(l)
<1>1. Len(l) \in Nat /\ 1 \in 1 .. Len(l) /\ Len(l) \in 1 .. Len(l)
    BY LenProperties, EmptySeq
<1>2. a \in Seq(T) /\ x \in T
    BY HeadTailProperties
<1>3. SubSeq(l, 1, Len(l)) = l
    BY SubSeqFull
<1>4. SubSeq(l, 1, Len(l)) = <<l[1]>> \o SubSeq(l, 1 + 1, Len(l))
    BY <1>1, SubSeqRecursiveFirst
<1>5. a = SubSeq(l, 1 + 1, Len(l)) /\ x = l[1]
    BY <1>1, TailIsSubSeq, HeadTailOfSubSeq, <1>3
<1>6. l = <<x>> \o a
    BY <1>3, <1>4, <1>5
<1> HIDE DEF a, x
<1>7. <<x>> \in Seq(T) /\ Count(<<x>>, r) = IF x.op = r THEN 1 ELSE 0
    BY <1>2, CountOne
<1>8. Count(l, r) = Count(<<x>>, r) + Count(a, r) /\ Count(a, r) \in Nat
    BY <1>2, <1>6, <1>7, CountConcat, MineIsFinite
<1> QED
    BY <1>2, <1>7, <1>8 DEF a, x

\* What a loop takes and what it leaves.
LEMMA CountParted ==
    ASSUME NEW T, NEW l \in Seq(T), NEW S, NEW r
    PROVE  /\ At(l, S) \in Seq(T) /\ At(l, DOMAIN l \ S) \in Seq(T)
           /\ Count(At(l, S), r) + Count(At(l, DOMAIN l \ S), r) = Count(l, r)
<1> DEFINE n == Len(l)
           R == DOMAIN l \ S
<1>1. n \in Nat /\ DOMAIN l = 1 .. n
    BY LenProperties
<1>2. PICK f \in [0 .. n -> Seq(T)] :
              /\ At(l, S) = f[n] /\ f[0] = <<>>
              /\ \A i \in 1 .. n : f[i] = IF i \in S THEN Append(f[i - 1], l[i]) ELSE f[i - 1]
    BY AtGoes
<1>3. PICK g \in [0 .. n -> Seq(T)] :
              /\ At(l, R) = g[n] /\ g[0] = <<>>
              /\ \A i \in 1 .. n : g[i] = IF i \in R THEN Append(g[i - 1], l[i]) ELSE g[i - 1]
    BY AtGoes
<1>4. \A i \in 1 .. n : i \in R <=> i \notin S
    BY <1>1
<1> DEFINE C(i) == Count(SubSeq(l, 1, i), r)
           B == {i \in Nat : i <= n => Count(f[i], r) + Count(g[i], r) = C(i)}
<1> HIDE DEF R
<1>5. 0 \in B
    <2>1. SubSeq(l, 1, 0) = <<>>
        BY SubSeqEmpty
    <2>2. Count(<<>>, r) = 0
        BY CountEmpty
    <2>3. Count(f[0], r) = 0 /\ Count(g[0], r) = 0
        BY <1>2, <1>3, <2>2
    <2>4. C(0) = 0
        BY <2>1, <2>2
    <2> HIDE DEF C
    <2> QED
        BY <2>3, <2>4
<1>6. ASSUME NEW i \in Nat, i \in B
      PROVE  i + 1 \in B
    <2>1. SUFFICES ASSUME i + 1 <= n PROVE Count(f[i + 1], r) + Count(g[i + 1], r) = C(i + 1)
        OBVIOUS
    <2> DEFINE m == i + 1
               a == f[i]
               b == g[i]
               c == SubSeq(l, 1, i)
    <2>2. i \in 0 .. n /\ m \in 1 .. n /\ m - 1 = i /\ 1 \in 1 .. n /\ l[m] \in T
        BY <1>1, <2>1, ElementOfSeq
    <2>3. a \in Seq(T) /\ b \in Seq(T) /\ c \in Seq(T)
        BY <1>2, <1>3, <2>2, CountCut
    <2>4. SubSeq(l, 1, m) = Append(c, l[m])
        <3>1. m \in 1 .. Len(l)
            BY <2>2
        <3>2. SubSeq(l, 1, m) = SubSeq(l, 1, m - 1) \o <<l[m]>>
            BY <2>2, <3>1, SubSeqRecursiveSecond
        <3> HIDE DEF m, c
        <3> QED
            BY <2>2, <2>3, <3>2, AppendIsConcat DEF c
    <2>5. Count(a, r) + Count(b, r) = Count(c, r)
        BY <1>6, <2>2
    <2>6. Count(a, r) \in Nat /\ Count(b, r) \in Nat /\ Count(c, r) \in Nat
        BY <2>3, MineIsFinite
    <2>7. /\ f[m] = IF m \in S THEN Append(a, l[m]) ELSE a
          /\ g[m] = IF m \in S THEN b ELSE Append(b, l[m])
        BY <1>2, <1>3, <1>4, <2>2
    <2> HIDE DEF m, a, b, c
    <2>8. /\ Count(Append(a, l[m]), r) = Count(a, r) + IF l[m].op = r THEN 1 ELSE 0
          /\ Count(Append(b, l[m]), r) = Count(b, r) + IF l[m].op = r THEN 1 ELSE 0
          /\ Count(Append(c, l[m]), r) = Count(c, r) + IF l[m].op = r THEN 1 ELSE 0
        BY <2>2, <2>3, CountAppend
    <2>9. Count(f[m], r) + Count(g[m], r) = Count(Append(c, l[m]), r)
        BY <2>5, <2>6, <2>7, <2>8
    <2> QED
        BY <2>4, <2>9 DEF m
<1>7. n \in B
    <2> HIDE DEF B
    <2> QED
        BY <1>1, <1>5, <1>6, NatInductive
<1>8. SubSeq(l, 1, n) = l
    BY SubSeqFull
<1>9. Count(f[n], r) + Count(g[n], r) = Count(l, r)
    <2>1. Count(f[n], r) + Count(g[n], r) = C(n)
        <3> HIDE DEF C
        <3> QED
            BY <1>1, <1>7
    <2> HIDE DEF B
    <2> QED
        BY <1>8, <2>1
<1>10. f[n] \in Seq(T) /\ g[n] \in Seq(T)
    BY <1>1, <1>2, <1>3
<1> HIDE DEF B, C
<1> QED
    BY <1>2, <1>3, <1>9, <1>10 DEF R

-----------------------------------------------------------------------------
(* What stays as it is, and do_write *)

\* The same requests under way, with the same numbers.
Alike(s, t) ==
    /\ t.pid = s.pid /\ t.status = s.status /\ t.free = s.free
    /\ t.open = s.open /\ t.abandoned = s.abandoned

\* What depends on those parts alone stays as it is.
LEMMA AlikeKeeps ==
    ASSUME NEW s, NEW t, Alike(s, t)
    PROVE  /\ Ids(s) => Ids(t)
           /\ Excused(s) => Excused(t)
           /\ \A T : Fitting(t, T) = Fitting(s, T)
           /\ PostsOf(t) = PostsOf(s)
           /\ \A r : Sent(t, r) <=> Sent(s, r)
<1>1. \A r : (Sent(t, r) <=> Sent(s, r)) /\ (Numbered(t, r) <=> Numbered(s, r))
   /\ (MayAbort(t, r) <=> MayAbort(s, r))
    BY DEF Alike, Sent, Numbered, MayAbort
<1>2. Ids(s) => Ids(t)
    BY <1>1 DEF Ids, Alike
<1>3. Excused(s) => Excused(t)
    BY <1>1 DEF Excused, Alike
<1>4. \A T : Fitting(t, T) = Fitting(s, T)
    BY DEF Fitting, Alike
<1>5. PostsOf(t) = PostsOf(s)
    BY <1>1, <1>4 DEF PostsOf
<1> QED
    BY <1>1, <1>2, <1>3, <1>4, <1>5

\* What the numbers of the invariant are.
LEMMA HeldIsNat ==
    ASSUME NEW s \in Clients, NEW r
    PROVE  /\ Count(s.queue, r) \in Nat /\ Count(s.batch, r) \in Nat
           /\ Count(s.handlers, r) \in Nat /\ Count(s.posted, r) \in Nat
<1>1. /\ s.queue \in Seq(WriteReqs) /\ s.batch \in Seq(WriteReqs)
      /\ s.handlers \in Seq(Waiters) /\ s.posted \in Seq(Posts)
    BY DEF Clients
<1> QED
    BY <1>1, MineIsFinite

\* What a function of the code makes of the client, while the requests in D have still to be
\* handled.
Keeps(s, t, D) ==
    /\ Sane(t, D)
    /\ t.open = s.open /\ t.abandoned = s.abandoned
    /\ \A q \in D : t.pid[q] = s.pid[q]
    /\ Steady(s) => Steady(t)
    /\ s.writing => t.writing /\ t.batch = s.batch

\* Steps that keep the client one after the other keep it.
LEMMA KeepsOn ==
    ASSUME NEW s, NEW t, NEW u, NEW D, NEW E, E \subseteq D, Keeps(s, t, D), Keeps(t, u, E)
    PROVE  Keeps(s, u, E)
BY DEF Keeps

\* do_write moves packets from the queue to the write, and loses none.
LEMMA DoWriteKeeps ==
    ASSUME NEW s, NEW D, Sane(s, D)
    PROVE  Keeps(s, DoWrite(s), D)
<1> DEFINE chosen == Chosen(s)
           batch == At(s.queue, chosen)
           rest == At(s.queue, DOMAIN s.queue \ chosen)
           counted == IF s.limit = Unlimited \/ \E i \in DOMAIN batch : Terminal(batch[i])
                      THEN {} ELSE ThrottledUpTo(batch, Len(batch))
           quota == s.quota - Cardinality(counted)
           packets == [i \in DOMAIN batch |->
                          [op |-> batch[i].op, code |-> batch[i].code, pid |-> batch[i].pid]]
           wire == s.wire \o packets
           t == [s EXCEPT !.writing = TRUE, !.batch = batch, !.queue = rest, !.quota = quota,
                          !.fast = <<>>, !.wire = wire]
           Right == Fitting(s, WriteReqs)
           Packets == [op : Anyone, code : PacketCodes, pid : Nat]
<1>1. DoWrite(s) = IF s.writing \/ chosen = {} THEN s ELSE t
    BY Zenon DEF DoWrite
<1>2. Keeps(s, s, D)
    BY DEF Keeps
<1>3. SUFFICES ASSUME ~ s.writing, chosen # {} PROVE Keeps(s, t, D)
    BY <1>1, <1>2
<1>4. /\ s \in Clients /\ s.queue \in Seq(Right) /\ s.queue \in Seq(WriteReqs) /\ s.batch = <<>>
      /\ s.quota \in Int /\ s.wire \in Seq(Packets)
    BY <1>3 DEF Sane, Matching, Clients
<1>5. chosen \subseteq DOMAIN s.queue
    <2> DEFINE terminal == {i \in DOMAIN s.queue : Terminal(s.queue[i])}
    <2>1. terminal \subseteq Nat /\ terminal \subseteq DOMAIN s.queue
        BY <1>4, LenProperties
    <2>2. terminal # {} => \E i \in terminal : \A j \in terminal : i <= j
        <3> HIDE DEF terminal
        <3> QED
            BY <2>1, MinOfNats
    <2>3. terminal # {} => {CHOOSE i \in terminal : \A j \in terminal : i <= j} \subseteq terminal
        <3> HIDE DEF terminal
        <3> QED
            BY <2>2
    <2> QED
        BY <2>1, <2>3 DEF Chosen
<1>6. /\ batch \in Seq(Right) /\ rest \in Seq(Right) /\ batch \in Seq(WriteReqs)
            /\ rest \in Seq(WriteReqs)
      /\ \A r : Count(batch, r) + Count(rest, r) = Count(s.queue, r)
    <2> HIDE DEF chosen, Right
    <2>1. batch \in Seq(Right) /\ rest \in Seq(Right)
        BY <1>4, CountParted
    <2>2. batch \in Seq(WriteReqs) /\ rest \in Seq(WriteReqs)
        BY <1>4, CountParted
    <2>3. ASSUME NEW r PROVE Count(batch, r) + Count(rest, r) = Count(s.queue, r)
        BY <1>4, CountParted
    <2> QED
        BY <2>1, <2>2, <2>3
<1>7. batch # <<>>
    <2>1. PICK i \in DOMAIN s.queue : i \in chosen
        BY <1>3, <1>5
    <2>2. s.queue[i] \in ToSet(batch)
        <3> HIDE DEF chosen
        <3> QED
            BY <1>4, <2>1, AtProperties
    <2>3. ToSet(<<>>) = {}
        BY DEF ToSet
    <2> HIDE DEF batch
    <2> QED
        BY <2>2, <2>3
<1>8. quota \in Int
    <2>1. Len(batch) \in Nat
        BY <1>6, LenProperties
    <2>2. IsFiniteSet(1 .. Len(batch))
        BY <2>1, FS_Interval
    <2>3. counted \subseteq 1 .. Len(batch)
        BY DEF ThrottledUpTo
    <2>4. Cardinality(counted) \in Nat
        <3> HIDE DEF counted, batch
        <3> QED
            BY <2>2, <2>3, FS_Subset, FS_CardinalityType
    <2> HIDE DEF counted
    <2> QED
        BY <1>4, <2>4
<1>9. wire \in Seq(Packets)
    <2> HIDE DEF batch
    <2>1. Len(batch) \in Nat /\ DOMAIN batch = 1 .. Len(batch)
       /\ \A i \in 1 .. Len(batch) : batch[i] \in WriteReqs
        BY <1>6, LenProperties, ElementOfSeq
    <2>2. \A i \in DOMAIN batch : packets[i] \in Packets
        BY <2>1 DEF WriteReqs
    <2>3. packets \in Seq(Packets)
        <3> DEFINE n == Len(batch)
        <3>1. n \in Nat /\ packets \in [1 .. n -> Packets]
            BY <2>1, <2>2
        <3> HIDE DEF packets, n
        <3> QED
            BY <3>1, SeqDef, ZenonT(40)
    <2> HIDE DEF packets
    <2> QED
        BY <1>4, <2>3, ConcatProperties
<1>10. <<>> \in Seq(Replies)
    BY EmptySeq
<1> HIDE DEF chosen, batch, rest, counted, quota, packets, wire
<1>11. t \in Clients
    BY <1>4, <1>6, <1>8, <1>9, <1>10 DEF Clients
<1>12. /\ Alike(s, t) /\ t.queue = rest /\ t.batch = batch /\ t.handlers = s.handlers
             /\ t.posted = s.posted
       /\ t.writing = TRUE
    BY <1>4 DEF Clients, Alike
<1> HIDE DEF t
<1>13. \A r : Held(t, r) = Held(s, r)
    <2>1. ASSUME NEW r PROVE Held(t, r) = Held(s, r)
        <3>1. Count(s.batch, r) = 0
            BY <1>4, CountEmpty
        <3>2. /\ Count(batch, r) + Count(rest, r) = Count(s.queue, r)
              /\ Count(rest, r) \in Nat /\ Count(batch, r) \in Nat
              /\ Count(s.handlers, r) \in Nat /\ Count(s.posted, r) \in Nat
                    /\ Count(s.queue, r) \in Nat
            BY <1>4, <1>6, <1>11, <1>12, HeldIsNat
        <3> QED
            BY <1>12, <3>1, <3>2 DEF Held
    <2> QED
        BY <2>1
<1>14. Sane(t, D)
    BY <1>6, <1>11, <1>12, <1>13, AlikeKeeps DEF Sane, Matching, Placed
<1> QED
    BY <1>3, <1>7, <1>12, <1>14 DEF Keeps, Steady, Alike

-----------------------------------------------------------------------------
(* The broker's quota *)

\* Publications that the broker acknowledges; those that wait for room.
Metered(r) == kind[r] \in {"qos1", "qos2"}
Waits(list, r) == \E i \in DOMAIN list : list[i].op = r /\ list[i].throttled

\* Those that the broker has, or may have, to acknowledge; those in N are to be sent afresh.
Owing(s, N) == {r \in Requests : Sent(s, r) /\ Metered(r) /\ r \notin N /\ ~ Waits(s.queue, r)}

\* What they leave of the limit is the quota, unless a request was cancelled or the client.
Limited(s) == s.open /\ s.abandoned = {} /\ s.limit # Unlimited
Within(s, N) == Limited(s) => s.quota \in Nat /\ s.quota + Cardinality(Owing(s, N)) = s.limit

\* There are no more than packet identifiers.
LEMMA NumberedAreFew ==
    ASSUME NEW s, NEW D, Sane(s, D), NEW S, S \subseteq {r \in Requests : Numbered(s, r)}
    PROVE  IsFiniteSet(S) /\ Cardinality(S) \in Nat /\ Cardinality(S) <= PacketIdsMax
<1> DEFINE I == 1 .. PacketIdsMax
           f == [r \in S |-> s.pid[r]]
<1>1. IsFiniteSet(I) /\ Cardinality(I) = PacketIdsMax
    BY DeliveryAssumption, FS_Interval
<1>2. Ids(s)
    BY DEF Sane
<1>3. f \in Injection(S, I)
    <2>1. f \in [S -> I]
        BY <1>2 DEF Ids
    <2>2. \A r, q \in S : f[r] = f[q] => r = q
        BY <1>2 DEF Ids
    <2> HIDE DEF f, I
    <2> QED
        BY <2>1, <2>2 DEF Injection, IsInjective
<1> HIDE DEF f, I
<1>4. IsFiniteSet(S) /\ Cardinality(S) <= Cardinality(I)
    BY <1>1, <1>3, FS_Injection
<1> QED
    BY <1>1, <1>4, FS_CardinalityType

\* ... so few are owed to the broker at once.
LEMMA OwingIsFew ==
    ASSUME NEW s, NEW D, Sane(s, D), NEW N
    PROVE  /\ IsFiniteSet(Owing(s, N)) /\ Cardinality(Owing(s, N)) \in Nat
           /\ Cardinality(Owing(s, N)) <= PacketIdsMax
<1>1. Owing(s, N) \subseteq {r \in Requests : Numbered(s, r)}
    BY DEF Owing, Numbered, Metered
<1> QED
    BY <1>1, NumberedAreFew

\* What does not change the quota.
LEMMA WithinAlike ==
    ASSUME NEW s, NEW t, Alike(s, t), t.quota = s.quota, t.limit = s.limit, NEW N, NEW M,
           \A r \in Requests : Sent(s, r) /\ Metered(r) =>
                (r \notin N /\ ~ Waits(s.queue, r) <=> r \notin M /\ ~ Waits(t.queue, r)),
           Within(s, N)
    PROVE  Within(t, M)
<1>1. Owing(t, M) = Owing(s, N)
    BY DEF Owing, Alike, Sent
<1> QED
    BY <1>1 DEF Within, Limited, Alike

\* do_write takes from the quota one for each publication it writes, and no more than it has.
LEMMA DoWriteCounts ==
    ASSUME NEW s, NEW D, Sane(s, D), NEW N \in SUBSET D, Within(s, N)
    PROVE  Within(DoWrite(s), N)
<1> DEFINE chosen == Chosen(s)
           batch == At(s.queue, chosen)
           rest == At(s.queue, DOMAIN s.queue \ chosen)
           counted == IF s.limit = Unlimited \/ \E i \in DOMAIN batch : Terminal(batch[i])
                      THEN {} ELSE ThrottledUpTo(batch, Len(batch))
           quota == s.quota - Cardinality(counted)
           packets == [i \in DOMAIN batch |->
                          [op |-> batch[i].op, code |-> batch[i].code, pid |-> batch[i].pid]]
           t == [s EXCEPT !.writing = TRUE, !.batch = batch, !.queue = rest, !.quota = quota,
                          !.fast = <<>>, !.wire = @ \o packets]
           q == s.queue
           terminal == {i \in DOMAIN q : Terminal(q[i])}
           C == {i \in chosen : q[i].throttled}
           New == {q[i].op : i \in C}
<1>1. DoWrite(s) = IF s.writing \/ chosen = {} THEN s ELSE t
    BY Zenon DEF DoWrite
<1>2. SUFFICES ASSUME ~ s.writing, chosen # {}, Limited(s) PROVE Within(t, N)
    <2>1. CASE s.writing \/ chosen = {}
        BY <1>1, <2>1
    <2>2. CASE ~ (s.writing \/ chosen = {}) /\ Limited(s)
        BY <1>1, <1>2, <2>2
    <2>3. CASE ~ (s.writing \/ chosen = {}) /\ ~ Limited(s)
        <3>1. s \in Clients
            BY DEF Sane
        <3>2. ~ Limited(t)
            BY <2>3, <3>1 DEF Limited, Clients
        <3> QED
            BY <1>1, <2>3, <3>2 DEF Within
    <2> QED
        BY <2>1, <2>2, <2>3
<1>3. /\ s \in Clients /\ q \in Seq(WriteReqs) /\ DOMAIN q = 1 .. Len(q) /\ Len(q) \in Nat
      /\ \A i \in DOMAIN q : q[i] \in WriteReqs
      /\ s.quota \in Nat /\ s.limit # Unlimited /\ s.limit \in Nat
      /\ s.quota + Cardinality(Owing(s, N)) = s.limit
    <2>1. s \in Clients /\ q \in Seq(WriteReqs) /\ s.limit \in Nat
        BY DEF Sane, Clients
    <2> QED
        BY <1>2, <2>1, LenProperties, ElementOfSeq DEF Within, Limited
<1>4. terminal = {} \/ \E i \in terminal : chosen = {i}
    <2>1. terminal \subseteq Nat
        BY <1>3
    <2>2. terminal # {} => \E i \in terminal : \A j \in terminal : i <= j
        <3> HIDE DEF terminal
        <3> QED
            BY <2>1, MinOfNats
    <2>3. terminal # {} => chosen = {CHOOSE i \in terminal : \A j \in terminal : i <= j}
        BY Zenon DEF Chosen
    <2> HIDE DEF terminal, chosen
    <2> QED
        BY <2>2, <2>3
<1>5. chosen \subseteq DOMAIN q
    BY <1>4 DEF Chosen
<1>6. \A i \in DOMAIN q : q[i].throttled =>
             q[i].op \in Requests /\ Metered(q[i].op) /\ ~ Terminal(q[i])
    <2>1. ASSUME NEW x \in WriteReqs, x.throttled
          PROVE  x.op \in Requests /\ Metered(x.op) /\ ~ Terminal(x)
        <3>1. IsWrite(x)
            BY DEF WriteReqs
        <3>2. /\ x.op \in Requests /\ Metered(x.op)
              /\ x.code = BeginsWith(x.op) \/ x.code = "PUBREL"
            BY <2>1, <3>1 DEF IsWrite, Metered
        <3>3. BeginsWith(x.op) # "DISCONNECT"
            BY DEF BeginsWith
        <3> QED
            BY <3>2, <3>3 DEF Terminal
    <2> QED
        BY <1>3, <2>1
<1>7. ASSUME NEW i \in DOMAIN q, q[i].op \in Requests
      PROVE  /\ Sent(s, q[i].op) /\ q[i].op \notin D /\ Count(q, q[i].op) = 1
             /\ \A j \in DOMAIN q : q[j].op = q[i].op => j = i
    <2> DEFINE r == q[i].op
    <2>1. Count(q, r) # 0
        BY <1>3, CountTells
    <2>2. /\ Count(q, r) \in Nat /\ Count(s.batch, r) \in Nat
          /\ Count(s.handlers, r) \in Nat /\ Count(s.posted, r) \in Nat
        BY <1>3, HeldIsNat
    <2>3. Held(s, r) = IF Sent(s, r) /\ r \notin D THEN 1 ELSE 0
        BY <1>7 DEF Sane, Placed
    <2>4. Sent(s, r) /\ r \notin D /\ Count(q, r) = 1
        <3> HIDE DEF r, q
        <3> QED
            BY <2>1, <2>2, <2>3 DEF Held, q
    <2>5. \A j \in DOMAIN q : q[j].op = r => j = i
        BY <1>3, <2>4, CountTells
    <2> QED
        BY <2>4, <2>5
<1>8. /\ batch \in Seq(WriteReqs) /\ rest \in Seq(WriteReqs)
      /\ \A x : x \in ToSet(batch) <=> \E i \in DOMAIN q : i \in chosen /\ x = q[i]
      /\ \A x : x \in ToSet(rest) <=> \E i \in DOMAIN q : i \notin chosen /\ x = q[i]
      /\ \A r : Count(batch, r) + Count(rest, r) = Count(q, r)
    <2> HIDE DEF chosen, q
    <2>1. batch \in Seq(WriteReqs) /\ rest \in Seq(WriteReqs)
        BY <1>3, CountParted DEF q
    <2>2. \A x : x \in ToSet(batch) <=> \E i \in DOMAIN q : i \in chosen /\ x = q[i]
        BY <1>3, AtProperties DEF q
    <2>3. \A x : x \in ToSet(rest) <=> \E i \in DOMAIN q : i \in DOMAIN q \ chosen /\ x = q[i]
        <3> DEFINE others == DOMAIN q \ chosen
        <3> HIDE DEF others
        <3>1. \A x : x \in ToSet(At(q, others)) <=> \E i \in DOMAIN q : i \in others /\ x = q[i]
            BY <1>3, AtProperties DEF q
        <3> QED
            BY <3>1 DEF others, q
    <2>4. ASSUME NEW r PROVE Count(batch, r) + Count(rest, r) = Count(q, r)
        BY <1>3, CountParted DEF q
    <2> QED
        BY <2>1, <2>2, <2>3, <2>4
<1> DEFINE B == {j \in DOMAIN batch : batch[j].throttled}
<1> HIDE DEF chosen, batch, rest, terminal
<1>9. Len(batch) \in Nat /\ DOMAIN batch = 1 .. Len(batch) /\ IsFiniteSet(B)
    <2>1. Len(batch) \in Nat /\ DOMAIN batch = 1 .. Len(batch)
        BY <1>8, LenProperties
    <2>2. B \subseteq 1 .. Len(batch)
        BY <2>1
    <2> HIDE DEF B
    <2>3. IsFiniteSet(1 .. Len(batch))
        BY <2>1, FS_Interval
    <2> QED
        BY <2>1, <2>2, <2>3, FS_Subset
<1>10. Cardinality(B) = Cardinality(New) /\ IsFiniteSet(New) /\ Cardinality(New) \in Nat
    <2> DEFINE f == [j \in B |-> batch[j].op]
    <2>1. ASSUME NEW j \in B
          PROVE  \E i \in C : batch[j] = q[i] /\ f[j] = q[i].op
        <3>1. batch[j] \in ToSet(batch) /\ batch[j].throttled
            BY DEF ToSet
        <3>2. PICK i \in DOMAIN q : i \in chosen /\ batch[j] = q[i]
            BY <1>8, <3>1
        <3> QED
            BY <3>1, <3>2
    <2>2. f \in [B -> New]
        BY <2>1
    <2>3. ASSUME NEW j \in B, NEW k \in B, f[j] = f[k]
          PROVE  j = k
        <3>1. PICK i \in C : batch[j] = q[i] /\ f[j] = q[i].op
            BY <2>1
        <3> DEFINE r == q[i].op
        <3>2. r \in Requests /\ Count(q, r) = 1
            BY <1>5, <1>6, <1>7, <3>1
        <3>3. Count(batch, r) \in Nat /\ Count(rest, r) \in Nat
            BY <1>8, MineIsFinite
        <3>4. Count(batch, r) # 0
            <4>1. batch[j].op = r /\ j \in DOMAIN batch
                BY <3>1
            <4> HIDE DEF r
            <4> QED
                BY <1>8, <4>1, CountTells
        <3>5. Count(batch, r) = 1
            <4> HIDE DEF r, q
            <4> QED
                BY <1>8, <3>2, <3>3, <3>4
        <3>6. batch[j].op = r /\ batch[k].op = r /\ j \in DOMAIN batch /\ k \in DOMAIN batch
            BY <2>3, <3>1
        <3> HIDE DEF r
        <3> QED
            BY <1>8, <3>5, <3>6, CountTells
    <2>4. ASSUME NEW r \in New PROVE \E j \in B : f[j] = r
        <3>1. PICK i \in C : r = q[i].op
            OBVIOUS
        <3>2. i \in DOMAIN q /\ i \in chosen /\ q[i].throttled
            BY <1>5
        <3>3. q[i] \in ToSet(batch)
            BY <1>8, <3>2
        <3>4. PICK j \in DOMAIN batch : batch[j] = q[i]
            BY <3>3 DEF ToSet
        <3> QED
            BY <3>1, <3>2, <3>4
    <2> HIDE DEF f, B, New
    <2>5. f \in Bijection(B, New)
        BY <2>2, <2>3, <2>4 DEF Bijection, Injection, Surjection, IsInjective
    <2> QED
        BY <1>9, <2>5, FS_Bijection, FS_CardinalityType DEF ExistsBijection
<1>11. Cardinality(counted) = Cardinality(New) /\ Cardinality(New) <= s.quota
    <2>1. CASE terminal # {}
        <3>1. PICK i \in terminal : chosen = {i}
            BY <1>4, <2>1
        <3>2. i \in DOMAIN q /\ Terminal(q[i])
            BY DEF terminal
        <3>3. New = {}
            BY <1>6, <3>1, <3>2
        <3>4. counted = {}
            <4>1. q[i] \in ToSet(batch)
                BY <1>8, <3>1, <3>2
            <4>2. \E j \in DOMAIN batch : Terminal(batch[j])
                BY <3>2, <4>1 DEF ToSet
            <4> QED
                BY <4>2
        <3>5. Cardinality({}) = 0
            BY FS_EmptySet
        <3> HIDE DEF New, counted
        <3> QED
            BY <1>3, <3>3, <3>4, <3>5
    <2>2. CASE terminal = {}
        <3>1. \A j \in DOMAIN batch : ~ Terminal(batch[j])
            <4>1. ASSUME NEW j \in DOMAIN batch PROVE ~ Terminal(batch[j])
                <5>1. batch[j] \in ToSet(batch)
                    BY DEF ToSet
                <5> QED
                    BY <1>8, <2>2, <5>1 DEF terminal
            <4> QED
                BY <4>1
        <3>2. counted = B
            BY <1>3, <1>9, <3>1 DEF ThrottledUpTo
        <3>3. chosen =
           {i \in DOMAIN q : ~ q[i].throttled \/ Cardinality(ThrottledUpTo(q, i)) <= s.quota}
            BY <1>3, <2>2 DEF Chosen, terminal, chosen
        <3>4. Cardinality(New) <= s.quota
            <4>1. CASE C = {}
                <5>1. New = {} /\ Cardinality({}) = 0
                    BY <4>1, FS_EmptySet
                <5> HIDE DEF New
                <5> QED
                    BY <1>3, <5>1
            <4>2. CASE C # {}
                <5>1. C \subseteq 1 .. Len(q) /\ C \subseteq Nat
                    BY <1>3, <1>5
                <5>2. PICK m \in C : \A j \in C : m >= j
                    <6> DEFINE n == Len(q)
                    <6>1. n \in Nat /\ C \subseteq 0 .. n
                        BY <1>3, <5>1
                    <6> HIDE DEF C, n
                    <6>2. Max(C) \in C /\ \A j \in C : Max(C) >= j
                        BY <4>2, <6>1, MaxOfNats
                    <6> QED
                        BY <6>2
                <5>3. m \in DOMAIN q /\ q[m].throttled
                   /\ Cardinality(ThrottledUpTo(q, m)) <= s.quota
                    BY <1>3, <3>3, <5>1
                <5>4. C \subseteq ThrottledUpTo(q, m)
                    BY <1>3, <5>1, <5>2 DEF ThrottledUpTo
                <5>5. IsFiniteSet(ThrottledUpTo(q, m))
                    <6>1. ThrottledUpTo(q, m) \subseteq 1 .. m /\ m \in Nat
                        BY <1>3, <5>3 DEF ThrottledUpTo
                    <6> QED
                        BY <6>1, FS_Interval, FS_Subset
                <5>6. IsFiniteSet(C) /\ Cardinality(C) <= Cardinality(ThrottledUpTo(q, m))
                    <6> HIDE DEF C
                    <6> QED
                        BY <5>4, <5>5, FS_Subset
                <5>7. Cardinality(New) <= Cardinality(C)
                    <6> DEFINE g == [i \in C |-> q[i].op]
                    <6>1. g \in Surjection(C, New)
                        BY DEF Surjection
                    <6> HIDE DEF g, New, C
                    <6> QED
                        BY <5>6, <6>1, FS_Surjection
                <5>8. /\ Cardinality(C) \in Nat /\ Cardinality(ThrottledUpTo(q, m)) \in Nat
                    BY <5>5, <5>6, FS_CardinalityType
                <5> HIDE DEF New, C
                <5> QED
                    BY <1>3, <1>10, <5>3, <5>6, <5>7, <5>8
            <4> QED
                BY <4>1, <4>2
        <3> QED
            BY <1>10, <3>2, <3>4
    <2> QED
        BY <2>1, <2>2
<1> HIDE DEF counted
<1>12. /\ t.queue = rest /\ t.quota = quota /\ t.limit = s.limit /\ t.status = s.status
    BY <1>3 DEF Clients
<1> HIDE DEF t
<1>13. Owing(t, N) = Owing(s, N) \cup New /\ Owing(s, N) \cap New = {}
    <2>1. ASSUME NEW r \in New
          PROVE  r \in Requests /\ Sent(s, r) /\ Metered(r) /\ r \notin N /\ Waits(q, r)
             /\ ~ Waits(rest, r)
        <3>1. PICK i \in C : r = q[i].op
            OBVIOUS
        <3>2. i \in DOMAIN q /\ i \in chosen /\ q[i].throttled
            BY <1>5
        <3>3. r \in Requests /\ Sent(s, r) /\ Metered(r) /\ r \notin N
           /\ \A j \in DOMAIN q : q[j].op = r => j = i
            BY <1>6, <1>7, <3>1, <3>2
        <3>4. ASSUME NEW k \in DOMAIN rest, rest[k].op = r PROVE FALSE
            <4>1. rest[k] \in ToSet(rest)
                BY DEF ToSet
            <4>2. PICK j \in DOMAIN q : j \notin chosen /\ rest[k] = q[j]
                BY <1>8, <4>1
            <4> QED
                BY <3>2, <3>3, <3>4, <4>2
        <3> QED
            BY <3>1, <3>2, <3>3, <3>4 DEF Waits
    <2>2. ASSUME NEW r \in Requests, r \notin New
          PROVE  Waits(q, r) <=> Waits(rest, r)
        <3>1. ASSUME Waits(q, r) PROVE Waits(rest, r)
            <4>1. PICK i \in DOMAIN q : q[i].op = r /\ q[i].throttled
                BY <3>1 DEF Waits
            <4>2. i \notin chosen
                BY <2>2, <4>1
            <4>3. q[i] \in ToSet(rest)
                BY <1>8, <4>2
            <4> QED
                BY <4>1, <4>3 DEF ToSet, Waits
        <3>2. ASSUME Waits(rest, r) PROVE Waits(q, r)
            <4>1. PICK k \in DOMAIN rest : rest[k].op = r /\ rest[k].throttled
                BY <3>2 DEF Waits
            <4>2. rest[k] \in ToSet(rest)
                BY DEF ToSet
            <4> QED
                BY <1>8, <4>1, <4>2 DEF Waits
        <3> QED
            BY <3>1, <3>2
    <2>3. \A r : Sent(t, r) <=> Sent(s, r)
        BY <1>12 DEF Sent
    <2> HIDE DEF New
    <2> QED
        BY <1>12, <2>1, <2>2, <2>3 DEF Owing
<1>14. Cardinality(Owing(t, N)) = Cardinality(Owing(s, N)) + Cardinality(New)
    <2>1. IsFiniteSet(Owing(s, N)) /\ Cardinality(Owing(s, N)) \in Nat
        BY OwingIsFew
    <2>2. Cardinality({}) = 0
        BY FS_EmptySet
    <2> DEFINE O == Owing(s, N)
    <2> HIDE DEF New, O
    <2>3. /\ IsFiniteSet(O) /\ Cardinality(O) \in Nat /\ IsFiniteSet(New)
                /\ Cardinality(New) \in Nat
          /\ O \cap New = {} /\ Owing(t, N) = O \cup New
        BY <1>10, <1>13, <2>1 DEF O
    <2>4. Cardinality(O \cup New) = Cardinality(O) + Cardinality(New) - Cardinality(O \cap New)
        BY <2>3, FS_Union
    <2>5. Cardinality(Owing(t, N)) = Cardinality(O) + Cardinality(New)
        <3>1. Cardinality(O \cap New) = 0
            BY <2>2, <2>3
        <3> QED
            BY <2>3, <2>4, <3>1
    <2> QED
        BY <2>5 DEF O
<1>15. t.quota \in Nat /\ t.quota + Cardinality(Owing(t, N)) = t.limit
    <2>1. Cardinality(Owing(s, N)) \in Nat
        BY OwingIsFew
    <2> HIDE DEF New
    <2> QED
        BY <1>3, <1>10, <1>11, <1>12, <1>14, <2>1
<1> QED
    BY <1>15 DEF Within

-----------------------------------------------------------------------------
(* Packets that are sent *)

\* The same lists, too.
Untouched(s, t) ==
    /\ Alike(s, t) /\ t.queue = s.queue /\ t.batch = s.batch /\ t.handlers = s.handlers
    /\ t.posted = s.posted /\ t.writing = s.writing

\* What changes none of the lists, the requests and the quota keeps the client.
LEMMA UntouchedKeeps ==
    ASSUME NEW s, NEW D, Sane(s, D), NEW t \in Clients, Untouched(s, t)
    PROVE  Keeps(s, t, D)
<1>1. \A r : Held(t, r) = Held(s, r)
    BY DEF Held, Untouched
<1>2. Alike(s, t)
    BY DEF Untouched
<1>3. Matching(t)
    BY <1>2, AlikeKeeps DEF Untouched, Matching, Sane
<1>4. Sane(t, D)
    BY <1>1, <1>2, <1>3, AlikeKeeps DEF Untouched, Sane, Placed
<1> QED
    BY <1>4 DEF Untouched, Alike, Keeps, Steady

\* Who sends a packet of a request that a loop was about to handle has handled it.
LEMMA SendKeeps ==
    ASSUME NEW s, NEW D, Sane(s, D), NEW x \in Fitting(s, WriteReqs), x.op \in Requests =>
       x.op \in D
    PROVE  /\ Keeps(s, Send(s, x), D \ {x.op})
           /\ \A N \in SUBSET D :
                 /\ Within(s, N)
                 /\ x.op \in Requests /\ Metered(x.op) => (x.throttled <=> x.op \in N)
                 => Within(Send(s, x), N \ {x.op})
<1> DEFINE queue == Append(s.queue, x)
           t == [s EXCEPT !.queue = queue]
           E == D \ {x.op}
           Right == Fitting(s, WriteReqs)
<1>1. s \in Clients /\ s.queue \in Seq(Right) /\ s.queue \in Seq(WriteReqs) /\ x \in WriteReqs
   /\ x \in Right
    BY DEF Sane, Matching, Clients, Fitting
<1>2. Send(s, x) = DoWrite(t)
    BY DEF Send
<1>3. queue \in Seq(Right) /\ queue \in Seq(WriteReqs)
    <2> HIDE DEF Right
    <2>1. queue \in Seq(Right)
        BY <1>1, AppendProperties
    <2>2. queue \in Seq(WriteReqs)
        BY <1>1, AppendProperties
    <2> QED
        BY <2>1, <2>2
<1>4. ASSUME NEW r PROVE Count(queue, r) = Count(s.queue, r) + IF x.op = r THEN 1 ELSE 0
    BY <1>1, CountAppend
<1>5. ASSUME NEW r PROVE Waits(queue, r) <=> Waits(s.queue, r) \/ (x.op = r /\ x.throttled)
    <2> DEFINE n == Len(s.queue)
    <2>1. /\ n \in Nat /\ DOMAIN s.queue = 1 .. n /\ DOMAIN queue = 1 .. n + 1
          /\ (\A i \in 1 .. n : queue[i] = s.queue[i]) /\ queue[n + 1] = x
        <3>1. /\ Len(queue) = n + 1 /\ (\A i \in 1 .. n : queue[i] = s.queue[i])
              /\ queue[n + 1] = x
            BY <1>1, AppendProperties
        <3> QED
            BY <1>1, <1>3, <3>1, LenProperties
    <2> HIDE DEF queue, n
    <2>2. \A i \in 1 .. n + 1 : i \in 1 .. n \/ i = n + 1
        BY <2>1
    <2>3. n + 1 \in 1 .. n + 1 /\ \A i \in 1 .. n : i \in 1 .. n + 1
        BY <2>1
    <2> QED
        BY <2>1, <2>2, <2>3 DEF Waits
<1> HIDE DEF queue
<1>6. t \in Clients
    BY <1>1, <1>3 DEF Clients
<1>7. /\ Alike(s, t) /\ t.queue = queue /\ t.batch = s.batch /\ t.handlers = s.handlers
      /\ t.posted = s.posted /\ t.writing = s.writing /\ t.quota = s.quota /\ t.limit = s.limit
    BY <1>1 DEF Clients, Alike
<1> HIDE DEF t
<1>8. ASSUME NEW r PROVE Held(t, r) = Held(s, r) + IF x.op = r THEN 1 ELSE 0
    <2>1. /\ Count(s.queue, r) \in Nat /\ Count(s.batch, r) \in Nat
          /\ Count(s.handlers, r) \in Nat /\ Count(s.posted, r) \in Nat
        BY <1>1, HeldIsNat
    <2> QED
        BY <1>4, <1>7, <2>1 DEF Held
<1>9. ASSUME NEW r \in Requests
      PROVE  Held(t, r) = IF Sent(t, r) /\ r \notin E THEN 1 ELSE 0
    <2>1. Held(s, r) = IF Sent(s, r) /\ r \notin D THEN 1 ELSE 0
        BY DEF Sane, Placed
    <2>2. r \in D => Sent(s, r)
        BY DEF Sane
    <2>3. Sent(t, r) <=> Sent(s, r)
        BY <1>7, AlikeKeeps
    <2> QED
        BY <1>8, <2>1, <2>2, <2>3
<1>10. Sane(t, E)
    <2>1. Matching(t)
        BY <1>3, <1>7, AlikeKeeps DEF Sane, Matching
    <2>2. Placed(t, E)
        BY <1>9 DEF Placed
    <2>3. E \subseteq Requests /\ \A r \in E : Sent(t, r)
        BY <1>7, AlikeKeeps DEF Sane
    <2> HIDE DEF E
    <2> QED
        BY <1>6, <1>7, <2>1, <2>2, <2>3, AlikeKeeps DEF Sane
<1>11. Keeps(s, t, E)
    BY <1>7, <1>10 DEF Keeps, Steady, Alike
<1>12. Keeps(t, DoWrite(t), E)
    BY <1>10, DoWriteKeeps
<1>13. ASSUME NEW N \in SUBSET D, Within(s, N),
              x.op \in Requests /\ Metered(x.op) => (x.throttled <=> x.op \in N)
       PROVE  Within(DoWrite(t), N \ {x.op})
    <2> DEFINE M == N \ {x.op}
    <2>1. \A r \in Requests : Sent(s, r) /\ Metered(r) =>
                (r \notin N /\ ~ Waits(s.queue, r) <=> r \notin M /\ ~ Waits(t.queue, r))
        BY <1>7, <1>5, <1>13
    <2>2. M \in SUBSET E
        OBVIOUS
    <2> HIDE DEF M, E
    <2>3. Within(t, M)
        BY <1>7, <1>13, <2>1, WithinAlike
    <2>4. Within(DoWrite(t), M)
        BY <1>10, <2>2, <2>3, DoWriteCounts
    <2> QED
        BY <2>4 DEF M
<1> HIDE DEF E
<1>14. Keeps(s, DoWrite(t), E)
    BY <1>11, <1>12, KeepsOn
<1> QED
    BY <1>2, <1>13, <1>14 DEF E

-----------------------------------------------------------------------------
(* Requests that begin and end *)

\* What does not hold a request does not see its number change.
LEMMA Refitted ==
    ASSUME NEW s, NEW t, NEW r, \A q \in Requests \ {r} : t.pid[q] = s.pid[q],
           NEW T, NEW l \in Seq(T), l \in Seq(Fitting(s, T)), Count(l, r) = 0
    PROVE  l \in Seq(Fitting(t, T))
<1>1. \A i \in DOMAIN l : l[i].op # r
    BY CountTells
<1>2. \A i \in DOMAIN l : l[i] \in Fitting(s, T)
    BY LenProperties, ElementOfSeq
<1>3. \A i \in DOMAIN l : l[i] \in Fitting(t, T)
    BY <1>1, <1>2 DEF Fitting
<1> QED
    BY <1>3, MembersOf

\* The lists fit when a request's identifier changes that is in none of them.
LEMMA RefittedPosts ==
    ASSUME NEW s, NEW t, NEW r, \A q \in Requests \ {r} : t.pid[q] = s.pid[q],
           t.open = s.open, t.abandoned = s.abandoned,
           NEW l \in Seq(Posts), l \in Seq(PostsOf(s)), Count(l, r) = 0
    PROVE  l \in Seq(PostsOf(t))
<1>1. \A i \in DOMAIN l : l[i].op # r
    BY CountTells
<1>2. \A i \in DOMAIN l : l[i] \in PostsOf(s)
    BY LenProperties, ElementOfSeq
<1>3. \A i \in DOMAIN l : l[i] \in PostsOf(t)
    BY <1>1, <1>2 DEF PostsOf, Fitting, MayAbort
<1> QED
    BY <1>3, MembersOf

\* A request that is in no list may change its number.
LEMMA RefittedLists ==
    ASSUME NEW s \in Clients, NEW t, NEW r, \A q \in Requests \ {r} : t.pid[q] = s.pid[q],
           t.open = s.open, t.abandoned = s.abandoned,
           t.queue = s.queue, t.batch = s.batch, t.handlers = s.handlers, t.posted = s.posted,
           Held(s, r) = 0, Matching(s)
    PROVE  Matching(t)
<1>1. /\ s.queue \in Seq(WriteReqs) /\ s.batch \in Seq(WriteReqs)
      /\ s.handlers \in Seq(Waiters) /\ s.posted \in Seq(Posts)
    BY DEF Clients
<1>2. Count(s.queue, r) = 0 /\ Count(s.batch, r) = 0 /\ Count(s.handlers, r) = 0
   /\ Count(s.posted, r) = 0
    <2>1. /\ Count(s.queue, r) \in Nat /\ Count(s.batch, r) \in Nat
          /\ Count(s.handlers, r) \in Nat /\ Count(s.posted, r) \in Nat
        BY HeldIsNat
    <2>2. Count(s.queue, r) + Count(s.batch, r) + Count(s.handlers, r) + Count(s.posted, r) = 0
        BY DEF Held
    <2> QED
        BY <2>1, <2>2
<1>3. s.queue \in Seq(Fitting(t, WriteReqs)) /\ s.batch \in Seq(Fitting(t, WriteReqs))
    BY <1>1, <1>2, Refitted DEF Matching
<1>4. s.handlers \in Seq(Fitting(t, Waiters))
    BY <1>1, <1>2, Refitted DEF Matching
<1>5. s.posted \in Seq(PostsOf(t))
    BY <1>1, <1>2, RefittedPosts DEF Matching
<1> QED
    BY <1>3, <1>4, <1>5 DEF Matching

\* throttled_op_done gives one back to the quota, and may write.
LEMMA ThrottledOpDoneKeeps ==
    ASSUME NEW s, NEW D, Sane(s, D)
    PROVE  /\ Keeps(s, ThrottledOpDone(s), D)
           /\ \A N \in SUBSET D :
                 (Limited(s) => s.quota \in Nat /\ s.quota + 1 + Cardinality(Owing(s, N)) = s.limit)
                 => Within(ThrottledOpDone(s), N)
<1> DEFINE quota == s.quota + 1
           t == [s EXCEPT !.quota = quota]
<1>1. ThrottledOpDone(s) = IF s.limit = Unlimited THEN s ELSE DoWrite(t)
    BY DEF ThrottledOpDone
<1>2. s \in Clients /\ quota \in Int
    BY DEF Sane, Clients
<1> HIDE DEF quota
<1>3. t \in Clients
    BY <1>2 DEF Clients
<1>4. Untouched(s, t) /\ t.quota = s.quota + 1 /\ t.limit = s.limit
    BY <1>2 DEF Clients, Untouched, Alike, quota
<1> HIDE DEF t
<1>5. Keeps(s, s, D)
    BY DEF Keeps
<1>6. Keeps(s, t, D)
    BY <1>3, <1>4, UntouchedKeeps
<1>7. Keeps(t, DoWrite(t), D)
    BY <1>6, DoWriteKeeps DEF Keeps
<1>8. ASSUME NEW N \in SUBSET D,
             Limited(s) => s.quota \in Nat /\ s.quota + 1 + Cardinality(Owing(s, N)) = s.limit
      PROVE  Within(ThrottledOpDone(s), N)
    <2>1. CASE s.limit = Unlimited
        BY <1>1, <2>1 DEF Within, Limited
    <2>2. CASE s.limit # Unlimited
        <3>1. Owing(t, N) = Owing(s, N) /\ (Limited(t) <=> Limited(s))
            BY <1>4 DEF Owing, Limited, Untouched, Alike, Sent
        <3>2. Within(t, N)
            <4>1. Cardinality(Owing(s, N)) \in Nat
                BY OwingIsFew
            <4> QED
                BY <1>4, <1>8, <3>1, <4>1 DEF Within
        <3>3. Within(DoWrite(t), N)
            BY <1>6, <3>2, DoWriteCounts DEF Keeps
        <3> QED
            BY <1>1, <2>2, <3>3
    <2> QED
        BY <2>1, <2>2
<1> QED
    BY <1>1, <1>5, <1>6, <1>7, <1>8, KeepsOn

\* The packet a request begins with has its identifier.
LEMMA RequestPacketFits ==
    ASSUME NEW s \in Clients, NEW r \in Requests,
           kind \in [Requests -> {"qos0", "qos1", "qos2", "subscribe", "unsubscribe"}]
    PROVE  RequestPacket(s, r) \in Fitting(s, WriteReqs) /\ RequestPacket(s, r).op = r
<1> DEFINE x == RequestPacket(s, r)
<1>1. s.pid[r] \in Nat /\ s.serial[r] \in Nat
    BY DeliveryAssumption DEF Clients
<1>2. kind[r] \in {"qos0", "qos1", "qos2", "subscribe", "unsubscribe"}
    OBVIOUS
<1>3. x = [op |-> r, code |-> BeginsWith(r), pid |-> s.pid[r], serial |-> s.serial[r],
           throttled |-> kind[r] \in {"qos1", "qos2"}]
    BY DEF RequestPacket, WriteReq, BeginsWith
<1>4. BeginsWith(r) \in PacketCodes
    BY DEF BeginsWith, PacketCodes
<1>5. (kind[r] \in {"qos1", "qos2"}) \in BOOLEAN
    OBVIOUS
<1>6. r \in Anyone
    BY DEF Anyone
<1>7. /\ x.op = r /\ x.code = BeginsWith(r) /\ x.pid = s.pid[r]
      /\ x.throttled = (kind[r] \in {"qos1", "qos2"})
    BY <1>3
<1>8. x \in [op : Anyone, code : PacketCodes, pid : Nat, serial : Nat, throttled : BOOLEAN]
    BY <1>1, <1>3, <1>4, <1>5, <1>6
<1> HIDE DEF x
<1>9. x \in WriteReqs
    BY <1>7, <1>8 DEF WriteReqs, IsWrite
<1> QED
    BY <1>7, <1>9 DEF Fitting, x

\* So has the second one of a publication of QoS 2.
LEMMA PubRelFits ==
    ASSUME NEW s \in Clients, NEW r \in Requests, kind[r] = "qos2", NEW throttled \in BOOLEAN
    PROVE  PubRel(s, r, throttled) \in Fitting(s, WriteReqs) /\ PubRel(s, r, throttled).op = r
<1> DEFINE x == PubRel(s, r, throttled)
<1>1. s.pid[r] \in Nat /\ s.serial[r] \in Nat
    BY DeliveryAssumption DEF Clients
<1>2. x = [op |-> r, code |-> "PUBREL", pid |-> s.pid[r], serial |-> s.serial[r],
           throttled |-> throttled]
    BY DEF PubRel, WriteReq
<1>3. r \in Anyone /\ "PUBREL" \in PacketCodes
    BY DEF Anyone, PacketCodes
<1>4. x.op = r /\ x.code = "PUBREL" /\ x.pid = s.pid[r] /\ x.throttled = throttled
    BY <1>2
<1>5. x \in [op : Anyone, code : PacketCodes, pid : Nat, serial : Nat, throttled : BOOLEAN]
    BY <1>1, <1>2, <1>3
<1> HIDE DEF x
<1>6. x \in WriteReqs
    BY <1>4, <1>5 DEF WriteReqs, IsWrite
<1> QED
    BY <1>4, <1>6 DEF Fitting, x

\* A packet of nobody, or of a message, fits.
LEMMA OtherFits ==
    ASSUME NEW s, NEW op, NEW code, NEW pid \in Nat,
           \/ op \in Incoming /\ code \in {"PUBACK", "PUBREC", "PUBCOMP"}
           \/ op = Nobody /\ code = "DISCONNECT"
    PROVE  WriteReq(op, code, pid, 0) \in Fitting(s, WriteReqs)
       /\ WriteReq(op, code, pid, 0).op = op /\ op \notin Requests
<1> DEFINE x == WriteReq(op, code, pid, 0)
           no == FALSE
<1>1. x = [op |-> op, code |-> code, pid |-> pid, serial |-> 0, throttled |-> no]
    BY DEF WriteReq
<1>2. op \in Anyone /\ code \in PacketCodes /\ op \notin Requests
    BY DeliveryAssumption DEF Anyone, PacketCodes
<1>3. x.op = op /\ x.code = code /\ x.pid = pid /\ x.throttled = FALSE
    BY <1>1
<1>4. x \in [op : Anyone, code : PacketCodes, pid : Nat, serial : Nat, throttled : BOOLEAN]
    <2>1. no \in BOOLEAN /\ 0 \in Nat
        OBVIOUS
    <2> HIDE DEF no, x
    <2> QED
        BY <1>1, <1>2, <2>1
<1> HIDE DEF x
<1>5. x \in WriteReqs
    BY <1>3, <1>4 DEF WriteReqs, IsWrite
<1> QED
    BY <1>2, <1>3, <1>5 DEF Fitting, x

\* perform takes an identifier that is free, or the request fails.
LEMMA StartKeeps ==
    ASSUME NEW s, NEW D, Sane(s, D), NEW r \in Requests, s.status[r] = "idle"
    PROVE  /\ Keeps(s, Start(s, r), D)
           /\ \A N \in SUBSET D : Within(s, N) => Within(Start(s, r), N)
<1> DEFINE pid == IF kind[r] = "qos0" THEN 0 ELSE CHOOSE p \in s.free : \A q \in s.free : p <= q
           last == IF Subscribing(r) THEN s.last ELSE NextSerial(s)
           number == IF Subscribing(r) THEN 0 ELSE NextSerial(s)
           free == s.free \ {pid}
           pids == [s.pid EXCEPT ![r] = pid]
           serials == [s.serial EXCEPT ![r] = number]
           begun == [s.status EXCEPT ![r] = "sent"]
           over == [s.status EXCEPT ![r] = "failed"]
           failed == [s EXCEPT !.status = over]
           t == [s EXCEPT !.status = begun, !.pid = pids, !.free = free, !.last = last,
                          !.serial = serials]
           E == D \cup {r}
<1>1. /\ s \in Clients /\ Ids(s) /\ Placed(s, D) /\ Matching(s) /\ Excused(s)
            /\ D \subseteq Requests
      /\ \A q \in D : Sent(s, q)
      /\ kind \in [Requests -> {"qos0", "qos1", "qos2", "subscribe", "unsubscribe"}]
    BY DEF Sane
<1>2. /\ s.free \subseteq 1 .. PacketIdsMax /\ s.pid \in [Requests -> 0 .. PacketIdsMax]
      /\ s.status \in [Requests -> Statuses] /\ s.serial \in [Requests -> 0 .. SerialMod - 1]
      /\ s.last \in 0 .. SerialMod - 1
    BY <1>1 DEF Clients
<1>3. Start(s, r) = IF kind[r] # "qos0" /\ s.free = {} THEN failed
                    ELSE Send(t, RequestPacket(t, r))
    BY <1>1 DEF Start, Clients
<1>4. ~ Sent(s, r) /\ ~ Numbered(s, r) /\ r \notin D
    BY <1>1 DEF Sent, Numbered
<1>5. Held(s, r) = 0
    BY <1>1, <1>4 DEF Placed
<1>6. CASE kind[r] # "qos0" /\ s.free = {}
    <2>1. over \in [Requests -> Statuses] /\ over[r] = "failed"
       /\ \A q \in Requests \ {r} : over[q] = s.status[q]
        BY <1>2 DEF Statuses
    <2> HIDE DEF over
    <2>2. failed \in Clients
        BY <1>1, <2>1 DEF Clients
    <2>3. /\ failed.status = over /\ failed.pid = s.pid /\ failed.free = s.free
                /\ failed.open = s.open
          /\ failed.abandoned = s.abandoned /\ failed.queue = s.queue /\ failed.batch = s.batch
          /\ failed.handlers = s.handlers /\ failed.posted = s.posted /\ failed.writing = s.writing
          /\ failed.quota = s.quota /\ failed.limit = s.limit
        BY <1>1 DEF Clients
    <2> HIDE DEF failed
    <2>4. \A q \in Requests : Sent(failed, q) <=> Sent(s, q)
        BY <1>4, <2>1, <2>3 DEF Sent
    <2>5. \A q \in Requests : Numbered(failed, q) <=> Numbered(s, q)
        BY <2>4 DEF Numbered
    <2>6. Ids(failed)
        BY <1>1, <2>3, <2>5 DEF Ids
    <2>7. Placed(failed, D)
        BY <1>1, <2>3, <2>4 DEF Placed, Held
    <2>8. Matching(failed)
        BY <1>1, <2>3, RefittedLists, <1>5
    <2>9. Excused(failed)
        BY <1>1, <2>1, <2>3 DEF Excused, MayAbort
    <2>10. Sane(failed, D)
        BY <1>1, <2>2, <2>3, <2>4, <2>6, <2>7, <2>8, <2>9 DEF Sane
    <2>11. Keeps(s, failed, D)
        BY <2>3, <2>10 DEF Keeps, Steady
    <2>12. ASSUME NEW N \in SUBSET D, Within(s, N)
           PROVE  Within(failed, N)
        <3>1. Owing(failed, N) = Owing(s, N)
            BY <2>3, <2>4 DEF Owing
        <3> QED
            BY <2>3, <2>12, <3>1 DEF Within, Limited
    <2> QED
        BY <1>3, <1>6, <2>11, <2>12
<1>7. CASE ~ (kind[r] # "qos0" /\ s.free = {})
    <2>1. IF kind[r] = "qos0" THEN pid = 0 ELSE pid \in s.free
        <3>1. s.free # {} => \E p \in s.free : \A q \in s.free : p <= q
            <4>1. s.free \subseteq Nat
                BY <1>2
            <4> QED
                BY <4>1, MinOfNats
        <3> QED
            BY <1>7, <3>1
    <2>2. pid \in 0 .. PacketIdsMax
        BY <1>2, <2>1, DeliveryAssumption
    <2>3. NextSerial(s) \in 0 .. SerialMod - 1
        BY <1>2, DeliveryAssumption DEF NextSerial
    <2>4. last \in 0 .. SerialMod - 1 /\ number \in 0 .. SerialMod - 1
        BY <1>2, <2>3, DeliveryAssumption
    <2> HIDE DEF pid, last, number
    <2>5. /\ pids \in [Requests -> 0 .. PacketIdsMax] /\ pids[r] = pid
          /\ \A q \in Requests \ {r} : pids[q] = s.pid[q]
        BY <1>2, <2>2
    <2>6. /\ begun \in [Requests -> Statuses] /\ begun[r] = "sent"
          /\ \A q \in Requests \ {r} : begun[q] = s.status[q]
        BY <1>2 DEF Statuses
    <2>7. serials \in [Requests -> 0 .. SerialMod - 1] /\ free \subseteq 1 .. PacketIdsMax
        BY <1>2, <2>4
    <2>8. \A p : p \in free <=> p \in s.free /\ p # pid
        OBVIOUS
    <2> HIDE DEF pids, begun, serials, free
    <2>9. t \in Clients
        BY <1>1, <2>4, <2>5, <2>6, <2>7 DEF Clients
    <2>10. /\ t.status = begun /\ t.pid = pids /\ t.free = free /\ t.open = s.open
           /\ t.abandoned = s.abandoned /\ t.queue = s.queue /\ t.batch = s.batch
           /\ t.handlers = s.handlers /\ t.posted = s.posted /\ t.writing = s.writing
           /\ t.quota = s.quota /\ t.limit = s.limit
        BY <1>1 DEF Clients
    <2> HIDE DEF t
    <2>11. Sent(t, r) /\ (Numbered(t, r) <=> kind[r] # "qos0") /\ t.pid[r] = pid
        BY <2>5, <2>6, <2>10 DEF Sent, Numbered
    <2>12. \A q \in Requests \ {r} : /\ (Sent(t, q) <=> Sent(s, q))
       /\ (Numbered(t, q) <=> Numbered(s, q))
                                     /\ t.pid[q] = s.pid[q] /\ t.status[q] = s.status[q]
        BY <2>5, <2>6, <2>10 DEF Sent, Numbered
    <2>13. s.pid[r] = 0
        BY <1>1, <1>4 DEF Ids
    <2>14. Ids(t)
        <3>1. \A q \in Requests : t.pid[q] \in IF Numbered(t, q) THEN 1 .. PacketIdsMax ELSE {0}
            BY <1>1, <1>2, <2>1, <2>11, <2>12, ZenonT(40) DEF Ids
        <3>2. \A q \in Requests : t.pid[q] \notin t.free
            BY <1>1, <2>8, <2>10, <2>11, <2>12 DEF Ids
        <3>3. \A q \in Requests \ {r} : Numbered(t, q) => t.pid[q] # pid \/ kind[r] = "qos0"
            BY <1>1, <2>1, <2>12 DEF Ids
        <3>4. ASSUME NEW p \in Requests, NEW q \in Requests, Numbered(t, p), Numbered(t, q),
           t.pid[p] = t.pid[q]
              PROVE  p = q
            BY <1>1, <2>11, <2>12, <3>3, <3>4 DEF Ids
        <3>5. ASSUME NEW p \in 1 .. PacketIdsMax
              PROVE  p \in t.free \/ \E q \in Requests : t.pid[q] = p
            <4>1. CASE p = pid
                BY <2>11, <4>1
            <4>2. CASE p # pid /\ p \in s.free
                BY <2>8, <2>10, <4>2
            <4>3. CASE p # pid /\ p \notin s.free
                <5>1. PICK q \in Requests : s.pid[q] = p
                    BY <1>1, <4>3 DEF Ids
                <5>2. q # r
                    BY <2>13, <5>1
                <5> QED
                    BY <2>12, <5>1, <5>2
            <4> QED
                BY <4>1, <4>2, <4>3
        <3> QED
            BY <3>1, <3>2, <3>4, <3>5 DEF Ids
    <2>15. Placed(t, E)
        <3>1. \A q : Held(t, q) = Held(s, q)
            BY <2>10 DEF Held
        <3> QED
            BY <1>1, <1>4, <1>5, <2>11, <2>12, <3>1 DEF Placed
    <2>16. Matching(t)
        BY <1>1, <1>5, <2>10, <2>12, RefittedLists
    <2>17. Excused(t)
        BY <1>1, <2>6, <2>10, <2>12 DEF Excused, MayAbort
    <2>18. Sane(t, E)
        BY <1>1, <2>9, <2>10, <2>11, <2>12, <2>14, <2>15, <2>16, <2>17 DEF Sane
    <2>19. /\ Keeps(t, Send(t, RequestPacket(t, r)), D)
           /\ \A N \in SUBSET D : Within(s, N) => Within(Send(t, RequestPacket(t, r)), N)
        <3> DEFINE x == RequestPacket(t, r)
        <3>1. x \in Fitting(t, WriteReqs) /\ x.op = r
            BY <1>1, <2>9, RequestPacketFits
        <3>2. x.throttled <=> Metered(r)
            BY DEF RequestPacket, WriteReq, Metered
        <3> HIDE DEF x
        <3>3. Keeps(t, Send(t, x), E \ {x.op})
            BY <2>18, <3>1, SendKeeps
        <3>4. E \ {x.op} = D
            BY <1>4, <3>1
        <3>5. ASSUME NEW N \in SUBSET D, Within(s, N)
              PROVE  Within(Send(t, x), N)
            <4> DEFINE M == N \cup {r}
            <4>1. M \in SUBSET E /\ M \ {x.op} = N /\ x.op \in M
                BY <1>4, <3>1
            <4>2. Owing(t, M) = Owing(s, N)
                BY <1>4, <2>10, <2>12 DEF Owing
            <4>3. Within(t, M)
                BY <2>10, <3>5, <4>2 DEF Within, Limited
            <4> HIDE DEF M, E
            <4> QED
                BY <2>18, <3>1, <3>2, <4>1, <4>3, SendKeeps
        <3> QED
            BY <3>3, <3>4, <3>5 DEF x
    <2>20. Keeps(s, Send(t, RequestPacket(t, r)), D)
        <3>1. \A q \in D : q \in Requests \ {r}
            BY <1>1, <1>4
        <3> QED
            BY <2>10, <2>12, <2>19, <3>1 DEF Keeps, Steady
    <2> QED
        BY <1>3, <1>7, <2>19, <2>20
<1> QED
    BY <1>6, <1>7

\* complete gives the identifier back, and the share of the quota, and starts what is next.
LEMMA FinishKeeps ==
    ASSUME NEW s, NEW D, Sane(s, D), NEW r \in D, NEW status \in {"done", "failed", "aborted"},
           status = "aborted" => MayAbort(s, r)
    PROVE  /\ Keeps(s, Finish(s, r, status), D \ {r})
           /\ \A N \in SUBSET D : Within(s, N) /\ (r \in N => ~ Limited(s))
                                  => Within(Finish(s, r, status), N \ {r})
<1> DEFINE E == D \ {r}
           over == [s.status EXCEPT ![r] = status]
           pids == [s.pid EXCEPT ![r] = 0]
           free == IF s.pid[r] = 0 THEN s.free ELSE s.free \cup {s.pid[r]}
           freed == [s EXCEPT !.status = over, !.pid = pids, !.free = free]
           granted == IF kind[r] = "subscribe" /\ status = "done"
                      THEN [freed EXCEPT !.subscribed = TRUE] ELSE freed
           roomy == IF kind[r] \in {"qos1", "qos2"} THEN ThrottledOpDone(granted) ELSE granted
<1>1. /\ s \in Clients /\ Ids(s) /\ Placed(s, D) /\ Matching(s) /\ Excused(s)
            /\ D \subseteq Requests
      /\ \A q \in D : Sent(s, q)
      /\ r \in Requests /\ Sent(s, r)
    BY DEF Sane
<1>2. /\ s.free \subseteq 1 .. PacketIdsMax /\ s.pid \in [Requests -> 0 .. PacketIdsMax]
      /\ s.status \in [Requests -> Statuses] /\ s.pid[r] \in 0 .. PacketIdsMax
    BY <1>1 DEF Clients
<1>3. Finish(s, r, status) = IF Then[r] # Nobody /\ roomy.status[Then[r]] = "idle" /\ roomy.open
                             THEN Start(roomy, Then[r]) ELSE roomy
    BY <1>1 DEF Finish, Clients
<1>4. Held(s, r) = 0
    BY <1>1 DEF Placed
<1>5. /\ over \in [Requests -> Statuses] /\ over[r] = status
      /\ \A q \in Requests \ {r} : over[q] = s.status[q]
    BY <1>1, <1>2 DEF Statuses
<1>6. /\ pids \in [Requests -> 0 .. PacketIdsMax] /\ pids[r] = 0
      /\ \A q \in Requests \ {r} : pids[q] = s.pid[q]
    BY <1>1, <1>2, DeliveryAssumption
<1>7. /\ free \subseteq 1 .. PacketIdsMax
      /\ \A p : p \in free <=> p \in s.free \/ (p = s.pid[r] /\ p # 0)
    BY <1>2
<1> HIDE DEF over, pids, free
<1>8. freed \in Clients
    BY <1>1, <1>5, <1>6, <1>7, ZenonT(40) DEF Clients
<1>9. /\ freed.status = over /\ freed.pid = pids /\ freed.free = free /\ freed.open = s.open
      /\ freed.abandoned = s.abandoned /\ freed.queue = s.queue /\ freed.batch = s.batch
      /\ freed.handlers = s.handlers /\ freed.posted = s.posted /\ freed.writing = s.writing
      /\ freed.quota = s.quota /\ freed.limit = s.limit
    BY <1>1 DEF Clients
<1> HIDE DEF freed
<1>10. ~ Sent(freed, r) /\ ~ Numbered(freed, r) /\ freed.pid[r] = 0
    BY <1>5, <1>6, <1>9 DEF Sent, Numbered
<1>11. \A q \in Requests \ {r} : /\ (Sent(freed, q) <=> Sent(s, q))
   /\ (Numbered(freed, q) <=> Numbered(s, q))
                                 /\ freed.pid[q] = s.pid[q] /\ freed.status[q] = s.status[q]
    BY <1>5, <1>6, <1>9 DEF Sent, Numbered
<1>12. Ids(freed)
    <2>1. \A q \in Requests : freed.pid[q] \in IF Numbered(freed, q) THEN 1 .. PacketIdsMax ELSE {0}
        BY <1>1, <1>10, <1>11 DEF Ids
    <2>2. 0 \notin free
        BY <1>7
    <2>3. \A q \in Requests \ {r} : s.pid[q] # 0 => s.pid[q] # s.pid[r]
        <3>1. ASSUME NEW q \in Requests \ {r}, s.pid[q] # 0, s.pid[q] = s.pid[r]
              PROVE  FALSE
            <4>1. Numbered(s, q) /\ Numbered(s, r)
                BY <1>1, <3>1 DEF Ids
            <4> QED
                BY <1>1, <3>1, <4>1 DEF Ids
        <3> QED
            BY <3>1
    <2>4. \A q \in Requests : freed.pid[q] \notin freed.free
        BY <1>1, <1>7, <1>9, <1>10, <1>11, <2>2, <2>3 DEF Ids
    <2>5. ASSUME NEW p \in Requests, NEW q \in Requests, Numbered(freed, p), Numbered(freed, q),
                 freed.pid[p] = freed.pid[q]
          PROVE  p = q
        BY <1>1, <1>10, <1>11, <2>5 DEF Ids
    <2>6. ASSUME NEW p \in 1 .. PacketIdsMax
          PROVE  p \in freed.free \/ \E q \in Requests : freed.pid[q] = p
        <3>1. CASE p \in s.free \/ p = s.pid[r]
            BY <1>7, <1>9, <3>1
        <3>2. CASE p \notin s.free /\ p # s.pid[r]
            <4>1. PICK q \in Requests : s.pid[q] = p
                BY <1>1, <3>2 DEF Ids
            <4>2. q # r
                BY <3>2, <4>1
            <4> QED
                BY <1>11, <4>1, <4>2
        <3> QED
            BY <3>1, <3>2
    <2> QED
        BY <2>1, <2>4, <2>5, <2>6 DEF Ids
<1>13. Placed(freed, E)
    <2>1. \A q : Held(freed, q) = Held(s, q)
        BY <1>9 DEF Held
    <2> QED
        BY <1>1, <1>4, <1>10, <1>11, <2>1 DEF Placed
<1>14. Matching(freed)
    BY <1>1, <1>4, <1>9, <1>11, RefittedLists
<1>15. Excused(freed)
    BY <1>1, <1>5, <1>9, <1>11 DEF Excused, MayAbort
<1>16. Sane(freed, E)
    BY <1>1, <1>8, <1>9, <1>10, <1>11, <1>12, <1>13, <1>14, <1>15 DEF Sane
<1>17. \A q \in E : q \in Requests \ {r}
    BY <1>1
<1> HIDE DEF E
<1>18. Keeps(s, freed, E)
    BY <1>9, <1>11, <1>16, <1>17 DEF Keeps, Steady
<1>19. Keeps(freed, granted, E)
    <2> DEFINE t == [freed EXCEPT !.subscribed = TRUE]
    <2>1. t \in Clients
        BY <1>8 DEF Clients
    <2>2. Untouched(freed, t)
        BY <1>8 DEF Untouched, Alike, Clients
    <2> HIDE DEF t
    <2>3. Keeps(freed, t, E)
        BY <1>16, <2>1, <2>2, UntouchedKeeps
    <2>4. Keeps(freed, freed, E)
        BY <1>16 DEF Keeps
    <2>5. granted = t \/ granted = freed
        BY DEF t
    <2> HIDE DEF granted
    <2> QED
        BY <2>3, <2>4, <2>5
<1>20. /\ granted.status = over /\ granted.queue = s.queue /\ granted.quota = s.quota
      /\ granted.limit = s.limit /\ granted.open = s.open /\ granted.abandoned = s.abandoned
    BY <1>8, <1>9 DEF Clients
<1> HIDE DEF granted
<1>21. Keeps(granted, roomy, E)
    <2>1. Sane(granted, E)
        BY <1>19 DEF Keeps
    <2>2. Keeps(granted, ThrottledOpDone(granted), E) /\ Keeps(granted, granted, E)
        BY <2>1, ThrottledOpDoneKeeps DEF Keeps
    <2> QED
        BY <2>2
<1>22. ASSUME NEW N \in SUBSET D, Within(s, N), r \in N => ~ Limited(s)
      PROVE  Within(roomy, N \ {r})
    <2> DEFINE M == N \ {r}
    <2>1. M \in SUBSET E /\ Sane(granted, E)
        BY <1>19 DEF Keeps, E
    <2>2. Limited(granted) <=> Limited(s)
        BY <1>20 DEF Limited
    <2>3. \A q \in Requests : Sent(granted, q) <=> Sent(s, q) /\ q # r
        BY <1>1, <1>5, <1>20 DEF Sent
    <2>4. Owing(granted, M) = Owing(s, N) \ {r}
        BY <1>20, <2>3 DEF Owing
    <2>5. CASE ~ Metered(r)
        <3>1. roomy = granted
            BY <2>5 DEF Metered
        <3>2. r \notin Owing(s, N)
            BY <2>5 DEF Owing
        <3>3. Owing(granted, M) = Owing(s, N)
            BY <2>4, <3>2
        <3> HIDE DEF M, roomy
        <3>4. Within(granted, M)
            BY <1>20, <1>22, <2>2, <3>3 DEF Within
        <3> QED
            BY <3>1, <3>4 DEF M
    <2>6. CASE Metered(r)
        <3>1. roomy = ThrottledOpDone(granted)
            BY <2>6 DEF Metered
        <3>2. ASSUME Limited(s)
              PROVE  granted.quota \in Nat
                 /\ granted.quota + 1 + Cardinality(Owing(granted, M)) = granted.limit
            <4>1. ~ Waits(s.queue, r)
                <5>1. Count(s.queue, r) = 0
                    <6>1. /\ Count(s.queue, r) \in Nat /\ Count(s.batch, r) \in Nat
                          /\ Count(s.handlers, r) \in Nat /\ Count(s.posted, r) \in Nat
                        BY <1>1, HeldIsNat
                    <6> QED
                        BY <1>4, <6>1 DEF Held
                <5>2. s.queue \in Seq(WriteReqs)
                    BY <1>1 DEF Clients
                <5> QED
                    BY <5>1, <5>2, CountTells DEF Waits
            <4>2. r \in Owing(s, N)
                BY <1>1, <1>22, <2>6, <3>2, <4>1 DEF Owing
            <4>3. IsFiniteSet(Owing(s, N)) /\ Cardinality(Owing(s, N)) \in Nat
                BY OwingIsFew
            <4>4. Cardinality(Owing(s, N) \ {r}) = Cardinality(Owing(s, N)) - 1
                BY <4>2, <4>3, FS_RemoveElement
            <4>5. Cardinality(Owing(granted, M)) = Cardinality(Owing(s, N)) - 1
                BY <2>4, <4>4
            <4> HIDE DEF M
            <4> QED
                BY <1>20, <1>22, <3>2, <4>3, <4>5 DEF Within
        <3> HIDE DEF M, roomy
        <3>3. Within(ThrottledOpDone(granted), M)
            BY <2>1, <2>2, <3>2, ThrottledOpDoneKeeps
        <3> QED
            BY <3>1, <3>3 DEF M
    <2> QED
        BY <2>5, <2>6
<1> HIDE DEF roomy
<1>23. Keeps(s, roomy, E)
    <2>1. Keeps(s, granted, E)
        BY <1>18, <1>19, KeepsOn
    <2> QED
        BY <1>21, <2>1, KeepsOn
<1>24. ASSUME Then[r] # Nobody, roomy.status[Then[r]] = "idle"
       PROVE  /\ Keeps(s, Start(roomy, Then[r]), E)
              /\ \A N \in SUBSET E : Within(roomy, N) => Within(Start(roomy, Then[r]), N)
    <2>1. Then[r] \in Requests
        BY <1>1, <1>24, DeliveryAssumption
    <2>2. Sane(roomy, E)
        BY <1>23 DEF Keeps
    <2>3. /\ Keeps(roomy, Start(roomy, Then[r]), E)
          /\ \A N \in SUBSET E : Within(roomy, N) => Within(Start(roomy, Then[r]), N)
        BY <1>24, <2>1, <2>2, StartKeeps
    <2> QED
        BY <1>23, <2>3, KeepsOn
<1>25. ASSUME NEW N \in SUBSET D, Within(s, N), r \in N => ~ Limited(s)
      PROVE  Within(Finish(s, r, status), N \ {r})
    <2>1. Within(roomy, N \ {r}) /\ N \ {r} \in SUBSET E
        BY <1>22, <1>25 DEF E
    <2> QED
        BY <1>3, <1>24, <2>1
<1> QED
    BY <1>3, <1>23, <1>24, <1>25 DEF E

\* A request is sent afresh: it is not owing any more.
LEMMA AgainKeeps ==
    ASSUME NEW s, NEW D, Sane(s, D), NEW r \in D
    PROVE  /\ Keeps(s, Again(s, r), D \ {r})
           /\ \A N \in SUBSET D : Within(s, N) /\ r \in N => Within(Again(s, r), N \ {r})
<1> DEFINE x == RequestPacket(s, r)
<1>1. x \in Fitting(s, WriteReqs) /\ x.op = r
    BY RequestPacketFits DEF Sane
<1>2. x.throttled <=> Metered(r)
    BY DEF RequestPacket, WriteReq, Metered
<1> HIDE DEF x
<1>3. /\ Keeps(s, Send(s, x), D \ {r})
      /\ \A N \in SUBSET D : Within(s, N) /\ r \in N => Within(Send(s, x), N \ {r})
    BY <1>1, <1>2, SendKeeps
<1>4. r \in s.abandoned =>
          /\ Keeps(s, Finish(s, r, "aborted"), D \ {r})
          /\ \A N \in SUBSET D : Within(s, N) /\ r \in N => Within(Finish(s, r, "aborted"), N \ {r})
    <2>1. r \in s.abandoned => MayAbort(s, r) /\ ~ Limited(s)
        BY DEF MayAbort, Limited
    <2> QED
        BY <2>1, FinishKeeps
<1> QED
    BY <1>3, <1>4 DEF Again, x

-----------------------------------------------------------------------------
(* Replies that are awaited, and that come *)

\* find_handler finds the first that matches, or none does.
LEMMA FindTells ==
    ASSUME NEW T, NEW l \in Seq(T), NEW code, NEW pid
    PROVE  /\ Find(l, code, pid) \in 0 .. Len(l)
           /\ Find(l, code, pid) # 0 =>
                /\ Find(l, code, pid) \in 1 .. Len(l) /\ l[Find(l, code, pid)] \in T
                /\ l[Find(l, code, pid)].code = code /\ l[Find(l, code, pid)].pid = pid
<1> DEFINE I == {i \in 1 .. Len(l) : l[i].code = code /\ l[i].pid = pid}
           k == Find(l, code, pid)
<1>1. k = IF I # {} THEN Min(I) ELSE 0
    BY DEF Find, SelectInSeq
<1>2. I \subseteq Nat /\ Len(l) \in Nat
    BY LenProperties
<1>3. I # {} => Min(I) \in I
    <2> HIDE DEF I
    <2> QED
        BY <1>2, MinOfNats
<1>4. \A i \in 1 .. Len(l) : l[i] \in T
    BY ElementOfSeq
<1> HIDE DEF k
<1>5. k = 0 \/ k \in I
    BY <1>1, <1>3
<1> QED
    BY <1>2, <1>4, <1>5 DEF k

\* A list that loses what was found in it.
LEMMA EraseTells ==
    ASSUME NEW T, NEW l \in Seq(T), NEW i \in 0 .. Len(l), NEW r
    PROVE  /\ Erase(l, i) \in Seq(T)
           /\ Count(l, r) = Count(Erase(l, i), r) + IF i # 0 /\ l[i].op = r THEN 1 ELSE 0
<1>1. CASE i = 0
    <2>1. Count(l, r) \in Nat
        BY MineIsFinite
    <2> QED
        BY <1>1, <2>1 DEF Erase
<1>2. CASE i # 0
    <2>1. i \in 1 .. Len(l)
        BY <1>2
    <2>2. RemoveAt(l, i) \in Seq(T)
       /\ Count(l, r) = Count(RemoveAt(l, i), r) + IF l[i].op = r THEN 1 ELSE 0
        BY <2>1, CountRemove
    <2> QED
        BY <1>2, <2>2 DEF Erase
<1> QED
    BY <1>1, <1>2

\* Who is in a list is under way, and is not to be handled.
LEMMA InListIsSent ==
    ASSUME NEW s, NEW D, Sane(s, D), NEW r \in Requests,
           \/ \E i \in DOMAIN s.handlers : s.handlers[i].op = r
           \/ \E i \in DOMAIN s.posted : s.posted[i].op = r
           \/ \E i \in DOMAIN s.queue : s.queue[i].op = r
           \/ \E i \in DOMAIN s.batch : s.batch[i].op = r
    PROVE  Sent(s, r) /\ r \notin D /\ Held(s, r) = 1
<1>1. /\ s \in Clients /\ s.queue \in Seq(WriteReqs) /\ s.batch \in Seq(WriteReqs)
      /\ s.handlers \in Seq(Waiters) /\ s.posted \in Seq(Posts)
    BY DEF Sane, Clients
<1>2. /\ Count(s.queue, r) \in Nat /\ Count(s.batch, r) \in Nat
      /\ Count(s.handlers, r) \in Nat /\ Count(s.posted, r) \in Nat
    BY <1>1, HeldIsNat
<1>3. \/ Count(s.queue, r) # 0 \/ Count(s.batch, r) # 0
      \/ Count(s.handlers, r) # 0 \/ Count(s.posted, r) # 0
    BY <1>1, CountTells
<1>4. Held(s, r) # 0
    BY <1>2, <1>3 DEF Held
<1> QED
    BY <1>4 DEF Sane, Placed

Expecting(op, code, pid, result) == [op |-> op, code |-> code, pid |-> pid, result |-> result]

\* Two do not await the same reply, but for the same message that has come again.
LEMMA NoTwin ==
    ASSUME NEW s, NEW D, Sane(s, D), NEW op, NEW code, NEW pid,
           Expecting(op, code, pid, "none") \in Fitting(s, Waiters), op \in Requests => op \in D,
           NEW h \in Fitting(s, Waiters), h.code = code, h.pid = pid,
           h.op \in Requests => \E i \in DOMAIN s.handlers : s.handlers[i].op = h.op
    PROVE  h.op \notin Requests
<1> SUFFICES ASSUME h.op \in Requests PROVE FALSE
    OBVIOUS
<1>1. Sent(s, h.op) /\ h.op \notin D
    BY InListIsSent
<1> DEFINE w == Expecting(op, code, pid, "none")
<1>2. w.op = op /\ w.code = code /\ w.pid = pid
    BY DEF Expecting
<1> HIDE DEF w
<1>3. IsWaiting(w) /\ IsWaiting(h) /\ h.pid = s.pid[h.op] /\ (op \in Requests => pid = s.pid[op])
    BY <1>2 DEF Fitting, Waiters, w
<1>4. Requests \cap Incoming = {}
    BY DeliveryAssumption
<1>5. kind[h.op] # "qos0" /\ Numbered(s, h.op)
    BY <1>1, <1>3, <1>4 DEF IsWaiting, Numbered
<1>6. CASE op \in Requests
    <2>1. Sent(s, op) /\ kind[op] # "qos0"
        BY <1>2, <1>3, <1>4, <1>6 DEF Sane, IsWaiting
    <2>2. h.op = op
        BY <1>3, <1>5, <1>6, <2>1 DEF Sane, Ids, Numbered
    <2> QED
        BY <1>1, <1>6, <2>2
<1>7. CASE op \notin Requests
    <2>1. code = "PUBREL"
        BY <1>2, <1>3, <1>7 DEF IsWaiting
    <2>2. h.code = Awaited(h.op) \/ h.code = "PUBCOMP"
        BY <1>3, <1>4 DEF IsWaiting
    <2>3. kind[h.op] \in {"qos1", "qos2", "subscribe", "unsubscribe"}
        BY <1>5 DEF Sane
    <2>4. Awaited(h.op) # "PUBREL"
        BY <2>3 DEF Awaited
    <2> QED
        BY <2>1, <2>2, <2>4
<1> QED
    BY <1>6, <1>7

\* The queue and the quota are as they were.
LEMMA WithinSame ==
    ASSUME NEW s, NEW t, Alike(s, t), t.queue = s.queue, t.quota = s.quota, t.limit = s.limit,
           NEW N, Within(s, N)
    PROVE  Within(t, N)
BY WithinAlike

\* One more request awaits a reply, or is about to be told.
LEMMA Relisted ==
    ASSUME NEW s, NEW D, Sane(s, D), NEW t \in Clients, Alike(s, t), t.writing = s.writing,
           t.queue = s.queue, t.batch = s.batch,
           t.handlers \in Seq(Fitting(s, Waiters)), t.posted \in Seq(PostsOf(s)),
           NEW op, op \in Requests => op \in D,
           \A r \in Requests : Count(t.handlers, r) + Count(t.posted, r) =
                               Count(s.handlers, r) + Count(s.posted, r) + IF op = r THEN 1 ELSE 0
    PROVE  Keeps(s, t, D \ {op})
<1> DEFINE E == D \ {op}
<1>1. s \in Clients
    BY DEF Sane
<1>2. \A r : Sent(t, r) <=> Sent(s, r)
    BY AlikeKeeps
<1>3. ASSUME NEW r \in Requests
      PROVE  Held(t, r) = IF Sent(t, r) /\ r \notin E THEN 1 ELSE 0
    <2>1. Held(s, r) = IF Sent(s, r) /\ r \notin D THEN 1 ELSE 0
        BY DEF Sane, Placed
    <2>2. r \in D => Sent(s, r)
        BY DEF Sane
    <2>3. /\ Count(s.queue, r) \in Nat /\ Count(s.batch, r) \in Nat
          /\ Count(s.handlers, r) \in Nat /\ Count(s.posted, r) \in Nat
          /\ Count(t.handlers, r) \in Nat /\ Count(t.posted, r) \in Nat
        BY <1>1, HeldIsNat
    <2>4. Held(t, r) = Held(s, r) + IF op = r THEN 1 ELSE 0
        <3>1. Count(t.handlers, r) + Count(t.posted, r) =
              Count(s.handlers, r) + Count(s.posted, r) + IF op = r THEN 1 ELSE 0
            OBVIOUS
        <3>2. Held(t, r) = Count(s.queue, r) + Count(s.batch, r) + Count(t.handlers, r) +
           Count(t.posted, r)
            BY DEF Held
        <3>3. Held(s, r) = Count(s.queue, r) + Count(s.batch, r) + Count(s.handlers, r) +
           Count(s.posted, r)
            BY DEF Held
        <3> DEFINE a == Count(s.queue, r)
                   b == Count(s.batch, r)
                   c == Count(s.handlers, r)
                   d == Count(s.posted, r)
                   e == Count(t.handlers, r)
                   f == Count(t.posted, r)
                   one == IF op = r THEN 1 ELSE 0
        <3>4. /\ a \in Nat /\ b \in Nat /\ c \in Nat /\ d \in Nat /\ e \in Nat /\ f \in Nat
              /\ one \in Nat /\ e + f = c + d + one
              /\ Held(t, r) = a + b + e + f /\ Held(s, r) = a + b + c + d
            BY <2>3, <3>1, <3>2, <3>3
        <3> HIDE DEF a, b, c, d, e, f, one
        <3>5. Held(t, r) = Held(s, r) + one
            BY <3>4
        <3> QED
            BY <3>5 DEF one
    <2> QED
        BY <1>2, <2>1, <2>2, <2>4
<1>4. Matching(t)
    BY AlikeKeeps DEF Sane, Matching
<1>5. Placed(t, E)
    BY <1>3 DEF Placed
<1>6. E \subseteq Requests /\ \A r \in E : Sent(t, r)
    BY <1>2 DEF Sane
<1> HIDE DEF E
<1>7. Sane(t, E)
    BY <1>4, <1>5, <1>6, AlikeKeeps DEF Sane
<1>8. E \subseteq D
    BY DEF E
<1>9. Keeps(s, t, E)
    BY <1>7 DEF Keeps, Steady, Alike
<1> QED
    BY <1>9 DEF E

\* async_wait_reply puts a request among those that await a reply, or defers its end.
LEMMA WaitReplyKeeps ==
    ASSUME NEW s, NEW D, Sane(s, D), NEW op, NEW code, NEW pid,
           Expecting(op, code, pid, "none") \in Fitting(s, Waiters), op \in Requests => op \in D
    PROVE  /\ Keeps(s, WaitReply(s, code, pid, op), D \ {op})
           /\ \A N \in SUBSET D : Within(s, N) => Within(WaitReply(s, code, pid, op), N)
<1> DEFINE twin == Find(s.handlers, code, pid)
           early == Find(s.fast, code, pid)
           late == Expecting(s.handlers[twin].op, code, pid, "aborted")
           w == Expecting(op, code, pid, "none")
           told == Expecting(op, code, pid, s.fast[early].result)
           H == Erase(s.handlers, twin)
           P == IF twin = 0 THEN s.posted ELSE Append(s.posted, late)
           F == Erase(s.fast, early)
           Hw == Append(H, w)
           Pw == Append(P, told)
           t == [s EXCEPT !.handlers = Hw, !.posted = P]
           u == [s EXCEPT !.handlers = H, !.posted = Pw, !.fast = F]
           Right == Fitting(s, Waiters)
<1>1. /\ s \in Clients /\ s.handlers \in Seq(Right) /\ s.handlers \in Seq(Waiters)
      /\ s.posted \in Seq(PostsOf(s)) /\ s.posted \in Seq(Posts) /\ s.fast \in Seq(Replies)
    BY DEF Sane, Matching, Clients
<1>2. WaitReply(s, code, pid, op) = IF early = 0 THEN t ELSE u
    BY <1>1 DEF WaitReply, Clients, Expecting
<1>3. twin \in 0 .. Len(s.handlers) /\ early \in 0 .. Len(s.fast)
    BY <1>1, FindTells
<1>4. /\ w.op = op /\ w.code = code /\ w.pid = pid /\ w \in Right /\ w \in Waiters
      /\ IsWaiting(w) /\ op \in Anyone /\ code \in ReplyCodes /\ pid \in Nat
      /\ (op \in Requests => pid = s.pid[op])
    BY DEF Expecting, Fitting, Waiters
<1>5. twin # 0 => /\ s.handlers[twin].op \notin Requests
                  /\ late \in PostsOf(s) /\ late \in Posts /\ late.op \notin Requests
    <2>1. SUFFICES ASSUME twin # 0
                   PROVE  /\ s.handlers[twin].op \notin Requests
                          /\ late \in PostsOf(s) /\ late \in Posts /\ late.op \notin Requests
        OBVIOUS
    <2> DEFINE h == s.handlers[twin]
    <2>2. h \in Right /\ h.code = code /\ h.pid = pid /\ twin \in 1 .. Len(s.handlers)
        BY <1>1, <2>1, FindTells
    <2>3. twin \in DOMAIN s.handlers
        BY <1>1, <2>2, LenProperties
    <2> HIDE DEF twin
    <2>4. h.op \notin Requests
        BY <2>2, <2>3, NoTwin
    <2>5. h.op \in Anyone
        BY <2>2 DEF Fitting, Waiters
    <2>6. late.op = h.op /\ late.result = "aborted"
        BY DEF Expecting
    <2>7. late \in Posts
        <3>1. late \in [op : Anyone, code : ReplyCodes \cup PacketCodes, pid : Nat,
                        result : {"ok", "refused", "aborted"}]
            BY <1>4, <2>5 DEF Expecting
        <3> QED
            BY <2>6, <3>1 DEF Posts
    <2> HIDE DEF late, h
    <2>8. late \in PostsOf(s)
        BY <2>4, <2>6, <2>7 DEF PostsOf, Fitting
    <2> QED
        BY <2>4, <2>6, <2>7, <2>8 DEF h
<1>6. early # 0 => told \in PostsOf(s) /\ told \in Posts /\ told.op = op
    <2>1. SUFFICES ASSUME early # 0 PROVE told \in PostsOf(s) /\ told \in Posts /\ told.op = op
        OBVIOUS
    <2> DEFINE result == s.fast[early].result
    <2>2. result \in {"ok", "refused"}
        <3>1. s.fast[early] \in Replies
            BY <1>1, <2>1, FindTells
        <3> HIDE DEF early
        <3> QED
            BY <3>1 DEF Replies
    <2> HIDE DEF result
    <2>3. told = Expecting(op, code, pid, result)
        BY DEF result
    <2> HIDE DEF told
    <2>4. told.op = op /\ told.code = code /\ told.pid = pid /\ told.result = result
        BY <2>3 DEF Expecting
    <2>5. told \in [op : Anyone, code : ReplyCodes \cup PacketCodes, pid : Nat,
                    result : {"ok", "refused", "aborted"}]
        BY <1>4, <2>2, <2>3 DEF Expecting
    <2>6. IsWaiting(told)
        BY <1>4, <2>4 DEF IsWaiting
    <2>7. told \in Posts
        BY <2>5, <2>6 DEF Posts
    <2> QED
        BY <1>4, <2>2, <2>4, <2>7 DEF PostsOf, Fitting
<1> HIDE DEF twin, early, late, w, told, Right
<1>7. H \in Seq(Right) /\ H \in Seq(Waiters) /\ F \in Seq(Replies)
    <2>1. H \in Seq(Right)
        BY <1>1, <1>3, EraseTells
    <2>2. H \in Seq(Waiters)
        BY <1>1, <1>3, EraseTells
    <2>3. F \in Seq(Replies)
        BY <1>1, <1>3, EraseTells
    <2> QED
        BY <2>1, <2>2, <2>3
<1>8. ASSUME NEW r \in Requests PROVE Count(H, r) = Count(s.handlers, r) /\ Count(H, r) \in Nat
    <2>1. Count(s.handlers, r) = Count(H, r) + IF twin # 0 /\ s.handlers[twin].op = r THEN 1 ELSE 0
        BY <1>1, <1>3, EraseTells
    <2>2. Count(H, r) \in Nat
        BY <1>7, MineIsFinite
    <2> QED
        BY <1>5, <2>1, <2>2
<1> HIDE DEF H, F
<1>9. P \in Seq(PostsOf(s)) /\ P \in Seq(Posts)
    <2>1. P \in Seq(PostsOf(s))
        BY <1>1, <1>5, AppendProperties
    <2>2. P \in Seq(Posts)
        BY <1>1, <1>5, AppendProperties
    <2> QED
        BY <2>1, <2>2
<1>10. ASSUME NEW r \in Requests PROVE Count(P, r) = Count(s.posted, r) /\ Count(P, r) \in Nat
    <2>1. Count(s.posted, r) \in Nat
        BY <1>1, MineIsFinite
    <2>2. twin # 0 => Count(Append(s.posted, late), r) = Count(s.posted, r) + IF late.op =
       r THEN 1 ELSE 0
        BY <1>1, <1>5, CountAppend
    <2> QED
        BY <1>5, <2>1, <2>2
<1> HIDE DEF P
<1>11. CASE early = 0
    <2>1. Hw \in Seq(Right) /\ Hw \in Seq(Waiters)
        <3>1. Hw \in Seq(Right)
            BY <1>4, <1>7, AppendProperties
        <3>2. Hw \in Seq(Waiters)
            BY <1>4, <1>7, AppendProperties
        <3> QED
            BY <3>1, <3>2
    <2>2. ASSUME NEW r PROVE Count(Hw, r) = Count(H, r) + IF op = r THEN 1 ELSE 0
        BY <1>4, <1>7, CountAppend
    <2> HIDE DEF Hw
    <2>3. t \in Clients
        BY <1>1, <1>9, <2>1 DEF Clients
    <2>4. /\ Alike(s, t) /\ t.writing = s.writing /\ t.queue = s.queue /\ t.batch = s.batch
          /\ t.quota = s.quota /\ t.limit = s.limit
          /\ t.handlers = Hw /\ t.posted = P
        BY <1>1 DEF Clients, Alike
    <2> HIDE DEF t
    <2>5. \A r \in Requests : Count(t.handlers, r) + Count(t.posted, r) =
                              Count(s.handlers, r) + Count(s.posted, r) + IF op = r THEN 1 ELSE 0
        BY <1>8, <1>10, <2>2, <2>4
    <2>6. t.handlers \in Seq(Fitting(s, Waiters)) /\ t.posted \in Seq(PostsOf(s))
        BY <1>9, <2>1, <2>4 DEF Right
    <2>7. Keeps(s, t, D \ {op})
        BY <2>3, <2>4, <2>5, <2>6, Relisted
    <2>8. \A N : Within(s, N) => Within(t, N)
        BY <2>4, WithinSame
    <2> QED
        BY <1>2, <1>11, <2>7, <2>8
<1>12. CASE early # 0
    <2>1. Pw \in Seq(PostsOf(s)) /\ Pw \in Seq(Posts)
        <3>1. Pw \in Seq(PostsOf(s))
            BY <1>6, <1>9, <1>12, AppendProperties
        <3>2. Pw \in Seq(Posts)
            BY <1>6, <1>9, <1>12, AppendProperties
        <3> QED
            BY <3>1, <3>2
    <2>2. ASSUME NEW r PROVE Count(Pw, r) = Count(P, r) + IF op = r THEN 1 ELSE 0
        BY <1>6, <1>9, <1>12, CountAppend
    <2> HIDE DEF Pw
    <2>3. u \in Clients
        BY <1>1, <1>7, <2>1 DEF Clients
    <2>4. /\ Alike(s, u) /\ u.writing = s.writing /\ u.queue = s.queue /\ u.batch = s.batch
          /\ u.quota = s.quota /\ u.limit = s.limit
          /\ u.handlers = H /\ u.posted = Pw
        BY <1>1 DEF Clients, Alike
    <2> HIDE DEF u
    <2>5. \A r \in Requests : Count(u.handlers, r) + Count(u.posted, r) =
                              Count(s.handlers, r) + Count(s.posted, r) + IF op = r THEN 1 ELSE 0
        BY <1>8, <1>10, <2>2, <2>4
    <2>6. u.handlers \in Seq(Fitting(s, Waiters)) /\ u.posted \in Seq(PostsOf(s))
        BY <1>7, <2>1, <2>4 DEF Right
    <2>7. Keeps(s, u, D \ {op})
        BY <2>3, <2>4, <2>5, <2>6, Relisted
    <2>8. \A N : Within(s, N) => Within(u, N)
        BY <2>4, WithinSame
    <2> QED
        BY <1>2, <1>12, <2>7, <2>8
<1> QED
    BY <1>11, <1>12

\* A step that changes nothing keeps the client.
LEMMA SelfKeeps ==
    ASSUME NEW s, NEW D, Sane(s, D), NEW op, op \notin Requests
    PROVE  /\ Keeps(s, s, D \ {op})
           /\ Within(s, D) => Within(s, D \ {op})
<1>1. D \ {op} = D
    BY DEF Sane
<1> QED
    BY <1>1 DEF Keeps

\* channel_store has no part in the requests.
LEMMA StoreKeeps ==
    ASSUME NEW s, NEW D, Sane(s, D), NEW m \in Incoming
    PROVE  Keeps(s, Store(s, m), D \ {m}) /\ (Within(s, {}) => Within(Store(s, m), {}))
<1> DEFINE stored == [s.stored EXCEPT ![m] = @ + 1]
           t == [s EXCEPT !.stored = stored]
<1>1. s \in Clients /\ s.stored \in [Incoming -> Nat] /\ m \notin Requests
    BY DeliveryAssumption DEF Sane, Clients
<1>2. stored \in [Incoming -> Nat]
    BY <1>1
<1>3. Store(s, m) = IF s.open THEN t ELSE s
    BY <1>1 DEF Store, Clients
<1> HIDE DEF stored
<1>4. t \in Clients
    BY <1>1, <1>2 DEF Clients
<1>5. Untouched(s, t) /\ t.quota = s.quota /\ t.limit = s.limit
    BY <1>1 DEF Untouched, Alike, Clients
<1> HIDE DEF t
<1>6. Keeps(s, t, D) /\ (Within(s, {}) => Within(t, {}))
    BY <1>4, <1>5, UntouchedKeeps, WithinSame DEF Untouched
<1>7. D \ {m} = D
    BY <1>1 DEF Sane
<1>8. Keeps(s, s, D)
    BY DEF Keeps
<1> QED
    BY <1>3, <1>6, <1>7, <1>8

\* What awaited replies are.
LEMMA AwaitedIs ==
    ASSUME kind \in [Requests -> {"qos0", "qos1", "qos2", "subscribe", "unsubscribe"}],
           NEW r \in Requests, kind[r] # "qos0"
    PROVE  /\ Awaited(r) \in {"PUBACK", "PUBREC", "SUBACK", "UNSUBACK"}
           /\ Awaited(r) = "PUBREC" => kind[r] = "qos2"
<1>1. kind[r] \in {"qos1", "qos2", "subscribe", "unsubscribe"}
    OBVIOUS
<1> QED
    BY <1>1 DEF Awaited

\* Who gets a reply sends the next packet, or ends.
LEMMA RepliedKeeps ==
    ASSUME NEW s, NEW D, Sane(s, D), NEW h \in PostsOf(s), h.op \in Requests => h.op \in D
    PROVE  /\ Keeps(s, Replied(s, h), D \ {h.op})
           /\ Within(s, {}) => Within(Replied(s, h), {})
<1>1. /\ s \in Clients
            /\ kind \in [Requests -> {"qos0", "qos1", "qos2", "subscribe", "unsubscribe"}]
      /\ Requests \cap Incoming = {}
    BY DeliveryAssumption DEF Sane
<1>2. /\ h \in Posts /\ h.result \in {"ok", "refused", "aborted"} /\ h.pid \in Nat
      /\ h.result = "aborted" \/ IsWaiting(h)
      /\ h.result = "aborted" /\ h.op \in Requests => MayAbort(s, h.op)
    BY DEF PostsOf, Fitting, Posts
<1>3. /\ {} \in SUBSET D /\ {} \ {h.op} = {} /\ h.op \notin {}
    OBVIOUS
<1>4. ASSUME h.op \in Requests, NEW status \in {"done", "failed", "aborted"},
             status = "aborted" => MayAbort(s, h.op)
      PROVE  /\ Keeps(s, Finish(s, h.op, status), D \ {h.op})
             /\ Within(s, {}) => Within(Finish(s, h.op, status), {})
    <2>1. h.op \in D
        BY <1>4
    <2>2. \A N \in SUBSET D : Within(s, N) /\ (h.op \in N => ~ Limited(s))
                              => Within(Finish(s, h.op, status), N \ {h.op})
        BY <1>4, <2>1, FinishKeeps
    <2>3. Keeps(s, Finish(s, h.op, status), D \ {h.op})
        BY <1>4, <2>1, FinishKeeps
    <2> QED
        BY <1>3, <2>2, <2>3
<1>5. ASSUME NEW x \in Fitting(s, WriteReqs), x.op = h.op, h.op \in Requests => ~ x.throttled
      PROVE  /\ Keeps(s, Send(s, x), D \ {h.op})
             /\ Within(s, {}) => Within(Send(s, x), {})
    <2>1. x.op \in Requests => x.op \in D
        BY <1>5
    <2>2. \A N \in SUBSET D :
             /\ Within(s, N)
             /\ x.op \in Requests /\ Metered(x.op) => (x.throttled <=> x.op \in N)
             => Within(Send(s, x), N \ {x.op})
        BY <2>1, SendKeeps
    <2>3. Keeps(s, Send(s, x), D \ {x.op})
        BY <2>1, SendKeeps
    <2> QED
        BY <1>3, <1>5, <2>2, <2>3
<1>6. CASE h.result = "aborted"
    <2>1. h.op \in Requests => /\ Keeps(s, Finish(s, h.op, "aborted"), D \ {h.op})
                               /\ Within(s, {}) => Within(Finish(s, h.op, "aborted"), {})
        BY <1>2, <1>4, <1>6
    <2>2. h.op \notin Requests => Keeps(s, s, D \ {h.op})
        BY SelfKeeps
    <2>3. Replied(s, h) = IF h.op \in Requests THEN Finish(s, h.op, "aborted") ELSE s
        BY <1>6 DEF Replied
    <2> QED
        BY <2>1, <2>2, <2>3
<1>7. CASE h.result # "aborted" /\ h.code = "PUBREL"
    <2> DEFINE x == WriteReq(h.op, "PUBCOMP", h.pid, 0)
    <2>1. h.op \in Incoming
        BY <1>1, <1>2, <1>7, AwaitedIs DEF IsWaiting
    <2>2. Replied(s, h) = Send(s, x)
        BY <1>7 DEF Replied
    <2>3. x \in Fitting(s, WriteReqs) /\ x.op = h.op /\ h.op \notin Requests
        BY <1>2, <2>1, OtherFits
    <2> HIDE DEF x
    <2> QED
        BY <1>5, <2>2, <2>3
<1>8. CASE h.result = "ok" /\ h.code = "PUBREC"
    <2> DEFINE x == PubRel(s, h.op, FALSE)
    <2>1. h.op \in Requests /\ kind[h.op] = "qos2"
        BY <1>1, <1>2, <1>8, AwaitedIs DEF IsWaiting
    <2>2. Replied(s, h) = Send(s, x)
        BY <1>8 DEF Replied
    <2>3. x \in Fitting(s, WriteReqs) /\ x.op = h.op
        BY <1>1, <2>1, PubRelFits
    <2>4. x.throttled = FALSE
        BY DEF PubRel, WriteReq
    <2> HIDE DEF x
    <2> QED
        BY <1>5, <2>2, <2>3, <2>4
<1>9. CASE h.result # "aborted" /\ h.code # "PUBREL" /\ ~ (h.result = "ok" /\ h.code = "PUBREC")
    <2> DEFINE status == IF h.result = "ok" THEN "done" ELSE "failed"
    <2>1. h.op \in Requests
        BY <1>2, <1>9 DEF IsWaiting
    <2>2. Replied(s, h) = Finish(s, h.op, status)
        BY <1>9 DEF Replied
    <2>3. status \in {"done", "failed", "aborted"} /\ status # "aborted"
        OBVIOUS
    <2> HIDE DEF status
    <2> QED
        BY <1>4, <2>1, <2>2, <2>3
<1> QED
    BY <1>2, <1>6, <1>7, <1>8, <1>9

-----------------------------------------------------------------------------
(* What is sent again, and what was written *)

\* Who waits again.
LEMMA WaiterFits ==
    ASSUME NEW s, NEW op, NEW code, NEW pid \in Nat, op \in Requests => pid = s.pid[op],
           \/ op \in Requests /\ kind[op] # "qos0"
              /\ kind \in [Requests -> {"qos0", "qos1", "qos2", "subscribe", "unsubscribe"}]
              /\ (code = Awaited(op) \/ (code = "PUBCOMP" /\ kind[op] = "qos2"))
           \/ op \in Incoming /\ code = "PUBREL"
    PROVE  Expecting(op, code, pid, "none") \in Fitting(s, Waiters)
<1> DEFINE w == Expecting(op, code, pid, "none")
<1>1. op \in Anyone /\ code \in ReplyCodes
    BY AwaitedIs DEF Anyone, ReplyCodes
<1>2. w \in [op : Anyone, code : ReplyCodes, pid : Nat, result : {"none"}]
    BY <1>1 DEF Expecting
<1>3. w.op = op /\ w.code = code /\ w.pid = pid
    BY DEF Expecting
<1> HIDE DEF w
<1>4. IsWaiting(w)
    BY <1>3 DEF IsWaiting
<1> QED
    BY <1>2, <1>3, <1>4 DEF Fitting, Waiters, w

\* The second packet of a publication of QoS 2 is sent afresh.
LEMMA ReleaseKeeps ==
    ASSUME NEW s, NEW D, Sane(s, D), NEW r \in D, kind[r] = "qos2"
    PROVE  /\ Keeps(s, Send(s, PubRel(s, r, TRUE)), D \ {r})
           /\ Within(s, D) => Within(Send(s, PubRel(s, r, TRUE)), D \ {r})
<1> DEFINE x == PubRel(s, r, TRUE)
<1>1. x \in Fitting(s, WriteReqs) /\ x.op = r
    BY PubRelFits DEF Sane
<1>2. x.throttled = TRUE
    BY DEF PubRel, WriteReq
<1> HIDE DEF x
<1>3. /\ Keeps(s, Send(s, x), D \ {r})
      /\ \A N \in SUBSET D : Within(s, N) /\ r \in N => Within(Send(s, x), N \ {r})
    BY <1>1, <1>2, SendKeeps
<1> QED
    BY <1>3 DEF x

\* Who awaited a reply is sent again, or ends, or awaits it again.
LEMMA UnansweredKeeps ==
    ASSUME NEW s, NEW D, Sane(s, D), NEW h \in Fitting(s, Waiters), h.op \in Requests => h.op \in D
    PROVE  /\ Keeps(s, Unanswered(s, h), D \ {h.op})
           /\ Within(s, D) => Within(Unanswered(s, h), D \ {h.op})
<1>1. /\ s \in Clients
            /\ kind \in [Requests -> {"qos0", "qos1", "qos2", "subscribe", "unsubscribe"}]
      /\ Requests \cap Incoming = {}
    BY DeliveryAssumption DEF Sane
<1>2. IsWaiting(h) /\ h.pid \in Nat /\ (h.op \in Requests => h.pid = s.pid[h.op])
    BY DEF Fitting, Waiters
<1>3. CASE h.code = "PUBREL"
    <2>1. h.op \in Incoming
        BY <1>1, <1>2, <1>3, AwaitedIs DEF IsWaiting
    <2>2. Expecting(h.op, "PUBREL", h.pid, "none") \in Fitting(s, Waiters)
        BY <1>2, <2>1, WaiterFits
    <2>3. h.op \notin Requests
        BY <1>1, <2>1
    <2>4. /\ Keeps(s, WaitReply(s, "PUBREL", h.pid, h.op), D \ {h.op})
          /\ Within(s, D) => Within(WaitReply(s, "PUBREL", h.pid, h.op), D)
        BY <2>2, <2>3, WaitReplyKeeps
    <2>5. D \ {h.op} = D
        BY <2>3 DEF Sane
    <2> QED
        BY <1>3, <2>4, <2>5 DEF Unanswered
<1>4. CASE h.code = "PUBCOMP"
    <2>1. h.op \in Requests /\ kind[h.op] = "qos2"
        BY <1>1, <1>2, <1>4, AwaitedIs DEF IsWaiting
    <2> QED
        BY <1>4, <2>1, ReleaseKeeps DEF Unanswered
<1>5. CASE h.code # "PUBREL" /\ h.code # "PUBCOMP"
    <2>1. h.op \in Requests
        BY <1>2, <1>5 DEF IsWaiting
    <2>2. /\ Keeps(s, Again(s, h.op), D \ {h.op})
          /\ Within(s, D) => Within(Again(s, h.op), D \ {h.op})
        BY <2>1, AgainKeeps
    <2> QED
        BY <1>5, <2>2 DEF Unanswered
<1> QED
    BY <1>3, <1>4, <1>5

\* Which packets are whose.
LEMMA PacketsAre ==
    ASSUME NEW s, NEW x \in Fitting(s, WriteReqs)
    PROVE  /\ x.code \in PacketCodes /\ x.pid \in Nat /\ (x.op \in Requests => x.pid = s.pid[x.op])
           /\ x.code \in {"PUBLISH", "SUBSCRIBE", "UNSUBSCRIBE"} => x.op \in Requests
                 /\ x.code = BeginsWith(x.op)
           /\ x.code = "PUBREL" => x.op \in Requests /\ kind[x.op] = "qos2"
           /\ x.code \in {"PUBACK", "PUBREC", "PUBCOMP"} => x.op \in Incoming
           /\ x.code \notin {"PUBLISH", "SUBSCRIBE", "UNSUBSCRIBE", "PUBREL"} =>
                 x.op \notin Requests
<1>1. IsWrite(x) /\ x.code \in PacketCodes /\ x.pid \in Nat
   /\ (x.op \in Requests => x.pid = s.pid[x.op])
    BY DEF Fitting, WriteReqs
<1>2. Requests \cap Incoming = {} /\ Nobody \notin Requests
    BY DeliveryAssumption
<1>3. BeginsWith(x.op) \in {"PUBLISH", "SUBSCRIBE", "UNSUBSCRIBE"}
    BY DEF BeginsWith
<1> QED
    BY <1>1, <1>2, <1>3 DEF IsWrite

\* So is who waited to be written.
LEMMA UnwrittenKeeps ==
    ASSUME NEW s, NEW D, Sane(s, D), NEW x \in Fitting(s, WriteReqs), x.op \in Requests =>
       x.op \in D
    PROVE  /\ Keeps(s, Unwritten(s, x), D \ {x.op})
           /\ Within(s, D) => Within(Unwritten(s, x), D \ {x.op})
<1>1. s \in Clients
    BY DEF Sane
<1>2. CASE x.code \in {"PUBLISH", "SUBSCRIBE", "UNSUBSCRIBE"}
    <2>1. x.op \in Requests
        BY <1>2, PacketsAre
    <2>2. /\ Keeps(s, Again(s, x.op), D \ {x.op})
          /\ Within(s, D) => Within(Again(s, x.op), D \ {x.op})
        BY <2>1, AgainKeeps
    <2> QED
        BY <1>2, <2>2 DEF Unwritten
<1>3. CASE x.code = "PUBREL"
    <2>1. x.op \in Requests /\ kind[x.op] = "qos2"
        BY <1>3, PacketsAre
    <2> QED
        BY <1>3, <2>1, ReleaseKeeps DEF Unwritten
<1>4. CASE x.code = "PUBCOMP"
    <2>1. x.op \in Incoming /\ x.pid \in Nat /\ (x.op \in Requests => x.pid = s.pid[x.op])
        BY <1>4, PacketsAre
    <2>2. Expecting(x.op, "PUBREL", x.pid, "none") \in Fitting(s, Waiters)
        BY <2>1, WaiterFits
    <2>3. x.op \notin Requests
        BY <2>1, DeliveryAssumption
    <2>4. /\ Keeps(s, WaitReply(s, "PUBREL", x.pid, x.op), D \ {x.op})
          /\ Within(s, D) => Within(WaitReply(s, "PUBREL", x.pid, x.op), D)
        BY <2>2, <2>3, WaitReplyKeeps
    <2>5. D \ {x.op} = D
        BY <2>3 DEF Sane
    <2> QED
        BY <1>4, <2>4, <2>5 DEF Unwritten
<1>5. CASE x.code \notin {"PUBLISH", "SUBSCRIBE", "UNSUBSCRIBE", "PUBREL", "PUBCOMP"}
    <2>1. x.op \notin Requests
        BY <1>5, PacketsAre
    <2>2. Keeps(s, s, D \ {x.op}) /\ (Within(s, D) => Within(s, D \ {x.op}))
        BY <2>1, SelfKeeps
    <2> QED
        BY <1>5, <2>2 DEF Unwritten
<1> QED
    BY <1>2, <1>3, <1>4, <1>5

\* Who was written awaits a reply, or ends.
LEMMA WrittenKeeps ==
    ASSUME NEW s, NEW D, Sane(s, D), NEW x \in Fitting(s, WriteReqs), x.op \in Requests =>
       x.op \in D
    PROVE  /\ Keeps(s, Written(s, x), D \ {x.op})
           /\ Within(s, {}) => Within(Written(s, x), {})
<1>1. s \in Clients /\ kind \in [Requests -> {"qos0", "qos1", "qos2", "subscribe", "unsubscribe"}]
    BY DEF Sane
<1>2. x.code \in PacketCodes /\ x.pid \in Nat /\ (x.op \in Requests => x.pid = s.pid[x.op])
    BY PacketsAre
<1>3. CASE x.code = "PUBLISH" /\ kind[x.op] = "qos0"
    <2>1. x.op \in Requests
        BY <1>3, PacketsAre
    <2>2. /\ Keeps(s, Finish(s, x.op, "done"), D \ {x.op})
          /\ \A N \in SUBSET D : Within(s, N) /\ (x.op \in N => ~ Limited(s))
                               => Within(Finish(s, x.op, "done"), N \ {x.op})
        BY <2>1, FinishKeeps
    <2>3. {} \in SUBSET D /\ {} \ {x.op} = {} /\ x.op \notin {}
        OBVIOUS
    <2> QED
        BY <1>3, <2>2, <2>3 DEF Written
<1>4. CASE x.code \in {"PUBLISH", "SUBSCRIBE", "UNSUBSCRIBE"}
   /\ ~ (x.code = "PUBLISH" /\ kind[x.op] = "qos0")
    <2>1. x.op \in Requests /\ x.code = BeginsWith(x.op)
        BY <1>4, PacketsAre
    <2>2. kind[x.op] # "qos0"
        BY <1>4, <2>1 DEF BeginsWith
    <2>3. Expecting(x.op, Awaited(x.op), x.pid, "none") \in Fitting(s, Waiters)
        BY <1>1, <1>2, <2>1, <2>2, WaiterFits
    <2>4. /\ Keeps(s, WaitReply(s, Awaited(x.op), x.pid, x.op), D \ {x.op})
          /\ Within(s, {}) => Within(WaitReply(s, Awaited(x.op), x.pid, x.op), {})
        BY <2>3, WaitReplyKeeps
    <2>5. Written(s, x) = WaitReply(s, Awaited(x.op), x.pid, x.op)
        BY <1>4, <2>2 DEF Written
    <2> QED
        BY <2>4, <2>5
<1>5. CASE x.code = "PUBREL"
    <2>1. x.op \in Requests /\ kind[x.op] = "qos2"
        BY <1>5, PacketsAre
    <2>2. Expecting(x.op, "PUBCOMP", x.pid, "none") \in Fitting(s, Waiters)
        BY <1>1, <1>2, <2>1, WaiterFits
    <2>3. /\ Keeps(s, WaitReply(s, "PUBCOMP", x.pid, x.op), D \ {x.op})
          /\ Within(s, {}) => Within(WaitReply(s, "PUBCOMP", x.pid, x.op), {})
        BY <2>2, WaitReplyKeeps
    <2> QED
        BY <1>5, <2>3 DEF Written
<1>6. CASE x.code = "PUBREC"
    <2>1. x.op \in Incoming
        BY <1>6, PacketsAre
    <2>2. Expecting(x.op, "PUBREL", x.pid, "none") \in Fitting(s, Waiters)
        BY <1>2, <2>1, WaiterFits
    <2>3. /\ Keeps(s, WaitReply(s, "PUBREL", x.pid, x.op), D \ {x.op})
          /\ Within(s, {}) => Within(WaitReply(s, "PUBREL", x.pid, x.op), {})
        BY <2>2, WaitReplyKeeps
    <2> QED
        BY <1>6, <2>3 DEF Written
<1>7. CASE x.code \in {"PUBACK", "PUBCOMP"}
    <2>1. x.op \in Incoming
        BY <1>7, PacketsAre
    <2>2. Keeps(s, Store(s, x.op), D \ {x.op}) /\ (Within(s, {}) => Within(Store(s, x.op), {}))
        BY <2>1, StoreKeeps
    <2> QED
        BY <1>7, <2>2 DEF Written
<1>8. CASE x.code = "DISCONNECT"
    <2> DEFINE t == [s EXCEPT !.shut = TRUE]
    <2>1. x.op \notin Requests
        BY <1>8, PacketsAre
    <2>2. t \in Clients
        BY <1>1 DEF Clients
    <2>3. Untouched(s, t) /\ t.quota = s.quota /\ t.limit = s.limit
        BY <1>1 DEF Untouched, Alike, Clients
    <2>4. Written(s, x) = t
        BY <1>8 DEF Written
    <2> HIDE DEF t
    <2>5. Keeps(s, t, D) /\ (Within(s, {}) => Within(t, {}))
        BY <2>2, <2>3, UntouchedKeeps, WithinSame DEF Untouched
    <2>6. D \ {x.op} = D
        BY <2>1 DEF Sane
    <2> QED
        BY <2>4, <2>5, <2>6
<1> QED
    BY <1>2, <1>3, <1>4, <1>5, <1>6, <1>7, <1>8 DEF PacketCodes

\* Who is aborted ends.
LEMMA AbortedKeeps ==
    ASSUME NEW s, NEW D, Sane(s, D), ~ s.open, NEW x, x.op \in Requests => x.op \in D
    PROVE  Keeps(s, Aborted(s, x), D \ {x.op})
<1>1. x.op \in Requests => Keeps(s, Finish(s, x.op, "aborted"), D \ {x.op})
    BY FinishKeeps DEF MayAbort
<1>2. x.op \notin Requests => Keeps(s, s, D \ {x.op})
    BY SelfKeeps
<1> QED
    BY <1>1, <1>2 DEF Aborted

-----------------------------------------------------------------------------
(* The loops over the lists *)

\* FoldLeft for each of the functions that the loops call.
Sorting == INSTANCE SequenceLemmas WITH Op <- InsertInOrder
Answering == INSTANCE SequenceLemmas WITH Op <- Unanswered
Rewriting == INSTANCE SequenceLemmas WITH Op <- Unwritten
Ending == INSTANCE SequenceLemmas WITH Op <- Written
Aborting == INSTANCE SequenceLemmas WITH Op <- Aborted

\* A packet put in its place is one more packet of the queue.
LEMMA InsertInOrderTells ==
    ASSUME NEW T, NEW l \in Seq(T), NEW x \in T, NEW r
    PROVE  /\ InsertInOrder(l, x) \in Seq(T)
           /\ Count(InsertInOrder(l, x), r) = Count(l, r) + IF x.op = r THEN 1 ELSE 0
<1> DEFINE S == {0} \cup {i \in DOMAIN l : ~ Precedes(x, l[i])}
           k == 1 + Max(S)
<1>1. Len(l) \in Nat /\ S \subseteq 0 .. Len(l) /\ S # {}
    BY LenProperties
<1>2. Max(S) \in S
    <2> HIDE DEF S
    <2> QED
        BY <1>1, MaxOfNats
<1>3. Max(S) \in 0 .. Len(l)
    <2> HIDE DEF S
    <2> QED
        BY <1>1, <1>2
<1> HIDE DEF S
<1>4. k \in 1 .. Len(l) + 1
    BY <1>1, <1>3
<1>5. InsertInOrder(l, x) = InsertAt(l, k, x)
    BY DEF InsertInOrder, S
<1> HIDE DEF k
<1> QED
    BY <1>4, <1>5, CountInsert

\* std::stable_sort loses no packet, and adds none.
LEMMA SortedTells ==
    ASSUME NEW T, NEW l \in Seq(T), NEW r
    PROVE  Sorted(l) \in Seq(T) /\ Count(Sorted(l), r) = Count(l, r)
<1> DEFINE n == Len(l)
           C(i) == Count(SubSeq(l, 1, i), r)
           Q == [i \in 0 .. n |-> {q \in Seq(T) : Count(q, r) = C(i)}]
<1>1. n \in Nat
    BY LenProperties
<1>2. <<>> \in Q[0]
    <2>1. SubSeq(l, 1, 0) = <<>> /\ <<>> \in Seq(T)
        BY SubSeqEmpty, EmptySeq
    <2>2. Count(<<>>, r) = C(0)
        BY <2>1
    <2> HIDE DEF C
    <2> QED
        BY <1>1, <2>1, <2>2
<1>3. ASSUME NEW i \in 1 .. n, NEW q \in Q[i - 1]
      PROVE  InsertInOrder(q, l[i]) \in Q[i]
    <2>1. /\ i - 1 \in 0 .. n /\ i \in 0 .. n /\ i \in 1 .. Len(l) /\ 1 \in 1 .. Len(l)
          /\ i \in 1 .. Len(l) /\ l[i] \in T
        BY <1>1, ElementOfSeq
    <2>2. q \in Seq(T) /\ Count(q, r) = C(i - 1)
        BY <1>3, <2>1
    <2> DEFINE a == SubSeq(l, 1, i - 1)
    <2>3. a \in Seq(T)
        BY <2>1, CountCut
    <2>4. SubSeq(l, 1, i) = Append(a, l[i])
        <3>1. SubSeq(l, 1, i) = SubSeq(l, 1, i - 1) \o <<l[i]>>
            BY <2>1, SubSeqRecursiveSecond
        <3> HIDE DEF a
        <3> QED
            BY <2>1, <2>3, <3>1, AppendIsConcat DEF a
    <2> HIDE DEF a
    <2>5. Count(Append(a, l[i]), r) = Count(a, r) + IF l[i].op = r THEN 1 ELSE 0
        BY <2>1, <2>3, CountAppend
    <2> DEFINE p == InsertInOrder(q, l[i])
    <2>6. p \in Seq(T) /\ Count(p, r) = Count(q, r) + IF l[i].op = r THEN 1 ELSE 0
        BY <2>1, <2>2, InsertInOrderTells
    <2> HIDE DEF p
    <2>7. Count(q, r) = Count(a, r)
        BY <2>2 DEF a
    <2>8. Count(p, r) = C(i)
        BY <2>4, <2>5, <2>6, <2>7
    <2> HIDE DEF C
    <2>9. p \in Q[i]
        BY <2>1, <2>6, <2>8
    <2> QED
        BY <2>9 DEF p
<1> HIDE DEF Q
<1>4. Sorting!LeadsOn(Q, l)
    BY <1>3 DEF Sorting!LeadsOn
<1>5. Sorting!FoldLeft(InsertInOrder, <<>>, l) \in Q[n]
    BY <1>2, <1>4, Sorting!FoldSteps
<1>6. Sorted(l) \in Q[n]
    BY <1>5 DEF Sorted, FoldLeft, MapThenFoldSet, Sorting!FoldLeft, Sorting!MapThenFoldSet, Max,
       Sorting!Max
<1>7. SubSeq(l, 1, n) = l
    BY SubSeqFull
<1>8. Sorted(l) \in Seq(T) /\ Count(Sorted(l), r) = C(n)
    BY <1>1, <1>6 DEF Q
<1> QED
    BY <1>7, <1>8

\* Who waits for room in a list does so in the sorted one.
LEMMA SortedWaits ==
    ASSUME NEW T, NEW l \in Seq(T), NEW r, Count(l, r) \in {0, 1}
    PROVE  Waits(Sorted(l), r) <=> Waits(l, r)
<1> DEFINE S == {l[i] : i \in DOMAIN l}
           q == Sorted(l)
<1>1. l \in Seq(S)
    BY MembersOf
<1> HIDE DEF S
<1>2. q \in Seq(S) /\ Count(q, r) = Count(l, r)
    BY <1>1, SortedTells
<1> HIDE DEF q
<1>3. \A j \in DOMAIN q : \E i \in DOMAIN l : q[j] = l[i]
    <2>1. \A j \in DOMAIN q : q[j] \in S
        BY <1>2, LenProperties, ElementOfSeq
    <2> QED
        BY <2>1 DEF S
<1>4. ASSUME Waits(q, r) PROVE Waits(l, r)
    BY <1>3, <1>4 DEF Waits
<1>5. ASSUME Waits(l, r) PROVE Waits(q, r)
    <2>1. PICK i \in DOMAIN l : l[i].op = r /\ l[i].throttled
        BY <1>5 DEF Waits
    <2>2. Count(l, r) = 1 /\ \A k \in DOMAIN l : l[k].op = r => k = i
        BY <2>1, CountTells
    <2>3. PICK j \in DOMAIN q : q[j].op = r
        BY <1>2, <2>2, CountTells
    <2>4. q[j] = l[i]
        BY <1>3, <2>2, <2>3
    <2> QED
        BY <2>1, <2>3, <2>4 DEF Waits
<1> QED
    BY <1>4, <1>5 DEF q

\* The requests a loop over a list has to handle after place i, and those it is not to.
Left(l, E, i) == E \cup {r \in Requests : \E j \in i + 1 .. Len(l) : l[j].op = r}
Distinct(l, E) ==
    \A i, j \in 1 .. Len(l) :
       l[i].op \in Requests => l[i].op \notin E /\ (l[i].op = l[j].op => i = j)

\* A request that is handled is not left.
LEMMA LeftGoes ==
    ASSUME NEW T, NEW l \in Seq(T), NEW E \in SUBSET Requests, Distinct(l, E), NEW i \in 1 .. Len(l)
    PROVE  /\ Left(l, E, i - 1) \ {l[i].op} = Left(l, E, i)
           /\ l[i].op \in Requests => l[i].op \in Left(l, E, i - 1)
<1>1. Len(l) \in Nat
    BY LenProperties
<1>2. \A j : j \in (i - 1) + 1 .. Len(l) <=> j = i \/ j \in i + 1 .. Len(l)
    BY <1>1
<1>3. l[i].op \in Requests => l[i].op \in Left(l, E, i - 1)
    BY <1>2 DEF Left
<1>4. \A j \in i + 1 .. Len(l) : j \in 1 .. Len(l) /\ j # i
    BY <1>1
<1>5. ASSUME NEW r
      PROVE  r \in Left(l, E, i - 1) \ {l[i].op} <=> r \in Left(l, E, i)
    <2>1. r \in Left(l, E, i - 1) <=> r \in Left(l, E, i) \/ (r \in Requests /\ r = l[i].op)
        BY <1>2 DEF Left
    <2>2. r = l[i].op => r \notin Left(l, E, i)
        BY <1>4 DEF Left, Distinct
    <2>3. Left(l, E, i) \subseteq Requests
        BY DEF Left
    <2> QED
        BY <2>1, <2>2, <2>3
<1> QED
    BY <1>3, <1>5

\* resend_unanswered handles all who awaited a reply.
LEMMA UnansweredFolds ==
    ASSUME NEW s, NEW D, Sane(s, D), NEW E \in SUBSET Requests,
           NEW l \in Seq(Fitting(s, Waiters)), Distinct(l, E), D = Left(l, E, 0)
    PROVE  /\ Keeps(s, FoldLeft(Unanswered, s, l), E)
           /\ Within(s, D) => Within(FoldLeft(Unanswered, s, l), E)
<1> DEFINE n == Len(l)
           Good(t, i) == Keeps(s, t, Left(l, E, i)) /\ (Within(s, D) => Within(t, Left(l, E, i)))
           Q == [i \in 0 .. n |-> {t \in Clients : Good(t, i)}]
<1>1. n \in Nat /\ \A i \in 1 .. n : i \in 1 .. Len(l) /\ l[i] \in Fitting(s, Waiters)
    BY LenProperties, ElementOfSeq
<1>2. s \in Q[0]
    <2>1. s \in Clients /\ Keeps(s, s, Left(l, E, 0))
        BY DEF Sane, Keeps
    <2> QED
        BY <1>1, <2>1
<1>3. ASSUME NEW i \in 1 .. n, NEW t \in Q[i - 1]
      PROVE  Unanswered(t, l[i]) \in Q[i]
    <2> DEFINE x == l[i]
               F == Left(l, E, i - 1)
               u == Unanswered(t, x)
    <2>1. Keeps(s, t, F) /\ (Within(s, D) => Within(t, F))
        BY <1>3
    <2>2. x \in Fitting(s, Waiters) /\ i \in 1 .. Len(l)
        BY <1>1
    <2>3. F \ {x.op} = Left(l, E, i) /\ (x.op \in Requests => x.op \in F)
        BY <2>2, LeftGoes
    <2> HIDE DEF F, x
    <2>4. Sane(t, F)
        BY <2>1 DEF Keeps
    <2>5. x \in Fitting(t, Waiters)
        BY <2>1, <2>2, <2>3 DEF Keeps, Fitting
    <2>6. Keeps(t, u, F \ {x.op}) /\ (Within(t, F) => Within(u, F \ {x.op}))
        BY <2>3, <2>4, <2>5, UnansweredKeeps
    <2>7. Keeps(s, u, F \ {x.op})
        BY <2>1, <2>6, KeepsOn
    <2>8. /\ Keeps(s, u, Left(l, E, i)) /\ u \in Clients
          /\ Within(s, D) => Within(u, Left(l, E, i))
        BY <2>1, <2>3, <2>6, <2>7 DEF Keeps, Sane
    <2> HIDE DEF u
    <2>9. u \in Q[i]
        BY <1>1, <2>8
    <2> QED
        BY <2>9 DEF u, x
<1> HIDE DEF Q
<1>4. Answering!LeadsOn(Q, l)
    BY <1>3 DEF Answering!LeadsOn
<1>5. Answering!FoldLeft(Unanswered, s, l) \in Q[n]
    BY <1>2, <1>4, Answering!FoldSteps
<1>6. FoldLeft(Unanswered, s, l) \in Q[n]
    BY <1>5 DEF FoldLeft, MapThenFoldSet, Answering!FoldLeft, Answering!MapThenFoldSet, Max,
       Answering!Max
<1>7. /\ Keeps(s, FoldLeft(Unanswered, s, l), Left(l, E, n))
      /\ Within(s, D) => Within(FoldLeft(Unanswered, s, l), Left(l, E, n))
    <2> DEFINE t == FoldLeft(Unanswered, s, l)
    <2>1. t \in Q[n] /\ n \in 0 .. n
        BY <1>1, <1>6
    <2> HIDE DEF t, Good, n
    <2>2. Good(t, n)
        BY <2>1 DEF Q
    <2> QED
        BY <2>2 DEF t, Good
<1>8. Left(l, E, n) = E
    BY <1>1 DEF Left
<1> QED
    BY <1>7, <1>8

\* resend handles all who waited to be written.
LEMMA UnwrittenFolds ==
    ASSUME NEW s, NEW D, Sane(s, D), NEW E \in SUBSET Requests,
           NEW l \in Seq(Fitting(s, WriteReqs)), Distinct(l, E), D = Left(l, E, 0)
    PROVE  /\ Keeps(s, FoldLeft(Unwritten, s, l), E)
           /\ Within(s, D) => Within(FoldLeft(Unwritten, s, l), E)
<1> DEFINE n == Len(l)
           Good(t, i) == Keeps(s, t, Left(l, E, i)) /\ (Within(s, D) => Within(t, Left(l, E, i)))
           Q == [i \in 0 .. n |-> {t \in Clients : Good(t, i)}]
<1>1. n \in Nat /\ \A i \in 1 .. n : i \in 1 .. Len(l) /\ l[i] \in Fitting(s, WriteReqs)
    BY LenProperties, ElementOfSeq
<1>2. s \in Q[0]
    <2>1. s \in Clients /\ Keeps(s, s, Left(l, E, 0))
        BY DEF Sane, Keeps
    <2> QED
        BY <1>1, <2>1
<1>3. ASSUME NEW i \in 1 .. n, NEW t \in Q[i - 1]
      PROVE  Unwritten(t, l[i]) \in Q[i]
    <2> DEFINE x == l[i]
               F == Left(l, E, i - 1)
               u == Unwritten(t, x)
    <2>1. Keeps(s, t, F) /\ (Within(s, D) => Within(t, F))
        BY <1>3
    <2>2. x \in Fitting(s, WriteReqs) /\ i \in 1 .. Len(l)
        BY <1>1
    <2>3. F \ {x.op} = Left(l, E, i) /\ (x.op \in Requests => x.op \in F)
        BY <2>2, LeftGoes
    <2> HIDE DEF F, x
    <2>4. Sane(t, F)
        BY <2>1 DEF Keeps
    <2>5. x \in Fitting(t, WriteReqs)
        BY <2>1, <2>2, <2>3 DEF Keeps, Fitting
    <2>6. Keeps(t, u, F \ {x.op}) /\ (Within(t, F) => Within(u, F \ {x.op}))
        BY <2>3, <2>4, <2>5, UnwrittenKeeps
    <2>7. Keeps(s, u, F \ {x.op})
        BY <2>1, <2>6, KeepsOn
    <2>8. /\ Keeps(s, u, Left(l, E, i)) /\ u \in Clients
          /\ Within(s, D) => Within(u, Left(l, E, i))
        BY <2>1, <2>3, <2>6, <2>7 DEF Keeps, Sane
    <2> HIDE DEF u
    <2>9. u \in Q[i]
        BY <1>1, <2>8
    <2> QED
        BY <2>9 DEF u, x
<1> HIDE DEF Q
<1>4. Rewriting!LeadsOn(Q, l)
    BY <1>3 DEF Rewriting!LeadsOn
<1>5. Rewriting!FoldLeft(Unwritten, s, l) \in Q[n]
    BY <1>2, <1>4, Rewriting!FoldSteps
<1>6. FoldLeft(Unwritten, s, l) \in Q[n]
    BY <1>5 DEF FoldLeft, MapThenFoldSet, Rewriting!FoldLeft, Rewriting!MapThenFoldSet, Max,
       Rewriting!Max
<1>7. /\ Keeps(s, FoldLeft(Unwritten, s, l), Left(l, E, n))
      /\ Within(s, D) => Within(FoldLeft(Unwritten, s, l), Left(l, E, n))
    <2> DEFINE t == FoldLeft(Unwritten, s, l)
    <2>1. t \in Q[n] /\ n \in 0 .. n
        BY <1>1, <1>6
    <2> HIDE DEF t, Good, n
    <2>2. Good(t, n)
        BY <2>1 DEF Q
    <2> QED
        BY <2>2 DEF t, Good
<1>8. Left(l, E, n) = E
    BY <1>1 DEF Left
<1> QED
    BY <1>7, <1>8

\* The completion of a write handles all that were written.
LEMMA WrittenFolds ==
    ASSUME NEW s, NEW D, Sane(s, D), NEW E \in SUBSET Requests,
           NEW l \in Seq(Fitting(s, WriteReqs)), Distinct(l, E), D = Left(l, E, 0)
    PROVE  /\ Keeps(s, FoldLeft(Written, s, l), E)
           /\ Within(s, {}) => Within(FoldLeft(Written, s, l), {})
<1> DEFINE n == Len(l)
           Good(t, i) == Keeps(s, t, Left(l, E, i)) /\ (Within(s, {}) => Within(t, {}))
           Q == [i \in 0 .. n |-> {t \in Clients : Good(t, i)}]
<1>1. n \in Nat /\ \A i \in 1 .. n : i \in 1 .. Len(l) /\ l[i] \in Fitting(s, WriteReqs)
    BY LenProperties, ElementOfSeq
<1>2. s \in Q[0]
    <2>1. s \in Clients /\ Keeps(s, s, Left(l, E, 0))
        BY DEF Sane, Keeps
    <2> QED
        BY <1>1, <2>1
<1>3. ASSUME NEW i \in 1 .. n, NEW t \in Q[i - 1]
      PROVE  Written(t, l[i]) \in Q[i]
    <2> DEFINE x == l[i]
               F == Left(l, E, i - 1)
               u == Written(t, x)
    <2>1. Keeps(s, t, F) /\ (Within(s, {}) => Within(t, {}))
        BY <1>3
    <2>2. x \in Fitting(s, WriteReqs) /\ i \in 1 .. Len(l)
        BY <1>1
    <2>3. F \ {x.op} = Left(l, E, i) /\ (x.op \in Requests => x.op \in F)
        BY <2>2, LeftGoes
    <2> HIDE DEF F, x
    <2>4. Sane(t, F)
        BY <2>1 DEF Keeps
    <2>5. x \in Fitting(t, WriteReqs)
        BY <2>1, <2>2, <2>3 DEF Keeps, Fitting
    <2>6. Keeps(t, u, F \ {x.op}) /\ (Within(t, {}) => Within(u, {}))
        BY <2>3, <2>4, <2>5, WrittenKeeps
    <2>7. Keeps(s, u, F \ {x.op})
        BY <2>1, <2>6, KeepsOn
    <2>8. /\ Keeps(s, u, Left(l, E, i)) /\ u \in Clients
          /\ Within(s, {}) => Within(u, {})
        BY <2>1, <2>3, <2>6, <2>7 DEF Keeps, Sane
    <2> HIDE DEF u
    <2>9. u \in Q[i]
        BY <1>1, <2>8
    <2> QED
        BY <2>9 DEF u, x
<1> HIDE DEF Q
<1>4. Ending!LeadsOn(Q, l)
    BY <1>3 DEF Ending!LeadsOn
<1>5. Ending!FoldLeft(Written, s, l) \in Q[n]
    BY <1>2, <1>4, Ending!FoldSteps
<1>6. FoldLeft(Written, s, l) \in Q[n]
    BY <1>5 DEF FoldLeft, MapThenFoldSet, Ending!FoldLeft, Ending!MapThenFoldSet, Max, Ending!Max
<1>7. /\ Keeps(s, FoldLeft(Written, s, l), Left(l, E, n))
      /\ Within(s, {}) => Within(FoldLeft(Written, s, l), {})
    <2> DEFINE t == FoldLeft(Written, s, l)
    <2>1. t \in Q[n] /\ n \in 0 .. n
        BY <1>1, <1>6
    <2> HIDE DEF t, Good, n
    <2>2. Good(t, n)
        BY <2>1 DEF Q
    <2> QED
        BY <2>2 DEF t, Good
<1>8. Left(l, E, n) = E
    BY <1>1 DEF Left
<1> QED
    BY <1>7, <1>8

\* So does a write that ends with an error.
LEMMA AbortedFolds ==
    ASSUME NEW s, NEW D, Sane(s, D), ~ s.open, NEW E \in SUBSET Requests,
           NEW l \in Seq(Fitting(s, WriteReqs)), Distinct(l, E), D = Left(l, E, 0)
    PROVE  Keeps(s, FoldLeft(Aborted, s, l), E)
<1> DEFINE n == Len(l)
           Q == [i \in 0 .. n |-> {t \in Clients : Keeps(s, t, Left(l, E, i))}]
<1>1. n \in Nat /\ \A i \in 1 .. n : i \in 1 .. Len(l) /\ l[i] \in Fitting(s, WriteReqs)
    BY LenProperties, ElementOfSeq
<1>2. s \in Q[0]
    <2>1. s \in Clients /\ Keeps(s, s, Left(l, E, 0))
        BY DEF Sane, Keeps
    <2> QED
        BY <1>1, <2>1
<1>3. ASSUME NEW i \in 1 .. n, NEW t \in Q[i - 1]
      PROVE  Aborted(t, l[i]) \in Q[i]
    <2> DEFINE x == l[i]
               F == Left(l, E, i - 1)
               u == Aborted(t, x)
    <2>1. Keeps(s, t, F)
        BY <1>3
    <2>2. x \in Fitting(s, WriteReqs) /\ i \in 1 .. Len(l)
        BY <1>1
    <2>3. F \ {x.op} = Left(l, E, i) /\ (x.op \in Requests => x.op \in F)
        BY <2>2, LeftGoes
    <2> HIDE DEF F, x
    <2>4. Sane(t, F) /\ ~ t.open
        BY <2>1 DEF Keeps
    <2>5. x \in Fitting(t, WriteReqs)
        BY <2>1, <2>2, <2>3 DEF Keeps, Fitting
    <2>6. Keeps(t, u, F \ {x.op})
        BY <2>3, <2>4, <2>5, AbortedKeeps
    <2>7. Keeps(s, u, F \ {x.op})
        BY <2>1, <2>6, KeepsOn
    <2>8. Keeps(s, u, Left(l, E, i)) /\ u \in Clients
        BY <2>3, <2>7 DEF Keeps, Sane
    <2> HIDE DEF u
    <2>9. u \in Q[i]
        BY <1>1, <2>8
    <2> QED
        BY <2>9 DEF u, x
<1> HIDE DEF Q
<1>4. Aborting!LeadsOn(Q, l)
    BY <1>3 DEF Aborting!LeadsOn
<1>5. Aborting!FoldLeft(Aborted, s, l) \in Q[n]
    BY <1>2, <1>4, Aborting!FoldSteps
<1>6. FoldLeft(Aborted, s, l) \in Q[n]
    BY <1>5 DEF FoldLeft, MapThenFoldSet, Aborting!FoldLeft, Aborting!MapThenFoldSet, Max,
       Aborting!Max
<1>7. Keeps(s, FoldLeft(Aborted, s, l), Left(l, E, n))
    BY <1>1, <1>6 DEF Q
<1>8. Left(l, E, n) = E
    BY <1>1 DEF Left
<1> QED
    BY <1>7, <1>8

\* A list in which no request is twice.
LEMMA OnceIsDistinct ==
    ASSUME NEW T, NEW l \in Seq(T), NEW E,
           \A r \in Requests : Count(l, r) \in {0, 1} /\ (r \in E => Count(l, r) = 0)
    PROVE  Distinct(l, E)
<1>1. DOMAIN l = 1 .. Len(l)
    BY LenProperties
<1>2. ASSUME NEW i \in 1 .. Len(l), NEW j \in 1 .. Len(l), l[i].op \in Requests
      PROVE  l[i].op \notin E /\ (l[i].op = l[j].op => i = j)
    <2> DEFINE r == l[i].op
    <2>1. Count(l, r) # 0
        BY <1>1, CountTells
    <2>2. Count(l, r) = 1 /\ r \notin E
        BY <1>2, <2>1
    <2>3. l[i].op = r /\ (l[j].op = r => i = j)
        BY <1>1, <2>2, CountTells
    <2> QED
        BY <2>2, <2>3
<1> QED
    BY <1>2 DEF Distinct

\* The requests that a loop over it has to handle when it begins.
LEMMA LeftIs ==
    ASSUME NEW T, NEW l \in Seq(T), NEW E, NEW r \in Requests
    PROVE  r \in Left(l, E, 0) <=> r \in E \/ Count(l, r) # 0
<1>1. DOMAIN l = 0 + 1 .. Len(l)
    BY LenProperties
<1> QED
    BY <1>1, CountTells DEF Left

-----------------------------------------------------------------------------
(* resend, and the changes that go on *)

\* What resend starts from, what it has told who awaits a reply, and who waits to be written.
Cleared(s) == [s EXCEPT !.writing = TRUE, !.limit = s.maximum, !.quota = s.maximum,
                        !.queue = <<>>, !.handlers = <<>>]
Retold(s) == FoldLeft(Unanswered, Cleared(s), s.handlers)
Refilled(s) == FoldLeft(Unwritten, Retold(s), s.queue)

\* resend comes to every request that is under way, once.
LEMMA ClearedKeeps ==
    ASSUME NEW s, Sane(s, {}), ~ s.writing,
           NEW E, E = Left(s.queue, {}, 0), NEW D, D = Left(s.handlers, E, 0)
    PROVE  /\ Cleared(s) \in Clients /\ Alike(s, Cleared(s)) /\ Cleared(s).queue = <<>>
           /\ Cleared(s).handlers = <<>> /\ Cleared(s).batch = <<>> /\ Cleared(s).posted = s.posted
           /\ Cleared(s).fast = s.fast /\ Cleared(s).wire = s.wire
           /\ Cleared(s).serial = s.serial /\ Cleared(s).stored = s.stored
           /\ Cleared(s).writing
           /\ E \in SUBSET Requests /\ Distinct(s.queue, {}) /\ Distinct(s.handlers, E)
           /\ Sane(Cleared(s), D) /\ s.handlers \in Seq(Fitting(Cleared(s), Waiters))
           /\ Keeps(Cleared(s), Retold(s), E) /\ s.queue \in Seq(Fitting(Retold(s), WriteReqs))
           /\ Keeps(Retold(s), Refilled(s), {})
           /\ s.posted = <<>> => Within(Refilled(s), {})
<1> DEFINE cleared == Cleared(s)
           told == Retold(s)
           refilled == Refilled(s)
<1>1. /\ s \in Clients /\ s.queue \in Seq(WriteReqs) /\ s.handlers \in Seq(Waiters)
      /\ s.queue \in Seq(Fitting(s, WriteReqs)) /\ s.handlers \in Seq(Fitting(s, Waiters))
      /\ s.batch = <<>> /\ s.maximum \in 1 .. Unlimited
    BY DEF Sane, Matching, Clients
<1>3. ASSUME NEW r \in Requests
      PROVE  /\ Count(s.queue, r) \in {0, 1} /\ Count(s.handlers, r) \in {0, 1}
             /\ Count(s.queue, r) # 0 => Count(s.handlers, r) = 0
             /\ Count(s.queue, r) + Count(s.handlers, r) + Count(s.posted, r) =
                   IF Sent(s, r) THEN 1 ELSE 0
             /\ Count(s.posted, r) \in Nat
    <2>1. /\ Count(s.queue, r) \in Nat /\ Count(s.handlers, r) \in Nat /\ Count(s.posted, r) \in Nat
          /\ Count(s.batch, r) = 0
        BY <1>1, HeldIsNat, CountEmpty
    <2>2. Held(s, r) = IF Sent(s, r) THEN 1 ELSE 0
        BY DEF Sane, Placed
    <2>3. Count(s.queue, r) + Count(s.handlers, r) + Count(s.posted, r) =
       IF Sent(s, r) THEN 1 ELSE 0
        BY <2>1, <2>2 DEF Held
    <2> QED
        BY <2>1, <2>3
<1>4. ASSUME NEW r \in Requests
      PROVE  /\ r \in E <=> Count(s.queue, r) # 0
             /\ r \in D <=> Count(s.queue, r) # 0 \/ Count(s.handlers, r) # 0
    BY <1>1, LeftIs
<1>5. E \in SUBSET Requests /\ D \in SUBSET Requests /\ E \subseteq D
    BY DEF Left
<1>6. Distinct(s.queue, {})
    BY <1>1, <1>3, OnceIsDistinct
<1>7. Distinct(s.handlers, E)
    BY <1>1, <1>3, <1>4, OnceIsDistinct
<1>8. cleared \in Clients
    <2>1. <<>> \in Seq(WriteReqs) /\ <<>> \in Seq(Waiters)
        BY EmptySeq
    <2>2. s.maximum \in Int
        BY <1>1
    <2> QED
        BY <1>1, <2>1, <2>2 DEF Clients, Cleared
<1>9. /\ Alike(s, cleared) /\ cleared.queue = <<>> /\ cleared.handlers = <<>>
            /\ cleared.batch = s.batch
      /\ cleared.posted = s.posted /\ cleared.writing = TRUE
      /\ cleared.quota = s.maximum /\ cleared.limit = s.maximum
      /\ cleared.fast = s.fast /\ cleared.wire = s.wire /\ cleared.serial = s.serial
      /\ cleared.stored = s.stored
    BY <1>1 DEF Clients, Alike, Cleared
<1> HIDE DEF cleared
<1>10. Sane(cleared, D)
    <2>1. \A r : Sent(cleared, r) <=> Sent(s, r)
        BY <1>9, AlikeKeeps
    <2>2. ASSUME NEW r \in Requests
          PROVE  Held(cleared, r) = IF Sent(cleared, r) /\ r \notin D THEN 1 ELSE 0
        <3>1. Held(cleared, r) = Count(s.posted, r)
            <4>1. Count(<<>>, r) = 0
                BY CountEmpty
            <4>2. Held(cleared, r) = 0 + 0 + 0 + Count(s.posted, r)
                BY <1>1, <1>9, <4>1 DEF Held
            <4> QED
                BY <1>3, <4>2
        <3> QED
            BY <1>3, <1>4, <2>1, <3>1
    <2>3. ASSUME NEW r \in D PROVE Sent(cleared, r)
        <3>1. r \in Requests
            BY <1>5
        <3> QED
            BY <1>3, <1>4, <2>1, <2>3, <3>1
    <2>4. Matching(cleared)
        <3>1. /\ <<>> \in Seq(Fitting(cleared, WriteReqs))
                    /\ <<>> \in Seq(Fitting(cleared, Waiters))
            BY EmptySeq
        <3>2. s.posted \in Seq(PostsOf(cleared))
            BY <1>9, AlikeKeeps DEF Sane, Matching
        <3> QED
            BY <1>1, <1>9, <3>1, <3>2 DEF Matching
    <2>5. Placed(cleared, D)
        BY <2>2 DEF Placed
    <2>6. Ids(cleared) /\ Excused(cleared)
        BY <1>9, AlikeKeeps DEF Sane
    <2>7. kind \in [Requests -> {"qos0", "qos1", "qos2", "subscribe", "unsubscribe"}]
        BY DEF Sane
    <2> QED
        BY <1>5, <1>8, <1>9, <2>3, <2>4, <2>5, <2>6, <2>7 DEF Sane
<1>11. s.posted = <<>> => Within(cleared, D)
    <2>1. SUFFICES ASSUME s.posted = <<>> PROVE Within(cleared, D)
        OBVIOUS
    <2>2. ASSUME NEW r \in Owing(cleared, D) PROVE FALSE
        <3>1. r \in Requests /\ Sent(s, r) /\ r \notin D
            BY <1>9, AlikeKeeps DEF Owing
        <3>2. Count(s.posted, r) = 0
            BY <2>1, CountEmpty
        <3> QED
            BY <1>3, <1>4, <3>1, <3>2
    <2>3. Owing(cleared, D) = {} /\ Cardinality({}) = 0
        BY <2>2, FS_EmptySet
    <2>4. s.maximum \in Nat
        BY <1>1
    <2>5. cleared.quota = s.maximum /\ cleared.limit = s.maximum
        BY <1>9
    <2>6. cleared.quota \in Nat /\ cleared.quota + Cardinality(Owing(cleared, D)) = cleared.limit
        <3> HIDE DEF cleared
        <3> QED
            BY <2>3, <2>4, <2>5
    <2> QED
        BY <2>6 DEF Within
<1>12. s.handlers \in Seq(Fitting(cleared, Waiters))
    BY <1>1, <1>9, AlikeKeeps
<1>13. Keeps(cleared, told, E) /\ (Within(cleared, D) => Within(told, E))
    BY <1>5, <1>7, <1>10, <1>12, UnansweredFolds DEF Retold, cleared
<1> HIDE DEF told
<1>14. s.queue \in Seq(Fitting(told, WriteReqs))
    <2>1. ASSUME NEW i \in DOMAIN s.queue
          PROVE  s.queue[i] \in Fitting(told, WriteReqs)
        <3> DEFINE x == s.queue[i]
        <3>1. x \in Fitting(s, WriteReqs)
            BY <1>1, LenProperties, ElementOfSeq
        <3>2. x.op \in Requests => x.op \in E
            BY <1>1, <1>4, CountTells
        <3>3. x.op \in Requests => told.pid[x.op] = s.pid[x.op]
            BY <1>9, <1>13, <3>2 DEF Keeps, Alike
        <3> HIDE DEF x
        <3>4. x \in Fitting(told, WriteReqs)
            BY <3>1, <3>3 DEF Fitting
        <3> QED
            BY <3>4 DEF x
    <2> QED
        BY <1>1, <2>1, MembersOf
<1>15. Keeps(told, refilled, {}) /\ (Within(told, E) => Within(refilled, {}))
    <2>1. Sane(told, E)
        BY <1>13 DEF Keeps
    <2>2. {} \in SUBSET Requests
        OBVIOUS
    <2> QED
        BY <1>6, <1>14, <2>1, <2>2, UnwrittenFolds DEF Refilled, told
<1> HIDE DEF refilled
<1> QED
    BY <1>1, <1>5, <1>6, <1>7, <1>8, <1>9, <1>10, <1>11, <1>12, <1>13, <1>14, <1>15
       DEF cleared, told, refilled

\* resend puts every request that is under way in one place, and starts from the whole quota.
LEMMA SenderResendKeeps ==
    ASSUME NEW s, Sane(s, {}), ~ s.writing
    PROVE  /\ Sane(SenderResend(s), {}) /\ Steady(SenderResend(s))
           /\ SenderResend(s).open = s.open /\ SenderResend(s).abandoned = s.abandoned
           /\ s.posted = <<>> => Within(SenderResend(s), {})
<1> DEFINE cleared == Cleared(s)
           told == Retold(s)
           refilled == Refilled(s)
           queue == Sorted(refilled.queue)
           sorted == [refilled EXCEPT !.queue = queue, !.writing = FALSE]
           E == Left(s.queue, {}, 0)
           D == Left(s.handlers, E, 0)
<1>1. /\ Alike(s, cleared) /\ cleared.batch = <<>> /\ E \in SUBSET Requests
      /\ Keeps(cleared, told, E) /\ cleared.writing
      /\ Keeps(told, refilled, {}) /\ (s.posted = <<>> => Within(refilled, {}))
    <2> HIDE DEF E, D
    <2>1. E = Left(s.queue, {}, 0) /\ D = Left(s.handlers, E, 0)
        BY DEF E, D
    <2> QED
        BY <2>1, ClearedKeeps
<1>2. SenderResend(s) = DoWrite(sorted)
    BY Zenon DEF SenderResend, Cleared, Retold, Refilled
<1> HIDE DEF cleared, told, refilled, E, D
<1>3. /\ Sane(refilled, {}) /\ refilled.batch = <<>> /\ refilled.open = s.open
       /\ refilled.abandoned = s.abandoned
    BY <1>1 DEF Keeps, Alike
<1>4. /\ refilled \in Clients /\ refilled.queue \in Seq(WriteReqs)
       /\ refilled.queue \in Seq(Fitting(refilled, WriteReqs))
    BY <1>3 DEF Sane, Matching, Clients
<1>5. queue \in Seq(WriteReqs) /\ queue \in Seq(Fitting(refilled, WriteReqs))
    BY <1>4, SortedTells
<1>6. \A r : Count(queue, r) = Count(refilled.queue, r)
    BY <1>4, SortedTells
<1> HIDE DEF queue
<1>7. sorted \in Clients
    BY <1>4, <1>5 DEF Clients
<1>8. /\ Alike(refilled, sorted) /\ sorted.queue = queue /\ sorted.handlers = refilled.handlers
       /\ sorted.batch = refilled.batch /\ sorted.posted = refilled.posted /\ sorted.writing = FALSE
       /\ sorted.quota = refilled.quota /\ sorted.limit = refilled.limit
    BY <1>4 DEF Clients, Alike
<1> HIDE DEF sorted
<1>9. \A r : Held(sorted, r) = Held(refilled, r)
    BY <1>6, <1>8 DEF Held
<1>10. Sane(sorted, {})
    <2>1. Matching(sorted)
        BY <1>3, <1>5, <1>8, AlikeKeeps DEF Sane, Matching
    <2>2. Placed(sorted, {})
        BY <1>3, <1>8, <1>9, AlikeKeeps DEF Sane, Placed
    <2>3. Ids(sorted) /\ Excused(sorted)
        BY <1>3, <1>8, AlikeKeeps DEF Sane
    <2> QED
        BY <1>3, <1>7, <1>8, <2>1, <2>2, <2>3 DEF Sane
<1>11. Keeps(sorted, DoWrite(sorted), {})
    BY <1>10, DoWriteKeeps
<1>12. Steady(sorted)
    BY <1>8 DEF Steady
<1>13. Within(refilled, {}) => Within(DoWrite(sorted), {})
    <2>1. SUFFICES ASSUME Within(refilled, {}) PROVE Within(DoWrite(sorted), {})
        OBVIOUS
    <2>2. ASSUME NEW r \in Requests
          PROVE  Waits(sorted.queue, r) <=> Waits(refilled.queue, r)
        <3>1. Count(refilled.queue, r) \in {0, 1}
            <4> DEFINE a == Count(refilled.queue, r)
                       b == Count(refilled.batch, r)
                       c == Count(refilled.handlers, r)
                       d == Count(refilled.posted, r)
            <4>1. a \in Nat /\ b \in Nat /\ c \in Nat /\ d \in Nat
                BY <1>4, HeldIsNat
            <4>2. a + b + c + d = 1 \/ a + b + c + d = 0
                BY <1>3 DEF Sane, Placed, Held
            <4> HIDE DEF a, b, c, d
            <4>3. a \in {0, 1}
                BY <4>1, <4>2
            <4> QED
                BY <4>3 DEF a
        <3> QED
            BY <1>4, <1>8, <3>1, SortedWaits DEF queue
    <2>3. Within(sorted, {})
        BY <1>8, <2>1, <2>2, WithinAlike
    <2>4. {} \in SUBSET {}
        OBVIOUS
    <2> QED
        BY <1>10, <2>3, <2>4, DoWriteCounts
<1> QED
    BY <1>1, <1>2, <1>3, <1>8, <1>11, <1>12, <1>13 DEF Keeps, Alike

\* A step that is not a cancellation.
Onward(s, t) ==
    t.open = s.open /\ t.abandoned = s.abandoned /\ (Within(s, {}) => Within(t, {}))

\* What changes only other parts goes onward.
LEMMA OnwardAlike ==
    ASSUME NEW s, NEW t, Alike(s, t), t.queue = s.queue, t.quota = s.quota, t.limit = s.limit
    PROVE  Onward(s, t)
BY WithinSame DEF Onward, Alike

\* One request less awaits a reply, or is about to be told.
LEMMA Unlisted ==
    ASSUME NEW s, Sane(s, {}), Steady(s), NEW t \in Clients, Alike(s, t), t.writing = s.writing,
           t.queue = s.queue, t.batch = s.batch,
           t.handlers \in Seq(Fitting(s, Waiters)), t.posted \in Seq(PostsOf(s)), NEW op,
           \A r \in Requests : Count(s.handlers, r) + Count(s.posted, r) =
                               Count(t.handlers, r) + Count(t.posted, r) + IF op = r THEN 1 ELSE 0
    PROVE  Sane(t, {op} \cap Requests) /\ Steady(t)
<1> DEFINE E == {op} \cap Requests
<1>1. s \in Clients
    BY DEF Sane
<1>2. \A r : Sent(t, r) <=> Sent(s, r)
    BY AlikeKeeps
<1>3. ASSUME NEW r \in Requests
      PROVE  Held(t, r) = (IF Sent(t, r) /\ r \notin E THEN 1 ELSE 0) /\ (r \in E => Sent(t, r))
    <2>1. Held(s, r) = IF Sent(s, r) THEN 1 ELSE 0
        BY DEF Sane, Placed
    <2>2. /\ Count(s.queue, r) \in Nat /\ Count(s.batch, r) \in Nat
          /\ Count(s.handlers, r) \in Nat /\ Count(s.posted, r) \in Nat
          /\ Count(t.handlers, r) \in Nat /\ Count(t.posted, r) \in Nat
        BY <1>1, HeldIsNat
    <2>3. Held(s, r) = Held(t, r) + (IF op = r THEN 1 ELSE 0) /\ Held(t, r) \in Nat
        <3>1. Count(s.handlers, r) + Count(s.posted, r) =
              Count(t.handlers, r) + Count(t.posted, r) + IF op = r THEN 1 ELSE 0
            OBVIOUS
        <3>2. Held(t, r) = Count(s.queue, r) + Count(s.batch, r) + Count(t.handlers, r) +
           Count(t.posted, r)
            BY DEF Held
        <3>3. Held(s, r) = Count(s.queue, r) + Count(s.batch, r) + Count(s.handlers, r) +
           Count(s.posted, r)
            BY DEF Held
        <3> DEFINE a == Count(s.queue, r)
                   b == Count(s.batch, r)
                   c == Count(s.handlers, r)
                   d == Count(s.posted, r)
                   e == Count(t.handlers, r)
                   f == Count(t.posted, r)
                   one == IF op = r THEN 1 ELSE 0
        <3>4. /\ a \in Nat /\ b \in Nat /\ c \in Nat /\ d \in Nat /\ e \in Nat /\ f \in Nat
              /\ one \in Nat /\ c + d = e + f + one
              /\ Held(t, r) = a + b + e + f /\ Held(s, r) = a + b + c + d
            BY <2>2, <3>1, <3>2, <3>3
        <3> HIDE DEF a, b, c, d, e, f, one
        <3>5. Held(s, r) = Held(t, r) + one /\ Held(t, r) \in Nat
            BY <3>4
        <3> QED
            BY <3>5 DEF one
    <2>4. CASE op = r
        <3>1. Sent(s, r) /\ Held(t, r) = 0
            BY <2>1, <2>3, <2>4
        <3> QED
            BY <1>2, <2>4, <3>1
    <2>5. CASE op # r
        <3>1. Held(t, r) = Held(s, r)
            BY <2>1, <2>3, <2>5
        <3> QED
            BY <1>2, <2>1, <2>5, <3>1
    <2> QED
        BY <2>4, <2>5
<1>4. Matching(t)
    BY AlikeKeeps DEF Sane, Matching
<1>5. Placed(t, E) /\ \A r \in E : Sent(t, r)
    BY <1>3 DEF Placed
<1>6. E \subseteq Requests
    OBVIOUS
<1> HIDE DEF E
<1>7. Sane(t, E)
    BY <1>4, <1>5, <1>6, AlikeKeeps DEF Sane
<1> QED
    BY <1>7 DEF E, Steady

\* The one that was taken off a list is handled.
LEMMA HandledKeeps ==
    ASSUME NEW s, NEW t, NEW u, NEW op, Keeps(t, u, ({op} \cap Requests) \ {op}), Steady(t),
           Onward(s, t), Within(t, {}) => Within(u, {})
    PROVE  Sane(u, {}) /\ Steady(u) /\ Onward(s, u)
<1>1. ({op} \cap Requests) \ {op} = {}
    OBVIOUS
<1> QED
    BY <1>1 DEF Keeps, Onward

\* The client when who awaits a reply is taken off the list, and what it is told.
Relieved(s, i) == [s EXCEPT !.handlers = Erase(@, i)]
Granted(s, i, result) == [s.handlers[i] EXCEPT !.result = result]

\* The one who awaited it may be told.
LEMMA RelievedKeeps ==
    ASSUME NEW s, Sane(s, {}), Steady(s), NEW p \in Replies,
           Find(s.handlers, p.code, p.pid) # 0
    PROVE  LET found == Find(s.handlers, p.code, p.pid)
               h == s.handlers[found]
               g == Granted(s, found, p.result)
               t == Relieved(s, found)
           IN  /\ found \in 1 .. Len(s.handlers) /\ h \in Fitting(s, Waiters)
               /\ h.code = p.code /\ h.pid = p.pid
               /\ t \in Clients /\ Alike(s, t) /\ t.queue = s.queue /\ t.batch = s.batch
               /\ t.handlers = Erase(s.handlers, found) /\ t.posted = s.posted
               /\ t.writing = s.writing /\ t.fast = s.fast /\ t.wire = s.wire
               /\ t.serial = s.serial /\ t.stored = s.stored
               /\ Sane(t, {h.op} \cap Requests) /\ Steady(t) /\ Onward(s, t)
               /\ g.op = h.op /\ g.code = h.code /\ g.result = p.result /\ g \in PostsOf(t)
<1> DEFINE found == Find(s.handlers, p.code, p.pid)
           h == s.handlers[found]
           g == Granted(s, found, p.result)
           t == Relieved(s, found)
           H == Erase(s.handlers, found)
<1>0. found # 0 /\ found = Find(s.handlers, p.code, p.pid)
    OBVIOUS
<1>1. /\ s \in Clients /\ s.handlers \in Seq(Waiters) /\ s.handlers \in Seq(Fitting(s, Waiters))
      /\ s.posted \in Seq(PostsOf(s)) /\ s.posted \in Seq(Posts)
    BY DEF Sane, Matching, Clients
<1>2. /\ found \in 0 .. Len(s.handlers) /\ found \in 1 .. Len(s.handlers)
      /\ h.code = p.code /\ h.pid = p.pid
    BY <1>1, FindTells
<1> HIDE DEF found
<1>3. h \in Fitting(s, Waiters)
    BY <1>1, <1>2, ElementOfSeq
<1>4. H \in Seq(Waiters) /\ H \in Seq(Fitting(s, Waiters))
    <2>1. H \in Seq(Waiters)
        BY <1>1, <1>2, EraseTells
    <2>2. H \in Seq(Fitting(s, Waiters))
        BY <1>1, <1>2, EraseTells
    <2> QED
        BY <2>1, <2>2
<1>5. ASSUME NEW r \in Requests
      PROVE  Count(s.handlers, r) = Count(H, r) + (IF h.op = r THEN 1 ELSE 0)
         /\ Count(H, r) \in Nat
    <2>1. Count(s.handlers, r) = Count(H, r) + IF found # 0 /\ h.op = r THEN 1 ELSE 0
        BY <1>1, <1>2, EraseTells
    <2>2. Count(H, r) \in Nat
        BY <1>4, MineIsFinite
    <2> QED
        BY <1>0, <2>1, <2>2
<1> HIDE DEF H
<1>6. t = [s EXCEPT !.handlers = H]
    BY DEF Relieved, H
<1>7. t \in Clients
    BY <1>1, <1>4, <1>6 DEF Clients
<1>8. /\ Alike(s, t) /\ t.queue = s.queue /\ t.batch = s.batch /\ t.handlers = H
      /\ t.posted = s.posted /\ t.writing = s.writing /\ t.quota = s.quota
      /\ t.limit = s.limit /\ t.fast = s.fast /\ t.wire = s.wire /\ t.serial = s.serial
      /\ t.stored = s.stored
    BY <1>1, <1>6 DEF Clients, Alike
<1> HIDE DEF t
<1>9. ASSUME NEW r \in Requests
      PROVE  Count(s.handlers, r) + Count(s.posted, r) =
             Count(t.handlers, r) + Count(t.posted, r) + IF h.op = r THEN 1 ELSE 0
    <2>1. Count(s.posted, r) \in Nat
        BY <1>1, MineIsFinite
    <2> QED
        BY <1>5, <1>8, <2>1
<1>10. g.op = h.op /\ g.code = h.code /\ g.result = p.result /\ g \in PostsOf(t)
    <2>1. /\ h \in [op : Anyone, code : ReplyCodes, pid : Nat, result : {"none"}]
          /\ IsWaiting(h)
          /\ (h.op \in Requests => h.pid = s.pid[h.op])
        BY <1>3 DEF Fitting, Waiters
    <2>2. p.result \in {"ok", "refused"}
        BY DEF Replies
    <2>0. g = [h EXCEPT !.result = p.result]
        BY DEF Granted
    <2> HIDE DEF h, g
    <2>3. /\ g \in [op : Anyone, code : ReplyCodes \cup PacketCodes, pid : Nat,
                    result : {"ok", "refused", "aborted"}]
          /\ g.op = h.op /\ g.code = h.code /\ g.pid = h.pid /\ g.result = p.result
        BY <2>0, <2>1, <2>2
    <2>4. IsWaiting(g)
        BY <2>1, <2>3 DEF IsWaiting
    <2>5. g \in Fitting(t, Posts)
        BY <1>8, <2>1, <2>3, <2>4 DEF Fitting, Posts, Alike
    <2> QED
        BY <2>2, <2>3, <2>5 DEF PostsOf
<1>11. t.posted \in Seq(PostsOf(s)) /\ t.handlers \in Seq(Fitting(s, Waiters))
    BY <1>1, <1>4, <1>8
<1> HIDE DEF h, g
<1>12. Sane(t, {h.op} \cap Requests) /\ Steady(t)
    BY <1>7, <1>8, <1>9, <1>11, Unlisted, ZenonT(40)
<1>13. Onward(s, t)
    BY <1>8, OnwardAlike
<1> QED
    BY <1>2, <1>3, <1>7, <1>8, <1>10, <1>12, <1>13 DEF H, found, h, g, t

\* A reply goes to who awaits it, or is kept.
LEMMA DispatchSane ==
    ASSUME NEW s, Sane(s, {}), Steady(s), NEW p \in Replies
    PROVE  Sane(Dispatch(s, p), {}) /\ Steady(Dispatch(s, p)) /\ Onward(s, Dispatch(s, p))
<1> DEFINE found == Find(s.handlers, p.code, p.pid)
           fast == Append(s.fast, p)
           early == [s EXCEPT !.fast = fast]
           h == s.handlers[found]
           g == Granted(s, found, p.result)
           t == Relieved(s, found)
<1>1. s \in Clients /\ s.fast \in Seq(Replies)
    BY DEF Sane, Clients
<1>2. Dispatch(s, p) = IF found = 0 THEN early ELSE Replied(t, g)
    BY DEF Dispatch, Relieved, Granted
<1>3. CASE found = 0
    <2>1. fast \in Seq(Replies)
        BY <1>1, AppendProperties
    <2> HIDE DEF fast, found
    <2>2. early \in Clients
        BY <1>1, <2>1 DEF Clients
    <2>3. Untouched(s, early) /\ early.quota = s.quota /\ early.limit = s.limit
        BY <1>1 DEF Clients, Untouched, Alike
    <2> HIDE DEF early
    <2>4. Keeps(s, early, {}) /\ Onward(s, early)
        BY <2>2, <2>3, UntouchedKeeps, OnwardAlike DEF Untouched
    <2> QED
        BY <1>2, <1>3, <2>4 DEF Keeps
<1>4. CASE found # 0
    <2>4. /\ Sane(t, {h.op} \cap Requests) /\ Steady(t) /\ g.op = h.op /\ g \in PostsOf(t)
          /\ Onward(s, t)
        BY <1>4, RelievedKeeps
    <2> HIDE DEF h, g, t, found
    <2>2. /\ Keeps(t, Replied(t, g), ({h.op} \cap Requests) \ {h.op})
          /\ Within(t, {}) => Within(Replied(t, g), {})
        BY <2>4, RepliedKeeps
    <2>3. Sane(Replied(t, g), {}) /\ Steady(Replied(t, g)) /\ Onward(s, Replied(t, g))
        BY <2>2, <2>4, HandledKeeps
    <2> QED
        BY <1>2, <1>4, <2>3
<1> QED
    BY <1>3, <1>4

\* The first of the deferred completions is taken off.
Eased(s) == [s EXCEPT !.posted = Tail(@)]

\* It may be told.
LEMMA EasedKeeps ==
    ASSUME NEW s, Sane(s, {}), Steady(s), s.posted # <<>>
    PROVE  LET h == Head(s.posted)
               t == Eased(s)
           IN  /\ t \in Clients /\ Alike(s, t) /\ t.queue = s.queue /\ t.batch = s.batch
               /\ t.handlers = s.handlers /\ t.posted = Tail(s.posted)
               /\ t.writing = s.writing /\ t.fast = s.fast /\ t.wire = s.wire
               /\ t.serial = s.serial /\ t.stored = s.stored
               /\ Sane(t, {h.op} \cap Requests) /\ Steady(t) /\ Onward(s, t) /\ h \in PostsOf(t)
<1> DEFINE h == Head(s.posted)
           t == Eased(s)
           P == Tail(s.posted)
<1>1. /\ s \in Clients /\ s.posted \in Seq(PostsOf(s)) /\ s.posted \in Seq(Posts)
      /\ s.handlers \in Seq(Fitting(s, Waiters)) /\ s.handlers \in Seq(Waiters)
    BY DEF Sane, Matching, Clients
<1>2. P \in Seq(PostsOf(s)) /\ h \in PostsOf(s) /\ P \in Seq(Posts)
    <2>1. P \in Seq(PostsOf(s)) /\ h \in PostsOf(s)
        BY <1>1, CountTail
    <2>2. P \in Seq(Posts)
        BY <1>1, CountTail
    <2> QED
        BY <2>1, <2>2
<1>3. ASSUME NEW r PROVE Count(s.posted, r) = Count(P, r) + IF h.op = r THEN 1 ELSE 0
    BY <1>1, CountTail
<1>4. t = [s EXCEPT !.posted = P]
    BY DEF Eased
<1> HIDE DEF P, h
<1>5. t \in Clients
    BY <1>1, <1>2, <1>4 DEF Clients
<1>6. /\ Alike(s, t) /\ t.queue = s.queue /\ t.batch = s.batch /\ t.handlers = s.handlers
      /\ t.posted = P /\ t.writing = s.writing /\ t.quota = s.quota /\ t.limit = s.limit
      /\ t.fast = s.fast /\ t.wire = s.wire /\ t.serial = s.serial /\ t.stored = s.stored
    BY <1>1, <1>4 DEF Clients, Alike
<1> HIDE DEF t
<1>7. ASSUME NEW r \in Requests
      PROVE  Count(s.handlers, r) + Count(s.posted, r) =
             Count(t.handlers, r) + Count(t.posted, r) + IF h.op = r THEN 1 ELSE 0
    <2>1. Count(s.handlers, r) \in Nat /\ Count(P, r) \in Nat
        BY <1>1, <1>2, MineIsFinite
    <2> QED
        BY <1>3, <1>6, <2>1
<1>8. t.posted \in Seq(PostsOf(s)) /\ t.handlers \in Seq(Fitting(s, Waiters))
    BY <1>1, <1>2, <1>6
<1>9. Sane(t, {h.op} \cap Requests) /\ Steady(t)
    BY <1>5, <1>6, <1>7, <1>8, Unlisted, ZenonT(40)
<1>10. h \in PostsOf(t)
    BY <1>2, <1>6, AlikeKeeps
<1>11. Onward(s, t)
    BY <1>6, OnwardAlike
<1> QED
    BY <1>5, <1>6, <1>9, <1>10, <1>11 DEF P, h, t

\* RunPosted.
LEMMA PostedSane ==
    ASSUME NEW s, Sane(s, {}), Steady(s), s.posted # <<>>
    PROVE  LET u == Replied([s EXCEPT !.posted = Tail(@)], Head(s.posted))
           IN  Sane(u, {}) /\ Steady(u) /\ Onward(s, u)
<1> DEFINE h == Head(s.posted)
           t == Eased(s)
<1>1. Sane(t, {h.op} \cap Requests) /\ Steady(t) /\ Onward(s, t) /\ h \in PostsOf(t)
    BY EasedKeeps
<1>2. [s EXCEPT !.posted = Tail(@)] = t
    BY DEF Eased
<1> HIDE DEF h, t
<1>3. /\ Keeps(t, Replied(t, h), ({h.op} \cap Requests) \ {h.op})
      /\ Within(t, {}) => Within(Replied(t, h), {})
    BY <1>1, RepliedKeeps
<1>4. Sane(Replied(t, h), {}) /\ Steady(Replied(t, h)) /\ Onward(s, Replied(t, h))
    BY <1>1, <1>3, HandledKeeps
<1> QED
    BY <1>2, <1>4 DEF h

-----------------------------------------------------------------------------
(* The deferred completions *)

\* What does not touch the deferred completions.
Quiet(s, t) == "posted" \in DOMAIN t /\ t.posted = s.posted

\* do_write is one.
LEMMA DoWriteQuiet == ASSUME NEW s, "posted" \in DOMAIN s PROVE Quiet(s, DoWrite(s))
<1> DEFINE batch == At(s.queue, Chosen(s))
           t(queue, quota, wire) ==
               [s EXCEPT !.writing = TRUE, !.batch = batch, !.queue = queue, !.quota = quota,
                         !.fast = <<>>, !.wire = wire]
<1>1. DoWrite(s) = s \/ \E queue, quota, wire : DoWrite(s) = t(queue, quota, wire)
    BY DEF DoWrite
<1> HIDE DEF batch
<1>2. ASSUME NEW queue, NEW quota, NEW wire PROVE Quiet(s, t(queue, quota, wire))
    BY DEF Quiet
<1> HIDE DEF t
<1> QED
    BY <1>1, <1>2 DEF Quiet

\* So is a packet that is sent,
LEMMA SendQuiet == ASSUME NEW s, "posted" \in DOMAIN s, NEW x PROVE Quiet(s, Send(s, x))
<1> DEFINE t == [s EXCEPT !.queue = Append(@, x)]
<1>1. Quiet(s, t)
    BY DEF Quiet
<1> HIDE DEF t
<1> QED
    BY <1>1, DoWriteQuiet DEF Send, Quiet, t

\* a request that begins,
LEMMA StartQuiet == ASSUME NEW s, "posted" \in DOMAIN s, NEW r PROVE Quiet(s, Start(s, r))
<1> DEFINE F == [s EXCEPT !.status[r] = "failed"]
           pid == IF kind[r] = "qos0" THEN 0 ELSE CHOOSE p \in s.free : \A q \in s.free : p <= q
           T == [s EXCEPT !.status[r] = "sent", !.pid[r] = pid,
                             !.free = @ \ {pid},
                             !.last = IF Subscribing(r) THEN @ ELSE NextSerial(s),
                             !.serial[r] = IF Subscribing(r) THEN 0 ELSE NextSerial(s)]
<1>1. Start(s, r) = F \/ Start(s, r) = Send(T, RequestPacket(T, r))
    BY Zenon DEF Start
<1>2. Quiet(s, F)
    BY DEF Quiet
<1>3. Quiet(s, T)
    BY DEF Quiet
<1> HIDE DEF F, T
<1> QED
    BY <1>1, <1>2, <1>3, SendQuiet DEF Quiet

\* one that ends,
LEMMA FinishQuiet ==
    ASSUME NEW s, "posted" \in DOMAIN s, NEW r, NEW status
    PROVE  Quiet(s, Finish(s, r, status))
<1> DEFINE freed == [s EXCEPT !.status[r] = status, !.pid[r] = 0,
                              !.free = IF s.pid[r] = 0 THEN @ ELSE @ \cup {s.pid[r]}]
           granted == IF kind[r] = "subscribe" /\ status = "done"
                      THEN [freed EXCEPT !.subscribed = TRUE] ELSE freed
           roomy == IF kind[r] \in {"qos1", "qos2"} THEN ThrottledOpDone(granted) ELSE granted
<1>1. Finish(s, r, status) = roomy \/ Finish(s, r, status) = Start(roomy, Then[r])
    BY Zenon DEF Finish
<1>2. Quiet(s, freed)
    BY DEF Quiet
<1> HIDE DEF freed
<1>3. Quiet(s, granted)
    BY <1>2 DEF Quiet
<1> HIDE DEF granted
<1>4. Quiet(s, ThrottledOpDone(granted))
    <2> DEFINE t == [granted EXCEPT !.quota = @ + 1]
    <2>1. Quiet(granted, t)
        BY <1>3 DEF Quiet
    <2>2. ThrottledOpDone(granted) = granted \/ ThrottledOpDone(granted) = DoWrite(t)
        BY DEF ThrottledOpDone
    <2> HIDE DEF t
    <2> QED
        BY <1>3, <2>1, <2>2, DoWriteQuiet DEF Quiet
<1>5. Quiet(s, roomy)
    BY <1>3, <1>4
<1> HIDE DEF roomy
<1> QED
    BY <1>1, <1>5, StartQuiet DEF Quiet

\* one that gets its reply,
LEMMA RepliedQuiet ==
    ASSUME NEW s, "posted" \in DOMAIN s, NEW h
    PROVE  Quiet(s, Replied(s, h))
<1>1. \/ Replied(s, h) = s
      \/ \E status : Replied(s, h) = Finish(s, h.op, status)
      \/ \E x : Replied(s, h) = Send(s, x)
    <2>1. CASE h.result = "aborted"
        BY <2>1 DEF Replied
    <2>2. CASE h.result # "aborted" /\ h.code = "PUBREL"
        BY <2>2 DEF Replied
    <2>3. CASE h.result = "ok" /\ h.code = "PUBREC"
        BY <2>3 DEF Replied
    <2>4. CASE h.result # "aborted" /\ h.code # "PUBREL" /\ ~ (h.result = "ok" /\ h.code = "PUBREC")
        BY <2>4 DEF Replied
    <2> QED
        BY <2>1, <2>2, <2>3, <2>4
<1> QED
    BY <1>1, FinishQuiet, SendQuiet DEF Quiet

\* and a reply that comes.
LEMMA DispatchQuiet ==
    ASSUME NEW s, "posted" \in DOMAIN s, NEW p
    PROVE  Quiet(s, Dispatch(s, p))
<1> DEFINE early == [s EXCEPT !.fast = Append(@, p)]
           t(list) == [s EXCEPT !.handlers = list]
<1>1. \/ Dispatch(s, p) = early
      \/ \E list, h : Dispatch(s, p) = Replied(t(list), h)
    BY DEF Dispatch
<1>2. Quiet(s, early)
    BY DEF Quiet
<1>3. ASSUME NEW list PROVE Quiet(s, t(list))
    BY DEF Quiet
<1> HIDE DEF early, t
<1>4. ASSUME NEW list, NEW h PROVE Quiet(s, Replied(t(list), h))
    BY <1>3, RepliedQuiet DEF Quiet
<1> QED
    BY <1>1, <1>2, <1>4

-----------------------------------------------------------------------------
(* The steps *)

\* The client between two steps: no loop runs.
Sound(s) == Sane(s, {}) /\ Steady(s)

\* The kinds of the requests do not change.
LEMMA SoundNext ==
    ASSUME Sound(svc'), kind' = kind
    PROVE  Sane(svc, {})' /\ Steady(svc)'
<1>1. /\ WriteReqs' = WriteReqs /\ Waiters' = Waiters /\ Posts' = Posts
    <2>1. WriteReqs' = WriteReqs
        BY DEF WriteReqs, IsWrite, BeginsWith
    <2>2. Waiters' = Waiters /\ Posts' = Posts
        BY DEF Waiters, Posts, IsWaiting, Awaited
    <2> QED
        BY <2>1, <2>2
<1>2. Clients' = Clients
    BY <1>1 DEF Clients
<1>3. Ids(svc)' <=> Ids(svc')
    BY DEF Ids, Numbered, Sent
<1>4. Placed(svc, {})' <=> Placed(svc', {})
    BY DEF Placed, Held, Sent
<1>5. Excused(svc)' <=> Excused(svc')
    BY DEF Excused, MayAbort
<1>6. Matching(svc)' <=> Matching(svc')
    BY <1>1 DEF Matching, Fitting, PostsOf, MayAbort
<1>7. Sane(svc', {}) /\ Steady(svc')
    BY DEF Sound
<1>8. Sane(svc, {})'
    BY <1>2, <1>3, <1>4, <1>5, <1>6, <1>7 DEF Sane, Sent
<1> QED
    BY <1>7, <1>8 DEF Steady

\* What keeps the client while no loop runs keeps it sound.
LEMMA KeptSound ==
    ASSUME NEW s, NEW t, Sound(s), Keeps(s, t, {}), Within(s, {}) => Within(t, {})
    PROVE  Sound(t) /\ Onward(s, t)
BY DEF Keeps, Sound, Onward

\* A new client is sound.
LEMMA ClientIsSound ==
    ASSUME DeliveryInit
    PROVE  /\ Sound(svc) /\ Within(svc, {}) /\ svc.posted = <<>> /\ svc.open /\ svc.abandoned = {}
<1>1. PICK serial \in Serials : svc = [Client EXCEPT !.last = serial]
    BY DEF DeliveryInit
<1>2. kind \in [Requests -> {"qos0", "qos1", "qos2", "subscribe", "unsubscribe"}]
    BY DeliveryAssumption DEF DeliveryInit
<1>3. /\ svc.queue = <<>> /\ svc.batch = <<>> /\ svc.handlers = <<>> /\ svc.posted = <<>>
      /\ svc.fast = <<>> /\ svc.wire = <<>> /\ svc.writing = FALSE
      /\ svc.status = [r \in Requests |-> "idle"] /\ svc.pid = [r \in Requests |-> 0]
      /\ svc.free = 1 .. PacketIdsMax /\ svc.open = TRUE /\ svc.abandoned = {}
      /\ svc.limit = Unlimited
    BY <1>1 DEF Client
<1>4. svc \in Clients
    <2>1. Unlimited \in 1 .. Unlimited /\ Unlimited \in Int /\ serial \in 0 .. SerialMod - 1
        BY DeliveryAssumption
    <2>2. 0 \in 0 .. SerialMod - 1 /\ 0 \in 0 .. PacketIdsMax /\ 0 \in Nat
        BY DeliveryAssumption
    <2>3. \A T : <<>> \in Seq(T)
        BY EmptySeq
    <2>4. [r \in Requests |-> "idle"] \in [Requests -> Statuses]
        BY DEF Statuses
    <2>5. /\ [r \in Requests |-> 0] \in [Requests -> 0 .. PacketIdsMax]
          /\ [r \in Requests |-> 0] \in [Requests -> 0 .. SerialMod - 1]
          /\ [m \in Incoming |-> 0] \in [Incoming -> Nat]
        BY <2>2
    <2> QED
        BY <1>1, <2>1, <2>3, <2>4, <2>5 DEF Client, Clients
<1>5. \A r \in Requests : ~ Sent(svc, r) /\ ~ Numbered(svc, r) /\ svc.pid[r] = 0
    BY <1>3 DEF Sent, Numbered
<1>6. Ids(svc)
    <2>1. 0 \notin 1 .. PacketIdsMax
        BY DeliveryAssumption
    <2> QED
        BY <1>3, <1>5, <2>1 DEF Ids
<1>7. Placed(svc, {})
    <2>1. \A r \in Requests : Held(svc, r) = 0
        <3>1. ASSUME NEW r \in Requests PROVE Held(svc, r) = 0
            <4>1. Count(<<>>, r) = 0
                BY CountEmpty
            <4> QED
                BY <1>3, <4>1 DEF Held
        <3> QED
            BY <3>1
    <2> QED
        BY <1>5, <2>1 DEF Placed
<1>8. Matching(svc)
    <2>1. \A T : <<>> \in Seq(T)
        BY EmptySeq
    <2> QED
        BY <1>3, <2>1 DEF Matching
<1>9. Excused(svc)
    BY <1>3 DEF Excused
<1>10. Within(svc, {})
    BY <1>3 DEF Within, Limited
<1> QED
    BY <1>2, <1>3, <1>4, <1>5, <1>6, <1>7, <1>8, <1>9, <1>10 DEF Sound, Sane, Steady

\* The packets of a write that has ended are to be handled.
LEMMA Unbatched ==
    ASSUME NEW s, Sound(s), NEW base, base = [s EXCEPT !.writing = FALSE, !.batch = <<>>]
    PROVE  /\ Sane(base, Left(s.batch, {}, 0)) /\ Steady(base) /\ Alike(s, base)
           /\ s.batch \in Seq(Fitting(base, WriteReqs)) /\ Distinct(s.batch, {})
           /\ Onward(s, base)
<1> DEFINE D == Left(s.batch, {}, 0)
<1>1. /\ s \in Clients /\ s.batch \in Seq(WriteReqs) /\ s.batch \in Seq(Fitting(s, WriteReqs))
      /\ Sane(s, {})
    BY DEF Sound, Sane, Matching, Clients
<1>2. ASSUME NEW r \in Requests
      PROVE  /\ Count(s.queue, r) \in Nat /\ Count(s.batch, r) \in Nat
             /\ Count(s.handlers, r) \in Nat /\ Count(s.posted, r) \in Nat
             /\ Count(s.queue, r) + Count(s.batch, r) + Count(s.handlers, r) + Count(s.posted, r)
                = IF Sent(s, r) THEN 1 ELSE 0
    BY <1>1, HeldIsNat DEF Sane, Placed, Held
<1>3. Distinct(s.batch, {})
    <2>1. ASSUME NEW r \in Requests PROVE Count(s.batch, r) \in {0, 1}
        <3> DEFINE a == Count(s.queue, r)
                   b == Count(s.batch, r)
                   c == Count(s.handlers, r)
                   d == Count(s.posted, r)
        <3>1. a \in Nat /\ b \in Nat /\ c \in Nat /\ d \in Nat
           /\ (a + b + c + d = 1 \/ a + b + c + d = 0)
            BY <1>2
        <3> HIDE DEF a, b, c, d
        <3>2. b \in {0, 1}
            BY <3>1
        <3> QED
            BY <3>2 DEF b
    <2> QED
        BY <1>1, <2>1, OnceIsDistinct
<1>4. D \subseteq Requests /\ \A r \in Requests : r \in D <=> Count(s.batch, r) # 0
    <2>1. D \subseteq Requests
        BY DEF Left
    <2> QED
        BY <1>1, <2>1, LeftIs
<1> HIDE DEF D
<1>5. base \in Clients
    <2>1. <<>> \in Seq(WriteReqs)
        BY EmptySeq
    <2> QED
        BY <1>1, <2>1 DEF Clients
<1>6. /\ Alike(s, base) /\ base.queue = s.queue /\ base.handlers = s.handlers /\ base.batch = <<>>
      /\ base.posted = s.posted /\ base.writing = FALSE /\ base.quota = s.quota
      /\ base.limit = s.limit
    BY <1>1 DEF Clients, Alike
<1>7. ASSUME NEW r \in Requests
      PROVE  Held(base, r) = (IF Sent(base, r) /\ r \notin D THEN 1 ELSE 0)
         /\ (r \in D => Sent(base, r))
    <2>1. Sent(base, r) <=> Sent(s, r)
        BY <1>6, AlikeKeeps
    <2>2. Held(base, r) = Count(s.queue, r) + 0 + Count(s.handlers, r) + Count(s.posted, r)
        <3>1. Count(<<>>, r) = 0
            BY CountEmpty
        <3> QED
            BY <1>6, <3>1 DEF Held
    <2> QED
        BY <1>2, <1>4, <2>1, <2>2
<1>8. Matching(base)
    <2>1. <<>> \in Seq(Fitting(base, WriteReqs))
        BY EmptySeq
    <2> QED
        BY <1>1, <1>6, <2>1, AlikeKeeps DEF Sane, Matching
<1>9. Sane(base, D)
    <2>1. Placed(base, D)
        BY <1>7 DEF Placed
    <2>2. \A r \in D : Sent(base, r)
        BY <1>4, <1>7
    <2>3. Ids(base) /\ Excused(base)
        BY <1>1, <1>6, AlikeKeeps DEF Sane
    <2>4. kind \in [Requests -> {"qos0", "qos1", "qos2", "subscribe", "unsubscribe"}]
        BY <1>1 DEF Sane
    <2> QED
        BY <1>4, <1>5, <1>6, <1>8, <2>1, <2>2, <2>3, <2>4 DEF Sane
<1>10. s.batch \in Seq(Fitting(base, WriteReqs))
    BY <1>1, <1>6, AlikeKeeps
<1>11. Onward(s, base)
    BY <1>6, OnwardAlike
<1> QED
    BY <1>3, <1>6, <1>9, <1>10, <1>11 DEF D, Steady

\* The end of a write.
LEMMA WriteDoneSound ==
    ASSUME Sound(svc), WriteDone
    PROVE  Sound(svc') /\ Onward(svc, svc')
<1> DEFINE base == [svc EXCEPT !.writing = FALSE, !.batch = <<>>]
           t == FoldLeft(Written, base, svc.batch)
<1>1. svc' = DoWrite(t)
    BY DEF WriteDone
<1>2. /\ Sane(base, Left(svc.batch, {}, 0)) /\ Steady(base) /\ Onward(svc, base)
      /\ svc.batch \in Seq(Fitting(base, WriteReqs)) /\ Distinct(svc.batch, {})
    BY Unbatched
<1> HIDE DEF base
<1>3. Keeps(base, t, {}) /\ (Within(base, {}) => Within(t, {}))
    <2>1. {} \in SUBSET Requests
        OBVIOUS
    <2> QED
        BY <1>2, <2>1, WrittenFolds
<1> HIDE DEF t
<1>4. Sane(t, {}) /\ Steady(t)
    BY <1>2, <1>3 DEF Keeps
<1>5. Keeps(t, DoWrite(t), {}) /\ (Within(t, {}) => Within(DoWrite(t), {}))
    <2>1. {} \in SUBSET {}
        OBVIOUS
    <2> QED
        BY <1>4, <2>1, DoWriteKeeps, DoWriteCounts
<1> QED
    BY <1>1, <1>2, <1>3, <1>4, <1>5 DEF Keeps, Sound, Onward

\* The end of a write once the client is cancelled.
LEMMA WriteAbortedSound ==
    ASSUME Sound(svc), WriteAborted
    PROVE  Sound(svc') /\ Onward(svc, svc')
<1> DEFINE base == [svc EXCEPT !.writing = FALSE, !.batch = <<>>]
           t == FoldLeft(Aborted, base, svc.batch)
<1>1. svc' = t /\ ~ svc.open
    BY DEF WriteAborted
<1>2. /\ Sane(base, Left(svc.batch, {}, 0)) /\ Steady(base) /\ Alike(svc, base)
      /\ svc.batch \in Seq(Fitting(base, WriteReqs)) /\ Distinct(svc.batch, {})
    BY Unbatched
<1> HIDE DEF base
<1>3. Keeps(base, t, {})
    <2>1. {} \in SUBSET Requests
        OBVIOUS
    <2>2. ~ base.open
        BY <1>1, <1>2 DEF Alike
    <2> QED
        BY <1>2, <2>1, <2>2, AbortedFolds
<1> HIDE DEF t
<1>4. Sound(t) /\ t.open = svc.open /\ t.abandoned = svc.abandoned
    BY <1>1, <1>2, <1>3 DEF Keeps, Sound, Alike
<1>5. Within(t, {})
    BY <1>1, <1>4 DEF Within, Limited
<1> QED
    BY <1>1, <1>4, <1>5 DEF Onward

\* A deferred completion.
LEMMA RunPostedSound ==
    ASSUME Sound(svc), RunPosted
    PROVE  Sound(svc') /\ Onward(svc, svc')
<1>1. svc.posted # <<>> /\ svc' = Replied([svc EXCEPT !.posted = Tail(@)], Head(svc.posted))
    BY DEF RunPosted
<1>2. Sane(svc, {}) /\ Steady(svc)
    BY DEF Sound
<1> QED
    BY <1>1, <1>2, PostedSane DEF Sound

\* A request of the program.
LEMMA BeginSound ==
    ASSUME Sound(svc), NEW r \in Requests, Begin(r)
    PROVE  Sound(svc') /\ Onward(svc, svc')
<1>1. svc.status[r] = "idle" /\ svc' = Start(svc, r)
    BY DEF Begin
<1>2. Keeps(svc, Start(svc, r), {}) /\ (Within(svc, {}) => Within(Start(svc, r), {}))
    <2>1. {} \in SUBSET {}
        OBVIOUS
    <2> QED
        BY <1>1, <2>1, StartKeeps DEF Sound
<1> QED
    BY <1>1, <1>2, KeptSound

\* A change of the client that leaves its lists alone.
LEMMA UntouchedSound ==
    ASSUME NEW s, Sound(s), NEW t \in Clients, Untouched(s, t), t.quota = s.quota, t.limit = s.limit
    PROVE  Sound(t) /\ Onward(s, t)
BY UntouchedKeeps, KeptSound, OnwardAlike DEF Sound, Untouched, Onward

\* Lists may gain what fits, when more may abort.
LEMMA AbandonSound ==
    ASSUME Sound(svc), NEW r \in Requests, Abandon(r)
    PROVE  /\ Sound(svc') /\ Within(svc', {}) /\ svc'.open = svc.open /\ svc'.posted = svc.posted
<1> DEFINE abandoned == svc.abandoned \cup {r}
           t == [svc EXCEPT !.abandoned = abandoned]
<1>1. svc' = t
    BY DEF Abandon
<1>2. Sane(svc, {}) /\ Steady(svc) /\ svc \in Clients /\ abandoned \in SUBSET Requests
    BY DEF Sound, Sane, Clients
<1>3. t \in Clients
    BY <1>2 DEF Clients
<1>4. /\ t.abandoned = svc.abandoned \cup {r} /\ t.open = svc.open /\ t.pid = svc.pid
      /\ t.status = svc.status /\ t.free = svc.free /\ t.queue = svc.queue /\ t.batch = svc.batch
      /\ t.handlers = svc.handlers /\ t.posted = svc.posted /\ t.writing = svc.writing
    BY <1>2 DEF Clients
<1> HIDE DEF t
<1>5. \A q : MayAbort(svc, q) => MayAbort(t, q)
    BY <1>4 DEF MayAbort
<1>6. /\ Ids(t) /\ Placed(t, {})
    <2>1. Ids(t)
        BY <1>2, <1>4 DEF Sane, Ids, Numbered, Sent
    <2>2. Placed(t, {})
        BY <1>2, <1>4 DEF Sane, Placed, Held, Sent
    <2> QED
        BY <2>1, <2>2
<1>7. Excused(t)
    BY <1>2, <1>4, <1>5 DEF Sane, Excused
<1>8. Matching(t)
    <2>1. \A T : Fitting(t, T) = Fitting(svc, T)
        BY <1>4 DEF Fitting
    <2>2. PostsOf(svc) \subseteq PostsOf(t)
        BY <1>5, <2>1 DEF PostsOf
    <2>3. svc.posted \in Seq(PostsOf(t))
        <3>1. svc.posted \in Seq(PostsOf(svc))
            BY <1>2 DEF Sane, Matching
        <3>2. \A i \in DOMAIN svc.posted : svc.posted[i] \in PostsOf(t)
            BY <2>2, <3>1, LenProperties, ElementOfSeq
        <3> QED
            BY <3>1, <3>2, MembersOf
    <2> QED
        BY <1>2, <1>4, <2>1, <2>3 DEF Sane, Matching
<1>9. Within(t, {})
    BY <1>4 DEF Within, Limited
<1> QED
    BY <1>1, <1>2, <1>3, <1>4, <1>6, <1>7, <1>8, <1>9 DEF Sound, Sane, Steady, Sent

\* cancel defers the end of all who wait; the quota no longer matters.
LEMMA CancelSound ==
    ASSUME Sound(svc), Cancel
    PROVE  Sound(svc') /\ Within(svc', {}) /\ svc'.open = FALSE /\ svc'.abandoned = svc.abandoned
<1> DEFINE waiting == [i \in DOMAIN svc.handlers |-> [svc.handlers[i] EXCEPT !.result = "aborted"]]
           queued == [i \in DOMAIN svc.queue |->
                         [op |-> svc.queue[i].op, code |-> svc.queue[i].code,
                          pid |-> svc.queue[i].pid, result |-> "aborted"]]
           posted == svc.posted \o waiting \o queued
           t == [svc EXCEPT !.handlers = <<>>, !.queue = <<>>, !.wire = <<>>,
                            !.posted = posted, !.open = FALSE]
<1>1. svc' = t
    BY DEF Cancel
<1>2. /\ Sane(svc, {}) /\ Steady(svc) /\ svc \in Clients
      /\ svc.handlers \in Seq(Waiters) /\ svc.handlers \in Seq(Fitting(svc, Waiters))
      /\ svc.queue \in Seq(WriteReqs) /\ svc.queue \in Seq(Fitting(svc, WriteReqs))
      /\ svc.posted \in Seq(Posts) /\ svc.posted \in Seq(PostsOf(svc))
    BY DEF Sound, Sane, Matching, Clients
<1> DEFINE Told == {h \in Fitting(svc, Posts) : TRUE}
<1>3. waiting \in Seq(Told) /\ \A r : Count(waiting, r) = Count(svc.handlers, r)
    <2>1. /\ Len(svc.handlers) \in Nat /\ DOMAIN svc.handlers = 1 .. Len(svc.handlers)
          /\ \A i \in DOMAIN svc.handlers : svc.handlers[i] \in Fitting(svc, Waiters)
        BY <1>2, LenProperties, ElementOfSeq
    <2>2. ASSUME NEW i \in DOMAIN svc.handlers
          PROVE  waiting[i] \in Told /\ waiting[i].op = svc.handlers[i].op
        <3> DEFINE h == svc.handlers[i]
                   g == [h EXCEPT !.result = "aborted"]
        <3>1. /\ h \in [op : Anyone, code : ReplyCodes, pid : Nat, result : {"none"}]
              /\ (h.op \in Requests => h.pid = svc.pid[h.op])
            BY <2>1 DEF Fitting, Waiters
        <3>2. waiting[i] = g
            BY <2>2
        <3> HIDE DEF h
        <3>3. /\ g \in [op : Anyone, code : ReplyCodes \cup PacketCodes, pid : Nat,
                        result : {"ok", "refused", "aborted"}]
              /\ g.op = h.op /\ g.pid = h.pid /\ g.result = "aborted"
            BY <3>1
        <3> HIDE DEF g
        <3>4. g \in Told
            BY <3>1, <3>3 DEF Fitting, Posts
        <3> HIDE DEF waiting
        <3> QED
            BY <3>2, <3>3, <3>4 DEF h
    <2>3. DOMAIN waiting = DOMAIN svc.handlers
        OBVIOUS
    <2>4. waiting = [i \in 1 .. Len(svc.handlers) |-> waiting[i]]
        BY <2>1, <2>3
    <2> HIDE DEF waiting, Told
    <2>5. waiting \in Seq(Told)
        BY <2>1, <2>2, <2>3, <2>4, SeqDef, SMTT(40)
    <2>6. \A r : Count(waiting, r) = Count(svc.handlers, r)
        BY <2>2, <2>3, CountSame
    <2> QED
        BY <2>5, <2>6
<1>4. queued \in Seq(Told) /\ \A r : Count(queued, r) = Count(svc.queue, r)
    <2>1. /\ Len(svc.queue) \in Nat /\ DOMAIN svc.queue = 1 .. Len(svc.queue)
          /\ \A i \in DOMAIN svc.queue : svc.queue[i] \in Fitting(svc, WriteReqs)
        BY <1>2, LenProperties, ElementOfSeq
    <2>2. ASSUME NEW i \in DOMAIN svc.queue
          PROVE  queued[i] \in Told /\ queued[i].op = svc.queue[i].op
        <3> DEFINE h == svc.queue[i]
                   g == [op |-> h.op, code |-> h.code, pid |-> h.pid, result |-> "aborted"]
        <3>1. /\ h \in [op : Anyone, code : PacketCodes, pid : Nat, serial : Nat, throttled :
                    BOOLEAN]
              /\ (h.op \in Requests => h.pid = svc.pid[h.op])
            BY <2>1 DEF Fitting, WriteReqs
        <3>2. queued[i] = g
            BY <2>2
        <3> HIDE DEF h
        <3>3. /\ g \in [op : Anyone, code : ReplyCodes \cup PacketCodes, pid : Nat,
                        result : {"ok", "refused", "aborted"}]
              /\ g.op = h.op /\ g.pid = h.pid /\ g.result = "aborted"
            BY <3>1
        <3> HIDE DEF g
        <3>4. g \in Told
            BY <3>1, <3>3 DEF Fitting, Posts
        <3> HIDE DEF queued
        <3> QED
            BY <3>2, <3>3, <3>4 DEF h
    <2>3. DOMAIN queued = DOMAIN svc.queue
        OBVIOUS
    <2>4. queued = [i \in 1 .. Len(svc.queue) |-> queued[i]]
        BY <2>1, <2>3
    <2> HIDE DEF queued, Told
    <2>5. queued \in Seq(Told)
        BY <2>1, <2>2, <2>3, <2>4, SeqDef
    <2>6. \A r : Count(queued, r) = Count(svc.queue, r)
        BY <2>2, <2>3, CountSame
    <2> QED
        BY <2>5, <2>6
<1>5. svc.posted \in Seq(Told)
    <2>1. \A i \in DOMAIN svc.posted : svc.posted[i] \in Told
        BY <1>2, LenProperties, ElementOfSeq DEF PostsOf
    <2> HIDE DEF Told
    <2> QED
        BY <1>2, <2>1, MembersOf
<1> HIDE DEF waiting, queued
<1>6. /\ posted \in Seq(Told)
      /\ \A r : Count(posted, r) = Count(svc.posted, r) + Count(svc.handlers, r) +
            Count(svc.queue, r)
    <2> HIDE DEF Told
    <2>1. svc.posted \o waiting \in Seq(Told) /\ posted \in Seq(Told)
        BY <1>3, <1>4, <1>5, ConcatProperties
    <2>2. ASSUME NEW r
          PROVE  Count(posted, r) = Count(svc.posted, r) + Count(svc.handlers, r) +
             Count(svc.queue, r)
        <3>1. Count(svc.posted \o waiting, r) = Count(svc.posted, r) + Count(waiting, r)
            BY <1>3, <1>5, CountConcat
        <3>2. Count(posted, r) = Count(svc.posted \o waiting, r) + Count(queued, r)
            <4> DEFINE first == svc.posted \o waiting
            <4>1. first \in Seq(Told) /\ queued \in Seq(Told)
                BY <1>4, <2>1
            <4> HIDE DEF first
            <4>2. Count(first \o queued, r) = Count(first, r) + Count(queued, r)
                BY <4>1, CountConcat
            <4> QED
                BY <4>2 DEF first
        <3> QED
            BY <1>3, <1>4, <3>1, <3>2
    <2> HIDE DEF posted
    <2> QED
        BY <2>1, <2>2
<1> HIDE DEF posted
<1>7. posted \in Seq(Posts)
    <2>1. \A i \in DOMAIN posted : posted[i] \in Posts
        BY <1>6, LenProperties, ElementOfSeq DEF Fitting
    <2> QED
        BY <1>6, <2>1, MembersOf
<1>8. t \in Clients
    <2>1. /\ <<>> \in Seq(WriteReqs) /\ <<>> \in Seq(Waiters)
          /\ <<>> \in Seq([op : Anyone, code : PacketCodes, pid : Nat])
        BY EmptySeq
    <2> QED
        BY <1>2, <1>7, <2>1 DEF Clients
<1>9. /\ t.abandoned = svc.abandoned /\ t.open = FALSE /\ t.pid = svc.pid
      /\ t.status = svc.status /\ t.free = svc.free /\ t.queue = <<>> /\ t.batch = svc.batch
      /\ t.handlers = <<>> /\ t.posted = posted /\ t.writing = svc.writing
    BY <1>2 DEF Clients
<1> HIDE DEF t
<1>10. \A q : MayAbort(t, q)
    BY <1>9 DEF MayAbort
<1>11. Ids(t)
    BY <1>2, <1>9 DEF Sane, Ids, Numbered, Sent
<1>12. Placed(t, {})
    <2>1. ASSUME NEW r \in Requests PROVE Held(t, r) = Held(svc, r)
        <3>1. /\ Count(svc.queue, r) \in Nat /\ Count(svc.batch, r) \in Nat
              /\ Count(svc.handlers, r) \in Nat /\ Count(svc.posted, r) \in Nat
            BY <1>2, HeldIsNat
        <3>2. Count(<<>>, r) = 0
            BY CountEmpty
        <3>3. Held(t, r) = 0 + Count(svc.batch, r) + 0 + Count(posted, r)
            BY <1>9, <3>2 DEF Held
        <3> QED
            BY <1>6, <3>1, <3>3 DEF Held
    <2> QED
        BY <1>2, <1>9, <2>1 DEF Sane, Placed, Sent
<1>13. Excused(t)
    BY <1>10 DEF Excused
<1>14. Matching(t)
    <2>1. \A T : Fitting(t, T) = Fitting(svc, T)
        BY <1>9 DEF Fitting
    <2>2. Told \subseteq PostsOf(t)
        BY <1>10, <2>1 DEF PostsOf
    <2>3. posted \in Seq(PostsOf(t))
        <3>1. \A i \in DOMAIN posted : posted[i] \in PostsOf(t)
            BY <1>6, <2>2, LenProperties, ElementOfSeq
        <3> QED
            BY <1>7, <3>1, MembersOf
    <2>4. <<>> \in Seq(Fitting(t, WriteReqs)) /\ <<>> \in Seq(Fitting(t, Waiters))
        BY EmptySeq
    <2> QED
        BY <1>2, <1>9, <2>1, <2>3, <2>4 DEF Sane, Matching
<1>15. Within(t, {})
    BY <1>9 DEF Within, Limited
<1> QED
    BY <1>1, <1>2, <1>8, <1>9, <1>11, <1>12, <1>13, <1>14, <1>15 DEF Sound, Sane, Steady, Sent

\* What was being written is put before the queue.
LEMMA RequeuedKeeps ==
    ASSUME NEW s, Sound(s)
    PROVE  /\ Sound(Requeued(s)) /\ ~ Requeued(s).writing /\ Alike(s, Requeued(s))
           /\ Requeued(s).posted = s.posted
<1> DEFINE queue == s.batch \o s.queue
           t == [s EXCEPT !.writing = FALSE, !.batch = <<>>, !.queue = queue]
<1>1. Requeued(s) = t
    BY DEF Requeued
<1>2. /\ Sane(s, {}) /\ s \in Clients
      /\ s.queue \in Seq(WriteReqs) /\ s.queue \in Seq(Fitting(s, WriteReqs))
      /\ s.batch \in Seq(WriteReqs) /\ s.batch \in Seq(Fitting(s, WriteReqs))
    BY DEF Sound, Sane, Matching, Clients
<1>3. queue \in Seq(WriteReqs) /\ queue \in Seq(Fitting(s, WriteReqs))
    <2>1. queue \in Seq(WriteReqs)
        BY <1>2, ConcatProperties
    <2>2. queue \in Seq(Fitting(s, WriteReqs))
        BY <1>2, ConcatProperties
    <2> QED
        BY <2>1, <2>2
<1>4. \A r : Count(queue, r) = Count(s.batch, r) + Count(s.queue, r)
    BY <1>2, CountConcat
<1> HIDE DEF queue
<1>5. t \in Clients
    <2>1. <<>> \in Seq(WriteReqs)
        BY EmptySeq
    <2> QED
        BY <1>2, <1>3, <2>1 DEF Clients
<1>6. /\ Alike(s, t) /\ t.queue = queue /\ t.batch = <<>> /\ t.handlers = s.handlers
      /\ t.posted = s.posted /\ t.writing = FALSE
    BY <1>2 DEF Clients, Alike
<1> HIDE DEF t
<1>7. Placed(t, {})
    <2>1. ASSUME NEW r \in Requests PROVE Held(t, r) = Held(s, r)
        <3>1. /\ Count(s.queue, r) \in Nat /\ Count(s.batch, r) \in Nat
              /\ Count(s.handlers, r) \in Nat /\ Count(s.posted, r) \in Nat
            BY <1>2, HeldIsNat
        <3>2. Count(<<>>, r) = 0
            BY CountEmpty
        <3>3. Held(t, r) = Count(s.batch, r) + Count(s.queue, r) + 0 + Count(s.handlers, r) +
           Count(s.posted, r)
            BY <1>4, <1>6, <3>2 DEF Held
        <3> QED
            BY <3>1, <3>3 DEF Held
    <2> QED
        BY <1>2, <1>6, <2>1, AlikeKeeps DEF Sane, Placed
<1>8. Matching(t)
    <2>1. <<>> \in Seq(Fitting(t, WriteReqs))
        BY EmptySeq
    <2> QED
        BY <1>2, <1>3, <1>6, <2>1, AlikeKeeps DEF Sane, Matching
<1>9. Ids(t) /\ Excused(t)
    BY <1>2, <1>6, AlikeKeeps DEF Sane
<1> QED
    BY <1>1, <1>2, <1>5, <1>6, <1>7, <1>8, <1>9 DEF Sound, Sane, Steady

\* Those who are forgotten with the session were no requests.
LEMMA UpdateSessionSound ==
    ASSUME NEW s, Sound(s), NEW present
    PROVE  /\ Sound(UpdateSession(s, present)) /\ UpdateSession(s, present).writing = s.writing
           /\ Onward(s, UpdateSession(s, present)) /\ UpdateSession(s, present).posted = s.posted
<1> DEFINE lasting == {i \in DOMAIN s.handlers : s.handlers[i].code # "PUBREL"}
           H == At(s.handlers, lasting)
           gone == At(s.handlers, DOMAIN s.handlers \ lasting)
           t == [s EXCEPT !.handlers = H, !.expired = @ \/ s.subscribed, !.subscribed = FALSE]
<1>1. UpdateSession(s, present) = IF present THEN s ELSE t
    BY DEF UpdateSession
<1>2. /\ Sane(s, {}) /\ Steady(s) /\ s \in Clients
      /\ s.handlers \in Seq(Waiters) /\ s.handlers \in Seq(Fitting(s, Waiters))
    BY DEF Sound, Sane, Matching, Clients
<1>3. H \in Seq(Waiters) /\ H \in Seq(Fitting(s, Waiters))
    <2> HIDE DEF lasting
    <2>1. H \in Seq(Waiters)
        BY <1>2, CountParted
    <2>2. H \in Seq(Fitting(s, Waiters))
        BY <1>2, CountParted
    <2> QED
        BY <2>1, <2>2
<1>4. ASSUME NEW r \in Requests PROVE Count(H, r) = Count(s.handlers, r)
    <2>1. Count(H, r) + Count(gone, r) = Count(s.handlers, r)
        <3> HIDE DEF lasting
        <3> QED
            BY <1>2, CountParted
    <2>2. gone \in Seq(Waiters) /\ DOMAIN gone = 1 .. Len(gone)
        <3> HIDE DEF lasting
        <3>1. gone \in Seq(Waiters)
            BY <1>2, CountParted
        <3> HIDE DEF gone
        <3> QED
            BY <3>1, LenProperties
    <2>3. ASSUME NEW i \in DOMAIN gone PROVE gone[i].op # r
        <3> DEFINE others == DOMAIN s.handlers \ lasting
        <3>1. PICK j \in 1 .. Len(s.handlers) : j \in others /\ gone[i] = s.handlers[j]
            <4>1. \A x : x \in ToSet(gone) <=> \E j \in 1 .. Len(s.handlers) : j \in others
               /\ x = s.handlers[j]
                <5> HIDE DEF others
                <5> QED
                    BY <1>2, AtProperties DEF others
            <4>2. gone[i] \in ToSet(gone)
                BY DEF ToSet
            <4> QED
                BY <4>1, <4>2
        <3>2. s.handlers[j].code = "PUBREL"
            BY <3>1
        <3>3. s.handlers[j] \in Waiters
            BY <1>2, ElementOfSeq
        <3>4. IsWaiting(s.handlers[j])
            BY <3>3 DEF Waiters
        <3>5. kind \in [Requests -> {"qos0", "qos1", "qos2", "subscribe", "unsubscribe"}]
            BY <1>2 DEF Sane
        <3> HIDE DEF gone, others
        <3>6. s.handlers[j].op \in Incoming
            BY <3>2, <3>4, <3>5, AwaitedIs DEF IsWaiting
        <3>7. r \notin Incoming
            BY DeliveryAssumption
        <3> QED
            BY <3>1, <3>6, <3>7
    <2> HIDE DEF gone, H
    <2>4. Count(gone, r) = 0 /\ Count(H, r) \in Nat
        BY <1>3, <2>2, <2>3, CountTells
    <2> QED
        BY <2>1, <2>4
<1> HIDE DEF H
<1>5. t \in Clients
    BY <1>2, <1>3 DEF Clients
<1>6. /\ Alike(s, t) /\ t.queue = s.queue /\ t.batch = s.batch /\ t.handlers = H
      /\ t.posted = s.posted /\ t.writing = s.writing /\ t.quota = s.quota /\ t.limit = s.limit
    BY <1>2 DEF Clients, Alike
<1> HIDE DEF t
<1>7. Placed(t, {})
    <2>1. \A r \in Requests : Held(t, r) = Held(s, r)
        BY <1>4, <1>6 DEF Held
    <2> QED
        BY <1>2, <1>6, <2>1, AlikeKeeps DEF Sane, Placed
<1>8. Matching(t)
    BY <1>2, <1>3, <1>6, AlikeKeeps DEF Sane, Matching
<1>9. Ids(t) /\ Excused(t)
    BY <1>2, <1>6, AlikeKeeps DEF Sane
<1>10. Onward(s, t) /\ Onward(s, s)
    BY <1>6, OnwardAlike DEF Onward
<1> QED
    BY <1>1, <1>2, <1>5, <1>6, <1>7, <1>8, <1>9, <1>10 DEF Sound, Sane, Steady

\* A part of the client that has no part in the invariant.
LEMMA WireSound ==
    ASSUME NEW s, Sound(s), NEW t, NEW wire \in Seq([op : Anyone, code : PacketCodes, pid : Nat]),
           NEW maximum \in 1 .. Unlimited, NEW shut \in BOOLEAN,
           t = [s EXCEPT !.maximum = maximum, !.wire = wire, !.shut = shut]
    PROVE  Sound(t) /\ Onward(s, t) /\ t.writing = s.writing /\ t.posted = s.posted
<1>1. s \in Clients
    BY DEF Sound, Sane
<1>2. t \in Clients
    BY <1>1 DEF Clients
<1>3. Untouched(s, t) /\ t.quota = s.quota /\ t.limit = s.limit
    BY <1>1 DEF Clients, Untouched, Alike
<1> QED
    BY <1>2, <1>3, UntouchedSound DEF Untouched

\* A client has deferred completions, perhaps none.
LEMMA ClientPosts == ASSUME NEW s, Sound(s) PROVE "posted" \in DOMAIN s
BY DEF Sound, Sane, Clients

\* What is sent again when a write has found out that its connection is gone.
LEMMA ResendSound ==
    ASSUME NEW s, Sound(s)
    PROVE  /\ Sound(SenderResend(Requeued(s)))
           /\ s.posted = <<>> => Onward(s, SenderResend(Requeued(s)))
BY RequeuedKeeps, SenderResendKeeps DEF Sound, Onward, Alike

\* A connection that is made.
LEMMA ReconnectSound ==
    ASSUME Sound(svc), Reconnect
    PROVE  Sound(svc') /\ Onward(svc, svc') /\ (stale' => svc'.posted = <<>>)
<1>1. PICK maximum \in ReceiveMaximums :
          LET s == UpdateSession([svc EXCEPT !.maximum = maximum, !.wire = <<>>,
                                             !.shut = FALSE],
                                 brk.session)
          IN  (svc' = SenderResend(Requeued(s)) /\ stale' = stale) \/ svc' = s
    BY DEF Reconnect
<1> DEFINE t == [svc EXCEPT !.maximum = maximum, !.wire = <<>>, !.shut = FALSE]
           s == UpdateSession(t, brk.session)
<1>2. Sound(t) /\ Onward(svc, t) /\ t.posted = <<>>
    <2>1. <<>> \in Seq([op : Anyone, code : PacketCodes, pid : Nat]) /\ maximum \in 1 .. Unlimited
        BY EmptySeq, DeliveryAssumption
    <2> HIDE DEF t
    <2> QED
        BY <2>1, WireSound DEF t, Reconnect
<1> HIDE DEF t
<1>3. Sound(s) /\ Onward(svc, s) /\ s.posted = <<>>
    BY <1>2, UpdateSessionSound DEF Onward
<1>4. (svc' = SenderResend(Requeued(s)) /\ ~ stale') \/ svc' = s
    BY <1>1 DEF t, Reconnect
<1> HIDE DEF s
<1>5. Sound(SenderResend(Requeued(s))) /\ Onward(svc, SenderResend(Requeued(s)))
    BY <1>3, ResendSound DEF Onward
<1> QED
    BY <1>3, <1>4, <1>5

\* A write that finds out late.
LEMMA RejoinSound ==
    ASSUME Sound(svc), Rejoin, svc.posted = <<>>
    PROVE  Sound(svc') /\ Onward(svc, svc')
BY ResendSound DEF Rejoin

\* A DISCONNECT of the sentry.
LEMMA SentrySound ==
    ASSUME Sound(svc), Sentry
    PROVE  Sound(svc') /\ Onward(svc, svc') /\ svc'.posted = svc.posted
<1>1. svc' = Send(svc, Disconnect)
    BY DEF Sentry
<1>2. Disconnect \in Fitting(svc, WriteReqs) /\ Disconnect.op \notin Requests
    BY OtherFits DEF Disconnect
<1>3. {} \ {Disconnect.op} = {} /\ {} \in SUBSET {}
    OBVIOUS
<1>4. Keeps(svc, Send(svc, Disconnect), {})
   /\ (Within(svc, {}) => Within(Send(svc, Disconnect), {}))
    BY <1>2, <1>3, SendKeeps DEF Sound
<1>5. Quiet(svc, Send(svc, Disconnect))
    BY ClientPosts, SendQuiet
<1> QED
    BY <1>1, <1>4, <1>5, KeptSound DEF Quiet

\* A packet that the broker takes, and its answer.
LEMMA BrokerTakesSound ==
    ASSUME Sound(svc), BrokerTakes, b2c \in Seq(Arriving)
    PROVE  /\ Sound(svc') /\ Onward(svc, svc') /\ svc'.posted = svc.posted
           /\ b2c' \in Seq(Arriving)
<1> DEFINE p == Head(svc.wire)
           Wired == [op : Anyone, code : PacketCodes, pid : Nat]
           wire == Tail(svc.wire)
<1>1. /\ svc.wire # <<>> /\ svc' = [svc EXCEPT !.wire = wire] /\ b2c' = b2c \o Answers(p)
    BY DEF BrokerTakes
<1>2. /\ svc \in Clients /\ svc.wire \in Seq(Wired) /\ svc.maximum \in 1 .. Unlimited
      /\ svc.shut \in BOOLEAN
    BY DEF Sound, Sane, Clients
<1>3. wire \in Seq(Wired) /\ p \in Wired
    BY <1>1, <1>2, HeadTailProperties
<1> HIDE DEF wire, p
<1>4. Sound(svc') /\ Onward(svc, svc') /\ svc'.posted = svc.posted
    <2>1. [svc EXCEPT !.wire = wire] =
       [svc EXCEPT !.maximum = svc.maximum, !.wire = wire, !.shut = svc.shut]
        BY <1>2 DEF Clients
    <2> QED
        BY <1>1, <1>2, <1>3, <2>1, WireSound
<1>5. Answers(p) \in Seq(Arriving)
    <2>1. ASSUME NEW code \in ReplyCodes
          PROVE  Answer(p, code) \in Seq(Arriving)
        <3> DEFINE x == [op |-> p.op, code |-> code, pid |-> p.pid,
                         result |-> IF p.op \in Refused THEN "refused" ELSE "ok"]
        <3>1. x \in Arriving
            BY <1>3 DEF Arriving, ReplyCodes
        <3>2. Answer(p, code) = <<x>>
            BY DEF Answer
        <3> HIDE DEF x
        <3> QED
            BY <3>1, <3>2, CountOne
    <2>2. <<>> \in Seq(Arriving)
        BY EmptySeq
    <2>3. \/ Answers(p) = <<>>
          \/ \E code \in ReplyCodes : Answers(p) = Answer(p, code)
        BY DEF Answers, ReplyCodes
    <2> QED
        BY <2>1, <2>2, <2>3
<1> QED
    BY <1>1, <1>4, <1>5, ConcatProperties

\* A packet that is read.
LEMMA ReadSound ==
    ASSUME Sound(svc), Read, b2c \in Seq(Arriving),
           level \in [Incoming -> {"qos0", "qos1", "qos2"}]
    PROVE  /\ Sound(svc') /\ Onward(svc, svc') /\ svc'.posted = svc.posted
           /\ b2c' \in Seq(Arriving)
<1> DEFINE p == Head(b2c)
<1>1. /\ b2c # <<>> /\ b2c' = Tail(b2c)
      /\ svc' = IF p.code = "PUBLISH" THEN OnPublish(svc, p.op) ELSE Dispatch(svc, p)
    BY DEF Read
<1>2. b2c' \in Seq(Arriving) /\ p \in Arriving
    BY <1>1, HeadTailProperties
<1> HIDE DEF p
<1>3. Sane(svc, {}) /\ Steady(svc)
    BY DEF Sound
<1>4. CASE p.code = "PUBLISH"
    <2> DEFINE m == p.op
    <2>1. m \in Incoming
        BY <1>2, <1>4 DEF Arriving
    <2> HIDE DEF m
    <2>2. {} \ {m} = {} /\ {} \in SUBSET {}
        OBVIOUS
    <2>3. CASE level[m] = "qos0"
        <3>1. svc' = Store(svc, m)
            BY <1>1, <1>4, <2>3 DEF OnPublish, m
        <3>2. /\ Keeps(svc, Store(svc, m), {} \ {m})
              /\ Within(svc, {}) => Within(Store(svc, m), {})
            BY <1>3, <2>1, StoreKeeps
        <3>3. Store(svc, m).posted = svc.posted
            BY ClientPosts DEF Store
        <3> QED
            BY <1>2, <2>2, <3>1, <3>2, <3>3, KeptSound
    <2>4. CASE level[m] # "qos0"
        <3> DEFINE code == IF level[m] = "qos1" THEN "PUBACK" ELSE "PUBREC"
                   x == WriteReq(m, code, 1, 0)
        <3>1. svc' = Send(svc, x)
            BY <1>1, <1>4, <2>4 DEF OnPublish, m
        <3>2. x \in Fitting(svc, WriteReqs) /\ x.op = m /\ m \notin Requests
            BY <2>1, OtherFits
        <3> HIDE DEF x
        <3>3. Keeps(svc, Send(svc, x), {}) /\ (Within(svc, {}) => Within(Send(svc, x), {}))
            BY <1>3, <2>2, <3>2, SendKeeps
        <3>4. Quiet(svc, Send(svc, x))
            BY ClientPosts, SendQuiet
        <3> QED
            BY <1>2, <3>1, <3>3, <3>4, KeptSound DEF Quiet
    <2> QED
        BY <2>3, <2>4
<1>5. CASE p.code # "PUBLISH"
    <2>1. p \in Replies
        BY <1>2, <1>5 DEF Arriving, Replies
    <2>2. Quiet(svc, Dispatch(svc, p))
        BY ClientPosts, DispatchQuiet
    <2> QED
        BY <1>1, <1>2, <1>3, <1>5, <2>1, <2>2, DispatchSane DEF Sound, Quiet
<1> QED
    BY <1>4, <1>5

\* A connection that is lost.
LEMMA BreakSound ==
    ASSUME Sound(svc), Break
    PROVE  Sound(svc') /\ Onward(svc, svc') /\ svc'.posted = svc.posted /\ b2c' = <<>>
<1>1. svc' = [svc EXCEPT !.wire = <<>>] /\ b2c' = <<>>
    BY DEF Break
<1>2. /\ svc \in Clients /\ svc.maximum \in 1 .. Unlimited /\ svc.shut \in BOOLEAN
      /\ <<>> \in Seq([op : Anyone, code : PacketCodes, pid : Nat])
    BY EmptySeq DEF Sound, Sane, Clients
<1>3. [svc EXCEPT !.wire = <<>>] =
   [svc EXCEPT !.maximum = svc.maximum, !.wire = <<>>, !.shut = svc.shut]
    BY <1>2 DEF Clients
<1> QED
    BY <1>1, <1>2, <1>3, WireSound

\* A message of the broker is one that may arrive.
LEMMA BrokerSendsArriving ==
    ASSUME b2c \in Seq(Arriving), NEW m \in Incoming, BrokerSends(m)
    PROVE  b2c' \in Seq(Arriving)
<1> DEFINE x == [op |-> m, code |-> "PUBLISH", pid |-> 1, result |-> "ok"]
<1>1. b2c' = Append(b2c, x)
    BY DEF BrokerSends
<1>2. x \in Arriving
    BY DEF Arriving, Anyone
<1> HIDE DEF x
<1> QED
    BY <1>1, <1>2, AppendProperties

\* So is one that it sends again.
LEMMA RetransmittedArriving == Retransmitted \in Seq(Arriving)
<1> DEFINE unfinished == {m \in Incoming : brk.out[m] \in {"sent", "released"}}
           message == CHOOSE m \in unfinished : TRUE
           code == IF brk.out[message] = "sent" THEN "PUBLISH" ELSE "PUBREL"
           x == [op |-> message, pid |-> 1, result |-> "ok", code |-> code]
<1>1. Retransmitted = IF unfinished = {} THEN <<>> ELSE <<x>>
    BY Zenon DEF Retransmitted
<1>2. CASE unfinished = {}
    BY <1>1, <1>2, EmptySeq
<1>3. CASE unfinished # {}
    <2>1. message \in Incoming
        BY <1>3
    <2> HIDE DEF message
    <2>2. code \in {"PUBLISH", "PUBREL"}
        OBVIOUS
    <2> HIDE DEF code, unfinished
    <2>3. x \in Arriving
        BY <2>1, <2>2 DEF Arriving, Anyone, ReplyCodes
    <2> HIDE DEF x
    <2> QED
        BY <1>1, <1>3, <2>3, CountOne
<1> QED
    BY <1>2, <1>3

-----------------------------------------------------------------------------
(* The invariant of the specification *)

\* The client is sound and within its quota, but for a cancelled request; it is open unless
\* the program has closed it.  While a write has to find out that its connection is gone no
\* completion is deferred.
Accounted(s) ==
    /\ Sound(s) /\ Within(s, {})
    /\ link # "closed" => s.open
    /\ budget.abandons = 0 => s.abandoned = {}
    /\ stale /\ s.open => s.posted = <<>>

DeliveryInv ==
    /\ Accounted(svc)
    /\ level \in [Incoming -> {"qos0", "qos1", "qos2"}]
    /\ link \in {"down", "up", "closed"} /\ stale \in BOOLEAN
    /\ budget.abandons \in Nat
    /\ b2c \in Seq(Arriving)

\* The invariant holds at the start,
LEMMA StartsSound == DeliveryInit => DeliveryInv
<1> SUFFICES ASSUME DeliveryInit PROVE DeliveryInv
    OBVIOUS
<1>1. Accounted(svc)
    BY ClientIsSound DEF Accounted, DeliveryInit
<1>2. b2c \in Seq(Arriving)
    BY EmptySeq DEF DeliveryInit
<1> QED
    BY <1>1, <1>2, DeliveryAssumption DEF DeliveryInit, DeliveryInv

\* What the parts of the next state must be.
Accounts ==
    /\ Sound(svc') /\ Within(svc', {})
    /\ link' # "closed" => svc'.open
    /\ budget'.abandons = 0 => svc'.abandoned = {}
    /\ stale' /\ svc'.open => svc'.posted = <<>>
    /\ kind' = kind /\ level' = level
    /\ link' \in {"down", "up", "closed"} /\ stale' \in BOOLEAN
    /\ budget'.abandons \in Nat
    /\ b2c' \in Seq(Arriving)

\* Every step gives them.
LEMMA StepAccounts ==
    ASSUME DeliveryInv, DeliveryNext
    PROVE  Accounts
<1>1. /\ Sound(svc) /\ Within(svc, {})
      /\ link # "closed" => svc.open
      /\ budget.abandons = 0 => svc.abandoned = {}
      /\ stale /\ svc.open => svc.posted = <<>>
      /\ level \in [Incoming -> {"qos0", "qos1", "qos2"}]
      /\ link \in {"down", "up", "closed"} /\ stale \in BOOLEAN
      /\ budget.abandons \in Nat /\ b2c \in Seq(Arriving)
    BY DEF DeliveryInv, Accounted
<1>2. <<>> \in Seq(Arriving)
    BY EmptySeq
<1>3. CASE WriteDone
    <2>1. /\ stale' = FALSE /\ kind' = kind /\ level' = level /\ link' = link
          /\ b2c' = b2c /\ budget' = budget
        BY <1>1, <1>3 DEF WriteDone
    <2> QED
        BY <1>1, <1>3, <2>1, WriteDoneSound DEF Accounts, Onward
<1>4. CASE WriteAborted
    <2>1. /\ stale' = FALSE /\ kind' = kind /\ level' = level /\ link' = link
          /\ b2c' = b2c /\ budget' = budget
        BY <1>4 DEF WriteAborted
    <2> QED
        BY <1>1, <1>4, <2>1, WriteAbortedSound DEF Accounts, Onward
<1>5. CASE RunPosted
    <2>1. /\ svc.posted # <<>> /\ kind' = kind /\ level' = level /\ link' = link
          /\ stale' = stale /\ b2c' = b2c /\ budget' = budget
        BY <1>5 DEF RunPosted
    <2> QED
        BY <1>1, <1>5, <2>1, RunPostedSound DEF Accounts, Onward
<1>6. CASE Cancel
    <2>1. /\ link' = "closed" /\ b2c' = <<>> /\ kind' = kind /\ level' = level
          /\ stale' = stale /\ budget' = [budget EXCEPT !.cancels = @ + 1]
        BY <1>6 DEF Cancel
    <2>2. budget'.abandons = budget.abandons
        BY <2>1
    <2> QED
        BY <1>1, <1>2, <1>6, <2>1, <2>2, CancelSound DEF Accounts
<1>7. CASE Reconnect
    <2>1. /\ stale' \in BOOLEAN /\ link = "down" /\ link' = "up" /\ b2c' = Retransmitted
          /\ kind' = kind /\ level' = level /\ budget' = budget
        BY <1>1, <1>7 DEF Reconnect
    <2> QED
        BY <1>1, <1>7, <2>1, ReconnectSound, RetransmittedArriving DEF Accounts, Onward
<1>8. CASE Rejoin
    <2>1. /\ stale /\ svc.open /\ stale' = FALSE /\ kind' = kind /\ level' = level
          /\ link' = link /\ b2c' = b2c /\ budget' = budget
        BY <1>8 DEF Rejoin
    <2> QED
        BY <1>1, <1>8, <2>1, RejoinSound DEF Accounts, Onward
<1>9. CASE Sentry
    <2>1. /\ kind' = kind /\ level' = level /\ link' = link /\ stale' = stale
          /\ b2c' = b2c /\ budget' = budget
        BY <1>9 DEF Sentry
    <2> QED
        BY <1>1, <1>9, <2>1, SentrySound DEF Accounts, Onward
<1>10. CASE BrokerTakes
    <2>1. kind' = kind /\ level' = level /\ link' = link /\ stale' = stale /\ budget' = budget
        BY <1>10 DEF BrokerTakes
    <2> QED
        BY <1>1, <1>10, <2>1, BrokerTakesSound DEF Accounts, Onward
<1>11. CASE Read
    <2>1. kind' = kind /\ level' = level /\ link' = link /\ stale' = stale /\ budget' = budget
        BY <1>11 DEF Read
    <2> QED
        BY <1>1, <1>11, <2>1, ReadSound DEF Accounts, Onward
<1>12. CASE Break
    <2>1. /\ link = "up" /\ link' = "down" /\ kind' = kind /\ level' = level
          /\ stale' = stale
        BY <1>12 DEF Break
    <2>2. budget'.abandons = budget.abandons
        <3>1. PICK breaks, cut : budget' = [budget EXCEPT !.breaks = breaks, !.cut = cut]
            BY <1>12 DEF Break
        <3> QED
            BY <3>1
    <2> QED
        BY <1>1, <1>2, <1>12, <2>1, <2>2, BreakSound DEF Accounts, Onward
<1>13. CASE LoseSession
    <2>1. /\ kind' = kind /\ level' = level /\ svc' = svc /\ link' = link
          /\ stale' = stale /\ b2c' = b2c /\ budget' = [budget EXCEPT !.losses = @ + 1]
        BY <1>13 DEF LoseSession
    <2>2. budget'.abandons = budget.abandons
        BY <2>1
    <2> QED
        BY <1>1, <2>1, <2>2 DEF Accounts
<1>14. CASE \E r \in Requests : Begin(r)
    <2>1. PICK r \in Requests : Begin(r)
        BY <1>14
    <2>2. /\ svc' = Start(svc, r) /\ kind' = kind /\ level' = level /\ link' = link
          /\ stale' = stale /\ b2c' = b2c /\ budget' = budget
        BY <2>1 DEF Begin
    <2>3. svc'.posted = svc.posted
        BY <1>1, <2>2, ClientPosts, StartQuiet DEF Quiet
    <2> QED
        BY <1>1, <2>1, <2>2, <2>3, BeginSound DEF Accounts, Onward
<1>15. CASE \E r \in Requests : Abandon(r)
    <2>1. PICK r \in Requests : Abandon(r)
        BY <1>15
    <2>2. /\ kind' = kind /\ level' = level /\ link' = link /\ stale' = stale /\ b2c' = b2c
          /\ Faults < MaxFaults /\ budget' = [budget EXCEPT !.abandons = @ + 1]
        BY <2>1 DEF Abandon
    <2>3. budget'.abandons = budget.abandons + 1
        BY <2>2
    <2> QED
        BY <1>1, <2>1, <2>2, <2>3, AbandonSound DEF Accounts
<1>16. CASE \E m \in Incoming : BrokerSends(m)
    <2>1. PICK m \in Incoming : BrokerSends(m)
        BY <1>16
    <2>2. /\ svc' = svc /\ link' = link /\ kind' = kind /\ level' = level /\ stale' = stale
          /\ budget' = budget
        BY <2>1 DEF BrokerSends
    <2> QED
        BY <1>1, <2>1, <2>2, BrokerSendsArriving DEF Accounts
<1> QED
    BY <1>3, <1>4, <1>5, <1>6, <1>7, <1>8, <1>9, <1>10, <1>11, <1>12, <1>13, <1>14, <1>15, <1>16
    DEF DeliveryNext

\* ... and that they are the invariant.
LEMMA AccountsNext == Accounts /\ DeliveryInv => DeliveryInv'
<1> SUFFICES ASSUME Accounts, DeliveryInv PROVE DeliveryInv'
    OBVIOUS
<1>1. Sound(svc)'
    BY SoundNext DEF Accounts, Sound
<1>2. Within(svc, {})'
    <2>1. Owing(svc, {})' = Owing(svc', {})
        BY DEF Accounts, Owing, Metered, Sent, Waits
    <2> QED
        BY <2>1 DEF Accounts, Within, Limited
<1>3. b2c' \in Seq(Arriving')
    BY DEF Accounts, Arriving
<1> QED
    BY <1>1, <1>2, <1>3 DEF Accounts, Accounted, DeliveryInv

\* The invariant of the specification: every list and number of the client says the same
\* of each request, whatever the order of writes, replies, lost connections, new sessions
\* and cancellations.
THEOREM DeliveryInvariant == DeliverySpec => []DeliveryInv
<1>1. DeliveryInit => DeliveryInv
    BY StartsSound
<1>2. DeliveryInv /\ [DeliveryNext]_deliveryVars => DeliveryInv'
    <2> SUFFICES ASSUME DeliveryInv, [DeliveryNext]_deliveryVars PROVE DeliveryInv'
        OBVIOUS
    <2>1. Accounts
        <3>1. CASE DeliveryNext
            BY <3>1, StepAccounts
        <3>2. CASE UNCHANGED deliveryVars
            BY <3>2 DEF deliveryVars, DeliveryInv, Accounted, Accounts
        <3> QED
            BY <3>1, <3>2
    <2> QED
        BY <2>1, AccountsNext
<1> QED
    BY <1>1, <1>2, PTL DEF DeliverySpec

\* The invariant has what is claimed of the requests.
LEMMA InvTells == DeliveryInv => RequestsAccounted
<1> SUFFICES ASSUME DeliveryInv PROVE RequestsAccounted
    OBVIOUS
<1>1. /\ Sane(svc, {}) /\ Steady(svc) /\ svc \in Clients
      /\ link \in {"down", "up", "closed"} /\ stale \in BOOLEAN
      /\ Within(svc, {}) /\ (link # "closed" => svc.open)
      /\ budget.abandons = 0 => svc.abandoned = {}
    BY DEF DeliveryInv, Accounted, Sound, Sane
<1>2. DeliveryTypeOK
    BY <1>1 DEF Sane, Steady, Clients, Statuses, DeliveryTypeOK
<1>3. IdsExact
    <2> DEFINE numbered == {r \in Sending : kind[r] # "qos0"}
    <2>1. Ids(svc)
        BY <1>1 DEF Sane
    <2>2. \A r \in Requests : r \in numbered <=> Numbered(svc, r)
        BY DEF Numbered, Sent, Sending
    <2>3. numbered \subseteq Requests
        BY DEF Sending
    <2>4. svc.free \subseteq 1 .. PacketIdsMax /\ 0 \notin 1 .. PacketIdsMax
        BY <1>1, DeliveryAssumption DEF Clients
    <2> HIDE DEF numbered
    <2>5. \A r, q \in numbered : r # q => svc.pid[r] # svc.pid[q]
        BY <2>1, <2>2, <2>3 DEF Ids
    <2>6. svc.free = 1 .. PacketIdsMax \ {svc.pid[r] : r \in numbered}
        <3>1. ASSUME NEW p \in svc.free PROVE p \notin {svc.pid[r] : r \in numbered}
            BY <2>1, <2>3 DEF Ids
        <3>2. ASSUME NEW p \in 1 .. PacketIdsMax, p \notin svc.free
              PROVE  p \in {svc.pid[r] : r \in numbered}
            <4>1. PICK r \in Requests : svc.pid[r] = p
                BY <2>1, <3>2 DEF Ids
            <4>2. r \in numbered
                BY <2>1, <2>2, <2>4, <3>2, <4>1 DEF Ids
            <4> QED
                BY <4>1, <4>2
        <3> QED
            BY <2>4, <3>1, <3>2
    <2> QED
        BY <2>5, <2>6 DEF IdsExact, numbered
<1>4. NothingForgotten
    <2>1. ASSUME NEW r \in Requests PROVE Places(r) = IF r \in Sending THEN 1 ELSE 0
        <3>1. Places(r) = Held(svc, r)
            BY DEF Places, Held
        <3>2. Held(svc, r) = IF Sent(svc, r) THEN 1 ELSE 0
            BY <1>1 DEF Sane, Placed
        <3> QED
            BY <3>1, <3>2 DEF Sent, Sending
    <2> QED
        BY <2>1 DEF NothingForgotten
<1>5. AbortedOnRequest
    BY <1>1 DEF Sane, Excused, MayAbort, AbortedOnRequest
<1>6. WithinQuota
    <2> SUFFICES ASSUME link = "up", budget.abandons = 0 PROVE Cardinality(InFlight) <= svc.limit
        BY DEF WithinQuota
    <2>1. InFlight \subseteq Requests /\ \A r \in InFlight : Sent(svc, r) /\ Metered(r)
        BY DEF InFlight, Sending, Sent, Metered
    <2>2. svc.limit \in Nat
        BY <1>1, DeliveryAssumption DEF Clients
    <2>3. CASE svc.limit = Unlimited
        <3>1. InFlight \subseteq {r \in Requests : Numbered(svc, r)}
            BY <2>1 DEF Numbered, Metered
        <3>2. Cardinality(InFlight) \in Nat /\ Cardinality(InFlight) <= PacketIdsMax
            BY <1>1, <3>1, NumberedAreFew
        <3> QED
            BY <2>3, <3>2, DeliveryAssumption
    <2>4. CASE svc.limit # Unlimited
        <3>1. svc.quota \in Nat /\ svc.quota + Cardinality(Owing(svc, {})) = svc.limit
            BY <1>1, <2>4 DEF Within, Limited
        <3>2. InFlight \subseteq Owing(svc, {})
            <4>1. ASSUME NEW r \in InFlight PROVE ~ Waits(svc.queue, r)
                <5>1. r \in Requests /\ Held(svc, r) = 1
                    BY <1>1, <2>1 DEF Sane, Placed
                <5>2. Count(svc.batch, r) # 0 \/ Count(svc.handlers, r) # 0
                    BY <1>1, CountTells DEF InFlight, Clients
                <5>3. /\ Count(svc.queue, r) \in Nat /\ Count(svc.batch, r) \in Nat
                      /\ Count(svc.handlers, r) \in Nat /\ Count(svc.posted, r) \in Nat
                    BY <1>1, CountTells DEF Clients
                <5>4. Count(svc.queue, r) = 0
                    BY <5>1, <5>2, <5>3 DEF Held
                <5> QED
                    BY <1>1, <5>4, CountTells DEF Waits, Clients
            <4> QED
                BY <2>1, <4>1 DEF Owing
        <3>3. IsFiniteSet(Owing(svc, {})) /\ Cardinality(Owing(svc, {})) \in Nat
            BY <1>1, OwingIsFew
        <3>4. Cardinality(InFlight) \in Nat /\ Cardinality(InFlight) <= Cardinality(Owing(svc, {}))
            BY <3>2, <3>3, FS_Subset, FS_CardinalityType
        <3> QED
            BY <2>2, <3>1, <3>3, <3>4
    <2> QED
        BY <2>3, <2>4
<1> QED
    BY <1>2, <1>3, <1>4, <1>5, <1>6 DEF RequestsAccounted

\* So every request under way has a packet identifier of its own and is at one place,
\* never forgotten and never twice; the broker never has more publications to acknowledge
\* than it asked for; and none is aborted but on request (async_sender, replies, packet_ids
\* and the operations publish_send_op, subscribe_op and unsubscribe_op).
THEOREM RequestsAreAccounted == DeliverySpec => []RequestsAccounted
BY DeliveryInvariant, InvTells, PTL
=============================================================================
