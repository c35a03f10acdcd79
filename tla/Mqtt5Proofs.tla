------------------------------ MODULE Mqtt5Proofs ------------------------------
(***************************************************************************)
(* Boost.MQTT5: the packet identifiers, for any number of them; the         *)
(* reconnection, for any brokers and any number of lost connections; the    *)
(* topics, for texts of any size; the packets read, for any that a broker   *)
(* may send, in whatever pieces they come.  And MqttSession, the coroutine  *)
(* of the host that uses it: it never waits for messages that cannot come,  *)
(* and the status it shows is right, for any topics, any grants of the      *)
(* broker and any number of lost connections.                               *)
(***************************************************************************)
EXTENDS Connection, PacketIds, Topics, Framing, MqttSession, SequenceLemmas, FiniteSetTheorems

-----------------------------------------------------------------------------
(* PacketIds: the intervals *)

Intervals == [start : 0 .. MaxPacketId, end : 0 .. MaxPacketId]

\* The vector of a state with its type, apart as IntervalsApart says.
Sound(ids) ==
    /\ ids \in Seq(Intervals)
    /\ \A k \in DOMAIN ids : ids[k].end < ids[k].start
    /\ \A k, l \in DOMAIN ids : k < l => ids[l].start < ids[k].end

\* The identifiers it holds.
Free(ids) == UNION {Holds(ids[k]) : k \in DOMAIN ids}

LEMMA SoundFacts ==
    ASSUME NEW ids, Sound(ids)
    PROVE  /\ Len(ids) \in Nat /\ DOMAIN ids = 1 .. Len(ids)
           /\ \A k \in DOMAIN ids : /\ ids[k].start \in Nat /\ ids[k].end \in Nat
                                   /\ ids[k].start <= MaxPacketId
                                   /\ ids[k].end < ids[k].start
           /\ Free(ids) \subseteq 1 .. MaxPacketId
           /\ \A x : x \in Free(ids) <=>
                        x \in Nat /\ \E k \in DOMAIN ids : ids[k].end < x /\ x <= ids[k].start
<1>1. Len(ids) \in Nat /\ DOMAIN ids = 1 .. Len(ids) /\ MaxPacketId \in Nat
    BY LenProperties, PacketIdsAssumption DEF Sound
<1>2. \A k \in DOMAIN ids : ids[k] \in Intervals
    BY <1>1, ElementOfSeq DEF Sound
<1>3. \A k \in DOMAIN ids : /\ ids[k].start \in Nat /\ ids[k].end \in Nat
                           /\ ids[k].start <= MaxPacketId /\ ids[k].end < ids[k].start
    BY <1>1, <1>2 DEF Intervals, Sound
<1>4. \A x : x \in Free(ids) <=>
                x \in Nat /\ \E k \in DOMAIN ids : ids[k].end < x /\ x <= ids[k].start
    BY <1>3 DEF Free, Holds
<1>5. Free(ids) \subseteq 1 .. MaxPacketId
    BY <1>1, <1>3, <1>4
<1> QED
    BY <1>1, <1>3, <1>4, <1>5

\* Without the last interval.
LEMMA FrontIsSound ==
    ASSUME NEW ids, Sound(ids), ids # <<>>
    PROVE  /\ Sound(Front(ids)) /\ Len(Front(ids)) = Len(ids) - 1
           /\ \A k \in 1 .. Len(ids) - 1 : Front(ids)[k] = ids[k]
<1> DEFINE t == Front(ids)
<1>1. Len(ids) \in Nat /\ DOMAIN ids = 1 .. Len(ids) /\ ids \in Seq(Intervals)
    BY SoundFacts DEF Sound
<1>2. Len(ids) # 0
    BY <1>1, EmptySeq
<1>3. \A k \in 1 .. Len(ids) - 1 : ids[k] \in Intervals
    BY <1>1, ElementOfSeq
<1>4. /\ t \in Seq(Intervals) /\ Len(t) = Len(ids) - 1
      /\ \A k \in 1 .. Len(ids) - 1 : t[k] = ids[k]
    <2>1. /\ SubSeq(ids, 1, Len(ids) - 1) \in Seq(Intervals)
          /\ Len(SubSeq(ids, 1, Len(ids) - 1)) = IF 1 <= Len(ids) - 1 THEN Len(ids) - 1 - 1 + 1 ELSE 0
          /\ \A k \in 1 .. Len(ids) - 1 - 1 + 1 : SubSeq(ids, 1, Len(ids) - 1)[k] = ids[1 + k - 1]
        BY <1>1, <1>3, SubSeqProperties
    <2> QED
        BY <1>1, <1>2, <2>1 DEF Front
<1>5. DOMAIN t = 1 .. Len(ids) - 1
    BY <1>4, LenProperties
<1> HIDE DEF t
<1>6. Sound(t)
    BY <1>1, <1>4, <1>5 DEF Sound
<1> QED
    BY <1>4, <1>6 DEF t

\* What allocate gives is the smallest free identifier, and it is free no longer.
LEMMA AllocateIsPooled ==
    ASSUME Sound(freeIds), AllocateId
    PROVE  /\ Sound(freeIds')
           /\ \/ Free(freeIds) = {} /\ lastGiven' = 0 /\ Free(freeIds') = Free(freeIds)
              \/ /\ lastGiven' \in Free(freeIds) /\ \A other \in Free(freeIds) : lastGiven' <= other
                 /\ Free(freeIds') = Free(freeIds) \ {lastGiven'}
<1>1. CASE freeIds = <<>> /\ lastGiven' = 0 /\ UNCHANGED freeIds
    BY <1>1 DEF Free
<1>2. CASE ~(freeIds = <<>>)
    <2> DEFINE n == Len(freeIds)
               last == freeIds[n]
               id == last.end + 1
    <2>1. lastGiven' = id
          /\ freeIds' = IF id = last.start THEN Front(freeIds)
                        ELSE [freeIds EXCEPT ![n].end = @ + 1]
        BY <1>2 DEF AllocateId
    <2>2. /\ n \in Nat /\ DOMAIN freeIds = 1 .. n /\ freeIds \in Seq(Intervals)
          /\ \A k \in DOMAIN freeIds : /\ freeIds[k].start \in Nat /\ freeIds[k].end \in Nat
                                       /\ freeIds[k].start <= MaxPacketId
                                       /\ freeIds[k].end < freeIds[k].start
          /\ \A x : x \in Free(freeIds) <=>
                x \in Nat /\ \E k \in DOMAIN freeIds : freeIds[k].end < x /\ x <= freeIds[k].start
        BY SoundFacts DEF Sound
    <2>3. /\ n \in 1 .. n /\ last = freeIds[n]
          /\ last.start \in Nat /\ last.end \in Nat /\ last.end < last.start
          /\ last.start <= MaxPacketId /\ id = last.end + 1
        <3>1. n \in 1 .. n
            BY <1>2, <2>2, EmptySeq
        <3> QED
            BY <2>2, <3>1
    <2>9. \A k, l \in 1 .. n : k < l => freeIds[l].start < freeIds[k].end
        BY <2>2 DEF Sound
    <2> HIDE DEF n, last, id
    <2>4. \A k \in 1 .. n : k # n => last.start < freeIds[k].end
        BY <2>2, <2>3, <2>9
    <2>5. id \in Free(freeIds)
        BY <2>2, <2>3
    <2>6. \A other \in Free(freeIds) : id <= other
        BY <2>2, <2>3, <2>4
    <2>7. CASE id = last.start
        <3>1. /\ Sound(freeIds') /\ Len(freeIds') = n - 1
              /\ \A k \in 1 .. n - 1 : freeIds'[k] = freeIds[k]
            BY <1>2, <2>1, <2>7, FrontIsSound DEF n
        <3>2. /\ DOMAIN freeIds' = 1 .. n - 1
              /\ \A x : x \in Free(freeIds') <=>
                    x \in Nat /\ \E k \in 1 .. n - 1 : freeIds[k].end < x /\ x <= freeIds[k].start
            <4>1. /\ DOMAIN freeIds' = 1 .. n - 1
                  /\ \A x : x \in Free(freeIds') <=>
                        x \in Nat /\ \E k \in DOMAIN freeIds' : freeIds'[k].end < x /\ x <= freeIds'[k].start
                BY <3>1, SoundFacts
            <4> QED
                BY <3>1, <4>1
        <3>3. ASSUME NEW x
              PROVE  x \in Free(freeIds') <=> x \in Free(freeIds) /\ x # id
            <4>1. ASSUME x \in Free(freeIds')
                  PROVE  x \in Free(freeIds) /\ x # id
                <5>1. PICK k \in 1 .. n - 1 : x \in Nat /\ freeIds[k].end < x /\ x <= freeIds[k].start
                    BY <3>2, <4>1
                <5>2. k \in DOMAIN freeIds /\ k # n /\ k \in 1 .. n
                    BY <2>2, <5>1
                <5>3. last.start < freeIds[k].end
                    BY <2>4, <5>2
                <5>4. x \in Free(freeIds)
                    BY <2>2, <5>1, <5>2
                <5>5. freeIds[k].end \in Nat
                    BY <2>2, <5>2
                <5> QED
                    BY <2>3, <2>7, <5>1, <5>3, <5>4, <5>5
            <4>2. ASSUME x \in Free(freeIds), x # id
                  PROVE  x \in Free(freeIds')
                <5>1. PICK k \in DOMAIN freeIds : x \in Nat /\ freeIds[k].end < x /\ x <= freeIds[k].start
                    BY <2>2, <4>2
                <5>2. k # n
                    BY <2>2, <2>3, <2>7, <4>2, <5>1
                <5>3. k \in 1 .. n - 1
                    BY <2>2, <5>1, <5>2
                <5> QED
                    BY <3>2, <5>1, <5>3
            <4> QED
                BY <4>1, <4>2
        <3> QED
            BY <2>1, <2>5, <2>6, <3>1, <3>3
    <2>8. CASE id # last.start
        <3> DEFINE t == [freeIds EXCEPT ![n] = [last EXCEPT !.end = id]]
                   e == [last EXCEPT !.end = id]
        <3>1. freeIds' = t
            BY <2>1, <2>8 DEF id, last
        <3>2. e \in Intervals /\ e.end = id /\ e.start = last.start
            <4>1. last \in Intervals
                BY <2>2, <2>3, ElementOfSeq
            <4>2. id \in 0 .. MaxPacketId
                BY <2>2, <2>3, PacketIdsAssumption
            <4> QED
                BY <4>1, <4>2 DEF Intervals
        <3>3. /\ t \in Seq(Intervals) /\ Len(t) = n /\ DOMAIN t = 1 .. n
              /\ \A k \in 1 .. n : t[k] = IF k = n THEN e ELSE freeIds[k]
            BY <2>2, <2>3, <3>2, ExceptSeq, LenProperties DEF n
        <3>4. \A k \in 1 .. n : /\ t[k].start = freeIds[k].start
                                /\ t[k].end = IF k = n THEN id ELSE freeIds[k].end
            BY <2>3, <3>2, <3>3
        <3> HIDE DEF t, e
        <3>5. Sound(t)
            <4>1. \A k \in 1 .. n : t[k].end < t[k].start
                BY <2>2, <2>3, <2>8, <3>4
            <4>2. ASSUME NEW k \in 1 .. n, NEW l \in 1 .. n, k < l
                  PROVE  t[l].start < t[k].end
                <5>1. k # n /\ freeIds[l].start < freeIds[k].end
                    BY <2>2, <2>9, <4>2
                <5> QED
                    BY <3>4, <5>1
            <4> QED
                BY <3>3, <4>1, <4>2 DEF Sound
        <3>6. \A x : x \in Free(t) <=>
                x \in Nat /\ \E k \in 1 .. n : t[k].end < x /\ x <= t[k].start
            BY <3>3, <3>5, SoundFacts
        <3>7. ASSUME NEW x
              PROVE  x \in Free(t) <=> x \in Free(freeIds) /\ x # id
            <4>1. ASSUME x \in Free(t)
                  PROVE  x \in Free(freeIds) /\ x # id
                <5>1. PICK k \in 1 .. n : x \in Nat /\ t[k].end < x /\ x <= t[k].start
                    BY <3>6, <4>1
                <5>2. CASE k = n
                    BY <2>2, <2>3, <3>4, <5>1, <5>2
                <5>3. CASE k # n
                    <6>1. freeIds[k].end < x /\ x <= freeIds[k].start /\ last.start < freeIds[k].end
                        BY <2>4, <3>4, <5>1, <5>3
                    <6> QED
                        BY <2>2, <2>3, <5>1, <6>1
                <5> QED
                    BY <5>2, <5>3
            <4>2. ASSUME x \in Free(freeIds), x # id
                  PROVE  x \in Free(t)
                <5>1. PICK k \in 1 .. n : x \in Nat /\ freeIds[k].end < x /\ x <= freeIds[k].start
                    BY <2>2, <4>2
                <5>2. t[k].end < x
                    BY <2>2, <2>3, <3>4, <4>2, <5>1
                <5> QED
                    BY <3>4, <3>6, <5>1, <5>2
            <4> QED
                BY <4>1, <4>2
        <3>8. Free(t) = Free(freeIds) \ {id}
            BY <3>7
        <3> QED
            BY <2>1, <2>5, <2>6, <3>1, <3>5, <3>8
    <2> QED
        BY <2>7, <2>8
<1> QED
    BY <1>1, <1>2 DEF AllocateId

\* What free counts are the intervals above the identifier, at the vector's beginning.
LEMMA AboveIsPrefix ==
    ASSUME NEW ids, Sound(ids), NEW pid \in Nat
    PROVE  LET m == Cardinality({k \in DOMAIN ids : ids[k].start >= pid})
           IN  m \in 0 .. Len(ids) /\ \A k \in 1 .. Len(ids) : k <= m <=> ids[k].start >= pid
<1> DEFINE n == Len(ids)
           A == {k \in DOMAIN ids : ids[k].start >= pid}
<1>1. /\ n \in Nat /\ DOMAIN ids = 1 .. n
      /\ \A k \in 1 .. n : ids[k].start \in Nat /\ ids[k].end \in Nat /\ ids[k].end < ids[k].start
      /\ \A k, l \in 1 .. n : k < l => ids[l].start < ids[k].end
    BY SoundFacts DEF Sound
<1>2. PICK m \in 0 .. n : A = 1 .. m
    <2>1. CASE A = {}
        <3>1. A = 1 .. 0 /\ 0 \in 0 .. n
            BY <1>1, <2>1
        <3> QED
            BY <3>1
    <2>2. CASE A # {}
        <3>1. A \subseteq 0 .. n
            BY <1>1
        <3>2. Max(A) \in A /\ \A y \in A : Max(A) >= y
            BY <1>1, <2>2, <3>1, MaxOfNats
        <3> DEFINE m == Max(A)
        <3>3. m \in 1 .. n /\ ids[m].start >= pid
            BY <1>1, <3>2
        <3>4. \A y \in A : y \in 1 .. n /\ y <= m
            BY <1>1, <3>2, <3>3
        <3> HIDE DEF m
        <3>5. ASSUME NEW k \in 1 .. m
              PROVE  k \in A
            <4>1. k \in 1 .. n
                BY <1>1, <3>3
            <4>2. k = m \/ ids[m].start < ids[k].end
                BY <1>1, <3>3, <4>1
            <4>3. ids[k].start >= pid
                BY <1>1, <3>3, <4>1, <4>2
            <4> QED
                BY <1>1, <4>1, <4>3
        <3> HIDE DEF A
        <3>6. A = 1 .. m
            <4>1. A \subseteq 1 .. m
                <5>1. \A y \in 1 .. n : y <= m => y \in 1 .. m
                    BY <1>1, <3>3
                <5> QED
                    BY <3>4, <5>1
            <4> QED
                BY <3>5, <4>1
        <3> QED
            BY <1>1, <3>3, <3>6
    <2> QED
        BY <2>1, <2>2
<1>3. Cardinality(A) = m
    <2>1. Cardinality(1 .. m) = IF 1 > m THEN 0 ELSE m - 1 + 1
        BY <1>1, FS_Interval
    <2>2. (IF 1 > m THEN 0 ELSE m - 1 + 1) = m
        BY <1>1
    <2> HIDE DEF A
    <2> QED
        BY <1>2, <2>1, <2>2
<1>4. \A k \in 1 .. n : k <= m <=> ids[k].start >= pid
    BY <1>1, <1>2
<1> QED
    BY <1>1, <1>3, <1>4

\* free gives back what was in use: the vector stays as short as it can be.
LEMMA FreedIsPooled ==
    ASSUME NEW ids, Sound(ids), NEW pid \in 1 .. MaxPacketId, pid \notin Free(ids)
    PROVE  Sound(Freed(ids, pid)) /\ Free(Freed(ids, pid)) = Free(ids) \cup {pid}
<1> DEFINE n == Len(ids)
           m == Cardinality({k \in DOMAIN ids : ids[k].start >= pid})
           t == Freed(ids, pid)
           lo(k) == ids[k].end
           hi(k) == ids[k].start
<1>1. /\ n \in Nat /\ DOMAIN ids = 1 .. n /\ ids \in Seq(Intervals) /\ MaxPacketId \in Nat
      /\ \A k \in 1 .. n : hi(k) \in Nat /\ lo(k) \in Nat /\ hi(k) <= MaxPacketId /\ lo(k) < hi(k)
      /\ \A k, l \in 1 .. n : k < l => hi(l) < lo(k)
      /\ \A x : x \in Free(ids) <=> x \in Nat /\ \E k \in 1 .. n : lo(k) < x /\ x <= hi(k)
    BY SoundFacts, PacketIdsAssumption DEF Sound
<1>2. m \in 0 .. n /\ \A k \in 1 .. n : k <= m <=> hi(k) >= pid
    <2>1. pid \in Nat
        BY <1>1
    <2> QED
        BY <2>1, AboveIsPrefix
<1>3. \A k \in 1 .. n : k <= m => lo(k) >= pid
    BY <1>1, <1>2
<1>4. \A k \in 1 .. n : k > m => hi(k) < pid
    BY <1>1, <1>2
<1> DEFINE joinsAbove == m > 0 /\ lo(m) = pid
           joinsBelow == m < n /\ hi(m + 1) = pid - 1
<1>5. t = IF joinsAbove /\ joinsBelow
          THEN RemoveAt([ids EXCEPT ![m].end = ids[m + 1].end], m + 1)
          ELSE IF joinsAbove THEN [ids EXCEPT ![m].end = pid - 1]
          ELSE IF joinsBelow THEN [ids EXCEPT ![m + 1].start = pid]
          ELSE InsertAt(ids, m + 1, Interval(pid, pid - 1))
    BY DEF Freed
<1>6. \A k \in 1 .. n : ids[k] \in Intervals
    BY <1>1, ElementOfSeq
<1> HIDE DEF t, m
<1>7. CASE joinsAbove /\ joinsBelow
    <2> DEFINE e == [ids[m] EXCEPT !.end = ids[m + 1].end]
               u == [ids EXCEPT ![m] = e]
    <2>1. m \in 1 .. n /\ m + 1 \in 1 .. n
        BY <1>1, <1>2, <1>7
    <2>2. e \in Intervals /\ e.start = hi(m) /\ e.end = lo(m + 1)
        BY <1>6, <2>1 DEF Intervals
    <2>3. t = RemoveAt(u, m + 1)
        BY <1>5, <1>7
    <2>4. u \in Seq(Intervals) /\ Len(u) = n /\ \A k \in 1 .. n : u[k] = IF k = m THEN e ELSE ids[k]
        BY <1>1, <2>1, <2>2, ExceptSeq
    <2> HIDE DEF e, u
    <2>5. /\ t \in Seq(Intervals) /\ Len(t) = n - 1
          /\ \A k \in 1 .. n - 1 : t[k] = IF k < m + 1 THEN u[k] ELSE u[k + 1]
        BY ZenonT(60), <2>1, <2>3, <2>4, RemoveAtProperties
    <2>6. DOMAIN t = 1 .. n - 1
        BY <1>1, <2>5, LenProperties
    <2>7. \A k \in 1 .. n - 1 :
             /\ t[k].start = IF k <= m THEN hi(k) ELSE hi(k + 1)
             /\ t[k].end = IF k < m THEN lo(k) ELSE lo(k + 1)
        <3> TAKE k \in 1 .. n - 1
        <3>1. k \in 1 .. n /\ k + 1 \in 1 .. n
            BY <1>1
        <3>2. CASE k < m
            BY <2>1, <2>4, <2>5, <3>1, <3>2
        <3>3. CASE k = m
            BY <2>1, <2>2, <2>4, <2>5, <3>1, <3>3
        <3>4. CASE k > m
            BY <2>1, <2>4, <2>5, <3>1, <3>4
        <3> QED
            BY <2>1, <3>2, <3>3, <3>4
    <2> HIDE DEF lo, hi
    <2>8. Sound(t)
        <3>1. ASSUME NEW k \in 1 .. n - 1
              PROVE  t[k].end < t[k].start
            <4>1. k \in 1 .. n /\ k + 1 \in 1 .. n
                BY <1>1
            <4>2. hi(k + 1) < lo(k)
                BY <1>1, <4>1
            <4> QED
                BY SMTT(40), <1>1, <2>1, <2>7, <4>1, <4>2
        <3>2. ASSUME NEW k \in 1 .. n - 1, NEW l \in 1 .. n - 1, k < l
              PROVE  t[l].start < t[k].end
            <4>1. k \in 1 .. n /\ k + 1 \in 1 .. n /\ l \in 1 .. n /\ l + 1 \in 1 .. n
                BY <1>1
            <4>2. hi(l) < lo(k) /\ hi(l + 1) < lo(k + 1) /\ hi(l + 1) < lo(k)
                BY <1>1, <3>2, <4>1
            <4> QED
                BY SMTT(40), <1>1, <2>1, <2>7, <3>2, <4>1, <4>2
        <3> QED
            BY <2>5, <2>6, <3>1, <3>2 DEF Sound
    <2>9. ASSUME NEW x
          PROVE  x \in Free(t) <=> x \in Free(ids) \/ x = pid
        <3>1. x \in Free(t) <=> x \in Nat /\ \E k \in 1 .. n - 1 : t[k].end < x /\ x <= t[k].start
            BY <2>6, <2>8, SoundFacts
        <3>2. ASSUME x \in Free(t)
              PROVE  x \in Free(ids) \/ x = pid
            <4>1. PICK k \in 1 .. n - 1 : x \in Nat /\ t[k].end < x /\ x <= t[k].start
                BY <3>1, <3>2
            <4>2. k \in 1 .. n /\ k + 1 \in 1 .. n
                BY <1>1
            <4>3. CASE k < m
                BY <1>1, <2>1, <2>7, <4>1, <4>2, <4>3
            <4>4. CASE k > m
                <5>1. lo(k + 1) < x /\ x <= hi(k + 1)
                    BY <1>1, <2>1, <2>7, <4>1, <4>2, <4>4
                <5> QED
                    BY <1>1, <4>1, <4>2, <5>1
            <4>5. CASE k = m
                <5>1. lo(m + 1) < x /\ x <= hi(m) /\ lo(m) = pid /\ hi(m + 1) = pid - 1
                    BY <1>7, <2>1, <2>7, <4>1, <4>5
                <5>2. CASE x <= hi(m + 1)
                    BY <1>1, <2>1, <4>1, <5>1, <5>2
                <5>3. CASE lo(m) < x
                    BY <1>1, <2>1, <4>1, <5>1, <5>3
                <5>4. x <= pid - 1 \/ x = pid \/ pid < x
                    BY <4>1, <1>1
                <5> QED
                    BY <5>1, <5>2, <5>3, <5>4
            <4> QED
                BY <2>1, <4>3, <4>4, <4>5
        <3>3. ASSUME x \in Free(ids)
              PROVE  x \in Free(t)
            <4>1. PICK k \in 1 .. n : x \in Nat /\ lo(k) < x /\ x <= hi(k)
                BY <1>1, <3>3
            <4>2. CASE k < m
                <5>1. k \in 1 .. n - 1 /\ t[k].end < x /\ x <= t[k].start
                    BY <1>1, <2>1, <2>7, <4>1, <4>2
                <5> QED
                    BY <3>1, <4>1, <5>1
            <4>3. CASE k \in {m, m + 1}
                <5>1. m \in 1 .. n - 1 /\ lo(m + 1) < x /\ x <= hi(m)
                    BY <1>1, <1>7, <2>1, <4>1, <4>3
                <5>2. t[m].end < x /\ x <= t[m].start
                    BY <2>7, <5>1
                <5> QED
                    BY <3>1, <4>1, <5>1, <5>2
            <4>4. CASE k > m + 1
                <5>1. k - 1 \in 1 .. n - 1 /\ k - 1 > m /\ (k - 1) + 1 = k
                    BY <1>1, <2>1, <4>4
                <5>2. t[k - 1].end < x /\ x <= t[k - 1].start
                    BY <2>1, <2>7, <4>1, <5>1
                <5> QED
                    BY <3>1, <4>1, <5>1, <5>2
            <4> QED
                BY <2>1, <4>2, <4>3, <4>4
        <3>4. ASSUME x = pid
              PROVE  x \in Free(t)
            <4>1. m \in 1 .. n - 1 /\ lo(m + 1) < hi(m + 1) /\ hi(m + 1) = pid - 1 /\ lo(m) = pid
                  /\ lo(m) < hi(m)
                BY <1>1, <1>7, <2>1
            <4>2. t[m].end < pid /\ pid <= t[m].start /\ pid \in Nat
                BY <1>1, <2>1, <2>7, <4>1
            <4> QED
                BY <3>1, <3>4, <4>1, <4>2
        <3> QED
            BY <3>2, <3>3, <3>4
    <2> QED
        BY <2>8, <2>9 DEF t
<1>8. CASE joinsAbove /\ ~joinsBelow
    <2> DEFINE e == [ids[m] EXCEPT !.end = pid - 1]
               u == [ids EXCEPT ![m] = e]
    <2>1. m \in 1 .. n
        BY <1>1, <1>2, <1>8
    <2>2. e \in Intervals /\ e.start = hi(m) /\ e.end = pid - 1
        BY <1>1, <1>6, <2>1 DEF Intervals
    <2>3. t = u
        BY <1>5, <1>8
    <2>4. /\ u \in Seq(Intervals) /\ Len(u) = n /\ DOMAIN u = 1 .. n
          /\ \A k \in 1 .. n : u[k] = IF k = m THEN e ELSE ids[k]
        BY <1>1, <2>1, <2>2, ExceptSeq, LenProperties
    <2>5. \A k \in 1 .. n : u[k].start = hi(k) /\ u[k].end = IF k = m THEN pid - 1 ELSE lo(k)
        BY <2>2, <2>4
    <2> HIDE DEF e, u
    <2> HIDE DEF lo, hi
    <2>6. \A k \in 1 .. n : k > m => hi(k) < pid - 1
        <3> TAKE k \in 1 .. n
        <3> HAVE k > m
        <3>1. m + 1 \in 1 .. n /\ hi(m + 1) # pid - 1 /\ hi(m + 1) < pid
            BY <1>1, <1>4, <1>8, <2>1
        <3>2. k = m + 1 \/ (k > m + 1 /\ hi(k) < lo(m + 1) /\ lo(m + 1) < hi(m + 1))
            BY <1>1, <2>1, <3>1
        <3> QED
            BY <1>1, <3>1, <3>2
    <2>7. Sound(u)
        <3>1. \A k \in 1 .. n : u[k].end < u[k].start
            BY <1>1, <1>8, <2>1, <2>5
        <3>2. ASSUME NEW k \in 1 .. n, NEW l \in 1 .. n, k < l
              PROVE  u[l].start < u[k].end
            BY <1>1, <2>1, <2>5, <2>6, <3>2
        <3> QED
            BY <2>4, <3>1, <3>2 DEF Sound
    <2>8. ASSUME NEW x
          PROVE  x \in Free(u) <=> x \in Free(ids) \/ x = pid
        <3>1. x \in Free(u) <=> x \in Nat /\ \E k \in 1 .. n : u[k].end < x /\ x <= u[k].start
            BY <2>4, <2>7, SoundFacts
        <3>2. lo(m) = pid /\ pid \in Nat /\ lo(m) < hi(m) /\ hi(m) \in Nat
            BY <1>1, <1>8, <2>1
        <3>3. ASSUME x \in Free(u)
              PROVE  x \in Free(ids) \/ x = pid
            <4>1. PICK k \in 1 .. n : x \in Nat /\ u[k].end < x /\ x <= u[k].start
                BY <3>1, <3>3
            <4>2. x <= hi(k) /\ (lo(k) < x \/ x = pid)
                BY <2>5, <3>2, <4>1
            <4> QED
                BY <1>1, <4>1, <4>2
        <3>4. ASSUME x \in Free(ids)
              PROVE  x \in Free(u)
            <4>1. PICK k \in 1 .. n : x \in Nat /\ lo(k) < x /\ x <= hi(k)
                BY <1>1, <3>4
            <4>2. u[k].end < x /\ x <= u[k].start
                BY SMTT(40), <1>1, <2>5, <3>2, <4>1
            <4> QED
                BY <3>1, <4>1, <4>2
        <3>5. pid \in Free(u)
            <4>1. u[m].end < pid /\ pid <= u[m].start /\ pid \in Nat
                BY <2>1, <2>5, <3>2
            <4>2. pid \in Free(u) <=> pid \in Nat /\ \E k \in 1 .. n : u[k].end < pid /\ pid <= u[k].start
                BY <2>4, <2>7, SoundFacts
            <4> QED
                BY <2>1, <4>1, <4>2
        <3> QED
            BY <3>3, <3>4, <3>5
    <2> QED
        BY <2>3, <2>7, <2>8 DEF t
<1>9. CASE ~joinsAbove /\ joinsBelow
    <2> DEFINE e == [ids[m + 1] EXCEPT !.start = pid]
               u == [ids EXCEPT ![m + 1] = e]
    <2>1. m + 1 \in 1 .. n
        BY <1>1, <1>2, <1>9
    <2>2. e \in Intervals /\ e.start = pid /\ e.end = lo(m + 1)
        BY <1>1, <1>6, <2>1 DEF Intervals
    <2>3. t = u
        BY <1>5, <1>9
    <2>4. /\ u \in Seq(Intervals) /\ Len(u) = n /\ DOMAIN u = 1 .. n
          /\ \A k \in 1 .. n : u[k] = IF k = m + 1 THEN e ELSE ids[k]
        BY <1>1, <2>1, <2>2, ExceptSeq, LenProperties
    <2>5. \A k \in 1 .. n : u[k].end = lo(k) /\ u[k].start = IF k = m + 1 THEN pid ELSE hi(k)
        BY <2>2, <2>4
    <2> HIDE DEF e, u
    <2> HIDE DEF lo, hi
    <2>6. \A k \in 1 .. n : k <= m => lo(k) > pid
        <3> TAKE k \in 1 .. n
        <3> HAVE k <= m
        <3>1. m \in 1 .. n /\ lo(m) # pid /\ lo(m) >= pid /\ lo(m) \in Nat
            BY <1>1, <1>2, <1>3, <1>9
        <3>2. k = m \/ (k < m /\ hi(m) < lo(k) /\ lo(m) < hi(m))
            BY <1>1, <3>1
        <3> QED
            BY <1>1, <3>1, <3>2
    <2>7. Sound(u)
        <3>1. ASSUME NEW k \in 1 .. n
              PROVE  u[k].end < u[k].start
            <4>1. CASE k = m + 1
                <5>1. lo(k) < hi(k) /\ hi(k) = pid - 1 /\ lo(k) \in Nat
                    BY <1>1, <1>9, <4>1
                <5>2. u[k].end = lo(k) /\ u[k].start = pid
                    BY <2>5, <4>1
                <5> QED
                    BY <1>1, <5>1, <5>2
            <4>2. CASE k # m + 1
                BY <1>1, <2>5, <4>2
            <4> QED
                BY <4>1, <4>2
        <3>2. ASSUME NEW k \in 1 .. n, NEW l \in 1 .. n, k < l
              PROVE  u[l].start < u[k].end
            BY SMTT(40), <1>1, <1>2, <2>1, <2>5, <2>6, <3>2
        <3> QED
            BY <2>4, <3>1, <3>2 DEF Sound
    <2>8. ASSUME NEW x
          PROVE  x \in Free(u) <=> x \in Free(ids) \/ x = pid
        <3>1. x \in Free(u) <=> x \in Nat /\ \E k \in 1 .. n : u[k].end < x /\ x <= u[k].start
            BY <2>4, <2>7, SoundFacts
        <3>2. hi(m + 1) = pid - 1 /\ pid \in Nat /\ lo(m + 1) < hi(m + 1) /\ lo(m + 1) \in Nat
            BY <1>1, <1>9, <2>1
        <3>3. ASSUME x \in Free(u)
              PROVE  x \in Free(ids) \/ x = pid
            <4>1. PICK k \in 1 .. n : x \in Nat /\ u[k].end < x /\ x <= u[k].start
                BY <3>1, <3>3
            <4>2. lo(k) < x /\ (x <= hi(k) \/ x = pid)
                BY <2>5, <3>2, <4>1
            <4> QED
                BY <1>1, <4>1, <4>2
        <3>4. ASSUME x \in Free(ids)
              PROVE  x \in Free(u)
            <4>1. PICK k \in 1 .. n : x \in Nat /\ lo(k) < x /\ x <= hi(k)
                BY <1>1, <3>4
            <4>2. CASE k = m + 1
                <5>1. x <= pid /\ u[k].end = lo(k) /\ u[k].start = pid
                    BY <1>1, <2>5, <3>2, <4>1, <4>2
                <5> QED
                    BY <3>1, <4>1, <5>1
            <4>3. CASE k # m + 1
                BY <2>5, <3>1, <4>1, <4>3
            <4> QED
                BY <4>2, <4>3
        <3>5. pid \in Free(u)
            <4>1. u[m + 1].end < pid /\ pid <= u[m + 1].start /\ pid \in Nat
                BY <2>1, <2>5, <3>2
            <4>2. pid \in Free(u) <=> pid \in Nat /\ \E k \in 1 .. n : u[k].end < pid /\ pid <= u[k].start
                BY <2>4, <2>7, SoundFacts
            <4> QED
                BY <2>1, <4>1, <4>2
        <3> QED
            BY <3>3, <3>4, <3>5
    <2> QED
        BY <2>3, <2>7, <2>8 DEF t
<1>10. CASE ~joinsAbove /\ ~joinsBelow
    <2> DEFINE e == Interval(pid, pid - 1)
               u == InsertAt(ids, m + 1, e)
    <2>1. m + 1 \in 1 .. n + 1
        BY <1>1, <1>2
    <2>2. e \in Intervals /\ e.start = pid /\ e.end = pid - 1
        BY <1>1 DEF Intervals, Interval
    <2>3. t = u
        BY <1>5, <1>10
    <2> HIDE DEF e
    <2>4. /\ u \in Seq(Intervals) /\ Len(u) = n + 1 /\ DOMAIN u = 1 .. n + 1
          /\ \A k \in 1 .. n + 1 : u[k] = IF k < m + 1 THEN ids[k] ELSE IF k = m + 1 THEN e ELSE ids[k - 1]
        <3> DEFINE i == m + 1
        <3>1. i \in 1 .. Len(ids) + 1 /\ ids \in Seq(Intervals) /\ e \in Intervals
            BY <1>1, <2>1, <2>2
        <3>4. u = InsertAt(ids, i, e)
            OBVIOUS
        <3> HIDE DEF u, i
        <3>2. /\ u \in Seq(Intervals) /\ Len(u) = Len(ids) + 1
              /\ \A k \in 1 .. Len(ids) + 1 :
                    u[k] = IF k < i THEN ids[k] ELSE IF k = i THEN e ELSE ids[k - 1]
            BY SMTT(40), <3>1, <3>4, InsertAtProperties
        <3>3. DOMAIN u = 1 .. n + 1
            BY <3>2, LenProperties
        <3> QED
            BY <3>2, <3>3 DEF i
    <2> HIDE DEF u
    <2>5. /\ \A k \in 1 .. n : k <= m => u[k].start = hi(k) /\ u[k].end = lo(k)
          /\ u[m + 1].start = pid /\ u[m + 1].end = pid - 1
          /\ \A k \in 1 .. n + 1 : k > m + 1 => u[k].start = hi(k - 1) /\ u[k].end = lo(k - 1)
        <3>1. ASSUME NEW k \in 1 .. n, k <= m
              PROVE  u[k].start = hi(k) /\ u[k].end = lo(k)
            <4>1. k \in 1 .. n + 1 /\ k < m + 1
                BY <1>1, <1>2, <3>1
            <4> QED
                BY <2>4, <4>1
        <3>2. u[m + 1].start = pid /\ u[m + 1].end = pid - 1
            BY <1>2, <2>1, <2>2, <2>4
        <3>3. ASSUME NEW k \in 1 .. n + 1, k > m + 1
              PROVE  u[k].start = hi(k - 1) /\ u[k].end = lo(k - 1)
            <4>1. ~(k < m + 1) /\ k # m + 1
                BY <1>1, <1>2, <3>3
            <4>2. u[k] = ids[k - 1]
                BY <2>4, <4>1
            <4> QED
                BY <4>2
        <3> QED
            BY <3>1, <3>2, <3>3
    <2> HIDE DEF lo, hi
    <2>6. \A k \in 1 .. n : k <= m => lo(k) > pid
        <3> TAKE k \in 1 .. n
        <3> HAVE k <= m
        <3>1. m \in 1 .. n /\ lo(m) # pid /\ lo(m) >= pid /\ lo(m) \in Nat
            BY <1>1, <1>2, <1>3, <1>10
        <3>2. k = m \/ (k < m /\ hi(m) < lo(k) /\ lo(m) < hi(m))
            BY <1>1, <3>1
        <3> QED
            BY <1>1, <3>1, <3>2
    <2>7. \A k \in 1 .. n : k > m => hi(k) < pid - 1
        <3> TAKE k \in 1 .. n
        <3> HAVE k > m
        <3>1. m + 1 \in 1 .. n /\ hi(m + 1) # pid - 1 /\ hi(m + 1) < pid
            BY <1>1, <1>2, <1>4, <1>10
        <3>2. k = m + 1 \/ (k > m + 1 /\ hi(k) < lo(m + 1) /\ lo(m + 1) < hi(m + 1))
            BY <1>1, <1>2, <3>1
        <3> QED
            BY <1>1, <3>1, <3>2
    <2>8. ASSUME NEW k \in 1 .. n + 1
          PROVE  \/ k <= m /\ k \in 1 .. n
                 \/ k = m + 1
                 \/ k > m + 1 /\ k - 1 \in 1 .. n /\ k - 1 > m
        BY <1>1, <1>2
    <2>9. Sound(u)
        <3>1. ASSUME NEW k \in 1 .. n + 1
              PROVE  u[k].end < u[k].start
            BY <1>1, <2>5, <2>8
        <3>2. ASSUME NEW k \in 1 .. n + 1, NEW l \in 1 .. n + 1, k < l
              PROVE  u[l].start < u[k].end
            <4>1. CASE k <= m
                <5>1. k \in 1 .. n /\ u[k].end = lo(k)
                    BY <2>5, <2>8, <4>1, <1>2
                <5>2. CASE l <= m
                    BY <1>1, <2>5, <2>8, <3>2, <5>1, <5>2, <1>2
                <5>3. CASE l = m + 1
                    BY <1>1, <2>5, <2>6, <4>1, <5>1, <5>3
                <5>4. CASE l > m + 1
                    <6>1. l - 1 \in 1 .. n /\ k < l - 1 /\ u[l].start = hi(l - 1)
                        BY <1>1, <1>2, <2>5, <4>1, <5>4
                    <6> QED
                        BY <1>1, <5>1, <6>1
                <5> QED
                    BY <1>2, <5>2, <5>3, <5>4
            <4>2. CASE k = m + 1
                <5>1. l - 1 \in 1 .. n /\ l - 1 > m /\ u[l].start = hi(l - 1)
                    BY <1>1, <1>2, <2>5, <3>2, <4>2
                <5> QED
                    BY <1>1, <2>5, <2>7, <4>2, <5>1
            <4>3. CASE k > m + 1
                <5>1. /\ l - 1 \in 1 .. n /\ k - 1 \in 1 .. n /\ k - 1 < l - 1
                      /\ u[l].start = hi(l - 1) /\ u[k].end = lo(k - 1)
                    BY <1>1, <1>2, <2>5, <3>2, <4>3
                <5> QED
                    BY <1>1, <5>1
            <4> QED
                BY <1>2, <4>1, <4>2, <4>3
        <3> QED
            BY <2>4, <3>1, <3>2 DEF Sound
    <2>10. ASSUME NEW x
           PROVE  x \in Free(u) <=> x \in Free(ids) \/ x = pid
        <3>1. \A y : y \in Free(u) <=> y \in Nat /\ \E k \in 1 .. n + 1 : u[k].end < y /\ y <= u[k].start
            BY <2>4, <2>9, SoundFacts
        <3>2. ASSUME x \in Free(u)
              PROVE  x \in Free(ids) \/ x = pid
            <4>1. PICK k \in 1 .. n + 1 : x \in Nat /\ u[k].end < x /\ x <= u[k].start
                BY <3>1, <3>2
            <4>2. CASE k = m + 1
                BY <1>1, <2>5, <4>1, <4>2
            <4>3. CASE k # m + 1
                <5>1. \E j \in 1 .. n : lo(j) < x /\ x <= hi(j)
                    BY <1>1, <2>5, <2>8, <4>1, <4>3
                <5> QED
                    BY <1>1, <4>1, <5>1
            <4> QED
                BY <4>2, <4>3
        <3>3. ASSUME x \in Free(ids)
              PROVE  x \in Free(u)
            <4>1. PICK k \in 1 .. n : x \in Nat /\ lo(k) < x /\ x <= hi(k)
                BY <1>1, <3>3
            <4>2. CASE k <= m
                <5>1. k \in 1 .. n + 1 /\ u[k].end < x /\ x <= u[k].start
                    BY SMTT(40), <1>1, <2>5, <4>1, <4>2
                <5> QED
                    BY <3>1, <4>1, <5>1
            <4>3. CASE k > m
                <5>1. k + 1 \in 1 .. n + 1 /\ k + 1 > m + 1 /\ (k + 1) - 1 = k
                    BY <1>1, <1>2, <4>3
                <5>2. u[k + 1].end < x /\ x <= u[k + 1].start
                    BY <2>5, <4>1, <5>1
                <5> QED
                    BY <3>1, <4>1, <5>1, <5>2
            <4> QED
                BY <1>2, <4>2, <4>3
        <3>4. pid \in Free(u)
            <4>1. u[m + 1].end < pid /\ pid <= u[m + 1].start /\ pid \in Nat
                BY <1>1, <2>5
            <4> QED
                BY <2>1, <3>1, <4>1
        <3> QED
            BY <3>2, <3>3, <3>4
    <2> QED
        BY <2>3, <2>9, <2>10 DEF t
<1> QED
    BY <1>7, <1>8, <1>9, <1>10 DEF t

-----------------------------------------------------------------------------
(* PacketIds: the pool *)

\* A vector that is sound is apart.
LEMMA SoundIsApart ==
    ASSUME Sound(freeIds)
    PROVE  IntervalsApart
    BY DEF Sound, IntervalsApart

LEMMA FreeIsFreeSet == FreeSet = Free(freeIds)
    BY DEF FreeSet, Free

\* At first every identifier is free.
LEMMA IdsBegin ==
    ASSUME IdsInit
    PROVE  Sound(freeIds) /\ Pool!PoolInit
<1> DEFINE e == Interval(MaxPacketId, 0)
<1>1. e \in Intervals /\ e.start = MaxPacketId /\ e.end = 0 /\ MaxPacketId \in Nat /\ 0 < MaxPacketId
    BY PacketIdsAssumption DEF Intervals, Interval
<1>2. freeIds = <<e>> /\ lastGiven = 0
    BY DEF IdsInit
<1> HIDE DEF e
<1>3. freeIds \in Seq(Intervals) /\ DOMAIN freeIds = {1} /\ freeIds[1] = e
    BY <1>1, <1>2
<1>4. Sound(freeIds)
    BY <1>1, <1>3 DEF Sound
<1>5. FreeSet = 1 .. MaxPacketId
    <2>1. FreeSet = Holds(e)
        BY <1>3 DEF FreeSet
    <2> QED
        BY <1>1, <2>1 DEF Holds
<1> QED
    BY <1>2, <1>4, <1>5 DEF Pool!PoolInit

\* A step of the allocator keeps the vector sound and is a step of the pool.
LEMMA IdsStep ==
    ASSUME Sound(freeIds), [IdsNext]_idVars
    PROVE  Sound(freeIds') /\ [Pool!PoolNext]_Pool!poolVars
<1>1. FreeSet = Free(freeIds) /\ FreeSet' = Free(freeIds')
    BY DEF FreeSet, Free
<1>2. CASE AllocateId
    <2>1. /\ Sound(freeIds')
          /\ \/ Free(freeIds) = {} /\ lastGiven' = 0 /\ Free(freeIds') = Free(freeIds)
             \/ /\ lastGiven' \in Free(freeIds) /\ \A other \in Free(freeIds) : lastGiven' <= other
                /\ Free(freeIds') = Free(freeIds) \ {lastGiven'}
        BY <1>2, AllocateIsPooled
    <2>2. Pool!Allocate
        BY <1>1, <2>1 DEF Pool!Allocate
    <2> QED
        BY <2>1, <2>2 DEF Pool!PoolNext
<1>3. CASE FreeId
    <2>1. PICK pid \in 1 .. MaxPacketId \ FreeSet : freeIds' = Freed(freeIds, pid) /\ UNCHANGED lastGiven
        BY <1>3 DEF FreeId
    <2>2. Sound(Freed(freeIds, pid)) /\ Free(Freed(freeIds, pid)) = Free(freeIds) \cup {pid}
        BY <1>1, <2>1, FreedIsPooled
    <2>3. FreeSet' = FreeSet \cup {pid} /\ lastGiven' = lastGiven /\ Sound(freeIds')
        BY <1>1, <2>1, <2>2
    <2>4. Pool!Release
        BY <2>1, <2>3 DEF Pool!Release
    <2> QED
        BY <2>3, <2>4 DEF Pool!PoolNext
<1>4. CASE UNCHANGED idVars
    BY <1>1, <1>4 DEF idVars, Pool!poolVars
<1> QED
    BY <1>2, <1>3, <1>4 DEF IdsNext

\* The allocator is the pool of free identifiers, each request gets the smallest of them,
\* and the vector is never longer than it need be, whatever MAX_PACKET_ID is.
THEOREM AllocatorIsPool == IdsSpec => IdsArePooled
<1>1. IdsInit => Sound(freeIds) /\ Pool!PoolInit
    BY IdsBegin
<1>2. Sound(freeIds) /\ [IdsNext]_idVars => Sound(freeIds)' /\ [Pool!PoolNext]_Pool!poolVars
    BY IdsStep
<1>3. Sound(freeIds)' => [IntervalsApart']_idVars
    BY DEF Sound, IntervalsApart
<1> QED
    BY <1>1, <1>2, <1>3, PTL DEF IdsSpec, IdsArePooled, Pool!PoolSpec

-----------------------------------------------------------------------------
(* Connection: the invariant *)

Packets == Passing \cup {"ping", "terminal"}
ReaderPlaces == Holding \cup {"io", "waiting", "refused", "disconnecting", "ended"}
WriterPlaces == Holding \cup {"io", "waiting", "refused", "idle"}

Clients == [ servers : Seq(Nat \ {0}), open : BOOLEAN, stream : Nat,
             link : {"up", "shut", "lost"}, locked : BOOLEAN, waiting : Seq(Actor),
             at : [Actor -> ReaderPlaces \cup WriterPlaces], saw : [Actor -> Nat],
             host : Nat, endpoint : Nat, queue : Seq(Packets), batch : Seq(Packets),
             ping : {"timer", "sending", "ended"}, sentry : {"timer", "sending", "ended"},
             disconnect : {"none", "asked"}, tried : SUBSET Nat ]

\* Types, as ConnectionTypeOK has them, and those of the other fields.
Typed(s) ==
    /\ s \in Clients
    /\ s.at["reader"] \in ReaderPlaces /\ s.at["writer"] \in WriterPlaces
    /\ s.host \in 0 .. Len(s.servers)

\* The writer works when it has something to write.
Writes(s) == s.at["writer"] = "idle" <=> s.batch = <<>>

\* LockExact; there is but one other who may wait.
LockHeld(s) ==
    /\ s.waiting = <<>> \/ \E a \in Actor : s.waiting = <<a>>
    /\ s.locked <=> \E a \in Actor : s.at[a] \in Holding
    /\ \A a, b \in Actor : a # b => ~(s.at[a] \in Holding /\ s.at[b] \in Holding)
    /\ s.waiting # <<>> => s.locked
    /\ \A a \in Actor : s.at[a] = "waiting" <=> s.waiting = <<a>>

\* LiveConnectionKept, and why: who waits for the lock, or has just got it, while the
\* connection is up has been on another stream.
Fresh(s) ==
    s.link = "up" =>
       /\ s.open
       /\ \A a \in Actor : s.at[a] \notin Holding \ {"granted"}
       /\ \A a \in Actor : s.at[a] \in {"granted", "waiting"} => s.saw[a] # s.stream

\* Streams are numbered as they come.
Behind(s) == \A a \in Actor : s.saw[a] <= s.stream

\* A cancelled client has nothing to write, and the reader waits for the one DISCONNECT
\* that it has asked for.
Asked(s) ==
    /\ ~s.open => s.queue = <<>>
    /\ \A i \in DOMAIN s.batch : s.batch[i] = "malformed" => s.at["reader"] = "disconnecting"
    /\ \A i \in DOMAIN s.queue : s.queue[i] = "malformed" =>
          /\ s.at["reader"] = "disconnecting"
          /\ \A j \in DOMAIN s.queue : s.queue[j] = "malformed" => i = j
          /\ \A j \in DOMAIN s.batch : s.batch[j] # "malformed"

\* EveryHostTried: since the last pause the hosts up to the present one.
Walked(s) ==
    /\ \A a \in Actor : s.at[a] \in {"wrapped", "backoff"} => s.host = 0
    /\ 0 \in s.tried => \A a \in Actor :
          /\ s.at[a] \in {"resolving"} \cup Connecting => 1 .. s.host \subseteq s.tried
          /\ s.at[a] \in {"wrapped", "backoff"} => DOMAIN s.servers \subseteq s.tried

Core(s) == Typed(s) /\ Writes(s) /\ LockHeld(s) /\ Fresh(s) /\ Behind(s) /\ Walked(s)
Orderly(s) == Core(s) /\ Asked(s)

\* What Core says, as far as it is not about the actor a.
Elsewhere(s, a) ==
    /\ s.waiting = <<>> /\ (s.link = "up" => s.open)
    /\ \A b \in Actor \ {a} :
          /\ s.locked <=> s.at[b] \in Holding
          /\ s.at[b] # "waiting"
          /\ s.link = "up" => s.at[b] \notin Holding \ {"granted"}
          /\ s.link = "up" /\ s.at[b] = "granted" => s.saw[b] # s.stream
          /\ s.at[b] \in {"wrapped", "backoff"} => s.host = 0
          /\ 0 \in s.tried /\ s.at[b] \in {"resolving"} \cup Connecting => 1 .. s.host \subseteq s.tried
          /\ 0 \in s.tried /\ s.at[b] \in {"wrapped", "backoff"} => DOMAIN s.servers \subseteq s.tried

\* The fields that the invariant relates, without those of the sender.
SameShared(s, t) ==
    /\ t.servers = s.servers /\ t.open = s.open /\ t.stream = s.stream /\ t.link = s.link
    /\ t.locked = s.locked /\ t.waiting = s.waiting /\ t.host = s.host /\ t.tried = s.tried

\* A step of a cancelled client leaves it so.
Stays(s, t) == ~s.open => ~t.open /\ t.stream = s.stream /\ t.link # "up"

LEMMA PlaceFacts ==
    /\ Actor = {"reader", "writer"}
    /\ "io" \notin Holding /\ "idle" \notin Holding /\ "waiting" \notin Holding
    /\ "refused" \notin Holding /\ "disconnecting" \notin Holding /\ "ended" \notin Holding
    /\ "granted" \in Holding /\ "no host" \in Holding /\ "wrapped" \in Holding
    /\ "backoff" \in Holding /\ "resolving" \in Holding /\ Connecting \subseteq Holding
    /\ "granted" \notin Connecting /\ "wrapped" \notin Connecting /\ "backoff" \notin Connecting
    /\ "tcp" \in Connecting /\ "connack" \in Connecting /\ "auth" \in Connecting /\ "final" \in Connecting
    /\ Holding \subseteq ReaderPlaces /\ Holding \subseteq WriterPlaces
    BY DEF Actor, Holding, Connecting, ReaderPlaces, WriterPlaces

-----------------------------------------------------------------------------
(* Connection: an actor that neither has the lock nor waits for it *)

\* It says nothing of the others.
LEMMA OutsideElsewhere ==
    ASSUME NEW s, Core(s), NEW a \in Actor, s.at[a] \notin Holding, s.at[a] # "waiting"
    PROVE  Elsewhere(s, a)
<1>1. \A b \in Actor : b # a => \A c \in Actor : c = a \/ c = b
    BY DEF Actor
<1>2. s.waiting = <<>>
    <2>1. ASSUME NEW b \in Actor, s.waiting = <<b>>
          PROVE  FALSE
        <3>1. s.locked /\ s.at[b] = "waiting" /\ b # a
            BY <2>1 DEF Core, LockHeld
        <3>2. PICK c \in Actor : s.at[c] \in Holding
            BY <3>1 DEF Core, LockHeld
        <3> QED
            BY <1>1, <3>1, <3>2, PlaceFacts
    <2> QED
        BY <2>1 DEF Core, LockHeld
<1>3. ASSUME NEW b \in Actor \ {a}
      PROVE  /\ s.locked <=> s.at[b] \in Holding
             /\ s.at[b] # "waiting"
    <2>1. \A c \in Actor : s.at[c] \in Holding => c = b
        BY <1>1, <1>3
    <2>2. s.at[b] # "waiting"
        BY <1>2 DEF Core, LockHeld
    <2> QED
        BY <2>1, <2>2 DEF Core, LockHeld
<1> QED
    BY <1>2, <1>3 DEF Core, Fresh, Walked, Elsewhere

\* Wherever it goes, but to the lock, the invariant is kept.
LEMMA Settles ==
    ASSUME NEW s, NEW t, NEW a \in Actor, Typed(s), Behind(s), Elsewhere(s, a),
           t \in Clients, Writes(t), SameShared(s, t),
           t.at[a] \notin Holding, t.at[a] # "waiting",
           t.at["reader"] \in ReaderPlaces, t.at["writer"] \in WriterPlaces,
           \A b \in Actor \ {a} : t.at[b] = s.at[b] /\ t.saw[b] = s.saw[b],
           t.saw[a] \in {s.saw[a], s.stream}
    PROVE  Core(t)
<1>1. Typed(t)
    BY DEF Typed, SameShared
<1>2. LockHeld(t)
    <2>1. \A b \in Actor : b = a \/ b \in Actor \ {a}
        OBVIOUS
    <2>2. Actor \ {a} # {}
        BY DEF Actor
    <2>3. \A b \in Actor : t.at[b] # "waiting"
        BY <2>1 DEF Elsewhere
    <2>4. \A b \in Actor \ {a} : t.locked <=> t.at[b] \in Holding
        BY DEF Elsewhere, SameShared
    <2>5. t.waiting = <<>>
        BY DEF Elsewhere, SameShared
    <2>6. \A b, c \in Actor : b # c => ~(t.at[b] \in Holding /\ t.at[c] \in Holding)
        BY DEF Actor
    <2> QED
        BY <2>1, <2>2, <2>3, <2>4, <2>5, <2>6 DEF LockHeld
<1>3. Fresh(t)
    <2>1. ASSUME NEW b \in Actor, t.link = "up"
          PROVE  /\ t.at[b] \notin Holding \ {"granted"}
                 /\ t.at[b] \in {"granted", "waiting"} => t.saw[b] # t.stream
        <3>1. CASE b = a
            BY <3>1, PlaceFacts
        <3>2. CASE b # a
            BY <2>1, <3>2 DEF Elsewhere, SameShared
        <3> QED
            BY <3>1, <3>2
    <2>2. t.link = "up" => t.open
        BY DEF Elsewhere, SameShared
    <2> QED
        BY <2>1, <2>2 DEF Fresh
<1>4. Behind(t)
    <2>1. t.stream = s.stream /\ s.stream \in Nat
        BY DEF Typed, Clients, SameShared
    <2>2. \A b \in Actor : t.saw[b] = s.saw[b] \/ t.saw[b] = s.stream
        OBVIOUS
    <2> QED
        BY <2>1, <2>2 DEF Behind
<1>5. Walked(t)
    <2>1. ASSUME NEW b \in Actor
          PROVE  /\ t.at[b] \in {"wrapped", "backoff"} => t.host = 0
                 /\ 0 \in t.tried /\ t.at[b] \in {"resolving"} \cup Connecting =>
                       1 .. t.host \subseteq t.tried
                 /\ 0 \in t.tried /\ t.at[b] \in {"wrapped", "backoff"} => DOMAIN t.servers \subseteq t.tried
        <3>1. CASE b = a
            BY <3>1, PlaceFacts
        <3>2. CASE b # a
            BY <3>2 DEF Elsewhere, SameShared
        <3> QED
            BY <3>1, <3>2
    <2> QED
        BY <2>1 DEF Walked
<1> QED
    BY <1>1, <1>2, <1>3, <1>4, <1>5 DEF Core

\* Nothing that the invariant is about has changed.
LEMMA Alike ==
    ASSUME NEW s, NEW t, t \in Clients, SameShared(s, t), t.at = s.at, t.saw = s.saw
    PROVE  /\ Typed(s) => Typed(t)
           /\ Core(s) /\ Writes(t) => Core(t)
           /\ t.batch = s.batch /\ t.queue = s.queue /\ Orderly(s) => Orderly(t)
<1>1. Typed(s) => Typed(t)
    BY DEF Typed, SameShared
<1>2. (LockHeld(s) => LockHeld(t)) /\ (Fresh(s) => Fresh(t)) /\ (Behind(s) => Behind(t))
    BY DEF LockHeld, Fresh, Behind, SameShared
<1>3. Walked(s) => Walked(t)
    BY DEF Walked, SameShared
<1>4. t.batch = s.batch /\ t.queue = s.queue => (Writes(s) <=> Writes(t)) /\ (Asked(s) <=> Asked(t))
    BY DEF Writes, Asked, SameShared
<1> QED
    BY <1>1, <1>2, <1>3, <1>4 DEF Core, Orderly

-----------------------------------------------------------------------------
(* Connection: async_sender *)

LEMMA StartWriteKeeps ==
    ASSUME NEW s, Orderly(s)
    PROVE  LET t == StartWrite(s)
           IN  /\ Orderly(t)
               /\ t.open = s.open /\ t.stream = s.stream /\ t.link = s.link
<1> DEFINE n == Len(s.queue)
           disconnects == {i \in DOMAIN s.queue : IsDisconnect(s.queue[i])}
           first == CHOOSE i \in disconnects : \A j \in disconnects : i <= j
           writing == [s EXCEPT !.at["writer"] = "io", !.saw["writer"] = s.stream]
           Written(b, q) == [writing EXCEPT !.batch = b, !.queue = q]
<1>1. /\ s \in Clients /\ n \in Nat /\ DOMAIN s.queue = 1 .. n
      /\ s.at \in [Actor -> ReaderPlaces \cup WriterPlaces] /\ s.saw \in [Actor -> Nat]
      /\ s.stream \in Nat /\ s.queue \in Seq(Packets)
    BY LenProperties DEF Orderly, Core, Typed, Clients
<1>2. ASSUME NEW b \in Seq(Packets), NEW q \in Seq(Packets), s.at["writer"] = "idle", s.open, b # <<>>,
             \A i \in DOMAIN b : b[i] = "malformed" =>
                /\ s.at["reader"] = "disconnecting" /\ \A j \in DOMAIN q : q[j] # "malformed",
             \A i \in DOMAIN q : q[i] = "malformed" =>
                /\ s.at["reader"] = "disconnecting"
                /\ \A j \in DOMAIN q : q[j] = "malformed" => i = j
      PROVE  LET t == Written(b, q)
             IN  /\ Orderly(t)
                 /\ t.open = s.open /\ t.stream = s.stream /\ t.link = s.link
    <2> DEFINE t == Written(b, q)
    <2>1. /\ t \in Clients
          /\ t.servers = s.servers /\ t.open = s.open /\ t.stream = s.stream /\ t.link = s.link
          /\ t.locked = s.locked /\ t.waiting = s.waiting /\ t.host = s.host /\ t.tried = s.tried
          /\ t.batch = b /\ t.queue = q
          /\ t.at = [s.at EXCEPT !["writer"] = "io"] /\ t.saw = [s.saw EXCEPT !["writer"] = s.stream]
        BY <1>1, <1>2, PlaceFacts DEF Clients, WriterPlaces
    <2> HIDE DEF t, Written, writing, n, disconnects, first
    <2>2. /\ t.at["writer"] = "io" /\ t.at["reader"] = s.at["reader"]
          /\ t.saw["writer"] = s.stream /\ t.saw["reader"] = s.saw["reader"]
        BY <1>1, <2>1 DEF Actor
    <2>3. Core(t)
        <3>1. "writer" \in Actor /\ \A c \in Actor \ {"writer"} : t.at[c] = s.at[c] /\ t.saw[c] = s.saw[c]
            BY <2>2 DEF Actor
        <3>2. Elsewhere(s, "writer") /\ Typed(s) /\ Behind(s)
            BY <1>2, <3>1, OutsideElsewhere, PlaceFacts DEF Orderly, Core
        <3>3. t.at["reader"] \in ReaderPlaces /\ t.at["writer"] \in WriterPlaces
            BY <2>2 DEF Orderly, Core, Typed, WriterPlaces
        <3>4. Writes(t)
            BY <1>2, <2>1, <2>2 DEF Writes
        <3>5. SameShared(s, t) /\ t \in Clients
            BY <2>1 DEF SameShared
        <3> QED
            BY <2>2, <3>1, <3>2, <3>3, <3>4, <3>5, Settles, PlaceFacts
    <2>4. Asked(t)
        BY <1>2, <2>1, <2>2 DEF Asked
    <2> QED
        BY <2>1, <2>3, <2>4 DEF Orderly, t
<1> HIDE DEF Written
<1>3. CASE s.at["writer"] # "idle" \/ s.queue = <<>>
    BY <1>3 DEF StartWrite
<1>4. CASE s.at["writer"] = "idle" /\ s.queue # <<>> /\ disconnects = {}
    <2>1. StartWrite(s) = Written(s.queue, <<>>)
        BY <1>4 DEF StartWrite, Written
    <2>2. \A i \in DOMAIN s.queue : s.queue[i] # "malformed"
        BY <1>4 DEF IsDisconnect, Passing
    <2>3. s.open
        BY <1>4 DEF Orderly, Asked
    <2>4. <<>> \in Seq(Packets) /\ DOMAIN <<>> = {}
        BY LenProperties
    <2> HIDE DEF disconnects
    <2> QED
        BY ZenonT(60), <1>1, <1>2, <1>4, <2>1, <2>2, <2>3, <2>4
<1>5. CASE s.at["writer"] = "idle" /\ s.queue # <<>> /\ disconnects # {}
    <2>1. StartWrite(s) = Written(<<s.queue[first]>>, RemoveAt(s.queue, first))
        BY <1>5 DEF StartWrite, Written
    <2>2. first \in 1 .. n /\ IsDisconnect(s.queue[first])
        <3>1. disconnects \subseteq Nat
            BY <1>1
        <3>2. Min(disconnects) \in disconnects /\ \A j \in disconnects : Min(disconnects) <= j
            BY <1>5, <3>1, MinOfNats
        <3> HIDE DEF disconnects
        <3>3. first \in disconnects
            BY <3>2
        <3> QED
            BY <1>1, <3>3 DEF disconnects
    <2> DEFINE q == RemoveAt(s.queue, first)
               b == <<s.queue[first]>>
    <2> HIDE DEF first, disconnects
    <2>3. s.open
        BY <1>5 DEF Orderly, Asked
    <2>4. /\ q \in Seq(Packets) /\ Len(q) = n - 1
          /\ \A i \in 1 .. n - 1 : q[i] = IF i < first THEN s.queue[i] ELSE s.queue[i + 1]
        BY <1>1, <2>2, RemoveAtProperties
    <2>5. s.queue[first] \in Packets
        BY <1>1, <2>2, ElementOfSeq
    <2>6. b \in Seq(Packets) /\ DOMAIN b = {1} /\ b[1] = s.queue[first] /\ b # <<>>
        BY <2>5
    <2>7. DOMAIN q = 1 .. n - 1
        BY <1>1, <2>4, LenProperties
    <2> DEFINE k(i) == IF i < first THEN i ELSE i + 1
    <2>8. /\ \A i \in DOMAIN q : k(i) \in DOMAIN s.queue /\ k(i) # first /\ q[i] = s.queue[k(i)]
          /\ \A i, j \in DOMAIN q : k(i) = k(j) => i = j
        <3> HIDE DEF q
        <3>1. \A i \in 1 .. n - 1 : k(i) \in 1 .. n /\ k(i) # first
            BY <1>1, <2>2
        <3>2. \A i \in 1 .. n - 1 : q[i] = s.queue[k(i)]
            BY <2>4
        <3>3. \A i, j \in 1 .. n - 1 : k(i) = k(j) => i = j
            BY <1>1, <2>2
        <3> QED
            BY <1>1, <2>7, <3>1, <3>2, <3>3
    <2>11. \A i \in DOMAIN s.queue : s.queue[i] = "malformed" =>
              /\ s.at["reader"] = "disconnecting"
              /\ \A j \in DOMAIN s.queue : s.queue[j] = "malformed" => i = j
        BY DEF Orderly, Asked
    <2>12. first \in DOMAIN s.queue
        BY <1>1, <2>2
    <2> HIDE DEF q, b, k
    <2>9. \A i \in DOMAIN b : b[i] = "malformed" =>
             /\ s.at["reader"] = "disconnecting" /\ \A j \in DOMAIN q : q[j] # "malformed"
        BY <2>6, <2>8, <2>11, <2>12
    <2>10. \A i \in DOMAIN q : q[i] = "malformed" =>
              /\ s.at["reader"] = "disconnecting"
              /\ \A j \in DOMAIN q : q[j] = "malformed" => i = j
        BY <2>8, <2>11
    <2> QED
        <3>1. StartWrite(s) = Written(b, q)
            BY <2>1 DEF q, b
        <3>2. b \in Seq(Packets) /\ q \in Seq(Packets) /\ b # <<>> /\ s.at["writer"] = "idle"
            BY <1>5, <2>4, <2>6
        <3> HIDE DEF n
        <3> QED
            BY ZenonT(60), <1>2, <2>3, <2>9, <2>10, <3>1, <3>2
<1> QED
    BY <1>3, <1>4, <1>5

\* The operations that waited go on; the reader is not touched, or had waited.
LEMMA AnsweredKeeps ==
    ASSUME NEW s, Core(s), NEW packets, "malformed" \in packets => s.at["reader"] = "disconnecting"
    PROVE  LET t == Answered(s, packets)
           IN  /\ Core(t) /\ SameShared(s, t) /\ t.queue = s.queue /\ t.batch = s.batch
               /\ t.at["writer"] = s.at["writer"]
               /\ "malformed" \notin packets => t.at["reader"] = s.at["reader"]
<1> DEFINE t == Answered(s, packets)
<1>1. /\ s \in Clients /\ s.at \in [Actor -> ReaderPlaces \cup WriterPlaces]
      /\ s.saw \in [Actor -> Nat] /\ s.stream \in Nat
      /\ "reader" \in Actor /\ "writer" \in Actor
    BY DEF Core, Typed, Clients, Actor
<1>2. "io" \in ReaderPlaces
    BY DEF ReaderPlaces
<1>3. /\ t \in Clients /\ SameShared(s, t) /\ t.queue = s.queue /\ t.batch = s.batch
      /\ t.at = [s.at EXCEPT !["reader"] = IF "malformed" \in packets THEN "io" ELSE @]
      /\ t.saw = [s.saw EXCEPT !["reader"] = IF "malformed" \in packets THEN s.stream ELSE @]
    BY ZenonT(40), <1>1, <1>2 DEF Answered, SameShared, Clients
<1> HIDE DEF t
<1>4. /\ t.at["reader"] = IF "malformed" \in packets THEN "io" ELSE s.at["reader"]
      /\ t.saw["reader"] = IF "malformed" \in packets THEN s.stream ELSE s.saw["reader"]
      /\ t.at["writer"] = s.at["writer"] /\ t.saw["writer"] = s.saw["writer"]
    BY <1>1, <1>3
<1>5. Writes(t)
    BY <1>3, <1>4 DEF Core, Writes
<1>6. CASE "malformed" \in packets
    <2>1. Elsewhere(s, "reader") /\ Typed(s) /\ Behind(s)
        BY <1>1, <1>6, OutsideElsewhere, PlaceFacts DEF Core
    <2>2. \A b \in Actor \ {"reader"} : t.at[b] = s.at[b] /\ t.saw[b] = s.saw[b]
        BY <1>4 DEF Actor
    <2>3. t.at["reader"] \in ReaderPlaces /\ t.at["writer"] \in WriterPlaces
        BY <1>2, <1>4, <1>6 DEF Core, Typed
    <2>4. Core(t)
        BY <1>1, <1>3, <1>4, <1>5, <1>6, <2>1, <2>2, <2>3, Settles, PlaceFacts
    <2> QED
        BY <1>3, <1>4, <1>6, <2>4 DEF t
<1>7. CASE "malformed" \notin packets
    <2>1. t.at = s.at /\ t.saw = s.saw
        BY <1>1, <1>3, <1>7
    <2>2. Core(t)
        BY <1>3, <1>5, <2>1, Alike
    <2> QED
        BY <1>3, <2>1, <2>2 DEF t
<1> QED
    BY <1>6, <1>7

\* After a reconnection everything that waits is answered, and written anew if need be.
LEMMA ResendKeeps ==
    ASSUME NEW s, Core(s), s.open,
           \A i \in DOMAIN s.queue : s.queue[i] = "malformed" => s.at["reader"] = "disconnecting",
           s.at["writer"] # "idle" => Asked(s)
    PROVE  LET t == ResendPackets(s)
           IN  /\ Orderly(t)
               /\ t.open = s.open /\ t.stream = s.stream /\ t.link = s.link
<1>1. CASE s.at["writer"] # "idle"
    BY <1>1 DEF ResendPackets, Orderly
<1>2. CASE s.at["writer"] = "idle"
    <2> DEFINE packets == Range(s.queue)
               again == IF "terminal" \in packets THEN <<"terminal">> ELSE <<>>
               t == Answered(s, packets)
               u == [t EXCEPT !.queue = again]
    <2>1. "malformed" \in packets => s.at["reader"] = "disconnecting"
        BY DEF Range
    <2>2. again \in Seq(Packets) /\ \A i \in DOMAIN again : again[i] = "terminal"
        <3>1. "terminal" \in Packets
            BY DEF Packets
        <3>2. <<"terminal">> \in Seq(Packets) /\ \A i \in DOMAIN <<"terminal">> : <<"terminal">>[i] = "terminal"
            BY <3>1
        <3>3. <<>> \in Seq(Packets) /\ DOMAIN <<>> = {}
            OBVIOUS
        <3> QED
            BY <3>2, <3>3
    <2>3. ResendPackets(s) = StartWrite(u)
        BY <1>2 DEF ResendPackets
    <2> HIDE DEF packets
    <2>4. /\ Core(t) /\ SameShared(s, t) /\ t.batch = s.batch /\ t.at["writer"] = "idle"
        BY <1>2, <2>1, AnsweredKeeps
    <2> HIDE DEF t, again
    <2>5. /\ u \in Clients /\ SameShared(t, u) /\ u.at = t.at /\ u.saw = t.saw
          /\ u.batch = t.batch /\ u.queue = again
        BY <2>2, <2>4 DEF Core, Typed, Clients, SameShared
    <2> HIDE DEF u
    <2>6. Writes(u) /\ u.batch = <<>>
        BY <2>4, <2>5 DEF Core, Writes
    <2>7. Core(u)
        BY <2>4, <2>5, <2>6, Alike
    <2>8. Asked(u)
        BY <2>2, <2>4, <2>5, <2>6 DEF Asked, SameShared
    <2>9. Orderly(u) /\ u.open = s.open /\ u.stream = s.stream /\ u.link = s.link
        BY <2>4, <2>5, <2>7, <2>8 DEF Orderly, SameShared
    <2> QED
        BY <2>3, <2>9, StartWriteKeeps
<1> QED
    BY <1>1, <1>2

-----------------------------------------------------------------------------
(* Connection: the lock, and what ends a reconnection *)

LEMMA CancelKeeps ==
    ASSUME NEW s, Orderly(s)
    PROVE  LET t == CancelClient(s)
           IN  Orderly(t) /\ ~t.open /\ t.stream = s.stream
<1> DEFINE t == CancelClient(s)
<1>1. CASE ~s.open
    BY <1>1 DEF CancelClient
<1>2. CASE s.open
    <2>1. /\ s \in Clients /\ s.at \in [Actor -> ReaderPlaces \cup WriterPlaces]
          /\ "refused" \in ReaderPlaces /\ "refused" \in WriterPlaces
          /\ <<>> \in Seq(Packets) /\ <<>> \in Seq(Actor) /\ DOMAIN <<>> = {}
        BY DEF Orderly, Core, Typed, Clients, ReaderPlaces, WriterPlaces
    <2>2. /\ t \in Clients /\ ~t.open /\ t.link = "lost" /\ t.queue = <<>> /\ t.waiting = <<>>
          /\ t.servers = s.servers /\ t.stream = s.stream /\ t.locked = s.locked
          /\ t.host = s.host /\ t.tried = s.tried /\ t.saw = s.saw /\ t.batch = s.batch
          /\ t.at = [a \in Actor |-> IF s.at[a] = "waiting" THEN "refused" ELSE s.at[a]]
        BY <1>2, <2>1 DEF CancelClient, Clients
    <2> HIDE DEF t
    <2>3. \A a \in Actor : t.at[a] = IF s.at[a] = "waiting" THEN "refused" ELSE s.at[a]
        BY <2>2
    <2>4. "reader" \in Actor /\ "writer" \in Actor
        BY DEF Actor
    <2>5. Typed(t)
        BY <2>1, <2>2, <2>3, <2>4 DEF Orderly, Core, Typed
    <2>6. Writes(t)
        BY <2>2, <2>3, <2>4 DEF Orderly, Core, Writes
    <2>7. LockHeld(t)
        <3>1. \A a \in Actor : (t.at[a] \in Holding <=> s.at[a] \in Holding) /\ t.at[a] # "waiting"
            BY <2>3, PlaceFacts
        <3> QED
            BY <2>2, <3>1 DEF Orderly, Core, LockHeld
    <2>8. Fresh(t) /\ Behind(t)
        BY <2>2 DEF Orderly, Core, Fresh, Behind
    <2>9. Walked(t)
        <3>1. \A a \in Actor : t.at[a] \in Holding => t.at[a] = s.at[a]
            BY <2>3, PlaceFacts
        <3> QED
            BY <2>2, <3>1, PlaceFacts DEF Orderly, Core, Walked
    <2>10. Asked(t)
        BY <2>1, <2>2, <2>3, <2>4 DEF Orderly, Asked
    <2> QED
        BY <2>2, <2>5, <2>6, <2>7, <2>8, <2>9, <2>10 DEF Orderly, Core, t
<1> QED
    BY <1>1, <1>2

\* The actor a may have put a stream in place.
FreshElsewhere(s, a) ==
    s.link = "up" =>
       /\ s.open
       /\ \A b \in Actor \ {a} : s.at[b] \notin Holding \ {"granted"}
       /\ \A b \in Actor \ {a} : s.at[b] \in {"granted", "waiting"} => s.saw[b] # s.stream

\* The lock goes to the one who waits, who will not connect over a stream that is up.
LEMMA UnlockElsewhere ==
    ASSUME NEW s, NEW a \in Actor, Typed(s), Writes(s), LockHeld(s), FreshElsewhere(s, a),
           Behind(s), Walked(s), Asked(s), s.at[a] \in Holding
    PROVE  LET u == Unlock(s)
           IN  /\ Typed(u) /\ Writes(u) /\ Behind(u) /\ Asked(u) /\ Elsewhere(u, a)
               /\ u.at[a] = s.at[a] /\ u.open = s.open /\ u.stream = s.stream
<1> DEFINE u == Unlock(s)
<1>1. /\ s \in Clients /\ s.at \in [Actor -> ReaderPlaces \cup WriterPlaces] /\ s.waiting \in Seq(Actor)
      /\ "reader" \in Actor /\ "writer" \in Actor /\ "granted" \in ReaderPlaces /\ "granted" \in WriterPlaces
    BY PlaceFacts DEF Typed, Clients
<1>2. s.locked
    BY DEF LockHeld
<1>3. \A b \in Actor \ {a} : s.at[b] \notin Holding
    BY DEF LockHeld
<1>4. CASE s.waiting = <<>>
    <2>1. /\ u \in Clients /\ ~u.locked /\ u.at = s.at /\ u.saw = s.saw /\ u.waiting = <<>>
          /\ u.servers = s.servers /\ u.open = s.open /\ u.stream = s.stream /\ u.link = s.link
          /\ u.host = s.host /\ u.tried = s.tried /\ u.queue = s.queue /\ u.batch = s.batch
        BY <1>1, <1>4 DEF Unlock, Clients
    <2> HIDE DEF u
    <2>2. Typed(u) /\ Writes(u) /\ Behind(u) /\ Asked(u)
        BY <2>1 DEF Typed, Writes, Behind, Asked
    <2>3. \A b \in Actor \ {a} : s.at[b] # "waiting"
        BY <1>4 DEF LockHeld
    <2>4. Elsewhere(u, a)
        <3>1. \A b \in Actor \ {a} :
                 /\ s.at[b] # "granted" /\ s.at[b] # "waiting" /\ s.at[b] \notin {"wrapped", "backoff"}
                 /\ s.at[b] \notin {"resolving"} \cup Connecting /\ s.at[b] \notin Holding
            BY <1>3, <2>3, PlaceFacts
        <3>2. s.link = "up" => s.open
            BY DEF FreshElsewhere
        <3> QED
            BY <2>1, <3>1, <3>2 DEF Elsewhere
    <2> QED
        BY <2>1, <2>2, <2>4 DEF u
<1>5. CASE s.waiting # <<>>
    <2>1. PICK b \in Actor : s.waiting = <<b>>
        BY <1>5 DEF LockHeld
    <2>2. s.at[b] = "waiting" /\ b # a
        BY <2>1, PlaceFacts DEF LockHeld
    <2>3. Head(s.waiting) = b /\ Tail(s.waiting) = <<>>
        BY <2>1
    <2>4. /\ u \in Clients /\ u.locked /\ u.at = [s.at EXCEPT ![b] = "granted"] /\ u.saw = s.saw
          /\ u.waiting = <<>> /\ u.servers = s.servers /\ u.open = s.open /\ u.stream = s.stream
          /\ u.link = s.link /\ u.host = s.host /\ u.tried = s.tried /\ u.queue = s.queue
          /\ u.batch = s.batch
        <3>1. u = [s EXCEPT !.at[b] = "granted", !.waiting = <<>>]
            BY <1>1, <1>5, <2>3 DEF Unlock
        <3>2. <<>> \in Seq(Actor)
            OBVIOUS
        <3> HIDE DEF u
        <3> QED
            BY <1>1, <1>2, <3>1, <3>2 DEF Clients
    <2> HIDE DEF u
    <2>5. /\ u.at[b] = "granted" /\ \A c \in Actor : c # b => u.at[c] = s.at[c]
        BY <1>1, <2>4
    <2>6. \A c \in Actor : c = a \/ c = b
        BY <2>2 DEF Actor
    <2>7. Typed(u)
        BY <1>1, <2>4, <2>5 DEF Typed
    <2>8. Writes(u) /\ Behind(u) /\ Asked(u)
        <3>1. (u.at["writer"] = "idle" <=> s.at["writer"] = "idle")
              /\ (s.at["reader"] = "disconnecting" => u.at["reader"] = "disconnecting")
            BY <1>1, <2>2, <2>5
        <3> QED
            BY <2>4, <3>1 DEF Writes, Behind, Asked
    <2>9. Elsewhere(u, a)
        <3>1. \A c \in Actor \ {a} : c = b
            BY <2>6
        <3>2. s.link = "up" => s.saw[b] # s.stream /\ s.open
            <4>1. b \in Actor \ {a}
                BY <2>2
            <4>2. ASSUME s.link = "up"
                  PROVE  s.open /\ \A c \in Actor \ {a} : s.at[c] = "waiting" => s.saw[c] # s.stream
                BY <4>2 DEF FreshElsewhere
            <4> QED
                BY <2>2, <4>1, <4>2
        <3> QED
            BY ZenonT(60), <2>4, <2>5, <3>1, <3>2, PlaceFacts DEF Elsewhere
    <2> QED
        BY <2>2, <2>4, <2>5, <2>7, <2>8, <2>9 DEF u
<1> QED
    BY <1>4, <1>5

\* The read or write comes to its end, however the reconnection ended.
LEMMA ReaderHearsKeeps ==
    ASSUME NEW s, Typed(s), Writes(s), Behind(s), Asked(s), Elsewhere(s, "reader"),
           s.at["reader"] # "disconnecting", NEW ec, ec = "try_again" => s.open
    PROVE  LET t == ReaderHears(s, ec)
           IN  Orderly(t) /\ (t.open => s.open) /\ t.stream = s.stream
<1> DEFINE Put(p, v) == [s EXCEPT !.at["reader"] = p, !.saw["reader"] = v]
<1>1. ASSUME NEW p \in {"io", "ended"}, NEW v \in {s.saw["reader"], s.stream}
      PROVE  LET x == Put(p, v)
             IN  Orderly(x) /\ x.open = s.open /\ x.stream = s.stream
    <2> DEFINE x == Put(p, v)
    <2>1. /\ s \in Clients /\ s.at \in [Actor -> ReaderPlaces \cup WriterPlaces] /\ s.stream \in Nat
          /\ s.saw \in [Actor -> Nat] /\ "reader" \in Actor /\ "writer" \in Actor
          /\ p \in ReaderPlaces /\ v \in Nat
        BY DEF Typed, Clients, ReaderPlaces, Actor
    <2>2. /\ x \in Clients /\ SameShared(s, x) /\ x.queue = s.queue /\ x.batch = s.batch
          /\ x.at = [s.at EXCEPT !["reader"] = p] /\ x.saw = [s.saw EXCEPT !["reader"] = v]
        BY <2>1 DEF Clients, SameShared
    <2> HIDE DEF x, Put
    <2>3. /\ x.at["reader"] = p /\ x.at["writer"] = s.at["writer"] /\ x.saw["reader"] = v
          /\ \A b \in Actor \ {"reader"} : x.at[b] = s.at[b] /\ x.saw[b] = s.saw[b]
        BY <2>1, <2>2
    <2>4. Writes(x) /\ x.at["writer"] \in WriterPlaces
        BY <2>2, <2>3 DEF Typed, Writes
    <2>5. Core(x)
        BY <2>1, <2>2, <2>3, <2>4, Settles, PlaceFacts
    <2>6. Asked(x)
        BY <2>2 DEF Asked, SameShared
    <2> QED
        BY <2>2, <2>5, <2>6 DEF Orderly, SameShared, x
<1>2. CASE ec = "try_again"
    <2>1. ReaderHears(s, ec) = ResendPackets(Put("io", s.stream))
        BY <1>2 DEF ReaderHears
    <2>2. LET x == Put("io", s.stream)
          IN  Orderly(x) /\ x.open = s.open /\ x.stream = s.stream
        BY <1>1
    <2> HIDE DEF Put
    <2> QED
        BY <1>2, <2>1, <2>2, ResendKeeps DEF Orderly, Asked
<1>3. CASE ec # "try_again"
    <2> DEFINE x == Put("ended", s.saw["reader"])
               y == [s EXCEPT !.at["reader"] = "ended"]
    <2>1. x = y
        <3>1. s.saw \in [Actor -> Nat] /\ s \in Clients
            BY DEF Typed, Clients
        <3>2. [s.saw EXCEPT !["reader"] = s.saw["reader"]] = s.saw
            BY <3>1
        <3> QED
            BY <3>1, <3>2 DEF Clients
    <2>2. Orderly(y) /\ y.open = s.open /\ y.stream = s.stream
        BY <1>1, <2>1
    <2>3. ReaderHears(s, ec) = CancelClient(y) \/ ReaderHears(s, ec) = y
        BY <1>3 DEF ReaderHears
    <2> HIDE DEF x, y
    <2> QED
        BY <2>2, <2>3, CancelKeeps
<1> QED
    BY <1>2, <1>3

\* A writer that has written everything.
LEMMA IdleKeeps ==
    ASSUME NEW s, Typed(s), Behind(s), Asked(s), Elsewhere(s, "writer")
    PROVE  LET t == [s EXCEPT !.at["writer"] = "idle", !.batch = <<>>]
           IN  /\ Orderly(t) /\ SameShared(s, t) /\ t.queue = s.queue /\ t.batch = <<>>
               /\ t.at["writer"] = "idle" /\ t.at["reader"] = s.at["reader"]
<1> DEFINE idle == [s EXCEPT !.at["writer"] = "idle", !.batch = <<>>]
<1>1. /\ s \in Clients /\ s.at \in [Actor -> ReaderPlaces \cup WriterPlaces] /\ s.stream \in Nat
      /\ s.saw \in [Actor -> Nat] /\ "reader" \in Actor /\ "writer" \in Actor
      /\ "idle" \in WriterPlaces /\ <<>> \in Seq(Packets) /\ DOMAIN <<>> = {}
    BY DEF Typed, Clients, WriterPlaces, Actor
<1>2. /\ idle \in Clients /\ SameShared(s, idle) /\ idle.queue = s.queue /\ idle.batch = <<>>
      /\ idle.at = [s.at EXCEPT !["writer"] = "idle"] /\ idle.saw = s.saw
    BY <1>1 DEF Clients, SameShared
<1> HIDE DEF idle
<1>3. /\ idle.at["writer"] = "idle" /\ idle.at["reader"] = s.at["reader"]
      /\ \A b \in Actor \ {"writer"} : idle.at[b] = s.at[b] /\ idle.saw[b] = s.saw[b]
    BY <1>1, <1>2
<1>4. Core(idle)
    <2>1. Writes(idle) /\ idle.at["reader"] \in ReaderPlaces
        BY <1>2, <1>3 DEF Typed, Writes
    <2> QED
        BY <1>1, <1>2, <1>3, <2>1, Settles, PlaceFacts
<1>5. Asked(idle)
    BY <1>1, <1>2, <1>3 DEF Asked, SameShared
<1> QED
    BY <1>2, <1>3, <1>4, <1>5 DEF Orderly, idle

LEMMA WriterHearsKeeps ==
    ASSUME NEW s, Typed(s), Behind(s), Asked(s), Elsewhere(s, "writer"),
           NEW ec, ec = "try_again" => s.open
    PROVE  LET t == WriterHears(s, ec)
           IN  Orderly(t) /\ (t.open => s.open) /\ t.stream = s.stream
<1> DEFINE idle == [s EXCEPT !.at["writer"] = "idle", !.batch = <<>>]
<1>1. /\ s \in Clients /\ s.batch \in Seq(Packets) /\ s.queue \in Seq(Packets)
      /\ s.at \in [Actor -> ReaderPlaces \cup WriterPlaces]
    BY DEF Typed, Clients
<1>2. /\ Orderly(idle) /\ SameShared(s, idle) /\ idle.queue = s.queue /\ idle.batch = <<>>
      /\ idle.at["writer"] = "idle" /\ idle.at["reader"] = s.at["reader"]
    BY IdleKeeps
<1> HIDE DEF idle
<1>3. idle \in Clients /\ Core(idle)
    BY <1>2 DEF Orderly, Core, Typed
<1>6. CASE ec = "try_again"
    <2> DEFINE q == s.batch \o s.queue
               x == [idle EXCEPT !.queue = q]
    <2>1. WriterHears(s, ec) = ResendPackets(x)
        BY <1>2, <1>6 DEF WriterHears, SameShared, idle
    <2>2. q \in Seq(Packets) /\ \A i \in DOMAIN q : (\E j \in DOMAIN s.batch : q[i] = s.batch[j])
                                                   \/ (\E j \in DOMAIN s.queue : q[i] = s.queue[j])
        <3> DEFINE b == s.batch
                   r == s.queue
        <3>1. b \in Seq(Packets) /\ r \in Seq(Packets)
            BY <1>1
        <3> HIDE DEF b, r
        <3>2. /\ b \o r \in Seq(Packets)
              /\ \A i \in DOMAIN (b \o r) : \/ \E j \in DOMAIN b : (b \o r)[i] = b[j]
                                          \/ \E j \in DOMAIN r : (b \o r)[i] = r[j]
            BY <3>1, ConcatElements
        <3> QED
            BY <3>2 DEF b, r
    <2> HIDE DEF q
    <2>3. /\ x \in Clients /\ SameShared(idle, x) /\ x.queue = q /\ x.batch = idle.batch
          /\ x.at = idle.at /\ x.saw = idle.saw
        BY <1>3, <2>2 DEF Clients, SameShared
    <2> HIDE DEF x
    <2>4. Core(x)
        BY <1>3, <2>3, Alike DEF Core, Writes
    <2>5. \A i \in DOMAIN x.queue : x.queue[i] = "malformed" => x.at["reader"] = "disconnecting"
        BY <1>2, <2>2, <2>3 DEF Asked
    <2>6. x.at["writer"] = "idle" /\ x.open = s.open /\ x.stream = s.stream
        BY <1>2, <2>3 DEF SameShared
    <2> QED
        BY <1>6, <2>1, <2>4, <2>5, <2>6, ResendKeeps
<1>7. CASE ec # "try_again"
    <2>1. WriterHears(s, ec) = CancelClient(idle) \/ WriterHears(s, ec) = idle
        BY <1>7 DEF WriterHears, idle
    <2>2. idle.open = s.open /\ idle.stream = s.stream /\ Orderly(idle)
        BY <1>2 DEF SameShared
    <2> QED
        BY <2>1, <2>2, CancelKeeps
<1> QED
    BY <1>6, <1>7

LEMMA OnReconnectKeeps ==
    ASSUME NEW s, NEW a \in Actor, Typed(s), Writes(s), Behind(s), Asked(s), Elsewhere(s, a),
           s.at[a] # "disconnecting", NEW ec, ec \in {"none", "try_again"} => s.open
    PROVE  LET t == OnReconnect(s, a, ec)
           IN  Orderly(t) /\ (t.open => s.open) /\ t.stream = s.stream
<1> DEFINE heard == IF ec = "none" \/ (ec = "aborted" /\ s.open) THEN "try_again" ELSE ec
<1>1. heard = "try_again" => s.open
    OBVIOUS
<1>2. OnReconnect(s, a, ec) = IF a = "reader" THEN ReaderHears(s, heard) ELSE WriterHears(s, heard)
    BY DEF OnReconnect
<1> HIDE DEF heard
<1>3. CASE a = "reader"
    BY <1>1, <1>2, <1>3, ReaderHearsKeeps
<1>4. CASE a = "writer"
    BY <1>1, <1>2, <1>4, WriterHearsKeeps
<1> QED
    BY <1>3, <1>4 DEF Actor

LEMMA CompleteKeeps ==
    ASSUME NEW s, NEW a \in Actor, Typed(s), Writes(s), LockHeld(s), FreshElsewhere(s, a),
           Behind(s), Walked(s), Asked(s), s.at[a] \in Holding,
           NEW ec, ec \in {"none", "try_again"} => s.open
    PROVE  LET t == Complete(s, a, ec)
           IN  Orderly(t) /\ (t.open => s.open) /\ t.stream = s.stream
<1> DEFINE u == Unlock(s)
<1>1. /\ Typed(u) /\ Writes(u) /\ Behind(u) /\ Asked(u) /\ Elsewhere(u, a)
      /\ u.at[a] = s.at[a] /\ u.open = s.open /\ u.stream = s.stream
    BY UnlockElsewhere
<1>2. u.at[a] # "disconnecting"
    BY <1>1, PlaceFacts
<1>3. Complete(s, a, ec) = OnReconnect(u, a, ec)
    BY DEF Complete
<1> HIDE DEF u
<1> QED
    BY <1>1, <1>2, <1>3, OnReconnectKeeps

\* In an orderly state in particular.
LEMMA CompleteOrderly ==
    ASSUME NEW s, NEW a \in Actor, Orderly(s), s.at[a] \in Holding,
           NEW ec, ec \in {"none", "try_again"} => s.open
    PROVE  LET t == Complete(s, a, ec)
           IN  Orderly(t) /\ (t.open => s.open) /\ t.stream = s.stream
<1>1. FreshElsewhere(s, a)
    BY DEF Orderly, Core, Fresh, FreshElsewhere
<1> QED
    BY <1>1, CompleteKeeps DEF Orderly, Core

-----------------------------------------------------------------------------
(* Connection: the way from broker to broker *)

\* Who has the lock goes on, while there is no connection.
LEMMA HolderMoves ==
    ASSUME NEW s, NEW t, NEW a \in Actor, NEW p \in Holding,
           Typed(s), Writes(s), LockHeld(s), Behind(s), Asked(s), s.at[a] \in Holding, s.link # "up",
           t \in Clients, t.servers = s.servers, t.open = s.open, t.stream = s.stream, t.link = s.link,
           t.locked = s.locked, t.waiting = s.waiting, t.queue = s.queue, t.batch = s.batch,
           t.saw = s.saw, t.at = [s.at EXCEPT ![a] = p],
           t.host \in 0 .. Len(s.servers), p \in {"wrapped", "backoff"} => t.host = 0,
           0 \in t.tried /\ p \in {"resolving"} \cup Connecting => 1 .. t.host \subseteq t.tried,
           0 \in t.tried /\ p \in {"wrapped", "backoff"} => DOMAIN t.servers \subseteq t.tried
    PROVE  Orderly(t)
<1>1. /\ s.at \in [Actor -> ReaderPlaces \cup WriterPlaces]
      /\ "reader" \in Actor /\ "writer" \in Actor
      /\ p \in ReaderPlaces /\ p \in WriterPlaces
    BY PlaceFacts DEF Typed, Clients
<1>2. t.at[a] = p /\ \A b \in Actor : b # a => t.at[b] = s.at[b]
    BY <1>1
<1>3. Typed(t)
    BY <1>1, <1>2 DEF Typed
<1>4. \A b \in Actor : (t.at[b] \in Holding <=> s.at[b] \in Holding)
                      /\ (t.at[b] = "waiting" <=> s.at[b] = "waiting")
                      /\ (t.at[b] = "idle" <=> s.at[b] = "idle")
                      /\ (t.at[b] = "disconnecting" <=> s.at[b] = "disconnecting")
    BY ZenonT(60), <1>2, PlaceFacts
<1>5. Writes(t)
    BY <1>1, <1>4 DEF Writes
<1>6. LockHeld(t)
    BY <1>4 DEF LockHeld
<1>7. Fresh(t)
    BY DEF Fresh
<1>8. Behind(t)
    BY DEF Behind
<1>9. Asked(t)
    BY <1>1, <1>4 DEF Asked
<1>10. Walked(t)
    <2>1. \A b \in Actor : b # a => t.at[b] \notin Holding
        BY <1>2 DEF LockHeld
    <2>2. \A b \in Actor : b # a => /\ t.at[b] \notin {"wrapped", "backoff"}
                                    /\ t.at[b] \notin {"resolving"} \cup Connecting
        BY <2>1, PlaceFacts
    <2> QED
        BY <1>2, <2>2 DEF Walked
<1> QED
    BY <1>3, <1>5, <1>6, <1>7, <1>8, <1>9, <1>10 DEF Orderly, Core

LEMMA NextHostKeeps ==
    ASSUME NEW s, NEW a \in Actor, Typed(s), Writes(s), LockHeld(s), Behind(s), Asked(s),
           s.at[a] \in Holding, s.link # "up", 0 \in s.tried => 1 .. s.host \subseteq s.tried
    PROVE  LET t == NextHost(s, a)
           IN  Orderly(t) /\ t.open = s.open /\ t.stream = s.stream
<1> DEFINE t == NextHost(s, a)
           n == Len(s.servers)
<1>1. /\ s \in Clients /\ s.at \in [Actor -> ReaderPlaces \cup WriterPlaces]
      /\ s.host \in Nat /\ s.tried \subseteq Nat /\ n \in Nat /\ DOMAIN s.servers = 1 .. n
      /\ s.host \in 0 .. n
    BY LenProperties DEF Typed, Clients
<1>2. \A p \in Holding : p \in ReaderPlaces \cup WriterPlaces
    BY PlaceFacts
<1>3. CASE s.servers = <<>>
    <2>1. /\ t \in Clients /\ t.servers = s.servers /\ t.open = s.open /\ t.stream = s.stream
          /\ t.link = s.link /\ t.locked = s.locked /\ t.waiting = s.waiting /\ t.queue = s.queue
          /\ t.batch = s.batch /\ t.saw = s.saw /\ t.at = [s.at EXCEPT ![a] = "no host"]
          /\ t.host = s.host /\ t.tried = s.tried
        BY <1>1, <1>2, <1>3, PlaceFacts DEF NextHost, Clients
    <2> HIDE DEF t, n
    <2>2. Orderly(t)
        BY <1>1, <2>1, HolderMoves, PlaceFacts DEF Connecting, n
    <2> QED
        BY <2>1, <2>2 DEF t
<1>4. CASE s.servers # <<>> /\ s.host + 1 > n
    <2>1. /\ t \in Clients /\ t.servers = s.servers /\ t.open = s.open /\ t.stream = s.stream
          /\ t.link = s.link /\ t.locked = s.locked /\ t.waiting = s.waiting /\ t.queue = s.queue
          /\ t.batch = s.batch /\ t.saw = s.saw /\ t.at = [s.at EXCEPT ![a] = "wrapped"]
          /\ t.host = 0 /\ t.tried = s.tried
        BY <1>1, <1>2, <1>4, PlaceFacts DEF NextHost, Clients
    <2>2. 0 \in 0 .. n /\ (0 \in s.tried => 1 .. n \subseteq s.tried)
        BY <1>1, <1>4
    <2> HIDE DEF t, n
    <2>3. Orderly(t)
        BY <1>1, <2>1, <2>2, HolderMoves, PlaceFacts DEF n
    <2> QED
        BY <2>1, <2>3 DEF t
<1>5. CASE s.servers # <<>> /\ ~(s.host + 1 > n)
    <2> DEFINE h == s.host + 1
               tr == s.tried \cup {h}
    <2>1. h \in Nat /\ tr \in SUBSET Nat /\ h \in 0 .. n
        BY <1>1, <1>5
    <2>2. 0 \in tr => 1 .. h \subseteq tr
        BY <1>1
    <2>3. t = [s EXCEPT !.at[a] = "resolving", !.host = h, !.tried = tr]
        BY <1>1, <1>5 DEF NextHost, Clients
    <2> HIDE DEF h, tr, t
    <2>4. /\ t \in Clients /\ t.servers = s.servers /\ t.open = s.open /\ t.stream = s.stream
          /\ t.link = s.link /\ t.locked = s.locked /\ t.waiting = s.waiting /\ t.queue = s.queue
          /\ t.batch = s.batch /\ t.saw = s.saw /\ t.at = [s.at EXCEPT ![a] = "resolving"]
          /\ t.host = h /\ t.tried = tr
        BY <1>1, <1>2, <2>1, <2>3, PlaceFacts DEF Clients
    <2> HIDE DEF n
    <2>5. Orderly(t)
        BY <2>1, <2>2, <2>4, HolderMoves, PlaceFacts DEF n
    <2> QED
        BY <2>4, <2>5 DEF t
<1> QED
    BY <1>3, <1>4, <1>5

-----------------------------------------------------------------------------
(* Connection: packets to write, connections made and lost *)

LEMMA EnqueueKeeps ==
    ASSUME NEW s, Orderly(s), s.open, NEW packet \in Packets,
           packet = "malformed" =>
              /\ s.at["reader"] = "disconnecting"
              /\ \A i \in DOMAIN s.queue : s.queue[i] # "malformed"
              /\ \A i \in DOMAIN s.batch : s.batch[i] # "malformed"
    PROVE  LET t == Enqueue(s, packet)
           IN  Orderly(t) /\ t.open = s.open /\ t.stream = s.stream
<1> DEFINE q == Append(s.queue, packet)
           u == [s EXCEPT !.queue = q]
           n == Len(s.queue)
<1>1. s \in Clients /\ s.queue \in Seq(Packets) /\ n \in Nat /\ DOMAIN s.queue = 1 .. n
    BY LenProperties DEF Orderly, Core, Typed, Clients
<1>2. q \in Seq(Packets) /\ DOMAIN q = 1 .. n + 1 /\ q[n + 1] = packet /\ \A i \in 1 .. n : q[i] = s.queue[i]
    BY <1>1, AppendProperties, LenProperties
<1>3. Enqueue(s, packet) = StartWrite(u)
    BY <1>1 DEF Enqueue, Clients
<1> HIDE DEF q
<1>4. u \in Clients /\ SameShared(s, u) /\ u.at = s.at /\ u.saw = s.saw /\ u.batch = s.batch /\ u.queue = q
    BY <1>1, <1>2 DEF Clients, SameShared
<1> HIDE DEF u
<1>5. Core(u)
    BY <1>4, Alike DEF Orderly, Core, Writes
<1>6. \A i \in DOMAIN q : i = n + 1 \/ i \in DOMAIN s.queue
    BY <1>1, <1>2
<1> HIDE DEF n
<1>7. Asked(u)
    <2>1. \A i \in DOMAIN q : (i = n + 1 /\ q[i] = packet) \/ (i \in DOMAIN s.queue /\ q[i] = s.queue[i])
        BY <1>1, <1>2, <1>6
    <2>2. \A i \in DOMAIN q : q[i] = "malformed" =>
             /\ s.at["reader"] = "disconnecting"
             /\ \A j \in DOMAIN q : q[j] = "malformed" => i = j
             /\ \A j \in DOMAIN s.batch : s.batch[j] # "malformed"
        BY <2>1 DEF Orderly, Asked
    <2> QED
        BY <1>4, <2>2 DEF Orderly, Asked, SameShared
<1>8. Orderly(u) /\ u.open = s.open /\ u.stream = s.stream
    BY <1>4, <1>5, <1>7 DEF Orderly, SameShared
<1> QED
    BY <1>3, <1>8, StartWriteKeeps

LEMMA LinkDown ==
    ASSUME NEW s, Orderly(s), NEW l \in {"shut", "lost"}
    PROVE  LET t == [s EXCEPT !.link = l]
           IN  Orderly(t) /\ t.open = s.open /\ t.stream = s.stream /\ t.at = s.at
<1> DEFINE t == [s EXCEPT !.link = l]
<1>1. s \in Clients
    BY DEF Orderly, Core, Typed
<1>2. /\ t \in Clients /\ t.servers = s.servers /\ t.open = s.open /\ t.stream = s.stream /\ t.link = l
      /\ t.locked = s.locked /\ t.waiting = s.waiting /\ t.host = s.host /\ t.tried = s.tried
      /\ t.at = s.at /\ t.saw = s.saw /\ t.batch = s.batch /\ t.queue = s.queue
    BY <1>1 DEF Clients
<1> HIDE DEF t
<1>3. Typed(t) /\ Writes(t) /\ LockHeld(t) /\ Behind(t) /\ Walked(t) /\ Asked(t)
    BY <1>2 DEF Orderly, Core, Typed, Writes, LockHeld, Behind, Walked, Asked
<1>4. Fresh(t)
    BY <1>2 DEF Fresh
<1> QED
    BY <1>2, <1>3, <1>4 DEF Orderly, Core, t

\* The lock is asked for by one who has lost its stream.
LEMMA LockKeeps ==
    ASSUME NEW s, NEW a \in Actor, Orderly(s), s.at[a] = "io", s.saw[a] # s.stream \/ s.link # "up"
    PROVE  LET t == Lock(s, a)
           IN  Orderly(t) /\ t.open = s.open /\ t.stream = s.stream
<1> DEFINE t == Lock(s, a)
           p == IF s.locked THEN "waiting" ELSE "granted"
<1>1. /\ s \in Clients /\ s.at \in [Actor -> ReaderPlaces \cup WriterPlaces] /\ s.waiting \in Seq(Actor)
      /\ "reader" \in Actor /\ "writer" \in Actor /\ p \in ReaderPlaces /\ p \in WriterPlaces
    BY DEF Orderly, Core, Typed, Clients, Actor, ReaderPlaces, WriterPlaces, Holding
<1>2. Elsewhere(s, a)
    BY OutsideElsewhere, PlaceFacts DEF Orderly
<1>3. /\ t \in Clients /\ t.servers = s.servers /\ t.open = s.open /\ t.stream = s.stream
      /\ t.link = s.link /\ t.locked /\ t.host = s.host /\ t.tried = s.tried /\ t.saw = s.saw
      /\ t.batch = s.batch /\ t.queue = s.queue /\ t.at = [s.at EXCEPT ![a] = p]
      /\ t.waiting = IF s.locked THEN <<a>> ELSE <<>>
    <2>1. s.waiting = <<>>
        BY <1>2 DEF Elsewhere
    <2>2. <<a>> \in Seq(Actor) /\ Append(<<>>, a) = <<a>>
        OBVIOUS
    <2>3. CASE s.locked
        <3>1. t = [s EXCEPT !.waiting = <<a>>, !.at[a] = "waiting"]
            BY <1>1, <2>1, <2>2, <2>3 DEF Lock, Clients
        <3> HIDE DEF t
        <3> QED
            BY <1>1, <2>2, <2>3, <3>1 DEF Clients
    <2>4. CASE ~s.locked
        BY <1>1, <2>1, <2>4 DEF Lock, Clients
    <2> QED
        BY <2>3, <2>4
<1> HIDE DEF t
<1>4. t.at[a] = p /\ \A b \in Actor : b # a => t.at[b] = s.at[b]
    BY <1>1, <1>3
<1>5. Typed(t)
    BY <1>1, <1>3, <1>4 DEF Orderly, Core, Typed
<1>6. Writes(t)
    <2>1. t.at["writer"] = "idle" <=> s.at["writer"] = "idle"
        BY <1>1, <1>4
    <2> QED
        BY <1>3, <2>1 DEF Orderly, Core, Writes
<1>7. LockHeld(t)
    <2>1. \A b \in Actor \ {a} : (s.locked <=> t.at[b] \in Holding) /\ t.at[b] # "waiting"
        BY <1>2, <1>4 DEF Elsewhere
    <2>2. \E b \in Actor : b # a
        BY DEF Actor
    <2>3. \A b, c \in Actor : b # a /\ c # a => b = c
        BY DEF Actor
    <2>4. CASE s.locked
        <3>1. t.waiting = <<a>> /\ t.at[a] = "waiting"
            BY <1>3, <1>4, <2>4
        <3>2. \A b \in Actor : t.at[b] \in Holding <=> b # a
            BY <2>1, <2>4, <3>1, PlaceFacts
        <3>3. \A b \in Actor : <<a>> = <<b>> <=> b = a
            OBVIOUS
        <3>4. \A b \in Actor : t.at[b] = "waiting" <=> b = a
            BY <2>1, <3>1
        <3>5. \A b, c \in Actor : b # c => ~(t.at[b] \in Holding /\ t.at[c] \in Holding)
            BY <2>3, <3>2
        <3> QED
            BY <1>3, <2>2, <3>1, <3>2, <3>3, <3>4, <3>5 DEF LockHeld
    <2>5. CASE ~s.locked
        <3>1. t.waiting = <<>> /\ t.at[a] = "granted"
            BY <1>3, <1>4, <2>5
        <3>2. \A b \in Actor : (t.at[b] \in Holding <=> b = a) /\ t.at[b] # "waiting"
            BY <2>1, <2>5, <3>1, PlaceFacts
        <3> QED
            BY <1>3, <3>1, <3>2 DEF LockHeld
    <2> QED
        BY <2>4, <2>5
<1>8. Fresh(t)
    <2>1. ASSUME s.link = "up", NEW b \in Actor
          PROVE  /\ t.at[b] \notin Holding \ {"granted"}
                 /\ t.at[b] \in {"granted", "waiting"} => s.saw[b] # s.stream
        <3>1. CASE b = a
            BY <1>4, <2>1, <3>1, PlaceFacts
        <3>2. CASE b # a
            BY <1>4, <2>1, <3>2 DEF Orderly, Core, Fresh
        <3> QED
            BY <3>1, <3>2
    <2> QED
        BY <1>3, <2>1 DEF Orderly, Core, Fresh
<1>9. Behind(t)
    BY <1>3 DEF Orderly, Core, Behind
<1>10. Walked(t)
    <2>1. \A b \in Actor : t.at[b] \in {"resolving", "wrapped", "backoff"} \cup Connecting => t.at[b] = s.at[b]
        BY <1>4, PlaceFacts DEF Connecting
    <2> QED
        BY <1>3, <2>1 DEF Orderly, Core, Walked
<1>11. Asked(t)
    <2>1. s.at["reader"] = "disconnecting" => t.at["reader"] = "disconnecting"
        BY <1>1, <1>4
    <2> QED
        BY <1>3, <2>1 DEF Orderly, Asked
<1> QED
    BY <1>3, <1>5, <1>6, <1>7, <1>8, <1>9, <1>10, <1>11 DEF Orderly, Core, t

\* A new stream is put in place, and the lock given back.
LEMMA ConnectedKeeps ==
    ASSUME NEW s, NEW a \in Actor, Orderly(s), s.at[a] \in Holding
    PROVE  LET t == Connected(s, a)
           IN  Orderly(t) /\ (t.open => s.open) /\ (~s.open => t.stream = s.stream)
<1>1. CASE ~s.open
    BY <1>1, CompleteOrderly DEF Connected
<1>2. CASE s.open
    <2> DEFINE n == s.stream + 1
               u == [s EXCEPT !.stream = n, !.link = "up"]
    <2>1. /\ s \in Clients /\ s.stream \in Nat /\ s.saw \in [Actor -> Nat] /\ n \in Nat
        BY DEF Orderly, Core, Typed, Clients
    <2>2. \A b \in Actor : s.saw[b] <= n /\ s.saw[b] # n
        BY <2>1 DEF Orderly, Core, Behind
    <2>3. Connected(s, a) = Complete(u, a, "none")
        BY <1>2, <2>1 DEF Connected, Clients
    <2> HIDE DEF n
    <2>4. /\ u \in Clients /\ u.servers = s.servers /\ u.open = s.open /\ u.stream = n /\ u.link = "up"
          /\ u.locked = s.locked /\ u.waiting = s.waiting /\ u.host = s.host /\ u.tried = s.tried
          /\ u.at = s.at /\ u.saw = s.saw /\ u.batch = s.batch /\ u.queue = s.queue
        BY <2>1 DEF Clients
    <2> HIDE DEF u
    <2>5. Typed(u) /\ Writes(u) /\ LockHeld(u) /\ Walked(u) /\ Asked(u)
        BY <2>4 DEF Orderly, Core, Typed, Writes, LockHeld, Walked, Asked
    <2>6. Behind(u)
        BY <2>2, <2>4 DEF Behind
    <2>7. FreshElsewhere(u, a)
        <3>1. \A b \in Actor \ {a} : s.at[b] \notin Holding
            BY DEF Orderly, Core, LockHeld
        <3> QED
            BY <1>2, <2>2, <2>4, <3>1 DEF FreshElsewhere
    <2>8. LET t == Complete(u, a, "none")
          IN  Orderly(t)
        BY <1>2, <2>4, <2>5, <2>6, <2>7, CompleteKeeps
    <2> QED
        BY <1>2, <2>3, <2>8
<1> QED
    BY <1>1, <1>2

\* Packets are written.
LEMMA DeliveredKeeps ==
    ASSUME NEW s, Orderly(s), NEW packets,
           "malformed" \in packets =>
              /\ s.at["reader"] = "disconnecting"
              /\ \A i \in DOMAIN s.queue : s.queue[i] # "malformed",
           s.batch = <<>>
    PROVE  LET t == Delivered(s, packets)
           IN  Orderly(t) /\ (t.open => s.open) /\ t.stream = s.stream
<1> DEFINE heard == Answered(s, packets)
           closed == IF \E p \in packets : IsDisconnect(p) THEN ShutDown(heard) ELSE heard
<1>1. /\ Core(heard) /\ SameShared(s, heard) /\ heard.queue = s.queue /\ heard.batch = s.batch
      /\ "malformed" \notin packets => heard.at["reader"] = s.at["reader"]
    BY AnsweredKeeps DEF Orderly
<1> HIDE DEF heard
<1>2. Asked(heard)
    <2>1. DOMAIN <<>> = {}
        OBVIOUS
    <2> QED
        BY <1>1, <2>1 DEF Orderly, Asked, SameShared
<1>3. Orderly(heard) /\ heard.open = s.open /\ heard.stream = s.stream
    BY <1>1, <1>2 DEF Orderly, SameShared
<1>4. Orderly(ShutDown(heard)) /\ ShutDown(heard).open = s.open /\ ShutDown(heard).stream = s.stream
    <2>1. heard \in Clients /\ heard.link \in {"up", "shut", "lost"}
        BY <1>3 DEF Orderly, Core, Typed, Clients
    <2>2. CASE heard.link = "up"
        <3>1. ShutDown(heard) = [heard EXCEPT !.link = "shut"]
            BY <2>1, <2>2 DEF ShutDown, Clients
        <3>2. /\ Orderly([heard EXCEPT !.link = "shut"])
              /\ [heard EXCEPT !.link = "shut"].open = heard.open
              /\ [heard EXCEPT !.link = "shut"].stream = heard.stream
            BY <1>3, LinkDown
        <3> QED
            BY <1>3, <3>1, <3>2
    <2>3. CASE heard.link # "up"
        <3>1. ShutDown(heard) = heard
            BY <2>1, <2>3 DEF ShutDown, Clients
        <3> QED
            BY <1>3, <3>1
    <2> QED
        BY <2>2, <2>3
<1>5. Orderly(closed) /\ closed.open = s.open /\ closed.stream = s.stream
    BY <1>3, <1>4
<1>6. Delivered(s, packets) = IF "terminal" \in packets THEN CancelClient(closed) ELSE closed
    BY DEF Delivered, heard
<1> HIDE DEF closed
<1> QED
    BY <1>5, <1>6, CancelKeeps

-----------------------------------------------------------------------------
(* Connection: the steps *)

\* What every step does: the invariant is kept, a cancelled client is not opened, and
\* gets no stream.
Steps(s, t) == Orderly(t) /\ (t.open => s.open) /\ (~s.open => t.stream = s.stream)

\* Other hosts are taken to be tried.
LEMMA Forgets ==
    ASSUME NEW s, Orderly(s), NEW tr \in SUBSET Nat
    PROVE  LET t == [s EXCEPT !.tried = tr]
           IN  /\ Typed(t) /\ Writes(t) /\ LockHeld(t) /\ Behind(t) /\ Asked(t)
               /\ t.at = s.at /\ t.link = s.link /\ t.host = s.host /\ t.tried = tr
               /\ t.open = s.open /\ t.stream = s.stream
<1> DEFINE t == [s EXCEPT !.tried = tr]
<1>1. s \in Clients
    BY DEF Orderly, Core, Typed
<1>2. /\ t \in Clients /\ t.servers = s.servers /\ t.open = s.open /\ t.stream = s.stream /\ t.link = s.link
      /\ t.locked = s.locked /\ t.waiting = s.waiting /\ t.host = s.host /\ t.tried = tr
      /\ t.at = s.at /\ t.saw = s.saw /\ t.batch = s.batch /\ t.queue = s.queue
    BY <1>1 DEF Clients
<1> HIDE DEF t
<1>3. Typed(t) /\ Writes(t) /\ LockHeld(t) /\ Behind(t) /\ Asked(t)
    BY <1>2 DEF Orderly, Core, Typed, Writes, LockHeld, Behind, Asked
<1> QED
    BY <1>2, <1>3 DEF t

LEMMA LockedKeeps ==
    ASSUME NEW s, NEW a \in Actor, Orderly(s), s.at[a] = "granted"
    PROVE  Steps(s, Locked(s, a))
<1>1. s.at[a] \in Holding
    BY PlaceFacts
<1>2. CASE ~s.open
    BY <1>1, <1>2, CompleteOrderly DEF Locked, Steps
<1>3. CASE s.open /\ s.saw[a] # s.stream
    BY <1>1, <1>3, CompleteOrderly DEF Locked, Steps
<1>4. CASE s.open /\ s.saw[a] = s.stream
    <2> DEFINE u == [s EXCEPT !.tried = {}]
    <2>1. s.link # "up"
        BY <1>4 DEF Orderly, Core, Fresh
    <2>2. /\ Typed(u) /\ Writes(u) /\ LockHeld(u) /\ Behind(u) /\ Asked(u)
          /\ u.at = s.at /\ u.link = s.link /\ u.tried = {} /\ u.open = s.open /\ u.stream = s.stream
        BY Forgets
    <2>3. Locked(s, a) = NextHost(u, a)
        BY <1>4 DEF Locked
    <2> HIDE DEF u
    <2> QED
        BY <1>1, <2>1, <2>2, <2>3, NextHostKeeps DEF Steps
<1> QED
    BY <1>2, <1>3, <1>4

\* The next host, after another that did not do.
LEMMA NextHostSteps ==
    ASSUME NEW s, NEW a \in Actor, Orderly(s), s.at[a] \in {"resolving"} \cup Connecting
    PROVE  Steps(s, NextHost(s, a))
<1>1. s.at[a] \in Holding /\ s.at[a] # "granted"
    BY PlaceFacts
<1>2. s.link # "up"
    BY <1>1 DEF Orderly, Core, Fresh
<1>3. 0 \in s.tried => 1 .. s.host \subseteq s.tried
    BY DEF Orderly, Core, Walked
<1> QED
    BY <1>1, <1>2, <1>3, NextHostKeeps DEF Orderly, Core, Steps

\* The same host, at another endpoint or further on; or the pause after the last.
LEMMA ConnectingSteps ==
    ASSUME NEW s, NEW a \in Actor, Orderly(s), NEW e \in Nat,
           NEW p \in Connecting, s.at[a] \in {"resolving"} \cup Connecting
    PROVE  Steps(s, [s EXCEPT !.at[a] = p, !.endpoint = e])
<1> DEFINE t == [s EXCEPT !.at[a] = p, !.endpoint = e]
<1>1. s.at[a] \in Holding /\ s.at[a] # "granted" /\ p \in Holding /\ p \notin {"wrapped", "backoff"}
      /\ p \in ReaderPlaces
    BY PlaceFacts DEF Connecting
<1>2. s \in Clients /\ s.at \in [Actor -> ReaderPlaces \cup WriterPlaces]
      /\ s.link # "up" /\ s.host \in 0 .. Len(s.servers)
    BY <1>1 DEF Orderly, Core, Typed, Clients, Fresh
<1>3. 0 \in s.tried => 1 .. s.host \subseteq s.tried
    BY DEF Orderly, Core, Walked
<1>4. /\ t \in Clients /\ t.servers = s.servers /\ t.open = s.open /\ t.stream = s.stream
      /\ t.link = s.link /\ t.locked = s.locked /\ t.waiting = s.waiting /\ t.queue = s.queue
      /\ t.batch = s.batch /\ t.saw = s.saw /\ t.at = [s.at EXCEPT ![a] = p]
      /\ t.host = s.host /\ t.tried = s.tried
    BY <1>1, <1>2 DEF Clients
<1> HIDE DEF t
<1>5. Orderly(t)
    BY <1>1, <1>2, <1>3, <1>4, HolderMoves DEF Orderly, Core
<1> QED
    BY <1>4, <1>5 DEF Steps, t

LEMMA BackoffSteps ==
    ASSUME NEW s, NEW a \in Actor, Orderly(s), s.at[a] = "wrapped"
    PROVE  Steps(s, [s EXCEPT !.at[a] = "backoff"])
<1> DEFINE t == [s EXCEPT !.at[a] = "backoff"]
<1>1. s.at[a] \in Holding /\ s.at[a] # "granted" /\ "backoff" \in Holding /\ "backoff" \in ReaderPlaces
      /\ "backoff" \notin {"resolving"} \cup Connecting
    BY PlaceFacts
<1>2. s \in Clients /\ s.at \in [Actor -> ReaderPlaces \cup WriterPlaces]
      /\ s.link # "up" /\ s.host \in 0 .. Len(s.servers)
    BY <1>1 DEF Orderly, Core, Typed, Clients, Fresh
<1>3. s.host = 0 /\ (0 \in s.tried => DOMAIN s.servers \subseteq s.tried)
    BY DEF Orderly, Core, Walked
<1>4. /\ t \in Clients /\ t.servers = s.servers /\ t.open = s.open /\ t.stream = s.stream
      /\ t.link = s.link /\ t.locked = s.locked /\ t.waiting = s.waiting /\ t.queue = s.queue
      /\ t.batch = s.batch /\ t.saw = s.saw /\ t.at = [s.at EXCEPT ![a] = "backoff"]
      /\ t.host = s.host /\ t.tried = s.tried
    BY <1>1, <1>2 DEF Clients
<1> HIDE DEF t
<1>5. Orderly(t)
    BY <1>1, <1>2, <1>3, <1>4, HolderMoves DEF Orderly, Core
<1> QED
    BY <1>4, <1>5 DEF Steps, t

\* What an actor does that has lost its stream.
LEMMA ProgressSteps ==
    ASSUME Orderly(cn), NEW a \in Actor, Progress(a)
    PROVE  Steps(cn, cn')
<1>1. CASE OnLocked(a)
    BY <1>1, LockedKeeps DEF OnLocked
<1>2. CASE OnRefused(a)
    <2>1. Elsewhere(cn, a) /\ cn.at[a] # "disconnecting" /\ cn' = OnReconnect(cn, a, "aborted")
        BY <1>2, OutsideElsewhere, PlaceFacts DEF OnRefused, Orderly
    <2> QED
        BY <2>1, OnReconnectKeeps DEF Orderly, Core, Steps
<1>3. CASE OnNoHost(a)
    <2>1. cn.at[a] \in Holding /\ \E ec \in {"no_recovery", "aborted"} : cn' = Complete(cn, a, ec)
        BY <1>3, PlaceFacts DEF OnNoHost
    <2> QED
        BY <2>1, CompleteOrderly DEF Steps
<1>4. CASE OnWrapped(a)
    <2>1. CASE cn.open
        BY <1>4, <2>1, BackoffSteps DEF OnWrapped
    <2>2. CASE ~cn.open
        <3>1. cn.at[a] \in Holding /\ cn' = Complete(cn, a, "aborted")
            BY <1>4, <2>2, PlaceFacts DEF OnWrapped
        <3> QED
            BY <3>1, CompleteOrderly DEF Steps
    <2> QED
        BY <2>1, <2>2
<1>5. CASE OnBackoff(a)
    <2>1. cn.at[a] \in Holding /\ cn.at[a] # "granted"
        BY <1>5, PlaceFacts DEF OnBackoff
    <2>2. CASE cn.open
        <3> DEFINE u == [cn EXCEPT !.tried = {0}]
        <3>1. cn.link # "up" /\ cn.host = 0
            BY <1>5, <2>1 DEF OnBackoff, Orderly, Core, Fresh, Walked
        <3>2. /\ Typed(u) /\ Writes(u) /\ LockHeld(u) /\ Behind(u) /\ Asked(u)
              /\ u.at = cn.at /\ u.link = cn.link /\ u.host = cn.host /\ u.tried = {0}
              /\ u.open = cn.open /\ u.stream = cn.stream
            <4>1. {0} \in SUBSET Nat
                OBVIOUS
            <4> QED
                BY <4>1, Forgets
        <3>3. cn' = NextHost(u, a)
            BY <1>5, <2>2 DEF OnBackoff
        <3> HIDE DEF u
        <3>4. 1 .. u.host \subseteq u.tried
            BY <3>1, <3>2
        <3> QED
            BY <2>1, <3>1, <3>2, <3>3, <3>4, NextHostKeeps DEF Steps
    <2>3. CASE ~cn.open
        <3>1. cn' = Complete(cn, a, "aborted")
            BY <1>5, <2>3 DEF OnBackoff
        <3> QED
            BY <2>1, <3>1, CompleteOrderly DEF Steps
    <2> QED
        BY <2>2, <2>3
<1>6. CASE OnResolve(a)
    <2>1. cn.at[a] = "resolving" /\ cn.at[a] \in Holding
        BY <1>6, PlaceFacts DEF OnResolve
    <2>2. CASE ~cn.open /\ cn' = Complete(cn, a, "aborted")
        BY <2>1, <2>2, CompleteOrderly DEF Steps
    <2>3. CASE cn' = [cn EXCEPT !.at[a] = "tcp", !.endpoint = 1]
        BY <2>1, <2>3, ConnectingSteps, PlaceFacts
    <2>4. CASE cn' = NextHost(cn, a)
        BY <2>1, <2>4, NextHostSteps
    <2> QED
        BY <1>6, <2>2, <2>3, <2>4 DEF OnResolve
<1>7. CASE Proceeds(a)
    <2>1. PICK p \in Connecting : cn' = [cn EXCEPT !.at[a] = p]
        BY <1>7, PlaceFacts DEF Proceeds
    <2>2. cn.at[a] \in Connecting
        BY <1>7, PlaceFacts DEF Proceeds
    <2>3. cn \in Clients /\ cn.endpoint \in Nat
        BY DEF Orderly, Core, Typed, Clients
    <2>4. cn' = [cn EXCEPT !.at[a] = p, !.endpoint = cn.endpoint]
        BY <2>1, <2>3 DEF Clients
    <2> QED
        BY <2>2, <2>3, <2>4, ConnectingSteps
<1>8. CASE Gives(a)
    <2>1. cn.at[a] \in Connecting
        BY <1>8 DEF Gives
    <2>2. CASE cn' = [cn EXCEPT !.at[a] = "tcp", !.endpoint = @ + 1]
        <3>1. cn.endpoint + 1 \in Nat /\ cn \in Clients
            BY DEF Orderly, Core, Typed, Clients
        <3>2. cn' = [cn EXCEPT !.at[a] = "tcp", !.endpoint = cn.endpoint + 1]
            BY <2>2, <3>1 DEF Clients
        <3> QED
            BY <2>1, <3>1, <3>2, ConnectingSteps, PlaceFacts
    <2>3. CASE cn' = NextHost(cn, a)
        BY <2>1, <2>3, NextHostSteps
    <2> QED
        BY <1>8, <2>2, <2>3 DEF Gives
<1>9. CASE OnConnect(a)
    <2>1. cn.at[a] \in Holding /\ cn' = Connected(cn, a)
        BY <1>9, PlaceFacts DEF OnConnect
    <2> QED
        BY <2>1, ConnectedKeeps DEF Steps
<1>10. CASE IoFails(a)
    <2>1. CASE ~cn.open
        <3>1. Elsewhere(cn, a) /\ cn.at[a] # "disconnecting" /\ cn' = OnReconnect(cn, a, "aborted")
            BY <1>10, <2>1, OutsideElsewhere, PlaceFacts DEF IoFails, Orderly
        <3> QED
            BY <3>1, OnReconnectKeeps DEF Orderly, Core, Steps
    <2>2. CASE cn.open
        <3>1. cn.at[a] = "io" /\ (cn.saw[a] # cn.stream \/ cn.link # "up") /\ cn' = Lock(cn, a)
            BY <1>10, <2>2 DEF IoFails
        <3> QED
            BY <3>1, LockKeeps DEF Steps
    <2> QED
        BY <2>1, <2>2
<1> QED
    BY <1>1, <1>2, <1>3, <1>4, <1>5, <1>6, <1>7, <1>8, <1>9, <1>10 DEF Progress

\* A timer asks for a packet; a flag of its operation is all that changes besides.
LEMMA AsksSteps ==
    ASSUME Orderly(cn), cn.open, NEW s, s \in Clients, SameShared(cn, s), s.at = cn.at, s.saw = cn.saw,
           s.batch = cn.batch, s.queue = cn.queue, NEW packet \in Packets, packet # "malformed",
           cn' = Enqueue(s, packet)
    PROVE  Steps(cn, cn')
<1>1. Orderly(s) /\ s.open /\ s.stream = cn.stream
    BY Alike DEF SameShared
<1> QED
    BY <1>1, EnqueueKeeps DEF Steps

LEMMA TimersStep ==
    ASSUME Orderly(cn), PingTimer \/ SentryTimer \/ AsyncDisconnect \/ AuthFails
    PROVE  Steps(cn, cn')
<1>1. cn \in Clients /\ "ping" \in Packets /\ "expired" \in Packets /\ "terminal" \in Packets
      /\ "reauth" \in Packets
    BY DEF Orderly, Core, Typed, Packets, Passing
<1>2. CASE PingTimer
    <2> DEFINE s == [cn EXCEPT !.ping = "sending"]
    <2>1. /\ s \in Clients /\ SameShared(cn, s) /\ s.at = cn.at /\ s.saw = cn.saw
          /\ s.batch = cn.batch /\ s.queue = cn.queue
        BY <1>1 DEF Clients, SameShared
    <2>2. cn.open /\ cn' = Enqueue(s, "ping")
        BY <1>2 DEF PingTimer
    <2> HIDE DEF s
    <2> QED
        BY <1>1, <2>1, <2>2, AsksSteps
<1>3. CASE SentryTimer
    <2> DEFINE s == [cn EXCEPT !.sentry = "sending"]
    <2>1. /\ s \in Clients /\ SameShared(cn, s) /\ s.at = cn.at /\ s.saw = cn.saw
          /\ s.batch = cn.batch /\ s.queue = cn.queue
        BY <1>1 DEF Clients, SameShared
    <2>2. cn.open /\ cn' = Enqueue(s, "expired")
        BY <1>3 DEF SentryTimer
    <2> HIDE DEF s
    <2> QED
        BY <1>1, <2>1, <2>2, AsksSteps
<1>4. CASE AsyncDisconnect
    <2> DEFINE s == [cn EXCEPT !.disconnect = "asked"]
    <2>1. /\ s \in Clients /\ SameShared(cn, s) /\ s.at = cn.at /\ s.saw = cn.saw
          /\ s.batch = cn.batch /\ s.queue = cn.queue
        BY <1>1 DEF Clients, SameShared
    <2>2. cn.open /\ cn' = Enqueue(s, "terminal")
        BY <1>4 DEF AsyncDisconnect
    <2> HIDE DEF s
    <2> QED
        BY <1>1, <2>1, <2>2, AsksSteps
<1>5. CASE AuthFails
    <2>1. cn.open /\ cn' = Enqueue(cn, "reauth") /\ SameShared(cn, cn)
        BY <1>5 DEF AuthFails, SameShared
    <2> QED
        BY <1>1, <2>1, AsksSteps
<1> QED
    BY <1>2, <1>3, <1>4, <1>5

LEMMA EndsStep ==
    ASSUME Orderly(cn), PingEnds \/ SentryEnds
    PROVE  Steps(cn, cn')
<1>1. cn \in Clients
    BY DEF Orderly, Core, Typed
<1>2. PICK t \in {[cn EXCEPT !.ping = "ended"], [cn EXCEPT !.sentry = "ended"]} : cn' = t
    BY DEF PingEnds, SentryEnds
<1>3. /\ t \in Clients /\ SameShared(cn, t) /\ t.at = cn.at /\ t.saw = cn.saw
      /\ t.batch = cn.batch /\ t.queue = cn.queue
    <2>1. CASE t = [cn EXCEPT !.ping = "ended"]
        BY <1>1, <2>1 DEF Clients, SameShared
    <2>2. CASE t = [cn EXCEPT !.sentry = "ended"]
        BY <1>1, <2>2 DEF Clients, SameShared
    <2> QED
        BY <2>1, <2>2
<1> QED
    BY <1>2, <1>3, Alike DEF Steps, SameShared

\* The reader goes to another place that has nothing to do with the lock.
LEMMA ReaderGoes ==
    ASSUME NEW s, Orderly(s), NEW p \in {"disconnecting", "ended"},
           s.at["reader"] \in {"io", "disconnecting"},
           \A i \in DOMAIN s.queue : s.queue[i] # "malformed",
           \A i \in DOMAIN s.batch : s.batch[i] # "malformed"
    PROVE  LET t == [s EXCEPT !.at["reader"] = p]
           IN  /\ Orderly(t) /\ t.open = s.open /\ t.stream = s.stream /\ t.at["reader"] = p
               /\ t.queue = s.queue /\ t.batch = s.batch
<1> DEFINE t == [s EXCEPT !.at["reader"] = p]
<1>1. /\ s \in Clients /\ s.at \in [Actor -> ReaderPlaces \cup WriterPlaces]
      /\ "reader" \in Actor /\ "writer" \in Actor /\ p \in ReaderPlaces
    BY DEF Orderly, Core, Typed, Clients, ReaderPlaces, Actor
<1>2. /\ t \in Clients /\ SameShared(s, t) /\ t.queue = s.queue /\ t.batch = s.batch
      /\ t.at = [s.at EXCEPT !["reader"] = p] /\ t.saw = s.saw
    BY <1>1 DEF Clients, SameShared
<1> HIDE DEF t
<1>3. /\ t.at["reader"] = p /\ t.at["writer"] = s.at["writer"]
      /\ \A b \in Actor \ {"reader"} : t.at[b] = s.at[b] /\ t.saw[b] = s.saw[b]
    BY <1>1, <1>2
<1>4. Elsewhere(s, "reader")
    BY <1>1, OutsideElsewhere, PlaceFacts DEF Orderly
<1>5. Writes(t) /\ t.at["writer"] \in WriterPlaces
    BY <1>2, <1>3 DEF Orderly, Core, Writes, Typed
<1>6. Core(t)
    <2>1. t.at["reader"] \notin Holding /\ t.at["reader"] # "waiting" /\ t.at["reader"] \in ReaderPlaces
        BY <1>1, <1>3, PlaceFacts
    <2> QED
        BY <1>1, <1>2, <1>3, <1>4, <1>5, <2>1, Settles DEF Orderly, Core
<1>7. Asked(t)
    BY <1>2 DEF Orderly, Asked, SameShared
<1> QED
    BY <1>2, <1>3, <1>6, <1>7 DEF Orderly, SameShared, t

LEMMA ReaderSteps ==
    ASSUME Orderly(cn), Malformed \/ ReaderEnds
    PROVE  Steps(cn, cn')
<1>1. CASE Malformed
    <2> DEFINE s == [cn EXCEPT !.at["reader"] = "disconnecting"]
    <2>1. /\ cn.at["reader"] = "io" /\ cn.open /\ cn' = Enqueue(s, "malformed")
        BY <1>1 DEF Malformed, Uses
    <2>2. /\ \A i \in DOMAIN cn.queue : cn.queue[i] # "malformed"
          /\ \A i \in DOMAIN cn.batch : cn.batch[i] # "malformed"
        BY <2>1 DEF Orderly, Asked
    <2>3. /\ Orderly(s) /\ s.open = cn.open /\ s.stream = cn.stream /\ s.at["reader"] = "disconnecting"
          /\ s.queue = cn.queue /\ s.batch = cn.batch
        BY <2>1, <2>2, ReaderGoes
    <2>4. "malformed" \in Packets
        BY DEF Packets, Passing
    <2> HIDE DEF s
    <2> QED
        BY <2>1, <2>2, <2>3, <2>4, EnqueueKeeps DEF Steps
<1>2. CASE ReaderEnds
    <2>1. /\ cn.at["reader"] = "disconnecting" /\ ~cn.open
          /\ cn' = [cn EXCEPT !.at["reader"] = "ended"]
          /\ \A i \in DOMAIN cn.batch : cn.batch[i] # "malformed"
        BY <1>2 DEF ReaderEnds, Waits
    <2>2. \A i \in DOMAIN cn.queue : cn.queue[i] # "malformed"
        <3>1. cn.queue = <<>> /\ DOMAIN <<>> = {}
            BY <2>1 DEF Orderly, Asked
        <3> QED
            BY <3>1
    <2> QED
        BY <2>1, <2>2, ReaderGoes DEF Steps
<1> QED
    BY <1>1, <1>2

LEMMA WriteEndsSteps ==
    ASSUME Orderly(cn), WriteEnds
    PROVE  Steps(cn, cn')
<1> DEFINE idle == [cn EXCEPT !.at["writer"] = "idle", !.batch = <<>>]
           packets == Range(cn.batch)
           t == Delivered(idle, packets)
<1>1. cn.at["writer"] = "io" /\ cn.open /\ cn' = StartWrite(t)
    BY DEF WriteEnds, Uses
<1>2. Elsewhere(cn, "writer")
    BY <1>1, OutsideElsewhere, PlaceFacts DEF Orderly
<1>3. /\ Orderly(idle) /\ SameShared(cn, idle) /\ idle.queue = cn.queue /\ idle.batch = <<>>
      /\ idle.at["writer"] = "idle" /\ idle.at["reader"] = cn.at["reader"]
    BY <1>2, IdleKeeps DEF Orderly, Core
<1>4. "malformed" \in packets =>
         /\ cn.at["reader"] = "disconnecting"
         /\ \A i \in DOMAIN cn.queue : cn.queue[i] # "malformed"
    BY DEF Range, Orderly, Asked
<1> HIDE DEF idle, packets
<1>5. Orderly(t) /\ (t.open => idle.open) /\ t.stream = idle.stream
    BY <1>3, <1>4, DeliveredKeeps
<1> HIDE DEF t
<1> QED
    BY <1>1, <1>3, <1>5, StartWriteKeeps DEF Steps, SameShared

LEMMA UnrecoverableSteps ==
    ASSUME Orderly(cn), NEW a \in Actor, Unrecoverable(a)
    PROVE  Steps(cn, cn')
<1>1. cn.at[a] = "io"
      /\ cn' = IF a = "reader" THEN ReaderHears(cn, "no_recovery") ELSE WriterHears(cn, "no_recovery")
    BY DEF Unrecoverable, Uses
<1>2. Elsewhere(cn, a)
    BY <1>1, OutsideElsewhere, PlaceFacts DEF Orderly
<1>3. CASE a = "reader"
    <2>1. cn.at["reader"] # "disconnecting" /\ cn' = ReaderHears(cn, "no_recovery")
        BY <1>1, <1>3
    <2> QED
        BY <1>2, <1>3, <2>1, ReaderHearsKeeps DEF Orderly, Core, Steps
<1>4. CASE a = "writer"
    <2>1. cn' = WriterHears(cn, "no_recovery")
        BY <1>1, <1>4
    <2> QED
        BY <1>2, <1>4, <2>1, WriterHearsKeeps DEF Orderly, Core, Steps
<1> QED
    BY <1>3, <1>4 DEF Actor

LEMMA ConnectionSteps ==
    ASSUME Orderly(cn), [ConnectionNext]_connectionVars
    PROVE  Steps(cn, cn')
<1>1. CASE \E a \in Actor : Progress(a) \/ Unrecoverable(a)
    BY <1>1, ProgressSteps, UnrecoverableSteps
<1>2. CASE Lose \/ BrokerDisconnects
    <2>1. PICK l \in {"shut", "lost"} : cn' = [cn EXCEPT !.link = l]
        BY <1>2 DEF Lose, BrokerDisconnects
    <2> QED
        BY <2>1, LinkDown DEF Steps
<1>3. CASE Malformed \/ ReaderEnds
    BY <1>3, ReaderSteps
<1>4. CASE PingTimer \/ SentryTimer \/ AsyncDisconnect \/ AuthFails
    BY <1>4, TimersStep
<1>5. CASE PingEnds \/ SentryEnds
    BY <1>5, EndsStep
<1>6. CASE WriteEnds
    BY <1>6, WriteEndsSteps
<1>7. CASE DisconnectTimer \/ Cancelled
    <2>1. cn' = CancelClient(cn)
        BY <1>7 DEF DisconnectTimer, Cancelled
    <2> QED
        BY <2>1, CancelKeeps DEF Steps
<1>8. CASE UNCHANGED connectionVars
    BY <1>8 DEF connectionVars, Steps
<1> QED
    BY <1>1, <1>2, <1>3, <1>4, <1>5, <1>6, <1>7, <1>8 DEF ConnectionNext

-----------------------------------------------------------------------------
(* Connection: the theorems *)

LEMMA ConnectionBegins ==
    ASSUME ConnectionInit
    PROVE  Orderly(cn)
<1>1. PICK servers \in ServerLists : cn = NewClient(servers)
    BY DEF ConnectionInit
<1>2. servers \in Seq(Nat \ {0}) /\ Len(servers) \in Nat
    BY ConnectionAssumption, LenProperties
<1>3. /\ <<>> \in Seq(Packets) /\ <<>> \in Seq(Actor) /\ DOMAIN <<>> = {}
      /\ {"io", "idle"} \subseteq ReaderPlaces \cup WriterPlaces /\ Actor = {"reader", "writer"}
      /\ "io" \in ReaderPlaces /\ "idle" \in WriterPlaces
    BY DEF ReaderPlaces, WriterPlaces, Actor
<1>4. /\ cn.servers = servers /\ cn.open /\ cn.stream = 0 /\ cn.link = "lost" /\ ~cn.locked
      /\ cn.waiting = <<>> /\ cn.at = [reader |-> "io", writer |-> "idle"]
      /\ cn.saw = [a \in Actor |-> 0] /\ cn.host = 0 /\ cn.tried = {}
      /\ cn.queue = <<>> /\ cn.batch = <<>>
    BY <1>1 DEF NewClient
<1>5. cn.at \in [Actor -> ReaderPlaces \cup WriterPlaces]
      /\ cn.at["reader"] = "io" /\ cn.at["writer"] = "idle"
    BY <1>3, <1>4
<1>6. cn \in Clients
    BY <1>1, <1>2, <1>3, <1>4, <1>5 DEF NewClient, Clients
<1>7. Typed(cn)
    BY <1>2, <1>3, <1>4, <1>5, <1>6 DEF Typed
<1>8. \A a \in Actor : cn.at[a] \in {"io", "idle"}
    BY <1>3, <1>5
<1>9. Writes(cn) /\ LockHeld(cn) /\ Fresh(cn) /\ Asked(cn)
    <2>1. \A a \in Actor : cn.at[a] \notin Holding /\ cn.at[a] # "waiting" /\ <<>> # <<a>>
        BY <1>8, PlaceFacts
    <2> QED
        BY <1>3, <1>4, <1>5, <2>1 DEF Writes, LockHeld, Fresh, Asked
<1>10. Behind(cn)
    BY <1>4 DEF Behind
<1>11. Walked(cn)
    BY <1>4, <1>8 DEF Walked, Connecting
<1> QED
    BY <1>7, <1>9, <1>10, <1>11 DEF Orderly, Core

\* What is wanted of it.
LEMMA OrderlyIsOrderly ==
    ASSUME Orderly(cn)
    PROVE  OrderlyReconnection
<1>1. ConnectionTypeOK
    BY DEF Orderly, Core, Typed, Clients, Writes, ReaderPlaces, WriterPlaces, ConnectionTypeOK
<1>2. LockExact
    <2>1. \A a \in Actor : cn.waiting = <<a>> <=> \E i \in DOMAIN cn.waiting : cn.waiting[i] = a
        <3>1. \A a, b \in Actor : <<b>> = <<a>> <=> \E i \in DOMAIN <<b>> : <<b>>[i] = a
            OBVIOUS
        <3>2. \A a \in Actor : <<>> = <<a>> <=> \E i \in DOMAIN <<>> : <<>>[i] = a
            OBVIOUS
        <3> QED
            BY <3>1, <3>2 DEF Orderly, Core, LockHeld
    <2> QED
        BY <2>1 DEF Orderly, Core, LockHeld, LockExact
<1>3. LiveConnectionKept
    BY DEF Orderly, Core, Fresh, LiveConnectionKept
<1>4. EveryHostTried
    BY DEF Orderly, Core, Walked, EveryHostTried
<1> QED
    BY <1>1, <1>2, <1>3, <1>4 DEF OrderlyReconnection

\* Reconnection is orderly for any brokers and endpoints and any number of lost
\* connections: one actor at a time connects, with the lock, only when there is no
\* connection, nobody waits for a lock that is free, and every host is tried before the
\* pause.
THEOREM ReconnectsOrderly == ConnectionSpec => []OrderlyReconnection
<1>1. ConnectionInit => Orderly(cn)
    BY ConnectionBegins
<1>2. Orderly(cn) /\ [ConnectionNext]_connectionVars => Orderly(cn)'
    BY ConnectionSteps DEF Steps
<1>3. Orderly(cn) => OrderlyReconnection
    BY OrderlyIsOrderly
<1> QED
    BY <1>1, <1>2, <1>3, PTL DEF ConnectionSpec

\* A cancelled client stays so: no stream is put in place, and no link comes up.
THEOREM CancelledForGood == ConnectionSpec => [][StaysCancelled]_connectionVars
<1>1. ConnectionInit => Orderly(cn)
    BY ConnectionBegins
<1>2. Orderly(cn) /\ [ConnectionNext]_connectionVars => Orderly(cn)'
    BY ConnectionSteps DEF Steps
<1>3. Orderly(cn) /\ [ConnectionNext]_connectionVars => [StaysCancelled]_connectionVars
    BY ConnectionSteps DEF Steps, Orderly, Core, Fresh, StaysCancelled
<1> QED
    BY <1>1, <1>2, <1>3, PTL DEF ConnectionSpec

-----------------------------------------------------------------------------
(* Topics *)

Text == Seq(Alphabet)

\* A character that is no wildcard and allowed.
Ordinary(c) == CharResult(c) = "valid"

\* What ValidateTopicFilter looks at, in places of the text: all but a "#" at its end.
RestOf(str) == IF str # <<>> /\ str[Len(str)] = "#" THEN Len(str) - 1 ELSE Len(str)

\* A "+" that is a level by itself.
Single(str, i) ==
    /\ str[i] = "+"
    /\ i = RestOf(str) \/ str[i + 1] = "/"
    /\ i = 1 \/ str[i - 1] = "/"

FilterForm(str) ==
    /\ IsTopicSize(str)
    /\ RestOf(str) # Len(str) /\ RestOf(str) # 0 => str[RestOf(str)] = "/"
    /\ \A i \in 1 .. RestOf(str) : Ordinary(str[i]) \/ Single(str, i)

\* The characters are different ones.
LEMMA Characters ==
    /\ Ordinary("/") /\ Ordinary("$share") /\ ~ Ordinary("+") /\ ~ Ordinary("#")
    /\ "+" # "/" /\ "#" # "/" /\ "#" # "+"
    /\ \A c : ~ Ordinary(c) <=> c \in Wildcards \cup {"bad"}
BY DEF Ordinary, CharResult, Wildcards

\* ValidateTopicFilter in places of the text.
LEMMA FilterInPlaces ==
    ASSUME NEW str \in Text
    PROVE  ValidateTopicFilter(str) = "valid" <=> FilterForm(str)
<1> DEFINE n == Len(str)
           multi == str # <<>> /\ str[n] = "#"
           rest == IF multi THEN SubSeq(str, 1, n - 1) ELSE str
           m == RestOf(str)
           Alone(i) == /\ rest[i] = "+"
                       /\ i = Len(rest) \/ rest[i + 1] = "/"
                       /\ i = 1 \/ rest[i - 1] = "/"
<1>1. n \in Nat /\ DOMAIN str = 1 .. n /\ (str # <<>> <=> n # 0)
    BY LenProperties, EmptySeq DEF Text
<1>2. m \in 0 .. n /\ (multi <=> m # n)
    <2>1. CASE multi
        <3>1. m = n - 1 /\ n # 0
            BY <1>1, <2>1 DEF RestOf
        <3>2. m \in 0 .. n /\ m # n
            <4> HIDE DEF multi, m, n
            <4> QED
                BY <1>1, <3>1
        <3> HIDE DEF m, n
        <3> QED
            BY <2>1, <3>2
    <2>2. CASE ~ multi
        <3>1. m = n
            BY <2>2 DEF RestOf
        <3>2. m \in 0 .. n /\ m = n
            <4> HIDE DEF multi, m, n
            <4> QED
                BY <1>1, <3>1
        <3> HIDE DEF m, n
        <3> QED
            BY <2>2, <3>2
    <2> QED
        BY <2>1, <2>2
<1>3. /\ rest \in Text /\ Len(rest) = m /\ DOMAIN rest = 1 .. m
      /\ \A i \in 1 .. m : rest[i] = str[i]
      /\ rest # <<>> <=> m # 0
    <2>1. CASE multi
        <3>1. m = n - 1 /\ n - 1 \in Nat /\ rest = SubSeq(str, 1, n - 1)
            BY <1>1, <2>1 DEF RestOf
        <3>2. /\ rest \in Text /\ Len(rest) = n - 1
              /\ \A i \in 1 .. n - 1 : rest[i] = str[i]
            <4>1. \A i \in 1 .. n - 1 : str[i] \in Alphabet
                BY <1>1, ElementOfSeq DEF Text
            <4>2. /\ SubSeq(str, 1, n - 1) \in Seq(Alphabet)
                  /\ Len(SubSeq(str, 1, n - 1)) = IF 1 <= n - 1 THEN (n - 1) - 1 + 1 ELSE 0
                  /\ \A i \in 1 .. (n - 1) - 1 + 1 : SubSeq(str, 1, n - 1)[i] = str[1 + i - 1]
                <5>1. 1 \in Int /\ n - 1 \in Int
                    BY <1>1
                <5> HIDE DEF n
                <5> QED
                    BY <4>1, <5>1, SubSeqProperties
            <4> HIDE DEF rest, n
            <4> QED
                BY <1>1, <3>1, <4>2 DEF Text
        <3> HIDE DEF rest, m
        <3> QED
            BY <3>1, <3>2, LenProperties, EmptySeq DEF Text
    <2>2. CASE ~ multi
        <3>1. m = n /\ rest = str
            BY <2>2 DEF RestOf
        <3> HIDE DEF rest, m
        <3> QED
            BY <1>1, <3>1
    <2> QED
        BY <2>1, <2>2
<1>4. ValidateTopicFilter(str) = "valid" <=>
         /\ IsTopicSize(str)
         /\ multi /\ rest # <<>> => rest[Len(rest)] = "/"
         /\ \A i \in DOMAIN rest : CharResult(rest[i]) = "valid" \/ Alone(i)
    BY DEF ValidateTopicFilter
<1> HIDE DEF rest, multi
<1>5. ASSUME NEW i \in 1 .. m
      PROVE  Alone(i) <=> Single(str, i)
    <2>1. i # m => i + 1 \in 1 .. m
        BY <1>1, <1>2
    <2>2. i # 1 => i - 1 \in 1 .. m
        BY <1>1, <1>2
    <2> QED
        BY <1>3, <2>1, <2>2 DEF Single
<1>6. m # 0 => m \in 1 .. m
    BY <1>1, <1>2
<1> HIDE DEF m, Alone
<1>7. (multi /\ rest # <<>> => rest[Len(rest)] = "/") <=> (m # n /\ m # 0 => str[m] = "/")
    BY <1>2, <1>3, <1>6
<1>8. (\A i \in DOMAIN rest : CharResult(rest[i]) = "valid" \/ Alone(i))
         <=> \A i \in 1 .. m : Ordinary(str[i]) \/ Single(str, i)
    BY <1>3, <1>5 DEF Ordinary
<1> QED
    BY <1>4, <1>7, <1>8 DEF FilterForm, m

\* Where the levels of a text begin and end: before its first character, at its slashes
\* and after its last character.
Cuts(str) == {0, Len(str) + 1} \cup {i \in DOMAIN str : str[i] = "/"}
NextCutOf(str, i) == CHOOSE j \in Cuts(str) : j > i /\ \A k \in Cuts(str) : k > i => j <= k
LevelAfter(str, i) == SubSeq(str, i + 1, NextCutOf(str, i) - 1)

\* A level in places of the text: without wildcards, or only "+", or at the end only "#".
LevelForm(str, i, a) ==
    \/ \A k \in i + 1 .. a - 1 : Ordinary(str[k])
    \/ a = i + 2 /\ str[i + 1] = "+"
    \/ a = i + 2 /\ str[i + 1] = "#" /\ a = Len(str) + 1

\* A cut is a place at the edge of the text or a slash in it.
LEMMA CutPlaces ==
    ASSUME NEW str \in Text
    PROVE  /\ Len(str) \in Nat /\ Cuts(str) \subseteq Nat
           /\ \A i : i \in Cuts(str) <=> \/ i = 0 \/ i = Len(str) + 1
                                         \/ i \in 1 .. Len(str) /\ str[i] = "/"
           /\ \A i \in Cuts(str) : i <= Len(str) + 1
<1> DEFINE n == Len(str)
<1>1. n \in Nat /\ DOMAIN str = 1 .. n
    BY LenProperties DEF Text
<1>2. \A i : i \in Cuts(str) <=> i = 0 \/ i = n + 1 \/ (i \in 1 .. n /\ str[i] = "/")
    BY <1>1 DEF Cuts
<1> HIDE DEF n
<1> QED
    BY <1>1, <1>2 DEF n

\* The next cut, with nothing but the level between.
LEMMA NextCut ==
    ASSUME NEW str \in Text, NEW i \in Cuts(str), i # Len(str) + 1
    PROVE  /\ NextCutOf(str, i) \in Cuts(str) /\ NextCutOf(str, i) > i
           /\ \A k \in Cuts(str) : k > i => NextCutOf(str, i) <= k
<1> DEFINE later == {j \in Nat : j \in Cuts(str) /\ j > i}
<1>1. Len(str) + 1 \in later
    BY CutPlaces
<1>2. Min(later) \in later /\ \A j \in later : Min(later) <= j
    BY <1>1, MinOfNats
<1>3. PICK a \in later : \A j \in later : a <= j
    BY <1>2
<1>4. a \in Cuts(str) /\ a > i /\ \A k \in Cuts(str) : k > i => a <= k
    BY <1>3, CutPlaces
<1> QED
    BY <1>4 DEF NextCutOf

\* Every place that is not a cut is in a level.
LEMMA LevelAround ==
    ASSUME NEW str \in Text, NEW k \in 1 .. Len(str), str[k] # "/"
    PROVE  \E i \in Cuts(str) : i # Len(str) + 1 /\ i < k /\ k < NextCutOf(str, i)
<1> DEFINE earlier == {j \in Nat : k - j \in Cuts(str)}
           n == Len(str)
<1>1. n \in Nat /\ Cuts(str) \subseteq Nat /\ 0 \in Cuts(str) /\ \A j \in Cuts(str) : j <= n + 1
    BY CutPlaces
<1>2. k \notin Cuts(str)
    BY CutPlaces
<1> HIDE DEF n
<1>3. k \in earlier
    BY <1>1
<1>4. Min(earlier) \in earlier /\ \A j \in earlier : Min(earlier) <= j
    BY <1>3, MinOfNats
<1>5. PICK d \in earlier : \A j \in earlier : d <= j
    BY <1>4
<1> DEFINE i == k - d
<1>6. d \in Nat /\ k \in Nat /\ k <= n /\ i \in Cuts(str) /\ i \in Nat
    BY <1>1, <1>5 DEF n
<1>7. i < k /\ i # n + 1
    BY <1>2, <1>6 , <1>1
<1>8. \A j \in Cuts(str) : j < k => j <= i
    <2>1. ASSUME NEW j \in Cuts(str), j < k
          PROVE  j <= i
        <3>1. j \in Nat /\ k - j \in Nat /\ k - (k - j) = j
            BY <1>1, <1>6, <2>1
        <3>2. k - j \in earlier
            BY <3>1
        <3>3. d <= k - j
            BY <1>5, <3>2
        <3> QED
            BY <1>6, <3>1, <3>3
    <2> QED
        BY <2>1
<1> DEFINE a == NextCutOf(str, i)
<1>9. a \in Cuts(str) /\ a > i
    BY <1>6, <1>7, NextCut DEF n
<1>10. a \in Nat /\ a # k
    BY <1>1, <1>2, <1>9
<1> HIDE DEF i, a
<1>11. ~ (a < k)
    BY <1>6, <1>8, <1>9, <1>10
<1>12. k < a
    BY <1>6, <1>10, <1>11
<1> QED
    BY <1>6, <1>7, <1>12 DEF n, a

\* What LevelsOf says of a level, in places.
LEMMA LevelInPlaces ==
    ASSUME NEW str \in Text, NEW i \in Cuts(str), i # Len(str) + 1
    PROVE  LevelForm(str, i, NextCutOf(str, i)) <=>
              \/ Plain(LevelAfter(str, i)) \/ LevelAfter(str, i) = <<"+">>
              \/ LevelAfter(str, i) = <<"#">> /\ NextCutOf(str, i) = Len(str) + 1
<1> DEFINE n == Len(str)
           a == NextCutOf(str, i)
           l == LevelAfter(str, i)
<1>1. n \in Nat /\ i \in Nat /\ a \in Nat /\ i < a /\ a <= n + 1
    BY CutPlaces, NextCut
<1>2. \A k \in i + 1 .. a - 1 : str[k] \in Alphabet
    <2>1. \A k \in i + 1 .. a - 1 : k \in 1 .. n
        <3> HIDE DEF n, a
        <3> QED
            BY <1>1
    <2> QED
        BY <2>1, ElementOfSeq DEF Text
<1> HIDE DEF a
<1>3. /\ l \in Seq(Alphabet)
      /\ Len(l) = IF i + 1 <= a - 1 THEN (a - 1) - (i + 1) + 1 ELSE 0
      /\ \A j \in 1 .. (a - 1) - (i + 1) + 1 : l[j] = str[(i + 1) + j - 1]
    <2>1. i + 1 \in Int /\ a - 1 \in Int
        BY <1>1
    <2>2. l = SubSeq(str, i + 1, a - 1)
        BY DEF LevelAfter, a
    <2> HIDE DEF l
    <2> QED
        BY <1>2, <2>1, <2>2, SubSeqProperties
<1> HIDE DEF l, n
<1>4. Len(l) = a - i - 1 /\ DOMAIN l = 1 .. a - i - 1
    <2>1. Len(l) = a - i - 1
        BY <1>1, <1>3
    <2> QED
        BY <1>3, <2>1, LenProperties
<1>5. \A j \in 1 .. a - i - 1 : l[j] = str[i + j]
    <2>1. ASSUME NEW j \in 1 .. a - i - 1
          PROVE  l[j] = str[i + j]
        <3>1. j \in 1 .. (a - 1) - (i + 1) + 1 /\ (i + 1) + j - 1 = i + j
            BY <1>1
        <3> QED
            BY <1>3, <3>1
    <2> QED
        BY <2>1
<1>6. Plain(l) <=> \A k \in i + 1 .. a - 1 : Ordinary(str[k])
    <2>1. Plain(l) <=> \A j \in 1 .. a - i - 1 : Ordinary(str[i + j])
        BY <1>4, <1>5, Characters DEF Plain
    <2>2. \A j \in 1 .. a - i - 1 : i + j \in i + 1 .. a - 1
        BY <1>1
    <2>3. \A k \in i + 1 .. a - 1 : k - i \in 1 .. a - i - 1 /\ i + (k - i) = k
        BY <1>1
    <2> QED
        BY <2>1, <2>2, <2>3
<1>7. ASSUME NEW c \in {"+", "#"}
      PROVE  l = <<c>> <=> a = i + 2 /\ str[i + 1] = c
    <2>1. Len(<<c>>) = 1 /\ <<c>>[1] = c
        OBVIOUS
    <2>2. ASSUME l = <<c>> PROVE a = i + 2 /\ str[i + 1] = c
        <3>1. Len(l) = 1 /\ l[1] = c
            BY <2>1, <2>2
        <3>2. a = i + 2
            <4>1. a - i - 1 = 1
                BY <1>4, <3>1
            <4> QED
                BY <1>1, <4>1
        <3> QED
            BY <1>1, <1>5, <3>1, <3>2
    <2>3. ASSUME a = i + 2, str[i + 1] = c PROVE l = <<c>>
        <3>1. Len(l) = 1 /\ l[1] = c
            BY <1>1, <1>4, <1>5, <2>3
        <3>2. l \in [1 .. 1 -> {c}]
            <4>1. l \in [1 .. 1 -> Alphabet]
                BY <1>3, <3>1, LenProperties
            <4> QED
                BY <3>1, <4>1
        <3> QED
            BY <3>1, <3>2
    <2> QED
        BY <2>2, <2>3
<1> QED
    BY <1>6, <1>7 DEF LevelForm, a, l, n

\* IsFilter in places of the text.
LEMMA LevelsInPlaces ==
    ASSUME NEW str \in Text
    PROVE  IsFilter(str) <=>
              /\ IsTopicSize(str)
              /\ \A i \in Cuts(str) : i # Len(str) + 1 => LevelForm(str, i, NextCutOf(str, i))
<1>1. LevelsOf(str) = {[last |-> NextCutOf(str, i) = Len(str) + 1, level |-> LevelAfter(str, i)] :
                          i \in Cuts(str) \ {Len(str) + 1}}
    BY DEF LevelsOf, Cuts, NextCutOf, LevelAfter
<1> DEFINE Good(level, last) == \/ Plain(level) \/ level = <<"+">>
                                \/ level = <<"#">> /\ last
<1>2. (\A l \in LevelsOf(str) : Good(l.level, l.last))
        <=> \A i \in Cuts(str) \ {Len(str) + 1} :
               Good(LevelAfter(str, i), NextCutOf(str, i) = Len(str) + 1)
    <2> DEFINE End(i) == NextCutOf(str, i) = Len(str) + 1
               Of(i) == [last |-> End(i), level |-> LevelAfter(str, i)]
    <2>1. LevelsOf(str) = {Of(i) : i \in Cuts(str) \ {Len(str) + 1}}
        BY <1>1
    <2>2. ASSUME NEW i
          PROVE  Good(Of(i).level, Of(i).last) <=> Good(LevelAfter(str, i), End(i))
        <3> HIDE DEF Good, End
        <3>1. Of(i).level = LevelAfter(str, i) /\ Of(i).last = End(i)
            OBVIOUS
        <3> HIDE DEF Of
        <3> QED
            BY ZenonT(20), <3>1
    <2> HIDE DEF Good, End, Of
    <2>3. (\A l \in LevelsOf(str) : Good(l.level, l.last))
            <=> \A i \in Cuts(str) \ {Len(str) + 1} : Good(Of(i).level, Of(i).last)
        BY <2>1
    <2>4. (\A l \in LevelsOf(str) : Good(l.level, l.last))
            <=> \A i \in Cuts(str) \ {Len(str) + 1} : Good(LevelAfter(str, i), End(i))
        BY <2>2, <2>3
    <2> QED
        BY <2>4 DEF End
<1>3. IsFilter(str) <=> IsTopicSize(str) /\ \A l \in LevelsOf(str) : Good(l.level, l.last)
    BY DEF IsFilter
<1>4. ASSUME NEW i \in Cuts(str), i # Len(str) + 1
      PROVE  LevelForm(str, i, NextCutOf(str, i))
                <=> Good(LevelAfter(str, i), NextCutOf(str, i) = Len(str) + 1)
    BY <1>4, LevelInPlaces
<1> HIDE DEF Good
<1> QED
    BY <1>2, <1>3, <1>4

\* What the search character by character lets pass has whole levels.
LEMMA LevelsOfChecked ==
    ASSUME NEW str \in Text, FilterForm(str), NEW i \in Cuts(str), i # Len(str) + 1
    PROVE  LevelForm(str, i, NextCutOf(str, i))
<1> DEFINE n == Len(str)
           m == RestOf(str)
           a == NextCutOf(str, i)
<1>1. /\ n \in Nat /\ i \in Nat /\ a \in Nat /\ i < a /\ a <= n + 1
      /\ \A k \in Cuts(str) : k \in Nat /\ (k > i => a <= k)
      /\ \A k : k \in Cuts(str) <=> k = 0 \/ k = n + 1 \/ (k \in 1 .. n /\ str[k] = "/")
    BY CutPlaces, NextCut
<1>2. (m = n /\ (str = <<>> \/ str[n] # "#")) \/ (m = n - 1 /\ n # 0 /\ str[n] = "#")
    <2>1. str # <<>> => n # 0
        BY EmptySeq DEF Text
    <2> QED
        BY <2>1 DEF RestOf
<1>3. /\ m # n /\ m # 0 => str[m] = "/"
      /\ \A k \in 1 .. m : Ordinary(str[k]) \/ Single(str, k)
    BY DEF FilterForm
<1> HIDE DEF n, a
<1>4. SUFFICES ASSUME NEW k \in i + 1 .. a - 1, ~ Ordinary(str[k])
              PROVE  LevelForm(str, i, a)
    BY DEF LevelForm, a
<1>5. k \in 1 .. n /\ k \notin Cuts(str) /\ k \in Nat
    BY <1>1, Characters
<1>6. CASE k \in 1 .. m
    <2>1. str[k] = "+" /\ (k = m \/ str[k + 1] = "/") /\ (k = 1 \/ str[k - 1] = "/")
        BY <1>3, <1>4, <1>6 DEF Single
    <2>2. k - 1 \in Cuts(str)
        <3>1. CASE k = 1
            BY <1>1, <3>1
        <3>2. CASE k # 1
            <4>1. k - 1 \in 1 .. n
                BY <1>5, <1>1, <3>2
            <4> QED
                BY <1>1, <2>1, <3>2, <4>1
        <3> QED
            BY <3>1, <3>2
    <2>3. i = k - 1
        BY <1>1, <1>4, <2>2
    <2>4. k + 1 \in Cuts(str)
        <3>1. CASE k = m
            <4>1. m = n
                BY <1>2, <1>3, <1>6, <2>1, <3>1, Characters
            <4> QED
                BY <1>1, <3>1, <4>1
        <3>2. CASE k # m
            <4>1. k + 1 \in 1 .. n
                BY <1>1, <1>2, <1>6, <3>2
            <4> QED
                BY <1>1, <2>1, <3>2, <4>1
        <3> QED
            BY <3>1, <3>2
    <2>5. a = k + 1
        BY <1>1, <1>4, <2>4
    <2>6. a = i + 2 /\ i + 1 = k
        BY <1>5, <2>3, <2>5
    <2> QED
        BY <2>1, <2>6 DEF LevelForm
<1>7. CASE k \notin 1 .. m
    <2>1. k = n /\ m = n - 1 /\ str[n] = "#"
        BY <1>1, <1>2, <1>5, <1>7
    <2>2. a = n + 1
        BY <1>1, <1>4, <2>1
    <2>3. n - 1 \in Cuts(str)
        <3>1. CASE n = 1
            BY <1>1, <3>1
        <3>2. CASE n # 1
            <4>1. m # n /\ m # 0 /\ n - 1 \in 1 .. n
                BY <1>1, <1>5, <2>1, <3>2
            <4>2. str[n - 1] = "/"
                BY <1>3, <2>1, <4>1
            <4> QED
                BY <1>1, <4>1, <4>2
        <3> QED
            BY <3>1, <3>2
    <2>4. i = n - 1
        BY <1>1, <1>4, <1>5, <2>1, <2>2, <2>3
    <2>5. a = i + 2 /\ i + 1 = n /\ a = Len(str) + 1
        BY <1>1, <2>2, <2>4 DEF n
    <2> QED
        BY <2>1, <2>5 DEF LevelForm
<1> QED
    BY <1>6, <1>7

\* And what has whole levels passes.
LEMMA LevelsAreChecked ==
    ASSUME NEW str \in Text, IsTopicSize(str),
           \A i \in Cuts(str) : i # Len(str) + 1 => LevelForm(str, i, NextCutOf(str, i))
    PROVE  FilterForm(str)
<1> DEFINE n == Len(str)
           m == RestOf(str)
<1>1. /\ n \in Nat
      /\ \A k : k \in Cuts(str) <=> k = 0 \/ k = n + 1 \/ (k \in 1 .. n /\ str[k] = "/")
    BY CutPlaces
<1>2. (m = n /\ (str = <<>> \/ str[n] # "#")) \/ (m = n - 1 /\ n # 0 /\ str[n] = "#")
    <2>1. str # <<>> => n # 0
        BY EmptySeq DEF Text
    <2> QED
        BY <2>1 DEF RestOf
<1>3. ASSUME NEW k \in 1 .. n, ~ Ordinary(str[k])
      PROVE  /\ k - 1 \in Cuts(str) /\ k + 1 \in Cuts(str)
             /\ str[k] = "+" \/ (str[k] = "#" /\ k = n)
    <2>1. str[k] # "/"
        BY <1>3, Characters
    <2>2. PICK i \in Cuts(str) : i # n + 1 /\ i < k /\ k < NextCutOf(str, i)
        BY <1>3, <2>1, LevelAround
    <2> DEFINE a == NextCutOf(str, i)
    <2>3. a \in Cuts(str)
        BY <2>2, NextCut
    <2>4. LevelForm(str, i, a)
        BY <2>2
    <2>5. i \in Nat /\ a \in Nat /\ i < k /\ k < a
        BY <2>2, <2>3, CutPlaces
    <2> HIDE DEF a, n
    <2>6. k \in i + 1 .. a - 1
        BY <1>3, <2>5
    <2>7. a = i + 2 /\ (str[i + 1] = "+" \/ (str[i + 1] = "#" /\ a = n + 1))
        BY <1>3, <2>4, <2>6 DEF LevelForm, n
    <2>8. k = i + 1 /\ k - 1 = i /\ k + 1 = a
        BY <1>3, <2>5, <2>7
    <2>9. a = n + 1 => k = n
        BY <1>1, <1>3, <2>8
    <2> QED
        BY <2>2, <2>3, <2>7, <2>8, <2>9
<1> HIDE DEF n, m
<1>4. ASSUME m # n, m # 0 PROVE str[m] = "/"
    <2>1. m = n - 1 /\ n # 0 /\ str[n] = "#" /\ n \in 1 .. n
        BY <1>1, <1>2, <1>4
    <2>2. n - 1 \in Cuts(str)
        BY <1>3, <2>1, Characters
    <2>3. n - 1 # 0 /\ n - 1 # n + 1
        BY <1>1, <1>4, <2>1
    <2> QED
        BY <1>1, <2>1, <2>2, <2>3
<1>5. ASSUME NEW k \in 1 .. m, ~ Ordinary(str[k]) PROVE Single(str, k)
    <2>1. k \in 1 .. n /\ (k = n => k = m /\ str[n] # "#")
        <3>1. str = <<>> => n = 0
            BY EmptySeq DEF n
        <3>2. CASE m = n /\ (str = <<>> \/ str[n] # "#")
            <4>1. k \in 1 .. n
                BY <1>5, <3>2
            <4>2. str # <<>>
                BY <1>1, <3>1, <4>1
            <4> QED
                BY <3>2, <4>1, <4>2
        <3>3. CASE m = n - 1
            BY <1>1, <1>5, <3>3
        <3> QED
            BY <1>2, <3>2, <3>3
    <2>2. /\ k - 1 \in Cuts(str) /\ k + 1 \in Cuts(str)
          /\ str[k] = "+" \/ (str[k] = "#" /\ k = n)
        BY <1>3, <1>5, <2>1
    <2>3. str[k] = "+"
        BY <2>1, <2>2
    <2>4. k = 1 \/ str[k - 1] = "/"
        BY <1>1, <2>1, <2>2
    <2>5. k = m \/ str[k + 1] = "/"
        <3>1. CASE k = n
            BY <2>1, <3>1
        <3>2. CASE k # n
            BY <1>1, <2>1, <2>2, <3>2
        <3> QED
            BY <3>1, <3>2
    <2> QED
        BY <2>3, <2>4, <2>5 DEF Single, m
<1> QED
    BY <1>4, <1>5 DEF FilterForm, n, m

\* The checks let pass the filters that MQTT allows.
LEMMA FiltersHaveLevels ==
    ASSUME NEW str \in Text
    PROVE  ValidateTopicFilter(str) = "valid" <=> IsFilter(str)
<1>1. FilterForm(str) => IsTopicSize(str)
    BY DEF FilterForm
<1> QED
    BY <1>1, FilterInPlaces, LevelsInPlaces, LevelsOfChecked, LevelsAreChecked

\* What needs no wildcards is a filter all of whose characters are ordinary ones.
LEMMA NamesAreOrdinary ==
    ASSUME NEW str \in Text
    PROVE  FirstResult(str) = "valid" <=> \A i \in 1 .. Len(str) : Ordinary(str[i])
<1> DEFINE n == Len(str)
           odd == {i \in DOMAIN str : CharResult(str[i]) # "valid"}
           least == CHOOSE i \in odd : \A j \in odd : i <= j
<1>1. n \in Nat /\ DOMAIN str = 1 .. n
    BY LenProperties DEF Text
<1>2. FirstResult(str) = IF odd = {} THEN "valid" ELSE CharResult(str[least])
    BY DEF FirstResult
<1>3. odd = {} <=> \A i \in 1 .. n : Ordinary(str[i])
    BY <1>1 DEF Ordinary
<1>4. ASSUME odd # {} PROVE least \in odd
    <2>1. odd \in SUBSET Nat
        BY <1>1
    <2> HIDE DEF odd
    <2>2. Min(odd) \in odd /\ \A j \in odd : Min(odd) <= j
        BY <1>4, <2>1, MinOfNats
    <2> QED
        BY <2>2
<1>5. odd # {} => CharResult(str[least]) # "valid"
    <2>1. \A i \in odd : CharResult(str[i]) # "valid"
        OBVIOUS
    <2> HIDE DEF odd, least
    <2> QED
        BY <1>4, <2>1
<1> HIDE DEF odd, least
<1> QED
    BY <1>2, <1>3, <1>5

\* Ordinary characters make a filter.
LEMMA OrdinaryFilter ==
    ASSUME NEW str \in Text, IsTopicSize(str), \A i \in 1 .. Len(str) : Ordinary(str[i])
    PROVE  ValidateTopicFilter(str) = "valid"
<1>1. Len(str) \in Nat /\ Len(str) # 0
    BY LenProperties, EmptySeq DEF Text, IsTopicSize
<1>2. str[Len(str)] # "#"
    BY <1>1, Characters
<1>3. RestOf(str) = Len(str)
    BY <1>2 DEF RestOf
<1> QED
    BY <1>3, FilterInPlaces DEF FilterForm

\* A shared filter is a filter: the word, a slash, a name, a slash and a filter.
LEMMA SharedIsFilter ==
    ASSUME NEW str \in Text, NEW wildcards \in BOOLEAN,
           ValidateSharedTopicFilter(str, wildcards) = "valid"
    PROVE  /\ ValidateTopicFilter(str) = "valid"
           /\ ValidateSharedTopicFilter(str, TRUE) = "valid"
<1> DEFINE n == Len(str)
           named == SubSeq(str, 3, n)
           slashes == {i \in DOMAIN named : named[i] = "/"}
           end == CHOOSE i \in slashes : \A j \in slashes : i <= j
           name == SubSeq(named, 1, end - 1)
           filter == SubSeq(named, end + 1, Len(named))
           Result(w) == IF ~IsTopicSize(str) \/ ~IsShared(str) \/ slashes = {} THEN "invalid"
                        ELSE IF name = <<>> \/ FirstResult(name) # "valid" THEN "invalid"
                        ELSE IF w THEN ValidateTopicFilter(filter) ELSE ValidateTopicName(filter)
<1>1. \A w \in BOOLEAN : ValidateSharedTopicFilter(str, w) = Result(w)
    BY DEF ValidateSharedTopicFilter
<1>2. /\ IsTopicSize(str) /\ IsShared(str) /\ slashes # {}
      /\ FirstResult(name) = "valid"
      /\ ValidateTopicFilter(filter) = "valid" \/ ValidateTopicName(filter) = "valid"
    <2> HIDE DEF slashes, name, filter, n
    <2> QED
        BY <1>1
<1>3. n \in Nat /\ n >= 2 /\ DOMAIN str = 1 .. n /\ \A i \in 1 .. n : str[i] \in Alphabet
    BY <1>2, LenProperties, ElementOfSeq DEF IsShared, Text
<1>4. str[1] = "$share" /\ str[2] = "/"
    BY <1>2 DEF IsShared
<1> HIDE DEF n
<1>5. /\ named \in Text /\ Len(named) = n - 2 /\ DOMAIN named = 1 .. n - 2
      /\ \A i \in 1 .. n - 2 : named[i] = str[i + 2]
    <2>1. \A i \in 3 .. n : str[i] \in Alphabet
        BY <1>3
    <2>2. /\ named \in Seq(Alphabet) /\ Len(named) = IF 3 <= n THEN n - 3 + 1 ELSE 0
          /\ \A i \in 1 .. n - 3 + 1 : named[i] = str[3 + i - 1]
        BY <1>3, <2>1, SubSeqProperties
    <2> HIDE DEF named
    <2>3. Len(named) = n - 2 /\ DOMAIN named = 1 .. Len(named)
        BY <1>3, <2>2, LenProperties
    <2>4. ASSUME NEW i \in 1 .. n - 2 PROVE named[i] = str[i + 2]
        <3>1. i \in 1 .. n - 3 + 1 /\ 3 + i - 1 = i + 2
            BY <1>3
        <3> QED
            BY <2>2, <3>1
    <2> QED
        BY <2>2, <2>3, <2>4 DEF Text
<1> HIDE DEF named
<1>6. end \in slashes
    <2>1. slashes \in SUBSET Nat
        BY <1>3, <1>5
    <2> HIDE DEF slashes
    <2>2. Min(slashes) \in slashes /\ \A j \in slashes : Min(slashes) <= j
        BY <1>2, <2>1, MinOfNats
    <2> QED
        BY <2>2
<1>7. end \in 1 .. n - 2 /\ named[end] = "/"
    BY <1>5, <1>6
<1> HIDE DEF end, slashes
<1>8. /\ name \in Text /\ Len(name) = end - 1
      /\ \A i \in 1 .. end - 1 : name[i] = named[i]
    <2>1. \A i \in 1 .. end - 1 : named[i] \in Alphabet
        BY <1>3, <1>5, <1>7
    <2>2. /\ name \in Seq(Alphabet) /\ Len(name) = IF 1 <= end - 1 THEN (end - 1) - 1 + 1 ELSE 0
          /\ \A i \in 1 .. (end - 1) - 1 + 1 : name[i] = named[1 + i - 1]
        <3>1. 1 \in Int /\ end - 1 \in Int
            BY <1>3, <1>7
        <3> QED
            BY <2>1, <3>1, SubSeqProperties
    <2> HIDE DEF name
    <2> QED
        BY <1>3, <1>7, <2>2 DEF Text
<1>9. /\ filter \in Text /\ Len(filter) = n - 2 - end
      /\ \A i \in 1 .. n - 2 - end : filter[i] = named[end + i]
    <2>1. \A i \in end + 1 .. Len(named) : named[i] \in Alphabet
        BY <1>3, <1>5, <1>7
    <2>2. /\ filter \in Seq(Alphabet)
          /\ Len(filter) = IF end + 1 <= Len(named) THEN Len(named) - (end + 1) + 1 ELSE 0
          /\ \A i \in 1 .. Len(named) - (end + 1) + 1 : filter[i] = named[(end + 1) + i - 1]
        <3>1. end + 1 \in Int /\ Len(named) \in Int
            BY <1>3, <1>5, <1>7
        <3> QED
            BY <2>1, <3>1, SubSeqProperties
    <2> HIDE DEF filter
    <2>3. Len(filter) = n - 2 - end
        BY <1>3, <1>5, <1>7, <2>2
    <2>4. ASSUME NEW i \in 1 .. n - 2 - end PROVE filter[i] = named[end + i]
        <3>1. i \in 1 .. Len(named) - (end + 1) + 1 /\ (end + 1) + i - 1 = end + i
            BY <1>3, <1>5, <1>7
        <3> QED
            BY <2>2, <3>1
    <2> QED
        BY <2>2, <2>3, <2>4 DEF Text
<1> HIDE DEF name, filter
<1> DEFINE off == end + 2
           m == RestOf(str)
           f == RestOf(filter)
           k == Len(filter)
<1>10. ValidateTopicFilter(filter) = "valid"
    <2>1. CASE ValidateTopicName(filter) = "valid"
        <3>1. IsTopicSize(filter) /\ FirstResult(filter) = "valid"
            BY <2>1 DEF ValidateTopicName
        <3> QED
            BY <1>9, <3>1, NamesAreOrdinary, OrdinaryFilter
    <2> QED
        BY <1>2, <2>1
<1>11. /\ f # k /\ f # 0 => filter[f] = "/"
       /\ \A i \in 1 .. f : Ordinary(filter[i]) \/ Single(filter, i)
       /\ filter # <<>>
    BY <1>9, <1>10, FilterInPlaces DEF FilterForm, IsTopicSize
<1>12. /\ off \in Nat /\ off >= 3 /\ k \in Nat /\ k # 0 /\ n = off + k
       /\ str[off] = "/"
       /\ \A i \in 1 .. k : filter[i] = str[off + i]
    <2>1. k # 0
        BY <1>9, <1>11, EmptySeq DEF Text
    <2>2. str[off] = "/"
        BY <1>5, <1>7
    <2>3. ASSUME NEW i \in 1 .. k PROVE filter[i] = str[off + i]
        <3>1. i \in 1 .. n - 2 - end /\ end + i \in 1 .. n - 2 /\ (end + i) + 2 = off + i
            BY <1>3, <1>7, <1>9
        <3>2. named[end + i] = str[(end + i) + 2]
            BY <1>5, <3>1
        <3> QED
            BY <1>9, <3>1, <3>2
    <2>4. off \in Nat /\ off >= 3 /\ k \in Nat /\ n = off + k
        BY <1>3, <1>7, <1>9
    <2> QED
        BY <2>1, <2>2, <2>3, <2>4
<1>13. \A i \in 1 .. off : Ordinary(str[i])
    <2>1. \A i \in 1 .. end - 1 : Ordinary(name[i])
        BY <1>2, <1>8, NamesAreOrdinary
    <2>2. ASSUME NEW i \in 1 .. off, i # 1, i # 2, i # off
          PROVE  Ordinary(str[i])
        <3>1. i - 2 \in 1 .. end - 1 /\ i - 2 \in 1 .. n - 2 /\ (i - 2) + 2 = i
            BY <1>3, <1>7, <2>2
        <3>2. named[i - 2] = str[(i - 2) + 2] /\ name[i - 2] = named[i - 2]
            BY <1>5, <1>8, <3>1
        <3> QED
            BY <2>1, <3>1, <3>2
    <2> HIDE DEF off
    <2> QED
        BY <1>4, <1>12, <2>2, Characters
<1> HIDE DEF off, k
<1>14. /\ m = off + f /\ f \in 0 .. k
       /\ m # n <=> f # k
    <2>1. str # <<>> /\ filter # <<>> /\ str[n] = filter[k] /\ Len(str) = n /\ Len(filter) = k
        <3>1. str # <<>>
            BY <1>2 DEF IsTopicSize
        <3>2. k \in 1 .. k
            BY <1>12
        <3> QED
            BY <1>11, <1>12, <3>1, <3>2 DEF n, k
    <2>2. CASE str[n] = "#"
        <3>1. m = n - 1 /\ f = k - 1
            BY <2>1, <2>2 DEF RestOf
        <3> HIDE DEF m, f
        <3> QED
            BY <1>12, <3>1
    <2>3. CASE str[n] # "#"
        <3>1. m = n /\ f = k
            BY <2>1, <2>3 DEF RestOf
        <3> HIDE DEF m, f
        <3> QED
            BY <1>12, <3>1
    <2> QED
        BY <2>2, <2>3
<1>15. Len(str) = n /\ Len(filter) = k
    BY DEF n, k
<1> HIDE DEF f, m
<1>16. ASSUME m # n PROVE str[m] = "/"
    <2>1. CASE f = 0
        BY <1>12, <1>14, <2>1
    <2>2. CASE f # 0
        <3>1. f \in 1 .. k
            BY <1>12, <1>14, <2>2
        <3>2. f # k
            BY <1>14, <1>16
        <3>3. filter[f] = "/"
            BY <1>11, <2>2, <3>2
        <3> QED
            BY <1>12, <1>14, <3>1, <3>3
    <2> QED
        BY <2>1, <2>2
<1>17. ASSUME NEW i \in 1 .. m, ~ Ordinary(str[i]) PROVE Single(str, i)
    <2>1. i \notin 1 .. off
        BY <1>13, <1>17
    <2> DEFINE j == i - off
    <2>2. j \in 1 .. f /\ j \in 1 .. k /\ i = off + j
        <3>1. i \in 1 .. off + f
            BY <1>14, <1>17
        <3>2. off \in Nat /\ f \in 0 .. k /\ k \in Nat
            BY <1>12, <1>14
        <3> QED
            BY <2>1, <3>1, <3>2
    <2> HIDE DEF j
    <2>3. filter[j] = str[i]
        BY <1>12, <2>2
    <2>4. Single(filter, j)
        BY <1>11, <1>17, <2>2, <2>3
    <2>5. filter[j] = "+" /\ (j = f \/ filter[j + 1] = "/") /\ (j = 1 \/ filter[j - 1] = "/")
        BY <2>4 DEF Single, f
    <2>6. i = m \/ str[i + 1] = "/"
        <3>1. CASE j = f
            BY <1>14, <2>2, <3>1
        <3>2. CASE j # f
            <4>1. j + 1 \in 1 .. k /\ i + 1 = off + (j + 1)
                BY <1>12, <1>14, <2>2, <3>2
            <4> QED
                BY <1>12, <2>5, <3>2, <4>1
        <3> QED
            BY <3>1, <3>2
    <2>7. str[i - 1] = "/"
        <3>1. CASE j = 1
            <4>1. i - 1 = off
                BY <1>12, <2>2, <3>1
            <4> QED
                BY <1>12, <4>1
        <3>2. CASE j # 1
            <4>1. j - 1 \in 1 .. k /\ i - 1 = off + (j - 1)
                BY <1>12, <2>2, <3>2
            <4> QED
                BY <1>12, <2>5, <3>2, <4>1
        <3> QED
            BY <3>1, <3>2
    <2> QED
        BY <2>3, <2>5, <2>6, <2>7 DEF Single, m
<1>18. FilterForm(str)
    BY <1>2, <1>15, <1>16, <1>17 DEF FilterForm, m
<1>19. ValidateTopicFilter(str) = "valid"
    BY <1>18, FilterInPlaces
<1>20. Result(TRUE) = "valid"
    BY <1>1, <1>2, <1>10
<1> QED
    BY <1>1, <1>19, <1>20

\* The results of the checks are those listed.
LEMMA FilterResults == \A str : ValidateTopicFilter(str) \in {"valid", "invalid"}
BY DEF ValidateTopicFilter

LEMMA Unsubscribable ==
    ASSUME NEW str \in Text, NEW wildcards \in BOOLEAN, NEW shared \in BOOLEAN,
           SubscribeResult(str, wildcards, shared) = "success"
    PROVE  /\ UnsubscribeResult(str) = "success"
           /\ SubscribeResult(str, TRUE, TRUE) = "success"
<1>1. CASE IsShared(str)
    <2> DEFINE result == ValidateSharedTopicFilter(str, wildcards)
    <2>1. result # "invalid" /\ (~ wildcards => result = "valid")
        <3> HIDE DEF result
        <3>1. SubscribeResult(str, wildcards, shared) =
                 IF ~ shared THEN "shared_subscription_not_available"
                 ELSE IF result = "invalid" THEN "invalid_topic"
                 ELSE IF ~wildcards /\ result # "valid" THEN "wildcard_subscription_not_available"
                 ELSE "success"
            BY <1>1 DEF SubscribeResult, result
        <3> QED
            BY <3>1
    <2>2. wildcards => result \in {"valid", "invalid"}
        BY FilterResults DEF ValidateSharedTopicFilter
    <2>3. result = "valid"
        <3> HIDE DEF result
        <3> QED
            BY <2>1, <2>2
    <2>4. ValidateTopicFilter(str) = "valid" /\ ValidateSharedTopicFilter(str, TRUE) = "valid"
        BY <2>3, SharedIsFilter
    <2> QED
        BY <1>1, <2>4 DEF UnsubscribeResult, SubscribeResult
<1>2. CASE ~ IsShared(str)
    <2>1. CASE wildcards
        <3>1. ValidateTopicFilter(str) # "invalid"
            BY <1>2, <2>1 DEF SubscribeResult
        <3>2. ValidateTopicFilter(str) = "valid"
            BY <3>1, FilterResults
        <3> QED
            BY <1>2, <3>2 DEF UnsubscribeResult, SubscribeResult
    <2>2. CASE ~ wildcards
        <3>1. ValidateTopicName(str) = "valid"
            BY <1>2, <2>2 DEF SubscribeResult
        <3>2. IsTopicSize(str) /\ FirstResult(str) = "valid"
            BY <3>1 DEF ValidateTopicName
        <3>3. ValidateTopicFilter(str) = "valid"
            BY <3>2, NamesAreOrdinary, OrdinaryFilter
        <3> QED
            BY <1>2, <3>3 DEF UnsubscribeResult, SubscribeResult
    <2> QED
        BY <2>1, <2>2
<1> QED
    BY <1>1, <1>2

\* The checks of topic filters agree with MQTT and with each other, for every text and
\* any characters: what passes has whole levels and no other wildcards, and whatever can
\* be subscribed to can be unsubscribed from.
THEOREM TopicsAreChecked == TopicsSpec => []TopicsChecked
<1>1. TopicsInit => text \in Text
    BY EmptySeq DEF TopicsInit, Text
<1>2. text \in Text /\ [TopicsNext]_text => (text \in Text)'
    <2>1. ASSUME text \in Text, NEW c \in Alphabet
          PROVE  Append(text, c) \in Text
        BY <2>1, AppendProperties DEF Text
    <2>2. Text' = Text
        BY DEF Text
    <2> QED
        BY <2>1, <2>2 DEF TopicsNext
<1>3. text \in Text => TopicsChecked
    BY FiltersHaveLevels, Unsubscribable DEF TopicsChecked, FiltersAreLevels, CanUnsubscribe
<1> QED
    BY <1>1, <1>2, <1>3, PTL DEF TopicsSpec

-----------------------------------------------------------------------------
(* Framing *)

Bytes == Seq(Nat)

\* The length that the first k digits of s say.
Said(s, k) ==
    LET D(i) == IF i <= k THEN s[i] % Radix ELSE 0
    IN  D(1) + Radix * (D(2) + Radix * (D(3) + Radix * D(4)))

\* Digits of s to the k-th one, which is the last.
EndsAt(s, k) ==
    /\ k \in 1 .. MaxDigits /\ k <= Len(s) /\ s[k] < Radix
    /\ \A j \in 1 .. k - 1 : ~ (s[j] < Radix)

\* What is said is a length, and depends on the digits to the last one only.
LEMMA SaidProperties ==
    ASSUME NEW s \in Bytes, NEW k \in 1 .. MaxDigits, k <= Len(s)
    PROVE  /\ Said(s, k) \in Nat
           /\ \A r \in Bytes : (\A j \in 1 .. k : r[j] = s[j]) => Said(r, k) = Said(s, k)
<1> DEFINE D(r, i) == IF i <= k THEN r[i] % Radix ELSE 0
<1>1. Len(s) \in Nat /\ k \in Nat /\ Radix \in Nat /\ Radix # 0 /\ \A i \in 1 .. Len(s) : s[i] \in Nat
    BY VarintAssumption, LenProperties, ElementOfSeq DEF Bytes, MaxDigits
<1>2. ASSUME NEW i \in 1 .. 4
      PROVE  D(s, i) \in Nat
    <2>1. CASE i <= k
        <3>1. s[i] \in Nat
            BY <1>1, <2>1
        <3>2. s[i] % Radix \in Nat
            BY <1>1, <3>1
        <3> QED
            BY <2>1, <3>2
    <2>2. CASE ~ (i <= k)
        BY <2>2
    <2> QED
        BY <2>1, <2>2
<1>3. \A r : Said(r, k) = D(r, 1) + Radix * (D(r, 2) + Radix * (D(r, 3) + Radix * D(r, 4)))
    BY DEF Said
<1>4. D(s, 1) \in Nat /\ D(s, 2) \in Nat /\ D(s, 3) \in Nat /\ D(s, 4) \in Nat
    BY <1>2
<1>5. ASSUME NEW a \in Nat, NEW b \in Nat
      PROVE  a + Radix * b \in Nat
    BY <1>1
<1>6. ASSUME NEW r \in Bytes, \A j \in 1 .. k : r[j] = s[j], NEW i \in 1 .. 4
      PROVE  D(r, i) = D(s, i)
    BY <1>1, <1>6
<1> HIDE DEF D
<1>7. Said(s, k) \in Nat
    <2>1. D(s, 3) + Radix * D(s, 4) \in Nat
        BY <1>4, <1>5
    <2>2. D(s, 2) + Radix * (D(s, 3) + Radix * D(s, 4)) \in Nat
        BY <1>4, <1>5, <2>1
    <2> QED
        BY <1>3, <1>4, <1>5, <2>2
<1>8. ASSUME NEW r \in Bytes, \A j \in 1 .. k : r[j] = s[j]
      PROVE  Said(r, k) = Said(s, k)
    <2>1. D(r, 1) = D(s, 1) /\ D(r, 2) = D(s, 2) /\ D(r, 3) = D(s, 3) /\ D(r, 4) = D(s, 4)
        BY <1>6, <1>8
    <2> QED
        BY <1>3, <2>1
<1> QED
    BY <1>7, <1>8

\* The parser in places: what it says and how much it leaves.
LEMMA Parsed ==
    ASSUME NEW s \in Bytes
    PROVE  /\ \A k : EndsAt(s, k) => /\ ParseVarint(s).ok /\ ParseVarint(s).value = Said(s, k)
                                     /\ Len(ParseVarint(s).rest) = Len(s) - k
           /\ ParseVarint(s).ok <=> \E k : EndsAt(s, k)
           /\ ParseVarint(s).ok \in BOOLEAN
           /\ ~ ParseVarint(s).ok => \A i \in 1 .. MaxDigits : i <= Len(s) => ~ (s[i] < Radix)
<1> DEFINE ends == {i \in 1 .. MaxDigits : i <= Len(s) /\ s[i] < Radix}
           last == Min(ends)
           p == ParseVarint(s)
<1>1. p = IF ends = {} THEN Nothing
          ELSE [ok |-> TRUE, value |-> Said(s, last), rest |-> SubSeq(s, last + 1, Len(s))]
    BY DEF ParseVarint, Said
<1>2. Len(s) \in Nat /\ \A i \in 1 .. Len(s) : s[i] \in Nat
    BY LenProperties, ElementOfSeq DEF Bytes
<1>3. ends \in SUBSET Nat
    BY DEF MaxDigits
<1>4. \A i : i \in ends <=> i \in 1 .. MaxDigits /\ i <= Len(s) /\ s[i] < Radix
    OBVIOUS
<1> HIDE DEF ends
<1>5. ends # {} => last \in ends /\ \A j \in ends : last <= j
    BY <1>3, MinOfNats
<1>6. ASSUME NEW k, EndsAt(s, k)
      PROVE  ends # {} /\ last = k
    <2>1. k \in ends /\ k \in Nat /\ k <= Len(s)
        BY <1>3, <1>4, <1>6 DEF EndsAt
    <2>2. last \in ends /\ last <= k /\ last \in Nat
        BY <1>3, <1>5, <2>1
    <2>3. ~ (last < k)
        <3>1. SUFFICES ASSUME last < k PROVE FALSE
            OBVIOUS
        <3> HIDE DEF last
        <3>2. last \in 1 .. k - 1
            BY <1>4, <2>1, <2>2, <3>1 DEF MaxDigits
        <3> QED
            BY <1>4, <1>6, <2>2, <3>2 DEF EndsAt
    <2> HIDE DEF last
    <2> QED
        BY <2>1, <2>2, <2>3
<1>7. ASSUME NEW k, EndsAt(s, k)
      PROVE  p.ok = TRUE /\ p.value = Said(s, k) /\ Len(p.rest) = Len(s) - k
    <2>1. p = [ok |-> TRUE, value |-> Said(s, k), rest |-> SubSeq(s, k + 1, Len(s))]
        BY <1>1, <1>6, <1>7
    <2>2. k \in Nat /\ k <= Len(s)
        BY <1>7 DEF EndsAt, MaxDigits
    <2>3. Len(SubSeq(s, k + 1, Len(s))) = Len(s) - k
        <3>1. \A i \in k + 1 .. Len(s) : s[i] \in Nat
            BY <1>2, <2>2
        <3>2. k + 1 \in Int /\ Len(s) \in Int
            BY <1>2, <2>2
        <3>3. Len(SubSeq(s, k + 1, Len(s))) = IF k + 1 <= Len(s) THEN Len(s) - (k + 1) + 1 ELSE 0
            BY <3>1, <3>2, SubSeqProperties
        <3> QED
            BY <1>2, <2>2, <3>3
    <2> HIDE DEF p
    <2>4. p.ok = TRUE /\ p.value = Said(s, k) /\ p.rest = SubSeq(s, k + 1, Len(s))
        BY <2>1
    <2> QED
        BY <2>3, <2>4
<1>8. ASSUME ends # {} PROVE EndsAt(s, last)
    <2>1. last \in ends /\ last \in 1 .. MaxDigits /\ last <= Len(s) /\ s[last] < Radix
        BY <1>4, <1>5, <1>8
    <2>2. ASSUME NEW j \in 1 .. last - 1 PROVE ~ (s[j] < Radix)
        <3>1. j \in 1 .. MaxDigits /\ j <= Len(s) /\ ~ (last <= j)
            BY <1>2, <2>1 DEF MaxDigits
        <3> QED
            BY <1>4, <1>5, <1>8, <3>1
    <2> HIDE DEF last
    <2> QED
        BY <2>1, <2>2 DEF EndsAt
<1>9. ends = {} => p.ok = FALSE
    BY <1>1 DEF Nothing
<1>10. ends = {} => \A i \in 1 .. MaxDigits : i <= Len(s) => ~ (s[i] < Radix)
    BY <1>4
<1> QED
    BY <1>6, <1>7, <1>8, <1>9, <1>10

\* Two texts, of which one goes on longer, and a whole packet that the longer begins with.
\* What is said of the length of one holds of the other.
LEMMA SaysItsLength ==
    ASSUME NEW b \in Bytes, NEW f \in Bytes, b # <<>>, f # <<>>, Whole(f),
           \A i : i \in 1 .. Len(b) /\ i \in 1 .. Len(f) => b[i] = f[i],
           ParseVarint(Tail(b)).ok
    PROVE  /\ ParseVarint(Tail(b)).value \in Nat
           /\ Len(b) - Len(ParseVarint(Tail(b)).rest) \in 2 .. 1 + MaxDigits
           /\ Len(b) - Len(ParseVarint(Tail(b)).rest) + ParseVarint(Tail(b)).value = Len(f)
<1> DEFINE s == Tail(b)
           r == Tail(f)
           p == ParseVarint(s)
           q == ParseVarint(r)
<1>1. /\ s \in Bytes /\ Len(b) \in Nat /\ Len(b) # 0 /\ Len(s) = Len(b) - 1
      /\ \A i \in 1 .. Len(b) - 1 : s[i] = b[i + 1]
    <2>1. b \in Seq(Nat) /\ Len(b) \in Nat /\ Len(b) # 0
        BY LenProperties, EmptySeq DEF Bytes
    <2>2. Tail(b) \in Seq(Nat) /\ Len(Tail(b)) = Len(b) - 1
          /\ \A i \in 1 .. Len(Tail(b)) : Tail(b)[i] = b[i + 1]
        BY <2>1, HeadTailProperties
    <2> QED
        BY <2>1, <2>2 DEF Bytes
<1>2. /\ r \in Bytes /\ Len(f) \in Nat /\ Len(f) # 0 /\ Len(r) = Len(f) - 1
      /\ \A i \in 1 .. Len(f) - 1 : r[i] = f[i + 1]
    <2>1. f \in Seq(Nat) /\ Len(f) \in Nat /\ Len(f) # 0
        BY LenProperties, EmptySeq DEF Bytes
    <2>2. Tail(f) \in Seq(Nat) /\ Len(Tail(f)) = Len(f) - 1
          /\ \A i \in 1 .. Len(Tail(f)) : Tail(f)[i] = f[i + 1]
        BY <2>1, HeadTailProperties
    <2> QED
        BY <2>1, <2>2 DEF Bytes
<1>3. IF q.ok THEN Len(q.rest) = q.value ELSE Len(f) > MaxDigits
    BY DEF Whole
<1> HIDE DEF s, r
<1>4. ASSUME NEW i, i \in 1 .. Len(b) - 1, i \in 1 .. Len(f) - 1
      PROVE  s[i] = r[i]
    <2>1. i + 1 \in 1 .. Len(b) /\ i + 1 \in 1 .. Len(f)
        BY <1>1, <1>2, <1>4
    <2> QED
        BY <1>1, <1>2, <1>4, <2>1
<1>5. PICK k : EndsAt(s, k)
    <2>1. p.ok
        BY DEF s
    <2> QED
        BY <1>1, <2>1, Parsed
<1>6. /\ k \in 1 .. MaxDigits /\ k \in 1 .. Len(b) - 1 /\ s[k] < Radix
      /\ \A j \in 1 .. k - 1 : ~ (s[j] < Radix)
      /\ MaxDigits = 4 /\ k \in Nat
    BY <1>1, <1>5 DEF EndsAt, MaxDigits
<1>7. p.value = Said(s, k) /\ Len(p.rest) = Len(b) - 1 - k
    BY <1>1, <1>5, Parsed
<1>8. k \in 1 .. Len(f) - 1
    <2>1. SUFFICES ASSUME ~ (k <= Len(f) - 1) PROVE FALSE
        BY <1>2, <1>6
    <2>2. ASSUME NEW n, EndsAt(r, n) PROVE FALSE
        <3>1. n \in 1 .. MaxDigits /\ n <= Len(f) - 1 /\ r[n] < Radix
            BY <1>2, <2>2 DEF EndsAt
        <3>2. n \in 1 .. Len(f) - 1 /\ n \in 1 .. Len(b) - 1 /\ n \in 1 .. k - 1
            BY <1>1, <1>2, <1>6, <2>1, <3>1
        <3>3. s[n] = r[n]
            BY <1>4, <3>2
        <3> QED
            BY <1>6, <3>1, <3>2, <3>3
    <2>3. ~ q.ok
        BY <1>2, <2>2, Parsed
    <2>4. Len(f) > MaxDigits
        BY <1>3, <2>3
    <2> QED
        BY <1>2, <1>6, <2>1, <2>4
<1>9. EndsAt(r, k)
    <2>1. \A j \in 1 .. k : s[j] = r[j]
        <3>1. \A j \in 1 .. k : j \in 1 .. Len(b) - 1 /\ j \in 1 .. Len(f) - 1
            BY <1>1, <1>2, <1>6, <1>8
        <3> QED
            BY <1>4, <3>1
    <2>2. \A j \in 1 .. k - 1 : j \in 1 .. k
        BY <1>6
    <2> QED
        BY <1>2, <1>6, <1>8, <2>1, <2>2 DEF EndsAt
<1>10. q.ok /\ q.value = Said(r, k) /\ Len(q.rest) = Len(f) - 1 - k
    BY <1>2, <1>9, Parsed
<1>11. Said(r, k) = Said(s, k) /\ Said(s, k) \in Nat
    <2>1. k <= Len(s)
        BY <1>1, <1>6
    <2>2. \A j \in 1 .. k : j \in 1 .. Len(b) - 1 /\ j \in 1 .. Len(f) - 1
        BY <1>1, <1>2, <1>6, <1>8
    <2>3. \A j \in 1 .. k : r[j] = s[j]
        BY <1>4, <2>2
    <2> QED
        BY <1>1, <1>2, <1>6, <2>1, <2>3, SaidProperties
<1>12. Len(f) - 1 - k = Said(s, k)
    BY <1>3, <1>10, <1>11
<1>13. Len(b) - Len(p.rest) = k + 1
    BY <1>1, <1>6, <1>7
<1> HIDE DEF p, q
<1>14. p.value \in Nat /\ Len(b) - Len(p.rest) \in 2 .. 1 + MaxDigits
       /\ Len(b) - Len(p.rest) + p.value = Len(f)
    <2>1. p.value = Len(f) - 1 - k /\ p.value \in Nat
        BY <1>7, <1>11, <1>12
    <2>2. k + 1 \in 2 .. 1 + MaxDigits /\ k + 1 + p.value = Len(f)
        BY <1>2, <1>6, <2>1
    <2> QED
        BY <1>13, <2>1, <2>2
<1> QED
    BY <1>14 DEF p, s

\* What is said of the length is a number after one to four digits.
LEMMA LengthRead ==
    ASSUME NEW b \in Bytes, b # <<>>, ParseVarint(Tail(b)).ok
    PROVE  /\ ParseVarint(Tail(b)).value \in Nat
           /\ Len(b) - Len(ParseVarint(Tail(b)).rest) \in 2 .. 1 + MaxDigits
<1> DEFINE s == Tail(b)
           p == ParseVarint(s)
<1>1. s \in Bytes /\ Len(b) \in Nat /\ Len(s) = Len(b) - 1
    <2>1. b \in Seq(Nat) /\ Len(b) \in Nat
        BY LenProperties DEF Bytes
    <2>2. Tail(b) \in Seq(Nat) /\ Len(Tail(b)) = Len(b) - 1
        BY <2>1, HeadTailProperties
    <2> QED
        BY <2>1, <2>2 DEF Bytes
<1> HIDE DEF s
<1>2. PICK k : EndsAt(s, k)
    <2>1. p.ok
        BY DEF s
    <2> QED
        BY <1>1, <2>1, Parsed
<1>3. k \in 1 .. MaxDigits /\ k <= Len(s) /\ MaxDigits = 4
    BY <1>2 DEF EndsAt, MaxDigits
<1>4. p.value = Said(s, k) /\ Len(p.rest) = Len(s) - k
    BY <1>1, <1>2, Parsed
<1>5. Said(s, k) \in Nat
    BY <1>1, <1>3, SaidProperties
<1> HIDE DEF p
<1>6. p.value \in Nat /\ Len(b) - Len(p.rest) \in 2 .. 1 + MaxDigits
    <2>1. Len(b) - Len(p.rest) = k + 1
        BY <1>1, <1>3, <1>4
    <2> QED
        BY <1>3, <1>4, <1>5, <2>1
<1> QED
    BY <1>6 DEF p, s

\* Two ways to cut a text agree on what is before both cuts, and where one part ends
\* before the other the rest begins with the rest of that one.
LEMMA TwoCuts ==
    ASSUME NEW b \in Bytes, NEW w \in Bytes, NEW f \in Bytes, NEW t \in Bytes, b \o w = f \o t
    PROVE  /\ \A i : i \in 1 .. Len(b) /\ i \in 1 .. Len(f) => b[i] = f[i]
           /\ Len(f) <= Len(b) => /\ SubSeq(b, 1, Len(f)) = f
                                  /\ SubSeq(b, Len(f) + 1, Len(b)) \in Bytes
                                  /\ SubSeq(b, Len(f) + 1, Len(b)) \o w = t
<1> DEFINE m == Len(b)
           n == Len(f)
           k == Len(w)
           o == Len(t)
           u == b \o w
<1>1. /\ m \in Nat /\ n \in Nat /\ k \in Nat /\ o \in Nat
      /\ b \in Seq(Nat) /\ w \in Seq(Nat) /\ f \in Seq(Nat) /\ t \in Seq(Nat)
      /\ \A i \in 1 .. m : b[i] \in Nat
    BY LenProperties, ElementOfSeq DEF Bytes
<1>2. /\ Len(u) = m + k
      /\ \A i \in 1 .. m + k : u[i] = IF i <= m THEN b[i] ELSE w[i - m]
    BY <1>1, ConcatProperties
<1>3. /\ Len(f \o t) = n + o
      /\ \A i \in 1 .. n + o : (f \o t)[i] = IF i <= n THEN f[i] ELSE t[i - n]
    BY <1>1, ConcatProperties
<1>4. u = f \o t
    OBVIOUS
<1> HIDE DEF m, n, k, o, u
<1>5. m + k = n + o
    BY <1>2, <1>3, <1>4
<1>6. \A i \in 1 .. n + o : u[i] = IF i <= n THEN f[i] ELSE t[i - n]
    BY <1>3, <1>4
<1>7. ASSUME NEW i, i \in 1 .. m, i \in 1 .. n
      PROVE  b[i] = f[i]
    <2>1. i \in 1 .. m + k /\ i \in 1 .. n + o /\ i <= m /\ i <= n
        BY <1>1, <1>7
    <2> QED
        BY <1>2, <1>6, <2>1
<1>8. ASSUME n <= m
      PROVE  SubSeq(b, 1, n) = f /\ SubSeq(b, n + 1, m) \in Bytes /\ SubSeq(b, n + 1, m) \o w = t
    <2> DEFINE c == SubSeq(b, 1, n)
               d == SubSeq(b, n + 1, m)
    <2>1. /\ c \in Seq(Nat) /\ Len(c) = IF 1 <= n THEN n - 1 + 1 ELSE 0
          /\ \A i \in 1 .. n - 1 + 1 : c[i] = b[1 + i - 1]
        <3>1. \A i \in 1 .. n : b[i] \in Nat
            BY <1>1, <1>8
        <3>2. 1 \in Int /\ n \in Int
            BY <1>1
        <3> QED
            BY <3>1, <3>2, SubSeqProperties
    <2>2. /\ d \in Seq(Nat) /\ Len(d) = IF n + 1 <= m THEN m - (n + 1) + 1 ELSE 0
          /\ \A i \in 1 .. m - (n + 1) + 1 : d[i] = b[(n + 1) + i - 1]
        <3>1. \A i \in n + 1 .. m : b[i] \in Nat
            BY <1>1, <1>8
        <3>2. n + 1 \in Int /\ m \in Int
            BY <1>1
        <3> QED
            BY <3>1, <3>2, SubSeqProperties
    <2> HIDE DEF c, d
    <2>3. Len(c) = n /\ \A i \in 1 .. n : c[i] = b[i]
        BY <1>1, <2>1
    <2>4. Len(d) = m - n /\ \A i \in 1 .. m - n : d[i] = b[n + i]
        <3>1. Len(d) = m - n
            BY <1>1, <1>8, <2>2
        <3>2. ASSUME NEW i \in 1 .. m - n PROVE d[i] = b[n + i]
            <4>1. i \in 1 .. m - (n + 1) + 1 /\ (n + 1) + i - 1 = n + i
                BY <1>1
            <4> QED
                BY <2>2, <4>1
        <3> QED
            BY <3>1, <3>2
    <2>5. c = f
        <3>1. \A i \in 1 .. n : i \in 1 .. m
            BY <1>1, <1>8
        <3>2. \A i \in 1 .. Len(c) : c[i] = f[i]
            BY <1>7, <2>3, <3>1
        <3>3. Len(c) = Len(f)
            BY <2>3 DEF n
        <3> QED
            BY <1>1, <2>1, <3>2, <3>3, SeqEqual
    <2> DEFINE e == d \o w
    <2>6. /\ e \in Seq(Nat) /\ Len(e) = Len(d) + Len(w)
          /\ \A i \in 1 .. Len(d) + Len(w) : e[i] = IF i <= Len(d) THEN d[i] ELSE w[i - Len(d)]
        BY <1>1, <2>2, ConcatProperties
    <2> HIDE DEF e
    <2>7. /\ e \in Seq(Nat) /\ Len(e) = o
          /\ \A i \in 1 .. o : e[i] = IF i <= m - n THEN d[i] ELSE w[i - (m - n)]
        <3>1. Len(d) + Len(w) = o
            BY <1>1, <1>5, <2>4 DEF k
        <3> QED
            BY <2>4, <2>6, <3>1
    <2>8. ASSUME NEW i \in 1 .. o PROVE e[i] = t[i]
        <3>1. n + i \in 1 .. n + o /\ n + i \in 1 .. m + k /\ ~ (n + i <= n) /\ (n + i) - n = i
            BY <1>1, <1>5
        <3>2. u[n + i] = t[i]
            BY <1>6, <3>1
        <3>3. CASE i <= m - n
            <4>1. i \in 1 .. m - n /\ n + i <= m
                BY <1>1, <3>3
            <4> QED
                BY <1>2, <2>4, <2>7, <3>1, <3>2, <4>1
        <3>4. CASE ~ (i <= m - n)
            <4>1. ~ (n + i <= m) /\ (n + i) - m = i - (m - n)
                BY <1>1, <3>4
            <4>2. u[n + i] = w[(n + i) - m]
                BY <1>2, <3>1, <4>1
            <4>3. e[i] = w[i - (m - n)]
                BY <2>7, <3>4
            <4> QED
                BY <3>2, <4>1, <4>2, <4>3
        <3> QED
            BY <3>3, <3>4
    <2>9. e = t
        <3>1. Len(e) = Len(t) /\ \A i \in 1 .. Len(e) : e[i] = t[i]
            BY <2>7, <2>8 DEF o
        <3> QED
            BY <1>1, <2>7, <3>1, SeqEqual
    <2> QED
        BY <2>2, <2>5, <2>9 DEF c, d, e, Bytes
<1> QED
    BY <1>7, <1>8 DEF m, n

\* A text whose beginning is taken off: what is left goes on as the other one does.
CutThere(b, w, f, t) ==
    /\ SubSeq(b, 1, Len(f)) = f
    /\ SubSeq(b, Len(f) + 1, Len(b)) \in Bytes
    /\ SubSeq(b, Len(f) + 1, Len(b)) \o w = t

\* The second part of that, for a cut that is known to be in the text.
LEMMA CutAgain ==
    ASSUME NEW b \in Bytes, NEW w \in Bytes, NEW f \in Bytes, NEW t \in Bytes,
           b \o w = f \o t, Len(f) <= Len(b)
    PROVE  CutThere(b, w, f, t)
    BY TwoCuts DEF CutThere

\* What is not handled of a list, when one more is and when one more comes.
LEMMA PendingFrames ==
    ASSUME NEW st \in Seq(Bytes), NEW k \in Nat, k <= Len(st)
    PROVE  /\ SubSeq(st, k + 1, Len(st)) \in Seq(Bytes)
           /\ \A f \in Bytes : SubSeq(Append(st, f), k + 1, Len(Append(st, f)))
                                  = Append(SubSeq(st, k + 1, Len(st)), f)
           /\ SubSeq(st, k + 1, Len(st)) # <<>> =>
                 /\ k + 1 <= Len(st)
                 /\ SubSeq(st, k + 1, Len(st))[1] = st[k + 1]
                 /\ Tail(SubSeq(st, k + 1, Len(st))) = SubSeq(st, k + 2, Len(st))
<1> DEFINE n == Len(st)
           p == SubSeq(st, k + 1, n)
<1>1. n \in Nat /\ \A i \in 1 .. n : st[i] \in Bytes
    BY LenProperties, ElementOfSeq
<1> HIDE DEF n
<1>2. ASSUME NEW i \in Nat, i <= n
      PROVE  /\ SubSeq(st, i + 1, n) \in Seq(Bytes) /\ Len(SubSeq(st, i + 1, n)) = n - i
             /\ \A j \in 1 .. n - i : SubSeq(st, i + 1, n)[j] = st[i + j]
    <2> DEFINE c == SubSeq(st, i + 1, n)
    <2>1. /\ c \in Seq(Bytes) /\ Len(c) = IF i + 1 <= n THEN n - (i + 1) + 1 ELSE 0
          /\ \A j \in 1 .. n - (i + 1) + 1 : c[j] = st[(i + 1) + j - 1]
        <3>1. \A j \in i + 1 .. n : st[j] \in Bytes
            BY <1>1
        <3>2. i + 1 \in Int /\ n \in Int
            BY <1>1
        <3> QED
            BY <3>1, <3>2, SubSeqProperties
    <2> HIDE DEF c
    <2>2. Len(c) = n - i
        BY <1>1, <1>2, <2>1
    <2>3. ASSUME NEW j \in 1 .. n - i PROVE c[j] = st[i + j]
        <3>1. j \in 1 .. n - (i + 1) + 1 /\ (i + 1) + j - 1 = i + j
            BY <1>1, <1>2
        <3> QED
            BY <2>1, <3>1
    <2> QED
        BY <2>1, <2>2, <2>3 DEF c
<1>3. k \in Nat /\ k <= n
    BY DEF n
<1>4. p \in Seq(Bytes) /\ Len(p) = n - k /\ \A j \in 1 .. n - k : p[j] = st[k + j]
    BY <1>2, <1>3
<1> HIDE DEF p
<1>5. ASSUME NEW f \in Bytes
      PROVE  SubSeq(Append(st, f), k + 1, Len(Append(st, f))) = Append(p, f)
    <2> DEFINE a == Append(st, f)
               c == SubSeq(a, k + 1, n + 1)
               d == Append(p, f)
    <2>1. a \in Seq(Bytes) /\ Len(a) = n + 1 /\ (\A i \in 1 .. n : a[i] = st[i]) /\ a[n + 1] = f
        BY AppendProperties DEF n
    <2>2. d \in Seq(Bytes) /\ Len(d) = Len(p) + 1 /\ (\A i \in 1 .. Len(p) : d[i] = p[i]) /\ d[Len(p) + 1] = f
        BY <1>4, AppendProperties
    <2> HIDE DEF a, d
    <2>3. /\ c \in Seq(Bytes) /\ Len(c) = IF k + 1 <= n + 1 THEN (n + 1) - (k + 1) + 1 ELSE 0
          /\ \A j \in 1 .. (n + 1) - (k + 1) + 1 : c[j] = a[(k + 1) + j - 1]
        <3>1. \A j \in k + 1 .. n + 1 : a[j] \in Bytes
            <4>1. \A j \in k + 1 .. n + 1 : j \in 1 .. n \/ j = n + 1
                BY <1>1, <1>3
            <4> QED
                BY <1>1, <2>1, <4>1
        <3>2. k + 1 \in Int /\ n + 1 \in Int
            BY <1>1
        <3> QED
            BY <3>1, <3>2, SubSeqProperties
    <2> HIDE DEF c
    <2>4. Len(c) = n - k + 1 /\ Len(d) = n - k + 1
        BY <1>1, <1>3, <1>4, <2>2, <2>3
    <2>5. ASSUME NEW j \in 1 .. n - k + 1 PROVE c[j] = d[j]
        <3>1. j \in 1 .. (n + 1) - (k + 1) + 1 /\ (k + 1) + j - 1 = k + j
            BY <1>1, <1>3
        <3>2. c[j] = a[k + j]
            BY <2>3, <3>1
        <3>3. CASE j = n - k + 1
            <4>1. k + j = n + 1 /\ j = Len(p) + 1
                BY <1>1, <1>3, <1>4, <3>3
            <4> QED
                BY <2>1, <2>2, <3>2, <4>1
        <3>4. CASE j # n - k + 1
            <4>1. k + j \in 1 .. n /\ j \in 1 .. n - k /\ j \in 1 .. Len(p)
                BY <1>1, <1>3, <1>4, <3>4
            <4> QED
                BY <1>4, <2>1, <2>2, <3>2, <4>1
        <3> QED
            BY <3>3, <3>4
    <2>6. c = d
        <3>1. Len(c) = Len(d) /\ \A j \in 1 .. Len(c) : c[j] = d[j]
            BY <2>4, <2>5
        <3> QED
            BY <2>2, <2>3, <3>1, SeqEqual
    <2> QED
        BY <2>1, <2>6 DEF a, c, d
<1>6. ASSUME p # <<>>
      PROVE  k + 1 <= n /\ p[1] = st[k + 1] /\ Tail(p) = SubSeq(st, k + 2, n)
    <2>1. k + 1 <= n /\ k + 1 \in Nat
        <3>1. Len(p) # 0
            BY <1>4, <1>6, EmptySeq
        <3> QED
            BY <1>1, <1>3, <1>4, <3>1
    <2>2. p[1] = st[k + 1]
        BY <1>1, <1>3, <1>4, <2>1
    <2> DEFINE c == Tail(p)
               d == SubSeq(st, (k + 1) + 1, n)
    <2>3. c \in Seq(Bytes) /\ Len(c) = Len(p) - 1 /\ \A j \in 1 .. Len(c) : c[j] = p[j + 1]
        BY <1>4, <1>6, HeadTailProperties
    <2>4. d \in Seq(Bytes) /\ Len(d) = n - (k + 1) /\ \A j \in 1 .. n - (k + 1) : d[j] = st[(k + 1) + j]
        BY <1>2, <2>1
    <2>5. d = SubSeq(st, k + 2, n)
        <3>1. (k + 1) + 1 = k + 2
            OBVIOUS
        <3> QED
            BY <3>1
    <2> HIDE DEF c, d
    <2>6. Len(c) = Len(d) /\ Len(c) = n - k - 1
        BY <1>1, <1>3, <1>4, <2>3, <2>4
    <2>7. ASSUME NEW j \in 1 .. Len(c) PROVE c[j] = d[j]
        <3>1. j \in 1 .. n - (k + 1) /\ j + 1 \in 1 .. n - k /\ (k + 1) + j = k + (j + 1)
            BY <1>1, <1>3, <2>6
        <3>2. p[j + 1] = st[k + (j + 1)]
            BY <1>4, <3>1
        <3> QED
            BY <2>3, <2>4, <3>1, <3>2
    <2>8. c = d
        BY <2>3, <2>4, <2>6, <2>7, SeqEqual
    <2> QED
        BY <2>1, <2>2, <2>5, <2>8 DEF c
<1> QED
    BY <1>4, <1>5, <1>6 DEF n, p

\* What is handled came in order, and what is read and on its way is the rest of what was
\* sent.
Going(bytes, coming, st, done) ==
    /\ Len(done) <= Len(st)
    /\ \A i \in 1 .. Len(done) : done[i] = st[i]
    /\ bytes \o coming = FlattenSeq(SubSeq(st, Len(done) + 1, Len(st)))

FramingInv ==
    /\ span \in Bytes /\ wire \in Bytes /\ sent \in Seq(Frames) /\ handled \in Seq(Bytes)
    /\ reader = "posted" => span # <<>>
    /\ reader = "reading" => Len(span) < Capacity
    /\ ~ muddled /\ line = "up" => Going(span, wire, sent, handled)

LEMMA FramesAreBytes == Frames \subseteq Bytes /\ \A st \in Seq(Frames) : st \in Seq(Bytes)
<1>1. Frames \subseteq Bytes
    BY FramingAssumption DEF Bytes
<1>2. ASSUME NEW st \in Seq(Frames) PROVE st \in Seq(Bytes)
    BY <1>1, SeqMonotonic
<1> QED
    BY <1>1, <1>2

\* A list of which more is sent.
LEMMA MoreSent ==
    ASSUME NEW b \in Bytes, NEW w \in Bytes, NEW st \in Seq(Frames), NEW done \in Seq(Bytes),
           NEW f \in Frames, Going(b, w, st, done)
    PROVE  Going(b, w \o f, Append(st, f), done)
<1>1. /\ b \in Seq(Nat) /\ w \in Seq(Nat) /\ f \in Seq(Nat) /\ f \in Bytes /\ st \in Seq(Bytes)
      /\ Len(st) \in Nat /\ Len(done) \in Nat /\ Len(done) <= Len(st)
    BY FramesAreBytes, LenProperties DEF Bytes, Going
<1>2. /\ Len(Append(st, f)) = Len(st) + 1
      /\ \A i \in 1 .. Len(st) : Append(st, f)[i] = st[i]
    BY <1>1, AppendProperties
<1> DEFINE p == SubSeq(st, Len(done) + 1, Len(st))
           a == Append(st, f)
<1>3. p \in Seq(Bytes) /\ SubSeq(a, Len(done) + 1, Len(a)) = Append(p, f)
    BY <1>1, PendingFrames
<1>4. b \o w = FlattenSeq(p)
    BY DEF Going
<1> HIDE DEF p
<1>5. FlattenSeq(Append(p, f)) = FlattenSeq(p) \o f
    BY <1>1, <1>3, FlattenAppend DEF Bytes
<1>6. (b \o w) \o f = b \o (w \o f)
    BY SMTT(40), <1>1, ConcatAssociative
<1>7. b \o (w \o f) = FlattenSeq(SubSeq(a, Len(done) + 1, Len(a)))
    BY <1>3, <1>4, <1>5, <1>6
<1>8. Len(done) <= Len(a) /\ \A i \in 1 .. Len(done) : a[i] = done[i]
    <2>1. \A i \in 1 .. Len(done) : i \in 1 .. Len(st) /\ done[i] = st[i]
        BY <1>1 DEF Going
    <2> HIDE DEF a
    <2> QED
        BY <1>1, <1>2, <2>1 DEF a
<1> QED
    BY <1>7, <1>8 DEF Going, a

\* A packet whose end has come is the next one that was sent.
LEMMA NextFrame ==
    ASSUME NEW b \in Bytes, NEW w \in Bytes, NEW st \in Seq(Frames), NEW done \in Seq(Bytes),
           b # <<>>, Going(b, w, st, done), ParseVarint(Tail(b)).ok,
           NEW end, end = Len(b) - Len(ParseVarint(Tail(b)).rest) + ParseVarint(Tail(b)).value,
           end <= Len(b)
    PROVE  Going(SubSeq(b, end + 1, Len(b)), w, st, Append(done, SubSeq(b, 1, end)))
<1> DEFINE k == Len(done)
           p == SubSeq(st, k + 1, Len(st))
           f == p[1]
           t == FlattenSeq(Tail(p))
<1>1. /\ b \in Seq(Nat) /\ w \in Seq(Nat) /\ st \in Seq(Bytes)
      /\ Len(st) \in Nat /\ k \in Nat /\ k <= Len(st)
    BY FramesAreBytes, LenProperties DEF Bytes, Going
<1>2. p \in Seq(Bytes) /\ b \o w = FlattenSeq(p)
    BY <1>1, PendingFrames DEF Going
<1>3. p # <<>>
    <2>1. SUFFICES ASSUME p = <<>> PROVE FALSE
        OBVIOUS
    <2>2. FlattenSeq(<<>>) = <<>>
        BY EmptySeq DEF FlattenSeq
    <2>3. b \o w = <<>>
        BY <1>2, <2>1, <2>2
    <2>4. Len(b \o w) = Len(b) + Len(w) /\ Len(b) \in Nat /\ Len(w) \in Nat /\ Len(b) # 0
        BY <1>1, ConcatProperties, LenProperties, EmptySeq
    <2>5. Len(b \o w) = 0
        BY <2>3, EmptySeq
    <2> QED
        BY <2>4, <2>5
<1>4. k + 1 <= Len(st) /\ f = st[k + 1] /\ Tail(p) = SubSeq(st, k + 2, Len(st))
    BY <1>1, <1>3, PendingFrames
<1>5. f \in Frames /\ f \in Bytes /\ f # <<>> /\ Whole(f)
    <2>1. k + 1 \in 1 .. Len(st)
        BY <1>1, <1>4
    <2>2. st[k + 1] \in Frames
        BY <2>1, ElementOfSeq
    <2> QED
        BY <1>4, <2>2, FramesAreBytes, FramingAssumption
<1>6. b \o w = f \o t /\ t \in Bytes
    BY <1>2, <1>3, FlattenHead DEF Bytes
<1> HIDE DEF f, t
<1>7. end = Len(f)
    <2>1. \A i : i \in 1 .. Len(b) /\ i \in 1 .. Len(f) => b[i] = f[i]
        BY <1>5, <1>6, TwoCuts
    <2> QED
        BY <1>5, <2>1, SaysItsLength
<1>8. /\ SubSeq(b, 1, end) = f /\ SubSeq(b, end + 1, Len(b)) \in Bytes
      /\ SubSeq(b, end + 1, Len(b)) \o w = t
    <2>1. f \in Bytes /\ t \in Bytes /\ b \o w = f \o t /\ Len(f) <= Len(b)
        BY <1>5, <1>6, <1>7
    <2>2. CutThere(b, w, f, t)
        BY <2>1, CutAgain
    <2> QED
        BY <1>7, <2>2 DEF CutThere
<1> DEFINE a == Append(done, f)
<1>9. Len(a) = k + 1 /\ (\A i \in 1 .. k : a[i] = done[i]) /\ a[k + 1] = f
    BY <1>5, AppendProperties
<1>10. \A i \in 1 .. k : done[i] = st[i]
    BY DEF Going
<1> HIDE DEF a, k
<1>11. \A i \in 1 .. k + 1 : a[i] = st[i]
    <2>1. \A i \in 1 .. k + 1 : i \in 1 .. k \/ i = k + 1
        BY <1>1
    <2> QED
        BY <1>4, <1>9, <1>10, <2>1
<1>12. SubSeq(b, end + 1, Len(b)) \o w = FlattenSeq(SubSeq(st, Len(a) + 1, Len(st)))
    <2>1. Len(a) + 1 = k + 2
        BY <1>1, <1>9
    <2> QED
        BY <1>4, <1>8, <2>1 DEF t
<1> QED
    BY <1>4, <1>8, <1>9, <1>11, <1>12 DEF Going, a

\* However many bytes have come, on_read keeps the order.
LEMMA OnReadKeeps ==
    ASSUME FramingInv, NEW b \in Bytes, b # <<>>, OnRead(b),
           wire' \in Bytes, sent' = sent,
           ~ muddled /\ line = "up" => Going(b, wire', sent, handled)
    PROVE  FramingInv'
<1> DEFINE length == ParseVarint(Tail(b))
           header == Len(b) - Len(length.rest)
           end == header + length.value
           n == Len(b)
<1>1. n \in Nat /\ n # 0 /\ (\A i \in 1 .. n : b[i] \in Nat) /\ Capacity \in Nat /\ 1 + MaxDigits <= Capacity
    BY LenProperties, ElementOfSeq, EmptySeq, FramingAssumption DEF Bytes, MaxDigits
<1>2. sent \in Seq(Frames) /\ handled \in Seq(Bytes)
    BY DEF FramingInv
<1>3. length.ok => length.value \in Nat /\ header \in 2 .. 1 + MaxDigits
    BY LengthRead
<1>4. ASSUME MalformedPacket PROVE FramingInv'
    <2>1. <<>> \in Bytes
        BY EmptySeq DEF Bytes
    <2> QED
        BY <1>2, <1>4, <2>1 DEF MalformedPacket, FramingInv
<1>5. ASSUME Perform(1, b), UNCHANGED <<line, handled, muddled>>, n < Capacity PROVE FramingInv'
    <2>1. span' = b /\ reader' = "reading"
        BY <1>5 DEF Perform
    <2> QED
        BY <1>2, <1>5, <2>1 DEF FramingInv
<1>6. ASSUME length.ok, end <= n, HandlePacket(SubSeq(b, 1, end), SubSeq(b, end + 1, n)) PROVE FramingInv'
    <2> DEFINE f == SubSeq(b, 1, end)
               rest == SubSeq(b, end + 1, n)
    <2>1. end \in Nat
        BY <1>3, <1>6 DEF MaxDigits
    <2>2. f \in Bytes /\ rest \in Bytes
        <3>1. (\A i \in 1 .. end : b[i] \in Nat) /\ (\A i \in end + 1 .. n : b[i] \in Nat)
            <4> HIDE DEF end, n
            <4> QED
                BY <1>1, <1>6, <2>1
        <3>2. 1 \in Int /\ end \in Int /\ end + 1 \in Int /\ n \in Int
            BY <1>1, <2>1
        <3> HIDE DEF end, n
        <3>3. f \in Seq(Nat)
            BY <3>1, <3>2, SubSeqProperties
        <3>4. rest \in Seq(Nat)
            BY <3>1, <3>2, SubSeqProperties
        <3> QED
            BY <3>3, <3>4 DEF Bytes
    <2>3. ASSUME ~ muddled, line = "up" PROVE Going(rest, wire', sent, Append(handled, f))
        BY <1>2, <1>6, <2>3, NextFrame
    <2> HIDE DEF f, rest, end, length
    <2>4. handled' = Append(handled, f) /\ muddled' = muddled /\ handled' \in Seq(Bytes)
        BY <1>2, <1>6, <2>2, AppendProperties DEF HandlePacket, f, rest
    <2>5. /\ span' = rest /\ (line' = "up" => line = "up")
          /\ reader' = "posted" => rest # <<>>
          /\ reader' = "reading" => rest = <<>>
        BY <1>6 DEF HandlePacket, Perform, f, rest
    <2>6. reader' = "reading" => Len(span') < Capacity
        <3>1. Len(<<>>) = 0
            BY EmptySeq
        <3> QED
            BY <1>1, <2>5, <3>1 DEF MaxDigits
    <2> QED
        BY <1>2, <2>2, <2>3, <2>4, <2>5, <2>6 DEF FramingInv
<1> HIDE DEF FramingInv
<1>7. CASE Code(b[1]) = 0
    BY <1>4, <1>7 DEF OnRead
<1>8. CASE Code(b[1]) # 0 /\ ~ length.ok
    <2>1. CASE n < 1 + MaxDigits
        <3>1. n < Capacity
            BY <1>1, <2>1 DEF MaxDigits
        <3> QED
            BY <1>5, <1>8, <2>1, <3>1 DEF OnRead
    <2>2. CASE ~ (n < 1 + MaxDigits)
        BY <1>4, <1>8, <2>2 DEF OnRead
    <2> QED
        BY <2>1, <2>2
<1>9. CASE Code(b[1]) # 0 /\ length.ok /\ ~ Fits(header, length.value)
    BY <1>4, <1>9 DEF OnRead
<1>10. CASE Code(b[1]) # 0 /\ length.ok /\ Fits(header, length.value)
    <2>1. CASE n < end
        <3>1. n < Capacity
            <4>1. length.value <= Capacity - header /\ length.value \in Nat /\ header \in Int
                BY <1>3, <1>10 DEF Fits, MaxDigits
            <4>2. n < header + length.value
                BY <2>1
            <4> HIDE DEF n, header, length
            <4> QED
                BY <1>1, <4>1, <4>2
        <3> QED
            BY <1>5, <1>10, <2>1, <3>1 DEF OnRead
    <2>2. CASE ~ (n < end)
        <3>1. end <= n
            <4>1. header \in Int /\ length.value \in Int
                BY <1>3, <1>10 DEF MaxDigits
            <4> HIDE DEF n, header, length
            <4> QED
                BY <1>1, <2>2, <4>1
        <3>2. CASE ~ ValidHeader(b[1])
            BY <1>4, <1>10, <2>2, <3>2 DEF OnRead
        <3>3. CASE ValidHeader(b[1])
            BY <1>6, <1>10, <2>2, <3>1, <3>3 DEF OnRead
        <3> QED
            BY <3>2, <3>3
    <2> QED
        BY <2>1, <2>2
<1> QED
    BY <1>7, <1>8, <1>9, <1>10

\* Nothing is read, on its way, sent or handled.
LEMMA NothingGoing == Going(<<>>, <<>>, <<>>, <<>>)
<1> DEFINE e == <<>>
<1>1. e \o e = e /\ Len(e) = 0
    BY ConcatEmptySeq, EmptySeq
<1>2. FlattenSeq(e) = e
    BY <1>1 DEF FlattenSeq
<1>3. SubSeq(e, 1, 0) = e
    BY SubSeqProperties, EmptySeq
<1> HIDE DEF e
<1>4. SubSeq(e, Len(e) + 1, Len(e)) = e
    BY <1>1, <1>3
<1>5. e \o e = FlattenSeq(SubSeq(e, Len(e) + 1, Len(e)))
    BY <1>1, <1>2, <1>4
<1>6. Going(e, e, e, e)
    BY <1>1, <1>5 DEF Going
<1> QED
    BY <1>6 DEF e

\* A text is its first bytes and the others.
LEMMA CutInTwo ==
    ASSUME NEW w \in Bytes, NEW n \in 1 .. Len(w)
    PROVE  /\ SubSeq(w, 1, n) \in Bytes /\ SubSeq(w, 1, n) # <<>>
           /\ SubSeq(w, n + 1, Len(w)) \in Bytes
           /\ SubSeq(w, 1, n) \o SubSeq(w, n + 1, Len(w)) = w
<1> DEFINE m == Len(w)
           h == SubSeq(w, 1, n)
           t == SubSeq(w, n + 1, m)
<1>1. w \in Seq(Nat) /\ m \in Nat /\ \A i \in 1 .. m : w[i] \in Nat
    BY LenProperties, ElementOfSeq DEF Bytes
<1>2. n \in 1 .. m
    OBVIOUS
<1> HIDE DEF m
<1>3. h \in Seq(Nat) /\ Len(h) = n /\ \A i \in 1 .. n : h[i] = w[i]
    <2>1. (\A i \in 1 .. n : w[i] \in Nat) /\ 1 \in Int /\ n \in Int
        BY <1>1, <1>2
    <2>2. /\ h \in Seq(Nat) /\ Len(h) = IF 1 <= n THEN n - 1 + 1 ELSE 0
          /\ \A i \in 1 .. n - 1 + 1 : h[i] = w[1 + i - 1]
        BY <2>1, SubSeqProperties
    <2> HIDE DEF h
    <2> QED
        BY <1>1, <1>2, <2>2
<1>4. t \in Seq(Nat) /\ Len(t) = m - n /\ \A i \in 1 .. m - n : t[i] = w[n + i]
    <2>1. (\A i \in n + 1 .. m : w[i] \in Nat) /\ n + 1 \in Int /\ m \in Int
        BY <1>1, <1>2
    <2>2. /\ t \in Seq(Nat) /\ Len(t) = IF n + 1 <= m THEN m - (n + 1) + 1 ELSE 0
          /\ \A i \in 1 .. m - (n + 1) + 1 : t[i] = w[(n + 1) + i - 1]
        BY <2>1, SubSeqProperties
    <2> HIDE DEF t
    <2>3. Len(t) = m - n
        BY <1>1, <1>2, <2>2
    <2>4. ASSUME NEW i \in 1 .. m - n PROVE t[i] = w[n + i]
        <3>1. i \in 1 .. m - (n + 1) + 1 /\ (n + 1) + i - 1 = n + i
            BY <1>1, <1>2
        <3> QED
            BY <2>2, <3>1
    <2> QED
        BY <2>2, <2>3, <2>4
<1> HIDE DEF h, t
<1>5. h # <<>>
    <2>1. n # 0
        BY <1>1, <1>2
    <2> QED
        BY <1>3, <2>1, EmptySeq
<1> DEFINE u == h \o t
<1>6. /\ u \in Seq(Nat) /\ Len(u) = Len(h) + Len(t)
      /\ \A i \in 1 .. Len(h) + Len(t) : u[i] = IF i <= Len(h) THEN h[i] ELSE t[i - Len(h)]
    BY <1>3, <1>4, ConcatProperties
<1> HIDE DEF u
<1>7. Len(u) = m /\ \A i \in 1 .. m : u[i] = IF i <= n THEN h[i] ELSE t[i - n]
    <2>1. Len(h) + Len(t) = m
        BY <1>1, <1>2, <1>3, <1>4
    <2> QED
        BY <1>3, <1>6, <2>1
<1>8. ASSUME NEW i \in 1 .. m PROVE u[i] = w[i]
    <2>1. CASE i <= n
        <3>1. i \in 1 .. n
            BY <1>1, <1>2, <2>1
        <3> QED
            BY <1>3, <1>7, <2>1, <3>1
    <2>2. CASE ~ (i <= n)
        <3>1. i - n \in 1 .. m - n /\ n + (i - n) = i
            BY <1>1, <1>2, <2>2
        <3>2. t[i - n] = w[n + (i - n)]
            BY <1>4, <3>1
        <3> QED
            BY <1>7, <2>2, <3>1, <3>2
    <2> QED
        BY <2>1, <2>2
<1>9. u = w
    <2>1. Len(u) = Len(w) /\ \A i \in 1 .. Len(u) : u[i] = w[i]
        BY <1>7, <1>8 DEF m
    <2> QED
        BY <1>1, <1>6, <2>1, SeqEqual
<1> QED
    BY <1>3, <1>4, <1>5, <1>9 DEF h, t, u, m, Bytes

LEMMA FramingInvNext == FramingInv /\ [FramingNext]_framingVars => FramingInv'
<1> SUFFICES ASSUME FramingInv, [FramingNext]_framingVars PROVE FramingInv'
    OBVIOUS
<1>1. /\ span \in Bytes /\ wire \in Bytes /\ sent \in Seq(Frames) /\ handled \in Seq(Bytes)
      /\ <<>> \in Bytes /\ Len(<<>>) = 0 /\ Capacity \in Nat /\ 0 < Capacity
    BY EmptySeq, FramingAssumption DEF FramingInv, Bytes, MaxDigits
<1>2. Going(<<>>, <<>>, <<>>, <<>>)
    BY NothingGoing
<1>3. ASSUME NEW n \in 1 .. Len(wire), OnRead(span \o SubSeq(wire, 1, n)),
             wire' = SubSeq(wire, n + 1, Len(wire)), sent' = sent
      PROVE  FramingInv'
    <2> DEFINE h == SubSeq(wire, 1, n)
               t == SubSeq(wire, n + 1, Len(wire))
    <2>1. span \in Seq(Nat) /\ wire \in Seq(Nat) /\ Len(wire) \in Nat /\ \A i \in 1 .. Len(wire) : wire[i] \in Nat
        BY <1>1, LenProperties, ElementOfSeq DEF Bytes
    <2>2. /\ h \in Bytes /\ t \in Bytes /\ h # <<>> /\ h \o t = wire
          /\ h \in Seq(Nat) /\ t \in Seq(Nat)
        BY <1>1, CutInTwo DEF Bytes
    <2> HIDE DEF h, t
    <2> DEFINE b == span \o h
    <2>3. b \in Bytes /\ b # <<>>
        <3>1. b \in Seq(Nat) /\ Len(b) = Len(span) + Len(h)
            BY <2>1, <2>2, ConcatProperties
        <3>2. Len(span) \in Nat /\ Len(h) \in Nat /\ Len(h) # 0
            BY <2>1, <2>2, LenProperties, EmptySeq
        <3>3. Len(b) # 0
            BY <3>1, <3>2
        <3> QED
            BY <3>1, <3>3, EmptySeq DEF Bytes
    <2>4. b \o t = span \o wire
        <3>1. (span \o h) \o t = span \o (h \o t)
            <4> DEFINE u == span
                       v == h
                       x == t
            <4>1. u \in Seq(Nat) /\ v \in Seq(Nat) /\ x \in Seq(Nat)
                BY <2>1, <2>2
            <4> HIDE DEF u, v, x
            <4>2. (u \o v) \o x = u \o (v \o x)
                BY SMTT(30), <4>1, ConcatAssociative
            <4> QED
                BY <4>2 DEF u, v, x
        <3> QED
            BY <2>2, <3>1
    <2>5. ~ muddled /\ line = "up" => Going(b, t, sent, handled)
        BY <2>4 DEF FramingInv, Going
    <2>6. OnRead(b) /\ wire' = t
        BY <1>3 DEF h, t
    <2> HIDE DEF b
    <2> QED
        BY <1>3, <2>2, <2>3, <2>5, <2>6, OnReadKeeps
<1>4. CASE ReadSome
    BY <1>3, <1>4 DEF ReadSome
<1>5. CASE ReadPosted
    <2>1. span # <<>> /\ OnRead(span) /\ wire' = wire /\ sent' = sent
        BY <1>5 DEF ReadPosted, FramingInv
    <2>2. ~ muddled /\ line = "up" => Going(span, wire', sent, handled)
        BY <2>1 DEF FramingInv
    <2> QED
        BY <1>1, <2>1, <2>2, OnReadKeeps
<1>6. CASE Disconnected
    BY <1>1, <1>6 DEF Disconnected, Perform, FramingInv
<1>7. CASE TryAgainRead
    BY <1>1, <1>2, <1>7, EmptySeq DEF TryAgainRead, NewConnection, FramingInv
<1>8. CASE Reconnected
    BY <1>1, <1>2, <1>8, EmptySeq DEF Reconnected, NewConnection, Perform, FramingInv
<1>9. CASE Outage
    BY <1>1, <1>9 DEF Outage, FramingInv
<1>10. ASSUME NEW f \in Frames, SendFrame(f)
       PROVE  FramingInv'
    <2>1. /\ wire' = wire \o f /\ sent' = Append(sent, f)
          /\ UNCHANGED <<span, reader, line, outages, handled, muddled>>
        BY <1>10 DEF SendFrame
    <2>2. wire' \in Bytes /\ sent' \in Seq(Frames)
        <3>1. f \in Seq(Nat) /\ wire \in Seq(Nat)
            BY <1>1, FramesAreBytes DEF Bytes
        <3>2. wire \o f \in Seq(Nat)
            BY <3>1, ConcatProperties
        <3> QED
            BY <1>1, <2>1, <3>2, AppendProperties DEF Bytes
    <2>3. Going(span, wire, sent, handled) => Going(span, wire', sent', handled)
        BY <1>1, <2>1, MoreSent
    <2> QED
        BY <2>1, <2>2, <2>3 DEF FramingInv
<1>11. CASE UNCHANGED framingVars
    BY <1>11 DEF framingVars, FramingInv
<1> QED
    BY <1>4, <1>5, <1>6, <1>7, <1>8, <1>9, <1>10, <1>11 DEF FramingNext

\* What is handled are the packets that were sent on this connection, whole and in order,
\* and what is read and on its way is the rest of them, in whatever pieces the bytes come
\* and however often the connection is lost; and the reader never waits for bytes it has
\* no room for: for any packets and any size of the buffer above a header's.
THEOREM PacketsWhole == FramingSpec => []FramesWhole
<1>1. FramingInit => FramingInv
    <2> SUFFICES ASSUME FramingInit PROVE FramingInv
        OBVIOUS
    <2>1. /\ span = <<>> /\ reader = "reading" /\ wire = <<>> /\ sent = <<>> /\ handled = <<>>
          /\ <<>> \in Bytes /\ <<>> \in Seq(Bytes) /\ <<>> \in Seq(Frames) /\ Len(<<>>) = 0
        BY EmptySeq DEF FramingInit, Bytes
    <2>2. Going(<<>>, <<>>, <<>>, <<>>)
        BY NothingGoing
    <2>3. 0 < Capacity
        BY FramingAssumption DEF MaxDigits
    <2> QED
        BY <2>1, <2>2, <2>3 DEF FramingInv
<1>2. FramingInv /\ [FramingNext]_framingVars => FramingInv'
    BY FramingInvNext
<1>3. FramingInv => FramesWhole
    <2>1. ASSUME FramingInv, ~ muddled, line = "up"
          PROVE  IsPrefix(handled, sent)
        <3>1. /\ Len(handled) <= Len(sent) /\ \A i \in 1 .. Len(handled) : handled[i] = sent[i]
              /\ handled \in Seq(Bytes) /\ sent \in Seq(Bytes)
              /\ Len(handled) \in Nat /\ Len(sent) \in Nat
            BY <2>1, FramesAreBytes, LenProperties DEF FramingInv, Going
        <3>2. SubSeq(handled, 1, Len(handled)) = SubSeq(sent, 1, Len(handled))
            BY <3>1
        <3> QED
            BY <3>1, <3>2 DEF IsPrefix
    <2> QED
        BY <2>1 DEF FramesWhole, FramingInv, Going
<1> QED
    BY <1>1, <1>2, <1>3, PTL DEF FramingSpec

-----------------------------------------------------------------------------
(* MqttSession *)

\* A SUBSCRIBE is under way exactly while the coroutine waits for its answer.
RequestAwaited == request # "none" <=> loop \in {"subscribing", "resubscribing"}

\* A lost session is reported only while nothing is subscribed, and its report is
\* read before the next request.
ReportedOnce == /\ subscriptionsPresent \/ request # "none" => ~LossReported
                /\ request # "none" => ~subscriptionsPresent

AnswerHolds == request = "answered" => codes \subseteq granted

\* What ReceivingMeansSubscribed needs while the connection is down, too.
SubscribedOrTold ==
    loop = "receiving" /\ ~LossReported => FirstTopic \in granted /\ subscriptionsPresent

SessionInv == TypeOK /\ RequestAwaited /\ ReportedOnce /\ AnswerHolds /\ SubscribedOrTold

\* The status once the queued calls have run.
FinalStatus == IF calls = <<>> THEN connectionStatus ELSE calls[Len(calls)]

StatusInv == /\ loop = "receiving" => FinalStatus = 1
             /\ loop = "ended" /\ received => FinalStatus = 0
             /\ loop = "subscribing" => ~received

-----------------------------------------------------------------------------
LEMMA InitSession == Init => SessionInv
<1> SUFFICES ASSUME Init PROVE SessionInv
    OBVIOUS
<1>1. TypeOK
  <2>1. channel \in Seq(Topics \cup {SessionExpired}) /\ calls \in Seq({0, 1}) /\ DOMAIN channel = {}
      BY DEF Init
  <2>2. 0 \in 0 .. MaxDrops
      BY MqttSessionAssumption
  <2> QED
      BY <2>1, <2>2 DEF Init, TypeOK
<1>2. ~LossReported
    BY DEF Init, LossReported
<1> QED
    BY <1>1, <1>2 DEF Init, SessionInv, RequestAwaited, ReportedOnce, AnswerHolds, SubscribedOrTold

\* A message that is not a report, or a report where there was none, keeps the
\* channel's reports unique.
LEMMA AppendMessage ==
    ASSUME TypeOK, NEW message \in Topics \cup {SessionExpired},
           message = SessionExpired => ~LossReported,
           channel' = Append(channel, message)
    PROVE  /\ channel' \in Seq(Topics \cup {SessionExpired})
           /\ \A i, j \in DOMAIN channel' :
                 channel'[i] = SessionExpired /\ channel'[j] = SessionExpired => i = j
           /\ LossReported' <=> LossReported \/ message = SessionExpired
<1>1. channel \in Seq(Topics \cup {SessionExpired})
    BY DEF TypeOK
<1>2. /\ channel' \in Seq(Topics \cup {SessionExpired})
      /\ DOMAIN channel = 1 .. Len(channel) /\ Len(channel) \in Nat
      /\ DOMAIN channel' = 1 .. Len(channel) + 1
      /\ \A i \in DOMAIN channel : channel'[i] = channel[i]
      /\ channel'[Len(channel) + 1] = message
    BY <1>1
<1>3. LossReported' <=> LossReported \/ message = SessionExpired
    BY <1>2 DEF LossReported
<1>4. ASSUME NEW i \in DOMAIN channel', NEW j \in DOMAIN channel',
             channel'[i] = SessionExpired, channel'[j] = SessionExpired
      PROVE  i = j
  <2>1. CASE i \in DOMAIN channel /\ j \in DOMAIN channel
      BY <1>2, <1>4, <2>1 DEF TypeOK
  <2>2. CASE i = Len(channel) + 1 \/ j = Len(channel) + 1
      BY <1>2, <1>4, <2>2 DEF LossReported
  <2> QED
      BY <1>2, <2>1, <2>2
<1> QED
    BY <1>2, <1>3, <1>4

\* Taking the first message: the reports that remain.
LEMMA TakeMessage ==
    ASSUME TypeOK, channel # <<>>, channel' = Tail(channel)
    PROVE  /\ channel' \in Seq(Topics \cup {SessionExpired})
           /\ \A i, j \in DOMAIN channel' :
                 channel'[i] = SessionExpired /\ channel'[j] = SessionExpired => i = j
           /\ LossReported' <=> LossReported /\ Head(channel) # SessionExpired
           /\ Head(channel) = SessionExpired => LossReported
<1>1. channel \in Seq(Topics \cup {SessionExpired})
    BY DEF TypeOK
<1>2. /\ channel' \in Seq(Topics \cup {SessionExpired})
      /\ DOMAIN channel = 1 .. Len(channel) /\ Len(channel) \in Nat \ {0}
      /\ DOMAIN channel' = 1 .. Len(channel) - 1
      /\ \A i \in DOMAIN channel' : channel'[i] = channel[i + 1] /\ i + 1 \in DOMAIN channel
      /\ Head(channel) = channel[1]
    BY <1>1
<1>3. ASSUME NEW i \in DOMAIN channel', NEW j \in DOMAIN channel',
             channel'[i] = SessionExpired, channel'[j] = SessionExpired
      PROVE  i = j
  <2>1. i + 1 = j + 1
      BY <1>2, <1>3 DEF TypeOK
  <2> QED
      BY <1>2, <2>1
<1>4. ASSUME LossReported' PROVE LossReported /\ Head(channel) # SessionExpired
  <2>1. PICK i \in DOMAIN channel' : channel'[i] = SessionExpired
      BY <1>4 DEF LossReported
  <2>2. i + 1 \in DOMAIN channel /\ channel[i + 1] = SessionExpired /\ i + 1 # 1 /\ 1 \in DOMAIN channel
      BY <1>2, <2>1
  <2>3. channel[1] # SessionExpired
      BY <2>2 DEF TypeOK
  <2> QED
      BY <1>2, <2>2, <2>3 DEF LossReported
<1>5. ASSUME LossReported, Head(channel) # SessionExpired PROVE LossReported'
  <2>1. PICK i \in DOMAIN channel : channel[i] = SessionExpired
      BY <1>5 DEF LossReported
  <2>2. i # 1 /\ i - 1 \in DOMAIN channel' /\ channel'[i - 1] = channel[i]
      BY <1>2, <1>5, <2>1
  <2> QED
      BY <2>1, <2>2 DEF LossReported
<1>6. Head(channel) = SessionExpired => LossReported
  <2>1. 1 \in DOMAIN channel
      BY <1>2
  <2> QED
      BY <1>2, <2>1 DEF LossReported
<1>7. LossReported' <=> LossReported /\ Head(channel) # SessionExpired
    BY <1>4, <1>5
<1>8. channel' \in Seq(Topics \cup {SessionExpired})
    BY <1>2
<1> QED
    BY <1>3, <1>6, <1>7, <1>8, Zenon

-----------------------------------------------------------------------------
LEMMA ConnectKeeps == ASSUME SessionInv, Connect PROVE SessionInv'
<1> USE DEF SessionInv
<1>1. PICK present \in BOOLEAN :
         /\ present => granted # {}
         /\ granted' = IF present THEN granted ELSE {}
         /\ UpdateSessionState(present)
    BY DEF Connect
<1>2. /\ request' = IF request = "none" THEN "none" ELSE "queued"
      /\ connected' = TRUE
      /\ UNCHANGED <<drops, codes, loop, gui, received>>
    BY DEF Connect, Resend
<1>3. /\ TypeOK'
      /\ LossReported' <=> LossReported \/ (~present /\ subscriptionsPresent)
      /\ subscriptionsPresent' = (subscriptionsPresent /\ present)
  <2>1. CASE ~present /\ subscriptionsPresent
    <3>1. channel' = Append(channel, SessionExpired) /\ subscriptionsPresent' = FALSE
        BY <1>1, <2>1 DEF UpdateSessionState
    <3>2. ~LossReported
        BY <2>1 DEF ReportedOnce
    <3>3. /\ channel' \in Seq(Topics \cup {SessionExpired})
          /\ \A i, j \in DOMAIN channel' :
                channel'[i] = SessionExpired /\ channel'[j] = SessionExpired => i = j
          /\ LossReported'
        BY <3>1, <3>2, AppendMessage
    <3> QED
        BY <1>1, <1>2, <2>1, <3>1, <3>3 DEF TypeOK, gui
  <2>2. CASE present \/ ~subscriptionsPresent
    <3>1. UNCHANGED <<channel, subscriptionsPresent>>
        BY <1>1, <2>2 DEF UpdateSessionState
    <3>2. LossReported' <=> LossReported
        BY <3>1 DEF LossReported
    <3> QED
        BY <1>1, <1>2, <2>2, <3>1, <3>2 DEF TypeOK, gui
  <2> QED
      BY <2>1, <2>2
<1>4. RequestAwaited'
    BY <1>2 DEF RequestAwaited, TypeOK
<1>5. ReportedOnce'
    BY <1>2, <1>3 DEF ReportedOnce
<1>6. AnswerHolds'
    BY <1>2 DEF AnswerHolds
<1>7. SubscribedOrTold'
    BY <1>1, <1>2, <1>3 DEF SubscribedOrTold
<1> QED
    BY <1>3, <1>4, <1>5, <1>6, <1>7

LEMMA SubAckKeeps == ASSUME SessionInv, SubAck PROVE SessionInv'
<1> USE DEF SessionInv
<1>1. /\ request = "answered" /\ request' = "none"
      /\ subscriptionsPresent' = (subscriptionsPresent \/ codes # {})
      /\ loop' = IF FirstTopic \in codes THEN "receiving" ELSE "ended"
      /\ received' = (received \/ FirstTopic \in codes)
      /\ UNCHANGED <<connected, drops, granted, codes, channel, connectionStatus>>
    BY DEF SubAck, Completed, Succeeds
<1>2. ~LossReported /\ ~LossReported'
    BY <1>1 DEF ReportedOnce, LossReported
<1>3. calls' \in Seq({0, 1})
  <2>1. calls \in Seq({0, 1}) /\ calls' = calls \o StatusCalls
      BY DEF SubAck, TypeOK
  <2>2. <<1>> \in Seq({0, 1}) /\ <<1, 0>> \in Seq({0, 1})
      OBVIOUS
  <2>3. StatusCalls \in Seq({0, 1})
      BY <2>2, Zenon DEF StatusCalls
  <2> QED
      BY <2>1, <2>3
<1>4. TypeOK'
    BY <1>1, <1>3 DEF TypeOK
<1>5. RequestAwaited' /\ ReportedOnce' /\ AnswerHolds'
    BY <1>1, <1>2 DEF RequestAwaited, ReportedOnce, AnswerHolds
<1>6. SubscribedOrTold'
    BY <1>1 DEF SubscribedOrTold, AnswerHolds
<1> QED
    BY <1>4, <1>5, <1>6

LEMMA ReceiveKeeps == ASSUME SessionInv, Receive PROVE SessionInv'
<1> USE DEF SessionInv
<1>1. /\ loop = "receiving" /\ channel # <<>> /\ channel' = Tail(channel)
      /\ UNCHANGED <<connected, drops, granted, subscriptionsPresent, codes, gui, received>>
    BY DEF Receive
<1>2. /\ channel' \in Seq(Topics \cup {SessionExpired})
      /\ \A i, j \in DOMAIN channel' :
            channel'[i] = SessionExpired /\ channel'[j] = SessionExpired => i = j
      /\ LossReported' <=> LossReported /\ Head(channel) # SessionExpired
      /\ Head(channel) = SessionExpired => LossReported
    BY <1>1, TakeMessage
<1>3. CASE Head(channel) = SessionExpired
  <2>1. loop' = "resubscribing" /\ request' = "queued" /\ ~LossReported' /\ ~subscriptionsPresent
      BY <1>2, <1>3 DEF Receive, ReportedOnce
  <2> QED
      BY <1>1, <1>2, <2>1
      DEF TypeOK, gui, RequestAwaited, ReportedOnce, AnswerHolds, SubscribedOrTold
<1>4. CASE Head(channel) # SessionExpired
  <2>1. UNCHANGED <<loop, request>> /\ (LossReported' <=> LossReported)
      BY <1>2, <1>4 DEF Receive
  <2> QED
      BY <1>1, <1>2, <2>1
      DEF TypeOK, gui, RequestAwaited, ReportedOnce, AnswerHolds, SubscribedOrTold
<1> QED
    BY <1>3, <1>4

LEMMA MessageKeeps == ASSUME SessionInv, Message PROVE SessionInv'
<1> USE DEF SessionInv
<1>1. PICK topic \in granted : channel' = Append(channel, topic)
    BY DEF Message
<1>2. topic \in Topics /\ topic # SessionExpired
    BY MqttSessionAssumption DEF TypeOK
<1>3. /\ channel' \in Seq(Topics \cup {SessionExpired})
      /\ \A i, j \in DOMAIN channel' :
            channel'[i] = SessionExpired /\ channel'[j] = SessionExpired => i = j
      /\ LossReported' <=> LossReported
    BY <1>1, <1>2, AppendMessage
<1>4. UNCHANGED <<connected, drops, granted, client, loop, gui, received>>
    BY DEF Message
<1> QED
    BY <1>3, <1>4
    DEF TypeOK, client, gui, RequestAwaited, ReportedOnce, AnswerHolds, SubscribedOrTold

\* Every step of the specification keeps the invariant.
LEMMA SessionStep == SessionInv /\ [Next]_vars => SessionInv'
<1> SUFFICES ASSUME SessionInv, [Next]_vars PROVE SessionInv'
    OBVIOUS
<1> USE DEF SessionInv
<1>1. ASSUME UNCHANGED channel PROVE LossReported' <=> LossReported
    BY <1>1 DEF LossReported
<1>2. CASE Connect
    BY <1>2, ConnectKeeps
<1>3. CASE Drop
  <2>1. drops' \in 0 .. MaxDrops
      BY <1>3, MqttSessionAssumption DEF Drop, TypeOK
  <2> QED
    BY <1>1, <1>3, <2>1 DEF Drop, client, gui, TypeOK, RequestAwaited, ReportedOnce, AnswerHolds, SubscribedOrTold
<1>4. CASE SendSubscribe
    BY <1>1, <1>4 DEF SendSubscribe, gui, TypeOK, RequestAwaited, ReportedOnce, AnswerHolds, SubscribedOrTold
<1>5. CASE Broker
  <2>1. codes' \subseteq Topics
      BY <1>5, MqttSessionAssumption DEF Broker
  <2> QED
      BY <1>1, <1>5, <2>1
      DEF Broker, gui, TypeOK, RequestAwaited, ReportedOnce, AnswerHolds, SubscribedOrTold
<1>6. CASE Message
    BY <1>6, MessageKeeps
<1>7. CASE SubAck
    BY <1>7, SubAckKeeps
<1>8. CASE Receive
    BY <1>8, ReceiveKeeps
<1>9. CASE SetConnectionStatus
  <2>1. Head(calls) \in {0, 1} /\ Tail(calls) \in Seq({0, 1})
      BY <1>9 DEF SetConnectionStatus, TypeOK
  <2> QED
      BY <1>1, <1>9, <2>1
      DEF SetConnectionStatus, client, TypeOK, RequestAwaited, ReportedOnce, AnswerHolds, SubscribedOrTold
<1>10. CASE UNCHANGED vars
    BY <1>1, <1>10
    DEF vars, client, gui, TypeOK, RequestAwaited, ReportedOnce, AnswerHolds, SubscribedOrTold
<1> QED
    BY <1>2, <1>3, <1>4, <1>5, <1>6, <1>7, <1>8, <1>9, <1>10 DEF Next

LEMMA SessionInvariant == Spec => []SessionInv
<1> QED
    BY InitSession, SessionStep, PTL DEF Spec

\* The types are right, and a lost session is reported once.
THEOREM SessionTyped == Spec => []TypeOK
<1>1. SessionInv => TypeOK
    BY DEF SessionInv
<1> QED
    BY <1>1, SessionInvariant, PTL

\* subscribe_and_receive never awaits messages of a session that is gone.
THEOREM NeverWaitsInVain == Spec => []ReceivingMeansSubscribed
<1>1. SessionInv => ReceivingMeansSubscribed
    BY DEF SessionInv, SubscribedOrTold, ReceivingMeansSubscribed
<1> QED
    BY <1>1, SessionInvariant, PTL

-----------------------------------------------------------------------------
(* The status *)

LEMMA InitStatus == Init => StatusInv
<1> QED
    BY DEF Init, StatusInv

\* Running a queued call does not change what the status will be in the end.
LEMMA CallsRun == ASSUME TypeOK, SetConnectionStatus PROVE FinalStatus' = FinalStatus
<1>1. /\ calls \in Seq({0, 1}) /\ calls # <<>>
      /\ connectionStatus' = calls[1] /\ calls' = Tail(calls)
    BY DEF TypeOK, SetConnectionStatus
<1>2. CASE Len(calls) = 1
  <2>1. calls' = <<>>
      BY <1>1, <1>2
  <2> QED
      BY <1>1, <1>2, <2>1 DEF FinalStatus
<1>3. CASE Len(calls) > 1
  <2>1. /\ Len(calls) \in Nat /\ Len(calls') = Len(calls) - 1
        /\ \A i \in 1 .. Len(calls) - 1 : calls'[i] = calls[i + 1]
      BY <1>1
  <2>2. Len(calls') \in 1 .. Len(calls) - 1 /\ Len(calls') + 1 = Len(calls)
      BY <1>3, <2>1
  <2>3. calls' # <<>> /\ calls'[Len(calls')] = calls[Len(calls)]
      BY <2>1, <2>2
  <2> QED
      BY <1>1, <2>3 DEF FinalStatus
<1>4. calls \in Seq({0, 1}) /\ calls # <<>>
    BY <1>1
<1>5. Len(calls) \in Nat \ {0}
    BY <1>4
<1>6. Len(calls) = 1 \/ Len(calls) > 1
  <2>1. \A n \in Nat \ {0} : n = 1 \/ n > 1
      OBVIOUS
  <2> QED
      BY <1>5, <2>1
<1> QED
    BY <1>2, <1>3, <1>6

\* The last call that an answer queues decides.
LEMMA CallsQueued ==
    ASSUME TypeOK, SubAck
    PROVE  FinalStatus' = IF loop = "resubscribing" /\ ~Succeeds THEN 0 ELSE 1
<1>1. calls \in Seq({0, 1}) /\ calls' = calls \o StatusCalls
    BY DEF TypeOK, SubAck
<1>2. CASE loop = "resubscribing" /\ ~Succeeds
  <2>1. calls' = calls \o <<1, 0>>
      BY <1>1, <1>2, Zenon DEF StatusCalls
  <2>2. calls' # <<>> /\ calls'[Len(calls')] = 0
      BY <1>1, <2>1
  <2> QED
      BY <1>2, <2>2 DEF FinalStatus
<1>3. CASE ~(loop = "resubscribing" /\ ~Succeeds)
  <2>1. calls' = calls \o <<1>>
      BY <1>1, <1>3, Zenon DEF StatusCalls
  <2>2. calls' # <<>> /\ calls'[Len(calls')] = 1
      BY <1>1, <2>1
  <2> QED
      BY <1>3, <2>2 DEF FinalStatus
<1> QED
    BY <1>2, <1>3

LEMMA StatusStep == SessionInv /\ StatusInv /\ [Next]_vars => StatusInv'
<1> SUFFICES ASSUME SessionInv, StatusInv, [Next]_vars PROVE StatusInv'
    OBVIOUS
<1>1. TypeOK
    BY DEF SessionInv
<1>2. ASSUME UNCHANGED gui PROVE FinalStatus' = FinalStatus
    BY <1>2 DEF gui, FinalStatus
<1>3. CASE UNCHANGED <<loop, received, gui>>
    BY <1>2, <1>3 DEF StatusInv
<1>4. CASE Connect \/ Drop \/ SendSubscribe \/ Broker \/ Message \/ UNCHANGED vars
    BY <1>3, <1>4 DEF Connect, Drop, SendSubscribe, Broker, Message, vars
<1>5. CASE SubAck
  <2>1. /\ FinalStatus' = IF loop = "resubscribing" /\ ~Succeeds THEN 0 ELSE 1
        /\ loop' = IF Succeeds THEN "receiving" ELSE "ended"
        /\ received' = (received \/ Succeeds)
        /\ loop \in {"subscribing", "resubscribing"}
      BY <1>1, <1>5, CallsQueued DEF SubAck, SessionInv, RequestAwaited
  <2> QED
      BY <2>1 DEF StatusInv
<1>6. CASE Receive
  <2>1. UNCHANGED <<gui, received>> /\ loop = "receiving" /\ loop' \in {"receiving", "resubscribing"}
      BY <1>6 DEF Receive
  <2> QED
      BY <1>2, <2>1 DEF StatusInv
<1>7. CASE SetConnectionStatus
  <2>1. UNCHANGED <<loop, received>>
      BY <1>7 DEF SetConnectionStatus
  <2> QED
      BY <1>1, <1>7, <2>1, CallsRun DEF StatusInv
<1> QED
    BY <1>4, <1>5, <1>6, <1>7 DEF Next

\* The status shown by the GUI thread, once it has run the queued calls, says
\* whether the coroutine still receives.
THEOREM StatusIsRight == Spec => []StatusMatches
<1>1. StatusInv => StatusMatches
    BY DEF StatusInv, StatusMatches, FinalStatus
<1> QED
    BY <1>1, InitStatus, StatusStep, SessionInvariant, PTL DEF Spec

\* So what the host is told of its session is so: it waits for messages only while they can
\* come, and shows whether it does.
THEOREM SessionIsShown == Spec => []SessionAsShown
<1>1. ReceivingMeansSubscribed /\ StatusMatches => SessionAsShown
    BY DEF SessionAsShown
<1> QED
    BY <1>1, NeverWaitsInVain, StatusIsRight, PTL
=============================================================================
