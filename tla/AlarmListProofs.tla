-------------------------- MODULE AlarmListProofs --------------------------
(***************************************************************************)
(* Lemmas about the operations of AlarmList, for every list of alarms.      *)
(***************************************************************************)
EXTENDS AlarmList, SequenceLemmas

-----------------------------------------------------------------------------
\* Minutes of the day count up from 0; the invalid time is below them.
LEMMA TimesAreIntegers == NullTime \in Int /\ \A time \in Times : time \in Nat /\ NullTime < time
<1>1. NullTime = 0 - 1
    BY DEF NullTime
<1>2. DayMinutes \in Nat
    BY AlarmListAssumption
<1>3. \A time \in Times : time \in Nat
    BY <1>2 DEF Times
<1> QED
    BY <1>1, <1>3

\* The alarms of a list, and their fields.
LEMMA AlarmOfList ==
    ASSUME NEW list \in Seq(Alarm)
    PROVE  /\ Len(list) \in Nat /\ DOMAIN list = 1 .. Len(list)
           /\ \A i \in DOMAIN list : /\ list[i] \in Alarm
                                    /\ list[i].id \in 0 .. MaxId
                                    /\ list[i].time \in Times \cup {NullTime}
                                    /\ list[i].song \in Songs
<1>1. Len(list) \in Nat /\ DOMAIN list = 1 .. Len(list)
    BY LenProperties
<1>2. \A i \in DOMAIN list : list[i] \in Alarm
    BY <1>1, ElementOfSeq
<1> QED
    BY <1>1, <1>2 DEF Alarm

\* The index of an id that is in the list.
LEMMA IndexOfProperties ==
    ASSUME NEW list \in Seq(Alarm), NEW id \in Ids(list)
    PROVE  IndexOf(list, id) \in 1 .. Len(list) /\ list[IndexOf(list, id)].id = id
<1> DEFINE I == {i \in DOMAIN list : list[i].id = id}
<1>1. DOMAIN list = 1 .. Len(list) /\ Len(list) \in Nat
    BY LenProperties
<1>2. I \subseteq Nat /\ I # {}
    BY <1>1 DEF Ids
<1>3. Min(I) \in I
    BY <1>2, MinOfNats
<1> QED
    BY <1>1, <1>3 DEF IndexOf

\* The new id is above every id of the list.
LEMMA NextIdProperties ==
    ASSUME NEW list \in Seq(Alarm)
    PROVE  NextId(list) \in Nat \ {0} /\ \A id \in Ids(list) : id < NextId(list)
<1> DEFINE S == {0} \cup Ids(list)
<1>1. \A y \in Ids(list) : y \in 0 .. MaxId
    BY AlarmOfList DEF Ids
<1>2. MaxId \in Nat
    BY AlarmListAssumption
<1>3. 0 \in S /\ \A y \in S : y \in 0 .. MaxId
    BY <1>1, <1>2
<1>4. Max(S) \in S /\ \A y \in S : Max(S) >= y
    BY <1>2, <1>3, MaxOfNats
<1>5. NextId(list) = 1 + Max(S)
    BY DEF NextId
<1>6. \A y \in Ids(list) : y \in S
    OBVIOUS
<1> HIDE DEF S
<1> QED
    BY <1>3, <1>4, <1>5, <1>6

\* An alarm is inserted somewhere between the front and the end.
LEMMA InsertPosProperties ==
    ASSUME NEW list \in Seq(Alarm), NEW time
    PROVE  /\ InsertPos(list, time) \in 1 .. Len(list) + 1
           /\ \A i \in 1 .. Len(list) : i < InsertPos(list, time) => ~(time < list[i].time)
           /\ InsertPos(list, time) <= Len(list) => time < list[InsertPos(list, time)].time
<1> DEFINE later == {i \in DOMAIN list : time < list[i].time}
           P == later \cup {Len(list) + 1}
<1>1. DOMAIN list = 1 .. Len(list) /\ Len(list) \in Nat
    BY LenProperties
<1>2. P \subseteq Nat /\ P # {}
    BY <1>1
<1>3. Min(P) \in P /\ \A y \in P : Min(P) <= y
    BY <1>2, MinOfNats
<1>4. InsertPos(list, time) = Min(P)
    BY DEF InsertPos
<1>5. Min(P) \in 1 .. Len(list) + 1
    BY <1>1, <1>3
<1>6. Min(P) <= Len(list) => Min(P) \in later
    BY <1>1, <1>3
<1>7. \A i \in 1 .. Len(list) : i < Min(P) => i \notin later
    <2> SUFFICES ASSUME NEW i \in 1 .. Len(list), i < Min(P), i \in later
                 PROVE  FALSE
        OBVIOUS
    <2>1. i \in P
        OBVIOUS
    <2>2. Min(P) <= i
        BY <2>1, <1>3
    <2> HIDE DEF P
    <2> QED
        BY <2>2, <1>5
<1> HIDE DEF P
<1> QED
    BY <1>1, <1>4, <1>5, <1>6, <1>7

-----------------------------------------------------------------------------
\* Inserting an alarm with an id of its own, or a phantom, keeps ids distinct.
LEMMA InsertDistinct ==
    ASSUME NEW list \in Seq(Alarm), Distinct(list), NEW a \in Alarm,
           NEW i \in 1 .. Len(list) + 1, a.id = 0 \/ a.id \notin Ids(list)
    PROVE  Distinct(InsertAt(list, i, a))
<1> DEFINE t == InsertAt(list, i, a)
<1>1. /\ t \in Seq(Alarm) /\ Len(t) = Len(list) + 1 /\ Len(list) \in Nat
      /\ \A j \in 1 .. Len(list) + 1 :
            t[j] = IF j < i THEN list[j] ELSE IF j = i THEN a ELSE list[j - 1]
    BY InsertAtProperties, LenProperties
<1> HIDE DEF t
<1>2. DOMAIN t = 1 .. Len(list) + 1 /\ DOMAIN list = 1 .. Len(list)
    BY <1>1, LenProperties
<1>3. \A k \in DOMAIN list : list[k].id = a.id => a.id = 0
    BY DEF Ids
<1>4. ASSUME NEW j \in 1 .. Len(list) + 1, NEW k \in 1 .. Len(list) + 1,
             t[j].id = t[k].id
      PROVE  j = k \/ t[j].id = 0
    <2> DEFINE p(n) == IF n < i THEN n ELSE n - 1
    <2>1. CASE j = i /\ k # i
        <3>1. p(k) \in DOMAIN list /\ t[k] = list[p(k)] /\ t[j] = a
            BY <2>1, <1>1, <1>2
        <3> QED
            BY <3>1, <1>3, <1>4
    <2>2. CASE k = i /\ j # i
        <3>1. p(j) \in DOMAIN list /\ t[j] = list[p(j)] /\ t[k] = a
            BY <2>2, <1>1, <1>2
        <3> QED
            BY <3>1, <1>3, <1>4
    <2>3. CASE j # i /\ k # i
        <3>1. p(j) \in DOMAIN list /\ p(k) \in DOMAIN list
            BY <2>3, <1>1, <1>2
        <3>2. t[j] = list[p(j)] /\ t[k] = list[p(k)]
            BY <2>3, <1>1
        <3>3. p(j) = p(k) \/ list[p(j)].id = 0
            BY <3>1, <3>2, <1>4 DEF Distinct
        <3>4. p(j) = p(k) => j = k
            BY <2>3
        <3> QED
            BY <3>2, <3>3, <3>4
    <2> QED
        BY <2>1, <2>2, <2>3
<1>5. Distinct(t)
    BY <1>2, <1>4 DEF Distinct
<1> QED
    BY <1>5 DEF t

\* Removing an alarm keeps ids distinct and takes its id away.
LEMMA RemoveDistinct ==
    ASSUME NEW list \in Seq(Alarm), Distinct(list), NEW i \in 1 .. Len(list)
    PROVE  /\ Distinct(RemoveAt(list, i))
           /\ list[i].id # 0 => list[i].id \notin Ids(RemoveAt(list, i))
<1> DEFINE t == RemoveAt(list, i)
           p(n) == IF n < i THEN n ELSE n + 1
<1>1. /\ t \in Seq(Alarm) /\ Len(t) = Len(list) - 1 /\ Len(list) \in Nat
      /\ \A j \in 1 .. Len(list) - 1 : t[j] = IF j < i THEN list[j] ELSE list[j + 1]
    BY RemoveAtProperties, LenProperties
<1> HIDE DEF t
<1>2. DOMAIN t = 1 .. Len(list) - 1 /\ DOMAIN list = 1 .. Len(list)
    BY <1>1, LenProperties
<1>3. \A j \in DOMAIN t : p(j) \in DOMAIN list /\ t[j] = list[p(j)] /\ p(j) # i
    BY <1>1, <1>2
<1>4. \A j, k \in DOMAIN t : p(j) = p(k) => j = k
    BY <1>2
<1> HIDE DEF p
<1>5. Distinct(t)
    BY <1>3, <1>4 DEF Distinct
<1>6. list[i].id # 0 => \A j \in DOMAIN t : t[j].id # list[i].id
    BY <1>2, <1>3 DEF Distinct
<1> QED
    BY <1>5, <1>6 DEF t, Ids

\* Inserting at the position for its time keeps a list in order.
LEMMA InsertSorted ==
    ASSUME NEW list \in Seq(Alarm), Sorted(list), NEW time \in Times,
           NEW a \in Alarm, a.time \in {time, NullTime}
    PROVE  Sorted(InsertByTime(list, time, a))
<1> DEFINE pos == InsertPos(list, time)
           t == InsertAt(list, pos, a)
           p(n) == IF n < pos THEN n ELSE n - 1
<1>1. /\ pos \in 1 .. Len(list) + 1
      /\ \A i \in 1 .. Len(list) : i < pos => ~(time < list[i].time)
      /\ pos <= Len(list) => time < list[pos].time
    BY InsertPosProperties
<1> HIDE DEF pos
<1>2. /\ t \in Seq(Alarm) /\ Len(t) = Len(list) + 1 /\ Len(list) \in Nat
      /\ \A j \in 1 .. Len(list) + 1 :
            t[j] = IF j < pos THEN list[j] ELSE IF j = pos THEN a ELSE list[j - 1]
    BY <1>1, InsertAtProperties, LenProperties
<1> HIDE DEF t
<1>3. DOMAIN t = 1 .. Len(list) + 1 /\ DOMAIN list = 1 .. Len(list)
    BY <1>2, LenProperties
<1>4. time \in Nat /\ \A i \in DOMAIN list : list[i].time \in Int
    <2>1. \A i \in DOMAIN list : list[i].time \in Times \cup {NullTime}
        BY AlarmOfList
    <2> QED
        BY <2>1, TimesAreIntegers
<1>5. ASSUME NEW i \in DOMAIN list, i >= pos, list[i].time # NullTime
      PROVE  time <= list[i].time
    <2>1. pos \in DOMAIN list /\ time < list[pos].time /\ list[pos].time # NullTime
        BY <1>1, <1>3, <1>4, <1>5 DEF NullTime
    <2>2. i = pos \/ list[pos].time <= list[i].time
        BY <1>1, <1>3, <1>5, <2>1 DEF Sorted
    <2> QED
        BY <2>1, <2>2, <1>4
<1>6. ASSUME NEW j \in DOMAIN t, NEW k \in DOMAIN t, j < k,
             t[j].time # NullTime, t[k].time # NullTime
      PROVE  t[j].time <= t[k].time
    <2>1. CASE j # pos /\ k # pos
        <3>1. p(j) \in DOMAIN list /\ p(k) \in DOMAIN list /\ p(j) < p(k)
            BY <2>1, <1>1, <1>3, <1>6
        <3>2. t[j] = list[p(j)] /\ t[k] = list[p(k)]
            BY <2>1, <1>2, <1>3
        <3> QED
            BY <3>1, <3>2, <1>6 DEF Sorted
    <2>2. CASE j = pos
        <3>1. k - 1 \in DOMAIN list /\ k - 1 >= pos /\ t[k] = list[k - 1] /\ t[j].time = time
            BY <2>2, <1>1, <1>2, <1>3, <1>6
        <3> QED
            BY <3>1, <1>5, <1>6
    <2>3. CASE k = pos
        <3>1. j \in DOMAIN list /\ j < pos /\ t[j] = list[j] /\ t[k].time = time
            BY <2>3, <1>1, <1>2, <1>3, <1>6
        <3>2. ~(time < list[j].time)
            BY <3>1, <1>1, <1>3
        <3> QED
            BY <3>1, <3>2, <1>4
    <2> QED
        BY <2>1, <2>2, <2>3
<1>7. Sorted(t)
    BY <1>6 DEF Sorted
<1> QED
    BY <1>7 DEF t, pos, InsertByTime

\* So does taking an alarm out.
LEMMA RemoveSorted ==
    ASSUME NEW list \in Seq(Alarm), Sorted(list), NEW i \in 1 .. Len(list)
    PROVE  Sorted(RemoveAt(list, i))
<1> DEFINE t == RemoveAt(list, i)
           p(n) == IF n < i THEN n ELSE n + 1
<1>1. /\ t \in Seq(Alarm) /\ Len(t) = Len(list) - 1 /\ Len(list) \in Nat
      /\ \A j \in 1 .. Len(list) - 1 : t[j] = IF j < i THEN list[j] ELSE list[j + 1]
    BY RemoveAtProperties, LenProperties
<1> HIDE DEF t
<1>2. DOMAIN t = 1 .. Len(list) - 1 /\ DOMAIN list = 1 .. Len(list)
    BY <1>1, LenProperties
<1>3. \A j \in DOMAIN t : p(j) \in DOMAIN list /\ t[j] = list[p(j)]
    BY <1>1, <1>2
<1>4. \A j, k \in DOMAIN t : j < k => p(j) < p(k)
    BY <1>2
<1> HIDE DEF p
<1>5. Sorted(t)
    BY <1>3, <1>4 DEF Sorted
<1> QED
    BY <1>5 DEF t

-----------------------------------------------------------------------------
\* The alarms with other ids are the same after one is inserted, removed or
\* replaced.
LEMMA InsertOthers ==
    ASSUME NEW list \in Seq(Alarm), NEW a \in Alarm, NEW i \in 1 .. Len(list) + 1
    PROVE  Others(InsertAt(list, i, a), a.id) = Others(list, a.id)
<1> DEFINE t == InsertAt(list, i, a)
           p(n) == IF n < i THEN n ELSE n + 1
<1>1. /\ t \in Seq(Alarm) /\ Len(t) = Len(list) + 1 /\ Len(list) \in Nat
      /\ \A j \in 1 .. Len(list) + 1 :
            t[j] = IF j < i THEN list[j] ELSE IF j = i THEN a ELSE list[j - 1]
    BY InsertAtProperties, LenProperties
<1> HIDE DEF t
<1>2. DOMAIN t = 1 .. Len(list) + 1 /\ DOMAIN list = 1 .. Len(list)
    BY <1>1, LenProperties
<1>3. \A j \in DOMAIN list : p(j) \in DOMAIN t /\ t[p(j)] = list[j]
    BY <1>1, <1>2
<1>4. \A j \in DOMAIN t : j = i \/ \E k \in DOMAIN list : p(k) = j
    <2> SUFFICES ASSUME NEW j \in DOMAIN t, j # i
                 PROVE  \E k \in DOMAIN list : p(k) = j
        OBVIOUS
    <2>1. CASE j < i
        BY <2>1, <1>1, <1>2
    <2>2. CASE ~(j < i)
        <3>1. j - 1 \in DOMAIN list /\ p(j - 1) = j
            BY <2>2, <1>1, <1>2
        <3> QED
            BY <3>1
    <2> QED
        BY <2>1, <2>2
<1>5. t[i] = a
    BY <1>1
<1> HIDE DEF p
<1>6. Others(t, a.id) = Others(list, a.id)
    BY <1>3, <1>4, <1>5 DEF Others, ToSet
<1> QED
    BY <1>6 DEF t

LEMMA RemoveOthers ==
    ASSUME NEW list \in Seq(Alarm), NEW i \in 1 .. Len(list)
    PROVE  Others(RemoveAt(list, i), list[i].id) = Others(list, list[i].id)
<1> DEFINE t == RemoveAt(list, i)
           p(n) == IF n < i THEN n ELSE n + 1
<1>1. /\ t \in Seq(Alarm) /\ Len(t) = Len(list) - 1 /\ Len(list) \in Nat
      /\ \A j \in 1 .. Len(list) - 1 : t[j] = IF j < i THEN list[j] ELSE list[j + 1]
    BY RemoveAtProperties, LenProperties
<1> HIDE DEF t
<1>2. DOMAIN t = 1 .. Len(list) - 1 /\ DOMAIN list = 1 .. Len(list)
    BY <1>1, LenProperties
<1>3. \A j \in DOMAIN t : p(j) \in DOMAIN list /\ t[j] = list[p(j)]
    BY <1>1, <1>2
<1>4. \A j \in DOMAIN list : j = i \/ \E k \in DOMAIN t : p(k) = j
    <2> SUFFICES ASSUME NEW j \in DOMAIN list, j # i
                 PROVE  \E k \in DOMAIN t : p(k) = j
        OBVIOUS
    <2>1. CASE j < i
        BY <2>1, <1>1, <1>2
    <2>2. CASE ~(j < i)
        <3>1. j - 1 \in DOMAIN t /\ p(j - 1) = j
            BY <2>2, <1>1, <1>2
        <3> QED
            BY <3>1
    <2> QED
        BY <2>1, <2>2
<1> HIDE DEF p
<1>5. Others(t, list[i].id) = Others(list, list[i].id)
    BY <1>3, <1>4 DEF Others, ToSet
<1> QED
    BY <1>5 DEF t

\* Rewriting the alarm at one index without changing its id or time.
LEMMA ExceptKeeps ==
    ASSUME NEW list \in Seq(Alarm), NEW i \in 1 .. Len(list), NEW a \in Alarm,
           a.id = list[i].id, a.time = list[i].time
    PROVE  LET t == [list EXCEPT ![i] = a]
           IN  /\ t \in Seq(Alarm)
               /\ Distinct(list) => Distinct(t)
               /\ Sorted(list) => Sorted(t)
               /\ Others(t, a.id) = Others(list, a.id)
<1> DEFINE t == [list EXCEPT ![i] = a]
<1>1. /\ t \in Seq(Alarm) /\ Len(t) = Len(list)
      /\ \A j \in 1 .. Len(list) : t[j] = IF j = i THEN a ELSE list[j]
    BY ExceptSeq
<1>2. DOMAIN t = 1 .. Len(list) /\ DOMAIN list = 1 .. Len(list)
    BY <1>1, LenProperties
<1>3. \A j \in DOMAIN list : t[j].id = list[j].id /\ t[j].time = list[j].time
    BY <1>1, <1>2
<1>4. \A j \in DOMAIN list : list[j].id # a.id => t[j] = list[j]
    BY <1>1, <1>2
<1> HIDE DEF t
<1>5. Distinct(list) => Distinct(t)
    BY <1>2, <1>3 DEF Distinct
<1>6. Sorted(list) => Sorted(t)
    BY <1>2, <1>3 DEF Sorted
<1>7. Others(t, a.id) = Others(list, a.id)
    BY <1>2, <1>3, <1>4 DEF Others, ToSet
<1> QED
    BY <1>1, <1>5, <1>6, <1>7 DEF t

-----------------------------------------------------------------------------
\* What every operation on the list keeps: well-typed alarms, distinct ids, the
\* order of times, and the alarms it does not name.

LEMMA CreateAlarmKeeps ==
    ASSUME NEW list \in Seq(Alarm), NEW edit \in Edit, NextId(list) <= MaxId
    PROVE  /\ CreateAlarm(list, edit) \in Seq(Alarm)
           /\ Distinct(list) => Distinct(CreateAlarm(list, edit))
           /\ Sorted(list) => Sorted(CreateAlarm(list, edit))
           /\ Others(CreateAlarm(list, edit), NextId(list)) = Others(list, NextId(list))
           /\ NextId(list) \in 0 .. MaxId
<1> DEFINE a == [id |-> NextId(list), time |-> edit.time, isEnabled |-> TRUE,
                 delete_after |-> edit.delete_after, repeatDays |-> edit.repeatDays,
                 song |-> edit.song]
           pos == InsertPos(list, edit.time)
<1>1. NextId(list) \in 0 .. MaxId /\ NextId(list) \notin Ids(list)
    <2>1. MaxId \in Nat
        BY AlarmListAssumption
    <2>2. NextId(list) \in Nat \ {0} /\ \A id \in Ids(list) : id < NextId(list)
        BY NextIdProperties
    <2> QED
        BY <2>1, <2>2
<1>2. a \in Alarm /\ edit.time \in Times /\ a.time = edit.time /\ a.id = NextId(list)
    BY <1>1 DEF Alarm, Edit
<1>3. pos \in 1 .. Len(list) + 1
    BY InsertPosProperties
<1>4. CreateAlarm(list, edit) = InsertByTime(list, edit.time, a)
    BY DEF CreateAlarm
<1> HIDE DEF a
<1>5. InsertByTime(list, edit.time, a) = InsertAt(list, pos, a)
    BY DEF InsertByTime
<1> HIDE DEF pos
<1>6. InsertAt(list, pos, a) \in Seq(Alarm)
    BY <1>2, <1>3, InsertAtProperties
<1>7. Distinct(list) => Distinct(InsertAt(list, pos, a))
    BY <1>1, <1>2, <1>3, InsertDistinct
<1>8. Sorted(list) => Sorted(InsertByTime(list, edit.time, a))
    BY <1>2, InsertSorted
<1>9. Others(InsertAt(list, pos, a), NextId(list)) = Others(list, NextId(list))
    BY <1>2, <1>3, InsertOthers
<1> QED
    BY <1>1, <1>4, <1>5, <1>6, <1>7, <1>8, <1>9

LEMMA DeleteAlarmKeeps ==
    ASSUME NEW list \in Seq(Alarm), NEW id
    PROVE  /\ DeleteAlarm(list, id) \in Seq(Alarm)
           /\ Distinct(list) => Distinct(DeleteAlarm(list, id))
           /\ Sorted(list) => Sorted(DeleteAlarm(list, id))
           /\ Others(DeleteAlarm(list, id), id) = Others(list, id)
<1>1. CASE id \notin Ids(list)
    BY <1>1 DEF DeleteAlarm
<1>2. CASE id \in Ids(list)
    <2> DEFINE i == IndexOf(list, id)
    <2>1. i \in 1 .. Len(list) /\ list[i].id = id
        BY <1>2, IndexOfProperties
    <2>2. DeleteAlarm(list, id) = RemoveAt(list, i)
        BY <1>2 DEF DeleteAlarm
    <2> HIDE DEF i
    <2> QED
        BY <2>1, <2>2, RemoveAtProperties, RemoveDistinct, RemoveSorted, RemoveOthers
<1> QED
    BY <1>1, <1>2

LEMMA ChangeAlarmKeeps ==
    ASSUME NEW list \in Seq(Alarm), NEW id \in Nat, NEW edit \in Edit
    PROVE  /\ ChangeAlarm(list, id, edit) \in Seq(Alarm)
           /\ Distinct(list) => Distinct(ChangeAlarm(list, id, edit))
           /\ Sorted(list) => Sorted(ChangeAlarm(list, id, edit))
           /\ \E n \in 0 .. MaxId :
                 Others(ChangeAlarm(list, id, edit), n) = Others(list, n)
           /\ id \in Ids(list) => Others(ChangeAlarm(list, id, edit), id) = Others(list, id)
<1>0. edit.time \in Times
    BY DEF Edit
<1>3. "" \in Songs /\ 0 \in 0 .. MaxId
    <2>1. MaxId \in Nat
        BY AlarmListAssumption
    <2>2. 0 \in 0 .. MaxId
        BY <2>1
    <2> QED
        BY <2>2, AlarmListAssumption
<1>1. CASE id \in Ids(list)
    <2> DEFINE i == IndexOf(list, id)
               a == [list[i] EXCEPT !.time = edit.time, !.song = edit.song,
                                    !.delete_after = edit.delete_after,
                                    !.repeatDays = edit.repeatDays]
               rest == RemoveAt(list, i)
               pos == InsertPos(rest, edit.time)
    <2>1. i \in 1 .. Len(list) /\ i \in DOMAIN list /\ list[i].id = id /\ list[i] \in Alarm
        BY <1>1, IndexOfProperties, AlarmOfList
    <2>2. a \in Alarm /\ a.id = id /\ a.time = edit.time
        BY <2>1 DEF Alarm, Edit
    <2>3. ChangeAlarm(list, id, edit) = InsertByTime(rest, edit.time, a)
        BY <1>1 DEF ChangeAlarm
    <2> HIDE DEF a, i
    <2>4. /\ rest \in Seq(Alarm)
          /\ Distinct(list) => Distinct(rest) /\ (id = 0 \/ id \notin Ids(rest))
          /\ Sorted(list) => Sorted(rest)
          /\ Others(rest, id) = Others(list, id)
        BY <2>1, RemoveAtProperties, RemoveDistinct, RemoveSorted, RemoveOthers
    <2> HIDE DEF rest
    <2>5. pos \in 1 .. Len(rest) + 1 /\ InsertByTime(rest, edit.time, a) = InsertAt(rest, pos, a)
        BY <2>4, InsertPosProperties DEF InsertByTime
    <2> HIDE DEF pos
    <2>6. InsertAt(rest, pos, a) \in Seq(Alarm)
        BY <2>2, <2>4, <2>5, InsertAtProperties
    <2>7. Distinct(list) => Distinct(InsertAt(rest, pos, a))
        BY <2>2, <2>4, <2>5, InsertDistinct
    <2>8. Sorted(list) => Sorted(InsertByTime(rest, edit.time, a))
        BY <1>0, <2>2, <2>4, InsertSorted
    <2>9. Others(InsertAt(rest, pos, a), id) = Others(list, id)
        BY <2>2, <2>4, <2>5, InsertOthers
    <2>10. id \in 0 .. MaxId
        BY <2>1 DEF Alarm
    <2> QED
        BY <2>3, <2>5, <2>6, <2>7, <2>8, <2>9, <2>10
<1>2. CASE id \notin Ids(list)
    <2> DEFINE pos == InsertPos(list, edit.time)
    <2>1. Phantom \in Alarm /\ Phantom.id = 0 /\ Phantom.time = NullTime
        <3>1. "" \in Songs /\ 0 \in 0 .. MaxId
            BY <1>3
        <3> QED
            BY <3>1 DEF Phantom, Alarm
    <2>2. ChangeAlarm(list, id, edit) = InsertByTime(list, edit.time, Phantom)
        BY <1>2 DEF ChangeAlarm
    <2>3. pos \in 1 .. Len(list) + 1
          /\ InsertByTime(list, edit.time, Phantom) = InsertAt(list, pos, Phantom)
        BY InsertPosProperties DEF InsertByTime
    <2> HIDE DEF pos
    <2>4. InsertAt(list, pos, Phantom) \in Seq(Alarm)
        BY <2>1, <2>3, InsertAtProperties
    <2>5. Distinct(list) => Distinct(InsertAt(list, pos, Phantom))
        BY <2>1, <2>3, InsertDistinct
    <2>6. Sorted(list) => Sorted(InsertByTime(list, edit.time, Phantom))
        BY <1>0, <2>1, InsertSorted
    <2>7. Others(InsertAt(list, pos, Phantom), 0) = Others(list, 0)
        BY <2>1, <2>3, InsertOthers
    <2>8. 0 \in 0 .. MaxId
        BY <1>3
    <2> QED
        BY <1>2, <2>2, <2>3, <2>4, <2>5, <2>6, <2>7, <2>8
<1> QED
    BY <1>1, <1>2

LEMMA UpdateStatusKeeps ==
    ASSUME NEW list \in Seq(Alarm), NEW id, NEW status \in BOOLEAN
    PROVE  /\ UpdateStatus(list, id, status) \in Seq(Alarm)
           /\ Distinct(list) => Distinct(UpdateStatus(list, id, status))
           /\ Sorted(list) => Sorted(UpdateStatus(list, id, status))
           /\ Others(UpdateStatus(list, id, status), id) = Others(list, id)
<1>1. CASE id \notin Ids(list)
    BY <1>1 DEF UpdateStatus
<1>2. CASE id \in Ids(list)
    <2> DEFINE i == IndexOf(list, id)
               a == [list[i] EXCEPT !.isEnabled = status]
    <2>1. i \in 1 .. Len(list) /\ i \in DOMAIN list /\ list[i].id = id /\ list[i] \in Alarm
        BY <1>2, IndexOfProperties, AlarmOfList
    <2>2. a \in Alarm /\ a.id = list[i].id /\ a.time = list[i].time
        BY <2>1 DEF Alarm
    <2>3. UpdateStatus(list, id, status) = [list EXCEPT ![i] = a]
        BY <1>2 DEF UpdateStatus
    <2> HIDE DEF i, a
    <2> DEFINE t == [list EXCEPT ![i] = a]
    <2>4. /\ t \in Seq(Alarm)
          /\ Distinct(list) => Distinct(t)
          /\ Sorted(list) => Sorted(t)
          /\ Others(t, a.id) = Others(list, a.id)
        BY <2>1, <2>2, ExceptKeeps
    <2> HIDE DEF t
    <2>5. UpdateStatus(list, id, status) = t
        BY <2>3 DEF t
    <2> QED
        BY <2>1, <2>2, <2>4, <2>5
<1> QED
    BY <1>1, <1>2

LEMMA StartAlarmKeeps ==
    ASSUME NEW list \in Seq(Alarm), NEW id
    PROVE  /\ StartAlarm(list, id) \in Seq(Alarm)
           /\ Distinct(list) => Distinct(StartAlarm(list, id))
           /\ Sorted(list) => Sorted(StartAlarm(list, id))
           /\ Others(StartAlarm(list, id), id) = Others(list, id)
<1>1. CASE id \notin Ids(list)
    BY <1>1 DEF StartAlarm
<1>2. CASE id \in Ids(list)
    <2> DEFINE i == IndexOf(list, id)
    <2>1. i \in 1 .. Len(list) /\ i \in DOMAIN list /\ list[i].id = id /\ list[i] \in Alarm
        BY <1>2, IndexOfProperties, AlarmOfList
    <2>2. CASE list[i].delete_after
        <3>1. StartAlarm(list, id) = RemoveAt(list, i)
            BY <1>2, <2>2 DEF StartAlarm
        <3> HIDE DEF i
        <3> QED
            BY <2>1, <3>1, RemoveAtProperties, RemoveDistinct, RemoveSorted, RemoveOthers
    <2>3. CASE ~list[i].delete_after
        <3> DEFINE a == [list[i] EXCEPT !.isEnabled = (list[i].repeatDays # {})]
        <3>1. a \in Alarm /\ a.id = list[i].id /\ a.time = list[i].time
            BY <2>1 DEF Alarm
        <3>2. StartAlarm(list, id) = [list EXCEPT ![i] = a]
            BY <1>2, <2>3 DEF StartAlarm
        <3> HIDE DEF i, a
        <3> DEFINE t == [list EXCEPT ![i] = a]
        <3>3. /\ t \in Seq(Alarm)
              /\ Distinct(list) => Distinct(t)
              /\ Sorted(list) => Sorted(t)
              /\ Others(t, a.id) = Others(list, a.id)
            BY <2>1, <3>1, ExceptKeeps
        <3> HIDE DEF t
        <3>4. StartAlarm(list, id) = t
            BY <3>2 DEF t
        <3> QED
            BY <2>1, <3>1, <3>3, <3>4
    <2> QED
        BY <2>2, <2>3
<1> QED
    BY <1>1, <1>2

\* read_json_alarms keeps ids and times and fills in what is missing.
LEMMA ReadJsonAlarmsKeeps ==
    ASSUME NEW json \in Seq(JsonAlarm)
    PROVE  /\ ReadJsonAlarms(json) \in Seq(Alarm)
           /\ Distinct(json) => Distinct(ReadJsonAlarms(json))
<1> DEFINE t == ReadJsonAlarms(json)
<1>1. Len(json) \in Nat /\ DOMAIN json = 1 .. Len(json)
    BY LenProperties
<1>2. \A i \in DOMAIN json : json[i] \in JsonAlarm
    BY <1>1, ElementOfSeq
<1>3. t = [i \in 1 .. Len(json) |-> ReadAlarm(json[i])]
    BY <1>1 DEF ReadJsonAlarms
<1>4. \A a \in JsonAlarm : ReadAlarm(a) \in Alarm /\ ReadAlarm(a).id = a.id
    BY AlarmListAssumption DEF ReadAlarm, JsonAlarm, Alarm
<1>5. \A i \in 1 .. Len(json) : t[i] \in Alarm /\ t[i].id = json[i].id
    BY <1>1, <1>2, <1>3, <1>4
<1>6. DOMAIN t = 1 .. Len(json)
    BY <1>3
<1>7. t \in Seq(Alarm)
    BY <1>1, <1>2, <1>3, <1>4
<1> HIDE DEF t
<1>8. Distinct(json) => Distinct(t)
    BY <1>1, <1>5, <1>6 DEF Distinct
<1> QED
    BY <1>7, <1>8 DEF t
=============================================================================
