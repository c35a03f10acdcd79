-------------------------- MODULE AlarmClockProofs --------------------------
(***************************************************************************)
(* When alarms ring, for a week, a day and a minute of any length, any list *)
(* and any number of edits.                                                 *)
(***************************************************************************)
EXTENDS AlarmClock, AlarmListProofs

-----------------------------------------------------------------------------
(* Days, minutes and seconds *)

\* The constants of the week.
LEMMA DayLength ==
    /\ DayMinutes \in Nat \ {0} /\ NumDays \in Nat \ {0} /\ HourMinutes \in Nat \ {0}
    /\ MinuteSecs \in Nat /\ MinuteSecs >= 2
    /\ DaySecs \in Nat /\ DaySecs >= 2
    /\ Week \in Nat /\ Week >= DayMinutes
    /\ WeekDays = 0 .. NumDays - 1
<1>1. /\ DayMinutes \in Nat \ {0} /\ NumDays \in Nat \ {0} /\ MinuteSecs \in Nat \ {0, 1}
      /\ HourMinutes \in Nat \ {0} /\ WeekDays = 0 .. NumDays - 1
    BY AlarmListAssumption, AlarmClockAssumption
<1>2. \A x \in Nat \ {0}, y \in Nat : x * y \in Nat /\ x * y >= y
    OBVIOUS
<1>3. DaySecs \in Nat /\ DaySecs >= MinuteSecs
    BY <1>1, <1>2 DEF DaySecs
<1>4. Week \in Nat /\ Week >= DayMinutes
    BY <1>1, <1>2 DEF Week
<1> QED
    BY <1>1, <1>3, <1>4

LEMMA MomentOf ==
    ASSUME NEW t \in Moments
    PROVE  /\ Day(t) \in 0 .. NumDays - 1 /\ Sec(t) \in 0 .. DaySecs - 1
           /\ t = Day(t) * DaySecs + Sec(t)
<1>1. DaySecs \in Nat \ {0} /\ NumDays \in Nat
    BY DayLength
<1>2. t \in Nat /\ t < NumDays * DaySecs
    BY <1>1 DEF Moments
<1>3. Day(t) \in Nat /\ Sec(t) \in 0 .. DaySecs - 1 /\ t = Day(t) * DaySecs + Sec(t)
    BY <1>1, <1>2, Division DEF Day, Sec
<1>4. \A q, n \in Nat, d \in Nat \ {0}, r \in Nat : q * d + r < n * d => q < n
    OBVIOUS
<1>5. Day(t) < NumDays
    BY <1>1, <1>2, <1>3, <1>4
<1> QED
    BY <1>1, <1>3, <1>5

\* The second after t: of the same day, or the first of the next.
LEMMA FollowingMoment ==
    ASSUME NEW t \in Moments
    PROVE  /\ Following(t) \in Moments
           /\ Sec(t) < DaySecs - 1 => Day(Following(t)) = Day(t) /\ Sec(Following(t)) = Sec(t) + 1
           /\ Sec(t) = DaySecs - 1 => /\ Sec(Following(t)) = 0
                                      /\ Day(Following(t)) = IF Day(t) = NumDays - 1 THEN 0
                                                             ELSE Day(t) + 1
<1> DEFINE D == DaySecs  N == NumDays  d == Day(t)  s == Sec(t)  u == Following(t)
<1>1. D \in Nat \ {0} /\ N \in Nat \ {0} /\ N * D \in Nat \ {0}
    BY DayLength
<1>2. d \in 0 .. N - 1 /\ s \in 0 .. D - 1 /\ t = d * D + s
    BY MomentOf
<1>3. u = (t + 1) % (N * D) /\ (u \in Moments <=> u \in 0 .. N * D - 1)
    BY DEF Following, Moments
<1>4. Day(u) = u \div D /\ Sec(u) = u % D
    BY DEF Day, Sec
<1> HIDE DEF D, N, d, s, u
<1>5. \A x, y \in Nat, z \in Nat \ {0} : x < y => x * z + z <= y * z
    OBVIOUS
<1>6. d * D + D <= N * D /\ d * D \in Nat
    BY <1>1, <1>2, <1>5
<1>7. t + 1 = d * D + s + 1 /\ t + 1 \in Nat /\ t + 1 <= N * D
    BY <1>1, <1>2, <1>6
<1>8. u = IF t + 1 = N * D THEN 0 ELSE t + 1
    <2>1. \A m \in Nat \ {0}, x \in Nat : x <= m => x % m = IF x = m THEN 0 ELSE x
        OBVIOUS
    <2>2. PICK m \in Nat \ {0} : m = N * D
        BY <1>1
    <2>3. t + 1 <= m /\ u = (t + 1) % m
        BY <1>3, <1>7, <2>2
    <2>4. u = IF t + 1 = m THEN 0 ELSE t + 1
        BY <1>7, <2>1, <2>3
    <2> QED
        BY <2>2, <2>4
<1>9. u \in Nat /\ u \in 0 .. N * D - 1
    BY <1>1, <1>7, <1>8
<1>10. CASE s < D - 1
    <2>1. u = d * D + (s + 1) /\ s + 1 \in 0 .. D - 1
        BY <1>1, <1>2, <1>6, <1>7, <1>8, <1>10
    <2>2. u \div D = d /\ u % D = s + 1
        BY <1>1, <1>2, <1>9, <2>1, DivisionIsUnique
    <2> QED
        BY <1>1, <1>2, <1>3, <1>4, <1>9, <1>10, <2>2 DEF D, N, d, s, u
<1>11. CASE s = D - 1 /\ d = N - 1
    <2>1. \A x, y \in Nat \ {0} : (x - 1) * y + (y - 1) + 1 = x * y
        OBVIOUS
    <2>2. u = 0
        BY <1>1, <1>7, <1>8, <1>11, <2>1
    <2>3. 0 = 0 * D + 0 /\ 0 \in 0 .. D - 1
        BY <1>1
    <2>4. 0 \div D = 0 /\ 0 % D = 0
        BY <1>1, <2>3, DivisionIsUnique
    <2> QED
        BY <1>1, <1>2, <1>3, <1>4, <1>9, <1>11, <2>2, <2>4 DEF D, N, d, s, u
<1>12. CASE s = D - 1 /\ d # N - 1
    <2>1. (d + 1) * D = d * D + D
        BY <1>1, <1>2
    <2>2. d + 1 < N /\ d + 1 \in Nat
        BY <1>1, <1>2, <1>12
    <2>3. (d + 1) * D + D <= N * D
        BY <1>1, <1>5, <2>2
    <2>4. u = (d + 1) * D + 0 /\ 0 \in 0 .. D - 1
        BY <1>1, <1>2, <1>6, <1>7, <1>8, <1>12, <2>1, <2>3
    <2>5. u \div D = d + 1 /\ u % D = 0
        BY <1>1, <1>9, <2>2, <2>4, DivisionIsUnique
    <2> QED
        BY <1>1, <1>2, <1>3, <1>4, <1>9, <1>12, <2>5 DEF D, N, d, s, u
<1> QED
    BY <1>1, <1>2, <1>10, <1>11, <1>12 DEF D, N, d, s, u

-----------------------------------------------------------------------------
(* What find_first_alarm finds *)

\* The day after.
NextDay(day) == IF day = NumDays - 1 THEN 0 ELSE day + 1

\* A candidate is the alarm's time some days ahead: today if it does not repeat
\* or is still to come, tomorrow if it is set for tomorrow.
IsAhead(a, day, sec, m, k) ==
    /\ m = a.time + k * DayMinutes
    /\ k = 0 => a.repeatDays = {} \/ (day \in a.repeatDays /\ a.time * MinuteSecs > sec)
    /\ k = 1 => NextDay(day) \in a.repeatDays

LEMMA RepeatsAhead ==
    ASSUME NEW a \in Alarm, a.time # NullTime, a.repeatDays # {},
           NEW day \in 0 .. NumDays - 1, NEW sec \in Nat, NEW ms \in BOOLEAN,
           NEW m \in Repeats(a, day, sec, ms)
    PROVE  \E k \in 0 .. NumDays : IsAhead(a, day, sec, m, k)
<1> DEFINE onOrAfter == {d \in a.repeatDays : d >= day}
           toRight   == IF onOrAfter = {} THEN day ELSE Min(onOrAfter)
           toLeft    == Min(a.repeatDays)
           M         == DayMinutes
           N         == NumDays
<1>1. /\ N \in Nat \ {0} /\ M \in Nat \ {0} /\ Week = N * M
      /\ a.repeatDays \subseteq 0 .. N - 1
    BY DayLength DEF Week, Alarm
<1>2. a.time \in Nat /\ Minutes(a) = a.time
    BY <1>1 DEF Minutes, Alarm, Times
<1>3. toLeft \in a.repeatDays /\ toLeft \in Nat
    <2>1. a.repeatDays \subseteq Nat
        BY <1>1
    <2> QED
        BY <2>1, MinOfNats
<1>4. toRight > day => toRight \in a.repeatDays /\ toRight \in Nat
    <2>1. onOrAfter \subseteq Nat /\ onOrAfter \subseteq a.repeatDays
        BY <1>1
    <2>2. onOrAfter # {} => Min(onOrAfter) \in onOrAfter
        BY <2>1, MinOfNats
    <2>3. CASE onOrAfter = {}
        BY <2>3
    <2>4. CASE onOrAfter # {}
        BY <2>1, <2>2, <2>4
    <2> QED
        BY <2>3, <2>4
<1>5. \/ day \in a.repeatDays /\ a.time * MinuteSecs > sec /\ m = a.time
      \/ day \in a.repeatDays /\ m = a.time + Week
      \/ toRight > day /\ m = a.time + (toRight - day) * M
      \/ toLeft < day /\ m = a.time + Week - (day - toLeft) * M
    BY <1>2 DEF Repeats
<1> HIDE DEF onOrAfter, toRight, toLeft, M, N
<1>6. CASE day \in a.repeatDays /\ a.time * MinuteSecs > sec /\ m = a.time
    <2>1. IsAhead(a, day, sec, m, 0)
        BY <1>1, <1>2, <1>6 DEF IsAhead, M
    <2> QED
        BY <1>1, <2>1 DEF N
<1>7. CASE day \in a.repeatDays /\ m = a.time + Week
    <2>1. m = a.time + N * M /\ (N = 1 => day = 0)
        BY <1>1, <1>7 DEF N
    <2>2. IsAhead(a, day, sec, m, N)
        BY <1>1, <1>7, <2>1 DEF IsAhead, NextDay, M, N
    <2> QED
        BY <1>1, <2>2 DEF N
<1>8. CASE toRight > day /\ m = a.time + (toRight - day) * M
    <2> DEFINE k == toRight - day
    <2>1. toRight \in a.repeatDays /\ toRight \in 0 .. N - 1 /\ k \in 1 .. N
        BY <1>1, <1>4, <1>8 DEF N
    <2>2. k = 1 => NextDay(day) = toRight
        BY <1>1, <2>1 DEF NextDay, N
    <2>3. IsAhead(a, day, sec, m, k)
        BY <1>8, <2>1, <2>2 DEF IsAhead, M
    <2> QED
        BY <1>1, <2>1, <2>3 DEF N
<1>9. CASE toLeft < day /\ m = a.time + Week - (day - toLeft) * M
    <2> DEFINE k == N - (day - toLeft)
    <2>1. toLeft \in 0 .. N - 1 /\ k \in 1 .. N
        BY <1>1, <1>3, <1>9 DEF N
    <2>2. k = 1 => NextDay(day) = toLeft
        BY <1>1, <2>1 DEF NextDay, N
    <2>3. m = a.time + k * M
        BY <1>1, <1>2, <1>9, <2>1 DEF N
    <2>4. IsAhead(a, day, sec, m, k)
        BY <1>3, <2>1, <2>2, <2>3 DEF IsAhead, M
    <2> QED
        BY <1>1, <2>1, <2>4 DEF N
<1> QED
    BY <1>5, <1>6, <1>7, <1>8, <1>9

LEMMA CandidatesAhead ==
    ASSUME NEW a \in Alarm, a.time = NullTime => a.repeatDays = {},
           NEW day \in 0 .. NumDays - 1, NEW sec \in Nat, NEW ms \in BOOLEAN,
           NEW m \in Candidates(a, day, sec, ms)
    PROVE  /\ a.isEnabled
           /\ \/ a.time = NullTime /\ m = -HourMinutes - 1
              \/ a.time \in Times /\ \E k \in 0 .. NumDays : IsAhead(a, day, sec, m, k)
           /\ m \in -HourMinutes - 1 .. 2 * Week
<1>1. a.isEnabled /\ a.time \in Times \cup {NullTime}
    BY DEF Candidates, Alarm
<1>2. DayMinutes \in Nat \ {0} /\ HourMinutes \in Nat /\ NumDays \in Nat \ {0} /\ Week \in Nat
    BY DayLength
<1>3. CASE a.time = NullTime
    <2>1. m = -HourMinutes - 1
        BY <1>1, <1>3 DEF Candidates, Minutes
    <2> QED
        BY <1>1, <1>2, <1>3, <2>1
<1>4. CASE a.time # NullTime
    <2>1. \E k \in 0 .. NumDays : IsAhead(a, day, sec, m, k)
        <3>1. CASE a.repeatDays = {}
            <4>1. m = a.time /\ a.time \in Nat
                BY <1>1, <1>2, <1>4, <3>1 DEF Candidates, Minutes, Times
            <4>2. m = a.time + 0 * DayMinutes
                BY <1>2, <4>1
            <4>3. IsAhead(a, day, sec, m, 0)
                BY <3>1, <4>2 DEF IsAhead
            <4> QED
                BY <1>2, <4>3
        <3>2. CASE a.repeatDays # {}
            <4>1. m \in Repeats(a, day, sec, ms)
                BY <1>1, <3>2 DEF Candidates
            <4> QED
                BY <1>4, <3>2, <4>1, RepeatsAhead
        <3> QED
            BY <3>1, <3>2
    <2>2. PICK k \in 0 .. NumDays : m = a.time + k * DayMinutes
        BY <2>1 DEF IsAhead
    <2>3. \A x, n \in Nat, y \in Nat : x <= n => x * y <= n * y /\ x * y \in Nat
        OBVIOUS
    <2>4. k * DayMinutes <= Week /\ k * DayMinutes \in Nat
        BY <1>2, <2>3 DEF Week
    <2>5. a.time \in 0 .. DayMinutes - 1 /\ DayMinutes <= Week
        BY <1>1, <1>4, DayLength DEF Times
    <2>6. m \in -HourMinutes - 1 .. 2 * Week
        BY <1>2, <2>2, <2>4, <2>5
    <2> QED
        BY <1>1, <1>4, <2>1, <2>6
<1> QED
    BY <1>3, <1>4

\* The first alarm is one of the list, with the smallest of all candidates.
LEMMA FirstFound ==
    ASSUME NEW list \in Seq(Alarm), OnlyPhantomsLackTime(list), NEW t \in Moments,
           NEW ms \in BOOLEAN
    PROVE  LET f == FindFirst(list, t, ms)
               of(i) == Candidates(list[i], Day(t), Sec(t), ms)
           IN  /\ f \in [minutes : -HourMinutes - 1 .. 2 * Week, id : -1 .. MaxId]
               /\ f = NoFirst => \A i \in DOMAIN list : of(i) = {}
               /\ f # NoFirst =>
                     /\ \E i \in DOMAIN list : /\ f.id = list[i].id /\ f.minutes \in of(i)
                                              /\ \A k \in DOMAIN list :
                                                    f.minutes \in of(k) => i <= k
                     /\ \A i \in DOMAIN list : \A m \in of(i) : f.minutes <= m
<1> DEFINE of(i) == Candidates(list[i], Day(t), Sec(t), ms)
           all   == UNION {of(i) : i \in DOMAIN list}
           f     == FindFirst(list, t, ms)
<1>1. Day(t) \in 0 .. NumDays - 1 /\ Sec(t) \in Nat
    BY MomentOf, DayLength
<1>2. \A i \in DOMAIN list : of(i) \subseteq -HourMinutes - 1 .. 2 * Week
    <2> TAKE i \in DOMAIN list
    <2>1. list[i] \in Alarm /\ (list[i].time = NullTime => list[i].repeatDays = {})
        BY AlarmOfList DEF OnlyPhantomsLackTime
    <2> QED
        BY <1>1, <2>1, CandidatesAhead
<1>3. HourMinutes \in Nat /\ Week \in Nat /\ MaxId \in Nat
    BY DayLength, AlarmListAssumption
<1> HIDE DEF of
<1>4. CASE all = {}
    <2>1. f = NoFirst
        BY <1>4 DEF FindFirst, of
    <2>2. \A i \in DOMAIN list : of(i) = {}
        BY <1>4
    <2>3. NoFirst \in [minutes : -HourMinutes - 1 .. 2 * Week, id : -1 .. MaxId]
        BY <1>3 DEF NoFirst
    <2> QED
        BY <2>1, <2>2, <2>3 DEF of
<1>5. CASE all # {}
    <2> DEFINE I == {i \in DOMAIN list : Min(all) \in of(i)}
    <2>1. Min(all) \in all /\ \A y \in all : Min(all) <= y
        <3>1. all \subseteq Int
            BY <1>2, <1>3
        <3>2. \A x \in all : -(HourMinutes + 1) <= x
            BY <1>2, <1>3
        <3>3. HourMinutes + 1 \in Nat
            BY <1>3
        <3> HIDE DEF all
        <3> QED
            BY <1>5, <3>1, <3>2, <3>3, MinOfIntegers
    <2>2. Min(I) \in I /\ \A k \in I : Min(I) <= k
        <3>1. I \subseteq Nat
            BY AlarmOfList
        <3>2. I # {}
            BY <2>1
        <3> HIDE DEF I
        <3> QED
            BY <3>1, <3>2, MinOfNats
    <2>3. f = [minutes |-> Min(all), id |-> list[Min(I)].id]
        BY <1>5 DEF FindFirst, of
    <2>4. /\ Min(I) \in DOMAIN list /\ Min(all) \in of(Min(I))
          /\ \A k \in DOMAIN list : Min(all) \in of(k) => Min(I) <= k
        BY <2>2
    <2>5. list[Min(I)].id \in 0 .. MaxId
        BY <2>4, AlarmOfList
    <2>6. Min(all) \in -HourMinutes - 1 .. 2 * Week
        BY <1>2, <2>4
    <2>7. \A i \in DOMAIN list : \A m \in of(i) : Min(all) <= m
        BY <2>1
    <2> HIDE DEF all, I
    <2>8. f.minutes = Min(all) /\ f.id = list[Min(I)].id
        BY <2>3
    <2>9. f \in [minutes : -HourMinutes - 1 .. 2 * Week, id : -1 .. MaxId]
        BY <2>3, <2>5, <2>6, <1>3
    <2>10. f # NoFirst
        BY <2>5, <2>8, <1>3 DEF NoFirst
    <2> HIDE DEF f
    <2>11. /\ \E i \in DOMAIN list : /\ f.id = list[i].id /\ f.minutes \in of(i)
                                    /\ \A k \in DOMAIN list : f.minutes \in of(k) => i <= k
           /\ \A i \in DOMAIN list : \A m \in of(i) : f.minutes <= m
        BY <2>4, <2>7, <2>8
    <2> QED
        BY <2>9, <2>10, <2>11 DEF of, f
<1> QED
    BY <1>4, <1>5

-----------------------------------------------------------------------------
(* When getTimeDiff rings *)

\* A minute of the day begins at a second of it.
LEMMA MinuteBegins ==
    ASSUME NEW time \in Times
    PROVE  time * MinuteSecs \in 0 .. DaySecs - 1 /\ (time = 0 <=> time * MinuteSecs = 0)
<1>1. /\ DayMinutes \in Nat \ {0} /\ MinuteSecs \in Nat \ {0} /\ DaySecs = DayMinutes * MinuteSecs
      /\ DaySecs \in Nat
    BY DayLength DEF DaySecs
<1>2. time \in Nat /\ time < DayMinutes
    BY <1>1 DEF Times
<1>3. \A x, y \in Nat, z \in Nat \ {0} :
         /\ x < y => x * z + z <= y * z
         /\ x * z \in Nat /\ (x = 0 <=> x * z = 0)
    OBVIOUS
<1> QED
    BY <1>1, <1>2, <1>3

\* The alarm k days ahead is a second away: it begins with the next second, which
\* may be the first of the next day.
LEMMA SecondsToFirst ==
    ASSUME NEW time \in Times, NEW k \in 0 .. NumDays, NEW f, f.minutes = time + k * DayMinutes,
           NEW sec \in 0 .. DaySecs - 1, Difference(f, sec) <= 1
    PROVE  \/ k = 0 /\ time * MinuteSecs = sec + 1
           \/ k \in {0, 1} /\ time * MinuteSecs = 0 /\ sec = DaySecs - 1
<1> DEFINE at == time * MinuteSecs
           D  == DaySecs
<1>1. at \in 0 .. D - 1 /\ D \in Nat /\ NumDays \in Nat
    BY MinuteBegins, DayLength
<1>2. f.minutes * MinuteSecs = at + k * D
    <2>1. \A x, n, d, m \in Nat : (x + n * d) * m = x * m + n * (d * m)
        OBVIOUS
    <2>2. time \in Nat /\ k \in Nat /\ DayMinutes \in Nat /\ MinuteSecs \in Nat
        BY DayLength DEF Times
    <2> QED
        BY <2>1, <2>2 DEF DaySecs
<1>3. k * D \in Nat /\ (k = 0 => k * D = 0) /\ (k = 1 => k * D = D) /\ (k > 1 => k * D >= D + D)
    <2>1. \A n, d \in Nat : n * d \in Nat /\ 0 * d = 0 /\ 1 * d = d /\ (n > 1 => n * d >= d + d)
        OBVIOUS
    <2> QED
        BY <1>1, <2>1
<1>4. PICK m \in Int : m = f.minutes * MinuteSecs
    BY <1>1, <1>2, <1>3
<1>5. IF m > sec THEN m - sec <= 1 ELSE D - (sec - m) <= 1
    BY <1>4 DEF Difference
<1> HIDE DEF at, D
<1>6. PICK kd \in Nat : kd = k * D
    BY <1>3
<1>7. \/ k = 0 /\ at = sec + 1
      \/ k \in {0, 1} /\ at = 0 /\ sec = D - 1
    BY <1>1, <1>2, <1>3, <1>4, <1>5, <1>6 DEF D
<1> QED
    BY <1>7 DEF at, D

\* What fires is an alarm of the list the first was found in, whose minute begins
\* with the next second; on a day it is set for if the first was found in this
\* second or in the one before.
LEMMA WhatFiresIsDue ==
    ASSUME NEW list \in Seq(Alarm), OnlyPhantomsLackTime(list), NEW t \in Moments,
           NEW ms \in BOOLEAN, FindFirst(list, t, ms).id # 0
    PROVE  /\ Fires(FindFirst(list, t, ms), t) => FindFirst(list, t, ms).id \in DueIds(list, t)
           /\ Fires(FindFirst(list, t, ms), Following(t)) =>
                 FindFirst(list, t, ms).id \in DueIds(list, Following(t))
           /\ \A u \in Moments :
                 Fires(FindFirst(list, t, ms), u) => FindFirst(list, t, ms).id \in StartIds(list, u)
<1> DEFINE f == FindFirst(list, t, ms)
<1> SUFFICES ASSUME f # NoFirst
             PROVE  /\ Difference(f, Sec(t)) <= 1 => f.id \in DueIds(list, t)
                    /\ Difference(f, Sec(Following(t))) <= 1 => f.id \in DueIds(list, Following(t))
                    /\ \A u \in Moments : Difference(f, Sec(u)) <= 1 => f.id \in StartIds(list, u)
    BY DEF Fires
<1>1. PICK i \in DOMAIN list :
         f.id = list[i].id /\ f.minutes \in Candidates(list[i], Day(t), Sec(t), ms)
    BY FirstFound
<1> HIDE DEF f
<1> DEFINE a == list[i]
           D == DaySecs
           at == a.time * MinuteSecs
<1>2. a \in Alarm /\ a.time # NullTime
    <2>1. f.id # 0
        BY DEF f
    <2> QED
        BY <1>1, <2>1, AlarmOfList DEF OnlyPhantomsLackTime
<1>3. D \in Nat /\ D >= 2
    BY DayLength
<1>4. /\ Day(t) \in 0 .. NumDays - 1 /\ Sec(t) \in 0 .. D - 1
      /\ Following(t) \in Moments
      /\ Sec(t) < D - 1 => Day(Following(t)) = Day(t) /\ Sec(Following(t)) = Sec(t) + 1
      /\ Sec(t) = D - 1 => Sec(Following(t)) = 0 /\ Day(Following(t)) = NextDay(Day(t))
    BY MomentOf, FollowingMoment DEF NextDay
<1>5. a.isEnabled /\ a.time \in Times
    BY <1>1, <1>2, <1>3, <1>4, CandidatesAhead
<1>6. PICK k \in 0 .. NumDays : IsAhead(a, Day(t), Sec(t), f.minutes, k)
    BY <1>1, <1>2, <1>3, <1>4, CandidatesAhead
<1>7. at \in 0 .. D - 1
    BY <1>5, MinuteBegins
<1>8. ASSUME NEW u \in Moments, Difference(f, Sec(u)) <= 1
      PROVE  /\ \/ k = 0 /\ at = Sec(u) + 1
                \/ k \in {0, 1} /\ at = 0 /\ Sec(u) = D - 1
             /\ Following(u) \in Moments
             /\ Sec(u) \in 0 .. D - 1
             /\ Sec(u) < D - 1 => Day(Following(u)) = Day(u) /\ Sec(Following(u)) = Sec(u) + 1
             /\ Sec(u) = D - 1 => Sec(Following(u)) = 0 /\ Day(Following(u)) = NextDay(Day(u))
             /\ at = Sec(Following(u))
    <2>1. Sec(u) \in 0 .. D - 1
        BY MomentOf
    <2>2. f.minutes = a.time + k * DayMinutes
        BY <1>6 DEF IsAhead
    <2>3. \/ k = 0 /\ at = Sec(u) + 1
          \/ k \in {0, 1} /\ at = 0 /\ Sec(u) = D - 1
        BY <1>5, <1>8, <2>1, <2>2, SecondsToFirst
    <2>4. /\ Following(u) \in Moments
          /\ Sec(u) < D - 1 => Day(Following(u)) = Day(u) /\ Sec(Following(u)) = Sec(u) + 1
          /\ Sec(u) = D - 1 => Sec(Following(u)) = 0 /\ Day(Following(u)) = NextDay(Day(u))
        BY FollowingMoment DEF NextDay
    <2> HIDE DEF a, at, D
    <2> QED
        BY <1>3, <1>7, <2>1, <2>3, <2>4
<1>9. k = 0 => a.repeatDays = {} \/ (Day(t) \in a.repeatDays /\ at > Sec(t))
    BY <1>6 DEF IsAhead
<1>10. k = 1 => NextDay(Day(t)) \in a.repeatDays
    BY <1>6 DEF IsAhead
<1>11. a \in ToSet(list) /\ f.id = a.id
    BY <1>1 DEF ToSet
<1> HIDE DEF a, at, D
<1>12. ASSUME Difference(f, Sec(t)) <= 1
       PROVE  f.id \in DueIds(list, t)
    <2>1. a.repeatDays = {} \/ Day(Following(t)) \in a.repeatDays
        BY <1>3, <1>4, <1>7, <1>8, <1>9, <1>10, <1>12
    <2>2. IsDue(a, Following(t))
        BY <1>5, <1>8, <1>12, <2>1 DEF IsDue, StartsAt, at
    <2> QED
        BY <1>11, <2>2 DEF DueIds
<1>13. ASSUME Difference(f, Sec(Following(t))) <= 1
       PROVE  f.id \in DueIds(list, Following(t))
    <2> DEFINE u == Following(t)
    <2>1. u \in Moments
        BY <1>4
    <2>2. a.repeatDays = {} \/ Day(Following(u)) \in a.repeatDays
        BY <1>3, <1>4, <1>7, <1>8, <1>9, <1>10, <1>13, <2>1
    <2>3. at = Sec(Following(u))
        BY <1>8, <1>13, <2>1
    <2>4. IsDue(a, Following(u))
        BY <1>5, <2>2, <2>3 DEF IsDue, StartsAt, at
    <2> QED
        BY <1>11, <2>4 DEF DueIds
<1>14. ASSUME NEW u \in Moments, Difference(f, Sec(u)) <= 1
       PROVE  f.id \in StartIds(list, u)
    <2>1. StartsAt(a, Following(u))
        BY <1>5, <1>8, <1>14 DEF StartsAt, at
    <2> QED
        BY <1>11, <2>1 DEF StartIds
<1> QED
    BY <1>12, <1>13, <1>14

\* An alarm whose minute begins with the next second fires now, or one of the same
\* time before it in the list does, unless it is for 00:00 or hidden.
LEMMA DueAlarmFires ==
    ASSUME NEW list \in Seq(Alarm), OnlyPhantomsLackTime(list), NEW t \in Moments,
           NEW ms \in BOOLEAN, NEW n \in DOMAIN list, IsDue(list[n], Following(t)),
           list[n].time # 0, \A b \in ToSet(list) : ~Hides(b, list[n])
    PROVE  /\ Fires(FindFirst(list, t, ms), t)
           /\ \E j \in 1 .. n : /\ list[j].id = FindFirst(list, t, ms).id
                               /\ list[j].time = list[n].time
<1> DEFINE f == FindFirst(list, t, ms)
           D == DaySecs
           a == list[n]
           at == a.time * MinuteSecs
<1>1. n \in DOMAIN list /\ a \in ToSet(list) /\ n \in 1 .. Len(list)
    BY DEF ToSet
<1>2. a \in Alarm
    BY <1>1, AlarmOfList
<1>3. /\ D \in Nat /\ D >= 2 /\ MinuteSecs \in Nat /\ MinuteSecs >= 2 /\ DayMinutes \in Nat
      /\ NumDays \in Nat
    BY DayLength
<1>4. /\ Day(t) \in 0 .. NumDays - 1 /\ Sec(t) \in 0 .. D - 1
      /\ Sec(t) < D - 1 => Day(Following(t)) = Day(t) /\ Sec(Following(t)) = Sec(t) + 1
      /\ Sec(t) = D - 1 => Sec(Following(t)) = 0
    BY MomentOf, FollowingMoment
<1>5. a.isEnabled /\ at = Sec(Following(t)) /\ (a.repeatDays = {} \/ Day(Following(t)) \in a.repeatDays)
    BY DEF IsDue, StartsAt
<1>6. a.time \in Times
    <2>1. ASSUME a.time = NullTime
          PROVE  FALSE
        <3>1. \A x \in Int, y \in Nat : x < 0 /\ y >= 2 => x * y < 0
            OBVIOUS
        <3>2. NullTime \in Int /\ NullTime < 0
            BY <1>3, TimesAreIntegers DEF NullTime
        <3>3. at < 0
            BY <1>3, <2>1, <3>1, <3>2
        <3>4. Sec(Following(t)) \in Nat
            BY <1>3, <1>4
        <3> QED
            BY <1>5, <3>3, <3>4
    <2> QED
        BY <1>2, <2>1 DEF Alarm
<1>7. at \in 0 .. D - 1 /\ at # 0
    BY <1>6, MinuteBegins
<1> HIDE DEF at, D
<1>8. at = Sec(t) + 1 /\ Day(Following(t)) = Day(t)
    BY <1>3, <1>4, <1>5, <1>7
<1>9. a.time \in Candidates(a, Day(t), Sec(t), ms)
    <2>1. Minutes(a) = a.time
        BY <1>3, <1>6, TimesAreIntegers DEF Minutes
    <2>2. CASE a.repeatDays = {}
        BY <1>5, <2>1, <2>2 DEF Candidates
    <2>3. CASE a.repeatDays # {}
        <3>1. a.time * MinuteSecs > Sec(t)
            BY <1>3, <1>4, <1>8 DEF at
        <3>2. Day(t) \in a.repeatDays
            BY <1>5, <1>8, <2>3
        <3>3. a.time \in Repeats(a, Day(t), Sec(t), ms)
            BY <2>1, <3>1, <3>2 DEF Repeats
        <3> QED
            BY <1>5, <2>3, <3>3 DEF Candidates
    <2> QED
        BY <2>2, <2>3
<1>10. f # NoFirst
    BY <1>1, <1>9, FirstFound
<1>11. PICK j \in DOMAIN list :
         /\ f.id = list[j].id /\ f.minutes \in Candidates(list[j], Day(t), Sec(t), ms)
         /\ \A k \in DOMAIN list : f.minutes \in Candidates(list[k], Day(t), Sec(t), ms) => j <= k
    BY <1>10, FirstFound
<1>12. f.minutes <= a.time
    BY <1>1, <1>9, <1>10, FirstFound
<1> HIDE DEF f
<1> DEFINE b == list[j]
<1>13. b \in Alarm /\ b \in ToSet(list) /\ (b.time = NullTime => b.repeatDays = {})
    BY AlarmOfList DEF OnlyPhantomsLackTime, ToSet
<1>14. b.isEnabled
    BY <1>3, <1>4, <1>11, <1>13, CandidatesAhead DEF D
<1>15. b.time \in Times
    <2>1. ASSUME b.time = NullTime
          PROVE  FALSE
        <3>1. b.time < a.time
            BY <1>6, <2>1, TimesAreIntegers
        <3> QED
            BY <1>13, <1>14, <2>1, <3>1 DEF Hides
    <2> QED
        BY <1>13, <2>1 DEF Alarm
<1>16. PICK k \in 0 .. NumDays : IsAhead(b, Day(t), Sec(t), f.minutes, k)
    <2>1. b.time # NullTime
        BY <1>15, TimesAreIntegers
    <2> QED
        BY <1>3, <1>4, <1>11, <1>13, <2>1, CandidatesAhead DEF D
<1>17. a.time \in Nat /\ b.time \in Nat /\ a.time < DayMinutes
    BY <1>3, <1>6, <1>15 DEF Times
<1>18. k = 0 /\ f.minutes = b.time
    <2>1. f.minutes = b.time + k * DayMinutes
        BY <1>16 DEF IsAhead
    <2>2. \A x \in Nat \ {0}, y \in Nat : x * y \in Nat /\ x * y >= y
        OBVIOUS
    <2>3. CASE k = 0
        BY <1>3, <1>17, <2>1, <2>3
    <2>4. CASE k # 0
        <3>1. k * DayMinutes \in Nat /\ k * DayMinutes >= DayMinutes
            BY <1>3, <2>2, <2>4
        <3> QED
            BY <1>3, <1>12, <1>17, <2>1, <3>1
    <2> QED
        BY <2>3, <2>4
<1>19. b.time = a.time
    <2>1. b.time <= a.time
        BY <1>12, <1>18
    <2>2. CASE b.repeatDays = {}
        <3>1. ~(b.time < a.time)
            BY <1>13, <1>14, <2>2 DEF Hides
        <3> QED
            BY <1>17, <2>1, <3>1
    <2>3. CASE b.repeatDays # {}
        <3>1. b.time * MinuteSecs > Sec(t)
            BY <1>16, <1>18, <2>3 DEF IsAhead
        <3>2. \A x, y \in Nat, z \in Nat : x < y => x * z + z <= y * z
            OBVIOUS
        <3>3. b.time < a.time => b.time * MinuteSecs + MinuteSecs <= Sec(t) + 1
            BY <1>3, <1>8, <1>17, <3>2 DEF at
        <3>4. b.time * MinuteSecs \in Nat /\ Sec(t) \in Nat
            BY <1>3, <1>4, <1>17
        <3> QED
            BY <1>3, <1>17, <2>1, <3>1, <3>3, <3>4
    <2> QED
        BY <2>2, <2>3
<1>20. Difference(f, Sec(t)) <= 1
    <2>1. f.minutes * MinuteSecs = at
        BY <1>18, <1>19 DEF at
    <2> QED
        BY <1>3, <1>4, <1>7, <1>8, <2>1 DEF Difference
<1>21. j \in 1 .. n
    <2>1. j <= n
        BY <1>1, <1>9, <1>11, <1>18, <1>19
    <2> QED
        BY <1>1, <1>11, <2>1, AlarmOfList
<1> QED
    BY <1>10, <1>11, <1>19, <1>20, <1>21 DEF Fires, f

-----------------------------------------------------------------------------
(* The inductive invariant *)

\* Only phantoms lack a time, on the list, on the one first was found in and on the
\* one the properties read; the list's ids are distinct.
ListsSound ==
    /\ \A list \in {alarms, before, read} : OnlyPhantomsLackTime(list)
    /\ Distinct(alarms)

\* Unless it waits for its evaluation, first is what the list it was found in gives
\* at this moment; a waiting "again" was notified by that evaluation.
FirstFollowsClock ==
    /\ "first" \notin pending => first = FindFirst(read, now, millis)
    /\ "again" \in pending => "first" \notin pending

\* What can ring before the clock changes is due: the first of the last second, and
\* whatever the coming evaluation may find.
OnlyDueCanRing ==
    /\ Fires(first, now) => first.id \in due \cup {0}
    /\ "first" \in pending => DueIds(alarms, now) \subseteq due \cup {0}

\* An alarm that has rung and does not repeat stays so, and off.
SpentIsOff == \A a \in ToSet(alarms) : a.id \in spent \ {0} => ~a.isEnabled /\ a.repeatDays = {}

\* c is an alarm the list had when the clock changed, possibly switched since by
\* its own ringing.
SameAlarm(b, c) ==
    /\ b.id = c.id /\ b.time = c.time /\ b.repeatDays = c.repeatDays
    /\ c.isEnabled => b.isEnabled \/ c.repeatDays # {}

\* The i-th alarm of the old list stands in the new one, and before it only alarms
\* that stood before it.
StandsIn(new, old, i) ==
    \E k \in DOMAIN new :
        /\ new[k] = old[i]
        /\ \A l \in 1 .. k : \E j \in 1 .. i : SameAlarm(old[j], new[l])

\* Until first is evaluated only ringing changes the list, and it keeps the order.
ListSinceClock ==
    "first" \in pending =>
        /\ \A c \in ToSet(alarms) : \E b \in ToSet(before) : SameAlarm(b, c)
        /\ \A i \in DOMAIN before : before[i].id \in rung \/ StandsIn(alarms, before, i)

\* The due alarms that neither 00:00 nor another alarm hides.
Exposed == {i \in DueNow : before[i].time # 0 /\ \A b \in ToSet(before) : ~Hides(b, before[i])}

\* Once diff has been evaluated and first has not, the old first has rung if it
\* could.
StaleHasRung ==
    "first" \in pending /\ "diff" \notin pending =>
        (Fires(first, now) /\ first.id \in Ids(alarms) => first.id \in rung)

\* Once first has been evaluated an alarm that is due has rung, or is the first and
\* diff is still to be evaluated.
AboutToRing ==
    "first" \notin pending =>
        \A i \in Exposed :
            \/ \E j \in 1 .. i : before[j].time = before[i].time /\ before[j].id \in rung
            \/ /\ pending # {} /\ Fires(first, now) /\ first.id \in Ids(alarms)
               /\ \E j \in 1 .. i : before[j].time = before[i].time /\ before[j].id = first.id

ClockInv == /\ TypeOK /\ ListsSound /\ FirstFollowsClock
            /\ OnlyDueCanRing /\ RingsOnlyWhenDue
            /\ SpentIsOff
            /\ ListSinceClock /\ StaleHasRung /\ AboutToRing

-----------------------------------------------------------------------------
(* What the operations on the list keep of it *)

LEMMA PhantomsBySet ==
    ASSUME NEW list \in Seq(Alarm)
    PROVE  OnlyPhantomsLackTime(list)
              <=> \A a \in ToSet(list) : a.time = NullTime => a.id = 0 /\ a.repeatDays = {}
BY DEF OnlyPhantomsLackTime, ToSet

\* Of a list with one alarm changed, removed or added only that alarm may be new.
LEMMA OthersAndOne ==
    ASSUME NEW list \in Seq(Alarm), NEW new \in Seq(Alarm), NEW id, Others(new, id) = Others(list, id)
    PROVE  \A a \in ToSet(new) : a.id = id \/ a \in ToSet(list)
BY DEF Others

LEMMA InsertedAlarms ==
    ASSUME NEW list \in Seq(Alarm), NEW i \in 1 .. Len(list) + 1, NEW e \in Alarm
    PROVE  \A a \in ToSet(InsertAt(list, i, e)) : a = e \/ a \in ToSet(list)
<1> DEFINE t == InsertAt(list, i, e)
<1>1. /\ t \in Seq(Alarm) /\ Len(t) = Len(list) + 1
      /\ \A j \in 1 .. Len(list) + 1 :
            t[j] = IF j < i THEN list[j] ELSE IF j = i THEN e ELSE list[j - 1]
    BY SMTT(40), InsertAtProperties
<1>2. Len(list) \in Nat /\ DOMAIN list = 1 .. Len(list) /\ DOMAIN t = 1 .. Len(list) + 1
    BY <1>1, LenProperties
<1> HIDE DEF t
<1>3. ASSUME NEW j \in 1 .. Len(list) + 1
      PROVE  t[j] = e \/ \E n \in 1 .. Len(list) : t[j] = list[n]
    <2>1. CASE j < i
        BY <1>1, <1>2, <2>1
    <2>2. CASE j = i
        BY <1>1, <1>2, <2>2
    <2>3. CASE j > i
        <3>1. j - 1 \in 1 .. Len(list) /\ t[j] = list[j - 1]
            BY <1>1, <1>2, <2>3
        <3> QED
            BY <3>1
    <2> QED
        BY <1>2, <2>1, <2>2, <2>3
<1>4. \A a \in ToSet(t) : a = e \/ a \in ToSet(list)
    BY <1>2, <1>3 DEF ToSet
<1> QED
    BY <1>4 DEF t

LEMMA RemainingAlarms ==
    ASSUME NEW list \in Seq(Alarm), NEW i \in 1 .. Len(list)
    PROVE  ToSet(RemoveAt(list, i)) \subseteq ToSet(list)
<1> DEFINE t == RemoveAt(list, i)
<1>1. /\ t \in Seq(Alarm) /\ Len(t) = Len(list) - 1
      /\ \A j \in 1 .. Len(list) - 1 : t[j] = IF j < i THEN list[j] ELSE list[j + 1]
    BY RemoveAtProperties
<1>2. Len(list) \in Nat /\ DOMAIN list = 1 .. Len(list) /\ DOMAIN t = 1 .. Len(list) - 1
    BY <1>1, LenProperties
<1> HIDE DEF t
<1>3. ASSUME NEW j \in 1 .. Len(list) - 1
      PROVE  \E n \in 1 .. Len(list) : t[j] = list[n]
    <2>1. j \in 1 .. Len(list) /\ j + 1 \in 1 .. Len(list)
        BY <1>2
    <2> QED
        BY <1>1, <2>1
<1>4. ToSet(t) \subseteq ToSet(list)
    BY <1>2, <1>3 DEF ToSet
<1> QED
    BY <1>4 DEF t

LEMMA SwitchedAlarms ==
    ASSUME NEW list \in Seq(Alarm), NEW i \in 1 .. Len(list), NEW on \in BOOLEAN
    PROVE  LET t == [list EXCEPT ![i].isEnabled = on]
           IN  \A a \in ToSet(t) :
                  \/ a \in ToSet(list)
                  \/ /\ a.id = list[i].id /\ a.time = list[i].time
                     /\ a.repeatDays = list[i].repeatDays /\ a.isEnabled = on
<1> DEFINE e == [list[i] EXCEPT !.isEnabled = on]
           t == [list EXCEPT ![i] = e]
<1>1. DOMAIN list = 1 .. Len(list) /\ list[i] \in Alarm
    BY AlarmOfList
<1>2. /\ e.id = list[i].id /\ e.time = list[i].time
      /\ e.repeatDays = list[i].repeatDays /\ e.isEnabled = on
    BY <1>1 DEF Alarm
<1>3. DOMAIN t = DOMAIN list /\ \A j \in DOMAIN list : t[j] = e \/ t[j] = list[j]
    BY <1>1
<1> HIDE DEF e
<1>4. \A a \in ToSet(t) : a = e \/ a \in ToSet(list)
    BY <1>3 DEF ToSet
<1>5. [list EXCEPT ![i].isEnabled = on] = t
    BY DEF e
<1> HIDE DEF t
<1> QED
    BY <1>2, <1>4, <1>5

\* Each operation leaves alarms without a time to the phantoms, and only the alarms
\* with its id may be new.
LEMMA CreateKeepsClock ==
    ASSUME NEW list \in Seq(Alarm), OnlyPhantomsLackTime(list), NEW edit \in Edit,
           NextId(list) <= MaxId
    PROVE  /\ OnlyPhantomsLackTime(CreateAlarm(list, edit))
           /\ \A a \in ToSet(CreateAlarm(list, edit)) : a.id = NextId(list) \/ a \in ToSet(list)
<1> DEFINE e == [id |-> NextId(list), time |-> edit.time, isEnabled |-> TRUE,
                 delete_after |-> edit.delete_after, repeatDays |-> edit.repeatDays,
                 song |-> edit.song]
<1>1. CreateAlarm(list, edit) \in Seq(Alarm) /\ NextId(list) \in 0 .. MaxId
    BY CreateAlarmKeeps
<1>2. e \in Alarm /\ edit.time \in Times
    BY <1>1 DEF Alarm, Edit
<1>3. InsertPos(list, edit.time) \in 1 .. Len(list) + 1
    BY InsertPosProperties
<1>4. CreateAlarm(list, edit) = InsertAt(list, InsertPos(list, edit.time), e)
    BY DEF CreateAlarm, InsertByTime
<1>5. e.id = NextId(list) /\ e.time # NullTime
    BY <1>2, TimesAreIntegers
<1> HIDE DEF e
<1>6. \A a \in ToSet(CreateAlarm(list, edit)) : a = e \/ a \in ToSet(list)
    BY <1>2, <1>3, <1>4, InsertedAlarms
<1> QED
    BY <1>1, <1>5, <1>6, PhantomsBySet

LEMMA ChangeKeepsClock ==
    ASSUME NEW list \in Seq(Alarm), OnlyPhantomsLackTime(list), NEW edit \in Edit,
           NEW id \in Ids(list)
    PROVE  /\ OnlyPhantomsLackTime(ChangeAlarm(list, id, edit))
           /\ \A a \in ToSet(ChangeAlarm(list, id, edit)) : a.id = id \/ a \in ToSet(list)
<1> DEFINE i == IndexOf(list, id)
           r == RemoveAt(list, i)
           e == [list[i] EXCEPT !.time = edit.time, !.song = edit.song,
                                !.delete_after = edit.delete_after,
                                !.repeatDays = edit.repeatDays]
<1>1. i \in 1 .. Len(list) /\ list[i].id = id /\ list[i] \in Alarm /\ id \in Nat
    BY IndexOfProperties, AlarmOfList
<1>2. /\ e \in Alarm /\ e.id = id /\ e.time = edit.time /\ edit.time \in Times
    BY <1>1 DEF Alarm, Edit
<1>3. r \in Seq(Alarm) /\ ToSet(r) \subseteq ToSet(list)
    BY <1>1, RemoveAtProperties, RemainingAlarms
<1>4. ChangeAlarm(list, id, edit) = InsertAt(r, InsertPos(r, edit.time), e)
    BY DEF ChangeAlarm, InsertByTime
<1>5. ChangeAlarm(list, id, edit) \in Seq(Alarm)
    BY <1>1, ChangeAlarmKeeps
<1> HIDE DEF e, r
<1>6. InsertPos(r, edit.time) \in 1 .. Len(r) + 1
    BY <1>3, InsertPosProperties
<1>7. \A a \in ToSet(ChangeAlarm(list, id, edit)) : a = e \/ a \in ToSet(r)
    BY <1>2, <1>3, <1>4, <1>6, InsertedAlarms
<1>8. e.time # NullTime
    BY <1>2, TimesAreIntegers
<1> QED
    BY <1>2, <1>3, <1>5, <1>7, <1>8, PhantomsBySet

LEMMA DeleteKeepsClock ==
    ASSUME NEW list \in Seq(Alarm), OnlyPhantomsLackTime(list), NEW id
    PROVE  /\ OnlyPhantomsLackTime(DeleteAlarm(list, id))
           /\ ToSet(DeleteAlarm(list, id)) \subseteq ToSet(list)
<1>1. ToSet(DeleteAlarm(list, id)) \subseteq ToSet(list)
    BY IndexOfProperties, RemainingAlarms DEF DeleteAlarm
<1>2. DeleteAlarm(list, id) \in Seq(Alarm)
    BY DeleteAlarmKeeps
<1> QED
    BY <1>1, <1>2, PhantomsBySet

LEMMA ToggleKeepsClock ==
    ASSUME NEW list \in Seq(Alarm), OnlyPhantomsLackTime(list), NEW id, NEW on \in BOOLEAN
    PROVE  /\ OnlyPhantomsLackTime(UpdateStatus(list, id, on))
           /\ \A a \in ToSet(UpdateStatus(list, id, on)) : a.id = id \/ a \in ToSet(list)
<1>1. UpdateStatus(list, id, on) \in Seq(Alarm)
      /\ Others(UpdateStatus(list, id, on), id) = Others(list, id)
    BY UpdateStatusKeeps
<1>2. CASE id \notin Ids(list)
    BY <1>2 DEF UpdateStatus
<1>3. CASE id \in Ids(list)
    <2> DEFINE i == IndexOf(list, id)
    <2>1. i \in 1 .. Len(list) /\ list[i].id = id
        BY <1>3, IndexOfProperties
    <2>2. \A a \in ToSet(UpdateStatus(list, id, on)) :
             \/ a \in ToSet(list)
             \/ a.id = id /\ a.time = list[i].time /\ a.repeatDays = list[i].repeatDays
        BY <1>3, <2>1, SwitchedAlarms DEF UpdateStatus
    <2>3. list[i].time = NullTime => id = 0 /\ list[i].repeatDays = {}
        BY <2>1, AlarmOfList DEF OnlyPhantomsLackTime
    <2> QED
        BY <1>1, <2>2, <2>3, PhantomsBySet
<1> QED
    BY <1>2, <1>3

\* The alarm that rings is removed or switched: on if it repeats, else off.
LEMMA RingingKeepsClock ==
    ASSUME NEW list \in Seq(Alarm), OnlyPhantomsLackTime(list), NEW id \in Ids(list)
    PROVE  LET i == IndexOf(list, id)
               t == StartAlarm(list, id)
           IN  /\ OnlyPhantomsLackTime(t)
               /\ \A a \in ToSet(t) :
                     \/ a \in ToSet(list)
                     \/ /\ a.id = id /\ a.time = list[i].time /\ a.repeatDays = list[i].repeatDays
                        /\ a.isEnabled = (list[i].repeatDays # {})
               /\ Distinct(list) /\ id # 0 =>
                     \A a \in ToSet(t) : a.id = id =>
                        a.repeatDays = list[i].repeatDays /\ a.isEnabled = (list[i].repeatDays # {})
<1> DEFINE i == IndexOf(list, id)
           t == StartAlarm(list, id)
           on == list[i].repeatDays # {}
<1>1. i \in 1 .. Len(list) /\ list[i].id = id /\ list[i] \in Alarm /\ i \in DOMAIN list
    BY IndexOfProperties, AlarmOfList
<1>2. t \in Seq(Alarm)
    BY StartAlarmKeeps
<1>3. /\ list[i].delete_after => t = RemoveAt(list, i)
      /\ ~list[i].delete_after => t = [list EXCEPT ![i].isEnabled = on]
    BY DEF StartAlarm
<1>4. on \in BOOLEAN
    OBVIOUS
<1> HIDE DEF t, on
<1>5. \A a \in ToSet(t) :
         \/ a \in ToSet(list)
         \/ /\ a.id = id /\ a.time = list[i].time /\ a.repeatDays = list[i].repeatDays
            /\ a.isEnabled = on
    <2>1. CASE list[i].delete_after
        BY <1>1, <1>3, <2>1, RemainingAlarms
    <2>2. CASE ~list[i].delete_after
        BY <1>1, <1>3, <1>4, <2>2, SwitchedAlarms
    <2> QED
        BY <2>1, <2>2
<1>6. OnlyPhantomsLackTime(t)
    <2>1. list[i].time = NullTime => id = 0 /\ list[i].repeatDays = {}
        BY <1>1 DEF OnlyPhantomsLackTime
    <2> QED
        BY <1>2, <1>5, <2>1, PhantomsBySet
<1>7. ASSUME Distinct(list), id # 0, NEW a \in ToSet(t), a.id = id
      PROVE  a.repeatDays = list[i].repeatDays /\ a.isEnabled = on
    <2>1. CASE list[i].delete_after
        <3>1. id \notin Ids(t)
            BY <1>1, <1>3, <1>7, <2>1, RemoveDistinct
        <3> QED
            BY <1>7, <3>1 DEF Ids, ToSet
    <2>2. CASE ~list[i].delete_after
        <3>1. PICK j \in DOMAIN t : a = t[j]
            BY <1>7 DEF ToSet
        <3>2. j \in DOMAIN list /\ (j # i => t[j] = list[j])
            BY <1>3, <2>2, <3>1
        <3>3. j = i
            BY <1>1, <1>7, <3>1, <3>2 DEF Distinct
        <3>4. t[i].repeatDays = list[i].repeatDays /\ t[i].isEnabled = on
            BY <1>1, <1>3, <2>2 DEF Alarm
        <3> QED
            BY <3>1, <3>3, <3>4
    <2> QED
        BY <2>1, <2>2
<1> QED
    BY <1>5, <1>6, <1>7 DEF t, on

\* The others keep their places.
LEMMA RingingKeepsOrder ==
    ASSUME NEW list \in Seq(Alarm), NEW id \in Ids(list), NEW k \in DOMAIN list, list[k].id # id
    PROVE  StandsIn(StartAlarm(list, id), list, k)
<1> DEFINE i == IndexOf(list, id)
           t == StartAlarm(list, id)
           on == list[i].repeatDays # {}
<1>1. /\ i \in 1 .. Len(list) /\ list[i].id = id /\ Len(list) \in Nat
      /\ DOMAIN list = 1 .. Len(list) /\ k # i
      /\ \A n \in 1 .. Len(list) : list[n] \in Alarm
    BY IndexOfProperties, AlarmOfList
<1>2. /\ list[i].delete_after => t = RemoveAt(list, i)
      /\ ~list[i].delete_after => t = [list EXCEPT ![i].isEnabled = on]
    BY DEF StartAlarm
<1>3. t \in Seq(Alarm) /\ DOMAIN t = 1 .. Len(t)
    BY StartAlarmKeeps, AlarmOfList
<1> SUFFICES StandsIn(t, list, k)
    OBVIOUS
<1> HIDE DEF t, i
<1>4. CASE list[i].delete_after
    <2>1. /\ Len(t) = Len(list) - 1
          /\ \A n \in 1 .. Len(list) - 1 : t[n] = IF n < i THEN list[n] ELSE list[n + 1]
        <3>1. /\ Len(RemoveAt(list, i)) = Len(list) - 1
              /\ \A n \in 1 .. Len(list) - 1 :
                    RemoveAt(list, i)[n] = IF n < i THEN list[n] ELSE list[n + 1]
            BY <1>1, RemoveAtProperties
        <3> QED
            BY <1>2, <1>4, <3>1
    <2> DEFINE m == IF k < i THEN k ELSE k - 1
    <2>2. m \in DOMAIN t /\ t[m] = list[k]
        BY <1>1, <1>3, <2>1
    <2>3. ASSUME NEW l \in 1 .. m
          PROVE  \E j \in 1 .. k : SameAlarm(list[j], t[l])
        <3>1. t[l] = IF l < i THEN list[l] ELSE list[l + 1]
            BY <1>1, <1>3, <2>1, <2>2
        <3>2. \A b : SameAlarm(b, b)
            BY DEF SameAlarm
        <3>3. CASE l < i
            BY <1>1, <3>1, <3>2, <3>3
        <3>4. CASE ~(l < i)
            <4>1. l + 1 \in 1 .. k
                BY <1>1, <3>4
            <4> QED
                BY <3>1, <3>2, <3>4, <4>1
        <3> QED
            BY <3>3, <3>4
    <2> QED
        BY <2>2, <2>3 DEF StandsIn
<1>5. CASE ~list[i].delete_after
    <2>1. DOMAIN t = DOMAIN list /\ t[k] = list[k]
        BY <1>1, <1>2, <1>5
    <2>2. ASSUME NEW l \in 1 .. k
          PROVE  SameAlarm(list[l], t[l])
        <3>1. l \in 1 .. Len(list)
            BY <1>1
        <3>2. CASE l = i
            <4>1. t[l] = [list[i] EXCEPT !.isEnabled = on]
                BY <1>1, <1>2, <1>5, <3>2
            <4> QED
                BY <1>1, <3>2, <4>1 DEF SameAlarm, Alarm
        <3>3. CASE l # i
            <4>1. t[l] = list[l]
                BY <1>1, <1>2, <1>5, <3>1, <3>3
            <4> QED
                BY <4>1 DEF SameAlarm
        <3> QED
            BY <3>2, <3>3
    <2> QED
        BY <2>1, <2>2 DEF StandsIn
<1> QED
    BY <1>4, <1>5

-----------------------------------------------------------------------------
(* Every step keeps the invariant *)

LEMMA InitClock == Init => ClockInv
<1> SUFFICES ASSUME Init
             PROVE  ClockInv
    OBVIOUS
<1> USE DEF Init
<1>1. /\ alarms \in Seq(Alarm) /\ Distinct(alarms) /\ OnlyPhantomsLackTime(alarms)
      /\ MaxEdits \in Nat
    BY AlarmClockAssumption
<1>2. due \subseteq 0 .. MaxId
    BY <1>1, AlarmOfList DEF DueIds, ToSet
<1>3. NoFirst \in [minutes : -HourMinutes - 1 .. 2 * Week, id : -1 .. MaxId]
    <2>1. HourMinutes \in Nat /\ Week \in Nat /\ MaxId \in Nat
        BY DayLength, AlarmListAssumption
    <2>2. 0 \in -HourMinutes - 1 .. 2 * Week /\ -1 \in -1 .. MaxId
        BY <2>1
    <2> QED
        BY <2>2 DEF NoFirst
<1>4. TypeOK
    <2>1. pending \subseteq {"first", "diff", "again"} /\ armed \in BOOLEAN
        OBVIOUS
    <2>3. edits \in 0 .. MaxEdits
        <3>1. \A n \in Nat : 0 \in 0 .. n
            OBVIOUS
        <3> QED
            BY <1>1, <3>1
    <2>2. first \in [minutes : -HourMinutes - 1 .. 2 * Week, id : -1 .. MaxId]
        BY <1>3
    <2> QED
        BY <1>1, <1>2, <2>1, <2>2, <2>3 DEF TypeOK
<1>5. ~Fires(first, now)
    BY DEF Fires
<1>6. OnlyDueCanRing /\ RingsOnlyWhenDue
    BY <1>5 DEF OnlyDueCanRing, RingsOnlyWhenDue
<1>7. ListSinceClock
    BY <1>1, AlarmOfList DEF ListSinceClock, SameAlarm, StandsIn, ToSet
<1> QED
    BY <1>1, <1>4, <1>5, <1>6, <1>7
       DEF ClockInv, ListsSound, FirstFollowsClock, SpentIsOff, StaleHasRung, AboutToRing

\* The clock changes: nothing waited, so first is from the last second.
LEMMA ClockSet ==
    ASSUME ClockInv, NEW t \in Moments, SetClock(t), millis' \in BOOLEAN, due' \subseteq 0 .. MaxId,
           Fires(first, t) /\ first.id # 0 => first.id \in due',
           DueIds(alarms, t) \subseteq due'
    PROVE  ClockInv'
<1> USE DEF SetClock
<1>1. TypeOK'
    BY DEF ClockInv, TypeOK
<1>2. ListsSound'
    BY DEF ClockInv, ListsSound
<1>3. FirstFollowsClock' /\ StaleHasRung' /\ AboutToRing'
    BY DEF FirstFollowsClock, StaleHasRung, AboutToRing
<1>4. OnlyDueCanRing' /\ RingsOnlyWhenDue'
    BY DEF OnlyDueCanRing, RingsOnlyWhenDue
<1>5. SpentIsOff'
    BY DEF ClockInv, SpentIsOff
<1>6. ListSinceClock'
    <2>1. alarms \in Seq(Alarm)
        BY DEF ClockInv, TypeOK
    <2> QED
        BY <2>1, AlarmOfList DEF ListSinceClock, SameAlarm, StandsIn
<1> QED
    BY <1>1, <1>2, <1>3, <1>4, <1>5, <1>6 DEF ClockInv

\* The ids of alarms are ids.
LEMMA DueAreIds ==
    ASSUME NEW list \in Seq(Alarm), NEW t
    PROVE  DueIds(list, t) \subseteq 0 .. MaxId /\ StartIds(list, t) \subseteq 0 .. MaxId
           /\ DueIds(list, t) \subseteq StartIds(list, t)
BY AlarmOfList DEF DueIds, StartIds, IsDue, ToSet

LEMMA TickKeeps == ClockInv /\ Tick => ClockInv'
<1> SUFFICES ASSUME ClockInv, Tick
             PROVE  ClockInv'
    OBVIOUS
<1>1. /\ alarms \in Seq(Alarm) /\ read \in Seq(Alarm) /\ OnlyPhantomsLackTime(read)
      /\ now \in Moments /\ millis \in BOOLEAN
    BY DEF ClockInv, TypeOK, ListsSound
<1>2. /\ SetClock(Following(now)) /\ now' = Following(now) /\ pending = {} /\ millis' = millis
      /\ due' = DueIds(read, Following(now)) \cup DueIds(alarms, Following(now))
    BY DEF Tick, SetClock
<1>3. Following(now) \in Moments
    BY <1>1, FollowingMoment
<1>4. due' \subseteq 0 .. MaxId
    BY <1>1, <1>2, DueAreIds
<1>5. Fires(first, Following(now)) /\ first.id # 0 => first.id \in DueIds(read, Following(now))
    <2>1. first = FindFirst(read, now, millis)
        BY <1>2 DEF ClockInv, FirstFollowsClock
    <2> QED
        BY <1>1, <2>1, WhatFiresIsDue
<1> QED
    BY <1>1, <1>2, <1>3, <1>4, <1>5, ClockSet

LEMMA SynchroniseKeeps == ClockInv /\ Synchronise => ClockInv'
<1> SUFFICES ASSUME ClockInv, Synchronise
             PROVE  ClockInv'
    OBVIOUS
<1>1. /\ alarms \in Seq(Alarm) /\ read \in Seq(Alarm) /\ OnlyPhantomsLackTime(read)
      /\ now \in Moments /\ millis \in BOOLEAN
    BY DEF ClockInv, TypeOK, ListsSound
<1>2. PICK t \in ServerTimes : /\ SetClock(t) /\ millis' = FALSE
                               /\ due' = StartIds(read, t) \cup StartIds(alarms, t)
    BY DEF Synchronise
<1>3. t \in Moments /\ pending = {}
    BY <1>2, AlarmClockAssumption DEF SetClock
<1>4. due' \subseteq 0 .. MaxId /\ DueIds(alarms, t) \subseteq due'
    BY <1>1, <1>2, DueAreIds
<1>5. Fires(first, t) /\ first.id # 0 => first.id \in StartIds(read, t)
    <2>1. first = FindFirst(read, now, millis)
        BY <1>3 DEF ClockInv, FirstFollowsClock
    <2> QED
        BY <1>1, <1>3, <2>1, WhatFiresIsDue
<1> QED
    BY <1>2, <1>3, <1>4, <1>5, ClockSet

\* first is evaluated: what it finds is due, and every exposed alarm that has not
\* rung is about to.
LEMMA EvalFirstKeeps == ClockInv /\ EvalFirst => ClockInv'
<1> SUFFICES ASSUME ClockInv, EvalFirst
             PROVE  ClockInv'
    OBVIOUS
<1> DEFINE f == FindFirst(alarms, now, millis)
<1>1. /\ alarms \in Seq(Alarm) /\ before \in Seq(Alarm) /\ OnlyPhantomsLackTime(alarms)
      /\ now \in Moments /\ millis \in BOOLEAN
    BY DEF ClockInv, TypeOK, ListsSound
<1>2. /\ "first" \in pending /\ first' = f /\ read' = alarms
      /\ UNCHANGED <<alarms, now, millis, before, due, armed, edits, rung, spent>>
      /\ \/ pending' = (pending \ {"first"}) \cup {"again"}
         \/ first' = first /\ pending' = pending \ {"first"}
    BY DEF EvalFirst, clockVars
<1>3. TypeOK'
    <2>1. first' \in [minutes : -HourMinutes - 1 .. 2 * Week, id : -1 .. MaxId]
        BY <1>1, <1>2, FirstFound
    <2>2. pending' \subseteq {"first", "diff", "again"}
        BY <1>2 DEF ClockInv, TypeOK
    <2> QED
        BY <1>2, <2>1, <2>2 DEF ClockInv, TypeOK
<1>4. ListsSound' /\ SpentIsOff' /\ RingsOnlyWhenDue'
    BY <1>2 DEF ClockInv, ListsSound, SpentIsOff, RingsOnlyWhenDue
<1>5. FirstFollowsClock' /\ ListSinceClock' /\ StaleHasRung'
    BY <1>2 DEF FirstFollowsClock, ListSinceClock, StaleHasRung
<1>6. OnlyDueCanRing'
    <2>1. Fires(f, now) => f.id \in due \cup {0}
        <3>1. DueIds(alarms, now) \subseteq due \cup {0}
            BY <1>2 DEF ClockInv, OnlyDueCanRing
        <3> QED
            BY <1>1, <3>1, WhatFiresIsDue
    <2> QED
        BY <1>2, <2>1 DEF OnlyDueCanRing
<1>7. AboutToRing'
    <2> DEFINE Equal(i, j) == before[j].time = before[i].time
    <2> SUFFICES ASSUME NEW i \in Exposed
                 PROVE  \/ \E j \in 1 .. i : Equal(i, j) /\ before[j].id \in rung
                        \/ /\ pending' # {} /\ Fires(f, now) /\ f.id \in Ids(alarms)
                           /\ \E j \in 1 .. i : Equal(i, j) /\ before[j].id = f.id
        BY <1>2 DEF AboutToRing, Exposed, DueNow
    <2> HIDE DEF f
    <2>0. i \in DOMAIN before /\ i \in 1 .. i
        BY <1>1, AlarmOfList DEF Exposed, DueNow
    <2>1. CASE before[i].id \in rung
        BY <2>0, <2>1
    <2>2. CASE before[i].id \notin rung
        <3>1. /\ \A c \in ToSet(alarms) : \E b \in ToSet(before) : SameAlarm(b, c)
              /\ StandsIn(alarms, before, i)
            BY <1>2, <2>0, <2>2 DEF ClockInv, ListSinceClock
        <3>2. PICK k \in DOMAIN alarms :
                 /\ alarms[k] = before[i]
                 /\ \A l \in 1 .. k : \E j \in 1 .. i : SameAlarm(before[j], alarms[l])
            BY <3>1 DEF StandsIn
        <3>3. IsDue(alarms[k], Following(now)) /\ alarms[k].time # 0
            BY <3>2 DEF Exposed, DueNow
        <3>4. \A c \in ToSet(alarms) : ~Hides(c, alarms[k])
            BY <3>1, <3>2 DEF SameAlarm, Hides, Exposed
        <3>5. /\ Fires(f, now)
              /\ \E l \in 1 .. k : alarms[l].id = f.id /\ alarms[l].time = alarms[k].time
            BY <1>1, <3>3, <3>4, DueAlarmFires DEF f
        <3>6. f.id \in Ids(alarms)
            BY <1>1, <3>5, AlarmOfList DEF Ids
        <3>7. \E j \in 1 .. i : Equal(i, j) /\ before[j].id = f.id
            BY <3>2, <3>5 DEF SameAlarm
        <3>8. CASE pending' # {}
            BY <3>5, <3>6, <3>7, <3>8
        <3>9. CASE pending' = {}
            <4>1. first' = first /\ "diff" \notin pending
                BY <1>2, <3>9
            <4>2. f.id \in rung
                BY <1>2, <3>5, <3>6, <4>1 DEF ClockInv, StaleHasRung, f
            <4> QED
                BY <3>7, <4>2
        <3> QED
            BY <3>8, <3>9
    <2> QED
        BY <2>1, <2>2
<1> QED
    BY <1>3, <1>4, <1>5, <1>6, <1>7 DEF ClockInv

\* diff is evaluated: if the first alarm fires and is on the list it rings.
LEMMA EvalDiffKeeps == ClockInv /\ EvalDiff => ClockInv'
<1> SUFFICES ASSUME ClockInv, EvalDiff
             PROVE  ClockInv'
    OBVIOUS
<1> DEFINE rings == Fires(first, now) /\ first.id \in Ids(alarms)
           i == IndexOf(alarms, first.id)
<1>1. /\ alarms \in Seq(Alarm) /\ before \in Seq(Alarm) /\ OnlyPhantomsLackTime(alarms)
      /\ now \in Moments /\ Distinct(alarms) /\ spent \subseteq 0 .. MaxId /\ rung \subseteq 0 .. MaxId
    BY DEF ClockInv, TypeOK, ListsSound
<1>2. PICK why \in pending \cap {"diff", "again"} : pending' = pending \ {why}
    BY DEF EvalDiff
<1>3. /\ UNCHANGED <<now, millis, before, due, first, edits, read>>
      /\ armed' = Fires(first, now)
    BY DEF EvalDiff, clockVars
<1>4. CASE ~rings
    <2>1. UNCHANGED <<alarms, rung, spent>>
        BY <1>3, <1>4 DEF EvalDiff
    <2>2. TypeOK'
        <3>1. armed' \in BOOLEAN
            BY <1>3 DEF Fires
        <3> QED
            BY <1>2, <1>3, <2>1, <3>1 DEF ClockInv, TypeOK
    <2>3. ListsSound' /\ SpentIsOff' /\ RingsOnlyWhenDue' /\ OnlyDueCanRing'
        BY <1>2, <1>3, <2>1 DEF ClockInv, ListsSound, SpentIsOff, RingsOnlyWhenDue, OnlyDueCanRing
    <2>4. FirstFollowsClock' /\ ListSinceClock' /\ StaleHasRung'
        BY <1>2, <1>3, <1>4, <2>1
           DEF ClockInv, FirstFollowsClock, ListSinceClock, StaleHasRung
    <2>5. AboutToRing'
        BY <1>2, <1>3, <1>4, <2>1 DEF ClockInv, AboutToRing, Exposed, DueNow
    <2> QED
        BY <2>2, <2>3, <2>4, <2>5 DEF ClockInv
<1>5. CASE rings
    <2>1. /\ alarms' = StartAlarm(alarms, first.id)
          /\ rung' = rung \cup {first.id}
          /\ spent' = IF alarms[i].repeatDays = {} THEN spent \cup {first.id} ELSE spent
        BY <1>3, <1>5 DEF EvalDiff
    <2>2. first.id \in 0 .. MaxId /\ first.id \in due \cup {0}
        BY <1>1, <1>5, AlarmOfList DEF Ids, ClockInv, OnlyDueCanRing
    <2>3. /\ alarms' \in Seq(Alarm) /\ Distinct(alarms')
          /\ Others(alarms', first.id) = Others(alarms, first.id)
        BY <1>1, <2>1, StartAlarmKeeps
    <2>4. /\ OnlyPhantomsLackTime(alarms')
          /\ \A a \in ToSet(alarms') :
                \/ a \in ToSet(alarms)
                \/ /\ a.id = first.id /\ a.time = alarms[i].time
                   /\ a.repeatDays = alarms[i].repeatDays
                   /\ a.isEnabled = (alarms[i].repeatDays # {})
          /\ first.id # 0 =>
                \A a \in ToSet(alarms') : a.id = first.id =>
                   /\ a.repeatDays = alarms[i].repeatDays
                   /\ a.isEnabled = (alarms[i].repeatDays # {})
        BY <1>1, <1>5, <2>1, RingingKeepsClock
    <2>5. alarms[i] \in ToSet(alarms) /\ alarms[i].id = first.id
        BY <1>1, <1>5, IndexOfProperties, AlarmOfList DEF ToSet
    <2> HIDE DEF i
    <2>6. TypeOK'
        <3>1. armed' \in BOOLEAN
            BY <1>3 DEF Fires
        <3>2. rung' \subseteq 0 .. MaxId /\ spent' \subseteq 0 .. MaxId
            BY <1>1, <2>1, <2>2
        <3> QED
            BY <1>2, <1>3, <2>3, <3>1, <3>2 DEF ClockInv, TypeOK
    <2>7. ListsSound'
        BY <1>3, <2>3, <2>4 DEF ClockInv, ListsSound
    <2>8. FirstFollowsClock'
        BY <1>2, <1>3 DEF ClockInv, FirstFollowsClock
    <2>9. RingsOnlyWhenDue'
        BY <1>3, <2>1, <2>2 DEF ClockInv, RingsOnlyWhenDue
    <2>10. OnlyDueCanRing'
        <3>1. Fires(first, now)' => first'.id \in due' \cup {0}
            BY <1>3, <2>2
        <3>2. DueIds(alarms', now) \subseteq DueIds(alarms, now) \cup {first.id}
            BY <2>4 DEF DueIds
        <3> QED
            BY <1>2, <1>3, <2>2, <3>1, <3>2 DEF ClockInv, OnlyDueCanRing
    <2>11. SpentIsOff'
        <3> SUFFICES ASSUME NEW a \in ToSet(alarms'), a.id \in spent', a.id # 0
                     PROVE  ~a.isEnabled /\ a.repeatDays = {}
            BY DEF SpentIsOff
        <3>1. CASE a.id = first.id
            <4>1. a.repeatDays = alarms[i].repeatDays /\ a.isEnabled = (alarms[i].repeatDays # {})
                BY <2>4, <3>1
            <4>2. alarms[i].repeatDays = {}
                BY <2>1, <2>5, <3>1 DEF ClockInv, SpentIsOff
            <4> QED
                BY <4>1, <4>2
        <3>2. CASE a.id # first.id
            <4>1. a.id \in spent
                BY <2>1, <3>2
            <4>2. a \in ToSet(alarms)
                BY <2>4, <3>2
            <4> QED
                BY <4>1, <4>2 DEF ClockInv, SpentIsOff
        <3> QED
            BY <3>1, <3>2
    <2>12. ListSinceClock'
        <3> SUFFICES ASSUME "first" \in pending
                     PROVE  /\ \A c \in ToSet(alarms') : \E b \in ToSet(before) : SameAlarm(b, c)
                            /\ \A k \in DOMAIN before :
                                  before[k].id \in rung' \/ StandsIn(alarms', before, k)
            BY <1>2, <1>3 DEF ListSinceClock, StandsIn
        <3>1. /\ \A c \in ToSet(alarms) : \E b \in ToSet(before) : SameAlarm(b, c)
              /\ \A k \in DOMAIN before : before[k].id \in rung \/ StandsIn(alarms, before, k)
            BY DEF ClockInv, ListSinceClock
        <3>2. ASSUME NEW k \in DOMAIN before
              PROVE  before[k].id \in rung' \/ StandsIn(alarms', before, k)
            <4> SUFFICES ASSUME before[k].id \notin rung, before[k].id # first.id
                         PROVE  StandsIn(alarms', before, k)
                BY <2>1
            <4>1. PICK m \in DOMAIN alarms :
                     /\ alarms[m] = before[k]
                     /\ \A l \in 1 .. m : \E j \in 1 .. k : SameAlarm(before[j], alarms[l])
                BY <3>1 DEF StandsIn
            <4>2. PICK n \in DOMAIN alarms' :
                     /\ alarms'[n] = alarms[m]
                     /\ \A l \in 1 .. n : \E j \in 1 .. m : SameAlarm(alarms[j], alarms'[l])
                BY <1>1, <1>5, <2>1, <4>1, RingingKeepsOrder DEF StandsIn
            <4>3. ASSUME NEW l \in 1 .. n
                  PROVE  \E j \in 1 .. k : SameAlarm(before[j], alarms'[l])
                <5>1. PICK j \in 1 .. m : SameAlarm(alarms[j], alarms'[l])
                    BY <4>2
                <5>2. PICK h \in 1 .. k : SameAlarm(before[h], alarms[j])
                    BY <4>1
                <5> QED
                    BY <5>1, <5>2 DEF SameAlarm
            <4> QED
                BY <4>1, <4>2, <4>3 DEF StandsIn
        <3>3. ASSUME NEW c \in ToSet(alarms')
              PROVE  \E b \in ToSet(before) : SameAlarm(b, c)
            <4>1. CASE c \in ToSet(alarms)
                BY <3>1, <4>1
            <4>2. CASE c \notin ToSet(alarms)
                <5>1. PICK b \in ToSet(before) : SameAlarm(b, alarms[i])
                    BY <2>5, <3>1
                <5>2. SameAlarm(b, c)
                    BY <2>4, <2>5, <4>2, <5>1 DEF SameAlarm
                <5> QED
                    BY <5>2
            <4> QED
                BY <4>1, <4>2
        <3> QED
            BY <3>2, <3>3
    <2>13. StaleHasRung'
        BY <1>3, <2>1 DEF StaleHasRung
    <2>14. AboutToRing'
        <3> SUFFICES ASSUME "first" \notin pending, NEW k \in Exposed
                     PROVE  \E j \in 1 .. k : before[j].time = before[k].time /\ before[j].id \in rung'
            BY <1>2, <1>3 DEF AboutToRing, Exposed, DueNow
        <3> QED
            BY <1>3, <2>1 DEF ClockInv, AboutToRing
    <2> QED
        BY <2>6, <2>7, <2>8, <2>9, <2>10, <2>11, <2>12, <2>13, <2>14 DEF ClockInv
<1> QED
    BY <1>4, <1>5

\* An operation on the list: nothing waits, so whatever was due has rung.
LEMMA EditedKeeps ==
    ASSUME ClockInv, NEW ids, Edited(ids), alarms' \in Seq(Alarm), Distinct(alarms'),
           OnlyPhantomsLackTime(alarms'),
           \A a \in ToSet(alarms') : a.id \in ids \/ a \in ToSet(alarms)
    PROVE  ClockInv'
<1>1. /\ pending = {} /\ pending' \subseteq {"again"} /\ edits < MaxEdits /\ edits' = edits + 1
      /\ spent' = spent \ ids
      /\ UNCHANGED <<now, millis, before, due, first, armed, read, rung>>
    BY DEF Edited, clockVars
<1>2. TypeOK'
    <2>1. edits' \in 0 .. MaxEdits
        BY <1>1, AlarmClockAssumption DEF ClockInv, TypeOK
    <2>2. pending' \subseteq {"first", "diff", "again"} /\ spent' \subseteq 0 .. MaxId
        BY <1>1 DEF ClockInv, TypeOK
    <2> QED
        BY <1>1, <2>1, <2>2 DEF ClockInv, TypeOK
<1>3. ListsSound' /\ RingsOnlyWhenDue'
    BY <1>1 DEF ClockInv, ListsSound, RingsOnlyWhenDue
<1>4. FirstFollowsClock' /\ OnlyDueCanRing' /\ ListSinceClock' /\ StaleHasRung'
    BY <1>1 DEF ClockInv, FirstFollowsClock, OnlyDueCanRing, ListSinceClock, StaleHasRung
<1>5. SpentIsOff'
    BY <1>1 DEF ClockInv, SpentIsOff
<1>6. AboutToRing'
    BY <1>1 DEF ClockInv, AboutToRing, Exposed, DueNow
<1> QED
    BY <1>2, <1>3, <1>4, <1>5, <1>6 DEF ClockInv

LEMMA NextClock == ClockInv /\ [Next]_vars => ClockInv'
<1> SUFFICES ASSUME ClockInv, [Next]_vars
             PROVE  ClockInv'
    OBVIOUS
<1>1. alarms \in Seq(Alarm) /\ Distinct(alarms) /\ OnlyPhantomsLackTime(alarms)
    BY DEF ClockInv, TypeOK, ListsSound
<1>2. \A id \in Ids(alarms) : id \in Nat
    <2>1. \A id \in Ids(alarms) : id \in 0 .. MaxId
        BY <1>1, AlarmOfList DEF Ids
    <2>2. \A n \in 0 .. MaxId : n \in Nat
        OBVIOUS
    <2> QED
        BY <2>1, <2>2
<1>3. CASE Tick
    BY <1>3, TickKeeps
<1>4. CASE Synchronise
    BY <1>4, SynchroniseKeeps
<1>5. CASE Evaluate
    BY <1>5, EvalFirstKeeps, EvalDiffKeeps DEF Evaluate
<1>6. CASE Create
    <2>1. PICK edit \in Edits : alarms' = CreateAlarm(alarms, edit)
        BY <1>6 DEF Create
    <2>2. NextId(alarms) <= MaxId /\ Edited({NextId(alarms)}) /\ edit \in Edit
        BY <1>6, AlarmClockAssumption DEF Create
    <2> QED
        BY <1>1, <2>1, <2>2, CreateAlarmKeeps, CreateKeepsClock, EditedKeeps
<1>7. CASE Change
    <2>1. PICK id \in Ids(alarms), edit \in Edits :
             alarms' = ChangeAlarm(alarms, id, edit) /\ Edited({id})
        BY <1>7 DEF Change
    <2>2. edit \in Edit
        BY AlarmClockAssumption
    <2> QED
        BY <1>1, <1>2, <2>1, <2>2, ChangeAlarmKeeps, ChangeKeepsClock, EditedKeeps
<1>8. CASE Delete
    <2>1. PICK id \in Ids(alarms) : alarms' = DeleteAlarm(alarms, id) /\ Edited({id})
        BY <1>8 DEF Delete
    <2> QED
        BY <1>1, <2>1, DeleteAlarmKeeps, DeleteKeepsClock, EditedKeeps
<1>9. CASE Toggle
    <2>1. PICK i \in DOMAIN alarms, checked \in BOOLEAN :
             /\ alarms' = UpdateStatus(alarms, alarms[i].id, checked)
             /\ Edited({alarms[i].id})
        BY <1>9 DEF Toggle
    <2> QED
        BY <1>1, <2>1, UpdateStatusKeeps, ToggleKeepsClock, EditedKeeps
<1>10. CASE SetAlarms
    <2>1. PICK new \in Lists : alarms' = new /\ Edited(0 .. MaxId)
        BY <1>10 DEF SetAlarms
    <2>2. alarms' \in Seq(Alarm) /\ Distinct(alarms') /\ OnlyPhantomsLackTime(alarms')
        BY <2>1, AlarmClockAssumption
    <2>3. \A a \in ToSet(alarms') : a.id \in 0 .. MaxId
        BY <2>2, AlarmOfList DEF ToSet
    <2> QED
        BY <2>1, <2>2, <2>3, EditedKeeps
<1>11. CASE UNCHANGED vars
    BY <1>11 DEF vars, ClockInv, TypeOK, ListsSound, FirstFollowsClock, OnlyDueCanRing,
                 RingsOnlyWhenDue, SpentIsOff, ListSinceClock, StaleHasRung, AboutToRing,
                 Exposed, DueNow
<1> QED
    BY <1>3, <1>4, <1>5, <1>6, <1>7, <1>8, <1>9, <1>10, <1>11 DEF Next

\* The invariant holds of every behaviour.
LEMMA ClockInvariant == Spec => []ClockInv
BY InitClock, NextClock, PTL DEF Spec

-----------------------------------------------------------------------------
(* The properties *)

\* The variables keep their types, whatever the lists and the clock: what
\* find_first_alarm finds lies within two weeks.
THEOREM ClockTyped == Spec => []TypeOK
<1>1. ClockInv => TypeOK
    BY DEF ClockInv
<1> QED
    BY <1>1, ClockInvariant, PTL

\* In whatever order the two bindings are evaluated and the list is edited, an alarm
\* rings only at its time.
THEOREM RingsAtItsTime == Spec => []RingsOnlyWhenDue
<1>1. ClockInv => RingsOnlyWhenDue
    BY DEF ClockInv
<1> QED
    BY <1>1, ClockInvariant, PTL

\* An alarm that does not repeat rings once, however the clock is set back.
THEOREM RingsOnce == Spec => []OneShotStaysOff
<1>1. ClockInv => OneShotStaysOff
    BY DEF ClockInv, SpentIsOff, OneShotStaysOff
<1> QED
    BY <1>1, ClockInvariant, PTL

\* By the time both bindings have been evaluated every alarm has rung that was due
\* and is not at 00:00, not hidden by an earlier one that does not repeat and not
\* behind one of the same time that rang.
THEOREM DueAlarmsRing == Spec => []DueAlarmRings
<1>1. ClockInv => DueAlarmRings
    <2> SUFFICES ASSUME ClockInv, pending = {}, NEW i \in DueNow, before[i].time # 0,
                        \A b \in ToSet(before) : ~Hides(b, before[i])
                 PROVE  before[i].id \in rung \/ RangInstead(i)
        BY DEF DueAlarmRings
    <2>1. i \in Exposed
        BY DEF Exposed
    <2>2. PICK j \in 1 .. i : before[j].time = before[i].time /\ before[j].id \in rung
        BY <2>1 DEF ClockInv, AboutToRing
    <2>3. i \in Nat
        BY AlarmOfList DEF DueNow, ClockInv, TypeOK
    <2>4. j = i \/ j \in 1 .. i - 1
        BY <2>3
    <2> QED
        BY <2>2, <2>4 DEF RangInstead
<1> QED
    BY <1>1, ClockInvariant, PTL
=============================================================================
