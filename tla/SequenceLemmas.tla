---------------------------- MODULE SequenceLemmas ----------------------------
(***************************************************************************)
(* What the least and the greatest number of a set, and the operators of    *)
(* SequencesExt the models use, return.                                     *)
(*                                                                         *)
(* Op is what a loop does with each member of a list, any operation         *)
(* whatever: to speak of one loop instantiate this module with its Op.      *)
(***************************************************************************)
EXTENDS Integers, Sequences, SequencesExt, Selection, SequenceTheorems, WellFoundedInduction, TLAPS

CONSTANT Op(_, _)

\* A set of naturals that is not empty has a least element.
LEMMA MinOfNats ==
    ASSUME NEW S, S \subseteq Nat, S # {}
    PROVE  Min(S) \in S /\ \A y \in S : Min(S) <= y
<1> DEFINE R == OpToRel(<, Nat)
<1>1. PICK x \in S : \A y \in S : <<y, x>> \notin R
    <2>1. IsWellFoundedOn(R, Nat)
        BY NatLessThanWellFounded
    <2> HIDE DEF R
    <2> QED
        BY <2>1, WFMin
<1>2. \A y \in S : x <= y
    <2>1. \A y \in S : ~(y < x)
        BY <1>1 DEF OpToRel
    <2> QED
        BY <2>1
<1> QED
    BY <1>2 DEF Min

\* A set of integers above a bound has a least element.
LEMMA MinOfIntegers ==
    ASSUME NEW K \in Nat, NEW S, S \subseteq Int, S # {}, \A x \in S : -K <= x
    PROVE  Min(S) \in S /\ \A y \in S : Min(S) <= y
<1> DEFINE T == {x + K : x \in S}
<1>1. T \subseteq Nat /\ T # {}
    <2>1. \A x \in S : x + K \in Nat
        OBVIOUS
    <2> QED
        BY <2>1
<1>2. Min(T) \in T /\ \A y \in T : Min(T) <= y
    BY <1>1, MinOfNats
<1>3. PICK x \in S : Min(T) = x + K
    BY <1>2
<1>4. \A y \in S : x + K <= y + K
    BY <1>2, <1>3
<1>5. \A y \in S : x <= y
    BY <1>4
<1> QED
    BY <1>5 DEF Min

\* A set of naturals below a bound has a greatest one.
LEMMA MaxOfNats ==
    ASSUME NEW K \in Nat, NEW S, S \subseteq 0 .. K, S # {}
    PROVE  Max(S) \in S /\ \A y \in S : Max(S) >= y
<1> DEFINE T == {K - x : x \in S}
<1>1. T \subseteq Nat /\ T # {}
    <2>1. \A x \in S : K - x \in Nat
        OBVIOUS
    <2> QED
        BY <2>1
<1>2. Min(T) \in T /\ \A y \in T : Min(T) <= y
    BY <1>1, MinOfNats
<1>3. PICK x \in S : Min(T) = K - x
    BY <1>2
<1>4. \A y \in S : K - x <= K - y
    BY <1>2, <1>3
<1>5. \A y \in S : x >= y
    BY <1>4
<1> QED
    BY <1>5 DEF Max

\* Division with a remainder, and that there is only one.
LEMMA Division ==
    ASSUME NEW t \in Nat, NEW d \in Nat \ {0}
    PROVE  /\ t \div d \in Nat /\ t % d \in 0 .. d - 1
           /\ t = (t \div d) * d + (t % d)
OBVIOUS

LEMMA DivisionIsUnique ==
    ASSUME NEW t \in Nat, NEW q \in Nat, NEW d \in Nat \ {0}, NEW r \in 0 .. d - 1, t = q * d + r
    PROVE  t \div d = q /\ t % d = r
OBVIOUS

-----------------------------------------------------------------------------
(* Induction, for a set instead of a predicate, and recursion, for a step   *)
(* that is a function.                                                      *)

LEMMA NatInductive ==
    ASSUME NEW B, 0 \in B, \A n \in Nat : n \in B => n + 1 \in B
    PROVE  \A n \in Nat : n \in B
<1> DEFINE bad == {n \in Nat : n \notin B}
<1>1. SUFFICES ASSUME bad # {} PROVE FALSE
    OBVIOUS
<1>2. Min(bad) \in bad /\ \A n \in bad : Min(bad) <= n
    BY <1>1, MinOfNats
<1>3. PICK m \in Nat : m \notin B /\ \A n \in Nat : n \notin B => m <= n
    BY <1>2
<1>4. m - 1 \in Nat /\ m - 1 \in B
    BY <1>3
<1>5. (m - 1) + 1 \in B
    BY <1>4
<1> QED
    BY <1>3, <1>5

\* The values of f are those that the first one and the step define.
Follows(f, base, step, k) == f[0] = base /\ \A i \in 1 .. k : f[i] = step[i][f[i - 1]]

\* There is a function that the first value and the step define.
LEMMA Recursion ==
    ASSUME NEW X, NEW base \in X, NEW step \in [Nat -> [X -> X]], NEW k \in Nat
    PROVE  \E f \in [0 .. k -> X] : Follows(f, base, step, k)
<1> DEFINE Goes(f, n) == \A i \in 0 .. n : f[i] = IF i = 0 THEN base ELSE step[i][f[i - 1]]
           B == {n \in Nat : \E f \in [0 .. n -> X] : Goes(f, n)}
<1>1. 0 \in B
    <2> DEFINE g == [i \in 0 .. 0 |-> base]
    <2>1. g \in [0 .. 0 -> X] /\ Goes(g, 0)
        OBVIOUS
    <2> QED
        BY <2>1
<1>2. ASSUME NEW n \in Nat, n \in B
      PROVE  n + 1 \in B
    <2>1. PICK f \in [0 .. n -> X] : Goes(f, n)
        BY <1>2
    <2> DEFINE g == [i \in 0 .. n + 1 |-> IF i <= n THEN f[i] ELSE step[i][f[n]]]
    <2>2. step[n + 1][f[n]] \in X
        OBVIOUS
    <2>3. g \in [0 .. n + 1 -> X] /\ \A i \in 0 .. n : g[i] = f[i]
        BY <2>2
    <2>4. g[n + 1] = step[n + 1][g[(n + 1) - 1]]
        BY <2>3
    <2>5. Goes(g, n + 1)
        <3>1. ASSUME NEW i \in 0 .. n
              PROVE  g[i] = IF i = 0 THEN base ELSE step[i][g[i - 1]]
            <4>1. i # 0 => i - 1 \in 0 .. n
                OBVIOUS
            <4> HIDE DEF g
            <4> QED
                BY <2>1, <2>3, <4>1
        <3> HIDE DEF g
        <3>2. ASSUME NEW i \in 0 .. n + 1
              PROVE  g[i] = IF i = 0 THEN base ELSE step[i][g[i - 1]]
            <4>1. i \in 0 .. n \/ (i = n + 1 /\ i # 0)
                OBVIOUS
            <4> QED
                BY <2>4, <3>1, <4>1
        <3> QED
            BY <3>2
    <2> HIDE DEF g, Goes
    <2> QED
        BY <2>3, <2>5
<1> HIDE DEF B
<1>3. k \in B
    BY <1>1, <1>2, NatInductive
<1>4. PICK f \in [0 .. k -> X] : Goes(f, k)
    BY <1>3 DEF B
<1>5. \A i \in 1 .. k : i \in 0 .. k /\ i # 0
    OBVIOUS
<1> QED
    BY <1>4, <1>5 DEF Follows

-----------------------------------------------------------------------------
\* What RemoveAt and InsertAt return, position by position.
LEMMA RemoveAtProperties ==
    ASSUME NEW S, NEW s \in Seq(S), NEW i \in 1 .. Len(s)
    PROVE  /\ RemoveAt(s, i) \in Seq(S)
           /\ Len(RemoveAt(s, i)) = Len(s) - 1
           /\ \A j \in 1 .. Len(s) - 1 :
                 RemoveAt(s, i)[j] = IF j < i THEN s[j] ELSE s[j + 1]
<1> DEFINE a == SubSeq(s, 1, i - 1)
           b == SubSeq(s, i + 1, Len(s))
<1>0. Len(s) \in Nat /\ \A j \in 1 .. Len(s) : s[j] \in S
    BY LenProperties, ElementOfSeq
<1>1. /\ a \in Seq(S) /\ Len(a) = i - 1
      /\ \A j \in 1 .. i - 1 : a[j] = s[j]
    <2>1. \A j \in 1 .. i - 1 : s[j] \in S
        BY <1>0
    <2> QED
        BY <1>0, <2>1, SubSeqProperties
<1>2. /\ b \in Seq(S) /\ Len(b) = Len(s) - i
      /\ \A j \in 1 .. Len(s) - i : b[j] = s[i + j]
    <2>1. \A j \in i + 1 .. Len(s) : s[j] \in S
        BY <1>0
    <2>2. /\ b \in Seq(S) /\ Len(b) = IF i + 1 <= Len(s) THEN Len(s) - (i + 1) + 1 ELSE 0
          /\ \A j \in 1 .. Len(s) - (i + 1) + 1 : b[j] = s[(i + 1) + j - 1]
        BY <1>0, <2>1, SubSeqProperties
    <2> QED
        BY <1>0, <2>2
<1> HIDE DEF a, b
<1>3. /\ a \o b \in Seq(S) /\ Len(a \o b) = Len(a) + Len(b)
      /\ \A j \in 1 .. Len(a) + Len(b) :
            (a \o b)[j] = IF j <= Len(a) THEN a[j] ELSE b[j - Len(a)]
    BY <1>1, <1>2, ConcatProperties
<1>4. ASSUME NEW j \in 1 .. Len(s) - 1
      PROVE  (a \o b)[j] = IF j < i THEN s[j] ELSE s[j + 1]
    <2>1. CASE j < i
        BY <2>1, <1>0, <1>1, <1>2, <1>3
    <2>2. CASE ~(j < i)
        <3>1. (a \o b)[j] = b[j - (i - 1)]
            BY <2>2, <1>0, <1>1, <1>2, <1>3
        <3>2. b[j - (i - 1)] = s[i + (j - (i - 1))]
            BY <2>2, <1>0, <1>2
        <3>3. i + (j - (i - 1)) = j + 1
            OBVIOUS
        <3> QED
            BY <2>2, <3>1, <3>2, <3>3
    <2> QED
        BY <2>1, <2>2
<1>5. RemoveAt(s, i) = a \o b
    BY DEF RemoveAt, a, b
<1>6. Len(a) + Len(b) = Len(s) - 1
    BY <1>0, <1>1, <1>2
<1> QED
    BY <1>3, <1>4, <1>5, <1>6

LEMMA InsertAtProperties ==
    ASSUME NEW S, NEW s \in Seq(S), NEW i \in 1 .. Len(s) + 1, NEW e \in S
    PROVE  /\ InsertAt(s, i, e) \in Seq(S)
           /\ Len(InsertAt(s, i, e)) = Len(s) + 1
           /\ \A j \in 1 .. Len(s) + 1 :
                 InsertAt(s, i, e)[j] = IF j < i THEN s[j] ELSE IF j = i THEN e ELSE s[j - 1]
<1> DEFINE a == SubSeq(s, 1, i - 1)
           b == SubSeq(s, i, Len(s))
           c == a \o <<e>>
<1>0. Len(s) \in Nat /\ \A j \in 1 .. Len(s) : s[j] \in S
    BY LenProperties, ElementOfSeq
<1>1. /\ a \in Seq(S) /\ Len(a) = i - 1
      /\ \A j \in 1 .. i - 1 : a[j] = s[j]
    <2>1. \A j \in 1 .. i - 1 : s[j] \in S
        BY <1>0
    <2> QED
        BY <1>0, <2>1, SubSeqProperties
<1>2. /\ b \in Seq(S) /\ Len(b) = Len(s) - i + 1
      /\ \A j \in 1 .. Len(s) - i + 1 : b[j] = s[i + j - 1]
    <2>1. \A j \in i .. Len(s) : s[j] \in S
        BY <1>0
    <2>2. /\ b \in Seq(S) /\ Len(b) = IF i <= Len(s) THEN Len(s) - i + 1 ELSE 0
          /\ \A j \in 1 .. Len(s) - i + 1 : b[j] = s[i + j - 1]
        BY <1>0, <2>1, SubSeqProperties
    <2> QED
        BY <1>0, <2>2
<1>3. <<e>> \in Seq(S) /\ Len(<<e>>) = 1 /\ <<e>>[1] = e
    OBVIOUS
<1> HIDE DEF a, b
<1>4. /\ c \in Seq(S) /\ Len(c) = i
      /\ \A j \in 1 .. i : c[j] = IF j < i THEN s[j] ELSE e
    <2>1. /\ c \in Seq(S) /\ Len(c) = Len(a) + 1
          /\ \A j \in 1 .. Len(a) + 1 : c[j] = IF j <= Len(a) THEN a[j] ELSE <<e>>[j - Len(a)]
        BY <1>1, <1>3, ConcatProperties
    <2> QED
        BY <2>1, <1>0, <1>1, <1>3
<1> HIDE DEF c
<1>5. /\ c \o b \in Seq(S) /\ Len(c \o b) = Len(c) + Len(b)
      /\ \A j \in 1 .. Len(c) + Len(b) :
            (c \o b)[j] = IF j <= Len(c) THEN c[j] ELSE b[j - Len(c)]
    BY <1>2, <1>4, ConcatProperties
<1>6. ASSUME NEW j \in 1 .. Len(s) + 1
      PROVE  (c \o b)[j] = IF j < i THEN s[j] ELSE IF j = i THEN e ELSE s[j - 1]
    <2>1. CASE j <= i
        BY <2>1, <1>0, <1>2, <1>4, <1>5
    <2>2. CASE ~(j <= i)
        <3>1. (c \o b)[j] = b[j - i]
            BY <2>2, <1>0, <1>2, <1>4, <1>5
        <3>2. b[j - i] = s[i + (j - i) - 1]
            BY <2>2, <1>0, <1>2
        <3>3. i + (j - i) - 1 = j - 1
            OBVIOUS
        <3> QED
            BY <2>2, <3>1, <3>2, <3>3
    <2> QED
        BY <2>1, <2>2
<1>7. InsertAt(s, i, e) = c \o b
    BY DEF InsertAt, a, b, c
<1>8. Len(c) + Len(b) = Len(s) + 1
    BY <1>0, <1>2, <1>4
<1> QED
    BY <1>5, <1>6, <1>7, <1>8

\* Every element of a concatenation is one of the two sequences.
LEMMA ConcatElements ==
    ASSUME NEW S, NEW s \in Seq(S), NEW r \in Seq(S)
    PROVE  /\ s \o r \in Seq(S)
           /\ \A i \in DOMAIN (s \o r) : \/ \E j \in DOMAIN s : (s \o r)[i] = s[j]
                                       \/ \E j \in DOMAIN r : (s \o r)[i] = r[j]
<1> DEFINE q == s \o r
<1>1. /\ Len(s) \in Nat /\ DOMAIN s = 1 .. Len(s) /\ Len(r) \in Nat /\ DOMAIN r = 1 .. Len(r)
    BY LenProperties
<1>2. /\ q \in Seq(S) /\ Len(q) = Len(s) + Len(r)
      /\ \A i \in 1 .. Len(s) + Len(r) : q[i] = IF i <= Len(s) THEN s[i] ELSE r[i - Len(s)]
    BY ConcatProperties
<1> HIDE DEF q
<1>3. DOMAIN q = 1 .. Len(s) + Len(r)
    BY <1>2, LenProperties
<1>4. ASSUME NEW i \in DOMAIN q
      PROVE  (\E j \in DOMAIN s : q[i] = s[j]) \/ (\E j \in DOMAIN r : q[i] = r[j])
    <2>1. CASE i <= Len(s)
        BY <1>1, <1>2, <1>3, <2>1
    <2>2. CASE ~(i <= Len(s))
        <3>1. i - Len(s) \in DOMAIN r /\ q[i] = r[i - Len(s)]
            BY <1>1, <1>2, <1>3, <2>2
        <3> QED
            BY <3>1
    <2> QED
        BY <2>1, <2>2
<1> QED
    BY <1>2, <1>4 DEF q

-----------------------------------------------------------------------------
\* At goes from place to place.
LEMMA AtGoes ==
    ASSUME NEW T, NEW s \in Seq(T), NEW S
    PROVE  \E f \in [0 .. Len(s) -> Seq(T)] :
              /\ At(s, S) = f[Len(s)]
              /\ f[0] = <<>>
              /\ \A i \in 1 .. Len(s) :
                    f[i] = IF i \in S THEN Append(f[i - 1], s[i]) ELSE f[i - 1]
<1> DEFINE k == Len(s)
           X == Seq(T)
           Goes(f, i) == IF i = 0 THEN <<>>
                         ELSE IF i \in S THEN Append(f[i - 1], s[i]) ELSE f[i - 1]
           Is(f) == f = [i \in 0 .. k |-> Goes(f, i)]
           step == [i \in Nat |-> [r \in X |->
                       IF i \in S /\ i \in 1 .. k THEN Append(r, s[i]) ELSE r]]
           taken == CHOOSE f : Is(f)
<1>1. k \in Nat /\ <<>> \in X /\ \A i \in 1 .. k : s[i] \in T
    BY LenProperties, ElementOfSeq
<1>2. At(s, S) = taken[k]
    BY DEF At
<1>3. \A i \in 1 .. k : \A r \in X : Append(r, s[i]) \in X
    BY <1>1, AppendProperties
<1> HIDE DEF k, X
<1>4. step \in [Nat -> [X -> X]]
    BY <1>3
<1>5. \A i \in 1 .. k : \A r \in X : step[i][r] = IF i \in S THEN Append(r, s[i]) ELSE r
    BY <1>1
<1> HIDE DEF step
<1>6. \E f \in [0 .. k -> X] : Follows(f, <<>>, step, k)
    BY <1>1, <1>4, Recursion
<1>7. PICK f \in [0 .. k -> X] : f[0] = <<>> /\ \A i \in 1 .. k : f[i] = step[i][f[i - 1]]
    BY <1>6 DEF Follows
<1>8. ASSUME NEW i \in 0 .. k
      PROVE  f[i] = Goes(f, i)
    <2>1. CASE i = 0
        BY <1>7, <2>1
    <2>2. CASE i # 0
        <3>1. i \in 1 .. k /\ i - 1 \in 0 .. k
            BY <1>1, <2>2
        <3>2. f[i - 1] \in X /\ f[i] = step[i][f[i - 1]]
            BY <1>7, <3>1
        <3> QED
            BY <1>5, <2>2, <3>1, <3>2
    <2> QED
        BY <2>1, <2>2
<1>9. Is(f)
    <2>1. f = [i \in 0 .. k |-> f[i]]
        BY <1>7
    <2> HIDE DEF Goes
    <2> QED
        BY <1>8, <2>1
<1>10. Is(taken)
    <2> HIDE DEF Is
    <2> QED
        BY <1>9
<1> HIDE DEF taken
<1>11. DOMAIN taken = 0 .. k /\ \A i \in 0 .. k : taken[i] = Goes(taken, i)
    <2> HIDE DEF Goes
    <2> QED
        BY <1>10
<1> DEFINE B == {n \in Nat : n <= k => taken[n] \in X}
<1>12. 0 \in B
    <2>1. 0 \in 0 .. k
        BY <1>1
    <2>2. taken[0] = <<>>
        BY <1>11, <2>1
    <2> QED
        BY <1>1, <2>2
<1>13. ASSUME NEW n \in Nat, n \in B
      PROVE  n + 1 \in B
    <2>1. SUFFICES ASSUME n + 1 <= k PROVE taken[n + 1] \in X
        OBVIOUS
    <2>2. n <= k /\ n + 1 \in 1 .. k /\ n + 1 \in 0 .. k /\ n + 1 # 0 /\ (n + 1) - 1 = n
        BY <1>1, <2>1
    <2>3. taken[n] \in X
        BY <1>13, <2>2
    <2>4. taken[n + 1] = IF n + 1 \in S THEN Append(taken[n], s[n + 1]) ELSE taken[n]
        <3>1. taken[n + 1] = Goes(taken, n + 1)
            <4> HIDE DEF Goes
            <4> QED
                BY <1>11, <2>2
        <3> QED
            BY <2>2, <3>1
    <2> QED
        BY <1>3, <2>2, <2>3, <2>4
<1>14. \A n \in Nat : n \in B
    <2> HIDE DEF B
    <2> QED
        BY <1>12, <1>13, NatInductive
<1>15. taken \in [0 .. k -> X]
    <2>1. \A i \in 0 .. k : taken[i] \in X
        BY <1>1, <1>14
    <2>2. taken = [i \in 0 .. k |-> taken[i]]
        <3> HIDE DEF Goes
        <3> QED
            BY <1>10
    <2> QED
        BY <2>1, <2>2
<1>16. ASSUME NEW i \in 1 .. k
       PROVE  taken[i] = IF i \in S THEN Append(taken[i - 1], s[i]) ELSE taken[i - 1]
    <2>1. i \in 0 .. k /\ i # 0
        BY <1>1
    <2>2. taken[i] = Goes(taken, i)
        <3> HIDE DEF Goes
        <3> QED
            BY <1>11, <2>1
    <2> QED
        BY <2>1, <2>2
<1>17. taken[0] = <<>>
    BY <1>1, <1>11
<1> QED
    BY <1>2, <1>15, <1>16, <1>17 DEF k, X

\* What At returns: exactly the members at the places, the first one first, and none
\* twice that is not at two of them.
LEMMA AtProperties ==
    ASSUME NEW T, NEW s \in Seq(T), NEW S
    PROVE  /\ At(s, S) \in Seq(T)
           /\ \A x : x \in ToSet(At(s, S)) <=> \E i \in DOMAIN s : i \in S /\ x = s[i]
           /\ s # <<>> /\ 1 \in S => At(s, S) # <<>> /\ At(s, S)[1] = s[1]
           /\ (\A i, j \in DOMAIN s : i \in S /\ j \in S /\ s[i] = s[j] => i = j)
                 => IsInjective(At(s, S))
<1>1. PICK f \in [0 .. Len(s) -> Seq(T)] :
              /\ At(s, S) = f[Len(s)]
              /\ f[0] = <<>>
              /\ \A i \in 1 .. Len(s) :
                    f[i] = IF i \in S THEN Append(f[i - 1], s[i]) ELSE f[i - 1]
    BY AtGoes
<1>2. /\ Len(s) \in Nat /\ DOMAIN s = 1 .. Len(s) /\ \A i \in 1 .. Len(s) : s[i] \in T
      /\ s # <<>> <=> Len(s) # 0
    BY LenProperties, ElementOfSeq, EmptySeq
<1> DEFINE Apart == \A i, j \in DOMAIN s : i \in S /\ j \in S /\ s[i] = s[j] => i = j
           Good(n) == /\ \A x : x \in ToSet(f[n]) <=> \E i \in 1 .. n : i \in S /\ x = s[i]
                      /\ n > 0 /\ 1 \in S => f[n] # <<>> /\ f[n][1] = s[1]
                      /\ Apart => IsInjective(f[n])
           B == {n \in Nat : n <= Len(s) => Good(n)}
<1>3. 0 \in B
    <2>1. f[0] = <<>> /\ DOMAIN <<>> = {}
        BY <1>1
    <2>2. ToSet(<<>>) = {} /\ IsInjective(<<>>)
        BY <2>1 DEF ToSet, IsInjective
    <2> QED
        BY <2>1, <2>2
<1>4. ASSUME NEW n \in Nat, n \in B
      PROVE  n + 1 \in B
    <2>1. SUFFICES ASSUME n + 1 <= Len(s) PROVE Good(n + 1)
        OBVIOUS
    <2> DEFINE m == n + 1
               a == f[n]
               b == f[m]
    <2> HIDE DEF Good
    <2>2. n <= Len(s) /\ m \in 1 .. Len(s) /\ m - 1 = n /\ n \in 0 .. Len(s) /\ m \in 0 .. Len(s)
        BY <1>2, <2>1
    <2>3. Good(n)
        BY <1>4, <2>2
    <2>4. /\ n <= Len(s) /\ Good(n) /\ m \in 1 .. Len(s) /\ m - 1 = n
          /\ a \in Seq(T) /\ b \in Seq(T) /\ s[m] \in T
        BY <1>1, <1>2, <2>2, <2>3
    <2> USE DEF Good
    <2>5. b = IF m \in S THEN Append(a, s[m]) ELSE a
        BY <1>1, <2>4
    <2>6. \A i : i \in 1 .. m <=> i \in 1 .. n \/ i = m
        BY <2>4
    <2>7. CASE m \notin S
        <3>1. b = a
            BY <2>5, <2>7
        <3>2. \A x : (\E i \in 1 .. m : i \in S /\ x = s[i]) <=> (\E i \in 1 .. n : i \in S /\ x = s[i])
            BY <2>6, <2>7
        <3>3. 1 \in S => n > 0
            BY <2>7
        <3> QED
            BY <2>4, <3>1, <3>2, <3>3
    <2>8. CASE m \in S
        <3> DEFINE k == Len(a)
        <3>1. /\ k \in Nat /\ DOMAIN a = 1 .. k /\ Len(b) = k + 1 /\ DOMAIN b = 1 .. k + 1
              /\ \A i \in 1 .. k : b[i] = a[i]
              /\ b[k + 1] = s[m] /\ b # <<>>
            BY <2>4, <2>5, <2>8, AppendProperties, LenProperties
        <3> HIDE DEF a, b, k
        <3>2. ASSUME NEW x
              PROVE  x \in ToSet(b) <=> x \in ToSet(a) \/ x = s[m]
            <4>1. x \in ToSet(b) <=> \E i \in 1 .. k + 1 : x = b[i]
                BY <3>1 DEF ToSet
            <4>2. x \in ToSet(a) <=> \E i \in 1 .. k : x = a[i]
                BY <3>1 DEF ToSet
            <4>3. k + 1 \in 1 .. k + 1 /\ \A i \in 1 .. k + 1 : i \in 1 .. k \/ i = k + 1
                BY <3>1
            <4>4. \A i \in 1 .. k : i \in 1 .. k + 1
                BY <3>1
            <4> QED
                BY <3>1, <4>1, <4>2, <4>3, <4>4
        <3>3. ASSUME NEW x
              PROVE  x \in ToSet(b) <=> \E i \in 1 .. m : i \in S /\ x = s[i]
            BY <2>4, <2>6, <2>8, <3>2 DEF a
        <3>4. 1 \in S => b[1] = s[1]
            <4>1. CASE n = 0
                <5>1. k = 0
                    BY <1>1, <4>1, EmptySeq DEF a, k
                <5> QED
                    BY <3>1, <4>1, <5>1
            <4>2. CASE n # 0
                <5>1. 1 \in S => a # <<>> /\ a[1] = s[1]
                    BY <2>4, <4>2 DEF a
                <5>2. a # <<>> => 1 \in 1 .. k
                    BY <2>4, <3>1, EmptySeq DEF k, a
                <5> QED
                    BY <3>1, <5>1, <5>2
            <4> QED
                BY <4>1, <4>2
        <3>5. ASSUME Apart
              PROVE  IsInjective(b)
            <4>1. IsInjective(a)
                BY <2>4, <3>5 DEF a
            <4>2. s[m] \notin ToSet(a)
                <5>1. ASSUME NEW i \in 1 .. n, i \in S PROVE s[i] # s[m]
                    <6>1. i \in DOMAIN s /\ m \in DOMAIN s /\ i # m
                        BY <1>2, <2>4
                    <6> QED
                        BY <2>8, <3>5, <5>1, <6>1
                <5> QED
                    BY <2>4, <5>1 DEF a
            <4>3. \A i \in 1 .. k : b[i] # b[k + 1]
                BY <3>1, <4>2 DEF ToSet
            <4>4. ASSUME NEW i \in DOMAIN b, NEW j \in DOMAIN b, b[i] = b[j]
                  PROVE  i = j
                <5>1. (i \in 1 .. k \/ i = k + 1) /\ (j \in 1 .. k \/ j = k + 1)
                    BY <3>1
                <5>2. CASE i \in 1 .. k /\ j \in 1 .. k
                    BY <3>1, <4>1, <4>4, <5>2 DEF IsInjective
                <5> QED
                    BY <4>3, <4>4, <5>1, <5>2
            <4> QED
                BY <4>4 DEF IsInjective
        <3> QED
            BY <3>1, <3>3, <3>4, <3>5 DEF b
    <2> QED
        BY <2>7, <2>8
<1>5. Len(s) \in B
    <2> HIDE DEF B
    <2> QED
        BY <1>2, <1>3, <1>4, NatInductive
<1>6. Good(Len(s)) /\ f[Len(s)] \in Seq(T)
    BY <1>2, <1>5
<1>7. \A x : x \in ToSet(At(s, S)) <=> \E i \in DOMAIN s : i \in S /\ x = s[i]
    BY <1>1, <1>2, <1>6
<1>8. s # <<>> /\ 1 \in S => At(s, S) # <<>> /\ At(s, S)[1] = s[1]
    BY <1>1, <1>2, <1>6
<1>9. Apart => IsInjective(At(s, S))
    BY <1>1, <1>6
<1> QED
    BY <1>1, <1>6, <1>7, <1>8, <1>9

-----------------------------------------------------------------------------
\* Two functions start alike and go on alike.
StepAlike(f, g, n) == f[0] = g[0] /\ \A i \in 1 .. n : f[i - 1] = g[i - 1] => f[i] = g[i]

\* A loop that keeps some members of a list keeps no more than there are.
LEMMA AtLength ==
    ASSUME NEW T, NEW s \in Seq(T), NEW S
    PROVE  Len(At(s, S)) <= Len(s)
<1>1. PICK f \in [0 .. Len(s) -> Seq(T)] :
              /\ At(s, S) = f[Len(s)]
              /\ f[0] = <<>>
              /\ \A i \in 1 .. Len(s) :
                    f[i] = IF i \in S THEN Append(f[i - 1], s[i]) ELSE f[i - 1]
    BY AtGoes
<1>2. Len(s) \in Nat
    BY LenProperties
<1> DEFINE B == {n \in Nat : n <= Len(s) => Len(f[n]) <= n}
<1>3. 0 \in B
    BY <1>1, EmptySeq
<1>4. ASSUME NEW n \in Nat, n \in B
      PROVE  n + 1 \in B
    <2>1. SUFFICES ASSUME n + 1 <= Len(s) PROVE Len(f[n + 1]) <= n + 1
        OBVIOUS
    <2>2. n <= Len(s) /\ n + 1 \in 1 .. Len(s) /\ (n + 1) - 1 = n /\ n \in 0 .. Len(s)
        BY <1>2, <2>1
    <2>3. Len(f[n]) <= n /\ f[n] \in Seq(T) /\ s[n + 1] \in T
        BY <1>1, <1>4, <2>2, ElementOfSeq
    <2>4. f[n + 1] = Append(f[n], s[n + 1]) \/ f[n + 1] = f[n]
        BY <1>1, <2>2
    <2>5. Len(Append(f[n], s[n + 1])) = Len(f[n]) + 1 /\ Len(f[n]) \in Nat
        BY <2>3, AppendProperties, LenProperties
    <2> QED
        BY <2>3, <2>4, <2>5
<1> HIDE DEF B
<1>5. Len(s) \in B
    BY <1>2, <1>3, <1>4, NatInductive
<1> QED
    BY <1>1, <1>2, <1>5 DEF B

\* Such functions are alike.
LEMMA GoAlike ==
    ASSUME NEW n \in Nat, NEW f, NEW g, StepAlike(f, g, n)
    PROVE  \A i \in 0 .. n : f[i] = g[i]
<1> DEFINE B == {i \in Nat : i <= n => f[i] = g[i]}
<1>1. 0 \in B
    BY DEF StepAlike
<1>2. ASSUME NEW i \in Nat, i \in B
      PROVE  i + 1 \in B
    <2>1. SUFFICES ASSUME i + 1 <= n PROVE f[i + 1] = g[i + 1]
        OBVIOUS
    <2>2. i + 1 \in 1 .. n /\ (i + 1) - 1 = i /\ f[i] = g[i]
        BY <1>2, <2>1
    <2> QED
        BY <2>2 DEF StepAlike
<1>3. \A i \in Nat : i \in B
    <2> HIDE DEF B
    <2> QED
        BY <1>1, <1>2, NatInductive
<1> QED
    BY <1>3

\* FlattenSeq goes from sequence to sequence.
LEMMA FlattenGoes ==
    ASSUME NEW T, NEW q \in Seq(Seq(T))
    PROVE  \E f \in [0 .. Len(q) -> Seq(T)] :
              /\ FlattenSeq(q) = f[Len(q)]
              /\ f[0] = <<>>
              /\ \A i \in 1 .. Len(q) : f[i] = f[i - 1] \o q[i]
<1> DEFINE n == Len(q)
           X == Seq(T)
           Goes(g, i) == IF i = 1 THEN q[i] ELSE g[i - 1] \o q[i]
           Is(g) == g = [i \in 1 .. n |-> Goes(g, i)]
           step == [i \in Nat |-> [r \in X |-> IF i \in 1 .. n THEN r \o q[i] ELSE r]]
           flatten == CHOOSE g : Is(g)
<1>1. n \in Nat /\ <<>> \in X /\ \A i \in 1 .. n : q[i] \in X
    BY LenProperties, ElementOfSeq, EmptySeq
<1>2. FlattenSeq(q) = IF n = 0 THEN q ELSE flatten[n]
    BY DEF FlattenSeq
<1>3. \A i \in 1 .. n : \A r \in X : r \o q[i] \in X
    BY <1>1, ConcatProperties
<1>4. \A i \in 1 .. n : <<>> \o q[i] = q[i]
    BY <1>1, ConcatEmptySeq
<1>5. n = 0 => q = <<>>
    BY EmptySeq
<1> HIDE DEF n, X
<1>6. step \in [Nat -> [X -> X]]
    BY <1>3
<1>7. \A i \in 1 .. n : \A r \in X : step[i][r] = r \o q[i]
    BY <1>1
<1> HIDE DEF step
<1>8. \E f \in [0 .. n -> X] : Follows(f, <<>>, step, n)
    BY <1>1, <1>6, Recursion
<1>9. PICK f \in [0 .. n -> X] : f[0] = <<>> /\ \A i \in 1 .. n : f[i] = step[i][f[i - 1]]
    BY <1>8 DEF Follows
<1>10. \A i \in 1 .. n : f[i] = f[i - 1] \o q[i]
    <2>1. ASSUME NEW i \in 1 .. n
          PROVE  f[i] = f[i - 1] \o q[i]
        <3>1. i - 1 \in 0 .. n
            BY <1>1
        <3> QED
            BY <1>7, <1>9, <3>1
    <2> QED
        BY <2>1
<1> DEFINE h == [i \in 1 .. n |-> f[i]]
<1>11. Is(h)
    <2>1. ASSUME NEW i \in 1 .. n
          PROVE  h[i] = Goes(h, i)
        <3>1. CASE i = 1
            <4>1. 1 - 1 = 0 /\ h[1] = f[1]
                BY <3>1
            <4>2. f[1] = f[1 - 1] \o q[1]
                BY <1>10, <3>1
            <4>3. f[1] = q[1]
                BY <1>4, <1>9, <3>1, <4>1, <4>2
            <4> HIDE DEF h
            <4> QED
                BY <3>1, <4>1, <4>3
        <3>2. CASE i # 1
            <4>1. i - 1 \in 1 .. n
                BY <1>1, <3>2
            <4> QED
                BY <1>10, <3>2, <4>1
        <3> QED
            BY <3>1, <3>2
    <2> HIDE DEF Goes
    <2> QED
        BY <2>1
<1>12. Is(flatten)
    <2> HIDE DEF Is, h
    <2> QED
        BY <1>11
<1> HIDE DEF flatten
<1>13. \A i \in 1 .. n : flatten[i] = Goes(flatten, i)
    <2> HIDE DEF Goes
    <2> QED
        BY <1>12
<1> DEFINE full == [i \in 0 .. n |-> IF i = 0 THEN <<>> ELSE flatten[i]]
<1>14. StepAlike(full, f, n)
    <2>1. full[0] = <<>> /\ \A i \in 1 .. n : full[i] = flatten[i]
        BY <1>1
    <2> HIDE DEF full
    <2>2. ASSUME NEW i \in 1 .. n, full[i - 1] = f[i - 1]
          PROVE  full[i] = f[i]
        <3>1. CASE i = 1
            <4>1. f[1] = f[0] \o q[1]
                <5>1. 1 - 1 = 0
                    OBVIOUS
                <5> QED
                    BY <1>10, <3>1, <5>1
            <4>2. flatten[1] = q[1]
                BY <1>13, <3>1
            <4> HIDE DEF Goes
            <4> QED
                BY <1>4, <1>9, <2>1, <3>1, <4>1, <4>2
        <3>2. CASE i # 1
            <4>1. i - 1 \in 1 .. n
                BY <1>1, <3>2
            <4>2. flatten[i] = flatten[i - 1] \o q[i] /\ f[i] = f[i - 1] \o q[i]
                BY <1>10, <1>13, <3>2
            <4> HIDE DEF Goes
            <4> QED
                BY <2>1, <2>2, <4>1, <4>2
        <3> QED
            BY <3>1, <3>2
    <2> QED
        BY <1>9, <2>1, <2>2 DEF StepAlike
<1>15. n # 0 => flatten[n] = f[n]
    <2>1. \A i \in 0 .. n : full[i] = f[i]
        <3> HIDE DEF full
        <3> QED
            BY <1>1, <1>14, GoAlike
    <2> QED
        BY <1>1, <2>1
<1>16. FlattenSeq(q) = f[n]
    BY <1>2, <1>5, <1>9, <1>15
<1> QED
    BY <1>9, <1>10, <1>16 DEF n, X

\* Flattening a list that has one more sequence, at its end or at its front.
LEMMA FlattenAppend ==
    ASSUME NEW T, NEW q \in Seq(Seq(T)), NEW x \in Seq(T)
    PROVE  FlattenSeq(q) \in Seq(T) /\ FlattenSeq(Append(q, x)) = FlattenSeq(q) \o x
<1> DEFINE p == Append(q, x)
           n == Len(q)
<1>1. /\ p \in Seq(Seq(T)) /\ n \in Nat /\ Len(p) = n + 1 /\ p[n + 1] = x
      /\ \A i \in 1 .. n : p[i] = q[i]
    BY AppendProperties, LenProperties
<1> HIDE DEF p
<1>2. PICK f \in [0 .. n -> Seq(T)] :
              /\ FlattenSeq(q) = f[n] /\ f[0] = <<>>
              /\ \A i \in 1 .. n : f[i] = f[i - 1] \o q[i]
    BY FlattenGoes
<1>3. PICK g \in [0 .. Len(p) -> Seq(T)] :
              /\ FlattenSeq(p) = g[Len(p)] /\ g[0] = <<>>
              /\ \A i \in 1 .. Len(p) : g[i] = g[i - 1] \o p[i]
    BY <1>1, FlattenGoes
<1> HIDE DEF n
<1>4. ASSUME NEW i \in 1 .. n, f[i - 1] = g[i - 1]
      PROVE  f[i] = g[i]
    <2>1. i \in 1 .. n + 1
        BY <1>1
    <2> QED
        BY <1>1, <1>2, <1>3, <1>4, <2>1
<1>5. f[n] = g[n]
    <2>1. StepAlike(f, g, n)
        BY <1>2, <1>3, <1>4 DEF StepAlike
    <2>2. \A i \in 0 .. n : f[i] = g[i]
        <3>1. n \in Nat
            BY <1>1
        <3> QED
            BY <2>1, <3>1, GoAlike
    <2> QED
        BY <1>1, <2>2
<1>6. g[n + 1] = g[n] \o x
    <2>1. n + 1 \in 1 .. n + 1 /\ (n + 1) - 1 = n
        BY <1>1
    <2>2. g[n + 1] = g[(n + 1) - 1] \o p[n + 1]
        BY <1>1, <1>3, <2>1
    <2> QED
        BY <1>1, <2>1, <2>2
<1>7. f[n] \in Seq(T)
    BY <1>1, <1>2
<1> QED
    BY <1>1, <1>2, <1>3, <1>5, <1>6, <1>7 DEF p

\* A list of sequences, one after the other, begins with the first of them.
LEMMA FlattenHead ==
    ASSUME NEW T, NEW q \in Seq(Seq(T)), q # <<>>
    PROVE  FlattenSeq(q) = q[1] \o FlattenSeq(Tail(q)) /\ FlattenSeq(Tail(q)) \in Seq(T)
<1> DEFINE r == Tail(q)
           n == Len(r)
<1>1. /\ r \in Seq(Seq(T)) /\ n \in Nat /\ Len(q) = n + 1
      /\ \A i \in 1 .. n : r[i] = q[i + 1]
      /\ \A i \in 1 .. n + 1 : q[i] \in Seq(T)
    <2>1. Len(q) \in Nat /\ r \in Seq(Seq(T)) /\ n = Len(q) - 1 /\ n \in Nat
        BY HeadTailProperties, LenProperties
    <2>2. \A i \in 1 .. n : r[i] = q[i + 1]
        BY HeadTailProperties
    <2>3. \A i \in 1 .. Len(q) : q[i] \in Seq(T)
        BY ElementOfSeq
    <2> HIDE DEF r, n
    <2> QED
        BY <2>1, <2>2, <2>3
<1>2. PICK g \in [0 .. n -> Seq(T)] :
              /\ FlattenSeq(r) = g[n] /\ g[0] = <<>>
              /\ \A i \in 1 .. n : g[i] = g[i - 1] \o r[i]
    BY <1>1, FlattenGoes
<1> HIDE DEF r
<1>3. PICK f \in [0 .. Len(q) -> Seq(T)] :
              /\ FlattenSeq(q) = f[Len(q)] /\ f[0] = <<>>
              /\ \A i \in 1 .. Len(q) : f[i] = f[i - 1] \o q[i]
    BY FlattenGoes
<1> HIDE DEF n
<1> DEFINE a == [i \in 0 .. n |-> f[i + 1]]
           b == [i \in 0 .. n |-> q[1] \o g[i]]
<1>4. q[1] \in Seq(T)
    BY <1>1
<1>5. a[0] = b[0]
    <2>1. f[1] = <<>> \o q[1]
        <3>1. 1 \in 1 .. Len(q) /\ 1 - 1 = 0
            BY <1>1
        <3>2. f[1] = f[1 - 1] \o q[1]
            BY <1>3, <3>1
        <3> QED
            BY <1>3, <3>1, <3>2
    <2>2. <<>> \o q[1] = q[1] \o <<>>
        BY <1>4, ConcatEmptySeq
    <2>3. a[0] = f[1] /\ b[0] = q[1] \o g[0]
        BY <1>1
    <2> HIDE DEF a, b
    <2> QED
        BY <1>2, <2>1, <2>2, <2>3
<1>6. ASSUME NEW i \in 1 .. n, a[i - 1] = b[i - 1]
      PROVE  a[i] = b[i]
    <2>1. i \in 0 .. n /\ i - 1 \in 0 .. n /\ i + 1 \in 1 .. n + 1 /\ (i + 1) - 1 = i /\ (i - 1) + 1 = i
        BY <1>1
    <2>2. a[i] = f[i + 1] /\ a[i - 1] = f[i] /\ b[i - 1] = q[1] \o g[i - 1] /\ b[i] = q[1] \o g[i]
        BY <2>1
    <2>3. f[i + 1] = f[i] \o q[i + 1] /\ g[i] = g[i - 1] \o q[i + 1]
        BY <1>1, <1>2, <1>3, <2>1
    <2>4. g[i - 1] \in Seq(T) /\ q[i + 1] \in Seq(T)
        BY <1>1, <1>2, <2>1
    <2>5. (q[1] \o g[i - 1]) \o q[i + 1] = q[1] \o (g[i - 1] \o q[i + 1])
        <3> DEFINE u == q[1]
                   v == g[i - 1]
                   w == q[i + 1]
        <3>1. u \in Seq(T) /\ v \in Seq(T) /\ w \in Seq(T)
            BY <1>4, <2>4
        <3> HIDE DEF u, v, w
        <3>2. (u \o v) \o w = u \o (v \o w)
            BY SMTT(30), <3>1, ConcatAssociative
        <3> QED
            BY <3>2 DEF u, v, w
    <2> HIDE DEF a, b
    <2> QED
        BY <1>6, <2>2, <2>3, <2>5
<1>7. a[n] = b[n]
    <2>1. \A i \in 0 .. n : a[i] = b[i]
        <3> HIDE DEF a, b
        <3>1. StepAlike(a, b, n)
            BY <1>5, <1>6 DEF StepAlike
        <3>2. n \in Nat
            BY <1>1
        <3> QED
            BY <3>1, <3>2, GoAlike
    <2> HIDE DEF a, b
    <2> QED
        BY <1>1, <2>1
<1>8. f[n + 1] = q[1] \o g[n] /\ g[n] \in Seq(T)
    <2>1. n \in 0 .. n
        BY <1>1
    <2>2. a[n] = f[n + 1] /\ b[n] = q[1] \o g[n] /\ g[n] \in Seq(T)
        BY <1>2, <2>1
    <2> HIDE DEF a, b
    <2> QED
        BY <1>7, <2>2
<1> QED
    BY <1>1, <1>2, <1>3, <1>8 DEF r, n

-----------------------------------------------------------------------------
(* FoldLeft goes from member to member, whatever the operation is *)

\* The function that FoldLeft chooses, over the places 1 .. n.
Iterates(g, base, list, n) ==
    g = [s \in SUBSET (1 .. n) |-> IF s = {} THEN base
                                   ELSE Op(g[s \ {Max(s)}], list[Max(s)])]

\* There is such a function.
LEMMA IterationIsThere ==
    ASSUME NEW base, NEW list, NEW n \in Nat
    PROVE  \E g : Iterates(g, base, list, n)
<1> DEFINE Goes(g, s) == IF s = {} THEN base ELSE Op(g[s \ {Max(s)}], list[Max(s)])
           B == {k \in Nat : \E g : Iterates(g, base, list, k)}
<1>1. 0 \in B
    <2> DEFINE g == [s \in SUBSET (1 .. 0) |-> base]
    <2>1. \A s \in SUBSET (1 .. 0) : s = {}
        OBVIOUS
    <2>2. Iterates(g, base, list, 0)
        BY <2>1 DEF Iterates
    <2> QED
        BY <2>2
<1>2. ASSUME NEW k \in Nat, k \in B
      PROVE  k + 1 \in B
    <2> DEFINE m == k + 1
    <2>1. PICK g : Iterates(g, base, list, k)
        BY <1>2
    <2> DEFINE h == [s \in SUBSET (1 .. m) |-> IF m \in s THEN Op(g[s \ {m}], list[m]) ELSE g[s]]
    <2>2. \A s \in SUBSET (1 .. k) : g[s] = Goes(g, s)
        BY <2>1 DEF Iterates
    <2>3. \A s \in SUBSET (1 .. m) : m \notin s => s \in SUBSET (1 .. k)
        OBVIOUS
    <2>4. \A s \in SUBSET (1 .. k) : s \in SUBSET (1 .. m) /\ m \notin s
        OBVIOUS
    <2>5. \A s \in SUBSET (1 .. k) : h[s] = g[s]
        BY <2>4
    <2>6. ASSUME NEW s \in SUBSET (1 .. m), m \in s
          PROVE  h[s] = Goes(h, s)
        <3>1. Max(s) = m
            <4>1. m \in Nat /\ s \subseteq 0 .. m /\ s # {}
                BY <2>6
            <4>2. Max(s) \in s /\ \A y \in s : Max(s) >= y
                <5> HIDE DEF m
                <5> QED
                    BY <4>1, MaxOfNats
            <4>3. Max(s) \in 1 .. m /\ Max(s) >= m
                BY <2>6, <4>2
            <4> QED
                BY <4>3
        <3>2. s \ {m} \in SUBSET (1 .. k)
            BY <2>3
        <3>3. h[s \ {m}] = g[s \ {m}]
            BY <2>5, <3>2
        <3>4. h[s] = Op(g[s \ {m}], list[m])
            BY <2>6
        <3>5. s # {}
            BY <2>6
        <3> HIDE DEF h, m
        <3> QED
            BY <3>1, <3>3, <3>4, <3>5
    <2>7. ASSUME NEW s \in SUBSET (1 .. m), m \notin s
          PROVE  h[s] = Goes(h, s)
        <3>1. s \in SUBSET (1 .. k) /\ s \ {Max(s)} \in SUBSET (1 .. k)
            BY <2>3, <2>7
        <3>2. h[s] = g[s] /\ h[s \ {Max(s)}] = g[s \ {Max(s)}] /\ g[s] = Goes(g, s)
            BY <2>2, <2>5, <3>1
        <3> HIDE DEF h, m
        <3> QED
            BY <3>2
    <2>8. Iterates(h, base, list, m)
        <3>1. \A s \in SUBSET (1 .. m) : h[s] = Goes(h, s)
            BY <2>6, <2>7
        <3>2. h = [s \in SUBSET (1 .. m) |-> h[s]]
            OBVIOUS
        <3> HIDE DEF h, m
        <3> QED
            BY <3>1, <3>2 DEF Iterates
    <2> HIDE DEF h
    <2> QED
        BY <2>8
<1>3. n \in B
    <2> HIDE DEF B
    <2> QED
        BY <1>1, <1>2, NatInductive
<1> QED
    BY <1>3

\* A step leads from Q[i - 1] to Q[i].
LeadsOn(Q, list) == \A i \in 1 .. Len(list) : \A x \in Q[i - 1] : Op(x, list[i]) \in Q[i]

\* So the fold leads from the first of them to the last.
LEMMA FoldSteps ==
    ASSUME NEW T, NEW list \in Seq(T), NEW Q, NEW base, base \in Q[0], LeadsOn(Q, list)
    PROVE  FoldLeft(Op, base, list) \in Q[Len(list)]
<1> DEFINE n == Len(list)
           Is(g) == g = [s \in SUBSET (DOMAIN list) |->
                            IF s = {} THEN base ELSE Op(g[s \ {Max(s)}], list[Max(s)])]
           iter == CHOOSE g : Is(g)
           B == {k \in Nat : k <= n => iter[1 .. k] \in Q[k]}
<1>1. n \in Nat /\ DOMAIN list = 1 .. n
    BY LenProperties
<1>2. FoldLeft(Op, base, list) = iter[DOMAIN list]
    BY DEF FoldLeft, MapThenFoldSet
<1>3. \E g : Is(g)
    <2>1. PICK g : Iterates(g, base, list, n)
        BY <1>1, IterationIsThere
    <2>2. Is(g)
        BY <1>1, <2>1 DEF Iterates
    <2> QED
        BY <2>2
<1>4. Is(iter)
    <2> HIDE DEF Is
    <2> QED
        BY <1>3
<1> HIDE DEF iter
<1>5. \A s \in SUBSET (1 .. n) :
         iter[s] = IF s = {} THEN base ELSE Op(iter[s \ {Max(s)}], list[Max(s)])
    BY <1>1, <1>4
<1> HIDE DEF n
<1>6. 0 \in B
    <2>1. 1 .. 0 = {} /\ {} \in SUBSET (1 .. n)
        OBVIOUS
    <2>2. iter[{}] = base
        BY <1>5, <2>1
    <2> QED
        BY <2>1, <2>2
<1>7. ASSUME NEW k \in Nat, k \in B
      PROVE  k + 1 \in B
    <2> DEFINE m == k + 1
    <2>1. SUFFICES ASSUME m <= n PROVE iter[1 .. m] \in Q[m]
        OBVIOUS
    <2>2. m \in 1 .. n /\ m - 1 = k /\ iter[1 .. k] \in Q[k]
        BY <1>1, <1>7, <2>1
    <2>3. Max(1 .. m) = m
        <3>1. 1 .. m \subseteq 0 .. m /\ m \in 1 .. m
            OBVIOUS
        <3>2. Max(1 .. m) \in 1 .. m /\ \A y \in 1 .. m : Max(1 .. m) >= y
            <4>1. m \in Nat
                OBVIOUS
            <4> HIDE DEF m
            <4>2. 1 .. m # {}
                BY <3>1
            <4> QED
                BY <3>1, <4>1, <4>2, MaxOfNats
        <3>3. Max(1 .. m) >= m
            BY <3>1, <3>2
        <3> QED
            BY <3>2, <3>3
    <2>4. (1 .. m) \ {m} = 1 .. k /\ 1 .. m # {} /\ 1 .. m \in SUBSET (1 .. n)
        BY <1>1, <2>1
    <2>5. iter[1 .. m] = Op(iter[1 .. k], list[m])
        BY <1>5, <2>3, <2>4
    <2>6. Op(iter[1 .. k], list[m]) \in Q[m]
        <3> HIDE DEF m
        <3> QED
            BY <2>2 DEF LeadsOn, n
    <2> QED
        BY <2>5, <2>6
<1>8. n \in B
    <2> HIDE DEF B
    <2> QED
        BY <1>1, <1>6, <1>7, NatInductive
<1> QED
    BY <1>1, <1>2, <1>8 DEF n
=============================================================================
