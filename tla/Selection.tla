------------------------------ MODULE Selection ------------------------------
(***************************************************************************)
(* The loops that walk through a list and keep some of its members.         *)
(***************************************************************************)
EXTENDS Integers, Sequences

\* The members of s whose places are in S, in their order.
At(s, S) ==
    LET taken[i \in 0 .. Len(s)] ==
            IF i = 0 THEN <<>>
            ELSE IF i \in S THEN Append(taken[i - 1], s[i]) ELSE taken[i - 1]
    IN  taken[Len(s)]
=============================================================================
