-------------------------------- MODULE Varint --------------------------------
(***************************************************************************)
(* Integers of variable length: digits to the base Radix (128), the lowest  *)
(* first; each but the last has Radix added.                                *)
(***************************************************************************)
EXTENDS Integers, Sequences, FiniteSetsExt

CONSTANT Radix

ASSUME VarintAssumption == Radix \in Nat /\ Radix >= 2

MaxDigits == 4
Largest == Radix ^ MaxDigits - 1

Nothing == [ok |-> FALSE, value |-> 0, rest |-> <<>>]

\* Mutant: a comparison that is off by one.
VariableLengthShort(n) ==
    IF n > Largest THEN 0
    ELSE CHOOSE k \in 1 .. MaxDigits : n <= Radix ^ k /\ (k = 1 \/ n > Radix ^ (k - 1))

\* variable_length: how many digits, none for a number that is too large.
VariableLength(n) ==
    IF n > Largest THEN 0
    ELSE CHOOSE k \in 1 .. MaxDigits : n < Radix ^ k /\ (k = 1 \/ n >= Radix ^ (k - 1))

\* to_variable_bytes.
VariableBytes(n) ==
    LET digits == IF n > Largest THEN 0
                  ELSE CHOOSE k \in 1 .. MaxDigits : n < Radix ^ k /\ (k = 1 \/ n >= Radix ^ (k - 1))
    IN  [i \in 1 .. digits |-> ((n \div Radix ^ (i - 1)) % Radix) + (IF i = digits THEN 0 ELSE Radix)]

\* varint_parser: up to four digits, of which one must be the last.
ParseVarint(s) ==
    LET ends == {i \in 1 .. MaxDigits : i <= Len(s) /\ s[i] < Radix}
        last == Min(ends)
        Digit(i) == IF i <= last THEN s[i] % Radix ELSE 0
    IN  IF ends = {} THEN Nothing
        ELSE [ok |-> TRUE,
              value |-> Digit(1) + Radix * (Digit(2) + Radix * (Digit(3) + Radix * Digit(4))),
              rest |-> SubSeq(s, last + 1, Len(s))]
=============================================================================
