-------------------------------- MODULE IdPool --------------------------------
(***************************************************************************)
(* What a packet identifier allocator promises: the identifiers 1 to        *)
(* MaxPacketId that nobody has, of which it gives out the smallest.         *)
(***************************************************************************)
EXTENDS Integers

CONSTANT MaxPacketId

VARIABLES free,   \* the identifiers nobody has
          given   \* the one given out last, 0 when there was none
poolVars == <<free, given>>

PoolInit == free = 1 .. MaxPacketId /\ given = 0

Allocate ==
    \/ free = {} /\ given' = 0 /\ free' = free
    \/ \E id \in free : /\ \A other \in free : id <= other
                        /\ given' = id /\ free' = free \ {id}

Release == \E id \in 1 .. MaxPacketId \ free : free' = free \cup {id} /\ given' = given

PoolNext == Allocate \/ Release

PoolSpec == PoolInit /\ [][PoolNext]_poolVars
=============================================================================
