------------------------------- MODULE PacketIds -------------------------------
(***************************************************************************)
(* packet_id_allocator: the free identifiers as a vector of intervals, the  *)
(* highest first, of which each holds the identifiers above end up to       *)
(* start.                                                                  *)
(***************************************************************************)
EXTENDS Integers, Sequences, FiniteSets, SequencesExt

CONSTANT MaxPacketId   \* MAX_PACKET_ID, 65535

ASSUME PacketIdsAssumption == MaxPacketId \in Nat \ {0}

VARIABLES freeIds,   \* _free_ids
          lastGiven  \* what allocate returned last
idVars == <<freeIds, lastGiven>>

Interval(start, end) == [start |-> start, end |-> end]
Holds(i) == i.end + 1 .. i.start
FreeSet == UNION {Holds(freeIds[k]) : k \in DOMAIN freeIds}

IdsInit == freeIds = <<Interval(MaxPacketId, 0)>> /\ lastGiven = 0

\* From the lower end of the last interval, which goes when it is empty.
AllocateId ==
    \/ freeIds = <<>> /\ lastGiven' = 0 /\ UNCHANGED freeIds
    \/ /\ freeIds # <<>>
       /\ LET last == freeIds[Len(freeIds)]
          IN  /\ lastGiven' = last.end + 1
              /\ freeIds' = IF last.end + 1 = last.start THEN Front(freeIds)
                            ELSE [freeIds EXCEPT ![Len(freeIds)].end = @ + 1]

\* Mutant: an identifier between two intervals does not join them.
FreedApart(ids, pid) ==
    LET above == Cardinality({k \in DOMAIN ids : ids[k].start >= pid})
    IN  IF above > 0 /\ ids[above].end = pid THEN [ids EXCEPT ![above].end = pid - 1]
        ELSE InsertAt(ids, above + 1, Interval(pid, pid - 1))

\* Mutant: the interval below is taken to begin at the identifier itself.
FreedBeside(ids, pid) ==
    LET above == Cardinality({k \in DOMAIN ids : ids[k].start >= pid})
    IN  IF above < Len(ids) /\ ids[above + 1].start < pid
        THEN [ids EXCEPT ![above + 1].start = pid]
        ELSE InsertAt(ids, above + 1, Interval(pid, pid - 1))

\* free: the identifier lengthens the interval above it, or the one below, or joins
\* both, or is an interval of its own.
Freed(ids, pid) ==
    LET above == Cardinality({k \in DOMAIN ids : ids[k].start >= pid})
        joinsAbove == above > 0 /\ ids[above].end = pid
        joinsBelow == above < Len(ids) /\ ids[above + 1].start = pid - 1
    IN  IF joinsAbove /\ joinsBelow
        THEN RemoveAt([ids EXCEPT ![above].end = ids[above + 1].end], above + 1)
        ELSE IF joinsAbove THEN [ids EXCEPT ![above].end = pid - 1]
        ELSE IF joinsBelow THEN [ids EXCEPT ![above + 1].start = pid]
        ELSE InsertAt(ids, above + 1, Interval(pid, pid - 1))

\* Only an identifier that is in use is given back.
FreeId == \E pid \in 1 .. MaxPacketId \ FreeSet :
             freeIds' = Freed(freeIds, pid) /\ UNCHANGED lastGiven

IdsNext == AllocateId \/ FreeId

IdsSpec == IdsInit /\ [][IdsNext]_idVars

-----------------------------------------------------------------------------
\* The intervals are not empty, in order, and do not touch: the vector is as short as
\* it can be, and the smallest free identifier is at its end.
IntervalsApart ==
    /\ \A k \in DOMAIN freeIds : freeIds[k].end < freeIds[k].start
    /\ \A k, l \in DOMAIN freeIds : k < l => freeIds[l].start < freeIds[k].end

\* The allocator is the pool of free identifiers that IdPool describes, as few intervals
\* as there can be.
Pool == INSTANCE IdPool WITH free <- FreeSet, given <- lastGiven
IdsArePooled == Pool!PoolSpec /\ [][IntervalsApart']_idVars
=============================================================================
