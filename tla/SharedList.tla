----------------------------- MODULE SharedList -----------------------------
(***************************************************************************)
(* What the synchronisation promises: one list of alarms with a copy on the *)
(* host and one on the phone.  Either side may write it once both copies    *)
(* are up to date; the other copy then follows, and no write is lost.       *)
(***************************************************************************)
CONSTANT Lists

VARIABLES written,   \* the list as it was last written
          onHost, onPhone

vars == <<written, onHost, onPhone>>

UpToDate == onHost = written /\ onPhone = written

Init == written \in Lists /\ UpToDate

HostWrites == /\ UpToDate
              /\ written' \in Lists
              /\ onHost' = written'
              /\ UNCHANGED onPhone

PhoneWrites == /\ UpToDate
               /\ written' \in Lists
               /\ onPhone' = written'
               /\ UNCHANGED onHost

HostFollows == onHost # written /\ onHost' = written /\ UNCHANGED <<written, onPhone>>

PhoneFollows == onPhone # written /\ onPhone' = written /\ UNCHANGED <<written, onHost>>

Next == HostWrites \/ PhoneWrites \/ HostFollows \/ PhoneFollows

Spec == /\ Init /\ [][Next]_vars
        /\ WF_vars(HostFollows) /\ WF_vars(PhoneFollows)
=============================================================================
