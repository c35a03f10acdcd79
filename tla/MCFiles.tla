------------------------------- MODULE MCFiles -------------------------------
(***************************************************************************)
(* What is kept in files: the alarms, the events, the settings and the      *)
(* tokens of Spotify.  Each behaviour is one of one of them, chosen at the   *)
(* start.                                                                   *)
(***************************************************************************)
EXTENDS MCAlarmSync, Events, UserData, SpotifyAccount

VARIABLE part

\* Lists of the phone: events that overlap, one that is over at once, one that begins in
\* the minute of an evening's run, a list that is not in order of time, and none.
MCCalendars ==
    LET Event(n, a, b) == [id |-> n, start |-> a, stop |-> b, details |-> TRUE]
    IN  { <<>>,
          <<Event(1, 2, 3), Event(2, 4, 6), Event(3, 5, 5)>>,
          <<Event(3, 5, 5), Event(1, 2, 3)>>,
          <<Event(2, 3, 4), Event(4, 8, 9)>> }

mcVars == <<part, vars, eventVars, userVars, accountVars>>

MCInit ==
    /\ part \in {"alarms", "events", "settings", "account"}
    /\ Init /\ (part # "alarms" => phone = <<>>)
    /\ EventsInit /\ (part # "events" => now = 0 /\ events = <<>>)
    /\ UserInit /\ (part # "settings" => userfile = Blank)
    /\ AccountInit

MCNext ==
    /\ part' = part
    /\ \/ part = "alarms" /\ Next /\ UNCHANGED <<eventVars, userVars, accountVars>>
       \/ part = "events" /\ EventsNext /\ UNCHANGED <<vars, userVars, accountVars>>
       \/ part = "settings" /\ UserNext /\ UNCHANGED <<vars, eventVars, accountVars>>
       \/ part = "account" /\ AccountNext /\ UNCHANGED <<vars, eventVars, userVars>>

MCSpec == MCInit /\ [][MCNext]_mcVars
=============================================================================
