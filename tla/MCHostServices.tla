---------------------------- MODULE MCHostServices ----------------------------
(***************************************************************************)
(* The parts of the host that share no state and keep nothing in files: each *)
(* behaviour is one of one part, chosen at the start.                       *)
(***************************************************************************)
EXTENDS AlarmScreen, Weather, SpotifyPlayer, Terminal

CONSTANTS Home,  \* the city at the start where another part is looked at
          Parts  \* the parts to look at

VARIABLE part

\* Two access points of one network, whose lines are listed under one name, another
\* network, and a network whose name is listed like the header.
MCNetLines == {"home, near", "home, far", "cafe", "a network SSID"}
MCNameOf == [l \in MCNetLines \cup {Header} |->
                CASE l \in {"home, near", "home, far"} -> "home"
                  [] l \in {"a network SSID", Header} -> "SSID"
                  [] OTHER -> l]

mcVars == <<part, vars, weatherVars, playerVars, terminalVars>>

\* At the start Spotify is at another track than the host, which has heard of none yet.
MCInit ==
    /\ part \in Parts
    /\ Init /\ (part # "screen" => smooth = FALSE /\ \A v \in UserVolumes : userVolume <= v)
    /\ WeatherInit /\ (part # "weather" => city = Home)
    /\ PlayerInit /\ remote.track = Songbook
    /\ (part # "player" => ~ remote.playing /\ ~ active)
    /\ TerminalInit

MCNext ==
    /\ part' = part
    /\ \/ part = "screen" /\ Next /\ UNCHANGED <<weatherVars, playerVars, terminalVars>>
       \/ part = "weather" /\ WeatherNext /\ UNCHANGED <<vars, playerVars, terminalVars>>
       \/ part = "player" /\ PlayerNext /\ UNCHANGED <<vars, weatherVars, terminalVars>>
       \/ part = "terminal" /\ TerminalNext /\ UNCHANGED <<vars, weatherVars, playerVars>>

\* The fairness of AlarmScreen, Weather and SpotifyPlayer, each where its part runs.
MCFairness ==
    /\ WF_vars(part = "screen" /\ VolumeTick)
    /\ WF_weatherVars(part = "weather" /\ Refresh)
    /\ \A r \in Request : WF_weatherVars(part = "weather" /\ Answer(r))
    /\ WF_playerVars(part = "player" /\ \E l \in Lines : GetCurrentTrack(l))
    /\ \A l \in Lines : WF_playerVars(part = "player" /\ (Serve(l) \/ Reply(l)))

\* What the pages show is of the city, the playlist and the scan that were chosen or
\* started last, but for answers that were still to come then, and for what the pages keep
\* because nobody tells them that it was emptied.
ShownAsChosen == NothingOfTheOldCity /\ TracksOfOpened /\ LatestScanShown

\* In the end the weather is that of the city chosen last, and the state shown that of
\* Spotify.
WhatIsShownCatchesUp ==
    /\ part = "weather" => LastCityWins
    /\ part = "player" => ShownCatchesUp

MCSpec == MCInit /\ [][MCNext]_mcVars /\ MCFairness
=============================================================================
