------------------------------ MODULE Weather ------------------------------
(***************************************************************************)
(* The requests of src/weather.cpp: the city's position, and for a position *)
(* the time, the weather of the day and the daily forecast.  Requests run   *)
(* side by side; each is answered or fails at any moment and in any order.  *)
(*                                                                         *)
(* A position is the city it belongs to, a forecast the position it is for. *)
(* Temperatures, icons and the number of hours are left out.                *)
(*                                                                         *)
(* A page shows a forecast as it was when the change of it was signalled    *)
(* last: set_city empties all three and signals the new name alone, and the *)
(* error branch of handleReply_weather nothing.                             *)
(***************************************************************************)
EXTENDS Integers, Sequences, FiniteSets, FiniteSetsExt

CONSTANTS Cities,          \* cities the user may choose
          Unlocated,       \* those the geocoding service does not know
          NoPlace,         \* empty coordinates, and: no forecast
          MaxLoad,         \* bound on the requests under way, those to follow included
          MaxCityChanges,  \* bound on changes of the city
          MaxDays,         \* bound on days
          MaxFailures      \* bound on failed requests

ASSUME WeatherAssumption ==
       /\ Unlocated \subseteq Cities
       /\ NoPlace \notin Cities
       /\ {MaxLoad, MaxCityChanges, MaxDays, MaxFailures} \subseteq Nat

VARIABLES
    city,           \* m_city
    place,          \* m_latitude, m_longitude
    sent,           \* requests that are not answered yet, and how many of each
    time,           \* position whose time the clock was set to (cur_time)
    current,        \* position cur_forecast is for
    hours,          \* position h_forecast is for
    days,           \* d_forecast: position and day of its first eight entries, if any
    shownWeather,   \* position of the weather and the hours that the pages show
    shownDays,      \* position and day of the first eight days that they show
    today,
    cityChanges, weatherFailures,
    keptWeather,    \* history: shownWeather is what was shown when the city was changed
    keptDays,       \* history: so is shownDays
    late,           \* history: places whose data may come though the city is another:
                    \* those of requests under way when it was changed, and with
                    \* them, or if it cannot be located, the last one located
    newest          \* history: the last daily forecast that came

weatherVars == <<city, place, sent, time, current, hours, days, shownWeather, shownDays,
                 today, cityChanges, weatherFailures, keptWeather, keptDays, late, newest>>
pageVars == <<shownWeather, shownDays, keptWeather, keptDays>>

Places == Cities \cup {NoPlace}
DataKinds == {"time", "weather", "days"}
Request == [kind : DataKinds \cup {"position"}, place : Places]

-----------------------------------------------------------------------------
Of(kind, p) == [kind |-> kind, place |-> p]

Waiting(r) == sent[r] > 0

\* What a request counts: request_data sends three once the position is known.
Weight(r) == IF r.kind = "position" THEN 3 ELSE 1
Load(bag) == FoldSet(LAMBDA r, n : n + Weight(r) * bag[r], 0, Request)

Add(bag, more) == [r \in Request |-> bag[r] + (IF r \in more THEN 1 ELSE 0)]
Without(bag, request) == [bag EXCEPT ![request] = @ - 1]

\* A daily forecast is of the day it was given.
Daily(p) == [place |-> p, day |-> today]

\* request_position
RequestPosition(bag, c) == Add(bag, {Of("position", c)})

\* request_data: three requests for the coordinates as they are now.
RequestData(bag, p) == Add(bag, {Of(k, p) : k \in DataKinds})

-----------------------------------------------------------------------------
\* The start: the saved city was located when it was chosen.
WeatherInit ==
    /\ city \in Cities \ Unlocated
    /\ place = NoPlace
    /\ sent = RequestPosition([r \in Request |-> 0], city)
    /\ time = NoPlace
    /\ current = NoPlace
    /\ hours = NoPlace
    /\ days = <<>>
    /\ today = 0
    /\ cityChanges = 0
    /\ weatherFailures = 0
    /\ shownWeather = NoPlace
    /\ shownDays = Daily(NoPlace)
    /\ keptWeather = FALSE
    /\ keptDays = FALSE
    /\ late = {}
    /\ newest = Daily(NoPlace)

\* The places whose data may come when c is chosen now.
PlacesAwaited(c) ==
    LET under == {r \in Request : Waiting(r)}
    IN  IF under = {} /\ c \notin Unlocated THEN {} ELSE {place} \cup {r.place : r \in under}

\* Mutant: the data is requested at once, with the coordinates there are.
SetCityHasty(c) ==
    /\ c # city
    /\ cityChanges < MaxCityChanges
    /\ Load(sent) + 6 <= MaxLoad
    /\ city' = c
    /\ sent' = RequestData(RequestPosition(sent, c), place)
    /\ current' = NoPlace
    /\ hours' = NoPlace
    /\ days' = <<>>
    /\ cityChanges' = cityChanges + 1
    /\ keptWeather' = TRUE
    /\ keptDays' = TRUE
    /\ late' = PlacesAwaited(c)
    /\ UNCHANGED <<place, time, shownWeather, shownDays, today, weatherFailures, newest>>

\* set_city.  (The city is saved: module UserData.)
SetCity(c) ==
    /\ c # city
    /\ cityChanges < MaxCityChanges
    /\ Load(sent) + 3 <= MaxLoad
    /\ city' = c
    /\ sent' = RequestPosition(sent, c)
    /\ current' = NoPlace
    /\ hours' = NoPlace
    /\ days' = <<>>
    /\ cityChanges' = cityChanges + 1
    /\ keptWeather' = TRUE
    /\ keptDays' = TRUE
    /\ late' = PlacesAwaited(c)
    /\ UNCHANGED <<place, time, shownWeather, shownDays, today, weatherFailures, newest>>

\* Mutant: only the data is requested again.
RefreshData ==
    /\ Load(sent) + 3 <= MaxLoad
    /\ sent' = RequestData(sent, place)
    /\ UNCHANGED <<city, place, time, current, hours, days, pageVars, today, cityChanges,
                   weatherFailures, late, newest>>

\* Every five minutes, and by a touch on the status bar.
Refresh ==
    /\ Load(sent) + 3 <= MaxLoad
    /\ sent' = RequestPosition(sent, city)
    /\ UNCHANGED <<city, place, time, current, hours, days, pageVars, today, cityChanges,
                   weatherFailures, late, newest>>

\* handleReply_pos: an empty answer leaves the coordinates of the last city.
PositionReply(r) ==
    /\ Waiting(r) /\ r.kind = "position"
    /\ place' = IF r.place \in Unlocated THEN place ELSE r.place
    /\ sent' = RequestData(Without(sent, r), place')
    /\ UNCHANGED <<city, time, current, hours, days, pageVars, today, cityChanges,
                   weatherFailures, late, newest>>

PositionFails(r) ==
    /\ Waiting(r) /\ r.kind = "position"
    /\ weatherFailures < MaxFailures
    /\ weatherFailures' = weatherFailures + 1
    /\ sent' = Without(sent, r)
    /\ UNCHANGED <<city, place, time, current, hours, days, pageVars, today, cityChanges, late,
                   newest>>

\* handleReply_time
TimeReply(r) ==
    /\ Waiting(r) /\ r.kind = "time"
    /\ time' = r.place
    /\ sent' = Without(sent, r)
    /\ UNCHANGED <<city, place, current, hours, days, pageVars, today, cityChanges,
                   weatherFailures, late, newest>>

\* handleReply_weather, and the pages.
WeatherReply(r) ==
    /\ Waiting(r) /\ r.kind = "weather"
    /\ current' = r.place
    /\ hours' = r.place
    /\ shownWeather' = r.place
    /\ keptWeather' = FALSE
    /\ sent' = Without(sent, r)
    /\ UNCHANGED <<city, place, time, days, shownDays, today, cityChanges, weatherFailures,
                   keptDays, late, newest>>

\* handleReply_days appends eight entries to what is there.  The pages show the
\* first eight, so only those of the first answer are kept here.
DaysReply(r) ==
    /\ Waiting(r) /\ r.kind = "days"
    /\ days' = IF days = <<>> THEN <<Daily(r.place)>> ELSE days
    /\ shownDays' = days'[1]
    /\ keptDays' = FALSE
    /\ newest' = Daily(r.place)
    /\ sent' = Without(sent, r)
    /\ UNCHANGED <<city, place, time, current, hours, shownWeather, today, cityChanges,
                   weatherFailures, keptWeather, late>>

\* The error branch of the three handlers: everything is requested again, at
\* once.  handleReply_weather has emptied the hours before.
DataFails(r) ==
    /\ Waiting(r) /\ r.kind \in DataKinds
    /\ weatherFailures < MaxFailures
    /\ weatherFailures' = weatherFailures + 1
    /\ Load(sent) + 2 <= MaxLoad
    /\ sent' = RequestData(Without(sent, r), place)
    /\ hours' = IF r.kind = "weather" THEN NoPlace ELSE hours
    /\ UNCHANGED <<city, place, time, current, days, pageVars, today, cityChanges, late, newest>>

\* Midnight: the forecasts of the services begin a day later.
NextDay ==
    /\ today < MaxDays
    /\ today' = today + 1
    /\ UNCHANGED <<city, place, sent, time, current, hours, days, pageVars, cityChanges,
                   weatherFailures, late, newest>>

Answer(r) == PositionReply(r) \/ TimeReply(r) \/ WeatherReply(r) \/ DaysReply(r)

WeatherNext ==
    \/ \E c \in Cities : SetCity(c)
    \/ Refresh
    \/ NextDay
    \/ \E r \in Request : Answer(r) \/ PositionFails(r) \/ DataFails(r)

WeatherSpec == WeatherInit /\ [][WeatherNext]_weatherVars

\* The five-minute timer fires, and requests are answered or fail.
WeatherFairness ==
    /\ WF_weatherVars(Refresh)
    /\ \A r \in Request : WF_weatherVars(Answer(r))

WeatherFairSpec == WeatherSpec /\ WeatherFairness

-----------------------------------------------------------------------------
\* After a change of the city the pages go on showing what they showed, since nobody
\* tells them that it was emptied.  The first answer shown after that is for the city
\* chosen, and so is every later one, unless data of another place was still to come
\* when the city was chosen, or the city cannot be located: only that data is shown
\* instead, and no other.
NothingOfTheOldCity ==
    /\ keptWeather \/ shownWeather \in {NoPlace, city} \cup late
    /\ keptDays \/ shownDays.place \in {NoPlace, city} \cup late

\* In the end the weather and the clock are those of the city chosen last,
\* whatever answers of an earlier city came late and whatever failed: every
\* five minutes all of it is requested again (Clock.qml), and what fails is.
LastCityWins ==
    <>[](city \notin Unlocated => shownWeather = city /\ time = city)

\* The daily forecast that is shown is the one that came last.
LatestForecastShown == shownDays = newest
=============================================================================
