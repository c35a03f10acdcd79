------------------------- MODULE HostServicesProofs -------------------------
(***************************************************************************)
(* Theorems about the parts of the host that share no state: the settings  *)
(* and userdata.json, the weather, the account and the playback of Spotify, *)
(* the calendar's events and the search for networks; the ringing screen   *)
(* and the player it shares with the previews, for any songs, volumes and   *)
(* steps.                                                                   *)
(***************************************************************************)
EXTENDS Weather, SpotifyAccount, SpotifyPlayer, UserData, Events, Terminal, AlarmScreen,
        SequenceLemmas, FiniteSetTheorems

-----------------------------------------------------------------------------
(* The settings: whatever is set, in whatever order, and whenever the power *)
(* fails or the MQTT thread reads.                                          *)

\* What is written back is what the program works with; the file is open for writing
\* only while a setting is being written.
CopyIsMemory ==
    /\ writing # Nobody => copy = memory
    /\ truncated => writing # Nobody

UserInv == UserTypeOK /\ FileFollowsMemory /\ CopyIsMemory

-----------------------------------------------------------------------------
\* A setting changed in an object of settings leaves settings, whose other keys are as
\* they were.
LEMMA OneKeyChanged ==
    ASSUME NEW s \in Settings, NEW k \in Keys, NEW v \in Values
    PROVE  /\ [s EXCEPT ![k] = v] \in Settings
           /\ \A j \in Keys \ {k} : [s EXCEPT ![k] = v][j] = s[j]
  BY DEF Settings

LEMMA BlankIsTyped == Blank \in Settings
  BY DEF Blank, Settings

LEMMA SnoozeTyped == \A s \in Settings : s[DelayKey] \in Values \cup {Missing}
  BY UserDataAssumption DEF Settings

\* The program starts with what the file holds.
LEMMA UserInvInit == UserInit => UserInv
<1> SUFFICES ASSUME UserInit PROVE UserInv
    OBVIOUS
<1>1. UserTypeOK
  BY BlankIsTyped, SnoozeTyped DEF UserInit, UserTypeOK
<1>2. FileFollowsMemory /\ CopyIsMemory
  BY DEF UserInit, FileFollowsMemory, CopyIsMemory
<1> QED
  BY <1>1, <1>2 DEF UserInv

\* Each step of a setter, and a power failure between any two of them, keeps it.
LEMMA UserInvNext == UserInv /\ [UserNext]_userVars => UserInv'
<1> SUFFICES ASSUME UserInv, [UserNext]_userVars
             PROVE  UserInv'
    OBVIOUS
<1> USE DEF UserInv
<1>1. ASSUME NEW k \in Keys, NEW v \in Values, Set(k, v)
      PROVE  UserInv'
  <2>1. userfile = memory /\ ~ truncated
    BY <1>1 DEF Set, FileFollowsMemory, CopyIsMemory
  <2>2. memory' \in Settings /\ \A j \in Keys \ {k} : memory'[j] = memory[j]
    <3>1. memory \in Settings
      BY DEF UserTypeOK
    <3>2. memory' = [memory EXCEPT ![k] = v]
      BY <1>1 DEF Set
    <3>3. /\ [memory EXCEPT ![k] = v] \in Settings
          /\ \A j \in Keys \ {k} : [memory EXCEPT ![k] = v][j] = memory[j]
      BY <3>1, OneKeyChanged
    <3> QED
      BY <3>2, <3>3
  <2>3. copy' = memory'
    BY <1>1, <2>1 DEF Set, JsonWith
  <2>4. k # Nobody
    BY UserDataAssumption
  <2>5. UserTypeOK'
    BY <1>1, <2>2, <2>3 DEF Set, UserTypeOK
  <2>6. FileFollowsMemory'
    BY <1>1, <2>1, <2>2, <2>4 DEF Set, FileFollowsMemory
  <2>7. CopyIsMemory'
    BY <1>1, <2>1, <2>3 DEF Set, CopyIsMemory
  <2> QED
    BY <2>5, <2>6, <2>7
<1>2. CASE Truncate
  <2>1. UserTypeOK'
    BY <1>2, BlankIsTyped DEF Truncate, UserTypeOK
  <2>2. FileFollowsMemory' /\ CopyIsMemory'
    BY <1>2 DEF Truncate, FileFollowsMemory, CopyIsMemory
  <2> QED
    BY <2>1, <2>2
<1>3. CASE WriteBack
  <2>1. copy = memory
    BY <1>3 DEF WriteBack, CopyIsMemory
  <2>2. UserTypeOK'
    BY <1>3, BlankIsTyped DEF WriteBack, UserTypeOK
  <2>3. FileFollowsMemory' /\ CopyIsMemory'
    BY <1>3, <2>1 DEF WriteBack, FileFollowsMemory, CopyIsMemory
  <2> QED
    BY <2>2, <2>3
<1>4. CASE UserRestart
  <2>1. UserTypeOK'
    BY <1>4, BlankIsTyped, SnoozeTyped DEF UserRestart, UserTypeOK
  <2>2. FileFollowsMemory' /\ CopyIsMemory'
    BY <1>4 DEF UserRestart, FileFollowsMemory, CopyIsMemory
  <2> QED
    BY <2>1, <2>2
<1>5. CASE UNCHANGED userVars
  BY <1>5 DEF userVars, UserTypeOK, FileFollowsMemory, CopyIsMemory
<1> QED
  BY <1>1, <1>2, <1>3, <1>4, <1>5 DEF UserNext

\* The invariant holds for every set of keys and values.
LEMMA UserInvHolds == UserSpec => []UserInv
<1>1. UserInit => UserInv
  BY UserInvInit
<1>2. UserInv /\ [UserNext]_userVars => UserInv'
  BY UserInvNext
<1> QED
  BY <1>1, <1>2, PTL DEF UserSpec

-----------------------------------------------------------------------------
\* What the setters of user.cpp, weather.cpp and linuxterminal.cpp keep in memory, and
\* what write_user_json puts into the file, are settings.
THEOREM SettingsTyped == UserSpec => []UserTypeOK
<1>1. UserInv => UserTypeOK
  BY DEF UserInv
<1> QED
  BY <1>1, UserInvHolds, PTL

\* userdata.json holds what the program works with, but for the key being written and
\* while the file is truncated.
THEOREM FileIsMemory == UserSpec => []FileFollowsMemory
<1>1. UserInv => FileFollowsMemory
  BY DEF UserInv
<1> QED
  BY <1>1, UserInvHolds, PTL

\* read_json_alarms, in the MQTT thread, reads the settings as they are or as they were
\* before the change under way, unless it comes between truncation and write.
THEOREM DefaultsReadRight == UserSpec => []DefaultsAreRead
<1>1. UserInv => DefaultsAreRead
  BY UserDataAssumption DEF UserInv, FileFollowsMemory, DefaultsAreRead, ReadUserJson
<1> QED
  BY <1>1, UserInvHolds, PTL

\* A restart loses at most the setting being written, unless the power failed between
\* truncation and write.
THEOREM SettingsSurviveRestarts == UserSpec => SettingsSurvive
<1>1. UserInv /\ [UserNext]_userVars =>
        [UserRestart => truncated \/ \A k \in Keys \ {writing} : memory'[k] = memory[k]]_userVars
  BY DEF UserInv, FileFollowsMemory, UserRestart
<1> QED
  BY <1>1, UserInvHolds, PTL DEF UserSpec, SettingsSurvive

-----------------------------------------------------------------------------
(***************************************************************************)
(* The weather: answers in any order, and failures.                        *)
(***************************************************************************)
WeatherTypeOK ==
    /\ city \in Cities /\ place \in Places
    /\ sent \in [Request -> Nat]

\* The places whose data may be shown.
Allowed == {city} \cup late

\* All that is under way is for one of them.  So is the position, or else the city was
\* chosen while nothing was under way, and nothing but its position is asked for.
ForThisCity ==
    /\ \A r \in Request : Waiting(r) => r.place \in Allowed
    /\ \/ place \in Allowed
       \/ /\ city \notin Unlocated /\ late = {}
          /\ \A r \in Request : Waiting(r) => r.kind = "position"

\* So is the first day of the daily forecast.
DaysForThisCity == days # <<>> => days[1].place \in Allowed

WeatherInv == WeatherTypeOK /\ ForThisCity /\ DaysForThisCity /\ NothingOfTheOldCity

LEMMA OfIsRequest ==
    ASSUME NEW kind \in DataKinds \cup {"position"}, NEW p \in Places
    PROVE  /\ Of(kind, p) \in Request /\ Of(kind, p).kind = kind /\ Of(kind, p).place = p
BY DEF Of, Request

\* Requests under way, after more of them were sent or one was answered.
LEMMA BagProperties ==
    ASSUME NEW bag \in [Request -> Nat]
    PROVE  /\ \A more \in SUBSET Request :
                 /\ Add(bag, more) \in [Request -> Nat]
                 /\ \A r \in Request : Add(bag, more)[r] > 0 => bag[r] > 0 \/ r \in more
           /\ \A r \in Request : bag[r] > 0 =>
                 /\ Without(bag, r) \in [Request -> Nat]
                 /\ \A s \in Request : Without(bag, r)[s] > 0 => bag[s] > 0
<1>1. ASSUME NEW more \in SUBSET Request
      PROVE  /\ Add(bag, more) \in [Request -> Nat]
             /\ \A r \in Request : Add(bag, more)[r] > 0 => bag[r] > 0 \/ r \in more
    BY DEF Add
<1>2. ASSUME NEW r \in Request, bag[r] > 0
      PROVE  /\ Without(bag, r) \in [Request -> Nat]
             /\ \A s \in Request : Without(bag, r)[s] > 0 => bag[s] > 0
    <2>1. bag[r] - 1 \in Nat
        BY <1>2
    <2>2. \A s \in Request : Without(bag, r)[s] = IF s = r THEN bag[r] - 1 ELSE bag[s]
        BY DEF Without
    <2>3. Without(bag, r) \in [Request -> Nat]
        BY <2>1 DEF Without
    <2> QED
        BY <1>2, <2>2, <2>3
<1> QED
    BY <1>1, <1>2

\* What the functions of weather.cpp add to the requests under way.
LEMMA RequestsSent ==
    ASSUME NEW bag \in [Request -> Nat]
    PROVE  /\ \A c \in Cities :
                 /\ RequestPosition(bag, c) \in [Request -> Nat]
                 /\ \A r \in Request : RequestPosition(bag, c)[r] > 0 =>
                       bag[r] > 0 \/ (r.kind = "position" /\ r.place = c)
           /\ \A p \in Places :
                 /\ RequestData(bag, p) \in [Request -> Nat]
                 /\ \A r \in Request : RequestData(bag, p)[r] > 0 => bag[r] > 0 \/ r.place = p
<1>1. ASSUME NEW c \in Cities
      PROVE  /\ RequestPosition(bag, c) \in [Request -> Nat]
             /\ \A r \in Request : RequestPosition(bag, c)[r] > 0 =>
                   bag[r] > 0 \/ (r.kind = "position" /\ r.place = c)
    <2>1. /\ Of("position", c) \in Request
          /\ Of("position", c).kind = "position" /\ Of("position", c).place = c
        BY OfIsRequest DEF Places
    <2> QED
        BY <2>1, BagProperties DEF RequestPosition
<1>2. ASSUME NEW p \in Places
      PROVE  /\ RequestData(bag, p) \in [Request -> Nat]
             /\ \A r \in Request : RequestData(bag, p)[r] > 0 => bag[r] > 0 \/ r.place = p
    <2> DEFINE more == {Of(k, p) : k \in DataKinds}
    <2>1. more \in SUBSET Request /\ \A r \in more : r.place = p
        BY OfIsRequest
    <2>2. RequestData(bag, p) = Add(bag, more)
        BY DEF RequestData
    <2> HIDE DEF more
    <2> QED
        BY <2>1, <2>2, BagProperties
<1> QED
    BY <1>1, <1>2

LEMMA KindsDiffer == "position" \notin DataKinds
BY DEF DataKinds

LEMMA WeatherInvInit == WeatherInit => WeatherInv
<1> SUFFICES ASSUME WeatherInit PROVE WeatherInv
    OBVIOUS
<1> DEFINE none == [r \in Request |-> 0]
<1>1. /\ city \in Cities /\ city \notin Unlocated /\ place \in Places /\ late = {}
      /\ sent = RequestPosition(none, city)
    BY DEF WeatherInit, Places
<1>2. none \in [Request -> Nat] /\ \A r \in Request : ~ (none[r] > 0)
    OBVIOUS
<1> HIDE DEF none
<1>3. /\ sent \in [Request -> Nat]
      /\ \A r \in Request : sent[r] > 0 => r.kind = "position" /\ r.place = city
    BY <1>1, <1>2, RequestsSent
<1>4. WeatherTypeOK /\ ForThisCity
    BY <1>1, <1>3 DEF WeatherTypeOK, ForThisCity, Allowed, Waiting
<1>5. DaysForThisCity /\ NothingOfTheOldCity
    BY DEF WeatherInit, DaysForThisCity, NothingOfTheOldCity, Daily
<1> QED
    BY <1>4, <1>5 DEF WeatherInv

\* A request leaves, and more for the place as it is then may follow.
LEMMA AnswersAreForThisCity ==
    ASSUME WeatherInv, NEW r \in Request, Waiting(r), UNCHANGED <<city, late>>,
           place' \in Places,
           \/ place' = place /\ sent' = Without(sent, r)
           \/ place' \in Allowed /\ sent' = RequestData(Without(sent, r), place')
    PROVE  WeatherTypeOK' /\ ForThisCity'
<1>1. /\ sent \in [Request -> Nat] /\ sent[r] > 0
      /\ Without(sent, r) \in [Request -> Nat]
      /\ \A s \in Request : Without(sent, r)[s] > 0 => sent[s] > 0
    BY BagProperties DEF WeatherInv, WeatherTypeOK, Waiting
<1>2. CASE place' = place /\ sent' = Without(sent, r)
    BY <1>1, <1>2 DEF WeatherInv, WeatherTypeOK, ForThisCity, Allowed, Waiting
<1>3. CASE place' \in Allowed /\ sent' = RequestData(Without(sent, r), place')
    <2>1. /\ sent' \in [Request -> Nat]
          /\ \A s \in Request : sent'[s] > 0 => sent[s] > 0 \/ s.place = place'
        BY <1>1, <1>3, RequestsSent
    <2> QED
        BY <1>3, <2>1 DEF WeatherInv, WeatherTypeOK, ForThisCity, Allowed, Waiting
<1> QED
    BY <1>2, <1>3

LEMMA WeatherInvNext == WeatherInv /\ [WeatherNext]_weatherVars => WeatherInv'
<1> SUFFICES ASSUME WeatherInv, [WeatherNext]_weatherVars PROVE WeatherInv'
    OBVIOUS
<1>0. /\ city \in Cities /\ place \in Places /\ sent \in [Request -> Nat]
      /\ \A c \in Cities : c \in Places
    BY DEF WeatherInv, WeatherTypeOK, Places
<1>w. ASSUME NEW r \in Request, Waiting(r)
      PROVE  r.place \in Allowed /\ r.place \in Places
    BY <1>w DEF WeatherInv, ForThisCity, Request
<1>1. ASSUME NEW c \in Cities, SetCity(c)
      PROVE  WeatherInv'
    <2>1. /\ sent' \in [Request -> Nat]
          /\ \A r \in Request : sent'[r] > 0 => sent[r] > 0 \/ (r.kind = "position" /\ r.place = c)
        BY <1>0, <1>1, RequestsSent DEF SetCity
    <2>2. city' = c /\ place' = place /\ late' = PlacesAwaited(c)
        BY <1>1 DEF SetCity
    <2>3. \A r \in Request : sent[r] > 0 => r.place \in late'
        BY <2>2 DEF PlacesAwaited, Waiting
    <2>4. \/ place \in late'
          \/ c \notin Unlocated /\ late' = {} /\ \A r \in Request : ~ (sent[r] > 0)
        BY <2>2 DEF PlacesAwaited, Waiting
    <2>5. WeatherTypeOK'
        BY <1>0, <2>1, <2>2 DEF WeatherTypeOK
    <2>6. ForThisCity'
        BY <2>1, <2>2, <2>3, <2>4 DEF ForThisCity, Allowed, Waiting
    <2>7. DaysForThisCity' /\ NothingOfTheOldCity'
        BY <1>1 DEF SetCity, DaysForThisCity, NothingOfTheOldCity
    <2> QED
        BY <2>5, <2>6, <2>7 DEF WeatherInv
<1>2. CASE Refresh
    <2>1. /\ sent' \in [Request -> Nat]
          /\ \A r \in Request : sent'[r] > 0 => sent[r] > 0 \/ (r.kind = "position" /\ r.place = city)
        BY <1>0, <1>2, RequestsSent DEF Refresh
    <2>2. UNCHANGED <<city, place, late, days, shownWeather, shownDays, keptWeather, keptDays>>
        BY <1>2 DEF Refresh, pageVars
    <2>3. WeatherTypeOK' /\ ForThisCity'
        BY <1>0, <2>1, <2>2 DEF WeatherInv, WeatherTypeOK, ForThisCity, Allowed, Waiting
    <2>4. DaysForThisCity' /\ NothingOfTheOldCity'
        BY <2>2 DEF WeatherInv, DaysForThisCity, NothingOfTheOldCity, Allowed
    <2> QED
        BY <2>3, <2>4 DEF WeatherInv
<1>3. CASE NextDay
    BY <1>3 DEF NextDay, pageVars, WeatherInv, WeatherTypeOK, ForThisCity, DaysForThisCity,
                NothingOfTheOldCity, Waiting, Allowed
<1>4. ASSUME NEW r \in Request, Answer(r) \/ PositionFails(r) \/ DataFails(r)
      PROVE  WeatherInv'
    <2>1. Waiting(r) /\ UNCHANGED <<city, late>>
        BY <1>4 DEF Answer, PositionReply, TimeReply, WeatherReply, DaysReply, PositionFails, DataFails
    <2>2. r.place \in Allowed /\ r.place \in Places
        BY <2>1, <1>w
    <2>3. (r.place \in Unlocated \/ r.kind \in DataKinds) => place \in Allowed
        BY <2>1, <2>2, KindsDiffer DEF WeatherInv, ForThisCity, Allowed
    <2>4. \/ place' = place /\ sent' = Without(sent, r)
          \/ place' \in Allowed /\ place' \in Places /\ sent' = RequestData(Without(sent, r), place')
        BY <1>4, <1>0, <2>2, <2>3
           DEF Answer, PositionReply, TimeReply, WeatherReply, DaysReply, PositionFails, DataFails
    <2>5. WeatherTypeOK' /\ ForThisCity'
        BY <2>1, <2>4, <1>0, AnswersAreForThisCity
    <2>6. \/ UNCHANGED <<shownWeather, keptWeather>>
          \/ shownWeather' = r.place
        BY <1>4 DEF Answer, PositionReply, TimeReply, WeatherReply, DaysReply, PositionFails,
                    DataFails, pageVars
    <2>7. \/ UNCHANGED <<days, shownDays, keptDays>>
          \/ /\ days' = IF days = <<>> THEN <<Daily(r.place)>> ELSE days
             /\ shownDays' = days'[1]
        BY <1>4 DEF Answer, PositionReply, TimeReply, WeatherReply, DaysReply, PositionFails,
                    DataFails, pageVars
    <2>8. Daily(r.place).place = r.place
        BY DEF Daily
    <2>9. DaysForThisCity' /\ (keptDays' \/ shownDays'.place \in {NoPlace} \cup Allowed)
        <3>1. CASE UNCHANGED <<days, shownDays, keptDays>>
            BY <3>1, <2>1 DEF WeatherInv, DaysForThisCity, NothingOfTheOldCity, Allowed
        <3>2. CASE /\ days' = IF days = <<>> THEN <<Daily(r.place)>> ELSE days
                   /\ shownDays' = days'[1]
            <4>1. days'[1].place \in Allowed
                BY <3>2, <2>2, <2>8 DEF WeatherInv, DaysForThisCity
            <4> QED
                BY <3>2, <4>1, <2>1 DEF DaysForThisCity, Allowed
        <3> QED
            BY <2>7, <3>1, <3>2
    <2>10. keptWeather' \/ shownWeather' \in {NoPlace} \cup Allowed
        BY <2>2, <2>6 DEF WeatherInv, NothingOfTheOldCity, Allowed
    <2> QED
        BY <2>1, <2>5, <2>9, <2>10 DEF WeatherInv, NothingOfTheOldCity, Allowed
<1>5. CASE UNCHANGED weatherVars
    BY <1>5 DEF weatherVars, WeatherInv, WeatherTypeOK, ForThisCity, DaysForThisCity,
                NothingOfTheOldCity, Waiting, Allowed
<1> QED
    BY <1>1, <1>2, <1>3, <1>4, <1>5 DEF WeatherNext

\* Until the first answer after a change of the city the pages go on showing what they
\* showed.  What they show from then on is of that city, in whatever order the answers
\* come and whatever fails, or of a place whose data was still to come when the city
\* was chosen, or, if it cannot be located, of the place located last.
THEOREM WeatherOfThisCity == WeatherSpec => []NothingOfTheOldCity
<1>1. WeatherInit => WeatherInv
    BY WeatherInvInit
<1>2. WeatherInv /\ [WeatherNext]_weatherVars => WeatherInv'
    BY WeatherInvNext
<1>3. WeatherInv => NothingOfTheOldCity
    BY DEF WeatherInv
<1> QED
    BY <1>1, <1>2, <1>3, PTL DEF WeatherSpec

-----------------------------------------------------------------------------
(***************************************************************************)
(* The account: renewals, codes of other accounts, lost answers, and power *)
(* failures at any point of the writing of userdata.json.                  *)
(***************************************************************************)
TokenFile == [access : Accounts \cup {NoAccount}, refresh : Token \cup {NoToken},
              clientID : BOOLEAN]

AccountTypeOK ==
    /\ access \in Accounts \cup {NoAccount}
    /\ refresh \in Token \cup {NoToken}
    /\ clientID \in BOOLEAN
    /\ playlists \in Seq(Accounts)
    /\ requests \in [Slots -> AccountRequest \cup {Free}]
    /\ valid \subseteq Token
    /\ issued \in Nat
    /\ login \in Accounts \cup {NoAccount}
    /\ stale \subseteq Slots

Renewing(p) == requests[p] # Free /\ requests[p].kind = "renew"

\* What is in memory, as it is saved.
Memory == Saved(access, refresh)

\* A file that holds no token but those handed out.
Known(file) == file \in TokenFile /\ file.refresh.serial <= issued

\* Between two handlers the file is what is in memory; while tokens are being saved,
\* or a setting is, what is in memory is written last.
FileFollows ==
    /\ Known(tokenFile)
    /\ \/ /\ writes = <<>> /\ ~ emptied /\ ~ unsaved
          /\ tokenFile = Memory
       \/ /\ writes = <<Memory>>
          /\ emptied \/ unsaved \/ tokenFile = Memory
       \/ /\ unsaved
          /\ \E file : Known(file) /\ writes = <<file, Memory>>

\* A token that is on its way was handed out once: the host does not hold it, no
\* renewal presents it, and the accounts service takes it.
TokensOnTheWay ==
    /\ refresh.serial <= issued
    /\ \A p \in Slots : Renewing(p) => requests[p].token.serial <= issued
    /\ \A p \in Slots : Carries(p) =>
          /\ requests[p].refresh \in valid
          /\ requests[p].refresh.serial <= issued
          /\ requests[p].refresh.serial # refresh.serial
          /\ \A q \in Slots : Renewing(q) => requests[q].token.serial # requests[p].refresh.serial
          /\ \A q \in Slots : Carries(q) /\ q # p =>
                requests[q].refresh.serial # requests[p].refresh.serial

\* What was sent since the last code is for its account; tokens are renewed, and
\* playlists asked for, once that code has been exchanged.
OfLogin(p) ==
    requests[p] # Free =>
       /\ requests[p].kind # "renew" => requests[p].account = login
       /\ requests[p].kind = "renew" => requests[p].token.account = login
       /\ Carries(p) => requests[p].refresh.account = login
       /\ requests[p].kind = "exchanged" => Carries(p)
       /\ requests[p].kind \in {"renew", "renewed"} => loggedIn

SinceLogin ==
    /\ \A p \in stale : requests[p] # Free
    /\ ~ mixed => \A p \in Slots \ stale : OfLogin(p)

\* The lists that came since are its lists, whether or not the page was told.
ListsOfLogin == ~ mixed => \A i \in DOMAIN playlists : playlists[i] = login

AccountInv == /\ AccountTypeOK /\ FileFollows /\ TokensOnTheWay /\ StaysLoggedIn
              /\ SinceLogin /\ ListsOfLogin /\ NewAccountOnly

-----------------------------------------------------------------------------
\* The requests and answers, and what they hold.
LEMMA AccountRequests ==
    /\ \A t \in Token \cup {NoToken} :
          /\ Renewal(t) \in AccountRequest /\ Renewal(t) # Free
          /\ Renewal(t).kind = "renew" /\ Renewal(t).token = t
    /\ \A a \in Accounts : /\ Exchange(a) \in AccountRequest /\ Exchange(a) # Free
                           /\ Exchange(a).kind = "code" /\ Exchange(a).account = a
    /\ \A a \in Accounts : /\ Listing(a) \in AccountRequest /\ Listing(a) # Free
                           /\ Listing(a).kind = "playlists" /\ Listing(a).account = a
    /\ \A kind \in {"renewed", "exchanged"}, a \in Accounts, t \in Token \cup {NoToken} :
          /\ Tokens(kind, a, t) \in AccountRequest /\ Tokens(kind, a, t) # Free
          /\ Tokens(kind, a, t).kind = kind /\ Tokens(kind, a, t).account = a
          /\ Tokens(kind, a, t).refresh = t
<1>0. Free \notin AccountRequest
    BY SpotifyAccountAssumption
<1>1. ASSUME NEW t \in Token \cup {NoToken} PROVE Renewal(t) \in AccountRequest
    BY DEF Renewal, AccountRequest
<1>2. ASSUME NEW a \in Accounts PROVE Exchange(a) \in AccountRequest /\ Listing(a) \in AccountRequest
    BY DEF Exchange, Listing, AccountRequest
<1>3. ASSUME NEW kind \in {"renewed", "exchanged"}, NEW a \in Accounts, NEW t \in Token \cup {NoToken}
      PROVE  Tokens(kind, a, t) \in AccountRequest
    BY DEF Tokens, AccountRequest
<1>4. /\ \A t \in Token \cup {NoToken} : Renewal(t).kind = "renew" /\ Renewal(t).token = t
      /\ \A a \in Accounts : Exchange(a).kind = "code" /\ Exchange(a).account = a
      /\ \A a \in Accounts : Listing(a).kind = "playlists" /\ Listing(a).account = a
      /\ \A kind \in {"renewed", "exchanged"}, a \in Accounts, t \in Token \cup {NoToken} :
            /\ Tokens(kind, a, t).kind = kind /\ Tokens(kind, a, t).account = a
            /\ Tokens(kind, a, t).refresh = t
    BY DEF Renewal, Exchange, Listing, Tokens
<1> QED
    BY <1>0, <1>1, <1>2, <1>3, <1>4

LEMMA FieldsOfRequests ==
    ASSUME NEW r \in AccountRequest
    PROVE  /\ r.kind = "renew" => r.token \in Token \cup {NoToken}
           /\ r.kind # "renew" => r.account \in Accounts
           /\ r.kind \in {"renewed", "exchanged"} => r.refresh \in Token \cup {NoToken}
           /\ r.kind \in {"renew", "code", "playlists", "renewed", "exchanged"}
BY DEF AccountRequest

LEMMA TokenFields ==
    /\ NoToken \notin Token /\ NoToken.account = NoAccount /\ NoToken.serial = 0
    /\ \A t \in Token : t.account \in Accounts /\ t.serial \in Nat
    /\ \A a \in Accounts : /\ NewToken(a).account = a
                           /\ NewToken(a).serial = issued + 1
    /\ \A t, u \in Token : t = u <=> t.account = u.account /\ t.serial = u.serial
BY SpotifyAccountAssumption DEF NoToken, Token, NewToken

\* A place that is not used takes the next request.
LEMMA FirstFreePlace ==
    FreePlaces # {} => Min(FreePlaces) \in Slots /\ requests[Min(FreePlaces)] = Free
<1> SUFFICES ASSUME FreePlaces # {} PROVE Min(FreePlaces) \in FreePlaces
    BY DEF FreePlaces
<1>1. SpotifySlots \in Nat
    BY SpotifyAccountAssumption
<1>2. FreePlaces \subseteq Nat
    BY <1>1 DEF FreePlaces, Slots
<1> QED
    BY <1>2, MinOfNats

\* Saving what is in memory changes nothing else.
LEMMA SavedTyped ==
    ASSUME AccountTypeOK
    PROVE  /\ \A a \in Accounts \cup {NoAccount}, r \in Token \cup {NoToken} :
                 /\ Saved(a, r) \in TokenFile /\ Saved(a, r).access = a
                 /\ Saved(a, r).refresh = r /\ Saved(a, r).clientID = clientID
           /\ BlankFile \in TokenFile /\ BlankFile.refresh.serial = 0
BY DEF AccountTypeOK, Saved, BlankFile, TokenFile, NoToken

LEMMA AccountInvInit == AccountInit => AccountInv
<1> SUFFICES ASSUME AccountInit PROVE AccountInv
    OBVIOUS
<1>1. MaxSerial \in Nat /\ SpotifySlots \in Nat /\ SpotifySlots > 0 /\ FirstAccount \in Accounts
    BY SpotifyAccountAssumption
<1>2. refresh \in Token /\ refresh.account = FirstAccount /\ refresh.serial = 0
    BY <1>1 DEF AccountInit, Token
<1>3. Renewal(refresh) \in AccountRequest /\ Renewal(refresh) # Free
      /\ Renewal(refresh).kind = "renew" /\ Renewal(refresh).token = refresh
    BY <1>2, AccountRequests
<1>4. \A p \in Slots : requests[p] \in {Renewal(refresh), Free}
    BY DEF AccountInit
<1>5. AccountTypeOK
    BY <1>1, <1>2, <1>3, EmptySeq DEF AccountInit, AccountTypeOK
<1>6. FileFollows
    <2>1. Memory \in TokenFile /\ Memory.refresh = refresh
        BY <1>5, SavedTyped DEF AccountTypeOK, Memory
    <2> QED
        BY <1>2, <2>1 DEF AccountInit, FileFollows, Known, Memory
<1>7. StaysLoggedIn /\ ListsOfLogin /\ NewAccountOnly
    BY <1>2 DEF AccountInit, StaysLoggedIn, HoldsToken, ListsOfLogin, NewAccountOnly
<1>8. \A p \in Slots : ~ Answered(p) /\ (Renewing(p) => requests[p].token = refresh)
    BY <1>3, <1>4 DEF Answered, Renewing
<1>9. TokensOnTheWay
    BY <1>2, <1>8 DEF AccountInit, TokensOnTheWay, Carries
<1>10. SinceLogin
    BY <1>2, <1>3, <1>4, <1>8 DEF AccountInit, SinceLogin, OfLogin, Carries
<1> QED
    BY <1>5, <1>6, <1>7, <1>9, <1>10 DEF AccountInv

-----------------------------------------------------------------------------
\* A step that neither takes tokens nor writes.
LEMMA FileKept ==
    ASSUME AccountInv, UNCHANGED <<tokenVars, saveVars>>, issued' \in Nat, issued <= issued'
    PROVE  FileFollows'
<1>1. /\ UNCHANGED <<tokenFile, writes, emptied, unsaved>> /\ Memory' = Memory
      /\ issued \in Nat
    BY DEF tokenVars, saveVars, Memory, Saved, AccountInv, AccountTypeOK
<1>2. ASSUME NEW file, Known(file) PROVE Known(file)'
    <2>1. file.refresh \in Token \cup {NoToken}
        BY <1>2 DEF Known, TokenFile
    <2>2. file.refresh.serial \in Nat
        BY <2>1, TokenFields
    <2> QED
        BY <1>1, <1>2, <2>2 DEF Known
<1> QED
    BY <1>1, <1>2 DEF AccountInv, FileFollows

\* A step that changes what is at one place, and leaves no new token there.
LEMMA TokensKept ==
    ASSUME AccountInv, NEW p \in Slots,
           UNCHANGED <<refresh, clientID, valid, issued, cutSave, cutSetting>>,
           \A q \in Slots \ {p} : requests'[q] = requests[q],
           ~ Carries(p)', Renewing(p)' => requests'[p].token = refresh,
           lostToken => lostToken', Carries(p) => lostToken'
    PROVE  TokensOnTheWay' /\ StaysLoggedIn'
<1>1. \A q \in Slots \ {p} : (Carries(q)' <=> Carries(q)) /\ (Renewing(q)' <=> Renewing(q))
                             /\ (Answered(q)' <=> Answered(q))
    BY DEF Carries, Renewing, Answered
<1>2. \A q \in Slots : Carries(q)' => q # p
    OBVIOUS
<1>3. TokensOnTheWay'
    BY <1>1, <1>2 DEF AccountInv, TokensOnTheWay
<1>4. ASSUME ~ lostToken', NEW q \in Slots, clientID, Carries(q), requests[q].refresh \in valid
      PROVE  StaysLoggedIn'
    <2>1. q # p
        BY <1>4
    <2> QED
        BY <1>1, <1>4, <2>1 DEF StaysLoggedIn, HoldsToken
<1>5. StaysLoggedIn'
    BY <1>4 DEF AccountInv, StaysLoggedIn, HoldsToken
<1> QED
    BY <1>3, <1>5

\* A step that changes what is at one place and not who is logged in.
LEMMA LoginKept ==
    ASSUME AccountInv, NEW p \in Slots, UNCHANGED <<login, loggedIn>>,
           \A q \in Slots \ {p} : requests'[q] = requests[q],
           stale' \subseteq Slots, \A q \in Slots \ {p} : q \in stale' <=> q \in stale,
           p \in stale' => requests'[p] # Free, mixed => mixed',
           ~ mixed' /\ p \notin stale' => OfLogin(p)'
    PROVE  SinceLogin'
<1>1. \A q \in Slots \ {p} : OfLogin(q)' <=> OfLogin(q)
    BY DEF OfLogin, Carries, Answered
<1>2. \A q \in stale' : requests'[q] # Free
    BY DEF AccountInv, SinceLogin
<1>3. ASSUME ~ mixed', NEW q \in Slots, q \notin stale' PROVE OfLogin(q)'
    BY <1>1, <1>3 DEF AccountInv, SinceLogin
<1> QED
    BY <1>2, <1>3 DEF SinceLogin

\* The types, for a step that changes what is at one place.
LEMMA AccountTyped ==
    ASSUME AccountTypeOK, NEW p \in Slots, NEW r \in AccountRequest \cup {Free},
           requests' = [requests EXCEPT ![p] = r]
    PROVE  /\ requests' \in [Slots -> AccountRequest \cup {Free}]
           /\ requests'[p] = r /\ \A q \in Slots \ {p} : requests'[q] = requests[q]
BY DEF AccountTypeOK

LEMMA GetAccessTokenKeeps == AccountInv /\ GetAccessToken => AccountInv'
<1> SUFFICES ASSUME AccountInv, GetAccessToken PROVE AccountInv'
    OBVIOUS
<1>1. AccountTypeOK
    BY DEF AccountInv
<1>2. PICK p \in Slots : /\ requests[p] = Free
                        /\ requests' = [requests EXCEPT ![p] = Renewal(refresh)]
                        /\ stale' = IF loggedIn THEN stale ELSE stale \cup {p}
    BY FirstFreePlace DEF GetAccessToken, Ask
<1>3. /\ Renewal(refresh) \in AccountRequest /\ Renewal(refresh) # Free
      /\ Renewal(refresh).kind = "renew" /\ Renewal(refresh).token = refresh
    BY <1>1, AccountRequests DEF AccountTypeOK
<1>4. /\ requests' \in [Slots -> AccountRequest \cup {Free}]
      /\ requests'[p] = Renewal(refresh) /\ \A q \in Slots \ {p} : requests'[q] = requests[q]
    BY <1>1, <1>2, <1>3, AccountTyped
<1>5. /\ UNCHANGED <<tokenVars, saveVars>>
      /\ UNCHANGED <<access, refresh, clientID, playlists, shownLists, valid, issued, login,
                     loggedIn, mixed, lostToken, cutSave, cutSetting>>
    BY DEF GetAccessToken, tokenVars, listVars, lossVars
<1>6. AccountTypeOK' /\ FileFollows'
    <2>1. AccountTypeOK'
        BY <1>1, <1>2, <1>4, <1>5 DEF AccountTypeOK
    <2> QED
        BY <1>1, <1>5, <2>1, FileKept DEF AccountTypeOK
<1>7. ~ Carries(p) /\ ~ Carries(p)'
    BY <1>2, <1>3, <1>4 DEF Carries, Answered
<1>8. TokensOnTheWay' /\ StaysLoggedIn'
    BY <1>1, <1>3, <1>4, <1>5, <1>7, TokensKept
<1>9. ~ mixed' /\ p \notin stale' => OfLogin(p)'
    BY <1>2, <1>3, <1>4, <1>5, <1>7 DEF OfLogin, AccountInv, NewAccountOnly
<1>10. SinceLogin'
    <2>1. stale' \subseteq Slots /\ \A q \in Slots \ {p} : q \in stale' <=> q \in stale
        BY <1>1, <1>2 DEF AccountTypeOK
    <2> QED
        BY <1>1, <1>3, <1>4, <1>5, <1>9, <2>1, LoginKept
<1>11. NewAccountOnly' /\ ListsOfLogin'
    BY <1>5 DEF AccountInv, NewAccountOnly, ListsOfLogin
<1> QED
    BY <1>6, <1>8, <1>10, <1>11 DEF AccountInv

LEMMA SpotifyCodeKeeps ==
    ASSUME AccountInv, NEW a \in Accounts, HandleSpotifyCode(a)
    PROVE  AccountInv'
<1>1. AccountTypeOK
    BY DEF AccountInv
<1>2. PICK p \in Slots : requests[p] = Free /\ requests' = [requests EXCEPT ![p] = Exchange(a)]
    BY FirstFreePlace DEF HandleSpotifyCode, Ask
<1>3. /\ Exchange(a) \in AccountRequest /\ Exchange(a) # Free
      /\ Exchange(a).kind = "code" /\ Exchange(a).account = a
    BY AccountRequests
<1>4. /\ requests' \in [Slots -> AccountRequest \cup {Free}]
      /\ requests'[p] = Exchange(a) /\ \A q \in Slots \ {p} : requests'[q] = requests[q]
    BY <1>1, <1>2, <1>3, AccountTyped
<1>5. /\ UNCHANGED <<tokenVars, saveVars>>
      /\ UNCHANGED <<access, refresh, clientID, valid, issued, lostToken, cutSave, cutSetting>>
      /\ playlists' = <<>> /\ login' = a /\ ~ loggedIn' /\ stale' = Slots \ FreePlaces
    BY DEF HandleSpotifyCode, tokenVars, lossVars
<1>6. AccountTypeOK' /\ FileFollows'
    <2>1. AccountTypeOK'
        BY <1>1, <1>4, <1>5, EmptySeq DEF AccountTypeOK
    <2> QED
        BY <1>1, <1>5, <2>1, FileKept DEF AccountTypeOK
<1>7. ~ Carries(p) /\ ~ Carries(p)' /\ ~ Renewing(p)'
    BY <1>2, <1>3, <1>4 DEF Carries, Answered, Renewing
<1>8. TokensOnTheWay' /\ StaysLoggedIn'
    BY <1>1, <1>4, <1>5, <1>7, TokensKept
<1>9. p \notin stale' /\ \A q \in Slots : q # p => (q \in stale' <=> requests'[q] # Free)
    BY <1>2, <1>4, <1>5 DEF FreePlaces
<1>10. OfLogin(p)'
    BY <1>3, <1>4, <1>5, <1>7 DEF OfLogin
<1>11. \A q \in Slots \ stale' : OfLogin(q)'
    BY <1>9, <1>10 DEF OfLogin
<1>12. SinceLogin' /\ NewAccountOnly' /\ ListsOfLogin'
    BY <1>5, <1>9, <1>11 DEF SinceLogin, NewAccountOnly, ListsOfLogin
<1> QED
    BY <1>6, <1>8, <1>12 DEF AccountInv

\* The accounts service hands out a new token at one place, and takes no longer a
\* token that is not on its way to the host.
LEMMA TokenIssued ==
    ASSUME AccountInv, NEW p \in Slots, UNCHANGED <<refresh, clientID>>, clientID,
           issued' = issued + 1,
           \A q \in Slots \ {p} : requests'[q] = requests[q],
           requests'[p] # Free, requests'[p].kind \in {"renewed", "exchanged"},
           NEW new \in Token, new.serial = issued + 1, requests'[p].refresh = new,
           new \in valid',
           \A q \in Slots \ {p} : Carries(q) => requests[q].refresh \in valid'
    PROVE  TokensOnTheWay' /\ StaysLoggedIn' /\ Carries(p)'
<1>1. \A q \in Slots \ {p} : (Carries(q)' <=> Carries(q)) /\ (Renewing(q)' <=> Renewing(q))
    BY DEF Carries, Renewing, Answered
<1>2. Answered(p)' /\ Carries(p)' /\ ~ Renewing(p)'
    BY TokenFields DEF Answered, Carries, Renewing
<1>3. StaysLoggedIn'
    BY <1>2 DEF StaysLoggedIn, HoldsToken
<1>4. /\ issued \in Nat /\ refresh.serial \in Nat
      /\ \A q \in Slots : Renewing(q) => requests[q].token.serial \in Nat
      /\ \A q \in Slots : Carries(q) => requests[q].refresh.serial \in Nat
    <2>1. issued \in Nat /\ refresh \in Token \cup {NoToken}
        BY DEF AccountInv, AccountTypeOK
    <2>2. \A q \in Slots : requests[q] # Free => requests[q] \in AccountRequest
        BY DEF AccountInv, AccountTypeOK
    <2>3. \A q \in Slots : Renewing(q) => requests[q].token \in Token \cup {NoToken}
        BY <2>2, FieldsOfRequests DEF Renewing
    <2>4. \A q \in Slots : Carries(q) => requests[q].refresh \in Token
        BY <2>2, FieldsOfRequests DEF Carries, Answered
    <2> QED
        BY <2>1, <2>3, <2>4, TokenFields
<1>5. /\ refresh.serial <= issued
      /\ \A q \in Slots : Renewing(q) => requests[q].token.serial <= issued
      /\ \A q \in Slots : Carries(q) => requests[q].refresh.serial <= issued
    BY DEF AccountInv, TokensOnTheWay
<1>6. /\ refresh'.serial <= issued' /\ refresh'.serial # new.serial
      /\ \A q \in Slots : Renewing(q)' =>
            requests'[q].token.serial <= issued' /\ requests'[q].token.serial # new.serial
    BY <1>1, <1>2, <1>4, <1>5
<1>7. \A q \in Slots \ {p} : Carries(q)' =>
         requests'[q].refresh.serial <= issued' /\ requests'[q].refresh.serial # new.serial
    BY <1>1, <1>4, <1>5
<1>8. ASSUME NEW q \in Slots \ {p}, Carries(q)'
      PROVE  /\ requests'[q].refresh \in valid'
             /\ requests'[q].refresh.serial # refresh'.serial
             /\ \A s \in Slots : Renewing(s)' => requests'[s].token.serial # requests'[q].refresh.serial
             /\ \A s \in Slots \ {p} : Carries(s)' /\ s # q =>
                   requests'[s].refresh.serial # requests'[q].refresh.serial
    BY <1>1, <1>2, <1>8 DEF AccountInv, TokensOnTheWay
<1>9. new.serial <= issued'
    BY <1>4
<1>10. TokensOnTheWay'
    BY <1>2, <1>6, <1>7, <1>8, <1>9 DEF TokensOnTheWay
<1> QED
    BY <1>2, <1>3, <1>10

LEMMA ServeRenewalKeeps ==
    ASSUME AccountInv, NEW p \in Slots, ServeRenewal(p)
    PROVE  AccountInv'
<1> DEFINE old == requests[p].token
           new == NewToken(old.account)
<1>1. /\ AccountTypeOK /\ Renewing(p)
      /\ UNCHANGED <<tokenVars, saveVars>>
      /\ UNCHANGED <<access, refresh, clientID, playlists, shownLists, login, loggedIn, mixed,
                     lostToken, cutSave, cutSetting>>
      /\ stale' = IF requests'[p] = Free THEN stale \ {p} ELSE stale
    BY DEF AccountInv, ServeRenewal, Renewing, tokenVars, listVars, lossVars
<1>2. old \in valid => old \in Token /\ old.account \in Accounts
    BY <1>1, TokenFields DEF AccountTypeOK
<1>3. PICK r \in AccountRequest \cup {Free} :
         /\ requests' = [requests EXCEPT ![p] = r]
         /\ \/ /\ clientID /\ old \in valid
               /\ r = Tokens("renewed", old.account, NoToken) /\ UNCHANGED <<valid, issued>>
            \/ /\ clientID /\ old \in valid
               /\ new \in Token /\ r = Tokens("renewed", old.account, new)
               /\ valid' = (valid \ {old}) \cup {new} /\ issued' = issued + 1
            \/ r = Free /\ UNCHANGED <<valid, issued>>
    BY <1>2, AccountRequests DEF ServeRenewal
<1> DEFINE account == old.account
<1>n. old \in valid =>
         NewToken(account).account = account /\ NewToken(account).serial = issued + 1
    BY <1>2, TokenFields
<1>4. /\ requests' \in [Slots -> AccountRequest \cup {Free}]
      /\ requests'[p] = r /\ \A q \in Slots \ {p} : requests'[q] = requests[q]
    BY <1>1, <1>3, AccountTyped
<1>5. AccountTypeOK' /\ FileFollows'
    <2>1. AccountTypeOK'
        BY <1>1, <1>3, <1>4 DEF AccountTypeOK
    <2>2. issued <= issued'
        BY <1>1, <1>3 DEF AccountTypeOK
    <2> QED
        BY <1>1, <2>1, <2>2, FileKept DEF AccountTypeOK
<1>6. NewAccountOnly' /\ ListsOfLogin'
    BY <1>1 DEF AccountInv, NewAccountOnly, ListsOfLogin
<1>7. r # Free => /\ r.kind = "renewed" /\ r.account = account
                  /\ r.refresh = NoToken \/ (r.refresh \in Token /\ r.refresh.account = account)
    BY <1>2, <1>3, <1>n, AccountRequests
<1>8. SinceLogin'
    <2>1. ~ mixed' /\ p \notin stale' => OfLogin(p)'
        <3> SUFFICES ASSUME ~ mixed, p \notin stale', r # Free PROVE OfLogin(p)'
            BY <1>1, <1>4 DEF OfLogin
        <3>1. OfLogin(p) /\ p \notin stale
            BY <1>1, <1>4 DEF AccountInv, SinceLogin
        <3>2. account = login /\ loggedIn
            BY <1>1, <3>1 DEF OfLogin, Renewing
        <3> HIDE DEF account
        <3> QED
            BY <1>1, <1>4, <1>7, <3>2 DEF OfLogin, Carries
    <2>2. stale' \subseteq Slots /\ \A q \in Slots \ {p} : q \in stale' <=> q \in stale
        BY <1>1 DEF AccountTypeOK
    <2>3. p \in stale' => requests'[p] # Free
        BY <1>1
    <2> QED
        BY <1>1, <1>4, <2>1, <2>2, <2>3, LoginKept
<1>9. TokensOnTheWay' /\ StaysLoggedIn'
    <2>1. ~ Carries(p)
        BY <1>1 DEF Renewing, Carries, Answered
    <2>2. CASE UNCHANGED <<valid, issued>> /\ (r = Free \/ r.refresh = NoToken)
        <3>1. ~ Carries(p)' /\ ~ Renewing(p)'
            BY <1>4, <1>7, <2>2 DEF Carries, Answered, Renewing
        <3> QED
            BY <1>1, <1>4, <2>1, <2>2, <3>1, TokensKept
    <2>3. CASE /\ clientID /\ old \in valid
               /\ new \in Token /\ r = Tokens("renewed", old.account, new)
               /\ valid' = (valid \ {old}) \cup {new} /\ issued' = issued + 1
        <3>1. r # Free /\ r.kind = "renewed" /\ r.refresh = new
            BY <1>2, <2>3, AccountRequests
        <3>2. \A q \in Slots : Carries(q) => requests[q].refresh \in valid /\ requests[q].refresh # old
            BY <1>1 DEF AccountInv, TokensOnTheWay
        <3>3. new.serial = issued + 1
            BY <1>n, <2>3
        <3> HIDE DEF new, old
        <3> QED
            BY <1>1, <1>4, <2>3, <3>1, <3>2, <3>3, TokenIssued
    <2>4. old \in valid /\ r = Tokens("renewed", old.account, NoToken) => r.refresh = NoToken
        BY <1>2, AccountRequests
    <2> QED
        BY <1>3, <2>2, <2>3, <2>4
<1> QED
    BY <1>5, <1>6, <1>8, <1>9 DEF AccountInv

LEMMA ServeExchangeKeeps ==
    ASSUME AccountInv, NEW p \in Slots, ServeExchange(p)
    PROVE  AccountInv'
<1> DEFINE a == requests[p].account
           new == NewToken(a)
           r == Tokens("exchanged", a, new)
<1>1. /\ AccountTypeOK /\ requests[p] # Free /\ requests[p].kind = "code"
      /\ clientID /\ UNCHANGED <<tokenVars, saveVars>>
      /\ UNCHANGED <<access, refresh, clientID, playlists, shownLists, login, loggedIn, stale,
                     mixed, lostToken, cutSave, cutSetting>>
      /\ new \in Token /\ requests' = [requests EXCEPT ![p] = r]
      /\ valid' = valid \cup {new} /\ issued' = issued + 1
    BY DEF AccountInv, ServeExchange, tokenVars, listVars, lossVars
<1>2. a \in Accounts
    BY <1>1, FieldsOfRequests DEF AccountTypeOK
<1>3. /\ r \in AccountRequest /\ r # Free /\ r.kind = "exchanged" /\ r.account = a
      /\ r.refresh = new /\ new.account = a /\ new.serial = issued + 1
    BY <1>1, <1>2, AccountRequests, TokenFields
<1>4. /\ requests' \in [Slots -> AccountRequest \cup {Free}]
      /\ requests'[p] = r /\ \A q \in Slots \ {p} : requests'[q] = requests[q]
    BY <1>1, <1>3, AccountTyped
<1>5. AccountTypeOK' /\ FileFollows' /\ NewAccountOnly' /\ ListsOfLogin'
    <2>1. AccountTypeOK' /\ issued <= issued'
        BY <1>1, <1>4 DEF AccountTypeOK
    <2>2. FileFollows'
        BY <1>1, <2>1, FileKept DEF AccountTypeOK
    <2> QED
        BY <1>1, <2>1, <2>2 DEF AccountInv, NewAccountOnly, ListsOfLogin
<1>6. \A q \in Slots : Carries(q) => requests[q].refresh \in valid
    BY DEF AccountInv, TokensOnTheWay
<1>7. ~ mixed /\ p \notin stale => a = login
    BY <1>1 DEF AccountInv, SinceLogin, OfLogin
<1> HIDE DEF a, new, r
<1>8. PICK b, token, answer : b = a /\ token = new /\ answer = r
    OBVIOUS
<1>9. TokensOnTheWay' /\ StaysLoggedIn' /\ Carries(p)'
    BY <1>1, <1>3, <1>4, <1>6, <1>8, TokenIssued
<1>10. ~ mixed' /\ p \notin stale' => OfLogin(p)'
    BY <1>1, <1>3, <1>4, <1>7, <1>9 DEF OfLogin
<1>11. SinceLogin'
    BY <1>1, <1>3, <1>4, <1>10, LoginKept DEF AccountTypeOK
<1> QED
    BY <1>5, <1>9, <1>11 DEF AccountInv

\* The host takes the tokens of an answer, and saves them.
LEMMA TakeTokensKeeps ==
    ASSUME AccountInv, AtRest, NEW p \in Slots, Answered(p), TakeTokens(p),
           UNCHANGED <<clientID, tokenFile, emptied, playlists, valid, issued, login, stale, lossVars>>,
           mixed' = (mixed \/ p \in stale),
           loggedIn' <=> (loggedIn \/ (requests[p].kind = "exchanged" /\ p \notin stale))
    PROVE  AccountInv'
<1>1. PICK answer : answer = requests[p]
    OBVIOUS
<1>2. /\ AccountTypeOK /\ answer \in AccountRequest /\ answer # Free
      /\ answer.kind \in {"renewed", "exchanged"}
    BY <1>1 DEF AccountInv, AccountTypeOK, Answered
<1>3. answer.account \in Accounts /\ answer.refresh \in Token \cup {NoToken}
    BY <1>2, FieldsOfRequests
<1>4. /\ access' = answer.account /\ unsaved' /\ shownLists' = playlists
      /\ refresh' = IF answer.refresh = NoToken THEN refresh ELSE answer.refresh
      /\ requests' = [requests EXCEPT ![p] = Listing(answer.account)]
      /\ UNCHANGED <<lostToken, cutSave, cutSetting>>
    BY <1>1 DEF TakeTokens, TakeInMemory, lossVars
<1>5. /\ Listing(answer.account) \in AccountRequest /\ Listing(answer.account) # Free
      /\ Listing(answer.account).kind = "playlists" /\ Listing(answer.account).account = answer.account
    BY <1>3, AccountRequests
<1>6. /\ requests' \in [Slots -> AccountRequest \cup {Free}]
      /\ requests'[p] = Listing(answer.account) /\ \A q \in Slots \ {p} : requests'[q] = requests[q]
    BY <1>2, <1>4, <1>5, AccountTyped
<1>7. AccountTypeOK'
    BY <1>2, <1>3, <1>4, <1>6 DEF AccountTypeOK
<1>8. ~ Carries(p)' /\ ~ Renewing(p)' /\ ~ Answered(p)'
    BY <1>5, <1>6 DEF Carries, Answered, Renewing
<1>9. \A q \in Slots \ {p} : (Carries(q)' <=> Carries(q)) /\ (Renewing(q)' <=> Renewing(q))
                             /\ (Answered(q)' <=> Answered(q)) /\ requests'[q] = requests[q]
    BY <1>6 DEF Carries, Renewing, Answered
<1>10. /\ Carries(p) <=> answer.refresh # NoToken
       /\ Carries(p) => answer.refresh \in valid /\ answer.refresh.serial <= issued
    BY <1>1 DEF Carries, AccountInv, TokensOnTheWay
<1>11. /\ refresh'.serial <= issued
       /\ \A q \in Slots \ {p} : Carries(q) => requests[q].refresh.serial # refresh'.serial
    BY <1>1, <1>4, <1>10 DEF AccountInv, TokensOnTheWay
<1>12. TokensOnTheWay'
    <2>1. \A q \in Slots : Carries(q)' \/ Renewing(q)' => q # p
        BY <1>8
    <2> QED
        BY <1>9, <1>11, <2>1 DEF AccountInv, TokensOnTheWay
<1>13. StaysLoggedIn'
    <2>1. CASE Carries(p)
        <3>1. refresh' \in valid'
            BY <1>4, <1>10, <2>1
        <3>2. lostToken \/ cutSave \/ cutSetting \/ clientID
            BY DEF AccountInv, StaysLoggedIn, HoldsToken
        <3> QED
            BY <1>4, <3>1, <3>2 DEF StaysLoggedIn, HoldsToken
    <2>2. CASE ~ Carries(p)
        <3>1. refresh' = refresh
            BY <1>4, <1>10, <2>2
        <3> QED
            BY <1>4, <1>9, <2>2, <3>1 DEF AccountInv, StaysLoggedIn, HoldsToken
    <2> QED
        BY <2>1, <2>2
<1>14. ASSUME ~ mixed'
       PROVE  /\ p \notin stale /\ ~ mixed /\ answer.account = login /\ loggedIn'
              /\ refresh'.account = login
    <2>1. p \notin stale /\ ~ mixed /\ OfLogin(p)
        BY <1>14 DEF AccountInv, SinceLogin
    <2>2. answer.account = login /\ loggedIn'
        BY <1>1, <1>2, <2>1 DEF OfLogin
    <2>3. refresh'.account = login
        <3>1. CASE Carries(p)
            BY <1>1, <1>2, <1>4, <1>10, <2>1, <3>1 DEF OfLogin
        <3>2. CASE ~ Carries(p)
            <4>1. answer.kind = "renewed" /\ loggedIn
                BY <1>1, <1>2, <2>1, <3>2 DEF OfLogin
            <4>2. refresh.account = login
                BY <2>1, <4>1 DEF AccountInv, NewAccountOnly
            <4> QED
                BY <1>4, <1>10, <3>2, <4>2
        <3> QED
            BY <3>1, <3>2
    <2> QED
        BY <2>1, <2>2, <2>3
<1>15. NewAccountOnly' /\ ListsOfLogin'
    BY <1>4, <1>14 DEF AccountInv, ListsOfLogin, NewAccountOnly
<1>16. SinceLogin'
    <2>1. \A q \in stale' : requests'[q] # Free
        BY <1>5, <1>6, <1>9 DEF AccountInv, AccountTypeOK, SinceLogin
    <2>2. ASSUME ~ mixed', NEW q \in Slots \ stale', q # p PROVE OfLogin(q)'
        <3>1. OfLogin(q)
            BY <1>14, <2>2 DEF AccountInv, SinceLogin
        <3> QED
            BY <1>9, <1>14, <2>2, <3>1 DEF OfLogin
    <2>3. ASSUME ~ mixed' PROVE OfLogin(p)'
        BY <1>5, <1>6, <1>8, <1>14, <2>3 DEF OfLogin
    <2> QED
        BY <2>1, <2>2, <2>3 DEF SinceLogin
<1>17. FileFollows'
    <2>1. /\ Known(tokenFile) /\ tokenFile.refresh = refresh
        <3>1. tokenFile = Saved(access, refresh)
            BY DEF AccountInv, FileFollows, AtRest, Memory
        <3> QED
            BY <3>1, <1>2, SavedTyped DEF AccountTypeOK, AccountInv, FileFollows
    <2>2. Known(tokenFile)'
        BY <2>1 DEF Known
    <2>2a. PICK first : first = Saved(answer.account, refresh)
        OBVIOUS
    <2>3. /\ Memory' = [access |-> answer.account, refresh |-> refresh', clientID |-> clientID]
          /\ first = [access |-> answer.account, refresh |-> refresh, clientID |-> clientID]
        BY <1>4, <2>2a DEF Memory, Saved
    <2>4. CASE answer.refresh = NoToken
        <3>1. writes' = <<first>> /\ refresh' = refresh
            BY <1>1, <1>4, <2>1, <2>2a, <2>4 DEF TakeTokens
        <3>2. writes' = <<Memory'>>
            BY <2>3, <3>1
        <3> QED
            BY <1>4, <2>2, <3>2 DEF FileFollows
    <2>5. CASE answer.refresh # NoToken
        <3>1. writes' = <<first, Memory'>>
            BY <1>1, <1>4, <2>1, <2>2a, <2>3, <2>5 DEF TakeTokens, Saved
        <3>2. first \in TokenFile /\ first.refresh = refresh
            BY <1>2, <1>3, <2>2a, SavedTyped DEF AccountTypeOK
        <3>3. Known(first)'
            BY <3>2 DEF Known, AccountInv, TokensOnTheWay
        <3> QED
            BY <1>4, <2>2, <3>1, <3>3 DEF FileFollows
    <2> QED
        BY <2>4, <2>5
<1> QED
    BY <1>7, <1>12, <1>13, <1>15, <1>16, <1>17 DEF AccountInv

\* A request leaves its place, answered or lost, or refused.
LEMMA PlaceFreed ==
    ASSUME AccountInv, NEW p \in Slots, requests' = [requests EXCEPT ![p] = Free],
           stale' = stale \ {p}, mixed => mixed', lostToken => lostToken', Carries(p) => lostToken',
           playlists' \in Seq(Accounts),
           UNCHANGED <<tokenVars, saveVars, valid, issued, login, loggedIn, cutSave, cutSetting>>
    PROVE  /\ AccountTypeOK' /\ FileFollows' /\ TokensOnTheWay' /\ StaysLoggedIn' /\ SinceLogin'
           /\ UNCHANGED listVars => NewAccountOnly' /\ ListsOfLogin'
<1>1. /\ AccountTypeOK
      /\ UNCHANGED <<access, refresh, clientID>>
    BY DEF AccountInv, tokenVars
<1>2. /\ requests' \in [Slots -> AccountRequest \cup {Free}]
      /\ requests'[p] = Free /\ \A q \in Slots \ {p} : requests'[q] = requests[q]
    BY <1>1, AccountTyped
<1>3. AccountTypeOK' /\ FileFollows'
    <2>1. AccountTypeOK'
        BY <1>1, <1>2 DEF AccountTypeOK
    <2> QED
        BY <1>1, <2>1, FileKept DEF AccountTypeOK
<1>4. ~ Carries(p)' /\ ~ Renewing(p)'
    BY <1>2 DEF Carries, Answered, Renewing
<1>5. TokensOnTheWay' /\ StaysLoggedIn'
    BY <1>1, <1>2, <1>4, TokensKept
<1>6. OfLogin(p)'
    BY <1>2 DEF OfLogin
<1>7. SinceLogin'
    BY <1>1, <1>2, <1>6, LoginKept DEF AccountTypeOK
<1>8. UNCHANGED listVars => NewAccountOnly' /\ ListsOfLogin'
    BY <1>1 DEF AccountInv, NewAccountOnly, ListsOfLogin, listVars
<1> QED
    BY <1>3, <1>5, <1>7, <1>8

LEMMA PlaylistsReplyKeeps ==
    ASSUME AccountInv, NEW p \in Slots, PlaylistsReply(p)
    PROVE  AccountInv'
<1>1. /\ requests[p] # Free /\ requests[p].kind = "playlists"
      /\ requests' = [requests EXCEPT ![p] = Free]
      /\ stale' = stale \ {p} /\ mixed' = (mixed \/ p \in stale)
      /\ playlists' \in {Append(playlists, requests[p].account), playlists}
      /\ shownLists' = playlists'
      /\ UNCHANGED <<tokenVars, saveVars, valid, issued, login, loggedIn, lostToken, cutSave, cutSetting>>
    BY DEF PlaylistsReply, lossVars
<1>2. ~ Carries(p)
    BY <1>1 DEF Carries, Answered
<1>3. requests[p].account \in Accounts /\ playlists \in Seq(Accounts)
    BY <1>1, FieldsOfRequests DEF AccountInv, AccountTypeOK
<1>4. playlists' \in Seq(Accounts)
    BY <1>1, <1>3, AppendProperties
<1>5. AccountTypeOK' /\ FileFollows' /\ TokensOnTheWay' /\ StaysLoggedIn' /\ SinceLogin'
    BY <1>1, <1>2, <1>4, PlaceFreed
<1>6. ~ mixed' => /\ requests[p].account = login
                  /\ \A i \in DOMAIN playlists : playlists[i] = login
    BY <1>1 DEF AccountInv, SinceLogin, OfLogin, ListsOfLogin
<1>7. ASSUME ~ mixed', NEW i \in DOMAIN playlists' PROVE playlists'[i] = login
    <2>1. CASE playlists' = playlists
        BY <1>6, <1>7, <2>1
    <2>2. CASE playlists' = Append(playlists, requests[p].account)
        <3>1. Len(playlists) \in Nat /\ DOMAIN playlists = 1 .. Len(playlists)
            BY <1>3, LenProperties
        <3>2. /\ DOMAIN playlists' = 1 .. Len(playlists) + 1
              /\ \A j \in 1 .. Len(playlists) : playlists'[j] = playlists[j]
              /\ playlists'[Len(playlists) + 1] = requests[p].account
            BY <1>3, <2>2, AppendProperties, LenProperties
        <3>3. i \in 1 .. Len(playlists) \/ i = Len(playlists) + 1
            BY <1>7, <3>1, <3>2
        <3> QED
            BY <1>6, <1>7, <3>1, <3>2, <3>3
    <2> QED
        BY <1>1, <2>1, <2>2
<1>8. ListsOfLogin' /\ NewAccountOnly'
    BY <1>1, <1>7 DEF AccountInv, ListsOfLogin, NewAccountOnly, tokenVars
<1> QED
    BY <1>5, <1>8 DEF AccountInv

\* A code that is refused, and a request or an answer that is lost.
LEMMA RefusedOrLostKeeps ==
    ASSUME AccountInv, NEW p \in Slots, RefuseExchange(p) \/ RequestLost(p)
    PROVE  AccountInv'
<1>1. /\ requests' = [requests EXCEPT ![p] = Free] /\ stale' = stale \ {p}
      /\ lostToken => lostToken'
      /\ Carries(p) => lostToken'
      /\ UNCHANGED <<tokenVars, saveVars, listVars, valid, issued, login, loggedIn, mixed,
                     cutSave, cutSetting>>
    <2>1. CASE RefuseExchange(p)
        <3>1. ~ Carries(p)
            BY <2>1 DEF RefuseExchange, Carries, Answered
        <3> QED
            BY <2>1, <3>1 DEF RefuseExchange, lossVars
    <2>2. CASE RequestLost(p)
        BY <2>2 DEF RequestLost
    <2> QED
        BY <2>1, <2>2
<1>2. playlists' \in Seq(Accounts)
    BY <1>1 DEF listVars, AccountInv, AccountTypeOK
<1> QED
    BY <1>1, <1>2, PlaceFreed DEF AccountInv

\* The file is written, step by step, or a setting is to be saved.
LEMMA SavingKeeps ==
    ASSUME AccountInv, SaveSetting \/ TruncateFile \/ WriteFile
    PROVE  AccountInv'
<1>1. UNCHANGED <<access, refresh, clientID, playlists, shownLists, requests, valid, issued, login,
                  loggedIn, stale, mixed, lostToken, cutSave, cutSetting>>
    BY DEF SaveSetting, TruncateFile, WriteFile, tokenVars, listVars, lossVars
<1>2. AccountTypeOK' /\ ListsOfLogin' /\ NewAccountOnly' /\ SinceLogin'
    BY <1>1 DEF AccountInv, AccountTypeOK, ListsOfLogin, NewAccountOnly, SinceLogin, OfLogin,
                Carries, Answered
<1>3. TokensOnTheWay' /\ StaysLoggedIn'
    BY <1>1 DEF AccountInv, TokensOnTheWay, StaysLoggedIn, HoldsToken, Carries, Answered, Renewing
<1>4. Memory' = Memory /\ (\A file : Known(file)' <=> Known(file)) /\ Known(Memory)
    <2>1. Memory \in TokenFile /\ Memory.refresh = refresh
        BY SavedTyped DEF AccountInv, AccountTypeOK, Memory
    <2> QED
        BY <1>1, <2>1 DEF Memory, Saved, Known, AccountInv, TokensOnTheWay
<1>5. CASE SaveSetting
    <2>1. /\ writes = <<>> /\ writes' = <<tokenFile>>
          /\ UNCHANGED <<tokenFile, emptied, unsaved>>
        BY <1>5 DEF SaveSetting, AtRest
    <2>2. tokenFile = Memory /\ Known(tokenFile)
        BY <2>1 DEF AccountInv, FileFollows
    <2> QED
        BY <1>2, <1>3, <1>4, <2>1, <2>2 DEF AccountInv, FileFollows
<1>6. CASE TruncateFile
    <2>1. /\ writes # <<>> /\ emptied' /\ tokenFile' = BlankFile
          /\ UNCHANGED <<writes, unsaved>>
        BY <1>6 DEF TruncateFile
    <2>2. Known(BlankFile)
        BY SavedTyped DEF AccountInv, AccountTypeOK, Known
    <2> QED
        BY <1>2, <1>3, <1>4, <2>1, <2>2 DEF AccountInv, FileFollows
<1>7. CASE WriteFile
    <2>1. /\ emptied /\ ~ emptied' /\ tokenFile' = Head(writes) /\ writes' = Tail(writes)
          /\ unsaved' <=> (unsaved /\ writes' # <<>>)
        BY <1>7 DEF WriteFile
    <2>2. \/ writes = <<Memory>>
          \/ unsaved /\ \E file : Known(file) /\ writes = <<file, Memory>>
        BY <2>1 DEF AccountInv, FileFollows
    <2>3. CASE writes = <<Memory>>
        <3>1. tokenFile' = Memory /\ writes' = <<>>
            BY <2>1, <2>3
        <3> QED
            BY <1>2, <1>3, <1>4, <2>1, <3>1 DEF AccountInv, FileFollows
    <2>4. CASE unsaved /\ \E file : Known(file) /\ writes = <<file, Memory>>
        <3>1. PICK file : Known(file) /\ writes = <<file, Memory>>
            BY <2>4
        <3>2. tokenFile' = file /\ writes' = <<Memory>>
            BY <2>1, <3>1
        <3>3. unsaved'
            BY <2>1, <2>4, <3>2
        <3> QED
            BY <1>2, <1>3, <1>4, <3>1, <3>2, <3>3 DEF AccountInv, FileFollows
    <2> QED
        BY <2>2, <2>3, <2>4
<1> QED
    BY <1>5, <1>6, <1>7

\* After a power failure the host has what the file holds.
LEMMA RestartKeeps == AccountInv /\ SpotifyRestart => AccountInv'
<1> SUFFICES ASSUME AccountInv, SpotifyRestart PROVE AccountInv'
    OBVIOUS
<1> DEFINE token == tokenFile.refresh
<1>1. /\ AccountTypeOK /\ Known(tokenFile)
      /\ SpotifySlots \in Nat /\ SpotifySlots > 0
    BY SpotifyAccountAssumption DEF AccountInv, FileFollows
<1>2. /\ token \in Token \cup {NoToken} /\ tokenFile.access \in Accounts \cup {NoAccount}
      /\ tokenFile.clientID \in BOOLEAN /\ token.serial <= issued
      /\ tokenFile = [access |-> tokenFile.access, refresh |-> token, clientID |-> tokenFile.clientID]
    BY <1>1 DEF Known, TokenFile
<1>3. /\ Renewal(token) \in AccountRequest /\ Renewal(token) # Free
      /\ Renewal(token).kind = "renew" /\ Renewal(token).token = token
    BY <1>2, AccountRequests
<1>4. /\ requests' = [q \in Slots |-> IF q = 1 THEN Renewal(token) ELSE Free]
      /\ access' = tokenFile.access /\ refresh' = token /\ clientID' = tokenFile.clientID
      /\ playlists' = <<>> /\ shownLists' = <<>> /\ login' = token.account
      /\ writes' = <<>> /\ ~ emptied' /\ ~ unsaved'
      /\ loggedIn' /\ stale' = {} /\ mixed' = (tokenFile.access # token.account)
      /\ lostToken' = (lostToken \/ \E q \in Slots : Carries(q))
      /\ cutSave' = (cutSave \/ unsaved) /\ cutSetting' = (cutSetting \/ (emptied /\ ~ unsaved))
      /\ UNCHANGED <<tokenFile, valid, issued>>
    BY DEF SpotifyRestart
<1>5. \A q \in Slots : requests'[q] \in {Renewal(token), Free}
    BY <1>4
<1>6. token.account \in Accounts \cup {NoAccount}
    BY <1>2, TokenFields
<1>7. AccountTypeOK'
    BY <1>1, <1>2, <1>3, <1>4, <1>6, EmptySeq DEF AccountTypeOK
<1>8. FileFollows'
    <2>1. tokenFile = Memory'
        BY <1>2, <1>4 DEF Memory, Saved
    <2> QED
        BY <1>1, <1>4, <2>1 DEF FileFollows, Known
<1>9. StaysLoggedIn'
    <2>1. CASE unsaved \/ emptied \/ lostToken'
        <3>1. lostToken' \/ cutSave' \/ cutSetting'
            BY <1>4, <2>1
        <3> QED
            BY <3>1 DEF StaysLoggedIn
    <2>2. CASE ~ unsaved /\ ~ emptied /\ ~ lostToken'
        <3>1. tokenFile = Memory
            BY <2>2 DEF AccountInv, FileFollows
        <3>2. refresh' = refresh /\ clientID' = clientID
            BY <1>1, <1>4, <3>1, SavedTyped DEF AccountTypeOK, Memory
        <3>3. cutSave \/ cutSetting \/ (clientID /\ refresh \in valid)
            BY <1>4, <2>2 DEF AccountInv, StaysLoggedIn, HoldsToken
        <3>4. cutSave' \/ cutSetting' \/ (clientID' /\ refresh' \in valid')
            <4>1. (cutSave => cutSave') /\ (cutSetting => cutSetting')
                BY <1>4
            <4>2. (clientID' <=> clientID) /\ refresh' = refresh /\ valid' = valid
                BY <1>4, <3>2
            <4> QED
                BY <3>3, <4>1, <4>2
        <3> QED
            BY <3>4 DEF StaysLoggedIn, HoldsToken
    <2> QED
        BY <2>1, <2>2
<1> HIDE DEF token
<1>10. \A q \in Slots : ~ Answered(q)' /\ ~ Carries(q)' /\ (Renewing(q)' => requests'[q].token = token)
    BY <1>3, <1>5 DEF Answered, Carries, Renewing
<1>11. TokensOnTheWay'
    BY <1>2, <1>4, <1>10 DEF TokensOnTheWay
<1>12. SinceLogin'
    BY <1>3, <1>4, <1>5, <1>10 DEF SinceLogin, OfLogin
<1>13. NewAccountOnly' /\ ListsOfLogin'
    <2>1. ~ mixed' => access' = login' /\ refresh'.account = login'
        BY <1>4
    <2>2. DOMAIN playlists' = {} /\ DOMAIN shownLists' = {}
        BY <1>4
    <2> QED
        BY <2>1, <2>2 DEF NewAccountOnly, ListsOfLogin
<1> QED
    BY <1>7, <1>8, <1>9, <1>11, <1>12, <1>13 DEF AccountInv

LEMMA AccountInvNext == AccountInv /\ [AccountNext]_accountVars => AccountInv'
<1> SUFFICES ASSUME AccountInv, [AccountNext]_accountVars PROVE AccountInv'
    OBVIOUS
<1>1. ASSUME NEW p \in Slots, HandleTokenReply(p) PROVE AccountInv'
    <2>1. requests[p].kind # "exchanged" /\ Answered(p)
        BY <1>1 DEF HandleTokenReply, Answered
    <2>2. /\ AtRest /\ TakeTokens(p) /\ mixed' = (mixed \/ p \in stale)
          /\ UNCHANGED <<clientID, tokenFile, emptied, playlists, valid, issued, login, loggedIn,
                         stale, lossVars>>
        BY <1>1 DEF HandleTokenReply
    <2> QED
        BY <2>1, <2>2, TakeTokensKeeps
<1>2. ASSUME NEW p \in Slots, CodeReply(p) PROVE AccountInv'
    <2>1. requests[p].kind = "exchanged" /\ Answered(p)
        BY <1>2 DEF CodeReply, Answered
    <2>2. /\ AtRest /\ TakeTokens(p) /\ mixed' = (mixed \/ p \in stale)
          /\ loggedIn' = (loggedIn \/ p \notin stale)
          /\ UNCHANGED <<clientID, tokenFile, emptied, playlists, valid, issued, login, stale, lossVars>>
        BY <1>2 DEF CodeReply
    <2> QED
        BY <2>1, <2>2, TakeTokensKeeps
<1>3. CASE UNCHANGED accountVars
    <2>1. /\ UNCHANGED <<tokenVars, saveVars>>
          /\ UNCHANGED <<access, refresh, clientID, playlists, shownLists, requests, valid, issued,
                         login, loggedIn, stale, mixed, lostToken, cutSave, cutSetting>>
        BY <1>3 DEF accountVars, tokenVars, saveVars
    <2>2. AccountTypeOK' /\ FileFollows'
        BY <2>1, FileKept DEF AccountInv, AccountTypeOK
    <2>3. ListsOfLogin' /\ NewAccountOnly' /\ SinceLogin'
        BY <2>1 DEF AccountInv, ListsOfLogin, NewAccountOnly, SinceLogin, OfLogin, Carries, Answered
    <2>4. TokensOnTheWay' /\ StaysLoggedIn'
        BY <2>1 DEF AccountInv, TokensOnTheWay, StaysLoggedIn, HoldsToken, Carries, Answered, Renewing
    <2> QED
        BY <2>2, <2>3, <2>4 DEF AccountInv
<1> QED
    BY <1>1, <1>2, <1>3, GetAccessTokenKeeps, SpotifyCodeKeeps, ServeRenewalKeeps,
       ServeExchangeKeeps, PlaylistsReplyKeeps, RefusedOrLostKeeps, SavingKeeps, RestartKeeps
    DEF AccountNext

LEMMA AccountInvHolds == AccountSpec => []AccountInv
<1>1. AccountInit => AccountInv
    BY AccountInvInit
<1>2. AccountInv /\ [AccountNext]_accountVars => AccountInv'
    BY AccountInvNext
<1> QED
    BY <1>1, <1>2, PTL DEF AccountSpec

\* However renewals, codes, settings and power failures follow one another: the host
\* holds its client's id and a refresh token the accounts service takes, or one is on
\* its way to it, unless an answer with a new one was lost, or the power failed while
\* tokens were being saved, or while the file was empty for another setting.
THEOREM NeverLockedOut == AccountSpec => []StaysLoggedIn
<1>1. AccountInv => StaysLoggedIn
    BY DEF AccountInv
<1> QED
    BY <1>1, AccountInvHolds, PTL

\* Once the code of an account is exchanged, the tokens are of that account, and so are
\* the playlists that the page shows, unless an answer is taken to a request made before.
THEOREM OneAccountAtATime == AccountSpec => []NewAccountOnly
<1>1. AccountInv => NewAccountOnly
    BY DEF AccountInv
<1> QED
    BY <1>1, AccountInvHolds, PTL

-----------------------------------------------------------------------------
(***************************************************************************)
(* Playback: operations side by side, with and without a device, and the   *)
(* tracks of a playlist.                                                   *)
(***************************************************************************)
PlayerTypeOK ==
    /\ remote \in State
    /\ line \in [Lines -> PlayerRequest \cup {NoRequest}]
    /\ tracks \in Seq(Playlists)

\* Nothing is known of what Spotify will do.
Either == \A b \in BOOLEAN : b \in aims

\* Unless nothing is known, what every command under way leads to is known, and with a
\* device no question for the state is; without one nothing is done.
AimsOfCommands ==
    \/ Either
    \/ /\ \A l \in Lines : Unserved(l, {"toggleIs"}) => line[l].state = Nothing
       /\ ~ active => remote.playing \in aims
       /\ active =>
             /\ \A l \in Lines :
                   /\ ~ Unserved(l, {"toggle"})
                   /\ Unserved(l, {"pause"}) => FALSE \in aims
                   /\ Unserved(l, {"play", "set", "next", "prev"}) => TRUE \in aims
             /\ Undisturbed => remote.playing \in aims

\* The answers on their way, and those that came, hold tracks of the playlist opened
\* last, or were awaited when it was opened.
OfOpened(p) == p \in {opened} \cup awaited

AwaitedTracks ==
    /\ \A l \in Lines : Unserved(l, {"tracks"}) => OfOpened(line[l].playlist)
    /\ \A i \in DOMAIN tracks : OfOpened(tracks[i])

PlayerInv == PlayerTypeOK /\ AimsOfCommands /\ AwaitedTracks /\ TracksOfOpened

-----------------------------------------------------------------------------
LEMMA PlayerRequests ==
    /\ NoRequest \notin PlayerRequest
    /\ \A kind \in {"current", "toggle", "pause", "play", "next", "prev", "done"} :
          Command(kind) \in PlayerRequest /\ Command(kind).kind = kind
    /\ \A kind \in {"currentIs", "toggleIs"}, s \in State \cup {Nothing} :
          /\ StateIs(kind, s) \in PlayerRequest
          /\ StateIs(kind, s).kind = kind /\ StateIs(kind, s).state = s
    /\ \A t \in 0 .. Songbook : [kind |-> "set", track |-> t] \in PlayerRequest
    /\ \A p \in Playlists :
          /\ TracksOf(p) \in PlayerRequest
          /\ TracksOf(p).kind = "tracks" /\ TracksOf(p).playlist = p
<1>1. ASSUME NEW kind \in {"current", "toggle", "pause", "play", "next", "prev", "done"}
      PROVE  Command(kind) \in PlayerRequest
    BY DEF Command, PlayerRequest
<1>2. ASSUME NEW kind \in {"currentIs", "toggleIs"}, NEW s \in State \cup {Nothing}
      PROVE  StateIs(kind, s) \in PlayerRequest
    BY DEF StateIs, PlayerRequest
<1>3. \A t \in 0 .. Songbook : [kind |-> "set", track |-> t] \in PlayerRequest
    BY DEF PlayerRequest
<1>4. ASSUME NEW p \in Playlists PROVE TracksOf(p) \in PlayerRequest
    BY DEF TracksOf, PlayerRequest
<1>5. /\ \A kind : Command(kind).kind = kind
      /\ \A kind, s : StateIs(kind, s).kind = kind /\ StateIs(kind, s).state = s
      /\ \A p : TracksOf(p).kind = "tracks" /\ TracksOf(p).playlist = p
    BY DEF Command, StateIs, TracksOf
<1> QED
    BY <1>1, <1>2, <1>3, <1>4, <1>5, SpotifyPlayerAssumption

LEMMA FieldsOfLines ==
    ASSUME NEW r \in PlayerRequest
    PROVE  /\ r.kind = "set" => r.track \in 0 .. Songbook
           /\ r.kind = "tracks" => r.playlist \in Playlists
BY DEF PlayerRequest

\* A line that is used, a request that is sent.
LEMMA Sent ==
    ASSUME PlayerTypeOK, NEW l \in Lines, NEW r \in PlayerRequest \cup {NoRequest}, Send(l, r)
    PROVE  /\ line' \in [Lines -> PlayerRequest \cup {NoRequest}]
           /\ line'[l] = r /\ \A m \in Lines \ {l} : line'[m] = line[m]
BY DEF PlayerTypeOK, Send

LEMMA StartKeeps ==
    ASSUME PlayerTypeOK, NEW l \in Lines, NEW r \in PlayerRequest, Start(l, r)
    PROVE  /\ ~ Acts(l)
           /\ line' \in [Lines -> PlayerRequest \cup {NoRequest}]
           /\ line'[l] = r /\ \A m \in Lines \ {l} : line'[m] = line[m]
BY Sent DEF Start, Acts, Asks, Unserved

\* Of the lines that did not change.
LEMMA OtherLines ==
    ASSUME NEW m \in Lines, line'[m] = line[m]
    PROVE  /\ Acts(m)' <=> Acts(m)
           /\ Asks(m)' <=> Asks(m)
           /\ \A kinds : Unserved(m, kinds)' <=> Unserved(m, kinds)
BY DEF Acts, Asks, Unserved

\* A line stops acting, or did not act.
LEMMA LineGoesOn ==
    ASSUME AimsOfCommands, NEW l \in Lines, UNCHANGED <<active, aims>>,
           \A m \in Lines \ {l} : line'[m] = line[m],
           \/ Either
           \/ ~ Acts(l)' /\ \/ remote' = remote /\ (active => ~ Acts(l))
                            \/ active /\ remote'.playing \in aims
    PROVE  AimsOfCommands'
<1>1. CASE Either
    BY <1>1 DEF Either, AimsOfCommands
<1>2. CASE ~ Either
    <2>1. \A m \in Lines : \A kinds : Unserved(m, kinds)' => (m # l /\ Unserved(m, kinds)) \/ m = l
        BY OtherLines
    <2>2. /\ ~ Unserved(l, {"toggle"})' /\ ~ Unserved(l, {"pause"})'
          /\ ~ Unserved(l, {"play", "set", "next", "prev"})'
          /\ Unserved(l, {"toggleIs"})' => line'[l].state = Nothing
        BY <1>2 DEF Acts, Asks, Unserved
    <2>3. \A m \in Lines : Unserved(m, {"toggleIs"})' => line'[m].state = Nothing
        BY <1>2, <2>1, <2>2 DEF AimsOfCommands
    <2>4. ~ active => remote'.playing \in aims
        BY <1>2 DEF AimsOfCommands
    <2>5. active => /\ \A m \in Lines :
                          /\ ~ Unserved(m, {"toggle"})'
                          /\ Unserved(m, {"pause"})' => FALSE \in aims
                          /\ Unserved(m, {"play", "set", "next", "prev"})' => TRUE \in aims
        BY <1>2, <2>1, <2>2 DEF AimsOfCommands
    <2>6. active /\ Undisturbed' => remote'.playing \in aims
        <3>1. CASE remote'.playing \in aims
            BY <3>1
        <3>2. CASE remote' = remote /\ (active => ~ Acts(l))
            <4>1. active /\ Undisturbed' => Undisturbed
                BY <3>2, OtherLines DEF Undisturbed
            <4> QED
                BY <1>2, <3>2, <4>1 DEF AimsOfCommands
        <3> QED
            BY <1>2, <3>1, <3>2
    <2> QED
        BY <2>3, <2>4, <2>5, <2>6 DEF AimsOfCommands
<1> QED
    BY <1>1, <1>2

\* Lines that hold no new tracks keep AwaitedTracks.
LEMMA TracksAwaited ==
    ASSUME AwaitedTracks, NEW l \in Lines, UNCHANGED <<opened, awaited, tracks>>,
           \A m \in Lines \ {l} : line'[m] = line[m],
           ~ Unserved(l, {"tracks"})'
    PROVE  AwaitedTracks'
BY DEF AwaitedTracks, OfOpened, Unserved

LEMMA PlayerInvInit == PlayerInit => PlayerInv
<1> SUFFICES ASSUME PlayerInit PROVE PlayerInv
    OBVIOUS
<1>1. PlayerTypeOK
    BY EmptySeq DEF PlayerInit, PlayerTypeOK
<1>2. AimsOfCommands
    BY DEF PlayerInit, AimsOfCommands, Unserved
<1>3. AwaitedTracks
    BY DEF PlayerInit, AwaitedTracks, Unserved
<1>4. TracksOfOpened
    BY DEF PlayerInit, TracksOfOpened
<1> QED
    BY <1>1, <1>2, <1>3, <1>4 DEF PlayerInv

\* A command is sent: an alarm pauses, a skip and a track chosen play.
LEMMA CommandSent ==
    ASSUME PlayerInv, NEW l \in Lines, NEW r \in PlayerRequest, NEW target \in BOOLEAN,
           Start(l, r), AimAt(target), UNCHANGED <<remote, active, trackVars>>,
           \/ r.kind = "pause" /\ target = FALSE
           \/ r.kind \in {"next", "prev", "set"} /\ target = TRUE
    PROVE  PlayerInv'
<1>1. PlayerTypeOK /\ AimsOfCommands /\ AwaitedTracks /\ TracksOfOpened
      /\ UNCHANGED <<opened, tracks, shownTracks, keptTracks, awaited>>
    BY DEF PlayerInv, trackVars
<1>2. /\ ~ Acts(l)
      /\ line' \in [Lines -> PlayerRequest \cup {NoRequest}]
      /\ line'[l] = r /\ \A m \in Lines \ {l} : line'[m] = line[m]
    BY <1>1, StartKeeps
<1>3. /\ ~ Unserved(l, {"tracks", "toggle", "toggleIs"})' /\ Acts(l)'
      /\ ~ Unserved(l, {"tracks"})' /\ ~ Unserved(l, {"toggle"})' /\ ~ Unserved(l, {"toggleIs"})'
      /\ Unserved(l, {"pause"})' => target = FALSE
      /\ Unserved(l, {"play", "set", "next", "prev"})' => target = TRUE
    BY <1>2, PlayerRequests DEF Unserved, Acts
<1>4. ~ Undisturbed'
    BY <1>3 DEF Undisturbed
<1>5. AwaitedTracks'
    BY <1>1, <1>2, <1>3, TracksAwaited
<1>6. AimsOfCommands'
    <2>1. CASE aims' = BOOLEAN
        BY <2>1 DEF AimsOfCommands, Either
    <2>2. CASE /\ ~ \E m \in Lines : Asks(m)
               /\ \/ aims' = {Playing(target)} /\ Undisturbed
                  \/ aims' = aims \cup {Playing(target)}
        <3>1. CASE Either /\ aims' = aims \cup {Playing(target)}
            BY <3>1 DEF Either, AimsOfCommands
        <3>2. CASE ~ Either \/ Undisturbed
            <4>1. \A m \in Lines : m # l =>
                     /\ ~ Unserved(m, {"toggle"})'
                     /\ Unserved(m, {"toggleIs"})' => line'[m].state = Nothing
                BY <1>2, <2>2, OtherLines DEF Asks
            <4>2. active => target \in aims'
                BY <2>2 DEF Playing
            <4>3. ~ active => remote'.playing \in aims'
                BY <2>2 DEF Playing
            <4>4. \A m \in Lines : m # l /\ active =>
                     /\ Unserved(m, {"pause"})' => FALSE \in aims'
                     /\ Unserved(m, {"play", "set", "next", "prev"})' => TRUE \in aims'
                <5>1. CASE Undisturbed
                    <6>1. \A m \in Lines : m # l =>
                             /\ ~ Unserved(m, {"pause"})'
                             /\ ~ Unserved(m, {"play", "set", "next", "prev"})'
                        BY <1>2, <5>1, OtherLines DEF Undisturbed, Acts, Unserved
                    <6> QED
                        BY <6>1
                <5>2. CASE ~ Undisturbed /\ ~ Either
                    BY <1>1, <1>2, <2>2, <5>2, OtherLines DEF AimsOfCommands
                <5> QED
                    BY <3>2, <5>1, <5>2
            <4> QED
                BY <1>3, <1>4, <4>1, <4>2, <4>3, <4>4 DEF AimsOfCommands
        <3> QED
            BY <2>2, <3>1, <3>2
    <2>3. \/ aims' = BOOLEAN
          \/ /\ ~ \E m \in Lines : Asks(m)
             /\ \/ aims' = {Playing(target)} /\ Undisturbed
                \/ aims' = aims \cup {Playing(target)}
        BY DEF AimAt, Undisturbed, Acts
    <2> QED
        BY <2>1, <2>2, <2>3
<1> QED
    BY <1>1, <1>2, <1>5, <1>6 DEF PlayerInv, PlayerTypeOK, TracksOfOpened

\* The play button: two questions, which lead to nothing when no device is there.
LEMMA ButtonKeeps ==
    ASSUME PlayerInv, NEW l \in Lines, PressPlayButton(l)
    PROVE  PlayerInv'
<1>1. /\ PlayerTypeOK /\ AimsOfCommands /\ AwaitedTracks /\ TracksOfOpened
      /\ UNCHANGED <<remote, active, opened, tracks, shownTracks, keptTracks, awaited>>
      /\ AimToggle
    BY DEF PlayerInv, PressPlayButton, trackVars
<1>2. PICK used \in SUBSET Lines :
         line' = [m \in Lines |-> IF m \in used THEN Command("toggle") ELSE line[m]]
    <2>1. line' = [m \in Lines |-> IF m \in {k \in Lines : k \in {l, Min(Idle \ {l})}}
                                   THEN Command("toggle") ELSE line[m]]
        BY DEF PressPlayButton
    <2> QED
        BY <2>1
<1>3. \A m \in Lines : /\ m \in used => line'[m] = Command("toggle")
                       /\ m \notin used => line'[m] = line[m]
    BY <1>2
<1>4. Command("toggle") \in PlayerRequest /\ Command("toggle").kind = "toggle"
    BY PlayerRequests
<1>5. PlayerTypeOK'
    BY <1>1, <1>2, <1>4 DEF PlayerTypeOK
<1>6. AwaitedTracks'
    BY <1>1, <1>3, <1>4 DEF AwaitedTracks, OfOpened, Unserved
<1>7. AimsOfCommands'
    <2>1. CASE aims' = BOOLEAN
        BY <2>1 DEF AimsOfCommands, Either
    <2>2. CASE Undisturbed /\ ~ active /\ aims' = {remote.playing}
        <3>1. \A m \in Lines : Unserved(m, {"toggleIs"})' => line'[m].state = Nothing
            BY <1>3, <1>4, <2>2 DEF Undisturbed, Acts, Asks, Unserved
        <3> QED
            BY <1>1, <2>2, <3>1 DEF AimsOfCommands
    <2> QED
        BY <1>1, <2>1, <2>2 DEF AimToggle
<1> QED
    BY <1>1, <1>5, <1>6, <1>7 DEF PlayerInv, TracksOfOpened

LEMMA OperateKeeps ==
    ASSUME PlayerInv, NEW l \in Lines, Operate(l), ~ ScanPlaylistTracks(l)
    PROVE  PlayerInv'
<1>1. CASE PressPlayButton(l)
    BY <1>1, ButtonKeeps
<1>2. CASE Skip(l)
    <2>1. PICK name \in {"next", "prev"} : Start(l, Command(name))
        BY <1>2 DEF Skip
    <2>2. Command(name) \in PlayerRequest /\ Command(name).kind = name
        BY PlayerRequests
    <2>3. AimAt(TRUE) /\ UNCHANGED <<remote, active, trackVars>>
        BY <1>2 DEF Skip
    <2> QED
        BY <2>1, <2>2, <2>3, CommandSent
<1>3. CASE SetTrack(l)
    <2>1. PICK t \in 0 .. Songbook : Start(l, [kind |-> "set", track |-> t])
        BY <1>3 DEF SetTrack
    <2>2. [kind |-> "set", track |-> t] \in PlayerRequest /\ [kind |-> "set", track |-> t].kind = "set"
        BY PlayerRequests
    <2>3. AimAt(TRUE) /\ UNCHANGED <<remote, active, trackVars>>
        BY <1>3 DEF SetTrack
    <2> QED
        BY <2>1, <2>2, <2>3, CommandSent
<1>4. CASE PauseTrack(l)
    <2>1. Command("pause") \in PlayerRequest /\ Command("pause").kind = "pause"
        BY PlayerRequests
    <2>2. Start(l, Command("pause")) /\ AimAt(FALSE) /\ UNCHANGED <<remote, active, trackVars>>
        BY <1>4 DEF PauseTrack
    <2> QED
        BY <2>1, <2>2, CommandSent
<1> QED
    BY <1>1, <1>2, <1>3, <1>4 DEF Operate

\* A playlist is opened.
LEMMA ScanKeeps ==
    ASSUME PlayerInv, NEW l \in Lines, ScanPlaylistTracks(l)
    PROVE  PlayerInv'
<1>1. PICK p \in Playlists : Start(l, TracksOf(p)) /\ opened' = p
    BY DEF ScanPlaylistTracks, Opens
<1>2. /\ UNCHANGED <<remote, active, aims>> /\ tracks' = <<>> /\ keptTracks' = TRUE
      /\ awaited' = {line[m].playlist : m \in {n \in Lines : Unserved(n, {"tracks"})}}
    BY DEF ScanPlaylistTracks, Opens, aimVars
<1>3. TracksOf(p) \in PlayerRequest /\ TracksOf(p).kind = "tracks" /\ TracksOf(p).playlist = p
    BY PlayerRequests
<1>4. /\ ~ Acts(l) /\ line' \in [Lines -> PlayerRequest \cup {NoRequest}]
      /\ line'[l] = TracksOf(p) /\ \A m \in Lines \ {l} : line'[m] = line[m]
    BY <1>1, <1>3, StartKeeps DEF PlayerInv
<1>5. ~ Acts(l)'
    BY <1>3, <1>4 DEF Acts, Asks, Unserved
<1>6. AimsOfCommands'
    BY <1>2, <1>4, <1>5, LineGoesOn DEF PlayerInv
<1>7. AwaitedTracks'
    <2>1. \A m \in Lines \ {l} : Unserved(m, {"tracks"})' => line'[m].playlist \in awaited'
        BY <1>2, <1>4 DEF Unserved
    <2> QED
        BY <1>1, <1>2, <1>3, <1>4, <2>1 DEF AwaitedTracks, OfOpened
<1>8. PlayerTypeOK' /\ TracksOfOpened'
    BY <1>2, <1>4, EmptySeq DEF PlayerInv, PlayerTypeOK, TracksOfOpened
<1> QED
    BY <1>6, <1>7, <1>8 DEF PlayerInv

\* Spotify answers a question, and does or refuses what a command says.
LEMMA ServeKeeps ==
    ASSUME PlayerInv, NEW l \in Lines, Serve(l)
    PROVE  PlayerInv'
<1>1. PlayerTypeOK /\ AimsOfCommands /\ AwaitedTracks /\ TracksOfOpened
    BY DEF PlayerInv
<1>2. /\ UNCHANGED <<opened, tracks, shownTracks, keptTracks, awaited, active, aims>>
      /\ line[l] # NoRequest
    BY DEF Serve, ServeQuestion, ServeCommand, RefuseCommand, Unserved, trackVars, aimVars
<1>3. line[l] \in PlayerRequest /\ remote \in State
    BY <1>1, <1>2 DEF PlayerTypeOK
<1>4. Reported \in State \cup {Nothing} /\ (~ active => Reported = Nothing)
    BY <1>3 DEF Reported
<1>5. PICK r \in PlayerRequest \cup {NoRequest} :
         /\ Send(l, r) /\ remote' \in State
         /\ \/ /\ line[l].kind = "current" /\ r # NoRequest /\ r.kind = "currentIs"
               /\ remote' = remote
            \/ /\ line[l].kind = "toggle" /\ r # NoRequest /\ r.kind = "toggleIs"
               /\ r.state = Reported /\ remote' = remote
            \/ active /\ line[l].kind = "pause" /\ r = NoRequest /\ remote'.playing = FALSE
            \/ active /\ line[l].kind = "play" /\ r = NoRequest /\ remote'.playing = TRUE
            \/ /\ active /\ line[l].kind \in {"set", "next", "prev"} /\ r # NoRequest
               /\ r.kind = "done" /\ remote'.playing = TRUE
            \/ ~ active /\ r = NoRequest /\ remote' = remote
    <2>1. CASE ServeQuestion(l)
        <3>1. CASE Unserved(l, {"current"}) /\ Send(l, StateIs("currentIs", Reported))
            BY <1>3, <1>4, <2>1, <3>1, PlayerRequests DEF ServeQuestion, Unserved
        <3>2. CASE Unserved(l, {"toggle"}) /\ Send(l, StateIs("toggleIs", Reported))
            BY <1>3, <1>4, <2>1, <3>2, PlayerRequests DEF ServeQuestion, Unserved
        <3> QED
            BY <2>1, <3>1, <3>2 DEF ServeQuestion
    <2>2. CASE ServeCommand(l)
        <3>1. \A b \in BOOLEAN : [remote EXCEPT !.playing = b] \in State
                                 /\ [remote EXCEPT !.playing = b].playing = b
            BY <1>3 DEF State
        <3>2. \A t \in 0 .. Songbook : Next1(t) \in 0 .. Songbook /\ Prev1(t) \in 0 .. Songbook
            BY SpotifyPlayerAssumption DEF Next1, Prev1
        <3>3. \A t \in 0 .. Songbook : [playing |-> TRUE, track |-> t] \in State
                                       /\ [playing |-> TRUE, track |-> t].playing = TRUE
            BY DEF State
        <3>4. remote.track \in 0 .. Songbook
            BY <1>3 DEF State
        <3>5. Command("done") \in PlayerRequest /\ Command("done").kind = "done"
              /\ NoRequest \notin PlayerRequest /\ active
            BY <2>2, PlayerRequests DEF ServeCommand
        <3>6. CASE Unserved(l, {"pause"}) /\ remote' = [remote EXCEPT !.playing = FALSE]
                   /\ Send(l, NoRequest)
            BY <3>1, <3>5, <3>6 DEF Unserved
        <3>7. CASE Unserved(l, {"play"}) /\ remote' = [remote EXCEPT !.playing = TRUE]
                   /\ Send(l, NoRequest)
            BY <3>1, <3>5, <3>7 DEF Unserved
        <3>8. CASE Unserved(l, {"set"}) /\ remote' = [playing |-> TRUE, track |-> line[l].track]
                   /\ Send(l, Command("done"))
            <4>1. line[l].kind = "set"
                BY <3>8 DEF Unserved
            <4>2. line[l].track \in 0 .. Songbook
                BY <1>3, <4>1, FieldsOfLines
            <4> QED
                BY <3>3, <3>5, <3>8, <4>1, <4>2
        <3>9. CASE /\ Unserved(l, {"next", "prev"}) /\ Send(l, Command("done"))
                   /\ remote' = [playing |-> TRUE,
                                 track |-> IF line[l].kind = "next" THEN Next1(remote.track)
                                           ELSE Prev1(remote.track)]
            <4>1. line[l].kind \in {"next", "prev"}
                BY <3>9 DEF Unserved
            <4>2. PICK t \in 0 .. Songbook : remote' = [playing |-> TRUE, track |-> t]
                BY <3>2, <3>4, <3>9
            <4> QED
                BY <3>3, <3>5, <3>9, <4>1, <4>2
        <3> QED
            BY <2>2, <3>6, <3>7, <3>8, <3>9 DEF ServeCommand
    <2>3. CASE RefuseCommand(l)
        BY <1>3, <2>3 DEF RefuseCommand
    <2> QED
        BY <2>1, <2>2, <2>3 DEF Serve
<1>6. /\ line' \in [Lines -> PlayerRequest \cup {NoRequest}]
      /\ line'[l] = r /\ \A m \in Lines \ {l} : line'[m] = line[m]
    BY <1>1, <1>5, Sent
<1>7. \/ Either
      \/ ~ Acts(l)' /\ \/ remote' = remote /\ (active => ~ Acts(l))
                       \/ active /\ remote'.playing \in aims
    <2>1. CASE /\ line[l].kind = "current" /\ r # NoRequest /\ r.kind = "currentIs"
               /\ remote' = remote
        BY <1>6, <2>1 DEF Acts, Asks, Unserved
    <2>2. CASE /\ line[l].kind = "toggle" /\ r # NoRequest /\ r.kind = "toggleIs"
               /\ r.state = Reported /\ remote' = remote
        <3>1. active => Either
            BY <1>1, <1>2, <2>2 DEF AimsOfCommands, Unserved
        <3>2. ~ active => ~ Acts(l)'
            BY <1>4, <1>6, <2>2 DEF Acts, Asks, Unserved
        <3> QED
            BY <2>2, <3>1, <3>2
    <2>3. CASE \/ active /\ line[l].kind = "pause" /\ r = NoRequest /\ remote'.playing = FALSE
               \/ active /\ line[l].kind = "play" /\ r = NoRequest /\ remote'.playing = TRUE
               \/ /\ active /\ line[l].kind \in {"set", "next", "prev"} /\ r # NoRequest
                  /\ r.kind = "done" /\ remote'.playing = TRUE
        <3>1. ~ Acts(l)'
            BY <1>6, <2>3 DEF Acts, Asks, Unserved
        <3>2. Either \/ remote'.playing \in aims
            BY <1>1, <1>2, <2>3 DEF AimsOfCommands, Unserved
        <3> QED
            BY <2>3, <3>1, <3>2
    <2>4. CASE ~ active /\ r = NoRequest /\ remote' = remote
        BY <1>6, <2>4 DEF Acts, Asks, Unserved
    <2> QED
        BY <1>5, <2>1, <2>2, <2>3, <2>4
<1>8. AimsOfCommands'
    BY <1>1, <1>2, <1>6, <1>7, LineGoesOn
<1>9. AwaitedTracks'
    <2>1. ~ Unserved(l, {"tracks"})'
        BY <1>5, <1>6, PlayerRequests DEF Unserved
    <2> QED
        BY <1>1, <1>2, <1>6, <2>1, TracksAwaited
<1> QED
    BY <1>1, <1>2, <1>5, <1>6, <1>8, <1>9 DEF PlayerInv, PlayerTypeOK, TracksOfOpened

\* The host takes an answer.
LEMMA ReplyKeeps ==
    ASSUME PlayerInv, NEW l \in Lines, Reply(l)
    PROVE  PlayerInv'
<1>1. PlayerTypeOK /\ AimsOfCommands /\ AwaitedTracks /\ TracksOfOpened
    BY DEF PlayerInv
<1>2. UNCHANGED <<remote, opened, active, aims, awaited>> /\ line[l] # NoRequest
    BY DEF Reply, CurrentReply, StatusReply, CommandReply, TracksReply, Unserved, trackVars, aimVars
<1>3. line[l] \in PlayerRequest /\ remote \in State
    BY <1>1, <1>2 DEF PlayerTypeOK
<1>4. PICK r \in PlayerRequest \cup {NoRequest} :
         /\ Send(l, r)
         /\ \/ line[l].kind \in {"currentIs", "tracks"} /\ r = NoRequest
            \/ line[l].kind = "toggleIs" /\ line[l].state = Nothing /\ r = NoRequest
            \/ /\ line[l].kind = "toggleIs" /\ line[l].state # Nothing
               /\ r # NoRequest /\ r.kind \in {"pause", "play"}
            \/ line[l].kind = "done" /\ r # NoRequest /\ r.kind = "current"
    BY PlayerRequests DEF Reply, CurrentReply, StatusReply, CommandReply, TracksReply, Unserved
<1>5. /\ line' \in [Lines -> PlayerRequest \cup {NoRequest}]
      /\ line'[l] = r /\ \A m \in Lines \ {l} : line'[m] = line[m]
    BY <1>1, <1>4, Sent
<1>6. Either \/ (~ Acts(l)' /\ ~ Acts(l))
    <2>1. CASE /\ line[l].kind = "toggleIs" /\ line[l].state # Nothing
        BY <1>1, <1>2, <2>1 DEF AimsOfCommands, Unserved
    <2>2. CASE ~ (line[l].kind = "toggleIs" /\ line[l].state # Nothing)
        BY <1>4, <1>5, <2>2 DEF Acts, Asks, Unserved
    <2> QED
        BY <2>1, <2>2
<1>7. AimsOfCommands'
    BY <1>1, <1>2, <1>5, <1>6, LineGoesOn
<1>8. /\ tracks' \in Seq(Playlists)
      /\ \A i \in DOMAIN tracks' : OfOpened(tracks'[i])
      /\ keptTracks' \/ \A i \in DOMAIN shownTracks' : OfOpened(shownTracks'[i])
    <2>1. CASE UNCHANGED <<tracks, shownTracks, keptTracks>>
        BY <1>1, <2>1 DEF PlayerTypeOK, AwaitedTracks, TracksOfOpened, OfOpened
    <2>2. CASE /\ Unserved(l, {"tracks"}) /\ shownTracks' = tracks'
               /\ tracks' = tracks \/ tracks' = Append(tracks, line[l].playlist)
        <3>1. PICK p \in Playlists : p = line[l].playlist /\ OfOpened(p)
            BY <1>1, <1>3, <2>2, FieldsOfLines DEF AwaitedTracks, Unserved
        <3>2. tracks \in Seq(Playlists) /\ Len(tracks) \in Nat /\ DOMAIN tracks = 1 .. Len(tracks)
            BY <1>1, LenProperties DEF PlayerTypeOK
        <3>3. /\ Append(tracks, p) \in Seq(Playlists)
              /\ DOMAIN Append(tracks, p) = 1 .. Len(tracks) + 1
              /\ \A i \in 1 .. Len(tracks) : Append(tracks, p)[i] = tracks[i]
              /\ Append(tracks, p)[Len(tracks) + 1] = p
            BY <3>2, AppendProperties, LenProperties
        <3>4. \A i \in 1 .. Len(tracks) + 1 : i \in 1 .. Len(tracks) \/ i = Len(tracks) + 1
            BY <3>2
        <3>5. \A i \in DOMAIN tracks : OfOpened(tracks[i])
            BY <1>1 DEF AwaitedTracks
        <3>6. \A i \in DOMAIN Append(tracks, p) : OfOpened(Append(tracks, p)[i])
            BY <3>1, <3>2, <3>3, <3>4, <3>5
        <3> QED
            BY <2>2, <3>1, <3>2, <3>3, <3>5, <3>6
    <2>3. \/ UNCHANGED <<tracks, shownTracks, keptTracks>>
          \/ /\ Unserved(l, {"tracks"}) /\ shownTracks' = tracks'
             /\ tracks' = tracks \/ tracks' = Append(tracks, line[l].playlist)
        BY DEF Reply, CurrentReply, StatusReply, CommandReply, TracksReply, trackVars
    <2> QED
        BY <2>1, <2>2, <2>3
<1>9. AwaitedTracks' /\ TracksOfOpened'
    <2>1. ~ Unserved(l, {"tracks"})'
        BY <1>4, <1>5, PlayerRequests DEF Unserved
    <2>2. \A m \in Lines : Unserved(m, {"tracks"})' => m # l /\ Unserved(m, {"tracks"})
        BY <1>5, <2>1, OtherLines
    <2> QED
        BY <1>1, <1>2, <1>5, <1>8, <2>2 DEF AwaitedTracks, TracksOfOpened, OfOpened
<1> QED
    BY <1>1, <1>2, <1>3, <1>5, <1>7, <1>8, <1>9 DEF PlayerInv, PlayerTypeOK

\* A request or an answer is lost.
LEMMA LineLostKeeps ==
    ASSUME PlayerInv, NEW l \in Lines, LineLost(l)
    PROVE  PlayerInv'
<1>1. PlayerTypeOK /\ AimsOfCommands /\ AwaitedTracks /\ TracksOfOpened
    BY DEF PlayerInv
<1>2. /\ Send(l, NoRequest) /\ line[l] # NoRequest
      /\ aims' = IF Acts(l) THEN aims \cup {remote.playing} ELSE aims
      /\ UNCHANGED <<remote, active, opened, tracks, shownTracks, keptTracks, awaited>>
    BY DEF LineLost, trackVars
<1>3. /\ line' \in [Lines -> PlayerRequest \cup {NoRequest}]
      /\ line'[l] = NoRequest /\ \A m \in Lines \ {l} : line'[m] = line[m]
    BY <1>1, <1>2, Sent
<1>4. ~ Unserved(l, {"tracks"})' /\ ~ Acts(l)' /\ \A kinds : ~ Unserved(l, kinds)'
    BY <1>3 DEF Unserved, Acts, Asks
<1>5. AwaitedTracks'
    BY <1>1, <1>2, <1>3, <1>4, TracksAwaited
<1>6. AimsOfCommands'
    <2>1. CASE ~ Acts(l)
        BY <1>1, <1>2, <1>3, <1>4, <2>1, LineGoesOn
    <2>2. CASE Acts(l) /\ Either
        BY <1>2, <2>2 DEF AimsOfCommands, Either
    <2>3. CASE Acts(l) /\ ~ Either
        <3>1. \A m \in Lines : \A kinds : Unserved(m, kinds)' => m # l /\ Unserved(m, kinds)
            BY <1>3, <1>4, OtherLines
        <3>2. \A m \in Lines : Unserved(m, {"toggleIs"})' => line'[m].state = Nothing
            BY <1>1, <1>3, <2>3, <3>1 DEF AimsOfCommands
        <3>3. remote'.playing \in aims' /\ \A b : b \in aims => b \in aims'
            BY <1>2, <2>3
        <3>4. active => \A m \in Lines :
                    /\ ~ Unserved(m, {"toggle"})'
                    /\ Unserved(m, {"pause"})' => FALSE \in aims'
                    /\ Unserved(m, {"play", "set", "next", "prev"})' => TRUE \in aims'
            BY <1>1, <2>3, <3>1, <3>3 DEF AimsOfCommands
        <3> QED
            BY <1>2, <3>2, <3>3, <3>4 DEF AimsOfCommands
    <2> QED
        BY <2>1, <2>2, <2>3
<1> QED
    BY <1>1, <1>2, <1>3, <1>5, <1>6 DEF PlayerInv, PlayerTypeOK, TracksOfOpened

\* The device goes or comes back.
LEMMA DeviceKeeps ==
    ASSUME PlayerInv, DeviceGoes \/ DeviceComes
    PROVE  PlayerInv'
<1>1. /\ PlayerTypeOK /\ AimsOfCommands /\ AwaitedTracks /\ TracksOfOpened
      /\ UNCHANGED <<line, opened, tracks, shownTracks, keptTracks, awaited>>
    BY DEF PlayerInv, DeviceGoes, DeviceComes, trackVars
<1>2. /\ Undisturbed' <=> Undisturbed
      /\ \A m \in Lines : \A kinds : Unserved(m, kinds)' <=> Unserved(m, kinds)
    BY <1>1 DEF Undisturbed, Acts, Asks, Unserved
<1>3. Undisturbed => \A m \in Lines : /\ Unserved(m, {"toggleIs"}) => line[m].state = Nothing
                                      /\ ~ Unserved(m, {"toggle"})
                                      /\ ~ Unserved(m, {"pause"})
                                      /\ ~ Unserved(m, {"play", "set", "next", "prev"})
    BY DEF Undisturbed, Acts, Asks, Unserved
<1>4. CASE DeviceGoes
    <2>1. /\ ~ active' /\ remote' = [remote EXCEPT !.playing = FALSE]
          /\ aims' = IF Undisturbed THEN {FALSE} ELSE aims \cup {FALSE}
        BY <1>4 DEF DeviceGoes
    <2>2. remote' \in State /\ remote'.playing = FALSE
        BY <1>1, <2>1 DEF PlayerTypeOK, State
    <2>3. AimsOfCommands'
        <3>1. CASE Either /\ ~ Undisturbed
            BY <2>1, <3>1 DEF Either, AimsOfCommands
        <3>2. CASE ~ Either \/ Undisturbed
            <4>1. \A m \in Lines : Unserved(m, {"toggleIs"})' => line'[m].state = Nothing
                BY <1>1, <1>2, <1>3, <3>2 DEF AimsOfCommands
            <4>2. FALSE \in aims'
                BY <2>1
            <4> QED
                BY <2>1, <2>2, <4>1, <4>2 DEF AimsOfCommands
        <3> QED
            BY <3>1, <3>2
    <2> QED
        BY <1>1, <1>2, <2>2, <2>3 DEF PlayerInv, PlayerTypeOK, AwaitedTracks, OfOpened, TracksOfOpened
<1>5. CASE DeviceComes
    <2>1. /\ ~ active /\ active' /\ aims' = IF Undisturbed THEN aims ELSE BOOLEAN
          /\ remote' = remote
        BY <1>5 DEF DeviceComes
    <2>2. AimsOfCommands'
        <3>1. CASE ~ Undisturbed
            BY <2>1, <3>1 DEF Either, AimsOfCommands
        <3>2. CASE Undisturbed
            <4>1. Either \/ remote.playing \in aims
                BY <1>1, <2>1 DEF AimsOfCommands
            <4> QED
                BY <1>1, <1>2, <1>3, <2>1, <3>2, <4>1 DEF AimsOfCommands, Either
        <3> QED
            BY <3>1, <3>2
    <2> QED
        BY <1>1, <1>2, <2>1, <2>2 DEF PlayerInv, PlayerTypeOK, AwaitedTracks, OfOpened, TracksOfOpened
<1> QED
    BY <1>4, <1>5

LEMMA PlayerInvNext == PlayerInv /\ [PlayerNext]_playerVars => PlayerInv'
<1> SUFFICES ASSUME PlayerInv, [PlayerNext]_playerVars PROVE PlayerInv'
    OBVIOUS
<1>0. PlayerTypeOK /\ AimsOfCommands /\ AwaitedTracks /\ TracksOfOpened
    BY DEF PlayerInv
<1>1. ASSUME NEW l \in Lines, GetCurrentTrack(l) PROVE PlayerInv'
    <2>1. PICK r \in PlayerRequest : r.kind = "current" /\ Start(l, r)
        BY <1>1, PlayerRequests DEF GetCurrentTrack
    <2>2. UNCHANGED <<remote, active, aims, opened, tracks, shownTracks, keptTracks, awaited>>
        BY <1>1 DEF GetCurrentTrack, trackVars, aimVars
    <2>3. /\ ~ Acts(l) /\ line' \in [Lines -> PlayerRequest \cup {NoRequest}]
          /\ line'[l] = r /\ \A m \in Lines \ {l} : line'[m] = line[m]
        BY <1>0, <2>1, StartKeeps
    <2>4. ~ Acts(l)' /\ ~ Unserved(l, {"tracks"})'
        BY <2>1, <2>3 DEF Acts, Asks, Unserved
    <2>5. AimsOfCommands' /\ AwaitedTracks'
        BY <1>0, <2>2, <2>3, <2>4, LineGoesOn, TracksAwaited
    <2> QED
        BY <1>0, <2>2, <2>3, <2>5 DEF PlayerInv, PlayerTypeOK, TracksOfOpened
<1>2. CASE SpotifyCodeComes
    <2>1. /\ UNCHANGED <<remote, active, aims, line, opened, shownTracks, keptTracks, awaited>>
          /\ tracks' = <<>>
        BY <1>2 DEF SpotifyCodeComes, aimVars
    <2>2. PlayerTypeOK' /\ AwaitedTracks' /\ TracksOfOpened'
        BY <1>0, <2>1, EmptySeq DEF PlayerTypeOK, AwaitedTracks, TracksOfOpened, OfOpened, Unserved
    <2>3. AimsOfCommands'
        BY <1>0, <2>1 DEF AimsOfCommands, Either, Undisturbed, Acts, Asks, Unserved
    <2> QED
        BY <2>2, <2>3 DEF PlayerInv
<1>3. CASE UNCHANGED playerVars
    <2>1. UNCHANGED <<remote, active, aims, line, opened, tracks, shownTracks, keptTracks, awaited>>
        BY <1>3 DEF playerVars
    <2>2. PlayerTypeOK' /\ AwaitedTracks' /\ TracksOfOpened'
        BY <1>0, <2>1 DEF PlayerTypeOK, AwaitedTracks, TracksOfOpened, OfOpened, Unserved
    <2>3. AimsOfCommands'
        BY <1>0, <2>1 DEF AimsOfCommands, Either, Undisturbed, Acts, Asks, Unserved
    <2> QED
        BY <2>2, <2>3 DEF PlayerInv
<1> QED
    BY <1>1, <1>2, <1>3, OperateKeeps, ScanKeeps, ServeKeeps, ReplyKeeps, LineLostKeeps, DeviceKeeps
    DEF PlayerNext

LEMMA PlayerInvHolds == PlayerSpec => []PlayerInv
<1>1. PlayerInit => PlayerInv
    BY PlayerInvInit
<1>2. PlayerInv /\ [PlayerNext]_playerVars => PlayerInv'
    BY PlayerInvNext
<1> QED
    BY <1>1, <1>2, PTL DEF PlayerSpec

\* Skips, a track chosen and an alarm's pause do what they say, whichever meet, for any
\* number of questions for the state under way at the same time, and when requests are
\* lost or the device goes and comes: only where the play button met a device, or the
\* device came back to a request, nothing is said.
THEOREM OperationsDoWhatTheySay == PlayerSpec => []OperationsTakeEffect
<1>1. PlayerInv => OperationsTakeEffect
    <2> SUFFICES ASSUME PlayerInv, Undisturbed
                 PROVE  remote.playing \in aims
        BY DEF OperationsTakeEffect
    <2>1. CASE Either
        <3>1. remote.playing \in BOOLEAN
            BY DEF PlayerInv, PlayerTypeOK, State
        <3> QED
            BY <2>1, <3>1 DEF Either
    <2>2. CASE ~ Either
        BY <2>2 DEF PlayerInv, AimsOfCommands
    <2> QED
        BY <2>1, <2>2
<1> QED
    BY <1>1, PlayerInvHolds, PTL

\* After the first answer the page shows no tracks of another playlist than the one
\* opened last, but for answers that were awaited when it was opened.
THEOREM OnlyTracksOfOpened == PlayerSpec => []TracksOfOpened
<1>1. PlayerInv => TracksOfOpened
    BY DEF PlayerInv
<1> QED
    BY <1>1, PlayerInvHolds, PTL

-----------------------------------------------------------------------------
(***************************************************************************)
(* The calendar's events.  As long as the saves of the two threads do not   *)
(* overlap, whoever writes the file has truncated it himself; and of the    *)
(* lists on their way to memory only the last one matters.                  *)
(***************************************************************************)

\* The lists are lists of events.
EventsTyped ==
    /\ events \in Seq(CalendarEvent) /\ eventsFile.list \in Seq(CalendarEvent)
    /\ netEvents \in Seq(CalendarEvent) /\ eventQueue \in Seq(Seq(CalendarEvent))
    /\ netStep \in {"receive", "save", "queue"}

\* Who is between truncation and writing finds the file empty, and is alone; a list that
\* was written and is not yet queued is the one of the file.
OneSaves ==
    ~ crossed =>
       /\ guiSaves => Alone /\ eventsFile = NoEvents
       /\ netStep = "save" => eventsFile = NoEvents
       /\ netStep = "queue" => EventIds(eventsFile.list) = EventIds(netEvents)

EventsInv == EventsTyped /\ OneSaves /\ EventsAreSaved

\* A list that is written from memory keeps its events, in their order.
LEMMA SameEvents ==
    ASSUME NEW list \in Seq(CalendarEvent)
    PROVE  EventsToJson(list) \in Seq(CalendarEvent) /\ EventIds(EventsToJson(list)) = EventIds(list)
<1> DEFINE json == EventsToJson(list)
<1>1. Len(list) \in Nat /\ DOMAIN list = 1 .. Len(list) /\ \A i \in DOMAIN list : list[i] \in CalendarEvent
    BY LenProperties, ElementOfSeq
<1>2. \A e \in CalendarEvent : /\ [e EXCEPT !.details = FALSE] \in CalendarEvent
                               /\ [e EXCEPT !.details = FALSE].id = e.id
    BY DEF CalendarEvent
<1>3. DOMAIN json = 1 .. Len(list) /\ \A i \in DOMAIN list : json[i] = [list[i] EXCEPT !.details = FALSE]
    BY <1>1 DEF EventsToJson
<1>4. json \in [1 .. Len(list) -> CalendarEvent]
    BY <1>1, <1>2 DEF EventsToJson
<1>5. json \in Seq(CalendarEvent)
    BY <1>1, <1>4, SeqDef
<1> HIDE DEF json
<1>6. EventIds(json) = EventIds(list)
    BY <1>1, <1>2, <1>3 DEF EventIds
<1> QED
    BY <1>5, <1>6 DEF json

\* Removing past events leaves events.
LEMMA KeptAreEvents ==
    ASSUME NEW list \in Seq(CalendarEvent), NEW t
    PROVE  KeepComing(list, t) \in Seq(CalendarEvent)
<1> DEFINE S == {i \in DOMAIN list : t <= list[i].stop}
<1> HIDE DEF S
<1>1. At(list, S) \in Seq(CalendarEvent)
    BY AtProperties
<1> QED
    BY <1>1 DEF KeepComing, S

\* What a thread writes over a file that nobody else has written is its list.
LEMMA WrittenAlone ==
    ASSUME NEW list, NEW file \in SavedEvents(list)
    PROVE  /\ file.list = list \/ file.list = <<>>
           /\ eventsFile = NoEvents => file.list = list
<1>1. file = HoldsEvents(list) \/ file = TornEvents
    BY DEF SavedEvents
<1>2. eventsFile = NoEvents => file = HoldsEvents(list)
    BY DEF SavedEvents
<1> QED
    BY <1>1, <1>2 DEF HoldsEvents, TornEvents

\* Who begins to save alone empties the file.
LEMMA SaveBegins ==
    ASSUME NEW list \in Seq(CalendarEvent), DeletePastEvents(list), netEvents' \in Seq(CalendarEvent),
           eventQueue' \in Seq(Seq(CalendarEvent)), netStep' \in {"receive", "save", "queue"},
           ~ crossed' => Alone'
    PROVE  EventsInv'
<1>1. /\ events' = KeepComing(list, now') /\ guiSaves' /\ eventsFile' = NoEvents
    BY DEF DeletePastEvents
<1>2. events' \in Seq(CalendarEvent)
    BY <1>1, KeptAreEvents
<1>3. eventsFile'.list = <<>> /\ <<>> \in Seq(CalendarEvent)
    BY <1>1, EmptySeq DEF NoEvents
<1>4. EventsTyped'
    BY <1>2, <1>3 DEF EventsTyped
<1>5. OneSaves'
    BY <1>1 DEF OneSaves, Alone, NoEvents
<1> QED
    BY <1>1, <1>4, <1>5 DEF EventsInv, EventsAreSaved

LEMMA EventsInvInit == EventsInit => EventsInv
<1> SUFFICES ASSUME EventsInit PROVE EventsInv
    OBVIOUS
<1>1. PICK list \in Calendars : events = KeepComing(list, now)
    BY DEF EventsInit
<1>2. events \in Seq(CalendarEvent)
    BY <1>1, KeptAreEvents, EventsAssumption
<1>3. /\ guiSaves /\ eventsFile = NoEvents /\ netStep = "receive" /\ netEvents = <<>> /\ eventQueue = <<>>
    BY DEF EventsInit
<1>4. eventsFile.list = <<>>
    BY <1>3 DEF NoEvents
<1>5. EventsTyped
    BY <1>2, <1>3, <1>4, EmptySeq DEF EventsTyped
<1> QED
    BY <1>3, <1>5 DEF EventsInv, OneSaves, Alone, EventsAreSaved

LEMMA EventsInvNext == EventsInv /\ [EventsNext]_eventVars => EventsInv'
<1> SUFFICES ASSUME EventsInv, [EventsNext]_eventVars PROVE EventsInv'
    OBVIOUS
<1>0. /\ events \in Seq(CalendarEvent) /\ eventsFile.list \in Seq(CalendarEvent)
      /\ netEvents \in Seq(CalendarEvent) /\ eventQueue \in Seq(Seq(CalendarEvent))
      /\ netStep \in {"receive", "save", "queue"}
    BY DEF EventsInv, EventsTyped
<1>1. ASSUME NEW list \in Calendars, ReceiveEvents(list)
      PROVE  EventsInv'
    <2>1. list \in Seq(CalendarEvent)
        BY EventsAssumption
    <2>2. /\ netStep' = "save" /\ netEvents' = list /\ eventsFile' = NoEvents /\ crossed' = guiSaves
          /\ UNCHANGED <<events, guiSaves, eventQueue>>
        BY <1>1 DEF ReceiveEvents
    <2>3. eventsFile'.list = <<>>
        BY <2>2 DEF NoEvents
    <2>4. EventsTyped'
        BY <1>0, <2>1, <2>2, <2>3, EmptySeq DEF EventsTyped
    <2>5. OneSaves'
        BY <2>2 DEF OneSaves, NoEvents
    <2> QED
        BY <2>2, <2>4, <2>5 DEF EventsInv, EventsAreSaved
<1>2. CASE WriteReceived
    <2>1. /\ netStep = "save" /\ netStep' = "queue" /\ eventsFile' \in SavedEvents(netEvents)
          /\ UNCHANGED <<events, guiSaves, netEvents, eventQueue, crossed>>
        BY <1>2 DEF WriteReceived
    <2>2. /\ eventsFile'.list = netEvents \/ eventsFile'.list = <<>>
          /\ eventsFile = NoEvents => eventsFile'.list = netEvents
        <3>1. \A file \in SavedEvents(netEvents) :
                 /\ file.list = netEvents \/ file.list = <<>>
                 /\ eventsFile = NoEvents => file.list = netEvents
            BY WrittenAlone
        <3> QED
            BY <2>1, <3>1
    <2>3. EventsTyped'
        BY <1>0, <2>1, <2>2, EmptySeq DEF EventsTyped
    <2>4. ~ crossed => ~ guiSaves /\ eventsFile = NoEvents
        BY <2>1 DEF EventsInv, OneSaves, Alone
    <2>5. OneSaves'
        BY <2>1, <2>2, <2>4 DEF OneSaves
    <2> QED
        BY <2>1, <2>3, <2>5 DEF EventsInv, EventsAreSaved
<1>3. CASE QueueReceived
    <2>1. /\ netStep = "queue" /\ eventQueue' = Append(eventQueue, netEvents)
          /\ netStep' = "receive" /\ netEvents' = <<>>
          /\ UNCHANGED <<events, eventsFile, guiSaves, crossed>>
        BY <1>3 DEF QueueReceived, fileVars
    <2>2. /\ eventQueue' \in Seq(Seq(CalendarEvent)) /\ Len(eventQueue) \in Nat
          /\ Len(eventQueue') = Len(eventQueue) + 1
          /\ Append(eventQueue, netEvents)[Len(eventQueue) + 1] = netEvents
        BY <1>0, <2>1, AppendProperties, LenProperties
    <2>3. eventQueue' # <<>> /\ Last(eventQueue') = netEvents
        BY SMTT(40), <2>1, <2>2, EmptySeq DEF Last
    <2>4. ~ crossed => ~ guiSaves /\ EventIds(eventsFile.list) = EventIds(netEvents)
        BY <2>1 DEF EventsInv, OneSaves, Alone
    <2>5. EventsTyped'
        BY <1>0, <2>1, <2>2, EmptySeq DEF EventsTyped
    <2>6. OneSaves'
        BY <2>1, <2>4 DEF OneSaves
    <2>7. EventsAreSaved'
        BY <2>1, <2>3, <2>4 DEF EventsAreSaved
    <2> QED
        BY <2>5, <2>6, <2>7 DEF EventsInv
<1>4. CASE SetEvents
    <2> DEFINE q == eventQueue
    <2>1. /\ ~ guiSaves /\ q # <<>> /\ events' = Head(q) /\ eventQueue' = Tail(q)
          /\ UNCHANGED <<eventsFile, guiSaves, netStep, netEvents, crossed>>
        BY <1>4 DEF SetEvents, fileVars, netEventVars
    <2>2. /\ Head(q) \in Seq(CalendarEvent) /\ Tail(q) \in Seq(Seq(CalendarEvent))
          /\ Len(q) \in Nat /\ Len(q) # 0 /\ Head(q) = q[1]
          /\ Len(Tail(q)) = Len(q) - 1 /\ \A i \in 1 .. Len(q) - 1 : Tail(q)[i] = q[i + 1]
        BY <1>0, <2>1, HeadTailProperties, LenProperties, EmptySeq
    <2>3. EventsTyped'
        BY <1>0, <2>1, <2>2 DEF EventsTyped
    <2>4. OneSaves'
        BY <2>1 DEF EventsInv, OneSaves
    <2>5. CASE Tail(q) = <<>>
        <3>1. Len(q) = 1
            <4>1. Len(Tail(q)) = 0
                BY <2>5, EmptySeq
            <4>2. Len(q) \in Nat /\ Len(Tail(q)) = Len(q) - 1
                BY <2>2
            <4> HIDE DEF q
            <4> QED
                BY <4>1, <4>2
        <3>2. Last(q) = Head(q)
            BY <2>2, <3>1 DEF Last
        <3>3. EventsAreSaved'
            BY <2>1, <2>5, <3>2 DEF EventsInv, EventsAreSaved
        <3> QED
            BY <2>3, <2>4, <3>3 DEF EventsInv
    <2>6. CASE Tail(q) # <<>>
        <3>1. Len(q) - 1 \in 1 .. Len(q) - 1
            BY <2>2, <2>6, EmptySeq
        <3>2. Last(Tail(q)) = Last(q)
            BY <2>2, <3>1 DEF Last
        <3>3. EventsAreSaved'
            BY <2>1, <2>6, <3>2 DEF EventsInv, EventsAreSaved
        <3> QED
            BY <2>3, <2>4, <3>3 DEF EventsInv
    <2> QED
        BY <2>5, <2>6
<1>5. CASE MinutePasses
    <2>1. /\ DeletePastEvents(events) /\ crossed' = ~ Alone
          /\ UNCHANGED <<netStep, netEvents, eventQueue>>
        BY <1>5 DEF MinutePasses, netEventVars
    <2>2. ~ crossed' => Alone'
        BY <2>1 DEF Alone
    <2> QED
        BY <1>0, <2>1, <2>2, SaveBegins
<1>6. CASE WriteEvents
    <2>1. /\ guiSaves /\ guiSaves' = FALSE /\ eventsFile' \in SavedEvents(EventsToJson(events))
          /\ UNCHANGED <<events, netStep, netEvents, eventQueue, crossed>>
        BY <1>6 DEF WriteEvents, netEventVars
    <2> DEFINE json == EventsToJson(events)
    <2>2. json \in Seq(CalendarEvent) /\ EventIds(json) = EventIds(events)
        BY <1>0, SameEvents
    <2>3. /\ eventsFile'.list = json \/ eventsFile'.list = <<>>
          /\ eventsFile = NoEvents => eventsFile'.list = json
        <3>1. \A file \in SavedEvents(json) :
                 /\ file.list = json \/ file.list = <<>>
                 /\ eventsFile = NoEvents => file.list = json
            BY WrittenAlone
        <3> QED
            BY <2>1, <3>1
    <2> HIDE DEF json
    <2>4. EventsTyped'
        BY <1>0, <2>1, <2>2, <2>3, EmptySeq DEF EventsTyped
    <2>5. ~ crossed => netStep = "receive" /\ eventQueue = <<>> /\ eventsFile = NoEvents
        BY <2>1 DEF EventsInv, OneSaves, Alone
    <2>6. OneSaves'
        BY <2>1, <2>5 DEF OneSaves
    <2>7. EventsAreSaved'
        BY <2>1, <2>2, <2>3, <2>5 DEF EventsAreSaved
    <2> QED
        BY <2>4, <2>6, <2>7 DEF EventsInv
<1>7. ASSUME NEW t \in 0 .. LastMinute, ClockIsSet(t)
      PROVE  EventsInv'
    <2>1. UNCHANGED <<events, eventsFile, guiSaves, netStep, netEvents, eventQueue, crossed>>
        BY <1>7 DEF ClockIsSet, fileVars, netEventVars
    <2> QED
        BY <2>1 DEF EventsInv, EventsTyped, OneSaves, Alone, EventsAreSaved
<1>8. CASE EventsRestart
    <2>1. /\ DeletePastEvents(eventsFile.list)
          /\ netStep' = "receive" /\ netEvents' = <<>> /\ eventQueue' = <<>> /\ crossed' = FALSE
        BY <1>8 DEF EventsRestart
    <2>2. eventQueue' \in Seq(Seq(CalendarEvent)) /\ netEvents' \in Seq(CalendarEvent) /\ Alone'
        BY <2>1, EmptySeq DEF Alone
    <2> QED
        BY <1>0, <2>1, <2>2, SaveBegins
<1>9. CASE UNCHANGED eventVars
    BY <1>9 DEF eventVars, fileVars, netEventVars, EventsInv, EventsTyped, OneSaves, Alone, EventsAreSaved
<1> QED
    BY <1>1, <1>2, <1>3, <1>4, <1>5, <1>6, <1>7, <1>8, <1>9 DEF EventsNext

LEMMA EventsInvHolds == EventsSpec => []EventsInv
<1>1. EventsInit => EventsInv
    BY EventsInvInit
<1>2. EventsInv /\ [EventsNext]_eventVars => EventsInv'
    BY EventsInvNext
<1> QED
    BY <1>1, <1>2, PTL DEF EventsSpec

\* While no thread saves, the file holds the events that memory holds or will hold when
\* the queued lists are set, through power failures at any step of a save, unless the
\* saves of the two threads overlapped or an old list was saved over one on its way to
\* memory: for any calendars, lists, minutes and settings of the clock.
THEOREM FileHoldsEvents == EventsSpec => []EventsAreSaved
<1>1. EventsInv => EventsAreSaved
    BY DEF EventsInv
<1> QED
    BY <1>1, EventsInvHolds, PTL

\* The early end of the search loses no event of the day: a list in order of time shows
\* on each day all of its events, and a day is marked exactly when it shows one.
THEOREM DaysAreComplete == EventsSpec => []DaysShowTheirEvents
<1>1. ASSUME EventsInv, StartsInOrder(events), NEW d \in 0 .. LastMinute
      PROVE  /\ ToSet(EventsOnDay(events, d))
                   = {e \in ToSet(events) : d <= e.start /\ e.start <= d + DayLength}
             /\ CheckEventOnDay(events, d) <=> EventsOnDay(events, d) # <<>>
    <2> DEFINE last == d + DayLength
               S == {i \in DOMAIN events : /\ d <= events[i].start
                                           /\ \A j \in 1 .. i : events[j].start <= last}
               dayShows == EventsOnDay(events, d)
    <2>1. /\ events \in Seq(CalendarEvent) /\ Len(events) \in Nat /\ DOMAIN events = 1 .. Len(events)
          /\ last \in Int
          /\ \A i \in DOMAIN events : events[i].start \in Int
        <3>1. events \in Seq(CalendarEvent)
            BY <1>1 DEF EventsInv, EventsTyped
        <3>2. Len(events) \in Nat /\ DOMAIN events = 1 .. Len(events)
            BY <3>1, LenProperties
        <3>3. \A i \in DOMAIN events : events[i] \in CalendarEvent
            BY <3>1, <3>2, ElementOfSeq
        <3>4. \A e \in CalendarEvent : e.start \in Int
            BY DEF CalendarEvent
        <3>5. last \in Int
            BY EventsAssumption
        <3> QED
            BY <3>1, <3>2, <3>3, <3>4, <3>5
    <2>2. \A i \in DOMAIN events : i \in S <=> d <= events[i].start /\ events[i].start <= last
        <3>1. ASSUME NEW i \in DOMAIN events, events[i].start <= last, NEW j \in 1 .. i
              PROVE  events[j].start <= last
            <4>1. j \in DOMAIN events /\ (j < i \/ j = i)
                BY <2>1
            <4>2. events[j].start <= events[i].start
                BY <1>1, <2>1, <4>1 DEF StartsInOrder
            <4> HIDE DEF last
            <4> QED
                BY <2>1, <3>1, <4>1, <4>2
        <3>2. \A i \in DOMAIN events : i \in 1 .. i
            BY <2>1
        <3> QED
            BY <3>1, <3>2
    <2>3. dayShows = At(events, S)
        BY DEF EventsOnDay
    <2> HIDE DEF S, last, dayShows
    <2>4. dayShows \in Seq(CalendarEvent) /\ \A x : x \in ToSet(dayShows) <=> \E i \in DOMAIN events : i \in S /\ x = events[i]
        BY <2>1, <2>3, AtProperties
    <2>5. \A x : x \in ToSet(events) <=> \E i \in DOMAIN events : x = events[i]
        BY DEF ToSet
    <2>6. ToSet(dayShows) = {e \in ToSet(events) : d <= e.start /\ e.start <= last}
        BY <2>2, <2>4, <2>5
    <2>7. dayShows # <<>> <=> \E x : x \in ToSet(dayShows)
        <3>1. Len(dayShows) \in Nat /\ DOMAIN dayShows = 1 .. Len(dayShows) /\ (dayShows = <<>> <=> Len(dayShows) = 0)
            BY <2>4, LenProperties, EmptySeq
        <3>2. Len(dayShows) # 0 <=> \E i : i \in DOMAIN dayShows
            BY <3>1
        <3> QED
            BY <3>1, <3>2 DEF ToSet
    <2>8. CheckEventOnDay(events, d) <=> \E i \in DOMAIN events : i \in S
        BY <2>2 DEF CheckEventOnDay, last
    <2> QED
        BY <2>4, <2>6, <2>7, <2>8 DEF dayShows, last
<1>2. EventsInv => DaysShowTheirEvents
    BY <1>1 DEF DaysShowTheirEvents
<1> QED
    BY <1>2, EventsInvHolds, PTL

-----------------------------------------------------------------------------
(***************************************************************************)
(* The reminders.  Those of an event with one beginning are counted: each   *)
(* start of the program adds one, each evening of the window before it too; *)
(* and a clock set back lets the evenings come again.                       *)
(***************************************************************************)

\* No id comes twice in a list.
Fit(list) ==
    /\ list \in Seq(CalendarEvent)
    /\ \A i, j \in DOMAIN list : list[i].id = list[j].id => i = j

\* All lists are what is left of those of the phone.
ListsFit ==
    /\ Fit(events) /\ Fit(eventsFile.list) /\ Fit(netEvents)
    /\ \A i \in DOMAIN eventQueue : Fit(eventQueue[i])

Reminder == [event : Int, start : Nat, minute : Int]

\* The reminders of an event with one beginning.
PlacesOf(list, e, s) == {i \in DOMAIN list : list[i].event = e /\ list[i].start = s}
CountOf(list, e, s)  == Cardinality(PlacesOf(list, e, s))

\* The evenings up to a minute, and those of the window before a beginning that have been
\* by then, none of them late.
Evenings(t)    == (t + 1) \div DayLength
EveningsOf(s, t) ==
    IF t > s THEN ReminderDays
    ELSE IF ReminderDays + Evenings(t) <= Evenings(s) THEN 0
    ELSE ReminderDays + Evenings(t) - Evenings(s)

\* What the starts of the program and the clock allow.
Most == starts + (ReminderDays + 1) * setbacks

\* Before the window opens nothing is made: one more may come at its first minute.
CountsFit(list, t, most) ==
    \A e \in Int, s \in Nat :
       /\ CountOf(list, e, s) <= most + EveningsOf(s, t)
       /\ t + ReminderDays * DayLength < s => CountOf(list, e, s) <= most - 1

RemindersInv ==
    /\ now \in Nat /\ starts \in Nat /\ setbacks \in Nat
    /\ ListsFit
    /\ reminders \in Seq(Reminder)
    /\ CountsFit(reminders, now, Most)

\* Quotients follow their dividends.
LEMMA QuotientGrows ==
    ASSUME NEW a \in Nat, NEW b \in Nat, NEW d \in Nat \ {0}, a <= b
    PROVE  a \div d <= b \div d
<1> DEFINE p == a \div d
           q == b \div d
<1>1. /\ p \in Nat /\ a % d \in 0 .. d - 1 /\ a = p * d + (a % d)
      /\ q \in Nat /\ b % d \in 0 .. d - 1 /\ b = q * d + (b % d)
    BY Division
<1> HIDE DEF p, q
<1>2. ASSUME p > q
      PROVE  FALSE
    <2>1. p - q - 1 \in Nat
        BY <1>1, <1>2
    <2>2. (p - q - 1) * d >= 0
        BY <2>1
    <2>3. p * d >= q * d + d
        BY <1>1, <2>1, <2>2
    <2> QED
        BY <1>1, <2>3
<1>3. p <= q
    BY <1>1, <1>2
<1> QED
    BY <1>3 DEF p, q

LEMMA QuotientOfSum ==
    ASSUME NEW a \in Nat, NEW n \in Nat, NEW d \in Nat \ {0}
    PROVE  (a + n * d) \div d = a \div d + n
<1> DEFINE p == a \div d
           r == a % d
<1>1. p \in Nat /\ r \in 0 .. d - 1 /\ a = p * d + r
    BY Division
<1> HIDE DEF p, r
<1> DEFINE b == a + n * d
           q == p + n
<1>2. b \in Nat /\ q \in Nat /\ b = q * d + r
    BY <1>1
<1> HIDE DEF b, q
<1>3. b \div d = q
    BY <1>1, <1>2, DivisionIsUnique
<1> QED
    BY <1>3 DEF b, q, p

\* What an evening and the minutes between them do to their number.
LEMMA EveningsPass ==
    ASSUME NEW t \in Nat
    PROVE  /\ Evenings(t) \in Nat
           /\ Evenings(t + 1) = IF (t + 1) % DayLength = DayLength - 1 THEN Evenings(t) + 1 ELSE Evenings(t)
           /\ Evenings(t + ReminderDays * DayLength) = Evenings(t) + ReminderDays
           /\ \A u \in Nat : t <= u => Evenings(t) <= Evenings(u)
<1>0. DayLength \in Nat \ {0} /\ ReminderDays \in Nat
    BY EventsAssumption
<1> DEFINE a == t + 1
           q == a \div DayLength
           r == a % DayLength
<1>1. a \in Nat /\ q \in Nat /\ r \in 0 .. DayLength - 1 /\ a = q * DayLength + r
    <2>1. a \in Nat
        OBVIOUS
    <2> HIDE DEF a
    <2> QED
        BY <1>0, <2>1, Division
<1> HIDE DEF q, r
<1>2. ASSUME r = DayLength - 1
      PROVE  (a + 1) \div DayLength = q + 1
    <2> DEFINE b == a + 1
               p == q + 1
    <2>1. b \in Nat /\ p \in Nat /\ 0 \in 0 .. DayLength - 1 /\ b = p * DayLength + 0
        BY <1>0, <1>1, <1>2
    <2> HIDE DEF b, p
    <2>2. b \div DayLength = p
        BY <1>0, <2>1, DivisionIsUnique
    <2> QED
        BY <2>2 DEF b, p
<1>3. ASSUME r # DayLength - 1
      PROVE  (a + 1) \div DayLength = q
    <2> DEFINE b == a + 1
               v == r + 1
    <2>1. b \in Nat /\ v \in 0 .. DayLength - 1 /\ b = q * DayLength + v
        BY <1>0, <1>1, <1>3
    <2> HIDE DEF b, v
    <2>2. b \div DayLength = q
        BY <1>0, <1>1, <2>1, DivisionIsUnique
    <2> QED
        BY <2>2 DEF b
<1>4. Evenings(t + 1) = IF (t + 1) % DayLength = DayLength - 1 THEN Evenings(t) + 1 ELSE Evenings(t)
    <2>1. Evenings(t + 1) = (a + 1) \div DayLength /\ Evenings(t) = q
        BY DEF Evenings, q
    <2>2. Evenings(t + 1) = IF r = DayLength - 1 THEN q + 1 ELSE q
        BY <1>2, <1>3, <2>1
    <2> QED
        BY <2>1, <2>2 DEF r
<1>5. Evenings(t + ReminderDays * DayLength) = Evenings(t) + ReminderDays
    <2>1. (a + ReminderDays * DayLength) \div DayLength = a \div DayLength + ReminderDays
        <3>1. a \in Nat
            BY <1>1
        <3> HIDE DEF a
        <3> QED
            BY <1>0, <3>1, QuotientOfSum
    <2> DEFINE w == ReminderDays * DayLength
    <2>2. w \in Nat
        BY <1>0
    <2> HIDE DEF w
    <2>3. t + w + 1 = a + w
        BY <2>2
    <2> QED
        BY <2>1, <2>3 DEF Evenings, w
<1>6. ASSUME NEW u \in Nat, t <= u
      PROVE  Evenings(t) <= Evenings(u)
    <2> DEFINE b == u + 1
    <2>1. a \in Nat /\ b \in Nat /\ a <= b
        BY <1>6
    <2> HIDE DEF a, b
    <2>2. a \div DayLength <= b \div DayLength
        BY <1>0, <2>1, QuotientGrows
    <2> QED
        BY <2>2 DEF a, b, Evenings
<1>7. Evenings(t) \in Nat
    BY <1>1 DEF q, Evenings
<1> QED
    BY <1>4, <1>5, <1>6, <1>7

\* No more evenings than days of the window, and never fewer as time passes.
LEMMA EveningsGrow ==
    ASSUME NEW s \in Nat, NEW t \in Nat, NEW u \in Nat, t <= u
    PROVE  /\ EveningsOf(s, t) \in 0 .. ReminderDays
           /\ EveningsOf(s, t) <= EveningsOf(s, u)
<1>1. /\ Evenings(s) \in Nat /\ Evenings(t) \in Nat /\ Evenings(u) \in Nat
      /\ Evenings(t) <= Evenings(u)
      /\ t <= s => Evenings(t) <= Evenings(s)
      /\ u <= s => Evenings(u) <= Evenings(s)
      /\ ReminderDays \in Nat
    BY EveningsPass, EventsAssumption
<1> QED
    BY <1>1 DEF EveningsOf

LEMMA EveningsFew ==
    ASSUME NEW s \in Nat, NEW t \in Nat
    PROVE  EveningsOf(s, t) \in 0 .. ReminderDays
<1>1. t <= t
    OBVIOUS
<1> QED
    BY <1>1, EveningsGrow

\* An evening of the window, but for its first minute, is one more.
LEMMA EveningOfWindow ==
    ASSUME NEW s \in Nat, NEW t \in Nat, (t + 1) % DayLength = DayLength - 1,
           t + 1 <= s, s <= t + ReminderDays * DayLength
    PROVE  EveningsOf(s, t) + 1 <= EveningsOf(s, t + 1)
<1> DEFINE w == ReminderDays * DayLength
           next == t + 1
<1>1. w \in Nat /\ ReminderDays \in Nat
    BY EventsAssumption
<1>2. t + w \in Nat /\ s <= t + w
    BY <1>1
<1>3. Evenings(s) <= Evenings(t + w)
    BY <1>2, EveningsPass
<1>4. Evenings(t + w) = Evenings(t) + ReminderDays
    BY EveningsPass
<1>5. Evenings(next) = Evenings(t) + 1 /\ Evenings(t) \in Nat /\ Evenings(s) \in Nat /\ next \in Nat
    BY EveningsPass
<1> HIDE DEF w
<1>6. EveningsOf(s, next) = ReminderDays + Evenings(next) - Evenings(s)
    <2>1. ~ next > s
        BY <1>5
    <2>2. ~ ReminderDays + Evenings(next) <= Evenings(s)
        BY <1>1, <1>3, <1>4, <1>5
    <2> QED
        BY <2>1, <2>2 DEF EveningsOf
<1>7. \/ EveningsOf(s, t) = 0
      \/ EveningsOf(s, t) = ReminderDays + Evenings(t) - Evenings(s)
    BY DEF EveningsOf
<1> HIDE DEF next
<1>8. EveningsOf(s, t) + 1 <= EveningsOf(s, next)
    BY <1>1, <1>3, <1>4, <1>5, <1>6, <1>7
<1> QED
    BY <1>8 DEF next

\* What a loop leaves of such a list, and its copy in the file, are such lists.
LEMMA KeptFit ==
    ASSUME NEW list, Fit(list), NEW S
    PROVE  Fit(At(list, S))
<1> DEFINE kept == At(list, S)
<1>1. list \in Seq(CalendarEvent)
    BY DEF Fit
<1>2. \A i, j \in DOMAIN list : i \in S /\ j \in S /\ list[i] = list[j] => i = j
    BY DEF Fit
<1>3. /\ kept \in Seq(CalendarEvent) /\ IsInjective(kept)
      /\ \A x : x \in ToSet(kept) <=> \E i \in DOMAIN list : i \in S /\ x = list[i]
    BY <1>1, <1>2, AtProperties
<1> HIDE DEF kept
<1>4. ASSUME NEW i \in DOMAIN kept, NEW j \in DOMAIN kept, kept[i].id = kept[j].id
      PROVE  i = j
    <2>1. kept[i] \in ToSet(kept) /\ kept[j] \in ToSet(kept)
        BY DEF ToSet
    <2>2. PICK m \in DOMAIN list, n \in DOMAIN list : kept[i] = list[m] /\ kept[j] = list[n]
        BY <1>3, <2>1
    <2>3. m = n
        BY <1>4, <2>2 DEF Fit
    <2> QED
        BY <1>3, <2>2, <2>3 DEF IsInjective
<1> QED
    BY <1>3, <1>4 DEF Fit, kept

LEMMA SavedFit ==
    ASSUME NEW list, Fit(list)
    PROVE  Fit(EventsToJson(list))
<1> DEFINE json == EventsToJson(list)
<1>1. json \in Seq(CalendarEvent) /\ EventIds(json) = EventIds(list) /\ DOMAIN json = DOMAIN list
    BY SameEvents DEF Fit, EventsToJson
<1> HIDE DEF json
<1>2. \A i \in DOMAIN list : EventIds(json)[i] = json[i].id /\ EventIds(list)[i] = list[i].id
    BY <1>1 DEF EventIds
<1> QED
    BY <1>1, <1>2 DEF Fit, json

LEMMA EmptyFit == Fit(<<>>)
    BY EmptySeq DEF Fit

\* The alarms made at once are those of different events, which begin in the window.
LEMMA AlarmsMade ==
    ASSUME NEW list, Fit(list), NEW t \in Nat
    PROVE  LET made == FromEventsToAlarms(list, t)
           IN  /\ made \in Seq(Reminder)
               /\ \A i, j \in DOMAIN made : made[i].event = made[j].event => i = j
               /\ \A i \in DOMAIN made :
                     t <= made[i].start /\ made[i].start <= t + ReminderDays * DayLength
<1> DEFINE coming == Coming(list, t)
           made == FromEventsToAlarms(list, t)
           S == {i \in DOMAIN list : /\ t <= list[i].start
                                     /\ list[i].start <= t + ReminderDays * DayLength}
<1>1. Fit(coming)
    BY KeptFit DEF Coming
<1>2. ASSUME NEW i \in DOMAIN coming
      PROVE  t <= coming[i].start /\ coming[i].start <= t + ReminderDays * DayLength
    <2>1. coming = At(list, S)
        BY DEF Coming
    <2>2. coming[i] \in ToSet(coming)
        BY DEF ToSet
    <2>3. list \in Seq(CalendarEvent)
        BY DEF Fit
    <2> HIDE DEF S, coming
    <2>4. \A x : x \in ToSet(At(list, S)) => \E k \in DOMAIN list : k \in S /\ x = list[k]
        BY <2>3, AtProperties
    <2>5. PICK k \in DOMAIN list : k \in S /\ coming[i] = list[k]
        BY <2>1, <2>2, <2>4
    <2> QED
        BY <2>5 DEF S
<1> HIDE DEF coming
<1>3. /\ Len(coming) \in Nat /\ DOMAIN coming = 1 .. Len(coming)
      /\ \A i \in DOMAIN coming : coming[i] \in CalendarEvent
    BY <1>1, LenProperties, ElementOfSeq DEF Fit
<1>4. made = [i \in 1 .. Len(coming) |->
                [event |-> coming[i].id, start |-> coming[i].start,
                 minute |-> (ReminderTime + i - 1) % DayLength]]
    BY <1>3 DEF FromEventsToAlarms, coming
<1> HIDE DEF made
<1>5. DayLength \in Nat /\ DayLength > 0 /\ ReminderTime \in 0 .. DayLength - 1
    BY EventsAssumption
<1>6. ASSUME NEW i \in 1 .. Len(coming)
      PROVE  made[i] \in Reminder
    <2>1. coming[i].id \in Int /\ coming[i].start \in Int
        BY <1>3 DEF CalendarEvent
    <2>2. coming[i].start \in Nat
        BY <1>2, <1>3, <2>1
    <2>3. (ReminderTime + i - 1) % DayLength \in Int
        BY <1>5
    <2> QED
        BY <1>4, <2>1, <2>2, <2>3 DEF Reminder
<1>7. made \in Seq(Reminder)
    BY <1>3, <1>4, <1>6, SeqDef
<1>8. ASSUME NEW i \in 1 .. Len(coming), NEW j \in 1 .. Len(coming), made[i].event = made[j].event
      PROVE  i = j
    BY <1>1, <1>3, <1>4, <1>8 DEF Fit
<1>9. DOMAIN made = 1 .. Len(coming)
    BY <1>4
<1>10. \A i \in 1 .. Len(coming) : made[i].start = coming[i].start
    BY <1>4
<1> QED
    BY <1>2, <1>3, <1>7, <1>8, <1>9, <1>10 DEF made

\* Places of a list are finitely many.
LEMMA PlacesFinite ==
    ASSUME NEW list \in Seq(Reminder), NEW e, NEW s
    PROVE  IsFiniteSet(PlacesOf(list, e, s)) /\ CountOf(list, e, s) \in Nat
<1>1. DOMAIN list = 1 .. Len(list) /\ Len(list) \in Nat
    BY LenProperties
<1>2. PlacesOf(list, e, s) \in SUBSET (1 .. Len(list))
    BY <1>1 DEF PlacesOf
<1>3. IsFiniteSet(1 .. Len(list))
    BY <1>1, FS_Interval
<1> QED
    BY <1>2, <1>3, FS_Subset, FS_CardinalityType DEF CountOf

\* When one rings and goes, none has more.
LEMMA RungCounts ==
    ASSUME NEW list \in Seq(Reminder), NEW t, NEW rest \in Rung(list, t)
    PROVE  rest \in Seq(Reminder) /\ \A e, s : CountOf(rest, e, s) <= CountOf(list, e, s)
<1>1. CASE rest = list
    <2>1. \A e, s : CountOf(list, e, s) \in Nat
        BY PlacesFinite
    <2>2. \A e, s : CountOf(list, e, s) <= CountOf(list, e, s)
        BY <2>1
    <2> QED
        BY <1>1, <2>2
<1>2. ASSUME NEW k \in DOMAIN list, rest = RemoveAt(list, k)
      PROVE  rest \in Seq(Reminder) /\ \A e, s : CountOf(rest, e, s) <= CountOf(list, e, s)
    <2>1. Len(list) \in Nat /\ DOMAIN list = 1 .. Len(list)
        BY LenProperties
    <2>2. /\ rest \in Seq(Reminder) /\ Len(rest) = Len(list) - 1
          /\ \A j \in 1 .. Len(list) - 1 : rest[j] = IF j < k THEN list[j] ELSE list[j + 1]
        BY <1>2, <2>1, RemoveAtProperties
    <2>3. DOMAIN rest = 1 .. Len(list) - 1
        BY <2>2, LenProperties
    <2>4. ASSUME NEW e, NEW s
          PROVE  CountOf(rest, e, s) <= CountOf(list, e, s)
        <3> DEFINE S == PlacesOf(rest, e, s)
                   T == PlacesOf(list, e, s)
                   f == [i \in S |-> IF i < k THEN i ELSE i + 1]
        <3>1. \A i \in S : i \in 1 .. Len(list) - 1 /\ rest[i].event = e /\ rest[i].start = s
            BY <2>3 DEF PlacesOf
        <3>2. \A i \in S : (IF i < k THEN i ELSE i + 1) \in 1 .. Len(list)
            BY <2>1, <3>1
        <3>3. ASSUME NEW i \in S
              PROVE  (IF i < k THEN i ELSE i + 1) \in T
            BY <2>1, <2>2, <3>1, <3>2 DEF PlacesOf
        <3> HIDE DEF S, T
        <3>4. \A i, j \in S : f[i] = f[j] => i = j
            BY <2>1, <3>1
        <3>5. f \in Injection(S, T)
            BY <3>3, <3>4 DEF Injection, IsInjective
        <3>6. IsFiniteSet(T)
            BY PlacesFinite DEF T
        <3>7. Cardinality(S) <= Cardinality(T)
            BY <3>5, <3>6, FS_Injection
        <3> QED
            BY <3>7 DEF S, T, CountOf
    <2> QED
        BY <2>2, <2>4
<1> QED
    BY <1>1, <1>2 DEF Rung

\* Alarms made at once add one to the reminders of an event in the window.
LEMMA MadeCounts ==
    ASSUME NEW list \in Seq(Reminder), NEW made \in Seq(Reminder),
           \A i, j \in DOMAIN made : made[i].event = made[j].event => i = j
    PROVE  /\ list \o made \in Seq(Reminder)
           /\ \A e, s : /\ CountOf(list \o made, e, s) <= CountOf(list, e, s) + 1
                        /\ (\A i \in DOMAIN made : made[i].start # s)
                              => CountOf(list \o made, e, s) <= CountOf(list, e, s)
<1> DEFINE all == list \o made
           n == Len(list)
<1>1. /\ n \in Nat /\ DOMAIN list = 1 .. n /\ Len(made) \in Nat /\ DOMAIN made = 1 .. Len(made)
      /\ all \in Seq(Reminder) /\ DOMAIN all = 1 .. n + Len(made)
      /\ \A i \in 1 .. n + Len(made) : all[i] = IF i <= n THEN list[i] ELSE made[i - n]
    <2>1. /\ all \in Seq(Reminder) /\ Len(all) = n + Len(made)
          /\ \A i \in 1 .. n + Len(made) : all[i] = IF i <= n THEN list[i] ELSE made[i - n]
        BY ConcatProperties
    <2>2. DOMAIN all = 1 .. Len(all)
        BY <2>1, LenProperties
    <2> QED
        BY <2>1, <2>2, LenProperties
<1> HIDE DEF all, n
<1>2. ASSUME NEW e, NEW s
      PROVE  /\ CountOf(all, e, s) <= CountOf(list, e, s) + 1
             /\ (\A i \in DOMAIN made : made[i].start # s) => CountOf(all, e, s) <= CountOf(list, e, s)
    <2> DEFINE S == PlacesOf(all, e, s)
               T == PlacesOf(list, e, s)
    <2>1. IsFiniteSet(T) /\ Cardinality(T) \in Nat
        BY PlacesFinite DEF CountOf
    <2>2. \A i \in S : i \in 1 .. n + Len(made) /\ all[i].event = e /\ all[i].start = s
        BY <1>1 DEF PlacesOf
    <2>3. \A i \in S : i <= n => i \in T
        BY <1>1, <2>2 DEF PlacesOf
    <2>4. \A i \in S : ~ i <= n => /\ i - n \in DOMAIN made
                                   /\ made[i - n].event = e /\ made[i - n].start = s
        BY <1>1, <2>2
    <2> HIDE DEF S, T
    <2>5. CASE \A i \in S : i <= n
        <3>1. S \in SUBSET T
            BY <2>3, <2>5
        <3>2. Cardinality(S) <= Cardinality(T) /\ Cardinality(S) \in Nat
            BY <2>1, <3>1, FS_Subset, FS_CardinalityType
        <3> QED
            BY <2>1, <3>2 DEF S, T, CountOf
    <2>6. ASSUME NEW k \in S, ~ k <= n
          PROVE  /\ CountOf(all, e, s) <= CountOf(list, e, s) + 1
                 /\ ~ \A i \in DOMAIN made : made[i].start # s
        <3>1. \A i \in S : ~ i <= n => i = k
            <4>1. ASSUME NEW i \in S, ~ i <= n
                  PROVE  i = k
                <5>1. i - n = k - n
                    BY <2>4, <2>6, <4>1
                <5> QED
                    BY <1>1, <2>2, <5>1
            <4> QED
                BY <4>1
        <3>2. S \in SUBSET (T \cup {k})
            BY <2>3, <3>1
        <3>3. /\ IsFiniteSet(T \cup {k})
              /\ Cardinality(T \cup {k}) = IF k \in T THEN Cardinality(T) ELSE Cardinality(T) + 1
            BY <2>1, FS_AddElement
        <3>4. Cardinality(S) <= Cardinality(T \cup {k}) /\ Cardinality(S) \in Nat
            BY <3>2, <3>3, FS_Subset, FS_CardinalityType
        <3>5. Cardinality(S) <= Cardinality(T) + 1
            BY <2>1, <3>3, <3>4
        <3> QED
            BY <2>4, <2>6, <3>5 DEF S, T, CountOf
    <2> QED
        BY <2>5, <2>6
<1> QED
    BY <1>1, <1>2 DEF all

\* The counts when time goes on, when the clock is set back, when one rings,
LEMMA CountsLater ==
    ASSUME NEW list \in Seq(Reminder), NEW most \in Nat, NEW t \in Nat, NEW u \in Nat, t <= u,
           CountsFit(list, t, most)
    PROVE  CountsFit(list, u, most)
<1> DEFINE w == ReminderDays * DayLength
<1>0. w \in Nat /\ ReminderDays \in Nat
    BY EventsAssumption
<1> SUFFICES ASSUME NEW e \in Int, NEW s \in Nat
             PROVE  /\ CountOf(list, e, s) <= most + EveningsOf(s, u)
                    /\ u + w < s => CountOf(list, e, s) <= most - 1
    BY DEF CountsFit
<1>1. /\ CountOf(list, e, s) <= most + EveningsOf(s, t)
      /\ t + w < s => CountOf(list, e, s) <= most - 1
    BY DEF CountsFit
<1>2. CountOf(list, e, s) \in Nat
    BY PlacesFinite
<1>3. /\ EveningsOf(s, t) \in 0 .. ReminderDays /\ EveningsOf(s, u) \in 0 .. ReminderDays
      /\ EveningsOf(s, t) <= EveningsOf(s, u)
    BY EveningsFew, EveningsGrow
<1> HIDE DEF w
<1> QED
    BY <1>0, <1>1, <1>2, <1>3

LEMMA CountsBack ==
    ASSUME NEW list \in Seq(Reminder), NEW most \in Nat, NEW t \in Nat, NEW u \in Nat,
           CountsFit(list, t, most)
    PROVE  CountsFit(list, u, most + (ReminderDays + 1))
<1> SUFFICES ASSUME NEW e \in Int, NEW s \in Nat
             PROVE  /\ CountOf(list, e, s) <= most + (ReminderDays + 1) + EveningsOf(s, u)
                    /\ CountOf(list, e, s) <= (most + (ReminderDays + 1)) - 1
    BY DEF CountsFit
<1>1. CountOf(list, e, s) <= most + EveningsOf(s, t)
    BY DEF CountsFit
<1>2. CountOf(list, e, s) \in Nat /\ ReminderDays \in Nat
    BY PlacesFinite, EventsAssumption
<1>3. EveningsOf(s, t) \in 0 .. ReminderDays /\ EveningsOf(s, u) \in 0 .. ReminderDays
    BY EveningsFew
<1> QED
    BY <1>1, <1>2, <1>3

LEMMA CountsRung ==
    ASSUME NEW list \in Seq(Reminder), NEW most \in Nat, NEW t \in Nat, CountsFit(list, t, most),
           NEW m, NEW rest \in Rung(list, m)
    PROVE  rest \in Seq(Reminder) /\ CountsFit(rest, t, most)
<1>1. rest \in Seq(Reminder) /\ \A e, s : CountOf(rest, e, s) <= CountOf(list, e, s)
    BY RungCounts
<1>2. ASSUME NEW e \in Int, NEW s \in Nat
      PROVE  /\ CountOf(rest, e, s) <= most + EveningsOf(s, t)
             /\ t + ReminderDays * DayLength < s => CountOf(rest, e, s) <= most - 1
    <2>1. CountOf(rest, e, s) \in Nat /\ CountOf(list, e, s) \in Nat
        BY <1>1, PlacesFinite
    <2>2. /\ CountOf(list, e, s) <= most + EveningsOf(s, t)
          /\ t + ReminderDays * DayLength < s => CountOf(list, e, s) <= most - 1
        BY DEF CountsFit
    <2>3. CountOf(rest, e, s) <= CountOf(list, e, s)
        BY <1>1
    <2>4. EveningsOf(s, t) \in Int
        <3>1. EveningsOf(s, t) \in 0 .. ReminderDays
            BY EveningsFew
        <3> QED
            BY <3>1
    <2> QED
        BY <2>1, <2>2, <2>3, <2>4
<1> QED
    BY <1>1, <1>2 DEF CountsFit

\* on an evening, whose first window begins one day earlier than the counts before,
LEMMA CountsEvening ==
    ASSUME NEW list \in Seq(Reminder), NEW most \in Nat, NEW t \in Nat, CountsFit(list, t, most),
           (t + 1) % DayLength = DayLength - 1, NEW coming, Fit(coming)
    PROVE  /\ list \o FromEventsToAlarms(coming, t + 1) \in Seq(Reminder)
           /\ CountsFit(list \o FromEventsToAlarms(coming, t + 1), t + 1, most)
<1> DEFINE made == FromEventsToAlarms(coming, t + 1)
           all == list \o made
           w == ReminderDays * DayLength
<1>0. w \in Nat /\ ReminderDays \in Nat /\ t + 1 \in Nat
    BY EventsAssumption
<1>1. /\ made \in Seq(Reminder)
      /\ \A i, j \in DOMAIN made : made[i].event = made[j].event => i = j
      /\ \A i \in DOMAIN made : t + 1 <= made[i].start /\ made[i].start <= t + 1 + w
    BY <1>0, AlarmsMade
<1> HIDE DEF made
<1>2. /\ all \in Seq(Reminder)
      /\ \A e, s : /\ CountOf(all, e, s) <= CountOf(list, e, s) + 1
                   /\ (\A i \in DOMAIN made : made[i].start # s) => CountOf(all, e, s) <= CountOf(list, e, s)
    BY <1>1, MadeCounts
<1> HIDE DEF all
<1>3. ASSUME NEW e \in Int, NEW s \in Nat
      PROVE  /\ CountOf(all, e, s) <= most + EveningsOf(s, t + 1)
             /\ t + 1 + w < s => CountOf(all, e, s) <= most - 1
    <2>1. CountOf(all, e, s) \in Nat /\ CountOf(list, e, s) \in Nat
        BY <1>2, PlacesFinite
    <2>2. /\ CountOf(list, e, s) <= most + EveningsOf(s, t)
          /\ t + w < s => CountOf(list, e, s) <= most - 1
        BY DEF CountsFit
    <2>3. /\ CountOf(all, e, s) <= CountOf(list, e, s) + 1
          /\ (\A i \in DOMAIN made : made[i].start # s) => CountOf(all, e, s) <= CountOf(list, e, s)
        BY <1>2
    <2>4. /\ EveningsOf(s, t) \in 0 .. ReminderDays /\ EveningsOf(s, t + 1) \in 0 .. ReminderDays
          /\ EveningsOf(s, t) <= EveningsOf(s, t + 1)
        <3> DEFINE u == t + 1
        <3>1. u \in Nat /\ t <= u
            BY <1>0
        <3> HIDE DEF u
        <3>2. /\ EveningsOf(s, t) \in 0 .. ReminderDays /\ EveningsOf(s, u) \in 0 .. ReminderDays
              /\ EveningsOf(s, t) <= EveningsOf(s, u)
            BY <3>1, EveningsFew, EveningsGrow
        <3> QED
            BY <3>2 DEF u
    <2>5. t + 1 <= s /\ s <= t + w => EveningsOf(s, t) + 1 <= EveningsOf(s, t + 1)
        BY EveningOfWindow
    <2>6. ~ (t + 1 <= s /\ s <= t + 1 + w) => \A i \in DOMAIN made : made[i].start # s
        BY <1>1
    <2> HIDE DEF w
    <2>7. CASE ~ (t + 1 <= s /\ s <= t + 1 + w)
        <3>1. CountOf(all, e, s) <= CountOf(list, e, s)
            BY <2>3, <2>6, <2>7
        <3> QED
            BY <1>0, <2>1, <2>2, <2>4, <3>1
    <2>8. CASE t + 1 <= s /\ s <= t + w
        <3>1. EveningsOf(s, t) + 1 <= EveningsOf(s, t + 1)
            BY <2>5, <2>8
        <3>2. CountOf(all, e, s) <= CountOf(list, e, s) + 1
            BY <2>3
        <3> QED
            BY <1>0, <2>1, <2>2, <2>4, <2>8, <3>1, <3>2
    <2>9. CASE t + w < s /\ s <= t + 1 + w
        <3>1. CountOf(all, e, s) <= CountOf(list, e, s) + 1
            BY <2>3
        <3> QED
            BY <1>0, <2>1, <2>2, <2>4, <2>9, <3>1
    <2> QED
        BY <1>0, <2>7, <2>8, <2>9
<1>4. CountsFit(all, t + 1, most)
    BY <1>3 DEF CountsFit
<1> QED
    BY <1>2, <1>4 DEF all, made

\* and at a start.
LEMMA CountsStart ==
    ASSUME NEW list \in Seq(Reminder), NEW most \in Nat, NEW t \in Nat, CountsFit(list, t, most),
           NEW coming, Fit(coming)
    PROVE  /\ list \o FromEventsToAlarms(coming, t) \in Seq(Reminder)
           /\ CountsFit(list \o FromEventsToAlarms(coming, t), t, most + 1)
<1> DEFINE made == FromEventsToAlarms(coming, t)
           all == list \o made
           w == ReminderDays * DayLength
<1>0. w \in Nat
    BY EventsAssumption
<1>1. /\ made \in Seq(Reminder)
      /\ \A i, j \in DOMAIN made : made[i].event = made[j].event => i = j
      /\ \A i \in DOMAIN made : t <= made[i].start /\ made[i].start <= t + w
    BY AlarmsMade
<1> HIDE DEF made
<1>2. /\ all \in Seq(Reminder)
      /\ \A e, s : /\ CountOf(all, e, s) <= CountOf(list, e, s) + 1
                   /\ (\A i \in DOMAIN made : made[i].start # s) => CountOf(all, e, s) <= CountOf(list, e, s)
    BY <1>1, MadeCounts
<1> HIDE DEF all
<1>3. ASSUME NEW e \in Int, NEW s \in Nat
      PROVE  /\ CountOf(all, e, s) <= most + 1 + EveningsOf(s, t)
             /\ t + w < s => CountOf(all, e, s) <= most + 1 - 1
    <2>1. CountOf(all, e, s) \in Nat /\ CountOf(list, e, s) \in Nat
        BY <1>2, PlacesFinite
    <2>2. /\ CountOf(list, e, s) <= most + EveningsOf(s, t)
          /\ t + w < s => CountOf(list, e, s) <= most - 1
        BY DEF CountsFit
    <2>3. /\ CountOf(all, e, s) <= CountOf(list, e, s) + 1
          /\ (\A i \in DOMAIN made : made[i].start # s) => CountOf(all, e, s) <= CountOf(list, e, s)
        BY <1>2
    <2>4. EveningsOf(s, t) \in Int
        <3>1. EveningsOf(s, t) \in 0 .. ReminderDays
            BY EveningsFew
        <3> QED
            BY <3>1
    <2> HIDE DEF w
    <2> QED
        BY <1>0, <2>1, <2>2, <2>3, <2>4
<1>4. CountsFit(all, t, most + 1)
    BY <1>3 DEF CountsFit
<1> QED
    BY <1>2, <1>4 DEF all, made

LEMMA RemindersInvInit ==
    ASSUME \A list \in Calendars : Fit(list)
    PROVE  EventsInit => RemindersInv
<1> SUFFICES ASSUME EventsInit PROVE RemindersInv
    OBVIOUS
<1>1. PICK list \in Calendars : /\ events = KeepComing(list, now)
                                /\ reminders = FromEventsToAlarms(list, now)
    BY DEF EventsInit
<1>2. /\ now \in Nat /\ starts = 1 /\ setbacks = 0 /\ eventQueue = <<>> /\ netEvents = <<>>
      /\ eventsFile.list = <<>>
    BY EventsAssumption DEF EventsInit, NoEvents
<1>3. Fit(list) /\ Fit(events)
    BY <1>1, KeptFit DEF KeepComing
<1>4. ListsFit
    BY <1>2, <1>3, EmptyFit, EmptySeq DEF ListsFit
<1> DEFINE made == FromEventsToAlarms(list, now)
           w == ReminderDays * DayLength
<1>5. /\ made \in Seq(Reminder)
      /\ \A i, j \in DOMAIN made : made[i].event = made[j].event => i = j
      /\ \A i \in DOMAIN made : made[i].start <= now + w
    BY <1>2, <1>3, AlarmsMade
<1> HIDE DEF made
<1>6. <<>> \in Seq(Reminder) /\ <<>> \o made = made
    BY <1>5, EmptySeq, ConcatEmptySeq
<1>7. \A e, s : /\ CountOf(<<>> \o made, e, s) <= CountOf(<<>>, e, s) + 1
                /\ (\A i \in DOMAIN made : made[i].start # s) => CountOf(<<>> \o made, e, s) <= CountOf(<<>>, e, s)
    BY <1>5, <1>6, MadeCounts
<1>8. ASSUME NEW e \in Int, NEW s \in Nat
      PROVE  /\ CountOf(made, e, s) <= 1 + EveningsOf(s, now)
             /\ now + w < s => CountOf(made, e, s) <= 1 - 1
    <2>1. CountOf(<<>>, e, s) = 0
        <3>1. PlacesOf(<<>>, e, s) = {}
            BY EmptySeq DEF PlacesOf
        <3> QED
            BY <3>1, FS_EmptySet DEF CountOf
    <2>2. CountOf(made, e, s) \in Nat
        BY <1>5, PlacesFinite
    <2>3. /\ CountOf(made, e, s) <= 1
          /\ (\A i \in DOMAIN made : made[i].start # s) => CountOf(made, e, s) <= 0
        BY <1>6, <1>7, <2>1
    <2>4. EveningsOf(s, now) \in Nat
        <3>1. EveningsOf(s, now) \in 0 .. ReminderDays
            BY <1>2, EveningsFew
        <3> QED
            BY <3>1
    <2>5. w \in Nat
        BY EventsAssumption
    <2> HIDE DEF w
    <2>6. now + w < s => \A i \in DOMAIN made : made[i].start # s
        BY <1>2, <1>5, <2>5
    <2> QED
        BY <2>2, <2>3, <2>4, <2>6
<1>9. CountsFit(made, now, 1)
    BY <1>8 DEF CountsFit
<1>10. Most = 1
    BY <1>2, EventsAssumption DEF Most
<1> QED
    BY <1>1, <1>2, <1>4, <1>5, <1>9, <1>10 DEF RemindersInv, made

\* The bound when the program starts again or the clock is set back.
LEMMA MostGrows ==
    ASSUME NEW a \in Nat, NEW b \in Nat
    PROVE  /\ a + (ReminderDays + 1) * b \in Nat
           /\ a + 1 + (ReminderDays + 1) * b = (a + (ReminderDays + 1) * b) + 1
           /\ a + (ReminderDays + 1) * (b + 1) = (a + (ReminderDays + 1) * b) + (ReminderDays + 1)
<1>1. ReminderDays \in Nat
    BY EventsAssumption
<1>2. (ReminderDays + 1) * b \in Nat
    BY <1>1
<1>3. (ReminderDays + 1) * (b + 1) = (ReminderDays + 1) * b + (ReminderDays + 1)
    BY <1>1
<1> DEFINE p == (ReminderDays + 1) * b
<1> HIDE DEF p
<1> QED
    BY <1>1, <1>2, <1>3 DEF p

\* The queue keeps lists that fit.
LEMMA QueueFits ==
    ASSUME NEW q \in Seq(Seq(CalendarEvent)), \A i \in DOMAIN q : Fit(q[i])
    PROVE  /\ \A list : Fit(list) => \A i \in DOMAIN Append(q, list) : Fit(Append(q, list)[i])
           /\ q # <<>> => Fit(Head(q)) /\ \A i \in DOMAIN Tail(q) : Fit(Tail(q)[i])
<1>1. Len(q) \in Nat /\ DOMAIN q = 1 .. Len(q)
    BY LenProperties
<1>2. ASSUME NEW list, Fit(list)
      PROVE  \A i \in DOMAIN Append(q, list) : Fit(Append(q, list)[i])
    <2>1. /\ Append(q, list) \in Seq(Seq(CalendarEvent))
          /\ Len(Append(q, list)) = Len(q) + 1
          /\ \A i \in 1 .. Len(q) : Append(q, list)[i] = q[i]
          /\ Append(q, list)[Len(q) + 1] = list
        BY <1>2, AppendProperties DEF Fit
    <2>2. DOMAIN Append(q, list) = 1 .. Len(q) + 1
        BY <2>1, LenProperties
    <2>3. \A i \in 1 .. Len(q) + 1 : i \in 1 .. Len(q) \/ i = Len(q) + 1
        BY <1>1
    <2> QED
        BY <1>1, <1>2, <2>1, <2>2, <2>3
<1>3. ASSUME q # <<>>
      PROVE  Fit(Head(q)) /\ \A i \in DOMAIN Tail(q) : Fit(Tail(q)[i])
    <2>1. /\ Head(q) = q[1] /\ Len(q) # 0 /\ DOMAIN Tail(q) = 1 .. Len(q) - 1
          /\ \A i \in 1 .. Len(q) - 1 : Tail(q)[i] = q[i + 1]
        BY <1>1, <1>3, HeadTailProperties, LenProperties, EmptySeq
    <2>2. 1 \in 1 .. Len(q) /\ \A i \in 1 .. Len(q) - 1 : i + 1 \in 1 .. Len(q)
        BY <1>1, <2>1
    <2> QED
        BY <1>1, <2>1, <2>2
<1> QED
    BY <1>2, <1>3

\* A save that begins keeps lists that fit.
LEMMA SaveBeginsFit ==
    ASSUME NEW list, Fit(list), DeletePastEvents(list), Fit(netEvents'),
           \A i \in DOMAIN eventQueue' : Fit(eventQueue'[i])
    PROVE  ListsFit' /\ Fit(events')
<1>1. events' = KeepComing(list, now') /\ eventsFile'.list = <<>>
    BY DEF DeletePastEvents, NoEvents
<1>2. Fit(events')
    BY <1>1, KeptFit DEF KeepComing
<1>3. Fit(eventsFile'.list)
    BY <1>1, EmptyFit
<1> QED
    BY <1>2, <1>3 DEF ListsFit

\* The lists alone are touched.
LEMMA RemindersAlone ==
    ASSUME RemindersInv, ListsFit', UNCHANGED <<now, reminders, starts, setbacks>>
    PROVE  RemindersInv'
<1>1. Most' = Most
    BY DEF Most
<1> QED
    BY <1>1 DEF RemindersInv

LEMMA RemindersInvNext ==
    ASSUME \A list \in Calendars : Fit(list)
    PROVE  EventsInv /\ RemindersInv /\ [EventsNext]_eventVars => RemindersInv'
<1> SUFFICES ASSUME EventsInv, RemindersInv, [EventsNext]_eventVars
             PROVE  RemindersInv'
    OBVIOUS
<1>0. /\ Fit(events) /\ Fit(eventsFile.list) /\ Fit(netEvents)
      /\ eventQueue \in Seq(Seq(CalendarEvent)) /\ \A i \in DOMAIN eventQueue : Fit(eventQueue[i])
      /\ now \in Nat /\ starts \in Nat /\ setbacks \in Nat /\ reminders \in Seq(Reminder)
      /\ CountsFit(reminders, now, Most) /\ Most \in Nat
    BY MostGrows DEF EventsInv, EventsTyped, RemindersInv, ListsFit, Most
<1>1. ASSUME NEW list \in Calendars, ReceiveEvents(list)
      PROVE  RemindersInv'
    <2>1. /\ netEvents' = list /\ eventsFile' = NoEvents
          /\ UNCHANGED <<events, eventQueue, now, reminders, starts, setbacks>>
        BY <1>1 DEF ReceiveEvents, clockVars
    <2>2. eventsFile'.list = <<>>
        BY <2>1 DEF NoEvents
    <2>3. Fit(netEvents') /\ Fit(eventsFile'.list)
        BY <2>1, <2>2, EmptyFit
    <2>4. ListsFit'
        BY <1>0, <2>1, <2>3 DEF ListsFit
    <2> QED
        BY <2>1, <2>4, RemindersAlone
<1>2. CASE WriteReceived
    <2>1. /\ eventsFile' \in SavedEvents(netEvents)
          /\ UNCHANGED <<events, netEvents, eventQueue, now, reminders, starts, setbacks>>
        BY <1>2 DEF WriteReceived, clockVars
    <2>2. \A file \in SavedEvents(netEvents) : file.list = netEvents \/ file.list = <<>>
        BY WrittenAlone
    <2>3. Fit(eventsFile'.list)
        BY <1>0, <2>1, <2>2, EmptyFit
    <2>4. ListsFit'
        BY <1>0, <2>1, <2>3 DEF ListsFit
    <2> QED
        BY <2>1, <2>4, RemindersAlone
<1>3. CASE QueueReceived
    <2>1. /\ eventQueue' = Append(eventQueue, netEvents) /\ netEvents' = <<>>
          /\ UNCHANGED <<events, eventsFile, now, reminders, starts, setbacks>>
        BY <1>3 DEF QueueReceived, clockVars, fileVars
    <2>2. \A i \in DOMAIN Append(eventQueue, netEvents) : Fit(Append(eventQueue, netEvents)[i])
        BY <1>0, QueueFits
    <2>3. ListsFit'
        BY <1>0, <2>1, <2>2, EmptyFit DEF ListsFit
    <2> QED
        BY <2>1, <2>3, RemindersAlone
<1>4. CASE SetEvents
    <2>1. /\ eventQueue # <<>> /\ events' = Head(eventQueue) /\ eventQueue' = Tail(eventQueue)
          /\ UNCHANGED <<netEvents, eventsFile, now, reminders, starts, setbacks>>
        BY <1>4 DEF SetEvents, clockVars, fileVars, netEventVars
    <2>2. Fit(Head(eventQueue)) /\ \A i \in DOMAIN Tail(eventQueue) : Fit(Tail(eventQueue)[i])
        BY <1>0, <2>1, QueueFits
    <2>3. ListsFit'
        BY <1>0, <2>1, <2>2 DEF ListsFit
    <2> QED
        BY <2>1, <2>3, RemindersAlone
<1>5. CASE MinutePasses
    <2>1. /\ now' = now + 1 /\ DeletePastEvents(events)
          /\ UNCHANGED <<netEvents, eventQueue, starts, setbacks>>
        BY <1>5 DEF MinutePasses, netEventVars, clockVars
    <2>2. PICK rest \in Rung(reminders, now') :
             reminders' = rest \o (IF now' % DayLength = DayLength - 1
                                   THEN FromEventsToAlarms(events', now') ELSE <<>>)
        BY <1>5 DEF MinutePasses
    <2>3. ListsFit' /\ Fit(events')
        BY <1>0, <2>1, SaveBeginsFit
    <2>4. Most' = Most
        BY <2>1 DEF Most
    <2>5. rest \in Seq(Reminder) /\ CountsFit(rest, now, Most)
        BY <1>0, CountsRung
    <2>6. CASE now' % DayLength = DayLength - 1
        <3> DEFINE coming == events'
        <3>1. Fit(coming) /\ (now + 1) % DayLength = DayLength - 1
            BY <2>1, <2>3, <2>6
        <3>2. reminders' = rest \o FromEventsToAlarms(coming, now + 1)
            BY <2>1, <2>2, <2>6
        <3> HIDE DEF coming
        <3>3. /\ rest \o FromEventsToAlarms(coming, now + 1) \in Seq(Reminder)
              /\ CountsFit(rest \o FromEventsToAlarms(coming, now + 1), now + 1, Most)
            BY <1>0, <2>5, <3>1, CountsEvening
        <3>4. reminders' \in Seq(Reminder) /\ CountsFit(reminders', now', Most')
            BY <2>1, <2>4, <3>2, <3>3
        <3> QED
            BY <1>0, <2>1, <2>3, <3>4 DEF RemindersInv
    <2>7. CASE now' % DayLength # DayLength - 1
        <3>1. reminders' = rest
            BY <2>2, <2>5, <2>7, ConcatEmptySeq
        <3>2. CountsFit(rest, now + 1, Most)
            <4>1. now + 1 \in Nat /\ now <= now + 1
                BY <1>0
            <4> QED
                BY <1>0, <2>5, <4>1, CountsLater
        <3>3. CountsFit(reminders', now', Most')
            BY <2>1, <2>4, <3>1, <3>2
        <3> QED
            BY <1>0, <2>1, <2>3, <2>5, <3>1, <3>3 DEF RemindersInv
    <2> QED
        BY <2>6, <2>7
<1>6. CASE WriteEvents
    <2>1. /\ eventsFile' \in SavedEvents(EventsToJson(events))
          /\ UNCHANGED <<events, netEvents, eventQueue, now, reminders, starts, setbacks>>
        BY <1>6 DEF WriteEvents, clockVars, netEventVars
    <2>2. \A file \in SavedEvents(EventsToJson(events)) :
             file.list = EventsToJson(events) \/ file.list = <<>>
        BY WrittenAlone
    <2>3. Fit(eventsFile'.list)
        BY <1>0, <2>1, <2>2, EmptyFit, SavedFit
    <2>4. ListsFit'
        BY <1>0, <2>1, <2>3 DEF ListsFit
    <2> QED
        BY <2>1, <2>4, RemindersAlone
<1>7. ASSUME NEW t \in 0 .. LastMinute, ClockIsSet(t)
      PROVE  RemindersInv'
    <2>1. /\ now' = t /\ t # now
          /\ setbacks' = IF t < now THEN setbacks + 1 ELSE setbacks
          /\ UNCHANGED <<events, eventsFile, netEvents, eventQueue, reminders, starts>>
        BY <1>7 DEF ClockIsSet, fileVars, netEventVars
    <2>2. ListsFit'
        BY <1>0, <2>1 DEF ListsFit
    <2>3. t \in Nat
        OBVIOUS
    <2>4. CASE t < now
        <3>1. Most' = Most + (ReminderDays + 1)
            <4>1. setbacks' = setbacks + 1 /\ starts' = starts
                BY <2>1, <2>4
            <4>2. starts + (ReminderDays + 1) * (setbacks + 1)
                     = (starts + (ReminderDays + 1) * setbacks) + (ReminderDays + 1)
                BY <1>0, MostGrows
            <4>3. Most' = starts + (ReminderDays + 1) * (setbacks + 1)
                BY <4>1 DEF Most
            <4> QED
                BY <4>2, <4>3 DEF Most
        <3>2. CountsFit(reminders, t, Most + (ReminderDays + 1))
            BY <1>0, <2>3, CountsBack
        <3>3. CountsFit(reminders', now', Most')
            BY <2>1, <3>1, <3>2
        <3> QED
            BY <1>0, <2>1, <2>2, <2>3, <2>4, <3>3 DEF RemindersInv
    <2>5. CASE ~ t < now
        <3>1. Most' = Most /\ setbacks' = setbacks
            BY <2>1, <2>5 DEF Most
        <3>2. CountsFit(reminders, t, Most)
            <4>1. now <= t
                BY <1>0, <2>3, <2>5
            <4> QED
                BY <1>0, <2>3, <4>1, CountsLater
        <3>3. CountsFit(reminders', now', Most')
            BY <2>1, <3>1, <3>2
        <3> QED
            BY <1>0, <2>1, <2>2, <2>3, <3>1, <3>3 DEF RemindersInv
    <2> QED
        BY <2>4, <2>5
<1>8. CASE EventsRestart
    <2>1. /\ starts' = starts + 1 /\ now' = now /\ DeletePastEvents(eventsFile.list)
          /\ reminders' = reminders \o FromEventsToAlarms(eventsFile.list, now)
          /\ netEvents' = <<>> /\ eventQueue' = <<>> /\ setbacks' = setbacks
        BY <1>8 DEF EventsRestart, clockVars
    <2>2. Fit(netEvents') /\ \A i \in DOMAIN eventQueue' : Fit(eventQueue'[i])
        BY <2>1, EmptyFit, EmptySeq
    <2>3. ListsFit'
        BY <1>0, <2>1, <2>2, SaveBeginsFit
    <2>4. Most' = Most + 1
        <3>1. starts + 1 + (ReminderDays + 1) * setbacks = (starts + (ReminderDays + 1) * setbacks) + 1
            BY <1>0, MostGrows
        <3>2. Most' = starts + 1 + (ReminderDays + 1) * setbacks
            BY <2>1 DEF Most
        <3> QED
            BY <3>1, <3>2 DEF Most
    <2>5. /\ reminders \o FromEventsToAlarms(eventsFile.list, now) \in Seq(Reminder)
          /\ CountsFit(reminders \o FromEventsToAlarms(eventsFile.list, now), now, Most + 1)
        BY <1>0, CountsStart
    <2>6. reminders' \in Seq(Reminder) /\ CountsFit(reminders', now', Most')
        BY <2>1, <2>4, <2>5
    <2> QED
        BY <1>0, <2>1, <2>3, <2>6 DEF RemindersInv
<1>9. CASE UNCHANGED eventVars
    <2>1. UNCHANGED <<events, eventsFile, netEvents, eventQueue, now, reminders, starts, setbacks>>
        BY <1>9 DEF eventVars, fileVars, netEventVars
    <2>2. ListsFit'
        BY <1>0, <2>1 DEF ListsFit
    <2> QED
        BY <2>1, <2>2, RemindersAlone
<1> QED
    BY <1>1, <1>2, <1>3, <1>4, <1>5, <1>6, <1>7, <1>8, <1>9 DEF EventsNext

\* The window has no more evenings than days.
LEMMA FewReminders == RemindersInv => RemindersBounded
<1> SUFFICES ASSUME RemindersInv, NEW r \in ToSet(reminders)
             PROVE  Cardinality({i \in DOMAIN reminders :
                                    reminders[i].event = r.event /\ reminders[i].start = r.start})
                       <= starts + ReminderDays + (ReminderDays + 1) * setbacks
    BY DEF RemindersBounded
<1>1. /\ now \in Nat /\ starts \in Nat /\ setbacks \in Nat /\ reminders \in Seq(Reminder)
      /\ CountsFit(reminders, now, Most)
    BY DEF RemindersInv
<1>2. r \in Reminder
    <2>1. PICK i \in DOMAIN reminders : r = reminders[i]
        BY DEF ToSet
    <2> QED
        BY <1>1, <2>1, ElementOfSeq, LenProperties
<1>3. r.event \in Int /\ r.start \in Nat
    BY <1>2 DEF Reminder
<1>4. CountOf(reminders, r.event, r.start) <= Most + EveningsOf(r.start, now)
    BY <1>1, <1>3 DEF CountsFit
<1>5. EveningsOf(r.start, now) \in 0 .. ReminderDays
    BY <1>1, <1>3, EveningsFew
<1>6. CountOf(reminders, r.event, r.start) \in Nat
    BY <1>1, PlacesFinite
<1>7. ReminderDays \in Nat /\ (ReminderDays + 1) * setbacks \in Nat
    BY <1>1, EventsAssumption
<1> DEFINE p == (ReminderDays + 1) * setbacks
<1> HIDE DEF p
<1>8. CountOf(reminders, r.event, r.start) <= starts + ReminderDays + p
    BY <1>1, <1>4, <1>5, <1>6, <1>7 DEF Most, p
<1> QED
    BY <1>8 DEF CountOf, PlacesOf, p

\* The reminders of an event with one beginning, none of which need ever ring, are no more
\* than one for each start of the program, one for each evening of its window, and those
\* that evenings add again when the clock is set back: provided that no list holds an id
\* twice.
THEOREM RemindersAreFew ==
    ASSUME \A list \in Calendars : Fit(list)
    PROVE  EventsSpec => []RemindersBounded
<1>1. EventsInit => RemindersInv
    BY RemindersInvInit
<1>2. EventsInv /\ RemindersInv /\ [EventsNext]_eventVars => RemindersInv'
    BY RemindersInvNext
<1>3. RemindersInv => RemindersBounded
    BY FewReminders
<1> QED
    BY <1>1, <1>2, <1>3, EventsInvHolds, PTL DEF EventsSpec

-----------------------------------------------------------------------------
(***************************************************************************)
(* The search for networks.  While no scan overlaps another one, there is   *)
(* one result at most on its way, and it is that of the last scan.          *)
(***************************************************************************)

\* A list of networks as it is to be shown.
Shown(list) == /\ list \in Seq(NetLines \cup {Header})
               /\ \A i, j \in DOMAIN list : NameOf[list[i]] = NameOf[list[j]] => i = j
               /\ \A i \in DOMAIN list : NameOf[list[i]] # NameOf[Header]

\* Every scan that runs is one of the rivals; once none runs the last result, which is
\* the list when no other waits, is that of a rival.
LastIsRival ==
    /\ \A s \in scanning : s.lines \in rivals
    /\ scanning = {} =>
          \E lines \in rivals : IF found = <<>> THEN ShowsScan(nets, lines)
                                ELSE ShowsScan(found[Len(found)], lines)

TerminalInv ==
    /\ Shown(nets)
    /\ found \in Seq(Seq(NetLines \cup {Header})) /\ \A i \in DOMAIN found : Shown(found[i])
    /\ \A s \in scanning : s.lines \in Outputs
    /\ LastIsRival

\* The rest of a list without equal members has none either, and all members but the
\* first.
LEMMA TailOfInjective ==
    ASSUME NEW T, NEW s \in Seq(T), s # <<>>, IsInjective(s)
    PROVE  /\ Tail(s) \in Seq(T) /\ IsInjective(Tail(s))
           /\ ToSet(Tail(s)) = ToSet(s) \ {s[1]}
<1> DEFINE r == Tail(s)
           n == Len(s)
<1>1. /\ n \in Nat /\ n # 0 /\ DOMAIN s = 1 .. n
      /\ r \in Seq(T) /\ Len(r) = n - 1 /\ \A i \in 1 .. n - 1 : r[i] = s[i + 1]
    BY LenProperties, EmptySeq, HeadTailProperties
<1>2. DOMAIN r = 1 .. n - 1
    BY <1>1, LenProperties
<1> HIDE DEF r, n
<1>3. \A i, j \in 1 .. n : s[i] = s[j] => i = j
    BY <1>1 DEF IsInjective
<1>4. ASSUME NEW i \in 1 .. n - 1, NEW j \in 1 .. n - 1, r[i] = r[j]
      PROVE  i = j
    <2>1. i + 1 \in 1 .. n /\ j + 1 \in 1 .. n /\ s[i + 1] = s[j + 1]
        BY <1>1, <1>4
    <2>2. i + 1 = j + 1
        BY <1>3, <2>1
    <2> QED
        BY <1>1, <2>2
<1>5. IsInjective(r)
    BY <1>2, <1>4 DEF IsInjective
<1>6. ASSUME NEW x
      PROVE  (\E i \in 1 .. n - 1 : x = r[i]) <=> (\E i \in 1 .. n : x = s[i]) /\ x # s[1]
    <2>1. ASSUME NEW i \in 1 .. n - 1, x = r[i]
          PROVE  (\E j \in 1 .. n : x = s[j]) /\ x # s[1]
        <3>1. i + 1 \in 1 .. n /\ 1 \in 1 .. n /\ i + 1 # 1 /\ x = s[i + 1]
            BY <1>1, <2>1
        <3> QED
            BY <1>3, <3>1
    <2>2. ASSUME NEW i \in 1 .. n, x = s[i], x # s[1]
          PROVE  \E j \in 1 .. n - 1 : x = r[j]
        <3>1. i # 1
            BY <2>2
        <3>2. i - 1 \in 1 .. n - 1 /\ (i - 1) + 1 = i
            BY <1>1, <3>1
        <3>3. r[i - 1] = s[i]
            BY <1>1, <3>2
        <3> QED
            BY <2>2, <3>2, <3>3
    <2> QED
        BY <2>1, <2>2
<1>7. ToSet(r) = ToSet(s) \ {s[1]}
    <2>1. ToSet(r) = {r[i] : i \in 1 .. n - 1} /\ ToSet(s) = {s[i] : i \in 1 .. n}
        BY <1>1, <1>2 DEF ToSet
    <2>2. \A x : x \in ToSet(r) <=> \E i \in 1 .. n - 1 : x = r[i]
        BY <2>1
    <2>3. \A x : x \in ToSet(s) <=> \E i \in 1 .. n : x = s[i]
        BY <2>1
    <2> QED
        BY <1>6, <2>2, <2>3
<1> QED
    BY <1>1, <1>5, <1>7 DEF r

\* The lines that come first of their name.
Firsts(lines) == {k \in DOMAIN lines : \A j \in 1 .. k - 1 : NameOf[lines[j]] # NameOf[lines[k]]}

\* They are apart by name, and the header is the first of them.
LEMMA FirstLines ==
    ASSUME NEW T, NEW s \in Seq(T)
    PROVE  /\ FirstOfEach(s) \in Seq(T) /\ IsInjective(FirstOfEach(s))
           /\ \A i, j \in DOMAIN FirstOfEach(s) :
                 NameOf[FirstOfEach(s)[i]] = NameOf[FirstOfEach(s)[j]] => i = j
           /\ ToSet(FirstOfEach(s)) = {s[i] : i \in Firsts(s)}
           /\ s # <<>> => FirstOfEach(s) # <<>> /\ FirstOfEach(s)[1] = s[1]
<1> DEFINE S == Firsts(s)
           first == FirstOfEach(s)
<1>1. Len(s) \in Nat /\ DOMAIN s = 1 .. Len(s) /\ (s # <<>> => Len(s) # 0)
    BY LenProperties, EmptySeq
<1>2. first = At(s, S)
    BY DEF FirstOfEach, Firsts
<1>3. ASSUME NEW i \in DOMAIN s, NEW j \in DOMAIN s, i \in S, j \in S, NameOf[s[i]] = NameOf[s[j]]
      PROVE  i = j
    <2>1. ~ (i \in 1 .. j - 1) /\ ~ (j \in 1 .. i - 1)
        BY <1>3 DEF Firsts
    <2> QED
        BY <1>1, <2>1
<1>4. s # <<>> => 1 \in S
    BY <1>1 DEF Firsts
<1>5. \A i \in S : i \in DOMAIN s
    BY DEF Firsts
<1> HIDE DEF S, first
<1>6. /\ first \in Seq(T)
      /\ \A x : x \in ToSet(first) <=> \E i \in DOMAIN s : i \in S /\ x = s[i]
      /\ s # <<>> /\ 1 \in S => first # <<>> /\ first[1] = s[1]
      /\ IsInjective(first)
    BY <1>2, <1>3, AtProperties
<1>7. ToSet(first) = {s[i] : i \in S}
    BY <1>5, <1>6
<1>8. ASSUME NEW i \in DOMAIN first, NEW j \in DOMAIN first, NameOf[first[i]] = NameOf[first[j]]
      PROVE  i = j
    <2>1. first[i] \in ToSet(first) /\ first[j] \in ToSet(first)
        BY DEF ToSet
    <2>2. PICK k \in DOMAIN s : k \in S /\ first[i] = s[k]
        BY <1>6, <2>1
    <2>3. PICK l \in DOMAIN s : l \in S /\ first[j] = s[l]
        BY <1>6, <2>1
    <2>4. first[i] = first[j]
        BY <1>3, <1>8, <2>2, <2>3
    <2> QED
        BY <1>6, <2>4 DEF IsInjective
<1> QED
    BY <1>4, <1>6, <1>7, <1>8 DEF first, S

\* What a scan finds is the list that is to be shown for what nmcli printed.
LEMMA NetworksFound ==
    ASSUME NEW lines \in Outputs
    PROVE  Shown(NetsOf(lines)) /\ ShowsScan(NetsOf(lines), lines)
<1> DEFINE T == NetLines \cup {Header}
<1>1. CASE lines = <<>>
    <2>1. NetsOf(lines) = <<>> /\ DOMAIN <<>> = {} /\ <<>> \in Seq(T)
        BY <1>1, EmptySeq DEF NetsOf
    <2>2. ToSet(<<>>) = {}
        BY <2>1 DEF ToSet
    <2>3. ShowsScan(<<>>, <<>>)
        BY <2>1, <2>2 DEF ShowsScan
    <2> QED
        BY <1>1, <2>1, <2>3 DEF Shown
<1>2. CASE lines # <<>>
    <2>1. lines \in Seq(T) /\ lines[1] = Header
        <3>1. CASE lines = <<Header>>
            BY <3>1
        <3>2. ASSUME NEW two \in [1 .. 2 -> NetLines], lines = <<Header>> \o two
              PROVE  lines \in Seq(T) /\ lines[1] = Header
            <4>0. PICK n \in Nat : n = 2
                OBVIOUS
            <4>1. two \in Seq(NetLines)
                BY <3>2, <4>0, SeqDef
            <4>2. \A i \in DOMAIN two : two[i] \in T
                BY <3>2
            <4>3. two \in Seq(T) /\ <<Header>> \in Seq(T) /\ Len(<<Header>>) = 1 /\ <<Header>>[1] = Header
                BY <4>1
            <4>4. /\ <<Header>> \o two \in Seq(T)
                  /\ \A i \in 1 .. 1 + Len(two) :
                        (<<Header>> \o two)[i] = IF i <= 1 THEN <<Header>>[i] ELSE two[i - 1]
                BY <4>3, ConcatProperties
            <4>5. 1 \in 1 .. 1 + Len(two)
                BY <4>3, LenProperties
            <4> QED
                BY <3>2, <4>3, <4>4, <4>5
        <3> QED
            BY <1>2, <3>1, <3>2 DEF Outputs
    <2> DEFINE first == FirstOfEach(lines)
    <2>2. /\ first \in Seq(T) /\ IsInjective(first) /\ first # <<>> /\ first[1] = Header
          /\ \A i, j \in DOMAIN first : NameOf[first[i]] = NameOf[first[j]] => i = j
          /\ ToSet(first) = {lines[i] : i \in Firsts(lines)}
        BY <1>2, <2>1, FirstLines
    <2>3. NetsOf(lines) = Tail(first)
        BY <1>2 DEF NetsOf
    <2> HIDE DEF first
    <2>4. Tail(first) \in Seq(T) /\ ToSet(Tail(first)) = ToSet(first) \ {Header}
        BY <2>2, TailOfInjective
    <2>5. /\ Len(first) \in Nat /\ Len(first) # 0 /\ DOMAIN first = 1 .. Len(first)
          /\ Len(Tail(first)) = Len(first) - 1 /\ DOMAIN Tail(first) = 1 .. Len(first) - 1
          /\ \A i \in 1 .. Len(first) - 1 : Tail(first)[i] = first[i + 1]
        BY <2>2, <2>4, LenProperties, EmptySeq, HeadTailProperties
    <2>6. ShowsScan(Tail(first), lines)
        BY <2>2, <2>4 DEF ShowsScan, Firsts
    <2>7. ASSUME NEW i \in DOMAIN Tail(first)
          PROVE  /\ NameOf[Tail(first)[i]] # NameOf[Header]
                 /\ \A j \in DOMAIN Tail(first) : NameOf[Tail(first)[i]] = NameOf[Tail(first)[j]] => i = j
        <3>1. /\ i + 1 \in DOMAIN first /\ 1 \in DOMAIN first /\ i + 1 # 1
              /\ Tail(first)[i] = first[i + 1]
              /\ \A j \in DOMAIN Tail(first) : j + 1 \in DOMAIN first /\ Tail(first)[j] = first[j + 1]
            BY <2>5
        <3>2. NameOf[first[i + 1]] # NameOf[first[1]]
            BY <2>2, <3>1
        <3>3. ASSUME NEW j \in DOMAIN Tail(first), NameOf[first[i + 1]] = NameOf[first[j + 1]]
              PROVE  i = j
            <4>1. i + 1 = j + 1
                BY <2>2, <3>1, <3>3
            <4> QED
                BY <2>5, <4>1
        <3> QED
            BY <2>2, <3>1, <3>2, <3>3
    <2> QED
        BY <2>3, <2>4, <2>6, <2>7 DEF Shown
<1> QED
    BY <1>1, <1>2

LEMMA TerminalInvInit == TerminalInit => TerminalInv
<1> SUFFICES ASSUME TerminalInit PROVE TerminalInv
    OBVIOUS
<1>1. nets = <<>> /\ scanning = {} /\ found = <<>> /\ rivals = {<<>>}
    BY DEF TerminalInit
<1>2. NetsOf(<<>>) = <<>> /\ <<>> \in Outputs
    BY DEF NetsOf, Outputs
<1>3. Shown(nets) /\ ShowsScan(nets, <<>>)
    BY <1>1, <1>2, NetworksFound
<1>4. found \in Seq(Seq(NetLines \cup {Header})) /\ DOMAIN found = {}
    BY <1>1, EmptySeq
<1> QED
    BY <1>1, <1>3, <1>4 DEF TerminalInv, LastIsRival

LEMMA TerminalInvNext == TerminalInv /\ [TerminalNext]_terminalVars => TerminalInv'
<1> SUFFICES ASSUME TerminalInv, [TerminalNext]_terminalVars PROVE TerminalInv'
    OBVIOUS
<1> DEFINE T == NetLines \cup {Header}
<1>0. /\ Shown(nets) /\ found \in Seq(Seq(T)) /\ \A i \in DOMAIN found : Shown(found[i])
      /\ \A s \in scanning : s.lines \in Outputs /\ s.lines \in rivals
    BY DEF TerminalInv, LastIsRival
<1>1. CASE ScanNets
    <2>1. PICK lines \in Outputs :
              /\ scanning' = scanning \cup {[scan |-> scans', lines |-> lines]}
              /\ rivals' = {lines} \cup {s.lines : s \in scanning}
        BY <1>1 DEF ScanNets
    <2>2. UNCHANGED <<nets, found>> /\ scanning' # {}
        BY <1>1, <2>1 DEF ScanNets
    <2>3. \A s \in scanning' : s.lines \in Outputs /\ s.lines \in rivals'
        BY <1>0, <2>1
    <2> QED
        BY <1>0, <2>2, <2>3 DEF TerminalInv, LastIsRival, Shown
<1>2. ASSUME NEW s \in scanning, ScanDone(s)
      PROVE  TerminalInv'
    <2>1. /\ scanning' = scanning \ {s} /\ found' = Append(found, NetsOf(s.lines))
          /\ UNCHANGED <<nets, rivals>>
        BY <1>2 DEF ScanDone
    <2>2. Shown(NetsOf(s.lines)) /\ ShowsScan(NetsOf(s.lines), s.lines) /\ s.lines \in rivals
        BY <1>0, NetworksFound
    <2>3. NetsOf(s.lines) \in Seq(T)
        BY <2>2 DEF Shown
    <2>4. /\ found' \in Seq(Seq(T)) /\ Len(found) \in Nat /\ Len(found') = Len(found) + 1
          /\ DOMAIN found = 1 .. Len(found) /\ DOMAIN found' = 1 .. Len(found) + 1
          /\ \A i \in 1 .. Len(found) : found'[i] = found[i]
          /\ found'[Len(found) + 1] = NetsOf(s.lines) /\ found' # <<>>
        BY <1>0, <2>1, <2>3, AppendProperties, LenProperties
    <2>5. ASSUME NEW i \in DOMAIN found'
          PROVE  Shown(found'[i])
        <3>1. i \in 1 .. Len(found) \/ i = Len(found) + 1
            BY <2>4
        <3> QED
            BY <1>0, <2>2, <2>4, <3>1
    <2>6. \E lines \in rivals' : ShowsScan(found'[Len(found')], lines)
        BY <2>1, <2>2, <2>4
    <2>7. LastIsRival'
        BY <1>0, <2>1, <2>4, <2>6 DEF LastIsRival, ShowsScan
    <2>8. (Shown(nets) /\ (\A i \in DOMAIN found : Shown(found[i])))'
        BY <1>0, <2>1, <2>5 DEF Shown
    <2> QED
        BY <1>0, <2>1, <2>4, <2>7, <2>8 DEF TerminalInv
<1>3. CASE SetNets
    <2>1. /\ found # <<>> /\ nets' = Head(found) /\ found' = Tail(found)
          /\ UNCHANGED <<scanning, rivals>>
        BY <1>3 DEF SetNets
    <2>3. /\ Head(found) = found[1] /\ found' \in Seq(Seq(T))
          /\ Len(found) \in Nat /\ Len(found) # 0 /\ DOMAIN found = 1 .. Len(found)
          /\ Len(found') = Len(found) - 1 /\ DOMAIN found' = 1 .. Len(found')
          /\ \A i \in 1 .. Len(found) - 1 : found'[i] = found[i + 1]
        BY <1>0, <2>1, HeadTailProperties, LenProperties, EmptySeq
    <2>4. \A i \in DOMAIN found' : i + 1 \in DOMAIN found /\ found'[i] = found[i + 1]
        BY <2>3
    <2>5. \A i \in DOMAIN found' : Shown(found'[i])
        BY <1>0, <2>4
    <2>6. Shown(nets')
        BY <1>0, <2>1, <2>3
    <2>7. ASSUME scanning' = {}
          PROVE  \E lines \in rivals' : IF found' = <<>> THEN ShowsScan(nets', lines)
                                        ELSE ShowsScan(found'[Len(found')], lines)
        <3>1. PICK lines \in rivals : ShowsScan(found[Len(found)], lines)
            BY <2>1, <2>7 DEF TerminalInv, LastIsRival
        <3>2. CASE found' = <<>>
            <4>0. Len(found') = 0
                BY <3>2, EmptySeq
            <4>1. Len(found) = 1
                <5>1. Len(found) \in Nat /\ Len(found') = Len(found) - 1
                    BY <2>3
                <5> QED
                    BY <5>1, <4>0
            <4> QED
                BY <2>1, <2>3, <3>1, <3>2, <4>1
        <3>3. CASE found' # <<>>
            <4>1. Len(found') # 0
                BY <2>3, <3>3, EmptySeq
            <4>2. Len(found') \in 1 .. Len(found) - 1 /\ Len(found') + 1 = Len(found)
                BY <2>3, <4>1
            <4>3. found'[Len(found')] = found[Len(found)]
                BY <2>3, <4>2
            <4> QED
                BY <2>1, <3>1, <3>3, <4>3
        <3> QED
            BY <3>2, <3>3
    <2>8. LastIsRival'
        BY <1>0, <2>1, <2>7 DEF LastIsRival, ShowsScan
    <2>9. (Shown(nets) /\ (\A i \in DOMAIN found : Shown(found[i])))'
        BY <2>5, <2>6 DEF Shown
    <2> QED
        BY <1>0, <2>1, <2>3, <2>8, <2>9 DEF TerminalInv
<1>4. CASE Print3 \/ ReadSensor \/ UNCHANGED terminalVars
    <2>1. UNCHANGED <<nets, scanning, found, rivals>>
        BY <1>4 DEF Print3, ReadSensor, terminalVars
    <2> QED
        BY <2>1 DEF TerminalInv, LastIsRival, Shown, ShowsScan
<1> QED
    BY <1>1, <1>2, <1>3, <1>4 DEF TerminalNext

\* The list shown has no name twice and not the header's, and once nothing runs it is
\* the list of the scan started last or of one that ran then: for any lines, however
\* their names are cut, and any number of scans.
THEOREM LastScanIsShown == TerminalSpec => []LatestScanShown
<1>1. TerminalInit => TerminalInv
    BY TerminalInvInit
<1>2. TerminalInv /\ [TerminalNext]_terminalVars => TerminalInv'
    BY TerminalInvNext
<1>3. TerminalInv => LatestScanShown
    BY DEF TerminalInv, LastIsRival, Shown, LatestScanShown
<1> QED
    BY <1>1, <1>2, <1>3, PTL DEF TerminalSpec

-----------------------------------------------------------------------------

\* setVolume gives SDL_mixer a volume of its scale, whatever the percentage.
LEMMA VolumeInScale == \A v \in Int : SdlVolume(v) \in 0 .. MixMaxVolume
<1> SUFFICES ASSUME NEW v \in Int
             PROVE  SdlVolume(v) \in 0 .. MixMaxVolume
    OBVIOUS
<1> DEFINE bounded == IF v < 0 THEN 0 ELSE IF v > 100 THEN 100 ELSE v
<1>1. MixMaxVolume \in Nat
  BY AudioPlayerAssumption
<1>2. bounded \in 0 .. 100
  OBVIOUS
<1>3. SdlVolume(v) = (2 * bounded * MixMaxVolume + 100) \div 200
  BY DEF SdlVolume
<1> HIDE DEF bounded
<1>4. bounded * MixMaxVolume \in 0 .. 100 * MixMaxVolume
  <2>1. \A b \in 0 .. 100, m \in Nat : b * m \in Nat /\ b * m <= 100 * m
    OBVIOUS
  <2> QED
    BY <1>1, <1>2, <2>1
<1>5. 2 * bounded * MixMaxVolume = 2 * (bounded * MixMaxVolume)
  BY <1>1, <1>2
<1>6. \A n \in 0 .. 100 * MixMaxVolume : (2 * n + 100) \div 200 \in 0 .. MixMaxVolume
  BY <1>1
<1> QED
  BY <1>3, <1>4, <1>5, <1>6

\* What each operation does to the parts of the player.
LEMMA VolumeSet ==
    ASSUME NEW p \in Player, NEW v \in Int
    PROVE  /\ SetVolume(p, v) \in Player
           /\ SetVolume(p, v).volume = SdlVolume(v)
           /\ SetVolume(p, v).music = p.music
           /\ SetVolume(p, v).isPlaying = p.isPlaying
           /\ SetVolume(p, v).isPaused = p.isPaused
           /\ InStep(p) => InStep(SetVolume(p, v))
<1>1. SdlVolume(v) \in 0 .. MixMaxVolume
  BY VolumeInScale
<1> QED
  BY <1>1 DEF SetVolume, Player, InStep

LEMMA MusicStopped ==
    ASSUME NEW p \in Player
    PROVE  /\ StopMusic(p) \in Player
           /\ StopMusic(p).volume = p.volume
           /\ StopMusic(p).music = NoMusic
           /\ ~ StopMusic(p).isPlaying
           /\ InStep(StopMusic(p))
  BY DEF StopMusic, Player, InStep

LEMMA MusicStarted ==
    ASSUME NEW p \in Player, NEW song \in Songs, NEW q \in StartMusic(p, song)
    PROVE  /\ q \in Player
           /\ q.volume = p.volume
           /\ q.music # "" \/ p.music = ""
           /\ InStep(p) => InStep(q)
           /\ q.music = song /\ p.music # "" => q.isPlaying /\ ~ q.isPaused
<1>1. NoMusic \notin Songs /\ "" \in Songs
  BY AudioPlayerAssumption
<1> DEFINE on == [p EXCEPT !.music = song, !.mixing = TRUE, !.active = TRUE,
                           !.isPlaying = TRUE, !.isPaused = FALSE]
<1>2. CASE song = "" /\ q = p
  BY <1>2
<1>3. CASE song # "" /\ q = StopMusic(p)
  BY <1>1, <1>3, MusicStopped
<1>4. CASE song # "" /\ q = on
  BY <1>1, <1>4 DEF Player, InStep
<1>5. (song = "" /\ q = p) \/ (song # "" /\ q = StopMusic(p)) \/ (song # "" /\ q = on)
  BY DEF StartMusic
<1> QED
  BY <1>2, <1>3, <1>4, <1>5

LEMMA PauseToggled ==
    ASSUME NEW p \in Player
    PROVE  /\ TogglePause(p) \in Player
           /\ TogglePause(p).volume = p.volume
           /\ TogglePause(p).music = p.music
           /\ TogglePause(p).isPlaying = p.isPlaying
           /\ InStep(p) => InStep(TogglePause(p))
  BY DEF TogglePause, Player, InStep

-----------------------------------------------------------------------------
(* The invariant. *)

\* The player never holds the empty path, which start refuses; so a song that is the
\* player's has been started.
NamedMusic == player.music # ""

ScreenInv ==
    /\ TypeOK /\ FlagsFollowMixer /\ NamedMusic
    /\ RingsAloud /\ QuietElsewhere /\ VolumeRestored

\* What every step but a change of the volume leaves of the player.
PlayerKept == /\ player' \in Player /\ InStep(player') /\ player'.music # ""
              /\ player'.volume = player.volume

LEMMA Percentages == userVolume \in UserVolumes => userVolume \in 0 .. 100
  BY AlarmScreenAssumption

LEMMA ScreenInvInit == Init => ScreenInv
<1> SUFFICES ASSUME Init PROVE ScreenInv
    OBVIOUS
<1> DEFINE silent == [music |-> NoMusic, isPlaying |-> FALSE, isPaused |-> FALSE,
                      mixing |-> FALSE, active |-> TRUE, volume |-> MixMaxVolume]
<1>1. userVolume \in UserVolumes /\ userVolume \in Int
  BY Percentages DEF Init
<1>2. silent \in Player /\ InStep(silent)
  <2>1. MixMaxVolume \in 0 .. MixMaxVolume
    <3>1. MixMaxVolume \in Nat
      BY AudioPlayerAssumption
    <3> QED
      BY <3>1
  <2> QED
    BY <2>1 DEF Player, InStep
<1>3. player = SetVolume(silent, userVolume)
  BY DEF Init
<1>4. silent.music = NoMusic /\ ~ silent.isPlaying
  OBVIOUS
<1> HIDE DEF silent
<1>5. /\ player \in Player /\ InStep(player)
      /\ player.music = NoMusic /\ ~ player.isPlaying
      /\ player.volume = SdlVolume(userVolume)
  BY <1>1, <1>2, <1>3, <1>4, VolumeSet
<1>6. NoMusic # ""
  BY AudioPlayerAssumption
<1>7. TypeOK
  <2>1. currentVolume \in Nat /\ \E v \in UserVolumes : currentVolume <= v
    BY <1>1, Percentages DEF Init
  <2> QED
    BY <1>1, <1>5, <2>1 DEF Init, TypeOK, Pages, Silencers
<1> QED
  BY <1>5, <1>6, <1>7
     DEF Init, ScreenInv, FlagsFollowMixer, NamedMusic, RingsAloud, Aloud, QuietElsewhere, VolumeRestored

\* An alarm rings, over whatever the player was doing.
LEMMA RingKeeps ==
    ASSUME ScreenInv, NEW song \in Songs, Ring(song)
    PROVE  ScreenInv'
<1> USE DEF ScreenInv
<1>1. PICK started \in StartMusic(player, song) :
         /\ player' = SetVolume(started, IF smooth THEN 0 ELSE userVolume)
         /\ silencedBy' = IF started.music = song THEN "nothing" ELSE "file"
  BY DEF Ring
<1>2. player \in Player /\ InStep(player) /\ player.music # ""
  BY DEF TypeOK, FlagsFollowMixer, NamedMusic
<1>3. /\ started \in Player /\ InStep(started) /\ started.music # ""
      /\ started.music = song => started.isPlaying /\ ~ started.isPaused
  BY <1>2, MusicStarted
<1>4. (IF smooth THEN 0 ELSE userVolume) \in Int
  BY Percentages DEF TypeOK
<1>5. /\ player' \in Player /\ InStep(player')
      /\ player'.music = started.music /\ player'.isPlaying = started.isPlaying
      /\ player'.isPaused = started.isPaused
  BY <1>1, <1>3, <1>4, VolumeSet
<1>6. popup' = song /\ song # Closed
  BY AlarmScreenAssumption DEF Ring
<1>7. TypeOK'
  BY <1>1, <1>5 DEF Ring, TypeOK, Silencers, user, view
<1>8. RingsAloud'
  BY <1>1, <1>3, <1>5, <1>6 DEF RingsAloud, Aloud
<1> QED
  BY <1>3, <1>5, <1>6, <1>7, <1>8
     DEF FlagsFollowMixer, NamedMusic, QuietElsewhere, VolumeRestored

\* A step of the rising volume, while the screen is open.
LEMMA VolumeTickKeeps ==
    ASSUME ScreenInv, VolumeTick
    PROVE  ScreenInv'
<1> USE DEF ScreenInv
<1>1. popup # Closed
  BY DEF VolumeTick, VolumeRestored
<1>2. player \in Player /\ InStep(player)
  BY DEF TypeOK, FlagsFollowMixer
<1>3. userVolume \in Nat /\ currentVolume \in Nat /\ VolumeStep \in Nat
  BY Percentages, AlarmScreenAssumption DEF TypeOK
<1>4. CASE currentVolume < userVolume
  <2>1. currentVolume' \in Nat /\ currentVolume' <= userVolume /\ player' = SetVolume(player, currentVolume')
    BY <1>3, <1>4 DEF VolumeTick
  <2>2. /\ player' \in Player /\ InStep(player') /\ player'.music = player.music
        /\ player'.isPlaying = player.isPlaying /\ player'.isPaused = player.isPaused
    BY <1>2, <2>1, VolumeSet
  <2>3. UNCHANGED <<timer, popup, silencedBy, user, dialog, closing, view>>
    BY <1>4 DEF VolumeTick
  <2>4. TypeOK'
    BY <2>1, <2>2, <2>3 DEF TypeOK, user, view
  <2> QED
    BY <1>1, <2>2, <2>3, <2>4
       DEF FlagsFollowMixer, NamedMusic, RingsAloud, Aloud, QuietElsewhere, VolumeRestored, user, view
<1>5. CASE ~ (currentVolume < userVolume)
  BY <1>1, <1>5
     DEF VolumeTick, TypeOK, FlagsFollowMixer, NamedMusic, RingsAloud, Aloud, QuietElsewhere, VolumeRestored, user, view
<1> QED
  BY <1>4, <1>5

\* Either button of the screen.
LEMMA CloseKeeps ==
    ASSUME ScreenInv, Close
    PROVE  ScreenInv'
<1> USE DEF ScreenInv
<1>1. player \in Player /\ userVolume \in Int
  BY Percentages DEF TypeOK
<1>2. player' = SetVolume(StopMusic(player), userVolume)
  BY DEF Close
<1>3. /\ player' \in Player /\ InStep(player') /\ player'.music = NoMusic
      /\ ~ player'.isPlaying /\ player'.volume = SdlVolume(userVolume)
  BY <1>1, <1>2, MusicStopped, VolumeSet
<1>4. NoMusic # ""
  BY AudioPlayerAssumption
<1>5. TypeOK'
  BY <1>3 DEF Close, TypeOK, Silencers, user, view
<1> QED
  BY <1>3, <1>4, <1>5
     DEF Close, FlagsFollowMixer, NamedMusic, RingsAloud, Aloud, QuietElsewhere, VolumeRestored, user, view

\* The slider of the sound page.
LEMMA MoveSliderKeeps ==
    ASSUME ScreenInv, MoveSlider
    PROVE  ScreenInv'
<1> USE DEF ScreenInv
<1>1. player \in Player /\ InStep(player) /\ userVolume' \in UserVolumes /\ userVolume' \in Int
  BY AlarmScreenAssumption DEF TypeOK, FlagsFollowMixer, MoveSlider
<1>2. player' = SetVolume(player, userVolume')
  BY DEF MoveSlider
<1>3. /\ player' \in Player /\ InStep(player') /\ player'.music = player.music
      /\ player'.isPlaying = player.isPlaying /\ player'.volume = SdlVolume(userVolume')
  BY <1>1, <1>2, VolumeSet
<1>4. popup = Closed
  BY DEF MoveSlider, OnPage
<1>5. TypeOK'
  BY <1>1, <1>3 DEF MoveSlider, TypeOK, ringing, view
<1> QED
  BY <1>3, <1>4, <1>5
     DEF MoveSlider, FlagsFollowMixer, NamedMusic, RingsAloud, Aloud, QuietElsewhere, VolumeRestored, ringing, view

\* The play buttons keep the volume and never leave the empty path in the player.
LEMMA PlayPauseKeeps ==
    ASSUME ScreenInv, NEW song \in Songs, PlayPause(song)
    PROVE  PlayerKept
<1>1. player \in Player /\ InStep(player) /\ player.music # ""
  BY DEF ScreenInv, TypeOK, FlagsFollowMixer, NamedMusic
<1>2. CASE player.isPlaying
  BY <1>1, <1>2, PauseToggled DEF PlayPause, PlayerKept
<1>3. CASE ~ player.isPlaying
  BY <1>1, <1>3, MusicStarted DEF PlayPause, PlayerKept
<1> QED
  BY <1>2, <1>3

\* Whatever stops the player leaves nothing playing.
LEMMA StopKeeps ==
    ASSUME ScreenInv, player' = StopMusic(player)
    PROVE  PlayerKept /\ ~ player'.isPlaying
<1>1. player \in Player /\ NoMusic # ""
  BY AudioPlayerAssumption DEF ScreenInv, TypeOK
<1>2. /\ StopMusic(player) \in Player /\ InStep(StopMusic(player))
      /\ StopMusic(player).music = NoMusic /\ StopMusic(player).volume = player.volume
      /\ ~ StopMusic(player).isPlaying
  BY <1>1, MusicStopped
<1> QED
  BY <1>1, <1>2 DEF PlayerKept

\* The dialog: previews, its choice of a song and the ways out of it.
LEMMA DialogKeeps ==
    ASSUME ScreenInv,
           OpenDialog \/ DialogPreview \/ DialogSong \/ CloseDialog \/ DialogClosed
    PROVE  ScreenInv'
<1> USE DEF ScreenInv
<1>1. CASE OpenDialog
  <2>1. dialog' \in Songs /\ dialog' # Closed
    BY <1>1, AlarmScreenAssumption DEF OpenDialog
  <2> QED
    BY <1>1, <2>1 DEF OpenDialog, TypeOK, FlagsFollowMixer, NamedMusic, RingsAloud, Aloud, QuietElsewhere,
                      VolumeRestored, user, ringing, view
<1>2. CASE DialogPreview
  <2>1. dialog \in Songs
    BY <1>2 DEF DialogPreview, TypeOK
  <2>2. PlayerKept
    BY <1>2, <2>1, PlayPauseKeeps DEF DialogPreview
  <2> QED
    BY <1>2, <2>2 DEF DialogPreview, PlayerKept, TypeOK, FlagsFollowMixer, NamedMusic, RingsAloud, Aloud,
                      QuietElsewhere, VolumeRestored, user, ringing, view
<1>3. CASE DialogSong
  <2>1. PlayerKept /\ ~ player'.isPlaying
    BY <1>3, StopKeeps DEF DialogSong
  <2>2. dialog' # Closed
    BY <1>3, AlarmScreenAssumption DEF DialogSong
  <2> QED
    BY <1>3, <2>1, <2>2 DEF DialogSong, PlayerKept, TypeOK, FlagsFollowMixer, NamedMusic, RingsAloud, Aloud,
                      QuietElsewhere, VolumeRestored, user, ringing, view
<1>4. CASE CloseDialog
  BY <1>4 DEF CloseDialog, TypeOK, FlagsFollowMixer, NamedMusic, RingsAloud, Aloud, QuietElsewhere,
              VolumeRestored, user, ringing, view
<1>5. CASE DialogClosed
  <2>1. PlayerKept /\ ~ player'.isPlaying
    BY <1>5, StopKeeps DEF DialogClosed
  <2>2. silencedBy' \in Silencers /\ (popup # Closed => silencedBy' # "nothing")
    BY <1>5 DEF DialogClosed, Silence, Silencers, TypeOK
  <2>3. /\ UNCHANGED <<userVolume, smooth, popup, timer, currentVolume, page, section, swiping>>
        /\ dialog' = Closed /\ closing' = FALSE
    BY <1>5 DEF DialogClosed, user, view
  <2>4. TypeOK'
    BY <2>1, <2>2, <2>3 DEF PlayerKept, TypeOK
  <2> QED
    BY <2>1, <2>2, <2>3, <2>4
       DEF PlayerKept, FlagsFollowMixer, NamedMusic, RingsAloud, QuietElsewhere, VolumeRestored
<1> QED
  BY <1>1, <1>2, <1>3, <1>4, <1>5

\* The sound page and the changes of sections and pages.
LEMMA PagesKeep ==
    ASSUME ScreenInv,
           SoundPreview \/ SoundSong \/ SetSmooth \/ Section \/ StartSwipe \/ Settle
    PROVE  ScreenInv'
<1> USE DEF ScreenInv
<1>1. CASE SoundPreview
  <2>1. PlayerKept
    BY <1>1, PlayPauseKeeps DEF SoundPreview
  <2> QED
    BY <1>1, <2>1 DEF SoundPreview, OnPage, PlayerKept, TypeOK, FlagsFollowMixer, NamedMusic, RingsAloud, Aloud,
                      QuietElsewhere, VolumeRestored, user, ringing, view
<1>2. CASE SoundSong
  <2>1. PlayerKept /\ ~ player'.isPlaying
    BY <1>2, StopKeeps DEF SoundSong
  <2> QED
    BY <1>2, <2>1 DEF SoundSong, OnPage, PlayerKept, TypeOK, FlagsFollowMixer, NamedMusic, RingsAloud, Aloud,
                      QuietElsewhere, VolumeRestored, user, ringing, view
<1>3. CASE SetSmooth
  BY <1>3 DEF SetSmooth, TypeOK, FlagsFollowMixer, NamedMusic, RingsAloud, Aloud, QuietElsewhere,
              VolumeRestored, ringing, view
<1>4. CASE Section
  <2>1. PlayerKept /\ ~ player'.isPlaying
    BY <1>4, StopKeeps DEF Section
  <2> QED
    BY <1>4, <2>1 DEF Section, OnPage, PlayerKept, TypeOK, FlagsFollowMixer, NamedMusic, RingsAloud, Aloud,
                      QuietElsewhere, VolumeRestored, user, ringing
<1>5. CASE StartSwipe
  BY <1>5 DEF StartSwipe, TypeOK, FlagsFollowMixer, NamedMusic, RingsAloud, Aloud, QuietElsewhere,
              VolumeRestored, user, ringing
<1>6. CASE Settle
  <2>1. CASE UNCHANGED <<page, player, silencedBy>>
    BY <1>6, <2>1 DEF Settle, TypeOK, FlagsFollowMixer, NamedMusic, RingsAloud, Aloud, QuietElsewhere,
                      VolumeRestored, user
  <2>2. CASE /\ page' \in Pages \ {page}
             /\ player' = StopMusic(player)
             /\ Silence("swipe")
    <3>1. PlayerKept /\ ~ player'.isPlaying
      BY <2>2, StopKeeps
    <3>2. silencedBy' \in Silencers /\ (popup # Closed => silencedBy' # "nothing")
      BY <2>2 DEF Silence, Silencers, TypeOK
    <3> QED
      BY <1>6, <2>2, <3>1, <3>2
         DEF Settle, PlayerKept, TypeOK, FlagsFollowMixer, NamedMusic, RingsAloud, Aloud, QuietElsewhere,
             VolumeRestored, user
  <2> QED
    BY <1>6, <2>1, <2>2 DEF Settle
<1> QED
  BY <1>1, <1>2, <1>3, <1>4, <1>5, <1>6

LEMMA ScreenInvNext == ScreenInv /\ [Next]_vars => ScreenInv'
<1> SUFFICES ASSUME ScreenInv, [Next]_vars
             PROVE  ScreenInv'
    OBVIOUS
<1>1. ASSUME NEW song \in Songs, Ring(song)
      PROVE  ScreenInv'
  BY <1>1, RingKeeps
<1>2. CASE VolumeTick
  BY <1>2, VolumeTickKeeps
<1>3. CASE Close
  BY <1>3, CloseKeeps
<1>4. CASE MoveSlider
  BY <1>4, MoveSliderKeeps
<1>5. CASE OpenDialog \/ DialogPreview \/ DialogSong \/ CloseDialog \/ DialogClosed
  BY <1>5, DialogKeeps
<1>6. CASE SoundPreview \/ SoundSong \/ SetSmooth \/ Section \/ StartSwipe \/ Settle
  BY <1>6, PagesKeep
<1>7. CASE UNCHANGED vars
  BY <1>7 DEF vars, user, ringing, view, ScreenInv, TypeOK, FlagsFollowMixer, NamedMusic, RingsAloud, Aloud,
              QuietElsewhere, VolumeRestored
<1> QED
  BY <1>1, <1>2, <1>3, <1>4, <1>5, <1>6, <1>7 DEF Next, AnAlarmRings

LEMMA ScreenInvHolds == Spec => []ScreenInv
<1>1. Init => ScreenInv
  BY ScreenInvInit
<1>2. ScreenInv /\ [Next]_vars => ScreenInv'
  BY ScreenInvNext
<1> QED
  BY <1>1, <1>2, PTL DEF Spec

-----------------------------------------------------------------------------
\* The types, with the mixer's volume within SDL_mixer's scale (audioplayer.cpp) and the
\* rising volume within what the user can set (AlarmScreen.qml).
THEOREM ScreenTyped == Spec => []TypeOK
<1>1. ScreenInv => TypeOK
  BY DEF ScreenInv
<1> QED
  BY <1>1, ScreenInvHolds, PTL

\* The flags of AudioPlayer, on which the play buttons decide, tell what SDL_mixer does.
THEOREM FlagsTellTheMixer == Spec => []FlagsFollowMixer
<1>1. ScreenInv => FlagsFollowMixer
  BY DEF ScreenInv
<1> QED
  BY <1>1, ScreenInvHolds, PTL

\* An alarm is heard whatever was played or paused before it (AlarmScreen.qml, show),
\* unless its file cannot be played, or a swipe or the dialog's closing that had begun
\* before it ends while it rings.
THEOREM AlarmsAreHeard == Spec => []RingsAloud
<1>1. ScreenInv => RingsAloud
  BY DEF ScreenInv
<1> QED
  BY <1>1, ScreenInvHolds, PTL

\* Every way out of the dialog, the sound page and the ringing screen stops the player.
THEOREM NothingPlaysOn == Spec => []QuietElsewhere
<1>1. ScreenInv => QuietElsewhere
  BY DEF ScreenInv
<1> QED
  BY <1>1, ScreenInvHolds, PTL

\* Whatever the rising volume has done, the user's volume is back when no alarm rings.
THEOREM UsersVolumeIsBack == Spec => []VolumeRestored
<1>1. ScreenInv => VolumeRestored
  BY DEF ScreenInv
<1> QED
  BY <1>1, ScreenInvHolds, PTL
=============================================================================
