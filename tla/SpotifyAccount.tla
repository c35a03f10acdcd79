--------------------------- MODULE SpotifyAccount ---------------------------
(***************************************************************************)
(* The tokens and the playlists of src/spotify.cpp.  A refresh token is    *)
(* renewed at the start and every half hour; the phone may send the code of*)
(* another account at any moment (handleSpotifyCode).  The accounts service*)
(* may hand out a new refresh token with each renewal, and then takes the  *)
(* old one no longer.  Requests are served, answered or lost in any order. *)
(*                                                                         *)
(* An access token is the account it is for; a refresh token also has a    *)
(* serial number.  A list of playlists is the account it belongs to; a page*)
(* shows the lists as they were when playlists_changed was sent last.      *)
(*                                                                         *)
(* The tokens and the client's id are kept in userdata.json, which         *)
(* write_user_json truncates and writes again for each key, on the GUI     *)
(* thread: no other handler runs meanwhile, but the power may fail.  A file*)
(* that is empty or half written reads like one without any key.           *)
(***************************************************************************)
EXTENDS Integers, Sequences, FiniteSets, FiniteSetsExt

CONSTANTS Accounts, FirstAccount,
          NoAccount,       \* no access token, and: no refresh token in an answer
          Free,            \* a place for a request that is not used
          SpotifySlots,    \* bound on the requests under way
          MaxSerial,       \* bound on refresh tokens handed out
          MaxCodes,        \* bound on codes from the phone
          MaxMishaps       \* bound on lost requests, lost answers and power failures

\* A refresh token, and what an answer without one holds.
Token == [account : Accounts, serial : 0 .. MaxSerial]
NoToken == [account |-> NoAccount, serial |-> 0]

\* The requests, and the answers of the accounts service.
AccountRequest ==
    [kind : {"renew"}, token : Token \cup {NoToken}]
       \cup [kind : {"code", "playlists"}, account : Accounts]
       \cup [kind : {"renewed", "exchanged"}, account : Accounts, refresh : Token \cup {NoToken}]

ASSUME SpotifyAccountAssumption ==
       /\ FirstAccount \in Accounts
       /\ NoAccount \notin Accounts
       /\ Free \notin AccountRequest
       /\ {SpotifySlots, MaxSerial, MaxCodes, MaxMishaps} \subseteq Nat
       /\ SpotifySlots > 0

VARIABLES
    access, refresh,            \* access_token, refresh_token
    clientID,                     \* clientID is set
    tokenFile,                       \* userdata.json
    writes,                     \* what is still to be written to it, one after the other
    emptied,                  \* it is open for writing
    playlists,                  \* playlists: the answers one after the other, at most two
    shownLists,                 \* those that the page shows
    requests,                   \* requests and answers under way
    valid,                      \* refresh tokens the accounts service takes
    issued,                     \* how many it has handed out
    codes, mishaps,
    login,                      \* history: account of the last code
    loggedIn,                   \* history: that code has been exchanged
    stale,                      \* history: places of requests made before that
    mixed,                      \* history: the answer to one of those was taken
    lostToken,                  \* history: an answer with a new refresh token was lost
    unsaved,                    \* history: tokens that came are not saved yet
    cutSave,                    \* history: the power failed then
    cutSetting                  \* history: it failed when the file was emptied for a setting

accountVars == <<access, refresh, clientID, tokenFile, writes, emptied, playlists, shownLists,
                 requests, valid, issued, codes, mishaps, login, loggedIn, stale, mixed,
                 lostToken, unsaved, cutSave, cutSetting>>
tokenVars == <<access, refresh, clientID>>
saveVars == <<tokenFile, writes, emptied, unsaved>>
listVars == <<playlists, shownLists>>
lossVars == <<lostToken, cutSave, cutSetting>>

Slots == 1 .. SpotifySlots

-----------------------------------------------------------------------------
FreePlaces == {p \in Slots : requests[p] = Free}

Ask(r) == [requests EXCEPT ![Min(FreePlaces)] = r]

\* get_access_token, handleSpotifyCode, scan_playlists
Renewal(token) == [kind |-> "renew", token |-> token]
Exchange(account) == [kind |-> "code", account |-> account]
Listing(account) == [kind |-> "playlists", account |-> account]

\* An answer of the accounts service; refresh is NoToken when it keeps the old one.
Tokens(kind, account, token) == [kind |-> kind, account |-> account, refresh |-> token]
Answered(p) == requests[p] # Free /\ requests[p].kind \in {"renewed", "exchanged"}
Carries(p) == Answered(p) /\ requests[p].refresh # NoToken

NewToken(account) == [account |-> account, serial |-> issued + 1]

\* What userdata.json holds of Spotify, and what a file without keys reads as.
Saved(a, r) == [access |-> a, refresh |-> r, clientID |-> clientID]
BlankFile == [access |-> NoAccount, refresh |-> NoToken, clientID |-> FALSE]

\* No file is being written: the GUI thread may run another handler.
AtRest == writes = <<>>

-----------------------------------------------------------------------------
AccountInit ==
    /\ access = FirstAccount
    /\ refresh = [account |-> FirstAccount, serial |-> 0]
    /\ clientID = TRUE
    /\ tokenFile = Saved(access, refresh)
    /\ writes = <<>>
    /\ emptied = FALSE
    /\ playlists = <<>>
    /\ shownLists = <<>>
    /\ requests = [p \in Slots |-> IF p = 1 THEN Renewal(refresh) ELSE Free]
    /\ valid = {refresh}
    /\ issued = 0
    /\ codes = 0
    /\ mishaps = 0
    /\ login = FirstAccount
    /\ loggedIn = TRUE
    /\ stale = {}
    /\ mixed = FALSE
    /\ lostToken = FALSE
    /\ unsaved = FALSE
    /\ cutSave = FALSE
    /\ cutSetting = FALSE

\* get_access_token, every half hour.
GetAccessToken ==
    /\ AtRest
    /\ FreePlaces # {}
    /\ requests' = Ask(Renewal(refresh))
    /\ stale' = IF loggedIn THEN stale ELSE stale \cup {Min(FreePlaces)}
    /\ UNCHANGED <<tokenVars, saveVars, listVars, valid, issued, codes, mishaps, login, loggedIn,
                   mixed, lossVars>>

\* Mutant: the lists of the last account stay.
HandleSpotifyCodeKeeps(a) ==
    /\ AtRest
    /\ codes < MaxCodes
    /\ FreePlaces # {}
    /\ codes' = codes + 1
    /\ requests' = Ask(Exchange(a))
    /\ login' = a
    /\ loggedIn' = FALSE
    /\ stale' = Slots \ FreePlaces
    /\ mixed' = FALSE
    /\ UNCHANGED <<tokenVars, saveVars, listVars, valid, issued, mishaps, lossVars>>

\* handleSpotifyCode empties the lists and tells nobody.
HandleSpotifyCode(a) ==
    /\ AtRest
    /\ codes < MaxCodes
    /\ FreePlaces # {}
    /\ codes' = codes + 1
    /\ playlists' = <<>>
    /\ requests' = Ask(Exchange(a))
    /\ login' = a
    /\ loggedIn' = FALSE
    /\ stale' = Slots \ FreePlaces
    /\ mixed' = FALSE
    /\ UNCHANGED <<tokenVars, saveVars, shownLists, valid, issued, mishaps, lossVars>>

\* The accounts service takes a renewal: it may replace the refresh token.
ServeRenewal(p) ==
    /\ requests[p] # Free /\ requests[p].kind = "renew"
    /\ LET old == requests[p].token
           new == NewToken(old.account)
       IN  IF clientID /\ old \in valid
           THEN \/ /\ requests' = [requests EXCEPT ![p] = Tokens("renewed", old.account, NoToken)]
                   /\ UNCHANGED <<valid, issued>>
                \/ /\ new \in Token
                   /\ requests' = [requests EXCEPT ![p] = Tokens("renewed", old.account, new)]
                   /\ valid' = (valid \ {old}) \cup {new}
                   /\ issued' = issued + 1
           ELSE /\ requests' = [requests EXCEPT ![p] = Free]    \* an error: nothing happens
                /\ UNCHANGED <<valid, issued>>
    /\ stale' = IF requests'[p] = Free THEN stale \ {p} ELSE stale
    /\ UNCHANGED <<tokenVars, saveVars, listVars, codes, mishaps, login, loggedIn, mixed, lossVars>>

\* A code is a new login, with a token of its own.
ServeExchange(p) ==
    /\ requests[p] # Free /\ requests[p].kind = "code"
    /\ clientID
    /\ LET a == requests[p].account
           new == NewToken(a)
       IN  /\ new \in Token
           /\ requests' = [requests EXCEPT ![p] = Tokens("exchanged", a, new)]
           /\ valid' = valid \cup {new}
           /\ issued' = issued + 1
    /\ UNCHANGED <<tokenVars, saveVars, listVars, codes, mishaps, login, loggedIn, stale, mixed, lossVars>>

\* Without a client's id the code is refused: the error branch does nothing.
RefuseExchange(p) ==
    /\ requests[p] # Free /\ requests[p].kind = "code"
    /\ ~ clientID
    /\ requests' = [requests EXCEPT ![p] = Free]
    /\ stale' = stale \ {p}
    /\ UNCHANGED <<tokenVars, saveVars, listVars, valid, issued, codes, mishaps, login, loggedIn, mixed,
                   lossVars>>

\* What both answers with tokens do in memory; then the playlists are requested, and
\* scan_playlists has the page show the lists as they are.
TakeInMemory(p) ==
    LET answer == requests[p]
    IN  /\ access' = answer.account
        /\ refresh' = IF answer.refresh = NoToken THEN refresh ELSE answer.refresh
        /\ requests' = [requests EXCEPT ![p] = Listing(answer.account)]
        /\ shownLists' = playlists
        /\ unsaved' = TRUE

\* Mutant: the new refresh token is not saved.
TakeTokensUnsaved(p) ==
    /\ TakeInMemory(p)
    /\ writes' = <<Saved(requests[p].account, tokenFile.refresh)>>

\* The tokens are taken and saved, a refresh token after the access token.
TakeTokens(p) ==
    /\ TakeInMemory(p)
    /\ writes' = LET first == Saved(requests[p].account, tokenFile.refresh)
                 IN  IF requests[p].refresh = NoToken THEN <<first>>
                     ELSE <<first, Saved(requests[p].account, requests[p].refresh)>>

\* handleTokenReply
HandleTokenReply(p) ==
    /\ AtRest
    /\ requests[p] # Free /\ requests[p].kind = "renewed"
    /\ TakeTokens(p)
    /\ mixed' = (mixed \/ p \in stale)
    /\ UNCHANGED <<clientID, tokenFile, emptied, playlists, valid, issued, codes, mishaps, login,
                   loggedIn, stale, lossVars>>

\* The answer in handleSpotifyCode.
CodeReply(p) ==
    /\ AtRest
    /\ requests[p] # Free /\ requests[p].kind = "exchanged"
    /\ TakeTokens(p)
    /\ mixed' = (mixed \/ p \in stale)
    /\ loggedIn' = (loggedIn \/ p \notin stale)
    /\ UNCHANGED <<clientID, tokenFile, emptied, playlists, valid, issued, codes, mishaps, login,
                   stale, lossVars>>

\* Another setting is saved: the same file is written, with the tokens it holds.
SaveSetting ==
    /\ AtRest
    /\ writes' = <<tokenFile>>
    /\ UNCHANGED <<tokenVars, tokenFile, emptied, unsaved, listVars, requests, valid, issued, codes, mishaps,
                   login, loggedIn, stale, mixed, lossVars>>

\* write_user_json, to the truncation, and to the end.
TruncateFile ==
    /\ writes # <<>> /\ ~ emptied
    /\ emptied' = TRUE
    /\ tokenFile' = BlankFile
    /\ UNCHANGED <<tokenVars, writes, unsaved, listVars, requests, valid, issued, codes, mishaps, login,
                   loggedIn, stale, mixed, lossVars>>

WriteFile ==
    /\ emptied
    /\ emptied' = FALSE
    /\ tokenFile' = Head(writes)
    /\ writes' = Tail(writes)
    /\ unsaved' = (unsaved /\ writes' # <<>>)
    /\ UNCHANGED <<tokenVars, listVars, requests, valid, issued, codes, mishaps, login, loggedIn,
                   stale, mixed, lossVars>>

\* The answer in scan_playlists is appended, and the page shows the lists.
PlaylistsReply(p) ==
    /\ AtRest
    /\ requests[p] # Free /\ requests[p].kind = "playlists"
    /\ playlists' = IF Len(playlists) < 2 THEN Append(playlists, requests[p].account)
                    ELSE playlists
    /\ shownLists' = playlists'
    /\ requests' = [requests EXCEPT ![p] = Free]
    /\ mixed' = (mixed \/ p \in stale)
    /\ stale' = stale \ {p}
    /\ UNCHANGED <<tokenVars, saveVars, valid, issued, codes, mishaps, login, loggedIn, lossVars>>

\* A request or its answer is lost: the error branches do nothing.
RequestLost(p) ==
    /\ requests[p] # Free
    /\ mishaps < MaxMishaps
    /\ mishaps' = mishaps + 1
    /\ lostToken' = (lostToken \/ Carries(p))
    /\ requests' = [requests EXCEPT ![p] = Free]
    /\ stale' = stale \ {p}
    /\ UNCHANGED <<tokenVars, saveVars, listVars, valid, issued, codes, login, loggedIn, mixed,
                   cutSave, cutSetting>>

\* A power failure; the constructor reads the tokens and renews them at once.
SpotifyRestart ==
    /\ mishaps < MaxMishaps
    /\ mishaps' = mishaps + 1
    /\ lostToken' = (lostToken \/ \E p \in Slots : Carries(p))
    /\ cutSave' = (cutSave \/ unsaved)
    /\ cutSetting' = (cutSetting \/ (emptied /\ ~ unsaved))
    /\ unsaved' = FALSE
    /\ access' = tokenFile.access
    /\ refresh' = tokenFile.refresh
    /\ clientID' = tokenFile.clientID
    /\ writes' = <<>>
    /\ emptied' = FALSE
    /\ playlists' = <<>>
    /\ shownLists' = <<>>
    /\ requests' = [p \in Slots |-> IF p = 1 THEN Renewal(tokenFile.refresh) ELSE Free]
    /\ login' = tokenFile.refresh.account
    /\ loggedIn' = TRUE
    /\ stale' = {}
    /\ mixed' = (tokenFile.access # tokenFile.refresh.account)
    /\ UNCHANGED <<tokenFile, valid, issued, codes>>

AccountNext ==
    \/ GetAccessToken
    \/ \E a \in Accounts : HandleSpotifyCode(a)
    \/ \E p \in Slots :
          \/ ServeRenewal(p) \/ ServeExchange(p) \/ RefuseExchange(p)
          \/ HandleTokenReply(p) \/ CodeReply(p) \/ PlaylistsReply(p)
          \/ RequestLost(p)
    \/ SaveSetting \/ TruncateFile \/ WriteFile
    \/ SpotifyRestart

AccountSpec == AccountInit /\ [][AccountNext]_accountVars

-----------------------------------------------------------------------------
HoldsToken ==
    /\ clientID
    /\ refresh \in valid \/ \E p \in Slots : Carries(p) /\ requests[p].refresh \in valid

\* The host does not lock itself out: it holds a refresh token the service takes and
\* its client's id, or such a token is on its way, unless an answer with a new one was
\* lost or the power failed before it was saved, or while the file was empty for the
\* sake of a setting.  Two renewals under way at once present the same token, and the
\* second is refused: its error branch must leave the tokens alone, and each new token
\* must reach the file before the GUI thread does anything else.
StaysLoggedIn == lostToken \/ cutSave \/ cutSetting \/ HoldsToken

\* Until a code from the phone is exchanged the page shows the lists that it showed;
\* once it is, the tokens are of the account it was for, and the lists shown too: those
\* of the account before were emptied in time.  But an answer that is taken to a request
\* made before the exchange ends that, until the next code.
NewAccountOnly ==
    ~ mixed /\ loggedIn => /\ access = login /\ refresh.account = login
                          /\ \A i \in DOMAIN shownLists : shownLists[i] = login
=============================================================================
