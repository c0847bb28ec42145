---------------------------- MODULE ClientSession ----------------------------
(***************************************************************************)
(* The client's session: HttpClient sends requests, refreshes the tokens   *)
(* when one is answered 401 and sends it once more; HttpAuthGateway logs   *)
(* in and out; SessionService keeps the account that is signed in and      *)
(* saves it.  The tokens are kept twice, in HttpClient::m_tokens and in    *)
(* SessionService::m_session, and the server keeps a third view of them.   *)
(* Requests are asynchronous: each slot is one chain of requests, and      *)
(* answers are delivered in any order, late, or never (the client then     *)
(* gives up after its transfer timeout).                                   *)
(***************************************************************************)
EXTENDS Naturals, FiniteSets

CONSTANTS
  Users,      \* accounts
  NoUser,     \* no account
  NoTokens,   \* a TokenSet whose strings are empty
  NoSession,  \* m_session.has_value() is false
  Slots,      \* chains of requests that can be in flight at once (a bound)
  MaxTokens   \* token pairs the server issues (a bound)

\* An access token and the refresh token issued with it.
Tokens == [user : Users, serial : Nat]
Sessions == [user : Users, tokens : Tokens]

ASSUME SessionAssumption ==
  /\ NoUser \notin Users
  /\ NoTokens \notin Tokens
  /\ NoSession \notin Sessions
  /\ MaxTokens \in Nat

VARIABLES
  held,     \* HttpClient::m_tokens
  session,  \* SessionService::m_session
  file,     \* the account whose state file the store has open
  saved,    \* the session in each account's state file
  call,     \* the request of each slot that is in flight
  active,   \* server: refresh tokens that can be exchanged
  valid,    \* server: access tokens that are not expired
  issued,   \* server: number of token pairs issued
  upsets    \* history: what has gone other than plainly so far

client == <<held, session, file, saved>>
server == <<active, valid, issued>>
vars == <<held, session, file, saved, call, active, valid, issued, upsets>>

-----------------------------------------------------------------------------
(* Requests *)

Idle == [path |-> "idle", refreshing |-> FALSE, retried |-> FALSE,
         access |-> NoTokens, sent |-> NoTokens, body |-> NoTokens,
         user |-> NoUser, answer |-> "none", gives |-> NoTokens, sends |-> 0]

Paths == {"login", "me", "logout", "ask"}
Answers == {"none", "ok", "denied", "rejected", "lost"}
Upsets == {"overlap", "switch", "loss", "store", "slowLogin"}

Calls ==
  [path : Paths \cup {"idle"}, refreshing : BOOLEAN, retried : BOOLEAN,
   access : Tokens \cup {NoTokens},   \* the accessToken argument
   sent : Tokens \cup {NoTokens},     \* the token in the header
   body : Tokens \cup {NoTokens},     \* the refresh token in the body
   user : Users \cup {NoUser},        \* the account of a login
   answer : Answers, gives : Tokens \cup {NoTokens},
   sends : Nat]                       \* history: times it was sent

TypeOK ==
  /\ held \in Tokens \cup {NoTokens}
  /\ session \in Sessions \cup {NoSession}
  /\ file \in Users \cup {NoUser}
  /\ saved \in [Users \cup {NoUser} -> Sessions \cup {NoSession}]
  /\ call \in [Slots -> Calls]
  /\ active \subseteq Tokens
  /\ valid \subseteq Tokens
  /\ issued \in Nat
  /\ upsets \subseteq Upsets

Init ==
  /\ held = NoTokens
  /\ session = NoSession
  /\ file = NoUser
  /\ saved = [u \in Users \cup {NoUser} |-> NoSession]
  /\ call = [s \in Slots |-> Idle]
  /\ active = {}
  /\ valid = {}
  /\ issued = 0
  /\ upsets = {}

InFlight == {s \in Slots : call[s].path # "idle"}
SigningInOrOut == {s \in Slots : call[s].path \in {"login", "me", "logout"}}

\* requestFor: a protected request carries the tokens held by now.
EffectiveToken(access) ==
  IF access # NoTokens /\ held # NoTokens THEN held ELSE access

\* Mutant: a retried request may be retried again.
CanRefreshTwice(c) ==
  c.answer = "denied" /\ held # NoTokens /\ ~c.refreshing

CanRefresh(c) ==
  c.answer = "denied" /\ ~c.retried /\ held # NoTokens /\ ~c.refreshing

-----------------------------------------------------------------------------
(* Operations the client starts *)

Begin(s, c) == call[s] = Idle /\ call' = [call EXCEPT ![s] = c]

\* SessionService::login, HttpAuthGateway::login.
Login(s, u) ==
  /\ Begin(s, [Idle EXCEPT !.path = "login", !.user = u, !.sends = 1])
  /\ upsets' = upsets \cup (IF InFlight # {} THEN {"overlap"} ELSE {})
                       \cup (IF session # NoSession THEN {"switch"} ELSE {})
  /\ UNCHANGED <<client, server>>

\* The refresh token that a logout revokes.
LogoutToken == IF session # NoSession THEN session.tokens ELSE NoTokens

\* SessionService::logout, HttpAuthGateway::logout.
Logout(s) ==
  /\ Begin(s, [Idle EXCEPT !.path = "logout", !.body = LogoutToken,
                           !.sends = 1])
  /\ upsets' = IF InFlight # {} THEN upsets \cup {"overlap"} ELSE upsets
  /\ UNCHANGED <<client, server>>

\* Any request of a signed-in account: it passes SessionService::accessToken.
Ask(s) ==
  /\ session # NoSession
  /\ Begin(s, [Idle EXCEPT !.path = "ask", !.access = session.tokens,
                           !.sent = EffectiveToken(session.tokens),
                           !.sends = 1])
  /\ upsets' = IF SigningInOrOut # {} THEN upsets \cup {"overlap"} ELSE upsets
  /\ UNCHANGED <<client, server>>

-----------------------------------------------------------------------------
(* The server *)

Answer(s, a, t) ==
  /\ call[s].path # "idle"
  /\ call[s].answer = "none"
  /\ call' = [call EXCEPT ![s].answer = a, ![s].gives = t]
  /\ UNCHANGED <<client, upsets>>

\* A new token pair for u, in place of old.
Issue(u, old) ==
  /\ issued < MaxTokens
  /\ issued' = issued + 1
  /\ active' = (active \ old) \cup {[user |-> u, serial |-> issued + 1]}
  /\ valid' = valid \cup {[user |-> u, serial |-> issued + 1]}

NewTokens(u) == [user |-> u, serial |-> issued + 1]

\* POST /auth/login with the right password, or a wrong one.
ServeLogin(s) ==
  /\ call[s].path = "login" /\ ~call[s].refreshing
  /\ \/ Answer(s, "ok", NewTokens(call[s].user)) /\ Issue(call[s].user, {})
     \/ Answer(s, "denied", NoTokens) /\ UNCHANGED server

\* POST /auth/refresh exchanges a refresh token once.
ServeRefresh(s) ==
  /\ call[s].refreshing
  /\ LET t == call[s].body IN
     \/ t \in active /\ Answer(s, "ok", NewTokens(t.user)) /\ Issue(t.user, {t})
     \/ t \notin active /\ Answer(s, "denied", NoTokens) /\ UNCHANGED server

\* POST /auth/logout succeeds for every token, and refuses an empty one.
ServeLogout(s) ==
  /\ call[s].path = "logout" /\ ~call[s].refreshing
  /\ Answer(s, IF call[s].body = NoTokens THEN "rejected" ELSE "ok", NoTokens)
  /\ active' = active \ {call[s].body}
  /\ UNCHANGED <<valid, issued>>

\* GET /auth/me and every other protected request.
ServeProtected(s) ==
  /\ call[s].path \in {"me", "ask"} /\ ~call[s].refreshing
  /\ Answer(s, IF call[s].sent \in valid THEN "ok" ELSE "denied", NoTokens)
  /\ UNCHANGED server

\* A request refused for a reason of its own (rate limit, validation, 5xx).
TurnAway(s) ==
  /\ call[s].path # "idle" /\ call[s].answer = "none"
  /\ call' = [call EXCEPT ![s].answer = "rejected"]
  /\ upsets' = upsets \cup {"loss"}
  /\ UNCHANGED <<client, server>>

\* The request or its answer is lost: the transfer timeout ends the call.
Lose(s) ==
  /\ call[s].path # "idle" /\ call[s].answer # "lost"
  /\ call' = [call EXCEPT ![s].answer = "lost", ![s].gives = NoTokens]
  /\ upsets' = upsets \cup {"loss"}
  /\ UNCHANGED <<client, server>>

\* The access token of a pair expires.
Expire(t) ==
  /\ valid' = valid \ {t}
  /\ UNCHANGED <<client, call, active, issued, upsets>>

-----------------------------------------------------------------------------
(* Answers the client handles *)

\* saveSession, which may fail and then leaves the file as it was.
Save(f, x) ==
  \/ saved' = [saved EXCEPT ![f] = x] /\ UNCHANGED upsets
  \/ UNCHANGED saved /\ upsets' = upsets \cup {"store"}

\* A 401 that can be refreshed: POST /auth/refresh with the token held now.
Refresh(s) ==
  /\ CanRefresh(call[s])
  /\ call' = [call EXCEPT ![s] =
       [@ EXCEPT !.refreshing = TRUE, !.body = held, !.sent = NoTokens,
                 !.answer = "none"]]
  /\ upsets' = IF call[s].path = "me" THEN upsets \cup {"slowLogin"} ELSE upsets
  /\ UNCHANGED <<client, server>>

\* Mutant: the session is not told about the tokens.
UpdateTokensLost(t) == UNCHANGED <<session, saved, upsets>>

\* SessionService::updateTokens.
UpdateTokens(t) ==
  IF session = NoSession THEN UNCHANGED <<session, saved, upsets>>
  ELSE /\ session' = [session EXCEPT !.tokens = t]
       /\ Save(file, session')

\* refreshTokens succeeded: the tokens are replaced and the request is resent.
Refreshed(s) ==
  /\ call[s].refreshing /\ call[s].answer = "ok"
  /\ held' = call[s].gives
  /\ UpdateTokens(call[s].gives)
  /\ call' = [call EXCEPT ![s] =
       [@ EXCEPT !.refreshing = FALSE, !.retried = TRUE, !.body = NoTokens,
                 !.sent = IF call[s].access = NoTokens THEN NoTokens
                          ELSE call[s].gives,
                 !.answer = "none", !.gives = NoTokens,
                 !.sends = call[s].sends + 1]]
  /\ UNCHANGED <<file, server>>

\* The callback gets the failure, and the operation is over.
Fails(s) ==
  /\ call[s].answer \in {"denied", "rejected", "lost"}
  /\ ~CanRefresh(call[s])
  /\ call' = [call EXCEPT ![s] = Idle]
  /\ UNCHANGED <<client, server, upsets>>

\* The tokens of a login are set, and GET /auth/me asks for its user.
LoggedIn(s) ==
  /\ call[s].path = "login" /\ ~call[s].refreshing /\ call[s].answer = "ok"
  /\ held' = call[s].gives
  /\ call' = [call EXCEPT ![s] =
       [Idle EXCEPT !.path = "me", !.access = call[s].gives,
                    !.sent = call[s].gives, !.sends = 1]]
  /\ UNCHANGED <<session, file, saved, server, upsets>>

\* Mutant: the session of an earlier account is kept.
NewSessionKept(u, t) ==
  IF session # NoSession THEN session ELSE [user |-> u, tokens |-> t]

NewSession(u, t) == [user |-> u, tokens |-> t]

\* The end of SessionService::login: the store is switched to the user's file,
\* which may fail, and the session is set and saved.  Its user is the one the
\* server knows by the token of the request, its tokens are those of the login.
SignedIn(s) ==
  /\ call[s].path = "me" /\ ~call[s].refreshing /\ call[s].answer = "ok"
  /\ call' = [call EXCEPT ![s] = Idle]
  /\ LET u == call[s].sent.user IN
     \/ /\ file' \in {file, u}
        /\ upsets' = upsets \cup {"store"}
        /\ UNCHANGED <<session, saved>>
     \/ /\ file' = u
        /\ session' = NewSession(u, call[s].access)
        /\ Save(u, session')
  /\ UNCHANGED <<held, server>>

\* Mutant: the tokens of the session that ended are kept.
ClearedTokensKept == held

ClearedTokens == NoTokens

\* The end of a logout: tokens, session and saved session are cleared.
SignedOut(s) ==
  /\ call[s].path = "logout" /\ ~call[s].refreshing /\ call[s].answer = "ok"
  /\ held' = ClearedTokens
  /\ session' = NoSession
  /\ Save(file, NoSession)
  /\ call' = [call EXCEPT ![s] = Idle]
  /\ UNCHANGED <<file, server>>

\* The answer to any other request.
Answered(s) ==
  /\ call[s].path = "ask" /\ ~call[s].refreshing /\ call[s].answer = "ok"
  /\ call' = [call EXCEPT ![s] = Idle]
  /\ UNCHANGED <<client, server, upsets>>

\* The client stops, at any point, and starts again: main restores the session
\* saved in the file of the last account, or the user skips that.
Restart ==
  /\ session' \in {NoSession, saved[file]}
  /\ held' = IF session' = NoSession THEN NoTokens ELSE session'.tokens
  /\ call' = [s \in Slots |-> Idle]
  /\ upsets' = IF InFlight # {} \/ session' # session
               THEN upsets \cup {"loss"} ELSE upsets
  /\ UNCHANGED <<file, saved, server>>

Serve(s) ==
  ServeLogin(s) \/ ServeRefresh(s) \/ ServeLogout(s) \/ ServeProtected(s)
  \/ TurnAway(s) \/ Lose(s)

Handle(s) ==
  Refresh(s) \/ Refreshed(s) \/ Fails(s) \/ LoggedIn(s) \/ SignedIn(s)
  \/ SignedOut(s) \/ Answered(s)

Next ==
  \/ \E s \in Slots : \/ \E u \in Users : Login(s, u)
                      \/ Logout(s) \/ Ask(s) \/ Serve(s) \/ Handle(s)
  \/ \E t \in valid : Expire(t)
  \/ Restart

Spec == Init /\ [][Next]_vars

-----------------------------------------------------------------------------
(* Properties *)

Plain(kinds) == upsets \cap kinds = {}

\* No login or logout overlapped another request, and if one account signed in
\* over another, then nothing failed.
Undisturbed ==
  /\ Plain({"overlap"})
  /\ Plain({"switch"}) \/ Plain({"loss", "store", "slowLogin"})

\* Every request of a signed-in account goes out in the name of the account that
\* /whoami shows (HttpClient::requestFor takes the token from m_tokens, the
\* account is SessionService's).
ActsAsShown ==
  \A s \in Slots :
    Undisturbed /\ call[s].path = "ask" /\ call[s].sent # NoTokens =>
      session # NoSession /\ call[s].sent.user = session.user

\* What LoggedInAs ("Logged in as %1 (%2).") says: a request of a session, when
\* it is the only one in flight, runs as the session's account.
RunsAsWhoami ==
  \A s \in Slots :
    InFlight = {s} /\ call[s].path = "ask" /\ call[s].sent # NoTokens
      /\ session # NoSession => call[s].sent.user = session.user

\* The three copies of the tokens (HttpClient, SessionService, the state file)
\* agree while nobody is signing in or out, however refreshes interleave and
\* whatever answers are lost.
CopiesAgree ==
  Undisturbed /\ Plain({"store", "slowLogin"}) /\ SigningInOrOut = {}
    /\ session # NoSession =>
    saved[file] = session /\ held = session.tokens

\* README: rotated tokens are persisted.  With no failure of the store and no
\* overlap, a session whose requests are over has saved the tokens in use.
PersistsRotated ==
  Plain({"overlap", "store", "loss"}) /\ session # NoSession /\ InFlight = {} =>
    saved[file] # NoSession /\ saved[file].tokens = held

\* When nothing went wrong and nothing is in flight, the refresh tokens the
\* server would exchange are exactly the client's: a refresh left none behind,
\* and a logout revoked the last one and cleared it.
ServerAgrees ==
  Plain(Upsets) /\ InFlight = {} =>
    IF session = NoSession THEN active = {} /\ held = NoTokens
    ELSE active = {session.tokens} /\ held = session.tokens

\* A request is sent at most twice, whatever the server answers.
RetriedOnce == \A s \in Slots : call[s].sends <= 2

\* AuthRequiredError ("... your session expired. Log in and try again.") is
\* shown only for a session the server no longer knows.
ExpiredMeansExpired ==
  [][\A s \in Slots :
       call[s].path = "ask" /\ call[s].refreshing /\ call[s].answer = "denied"
         /\ call'[s] = Idle /\ session # NoSession /\ upsets' = {}
       => session.tokens \notin active]_vars

-----------------------------------------------------------------------------
(* The inductive invariant of the proofs *)

\* What a chain of requests carries at each of its steps; a logout is never
\* refreshed, and a request is refreshed at most once.
CallShaped(c) ==
  /\ c.path = "idle" => c = Idle
  /\ c.path = "login" => c.user \in Users
  /\ c.path \in {"login", "logout"} => c.access = NoTokens
  /\ c.path = "logout" => ~c.refreshing /\ c.answer # "denied"
  /\ c.path \in {"me", "ask"} =>
       c.access \in Tokens /\ (c.refreshing \/ c.sent \in Tokens)
  /\ c.refreshing => c.body \in Tokens /\ ~c.retried
  /\ c.answer = "ok" /\ (c.refreshing \/ c.path = "login") =>
       c.gives \in Tokens
  /\ c.answer # "ok" => c.gives = NoTokens
  /\ c.sends <= IF c.retried THEN 2 ELSE 1

TInv == TypeOK /\ \A s \in Slots : CallShaped(call[s])

\* Tokens the client knows of were issued.
Known(t) == t = NoTokens \/ t.serial <= issued

AllKnown ==
  /\ Known(held)
  /\ session # NoSession => Known(session.tokens)
  /\ \A f \in Users \cup {NoUser} :
       saved[f] # NoSession => Known(saved[f].tokens)
  /\ \A s \in Slots : /\ Known(call[s].access) /\ Known(call[s].body)
                       /\ Known(call[s].gives)

\* A login or logout that nothing overlaps is alone.
Exclusive ==
  Plain({"overlap"}) => \A s \in SigningInOrOut : InFlight = {s}

SigningIn == {s \in Slots : call[s].path = "me"}

\* The tokens of a session are its account's.
OwnTokens(x) == x # NoSession => x.tokens.user = x.user

\* Whose tokens a request carries, and gets.
CallOwn(c) ==
  /\ c.refreshing =>
       /\ held \in Tokens /\ c.body.user = held.user
       /\ c.answer = "ok" => c.gives.user = c.body.user
  /\ c.path = "ask" =>
       session # NoSession /\ (c.sent # NoTokens => c.sent.user = session.user)
  /\ c.path = "me" =>
       /\ held \in Tokens /\ c.access.user = held.user
       /\ ~c.refreshing => c.sent.user = held.user
       /\ Plain({"slowLogin"}) =>
            held = c.access /\ ~c.refreshing /\ ~c.retried
       /\ Plain({"loss"}) => c.answer \in {"none", "ok", "denied"}
  /\ c.path \in {"login", "me"} /\ session # NoSession => "switch" \in upsets

\* Why ActsAsShown holds: between the tokens and the session of a login, nothing
\* can be asked, and the login does not fail.
Own ==
  Undisturbed =>
    /\ OwnTokens(session)
    /\ \A f \in Users \cup {NoUser} : OwnTokens(saved[f])
    /\ session # NoSession /\ SigningIn = {} =>
         held \in Tokens /\ held.user = session.user
    /\ \A s \in Slots : CallOwn(call[s])

\* Why CopiesAgree holds: it does during logins and logouts, too, until the
\* tokens of a login are set.
Agree ==
  Undisturbed /\ Plain({"store", "slowLogin"}) /\ SigningIn = {}
    /\ session # NoSession =>
    saved[file] = session /\ held = session.tokens

\* Requests that the server has answered with new tokens, or by revoking one.
Pending == {s \in Slots : call[s].refreshing /\ call[s].answer = "ok"}
Changing ==
  Pending \cup {s \in Slots : call[s].path \in {"login", "logout"}
                              /\ call[s].answer = "ok"}

\* Why ServerAgrees holds: where the server and the client differ, the answer
\* that will change the client is on its way, and it is the only one.
Server ==
  Plain(Upsets) =>
    /\ \A s, t \in Pending : s = t
    /\ \A s \in Pending :
         /\ active = {call[s].gives} /\ held # call[s].gives
         /\ \A t \in Slots :
              call[t].refreshing => call[t].body # call[s].gives
    /\ Changing = {} => active = IF held = NoTokens THEN {} ELSE {held}
    /\ session = NoSession /\ SigningIn = {} => held = NoTokens
    /\ \A s \in Slots :
         LET c == call[s] IN
         /\ c.path \in {"login", "me"} => session = NoSession /\ ~c.refreshing
         /\ c.path = "login" /\ c.answer = "ok" => active = {c.gives}
         /\ c.path = "logout" =>
              c.body = LogoutToken /\ (c.answer = "ok" => active = {})

SInv == TInv /\ AllKnown /\ Exclusive /\ Own /\ Agree /\ Server

=============================================================================
