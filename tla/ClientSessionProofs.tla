-------------------------- MODULE ClientSessionProofs --------------------------
(***************************************************************************)
(* SInv is an invariant of ClientSession for any accounts, chains of       *)
(* requests and token pairs: what each chain carries at each step, and how *)
(* the client's copies of the tokens and the server's differ while an      *)
(* answer is on its way.  One lemma per action; the theorems are at the end.*)
(***************************************************************************)
EXTENDS ClientSession, TLAPS

-----------------------------------------------------------------------------
(* The chains of requests *)

\* A slot that is free is well formed.
LEMMA IdleShaped == Idle \in Calls /\ CallShaped(Idle)
BY SessionAssumption DEF Idle, Calls, CallShaped, Paths, Answers

\* A step that replaces one chain by a well-formed one.
LEMMA CallUpdated ==
  ASSUME TInv, NEW s \in Slots, NEW d \in Calls, CallShaped(d),
         call' = [call EXCEPT ![s] = d]
  PROVE  /\ call' \in [Slots -> Calls] /\ \A t \in Slots : CallShaped(call'[t])
         /\ \A t \in Slots : call'[t] = IF t = s THEN d ELSE call[t]
<1>1. call \in [Slots -> Calls] /\ \A t \in Slots : CallShaped(call[t])
  BY DEF TInv, TypeOK
<1>2. call' \in [Slots -> Calls]
  BY <1>1
<1>3. \A t \in Slots : call'[t] = IF t = s THEN d ELSE call[t]
  BY <1>1
<1> QED
  BY <1>1, <1>2, <1>3

\* The chain of a slot after each kind of step.
LoginCall(u) == [Idle EXCEPT !.path = "login", !.user = u, !.sends = 1]
LogoutCall ==
  [Idle EXCEPT !.path = "logout", !.body = LogoutToken, !.sends = 1]
AskCall == [Idle EXCEPT !.path = "ask", !.access = session.tokens,
                        !.sent = EffectiveToken(session.tokens), !.sends = 1]
AnswerCall(c, a, t) == [c EXCEPT !.answer = a, !.gives = t]
RefreshCall(c) == [c EXCEPT !.refreshing = TRUE, !.body = held,
                            !.sent = NoTokens, !.answer = "none"]
ResentCall(c) ==
  [c EXCEPT !.refreshing = FALSE, !.retried = TRUE, !.body = NoTokens,
            !.sent = IF c.access = NoTokens THEN NoTokens ELSE c.gives,
            !.answer = "none", !.gives = NoTokens,
            !.sends = c.sends + 1]
MeCall(c) == [Idle EXCEPT !.path = "me", !.access = c.gives,
                          !.sent = c.gives, !.sends = 1]

\* Their fields.
LEMMA IdleFields ==
  /\ Idle.path = "idle" /\ ~Idle.refreshing /\ ~Idle.retried
  /\ Idle.access = NoTokens /\ Idle.sent = NoTokens /\ Idle.body = NoTokens
  /\ Idle.user = NoUser /\ Idle.answer = "none" /\ Idle.gives = NoTokens
  /\ Idle.sends = 0
BY DEF Idle

LEMMA LoginFields ==
  ASSUME NEW u \in Users, NEW d, d = LoginCall(u)
  PROVE  /\ d \in Calls /\ CallShaped(d)
         /\ d.path = "login" /\ ~d.refreshing /\ ~d.retried
         /\ d.access = NoTokens /\ d.sent = NoTokens /\ d.body = NoTokens
         /\ d.user = u /\ d.answer = "none" /\ d.gives = NoTokens
         /\ d.sends = 1
<1>1. /\ d \in Calls /\ d.path = "login" /\ ~d.refreshing /\ ~d.retried
      /\ d.access = NoTokens /\ d.sent = NoTokens /\ d.body = NoTokens
      /\ d.user = u /\ d.answer = "none" /\ d.gives = NoTokens /\ d.sends = 1
  BY IdleShaped, IdleFields DEF LoginCall, Calls, Paths
<1> QED
  BY <1>1 DEF CallShaped

LEMMA LogoutFields ==
  ASSUME TInv, NEW d, d = LogoutCall
  PROVE  /\ d \in Calls /\ CallShaped(d)
         /\ d.path = "logout" /\ ~d.refreshing /\ ~d.retried
         /\ d.access = NoTokens /\ d.sent = NoTokens /\ d.body = LogoutToken
         /\ d.user = NoUser /\ d.answer = "none" /\ d.gives = NoTokens
         /\ d.sends = 1
<1>1. LogoutToken \in Tokens \cup {NoTokens}
  BY DEF LogoutToken, TInv, TypeOK, Sessions
<1>2. /\ d \in Calls /\ d.path = "logout" /\ ~d.refreshing /\ ~d.retried
      /\ d.access = NoTokens /\ d.sent = NoTokens /\ d.body = LogoutToken
      /\ d.user = NoUser /\ d.answer = "none" /\ d.gives = NoTokens
      /\ d.sends = 1
  BY <1>1, IdleShaped, IdleFields DEF LogoutCall, Calls, Paths
<1> QED
  BY <1>1, <1>2 DEF CallShaped

LEMMA AskFields ==
  ASSUME TInv, session # NoSession, NEW d, d = AskCall
  PROVE  /\ d \in Calls /\ CallShaped(d)
         /\ d.path = "ask" /\ ~d.refreshing /\ ~d.retried
         /\ d.access = session.tokens
         /\ d.sent = EffectiveToken(session.tokens) /\ d.body = NoTokens
         /\ d.user = NoUser /\ d.answer = "none" /\ d.gives = NoTokens
         /\ d.sends = 1
<1>1. session.tokens \in Tokens /\ session.tokens # NoTokens
  BY SessionAssumption DEF TInv, TypeOK, Sessions
<1>2. EffectiveToken(session.tokens) \in Tokens
  BY <1>1 DEF EffectiveToken, TInv, TypeOK
<1>3. /\ d \in Calls /\ d.path = "ask" /\ ~d.refreshing /\ ~d.retried
      /\ d.access = session.tokens /\ d.sent = EffectiveToken(session.tokens)
      /\ d.body = NoTokens /\ d.user = NoUser /\ d.answer = "none"
      /\ d.gives = NoTokens /\ d.sends = 1
  BY <1>1, <1>2, IdleShaped, IdleFields DEF AskCall, Calls, Paths
<1> QED
  BY <1>1, <1>2, <1>3 DEF CallShaped

LEMMA MeFields ==
  ASSUME NEW c \in Calls, CallShaped(c), c.path = "login", c.answer = "ok",
         NEW d, d = MeCall(c)
  PROVE  /\ d \in Calls /\ CallShaped(d)
         /\ d.path = "me" /\ ~d.refreshing /\ ~d.retried
         /\ d.access = c.gives /\ d.sent = c.gives /\ d.body = NoTokens
         /\ d.user = NoUser /\ d.answer = "none" /\ d.gives = NoTokens
         /\ d.sends = 1
<1>1. c.gives \in Tokens
  BY DEF CallShaped
<1>2. /\ d \in Calls /\ d.path = "me" /\ ~d.refreshing /\ ~d.retried
      /\ d.access = c.gives /\ d.sent = c.gives /\ d.body = NoTokens
      /\ d.user = NoUser /\ d.answer = "none" /\ d.gives = NoTokens
      /\ d.sends = 1
  BY <1>1, IdleShaped, IdleFields DEF MeCall, Calls, Paths
<1> QED
  BY <1>1, <1>2 DEF CallShaped

LEMMA AnswerFields ==
  ASSUME NEW c \in Calls, CallShaped(c), c.path # "idle", NEW a \in Answers,
         NEW t \in Tokens \cup {NoTokens},
         a = "ok" /\ (c.refreshing \/ c.path = "login") => t \in Tokens,
         a # "ok" => t = NoTokens,
         c.path = "logout" => a # "denied",
         NEW d, d = AnswerCall(c, a, t)
  PROVE  /\ d \in Calls /\ CallShaped(d)
         /\ d.path = c.path /\ d.refreshing = c.refreshing
         /\ d.retried = c.retried /\ d.access = c.access /\ d.sent = c.sent
         /\ d.body = c.body /\ d.user = c.user /\ d.answer = a /\ d.gives = t
         /\ d.sends = c.sends
<1>1. /\ d \in Calls /\ d.path = c.path /\ d.refreshing = c.refreshing
      /\ d.retried = c.retried /\ d.access = c.access /\ d.sent = c.sent
      /\ d.body = c.body /\ d.user = c.user /\ d.answer = a /\ d.gives = t
      /\ d.sends = c.sends
  BY DEF AnswerCall, Calls
<1> QED
  BY <1>1 DEF CallShaped

LEMMA RefreshFields ==
  ASSUME TInv, NEW c \in Calls, CallShaped(c), CanRefresh(c),
         NEW d, d = RefreshCall(c)
  PROVE  /\ d \in Calls /\ CallShaped(d)
         /\ d.path = c.path /\ d.refreshing /\ d.retried = c.retried
         /\ d.access = c.access /\ d.sent = NoTokens /\ d.body = held
         /\ d.user = c.user /\ d.answer = "none" /\ d.gives = c.gives
         /\ d.sends = c.sends
<1>1. held \in Tokens /\ c.answer = "denied" /\ ~c.retried
  BY DEF TInv, TypeOK, CanRefresh
<1>2. c.path # "idle" /\ c.path # "logout" /\ c.gives = NoTokens
  BY <1>1, IdleFields DEF CallShaped
<1>3. /\ d \in Calls /\ d.path = c.path /\ d.refreshing
      /\ d.retried = c.retried /\ d.access = c.access /\ d.sent = NoTokens
      /\ d.body = held /\ d.user = c.user /\ d.answer = "none"
      /\ d.gives = c.gives /\ d.sends = c.sends
  BY <1>1, <1>2 DEF RefreshCall, Calls, Answers
<1> QED
  BY <1>1, <1>2, <1>3 DEF CallShaped

LEMMA ResentFields ==
  ASSUME NEW c \in Calls, CallShaped(c), c.refreshing, c.answer = "ok",
         NEW d, d = ResentCall(c)
  PROVE  /\ d \in Calls /\ CallShaped(d)
         /\ d.path = c.path /\ ~d.refreshing /\ d.retried
         /\ d.access = c.access
         /\ d.sent = (IF c.access = NoTokens THEN NoTokens ELSE c.gives)
         /\ d.body = NoTokens /\ d.user = c.user /\ d.answer = "none"
         /\ d.gives = NoTokens /\ d.sends = c.sends + 1
<1>1. c.gives \in Tokens /\ ~c.retried /\ c.sends \in Nat /\ c.sends <= 1
  BY DEF CallShaped, Calls
<1>2. c.path # "idle" /\ c.path # "logout"
  BY IdleFields DEF CallShaped
<1>3. c.path \in {"me", "ask"} => c.access \in Tokens /\ c.access # NoTokens
  BY SessionAssumption DEF CallShaped
<1> DEFINE t == IF c.access = NoTokens THEN NoTokens ELSE c.gives
<1>4. t \in Tokens \cup {NoTokens}
  BY <1>1
<1> DEFINE e == [c EXCEPT !.refreshing = FALSE, !.retried = TRUE,
                          !.body = NoTokens]
<1>5. /\ e \in Calls /\ e.path = c.path /\ ~e.refreshing /\ e.retried
      /\ e.access = c.access /\ e.body = NoTokens /\ e.user = c.user
      /\ e.sends = c.sends
  BY DEF Calls
<1> DEFINE n == e.sends + 1
<1>6. /\ d = [e EXCEPT !.sent = t, !.answer = "none", !.gives = NoTokens,
                      !.sends = n]
      /\ n \in Nat /\ n = c.sends + 1
  BY <1>1, <1>5 DEF ResentCall
<1> HIDE DEF t, e, n
<1>7. /\ d \in Calls /\ d.path = e.path /\ d.refreshing = e.refreshing
      /\ d.retried = e.retried /\ d.access = e.access /\ d.sent = t
      /\ d.body = e.body /\ d.user = e.user /\ d.answer = "none"
      /\ d.gives = NoTokens /\ d.sends = n
  BY <1>4, <1>5, <1>6 DEF Calls, Answers
<1> QED
  BY <1>1, <1>2, <1>3, <1>5, <1>6, <1>7 DEF CallShaped, t

-----------------------------------------------------------------------------
(* The steps *)

\* Once more has gone wrong, more is claimed of nothing.
LEMMA PlainBefore ==
  ASSUME upsets \subseteq upsets'
  PROVE  /\ \A kinds : Plain(kinds)' => Plain(kinds)
         /\ Undisturbed' => Undisturbed
BY DEF Plain, Undisturbed

\* SessionService::login and HttpAuthGateway::login.
LEMMA LoginStep ==
  ASSUME SInv, NEW s \in Slots, NEW u \in Users, Login(s, u)
  PROVE  SInv'
<1>1. PICK d : d = LoginCall(u)
  OBVIOUS
<1>2. /\ d \in Calls /\ CallShaped(d)
      /\ d.path = "login" /\ ~d.refreshing /\ ~d.retried
      /\ d.access = NoTokens /\ d.sent = NoTokens /\ d.body = NoTokens
      /\ d.user = u /\ d.answer = "none" /\ d.gives = NoTokens
      /\ d.sends = 1
  BY <1>1, LoginFields
<1>3. /\ call[s] = Idle /\ call' = [call EXCEPT ![s] = d]
      /\ UNCHANGED <<held, session, file, saved, active, valid, issued>>
  BY <1>1 DEF Login, Begin, LoginCall, client, server
<1>4. /\ upsets \subseteq upsets'
      /\ upsets' \subseteq upsets \cup {"overlap", "switch"}
      /\ InFlight # {} => "overlap" \in upsets'
      /\ session # NoSession => "switch" \in upsets'
  BY DEF Login
<1>5. /\ call' \in [Slots -> Calls] /\ \A t \in Slots : CallShaped(call'[t])
      /\ \A t \in Slots : call'[t] = IF t = s THEN d ELSE call[t]
  BY <1>2, <1>3, CallUpdated DEF SInv
<1>6. TInv'
  BY <1>3, <1>4, <1>5 DEF SInv, TInv, TypeOK, Upsets
<1>7. AllKnown'
  BY <1>2, <1>3, <1>5 DEF SInv, AllKnown, Known
<1>8. Plain({"overlap"})' => \A t \in Slots : t # s => call'[t].path = "idle"
  BY <1>4, <1>5 DEF InFlight, Plain
<1>9. Exclusive'
  BY <1>2, <1>5, <1>8 DEF Exclusive, SigningInOrOut, InFlight
<1>10. Own'
  <2> SUFFICES ASSUME Undisturbed'
               PROVE  Own'
    BY DEF Own
  <2>1. Undisturbed /\ Own /\ Plain({"overlap"})'
    BY <1>4, PlainBefore DEF SInv, Undisturbed
  <2>2. \A t \in Slots : t # s => call'[t] = Idle /\ call[t] = Idle
    BY <1>5, <1>8, <2>1 DEF CallShaped
  <2>3. SigningIn' = {} /\ SigningIn = {}
    BY <1>2, <1>3, <1>5, <2>2, IdleFields DEF SigningIn
  <2>4. \A t \in Slots : CallOwn(call[t])'
    BY <1>2, <1>3, <1>4, <1>5, <2>2, IdleFields DEF CallOwn
  <2> QED
    BY <1>3, <2>1, <2>3, <2>4 DEF Own, OwnTokens
<1>11. Agree'
  <2> SUFFICES ASSUME Undisturbed', Plain({"store", "slowLogin"})',
                      session # NoSession, SigningIn' = {}
               PROVE  saved[file] = session /\ held = session.tokens
    BY <1>3 DEF Agree
  <2>1. Undisturbed /\ Plain({"store", "slowLogin"})
    BY <1>4, PlainBefore
  <2>2. SigningIn = {}
    BY <1>3, <1>5, IdleFields DEF SigningIn
  <2> QED
    BY <2>1, <2>2 DEF SInv, Agree
<1>12. Server'
  <2> SUFFICES ASSUME Plain(Upsets)'
               PROVE  Server'
    BY DEF Server
  <2>1. Plain(Upsets) /\ Server /\ session = NoSession /\ Plain({"overlap"})'
    BY <1>4, PlainBefore DEF SInv, Plain, Upsets
  <2>2. \A t \in Slots : t # s => call'[t] = Idle /\ call[t] = Idle
    BY <1>5, <1>8, <2>1 DEF CallShaped
  <2>3. /\ SigningIn = {} /\ Changing = {} /\ SigningIn' = {} /\ Changing' = {}
        /\ Pending' = {}
    BY <1>2, <1>3, <1>5, <2>2, IdleFields DEF SigningIn, Changing, Pending
  <2>4. held = NoTokens /\ active = {}
    BY <2>1, <2>3 DEF Server
  <2> QED
    BY <1>2, <1>3, <1>5, <2>1, <2>2, <2>3, <2>4, IdleFields DEF Server
<1> QED
  BY <1>6, <1>7, <1>9, <1>10, <1>11, <1>12 DEF SInv

\* A login or logout that nothing overlapped is alone.
LEMMA Alone ==
  ASSUME SInv, Plain({"overlap"}), NEW s \in Slots,
         call[s].path \in {"login", "me", "logout"}
  PROVE  \A t \in Slots : t # s => call[t] = Idle
BY DEF SInv, TInv, CallShaped, Exclusive, InFlight, SigningInOrOut

\* While a request of a session is in flight, nobody signs in or out.
LEMMA AskingOnly ==
  ASSUME SInv, Plain({"overlap"}), NEW s \in Slots, call[s].path = "ask"
  PROVE  \A t \in Slots : call[t].path \notin {"login", "me", "logout"}
<1> SUFFICES ASSUME NEW t \in Slots, call[t].path \in {"login", "me", "logout"}
             PROVE  FALSE
  OBVIOUS
<1>1. call[s] = Idle
  BY Alone
<1> QED
  BY <1>1, IdleFields

\* GET /auth/me of a login fails only after something went wrong.
LEMMA LoginGoesOn ==
  ASSUME SInv, Undisturbed, Plain({"loss", "slowLogin"}), NEW s \in Slots,
         call[s].path = "me", call[s].answer \in {"denied", "rejected", "lost"}
  PROVE  CanRefresh(call[s])
<1>1. CallOwn(call[s])
  BY DEF SInv, Own
<1>2. Plain({"loss"}) /\ Plain({"slowLogin"})
  BY DEF Plain
<1> QED
  BY <1>1, <1>2, SessionAssumption DEF CallOwn, CanRefresh

\* All of the invariant but what is said about the server.
ClientInv == TInv /\ AllKnown /\ Exclusive /\ Own /\ Agree

\* What an answer changes in the slots.
OnlyReplies(s, a, t) ==
  /\ \A r \in Slots :
       /\ r # s => call'[r] = call[r]
       /\ call'[r].path = call[r].path
       /\ call'[r].refreshing = call[r].refreshing
       /\ call'[r].body = call[r].body
  /\ call'[s].answer = a /\ call'[s].gives = t

\* An answer changes neither which requests are in flight nor what they carry.
LEMMA Replied ==
  ASSUME SInv, NEW s \in Slots, call[s].path # "idle", NEW a \in Answers,
         NEW t \in Tokens \cup {NoTokens},
         a = "ok" /\ (call[s].refreshing \/ call[s].path = "login") =>
           t \in Tokens,
         a # "ok" => t = NoTokens,
         call[s].path = "logout" => a # "denied",
         a = "ok" /\ call[s].refreshing => t.user = call[s].body.user,
         call[s].path = "me" /\ Plain({"loss"})' => a \in {"none", "ok", "denied"},
         call' = [call EXCEPT ![s] = AnswerCall(call[s], a, t)],
         UNCHANGED client, upsets \subseteq upsets', upsets' \subseteq Upsets,
         active' \subseteq Tokens, valid' \subseteq Tokens,
         issued' \in Nat, issued <= issued', Known(t)'
  PROVE  ClientInv' /\ OnlyReplies(s, a, t)
<1> DEFINE c == call[s]
<1>1. PICK d : d = AnswerCall(c, a, t)
  OBVIOUS
<1>2. c \in Calls /\ CallShaped(c)
  BY DEF SInv, TInv, TypeOK
<1>3. /\ d \in Calls /\ CallShaped(d)
      /\ d.path = c.path /\ d.refreshing = c.refreshing
      /\ d.retried = c.retried /\ d.access = c.access /\ d.sent = c.sent
      /\ d.body = c.body /\ d.user = c.user /\ d.answer = a /\ d.gives = t
      /\ d.sends = c.sends
  BY <1>1, <1>2, AnswerFields
<1>4. /\ call' \in [Slots -> Calls] /\ \A r \in Slots : CallShaped(call'[r])
      /\ \A r \in Slots : call'[r] = IF r = s THEN d ELSE call[r]
  BY <1>1, <1>3, CallUpdated DEF SInv
<1>5. UNCHANGED <<held, session, file, saved>>
  BY DEF client
<1>6. TInv'
  BY <1>4, <1>5 DEF SInv, TInv, TypeOK
<1>7. AllKnown'
  <2>1. \A x \in Tokens \cup {NoTokens} : Known(x) => Known(x)'
    BY SessionAssumption DEF Known, Tokens, SInv, TInv, TypeOK
  <2>2. \A r \in Slots : (/\ Known(call[r].access) /\ Known(call[r].body)
                         /\ Known(call[r].gives))'
    BY <1>3, <1>4, <2>1 DEF SInv, TInv, TypeOK, AllKnown, Calls, Known
  <2>3. Known(held)' /\ (session # NoSession => Known(session.tokens)')
    BY <2>1, <1>5 DEF SInv, TInv, TypeOK, AllKnown, Sessions
  <2>4. ASSUME NEW f \in Users \cup {NoUser}, saved[f] # NoSession
        PROVE  Known(saved[f].tokens)'
    BY <2>1, <2>4, <1>5 DEF SInv, TInv, TypeOK, AllKnown, Sessions
  <2> QED
    BY <1>4, <1>5, <2>2, <2>3, <2>4 DEF AllKnown
<1>8. \A r \in Slots : call'[r].path = call[r].path
                       /\ call'[r].refreshing = call[r].refreshing
                       /\ call'[r].body = call[r].body
  BY <1>3, <1>4
<1>9. /\ InFlight' = InFlight /\ SigningInOrOut' = SigningInOrOut
      /\ SigningIn' = SigningIn
  BY <1>8 DEF InFlight, SigningInOrOut, SigningIn
<1>10. Exclusive'
  BY <1>9, PlainBefore DEF SInv, Exclusive
<1>11. Own'
  <2> SUFFICES ASSUME Undisturbed'
               PROVE  Own'
    BY DEF Own
  <2>1. Undisturbed /\ Own
    BY PlainBefore DEF SInv
  <2>2. CallOwn(c) /\ \A r \in Slots : CallOwn(call[r])
    BY <2>1 DEF Own
  <2>3. ASSUME NEW r \in Slots, r # s
        PROVE  CallOwn(call[r])'
    <3>1. call'[r] = call[r] /\ CallOwn(call[r])
      BY <1>4, <2>2, <2>3
    <3>2. /\ Plain({"loss"})' => Plain({"loss"})
          /\ Plain({"slowLogin"})' => Plain({"slowLogin"})
      BY PlainBefore
    <3> QED
      BY <1>5, <3>1, <3>2 DEF CallOwn
  <2>4. CallOwn(call[s])'
    <3>1. call'[s] = d
      BY <1>4
    <3>2. /\ Plain({"loss"})' => Plain({"loss"})
          /\ Plain({"slowLogin"})' => Plain({"slowLogin"})
      BY PlainBefore
    <3> QED
      BY <1>3, <1>5, <2>2, <3>1, <3>2 DEF CallOwn
  <2> QED
    BY <1>5, <1>9, <2>1, <2>3, <2>4 DEF Own, OwnTokens
<1>12. Agree'
  <2>1. /\ Undisturbed' => Undisturbed
        /\ Plain({"store", "slowLogin"})' => Plain({"store", "slowLogin"})
    BY PlainBefore
  <2> QED
    BY <1>5, <1>9, <2>1 DEF SInv, Agree
<1> QED
  BY <1>3, <1>4, <1>6, <1>7, <1>8, <1>10, <1>11, <1>12
     DEF ClientInv, OnlyReplies

\* The two parts of an answer are set at once.
LEMMA AnswerSets ==
  ASSUME TInv, NEW s \in Slots, NEW a, NEW t, Answer(s, a, t)
  PROVE  /\ call[s].path # "idle" /\ call[s].answer = "none"
         /\ call' = [call EXCEPT ![s] = AnswerCall(call[s], a, t)]
         /\ UNCHANGED client /\ UNCHANGED upsets
BY DEF Answer, AnswerCall, TInv, TypeOK

\* A plain state is one that nothing overlapped and nothing disturbed.
LEMMA PlainAll ==
  ASSUME SInv, Plain(Upsets)
  PROVE  /\ Server /\ Undisturbed /\ Own
         /\ Plain({"overlap"}) /\ Plain({"loss", "slowLogin"})
         /\ SigningIn = {} /\ session # NoSession =>
              held = session.tokens /\ held \in Tokens
<1>1. /\ Undisturbed /\ Plain({"overlap"}) /\ Plain({"loss", "slowLogin"})
      /\ Plain({"store", "slowLogin"})
  BY DEF Plain, Upsets, Undisturbed
<1> QED
  BY <1>1 DEF SInv, Server, Own, Agree

\* A new pair of tokens was never seen before.
LEMMA NewTokensNew ==
  ASSUME TInv, NEW u \in Users
  PROVE  /\ NewTokens(u) \in Tokens /\ NewTokens(u).user = u
         /\ NewTokens(u).serial = issued + 1
         /\ \A t \in Tokens : Known(t) => t # NewTokens(u)
BY SessionAssumption DEF NewTokens, Tokens, Known, TInv, TypeOK

\* POST /auth/login.
LEMMA ServeLoginStep ==
  ASSUME SInv, NEW s \in Slots, ServeLogin(s)
  PROVE  SInv'
<1>u. PICK u : u = call[s].user
  OBVIOUS
<1>1. /\ TInv /\ call[s].path = "login" /\ ~call[s].refreshing
      /\ u \in Users
  BY <1>u DEF SInv, TInv, TypeOK, CallShaped, ServeLogin
<1>3. Plain(Upsets) => /\ \A t \in Slots : t # s => call[t] = Idle
                       /\ session = NoSession /\ held = NoTokens
  <2> SUFFICES ASSUME Plain(Upsets)
               PROVE  /\ \A t \in Slots : t # s => call[t] = Idle
                      /\ session = NoSession /\ held = NoTokens
    OBVIOUS
  <2>1. \A t \in Slots : t # s => call[t] = Idle
    BY <1>1, PlainAll, Alone
  <2>2. SigningIn = {}
    BY <1>1, <2>1, IdleFields DEF SigningIn
  <2> QED
    BY <1>1, <2>1, <2>2, PlainAll DEF Server
<1>4. /\ upsets \subseteq Upsets /\ active \subseteq Tokens
      /\ valid \subseteq Tokens /\ issued \in Nat
  BY <1>1 DEF TInv, TypeOK
<1>5. CASE Answer(s, "ok", NewTokens(u)) /\ Issue(u, {})
  <2>1. /\ call[s].path # "idle" /\ call[s].answer = "none"
        /\ call' = [call EXCEPT ![s] = AnswerCall(call[s], "ok", NewTokens(u))]
        /\ UNCHANGED client /\ upsets' = upsets
    BY <1>1, <1>5, AnswerSets
  <2>2. PICK t : t = NewTokens(u)
    OBVIOUS
  <2>3. t \in Tokens /\ t.serial = issued + 1
    BY <1>1, <2>2, NewTokensNew
  <2>4. /\ issued' = issued + 1 /\ active' = active \cup {t}
        /\ valid' = valid \cup {t}
    BY <1>5, <2>2 DEF Issue, NewTokens
  <2>5. Known(t)'
    BY <2>3, <2>4, <1>4 DEF Known
  <2>6. /\ issued' \in Nat /\ issued <= issued' /\ active' \subseteq Tokens
        /\ valid' \subseteq Tokens
    BY <1>4, <2>3, <2>4
  <2>7. ClientInv' /\ OnlyReplies(s, "ok", t)
    BY <1>1, <1>4, <2>1, <2>2, <2>3, <2>5, <2>6, Replied DEF Answers
  <2>8. Server'
    <3> SUFFICES ASSUME Plain(Upsets)'
                 PROVE  Server'
      BY DEF Server
    <3>1. /\ \A r \in Slots : r # s => call[r] = Idle
          /\ session = NoSession /\ held = NoTokens /\ Server /\ Plain(Upsets)
      BY <1>3, <2>1, PlainAll DEF Plain
    <3>2. Changing = {} /\ Pending' = {} /\ s \in Changing'
      BY <1>1, <2>1, <2>7, <3>1, IdleFields DEF Changing, Pending, OnlyReplies
    <3>3. active' = {t} /\ session' = NoSession /\ held' = NoTokens
      BY <2>1, <2>4, <3>1, <3>2 DEF Server, client
    <3> QED
      BY <1>1, <2>7, <3>1, <3>2, <3>3, IdleFields DEF Server, OnlyReplies
  <2> QED
    BY <2>7, <2>8 DEF SInv, ClientInv
<1>6. CASE Answer(s, "denied", NoTokens) /\ UNCHANGED server
  <2>1. /\ call[s].path # "idle" /\ call[s].answer = "none"
        /\ call' = [call EXCEPT ![s] = AnswerCall(call[s], "denied", NoTokens)]
        /\ UNCHANGED client /\ upsets' = upsets
    BY <1>1, <1>6, AnswerSets
  <2>2. UNCHANGED <<active, valid, issued>> /\ issued <= issued'
    BY <1>4, <1>6 DEF server
  <2>3. Known(NoTokens)'
    BY DEF Known
  <2>4. ClientInv' /\ OnlyReplies(s, "denied", NoTokens)
    BY <1>1, <1>4, <2>1, <2>2, <2>3, Replied DEF Answers
  <2>5. Server'
    <3> SUFFICES ASSUME Plain(Upsets)'
                 PROVE  Server'
      BY DEF Server
    <3>1. /\ \A r \in Slots : r # s => call[r] = Idle
          /\ session = NoSession /\ held = NoTokens /\ Server /\ Plain(Upsets)
      BY <1>3, <2>1, PlainAll DEF Plain
    <3>2. Changing = {} /\ Pending' = {} /\ Changing' = {}
      BY <1>1, <2>1, <2>4, <3>1, IdleFields DEF Changing, Pending, OnlyReplies
    <3>3. active' = {} /\ session' = NoSession /\ held' = NoTokens
      BY <2>1, <2>2, <3>1, <3>2 DEF Server, client
    <3> QED
      BY <1>1, <2>4, <3>1, <3>2, <3>3, IdleFields DEF Server, OnlyReplies
  <2> QED
    BY <2>4, <2>5 DEF SInv, ClientInv
<1> QED
  BY <1>u, <1>5, <1>6 DEF ServeLogin

\* While requests of a session are in flight and all is plain, the tokens of the
\* client are those the server exchanges, unless an answer is on its way.
LEMMA PlainAsking ==
  ASSUME SInv, Plain(Upsets), NEW s \in Slots, call[s].path = "ask"
  PROVE  /\ Changing = Pending /\ SigningIn = {}
         /\ session # NoSession /\ held = session.tokens /\ held \in Tokens
<1>1. \A t \in Slots : call[t].path \notin {"login", "me", "logout"}
  BY PlainAll, AskingOnly
<1>2. CallOwn(call[s])
  BY PlainAll DEF Own
<1>3. Changing = Pending /\ SigningIn = {} /\ session # NoSession
  BY <1>1, <1>2 DEF Changing, SigningIn, CallOwn
<1> QED
  BY <1>3, PlainAll

\* POST /auth/refresh.
LEMMA ServeRefreshStep ==
  ASSUME SInv, NEW s \in Slots, ServeRefresh(s)
  PROVE  SInv'
<1>b. PICK b : b = call[s].body
  OBVIOUS
<1>1. /\ TInv /\ call[s].refreshing /\ b \in Tokens /\ b.user \in Users
      /\ call[s].path # "logout" /\ call[s].path # "idle"
      /\ call[s].path \in Paths
  BY <1>b, IdleFields
     DEF SInv, TInv, TypeOK, CallShaped, ServeRefresh, Calls, Tokens
<1>2. /\ upsets \subseteq Upsets /\ active \subseteq Tokens
      /\ valid \subseteq Tokens /\ issued \in Nat
  BY <1>1 DEF TInv, TypeOK
<1>3. Plain(Upsets) => call[s].path = "ask"
  BY <1>1, PlainAll DEF Server, Paths
<1>4. CASE b \in active /\ Answer(s, "ok", NewTokens(b.user)) /\ Issue(b.user, {b})
  <2>1. /\ call[s].path # "idle" /\ call[s].answer = "none"
        /\ call' = [call EXCEPT ![s] =
                      AnswerCall(call[s], "ok", NewTokens(b.user))]
        /\ UNCHANGED client /\ upsets' = upsets
    BY <1>1, <1>4, AnswerSets
  <2>2. PICK t : t = NewTokens(b.user)
    OBVIOUS
  <2>3. /\ t \in Tokens /\ t.serial = issued + 1 /\ t.user = b.user
        /\ \A x \in Tokens : Known(x) => x # t
    BY <1>1, <2>2, NewTokensNew
  <2>4. /\ issued' = issued + 1 /\ active' = (active \ {b}) \cup {t}
        /\ valid' = valid \cup {t}
    BY <1>4, <2>2 DEF Issue, NewTokens
  <2>5. Known(t)'
    BY <2>3, <2>4, <1>2 DEF Known
  <2>6. /\ issued' \in Nat /\ issued <= issued' /\ active' \subseteq Tokens
        /\ valid' \subseteq Tokens
    BY <1>2, <2>3, <2>4
  <2>7. ClientInv' /\ OnlyReplies(s, "ok", t)
    BY <1>b, <1>1, <1>2, <2>1, <2>2, <2>3, <2>5, <2>6, Replied DEF Answers
  <2>8. Server'
    <3> SUFFICES ASSUME Plain(Upsets)'
                 PROVE  Server'
      BY DEF Server
    <3>1. /\ Plain(Upsets) /\ Server /\ call[s].path = "ask"
          /\ Changing = Pending /\ SigningIn = {}
          /\ session # NoSession /\ held \in Tokens
      BY <1>3, <2>1, PlainAll, PlainAsking DEF Plain
    <3>2. Pending = {}
      BY <1>b, <1>1, <1>4, <3>1 DEF Server, Pending
    <3>3. active = {held} /\ b = held /\ active' = {t}
      BY <1>4, <2>4, <3>1, <3>2, SessionAssumption DEF Server
    <3>4. Pending' = {s} /\ s \in Changing' /\ call'[s].gives = t
      BY <1>1, <2>7, <3>2 DEF Pending, Changing, OnlyReplies
    <3>5. held' # t /\ session' = session
      BY <2>1, <2>3, <3>1 DEF SInv, AllKnown, client
    <3>6. \A r \in Slots : call'[r].refreshing => call'[r].body # t
      BY <2>3, <2>7 DEF OnlyReplies, SInv, TInv, AllKnown, CallShaped
    <3>7. \A r \in Slots : call'[r].path \notin {"login", "me", "logout"}
      BY <2>7, <3>1, PlainAll, AskingOnly DEF OnlyReplies
    <3> QED
      BY <3>1, <3>3, <3>4, <3>5, <3>6, <3>7 DEF Server
  <2> QED
    BY <2>7, <2>8 DEF SInv, ClientInv
<1>5. CASE b \notin active /\ Answer(s, "denied", NoTokens) /\ UNCHANGED server
  <2>1. /\ call[s].path # "idle" /\ call[s].answer = "none"
        /\ call' = [call EXCEPT ![s] = AnswerCall(call[s], "denied", NoTokens)]
        /\ UNCHANGED client /\ upsets' = upsets
    BY <1>1, <1>5, AnswerSets
  <2>2. UNCHANGED <<active, valid, issued>> /\ issued <= issued'
    BY <1>2, <1>5 DEF server
  <2>3. Known(NoTokens)'
    BY DEF Known
  <2>4. ClientInv' /\ OnlyReplies(s, "denied", NoTokens)
    BY <1>1, <1>2, <2>1, <2>2, <2>3, Replied DEF Answers
  <2>5. Server'
    <3> SUFFICES ASSUME Plain(Upsets)'
                 PROVE  Server'
      BY DEF Server
    <3>1. /\ Plain(Upsets) /\ Server /\ call[s].path = "ask"
          /\ Changing = Pending /\ SigningIn = {}
          /\ session # NoSession /\ held \in Tokens
      BY <1>3, <2>1, PlainAll, PlainAsking DEF Plain
    <3>2. \A r \in Slots : call'[r].path \notin {"login", "me", "logout"}
      BY <2>4, <3>1, PlainAll, AskingOnly DEF OnlyReplies
    <3>3. Pending' = Pending /\ Changing' = Pending'
      BY <2>1, <2>4, <3>2 DEF Pending, Changing, OnlyReplies
    <3>4. s \notin Pending
      BY <2>1 DEF Pending
    <3>5. UNCHANGED <<held, session>>
      BY <2>1 DEF client
    <3>6. \A r \in Pending : call'[r] = call[r]
      BY <2>4, <3>4 DEF OnlyReplies, Pending
    <3> QED
      BY <2>2, <2>4, <3>1, <3>2, <3>3, <3>5, <3>6 DEF Server, OnlyReplies
  <2> QED
    BY <2>4, <2>5 DEF SInv, ClientInv
<1> QED
  BY <1>b, <1>4, <1>5 DEF ServeRefresh

\* POST /auth/logout.
LEMMA ServeLogoutStep ==
  ASSUME SInv, NEW s \in Slots, ServeLogout(s)
  PROVE  SInv'
<1>1. /\ TInv /\ call[s].path = "logout" /\ ~call[s].refreshing
      /\ upsets \subseteq Upsets /\ active \subseteq Tokens
      /\ valid \subseteq Tokens /\ issued \in Nat
  BY DEF SInv, TInv, TypeOK, ServeLogout
<1>2. PICK a : a = IF call[s].body = NoTokens THEN "rejected" ELSE "ok"
  OBVIOUS
<1>3. /\ call[s].path # "idle" /\ call[s].answer = "none"
      /\ call' = [call EXCEPT ![s] = AnswerCall(call[s], a, NoTokens)]
      /\ UNCHANGED client /\ upsets' = upsets
  BY <1>1, <1>2, AnswerSets DEF ServeLogout
<1>4. /\ active' = active \ {call[s].body} /\ UNCHANGED <<valid, issued>>
      /\ active' \subseteq Tokens /\ issued <= issued'
  BY <1>1 DEF ServeLogout
<1>5. Known(NoTokens)'
  BY DEF Known
<1>6. ClientInv' /\ OnlyReplies(s, a, NoTokens)
  BY <1>1, <1>2, <1>3, <1>4, <1>5, Replied DEF Answers
<1>7. Server'
  <2> SUFFICES ASSUME Plain(Upsets)'
               PROVE  Server'
    BY DEF Server
  <2>1. Plain(Upsets) /\ Server
    BY <1>3, PlainAll DEF Plain
  <2>2. /\ \A r \in Slots : r # s => call[r] = Idle /\ call'[r] = Idle
        /\ call'[s].path = "logout" /\ ~call'[s].refreshing
        /\ call'[s].body = call[s].body
    BY <1>1, <1>6, <2>1, PlainAll, Alone DEF OnlyReplies
  <2>3. SigningIn = {} /\ SigningIn' = {} /\ Pending' = {} /\ Changing = {}
    BY <1>1, <1>3, <2>2, IdleFields DEF SigningIn, Pending, Changing
  <2>4. /\ UNCHANGED <<held, session>> /\ LogoutToken' = LogoutToken
        /\ call[s].body = LogoutToken
    BY <1>1, <1>3, <2>1 DEF client, Server, LogoutToken
  <2>5. active = IF held = NoTokens THEN {} ELSE {held}
    BY <2>1, <2>3 DEF Server
  <2>6. CASE session = NoSession
    <3>1. /\ call[s].body = NoTokens /\ held = NoTokens /\ a = "rejected"
          /\ active' = {}
      BY <1>2, <1>4, <2>1, <2>3, <2>4, <2>5, <2>6 DEF LogoutToken, Server
    <3>2. Changing' = {}
      BY <1>6, <2>2, <2>3, <3>1, IdleFields DEF Changing, OnlyReplies
    <3> QED
      BY <1>6, <2>2, <2>3, <2>4, <2>6, <3>1, <3>2, IdleFields
         DEF Server, OnlyReplies
  <2>7. CASE session # NoSession
    <3>1. held \in Tokens /\ held # NoTokens /\ call[s].body = held
      BY <2>1, <2>3, <2>4, <2>7, PlainAll, SessionAssumption DEF LogoutToken
    <3>2. a = "ok" /\ active' = {} /\ s \in Changing'
      BY <1>2, <1>4, <1>6, <2>2, <2>5, <3>1 DEF Changing, OnlyReplies
    <3> QED
      BY <1>6, <2>2, <2>3, <2>4, <2>7, <3>2, IdleFields
         DEF Server, OnlyReplies
  <2> QED
    BY <2>6, <2>7
<1> QED
  BY <1>6, <1>7 DEF SInv, ClientInv

\* GET /auth/me and every other protected request.
LEMMA ServeProtectedStep ==
  ASSUME SInv, NEW s \in Slots, ServeProtected(s)
  PROVE  SInv'
<1>1. /\ TInv /\ call[s].path \in {"me", "ask"} /\ ~call[s].refreshing
      /\ upsets \subseteq Upsets /\ active \subseteq Tokens
      /\ valid \subseteq Tokens /\ issued \in Nat
  BY DEF SInv, TInv, TypeOK, ServeProtected
<1>2. PICK a : a = IF call[s].sent \in valid THEN "ok" ELSE "denied"
  OBVIOUS
<1>3. /\ call[s].path # "idle" /\ call[s].answer = "none"
      /\ call' = [call EXCEPT ![s] = AnswerCall(call[s], a, NoTokens)]
      /\ UNCHANGED client /\ upsets' = upsets
  BY <1>1, <1>2, AnswerSets DEF ServeProtected
<1>4. UNCHANGED <<active, valid, issued>> /\ issued <= issued'
  BY <1>1 DEF ServeProtected, server
<1>5. Known(NoTokens)'
  BY DEF Known
<1>6. ClientInv' /\ OnlyReplies(s, a, NoTokens)
  BY <1>1, <1>2, <1>3, <1>4, <1>5, Replied DEF Answers
<1>7. Server'
  <2> SUFFICES ASSUME Plain(Upsets)'
               PROVE  Server'
    BY DEF Server
  <2>1. Plain(Upsets) /\ Server
    BY <1>3, PlainAll DEF Plain
  <2>2. /\ \A r \in Slots : r # s => call'[r] = call[r]
        /\ call'[s].path = call[s].path /\ ~call'[s].refreshing
    BY <1>1, <1>6 DEF OnlyReplies
  <2>3. s \notin Pending /\ s \notin Changing /\ s \notin Changing'
    BY <1>1, <2>2 DEF Pending, Changing
  <2>4. SigningIn' = SigningIn /\ Pending' = Pending /\ Changing' = Changing
    BY <2>2, <2>3 DEF SigningIn, Pending, Changing
  <2>5. UNCHANGED <<held, session>> /\ LogoutToken' = LogoutToken
    BY <1>3 DEF client, LogoutToken
  <2>6. \A r \in Pending : call'[r] = call[r]
    BY <2>2, <2>3 DEF Pending
  <2>7. \A r \in Slots : call'[r].refreshing => call[r].refreshing
                                             /\ call'[r].body = call[r].body
    BY <2>2
  <2>8. \A r \in Slots : call'[r].path \in {"login", "logout"} =>
          call'[r] = call[r]
    BY <1>1, <2>2
  <2>9. \A r \in Slots : call'[r].path = "me" =>
          call[r].path = "me" /\ call'[r].refreshing = call[r].refreshing
    BY <1>6 DEF OnlyReplies
  <2>10. \A r, t \in Pending' : r = t
    BY <2>1, <2>4 DEF Server
  <2>11. \A r \in Pending' :
           /\ active' = {call'[r].gives} /\ held' # call'[r].gives
           /\ \A t \in Slots :
                call'[t].refreshing => call'[t].body # call'[r].gives
    BY <1>4, <2>1, <2>4, <2>5, <2>6, <2>7 DEF Server
  <2>12. /\ Changing' = {} => active' = IF held' = NoTokens THEN {} ELSE {held'}
         /\ session' = NoSession /\ SigningIn' = {} => held' = NoTokens
    BY <1>4, <2>1, <2>4, <2>5 DEF Server
  <2>13. \A r \in Slots :
         LET c == call'[r] IN
         /\ c.path \in {"login", "me"} => session' = NoSession /\ ~c.refreshing
         /\ c.path = "login" /\ c.answer = "ok" => active' = {c.gives}
         /\ c.path = "logout" =>
              c.body = LogoutToken' /\ (c.answer = "ok" => active' = {})
    BY <1>4, <2>1, <2>5, <2>8, <2>9 DEF Server
  <2> QED
    BY <2>10, <2>11, <2>12, <2>13 DEF Server
<1> QED
  BY <1>6, <1>7 DEF SInv, ClientInv

\* A request that is refused for a reason of its own, or lost.
LEMMA TurnAwayStep ==
  ASSUME SInv, NEW s \in Slots, TurnAway(s) \/ Lose(s)
  PROVE  SInv'
<1>1. /\ call \in [Slots -> Calls] /\ call[s] \in Calls /\ CallShaped(call[s])
      /\ upsets \subseteq Upsets /\ active \subseteq Tokens
      /\ valid \subseteq Tokens /\ issued \in Nat
  BY DEF SInv, TInv, TypeOK
<1>2. /\ call[s].path # "idle" /\ UNCHANGED <<active, valid, issued>>
      /\ UNCHANGED client /\ upsets' = upsets \cup {"loss"}
  BY DEF TurnAway, Lose, server
<1>3. \E a \in {"rejected", "lost"} :
        call' = [call EXCEPT ![s] = AnswerCall(call[s], a, NoTokens)]
  <2>1. CASE TurnAway(s)
    <3>1. call[s].gives = NoTokens
      BY <1>1, <2>1 DEF TurnAway, CallShaped
    <3>2. [call[s] EXCEPT !.answer = "rejected"]
            = AnswerCall(call[s], "rejected", NoTokens)
      BY <1>1, <3>1 DEF AnswerCall, Calls
    <3> QED
      BY <1>1, <2>1, <3>2 DEF TurnAway
  <2>2. CASE Lose(s)
    BY <1>1, <2>2 DEF Lose, AnswerCall
  <2> QED
    BY <2>1, <2>2
<1>4. PICK a \in {"rejected", "lost"} :
        call' = [call EXCEPT ![s] = AnswerCall(call[s], a, NoTokens)]
  BY <1>3
<1>5. Known(NoTokens)'
  BY DEF Known
<1>6. ~Plain({"loss"})' /\ ~Plain(Upsets)' /\ upsets' \subseteq Upsets
  BY <1>1, <1>2 DEF Plain, Upsets
<1>7. ClientInv'
  <2>1. a \in Answers /\ a # "ok" /\ a # "denied" /\ issued <= issued'
    BY <1>1, <1>2, <1>4 DEF Answers
  <2> QED
    BY <1>1, <1>2, <1>4, <1>5, <1>6, <2>1, Replied
<1>8. Server'
  BY <1>6 DEF Server
<1> QED
  BY <1>7, <1>8 DEF SInv, ClientInv

\* The lifetime of an access token ends.
LEMMA ExpireStep ==
  ASSUME SInv, NEW t \in valid, Expire(t)
  PROVE  SInv'
<1>1. /\ UNCHANGED <<held, session, file, saved, call, active, issued, upsets>>
      /\ valid' \subseteq valid
  BY DEF Expire, client
<1>2. TInv'
  BY <1>1 DEF SInv, TInv, TypeOK
<1> QED
  BY <1>1, <1>2 DEF SInv, AllKnown, Known, Exclusive, Own, Agree, Server, Plain,
     Undisturbed, InFlight, SigningIn, SigningInOrOut, Pending, Changing,
     LogoutToken, CallOwn, OwnTokens

\* SessionService::logout and HttpAuthGateway::logout.
LEMMA LogoutStep ==
  ASSUME SInv, NEW s \in Slots, Logout(s)
  PROVE  SInv'
<1>1. PICK d : d = LogoutCall
  OBVIOUS
<1>2. /\ d \in Calls /\ CallShaped(d)
      /\ d.path = "logout" /\ ~d.refreshing /\ ~d.retried
      /\ d.access = NoTokens /\ d.sent = NoTokens /\ d.body = LogoutToken
      /\ d.user = NoUser /\ d.answer = "none" /\ d.gives = NoTokens
      /\ d.sends = 1
  BY <1>1, LogoutFields DEF SInv
<1>3. /\ call[s] = Idle /\ call' = [call EXCEPT ![s] = d]
      /\ UNCHANGED <<held, session, file, saved, active, valid, issued>>
  BY <1>1 DEF Logout, Begin, LogoutCall, client, server
<1>4. /\ upsets \subseteq upsets' /\ upsets' \subseteq upsets \cup {"overlap"}
      /\ InFlight # {} => "overlap" \in upsets'
  BY DEF Logout
<1>5. /\ call' \in [Slots -> Calls] /\ \A t \in Slots : CallShaped(call'[t])
      /\ \A t \in Slots : call'[t] = IF t = s THEN d ELSE call[t]
  BY <1>2, <1>3, CallUpdated DEF SInv
<1>6. TInv'
  BY <1>3, <1>4, <1>5 DEF SInv, TInv, TypeOK, Upsets
<1>7. AllKnown'
  <2>1. Known(LogoutToken)'
    BY <1>3 DEF SInv, AllKnown, Known, LogoutToken
  <2>2. LogoutToken' = LogoutToken
    BY <1>3 DEF LogoutToken
  <2> QED
    BY <1>2, <1>3, <1>5, <2>1, <2>2 DEF SInv, AllKnown, Known
<1>8. Plain({"overlap"})' => \A t \in Slots : t # s => call'[t].path = "idle"
  BY <1>4, <1>5 DEF InFlight, Plain
<1>9. Exclusive'
  BY <1>2, <1>5, <1>8 DEF Exclusive, SigningInOrOut, InFlight
<1>10. Own'
  <2> SUFFICES ASSUME Undisturbed'
               PROVE  Own'
    BY DEF Own
  <2>1. Undisturbed /\ Own /\ Plain({"overlap"})'
    BY <1>4, PlainBefore DEF SInv, Undisturbed
  <2>2. \A t \in Slots : t # s => call'[t] = Idle /\ call[t] = Idle
    BY <1>5, <1>8, <2>1 DEF CallShaped
  <2>3. SigningIn' = {} /\ SigningIn = {}
    BY <1>2, <1>3, <1>5, <2>2, IdleFields DEF SigningIn
  <2>4. \A t \in Slots : CallOwn(call[t])'
    BY <1>2, <1>3, <1>4, <1>5, <2>2, IdleFields DEF CallOwn
  <2> QED
    BY <1>3, <2>1, <2>3, <2>4 DEF Own, OwnTokens
<1>11. Agree'
  <2> SUFFICES ASSUME Undisturbed', Plain({"store", "slowLogin"})',
                      session # NoSession, SigningIn' = {}
               PROVE  saved[file] = session /\ held = session.tokens
    BY <1>3 DEF Agree
  <2>1. Undisturbed /\ Plain({"store", "slowLogin"})
    BY <1>4, PlainBefore
  <2>2. SigningIn = {}
    BY <1>3, <1>5, IdleFields DEF SigningIn
  <2> QED
    BY <2>1, <2>2 DEF SInv, Agree
<1>12. Server'
  <2> SUFFICES ASSUME Plain(Upsets)'
               PROVE  Server'
    BY DEF Server
  <2>1. Plain(Upsets) /\ Server /\ Plain({"overlap"})'
    BY <1>4, PlainBefore DEF SInv, Plain, Upsets
  <2>2. \A t \in Slots : t # s => call'[t] = Idle /\ call[t] = Idle
    BY <1>5, <1>8, <2>1 DEF CallShaped
  <2>3. /\ SigningIn = {} /\ Changing = {} /\ SigningIn' = {} /\ Changing' = {}
        /\ Pending' = {}
    BY <1>2, <1>3, <1>5, <2>2, IdleFields DEF SigningIn, Changing, Pending
  <2>4. LogoutToken' = LogoutToken
    BY <1>3 DEF LogoutToken
  <2> QED
    BY <1>2, <1>3, <1>5, <2>1, <2>2, <2>3, <2>4, IdleFields DEF Server
<1> QED
  BY <1>6, <1>7, <1>9, <1>10, <1>11, <1>12 DEF SInv

\* A request of the session.
LEMMA AskStep ==
  ASSUME SInv, NEW s \in Slots, Ask(s)
  PROVE  SInv'
<1>1. PICK d : d = AskCall
  OBVIOUS
<1>2. /\ d \in Calls /\ CallShaped(d)
      /\ d.path = "ask" /\ ~d.refreshing /\ ~d.retried
      /\ d.access = session.tokens
      /\ d.sent = EffectiveToken(session.tokens) /\ d.body = NoTokens
      /\ d.user = NoUser /\ d.answer = "none" /\ d.gives = NoTokens
      /\ d.sends = 1
  BY <1>1, AskFields DEF SInv, Ask
<1>3. /\ call[s] = Idle /\ call' = [call EXCEPT ![s] = d] /\ session # NoSession
      /\ UNCHANGED <<held, session, file, saved, active, valid, issued>>
  BY <1>1 DEF Ask, Begin, AskCall, client, server
<1>4. /\ upsets \subseteq upsets' /\ upsets' \subseteq upsets \cup {"overlap"}
      /\ Plain({"overlap"})' => SigningInOrOut = {} /\ upsets' = upsets
  BY DEF Ask, Plain
<1>5. /\ call' \in [Slots -> Calls] /\ \A t \in Slots : CallShaped(call'[t])
      /\ \A t \in Slots : call'[t] = IF t = s THEN d ELSE call[t]
  BY <1>2, <1>3, CallUpdated DEF SInv
<1>6. TInv'
  BY <1>3, <1>4, <1>5 DEF SInv, TInv, TypeOK, Upsets
<1>7. AllKnown'
  BY <1>2, <1>3, <1>5 DEF SInv, AllKnown, Known
<1>8. SigningIn' = SigningIn /\ SigningInOrOut' = SigningInOrOut
  BY <1>2, <1>3, <1>5, IdleFields DEF SigningIn, SigningInOrOut
<1>9. Exclusive'
  BY <1>4, <1>8 DEF Exclusive
<1>10. Own'
  <2> SUFFICES ASSUME Undisturbed'
               PROVE  Own'
    BY DEF Own
  <2>1. /\ Undisturbed /\ Own /\ SigningInOrOut = {} /\ upsets' = upsets
    BY <1>4, PlainBefore DEF SInv, Undisturbed
  <2>2. SigningIn = {}
    BY <2>1 DEF SigningIn, SigningInOrOut
  <2>3. /\ held \in Tokens /\ held.user = session.user
        /\ session.tokens.user = session.user
    BY <1>3, <2>1, <2>2 DEF Own, OwnTokens
  <2>4. d.sent.user = session.user
    BY <1>2, <2>3 DEF EffectiveToken
  <2>5. ASSUME NEW t \in Slots, t # s
        PROVE  CallOwn(call[t])'
    <3>1. call'[t] = call[t] /\ CallOwn(call[t])
      BY <1>5, <2>1, <2>5 DEF Own
    <3> QED
      BY <1>3, <2>1, <3>1 DEF CallOwn, Plain
  <2>6. CallOwn(call[s])'
    <3>1. call'[s] = d
      BY <1>5
    <3> QED
      BY <1>2, <1>3, <2>4, <3>1 DEF CallOwn
  <2> QED
    BY <1>3, <1>8, <2>1, <2>5, <2>6 DEF Own, OwnTokens
<1>11. Agree'
  <2>1. /\ Undisturbed' => Undisturbed
        /\ Plain({"store", "slowLogin"})' => Plain({"store", "slowLogin"})
    BY <1>4, PlainBefore
  <2> QED
    BY <1>3, <1>8, <2>1 DEF SInv, Agree
<1>12. Server'
  <2> SUFFICES ASSUME Plain(Upsets)'
               PROVE  Server'
    BY DEF Server
  <2>1. Plain(Upsets) /\ Server /\ Plain({"overlap"})'
    BY <1>4, PlainBefore DEF SInv, Plain, Upsets
  <2>2. Pending' = Pending /\ Changing' = Changing
    BY <1>2, <1>3, <1>5, IdleFields DEF Pending, Changing
  <2>3. /\ \A t \in Slots : call'[t].path \notin {"login", "me", "logout"}
        /\ \A t \in Slots : call'[t].refreshing =>
             call'[t] = call[t] /\ call[t].refreshing
        /\ \A t \in Pending : call'[t] = call[t]
    BY <1>2, <1>3, <1>4, <1>5, <1>8, <2>1, IdleFields
       DEF SigningInOrOut, Pending
  <2> QED
    BY <1>3, <1>8, <2>1, <2>2, <2>3 DEF Server
<1> QED
  BY <1>6, <1>7, <1>9, <1>10, <1>11, <1>12 DEF SInv

\* HttpClient::refreshTokens sends POST /auth/refresh.
LEMMA RefreshStep ==
  ASSUME SInv, NEW s \in Slots, Refresh(s)
  PROVE  SInv'
<1>c. PICK c : c = call[s]
  OBVIOUS
<1>1. PICK d : d = RefreshCall(c)
  OBVIOUS
<1>2. /\ c \in Calls /\ CallShaped(c) /\ CanRefresh(c)
      /\ held \in Tokens /\ ~c.refreshing /\ c.answer = "denied"
  BY <1>c DEF SInv, TInv, TypeOK, Refresh, CanRefresh
<1>3. /\ d \in Calls /\ CallShaped(d)
      /\ d.path = c.path /\ d.refreshing /\ d.retried = c.retried
      /\ d.access = c.access /\ d.sent = NoTokens /\ d.body = held
      /\ d.user = c.user /\ d.answer = "none" /\ d.gives = c.gives
      /\ d.sends = c.sends
  BY <1>1, <1>2, RefreshFields DEF SInv
<1>4. /\ call' = [call EXCEPT ![s] = d]
      /\ UNCHANGED <<held, session, file, saved, active, valid, issued>>
  BY <1>c, <1>1 DEF Refresh, RefreshCall, client, server, SInv, TInv, TypeOK
<1>5. /\ upsets \subseteq upsets' /\ upsets' \subseteq upsets \cup {"slowLogin"}
      /\ c.path = "me" => "slowLogin" \in upsets'
  BY <1>c DEF Refresh
<1>6. /\ call' \in [Slots -> Calls] /\ \A t \in Slots : CallShaped(call'[t])
      /\ \A t \in Slots : call'[t] = IF t = s THEN d ELSE call[t]
  BY <1>3, <1>4, CallUpdated DEF SInv
<1>7. TInv'
  BY <1>4, <1>5, <1>6 DEF SInv, TInv, TypeOK, Upsets
<1>8. AllKnown'
  BY <1>c, <1>3, <1>4, <1>6 DEF SInv, AllKnown, Known
<1>9. \A t \in Slots : call'[t].path = call[t].path
  BY <1>c, <1>3, <1>6
<1>10. /\ InFlight' = InFlight /\ SigningInOrOut' = SigningInOrOut
       /\ SigningIn' = SigningIn
  BY <1>9 DEF InFlight, SigningInOrOut, SigningIn
<1>11. /\ \A kinds : Plain(kinds)' => Plain(kinds)
       /\ Undisturbed' => Undisturbed
  BY <1>5, PlainBefore
<1>12. Exclusive'
  BY <1>10, <1>11 DEF SInv, Exclusive
<1>13. Own'
  <2> SUFFICES ASSUME Undisturbed'
               PROVE  Own'
    BY DEF Own
  <2>1. Undisturbed /\ Own /\ CallOwn(c)
    BY <1>c, <1>11 DEF SInv, Own
  <2>2. ASSUME NEW t \in Slots, t # s
        PROVE  CallOwn(call[t])'
    <3>1. call'[t] = call[t] /\ CallOwn(call[t])
      BY <1>6, <2>1, <2>2 DEF Own
    <3>2. /\ Plain({"loss"})' => Plain({"loss"})
          /\ Plain({"slowLogin"})' => Plain({"slowLogin"})
      BY <1>11
    <3> QED
      BY <1>4, <1>5, <3>1, <3>2 DEF CallOwn
  <2>3. CallOwn(call[s])'
    <3>1. call'[s] = d
      BY <1>6
    <3>2. c.path = "me" => ~Plain({"slowLogin"})'
      BY <1>5 DEF Plain
    <3> QED
      BY <1>2, <1>3, <1>4, <1>5, <2>1, <3>1, <3>2 DEF CallOwn
  <2> QED
    BY <1>4, <1>10, <2>1, <2>2, <2>3 DEF Own, OwnTokens
<1>14. Agree'
  <2>1. Plain({"store", "slowLogin"})' => Plain({"store", "slowLogin"})
    BY <1>11
  <2> QED
    BY <1>4, <1>10, <1>11, <2>1 DEF SInv, Agree
<1>15. Server'
  <2> SUFFICES ASSUME Plain(Upsets)'
               PROVE  Server'
    BY DEF Server
  <2>1. Plain(Upsets) /\ Server /\ c.path # "me"
    BY <1>5, <1>11 DEF SInv, Plain, Upsets
  <2>2. c.path # "login"
    <3> SUFFICES ASSUME c.path = "login"
                 PROVE  FALSE
      OBVIOUS
    <3>1. \A t \in Slots : t # s => call[t] = Idle
      BY <1>c, <2>1, PlainAll, Alone
    <3>2. SigningIn = {}
      BY <1>c, <3>1, IdleFields DEF SigningIn
    <3> QED
      BY <1>c, <1>2, <2>1, <3>2, SessionAssumption DEF Server
  <2>3. Pending' = Pending /\ Changing' = Changing
    BY <1>c, <1>2, <1>3, <1>6 DEF Pending, Changing
  <2>4. \A t \in Pending : call'[t] = call[t] /\ call[t].gives # held
    BY <1>c, <1>2, <1>6, <2>1 DEF Pending, Server
  <2>5. \A t \in Slots : call'[t].refreshing =>
          \/ call'[t].body = held
          \/ call[t].refreshing /\ call'[t].body = call[t].body
    <3> SUFFICES ASSUME NEW t \in Slots, call'[t].refreshing
                 PROVE  \/ call'[t].body = held
                        \/ call[t].refreshing /\ call'[t].body = call[t].body
      OBVIOUS
    <3>1. CASE t = s
      BY <1>3, <1>6, <3>1
    <3>2. CASE t # s
      <4>1. call'[t] = call[t]
        BY <1>6, <3>2
      <4> QED
        BY <4>1
    <3> QED
      BY <3>1, <3>2
  <2>6. \A t \in Slots : call'[t].path \in {"login", "me", "logout"} =>
          call'[t] = call[t]
    BY <1>2, <1>3, <1>6, <2>1, <2>2 DEF CallShaped
  <2>7. UNCHANGED LogoutToken
    BY <1>4 DEF LogoutToken
  <2>8. \A x, y \in Pending' : x = y
    BY <2>1, <2>3 DEF Server
  <2>9. \A x \in Pending' :
          /\ active' = {call'[x].gives} /\ held' # call'[x].gives
          /\ \A t \in Slots :
               call'[t].refreshing => call'[t].body # call'[x].gives
    BY <1>4, <2>1, <2>3, <2>4, <2>5 DEF Server
  <2>10. /\ Changing' = {} => active' = IF held' = NoTokens THEN {} ELSE {held'}
         /\ session' = NoSession /\ SigningIn' = {} => held' = NoTokens
    BY <1>4, <1>10, <2>1, <2>3 DEF Server
  <2> QED
    BY <1>4, <2>1, <2>6, <2>7, <2>8, <2>9, <2>10 DEF Server
<1> QED
  BY <1>7, <1>8, <1>12, <1>13, <1>14, <1>15 DEF SInv

\* The new tokens are kept in the three places, and the request is sent again.
LEMMA RefreshedStep ==
  ASSUME SInv, NEW s \in Slots, Refreshed(s)
  PROVE  SInv'
<1>c. PICK c : c = call[s]
  OBVIOUS
<1>g. PICK g : g = c.gives
  OBVIOUS
<1>1. PICK d : d = ResentCall(c)
  OBVIOUS
<1>2. /\ c \in Calls /\ CallShaped(c) /\ c.refreshing /\ c.answer = "ok"
      /\ g \in Tokens /\ c.path \in {"login", "me", "ask"}
  <2>1. c \in Calls /\ CallShaped(c) /\ c.refreshing /\ c.answer = "ok"
    BY <1>c DEF SInv, TInv, TypeOK, Refreshed
  <2> QED
    BY <1>g, <2>1, IdleFields DEF CallShaped, Calls, Paths
<1>3. /\ d \in Calls /\ CallShaped(d)
      /\ d.path = c.path /\ ~d.refreshing /\ d.retried
      /\ d.access = c.access
      /\ d.sent = (IF c.access = NoTokens THEN NoTokens ELSE g)
      /\ d.body = NoTokens /\ d.user = c.user /\ d.answer = "none"
      /\ d.gives = NoTokens
  BY <1>g, <1>1, <1>2, ResentFields
<1>4. /\ call' = [call EXCEPT ![s] = d] /\ held' = g
      /\ UNCHANGED <<file, active, valid, issued>>
  <2>1. call' = [call EXCEPT ![s] = ResentCall(call[s])]
    BY DEF Refreshed, ResentCall
  <2> QED
    BY <1>c, <1>g, <1>1, <2>1 DEF Refreshed, server
<1>5. IF session = NoSession THEN UNCHANGED <<session, saved, upsets>>
      ELSE /\ session' = [session EXCEPT !.tokens = g]
           /\ \/ saved' = [saved EXCEPT ![file] = session'] /\ upsets' = upsets
              \/ saved' = saved /\ upsets' = upsets \cup {"store"}
  BY <1>c, <1>g DEF Refreshed, UpdateTokens, Save
<1>6. /\ upsets \subseteq upsets' /\ upsets' \subseteq upsets \cup {"store"}
      /\ session = NoSession <=> session' = NoSession
      /\ session' \in Sessions \cup {NoSession}
      /\ session # NoSession =>
           session'.user = session.user /\ session'.tokens = g
  BY <1>2, <1>5, SessionAssumption DEF Sessions, SInv, TInv, TypeOK
<1>7. /\ call' \in [Slots -> Calls] /\ \A t \in Slots : CallShaped(call'[t])
      /\ \A t \in Slots : call'[t] = IF t = s THEN d ELSE call[t]
  BY <1>3, <1>4, CallUpdated DEF SInv
<1>8. /\ file \in Users \cup {NoUser}
      /\ saved' \in [Users \cup {NoUser} -> Sessions \cup {NoSession}]
      /\ \A f \in Users \cup {NoUser} :
           saved'[f] = saved[f] \/ (f = file /\ saved'[f] = session')
  <2>1. /\ file \in Users \cup {NoUser}
        /\ saved \in [Users \cup {NoUser} -> Sessions \cup {NoSession}]
    BY DEF SInv, TInv, TypeOK
  <2>2. saved' = saved \/ saved' = [saved EXCEPT ![file] = session']
    BY <1>5
  <2> QED
    BY <1>6, <2>1, <2>2
<1>9. TInv'
  BY <1>2, <1>4, <1>6, <1>7, <1>8 DEF SInv, TInv, TypeOK, Upsets
<1>10. AllKnown'
  <2>1. Known(g) /\ Known(NoTokens)
    BY <1>c, <1>g DEF SInv, AllKnown, Known
  <2>2. \A t : Known(t) => Known(t)'
    BY <1>4 DEF Known
  <2>3. /\ Known(held)' /\ (session # NoSession => Known(session.tokens))'
    BY <1>4, <1>6, <2>1 DEF Known
  <2>4. \A f \in Users \cup {NoUser} :
          (saved[f] # NoSession => Known(saved[f].tokens))'
    BY <1>4, <1>6, <1>8, <2>1 DEF SInv, AllKnown, Known
  <2>5. \A t \in Slots : (/\ Known(call[t].access) /\ Known(call[t].body)
                          /\ Known(call[t].gives))'
    BY <1>c, <1>3, <1>4, <1>7, <2>1 DEF SInv, AllKnown, Known
  <2> QED
    BY <1>4, <2>3, <2>4, <2>5 DEF AllKnown
<1>11. \A t \in Slots : call'[t].path = call[t].path
  BY <1>c, <1>3, <1>7
<1>12. /\ InFlight' = InFlight /\ SigningInOrOut' = SigningInOrOut
       /\ SigningIn' = SigningIn
  BY <1>11 DEF InFlight, SigningInOrOut, SigningIn
<1>13. /\ \A kinds : Plain(kinds)' => Plain(kinds)
       /\ Undisturbed' => Undisturbed
  BY <1>6, PlainBefore
<1>14. Exclusive'
  BY <1>12, <1>13 DEF SInv, Exclusive
<1>15. Own'
  <2> SUFFICES ASSUME Undisturbed'
               PROVE  Own'
    BY DEF Own
  <2>1. Undisturbed /\ Own /\ CallOwn(c) /\ Plain({"overlap"})
    BY <1>c, <1>13 DEF SInv, Own, Undisturbed
  <2>2. held \in Tokens /\ g.user = held.user
    BY <1>g, <1>2, <2>1 DEF CallOwn
  <2>3. session # NoSession => c.path # "me"
    BY <1>2, <2>1 DEF CallOwn, Undisturbed, Plain
  <2>4. session # NoSession => g.user = session.user
    <3>1. c.path # "me" => SigningIn = {}
      BY <1>c, <1>2, <2>1, Alone, AskingOnly, IdleFields DEF SigningIn
    <3> QED
      BY <2>1, <2>2, <2>3, <3>1 DEF Own
  <2>5. \A t \in Slots : t # s => call[t].path # "me"
    BY <1>c, <1>2, <2>1, Alone, IdleFields
  <2>6. /\ OwnTokens(session)' /\ \A f \in Users \cup {NoUser} : OwnTokens(saved[f])'
    BY <1>6, <1>8, <2>1, <2>4 DEF Own, OwnTokens
  <2>7. ASSUME NEW t \in Slots, t # s
        PROVE  CallOwn(call[t])'
    <3>1. call'[t] = call[t] /\ CallOwn(call[t]) /\ call[t].path # "me"
      BY <1>7, <2>1, <2>5, <2>7 DEF Own
    <3> QED
      BY <1>2, <1>4, <1>6, <2>2, <3>1 DEF CallOwn
  <2>8. CallOwn(call[s])'
    <3>1. call'[s] = d
      BY <1>7
    <3>2. c.path = "me" => ~Plain({"slowLogin"})'
      BY <1>2, <1>13, <2>1 DEF CallOwn
    <3> QED
      BY <1>2, <1>3, <1>4, <1>6, <2>1, <2>2, <2>4, <3>1, <3>2,
         SessionAssumption DEF CallOwn, CallShaped
  <2> QED
    BY <1>2, <1>4, <1>6, <2>4, <2>6, <2>7, <2>8 DEF Own
<1>16. Agree'
  BY <1>4, <1>5, <1>6, <1>8 DEF Agree, Plain, SInv, TInv, TypeOK
<1>17. Server'
  <2> SUFFICES ASSUME Plain(Upsets)'
               PROVE  Server'
    BY DEF Server
  <2>1. Plain(Upsets) /\ Server
    BY <1>13 DEF SInv
  <2>2. s \in Pending /\ active = {g} /\ c.path = "ask"
    BY <1>c, <1>g, <1>2, <2>1 DEF Pending, Server
  <2>3. /\ session # NoSession
        /\ \A t \in Slots : call[t].path \notin {"login", "me", "logout"}
    BY <1>c, <2>1, <2>2, PlainAll, PlainAsking, AskingOnly
  <2>4. Pending' = {} /\ Changing' = {}
    BY <1>3, <1>7, <1>11, <2>1, <2>2, <2>3 DEF Pending, Changing, Server
  <2> QED
    BY <1>2, <1>4, <1>6, <1>11, <2>2, <2>3, <2>4, SessionAssumption DEF Server
<1> QED
  BY <1>9, <1>10, <1>14, <1>15, <1>16, <1>17 DEF SInv

\* An operation ends and leaves the client and the server as they were.
LEMMA Ended ==
  ASSUME SInv, NEW s \in Slots, s \notin Changing,
         call[s].path = "me" /\ Undisturbed => session = NoSession,
         call[s].path = "me" => ~Plain(Upsets),
         call' = [call EXCEPT ![s] = Idle],
         UNCHANGED <<held, session, file, saved, active, valid, issued, upsets>>
  PROVE  SInv'
<1>1. /\ call' \in [Slots -> Calls] /\ \A t \in Slots : CallShaped(call'[t])
      /\ \A t \in Slots : call'[t] = IF t = s THEN Idle ELSE call[t]
  BY IdleShaped, CallUpdated DEF SInv
<1>2. TInv'
  BY <1>1 DEF SInv, TInv, TypeOK
<1>3. AllKnown'
  BY <1>1, IdleFields DEF SInv, AllKnown, Known
<1>4. /\ \A kinds : Plain(kinds)' <=> Plain(kinds)
      /\ Undisturbed' <=> Undisturbed
  BY DEF Plain, Undisturbed
<1>5. /\ InFlight' = InFlight \ {s}
      /\ SigningInOrOut' = SigningInOrOut \ {s}
      /\ SigningIn' = SigningIn \ {s}
      /\ Changing' = Changing /\ Pending' = Pending
  BY <1>1, IdleFields
     DEF InFlight, SigningInOrOut, SigningIn, Changing, Pending
<1>6. Exclusive'
  BY <1>4, <1>5 DEF SInv, Exclusive
<1>7. call[s].path # "me" => SigningIn' = SigningIn
  BY <1>5 DEF SigningIn
<1>8. Own'
  <2> SUFFICES ASSUME Undisturbed'
               PROVE  Own'
    BY DEF Own
  <2>1. Undisturbed /\ Own
    BY <1>4 DEF SInv
  <2>2. ASSUME NEW t \in Slots
        PROVE  CallOwn(call[t])'
    <3>1. CASE t = s
      <4>1. call'[t] = Idle
        BY <1>1, <3>1
      <4> QED
        BY <4>1, IdleFields DEF CallOwn
    <3>2. CASE t # s
      <4>1. call'[t] = call[t] /\ CallOwn(call[t])
        BY <1>1, <2>1, <3>2 DEF Own
      <4> QED
        BY <1>4, <4>1 DEF CallOwn
    <3> QED
      BY <3>1, <3>2
  <2> QED
    BY <1>7, <2>1, <2>2 DEF Own, OwnTokens
<1>9. Agree'
  BY <1>4, <1>7 DEF SInv, Agree
<1>10. Server'
  <2> SUFFICES ASSUME Plain(Upsets)'
               PROVE  Server'
    BY DEF Server
  <2>1. Plain(Upsets) /\ Server /\ SigningIn' = SigningIn
    BY <1>4, <1>7 DEF SInv
  <2>2. s \notin Pending
    BY DEF Changing
  <2>3. \A t \in Pending : call'[t] = call[t]
    BY <1>1, <2>2 DEF Pending
  <2>4. \A t \in Slots : call'[t] = Idle \/ call'[t] = call[t]
    BY <1>1
  <2>5. UNCHANGED LogoutToken
    BY DEF LogoutToken
  <2> QED
    BY <1>5, <2>1, <2>3, <2>4, <2>5, IdleFields DEF Server
<1> QED
  BY <1>2, <1>3, <1>6, <1>8, <1>9, <1>10 DEF SInv

\* The callback of a request gets a failure.
LEMMA FailsStep ==
  ASSUME SInv, NEW s \in Slots, Fails(s)
  PROVE  SInv'
<1>1. /\ call[s].answer \in {"denied", "rejected", "lost"}
      /\ ~CanRefresh(call[s]) /\ call' = [call EXCEPT ![s] = Idle]
      /\ UNCHANGED <<held, session, file, saved, active, valid, issued, upsets>>
  BY DEF Fails, client, server
<1>2. s \notin Changing
  BY <1>1 DEF Changing, Pending
<1>3. call[s].path = "me" /\ Undisturbed => session = NoSession
  <2> SUFFICES ASSUME call[s].path = "me", Undisturbed, session # NoSession
               PROVE  FALSE
    OBVIOUS
  <2>1. "switch" \in upsets
    BY DEF SInv, Own, CallOwn
  <2>2. Plain({"loss", "slowLogin"})
    BY <2>1 DEF Undisturbed, Plain
  <2> QED
    BY <1>1, <2>2, LoginGoesOn
<1>4. call[s].path = "me" => ~Plain(Upsets)
  BY <1>1, PlainAll, LoginGoesOn
<1> QED
  BY <1>1, <1>2, <1>3, <1>4, Ended

\* The callback of a request of the session gets its answer.
LEMMA AnsweredStep ==
  ASSUME SInv, NEW s \in Slots, Answered(s)
  PROVE  SInv'
<1>1. /\ call[s].path = "ask" /\ ~call[s].refreshing
      /\ call' = [call EXCEPT ![s] = Idle]
      /\ UNCHANGED <<held, session, file, saved, active, valid, issued, upsets>>
  BY DEF Answered, client, server
<1>2. s \notin Changing
  BY <1>1 DEF Changing, Pending
<1> QED
  BY <1>1, <1>2, Ended

\* The tokens of a login are set.
LEMMA LoggedInStep ==
  ASSUME SInv, NEW s \in Slots, LoggedIn(s)
  PROVE  SInv'
<1>c. PICK c : c = call[s]
  OBVIOUS
<1>1. PICK d : d = MeCall(c)
  OBVIOUS
<1>2. /\ c \in Calls /\ CallShaped(c) /\ c.path = "login" /\ ~c.refreshing
      /\ c.answer = "ok" /\ c.gives \in Tokens
  BY <1>c DEF SInv, TInv, TypeOK, LoggedIn, CallShaped
<1>3. /\ d \in Calls /\ CallShaped(d)
      /\ d.path = "me" /\ ~d.refreshing /\ ~d.retried
      /\ d.access = c.gives /\ d.sent = c.gives /\ d.body = NoTokens
      /\ d.user = NoUser /\ d.answer = "none" /\ d.gives = NoTokens
      /\ d.sends = 1
  BY <1>1, <1>2, MeFields
<1>4. /\ call' = [call EXCEPT ![s] = d] /\ held' = c.gives
      /\ UNCHANGED <<session, file, saved, active, valid, issued, upsets>>
  BY <1>c, <1>1 DEF LoggedIn, MeCall, server
<1>5. /\ call' \in [Slots -> Calls] /\ \A t \in Slots : CallShaped(call'[t])
      /\ \A t \in Slots : call'[t] = IF t = s THEN d ELSE call[t]
  BY <1>3, <1>4, CallUpdated DEF SInv
<1>6. TInv'
  BY <1>2, <1>4, <1>5 DEF SInv, TInv, TypeOK
<1>7. AllKnown'
  <2>1. Known(c.gives) /\ Known(NoTokens)
    BY <1>c DEF SInv, AllKnown, Known
  <2> QED
    BY <1>3, <1>4, <1>5, <2>1 DEF SInv, AllKnown, Known
<1>8. /\ \A kinds : Plain(kinds)' <=> Plain(kinds)
      /\ Undisturbed' <=> Undisturbed
  BY <1>4 DEF Plain, Undisturbed
<1>9. InFlight' = InFlight /\ SigningInOrOut' = SigningInOrOut
  BY <1>c, <1>2, <1>3, <1>5 DEF InFlight, SigningInOrOut
<1>10. Exclusive'
  BY <1>8, <1>9 DEF SInv, Exclusive
<1>11. s \in SigningIn'
  BY <1>3, <1>5 DEF SigningIn
<1>12. Plain({"overlap"}) => \A t \in Slots : t # s => call'[t] = Idle
  BY <1>c, <1>2, <1>5, Alone
<1>13. Own'
  <2> SUFFICES ASSUME Undisturbed'
               PROVE  Own'
    BY DEF Own
  <2>1. Undisturbed /\ Own /\ CallOwn(c) /\ Plain({"overlap"})
    BY <1>c, <1>8 DEF SInv, Own, Undisturbed
  <2>2. ASSUME NEW t \in Slots, t # s
        PROVE  CallOwn(call[t])'
    <3>1. call'[t] = Idle
      BY <1>12, <2>1, <2>2
    <3> QED
      BY <3>1, IdleFields DEF CallOwn
  <2>3. CallOwn(call[s])'
    <3>1. call'[s] = d
      BY <1>5
    <3> QED
      BY <1>2, <1>3, <1>4, <2>1, <3>1 DEF CallOwn
  <2> QED
    BY <1>4, <1>11, <2>1, <2>2, <2>3 DEF Own, OwnTokens
<1>14. Agree'
  BY <1>11 DEF Agree
<1>15. Server'
  <2> SUFFICES ASSUME Plain(Upsets)'
               PROVE  Server'
    BY DEF Server
  <2>1. /\ Plain(Upsets) /\ Server /\ session = NoSession
        /\ active = {c.gives} /\ \A t \in Slots : t # s => call'[t] = Idle
    BY <1>c, <1>2, <1>8, <1>12, PlainAll DEF Server
  <2>2. Pending' = {} /\ Changing' = {}
    BY <1>3, <1>5, <2>1, IdleFields DEF Pending, Changing
  <2> QED
    BY <1>2, <1>3, <1>4, <1>5, <1>11, <2>1, <2>2, IdleFields,
       SessionAssumption DEF Server
<1> QED
  BY <1>6, <1>7, <1>10, <1>13, <1>14, <1>15 DEF SInv

\* The session of a login is set and saved, and its callback is called.
LEMMA SignedInStep ==
  ASSUME SInv, NEW s \in Slots, SignedIn(s)
  PROVE  SInv'
<1>c. PICK c : c = call[s]
  OBVIOUS
<1>u. PICK u : u = c.sent.user
  OBVIOUS
<1>1. /\ c \in Calls /\ CallShaped(c) /\ c.path = "me" /\ ~c.refreshing
      /\ c.access \in Tokens /\ c.sent \in Tokens /\ u \in Users
  BY <1>c, <1>u DEF SInv, TInv, TypeOK, SignedIn, CallShaped, Tokens
<1>2. /\ call' = [call EXCEPT ![s] = Idle]
      /\ UNCHANGED <<held, active, valid, issued>>
  BY DEF SignedIn, server
<1>3. \/ /\ file' \in {file, u} /\ upsets' = upsets \cup {"store"}
         /\ UNCHANGED <<session, saved>>
      \/ /\ file' = u /\ session' = [user |-> u, tokens |-> c.access]
         /\ \/ saved' = [saved EXCEPT ![u] = session'] /\ upsets' = upsets
            \/ saved' = saved /\ upsets' = upsets \cup {"store"}
  BY <1>c, <1>u DEF SignedIn, Save, NewSession
<1>4. /\ call' \in [Slots -> Calls] /\ \A t \in Slots : CallShaped(call'[t])
      /\ \A t \in Slots : call'[t] = IF t = s THEN Idle ELSE call[t]
  BY <1>2, IdleShaped, CallUpdated DEF SInv
<1>5. /\ upsets \subseteq upsets' /\ upsets' \subseteq upsets \cup {"store"}
      /\ upsets \subseteq Upsets /\ file \in Users \cup {NoUser}
      /\ saved \in [Users \cup {NoUser} -> Sessions \cup {NoSession}]
  BY <1>3 DEF SInv, TInv, TypeOK
<1>6. PICK x : x = [user |-> u, tokens |-> c.access]
  OBVIOUS
<1>7. /\ x \in Sessions /\ x # NoSession /\ x.user = u /\ x.tokens = c.access
  BY <1>1, <1>6, SessionAssumption DEF Sessions
<1>8. /\ session' = session \/ session' = x
      /\ saved' \in [Users \cup {NoUser} -> Sessions \cup {NoSession}]
      /\ \A f \in Users \cup {NoUser} : saved'[f] = saved[f] \/ saved'[f] = x
  <2>1. session' = session \/ session' = x
    BY <1>3, <1>6
  <2>2. saved' = saved \/ saved' = [saved EXCEPT ![u] = x]
    BY <1>3, <1>6
  <2> QED
    BY <1>1, <1>5, <1>7, <2>1, <2>2
<1>9. TInv'
  BY <1>1, <1>2, <1>3, <1>4, <1>5, <1>7, <1>8
     DEF SInv, TInv, TypeOK, Upsets
<1>10. AllKnown'
  <2>1. Known(c.access)
    BY <1>c DEF SInv, AllKnown
  <2> QED
    BY <1>2, <1>4, <1>7, <1>8, <2>1, IdleFields DEF SInv, AllKnown, Known
<1>11. /\ \A kinds : Plain(kinds)' => Plain(kinds)
       /\ Undisturbed' => Undisturbed
  BY <1>5, PlainBefore
<1>12. Plain({"overlap"}) => \A t \in Slots : call'[t] = Idle
  BY <1>c, <1>1, <1>4, Alone
<1>13. Exclusive'
  BY <1>11, <1>12, IdleFields DEF Exclusive, SigningInOrOut
<1>14. Plain({"overlap"}) => SigningIn' = {}
  BY <1>12, IdleFields DEF SigningIn
<1>15. Undisturbed =>
         /\ held \in Tokens /\ c.access.user = held.user /\ u = held.user
         /\ session # NoSession => "switch" \in upsets
         /\ Plain({"slowLogin"}) => held = c.access
  BY <1>c, <1>u, <1>1 DEF SInv, Own, CallOwn
<1>16. Own'
  <2> SUFFICES ASSUME Undisturbed'
               PROVE  Own'
    BY DEF Own
  <2>1. Undisturbed /\ Own /\ Plain({"overlap"})
    BY <1>11 DEF SInv, Undisturbed
  <2>2. OwnTokens(x)
    BY <1>7, <1>15, <2>1 DEF OwnTokens
  <2>3. OwnTokens(session) /\ \A f \in Users \cup {NoUser} : OwnTokens(saved[f])
    BY <2>1 DEF Own
  <2>4. OwnTokens(session') /\ \A f \in Users \cup {NoUser} : OwnTokens(saved'[f])
    BY <1>8, <2>2, <2>3
  <2>5. session' # NoSession => session' = x
    BY <1>3, <1>6, <1>15, <2>1 DEF Undisturbed, Plain
  <2>6. \A t \in Slots : CallOwn(call[t])'
    BY <1>12, <2>1, IdleFields DEF CallOwn
  <2> QED
    BY <1>2, <1>7, <1>15, <2>1, <2>4, <2>5, <2>6 DEF Own, OwnTokens
<1>17. Agree'
  <2> SUFFICES ASSUME Undisturbed', Plain({"store", "slowLogin"})'
               PROVE  saved'[file'] = session' /\ held' = session'.tokens
    BY DEF Agree
  <2>1. Undisturbed /\ Plain({"slowLogin"}) /\ "store" \notin upsets'
    BY <1>11 DEF Plain
  <2>2. session' = x /\ file' = u /\ saved' = [saved EXCEPT ![u] = x]
    BY <1>3, <1>6, <2>1
  <2> QED
    BY <1>1, <1>2, <1>5, <1>7, <1>15, <2>1, <2>2
<1>18. Server'
  <2> SUFFICES ASSUME Plain(Upsets)'
               PROVE  Server'
    BY DEF Server
  <2>1. /\ Plain(Upsets) /\ Server /\ Undisturbed /\ Plain({"overlap"})
        /\ "store" \notin upsets' /\ \A t \in Slots : t # s => call[t] = Idle
    BY <1>c, <1>1, <1>11, PlainAll, Alone DEF Plain, Upsets
  <2>2. Changing = {}
    BY <1>c, <1>1, <2>1, IdleFields DEF Changing, Pending
  <2>3. active = {held} /\ session' = x
    BY <1>3, <1>6, <1>15, <2>1, <2>2, SessionAssumption DEF Server
  <2>4. Pending' = {} /\ Changing' = {} /\ \A t \in Slots : call'[t] = Idle
    BY <1>12, <2>1, IdleFields DEF Pending, Changing
  <2> QED
    BY <1>2, <1>7, <1>15, <2>1, <2>3, <2>4, IdleFields, SessionAssumption
       DEF Server
<1> QED
  BY <1>9, <1>10, <1>13, <1>16, <1>17, <1>18 DEF SInv

\* The tokens and the session are cleared, and so is the saved session.
LEMMA SignedOutStep ==
  ASSUME SInv, NEW s \in Slots, SignedOut(s)
  PROVE  SInv'
<1>1. /\ call[s].path = "logout" /\ call[s].answer = "ok"
      /\ call' = [call EXCEPT ![s] = Idle]
      /\ held' = NoTokens /\ session' = NoSession
      /\ UNCHANGED <<file, active, valid, issued>>
      /\ \/ saved' = [saved EXCEPT ![file] = NoSession] /\ upsets' = upsets
         \/ saved' = saved /\ upsets' = upsets \cup {"store"}
  BY DEF SignedOut, ClearedTokens, Save, server
<1>2. /\ call' \in [Slots -> Calls] /\ \A t \in Slots : CallShaped(call'[t])
      /\ \A t \in Slots : call'[t] = IF t = s THEN Idle ELSE call[t]
  BY <1>1, IdleShaped, CallUpdated DEF SInv
<1>3. /\ upsets \subseteq upsets' /\ upsets' \subseteq upsets \cup {"store"}
      /\ upsets \subseteq Upsets /\ file \in Users \cup {NoUser}
      /\ saved \in [Users \cup {NoUser} -> Sessions \cup {NoSession}]
  BY <1>1 DEF SInv, TInv, TypeOK
<1>4. /\ saved' \in [Users \cup {NoUser} -> Sessions \cup {NoSession}]
      /\ \A f \in Users \cup {NoUser} :
           saved'[f] = saved[f] \/ saved'[f] = NoSession
  BY <1>1, <1>3
<1>5. TInv'
  BY <1>1, <1>2, <1>3, <1>4 DEF SInv, TInv, TypeOK, Upsets
<1>6. AllKnown'
  BY <1>1, <1>2, <1>4, IdleFields DEF SInv, AllKnown, Known
<1>7. /\ \A kinds : Plain(kinds)' => Plain(kinds)
      /\ Undisturbed' => Undisturbed
  BY <1>3, PlainBefore
<1>8. Plain({"overlap"}) => \A t \in Slots : call'[t] = Idle
  BY <1>1, <1>2, Alone
<1>9. Exclusive'
  BY <1>7, <1>8, IdleFields DEF Exclusive, SigningInOrOut
<1>10. Own'
  <2> SUFFICES ASSUME Undisturbed'
               PROVE  Own'
    BY DEF Own
  <2>1. Undisturbed /\ Own /\ Plain({"overlap"})
    BY <1>7 DEF SInv, Undisturbed
  <2>2. \A f \in Users \cup {NoUser} : OwnTokens(saved[f])'
    BY <1>4, <2>1 DEF Own, OwnTokens
  <2>3. \A t \in Slots : CallOwn(call[t])'
    BY <1>8, <2>1, IdleFields DEF CallOwn
  <2> QED
    BY <1>1, <2>2, <2>3 DEF Own, OwnTokens
<1>11. Agree'
  BY <1>1 DEF Agree
<1>12. Server'
  <2> SUFFICES ASSUME Plain(Upsets)'
               PROVE  Server'
    BY DEF Server
  <2>1. Plain(Upsets) /\ Server /\ Plain({"overlap"})
    BY <1>7, PlainAll
  <2>2. active = {}
    BY <1>1, <2>1 DEF Server
  <2>3. Pending' = {} /\ Changing' = {} /\ \A t \in Slots : call'[t] = Idle
    BY <1>8, <2>1, IdleFields DEF Pending, Changing
  <2> QED
    BY <1>1, <2>2, <2>3, IdleFields DEF Server
<1> QED
  BY <1>5, <1>6, <1>9, <1>10, <1>11, <1>12 DEF SInv

\* The client stops and starts again.
LEMMA RestartStep ==
  ASSUME SInv, Restart
  PROVE  SInv'
<1>1. /\ session' \in {NoSession, saved[file]}
      /\ held' = IF session' = NoSession THEN NoTokens ELSE session'.tokens
      /\ call' = [s \in Slots |-> Idle]
      /\ upsets' = upsets \/ upsets' = upsets \cup {"loss"}
      /\ InFlight # {} \/ session' # session => "loss" \in upsets'
      /\ UNCHANGED <<file, saved, active, valid, issued>>
  BY DEF Restart, server
<1>2. /\ file \in Users \cup {NoUser} /\ upsets \subseteq Upsets
      /\ saved \in [Users \cup {NoUser} -> Sessions \cup {NoSession}]
  BY DEF SInv, TInv, TypeOK
<1>3. /\ session' \in Sessions \cup {NoSession}
      /\ session' # NoSession =>
           session' = saved[file] /\ held' = session'.tokens
             /\ session'.tokens \in Tokens
  BY <1>1, <1>2 DEF Sessions
<1>4. /\ call' \in [Slots -> Calls] /\ \A t \in Slots : CallShaped(call'[t])
      /\ \A t \in Slots : call'[t] = Idle
  BY <1>1, IdleShaped
<1>5. TInv'
  BY <1>1, <1>2, <1>3, <1>4 DEF SInv, TInv, TypeOK, Upsets
<1>6. AllKnown'
  BY <1>1, <1>2, <1>3, <1>4, IdleFields DEF SInv, AllKnown, Known
<1>7. upsets \subseteq upsets'
  BY <1>1
<1>8. /\ \A kinds : Plain(kinds)' => Plain(kinds)
      /\ Undisturbed' => Undisturbed
  BY <1>7, PlainBefore
<1>9. /\ SigningInOrOut' = {} /\ SigningIn' = {} /\ Pending' = {}
      /\ Changing' = {}
  BY <1>4, IdleFields DEF SigningInOrOut, SigningIn, Pending, Changing
<1>10. Exclusive'
  BY <1>9 DEF Exclusive
<1>11. Own'
  <2> SUFFICES ASSUME Undisturbed'
               PROVE  Own'
    BY DEF Own
  <2>1. \A f \in Users \cup {NoUser} : OwnTokens(saved[f])
    BY <1>8 DEF SInv, Own
  <2>2. \A t \in Slots : CallOwn(call[t])'
    BY <1>4, IdleFields DEF CallOwn
  <2> QED
    BY <1>1, <1>2, <1>3, <2>1, <2>2 DEF Own, OwnTokens
<1>12. Agree'
  BY <1>1, <1>3 DEF Agree
<1>13. Server'
  <2> SUFFICES ASSUME Plain(Upsets)'
               PROVE  Server'
    BY DEF Server
  <2>1. /\ Plain(Upsets) /\ Server /\ InFlight = {} /\ session' = session
    BY <1>1, <1>8, PlainAll DEF Plain, Upsets
  <2>2. Changing = {} /\ SigningIn = {}
    <3>1. \A t \in Slots : call[t] = Idle
      BY <2>1 DEF InFlight, SInv, TInv, CallShaped
    <3> QED
      BY <3>1, IdleFields DEF Changing, Pending, SigningIn
  <2>3. held' = held
    BY <1>1, <2>1, <2>2, PlainAll DEF Server
  <2>4. active' = IF held' = NoTokens THEN {} ELSE {held'}
    BY <1>1, <2>1, <2>2, <2>3 DEF Server
  <2> QED
    BY <1>1, <1>4, <1>9, <2>4, IdleFields DEF Server
<1> QED
  BY <1>5, <1>6, <1>10, <1>11, <1>12, <1>13 DEF SInv

\* A step that changes nothing.
LEMMA StutterStep ==
  ASSUME SInv, UNCHANGED vars
  PROVE  SInv'
BY DEF SInv, TInv, TypeOK, AllKnown, Known, Exclusive, Own, Agree, Server,
   Plain, Undisturbed, InFlight, SigningIn, SigningInOrOut, Pending, Changing,
   LogoutToken, CallOwn, OwnTokens, vars

-----------------------------------------------------------------------------
(* The theorems *)

\* A client that never ran, and a server that issued nothing.
LEMMA Start == Init => SInv
<1> SUFFICES ASSUME Init
             PROVE  SInv
  OBVIOUS
<1>1. \A s \in Slots : call[s] = Idle
  BY DEF Init
<1>2. TInv
  BY <1>1, IdleShaped DEF Init, TInv, TypeOK
<1>3. /\ SigningInOrOut = {} /\ SigningIn = {} /\ Pending = {}
      /\ Changing = {}
  BY <1>1, IdleFields DEF SigningInOrOut, SigningIn, Pending, Changing
<1>4. AllKnown
  BY <1>1, IdleFields DEF Init, AllKnown, Known
<1>5. Own
  BY <1>1, IdleFields DEF Init, Own, OwnTokens, CallOwn
<1>6. Agree /\ Exclusive
  BY <1>3 DEF Init, Agree, Exclusive
<1>7. Server
  BY <1>1, <1>3, IdleFields DEF Init, Server
<1> QED
  BY <1>2, <1>4, <1>5, <1>6, <1>7 DEF SInv

\* Every step of the session's specification keeps the inductive invariant.
LEMMA NextStep ==
  ASSUME SInv, [Next]_vars
  PROVE  SInv'
<1>1. ASSUME NEW s \in Slots, NEW u \in Users, Login(s, u)
      PROVE  SInv'
  BY <1>1, LoginStep
<1>2. ASSUME NEW s \in Slots, Logout(s) \/ Ask(s)
      PROVE  SInv'
  BY <1>2, LogoutStep, AskStep
<1>3. ASSUME NEW s \in Slots, Serve(s)
      PROVE  SInv'
  BY <1>3, ServeLoginStep, ServeRefreshStep, ServeLogoutStep,
     ServeProtectedStep, TurnAwayStep DEF Serve
<1>4. ASSUME NEW s \in Slots, Handle(s)
      PROVE  SInv'
  BY <1>4, RefreshStep, RefreshedStep, FailsStep, LoggedInStep, SignedInStep,
     SignedOutStep, AnsweredStep DEF Handle
<1>5. ASSUME NEW t \in valid, Expire(t)
      PROVE  SInv'
  BY <1>5, ExpireStep
<1> QED
  BY <1>1, <1>2, <1>3, <1>4, <1>5, RestartStep, StutterStep DEF Next

\* The inductive invariant holds of every state the client and the server reach.
THEOREM SessionInvariance == Spec => []SInv
<1>1. Init => SInv
  BY Start
<1>2. SInv /\ [Next]_vars => SInv'
  BY NextStep
<1> QED
  BY <1>1, <1>2, PTL DEF Spec

\* The tokens, the sessions, the files and the requests are what the code's types
\* say they are, and a request carries what its step of the exchange needs.
THEOREM SessionTypes == Spec => []TypeOK
<1>1. SInv => TypeOK
  BY DEF SInv, TInv
<1> QED
  BY <1>1, SessionInvariance, PTL

\* Every request of a signed-in account goes out in the name of the account that
\* /whoami shows, through logins, refreshes, expiry and restarts, as long as no
\* login or logout overlapped another request and a change of account was not
\* made over a failure.
THEOREM RequestsActAsShown == Spec => []ActsAsShown
<1>1. SInv => ActsAsShown
  BY DEF SInv, Own, CallOwn, ActsAsShown
<1> QED
  BY <1>1, SessionInvariance, PTL

\* While nobody is signing in or out, HttpClient, SessionService and the state
\* file hold the same tokens.
THEOREM TokenCopiesAgree == Spec => []CopiesAgree
<1>1. SigningInOrOut = {} => SigningIn = {}
  BY DEF SigningInOrOut, SigningIn
<1>2. SInv => CopiesAgree
  BY <1>1 DEF SInv, Agree, CopiesAgree
<1> QED
  BY <1>2, SessionInvariance, PTL

\* When nothing went wrong and nothing is in flight, the server would exchange
\* the refresh token of the client and no other.
THEOREM ServerKeepsClientsToken == Spec => []ServerAgrees
<1>1. SInv => ServerAgrees
  <2> SUFFICES ASSUME SInv, Plain(Upsets), InFlight = {}
               PROVE  IF session = NoSession THEN active = {} /\ held = NoTokens
                      ELSE active = {session.tokens} /\ held = session.tokens
    BY DEF ServerAgrees
  <2>1. \A s \in Slots : call[s] = Idle
    BY DEF InFlight, SInv, TInv, CallShaped
  <2>2. Changing = {} /\ SigningIn = {}
    BY <2>1, IdleFields DEF Changing, Pending, SigningIn
  <2>3. active = IF held = NoTokens THEN {} ELSE {held}
    BY <2>2, PlainAll DEF Server
  <2>4. CASE session = NoSession
    BY <2>2, <2>3, <2>4, PlainAll DEF Server
  <2>5. CASE session # NoSession
    BY <2>2, <2>3, <2>5, PlainAll, SessionAssumption
  <2> QED
    BY <2>4, <2>5
<1> QED
  BY <1>1, SessionInvariance, PTL

\* HttpClient sends a request at most twice.
THEOREM NoThirdSend == Spec => []RetriedOnce
<1>1. SInv => RetriedOnce
  BY DEF SInv, TInv, TypeOK, CallShaped, Calls, RetriedOnce
<1> QED
  BY <1>1, SessionInvariance, PTL

=============================================================================
