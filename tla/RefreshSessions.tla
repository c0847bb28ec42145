---------------------------- MODULE RefreshSessions ----------------------------
(***************************************************************************)
(* The refresh_sessions table of the relay and the requests that work on   *)
(* it: login inserts a session, refresh exchanges the presented token for  *)
(* a new session, logout revokes it.  A refresh or logout selects its row  *)
(* FOR UPDATE, so it waits while another transaction holds the row and     *)
(* looks at the row again when it gets it.                                 *)
(*                                                                         *)
(* Tokens are numbered in the order their sessions are inserted and stand  *)
(* for their hashes and jti.  revoked_at is one column; status tells the   *)
(* two reasons for setting it apart.  lineage and parent are not stored by *)
(* the code: they record which login and which token a session came from.  *)
(***************************************************************************)
EXTENDS Naturals

CONSTANTS
    Requests,      \* refresh and logout requests in progress at a time
    MaxSessions,   \* bound: sessions ever inserted
    MaxErrors      \* bound: transactions lost to database errors

ASSUME SessionBoundsAssumption == MaxSessions \in Nat /\ MaxErrors \in Nat

VARIABLES
    session,   \* the table
    next,      \* the next session's number
    expired,   \* sessions whose expires_at has passed
    request,   \* per request: operation, token, progress
    errors     \* database errors so far

vars == <<session, next, expired, request, errors>>

--------------------------------------------------------------------------------
Tokens == 1..MaxSessions

NoSession == [status |-> "free", lineage |-> 0, parent |-> 0]

Session == [status : {"free", "active", "rotated", "loggedOut"},
            lineage : 0..MaxSessions, parent : 0..MaxSessions]

\* fresh: the row's expires_at was later than the time the request read.
NoRequest == [op |-> "none", token |-> 0, fresh |-> FALSE, pc |-> "idle"]

Request == [op : {"none", "refresh", "logout"}, token : 0..MaxSessions,
            fresh : BOOLEAN, pc : {"idle", "selecting", "locked"}]

TypeOK ==
    /\ session \in [Tokens -> Session]
    /\ next \in 1..(MaxSessions + 1)
    /\ expired \subseteq Tokens
    /\ request \in [Requests -> Request]
    /\ errors \in 0..MaxErrors

--------------------------------------------------------------------------------
\* revoked_at is null.
Active(t) == session[t].status = "active"

Held(t) == \E r \in Requests : request[r].token = t /\ request[r].pc = "locked"

\* Mutant: with_for_update left out, the row is read without waiting.
RowUnread(t) == Active(t)

\* The row matches and FOR UPDATE gets its lock.
RowFree(t) == Active(t) /\ ~Held(t)

\* The request's transaction is over and its answer sent.
Finish(r) == request' = [request EXCEPT ![r] = NoRequest]

Insert(l, p) ==
    [session EXCEPT ![next] = [status |-> "active", lineage |-> l, parent |-> p]]

--------------------------------------------------------------------------------
\* create_login_tokens: the session is inserted and committed.
Login ==
    /\ next <= MaxSessions
    /\ session' = Insert(next, 0)
    /\ next' = next + 1
    /\ UNCHANGED <<expired, request, errors>>

\* A client presents a token it was given; the time is read before the SELECT.
Present(r, op, t) ==
    /\ request[r].pc = "idle"
    /\ t < next
    /\ request' = [request EXCEPT ![r] =
          [op |-> op, token |-> t, fresh |-> t \notin expired,
           pc |-> "selecting"]]
    /\ UNCHANGED <<session, next, expired, errors>>

\* get_active_by_hash(for_update=True) returns the row.
SelectForUpdate(r) ==
    /\ request[r].pc = "selecting"
    /\ request[r].fresh
    /\ RowFree(request[r].token)
    /\ request' = [request EXCEPT ![r].pc = "locked"]
    /\ UNCHANGED <<session, next, expired, errors>>

\* get_active_by_hash returns None: refresh answers 401, logout answers 200.
SelectNothing(r) ==
    /\ request[r].pc = "selecting"
    /\ ~request[r].fresh \/ ~Active(request[r].token)
    /\ Finish(r)
    /\ UNCHANGED <<session, next, expired, errors>>

\* Mutant: the presented session is not revoked.
RefreshKeepingOld(r) ==
    LET t == request[r].token
    IN  /\ request[r].op = "refresh"
        /\ request[r].pc = "locked"
        /\ next <= MaxSessions
        /\ session' = Insert(session[t].lineage, t)
        /\ next' = next + 1
        /\ Finish(r)
        /\ UNCHANGED <<expired, errors>>

\* refresh_access_token: revoke, insert the successor, COMMIT.
Refresh(r) ==
    LET t == request[r].token
    IN  /\ request[r].op = "refresh"
        /\ request[r].pc = "locked"
        /\ next <= MaxSessions
        /\ session' = [Insert(session[t].lineage, t) EXCEPT ![t].status = "rotated"]
        /\ next' = next + 1
        /\ Finish(r)
        /\ UNCHANGED <<expired, errors>>

\* logout: revoke, COMMIT.
Logout(r) ==
    /\ request[r].op = "logout"
    /\ request[r].pc = "locked"
    /\ session' = [session EXCEPT ![request[r].token].status = "loggedOut"]
    /\ Finish(r)
    /\ UNCHANGED <<next, expired, errors>>

\* Mutant: the revocation is committed before the successor is inserted.
RollBackKeepingRevocation(r) ==
    /\ request[r].pc = "locked"
    /\ errors < MaxErrors
    /\ errors' = errors + 1
    /\ session' = [session EXCEPT ![request[r].token].status = "rotated"]
    /\ Finish(r)
    /\ UNCHANGED <<next, expired>>

\* Any exception rolls the transaction back and releases the row.
RollBack(r) ==
    /\ request[r].pc = "locked"
    /\ errors < MaxErrors
    /\ errors' = errors + 1
    /\ Finish(r)
    /\ UNCHANGED <<session, next, expired>>

\* expires_at passes.
Expire(t) ==
    /\ t < next
    /\ t \notin expired
    /\ expired' = expired \cup {t}
    /\ UNCHANGED <<session, next, request, errors>>

--------------------------------------------------------------------------------
Init ==
    /\ session = [t \in Tokens |-> NoSession]
    /\ next = 1
    /\ expired = {}
    /\ request = [r \in Requests |-> NoRequest]
    /\ errors = 0

\* What the server does for a request once it has come in.
Handle(r) == SelectForUpdate(r) \/ SelectNothing(r) \/ Refresh(r) \/ Logout(r)

Next ==
    \/ Login
    \/ \E r \in Requests, op \in {"refresh", "logout"}, t \in Tokens :
          Present(r, op, t)
    \/ \E r \in Requests : Handle(r) \/ RollBack(r)
    \/ \E t \in Tokens : Expire(t)

Spec == Init /\ [][Next]_vars

Lineage == INSTANCE LoginLineage
             WITH valid <- [l \in Tokens |->
                              {t \in Tokens : Active(t) /\ session[t].lineage = l}],
                  issued <- 1..(next - 1)

--------------------------------------------------------------------------------
(* Properties *)

\* A token is exchanged once and never lost in the exchange: whatever requests
\* present it at the same time, and whatever transaction fails half-way, it
\* has a successor exactly when it was rotated, and no more than one.
ExchangedOnce ==
    /\ \A t \in Tokens :
          session[t].status = "rotated" <=>
             \E s \in Tokens : session[s].parent = t
    /\ \A s, t \in Tokens : (session[s].parent = session[t].parent
                               /\ session[s].parent # 0) => s = t

\* No two tokens of one login can be exchanged at the same time.
OneValidToken ==
    \A s, t \in Tokens : (/\ Active(s)
                          /\ Active(t)
                          /\ session[s].lineage = session[t].lineage) => s = t

\* A logout that found its token leaves no token of that login alive, even
\* when a refresh of the same token was waiting for the row.
LogoutEndsLineage ==
    \A s, t \in Tokens : (/\ session[s].status = "loggedOut"
                          /\ session[s].lineage = session[t].lineage)
                         => ~Active(t)

\* Sessions are numbered as they are inserted.
SessionsWellFormed ==
    \A t \in Tokens :
       /\ t >= next => session[t] = NoSession
       /\ t < next => /\ session[t].status # "free"
                      /\ session[t].lineage \in 1..t
                      /\ session[t].parent < t

\* A row that a transaction has locked stays active until it commits.
LocksExclusive ==
    \A r \in Requests :
       /\ request[r].pc # "idle" => request[r].token \in 1..(next - 1)
       /\ request[r].pc = "locked" =>
             /\ Active(request[r].token)
             /\ \A q \in Requests \ {r} :
                   request[q].pc = "locked" => request[q].token # request[r].token

\* The inductive invariant behind the properties above.
IInv ==
    /\ TypeOK
    /\ SessionsWellFormed
    /\ LocksExclusive
    /\ ExchangedOnce
    /\ OneValidToken
    /\ LogoutEndsLineage

\* The sessions of a login behave as LoginLineage says.
ImplementsLineage == Lineage!Spec
================================================================================
