------------------------- MODULE RefreshSessionsProofs -------------------------
(***************************************************************************)
(* IInv is an invariant of RefreshSessions for every number of requests,   *)
(* sessions and database errors; the sessions of a login implement         *)
(* LoginLineage.                                                           *)
(***************************************************************************)
EXTENDS RefreshSessions, TLAPS

USE SessionBoundsAssumption

--------------------------------------------------------------------------------
\* The empty table satisfies the invariant.
LEMMA InitIInv == Init => IInv
<1> SUFFICES ASSUME Init PROVE IInv
  OBVIOUS
<1> USE DEF Init, Tokens, NoSession, NoRequest, Active
<1>1. TypeOK
  BY DEF TypeOK, Session, Request
<1>2. SessionsWellFormed /\ LocksExclusive
  BY DEF SessionsWellFormed, LocksExclusive
<1>3. ExchangedOnce /\ OneValidToken /\ LogoutEndsLineage
  BY DEF ExchangedOnce, OneValidToken, LogoutEndsLineage
<1> QED
  BY <1>1, <1>2, <1>3 DEF IInv

\* The fields of a well-typed table and its requests.
LEMMA Fields ==
    ASSUME TypeOK
    PROVE  /\ next \in Nat
           /\ \A t \in Tokens :
                 /\ t \in Nat
                 /\ session[t].status \in
                       {"free", "active", "rotated", "loggedOut"}
                 /\ session[t].lineage \in 0..MaxSessions
                 /\ session[t].parent \in 0..MaxSessions
           /\ \A r \in Requests : request[r].token \in 0..MaxSessions
BY DEF TypeOK, Session, Request, Tokens

\* What an insertion writes.
LEMMA InsertRow ==
    ASSUME TypeOK, next <= MaxSessions, NEW l \in 0..MaxSessions,
           NEW p \in 0..MaxSessions
    PROVE  /\ next \in Tokens
           /\ Insert(l, p) \in [Tokens -> Session]
           /\ Insert(l, p)[next].status = "active"
           /\ Insert(l, p)[next].lineage = l
           /\ Insert(l, p)[next].parent = p
           /\ \A t \in Tokens : t # next => Insert(l, p)[t] = session[t]
<1>1. next \in Tokens
  BY DEF TypeOK, Tokens
<1>2. [status |-> "active", lineage |-> l, parent |-> p] \in Session
  BY DEF Session
<1> QED
  BY <1>1, <1>2 DEF Insert, TypeOK

\* Setting the status of a row leaves its other columns.
LEMMA StatusUpdate ==
    ASSUME NEW f \in [Tokens -> Session], NEW t \in Tokens,
           NEW s \in {"rotated", "loggedOut"},
           NEW g, g = [f EXCEPT ![t].status = s]
    PROVE  /\ g \in [Tokens -> Session]
           /\ g[t].status = s
           /\ \A u \in Tokens : /\ g[u].lineage = f[u].lineage
                                /\ g[u].parent = f[u].parent
                                /\ u # t => g[u] = f[u]
<1>1. \A u \in Tokens : f[u] \in Session
  OBVIOUS
<1>2. \A u \in Tokens : /\ [f[u] EXCEPT !.status = s] \in Session
                        /\ [f[u] EXCEPT !.status = s].status = s
                        /\ [f[u] EXCEPT !.status = s].lineage = f[u].lineage
                        /\ [f[u] EXCEPT !.status = s].parent = f[u].parent
  BY <1>1 DEF Session
<1>3. g = [u \in Tokens |-> IF u = t THEN [f[u] EXCEPT !.status = s] ELSE f[u]]
  OBVIOUS
<1> QED
  BY <1>2, <1>3

\* A request that ends leaves the others.
LEMMA FinishStep ==
    ASSUME TypeOK, NEW r \in Requests, Finish(r)
    PROVE  /\ request' \in [Requests -> Request]
           /\ request'[r] = NoRequest
           /\ \A q \in Requests : q # r => request'[q] = request[q]
<1>1. NoRequest \in Request
  BY DEF NoRequest, Request
<1> QED
  BY <1>1 DEF Finish, TypeOK

\* Locks stay exclusive when a request ends and no other locked row changes.
LEMMA LocksKept ==
    ASSUME TypeOK, LocksExclusive, NEW r \in Requests, Finish(r),
           next' \in Nat, next <= next',
           \A q \in Requests \ {r} : request[q].pc = "locked" =>
              session'[request[q].token].status =
                 session[request[q].token].status
    PROVE  LocksExclusive'
<1>1. /\ request'[r].pc = "idle"
      /\ \A q \in Requests : q # r => request'[q] = request[q]
  BY FinishStep DEF NoRequest
<1>2. next \in Nat /\ \A q \in Requests : request[q].token \in 0..MaxSessions
  BY Fields
<1> QED
  BY <1>1, <1>2 DEF LocksExclusive, Active

--------------------------------------------------------------------------------
\* A login opens a lineage of its own.
LEMMA LoginStep ==
    ASSUME IInv, Login
    PROVE  IInv'
<1>0. /\ TypeOK /\ SessionsWellFormed /\ LocksExclusive /\ ExchangedOnce
      /\ OneValidToken /\ LogoutEndsLineage
  BY DEF IInv
<1>f. /\ next \in Nat /\ MaxSessions \in Nat /\ Tokens = 1..MaxSessions
      /\ \A t \in Tokens : t \in Nat
  BY <1>0, Fields DEF Tokens
<1>1. /\ next \in Tokens
      /\ session' \in [Tokens -> Session]
      /\ session'[next].status = "active"
      /\ session'[next].lineage = next
      /\ session'[next].parent = 0
      /\ \A t \in Tokens : t # next => session'[t] = session[t]
  <2>1. next \in 0..MaxSessions
    BY <1>f DEF Login
  <2> QED
    BY <1>0, <1>f, <2>1, InsertRow DEF Login
<1>2. /\ session[next] = NoSession
      /\ \A t \in Tokens : t # next /\ session[t].status # "free" =>
            t < next /\ session[t].lineage \in 1..t
      /\ \A t \in Tokens : session[t].status = "free" => session[t].parent = 0
  BY <1>0, <1>1, <1>f DEF SessionsWellFormed, NoSession
<1>3. TypeOK'
  BY <1>0, <1>1 DEF Login, TypeOK
<1>4. SessionsWellFormed'
  <2>1. ASSUME NEW t \in Tokens
        PROVE  /\ t >= next' => session'[t] = NoSession
               /\ t < next' => /\ session'[t].status # "free"
                               /\ session'[t].lineage \in 1..t
                               /\ session'[t].parent < t
    <3>1. CASE t = next
      BY <1>1, <1>f, <3>1 DEF Login
    <3>2. CASE t # next
      <4>1. (t >= next' => t >= next) /\ (t < next' => t < next)
        BY <1>f, <3>2 DEF Login
      <4> QED
        BY <1>0, <1>1, <3>2, <4>1 DEF SessionsWellFormed
    <3> QED
      BY <3>1, <3>2
  <2> QED
    BY <2>1 DEF SessionsWellFormed
<1>5. LocksExclusive'
  <2>1. \A r \in Requests : request[r].pc # "idle" => request[r].token # next
    BY <1>0, <1>f DEF LocksExclusive
  <2>2. \A r \in Requests : request[r].pc # "idle" => request[r].token \in Tokens
    BY <1>0, <1>1, <1>f DEF LocksExclusive
  <2> QED
    BY <1>0, <1>1, <1>f, <2>1, <2>2 DEF LocksExclusive, Login, Active
<1>6. ExchangedOnce'
  BY <1>0, <1>1, <1>2, <1>f DEF ExchangedOnce, NoSession
<1>7. OneValidToken'
  BY <1>0, <1>1, <1>2, <1>f DEF OneValidToken, Active
<1>8. LogoutEndsLineage'
  BY <1>0, <1>1, <1>2, <1>f DEF LogoutEndsLineage, Active
<1> QED
  BY <1>3, <1>4, <1>5, <1>6, <1>7, <1>8 DEF IInv

\* What a refresh writes: its token's row and the row of the successor.
LEMMA RefreshRows ==
    ASSUME IInv, NEW r \in Requests, Refresh(r),
           NEW t, t = request[r].token, NEW l, l = session[t].lineage
    PROVE  /\ t \in Tokens /\ t < next /\ session[t].status = "active" /\ t # 0
           /\ l \in 0..MaxSessions /\ l \in 1..t
           /\ next \in Tokens
           /\ session' \in [Tokens -> Session]
           /\ session'[next].status = "active"
           /\ session'[next].lineage = l
           /\ session'[next].parent = t
           /\ session'[t].status = "rotated"
           /\ session'[t].lineage = l
           /\ session'[t].parent = session[t].parent
           /\ \A u \in Tokens : u # next /\ u # t => session'[u] = session[u]
<1>0. TypeOK /\ SessionsWellFormed /\ LocksExclusive
  BY DEF IInv
<1>f. /\ next \in Nat /\ MaxSessions \in Nat /\ Tokens = 1..MaxSessions
      /\ \A u \in Tokens : u \in Nat
  BY <1>0, Fields DEF Tokens
<1>1. t \in Tokens /\ t < next /\ session[t].status = "active" /\ t # 0
  BY <1>0, <1>f DEF Refresh, LocksExclusive, Active
<1>2. l \in 0..MaxSessions /\ l \in 1..t
  BY <1>0, <1>1, Fields DEF SessionsWellFormed
<1> DEFINE f == Insert(l, t)
<1>3. t \in 0..MaxSessions /\ next <= MaxSessions
  BY <1>1, <1>f DEF Refresh
<1>4. /\ next \in Tokens
      /\ f \in [Tokens -> Session]
      /\ f[next].status = "active"
      /\ f[next].lineage = l
      /\ f[next].parent = t
      /\ \A u \in Tokens : u # next => f[u] = session[u]
  BY <1>0, <1>2, <1>3, InsertRow
<1>5. session' = [f EXCEPT ![t].status = "rotated"]
  BY DEF Refresh
<1>6. t # next
  BY <1>1, <1>f
<1> HIDE DEF f
<1>7. /\ session' \in [Tokens -> Session]
      /\ session'[t].status = "rotated"
      /\ \A u \in Tokens : /\ session'[u].lineage = f[u].lineage
                           /\ session'[u].parent = f[u].parent
                           /\ u # t => session'[u] = f[u]
  BY <1>1, <1>4, <1>5, StatusUpdate
<1> QED
  BY <1>1, <1>2, <1>4, <1>6, <1>7

\* A locked token is the only valid one of its login; its successor takes its
\* place.
LEMMA RefreshStep ==
    ASSUME IInv, NEW r \in Requests, Refresh(r)
    PROVE  IInv'
<1> DEFINE t == request[r].token
           l == session[t].lineage
<1>0. /\ TypeOK /\ SessionsWellFormed /\ LocksExclusive /\ ExchangedOnce
      /\ OneValidToken /\ LogoutEndsLineage
  BY DEF IInv
<1>f. /\ next \in Nat /\ MaxSessions \in Nat /\ Tokens = 1..MaxSessions
      /\ \A u \in Tokens : u \in Nat
  BY <1>0, Fields DEF Tokens
<1>r. /\ t \in Tokens /\ t < next /\ session[t].status = "active" /\ t # 0
      /\ l \in 0..MaxSessions /\ l \in 1..t
      /\ next \in Tokens
      /\ session' \in [Tokens -> Session]
      /\ session'[next].status = "active"
      /\ session'[next].lineage = l
      /\ session'[next].parent = t
      /\ session'[t].status = "rotated"
      /\ session'[t].lineage = l
      /\ session'[t].parent = session[t].parent
      /\ \A u \in Tokens : u # next /\ u # t => session'[u] = session[u]
  BY RefreshRows
<1>n. next' = next + 1 /\ Finish(r)
  BY DEF Refresh
<1> HIDE DEF t, l
<1>4. TypeOK'
  BY <1>0, <1>r, <1>f, FinishStep DEF Refresh, TypeOK
<1>5. SessionsWellFormed'
  <2>1. ASSUME NEW u \in Tokens
        PROVE  /\ u >= next' => session'[u] = NoSession
               /\ u < next' => /\ session'[u].status # "free"
                               /\ session'[u].lineage \in 1..u
                               /\ session'[u].parent < u
    <3>1. CASE u = next
      <4>1. \A k \in 1..t : k \in 1..next
        BY <1>r, <1>f
      <4> QED
        BY <1>r, <1>f, <1>n, <3>1, <4>1
    <3>2. CASE u = t
      BY <1>0, <1>r, <1>f, <1>n, <3>2 DEF SessionsWellFormed
    <3>3. CASE u # next /\ u # t
      <4>1. (u >= next' => u >= next) /\ (u < next' => u < next)
        BY <1>f, <3>3 DEF Refresh
      <4> QED
        BY <1>0, <1>r, <3>3, <4>1 DEF SessionsWellFormed
    <3> QED
      BY <3>1, <3>2, <3>3
  <2> QED
    BY <2>1 DEF SessionsWellFormed
<1>6. LocksExclusive'
  <2>1. \A q \in Requests \ {r} : request[q].pc = "locked" =>
           /\ request[q].token # t
           /\ request[q].token # next
           /\ request[q].token \in Tokens
    BY <1>0, <1>r, <1>f DEF LocksExclusive, Refresh, t
  <2>2. \A q \in Requests \ {r} : request[q].pc = "locked" =>
           session'[request[q].token].status = session[request[q].token].status
    BY <1>r, <2>1
  <2> QED
    BY <1>0, <1>f, <1>n, <2>2, LocksKept
<1>7. session[next] = NoSession
  BY <1>0, <1>r, <1>f DEF SessionsWellFormed
<1>8. ExchangedOnce'
  <2>1. \A u \in Tokens : session[u].parent # t /\ session[u].parent # next
    <3>1. \A u \in Tokens : session[u].parent # t
      BY <1>0, <1>r DEF ExchangedOnce
    <3>2. \A u \in Tokens : session[u].parent # next
      BY <1>0, <1>r, <1>7 DEF ExchangedOnce, NoSession
    <3> QED
      BY <3>1, <3>2
  <2>2. \A u \in Tokens : u # next => session'[u].parent = session[u].parent
    BY <1>r
  <2>3. ASSUME NEW u \in Tokens
        PROVE  session'[u].status = "rotated" <=>
                  \E s \in Tokens : session'[s].parent = u
    <3>1. CASE u = t
      BY <1>r, <3>1
    <3>2. CASE u = next
      <4>1. \A s \in Tokens : session'[s].parent # next
        BY <1>r, <1>f, <2>1, <2>2
      <4> QED
        BY <1>r, <3>2, <4>1
    <3>3. CASE u # t /\ u # next
      <4>1. session'[u] = session[u] /\ u # 0
        BY <1>r, <1>f, <3>3
      <4>2. \A s \in Tokens : session'[s].parent = u <=> session[s].parent = u
        BY <1>r, <1>7, <2>2, <3>3, <4>1 DEF NoSession
      <4> QED
        BY <1>0, <4>1, <4>2 DEF ExchangedOnce
    <3> QED
      BY <3>1, <3>2, <3>3
  <2>4. ASSUME NEW s \in Tokens, NEW u \in Tokens,
               session'[s].parent = session'[u].parent, session'[s].parent # 0
        PROVE  s = u
    BY <1>0, <1>r, <2>1, <2>2, <2>4 DEF ExchangedOnce
  <2> QED
    BY <2>3, <2>4 DEF ExchangedOnce
<1>9. OneValidToken'
  <2>1. \A u \in Tokens : u # t /\ session[u].lineage = l =>
           session[u].status # "active"
    BY <1>0, <1>r DEF OneValidToken, Active, l
  <2> QED
    BY <1>0, <1>r, <2>1 DEF OneValidToken, Active
<1>10. LogoutEndsLineage'
  <2>1. \A u \in Tokens : session[u].lineage = l =>
           session[u].status # "loggedOut"
    BY <1>0, <1>r DEF LogoutEndsLineage, Active, l
  <2> QED
    BY <1>0, <1>r, <2>1 DEF LogoutEndsLineage, Active
<1> QED
  BY <1>4, <1>5, <1>6, <1>8, <1>9, <1>10 DEF IInv

\* What a logout writes.
LEMMA LogoutRows ==
    ASSUME IInv, NEW r \in Requests, Logout(r),
           NEW t, t = request[r].token
    PROVE  /\ t \in Tokens /\ t < next /\ session[t].status = "active"
           /\ session' \in [Tokens -> Session]
           /\ session'[t].status = "loggedOut"
           /\ \A u \in Tokens : /\ session'[u].lineage = session[u].lineage
                                /\ session'[u].parent = session[u].parent
                                /\ u # t => session'[u] = session[u]
<1>0. TypeOK /\ LocksExclusive
  BY DEF IInv
<1>1. t \in Tokens /\ t < next /\ session[t].status = "active"
  <2>1. t \in 0..MaxSessions /\ next \in Nat /\ Tokens = 1..MaxSessions
    BY <1>0, Fields DEF Tokens
  <2> QED
    BY <1>0, <2>1 DEF Logout, LocksExclusive, Active
<1>2. session \in [Tokens -> Session]
  BY <1>0 DEF TypeOK
<1>3. session' = [session EXCEPT ![t].status = "loggedOut"]
  BY DEF Logout
<1> QED
  BY <1>1, <1>2, <1>3, StatusUpdate

\* A logout ends its lineage, whose only valid token it holds.
LEMMA LogoutStep ==
    ASSUME IInv, NEW r \in Requests, Logout(r)
    PROVE  IInv'
<1> DEFINE t == request[r].token
<1>0. /\ TypeOK /\ SessionsWellFormed /\ LocksExclusive /\ ExchangedOnce
      /\ OneValidToken /\ LogoutEndsLineage
  BY DEF IInv
<1>f. /\ next \in Nat /\ Tokens = 1..MaxSessions
  BY <1>0, Fields DEF Tokens
<1>r. /\ t \in Tokens /\ t < next /\ session[t].status = "active"
      /\ session' \in [Tokens -> Session]
      /\ session'[t].status = "loggedOut"
      /\ \A u \in Tokens : /\ session'[u].lineage = session[u].lineage
                           /\ session'[u].parent = session[u].parent
                           /\ u # t => session'[u] = session[u]
  BY LogoutRows
<1> HIDE DEF t
<1>3. TypeOK'
  BY <1>0, <1>r, FinishStep DEF Logout, TypeOK
<1>4. SessionsWellFormed'
  BY <1>0, <1>r, <1>f DEF SessionsWellFormed, Logout
<1>5. LocksExclusive'
  <2>1. \A q \in Requests \ {r} : request[q].pc = "locked" =>
           request[q].token # t /\ request[q].token \in Tokens
    <3>1. \A q \in Requests : request[q].token \in 0..MaxSessions
      BY <1>0, Fields
    <3> QED
      BY <1>0, <1>f, <3>1 DEF LocksExclusive, Logout, t, TypeOK
  <2>2. \A q \in Requests \ {r} : request[q].pc = "locked" =>
           session'[request[q].token].status = session[request[q].token].status
    BY <1>r, <2>1
  <2>3. next' = next /\ Finish(r)
    BY DEF Logout
  <2> QED
    BY <1>0, <1>f, <2>2, <2>3, LocksKept
<1>6. ExchangedOnce'
  BY <1>0, <1>r DEF ExchangedOnce
<1>7. OneValidToken'
  BY <1>0, <1>r DEF OneValidToken, Active
<1>8. LogoutEndsLineage'
  <2>1. \A u \in Tokens : u # t /\ session[u].lineage = session[t].lineage =>
           session[u].status # "active"
    BY <1>0, <1>r DEF OneValidToken, Active
  <2> QED
    BY <1>0, <1>r, <2>1 DEF LogoutEndsLineage, Active
<1> QED
  BY <1>3, <1>4, <1>5, <1>6, <1>7, <1>8 DEF IInv

\* Steps that leave the table alone.
LEMMA TableUnchanged ==
    ASSUME IInv, UNCHANGED <<session, next>>
    PROVE  /\ SessionsWellFormed'
           /\ ExchangedOnce'
           /\ OneValidToken'
           /\ LogoutEndsLineage'
BY DEF IInv, SessionsWellFormed, ExchangedOnce, OneValidToken,
   LogoutEndsLineage, Active

\* Every operation preserves the invariant.
LEMMA Step == IInv /\ [Next]_vars => IInv'
<1> SUFFICES ASSUME IInv, [Next]_vars PROVE IInv'
  OBVIOUS
<1>0. TypeOK /\ LocksExclusive
  BY DEF IInv
<1>f. /\ next \in Nat /\ Tokens = 1..MaxSessions
      /\ \A r \in Requests : request[r].token \in 0..MaxSessions
  BY <1>0, Fields DEF Tokens
<1>1. ASSUME NEW r \in Requests, NEW op \in {"refresh", "logout"},
             NEW t \in Tokens, Present(r, op, t)
      PROVE  IInv'
  <2> DEFINE q0 == [op |-> op, token |-> t, fresh |-> t \notin expired,
                    pc |-> "selecting"]
  <2>1. q0 \in Request
    BY <1>f DEF Request
  <2>2. request' = [request EXCEPT ![r] = q0] /\ UNCHANGED <<session, next>>
    BY <1>1 DEF Present
  <2>3. q0.pc = "selecting" /\ q0.token = t
    OBVIOUS
  <2>4. t \in 1..(next - 1)
    BY <1>1, <1>f DEF Present
  <2> HIDE DEF q0
  <2>5. request' \in [Requests -> Request]
    BY <1>0, <2>1, <2>2 DEF TypeOK
  <2>6. TypeOK'
    BY <1>0, <1>1, <2>5 DEF Present, TypeOK
  <2>7. /\ request'[r] = q0
        /\ \A q \in Requests : q # r => request'[q] = request[q]
    BY <1>0, <2>2 DEF TypeOK
  <2>8. LocksExclusive'
    BY <1>0, <2>2, <2>3, <2>4, <2>7 DEF LocksExclusive, Active
  <2> QED
    BY <2>2, <2>6, <2>8, TableUnchanged DEF IInv
<1>2. ASSUME NEW r \in Requests, SelectForUpdate(r) PROVE IInv'
  <2>1. /\ request' = [request EXCEPT ![r].pc = "locked"]
        /\ UNCHANGED <<session, next>>
        /\ Active(request[r].token)
        /\ ~Held(request[r].token)
        /\ request[r].pc = "selecting"
    BY <1>2 DEF SelectForUpdate, RowFree
  <2>2. /\ request' \in [Requests -> Request]
        /\ request'[r].pc = "locked"
        /\ request'[r].token = request[r].token
        /\ \A q \in Requests : q # r => request'[q] = request[q]
    BY <1>0, <2>1 DEF TypeOK, Request
  <2>3. TypeOK'
    BY <1>0, <1>2, <2>2 DEF SelectForUpdate, TypeOK
  <2>4. LocksExclusive'
    BY <1>0, <2>1, <2>2 DEF LocksExclusive, Held, Active
  <2> QED
    BY <2>1, <2>3, <2>4, TableUnchanged DEF IInv
<1>3. ASSUME NEW r \in Requests, Finish(r), UNCHANGED <<session, next, expired>>,
             errors' \in 0..MaxErrors
      PROVE  IInv'
  <2>1. TypeOK'
    BY <1>0, <1>3, FinishStep DEF TypeOK
  <2>2. next' \in Nat /\ next <= next'
    BY <1>3, <1>f
  <2>3. LocksExclusive'
    BY <1>0, <1>3, <2>2, LocksKept
  <2> QED
    BY <1>3, <2>1, <2>3, TableUnchanged DEF IInv
<1>4. ASSUME NEW r \in Requests, SelectNothing(r) \/ RollBack(r) PROVE IInv'
  BY <1>0, <1>3, <1>4 DEF SelectNothing, RollBack, TypeOK
<1>5. ASSUME NEW t \in Tokens, Expire(t) PROVE IInv'
  BY <1>0, <1>5, TableUnchanged
     DEF Expire, IInv, TypeOK, LocksExclusive, Active
<1>6. CASE UNCHANGED vars
  BY <1>0, <1>6, TableUnchanged
     DEF vars, IInv, TypeOK, LocksExclusive, Active
<1> QED
  BY <1>1, <1>2, <1>4, <1>5, <1>6, LoginStep, RefreshStep, LogoutStep
     DEF Next, Handle

--------------------------------------------------------------------------------
\* The invariant holds of every behaviour of the table and its requests.
THEOREM Invariance == Spec => []IInv
<1>1. Init => IInv
  BY InitIInv
<1>2. IInv /\ [Next]_vars => IInv'
  BY Step
<1> QED
  BY <1>1, <1>2, PTL DEF Spec

\* The columns and the requests' progress keep their types.
THEOREM TypeCorrect == Spec => []TypeOK
<1>1. IInv => TypeOK
  BY DEF IInv
<1> QED
  BY <1>1, Invariance, PTL

\* refresh_access_token exchanges a token once, whatever requests present it
\* together, and never revokes it without a successor.
THEOREM SingleExchange == Spec => []ExchangedOnce
<1>1. IInv => ExchangedOnce
  BY DEF IInv
<1> QED
  BY <1>1, Invariance, PTL

\* A login never has two tokens that refresh.
THEOREM SingleToken == Spec => []OneValidToken
<1>1. IInv => OneValidToken
  BY DEF IInv
<1> QED
  BY <1>1, Invariance, PTL

\* A logout that found its token leaves no token of its login alive.
THEOREM LogoutFinal == Spec => []LogoutEndsLineage
<1>1. IInv => LogoutEndsLineage
  BY DEF IInv
<1> QED
  BY <1>1, Invariance, PTL

--------------------------------------------------------------------------------
\* The valid tokens of every login, as LoginLineage sees them.
ValidTokens == [l \in Tokens |->
                  {t \in Tokens : Active(t) /\ session[t].lineage = l}]

\* An insertion that replaces, or joins no, valid token of its lineage.
LEMMA LineageInsert ==
    ASSUME IInv, next \in Tokens, next' = next + 1, NEW l \in Tokens,
           session'[next].status = "active", session'[next].lineage = l,
           \A u \in Tokens : u # next =>
              /\ session'[u].lineage = session[u].lineage
              /\ session'[u].status = "active" <=>
                    session[u].status = "active" /\ session[u].lineage # l
    PROVE  /\ ValidTokens' = [ValidTokens EXCEPT ![l] = {next}]
           /\ 1..(next' - 1) = (1..(next - 1)) \cup {next}
           /\ next \notin 1..(next - 1)
<1>1. session[next].status # "active"
  BY DEF IInv, SessionsWellFormed, NoSession, TypeOK
<1>2. ASSUME NEW k \in Tokens
      PROVE  {t \in Tokens : Active(t) /\ session[t].lineage = k}'
               = IF k = l THEN {next}
                 ELSE {t \in Tokens : Active(t) /\ session[t].lineage = k}
  BY <1>1, <1>2 DEF Active
<1>3. ValidTokens' = [ValidTokens EXCEPT ![l] = {next}]
  BY <1>2 DEF ValidTokens
<1>4. next \in Nat /\ next # 0
  BY DEF Tokens, IInv, TypeOK
<1> QED
  BY <1>3, <1>4

\* Steps that change no row's status or lineage.
LEMMA LineageStutter ==
    ASSUME UNCHANGED <<session, next>>
    PROVE  UNCHANGED Lineage!vars
BY DEF Lineage!vars, Active

\* A step of the table is a step of LoginLineage or changes no token.
LEMMA LineageStep == IInv /\ [Next]_vars => [Lineage!Next]_(Lineage!vars)
<1> SUFFICES ASSUME IInv, [Next]_vars PROVE [Lineage!Next]_(Lineage!vars)
  OBVIOUS
<1> USE DEF ValidTokens
<1>0. /\ TypeOK /\ SessionsWellFormed /\ LocksExclusive /\ OneValidToken
      /\ next \in Nat /\ Tokens = 1..MaxSessions
  BY Fields DEF IInv, Tokens
<1>1. CASE Login
  <2>1. /\ next \in Tokens /\ next \in 0..MaxSessions
        /\ next' = next + 1
        /\ session' = Insert(next, 0)
    BY <1>0, <1>1 DEF Login, TypeOK
  <2>2. /\ session'[next].status = "active"
        /\ session'[next].lineage = next
        /\ \A u \in Tokens : u # next => session'[u] = session[u]
    BY <1>0, <2>1, InsertRow
  <2>3. \A u \in Tokens : session[u].status = "active" =>
           session[u].lineage # next
    BY <1>0, <2>1 DEF SessionsWellFormed, NoSession
  <2>4. /\ ValidTokens' = [ValidTokens EXCEPT ![next] = {next}]
        /\ 1..(next' - 1) = (1..(next - 1)) \cup {next}
        /\ next \notin 1..(next - 1)
    BY <2>1, <2>2, <2>3, LineageInsert
  <2>5. PICK n \in Tokens : n = next
    BY <2>1
  <2>6. Lineage!Login(n)
    BY <2>4, <2>5 DEF Lineage!Login, ValidTokens, Active
  <2> QED
    BY <2>6 DEF Lineage!Next
<1>2. ASSUME NEW r \in Requests, Refresh(r) PROVE Lineage!Next
  <2> DEFINE t == request[r].token
             l == session[t].lineage
  <2>1. /\ t \in Tokens /\ session[t].status = "active"
        /\ l \in 1..t
        /\ next \in Tokens
        /\ session'[next].status = "active"
        /\ session'[next].lineage = l
        /\ session'[t].status = "rotated"
        /\ session'[t].lineage = l
        /\ \A u \in Tokens : u # next /\ u # t => session'[u] = session[u]
    BY <1>2, RefreshRows
  <2>2. next' = next + 1
    BY <1>2 DEF Refresh
  <2>3. \A u \in Tokens : session[u].status = "active" /\ u # t =>
           session[u].lineage # l
    BY <1>0, <2>1 DEF OneValidToken, Active
  <2>4. l \in Tokens
    BY <1>0, <2>1
  <2> HIDE DEF t, l
  <2>5. \A u \in Tokens : u # next =>
           /\ session'[u].lineage = session[u].lineage
           /\ session'[u].status = "active" <=>
                 session[u].status = "active" /\ session[u].lineage # l
    BY <2>1, <2>3 DEF l
  <2>6. /\ ValidTokens' = [ValidTokens EXCEPT ![l] = {next}]
        /\ 1..(next' - 1) = (1..(next - 1)) \cup {next}
        /\ next \notin 1..(next - 1)
    BY <2>1, <2>2, <2>4, <2>5, LineageInsert
  <2>7. t \in ValidTokens[l]
    BY <2>1, <2>4 DEF Active, ValidTokens, l
  <2>8. PICK k \in Tokens, n \in Tokens : k = l /\ n = next
    BY <2>1, <2>4
  <2>9. Lineage!Rotate(k, n)
    BY <2>6, <2>7, <2>8 DEF Lineage!Rotate, ValidTokens, Active
  <2> QED
    BY <2>9 DEF Lineage!Next
<1>3. ASSUME NEW r \in Requests, Logout(r) PROVE Lineage!Next
  <2> DEFINE t == request[r].token
             l == session[t].lineage
  <2>1. /\ t \in Tokens /\ t < next /\ session[t].status = "active"
        /\ session'[t].status = "loggedOut"
        /\ \A u \in Tokens : /\ session'[u].lineage = session[u].lineage
                             /\ u # t => session'[u] = session[u]
    BY <1>3, LogoutRows
  <2>2. next' = next
    BY <1>3 DEF Logout
  <2>3. l \in Tokens
    BY <1>0, <2>1 DEF SessionsWellFormed
  <2>4. \A u \in Tokens : session[u].status = "active" /\ u # t =>
           session[u].lineage # l
    BY <1>0, <2>1 DEF OneValidToken, Active
  <2> HIDE DEF t, l
  <2>5. ASSUME NEW k \in Tokens
        PROVE  {u \in Tokens : Active(u) /\ session[u].lineage = k}'
                 = IF k = l THEN {}
                   ELSE {u \in Tokens : Active(u) /\ session[u].lineage = k}
    BY <2>1, <2>4 DEF Active, l
  <2>6. ValidTokens' = [ValidTokens EXCEPT ![l] = {}]
    BY <2>5 DEF ValidTokens
  <2>7. t \in ValidTokens[l]
    BY <2>1, <2>3 DEF Active, ValidTokens, l
  <2>8. PICK k \in Tokens : k = l
    BY <2>3
  <2>9. Lineage!End(k)
    BY <2>2, <2>6, <2>7, <2>8 DEF Lineage!End, ValidTokens, Active
  <2> QED
    BY <2>9 DEF Lineage!Next
<1>4. ASSUME UNCHANGED <<session, next>> PROVE UNCHANGED Lineage!vars
  BY <1>4, LineageStutter
<1> QED
  BY <1>1, <1>2, <1>3, <1>4
     DEF Next, Handle, Present, SelectForUpdate, SelectNothing, RollBack,
         Expire, vars

\* The sessions of a login, for every interleaving of its requests, do what
\* LoginLineage says: one valid token, replaced when exchanged, ended by logout.
THEOREM Refinement == Spec => ImplementsLineage
<1>1. Init => Lineage!Init
  BY DEF Init, Lineage!Init, Active, NoSession
<1>2. IInv /\ [Next]_vars => [Lineage!Next]_(Lineage!vars)
  BY LineageStep
<1> QED
  BY <1>1, <1>2, Invariance, PTL DEF Spec, ImplementsLineage, Lineage!Spec
================================================================================
