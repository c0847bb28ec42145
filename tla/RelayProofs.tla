------------------------------ MODULE RelayProofs ------------------------------
(***************************************************************************)
(* The relay's tables.  IInv is an invariant of MessageRelay for any       *)
(* users, requests and messages; what it says of the hiding columns makes  *)
(* every message visible exactly as its users asked and every revocation   *)
(* final.  KeyInv is an invariant of PreKeyRelay for any clients, requests *)
(* and batches: every one-time prekey is handed out once, every bundle can *)
(* be used to send, and uploads are stored as a whole.                     *)
(***************************************************************************)
EXTENDS MessageRelay, PreKeyRelay, TLAPS

USE MessageBoundAssumption
USE ClientsAssumption, PreKeyBoundsAssumption, BatchesAssumption

--------------------------------------------------------------------------------
(* Messages *)

\* The empty table satisfies the invariant.
LEMMA InitIInv == Init => IInv
<1> SUFFICES ASSUME Init PROVE IInv
  OBVIOUS
<1> USE DEF Init, Messages, NoMessage, NoRequest
<1>1. TypeOK
  BY DEF TypeOK, Message, Request
<1>2. MessagesNumbered /\ RequestsJustified
  BY DEF MessagesNumbered, RequestsJustified
<1>3. ColumnsExplained /\ LineageTrue
  BY DEF ColumnsExplained, LineageTrue
<1> QED
  BY <1>1, <1>2, <1>3 DEF IInv

\* The fields of a well-typed table and its requests.
LEMMA Fields ==
    ASSUME TypeOK
    PROVE  /\ next \in Nat
           /\ Messages = 1..MaxMessages
           /\ \A m \in Messages : /\ message[m] \in Message
                                  /\ m \in Nat /\ m # 0
                                  /\ message[m].original \in 0..MaxMessages
                                  /\ message[m].hidden \subseteq Columns
           /\ \A r \in Requests : /\ request[r] \in Request
                                  /\ request[r].message \in 0..MaxMessages
                                  /\ request[r].column \in Columns \cup {"none"}
BY DEF TypeOK, Message, Request, Messages

\* A request that ends leaves the others.
LEMMA FinishStep ==
    ASSUME TypeOK, NEW r \in Requests, Finish(r)
    PROVE  /\ request' \in [Requests -> Request]
           /\ request'[r].pc = "idle"
           /\ request'[r].op = "none"
           /\ \A q \in Requests : q # r => request'[q] = request[q]
<1>1. NoRequest \in Request
  BY DEF NoRequest, Request
<1> QED
  BY <1>1 DEF Finish, TypeOK, NoRequest

\* Requests stay justified when they go on, and when senders and recipients of
\* stored messages stay as they are.
LEMMA RequestsKept ==
    ASSUME TypeOK, RequestsJustified, next' \in Nat, next <= next',
           \A m \in Messages : m < next =>
              /\ message'[m].sender = message[m].sender
              /\ message'[m].recipient = message[m].recipient,
           \A r \in Requests : request'[r].pc # "idle" =>
              /\ request[r].pc # "idle"
              /\ request'[r].op = request[r].op
              /\ request'[r].user = request[r].user
              /\ request'[r].message = request[r].message
              /\ request'[r].column = request[r].column
              /\ request[r].op = "forward" => request'[r].pc = request[r].pc
    PROVE  RequestsJustified'
<1>1. /\ next \in Nat /\ Messages = 1..MaxMessages
      /\ \A r \in Requests : request[r].message \in 0..MaxMessages
  BY Fields
<1>2. ASSUME NEW r \in Requests, request'[r].pc # "idle"
      PROVE  LET m == request'[r].message
                 u == request'[r].user
             IN  /\ m \in 1..(next' - 1)
                 /\ u \in {message'[m].sender, message'[m].recipient}
                 /\ request'[r].op \in {"delete", "revoke", "forward"}
                 /\ request'[r].op = "delete" =>
                       request'[r].column = IF message'[m].sender = u
                                            THEN "senderDeleted"
                                            ELSE "recipientDeleted"
                 /\ request'[r].op = "revoke" =>
                       request'[r].column = "revoked" /\ message'[m].sender = u
                 /\ request'[r].op = "forward" => request'[r].pc = "found"
  <2> DEFINE m == request[r].message
  <2>1. /\ request[r].pc # "idle"
        /\ request'[r].op = request[r].op
        /\ request'[r].user = request[r].user
        /\ request'[r].message = m
        /\ request'[r].column = request[r].column
        /\ request[r].op = "forward" => request'[r].pc = request[r].pc
    BY <1>2
  <2>2. m \in Messages /\ m < next /\ m \in 1..(next - 1)
    BY <1>1, <2>1 DEF RequestsJustified
  <2>3. /\ message'[m].sender = message[m].sender
        /\ message'[m].recipient = message[m].recipient
        /\ m \in 1..(next' - 1)
    BY <1>1, <2>2
  <2> HIDE DEF m
  <2> QED
    BY <2>1, <2>3 DEF RequestsJustified, DeleteColumn, m
<1> QED
  BY <1>2 DEF RequestsJustified, DeleteColumn

--------------------------------------------------------------------------------
\* What storing a message writes.
LEMMA InsertRow ==
    ASSUME TypeOK, MessagesNumbered, next <= MaxMessages, NEW u \in Users,
           NEW v \in Users, NEW o \in 0..MaxMessages, Insert(u, v, o)
    PROVE  /\ next \in Messages
           /\ message[next] = NoMessage
           /\ message' \in [Messages -> Message]
           /\ message'[next].sender = u
           /\ message'[next].recipient = v
           /\ message'[next].original = o
           /\ message'[next].hidden = {}
           /\ \A m \in Messages : m # next => message'[m] = message[m]
<1> DEFINE row == [sender |-> u, recipient |-> v, original |-> o, hidden |-> {}]
<1>1. /\ row \in Message
      /\ row.sender = u /\ row.recipient = v /\ row.original = o
      /\ row.hidden = {}
  BY DEF Message
<1>2. next \in Messages
  BY DEF TypeOK, Messages
<1>3. message[next] = NoMessage
  BY <1>2, Fields DEF MessagesNumbered
<1>4. message' = [message EXCEPT ![next] = row]
  BY DEF Insert
<1> HIDE DEF row
<1> QED
  BY <1>1, <1>2, <1>3, <1>4 DEF TypeOK

\* Storing a message, with no lineage or one that its sender took part in.
LEMMA InsertStep ==
    ASSUME IInv, next <= MaxMessages, NEW u \in Users, NEW v \in Users,
           NEW o \in 0..MaxMessages, Insert(u, v, o), next' = next + 1, done' = done,
           request' \in [Requests -> Request],
           \A r \in Requests : \/ request'[r] = request[r]
                               \/ request'[r].pc = "idle",
           o # 0 => o < next /\ u \in {message[o].sender, message[o].recipient}
    PROVE  IInv'
<1>0. /\ TypeOK /\ MessagesNumbered /\ RequestsJustified /\ ColumnsExplained
      /\ LineageTrue
  BY DEF IInv
<1>f. /\ next \in Nat /\ Messages = 1..MaxMessages
      /\ \A m \in Messages : m \in Nat /\ m # 0
                             /\ message[m].original \in 0..MaxMessages
  BY <1>0, Fields
<1>1. /\ next \in Messages
      /\ message[next] = NoMessage
      /\ message' \in [Messages -> Message]
      /\ message'[next].sender = u
      /\ message'[next].recipient = v
      /\ message'[next].original = o
      /\ message'[next].hidden = {}
      /\ \A m \in Messages : m # next => message'[m] = message[m]
  BY <1>0, InsertRow
<1>2. TypeOK'
  BY <1>0, <1>1, <1>f DEF TypeOK, Operations
<1>3. MessagesNumbered'
  BY <1>0, <1>1, <1>f DEF MessagesNumbered
<1>4. RequestsJustified'
  <2>1. \A m \in Messages : m < next => message'[m] = message[m]
    BY <1>1, <1>f
  <2>2. next' \in Nat /\ next <= next'
    BY <1>f
  <2> QED
    BY <1>0, <2>1, <2>2, RequestsKept
<1>5. ColumnsExplained'
  <2>1. \A op \in {"delete", "revoke"}, w \in Users : <<op, w, next>> \notin done
    BY <1>0, <1>f DEF ColumnsExplained
  <2>2. \A x \in done : x[3] < next'
    <3>1. \A x \in done : x[3] \in Nat
      BY <1>0, <1>f DEF TypeOK, Operations
    <3> QED
      BY <1>0, <1>f, <3>1 DEF ColumnsExplained
  <2>3. ASSUME NEW m \in Messages, m < next'
        PROVE  LET s == message'[m].sender
                   t == message'[m].recipient
               IN  /\ "senderDeleted" \in message'[m].hidden <=>
                         <<"delete", s, m>> \in done
                   /\ "recipientDeleted" \in message'[m].hidden <=>
                         s # t /\ <<"delete", t, m>> \in done
                   /\ "revoked" \in message'[m].hidden <=> <<"revoke", s, m>> \in done
    <3>1. CASE m = next
      BY <1>1, <2>1, <3>1
    <3>2. CASE m # next
      <4>1. message'[m] = message[m] /\ m < next
        BY <1>1, <1>f, <2>3, <3>2
      <4> QED
        BY <1>0, <4>1 DEF ColumnsExplained
    <3> QED
      BY <3>1, <3>2
  <2> QED
    BY <2>2, <2>3 DEF ColumnsExplained
<1>6. LineageTrue'
  <2>1. ASSUME NEW f \in Messages, message'[f].original # 0
        PROVE  LET k == message'[f].original
               IN  /\ k < f
                   /\ message'[f].sender \in
                         {message'[k].sender, message'[k].recipient}
    <3>1. CASE f = next
      <4>1. o \in Messages /\ o # next
        BY <1>1, <1>f, <2>1, <3>1
      <4> QED
        BY <1>1, <1>f, <2>1, <3>1, <4>1
    <3>2. CASE f # next
      <4> DEFINE k == message[f].original
      <4>1. message'[f] = message[f] /\ k # 0
        BY <1>1, <2>1, <3>2
      <4>2. k < f /\ message[f].sender \in {message[k].sender, message[k].recipient}
        BY <1>0, <4>1 DEF LineageTrue
      <4>3. f < next
        BY <1>0, <1>f, <4>1 DEF MessagesNumbered, NoMessage
      <4>4. k \in Messages /\ k # next
        BY <1>f, <4>1, <4>2, <4>3
      <4> QED
        BY <1>1, <4>1, <4>2, <4>4
    <3> QED
      BY <3>1, <3>2
  <2> QED
    BY <2>1 DEF LineageTrue
<1> QED
  BY <1>2, <1>3, <1>4, <1>5, <1>6 DEF IInv

\* A delete or revoke commits: the column it writes is the one that its
\* operation explains.
LEMMA CommitStep ==
    ASSUME IInv, NEW r \in Requests, Commit(r)
    PROVE  IInv'
<1> DEFINE m == request[r].message
           u == request[r].user
           c == request[r].column
           d == <<request[r].op, u, m>>
<1>0. /\ TypeOK /\ MessagesNumbered /\ RequestsJustified /\ ColumnsExplained
      /\ LineageTrue
  BY DEF IInv
<1>f. /\ next \in Nat /\ Messages = 1..MaxMessages
      /\ \A k \in Messages : k \in Nat /\ message[k] \in Message
      /\ m \in 0..MaxMessages
  BY <1>0, Fields
<1>1. /\ m \in Messages /\ m < next
      /\ u \in {message[m].sender, message[m].recipient}
      /\ \/ /\ request[r].op = "delete"
            /\ c = IF message[m].sender = u THEN "senderDeleted"
                                            ELSE "recipientDeleted"
         \/ /\ request[r].op = "revoke"
            /\ c = "revoked"
            /\ message[m].sender = u
  BY <1>0, <1>f DEF Commit, RequestsJustified, DeleteColumn
<1>2. /\ message' = [message EXCEPT ![m].hidden = @ \cup {c}]
      /\ done' = done \cup {d}
      /\ Finish(r)
      /\ next' = next
  BY DEF Commit
<1>3. c \in Columns /\ u \in Users
  BY <1>0, <1>1 DEF Columns, MessagesNumbered
<1>4. d[3] = m /\ d \in Operations
  BY <1>1, <1>3 DEF Operations
<1> HIDE DEF m, u, c
<1>5. /\ message' \in [Messages -> Message]
      /\ message'[m].hidden = message[m].hidden \cup {c}
      /\ \A k \in Messages : /\ message'[k].sender = message[k].sender
                             /\ message'[k].recipient = message[k].recipient
                             /\ message'[k].original = message[k].original
                             /\ k # m => message'[k] = message[k]
  <2>1. [message[m] EXCEPT !.hidden = @ \cup {c}] \in Message
    BY <1>1, <1>3, <1>f DEF Message
  <2>2. /\ [message[m] EXCEPT !.hidden = @ \cup {c}].hidden
             = message[m].hidden \cup {c}
        /\ [message[m] EXCEPT !.hidden = @ \cup {c}].sender = message[m].sender
        /\ [message[m] EXCEPT !.hidden = @ \cup {c}].recipient
             = message[m].recipient
        /\ [message[m] EXCEPT !.hidden = @ \cup {c}].original
             = message[m].original
    BY <1>1, <1>f DEF Message
  <2>3. message' = [message EXCEPT ![m] = [message[m] EXCEPT !.hidden = @ \cup {c}]]
    BY <1>2
  <2> QED
    BY <1>0, <1>1, <2>1, <2>2, <2>3 DEF TypeOK
<1>6. TypeOK'
  BY <1>0, <1>2, <1>4, <1>5, FinishStep DEF TypeOK, Operations
<1>7. MessagesNumbered'
  BY <1>0, <1>1, <1>2, <1>5, <1>f DEF MessagesNumbered
<1>8. RequestsJustified'
  <2>1. \A q \in Requests : request'[q].pc # "idle" => request'[q] = request[q]
    BY <1>0, <1>2, FinishStep
  <2>2. next' \in Nat /\ next <= next'
    BY <1>2, <1>f
  <2> QED
    BY <1>0, <1>5, <2>1, <2>2, RequestsKept
<1>9. ColumnsExplained'
  <2>1. \A x \in done' : x[3] < next'
    BY <1>0, <1>1, <1>2, <1>4 DEF ColumnsExplained
  <2>2. ASSUME NEW k \in Messages, k < next'
        PROVE  LET s == message'[k].sender
                   t == message'[k].recipient
               IN  /\ "senderDeleted" \in message'[k].hidden <=>
                         <<"delete", s, k>> \in done'
                   /\ "recipientDeleted" \in message'[k].hidden <=>
                         s # t /\ <<"delete", t, k>> \in done'
                   /\ "revoked" \in message'[k].hidden <=>
                         <<"revoke", s, k>> \in done'
    <3> DEFINE s == message[k].sender
               t == message[k].recipient
    <3>1. /\ "senderDeleted" \in message[k].hidden <=> <<"delete", s, k>> \in done
          /\ "recipientDeleted" \in message[k].hidden <=>
                s # t /\ <<"delete", t, k>> \in done
          /\ "revoked" \in message[k].hidden <=> <<"revoke", s, k>> \in done
      BY <1>0, <1>2, <2>2 DEF ColumnsExplained
    <3>2. CASE k # m
      BY <1>2, <1>5, <3>1, <3>2
    <3>3. CASE k = m
      BY <1>1, <1>2, <1>5, <3>1, <3>3
    <3> QED
      BY <3>2, <3>3
  <2> QED
    BY <2>1, <2>2 DEF ColumnsExplained
<1>10. LineageTrue'
  <2>1. \A f \in Messages : message[f].original # 0 =>
           message[f].original \in Messages
    BY <1>0, Fields
  <2> QED
    BY <1>0, <1>5, <2>1 DEF LineageTrue
<1> QED
  BY <1>6, <1>7, <1>8, <1>9, <1>10 DEF IInv

\* Steps of a request that change nothing but its progress.
LEMMA TableUnchanged ==
    ASSUME IInv, UNCHANGED <<message, next, done>>
    PROVE  MessagesNumbered' /\ ColumnsExplained' /\ LineageTrue'
BY DEF IInv, MessagesNumbered, ColumnsExplained, LineageTrue

\* A request that goes on, ends or is left alone.
LEMMA ProgressStep ==
    ASSUME IInv, UNCHANGED <<message, next, done>>,
           request' \in [Requests -> Request],
           \A r \in Requests : request'[r].pc # "idle" =>
              /\ request[r].pc # "idle"
              /\ request'[r].op = request[r].op
              /\ request'[r].user = request[r].user
              /\ request'[r].message = request[r].message
              /\ request'[r].column = request[r].column
              /\ request[r].op = "forward" => request'[r].pc = request[r].pc
    PROVE  IInv'
<1>1. TypeOK'
  BY DEF IInv, TypeOK
<1>2. next' \in Nat /\ next <= next'
  BY DEF IInv, TypeOK
<1>3. RequestsJustified'
  BY <1>2, RequestsKept DEF IInv
<1> QED
  BY <1>1, <1>3, TableUnchanged DEF IInv

\* A request that begins is justified by what it read.
LEMMA BeginStep ==
    ASSUME IInv, NEW r \in Requests, NEW u \in Users, NEW m \in Messages,
           Begin(r, u, m)
    PROVE  IInv'
<1>0. TypeOK /\ RequestsJustified
  BY DEF IInv
<1>f. next \in Nat /\ m \in Nat /\ m # 0 /\ Messages = 1..MaxMessages
  BY <1>0, Fields
<1>1. PICK op \in {"delete", "revoke", "forward"}, c \in Columns \cup {"none"} :
         /\ Found(r, op, u, m, c)
         /\ m < next
         /\ u \in {message[m].sender, message[m].recipient}
         /\ op = "delete" => c = DeleteColumn(u, m)
         /\ op = "revoke" => c = "revoked" /\ message[m].sender = u
         /\ UNCHANGED <<message, next, done>>
  BY DEF Begin, BeginDelete, BeginRevoke, BeginForward, DeleteColumn, Columns,
         Accessible, SenderVisible, RecipientVisible
<1> DEFINE q0 == [op |-> op, user |-> u, message |-> m, column |-> c,
                  seen |-> message[m].hidden, pc |-> "found"]
<1>2. q0 \in Request
  BY <1>0, <1>f, Fields DEF Request
<1>3. /\ q0.op = op /\ q0.user = u /\ q0.message = m /\ q0.column = c
      /\ q0.pc = "found"
  OBVIOUS
<1>4. request' = [request EXCEPT ![r] = q0]
  BY <1>1 DEF Found
<1> HIDE DEF q0
<1>5. /\ request' \in [Requests -> Request]
      /\ request'[r] = q0
      /\ \A q \in Requests : q # r => request'[q] = request[q]
  BY <1>0, <1>2, <1>4 DEF TypeOK
<1>6. TypeOK'
  BY <1>0, <1>1, <1>5 DEF TypeOK
<1>7. m \in 1..(next - 1)
  BY <1>1, <1>f
<1>8. RequestsJustified'
  BY <1>0, <1>1, <1>3, <1>5, <1>7 DEF RequestsJustified, DeleteColumn
<1> QED
  BY <1>1, <1>6, <1>8, TableUnchanged DEF IInv

\* Every operation preserves the invariant.
LEMMA Step == IInv /\ [Next]_vars => IInv'
<1> SUFFICES ASSUME IInv, [Next]_vars PROVE IInv'
  OBVIOUS
<1>0. TypeOK /\ RequestsJustified
  BY DEF IInv
<1>1. ASSUME NEW u \in Users, NEW v \in Users, Send(u, v) PROVE IInv'
  BY <1>0, <1>1, InsertStep DEF Send, TypeOK
<1>2. ASSUME NEW r \in Requests, NEW v \in Users, Forward(r, v) PROVE IInv'
  <2> DEFINE u == request[r].user
             o == request[r].message
  <2>1. /\ next <= MaxMessages /\ next' = next + 1 /\ done' = done
        /\ Insert(u, v, o) /\ Finish(r) /\ request[r].pc # "idle"
    BY <1>2 DEF Forward
  <2>2. /\ o \in 1..(next - 1) /\ next \in Nat /\ o \in 0..MaxMessages
        /\ u \in {message[o].sender, message[o].recipient}
    BY <1>0, <2>1, Fields DEF RequestsJustified
  <2>3. o \in Messages /\ o < next
    BY <2>2 DEF Messages, TypeOK, IInv
  <2>4. u \in Users
    BY <2>2, <2>3 DEF IInv, MessagesNumbered
  <2> HIDE DEF u, o
  <2>5. /\ request' \in [Requests -> Request]
        /\ \A q \in Requests : request'[q] = request[q] \/ request'[q].pc = "idle"
    BY <1>0, <2>1, FinishStep
  <2> QED
    BY <2>1, <2>2, <2>3, <2>4, <2>5, InsertStep
<1>3. ASSUME NEW r \in Requests, Finish(r), UNCHANGED <<message, next, done>>
      PROVE  IInv'
  BY <1>0, <1>3, FinishStep, ProgressStep
<1>4. ASSUME NEW r \in Requests, NEW pc \in {"matched", "written"},
             request[r].pc # "idle", request[r].op # "forward",
             request' = [request EXCEPT ![r].pc = pc],
             UNCHANGED <<message, next, done>>
      PROVE  IInv'
  <2>1. /\ request' \in [Requests -> Request]
        /\ request'[r].op = request[r].op
        /\ request'[r].user = request[r].user
        /\ request'[r].message = request[r].message
        /\ request'[r].column = request[r].column
        /\ \A q \in Requests : q # r => request'[q] = request[q]
    BY <1>0, <1>4 DEF TypeOK, Request
  <2> QED
    BY <1>4, <2>1, ProgressStep
<1>5. ASSUME NEW r \in Requests, SelectAgain(r) PROVE IInv'
  BY <1>4, <1>5 DEF SelectAgain
<1>6. ASSUME NEW r \in Requests, Write(r) PROVE IInv'
  <2>1. request[r].op # "forward"
    BY <1>0, <1>6 DEF Write, RequestsJustified
  <2> QED
    BY <1>4, <1>6, <2>1 DEF Write
<1>7. ASSUME NEW r \in Requests, Denied(r) \/ RollBack(r) PROVE IInv'
  BY <1>3, <1>7 DEF Denied, RollBack
<1>8. CASE UNCHANGED vars
  BY <1>0, <1>8, ProgressStep DEF vars, TypeOK
<1> QED
  BY <1>1, <1>2, <1>5, <1>6, <1>7, <1>8, BeginStep, CommitStep
     DEF Next, Continue

--------------------------------------------------------------------------------
\* The invariant holds of every behaviour of the table and its requests.
THEOREM Invariance == Spec => []IInv
<1>1. Init => IInv
  BY InitIInv
<1>2. IInv /\ [Next]_vars => IInv'
  BY Step
<1> QED
  BY <1>1, <1>2, PTL DEF Spec

\* The columns and the requests' progress keep their types.
THEOREM TypeCorrect == Spec => []TypeOK
<1>1. IInv => TypeOK
  BY DEF IInv
<1> QED
  BY <1>1, Invariance, PTL

\* Forwarded messages name earlier messages that their senders took part in.
THEOREM Lineage == Spec => []LineageTrue
<1>1. IInv => LineageTrue
  BY DEF IInv
<1> QED
  BY <1>1, Invariance, PTL

\* Concurrent deletes and revocations neither undo each other nor reach into
\* the other user's list.
THEOREM Visibility == Spec => []VisibilityExplained
<1>1. IInv => VisibilityExplained
  <2> SUFFICES ASSUME IInv, NEW m \in Messages, m < next
               PROVE  LET s == message[m].sender
                          t == message[m].recipient
                      IN  /\ SenderVisible(s, m) <=> <<"delete", s, m>> \notin done
                          /\ s # t => (RecipientVisible(t, m) <=>
                                         /\ <<"delete", t, m>> \notin done
                                         /\ <<"revoke", s, m>> \notin done)
    BY DEF VisibilityExplained
  <2> QED
    BY DEF IInv, ColumnsExplained, SenderVisible, RecipientVisible
<1> QED
  BY <1>1, Invariance, PTL

\* A revoked message whose forwards in progress are over is forwarded by its
\* recipient no more.
THEOREM RevocationFinal == Spec => RevocationStopsForwards
<1>1. ASSUME IInv, [Next]_vars, NEW u \in Users, NEW m \in Messages,
             TakenBack(u, m)
      PROVE  TakenBack(u, m)' /\ ForwardsBy(u, m)' = ForwardsBy(u, m)
  <2>0. TypeOK /\ MessagesNumbered /\ RequestsJustified
    BY <1>1 DEF IInv
  <2>f. next \in Nat /\ m \in Nat /\ m # 0 /\ Messages = 1..MaxMessages
    BY <2>0, Fields
  <2>1. /\ "revoked" \in message[m].hidden
        /\ message[m].sender # u
        /\ m < next
        /\ ~Accessible(u, m)
    BY <1>1, <2>0, <2>f DEF TakenBack, MessagesNumbered, NoMessage,
       Accessible, SenderVisible, RecipientVisible
  <2>2. ASSUME NEW a \in Users, NEW b \in Users, NEW o \in 0..MaxMessages,
               next <= MaxMessages, Insert(a, b, o), o = m => a # u
        PROVE  /\ "revoked" \in message'[m].hidden
               /\ message'[m].sender # u
               /\ ForwardsBy(u, m)' = ForwardsBy(u, m)
    <3>1. /\ next \in Messages
          /\ message[next] = NoMessage
          /\ message'[next].sender = a
          /\ message'[next].original = o
          /\ \A k \in Messages : k # next => message'[k] = message[k]
      BY <2>0, <2>2, InsertRow
    <3>2. message[next].original = 0
      BY <3>1 DEF NoMessage
    <3>3. \A f \in Messages :
             (message'[f].original = m /\ message'[f].sender = u) <=>
                (message[f].original = m /\ message[f].sender = u)
      BY <2>2, <2>f, <3>1, <3>2
    <3> QED
      BY <2>1, <2>f, <3>1, <3>3 DEF ForwardsBy
  <2> DEFINE ForwardsChecked ==
               \A r \in Requests : request'[r].op = "forward" =>
                  \/ /\ request'[r].user = request[r].user
                     /\ request'[r].message = request[r].message
                     /\ request[r].op = "forward"
                  \/ Accessible(request'[r].user, request'[r].message)
  <2>3. ForwardsChecked
    <3>1. ASSUME NEW r \in Requests, NEW op, NEW c, NEW k \in Messages,
                 NEW w \in Users, Found(r, op, w, k, c),
                 op = "forward" => Accessible(w, k)
          PROVE  ForwardsChecked
      <4>1. /\ request'[r].op = op
            /\ request'[r].user = w
            /\ request'[r].message = k
            /\ \A q \in Requests : q # r => request'[q] = request[q]
        BY <2>0, <3>1 DEF Found, TypeOK
      <4> QED
        BY <3>1, <4>1
    <3>2. ASSUME NEW r \in Requests, Finish(r) PROVE ForwardsChecked
      BY <2>0, <3>2, FinishStep
    <3>3. ASSUME NEW r \in Requests, NEW pc,
                 request' = [request EXCEPT ![r].pc = pc]
          PROVE  ForwardsChecked
      BY <2>0, <3>3 DEF TypeOK, Request
    <3>4. CASE UNCHANGED request
      BY <3>4
    <3>5. ASSUME NEW r \in Requests, NEW w \in Users, NEW k \in Messages,
                 Begin(r, w, k)
          PROVE  ForwardsChecked
      BY <3>1, <3>5 DEF Begin, BeginDelete, BeginRevoke, BeginForward
    <3>6. ASSUME NEW r \in Requests, Continue(r) PROVE ForwardsChecked
      BY <3>2, <3>3, <3>6 DEF Continue, SelectAgain, Denied, Write, Commit, RollBack
    <3> QED
      BY <1>1, <3>2, <3>4, <3>5, <3>6 DEF Next, Send, Forward, vars
  <2>4. \A r \in Requests :
           ~(request'[r].op = "forward" /\ request'[r].user = u
               /\ request'[r].message = m)
    BY <1>1, <2>1, <2>3 DEF TakenBack
  <2>5. CASE UNCHANGED message
    BY <1>1, <2>1, <2>4, <2>5 DEF TakenBack, ForwardsBy
  <2>6. ASSUME NEW a \in Users, NEW b \in Users, Send(a, b)
        PROVE  TakenBack(u, m)' /\ ForwardsBy(u, m)' = ForwardsBy(u, m)
    BY <2>2, <2>4, <2>6, <2>f DEF Send, TakenBack
  <2>7. ASSUME NEW r \in Requests, NEW b \in Users, Forward(r, b)
        PROVE  TakenBack(u, m)' /\ ForwardsBy(u, m)' = ForwardsBy(u, m)
    <3>1. request[r].message = m => request[r].user # u
      BY <1>1, <2>7 DEF Forward, TakenBack
    <3>2. request[r].user \in Users /\ request[r].message \in 0..MaxMessages
      <4>1. /\ request[r].message \in 1..(next - 1)
            /\ request[r].message \in 0..MaxMessages
            /\ request[r].user \in {message[request[r].message].sender,
                                    message[request[r].message].recipient}
        BY <2>0, <2>7, Fields DEF Forward, RequestsJustified
      <4>2. request[r].message \in Messages /\ request[r].message < next
        BY <2>f, <4>1
      <4> QED
        BY <2>0, <4>1, <4>2 DEF MessagesNumbered
    <3> QED
      BY <2>2, <2>4, <2>7, <3>1, <3>2 DEF Forward, TakenBack
  <2>8. ASSUME NEW r \in Requests, Commit(r)
        PROVE  TakenBack(u, m)' /\ ForwardsBy(u, m)' = ForwardsBy(u, m)
    <3>1. message' = [message EXCEPT ![request[r].message].hidden =
                        @ \cup {request[r].column}]
      BY <2>8 DEF Commit
    <3>2. \A k \in Messages : /\ message'[k].sender = message[k].sender
                              /\ message'[k].original = message[k].original
                              /\ message[k].hidden \subseteq message'[k].hidden
      BY <2>0, <3>1 DEF TypeOK, Message
    <3> QED
      BY <2>1, <2>4, <3>2 DEF TakenBack, ForwardsBy
  <2> QED
    BY <1>1, <2>5, <2>6, <2>7, <2>8
       DEF Next, Begin, BeginDelete, BeginRevoke, BeginForward, Continue,
           SelectAgain, Denied, Write, RollBack, vars
<1>2. IInv /\ [Next]_vars => \A u \in Users, m \in Messages : TakenBack(u, m) =>
         TakenBack(u, m)' /\ ForwardsBy(u, m)' = ForwardsBy(u, m)
  BY <1>1
<1> QED
  BY <1>2, Invariance, PTL DEF Spec, RevocationStopsForwards

--------------------------------------------------------------------------------
(* Prekeys *)

\* The empty tables satisfy the invariant.
LEMMA KeyInitInv == KeyInit => KeyInv
<1> SUFFICES ASSUME KeyInit PROVE KeyInv
  OBVIOUS
<1> USE DEF KeyInit, NoPreKey, NoFetch, NoUpload
<1>1. KeyTypeOK
  BY DEF KeyTypeOK, PreKey, FetchState, UploadState
<1>2. FetchesWellFormed /\ PreKeysExclusive
  BY DEF FetchesWellFormed, PreKeysExclusive
<1>3. UploadsWellFormed /\ BundlesNumbered
  BY DEF UploadsWellFormed, BundlesNumbered
<1>4. HandedOutOnce /\ BundleSendable /\ UploadsWhole
  BY DEF HandedOutOnce, BundleSendable, UploadsWhole
<1> QED
  BY <1>1, <1>2, <1>3, <1>4 DEF KeyInv

\* The fields of well-typed tables and requests.
LEMMA KeyFields ==
    ASSUME KeyTypeOK
    PROVE  /\ \A i \in Ids : /\ prekey[i] \in PreKey
                             /\ i \in Nat /\ i # 0 /\ i \in 0..MaxPreKeys
           /\ \A f \in Fetches : fetch[f] \in FetchState
           /\ \A u \in Uploads : /\ upload[u] \in UploadState
                                 /\ upload[u].ids \subseteq Ids
           /\ \A b \in bundles : /\ b \in Bundle
                                 /\ b.number \in Nat
                                 /\ b.prekey \in 0..MaxPreKeys
           /\ \A b \in uploaded : b \in Batch /\ b.ids \subseteq Ids
           /\ answered \in Nat
<1>1. Ids \subseteq Nat \ {0} /\ Ids \subseteq 0..MaxPreKeys
  BY DEF Ids
<1> QED
  BY <1>1 DEF KeyTypeOK, PreKey, FetchState, UploadState, Bundle, Batch

\* What SetPreKeys writes.
LEMMA PreKeysSet ==
    ASSUME KeyTypeOK, NEW ids \in SUBSET Ids, NEW p \in PreKey, SetPreKeys(ids, p)
    PROVE  /\ prekey' \in [Ids -> PreKey]
           /\ \A i \in ids : prekey'[i] = p
           /\ \A i \in Ids \ ids : prekey'[i] = prekey[i]
BY DEF SetPreKeys, KeyTypeOK

\* What an upload that has written its batch knows.
LEMMA WrittenRows ==
    ASSUME UploadsWellFormed, NEW u \in Uploads, upload[u].pc = "written"
    PROVE  /\ \A i \in upload[u].ids : prekey[i].status = "inserting"
           /\ \A v \in Uploads : (v # u /\ upload[v].pc = "written") =>
                 upload[u].ids \cap upload[v].ids = {}
<1>1. /\ \A i \in upload[u].ids :
            prekey[i] = [status |-> "inserting", owner |-> upload[u].client]
      /\ \A v \in Uploads \ {u} :
            upload[v].pc = "written" => upload[u].ids \cap upload[v].ids = {}
  BY Zenon DEF UploadsWellFormed
<1>2. ASSUME NEW i \in upload[u].ids PROVE prekey[i].status = "inserting"
  <2>1. prekey[i] = [status |-> "inserting", owner |-> upload[u].client]
    BY <1>1
  <2> QED
    BY <2>1
<1> QED
  BY <1>1, <1>2

--------------------------------------------------------------------------------
\* The requests for bundles do not notice a change of other prekeys than the
\* committed ones.
LEMMA FetchSideKept ==
    ASSUME KeyInv, prekey' \in [Ids -> PreKey],
           \A i \in Ids : prekey[i].status \in {"unused", "used"} =>
                             prekey'[i] = prekey[i],
           UNCHANGED <<fetch, bundles, answered>>
    PROVE  /\ FetchesWellFormed' /\ PreKeysExclusive' /\ BundlesNumbered'
           /\ HandedOutOnce' /\ BundleSendable'
<1>1. FetchesWellFormed'
  BY DEF KeyInv, FetchesWellFormed
<1>2. PreKeysExclusive' /\ BundlesNumbered' /\ HandedOutOnce'
  BY DEF KeyInv, PreKeysExclusive, BundlesNumbered, HandedOutOnce
<1>3. ASSUME NEW b \in bundles, b.prekey # 0 PROVE Consumable(b.prekey)'
  <2>1. KeyTypeOK /\ Consumable(b.prekey)
    BY <1>3 DEF KeyInv, BundleSendable
  <2>2. b.prekey \in Ids
    BY <1>3, <2>1, KeyFields DEF Ids
  <2> QED
    BY <2>1, <2>2 DEF Consumable
<1>4. BundleSendable'
  BY <1>3 DEF BundleSendable
<1> QED
  BY <1>1, <1>2, <1>4

\* Uploads do not notice that prekeys are used.
LEMMA UploadSideKept ==
    ASSUME KeyInv,
           \A i \in Ids : \/ prekey'[i] = prekey[i]
                          \/ /\ prekey[i].status = "unused"
                             /\ prekey'[i].status = "used"
                             /\ prekey'[i].owner = prekey[i].owner,
           UNCHANGED <<upload, uploaded>>
    PROVE  UploadsWellFormed' /\ UploadsWhole'
<1>0. KeyTypeOK /\ UploadsWellFormed /\ UploadsWhole
  BY DEF KeyInv
<1>1. UploadsWellFormed'
  <2>1. ASSUME NEW u \in Uploads, upload[u].pc = "written", NEW i \in upload[u].ids
        PROVE  prekey'[i] = [status |-> "inserting", owner |-> upload[u].client]
    <3>1. /\ i \in Ids
          /\ prekey[i] = [status |-> "inserting", owner |-> upload[u].client]
      BY <1>0, <2>1, KeyFields DEF UploadsWellFormed
    <3> QED
      BY <3>1
  <2> QED
    BY <1>0, <2>1 DEF UploadsWellFormed
<1>2. UploadsWhole'
  <2>1. ASSUME NEW b \in uploaded, NEW i \in b.ids
        PROVE  /\ prekey'[i].owner = b.client
               /\ prekey'[i].status \in {"unused", "used"}
    <3>1. /\ i \in Ids
          /\ prekey[i].owner = b.client
          /\ prekey[i].status \in {"unused", "used"}
      BY <1>0, <2>1, KeyFields DEF UploadsWhole
    <3> QED
      BY <3>1
  <2> QED
    BY <2>1 DEF UploadsWhole
<1> QED
  BY <1>1, <1>2

--------------------------------------------------------------------------------
\* Uploads begin and end, write and commit.
LEMMA UploadStep ==
    ASSUME KeyInv, NEW u \in Uploads, Upload(u)
    PROVE  KeyInv'
<1>0. KeyTypeOK /\ UploadsWellFormed /\ UploadsWhole
  BY DEF KeyInv
<1> DEFINE ids == upload[u].ids
           c == upload[u].client
<1>1. ids \in SUBSET Ids /\ upload[u] \in UploadState
  BY <1>0, KeyFields
<1>2. NoUpload \in UploadState /\ NoPreKey \in PreKey
  BY DEF NoUpload, NoPreKey, UploadState, PreKey
<1>3. upload[u].pc # "idle" => c \in Clients
  BY <1>0 DEF UploadsWellFormed
<1>4. ASSUME upload[u].pc = "checked", NEW s \in {"inserting"},
             \A i \in ids : prekey[i].status = "free",
             SetPreKeys(ids, [status |-> s, owner |-> c]),
             upload' = [upload EXCEPT ![u].pc = "written"],
             UNCHANGED <<device, registered, fetch, bundles, answered, uploaded>>
      PROVE  KeyInv'
  <2>1. [status |-> s, owner |-> c] \in PreKey
    BY <1>3, <1>4 DEF PreKey
  <2>2. /\ prekey' \in [Ids -> PreKey]
        /\ \A i \in ids : prekey'[i] = [status |-> s, owner |-> c]
        /\ \A i \in Ids \ ids : prekey'[i] = prekey[i]
    BY <1>0, <1>1, <1>4, <2>1, PreKeysSet
  <2>3. \A i \in Ids : prekey[i].status \in {"unused", "used"} =>
                          prekey'[i] = prekey[i]
    BY <1>4, <2>2
  <2>4. /\ upload' \in [Uploads -> UploadState]
        /\ upload'[u].pc = "written" /\ upload'[u].ids = ids /\ upload'[u].client = c
        /\ \A v \in Uploads : v # u => upload'[v] = upload[v]
    BY <1>0, <1>1, <1>4 DEF KeyTypeOK, UploadState
  <2>5. ASSUME NEW v \in Uploads, upload[v].pc = "written"
        PROVE  upload[v].ids \cap ids = {} /\ upload[v].ids \subseteq Ids
    <3>1. \A i \in upload[v].ids : prekey[i].status = "inserting"
      BY <1>0, <2>5, WrittenRows
    <3>2. upload[v].ids \subseteq Ids
      BY <1>0, KeyFields
    <3> QED
      BY <1>4, <3>1, <3>2
  <2>6. KeyTypeOK'
    BY <1>0, <1>4, <2>2, <2>4 DEF KeyTypeOK
  <2>7. UploadsWellFormed'
    <3>1. ASSUME NEW v \in Uploads, v # u, upload[v].pc = "written"
          PROVE  /\ \A i \in upload[v].ids : prekey'[i] = prekey[i]
                 /\ upload[v].ids \cap ids = {}
      BY <2>2, <2>5, <3>1
    <3>2. \A v \in Uploads : upload'[v].pc # "idle" => upload'[v].client \in Clients
      BY <1>0, <1>3, <1>4, <2>4 DEF UploadsWellFormed
    <3>3. \A v \in Uploads : upload'[v].pc = "written" =>
             \A i \in upload'[v].ids :
                prekey'[i] = [status |-> "inserting", owner |-> upload'[v].client]
      BY <1>0, <1>4, <2>2, <2>4, <3>1 DEF UploadsWellFormed
    <3>4. ASSUME NEW v \in Uploads, NEW w \in Uploads, v # w,
                 upload'[v].pc = "written", upload'[w].pc = "written"
          PROVE  upload'[v].ids \cap upload'[w].ids = {}
      <4>1. CASE v = u
        BY <2>4, <3>1, <3>4, <4>1
      <4>2. CASE w = u
        BY <2>4, <3>1, <3>4, <4>2
      <4>3. CASE v # u /\ w # u
        BY <1>0, <2>4, <3>4, <4>3, WrittenRows
      <4> QED
        BY <4>1, <4>2, <4>3
    <3> QED
      BY <3>2, <3>3, <3>4 DEF UploadsWellFormed
  <2>8. UploadsWhole'
    <3>1. \A b \in uploaded : b.ids \subseteq Ids
      BY <1>0, KeyFields
    <3> QED
      BY <1>0, <1>4, <2>3, <3>1 DEF UploadsWhole
  <2> QED
    BY <1>4, <2>2, <2>3, <2>6, <2>7, <2>8, FetchSideKept DEF KeyInv
<1>5. CASE WriteBatch(u)
  <2>1. \A i \in ids : prekey[i].status = "free"
    BY <1>0, <1>1, <1>5, KeyFields DEF WriteBatch, Awaited, Conflicting, PreKey
  <2> QED
    BY <1>4, <1>5, <2>1 DEF WriteBatch
<1>6. ASSUME upload' = [upload EXCEPT ![u] = NoUpload],
             \/ UNCHANGED prekey
             \/ /\ upload[u].pc = "written"
                /\ \E p \in PreKey : SetPreKeys(ids, p),
             KeyTypeOK', UploadsWhole', UNCHANGED <<fetch, bundles, answered>>
      PROVE  KeyInv'
  <2>1. /\ prekey' \in [Ids -> PreKey]
        /\ \A i \in Ids : \/ prekey'[i] = prekey[i]
                          \/ upload[u].pc = "written" /\ i \in ids
    BY <1>0, <1>1, <1>6, PreKeysSet DEF KeyTypeOK
  <2>2. \A i \in Ids : prekey[i].status \in {"unused", "used"} =>
                          prekey'[i] = prekey[i]
    <3>1. upload[u].pc = "written" =>
             \A i \in ids : prekey[i].status = "inserting"
      BY <1>0, WrittenRows
    <3> QED
      BY <2>1, <3>1
  <2>3. /\ upload'[u].pc = "idle"
        /\ \A v \in Uploads : v # u => upload'[v] = upload[v]
    BY <1>0, <1>6 DEF KeyTypeOK, NoUpload
  <2>4. ASSUME NEW v \in Uploads, v # u, upload[v].pc = "written"
        PROVE  \A i \in upload[v].ids : prekey'[i] = prekey[i]
    <3>1. upload[v].ids \subseteq Ids
      BY <1>0, KeyFields
    <3>2. upload[u].pc = "written" => ids \cap upload[v].ids = {}
      BY <1>0, <2>4, WrittenRows
    <3> QED
      BY <2>1, <3>1, <3>2
  <2>5. UploadsWellFormed'
    BY <1>0, <2>3, <2>4 DEF UploadsWellFormed
  <2> QED
    BY <1>6, <2>1, <2>2, <2>5, FetchSideKept DEF KeyInv
<1>7. CASE RefuseBatch(u)
  <2>1. KeyTypeOK' /\ UploadsWhole'
    BY <1>0, <1>2, <1>7 DEF RefuseBatch, KeyTypeOK, UploadsWhole
  <2> QED
    BY <1>6, <1>7, <2>1 DEF RefuseBatch
<1>8. CASE CommitBatch(u)
  <2> DEFINE p == [status |-> "unused", owner |-> c]
  <2>1. p \in PreKey /\ c \in Clients
    BY <1>3, <1>8 DEF CommitBatch, PreKey
  <2>2. /\ prekey' \in [Ids -> PreKey]
        /\ \A i \in ids : prekey'[i] = p
        /\ \A i \in Ids \ ids : prekey'[i] = prekey[i]
    BY <1>0, <1>1, <1>8, <2>1, PreKeysSet DEF CommitBatch
  <2>3. uploaded' = uploaded \cup {[client |-> c, ids |-> ids]}
    BY <1>8 DEF CommitBatch
  <2>4. KeyTypeOK'
    BY <1>0, <1>1, <1>2, <1>8, <2>1, <2>2, <2>3 DEF CommitBatch, KeyTypeOK, Batch
  <2>5. ASSUME NEW b \in uploaded, NEW i \in b.ids PROVE prekey'[i] = prekey[i]
    <3>1. i \in Ids /\ prekey[i].status \in {"unused", "used"}
      BY <1>0, <2>5, KeyFields DEF UploadsWhole
    <3>2. \A j \in ids : prekey[j].status = "inserting"
      BY <1>0, <1>8, WrittenRows DEF CommitBatch
    <3> QED
      BY <2>2, <3>1, <3>2
  <2>6. UploadsWhole'
    BY <1>0, <2>2, <2>3, <2>5 DEF UploadsWhole
  <2> QED
    BY <1>6, <1>8, <2>1, <2>4, <2>6 DEF CommitBatch
<1>9. CASE RollBackBatch(u)
  <2>1. /\ prekey' \in [Ids -> PreKey]
        /\ \A i \in Ids \ ids : prekey'[i] = prekey[i]
    BY <1>0, <1>1, <1>2, <1>9, PreKeysSet DEF RollBackBatch
  <2>2. KeyTypeOK'
    BY <1>0, <1>2, <1>9, <2>1 DEF RollBackBatch, KeyTypeOK
  <2>3. ASSUME NEW b \in uploaded, NEW i \in b.ids PROVE prekey'[i] = prekey[i]
    <3>1. i \in Ids /\ prekey[i].status \in {"unused", "used"}
      BY <1>0, <2>3, KeyFields DEF UploadsWhole
    <3>2. \A j \in ids : prekey[j].status = "inserting"
      BY <1>0, <1>9, WrittenRows DEF RollBackBatch
    <3> QED
      BY <2>1, <3>1, <3>2
  <2>4. UploadsWhole'
    BY <1>0, <1>9, <2>3 DEF RollBackBatch, UploadsWhole
  <2> QED
    BY <1>2, <1>6, <1>9, <2>2, <2>4 DEF RollBackBatch
<1> QED
  BY <1>5, <1>7, <1>8, <1>9 DEF Upload

--------------------------------------------------------------------------------
\* A request that holds a prekey, and what nobody else does with it.
LEMMA HeldPreKey ==
    ASSUME KeyInv, NEW f \in Fetches, fetch[f].pc \in {"taken", "committed"}
    PROVE  /\ fetch[f].prekey \in Ids
           /\ fetch[f].device \in Clients
           /\ fetch[f].pc = "taken" => prekey[fetch[f].prekey].status = "unused"
           /\ fetch[f].pc = "committed" => prekey[fetch[f].prekey].status = "used"
           /\ \A b \in bundles : b.prekey # fetch[f].prekey
           /\ \A g \in Fetches : (g # f /\ fetch[g].pc \in {"taken", "committed"})
                                    => fetch[g].prekey # fetch[f].prekey
<1>0. KeyTypeOK /\ FetchesWellFormed /\ PreKeysExclusive /\ BundleSendable
  BY DEF KeyInv
<1>1. /\ fetch[f].prekey \in Ids
      /\ fetch[f].device \in Clients
      /\ fetch[f].pc = "taken" => prekey[fetch[f].prekey].status = "unused"
      /\ fetch[f].pc = "committed" =>
            /\ prekey[fetch[f].prekey].status = "used"
            /\ \A b \in bundles : b.prekey # fetch[f].prekey
  BY <1>0 DEF FetchesWellFormed
<1>2. ASSUME NEW b \in bundles, fetch[f].pc = "taken"
      PROVE  b.prekey # fetch[f].prekey
  <2>1. b.prekey # 0 => prekey[b.prekey].status = "used"
    BY <1>0 DEF BundleSendable, Consumable
  <2> QED
    BY <1>0, <1>1, <1>2, <2>1, KeyFields
<1>3. ASSUME NEW g \in Fetches, g # f, fetch[g].pc \in {"taken", "committed"}
      PROVE  fetch[g].prekey # fetch[f].prekey
  BY <1>0, <1>3 DEF PreKeysExclusive
<1> QED
  BY <1>1, <1>2, <1>3

\* The invariant survives a step of one request that changes no prekey and no
\* bundle: the request is over, or has read the device, or has taken a prekey
\* that is unused and not taken.
LEMMA FetchProgress ==
    ASSUME KeyInv, NEW f \in Fetches, NEW x \in FetchState,
           fetch' = [fetch EXCEPT ![f] = x],
           UNCHANGED <<device, registered, prekey, upload, bundles, answered, uploaded>>,
           \/ x = NoFetch
           \/ x.pc = "read" /\ x.device \in Clients /\ x.prekey = 0
           \/ x.pc = "taken" /\ x.device \in Clients /\ x.prekey \in Available
    PROVE  KeyInv'
<1>0. /\ KeyTypeOK /\ FetchesWellFormed /\ PreKeysExclusive
      /\ BundlesNumbered /\ HandedOutOnce /\ BundleSendable
  BY DEF KeyInv
<1>1. /\ fetch' \in [Fetches -> FetchState]
      /\ fetch'[f] = x
      /\ \A g \in Fetches : g # f => fetch'[g] = fetch[g]
  BY <1>0 DEF KeyTypeOK
<1>2. KeyTypeOK'
  BY <1>0, <1>1 DEF KeyTypeOK
<1>3. /\ x.pc \in {"idle", "read", "taken"}
      /\ x.pc # "idle" => x.device \in Clients
      /\ x.pc = "read" => x.prekey = 0
      /\ x.pc = "taken" => /\ x.prekey \in Ids
                           /\ prekey[x.prekey].status = "unused"
                           /\ ~Taken(x.prekey)
  BY DEF NoFetch, Available
<1>4. FetchesWellFormed'
  <2>1. ASSUME NEW g \in Fetches
        PROVE  /\ fetch'[g].pc # "idle" => fetch'[g].device \in Clients
               /\ fetch'[g].pc = "read" => fetch'[g].prekey = 0
               /\ fetch'[g].pc = "taken" =>
                     /\ fetch'[g].prekey \in Ids
                     /\ prekey[fetch'[g].prekey].status = "unused"
               /\ fetch'[g].pc = "committed" =>
                     /\ fetch'[g].prekey \in Ids
                     /\ prekey[fetch'[g].prekey].status = "used"
                     /\ \A b \in bundles : b.prekey # fetch'[g].prekey
    <3>1. CASE g = f
      BY <1>1, <1>3, <3>1
    <3>2. CASE g # f
      BY <1>0, <1>1, <3>2 DEF FetchesWellFormed
    <3> QED
      BY <3>1, <3>2
  <2> QED
    BY <2>1 DEF FetchesWellFormed
<1>5. ASSUME NEW g \in Fetches, g # f, fetch[g].pc \in {"taken", "committed"},
             x.pc = "taken"
      PROVE  fetch[g].prekey # x.prekey
  BY <1>3, <1>5, HeldPreKey DEF Taken
<1>6. PreKeysExclusive'
  <2>1. ASSUME NEW g \in Fetches, NEW h \in Fetches, g # h,
               fetch'[g].pc \in {"taken", "committed"},
               fetch'[h].pc \in {"taken", "committed"}
        PROVE  fetch'[g].prekey # fetch'[h].prekey
    <3>1. CASE g = f
      BY <1>1, <1>3, <1>5, <2>1, <3>1
    <3>2. CASE h = f
      BY <1>1, <1>3, <1>5, <2>1, <3>2
    <3>3. CASE g # f /\ h # f
      BY <1>0, <1>1, <2>1, <3>3 DEF PreKeysExclusive
    <3> QED
      BY <3>1, <3>2, <3>3
  <2> QED
    BY <2>1 DEF PreKeysExclusive
<1>7. BundlesNumbered' /\ HandedOutOnce' /\ BundleSendable'
  BY <1>0 DEF BundlesNumbered, HandedOutOnce, BundleSendable, Consumable
<1> QED
  BY <1>2, <1>4, <1>6, <1>7, UploadSideKept DEF KeyInv

\* COMMIT of a bundle's prekey.
LEMMA CommitFetchStep ==
    ASSUME KeyInv, NEW f \in Fetches, CommitFetch(f)
    PROVE  KeyInv'
<1>0. /\ KeyTypeOK /\ FetchesWellFormed /\ PreKeysExclusive
      /\ BundlesNumbered /\ HandedOutOnce /\ BundleSendable
  BY DEF KeyInv
<1> DEFINE i == fetch[f].prekey
           p == [prekey[i] EXCEPT !.status = "used"]
<1>1. /\ i \in Ids /\ prekey[i].status = "unused" /\ fetch[f].device \in Clients
      /\ \A b \in bundles : b.prekey # i
      /\ \A g \in Fetches : (g # f /\ fetch[g].pc \in {"taken", "committed"})
                               => fetch[g].prekey # i
  BY HeldPreKey DEF CommitFetch
<1>2. p \in PreKey /\ p.status = "used" /\ p.owner = prekey[i].owner
  BY <1>0, <1>1, KeyFields DEF PreKey
<1>3. /\ prekey' \in [Ids -> PreKey]
      /\ prekey'[i] = p
      /\ \A j \in Ids : j # i => prekey'[j] = prekey[j]
  <2>1. SetPreKeys({i}, p) /\ {i} \in SUBSET Ids
    BY <1>1 DEF CommitFetch
  <2> HIDE DEF p
  <2> QED
    BY <1>0, <1>2, <2>1, PreKeysSet
<1> HIDE DEF p
<1>4. /\ fetch' \in [Fetches -> FetchState]
      /\ fetch'[f].pc = "committed"
      /\ fetch'[f].prekey = i
      /\ fetch'[f].device = fetch[f].device
      /\ \A g \in Fetches : g # f => fetch'[g] = fetch[g]
  BY <1>0 DEF CommitFetch, KeyTypeOK, FetchState
<1> HIDE DEF i
<1>5. UNCHANGED <<device, registered, upload, bundles, answered, uploaded>>
  BY DEF CommitFetch
<1>6. KeyTypeOK'
  BY <1>0, <1>3, <1>4, <1>5 DEF KeyTypeOK
<1>7. FetchesWellFormed'
  <2>1. ASSUME NEW g \in Fetches
        PROVE  /\ fetch'[g].pc # "idle" => fetch'[g].device \in Clients
               /\ fetch'[g].pc = "read" => fetch'[g].prekey = 0
               /\ fetch'[g].pc = "taken" =>
                     /\ fetch'[g].prekey \in Ids
                     /\ prekey'[fetch'[g].prekey].status = "unused"
               /\ fetch'[g].pc = "committed" =>
                     /\ fetch'[g].prekey \in Ids
                     /\ prekey'[fetch'[g].prekey].status = "used"
                     /\ \A b \in bundles : b.prekey # fetch'[g].prekey
    <3>1. CASE g = f
      BY <1>1, <1>2, <1>3, <1>4, <3>1
    <3>2. CASE g # f
      BY <1>0, <1>1, <1>3, <1>4, <3>2 DEF FetchesWellFormed
    <3> QED
      BY <3>1, <3>2
  <2> QED
    BY <1>5, <2>1 DEF FetchesWellFormed
<1>8. PreKeysExclusive'
  <2>1. ASSUME NEW g \in Fetches, NEW h \in Fetches, g # h,
               fetch'[g].pc \in {"taken", "committed"},
               fetch'[h].pc \in {"taken", "committed"}
        PROVE  fetch'[g].prekey # fetch'[h].prekey
    BY <1>0, <1>1, <1>4, <2>1 DEF PreKeysExclusive
  <2> QED
    BY <2>1 DEF PreKeysExclusive
<1>9. BundlesNumbered' /\ HandedOutOnce'
  BY <1>0, <1>5 DEF BundlesNumbered, HandedOutOnce
<1>10. BundleSendable'
  <2>1. ASSUME NEW b \in bundles, b.prekey # 0
        PROVE  prekey'[b.prekey].status = "used"
    <3>1. b.prekey \in Ids /\ prekey[b.prekey].status = "used"
      BY <1>0, <2>1, KeyFields DEF BundleSendable, Consumable, Ids
    <3> QED
      BY <1>1, <1>3, <2>1, <3>1
  <2> QED
    BY <1>5, <2>1 DEF BundleSendable, Consumable
<1>11. UploadsWellFormed' /\ UploadsWhole'
  BY <1>1, <1>2, <1>3, <1>5, UploadSideKept
<1> QED
  BY <1>6, <1>7, <1>8, <1>9, <1>10, <1>11 DEF KeyInv

\* A bundle goes out with the prekey that its request committed, or with none.
LEMMA RespondStep ==
    ASSUME KeyInv, NEW f \in Fetches, Respond(f), fetch[f].pc \in {"read", "committed"}
    PROVE  KeyInv'
<1>0. /\ KeyTypeOK /\ FetchesWellFormed /\ PreKeysExclusive
      /\ BundlesNumbered /\ HandedOutOnce /\ BundleSendable
  BY DEF KeyInv
<1> DEFINE new == [number |-> answered + 1, device |-> fetch[f].device,
                   prekey |-> fetch[f].prekey]
<1>1. /\ fetch[f].device \in Clients
      /\ fetch[f].prekey \in 0..MaxPreKeys
      /\ fetch[f].prekey # 0 =>
            /\ prekey[fetch[f].prekey].status = "used"
            /\ \A b \in bundles : b.prekey # fetch[f].prekey
            /\ \A g \in Fetches : (g # f /\ fetch[g].pc \in {"taken", "committed"})
                                     => fetch[g].prekey # fetch[f].prekey
  BY <1>0, HeldPreKey, KeyFields DEF FetchesWellFormed, FetchState
<1>2. /\ bundles' = bundles \cup {new}
      /\ answered' = answered + 1 /\ answered \in Nat /\ answered < MaxBundles
      /\ UNCHANGED <<device, registered, prekey, upload, uploaded>>
  BY <1>0, KeyFields DEF Respond
<1>3. new \in Bundle /\ new.prekey = fetch[f].prekey /\ new.number = answered'
  BY <1>1, <1>2 DEF Bundle
<1> HIDE DEF new
<1>4. /\ fetch' \in [Fetches -> FetchState]
      /\ fetch'[f].pc = "idle"
      /\ \A g \in Fetches : g # f => fetch'[g] = fetch[g]
  <2>1. NoFetch \in FetchState
    BY DEF NoFetch, FetchState
  <2> QED
    BY <1>0, <2>1 DEF Respond, KeyTypeOK, NoFetch
<1>5. KeyTypeOK'
  BY <1>0, <1>2, <1>3, <1>4 DEF KeyTypeOK
<1>6. FetchesWellFormed'
  <2>1. ASSUME NEW g \in Fetches, g # f, fetch[g].pc = "committed"
        PROVE  \A b \in bundles' : b.prekey # fetch[g].prekey
    <3>1. fetch[g].prekey \in Ids /\ \A b \in bundles : b.prekey # fetch[g].prekey
      BY <2>1, HeldPreKey
    <3>2. fetch[g].prekey # 0
      BY <1>0, <3>1, KeyFields
    <3> QED
      BY <1>1, <1>2, <1>3, <2>1, <3>1, <3>2
  <2> QED
    BY <1>0, <1>2, <1>4, <2>1 DEF FetchesWellFormed
<1>7. PreKeysExclusive'
  <2>1. ASSUME NEW g \in Fetches, NEW h \in Fetches, g # h,
               fetch'[g].pc \in {"taken", "committed"},
               fetch'[h].pc \in {"taken", "committed"}
        PROVE  fetch'[g].prekey # fetch'[h].prekey
    BY <1>0, <1>4, <2>1 DEF PreKeysExclusive
  <2> QED
    BY <2>1 DEF PreKeysExclusive
<1>8. BundlesNumbered'
  BY <1>0, <1>2, <1>3, KeyFields DEF BundlesNumbered
<1>9. HandedOutOnce'
  BY <1>0, <1>1, <1>2, <1>3 DEF HandedOutOnce
<1>10. BundleSendable'
  BY <1>0, <1>1, <1>2, <1>3 DEF BundleSendable, Consumable
<1>11. UploadsWellFormed' /\ UploadsWhole'
  BY <1>2, UploadSideKept
<1> QED
  BY <1>5, <1>6, <1>7, <1>8, <1>9, <1>10, <1>11 DEF KeyInv

--------------------------------------------------------------------------------
\* A client registers, or an upload begins: no row and no bundle changes.
LEMMA OwnerStep ==
    ASSUME KeyInv,
           \/ \E c \in Clients : Register(c)
           \/ \E u \in Uploads, c \in Clients, ids \in Batches : BeginUpload(u, c, ids)
    PROVE  KeyInv'
<1>0. KeyTypeOK /\ UploadsWellFormed /\ UploadsWhole
  BY DEF KeyInv
<1>1. ASSUME NEW c \in Clients, Register(c) PROVE KeyInv'
  <2>1. KeyTypeOK'
    BY <1>0, <1>1 DEF Register, KeyTypeOK
  <2> QED
    BY <1>1, <2>1, FetchSideKept, UploadSideKept DEF Register, KeyTypeOK, KeyInv
<1>2. ASSUME NEW u \in Uploads, NEW c \in Clients, NEW ids \in Batches,
             BeginUpload(u, c, ids)
      PROVE  KeyInv'
  <2>1. /\ upload' \in [Uploads -> UploadState]
        /\ upload'[u].pc = "checked" /\ upload'[u].client = c
        /\ \A v \in Uploads : v # u => upload'[v] = upload[v]
        /\ UNCHANGED <<device, registered, prekey, fetch, bundles, answered, uploaded>>
    <3>1. [pc |-> "checked", client |-> c, ids |-> ids] \in UploadState
      BY DEF UploadState
    <3> QED
      BY <1>0, <1>2, <3>1 DEF BeginUpload, KeyTypeOK
  <2>2. KeyTypeOK'
    BY <1>0, <2>1 DEF KeyTypeOK
  <2>3. UploadsWellFormed'
    <3>1. \A v \in Uploads : upload'[v].pc # "idle" => upload'[v].client \in Clients
      BY <1>0, <2>1 DEF UploadsWellFormed
    <3>2. \A v \in Uploads : upload'[v].pc = "written" => v # u
      BY <2>1
    <3> QED
      BY <1>0, <2>1, <3>1, <3>2 DEF UploadsWellFormed
  <2>4. UploadsWhole'
    BY <1>0, <2>1 DEF UploadsWhole
  <2> QED
    BY <2>1, <2>2, <2>3, <2>4, FetchSideKept DEF KeyTypeOK, KeyInv
<1> QED
  BY <1>1, <1>2

\* The steps of a request for a bundle.
LEMMA FetchStep ==
    ASSUME KeyInv, NEW f \in Fetches, Fetch(f)
    PROVE  KeyInv'
<1>0. KeyTypeOK /\ FetchesWellFormed /\ fetch[f] \in FetchState
  BY KeyFields DEF KeyInv
<1>1. CASE BeginFetch(f)
  <2> DEFINE x == [pc |-> "read", device |-> device, prekey |-> 0]
  <2>1. x \in FetchState /\ x.pc = "read" /\ x.device \in Clients /\ x.prekey = 0
    BY <1>0, <1>1 DEF BeginFetch, KeyTypeOK, FetchState
  <2> QED
    BY <1>1, <2>1, FetchProgress DEF BeginFetch
<1>2. CASE TakePreKey(f)
  <2>1. PICK i \in Available :
           fetch' = [fetch EXCEPT ![f] = [@ EXCEPT !.pc = "taken", !.prekey = i]]
    BY <1>2 DEF TakePreKey
  <2> DEFINE x == [fetch[f] EXCEPT !.pc = "taken", !.prekey = i]
  <2>2. i \in 0..MaxPreKeys
    BY <1>0, KeyFields DEF Available
  <2>3. /\ x \in FetchState /\ x.pc = "taken" /\ x.prekey = i
        /\ x.device = fetch[f].device
    BY <1>0, <2>2 DEF FetchState
  <2>4. fetch[f].device \in Clients
    BY <1>0, <1>2 DEF TakePreKey, FetchesWellFormed
  <2>5. fetch' = [fetch EXCEPT ![f] = x]
    BY <2>1
  <2> HIDE DEF x
  <2> QED
    BY <1>2, <2>3, <2>4, <2>5, FetchProgress DEF TakePreKey
<1>3. CASE FailFetch(f)
  <2>1. NoFetch \in FetchState
    BY DEF NoFetch, FetchState
  <2> QED
    BY <1>3, <2>1, FetchProgress DEF FailFetch
<1>4. CASE Answer(f) \/ AnswerWithoutPreKey(f)
  BY <1>4, RespondStep DEF Answer, AnswerWithoutPreKey
<1> QED
  BY <1>1, <1>2, <1>3, <1>4, CommitFetchStep DEF Fetch

\* Every step keeps the invariant.
LEMMA KeyStep == KeyInv /\ [KeyNext]_keyVars => KeyInv'
<1> SUFFICES ASSUME KeyInv, [KeyNext]_keyVars PROVE KeyInv'
  OBVIOUS
<1>1. CASE UNCHANGED keyVars
  <2>1. KeyTypeOK' /\ prekey' \in [Ids -> PreKey]
    BY <1>1 DEF KeyInv, KeyTypeOK, keyVars
  <2> QED
    BY <1>1, <2>1, FetchSideKept, UploadSideKept DEF KeyInv, keyVars
<1> QED
  BY <1>1, OwnerStep, UploadStep, FetchStep DEF KeyNext

--------------------------------------------------------------------------------
\* The invariant holds of every behaviour of the key relay.
THEOREM KeyInvariance == KeySpec => []KeyInv
<1>1. KeyInit => KeyInv
  BY KeyInitInv
<1>2. KeyInv /\ [KeyNext]_keyVars => KeyInv'
  BY KeyStep
<1> QED
  BY <1>1, <1>2, PTL DEF KeySpec

\* The tables and the requests' progress keep their types.
THEOREM KeyTypeCorrect == KeySpec => []KeyTypeOK
<1>1. KeyInv => KeyTypeOK
  BY DEF KeyInv
<1> QED
  BY <1>1, KeyInvariance, PTL

\* get_prekey_bundle puts a one-time prekey into one bundle at most.
THEOREM SingleHandout == KeySpec => []HandedOutOnce
<1>1. KeyInv => HandedOutOnce
  BY DEF KeyInv
<1> QED
  BY <1>1, KeyInvariance, PTL

\* send_message accepts the prekey of every bundle that went out.
THEOREM BundlesSendable == KeySpec => []BundleSendable
<1>1. KeyInv => BundleSendable
  BY DEF KeyInv
<1> QED
  BY <1>1, KeyInvariance, PTL

\* A batch that upload_one_time_prekeys committed is there as a whole.
THEOREM WholeUploads == KeySpec => []UploadsWhole
<1>1. KeyInv => UploadsWhole
  BY DEF KeyInv
<1> QED
  BY <1>1, KeyInvariance, PTL
================================================================================
