------------------------------ MODULE MessageRelay ------------------------------
(***************************************************************************)
(* The messages table of the relay: who sees a message, and the requests   *)
(* that hide it (delete), take it back (revoke) and pass it on (forward).  *)
(* A request reads the message, checks it, reads it again with the         *)
(* conditions of the change, writes one column and commits; in READ        *)
(* COMMITTED another request may commit between any two of these steps.    *)
(*                                                                         *)
(* deleted_at is left out: no code sets it.  Users and their devices are   *)
(* active.  Payload, prekey and anchor of a message are not part of its    *)
(* visibility and are left to other modules.                               *)
(***************************************************************************)
EXTENDS Naturals

CONSTANTS
    Users,
    Requests,      \* requests in progress at a time
    MaxMessages    \* bound: messages ever stored

ASSUME MessageBoundAssumption == MaxMessages \in Nat

VARIABLES
    message,   \* the table
    next,      \* the next message's number
    request,   \* per request: operation, caller, message, progress
    done       \* operations that committed, as <<operation, caller, message>>

vars == <<message, next, request, done>>

--------------------------------------------------------------------------------
Messages == 1..MaxMessages

\* The columns that hide a message: sender_deleted_at, recipient_deleted_at and
\* access_revoked_at.
Columns == {"senderDeleted", "recipientDeleted", "revoked"}

NoMessage == [sender |-> "nobody", recipient |-> "nobody", original |-> 0,
              hidden |-> {}]

\* hidden: the columns above that are set; original: forwarded_from_message_id.
Message == [sender : Users \cup {"nobody"}, recipient : Users \cup {"nobody"},
            original : 0..MaxMessages, hidden : SUBSET Columns]

NoRequest == [op |-> "none", user |-> "nobody", message |-> 0,
              column |-> "none", seen |-> {}, pc |-> "idle"]

\* column: the one to write; seen: the hiding columns of the loaded object.
Request == [op : {"none", "delete", "revoke", "forward"},
            user : Users \cup {"nobody"}, message : 0..MaxMessages,
            column : Columns \cup {"none"}, seen : SUBSET Columns,
            pc : {"idle", "found", "matched", "written"}]

Operations == {"delete", "revoke"} \X Users \X Messages

TypeOK ==
    /\ message \in [Messages -> Message]
    /\ next \in 1..(MaxMessages + 1)
    /\ request \in [Requests -> Request]
    /\ done \subseteq Operations

--------------------------------------------------------------------------------
\* _sender_visible, the condition of the sent list.
SenderVisible(u, m) ==
    message[m].sender = u /\ "senderDeleted" \notin message[m].hidden

\* Mutant: the revocation is not looked at.
RecipientVisibleThoughRevoked(u, m) ==
    message[m].recipient = u /\ "recipientDeleted" \notin message[m].hidden

\* _recipient_visible, the condition of the received list.
RecipientVisible(u, m) ==
    /\ message[m].recipient = u
    /\ message[m].hidden \cap {"recipientDeleted", "revoked"} = {}

\* get_accessible_by_id.
Accessible(u, m) == SenderVisible(u, m) \/ RecipientVisible(u, m)

\* The column that delete_message_for_user sets: the sender's comes first.
DeleteColumn(u, m) ==
    IF message[m].sender = u THEN "senderDeleted" ELSE "recipientDeleted"

\* The conditions under which the change finds its message again.
Matches(c, m) ==
    CASE c = "senderDeleted"    -> "senderDeleted" \notin message[m].hidden
      [] c = "recipientDeleted" -> message[m].hidden
                                     \cap {"recipientDeleted", "revoked"} = {}
      [] c = "revoked"          -> TRUE

\* The request's transaction is over and its answer sent.
Finish(r) == request' = [request EXCEPT ![r] = NoRequest]

Found(r, op, u, m, c) ==
    request' = [request EXCEPT ![r] =
        [op |-> op, user |-> u, message |-> m, column |-> c,
         seen |-> message[m].hidden, pc |-> "found"]]

Insert(u, v, o) ==
    message' = [message EXCEPT ![next] =
        [sender |-> u, recipient |-> v, original |-> o, hidden |-> {}]]

--------------------------------------------------------------------------------
\* send_message: insert and COMMIT; the sender may be the recipient.
Send(u, v) ==
    /\ next <= MaxMessages
    /\ Insert(u, v, 0)
    /\ next' = next + 1
    /\ UNCHANGED <<request, done>>

\* delete_message_for_user: the message is there and the caller takes part in it.
BeginDelete(r, u, m) ==
    /\ request[r].pc = "idle"
    /\ m < next
    /\ u \in {message[m].sender, message[m].recipient}
    /\ Found(r, "delete", u, m, DeleteColumn(u, m))
    /\ UNCHANGED <<message, next, done>>

\* revoke_message_access: the caller sent the message.
BeginRevoke(r, u, m) ==
    /\ request[r].pc = "idle"
    /\ m < next
    /\ message[m].sender = u
    /\ Found(r, "revoke", u, m, "revoked")
    /\ UNCHANGED <<message, next, done>>

\* forward_message: the caller sees the message.
BeginForward(r, u, m) ==
    /\ request[r].pc = "idle"
    /\ m < next
    /\ Accessible(u, m)
    /\ Found(r, "forward", u, m, "none")
    /\ UNCHANGED <<message, next, done>>

\* mark_sender_deleted, mark_recipient_deleted, revoke_recipient_access: SELECT.
SelectAgain(r) ==
    /\ request[r].pc = "found"
    /\ request[r].op # "forward"
    /\ Matches(request[r].column, request[r].message)
    /\ request' = [request EXCEPT ![r].pc = "matched"]
    /\ UNCHANGED <<message, next, done>>

\* They return None: the caller is denied.
Denied(r) ==
    /\ request[r].pc = "found"
    /\ request[r].op # "forward"
    /\ ~Matches(request[r].column, request[r].message)
    /\ Finish(r)
    /\ UNCHANGED <<message, next, done>>

\* flush: the UPDATE gets the row when no other transaction has written it.
Write(r) ==
    /\ request[r].pc = "matched"
    /\ \A q \in Requests : request[q].pc = "written" =>
          request[q].message # request[r].message
    /\ request' = [request EXCEPT ![r].pc = "written"]
    /\ UNCHANGED <<message, next, done>>

\* Mutant: the UPDATE writes every column of the loaded object.
CommitLoadedRow(r) ==
    LET m == request[r].message
    IN  /\ request[r].pc = "written"
        /\ message' = [message EXCEPT ![m].hidden =
                         request[r].seen \cup {request[r].column}]
        /\ done' = done \cup {<<request[r].op, request[r].user, m>>}
        /\ Finish(r)
        /\ UNCHANGED next

\* COMMIT of a delete or revoke: the UPDATE wrote the changed column only.
Commit(r) ==
    LET m == request[r].message
    IN  /\ request[r].pc = "written"
        /\ message' = [message EXCEPT ![m].hidden = @ \cup {request[r].column}]
        /\ done' = done \cup {<<request[r].op, request[r].user, m>>}
        /\ Finish(r)
        /\ UNCHANGED next

\* forward_message: insert the new message with its lineage and COMMIT.
Forward(r, v) ==
    /\ request[r].pc = "found"
    /\ request[r].op = "forward"
    /\ next <= MaxMessages
    /\ Insert(request[r].user, v, request[r].message)
    /\ next' = next + 1
    /\ Finish(r)
    /\ UNCHANGED done

\* A failed validation or a lost connection rolls the transaction back.
RollBack(r) ==
    /\ request[r].pc # "idle"
    /\ Finish(r)
    /\ UNCHANGED <<message, next, done>>

--------------------------------------------------------------------------------
Init ==
    /\ message = [m \in Messages |-> NoMessage]
    /\ next = 1
    /\ request = [r \in Requests |-> NoRequest]
    /\ done = {}

Begin(r, u, m) == BeginDelete(r, u, m) \/ BeginRevoke(r, u, m) \/ BeginForward(r, u, m)

Continue(r) == SelectAgain(r) \/ Denied(r) \/ Write(r) \/ Commit(r) \/ RollBack(r)

Next ==
    \/ \E u, v \in Users : Send(u, v)
    \/ \E r \in Requests, u \in Users, m \in Messages : Begin(r, u, m)
    \/ \E r \in Requests : Continue(r)
    \/ \E r \in Requests, v \in Users : Forward(r, v)

Spec == Init /\ [][Next]_vars

--------------------------------------------------------------------------------
(* Properties *)

\* A message is gone from a list exactly when the owner of the list deleted it
\* there or, for the received list, its sender revoked it.  Concurrent deletes
\* and revocations neither undo each other nor reach into the other's list.
VisibilityExplained ==
    \A m \in Messages : m < next =>
       LET s == message[m].sender
           t == message[m].recipient
       IN  /\ SenderVisible(s, m) <=> <<"delete", s, m>> \notin done
           /\ s # t => (RecipientVisible(t, m) <=>
                          /\ <<"delete", t, m>> \notin done
                          /\ <<"revoke", s, m>> \notin done)

\* The messages that u forwarded from m.
ForwardsBy(u, m) == {f \in Messages : message[f].original = m /\ message[f].sender = u}

\* m is revoked, and u has no forward of it in progress.
TakenBack(u, m) ==
    /\ "revoked" \in message[m].hidden
    /\ message[m].sender # u
    /\ \A r \in Requests :
          ~(request[r].op = "forward" /\ request[r].user = u /\ request[r].message = m)

\* Once a message is revoked and the recipient's forwards that had passed the
\* access check are over, the recipient forwards it no more.
RevocationStopsForwards ==
    [][\A u \in Users, m \in Messages : TakenBack(u, m) =>
          TakenBack(u, m)' /\ ForwardsBy(u, m)' = ForwardsBy(u, m)]_vars

\* A forwarded message names an earlier message that its sender took part in.
LineageTrue ==
    \A f \in Messages : LET o == message[f].original IN
       o # 0 => /\ o < f
                /\ message[f].sender \in {message[o].sender, message[o].recipient}

\* Messages are numbered as they are stored and sent by users to users.
MessagesNumbered ==
    \A m \in Messages :
       /\ m >= next => message[m] = NoMessage
       /\ m < next => message[m].sender \in Users /\ message[m].recipient \in Users

\* What a request in progress may still rely on: its caller's part in the
\* message never changes, however stale the rest of what it read is.
RequestsJustified ==
    \A r \in Requests : request[r].pc # "idle" =>
       LET m == request[r].message
           u == request[r].user
       IN  /\ m \in 1..(next - 1)
           /\ u \in {message[m].sender, message[m].recipient}
           /\ request[r].op \in {"delete", "revoke", "forward"}
           /\ request[r].op = "delete" => request[r].column = DeleteColumn(u, m)
           /\ request[r].op = "revoke" => /\ request[r].column = "revoked"
                                          /\ message[m].sender = u
           /\ request[r].op = "forward" => request[r].pc = "found"

\* Every hiding column is the work of the one operation that may set it.
ColumnsExplained ==
    /\ \A d \in done : d[3] < next
    /\ \A m \in Messages : m < next =>
          LET s == message[m].sender
              t == message[m].recipient
          IN  /\ "senderDeleted" \in message[m].hidden <=> <<"delete", s, m>> \in done
              /\ "recipientDeleted" \in message[m].hidden <=>
                    s # t /\ <<"delete", t, m>> \in done
              /\ "revoked" \in message[m].hidden <=> <<"revoke", s, m>> \in done

\* The inductive invariant behind the properties above.
IInv ==
    /\ TypeOK
    /\ MessagesNumbered
    /\ RequestsJustified
    /\ ColumnsExplained
    /\ LineageTrue

\* Deleting a message hides it from the user who deleted it.
DeleteHides ==
    \A u \in Users, m \in Messages :
       <<"delete", u, m>> \in done => ~Accessible(u, m)
================================================================================
