---------------------------- MODULE ClientSyncProofs ----------------------------
(***************************************************************************)
(* Proofs about ClientSync, for any number of accounts, messages, pages    *)
(* and requests: type correctness, that no file forgets and memory only    *)
(* when it is read again (MemoryAhead), that an account's file holds its   *)
(* own messages only (SInv), that what was hidden stays hidden, whatever   *)
(* saves fail and however often the file is read again (HInv), and that a  *)
(* list nothing disturbs is exact (EInv).  The invariants are proved one   *)
(* action at a time.                                                       *)
(***************************************************************************)
EXTENDS ClientSync, SequenceTheorems, FiniteSetTheorems, FunctionTheorems,
        TLAPS

-----------------------------------------------------------------------------
(* Facts about the values *)

\* A call that has not begun is well formed.
LEMMA IdleShaped == Idle \in Calls /\ CallShaped(Idle)
<1>1. <<>> \in Seq(Directions)
  BY EmptySeq
<1> QED
  BY <1>1 DEF Idle, Calls, CallShaped

\* The messages in the table are among those there may be.
LEMMA StoredMessages ==
  ASSUME TypeOK
  PROVE  /\ Stored = 1..Len(table)
         /\ Len(table) \in Nat
         /\ Stored \subseteq Messages
         /\ \A m \in Stored : table[m] \in Row
<1>1. Len(table) \in Nat /\ DOMAIN table = 1..Len(table)
      /\ table \in [1..Len(table) -> Row]
  BY LenProperties DEF TypeOK
<1> QED
  BY <1>1, SyncAssumption DEF TypeOK, Stored, Messages

\* What the server sends of a message in the table.
LEMMA CopyShaped ==
  ASSUME TypeOK, NEW m \in Stored
  PROVE  CopyOf(m) \in Copies /\ CopyOf(m).id = m
<1>1. m \in Messages /\ table[m] \in Row
  BY StoredMessages
<1> QED
  BY <1>1 DEF CopyOf, Copies, Row

\* The first page of a list is well formed.
LEMMA FirstPageShaped ==
  ASSUME TypeOK, NEW c \in Calls, NEW lists \in Seq(Directions), lists # <<>>,
         NEW u \in Users \cup {NoUser}, c.op \in {"list", "read"}
  PROVE  LET d == FirstPage(c, lists, u) IN
         /\ d \in Calls /\ CallShaped(d)
         /\ d.op = c.op /\ d.lists = lists /\ d.access = u
         /\ d.found = {} /\ d.page = {} /\ d.answer = "none"
         /\ d.before = Hidden(u, Head(lists)) /\ d.offset = 0
<1>1. Hidden(u, Head(lists)) \in SUBSET Messages
  BY StoredMessages DEF Hidden
<1> DEFINE h == Hidden(u, Head(lists))
<1> HIDE DEF h
<1>2. h \in SUBSET Messages
  BY <1>1 DEF h
<1>3. FirstPage(c, lists, u) =
      [c EXCEPT !.lists = lists, !.access = u, !.offset = 0, !.found = {},
                !.page = {}, !.before = h, !.quiet = TRUE, !.answer = "none"]
  BY DEF FirstPage, h
<1> DEFINE d == FirstPage(c, lists, u)
<1>4. d \in Calls
  <2>1. d = [op |-> c.op, lists |-> lists, access |-> u, offset |-> 0,
             found |-> {}, page |-> {}, before |-> h, quiet |-> TRUE,
             id |-> c.id, peer |-> c.peer, answer |-> "none"]
    BY <1>3 DEF Calls
  <2>2. c.op \in {"idle", "list", "read", "revoke", "delete", "send", "forward"}
        /\ c.id \in Messages \cup {0} /\ c.peer \in Users \cup {NoUser}
    BY DEF Calls
  <2> HIDE DEF d
  <2> QED BY <1>2, <2>1, <2>2 DEF Calls
<1>5. d.op = c.op /\ d.id = c.id /\ d.lists = lists /\ d.access = u
      /\ d.found = {} /\ d.page = {} /\ d.before = h /\ d.answer = "none"
      /\ d.offset = 0
  BY <1>3 DEF Calls
<1> HIDE DEF d
<1>6. CallShaped(d)
  BY <1>5 DEF CallShaped
<1> QED
  BY <1>4, <1>5, <1>6 DEF d, h

\* When the table changes, only the histories of the calls do.
LEMMA StirredShaped ==
  ASSUME TypeOK, \A s \in Slots : CallShaped(call[s])
  PROVE  /\ Stirred \in [Slots -> Calls]
         /\ \A s \in Slots :
              /\ CallShaped(Stirred[s])
              /\ Stirred[s].op = call[s].op /\ Stirred[s].id = call[s].id
              /\ Stirred[s].lists = call[s].lists
              /\ Stirred[s].access = call[s].access
              /\ Stirred[s].found = call[s].found
              /\ Stirred[s].page = call[s].page
              /\ Stirred[s].before = call[s].before
              /\ Stirred[s].answer = call[s].answer
              /\ ~Stirred[s].quiet
<1> SUFFICES ASSUME NEW s \in Slots
             PROVE  LET d == [call[s] EXCEPT !.quiet = FALSE] IN
                    /\ d \in Calls /\ CallShaped(d)
                    /\ d.op = call[s].op /\ d.id = call[s].id
                    /\ d.lists = call[s].lists
                    /\ d.access = call[s].access /\ d.found = call[s].found
                    /\ d.page = call[s].page
                    /\ d.before = call[s].before
                    /\ d.answer = call[s].answer /\ ~d.quiet
  BY Zenon DEF Stirred
<1>1. call[s] \in Calls /\ CallShaped(call[s])
  BY DEF TypeOK
<1> QED
  BY <1>1 DEF Calls, CallShaped

-----------------------------------------------------------------------------
(* Type correctness *)

TInv == TypeOK /\ \A s \in Slots : CallShaped(call[s])

\* A step that replaces one call by a well-formed one.
LEMMA CallUpdated ==
  ASSUME TInv, NEW s \in Slots, NEW c \in Calls, CallShaped(c),
         call' = [call EXCEPT ![s] = c]
  PROVE  call' \in [Slots -> Calls] /\ \A t \in Slots : CallShaped(call'[t])
<1>1. call \in [Slots -> Calls] /\ \A t \in Slots : CallShaped(call[t])
  BY DEF TInv, TypeOK
<1>2. call' \in [Slots -> Calls]
  BY <1>1
<1>3. \A t \in Slots : call'[t] = IF t = s THEN c ELSE call[t]
  BY <1>1
<1> QED BY <1>1, <1>2, <1>3

\* A command begins.
LEMMA BeginTyped ==
  ASSUME TInv, NEW s \in Slots, NEW c \in Calls, CallShaped(c), Begin(s, c)
  PROVE  TInv'
<1>1. call' \in [Slots -> Calls] /\ \A t \in Slots : CallShaped(call'[t])
  BY CallUpdated DEF Begin
<1>2. overlap' \in BOOLEAN
  BY DEF Begin
<1> QED
  BY <1>1, <1>2 DEF TInv, TypeOK, Begin, client, Stored

\* The call that a command begins with, of an account, has got nothing yet.
Fresh(c) ==
  /\ c.access = AccessToken /\ c.found = {} /\ c.page = {} /\ c.answer = "none"
  /\ c.offset = 0
  /\ c.op \in {"list", "read"} => c.before = Hidden(c.access, Head(c.lists))

\* Every command begins with a well-formed call of the signed-in account.
LEMMA CommandBegins ==
  ASSUME TInv, NEW s \in Slots, Command(s)
  PROVE  \E c \in Calls : CallShaped(c) /\ Fresh(c) /\ Begin(s, c)
<1>0. Idle \in Calls /\ CallShaped(Idle) /\ AccessToken \in Users \cup {NoUser}
  BY IdleShaped DEF TInv, TypeOK, AccessToken
<1>1. ASSUME NEW plan \in Plans, List(s, plan)
      PROVE  \E c \in Calls : CallShaped(c) /\ Fresh(c) /\ Begin(s, c)
  <2> DEFINE c == [Idle EXCEPT !.op = "list"]
  <2>1. c \in Calls /\ c.op \in {"list", "read"}
    BY <1>0 DEF Calls, Idle
  <2>2. plan \in Seq(Directions) /\ plan # <<>>
    <3>1. <<"received">> \in Seq(Directions) /\ <<"received">> # <<>>
      BY DEF Directions
    <3>2. <<"sent">> \in Seq(Directions) /\ <<"sent">> # <<>>
      BY DEF Directions
    <3>3. <<"received", "sent">> \in Seq(Directions)
          /\ <<"received", "sent">> # <<>>
      BY DEF Directions
    <3> QED BY <1>1, <3>1, <3>2, <3>3, Zenon DEF Plans
  <2> HIDE DEF c
  <2>3. LET d == FirstPage(c, plan, AccessToken) IN
        d \in Calls /\ CallShaped(d) /\ Fresh(d)
    BY <1>0, <2>1, <2>2, FirstPageShaped DEF TInv, Fresh
  <2>4. Begin(s, FirstPage(c, plan, AccessToken))
    BY <1>1 DEF List, c
  <2> QED BY <2>3, <2>4
<1>2. ASSUME NEW v \in Users, Read(s, v)
      PROVE  \E c \in Calls : CallShaped(c) /\ Fresh(c) /\ Begin(s, c)
  <2> DEFINE c == [Idle EXCEPT !.op = "read", !.peer = v]
             plan == <<"received", "sent">>
  <2>1. c \in Calls
    BY <1>0 DEF Calls, Idle
  <2>2. c.op \in {"list", "read"}
    BY DEF Idle
  <2>3. plan \in Seq(Directions) /\ plan # <<>>
    BY DEF Directions
  <2>4. Begin(s, FirstPage(c, plan, AccessToken))
    BY <1>2 DEF Read
  <2> HIDE DEF c, plan
  <2>5. LET d == FirstPage(c, plan, AccessToken) IN
        d \in Calls /\ CallShaped(d) /\ Fresh(d)
    BY <1>0, <2>1, <2>2, <2>3, FirstPageShaped DEF TInv, Fresh
  <2> QED BY <2>4, <2>5
<1>3. ASSUME NEW m \in Messages, Revoke(s, m) \/ Delete(s, m)
      PROVE  \E c \in Calls : CallShaped(c) /\ Fresh(c) /\ Begin(s, c)
  <2>1. PICK op \in {"revoke", "delete"} :
          Begin(s, [Idle EXCEPT !.op = op, !.id = m, !.access = AccessToken])
    BY <1>3 DEF Revoke, Delete
  <2> DEFINE c == [Idle EXCEPT !.op = op, !.id = m, !.access = AccessToken]
  <2>2. c \in Calls /\ CallShaped(c) /\ Fresh(c)
    BY <1>0 DEF Calls, CallShaped, Fresh, Idle
  <2> QED BY <2>1, <2>2
<1>4. ASSUME NEW m \in Messages, NEW v \in Users, Forward(s, m, v)
      PROVE  \E c \in Calls : CallShaped(c) /\ Fresh(c) /\ Begin(s, c)
  <2> DEFINE c == [Idle EXCEPT !.op = "forward", !.id = m, !.peer = v,
                               !.access = AccessToken]
  <2>1. c \in Calls /\ CallShaped(c) /\ Fresh(c)
    BY <1>0 DEF Calls, CallShaped, Fresh, Idle
  <2> QED BY <1>4, <2>1 DEF Forward
<1>5. ASSUME NEW v \in Users, Send(s, v)
      PROVE  \E c \in Calls : CallShaped(c) /\ Fresh(c) /\ Begin(s, c)
  <2> DEFINE c == [Idle EXCEPT !.op = "send", !.peer = v,
                               !.access = AccessToken]
  <2>1. c \in Calls /\ CallShaped(c) /\ Fresh(c)
    BY <1>0 DEF Calls, CallShaped, Fresh, Idle
  <2> QED BY <1>5, <2>1 DEF Send
<1> QED BY <1>1, <1>2, <1>3, <1>4, <1>5 DEF Command

\* A row is hidden from someone: nothing else changes.
LEMMA RowHidden ==
  ASSUME TypeOK, NEW m \in Stored, NEW x \in SUBSET Columns,
         table' = [table EXCEPT ![m].hidden = @ \cup x]
  PROVE  /\ table' \in Seq(Row) /\ Len(table') = Len(table)
         /\ Stored' = Stored
         /\ \A n \in Stored : table'[n].from = table[n].from
                              /\ table'[n].to = table[n].to
<1>1. Stored = 1..Len(table) /\ \A n \in Stored : table[n] \in Row
  BY StoredMessages
<1> DEFINE r == [table[m] EXCEPT !.hidden = @ \cup x]
<1>2. r \in Row /\ r.from = table[m].from /\ r.to = table[m].to
  BY <1>1 DEF Row
<1>3. table' = [table EXCEPT ![m] = r]
  OBVIOUS
<1> HIDE DEF r
<1>4. /\ table' \in Seq(Row) /\ Len(table') = Len(table)
      /\ \A n \in 1..Len(table) : table'[n] = IF n = m THEN r ELSE table[n]
  <2>1. m \in 1..Len(table) /\ table \in Seq(Row) /\ r \in Row
    BY <1>1, <1>2 DEF TypeOK
  <2>2. table \in [1..Len(table) -> Row] /\ Len(table) \in Nat
    BY <2>1, LenProperties
  <2>3. /\ table' \in [1..Len(table) -> Row]
        /\ \A n \in 1..Len(table) : table'[n] = IF n = m THEN r ELSE table[n]
    BY <1>3, <2>1, <2>2
  <2>4. table' \in Seq(Row)
    BY <2>2, <2>3, SeqDef
  <2>5. Len(table') = Len(table)
    BY <2>2, <2>3, <2>4, LenProperties
  <2> QED BY <2>3, <2>4, <2>5
<1>5. Stored' = 1..Len(table')
  BY <1>4, LenProperties DEF Stored
<1> QED BY <1>1, <1>2, <1>4, <1>5

\* A row is appended: the others stay.
LEMMA RowAppended ==
  ASSUME TypeOK, NEW r \in Row, Len(table) < MaxMessages,
         table' = Append(table, r)
  PROVE  /\ table' \in Seq(Row) /\ Len(table') = Len(table) + 1
         /\ Len(table') <= MaxMessages /\ Stored \subseteq Stored'
         /\ Len(table) + 1 \in Stored' /\ Len(table) + 1 \in Messages
         /\ table'[Len(table) + 1] = r
         /\ \A n \in Stored : table'[n] = table[n]
<1>1. Stored = 1..Len(table) /\ Len(table) \in Nat
  BY StoredMessages
<1>2. /\ table' \in Seq(Row) /\ Len(table') = Len(table) + 1
      /\ \A n \in 1..Len(table) : table'[n] = table[n]
      /\ table'[Len(table) + 1] = r
  BY AppendProperties DEF TypeOK
<1>3. Stored' = 1..Len(table')
  BY <1>2, LenProperties DEF Stored
<1> QED BY <1>1, <1>2, <1>3, SyncAssumption DEF Messages

\* Rows and calls changed; the rest has its type still.
LEMMA TableTyped ==
  ASSUME TInv, table' \in Seq(Row), Len(table') <= MaxMessages,
         call' \in [Slots -> Calls], \A t \in Slots : CallShaped(call'[t]),
         UNCHANGED <<client, gone, overlap, torn>>, mine' \subseteq Messages
  PROVE  TInv'
BY DEF TInv, TypeOK, client

\* The answer to a request that changed the table.
LEMMA StirredAnswer ==
  ASSUME TInv, NEW s \in Slots, NEW p \in SUBSET Copies,
         call' = [Stirred EXCEPT ![s].answer = "ok", ![s].page = p]
  PROVE  /\ call' \in [Slots -> Calls]
         /\ \A t \in Slots : CallShaped(call'[t])
<1> DEFINE e == Stirred[s]
           d == [e EXCEPT !.answer = "ok", !.page = p]
<1>1. Stirred \in [Slots -> Calls] /\ \A t \in Slots : CallShaped(Stirred[t])
  BY StirredShaped DEF TInv
<1>2. d \in Calls /\ CallShaped(d)
  <2>1. e \in Calls /\ CallShaped(e)
    BY <1>1
  <2> HIDE DEF e
  <2> QED BY <2>1 DEF Calls, CallShaped
<1>3. call' = [Stirred EXCEPT ![s] = d]
  BY <1>1
<1> HIDE DEF d
<1>4. \A t \in Slots : call'[t] = IF t = s THEN d ELSE Stirred[t]
  BY <1>1, <1>3
<1> QED BY <1>1, <1>2, <1>3, <1>4

\* The server answers, or the request fails.
LEMMA ServeTyped ==
  ASSUME TInv, NEW s \in Slots, Serve(s) \/ Fails(s)
  PROVE  TInv'
<1> DEFINE c == call[s]
<1>0. c \in Calls /\ CallShaped(c)
  BY DEF TInv, TypeOK
<1>1. CASE ServePage(s)
  <2> DEFINE p == {CopyOf(m) : m \in Page(c.access, Head(c.lists), c.offset)}
  <2>1. p \in SUBSET Copies
    <3>1. Page(c.access, Head(c.lists), c.offset) \subseteq Stored
      BY DEF Page, Listed
    <3> QED BY <3>1, CopyShaped DEF TInv
  <2> HIDE DEF p
  <2> DEFINE d == [c EXCEPT !.answer = "ok", !.page = p]
  <2>2. d \in Calls /\ CallShaped(d)
    BY <1>0, <2>1 DEF Calls, CallShaped
  <2>3. call' = [call EXCEPT ![s] = d]
    BY <1>1 DEF ServePage, p, TInv, TypeOK
  <2> HIDE DEF d
  <2>4. call' \in [Slots -> Calls] /\ \A t \in Slots : CallShaped(call'[t])
    BY <2>2, <2>3, CallUpdated
  <2> QED
    BY <1>1, <2>4 DEF ServePage, TInv, TypeOK, client, Stored
<1>2. CASE Fails(s)
  <2>1. call' \in [Slots -> Calls] /\ \A t \in Slots : CallShaped(call'[t])
    BY <1>2, IdleShaped, CallUpdated DEF Fails
  <2> QED
    BY <1>2, <2>1 DEF Fails, TInv, TypeOK, client, Stored
<1>3. CASE ServeRevoke(s)
  <2> DEFINE copy == [CopyOf(c.id) EXCEPT !.hidden = @ \cup {"accessRevoked"}]
  <2>1. c.id \in Stored
    BY <1>3 DEF ServeRevoke
  <2>2. table' \in Seq(Row) /\ Len(table') = Len(table)
    BY <1>3, <2>1, RowHidden DEF ServeRevoke, TInv, Columns
  <2>3. {copy} \in SUBSET Copies
    BY <2>1, CopyShaped DEF TInv, Copies, Columns
  <2>4. call' = [Stirred EXCEPT ![s].answer = "ok", ![s].page = {copy}]
    BY <1>3 DEF ServeRevoke
  <2> HIDE DEF copy
  <2>5. call' \in [Slots -> Calls] /\ \A t \in Slots : CallShaped(call'[t])
    BY <2>3, <2>4, StirredAnswer
  <2> QED
    BY <1>3, <2>2, <2>5, TableTyped DEF ServeRevoke, TInv, TypeOK
<1>4. CASE ServeDelete(s)
  <2>1. c.id \in Stored
    BY <1>4 DEF ServeDelete, Deletable
  <2>2. {DeleteColumn(c.access, c.id)} \in SUBSET Columns
    BY DEF DeleteColumn, Columns
  <2>3. table' \in Seq(Row) /\ Len(table') = Len(table)
    BY <1>4, <2>1, <2>2, RowHidden DEF ServeDelete, TInv
  <2>4. call' = [Stirred EXCEPT ![s].answer = "ok", ![s].page = c.page]
    <3>1. Stirred \in [Slots -> Calls] /\ Stirred[s].page = c.page
      BY StirredShaped DEF TInv
    <3> QED BY <1>4, <3>1 DEF ServeDelete, Calls
  <2>5. c.page \in SUBSET Copies
    BY <1>0 DEF Calls
  <2>6. call' \in [Slots -> Calls] /\ \A t \in Slots : CallShaped(call'[t])
    BY <2>4, <2>5, StirredAnswer
  <2> QED
    BY <1>4, <2>3, <2>6, TableTyped DEF ServeDelete, TInv, TypeOK
<1>5. CASE ServeSend(s)
  <2> DEFINE r == [from |-> c.access, to |-> c.peer, hidden |-> {}]
             n == Len(table) + 1
             p == {[id |-> n, hidden |-> {}]}
  <2>1. r \in Row
    BY <1>0, <1>5 DEF ServeSend, Waiting, Calls, CallShaped, Row
  <2>2. Len(table) < MaxMessages /\ table' = Append(table, r)
    BY <1>5 DEF ServeSend
  <2>3. call' = [Stirred EXCEPT ![s].answer = "ok", ![s].page = p]
    BY <1>5 DEF ServeSend
  <2>4. mine' = mine \cup {n} /\ UNCHANGED <<client, gone, overlap, torn>>
    BY <1>5 DEF ServeSend
  <2> HIDE DEF r
  <2>5. table' \in Seq(Row) /\ Len(table') <= MaxMessages /\ n \in Messages
    BY <2>1, <2>2, RowAppended DEF TInv
  <2>6. p \in SUBSET Copies
    BY <2>5 DEF Copies, Columns
  <2> HIDE DEF n, p
  <2>7. call' \in [Slots -> Calls] /\ \A t \in Slots : CallShaped(call'[t])
    BY <2>3, <2>6, StirredAnswer
  <2>8. mine' \subseteq Messages
    BY <2>4, <2>5 DEF TInv, TypeOK
  <2> QED
    BY <2>4, <2>5, <2>7, <2>8, TableTyped
<1> QED BY <1>1, <1>2, <1>3, <1>4, <1>5 DEF Serve

-----------------------------------------------------------------------------
(* Memory grows with every answer *)

\* What is kept of one cached message; and what is not cached gets no mark.
Stays(e, f) == Keeps(e, f) /\ (~f.cached => f.tombs = e.tombs)

\* A cache as a whole, in which only messages of the set new are new.
Grows(entries, after, new) ==
  /\ after \in [Messages -> Entry]
  /\ \A m \in Messages :
       /\ Stays(entries[m], after[m])
       /\ after[m].cached => entries[m].cached \/ m \in new

\* Changes of the cache, one after the other.
LEMMA GrowsOn ==
  ASSUME NEW a, NEW b, NEW c, NEW new, NEW more,
         Grows(a, b, new), Grows(b, c, more)
  PROVE  Grows(a, c, new \cup more)
BY DEF Grows, Stays, Keeps

\* saveMessage keeps what was there.
LEMMA MergeKeeps ==
  ASSUME NEW e \in Entry, NEW h \in SUBSET Columns, NEW b \in BOOLEAN
  PROVE  Merge(e, h, b) \in Entry /\ Stays(e, Merge(e, h, b))
<1>1. h \in SUBSET Tombstones
  BY DEF Tombstones
<1> QED
  BY <1>1 DEF Merge, Entry, Stays, Keeps

\* saveMessages keeps what was there and adds what it was given.
LEMMA SavedGrows ==
  ASSUME NEW entries \in [Messages -> Entry], NEW found \in SUBSET Copies,
         NEW oldest
  PROVE  Grows(entries, Saved(entries, found, oldest), {x.id : x \in found})
<1> DEFINE S(m) == {c \in found : c.id = m /\ c.id >= oldest}
           h(m) == UNION {c.hidden : c \in S(m)}
           after == Saved(entries, found, oldest)
<1>1. \A m \in Messages :
        after[m] = IF S(m) = {} THEN entries[m]
                   ELSE Merge(entries[m], h(m), FALSE)
  BY DEF Saved
<1>2. after = [m \in Messages |-> after[m]]
  BY DEF Saved
<1> DEFINE ids == {x.id : x \in found}
           Good(m) == /\ after[m] \in Entry /\ Stays(entries[m], after[m])
                      /\ after[m].cached => entries[m].cached \/ m \in ids
<1>6. ASSUME \A m \in Messages : Good(m)
      PROVE  Grows(entries, after, ids)
  <2> HIDE DEF after, ids
  <2> QED BY <1>2, <1>6 DEF Grows
<1> SUFFICES ASSUME NEW m \in Messages
             PROVE  Good(m)
  <2> HIDE DEF Good
  <2> QED BY <1>6
<1>3. entries[m] \in Entry
  OBVIOUS
<1>4. CASE S(m) = {}
  <2>1. after[m] = entries[m]
    BY <1>1, <1>4
  <2> QED BY <1>3, <2>1 DEF Stays, Keeps
<1>5. CASE S(m) # {}
  <2>1. h(m) \in SUBSET Columns
    BY DEF Copies
  <2>2. after[m] = Merge(entries[m], h(m), FALSE)
    BY <1>1, <1>5
  <2>3. m \in {x.id : x \in found}
    BY <1>5
  <2> HIDE DEF h, S, after
  <2> QED BY <1>3, <2>1, <2>2, <2>3, MergeKeeps
<1> QED BY <1>4, <1>5

\* reconcileVisibleMessages adds marks, and no message.
LEMMA ReconciledGrows ==
  ASSUME NEW u, NEW dir, NEW entries \in [Messages -> Entry], NEW ids
  PROVE  Grows(entries, Reconciled(u, dir, entries, ids), {})
<1> DEFINE after == Reconciled(u, dir, entries, ids)
<1> SUFFICES ASSUME NEW m \in Messages
             PROVE  /\ after[m] \in Entry /\ Stays(entries[m], after[m])
                    /\ after[m].cached => entries[m].cached
  BY DEF Grows, Reconciled
<1> DEFINE t == TombFor(u, dir, entries[m], m)
<1>1. t \in SUBSET Tombstones
  BY DEF TombFor, Tombstones, Columns
<1>2. after[m] = IF m \in ids THEN entries[m]
                 ELSE [entries[m] EXCEPT !.tombs = @ \cup t]
  BY DEF Reconciled
<1>3. entries[m] \in Entry /\ (~entries[m].cached => t = {})
  BY DEF TombFor, Shows
<1> HIDE DEF t, after
<1> QED BY <1>1, <1>2, <1>3 DEF Entry, Stays, Keeps

\* markConversationRead sets readAt, and adds no message.
LEMMA MarkedReadGrows ==
  ASSUME NEW u, NEW peer, NEW entries \in [Messages -> Entry]
  PROVE  Grows(entries, MarkedRead(u, peer, entries), {})
<1> DEFINE after == MarkedRead(u, peer, entries)
<1> SUFFICES ASSUME NEW m \in Messages
             PROVE  /\ after[m] \in Entry /\ Stays(entries[m], after[m])
                    /\ after[m].cached => entries[m].cached
  BY DEF Grows, MarkedRead
<1> DEFINE r == /\ entries[m].cached
                /\ table[m].from = peer /\ table[m].to = u
<1>1. after[m] = [entries[m] EXCEPT !.read = @ \/ r]
  BY DEF MarkedRead
<1>2. entries[m] \in Entry /\ r \in BOOLEAN
  BY DEF Entry
<1>3. (entries[m].read \/ r) \in BOOLEAN
  BY <1>2 DEF Entry
<1> HIDE DEF r, after
<1> QED BY <1>1, <1>2, <1>3 DEF Entry, Stays, Keeps

\* One message of a cache is replaced by one that keeps what was there.
LEMMA EntryGrows ==
  ASSUME NEW entries \in [Messages -> Entry], NEW m \in Messages,
         NEW e \in Entry, NEW new, Stays(entries[m], e),
         e.cached => entries[m].cached \/ m \in new
  PROVE  Grows(entries, [entries EXCEPT ![m] = e], new)
<1> DEFINE after == [entries EXCEPT ![m] = e]
<1>1. after \in [Messages -> Entry]
  OBVIOUS
<1>2. \A n \in Messages : after[n] = IF n = m THEN e ELSE entries[n]
  OBVIOUS
<1> HIDE DEF after
<1>3. \A n \in Messages : Stays(entries[n], entries[n])
  BY DEF Stays, Keeps
<1>4. Grows(entries, after, new)
  BY <1>1, <1>2, <1>3 DEF Grows
<1> QED BY <1>4 DEF after

\* What a request has got so far.
Got(c) == {x.id : x \in c.found \cup c.page}

\* The call goes on to the next page or list with nothing new, as the account
\* that is signed in, or it has ended.
Continues(c, d) ==
  d = Idle \/ (d.access \in {me, AskAs(c.access)}
               /\ d.found \cup d.page \subseteq c.found \cup c.page)

\* A cache that stays.
LEMMA SameGrows ==
  ASSUME NEW entries \in [Messages -> Entry], NEW new
  PROVE  Grows(entries, entries, new)
BY DEF Grows, Stays, Keeps

\* saveMessages that went one message further: all it had saved is there.
LEMMA SavedMore ==
  ASSUME NEW entries \in [Messages -> Entry], NEW found \in SUBSET Copies,
         NEW oldest \in Nat
  PROVE  Grows(Saved(entries, found, oldest + 1), Saved(entries, found, oldest),
               Ids(found))
<1> DEFINE a == Saved(entries, found, oldest + 1)
           b == Saved(entries, found, oldest)
<1>1. /\ Grows(entries, a, Ids(found)) /\ Grows(entries, b, Ids(found))
  BY SavedGrows DEF Ids
<1>2. ASSUME NEW m \in Messages
      PROVE  a[m] = b[m] \/ a[m] = entries[m]
  <2>0. m \in Nat
    BY SyncAssumption DEF Messages
  <2>1. CASE m >= oldest + 1
    <3>1. m >= oldest
      BY <2>0, <2>1
    <3>2. \A c \in found : c.id = m => c.id >= oldest + 1 /\ c.id >= oldest
      BY <2>1, <3>1
    <3>3. {c \in found : c.id = m /\ c.id >= oldest + 1} =
            {c \in found : c.id = m /\ c.id >= oldest}
      BY <3>2
    <3> QED BY <3>3 DEF Saved
  <2>2. CASE ~(m >= oldest + 1)
    <3>1. {c \in found : c.id = m /\ c.id >= oldest + 1} = {}
      BY <2>2
    <3> QED BY <3>1 DEF Saved
  <2> QED BY <2>1, <2>2
<1> HIDE DEF a, b
<1>3. ASSUME NEW m \in Messages
      PROVE  /\ Stays(a[m], b[m])
             /\ b[m].cached => a[m].cached \/ m \in Ids(found)
  <2>1. CASE a[m] = b[m]
    BY <2>1 DEF Stays, Keeps
  <2>2. CASE a[m] = entries[m]
    BY <1>1, <2>2 DEF Grows
  <2> QED BY <1>2, <2>1, <2>2
<1>4. b \in [Messages -> Entry]
  BY <1>1 DEF Grows
<1> QED BY <1>3, <1>4 DEF Grows, a, b

\* What every answer does to the client: memory grows by messages that the
\* request has got, in one go or in two with a save in between, or after, that
\* may be written to the file; and the request goes on or ends.
Receipt(s) ==
  /\ UNCHANGED <<table, me, file, unlocked, mine, overlap, torn>>
  /\ gone' \subseteq (Users \cup {NoUser}) \X Messages
  /\ \E kept :
       /\ Grows(cache, kept, Got(call[s])) /\ Grows(kept, cache', Got(call[s]))
       /\ disk' = disk \/ (unlocked /\ disk' = [disk EXCEPT ![file] = kept])
  /\ \E d \in Calls : /\ CallShaped(d) /\ Continues(call[s], d)
                      /\ call' = [call EXCEPT ![s] = d]

\* The next page is asked for.
LEMMA NextPageReceipt ==
  ASSUME TInv, NEW s \in Slots, NextPage(s)
  PROVE  Receipt(s)
<1> DEFINE c == call[s]
           d == [c EXCEPT !.offset = NextOffset(c), !.found = @ \cup c.page,
                          !.page = {}, !.access = AskAs(@), !.answer = "none"]
<1>1. c \in Calls /\ CallShaped(c) /\ me \in Users \cup {NoUser}
  BY DEF TInv, TypeOK
<1>2. NextOffset(c) \in Nat
  BY <1>1, SyncAssumption DEF NextOffset, Calls
<1>3. AskAs(c.access) \in Users \cup {NoUser}
  BY <1>1 DEF AskAs, Calls
<1>4. d \in Calls /\ CallShaped(d) /\ Continues(c, d)
  <2> DEFINE n == NextOffset(c)
             a == AskAs(c.access)
  <2>1. d = [c EXCEPT !.offset = n, !.found = c.found \cup c.page,
                      !.page = {}, !.access = a, !.answer = "none"]
    BY <1>1 DEF Calls
  <2>2. n \in Nat /\ a \in Users \cup {NoUser}
    BY <1>2, <1>3
  <2> HIDE DEF n, a, d
  <2>3. /\ d \in Calls /\ d.op = c.op /\ d.lists = c.lists /\ d.id = c.id
        /\ d.peer = c.peer /\ d.access = a
        /\ d.found \cup d.page = c.found \cup c.page
    BY <1>1, <2>1, <2>2 DEF Calls
  <2> QED BY <1>1, <2>3 DEF CallShaped, Continues, a
<1>5. call' = [call EXCEPT ![s] = d]
  BY DEF NextPage
<1>6. UNCHANGED <<table, me, file, unlocked, mine, overlap, torn, gone>>
      /\ disk' = disk /\ cache' = cache
  BY DEF NextPage, client
<1>7. Grows(cache, cache, Got(c))
  BY SameGrows DEF TInv, TypeOK
<1> HIDE DEF d, c
<1>8. gone' \subseteq (Users \cup {NoUser}) \X Messages
  BY <1>6 DEF TInv, TypeOK
<1> QED BY <1>4, <1>5, <1>6, <1>7, <1>8 DEF Receipt, c

\* The versions of the cache that a list's last page saves, one after the other:
\* some of its messages, all of them, marked, and marked read.
LEMMA ListGrows ==
  ASSUME TInv, NEW c \in Calls, NEW oldest \in Nat, NEW opens
  PROVE  LET saved == Saved(cache, Collected(c), oldest)
             part == Saved(cache, Collected(c), oldest + 1)
             after == AfterList(c, oldest)
             opened == Opened(c, after, opens)
         IN /\ Grows(cache, part, Got(c)) /\ Grows(part, opened, Got(c))
            /\ Grows(cache, after, Got(c)) /\ Grows(after, opened, Got(c))
            /\ Grows(cache, opened, Got(c)) /\ Grows(opened, opened, Got(c))
<1>1. PICK found \in SUBSET Copies : found = Collected(c)
  BY DEF Calls, Collected
<1>2. PICK G : G = Got(c)
  OBVIOUS
<1>3. G = Ids(found) /\ G = {x.id : x \in found}
  BY <1>1, <1>2 DEF Got, Collected, Ids
<1>4. PICK entries \in [Messages -> Entry] : entries = cache
  BY DEF TInv, TypeOK
<1>5. PICK part : part = Saved(entries, found, oldest + 1)
  OBVIOUS
<1>6. PICK saved : saved = Saved(entries, found, oldest)
  OBVIOUS
<1>7. /\ Grows(entries, part, G) /\ Grows(entries, saved, G)
  BY <1>3, <1>5, <1>6, SavedGrows
<1>8. Grows(part, saved, G)
  BY <1>3, <1>5, <1>6, SavedMore
<1>9. PICK after : after = AfterList(c, oldest)
  OBVIOUS
<1>10. saved \in [Messages -> Entry]
  BY <1>7 DEF Grows
<1>11. after = Reconciled(me, Head(c.lists), saved, Ids(found))
  BY <1>1, <1>4, <1>6, <1>9 DEF AfterList
<1>12. Grows(saved, after, {})
  BY <1>10, <1>11, ReconciledGrows
<1>13. after \in [Messages -> Entry]
  BY <1>12 DEF Grows
<1>14. PICK opened : opened = Opened(c, after, opens)
  OBVIOUS
<1>15. Grows(after, opened, {})
  <2>1. CASE opens
    BY <1>13, <1>14, <2>1, MarkedReadGrows DEF Opened
  <2>2. CASE ~opens
    BY <1>13, <1>14, <2>2, SameGrows DEF Opened
  <2> QED BY <2>1, <2>2
<1>16. opened \in [Messages -> Entry]
  BY <1>15 DEF Grows
<1>17. Grows(saved, opened, {} \cup {})
  BY <1>12, <1>15, GrowsOn
<1>18. /\ Grows(part, opened, G \cup ({} \cup {}))
       /\ Grows(entries, after, G \cup {})
       /\ Grows(entries, opened, G \cup ({} \cup {}))
  BY <1>7, <1>8, <1>12, <1>17, GrowsOn
<1>19. G \cup {} = G /\ G \cup ({} \cup {}) = G
  OBVIOUS
<1>20. Grows(after, opened, G) /\ Grows(opened, opened, G)
  BY <1>15, <1>16, SameGrows DEF Grows
<1>21. /\ Grows(part, opened, G) /\ Grows(entries, after, G)
       /\ Grows(entries, opened, G)
  BY <1>18, <1>19
<1> QED
  BY <1>1, <1>2, <1>4, <1>5, <1>6, <1>7, <1>9, <1>14, <1>20, <1>21, Zenon

\* Where saveMessages stops is a message of the list, or none; what it has saved
\* by then it could save.
LEMMA StopsWithin ==
  ASSUME TInv, NEW c \in Calls, NEW oldest, StopsAt(Collected(c), oldest)
  PROVE  /\ oldest \in Nat
         /\ \/ FilesAfter(Collected(c), oldest) = disk
            \/ /\ unlocked
               /\ FilesAfter(Collected(c), oldest) = [disk EXCEPT
                    ![file] = Saved(cache, Collected(c), oldest + 1)]
<1>1. Ids(Collected(c)) \subseteq Nat
  BY SyncAssumption DEF Ids, Collected, Calls, Copies, Messages
<1>2. oldest \in Nat
  BY <1>1 DEF StopsAt
<1>3. CASE \A n \in Ids(Collected(c)) : n <= oldest
  BY <1>2, <1>3 DEF FilesAfter
<1>4. CASE ~(\A n \in Ids(Collected(c)) : n <= oldest)
  <2>1. unlocked
    BY <1>4 DEF StopsAt, Ids
  <2> QED BY <1>2, <1>4, <2>1 DEF FilesAfter
<1> QED BY <1>3, <1>4

\* What the last page does to memory and to the files.
LEMMA LastPageSaves ==
  ASSUME TInv, NEW s \in Slots, NEW oldest, LastPage(s, oldest)
  PROVE  /\ call[s] \in Calls /\ oldest \in Nat
         /\ \E opens \in BOOLEAN :
              LET c == call[s]
                  part == Saved(cache, Collected(c), oldest + 1)
                  after == AfterList(c, oldest)
                  opened == Opened(c, after, opens)
              IN /\ cache' = opened
                 /\ \/ /\ gone' = gone
                       /\ \/ disk' = disk
                          \/ unlocked /\ disk' = [disk EXCEPT ![file] = part]
                    \/ /\ gone' = gone \cup ({c.access} \X c.before)
                       /\ unlocked
                       /\ \/ disk' = [disk EXCEPT ![file] = opened]
                          \/ disk' = [disk EXCEPT ![file] = after]
<1>1. PICK c : c = call[s]
  OBVIOUS
<1>2. c \in Calls /\ StopsAt(Collected(c), oldest)
  BY <1>1 DEF LastPage, TInv, TypeOK
<1>3. PICK after : after = AfterList(c, oldest)
  OBVIOUS
<1>4. PICK more : more = Tail(c.lists)
  OBVIOUS
<1>5. PICK opens \in {FALSE, more = <<>> /\ Opens(c, after)} :
        LET opened == Opened(c, after, opens) IN
        /\ cache' = opened
        /\ \/ /\ SaveFails /\ disk' = FilesAfter(Collected(c), oldest)
              /\ gone' = gone
           \/ /\ Writes(opened) \/ (SavesFail /\ Writes(after))
              /\ gone' = gone \cup ({c.access} \X c.before)
  BY <1>1, <1>3, <1>4 DEF LastPage
<1>6. opens \in BOOLEAN
  BY <1>5
<1>7. PICK opened : opened = Opened(c, after, opens)
  OBVIOUS
<1>8. PICK part : part = Saved(cache, Collected(c), oldest + 1)
  OBVIOUS
<1>9. /\ oldest \in Nat
      /\ \/ FilesAfter(Collected(c), oldest) = disk
         \/ /\ unlocked
            /\ FilesAfter(Collected(c), oldest) = [disk EXCEPT ![file] = part]
  BY <1>2, <1>8, StopsWithin
<1>10. /\ cache' = opened
       /\ \/ /\ gone' = gone
             /\ \/ disk' = disk
                \/ unlocked /\ disk' = [disk EXCEPT ![file] = part]
          \/ /\ gone' = gone \cup ({c.access} \X c.before)
             /\ unlocked
             /\ \/ disk' = [disk EXCEPT ![file] = opened]
                \/ disk' = [disk EXCEPT ![file] = after]
  BY <1>5, <1>7, <1>9 DEF Writes
<1> QED BY <1>1, <1>2, <1>3, <1>6, <1>7, <1>8, <1>9, <1>10, Zenon

\* A list is in: saved, reconciled and perhaps marked read.
LEMMA LastPageReceipt ==
  ASSUME TInv, NEW s \in Slots, NEW oldest, LastPage(s, oldest)
  PROVE  Receipt(s)
<1>1. PICK c : c = call[s]
  OBVIOUS
<1>2. PICK more : more = Tail(c.lists)
  OBVIOUS
<1>3. PICK d : d = IF more = <<>> THEN Idle ELSE FirstPage(c, more, AccessToken)
  OBVIOUS
<1>4. c \in Calls /\ CallShaped(c) /\ me \in Users \cup {NoUser}
      /\ c.op \in {"list", "read"}
  BY <1>1 DEF LastPage, Received, TInv, TypeOK
<1>5. call' = [call EXCEPT ![s] = d]
      /\ UNCHANGED <<table, me, file, unlocked, mine, overlap, torn>>
  BY <1>1, <1>2, <1>3 DEF LastPage
<1>6. oldest \in Nat
  BY LastPageSaves
<1>7. PICK opens \in BOOLEAN :
        LET part == Saved(cache, Collected(c), oldest + 1)
            after == AfterList(c, oldest)
            opened == Opened(c, after, opens)
        IN /\ cache' = opened
           /\ \/ /\ gone' = gone
                 /\ \/ disk' = disk
                    \/ unlocked /\ disk' = [disk EXCEPT ![file] = part]
              \/ /\ gone' = gone \cup ({c.access} \X c.before)
                 /\ unlocked
                 /\ \/ disk' = [disk EXCEPT ![file] = opened]
                    \/ disk' = [disk EXCEPT ![file] = after]
  BY <1>1, LastPageSaves
<1>8. PICK part, after, opened :
        /\ part = Saved(cache, Collected(c), oldest + 1)
        /\ after = AfterList(c, oldest)
        /\ opened = Opened(c, after, opens)
  OBVIOUS
<1>9. /\ Grows(cache, part, Got(c)) /\ Grows(part, opened, Got(c))
      /\ Grows(cache, after, Got(c)) /\ Grows(after, opened, Got(c))
      /\ Grows(cache, opened, Got(c)) /\ Grows(opened, opened, Got(c))
  BY <1>4, <1>6, <1>8, ListGrows
<1>10. \E kept :
         /\ Grows(cache, kept, Got(c)) /\ Grows(kept, cache', Got(c))
         /\ disk' = disk \/ (unlocked /\ disk' = [disk EXCEPT ![file] = kept])
  BY <1>7, <1>8, <1>9
<1>11. d \in Calls /\ CallShaped(d) /\ Continues(c, d)
  <2>1. CASE more = <<>>
    BY <1>3, <2>1, IdleShaped DEF Continues
  <2>2. CASE more # <<>>
    <3>1. more \in Seq(Directions)
      BY <1>2, <1>4, HeadTailProperties DEF Calls, CallShaped
    <3>2. AccessToken \in Users \cup {NoUser} /\ AccessToken = me
      BY <1>4 DEF AccessToken
    <3>3. d = FirstPage(c, more, AccessToken)
      BY <1>3, <2>2
    <3>4. /\ d \in Calls /\ CallShaped(d)
          /\ d.access = me /\ d.found = {} /\ d.page = {}
      BY <1>4, <2>2, <3>1, <3>2, <3>3, FirstPageShaped DEF TInv
    <3> QED BY <3>4 DEF Continues
  <2> QED BY <2>1, <2>2
<1>12. gone' \subseteq (Users \cup {NoUser}) \X Messages
  <2>1. gone' = gone \/ gone' = gone \cup ({c.access} \X c.before)
    BY <1>7
  <2> QED BY <1>4, <2>1 DEF Calls, TInv, TypeOK
<1> QED BY <1>1, <1>5, <1>10, <1>11, <1>12 DEF Receipt

\* The message of the answer is saved.
LEMMA MessageReceipt ==
  ASSUME TInv, NEW s \in Slots, ReceiveMessage(s)
  PROVE  Receipt(s)
<1> DEFINE c == call[s]
<1>1. c \in Calls /\ cache \in [Messages -> Entry]
  BY DEF TInv, TypeOK
<1>2. PICK x \in c.page :
        cache' = [cache EXCEPT ![x.id] = Merge(@, x.hidden, c.op # "revoke")]
  BY DEF ReceiveMessage
<1>3. x \in Copies
  BY <1>1 DEF Calls
<1>4. x.id \in Messages /\ x.hidden \in SUBSET Columns /\ x.id \in Got(c)
  BY <1>3 DEF Copies, Got
<1> DEFINE e == Merge(cache[x.id], x.hidden, c.op # "revoke")
<1>5. e \in Entry /\ Stays(cache[x.id], e)
  <2>1. cache[x.id] \in Entry /\ (c.op # "revoke") \in BOOLEAN
    BY <1>1, <1>4
  <2> QED BY <1>4, <2>1, MergeKeeps
<1>6. cache' = [cache EXCEPT ![x.id] = e]
  BY <1>1, <1>2
<1>7. Grows(cache, cache', Got(c))
  <2> HIDE DEF e
  <2> QED BY <1>1, <1>4, <1>5, <1>6, EntryGrows
<1>8. Grows(cache', cache', Got(c))
  <2>1. cache' \in [Messages -> Entry]
    BY <1>7 DEF Grows
  <2> QED BY <2>1, SameGrows
<1>9. disk' = disk \/ (unlocked /\ disk' = [disk EXCEPT ![file] = cache'])
  BY DEF ReceiveMessage, Saves, Writes
<1>10. call' = [call EXCEPT ![s] = Idle] /\ Continues(c, Idle)
       /\ UNCHANGED <<table, me, file, unlocked, gone, mine, overlap, torn>>
  BY DEF ReceiveMessage, Continues
<1>11. gone' \subseteq (Users \cup {NoUser}) \X Messages
  BY <1>10 DEF TInv, TypeOK
<1> HIDE DEF c
<1> QED BY <1>7, <1>8, <1>9, <1>10, <1>11, IdleShaped DEF Receipt, c

\* The message is marked deleted, unless it is not cached.
LEMMA DeleteReceipt ==
  ASSUME TInv, NEW s \in Slots, ReceiveDelete(s)
  PROVE  Receipt(s)
<1> DEFINE c == call[s]
           old == cache[c.id]
           marks == DeletedMark(me, c.id)
           e == [old EXCEPT !.tombs = @ \cup marks]
<1>1. /\ cache \in [Messages -> Entry]
      /\ c.id \in Messages /\ c.access \in Users \cup {NoUser}
  BY DEF TInv, TypeOK, ReceiveDelete, Received, CallShaped, Calls
<1>2. marks \in SUBSET Tombstones
  BY DEF DeletedMark, Tombstones, Columns
<1>3. old \in Entry
  BY <1>1
<1>4. \/ ~old.cached /\ UNCHANGED <<cache, disk>>
      \/ /\ old.cached /\ cache' = [cache EXCEPT ![c.id].tombs = @ \cup marks]
         /\ disk' = disk \/ (unlocked /\ disk' = [disk EXCEPT ![file] = cache'])
  BY DEF ReceiveDelete, Writes
<1>5. e \in Entry /\ (old.cached => Stays(old, e)) /\ (e.cached => old.cached)
  <2> HIDE DEF marks, old
  <2> QED BY <1>2, <1>3 DEF Entry, Stays, Keeps
<1>6. Grows(cache, cache', Got(c))
  <2>1. CASE ~old.cached
    BY <1>1, <1>4, <2>1, SameGrows
  <2>2. CASE old.cached
    <3> HIDE DEF marks
    <3>1. cache' = [cache EXCEPT ![c.id] = e]
      BY <1>1, <1>4, <2>2
    <3> HIDE DEF e
    <3> QED BY <1>1, <1>5, <2>2, <3>1, EntryGrows
  <2> QED BY <2>1, <2>2
<1>7. Grows(cache', cache', Got(c))
  <2>1. cache' \in [Messages -> Entry]
    BY <1>6 DEF Grows
  <2> QED BY <2>1, SameGrows
<1>8. disk' = disk \/ (unlocked /\ disk' = [disk EXCEPT ![file] = cache'])
  BY <1>4
<1>9. call' = [call EXCEPT ![s] = Idle] /\ Continues(c, Idle)
      /\ UNCHANGED <<table, me, file, unlocked, mine, overlap, torn>>
  BY DEF ReceiveDelete, Continues
<1>10. gone' \subseteq (Users \cup {NoUser}) \X Messages
  BY <1>1 DEF ReceiveDelete, TInv, TypeOK
<1> HIDE DEF c
<1> QED BY <1>6, <1>7, <1>8, <1>9, <1>10, IdleShaped DEF Receipt, c

\* Every answer that is handled.
LEMMA ReceiveReceipt ==
  ASSUME TInv, NEW s \in Slots, Receive(s)
  PROVE  Receipt(s)
BY NextPageReceipt, LastPageReceipt, MessageReceipt, DeleteReceipt DEF Receive

-----------------------------------------------------------------------------
(* Types *)

\* Other clients change the table.
LEMMA OthersTyped ==
  ASSUME TInv, NEW u \in Users, NEW v \in Users, NEW m \in Messages,
         NEW column \in Columns, Post(u, v) \/ Hide(u, m, column)
  PROVE  TInv'
<1>1. call' = Stirred /\ UNCHANGED <<client, gone, mine, overlap, torn>>
  BY DEF Post, Hide
<1>2. call' \in [Slots -> Calls] /\ \A t \in Slots : CallShaped(call'[t])
  BY <1>1, StirredShaped DEF TInv
<1>3. table' \in Seq(Row) /\ Len(table') <= MaxMessages
  <2>1. CASE Post(u, v)
    <3>1. [from |-> u, to |-> v, hidden |-> {}] \in Row
      BY DEF Row
    <3> QED BY <2>1, <3>1, RowAppended DEF Post, TInv
  <2>2. CASE Hide(u, m, column)
    <3>1. m \in Stored /\ {column} \in SUBSET Columns
      BY <2>2 DEF Hide
    <3> QED BY <2>2, <3>1, RowHidden DEF Hide, TInv, TypeOK
  <2> QED BY <2>1, <2>2
<1>4. mine' \subseteq Messages
  BY <1>1 DEF TInv, TypeOK
<1> QED BY <1>1, <1>2, <1>3, <1>4, TableTyped

\* The answers keep the types.
LEMMA ReceiptTyped ==
  ASSUME TInv, NEW s \in Slots, Receipt(s)
  PROVE  TInv'
<1>1. PICK kept :
        /\ Grows(cache, kept, Got(call[s])) /\ Grows(kept, cache', Got(call[s]))
        /\ disk' = disk \/ (unlocked /\ disk' = [disk EXCEPT ![file] = kept])
  BY DEF Receipt
<1>2. cache' \in [Messages -> Entry] /\ disk' \in [Users -> [Messages -> Entry]]
  BY <1>1 DEF Grows, TInv, TypeOK
<1>3. call' \in [Slots -> Calls] /\ \A t \in Slots : CallShaped(call'[t])
  BY CallUpdated DEF Receipt
<1> QED BY <1>2, <1>3 DEF Receipt, TInv, TypeOK

\* Nothing cached, and no call.
LEMMA NothingTyped ==
  /\ NothingCached \in [Messages -> Entry]
  /\ \A m \in Messages : ~NothingCached[m].cached /\ NothingCached[m].tombs = {}
<1>1. NoEntry \in Entry /\ ~NoEntry.cached /\ NoEntry.tombs = {}
  BY DEF NoEntry, Entry, Tombstones
<1> QED BY <1>1 DEF NothingCached

\* Somebody signs in or out, something else is saved, or the program restarts.
LEMMA AccountTyped ==
  ASSUME TInv,
         \/ \E u \in Users : SignIn(u) \/ SignInFails(u)
         \/ SignOut \/ SaveOther \/ Restart
  PROVE  TInv'
<1>1. \A u \in Users : disk[u] \in [Messages -> Entry]
  BY DEF TInv, TypeOK
<1>2. ASSUME NEW u \in Users, SignIn(u)
      PROVE  TInv'
  BY <1>1, <1>2 DEF SignIn, FileFor, Reloaded, TInv, TypeOK
<1>3. ASSUME NEW u \in Users, SignInFails(u)
      PROVE  TInv'
  BY <1>3, NothingTyped DEF SignInFails, FileFor, TInv, TypeOK
<1>4. CASE SignOut
  BY <1>4 DEF SignOut, Writes, TInv, TypeOK
<1>5. CASE SaveOther
  BY <1>5 DEF SaveOther, Writes, TInv, TypeOK
<1>6. CASE Restart
  <2>1. call' \in [Slots -> Calls] /\ \A s \in Slots : CallShaped(call'[s])
    BY <1>6, IdleShaped DEF Restart
  <2>2. cache' \in [Messages -> Entry] /\ me' \in Users \cup {NoUser}
        /\ unlocked' \in BOOLEAN
    BY <1>1, <1>6, NothingTyped DEF Restart, TInv, TypeOK
  <2> QED BY <1>6, <2>1, <2>2 DEF Restart, TInv, TypeOK
<1> QED BY <1>2, <1>3, <1>4, <1>5, <1>6

\* Every step keeps the types.
LEMMA StepTyped ==
  ASSUME TInv, [Next]_vars
  PROVE  TInv'
<1>1. ASSUME NEW s \in Slots, Command(s)
      PROVE  TInv'
  BY <1>1, CommandBegins, BeginTyped
<1>2. ASSUME NEW s \in Slots, Serve(s) \/ Fails(s)
      PROVE  TInv'
  BY <1>2, ServeTyped
<1>3. ASSUME NEW s \in Slots, Receive(s)
      PROVE  TInv'
  BY <1>3, ReceiveReceipt, ReceiptTyped
<1>4. ASSUME NEW u \in Users, NEW v \in Users, Post(u, v)
      PROVE  TInv'
  <2>1. "senderDeleted" \in Columns
    BY DEF Columns
  <2>2. 1 \in Messages
    BY <1>4, StoredMessages, SyncAssumption DEF Post, TInv, Messages
  <2> QED BY <1>4, <2>1, <2>2, OthersTyped
<1>5. ASSUME NEW u \in Users, NEW m \in Messages, NEW column \in Columns,
             Hide(u, m, column)
      PROVE  TInv'
  BY <1>5, OthersTyped
<1>6. CASE UNCHANGED vars
  BY <1>6 DEF vars, client, TInv, TypeOK, Stored
<1> QED
  BY <1>1, <1>2, <1>3, <1>4, <1>5, <1>6, AccountTyped DEF Next

\* The initial state.
LEMMA InitTyped ==
  ASSUME Init
  PROVE  TInv
<1>1. <<>> \in Seq(Row) /\ Len(<<>>) = 0
  BY EmptySeq
<1>2. Idle \in Calls /\ CallShaped(Idle)
  BY IdleShaped
<1>3. cache \in [Messages -> Entry] /\ disk \in [Users -> [Messages -> Entry]]
  BY NothingTyped DEF Init
<1>4. call \in [Slots -> Calls] /\ \A s \in Slots : CallShaped(call[s])
  BY <1>2 DEF Init
<1>5. table \in Seq(Row) /\ Len(table) <= MaxMessages
  BY <1>1, SyncAssumption DEF Init
<1> QED
  BY <1>3, <1>4, <1>5 DEF Init, TInv, TypeOK

\* Every variable keeps its type, whatever the requests and other clients do.
THEOREM TypeCorrect == Spec => []TypeOK
<1>1. TInv => TypeOK
  BY DEF TInv
<1> QED BY <1>1, InitTyped, StepTyped, PTL DEF Spec

-----------------------------------------------------------------------------
(* No file forgets, and memory only when it is read again *)

\* What KeptForever says of a step.
FilesKept == \A u \in Users, m \in Messages : Keeps(disk[u][m], disk'[u][m])
MemoryKept == \A m \in Messages : Keeps(cache[m], cache'[m])
NothingLost == ~torn' => FilesKept /\ (Reloads \/ MemoryKept)

\* Keeps is a preorder.
LEMMA KeepsOn ==
  /\ \A e : Keeps(e, e)
  /\ \A e, f, g : Keeps(e, f) /\ Keeps(f, g) => Keeps(e, g)
BY DEF Keeps

\* What memory has is written to the file that is open: it was ahead of it.
LEMMA WriteKeeps ==
  ASSUME TInv, NEW kept, disk' = [disk EXCEPT ![file] = kept],
         \A m \in Messages : Keeps(disk[file][m], kept[m])
  PROVE  FilesKept /\ disk'[file] = kept
<1>1. disk \in [Users -> [Messages -> Entry]] /\ file \in Users
  BY DEF TInv, TypeOK
<1>2. \A u \in Users : disk'[u] = IF u = file THEN kept ELSE disk[u]
  BY <1>1
<1> QED BY <1>1, <1>2, KeepsOn DEF FilesKept

\* An answer: a save writes memory as it was, or with more.
LEMMA ReceiptAhead ==
  ASSUME TInv, MemoryAhead, NEW s \in Slots, Receipt(s)
  PROVE  MemoryAhead' /\ NothingLost
<1>1. PICK kept :
        /\ Grows(cache, kept, Got(call[s])) /\ Grows(kept, cache', Got(call[s]))
        /\ disk' = disk \/ (unlocked /\ disk' = [disk EXCEPT ![file] = kept])
  BY DEF Receipt
<1>2. UNCHANGED <<me, file, unlocked, torn>>
  BY DEF Receipt
<1>3. \A m \in Messages :
        Keeps(cache[m], kept[m]) /\ Keeps(kept[m], cache'[m])
  BY <1>1 DEF Grows, Stays
<1>4. MemoryKept
  BY <1>3, KeepsOn DEF MemoryKept
<1> SUFFICES ASSUME ~torn
             PROVE  MemoryAhead' /\ FilesKept
  BY <1>2, <1>4 DEF MemoryAhead, NothingLost
<1>5. unlocked => \A m \in Messages : Keeps(disk[file][m], cache[m])
  BY DEF MemoryAhead
<1>6. CASE disk' = disk
  <2>1. FilesKept
    BY <1>6, KeepsOn DEF FilesKept
  <2>2. unlocked => \A m \in Messages : Keeps(disk'[file][m], cache'[m])
    BY <1>4, <1>5, <1>6, KeepsOn DEF MemoryKept
  <2> QED BY <1>2, <2>1, <2>2 DEF MemoryAhead
<1>7. CASE unlocked /\ disk' = [disk EXCEPT ![file] = kept]
  <2>1. \A m \in Messages : Keeps(disk[file][m], kept[m])
    BY <1>3, <1>5, <1>7, KeepsOn
  <2>2. FilesKept /\ disk'[file] = kept
    BY <1>7, <2>1, WriteKeeps
  <2> QED BY <1>2, <1>3, <2>2 DEF MemoryAhead
<1> QED BY <1>1, <1>6, <1>7

\* Somebody signs in or out, something else is saved, or the program restarts:
\* memory is read from the file, or written to it.
LEMMA AccountAhead ==
  ASSUME TInv, MemoryAhead,
         \/ \E u \in Users : SignIn(u) \/ SignInFails(u)
         \/ SignOut \/ SaveOther \/ Restart
  PROVE  MemoryAhead' /\ NothingLost
<1>1. ASSUME disk' = disk
      PROVE  FilesKept
  BY <1>1, KeepsOn DEF FilesKept
<1>2. ASSUME NEW u \in Users, SignIn(u)
      PROVE  MemoryAhead' /\ NothingLost
  <2>1. /\ disk' = disk /\ cache' = disk'[file'] /\ file' = u /\ me' = u
        /\ unlocked'
    BY <1>2 DEF SignIn, Reloaded, FileFor
  <2>2. MemoryAhead'
    BY <2>1, KeepsOn DEF MemoryAhead
  <2> QED BY <1>1, <1>2, <2>1, <2>2 DEF NothingLost, Reloads
<1>3. ASSUME NEW u \in Users, SignInFails(u)
      PROVE  MemoryAhead' /\ NothingLost
  BY <1>3 DEF SignInFails, MemoryAhead, NothingLost
<1>4. ASSUME SignOut \/ SaveOther
      PROVE  MemoryAhead' /\ NothingLost
  <2>1. UNCHANGED <<file, cache, torn>> /\ (unlocked' => unlocked)
        /\ (me' # NoUser => me' = me /\ unlocked' = unlocked)
    BY <1>4 DEF SignOut, SaveOther, TInv, TypeOK
  <2>2. disk' = disk \/ (unlocked /\ disk' = [disk EXCEPT ![file] = cache])
    BY <1>4 DEF SignOut, SaveOther, Writes
  <2>3. MemoryKept
    BY <2>1, KeepsOn DEF MemoryKept
  <2> SUFFICES ASSUME ~torn
               PROVE  MemoryAhead' /\ FilesKept
    BY <2>1, <2>3 DEF MemoryAhead, NothingLost
  <2>4. unlocked => \A m \in Messages : Keeps(disk[file][m], cache[m])
    BY DEF MemoryAhead
  <2>5. CASE disk' = disk
    BY <1>1, <2>1, <2>4, <2>5 DEF MemoryAhead
  <2>6. CASE unlocked /\ disk' = [disk EXCEPT ![file] = cache]
    <3>1. FilesKept /\ disk'[file] = cache
      BY <2>4, <2>6, WriteKeeps
    <3> QED BY <2>1, <3>1, KeepsOn DEF MemoryAhead
  <2> QED BY <2>2, <2>5, <2>6
<1>5. CASE Restart
  <2>1. /\ UNCHANGED <<disk, file, torn>>
        /\ unlocked' => cache' = disk'[file']
        /\ me' # NoUser => file' = me' /\ unlocked'
    BY <1>5 DEF Restart
  <2>2. MemoryAhead'
    BY <2>1, KeepsOn DEF MemoryAhead
  <2> QED BY <1>1, <1>5, <2>1, <2>2 DEF NothingLost, Reloads
<1> QED BY <1>2, <1>3, <1>4, <1>5

\* Every step keeps memory ahead of the file, and loses nothing.
LEMMA StepAhead ==
  ASSUME TInv, MemoryAhead, [Next]_vars
  PROVE  MemoryAhead' /\ NothingLost
<1>1. ASSUME UNCHANGED <<client, torn>>
      PROVE  MemoryAhead' /\ NothingLost
  <2>1. FilesKept /\ MemoryKept
    BY <1>1, KeepsOn DEF client, FilesKept, MemoryKept
  <2> QED BY <1>1, <2>1 DEF client, MemoryAhead, NothingLost
<1>2. ASSUME NEW s \in Slots, Command(s)
      PROVE  MemoryAhead' /\ NothingLost
  BY <1>1, <1>2, CommandBegins DEF Begin
<1>3. ASSUME NEW s \in Slots, Serve(s) \/ Fails(s)
      PROVE  MemoryAhead' /\ NothingLost
  <2>1. UNCHANGED <<client, torn>>
    BY <1>3 DEF Serve, ServePage, ServeRevoke, ServeDelete, ServeSend, Fails
  <2> QED BY <1>1, <2>1
<1>4. ASSUME NEW s \in Slots, Receive(s)
      PROVE  MemoryAhead' /\ NothingLost
  BY <1>4, ReceiveReceipt, ReceiptAhead
<1>5. ASSUME NEW u \in Users, NEW v \in Users, Post(u, v)
      PROVE  MemoryAhead' /\ NothingLost
  BY <1>1, <1>5 DEF Post
<1>6. ASSUME NEW u \in Users, NEW m \in Messages, NEW column \in Columns,
             Hide(u, m, column)
      PROVE  MemoryAhead' /\ NothingLost
  BY <1>1, <1>6 DEF Hide
<1>7. CASE UNCHANGED vars
  BY <1>1, <1>7 DEF vars, client
<1> QED
  BY <1>2, <1>3, <1>4, <1>5, <1>6, <1>7, AccountAhead DEF Next

\* At first memory and the files are empty.
LEMMA InitAhead ==
  ASSUME Init
  PROVE  MemoryAhead
BY KeepsOn DEF Init, MemoryAhead

\* Unless a login has failed halfway: no file loses a deletion, a revocation, a
\* sender copy, a read mark or a message, although every save writes all of
\* memory over it and saves may fail; memory loses them only when it is read
\* again (saveMessage, reconcileVisibleMessages, save, load).
THEOREM NothingForgotten == Spec => KeptForever
<1>1. ASSUME TInv, MemoryAhead, [Next]_vars
      PROVE  [~torn' =>
                /\ \A u \in Users, m \in Messages :
                     Keeps(disk[u][m], disk'[u][m])
                /\ \/ Reloads
                   \/ \A m \in Messages : Keeps(cache[m], cache'[m])]_vars
  BY <1>1, StepAhead DEF NothingLost, FilesKept, MemoryKept
<1> QED
  BY <1>1, InitTyped, InitAhead, StepTyped, StepAhead, PTL DEF Spec, KeptForever

-----------------------------------------------------------------------------
(* A file holds the account's own messages *)

\* What SInv says as long as commands do not overlap.
Apart ==
  /\ \A s, t \in InFlight : s = t
  /\ \A s \in InFlight : CallOwn(call[s])
  /\ \A u \in Users, m \in Messages : Has(u, m) => Involves(u, m)

Own == (torn => overlap) /\ (~overlap => Apart)

\* The three parts in which the invariant is proved.
LEMMA SInvParts == SInv <=> TInv /\ MemoryAhead /\ Own
BY DEF SInv, TInv, MemoryAhead, Own, Apart

\* No message changes its sender or recipient.
InvolvesKept ==
  \A u \in Users \cup {NoUser}, m \in Messages :
    Involves(u, m) => Involves(u, m)'

\* The rows of the table keep their accounts.
LEMMA RowsInvolve ==
  ASSUME TInv, Stored \subseteq Stored',
         \A n \in Stored : table'[n].from = table[n].from
                           /\ table'[n].to = table[n].to
  PROVE  InvolvesKept
BY DEF InvolvesKept, Involves

\* So do its rows when the table stays as it is.
LEMMA SameRowsInvolve ==
  ASSUME TInv, table' = table
  PROVE  InvolvesKept
BY DEF InvolvesKept, Involves, Stored

\* Nobody signed out is the sender or recipient of a message.
LEMMA InvolvedUser ==
  ASSUME TInv, NEW u, NEW m, Involves(u, m)
  PROVE  u \in Users
<1>1. m \in Stored /\ table[m] \in Row
  BY StoredMessages DEF TInv, Involves
<1> QED BY <1>1 DEF Involves, Row

\* Calls go on with messages of the account only, and what is new in the cache
\* is a message of the account: the cache stays its own.
LEMMA OwnGoesOn ==
  ASSUME TInv, MemoryAhead, Own, UNCHANGED <<me, file, overlap, torn>>,
         InvolvesKept,
         ~overlap => \A t \in Slots :
           call'[t] # Idle => call[t] # Idle /\ CallOwn(call[t])',
         ~overlap => \A u \in Users, m \in Messages :
           Has(u, m)' => Has(u, m) \/ (u = file /\ Involves(me, m))
  PROVE  Own'
<1>1. torn' => overlap'
  BY DEF Own
<1> SUFFICES ASSUME ~overlap
             PROVE  Apart'
  BY <1>1 DEF Own
<1>2. Apart
  BY DEF Own
<1>3. InFlight' \subseteq InFlight
  BY DEF InFlight
<1>4. \A s, t \in InFlight' : s = t
  BY <1>2, <1>3 DEF Apart
<1>5. \A s \in InFlight' : CallOwn(call[s])'
  BY DEF InFlight
<1>6. ASSUME NEW u \in Users, NEW m \in Messages, Has(u, m)'
      PROVE  Involves(u, m)'
  <2>1. Has(u, m) \/ (u = file /\ Involves(me, m))
    BY <1>6
  <2>2. Involves(me, m) => file = me
    BY InvolvedUser, SyncAssumption DEF Own, MemoryAhead
  <2>3. Involves(u, m)
    BY <1>2, <2>1, <2>2 DEF Apart
  <2> QED BY <2>3 DEF InvolvesKept
<1>7. \A u \in Users, m \in Messages : Has(u, m)' => Involves(u, m)'
  BY <1>6
<1> QED BY <1>4, <1>5, <1>7 DEF Apart

\* The calls that only the table's change has touched.
LEMMA StirredOwn ==
  ASSUME TInv, MemoryAhead, Own, ~overlap, me' = me, InvolvesKept,
         NEW t \in Slots, call'[t] = Stirred[t], call'[t] # Idle
  PROVE  call[t] # Idle /\ CallOwn(call[t])'
<1>1. Stirred[t] = [call[t] EXCEPT !.quiet = FALSE]
  BY DEF Stirred
<1>2. Idle = [Idle EXCEPT !.quiet = FALSE]
  <2>1. /\ Idle.quiet = FALSE
        /\ Idle = [x \in DOMAIN Idle |-> Idle[x]]
    BY DEF Idle
  <2> HIDE DEF Idle
  <2> QED BY <2>1
<1>3. call[t] # Idle
  BY <1>1, <1>2
<1>4. CallOwn(call[t])
  BY <1>3 DEF Own, Apart, InFlight
<1>5. /\ call'[t].access = call[t].access
      /\ call'[t].found = call[t].found /\ call'[t].page = call[t].page
  BY StirredShaped DEF TInv
<1>6. me \in Users \cup {NoUser} /\ call[t] \in Calls
  BY DEF TInv, TypeOK
<1>7. \A x \in call[t].found \cup call[t].page : x.id \in Messages
  BY <1>6 DEF Calls, Copies
<1>8. \A x \in call'[t].found \cup call'[t].page : Involves(me, x.id)'
  BY <1>4, <1>5, <1>6, <1>7 DEF CallOwn, InvolvesKept
<1> QED BY <1>3, <1>4, <1>5, <1>8 DEF CallOwn

\* A command begins: it is the only one, of the account, and has got nothing.
LEMMA BeginOwn ==
  ASSUME TInv, MemoryAhead, Own, NEW s \in Slots, NEW c \in Calls, Fresh(c),
         Begin(s, c)
  PROVE  Own'
<1>1. /\ UNCHANGED <<table, me, file, cache, disk, torn>>
      /\ call' = [call EXCEPT ![s] = c]
      /\ overlap' = (overlap \/ InFlight # {})
  BY DEF Begin, client
<1>2. torn' => overlap'
  BY <1>1 DEF Own
<1> SUFFICES ASSUME ~overlap'
             PROVE  Apart'
  BY <1>2 DEF Own
<1>3. ~overlap /\ InFlight = {} /\ Apart
  BY <1>1 DEF Own
<1>4. \A t \in Slots : call'[t] = IF t = s THEN c ELSE call[t]
  BY <1>1 DEF TInv, TypeOK
<1>5. InFlight' \subseteq {s}
  BY <1>3, <1>4 DEF InFlight
<1>6. CallOwn(call[s])'
  BY <1>1, <1>4 DEF Fresh, AccessToken, CallOwn
<1>7. InvolvesKept
  BY <1>1, SameRowsInvolve
<1>8. \A u \in Users, m \in Messages : Has(u, m)' => Involves(u, m)'
  BY <1>1, <1>3, <1>7 DEF Apart, InvolvesKept, Has
<1> QED BY <1>5, <1>6, <1>8 DEF Apart

\* An answer brings nothing into memory or into a file but what it has got.
LEMMA ReceiptHas ==
  ASSUME TInv, NEW s \in Slots, Receipt(s), NEW u \in Users, NEW m \in Messages,
         Has(u, m)'
  PROVE  Has(u, m) \/ (u = file /\ m \in Got(call[s]))
<1>1. PICK kept :
        /\ Grows(cache, kept, Got(call[s])) /\ Grows(kept, cache', Got(call[s]))
        /\ disk' = disk \/ (unlocked /\ disk' = [disk EXCEPT ![file] = kept])
  BY DEF Receipt
<1>2. file' = file /\ disk \in [Users -> [Messages -> Entry]]
  BY DEF Receipt, TInv, TypeOK
<1>3. kept[m].cached \/ cache'[m].cached =>
        cache[m].cached \/ m \in Got(call[s])
  BY <1>1 DEF Grows
<1>4. disk'[u][m].cached => disk[u][m].cached \/ (u = file /\ kept[m].cached)
  BY <1>1, <1>2
<1> QED BY <1>2, <1>3, <1>4 DEF Has

\* An answer is handled: the request goes on as the same account.
LEMMA ReceiveOwn ==
  ASSUME TInv, MemoryAhead, Own, NEW s \in Slots, Receive(s)
  PROVE  Own'
<1> DEFINE c == call[s]
<1>1. Receipt(s)
  BY ReceiveReceipt
<1>2. c # Idle
  <2>1. \E op \in {"list", "read", "revoke", "send", "forward", "delete"} :
          Received(s, op)
    BY Zenon DEF Receive, NextPage, LastPage, ReceiveMessage, ReceiveDelete
  <2> QED BY <2>1 DEF Received, Idle
<1>3. UNCHANGED <<table, me, file, overlap, torn>> /\ InvolvesKept
  BY <1>1, SameRowsInvolve DEF Receipt
<1>4. PICK kept :
        /\ Grows(cache, kept, Got(c)) /\ Grows(kept, cache', Got(c))
        /\ disk' = disk \/ (unlocked /\ disk' = [disk EXCEPT ![file] = kept])
  BY <1>1 DEF Receipt
<1>5. PICK d \in Calls : /\ Continues(c, d)
                         /\ call' = [call EXCEPT ![s] = d]
  BY <1>1 DEF Receipt
<1>6. \A t \in Slots : call'[t] = IF t = s THEN d ELSE call[t]
  BY <1>5 DEF TInv, TypeOK
<1>7. \A t \in Slots : \A m : Involves(me, m) => Involves(me, m)'
  BY <1>3 DEF Involves, Stored
<1>8. ~overlap => Apart
  BY DEF Own
<1>9. ASSUME ~overlap, NEW t \in Slots, call'[t] # Idle
      PROVE  call[t] # Idle /\ CallOwn(call[t])'
  <2>1. CASE t = s
    <3>1. CallOwn(c)
      BY <1>2, <1>8, <1>9 DEF Apart, InFlight
    <3>2. d.access = me /\ d.found \cup d.page \subseteq c.found \cup c.page
      BY <1>5, <1>6, <1>9, <2>1, <3>1 DEF Continues, CallOwn, AskAs
    <3>3. \A x \in d.found \cup d.page : Involves(me, x.id)'
      BY <1>7, <2>1, <3>1, <3>2 DEF CallOwn
    <3> QED BY <1>2, <1>3, <1>6, <2>1, <3>2, <3>3 DEF CallOwn
  <2>2. CASE t # s
    <3>1. call'[t] = call[t] /\ CallOwn(call[t])
      BY <1>6, <1>8, <1>9, <2>2 DEF Apart, InFlight
    <3> QED BY <1>3, <1>7, <1>9, <3>1 DEF CallOwn
  <2> QED BY <2>1, <2>2
<1>10. ASSUME ~overlap, NEW u \in Users, NEW m \in Messages, Has(u, m)'
       PROVE  Has(u, m) \/ (u = file /\ Involves(me, m))
  <2>1. Has(u, m) \/ (u = file /\ m \in Got(c))
    BY <1>1, <1>10, ReceiptHas
  <2>2. m \in Got(c) => Involves(me, m)
    BY <1>2, <1>8, <1>10 DEF Apart, InFlight, CallOwn, Got
  <2> QED BY <2>1, <2>2
<1> QED BY <1>3, <1>9, <1>10, OwnGoesOn

\* The page of a list has messages of the account that asks only.
LEMMA ServePageOwn ==
  ASSUME TInv, MemoryAhead, Own, NEW s \in Slots, ServePage(s)
  PROVE  Own'
<1> DEFINE c == call[s]
           p == {CopyOf(m) : m \in Page(c.access, Head(c.lists), c.offset)}
<1>1. UNCHANGED <<table, client, me, file, overlap, torn>> /\ InvolvesKept
  BY SameRowsInvolve DEF ServePage, client
<1>2. c # Idle /\ c \in Calls /\ call \in [Slots -> Calls]
  BY DEF ServePage, Waiting, Idle, TInv, TypeOK
<1>3. call' = [call EXCEPT ![s].answer = "ok", ![s].page = p]
  BY DEF ServePage
<1>4. \A x \in p : Involves(c.access, x.id)
  <2> DEFINE P == Page(c.access, Head(c.lists), c.offset)
  <2>1. \A m \in P : Involves(c.access, m)
    BY DEF Page, Listed, Involves
  <2>2. \A x \in p : \E m \in P : x.id = m
    BY DEF CopyOf
  <2> HIDE DEF p, P
  <2> QED BY <2>1, <2>2
<1> HIDE DEF p
<1>5. \A t \in Slots :
        t # s => call'[t] = call[t]
  BY <1>2, <1>3
<1>6. /\ call'[s].access = c.access /\ call'[s].found = c.found
      /\ call'[s].page = p
  BY <1>2, <1>3 DEF Calls
<1>7. \A m : Involves(me, m) => Involves(me, m)'
  BY <1>1 DEF Involves, Stored
<1>8. ASSUME ~overlap, NEW t \in Slots, call'[t] # Idle
      PROVE  call[t] # Idle /\ CallOwn(call[t])'
  <2>1. call[t] # Idle
    BY <1>2, <1>5, <1>8
  <2>2. CallOwn(call[t])
    BY <1>8, <2>1 DEF Own, Apart, InFlight
  <2>3. CASE t = s
    <3>1. \A x \in c.found \cup p : Involves(me, x.id)'
      BY <1>4, <1>7, <2>2, <2>3 DEF CallOwn
    <3> QED BY <1>1, <1>6, <2>1, <2>2, <2>3, <3>1 DEF CallOwn
  <2>4. CASE t # s
    BY <1>1, <1>5, <1>7, <2>1, <2>2, <2>4 DEF CallOwn
  <2> QED BY <2>3, <2>4
<1>9. \A u, m : Has(u, m)' = Has(u, m)
  BY <1>1 DEF Has, client
<1> QED BY <1>1, <1>8, <1>9, OwnGoesOn

\* The request failed.
LEMMA FailsOwn ==
  ASSUME TInv, MemoryAhead, Own, NEW s \in Slots, Fails(s)
  PROVE  Own'
<1>1. UNCHANGED <<table, client, me, file, overlap, torn>> /\ InvolvesKept
  BY SameRowsInvolve DEF Fails, client
<1>2. \A t \in Slots : call'[t] = IF t = s THEN Idle ELSE call[t]
  BY DEF Fails, TInv, TypeOK
<1>3. \A m : Involves(me, m) => Involves(me, m)'
  BY <1>1 DEF Involves, Stored
<1>4. ASSUME ~overlap, NEW t \in Slots, call'[t] # Idle
      PROVE  call[t] # Idle /\ CallOwn(call[t])'
  <2>1. call'[t] = call[t]
    BY <1>2, <1>4
  <2>2. CallOwn(call[t])
    BY <1>4, <2>1 DEF Own, Apart, InFlight
  <2> QED BY <1>1, <1>3, <1>4, <2>1, <2>2 DEF CallOwn
<1>5. \A u, m : Has(u, m)' = Has(u, m)
  BY <1>1 DEF Has, client
<1> QED BY <1>1, <1>4, <1>5, OwnGoesOn

\* The server changed the table and answered one request with messages of the
\* account that asks, as it had got them or new ones.
LEMMA StirredServeOwn ==
  ASSUME TInv, MemoryAhead, Own, NEW s \in Slots, NEW p \in SUBSET Copies,
         UNCHANGED <<client, overlap, torn>>, InvolvesKept,
         call[s] # Idle,
         call' = [Stirred EXCEPT ![s].answer = "ok", ![s].page = p],
         CallOwn(call[s]) => \A x \in p : Involves(me, x.id)'
  PROVE  Own'
<1>0. UNCHANGED <<me, file, overlap, torn>> /\ \A u, m : Has(u, m)' = Has(u, m)
  BY DEF client, Has
<1>1. Stirred \in [Slots -> Calls]
  BY StirredShaped DEF TInv
<1>2. \A t \in Slots : t # s => call'[t] = Stirred[t]
  BY <1>1
<1>3. /\ call'[s].access = call[s].access /\ call'[s].found = call[s].found
      /\ call'[s].page = p
  <2>1. Stirred[s] \in Calls
    BY <1>1
  <2>2. /\ call'[s].access = Stirred[s].access
        /\ call'[s].found = Stirred[s].found /\ call'[s].page = p
    BY <1>1, <2>1 DEF Calls
  <2> QED BY <2>2, StirredShaped DEF TInv
<1>4. ASSUME ~overlap, NEW t \in Slots, call'[t] # Idle
      PROVE  call[t] # Idle /\ CallOwn(call[t])'
  <2>1. CASE t # s
    BY <1>0, <1>2, <1>4, <2>1, StirredOwn
  <2>2. CASE t = s
    <3>1. CallOwn(call[s])
      BY <1>4 DEF Own, Apart, InFlight
    <3>2. \A x \in call[s].found : x.id \in Messages
      BY DEF TInv, TypeOK, Calls, Copies
    <3>3. \A x \in call[s].found : Involves(me, x.id)'
      BY <1>0, <3>1, <3>2 DEF CallOwn, InvolvesKept, TInv, TypeOK
    <3>4. \A x \in call'[s].found \cup call'[s].page : Involves(me, x.id)'
      BY <1>3, <3>1, <3>3
    <3>5. call'[s].access = me'
      BY <1>0, <1>3, <3>1 DEF CallOwn
    <3> QED BY <2>2, <3>4, <3>5 DEF CallOwn
  <2> QED BY <2>1, <2>2
<1> QED BY <1>0, <1>4, OwnGoesOn

\* The server revokes, deletes or sends.
LEMMA ServeOwn ==
  ASSUME TInv, MemoryAhead, Own, NEW s \in Slots,
         ServeRevoke(s) \/ ServeDelete(s) \/ ServeSend(s)
  PROVE  Own'
<1> DEFINE c == call[s]
<1>0. c \in Calls /\ CallShaped(c) /\ c # Idle /\ me \in Users \cup {NoUser}
  BY DEF ServeRevoke, ServeDelete, ServeSend, Waiting, Idle, TInv, TypeOK
<1>1. CASE ServeRevoke(s)
  <2> DEFINE copy == [CopyOf(c.id) EXCEPT !.hidden = @ \cup {"accessRevoked"}]
  <2>1. c.id \in Stored /\ table[c.id].from = c.access
        /\ UNCHANGED <<client, overlap, torn>>
    BY <1>1 DEF ServeRevoke, client
  <2>2. Stored' = Stored
        /\ \A n \in Stored : table'[n].from = table[n].from
                             /\ table'[n].to = table[n].to
    BY <1>1, <2>1, RowHidden DEF ServeRevoke, TInv, Columns
  <2>3. {copy} \in SUBSET Copies /\ copy.id = c.id
    BY <2>1, CopyShaped DEF TInv, Copies, Columns
  <2>4. call' = [Stirred EXCEPT ![s].answer = "ok", ![s].page = {copy}]
    BY <1>1 DEF ServeRevoke
  <2>5. InvolvesKept
    BY <2>2, RowsInvolve
  <2> HIDE DEF copy
  <2>6. CallOwn(c) => \A x \in {copy} : Involves(me, x.id)'
    BY <2>1, <2>2, <2>3 DEF CallOwn, Involves, client
  <2> QED BY <1>0, <2>1, <2>3, <2>4, <2>5, <2>6, StirredServeOwn
<1>2. CASE ServeDelete(s)
  <2>1. c.id \in Stored /\ UNCHANGED <<client, overlap, torn>>
    BY <1>2 DEF ServeDelete, Deletable, client
  <2>2. {DeleteColumn(c.access, c.id)} \in SUBSET Columns
    BY DEF DeleteColumn, Columns
  <2>3. Stored' = Stored
        /\ \A n \in Stored : table'[n].from = table[n].from
                             /\ table'[n].to = table[n].to
    BY <1>2, <2>1, <2>2, RowHidden DEF ServeDelete, TInv
  <2>4. call' = [Stirred EXCEPT ![s].answer = "ok", ![s].page = c.page]
    <3>1. Stirred \in [Slots -> Calls] /\ Stirred[s].page = c.page
      BY StirredShaped DEF TInv
    <3> QED BY <1>2, <3>1 DEF ServeDelete, Calls
  <2>5. c.page \in SUBSET Copies
    BY <1>0 DEF Calls
  <2>6. InvolvesKept
    BY <2>3, RowsInvolve
  <2>7. CallOwn(c) => \A x \in c.page : Involves(me, x.id)'
    <3>1. \A x \in c.page : x.id \in Messages
      BY <2>5 DEF Copies
    <3> HIDE DEF c
    <3>2. CallOwn(c) => \A x \in c.page : Involves(me, x.id)
      BY DEF CallOwn
    <3>3. \A m \in Messages : Involves(me, m) => Involves(me, m)'
      BY <1>0, <2>1, <2>6 DEF InvolvesKept, client
    <3> QED BY <3>1, <3>2, <3>3
  <2> QED BY <1>0, <2>1, <2>4, <2>5, <2>6, <2>7, StirredServeOwn
<1>3. CASE ServeSend(s)
  <2> DEFINE r == [from |-> c.access, to |-> c.peer, hidden |-> {}]
             n == Len(table) + 1
             p == {[id |-> n, hidden |-> {}]}
  <2>1. r \in Row
    BY <1>0, <1>3 DEF ServeSend, Waiting, Calls, CallShaped, Row
  <2>2. Len(table) < MaxMessages /\ table' = Append(table, r)
        /\ call' = [Stirred EXCEPT ![s].answer = "ok", ![s].page = p]
        /\ UNCHANGED <<client, overlap, torn>>
    BY <1>3 DEF ServeSend, client
  <2>3. r.from = c.access
    OBVIOUS
  <2> HIDE DEF r
  <2>4. /\ Stored \subseteq Stored' /\ n \in Stored' /\ n \in Messages
        /\ table'[n] = r /\ \A m \in Stored : table'[m] = table[m]
    BY <2>1, <2>2, RowAppended DEF TInv
  <2>5. InvolvesKept
    BY <2>4, RowsInvolve
  <2>6. p \in SUBSET Copies /\ \A x \in p : x.id = n
    BY <2>4 DEF Copies, Columns
  <2> HIDE DEF n, p
  <2>7. CallOwn(c) => \A x \in p : Involves(me, x.id)'
    BY <2>2, <2>3, <2>4, <2>6 DEF CallOwn, Involves, client
  <2> QED BY <1>0, <2>2, <2>5, <2>6, <2>7, StirredServeOwn
<1> QED BY <1>1, <1>2, <1>3

\* Other clients change the table.
LEMMA OthersOwn ==
  ASSUME TInv, MemoryAhead, Own, UNCHANGED <<client, overlap, torn>>,
         call' = Stirred, InvolvesKept
  PROVE  Own'
<1>1. UNCHANGED <<me, file, overlap, torn>> /\ \A u, m : Has(u, m)' = Has(u, m)
  BY DEF client, Has
<1>2. ASSUME ~overlap, NEW t \in Slots, call'[t] # Idle
      PROVE  call[t] # Idle /\ CallOwn(call[t])'
  BY <1>1, <1>2, StirredOwn
<1> QED BY <1>1, <1>2, OwnGoesOn

\* Somebody signs in or out while nothing is in flight, or it overlaps; or
\* something else is saved: memory and the files hold what they held.
LEMMA AccountOwn ==
  ASSUME TInv, MemoryAhead, Own,
         \/ \E u \in Users : SignIn(u) \/ SignInFails(u)
         \/ SignOut \/ SaveOther \/ Restart
  PROVE  Own'
<1>1. ASSUME \E u \in Users : SignInFails(u)
      PROVE  Own'
  BY <1>1 DEF SignInFails, Own
<1>2. ASSUME \/ \E u \in Users : SignIn(u)
             \/ SignOut \/ SaveOther \/ Restart
      PROVE  Own'
  <2>1. table' = table /\ torn' = torn /\ (overlap => overlap')
    <3>1. ASSUME NEW u \in Users, SignIn(u)
          PROVE  table' = table /\ torn' = torn /\ (overlap => overlap')
      BY <3>1 DEF SignIn
    <3>2. CASE SignOut
      BY <3>2 DEF SignOut
    <3>3. CASE SaveOther \/ Restart
      BY <3>3 DEF SaveOther, Restart
    <3> QED BY <1>2, <3>1, <3>2, <3>3
  <2> SUFFICES ASSUME ~overlap'
               PROVE  Apart'
    BY <2>1 DEF Own
  <2>2. ~overlap /\ ~torn /\ Apart
    BY <2>1 DEF Own
  <2>3. ASSUME NEW u \in Users, NEW m \in Messages, Has(u, m)'
        PROVE  Has(u, m)
    <3>1. disk \in [Users -> [Messages -> Entry]] /\ file \in Users
      BY DEF TInv, TypeOK
    <3>2. CASE \E v \in Users : SignIn(v)
      BY <2>3, <3>2 DEF SignIn, Reloaded, FileFor, Has
    <3>3. CASE SignOut \/ SaveOther
      BY <2>3, <3>1, <3>3 DEF SignOut, SaveOther, Writes, Has
    <3>4. CASE Restart
      BY <2>3, <3>1, <3>4, NothingTyped DEF Restart, Has
    <3> QED BY <1>2, <3>2, <3>3, <3>4
  <2>4. \A u \in Users, m \in Messages : Has(u, m)' => Involves(u, m)'
    BY <2>1, <2>2, <2>3, SameRowsInvolve DEF Apart, InvolvesKept
  <2>5. (InFlight' = {}) \/ (UNCHANGED <<me, call>> /\ InFlight' = InFlight)
    BY <1>2, <2>2 DEF SignIn, SignOut, SaveOther, Restart, InFlight
  <2>6. ASSUME UNCHANGED <<me, call>>, NEW s \in InFlight
        PROVE  CallOwn(call[s])'
    <3>1. CallOwn(call[s])
      BY <2>2 DEF Apart
    <3> QED BY <2>1, <2>6, <3>1 DEF CallOwn, Involves, Stored
  <2> QED BY <2>2, <2>4, <2>5, <2>6 DEF Apart
<1> QED BY <1>1, <1>2

\* Every step keeps the strengthened invariant.
LEMMA StepOwn ==
  ASSUME TInv, MemoryAhead, Own, [Next]_vars
  PROVE  Own'
<1>1. ASSUME NEW s \in Slots, Command(s)
      PROVE  Own'
  BY <1>1, CommandBegins, BeginOwn
<1>2. ASSUME NEW s \in Slots, Serve(s) \/ Fails(s) \/ Receive(s)
      PROVE  Own'
  BY <1>2, ServePageOwn, ServeOwn, FailsOwn, ReceiveOwn DEF Serve
<1>3. ASSUME NEW u \in Users, NEW v \in Users, Post(u, v)
      PROVE  Own'
  <2> DEFINE r == [from |-> u, to |-> v, hidden |-> {}]
  <2>1. Len(table) < MaxMessages /\ table' = Append(table, r) /\ r \in Row
    BY <1>3 DEF Post, Row
  <2> HIDE DEF r
  <2>2. Stored \subseteq Stored' /\ \A m \in Stored : table'[m] = table[m]
    BY <2>1, RowAppended DEF TInv
  <2>3. InvolvesKept
    BY <2>2, RowsInvolve
  <2> QED BY <1>3, <2>3, OthersOwn DEF Post
<1>4. ASSUME NEW u \in Users, NEW m \in Messages, NEW column \in Columns,
             Hide(u, m, column)
      PROVE  Own'
  <2>1. m \in Stored /\ {column} \in SUBSET Columns
    BY <1>4 DEF Hide
  <2>2. Stored' = Stored
        /\ \A n \in Stored : table'[n].from = table[n].from
                             /\ table'[n].to = table[n].to
    BY <1>4, <2>1, RowHidden DEF Hide, TInv
  <2>3. InvolvesKept
    BY <2>2, RowsInvolve
  <2> QED BY <1>4, <2>3, OthersOwn DEF Hide
<1>5. CASE UNCHANGED vars
  BY <1>5 DEF vars, client, Own, Apart, InFlight, CallOwn, Involves, Stored, Has
<1> QED
  BY <1>1, <1>2, <1>3, <1>4, <1>5, AccountOwn DEF Next

\* Nothing is in flight and nothing cached at first.
LEMMA InitOwn ==
  ASSUME Init
  PROVE  Own
<1>1. InFlight = {}
  BY DEF Init, InFlight
<1>2. \A u \in Users, m \in Messages : ~Has(u, m)
  BY NothingTyped DEF Init, Has
<1> QED BY <1>1, <1>2 DEF Init, Own, Apart

\* The strengthened invariant: memory is ahead of the file, the store has the
\* signed-in account's file open, and what is on its way into it is that
\* account's.
THEOREM StrengthenedInvariant == Spec => []SInv
<1>1. Init => SInv
  BY InitTyped, InitAhead, InitOwn, SInvParts
<1>2. SInv /\ [Next]_vars => SInv'
  <2>1. SInv' <=> (TInv' /\ MemoryAhead' /\ Own')
    BY SInvParts, PTL
  <2> QED BY <2>1, SInvParts, StepTyped, StepAhead, StepOwn
<1> QED BY <1>1, <1>2, PTL DEF Spec

\* As long as commands do not overlap, the file of an account, and memory when
\* it is open, hold only messages it sent or received, through every login,
\* logout and restart.
THEOREM OwnMessages == Spec => []OwnMessagesOnly
<1>1. SInv => OwnMessagesOnly
  BY DEF SInv, OwnMessagesOnly, Involves
<1> QED BY <1>1, StrengthenedInvariant, PTL
-----------------------------------------------------------------------------
(* What is hidden stays hidden *)

\* What HInv says beyond SInv.
Hid ==
  /\ HiddenIsHidden
  /\ ~overlap => /\ GoneHidden
                 /\ \A s \in InFlight : CallHidden(call[s])

\* The parts in which the invariant is proved.
LEMMA HInvParts == HInv <=> TInv /\ MemoryAhead /\ Own /\ Hid
BY SInvParts DEF HInv, Hid

\* Who can see a message, by its row.
LEMMA SeenBy ==
  ASSUME NEW u, NEW m
  PROVE  m \in VisibleTo(u) <=>
           /\ m \in Stored
           /\ \/ table[m].from = u /\ "senderDeleted" \notin table[m].hidden
              \/ /\ table[m].to = u
                 /\ "accessRevoked" \notin table[m].hidden
                 /\ "recipientDeleted" \notin table[m].hidden
<1>1. /\ Listed(u, "sent") = {n \in Stored :
           table[n].from = u /\ "senderDeleted" \notin table[n].hidden}
      /\ Listed(u, "received") = {n \in Stored : table[n].to = u
           /\ table[n].hidden \cap {"accessRevoked", "recipientDeleted"} = {}}
  BY DEF Listed
<1> QED BY <1>1 DEF VisibleTo

\* The accounts of a message stay, and who cannot see it never will.
HidesMore ==
  /\ Stored \subseteq Stored'
  /\ \A n \in Stored :
       /\ table'[n].from = table[n].from /\ table'[n].to = table[n].to
       /\ \A u \in Users \cup {NoUser} :
            n \notin VisibleTo(u) => n \notin VisibleTo(u)'

\* Rows that only get more marks hide more.
LEMMA RowsHide ==
  ASSUME Stored \subseteq Stored',
         \A n \in Stored : /\ table'[n].from = table[n].from
                           /\ table'[n].to = table[n].to
                           /\ table[n].hidden \subseteq table'[n].hidden
  PROVE  HidesMore
<1> SUFFICES ASSUME NEW n \in Stored, NEW u \in Users \cup {NoUser},
                    n \in VisibleTo(u)'
             PROVE  n \in VisibleTo(u)
  BY DEF HidesMore
<1>1. \/ table'[n].from = u /\ "senderDeleted" \notin table'[n].hidden
      \/ /\ table'[n].to = u
         /\ "accessRevoked" \notin table'[n].hidden
         /\ "recipientDeleted" \notin table'[n].hidden
  <2>1. n \in Listed(u, "sent")' \/ n \in Listed(u, "received")'
    BY DEF VisibleTo
  <2>2. n \in Listed(u, "sent")' =>
          table'[n].from = u /\ "senderDeleted" \notin table'[n].hidden
    BY DEF Listed
  <2>3. n \in Listed(u, "received")' =>
          /\ table'[n].to = u
          /\ table'[n].hidden \cap {"accessRevoked", "recipientDeleted"} = {}
    BY DEF Listed
  <2> QED BY <2>1, <2>2, <2>3
<1> QED BY <1>1, SeenBy

\* A row gets a mark.
LEMMA MarkHides ==
  ASSUME TypeOK, NEW m \in Stored, NEW x \in SUBSET Columns,
         table' = [table EXCEPT ![m].hidden = @ \cup x]
  PROVE  HidesMore
<1>1. Stored = 1..Len(table) /\ \A n \in Stored : table[n] \in Row
  BY StoredMessages
<1>2. Stored' = Stored
      /\ \A n \in Stored : table'[n].from = table[n].from
                           /\ table'[n].to = table[n].to
  BY RowHidden
<1>3. ASSUME NEW n \in Stored
      PROVE  table[n].hidden \subseteq table'[n].hidden
  <2>1. table'[n] = IF n = m
                    THEN [table[m] EXCEPT !.hidden = @ \cup x] ELSE table[n]
    BY DEF Stored
  <2>2. table[m] \in Row
    BY <1>1
  <2> QED BY <2>1, <2>2 DEF Row
<1> QED BY <1>2, <1>3, RowsHide

\* A row is appended.
LEMMA AppendHides ==
  ASSUME TypeOK, NEW r \in Row, Len(table) < MaxMessages,
         table' = Append(table, r)
  PROVE  HidesMore
<1>1. Stored \subseteq Stored' /\ \A n \in Stored : table'[n] = table[n]
  BY RowAppended
<1> QED BY <1>1, RowsHide

\* The table stays.
LEMMA SameHides ==
  ASSUME table' = table
  PROVE  HidesMore
BY RowsHide DEF Stored

\* A call that has got the same, over a table that hides no less.
LEMMA CallHiddenKept ==
  ASSUME TInv, HidesMore, gone' = gone, NEW c \in Calls, CallHidden(c),
         NEW d, d.op = c.op, d.lists = c.lists, d.access = c.access,
         d.found = c.found, d.page = c.page, d.before = c.before,
         d.id = c.id, d.answer = c.answer
  PROVE  CallHidden(d)'
<1>1. c.access \in Users \cup {NoUser}
  BY DEF Calls
<1>2. ASSUME c.op \in {"list", "read"}, NEW m \in c.before
      PROVE  /\ Concerns(c.access, Head(c.lists), m)'
             /\ m \notin VisibleTo(c.access)'
  <2>1. Concerns(c.access, Head(c.lists), m) /\ m \notin VisibleTo(c.access)
    BY <1>2 DEF CallHidden
  <2>2. m \in Stored
    BY <2>1 DEF Concerns
  <2> QED BY <1>1, <2>1, <2>2 DEF HidesMore, Concerns
<1>3. c.id \in Stored => c.id \in Stored'
  BY DEF HidesMore
<1> QED BY <1>2, <1>3 DEF CallHidden

\* What an account sees of a message once the table stays as it is.
LEMMA SeesThen ==
  ASSUME table' = table, NEW u, NEW m
  PROVE  /\ Sees(u, m) <=> m \in Stored /\ \/ Shows(u, disk[u][m], m)
                                           \/ file = u /\ Shows(u, cache[m], m)
         /\ Sees(u, m)' <=>
              m \in Stored /\ \/ Shows(u, disk'[u][m], m)
                              \/ file' = u /\ Shows(u, cache'[m], m)
<1>1. Sees(u, m) <=> m \in Stored /\ \/ Shows(u, disk[u][m], m)
                                     \/ file = u /\ Shows(u, cache[m], m)
  BY DEF Sees, ShownIn
<1>2. Sees(u, m)' <=> m \in Stored' /\ \/ Shows(u, disk[u][m], m)'
                                       \/ file' = u /\ Shows(u, cache[m], m)'
  BY DEF Sees, ShownIn
<1>3. /\ Shows(u, disk[u][m], m)' <=> Shows(u, disk'[u][m], m)
      /\ Shows(u, cache[m], m)' <=> Shows(u, cache'[m], m)
      /\ Stored' = Stored
  BY DEF Shows, Stored
<1> QED BY <1>1, <1>2, <1>3

\* No account sees a message it did not see, unless the message is new.
SeesNoMore == \A u \in Users, m \in Stored : Sees(u, m)' => Sees(u, m)

\* The client stays and the messages keep their accounts.
LEMMA SameSees ==
  ASSUME HidesMore, UNCHANGED client
  PROVE  SeesNoMore
<1> SUFFICES ASSUME NEW u \in Users, NEW m \in Stored, Sees(u, m)'
             PROVE  Sees(u, m)
  BY DEF SeesNoMore
<1>1. \/ Shows(u, disk[u][m], m)'
      \/ file' = u /\ Shows(u, cache[m], m)'
  BY DEF Sees, ShownIn
<1>2. \/ Shows(u, disk[u][m], m)
      \/ file = u /\ Shows(u, cache[m], m)
  BY <1>1 DEF Shows, HidesMore, client
<1> QED BY <1>2 DEF Sees, ShownIn

\* Nobody sees more, and the table hides no less.
LEMMA HiddenGoesOn ==
  ASSUME TInv, Hid, HidesMore, SeesNoMore, gone' = gone, ~overlap,
         \A t \in Slots : call'[t] # Idle => CallHidden(call[t])'
  PROVE  Hid'
<1>1. HiddenIsHidden /\ GoneHidden
  BY DEF Hid
<1>2. GoneHidden'
  <2> SUFFICES ASSUME NEW u \in Users, NEW m \in Messages, <<u, m>> \in gone
               PROVE  m \in Stored' /\ m \notin VisibleTo(u)'
    BY DEF GoneHidden
  <2>1. m \in Stored /\ m \notin VisibleTo(u)
    BY <1>1 DEF GoneHidden
  <2> QED BY <2>1 DEF HidesMore
<1>3. HiddenIsHidden'
  <2> SUFFICES ASSUME NEW u \in Users, NEW m \in Messages, Sees(u, m)',
                      <<u, m>> \in gone
               PROVE  FALSE
    BY DEF HiddenIsHidden
  <2>1. m \in Stored
    BY <1>1 DEF GoneHidden
  <2>2. Sees(u, m)
    BY <2>1 DEF SeesNoMore
  <2> QED BY <1>1, <2>2 DEF HiddenIsHidden
<1> QED BY <1>2, <1>3 DEF Hid, InFlight

\* A step that leaves the table, the client and the calls, but for one.
LEMMA OneCallHidden ==
  ASSUME TInv, Hid, ~overlap, UNCHANGED <<table, gone, client>>,
         NEW s \in Slots, NEW d, call' = [call EXCEPT ![s] = d],
         d # Idle => CallHidden(d)
  PROVE  Hid'
<1>1. \A t \in Slots : call'[t] = IF t = s THEN d ELSE call[t]
  BY DEF TInv, TypeOK
<1>2. ASSUME NEW t \in Slots, call'[t] # Idle
      PROVE  CallHidden(call[t])'
  <2>1. PICK e : e = call'[t]
    OBVIOUS
  <2>2. CallHidden(e)
    BY <1>1, <1>2, <2>1 DEF Hid, InFlight
  <2>3. CallHidden(call[t])' <=> CallHidden(e)
    BY <2>1 DEF CallHidden, Concerns, VisibleTo, Listed, Stored
  <2> QED BY <2>2, <2>3
<1> QED BY <1>2, SameHides, SameSees, HiddenGoesOn

\* The table has changed, and so has nothing of the calls but their histories.
LEMMA StirredHidden ==
  ASSUME TInv, Hid, ~overlap, HidesMore, gone' = gone, NEW t \in Slots,
         call'[t] = Stirred[t], call'[t] # Idle
  PROVE  CallHidden(call[t])'
<1>1. Stirred[t] = [call[t] EXCEPT !.quiet = FALSE]
  BY DEF Stirred
<1>2. Idle = [Idle EXCEPT !.quiet = FALSE]
  <2>1. /\ Idle.quiet = FALSE
        /\ Idle = [x \in DOMAIN Idle |-> Idle[x]]
    BY DEF Idle
  <2> HIDE DEF Idle
  <2> QED BY <2>1
<1>3. call[t] # Idle /\ call[t] \in Calls
  BY <1>1, <1>2 DEF TInv, TypeOK
<1>4. PICK c \in Calls : c = call[t]
  BY <1>3
<1>5. PICK d : d = call'[t]
  OBVIOUS
<1>6. CallHidden(c)
  BY <1>3, <1>4 DEF Hid, InFlight
<1>7. /\ d.op = c.op /\ d.lists = c.lists /\ d.access = c.access
      /\ d.found = c.found /\ d.page = c.page /\ d.before = c.before
      /\ d.id = c.id /\ d.answer = c.answer
  BY <1>4, <1>5, StirredShaped DEF TInv
<1>8. CallHidden(d)'
  BY <1>6, <1>7, CallHiddenKept
<1>9. CallHidden(call[t])' <=> CallHidden(d)'
  BY <1>5 DEF CallHidden, Concerns
<1> QED BY <1>8, <1>9

\* The server changed the table and answered a request that is not a list.
LEMMA StirredServeHidden ==
  ASSUME TInv, Hid, ~overlap, HidesMore, NEW s \in Slots,
         NEW p \in SUBSET Copies, UNCHANGED <<gone, client>>,
         call' = [Stirred EXCEPT ![s].answer = "ok", ![s].page = p],
         call[s].op \notin {"list", "read"}, call[s].access # NoUser,
         call[s].op \in {"send", "forward"} =>
           \A x \in p : <<call[s].access, x.id>> \notin gone,
         call[s].op = "revoke" => \A x \in p : "accessRevoked" \in x.hidden,
         call[s].op = "delete" => call[s].id \in Stored
  PROVE  Hid'
<1>1. Stirred \in [Slots -> Calls]
  BY StirredShaped DEF TInv
<1>2. \A t \in Slots : t # s => call'[t] = Stirred[t]
  BY <1>1
<1>3. PICK d : d = call'[s]
  OBVIOUS
<1>4. /\ d.op = call[s].op /\ d.access = call[s].access /\ d.id = call[s].id
      /\ d.page = p
  <2>1. PICK e : e = Stirred[s]
    OBVIOUS
  <2>2. e \in Calls /\ d = [e EXCEPT !.answer = "ok", !.page = p]
    BY <1>1, <1>3, <2>1
  <2>3. d.op = e.op /\ d.access = e.access /\ d.id = e.id /\ d.page = p
    BY <2>2 DEF Calls
  <2> QED BY <2>1, <2>3, StirredShaped DEF TInv
<1>5. CallHidden(d)'
  BY <1>4 DEF CallHidden, HidesMore
<1>6. ASSUME NEW t \in Slots, call'[t] # Idle
      PROVE  CallHidden(call[t])'
  <2>1. CASE t = s
    <3>1. CallHidden(call[t])' <=> CallHidden(d)'
      BY <1>3, <2>1 DEF CallHidden, Concerns
    <3> QED BY <1>5, <3>1
  <2>2. CASE t # s
    BY <1>2, <1>6, <2>2, StirredHidden
  <2> QED BY <2>1, <2>2
<1> QED BY <1>6, SameSees, HiddenGoesOn

\* The server revokes, deletes or sends: a revoked message is answered with its
\* mark, and nobody was told of a new message that it is hidden.
LEMMA ServeHidden ==
  ASSUME TInv, Hid, ~overlap, NEW s \in Slots,
         ServeRevoke(s) \/ ServeDelete(s) \/ ServeSend(s)
  PROVE  Hid'
<1> DEFINE c == call[s]
<1>0. c \in Calls /\ CallShaped(c)
  BY DEF TInv, TypeOK
<1>1. CASE ServeRevoke(s)
  <2> DEFINE copy == [CopyOf(c.id) EXCEPT !.hidden = @ \cup {"accessRevoked"}]
  <2>1. /\ c.id \in Stored /\ table[c.id].from = c.access /\ c.op = "revoke"
        /\ UNCHANGED <<client, gone>>
    BY <1>1 DEF ServeRevoke, Waiting
  <2>2. HidesMore
    BY <1>1, <2>1, MarkHides DEF ServeRevoke, TInv, Columns
  <2>3. {copy} \in SUBSET Copies /\ "accessRevoked" \in copy.hidden
    BY <2>1, CopyShaped DEF TInv, Copies, Columns
  <2>4. call' = [Stirred EXCEPT ![s].answer = "ok", ![s].page = {copy}]
    BY <1>1 DEF ServeRevoke
  <2>5. c.access # NoUser
    <3>1. table[c.id] \in Row
      BY <2>1, StoredMessages DEF TInv
    <3> QED BY <2>1, <3>1, SyncAssumption DEF Row
  <2> HIDE DEF copy
  <2>6. \A x \in {copy} : "accessRevoked" \in x.hidden
    BY <2>3
  <2> QED BY <2>1, <2>2, <2>3, <2>4, <2>5, <2>6, StirredServeHidden
<1>2. CASE ServeDelete(s)
  <2>1. /\ c.id \in Stored /\ c.op = "delete" /\ UNCHANGED <<client, gone>>
        /\ c.access \in {table[c.id].from, table[c.id].to}
    BY <1>2 DEF ServeDelete, Waiting, Deletable, Listed
  <2>2. {DeleteColumn(c.access, c.id)} \in SUBSET Columns
    BY DEF DeleteColumn, Columns
  <2>3. HidesMore
    BY <1>2, <2>1, <2>2, MarkHides DEF ServeDelete, TInv
  <2>4. call' = [Stirred EXCEPT ![s].answer = "ok", ![s].page = c.page]
    <3>1. Stirred \in [Slots -> Calls] /\ Stirred[s].page = c.page
      BY StirredShaped DEF TInv
    <3> QED BY <1>2, <3>1 DEF ServeDelete, Calls
  <2>5. c.page \in SUBSET Copies
    BY <1>0 DEF Calls
  <2>6. c.access # NoUser
    <3>1. table[c.id] \in Row
      BY <2>1, StoredMessages DEF TInv
    <3> QED BY <2>1, <3>1, SyncAssumption DEF Row
  <2> QED BY <2>1, <2>3, <2>4, <2>5, <2>6, StirredServeHidden
<1>3. CASE ServeSend(s)
  <2> DEFINE r == [from |-> c.access, to |-> c.peer, hidden |-> {}]
             n == Len(table) + 1
             p == {[id |-> n, hidden |-> {}]}
  <2>1. r \in Row
    BY <1>0, <1>3 DEF ServeSend, Waiting, Calls, CallShaped, Row
  <2>2. /\ Len(table) < MaxMessages /\ table' = Append(table, r)
        /\ call' = [Stirred EXCEPT ![s].answer = "ok", ![s].page = p]
        /\ UNCHANGED <<client, gone>>
        /\ c.op \in {"send", "forward"} /\ c.access # NoUser
    BY <1>3 DEF ServeSend, Waiting
  <2> HIDE DEF r
  <2>3. HidesMore /\ n \in Messages
    BY <2>1, <2>2, AppendHides, RowAppended DEF TInv
  <2>4. n \notin Stored
    BY StoredMessages DEF TInv
  <2>5. p \in SUBSET Copies /\ \A x \in p : x.id = n
    BY <2>3 DEF Copies, Columns
  <2> HIDE DEF n, p
  <2>6. c.access \in Users
    BY <1>0, <2>2 DEF Calls
  <2>7. \A x \in p : <<c.access, x.id>> \notin gone
    BY <2>3, <2>4, <2>5, <2>6 DEF Hid, GoneHidden
  <2> QED BY <2>2, <2>3, <2>5, <2>7, StirredServeHidden
<1> QED BY <1>1, <1>2, <1>3

\* A page of a list has visible messages only, which no one was told are hidden.
LEMMA ServePageHidden ==
  ASSUME TInv, Hid, ~overlap, NEW s \in Slots, ServePage(s)
  PROVE  Hid'
<1> DEFINE c == call[s]
           P == Page(c.access, Head(c.lists), c.offset)
           p == {CopyOf(m) : m \in P}
<1>1. UNCHANGED <<table, gone, client>> /\ c.access # NoUser
      /\ c.op \in {"list", "read"}
  BY DEF ServePage, Waiting
<1>2. c # Idle /\ c \in Calls /\ call \in [Slots -> Calls]
  BY DEF ServePage, Waiting, Idle, TInv, TypeOK
<1>3. CallHidden(c)
  BY <1>2 DEF Hid, InFlight
<1>4. \A m \in P : m \in VisibleTo(c.access)
  <2>1. P \subseteq Listed(c.access, Head(c.lists))
    BY DEF Page
  <2>2. \A dir : Listed(c.access, dir) \subseteq VisibleTo(c.access)
    BY DEF Listed, VisibleTo
  <2> QED BY <2>1, <2>2
<1>5. c.access \in Users /\ \A m \in P : m \in Messages
  BY <1>1, <1>2, <1>4, SeenBy, StoredMessages DEF Calls, TInv
<1>6. \A x \in p : x.id \in P
  BY DEF CopyOf
<1>7. \A x \in p : x.id \notin c.before /\ <<c.access, x.id>> \notin gone
  <2> HIDE DEF p, P, c
  <2>1. \A m \in P : <<c.access, m>> \notin gone
    BY <1>4, <1>5 DEF Hid, GoneHidden
  <2>2. \A m \in P : m \notin c.before
    BY <1>1, <1>3, <1>4 DEF CallHidden
  <2> QED BY <1>6, <2>1, <2>2
<1> HIDE DEF p
<1>8. PICK d : d = [c EXCEPT !.answer = "ok", !.page = p]
  OBVIOUS
<1>9. call' = [call EXCEPT ![s] = d]
  BY <1>2, <1>8 DEF ServePage, p
<1>10. /\ d.op = c.op /\ d.lists = c.lists /\ d.access = c.access
       /\ d.found = c.found /\ d.page = p /\ d.before = c.before
  BY <1>2, <1>8 DEF Calls
<1>11. CallHidden(d)
  BY <1>1, <1>3, <1>7, <1>10 DEF CallHidden
<1> QED BY <1>1, <1>9, <1>11, OneCallHidden

\* A command begins: what its list starts from is hidden by now.
LEMMA BeginHidden ==
  ASSUME TInv, Hid, NEW s \in Slots, NEW c \in Calls, Fresh(c), Begin(s, c)
  PROVE  Hid'
<1>1. CASE overlap'
  BY <1>1 DEF Hid, HiddenIsHidden
<1>2. CASE ~overlap'
  <2>1. /\ ~overlap /\ UNCHANGED <<table, gone, client>>
        /\ call' = [call EXCEPT ![s] = c]
    BY <1>2 DEF Begin
  <2>2. CallHidden(c)
    BY DEF Fresh, CallHidden, Hidden
  <2> QED BY <2>1, <2>2, OneCallHidden
<1> QED BY <1>1, <1>2

\* A request fails, and the command is given up.
LEMMA FailsHidden ==
  ASSUME TInv, Hid, ~overlap, NEW s \in Slots, Fails(s)
  PROVE  Hid'
BY OneCallHidden DEF Fails

\* The next page is asked for by the same account, with what the list has got.
LEMMA NextPageHidden ==
  ASSUME TInv, MemoryAhead, Own, Hid, ~overlap, NEW s \in Slots, NextPage(s)
  PROVE  Hid'
<1>1. PICK c : c = call[s]
  OBVIOUS
<1>2. c \in Calls /\ c # Idle /\ c.op \in {"list", "read"}
  BY <1>1 DEF NextPage, Received, Idle, TInv, TypeOK
<1>3. CallHidden(c) /\ c.access = me
  BY <1>1, <1>2 DEF Hid, Own, Apart, CallOwn, InFlight
<1>4. PICK n : n = NextOffset(c)
  OBVIOUS
<1>5. PICK d : d = [c EXCEPT !.offset = n, !.found = c.found \cup c.page,
                             !.page = {}, !.access = c.access,
                             !.answer = "none"]
  OBVIOUS
<1>6. AskAs(c.access) = c.access
  BY <1>3 DEF AskAs
<1>7. call' = [call EXCEPT ![s] = d]
  BY <1>1, <1>2, <1>4, <1>5, <1>6 DEF NextPage, Calls
<1>8. /\ d.op = c.op /\ d.lists = c.lists /\ d.access = c.access
      /\ d.found \cup d.page = c.found \cup c.page /\ d.before = c.before
      /\ d.answer = "none"
  BY <1>2, <1>5 DEF Calls
<1>9. CallHidden(d)
  BY <1>2, <1>3, <1>8 DEF CallHidden
<1> QED BY <1>7, <1>9, OneCallHidden DEF NextPage

\* More marks show no message that was not shown.
LEMMA MarksHide ==
  ASSUME NEW u, NEW m, NEW e, NEW f, f.cached => e.cached,
         e.tombs \subseteq f.tombs, Shows(u, f, m)
  PROVE  Shows(u, e, m)
BY DEF Shows

\* saveMessages leaves what the list has not got as it was.
LEMMA SavedNone ==
  ASSUME NEW entries, NEW c, NEW oldest, NEW m \in Messages, m \notin Got(c)
  PROVE  Saved(entries, Collected(c), oldest)[m] = entries[m]
<1>1. {x \in Collected(c) : x.id = m /\ x.id >= oldest} = {}
  BY DEF Got, Collected
<1> QED BY <1>1 DEF Saved

\* After a list, what it is about is shown only if the list has got it, and the
\* rest only if it was shown before.
LEMMA ListShows ==
  ASSUME TInv, NEW c \in Calls, NEW oldest, NEW m \in Stored,
         Shows(me, AfterList(c, oldest)[m], m)
  PROVE  \/ m \in Got(c)
         \/ /\ Shows(me, cache[m], m)
            /\ ~Concerns(me, Head(c.lists), m)
<1> DEFINE found == c.found \cup c.page
           dir == Head(c.lists)
           saved == Saved(cache, found, oldest)
<1> SUFFICES ASSUME m \notin Got(c)
             PROVE  /\ Shows(me, cache[m], m)
                    /\ ~Concerns(me, dir, m)
  OBVIOUS
<1>1. m \in Messages
  BY StoredMessages DEF TInv
<1>2. PICK e : e = cache[m]
  OBVIOUS
<1>3. e \in Entry
  BY <1>1, <1>2 DEF TInv, TypeOK
<1>4. saved[m] = e
  BY <1>1, <1>2, SavedNone DEF Collected
<1>5. PICK t : t = TombFor(me, dir, e, m)
  OBVIOUS
<1>6. PICK f : f = [e EXCEPT !.tombs = e.tombs \cup t]
  OBVIOUS
<1>7. AfterList(c, oldest)[m] = f
  <2>1. AfterList(c, oldest) = Reconciled(me, dir, saved, Got(c))
    BY DEF AfterList, Collected, Ids, Got
  <2> HIDE DEF saved, dir
  <2>2. Reconciled(me, dir, saved, Got(c))[m] =
          [saved[m] EXCEPT !.tombs = @ \cup TombFor(me, dir, saved[m], m)]
    BY <1>1 DEF Reconciled
  <2> QED BY <1>3, <1>4, <1>5, <1>6, <2>1, <2>2 DEF Entry
<1>8. f.cached = e.cached /\ f.tombs = e.tombs \cup t
  BY <1>3, <1>6 DEF Entry
<1>9. Shows(me, f, m)
  BY <1>7
<1>10. Shows(me, e, m)
  BY <1>8, <1>9, MarksHide
<1>11. ~Concerns(me, dir, m)
  <2> SUFFICES ASSUME Concerns(me, dir, m)
               PROVE  FALSE
    OBVIOUS
  <2>1. t = {IF dir = "sent" THEN "senderDeleted" ELSE "accessRevoked"}
    BY <1>5, <1>10 DEF TombFor
  <2>2. dir = "sent" => table[m].from = me
    BY DEF Concerns
  <2> HIDE DEF dir
  <2>3. CASE dir = "sent"
    <3>1. "senderDeleted" \in f.tombs
      BY <1>8, <2>1, <2>3
    <3> QED BY <1>9, <2>2, <2>3, <3>1 DEF Shows
  <2>4. CASE dir # "sent"
    <3>1. "accessRevoked" \in f.tombs
      BY <1>8, <2>1, <2>4
    <3> QED BY <1>9, <3>1 DEF Shows
  <2> QED BY <2>3, <2>4
<1> QED BY <1>2, <1>10, <1>11

\* Reading a conversation shows and hides nothing.
LEMMA ReadShows ==
  ASSUME NEW u, NEW v, NEW peer, NEW entries \in [Messages -> Entry],
         NEW m \in Messages, Shows(u, MarkedRead(v, peer, entries)[m], m)
  PROVE  Shows(u, entries[m], m)
<1> DEFINE r == entries[m].cached /\ table[m].from = peer /\ table[m].to = v
<1>1. PICK e : e = entries[m]
  OBVIOUS
<1>2. PICK q : q = (e.read \/ r)
  OBVIOUS
<1>3. PICK f : f = [e EXCEPT !.read = q]
  OBVIOUS
<1>4. e \in Entry
  BY <1>1
<1>5. MarkedRead(v, peer, entries)[m] = [e EXCEPT !.read = @ \/ r]
  BY <1>1 DEF MarkedRead
<1>6. MarkedRead(v, peer, entries)[m] = f
  <2> HIDE DEF r
  <2> QED BY <1>2, <1>3, <1>4, <1>5, Zenon DEF Entry
<1>7. f.cached = e.cached /\ f.tombs = e.tombs
  BY <1>3, <1>4 DEF Entry
<1>8. Shows(u, f, m)
  BY <1>6
<1> QED BY <1>1, <1>7, <1>8, MarksHide

\* What an answer that the client handles is of.
LEMMA AnswerOf ==
  ASSUME TInv, MemoryAhead, Own, Hid, ~overlap, NEW s \in Slots, call[s] # Idle,
         call[s].answer = "ok"
  PROVE  /\ call[s] \in Calls /\ CallHidden(call[s]) /\ call[s].access = me
         /\ me \in Users /\ file = me /\ InFlight = {s}
         /\ \A m \in Messages : Keeps(disk[me][m], cache[m])
<1>1. s \in InFlight /\ Apart /\ call[s] \in Calls /\ ~torn
  BY DEF InFlight, Own, TInv, TypeOK
<1>2. CallOwn(call[s]) /\ CallHidden(call[s]) /\ InFlight = {s}
  BY <1>1 DEF Apart, Hid
<1>3. me \in Users
  BY <1>2 DEF CallOwn, CallHidden, TInv, TypeOK
<1>4. me # NoUser
  BY <1>3, SyncAssumption
<1> QED BY <1>1, <1>2, <1>3, <1>4 DEF CallOwn, MemoryAhead

\* What the account's file or memory shows it was not told is hidden.
LEMMA ShownNotGone ==
  ASSUME TInv, Hid, ~overlap, me \in Users, file = me, NEW m \in Stored,
         Shows(me, cache[m], m) \/ Shows(me, disk[me][m], m)
  PROVE  <<me, m>> \notin gone
<1>1. m \in Messages /\ Sees(me, m)
  BY StoredMessages DEF TInv, Sees, ShownIn
<1> QED BY <1>1 DEF Hid, HiddenIsHidden

\* An answer leaves the table; only memory, the account's file, what it was told
\* and one call change.
LEMMA AnswerHidden ==
  ASSUME TInv, MemoryAhead, Own, Hid, ~overlap, table' = table, file' = file,
         NEW s \in Slots, call[s] # Idle, call[s].answer = "ok",
         \A u \in Users \ {me} : disk'[u] = disk[u],
         NEW told \in SUBSET Messages, gone' = gone \cup ({me} \X told),
         \A m \in told : m \in Stored /\ m \notin VisibleTo(me),
         \A m \in Stored :
           Shows(me, cache'[m], m) \/ Shows(me, disk'[me][m], m)
             => <<me, m>> \notin gone /\ m \notin told,
         NEW d, call' = [call EXCEPT ![s] = d],
         d # Idle => CallHidden(d)'
  PROVE  Hid'
<1>1. InFlight = {s} /\ me \in Users /\ file = me
  BY AnswerOf
<1>2. HiddenIsHidden'
  <2> SUFFICES ASSUME NEW u \in Users, NEW m \in Messages, Sees(u, m)'
               PROVE  <<u, m>> \notin gone'
    BY DEF HiddenIsHidden
  <2>1. /\ m \in Stored
        /\ Shows(u, disk'[u][m], m) \/ (file' = u /\ Shows(u, cache'[m], m))
    BY SeesThen
  <2>2. CASE u = me
    <3>1. <<me, m>> \notin gone /\ m \notin told
      BY <2>1, <2>2
    <3> QED BY <2>2, <3>1
  <2>3. CASE u # me
    <3>1. disk'[u] = disk[u] /\ file' # u
      BY <1>1, <2>3
    <3>2. Sees(u, m)
      BY <2>1, <3>1, SeesThen
    <3>3. <<u, m>> \notin gone
      BY <3>2 DEF Hid, HiddenIsHidden
    <3> QED BY <2>3, <3>3
  <2> QED BY <2>2, <2>3
<1>3. GoneHidden'
  <2> SUFFICES ASSUME NEW u \in Users, NEW m \in Messages, <<u, m>> \in gone'
               PROVE  m \in Stored' /\ m \notin VisibleTo(u)'
    BY DEF GoneHidden
  <2>1. m \in Stored /\ m \notin VisibleTo(u)
    BY DEF Hid, GoneHidden
  <2> QED BY <2>1, SameHides DEF HidesMore
<1>4. ASSUME NEW t \in Slots, call'[t] # Idle
      PROVE  CallHidden(call[t])'
  <2>1. t = s /\ call'[t] = d
    BY <1>1, <1>4 DEF InFlight, TInv, TypeOK
  <2>2. CallHidden(d)'
    BY <1>4, <2>1
  <2> QED BY <2>1, <2>2 DEF CallHidden, Concerns
<1> QED BY <1>2, <1>3, <1>4 DEF Hid, InFlight

\* The message of the answer is saved: revoked, with its mark, or a new one.
LEMMA MessageHidden ==
  ASSUME TInv, MemoryAhead, Own, Hid, ~overlap, NEW s \in Slots,
         ReceiveMessage(s)
  PROVE  Hid'
<1>1. PICK c : c = call[s]
  OBVIOUS
<1>2. /\ call[s] # Idle /\ c.answer = "ok"
      /\ c.op \in {"revoke", "send", "forward"}
  BY <1>1 DEF ReceiveMessage, Received, Idle
<1>3. c \in Calls /\ CallHidden(c) /\ c.access = me /\ me \in Users /\ file = me
  BY <1>1, <1>2, AnswerOf
<1>4. PICK x \in c.page :
        cache' = [cache EXCEPT ![x.id] = Merge(@, x.hidden, c.op # "revoke")]
  BY <1>1 DEF ReceiveMessage
<1>5. x.id \in Messages /\ x.hidden \in SUBSET Columns
  BY <1>3, <1>4 DEF Calls, Copies
<1>6. PICK e : e = Merge(cache[x.id], x.hidden, c.op # "revoke")
  OBVIOUS
<1>7. x.hidden \subseteq e.tombs
  BY <1>6 DEF Merge
<1>8. \A m \in Messages : cache'[m] = IF m = x.id THEN e ELSE cache[m]
  BY <1>4, <1>5, <1>6 DEF TInv, TypeOK
<1>9. ASSUME NEW m \in Stored, Shows(me, cache'[m], m)
      PROVE  <<me, m>> \notin gone
  <2>0. m \in Messages
    BY StoredMessages DEF TInv
  <2>1. CASE m = x.id /\ c.op = "revoke"
    <3>1. "accessRevoked" \in e.tombs
      BY <1>3, <1>4, <1>7, <2>1 DEF CallHidden
    <3> QED BY <1>8, <1>9, <2>0, <2>1, <3>1 DEF Shows
  <2>2. CASE m = x.id /\ c.op # "revoke"
    BY <1>2, <1>3, <1>4, <2>2 DEF CallHidden
  <2>3. CASE m # x.id
    <3>1. Shows(me, cache[m], m)
      BY <1>8, <1>9, <2>0, <2>3
    <3> QED BY <1>3, <3>1, ShownNotGone
  <2> QED BY <2>1, <2>2, <2>3
<1>10. /\ UNCHANGED <<table, file>> /\ gone' = gone \cup ({me} \X {})
       /\ call' = [call EXCEPT ![s] = Idle]
       /\ disk' = disk \/ disk' = [disk EXCEPT ![me] = cache']
  BY <1>3 DEF ReceiveMessage, Saves, Writes
<1>11. /\ \A u \in Users \ {me} : disk'[u] = disk[u]
       /\ disk'[me] = disk[me] \/ disk'[me] = cache'
  BY <1>3, <1>10 DEF TInv, TypeOK
<1>12. ASSUME NEW m \in Stored,
              Shows(me, cache'[m], m) \/ Shows(me, disk'[me][m], m)
       PROVE  <<me, m>> \notin gone /\ m \notin {}
  BY <1>3, <1>9, <1>11, <1>12, ShownNotGone
<1>13. {} \in SUBSET Messages
  OBVIOUS
<1> QED BY <1>1, <1>2, <1>10, <1>11, <1>12, <1>13, AnswerHidden

\* The account deleted the message: memory marks it for the side it is on; if it
\* is not cached, the file does not have it either.
LEMMA DeleteHidden ==
  ASSUME TInv, MemoryAhead, Own, Hid, ~overlap, NEW s \in Slots,
         ReceiveDelete(s)
  PROVE  Hid'
<1>1. PICK c : c = call[s]
  OBVIOUS
<1>2. call[s] # Idle /\ c.answer = "ok" /\ c.op = "delete"
  BY <1>1 DEF ReceiveDelete, Received, Idle
<1>3. c \in Calls /\ CallHidden(c) /\ c.access = me /\ me \in Users /\ file = me
  BY <1>1, <1>2, AnswerOf
<1>4. c.id \in Stored /\ c.id \in Messages
  BY <1>2, <1>3, StoredMessages DEF CallHidden, TInv
<1>5. PICK old : old = cache[c.id]
  OBVIOUS
<1>6. PICK marks : marks = DeletedMark(me, c.id)
  OBVIOUS
<1>7. PICK e : e = [old EXCEPT !.tombs = @ \cup marks]
  OBVIOUS
<1>8. old \in Entry /\ marks \subseteq e.tombs
  BY <1>4, <1>5, <1>7 DEF TInv, TypeOK, Entry
<1>9. PICK told : told = IF c.id \in VisibleTo(me) THEN {} ELSE {c.id}
  OBVIOUS
<1>10. told \in SUBSET Messages
       /\ \A m \in told : m \in Stored /\ m \notin VisibleTo(me)
  BY <1>4, <1>9
<1>11. /\ UNCHANGED <<table, file>> /\ call' = [call EXCEPT ![s] = Idle]
       /\ \/ /\ ~old.cached /\ UNCHANGED <<cache, disk>>
             /\ gone' = gone \cup ({me} \X told)
          \/ /\ old.cached /\ cache' = [cache EXCEPT ![c.id] = e]
             /\ \/ /\ disk' = [disk EXCEPT ![me] = cache']
                   /\ gone' = gone \cup ({me} \X told)
                \/ UNCHANGED <<disk, gone>>
  <2>1. {<<me, c.id>>} = {me} \X {c.id} /\ {} = {me} \X {}
    OBVIOUS
  <2>2. (IF c.id \in VisibleTo(me) THEN {} ELSE {<<me, c.id>>}) = {me} \X told
    BY <1>9, <2>1
  <2>3. cache \in [Messages -> Entry]
    BY DEF TInv, TypeOK
  <2>4. [cache EXCEPT ![c.id].tombs = @ \cup marks] = [cache EXCEPT ![c.id] = e]
    BY <1>4, <1>5, <1>7, <2>3
  <2> QED BY <1>1, <1>3, <1>5, <1>6, <2>2, <2>4 DEF ReceiveDelete, Writes
<1>12. ASSUME NEW m \in Stored, Shows(me, cache'[m], m)
       PROVE  m # c.id /\ Shows(me, cache[m], m)
  <2>1. m \in Messages
    BY StoredMessages DEF TInv
  <2>2. CASE ~old.cached
    <3>1. cache' = cache
      BY <1>11, <2>2
    <3> QED BY <1>5, <1>12, <2>2, <3>1 DEF Shows
  <2>3. CASE old.cached
    <3>1. cache'[m] = IF m = c.id THEN e ELSE cache[m]
      BY <1>4, <1>11, <2>1, <2>3 DEF TInv, TypeOK
    <3>2. ~Shows(me, e, c.id)
      BY <1>6, <1>8 DEF Shows, DeletedMark
    <3> QED BY <1>12, <3>1, <3>2
  <2> QED BY <2>2, <2>3
<1>13. /\ \A u \in Users \ {me} : disk'[u] = disk[u]
       /\ disk'[me] = disk[me] \/ disk'[me] = cache'
  BY <1>3, <1>11 DEF TInv, TypeOK
<1>14. CASE gone' = gone
  <2>1. ASSUME NEW m \in Stored,
               Shows(me, cache'[m], m) \/ Shows(me, disk'[me][m], m)
        PROVE  <<me, m>> \notin gone /\ m \notin {}
    BY <1>3, <1>12, <1>13, <2>1, ShownNotGone
  <2>2. {} \in SUBSET Messages /\ gone' = gone \cup ({me} \X {})
    BY <1>14
  <2> QED BY <1>1, <1>2, <1>11, <1>13, <2>1, <2>2, AnswerHidden
<1>15. CASE /\ gone' = gone \cup ({me} \X told)
            /\ \/ ~old.cached /\ UNCHANGED <<cache, disk>>
               \/ disk'[me] = cache'
  <2>1. ASSUME NEW m \in Stored,
               Shows(me, cache'[m], m) \/ Shows(me, disk'[me][m], m)
        PROVE  <<me, m>> \notin gone /\ m \notin told
    <3>1. <<me, m>> \notin gone
      BY <1>3, <1>12, <1>13, <2>1, ShownNotGone
    <3>2. m # c.id
      <4>1. CASE Shows(me, cache'[m], m)
        BY <1>12, <4>1
      <4>2. CASE ~old.cached /\ disk' = disk /\ Shows(me, disk'[me][m], m)
        <5>1. Keeps(disk[me][c.id], old)
          BY <1>1, <1>2, <1>4, <1>5, AnswerOf
        <5> QED BY <4>2, <5>1 DEF Keeps, Shows
      <4> QED BY <1>15, <2>1, <4>1, <4>2
    <3> QED BY <1>9, <3>1, <3>2
  <2> QED BY <1>1, <1>2, <1>10, <1>11, <1>13, <1>15, <2>1, AnswerHidden
<1>16. disk' = [disk EXCEPT ![me] = cache'] => disk'[me] = cache'
  BY <1>3 DEF TInv, TypeOK
<1> QED BY <1>11, <1>14, <1>15, <1>16

\* A list is in: what was hidden when it began is marked, unless it was already.
LEMMA LastPageHidden ==
  ASSUME TInv, MemoryAhead, Own, Hid, ~overlap, NEW s \in Slots, NEW oldest,
         LastPage(s, oldest)
  PROVE  Hid'
<1>1. PICK c : c = call[s]
  OBVIOUS
<1>2. call[s] # Idle /\ c.answer = "ok" /\ c.op \in {"list", "read"}
  BY <1>1 DEF LastPage, Received, Idle
<1>3. c \in Calls /\ CallHidden(c) /\ c.access = me /\ me \in Users /\ file = me
  BY <1>1, <1>2, AnswerOf
<1>4. PICK opens \in BOOLEAN :
        LET part == Saved(cache, Collected(c), oldest + 1)
            after == AfterList(c, oldest)
            opened == Opened(c, after, opens)
        IN /\ cache' = opened
           /\ \/ /\ gone' = gone
                 /\ \/ disk' = disk
                    \/ unlocked /\ disk' = [disk EXCEPT ![file] = part]
              \/ /\ gone' = gone \cup ({c.access} \X c.before)
                 /\ unlocked
                 /\ \/ disk' = [disk EXCEPT ![file] = opened]
                    \/ disk' = [disk EXCEPT ![file] = after]
  BY <1>1, LastPageSaves
<1>5. PICK part, after, opened :
        /\ part = Saved(cache, Collected(c), oldest + 1)
        /\ after = AfterList(c, oldest)
        /\ opened = Opened(c, after, opens)
  OBVIOUS
<1>6. after \in [Messages -> Entry]
  <2>1. oldest \in Nat
    BY LastPageSaves
  <2>2. Grows(cache, after, Got(c))
    BY <1>3, <1>5, <2>1, ListGrows
  <2> QED BY <2>2 DEF Grows
<1>7. ASSUME NEW m \in Stored, Shows(me, after[m], m)
      PROVE  <<me, m>> \notin gone /\ m \notin c.before
  <2>1. \/ m \in Got(c)
        \/ Shows(me, cache[m], m) /\ ~Concerns(me, Head(c.lists), m)
    BY <1>3, <1>5, <1>7, ListShows
  <2>2. CASE m \in Got(c)
    BY <1>2, <1>3, <2>2 DEF CallHidden, Got
  <2>3. CASE Shows(me, cache[m], m) /\ ~Concerns(me, Head(c.lists), m)
    <3>1. <<me, m>> \notin gone
      BY <1>3, <2>3, ShownNotGone
    <3>2. m \notin c.before
      BY <1>2, <1>3, <2>3 DEF CallHidden
    <3> QED BY <3>1, <3>2
  <2> QED BY <2>1, <2>2, <2>3
<1>8. ASSUME NEW m \in Stored, Shows(me, opened[m], m)
      PROVE  Shows(me, after[m], m)
  <2>1. m \in Messages
    BY StoredMessages DEF TInv
  <2>2. CASE opens
    <3>1. opened = MarkedRead(me, c.peer, after)
      BY <1>5, <2>2 DEF Opened
    <3> QED BY <1>6, <1>8, <2>1, <3>1, ReadShows
  <2>3. CASE ~opens
    BY <1>5, <1>8, <2>3 DEF Opened
  <2> QED BY <2>2, <2>3
<1>9. ASSUME NEW m \in Stored, Shows(me, part[m], m)
      PROVE  <<me, m>> \notin gone
  <2>1. m \in Messages
    BY StoredMessages DEF TInv
  <2>2. CASE m \in Got(c)
    BY <1>2, <1>3, <2>2 DEF CallHidden, Got
  <2>3. CASE m \notin Got(c)
    <3>1. part[m] = cache[m]
      BY <1>5, <2>1, <2>3, SavedNone
    <3> QED BY <1>3, <1>9, <3>1, ShownNotGone
  <2> QED BY <2>2, <2>3
<1>10. PICK d : d = IF Tail(c.lists) = <<>> THEN Idle
                    ELSE FirstPage(c, Tail(c.lists), AccessToken)
  OBVIOUS
<1>11. UNCHANGED <<table, me, file>> /\ call' = [call EXCEPT ![s] = d]
  BY <1>1, <1>10 DEF LastPage
<1>12. ASSUME d # Idle
       PROVE  CallHidden(d)'
  <2>1. PICK more : more = Tail(c.lists)
    OBVIOUS
  <2>2. more # <<>> /\ d = FirstPage(c, more, me)
    BY <1>10, <1>12, <2>1 DEF AccessToken
  <2>3. more \in Seq(Directions)
    <3>1. CallShaped(c)
      BY <1>1 DEF TInv
    <3> QED BY <1>2, <1>3, <2>1, <3>1, HeadTailProperties
            DEF Calls, CallShaped
  <2>4. /\ d.op = c.op /\ d.lists = more /\ d.access = me
        /\ d.found = {} /\ d.page = {} /\ d.answer = "none"
        /\ d.before = Hidden(me, Head(more))
    BY <1>2, <1>3, <2>2, <2>3, FirstPageShaped DEF TInv
  <2>5. \A m \in d.before : m \in Stored /\ Concerns(me, Head(more), m)
                            /\ m \notin VisibleTo(me)
    BY <2>4 DEF Hidden
  <2>6. ASSUME NEW m \in d.before
        PROVE  Concerns(me, Head(more), m)' /\ m \notin VisibleTo(me)'
    BY <1>11, <2>5 DEF Concerns, VisibleTo, Listed, Stored
  <2> QED BY <1>2, <1>3, <1>11, <2>4, <2>6 DEF CallHidden
<1>13. CASE /\ gone' = gone
            /\ disk' = disk \/ disk' = [disk EXCEPT ![file] = part]
  <2>1. /\ \A u \in Users \ {me} : disk'[u] = disk[u]
        /\ disk'[me] = disk[me] \/ disk'[me] = part
    BY <1>3, <1>13 DEF TInv, TypeOK
  <2>2. ASSUME NEW m \in Stored,
               Shows(me, cache'[m], m) \/ Shows(me, disk'[me][m], m)
        PROVE  <<me, m>> \notin gone /\ m \notin {}
    BY <1>3, <1>4, <1>5, <1>7, <1>8, <1>9, <2>1, <2>2, ShownNotGone
  <2>3. {} \in SUBSET Messages /\ gone' = gone \cup ({me} \X {})
    BY <1>13
  <2> QED BY <1>1, <1>2, <1>11, <1>12, <2>1, <2>2, <2>3, AnswerHidden
<1>14. CASE /\ gone' = gone \cup ({me} \X c.before)
            /\ \/ disk' = [disk EXCEPT ![file] = opened]
               \/ disk' = [disk EXCEPT ![file] = after]
  <2>1. /\ \A u \in Users \ {me} : disk'[u] = disk[u]
        /\ disk'[me] = opened \/ disk'[me] = after
    BY <1>3, <1>14 DEF TInv, TypeOK
  <2>2. ASSUME NEW m \in Stored,
               Shows(me, cache'[m], m) \/ Shows(me, disk'[me][m], m)
        PROVE  <<me, m>> \notin gone /\ m \notin c.before
    BY <1>4, <1>5, <1>7, <1>8, <2>1, <2>2
  <2>3. c.before \in SUBSET Messages
        /\ \A m \in c.before : m \in Stored /\ m \notin VisibleTo(me)
    BY <1>2, <1>3 DEF Calls, CallHidden, Concerns
  <2> QED BY <1>1, <1>2, <1>11, <1>12, <1>14, <2>1, <2>2, <2>3, AnswerHidden
<1> QED BY <1>3, <1>4, <1>5, <1>13, <1>14

\* Other clients change the table.
LEMMA OthersHidden ==
  ASSUME TInv, Hid, ~overlap, HidesMore, UNCHANGED <<client, gone>>,
         call' = Stirred
  PROVE  Hid'
<1>1. \A t \in Slots : call'[t] # Idle => CallHidden(call[t])'
  BY StirredHidden
<1> QED BY <1>1, SameSees, HiddenGoesOn

\* Somebody signs in or out while nothing is in flight, or it overlaps; or
\* something else is saved: memory and the files show what they showed.
LEMMA AccountHidden ==
  ASSUME TInv, Hid,
         \/ \E u \in Users : SignIn(u) \/ SignInFails(u)
         \/ SignOut \/ SaveOther \/ Restart
  PROVE  Hid'
<1>1. CASE overlap'
  BY <1>1 DEF Hid, HiddenIsHidden
<1>2. CASE ~overlap'
  <2>1. \/ \E u \in Users : SignIn(u)
        \/ SignOut \/ SaveOther \/ Restart
    BY <1>2 DEF SignInFails
  <2>2. UNCHANGED <<table, gone>>
    <3>1. ASSUME NEW u \in Users, SignIn(u)
          PROVE  UNCHANGED <<table, gone>>
      BY <3>1 DEF SignIn
    <3>2. CASE SignOut
      BY <3>2 DEF SignOut
    <3>3. CASE SaveOther \/ Restart
      BY <3>3 DEF SaveOther, Restart
    <3> QED BY <2>1, <3>1, <3>2, <3>3
  <2>3. ~overlap /\ (call' = call \/ \A t \in Slots : call'[t] = Idle)
    <3>1. ASSUME NEW u \in Users, SignIn(u)
          PROVE  ~overlap /\ call' = call
      BY <1>2, <3>1 DEF SignIn
    <3>2. CASE SignOut
      BY <1>2, <3>2 DEF SignOut
    <3>3. CASE SaveOther \/ Restart
      BY <1>2, <3>3 DEF SaveOther, Restart
    <3> QED BY <2>1, <3>1, <3>2, <3>3
  <2>4. SeesNoMore
    <3> SUFFICES ASSUME NEW v \in Users, NEW m \in Stored, Sees(v, m)'
                 PROVE  Sees(v, m)
      BY DEF SeesNoMore
    <3>0. /\ disk \in [Users -> [Messages -> Entry]] /\ file \in Users
          /\ m \in Messages
      BY StoredMessages DEF TInv, TypeOK
    <3>1. \/ Shows(v, disk'[v][m], m)
          \/ file' = v /\ Shows(v, cache'[m], m)
      BY <2>2, SeesThen
    <3>2. \/ Shows(v, disk[v][m], m)
          \/ file = v /\ Shows(v, cache[m], m)
      <4>1. CASE \E u \in Users : SignIn(u)
        BY <3>1, <4>1 DEF SignIn, Reloaded, FileFor
      <4>2. CASE SignOut \/ SaveOther
        <5>1. /\ UNCHANGED <<file, cache>>
              /\ disk' = disk \/ disk' = [disk EXCEPT ![file] = cache]
          BY <4>2 DEF SignOut, SaveOther, Writes
        <5>2. disk'[v] = disk[v] \/ (file = v /\ disk'[v] = cache)
          BY <3>0, <5>1
        <5> QED BY <3>1, <5>1, <5>2
      <4>3. CASE Restart
        <5>1. /\ UNCHANGED <<file, disk>>
              /\ cache' = NothingCached \/ cache' = disk[file]
          BY <4>3 DEF Restart
        <5>2. ~Shows(v, NothingCached[m], m)
          BY <3>0, NothingTyped DEF Shows
        <5> QED BY <3>1, <5>1, <5>2
      <4> QED BY <2>1, <4>1, <4>2, <4>3
    <3> QED BY <2>2, <3>2, SeesThen
  <2>5. ASSUME NEW t \in Slots, call'[t] # Idle
        PROVE  CallHidden(call[t])'
    <3>1. call' = call /\ CallHidden(call[t])
      BY <2>3, <2>5 DEF Hid, InFlight
    <3> QED BY <2>2, <3>1 DEF CallHidden, Concerns, VisibleTo, Listed, Stored
  <2> QED BY <2>2, <2>3, <2>4, <2>5, SameHides, HiddenGoesOn
<1> QED BY <1>1, <1>2

\* Every step keeps what is hidden hidden.
LEMMA StepHidden ==
  ASSUME TInv, MemoryAhead, Own, Hid, [Next]_vars
  PROVE  Hid'
<1>1. ASSUME NEW s \in Slots, Command(s)
      PROVE  Hid'
  BY <1>1, CommandBegins, BeginHidden
<1>2. ASSUME overlap, UNCHANGED overlap
      PROVE  Hid'
  BY <1>2 DEF Hid, HiddenIsHidden
<1>3. ASSUME NEW s \in Slots, Serve(s) \/ Fails(s) \/ Receive(s)
      PROVE  Hid'
  <2>1. UNCHANGED overlap
    BY <1>3 DEF Serve, ServePage, ServeRevoke, ServeDelete, ServeSend, Fails,
                Receive, NextPage, LastPage, ReceiveMessage, ReceiveDelete
  <2>2. CASE ~overlap
    BY <1>3, <2>2, ServePageHidden, ServeHidden, FailsHidden, NextPageHidden,
       LastPageHidden, MessageHidden, DeleteHidden DEF Serve, Receive
  <2> QED BY <1>2, <2>1, <2>2
<1>4. ASSUME NEW u \in Users, NEW v \in Users, Post(u, v)
      PROVE  Hid'
  <2> DEFINE r == [from |-> u, to |-> v, hidden |-> {}]
  <2>1. Len(table) < MaxMessages /\ table' = Append(table, r) /\ r \in Row
    BY <1>4 DEF Post, Row
  <2> HIDE DEF r
  <2>2. HidesMore
    BY <2>1, AppendHides DEF TInv
  <2> QED BY <1>2, <1>4, <2>2, OthersHidden DEF Post
<1>5. ASSUME NEW u \in Users, NEW m \in Messages, NEW column \in Columns,
             Hide(u, m, column)
      PROVE  Hid'
  <2>1. m \in Stored /\ {column} \in SUBSET Columns
    BY <1>5 DEF Hide
  <2>2. HidesMore
    BY <1>5, <2>1, MarkHides DEF Hide, TInv
  <2> QED BY <1>2, <1>5, <2>2, OthersHidden DEF Hide
<1>6. CASE UNCHANGED vars
  BY <1>6 DEF vars, client, Hid, HiddenIsHidden, ShownIn, Shows, GoneHidden,
              InFlight, CallHidden, Concerns, VisibleTo, Listed, Stored, Sees
<1> QED
  BY <1>1, <1>3, <1>4, <1>5, <1>6, AccountHidden DEF Next

\* Nothing is hidden and nothing in flight at first.
LEMMA InitHidden ==
  ASSUME Init
  PROVE  Hid
<1>1. InFlight = {} /\ gone = {}
  BY DEF Init, InFlight
<1> QED BY <1>1 DEF Hid, HiddenIsHidden, GoneHidden

\* The inductive invariant behind it: who was told that a message is hidden
\* cannot see it at the server, and no request brings it back.
THEOREM HiddenInvariance == Spec => []HInv
<1>1. Init => HInv
  BY InitTyped, InitAhead, InitOwn, InitHidden, HInvParts
<1>2. HInv /\ [Next]_vars => HInv'
  <2>1. HInv' <=> (TInv' /\ MemoryAhead' /\ Own' /\ Hid')
    BY HInvParts, PTL
  <2> QED BY <2>1, HInvParts, StepTyped, StepAhead, StepOwn, StepHidden
<1> QED BY <1>1, <1>2, PTL DEF Spec

\* As long as commands do not overlap, what was hidden from the account when a
\* list began, or was deleted by it, is not shown again once that was saved,
\* neither from memory nor from the file, however many pages a list has and
\* however they shifted, whatever saves fail and whoever logs in or out, or
\* restarts, in between (reconcileVisibleMessages, load).
THEOREM HiddenStaysHidden == Spec => []HiddenIsHidden
<1>1. HInv => HiddenIsHidden
  BY DEF HInv
<1> QED BY <1>1, HiddenInvariance, PTL

-----------------------------------------------------------------------------
(* A list that nothing disturbs is exact *)

\* The position of x in a set of numbers, from the greatest down.
Rank(L, x) == Cardinality({n \in L : n > x})

\* The positions of a finite set are the numbers below its size, each taken
\* once.
LEMMA RanksOf ==
  ASSUME NEW L \in SUBSET Nat, IsFiniteSet(L)
  PROVE  /\ Cardinality(L) \in Nat
         /\ [x \in L |-> Rank(L, x)] \in Bijection(L, 0..(Cardinality(L) - 1))
<1> DEFINE N == Cardinality(L)
           I == 0..(N - 1)
           above(x) == {n \in L : n > x}
           f == [x \in L |-> Rank(L, x)]
<1>1. N \in Nat
  BY FS_CardinalityType
<1>2. ASSUME NEW x \in L
      PROVE  /\ IsFiniteSet(above(x))
             /\ Rank(L, x) \in I
  <2>1. above(x) \in SUBSET L /\ x \in L \ above(x)
    OBVIOUS
  <2> DEFINE A == above(x)
  <2> HIDE DEF A
  <2>2. A \in SUBSET L /\ A # L
    BY <2>1 DEF A
  <2>3. IsFiniteSet(A) /\ Cardinality(A) <= N /\ N # Cardinality(A)
    BY <2>2, FS_Subset
  <2>4. Cardinality(A) \in Nat
    BY <2>3, FS_CardinalityType
  <2> QED BY <1>1, <2>3, <2>4 DEF A, Rank
<1>3. ASSUME NEW x \in L, NEW y \in L, x < y
      PROVE  Rank(L, x) # Rank(L, y)
  <2>1. x \in Nat /\ y \in Nat /\ \A n \in L : n > y => n > x
    BY <1>3
  <2>2. PICK A : A = above(x)
    OBVIOUS
  <2>3. PICK B : B = above(y)
    OBVIOUS
  <2>4. IsFiniteSet(A) /\ B \in SUBSET A /\ A # B
    <3>1. y \in A /\ y \notin B
      BY <1>3, <2>1, <2>2, <2>3
    <3> QED BY <1>2, <2>1, <2>2, <2>3, <3>1
  <2>5. Cardinality(A) # Cardinality(B)
    BY <2>4, FS_Subset
  <2> QED BY <2>2, <2>3, <2>5 DEF Rank
<1>4. f \in [L -> I]
  BY <1>2
<1>5. \A x, y \in L : f[x] = f[y] => x = y
  <2> SUFFICES ASSUME NEW x \in L, NEW y \in L, f[x] = f[y], x # y
               PROVE  FALSE
    OBVIOUS
  <2>1. x < y \/ y < x
    OBVIOUS
  <2> QED BY <1>3, <2>1
<1>6. IsFiniteSet(I) /\ Cardinality(I) = N
  <2>1. 0 \in Int /\ N - 1 \in Int
    BY <1>1
  <2>2. IsFiniteSet(I)
        /\ Cardinality(I) = IF 0 > N - 1 THEN 0 ELSE N - 1 - 0 + 1
    BY <2>1, FS_Interval
  <2> HIDE DEF I
  <2> QED BY <1>1, <2>2
<1> HIDE DEF f, I
<1>7. f \in Injection(L, I)
  BY <1>4, <1>5, Fun_IsInj
<1>8. f \in Surjection(L, I)
  BY <1>6, <1>7, FS_Injection
<1> QED BY <1>1, <1>7, <1>8, Fun_IsBij DEF f, I

\* If there is something beyond a stretch of positions, the stretch is full.
LEMMA StretchFull ==
  ASSUME NEW L \in SUBSET Nat, IsFiniteSet(L), NEW low \in Nat,
         NEW size \in Nat, NEW x \in L, Rank(L, x) >= low + size
  PROVE  LET D == {m \in L : Rank(L, m) \in low..(low + size - 1)}
         IN  IsFiniteSet(D) /\ Cardinality(D) = size
<1> DEFINE I == 0..(Cardinality(L) - 1)
           J == low..(low + size - 1)
           D == {m \in L : Rank(L, m) \in J}
           f == [m \in L |-> Rank(L, m)]
           g == [m \in D |-> Rank(L, m)]
<1>1. Cardinality(L) \in Nat /\ f \in Bijection(L, I)
  BY RanksOf
<1>2. /\ f \in [L -> I]
      /\ \A a, b \in L : f[a] = f[b] => a = b
      /\ \A t \in I : \E m \in L : f[m] = t
  <2> HIDE DEF f, I
  <2>1. f \in [L -> I] /\ f \in Surjection(L, I)
        /\ \A a, b \in L : f[a] = f[b] => a = b
    BY <1>1, Fun_BijectionProperties
  <2> QED BY <2>1 DEF Surjection
<1>3. \A m \in L : f[m] = Rank(L, m)
  OBVIOUS
<1>4. J \subseteq I
  <2>1. Rank(L, x) \in I
    BY <1>2, <1>3
  <2> QED BY <1>1, <2>1
<1>5. g \in [D -> J] /\ \A m \in D : g[m] = f[m]
  OBVIOUS
<1>6. \A t \in J : \E m \in D : g[m] = t
  <2> SUFFICES ASSUME NEW t \in J
               PROVE  \E m \in D : g[m] = t
    OBVIOUS
  <2>1. PICK m \in L : f[m] = t
    BY <1>2, <1>4
  <2>2. m \in D
    BY <1>3, <2>1
  <2> QED BY <1>5, <2>1, <2>2
<1>7. \A a, b \in D : g[a] = g[b] => a = b
  BY <1>2, <1>5
<1>8. IsFiniteSet(D) /\ IsFiniteSet(J) /\ Cardinality(J) = size
  <2>1. D \in SUBSET L /\ low \in Int /\ low + size - 1 \in Int
    OBVIOUS
  <2>2. IsFiniteSet(J)
        /\ Cardinality(J) = IF low > low + size - 1 THEN 0
                            ELSE low + size - 1 - low + 1
    BY <2>1, FS_Interval
  <2> HIDE DEF D, J
  <2>3. IsFiniteSet(D)
    BY <2>1, FS_Subset
  <2> QED BY <2>2, <2>3
<1> HIDE DEF g, D, J
<1>9. g \in Bijection(D, J)
  BY <1>5, <1>6, <1>7, Fun_IsBij
<1>10. ExistsBijection(D, J)
  BY <1>9 DEF ExistsBijection
<1>11. Cardinality(J) = Cardinality(D)
  BY <1>8, <1>10, FS_Bijection
<1> QED BY <1>8, <1>11 DEF D, J

\* What is listed are finitely many messages of the table.
LEMMA ListedFinite ==
  ASSUME TypeOK, NEW u, NEW dir
  PROVE  /\ IsFiniteSet(Listed(u, dir))
         /\ Listed(u, dir) \in SUBSET Stored
         /\ Listed(u, dir) \in SUBSET Nat
<1>1. Stored = 1..Len(table) /\ Len(table) \in Nat
  BY StoredMessages
<1>2. Listed(u, dir) \in SUBSET Stored
  BY DEF Listed
<1>3. IsFiniteSet(Stored)
  BY <1>1, FS_Interval
<1> QED BY <1>1, <1>2, <1>3, FS_Subset

\* Before, Page and Rank: the positions of a list.
LEMMA PagesByRank ==
  ASSUME TypeOK, NEW u, NEW dir, NEW offset \in Nat
  PROVE  LET L == Listed(u, dir) IN
         /\ \A m \in L : Rank(L, m) \in Nat
         /\ Before(u, dir, offset) = {m \in L : Rank(L, m) < offset}
         /\ Page(u, dir, offset) =
              {m \in L : Rank(L, m) \in offset..(offset + PageSize - 1)}
<1> DEFINE L == Listed(u, dir)
<1>1. \A m \in L : Rank(L, m) \in Nat
  <2> SUFFICES ASSUME NEW m \in L
               PROVE  Rank(L, m) \in Nat
    OBVIOUS
  <2>1. {n \in L : n > m} \in SUBSET L /\ IsFiniteSet(L)
    BY ListedFinite
  <2>2. PICK A \in SUBSET L : A = {n \in L : n > m}
    BY <2>1
  <2>3. Cardinality(A) \in Nat
    BY <2>1, FS_Subset, FS_CardinalityType
  <2> QED BY <2>2, <2>3 DEF Rank
<1>2. Before(u, dir, offset) = {m \in L : Rank(L, m) < offset}
  BY DEF Before, Rank
<1>3. Page(u, dir, offset) =
        {m \in L : Rank(L, m) \in offset..(offset + PageSize - 1)}
  BY DEF Page, Rank
<1> QED BY <1>1, <1>2, <1>3

\* The next page goes on where the last one ended.
LEMMA PageGoesOn ==
  ASSUME TypeOK, NEW u, NEW dir, NEW offset \in Nat
  PROVE  Before(u, dir, offset + PageSize) =
           Before(u, dir, offset) \cup Page(u, dir, offset)
<1> DEFINE L == Listed(u, dir)
<1>1. PageSize \in Nat \ {0} /\ offset + PageSize \in Nat
  BY SyncAssumption
<1>2. \A m \in L : Rank(L, m) \in Nat
  BY PagesByRank
<1>3. Before(u, dir, offset) = {m \in L : Rank(L, m) < offset}
      /\ Page(u, dir, offset) =
           {m \in L : Rank(L, m) \in offset..(offset + PageSize - 1)}
  BY PagesByRank
<1>4. Before(u, dir, offset + PageSize) =
        {m \in L : Rank(L, m) < offset + PageSize}
  BY <1>1, PagesByRank
<1> HIDE DEF L
<1>5. \A m \in L : Rank(L, m) < offset + PageSize <=>
        Rank(L, m) < offset \/ Rank(L, m) \in offset..(offset + PageSize - 1)
  BY <1>1, <1>2
<1> QED BY <1>3, <1>4, <1>5

\* Each message of a page is sent once.
LEMMA PageCopies ==
  ASSUME NEW P, IsFiniteSet(P)
  PROVE  Cardinality({CopyOf(m) : m \in P}) = Cardinality(P)
<1> DEFINE C == {CopyOf(m) : m \in P}
           f == [m \in P |-> CopyOf(m)]
<1>1. \A m : CopyOf(m).id = m
  BY DEF CopyOf
<1>2. f \in [P -> C] /\ \A m \in P : f[m] = CopyOf(m)
  OBVIOUS
<1>3. \A a, b \in P : f[a] = f[b] => a = b
  BY <1>1, <1>2
<1>4. \A t \in C : \E m \in P : f[m] = t
  OBVIOUS
<1> HIDE DEF f, C
<1>5. f \in Bijection(P, C)
  BY <1>2, <1>3, <1>4, Fun_IsBij
<1>6. ExistsBijection(P, C)
  BY <1>5 DEF ExistsBijection
<1>7. Cardinality(C) = Cardinality(P)
  BY <1>6, FS_Bijection
<1> QED BY <1>7 DEF C

\* A page that is not full is the last one (fetchMessages).
LEMMA ShortPageLast ==
  ASSUME TypeOK, NEW u, NEW dir, NEW offset \in Nat,
         Cardinality({CopyOf(m) : m \in Page(u, dir, offset)}) < PageSize
  PROVE  Before(u, dir, offset) \cup Page(u, dir, offset) = Listed(u, dir)
<1> DEFINE L == Listed(u, dir)
<1>1. PageSize \in Nat \ {0} /\ offset + PageSize \in Nat
  BY SyncAssumption
<1>2. L \in SUBSET Nat /\ IsFiniteSet(L)
  BY ListedFinite
<1>3. Page(u, dir, offset) =
        {m \in L : Rank(L, m) \in offset..(offset + PageSize - 1)}
  BY PagesByRank
<1>4. \A m \in L : Rank(L, m) < offset + PageSize
  <2> SUFFICES ASSUME NEW m \in L, ~(Rank(L, m) < offset + PageSize)
               PROVE  FALSE
    OBVIOUS
  <2>1. Rank(L, m) \in Nat
    BY PagesByRank
  <2>2. Rank(L, m) >= offset + PageSize
    BY <1>1, <2>1
  <2> HIDE DEF L
  <2>3. IsFiniteSet(Page(u, dir, offset))
        /\ Cardinality(Page(u, dir, offset)) = PageSize
    BY <1>1, <1>2, <1>3, <2>2, StretchFull
  <2> QED BY <1>1, <2>3, PageCopies
<1>5. Before(u, dir, offset + PageSize) = L
  <2>1. Before(u, dir, offset + PageSize) =
          {m \in L : Rank(L, m) < offset + PageSize}
    BY <1>1, PagesByRank
  <2> QED BY <1>4, <2>1
<1> QED BY <1>5, PageGoesOn

\* What EInv says beyond HInv: about memory and the files, and about the lists.
AllNeat == Neat(cache) /\ \A u \in Users : Neat(disk[u])

Exact == ~overlap => \A s \in InFlight : CallExact(call[s])

\* The parts in which the invariant is proved.
LEMMA EInvParts ==
  EInv <=> TInv /\ MemoryAhead /\ Own /\ Hid /\ AllNeat /\ Exact
BY HInvParts DEF EInv, AllNeat, Exact

\* An answer marks no message that memory does not have, in memory or on its way
\* into the file.
LEMMA ReceiptNeat ==
  ASSUME TInv, AllNeat, NEW s \in Slots, Receipt(s)
  PROVE  AllNeat'
<1>1. PICK kept :
        /\ Grows(cache, kept, Got(call[s])) /\ Grows(kept, cache', Got(call[s]))
        /\ disk' = disk \/ (unlocked /\ disk' = [disk EXCEPT ![file] = kept])
  BY DEF Receipt
<1>2. ASSUME NEW e, NEW f, NEW new, Grows(e, f, new), Neat(e)
      PROVE  Neat(f)
  BY <1>2 DEF Grows, Stays, Keeps, Neat
<1>3. Neat(kept) /\ Neat(cache')
  BY <1>1, <1>2 DEF AllNeat
<1>4. \A u \in Users : disk'[u] = disk[u] \/ disk'[u] = kept
  BY <1>1 DEF TInv, TypeOK
<1>5. \A u \in Users : Neat(disk'[u])
  BY <1>3, <1>4 DEF AllNeat
<1> QED BY <1>3, <1>5 DEF AllNeat, Neat

\* Somebody signs in or out, something else is saved, or the program restarts.
LEMMA AccountNeat ==
  ASSUME TInv, AllNeat,
         \/ \E u \in Users : SignIn(u) \/ SignInFails(u)
         \/ SignOut \/ SaveOther \/ Restart
  PROVE  AllNeat'
<1>1. Neat(NothingCached)
  BY NothingTyped DEF Neat
<1>2. cache' = cache \/ cache' = NothingCached
      \/ \E u \in Users : cache' = disk[u]
  <2>1. ASSUME NEW u \in Users, SignIn(u) \/ SignInFails(u)
        PROVE  cache' = cache \/ cache' = NothingCached \/ cache' = disk[u]
    BY <2>1 DEF SignIn, SignInFails, Reloaded, FileFor
  <2>2. CASE SignOut \/ SaveOther
    BY <2>2 DEF SignOut, SaveOther
  <2>3. CASE Restart
    BY <2>3 DEF Restart, TInv, TypeOK
  <2> QED BY <2>1, <2>2, <2>3
<1>3. disk' = disk \/ disk' = [disk EXCEPT ![file] = cache]
  BY DEF SignIn, SignInFails, SignOut, SaveOther, Restart, Writes
<1>4. \A u \in Users : disk'[u] = disk[u] \/ disk'[u] = cache
  BY <1>3 DEF TInv, TypeOK
<1>5. Neat(cache')
  BY <1>1, <1>2 DEF AllNeat
<1>6. \A u \in Users : Neat(disk'[u])
  BY <1>4 DEF AllNeat
<1> QED BY <1>5, <1>6 DEF AllNeat, Neat

\* No step marks a message that is not cached.
LEMMA StepNeat ==
  ASSUME TInv, AllNeat, [Next]_vars
  PROVE  AllNeat'
<1>1. ASSUME UNCHANGED client
      PROVE  AllNeat'
  BY <1>1 DEF client, AllNeat, Neat
<1>2. ASSUME NEW s \in Slots, Command(s)
      PROVE  AllNeat'
  BY <1>1, <1>2, CommandBegins DEF Begin
<1>3. ASSUME NEW s \in Slots, Serve(s) \/ Fails(s)
      PROVE  AllNeat'
  <2>1. UNCHANGED client
    BY <1>3 DEF Serve, ServePage, ServeRevoke, ServeDelete, ServeSend, Fails
  <2> QED BY <1>1, <2>1
<1>4. ASSUME NEW s \in Slots, Receive(s)
      PROVE  AllNeat'
  BY <1>4, ReceiveReceipt, ReceiptNeat
<1>5. ASSUME NEW u \in Users, NEW v \in Users, Post(u, v)
      PROVE  AllNeat'
  BY <1>1, <1>5 DEF Post
<1>6. ASSUME NEW u \in Users, NEW m \in Messages, NEW column \in Columns,
             Hide(u, m, column)
      PROVE  AllNeat'
  BY <1>1, <1>6 DEF Hide
<1>7. CASE UNCHANGED vars
  BY <1>1, <1>7 DEF vars, client
<1> QED
  BY <1>2, <1>3, <1>4, <1>5, <1>6, <1>7, AccountNeat DEF Next

\* A step that changes one call, and not the table.
LEMMA OneCallExact ==
  ASSUME TInv, Exact, UNCHANGED table, ~overlap, NEW s \in Slots, NEW d,
         call' = [call EXCEPT ![s] = d], d # Idle => CallExact(d)
  PROVE  Exact'
<1>1. \A t \in Slots : call'[t] = IF t = s THEN d ELSE call[t]
  BY DEF TInv, TypeOK
<1> SUFFICES ASSUME NEW t \in Slots, call'[t] # Idle
             PROVE  CallExact(call[t])'
  BY DEF Exact, InFlight
<1>2. PICK e : e = call'[t]
  OBVIOUS
<1>3. CallExact(e)
  BY <1>1, <1>2 DEF Exact, InFlight
<1>4. CallExact(call[t])' <=> CallExact(e)
  BY <1>2 DEF CallExact, Before, Page, Listed, Stored, CopyOf
<1> QED BY <1>3, <1>4

\* A list that begins has got nothing, and nothing comes before its offset.
LEMMA FreshExact ==
  ASSUME TypeOK, NEW c, c.offset = 0, c.found = {}, c.page = {},
         c.answer = "none"
  PROVE  CallExact(c)
<1>1. Before(c.access, Head(c.lists), 0) = {}
  <2>1. \A m \in Listed(c.access, Head(c.lists)) :
          Rank(Listed(c.access, Head(c.lists)), m) \in Nat
    BY PagesByRank
  <2>2. Before(c.access, Head(c.lists), 0) =
          {m \in Listed(c.access, Head(c.lists)) :
             Rank(Listed(c.access, Head(c.lists)), m) < 0}
    BY PagesByRank
  <2> QED BY <2>1, <2>2
<1> QED BY <1>1 DEF CallExact

\* A command begins.
LEMMA BeginExact ==
  ASSUME TInv, Exact, NEW s \in Slots, NEW c \in Calls, Fresh(c), Begin(s, c)
  PROVE  Exact'
<1>1. CASE overlap'
  BY <1>1 DEF Exact
<1>2. CASE ~overlap'
  <2>1. ~overlap /\ UNCHANGED table /\ call' = [call EXCEPT ![s] = c]
    BY <1>2 DEF Begin
  <2>2. CallExact(c)
    BY FreshExact DEF Fresh, TInv
  <2> QED BY <2>1, <2>2, OneCallExact
<1> QED BY <1>1, <1>2

\* Once the table has changed, no list counts as undisturbed.
LEMMA StirredExact ==
  ASSUME TInv, \A t \in Slots : ~call'[t].quiet
  PROVE  Exact'
BY DEF Exact, InFlight, CallExact

\* The server changed the table and answered a request.
LEMMA StirredServeExact ==
  ASSUME TInv, NEW s \in Slots,
         ServeRevoke(s) \/ ServeDelete(s) \/ ServeSend(s)
  PROVE  Exact'
<1>1. Stirred \in [Slots -> Calls] /\ \A t \in Slots : ~Stirred[t].quiet
  BY StirredShaped DEF TInv
<1>2. ASSUME NEW p, call' = [Stirred EXCEPT ![s].answer = "ok", ![s].page = p]
      PROVE  \A t \in Slots : ~call'[t].quiet
  <2>1. PICK e : e = Stirred[s]
    OBVIOUS
  <2>2. PICK d : d = [e EXCEPT !.answer = "ok", !.page = p]
    OBVIOUS
  <2>3. ~d.quiet
    BY <1>1, <2>1, <2>2 DEF Calls
  <2>4. call' = [Stirred EXCEPT ![s] = d]
    BY <1>1, <1>2, <2>1, <2>2
  <2> QED BY <1>1, <2>3, <2>4
<1>3. ASSUME call' = [Stirred EXCEPT ![s].answer = "ok"]
      PROVE  \A t \in Slots : ~call'[t].quiet
  <2>1. PICK e : e = Stirred[s]
    OBVIOUS
  <2>2. PICK d : d = [e EXCEPT !.answer = "ok"]
    OBVIOUS
  <2>3. ~d.quiet
    BY <1>1, <2>1, <2>2 DEF Calls
  <2>4. call' = [Stirred EXCEPT ![s] = d]
    BY <1>1, <1>3, <2>1, <2>2
  <2> QED BY <1>1, <2>3, <2>4
<1>4. \A t \in Slots : ~call'[t].quiet
  BY <1>2, <1>3 DEF ServeRevoke, ServeDelete, ServeSend
<1> QED BY <1>4, StirredExact

\* The page that a request is answered with is the one at its offset.
LEMMA ServePageExact ==
  ASSUME TInv, Exact, ~overlap, NEW s \in Slots, ServePage(s)
  PROVE  Exact'
<1> DEFINE c == call[s]
           p == {CopyOf(m) : m \in Page(c.access, Head(c.lists), c.offset)}
<1>1. c # Idle /\ c \in Calls /\ call \in [Slots -> Calls]
      /\ c.op \in {"list", "read"} /\ UNCHANGED table
  BY DEF ServePage, Waiting, Idle, TInv, TypeOK
<1>2. CallExact(c)
  BY <1>1 DEF Exact, InFlight
<1>3. PICK q : q = p
  OBVIOUS
<1>4. PICK d : d = [c EXCEPT !.answer = "ok", !.page = q]
  OBVIOUS
<1>5. call' = [call EXCEPT ![s] = d]
  BY <1>1, <1>3, <1>4 DEF ServePage
<1>6. /\ d.op = c.op /\ d.lists = c.lists /\ d.access = c.access
      /\ d.found = c.found /\ d.page = q /\ d.offset = c.offset
      /\ d.quiet = c.quiet /\ d.answer = "ok"
  BY <1>1, <1>4 DEF Calls
<1>7. CallExact(d)
  BY <1>2, <1>3, <1>6 DEF CallExact
<1> QED BY <1>1, <1>5, <1>7, OneCallExact

\* A full page is in, and the next one is asked for.
LEMMA NextPageExact ==
  ASSUME TInv, MemoryAhead, Own, Exact, ~overlap, NEW s \in Slots, NextPage(s)
  PROVE  Exact'
<1>1. PICK c : c = call[s]
  OBVIOUS
<1>2. c \in Calls /\ c # Idle /\ c.op \in {"list", "read"} /\ c.answer = "ok"
  BY <1>1 DEF NextPage, Received, Idle, TInv, TypeOK
<1>3. CallExact(c) /\ c.access = me
  BY <1>1, <1>2 DEF Exact, Own, Apart, CallOwn, InFlight
<1>4. PICK d : d = [c EXCEPT !.offset = c.offset + PageSize,
                             !.found = c.found \cup c.page,
                             !.page = {}, !.access = c.access,
                             !.answer = "none"]
  OBVIOUS
<1>5. AskAs(c.access) = c.access
  BY <1>3 DEF AskAs
<1>6. call' = [call EXCEPT ![s] = d]
  BY <1>1, <1>2, <1>4, <1>5 DEF NextPage, NextOffset, Calls
<1>7. /\ d.op = c.op /\ d.lists = c.lists /\ d.access = c.access
      /\ d.found = c.found \cup c.page /\ d.page = {}
      /\ d.offset = c.offset + PageSize
      /\ d.quiet = c.quiet /\ d.answer = "none"
  BY <1>2, <1>4 DEF Calls
<1>8. CallExact(d)
  <2> SUFFICES ASSUME c.quiet
               PROVE  d.found = {CopyOf(m) : m \in
                        Before(d.access, Head(d.lists), d.offset)}
    BY <1>7 DEF CallExact
  <2>1. c.offset \in Nat
    BY <1>2 DEF Calls
  <2> DEFINE B == Before(c.access, Head(c.lists), c.offset)
             P == Page(c.access, Head(c.lists), c.offset)
  <2>2. c.found = {CopyOf(m) : m \in B} /\ c.page = {CopyOf(m) : m \in P}
    BY <1>2, <1>3 DEF CallExact
  <2>3. Before(c.access, Head(c.lists), c.offset + PageSize) = B \cup P
    BY <2>1, PageGoesOn DEF TInv
  <2> HIDE DEF B, P
  <2>4. {CopyOf(m) : m \in B} \cup {CopyOf(m) : m \in P} =
          {CopyOf(m) : m \in B \cup P}
    OBVIOUS
  <2> QED BY <1>7, <2>2, <2>3, <2>4
<1> QED BY <1>6, <1>8, OneCallExact DEF NextPage

\* A list is in, and the next one of the command begins, or none.
LEMMA LastPageExact ==
  ASSUME TInv, Exact, ~overlap, NEW s \in Slots, NEW oldest,
         LastPage(s, oldest)
  PROVE  Exact'
<1>1. PICK c : c = call[s]
  OBVIOUS
<1>2. c \in Calls /\ c.op \in {"list", "read"} /\ CallShaped(c)
  BY <1>1 DEF LastPage, Received, TInv, TypeOK
<1>3. PICK d : d = IF Tail(c.lists) = <<>> THEN Idle
                   ELSE FirstPage(c, Tail(c.lists), AccessToken)
  OBVIOUS
<1>4. UNCHANGED table /\ call' = [call EXCEPT ![s] = d]
  BY <1>1, <1>3 DEF LastPage
<1>5. ASSUME d # Idle
      PROVE  CallExact(d)
  <2>1. PICK more : more = Tail(c.lists)
    OBVIOUS
  <2>2. more # <<>> /\ d = FirstPage(c, more, AccessToken)
    BY <1>3, <1>5, <2>1
  <2>3. more \in Seq(Directions)
    BY <1>2, <2>1, HeadTailProperties DEF Calls, CallShaped
  <2>4. AccessToken \in Users \cup {NoUser}
    BY DEF AccessToken, TInv, TypeOK
  <2>5. d.offset = 0 /\ d.found = {} /\ d.page = {} /\ d.answer = "none"
    BY <1>2, <2>2, <2>3, <2>4, FirstPageShaped DEF TInv
  <2> QED BY <2>5, FreshExact DEF TInv
<1> QED BY <1>4, <1>5, OneCallExact

\* Every step keeps the lists exact.
LEMMA StepExact ==
  ASSUME TInv, MemoryAhead, Own, Exact, [Next]_vars
  PROVE  Exact'
<1>1. ASSUME NEW s \in Slots, Command(s)
      PROVE  Exact'
  BY <1>1, CommandBegins, BeginExact
<1>2. ASSUME NEW u \in Users, SignIn(u) \/ SignInFails(u)
      PROVE  Exact'
  <2> SUFFICES ASSUME ~overlap'
               PROVE  InFlight' = {}
    BY DEF Exact
  <2> QED BY <1>2 DEF SignIn, SignInFails, InFlight
<1>3. ASSUME overlap, UNCHANGED overlap
      PROVE  Exact'
  BY <1>3 DEF Exact
<1>4. ASSUME NEW s \in Slots, Serve(s) \/ Fails(s) \/ Receive(s)
      PROVE  Exact'
  <2>1. UNCHANGED overlap
    BY <1>4 DEF Serve, ServePage, ServeRevoke, ServeDelete, ServeSend, Fails,
                Receive, NextPage, LastPage, ReceiveMessage, ReceiveDelete
  <2>2. CASE overlap
    BY <1>3, <2>1, <2>2
  <2>3. CASE ~overlap
    <3>1. ASSUME Fails(s) \/ ReceiveMessage(s) \/ ReceiveDelete(s)
          PROVE  Exact'
      <4>1. UNCHANGED table /\ call' = [call EXCEPT ![s] = Idle]
        BY <3>1 DEF Fails, ReceiveMessage, ReceiveDelete
      <4> QED BY <2>3, <4>1, OneCallExact
    <3> QED BY <1>4, <2>3, <3>1, ServePageExact, StirredServeExact,
               NextPageExact, LastPageExact DEF Serve, Receive
  <2> QED BY <2>2, <2>3
<1>5. ASSUME call' = Stirred
      PROVE  Exact'
  <2>1. \A t \in Slots : ~Stirred[t].quiet
    BY StirredShaped DEF TInv
  <2>2. \A t \in Slots : ~call'[t].quiet
    BY <1>5, <2>1
  <2> QED BY <2>2, StirredExact
<1>6. CASE SaveOther \/ UNCHANGED vars
  <2>1. UNCHANGED <<table, call, overlap>>
    BY <1>6 DEF vars, SaveOther
  <2>2. ASSUME NEW t \in Slots, ~overlap, call'[t] # Idle
        PROVE  CallExact(call[t])'
    <3>1. PICK e : e = call[t]
      OBVIOUS
    <3>2. CallExact(e)
      BY <2>1, <2>2, <3>1 DEF Exact, InFlight
    <3>3. CallExact(call[t])' <=> CallExact(e)
      BY <2>1, <3>1 DEF CallExact, Before, Page, Listed, Stored, CopyOf
    <3> QED BY <3>2, <3>3
  <2> QED BY <2>1, <2>2 DEF Exact, InFlight
<1>7. CASE SignOut
  <2> SUFFICES ASSUME ~overlap'
               PROVE  InFlight' = {}
    BY DEF Exact
  <2> QED BY <1>7 DEF SignOut, InFlight
<1>8. CASE Restart
  <2>1. InFlight' = {}
    BY <1>8 DEF Restart, InFlight
  <2> QED BY <2>1 DEF Exact
<1> QED
  BY <1>1, <1>2, <1>4, <1>5, <1>6, <1>7, <1>8 DEF Next, Post, Hide

\* The inductive invariant: every undisturbed list has got exactly the pages
\* before its offset, and neither memory nor a file marks a message it does not
\* have.
THEOREM ExactInvariance == Spec => []EInv
<1>1. Init => EInv
  <2>1. Init => InFlight = {} /\ AllNeat
    BY NothingTyped DEF Init, InFlight, AllNeat, Neat
  <2>2. Init => Exact
    BY <2>1 DEF Exact
  <2> QED BY <2>1, <2>2, InitTyped, InitAhead, InitOwn, InitHidden, EInvParts
<1>2. EInv /\ [Next]_vars => EInv'
  <2>1. EInv' <=> /\ TInv' /\ MemoryAhead' /\ Own' /\ Hid'
                  /\ AllNeat' /\ Exact'
    BY EInvParts, PTL
  <2> QED BY <2>1, EInvParts, StepTyped, StepAhead, StepOwn, StepHidden,
             StepNeat, StepExact
<1> QED BY <1>1, <1>2, PTL DEF Spec

\* A message that an undisturbed list has got is in the cache after it, with the
\* marks it had and those of its row.
LEMMA ListSaves ==
  ASSUME TypeOK, NEW c \in Calls, NEW L \in SUBSET Stored,
         c.found \cup c.page = {CopyOf(n) : n \in L}, NEW m \in L,
         NEW e, e = cache[m]
  PROVE  LET f == AfterList(c, 0)[m] IN
         f.cached /\ f.tombs = e.tombs \cup table[m].hidden
<1> DEFINE found == c.found \cup c.page
           S == {x \in found : x.id = m /\ x.id >= 0}
           saved == Saved(cache, found, 0)
           ids == {x.id : x \in found}
<1>1. m \in Messages /\ m >= 0
  BY StoredMessages DEF Messages
<1>2. \A n : CopyOf(n).id = n /\ CopyOf(n).hidden = table[n].hidden
  BY DEF CopyOf
<1>3. S = {CopyOf(m)}
  <2>1. \A x \in found : x.id = m => x = CopyOf(m)
    BY <1>2
  <2>2. CopyOf(m) \in found
    OBVIOUS
  <2> HIDE DEF found
  <2> QED BY <1>1, <1>2, <2>1, <2>2
<1>4. UNION {x.hidden : x \in S} = table[m].hidden
  BY <1>2, <1>3
<1>5. saved[m] = Merge(e, table[m].hidden, FALSE)
  <2>1. saved[m] = IF S = {} THEN cache[m]
                   ELSE Merge(cache[m], UNION {x.hidden : x \in S}, FALSE)
    BY <1>1 DEF Saved
  <2> HIDE DEF S, saved
  <2> QED BY <1>3, <1>4, <2>1
<1>6. m \in ids
  BY <1>2
<1>7. AfterList(c, 0)[m] = saved[m]
  <2>1. AfterList(c, 0) = Reconciled(me, Head(c.lists), saved, ids)
    BY DEF AfterList, Collected, Ids
  <2> HIDE DEF saved, ids
  <2> QED BY <1>1, <1>6, <2>1 DEF Reconciled
<1> HIDE DEF saved
<1> QED BY <1>5, <1>7 DEF Merge

\* Reading a conversation leaves its messages in the cache, with their marks.
LEMMA ReadSaves ==
  ASSUME NEW u, NEW peer, NEW entries \in [Messages -> Entry],
         NEW m \in Messages
  PROVE  LET f == MarkedRead(u, peer, entries)[m] IN
         f.cached = entries[m].cached /\ f.tombs = entries[m].tombs
<1> DEFINE r == entries[m].cached /\ table[m].from = peer /\ table[m].to = u
<1>1. PICK e : e = entries[m]
  OBVIOUS
<1>2. PICK q : q = (e.read \/ r)
  OBVIOUS
<1>3. PICK f : f = [e EXCEPT !.read = q]
  OBVIOUS
<1>4. MarkedRead(u, peer, entries)[m] = [e EXCEPT !.read = @ \/ r]
  BY <1>1 DEF MarkedRead
<1>5. e \in Entry
  BY <1>1
<1>6. MarkedRead(u, peer, entries)[m] = f
  <2> HIDE DEF r
  <2> QED BY <1>2, <1>3, <1>4, <1>5, Zenon DEF Entry
<1>7. f.cached = e.cached /\ f.tombs = e.tombs
  BY <1>3, <1>5 DEF Entry
<1> QED BY <1>1, <1>6, <1>7

\* A message that is listed, not revoked and to somebody else stays shown.
LEMMA ListedShown ==
  ASSUME TypeOK, NEW dir, NEW m \in Listed(me, dir), NEW e \in Entry, NEW f,
         f.cached, f.tombs = e.tombs \cup table[m].hidden,
         "accessRevoked" \notin table[m].hidden,
         table[m].from # table[m].to,
         e.cached => Shows(me, e, m), ~e.cached => e.tombs = {}
  PROVE  Shows(me, f, m)
<1>1. m \in Stored /\ table[m].hidden \in SUBSET Columns
  BY StoredMessages DEF Listed, Row
<1>2. "deleted" \notin table[m].hidden
  BY <1>1 DEF Columns
<1>3. /\ e.tombs \cap {"deleted", "accessRevoked"} = {}
      /\ table[m].from = me => "senderDeleted" \notin e.tombs
      /\ table[m].to = me => "recipientDeleted" \notin e.tombs
  BY DEF Shows
<1>4. /\ table[m].from = me => "senderDeleted" \notin table[m].hidden
      /\ table[m].to = me => "recipientDeleted" \notin table[m].hidden
  BY DEF Listed
<1> QED BY <1>2, <1>3, <1>4 DEF Shows

\* What SyncExact says of one list.
ListExact(s) ==
  LET dir == Head(call[s].lists)
      listed == Listed(me, dir)
      after == ShownIn(me, cache')
  IN /\ {m \in after : Concerns(me, dir, m)} \subseteq listed
     /\ \A m \in listed :
          /\ cache'[m].cached
          /\ /\ "accessRevoked" \notin table[m].hidden
             /\ table[m].from # table[m].to
             /\ cache[m].cached => m \in ShownIn(me, cache)
             => m \in after

\* The last page of an undisturbed list makes it complete.
LEMMA LastPageSyncs ==
  ASSUME TInv, MemoryAhead, Own, Hid, AllNeat, Exact, NEW s \in Slots,
         LastPage(s, 0), call[s].quiet, ~overlap
  PROVE  ListExact(s)
<1>1. PICK c : c = call[s]
  OBVIOUS
<1>2. call[s] # Idle /\ c.answer = "ok" /\ c.op \in {"list", "read"}
  BY <1>1 DEF LastPage, Received, Idle
<1>3. c \in Calls /\ c.access = me /\ me \in Users /\ file = me
  BY <1>1, <1>2, AnswerOf
<1>4. PICK dir : dir = Head(c.lists)
  OBVIOUS
<1>5. PICK L : L = Listed(me, dir)
  OBVIOUS
<1>6. L \in SUBSET Stored
  BY <1>5, ListedFinite DEF TInv
<1>7. c.found \cup c.page = {CopyOf(m) : m \in L}
  <2> DEFINE B == Before(me, dir, c.offset)
             P == Page(me, dir, c.offset)
  <2>1. CallExact(c)
    BY <1>1, <1>2 DEF Exact, InFlight
  <2>2. c.found = {CopyOf(m) : m \in B} /\ c.page = {CopyOf(m) : m \in P}
    BY <1>1, <1>2, <1>3, <1>4, <2>1 DEF CallExact
  <2>3. c.offset \in Nat /\ ~(Cardinality(c.page) >= PageSize)
    BY <1>1, <1>3 DEF Calls, LastPage, MorePages
  <2>4. Cardinality(c.page) \in Nat /\ PageSize \in Nat
    <3>1. P \in SUBSET Listed(me, dir) /\ IsFiniteSet(Listed(me, dir))
      BY ListedFinite DEF Page, TInv
    <3> HIDE DEF P
    <3>2. IsFiniteSet(P)
      BY <3>1, FS_Subset
    <3>3. Cardinality(c.page) = Cardinality(P)
      BY <2>2, <3>2, PageCopies
    <3> QED BY <3>2, <3>3, FS_CardinalityType, SyncAssumption
  <2>5. Cardinality(c.page) < PageSize
    BY <2>3, <2>4
  <2>6. B \cup P = L
    BY <1>5, <2>2, <2>3, <2>5, ShortPageLast DEF TInv
  <2> HIDE DEF B, P
  <2> QED BY <2>2, <2>6
<1>8. Got(c) = L
  <2>1. \A n : CopyOf(n).id = n
    BY DEF CopyOf
  <2> QED BY <1>7, <2>1 DEF Got
<1>9. PICK list : list = AfterList(c, 0)
  OBVIOUS
<1>10. PICK opens \in BOOLEAN : cache' = Opened(c, list, opens)
  BY <1>1, <1>9, LastPageSaves
<1>11. cache \in [Messages -> Entry]
  BY DEF TInv, TypeOK
<1>12. PICK last : last = cache'
  OBVIOUS
<1>13. list \in [Messages -> Entry]
  <2>1. 0 \in Nat
    OBVIOUS
  <2>2. Grows(cache, list, Got(c))
    BY <1>3, <1>9, <2>1, ListGrows
  <2> QED BY <2>2 DEF Grows
<1>14. \A m \in Stored : m \in Messages
  BY StoredMessages DEF TInv
<1>15. ASSUME NEW m \in Stored
       PROVE  last[m].cached = list[m].cached /\ last[m].tombs = list[m].tombs
  <2>1. CASE opens
    <3>1. last = MarkedRead(me, c.peer, list)
      BY <1>10, <1>12, <2>1 DEF Opened
    <3> QED BY <1>13, <1>14, <3>1, ReadSaves
  <2>2. CASE ~opens
    BY <1>10, <1>12, <2>2 DEF Opened
  <2> QED BY <2>1, <2>2
<1>16. ASSUME NEW m \in ShownIn(me, cache'), Concerns(me, dir, m)
       PROVE  m \in L
  <2>1. m \in Stored /\ Shows(me, last[m], m)
    BY <1>12 DEF ShownIn
  <2>2. Shows(me, list[m], m)
    BY <1>15, <2>1 DEF Shows
  <2> QED BY <1>3, <1>4, <1>8, <1>9, <1>16, <2>1, <2>2, ListShows
<1>17. ASSUME NEW m \in L
       PROVE  /\ last[m].cached
              /\ last[m].tombs = cache[m].tombs \cup table[m].hidden
  <2>1. m \in Stored
    BY <1>6
  <2>2. list[m].cached
        /\ list[m].tombs = cache[m].tombs \cup table[m].hidden
    BY <1>3, <1>6, <1>7, <1>9, ListSaves DEF TInv
  <2> QED BY <1>15, <2>1, <2>2
<1>18. ASSUME NEW m \in L, "accessRevoked" \notin table[m].hidden,
              table[m].from # table[m].to,
              cache[m].cached => m \in ShownIn(me, cache)
       PROVE  m \in ShownIn(me, cache')
  <2>1. m \in Stored /\ m \in Messages
    BY <1>6, <1>14
  <2>2. PICK e \in Entry : e = cache[m]
    BY <1>11, <2>1
  <2>3. e.cached => Shows(me, e, m)
    BY <1>18, <2>2 DEF ShownIn
  <2>4. ~e.cached => e.tombs = {}
    BY <2>1, <2>2 DEF AllNeat, Neat
  <2>5. PICK f : f = last[m]
    OBVIOUS
  <2>6. f.cached /\ f.tombs = e.tombs \cup table[m].hidden
    BY <1>17, <2>2, <2>5
  <2>7. Shows(me, f, m)
    BY <1>5, <1>18, <2>3, <2>4, <2>6, ListedShown DEF TInv
  <2> QED BY <1>12, <2>1, <2>5, <2>7 DEF ShownIn
<1> QED BY <1>1, <1>4, <1>5, <1>12, <1>16, <1>17, <1>18 DEF ListExact

\* A list of any number of pages that nothing disturbed leaves in the cache what
\* the server shows, and shows nothing else of what it is about: the pages that
\* fetchMessages asks for until one is not full cover the list exactly.
THEOREM ListsComplete == Spec => SyncExact
<1>1. ASSUME EInv, [Next]_vars
      PROVE  [\A s \in Slots : LastPage(s, 0) /\ call[s].quiet /\ ~overlap =>
                LET dir == Head(call[s].lists)
                    listed == Listed(me, dir)
                    after == ShownIn(me, cache')
                IN /\ {m \in after : Concerns(me, dir, m)} \subseteq listed
                   /\ \A m \in listed :
                        /\ cache'[m].cached
                        /\ /\ "accessRevoked" \notin table[m].hidden
                           /\ table[m].from # table[m].to
                           /\ cache[m].cached => m \in ShownIn(me, cache)
                           => m \in after]_vars
  <2>1. \A s \in Slots : LastPage(s, 0) /\ call[s].quiet /\ ~overlap =>
          ListExact(s)
    BY <1>1, EInvParts, LastPageSyncs
  <2> QED BY <2>1 DEF ListExact
<1> QED BY <1>1, ExactInvariance, PTL DEF Spec, SyncExact
=============================================================================
