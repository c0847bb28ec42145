----------------------------- MODULE AnchorProofs ------------------------------
(***************************************************************************)
(* The anchoring and /verify over it.  IInv is an invariant of             *)
(* AnchorPipeline for every number of messages, workers, requests, rows and*)
(* faults and both settings of mark_failed_on_error; the properties of the *)
(* anchoring follow from it.  It holds of AnchorVerdict too, because every *)
(* step of the client leaves the pipeline alone; on top of it, a committed *)
(* row keeps its message and a confirmed one its status, so what the client*)
(* has captured or kept stays true while it waits.                         *)
(***************************************************************************)
EXTENDS AnchorVerdict, TLAPS

USE MessagesAssumption, WorkersAssumption, LegacyAssumption,
    MarkFailedAssumption, BoundsAssumption

--------------------------------------------------------------------------------
(* The pipeline *)

\* The empty table, or one with only legacy rows, satisfies the invariant.
LEMMA InitIInv == Init => IInv
<1> SUFFICES ASSUME Init PROVE IInv
  OBVIOUS
<1> USE DEF Init, RowIds, IdleWorker, EmptyPool
<1>1. /\ nextRow \in 1..(MaxRows + 1)
      /\ rows \in [RowIds -> Row]
  <2> DEFINE LegacyRow == [message : Legacy, hasRecordId : {FALSE},
                          status : {"pending"}]
  <2>1. LegacyRow \subseteq Row
    BY DEF Row, Statuses
  <2>2. EmptyRow \in Row
    BY DEF Row, Statuses, EmptyRow
  <2>3. rows \in [RowIds -> LegacyRow \cup {EmptyRow}]
    OBVIOUS
  <2> HIDE DEF LegacyRow
  <2> QED
    BY <2>1, <2>2, <2>3
<1>2. TypeOK
  BY <1>1 DEF TypeOK, WorkerState
<1>3. \A i \in RowIds : i >= nextRow => rows[i] = EmptyRow
  BY <1>1
<1>4. \A i \in RowIds : i < nextRow => /\ rows[i].message \in Messages
                                       /\ rows[i].status = "pending"
  BY <1>1 DEF EmptyRow
<1>5. RowsWellFormed
  BY <1>3, <1>4 DEF RowsWellFormed
<1>6. LockExclusive /\ PoolWellFormed /\ ReceiptsTruthful
  BY <1>1 DEF LockExclusive, PoolWellFormed, ReceiptsTruthful
<1>7. ConfirmedByOwnTransaction
  BY <1>1, <1>3, <1>4 DEF ConfirmedByOwnTransaction, EmptyRow
<1>8. InsertsFollowFailure
  BY <1>1, <1>3, <1>4 DEF InsertsFollowFailure, EmptyRow
<1> QED
  BY <1>2, <1>5, <1>6, <1>7, <1>8 DEF IInv

--------------------------------------------------------------------------------
\* What an update of one field does to a row and to a worker's state.
LEMMA RowUpdate ==
    ASSUME NEW row \in Row, NEW s \in Statuses
    PROVE  /\ [row EXCEPT !.status = s] \in Row
           /\ [row EXCEPT !.status = s].status = s
           /\ [row EXCEPT !.status = s].message = row.message
           /\ [row EXCEPT !.status = s].hasRecordId = row.hasRecordId
BY DEF Row

\* Setting the status of one row of the table leaves everything else.
LEMMA SetStatusType ==
    ASSUME TypeOK, NEW i \in 0..MaxRows, NEW s \in Statuses, SetStatus(i, s)
    PROVE  /\ rows' \in [RowIds -> Row]
           /\ \A j \in RowIds : /\ rows'[j].message = rows[j].message
                                /\ rows'[j].hasRecordId = rows[j].hasRecordId
                                /\ j # i => rows'[j] = rows[j]
                                /\ j = i => rows'[j].status = s
<1>1. \A j \in RowIds : rows[j] \in Row
  BY DEF TypeOK
<1>2. rows' = [j \in RowIds |-> IF j = i THEN [rows[j] EXCEPT !.status = s]
                                        ELSE rows[j]]
  BY DEF SetStatus, TypeOK
<1> QED
  BY <1>1, <1>2, RowUpdate

\* A row as an insertion writes it.
LEMMA NewRow ==
    ASSUME NEW m \in Messages, NEW s \in Statuses
    PROVE  [message |-> m, hasRecordId |-> TRUE, status |-> s] \in Row
BY DEF Row

\* The states a worker's step can put it in.
LEMMA IdleType == IdleWorker \in WorkerState
BY DEF WorkerState, IdleWorker

\* A worker's state is its fields.
LEMMA IdleFields ==
    ASSUME NEW ws \in WorkerState,
           ws.pc = "idle", ws.row = 0, ws.nonce = "none", ws.receipt = "none"
    PROVE  ws = IdleWorker
BY DEF WorkerState, IdleWorker

\* The state of a worker that has just locked a row.
LEMMA LockedType ==
    ASSUME NEW i \in 0..MaxRows
    PROVE  [IdleWorker EXCEPT !.pc = "locked", !.row = i] \in WorkerState
BY DEF WorkerState, IdleWorker

\* A worker that moves on within submit_hash.
LEMMA AdvanceType ==
    ASSUME NEW ws \in WorkerState
    PROVE  /\ [ws EXCEPT !.pc = "signing", !.nonce = "current"] \in WorkerState
           /\ [ws EXCEPT !.pc = "waiting"] \in WorkerState
BY DEF WorkerState

\* A worker that learns of a block.
LEMMA ReceiptType ==
    ASSUME NEW ws \in WorkerState,
           NEW r \in {"none", "ok", "reverted"},
           NEW n \in {"none", "current", "used"}
    PROVE  [ws EXCEPT !.receipt = r, !.nonce = n] \in WorkerState
BY DEF WorkerState

\* Every operation keeps the types of the table, the workers and the chain.
LEMMA TypeStep == TypeOK /\ [Next]_vars => TypeOK'
<1> SUFFICES ASSUME TypeOK, [Next]_vars PROVE TypeOK'
  OBVIOUS
<1>s. {"free", "inserting", "pending", "confirmed", "failed"} = Statuses
  BY DEF Statuses
<1>w. \A w \in Workers : /\ worker[w] \in WorkerState
                          /\ worker[w].row \in 0..MaxRows
                          /\ worker[w].receipt \in {"none", "ok", "reverted"}
                          /\ worker[w].nonce \in {"none", "current", "used"}
  BY DEF TypeOK, WorkerState
<1>1. ASSUME NEW m \in Messages, SendMessage(m) PROVE TypeOK'
  BY <1>1, <1>s, NewRow DEF SendMessage, TypeOK, RowIds
<1>2. ASSUME NEW r \in Requests, NEW m \in Messages, BeginAnchor(r, m)
      PROVE  TypeOK'
  BY <1>2, <1>s, NewRow DEF BeginAnchor, TypeOK, RowIds
<1>3. ASSUME NEW r \in Requests, CommitAnchor(r) PROVE TypeOK'
  <2>1. request[r] \in 0..MaxRows
    BY DEF TypeOK
  <2>2. rows' \in [RowIds -> Row]
    BY <1>3, <1>s, <2>1, SetStatusType DEF CommitAnchor
  <2> QED
    BY <1>3, <2>2 DEF CommitAnchor, TypeOK
<1>4. ASSUME NEW r \in Requests, RollbackAnchor(r) PROVE TypeOK'
  <2>1. request[r] \in 0..MaxRows
    BY DEF TypeOK
  <2>2. rows' \in [RowIds -> Row]
    BY <1>4, <1>s, <2>1, SetStatusType DEF RollbackAnchor
  <2> QED
    BY <1>4, <2>2 DEF RollbackAnchor, TypeOK
<1>5. ASSUME NEW w \in Workers, RejectMalformed(w) PROVE TypeOK'
  <2>1. rows' \in [RowIds -> Row]
    BY <1>5, <1>s, SetStatusType DEF RejectMalformed, RowIds
  <2> QED
    BY <1>5, <2>1 DEF RejectMalformed, TypeOK
<1>6. ASSUME NEW w \in Workers, LockRow(w) PROVE TypeOK'
  <2>1. PICK i \in RowIds :
           worker' = [worker EXCEPT ![w] =
                        [IdleWorker EXCEPT !.pc = "locked", !.row = i]]
    BY <1>6 DEF LockRow
  <2>2. [IdleWorker EXCEPT !.pc = "locked", !.row = i] \in WorkerState
    <3>1. i \in 0..MaxRows
      BY DEF RowIds
    <3> QED
      BY <3>1, LockedType, Zenon
  <2>3. worker' \in [Workers -> WorkerState]
    BY <2>1, <2>2 DEF TypeOK
  <2> QED
    BY <1>6, <2>3 DEF LockRow, TypeOK
<1>7. ASSUME NEW w \in Workers, ReadNonce(w) PROVE TypeOK'
  BY <1>7, <1>w, AdvanceType DEF ReadNonce, TypeOK
<1>8. ASSUME NEW w \in Workers, Broadcast(w) PROVE TypeOK'
  BY <1>8, <1>w, AdvanceType DEF Broadcast, TypeOK
<1>9. ASSUME NEW w \in Workers, Confirm(w) PROVE TypeOK'
  <2>1. rows' \in [RowIds -> Row]
    BY <1>9, <1>s, <1>w, SetStatusType DEF Confirm
  <2> QED
    BY <1>9, IdleType, <2>1 DEF Confirm, TypeOK
<1>10. ASSUME NEW w \in Workers, Abandon(w)
       PROVE  mempool' \in [row : 0..MaxRows, by : Workers \cup {None}]
  BY <1>10 DEF Abandon, TypeOK
<1>11. ASSUME NEW w \in Workers, SubmissionError(w), faults' \in 0..MaxFaults
       PROVE  TypeOK'
  <2>1. rows' \in [RowIds -> Row]
    BY <1>11, <1>s, <1>w, SetStatusType DEF SubmissionError, TypeOK
  <2> QED
    BY <1>10, <1>11, IdleType, <2>1 DEF SubmissionError, TypeOK
<1>12. ASSUME NEW w \in Workers, SubmissionRefused(w) PROVE TypeOK'
  BY <1>11, <1>12 DEF SubmissionRefused, TypeOK
<1>13. ASSUME NEW w \in Workers, SubmissionFault(w) PROVE TypeOK'
  BY <1>11, <1>13 DEF SubmissionFault, Fault, TypeOK
<1>14. ASSUME NEW w \in Workers, Crash(w) PROVE TypeOK'
  BY <1>10, <1>14, IdleType DEF Crash, Fault, TypeOK
<1>15. CASE Mine
  <2>1. worker' \in [Workers -> WorkerState]
    <3> DEFINE R(w) == IF mempool.by = w
                         THEN (IF Accepts(rows[mempool.row].message)
                                 THEN "ok" ELSE "reverted")
                         ELSE worker[w].receipt
               N(w) == IF worker[w].nonce = "current"
                         THEN "used" ELSE worker[w].nonce
    <3>1. worker' = [w \in Workers |->
                       [worker[w] EXCEPT !.receipt = R(w), !.nonce = N(w)]]
      BY <1>15 DEF Mine
    <3>2. \A w \in Workers : /\ R(w) \in {"none", "ok", "reverted"}
                             /\ N(w) \in {"none", "current", "used"}
      BY <1>w
    <3> HIDE DEF R, N
    <3>3. \A w \in Workers :
            [worker[w] EXCEPT !.receipt = R(w), !.nonce = N(w)] \in WorkerState
      BY <1>w, <3>2, ReceiptType, Zenon
    <3> QED
      BY <3>1, <3>3
  <2>2. ledger' \in [Messages -> 0..MaxRows]
    <3>1. mempool.row \in 0..MaxRows
      BY DEF TypeOK
    <3>2. ledger' \in {ledger, [ledger EXCEPT ![rows[mempool.row].message] =
                                  mempool.row]}
      BY <1>15 DEF Mine
    <3>3. ledger \in [Messages -> 0..MaxRows]
      BY DEF TypeOK
    <3> QED
      BY <3>1, <3>2, <3>3
  <2>3. mempool' \in [row : 0..MaxRows, by : Workers \cup {None}]
    <3>1. mempool' = [row |-> 0, by |-> None]
      BY <1>15 DEF Mine, EmptyPool
    <3>2. 0 \in 0..MaxRows
      OBVIOUS
    <3> QED
      BY <3>1, <3>2
  <2> QED
    BY <1>15, <2>1, <2>2, <2>3 DEF Mine, TypeOK
<1>16. CASE UNCHANGED vars
  BY <1>16 DEF vars, TypeOK
<1> QED
  BY <1>1, <1>2, <1>3, <1>4, <1>5, <1>6, <1>7, <1>8, <1>9, <1>12, <1>13,
     <1>14, <1>15, <1>16 DEF Next, WorkerStep

--------------------------------------------------------------------------------
(* The invariant is preserved.  The table changes in two ways only: a slot *)
(* is taken, or the status of one row in use is set.                       *)

\* The fields of well-typed rows, workers and mempool.
LEMMA Fields ==
    ASSUME TypeOK
    PROVE  /\ \A i \in RowIds : /\ rows[i].message \in Messages \cup {None}
                                /\ rows[i].status \in Statuses
           /\ \A w \in Workers :
                 /\ worker[w].row \in 0..MaxRows
                 /\ worker[w].pc \in {"idle", "locked", "signing", "waiting"}
           /\ mempool.row \in 0..MaxRows
           /\ mempool.by \in Workers \cup {None}
BY DEF TypeOK, Row, WorkerState

\* A row in use has a number below the next one, and a message.
LEMMA RowInUse ==
    ASSUME TypeOK, RowsWellFormed, NEW i \in RowIds, rows[i].status # "free"
    PROVE  i < nextRow /\ rows[i].message \in Messages
BY DEF RowsWellFormed, EmptyRow, RowIds, TypeOK

\* Failures stay, and nothing comes back into use: what InsertsFollowFailure
\* says of the table still holds.
LEMMA InsertsPreserved ==
    ASSUME InsertsFollowFailure,
           \A i \in RowIds :
              /\ rows'[i].message = rows[i].message
              /\ rows[i].status = "failed" => rows'[i].status = "failed"
              /\ rows'[i].status = "inserting" => rows[i].status = "inserting"
              /\ rows'[i].status # "free" => rows[i].status # "free"
    PROVE  InsertsFollowFailure'
<1>1. \A i \in RowIds : FailureBefore(i) => FailureBefore(i)'
  BY DEF FailureBefore, RowIds
<1> QED
  BY <1>1 DEF InsertsFollowFailure

\* Taking the next slot for a message whose visible rows all failed.
LEMMA InsertsExtended ==
    ASSUME TypeOK, RowsWellFormed, InsertsFollowFailure, nextRow <= MaxRows,
           NEW m \in Messages, NEW s \in {"pending", "inserting"},
           rows' = [rows EXCEPT ![nextRow] =
                      [message |-> m, hasRecordId |-> TRUE, status |-> s]],
           \A i \in RowIds : rows[i].message = m =>
              rows[i].status \in {"free", "inserting", "failed"},
           s = "pending" => \A i \in RowIds : rows[i].message = m =>
                               rows[i].status \notin {"inserting", "failed"},
           s = "inserting" => \E k \in RowIds : /\ rows[k].message = m
                                                /\ rows[k].status = "failed"
    PROVE  InsertsFollowFailure'
<1>1. /\ nextRow \in RowIds
      /\ rows'[nextRow] = [message |-> m, hasRecordId |-> TRUE, status |-> s]
      /\ \A i \in RowIds : i # nextRow => rows'[i] = rows[i]
      /\ rows[nextRow].status = "free"
  BY DEF TypeOK, RowIds, RowsWellFormed, EmptyRow
<1>2. \A i \in RowIds : rows[i].status # "free" => i < nextRow
  BY RowInUse
<1>3. \A i \in RowIds : i # nextRow /\ FailureBefore(i) => FailureBefore(i)'
  BY <1>1 DEF FailureBefore, RowIds
<1>4. \A i \in RowIds : i = nextRow /\ s = "inserting" => FailureBefore(i)'
  BY <1>1, <1>2 DEF FailureBefore, RowIds, TypeOK
<1>5. \A i \in RowIds : rows'[i].status = "inserting" => FailureBefore(i)'
  BY <1>1, <1>3, <1>4 DEF InsertsFollowFailure
<1>6. ASSUME NEW i \in RowIds, NEW j \in RowIds, i < j,
             rows'[i].message = rows'[j].message,
             "free" \notin {rows'[i].status, rows'[j].status}
      PROVE  rows'[i].status = "failed" \/ FailureBefore(i)'
  <2>1. i # nextRow
    BY <1>1, <1>2, <1>6 DEF RowIds, TypeOK
  <2>2. CASE j # nextRow
    BY <1>1, <1>3, <1>6, <2>1, <2>2 DEF InsertsFollowFailure
  <2>3. CASE j = nextRow
    <3>1. rows[i].message = m /\ rows[i].status \in {"inserting", "failed"}
      BY <1>1, <1>6, <2>1, <2>3
    <3>2. rows[i].status = "inserting" => FailureBefore(i)
      BY DEF InsertsFollowFailure
    <3> QED
      BY <1>1, <1>3, <2>1, <3>1, <3>2
  <2> QED
    BY <2>2, <2>3
<1> QED
  BY <1>5, <1>6 DEF InsertsFollowFailure

\* Setting the status of a row in use that no request is inserting any more.
LEMMA SetStatusStep ==
    ASSUME TypeOK, RowsWellFormed, InsertsFollowFailure,
           NEW i \in RowIds, rows[i].status \in {"inserting", "pending"},
           NEW s \in {"free", "pending", "confirmed", "failed"}, SetStatus(i,
           s),
           nextRow' = nextRow,
           \A r \in Requests : request'[r] # 0 =>
              request'[r] = request[r] /\ request[r] # i
    PROVE  RowsWellFormed' /\ InsertsFollowFailure'
<1>1. /\ \A j \in RowIds : /\ rows'[j].message = rows[j].message
                           /\ j # i => rows'[j] = rows[j]
      /\ rows'[i].status = s
  BY SetStatusType DEF RowIds, Statuses
<1>2. i < nextRow
  BY RowInUse
<1>3. \A r \in Requests : request'[r] # 0 => request'[r] \in RowIds
  BY DEF TypeOK, RowIds
<1>4. RowsWellFormed'
  <2>1. ASSUME NEW j \in RowIds
        PROVE  /\ j < nextRow' => rows'[j].message \in Messages
               /\ j >= nextRow' => rows'[j] = EmptyRow
    BY <1>1, <1>2 DEF RowsWellFormed, TypeOK, RowIds
  <2>2. ASSUME NEW r \in Requests, request'[r] # 0
        PROVE  /\ rows'[request'[r]].status = "inserting"
               /\ \A q \in Requests \ {r} : request'[q] # request'[r]
    BY <1>1, <1>3, <2>2 DEF RowsWellFormed
  <2> QED
    BY <2>1, <2>2 DEF RowsWellFormed
<1>5. InsertsFollowFailure'
  BY <1>1, InsertsPreserved
<1> QED
  BY <1>4, <1>5

\* Taking the next slot leaves the slots behind it empty.
LEMMA SlotTaken ==
    ASSUME TypeOK, RowsWellFormed, nextRow <= MaxRows, nextRow' = nextRow + 1,
           NEW m \in Messages, NEW s,
           rows' = [rows EXCEPT ![nextRow] =
                      [message |-> m, hasRecordId |-> TRUE, status |-> s]]
    PROVE  /\ nextRow \in RowIds
           /\ rows[nextRow].status = "free"
           /\ rows'[nextRow].message = m
           /\ rows'[nextRow].status = s
           /\ \A i \in RowIds : i # nextRow => rows'[i] = rows[i]
           /\ \A j \in RowIds : /\ j < nextRow' => rows'[j].message \in Messages
                                /\ j >= nextRow' => rows'[j] = EmptyRow
<1>1. /\ nextRow \in RowIds
      /\ rows'[nextRow] = [message |-> m, hasRecordId |-> TRUE, status |-> s]
      /\ \A i \in RowIds : i # nextRow => rows'[i] = rows[i]
  BY DEF TypeOK, RowIds
<1>2. rows[nextRow].status = "free"
  BY <1>1 DEF RowsWellFormed, EmptyRow, TypeOK
<1>3. ASSUME NEW j \in RowIds
      PROVE  /\ j < nextRow' => rows'[j].message \in Messages
             /\ j >= nextRow' => rows'[j] = EmptyRow
  <2>1. CASE j = nextRow
    BY <1>1, <2>1 DEF RowIds
  <2>2. CASE j # nextRow
    <3>1. j < nextRow' => j < nextRow
      BY <1>1, <2>2 DEF RowIds
    <3>2. j >= nextRow' => j >= nextRow
      BY <1>1, <2>2 DEF RowIds
    <3> QED
      BY <1>1, <2>2, <3>1, <3>2 DEF RowsWellFormed
  <2> QED
    BY <2>1, <2>2
<1> QED
  BY <1>1, <1>2, <1>3

\* What receipts prove does not depend on the statuses in the table.
LEMMA ReceiptsKept ==
    ASSUME IInv, UNCHANGED <<nextRow, worker, ledger>>,
           \A j \in RowIds : rows'[j].message = rows[j].message
    PROVE  ReceiptsTruthful'
<1>1. ASSUME NEW w \in Workers, worker[w].receipt = "ok"
      PROVE  ledger[rows'[worker[w].row].message] = worker[w].row
  <2>1. worker[w].pc # "idle"
    BY <1>1 DEF IInv, ReceiptsTruthful
  <2>2. worker[w].row \in RowIds
    BY <2>1 DEF IInv, LockExclusive
  <2> QED
    BY <1>1, <2>2 DEF IInv, ReceiptsTruthful
<1>2. ASSUME NEW m \in Messages, ledger[m] # 0
      PROVE  ledger[m] < nextRow /\ rows'[ledger[m]].message = m
  <2>1. ledger[m] \in RowIds
    BY <1>2 DEF IInv, TypeOK, RowIds
  <2> QED
    BY <1>2, <2>1 DEF IInv, ReceiptsTruthful
<1>3. \A w \in Workers : /\ worker[w].pc = "idle" => worker[w] = IdleWorker
                         /\ worker[w].receipt # "none" => worker[w].pc = "waiting"
  BY DEF IInv, ReceiptsTruthful
<1> QED
  BY <1>1, <1>2, <1>3 DEF ReceiptsTruthful

\* Every operation of requests, workers and chain preserves the invariant.
LEMMA Step == IInv /\ [Next]_vars => IInv'
<1> SUFFICES ASSUME IInv, [Next]_vars PROVE IInv'
  OBVIOUS
<1>0. TypeOK' /\ TypeOK /\ InsertsFollowFailure /\ RowsWellFormed
  BY TypeStep DEF IInv
<1>f. /\ \A i \in RowIds : /\ rows[i].message \in Messages \cup {None}
                           /\ rows[i].status \in Statuses
      /\ \A w \in Workers : worker[w].row \in 0..MaxRows
      /\ mempool.row \in 0..MaxRows
  BY <1>0, Fields
<1>1. ASSUME NEW m \in Messages, SendMessage(m) PROVE IInv'
  <2>1. InsertsFollowFailure'
    <3>1. \A i \in RowIds : rows[i].message = m => rows[i].status = "free"
      BY <1>0, <1>1, <1>f DEF SendMessage, Sent, Committed, Statuses,
         InsertsFollowFailure, FailureBefore, RowIds
    <3> QED
      BY <1>0, <1>1, <3>1, InsertsExtended DEF SendMessage
  <2>2. /\ nextRow \in RowIds
        /\ rows[nextRow].status = "free"
        /\ rows'[nextRow].message = m
        /\ rows'[nextRow].status = "pending"
        /\ \A i \in RowIds : i # nextRow => rows'[i] = rows[i]
        /\ \A j \in RowIds : /\ j < nextRow' => rows'[j].message \in Messages
                             /\ j >= nextRow' => rows'[j] = EmptyRow
    BY <1>0, <1>1, SlotTaken DEF SendMessage
  <2>3. RowsWellFormed'
    <3>1. ASSUME NEW q \in Requests, request'[q] # 0
          PROVE  /\ rows'[request'[q]].status = "inserting"
                 /\ \A p \in Requests \ {q} : request'[p] # request'[q]
      BY <1>0, <1>1, <2>2, <3>1 DEF SendMessage, RowsWellFormed, TypeOK,
         RowIds
    <3> QED
      BY <2>2, <3>1 DEF RowsWellFormed
  <2>4. /\ LockExclusive' /\ PoolWellFormed'
        /\ ReceiptsTruthful' /\ ConfirmedByOwnTransaction'
    BY <1>0, <1>1, <2>2 DEF SendMessage, IInv, LockExclusive, PoolWellFormed,
       ReceiptsTruthful, ConfirmedByOwnTransaction, RowsWellFormed, TypeOK,
       RowIds, IdleWorker, EmptyRow
  <2> QED
    BY <1>0, <2>1, <2>3, <2>4 DEF IInv
<1>2. ASSUME NEW r \in Requests, NEW m \in Messages, BeginAnchor(r, m)
      PROVE  IInv'
  <2>1. InsertsFollowFailure'
    <3>1. \A i \in RowIds : rows[i].message = m =>
             rows[i].status \in {"free", "inserting", "failed"}
      BY <1>2, <1>f DEF BeginAnchor, HasActive, Statuses
    <3>2. \E k \in RowIds : rows[k].message = m /\ rows[k].status = "failed"
      BY <1>2, <3>1 DEF BeginAnchor, Sent, Committed
    <3> QED
      BY <1>0, <1>2, <3>1, <3>2, InsertsExtended DEF BeginAnchor
  <2>2. /\ nextRow \in RowIds
        /\ rows[nextRow].status = "free"
        /\ rows'[nextRow].message = m
        /\ rows'[nextRow].status = "inserting"
        /\ \A i \in RowIds : i # nextRow => rows'[i] = rows[i]
        /\ \A j \in RowIds : /\ j < nextRow' => rows'[j].message \in Messages
                             /\ j >= nextRow' => rows'[j] = EmptyRow
    BY <1>0, <1>2, SlotTaken DEF BeginAnchor
  <2>3. RowsWellFormed'
    <3>1. ASSUME NEW q \in Requests, request'[q] # 0
          PROVE  /\ rows'[request'[q]].status = "inserting"
                 /\ \A p \in Requests \ {q} : request'[p] # request'[q]
      BY <1>0, <1>2, <2>2, <3>1 DEF BeginAnchor, RowsWellFormed, TypeOK,
         RowIds
    <3> QED
      BY <2>2, <3>1 DEF RowsWellFormed
  <2>4. /\ LockExclusive' /\ PoolWellFormed'
        /\ ReceiptsTruthful' /\ ConfirmedByOwnTransaction'
    BY <1>0, <1>2, <2>2 DEF BeginAnchor, IInv, LockExclusive, PoolWellFormed,
       ReceiptsTruthful, ConfirmedByOwnTransaction, RowsWellFormed, TypeOK,
       RowIds, IdleWorker, EmptyRow
  <2> QED
    BY <1>0, <2>1, <2>3, <2>4 DEF IInv
<1>3. ASSUME NEW r \in Requests, CommitAnchor(r) PROVE IInv'
  <2>1. request[r] \in RowIds /\ rows[request[r]].status = "inserting"
    BY <1>0, <1>3 DEF CommitAnchor, RowsWellFormed, TypeOK, RowIds
  <2>2. \A q \in Requests : request'[q] # 0 =>
           request'[q] = request[q] /\ request[q] # request[r]
    BY <1>0, <1>3 DEF CommitAnchor, RowsWellFormed, TypeOK
  <2>3. RowsWellFormed' /\ InsertsFollowFailure'
    BY <1>0, <1>3, <2>1, <2>2, SetStatusStep DEF CommitAnchor
  <2>4. /\ \A j \in RowIds : /\ rows'[j].message = rows[j].message
                             /\ j # request[r] => rows'[j] = rows[j]
        /\ rows'[request[r]].status = "pending"
    BY <1>0, <1>3, <2>1, SetStatusType DEF CommitAnchor, RowIds, Statuses
  <2>5. LockExclusive'
    BY <1>3, <2>1, <2>4 DEF CommitAnchor, IInv, LockExclusive
  <2>6. ConfirmedByOwnTransaction'
    BY <1>3, <2>1, <2>4 DEF CommitAnchor, IInv, ConfirmedByOwnTransaction
  <2>7. PoolWellFormed'
    BY <1>3 DEF CommitAnchor, IInv, PoolWellFormed
  <2>8. ReceiptsTruthful'
    BY <1>3, <2>4, ReceiptsKept DEF CommitAnchor
  <2> QED
    BY <1>0, <2>3, <2>5, <2>6, <2>7, <2>8 DEF IInv
<1>4. ASSUME NEW r \in Requests, RollbackAnchor(r) PROVE IInv'
  <2>1. request[r] \in RowIds /\ rows[request[r]].status = "inserting"
    BY <1>0, <1>4 DEF RollbackAnchor, RowsWellFormed, TypeOK, RowIds
  <2>2. \A q \in Requests : request'[q] # 0 =>
           request'[q] = request[q] /\ request[q] # request[r]
    BY <1>0, <1>4 DEF RollbackAnchor, RowsWellFormed, TypeOK
  <2>3. RowsWellFormed' /\ InsertsFollowFailure'
    BY <1>0, <1>4, <2>1, <2>2, SetStatusStep DEF RollbackAnchor
  <2>4. /\ \A j \in RowIds : /\ rows'[j].message = rows[j].message
                             /\ j # request[r] => rows'[j] = rows[j]
        /\ rows'[request[r]].status = "free"
    BY <1>0, <1>4, <2>1, SetStatusType DEF RollbackAnchor, RowIds, Statuses
  <2>5. LockExclusive'
    BY <1>4, <2>1, <2>4 DEF RollbackAnchor, IInv, LockExclusive
  <2>6. ConfirmedByOwnTransaction'
    BY <1>4, <2>1, <2>4 DEF RollbackAnchor, IInv, ConfirmedByOwnTransaction
  <2>7. PoolWellFormed'
    BY <1>4 DEF RollbackAnchor, IInv, PoolWellFormed
  <2>8. ReceiptsTruthful'
    BY <1>4, <2>4, ReceiptsKept DEF RollbackAnchor
  <2> QED
    BY <1>0, <2>3, <2>5, <2>6, <2>7, <2>8 DEF IInv
\* A pending row is in use and no request is inserting it.
<1>p. ASSUME NEW i \in RowIds, rows[i].status = "pending",
             NEW s \in {"confirmed", "failed"},
             SetStatus(i, s), UNCHANGED <<nextRow, request>>
      PROVE  /\ RowsWellFormed' /\ InsertsFollowFailure'
             /\ \A j \in RowIds : /\ rows'[j].message = rows[j].message
                                  /\ j # i => rows'[j] = rows[j]
             /\ rows'[i].status = s
  <2>1. \A r \in Requests : request'[r] # 0 =>
           request'[r] = request[r] /\ request[r] # i
    BY <1>0, <1>p DEF RowsWellFormed
  <2> QED
    BY <1>0, <1>p, <2>1, SetStatusStep, SetStatusType DEF RowIds, Statuses
<1>5. ASSUME NEW w \in Workers, RejectMalformed(w) PROVE IInv'
  <2>1. PICK i \in RowIds : /\ rows[i].status = "pending"
                            /\ \A v \in Workers : worker[v].row # i
                            /\ SetStatus(i, "failed")
    BY <1>5 DEF RejectMalformed, Oldest, Available, Locked
  <2>2. /\ RowsWellFormed' /\ InsertsFollowFailure'
        /\ \A j \in RowIds : /\ rows'[j].message = rows[j].message
                             /\ j # i => rows'[j] = rows[j]
        /\ rows'[i].status = "failed"
    BY <1>5, <1>p, <2>1 DEF RejectMalformed
  <2>3. LockExclusive'
    BY <1>5, <2>1, <2>2 DEF RejectMalformed, IInv, LockExclusive
  <2>6. ConfirmedByOwnTransaction'
    BY <1>5, <2>1, <2>2 DEF RejectMalformed, IInv, ConfirmedByOwnTransaction
  <2>7. PoolWellFormed'
    BY <1>5 DEF RejectMalformed, IInv, PoolWellFormed
  <2>8. ReceiptsTruthful'
    BY <1>5, <2>2, ReceiptsKept DEF RejectMalformed
  <2> QED
    BY <1>0, <2>2, <2>3, <2>6, <2>7, <2>8 DEF IInv
<1>6. ASSUME NEW w \in Workers, LockRow(w) PROVE IInv'
  <2>1. PICK i \in RowIds : /\ rows[i].status = "pending"
                            /\ \A v \in Workers : worker[v].row # i
                            /\ worker' = [worker EXCEPT ![w] =
                                  [IdleWorker EXCEPT !.pc = "locked", !.row = i]]
    BY <1>6 DEF LockRow, Oldest, Available, Locked
  <2>2. /\ worker'[w].pc = "locked"
        /\ worker'[w].row = i
        /\ worker'[w].receipt = "none"
        /\ \A v \in Workers \ {w} : worker'[v] = worker[v]
    BY <1>0, <2>1 DEF TypeOK, IdleWorker
  <2>3. RowsWellFormed' /\ InsertsFollowFailure' /\ ConfirmedByOwnTransaction'
    BY <1>6 DEF LockRow, IInv, RowsWellFormed, InsertsFollowFailure,
       FailureBefore,
       ConfirmedByOwnTransaction
  <2>4. LockExclusive' /\ PoolWellFormed' /\ ReceiptsTruthful'
    BY <1>6, <2>1, <2>2 DEF LockRow, IInv, LockExclusive, PoolWellFormed,
       ReceiptsTruthful
  <2> QED
    BY <1>0, <2>3, <2>4 DEF IInv
<1>7. ASSUME NEW w \in Workers, ReadNonce(w) PROVE IInv'
  <2>1. /\ worker'[w].pc = "signing" /\ worker'[w].row = worker[w].row
        /\ worker'[w].receipt = worker[w].receipt
        /\ \A v \in Workers \ {w} : worker'[v] = worker[v]
    BY <1>0, <1>7 DEF ReadNonce, TypeOK, WorkerState
  <2>2. RowsWellFormed' /\ InsertsFollowFailure' /\ ConfirmedByOwnTransaction'
    BY <1>7 DEF ReadNonce, IInv, RowsWellFormed, InsertsFollowFailure,
       FailureBefore,
       ConfirmedByOwnTransaction
  <2>3. LockExclusive' /\ PoolWellFormed' /\ ReceiptsTruthful'
    BY <1>7, <2>1 DEF ReadNonce, IInv, LockExclusive, PoolWellFormed,
       ReceiptsTruthful
  <2> QED
    BY <1>0, <2>2, <2>3 DEF IInv
<1>8. ASSUME NEW w \in Workers, Broadcast(w) PROVE IInv'
  <2>1. /\ worker'[w].pc = "waiting" /\ worker'[w].row = worker[w].row
        /\ worker'[w].receipt = worker[w].receipt
        /\ \A v \in Workers \ {w} : worker'[v] = worker[v]
        /\ mempool'.row = worker[w].row /\ mempool'.by = w
    BY <1>0, <1>8 DEF Broadcast, TypeOK, WorkerState
  <2>2. RowsWellFormed' /\ InsertsFollowFailure' /\ ConfirmedByOwnTransaction'
    BY <1>8 DEF Broadcast, IInv, RowsWellFormed, InsertsFollowFailure,
       FailureBefore,
       ConfirmedByOwnTransaction
  <2>3. LockExclusive' /\ ReceiptsTruthful'
    BY <1>8, <2>1 DEF Broadcast, IInv, LockExclusive, ReceiptsTruthful
  <2>4. /\ worker[w].row # 0
        /\ worker[w].row < nextRow
        /\ worker[w].receipt = "none"
    BY <1>0, <1>8, RowInUse DEF Broadcast, IInv, LockExclusive, RowIds,
       ReceiptsTruthful
  <2>5. PoolWellFormed'
    BY <1>8, <2>1, <2>4 DEF Broadcast, IInv, PoolWellFormed
  <2> QED
    BY <1>0, <2>2, <2>3, <2>5 DEF IInv
<1>9. ASSUME NEW w \in Workers, Confirm(w) PROVE IInv'
  <2>1. /\ worker[w].row \in RowIds
        /\ rows[worker[w].row].status = "pending"
        /\ \A v \in Workers \ {w} : worker[v].row # worker[w].row
        /\ ledger[rows[worker[w].row].message] = worker[w].row
    BY <1>9 DEF Confirm, IInv, LockExclusive, ReceiptsTruthful
  <2>2. /\ RowsWellFormed' /\ InsertsFollowFailure'
        /\ \A j \in RowIds : /\ rows'[j].message = rows[j].message
                             /\ j # worker[w].row => rows'[j] = rows[j]
        /\ rows'[worker[w].row].status = "confirmed"
    BY <1>9, <1>p, <2>1 DEF Confirm
  <2>3. /\ worker'[w] = IdleWorker
        /\ \A v \in Workers \ {w} : worker'[v] = worker[v]
    BY <1>0, <1>9 DEF Confirm, TypeOK
  <2>4. LockExclusive'
    BY <1>0, <1>9, <2>1, <2>2, <2>3 DEF Confirm, IInv, LockExclusive,
       IdleWorker, RowIds
  <2>6. ConfirmedByOwnTransaction'
    BY <1>9, <2>1, <2>2 DEF Confirm, IInv, ConfirmedByOwnTransaction
  <2>7. ReceiptsTruthful'
    BY <1>0, <1>9, <2>1, <2>2, <2>3 DEF Confirm, IInv, ReceiptsTruthful,
       LockExclusive,
       TypeOK, RowIds, IdleWorker
  <2>5. PoolWellFormed'
    BY <1>9, <2>3 DEF Confirm, IInv, PoolWellFormed
  <2> QED
    BY <1>0, <2>2, <2>4, <2>5, <2>6, <2>7 DEF IInv
\* A worker that gives up: its lock is released, its transaction abandoned.
<1>q. ASSUME NEW w \in Workers, Abandon(w),
             worker' = [worker EXCEPT ![w] = IdleWorker],
             nextRow' = nextRow
      PROVE  /\ worker'[w] = IdleWorker
             /\ \A v \in Workers \ {w} : worker'[v] = worker[v]
             /\ PoolWellFormed'
  <2>1. /\ worker'[w] = IdleWorker
        /\ \A v \in Workers \ {w} : worker'[v] = worker[v]
    BY <1>0, <1>q DEF TypeOK
  <2>2. /\ mempool'.row = mempool.row
        /\ mempool'.by = IF mempool.by = w THEN None ELSE mempool.by
    BY <1>0, <1>q DEF Abandon, TypeOK
  <2> QED
    BY <1>q, <2>1, <2>2 DEF IInv, PoolWellFormed
<1>10. ASSUME NEW w \in Workers, SubmissionError(w),
              worker[w].pc # "idle"
       PROVE  IInv'
  <2>1. /\ worker[w].row \in RowIds
        /\ rows[worker[w].row].status = "pending"
        /\ \A v \in Workers \ {w} : worker[v].row # worker[w].row
    BY <1>10 DEF IInv, LockExclusive
  <2>2. /\ RowsWellFormed' /\ InsertsFollowFailure'
        /\ \A j \in RowIds : /\ rows'[j].message = rows[j].message
                             /\ j # worker[w].row => rows'[j] = rows[j]
        /\ rows'[worker[w].row].status \in {"pending", "failed"}
    <3>1. CASE MarkFailed
      BY <1>10, <1>p, <2>1, <3>1 DEF SubmissionError
    <3>2. CASE ~MarkFailed
      BY <1>10, <2>1, <3>2 DEF SubmissionError, IInv, RowsWellFormed,
         InsertsFollowFailure,
         FailureBefore
    <3> QED
      BY <3>1, <3>2
  <2>3. /\ worker'[w] = IdleWorker
        /\ \A v \in Workers \ {w} : worker'[v] = worker[v]
        /\ PoolWellFormed'
    BY <1>10, <1>q DEF SubmissionError
  <2>4. LockExclusive'
    BY <1>0, <1>10, <2>1, <2>2, <2>3 DEF SubmissionError, IInv, LockExclusive,
       IdleWorker, RowIds
  <2>5. ConfirmedByOwnTransaction'
    BY <1>10, <2>1, <2>2 DEF SubmissionError, IInv, ConfirmedByOwnTransaction
  <2>6. ReceiptsTruthful'
    BY <1>0, <1>10, <2>1, <2>2, <2>3 DEF SubmissionError, IInv,
       ReceiptsTruthful, LockExclusive,
       TypeOK, RowIds, IdleWorker
  <2> QED
    BY <1>0, <2>2, <2>3, <2>4, <2>5, <2>6 DEF IInv
<1>11. ASSUME NEW w \in Workers, Crash(w) PROVE IInv'
  <2>1. /\ worker'[w] = IdleWorker
        /\ \A v \in Workers \ {w} : worker'[v] = worker[v]
        /\ PoolWellFormed'
    BY <1>11, <1>q DEF Crash
  <2>2. RowsWellFormed' /\ InsertsFollowFailure' /\ ConfirmedByOwnTransaction'
    BY <1>11 DEF Crash, IInv, RowsWellFormed, InsertsFollowFailure,
       FailureBefore,
       ConfirmedByOwnTransaction
  <2>3. LockExclusive' /\ ReceiptsTruthful'
    BY <1>0, <1>11, <2>1 DEF Crash, IInv, LockExclusive, ReceiptsTruthful,
       IdleWorker, RowIds
  <2> QED
    BY <1>0, <2>1, <2>2, <2>3 DEF IInv
<1>12. CASE Mine
  <2>1. /\ mempool.row # 0
        /\ ledger' = IF Accepts(rows[mempool.row].message)
                       THEN [ledger EXCEPT ![rows[mempool.row].message] =
                               mempool.row]
                       ELSE ledger
        /\ mempool' = EmptyPool
        /\ UNCHANGED <<rows, nextRow, request>>
    BY <1>12 DEF Mine
  <2>2. PICK i \in RowIds : i = mempool.row
    BY <1>0, <1>f, <2>1 DEF RowIds
  <2>3. PICK m \in Messages : m = rows[i].message /\ i < nextRow
    BY <1>0, <2>2, <2>1 DEF IInv, PoolWellFormed, RowsWellFormed
  <2>4. \A w \in Workers : worker[w].pc = "idle" =>
           worker[w] = IdleWorker /\ mempool.by # w
    BY DEF IInv, ReceiptsTruthful, PoolWellFormed
  <2>5. \A w \in Workers :
           /\ worker'[w].pc = worker[w].pc
           /\ worker'[w].row = worker[w].row
           /\ mempool.by # w => worker'[w].receipt = worker[w].receipt
           /\ mempool.by = w => worker'[w].receipt =
                                  IF ledger[m] = 0 THEN "ok" ELSE "reverted"
           /\ worker[w].nonce # "current" => worker'[w].nonce = worker[w].nonce
    <3> DEFINE R(w) == IF mempool.by = w
                         THEN (IF ledger[m] = 0 THEN "ok" ELSE "reverted")
                         ELSE worker[w].receipt
               N(w) == IF worker[w].nonce = "current"
                         THEN "used" ELSE worker[w].nonce
    <3>1. \A w \in Workers : worker[w] \in WorkerState
      BY <1>0 DEF TypeOK
    <3>2. worker' = [w \in Workers |->
                       [worker[w] EXCEPT !.receipt = R(w), !.nonce = N(w)]]
      BY <1>12, <2>2, <2>3 DEF Mine, Accepts
    <3> HIDE DEF R, N
    <3>3. \A w \in Workers : /\ worker'[w].pc = worker[w].pc
                             /\ worker'[w].row = worker[w].row
                             /\ worker'[w].receipt = R(w)
                             /\ worker'[w].nonce = N(w)
      BY <3>1, <3>2 DEF WorkerState
    <3> QED
      BY <3>3 DEF R, N
  <2>6. ASSUME NEW w \in Workers, worker'[w].pc = "idle"
        PROVE  worker'[w] = IdleWorker
    <3>1. worker[w] = IdleWorker /\ mempool.by # w
      BY <2>4, <2>5, <2>6
    <3>2. /\ worker'[w].row = 0
          /\ worker'[w].nonce = "none"
          /\ worker'[w].receipt = "none"
      BY <2>5, <3>1 DEF IdleWorker
    <3>3. worker'[w] \in WorkerState
      BY <1>0 DEF TypeOK
    <3> QED
      BY <2>6, <3>2, <3>3, IdleFields
  <2>7. /\ ledger'[m] = IF ledger[m] = 0 THEN i ELSE ledger[m]
        /\ \A n \in Messages : n # m => ledger'[n] = ledger[n]
    BY <1>0, <2>1, <2>2, <2>3 DEF Accepts, TypeOK
  <2>8. RowsWellFormed' /\ InsertsFollowFailure'
    BY <2>1 DEF IInv, RowsWellFormed, InsertsFollowFailure, FailureBefore
  <2>9. LockExclusive'
    BY <2>1, <2>5 DEF IInv, LockExclusive
  <2>10. PoolWellFormed'
    BY <1>0, <2>1, <1>0 DEF PoolWellFormed, TypeOK, EmptyPool
  <2>11. ConfirmedByOwnTransaction'
    BY <1>0, <2>1, <2>3, <2>7, RowInUse DEF IInv, ConfirmedByOwnTransaction,
       RowIds
  <2>12. ReceiptsTruthful'
    <3>1. ASSUME NEW w \in Workers
          PROVE  /\ worker'[w].receipt # "none" => worker'[w].pc = "waiting"
                 /\ worker'[w].receipt = "ok" =>
                      ledger'[rows'[worker'[w].row].message] = worker'[w].row
      <4>1. CASE mempool.by = w
        BY <2>1, <2>2, <2>3, <2>5, <2>7, <4>1 DEF IInv, PoolWellFormed
      <4>2. CASE mempool.by # w /\ worker[w].receipt = "ok"
        <5>1. /\ worker[w].row \in RowIds
              /\ rows[worker[w].row].message \in Messages
          BY <1>0, <4>2, RowInUse DEF IInv, LockExclusive, ReceiptsTruthful
        <5>2. ledger[rows[worker[w].row].message] # 0
          BY <4>2, <5>1 DEF IInv, ReceiptsTruthful, RowIds
        <5> QED
          BY <2>1, <2>5, <2>7, <4>2, <5>1, <5>2 DEF IInv, ReceiptsTruthful
      <4>3. CASE mempool.by # w /\ worker[w].receipt # "ok"
        BY <2>5, <4>3 DEF IInv, ReceiptsTruthful
      <4> QED
        BY <4>1, <4>2, <4>3
    <3>2. ASSUME NEW n \in Messages, ledger'[n] # 0
          PROVE  ledger'[n] < nextRow' /\ rows'[ledger'[n]].message = n
      BY <2>1, <2>2, <2>3, <2>7, <3>2 DEF IInv, ReceiptsTruthful
    <3> QED
      BY <2>6, <3>1, <3>2 DEF ReceiptsTruthful
  <2> QED
    BY <1>0, <2>8, <2>9, <2>10, <2>11, <2>12 DEF IInv
<1>13. CASE UNCHANGED vars
  BY <1>0, <1>13 DEF vars, IInv, RowsWellFormed, LockExclusive, PoolWellFormed,
     ReceiptsTruthful, ConfirmedByOwnTransaction, InsertsFollowFailure,
     FailureBefore
<1> QED
  BY <1>1, <1>2, <1>3, <1>4, <1>5, <1>6, <1>7, <1>8, <1>9, <1>10, <1>11, <1>12,
     <1>13
     DEF Next, WorkerStep, SubmissionRefused, SubmissionFault, Refused

--------------------------------------------------------------------------------
\* The invariant holds of every behaviour: TypeOK, one worker per row, the
\* mempool's transaction known to the worker that waits for it, receipts and
\* records telling the truth, inserts only after failures.
THEOREM Invariance == Spec => []IInv
<1>1. Init => IInv
  BY InitIInv
<1>2. IInv /\ [Next]_vars => IInv'
  BY Step
<1> QED
  BY <1>1, <1>2, PTL DEF Spec

\* Every variable keeps its type: in particular no request, retry or crash
\* hands out a row number, a worker state or a status the code does not know.
THEOREM TypeCorrect == Spec => []TypeOK
<1>1. IInv => TypeOK
  BY DEF IInv
<1> QED
  BY <1>1, Invariance, PTL

\* A row in process_next_pending_anchor's hands stays pending and is held by
\* one worker only, however many workers run.
THEOREM ExclusiveLocks == Spec => []LockExclusive
<1>1. IInv => LockExclusive
  BY DEF IInv
<1> QED
  BY <1>1, Invariance, PTL

\* "confirmed" is written only by the worker whose own transaction stored the
\* record, through every replacement, revert, crash and retry.
THEOREM ConfirmationsTrue == Spec => []ConfirmedByOwnTransaction
<1>1. IInv => ConfirmedByOwnTransaction
  BY DEF IInv
<1> QED
  BY <1>1, Invariance, PTL

\* create_message_anchor's unlocked check lets a second active row in only
\* behind a failed one.
THEOREM DuplicatesExplained == Spec => []DuplicatesFollowFailure
<1>1. IInv => DuplicatesFollowFailure
  <2>1. ASSUME NEW i \in RowIds, NEW j \in RowIds, IInv, i < j,
               rows[i].message = rows[j].message,
               {rows[i].status, rows[j].status} \subseteq
                  {"pending", "confirmed"}
        PROVE  FailureBefore(i)
    BY <2>1 DEF IInv, InsertsFollowFailure
  <2> QED
    BY <2>1 DEF DuplicatesFollowFailure
<1> QED
  BY <1>1, Invariance, PTL

--------------------------------------------------------------------------------
\* A step writes only the status of a pending row, of a row being inserted or
\* of a free slot.
LEMMA ConfirmedKept ==
    ASSUME IInv, [Next]_vars, NEW i \in RowIds, rows[i].status = "confirmed"
    PROVE  rows'[i] = rows[i]
<1>1. TypeOK /\ RowsWellFormed /\ LockExclusive
  BY DEF IInv
<1>2. i < nextRow
  BY <1>1, RowInUse
<1>3. ASSUME NEW j \in 0..MaxRows, NEW s \in Statuses, SetStatus(j, s), j # i
      PROVE  rows'[i] = rows[i]
  BY <1>1, <1>3, SetStatusType
<1>4. ASSUME NEW m \in Messages, SendMessage(m) PROVE rows'[i] = rows[i]
  BY <1>1, <1>2, <1>4 DEF SendMessage, TypeOK, RowIds
<1>5. ASSUME NEW r \in Requests, NEW m \in Messages, BeginAnchor(r, m)
      PROVE  rows'[i] = rows[i]
  BY <1>1, <1>2, <1>5 DEF BeginAnchor, TypeOK, RowIds
<1>6. ASSUME NEW r \in Requests, CommitAnchor(r) \/ RollbackAnchor(r)
      PROVE  rows'[i] = rows[i]
  <2>1. request[r] \in 0..MaxRows /\ request[r] # i
    BY <1>1, <1>6 DEF CommitAnchor, RollbackAnchor, RowsWellFormed, TypeOK
  <2> QED
    BY <1>3, <1>6, <2>1 DEF CommitAnchor, RollbackAnchor, Statuses
<1>7. ASSUME NEW w \in Workers, worker[w].pc # "idle"
      PROVE  worker[w].row \in 0..MaxRows /\ worker[w].row # i
  BY <1>1, <1>7 DEF LockExclusive, RowIds
<1>8. ASSUME NEW w \in Workers, SubmissionError(w), worker[w].pc # "idle"
      PROVE  rows'[i] = rows[i]
  BY <1>3, <1>7, <1>8 DEF SubmissionError, Statuses
<1>9. ASSUME NEW w \in Workers, RejectMalformed(w) PROVE rows'[i] = rows[i]
  <2>1. PICK j \in RowIds : rows[j].status = "pending" /\ SetStatus(j, "failed")
    BY <1>9 DEF RejectMalformed, Oldest, Available
  <2>2. j \in 0..MaxRows
    BY DEF RowIds
  <2> QED
    BY <1>3, <2>1, <2>2 DEF Statuses
<1>10. ASSUME NEW w \in Workers, WorkerStep(w) PROVE rows'[i] = rows[i]
  <2>1. CASE Confirm(w)
    BY <1>3, <1>7, <2>1 DEF Confirm, Statuses
  <2>2. CASE SubmissionRefused(w)
    BY <1>8, <2>2 DEF SubmissionRefused, Refused
  <2>3. CASE LockRow(w) \/ ReadNonce(w) \/ Broadcast(w)
    BY <2>3 DEF LockRow, ReadNonce, Broadcast
  <2> QED
    BY <1>9, <1>10, <2>1, <2>2, <2>3 DEF WorkerStep
<1>11. ASSUME NEW w \in Workers, SubmissionFault(w) \/ Crash(w)
       PROVE  rows'[i] = rows[i]
  BY <1>8, <1>11 DEF SubmissionFault, Crash
<1>12. CASE Mine \/ UNCHANGED vars
  BY <1>12 DEF Mine, vars
<1> QED
  BY <1>4, <1>5, <1>6, <1>10, <1>11, <1>12 DEF Next

\* No error path, second submission or restart takes a confirmation back.
THEOREM ConfirmationsFinal == Spec => ConfirmedIsFinal
<1>1. IInv /\ [Next]_vars =>
        [\A i \in RowIds :
            rows[i].status = "confirmed" => rows'[i] = rows[i]]_vars
  BY ConfirmedKept
<1> QED
  BY <1>1, Invariance, PTL DEF Spec, ConfirmedIsFinal

--------------------------------------------------------------------------------
\* Only Confirm confirms: every other step leaves which rows are confirmed.
LEMMA OnlyConfirmConfirms ==
    ASSUME IInv, [Next]_vars, ~ \E w \in Workers : Confirm(w),
           NEW i \in RowIds, rows'[i].status = "confirmed"
    PROVE  rows[i].status = "confirmed"
<1>1. TypeOK /\ LockExclusive /\ RowsWellFormed
  BY DEF IInv
<1>2. ASSUME NEW j \in 0..MaxRows, NEW s \in Statuses \ {"confirmed"},
             SetStatus(j, s)
      PROVE  rows[i].status = "confirmed"
  BY <1>1, <1>2, SetStatusType
<1>3. ASSUME NEW m \in Messages, SendMessage(m)
      PROVE  rows[i].status = "confirmed"
  BY <1>1, <1>3 DEF SendMessage, TypeOK
<1>4. ASSUME NEW r \in Requests, NEW m \in Messages, BeginAnchor(r, m)
      PROVE  rows[i].status = "confirmed"
  BY <1>1, <1>4 DEF BeginAnchor, TypeOK
<1>5. ASSUME NEW r \in Requests, CommitAnchor(r) \/ RollbackAnchor(r)
      PROVE  rows[i].status = "confirmed"
  <2>1. request[r] \in 0..MaxRows
    BY <1>1 DEF TypeOK
  <2> QED
    BY <1>2, <1>5, <2>1 DEF CommitAnchor, RollbackAnchor, Statuses
<1>6. ASSUME NEW w \in Workers, SubmissionError(w)
      PROVE  rows[i].status = "confirmed"
  <2>1. worker[w].row \in 0..MaxRows
    BY <1>1, Fields
  <2> QED
    BY <1>2, <1>6, <2>1 DEF SubmissionError, Statuses
<1>7. ASSUME NEW w \in Workers, RejectMalformed(w)
      PROVE  rows[i].status = "confirmed"
  BY <1>2, <1>7 DEF RejectMalformed, Statuses, RowIds
<1>8. ASSUME NEW w \in Workers, LockRow(w) \/ ReadNonce(w) \/ Broadcast(w)
      PROVE  rows[i].status = "confirmed"
  BY <1>8 DEF LockRow, ReadNonce, Broadcast
<1>9. ASSUME NEW w \in Workers, Crash(w) PROVE rows[i].status = "confirmed"
  BY <1>9 DEF Crash
<1>10. CASE Mine \/ UNCHANGED vars
  BY <1>10 DEF Mine, vars
<1> QED
  BY <1>3, <1>4, <1>5, <1>6, <1>7, <1>8, <1>9, <1>10
     DEF Next, WorkerStep, SubmissionRefused, SubmissionFault

\* Only a block writes the contract.
LEMMA OnlyMineRecords ==
    ASSUME [Next]_vars, ~Mine
    PROVE  UNCHANGED ledger
BY DEF Next, vars, SendMessage, BeginAnchor, CommitAnchor, RollbackAnchor,
   WorkerStep, RejectMalformed, LockRow, ReadNonce, Broadcast, Confirm,
   SubmissionRefused, SubmissionFault, SubmissionError, Crash

\* A step of the pipeline leaves the evidence alone, records a message when
\* its transaction is mined, or attests it when its row is confirmed.
LEMMA EvidenceStep == IInv /\ [Next]_vars => [Evidence!Next]_(Evidence!vars)
<1> SUFFICES ASSUME IInv, [Next]_vars
             PROVE  [Evidence!Next]_(Evidence!vars)
  OBVIOUS
<1> DEFINE rec == {m \in Messages : ledger[m] # 0}
           att == {m \in Messages : Verified(m)}
<1>0. /\ TypeOK /\ LockExclusive /\ ReceiptsTruthful
      /\ ConfirmedByOwnTransaction /\ RowsWellFormed /\ PoolWellFormed
  BY DEF IInv
<1>1. ASSUME UNCHANGED <<rec, att>> PROVE [Evidence!Next]_(Evidence!vars)
  BY <1>1 DEF Evidence!vars
<1>2. ASSUME NEW w \in Workers, Confirm(w)
      PROVE  [Evidence!Next]_(Evidence!vars)
  <2> DEFINE i == worker[w].row
             m == rows[i].message
  <2>1. i \in RowIds /\ rows[i].status = "pending" /\ m \in Messages
    BY <1>0, <1>2, RowInUse DEF Confirm, LockExclusive
  <2>2. ledger[m] = i /\ m \in rec
    BY <1>0, <1>2, <2>1 DEF Confirm, ReceiptsTruthful, RowIds
  <2>3. m \notin att
    BY <1>0, <2>1, <2>2 DEF ConfirmedByOwnTransaction, Verified
  <2>4. \A j \in RowIds : /\ rows'[j].message = rows[j].message
                          /\ j # i => rows'[j] = rows[j]
                          /\ j = i => rows'[j].status = "confirmed"
    BY <1>0, <1>2, <2>1, SetStatusType DEF Confirm, RowIds, Statuses
  <2>5. att' = att \cup {m}
    BY <2>1, <2>4 DEF Verified
  <2>6. rec' = rec
    BY <1>2 DEF Confirm
  <2> HIDE DEF rec, att, i, m
  <2>7. Evidence!Attest(m)
    BY <2>2, <2>3, <2>5, <2>6 DEF Evidence!Attest, rec, att
  <2> QED
    BY <2>1, <2>7 DEF Evidence!Next
<1>3. ASSUME Mine PROVE [Evidence!Next]_(Evidence!vars)
  <2>1. mempool.row \in RowIds /\ mempool.row < nextRow
    <3>1. mempool.row \in 0..MaxRows /\ mempool.row # 0
      BY <1>0, <1>3, Fields DEF Mine
    <3> QED
      BY <1>0, <3>1 DEF PoolWellFormed, RowIds
  <2>2. PICK m \in Messages : m = rows[mempool.row].message
    BY <1>0, <2>1 DEF RowsWellFormed
  <2>3. att' = att
    BY <1>3 DEF Mine, Verified
  <2>4. CASE ledger[m] # 0
    BY <1>1, <1>3, <2>2, <2>3, <2>4 DEF Mine, Accepts
  <2>5. CASE ledger[m] = 0
    <3>1. ledger' = [ledger EXCEPT ![m] = mempool.row] /\ mempool.row # 0
      BY <1>3, <2>2, <2>5 DEF Mine, Accepts
    <3>2. rec' = rec \cup {m} /\ m \notin rec
      BY <1>0, <2>1, <2>5, <3>1 DEF TypeOK
    <3> HIDE DEF rec, att
    <3>3. Evidence!Record(m)
      BY <2>3, <3>2 DEF Evidence!Record, rec, att
    <3> QED
      BY <3>3 DEF Evidence!Next
  <2> QED
    BY <2>4, <2>5
<1>4. CASE ~Mine /\ ~ \E w \in Workers : Confirm(w)
  <2>1. rec' = rec
    BY <1>4, OnlyMineRecords
  <2>2. \A j \in RowIds : rows'[j].status = "confirmed" <=>
                             rows[j].status = "confirmed"
    BY <1>4, ConfirmedKept, OnlyConfirmConfirms
  <2>3. \A j \in RowIds : rows[j].status = "confirmed" => rows'[j] = rows[j]
    BY ConfirmedKept
  <2>4. att' = att
    BY <2>2, <2>3 DEF Verified
  <2> QED
    BY <1>1, <2>1, <2>4
<1> QED
  BY <1>2, <1>3, <1>4

\* The anchoring implements IntegrityEvidence: one record per message,
\* attested only when it is on the chain, and for good.
THEOREM Refinement == Spec => ImplementsEvidence
<1>1. Init => Evidence!Init
  <2>1. ASSUME Init, NEW i \in RowIds PROVE rows[i].status # "confirmed"
    <3>1. rows[i] \in [message : Legacy, hasRecordId : {FALSE},
                       status : {"pending"}] \cup {EmptyRow}
      BY <2>1 DEF Init
    <3>2. CASE rows[i] = EmptyRow
      BY <3>2 DEF EmptyRow
    <3>3. CASE rows[i] # EmptyRow
      BY <3>1, <3>3
    <3> QED
      BY <3>2, <3>3
  <2>2. ASSUME Init, NEW m \in Messages PROVE ledger[m] = 0
    BY <2>2 DEF Init
  <2> QED
    BY <2>1, <2>2 DEF Evidence!Init, Verified
<1>2. IInv /\ [Next]_vars => [Evidence!Next]_(Evidence!vars)
  BY EvidenceStep
<1> QED
  BY <1>1, <1>2, Invariance, PTL DEF Spec, ImplementsEvidence, Evidence!Spec

--------------------------------------------------------------------------------
(* The verification over it *)

\* A row other transactions can see keeps its message and stays visible.
LEMMA RowsStay ==
    ASSUME IInv, [Next]_vars, NEW i \in RowIds, Committed(i)
    PROVE  Committed(i)' /\ rows'[i].message = rows[i].message
<1>1. TypeOK /\ RowsWellFormed /\ LockExclusive
  BY DEF IInv
<1>2. i < nextRow
  BY <1>1 DEF Committed, RowsWellFormed, EmptyRow, TypeOK, RowIds
<1>3. rows \in [RowIds -> Row]
  BY <1>1 DEF TypeOK
<1>4. ASSUME NEW k \in RowIds, NEW s \in Statuses, SetStatus(k, s),
             k = i => s \in {"pending", "confirmed", "failed"}
      PROVE  Committed(i)' /\ rows'[i].message = rows[i].message
  BY <1>3, <1>4 DEF SetStatus, Committed, Row
<1>5. CASE UNCHANGED rows
  BY <1>5 DEF Committed
<1>6. ASSUME NEW m \in Messages, SendMessage(m)
      PROVE  Committed(i)' /\ rows'[i].message = rows[i].message
  <2>1. rows'[i] = rows[i]
    BY <1>1, <1>2, <1>6 DEF SendMessage, TypeOK, RowIds
  <2> QED
    BY <2>1 DEF Committed
<1>7. ASSUME NEW r \in Requests, NEW m \in Messages, BeginAnchor(r, m)
      PROVE  Committed(i)' /\ rows'[i].message = rows[i].message
  <2>1. rows'[i] = rows[i]
    BY <1>1, <1>2, <1>7 DEF BeginAnchor, TypeOK, RowIds
  <2> QED
    BY <2>1 DEF Committed
<1>8. ASSUME NEW r \in Requests, CommitAnchor(r)
      PROVE  Committed(i)' /\ rows'[i].message = rows[i].message
  <2>1. request[r] \in RowIds
    BY <1>1, <1>8 DEF CommitAnchor, TypeOK, RowIds
  <2> QED
    BY <1>4, <1>8, <2>1 DEF CommitAnchor, Statuses
<1>9. ASSUME NEW r \in Requests, RollbackAnchor(r)
      PROVE  Committed(i)' /\ rows'[i].message = rows[i].message
  <2>1. request[r] \in RowIds
    BY <1>1, <1>9 DEF RollbackAnchor, TypeOK, RowIds
  <2>2. request[r] # i
    BY <1>1, <1>9 DEF RollbackAnchor, RowsWellFormed, Committed
  <2> QED
    BY <1>4, <1>9, <2>1, <2>2 DEF RollbackAnchor, Statuses
<1>10. ASSUME NEW w \in Workers, RejectMalformed(w)
       PROVE  Committed(i)' /\ rows'[i].message = rows[i].message
  BY <1>4, <1>10 DEF RejectMalformed, Statuses
<1>11. ASSUME NEW w \in Workers, worker[w].pc # "idle", SubmissionError(w)
       PROVE  Committed(i)' /\ rows'[i].message = rows[i].message
  <2>1. worker[w].row \in RowIds
    BY <1>1, <1>11 DEF LockExclusive
  <2> QED
    BY <1>4, <1>5, <1>11, <2>1 DEF SubmissionError, Statuses
<1>12. ASSUME NEW w \in Workers, Confirm(w)
       PROVE  Committed(i)' /\ rows'[i].message = rows[i].message
  <2>1. worker[w].row \in RowIds
    BY <1>1, <1>12 DEF LockExclusive, Confirm
  <2> QED
    BY <1>4, <1>12, <2>1 DEF Confirm, Statuses
<1>13. ASSUME NEW w \in Workers, SubmissionRefused(w) \/ SubmissionFault(w)
       PROVE  worker[w].pc # "idle" /\ SubmissionError(w)
  BY <1>13 DEF SubmissionRefused, SubmissionFault, Refused
<1>14. ASSUME NEW w \in Workers,
              LockRow(w) \/ ReadNonce(w) \/ Broadcast(w) \/ Crash(w)
       PROVE  UNCHANGED rows
  BY <1>14 DEF LockRow, ReadNonce, Broadcast, Crash
<1>15. Mine => UNCHANGED rows
  BY DEF Mine
<1>16. UNCHANGED vars => UNCHANGED rows
  BY DEF vars
<1> QED
  BY <1>5, <1>6, <1>7, <1>8, <1>9, <1>10, <1>11, <1>12, <1>13, <1>14, <1>15,
     <1>16, Zenon DEF Next, WorkerStep

\* Rows of the pipeline are as before in what the client holds on to.
LEMMA VerifiedStays ==
    ASSUME IInv, [Next]_vars, NEW m, Verified(m)
    PROVE  Verified(m)'
<1>1. PICK i \in RowIds : rows[i].message = m /\ rows[i].status = "confirmed"
  BY DEF Verified
<1>2. rows'[i] = rows[i]
  BY <1>1, ConfirmedKept
<1> QED
  BY <1>1, <1>2 DEF Verified, RowIds

\* An anchor that a client holds goes on naming a committed row of its message.
LEMMA AnchorStays ==
    ASSUME IInv, [Next]_vars, NEW m, NEW a, AnchorOf(m, a)
    PROVE  AnchorOf(m, a)'
<1>1. CASE a = NoAnchor
  BY <1>1 DEF AnchorOf
<1>2. CASE a # NoAnchor
  <2>1. /\ a.row \in RowIds /\ rows[a.row].message = m
        /\ Committed(a.row) /\ a.status # "none"
        /\ a.status = "confirmed" => rows[a.row].status = "confirmed"
    BY <1>2 DEF AnchorOf
  <2>2. Committed(a.row)' /\ rows'[a.row].message = rows[a.row].message
    BY <2>1, RowsStay
  <2>3. a.status = "confirmed" => rows'[a.row].status = "confirmed"
    BY <2>1, ConfirmedKept
  <2> QED
    BY <2>1, <2>2, <2>3 DEF AnchorOf, RowIds
<1> QED
  BY <1>1, <1>2

\* A verification in flight is true of the rows after a step of the pipeline.
LEMMA CallStays ==
    ASSUME IInv, [Next]_vars, NEW c, CallFits(c)
    PROVE  CallFits(c)'
<1>1. AnchorOf(c.message, c.anchor) => AnchorOf(c.message, c.anchor)'
  BY AnchorStays
<1>2. Verified(c.message) => Verified(c.message)'
  BY VerifiedStays
<1> QED
  BY <1>1, <1>2 DEF CallFits

\* A slot that is given a command that fits.
LEMMA PutFits ==
    ASSUME IInv, [Next]_vars, VerdictTypeOK, Captured,
           NEW s \in Slots, NEW c \in Calls, CallFits(c), Put(s, c)
    PROVE  Captured' /\ verify' \in [Slots -> Calls]
<1>1. verify' \in [Slots -> Calls]
  BY DEF VerdictTypeOK, Put
<1>2. ASSUME NEW t \in Slots PROVE CallFits(verify[t])'
  <2>1. PICK d : d = IF t = s THEN c ELSE verify[t]
    OBVIOUS
  <2>2. CallFits(d)
    BY <2>1 DEF Captured
  <2>3. verify'[t] = d
    BY <2>1 DEF Put, VerdictTypeOK
  <2>4. CallFits(d)'
    BY <2>2, CallStays
  <2> QED
    BY <2>3, <2>4 DEF CallFits
<1> QED
  BY <1>1, <1>2 DEF Captured

\* Files and verdicts that are left alone.
LEMMA KeptStays ==
    ASSUME IInv, [Next]_vars, KeptWithMessage, UNCHANGED cache
    PROVE  KeptWithMessage'
<1>1. ASSUME NEW f \in Files, NEW m \in Messages
      PROVE  AnchorOf(m, cache[f][m])'
  <2>1. PICK a : a = cache[f][m]
    OBVIOUS
  <2>2. AnchorOf(m, a)'
    BY <2>1, AnchorStays DEF KeptWithMessage
  <2> QED
    BY <2>1, <2>2 DEF AnchorOf
<1> QED
  BY <1>1 DEF KeptWithMessage

\* A verdict that is shown stays true while the pipeline goes on.
LEMMA ShownStays ==
    ASSUME IInv, [Next]_vars, ShownConfirmed, UNCHANGED verdict
    PROVE  ShownConfirmed'
BY VerifiedStays DEF ShownConfirmed

\* No verification in flight is a well-formed one.
LEMMA IdleFits == Idle \in Calls /\ CallFits(Idle)
<1>1. NoAnchor \in Anchors
  BY BoundsAssumption DEF NoAnchor, Anchors
<1>2. Idle \in Calls
  BY <1>1 DEF Idle, Calls
<1>3. Idle.stage = "idle"
  BY DEF Idle
<1> QED
  BY <1>2, <1>3 DEF CallFits

\* A verdict that is shown holds, and the slot is free again.
LEMMA ShowFits ==
    ASSUME VInv, [Next]_vars, NEW s \in Slots, verify[s].message \in Messages,
           NEW v \in Verdicts, Show(s, v),
           v = "verified" => Verified(verify[s].message)
    PROVE  /\ Captured' /\ verify' \in [Slots -> Calls]
           /\ ShownConfirmed' /\ verdict' \in [Messages -> Verdicts]
<1>1. Captured' /\ verify' \in [Slots -> Calls]
  BY PutFits, IdleFits DEF Show, VInv
<1>2. verdict' \in [Messages -> Verdicts]
  BY DEF Show, VInv, VerdictTypeOK
<1>3. ASSUME NEW m \in Messages, verdict'[m] = "verified"
      PROVE  Verified(m)'
  <2>1. Verified(m)
    BY <1>3 DEF Show, VInv, VerdictTypeOK, ShownConfirmed
  <2> QED
    BY <2>1, VerifiedStays DEF VInv
<1> QED
  BY <1>1, <1>2, <1>3 DEF ShownConfirmed

\* The fetched anchor is one of the message it is kept with.
LEMMA KeepFits ==
    ASSUME VInv, [Next]_vars, NEW s \in Slots, verify[s].stage # "idle", Keep(s)
    PROVE  KeptWithMessage' /\ cache' \in [Files -> [Messages -> Anchors]]
<1>1. /\ verify[s] \in Calls /\ verify[s].message \in Messages
      /\ AnchorOf(verify[s].message, verify[s].anchor)
  BY DEF VInv, VerdictTypeOK, Captured, CallFits
<1>2. verify[s].anchor \in Anchors
  BY <1>1 DEF Calls
<1>3. cache' \in [Files -> [Messages -> Anchors]]
  BY <1>1, <1>2 DEF Keep, VInv, VerdictTypeOK
<1>4. ASSUME NEW f \in Files, NEW m \in Messages
      PROVE  AnchorOf(m, cache[f][m])'
  <2>1. PICK a : a = cache'[f][m]
    OBVIOUS
  <2>2. a = cache[f][m] \/ (m = verify[s].message /\ a = verify[s].anchor)
    BY <1>1, <2>1 DEF Keep, VInv, VerdictTypeOK
  <2>3. AnchorOf(m, cache[f][m])
    BY DEF VInv, KeptWithMessage
  <2>4. AnchorOf(m, a)
    BY <1>1, <2>2, <2>3
  <2>5. AnchorOf(m, a)'
    BY <2>4, AnchorStays DEF VInv
  <2> QED
    BY <2>1, <2>5 DEF AnchorOf
<1> QED
  BY <1>3, <1>4 DEF KeptWithMessage

--------------------------------------------------------------------------------
(* The invariant *)

\* What holds of the pipeline after any step holds of it here.
LEMMA PipelineStep ==
    ASSUME VInv, [Next]_vars
    PROVE  IInv'
BY Step DEF VInv

\* The pipeline takes a step and the client keeps what it has.
LEMMA ClientKept ==
    ASSUME VInv, [Next]_vars, UNCHANGED client
    PROVE  VInv'
<1>1. VerdictTypeOK'
  BY DEF client, VInv, VerdictTypeOK
<1>2. KeptWithMessage' /\ ShownConfirmed'
  BY KeptStays, ShownStays DEF client, VInv
<1>3. ASSUME NEW t \in Slots PROVE CallFits(verify[t])'
  <2>1. PICK d : d = verify[t]
    OBVIOUS
  <2>2. CallFits(d)'
    BY <2>1, CallStays DEF VInv, Captured
  <2> QED
    BY <2>1, <2>2 DEF CallFits, client
<1> QED
  BY <1>1, <1>2, <1>3, PipelineStep DEF VInv, Captured

\* A step that only gives a slot another command.
LEMMA OnlyPut ==
    ASSUME VInv, NEW s \in Slots, NEW c \in Calls, CallFits(c), Put(s, c),
           UNCHANGED <<pipeline, open, held, cache, verdict>>
    PROVE  VInv'
<1>1. [Next]_vars
  BY DEF pipeline
<1>2. Captured' /\ verify' \in [Slots -> Calls]
  BY <1>1, PutFits DEF VInv
<1>3. KeptWithMessage' /\ ShownConfirmed'
  BY <1>1, KeptStays, ShownStays DEF VInv
<1> QED
  BY <1>1, <1>2, <1>3, PipelineStep DEF VInv, VerdictTypeOK

\* A step that shows a verdict and may keep an anchor.
LEMMA OnlyShow ==
    ASSUME VInv, NEW s \in Slots, verify[s].stage # "idle",
           Keep(s) \/ UNCHANGED cache, NEW v \in Verdicts, Show(s, v),
           v = "verified" => Verified(verify[s].message),
           UNCHANGED <<pipeline, open, held>>
    PROVE  VInv'
<1>1. [Next]_vars
  BY DEF pipeline
<1>2. verify[s].message \in Messages
  BY DEF VInv, Captured, CallFits
<1>3. /\ Captured' /\ verify' \in [Slots -> Calls]
      /\ ShownConfirmed' /\ verdict' \in [Messages -> Verdicts]
  BY <1>1, <1>2, ShowFits
<1>4. KeptWithMessage' /\ cache' \in [Files -> [Messages -> Anchors]]
  <2>1. CASE Keep(s)
    BY <1>1, <2>1, KeepFits
  <2>2. CASE UNCHANGED cache
    BY <1>1, <2>2, KeptStays DEF VInv, VerdictTypeOK
  <2> QED
    BY <2>1, <2>2
<1> QED
  BY <1>1, <1>3, <1>4, PipelineStep DEF VInv, VerdictTypeOK

\* A verification begins.
LEMMA VerifyStep ==
    ASSUME VInv, NEW s \in Slots, NEW m \in Messages, Verify(s, m)
    PROVE  VInv'
<1>1. PICK c : c = [Idle EXCEPT !.stage = "fetch", !.message = m,
                                !.vouched = Verified(m)]
  OBVIOUS
<1>2. c \in Calls
  <2>1. Verified(m) \in BOOLEAN
    BY DEF Verified
  <2> QED
    BY <1>1, <2>1, IdleFits DEF Calls
<1>3. /\ c.stage = "fetch" /\ c.message = m /\ c.anchor = NoAnchor
      /\ c.vouched = Verified(m)
  BY <1>1, IdleFits DEF Idle
<1>4. CallFits(c)
  BY <1>3 DEF CallFits, AnchorOf
<1> QED
  BY <1>1, <1>2, <1>4, OnlyPut DEF Verify

\* The server answers with the latest anchor of the message.
LEMMA ServeAnchorStep ==
    ASSUME VInv, NEW s \in Slots, ServeAnchor(s)
    PROVE  VInv'
<1> DEFINE m == verify[s].message
<1>1. PICK a : /\ Answer(s, a) /\ a \in Anchors
               /\ AnchorOf(m, a)
  <2>1. ASSUME NEW i \in RowIds, Latest(m, i)
        PROVE  /\ [row |-> i, status |-> rows[i].status] \in Anchors
               /\ AnchorOf(m, [row |-> i, status |-> rows[i].status])
    <3>1. PICK a : a = [row |-> i, status |-> rows[i].status]
      OBVIOUS
    <3>2. /\ a.row = i /\ a.status = rows[i].status
          /\ a.status \in {"pending", "confirmed", "failed"}
          /\ rows[i].message = m /\ Committed(i)
      BY <2>1, <3>1 DEF Latest, RowsOf, Committed
    <3>3. a \in Anchors
      BY <3>1, <3>2, BoundsAssumption DEF Anchors, RowIds
    <3> QED
      BY <3>1, <3>2, <3>3 DEF AnchorOf
  <2>2. NoAnchor \in Anchors /\ AnchorOf(m, NoAnchor)
    BY BoundsAssumption DEF NoAnchor, Anchors, AnchorOf
  <2>3. CASE Answer(s, NoAnchor)
    BY <2>2, <2>3
  <2>4. CASE \E i \in RowIds :
               /\ Latest(m, i)
               /\ Answer(s, [row |-> i, status |-> rows[i].status])
    BY <2>1, <2>4
  <2>5. \/ Answer(s, NoAnchor)
        \/ \E i \in RowIds :
             /\ Latest(m, i)
             /\ Answer(s, [row |-> i, status |-> rows[i].status])
    BY DEF ServeAnchor
  <2> QED
    BY <2>3, <2>4, <2>5
<1>2. PICK c : c = [verify[s] EXCEPT !.answered = TRUE, !.anchor = a]
  OBVIOUS
<1>3. verify[s] \in Calls /\ CallFits(verify[s]) /\ verify[s].stage = "fetch"
  BY DEF VInv, VerdictTypeOK, Captured, ServeAnchor, Waits
<1>4. c \in Calls /\ c.stage = "fetch" /\ c.message = m /\ c.anchor = a
      /\ c.vouched = verify[s].vouched
  BY <1>1, <1>2, <1>3 DEF Calls
<1>5. CallFits(c)
  BY <1>1, <1>3, <1>4 DEF CallFits
<1> QED
  BY <1>1, <1>2, <1>4, <1>5, OnlyPut DEF ServeAnchor, Answer

\* verifyPublicAnchor of an anchor of the command's message.
LEMMA AskFits ==
    ASSUME VInv, NEW s \in Slots, verify[s].stage # "idle",
           NEW a \in Anchors, a # NoAnchor, AnchorOf(verify[s].message, a),
           NEW c, c = [verify[s] EXCEPT !.stage = "verify", !.anchor = a,
                                        !.answered = FALSE]
    PROVE  c \in Calls /\ CallFits(c)
<1>1. verify[s] \in Calls /\ CallFits(verify[s])
  BY DEF VInv, VerdictTypeOK, Captured
<1>2. /\ c \in Calls /\ c.stage = "verify" /\ c.anchor = a /\ ~c.answered
      /\ c.message = verify[s].message /\ c.vouched = verify[s].vouched
  BY <1>1 DEF Calls
<1> QED
  BY <1>1, <1>2 DEF CallFits

\* The anchor cannot be fetched: the one kept with the message serves.
LEMMA AnchorLostStep ==
    ASSUME VInv, NEW s \in Slots, AnchorLost(s)
    PROVE  VInv'
<1> DEFINE m == verify[s].message
<1>1. PICK a : a = Kept(m)
  OBVIOUS
<1>2. verify[s].stage # "idle" /\ m \in Messages
  BY DEF AnchorLost, VInv, Captured, CallFits
<1>3. a \in Anchors \cup {NoAnchor} /\ AnchorOf(m, a)
  BY <1>1, <1>2
     DEF Kept, VInv, VerdictTypeOK, KeptWithMessage, AnchorOf
<1>4. CASE a # NoAnchor
  <2>1. PICK c : c = [verify[s] EXCEPT !.stage = "verify", !.anchor = a,
                                       !.answered = FALSE]
    OBVIOUS
  <2>2. Put(s, c)
    BY <1>1, <1>4, <2>1 DEF AnchorLost, AskRelay
  <2> QED
    BY <1>2, <1>3, <1>4, <2>1, <2>2, AskFits, OnlyPut DEF AnchorLost
<1>5. CASE a = NoAnchor
  BY <1>1, <1>5, IdleFits, OnlyPut DEF AnchorLost
<1> QED
  BY <1>4, <1>5

\* The anchor is confirmed, is kept, and its root is looked up.
LEMMA ConfirmedStep ==
    ASSUME VInv, NEW s \in Slots, Confirmed(s)
    PROVE  VInv'
<1>1. [Next]_vars
  BY DEF Confirmed, pipeline
<1>2. /\ verify[s].stage = "fetch" /\ verify[s].anchor.status = "confirmed"
      /\ verify[s] \in Calls /\ CallFits(verify[s])
  BY DEF Confirmed, Answered, VInv, VerdictTypeOK, Captured
<1>3. PICK a : a = verify[s].anchor
  OBVIOUS
<1>4. a \in Anchors /\ a # NoAnchor /\ AnchorOf(verify[s].message, a)
  BY <1>2, <1>3 DEF Calls, NoAnchor, CallFits
<1>5. PICK c : c = [verify[s] EXCEPT !.stage = "verify", !.anchor = a,
                                     !.answered = FALSE]
  OBVIOUS
<1>6. c \in Calls /\ CallFits(c) /\ Put(s, c)
  BY <1>2, <1>3, <1>4, <1>5, AskFits DEF Confirmed, AskRelay
<1>7. Captured' /\ verify' \in [Slots -> Calls]
  BY <1>1, <1>6, PutFits DEF VInv
<1>8. KeptWithMessage' /\ cache' \in [Files -> [Messages -> Anchors]]
  BY <1>1, <1>2, KeepFits DEF Confirmed
<1>9. ShownConfirmed'
  BY <1>1, ShownStays DEF Confirmed, VInv
<1> QED
  BY <1>1, <1>7, <1>8, <1>9, PipelineStep DEF Confirmed, VInv, VerdictTypeOK

\* A confirmed row matches the anchor of a command that began after it was.
LEMMA VouchedMatches ==
    ASSUME IInv, NEW m \in Messages, Verified(m), NEW a, a # NoAnchor,
           AnchorOf(m, a)
    PROVE  \E i \in RowIds : Matches(i, a)
<1>1. PICK i \in RowIds : rows[i].message = m /\ rows[i].status = "confirmed"
  BY DEF Verified
<1>2. a.status = "confirmed" => a.row = i
  BY <1>1 DEF AnchorOf, IInv, ConfirmedByOwnTransaction
<1> QED
  BY <1>1, <1>2 DEF AnchorOf, Matches

\* The chain answers whether the root is on record.
LEMMA ServeVerdictStep ==
    ASSUME VInv, NEW s \in Slots, ServeVerdict(s)
    PROVE  VInv'
<1> DEFINE a == verify[s].anchor
           m == verify[s].message
           match == \E i \in RowIds : Matches(i, a)
<1>1. PICK c : c = [verify[s] EXCEPT
                      !.answered = TRUE,
                      !.answer = IF match THEN "confirmed" ELSE "none"]
  OBVIOUS
<1>2. verify[s] \in Calls /\ CallFits(verify[s]) /\ verify[s].stage = "verify"
  BY DEF VInv, VerdictTypeOK, Captured, ServeVerdict, Waits
<1>3. /\ m \in Messages /\ AnchorOf(m, a) /\ a # NoAnchor
      /\ verify[s].vouched => Verified(m)
  BY <1>2 DEF CallFits
<1>4. verify[s].vouched => match
  BY <1>3, VouchedMatches DEF VInv
<1>5. match => Verified(m)
  BY <1>3 DEF Matches, Verified, AnchorOf
<1>6. /\ c \in Calls /\ c.stage = "verify" /\ c.message = m /\ c.anchor = a
      /\ c.vouched = verify[s].vouched
      /\ c.answer = IF match THEN "confirmed" ELSE "none"
  <2> HIDE DEF match
  <2> QED
    BY <1>1, <1>2 DEF Calls
<1>7. CallFits(c)
  <2> HIDE DEF match
  <2> QED
    BY <1>3, <1>4, <1>5, <1>6 DEF CallFits
<1>8. Put(s, c)
  BY <1>1 DEF ServeVerdict
<1> QED
  BY <1>6, <1>7, <1>8, OnlyPut DEF ServeVerdict

\* Every step of the composition keeps the invariant.
LEMMA VerdictStep == VInv /\ [VerdictNext]_allVars => VInv'
<1> SUFFICES ASSUME VInv, [VerdictNext]_allVars PROVE VInv'
  OBVIOUS
<1>1. CASE Next /\ UNCHANGED client
  BY <1>1, ClientKept
<1>2. CASE UNCHANGED allVars
  BY <1>2, ClientKept DEF allVars, pipeline
<1>3. ASSUME NEW s \in Slots, NoAnchorYet(s) PROVE VInv'
  BY <1>3, OnlyShow DEF NoAnchorYet, Answered, Verdicts
<1>4. ASSUME NEW s \in Slots, Unconfirmed(s) PROVE VInv'
  BY <1>4, OnlyShow DEF Unconfirmed, Answered, Verdicts
<1>5. ASSUME NEW s \in Slots, VerdictLost(s) PROVE VInv'
  BY <1>5, OnlyPut, IdleFits DEF VerdictLost
<1>6. ASSUME NEW s \in Slots, ShowVerdict(s) PROVE VInv'
  <2>1. PICK v : v = IF verify[s].answer = "confirmed" THEN "verified"
                     ELSE "mismatch"
    OBVIOUS
  <2>2. verify[s].stage = "verify" /\ verify[s].answered
    BY <1>6 DEF ShowVerdict, Answered
  <2>3. v = "verified" => Verified(verify[s].message)
    BY <2>1, <2>2 DEF VInv, Captured, CallFits
  <2>4. v \in Verdicts /\ Show(s, v)
    BY <1>6, <2>1 DEF ShowVerdict, Verdicts
  <2> QED
    BY <1>6, <2>2, <2>3, <2>4, OnlyShow DEF ShowVerdict
<1>7. ASSUME NEW s \in Slots, Command(s) PROVE VInv'
  BY <1>3, <1>4, <1>5, <1>6, <1>7, VerifyStep, ServeAnchorStep,
     AnchorLostStep, ConfirmedStep, ServeVerdictStep DEF Command
<1>8. ASSUME (\E f \in Files : OpenFile(f)) \/ \E m \in Messages : Hold(m)
      PROVE  VInv'
  <2>1. [Next]_vars /\ UNCHANGED <<cache, verify, verdict>>
    BY <1>8 DEF OpenFile, Hold, pipeline
  <2>2. VerdictTypeOK'
    BY <1>8 DEF OpenFile, Hold, VInv, VerdictTypeOK
  <2>3. KeptWithMessage' /\ ShownConfirmed'
    BY <2>1, KeptStays, ShownStays DEF VInv
  <2>4. ASSUME NEW t \in Slots PROVE CallFits(verify[t])'
    <3>1. PICK d : d = verify[t]
      OBVIOUS
    <3>2. CallFits(d)'
      BY <2>1, <3>1, CallStays DEF VInv, Captured
    <3> QED
      BY <2>1, <3>1, <3>2 DEF CallFits
  <2> QED
    BY <2>1, <2>2, <2>3, <2>4, PipelineStep DEF VInv, Captured
<1> QED
  BY <1>1, <1>2, <1>7, <1>8 DEF VerdictNext

\* The initial state.
LEMMA VerdictInitOK == VerdictInit => VInv
<1> SUFFICES ASSUME VerdictInit PROVE VInv
  OBVIOUS
<1>1. IInv
  BY InitIInv DEF VerdictInit
<1>2. NoAnchor \in Anchors
  BY BoundsAssumption DEF NoAnchor, Anchors
<1>3. VerdictTypeOK
  BY <1>2, IdleFits DEF VerdictInit, VerdictTypeOK, Verdicts
<1>4. KeptWithMessage /\ ShownConfirmed
  BY DEF VerdictInit, KeptWithMessage, AnchorOf, ShownConfirmed
<1>5. Captured
  BY IdleFits DEF VerdictInit, Captured
<1> QED
  BY <1>1, <1>3, <1>4, <1>5 DEF VInv

--------------------------------------------------------------------------------
\* The inductive invariant of the client over the pipeline.
THEOREM VerdictInvariance == VerdictSpec => []VInv
<1> QED
  BY VerdictInitOK, VerdictStep, PTL DEF VerdictSpec

\* Type correctness of the client's state.
THEOREM VerdictTypeCorrect == VerdictSpec => []VerdictTypeOK
<1>1. VInv => VerdictTypeOK
  BY DEF VInv
<1> QED
  BY <1>1, VerdictInvariance, PTL

\* "Blockchain anchor verified" is never shown for a message the contract does
\* not hold (verifyPublicAnchor).
THEOREM VerifiedIsTrue == VerdictSpec => []VerifiedIsRecorded
<1>1. VInv => VerifiedIsRecorded
  <2>1. ASSUME VInv, NEW m \in Messages, verdict[m] = "verified"
        PROVE  ledger[m] # 0
    <3>1. PICK i \in RowIds :
            rows[i].message = m /\ rows[i].status = "confirmed"
      BY <2>1 DEF VInv, ShownConfirmed, Verified
    <3>2. ledger[m] = i
      BY <2>1, <3>1 DEF VInv, IInv, ConfirmedByOwnTransaction
    <3> QED
      BY <3>2, BoundsAssumption DEF RowIds
  <2> QED
    BY <2>1 DEF VerifiedIsRecorded
<1> QED
  BY <1>1, VerdictInvariance, PTL

\* No mismatch for what was confirmed when /verify began (verify).
THEOREM MismatchIsTrue == VerdictSpec => []NoFalseMismatch
<1>1. VInv => NoFalseMismatch
  BY DEF VInv, Captured, CallFits, NoFalseMismatch, Answered
<1> QED
  BY <1>1, VerdictInvariance, PTL

\* What is kept with a message is an anchor of it, in every file (verify).
THEOREM KeptIsTrue == VerdictSpec => []KeptWithMessage
<1>1. VInv => KeptWithMessage
  BY DEF VInv
<1> QED
  BY <1>1, VerdictInvariance, PTL

\* The properties of the anchoring hold of the composition: its steps are
\* steps of the pipeline or leave it alone.
THEOREM PipelineUndisturbed == VerdictSpec => Spec
<1>1. VerdictInit => Init
  BY DEF VerdictInit
<1>2. [VerdictNext]_allVars => [Next]_vars
  BY DEF VerdictNext, allVars, pipeline, Command, Verify, ServeAnchor,
     AnchorLost, NoAnchorYet, Unconfirmed, Confirmed, ServeVerdict,
     VerdictLost, ShowVerdict, OpenFile, Hold
<1> QED
  BY <1>1, <1>2, PTL DEF VerdictSpec, Spec
================================================================================
