----------------------------- MODULE AnchorPipeline -----------------------------
(***************************************************************************)
(* The anchoring of relay messages: rows of blockchain_anchors created by  *)
(* API requests, workers that take the oldest pending row under a row      *)
(* lock, submit its digest to the MessageFidelity contract from one shared *)
(* account, wait for the receipt and record the outcome.                   *)
(*                                                                         *)
(* A row's number is the start order of the transaction that inserts it,   *)
(* which is what created_at holds (PostgreSQL's now()).  The digest is a   *)
(* function of columns no request ever updates, so the message itself      *)
(* stands for its record id and its digest.                                *)
(***************************************************************************)
EXTENDS Naturals

CONSTANTS
    Messages,     \* message ids
    Workers,      \* worker processes; all sign with the same account
    Requests,     \* POST /blockchain/anchors requests in progress at a time
    Legacy,       \* messages whose row predates the record_id column
    MarkFailed,   \* blockchain_worker_mark_failed_on_error
    MaxRows,      \* bound: rows ever inserted
    MaxFaults,    \* bound: crashes, lost connections, RPC errors, slow mining
    None          \* no message, no worker

ASSUME MessagesAssumption == None \notin Messages
ASSUME WorkersAssumption == None \notin Workers
ASSUME LegacyAssumption == Legacy \subseteq Messages
ASSUME MarkFailedAssumption == MarkFailed \in BOOLEAN
ASSUME BoundsAssumption == MaxRows \in Nat /\ MaxFaults \in Nat

VARIABLES
    rows,      \* the table, with the slots of running transactions
    nextRow,   \* the number of the next transaction that may insert
    request,   \* row each API request is about to insert, 0 when none
    worker,    \* per worker: where it is, the row it holds locked, ...
    mempool,   \* the account's one transaction that is not mined
    ledger,    \* contract: the row whose submission wrote the record, or 0
    faults     \* faults so far

vars == <<rows, nextRow, request, worker, mempool, ledger, faults>>

--------------------------------------------------------------------------------
RowIds == 1..MaxRows

Statuses == {"free", "inserting", "pending", "confirmed", "failed"}

EmptyRow == [message |-> None, hasRecordId |-> FALSE, status |-> "free"]

(***************************************************************************)
(* pc: "idle" between transactions; "locked" holding a row; "signing" with *)
(* a nonce read from the node; "waiting" for the receipt of its            *)
(* transaction.  nonce says whether the nonce read is still the account's  *)
(* next one ("current") or a transaction with it was mined ("used").       *)
(***************************************************************************)
IdleWorker == [pc |-> "idle", row |-> 0, nonce |-> "none", receipt |-> "none"]

EmptyPool == [row |-> 0, by |-> None]

Row == [message : Messages \cup {None}, hasRecordId : BOOLEAN,
        status : Statuses]

WorkerState == [pc : {"idle", "locked", "signing", "waiting"},
                row : 0..MaxRows,
                nonce : {"none", "current", "used"},
                receipt : {"none", "ok", "reverted"}]

TypeOK ==
    /\ rows \in [RowIds -> Row]
    /\ nextRow \in 1..(MaxRows + 1)
    /\ request \in [Requests -> 0..MaxRows]
    /\ worker \in [Workers -> WorkerState]
    /\ mempool \in [row : 0..MaxRows, by : Workers \cup {None}]
    /\ ledger \in [Messages -> 0..MaxRows]
    /\ faults \in 0..MaxFaults

--------------------------------------------------------------------------------
\* A row other transactions can see.
Committed(i) == rows[i].status \in {"pending", "confirmed", "failed"}

Sent(m) == \E i \in RowIds : rows[i].message = m /\ Committed(i)

\* Mutant: only pending rows are looked for.
HasPending(m) ==
    \E i \in RowIds : rows[i].message = m /\ rows[i].status = "pending"

\* get_latest_active_for_message finds a row.
HasActive(m) ==
    \E i \in RowIds : /\ rows[i].message = m
                      /\ rows[i].status \in {"pending", "confirmed"}

Locked(i) == \E w \in Workers : worker[w].row = i

\* Mutant: FOR UPDATE SKIP LOCKED dropped from the query.
AvailableIgnoringLocks == {i \in RowIds : rows[i].status = "pending"}

\* Rows get_next_pending_for_update may return: FOR UPDATE SKIP LOCKED.
Available == {i \in RowIds : rows[i].status = "pending" /\ ~Locked(i)}

\* Mutant: ORDER BY created_at DESC.
Newest(i) == i \in Available /\ \A j \in Available : j <= i

Oldest(i) == i \in Available /\ \A j \in Available : i <= j

\* The row leaves the worker's transaction with this status.
SetStatus(i, s) == rows' = [rows EXCEPT ![i].status = s]

\* Mutant: receipts are matched by account instead of by transaction.
AbandonNothing(w) == worker[w].pc # "none" /\ UNCHANGED mempool

\* A transaction whose sender no longer waits for it stays in the mempool.
Abandon(w) ==
    mempool' = IF mempool.by = w THEN [mempool EXCEPT !.by = None] ELSE mempool

Fault == faults < MaxFaults /\ faults' = faults + 1

--------------------------------------------------------------------------------
(* API requests *)

\* send_message, forward_message: the message and its pending row commit
\* together; a new message id has no active row.
SendMessage(m) ==
    /\ ~Sent(m)
    /\ nextRow <= MaxRows
    /\ rows' = [rows EXCEPT ![nextRow] =
                  [message |-> m, hasRecordId |-> TRUE, status |-> "pending"]]
    /\ nextRow' = nextRow + 1
    /\ UNCHANGED <<request, worker, mempool, ledger, faults>>

\* create_message_anchor up to its check.  When an active row is found it is
\* returned as it is and nothing changes.
BeginAnchor(r, m) ==
    /\ request[r] = 0
    /\ Sent(m)
    /\ ~HasActive(m)
    /\ nextRow <= MaxRows
    /\ rows' = [rows EXCEPT ![nextRow] =
                  [message |-> m, hasRecordId |-> TRUE, status |-> "inserting"]]
    /\ request' = [request EXCEPT ![r] = nextRow]
    /\ nextRow' = nextRow + 1
    /\ UNCHANGED <<worker, mempool, ledger, faults>>

\* create_message_anchor: INSERT and COMMIT, with no look at what other
\* requests inserted since the check.
CommitAnchor(r) ==
    /\ request[r] # 0
    /\ SetStatus(request[r], "pending")
    /\ request' = [request EXCEPT ![r] = 0]
    /\ UNCHANGED <<nextRow, worker, mempool, ledger, faults>>

\* create_message_anchor: any exception rolls the insertion back.
RollbackAnchor(r) ==
    /\ request[r] # 0
    /\ SetStatus(request[r], "free")
    /\ request' = [request EXCEPT ![r] = 0]
    /\ UNCHANGED <<nextRow, worker, mempool, ledger, faults>>

--------------------------------------------------------------------------------
(* Workers *)

\* process_next_pending_anchor: a row without a record id is marked failed.
RejectMalformed(w) ==
    /\ worker[w].pc = "idle"
    /\ \E i \in RowIds :
          /\ Oldest(i)
          /\ ~rows[i].hasRecordId
          /\ SetStatus(i, "failed")
    /\ UNCHANGED <<nextRow, request, worker, mempool, ledger, faults>>

\* process_next_pending_anchor: select and lock the oldest pending row.
LockRow(w) ==
    /\ worker[w].pc = "idle"
    /\ \E i \in RowIds :
          /\ Oldest(i)
          /\ rows[i].hasRecordId
          /\ worker' = [worker EXCEPT ![w] =
                          [IdleWorker EXCEPT !.pc = "locked", !.row = i]]
    /\ UNCHANGED <<rows, nextRow, request, mempool, ledger, faults>>

\* submit_hash: get_transaction_count of the shared account.
ReadNonce(w) ==
    /\ worker[w].pc = "locked"
    /\ worker' = [worker EXCEPT ![w] =
                    [@ EXCEPT !.pc = "signing", !.nonce = "current"]]
    /\ UNCHANGED <<rows, nextRow, request, mempool, ledger, faults>>

\* submit_hash: send_raw_transaction accepted.  A transaction of the account
\* still in the mempool has the same nonce and is replaced (higher gas price).
Broadcast(w) ==
    /\ worker[w].pc = "signing"
    /\ worker[w].nonce = "current"
    /\ mempool' = [row |-> worker[w].row, by |-> w]
    /\ worker' = [worker EXCEPT ![w] = [@ EXCEPT !.pc = "waiting"]]
    /\ UNCHANGED <<rows, nextRow, request, ledger, faults>>

\* Mutant: the receipt's status is not looked at.
ConfirmAnyReceipt(w) ==
    /\ worker[w].pc = "waiting"
    /\ worker[w].receipt # "none"
    /\ SetStatus(worker[w].row, "confirmed")
    /\ worker' = [worker EXCEPT ![w] = IdleWorker]
    /\ UNCHANGED <<nextRow, request, mempool, ledger, faults>>

\* process_next_pending_anchor, the status check passed: confirmed, COMMIT.
Confirm(w) ==
    /\ worker[w].pc = "waiting"
    /\ worker[w].receipt = "ok"
    /\ SetStatus(worker[w].row, "confirmed")
    /\ worker' = [worker EXCEPT ![w] = IdleWorker]
    /\ UNCHANGED <<nextRow, request, mempool, ledger, faults>>

\* Mutant: the failed status is set but never committed.
SubmissionErrorUncommitted(w) ==
    /\ Abandon(w)
    /\ worker' = [worker EXCEPT ![w] = IdleWorker]
    /\ UNCHANGED <<rows, nextRow, request, ledger>>

\* process_next_pending_anchor: submit_hash raised.  The row is marked failed
\* or the transaction is rolled back, and the row's lock released.
SubmissionError(w) ==
    /\ IF MarkFailed THEN SetStatus(worker[w].row, "failed") ELSE UNCHANGED rows
    /\ Abandon(w)
    /\ worker' = [worker EXCEPT ![w] = IdleWorker]
    /\ UNCHANGED <<nextRow, request, ledger>>

\* Nonce too low, replacement underpriced, reverted, or the receipt of a
\* replaced transaction timed out.
Refused(w) ==
    \/ worker[w].pc = "signing" /\ (worker[w].nonce = "used" \/ mempool.row # 0)
    \/ worker[w].pc = "waiting" /\ worker[w].receipt = "reverted"
    \/ /\ worker[w].pc = "waiting"
       /\ worker[w].receipt = "none"
       /\ mempool.by # w

SubmissionRefused(w) ==
    /\ Refused(w)
    /\ SubmissionError(w)
    /\ UNCHANGED faults

\* An RPC call of submit_hash fails, even the last one (get_block) after the
\* transaction was mined, or the receipt does not come in time.
SubmissionFault(w) ==
    /\ worker[w].pc # "idle"
    /\ Fault
    /\ SubmissionError(w)

\* The worker process or its database connection dies; systemd restarts it
\* and PostgreSQL rolls its transaction back.
Crash(w) ==
    /\ worker[w].pc # "idle"
    /\ Fault
    /\ Abandon(w)
    /\ worker' = [worker EXCEPT ![w] = IdleWorker]
    /\ UNCHANGED <<rows, nextRow, request, ledger>>

--------------------------------------------------------------------------------
(* Chain *)

\* The contract refuses a record id it already holds.
Accepts(m) == ledger[m] = 0

\* storeHash executes in a block: the nonce is used whether it reverts or not.
Mine ==
    LET i  == mempool.row
        m  == rows[i].message
        ok == Accepts(m)
    IN  /\ i # 0
        /\ ledger' = IF ok THEN [ledger EXCEPT ![m] = i] ELSE ledger
        /\ worker' = [w \in Workers |->
              [worker[w] EXCEPT
                 !.receipt = IF mempool.by = w
                               THEN (IF ok THEN "ok" ELSE "reverted") ELSE @,
                 !.nonce = IF @ = "current" THEN "used" ELSE @]]
        /\ mempool' = EmptyPool
        /\ UNCHANGED <<rows, nextRow, request, faults>>

--------------------------------------------------------------------------------
\* Legacy rows were inserted, in some order, before the others.
Init ==
    /\ nextRow \in 1..(MaxRows + 1)
    /\ rows \in [RowIds -> [message : Legacy, hasRecordId : {FALSE},
                            status : {"pending"}] \cup {EmptyRow}]
    /\ \A i \in RowIds : rows[i] # EmptyRow <=> i < nextRow
    /\ \A m \in Legacy : \E i \in RowIds : rows[i].message = m
    /\ \A i, j \in RowIds : (rows[i].message = rows[j].message /\ i < nextRow
                              /\ j < nextRow) => i = j
    /\ request = [r \in Requests |-> 0]
    /\ worker = [w \in Workers |-> IdleWorker]
    /\ mempool = EmptyPool
    /\ ledger = [m \in Messages |-> 0]
    /\ faults = 0

WorkerStep(w) ==
    \/ RejectMalformed(w) \/ LockRow(w) \/ ReadNonce(w)
    \/ Broadcast(w) \/ Confirm(w) \/ SubmissionRefused(w)

Next ==
    \/ \E m \in Messages : SendMessage(m)
    \/ \E r \in Requests, m \in Messages : BeginAnchor(r, m)
    \/ \E r \in Requests : CommitAnchor(r) \/ RollbackAnchor(r)
    \/ \E w \in Workers : WorkerStep(w) \/ SubmissionFault(w) \/ Crash(w)
    \/ Mine

Spec == Init /\ [][Next]_vars

(***************************************************************************)
(* run_forever never stops polling and systemd restarts the process, a     *)
(* request ends, and the chain mines what its mempool holds.  No fairness  *)
(* is assumed of users, of faults or of the choice among racing workers.   *)
(***************************************************************************)
Fairness ==
    /\ \A w \in Workers : WF_vars(WorkerStep(w))
    /\ \A r \in Requests : WF_vars(CommitAnchor(r) \/ RollbackAnchor(r))
    /\ WF_vars(Mine)

FairSpec == Spec /\ Fairness

--------------------------------------------------------------------------------
(* What readers are told *)

\* verify_anchor_metadata answers valid for the record of m.
Verified(m) ==
    \E i \in RowIds : rows[i].message = m /\ rows[i].status = "confirmed"

\* hasRecord answers yes for the message of row i.
OnChain(i) == \E m \in Messages : rows[i].message = m /\ ledger[m] # 0

\* Row i is pending and no pending row is older.
Head(i) ==
    /\ rows[i].status = "pending"
    /\ \A j \in 1..(i - 1) : rows[j].status # "pending"

Evidence == INSTANCE IntegrityEvidence
              WITH recorded <- {m \in Messages : ledger[m] # 0},
                   attested <- {m \in Messages : Verified(m)}

--------------------------------------------------------------------------------
(* Properties *)

\* A row the worker confirmed is the one whose own submission wrote the
\* record: a receipt of a reverted, replaced or foreign transaction never
\* confirms anything, so no two rows of a message are confirmed and what
\* verify_anchor_metadata vouches for is on the chain.
ConfirmedByOwnTransaction ==
    \A i \in RowIds : rows[i].status = "confirmed" => ledger[rows[i].message] = i

\* SKIP LOCKED gives a row to one worker at a time, and nothing but that
\* worker moves the row out of pending while it waits for the chain.
LockExclusive ==
    \A w \in Workers : worker[w].pc # "idle" =>
        /\ worker[w].row \in RowIds
        /\ rows[worker[w].row].status = "pending"
        /\ \A v \in Workers \ {w} : worker[v].row # worker[w].row

\* An older row of the same message failed.
FailureBefore(i) ==
    \E k \in 1..(i - 1) : /\ rows[k].message = rows[i].message
                          /\ rows[k].status = "failed"

\* get_latest_active_for_message is a check without a lock or a unique
\* constraint, yet two active rows of one message appear only after an older
\* row of it failed: send_message's own row keeps later requests out.
DuplicatesFollowFailure ==
    \A i, j \in RowIds :
        (/\ i < j
         /\ rows[i].message = rows[j].message
         /\ {rows[i].status, rows[j].status} \subseteq {"pending", "confirmed"})
        => FailureBefore(i)

(***************************************************************************)
(* The inductive invariant behind the properties above.                    *)
(***************************************************************************)

\* Slots are handed out in order; requests own the slots being inserted.
RowsWellFormed ==
    /\ \A i \in RowIds :
          /\ i < nextRow => rows[i].message \in Messages
          /\ i >= nextRow => rows[i] = EmptyRow
    /\ \A r \in Requests : request[r] # 0 =>
          /\ rows[request[r]].status = "inserting"
          /\ \A q \in Requests \ {r} : request[q] # request[r]

\* The transaction in the mempool is known to the worker that waits for it.
PoolWellFormed ==
    /\ mempool.row = 0 => mempool.by = None
    /\ mempool.row < nextRow
    /\ \A w \in Workers : mempool.by = w =>
          /\ worker[w].pc = "waiting"
          /\ worker[w].receipt = "none"
          /\ worker[w].row = mempool.row

\* A successful receipt is that of the submission that wrote the record, and
\* a record was written by a row of its message.
ReceiptsTruthful ==
    /\ \A w \in Workers :
          /\ worker[w].pc = "idle" => worker[w] = IdleWorker
          /\ worker[w].receipt # "none" => worker[w].pc = "waiting"
          /\ worker[w].receipt = "ok" =>
                ledger[rows[worker[w].row].message] = worker[w].row
    /\ \A m \in Messages : ledger[m] # 0 =>
          ledger[m] < nextRow /\ rows[ledger[m]].message = m

\* A request inserts only after a failure it has seen.
InsertsFollowFailure ==
    /\ \A i \in RowIds : rows[i].status = "inserting" => FailureBefore(i)
    /\ \A i, j \in RowIds :
          (/\ i < j
           /\ rows[i].message = rows[j].message
           /\ "free" \notin {rows[i].status, rows[j].status})
          => rows[i].status = "failed" \/ FailureBefore(i)

IInv ==
    /\ TypeOK
    /\ RowsWellFormed
    /\ LockExclusive
    /\ PoolWellFormed
    /\ ReceiptsTruthful
    /\ ConfirmedByOwnTransaction
    /\ InsertsFollowFailure

\* The worker never takes a confirmation back: an error path of a late or
\* second submission does not overwrite the status of a confirmed row.
ConfirmedIsFinal ==
    [][\A i \in RowIds : rows[i].status = "confirmed" => rows'[i] = rows[i]]_vars

\* Whatever crashes, replacements and duplicates happen, readers see what
\* IntegrityEvidence promises.
ImplementsEvidence == Evidence!Spec

\* With mark_failed_on_error every pending row is settled: no error, revert
\* or lost receipt keeps a row pending and blocks those behind it.
EveryPendingSettles ==
    \A i \in RowIds : rows[i].status = "pending" ~>
                         rows[i].status \in {"confirmed", "failed"}

\* With the default settings the oldest pending row reaches the contract,
\* whatever submissions are lost, unless a request whose transaction started
\* earlier commits a row in front of it.
HeadReachesChain ==
    \A i \in RowIds :
        (rows[i].hasRecordId /\ Head(i)) ~> (OnChain(i) \/ ~Head(i))

\* blockchain_worker.py:192: the row is "kept locked until the contract call
\* either confirms or the transaction is rolled back, preventing duplicate
\* submissions by parallel workers".
NoDuplicateSubmission ==
    \A v, w \in Workers :
        (v # w /\ worker[v].pc = "waiting" /\ worker[w].pc = "waiting")
        => rows[worker[v].row].message # rows[worker[w].row].message

\* vulnerability_report.md:93: "outages delay status, not queue loss".
OutagesOnlyDelay ==
    \A i \in RowIds : (rows[i].status = "pending" /\ rows[i].hasRecordId)
                         ~> rows[i].status = "confirmed"
================================================================================
