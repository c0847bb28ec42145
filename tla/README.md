# Epic-KFC: a formal model

TLA+ modules of the messaging system in `src/`: a FastAPI relay over PostgreSQL
(`server/backend`), a worker that anchors message digests on an EVM contract
(`blockchain`), a Qt/C++ client (`client`) and a TypeScript messaging package
(`cryptography`). The modules are checked by TLC on small instances; the theorems
are checked by TLAPS for every value of the constants.

## How to run it

    tlc -workers 2 -config AnchorDuplicates.cfg MCAnchorPipeline.tla
    tlapm AnchorProofs.tla

`PROJECT.json` lists every run with its configuration, the source lines of every
definition, the mutants (a plausible bug for each property, which TLC finds) and the
theorems.

## 1. Inventory

### The parts and how they meet

The client talks HTTP to the relay and has no other channel to another client. Relay
requests are asynchronous handlers with one database transaction each; they meet in
PostgreSQL (READ COMMITTED) through row locks and through what others have committed.
The worker is a separate process, and may run more than once; it meets the relay in the
table `blockchain_anchors` and meets the other workers, besides, in the nonce of one
Ethereum account. Inside the client, Qt callbacks interleave: every wait for an HTTP
answer runs an event loop in which other handlers run.

| Component | State | Operations | What is hard | Correct means |
|---|---|---|---|---|
| **Anchoring pipeline** (`blockchain_worker.py`, `blockchain_anchor_*.py`, `MessageFidelity.sol`) | anchor rows and their status; nonce and pool of the account; records of the contract | request an anchor, take the oldest pending row, submit, wait, record the outcome, `storeHash` | workers and requests interleave; a crash between broadcast and COMMIT; late, replaced and reverted transactions | a confirmed row's record is on the chain, was written by that row's own transaction, and stays confirmed; pending rows make progress |
| **Refresh sessions** (`auth_service.py`, `refresh_session_repository.py`) | refresh_sessions: hash, expiry, revoked_at | register, login, refresh, logout | two requests with one token, in any order; rollback half-way | one exchange per token, one valid token per login, a logout ends the login |
| **Message relay** (`message_service.py`, `message_repository.py`) | messages: sender, recipient, lineage, three hiding columns | send, list, fetch, delete, revoke, forward | two users change one row from objects loaded earlier; access checked, then used | lists show what was neither deleted nor revoked; lineage is true; revocation ends forwarding |
| **Key relay** (`keys.py`, `one_time_prekey_repository.py`, `device_key_repository.py`) | device keys, one-time prekeys with used_at | register a device, upload a batch, hand out a bundle | concurrent bundles, SKIP LOCKED, a device registered anew between two reads | a one-time prekey is handed out once; a bundle's parts have one owner |
| **Rate limiter** (`rate_limit.py`) | window start and count per key | check, drop old keys | the boundary of two windows, the table at its limit | a known bound on requests in any interval |
| **Users and tokens** (`auth_service.py`, `token_service.py`, `password_service.py`, `user_repository.py`) | users | register, look up, hash, sign, verify | two registrations pass the same checks; an insert waits for another | one account per name and per email, found by both |
| **Audit log** (`audit_service.py`) | audit rows | append, best effort | recording must not fail the request, with which it shares a session | a failed audit row changes no answer |
| **Client session and HTTP client** (`HttpGateways.cpp`, `SessionService`) | the token pair in the gateway, the session on disk | login, logout, automatic refresh and resend after 401 | several requests share the pair; answers come after a login or logout of another account; a lost refresh answer | no request of one account carries another's token; a live session is not lost |
| **Client synchronisation and local store** (`MessageService`, `JsonLocalStore.cpp`) | message cache per account, state file, protected secrets | list by pages, save, reconcile, delete, load, save file | offsets shift while paging, stale lists, a crash while writing | a cached message is hidden only when the relay hides it |
| **Trust pins** (`KeyService`, `tofu.ts`) | pinned identity key per user, cached bundle | trust, fetch, compare | the cached bundle outlives pin, key and login | an unapproved changed key is never used |
| **Command router and controller** (`CommandRouter.cpp`, `ClientController.cpp`, `EventBus.cpp`) | operation in progress | dispatch, complete on an event | any final event opens the gate | one operation at a time, and the gate opens again |
| **Native crypto provider** (`NativeSignalCryptoProvider.cpp`) | none shared | key agreement, seal, open | which keys go into an agreement, and which may be missing | what is sealed for a bundle opens for its owner only |
| **Client check of anchors** (`MessageService`, `blockchain_anchor_service.py`) | the anchor kept with a message | `/verify` | rows of one message follow each other while a check is in flight | "verified" means recorded, and a recorded message is not called false |
| **Merkle and conversation evidence** (`merkle.ts`, `conversation.ts`) | none | root, proof, verify | odd levels, one leaf, order of a pair | proofs verify for the members and for nothing else |
| **Anchor client and UI** (`anchorClient.ts`, `fidelity-ui`) | none | thin calls | - | - |
| **TypeScript messaging** (`cryptoEngine.ts`, `signal/`) | key and session stores | wrap libsignal | the ratchet itself is a library | - |
| **Presenter, start-up** (`ConsolePresenter.cpp`, `main.cpp`) | - | input, output, wiring | - | - |
| **Mocks** (`MockCryptoProvider.cpp`, mock gateways) | - | stand-ins for tests | - | - |
| **Server wiring, schemas, migrations** (`main.py`, `schemas`, `alembic`) | - | configuration, request shapes | - | taken as given |

The hazards of each, with the line where it bites and the properties that cover it, are
in `PROJECT.json`.

## 2. What is modelled

| Module | Role |
|---|---|
| `IntegrityEvidence` | abstract: what anchoring promises to a reader |
| `AnchorPipeline` | rows, API requests, workers, transaction pool and contract; implements `IntegrityEvidence` |
| `AnchorVerdict` | the client's `/verify`; extends `AnchorPipeline` |
| `LoginLineage` | abstract: what token rotation promises |
| `RefreshSessions` | sessions and the requests that hold their rows; implements `LoginLineage` |
| `MessageRelay` | the messages table and the requests that hide, revoke and forward |
| `PreKeyRelay` | the device row, one-time prekeys, uploads and bundles of one device |
| `CommandGate` | the console's gate of one operation at a time |
| `ClientSession` | the client's tokens against a server that rotates them |
| `LocalStore` | state files, their seals, and the switch between accounts |
| `ClientSync` | the message cache against a table that changes under it |
| `NativeCrypto`, `TrustOnFirstUse` | symbolic keys and envelopes; pins, bundles, sending |
| `MC...`, with the cfgs | instances for TLC |
| `AnchorProofs`, `RelayProofs` | theorems about `AnchorPipeline` and `AnchorVerdict`, and about `MessageRelay` and `PreKeyRelay` |
| the other `...Proofs` | theorems about the modules they are named after |

`AnchorVerdict` is a composition: each of its steps is a step of `AnchorPipeline` or of
the client, and `PipelineUndisturbed` proves that it implements the pipeline.
`TrustOnFirstUse` builds on the operators of `NativeCrypto`. The three client modules
split one program along its state: what `ClientSession` knows as "the file that is open"
is opened, loaded and saved in `LocalStore`, crashes in the middle of a save included;
`ClientSync` takes a save and a load as one step each and follows the messages in them.
Each models the requests it needs with the accounts and tokens they carry, so that a login
between two callbacks is a step of all three.

### Anchoring (`AnchorPipeline`)

A row's number is the order in which its transaction started, because `created_at` is
PostgreSQL's `now()`, the time of the transaction's start; this is the order the worker
sorts by, and a row of a slow transaction can appear in front of rows already there.
The digest is computed from columns that no request updates, so a message stands for its
record id and its digest.

| Action | Code |
|---|---|
| `SendMessage` | message and pending row committed together by send and forward |
| `BeginAnchor`, `CommitAnchor`, `RollbackAnchor` | `create_message_anchor`: the unlocked look for an active row, then INSERT and COMMIT |
| `LockRow`, `RejectMalformed` | `get_next_pending_for_update` (ORDER BY created_at, SKIP LOCKED); a row without record id is failed |
| `ReadNonce`, `Broadcast` | `submit_hash`: read the nonce, sign, send; the same nonce replaces what is in the pool |
| `Confirm` | receipt with status 1, row confirmed, COMMIT |
| `SubmissionRefused` | nonce too low, replacement refused, revert, or a receipt that never comes because the transaction was replaced |
| `SubmissionFault` | an RPC error or timeout at any point, even after the transaction was mined |
| `Crash` | process or database connection lost: PostgreSQL rolls back, systemd restarts |
| `Mine` | `storeHash` runs in a block; it reverts when the record id is taken |

`MarkFailed` is the setting `blockchain_worker_mark_failed_on_error`; both values are
checked. Replacing a transaction with the same nonce is both accepted and refused (the
gas price decides). External code: the node and its pool, modelled from how the worker
uses them. The mempool holds at most one transaction of the account, since every
submission uses the account's next nonce. The contract's owner is taken to be the
worker's account. The batch loop and the sleep between polls only choose when the next
row is taken, and `Legacy` stands for rows from before the migration that added
`record_id`.

### The client's check of anchors (`AnchorVerdict`)

`Verify` asks for the anchor of a message; `ServeAnchor` answers with the latest row of
the message, whatever its status; `AnchorLost` falls back on the anchor kept with the
message, `NoAnchorYet` on none; `Keep` stores it with the message of the file that is open
by then; `Unconfirmed` shows pending and failed, `Confirmed` asks for the check,
`ServeVerdict` looks for any confirmed row that matches and `ShowVerdict` shows the
result. The anchor a client holds is the row and the status it was read with.

### Refresh sessions (`RefreshSessions`)

A client presents any token it was given (`Present`); the handler reads the time, selects
the row FOR UPDATE (`SelectForUpdate`, disabled while another transaction holds it, and
looking at the row again when it gets it) or gets nothing (`SelectNothing`); then
`Refresh` revokes, inserts the successor and commits, `Logout` revokes and commits, or
`RollBack` undoes. `Expire` lets `expires_at` pass at any moment, also between the time
read and the SELECT. Two history fields, `lineage` and `parent`, name the login and the
exchanged token of a session; the reason for `revoked_at` (`rotated`, `loggedOut`) is
history too: the code stores only the time.

Left out: the password check, which comes before the session, and `logout_all` and the
repository's mass revocations, which nothing calls.

### Message relay (`MessageRelay`)

A request goes through the statements of its handler: `BeginDelete`, `BeginRevoke` and
`BeginForward` are the first SELECT with the service's check; `SelectAgain` and `Denied`
the repository's second SELECT; `Write` the flush, which waits for a row another
transaction has written; `Commit` adds the one column SQLAlchemy found changed. Another
request may commit between any two of these. `Forward` inserts the forwarded message. A
user may send to herself. `RollBack` stands for a refused validation or a lost connection.
`done` is a history of the committed deletes and revocations.

Left out: `deleted_at`, which no code sets; inactive users and devices; payloads. The
check that a consumed prekey was handed out is in `PreKeyRelay`, pages of lists in
`ClientSync`.

### Key relay (`PreKeyRelay`)

The state is that of one device of one user; devices do not interact. A *client* is one
set of key material: every program that logs in without the state file of the one before
registers the same device with its own.

| Action | Code |
|---|---|
| `Register` | `upsert_device_key`; overlapping upserts leave what they leave in sequence |
| `BeginUpload`, `WriteBatch`, `RefuseBatch`, `CommitBatch`, `RollBackBatch` | `upload_one_time_prekeys`: look for the device, insert the batch (waiting for inserts of the same ids), 409 or COMMIT |
| `BeginFetch` | `get_prekey_bundle`: the device row, read without a lock |
| `TakePreKey`, `CommitFetch`, `Answer` | lowest unused prekey FOR UPDATE SKIP LOCKED and `used_at`; COMMIT; the bundle goes out |
| `AnswerWithoutPreKey` | every unused prekey is locked, or there is none |
| `FailFetch` | an error before or after COMMIT |

`Consumable` is the check that send and forward make. `bundles` and `uploaded` are
histories. A batch is any member of `Batches`; a client uploads after its own
registration was answered, as `KeyService` does.

### Console (`CommandGate`)

A line is read in a mode (`mode`): a command, a password, a composition. Commands of
`CommandRouter` are actions (`OpenConversation`, `BeginComposition`, `RunCommand`,
`Logout`, ...); each `Begin`s a chain of requests, closes the gate, or answers at once.
`Finish` is the last event of a chain, `FailMidway` an event `commandFailed` of a chain
that goes on, `UploadStep` and `UploadFails` the upload of device keys in the background.
`GateAfter` is `CommandRouter`'s list of events that open the gate. `early` records
that one opened it for a chain that was still running.

### Session (`ClientSession`)

Each slot is one chain of requests. `Login`, `Logout` and `Ask` send; `ServeLogin`,
`ServeRefresh`, `ServeLogout`, `ServeProtected` and `TurnAway` are the server's side with
its rotation of refresh tokens; `Lose` loses an answer after or before the server acted;
`Expire` ends an access token. `Refresh` and `Refreshed` are the single retry after a 401,
`LoggedIn` and `SignedIn` the two halves of a login (the tokens are set before `/auth/me`
is asked), `SignedOut`, `Answered` and `Fails` end a chain, and `Restart` loads the saved
session. Saving may fail everywhere. `upsets` records what has gone other than plainly, so
that a property can say under which of them it is meant.

### State files (`LocalStore`)

`LoginFails`, `LoginSucceeds` and `Logout` switch path, passphrase and memory in the order
of `SessionService::login`; `UpdateTokens`, `SaveDeviceKeys` and `SaveItem` save; every
save first truncates (`SaveStarts`) and then writes (`Write`, `WriteIsLost`), and `Stop`
may come between. An item's value stands for all of its strings, each sealed or in the
clear; a seal opens with the password, the salt and the field name it was made with.
`scoped` is false with `--state-path`, `protected` is false in mock mode.

`OwnItemsOnly` tells items with secrets from the others where two accounts share a file
(`Owned`): a file that an account's password does not open is still read for what it has
in the clear, so that with `--state-path` the next account of real mode loads what the
one before it left unsealed. TLC showed it when the invariant of the proofs was tried with
the kinds of items that have no secret.

### Synchronisation (`ClientSync`)

A chain of requests is a list of pages, or one request that changes something. `List` and
`Read` begin lists; `ServePage` answers with a page by offset, newest first; `NextPage`
asks for more while pages are full; `LastPage` saves, reconciles (a message that is
cached and not in the list gets a tombstone) and, for a conversation, marks it read.
`ServeRevoke`, `ServeDelete`, `ServeSend` and `ReceiveMessage`, `ReceiveDelete` are the
others. `Post` and `Hide` are other clients, at any moment. An answer is handled for
whoever is signed in by then.

The messages are in memory (`cache`) and in the file of each account (`disk`), and the two
drift apart. A save writes all that memory holds over the file that is open; it fails
without a passphrase (`unlocked`), as after a logout, and may fail with one (`SavesFail`),
and leaves its change in memory. Saves of other things (`SaveOther`) bring such a change
to the file later. `SignIn` opens the account's file and reads it back, and with it
everything goes that was only in memory; saving the session then writes what was just read.
`Restart` loads the last account's file, or nothing without its password. `SignOut` writes
memory, opens no other file and keeps memory; if the save succeeded the passphrase goes.
`SignInFails` is a login that stops half way (`torn`): its damage is divergence 8 and
modelled in `LocalStore`, and the properties here say nothing of what comes after it.

| Step of a list | Code |
|---|---|
| `Saved`, `StopsAt`, `FilesAfter` | `saveMessages`: one save per message, stopping at the first that fails (`oldest` is where) |
| `Reconciled` | `reconcileVisibleMessages`, whatever became of the saves, with a save of its own |
| `Opens`, `Opened` | `openConversationFromCache`: marks the conversation read unless it is empty or the device's keys are missing |

`before`, `quiet`, `gone`, `mine`, `overlap` and `torn` are histories. A message is in
`gone` for an account that was told that it is hidden, and saved it.

A file is that of one account: with `--state-path` accounts share one, which is in
`LocalStore`; a failing save without a passphrase is that of real mode.

### Keys of the client (`NativeCrypto`, `TrustOnFirstUse`)

The primitives are free constructors: a Diffie-Hellman secret is the set of two key pairs,
a derived key the record of what it is derived from, a sealed text opens with its key and
associated data. On top of them `SignIn` makes or loads the device's keys and `ServeDevice`,
`ServeBatch` publish them; `FetchToTrust`, `Trust` and `Mismatch` are `/trust`;
`SealCached` seals for the bundle kept in memory, `FetchToSend` and `SealFetched` for one
that is fetched and compared with the pin captured when the command began; `ServePost` and
`ReceivePost` store the message and its sender copy. `Rekey` is another program that
registers other keys for a user, `Restart` forgets what is only in memory.

## 3. The runs

One run for each module that has a state of its own, a second one for the other setting
of the anchoring worker, and one that shows a disagreement with a document.

| Run | Instance | Shows |
|---|---|---|
| `anchor_duplicates` | 2 messages, 2 workers, 2 requests, failures recorded, 4 rows, 2 faults, fair | duplicates, replaced transactions, reverts and crashes never confirm a row that did not write its record (`ConfirmedByOwnTransaction`), never take a confirmation back (`ConfirmedIsFinal`); duplicates follow failures only (`DuplicatesFollowFailure`); `ImplementsEvidence`; every pending row leaves the queue (`EveryPendingSettles`); the invariant of the proofs (`IInv`) |
| `anchor_retry` | the default setting, a legacy row, 1 worker, 2 requests, 4 rows, 2 faults, fair | the oldest pending row's message reaches the contract (`HeadReachesChain`) |
| `anchor_outage` | the default setting, 1 worker, 1 fault, fair | the finding of section 5: `OutagesOnlyDelay` is violated |
| `verdict_shown` | 2 messages, one without record id, 2 workers, 2 requests, 2 files, 3 rows, 1 fault | what is shown as verified is on the chain (`VerifiedIsRecorded`), an anchor is kept with its own message (`KeptWithMessage`), a confirmed message never fails its check (`NoFalseMismatch`) |
| `refresh_rotation` | 3 requests, 3 sessions, 1 database error | `ExchangedOnce`, `OneValidToken`, `LogoutEndsLineage`, `ImplementsLineage` |
| `message_visibility` | 3 users, 2 requests, 2 messages | `VisibilityExplained`, `RevocationStopsForwards` |
| `prekey_handout` | 2 clients, 2 uploads of overlapping batches, 2 bundle requests, 2 prekeys, 3 bundles | `HandedOutOnce`, `BundleSendable`, `UploadsWhole` |
| `console_gate` | 2 usernames, 2 chains, 2 lines, fair | a closed gate has an operation behind it (`BusyMeansWorking`), is exact unless another chain opened it (`GateExact`), and opens again (`GateReopens`); a composition goes to whom it was typed for (`ComposedForRecipient`) |
| `session_tokens` | 2 accounts, 2 chains, 3 token pairs, no overlap of logins | `ActsAsShown`, `CopiesAgree`, `ServerAgrees`, `RetriedOnce`, each under the upsets it names |
| `store_accounts` | 2 accounts, device keys and pins of 2 values, all modes | `DiskCurrent`, `SecretsSealed`, `OwnItemsOnly`, `KeysSurviveLogins` |
| `sync_caches` | 2 accounts, 1 chain, pages of 1, 2 messages, failing saves | what was hidden, and saved as hidden, is shown neither by the file nor by memory (`HiddenIsHidden`); an undisturbed list of several pages leaves what the server shows (`SyncExact`); no account's file holds another account's message (`OwnMessagesOnly`); no answer, save, login or restart takes anything back that a file holds (`KeptForever`) |
| `trust_pins` | 2 accounts, 2 chains, 3 key materials, 1 message | `SealedForPinned`, `PublishedStored`, `OpensForRecipient`, `CopyOpens`, `PinsKept` |

Deadlock checking is off where the models stop when their rows, sessions, messages,
requests or faults are used up, and the systems rest when no one asks for anything; the
session and store models never stop, and are checked.

### Bounds, and why they are enough

- `MaxRows` bounds the rows ever inserted. The shortest history with two active rows of
  one message needs three rows (sent, failed; two inserted at once); four leave one for
  another message that the worker meets next. `MaxFaults` = 2 lets a retry fail as well.
  Two workers are what the nonce race takes; a third only replaces one of the two.
- `verdict_shown` has three rows and one fault. `Followed` keeps a third row to one
  message, or to a client that one account has used: with two messages in two files the
  third row adds only the same cases once more.
- `MaxSessions` = 3 with three requests: two racing for one token and a third for its
  successor, or one request for each of three sessions; one rollback in any of them.
- `MaxMessages` = 2 is a message and its forward. Two requests are what a race on a row
  takes. The instance with three requests and two users was run as well and agrees
  (6.5 million states), but takes four minutes.
- `MaxPreKeys` = 2 has a prekey to take first and one to fall back on, and batches that
  overlap in part; three bundles are one more than there are prekeys.
- `MaxTokens` = 3 is a login, a refresh of it and the pair of another login or refresh
  that races with it. `NoOverlap` stops `session_tokens` where a login overlaps another
  request: the properties say nothing of these states, and divergences 5 to 7 are about
  them or about the failures in them.
- Two values per item and two accounts in one file or two: what one writes the other
  could overwrite. `NoMishap` stops `store_accounts` where divergences 8 and 9 begin.
- Pages of one message make a list of two messages three pages long, an empty last one
  included. In `sync_caches` a message is hidden in one way only, two accounts take turns
  over one message, and two messages are followed for a client that one account has had
  to itself (`Followed`): one message is enough to mix accounts, two to mix pages. Memory
  that is ahead of its file (after failed saves), and messages to oneself, are followed
  with one message and commands that do not overlap (`Plain`), which is enough for a login
  to read back a file that a save had missed. What follows a login that stopped half way
  is not. One chain is in flight at a time, besides the logins that come in between and
  leave it to be handled for the next account. All four properties are proved without
  these bounds, for any number of chains.
- In `trust_pins` the first chain runs commands and the second one logins, which is what
  captures a key before a login and uses it after. Two materials are an account's and
  another user's; a third, the user's next one, is followed for one account.
- The theorems drop the bounds for the safety properties; they matter only for liveness,
  for what is only model-checked, and for the mutants.
- Symmetry is used in safety runs only, on what the configuration treats alike (accounts,
  clients, workers, requests, chains).

### What the preconditions leave out

Some properties hold only under a condition that the statement names, and the hazards
behind it are listed in `PROJECT.json` with no property, since the code does what the
condition excludes. `ActsAsShown` is about requests, `CopiesAgree` and `ServerAgrees` about
refreshes, that no login or logout overlaps: a 401 answered after another login is retried
with the other account's token. `ServerAgrees` is about sessions that lost no answer of a
refresh. `HiddenIsHidden` and `OwnMessagesOnly` are about commands that no login or other
command overlaps: a list that is reconciled after another login is reconciled for the
other account. `SyncExact` is about lists that nothing disturbs. `CopyOpens` is about
commands that no login came between. `GateExact` leaves out the failures that open the
gate of an operation that goes on. `SealedForPinned` says that some account pinned the
identity, which need not be the one that sends.

### Fairness

`WF(WorkerStep(w))` for each worker: `run_forever` polls without end and catches the
errors of a batch, and systemd restarts a dead process. `WF` of the end of each API
request: a handler commits or rolls back. `WF(Mine)`: a chain mines what its pool holds.
In `CommandGate`, `WF` of the end of each chain: the transfer timeout ends a request
that gets no answer, and Qt's event loop runs the callback that handles it. No fairness
for users, for faults, or between workers that race. Faults of the pipeline are bounded
by `MaxFaults`, so its liveness properties say what happens once faults stop; the
finding on outages shows that even then one fault is too many. `HeadReachesChain` is
about one worker, as the service file starts one.

## 4. What is proved

The assumptions on the constants are the named ASSUMEs of the modules: bounds are
naturals, `MarkFailed` and `SavesFail` are Booleans, `None`, `NoUser` and the like are not
among what they are the absence of, page sizes are positive. Requests, workers, users,
clients, chains and messages may be any sets (chains of the console a finite one).

**Anchoring** (`AnchorProofs`). `Invariance`: `Spec => []IInv`. The properties
are not inductive alone. `ConfirmedByOwnTransaction` needs to know that a successful
receipt belongs to the submission that wrote the record (`ReceiptsTruthful`), which needs
that the pool's transaction is known to exactly the worker that waits for it
(`PoolWellFormed`), which needs `LockExclusive`. `DuplicatesFollowFailure` is about active
rows; to be kept when a request commits it must be said of rows being inserted
(`InsertsFollowFailure`), which holds because the check saw the failed row. From `IInv`:
`TypeCorrect`, `ExclusiveLocks`, `ConfirmationsTrue`, `DuplicatesExplained`,
`ConfirmationsFinal` (an action property, from the fact that only a row held by a worker
changes its status and such a row is pending) and `Refinement`: `Mine` is `Record` or a
stutter, `Confirm` is `Attest`, everything else stutters.

**Verdicts** (`AnchorProofs`). `VInv` adds to `IInv` what a command in flight holds
(`Captured`): its anchor is a row of its message with a status that row had, and a
confirmed one still is. That this survives every step of the pipeline is `AnchorStays`,
from `ConfirmationsFinal`. `VerifiedIsTrue`, `MismatchIsTrue`, `KeptIsTrue`, and
`PipelineUndisturbed`: the composition implements `AnchorPipeline`, so its theorems hold
here too.

**Refresh sessions** (`RefreshSessionsProofs`). `IInv` adds to the three properties that
sessions are numbered in order (`SessionsWellFormed`) and that a locked row is active
and locked once (`LocksExclusive`); the latter is what makes the exchange of a row read
earlier right. `SingleExchange`, `SingleToken`, `LogoutFinal`, and `Refinement` to
`LoginLineage`: `Refresh` is `Rotate`, `Logout` is `End`.

**Message relay** (`RelayProofs`). `IInv` says what a request may rely on after its
first read although the rest may be stale (`RequestsJustified`: its caller's part in the
message) and that each hiding column is the work of one kind of operation
(`ColumnsExplained`), from which `Visibility` follows. `RevocationFinal` is an action
theorem: a revoked message with no forward of the user in progress gets no further
forward by that user. `Lineage`: a forward names an earlier message its sender took part in.

**Key relay** (`RelayProofs`). `KeyInv`: `HandedOutOnce` alone is not inductive: one
must know that a prekey belongs to one request from its row lock to its answer
(`PreKeysExclusive`), that a taken prekey is still unused and a committed one is in no
bundle yet (`FetchesWellFormed`), and that rows being inserted belong to one upload, so
that ending it touches no committed prekey (`UploadsWellFormed`). `SingleHandout`,
`BundlesSendable`, `WholeUploads`.

**Console** (`CommandGateProofs`). `IInv` adds that no operation runs behind a prompt
(`PromptsAreQuiet`) and that the lines of a composition were typed for its recipient.
`NoStuckGate`, `ExactGate`, `CompositionsToRecipient`.

**Synchronisation** (`ClientSyncProofs`). Every change an answer makes to memory, from
one saved message to a list that is saved half way, reconciled and marked read, is shown
to be a growth (`Grows`): marks, copies and messages are only added, and the messages
added are those the request has got. That is not yet enough for `NothingForgotten`,
whatever overlaps: a save writes all of memory over the file, and a login or restart
replaces memory. It needs `MemoryAhead`: while the store has a passphrase, memory holds
at least what the open file holds. A login keeps that by reading the file it opens, a
failed save by leaving the file alone; a login that fails after it emptied memory would
break it. For `OwnMessages` the invariant `SInv` adds that the open file is the
signed-in account's and that, while commands do not overlap, the one in flight asks as
that account and has got messages of that account only; hence what grows, and what is
written, is its own. `TypeCorrect`, `StrengthenedInvariant`. `HiddenStaysHidden` needs
`HInv` besides: who was told that a message is hidden cannot see it at the server
(`GoneHidden`), so that no later page or fetch brings it, and what a list has got so far
is neither among that nor among what was hidden when the list began (`CallHidden`). When
the list is in, a message that was hidden at its beginning is therefore not among what
it got, it is a message the list is about, and if it was still shown it is marked
(`ListShows`). The mark counts once it was saved; from then on the file has it, and so
has memory whenever it is read again or written. The table may change between any two
pages: it only hides more, or gets messages nobody was told anything of (`HidesMore`).
`ListsComplete`, for `SyncExact`, needs `EInv`: an undisturbed list has got exactly the
messages whose position in the list is before its offset (`CallExact`), and a message
that memory or a file does not have is not marked there (`Neat`). The step to the next
page is arithmetic (`PageGoesOn`). That a page which is not full is the last one
(`ShortPageLast`) is a counting argument: the positions of a finite set are the numbers
below its size, each taken once (`RanksOf`), so if there were a message beyond the page,
every position of the page would be taken and the page would be full (`StretchFull`).

**Session** (`ClientSessionProofs`). `SInv` says what a chain carries at each step
(`CallShaped`); that a login or logout that nothing overlaps is alone (`Exclusive`); whose
tokens a request carries and is given (`CallOwn`), where between the two halves of a login
nothing can be asked; and, for `ServerAgrees`, where the server and the client differ while
an answer is on its way, and that it is the only such answer (`Server`). From it
`RequestsActAsShown`, `TokenCopiesAgree`, `ServerKeepsClientsToken` and `NoThirdSend`. Each
part is under the upsets it can stand: with all of them it would be false, as divergences
5 to 7 show.

**State files** (`LocalStoreProofs`). First save and load, for any items and passwords
(`SavedLoads`): what was saved is loaded under the same password, and under no other when
there is a secret in it. `LInv` then says that each file, and the save under way, is what a
save makes of some memory under some password (`Written`), which memory that is while
somebody is signed in (`CurrentSoon`), that this memory is the account's own and has its
device keys (`Own`), and that these are in its file or about to be (`KeysKept`). From it
`DiskKeepsUp`, `SecretsStaySealed`, `OwnItems` and `KeysSurviveAllLogins`.

**Keys** (`TrustOnFirstUseProofs`). First the envelopes: what is sealed for a bundle opens
for its owner (`SealedOpens`) and for nobody else (`SealedForOne`), and one whose message
names a consumed one-time prekey does not open at all, since `encrypt` uses none
(`ConsumedNeverOpens`). `IInv` says what a
callback has captured (`Captured`), that the kept bundle was pinned by some account
(`CachedPinned`) and that a signed-in account has keys in the file that is open. From it
`SealedForPinnedHolds`, `PublishedStoredHolds`, `OpensForRecipientHolds`, `CopyOpensHolds`
and the action property `PinsKeptHolds`.

**Only model-checked.** Liveness (`EveryPendingSettles`, `HeadReachesChain`,
`GateReopens`): fairness and ENABLED are beyond the prover. Every other property of a
passing run is a theorem. Induction over data and RECURSIVE operators are out of the
prover's reach too; no module needs them.

## 5. Findings and known divergences

### The finding

`OutagesOnlyDelay` (`anchor_outage`). When the record is mined but the worker fails before
COMMIT, the row stays pending, every retry reverts with RecordAlreadyAnchored, and being
the oldest it keeps the worker from every later row, while
`docs/security/vulnerability_report.md:93` says "outages delay status, not queue loss".
`PROJECT.json` quotes both.

### Known divergences

Statements of the documents, comments and messages of the program that the code does not
keep. Each is a definition of the named module, with the line it comes from in the
comment above it. None has a run of its own: put in place of the properties of the
configuration in the last column, TLC refutes it within a minute.

| | Statement | What the code does | Refuted in |
|---|---|---|---|
| 1 | `NoDuplicateSubmission` (`AnchorPipeline`) | The row lock covers a row, not a message: after a failed row two requests pass `create_message_anchor`'s unlocked check and two workers submit the same record at once. One reverts; no false confirmation follows. | `AnchorDuplicates.cfg` |
| 2 | `DeleteHides` (`MessageRelay`) | A message a user sent to herself gets only `sender_deleted_at` on delete and stays in her received list. | `MessageVisibility.cfg` |
| 3 | `BundleOfOneClient` (`PreKeyRelay`) | Registering a device replaces its identity and keeps the one-time prekeys of the client before. The new client's upload of the same ids is answered 409 and taken for done; bundles then join the new identity with prekeys it does not own. | `PreKeyHandout.cfg` |
| 4 | `OneOperationAtATime` (`CommandGate`) | A failure of the background upload, or of a save in the middle of an operation, opens the gate of the operation that is still running. | `GateConsole.cfg` |
| 5 | `RunsAsWhoami` (`ClientSession`) | A login that fails after its tokens were set leaves the client acting as one account and showing another. | `SessionTokens.cfg` |
| 6 | `PersistsRotated` (`ClientSession`) | Tokens rotated inside a login are dropped, and the login saves the pair the server has exchanged. | `SessionTokens.cfg` |
| 7 | `ExpiredMeansExpired` (`ClientSession`) | Two requests refresh with one token; the second reports an expired session that is alive. | `SessionTokens.cfg` |
| 8 | `KeysSurviveSwitching` (`LocalStore`) | A login that fails while another account is signed in has emptied the memory that account's next save writes. | `StoreAccounts.cfg` without `NoMishap` |
| 9 | `KeysSurviveCrashes` (`LocalStore`) | `save` truncates before it writes; a stop in between loses the device keys without an error. | `StoreAccounts.cfg` |
| 10 | `SenderCopySealed` (`LocalStore`) | The sender copy is not among the sealed fields. | `StoreAccounts.cfg` with `StoredKinds = {"message"}` |
| 11 | `TombstonesTrue` (`ClientSync`) | A message hidden between two pages moves another out of both, and that one is marked deleted for good. | `SyncCaches.cfg` |
| 12 | `UnreadCounted` (`ClientSync`) | Opening one page of a conversation marks all of it read. | `SyncCaches.cfg` |
| 13 | `SentHasCopy` (`ClientSync`) | A lost answer to a send loses the sender copy. | `SyncCaches.cfg` |
| 14 | `SendingBlocked` (`TrustOnFirstUse`) | After a mismatch was reported the bundle kept from before goes on being sent to. | `TrustPins.cfg` |
| 15 | `TrustedBeforeSending` (`TrustOnFirstUse`) | The kept bundle outlives the login of the account that trusted it. | `TrustPins.cfg` |
| 16 | `PendingReported` (`AnchorVerdict`) | A kept pending anchor is sent to be checked when the relay cannot be asked, and reported as a failed check. | `VerdictShown.cfg` |
| 17 | `ConfirmedChecked` (`AnchorVerdict`) | A later duplicate row makes `/verify` report a confirmed message as pending or failed. | `VerdictShown.cfg` |
| 18 | `LoginKeeps` (`ClientSync`) | A login reads the account's file again. What an answer that came after the logout, or a save that failed, had changed in memory only is lost: marks, read times and sender copies. | `SyncCaches.cfg` |

## 6. What could come next

- The rate limiter's windows (a bound on the requests in any interval), registration with
  its two unlocked checks, and the Merkle trees of conversations.
- `ClientSession` over `RefreshSessions` instead of its own smaller server, and the same
  of `TrustOnFirstUse` over `PreKeyRelay`.
- That every command of the client ends, in `ClientSession` and `ClientSync`, under the
  fairness of `CommandGate`.

## 7. What is not modelled, and why

- Cryptography on values (curves, the ratchet of libsignal, Argon2, signatures, JWT): not a
  matter of interleaving. `NativeCrypto` takes the primitives as ideal.
- The rate limiter: fixed windows in memory, checked in one synchronous step. A restart
  forgets them, and around the boundary of two windows up to twice the limit passes.
- Registration: one insert guarded by unique constraints. The two lookups before it only
  choose the wording of most refusals.
- The Merkle trees and conversations of `blockchain/src`: pure functions, which the
  relay's own anchoring, one digest per message, does not use.
- The TypeScript messaging package: it wraps libsignal, whose state is external; its pin
  map follows the rule of `TrustOnFirstUse`.
- `SlashCommandParser`, `StartupConfig`, `ConsolePresenter`, `ConsoleInputWorker`, `main`:
  parsing, output and wiring, apart from the end of input, which is part of `CommandGate`,
  and the loading of the last account, which is part of `LocalStore`.
- Mock gateways and mock crypto: stand-ins that answer from memory. The mock *mode* of the
  store is in `LocalStore`.
- The anchor client and its scripts: calls of a node that wait for one receipt. One thing
  met on the way: `blockchain/GUIDE.md:145` names the record of a conversation without its
  segment, while the code appends the segment to it.
- The audit log: rows are written, best effort, and never read back.
- Schemas and migrations: taken as given; the models start from the tables they define. A
  user's active flag and a device's are never changed by the program.
