------------------------------ MODULE PreKeyRelay ------------------------------
(***************************************************************************)
(* The keys of one device of one user at the relay: the device row with    *)
(* the identity, the batches of one-time prekeys, and the bundles that     *)
(* join the two for those who want to write to the device.                 *)
(*                                                                         *)
(* A client is one set of key material.  Several may register the same     *)
(* device one after the other: each program that logs in to the account    *)
(* without the state file of the one before creates its own material and   *)
(* numbers its one-time prekeys from the same first id.                    *)
(*                                                                         *)
(* Registering is one step: of two that overlap, one is refused (INSERT)   *)
(* or both leave what they would leave one after the other (UPDATE).  No   *)
(* code revokes a device key.                                              *)
(***************************************************************************)
EXTENDS Naturals

CONSTANTS
    Clients,
    Fetches,       \* bundle requests in progress at a time
    Uploads,       \* batch uploads in progress at a time
    Batches,       \* sets of ids that are uploaded together
    MaxPreKeys,    \* bound: ids of one-time prekeys
    MaxBundles,    \* bound: bundles ever answered
    None           \* no client

ASSUME ClientsAssumption == None \notin Clients
ASSUME PreKeyBoundsAssumption == MaxPreKeys \in Nat /\ MaxBundles \in Nat

VARIABLES
    device,     \* the client whose material is in the device row
    registered, \* clients whose registration was answered
    prekey,     \* the one-time prekeys by id, with the slots of running inserts
    fetch,      \* per bundle request: progress, device and prekey read
    upload,     \* per upload: progress, client, ids
    bundles,    \* bundles answered
    answered,   \* number of bundles answered
    uploaded    \* batches committed

keyVars == <<device, registered, prekey, fetch, upload, bundles, answered, uploaded>>

--------------------------------------------------------------------------------
Ids == 1..MaxPreKeys

ASSUME BatchesAssumption == Batches \subseteq SUBSET Ids /\ {} \notin Batches

NoPreKey == [status |-> "free", owner |-> None]

\* "used": used_at is set and committed.
PreKey == [status : {"free", "inserting", "unused", "used"},
           owner : Clients \cup {None}]

NoFetch == [pc |-> "idle", device |-> None, prekey |-> 0]

FetchState == [pc : {"idle", "read", "taken", "committed"},
               device : Clients \cup {None}, prekey : 0..MaxPreKeys]

NoUpload == [pc |-> "idle", client |-> None, ids |-> {}]

UploadState == [pc : {"idle", "checked", "written"},
                client : Clients \cup {None}, ids : SUBSET Ids]

\* number tells bundles of the same content apart; prekey 0: none included.
Bundle == [number : 1..MaxBundles, device : Clients, prekey : 0..MaxPreKeys]

Batch == [client : Clients, ids : SUBSET Ids]

KeyTypeOK ==
    /\ device \in Clients \cup {None}
    /\ registered \subseteq Clients
    /\ prekey \in [Ids -> PreKey]
    /\ fetch \in [Fetches -> FetchState]
    /\ upload \in [Uploads -> UploadState]
    /\ bundles \subseteq Bundle
    /\ answered \in 0..MaxBundles
    /\ uploaded \subseteq Batch

--------------------------------------------------------------------------------
\* A transaction has the prekey's row locked and marked as used.
Taken(i) == \E f \in Fetches : fetch[f].pc = "taken" /\ fetch[f].prekey = i

\* Rows get_unused_for_device may return: FOR UPDATE SKIP LOCKED.
Available == {i \in Ids : prekey[i].status = "unused" /\ ~Taken(i)}

\* The ids of u's batch that other uploads have written and not committed.
Awaited(u) ==
    {i \in upload[u].ids : prekey[i].status = "inserting"}

\* Mutant: the unique constraint covers unused prekeys only.
ConflictingUnused(u) ==
    \E i \in upload[u].ids : prekey[i].status = "unused"

\* The unique constraint refuses the batch.
Conflicting(u) ==
    \E i \in upload[u].ids : prekey[i].status \in {"unused", "used"}

SetPreKeys(ids, p) == prekey' = [i \in Ids |-> IF i \in ids THEN p ELSE prekey[i]]

--------------------------------------------------------------------------------
(* The owner of the device *)

\* upsert_device_key.
Register(c) ==
    /\ device' = c
    /\ registered' = registered \cup {c}
    /\ UNCHANGED <<prekey, fetch, upload, bundles, answered, uploaded>>

\* upload_one_time_prekeys: the device is there, whosever material it holds.
\* A client uploads when its own registration was answered.
BeginUpload(u, c, ids) ==
    /\ upload[u].pc = "idle"
    /\ c \in registered
    /\ device # None
    /\ upload' = [upload EXCEPT ![u] =
                    [pc |-> "checked", client |-> c, ids |-> ids]]
    /\ UNCHANGED <<device, registered, prekey, fetch, bundles, answered, uploaded>>

\* Mutant: ids that are already there are skipped.
WriteBatchSkipping(u) ==
    LET new == {i \in upload[u].ids : prekey[i].status = "free"}
    IN  /\ upload[u].pc = "checked"
        /\ SetPreKeys(new, [status |-> "inserting", owner |-> upload[u].client])
        /\ upload' = [upload EXCEPT ![u].pc = "written"]
        /\ UNCHANGED <<device, registered, fetch, bundles, answered, uploaded>>

\* create_batch: flush inserts every row, after waiting for the inserts of
\* other transactions with the same ids.
WriteBatch(u) ==
    /\ upload[u].pc = "checked"
    /\ Awaited(u) = {}
    /\ ~Conflicting(u)
    /\ SetPreKeys(upload[u].ids,
                  [status |-> "inserting", owner |-> upload[u].client])
    /\ upload' = [upload EXCEPT ![u].pc = "written"]
    /\ UNCHANGED <<device, registered, fetch, bundles, answered, uploaded>>

\* IntegrityError: rolled back as a whole and answered with 409.
RefuseBatch(u) ==
    /\ upload[u].pc = "checked"
    /\ Conflicting(u)
    /\ upload' = [upload EXCEPT ![u] = NoUpload]
    /\ UNCHANGED <<device, registered, prekey, fetch, bundles, answered, uploaded>>

\* COMMIT of the batch.
CommitBatch(u) ==
    /\ upload[u].pc = "written"
    /\ SetPreKeys(upload[u].ids,
                  [status |-> "unused", owner |-> upload[u].client])
    /\ uploaded' = uploaded \cup
                     {[client |-> upload[u].client, ids |-> upload[u].ids]}
    /\ upload' = [upload EXCEPT ![u] = NoUpload]
    /\ UNCHANGED <<device, registered, fetch, bundles, answered>>

\* A database error: PostgreSQL takes the inserted rows back.
RollBackBatch(u) ==
    /\ upload[u].pc = "written"
    /\ SetPreKeys(upload[u].ids, NoPreKey)
    /\ upload' = [upload EXCEPT ![u] = NoUpload]
    /\ UNCHANGED <<device, registered, fetch, bundles, answered, uploaded>>

--------------------------------------------------------------------------------
(* Those who want to write to the device *)

\* get_prekey_bundle: the device row is read, without a lock.
BeginFetch(f) ==
    /\ fetch[f].pc = "idle"
    /\ device # None
    /\ fetch' = [fetch EXCEPT ![f] =
                   [pc |-> "read", device |-> device, prekey |-> 0]]
    /\ UNCHANGED <<device, registered, prekey, upload, bundles, answered, uploaded>>

\* get_unused_for_device and mark_used: lowest id first.
TakePreKey(f) ==
    /\ fetch[f].pc = "read"
    /\ \E i \in Available :
          /\ \A j \in Available : i <= j
          /\ fetch' = [fetch EXCEPT ![f] = [@ EXCEPT !.pc = "taken", !.prekey = i]]
    /\ UNCHANGED <<device, registered, prekey, upload, bundles, answered, uploaded>>

\* COMMIT: used_at is visible to all.
CommitFetch(f) ==
    /\ fetch[f].pc = "taken"
    /\ SetPreKeys({fetch[f].prekey}, [prekey[fetch[f].prekey] EXCEPT !.status = "used"])
    /\ fetch' = [fetch EXCEPT ![f] = [@ EXCEPT !.pc = "committed"]]
    /\ UNCHANGED <<device, registered, upload, bundles, answered, uploaded>>

\* The bundle of the device row and the prekey read goes out.
Respond(f) ==
    /\ answered < MaxBundles
    /\ bundles' = bundles \cup {[number |-> answered + 1,
                                 device |-> fetch[f].device,
                                 prekey |-> fetch[f].prekey]}
    /\ answered' = answered + 1
    /\ fetch' = [fetch EXCEPT ![f] = NoFetch]
    /\ UNCHANGED <<device, registered, prekey, upload, uploaded>>

\* Mutant: the bundle goes out before its transaction commits.
AnswerUncommitted(f) == fetch[f].pc \in {"taken", "committed"} /\ Respond(f)

\* The answer follows the COMMIT.
Answer(f) == fetch[f].pc = "committed" /\ Respond(f)

\* There is no prekey to give: the bundle goes out without one.
AnswerWithoutPreKey(f) ==
    /\ fetch[f].pc = "read"
    /\ Available = {}
    /\ Respond(f)

\* The request fails: before COMMIT its prekey is free again, after COMMIT it
\* stays used and reaches nobody.
FailFetch(f) ==
    /\ fetch[f].pc # "idle"
    /\ fetch' = [fetch EXCEPT ![f] = NoFetch]
    /\ UNCHANGED <<device, registered, prekey, upload, bundles, answered, uploaded>>

--------------------------------------------------------------------------------
KeyInit ==
    /\ device = None
    /\ registered = {}
    /\ prekey = [i \in Ids |-> NoPreKey]
    /\ fetch = [f \in Fetches |-> NoFetch]
    /\ upload = [u \in Uploads |-> NoUpload]
    /\ bundles = {}
    /\ answered = 0
    /\ uploaded = {}

Upload(u) == WriteBatch(u) \/ RefuseBatch(u) \/ CommitBatch(u) \/ RollBackBatch(u)

Fetch(f) ==
    \/ BeginFetch(f) \/ TakePreKey(f) \/ CommitFetch(f)
    \/ Answer(f) \/ AnswerWithoutPreKey(f) \/ FailFetch(f)

KeyNext ==
    \/ \E c \in Clients : Register(c)
    \/ \E u \in Uploads, c \in Clients, ids \in Batches : BeginUpload(u, c, ids)
    \/ \E u \in Uploads : Upload(u)
    \/ \E f \in Fetches : Fetch(f)

KeySpec == KeyInit /\ [][KeyNext]_keyVars

--------------------------------------------------------------------------------
(* Properties *)

\* _validate_consumed_one_time_prekey: what send and forward accept as consumed.
Consumable(i) == prekey[i].status = "used"

\* No two bundles hold the same one-time prekey, however their requests overlap
\* and whichever of them fail.
HandedOutOnce ==
    \A a, b \in bundles : (a.prekey = b.prekey /\ a.prekey # 0) => a = b

\* A message written with a bundle's prekey is not refused for it: the mark is
\* committed when the bundle goes out, and nothing takes it back.
BundleSendable ==
    \A b \in bundles : b.prekey # 0 => Consumable(b.prekey)

\* An upload is stored as a whole under its client's keys or not at all, also
\* when another upload with the same ids is under way.
UploadsWhole ==
    \A b \in uploaded : \A i \in b.ids :
       /\ prekey[i].owner = b.client
       /\ prekey[i].status \in {"unused", "used"}

\* What a request for a bundle holds between its steps.
FetchesWellFormed ==
    \A f \in Fetches :
       /\ fetch[f].pc # "idle" => fetch[f].device \in Clients
       /\ fetch[f].pc = "read" => fetch[f].prekey = 0
       /\ fetch[f].pc = "taken" => /\ fetch[f].prekey \in Ids
                                   /\ prekey[fetch[f].prekey].status = "unused"
       /\ fetch[f].pc = "committed" =>
             /\ fetch[f].prekey \in Ids
             /\ prekey[fetch[f].prekey].status = "used"
             /\ \A b \in bundles : b.prekey # fetch[f].prekey

\* A prekey belongs to one request between its row lock and its answer.
PreKeysExclusive ==
    \A f, g \in Fetches :
       (/\ {fetch[f].pc, fetch[g].pc} \subseteq {"taken", "committed"}
        /\ fetch[f].prekey = fetch[g].prekey) => f = g

\* Rows being inserted belong to one upload, which alone ends their insertion.
UploadsWellFormed ==
    \A u \in Uploads :
       /\ upload[u].pc # "idle" => upload[u].client \in Clients
       /\ upload[u].pc = "written" =>
             /\ \A i \in upload[u].ids :
                   prekey[i] = [status |-> "inserting", owner |-> upload[u].client]
             /\ \A v \in Uploads \ {u} :
                   upload[v].pc = "written" => upload[u].ids \cap upload[v].ids = {}

BundlesNumbered == \A b \in bundles : b.number <= answered

\* The inductive invariant behind the properties above.
KeyInv ==
    /\ KeyTypeOK
    /\ FetchesWellFormed
    /\ PreKeysExclusive
    /\ UploadsWellFormed
    /\ BundlesNumbered
    /\ HandedOutOnce
    /\ BundleSendable
    /\ UploadsWhole

\* cryptography.md:87: the server holds "bundles (`identityKey`, signed pre-key,
\* one-time pre-keys)", which keys.py:146 returns "for session setup": the
\* identity of a bundle and its one-time prekey are of the same client.
BundleOfOneClient ==
    \A b \in bundles : b.prekey # 0 => prekey[b.prekey].owner = b.device
================================================================================
