--------------------------- MODULE TrustOnFirstUse ---------------------------
(***************************************************************************)
(* KeyService and the sending half of MessageService: at a login the       *)
(* client makes and publishes the keys of the account's device; /trust     *)
(* pins the identity a user has on the server; a message is sealed for the *)
(* bundle kept from before, or for one that is fetched and compared with   *)
(* the pin, and a copy is sealed for the sender.  The steps of a command   *)
(* are callbacks: between them the account may change, the user written to *)
(* may register other keys, and the program may stop.                      *)
(*                                                                         *)
(* Key material is a serial number; NativeCrypto says what can be done     *)
(* with it.  The keys of the server are modelled closer in PreKeyRelay,    *)
(* the file behind the store in LocalStore.  Left out: known users, which  *)
(* decide nothing, saves that fail, and the text of messages.              *)
(***************************************************************************)
EXTENDS NativeCrypto, FiniteSets

CONSTANTS
  Users,          \* accounts, of this client and of those it writes to
  Accounts,       \* those that sign in here
  NoUser,         \* nobody is signed in: an empty user id or access token
  Slots,          \* chains of requests that can be in flight at once (a bound)
  Text,           \* what messages say
  MaxMaterial,    \* keys ever generated (a bound)
  MaxPosts        \* messages ever relayed (a bound)

ASSUME TrustAssumption ==
  /\ NoUser \notin Users /\ Accounts \subseteq Users
  /\ Text # NoText
  /\ MaxMaterial \in Nat /\ MaxPosts \in Nat

VARIABLES
  device,     \* server: the material in each user's device row, 0 if none
  offered,    \* server: the material of its one-time prekeys, 0 if none
  me,         \* SessionService::currentUserId
  file,       \* the account whose file the store has open
  keys,       \* JsonLocalStore::m_deviceKeys in each account's file
  preKeys,    \* m_oneTimePreKeys in each account's file
  pins,       \* m_trustPins in each account's file
  cached,     \* KeyService::m_lastTrustedBundle
  call,       \* the chain of requests of each slot
  made,       \* serial number of the last material generated, anywhere
  posts,      \* messages the relay has stored
  copies,     \* sender copies in the files
  elsewhere,  \* history: material generated by other programs
  told        \* history: <<account, user>> that were reported as mismatch

server == <<device, offered>>
store == <<keys, preKeys, pins>>
history == <<elsewhere, told>>
vars == <<server, me, file, store, cached, call, made, posts, copies, history>>

-----------------------------------------------------------------------------
Serials == 1..MaxMaterial
SerialOrNone == 0..MaxMaterial
UserOrNone == Users \cup {NoUser}

NoBundle == [user |-> NoUser, material |-> 0]
Bundles == [user : UserOrNone, material : SerialOrNone]

Idle == [op |-> "idle", stage |-> "begin", access |-> NoUser, user |-> NoUser,
         sender |-> 0, pin |-> 0, bundle |-> 0, answered |-> FALSE,
         calm |-> FALSE]

Calls ==
  [op : {"idle", "keys", "trust", "send"},
   stage : {"begin", "device", "batch", "bundle", "post"},
   access : UserOrNone,       \* whose token the request carries
   user : UserOrNone,         \* the user to trust or to write to
   sender : SerialOrNone,     \* the device captured by the callback
   pin : SerialOrNone,        \* the pin captured by the callback
   bundle : SerialOrNone,     \* the bundle's material
   answered : BOOLEAN,
   calm : BOOLEAN]            \* history: no login since the command began

\* A stored message: its number, and the material it is sealed for.
PostOf(n, c) ==
  [number |-> n, from |-> c.access, to |-> c.user, sealed |-> c.bundle,
   wire |-> Encrypt(Material(c.sender), BundleOf(Material(c.bundle)), n, Text)]

\* Mutant: the copy is sealed with what is in the message's bundle.
CopyForRecipient(c) ==
  Encrypt(Material(c.sender), BundleOf(Material(c.bundle)), 0, Text)

\* createLocalSenderCopy.
CopyOf(c) ==
  Encrypt(Material(c.sender), BundleOf(Material(c.sender)), 0, Text)

TypeOK ==
  /\ device \in [Users -> SerialOrNone] /\ offered \in [Users -> SerialOrNone]
  /\ me \in UserOrNone /\ file \in Users
  /\ keys \in [Users -> SerialOrNone] /\ preKeys \in [Users -> SerialOrNone]
  /\ pins \in [Users -> [Users -> SerialOrNone]]
  /\ cached \in Bundles
  /\ call \in [Slots -> Calls]
  /\ made \in SerialOrNone
  /\ \A x \in posts : /\ x.number \in 1..MaxPosts /\ x.sealed \in Serials
                      /\ x.from \in Users /\ x.to \in Users
  /\ \A x \in copies : x.in \in Users /\ x.calm \in BOOLEAN
  /\ elsewhere \subseteq Serials
  /\ told \subseteq Users \X Users

Init ==
  /\ device = [u \in Users |-> 0] /\ offered = device
  /\ me = NoUser /\ file \in Users
  /\ keys = device /\ preKeys = device
  /\ pins = [u \in Users |-> device]
  /\ cached = NoBundle
  /\ call = [s \in Slots |-> Idle]
  /\ made = 0
  /\ posts = {} /\ copies = {} /\ elsewhere = {} /\ told = {}

-----------------------------------------------------------------------------
(* Requests *)

\* requestFor: a request with a token carries the one that is held by now.
Ask(s, c) ==
  call' = [call EXCEPT ![s] = [c EXCEPT !.access = me, !.answered = FALSE]]

\* The first request of a command, as user u.
Chain(op, stage, u, p, sender, pin, bundle) ==
  [op |-> op, stage |-> stage, access |-> u, user |-> p, sender |-> sender,
   pin |-> pin, bundle |-> bundle, answered |-> FALSE, calm |-> TRUE]

Done(s) == call' = [call EXCEPT ![s] = Idle]

Received(s, op, stage) ==
  call[s].op = op /\ call[s].stage = stage /\ call[s].answered

\* The server acts on a request that carries a token.
Serving(s, stage) ==
  /\ call[s].stage = stage /\ ~call[s].answered
  /\ call[s].access # NoUser

\* The request is refused or times out, or its answer is lost after the server
\* acted: commandFailed.
Fails(s) ==
  /\ call[s] # Idle
  /\ Done(s)
  /\ UNCHANGED <<server, me, file, store, cached, made, posts, copies, history>>

-----------------------------------------------------------------------------
(* A login publishes the keys of the device *)

\* Mutant: keys are made anew at every login.
AlwaysCreate(existing) == made + 1

\* loadOrCreateDevice: only what is missing is made.
LoadOrCreate(existing) == IF existing = 0 THEN made + 1 ELSE existing

\* login, then ensureDeviceKeysUploaded: saved before they are sent.
SignIn(s, u) ==
  LET k == LoadOrCreate(keys[u]) IN
  /\ call[s] = Idle
  /\ k \in Serials
  /\ me' = u /\ file' = u
  /\ keys' = [keys EXCEPT ![u] = k]
  /\ made' = IF k > made THEN k ELSE made
  /\ call' = [[t \in Slots |-> [call[t] EXCEPT !.calm = FALSE]] EXCEPT ![s] =
       Chain("keys", "device", u, NoUser, k, 0, 0)]
  /\ UNCHANGED <<server, preKeys, pins, cached, posts, copies, history>>

\* logout opens no other file and keeps the bundle.
SignOut ==
  /\ me # NoUser
  /\ me' = NoUser
  /\ call' = [t \in Slots |-> [call[t] EXCEPT !.calm = FALSE]]
  /\ UNCHANGED <<server, file, store, cached, made, posts, copies, history>>

\* upsert_device_key.
ServeDevice(s) ==
  /\ Serving(s, "device")
  /\ device' = [device EXCEPT ![call[s].access] = call[s].sender]
  /\ call' = [call EXCEPT ![s].answered = TRUE]
  /\ UNCHANGED <<offered, me, file, store, cached, made, posts, copies,
                 history>>

\* uploadOneTimePreKeys, for whoever is signed in by now: prekeys are made
\* when the file has none, and all of them are sent.  They are known by the
\* material they are made next to.
ReceiveDevice(s) ==
  LET batch == IF preKeys[file] = 0 THEN keys[file] ELSE preKeys[file] IN
  /\ Received(s, "keys", "device")
  /\ preKeys' = [preKeys EXCEPT ![file] = batch]
  /\ Ask(s, [call[s] EXCEPT !.stage = "batch", !.sender = batch])
  /\ UNCHANGED <<server, me, file, keys, pins, cached, made, posts, copies,
                 history>>

\* upload_one_time_prekeys: refused with 409 when the ids are there already,
\* which the client takes for success.
ServeBatch(s) ==
  LET u == call[s].access IN
  /\ Serving(s, "batch")
  /\ device[u] # 0
  /\ offered' = IF offered[u] = 0
                THEN [offered EXCEPT ![u] = call[s].sender] ELSE offered
  /\ call' = [call EXCEPT ![s].answered = TRUE]
  /\ UNCHANGED <<device, me, file, store, cached, made, posts, copies, history>>

ReceiveBatch(s) ==
  /\ Received(s, "keys", "batch")
  /\ Done(s)
  /\ UNCHANGED <<server, me, file, store, cached, made, posts, copies, history>>

-----------------------------------------------------------------------------
(* /trust, /msg and /forward *)

\* A command that begins once the name it was given is resolved: trustUsername;
\* sendToAddress and forwardToAddress, for whoever is signed in by then.
Begin(s, c) ==
  /\ call[s] = Idle
  /\ me # NoUser
  /\ call' = [call EXCEPT ![s] = c]
  /\ UNCHANGED <<server, me, file, store, cached, made, posts, copies, history>>

FetchToTrust(s, p) ==
  Begin(s, Chain("trust", "bundle", me, p, 0, 0, 0))

\* cachedBundle: of the same user and device, whoever is signed in and
\* whatever the pin.
HasCached(p) == cached.user = p

\* trustedBundle without a bundle of the user: the pin is needed, and it is
\* captured with the device.
FetchToSend(s, p) ==
  /\ ~HasCached(p)
  /\ pins[file][p] # 0
  /\ Begin(s, Chain("send", "bundle", me, p, keys[file], pins[file][p], 0))

\* trustedBundle with the bundle kept from before.
SealCached(s, p) ==
  /\ HasCached(p)
  /\ Begin(s, Chain("send", "post", me, p, keys[file], 0, cached.material))

\* get_prekey_bundle.
ServeBundle(s) ==
  /\ Serving(s, "bundle")
  /\ device[call[s].user] # 0
  /\ call' = [call EXCEPT ![s].answered = TRUE,
                          ![s].bundle = device[call[s].user]]
  /\ UNCHANGED <<server, me, file, store, cached, made, posts, copies, history>>

Fetched(s, op) ==
  /\ Received(s, op, "bundle")
  /\ Verified(BundleOf(Material(call[s].bundle)))

Keep(c) == cached' = [user |-> c.user, material |-> c.bundle]

\* Mutant: any identity is accepted.
AcceptsAny(c) == TRUE

\* No pin, or the same identity.
Accepts(c) == pins[file][c.user] \in {0, c.bundle}

\* trustPinCreated and trustPinMatched: saveTrustPin in the file that is open
\* by now.
Trust(s) ==
  LET c == call[s] IN
  /\ Fetched(s, "trust")
  /\ Accepts(c)
  /\ pins' = [pins EXCEPT ![file][c.user] = c.bundle]
  /\ Keep(c)
  /\ Done(s)
  /\ UNCHANGED <<server, me, file, keys, preKeys, made, posts, copies, history>>

\* trustPinMismatch: "Trust mismatch. Sending is blocked."
Mismatch(s) ==
  /\ Fetched(s, "trust")
  /\ ~Accepts(call[s])
  /\ told' = told \cup {<<file, call[s].user>>}
  /\ Done(s)
  /\ UNCHANGED <<server, me, file, store, cached, made, posts, copies,
                 elsewhere>>

\* Mutant: the fetched identity is not compared.
AgreesAnyway(c) == TRUE

\* trustedBundle: the pin is the one from before the request.
Agrees(c) == c.pin = c.bundle

SealFetched(s) ==
  /\ Fetched(s, "send")
  /\ Agrees(call[s])
  /\ Keep(call[s])
  /\ Ask(s, [call[s] EXCEPT !.stage = "post"])
  /\ UNCHANGED <<server, me, file, store, made, posts, copies, history>>

\* send_message, forward_message.
ServePost(s) ==
  /\ Serving(s, "post")
  /\ Cardinality(posts) < MaxPosts
  /\ posts' = posts \cup {PostOf(Cardinality(posts) + 1, call[s])}
  /\ call' = [call EXCEPT ![s].answered = TRUE]
  /\ UNCHANGED <<server, me, file, store, cached, made, copies, history>>

\* The copy is saved in the file that is open by now.
ReceivePost(s) ==
  /\ Received(s, "send", "post")
  /\ copies' = copies \cup {[in |-> file, sender |-> call[s].sender,
                             wire |-> CopyOf(call[s]), calm |-> call[s].calm]}
  /\ Done(s)
  /\ UNCHANGED <<server, me, file, store, cached, made, posts, history>>

-----------------------------------------------------------------------------
(* Everything else *)

\* The program stops and is started again: callbacks and the bundle are gone.
Restart ==
  /\ me' = NoUser
  /\ file' \in Users
  /\ cached' = NoBundle
  /\ call' = [s \in Slots |-> Idle]
  /\ UNCHANGED <<server, store, made, posts, copies, history>>

\* The user logs in where the keys of the device are not: they are replaced,
\* and their one-time prekeys are refused if there are any.
Rekey(u) ==
  /\ made < MaxMaterial
  /\ made' = made + 1
  /\ elsewhere' = elsewhere \cup {made + 1}
  /\ device' = [device EXCEPT ![u] = made + 1]
  /\ offered' = [offered EXCEPT ![u] = IF @ = 0 THEN made + 1 ELSE @]
  /\ UNCHANGED <<me, file, store, cached, call, posts, copies, told>>

Command(s) ==
  \/ \E u \in Accounts : SignIn(s, u)
  \/ \E p \in Users :
       FetchToTrust(s, p) \/ FetchToSend(s, p) \/ SealCached(s, p)

Serve(s) == ServeDevice(s) \/ ServeBatch(s) \/ ServeBundle(s) \/ ServePost(s)

Receive(s) ==
  \/ ReceiveDevice(s) \/ ReceiveBatch(s)
  \/ Trust(s) \/ Mismatch(s) \/ SealFetched(s)
  \/ ReceivePost(s)

Next ==
  \/ \E s \in Slots : Command(s) \/ Serve(s) \/ Receive(s) \/ Fails(s)
  \/ SignOut
  \/ Restart
  \/ \E u \in Users : Rekey(u)

Spec == Init /\ [][Next]_vars

-----------------------------------------------------------------------------
(* Properties *)

\* Every message, and the bundle kept for the next one, is sealed for an
\* identity that was pinned for its recipient, whatever keys the recipient
\* registers meanwhile and however logins interleave (trustedBundle).
SealedForPinned ==
  /\ \A x \in posts : \E u \in Users : pins[u][x.to] = x.sealed
  /\ cached # NoBundle =>
       \E u \in Users : pins[u][cached.user] = cached.material

\* A pin is never replaced: the first identity stays (trustUsername).
PinsKept ==
  [][\A u, p \in Users :
       pins[u][p] # 0 => pins'[u][p] = pins[u][p]]_vars

\* What this client published for an account is in the account's file, through
\* crashes between the save and the request, and through logins in between:
\* it has the private keys of what it offers (ensureDeviceKeysUploaded).
PublishedStored ==
  \A u \in Users :
    /\ device[u] \in elsewhere \cup {0, keys[u]}
    /\ offered[u] \in elsewhere \cup {0, preKeys[u]}

\* A stored message opens with the material it is sealed for, with no other,
\* and whoever sealed it (encrypt, decrypt).
OpensForRecipient ==
  \A x \in posts, k \in Serials :
    (Decrypt(Material(k), x.wire, NoValue, NoValue) = Text) <=> k = x.sealed

\* The sender copy of a command that no login came between opens with the keys
\* of the file it is in (createLocalSenderCopy).
CopyOpens ==
  \A x \in copies :
    x.calm => Decrypt(Material(keys[x.in]), x.wire, NoValue, NoValue) = Text

\* Who is signed in has the file open, with keys in it.
SignedInHasKeys == me # NoUser => file = me /\ keys[me] # 0

\* Some account has pinned material k for user p.
PinnedFor(p, k) == k # 0 /\ \E u \in Users : pins[u][p] = k

\* What the callbacks of a chain have captured.
Fits(c) ==
  /\ c.stage = "device" /\ c.access # NoUser =>
       c.sender = keys[c.access] /\ c.sender # 0
  /\ c.stage = "batch" /\ c.access # NoUser =>
       c.sender = preKeys[c.access] /\ c.sender # 0
  /\ c.op = "trust" => c.user \in Users
  /\ c.stage = "bundle" => c.op \in {"trust", "send"}
  /\ c.stage = "bundle" /\ c.answered => c.bundle # 0
  /\ c.op = "send" => c.user \in Users /\ c.sender # 0
  /\ c.op = "send" /\ c.stage = "bundle" => PinnedFor(c.user, c.pin)
  /\ c.stage = "post" => c.op = "send" /\ PinnedFor(c.user, c.bundle)
  /\ c.op = "send" /\ c.calm => c.sender = keys[file]

Captured == \A s \in Slots : Fits(call[s])

\* The bundle that is kept has a pin.
CachedPinned ==
  cached # NoBundle =>
    cached.user \in Users /\ PinnedFor(cached.user, cached.material)

\* What the stored messages and the copies are made of.
Sealed ==
  /\ IsFiniteSet(posts)
  /\ \A x \in posts :
       /\ PinnedFor(x.to, x.sealed)
       /\ \E k \in Serials, n \in 1..MaxPosts :
            x.wire = Encrypt(Material(k), BundleOf(Material(x.sealed)), n, Text)
  /\ \A x \in copies :
       x.calm => /\ keys[x.in] # 0
                 /\ x.wire = Encrypt(Material(keys[x.in]),
                                     BundleOf(Material(keys[x.in])), 0, Text)

\* The inductive invariant behind the properties above.
IInv ==
  /\ TypeOK
  /\ SignedInHasKeys
  /\ Captured
  /\ CachedPinned
  /\ Sealed
  /\ PublishedStored

\* "TOFU: clients pin identity keys and block sends on `key_changed`."
\* (docs/crypto_docs/security/threat-model.md:23): nothing is sent to a user
\* whose mismatch the account was told of.
SendingBlocked ==
  [][\A x \in posts' \ posts : <<x.from, x.to>> \notin told]_vars

\* "Run /trust for this username before sending." (Services.cpp:291): who
\* sends has pinned the recipient.
TrustedBeforeSending == \A x \in posts : pins[x.from][x.to] # 0
=============================================================================
