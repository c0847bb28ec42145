----------------------------- MODULE LocalStore -----------------------------
(***************************************************************************)
(* JsonLocalStore, the client's state on disk, and the operations of       *)
(* SessionService and of main that switch it between accounts.  Memory is  *)
(* one set of items (the session, the device's keys, prekeys, pins, known  *)
(* users, messages); a file is what save wrote of it, the secret fields    *)
(* sealed under the password of the user and the salt of the file.         *)
(*                                                                         *)
(* Data is abstracted: an item's value stands for all of its strings, and  *)
(* each of its fields carries that value, sealed or in the clear.  A seal  *)
(* opens only with the key and the field name it was made with, which is   *)
(* what AES-256-GCM with the name as additional data provides.  An account *)
(* has one password, and one file name (safeStateName keeps the letters,   *)
(* digits and dashes of the UUIDs that identify accounts).                 *)
(***************************************************************************)
EXTENDS Naturals, FiniteSets

CONSTANTS
  Users,       \* accounts
  NoUser,      \* no account; also names the default state file
  Salts,       \* salts that randomBytes can draw (a bound)
  NoSalt,      \* an empty m_secretSalt
  StoredKinds, \* kinds of items that are saved besides the session (a bound)
  MaxValues    \* values an account gives to items of a kind (a bound)

ASSUME StoreAssumption ==
  /\ NoUser \notin Users
  /\ NoSalt \notin Salts
  /\ MaxValues \in Nat
  /\ StoredKinds \subseteq {"device", "preKey", "knownUser", "pin", "message"}

VARIABLES
  scoped,      \* m_accountScopedState: no --state-path was given
  protected,   \* m_secretProtectionRequired: real mode
  running,     \* the client runs
  files,       \* the state files, one for each account and the default one
  last,        \* lastAccountId in the index file
  path,        \* m_path: whose file is open
  passphrase,  \* m_secretPassphrase: whose password it is
  salt,        \* m_secretSalt
  mem,         \* the items in memory
  signedIn,    \* SessionService::m_session
  writing,     \* a file that is truncated and not written yet
  made,        \* history: the first device keys written for each account
  mishaps,     \* history: what has gone wrong so far
  behind       \* history: the last save failed

config == <<scoped, protected>>
disk == <<files, last, writing>>
store == <<path, passphrase, salt, mem, signedIn>>
vars == <<scoped, protected, running, files, last, path, passphrase, salt, mem,
          signedIn, writing, made, mishaps, behind>>

-----------------------------------------------------------------------------
(* Items and their fields *)

Kinds == StoredKinds \cup {"session"}
Paths == Users \cup {NoUser}
Values == [of : Users, n : 0 .. MaxValues]
Items == [kind : Kinds, value : Values]

\* The fields that protectSecrets encrypts.
SecretFields ==
  [session |-> {"accessToken", "refreshToken"},
   device |-> {"identityPrivateKey", "identitySigningPrivateKey",
               "signedPreKeyPrivate"},
   preKey |-> {"preKeyPrivate"}, pin |-> {"identityKey"},
   knownUser |-> {}, message |-> {}]

\* Fields written as they are (of a kind's many, those the properties name).
ClearFields ==
  [session |-> {"currentUser"}, device |-> {"identityKey"},
   preKey |-> {"preKeyPublic"}, pin |-> {"userId"},
   knownUser |-> {"username"},
   message |-> {"wirePayloadJson", "localSenderCopyWirePayloadJson"}]

Fields(kind) == SecretFields[kind] \cup ClearFields[kind]

NoKey == [of |-> NoUser, salt |-> NoSalt]
Clear(v) == [key |-> NoKey, field |-> "", plain |-> v]
Seal(v, f, k) == [key |-> k, field |-> f, plain |-> v]

\* Mutant: the pins are written as they are.
ProtectsNoPins(kind) == SecretFields[kind] \ {"identityKey"}

Protects(kind) == SecretFields[kind]

\* The JSON of an item: protectString is applied to its secret fields when a key
\* is given.
ToJson(i, k) ==
  [kind |-> i.kind,
   fields |-> [f \in Fields(i.kind) |->
                 IF k # NoKey /\ f \in Protects(i.kind)
                 THEN Seal(i.value, f, k) ELSE Clear(i.value)]]

\* unprotectString: a clear field is taken as it is, a sealed one is opened.
Opens(x, f, k) == x.key = NoKey \/ (x.key = k /\ x.field = f)

Readable(j, k) == \A f \in DOMAIN j.fields : Opens(j.fields[f], f, k)

FromJson(j) ==
  [kind |-> j.kind,
   value |-> j.fields[CHOOSE f \in ClearFields[j.kind] : TRUE].plain]

\* A file that does not exist, and one that was truncated, both load as empty.
NoFile == [salt |-> NoSalt, items |-> {}]

\* The items a file decodes to under a password; readable if its salt is not
\* needed or every secret in it opens.
FileOpens(c, pass) ==
  \/ c.salt = NoSalt
  \/ \A j \in c.items : Readable(j, [of |-> pass, salt |-> c.salt])
Decoded(c) == {FromJson(j) : j \in c.items}

\* One item of a kind (one device, one peer): save replaces it.
Put(m, i) == {x \in m : x.kind # i.kind} \cup {i}
Without(m, kind) == {x \in m : x.kind # kind}
ItemsOf(m, kind) == {x \in m : x.kind = kind}

-----------------------------------------------------------------------------
(* save and load *)

Key(pass, s) == IF protected THEN [of |-> pass, salt |-> s] ELSE NoKey

\* Mutant: the trust pins are left out.
ImageNoPins(m, pass, s) ==
  [salt |-> IF protected THEN s ELSE NoSalt,
   items |-> {ToJson(i, Key(pass, s)) : i \in Without(m, "pin")}]

\* The contents that save gives a file: protectSecrets seals the items.
Image(m, pass, s) ==
  [salt |-> IF protected THEN s ELSE NoSalt,
   items |-> {ToJson(i, Key(pass, s)) : i \in m}]

\* save refuses to write secrets without a passphrase.
MaySave(pass) == ~protected \/ pass # NoUser

\* save of m fails: no passphrase, or the file cannot be opened.
SaveFails ==
  behind' = TRUE /\ UNCHANGED <<files, writing>>

\* save of m to file p truncates the file first; a salt is drawn if none is
\* known.
SaveStarts(p, pass, m) ==
  /\ MaySave(pass)
  /\ \E s \in IF salt' = NoSalt THEN Salts ELSE {salt'} :
       writing' = {[path |-> p, image |-> Image(m, pass, s)]}
  /\ files' = [files EXCEPT ![p] = NoFile]
  /\ behind' = FALSE

Save(p, pass, m) == SaveStarts(p, pass, m) \/ SaveFails

\* load: without a passphrase a protected file is skipped, with success.
Skipped(c, pass) == pass = NoUser /\ c.salt # NoSalt

\* Mutant: a secret that does not open is passed over.
LoadableAlways(c, pass) == TRUE

Loadable(c, pass) == Skipped(c, pass) \/ FileOpens(c, pass)
Loaded(c, pass) == IF Skipped(c, pass) THEN {} ELSE Decoded(c)
SaltAfter(c) == IF c.salt = NoSalt THEN salt ELSE c.salt

-----------------------------------------------------------------------------
(* States *)

SealedValues == [key : [of : Users \cup {NoUser}, salt : Salts \cup {NoSalt}],
                 field : {""} \cup UNION {Fields(k) : k \in Kinds},
                 plain : Values]

IsContent(c) ==
  /\ c.salt \in Salts \cup {NoSalt}
  /\ \A j \in c.items : /\ j.kind \in Kinds
                        /\ j.fields \in [Fields(j.kind) -> SealedValues]

TypeOK ==
  /\ scoped \in BOOLEAN /\ protected \in BOOLEAN /\ running \in BOOLEAN
  /\ DOMAIN files = Paths /\ \A p \in Paths : IsContent(files[p])
  /\ last \in Users \cup {NoUser}
  /\ path \in Paths
  /\ passphrase \in Users \cup {NoUser}
  /\ salt \in Salts \cup {NoSalt}
  /\ mem \subseteq Items
  /\ \A x, y \in mem : x.kind = y.kind => x = y
  /\ signedIn \in Users \cup {NoUser}
  /\ \A w \in writing : w.path \in Paths /\ IsContent(w.image)
  /\ made \in [Users -> 0 .. MaxValues]
  /\ mishaps \subseteq {"crash", "failedLogin", "lostWrite"}
  /\ behind \in BOOLEAN

Init ==
  /\ protected \in BOOLEAN
  /\ scoped \in IF protected THEN BOOLEAN ELSE {FALSE}
  /\ running = FALSE
  /\ files = [p \in Paths |-> NoFile]
  /\ last = NoUser /\ path = NoUser /\ passphrase = NoUser
  /\ salt = NoSalt /\ mem = {} /\ signedIn = NoUser
  /\ writing = {}
  /\ made = [u \in Users |-> 0]
  /\ mishaps = {}
  /\ behind = FALSE

\* lastAccountId, and the file that useAccountScopedPath opens for u.
LastAccount == IF scoped THEN last ELSE NoUser
FileFor(u) == IF scoped THEN u ELSE path
Remembered(u) == IF scoped THEN u ELSE last

\* The account whose session is in memory.
SessionUser(m) ==
  IF ItemsOf(m, "session") = {} THEN NoUser
  ELSE (CHOOSE x \in ItemsOf(m, "session") : TRUE).value.of

-----------------------------------------------------------------------------
(* The store and its clients *)

\* The constructor loads the default file, and main goes on to the file of the
\* last account: a password is asked for, which the user may skip or mistype
\* (the client then exits).
Start ==
  /\ ~running /\ running' = TRUE
  /\ LET p == LastAccount IN
     \E pass \in IF p = NoUser THEN {NoUser} ELSE Users \cup {NoUser} :
       /\ Loadable(files[p], pass)
       /\ path' = p /\ passphrase' = pass
       /\ salt' = IF scoped /\ pass = NoUser THEN NoSalt
                  ELSE SaltAfter(files[p])
       /\ mem' = Loaded(files[p], pass)
       /\ signedIn' = SessionUser(mem')
  /\ behind' = FALSE
  /\ UNCHANGED <<config, disk, made, mishaps>>

Ready == running /\ writing = {}

\* SessionService::login, when the store cannot be switched to u: the passphrase
\* is u's by then.  Either the index file was not written, or the file of u is
\* not readable, and memory is empty.
LoginFails(u) ==
  /\ Ready
  /\ passphrase' = u
  /\ \/ scoped /\ UNCHANGED <<last, path, salt, mem>>
     \/ LET p == FileFor(u) IN
        /\ last' = Remembered(u)
        /\ path' = p
        /\ mem' = {}
        /\ \/ UNCHANGED salt                  \* the file cannot be opened
           \/ /\ ~Loadable(files[p], u)
              /\ salt' = SaltAfter(files[p])
  /\ mishaps' = IF signedIn = NoUser THEN mishaps
                ELSE mishaps \cup {"failedLogin"}
  /\ UNCHANGED <<config, running, files, writing, signedIn, made, behind>>

\* SessionService::login: the file of u is loaded, and the session saved in it.
LoginSucceeds(u) ==
  LET p == FileFor(u) IN
  /\ Ready
  /\ Loadable(files[p], u)
  /\ passphrase' = u
  /\ path' = p
  /\ last' = Remembered(u)
  /\ salt' = SaltAfter(files[p])
  /\ \E n \in 0 .. MaxValues :
       mem' = Put(Loaded(files[p], u),
                  [kind |-> "session", value |-> [of |-> u, n |-> n]])
  /\ signedIn' = u
  /\ Save(p, u, mem')
  /\ UNCHANGED <<config, running, made, mishaps>>

\* SessionService::logout, once the server agreed: the session is taken out of
\* the file, and the passphrase is forgotten unless that failed.
Logout ==
  /\ Ready /\ signedIn # NoUser
  /\ signedIn' = NoUser
  /\ mem' = Without(mem, "session")
  /\ UNCHANGED <<config, running, last, path, salt, made, mishaps>>
  /\ \/ SaveStarts(path, passphrase, mem') /\ passphrase' = NoUser
     \/ SaveFails /\ UNCHANGED passphrase

Saves(i) ==
  /\ Ready
  /\ mem' = Put(mem, i)
  /\ UNCHANGED <<config, running, last, path, passphrase, salt, signedIn, made,
                 mishaps>>
  /\ Save(path, passphrase, mem')

\* SessionService::updateTokens.
UpdateTokens ==
  /\ signedIn # NoUser
  /\ \E n \in 0 .. MaxValues :
       Saves([kind |-> "session", value |-> [of |-> signedIn, n |-> n]])

\* Mutant: keys are created although there are some.
DeviceKeysNew(n) == [of |-> signedIn, n |-> n]

\* ensureDeviceKeysUploaded creates keys only where none are stored.
DeviceKeys(n) ==
  IF ItemsOf(mem, "device") = {} THEN [of |-> signedIn, n |-> n]
  ELSE (CHOOSE x \in ItemsOf(mem, "device") : TRUE).value

SaveDeviceKeys ==
  /\ signedIn # NoUser /\ "device" \in StoredKinds
  /\ \E n \in 1 .. MaxValues :
       Saves([kind |-> "device", value |-> DeviceKeys(n)])

\* saveOneTimePreKeys, saveKnownUser, saveTrustPin, saveMessage.
SaveItem ==
  /\ signedIn # NoUser
  /\ \E k \in StoredKinds \ {"device"}, n \in 0 .. MaxValues :
       Saves([kind |-> k, value |-> [of |-> signedIn, n |-> n]])

KeysIn(image, u) ==
  {n \in 1 .. MaxValues :
     \E j \in image.items :
       j.kind = "device" /\ FromJson(j).value = [of |-> u, n |-> n]}

\* The end of save: the file gets its contents.
Write ==
  /\ running
  /\ \E w \in writing :
       /\ files' = [files EXCEPT ![w.path] = w.image]
       /\ made' = [u \in Users |->
                     IF \/ made[u] # 0 \/ mishaps # {}
                        \/ KeysIn(w.image, u) = {}
                     THEN made[u]
                     ELSE CHOOSE n \in KeysIn(w.image, u) : TRUE]
  /\ writing' = {}
  /\ UNCHANGED <<config, running, last, store, mishaps, behind>>

\* The write does not reach the disk, which save does not look at.
WriteIsLost ==
  /\ running /\ writing # {} /\ writing' = {}
  /\ mishaps' = mishaps \cup {"lostWrite"}
  /\ UNCHANGED <<config, running, files, last, store, made, behind>>

\* The client stops: between two operations, or in the middle of a save.
Stop ==
  /\ running /\ running' = FALSE
  /\ writing' = {}
  /\ mishaps' = IF writing = {} THEN mishaps ELSE mishaps \cup {"crash"}
  /\ path' = NoUser /\ passphrase' = NoUser /\ salt' = NoSalt
  /\ mem' = {} /\ signedIn' = NoUser /\ behind' = FALSE
  /\ UNCHANGED <<config, files, last, made>>

Next ==
  \/ Start \/ Logout \/ UpdateTokens \/ SaveDeviceKeys \/ SaveItem
  \/ Write \/ WriteIsLost \/ Stop
  \/ \E u \in Users : LoginFails(u) \/ LoginSucceeds(u)

Spec == Init /\ [][Next]_vars

-----------------------------------------------------------------------------
(* Properties *)

Home(u) == IF scoped THEN u ELSE NoUser

\* The items of m are u's: all of them, or those with secrets where the accounts
\* share a file (what has no secret is read under any password).
Owned(m, u) ==
  \A i \in m : scoped \/ SecretFields[i.kind] # {} => i.value.of = u

\* What save and load promise together: after an operation that saved, and did
\* not report a failure, the file decodes under the passphrase to exactly the
\* client's memory.
DiskCurrent ==
  Ready /\ ~behind /\ signedIn # NoUser /\ mishaps = {} =>
    Loadable(files[path], passphrase) /\ Loaded(files[path], passphrase) = mem

\* No secret of a file of real mode is in the clear, and each is sealed for the
\* account it belongs to unless something went wrong.
SecretsSealed ==
  protected =>
    \A p \in Paths : \A j \in files[p].items : \A f \in SecretFields[j.kind] :
      LET x == j.fields[f] IN
      x.key # NoKey /\ (mishaps = {} => x.key.of = x.plain.of)

\* In real mode, the client never works with a secret of another account than the
\* one that is signed in, nor with any item of another account when each has a
\* file of its own.
OwnItemsOnly ==
  protected /\ mishaps = {} /\ signedIn # NoUser => Owned(mem, signedIn)

MadeKeys(u) == [kind |-> "device", value |-> [of |-> u, n |-> made[u]]]
HasKeys(c, u) == FileOpens(c, u) /\ MadeKeys(u) \in Decoded(c)

\* The device keys of an account, once written, stay what they are and can be
\* read with its password, through logins, logouts, failed saves and restarts.
KeysSurvive(allowed) ==
  mishaps \subseteq allowed /\ writing = {} /\ protected =>
    \A u \in Users : made[u] # 0 => HasKeys(files[Home(u)], u)

KeysSurviveLogins == KeysSurvive({})

\* docs/client_docs: "switching accounts on the same machine does not
\* accidentally try to decrypt another account's device keys" - nor loses them.
KeysSurviveSwitching == KeysSurvive({"failedLogin"})

\* docs/client_docs: the store "persists account state, device keys, ..." - also
\* when the client stops at a bad moment.
KeysSurviveCrashes == KeysSurvive({"crash"})

\* docs/client_docs lists "local sender-copy ciphertext" among the fields that
\* are protected before JSON is written.
SenderCopySealed ==
  protected => \A p \in Paths : \A j \in files[p].items :
    j.kind = "message" =>
      j.fields["localSenderCopyWirePayloadJson"].key # NoKey

-----------------------------------------------------------------------------
(* The inductive invariant of the proofs *)

OneOfAKind(m) == \A x, y \in m : x.kind = y.kind => x = y

\* c is what save makes of the items m for u: sealed by u's password in real
\* mode, and u's own items in u's own file as long as nothing went wrong.
SavedFor(p, c, m, u, s) ==
  /\ c = Image(m, u, s) /\ m \subseteq Items /\ OneOfAKind(m)
  /\ protected => u \in Users /\ s \in Salts
  /\ protected /\ mishaps = {} => Owned(m, u) /\ (scoped => u = p)

\* What a file can hold.
Written(p, c) ==
  \/ c = NoFile
  \/ \E u \in Paths, s \in Salts \cup {NoSalt} : SavedFor(p, c, Decoded(c), u, s)

AllWritten ==
  /\ \A p \in Paths : Written(p, files[p])
  /\ \A w \in writing : Written(w.path, w.image)

\* How the modes, the open file, and the save under way go together.
Opened ==
  /\ scoped => protected
  /\ ~scoped => path = NoUser
  /\ \A v, w \in writing : v = w
  /\ \A w \in writing : w.path = path
  /\ writing # {} => running /\ ~behind
  /\ ~running => signedIn = NoUser

Current(c) == Loadable(c, passphrase) /\ Loaded(c, passphrase) = mem

\* Why DiskCurrent holds: the file has the items in memory, or is about to.
CurrentSoon ==
  ~behind /\ signedIn # NoUser /\ mishaps = {} =>
    /\ writing = {} => Current(files[path])
    /\ \A w \in writing : Current(w.image)

\* Why the next save harms no account: the open file is that of the account that
\* is signed in, memory is its own, and has its device keys if they were written.
Own ==
  protected /\ mishaps = {} /\ signedIn # NoUser =>
    /\ passphrase = signedIn /\ path = Home(signedIn)
    /\ Owned(mem, signedIn)
    /\ \A u \in Users :
         made[u] # 0 /\ Home(u) = path => u = signedIn /\ MadeKeys(u) \in mem

\* Why KeysSurviveLogins holds: device keys that were written are in the file of
\* their account, and in what is about to be written to it.
KeysKept ==
  protected /\ mishaps = {} =>
    \A u \in Users : made[u] # 0 =>
      /\ (\A w \in writing : w.path # Home(u)) => HasKeys(files[Home(u)], u)
      /\ \A w \in writing : w.path = Home(u) => HasKeys(w.image, u)

LInv == TypeOK /\ AllWritten /\ Opened /\ CurrentSoon /\ Own /\ KeysKept

=============================================================================
