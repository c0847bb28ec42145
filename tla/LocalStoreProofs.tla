--------------------------- MODULE LocalStoreProofs ---------------------------
(***************************************************************************)
(* LInv is an invariant of LocalStore for any accounts, kinds of items,    *)
(* salts and values, in every mode: each file is what a save makes, the    *)
(* open file belongs to who is signed in, and what is about to be written  *)
(* agrees with memory.  First what save and load do to each other, then one*)
(* lemma per operation; the theorems are at the end.                       *)
(***************************************************************************)
EXTENDS LocalStore, TLAPS

-----------------------------------------------------------------------------
(* Items and files *)

\* Every kind of item has a field in the clear, and it is not a secret one.
LEMMA KindFields ==
  ASSUME NEW k \in Kinds
  PROVE  ClearFields[k] # {} /\ ClearFields[k] \cap SecretFields[k] = {}
<1>1. k \in {"session", "device", "preKey", "knownUser", "pin", "message"}
  BY StoreAssumption DEF Kinds
<1> QED
  BY <1>1 DEF ClearFields, SecretFields

\* What ToJson gives an item.
LEMMA JsonFields ==
  ASSUME NEW i \in Items, NEW k
  PROVE  /\ ToJson(i, k).kind = i.kind
         /\ DOMAIN ToJson(i, k).fields = Fields(i.kind)
         /\ \A f \in Fields(i.kind) :
              ToJson(i, k).fields[f] =
                IF k # NoKey /\ f \in SecretFields[i.kind]
                THEN Seal(i.value, f, k) ELSE Clear(i.value)
BY DEF ToJson, Protects

\* fromJson undoes toJson, whatever the key.
LEMMA JsonDecodes ==
  ASSUME NEW i \in Items, NEW k
  PROVE  FromJson(ToJson(i, k)) = i
<1>1. i.kind \in Kinds /\ i = [kind |-> i.kind, value |-> i.value]
  BY DEF Items
<1>2. PICK f : f = CHOOSE g \in ClearFields[i.kind] : TRUE
  OBVIOUS
<1>3. /\ f \in ClearFields[i.kind] /\ f \notin SecretFields[i.kind]
      /\ f \in Fields(i.kind)
  BY <1>1, <1>2, KindFields DEF Fields
<1>4. ToJson(i, k).fields[f] = Clear(i.value)
  BY <1>3, JsonFields
<1>5. Clear(i.value).plain = i.value
  BY DEF Clear
<1>6. PICK j : j = ToJson(i, k)
  OBVIOUS
<1>7. j.kind = i.kind /\ j.fields[f].plain = i.value
  BY <1>4, <1>5, <1>6, JsonFields
<1>8. f = CHOOSE g \in ClearFields[j.kind] : TRUE
  BY <1>2, <1>7
<1>9. FromJson(j) = [kind |-> j.kind, value |-> j.fields[f].plain]
  BY <1>8 DEF FromJson
<1> QED
  BY <1>1, <1>6, <1>7, <1>9

\* The key that sealed an item opens it, and no other does if it has secrets.
LEMMA JsonOpens ==
  ASSUME NEW i \in Items, NEW k
  PROVE  /\ Readable(ToJson(i, k), k)
         /\ SecretFields[i.kind] # {} /\ k # NoKey =>
              \A l : Readable(ToJson(i, k), l) => l = k
<1>1. \A f \in Fields(i.kind) : Opens(ToJson(i, k).fields[f], f, k)
  <2> SUFFICES ASSUME NEW f \in Fields(i.kind)
               PROVE  Opens(ToJson(i, k).fields[f], f, k)
    OBVIOUS
  <2>1. \/ ToJson(i, k).fields[f] = Seal(i.value, f, k)
        \/ ToJson(i, k).fields[f] = Clear(i.value)
    BY JsonFields
  <2>2. Opens(Seal(i.value, f, k), f, k) /\ Opens(Clear(i.value), f, k)
    BY DEF Opens, Seal, Clear
  <2> QED
    BY <2>1, <2>2
<1>2. ASSUME SecretFields[i.kind] # {}, k # NoKey, NEW l,
             Readable(ToJson(i, k), l)
      PROVE  l = k
  <2>1. PICK f : f \in SecretFields[i.kind]
    BY <1>2
  <2>2. f \in Fields(i.kind)
    BY <2>1 DEF Fields
  <2>3. ToJson(i, k).fields[f] = Seal(i.value, f, k)
    BY <1>2, <2>1, <2>2, JsonFields
  <2>4. Opens(Seal(i.value, f, k), f, l)
    BY <1>2, <2>2, <2>3, JsonFields DEF Readable
  <2> QED
    BY <1>2, <2>4 DEF Opens, Seal
<1> QED
  BY <1>1, <1>2, JsonFields DEF Readable

AnyKey == [of : Users \cup {NoUser}, salt : Salts \cup {NoSalt}]

\* The JSON of an item has the shape of the file's entries.
LEMMA JsonTyped ==
  ASSUME NEW i \in Items, NEW k \in AnyKey
  PROVE  /\ ToJson(i, k).kind \in Kinds
         /\ ToJson(i, k).fields \in [Fields(i.kind) -> SealedValues]
<1>1. i.kind \in Kinds /\ i.value \in Values
  BY DEF Items
<1>2. Clear(i.value) \in SealedValues
  BY <1>1 DEF Clear, NoKey, SealedValues
<1>3. \A f \in Fields(i.kind) : Seal(i.value, f, k) \in SealedValues
  <2> SUFFICES ASSUME NEW f \in Fields(i.kind)
               PROVE  Seal(i.value, f, k) \in SealedValues
    OBVIOUS
  <2>1. f \in UNION {Fields(x) : x \in Kinds}
    BY <1>1
  <2> QED
    BY <1>1, <2>1 DEF Seal, SealedValues, AnyKey
<1> QED
  BY <1>1, <1>2, <1>3 DEF ToJson

\* Keys of real mode are keys.
LEMMA Keys ==
  ASSUME NEW u \in Paths, NEW s \in Salts \cup {NoSalt}
  PROVE  /\ Key(u, s) \in AnyKey
         /\ protected => Key(u, s) = [of |-> u, salt |-> s]
         /\ ~protected => Key(u, s) = NoKey
         /\ protected /\ u \in Users => Key(u, s) # NoKey
BY StoreAssumption DEF Key, NoKey, AnyKey, Paths

\* load gives back what save was given: the file decodes to the same items, opens
\* with the password it was written under, and with no other if it has secrets.
THEOREM SavedLoads ==
  ASSUME NEW m \in SUBSET Items, NEW u \in Paths, NEW s \in Salts \cup {NoSalt},
         protected => u \in Users /\ s \in Salts
  PROVE  LET c == Image(m, u, s) IN
         /\ IsContent(c) /\ Decoded(c) = m
         /\ FileOpens(c, u) /\ ~Skipped(c, u)
         /\ c.salt # NoSalt <=> protected
         /\ protected => \A v :
              FileOpens(c, v) /\ (\E i \in m : SecretFields[i.kind] # {}) =>
                v = u
<1>1. PICK c : c = Image(m, u, s)
  OBVIOUS
<1>2. PICK k : k = Key(u, s)
  OBVIOUS
<1>3. /\ c.items = {ToJson(i, k) : i \in m}
      /\ c.salt = IF protected THEN s ELSE NoSalt
  BY <1>1, <1>2 DEF Image
<1>4. c.salt # NoSalt <=> protected
  BY <1>3, StoreAssumption
<1>5. IsContent(c)
  <2>1. \A i \in m : /\ ToJson(i, k).kind \in Kinds
                     /\ ToJson(i, k).fields
                          \in [Fields(ToJson(i, k).kind) -> SealedValues]
    BY <1>2, Keys, JsonTyped, JsonFields
  <2> QED
    BY <1>3, <2>1 DEF IsContent
<1>6. Decoded(c) = m
  <2>1. \A i \in m : FromJson(ToJson(i, k)) = i
    BY JsonDecodes
  <2>2. Decoded(c) = {FromJson(ToJson(i, k)) : i \in m}
    BY <1>3 DEF Decoded
  <2> QED
    BY <2>1, <2>2
<1>7. FileOpens(c, u)
  <2>1. CASE protected
    <3>1. k = [of |-> u, salt |-> c.salt]
      BY <1>2, <1>3, <2>1, Keys
    <3>2. \A i \in m : Readable(ToJson(i, k), k)
      BY JsonOpens
    <3> QED
      BY <1>3, <3>1, <3>2 DEF FileOpens
  <2>2. CASE ~protected
    BY <1>4, <2>2 DEF FileOpens
  <2> QED
    BY <2>1, <2>2
<1>8. ~Skipped(c, u)
  BY <1>4, StoreAssumption DEF Skipped
<1>9. ASSUME protected, NEW v, FileOpens(c, v), NEW i \in m,
             SecretFields[i.kind] # {}
      PROVE  v = u
  <2>1. Readable(ToJson(i, k), [of |-> v, salt |-> c.salt])
    BY <1>3, <1>4, <1>9 DEF FileOpens
  <2>2. k # NoKey /\ k = [of |-> u, salt |-> s]
    BY <1>2, <1>9, Keys
  <2>3. [of |-> v, salt |-> c.salt] = [of |-> u, salt |-> s]
    BY <1>9, <2>1, <2>2, JsonOpens
  <2> QED
    BY <2>3
<1> QED
  BY <1>1, <1>4, <1>5, <1>6, <1>7, <1>8, <1>9

-----------------------------------------------------------------------------
(* Files and memory in the invariant *)

\* The device keys of an account are items with secrets, and they are not those
\* of another.
LEMMA MadeKeysSecret ==
  ASSUME NEW u \in Users
  PROVE  /\ MadeKeys(u).kind = "device" /\ MadeKeys(u).value.of = u
         /\ SecretFields["device"] # {}
BY DEF MadeKeys, SecretFields

\* So is a session.
LEMMA SessionSecret == SecretFields["session"] # {}
BY DEF SecretFields

\* An empty file opens with every password.
LEMMA Empty ==
  /\ IsContent(NoFile) /\ Decoded(NoFile) = {}
  /\ \A v : FileOpens(NoFile, v) /\ Loadable(NoFile, v) /\ Loaded(NoFile, v) = {}
BY DEF NoFile, IsContent, Decoded, FileOpens, Loadable, Loaded, Skipped

\* What save writes is written.
LEMMA SaveWrites ==
  ASSUME NEW m \in SUBSET Items, OneOfAKind(m), NEW p, NEW u \in Paths,
         NEW s \in Salts, protected => u \in Users,
         protected /\ mishaps = {} => Owned(m, u) /\ (scoped => u = p)
  PROVE  LET c == Image(m, u, s) IN
         /\ IsContent(c) /\ Written(p, c) /\ Decoded(c) = m
         /\ Loadable(c, u) /\ Loaded(c, u) = m
         /\ FileOpens(c, u)
<1>1. PICK c : c = Image(m, u, s)
  OBVIOUS
<1>2. /\ IsContent(c) /\ Decoded(c) = m /\ FileOpens(c, u) /\ ~Skipped(c, u)
  BY <1>1, SavedLoads
<1>3. SavedFor(p, c, Decoded(c), u, s)
  BY <1>1, <1>2 DEF SavedFor
<1> QED
  BY <1>1, <1>2, <1>3 DEF Written, Loadable, Loaded

\* What can be loaded of a file: items of the account whose password it was given.
LEMMA LoadOwned ==
  ASSUME NEW p \in Paths, NEW c, Written(p, c), NEW v \in Paths, Loadable(c, v)
  PROVE  /\ Loaded(c, v) \subseteq Items /\ OneOfAKind(Loaded(c, v))
         /\ protected /\ v = NoUser => Loaded(c, v) = {}
         /\ protected /\ mishaps = {} =>
              \A i \in Loaded(c, v) :
                /\ SecretFields[i.kind] # {} => i.value.of = v
                /\ scoped => i.value.of = p
<1>1. CASE c = NoFile
  BY <1>1, Empty DEF OneOfAKind
<1>2. CASE c # NoFile
  <2>1. PICK u \in Paths, s \in Salts \cup {NoSalt} :
          SavedFor(p, c, Decoded(c), u, s)
    BY <1>2 DEF Written
  <2>2. PICK m : m = Decoded(c)
    OBVIOUS
  <2>3. /\ c = Image(m, u, s) /\ m \in SUBSET Items /\ OneOfAKind(m)
        /\ protected => u \in Users /\ s \in Salts
        /\ protected /\ mishaps = {} => Owned(m, u) /\ (scoped => u = p)
    BY <2>1, <2>2 DEF SavedFor
  <2>4. /\ c.salt # NoSalt <=> protected
        /\ protected => \A x :
             FileOpens(c, x) /\ (\E i \in m : SecretFields[i.kind] # {}) =>
               x = u
    BY <2>3, SavedLoads
  <2>5. Loaded(c, v) = {} \/ (Loaded(c, v) = m /\ FileOpens(c, v))
    BY <2>2 DEF Loadable, Loaded
  <2>6. Loaded(c, v) \subseteq Items /\ OneOfAKind(Loaded(c, v))
    BY <2>3, <2>5 DEF OneOfAKind
  <2>7. protected /\ v = NoUser => Loaded(c, v) = {}
    BY <2>4 DEF Loaded, Skipped
  <2>8. ASSUME protected, mishaps = {}, NEW i \in Loaded(c, v)
        PROVE  /\ SecretFields[i.kind] # {} => i.value.of = v
               /\ scoped => i.value.of = p
    BY <2>3, <2>4, <2>5, <2>8 DEF Owned
  <2> QED
    BY <2>6, <2>7, <2>8
<1> QED
  BY <1>1, <1>2

\* A file with an account's device keys opens for that account only.
LEMMA KeysOpenForOne ==
  ASSUME NEW p \in Paths, NEW c, Written(p, c), protected, NEW u \in Users,
         HasKeys(c, u), NEW v \in Users, Loadable(c, v)
  PROVE  v = u /\ MadeKeys(u) \in Loaded(c, v)
<1>1. FileOpens(c, u) /\ MadeKeys(u) \in Decoded(c)
  BY DEF HasKeys
<1>2. c # NoFile
  BY <1>1, Empty
<1>3. PICK x \in Paths, s \in Salts \cup {NoSalt} :
        SavedFor(p, c, Decoded(c), x, s)
  BY <1>2 DEF Written
<1>4. PICK m : m = Decoded(c)
  OBVIOUS
<1>5. /\ c = Image(m, x, s) /\ m \in SUBSET Items /\ x \in Users /\ s \in Salts
  BY <1>3, <1>4 DEF SavedFor
<1>6. \E i \in m : SecretFields[i.kind] # {}
  BY <1>1, <1>4, MadeKeysSecret
<1>7. \A y : FileOpens(c, y) => y = x
  BY <1>5, <1>6, SavedLoads
<1>8. ~Skipped(c, v)
  BY StoreAssumption DEF Skipped
<1> QED
  BY <1>1, <1>7, <1>8 DEF Loadable, Loaded

\* Once more has gone wrong, less is claimed of what is written.
LEMMA WrittenStill ==
  ASSUME UNCHANGED config, mishaps \subseteq mishaps', NEW p, NEW c, Written(p, c)
  PROVE  Written(p, c)'
<1>1. CASE c = NoFile
  BY <1>1 DEF Written
<1>2. CASE c # NoFile
  <2>1. PICK u \in Paths, s \in Salts \cup {NoSalt} :
          SavedFor(p, c, Decoded(c), u, s)
    BY <1>2 DEF Written
  <2>2. Image(Decoded(c), u, s)' = Image(Decoded(c), u, s)
    BY DEF config, Image, Key
  <2>3. Owned(Decoded(c), u)' <=> Owned(Decoded(c), u)
    BY DEF config, Owned
  <2>4. SavedFor(p, c, Decoded(c), u, s)'
    BY <2>1, <2>2, <2>3 DEF SavedFor, config
  <2> QED
    BY <2>4 DEF Written
<1> QED
  BY <1>1, <1>2

-----------------------------------------------------------------------------
(* The steps *)

\* An operation that replaces memory and saves it to the file it leaves open: it
\* keeps the invariant if what it saves is the account's own, and has the
\* device keys that the file had.
LEMMA SaveStep ==
  ASSUME LInv, Ready, UNCHANGED <<scoped, protected, running, made, mishaps>>,
         NEW p \in Paths, NEW u \in Paths, NEW m \in SUBSET Items, OneOfAKind(m),
         ~scoped => p = NoUser,
         protected /\ mishaps = {} =>
           /\ Owned(m, u) /\ p = Home(u)
           /\ \A v \in Users :
                made[v] # 0 /\ Home(v) = p => v = u /\ MadeKeys(v) \in m,
         path' = p, mem' = m, last' \in Users \cup {NoUser},
         salt' \in Salts \cup {NoSalt}, passphrase' \in Users \cup {NoUser},
         signedIn' \in Users \cup {NoUser},
         signedIn' # NoUser =>
           passphrase' = u /\ (protected /\ mishaps = {} => signedIn' = u),
         Save(p, u, m)
  PROVE  LInv'
<1>1. /\ running /\ writing = {} /\ Opened /\ AllWritten /\ KeysKept /\ TypeOK
      /\ \A x \in Paths : IsContent(files[x]) /\ Written(x, files[x])
  BY DEF LInv, TypeOK, Ready, AllWritten
<1>2. config' = config /\ mishaps \subseteq mishaps'
  BY DEF config
<1>3. \A x \in Users : MadeKeys(x)' = MadeKeys(x) /\ Home(x)' = Home(x)
  BY DEF MadeKeys, Home
<1>4. ASSUME NEW x \in Paths
      PROVE  (Written(x, NoFile))'
  BY DEF Written
<1>5. ASSUME NEW x \in Paths, NEW c, Written(x, c)
      PROVE  Written(x, c)'
  BY <1>2, <1>5, WrittenStill
<1>6. CASE SaveFails
  <2>1. behind' = TRUE /\ files' = files /\ writing' = {}
    BY <1>1, <1>6 DEF SaveFails
  <2>2. TypeOK'
    BY <1>1, <2>1 DEF TypeOK, OneOfAKind, IsContent
  <2>3. AllWritten'
    BY <1>1, <1>5, <2>1 DEF AllWritten
  <2>4. Opened' /\ CurrentSoon'
    BY <1>1, <2>1 DEF Opened, CurrentSoon
  <2>5. Own'
    BY <1>3 DEF Own, Owned, Home
  <2>6. KeysKept'
    BY <1>1, <1>3, <2>1 DEF KeysKept, HasKeys
  <2> QED
    BY <2>2, <2>3, <2>4, <2>5, <2>6 DEF LInv
<1>7. CASE SaveStarts(p, u, m)
  <2>1. /\ MaySave(u) /\ behind' = FALSE
        /\ files' = [files EXCEPT ![p] = NoFile]
        /\ \E s \in Salts : writing' = {[path |-> p, image |-> Image(m, u, s)]}
    BY <1>7 DEF SaveStarts
  <2>2. PICK s \in Salts : writing' = {[path |-> p, image |-> Image(m, u, s)]}
    BY <2>1
  <2>3. PICK c : c = Image(m, u, s)
    OBVIOUS
  <2>4. protected => u \in Users
    BY <2>1 DEF MaySave, Paths
  <2>5. protected /\ mishaps = {} /\ scoped => u = p
    BY DEF Home
  <2>6. /\ IsContent(c) /\ Written(p, c) /\ Decoded(c) = m
        /\ Loadable(c, u) /\ Loaded(c, u) = m /\ FileOpens(c, u)
    BY <2>3, <2>4, <2>5, SaveWrites
  <2>7. /\ \A w \in writing' : w.path = p /\ w.image = c
        /\ writing' # {} /\ \A v, w \in writing' : v = w
    BY <2>2, <2>3
  <2>8. \A x \in Paths : files'[x] = IF x = p THEN NoFile ELSE files[x]
    BY <1>1, <2>1 DEF TypeOK
  <2>9. TypeOK'
    <3>1. \A x \in Paths : IsContent(files'[x])
      BY <1>1, <2>8, Empty
    <3>2. \A w \in writing' : w.path \in Paths /\ IsContent(w.image)
      BY <2>6, <2>7
    <3>3. mem' \subseteq Items /\ \A x, y \in mem' : x.kind = y.kind => x = y
      BY DEF OneOfAKind
    <3>4. IsContent(NoFile) <=> IsContent(NoFile)'
      BY DEF IsContent, NoFile
    <3> QED
      BY <1>1, <2>1, <3>1, <3>2, <3>3 DEF TypeOK, IsContent
  <2>10. AllWritten'
    BY <1>1, <1>4, <1>5, <2>6, <2>7, <2>8 DEF AllWritten
  <2>11. Opened'
    BY <1>1, <2>1, <2>7 DEF Opened
  <2>12. CurrentSoon'
    BY <2>6, <2>7 DEF CurrentSoon, Current, Loadable, Loaded, Skipped, FileOpens
  <2>13. Own'
    BY <1>3 DEF Own, Owned, Home
  <2>14. KeysKept'
    <3> SUFFICES ASSUME protected, mishaps = {}, NEW x \in Users, made[x] # 0
                 PROVE  /\ Home(x) # p => HasKeys(files[Home(x)], x)'
                        /\ Home(x) = p => HasKeys(c, x)'
      BY <1>3, <2>7 DEF KeysKept
    <3>1. Home(x) # p => files'[Home(x)] = files[Home(x)]
      BY <2>8 DEF Home, Paths
    <3>2. HasKeys(files[Home(x)], x)
      BY <1>1 DEF KeysKept
    <3>3. Home(x) = p => FileOpens(c, x) /\ MadeKeys(x) \in Decoded(c)
      BY <2>6
    <3> QED
      BY <1>3, <3>1, <3>2, <3>3 DEF HasKeys
  <2> QED
    BY <2>9, <2>10, <2>11, <2>12, <2>13, <2>14 DEF LInv
<1> QED
  BY <1>6, <1>7 DEF Save

\* What replacing an item leaves.
LEMMA PutItem ==
  ASSUME NEW m \in SUBSET Items, OneOfAKind(m), NEW i \in Items
  PROVE  /\ Put(m, i) \in SUBSET Items /\ OneOfAKind(Put(m, i))
         /\ \A u : Owned(m, u) /\ i.value.of = u => Owned(Put(m, i), u)
         /\ \A x \in m : x.kind # i.kind => x \in Put(m, i)
         /\ i \in Put(m, i)
BY DEF Put, OneOfAKind, Owned

\* The items of memory, as the type invariant has them.
LEMMA Memory ==
  ASSUME LInv
  PROVE  /\ mem \in SUBSET Items /\ OneOfAKind(mem) /\ path \in Paths
         /\ passphrase \in Paths /\ signedIn \in Paths
         /\ salt \in Salts \cup {NoSalt} /\ last \in Paths
         /\ ~scoped => path = NoUser
BY DEF LInv, TypeOK, OneOfAKind, Opened, Paths

\* An item of the account that is signed in is saved; its device keys stay.
LEMMA SavesStep ==
  ASSUME LInv, signedIn # NoUser, NEW i \in Items, i.value.of = signedIn,
         i.kind = "device" =>
           \A x \in mem : x.kind = "device" => i.value = x.value,
         Saves(i)
  PROVE  LInv'
<1>1. PICK m : m = Put(mem, i)
  OBVIOUS
<1>2. /\ m \in SUBSET Items /\ OneOfAKind(m)
      /\ \A u : Owned(mem, u) /\ i.value.of = u => Owned(m, u)
      /\ \A x \in mem : x.kind # i.kind => x \in m
      /\ i \in m
  BY <1>1, PutItem, Memory
<1>3. /\ Ready /\ mem' = m /\ Save(path, passphrase, m)
      /\ UNCHANGED <<scoped, protected, running, made, mishaps>>
      /\ UNCHANGED <<last, path, passphrase, salt, signedIn>>
  BY <1>1 DEF Saves, config
<1>4. ASSUME protected, mishaps = {}
      PROVE  /\ passphrase = signedIn /\ path = Home(signedIn)
             /\ Owned(m, signedIn)
             /\ \A v \in Users : made[v] # 0 /\ Home(v) = path =>
                  v = signedIn /\ MadeKeys(v) \in m
  <2>1. /\ passphrase = signedIn /\ path = Home(signedIn)
        /\ Owned(mem, signedIn)
        /\ \A v \in Users : made[v] # 0 /\ Home(v) = path =>
             v = signedIn /\ MadeKeys(v) \in mem
    BY <1>4 DEF LInv, Own
  <2>2. ASSUME NEW v \in Users, made[v] # 0, Home(v) = path
        PROVE  v = signedIn /\ MadeKeys(v) \in m
    <3>1. v = signedIn /\ MadeKeys(v) \in mem /\ MadeKeys(v).kind = "device"
      BY <2>1, <2>2, MadeKeysSecret
    <3>2. CASE i.kind = "device"
      <4>1. MadeKeys(v) = i
        BY <3>1, <3>2, Memory DEF Items
      <4> QED
        BY <1>2, <3>1, <4>1
    <3>3. CASE i.kind # "device"
      BY <1>2, <3>1, <3>3
    <3> QED
      BY <3>2, <3>3
  <2> QED
    BY <1>2, <2>1, <2>2
<1> QED
  BY <1>2, <1>3, <1>4, Memory, SaveStep DEF Paths

\* SessionService::updateTokens, ensureDeviceKeysUploaded, and the other saves.
LEMMA SaveSteps ==
  ASSUME LInv, UpdateTokens \/ SaveDeviceKeys \/ SaveItem
  PROVE  LInv'
<1>0. signedIn # NoUser /\ signedIn \in Users
  BY Memory DEF UpdateTokens, SaveDeviceKeys, SaveItem, Paths
<1>1. CASE UpdateTokens
  <2>1. PICK n \in 0 .. MaxValues :
          Saves([kind |-> "session", value |-> [of |-> signedIn, n |-> n]])
    BY <1>1 DEF UpdateTokens
  <2>2. PICK i : i = [kind |-> "session", value |-> [of |-> signedIn, n |-> n]]
    OBVIOUS
  <2>3. i \in Items /\ i.value.of = signedIn /\ i.kind # "device"
    BY <1>0, <2>2 DEF Items, Values, Kinds
  <2> QED
    BY <1>0, <2>1, <2>2, <2>3, SavesStep
<1>2. CASE SaveDeviceKeys
  <2>1. PICK n \in 1 .. MaxValues :
          Saves([kind |-> "device", value |-> DeviceKeys(n)])
    BY <1>2 DEF SaveDeviceKeys
  <2>2. PICK v : v = DeviceKeys(n)
    OBVIOUS
  <2>3. PICK i : i = [kind |-> "device", value |-> v]
    OBVIOUS
  <2>4. i.kind = "device" /\ i.value = v /\ Saves(i) /\ "device" \in Kinds
    BY <1>2, <2>1, <2>2, <2>3 DEF SaveDeviceKeys, Kinds
  <2>5. CASE ItemsOf(mem, "device") = {}
    <3>1. v = [of |-> signedIn, n |-> n] /\ v \in Values /\ v.of = signedIn
      BY <1>0, <2>2, <2>5, StoreAssumption DEF DeviceKeys, Values
    <3>2. i \in Items /\ i.value.of = signedIn
      BY <2>3, <2>4, <3>1 DEF Items
    <3>3. \A x \in mem : x.kind # "device"
      BY <2>5 DEF ItemsOf
    <3> QED
      BY <1>0, <2>4, <3>2, <3>3, SavesStep
  <2>6. CASE ItemsOf(mem, "device") # {}
    <3>1. PICK x : x \in ItemsOf(mem, "device") /\ v = x.value
      BY <2>2, <2>6 DEF DeviceKeys
    <3>2. /\ x \in mem /\ x.kind = "device" /\ x \in Items
          /\ i = x /\ \A y \in mem : y.kind = "device" => y = x
      BY <2>3, <3>1, Memory DEF ItemsOf, Items, OneOfAKind
    <3>3. CASE i.value.of = signedIn
      BY <1>0, <2>4, <3>2, <3>3, SavesStep
    <3>4. CASE i.value.of # signedIn
      <4>1. ~protected \/ mishaps # {}
        BY <1>0, <3>2, <3>4, MadeKeysSecret DEF LInv, Own, Owned
      <4>2. Put(mem, i) = mem
        BY <3>2 DEF Put
      <4>3. /\ Ready /\ mem' = mem /\ Save(path, passphrase, mem)
            /\ UNCHANGED <<scoped, protected, running, made, mishaps>>
            /\ UNCHANGED <<last, path, passphrase, salt, signedIn>>
        BY <2>4, <4>2 DEF Saves, config
      <4> QED
        BY <4>1, <4>3, Memory, SaveStep DEF Paths
    <3> QED
      BY <3>3, <3>4
  <2> QED
    BY <2>5, <2>6
<1>3. CASE SaveItem
  <2>1. PICK k \in StoredKinds \ {"device"}, n \in 0 .. MaxValues :
          Saves([kind |-> k, value |-> [of |-> signedIn, n |-> n]])
    BY <1>3 DEF SaveItem
  <2>2. PICK i : i = [kind |-> k, value |-> [of |-> signedIn, n |-> n]]
    OBVIOUS
  <2>3. i \in Items /\ i.value.of = signedIn /\ i.kind # "device"
    BY <1>0, <2>1, <2>2 DEF Items, Values, Kinds
  <2> QED
    BY <1>0, <2>1, <2>2, <2>3, SavesStep
<1> QED
  BY <1>1, <1>2, <1>3

\* SessionService::login: the account's file is opened, and its session saved.
LEMMA LoginSucceedsStep ==
  ASSUME LInv, NEW u \in Users, LoginSucceeds(u)
  PROVE  LInv'
<1>1. PICK p : p = FileFor(u)
  OBVIOUS
<1>2. /\ p \in Paths /\ (~scoped => p = NoUser) /\ p = Home(u) /\ u \in Paths
      /\ (scoped => p = u)
  BY <1>1, Memory DEF FileFor, Paths, Home
<1>3. /\ Ready /\ Loadable(files[p], u) /\ passphrase' = u /\ path' = p
      /\ last' = Remembered(u) /\ salt' = SaltAfter(files[p])
      /\ signedIn' = u /\ Save(p, u, mem')
      /\ UNCHANGED <<scoped, protected, running, made, mishaps>>
  BY <1>1 DEF LoginSucceeds, config
<1>4. PICK n \in 0 .. MaxValues :
        mem' = Put(Loaded(files[p], u),
                   [kind |-> "session", value |-> [of |-> u, n |-> n]])
  BY <1>1 DEF LoginSucceeds
<1>5. PICK i : i = [kind |-> "session", value |-> [of |-> u, n |-> n]]
  OBVIOUS
<1>6. i \in Items /\ i.value.of = u /\ i.kind = "session"
  BY <1>5 DEF Items, Values, Kinds
<1>7. PICK l : l = Loaded(files[p], u)
  OBVIOUS
<1>8. PICK c : c = files[p]
  OBVIOUS
<1>9. Written(p, c) /\ IsContent(c) /\ writing = {}
  BY <1>2, <1>3, <1>8 DEF LInv, AllWritten, TypeOK, Ready
<1>10. /\ l \in SUBSET Items /\ OneOfAKind(l)
       /\ protected /\ mishaps = {} => Owned(l, u)
  BY <1>2, <1>3, <1>7, <1>8, <1>9, LoadOwned DEF Owned
<1>11. PICK m : m = Put(l, i)
  OBVIOUS
<1>12. /\ m \in SUBSET Items /\ OneOfAKind(m) /\ mem' = m
       /\ protected /\ mishaps = {} => Owned(m, u)
       /\ \A x \in l : x.kind # "session" => x \in m
  BY <1>4, <1>5, <1>6, <1>7, <1>10, <1>11, PutItem
<1>13. ASSUME protected, mishaps = {}, NEW v \in Users, made[v] # 0, Home(v) = p
       PROVE  v = u /\ MadeKeys(v) \in m
  <2>1. HasKeys(c, v)
    BY <1>8, <1>9, <1>13 DEF LInv, KeysKept
  <2>2. v = u /\ MadeKeys(v) \in l
    BY <1>2, <1>3, <1>7, <1>8, <1>9, <1>13, <2>1, KeysOpenForOne
  <2> QED
    BY <1>12, <2>2, MadeKeysSecret
<1>14. last' \in Paths /\ salt' \in Salts \cup {NoSalt}
  BY <1>2, <1>3, <1>8, <1>9, Memory DEF Remembered, SaltAfter, IsContent
<1> QED
  BY <1>2, <1>3, <1>12, <1>13, <1>14, SaveStep DEF Paths

\* SessionService::logout.
LEMMA LogoutStep ==
  ASSUME LInv, Logout
  PROVE  LInv'
<1>1. PICK m : m = Without(mem, "session")
  OBVIOUS
<1>2. /\ m \in SUBSET Items /\ OneOfAKind(m) /\ m \subseteq mem
      /\ \A x \in mem : x.kind = "device" => x \in m
  BY <1>1, Memory DEF Without, OneOfAKind
<1>3. /\ Ready /\ signedIn # NoUser /\ signedIn' = NoUser /\ mem' = m
      /\ UNCHANGED <<scoped, protected, running, made, mishaps>>
      /\ UNCHANGED <<last, path, salt>>
      /\ Save(path, passphrase, m)
      /\ passphrase' \in {NoUser, passphrase}
  BY <1>1 DEF Logout, Save, config
<1>4. ASSUME protected, mishaps = {}
      PROVE  /\ Owned(m, passphrase) /\ path = Home(passphrase)
             /\ \A v \in Users : made[v] # 0 /\ Home(v) = path =>
                  v = passphrase /\ MadeKeys(v) \in m
  <2>1. /\ passphrase = signedIn /\ path = Home(signedIn)
        /\ Owned(mem, signedIn)
        /\ \A v \in Users : made[v] # 0 /\ Home(v) = path =>
             v = signedIn /\ MadeKeys(v) \in mem
    BY <1>3, <1>4 DEF LInv, Own
  <2> QED
    BY <1>2, <2>1, MadeKeysSecret DEF Owned
<1> QED
  BY <1>2, <1>3, <1>4, Memory, SaveStep DEF Paths

\* main opens the file of the last account.
LEMMA StartStep ==
  ASSUME LInv, Start
  PROVE  LInv'
<1>1. PICK p : p = LastAccount
  OBVIOUS
<1>2. PICK pass \in Paths :
        /\ Loadable(files[p], pass) /\ path' = p /\ passphrase' = pass
        /\ salt' = IF scoped /\ pass = NoUser THEN NoSalt
                   ELSE SaltAfter(files[p])
        /\ mem' = Loaded(files[p], pass)
  BY <1>1 DEF Start, Paths
<1>3. /\ ~running /\ running' = TRUE /\ signedIn' = SessionUser(mem')
      /\ behind' = FALSE
      /\ UNCHANGED <<scoped, protected, files, last, writing, made, mishaps>>
  BY DEF Start, config, disk
<1>4. /\ p \in Paths /\ (~scoped => p = NoUser) /\ writing = {}
      /\ TypeOK /\ AllWritten /\ KeysKept /\ (scoped => protected)
  BY <1>1, <1>3, Memory DEF LastAccount, Paths, LInv, Opened
<1>5. PICK c : c = files[p]
  OBVIOUS
<1>6. Written(p, c) /\ IsContent(c)
  BY <1>4, <1>5 DEF AllWritten, TypeOK
<1>7. PICK l : l = Loaded(c, pass)
  OBVIOUS
<1>8. /\ mem' = l /\ l \subseteq Items /\ OneOfAKind(l)
      /\ protected /\ pass = NoUser => l = {}
      /\ protected /\ mishaps = {} =>
           \A i \in l : /\ SecretFields[i.kind] # {} => i.value.of = pass
                        /\ scoped => i.value.of = p
  BY <1>2, <1>4, <1>5, <1>6, <1>7, LoadOwned
<1>9. signedIn' # NoUser =>
        \E i \in l : i.kind = "session" /\ i.value.of = signedIn'
  BY <1>3, <1>8 DEF SessionUser, ItemsOf
<1>10. signedIn' \in Paths
  BY <1>8, <1>9 DEF Items, Values, Paths
<1>11. ASSUME protected, mishaps = {}, signedIn' # NoUser
       PROVE  /\ pass = signedIn' /\ pass \in Users /\ p = Home(signedIn')
              /\ Owned(l, pass)
  <2>1. PICK i \in l : i.kind = "session" /\ i.value.of = signedIn'
    BY <1>9, <1>11
  <2>2. pass = signedIn' /\ (scoped => pass = p)
    BY <1>8, <1>11, <2>1, SessionSecret
  <2> QED
    BY <1>4, <1>8, <1>10, <1>11, <2>2 DEF Home, Owned, Paths
<1>12. ASSUME protected, mishaps = {}, signedIn' # NoUser,
              NEW v \in Users, made[v] # 0, Home(v) = p
       PROVE  v = signedIn' /\ MadeKeys(v) \in l
  <2>1. HasKeys(c, v)
    BY <1>4, <1>5, <1>12 DEF KeysKept
  <2>2. pass = signedIn' /\ pass \in Users
    BY <1>11, <1>12
  <2> QED
    BY <1>2, <1>4, <1>5, <1>6, <1>7, <1>12, <2>1, <2>2, KeysOpenForOne
<1>13. TypeOK'
  <2>1. salt' \in Salts \cup {NoSalt}
    BY <1>2, <1>5, <1>6, Memory DEF SaltAfter, IsContent
  <2> QED
    BY <1>2, <1>3, <1>4, <1>8, <1>10, <2>1 DEF TypeOK, OneOfAKind, IsContent, Paths
<1>14. AllWritten'
  <2>1. \A x \in Paths : Written(x, files[x])
    BY <1>4 DEF AllWritten
  <2>2. \A x \in Paths : \A y : Written(x, y) => Written(x, y)'
    BY <1>3, WrittenStill DEF config
  <2> QED
    BY <1>3, <1>4, <2>1, <2>2 DEF AllWritten
<1>15. Opened'
  BY <1>2, <1>3, <1>4 DEF Opened
<1>16. CurrentSoon'
  BY <1>2, <1>3, <1>4, <1>5, <1>7, <1>8
     DEF CurrentSoon, Current, Loadable, Loaded, Skipped, FileOpens
<1>17. Own'
  <2>1. \A x \in Users : MadeKeys(x)' = MadeKeys(x) /\ Home(x)' = Home(x)
    BY <1>3 DEF MadeKeys, Home
  <2> SUFFICES ASSUME protected, mishaps = {}, signedIn' # NoUser
               PROVE  /\ passphrase' = signedIn' /\ path' = Home(signedIn')
                      /\ Owned(mem', signedIn')
                      /\ \A u \in Users : made[u] # 0 /\ Home(u) = path' =>
                           u = signedIn' /\ MadeKeys(u) \in mem'
    BY <1>3, <2>1 DEF Own, Owned, Home
  <2> QED
    BY <1>2, <1>8, <1>11, <1>12
<1>18. KeysKept'
  BY <1>3, <1>4 DEF KeysKept, HasKeys, Home, MadeKeys
<1> QED
  BY <1>13, <1>14, <1>15, <1>16, <1>17, <1>18 DEF LInv

\* A login that fails while the store is switched.
LEMMA LoginFailsStep ==
  ASSUME LInv, NEW u \in Users, LoginFails(u)
  PROVE  LInv'
<1>1. /\ Ready /\ passphrase' = u
      /\ UNCHANGED <<scoped, protected, running, files, writing, signedIn, made,
                     behind>>
      /\ mishaps' = IF signedIn = NoUser THEN mishaps
                    ELSE mishaps \cup {"failedLogin"}
  BY DEF LoginFails, config
<1>2. PICK p : p = FileFor(u)
  OBVIOUS
<1>3. /\ p \in Paths /\ (~scoped => p = NoUser) /\ Remembered(u) \in Paths
  BY <1>2, Memory DEF FileFor, Remembered, Paths
<1>4. /\ writing = {} /\ TypeOK /\ AllWritten /\ KeysKept /\ Opened
  BY <1>1 DEF LInv, Ready
<1>5. SaltAfter(files[p]) \in Salts \cup {NoSalt}
  BY <1>3, <1>4 DEF SaltAfter, TypeOK, IsContent
<1>6. /\ path' = path \/ path' = p
      /\ last' = last \/ last' = Remembered(u)
      /\ mem' = mem \/ mem' = {}
      /\ salt' \in {salt, SaltAfter(files[p])}
  BY <1>2 DEF LoginFails
<1>7. /\ path' \in Paths /\ (~scoped => path' = NoUser) /\ last' \in Paths
      /\ salt' \in Salts \cup {NoSalt} /\ mem' \in SUBSET Items
      /\ OneOfAKind(mem')
  BY <1>3, <1>5, <1>6, Memory DEF OneOfAKind
<1>8. TypeOK'
  BY <1>1, <1>4, <1>7 DEF TypeOK, OneOfAKind, IsContent, Paths
<1>9. AllWritten'
  <2>1. \A x \in Paths : Written(x, files[x])
    BY <1>4 DEF AllWritten
  <2>2. \A x \in Paths : \A y : Written(x, y) => Written(x, y)'
    BY <1>1, WrittenStill DEF config
  <2> QED
    BY <1>1, <1>4, <2>1, <2>2 DEF AllWritten
<1>10. Opened'
  BY <1>1, <1>4, <1>7 DEF Opened
<1>11. signedIn' # NoUser => mishaps' # {}
  BY <1>1
<1>12. CurrentSoon' /\ Own'
  BY <1>11 DEF CurrentSoon, Own
<1>13. KeysKept'
  BY <1>1, <1>4 DEF KeysKept, HasKeys, Home, MadeKeys
<1> QED
  BY <1>8, <1>9, <1>10, <1>12, <1>13 DEF LInv

\* The file gets its contents.
LEMMA WriteStep ==
  ASSUME LInv, Write
  PROVE  LInv'
<1>1. PICK w \in writing :
        /\ files' = [files EXCEPT ![w.path] = w.image]
        /\ made' = [u \in Users |->
                      IF \/ made[u] # 0 \/ mishaps # {}
                         \/ KeysIn(w.image, u) = {}
                      THEN made[u]
                      ELSE CHOOSE n \in KeysIn(w.image, u) : TRUE]
  BY DEF Write
<1>2. /\ running /\ writing' = {}
      /\ UNCHANGED <<scoped, protected, running, last, path, passphrase, salt,
                     mem, signedIn, mishaps, behind>>
  BY DEF Write, config, store
<1>3. /\ TypeOK /\ AllWritten /\ Opened /\ CurrentSoon /\ Own /\ KeysKept
      /\ w.path = path /\ writing = {w} /\ ~behind /\ path \in Paths
      /\ (~scoped => path = NoUser)
  BY Memory DEF LInv, Opened
<1>4. PICK c : c = w.image
  OBVIOUS
<1>5. IsContent(c) /\ Written(path, c)
  BY <1>3, <1>4 DEF AllWritten, TypeOK
<1>6. \A p \in Paths : files'[p] = IF p = path THEN c ELSE files[p]
  BY <1>1, <1>3, <1>4 DEF TypeOK
<1>7. ASSUME NEW u \in Users, made'[u] # made[u]
      PROVE  /\ mishaps = {} /\ made[u] = 0 /\ made'[u] \in 1 .. MaxValues
             /\ MadeKeys(u)' \in Decoded(c)
  <2>1. PICK n : n = made'[u]
    OBVIOUS
  <2>2. mishaps = {} /\ made[u] = 0 /\ n \in KeysIn(c, u)
    BY <1>1, <1>4, <1>7, <2>1
  <2>3. PICK j \in c.items :
          j.kind = "device" /\ FromJson(j).value = [of |-> u, n |-> n]
    BY <2>2 DEF KeysIn
  <2>4. FromJson(j) = [kind |-> "device", value |-> [of |-> u, n |-> n]]
    BY <2>3 DEF FromJson
  <2>5. MadeKeys(u)' = [kind |-> "device", value |-> [of |-> u, n |-> n]]
    BY <2>1 DEF MadeKeys
  <2>6. n \in 1 .. MaxValues
    BY <2>2 DEF KeysIn
  <2> QED
    BY <2>1, <2>2, <2>3, <2>4, <2>5, <2>6 DEF Decoded
<1>8. \A u \in Users : made'[u] = made[u] => MadeKeys(u)' = MadeKeys(u)
  BY DEF MadeKeys
<1>9. ASSUME NEW u \in Users, made'[u] # made[u], protected
      PROVE  Home(u) = path /\ FileOpens(c, u)
  <2>1. PICK i : i = MadeKeys(u)'
    OBVIOUS
  <2>2. i \in Decoded(c) /\ mishaps = {} /\ i.kind = "device" /\ i.value.of = u
    BY <1>7, <1>9, <2>1 DEF MadeKeys
  <2>3. c # NoFile
    BY <2>2, Empty
  <2>4. PICK x \in Paths, s \in Salts \cup {NoSalt} :
          SavedFor(path, c, Decoded(c), x, s)
    BY <1>5, <2>3 DEF Written
  <2>5. PICK m : m = Decoded(c)
    OBVIOUS
  <2>6. /\ c = Image(m, x, s) /\ m \in SUBSET Items /\ x \in Users /\ s \in Salts
        /\ Owned(m, x) /\ (scoped => x = path)
    BY <1>9, <2>2, <2>4, <2>5 DEF SavedFor
  <2>7. x = u
    BY <2>2, <2>5, <2>6, MadeKeysSecret DEF Owned
  <2>8. FileOpens(c, x)
    BY <2>6, SavedLoads
  <2> QED
    BY <1>3, <2>6, <2>7, <2>8 DEF Home
<1>10. TypeOK'
  <2>1. \A u \in Users : made'[u] \in 0 .. MaxValues
    <3> SUFFICES ASSUME NEW u \in Users
                 PROVE  made'[u] \in 0 .. MaxValues
      OBVIOUS
    <3>1. CASE made'[u] = made[u]
      BY <1>3, <3>1 DEF TypeOK
    <3>2. CASE made'[u] # made[u]
      BY <1>7, <3>2, StoreAssumption
    <3> QED
      BY <3>1, <3>2
  <2>2. made' \in [Users -> 0 .. MaxValues]
    <3>1. made' = [u \in Users |-> made'[u]]
      BY <1>1
    <3> QED
      BY <2>1, <3>1
  <2>3. DOMAIN files' = Paths /\ \A p \in Paths : IsContent(files'[p])
    BY <1>1, <1>3, <1>5, <1>6 DEF TypeOK
  <2> QED
    BY <1>2, <1>3, <2>2, <2>3 DEF TypeOK, IsContent
<1>11. AllWritten'
  <2>1. \A x \in Paths : Written(x, files'[x])
    BY <1>3, <1>5, <1>6 DEF AllWritten
  <2>2. \A x \in Paths : \A y : Written(x, y) => Written(x, y)'
    BY <1>2, WrittenStill DEF config
  <2> QED
    BY <1>2, <2>1, <2>2 DEF AllWritten
<1>12. Opened'
  BY <1>2, <1>3 DEF Opened
<1>13. CurrentSoon'
  <2>1. files'[path] = c
    BY <1>3, <1>6
  <2> QED
    BY <1>2, <1>3, <1>4, <2>1 DEF CurrentSoon, Current
<1>14. Own'
  <2>1. \A x \in Users : Home(x)' = Home(x)
    BY <1>2 DEF Home
  <2> SUFFICES ASSUME protected, mishaps = {}, signedIn # NoUser,
                      NEW u \in Users, made'[u] # 0, Home(u) = path
               PROVE  u = signedIn /\ MadeKeys(u)' \in mem
    BY <1>2, <1>3, <2>1 DEF Own, Owned, Home
  <2>2. CASE made'[u] = made[u]
    BY <1>3, <1>8, <2>2 DEF Own
  <2>3. CASE made'[u] # made[u]
    <3>1. PICK i : i = MadeKeys(u)'
      OBVIOUS
    <3>2. i \in Decoded(c) /\ i.kind = "device" /\ i.value.of = u
      BY <1>7, <2>3, <3>1 DEF MadeKeys
    <3>3. passphrase = signedIn /\ Owned(mem, signedIn) /\ Loaded(c, passphrase) = mem
      BY <1>3, <1>4 DEF Own, CurrentSoon, Current
    <3>4. Decoded(c) = mem
      BY <3>3 DEF Loaded, Skipped
    <3> QED
      BY <3>1, <3>2, <3>3, <3>4, MadeKeysSecret DEF Owned
  <2> QED
    BY <2>2, <2>3
<1>15. KeysKept'
  <2>1. \A x \in Users : Home(x)' = Home(x) /\ Home(x) \in Paths
    BY <1>2 DEF Home, Paths
  <2> SUFFICES ASSUME protected, mishaps = {}, NEW u \in Users, made'[u] # 0
               PROVE  FileOpens(files'[Home(u)], u)
                        /\ MadeKeys(u)' \in Decoded(files'[Home(u)])
    BY <1>2, <2>1 DEF KeysKept, HasKeys
  <2>2. CASE made'[u] = made[u]
    <3>1. HasKeys(files'[Home(u)], u)
      BY <1>3, <1>4, <1>6, <2>1, <2>2 DEF KeysKept
    <3> QED
      BY <1>8, <2>2, <3>1 DEF HasKeys
  <2>3. CASE made'[u] # made[u]
    BY <1>6, <1>7, <1>9, <2>1, <2>3
  <2> QED
    BY <2>2, <2>3
<1> QED
  BY <1>10, <1>11, <1>12, <1>13, <1>14, <1>15 DEF LInv

\* A write that is lost, and a client that stops.
LEMMA LossStep ==
  ASSUME LInv, WriteIsLost \/ Stop
  PROVE  LInv'
<1>1. /\ UNCHANGED <<scoped, protected, files, last, made>> /\ writing' = {}
      /\ mishaps \subseteq mishaps'
      /\ mishaps' \subseteq mishaps \cup {"crash", "lostWrite"}
      /\ mishaps' = {} => writing = {}
  BY DEF WriteIsLost, Stop, config
<1>2. /\ \/ UNCHANGED <<running, path, passphrase, salt, mem, signedIn, behind>>
            /\ mishaps' # {}
         \/ /\ running' = FALSE /\ behind' = FALSE /\ path' = NoUser
            /\ passphrase' = NoUser /\ salt' = NoSalt /\ mem' = {}
            /\ signedIn' = NoUser
  BY DEF WriteIsLost, Stop, store
<1>3. TypeOK /\ AllWritten /\ Opened /\ KeysKept
  BY DEF LInv
<1>4. TypeOK'
  BY <1>1, <1>2, <1>3 DEF TypeOK, IsContent, Paths
<1>5. AllWritten'
  <2>1. \A x \in Paths : Written(x, files[x])
    BY <1>3 DEF AllWritten
  <2>2. \A x \in Paths : \A y : Written(x, y) => Written(x, y)'
    BY <1>1, WrittenStill DEF config
  <2> QED
    BY <1>1, <2>1, <2>2 DEF AllWritten
<1>6. Opened' /\ CurrentSoon' /\ Own'
  BY <1>1, <1>2, <1>3 DEF Opened, CurrentSoon, Own
<1>7. KeysKept'
  BY <1>1, <1>3 DEF KeysKept, HasKeys, Home, MadeKeys
<1> QED
  BY <1>4, <1>5, <1>6, <1>7 DEF LInv

\* A step that changes nothing.
LEMMA StutterStep ==
  ASSUME LInv, UNCHANGED vars
  PROVE  LInv'
<1>1. /\ UNCHANGED <<scoped, protected, running, files, last, path, passphrase>>
      /\ UNCHANGED <<salt, mem, signedIn, writing, made, mishaps, behind>>
  BY DEF vars
<1>2. TypeOK' /\ Opened'
  BY <1>1 DEF LInv, TypeOK, IsContent, Opened
<1>3. AllWritten'
  <2>1. \A x : \A y : Written(x, y) => Written(x, y)'
    BY <1>1, WrittenStill DEF config
  <2> QED
    BY <1>1, <2>1 DEF LInv, AllWritten
<1>4. CurrentSoon'
  BY <1>1 DEF LInv, CurrentSoon, Current
<1>5. Own'
  BY <1>1 DEF LInv, Own, Owned, Home, MadeKeys
<1>6. KeysKept'
  BY <1>1 DEF LInv, KeysKept, HasKeys, Home, MadeKeys
<1> QED
  BY <1>2, <1>3, <1>4, <1>5, <1>6 DEF LInv

-----------------------------------------------------------------------------
(* The theorems *)

\* A client that was never started, without files.
LEMMA Fresh == Init => LInv
<1> SUFFICES ASSUME Init
             PROVE  LInv
  OBVIOUS
<1>1. TypeOK
  <2>1. DOMAIN files = Paths /\ \A p \in Paths : files[p] = NoFile
    BY DEF Init
  <2>2. made \in [Users -> 0 .. MaxValues]
    BY StoreAssumption DEF Init
  <2>3. scoped \in BOOLEAN
    BY DEF Init
  <2> QED
    BY <2>1, <2>2, <2>3, Empty DEF Init, TypeOK, Paths
<1>2. AllWritten
  BY DEF Init, AllWritten, Written
<1>3. Opened /\ CurrentSoon /\ Own /\ KeysKept
  BY DEF Init, Opened, CurrentSoon, Own, KeysKept
<1> QED
  BY <1>1, <1>2, <1>3 DEF LInv

\* Every step of the store's specification keeps the inductive invariant.
LEMMA NextStep ==
  ASSUME LInv, [Next]_vars
  PROVE  LInv'
<1>1. ASSUME NEW u \in Users, LoginFails(u) \/ LoginSucceeds(u)
      PROVE  LInv'
  BY <1>1, LoginFailsStep, LoginSucceedsStep
<1> QED
  BY <1>1, StartStep, LogoutStep, SaveSteps, WriteStep, LossStep, StutterStep
     DEF Next

\* The inductive invariant holds of every state of the client and its disk.
THEOREM StoreInvariance == Spec => []LInv
<1>1. Init => LInv
  BY Fresh
<1>2. LInv /\ [Next]_vars => LInv'
  BY NextStep
<1> QED
  BY <1>1, <1>2, PTL DEF Spec

\* The files, memory and the histories are of their types: what is loaded again
\* after any failure is a state file that save can have written.
THEOREM StoreTypes == Spec => []TypeOK
<1>1. LInv => TypeOK
  BY DEF LInv
<1> QED
  BY <1>1, StoreInvariance, PTL

\* After an operation that saved without a failure, the file has what memory has,
\* and the password of the account that is signed in opens it.
THEOREM DiskKeepsUp == Spec => []DiskCurrent
<1>1. LInv => DiskCurrent
  BY DEF LInv, CurrentSoon, Current, DiskCurrent, Ready
<1> QED
  BY <1>1, StoreInvariance, PTL

\* In real mode, no secret is on disk in the clear, whatever goes wrong, and each
\* is sealed for its own account unless something did.
THEOREM SecretsStaySealed == Spec => []SecretsSealed
<1>1. LInv => SecretsSealed
  <2> SUFFICES ASSUME LInv, protected, NEW p \in Paths,
                      NEW j \in files[p].items, NEW f \in SecretFields[j.kind]
               PROVE  /\ j.fields[f].key # NoKey
                      /\ mishaps = {} =>
                           j.fields[f].key.of = j.fields[f].plain.of
    BY DEF SecretsSealed
  <2>1. PICK c : c = files[p]
    OBVIOUS
  <2>2. Written(p, c) /\ c # NoFile
    BY <2>1 DEF LInv, AllWritten, NoFile
  <2>3. PICK u \in Paths, s \in Salts \cup {NoSalt} :
          SavedFor(p, c, Decoded(c), u, s)
    BY <2>2 DEF Written
  <2>4. PICK m : m = Decoded(c)
    OBVIOUS
  <2>5. /\ c = Image(m, u, s) /\ m \in SUBSET Items /\ u \in Users
        /\ mishaps = {} => Owned(m, u)
    BY <2>3, <2>4 DEF SavedFor
  <2>6. PICK k : k = Key(u, s)
    OBVIOUS
  <2>7. PICK i \in m : j = ToJson(i, k)
    BY <2>1, <2>5, <2>6 DEF Image
  <2>8. k # NoKey /\ k = [of |-> u, salt |-> s]
    BY <2>5, <2>6, Keys
  <2>9. i \in Items /\ j.kind = i.kind /\ f \in SecretFields[i.kind]
        /\ f \in Fields(i.kind)
    <3>1. i \in Items /\ j.kind = i.kind
      BY <2>5, <2>7, JsonFields
    <3> QED
      BY <3>1 DEF Fields
  <2>10. j.fields[f] = Seal(i.value, f, k)
    BY <2>7, <2>8, <2>9, JsonFields
  <2>11. j.fields[f].key = k /\ j.fields[f].plain = i.value
    BY <2>10 DEF Seal
  <2>12. mishaps = {} => i.value.of = u
    BY <2>5, <2>7, <2>9 DEF Owned
  <2> QED
    BY <2>8, <2>11, <2>12
<1> QED
  BY <1>1, StoreInvariance, PTL

\* In real mode, the client works with the secrets of the account that is signed
\* in, and in a file of its own with its items only.
THEOREM OwnItems == Spec => []OwnItemsOnly
<1>1. LInv => OwnItemsOnly
  BY DEF LInv, Own, OwnItemsOnly
<1> QED
  BY <1>1, StoreInvariance, PTL

\* An account's device keys stay in its file, and its password opens it, through
\* logins, logouts, failed saves, restarts, and any number of accounts.
THEOREM KeysSurviveAllLogins == Spec => []KeysSurviveLogins
<1>1. LInv => KeysSurviveLogins
  BY DEF LInv, KeysKept, KeysSurviveLogins, KeysSurvive
<1> QED
  BY <1>1, StoreInvariance, PTL

=============================================================================
