------------------------- MODULE TrustOnFirstUseProofs -------------------------
(***************************************************************************)
(* Proofs about NativeCrypto and TrustOnFirstUse: what is sealed for one   *)
(* material opens with it and with no other, and the safety properties of  *)
(* TrustOnFirstUse, from an inductive invariant about what the callbacks   *)
(* of a command have captured.                                             *)
(***************************************************************************)
EXTENDS TrustOnFirstUse, FiniteSetTheorems, TLAPS

-----------------------------------------------------------------------------
(* What is sealed opens *)

\* What encrypt seals for the bundle of material b, decrypt opens with b
\* (encrypt, decrypt).
THEOREM SealedOpens ==
  ASSUME NEW a, NEW b, NEW n, NEW t, t # NoText
  PROVE  Decrypt(Material(b), Encrypt(Material(a), BundleOf(Material(b)), n, t),
                 NoValue, NoValue) = t
<1>1. Dh(Material(a).identity, BundleOf(Material(b)).signedPreKey)
        = Dh(Material(b).signedPreKey, Material(a).identity)
  BY DEF Dh, Material, BundleOf
<1>2. Dh(KeyPair("ephemeral", n), BundleOf(Material(b)).identity)
        = Dh(Material(b).identity, KeyPair("ephemeral", n))
  BY DEF Dh, Material, BundleOf
<1>3. Dh(KeyPair("ephemeral", n), BundleOf(Material(b)).signedPreKey)
        = Dh(Material(b).signedPreKey, KeyPair("ephemeral", n))
  BY DEF Dh, Material, BundleOf
<1>4. Dh(KeyPair("ratchet", n), BundleOf(Material(b)).signedPreKey)
        = Dh(Material(b).signedPreKey, KeyPair("ratchet", n))
  BY DEF Dh, Material, BundleOf
<1> QED
  BY <1>1, <1>2, <1>3, <1>4
     DEF Decrypt, Encrypt, Secrets, Opened, Seal, MessageKey, KdfX3dh
  
\* And with no other material: the ratchet secret differs.
THEOREM SealedForOne ==
  ASSUME NEW a, NEW b, NEW k, NEW n, NEW t, t # NoText, k # b
  PROVE  Decrypt(Material(k), Encrypt(Material(a), BundleOf(Material(b)), n, t),
                 NoValue, NoValue) = NoText
<1> DEFINE wire == Encrypt(Material(a), BundleOf(Material(b)), n, t)
<1> DEFINE key == MessageKey(KdfX3dh(Secrets(Material(k), wire)),
                             Material(k).signedPreKey, wire.ratchet)
<1>1. wire.ratchet = KeyPair("ratchet", n)
  BY DEF Encrypt
<1>2. Material(k).signedPreKey = KeyPair("signedPreKey", k)
      /\ BundleOf(Material(b)).signedPreKey = KeyPair("signedPreKey", b)
  BY DEF Material, BundleOf
<1>3. wire.sealed.key.ratchet
        = Dh(KeyPair("ratchet", n), KeyPair("signedPreKey", b))
  BY <1>2 DEF Encrypt, Seal, MessageKey
<1>4. key.ratchet = Dh(KeyPair("signedPreKey", k), KeyPair("ratchet", n))
  BY <1>1, <1>2 DEF MessageKey
<1>5. Dh(KeyPair("signedPreKey", k), KeyPair("ratchet", n))
        # Dh(KeyPair("ratchet", n), KeyPair("signedPreKey", b))
  <2>1. KeyPair("signedPreKey", k).of # KeyPair("signedPreKey", b).of
    BY DEF KeyPair
  <2>2. KeyPair("signedPreKey", k).use # KeyPair("ratchet", n).use
    BY DEF KeyPair
  <2>3. KeyPair("signedPreKey", k) # KeyPair("signedPreKey", b)
        /\ KeyPair("signedPreKey", k) # KeyPair("ratchet", n)
    BY <2>1, <2>2
  <2> QED BY <2>3 DEF Dh
<1>6. wire.sealed.key # key
  BY <1>3, <1>4, <1>5
<1>7. Decrypt(Material(k), wire, NoValue, NoValue)
        = Opened(wire.sealed, key,
                 Aad(wire.counter, wire.previous, wire.ratchet))
  <2>1. NoValue = NoValue /\ ~(NoValue # NoValue /\ NoValue = NoValue)
    OBVIOUS
  <2> HIDE DEF wire
  <2> QED BY <2>1, Zenon DEF Decrypt, key
<1> HIDE DEF key, wire
<1>8. Opened(wire.sealed, key, Aad(wire.counter, wire.previous, wire.ratchet))
        = NoText
  BY <1>6 DEF Opened
<1> QED
  BY <1>7, <1>8 DEF wire

\* Secrets with and without a one-time prekey's are told apart.
LEMMA ThreeAreNotFour ==
  ASSUME NEW a, NEW b, NEW c, NEW e, NEW f, NEW g, NEW h
  PROVE  <<a, b, c>> # <<e, f, g, h>>
<1>1. DOMAIN <<a, b, c>> = 1..3 /\ DOMAIN <<e, f, g, h>> = 1..4
  OBVIOUS
<1>2. 4 \in 1..4 /\ 4 \notin 1..3
  OBVIOUS
<1> QED BY <1>1, <1>2

\* A message that names a consumed one-time prekey opens with no material,
\* whether its private half is found or not: encrypt uses none (decrypt).
THEOREM ConsumedNeverOpens ==
  ASSUME NEW a, NEW b, NEW k, NEW n, NEW t, NEW id, NEW one,
         t # NoText, id # NoValue
  PROVE  Decrypt(Material(k), Encrypt(Material(a), BundleOf(Material(b)), n, t),
                 id, one) = NoText
<1> DEFINE wire == Encrypt(Material(a), BundleOf(Material(b)), n, t)
           three == Secrets(Material(k), wire)
           four == <<three[1], three[2], three[3], Dh(one, wire.ephemeral)>>
           key == MessageKey(KdfX3dh(four), Material(k).signedPreKey,
                             wire.ratchet)
           sent == <<Dh(Material(a).identity, BundleOf(Material(b)).signedPreKey),
                     Dh(KeyPair("ephemeral", n), BundleOf(Material(b)).identity),
                     Dh(KeyPair("ephemeral", n),
                        BundleOf(Material(b)).signedPreKey)>>
<1>1. wire.sealed.key.root.x3dh = sent
  BY DEF Encrypt, Seal, MessageKey, KdfX3dh
<1>2. key.root.x3dh = four
  BY DEF MessageKey, KdfX3dh
<1>3. sent # four
  BY ThreeAreNotFour
<1>4. wire.sealed.key # key
  BY <1>1, <1>2, <1>3
<1> HIDE DEF wire, sent
<1>5. Decrypt(Material(k), wire, id, one)
        \in {NoText, Opened(wire.sealed, key,
                            Aad(wire.counter, wire.previous, wire.ratchet))}
  BY DEF Decrypt
<1> HIDE DEF key
<1>6. Opened(wire.sealed, key, Aad(wire.counter, wire.previous, wire.ratchet))
        = NoText
  BY <1>4 DEF Opened
<1> QED BY <1>5, <1>6 DEF wire

-----------------------------------------------------------------------------
(* The inductive invariant *)

\* What the keys, pins and messages say is kept by steps that leave them alone.
LEMMA Quiet ==
  ASSUME IInv,
         UNCHANGED <<device, offered, me, file, store, cached, posts, copies,
                     elsewhere>>
  PROVE  /\ SignedInHasKeys' /\ CachedPinned' /\ Sealed' /\ PublishedStored'
<1> USE DEF IInv, store
<1>1. SignedInHasKeys'
  BY DEF SignedInHasKeys
<1>2. CachedPinned'
  BY DEF CachedPinned, PinnedFor
<1>3. Sealed'
  BY DEF Sealed, PinnedFor
<1>4. PublishedStored'
  BY DEF PublishedStored
<1> QED BY <1>1, <1>2, <1>3, <1>4

\* The chain of every slot fits.
LEMMA CapturedFits == Captured <=> \A s \in Slots : Fits(call[s])
BY DEF Captured, Fits

\* A chain goes on fitting when keys and pins are only added to and the file
\* stays.
LEMMA FitsKept ==
  ASSUME TypeOK, NEW c \in Calls, Fits(c), file' = file,
         \A u \in Users : keys[u] # 0 => keys'[u] = keys[u],
         \A u \in Users : preKeys[u] # 0 => preKeys'[u] = preKeys[u],
         \A u, p \in Users : pins[u][p] # 0 => pins'[u][p] = pins[u][p]
  PROVE  Fits(c)'
BY DEF Fits, PinnedFor, TypeOK, Calls, UserOrNone

\* What one slot's step does to the chains.
LEMMA OneSlot ==
  ASSUME TypeOK, Captured, NEW s \in Slots, NEW c \in Calls,
         call' = [call EXCEPT ![s] = c], Fits(c)', file' = file,
         \A u \in Users : keys[u] # 0 => keys'[u] = keys[u],
         \A u \in Users : preKeys[u] # 0 => preKeys'[u] = preKeys[u],
         \A u, p \in Users : pins[u][p] # 0 => pins'[u][p] = pins[u][p]
  PROVE  Captured' /\ call' \in [Slots -> Calls]
<1>1. call \in [Slots -> Calls]
  BY DEF TypeOK
<1>2. call' \in [Slots -> Calls] /\ call'[s] = c
      /\ \A t \in Slots \ {s} : call'[t] = call[t]
  BY <1>1
<1>3. ASSUME NEW t \in Slots PROVE Fits(call[t])'
  <2>1. CASE t = s
    BY <2>1, <1>2 DEF Fits
  <2>2. CASE t # s
    <3>1. Fits(call[t]) /\ call[t] \in Calls
      BY CapturedFits, <1>1
    <3>2. PICK d \in Calls : d = call[t]
      BY <3>1
    <3>3. Fits(d)'
      BY <3>1, <3>2, FitsKept
    <3> QED BY <3>2, <3>3, <1>2, <2>2 DEF Fits
  <2> QED BY <2>1, <2>2
<1> QED BY <1>2, <1>3 DEF Captured, Fits

\* The empty chain fits.
LEMMA IdleFits == Idle \in Calls /\ Fits(Idle) /\ Fits(Idle)'
BY TrustAssumption DEF Idle, Calls, Fits, UserOrNone, SerialOrNone

\* The steps that only move the chain of a slot.
LEMMA ChainStep ==
  ASSUME IInv, NEW s \in Slots, NEW c \in Calls,
         call' = [call EXCEPT ![s] = c], Fits(c)',
         UNCHANGED <<device, offered, me, file, store, cached, made, posts,
                     copies, elsewhere>>,
         told' \subseteq Users \X Users
  PROVE  IInv'
<1> USE DEF IInv, store
<1>1. Captured' /\ call' \in [Slots -> Calls]
  BY OneSlot
<1>2. TypeOK'
  BY <1>1 DEF TypeOK
<1>3. SignedInHasKeys' /\ CachedPinned' /\ Sealed' /\ PublishedStored'
  BY Quiet
<1> QED BY <1>1, <1>2, <1>3

\* A failed command leaves the rest as it was.
LEMMA FailsStep ==
  ASSUME IInv, NEW s \in Slots, Fails(s)
  PROVE  IInv'
<1> USE DEF IInv, server, store, history
<1>1. call' = [call EXCEPT ![s] = Idle]
  BY DEF Fails, Done
<1>2. told' \subseteq Users \X Users
  BY CapturedFits DEF Fails, TypeOK, Fits, Received, Fetched
<1> QED
  BY <1>1, <1>2, IdleFits, ChainStep DEF Fails

\* So does the answer to the one-time prekeys,
LEMMA ReceiveBatchStep ==
  ASSUME IInv, NEW s \in Slots, ReceiveBatch(s)
  PROVE  IInv'
<1> USE DEF IInv, server, store, history
<1>1. call' = [call EXCEPT ![s] = Idle]
  BY DEF ReceiveBatch, Done
<1>2. told' \subseteq Users \X Users
  BY CapturedFits DEF ReceiveBatch, TypeOK, Fits, Received, Fetched
<1> QED
  BY <1>1, <1>2, IdleFits, ChainStep DEF ReceiveBatch

\* a mismatch,
LEMMA MismatchStep ==
  ASSUME IInv, NEW s \in Slots, Mismatch(s)
  PROVE  IInv'
<1> USE DEF IInv, server, store, history
<1>1. call' = [call EXCEPT ![s] = Idle]
  BY DEF Mismatch, Done
<1>2. told' \subseteq Users \X Users
  BY CapturedFits DEF Mismatch, TypeOK, Fits, Received, Fetched
<1> QED
  BY <1>1, <1>2, IdleFits, ChainStep DEF Mismatch

\* a bundle that is answered: it is not empty,
LEMMA ServeBundleStep ==
  ASSUME IInv, NEW s \in Slots, ServeBundle(s)
  PROVE  IInv'
<1> DEFINE Answered ==
      [call[s] EXCEPT !.answered = TRUE, !.bundle = device[call[s].user]]
<1>1. call \in [Slots -> Calls] /\ call[s] \in Calls /\ Fits(call[s])
  BY CapturedFits DEF IInv, TypeOK
<1>2. PICK c \in Calls : c = Answered
  <2>1. device[call[s].user] \in SerialOrNone
    BY <1>1, TrustAssumption
       DEF IInv, TypeOK, Calls, Fits, UserOrNone, SerialOrNone, Bundles,
           ServeBundle, Serving, HasCached
  <2>2. Answered \in Calls
    BY <1>1, <2>1, TrustAssumption DEF Calls, SerialOrNone, UserOrNone, Chain
  <2> QED BY <2>2
<1>3. call' = [call EXCEPT ![s] = c]
  BY <1>2 DEF ServeBundle, Begin, Serving
<1>4. Fits(c)'
  BY <1>1, <1>2, TrustAssumption
     DEF IInv, Fits, Calls, TypeOK, PinnedFor, SignedInHasKeys, CachedPinned,
         HasCached, Begin, Chain, Serving, NoBundle, UserOrNone, ServeBundle,
         server, store
<1>5. UNCHANGED <<device, offered, me, file, store, cached, made, posts,
                     copies, elsewhere>>
  BY DEF ServeBundle, Begin, server, store, history
<1>6. told' \subseteq Users \X Users
  BY DEF ServeBundle, Begin, history, IInv, TypeOK
<1> QED
  BY <1>3, <1>4, <1>5, <1>6, ChainStep

\* and the first requests: what they capture fits.
LEMMA FetchToTrustStep ==
  ASSUME IInv, NEW s \in Slots, NEW p \in Users, FetchToTrust(s, p)
  PROVE  IInv'
<1>1. call \in [Slots -> Calls] /\ call[s] \in Calls /\ Fits(call[s])
  BY CapturedFits DEF IInv, TypeOK
<1>2. PICK c \in Calls : c = Chain("trust", "bundle", me, p, 0, 0, 0)
  <2>1. me \in UserOrNone
    BY <1>1, TrustAssumption
       DEF IInv, TypeOK, Calls, Fits, UserOrNone, SerialOrNone, Bundles,
           FetchToTrust, Serving, HasCached
  <2>2. Chain("trust", "bundle", me, p, 0, 0, 0) \in Calls
    BY <1>1, <2>1, TrustAssumption DEF Calls, SerialOrNone, UserOrNone, Chain
  <2> QED BY <2>2
<1>3. call' = [call EXCEPT ![s] = c]
  BY <1>2 DEF FetchToTrust, Begin, Serving
<1>4. Fits(c)'
  BY <1>1, <1>2, TrustAssumption
     DEF IInv, Fits, Calls, TypeOK, PinnedFor, SignedInHasKeys, CachedPinned,
         HasCached, Begin, Chain, Serving, NoBundle, UserOrNone, FetchToTrust,
         server, store
<1>5. UNCHANGED <<device, offered, me, file, store, cached, made, posts,
                     copies, elsewhere>>
  BY DEF FetchToTrust, Begin, server, store, history
<1>6. told' \subseteq Users \X Users
  BY DEF FetchToTrust, Begin, history, IInv, TypeOK
<1> QED
  BY <1>3, <1>4, <1>5, <1>6, ChainStep

\* The pin that is captured is one of the file.
LEMMA FetchToSendStep ==
  ASSUME IInv, NEW s \in Slots, NEW p \in Users, FetchToSend(s, p)
  PROVE  IInv'
<1>1. call \in [Slots -> Calls] /\ call[s] \in Calls /\ Fits(call[s])
  BY CapturedFits DEF IInv, TypeOK
<1>2. PICK c \in Calls :
        c = Chain("send", "bundle", me, p, keys[file], pins[file][p], 0)
  <2>1. /\ me \in UserOrNone
        /\ keys[file] \in SerialOrNone
        /\ pins[file][p] \in SerialOrNone
    BY <1>1, TrustAssumption
       DEF IInv, TypeOK, Calls, Fits, UserOrNone, SerialOrNone, Bundles,
           FetchToSend, Serving, HasCached
  <2>2. Chain("send", "bundle", me, p, keys[file], pins[file][p], 0) \in Calls
    BY <1>1, <2>1, TrustAssumption DEF Calls, SerialOrNone, UserOrNone, Chain
  <2> QED BY <2>2
<1>3. call' = [call EXCEPT ![s] = c]
  BY <1>2 DEF FetchToSend, Begin, Serving
<1>4. Fits(c)'
  BY <1>1, <1>2, TrustAssumption
     DEF IInv, Fits, Calls, TypeOK, PinnedFor, SignedInHasKeys, CachedPinned,
         HasCached, Begin, Chain, Serving, NoBundle, UserOrNone, FetchToSend,
         server, store
<1>5. UNCHANGED <<device, offered, me, file, store, cached, made, posts,
                     copies, elsewhere>>
  BY DEF FetchToSend, Begin, server, store, history
<1>6. told' \subseteq Users \X Users
  BY DEF FetchToSend, Begin, history, IInv, TypeOK
<1> QED
  BY <1>3, <1>4, <1>5, <1>6, ChainStep

\* The bundle that is kept is pinned.
LEMMA SealCachedStep ==
  ASSUME IInv, NEW s \in Slots, NEW p \in Users, SealCached(s, p)
  PROVE  IInv'
<1>1. call \in [Slots -> Calls] /\ call[s] \in Calls /\ Fits(call[s])
  BY CapturedFits DEF IInv, TypeOK
<1>2. PICK c \in Calls :
        c = Chain("send", "post", me, p, keys[file], 0, cached.material)
  <2>1. /\ me \in UserOrNone
        /\ keys[file] \in SerialOrNone
        /\ cached.material \in SerialOrNone
    BY <1>1, TrustAssumption
       DEF IInv, TypeOK, Calls, Fits, UserOrNone, SerialOrNone, Bundles,
           SealCached, Serving, HasCached
  <2>2. Chain("send", "post", me, p, keys[file], 0, cached.material) \in Calls
    BY <1>1, <2>1, TrustAssumption DEF Calls, SerialOrNone, UserOrNone, Chain
  <2> QED BY <2>2
<1>3. call' = [call EXCEPT ![s] = c]
  BY <1>2 DEF SealCached, Begin, Serving
<1>4. Fits(c)'
  BY <1>1, <1>2, TrustAssumption
     DEF IInv, Fits, Calls, TypeOK, PinnedFor, SignedInHasKeys, CachedPinned,
         HasCached, Begin, Chain, Serving, NoBundle, UserOrNone, SealCached,
         server, store
<1>5. UNCHANGED <<device, offered, me, file, store, cached, made, posts,
                     copies, elsewhere>>
  BY DEF SealCached, Begin, server, store, history
<1>6. told' \subseteq Users \X Users
  BY DEF SealCached, Begin, history, IInv, TypeOK
<1> QED
  BY <1>3, <1>4, <1>5, <1>6, ChainStep

\* The device row gets the material that is in the file.
LEMMA ServeDeviceStep ==
  ASSUME IInv, NEW s \in Slots, ServeDevice(s)
  PROVE  IInv'
<1>1. /\ call \in [Slots -> Calls] /\ call[s] \in Calls /\ Fits(call[s])
      /\ call[s].access \in Users
  BY CapturedFits DEF IInv, TypeOK, ServeDevice, Serving, Calls, UserOrNone
<1>2. PICK c \in Calls : c = [call[s] EXCEPT !.answered = TRUE]
  BY <1>1 DEF Calls
<1>3. call' = [call EXCEPT ![s] = c]
  BY <1>2 DEF ServeDevice
<1>4. UNCHANGED <<file, store>> /\ Fits(c)'
  BY <1>1, <1>2 DEF Fits, Calls, PinnedFor, ServeDevice, Serving, store
<1>5. Captured' /\ call' \in [Slots -> Calls]
  BY <1>3, <1>4, OneSlot DEF IInv, store
<1>6. /\ device' \in [Users -> SerialOrNone]
      /\ \A u \in Users : device'[u] \in {device[u], keys[u]}
  BY <1>1 DEF ServeDevice, Serving, IInv, TypeOK, Fits
<1>7. TypeOK'
  BY <1>5, <1>6 DEF IInv, TypeOK, ServeDevice, store, history
<1>8. SignedInHasKeys' /\ CachedPinned' /\ Sealed'
  BY
     DEF IInv, SignedInHasKeys, CachedPinned, Sealed, PinnedFor, ServeDevice,
         store
<1>9. PublishedStored'
  BY <1>6 DEF IInv, PublishedStored, ServeDevice, store, history
<1> QED BY <1>5, <1>7, <1>8, <1>9 DEF IInv

\* What is offered is in the file.
LEMMA ServeBatchStep ==
  ASSUME IInv, NEW s \in Slots, ServeBatch(s)
  PROVE  IInv'
<1>1. /\ call \in [Slots -> Calls] /\ call[s] \in Calls /\ Fits(call[s])
      /\ call[s].access \in Users
  BY CapturedFits DEF IInv, TypeOK, ServeBatch, Serving, Calls, UserOrNone
<1>2. PICK c \in Calls : c = [call[s] EXCEPT !.answered = TRUE]
  BY <1>1 DEF Calls
<1>3. call' = [call EXCEPT ![s] = c]
  BY <1>2 DEF ServeBatch
<1>4. UNCHANGED <<file, store>> /\ Fits(c)'
  BY <1>1, <1>2 DEF Fits, Calls, PinnedFor, ServeBatch, Serving, store
<1>5. Captured' /\ call' \in [Slots -> Calls]
  BY <1>3, <1>4, OneSlot DEF IInv, store
<1>6. /\ offered' \in [Users -> SerialOrNone]
      /\ \A u \in Users : offered'[u] \in {offered[u], preKeys[u]}
  BY <1>1 DEF ServeBatch, Serving, IInv, TypeOK, Fits
<1>7. TypeOK'
  BY <1>5, <1>6 DEF IInv, TypeOK, ServeBatch, store, history
<1>8. SignedInHasKeys' /\ CachedPinned' /\ Sealed'
  BY
     DEF IInv, SignedInHasKeys, CachedPinned, Sealed, PinnedFor, ServeBatch,
         store
<1>9. PublishedStored'
  BY <1>6 DEF IInv, PublishedStored, ServeBatch, store, history
<1> QED BY <1>5, <1>7, <1>8, <1>9 DEF IInv

\* The prekeys are made when there are none; what was published stays.
LEMMA ReceiveDeviceStep ==
  ASSUME IInv, NEW s \in Slots, ReceiveDevice(s)
  PROVE  IInv'
<1> DEFINE batch == IF preKeys[file] = 0 THEN keys[file] ELSE preKeys[file]
<1>1. /\ call \in [Slots -> Calls] /\ call[s] \in Calls /\ Fits(call[s])
      /\ batch \in SerialOrNone /\ file \in Users
      /\ me # NoUser => me = file /\ batch # 0
  BY CapturedFits DEF IInv, TypeOK, SignedInHasKeys
<1>2. /\ preKeys' = [preKeys EXCEPT ![file] = batch]
      /\ preKeys' \in [Users -> SerialOrNone]
      /\ \A u \in Users : preKeys[u] # 0 => preKeys'[u] = preKeys[u]
  BY <1>1 DEF ReceiveDevice, IInv, TypeOK
<1>3. PICK c \in Calls :
        c = [call[s] EXCEPT !.stage = "batch", !.sender = batch,
                            !.access = me, !.answered = FALSE]
  BY <1>1 DEF Calls, IInv, TypeOK
<1>4. call' = [call EXCEPT ![s] = c]
  BY <1>1, <1>3 DEF ReceiveDevice, Ask, Calls
<1>5. UNCHANGED <<me, file, keys, pins>>
  BY DEF ReceiveDevice
<1>6. c.op = "keys" /\ c.stage = "batch" /\ c.sender = batch /\ c.access = me
  BY <1>1, <1>3 DEF Calls, ReceiveDevice, Received
<1>7. me # NoUser => preKeys'[me] = batch
  BY <1>1, <1>2 DEF IInv, TypeOK
<1> HIDE DEF batch
<1>8. Fits(c)'
  BY <1>1, <1>5, <1>6, <1>7 DEF Fits
<1>9. Captured' /\ call' \in [Slots -> Calls]
  BY <1>2, <1>4, <1>5, <1>8, OneSlot DEF IInv
<1>10. TypeOK'
  BY <1>2, <1>9 DEF IInv, TypeOK, ReceiveDevice, server, history
<1>11. SignedInHasKeys' /\ CachedPinned' /\ Sealed'
  BY DEF IInv, SignedInHasKeys, CachedPinned, Sealed, PinnedFor, ReceiveDevice
<1>12. PublishedStored'
  BY <1>2 DEF IInv, PublishedStored, ReceiveDevice, server, history
<1> QED BY <1>9, <1>10, <1>11, <1>12 DEF IInv

\* The new pin is one for the bundle's identity; the other pins stay.
LEMMA TrustStep ==
  ASSUME IInv, NEW s \in Slots, Trust(s)
  PROVE  IInv'
<1>1. PICK p \in Users, k \in Serials : p = call[s].user /\ k = call[s].bundle
  BY CapturedFits
     DEF IInv, TypeOK, Trust, Fetched, Received, Calls, Fits, SerialOrNone,
         Serials
<1>2. /\ pins' = [pins EXCEPT ![file][p] = k] /\ pins[file][p] \in {0, k}
      /\ cached' = [user |-> p, material |-> k]
      /\ call' = [call EXCEPT ![s] = Idle]
      /\ file \in Users /\ k \in SerialOrNone /\ k # 0
  BY <1>1 DEF Trust, Accepts, Keep, Done, IInv, TypeOK, Serials, SerialOrNone
<1>3. /\ pins' \in [Users -> [Users -> SerialOrNone]]
      /\ \A u, q \in Users : pins[u][q] # 0 => pins'[u][q] = pins[u][q]
      /\ pins'[file][p] = k
  BY <1>2 DEF IInv, TypeOK
<1>4. UNCHANGED <<device, offered, me, file, keys, preKeys, made, posts, copies,
                  elsewhere, told>>
  BY DEF Trust, server, history
<1>5. Captured' /\ call' \in [Slots -> Calls]
  BY <1>2, <1>3, <1>4, IdleFits, OneSlot DEF IInv
<1>6. TypeOK'
  BY <1>1, <1>2, <1>3, <1>4, <1>5 DEF IInv, TypeOK, Bundles, UserOrNone
<1>7. CachedPinned'
  BY <1>1, <1>2, <1>3 DEF CachedPinned, PinnedFor
<1>8. Sealed'
  <2>1. \A x \in posts : PinnedFor(x.to, x.sealed)' 
    BY <1>3, TrustAssumption DEF IInv, Sealed, PinnedFor, TypeOK
  <2> QED BY <2>1, <1>4 DEF IInv, Sealed, PinnedFor
<1>9. SignedInHasKeys' /\ PublishedStored'
  BY <1>4 DEF IInv, SignedInHasKeys, PublishedStored
<1> QED BY <1>5, <1>6, <1>7, <1>8, <1>9 DEF IInv

\* The fetched bundle agrees with the captured pin.
LEMMA SealFetchedStep ==
  ASSUME IInv, NEW s \in Slots, SealFetched(s)
  PROVE  IInv'
<1>1. /\ call \in [Slots -> Calls] /\ call[s] \in Calls /\ Fits(call[s])
      /\ call[s].user \in Users /\ call[s].bundle \in SerialOrNone
      /\ PinnedFor(call[s].user, call[s].bundle)
  BY CapturedFits
     DEF IInv, TypeOK, SealFetched, Fetched, Received, Calls, Fits, Agrees
<1>2. PICK p \in Users, k \in SerialOrNone :
        p = call[s].user /\ k = call[s].bundle
  BY <1>1
<1>3. PICK c \in Calls : c = [call[s] EXCEPT !.stage = "post", !.access = me,
                                            !.answered = FALSE]
  BY <1>1 DEF Calls, IInv, TypeOK
<1>4. call' = [call EXCEPT ![s] = c] /\ cached' = [user |-> p, material |-> k]
  BY <1>1, <1>2, <1>3 DEF SealFetched, Ask, Keep, Calls
<1>5. UNCHANGED <<device, offered, me, file, keys, preKeys, pins, made, posts,
                  copies, elsewhere, told>>
  BY DEF SealFetched, server, store, history
<1>6. Fits(c)'
  BY <1>1, <1>3, <1>5 DEF Fits, Calls, PinnedFor, SealFetched, Fetched, Received
<1>7. Captured' /\ call' \in [Slots -> Calls]
  BY <1>4, <1>5, <1>6, OneSlot DEF IInv
<1>8. TypeOK'
  BY <1>4, <1>5, <1>7 DEF IInv, TypeOK, Bundles, UserOrNone
<1>9. CachedPinned'
  BY <1>1, <1>2, <1>4, <1>5 DEF CachedPinned, PinnedFor
<1>10. SignedInHasKeys' /\ PublishedStored' /\ Sealed'
  BY <1>5 DEF IInv, SignedInHasKeys, PublishedStored, Sealed, PinnedFor
<1> QED BY <1>7, <1>8, <1>9, <1>10 DEF IInv

\* The stored message is sealed for the captured bundle by a material.
LEMMA ServePostStep ==
  ASSUME IInv, NEW s \in Slots, ServePost(s)
  PROVE  IInv'
<1>1. /\ call \in [Slots -> Calls] /\ call[s] \in Calls /\ Fits(call[s])
      /\ call[s].access \in Users /\ call[s].op = "send"
      /\ PinnedFor(call[s].user, call[s].bundle)
      /\ call[s].user \in Users /\ call[s].sender \in Serials
      /\ call[s].bundle \in Serials
  BY CapturedFits
     DEF IInv, TypeOK, ServePost, Serving, Calls, Fits, UserOrNone, PinnedFor,
         Serials, SerialOrNone
<1>2. PICK c \in Calls : c = [call[s] EXCEPT !.answered = TRUE]
  BY <1>1 DEF Calls
<1>3. call' = [call EXCEPT ![s] = c]
  BY <1>2 DEF ServePost
<1>4. UNCHANGED <<device, offered, me, file, keys, preKeys, pins, cached, made,
                  copies, elsewhere, told>>
  BY DEF ServePost, server, store, history
<1>5. Fits(c)'
  BY <1>1, <1>2, <1>4 DEF Fits, Calls, PinnedFor, ServePost, Serving
<1>6. Captured' /\ call' \in [Slots -> Calls]
  BY <1>3, <1>4, <1>5, OneSlot DEF IInv
<1>7. PICK n \in 1..MaxPosts :
        n = Cardinality(posts) + 1 /\ posts' = posts \cup {PostOf(n, call[s])}
  <2>1. Cardinality(posts) \in Nat
    BY FS_CardinalityType DEF IInv, Sealed
  <2> QED BY <2>1, TrustAssumption DEF ServePost
<1>8. PICK x : x = PostOf(n, call[s])
  OBVIOUS
<1>9. /\ x.number = n /\ x.from = call[s].access /\ x.to = call[s].user
      /\ x.sealed = call[s].bundle
      /\ x.wire = Encrypt(Material(call[s].sender),
                          BundleOf(Material(x.sealed)), n, Text)
  BY <1>8 DEF PostOf
<1>10. posts' = posts \cup {x}
  BY <1>7, <1>8
<1>11. TypeOK'
  BY <1>1, <1>4, <1>6, <1>9, <1>10 DEF IInv, TypeOK
<1>12. Sealed'
  <2>1. IsFiniteSet(posts')
    BY <1>10, FS_AddElement DEF IInv, Sealed
  <2>2. ASSUME NEW y \in posts'
        PROVE  /\ PinnedFor(y.to, y.sealed)
               /\ \E k \in Serials, m \in 1..MaxPosts : y.wire =
                    Encrypt(Material(k), BundleOf(Material(y.sealed)), m, Text)
    <3>1. CASE y = x
      BY <3>1, <1>1, <1>9
    <3>2. CASE y \in posts
      BY <3>2 DEF IInv, Sealed
    <3> QED BY <3>1, <3>2, <1>10
  <2> QED BY <2>1, <2>2, <1>4 DEF IInv, Sealed, PinnedFor
<1>13. SignedInHasKeys' /\ PublishedStored' /\ CachedPinned'
  BY <1>4 DEF IInv, SignedInHasKeys, PublishedStored, CachedPinned, PinnedFor
<1> QED BY <1>6, <1>11, <1>12, <1>13 DEF IInv

\* A calm command's copy is sealed with the keys of the file it is saved in.
LEMMA ReceivePostStep ==
  ASSUME IInv, NEW s \in Slots, ReceivePost(s)
  PROVE  IInv'
<1>1. /\ call[s] \in Calls /\ Fits(call[s]) /\ call[s].op = "send"
      /\ file \in Users /\ call[s].calm \in BOOLEAN
  BY CapturedFits DEF IInv, TypeOK, ReceivePost, Received, Calls
<1>2. PICK x : x = [in |-> file, sender |-> call[s].sender,
                    wire |-> CopyOf(call[s]), calm |-> call[s].calm]
  OBVIOUS
<1>3. copies' = copies \cup {x}
  BY <1>2 DEF ReceivePost
<1>4. UNCHANGED <<device, offered, me, file, keys, preKeys, pins, cached, made,
                  posts, elsewhere, told>>
  BY DEF ReceivePost, server, store, history
<1>5. Captured' /\ call' \in [Slots -> Calls]
  BY <1>4, IdleFits, OneSlot DEF IInv, ReceivePost, Done
<1>6. TypeOK'
  BY <1>1, <1>2, <1>3, <1>4, <1>5 DEF IInv, TypeOK
<1>7. x.in = file /\ x.calm = call[s].calm
      /\ (x.calm => /\ keys[x.in] # 0
                    /\ x.wire = Encrypt(Material(keys[x.in]),
                                  BundleOf(Material(keys[x.in])), 0, Text))
  BY <1>1, <1>2 DEF Fits, CopyOf
<1>8. Sealed'
  BY <1>3, <1>4, <1>7 DEF IInv, Sealed, PinnedFor
<1>9. SignedInHasKeys' /\ PublishedStored' /\ CachedPinned'
  BY <1>4 DEF IInv, SignedInHasKeys, PublishedStored, CachedPinned, PinnedFor
<1> QED BY <1>5, <1>6, <1>8, <1>9 DEF IInv

\* A chain that is no longer calm fits whatever file is open.
LEMMA StirredFits ==
  ASSUME TypeOK, NEW c \in Calls, Fits(c),
         \A u \in Users : keys[u] # 0 => keys'[u] = keys[u],
         UNCHANGED <<preKeys, pins>>
  PROVE  \E d \in Calls : d = [c EXCEPT !.calm = FALSE] /\ Fits(d)'
<1>1. PICK d \in Calls : d = [c EXCEPT !.calm = FALSE]
  BY DEF Calls
<1>2. /\ d.op = c.op /\ d.stage = c.stage /\ d.access = c.access
      /\ d.user = c.user /\ d.sender = c.sender /\ d.pin = c.pin
      /\ d.bundle = c.bundle /\ d.answered = c.answered /\ d.calm = FALSE
  BY <1>1 DEF Calls
<1>3. c.access \in Users \cup {NoUser}
  BY DEF Calls, UserOrNone
<1>4. Fits(d)'
  BY <1>2, <1>3 DEF Fits, PinnedFor
<1> QED BY <1>1, <1>4

\* Keys are only added; the other chains are no longer calm.
LEMMA SignInStep ==
  ASSUME IInv, NEW s \in Slots, NEW u \in Accounts, SignIn(s, u)
  PROVE  IInv'
<1>1. PICK k \in Serials : k = LoadOrCreate(keys[u])
  BY DEF SignIn
<1>2. /\ u \in Users /\ me' = u /\ file' = u
      /\ keys' = [keys EXCEPT ![u] = k] /\ made' \in {k, made}
      /\ keys[u] \in {0, k} /\ k \in SerialOrNone /\ k # 0
      /\ UNCHANGED <<device, offered, preKeys, pins, cached, posts, copies,
                     elsewhere, told>>
  BY <1>1, TrustAssumption
     DEF SignIn, LoadOrCreate, server, history, Serials, SerialOrNone
<1>3. /\ keys' \in [Users -> SerialOrNone] /\ keys'[u] = k
      /\ \A v \in Users : keys[v] # 0 => keys'[v] = keys[v]
  BY <1>2 DEF IInv, TypeOK
<1>4. PICK c \in Calls : c = Chain("keys", "device", u, NoUser, k, 0, 0)
  <2>1. u \in UserOrNone /\ NoUser \in UserOrNone /\ 0 \in SerialOrNone
    BY <1>2, TrustAssumption DEF UserOrNone, SerialOrNone
  <2>2. Chain("keys", "device", u, NoUser, k, 0, 0) \in Calls
    BY <1>2, <2>1 DEF Chain, Calls
  <2> QED BY <2>2
<1>5. call' =
        [[t \in Slots |-> [call[t] EXCEPT !.calm = FALSE]] EXCEPT ![s] = c]
  BY <1>1, <1>4 DEF SignIn
<1>6. Fits(c)'
  BY <1>2, <1>3, <1>4 DEF Fits, Chain
<1>7. ASSUME NEW t \in Slots PROVE Fits(call[t])' /\ call'[t] \in Calls
  <2>1. CASE t = s
    BY <2>1, <1>5, <1>6 DEF Fits
  <2>2. CASE t # s
    <3>1. PICK d \in Calls : d = call[t] /\ Fits(d)
      BY CapturedFits DEF IInv, TypeOK
    <3>2. PICK e \in Calls : e = [d EXCEPT !.calm = FALSE] /\ Fits(e)'
      BY <3>1, <1>2, <1>3, StirredFits DEF IInv
    <3>3. call'[t] = e
      BY <2>2, <1>5, <3>1, <3>2
    <3> QED BY <3>2, <3>3 DEF Fits
  <2> QED BY <2>1, <2>2
<1>8. Captured'
  BY <1>7 DEF Captured, Fits
<1>9. call' \in [Slots -> Calls]
  BY <1>5, <1>7
<1>10. TypeOK'
  BY <1>2, <1>3, <1>9 DEF IInv, TypeOK, UserOrNone
<1>11. SignedInHasKeys' /\ CachedPinned'
  BY <1>2, <1>3 DEF IInv, SignedInHasKeys, CachedPinned, PinnedFor
<1>12. Sealed'
  BY <1>2, <1>3 DEF IInv, Sealed, PinnedFor, TypeOK
<1>13. PublishedStored'
  BY <1>2, <1>3 DEF IInv, PublishedStored
<1> QED BY <1>8, <1>10, <1>11, <1>12, <1>13 DEF IInv

\* No chain is calm any more.
LEMMA SignOutStep ==
  ASSUME IInv, SignOut
  PROVE  IInv'
<1>1. /\ UNCHANGED <<device, offered, file, keys, preKeys, pins, cached, made,
                     posts, copies, elsewhere, told>>
      /\ me' = NoUser
      /\ call' = [t \in Slots |-> [call[t] EXCEPT !.calm = FALSE]]
  BY DEF SignOut, server, store, history
<1>2. ASSUME NEW t \in Slots PROVE Fits(call[t])' /\ call'[t] \in Calls
  <2>1. PICK d \in Calls : d = call[t] /\ Fits(d)
    BY CapturedFits DEF IInv, TypeOK
  <2>2. PICK e \in Calls : e = [d EXCEPT !.calm = FALSE] /\ Fits(e)'
    BY <2>1, <1>1, StirredFits DEF IInv
  <2>3. call'[t] = e
    BY <1>1, <2>1, <2>2
  <2> QED BY <2>2, <2>3 DEF Fits
<1>3. Captured'
  BY <1>2 DEF Captured, Fits
<1>4. call' \in [Slots -> Calls]
  BY <1>1, <1>2
<1>5. TypeOK'
  BY <1>1, <1>4 DEF IInv, TypeOK, UserOrNone
<1>6. SignedInHasKeys' /\ CachedPinned' /\ Sealed' /\ PublishedStored'
  BY <1>1
     DEF IInv, SignedInHasKeys, CachedPinned, PinnedFor, Sealed, PublishedStored
<1> QED BY <1>3, <1>5, <1>6 DEF IInv

\* No chain is left.
LEMMA RestartStep ==
  ASSUME IInv, Restart
  PROVE  IInv'
<1>1. /\ UNCHANGED <<device, offered, keys, preKeys, pins, made, posts, copies,
                     elsewhere, told>>
      /\ me' = NoUser /\ file' \in Users /\ cached' = NoBundle
      /\ call' = [t \in Slots |-> Idle]
  BY DEF Restart, server, store, history
<1>2. Captured'
  BY <1>1 DEF Captured, Fits, Idle
<1>3. call' \in [Slots -> Calls] /\ cached' \in Bundles
  BY <1>1, IdleFits, TrustAssumption
     DEF NoBundle, Bundles, UserOrNone, SerialOrNone
<1>4. TypeOK'
  BY <1>1, <1>3 DEF IInv, TypeOK, UserOrNone
<1>5. SignedInHasKeys' /\ CachedPinned' /\ Sealed' /\ PublishedStored'
  BY <1>1
     DEF IInv, SignedInHasKeys, CachedPinned, PinnedFor, Sealed, PublishedStored
<1> QED BY <1>2, <1>4, <1>5 DEF IInv

\* What is published from elsewhere is known to be.
LEMMA RekeyStep ==
  ASSUME IInv, NEW u \in Users, Rekey(u)
  PROVE  IInv'
<1>1. /\ UNCHANGED <<me, file, keys, preKeys, pins, cached, call, posts, copies,
                     told>>
      /\ made' = made + 1 /\ made' \in Serials
      /\ elsewhere' = elsewhere \cup {made'}
      /\ device' = [device EXCEPT ![u] = made']
      /\ offered' \in {offered, [offered EXCEPT ![u] = made']}
  <2>1. made \in Nat /\ made < MaxMaterial /\ made' = made + 1
    BY TrustAssumption DEF Rekey, IInv, TypeOK, SerialOrNone
  <2>2. made' \in Serials
    BY <2>1, TrustAssumption DEF Serials
  <2>3. elsewhere' = elsewhere \cup {made'}
        /\ device' = [device EXCEPT ![u] = made']
    BY <2>1 DEF Rekey
  <2>4. offered' \in {offered, [offered EXCEPT ![u] = made']}
    <3>1. CASE offered[u] = 0
      BY <3>1, <2>1 DEF Rekey
    <3>2. CASE offered[u] # 0
      BY <3>2 DEF Rekey, IInv, TypeOK
    <3> QED BY <3>1, <3>2
  <2> QED BY <2>1, <2>2, <2>3, <2>4 DEF Rekey, store
<1>2. PICK n \in Serials : n = made' /\ n \in SerialOrNone
  BY <1>1 DEF Serials, SerialOrNone
<1>3. /\ device' \in [Users -> SerialOrNone]
      /\ offered' \in [Users -> SerialOrNone]
      /\ elsewhere' \subseteq Serials
  BY <1>1, <1>2 DEF IInv, TypeOK
<1>4. \A v \in Users : /\ device'[v] \in {device[v], n}
                       /\ offered'[v] \in {offered[v], n}
  BY <1>1, <1>2 DEF IInv, TypeOK
<1>5. TypeOK'
  BY <1>1, <1>2, <1>3 DEF IInv, TypeOK
<1>6. SignedInHasKeys' /\ CachedPinned' /\ Sealed' /\ Captured'
  BY <1>1 DEF IInv, SignedInHasKeys, CachedPinned, PinnedFor, Sealed, Captured,
         Fits
<1>7. PublishedStored'
  BY <1>1, <1>2, <1>4 DEF IInv, PublishedStored
<1> QED BY <1>5, <1>6, <1>7 DEF IInv

-----------------------------------------------------------------------------
(* Theorems *)

\* The initial states.
LEMMA InitIInv == Init => IInv
<1> SUFFICES ASSUME Init PROVE IInv
  OBVIOUS
<1>1. /\ device \in [Users -> SerialOrNone]
      /\ pins \in [Users -> [Users -> SerialOrNone]]
  <2>1. device \in [Users -> SerialOrNone] /\ pins = [u \in Users |-> device]
    BY TrustAssumption DEF Init, SerialOrNone
  <2> QED BY <2>1
<1>2. call \in [Slots -> Calls] /\ cached \in Bundles
  BY IdleFits, TrustAssumption
     DEF Init, NoBundle, Bundles, UserOrNone, SerialOrNone
<1>3. TypeOK
  BY <1>1, <1>2, TrustAssumption DEF Init, TypeOK, UserOrNone, SerialOrNone
<1>4. Captured
  BY DEF Init, Captured, Fits, Idle
<1>5. Sealed
  BY FS_EmptySet DEF Init, Sealed
<1> QED
  BY <1>3, <1>4, <1>5
     DEF Init, IInv, SignedInHasKeys, CachedPinned, PublishedStored

\* The steps.
LEMMA NextIInv == IInv /\ [Next]_vars => IInv'
<1> SUFFICES ASSUME IInv, [Next]_vars PROVE IInv'
  OBVIOUS
<1>1. CASE UNCHANGED vars
  <2>1. UNCHANGED <<device, offered, me, file, keys, preKeys, pins, cached,
                    call, made, posts, copies, elsewhere, told>>
    BY <1>1 DEF vars, server, store, history
  <2>2. TypeOK' /\ Captured'
    BY <2>1 DEF IInv, TypeOK, Captured, Fits, PinnedFor
  <2>3. SignedInHasKeys' /\ CachedPinned' /\ Sealed' /\ PublishedStored'
    BY <2>1, Quiet DEF store
  <2> QED BY <2>2, <2>3 DEF IInv
<1>2. ASSUME NEW s \in Slots, Command(s) PROVE IInv'
  BY <1>2, SignInStep, FetchToTrustStep, FetchToSendStep, SealCachedStep
     DEF Command
<1>3. ASSUME NEW s \in Slots, Serve(s) PROVE IInv'
  BY <1>3, ServeDeviceStep, ServeBatchStep, ServeBundleStep, ServePostStep
     DEF Serve
<1>4. ASSUME NEW s \in Slots, Receive(s) PROVE IInv'
  BY <1>4, ReceiveDeviceStep, ReceiveBatchStep, TrustStep, MismatchStep,
     SealFetchedStep, ReceivePostStep DEF Receive
<1>5. ASSUME NEW s \in Slots, Fails(s) PROVE IInv'
  BY <1>5, FailsStep
<1> QED
  BY <1>1, <1>2, <1>3, <1>4, <1>5, SignOutStep, RestartStep, RekeyStep DEF Next

\* The inductive invariant holds in every reachable state.
THEOREM Invariant == Spec => []IInv
<1> QED BY InitIInv, NextIInv, PTL DEF Spec

\* Type correctness of the client's keys, pins and commands.
THEOREM TypeCorrect == Spec => []TypeOK
<1>1. IInv => TypeOK
  BY DEF IInv
<1> QED BY <1>1, Invariant, PTL

\* Messages, and the kept bundle, are sealed for pinned identities
\* (trustedBundle).
THEOREM SealedForPinnedHolds == Spec => []SealedForPinned
<1>1. IInv => SealedForPinned
  BY DEF IInv, SealedForPinned, CachedPinned, Sealed, PinnedFor
<1> QED BY <1>1, Invariant, PTL

\* What is published for an account is in its file (ensureDeviceKeysUploaded).
THEOREM PublishedStoredHolds == Spec => []PublishedStored
<1>1. IInv => PublishedStored
  BY DEF IInv
<1> QED BY <1>1, Invariant, PTL

\* A stored message opens with the material it is sealed for and no other
\* (encrypt, decrypt).
THEOREM OpensForRecipientHolds == Spec => []OpensForRecipient
<1>1. ASSUME IInv PROVE OpensForRecipient
  <2> SUFFICES ASSUME NEW x \in posts, NEW k \in Serials
               PROVE  (Decrypt(Material(k), x.wire, NoValue, NoValue) = Text)
                        <=> k = x.sealed
    BY DEF OpensForRecipient
  <2>1. PICK a \in Serials, n \in 1..MaxPosts :
          x.wire = Encrypt(Material(a), BundleOf(Material(x.sealed)), n, Text)
    BY <1>1 DEF IInv, Sealed
  <2>2. CASE k = x.sealed
    BY <2>1, <2>2, SealedOpens, TrustAssumption
  <2>3. CASE k # x.sealed
    <3>1. Decrypt(Material(k), x.wire, NoValue, NoValue) = NoText
      BY <2>1, <2>3, SealedForOne, TrustAssumption
    <3> QED BY <3>1, <2>3, TrustAssumption
  <2> QED BY <2>2, <2>3
<1>2. IInv => OpensForRecipient
  BY <1>1
<1> QED BY <1>2, Invariant, PTL

\* The sender copy of an undisturbed command opens with the keys of its file
\* (createLocalSenderCopy).
THEOREM CopyOpensHolds == Spec => []CopyOpens
<1>1. ASSUME IInv PROVE CopyOpens
  <2> SUFFICES ASSUME NEW x \in copies, x.calm
               PROVE  Decrypt(Material(keys[x.in]), x.wire, NoValue, NoValue)
                        = Text
    BY DEF CopyOpens
  <2>1. x.wire = Encrypt(Material(keys[x.in]), BundleOf(Material(keys[x.in])),
                         0, Text)
    BY <1>1 DEF IInv, Sealed
  <2> QED BY <2>1, SealedOpens, TrustAssumption
<1>2. IInv => CopyOpens
  BY <1>1
<1> QED BY <1>2, Invariant, PTL

\* A pin is never replaced (trustUsername).
THEOREM PinsKeptHolds == Spec => PinsKept
<1>1. ASSUME IInv, [Next]_vars
      PROVE  \A u, p \in Users : pins[u][p] # 0 => pins'[u][p] = pins[u][p]
  <2>1. ASSUME NEW s \in Slots, Trust(s)
        PROVE  \A u, p \in Users : pins[u][p] # 0 => pins'[u][p] = pins[u][p]
    BY <1>1, <2>1 DEF Trust, Accepts, IInv, TypeOK
  <2>2. ASSUME NEW s \in Slots, Trust(s) \/ UNCHANGED pins
        PROVE  \A u, p \in Users : pins[u][p] # 0 => pins'[u][p] = pins[u][p]
    BY <2>1, <2>2
  <2>3. CASE UNCHANGED pins
    BY <2>3
  <2>4. ASSUME NEW s \in Slots, Command(s) \/ Serve(s) \/ Receive(s) \/ Fails(s)
        PROVE  Trust(s) \/ UNCHANGED pins
    BY <2>4
       DEF Command, Serve, Receive, Fails, SignIn, FetchToTrust, FetchToSend,
           SealCached, Begin, ServeDevice, ServeBatch, ServeBundle, ServePost,
           ReceiveDevice, ReceiveBatch, Mismatch, SealFetched, ReceivePost,
           store
  <2> QED
    BY <1>1, <2>2, <2>3, <2>4
       DEF Next, SignOut, Restart, Rekey, vars, store
<1>2. IInv /\ [Next]_vars =>
        [\A u, p \in Users : pins[u][p] # 0 => pins'[u][p] = pins[u][p]]_vars
  BY <1>1
<1> QED BY <1>2, Invariant, PTL DEF Spec, PinsKept
=============================================================================
