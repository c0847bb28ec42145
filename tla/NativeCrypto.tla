----------------------------- MODULE NativeCrypto -----------------------------
(***************************************************************************)
(* What NativeSignalCryptoProvider computes, with the primitives of        *)
(* OpenSSL as free constructors: a key pair is one value that stands for   *)
(* its public and its private half, a Diffie-Hellman secret is the set of  *)
(* the two key pairs, a derived key is the record of what it is derived    *)
(* from, and a sealed text opens with the key and the associated data it   *)
(* was sealed with.  Base64, JSON and the envelope around the payload are  *)
(* left out; the functions that no code calls (deriveMessageKey,           *)
(* cryptWithKeystream, nextCounter) as well.                               *)
(*                                                                         *)
(* Key pairs are told apart by what generated them: a serial number of     *)
(* key material, or the number of a message.                               *)
(***************************************************************************)
EXTENDS Naturals

CONSTANTS
  NoText,     \* an error instead of a plaintext, and the empty plaintext
  NoValue     \* std::nullopt, an absent field

-----------------------------------------------------------------------------
(* Primitives *)

\* generateRawKeyPair.
KeyPair(use, of) == [use |-> use, of |-> of]

\* ed25519Sign and ed25519Verify.
Signature(key, message) == [by |-> key, over |-> message]
SignatureValid(key, message, signature) == signature = Signature(key, message)

\* x25519Dh: the same secret from either private half.
Dh(private, public) == {private, public}

\* kdfX3dh: HKDF over the concatenated secrets.
KdfX3dh(dhs) == [x3dh |-> dhs]

\* firstRatchetMessageKey.
MessageKey(root, private, public) ==
  [root |-> root, ratchet |-> Dh(private, public)]

\* aadFor.
Aad(counter, previous, ratchet) ==
  [counter |-> counter, previous |-> previous, ratchet |-> ratchet]

\* aesGcmEncrypt and aesGcmDecrypt.
Seal(key, aad, text) == [key |-> key, aad |-> aad, text |-> text]
Opened(box, key, aad) ==
  IF box.key = key /\ box.aad = aad THEN box.text ELSE NoText

-----------------------------------------------------------------------------
(* Key material *)

\* The material loadOrCreateDevice generates.
Material(k) ==
  [identity |-> KeyPair("identity", k), signing |-> KeyPair("signing", k),
   signedPreKey |-> KeyPair("signedPreKey", k),
   signature |-> Signature(KeyPair("signing", k), KeyPair("signedPreKey", k))]

\* The bundle of a device, from the server or from selfPreKeyBundleFor.
BundleOf(device) ==
  [identity |-> device.identity, signing |-> device.signing,
   signedPreKey |-> device.signedPreKey, signature |-> device.signature]

\* verifySignedPreKey.
Verified(bundle) ==
  SignatureValid(bundle.signing, bundle.signedPreKey, bundle.signature)

-----------------------------------------------------------------------------
(* Messages *)

NoPayload == [sealed |-> NoValue]

\* encrypt: counter and previousCounter are 0, whatever was sent before, and
\* the one-time prekey of the bundle is not used.
Encrypt(sender, bundle, n, text) ==
  LET ratchet == KeyPair("ratchet", n)
      ephemeral == KeyPair("ephemeral", n)
      root == KdfX3dh(<<Dh(sender.identity, bundle.signedPreKey),
                        Dh(ephemeral, bundle.identity),
                        Dh(ephemeral, bundle.signedPreKey)>>)
      key == MessageKey(root, ratchet, bundle.signedPreKey)
  IN IF text = NoText THEN NoPayload
     ELSE [sealed |-> Seal(key, Aad(0, 0, ratchet), text), counter |-> 0,
           previous |-> 0, ratchet |-> ratchet, identity |-> sender.identity,
           ephemeral |-> ephemeral]

\* Mutant: the secrets are put together in another order.
SecretsSwapped(device, payload) ==
  <<Dh(device.identity, payload.ephemeral),
    Dh(device.signedPreKey, payload.identity),
    Dh(device.signedPreKey, payload.ephemeral)>>

\* The secrets of the recipient, before a one-time prekey's.
Secrets(device, payload) ==
  <<Dh(device.signedPreKey, payload.identity),
    Dh(device.identity, payload.ephemeral),
    Dh(device.signedPreKey, payload.ephemeral)>>

\* decrypt, of a message that names consumed, if any; oneTime is what
\* oneTimePreKeyFor found for it.
Decrypt(device, payload, consumed, oneTime) ==
  LET three == Secrets(device, payload)
      dhs == IF consumed = NoValue THEN three
             ELSE <<three[1], three[2], three[3],
                    Dh(oneTime, payload.ephemeral)>>
      key == MessageKey(KdfX3dh(dhs), device.signedPreKey, payload.ratchet)
  IN IF consumed # NoValue /\ oneTime = NoValue THEN NoText
     ELSE Opened(payload.sealed, key,
                 Aad(payload.counter, payload.previous, payload.ratchet))
=============================================================================
