------------------------------- MODULE DIDComm -------------------------------
(***************************************************************************)
(* DIDComm v2 envelopes (pkg/didcomm, api/didcomm.go): a message is packed *)
(* for several recipients, with or without authenticating its sender, and  *)
(* unpacked by a recipient while both sides' keys are replaced.  The       *)
(* cryptography is symbolic: a Diffie-Hellman secret is the unordered pair *)
(* of the two keys, a derived key or a digest is the record of its inputs, *)
(* and what is wrapped or sealed under a key opens only with that key.     *)
(***************************************************************************)
EXTENDS Integers, Sequences, SequencesExt, FiniteSets

CONSTANTS
    KID,         \* key IDs of recipients
    SenderKID,   \* key ID of the sender
    Body,        \* plaintexts
    MaxKey,      \* bound on the keys each party ever has
    MaxMessages, \* bound on the messages packed
    None

VARIABLES
    recipKey,    \* recipKey[k]: the number of the private key that kid k has now
    senderKey,   \* the number of the sender's key now
    senderDoc,   \* the number of the sender's key in the document the resolver gives
    wire,        \* envelopes sent; each may arrive late, often, or never
    inbox        \* the outcome of the last delivery, or None

vars == <<recipKey, senderKey, senderDoc, wire, inbox>>

-----------------------------------------------------------------------------
(* Key agreement *)

Recipient(k, n) == [party |-> k, key |-> n]
Sender(n) == [party |-> SenderKID, key |-> n]
Ephemeral(id, i) == [party |-> <<"ephemeral", id>>, key |-> i]

X25519(a, b) == {a, b}

(* concatKDF *)
concatKDF(z, alg, apu, apv) == [z |-> z, alg |-> alg, apu |-> apu, apv |-> apv]

ecdhESKEKSender(eph, recip, hdr) ==
    concatKDF(<<X25519(eph, recip)>>, hdr.alg, None, hdr.apv)

ecdhESKEKRecipient(recip, eph, hdr) ==
    concatKDF(<<X25519(recip, eph)>>, hdr.alg, None, hdr.apv)

ecdh1PUKEKSender(eph, sender, recip, hdr) ==
    concatKDF(<<X25519(eph, recip), X25519(sender, recip)>>, hdr.alg, hdr.apu, hdr.apv)

\* Fault variant: the two secrets are concatenated in the other order.
ecdh1PUKEKSwapped(eph, recip, sender, hdr) ==
    concatKDF(<<X25519(recip, sender), X25519(recip, eph)>>, hdr.alg, hdr.apu, hdr.apv)

ecdh1PUKEKRecipient(eph, recip, sender, hdr) ==
    concatKDF(<<X25519(recip, eph), X25519(recip, sender)>>, hdr.alg, hdr.apu, hdr.apv)

(* computeAPV hashes the sorted key IDs: their set. *)
computeAPV(kids) == [sha256 |-> ToSet(kids)]

aesKeyWrap(kek, cek) == [under |-> kek, cek |-> cek]
aesKeyUnwrap(kek, wrapped) == IF wrapped.under = kek THEN wrapped.cek ELSE None

-----------------------------------------------------------------------------

Init ==
    /\ recipKey = [k \in KID |-> 1]
    /\ senderKey = 1 /\ senderDoc = 1
    /\ wire = {}
    /\ inbox = None

(* packEnvelope: one fresh content key, and for each recipient a fresh    *)
(* ephemeral key.                                                         *)
packEnvelope(id, body, kids, auth) ==
    LET hdr == [alg |-> IF auth THEN "ECDH-1PU+A256KW" ELSE "ECDH-ES+A256KW",
                skid |-> IF auth THEN SenderKID ELSE None,
                apu |-> IF auth THEN SenderKID ELSE None,
                apv |-> computeAPV(kids)]
        cek == [cek |-> id]
        kek(i) == LET recip == Recipient(kids[i], recipKey[kids[i]])
                  IN  IF auth
                      THEN ecdh1PUKEKSender(Ephemeral(id, i), Sender(senderKey), recip, hdr)
                      ELSE ecdhESKEKSender(Ephemeral(id, i), recip, hdr)
    IN  [protected |-> hdr,
         recipients |-> [i \in 1 .. Len(kids) |->
             [kid |-> kids[i], epk |-> Ephemeral(id, i),
              encrypted_key |-> aesKeyWrap(kek(i), cek)]],
         ciphertext |-> [under |-> cek, aad |-> hdr, plaintext |-> body],
         (* what the properties compare the delivery with *)
         sent |-> [id |-> id, senderKey |-> senderKey,
                   recipKeys |-> [i \in 1 .. Len(kids) |-> recipKey[kids[i]]]]]

(* PackAnoncrypt, PackAuthcrypt: at least one recipient *)
Pack(body, kids, auth) ==
    /\ Cardinality(wire) < MaxMessages
    /\ kids # <<>>
    /\ wire' = wire \cup {packEnvelope(Cardinality(wire) + 1, body, kids, auth)}
    /\ UNCHANGED <<recipKey, senderKey, senderDoc, inbox>>

(* A restart with another identity.enc_key, under the same key ID. *)
RotateRecipient(k) ==
    /\ recipKey[k] < MaxKey
    /\ recipKey' = [recipKey EXCEPT ![k] = @ + 1]
    /\ UNCHANGED <<senderKey, senderDoc, wire, inbox>>

RotateSender ==
    /\ senderKey < MaxKey
    /\ senderKey' = senderKey + 1
    /\ UNCHANGED <<recipKey, senderDoc, wire, inbox>>

(* The resolver's cached copy of the sender's document is replaced. *)
Refresh ==
    /\ senderDoc' = senderKey
    /\ UNCHANGED <<recipKey, senderKey, wire, inbox>>

(* The key that the resolved document has for the sender's key ID. *)
extractX25519KeyFromDoc(doc) == Sender(doc)

(* The content key that Unpack gets from recipient entry r with the key   *)
(* held for its key ID.                                                   *)
Unwrapped(hdr, r) ==
    LET own == Recipient(r.kid, recipKey[r.kid])
        kek == IF hdr.alg = "ECDH-ES+A256KW"
               THEN ecdhESKEKRecipient(own, r.epk, hdr)
               ELSE ecdh1PUKEKRecipient(r.epk, own, extractX25519KeyFromDoc(senderDoc), hdr)
    IN  aesKeyUnwrap(kek, r.encrypted_key)

(* Unpack: the first recipient entry whose key ID is held and whose key   *)
(* unwraps gives the content key; None when there is none or the content  *)
(* does not open.  The sender's key ID comes from the header.             *)
Unpack(env, held) ==
    LET tries == SelectSeq(env.recipients,
                     LAMBDA r : r.kid \in held /\ Unwrapped(env.protected, r) # None)
        cek == Unwrapped(env.protected, Head(tries))
        c == env.ciphertext
    IN  IF tries = <<>> THEN None
        ELSE IF c.under # cek \/ c.aad # env.protected THEN None
        ELSE [body |-> c.plaintext, from |-> env.protected.skid]

(* handleDIDCommReceive at the agent that holds the keys in held: one key  *)
(* at this server; other callers of Unpack hold any number.                *)
handleDIDCommReceive(env, held) ==
    /\ inbox' = [env |-> env, held |-> held, got |-> Unpack(env, held),
                 keys |-> recipKey, doc |-> senderDoc]
    /\ UNCHANGED <<recipKey, senderKey, senderDoc, wire>>

Next ==
    \/ \E body \in Body, auth \in BOOLEAN, kids \in SeqOf(KID, 2) : Pack(body, kids, auth)
    \/ \E k \in KID : RotateRecipient(k)
    \/ RotateSender
    \/ Refresh
    \/ \E env \in wire, held \in SUBSET KID : handleDIDCommReceive(env, held)

Spec == Init /\ [][Next]_vars

-----------------------------------------------------------------------------

\* Every variable has its type.
TypeOK ==
    /\ recipKey \in [KID -> 1 .. MaxKey]
    /\ senderKey \in 1 .. MaxKey /\ senderDoc \in 1 .. senderKey
    /\ Cardinality(wire) <= MaxMessages
    /\ inbox # None => inbox.env \in wire

\* Unpack (didcomm.go:227) opens an envelope exactly when a key that the
\* agent holds is one it was packed for, and, for authcrypt, the resolved
\* sender key is the one it was packed with; then it returns the plaintext
\* and the sender that packEnvelope (didcomm.go:119) was given.  This holds
\* for late and repeated deliveries, for an agent that is several of the
\* recipients or the same one twice, and across key replacements.
OpensExactly ==
    inbox # None =>
        LET env == inbox.env
            auth == env.protected.alg = "ECDH-1PU+A256KW"
            fits(i) == /\ env.recipients[i].kid \in inbox.held
                       /\ inbox.keys[env.recipients[i].kid] = env.sent.recipKeys[i]
            openable == /\ \E i \in 1 .. Len(env.recipients) : fits(i)
                        /\ auth => inbox.doc = env.sent.senderKey
        IN  inbox.got = IF openable
                        THEN [body |-> env.ciphertext.plaintext,
                              from |-> IF auth THEN SenderKID ELSE None]
                        ELSE None

=============================================================================
