---------------------------- MODULE Verification ----------------------------
(***************************************************************************)
(* Verifying credentials against DID documents that change.  The issuer    *)
(* publishes a new did:web document now and then; each has a new signing   *)
(* key and marks the earlier keys revoked.  The resolver caches the        *)
(* document it fetched, reading the cache, fetching and storing in three   *)
(* steps, so that several verifications may fetch at a time.  Time is in   *)
(* ticks.  An HTTP fetch ends within the client's timeout, and the         *)
(* document it brings is stored when it ends.                              *)
(***************************************************************************)
EXTENDS Integers, FiniteSets

CONSTANTS Handler,     \* concurrent verifications
          MaxVersion,  \* bound on the documents the issuer publishes
          ttl,         \* the resolver's cache TTL
          Timeout,     \* the did:web client's timeout
          MaxTime,     \* bound on the clock
          None

VARIABLES published,   \* published[v]: when version v was published, or None
          clockTick,   \* time.Now()
          cache,       \* the cache entry of the issuer's DID, or None
          pc, copy,    \* where a verification is, and what it holds
          accepted     \* the verification that succeeded last

vars == <<published, clockTick, cache, pc, copy, accepted>>

Version == 1 .. MaxVersion

(* resolver.entry *)
entry == [version : Version, expires : Nat]

Init ==
  /\ published = [v \in Version |-> IF v = 1 THEN 0 ELSE None]
  /\ clockTick = 0
  /\ cache = None
  /\ pc = [p \in Handler |-> "idle"]
  /\ copy = [p \in Handler |-> None]
  /\ accepted = None

(* The version of the document that is published. *)
Current == CHOOSE v \in Version :
             published[v] # None /\ \A w \in Version : published[w] # None => w <= v

Goto(p, step, value) ==
  /\ pc' = [pc EXCEPT ![p] = step]
  /\ copy' = [copy EXCEPT ![p] = value]

(* The issuer rotates its key and publishes the new document. *)
Publish ==
  /\ Current < MaxVersion
  /\ published' = [published EXCEPT ![Current + 1] = clockTick]
  /\ UNCHANGED <<clockTick, cache, pc, copy, accepted>>

(* A fetch is given up at the client's timeout, so that the clock does   *)
(* not pass it while the fetch is on its way.                            *)
Tick ==
  /\ clockTick < MaxTime
  /\ \A p \in Handler : pc[p] \in {"fetch", "store"} => clockTick < copy[p].began + Timeout
  /\ clockTick' = clockTick + 1
  /\ UNCHANGED <<published, cache, pc, copy, accepted>>

(* extractEd25519Key: a key of an earlier version is revoked, a later    *)
(* one is not in the document.                                           *)
extractEd25519Key(version, key) == IF key = version THEN key ELSE None

(* verifyDataIntegrity: the proof fits the key that signed it. *)
verifyDataIntegrity(pub, signedWith) == pub = signedWith

(* What Verify does with the resolved document, for a credential whose   *)
(* proof was made with the key it names; no status checker is configured.*)
VerifyWith(version, key) ==
  LET pub == extractEd25519Key(version, key) IN
  accepted' = IF pub # None /\ verifyDataIntegrity(pub, key)
              THEN [key |-> key, at |-> clockTick] ELSE accepted

(* Resolve: a document is cached and has not expired. *)
Hit == cache # None /\ clockTick < cache.expires

(* Resolve: an entry of the cache that is not expired is used; Verify    *)
(* goes on with it.  The credential was signed with some version's key.  *)
ResolveCached(p, key) ==
  /\ pc[p] = "idle"
  /\ Hit
  /\ VerifyWith(cache.version, key)
  /\ UNCHANGED <<published, clockTick, cache, pc, copy>>

(* Resolve: no entry, or an expired one. *)
ResolveMiss(p, key) ==
  /\ pc[p] = "idle"
  /\ ~Hit
  /\ Goto(p, "fetch", [key |-> key, began |-> clockTick])
  /\ UNCHANGED <<published, clockTick, cache, accepted>>

(* did.Resolve: the server answers with the document it has. *)
Fetch(p) ==
  /\ pc[p] = "fetch"
  /\ Goto(p, "store", [key |-> copy[p].key, began |-> copy[p].began, version |-> Current])
  /\ UNCHANGED <<published, clockTick, cache, accepted>>

(* did.Resolve fails: an HTTP error, or the timeout. *)
FetchFails(p) ==
  /\ pc[p] \in {"fetch", "store"}
  /\ Goto(p, "idle", None)
  /\ UNCHANGED <<published, clockTick, cache, accepted>>

\* Fault variant: the entry is kept for twice the TTL.
ResolveStoreLong(p) ==
  LET c == copy[p] IN
  /\ pc[p] = "store"
  /\ cache' = [version |-> c.version, expires |-> clockTick + 2 * ttl]
  /\ VerifyWith(c.version, c.key)
  /\ Goto(p, "idle", None)
  /\ UNCHANGED <<published, clockTick>>

(* Resolve stores the document over whatever is cached, and Verify goes  *)
(* on with it.                                                           *)
ResolveStore(p) ==
  LET c == copy[p] IN
  /\ pc[p] = "store"
  /\ cache' = [version |-> c.version, expires |-> clockTick + ttl]
  /\ VerifyWith(c.version, c.key)
  /\ Goto(p, "idle", None)
  /\ UNCHANGED <<published, clockTick>>

Next ==
  \/ Publish
  \/ Tick
  \/ \E p \in Handler :
       \/ \E key \in Version :
            published[key] # None /\ (ResolveCached(p, key) \/ ResolveMiss(p, key))
       \/ Fetch(p)
       \/ FetchFails(p)
       \/ ResolveStore(p)

Spec == Init /\ [][Next]_vars

\* Every variable has its type.
TypeOK ==
  /\ published \in [Version -> Nat \cup {None}]
  /\ clockTick \in 0 .. MaxTime
  /\ cache \in entry \cup {None}
  /\ pc \in [Handler -> {"idle", "fetch", "store"}]
  /\ accepted \in [key : Version, at : Nat] \cup {None}

(* A credential signed with a key that its issuer revoked is accepted    *)
(* for at most the cache's TTL and one fetch after the revocation was    *)
(* published (resolver.go:34-51, verify.go:51-58), even though a slow    *)
(* fetch that read the old document may overwrite the new one in the     *)
(* cache and start the TTL again.                                        *)
RevocationReaches ==
  accepted # None /\ accepted.key < MaxVersion =>
    LET revoked == published[accepted.key + 1]
    IN revoked # None => accepted.at <= revoked + ttl + Timeout

=============================================================================
