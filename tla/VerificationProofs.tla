------------------------- MODULE VerificationProofs -------------------------
(***************************************************************************)
(* RevocationReaches for any number of verifications, documents, any cache *)
(* TTL and any timeout.  The property looks at the verification accepted   *)
(* last; the invariant says how old the documents on their way, in the     *)
(* fetching goroutines and in the cache, may be.                           *)
(***************************************************************************)
EXTENDS Verification, TLAPS

(* What the constants are. *)
Sizes ==
  /\ MaxVersion \in Nat \ {0}
  /\ ttl \in Nat
  /\ Timeout \in Nat
  /\ MaxTime \in Nat
  /\ None \notin Nat
  /\ None \notin entry
  /\ None \notin [key : Version, at : Nat]

(* The versions published are those up to the current one, at times past. *)
Newest(m) ==
  /\ m \in Version
  /\ \A w \in Version : published[w] # None <=> w <= m

Published ==
  /\ \E m \in Version : Newest(m)
  /\ \A v \in Version : published[v] # None => published[v] <= clockTick

(* Since when version v has not been the newest: not before t. *)
NewestUntil(v, t) ==
  v < MaxVersion /\ published[v + 1] # None => t <= published[v + 1]

(* A goroutine that fetches is within its timeout, and the document it    *)
(* brings was the newest at some time since it began.                     *)
InFlight(p) ==
  /\ pc[p] \in {"fetch", "store"} =>
       /\ copy[p].key \in Version
       /\ copy[p].began \in Nat
       /\ copy[p].began <= clockTick
       /\ clockTick <= copy[p].began + Timeout
  /\ pc[p] = "store" =>
       /\ copy[p].version \in Version
       /\ NewestUntil(copy[p].version, copy[p].began)

(* A cached document expires a TTL after it was stored, which was at most *)
(* a timeout after it was the newest.                                     *)
CacheFresh ==
  cache # None =>
    /\ cache.expires <= clockTick + ttl
    /\ NewestUntil(cache.version, cache.expires - ttl - Timeout)

AcceptedFresh ==
  accepted # None =>
    /\ accepted.at <= clockTick
    /\ NewestUntil(accepted.key, accepted.at - ttl - Timeout)

Inv ==
  /\ TypeOK
  /\ copy = [p \in Handler |-> copy[p]]
  /\ Published
  /\ \A p \in Handler : InFlight(p)
  /\ CacheFresh
  /\ AcceptedFresh

-----------------------------------------------------------------------------

(* Current is the newest version. *)
LEMMA CurrentIsNewest ==
  ASSUME Sizes, NEW m \in Version, Newest(m)
  PROVE  Current = m
<1>1. \A v \in Version :
        (published[v] # None /\ \A w \in Version : published[w] # None => w <= v) <=> v = m
  BY DEF Sizes, Version, Newest
<1> QED BY <1>1 DEF Current

(* The invariant holds at the start. *)
LEMMA InitInv == Sizes /\ Init => Inv
<1> SUFFICES ASSUME Sizes, Init PROVE Inv
  OBVIOUS
<1>1. TypeOK
  BY DEF Sizes, Init, TypeOK, Version
<1>2. 1 \in Version /\ Newest(1)
  BY DEF Sizes, Init, Version, Newest
<1>3. Published
  BY <1>2 DEF Sizes, Init, Published, Version
<1> QED BY <1>1, <1>3 DEF Init, Inv, InFlight, CacheFresh, AcceptedFresh

(* Publishing: the newest version becomes old now, and no earlier.        *)
LEMMA PublishInv == Sizes /\ Inv /\ Publish => Inv'
<1> SUFFICES ASSUME Sizes, Inv, Publish PROVE Inv'
  OBVIOUS
<1>1. PICK m \in Version : Newest(m)
  BY DEF Inv, Published
<1>2. Current = m
  BY <1>1, CurrentIsNewest
<1>3. m + 1 \in Version /\ published' = [published EXCEPT ![m + 1] = clockTick]
  BY <1>2 DEF Publish, Sizes, Version
<1>4. published[m + 1] = None
  BY <1>1, <1>3 DEF Newest, Version, Sizes
<1>5. clockTick \in Nat /\ published \in [Version -> Nat \cup {None}]
  BY DEF Inv, TypeOK, Sizes
<1>6. published' \in [Version -> Nat \cup {None}]
  BY <1>3, <1>5
<1>7. \A w \in Version : published'[w] = IF w = m + 1 THEN clockTick ELSE published[w]
  BY <1>3, <1>5
<1>8. clockTick' = clockTick /\ cache' = cache /\ pc' = pc /\ copy' = copy /\ accepted' = accepted
  BY DEF Publish
<1>9. \A v \in Version, t \in Int : NewestUntil(v, t) /\ t <= clockTick => NewestUntil(v, t)'
  <2> SUFFICES ASSUME NEW v \in Version, NEW t \in Int, NewestUntil(v, t), t <= clockTick,
                      v < MaxVersion, published'[v + 1] # None
               PROVE  t <= published'[v + 1]
    BY DEF NewestUntil
  <2>1. v + 1 \in Version
    BY DEF Version, Sizes
  <2> QED BY <1>7, <2>1 DEF NewestUntil
<1>10. TypeOK'
  BY <1>6, <1>8 DEF Inv, TypeOK
<1>11. Newest(m + 1)'
  BY <1>1, <1>3, <1>5, <1>7 DEF Newest, Version, Sizes
<1>12. Published'
  BY <1>3, <1>5, <1>7, <1>8, <1>11 DEF Inv, Published, Sizes
<1>13. ASSUME NEW p \in Handler PROVE InFlight(p)'
  BY <1>8, <1>9 DEF Inv, InFlight
<1>14. CacheFresh'
  <2> SUFFICES ASSUME cache # None PROVE CacheFresh'
    BY <1>8 DEF CacheFresh
  <2>1. cache.version \in Version /\ cache.expires \in Nat
    BY DEF Inv, TypeOK, entry
  <2>2. cache.expires - ttl - Timeout \in Int /\ cache.expires - ttl - Timeout <= clockTick
    BY <1>5, <2>1 DEF Inv, CacheFresh, Sizes
  <2> QED BY <1>8, <1>9, <2>1, <2>2 DEF Inv, CacheFresh
<1>15. AcceptedFresh'
  <2> SUFFICES ASSUME accepted # None PROVE AcceptedFresh'
    BY <1>8 DEF AcceptedFresh
  <2>1. accepted.key \in Version /\ accepted.at \in Nat
    BY DEF Inv, TypeOK
  <2>2. accepted.at - ttl - Timeout \in Int /\ accepted.at - ttl - Timeout <= clockTick
    BY <1>5, <2>1 DEF Inv, AcceptedFresh, Sizes
  <2> QED BY <1>8, <1>9, <2>1, <2>2 DEF Inv, AcceptedFresh
<1> QED BY <1>8, <1>10, <1>12, <1>13, <1>14, <1>15 DEF Inv

(* The clock: no fetch outlives its timeout. *)
LEMMA TickInv == Sizes /\ Inv /\ Tick => Inv'
<1> SUFFICES ASSUME Sizes, Inv, Tick PROVE Inv'
  OBVIOUS
<1>1. clockTick \in Nat /\ clockTick' = clockTick + 1 /\ clockTick' \in 0 .. MaxTime
  BY DEF Inv, TypeOK, Tick, Sizes
<1>2. published' = published /\ cache' = cache /\ pc' = pc /\ copy' = copy /\ accepted' = accepted
  BY DEF Tick
<1>3. TypeOK'
  BY <1>1, <1>2 DEF Inv, TypeOK
<1>4. Published'
  <2>1. \A v \in Version : published[v] # None => published[v] \in Nat
    BY DEF Inv, TypeOK
  <2> QED BY <1>1, <1>2, <2>1 DEF Inv, Published, Newest
<1>5. ASSUME NEW p \in Handler PROVE InFlight(p)'
  BY <1>1, <1>2, <1>5 DEF Inv, InFlight, NewestUntil, Tick, Sizes
<1>6. CacheFresh'
  BY <1>1, <1>2 DEF Inv, TypeOK, entry, CacheFresh, NewestUntil, Sizes
<1>7. AcceptedFresh'
  BY <1>1, <1>2 DEF Inv, TypeOK, AcceptedFresh, NewestUntil, Sizes
<1> QED BY <1>2, <1>3, <1>4, <1>5, <1>6, <1>7 DEF Inv

(* Accepting with a document that is fresh enough. *)
LEMMA VerifyWithFresh ==
  ASSUME Sizes, Inv, NEW version \in Version, NEW key \in Version,
         VerifyWith(version, key), published' = published, clockTick' = clockTick,
         NewestUntil(version, clockTick - ttl - Timeout)
  PROVE  /\ accepted' \in [key : Version, at : Nat] \cup {None}
         /\ AcceptedFresh'
<1>1. clockTick \in Nat
  BY DEF Inv, TypeOK, Sizes
<1>2. CASE accepted' = accepted
  BY <1>2 DEF Inv, TypeOK, AcceptedFresh, NewestUntil
<1>3. CASE key = version /\ accepted' = [key |-> key, at |-> clockTick]
  BY <1>1, <1>3 DEF AcceptedFresh, NewestUntil
<1>4. key # version => accepted' = accepted
  BY DEF VerifyWith, extractEd25519Key
<1> QED BY <1>2, <1>3, <1>4 DEF VerifyWith, extractEd25519Key

(* A verification that finds the document in the cache. *)
LEMMA ResolveCachedInv ==
  ASSUME Sizes, Inv, NEW p \in Handler, NEW key \in Version, ResolveCached(p, key)
  PROVE  Inv'
<1>1. /\ published' = published /\ clockTick' = clockTick /\ cache' = cache
      /\ pc' = pc /\ copy' = copy /\ VerifyWith(cache.version, key)
  BY DEF ResolveCached
<1>2. cache # None /\ clockTick < cache.expires
  BY DEF ResolveCached, Hit
<1>3. cache.version \in Version /\ cache.expires \in Nat /\ clockTick \in Nat
  BY <1>2 DEF Inv, TypeOK, entry, Sizes
<1>4. NewestUntil(cache.version, clockTick - ttl - Timeout)
  <2> SUFFICES ASSUME cache.version < MaxVersion, published[cache.version + 1] # None
               PROVE  clockTick - ttl - Timeout <= published[cache.version + 1]
    BY DEF NewestUntil
  <2>1. cache.version + 1 \in Version
    BY <1>3 DEF Version, Sizes
  <2>2. published[cache.version + 1] \in Nat
    BY <2>1 DEF Inv, TypeOK
  <2>3. cache.expires - ttl - Timeout <= published[cache.version + 1]
    BY <1>2 DEF Inv, CacheFresh, NewestUntil
  <2> QED BY <1>2, <1>3, <2>2, <2>3 DEF Sizes
<1>5. /\ accepted' \in [key : Version, at : Nat] \cup {None}
      /\ AcceptedFresh'
  BY <1>1, <1>3, <1>4, VerifyWithFresh
<1>6. TypeOK'
  BY <1>1, <1>5 DEF Inv, TypeOK
<1>7. Published'
  BY <1>1 DEF Inv, Published, Newest
<1>8. ASSUME NEW q \in Handler PROVE InFlight(q)'
  BY <1>1 DEF Inv, InFlight, NewestUntil
<1>9. CacheFresh'
  BY <1>1 DEF Inv, CacheFresh, NewestUntil
<1> QED BY <1>1, <1>5, <1>6, <1>7, <1>8, <1>9 DEF Inv

(* Steps that move one goroutine and leave documents, clock, cache and    *)
(* answers alone.                                                         *)
LEMMA GotoInv ==
  ASSUME Sizes, Inv, NEW p \in Handler, NEW step \in {"idle", "fetch", "store"}, NEW value,
         Goto(p, step, value), UNCHANGED <<published, clockTick, cache, accepted>>,
         InFlight(p)'
  PROVE  Inv'
<1>1. pc \in [Handler -> {"idle", "fetch", "store"}] /\ copy = [q \in Handler |-> copy[q]]
  BY DEF Inv, TypeOK
<1>2. /\ pc' \in [Handler -> {"idle", "fetch", "store"}]
      /\ copy' = [q \in Handler |-> copy'[q]]
      /\ \A q \in Handler : q # p => pc'[q] = pc[q] /\ copy'[q] = copy[q]
  BY <1>1 DEF Goto
<1>3. ASSUME NEW q \in Handler PROVE InFlight(q)'
  BY <1>2 DEF Inv, InFlight, NewestUntil
<1>4. TypeOK'
  BY <1>2 DEF Inv, TypeOK
<1>5. Published' /\ CacheFresh' /\ AcceptedFresh'
  BY DEF Inv, Published, Newest, CacheFresh, AcceptedFresh, NewestUntil
<1> QED BY <1>2, <1>3, <1>4, <1>5 DEF Inv

(* A verification that starts a fetch, and one whose fetch fails. *)
LEMMA ResolveMissInv ==
  ASSUME Sizes, Inv, NEW p \in Handler, NEW key \in Version, ResolveMiss(p, key)
  PROVE  Inv'
<1>1. Goto(p, "fetch", [key |-> key, began |-> clockTick])
  BY DEF ResolveMiss
<1>2. pc'[p] = "fetch" /\ copy'[p] = [key |-> key, began |-> clockTick]
  BY <1>1 DEF Goto, Inv, TypeOK
<1>3. InFlight(p)'
  BY <1>2 DEF InFlight, ResolveMiss, Inv, TypeOK, Sizes
<1> QED BY <1>1, <1>3, GotoInv DEF ResolveMiss

LEMMA FetchFailsInv ==
  ASSUME Sizes, Inv, NEW p \in Handler, FetchFails(p)
  PROVE  Inv'
<1>1. Goto(p, "idle", None)
  BY DEF FetchFails
<1>2. pc'[p] = "idle"
  BY <1>1 DEF Goto, Inv, TypeOK
<1>3. InFlight(p)'
  BY <1>2 DEF InFlight
<1> QED BY <1>1, <1>3, GotoInv DEF FetchFails

(* The document fetched is the newest now. *)
LEMMA FetchInv ==
  ASSUME Sizes, Inv, NEW p \in Handler, Fetch(p)
  PROVE  Inv'
<1> DEFINE doc == [key |-> copy[p].key, began |-> copy[p].began, version |-> Current]
<1>1. Goto(p, "store", doc)
  BY DEF Fetch
<1>2. pc'[p] = "store" /\ copy'[p] = doc
  BY <1>1 DEF Goto, Inv, TypeOK
<1>3. PICK m \in Version : Newest(m)
  BY DEF Inv, Published
<1>4. Current = m
  BY <1>3, CurrentIsNewest
<1>5. m < MaxVersion => published[m + 1] = None
  BY <1>3 DEF Newest, Version, Sizes
<1>6. NewestUntil(m, copy[p].began)'
  BY <1>5 DEF NewestUntil, Fetch
<1>7. /\ doc.key \in Version /\ doc.began \in Nat
      /\ doc.began <= clockTick /\ clockTick <= doc.began + Timeout
  BY DEF Inv, InFlight, Fetch
<1>8. InFlight(p)'
  BY <1>2, <1>3, <1>4, <1>5, <1>7 DEF InFlight, NewestUntil, Fetch
<1> QED BY <1>1, <1>8, GotoInv DEF Fetch

(* Storing: the document was the newest at most a timeout ago. *)
LEMMA ResolveStoreInv ==
  ASSUME Sizes, Inv, NEW p \in Handler, ResolveStore(p)
  PROVE  Inv'
<1> DEFINE c == copy[p]
<1>1. /\ c.key \in Version /\ c.began \in Nat /\ c.version \in Version
      /\ clockTick <= c.began + Timeout /\ clockTick \in Nat
      /\ NewestUntil(c.version, c.began)
  BY DEF Inv, TypeOK, InFlight, ResolveStore, Sizes
<1>2. /\ published' = published /\ clockTick' = clockTick
      /\ cache' = [version |-> c.version, expires |-> clockTick + ttl]
      /\ VerifyWith(c.version, c.key)
      /\ Goto(p, "idle", None)
  BY DEF ResolveStore
<1>3. NewestUntil(c.version, clockTick - Timeout)
  <2> SUFFICES ASSUME c.version < MaxVersion, published[c.version + 1] # None
               PROVE  clockTick - Timeout <= published[c.version + 1]
    BY DEF NewestUntil
  <2>1. c.version + 1 \in Version
    BY <1>1 DEF Version, Sizes
  <2>2. published[c.version + 1] \in Nat /\ c.began <= published[c.version + 1]
    BY <1>1, <2>1 DEF Inv, TypeOK, NewestUntil
  <2> QED BY <1>1, <2>2 DEF Sizes
<1>4. NewestUntil(c.version, clockTick - ttl - Timeout)
  <2> SUFFICES ASSUME c.version < MaxVersion, published[c.version + 1] # None
               PROVE  clockTick - ttl - Timeout <= published[c.version + 1]
    BY DEF NewestUntil
  <2>1. c.version + 1 \in Version
    BY <1>1 DEF Version, Sizes
  <2>2. published[c.version + 1] \in Nat /\ clockTick - Timeout <= published[c.version + 1]
    BY <1>3, <2>1 DEF Inv, TypeOK, NewestUntil
  <2> QED BY <1>1, <2>2 DEF Sizes
<1>5. /\ accepted' \in [key : Version, at : Nat] \cup {None}
      /\ AcceptedFresh'
  BY <1>1, <1>2, <1>4, VerifyWithFresh
<1>6. cache' \in entry /\ cache'.version = c.version /\ cache'.expires = clockTick + ttl
  BY <1>1, <1>2 DEF entry, Sizes
<1>7. CacheFresh'
  <2>1. cache'.expires - ttl - Timeout = clockTick - Timeout
    BY <1>1, <1>6 DEF Sizes
  <2> QED BY <1>1, <1>2, <1>3, <1>6, <2>1 DEF CacheFresh, NewestUntil, Sizes
<1>8. pc \in [Handler -> {"idle", "fetch", "store"}] /\ copy = [q \in Handler |-> copy[q]]
  BY DEF Inv, TypeOK
<1>9. /\ pc' \in [Handler -> {"idle", "fetch", "store"}] /\ pc'[p] = "idle"
      /\ copy' = [q \in Handler |-> copy'[q]]
      /\ \A q \in Handler : q # p => pc'[q] = pc[q] /\ copy'[q] = copy[q]
  BY <1>2, <1>8 DEF Goto
<1>10. ASSUME NEW q \in Handler PROVE InFlight(q)'
  BY <1>2, <1>9 DEF Inv, InFlight, NewestUntil
<1>11. TypeOK'
  BY <1>2, <1>5, <1>6, <1>9 DEF Inv, TypeOK
<1>12. Published'
  BY <1>2 DEF Inv, Published, Newest
<1> QED BY <1>5, <1>7, <1>9, <1>10, <1>11, <1>12 DEF Inv

(* The invariant holds of every behaviour of the verifications and the    *)
(* resolver.                                                              *)
THEOREM FreshnessInvariant == Sizes => (Spec => []Inv)
<1> SUFFICES ASSUME Sizes PROVE Spec => []Inv
  OBVIOUS
<1>1. Init => Inv
  BY InitInv
<1>2. Inv /\ [Next]_vars => Inv'
  <2> SUFFICES ASSUME Inv, [Next]_vars PROVE Inv'
    OBVIOUS
  <2>1. CASE Publish
    BY <2>1, PublishInv
  <2>2. CASE Tick
    BY <2>2, TickInv
  <2>3. ASSUME NEW p \in Handler, NEW key \in Version, ResolveCached(p, key) PROVE Inv'
    BY <2>3, ResolveCachedInv
  <2>4. ASSUME NEW p \in Handler, NEW key \in Version, ResolveMiss(p, key) PROVE Inv'
    BY <2>4, ResolveMissInv
  <2>5. ASSUME NEW p \in Handler, Fetch(p) PROVE Inv'
    BY <2>5, FetchInv
  <2>6. ASSUME NEW p \in Handler, FetchFails(p) PROVE Inv'
    BY <2>6, FetchFailsInv
  <2>7. ASSUME NEW p \in Handler, ResolveStore(p) PROVE Inv'
    BY <2>7, ResolveStoreInv
  <2>8. CASE UNCHANGED vars
    <3>1. TypeOK'
      BY <2>8 DEF vars, Inv, TypeOK
    <3>2. Published' /\ CacheFresh' /\ AcceptedFresh'
      BY <2>8 DEF vars, Inv, Published, Newest, CacheFresh, AcceptedFresh, NewestUntil
    <3>3. ASSUME NEW p \in Handler PROVE InFlight(p)'
      BY <2>8 DEF vars, Inv, InFlight, NewestUntil
    <3> QED BY <2>8, <3>1, <3>2, <3>3 DEF vars, Inv
  <2> QED BY <2>1, <2>2, <2>3, <2>4, <2>5, <2>6, <2>7, <2>8 DEF Next
<1> QED BY <1>1, <1>2, PTL DEF Spec

(* A credential signed with a revoked key is accepted for at most the     *)
(* cache's TTL and one fetch after the revocation was published           *)
(* (resolver.go:34-51, verify.go:51-58), for any number of overlapping    *)
(* verifications, any TTL and any timeout.                                *)
THEOREM RevocationReachesAlways == Sizes => (Spec => []RevocationReaches)
<1> SUFFICES ASSUME Sizes PROVE Spec => []RevocationReaches
  OBVIOUS
<1>1. Inv => RevocationReaches
  <2> SUFFICES ASSUME Inv, accepted # None, accepted.key < MaxVersion,
                      published[accepted.key + 1] # None
               PROVE  accepted.at <= published[accepted.key + 1] + ttl + Timeout
    BY DEF RevocationReaches
  <2>1. accepted.key \in Version /\ accepted.at \in Nat
    BY DEF Inv, TypeOK
  <2>2. accepted.key + 1 \in Version
    BY <2>1 DEF Version, Sizes
  <2>3. published[accepted.key + 1] \in Nat
    BY <2>2 DEF Inv, TypeOK
  <2>4. accepted.at - ttl - Timeout <= published[accepted.key + 1]
    BY DEF Inv, AcceptedFresh, NewestUntil
  <2> QED BY <2>1, <2>3, <2>4 DEF Sizes
<1> QED BY <1>1, FreshnessInvariant, PTL

=============================================================================
