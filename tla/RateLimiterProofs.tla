------------------------- MODULE RateLimiterProofs -------------------------
(***************************************************************************)
(* The rate limiter's bound for every rate, capacity, cost of a request    *)
(* and idle time that satisfies IdleFills, and for any number of addresses *)
(* and requests.                                                           *)
(***************************************************************************)
EXTENDS RateLimiter, TLAPS

Inv == TypeOK /\ Owed

(* What the invariant says of one address. *)
OwedAt(a) ==
  /\ since[a] <= clock
  /\ buckets[a] = None => Cost * allowed[a] <= rate * (clock - since[a])
  /\ buckets[a] # None =>
       /\ buckets[a].lastSeen <= clock
       /\ buckets[a].lastSeen < since[a] => allowed[a] = 0
       /\ buckets[a].lastSeen >= since[a] =>
            Cost * allowed[a] + buckets[a].tokens
              <= capacity + rate * (buckets[a].lastSeen - since[a])

(* Earning over two adjacent spans of time is earning over both. *)
LEMMA EarnedAdds ==
  ASSUME NEW r \in Nat, NEW x \in Int, NEW y \in Int, NEW z \in Int
  PROVE  r * (x - y) + r * (y - z) = r * (x - z)
OBVIOUS

(* A longer span of time earns no less. *)
LEMMA EarnedGrows ==
  ASSUME NEW r \in Nat, NEW x \in Nat, NEW y \in Nat, x <= y
  PROVE  r * x <= r * y /\ r * x \in Nat
OBVIOUS

(* One more request costs one more time Cost. *)
LEMMA CostAdds ==
  ASSUME NEW n \in Nat
  PROVE  Cost * (n + 1) = Cost * n + Cost /\ Cost * n \in Nat
BY LimiterAssumption

(* A bucket is never None. *)
LEMMA BucketIsNotNone ==
  ASSUME NEW b \in Bucket
  PROVE  b # None /\ b.tokens \in Nat /\ b.tokens <= capacity /\ b.lastSeen \in Nat
BY LimiterAssumption DEF Bucket

(* Refilling: the tokens stay within the capacity, and what the bucket   *)
(* gains is at most what the address earned since its last request.      *)
LEMMA RefillBounds ==
  ASSUME NEW b \in Bucket, clock \in Nat, b.lastSeen <= clock
  PROVE  /\ Refill(b) \in 0 .. capacity
         /\ Refill(b) <= b.tokens + rate * (clock - b.lastSeen)
<1>1. b.tokens \in Nat /\ b.tokens <= capacity /\ b.lastSeen \in Nat
  BY BucketIsNotNone
<1>2. rate * (clock - b.lastSeen) \in Nat
  BY <1>1, LimiterAssumption
<1> QED
  BY <1>1, <1>2, LimiterAssumption DEF Refill

(* The invariant is the conjunction of what it says of each address. *)
LEMMA OwedPointwise == Owed <=> \A a \in Peer : OwedAt(a)
BY DEF Owed, OwedAt

(* A step that leaves an address's bucket, count and window as they are  *)
(* and does not turn the clock back keeps what the invariant says of it. *)
LEMMA OwedAtKept ==
  ASSUME NEW a \in Peer, TypeOK, OwedAt(a), clock' \in Nat, clock <= clock',
         buckets'[a] = buckets[a], allowed'[a] = allowed[a], since'[a] = since[a]
  PROVE  OwedAt(a)'
<1>1. since[a] \in Nat /\ allowed[a] \in Nat /\ clock \in Nat
  BY DEF TypeOK
<1>2. clock - since[a] \in Nat /\ clock' - since[a] \in Nat
  BY <1>1 DEF OwedAt
<1>3. rate * (clock - since[a]) <= rate * (clock' - since[a])
  <2>1. clock - since[a] <= clock' - since[a]
    BY <1>1
  <2> QED BY <1>2, <2>1, EarnedGrows, LimiterAssumption
<1>4. rate * (clock - since[a]) \in Nat /\ rate * (clock' - since[a]) \in Nat
      /\ Cost * allowed[a] \in Nat
  BY <1>1, <1>2, LimiterAssumption
<1>5. CASE buckets[a] = None
  BY <1>1, <1>3, <1>4, <1>5 DEF OwedAt
<1>6. CASE buckets[a] # None
  <2>1. buckets[a] \in Bucket
    BY <1>6 DEF TypeOK
  <2>2. buckets[a].lastSeen \in Nat
    BY <2>1, BucketIsNotNone
  <2> QED BY <1>1, <1>6, <2>2 DEF OwedAt
<1> QED BY <1>5, <1>6

(* What an address got through and what its bucket holds when Allow has  *)
(* refilled it are together at most a full bucket and its earnings.      *)
LEMMA RefilledOwed ==
  ASSUME NEW a \in Peer, TypeOK, OwedAt(a)
  PROVE  /\ Refill(Found(a)) \in 0 .. capacity
         /\ Cost * allowed[a] + Refill(Found(a)) <= capacity + rate * (clock - since[a])
<1> DEFINE t == Refill(Found(a))
<1>1. since[a] \in Nat /\ allowed[a] \in Nat /\ clock \in Nat /\ since[a] <= clock
  BY DEF TypeOK, OwedAt
<1>2. rate * (clock - since[a]) \in Nat /\ Cost * allowed[a] \in Nat
  BY <1>1, LimiterAssumption
<1>3. CASE buckets[a] = None
  <2>1. Found(a) \in Bucket /\ Found(a).lastSeen <= clock
    BY <1>1, <1>3, LimiterAssumption DEF Found, Bucket
  <2>2. t \in 0 .. capacity
    BY <1>1, <2>1, RefillBounds
  <2>3. Cost * allowed[a] <= rate * (clock - since[a])
    BY <1>3 DEF OwedAt
  <2> HIDE DEF t
  <2> QED BY <1>2, <2>2, <2>3, LimiterAssumption DEF t
<1>4. CASE buckets[a] # None
  <2>1. Found(a) = buckets[a] /\ buckets[a] \in Bucket
    BY <1>4 DEF Found, TypeOK
  <2>2. /\ buckets[a].lastSeen <= clock
        /\ buckets[a].lastSeen \in Nat
        /\ buckets[a].tokens \in Nat
    BY <1>4, <2>1, BucketIsNotNone DEF OwedAt
  <2>3. /\ t \in 0 .. capacity
        /\ t <= buckets[a].tokens + rate * (clock - buckets[a].lastSeen)
    BY <1>1, <2>1, <2>2, RefillBounds
  <2> HIDE DEF t
  <2>4. CASE buckets[a].lastSeen < since[a]
    <3>1. allowed[a] = 0
      BY <1>4, <2>4 DEF OwedAt
    <3>2. Cost * allowed[a] = 0
      BY <3>1, LimiterAssumption
    <3> QED BY <1>2, <2>3, <3>2, LimiterAssumption DEF t
  <2>5. CASE buckets[a].lastSeen >= since[a]
    <3>1. Cost * allowed[a] + buckets[a].tokens
            <= capacity + rate * (buckets[a].lastSeen - since[a])
      BY <1>4, <2>5 DEF OwedAt
    <3>2. rate * (clock - buckets[a].lastSeen) + rate * (buckets[a].lastSeen - since[a])
            = rate * (clock - since[a])
      BY <1>1, <2>2, EarnedAdds, LimiterAssumption
    <3>3. /\ rate * (clock - buckets[a].lastSeen) \in Int
          /\ rate * (buckets[a].lastSeen - since[a]) \in Int
      BY <1>1, <2>2, LimiterAssumption
    <3> QED BY <1>2, <2>2, <2>3, <3>1, <3>2, <3>3, LimiterAssumption DEF t
  <2> QED BY <1>1, <2>2, <2>4, <2>5
<1> QED BY <1>3, <1>4

(* Allow keeps the invariant for the address it serves. *)
LEMMA AllowOwed ==
  ASSUME NEW peer \in Peer, NEW forwarded \in Peer \cup {None}, Inv, Allow(peer, forwarded)
  PROVE  Inv'
<1> DEFINE c == clientIP(peer, forwarded)
           t == Refill(Found(c))
<1>1. c \in Peer
  BY DEF clientIP
<1>2. TypeOK /\ \A a \in Peer : OwedAt(a)
  BY OwedPointwise DEF Inv
<1>3. /\ t \in 0 .. capacity
      /\ Cost * allowed[c] + t <= capacity + rate * (clock - since[c])
  BY <1>1, <1>2, RefilledOwed
<1>4. /\ clock \in Nat /\ since[c] \in Nat /\ allowed[c] \in Nat /\ since[c] <= clock
      /\ DOMAIN buckets = Peer /\ DOMAIN allowed = Peer
  BY <1>1, <1>2 DEF TypeOK, OwedAt
<1>5. \E k \in {0, 1} :
        /\ t - k * Cost \in 0 .. capacity
        /\ buckets' = [buckets EXCEPT ![c] = [tokens |-> t - k * Cost, lastSeen |-> clock]]
        /\ allowed' = [allowed EXCEPT ![c] = @ + k]
        /\ clock' = clock /\ since' = since
  <2>1. CASE t < Cost
    <3>1. /\ buckets' = [buckets EXCEPT ![c] = [tokens |-> t, lastSeen |-> clock]]
          /\ allowed' = allowed /\ clock' = clock /\ since' = since
      BY <1>3, <2>1, LimiterAssumption DEF Allow
    <3>2. allowed' = [allowed EXCEPT ![c] = @ + 0]
      BY <1>2, <1>4, <3>1 DEF TypeOK
    <3>3. t - 0 * Cost = t
      BY <1>3, LimiterAssumption
    <3> QED BY <1>3, <3>1, <3>2, <3>3, Zenon
  <2>2. CASE t >= Cost
    <3>1. /\ buckets' = [buckets EXCEPT ![c] = [tokens |-> t - Cost, lastSeen |-> clock]]
          /\ allowed' = [allowed EXCEPT ![c] = @ + 1]
          /\ clock' = clock /\ since' = since
      BY <1>3, <2>2, LimiterAssumption DEF Allow
    <3>2. t - 1 * Cost = t - Cost /\ t - Cost \in 0 .. capacity
      BY <1>3, <2>2, LimiterAssumption
    <3> QED BY <3>1, <3>2, Zenon
  <2> QED BY <1>3, <2>1, <2>2, LimiterAssumption
<1> HIDE DEF t, c
<1>6. PICK k \in {0, 1} :
        /\ t - k * Cost \in 0 .. capacity
        /\ buckets' = [buckets EXCEPT ![c] = [tokens |-> t - k * Cost, lastSeen |-> clock]]
        /\ allowed' = [allowed EXCEPT ![c] = @ + k]
        /\ clock' = clock /\ since' = since
  BY <1>5, Zenon
<1>7. [tokens |-> t - k * Cost, lastSeen |-> clock] \in Bucket
  BY <1>4, <1>6 DEF Bucket
<1>8. TypeOK'
  BY <1>1, <1>2, <1>4, <1>6, <1>7 DEF TypeOK
<1>9. OwedAt(c)'
  <2>1. /\ buckets'[c] = [tokens |-> t - k * Cost, lastSeen |-> clock]
        /\ allowed'[c] = allowed[c] + k
    BY <1>1, <1>4, <1>6
  <2>2. buckets'[c] # None /\ buckets'[c].lastSeen = clock /\ buckets'[c].tokens = t - k * Cost
    BY <1>7, <2>1, BucketIsNotNone
  <2>3. Cost * (allowed[c] + k) = Cost * allowed[c] + k * Cost
    BY <1>4, LimiterAssumption
  <2>4. Cost * (allowed[c] + k) + (t - k * Cost) <= capacity + rate * (clock - since[c])
    <3>1. rate * (clock - since[c]) \in Int /\ Cost * allowed[c] \in Int /\ k * Cost \in Int
      BY <1>4, LimiterAssumption
    <3> QED BY <1>3, <2>3, <3>1, LimiterAssumption
  <2> QED BY <1>4, <1>6, <2>1, <2>2, <2>4 DEF OwedAt
<1>10. ASSUME NEW a \in Peer, a # c
       PROVE  OwedAt(a)'
  <2>1. buckets'[a] = buckets[a] /\ allowed'[a] = allowed[a] /\ since'[a] = since[a]
    BY <1>4, <1>6, <1>10
  <2> QED BY <1>2, <1>4, <1>6, <2>1, OwedAtKept
<1>11. \A a \in Peer : OwedAt(a)'
  BY <1>9, <1>10
<1> QED BY <1>8, <1>11 DEF Inv, Owed, OwedAt

(* Evicting a bucket keeps the invariant: since its last request the     *)
(* address has earned at least a full bucket.                            *)
LEMMA EvictOwed ==
  ASSUME Inv, evict
  PROVE  Inv'
<1>1. TypeOK /\ \A a \in Peer : OwedAt(a)
  BY OwedPointwise DEF Inv
<1>2. /\ buckets' = [a \in Peer |->
                      IF buckets[a] # None /\ buckets[a].lastSeen < clock - Idle
                      THEN None ELSE buckets[a]]
      /\ clock' = clock /\ allowed' = allowed /\ since' = since
  BY DEF evict
<1>3. TypeOK'
  BY <1>1, <1>2 DEF TypeOK
<1>4. ASSUME NEW a \in Peer
      PROVE  OwedAt(a)'
  <2>1. clock \in Nat /\ since[a] \in Nat /\ allowed[a] \in Nat /\ since[a] <= clock
    BY <1>1 DEF TypeOK, OwedAt
  <2>2. CASE buckets[a] # None /\ buckets[a].lastSeen < clock - Idle
    <3> DEFINE l == buckets[a].lastSeen
    <3>1. buckets'[a] = None
      BY <1>2, <2>2
    <3>2. l \in Nat /\ buckets[a].tokens \in Nat
      BY <1>1, <2>2, BucketIsNotNone DEF TypeOK
    <3>3. capacity <= rate * (clock - l)
      <4>1. Idle <= clock - l /\ clock - l \in Nat
        BY <2>1, <2>2, <3>2, LimiterAssumption
      <4>2. rate * Idle <= rate * (clock - l) /\ rate * Idle \in Nat
        BY <4>1, EarnedGrows, LimiterAssumption
      <4>3. rate * (clock - l) \in Nat
        BY <4>1, LimiterAssumption
      <4> QED BY <4>2, <4>3, IdleFills, LimiterAssumption
    <3>4. Cost * allowed[a] <= rate * (clock - since[a])
      <4>1. CASE l < since[a]
        <5>1. allowed[a] = 0
          BY <1>1, <2>2, <4>1 DEF OwedAt
        <5> QED BY <2>1, <5>1, LimiterAssumption
      <4>2. CASE l >= since[a]
        <5>1. Cost * allowed[a] + buckets[a].tokens <= capacity + rate * (l - since[a])
          BY <1>1, <2>2, <4>2 DEF OwedAt
        <5>2. rate * (clock - l) + rate * (l - since[a]) = rate * (clock - since[a])
          BY <2>1, <3>2, EarnedAdds, LimiterAssumption
        <5>3. /\ rate * (clock - l) \in Int /\ rate * (l - since[a]) \in Int
              /\ rate * (clock - since[a]) \in Int /\ Cost * allowed[a] \in Int
          BY <2>1, <3>2, LimiterAssumption
        <5> HIDE DEF l
        <5> QED BY <3>2, <3>3, <5>1, <5>2, <5>3, LimiterAssumption
      <4> QED BY <2>1, <3>2, <4>1, <4>2
    <3> QED BY <1>2, <2>1, <3>1, <3>4 DEF OwedAt
  <2>3. CASE ~(buckets[a] # None /\ buckets[a].lastSeen < clock - Idle)
    <3>1. buckets'[a] = buckets[a] /\ allowed'[a] = allowed[a] /\ since'[a] = since[a]
      BY <1>2, <2>3
    <3> QED BY <1>1, <1>2, <2>1, <3>1, OwedAtKept
  <2> QED BY <2>2, <2>3
<1> QED BY <1>3, <1>4 DEF Inv, Owed, OwedAt

(* The clock's ticks and the opening of a window keep the invariant. *)
LEMMA TimeOwed ==
  ASSUME Inv, Tick \/ \E a \in Peer : OpenWindow(a)
  PROVE  Inv'
<1>1. TypeOK /\ \A a \in Peer : OwedAt(a)
  BY OwedPointwise DEF Inv
<1>2. CASE Tick
  <2>1. TypeOK'
    BY <1>1, <1>2 DEF TypeOK, Tick
  <2>2. \A a \in Peer : OwedAt(a)'
    <3> TAKE a \in Peer
    <3>1. clock' \in Nat /\ clock <= clock'
      BY <1>1, <1>2 DEF Tick, TypeOK
    <3>2. buckets'[a] = buckets[a] /\ allowed'[a] = allowed[a] /\ since'[a] = since[a]
      BY <1>2 DEF Tick
    <3> QED BY <1>1, <3>1, <3>2, OwedAtKept
  <2> QED BY <2>1, <2>2 DEF Inv, Owed, OwedAt
<1>3. ASSUME NEW w \in Peer, OpenWindow(w)
      PROVE  Inv'
  <2>1. TypeOK'
    BY <1>1, <1>3 DEF TypeOK, OpenWindow
  <2>2. clock' = clock /\ buckets' = buckets /\ clock \in Nat
    BY <1>1, <1>3 DEF OpenWindow, TypeOK
  <2>3. OwedAt(w)'
    <3>1. allowed'[w] = 0 /\ since'[w] = clock
      BY <1>1, <1>3 DEF OpenWindow, TypeOK
    <3>2. Cost * 0 = 0 /\ rate * (clock - clock) = 0
      BY <2>2, LimiterAssumption
    <3>3. buckets[w] # None =>
            /\ buckets[w].lastSeen \in Nat /\ buckets[w].lastSeen <= clock
            /\ buckets[w].tokens \in Nat /\ buckets[w].tokens <= capacity
      BY <1>1, BucketIsNotNone DEF TypeOK, OwedAt
    <3>4. buckets[w] # None /\ buckets[w].lastSeen >= clock => buckets[w].lastSeen = clock
      BY <2>2, <3>3
    <3> QED BY <2>2, <3>1, <3>2, <3>3, <3>4, LimiterAssumption DEF OwedAt
  <2>4. ASSUME NEW a \in Peer, a # w
        PROVE  OwedAt(a)'
    <3>1. allowed'[a] = allowed[a] /\ since'[a] = since[a]
      BY <1>1, <1>3, <2>4 DEF OpenWindow, TypeOK
    <3> QED BY <1>1, <2>2, <3>1, OwedAtKept
  <2> QED BY <2>1, <2>3, <2>4 DEF Inv, Owed, OwedAt
<1> QED BY <1>2, <1>3

(* The strengthened invariant holds of every behaviour of the limiter. *)
THEOREM LimiterInvariant == Spec => []Inv
<1>1. Init => Inv
  BY LimiterAssumption DEF Init, Inv, TypeOK, Owed, Bucket
<1>2. Inv /\ [Next]_vars => Inv'
  <2> SUFFICES ASSUME Inv, [Next]_vars PROVE Inv'
    OBVIOUS
  <2>1. CASE \E peer \in Peer, forwarded \in Peer \cup {None} : Allow(peer, forwarded)
    BY <2>1, AllowOwed
  <2>2. CASE evict
    BY <2>2, EvictOwed
  <2>3. CASE Tick \/ \E a \in Peer : OpenWindow(a)
    BY <2>3, TimeOwed
  <2>4. CASE UNCHANGED vars
    BY <2>4 DEF vars, Inv, TypeOK, Owed
  <2> QED BY <2>1, <2>2, <2>3, <2>4 DEF Next
<1> QED BY <1>1, <1>2, PTL DEF Spec

(* In any window of time an address gets at most a full bucket and its   *)
(* earnings in the window through the limiter (server.go:481-512), with  *)
(* evictions at any time.                                                *)
THEOREM LimiterWindowBound == Spec => []WindowBound
<1>1. Inv => WindowBound
  <2> SUFFICES ASSUME Inv, NEW a \in Peer
               PROVE  Cost * allowed[a] <= capacity + rate * (clock - since[a])
    BY Zenon DEF WindowBound
  <2>1. TypeOK /\ OwedAt(a)
    BY OwedPointwise DEF Inv
  <2>2. /\ Refill(Found(a)) \in 0 .. capacity
        /\ Cost * allowed[a] + Refill(Found(a)) <= capacity + rate * (clock - since[a])
    BY <2>1, RefilledOwed
  <2>3. Cost * allowed[a] \in Int /\ rate * (clock - since[a]) \in Int
    BY <2>1, LimiterAssumption DEF TypeOK
  <2> QED BY <2>2, <2>3, LimiterAssumption
<1> QED BY <1>1, LimiterInvariant, PTL

=============================================================================
