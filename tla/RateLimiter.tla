----------------------------- MODULE RateLimiter -----------------------------
(***************************************************************************)
(* The per-address token bucket in front of every route.  Time advances in *)
(* ticks; tokens are counted in parts of which a request costs Cost, so    *)
(* that a bucket may hold a fraction of a token, as the code's floats do   *)
(* (rounding is left out).  Buckets idle for longer than Idle are evicted  *)
(* by a background goroutine and start full when the address comes back.   *)
(* An observer may open a window of time for an address at any moment and  *)
(* counts the requests that pass in it.                                    *)
(***************************************************************************)
EXTENDS Integers

CONSTANTS Peer,       \* addresses requests come from
          Proxy,      \* those of a trusted proxy
          rate,       \* parts of a token an address earns per tick
          capacity,   \* parts a full bucket holds
          Cost,       \* parts of one token
          Idle,       \* ticks without a request before eviction
          MaxTime,    \* bound on the clock
          None

VARIABLES buckets,    \* address -> [tokens, lastSeen], or None
          clock,      \* time.Now()
          allowed,    \* requests an address got through in its window
          since       \* when its window was opened

vars == <<buckets, clock, allowed, since>>

ASSUME LimiterAssumption ==
  /\ rate \in Nat
  /\ capacity \in Nat
  /\ Cost \in Nat \ {0}
  /\ Idle \in Nat
  /\ MaxTime \in Nat
  /\ None \notin [tokens : Int, lastSeen : Int]

(* An idle bucket has had the time to fill up: 10 minutes at rate against *)
(* a capacity of int(2*rate), server.go:131 and 504.                      *)
ASSUME IdleFills == capacity <= rate * Idle

Bucket == [tokens : 0 .. capacity, lastSeen : Nat]

Init ==
  /\ buckets = [a \in Peer |-> None]
  /\ clock = 0
  /\ allowed = [a \in Peer |-> 0]
  /\ since = [a \in Peer |-> 0]

(* clientIP: X-Forwarded-For counts only on a trusted proxy's connection. *)
clientIP(peer, forwarded) ==
  IF peer \in Proxy /\ forwarded # None THEN forwarded ELSE peer

\* Fault variant: an idle bucket is filled without a limit.
RefillUncapped(b) == b.tokens + rate * (clock - b.lastSeen)

(* The tokens of a bucket once the time since its last request is added. *)
Refill(b) ==
  LET t == b.tokens + rate * (clock - b.lastSeen)
  IN IF t > capacity THEN capacity ELSE t

(* The bucket Allow works on: a new one is full. *)
Found(a) ==
  IF buckets[a] = None THEN [tokens |-> capacity, lastSeen |-> clock] ELSE buckets[a]

(* rateLimit and Allow, under the limiter's mutex. *)
Allow(peer, forwarded) ==
  LET a == clientIP(peer, forwarded)
      t == Refill(Found(a))
  IN /\ \/ /\ t < Cost
           /\ buckets' = [buckets EXCEPT ![a] = [tokens |-> t, lastSeen |-> clock]]
           /\ UNCHANGED allowed
        \/ /\ t >= Cost
           /\ buckets' = [buckets EXCEPT ![a] = [tokens |-> t - Cost, lastSeen |-> clock]]
           /\ allowed' = [allowed EXCEPT ![a] = @ + 1]
     /\ UNCHANGED <<clock, since>>

(* The background goroutine deletes every bucket idle for too long. *)
evict ==
  /\ buckets' = [a \in Peer |->
                   IF buckets[a] # None /\ buckets[a].lastSeen < clock - Idle
                   THEN None ELSE buckets[a]]
  /\ UNCHANGED <<clock, allowed, since>>

Tick ==
  /\ clock < MaxTime
  /\ clock' = clock + 1
  /\ UNCHANGED <<buckets, allowed, since>>

OpenWindow(a) ==
  /\ allowed' = [allowed EXCEPT ![a] = 0]
  /\ since' = [since EXCEPT ![a] = clock]
  /\ UNCHANGED <<buckets, clock>>

Next ==
  \/ \E peer \in Peer, forwarded \in Peer \cup {None} : Allow(peer, forwarded)
  \/ evict
  \/ Tick
  \/ \E a \in Peer : OpenWindow(a)

Spec == Init /\ [][Next]_vars

\* Every variable has its type.
TypeOK ==
  /\ buckets \in [Peer -> Bucket \cup {None}]
  /\ clock \in Nat
  /\ allowed \in [Peer -> Nat]
  /\ since \in [Peer -> Nat]

(* In any window of time, however it lies to the requests and to the     *)
(* evictions, an address gets at most a full bucket and what it earned   *)
(* in the window through (server.go:481): deleting an idle bucket, which *)
(* hands its address a full one, gives it nothing extra.                 *)
WindowBound ==
  \A a \in Peer : Cost * allowed[a] <= capacity + rate * (clock - since[a])

(* The inductive strengthening: what a bucket still holds counts against *)
(* the window up to its last request, and an address without a bucket    *)
(* has room for a full one.                                              *)
Owed ==
  \A a \in Peer :
    /\ since[a] <= clock
    /\ buckets[a] = None => Cost * allowed[a] <= rate * (clock - since[a])
    /\ buckets[a] # None =>
         /\ buckets[a].lastSeen <= clock
         /\ buckets[a].lastSeen < since[a] => allowed[a] = 0
         /\ buckets[a].lastSeen >= since[a] =>
              Cost * allowed[a] + buckets[a].tokens
                <= capacity + rate * (buckets[a].lastSeen - since[a])

==============================================================================
