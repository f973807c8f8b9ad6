---------------------------- MODULE AuthFailures ----------------------------
(***************************************************************************)
(* The row of the auth_failures table that counts the failures of one key  *)
(* (a DID, a login identifier or "reset:" + identifier), and the store     *)
(* calls on it.  RecordAuthFailure is two statements, a SELECT and an      *)
(* upsert of the whole row, so overlapping calls lose updates; the error   *)
(* of its read is ignored and counts from zero.  No code calls             *)
(* CheckLocked: a lock is kept in the row and refuses nobody.              *)
(***************************************************************************)
EXTENDS Integers

CONSTANTS
    Handler,     \* goroutines serving requests
    lockThreshold1, lockThreshold2, lockThreshold3,
    MaxCount,    \* bound: counts above the last threshold and the limit are alike
    None

VARIABLES
    failure,     \* the row
    pc, copy,
    tally,       \* history: failures since the row was last cleared
    disturbed    \* history: calls overlapped or one failed since then

AuthFailure ==
    [count : 1..MaxCount, lock : {"none", "short", "long", "permanent"}]

InitFailure ==
    /\ failure = None
    /\ pc = [p \in Handler |-> "idle"]
    /\ copy = [p \in Handler |-> None]
    /\ tally = 0 /\ disturbed = FALSE

-----------------------------------------------------------------------------

Goto(p, next, x) ==
    /\ pc' = [pc EXCEPT ![p] = next]
    /\ copy' = [copy EXCEPT ![p] = x]

Respond(p) == Goto(p, "idle", None)

\* Another handler is between two calls on the row.
Busy(p) == \E q \in Handler \ {p} : pc[q] # "idle"

\* GetAuthFailures
CountOf == IF failure = None THEN 0 ELSE failure.count

\* Counting stops at MaxCount: larger counts get the same lock.
Increment(n) == IF n < MaxCount THEN n + 1 ELSE n

LockFor(n) ==
    CASE n >= lockThreshold3 -> "permanent"
      [] n >= lockThreshold2 /\ n < lockThreshold3 -> "long"
      [] n >= lockThreshold1 /\ n < lockThreshold2 -> "short"
      [] OTHER -> "none"

\* RecordAuthFailure: the SELECT; an error counts as zero.
RecordRead(p) ==
    /\ pc[p] = "recordRead"
    /\ \E ok \in BOOLEAN :
          /\ Goto(p, "recordWrite", IF ok THEN CountOf ELSE 0)
          /\ disturbed' = (disturbed \/ ~ok)
    /\ UNCHANGED <<failure, tally>>

\* Fault variant: a row that exists keeps its count.
RecordWriteOnce(p) ==
    /\ pc[p] = "recordWrite"
    /\ failure' = IF failure # None THEN failure ELSE [count |-> 1, lock |-> LockFor(1)]
    /\ disturbed' = (disturbed \/ Busy(p))
    /\ tally' = IF disturbed' THEN 0 ELSE Increment(tally)
    /\ Respond(p)

\* RecordAuthFailure: the upsert; its error is ignored by every caller.
RecordWrite(p) ==
    /\ pc[p] = "recordWrite"
    /\ \E ok \in BOOLEAN :
       LET n == Increment(copy[p]) IN
       /\ failure' = IF ok THEN [count |-> n, lock |-> LockFor(n)] ELSE failure
       /\ disturbed' = (disturbed \/ ~ok \/ Busy(p))
    /\ tally' = IF disturbed' THEN 0 ELSE Increment(tally)
    /\ Respond(p)

\* ClearAuthFailures, with outcome ok.
ClearAuthFailures(p, ok) ==
    /\ failure' = IF ok THEN None ELSE failure
    /\ disturbed' = (~ok \/ Busy(p))
    /\ tally' = 0

\* The administrator's reset.
AdminClearLockout(p) ==
    /\ pc[p] = "idle"
    /\ ClearAuthFailures(p, TRUE)
    /\ UNCHANGED <<pc, copy>>

-----------------------------------------------------------------------------

\* "5 failures -> 5 min; 10 -> 30 min; 20 -> permanent": the row is what the
\* failures since it was last cleared call for, whatever callers recorded
\* them, unless calls overlapped or one failed.
FailuresCountedAlone ==
    ~disturbed => failure = IF tally = 0 THEN None
                            ELSE [count |-> tally, lock |-> LockFor(tally)]

=============================================================================
