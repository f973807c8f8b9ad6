---------------------------- MODULE GrantLedger ----------------------------
(***************************************************************************)
(* What the token endpoint promises about codes and refresh tokens, with   *)
(* no tables, no store calls and no failures in sight: an item is issued   *)
(* once, dies once and never comes back; a request is only ever accepted   *)
(* on a live item; and a token is issued for no reason but a request that  *)
(* was accepted.                                                           *)
(***************************************************************************)
CONSTANTS Item, Worker, Nobody

VARIABLES
    life,   \* each item: unborn, live or dead
    claim,  \* the item each worker's accepted request presented
    from    \* the item each issued item was derived from

vars == <<life, claim, from>>

Init ==
    /\ life = [i \in Item |-> "unborn"]
    /\ claim = [w \in Worker |-> Nobody]
    /\ from = [i \in Item |-> Nobody]

\* A user authorises something: an item with no predecessor is issued.
Issue(i) ==
    /\ life[i] = "unborn"
    /\ life' = [life EXCEPT ![i] = "live"]
    /\ UNCHANGED <<claim, from>>

\* A request that presents a live item is accepted.
Accept(w, i) ==
    /\ life[i] = "live"
    /\ claim' = [claim EXCEPT ![w] = i]
    /\ UNCHANGED <<life, from>>

\* The accepted request is served: its successor is issued.
Derive(w, i) ==
    /\ claim[w] # Nobody
    /\ life[i] = "unborn"
    /\ life' = [life EXCEPT ![i] = "live"]
    /\ from' = [from EXCEPT ![i] = claim[w]]
    /\ claim' = [claim EXCEPT ![w] = Nobody]

\* Live items are consumed, revoked or removed; dead ones stay dead.
Kill(S) ==
    /\ life' = [i \in Item |-> IF i \in S /\ life[i] = "live"
                               THEN "dead" ELSE life[i]]
    /\ UNCHANGED <<claim, from>>

\* Requests end without a successor.
Abandon(W) ==
    /\ claim' = [w \in Worker |-> IF w \in W THEN Nobody ELSE claim[w]]
    /\ UNCHANGED <<life, from>>

Next ==
    \/ \E i \in Item : Issue(i)
    \/ \E w \in Worker, i \in Item : Accept(w, i) \/ Derive(w, i)
    \/ \E S \in SUBSET Item : Kill(S)
    \/ \E W \in SUBSET Worker : Abandon(W)

Spec == Init /\ [][Next]_vars

=============================================================================
