------------------------------ MODULE Recovery ------------------------------
(***************************************************************************)
(* Guardian recovery (api/recovery.go).  Initiating a recovery splits a    *)
(* fresh token into one Shamir share per guardian of the configuration     *)
(* read (pkg/recovery; see SecretSharing) and hands the shares out one     *)
(* event at a time, in the order of the list, which may name a guardian    *)
(* twice; an approval inserts the guardian's share row and then writes     *)
(* back the counter of the request row it read first.                      *)
(***************************************************************************)
EXTENDS Naturals, FiniteSets, Sequences

CONSTANTS
    Handler,      \* goroutines serving requests
    Guardian,     \* guardian DIDs; any caller may approve
    GuardianList, \* bound: the lists of guardians a subject may enrol
    MaxApprovals, \* bound: approvals of the request
    None

VARIABLES
    recoveryConfig,  \* table recovery_configs: the row of the subject
    recoveryRequest, \* table recovery_requests: one request
    shares,          \* table recovery_shares: the guardians who approved it
    handed,          \* shares handed out, by index: the guardian and the
                     \* threshold of the split
    pc, copy,
    approvals,       \* history: approvals accepted
    repeated         \* history: a guardian approved twice, approvals
                     \* overlapped or an update failed

local == <<pc, copy>>
vars == <<recoveryConfig, recoveryRequest, shares, handed, local, approvals, repeated>>

RecoveryConfig == [guardians : GuardianList, threshold : Nat]

Init ==
    /\ recoveryConfig = None /\ recoveryRequest = None
    /\ shares = {} /\ handed = <<>>
    /\ pc = [p \in Handler |-> "idle"]
    /\ copy = [p \in Handler |-> None]
    /\ approvals = 0 /\ repeated = FALSE

Goto(p, next, x) ==
    /\ pc' = [pc EXCEPT ![p] = next]
    /\ copy' = [copy EXCEPT ![p] = x]

-----------------------------------------------------------------------------

\* handleRecoveryEnrol: an upsert, at any time.
RecoveryEnrol(gs, t) ==
    /\ Len(gs) >= 2 /\ t \in 2..Len(gs)
    /\ recoveryConfig' = [guardians |-> gs, threshold |-> t]
    /\ UNCHANGED <<recoveryRequest, shares, handed, local, approvals, repeated>>

\* handleRecoveryInitiate: GetRecoveryConfig and Split ...
RecoveryInitiate(p) ==
    /\ pc[p] = "idle"
    /\ recoveryConfig # None /\ recoveryRequest = None
    /\ \A q \in Handler : pc[q] # "saveRequest"
    /\ Goto(p, "saveRequest", recoveryConfig)
    /\ UNCHANGED <<recoveryConfig, recoveryRequest, shares, handed, approvals, repeated>>

\* ... SaveRecoveryRequest, and one event per guardian.
SaveRecoveryRequest(p) ==
    /\ pc[p] = "saveRequest"
    /\ \/ recoveryRequest' = 0 /\ Goto(p, "publish", copy[p])
       \/ UNCHANGED recoveryRequest /\ Goto(p, "idle", None)
    /\ UNCHANGED <<recoveryConfig, shares, handed, approvals, repeated>>

\* The share at the next index goes to the guardian at that place.
Deliver(cfg) ==
    handed' = Append(handed, [guardian |-> cfg.guardians[Len(handed) + 1],
                              threshold |-> cfg.threshold])

\* Fault variant: the last guardian gets no share.
HandOutShort(p) ==
    /\ pc[p] = "publish"
    /\ IF Len(handed) + 1 < Len(copy[p].guardians)
       THEN Deliver(copy[p]) /\ UNCHANGED local
       ELSE Goto(p, "idle", None) /\ UNCHANGED handed
    /\ UNCHANGED <<recoveryConfig, recoveryRequest, shares, approvals, repeated>>

HandOut(p) ==
    /\ pc[p] = "publish"
    /\ IF Len(handed) < Len(copy[p].guardians)
       THEN Deliver(copy[p]) /\ UNCHANGED local
       ELSE Goto(p, "idle", None) /\ UNCHANGED handed
    /\ UNCHANGED <<recoveryConfig, recoveryRequest, shares, approvals, repeated>>

\* handleRecoveryApprove: GetRecoveryRequest (Completed is never set), ...
RecoveryApprove(p, g) ==
    /\ pc[p] = "idle"
    /\ recoveryRequest # None /\ approvals < MaxApprovals
    /\ Goto(p, "saveShare", [guardian |-> g, count |-> recoveryRequest])
    /\ repeated' = (repeated \/ \E q \in Handler : pc[q] \in {"saveShare", "updateRequest"})
    /\ UNCHANGED <<recoveryConfig, recoveryRequest, shares, handed, approvals>>

\* ... SaveRecoveryShare, which does nothing for a second share, ...
SaveRecoveryShare(p) ==
    /\ pc[p] = "saveShare"
    /\ \/ /\ shares' = shares \cup {copy[p].guardian}
          /\ repeated' = (repeated \/ copy[p].guardian \in shares)
          /\ Goto(p, "updateRequest", copy[p])
       \/ Goto(p, "idle", None) /\ UNCHANGED <<shares, repeated>>
    /\ UNCHANGED <<recoveryConfig, recoveryRequest, handed, approvals>>

\* Fault variant: the counter is written back as it was read.
UpdateRecoveryRequestStale(p) ==
    /\ pc[p] = "updateRequest"
    /\ recoveryRequest' = copy[p].count
    /\ approvals' = approvals + 1
    /\ Goto(p, "idle", None)
    /\ UNCHANGED <<recoveryConfig, shares, handed, repeated>>

\* ... and UpdateRecoveryRequest, its error ignored.
UpdateRecoveryRequest(p) ==
    /\ pc[p] = "updateRequest"
    /\ \/ recoveryRequest' = copy[p].count + 1 /\ UNCHANGED repeated
       \/ repeated' = TRUE /\ UNCHANGED recoveryRequest
    /\ approvals' = approvals + 1
    /\ Goto(p, "idle", None)
    /\ UNCHANGED <<recoveryConfig, shares, handed>>

Next ==
    \/ \E gs \in GuardianList : \E t \in 0..(Len(gs) + 1) : RecoveryEnrol(gs, t)
    \/ \E p \in Handler :
          \/ RecoveryInitiate(p) \/ SaveRecoveryRequest(p) \/ HandOut(p)
          \/ SaveRecoveryShare(p) \/ UpdateRecoveryRequest(p)
          \/ \E g \in Guardian : RecoveryApprove(p, g)

Spec == Init /\ [][Next]_vars

-----------------------------------------------------------------------------
(* Properties *)

\* Every variable has its type.
TypeOK ==
    /\ recoveryConfig = None \/ recoveryConfig \in RecoveryConfig
    /\ recoveryRequest = None \/ recoveryRequest \in 0..(MaxApprovals + Cardinality(Handler))
    /\ shares \subseteq Guardian
    /\ \A i \in DOMAIN handed :
          handed[i].guardian \in Guardian /\ handed[i].threshold \in Nat
    /\ pc \in [Handler -> {"idle", "saveRequest", "publish", "saveShare", "updateRequest"}]
    /\ approvals \in Nat /\ repeated \in BOOLEAN

\* The count shown to the subject and the guardians is the number of guardians
\* whose share was stored, once their requests are done, unless approvals
\* overlapped, one guardian approved twice or an update failed.  With those it
\* is still never more than the approvals made.
SharesCollectedCounts ==
    recoveryRequest # None =>
        /\ recoveryRequest <= approvals
        /\ (~repeated /\ \A p \in Handler : pc[p] # "updateRequest")
           => recoveryRequest = Cardinality(shares)

\* The shares that the guardians of G hold together.
Held(G) == {i \in DOMAIN handed : handed[i].guardian \in G}

\* "M-of-N": once the shares of a request are out, they come from one split,
\* however the configuration was replaced in between; its threshold is within
\* their number; and if none was named twice (recovery.go:31 looks only at the
\* length of the list), the groups who hold the threshold are those of at least
\* that many guardians.
QuorumHoldsShares ==
    (recoveryRequest # None /\ \A p \in Handler : pc[p] # "publish") =>
        \E t \in 2..Len(handed) :
            LET named == {handed[i].guardian : i \in DOMAIN handed} IN
            /\ \A i \in DOMAIN handed : handed[i].threshold = t
            /\ Cardinality(named) = Len(handed) =>
                 \A G \in SUBSET named :
                     Cardinality(Held(G)) >= t <=> Cardinality(G) >= t

=============================================================================
