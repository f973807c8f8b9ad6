--------------------------- MODULE ConsentsProofs ---------------------------
(***************************************************************************)
(* Access to an extra-sensitive schema needs a confirmed grant for it, for *)
(* any grants, schemas and relying parties.  CanAccess does not look at    *)
(* the confirmation of a schema grant; what carries the proof is that      *)
(* every row of the store and every entry of a policy passed one of the    *)
(* two checks, and that a policy is built from rows.                       *)
(***************************************************************************)
EXTENDS Consents, FiniteSetTheorems, TLAPS

\* A grant for an extra-sensitive schema is confirmed.
Confirmed(g) == g.level = "schema" /\ g.scope \in Sensitive => g.confirmed

Inv ==
  /\ grants \in [GrantID -> Grant \cup {None}]
  /\ IsFiniteSet(Stored)
  /\ \A id \in Stored : Confirmed(grants[id])
  /\ policy \in Seq(Entry)
  /\ \A i \in DOMAIN policy : Confirmed(policy[i].grant)

-----------------------------------------------------------------------------

\* No rows and no entries.
LEMMA InitInv == ASSUME Init PROVE Inv
<1>1. policy = <<>> /\ policy \in Seq(Entry) /\ DOMAIN policy = {}
  BY DEF Init
<1>2. grants \in [GrantID -> Grant \cup {None}] /\ Stored = {}
  BY DEF Init, Stored
<1> QED BY <1>1, <1>2, FS_EmptySet DEF Inv

\* A row that handleCreateGrant lets in.
LEMMA CreateGrantInv ==
    ASSUME Inv, NEW id \in GrantID, NEW g \in Grant, CreateGrant(id, g)
    PROVE  Inv'
<1>1. Confirmed(g)
  BY DEF CreateGrant, Accepted, ExtraSensitive, Confirmed
<1>2. /\ grants' = [grants EXCEPT ![id] = g] /\ UNCHANGED policy
      /\ grants' \in [GrantID -> Grant \cup {None}]
  BY DEF CreateGrant, Inv
<1>3. ASSUME NEW w \in Stored' PROVE Confirmed(grants'[w])
  BY <1>1, <1>2 DEF Inv, Stored
<1>4. IsFiniteSet(Stored')
  <2>1. Stored' \subseteq Stored \cup {id}
    BY <1>2 DEF Inv, Stored
  <2>2. IsFiniteSet(Stored \cup {id})
    BY FS_AddElement DEF Inv
  <2> QED BY <2>1, <2>2, FS_Subset
<1> QED BY <1>2, <1>3, <1>4 DEF Inv, Confirmed

\* A row is deleted.
LEMMA RevokeGrantInv ==
    ASSUME Inv, NEW id \in GrantID, RevokeGrant(id)
    PROVE  Inv'
<1>1. /\ grants' = [grants EXCEPT ![id] = None] /\ UNCHANGED policy
      /\ grants' \in [GrantID -> Grant \cup {None}]
  BY DEF RevokeGrant, Inv
<1>2. ASSUME NEW w \in Stored' PROVE Confirmed(grants'[w])
  BY <1>1 DEF Inv, Stored
<1>3. IsFiniteSet(Stored')
  <2>1. Stored' \subseteq Stored
    BY <1>1 DEF Inv, Stored
  <2> QED BY <2>1, FS_Subset DEF Inv
<1> QED BY <1>1, <1>2, <1>3 DEF Inv, Confirmed

\* A policy is built from rows.
LEMMA NewPolicyInv == ASSUME Inv, NewPolicy PROVE Inv'
<1>0. Cardinality(Stored) \in Nat
  BY FS_CardinalityType DEF Inv
<1>1. PICK order \in [1 .. Cardinality(Stored) -> Stored] :
        /\ policy' = [i \in DOMAIN order |->
                        [id |-> order[i], grant |-> grants[order[i]], revoked |-> FALSE]]
        /\ UNCHANGED grants
  BY Zenon DEF NewPolicy
<1> DEFINE n == Cardinality(Stored)
           entry(i) == [id |-> order[i], grant |-> grants[order[i]], revoked |-> FALSE]
<1>2. \A i \in 1 .. n : entry(i) \in Entry /\ Confirmed(entry(i).grant)
  <2> SUFFICES ASSUME NEW i \in 1 .. n PROVE entry(i) \in Entry /\ Confirmed(entry(i).grant)
    OBVIOUS
  <2>1. order[i] \in GrantID /\ grants[order[i]] \in Grant /\ Confirmed(grants[order[i]])
    BY DEF Inv, Stored
  <2> QED BY <2>1 DEF Entry
<1>3. policy' = [i \in 1 .. n |-> entry(i)]
  BY <1>1
<1> HIDE DEF entry
<1>4. policy' \in Seq(Entry) /\ \A i \in DOMAIN policy' : Confirmed(policy'[i].grant)
  BY <1>0, <1>2, <1>3 DEF Confirmed
<1> QED BY <1>1, <1>4 DEF Inv, Stored, Confirmed

\* Policy.AddGrant: validateGrant lets the grant in.
LEMMA AddGrantInv ==
    ASSUME Inv, NEW id \in GrantID, NEW g \in Grant, AddGrant(id, g)
    PROVE  Inv'
<1> DEFINE e == [id |-> id, grant |-> g, revoked |-> FALSE]
<1>1. Confirmed(g)
  BY DEF AddGrant, validateGrant, ExtraSensitive, Confirmed
<1>2. e \in Entry /\ e.grant = g
  BY DEF Entry
<1>3. policy' = Append(policy, e) /\ UNCHANGED grants
  BY DEF AddGrant
<1> HIDE DEF e
<1>4. policy' \in Seq(Entry) /\ \A i \in DOMAIN policy' : Confirmed(policy'[i].grant)
  BY <1>1, <1>2, <1>3 DEF Inv, Confirmed
<1> QED BY <1>3, <1>4 DEF Inv, Stored, Confirmed

\* Policy.RevokeGrant changes an entry's mark only.
LEMMA PolicyRevokeInv ==
    ASSUME Inv, NEW id \in GrantID, PolicyRevoke(id)
    PROVE  Inv'
<1>1. PICK i \in DOMAIN policy : policy' = [policy EXCEPT ![i].revoked = TRUE] /\ UNCHANGED grants
  BY Zenon DEF PolicyRevoke
<1>2. policy[i] \in Entry
  BY DEF Inv
<1>3. [policy[i] EXCEPT !.revoked = TRUE] \in Entry
      /\ [policy[i] EXCEPT !.revoked = TRUE].grant = policy[i].grant
  BY <1>2, Zenon DEF Entry
<1>4. policy' = [policy EXCEPT ![i] = [policy[i] EXCEPT !.revoked = TRUE]]
  BY <1>1
<1>5. policy' \in Seq(Entry)
  BY <1>3, <1>4 DEF Inv
<1>6. \A j \in DOMAIN policy' : j \in DOMAIN policy /\ policy'[j].grant = policy[j].grant
  BY <1>3, <1>4 DEF Inv
<1> QED BY <1>1, <1>5, <1>6 DEF Inv, Stored, Confirmed

LEMMA NextInv == ASSUME Inv, [Next]_vars PROVE Inv'
<1>1. CASE UNCHANGED <<grants, policy>>
  BY <1>1 DEF Inv, Stored, Confirmed
<1>2. CASE DayPasses
  BY <1>1, <1>2 DEF DayPasses
<1>3. CASE UNCHANGED vars
  BY <1>1, <1>3 DEF vars
<1> QED
  BY <1>2, <1>3, CreateGrantInv, RevokeGrantInv, NewPolicyInv, AddGrantInv, PolicyRevokeInv
     DEF Next

\* A live entry that covers an extra-sensitive schema is a schema grant for
\* it (CanAccess, policy.go:53), and so a confirmed one.
LEMMA CoversConfirmed ==
    ASSUME Inv, NEW i \in DOMAIN policy, NEW r \in Relying, NEW s \in Sensitive,
           Covers(policy[i], r, s)
    PROVE  /\ policy[i].grant.relying = r
           /\ policy[i].grant.level = "schema"
           /\ policy[i].grant.scope = s
           /\ policy[i].grant.confirmed
           /\ Live(policy[i])
<1>1. /\ policy[i].grant.relying = r /\ Live(policy[i])
      /\ policy[i].grant.level = "schema" /\ policy[i].grant.scope = s
  BY DEF Covers, ExtraSensitive
<1> QED BY <1>1 DEF Inv, Confirmed

\* Whatever grants the handlers let into the store or AddGrant into a
\* policy, CanAccess lets a relying party at an extra-sensitive schema only
\* under a live, confirmed grant for that schema (consents.go:39,
\* policy.go:53, 138).
THEOREM SensitiveNeedsConfirmationAlways == Spec => []SensitiveNeedsConfirmation
<1>1. Init => Inv
  BY InitInv
<1>2. Inv /\ [Next]_vars => Inv'
  BY NextInv
<1>3. Inv => SensitiveNeedsConfirmation
  BY CoversConfirmed DEF SensitiveNeedsConfirmation, CanAccess
<1> QED BY <1>1, <1>2, <1>3, PTL DEF Spec

=============================================================================
