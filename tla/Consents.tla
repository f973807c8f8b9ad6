------------------------------ MODULE Consents ------------------------------
(***************************************************************************)
(* Consent grants: the store's rows as the HTTP handlers write and delete  *)
(* them, and the in-memory Policy built from the rows, which decides who   *)
(* may read which schema.  One subject is modelled, and one category that  *)
(* holds every schema.  A grant's id, level and flags come from the        *)
(* request body, so an id may be used again once its row is deleted.       *)
(***************************************************************************)
EXTENDS Naturals, Sequences, FiniteSets

CONSTANTS GrantID,     \* grant ids a client may choose
          Relying,     \* relying parties
          Schema,      \* schemas of the registry
          Sensitive,   \* the extra-sensitive ones
          MaxPolicy,   \* bound on the entries of a Policy
          None

VARIABLES grants,      \* consent_grants: GrantID -> row or None
          policy,      \* Policy.grants, in order
          today        \* has the expiry date that some grants carry passed?

vars == <<grants, policy, today>>

Category == "category"

(* consent.Grant.  ExpiresAt is the one date the model has, or none. *)
Grant == [relying : Relying, level : {"schema", "category"},
          scope : Schema \cup {Category}, expires : BOOLEAN,
          confirmed : BOOLEAN]

(* An entry of Policy.grants. *)
Entry == [id : GrantID, grant : Grant, revoked : BOOLEAN]

Init ==
  /\ grants = [g \in GrantID |-> None]
  /\ policy = <<>>
  /\ today = FALSE

Stored == {g \in GrantID : grants[g] # None}

(* ExtraSensitive of schema.GetSchema, FALSE for an unknown schema. *)
ExtraSensitive(scope) == scope \in Sensitive

\* Fault variant: extra-sensitive schemas need no confirmation.
AcceptedUnconfirmed(g) == g.level = "category" => g.confirmed

(* The checks of handleCreateGrant: nothing looks up the scope. *)
Accepted(g) ==
  /\ g.level = "category" => g.confirmed
  /\ g.level = "schema" /\ ExtraSensitive(g.scope) => g.confirmed

(* validateGrant, the checks of Policy.AddGrant. *)
validateGrant(g) ==
  \/ /\ g.level = "schema"
     /\ g.scope \in Schema
     /\ ExtraSensitive(g.scope) => g.confirmed
  \/ /\ g.level = "category"
     /\ g.scope = Category
     /\ g.confirmed

(* POST /consents: INSERT, which fails on an id that has a row. *)
CreateGrant(id, g) ==
  /\ Accepted(g)
  /\ id \notin Stored
  /\ grants' = [grants EXCEPT ![id] = g]
  /\ UNCHANGED <<policy, today>>

(* DELETE /consents/{id}: handleRevokeGrant deletes the row. *)
RevokeGrant(id) ==
  /\ id \in Stored
  /\ grants' = [grants EXCEPT ![id] = None]
  /\ UNCHANGED <<policy, today>>

(* NewPolicy over the rows ListGrants returns, in any order of their     *)
(* granted_at; a row read from the store has no RevokedAt.               *)
NewPolicy ==
  \E order \in [1 .. Cardinality(Stored) -> Stored] :
    /\ \A i, j \in DOMAIN order : i # j => order[i] # order[j]
    /\ policy' = [i \in DOMAIN order |->
                    [id |-> order[i], grant |-> grants[order[i]], revoked |-> FALSE]]
    /\ UNCHANGED <<grants, today>>

(* Policy.AddGrant: appends, whatever ids the policy already has. *)
AddGrant(id, g) ==
  /\ Len(policy) < MaxPolicy
  /\ validateGrant(g)
  /\ policy' = Append(policy, [id |-> id, grant |-> g, revoked |-> FALSE])
  /\ UNCHANGED <<grants, today>>

(* Policy.RevokeGrant: the first entry with the id, and an error when    *)
(* that entry is revoked already.                                        *)
PolicyRevoke(id) ==
  \E i \in DOMAIN policy :
    /\ policy[i].id = id
    /\ \A j \in 1 .. i - 1 : policy[j].id # id
    /\ ~policy[i].revoked
    /\ policy' = [policy EXCEPT ![i].revoked = TRUE]
    /\ UNCHANGED <<grants, today>>

(* The expiry date passes. *)
DayPasses == ~today /\ today' = TRUE /\ UNCHANGED <<grants, policy>>

Live(e) == ~e.revoked /\ ~(e.grant.expires /\ today)

(* One turn of the loop of CanAccess. *)
Covers(e, r, s) ==
  /\ e.grant.relying = r
  /\ Live(e)
  /\ \/ e.grant.level = "schema" /\ e.grant.scope = s
     \/ /\ e.grant.level = "category"
        /\ e.grant.scope = Category
        /\ ~ExtraSensitive(s)
        /\ e.grant.confirmed

CanAccess(r, s) == \E i \in DOMAIN policy : Covers(policy[i], r, s)

Next ==
  \/ \E id \in GrantID, g \in Grant : CreateGrant(id, g)
  \/ \E id \in GrantID : RevokeGrant(id)
  \/ NewPolicy
  \/ \E id \in GrantID, g \in Grant : AddGrant(id, g)
  \/ \E id \in GrantID : PolicyRevoke(id)
  \/ DayPasses

Spec == Init /\ [][Next]_vars

\* Every variable has its type.
TypeOK ==
  /\ grants \in [GrantID -> Grant \cup {None}]
  /\ \A i \in DOMAIN policy : policy[i] \in Entry
  /\ today \in BOOLEAN

(* Whatever grants the handlers let into the store or AddGrant into the  *)
(* policy, CanAccess (policy.go:53) lets a relying party at an           *)
(* extra-sensitive schema only under a live grant for that very schema   *)
(* which the subject confirmed explicitly.  CanAccess itself never looks *)
(* at ExplicitlyConfirmed of a schema grant: the two checks on the way   *)
(* in (consents.go:39, policy.go:138) have to make up for it.            *)
SensitiveNeedsConfirmation ==
  \A r \in Relying, s \in Sensitive :
    CanAccess(r, s) =>
      \E i \in DOMAIN policy :
        /\ policy[i].grant.relying = r
        /\ policy[i].grant.level = "schema"
        /\ policy[i].grant.scope = s
        /\ policy[i].grant.confirmed
        /\ Live(policy[i])

==============================================================================
