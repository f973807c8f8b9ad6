--------------------------- MODULE WalletExchange ---------------------------
(***************************************************************************)
(* The two wallet protocols.  OID4VP: a verifier creates a presentation    *)
(* request, a wallet posts its response under the request's id, the        *)
(* verifier polls for it; both live in memory and an evictor drops expired *)
(* ones.  OID4VCI: an issuer stores a credential offer, a wallet redeems   *)
(* its pre-authorized code for an access token and asks for a credential   *)
(* with it.  Schema ids are model values: no id of the registry is part of *)
(* another, so the substring test on the scope is membership.              *)
(***************************************************************************)
EXTENDS Naturals

CONSTANTS Handler,      \* concurrent redemptions
          RequestID,    \* ids of presentation requests, and what a wallet
                        \* may send as state
          Offer,        \* offer ids, which are the pre-authorized codes
          Schema,       \* credential schemas
          Subject,      \* subjects an offer may be bound to
          MaxUses,      \* bound on the counting of redemptions
          None

VARIABLES requests,     \* ids in OID4VPStore.requests
          overdue,      \* ids past their ExpiresAt
          responses,    \* ids in OID4VPStore.responses
          orphans,      \* ids that were posted to while no request had them
          offers,       \* credential_offers: Offer -> row or None
          lapsed,       \* offers past their ExpiresAt
          tokens,       \* offers whose access token is out
          issued,       \* the credential issued last
          pc, copy,     \* a handler's place, and the offer it read
          redeemed,     \* tokens handed out for an offer
          contended     \* offers two handlers held at a time, or that could
                        \* not be marked

vp == <<requests, overdue, responses, orphans>>
vci == <<offers, lapsed, tokens, issued, pc, copy, redeemed, contended>>
vars == <<requests, overdue, responses, orphans, offers, lapsed, tokens, issued,
          pc, copy, redeemed, contended>>

(* store.CredentialOffer; an offer may be bound to no subject. *)
CredentialOffer == [schemas : SUBSET Schema, subject : Subject \cup {None}, used : BOOLEAN]

Init ==
  /\ requests = {}
  /\ overdue = {}
  /\ responses = {}
  /\ orphans = {}
  /\ offers = [o \in Offer |-> None]
  /\ lapsed = {}
  /\ tokens = {}
  /\ issued = None
  /\ pc = [p \in Handler |-> "idle"]
  /\ copy = [p \in Handler |-> None]
  /\ redeemed = [o \in Offer |-> 0]
  /\ contended = {}

-----------------------------------------------------------------------------
(* POST /oid4vp/requests: a fresh id, under the store's lock. *)
CreateRequest(i) ==
  /\ i \notin requests \cup overdue
  /\ requests' = requests \cup {i}
  /\ UNCHANGED <<overdue, responses, orphans, vci>>

(* POST /oid4vp/responses: stored under whatever state the wallet sends; *)
(* a second response replaces the first.                                 *)
PostResponse(i) ==
  /\ responses' = responses \cup {i}
  /\ orphans' = IF i \in requests THEN orphans ELSE orphans \cup {i}
  /\ UNCHANGED <<requests, overdue, vci>>

(* The request's time is up. *)
RequestExpires(i) ==
  /\ i \in requests
  /\ overdue' = overdue \cup {i}
  /\ UNCHANGED <<requests, responses, orphans, vci>>

\* Fault variant: the responses are left behind.
evictRequests ==
  /\ requests' = requests \ overdue
  /\ UNCHANGED <<overdue, responses, orphans, vci>>

(* evict: every expired request goes, and its response with it. *)
evict ==
  /\ requests' = requests \ overdue
  /\ responses' = responses \ (requests \cap overdue)
  /\ UNCHANGED <<overdue, orphans, vci>>

(* GET /oid4vp/requests/{id}: the verifier's request, for the wallet. *)
GetRequest(i) ==
  CASE i \notin requests -> "not found"
    [] i \in requests \cap overdue -> "gone"
    [] OTHER -> "ok"

(* GET /oid4vp/responses/{id}: what the verifier that polls is told. *)
GetResponse(i) == IF i \in responses THEN "complete" ELSE "pending"

-----------------------------------------------------------------------------
Goto(p, step, value) ==
  /\ pc' = [pc EXCEPT ![p] = step]
  /\ copy' = [copy EXCEPT ![p] = value]

(* POST /oid4vci/offers: at least one schema. *)
CreateCredentialOffer(o, schemas, subject) ==
  /\ offers[o] = None
  /\ schemas # {}
  /\ offers' = [offers EXCEPT ![o] = [schemas |-> schemas, subject |-> subject, used |-> FALSE]]
  /\ UNCHANGED <<lapsed, tokens, issued, pc, copy, redeemed, contended, vp>>

OfferExpires(o) ==
  /\ offers[o] # None
  /\ lapsed' = lapsed \cup {o}
  /\ UNCHANGED <<offers, tokens, issued, pc, copy, redeemed, contended, vp>>

HeldElsewhere(p, o) == \E q \in Handler \ {p} : pc[q] = "mark" /\ copy[q] = o

\* Fault variant: the used flag is not looked at.
RedeemGetUsed(p, o) ==
  /\ pc[p] = "idle"
  /\ offers[o] # None /\ o \notin lapsed
  /\ Goto(p, "mark", o)
  /\ contended' = IF HeldElsewhere(p, o) THEN contended \cup {o} ELSE contended
  /\ UNCHANGED <<offers, lapsed, tokens, issued, redeemed, vp>>

(* handlePreAuthorizedCode: the offer is there, not used, not expired. *)
RedeemGet(p, o) ==
  /\ pc[p] = "idle"
  /\ offers[o] # None /\ ~offers[o].used /\ o \notin lapsed
  /\ Goto(p, "mark", o)
  /\ contended' = IF HeldElsewhere(p, o) THEN contended \cup {o} ELSE contended
  /\ UNCHANGED <<offers, lapsed, tokens, issued, redeemed, vp>>

(* handlePreAuthorizedCode: MarkCredentialOfferUsed, its error ignored,  *)
(* and the access token scoped to the offer's schemas.                   *)
RedeemMark(p) ==
  LET o == copy[p] IN
  /\ pc[p] = "mark"
  /\ \/ offers' = [offers EXCEPT ![o].used = TRUE] /\ UNCHANGED contended
     \/ UNCHANGED offers /\ contended' = contended \cup {o}
  /\ tokens' = tokens \cup {o}
  /\ redeemed' = [redeemed EXCEPT ![o] = IF @ < MaxUses THEN @ + 1 ELSE @]
  /\ Goto(p, "idle", None)
  /\ UNCHANGED <<lapsed, issued, vp>>

(* The scope of an offer's token: "credential:" and each schema. *)
OfferScope(o) == offers[o].schemas

(* The claims of the access tokens a wallet may present: an offer's, and  *)
(* those of the other grants, which put no scope into them.               *)
Bearer ==
  {[scope |-> OfferScope(o), subject |-> offers[o].subject] : o \in tokens}
    \cup [scope : {{}}, subject : Subject]

(* POST /oid4vci/credential: the scope, if there is one, covers the      *)
(* schema and the token names a subject.                                 *)
CredentialHandler(claims, s) ==
  /\ claims.scope = {} \/ s \in claims.scope
  /\ claims.subject # None
  /\ issued' = [schema |-> s, subject |-> claims.subject]
  /\ UNCHANGED <<offers, lapsed, tokens, pc, copy, redeemed, contended, vp>>

Next ==
  \/ \E i \in RequestID : CreateRequest(i) \/ PostResponse(i) \/ RequestExpires(i)
  \/ evict
  \/ \E o \in Offer :
       \/ \E schemas \in SUBSET Schema, subject \in Subject \cup {None} :
            CreateCredentialOffer(o, schemas, subject)
       \/ OfferExpires(o)
  \/ \E claims \in Bearer, s \in Schema : CredentialHandler(claims, s)
  \/ \E p \in Handler : (\E o \in Offer : RedeemGet(p, o)) \/ RedeemMark(p)

Spec == Init /\ [][Next]_vars

\* Every variable has its type.
TypeOK ==
  /\ requests \cup overdue \cup responses \cup orphans \subseteq RequestID
  /\ offers \in [Offer -> CredentialOffer \cup {None}]
  /\ lapsed \subseteq Offer
  /\ tokens \subseteq Offer
  /\ issued \in [schema : Schema, subject : Subject] \cup {None}
  /\ pc \in [Handler -> {"idle", "mark"}]
  /\ copy \in [Handler -> Offer \cup {None}]
  /\ redeemed \in [Offer -> 0 .. MaxUses]

(* evict (oid4vp.go:67) drops a request and its response together: a     *)
(* response that a verifier can poll has its request, so that it will be *)
(* evicted in its time, unless it was posted while there was no request  *)
(* by its id (oid4vp.go:224 does not look), in which case nothing        *)
(* removes it.                                                           *)
ResponsesGoWithRequests ==
  \A i \in RequestID :
    GetResponse(i) = "complete" => GetRequest(i) # "not found" \/ i \in orphans

(* The code of an offer is checked and marked in two store calls         *)
(* (oid4vci.go:152, 166): it gives one token unless two redemptions held *)
(* the offer at a time or the mark failed.                               *)
OfferRedeemedOnceAlone ==
  \A o \in Offer : o \notin contended => redeemed[o] <= 1

=============================================================================
