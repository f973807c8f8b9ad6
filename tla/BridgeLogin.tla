---------------------------- MODULE BridgeLogin ----------------------------
(***************************************************************************)
(* External logins: how an identity at an external provider is mapped to a *)
(* platform DID, linked to and unlinked from it, and how magic links lead  *)
(* to such a login.                                                        *)
(*                                                                         *)
(* A login ends in FindOrCreate: read the link; if it is there write it    *)
(* back with a new LastUsedAt, else create an identity, a document and the *)
(* link, one store call each.  A password login runs FindOrCreate twice,   *)
(* once for the duress check and once to finish.  Every write may fail.    *)
(***************************************************************************)
EXTENDS Naturals, FiniteSets

CONSTANTS
    Handler,   \* goroutines serving requests
    Ext,       \* external identities: provider and external id
    Mail,      \* those of the magic-link provider
    Magic,     \* hashes of magic-link tokens
    DID,       \* the did:key identifiers that may be drawn
    Foreign,   \* other subjects of access tokens, whom no login stored
    None

VARIABLES
    identities,  \* table identities
    documents,   \* table did_documents
    links,       \* table external_provider_links: the subject of each link
    magic,       \* table magic_link_tokens: the address of each token
    expired,     \* magic-link tokens whose ExpiresAt has passed
    pc,          \* the next store call of each goroutine
    ext, did,    \* the external identity and the DID it works on
    token,       \* the magic-link token it is consuming
    rounds,      \* FindOrCreate calls the login has still to finish
    logins,      \* history: the DIDs each external identity's logins answered
                 \* with since it was unlinked, until requests overlapped
    adopted,     \* history: the DIDs LinkIdentity linked while not stored
    sent,        \* history: tokens drawn
    spent,       \* history: logins admitted per token, until its deletion failed
    undeleted,   \* history: tokens whose deletion failed
    overlap      \* history: has a request arrived while another was running?

tables == <<identities, documents, links, magic>>
local == <<pc, ext, did, token, rounds>>
uses == <<sent, spent, undeleted>>
vars == <<tables, expired, local, logins, adopted, uses, overlap>>

Init ==
    /\ identities = {} /\ documents = {}
    /\ links = [e \in Ext |-> None]
    /\ magic = [m \in Magic |-> None]
    /\ expired = {}
    /\ pc = [p \in Handler |-> "idle"]
    /\ ext = [p \in Handler |-> None]
    /\ did = [p \in Handler |-> None]
    /\ token = [p \in Handler |-> None]
    /\ rounds = [p \in Handler |-> 0]
    /\ logins = {} /\ adopted = {} /\ sent = {}
    /\ spent = [m \in Magic |-> 0]
    /\ undeleted = {} /\ overlap = FALSE

-----------------------------------------------------------------------------
(* Helpers *)

\* A request arrives at goroutine p.
Arrive(p) ==
    /\ pc[p] = "idle"
    /\ overlap' = (overlap \/ \E q \in Handler : pc[q] # "idle")

Goto(p, next, e, d, n) ==
    /\ pc' = [pc EXCEPT ![p] = next]
    /\ ext' = [ext EXCEPT ![p] = e]
    /\ did' = [did EXCEPT ![p] = d]
    /\ rounds' = [rounds EXCEPT ![p] = n]

Respond(p) == Goto(p, "idle", None, None, 0)

LinksOf(s) == {e \in Ext : links[e] = s}

\* The subjects of access tokens: the authorization and device endpoints
\* take the subject from their caller, so a login need not have completed, or
\* even begun.
SignedIn == identities \cup Foreign

\* Bound: an identity is created while a DID is left to draw.
DIDsLeft ==
    Cardinality(DID \ identities) >
        Cardinality({p \in Handler : pc[p] = "saveIdentity"})

-----------------------------------------------------------------------------
(* Mapper.FindOrCreate *)

\* GetExternalLink, with n calls of FindOrCreate to finish.
Find(p, e, n) ==
    \/ links[e] # None /\ Goto(p, "touch", e, links[e], n)
    \/ links[e] = None /\ DIDsLeft /\ Goto(p, "saveIdentity", e, None, n)

\* FindOrCreate returns: the password login's first call makes way for its
\* second whatever it returned; otherwise the login answers with the DID, or
\* with an error.
Return(p, ok) ==
    IF rounds[p] > 1
    THEN Goto(p, "find", ext[p], None, rounds[p] - 1) /\ UNCHANGED logins
    ELSE /\ Respond(p)
         /\ logins' = IF ok /\ ~overlap
                      THEN logins \cup {[ext |-> ext[p], did |-> did[p]]} ELSE logins

FindAgain(p) ==
    /\ pc[p] = "find"
    /\ Find(p, ext[p], rounds[p])
    /\ UNCHANGED <<tables, expired, token, logins, adopted, uses, overlap>>

\* The link is written back as it was read; the error is ignored.
FindTouch(p) ==
    /\ pc[p] = "touch"
    /\ \E ok \in BOOLEAN :
          /\ links' = IF ok THEN [links EXCEPT ![ext[p]] = did[p]] ELSE links
    /\ Return(p, TRUE)
    /\ UNCHANGED <<identities, documents, magic, expired, token, adopted, uses, overlap>>

\* Fault variant: the new DID is not handed on to the next call.
CreateIdentityForgotten(p) ==
    /\ pc[p] = "saveIdentity"
    /\ \E d \in DID \ identities : identities' = identities \cup {d}
    /\ Goto(p, "saveDocument", ext[p], None, rounds[p])
    /\ UNCHANGED <<documents, links, magic, expired, token, logins, adopted, uses, overlap>>

\* createIdentity: SaveIdentity, SaveDocument.
CreateIdentity(p) ==
    /\ pc[p] = "saveIdentity"
    /\ \E ok \in BOOLEAN, d \in DID \ identities :
          /\ IF ok
             THEN /\ identities' = identities \cup {d}
                  /\ Goto(p, "saveDocument", ext[p], d, rounds[p])
                  /\ UNCHANGED logins
             ELSE /\ UNCHANGED identities
                  /\ Return(p, FALSE)
    /\ UNCHANGED <<documents, links, magic, expired, token, adopted, uses, overlap>>

\* Fault variant: the error of SaveDocument is ignored.
CreateDocumentUnchecked(p) ==
    /\ pc[p] = "saveDocument"
    /\ \E ok \in BOOLEAN :
          /\ documents' = IF ok THEN documents \cup {did[p]} ELSE documents
    /\ Goto(p, "saveLink", ext[p], did[p], rounds[p])
    /\ UNCHANGED <<identities, links, magic, expired, token, logins, adopted, uses, overlap>>

CreateDocument(p) ==
    /\ pc[p] = "saveDocument"
    /\ \E ok \in BOOLEAN :
          /\ IF ok
             THEN /\ documents' = documents \cup {did[p]}
                  /\ Goto(p, "saveLink", ext[p], did[p], rounds[p])
                  /\ UNCHANGED logins
             ELSE /\ UNCHANGED documents
                  /\ Return(p, FALSE)
    /\ UNCHANGED <<identities, links, magic, expired, token, adopted, uses, overlap>>

\* Fault variant: a link that could not be saved does not fail the login.
CreateLinkUnchecked(p) ==
    /\ pc[p] = "saveLink"
    /\ \E ok \in BOOLEAN :
          /\ links' = IF ok THEN [links EXCEPT ![ext[p]] = did[p]] ELSE links
    /\ Return(p, TRUE)
    /\ UNCHANGED <<identities, documents, magic, expired, token, adopted, uses, overlap>>

\* SaveExternalLink is an upsert: it takes over a link made meanwhile.
CreateLink(p) ==
    /\ pc[p] = "saveLink"
    /\ \E ok \in BOOLEAN :
          /\ links' = IF ok THEN [links EXCEPT ![ext[p]] = did[p]] ELSE links
          /\ Return(p, ok)
    /\ UNCHANGED <<identities, documents, magic, expired, token, adopted, uses, overlap>>

-----------------------------------------------------------------------------
(* The ways into finishBridgeAuth *)

\* handleBridgeCallback or handleSAMLACS (n = 1) and handlePasswordAuth
\* (n = 2), with credentials the provider accepts; a magic link is the only
\* way in for an address.
Login(p, e, n) ==
    /\ Arrive(p)
    /\ Find(p, e, n)
    /\ UNCHANGED <<tables, expired, token, logins, adopted, uses>>

\* handleMagicLinkRequest: GenerateToken.
MagicRequest(m, e) ==
    /\ m \notin sent
    /\ sent' = sent \cup {m}
    /\ magic' = [magic EXCEPT ![m] = e]
    /\ UNCHANGED <<identities, documents, links, expired, local, logins, adopted, spent, undeleted, overlap>>

\* handleMagicLinkVerify: VerifyToken reads the token ...
MagicGet(p, m) ==
    /\ Arrive(p)
    /\ magic[m] # None
    /\ Goto(p, "magicDelete", magic[m], None, 1)
    /\ token' = [token EXCEPT ![p] = m]
    /\ UNCHANGED <<tables, expired, logins, adopted, uses>>

Spend(m) == spent' = IF m \in undeleted' THEN spent ELSE [spent EXCEPT ![m] = @ + 1]

\* Fault variant: the token is not consumed.
MagicDeleteSkipped(p) ==
    /\ pc[p] = "magicDelete" /\ UNCHANGED undeleted
    /\ IF token[p] \in expired
       THEN Respond(p) /\ UNCHANGED spent
       ELSE Goto(p, "find", ext[p], None, 1) /\ Spend(token[p])
    /\ token' = [token EXCEPT ![p] = None]
    /\ UNCHANGED <<tables, expired, logins, adopted, sent, overlap>>

\* ... and deletes it, ignoring the error; an expired one ends here.
MagicDelete(p) ==
    /\ pc[p] = "magicDelete"
    /\ \E ok \in BOOLEAN :
          /\ magic' = IF ok THEN [magic EXCEPT ![token[p]] = None] ELSE magic
          /\ undeleted' = IF ok THEN undeleted ELSE undeleted \cup {token[p]}
    /\ IF token[p] \in expired
       THEN Respond(p) /\ UNCHANGED spent
       ELSE Goto(p, "find", ext[p], None, 1) /\ Spend(token[p])
    /\ token' = [token EXCEPT ![p] = None]
    /\ UNCHANGED <<identities, documents, links, expired, logins, adopted, sent, overlap>>

-----------------------------------------------------------------------------
(* Mapper.LinkIdentity and Mapper.UnlinkIdentity *)

\* Fault variant: an existing link is not looked for.
LinkGetUnchecked(p, s, e) ==
    /\ Arrive(p)
    /\ Goto(p, "linkSave", e, s, 0)
    /\ UNCHANGED <<tables, expired, token, logins, adopted, uses>>

\* A callback whose state token was made for linking e to s.
LinkGet(p, s, e) ==
    /\ Arrive(p)
    /\ links[e] = None
    /\ Goto(p, "linkSave", e, s, 0)
    /\ UNCHANGED <<tables, expired, token, logins, adopted, uses>>

\* handleMagicLinkVerify was given such a state token beside the magic link.
MagicLinkGet(p, s) ==
    /\ pc[p] = "find" /\ ext[p] \in Mail
    /\ \/ links[ext[p]] = None /\ Goto(p, "linkSave", ext[p], s, 0)
       \/ links[ext[p]] # None /\ Respond(p)
    /\ UNCHANGED <<tables, expired, token, logins, adopted, uses, overlap>>

\* Whether the DID is stored is not looked at.
LinkSave(p) ==
    /\ pc[p] = "linkSave"
    /\ \E ok \in BOOLEAN :
          /\ links' = IF ok THEN [links EXCEPT ![ext[p]] = did[p]] ELSE links
          /\ adopted' = IF ok /\ did[p] \notin identities \cap documents
                        THEN adopted \cup {did[p]} ELSE adopted
    /\ Respond(p)
    /\ UNCHANGED <<identities, documents, magic, expired, token, logins, uses, overlap>>

\* Fault variant: off by one in the count of links.
UnlinkListOffByOne(p, s, e) ==
    /\ Arrive(p)
    /\ Cardinality(LinksOf(s)) >= 1
    /\ Goto(p, "unlinkDelete", e, s, 0)
    /\ UNCHANGED <<tables, expired, token, logins, adopted, uses>>

UnlinkList(p, s, e) ==
    /\ Arrive(p)
    /\ Cardinality(LinksOf(s)) > 1
    /\ Goto(p, "unlinkDelete", e, s, 0)
    /\ UNCHANGED <<tables, expired, token, logins, adopted, uses>>

UnlinkDelete(p) ==
    /\ pc[p] = "unlinkDelete"
    /\ \E ok \in BOOLEAN :
          /\ links' = IF ok THEN [links EXCEPT ![ext[p]] = None] ELSE links
          /\ logins' = IF ok THEN {l \in logins : l.ext # ext[p]} ELSE logins
    /\ Respond(p)
    /\ UNCHANGED <<identities, documents, magic, expired, token, adopted, uses, overlap>>

-----------------------------------------------------------------------------
(* Time and crashes *)

\* The deadline of a token matters while it is stored or held.
Expire(m) ==
    /\ m \notin expired
    /\ magic[m] # None \/ \E p \in Handler : token[p] = m
    /\ expired' = expired \cup {m}
    /\ UNCHANGED <<tables, local, logins, adopted, uses, overlap>>

Crash ==
    /\ \E p \in Handler : pc[p] # "idle"
    /\ pc' = [p \in Handler |-> "idle"]
    /\ ext' = [p \in Handler |-> None]
    /\ did' = [p \in Handler |-> None]
    /\ token' = [p \in Handler |-> None]
    /\ rounds' = [p \in Handler |-> 0]
    /\ UNCHANGED <<tables, expired, logins, adopted, uses, overlap>>

Request(p) ==
    \/ \E e \in Ext \ Mail : Login(p, e, 1) \/ Login(p, e, 2)
    \/ \E m \in Magic : MagicGet(p, m)
    \/ \E s \in SignedIn : \/ \E e \in Ext \ Mail : LinkGet(p, s, e)
                           \/ \E e \in Ext : UnlinkList(p, s, e)

Continue(p) ==
    \/ FindAgain(p) \/ FindTouch(p)
    \/ CreateIdentity(p) \/ CreateDocument(p) \/ CreateLink(p)
    \/ MagicDelete(p) \/ (\E s \in SignedIn : MagicLinkGet(p, s))
    \/ LinkSave(p) \/ UnlinkDelete(p)

Next ==
    \/ \E p \in Handler : Request(p) \/ Continue(p)
    \/ \E m \in Magic, e \in Mail : MagicRequest(m, e)
    \/ \E m \in Magic : Expire(m)
    \/ Crash

Spec == Init /\ [][Next]_vars

-----------------------------------------------------------------------------
(* Properties *)

\* Every variable has its type.
TypeOK ==
    /\ identities \subseteq DID /\ documents \subseteq DID
    /\ links \in [Ext -> DID \cup Foreign \cup {None}]
    /\ magic \in [Magic -> Mail \cup {None}]
    /\ expired \subseteq Magic /\ sent \subseteq Magic
    /\ pc \in [Handler -> {"idle", "find", "touch", "saveIdentity",
                           "saveDocument", "saveLink", "magicDelete",
                           "linkSave", "unlinkDelete"}]
    /\ ext \in [Handler -> Ext \cup {None}]
    /\ did \in [Handler -> DID \cup Foreign \cup {None}]
    /\ token \in [Handler -> Magic \cup {None}]
    /\ rounds \in [Handler -> 0..2]
    /\ logins \subseteq [ext : Ext, did : DID \cup Foreign]
    /\ adopted \subseteq DID \cup Foreign
    /\ spent \in [Magic -> Nat] /\ undeleted \subseteq Magic
    /\ overlap \in BOOLEAN

\* Whatever fails, crashes or overlaps, an external identity is linked to a
\* DID whose identity row and DID document are both stored, unless the holder
\* of a token linked an identity to that DID while they were not: FindOrCreate
\* never leads to a DID that is stored in part.
LinkedDIDResolves ==
    \A e \in Ext : links[e] # None =>
        links[e] \in (identities \cap documents) \cup adopted

\* The DID "serves as the stable identifier": as long as requests do not
\* overlap, an external identity gets the same DID at every login until it is
\* unlinked, failed writes and crashes or not.
StableIdentifier ==
    ~overlap => \A l, m \in logins :
        l.ext = m.ext => l.did = m.did

\* As long as requests do not overlap, no operation moves a link from one
\* DID to another.
LinkKeepsOwner ==
    [][~overlap' => \A e \in Ext : links[e] # None => links'[e] \in {links[e], None}]_vars

\* "Returns an error if this is the last auth method (prevents account
\* lockout)": unlinking leaves the caller a link.
LastMethodKept ==
    [][\A p \in Handler : UnlinkDelete(p) /\ LinksOf(did[p]) # {} =>
          \E e \in Ext : links'[e] = did[p]]_vars

\* LastMethodKept as long as requests do not overlap.
LastMethodStep ==
    \A p \in Handler : ~overlap /\ UnlinkDelete(p) /\ LinksOf(did[p]) # {} =>
        \E e \in Ext : links'[e] = did[p]

\* The same, of every step.
LastMethodKeptAlone == [][LastMethodStep]_vars

\* A magic link is "single-use" as long as requests do not overlap, whatever
\* else fails or crashes, unless its deletion failed (magiclink.go:76 ignores
\* the error); with overlap it admits one login per request in flight.
MagicLinkUses ==
    \A m \in Magic \ undeleted :
        spent[m] <= IF overlap THEN Cardinality(Handler) ELSE 1

=============================================================================
