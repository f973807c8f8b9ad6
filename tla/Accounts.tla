------------------------------ MODULE Accounts ------------------------------
(***************************************************************************)
(* The life of one identity: its role under the administrator's requests   *)
(* (api/admin.go), the credentials issued to it (api/credentials.go,       *)
(* api/batch.go and the bootstrap of api/bridge.go) and its sessions.  An  *)
(* administrator's request reads the identity in one store call and writes *)
(* its role in another; a deletion lists and deletes in between.           *)
(***************************************************************************)
EXTENDS Naturals, FiniteSets

CONSTANTS
    Handler,     \* goroutines serving requests
    CredID,      \* credential ids
    OIDCSession, \* session ids
    None

VARIABLES
    role,        \* table identities: the role of the identity
    method,      \* its DID method: a bridge makes a did:key, the API a did:web
    creds,       \* table credentials: its credentials
    logins,      \* table oidc_sessions: its sessions
    pc, copy,
    found,       \* history: what each running deletion found when it began, without
                 \* what it could not list or delete
    deletion     \* history: after the identity was marked deleted, the requests
                 \* that had read its role before; None: it was not marked, or
                 \* one of these or a suspension has written the role since

local == <<pc, copy>>
history == <<found, deletion>>
vars == <<role, method, creds, logins, local, history>>

Role == {"user", "suspended", "deleted"}

Init ==
    /\ role = None /\ method = None /\ creds = {} /\ logins = {}
    /\ pc = [p \in Handler |-> "idle"]
    /\ copy = [p \in Handler |-> None]
    /\ found = [p \in Handler |-> {}] /\ deletion = None

Goto(p, next, x) ==
    /\ pc' = [pc EXCEPT ![p] = next]
    /\ copy' = [copy EXCEPT ![p] = x]

Forget(p, xs) == found' = [found EXCEPT ![p] = @ \ xs]

\* An id that nothing has and no deletion knows of.
Fresh(x) ==
    /\ x \notin creds \cup logins
    /\ \A p \in Handler :
          /\ x \notin found[p]
          /\ pc[p] \in {"deleteCreds", "deleteSessions"} => x \notin copy[p].left

-----------------------------------------------------------------------------
(* Identities, credentials and sessions come and go at any time *)

\* SaveIdentity of a new identity by a bridge login, which starts the bootstrap.
BridgeIdentity ==
    /\ role = None /\ role' = "user" /\ method' = "key"
    /\ UNCHANGED <<creds, logins, local, history>>

\* handleCreateIdentity: SaveIdentity is an upsert and writes the role "user".
\* A did:web DID may be created again; a did:key DID is of a fresh key.
CreateIdentity ==
    /\ role = None \/ method = "web"
    /\ role' = "user" /\ method' = "web"
    /\ deletion' = None
    /\ UNCHANGED <<creds, logins, local, found>>

\* handleIssueCredential, or one item of a batch: SaveCredential of a new id.
IssueCredential(c) ==
    /\ Fresh(c)
    /\ creds' = creds \cup {c}
    /\ UNCHANGED <<method, role, logins, local, history>>

\* bootstrapCredentials: in the background, up to two credentials of an
\* identity that a bridge made, at any time; how many are still to come is not
\* kept.  maybeIssueBootstrapVC compares the existing ones with the unversioned
\* schema id, which no issued credential carries.  An error is logged only.
BootstrapVC(c) ==
    /\ method = "key" /\ Fresh(c)
    /\ creds' = creds \cup {c}
    /\ UNCHANGED <<method, role, logins, local, history>>

DeleteCredential(c) ==
    /\ c \in creds /\ creds' = creds \ {c}
    /\ UNCHANGED <<method, role, logins, local, history>>

\* A login opens a session; no login looks at the role.
OpenSession(n) ==
    /\ Fresh(n)
    /\ logins' = logins \cup {n}
    /\ UNCHANGED <<method, role, creds, local, history>>

\* A logout or handleRevokeMySession, or the session expires (expired ones
\* are not listed).
CloseSession(n) ==
    /\ n \in logins /\ logins' = logins \ {n}
    /\ UNCHANGED <<method, role, creds, local, history>>

-----------------------------------------------------------------------------
(* handleAdminSuspendIdentity, handleAdminUnsuspendIdentity and            *)
(* handleAdminDeleteIdentity, each beginning with GetIdentity              *)

AdminGet(p, op) ==
    /\ pc[p] = "idle" /\ role # None
    /\ IF op = "delete"
       THEN /\ Goto(p, "listCreds", None)
            /\ found' = [found EXCEPT ![p] = creds \cup logins]
       ELSE /\ Goto(p, op, [role |-> role])
            /\ UNCHANGED found
    /\ UNCHANGED <<method, role, creds, logins, deletion>>

\* What is left of a deletion when an unsuspension by p has written the role.
DeletionAfter(p) == IF deletion = None \/ p \in deletion THEN None ELSE deletion

\* UpdateIdentity with what op makes of the role that was read, or an error.
Suspend(p) ==
    /\ pc[p] = "suspend"
    /\ \/ role' = "suspended" /\ deletion' = None
       \/ UNCHANGED <<role, deletion>>
    /\ Goto(p, "idle", None)
    /\ UNCHANGED <<method, creds, logins, found>>

\* Fault variant: every role becomes "user".
UnsuspendAny(p) ==
    /\ pc[p] = "unsuspend"
    /\ role' = "user" /\ deletion' = DeletionAfter(p)
    /\ Goto(p, "idle", None)
    /\ UNCHANGED <<method, creds, logins, found>>

Unsuspend(p) ==
    /\ pc[p] = "unsuspend"
    /\ \/ /\ role' = IF copy[p].role = "suspended" THEN "user" ELSE copy[p].role
          /\ deletion' = DeletionAfter(p)
       \/ UNCHANGED <<role, deletion>>
    /\ Goto(p, "idle", None)
    /\ UNCHANGED <<method, creds, logins, found>>

\* ListCredentials; an error skips the deletions.
ListCredentials(p) ==
    /\ pc[p] = "listCreds"
    /\ \/ Goto(p, "deleteCreds", [left |-> creds]) /\ UNCHANGED found
       \/ Goto(p, "listSessions", None) /\ Forget(p, CredID)
    /\ UNCHANGED <<method, role, creds, logins, deletion>>

\* DeleteCredential of each, errors ignored.
DeleteListed(p) ==
    /\ pc[p] = "deleteCreds"
    /\ \/ \E c \in copy[p].left :
             /\ Goto(p, "deleteCreds", [left |-> copy[p].left \ {c}])
             /\ \/ creds' = creds \ {c} /\ UNCHANGED found
                \/ UNCHANGED creds /\ Forget(p, {c})
       \/ /\ copy[p].left = {} /\ Goto(p, "listSessions", None)
          /\ UNCHANGED <<creds, found>>
    /\ UNCHANGED <<method, role, logins, deletion>>

\* Fault variant: the sessions are left alone.
ListSessionsSkipped(p) ==
    /\ pc[p] = "listSessions"
    /\ Goto(p, "markDeleted", None)
    /\ UNCHANGED <<method, role, creds, logins, history>>

ListSessions(p) ==
    /\ pc[p] = "listSessions"
    /\ \/ Goto(p, "deleteSessions", [left |-> logins]) /\ UNCHANGED found
       \/ Goto(p, "markDeleted", None) /\ Forget(p, OIDCSession)
    /\ UNCHANGED <<method, role, creds, logins, deletion>>

DeleteSessions(p) ==
    /\ pc[p] = "deleteSessions"
    /\ \/ \E n \in copy[p].left :
             /\ Goto(p, "deleteSessions", [left |-> copy[p].left \ {n}])
             /\ \/ logins' = logins \ {n} /\ UNCHANGED found
                \/ UNCHANGED logins /\ Forget(p, {n})
       \/ /\ copy[p].left = {} /\ Goto(p, "markDeleted", None)
          /\ UNCHANGED <<logins, found>>
    /\ UNCHANGED <<method, role, creds, deletion>>

MarkDeleted(p) ==
    /\ pc[p] = "markDeleted"
    /\ \/ /\ role' = "deleted"
          /\ deletion' = {q \in Handler : pc[q] = "unsuspend"}
       \/ UNCHANGED <<role, deletion>>
    /\ Goto(p, "idle", None)
    /\ Forget(p, found[p])
    /\ UNCHANGED <<method, creds, logins>>

Next ==
    \/ BridgeIdentity \/ CreateIdentity
    \/ \E c \in CredID : IssueCredential(c) \/ BootstrapVC(c) \/ DeleteCredential(c)
    \/ \E n \in OIDCSession : OpenSession(n) \/ CloseSession(n)
    \/ \E p \in Handler :
          \/ \E op \in {"suspend", "unsuspend", "delete"} : AdminGet(p, op)
          \/ Suspend(p) \/ Unsuspend(p) \/ ListCredentials(p) \/ DeleteListed(p)
          \/ ListSessions(p) \/ DeleteSessions(p) \/ MarkDeleted(p)

Spec == Init /\ [][Next]_vars

-----------------------------------------------------------------------------
(* Properties *)

\* Every variable has its type.
TypeOK ==
    /\ role \in Role \cup {None} /\ method \in {"key", "web", None}
    /\ creds \subseteq CredID /\ logins \subseteq OIDCSession
    /\ pc \in [Handler -> {"idle", "suspend", "unsuspend", "listCreds", "deleteCreds",
                           "listSessions", "deleteSessions", "markDeleted"}]
    /\ found \in [Handler -> SUBSET (CredID \cup OIDCSession)]
    /\ deletion = None \/ deletion \subseteq Handler

\* "removes an identity and its linked credentials" and "Revoke all active
\* sessions": when a deletion comes to mark the identity, nothing it found at
\* its start is left, whatever is issued, opened, closed or deleted meanwhile,
\* by other administrators too.  A store call that fails spares only what it was
\* to list or delete (admin.go:86).
DeletionRemovesWhatItFound ==
    \A p \in Handler : pc[p] = "markDeleted" =>
        found[p] \cap (creds \cup logins) = {}

\* However administrators' requests overlap, are repeated or fail, an identity
\* marked deleted stays "deleted" until a did:web identity is created again,
\* it is suspended (admin.go:48 does not ask what the role was, and an
\* unsuspension then makes it a user), or an unsuspension that read the role
\* before the mark writes it back (admin.go:67).
DeletionStands == deletion # None => role = "deleted"

=============================================================================
