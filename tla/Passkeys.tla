------------------------------ MODULE Passkeys ------------------------------
(***************************************************************************)
(* Passkeys (api/webauthn.go) and the DID documents they are anchored in,  *)
(* together with identity creation (api/identity.go), the other writer of  *)
(* documents.                                                              *)
(*                                                                         *)
(* A ceremony is a session kept in memory between its begin and its finish *)
(* request.  Handlers run concurrently and are cut at their store calls:   *)
(* a document is read by one call and written back whole by another, and a *)
(* signature counter is checked against one read and written after a       *)
(* second one.  What go-webauthn verifies is external: it accepts an       *)
(* assertion of a listed credential and returns the new counter, and it    *)
(* accepts the registration of any credential, one already stored or of    *)
(* another subject included.  An id comes with one key.                    *)
(***************************************************************************)
EXTENDS Naturals, FiniteSets, FiniteSetsExt

CONSTANTS
    Handler,   \* goroutines serving requests
    Subject,   \* subject DIDs
    Cred,      \* credential ids, drawn by authenticators
    shortID,   \* credID[:8] of each, which names its verification method
    Session,   \* ceremony session ids
    MaxCount,  \* bound: signature counters of authenticators
    None

VARIABLES
    docs,        \* table did_documents: the passkeys anchored in a document
    rows,        \* table webauthn_credentials
    sessions,    \* waRegSessions and waAuthSessions
    expired,     \* sessions whose expiresAt has passed
    pc, who, cred, copy,
    clobbered,   \* history: subjects whose document had overlapping writers, a
                 \* failed call, or was replaced by creating the identity again
    floor        \* history: while logins with a passkey run, its counter when the
                 \* first of them began, or less if registered again since

local == <<pc, who, cred, copy>>
history == <<clobbered, floor>>
vars == <<docs, rows, sessions, expired, local, history>>

Count == 0..MaxCount

WebAuthnCredential == [owner : Subject, count : Count]

SessionEntry == [kind : {"reg"}, owner : Subject] \cup [kind : {"auth"}, owner : {None}]

Init ==
    /\ docs = [s \in Subject |-> None]
    /\ rows = [c \in Cred |-> None]
    /\ sessions = [n \in Session |-> None]
    /\ expired = {}
    /\ pc = [p \in Handler |-> "idle"]
    /\ who = [p \in Handler |-> None]
    /\ cred = [p \in Handler |-> None]
    /\ copy = [p \in Handler |-> None]
    /\ clobbered = {} /\ floor = [c \in Cred |-> 0]

-----------------------------------------------------------------------------
(* Helpers *)

Goto(p, next, s, c, x) ==
    /\ pc' = [pc EXCEPT ![p] = next]
    /\ who' = [who EXCEPT ![p] = s]
    /\ cred' = [cred EXCEPT ![p] = c]
    /\ copy' = [copy EXCEPT ![p] = x]

Respond(p) == Goto(p, "idle", None, None, None)

\* The store's calls on the two tables.
SaveDocument(s, doc) == [docs EXCEPT ![s] = doc]

\* An upsert: a row that is there keeps its owner.
SaveWebAuthnCredential(c, s, k) ==
    [rows EXCEPT ![c] = IF @ = None THEN [owner |-> s, count |-> k] ELSE [@ EXCEPT !.count = k]]

ListWebAuthnCredentials(s) == {c \in Cred : rows[c] # None /\ rows[c].owner = s}

\* Fault variant: the counter is not written.
UpdateWebAuthnCredentialRaw(c, k) ==
    [rows EXCEPT ![c] = IF @ # None THEN [@ EXCEPT !.count = 0] ELSE @]

\* An UPDATE: no effect when the row is gone.
UpdateWebAuthnCredential(c, k) ==
    [rows EXCEPT ![c] = IF @ # None THEN [@ EXCEPT !.count = k] ELSE @]

DeleteWebAuthnCredential(c) == [rows EXCEPT ![c] = None]

\* The handlers that have read the document of s and are about to write it.
DocWriters(s) == {p \in Handler : who[p] = s /\ pc[p] = "saveDocument"}

\* The logins with c that are between their check and their write.
LoginsWith(c) == {p \in Handler : cred[p] = c /\ pc[p] \in {"getCredential", "updateCredential"}}

-----------------------------------------------------------------------------
(* handleCreateIdentity ends in SaveDocument.  A did:web identity may be   *)
(* created again: the document is replaced.                                *)

CreateDocument(s) ==
    /\ docs' = SaveDocument(s, {})
    /\ clobbered' = IF docs[s] # None \/ DocWriters(s) # {}
                    THEN clobbered \cup {s} ELSE clobbered
    /\ UNCHANGED <<rows, sessions, expired, local, floor>>

-----------------------------------------------------------------------------
(* Ceremonies *)

\* The two begin handlers: a fresh session; registration is the subject's.
RegisterBegin(s, n) ==
    /\ sessions[n] = None
    /\ sessions' = [sessions EXCEPT ![n] = [kind |-> "reg", owner |-> s]]
    /\ UNCHANGED <<docs, rows, expired, local, history>>

LoginBegin(n) ==
    /\ sessions[n] = None
    /\ sessions' = [sessions EXCEPT ![n] = [kind |-> "auth", owner |-> None]]
    /\ UNCHANGED <<docs, rows, expired, local, history>>

\* LoadAndDelete: the session is gone whether or not it had expired.
LoadAndDelete(n) ==
    /\ sessions' = [sessions EXCEPT ![n] = None]
    /\ expired' = expired \ {n}

SessionExpires(n) ==
    /\ sessions[n] # None /\ n \notin expired
    /\ expired' = expired \cup {n}
    /\ UNCHANGED <<docs, rows, sessions, local, history>>

\* The goroutine that drops expired sessions.
EvictSessions ==
    /\ expired # {}
    /\ sessions' = [n \in Session |-> IF n \in expired THEN None ELSE sessions[n]]
    /\ expired' = {}
    /\ UNCHANGED <<docs, rows, local, history>>

-----------------------------------------------------------------------------
(* handleWebAuthnRegisterFinish: SaveWebAuthnCredential, then              *)
(* anchorWebAuthnKey, which is GetDocument and SaveDocument                *)

\* go-webauthn refuses a session begun for another user.
RegisterFinish(p, s, n, c) ==
    /\ pc[p] = "idle"
    /\ sessions[n] # None /\ sessions[n].kind = "reg"
    /\ LoadAndDelete(n)
    /\ IF n \notin expired /\ sessions[n].owner = s
       THEN Goto(p, "saveCredential", s, c, None)
       ELSE UNCHANGED local
    /\ UNCHANGED <<docs, rows, history>>

RegisterSave(p) ==
    /\ pc[p] = "saveCredential"
    /\ \/ \E k \in Count :
             /\ rows' = SaveWebAuthnCredential(cred[p], who[p], k)
             /\ floor' = [floor EXCEPT ![cred[p]] = Min({@, k})]
             /\ Goto(p, "getDocument", who[p], cred[p], None)
       \/ Respond(p) /\ UNCHANGED <<rows, floor>>
    /\ UNCHANGED <<docs, sessions, expired, clobbered>>

\* Fault variant: a missing document is an error, not a new document.
AnchorGetRequired(p) ==
    /\ pc[p] = "getDocument"
    /\ IF docs[who[p]] = None THEN Respond(p)
                              ELSE Goto(p, "saveDocument", who[p], cred[p], [anchored |-> docs[who[p]]])
    /\ clobbered' = IF DocWriters(who[p]) # {} THEN clobbered \cup {who[p]} ELSE clobbered
    /\ UNCHANGED <<docs, rows, sessions, expired, floor>>

\* Any error of the read starts a new, minimal document.
AnchorGet(p) ==
    /\ pc[p] = "getDocument"
    /\ \E ok \in BOOLEAN :
          /\ LET doc == IF ok /\ docs[who[p]] # None THEN docs[who[p]] ELSE {} IN
             IF \E d \in doc : shortID[d] = shortID[cred[p]] THEN Respond(p)
             ELSE Goto(p, "saveDocument", who[p], cred[p], [anchored |-> doc])
          /\ clobbered' = IF ~ok \/ DocWriters(who[p]) # {}
                          THEN clobbered \cup {who[p]} ELSE clobbered
    /\ UNCHANGED <<docs, rows, sessions, expired, floor>>

\* The whole document is written; the error is ignored.
AnchorSave(p) ==
    /\ pc[p] = "saveDocument"
    /\ \E ok \in BOOLEAN :
          /\ docs' = IF ok THEN SaveDocument(who[p], copy[p].anchored \cup {cred[p]}) ELSE docs
          /\ clobbered' = IF ok THEN clobbered ELSE clobbered \cup {who[p]}
    /\ Respond(p)
    /\ UNCHANGED <<rows, sessions, expired, floor>>

-----------------------------------------------------------------------------
(* handleWebAuthnLoginFinish: list and verify, GetWebAuthnCredential,      *)
(* UpdateWebAuthnCredential                                                *)

LoginFinish(p, n) ==
    /\ pc[p] = "idle"
    /\ sessions[n] # None /\ sessions[n].kind = "auth"
    /\ LoadAndDelete(n)
    /\ IF n \notin expired THEN Goto(p, "verify", None, None, None) ELSE UNCHANGED local
    /\ UNCHANGED <<docs, rows, history>>

\* External, go-webauthn: a counter that did not grow leaves the stored one
\* (the clone warning is not looked at).
UpdateCounter(stored, asserted) == IF asserted > stored THEN asserted ELSE stored

\* The assertion is of a listed credential, or the login fails.
LoginVerify(p) ==
    /\ pc[p] = "verify"
    /\ \/ Respond(p) /\ UNCHANGED floor
       \/ \E s \in Subject : \E c \in ListWebAuthnCredentials(s), k \in Count :
             /\ Goto(p, "getCredential", s, c,
                     [count |-> UpdateCounter(rows[c].count, k)])
             /\ floor' = IF LoginsWith(c) = {} THEN [floor EXCEPT ![c] = rows[c].count] ELSE floor
    /\ UNCHANGED <<docs, rows, sessions, expired, clobbered>>

\* The login is over; with the last one the floor goes.
LoginEnds(p) ==
    /\ Respond(p)
    /\ floor' = IF LoginsWith(cred[p]) = {p} THEN [floor EXCEPT ![cred[p]] = 0] ELSE floor

\* An error, or a row that is gone, skips the update.
LoginGet(p) ==
    /\ pc[p] = "getCredential"
    /\ \E ok \in BOOLEAN :
          IF ok /\ rows[cred[p]] # None
          THEN Goto(p, "updateCredential", who[p], cred[p], copy[p]) /\ UNCHANGED floor
          ELSE LoginEnds(p)
    /\ UNCHANGED <<docs, rows, sessions, expired, clobbered>>

\* The error is ignored.
LoginUpdate(p) ==
    /\ pc[p] = "updateCredential"
    /\ \E ok \in BOOLEAN :
          rows' = IF ok THEN UpdateWebAuthnCredential(cred[p], copy[p].count) ELSE rows
    /\ LoginEnds(p)
    /\ UNCHANGED <<docs, sessions, expired, clobbered>>

-----------------------------------------------------------------------------
(* handleDeleteWebAuthnCredential: GetWebAuthnCredential, then delete.     *)
(* The anchor stays in the document.                                       *)

DeleteGet(p, s, c) ==
    /\ pc[p] = "idle"
    /\ rows[c] # None /\ rows[c].owner = s
    /\ Goto(p, "deleteCredential", s, c, None)
    /\ UNCHANGED <<docs, rows, sessions, expired, history>>

DeleteCredential(p) ==
    /\ pc[p] = "deleteCredential"
    /\ \E ok \in BOOLEAN : rows' = IF ok THEN DeleteWebAuthnCredential(cred[p]) ELSE rows
    /\ Respond(p)
    /\ UNCHANGED <<docs, sessions, expired, history>>

-----------------------------------------------------------------------------

Continue(p) ==
    \/ RegisterSave(p) \/ AnchorGet(p) \/ AnchorSave(p)
    \/ LoginVerify(p) \/ LoginGet(p) \/ LoginUpdate(p)
    \/ DeleteCredential(p)

Next ==
    \/ \E p \in Handler : Continue(p)
    \/ \E p \in Handler, s \in Subject :
          \/ \E n \in Session, c \in Cred : RegisterFinish(p, s, n, c)
          \/ \E c \in Cred : DeleteGet(p, s, c)
    \/ \E p \in Handler, n \in Session : LoginFinish(p, n)
    \/ \E n \in Session :
          \/ LoginBegin(n) \/ SessionExpires(n)
          \/ \E s \in Subject : RegisterBegin(s, n)
    \/ \E s \in Subject : CreateDocument(s)
    \/ EvictSessions

Spec == Init /\ [][Next]_vars

-----------------------------------------------------------------------------
(* Properties *)

\* Every variable has its type.
TypeOK ==
    /\ docs \in [Subject -> SUBSET Cred \cup {None}]
    /\ rows \in [Cred -> WebAuthnCredential \cup {None}]
    /\ sessions \in [Session -> SessionEntry \cup {None}]
    /\ expired \subseteq Session
    /\ pc \in [Handler -> {"idle", "saveCredential", "getDocument",
                           "saveDocument", "verify", "getCredential",
                           "updateCredential", "deleteCredential"}]
    /\ who \in [Handler -> Subject \cup {None}]
    /\ cred \in [Handler -> Cred \cup {None}]
    /\ copy \in [Handler -> [anchored : SUBSET Cred] \cup [count : Count] \cup {None}]
    /\ clobbered \subseteq Subject /\ floor \in [Cred -> Count]

\* "This allows verifiers to look up the authenticator key via DID
\* resolution": once the registration of a stored passkey has finished, its
\* owner's document holds the key, or the key of another passkey whose id has
\* the same first eight characters, unless a call on the document failed, two
\* writers of it overlapped (the later whole-document write drops the other's
\* key), or the identity was created again.
PasskeyAnchored ==
    \A c \in Cred :
        (/\ rows[c] # None
         /\ rows[c].owner \notin clobbered
         /\ \A p \in Handler : ~(cred[p] = c /\ pc[p] \in {"getDocument", "saveDocument"}))
        => /\ docs[rows[c].owner] # None
           /\ \E d \in docs[rows[c].owner] : shortID[d] = shortID[c]

\* Does the step register c, again perhaps?
Registers(c) ==
    \E p \in Handler : cred[p] = c /\ pc[p] = "saveCredential" /\ pc'[p] = "getDocument"

\* The counter kept "for theft detection" (webauthn.go:237): the logins that
\* overlap check it against reads of their own and write it in any order, and
\* still no write takes it below what it was when the first of them began,
\* whatever counters authenticators send and calls fail, and nothing takes it
\* down while no login runs.  Only another registration of the same passkey,
\* which is an upsert, does.
CounterStep ==
    \A c \in Cred : rows[c] # None /\ rows'[c] # None /\ ~Registers(c) =>
        rows'[c].count >= IF LoginsWith(c) = {} THEN rows[c].count ELSE floor[c]

\* The same, of every step.
CounterKeepsFloor == [][CounterStep]_vars

=============================================================================
