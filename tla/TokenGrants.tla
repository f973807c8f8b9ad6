---------------------------- MODULE TokenGrants ----------------------------
(***************************************************************************)
(* Authorization codes and refresh tokens of the OIDC provider.           *)
(*                                                                         *)
(* Every HTTP request runs in a goroutine of its own.  The SQLite store    *)
(* has one connection, so a store call is atomic; a handler is a sequence  *)
(* of store calls and is not.  Each handler below is therefore cut at its  *)
(* store calls: pc[p] names the next call of goroutine p and copy[p] is    *)
(* the row it read earlier.  Two adjacent reads are one step when nothing  *)
(* can tell them apart: a client id is random and never registered twice,  *)
(* so a client found by the later read was there at the earlier one.       *)
(*                                                                         *)
(* A request that is refused before it writes leaves no trace and is not a *)
(* step.  A request context is cancelled when its caller disconnects, so   *)
(* every write may fail: `ok' is the outcome of the call.                  *)
(***************************************************************************)
EXTENDS Naturals, FiniteSets

CONSTANTS
    Handler,      \* goroutines serving requests
    Subject,      \* subject DIDs
    Client,       \* client ids that may be registered
    Public,       \* clients whose token_endpoint_auth_method is "none"
    Scope,        \* scope strings
    Challenge,    \* PKCE challenges, each standing also for its verifier
    Request,      \* the authorization requests users make
    Code,         \* names of authorization codes, one per session row
    Token,        \* hashes of refresh tokens
    None,         \* an absent row or value
    StoreFaults,  \* may a store write fail?
    Crashes       \* may the server crash?

AuthRequest == [subject : Subject, client : Client, scope : Scope,
                challenge : Challenge \cup {None}]

SessionRow == [subject : Subject, client : Client, scope : Scope,
               challenge : Challenge \cup {None},
               refreshHash : Token \cup {None}]

RefreshRow == [subject : Subject, client : Client, scope : Scope,
               used : BOOLEAN]

ASSUME ConstantsAssumption ==
    /\ Public \subseteq Client
    /\ Request \subseteq AuthRequest
    /\ StoreFaults \in BOOLEAN
    /\ Crashes \in BOOLEAN
    /\ None \notin Code \cup Token \cup Challenge
    /\ None \notin AuthRequest \cup SessionRow \cup RefreshRow
    /\ Code \cap Token = {}

VARIABLES
    clients,   \* table oidc_clients: the registered ids
    sessions,  \* table oidc_sessions, by code
    tokens,    \* table refresh_tokens, by hash
    expired,   \* codes and tokens whose ExpiresAt has passed
    pc,        \* the next store call of each goroutine
    key,       \* the code, token or subject the goroutine works on
    copy,      \* the request or row it carries
    todo,      \* sessions a logout has listed and not yet deleted
    granted,   \* history: the authorization each code was issued for
    parent,    \* history: the code or token each token was issued for
    origin,    \* history: the code each token descends from
    dead,      \* history: codes and tokens consumed, discarded or revoked
    failed     \* history: has a store write failed, or the server crashed?

store == <<clients, sessions, tokens>>
local == <<pc, key, copy, todo>>
history == <<granted, parent, origin, dead, failed>>
vars == <<clients, sessions, tokens, expired, pc, key, copy, todo,
          granted, parent, origin, dead, failed>>

PC == {"idle", "saveSession", "saveRefresh", "deleteSession", "discard",
       "markUsed", "saveNew", "revoke", "logout"}

Init ==
    /\ clients = Client
    /\ sessions = [c \in Code |-> None]
    /\ tokens = [t \in Token |-> None]
    /\ expired = {}
    /\ pc = [p \in Handler |-> "idle"]
    /\ key = [p \in Handler |-> None]
    /\ copy = [p \in Handler |-> None]
    /\ todo = [p \in Handler |-> {}]
    /\ granted = [c \in Code |-> None]
    /\ parent = [t \in Token |-> None]
    /\ origin = [t \in Token |-> None]
    /\ dead = {}
    /\ failed = FALSE

-----------------------------------------------------------------------------
(* Helpers *)

\* The outcomes a store write may have, and the record of a failure.
Outcome == IF StoreFaults THEN BOOLEAN ELSE {TRUE}
Note(ok) == failed' = (failed \/ ~ok)

FreshCode(c) == granted[c] = None
FreshToken(t) == parent[t] = None

\* Bounds: Code and Token are finite, so a request that will draw a name is
\* admitted only while a name is left for it.
CodesLeft ==
    Cardinality({c \in Code : FreshCode(c)}) >
        Cardinality({p \in Handler : pc[p] = "saveSession"})
TokensLeft ==
    Cardinality({t \in Token : FreshToken(t)}) >
        Cardinality({p \in Handler :
                        pc[p] \in {"saveRefresh", "markUsed", "saveNew"}})

\* The grant a row stands for: whose it is, for which client and scope.
GrantOf(row) == [subject |-> row.subject, client |-> row.client,
                 scope |-> row.scope]

\* Fault variant: the client id is not copied to the new row.
NewRefreshRowNoClient(row) == [subject |-> row.subject, client |-> None,
                               scope |-> row.scope, used |-> FALSE]

NewRefreshRow(row) == [subject |-> row.subject, client |-> row.client,
                       scope |-> row.scope, used |-> FALSE]

\* validateClientAuth with the secret of client `secret' (None: no secret).
ClientAuth(secret, client) ==
    client \in clients /\ (client \in Public \/ secret = client)

\* Goroutine p moves on to store call `next', working on k with row.
Goto(p, next, k, row) ==
    /\ pc' = [pc EXCEPT ![p] = next]
    /\ key' = [key EXCEPT ![p] = k]
    /\ copy' = [copy EXCEPT ![p] = row]

\* Goroutine p answers its request.
Respond(p) == Goto(p, "idle", None, None)

NewSessionRow(a) == [subject |-> a.subject, client |-> a.client,
                     scope |-> a.scope, challenge |-> a.challenge,
                     refreshHash |-> None]

MarkedUsed(row) == [row EXCEPT !.used = TRUE]

\* SaveSession with a freshly drawn code.
InsertSession(a) ==
    \E c \in Code :
        /\ FreshCode(c)
        /\ sessions' = [sessions EXCEPT ![c] = NewSessionRow(a)]
        /\ granted' = [granted EXCEPT ![c] = a]

\* SaveRefreshToken with a freshly drawn hash, on behalf of code or token k.
InsertRefresh(row, k, root) ==
    \E t \in Token :
        /\ FreshToken(t)
        /\ tokens' = [tokens EXCEPT ![t] = NewRefreshRow(row)]
        /\ parent' = [parent EXCEPT ![t] = k]
        /\ origin' = [origin EXCEPT ![t] = root]

-----------------------------------------------------------------------------
(* AuthorizeHandler: GetClient, then SaveSession *)

AuthorizeGetClient(p, a) ==
    /\ pc[p] = "idle" /\ CodesLeft
    /\ a.client \in clients
    /\ a.challenge # None
    /\ Goto(p, "saveSession", None, a)
    /\ UNCHANGED <<store, expired, todo, history>>

AuthorizeSave(p) ==
    /\ pc[p] = "saveSession"
    /\ \E ok \in Outcome :
          /\ IF ok THEN InsertSession(copy[p])
                   ELSE UNCHANGED <<sessions, granted>>
          /\ Note(ok)
    /\ Respond(p)
    /\ UNCHANGED <<clients, tokens, expired, todo, parent, origin, dead>>

\* IssueSessionForDIDCtx, called when an external login completes.  It looks
\* up no client, and the challenge is absent when the login carried none.
BridgeIssue(a) ==
    /\ CodesLeft
    /\ InsertSession(a)
    /\ UNCHANGED <<clients, tokens, expired, local, parent, origin, dead, failed>>

-----------------------------------------------------------------------------
(* handleAuthCodeExchange: GetSessionByCode, SaveRefreshToken,             *)
(* DeleteSession                                                           *)

\* The checks on a session that was found; `id', `verifier' and `secret' are
\* the client_id, code_verifier and client_secret of the request.
ExchangeAccepts(c, id, verifier, secret) ==
    /\ c \notin expired
    /\ id \in {None, sessions[c].client}
    /\ sessions[c].challenge # None
    /\ verifier = sessions[c].challenge
    /\ ClientAuth(secret, sessions[c].client)

ExchangeGet(p, c) ==
    /\ pc[p] = "idle" /\ TokensLeft
    /\ sessions[c] # None
    /\ \E id, secret \in Client \cup {None}, verifier \in Challenge :
          ExchangeAccepts(c, id, verifier, secret)
    /\ Goto(p, "saveRefresh", c, sessions[c])
    /\ UNCHANGED <<store, expired, todo, history>>

ExchangeSaveRefresh(p) ==
    /\ pc[p] = "saveRefresh"
    /\ \E ok \in Outcome :
          /\ IF ok
             THEN /\ InsertRefresh(copy[p], key[p], key[p])
                  /\ Goto(p, "deleteSession", key[p], copy[p])
             ELSE /\ Respond(p)
                  /\ UNCHANGED <<tokens, parent, origin>>
          /\ Note(ok)
    /\ UNCHANGED <<clients, sessions, expired, todo, granted, dead>>

\* DeleteSession of the row behind code c, and what it means for the code.
RemoveSession(c) ==
    /\ sessions' = [sessions EXCEPT ![c] = None]
    /\ dead' = dead \cup {c}

\* Fault variant: the used code is not invalidated.
ExchangeDeleteSessionSkipped(p) ==
    /\ pc[p] = "deleteSession"
    /\ Respond(p)
    /\ UNCHANGED <<store, expired, todo, history>>

\* The error of the delete is ignored: the tokens are handed out regardless.
ExchangeDeleteSession(p) ==
    /\ pc[p] = "deleteSession"
    /\ \E ok \in Outcome :
          /\ IF ok THEN RemoveSession(key[p]) ELSE UNCHANGED <<sessions, dead>>
          /\ Note(ok)
    /\ Respond(p)
    /\ UNCHANGED <<clients, tokens, expired, todo, granted, parent, origin>>

-----------------------------------------------------------------------------
(* handleRefreshTokenGrant: GetRefreshToken, then either DeleteRefreshToken *)
(* (expired or replayed) or SaveRefreshToken(used), SaveRefreshToken(new)  *)

\* Fault variant: UsedAt is not looked at.
RefreshGetNoReplayCheck(p, t) ==
    /\ pc[p] = "idle"
    /\ tokens[t] # None
    /\ IF t \in expired
       THEN Goto(p, "discard", t, tokens[t])
       ELSE TokensLeft /\ Goto(p, "markUsed", t, tokens[t])
    /\ UNCHANGED <<store, expired, todo, history>>

RefreshGet(p, t) ==
    /\ pc[p] = "idle"
    /\ tokens[t] # None
    /\ IF t \in expired \/ tokens[t].used
       THEN Goto(p, "discard", t, tokens[t])
       ELSE /\ TokensLeft
            /\ \E secret \in Client \cup {None} :
                  ClientAuth(secret, tokens[t].client)
            /\ Goto(p, "markUsed", t, tokens[t])
    /\ UNCHANGED <<store, expired, todo, history>>

\* DeleteRefreshToken, and what it means for the token.
RemoveRefresh(t) ==
    /\ tokens' = [tokens EXCEPT ![t] = None]
    /\ dead' = dead \cup {t}

RefreshDiscard(p) ==
    /\ pc[p] = "discard"
    /\ \E ok \in Outcome :
          /\ IF ok THEN RemoveRefresh(key[p]) ELSE UNCHANGED <<tokens, dead>>
          /\ Note(ok)
    /\ Respond(p)
    /\ UNCHANGED <<clients, sessions, expired, todo, granted, parent, origin>>

\* Fault variant: the row is written back without UsedAt.
UpsertUsedForgotten(t, row) ==
    /\ tokens' = [tokens EXCEPT ![t] = [row EXCEPT !.used = FALSE]]
    /\ dead' = dead \cup {t}

\* The upsert that stores UsedAt: it updates used_at of a row that is there
\* and inserts the caller's copy of one that is not.
UpsertUsed(t, row) ==
    /\ tokens' = [tokens EXCEPT ![t] =
           MarkedUsed(IF tokens[t] # None THEN tokens[t] ELSE row)]
    /\ dead' = dead \cup {t}

\* Fault variant: the old token is not marked.
RefreshMarkUsedSkipped(p) ==
    /\ pc[p] = "markUsed"
    /\ Goto(p, "saveNew", key[p], copy[p])
    /\ UNCHANGED <<store, expired, todo, history>>

\* The error of this save is ignored too.
RefreshMarkUsed(p) ==
    /\ pc[p] = "markUsed"
    /\ \E ok \in Outcome :
          /\ IF ok THEN UpsertUsed(key[p], copy[p]) ELSE UNCHANGED <<tokens, dead>>
          /\ Note(ok)
    /\ Goto(p, "saveNew", key[p], copy[p])
    /\ UNCHANGED <<clients, sessions, expired, todo, granted, parent, origin>>

\* Fault variant: a scope parameter of the request replaces the stored one.
RefreshSaveNewAskedScope(p) ==
    /\ pc[p] = "saveNew"
    /\ \E asked \in Scope :
          InsertRefresh([copy[p] EXCEPT !.scope = asked], key[p], origin[key[p]])
    /\ Respond(p)
    /\ UNCHANGED <<clients, sessions, expired, todo, granted, dead, failed>>

RefreshSaveNew(p) ==
    /\ pc[p] = "saveNew"
    /\ \E ok \in Outcome :
          /\ IF ok THEN InsertRefresh(copy[p], key[p], origin[key[p]])
                   ELSE UNCHANGED <<tokens, parent, origin>>
          /\ Note(ok)
    /\ Respond(p)
    /\ UNCHANGED <<clients, sessions, expired, todo, granted, dead>>

-----------------------------------------------------------------------------
(* RevokeHandler on a refresh token: GetRefreshToken, DeleteRefreshToken *)

RevokeGet(p, t) ==
    /\ pc[p] = "idle"
    /\ tokens[t] # None
    /\ \E id, secret \in Client \cup {None} :
          id = None \/ (ClientAuth(secret, id) /\ tokens[t].client = id)
    /\ Goto(p, "revoke", t, tokens[t])
    /\ UNCHANGED <<store, expired, todo, history>>

RevokeDelete(p) ==
    /\ pc[p] = "revoke"
    /\ \E ok \in Outcome :
          /\ IF ok THEN RemoveRefresh(key[p]) ELSE UNCHANGED <<tokens, dead>>
          /\ Note(ok)
    /\ Respond(p)
    /\ UNCHANGED <<clients, sessions, expired, todo, granted, parent, origin>>

-----------------------------------------------------------------------------
(* LogoutHandler with a verified id_token_hint: ListSessionsBySubject, the *)
(* deletes of each listed session, PurgeExpiredSessions                    *)

LogoutList(p, s) ==
    /\ pc[p] = "idle"
    /\ todo' = [todo EXCEPT ![p] =
           {c \in Code : sessions[c] # None /\ c \notin expired
                         /\ sessions[c].subject = s}]
    /\ Goto(p, "logout", s, None)
    /\ UNCHANGED <<store, expired, history>>

\* No handler ever assigns RefreshTokenHash, so a listed session is one
\* DeleteSession call; the other branch would also delete the token it names.
LogoutDelete(p) ==
    /\ pc[p] = "logout"
    /\ \E c \in todo[p], ok \in Outcome :
          /\ todo' = [todo EXCEPT ![p] = @ \ {c}]
          /\ Note(ok)
          /\ IF ok THEN RemoveSession(c) ELSE UNCHANGED <<sessions, dead>>
          /\ IF ok /\ sessions[c] # None /\ sessions[c].refreshHash # None
             THEN tokens' = [tokens EXCEPT ![sessions[c].refreshHash] = None]
             ELSE UNCHANGED tokens
    /\ UNCHANGED <<clients, expired, pc, key, copy, granted, parent, origin>>

LogoutPurge(p) ==
    /\ pc[p] = "logout"
    /\ todo[p] = {}
    /\ \E ok \in Outcome :
          /\ IF ok
             THEN sessions' = [c \in Code |->
                                   IF c \in expired THEN None ELSE sessions[c]]
             ELSE UNCHANGED sessions
          /\ Note(ok)
    /\ Respond(p)
    /\ UNCHANGED <<clients, tokens, expired, todo, granted, parent, origin, dead>>

-----------------------------------------------------------------------------
(* Single-call operations of the API, time, and crashes *)

\* DELETE /api/v1/sessions/{id}, and DELETE of one of the caller's own
\* sessions once it has been found in their list.
DeleteSession(c) ==
    /\ sessions[c] # None
    /\ RemoveSession(c)
    /\ UNCHANGED <<clients, tokens, expired, local, granted, parent, origin, failed>>

\* DELETE /admin/v1/clients/{id}.
DeleteClient(k) ==
    /\ k \in clients
    /\ clients' = clients \ {k}
    /\ UNCHANGED <<sessions, tokens, expired, local, history>>

\* Time passes the ExpiresAt of an issued code or token.
Expire(k) ==
    /\ k \notin expired
    /\ \/ k \in Code /\ granted[k] # None
       \/ k \in Token /\ parent[k] # None
    /\ expired' = expired \cup {k}
    /\ UNCHANGED <<store, local, history>>

\* The process stops and is started again: the tables survive, the
\* goroutines do not.
Crash ==
    /\ Crashes
    /\ \E p \in Handler : pc[p] # "idle"
    /\ pc' = [p \in Handler |-> "idle"]
    /\ key' = [p \in Handler |-> None]
    /\ copy' = [p \in Handler |-> None]
    /\ todo' = [p \in Handler |-> {}]
    /\ failed' = TRUE
    /\ UNCHANGED <<store, expired, granted, parent, origin, dead>>

\* A request arrives at goroutine p.
Arrive(p) ==
    \/ \E a \in Request : AuthorizeGetClient(p, a)
    \/ \E c \in Code : ExchangeGet(p, c)
    \/ \E t \in Token : RefreshGet(p, t) \/ RevokeGet(p, t)
    \/ \E s \in Subject : LogoutList(p, s)

\* Goroutine p makes its next store call.
Continue(p) ==
    \/ AuthorizeSave(p) \/ ExchangeSaveRefresh(p) \/ ExchangeDeleteSession(p)
    \/ RefreshDiscard(p) \/ RefreshMarkUsed(p) \/ RefreshSaveNew(p)
    \/ RevokeDelete(p) \/ LogoutDelete(p) \/ LogoutPurge(p)

Next ==
    \/ \E p \in Handler : Arrive(p) \/ Continue(p)
    \/ \E a \in Request : BridgeIssue(a)
    \/ \E c \in Code : DeleteSession(c)
    \/ \E k \in Client : DeleteClient(k)
    \/ \E k \in Code \cup Token : Expire(k)
    \/ Crash

Spec == Init /\ [][Next]_vars

\* A goroutine that has started a request is scheduled until it answers.
FairSpec == Spec /\ \A p \in Handler : WF_vars(Continue(p))

-----------------------------------------------------------------------------
(* Properties *)

\* Every variable has its type.
TypeOK ==
    /\ clients \subseteq Client
    /\ sessions \in [Code -> SessionRow \cup {None}]
    /\ tokens \in [Token -> RefreshRow \cup {None}]
    /\ expired \subseteq Code \cup Token
    /\ pc \in [Handler -> PC]
    /\ key \in [Handler -> Code \cup Token \cup Subject \cup {None}]
    /\ copy \in [Handler -> Request \cup SessionRow \cup RefreshRow \cup {None}]
    /\ todo \in [Handler -> SUBSET Code]
    /\ granted \in [Code -> AuthRequest \cup {None}]
    /\ parent \in [Token -> Code \cup Token \cup {None}]
    /\ origin \in [Token -> Code \cup {None}]
    /\ dead \subseteq Code \cup Token
    /\ failed \in BOOLEAN
    /\ \A p \in Handler :
          /\ pc[p] = "saveSession" => copy[p] \in Request
          /\ pc[p] \in {"saveRefresh", "deleteSession"} =>
                key[p] \in Code /\ copy[p] \in SessionRow
          /\ pc[p] \in {"discard", "markUsed", "saveNew", "revoke"} =>
                key[p] \in Token /\ copy[p] \in RefreshRow

\* However often a chain of refresh tokens is rotated, and whatever runs at
\* the same time, every stored token carries the subject, client and scope
\* the user authorised when the code at the chain's root was issued.
GrantBinding ==
    \A t \in Token : tokens[t] # None =>
        /\ origin[t] \in Code
        /\ granted[origin[t]] # None
        /\ GrantOf(tokens[t]) = GrantOf(granted[origin[t]])

\* A code whose session was deleted has no row again, and a token that was
\* consumed, discarded or revoked never has an unused row again, although a
\* refresh that read the token earlier writes its own copy of the row back.
DeadStaysDead ==
    /\ \A c \in dead \cap Code : sessions[c] = None
    /\ \A t \in dead \cap Token : tokens[t] = None \/ tokens[t].used

Children(k) == {t \in Token : parent[t] = k}

\* Until a write fails or the server crashes, one code or token yields no
\* more tokens than there are requests in flight at once: the get and the
\* delete (or mark) of a handler are apart, but reuse needs an overlap.
RaceBound ==
    ~failed => \A k \in Code \cup Token :
                  Cardinality(Children(k)) <= Cardinality(Handler)

\* "Refresh tokens are single-use": no token has two successors.
RefreshSingleUse == \A t \in Token : Cardinality(Children(t)) <= 1

\* Until a write fails, a refresh token is spent before its successor is
\* stored: the two are never both usable.
SuccessorImpliesSpent ==
    ~failed => \A t \in Token : parent[t] \in Token => parent[t] \in dead

Usable(t) == tokens[t] # None /\ ~tokens[t].used /\ t \notin expired

\* "The handler revokes all refresh tokens for the subject": when a logout
\* answers, the subject has no usable refresh token left.
LogoutRevokesRefreshTokens ==
    [][\A p \in Handler : LogoutPurge(p) =>
          \A t \in Token : Usable(t)' => tokens'[t].subject # key[p]]_vars

\* Until a write fails or the server crashes, a code that was exchanged is
\* eventually invalidated: the goroutine that exchanged it deletes it.
ExchangedCodeIsInvalidated ==
    \A c \in Code : Children(c) # {} ~> (sessions[c] = None \/ failed)

-----------------------------------------------------------------------------
(* The promise to the outside *)

Life(k) ==
    IF k \in Code
    THEN IF granted[k] = None THEN "unborn"
         ELSE IF sessions[k] # None THEN "live" ELSE "dead"
    ELSE IF parent[k] = None THEN "unborn"
         ELSE IF tokens[k] # None /\ ~tokens[k].used THEN "live" ELSE "dead"

Ledger == INSTANCE GrantLedger WITH
    Item <- Code \cup Token,
    Worker <- Handler,
    Nobody <- None,
    life <- [k \in Code \cup Token |-> Life(k)],
    claim <- [p \in Handler |->
                IF pc[p] \in {"saveRefresh", "markUsed", "saveNew"}
                THEN key[p] ELSE None],
    from <- [k \in Code \cup Token |-> IF k \in Token THEN parent[k] ELSE None]

\* The endpoint, with overlapping requests, failing writes and crashes,
\* keeps the promise of GrantLedger: items live once, only live items are
\* accepted, and every token answers an accepted request.
ImplementsLedger == Ledger!Spec

=============================================================================
