--------------------------- MODULE PushedRequests ---------------------------
(***************************************************************************)
(* Pushed authorization requests (RFC 9126): a client pushes its           *)
(* authorization parameters and gets a request_uri; the browser brings the *)
(* request_uri to /authorize, with query parameters of its own, and a      *)
(* session is opened.  Handlers are cut at their store calls.  Of the      *)
(* parameters the client and the redirect URI are kept; client             *)
(* authentication, PKCE and the other parameters are in TokenGrants.       *)
(***************************************************************************)
EXTENDS Naturals

CONSTANTS Handler,     \* concurrent requests
          Client,      \* client ids registration may draw
          URI,         \* redirect URIs
          RequestURI,  \* request_uris PARHandler may draw
          MaxUses,     \* bound on the counting of uses
          None

VARIABLES clients,     \* oidc_clients: Client -> registered URIs, or None
          par,         \* par_requests: RequestURI -> row, or None
          stale,       \* request_uris past their ExpiresAt
          opened,      \* the session opened last, with the request_uri it used
          pc, copy,    \* where a handler is, and what it holds
          pushed,      \* what was pushed under a request_uri, for good
          uses,        \* authorizations that used a request_uri
          shared       \* request_uris two handlers held at a time, or whose
                       \* deletion failed

local == <<pc, copy>>
history == <<pushed, uses, shared>>
vars == <<clients, par, stale, opened, pc, copy, pushed, uses, shared>>

(* The parameters of a request, None: absent. *)
Params == [client : Client, redirect : URI \cup {None}]

(* store.PARRequest: Params holds the client_id too. *)
PARRequest == Params

(* store.OIDCSession, and the request_uri it came from. *)
Session == [client : Client, redirect : URI, push : RequestURI \cup {None}]

Init ==
  /\ clients = [c \in Client |-> None]
  /\ par = [u \in RequestURI |-> None]
  /\ stale = {}
  /\ opened = None
  /\ pc = [p \in Handler |-> "idle"]
  /\ copy = [p \in Handler |-> None]
  /\ pushed = [u \in RequestURI |-> None]
  /\ uses = [u \in RequestURI |-> 0]
  /\ shared = {}

Goto(p, step, value) ==
  /\ pc' = [pc EXCEPT ![p] = step]
  /\ copy' = [copy EXCEPT ![p] = value]

(* Uses are counted up to MaxUses. *)
Increment(n) == IF n < MaxUses THEN n + 1 ELSE n

(* POST /oidc/register: a client id is drawn and saved with its URIs. *)
RegisterClient(c, uris) ==
  /\ clients[c] = None
  /\ uris # {}
  /\ clients' = [clients EXCEPT ![c] = uris]
  /\ UNCHANGED <<par, stale, opened, local, history>>

(* DELETE /admin/clients/{id}. *)
DeleteClient(c) ==
  /\ clients[c] # None
  /\ clients' = [clients EXCEPT ![c] = None]
  /\ UNCHANGED <<par, stale, opened, local, history>>

(* PARHandler up to the check of the redirect URI; the client is read to *)
(* authenticate it, and again for its URIs when one is given.            *)
Push(p, q) ==
  /\ pc[p] = "idle"
  /\ clients[q.client] # None
  /\ q.redirect # None => q.redirect \in clients[q.client]
  /\ Goto(p, "push", q)
  /\ UNCHANGED <<clients, par, stale, opened, history>>

(* PARHandler: the parameters are saved under a fresh request_uri. *)
SavePARRequest(p) ==
  /\ pc[p] = "push"
  /\ \/ \E u \in RequestURI :
          /\ pushed[u] = None
          /\ par' = [par EXCEPT ![u] = copy[p]]
          /\ pushed' = [pushed EXCEPT ![u] = copy[p]]
     \/ UNCHANGED <<par, pushed>>
  /\ Goto(p, "idle", None)
  /\ UNCHANGED <<clients, stale, opened, uses, shared>>

(* Some other handler holds the row of u it read. *)
HeldElsewhere(p, u) ==
  \E o \in Handler \ {p} : pc[o] = "resolve" /\ copy[o].push = u

(* AuthorizeHandler with a request_uri: resolvePARRequest reads the row. *)
ResolveGet(p, u, q) ==
  /\ pc[p] = "idle"
  /\ par[u] # None
  /\ Goto(p, "resolve", [push |-> u, row |-> par[u], query |-> q, late |-> u \in stale])
  /\ shared' = IF HeldElsewhere(p, u) THEN shared \cup {u} ELSE shared
  /\ UNCHANGED <<clients, par, stale, opened, pushed, uses>>

\* Fault variant: the query takes precedence over the pushed parameters.
MergeQuery(row, query) ==
  [client |-> query.client,
   redirect |-> IF query.redirect # None THEN query.redirect ELSE row.redirect]

(* PAR params take precedence over the query. *)
Merge(row, query) ==
  [client |-> row.client,
   redirect |-> IF row.redirect # None THEN row.redirect ELSE query.redirect]

\* Fault variant: a request that is still good is not deleted.
ResolveKeep(p) ==
  LET c == copy[p] IN
  /\ pc[p] = "resolve"
  /\ par' = IF c.late THEN [par EXCEPT ![c.push] = None] ELSE par
  /\ IF c.late
     THEN Goto(p, "idle", None) /\ UNCHANGED uses
     ELSE /\ Goto(p, "client", [push |-> c.push, merged |-> Merge(c.row, c.query)])
          /\ uses' = [uses EXCEPT ![c.push] = Increment(@)]
  /\ UNCHANGED <<clients, stale, opened, pushed, shared>>

(* resolvePARRequest deletes the row, ignoring an error, and refuses an  *)
(* expired request.                                                      *)
ResolveDelete(p) ==
  LET c == copy[p] IN
  /\ pc[p] = "resolve"
  /\ \/ par' = [par EXCEPT ![c.push] = None] /\ UNCHANGED shared
     \/ UNCHANGED par /\ shared' = shared \cup {c.push}
  /\ IF c.late
     THEN Goto(p, "idle", None) /\ UNCHANGED uses
     ELSE /\ Goto(p, "client", [push |-> c.push, merged |-> Merge(c.row, c.query)])
          /\ uses' = [uses EXCEPT ![c.push] = Increment(@)]
  /\ UNCHANGED <<clients, stale, opened, pushed>>

(* AuthorizeHandler without a request_uri starts at the client's checks. *)
AuthorizePlain(p, q) ==
  /\ pc[p] = "idle"
  /\ Goto(p, "client", [push |-> None, merged |-> q])
  /\ UNCHANGED <<clients, par, stale, opened, history>>

(* GetClient and the check of the redirect URI. *)
AuthorizeClient(p) ==
  LET m == copy[p].merged
      good == m.redirect # None /\ clients[m.client] # None /\ m.redirect \in clients[m.client]
  IN /\ pc[p] = "client"
     /\ IF good THEN Goto(p, "open", copy[p]) ELSE Goto(p, "idle", None)
     /\ UNCHANGED <<clients, par, stale, opened, history>>

(* SaveSession. *)
AuthorizeSave(p) ==
  LET c == copy[p] IN
  /\ pc[p] = "open"
  /\ \/ opened' = [client |-> c.merged.client, redirect |-> c.merged.redirect,
                   push |-> c.push]
     \/ UNCHANGED opened
  /\ Goto(p, "idle", None)
  /\ UNCHANGED <<clients, par, stale, history>>

(* parTTL runs out for a request that is in the table. *)
PARExpires(u) ==
  /\ par[u] # None
  /\ stale' = stale \cup {u}
  /\ UNCHANGED <<clients, par, opened, local, history>>

Next ==
  \/ \E c \in Client : (\E uris \in SUBSET URI : RegisterClient(c, uris)) \/ DeleteClient(c)
  \/ \E p \in Handler :
       \/ \E q \in Params : Push(p, q) \/ AuthorizePlain(p, q)
       \/ SavePARRequest(p)
       \/ \E u \in RequestURI, q \in Params : ResolveGet(p, u, q)
       \/ ResolveDelete(p)
       \/ AuthorizeClient(p)
       \/ AuthorizeSave(p)
  \/ \E u \in RequestURI : PARExpires(u)

Spec == Init /\ [][Next]_vars

\* Every variable has its type.
TypeOK ==
  /\ clients \in [Client -> SUBSET URI \cup {None}]
  /\ par \in [RequestURI -> PARRequest \cup {None}]
  /\ stale \subseteq RequestURI
  /\ opened \in Session \cup {None}
  /\ pc \in [Handler -> {"idle", "push", "resolve", "client", "open"}]
  /\ pushed \in [RequestURI -> PARRequest \cup {None}]
  /\ uses \in [RequestURI -> 0 .. MaxUses]
  /\ shared \subseteq RequestURI

(* A session opened through a request_uri belongs to the client that     *)
(* pushed the request, and goes to the redirect URI it pushed if it      *)
(* pushed one, whatever the browser put in the query (par.go:16-19,      *)
(* provider.go:60-66).                                                   *)
PushIsBinding ==
  opened # None /\ opened.push # None =>
    /\ pushed[opened.push].client = opened.client
    /\ pushed[opened.push].redirect \in {None, opened.redirect}

(* resolvePARRequest reads the request and deletes it in two store calls *)
(* (par.go:92, 100): it is used at most once unless two handlers held it *)
(* at the same time or its deletion failed.                              *)
PushUsedOnceAlone ==
  \A u \in RequestURI : u \notin shared => uses[u] <= 1

=============================================================================
