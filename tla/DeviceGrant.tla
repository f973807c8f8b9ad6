---------------------------- MODULE DeviceGrant ----------------------------
(***************************************************************************)
(* The device authorization grant (RFC 8628): a device asks for a code, a  *)
(* user approves it by its short user code, the device polls for tokens.   *)
(*                                                                         *)
(* Handlers run concurrently and are cut at their store calls, as in       *)
(* TokenGrants.  A user code is drawn at random from a small space and is  *)
(* free again once its row is gone, so an approval that looked a row up by *)
(* its user code may write after that user code belongs to another device. *)
(***************************************************************************)
EXTENDS Naturals, FiniteSets

CONSTANTS
    Handler,   \* goroutines serving requests
    Device,    \* device codes
    UserCode,  \* user codes
    Request,   \* what devices ask for: a client and a scope
    Subject,   \* subject DIDs
    Token,     \* hashes of refresh tokens
    None

VARIABLES
    rows,      \* table device_codes
    tokens,    \* the refresh tokens this grant has stored
    expired,   \* device codes whose ExpiresAt has passed
    pc, key, copy,
    asked,     \* history: what each device asked for
    approvers, \* history: the subjects whose approval of a device was taken
    parent,    \* history: the device code each token was issued for
    failed     \* history: has a store write failed, or the server crashed?

local == <<pc, key, copy>>
history == <<asked, approvers, parent, failed>>
vars == <<rows, tokens, expired, local, history>>

Row == [user : UserCode, request : Request, subject : Subject \cup {None},
        approved : BOOLEAN, denied : BOOLEAN]

RefreshRow == [subject : Subject, request : Request]

ASSUME DeviceAssumption ==
    /\ None \notin Device \cup Token \cup Request \cup Subject
    /\ None \notin Row /\ None \notin RefreshRow
    /\ Device \cap Token = {}

Init ==
    /\ rows = [d \in Device |-> None]
    /\ tokens = [t \in Token |-> None]
    /\ expired = {}
    /\ pc = [p \in Handler |-> "idle"]
    /\ key = [p \in Handler |-> None]
    /\ copy = [p \in Handler |-> None]
    /\ asked = [d \in Device |-> None]
    /\ approvers = [d \in Device |-> {}]
    /\ parent = [t \in Token |-> None]
    /\ failed = FALSE

-----------------------------------------------------------------------------
(* Helpers *)

Note(ok) == failed' = (failed \/ ~ok)

Goto(p, next, k, row) ==
    /\ pc' = [pc EXCEPT ![p] = next]
    /\ key' = [key EXCEPT ![p] = k]
    /\ copy' = [copy EXCEPT ![p] = row]

Respond(p) == Goto(p, "idle", None, None)

\* Bound: a poll that will store a token is admitted while a name is left.
TokensLeft ==
    Cardinality({t \in Token : parent[t] = None}) >
        Cardinality({p \in Handler : pc[p] = "saveRefresh"})

-----------------------------------------------------------------------------
(* DeviceAuthorizationHandler *)

\* SaveDeviceCode with a fresh device code; the insert fails when a stored
\* row has the user code (UNIQUE).
DeviceAuthorize(d, u, r) ==
    /\ asked[d] = None
    /\ \A e \in Device : rows[e] # None => rows[e].user # u
    /\ rows' = [rows EXCEPT ![d] = [user |-> u, request |-> r, subject |-> None,
                                    approved |-> FALSE, denied |-> FALSE]]
    /\ asked' = [asked EXCEPT ![d] = r]
    /\ UNCHANGED <<tokens, expired, local, approvers, parent, failed>>

-----------------------------------------------------------------------------
(* DeviceApproveHandler: GetDeviceCodeByUserCode, UpdateDeviceCode *)

ApproveGet(p, d, s) ==
    /\ pc[p] = "idle"
    /\ rows[d] # None /\ d \notin expired
    /\ Goto(p, "update", d, [rows[d] EXCEPT !.subject = s, !.approved = TRUE])
    /\ approvers' = [approvers EXCEPT ![d] = @ \cup {s}]
    /\ UNCHANGED <<rows, tokens, expired, asked, parent, failed>>

Approved(row, by) == [row EXCEPT !.subject = by.subject,
                                 !.approved = by.approved,
                                 !.denied = by.denied]

\* Fault variant: the row is found again by its user code.
UpdateDeviceCodeByUserCode(d, by) ==
    rows' = [e \in Device |-> IF rows[e] # None /\ rows[e].user = by.user
                              THEN Approved(rows[e], by) ELSE rows[e]]

\* Fault variant: a missing row is inserted (as SaveDeviceCode would).
UpdateDeviceCodeUpsert(d, by) == rows' = [rows EXCEPT ![d] = by]

\* An UPDATE by device code: no effect when the row is gone.
UpdateDeviceCode(d, by) ==
    rows' = [rows EXCEPT ![d] = IF @ # None THEN Approved(@, by) ELSE @]

ApproveUpdate(p) ==
    /\ pc[p] = "update"
    /\ \E ok \in BOOLEAN :
          /\ IF ok THEN UpdateDeviceCode(key[p], copy[p]) ELSE UNCHANGED rows
          /\ Note(ok)
    /\ Respond(p)
    /\ UNCHANGED <<tokens, expired, asked, approvers, parent>>

-----------------------------------------------------------------------------
(* handleDeviceGrant: GetDeviceCode, then DeleteDeviceCode (expired or     *)
(* denied), or SaveRefreshToken and DeleteDeviceCode (approved), or no     *)
(* effect (still pending)                                                  *)

PollGet(p, d) ==
    /\ pc[p] = "idle"
    /\ rows[d] # None
    /\ \/ /\ d \in expired \/ rows[d].denied
          /\ Goto(p, "delete", d, rows[d])
       \/ /\ d \notin expired /\ ~rows[d].denied /\ rows[d].approved
          /\ TokensLeft
          /\ Goto(p, "saveRefresh", d, rows[d])
    /\ UNCHANGED <<rows, tokens, expired, history>>

PollSaveRefresh(p) ==
    /\ pc[p] = "saveRefresh"
    /\ \E ok \in BOOLEAN :
          /\ IF ok
             THEN /\ \E t \in Token :
                        /\ parent[t] = None
                        /\ tokens' = [tokens EXCEPT ![t] =
                               [subject |-> copy[p].subject,
                                request |-> copy[p].request]]
                        /\ parent' = [parent EXCEPT ![t] = key[p]]
                  /\ Goto(p, "delete", key[p], copy[p])
             ELSE /\ Respond(p)
                  /\ UNCHANGED <<tokens, parent>>
          /\ Note(ok)
    /\ UNCHANGED <<rows, expired, asked, approvers>>

\* Fault variant: the consumed code is left in the table.
PollDeleteSkipped(p) ==
    /\ pc[p] = "delete"
    /\ Respond(p)
    /\ UNCHANGED <<rows, tokens, expired, history>>

\* The error of the delete is ignored.
PollDelete(p) ==
    /\ pc[p] = "delete"
    /\ \E ok \in BOOLEAN :
          /\ rows' = IF ok THEN [rows EXCEPT ![key[p]] = None] ELSE rows
          /\ Note(ok)
    /\ Respond(p)
    /\ UNCHANGED <<tokens, expired, asked, approvers, parent>>

-----------------------------------------------------------------------------
(* Time and crashes *)

Expire(d) ==
    /\ asked[d] # None /\ d \notin expired
    /\ expired' = expired \cup {d}
    /\ UNCHANGED <<rows, tokens, local, history>>

Crash ==
    /\ \E p \in Handler : pc[p] # "idle"
    /\ pc' = [p \in Handler |-> "idle"]
    /\ key' = [p \in Handler |-> None]
    /\ copy' = [p \in Handler |-> None]
    /\ failed' = TRUE
    /\ UNCHANGED <<rows, tokens, expired, asked, approvers, parent>>

Continue(p) == ApproveUpdate(p) \/ PollSaveRefresh(p) \/ PollDelete(p)

Next ==
    \/ \E d \in Device, u \in UserCode, r \in Request : DeviceAuthorize(d, u, r)
    \/ \E p \in Handler, d \in Device :
          PollGet(p, d) \/ \E s \in Subject : ApproveGet(p, d, s)
    \/ \E p \in Handler : Continue(p)
    \/ \E d \in Device : Expire(d)
    \/ Crash

Spec == Init /\ [][Next]_vars

-----------------------------------------------------------------------------
(* Properties *)

\* Every variable has its type (proved in DeviceGrantProofs).
TypeOK ==
    /\ rows \in [Device -> Row \cup {None}]
    /\ tokens \in [Token -> RefreshRow \cup {None}]
    /\ expired \subseteq Device
    /\ pc \in [Handler -> {"idle", "update", "saveRefresh", "delete"}]
    /\ key \in [Handler -> Device \cup {None}]
    /\ copy \in [Handler -> Row \cup {None}]
    /\ asked \in [Device -> Request \cup {None}]
    /\ approvers \in [Device -> SUBSET Subject]
    /\ parent \in [Token -> Device \cup {None}]
    /\ failed \in BOOLEAN

\* A token issued to a polling device is for what that device asked for and
\* for a user who approved that device, although the approval finds the row
\* by user code, writes it later by device code, and user codes are reused.
DeviceBinding ==
    \A t \in Token : tokens[t] # None =>
        /\ tokens[t].request = asked[parent[t]]
        /\ tokens[t].subject \in approvers[parent[t]]

\* Until a write fails or the server crashes, a device code yields no more
\* tokens than there are polls in flight at once ("single-use" but for
\* overlapping polls).
DeviceRaceBound ==
    ~failed => \A d \in Device :
        Cardinality({t \in Token : parent[t] = d}) <= Cardinality(Handler)

Ledger == INSTANCE GrantLedger WITH
    Item <- Device \cup Token,
    Worker <- Handler,
    Nobody <- None,
    life <- [k \in Device \cup Token |->
               IF k \in Token
               THEN IF tokens[k] = None THEN "unborn" ELSE "live"
               ELSE IF asked[k] = None THEN "unborn"
               ELSE IF rows[k] # None THEN "live" ELSE "dead"],
    claim <- [p \in Handler |-> IF pc[p] = "saveRefresh" THEN key[p] ELSE None],
    from <- [k \in Device \cup Token |-> IF k \in Token THEN parent[k] ELSE None]

\* The device grant keeps the promise of GrantLedger: a device code lives
\* once (a late approval does not bring it back), only a live one is
\* accepted, and every token answers an accepted poll.
DeviceImplementsLedger == Ledger!Spec

=============================================================================
