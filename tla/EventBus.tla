----------------------------- MODULE EventBus -----------------------------
(***************************************************************************)
(* Platform events: publication, the hash-chained audit log, the proofs    *)
(* handed out about it, and the delivery of webhooks.                      *)
(*                                                                         *)
(* The process has two buses.  The one built by `serve' has the audit      *)
(* logger as its subscriber and one publisher, the consent-expiry ticker;  *)
(* the one built by NewServer has none and serves every HTTP handler.  The *)
(* ticker publishes what ListExpiringGrants returns.  Its query names a    *)
(* column, revoked_at, of the schema in migrations/ but not of the one     *)
(* sqlite.go creates: on a database made by the latter it fails, and the   *)
(* ticker never publishes.                                                 *)
(* Publish runs the subscribers synchronously and then starts a goroutine  *)
(* per matching webhook.  A webhook's URL is parsed when it is registered, *)
(* so deliver always gets as far as its attempts.                          *)
(***************************************************************************)
EXTENDS Naturals, Sequences, SequencesExt, FiniteSets

CONSTANTS
    Api,         \* goroutines that publish on the server's bus
    Ticker,      \* goroutines that publish on the bus of `serve': one
    Event,       \* publications
    Webhook,     \* webhook subscriptions
    Verifier,    \* goroutines serving audit proofs
    MaxAttempts, \* delivery attempts per webhook: 3
    ProofLimit,  \* most rows in one audit proof: 1000
    None

Publisher == Api \cup Ticker

VARIABLES
    log,        \* table audit_log, in sequence order
    hooks,      \* table webhook_subscriptions
    published,  \* events whose Publish has begun
    pc, event, prev,  \* each publisher: next call, its event, the hash read
    delivery,   \* each event and webhook: its delivery goroutine
    settled,    \* history: how often its outcome, success or failure, was decided
    fanned,     \* history: events whose fan-out was reached
    head,       \* each verifier: the first row asked for and the head read
    proof,      \* each verifier: the answer to its last request
    misread,    \* history: has the audit logger failed to read the head?
    failed      \* history: has an append failed, or the server crashed?

vars == <<log, hooks, published, pc, event, prev, delivery, settled, fanned,
          head, proof, misread, failed>>

Init ==
    /\ log = <<>>
    /\ hooks = {}
    /\ published = {}
    /\ pc = [p \in Publisher |-> "idle"]
    /\ event = [p \in Publisher |-> None]
    /\ prev = [p \in Publisher |-> None]
    /\ delivery = [e \in Event, w \in Webhook |-> None]
    /\ settled = [e \in Event, w \in Webhook |-> 0]
    /\ fanned = {}
    /\ head = [v \in Verifier |-> None]
    /\ proof = [v \in Verifier |-> None]
    /\ misread = FALSE
    /\ failed = FALSE

-----------------------------------------------------------------------------
(* The audit log *)

\* SHA-256 over the previous hash and the event: injective.
Hash(row) == <<row.event, row.prev>>

\* The hash of the last row, or "" when the log is empty.
HeadHash == IF log = <<>> THEN None ELSE Hash(Last(log))

\* ListAuditEvents: at most limit rows after the first offset.
ListAuditEvents(limit, offset) ==
    SubSeq(log, offset + 1,
           IF offset + limit < Len(log) THEN offset + limit ELSE Len(log))

-----------------------------------------------------------------------------
(* Publish *)

\* Fault variant: the audit logger subscribes to the server's bus as well.
AuditedBoth(p) == TRUE

\* Does the bus p publishes on have the audit logger as a subscriber?
Audited(p) == p \in Ticker

\* The ticker finds an expiring grant and publishes, or its query fails (always,
\* without the column) and nothing happens: a stuttering step.
Publish(p, e) ==
    /\ pc[p] = "idle"
    /\ e \notin published
    /\ published' = published \cup {e}
    /\ pc' = [pc EXCEPT ![p] = IF Audited(p) THEN "auditHead" ELSE "fanOut"]
    /\ event' = [event EXCEPT ![p] = e]
    /\ UNCHANGED <<log, hooks, prev, delivery, settled, fanned, head, proof, misread, failed>>

\* Logger.handle: GetAuditHead, any error of which is taken for an empty
\* log ...
AuditHead(p) ==
    /\ pc[p] = "auditHead"
    /\ \/ prev' = [prev EXCEPT ![p] = HeadHash] /\ UNCHANGED misread
       \/ prev' = [prev EXCEPT ![p] = None] /\ misread' = TRUE
    /\ pc' = [pc EXCEPT ![p] = "auditAppend"]
    /\ UNCHANGED <<log, hooks, published, event, delivery, settled, fanned, head, proof, failed>>

\* ... and AppendAuditEvent; a failure is logged only.
AuditAppend(p) ==
    /\ pc[p] = "auditAppend"
    /\ \/ /\ log' = Append(log, [event |-> event[p], prev |-> prev[p]])
          /\ UNCHANGED failed
       \/ /\ failed' = TRUE
          /\ UNCHANGED log
    /\ prev' = [prev EXCEPT ![p] = None]
    /\ pc' = [pc EXCEPT ![p] = "fanOut"]
    /\ UNCHANGED <<hooks, published, event, delivery, settled, fanned, head, proof, misread>>

\* ListWebhookSubscriptions, and a goroutine for each one found; if the list
\* fails no webhook is told.
FanOut(p) ==
    /\ pc[p] = "fanOut"
    /\ \E told \in {hooks, {}} :
          delivery' = [e \in Event, w \in Webhook |->
                         IF e = event[p] /\ w \in told THEN MaxAttempts
                                                       ELSE delivery[e, w]]
    /\ fanned' = fanned \cup {event[p]}
    /\ pc' = [pc EXCEPT ![p] = "idle"]
    /\ event' = [event EXCEPT ![p] = None]
    /\ UNCHANGED <<log, hooks, published, prev, settled, head, proof, misread, failed>>

-----------------------------------------------------------------------------
(* deliver: delivery[e, w] is the number of attempts left *)

\* The outcome is decided: given to the delivery hook, which only the server's
\* bus has, and the goroutine ends.
Settle(e, w) ==
    /\ delivery' = [delivery EXCEPT ![e, w] = None]
    /\ settled' = [settled EXCEPT ![e, w] = @ + 1]

\* Fault variant: no return after a 2xx answer.
DeliverNoReturn(e, w) ==
    /\ delivery[e, w] # None
    /\ \/ Settle(e, w)
       \/ /\ delivery[e, w] > 1
          /\ delivery' = [delivery EXCEPT ![e, w] = @ - 1]
          /\ settled' \in {settled, [settled EXCEPT ![e, w] = @ + 1]}
    /\ UNCHANGED <<log, hooks, published, pc, event, prev, fanned, head, proof, misread, failed>>

\* Fault variant: the goroutine ends silently after its last failure.
DeliverSilent(e, w) ==
    /\ delivery[e, w] # None
    /\ \/ Settle(e, w)
       \/ /\ delivery' = [delivery EXCEPT ![e, w] = IF @ > 1 THEN @ - 1 ELSE None]
          /\ UNCHANGED settled
    /\ UNCHANGED <<log, hooks, published, pc, event, prev, fanned, head, proof, misread, failed>>

\* One attempt: a 2xx answer or the last failure ends it, any other failure
\* (an error, a timeout, another status) leaves one attempt less.
Deliver(e, w) ==
    /\ delivery[e, w] # None
    /\ \/ Settle(e, w)
       \/ /\ delivery[e, w] > 1
          /\ delivery' = [delivery EXCEPT ![e, w] = @ - 1]
          /\ UNCHANGED settled
    /\ UNCHANGED <<log, hooks, published, pc, event, prev, fanned, head, proof, misread, failed>>

\* handleRegisterWebhook, handleDeleteWebhook.
RegisterWebhook(w) ==
    /\ w \notin hooks
    /\ hooks' = hooks \cup {w}
    /\ UNCHANGED <<log, published, pc, event, prev, delivery, settled, fanned, head, proof, misread, failed>>

DeleteWebhook(w) ==
    /\ w \in hooks
    /\ hooks' = hooks \ {w}
    /\ UNCHANGED <<log, published, pc, event, prev, delivery, settled, fanned, head, proof, misread, failed>>

-----------------------------------------------------------------------------
(* handleAuditProof: GetAuditHead, ListAuditEvents *)

ProofHead(v, from) ==
    /\ head[v] = None
    /\ from <= Len(log)
    /\ head' = [head EXCEPT ![v] = [from |-> from, seq |-> Len(log), hash |-> HeadHash]]
    /\ proof' = [proof EXCEPT ![v] = None]
    /\ UNCHANGED <<log, hooks, published, pc, event, prev, delivery, settled, fanned, misread, failed>>

\* Fault variant: the limit is dropped, the rows up to the present are listed.
ProofListUnlimited(v) ==
    /\ head[v] # None
    /\ proof' = [proof EXCEPT ![v] =
           [asked |-> head[v], chain |-> ListAuditEvents(Len(log), head[v].from - 1)]]
    /\ head' = [head EXCEPT ![v] = None]
    /\ UNCHANGED <<log, hooks, published, pc, event, prev, delivery, settled, fanned, misread, failed>>

ProofList(v) ==
    /\ head[v] # None
    /\ LET rows == head[v].seq - head[v].from + 1
           limit == IF rows > ProofLimit THEN ProofLimit ELSE rows
       IN  proof' = [proof EXCEPT ![v] =
               [asked |-> head[v], chain |-> ListAuditEvents(limit, head[v].from - 1)]]
    /\ head' = [head EXCEPT ![v] = None]
    /\ UNCHANGED <<log, hooks, published, pc, event, prev, delivery, settled, fanned, misread, failed>>

\* The process stops and starts again: goroutines, deliveries included, are
\* lost; the tables stay.
Crash ==
    /\ \/ \E p \in Publisher : pc[p] # "idle"
       \/ \E e \in Event, w \in Webhook : delivery[e, w] # None
    /\ pc' = [p \in Publisher |-> "idle"]
    /\ event' = [p \in Publisher |-> None]
    /\ prev' = [p \in Publisher |-> None]
    /\ delivery' = [e \in Event, w \in Webhook |-> None]
    /\ head' = [v \in Verifier |-> None]
    /\ proof' = [v \in Verifier |-> None]
    /\ failed' = TRUE
    /\ UNCHANGED <<log, hooks, published, settled, fanned, misread>>

Continue(p) == AuditHead(p) \/ AuditAppend(p) \/ FanOut(p)

Next ==
    \/ \E p \in Publisher : Continue(p) \/ \E e \in Event : Publish(p, e)
    \/ \E e \in Event, w \in Webhook : Deliver(e, w)
    \/ \E w \in Webhook : RegisterWebhook(w) \/ DeleteWebhook(w)
    \/ \E v \in Verifier : ProofList(v) \/ \E n \in 1..Len(log) : ProofHead(v, n)
    \/ Crash

\* Goroutines that are runnable run: publishers finish, and deliveries go
\* through their attempts.
Spec ==
    /\ Init /\ [][Next]_vars
    /\ \A p \in Publisher : WF_vars(Continue(p))
    /\ \A e \in Event, w \in Webhook : WF_vars(Deliver(e, w))

-----------------------------------------------------------------------------
(* Properties *)

\* The rows of a chain refer each to the one before.
Linked(chain) ==
    \A i \in 2..Len(chain) : chain[i].prev = Hash(chain[i - 1])

\* "Audit log events are SHA-256 hash-chained": every row carries the hash of
\* the row before it, although the head is read and the row appended in two
\* store calls, appends fail and the process crashes.  It rests on the
\* audited bus having a single publisher, and on no read of the head failing.
ChainLinked == ~misread => Linked(log) /\ (log # <<>> => log[1].prev = None)

\* A proof ends at the head it names unless it was cut at ProofLimit,
\* whatever is appended between the two reads, and it is a linked run of rows
\* if no read of the head failed.
ProofReachesHead ==
    \A v \in Verifier : proof[v] # None =>
        LET asked == proof[v].asked
            chain == proof[v].chain
        IN  /\ chain # <<>>
            /\ ~misread => Linked(chain)
            /\ asked.seq - asked.from + 1 <= ProofLimit =>
                  Hash(Last(chain)) = asked.hash

\* The outcome of a webhook delivery is decided, and so given to the delivery
\* hook where there is one, at most once, however many attempts it took and
\* whether or not the webhook was deleted meanwhile.
ReportedOnce ==
    \A e \in Event, w \in Webhook :
        settled[e, w] <= (IF delivery[e, w] = None THEN 1 ELSE 0)

\* Every delivery that was started comes to an end: answered, or given up
\* after the last attempt, or lost in a crash.
DeliveriesSettle ==
    \A e \in Event, w \in Webhook :
        delivery[e, w] # None ~> (settled[e, w] > 0 \/ failed)

\* "every event is appended to a SHA-256 hash-chained log": an event whose
\* subscribers have run is in the log, unless an append failed.
EveryEventAudited ==
    ~failed => \A e \in fanned : \E i \in DOMAIN log : log[i].event = e

=============================================================================
