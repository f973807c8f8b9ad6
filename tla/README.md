# A TLA+ model of tpt-identity

tpt-identity is an identity server in Go: an OpenID Connect provider, bridges
to external login providers, passkeys and other factors, a store of verifiable
credentials with their presentation and verification, consents, account
recovery, and the events, webhooks and audit log around them. Requests are
served by goroutines that overlap freely. State is in SQLite, reached through
one connection (`OpenSQLite`), and in a few in-memory maps. A store call is
therefore atomic, but a handler makes several of them and there are no
transactions: between two calls another handler may run, the client may
disconnect (which cancels the context and makes the next write fail), or the
process may stop. The models are about what holds in spite of that, and about
the algorithms whose edge cases tests hardly reach.

## Parts and modules

| Part | Source | Module |
|---|---|---|
| Authorization codes, refresh tokens, logout | `oidc/{provider,logout,revocation}.go` | `TokenGrants` |
| Device grant | `oidc/device.go` | `DeviceGrant` |
| What both promise about single use | | `GrantLedger` (abstract) |
| Access tokens: denylist, introspection, exchange, step-up | `oidc/{jwt,revocation,introspect,token_exchange,stepup}.go` | `AccessTokens` |
| Pushed requests, client registration | `oidc/{par,registration,provider}.go` | `PushedRequests` |
| OID4VP and OID4VCI | `oidc/{oid4vp,oid4vci}.go` | `WalletExchange` |
| External logins, links, magic links | `internal/bridge/mapper.go`, `api/bridge.go`, `providers/magiclink.go` | `BridgeLogin` |
| Passkeys and the documents they are anchored in | `api/{webauthn,identity}.go` | `Passkeys` |
| Counting of failures, lock tiers | `sqlite.go` (`RecordAuthFailure`) | `AuthFailures` |
| Password, duress passphrase, TOTP | `api/{bridge,mfa,duress}.go`, `internal/authn` | `AuthFactors` (extends `AuthFailures`) |
| Password reset | `api/password.go` | `PasswordReset` (extends `AuthFailures`) |
| Guardian recovery | `api/recovery.go` | `Recovery` |
| Shamir sharing over GF(256) | `pkg/recovery/recovery.go` | `SecretSharing` |
| Suspension, deletion, credentials and sessions of an identity | `api/{admin,credentials,sessions}.go` | `Accounts` |
| Consent grants and their policy | `api/consents.go`, `pkg/consent/policy.go` | `Consents` |
| Receipts page by page, privacy budget | `api/{consents,privacy}.go` | `Disclosures` |
| Rate limiter | `api/server.go` | `RateLimiter` |
| Verification with the resolver's cache | `internal/resolver`, `pkg/vc/verify.go`, `pkg/did/web.go` | `Verification` |
| Status lists | `pkg/vc/status.go`, `api/status.go` | `StatusList` |
| SD-JWT, key binding, watermarks | `pkg/vc/{sdjwt,watermark}.go`, `api/{sdjwt,zkp}.go` | `SelectiveDisclosure` |
| DIDComm envelopes | `pkg/didcomm`, `api/didcomm.go` | `DIDComm` |
| Age proofs | `pkg/vc/zkp.go`, `api/zkp.go` | `AgeProofs` |
| Events, webhooks, audit log | `internal/events`, `internal/auditlog`, `api/{webhooks,auditlog}.go`, `serve.go` | `EventBus` |

`PROJECT.json` maps each definition to its lines and lists every other part of
the system with its status. Modules named `...Proofs` hold the proofs of the
module they are named after; modules named `MC...` instantiate modules for
TLC.

**Conventions.** A table is a function from its key to a row or `None`. A
goroutine has a program counter naming its next store call and what it holds
from the last one; an action is one store call together with the computation
up to the next one. A write takes an outcome `ok`, or has a disjunct in which
it fails; the action then follows the code's error path, or goes on where the
code ignores the error. `Crash` empties goroutines and memory and keeps the
tables. Expiry is a set that anything issued may join, so a deadline can pass
between any two steps; where durations matter (`AccessTokens`, `RateLimiter`,
`Verification`) there is a clock. Requests that are refused without a store
write leave no step. Random codes, tokens and DIDs are drawn from finite sets
and never repeat; signatures cannot be forged, and hashes do not collide.
History variables (`failed`, `overlap`, `revoked`, `shared`, ...) are read by
properties only.

**TokenGrants.** `AuthorizeGetClient`/`AuthorizeSave` store a code;
`BridgeIssue` does so for a bridge login. `ExchangeGet`,
`ExchangeSaveRefresh`, `ExchangeDeleteSession` are the three store calls of
the code exchange, `RefreshGet`, `RefreshMarkUsed`, `RefreshSaveNew` (or
`RefreshDiscard`) those of a refresh. The upsert of `SaveRefreshToken` is
modelled as such: it inserts when the row is gone. Revocation, logout, session
deletion and client deletion run beside them.

**GrantLedger.** Items are issued, accepted by a worker, used to derive
others, and die for good. It allows an item to be accepted by several workers
that overlap, because the code does, and by none after its death. Both
`TokenGrants` and `DeviceGrant` are shown to implement it.

**AccessTokens.** The clock counts ticks, `Second` to the second: `Verify`
compares whole seconds and the denylist compares clock time. Introspection is
split where the code releases the lock of the denylist. A revocation checks
and writes in one step; a delay between the two would only add an entry that
is already stale. No grant puts a scope or an ACR into an access token, an
exchange carries at most the scope it was given and a step-up re-issues the
ACR it found. So no reachable token has either, an exchange that asks for a
scope is refused, and what `DelegationNarrows` says of reachable tokens is
mainly that the subject is kept.

**PushedRequests** keeps the client and the redirect URI of a request. `Merge`
is the precedence of pushed parameters over the query. **WalletExchange** has
the evictor of `oidc/oid4vp.go`, which goes by requests, and the two store
calls that redeem an offer; `handlePreAuthorizedCode` has no caller at
present. `CredentialHandler` issues any schema for a token without a scope, as
`oid4vci.go:239` does, and no other grant puts one into a token.

**BridgeLogin.** `Find` is the read of `FindOrCreate`; `FindTouch` or
`CreateIdentity`, `CreateDocument`, `CreateLink` follow it. A password login
runs the whole of it twice (`FindAgain`). An address logs in, or is linked
(`MagicLinkGet`), only after its magic link was consumed. The delete of an unlink is by
provider and external id alone, as in the store. Linking and unlinking are for
the subject of any access token (`SignedIn`): the authorization and device
endpoints take the subject from their caller, so it may be a DID that no login
stored (`Foreign`), and `LinkIdentity` does not look whether it is; `adopted`
records such DIDs. The credential that a new identity is issued is in
`Accounts`. `DIDsLeft` bounds the model; `spent` counts the uses of a magic
link until its deletion fails.

**Passkeys.** A registration reads the document, adds the key and writes the
whole document back, ignoring an error; a login checks the counter against one
read of the credential and writes it after a second. Any credential may be
registered, a stored one again: the upsert keeps its owner and overwrites its
counter. A document is asked for the first eight characters of a credential's
id (`shortID`), as in `webauthn.go:343-354`, so a second passkey that begins
alike is not added. What the WebAuthn library verifies is external.

**AuthFailures, AuthFactors, PasswordReset.** The `SELECT` and the upsert of
`RecordAuthFailure` are two steps. No code calls `CheckLocked`, so a lock
refuses nobody. No reachable code stores a password hash: the type assertion
of the change and confirmation handlers fails, so the hash is given from the
start.

**Recovery** counts approvals with a counter that is read before the share is
saved. Guardians are a list, of which only the length is checked, and share i
goes to the guardian at place i, so one named twice holds two. Shares are
symbolic there, and computed in **SecretSharing**, where the recursive
definitions are those of the field arithmetic. `Split` refuses more than 255
shares and enrolment does not; such lists are outside the model.

**Accounts.** A deletion lists and deletes credentials, then sessions, and
marks the identity with a last call; `found` is what was there when it began.
Suspension writes its role whatever the identity's was; unsuspension writes
back what it makes of the role it read. `deletion` records a mark and the
unsuspensions under way at it.

**Verification** models one issuer that replaces its key. Reading the cache,
fetching and storing are separate steps of each verification.

**Disclosures.** A receipt is stamped before it is saved, so overlapping
submissions may be listed in either order: it is inserted anywhere.

**StatusList** keeps the bytes of the list, Go's division and conversions, and
the read limit of the decoder. **SelectiveDisclosure** and **DIDComm** compute
on symbolic terms: a digest is the record of what was hashed, a wrapped key
opens with the same derived key. The envelopes that travel in `DIDComm` are
those that packing made. **AgeProofs** has a small calendar with a leap
day; the reference counts birthdays as days pass.

**EventBus.** Two buses, as in the process: the audited one is used by the
consent-expiry ticker, the other by every HTTP handler and is the only one
with a delivery hook. The ticker publishes only on a database with the schema of
`internal/store/migrations`: its query (`sqlite.go:1054`) names a column that
the schema of `sqlite.go:77-86` lacks, and fails on a database made by `serve`
alone. There nothing is audited at all, and `ChainLinked` is about the former.
A delivery is a goroutine with a number of attempts
left; `settled` counts the outcomes decided for it. An error reading the head
of the log is taken for an empty log, as in the code; `misread` records it.

## Runs

`MCIdentity` and `MCProtocols` check several modules in one run each. A
behaviour is one of one module, named by `focus` in the initial state; the
variables of the others do not change. The properties are those of the
modules, some asked for only while their module is in focus.

| Run | Result | Question |
|---|---|---|
| `grants` | holds | Do tokens keep the grant of their code, does what died stay dead, is (without failures) reuse bounded by the number of overlapping requests and a token spent before its successor exists, does it all implement `GrantLedger`? |
| `grants_live` | holds | Is an exchanged code eventually invalidated? |
| `device` | holds | Is a device given tokens only for what it asked and who approved it, though user codes are reused; is reuse bounded as above; does it implement `GrantLedger`? |
| `events` | holds | Is the chain linked if no read of its head failed, do proofs reach the head they name, does every delivery end with one outcome? |
| `identity` | holds | See below. |
| `protocols` | holds | See below. |
| `grants_refresh_twice` | violated | `README.md:288` "Refresh tokens are single-use": not when two requests overlap. |
| `grants_logout` | violated | `oidc/logout.go:15`: logout revokes no refresh token. |
| `bridge_unlink` | violated | `mapper.go:100`: two overlapping unlinks remove the last method. |
| `events_audit` | violated | `README.md:19` "every event": at most those of the ticker are audited. |
| `access_revoked` | violated | `introspect.go:22`: a revoked token is active again during its last second. |
| `sdjwt_binding` | violated | `sdjwt.go:534`: holder and verifier hash different strings, so no key-bound presentation is accepted. |

`identity` asks:

- `AnchorsResolve`: does a link lead to a stored identity and document, unless
  a token's holder linked a DID that was not stored; and is a passkey, or one
  whose id begins alike, anchored in its owner's document unless writers of
  the document overlapped, one failed or the identity was created again?
- `StableIdentifier`, `LinkKeepsOwner`, `LastMethodKeptAlone`: with requests
  one at a time, does a login keep its DID until it is unlinked, a link its
  owner, and an unlinking caller a link?
- `MagicLinkUses`: unless its deletion fails, is a magic link used once, or
  with overlap once per request in flight?
- `WindowBound`: does a client get no more through the limiter in any window
  than a full bucket and the refill, across evictions of idle buckets?
- `CounterKeepsFloor`: however logins with a passkey overlap, does its counter
  stay at or above what it was when the first of them began, and never fall
  while none runs, but for another registration of the same passkey?
- `AttemptsCounted`: are failures counted, with the lock they call for, and
  reset tokens bounded, in both flows and unless calls overlap or fail?
- `SharesCollectedCounts`, `QuorumRecovers`: does the count of a recovery
  equal the approvals; do the guardians hold shares of one split, those
  groups its threshold that are large enough and, with no guardian named
  twice, no other; and do any threshold of shares give the secret back?
- `DeletionRemovesWhatItFound`, `DeletionStands`: has a deletion, also one of
  two that overlap, removed what it found by the time it marks the identity,
  but for what a failed call was to list or delete; and does the mark stand
  until the identity is created again, is suspended, or is overwritten by an
  unsuspension that read the role before the mark?

`protocols` asks:

- `RevokedInactiveUntilExpiry`, `DelegationNarrows`: is a revoked token
  inactive until it expires; do exchange and step-up keep the subject and not
  widen?
- `PushIsBinding`, `UsedOnceAlone`: is a session that of the client that
  pushed the request; are pushed requests and offers used once unless two
  handlers hold them at a time or the second store call fails?
- `ResponsesGoWithRequests`: does a response leave memory with its request,
  unless no request had its id when it was posted?
- `SensitiveNeedsConfirmation`: is an extra-sensitive schema open only under a
  live grant for it that was confirmed?
- `SubjectSeesEveryAccess`: does paging skip no receipt while new ones come
  in, and does the budget count every disclosure?
- `RevocationReaches`: is a revoked key refused after the cache's TTL and one
  fetch, though a slow fetch may put the old document back?
- `StatusExact`, `RevealedExactly`, `OpensExactly`, `AgeProofExact`: do a
  status list, a presentation, an envelope and an age proof say exactly what
  was put into them?

**Bounds.** Two goroutines show every pairwise race; the properties about
races (`RaceBound`, `DeviceRaceBound`, `MagicLinkUses`) state the bound in
terms of the number of goroutines. Two users, clients and scopes that differ
in every field are enough to see a mix-up. Three refresh tokens give two
rotations in a row, or two of one token. `MaxEvents` limits expiries and
client deletions per behaviour. Three events and proofs of at most two rows
make a log longer than a proof; two delivery attempts stand for three. Six
ticks of half a second cover a token's lifetime of one second and the time
after it. In `identity`, the lock tiers are 3, 4 and 5 failures instead of 5,
10 and 20 and the count is capped at 6, past the last tier; the reset limit is
2 instead of 3; two DIDs for logins and one `Foreign` one show links of both
kinds; one subject has three passkeys, two of which begin alike (`Twin`), so
that an id stored for another subject is in the module and not in the run;
`GuardianList` has a list of one guardian, of two, of three, and of three
places for two guardians, with every threshold; two credentials and a session
let a deletion meet what is issued, opened, closed and fails meanwhile;
the secrets and coefficients of `SecretSharing` include 0, 1, the largest byte
and bytes whose product wraps round the field's polynomial, with up to four
shares; a bucket of 6 parts, a cost of 2 and a refill of 3 parts a tick leave
fractions of a token, and three ticks reach eviction. In `protocols`, a list
of 17 bits has a barely used third byte, which a read limit of two bytes cuts
off, and indices 0, 7, 8, 15 and 16 are on both sides of the byte boundaries;
one redirect URI and one claim value keep the run within minutes, so a mix-up
of URIs is excluded by the proof of `PushIsBindingAlways` alone and a mix-up
of values within one claim is not looked for; pages of 0, 1 and 5 are below,
within and above the limits 2 and 3, with three receipts; a TTL of two ticks,
a fetch of one and six ticks let the old document be stored again and expire;
five years hold three thresholds and two leap days; two key numbers and a
second delivery show every replaced key.
Symmetry is used in safety runs only, over sets whose members no definition
tells apart; in `identity` the DIDs, the passkeys that begin alike and the
credentials are the same two model values, which each part permutes on its
own. Deadlock checking is off where the only way to stop is that a
finite stock of names, or the bounded clock, is used up.

**Fairness.** Weak fairness of each goroutine's next step in `grants_live` and
`events`: the Go scheduler runs every runnable goroutine, and neither a store
call nor a delivery attempt (which has a timeout) blocks for ever. No fairness
is assumed of requests, expiry, faults or crashes; the liveness properties
except behaviours with faults or crashes, which the code does not recover
from.

**What the conditions leave out.** A property guarded by a history variable
says nothing of the behaviours it excludes, and in those the code does go
wrong. A code whose deletion failed stays exchangeable. Two first logins at
once make two DIDs. A DID that is not stored may be linked for the holder of a
token, and logins through that link answer with it. A failed read of the head
restarts the chain. Two registrations of passkeys at once lose one key in the
document, and of two passkeys whose ids begin with the same eight characters
only one is anchored. Overlapping failures and approvals lose counts.
Overlapping logins with one passkey may leave the smaller of their counters,
though none below their common floor, and registering a passkey again
overwrites it. A guardian named twice holds two shares, so that fewer guardians
than the threshold may recover the token. A request_uri or an offer held by two
handlers is used twice. A response posted under an unknown id stays in memory.
A deletion overlapped by an unsuspension is undone, a deleted identity that is
suspended and then unsuspended is a user again, and a credential or session
that appears during a deletion survives it. A negative status index reads the
first byte or panics. The properties are stated so that everything but these
is covered.

## Proofs

Proved for every value of the constants, under assumptions that say that
`None` is none of the values and that bounds and times are numbers: as
`ASSUME`s in modules that a run extends, elsewhere as the hypothesis of the
theorem (`Distinct`, `Sizes`). The invariants of the runs are seldom
inductive alone, because a goroutine acts on a row it read earlier; each
proof adds what goroutines hold between two store calls.

- `TokenGrantsProofs`: `TypeCorrect`; `Binding`, every stored refresh token
  carries the grant of the code at its root; `Finality`, what was consumed or
  revoked is never usable again; `SpentBeforeSuccessor`, until a write fails
  or the server crashes; `Implementation`, that `Spec` implements
  `GrantLedger` under the mapping `ImplementsLedger` gives. `IInv` adds that
  sessions carry what was authorised (`SessionBinding`), that so do the rows
  goroutines hold (`CopyBinding`), and that only issued names are stored or
  dead (`StoredWasIssued`, `DeadWasIssued`), so a name freshly drawn is not
  dead. `SpentFirst` adds that a goroutine about to store a successor has
  marked its token.
- `DeviceGrantProofs`: `DeviceTypeCorrect`, `DeviceBindingHolds` and
  `DeviceImplementation`. The invariant relates a row to what its device asked
  and who approved it (`RowBinding`), says the same of the rows goroutines
  hold (`Held`), and of tokens their parent (`TokenBinding`). For the
  refinement each action is matched with an action of the ledger or a stutter.
- `AccessTokensProofs`: `RevocationHolds` and `Delegation`. The invariant of
  the first: the denylist entry of a revoked token is there until its expiry
  has passed (`EntryKept`), an entry is the token's own expiry
  (`EntryIsExpiry`), a goroutine that passed the denylist with a token revoked
  before it began did so after that expiry (`PastDenylist`), and so the
  answers given are sound (`AnswersSound`).
- `BridgeLoginProofs`: `LinkedDIDResolvesAlways`, `StableIdentifierAlways` and
  the action property `LinkKeepsOwnerAlways`. The links of the first are made
  by logins and by the holders of tokens for any subject, stored or not: a
  login about to write a link carries a stored DID, or one it read in a link
  that such a holder made before it was stored (`Carries`, `Linkable`). While
  requests do not overlap a goroutine is the only busy one and what it read of
  the link still holds (`Alone`, `Fresh`), and logins agree with the links
  (`LoginsLinked`).
- `PushedRequestsProofs`: `PushIsBindingAlways` and `PushUsedOnceAloneAlways`.
  Rows, copies and merged parameters go back to what was pushed (`Binds`), and
  while a request that was never shared is in the table or in a handler's
  hands it has not been used (`Unused`).
- `ConsentsProofs`: `SensitiveNeedsConfirmationAlways`, with no assumption.
  Every row and every entry of a policy passed a check (`Confirmed`).
- `RateLimiterProofs`: `LimiterWindowBound`. What a client spent in a window
  and what its bucket holds is at most a full bucket and the refill, also when
  the bucket was evicted, which happens only when it would be full again.
- `VerificationProofs`: `RevocationReachesAlways`. A document that is fetched
  or cached was the newest at a known time: a fetching goroutine is within its
  timeout (`InFlight`), and a cached document expires a TTL after it was stored
  (`CacheFresh`).

Model-checked only: liveness, which is out of the prover's reach; the race
bounds, which count goroutines; what the recursive definitions of
`SecretSharing` compute, since induction over data is out of reach as well;
and `EventBus`, `Passkeys`, `AuthFailures` with the modules that extend it,
`Recovery`, `Accounts`, `Disclosures`, `WalletExchange`, `StatusList`,
`SelectiveDisclosure`, `DIDComm` and `AgeProofs`.

## Observed while modelling

Besides the findings of the violated runs, the following disagreements between
code and text were met; they are facts of single lines and have no run.

- `api/duress.go:35` and `README.md:17` say that a login with the duress
  passphrase succeeds; `api/bridge.go:299-304` refuses anything but the normal
  password. `internal/authn/duress.go:33` says the two must differ; nothing
  checks it.
- The configuration says rate 0 disables the limiter; `api/server.go:97-99`
  makes it the default.
- `pkg/consent/policy.go:33-35` says grants are never deleted; the handler
  deletes the row.
- A watermarked presentation is always refused by the verifier, because the
  digest of the watermark is not in `_sd`.
- `api/status.go:22-26` looks a list up under the scheme of the request, so
  that behind a proxy that terminates TLS an https id is not found.
- `CheckLocked` and `handlePreAuthorizedCode` have no caller.
- `ListExpiringGrants` (`sqlite.go:1054`) names a column that the schema of
  `sqlite.go:77-86` does not have.

## Not modelled

- Upstream protocols (`oidc_rp.go`, `te_whatu_ora.go`, `saml.go`, `realme.go`,
  `acc.go`, `ldap.go`): parsing and network access that end in an external
  identity, which `BridgeLogin` takes as its input.
- `pkg/pe`, `pkg/schema/validate.go`: evaluation of JSON paths and field
  checks on documents, whose data the models abstract from.
- `pkg/trust`: scores in floating point, with no caller. `pkg/marketplace`:
  counters, each changed under one lock.
- `internal/store/migrations`: statements run before the first request.
- `oidc/backchannel.go` has no caller. `api/me.go`, the freshness handler of
  `api/batch.go` and the lists of the other handlers only read.
- DID methods other than `did:web`: encodings. The documents of `did:peer` are
  kept in a map without a lock (`pkg/did/peer.go:69`) that two requests
  creating such identities may write at once; the race is on one statement, and
  its outcome, an aborted process, is the crash that the modules with `Crash`
  have.
- Cryptographic primitives, key storage, discovery documents, health, metrics
  and the command line.
