----------------------------- MODULE MCIdentity -----------------------------
(***************************************************************************)
(* The parts of the server that keep identities, for model checking: the   *)
(* limiter in front of it, logins at external providers, passkeys, the     *)
(* counting of failures in the two flows that do it, guardian recovery and *)
(* the sharing of its token, and the administration of an identity.        *)
(*                                                                         *)
(* They are checked side by side, not against each other: a module has     *)
(* the writers of the rows its properties are about, so a behaviour is one *)
(* of one part.  focus names it, and the variables of the others stay as   *)
(* they began.  The goroutines (pc, copy) and the row of auth_failures are *)
(* those of the part in focus.                                             *)
(***************************************************************************)
EXTENDS RateLimiter, SequencesExt

CONSTANTS
    Handler,
    Ext, Mail, Magic, DID, Foreign,                         \* BridgeLogin
    Subject, Cred, Twin, Session, MaxSign,                  \* Passkeys
    lockThreshold1, lockThreshold2, lockThreshold3, MaxCount,
    Passphrase, Secret,                                     \* AuthFactors
    Token, ResetLimit,                                      \* PasswordReset
    Guardian, MaxApprovals,                                 \* Recovery
    SecretByte, Coefficient, MaxShares,                     \* SecretSharing
    CredID, OIDCSession                                     \* Accounts

VARIABLES
    focus, pc, copy,
    identities, documents, links, magic, lateMagic, ext, did, token, rounds,
    logins, adopted, sent, spent, undeleted, overlap,
    docs, rows, sessions, lateSessions, who, cred, clobbered, floor,
    failure, tally, disturbed,
    password, duress, totp, alerted,
    resetTokens, resets,
    recoveryConfig, recoveryRequest, shares, handed, approvals, repeated,
    splitOf, combined,
    role, method, creds, open, found, deletion

\* The passkeys of Twin have ids that begin with the same eight characters.
shortID == [c \in Cred |-> IF c \in Twin THEN "twin" ELSE "single"]

\* Two guardians, three, two of which one is named twice, and a list that is
\* too short.
GuardianList ==
    LET g == SetToSeq(Guardian)
    IN {<<g[1]>>, <<g[1], g[2]>>, g, <<g[2], g[3], g[2]>>}

Bridge == INSTANCE BridgeLogin WITH expired <- lateMagic
Passkey == INSTANCE Passkeys WITH expired <- lateSessions, MaxCount <- MaxSign
Factors == INSTANCE AuthFactors
Resets == INSTANCE PasswordReset WITH sent <- resets
Guardians == INSTANCE Recovery
Shamir == INSTANCE SecretSharing
Account == INSTANCE Accounts WITH logins <- open

ofBridge == <<identities, documents, links, magic, lateMagic, ext, did, token, rounds,
              logins, adopted, sent, spent, undeleted, overlap>>
ofPasskey == <<docs, rows, sessions, lateSessions, who, cred, clobbered, floor>>
ofFailures == <<failure, tally, disturbed>>
ofFactors == <<password, duress, totp, alerted>>
ofResets == <<resetTokens, resets>>
ofGuardians == <<recoveryConfig, recoveryRequest, shares, handed, approvals, repeated>>
ofShamir == <<splitOf, combined>>
ofAccount == <<role, method, creds, open, found, deletion>>
ofGoroutines == <<pc, copy>>

allVars == <<focus, vars, ofGoroutines, ofBridge, ofPasskey, ofFailures, ofFactors, ofResets,
             ofGuardians, ofShamir, ofAccount>>

InitAll ==
    /\ focus \in {"limiter", "bridge", "passkeys", "factors", "resets", "guardians",
                  "shamir", "account"}
    /\ Init /\ Bridge!Init /\ Passkey!Init /\ Factors!Init /\ Resets!Init
    /\ Guardians!Init /\ Shamir!Init /\ Account!Init

NextAll ==
    \/ /\ focus = "limiter" /\ Next
       /\ UNCHANGED <<focus, ofGoroutines, ofBridge, ofPasskey, ofFailures, ofFactors,
                      ofResets, ofGuardians, ofShamir, ofAccount>>
    \/ /\ focus = "bridge" /\ Bridge!Next
       /\ UNCHANGED <<focus, vars, copy, ofPasskey, ofFailures, ofFactors, ofResets,
                      ofGuardians, ofShamir, ofAccount>>
    \/ /\ focus = "passkeys" /\ Passkey!Next
       /\ UNCHANGED <<focus, vars, ofBridge, ofFailures, ofFactors, ofResets,
                      ofGuardians, ofShamir, ofAccount>>
    \/ /\ focus = "factors" /\ Factors!Next
       /\ UNCHANGED <<focus, vars, ofBridge, ofPasskey, ofResets, ofGuardians, ofShamir,
                      ofAccount>>
    \/ /\ focus = "resets" /\ Resets!Next
       /\ UNCHANGED <<focus, vars, ofBridge, ofPasskey, ofFactors, ofGuardians, ofShamir,
                      ofAccount>>
    \/ /\ focus = "guardians" /\ Guardians!Next
       /\ UNCHANGED <<focus, vars, ofBridge, ofPasskey, ofFailures, ofFactors, ofResets,
                      ofShamir, ofAccount>>
    \/ /\ focus = "shamir" /\ Shamir!Next
       /\ UNCHANGED <<focus, vars, ofGoroutines, ofBridge, ofPasskey, ofFailures, ofFactors,
                      ofResets, ofGuardians, ofAccount>>
    \/ /\ focus = "account" /\ Account!Next
       /\ UNCHANGED <<focus, vars, ofBridge, ofPasskey, ofFailures, ofFactors, ofResets,
                      ofGuardians, ofShamir>>

SpecAll == InitAll /\ [][NextAll]_allVars

Symmetry == Permutations(Handler) \cup Permutations(DID)

-----------------------------------------------------------------------------
(* The properties of the parts.  One that reads the goroutines is asked    *)
(* for while its part is in focus.                                         *)

\* Every variable has its type.
TypesOK ==
    /\ focus = "limiter" => TypeOK
    /\ focus = "bridge" => Bridge!TypeOK
    /\ focus = "passkeys" => Passkey!TypeOK
    /\ focus = "factors" => Factors!TypeOK
    /\ focus = "resets" => Resets!TypeOK
    /\ focus = "guardians" => Guardians!TypeOK
    /\ focus = "shamir" => Shamir!TypeOK
    /\ focus = "account" => Account!TypeOK

\* What leads to a DID leads to a stored one.  An external identity is linked
\* to a DID whose identity and document exist, unless a token's holder linked
\* that DID while they did not (mapper.go:38, 75); and once its registration
\* is done, a passkey, or one whose id begins alike, is anchored in its
\* owner's document, unless writers of the document overlapped, one failed or
\* the identity was created again (webauthn.go:329).
AnchorsResolve ==
    /\ Bridge!LinkedDIDResolves
    /\ focus = "passkeys" => Passkey!PasskeyAnchored

\* While requests do not overlap, an external identity keeps its DID until it
\* is unlinked, through failed writes and crashes (mapper.go:38).
StableIdentifier == Bridge!StableIdentifier

\* A magic link admits one login, or one per request in flight, unless its
\* deletion failed (magiclink.go:76).
MagicLinkUses == Bridge!MagicLinkUses

\* While requests do not overlap, no step moves a link to another DID
\* (mapper.go:75).
LinkKeepsOwner == Bridge!LinkKeepsOwner

\* While requests do not overlap, unlinking leaves its caller a link
\* (mapper.go:99).
LastMethodKeptAlone ==
    [][focus = "bridge" => Bridge!LastMethodStep]_allVars

\* However logins with one passkey overlap, its counter never falls below
\* what it was when the first of them began, and never falls while none runs;
\* only registering the passkey again resets it (webauthn.go:237).
CounterKeepsFloor == [][focus = "passkeys" => Passkey!CounterStep]_allVars

\* The failures counted are those since the last reset, with the lock they
\* call for (sqlite.go:975), in both flows that record them; and no more
\* reset tokens are sent than the limit (password.go:88).
AttemptsCounted == Factors!FailuresCountedAlone /\ Resets!ResetTokensBounded

\* The count of a recovery request is the number of guardians who approved
\* it, unless approvals overlapped, were repeated or failed (recovery.go:182).
SharesCollectedCounts == focus = "guardians" => Guardians!SharesCollectedCounts

\* "M-of-N": the guardians hold shares of one split, whose threshold they
\* reach, and if none was named twice just those groups of them reach it that
\* are large enough (api/recovery.go:31, 96); any threshold of shares give
\* back the secret (pkg/recovery/recovery.go:72).
QuorumRecovers ==
    /\ focus = "guardians" => Guardians!QuorumHoldsShares
    /\ Shamir!QuorumReconstructs

\* A deletion that comes to mark the identity has removed what it found
\* (admin.go:79).
DeletionRemovesWhatItFound == focus = "account" => Account!DeletionRemovesWhatItFound

\* An identity marked deleted stays so until it is created again, suspended,
\* or overwritten by an unsuspension that read it before (admin.go:67).
DeletionStands == Account!DeletionStands

=============================================================================
