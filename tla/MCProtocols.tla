----------------------------- MODULE MCProtocols -----------------------------
(***************************************************************************)
(* The parts of the server that hand out tokens and credentials and let    *)
(* others check them, for model checking: access tokens, pushed            *)
(* authorization requests, the wallet protocols, consents and disclosures, *)
(* the verification of credentials, status lists, selective disclosure,    *)
(* DIDComm envelopes and age proofs.                                       *)
(*                                                                         *)
(* As in MCIdentity, focus names the part that a behaviour is one of, and  *)
(* the goroutines (pc, copy) are that part's.                              *)
(***************************************************************************)
EXTENDS AccessTokens, TLC

CONSTANTS
    Client, URI, RequestURI, MaxUses,                           \* PushedRequests
    RequestID, Offer, Schema, Holder,                           \* WalletExchange
    GrantID, Relying, Sensitive, MaxPolicy,                     \* Consents
    Receipt, Shown, Verifier, Limit, defaultLimit, maxLimit,
    MaxDisclosures,                                             \* Disclosures
    MaxVersion, ttl, Timeout, MaxTime,                          \* Verification
    Index, size, MinSize, ReadLimit,                            \* StatusList
    Credential, Claim, Value, Nonce, Audience,                  \* SelectiveDisclosure
    KID, SenderKID, Body, MaxKey, MaxMessages,                  \* DIDComm
    MaxYear, Threshold, maxThreshold                            \* AgeProofs

VARIABLES
    focus, copy,
    clients, par, stale, opened, pushed, uses, shared,
    requests, overdue, responses, orphans, offers, lapsed, offerTokens, issued,
    redeemed, contended,
    grants, policy, today,
    receipts, reader, wanted, seen, disclosures,
    published, clockTick, cache, accepted,
    bits, isRevoked, stored, storedOf, fetched, fetchedOf,
    sdTokens, expiredJwt, presentation, intent, result,
    recipKey, senderKey, senderDoc, wire, inbox,
    day, dob, birthdays, proof

Push == INSTANCE PushedRequests
Wallet == INSTANCE WalletExchange WITH Subject <- Holder, tokens <- offerTokens
Consent == INSTANCE Consents
Disclose == INSTANCE Disclosures WITH Schema <- Shown
Verifying == INSTANCE Verification
Status == INSTANCE StatusList
Selective == INSTANCE SelectiveDisclosure WITH tokens <- sdTokens
Envelope == INSTANCE DIDComm
Age == INSTANCE AgeProofs

ofAccess == <<now, claims, deny, tok, answer, parent, revoked, began>>
ofPush == <<clients, par, stale, opened, pushed, uses, shared>>
ofWallet == <<requests, overdue, responses, orphans, offers, lapsed, offerTokens, issued,
              redeemed, contended>>
ofConsent == <<grants, policy, today>>
ofDisclose == <<receipts, reader, wanted, seen, disclosures>>
ofVerifying == <<published, clockTick, cache, accepted>>
ofStatus == <<bits, isRevoked, stored, storedOf, fetched, fetchedOf>>
ofSelective == <<sdTokens, expiredJwt, presentation, intent, result>>
ofEnvelope == <<recipKey, senderKey, senderDoc, wire, inbox>>
ofAge == <<day, dob, birthdays, proof>>
ofGoroutines == <<pc, copy>>

allVars == <<focus, ofGoroutines, ofAccess, ofPush, ofWallet, ofConsent, ofDisclose,
             ofVerifying, ofStatus, ofSelective, ofEnvelope, ofAge>>

InitAll ==
    /\ focus \in {"access", "push", "wallet", "consent", "disclose", "verifying", "status",
                  "selective", "envelope", "age"}
    /\ Init /\ Push!Init /\ Wallet!Init /\ Consent!Init /\ Disclose!Init /\ Verifying!Init
    /\ Status!Init /\ Selective!Init /\ Envelope!Init /\ Age!Init

NextAll ==
    \/ /\ focus = "access" /\ Next
       /\ UNCHANGED <<focus, copy, ofPush, ofWallet, ofConsent, ofDisclose, ofVerifying,
                      ofStatus, ofSelective, ofEnvelope, ofAge>>
    \/ /\ focus = "push" /\ Push!Next
       /\ UNCHANGED <<focus, ofAccess, ofWallet, ofConsent, ofDisclose, ofVerifying,
                      ofStatus, ofSelective, ofEnvelope, ofAge>>
    \/ /\ focus = "wallet" /\ Wallet!Next
       /\ UNCHANGED <<focus, ofAccess, ofPush, ofConsent, ofDisclose, ofVerifying,
                      ofStatus, ofSelective, ofEnvelope, ofAge>>
    \/ /\ focus = "consent" /\ Consent!Next
       /\ UNCHANGED <<focus, ofGoroutines, ofAccess, ofPush, ofWallet, ofDisclose,
                      ofVerifying, ofStatus, ofSelective, ofEnvelope, ofAge>>
    \/ /\ focus = "disclose" /\ Disclose!Next
       /\ UNCHANGED <<focus, ofGoroutines, ofAccess, ofPush, ofWallet, ofConsent,
                      ofVerifying, ofStatus, ofSelective, ofEnvelope, ofAge>>
    \/ /\ focus = "verifying" /\ Verifying!Next
       /\ UNCHANGED <<focus, ofAccess, ofPush, ofWallet, ofConsent, ofDisclose,
                      ofStatus, ofSelective, ofEnvelope, ofAge>>
    \/ /\ focus = "status" /\ Status!Next
       /\ UNCHANGED <<focus, ofGoroutines, ofAccess, ofPush, ofWallet, ofConsent, ofDisclose,
                      ofVerifying, ofSelective, ofEnvelope, ofAge>>
    \/ /\ focus = "selective" /\ Selective!Next
       /\ UNCHANGED <<focus, ofGoroutines, ofAccess, ofPush, ofWallet, ofConsent, ofDisclose,
                      ofVerifying, ofStatus, ofEnvelope, ofAge>>
    \/ /\ focus = "envelope" /\ Envelope!Next
       /\ UNCHANGED <<focus, ofGoroutines, ofAccess, ofPush, ofWallet, ofConsent, ofDisclose,
                      ofVerifying, ofStatus, ofSelective, ofAge>>
    \/ /\ focus = "age" /\ Age!Next
       /\ UNCHANGED <<focus, ofGoroutines, ofAccess, ofPush, ofWallet, ofConsent, ofDisclose,
                      ofVerifying, ofStatus, ofSelective, ofEnvelope>>

SpecAll == InitAll /\ [][NextAll]_allVars

Symmetry == Permutations(Handler)

-----------------------------------------------------------------------------
(* The properties of the parts *)

\* Every variable has its type.
TypesOK ==
    /\ focus = "access" => TypeOK
    /\ focus = "push" => Push!TypeOK
    /\ focus = "wallet" => Wallet!TypeOK
    /\ focus = "consent" => Consent!TypeOK
    /\ focus = "disclose" => Disclose!TypeOK
    /\ focus = "verifying" => Verifying!TypeOK
    /\ focus = "status" => Status!TypeOK
    /\ focus = "selective" => Selective!TypeOK
    /\ focus = "envelope" => Envelope!TypeOK
    /\ focus = "age" => Age!TypeOK

\* A session opened through a request_uri is the pushing client's, at the
\* redirect URI it pushed (par.go:16-19).
PushIsBinding == Push!PushIsBinding

\* What is read and deleted, or read and marked, in two store calls is used
\* once, unless two handlers held it at a time or the second call failed:
\* a pushed request (par.go:92, 100) and the code of an offer
\* (oid4vci.go:152, 166).
UsedOnceAlone == Push!PushUsedOnceAlone /\ Wallet!OfferRedeemedOnceAlone

\* A presentation response goes with its request (oid4vp.go:67), unless none
\* had its id when it was posted (oid4vp.go:224).
ResponsesGoWithRequests == Wallet!ResponsesGoWithRequests

\* An extra-sensitive schema is open only under a live grant for it that was
\* confirmed explicitly (policy.go:53).
SensitiveNeedsConfirmation == Consent!SensitiveNeedsConfirmation

\* Subjects see who had their data: paging skips no receipt
\* (consents.go:125), and the budget counts every disclosure
\* (privacy.go:39).
SubjectSeesEveryAccess == Disclose!PagesMissNothing /\ Disclose!BudgetExact

\* A revoked key is accepted for at most the TTL and one fetch more
\* (resolver.go:34).
RevocationReaches == Verifying!RevocationReaches

\* CheckStatus tells what was revoked when the list was issued
\* (status.go:179).
StatusExact == Status!StatusExact

\* A verifier learns the claims the holder chose, as they were signed
\* (sdjwt.go:366).
RevealedExactly == Selective!RevealedExactly

\* An envelope opens with the keys it was packed for and with no others
\* (didcomm.go:227).
OpensExactly == Envelope!OpensExactly

\* An age proof from a full date of birth is the truth (zkp.go:44).
AgeProofExact == Age!AgeProofExact

=============================================================================
