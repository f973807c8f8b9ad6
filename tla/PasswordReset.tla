--------------------------- MODULE PasswordReset ----------------------------
(***************************************************************************)
(* Password reset (api/password.go): requests limited by the failures      *)
(* recorded under "reset:" + identifier, and tokens of 15 minutes.  A      *)
(* request is four store calls: GetAuthFailures, SavePasswordResetToken    *)
(* and the two statements of RecordAuthFailure.                            *)
(***************************************************************************)
EXTENDS AuthFailures

CONSTANTS
    Token,
    ResetLimit   \* 3 in handlePasswordResetRequest

VARIABLES
    resetTokens,  \* table password_reset_tokens
    sent          \* history: tokens since the count was last cleared

count == <<failure, tally, disturbed>>
local == <<pc, copy>>
vars == <<count, local, resetTokens, sent>>

Init ==
    /\ InitFailure
    /\ resetTokens = [t \in Token |-> None]
    /\ sent = 0

-----------------------------------------------------------------------------

\* Fault variant: one request too many.
ResetRequestOffByOne(p) ==
    /\ pc[p] = "idle"
    /\ CountOf <= ResetLimit
    /\ Goto(p, "saveToken", None)
    /\ disturbed' = (disturbed \/ Busy(p))
    /\ UNCHANGED <<failure, tally, resetTokens, sent>>

\* The errors of GetAuthFailures are ignored and read as zero.
ResetRequest(p) ==
    /\ pc[p] = "idle"
    /\ \E ok \in BOOLEAN :
          /\ ok => CountOf < ResetLimit
          /\ disturbed' = (disturbed \/ ~ok \/ Busy(p))
    /\ Goto(p, "saveToken", None)
    /\ UNCHANGED <<failure, tally, resetTokens, sent>>

\* The attempt is recorded whether or not the token could be saved.
SavePasswordResetToken(p, t) ==
    /\ pc[p] = "saveToken"
    /\ resetTokens[t] = None
    /\ \/ /\ resetTokens' = [resetTokens EXCEPT ![t] = "valid"]
          /\ sent' = IF disturbed THEN 0 ELSE Increment(sent)
       \/ UNCHANGED <<resetTokens, sent>>
    /\ Goto(p, "recordRead", None)
    /\ UNCHANGED count

Record(p) == (RecordRead(p) \/ RecordWrite(p)) /\ UNCHANGED <<resetTokens, sent>>

ClearReset(p) == AdminClearLockout(p) /\ sent' = 0 /\ UNCHANGED resetTokens

ResetTokenExpires(t) ==
    /\ resetTokens[t] = "valid"
    /\ resetTokens' = [resetTokens EXCEPT ![t] = "expired"]
    /\ UNCHANGED <<count, local, sent>>

\* An expired token is deleted.  A valid one ends in "password bridge
\* unavailable" (the type assertion fails), with no effect.
ResetConfirm(t) ==
    /\ resetTokens[t] = "expired"
    /\ resetTokens' = [resetTokens EXCEPT ![t] = None]
    /\ UNCHANGED <<count, local, sent>>

Next ==
    \/ \E p \in Handler :
          \/ ResetRequest(p) \/ Record(p) \/ ClearReset(p)
          \/ \E t \in Token : SavePasswordResetToken(p, t)
    \/ \E t \in Token : ResetTokenExpires(t) \/ ResetConfirm(t)

Spec == Init /\ [][Next]_vars

-----------------------------------------------------------------------------
(* Properties *)

\* Every variable has its type.
TypeOK ==
    /\ failure \in AuthFailure \cup {None}
    /\ pc \in [Handler -> {"idle", "saveToken", "recordRead", "recordWrite"}]
    /\ tally \in 0..MaxCount /\ disturbed \in BOOLEAN
    /\ resetTokens \in [Token -> {None, "valid", "expired"}]
    /\ sent \in 0..MaxCount

\* "Rate-limit: 3 reset attempts per identifier": unless requests overlapped
\* or a call failed, no more than ResetLimit tokens are sent until the count
\* is cleared, however tokens expire and are deleted in between.
ResetTokensBounded == ~disturbed => sent <= ResetLimit

=============================================================================
