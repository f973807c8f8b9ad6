---------------------------- MODULE AuthFactors -----------------------------
(***************************************************************************)
(* Password login with the duress passphrase (handlePasswordAuth) and TOTP *)
(* (api/mfa.go, internal/authn/totp.go) of a user whose login identifier   *)
(* is the DID, so that both record failures in one row.  Each request is   *)
(* cut at its store calls.                                                 *)
(***************************************************************************)
EXTENDS AuthFailures

CONSTANTS
    Passphrase,
    Secret       \* TOTP secrets

VARIABLES
    password,    \* table passwords: the hash
    duress,      \* table duress_configs: the hash
    totp,        \* table totp_credentials: the encrypted secret
    alerted      \* a session.duress event has been published

count == <<failure, tally, disturbed>>
local == <<pc, copy>>
factors == <<password, duress, totp, alerted>>
vars == <<count, local, factors>>

Init ==
    /\ InitFailure
    /\ password = None /\ duress = None /\ totp = None
    /\ alerted = FALSE

-----------------------------------------------------------------------------
(* Hashes and codes.  A passphrase fits its own salted hash; a TOTP code   *)
(* is the secret and the period it was made for, relative to the current   *)
(* one, and other secrets and periods give other codes.                    *)

hashPassword(w) == [argon2id |-> w]
verifyArgon2(w, stored) == stored = hashPassword(w)

argon2HashDuress(w) == [argon2id |-> w]

encryptSecret(x) == [sealed |-> x]
decryptSecret(encoded) == encoded.sealed

generateTOTP(x, counter) == [hmac |-> x, of |-> counter]

totpWindow == 1

\* VerifyCredentials: unknown identifiers and other passwords fail alike.
VerifyCredentials(w) == password # None /\ verifyArgon2(w, password)

\* DuressManager.CheckDuress
MatchesDuress(w) == duress # None /\ duress = argon2HashDuress(w)

\* TOTPManager.VerifyCtx: the periods around the current one are tried.
VerifyCtx(code) ==
    /\ totp # None
    /\ \E delta \in (-totpWindow)..totpWindow :
          code = generateTOTP(decryptSecret(totp), delta)

-----------------------------------------------------------------------------
(* handlePasswordAuth: VerifyCredentials, then RecordFailure or            *)
(* RecordSuccess and the duress check                                      *)

\* External: no reachable statement stores a password, since the type
\* assertion of the change and confirm handlers (api/password.go) fails.
ImportPassword(w) ==
    /\ password = None /\ password' = hashPassword(w)
    /\ UNCHANGED <<count, local, duress, totp, alerted>>

PasswordAuth(p, w) ==
    /\ pc[p] = "idle"
    /\ Goto(p, IF VerifyCredentials(w) THEN "loginSuccess" ELSE "recordRead", w)
    /\ UNCHANGED <<count, factors>>

LoginSuccess(p) ==
    /\ pc[p] = "loginSuccess"
    /\ \E ok \in BOOLEAN : ClearAuthFailures(p, ok)
    /\ Goto(p, "checkDuress", copy[p])
    /\ UNCHANGED factors

\* The duress check, and the alert of finishBridgeAuth; an error is no duress.
CheckDuress(p) ==
    /\ pc[p] = "checkDuress"
    /\ \E ok \in BOOLEAN : alerted' = (alerted \/ (ok /\ MatchesDuress(copy[p])))
    /\ Respond(p)
    /\ UNCHANGED <<count, password, duress, totp>>

DuressEnrol(w) ==
    /\ duress' = argon2HashDuress(w)
    /\ UNCHANGED <<count, local, password, totp, alerted>>

DuressRemove ==
    /\ duress # None /\ duress' = None
    /\ UNCHANGED <<count, local, password, totp, alerted>>

-----------------------------------------------------------------------------
(* TOTP *)

\* EnrolCtx: the new secret replaces the old one at once.
TOTPEnrol(x) ==
    /\ totp' = encryptSecret(x)
    /\ UNCHANGED <<count, local, password, duress, alerted>>

TOTPUnenrol ==
    /\ totp # None /\ totp' = None
    /\ UNCHANGED <<count, local, password, duress, alerted>>

TOTPVerify(p, x, skew) ==
    /\ pc[p] = "idle"
    /\ Goto(p, IF VerifyCtx(generateTOTP(x, skew)) THEN "success" ELSE "recordRead", None)
    /\ UNCHANGED <<count, factors>>

\* LockoutManager.RecordSuccess, its error ignored.
RecordSuccess(p) ==
    /\ pc[p] = "success"
    /\ \E ok \in BOOLEAN : ClearAuthFailures(p, ok)
    /\ Respond(p)
    /\ UNCHANGED factors

-----------------------------------------------------------------------------

Count(p) == (RecordRead(p) \/ RecordWrite(p) \/ AdminClearLockout(p)) /\ UNCHANGED factors

Next ==
    \/ \E p \in Handler :
          \/ Count(p) \/ RecordSuccess(p) \/ LoginSuccess(p) \/ CheckDuress(p)
          \/ \E w \in Passphrase : PasswordAuth(p, w)
          \/ \E x \in Secret, skew \in -2..2 : TOTPVerify(p, x, skew)
    \/ \E w \in Passphrase : DuressEnrol(w) \/ ImportPassword(w)
    \/ \E x \in Secret : TOTPEnrol(x)
    \/ DuressRemove \/ TOTPUnenrol

Spec == Init /\ [][Next]_vars

-----------------------------------------------------------------------------
(* Properties; FailuresCountedAlone is in AuthFailures *)

\* Every variable has its type.
TypeOK ==
    /\ failure \in AuthFailure \cup {None}
    /\ pc \in [Handler -> {"idle", "recordRead", "recordWrite", "success",
                           "loginSuccess", "checkDuress"}]
    /\ tally \in 0..MaxCount /\ disturbed \in BOOLEAN
    /\ password \in {hashPassword(w) : w \in Passphrase} \cup {None}
    /\ duress \in {argon2HashDuress(w) : w \in Passphrase} \cup {None}
    /\ totp \in {encryptSecret(x) : x \in Secret} \cup {None}
    /\ alerted \in BOOLEAN

=============================================================================
