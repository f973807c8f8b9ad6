------------------------- MODULE TokenGrantsProofs -------------------------
(***************************************************************************)
(* Proofs about TokenGrants, for any number of goroutines, clients, codes  *)
(* and tokens, with failing writes and crashes allowed: type correctness,  *)
(* GrantBinding, DeadStaysDead, SuccessorImpliesSpent, and that the tables *)
(* implement GrantLedger.                                                  *)
(*                                                                         *)
(* None of the invariants is inductive alone.  What a goroutine carries in *)
(* copy[p] is written to the tables later, so the copies must agree with   *)
(* the authorization too (CopyBinding); and a name is only dead once it    *)
(* was issued (DeadWasIssued), so a freshly drawn name is not dead.        *)
(***************************************************************************)
EXTENDS TokenGrants, TLAPS

\* A session row carries what was authorised and names no refresh token.
SessionBinding ==
    \A c \in Code : sessions[c] # None =>
        /\ granted[c] # None
        /\ GrantOf(sessions[c]) = GrantOf(granted[c])
        /\ sessions[c].refreshHash = None

\* A stored refresh token was issued.
StoredWasIssued == \A t \in Token : tokens[t] # None => parent[t] # None

\* What a goroutine read and will act on agrees with the authorization.
CopyBinding ==
    \A p \in Handler :
        /\ pc[p] \in {"saveRefresh", "deleteSession"} =>
              /\ granted[key[p]] # None
              /\ GrantOf(copy[p]) = GrantOf(granted[key[p]])
        /\ pc[p] \in {"discard", "markUsed", "saveNew", "revoke"} =>
              /\ parent[key[p]] # None
              /\ origin[key[p]] \in Code
              /\ granted[origin[key[p]]] # None
              /\ GrantOf(copy[p]) = GrantOf(granted[origin[key[p]]])

\* Only issued codes and tokens are dead or listed by a logout.
DeadWasIssued ==
    /\ \A c \in dead \cap Code : granted[c] # None
    /\ \A t \in dead \cap Token : parent[t] # None
    /\ \A p \in Handler : \A c \in todo[p] : granted[c] # None

IInv == /\ TypeOK /\ GrantBinding /\ DeadStaysDead
        /\ SessionBinding /\ StoredWasIssued /\ CopyBinding /\ DeadWasIssued

-----------------------------------------------------------------------------

\* IInv holds when the server starts on empty tables.
LEMMA InitIInv == Init => IInv
<1> SUFFICES ASSUME Init PROVE IInv
  OBVIOUS
<1>1. failed \in BOOLEAN
  BY ZenonT(30) DEF Init
<1> QED
  BY <1>1, ConstantsAssumption
  DEF Init, IInv, TypeOK, GrantBinding, DeadStaysDead, SessionBinding,
      StoredWasIssued, CopyBinding, DeadWasIssued, PC

-----------------------------------------------------------------------------
(* What the row constructors do, and the note of a write's outcome *)

\* The record of failures stays a truth value.
LEMMA NoteFacts == \A ok : Note(ok) => failed' \in BOOLEAN
BY ZenonT(30) DEF Note

\* The row saved for a new token is an unused row with the grant it was
\* given.
LEMMA NewRefreshRowFacts ==
    ASSUME NEW row \in SessionRow \cup RefreshRow
    PROVE  /\ NewRefreshRow(row) \in RefreshRow
           /\ ~NewRefreshRow(row).used
           /\ GrantOf(NewRefreshRow(row)) = GrantOf(row)
BY DEF NewRefreshRow, SessionRow, RefreshRow, GrantOf

\* Setting UsedAt leaves the grant alone.
LEMMA MarkedUsedFacts ==
    ASSUME NEW row \in RefreshRow
    PROVE  /\ MarkedUsed(row) \in RefreshRow
           /\ MarkedUsed(row).used
           /\ GrantOf(MarkedUsed(row)) = GrantOf(row)
BY ZenonT(30) DEF MarkedUsed, RefreshRow, GrantOf

\* The session saved for an authorization carries its grant and no token.
LEMMA NewSessionRowFacts ==
    ASSUME NEW a \in Request
    PROVE  /\ NewSessionRow(a) \in SessionRow
           /\ NewSessionRow(a).refreshHash = None
           /\ GrantOf(NewSessionRow(a)) = GrantOf(a)
BY ConstantsAssumption DEF NewSessionRow, SessionRow, AuthRequest, GrantOf

-----------------------------------------------------------------------------
(* Type correctness *)

\* Every step of a goroutine, of the administrator and of time keeps the
\* tables and the goroutines' state well typed.
LEMMA NextTypeOK == TypeOK /\ [Next]_vars => TypeOK'
<1> SUFFICES ASSUME TypeOK, [Next]_vars PROVE TypeOK'
  OBVIOUS
<1> USE ConstantsAssumption DEF TypeOK, store, local, history
<1>1. ASSUME NEW p \in Handler, NEW a \in Request, AuthorizeGetClient(p, a) PROVE TypeOK'
  BY <1>1 DEF AuthorizeGetClient, Goto, PC
<1>2. ASSUME NEW p \in Handler, AuthorizeSave(p) PROVE TypeOK'
  BY <1>2, NoteFacts, NewSessionRowFacts DEF AuthorizeSave, InsertSession, Respond, Goto, PC
<1>3. ASSUME NEW a \in Request, BridgeIssue(a) PROVE TypeOK'
  BY <1>3, NewSessionRowFacts DEF BridgeIssue, InsertSession
<1>4. ASSUME NEW p \in Handler, NEW c \in Code, ExchangeGet(p, c) PROVE TypeOK'
  BY <1>4 DEF ExchangeGet, Goto, PC
<1>5. ASSUME NEW p \in Handler, ExchangeSaveRefresh(p) PROVE TypeOK'
  BY <1>5, NoteFacts, NewRefreshRowFacts, SMTT(30)
  DEF ExchangeSaveRefresh, InsertRefresh, Respond, Goto, PC
<1>6. ASSUME NEW p \in Handler, ExchangeDeleteSession(p) PROVE TypeOK'
  BY <1>6, NoteFacts DEF ExchangeDeleteSession, RemoveSession, Respond, Goto, PC
<1>7. ASSUME NEW p \in Handler, NEW t \in Token, RefreshGet(p, t) PROVE TypeOK'
  BY <1>7, SMTT(30) DEF RefreshGet, Goto, PC
<1>8. ASSUME NEW p \in Handler, RefreshDiscard(p) PROVE TypeOK'
  BY <1>8, NoteFacts DEF RefreshDiscard, RemoveRefresh, Respond, Goto, PC
<1>9. ASSUME NEW p \in Handler, RefreshMarkUsed(p) PROVE TypeOK'
  BY <1>9, NoteFacts, MarkedUsedFacts DEF RefreshMarkUsed, UpsertUsed, Goto, PC
<1>10. ASSUME NEW p \in Handler, RefreshSaveNew(p) PROVE TypeOK'
  BY <1>10, NoteFacts, NewRefreshRowFacts, SMTT(30)
  DEF RefreshSaveNew, InsertRefresh, Respond, Goto, PC
<1>11. ASSUME NEW p \in Handler, NEW t \in Token, RevokeGet(p, t) PROVE TypeOK'
  BY <1>11 DEF RevokeGet, Goto, PC
<1>12. ASSUME NEW p \in Handler, RevokeDelete(p) PROVE TypeOK'
  BY <1>12, NoteFacts DEF RevokeDelete, RemoveRefresh, Respond, Goto, PC
<1>13. ASSUME NEW p \in Handler, NEW s \in Subject, LogoutList(p, s) PROVE TypeOK'
  BY <1>13 DEF LogoutList, Goto, PC
<1>14. ASSUME NEW p \in Handler, LogoutDelete(p) PROVE TypeOK'
  BY <1>14, NoteFacts DEF LogoutDelete, RemoveSession
<1>15. ASSUME NEW p \in Handler, LogoutPurge(p) PROVE TypeOK'
  BY <1>15, NoteFacts DEF LogoutPurge, Respond, Goto, PC
<1>16. ASSUME NEW c \in Code, DeleteSession(c) PROVE TypeOK'
  BY <1>16 DEF DeleteSession, RemoveSession
<1>17. ASSUME NEW k \in Client, DeleteClient(k) PROVE TypeOK'
  BY <1>17 DEF DeleteClient
<1>18. ASSUME NEW k \in Code \cup Token, Expire(k) PROVE TypeOK'
  BY <1>18 DEF Expire
<1>19. CASE Crash
  BY <1>19 DEF Crash, PC
<1>20. CASE UNCHANGED vars
  BY <1>20, Zenon DEF vars
<1> QED
  BY <1>1, <1>2, <1>3, <1>4, <1>5, <1>6, <1>7, <1>8, <1>9, <1>10, <1>11,
     <1>12, <1>13, <1>14, <1>15, <1>16, <1>17, <1>18, <1>19, <1>20, ZenonT(30)
  DEF Next, Arrive, Continue

-----------------------------------------------------------------------------
(* The inductive invariant *)

\* Every step preserves IInv.
LEMMA NextIInv == IInv /\ [Next]_vars => IInv'
<1> SUFFICES ASSUME IInv, [Next]_vars PROVE IInv'
  OBVIOUS
<1>0. TypeOK'
  BY NextTypeOK, Zenon DEF IInv
<1> DEFINE Rest == /\ GrantBinding /\ DeadStaysDead /\ SessionBinding
                   /\ StoredWasIssued /\ CopyBinding /\ DeadWasIssued
<1> USE ConstantsAssumption
    DEF IInv, TypeOK, GrantBinding, DeadStaysDead, SessionBinding,
        StoredWasIssued, CopyBinding, DeadWasIssued, store, local, history
<1>1. ASSUME NEW p \in Handler, NEW a \in Request, AuthorizeGetClient(p, a) PROVE Rest'
  BY <1>1, SMTT(30) DEF AuthorizeGetClient, Goto
<1>2. ASSUME NEW p \in Handler, AuthorizeSave(p) PROVE Rest'
  BY <1>2, NewSessionRowFacts, SMTT(30) DEF AuthorizeSave, InsertSession, FreshCode, Respond, Goto
<1>3. ASSUME NEW a \in Request, BridgeIssue(a) PROVE Rest'
  BY <1>3, NewSessionRowFacts, SMTT(30) DEF BridgeIssue, InsertSession, FreshCode
<1>4. ASSUME NEW p \in Handler, NEW c \in Code, ExchangeGet(p, c) PROVE Rest'
  BY <1>4, SMTT(30) DEF ExchangeGet, Goto
<1>5. ASSUME NEW p \in Handler, ExchangeSaveRefresh(p) PROVE Rest'
  BY <1>5, NewRefreshRowFacts, SMTT(30)
  DEF ExchangeSaveRefresh, InsertRefresh, FreshToken, Respond, Goto
<1>6. ASSUME NEW p \in Handler, ExchangeDeleteSession(p) PROVE Rest'
  BY <1>6, SMTT(30) DEF ExchangeDeleteSession, RemoveSession, Respond, Goto
<1>7. ASSUME NEW p \in Handler, NEW t \in Token, RefreshGet(p, t) PROVE Rest'
  BY <1>7, SMTT(30) DEF RefreshGet, Goto
<1>8. ASSUME NEW p \in Handler, RefreshDiscard(p) PROVE Rest'
  BY <1>8, SMTT(30) DEF RefreshDiscard, RemoveRefresh, Respond, Goto
<1>9. ASSUME NEW p \in Handler, RefreshMarkUsed(p) PROVE Rest'
  BY <1>9, MarkedUsedFacts, SMTT(30) DEF RefreshMarkUsed, UpsertUsed, Goto
<1>10. ASSUME NEW p \in Handler, RefreshSaveNew(p) PROVE Rest'
  BY <1>10, NewRefreshRowFacts, SMTT(30)
  DEF RefreshSaveNew, InsertRefresh, FreshToken, Respond, Goto
<1>11. ASSUME NEW p \in Handler, NEW t \in Token, RevokeGet(p, t) PROVE Rest'
  <2>1. UNCHANGED <<sessions, tokens, todo, granted, parent, origin, dead>>
    BY <1>11, Zenon DEF RevokeGet
  <2>2. tokens[t] # None /\ Goto(p, "revoke", t, tokens[t])
    BY <1>11, Zenon DEF RevokeGet
  <2> QED BY <2>1, <2>2, SMTT(30) DEF Goto
<1>12. ASSUME NEW p \in Handler, RevokeDelete(p) PROVE Rest'
  BY <1>12, SMTT(30) DEF RevokeDelete, RemoveRefresh, Respond, Goto
<1>13. ASSUME NEW p \in Handler, NEW s \in Subject, LogoutList(p, s) PROVE Rest'
  BY <1>13, SMTT(30) DEF LogoutList, Goto
<1>14. ASSUME NEW p \in Handler, LogoutDelete(p) PROVE Rest'
  <2>1. PICK c \in todo[p] : /\ todo' = [todo EXCEPT ![p] = @ \ {c}]
                             /\ \/ RemoveSession(c)
                                \/ UNCHANGED <<sessions, dead>>
    BY <1>14, ZenonT(30) DEF LogoutDelete
  <2>2. UNCHANGED <<tokens, pc, key, copy, granted, parent, origin>>
    BY <1>14, Zenon DEF LogoutDelete
  <2> QED BY <2>1, <2>2, SMTT(30) DEF RemoveSession
<1>15. ASSUME NEW p \in Handler, LogoutPurge(p) PROVE Rest'
  BY <1>15, SMTT(30) DEF LogoutPurge, Respond, Goto
<1>16. ASSUME NEW c \in Code, DeleteSession(c) PROVE Rest'
  BY <1>16, SMTT(30) DEF DeleteSession, RemoveSession
<1>17. ASSUME NEW k \in Client, DeleteClient(k) PROVE Rest'
  BY <1>17, Zenon DEF DeleteClient
<1>18. ASSUME NEW k \in Code \cup Token, Expire(k) PROVE Rest'
  BY <1>18, Zenon DEF Expire
<1>19. ASSUME Crash PROVE Rest'
  BY <1>19, Zenon DEF Crash
<1>20. ASSUME UNCHANGED vars PROVE Rest'
  BY <1>20 DEF vars
<1>21. Rest'
  <2> HIDE ConstantsAssumption DEF Rest
  <2> QED
  BY <1>1, <1>2, <1>3, <1>4, <1>5, <1>6, <1>7, <1>8, <1>9, <1>10, <1>11,
     <1>12, <1>13, <1>14, <1>15, <1>16, <1>17, <1>18, <1>19, <1>20, ZenonT(30)
  DEF Next, Arrive, Continue
<1> QED
  BY <1>0, <1>21 DEF IInv

\* The inductive invariant holds throughout every behaviour of the server.
LEMMA InvIInv == Spec => []IInv
BY InitIInv, NextIInv, PTL DEF Spec

\* Type correctness, for every instance of the constants.
THEOREM TypeCorrect == Spec => []TypeOK
BY InvIInv, PTL DEF IInv

\* Every stored refresh token carries the grant its root code was issued
\* for, whatever overlaps, fails or crashes.
THEOREM Binding == Spec => []GrantBinding
BY InvIInv, PTL DEF IInv

\* A consumed, discarded or revoked code or token is never usable again.
THEOREM Finality == Spec => []DeadStaysDead
BY InvIInv, PTL DEF IInv

-----------------------------------------------------------------------------
(* A refresh token is spent before its successor is stored *)

\* Strengthening of SuccessorImpliesSpent: the mark comes first, and the
\* goroutine that made it is the one about to store the successor.
SpentFirst ==
    ~failed => /\ \A t \in Token : parent[t] \in Token => parent[t] \in dead
               /\ \A p \in Handler : pc[p] = "saveNew" => key[p] \in dead

\* A step that stores no token, revives nothing and sends no goroutine to
\* the save of a successor keeps SpentFirst.
LEMMA SpentKept ==
    ASSUME SpentFirst, failed => failed', dead \subseteq dead', parent' = parent,
           \A p \in Handler : pc'[p] = "saveNew" =>
               pc[p] = "saveNew" /\ key'[p] = key[p]
    PROVE  SpentFirst'
BY DEF SpentFirst

\* No write outcome clears the record of failures; a success keeps it.
LEMMA NoteGrows ==
    ASSUME NEW ok, Note(ok)
    PROVE  /\ failed => failed'
           /\ ~failed' => ok
BY ZenonT(30) DEF Note

\* Every step preserves SpentFirst.
LEMMA NextSpentFirst == TypeOK /\ SpentFirst /\ [Next]_vars => SpentFirst'
<1> SUFFICES ASSUME TypeOK, SpentFirst, [Next]_vars PROVE SpentFirst'
  OBVIOUS
<1> USE ConstantsAssumption, NoteGrows, SpentKept DEF TypeOK, store, local, history
<1>1. ASSUME NEW p \in Handler, NEW a \in Request, AuthorizeGetClient(p, a) PROVE SpentFirst'
  BY <1>1, ZenonT(30) DEF AuthorizeGetClient, Goto
<1>2. ASSUME NEW p \in Handler, AuthorizeSave(p) PROVE SpentFirst'
  BY <1>2, Zenon DEF AuthorizeSave, Respond, Goto
<1>3. ASSUME NEW a \in Request, BridgeIssue(a) PROVE SpentFirst'
  BY <1>3, Zenon DEF BridgeIssue
<1>4. ASSUME NEW p \in Handler, NEW c \in Code, ExchangeGet(p, c) PROVE SpentFirst'
  BY <1>4, Zenon DEF ExchangeGet, Goto
<1>5. ASSUME NEW p \in Handler, ExchangeSaveRefresh(p) PROVE SpentFirst'
  BY <1>5, SMTT(30) DEF ExchangeSaveRefresh, InsertRefresh, Respond, Goto, SpentFirst
<1>6. ASSUME NEW p \in Handler, ExchangeDeleteSession(p) PROVE SpentFirst'
  BY <1>6, Zenon DEF ExchangeDeleteSession, RemoveSession, Respond, Goto
<1>7. ASSUME NEW p \in Handler, NEW t \in Token, RefreshGet(p, t) PROVE SpentFirst'
  BY <1>7, SMTT(30) DEF RefreshGet, Goto
<1>8. ASSUME NEW p \in Handler, RefreshDiscard(p) PROVE SpentFirst'
  BY <1>8, Zenon DEF RefreshDiscard, RemoveRefresh, Respond, Goto
<1>9. ASSUME NEW p \in Handler, RefreshMarkUsed(p) PROVE SpentFirst'
  BY <1>9, SMTT(30) DEF RefreshMarkUsed, UpsertUsed, Goto, SpentFirst
<1>10. ASSUME NEW p \in Handler, RefreshSaveNew(p) PROVE SpentFirst'
  BY <1>10, SMTT(30) DEF RefreshSaveNew, InsertRefresh, Respond, Goto, SpentFirst
<1>11. ASSUME NEW p \in Handler, NEW t \in Token, RevokeGet(p, t) PROVE SpentFirst'
  BY <1>11, ZenonT(30) DEF RevokeGet, Goto
<1>12. ASSUME NEW p \in Handler, RevokeDelete(p) PROVE SpentFirst'
  BY <1>12, Zenon DEF RevokeDelete, RemoveRefresh, Respond, Goto
<1>13. ASSUME NEW p \in Handler, NEW s \in Subject, LogoutList(p, s) PROVE SpentFirst'
  BY <1>13, Zenon DEF LogoutList, Goto
<1>14. ASSUME NEW p \in Handler, LogoutDelete(p) PROVE SpentFirst'
  BY <1>14, SMTT(30) DEF LogoutDelete, RemoveSession
<1>15. ASSUME NEW p \in Handler, LogoutPurge(p) PROVE SpentFirst'
  BY <1>15, Zenon DEF LogoutPurge, Respond, Goto
<1>16. ASSUME NEW c \in Code, DeleteSession(c) PROVE SpentFirst'
  BY <1>16, Zenon DEF DeleteSession, RemoveSession
<1>17. ASSUME NEW k \in Client, DeleteClient(k) PROVE SpentFirst'
  BY <1>17 DEF DeleteClient
<1>18. ASSUME NEW k \in Code \cup Token, Expire(k) PROVE SpentFirst'
  BY <1>18, Zenon DEF Expire
<1>19. CASE Crash
  BY <1>19, Zenon DEF Crash, SpentFirst
<1>20. CASE UNCHANGED vars
  BY <1>20 DEF vars
<1> QED
  BY <1>1, <1>2, <1>3, <1>4, <1>5, <1>6, <1>7, <1>8, <1>9, <1>10, <1>11,
     <1>12, <1>13, <1>14, <1>15, <1>16, <1>17, <1>18, <1>19, <1>20, ZenonT(30)
  DEF Next, Arrive, Continue

\* Until a store write fails or the server crashes, no refresh token is
\* usable once a successor of it is stored.
THEOREM SpentBeforeSuccessor == Spec => []SuccessorImpliesSpent
<1>1. Init => SpentFirst
  BY ConstantsAssumption, Zenon DEF Init, SpentFirst
<1>2. SpentFirst => SuccessorImpliesSpent
  BY DEF SpentFirst, SuccessorImpliesSpent
<1> QED
  BY <1>1, <1>2, NextSpentFirst, TypeCorrect, PTL DEF Spec

-----------------------------------------------------------------------------
(* The tables implement GrantLedger *)

life == [k \in Code \cup Token |-> Life(k)]
claim == [p \in Handler |-> IF pc[p] \in {"saveRefresh", "markUsed", "saveNew"}
                            THEN key[p] ELSE None]
from == [k \in Code \cup Token |-> IF k \in Token THEN parent[k] ELSE None]

\* Before any request, nothing is issued and nothing is claimed.
LEMMA LedgerInit == Init => Ledger!Init
BY ConstantsAssumption, Zenon DEF Init, Ledger!Init, Life

\* A step that leaves the three mapped functions alone is a stutter.
LEMMA LedgerStutter ==
    ASSUME UNCHANGED <<life, claim, from>>
    PROVE  [Ledger!Next]_(Ledger!vars)
BY DEF life, claim, from, Ledger!vars

\* A step in which live items die, and nothing else happens, is a Kill.
LEMMA LedgerKill ==
    ASSUME NEW S \in SUBSET (Code \cup Token), UNCHANGED <<claim, from>>,
           life' = [k \in Code \cup Token |->
                       IF k \in S /\ life[k] = "live" THEN "dead" ELSE life[k]]
    PROVE  [Ledger!Next]_(Ledger!vars)
BY ZenonT(30) DEF life, claim, from, Ledger!Next, Ledger!Kill

\* A step in which an unborn item becomes live, and nothing else happens, is
\* an Issue: AuthorizeHandler or the bridge saved a session.
LEMMA LedgerIssue ==
    ASSUME NEW i \in Code \cup Token, UNCHANGED <<claim, from>>,
           life[i] = "unborn", life' = [life EXCEPT ![i] = "live"]
    PROVE  [Ledger!Next]_(Ledger!vars)
BY ZenonT(30) DEF life, claim, from, Ledger!Next, Ledger!Issue

\* A step in which a goroutine takes up a live item is an Accept: a token
\* request passed its checks.
LEMMA LedgerAccept ==
    ASSUME NEW w \in Handler, NEW i \in Code \cup Token,
           UNCHANGED <<life, from>>,
           life[i] = "live", claim' = [claim EXCEPT ![w] = i]
    PROVE  [Ledger!Next]_(Ledger!vars)
BY ZenonT(30) DEF life, claim, from, Ledger!Next, Ledger!Accept

\* A step that issues an item for a goroutine's claim and ends the claim is a
\* Derive: SaveRefreshToken stored the successor.
LEMMA LedgerDerive ==
    ASSUME NEW w \in Handler, NEW i \in Code \cup Token,
           claim[w] # None, life[i] = "unborn",
           life' = [life EXCEPT ![i] = "live"],
           from' = [from EXCEPT ![i] = claim[w]],
           claim' = [claim EXCEPT ![w] = None]
    PROVE  [Ledger!Next]_(Ledger!vars)
BY ZenonT(30) DEF life, claim, from, Ledger!Next, Ledger!Derive

\* A step that only ends claims is an Abandon: a write failed or the server
\* crashed.
LEMMA LedgerAbandon ==
    ASSUME NEW W \in SUBSET Handler, UNCHANGED <<life, from>>,
           claim' = [w \in Handler |-> IF w \in W THEN None ELSE claim[w]]
    PROVE  [Ledger!Next]_(Ledger!vars)
BY DEF life, claim, from, Ledger!Next, Ledger!Abandon

\* What a goroutine's move to another store call does to its claim.
LEMMA GotoClaim ==
    ASSUME TypeOK, NEW p \in Handler, NEW next, NEW k, NEW row,
           Goto(p, next, k, row)
    PROVE  claim' = [claim EXCEPT ![p] =
                        IF next \in {"saveRefresh", "markUsed", "saveNew"}
                        THEN k ELSE None]
BY ZenonT(30) DEF Goto, claim, TypeOK

\* A move that keeps the claimed item keeps all claims.
LEMMA GotoSameClaim ==
    ASSUME TypeOK, NEW p \in Handler, NEW next, NEW k, NEW row,
           Goto(p, next, k, row),
           claim[p] = IF next \in {"saveRefresh", "markUsed", "saveNew"}
                      THEN k ELSE None
    PROVE  UNCHANGED claim
BY DEF Goto, claim, TypeOK

\* The life of a code is decided by its session, that of a token by its row.
LifeIs ==
    /\ \A c \in Code : Life(c) = IF granted[c] = None THEN "unborn"
                       ELSE IF sessions[c] # None THEN "live" ELSE "dead"
    /\ \A t \in Token : Life(t) = IF parent[t] = None THEN "unborn"
                       ELSE IF tokens[t] # None /\ ~tokens[t].used
                            THEN "live" ELSE "dead"

\* LifeIs before and after a step: codes and tokens are different names.
LEMMA LifeFacts == LifeIs /\ LifeIs'
<1>1. LifeIs
  BY ConstantsAssumption DEF Life, LifeIs
<1>2. LifeIs'
  BY ConstantsAssumption DEF Life, LifeIs
<1> QED BY <1>1, <1>2, ZenonT(30)

\* A step after which exactly the live members of S are dead kills S.
LEMMA LifeKilled ==
    ASSUME NEW S \in SUBSET (Code \cup Token),
           \A k \in Code \cup Token :
               Life(k)' = IF k \in S /\ Life(k) = "live" THEN "dead" ELSE Life(k)
    PROVE  life' = [k \in Code \cup Token |->
                       IF k \in S /\ life[k] = "live" THEN "dead" ELSE life[k]]
BY DEF life

\* The tables are functions over all names.
LEMMA Domains ==
    ASSUME IInv
    PROVE  /\ DOMAIN sessions = Code /\ DOMAIN granted = Code
           /\ DOMAIN tokens = Token /\ DOMAIN parent = Token
BY ZenonT(30) DEF IInv, TypeOK

\* AuthorizeHandler's client lookup is a stutter.
LEMMA StepAuthorizeGetClient ==
    ASSUME IInv, NEW p \in Handler, NEW a \in Request, AuthorizeGetClient(p, a)
    PROVE  [Ledger!Next]_(Ledger!vars)
<1> USE ConstantsAssumption DEF store, local, history
<1>1. UNCHANGED claim
  <2>1. claim[p] = None
    BY DEF AuthorizeGetClient, claim
  <2> QED BY <2>1, GotoSameClaim DEF AuthorizeGetClient, IInv
<1> QED BY <1>1, LedgerStutter DEF AuthorizeGetClient, life, Life, from

\* Saving a session issues its code.
LEMMA StepInsertSession ==
    ASSUME IInv, NEW a \in Request, InsertSession(a), UNCHANGED <<tokens, parent, claim>>
    PROVE  [Ledger!Next]_(Ledger!vars)
<1> USE ConstantsAssumption DEF store, local, history
<1>1. PICK c \in Code : /\ FreshCode(c)
                        /\ sessions' = [sessions EXCEPT ![c] = NewSessionRow(a)]
                        /\ granted' = [granted EXCEPT ![c] = a]
  BY ZenonT(30) DEF InsertSession
<1>2. life[c] = "unborn"
  BY <1>1 DEF life, Life, FreshCode
<1>3. \A k \in Code \cup Token : Life(k)' = IF k = c THEN "live" ELSE Life(k)
  <2>1. a # None /\ NewSessionRow(a) # None
    BY NewSessionRowFacts, Zenon
  <2>2. /\ sessions'[c] = NewSessionRow(a) /\ granted'[c] = a
        /\ \A k \in Code \ {c} : sessions'[k] = sessions[k] /\ granted'[k] = granted[k]
    BY Domains, <1>1, Zenon
  <2>3. \A k \in Code : Life(k)' = IF k = c THEN "live" ELSE Life(k)
    BY <2>1, <2>2, LifeFacts, SMTT(30) DEF LifeIs
  <2>4. \A k \in Token : Life(k)' = Life(k)
    BY LifeFacts DEF LifeIs
  <2> QED BY <2>3, <2>4
<1>4. life' = [life EXCEPT ![c] = "live"]
  BY <1>3, ZenonT(30) DEF life
<1> QED
  BY <1>2, <1>4, LedgerIssue, ZenonT(30) DEF from

\* AuthorizeHandler's save issues a code, or fails and stutters.
LEMMA StepAuthorizeSave ==
    ASSUME IInv, NEW p \in Handler, AuthorizeSave(p)
    PROVE  [Ledger!Next]_(Ledger!vars)
<1> USE ConstantsAssumption DEF store, local, history
<1>1. UNCHANGED <<tokens, parent, claim>>
  BY Zenon DEF AuthorizeSave, Respond, Goto, claim, IInv, TypeOK
<1>2. CASE InsertSession(copy[p])
  BY StepInsertSession, <1>1, <1>2, Zenon DEF AuthorizeSave, IInv, TypeOK
<1>3. CASE UNCHANGED <<sessions, granted>>
  BY <1>1, <1>3, LedgerStutter DEF life, Life, from
<1> QED BY <1>2, <1>3, Zenon DEF AuthorizeSave

\* The bridge's IssueCode issues a code.
LEMMA StepBridgeIssue ==
    ASSUME IInv, NEW a \in Request, BridgeIssue(a)
    PROVE  [Ledger!Next]_(Ledger!vars)
<1> USE ConstantsAssumption DEF store, local, history
<1> QED
  BY StepInsertSession DEF BridgeIssue, claim

\* ExchangeCode's checks accept a live code.
LEMMA StepExchangeGet ==
    ASSUME IInv, NEW p \in Handler, NEW c \in Code, ExchangeGet(p, c)
    PROVE  [Ledger!Next]_(Ledger!vars)
<1> USE ConstantsAssumption DEF store, local, history
<1>1. UNCHANGED <<life, from>>
  BY Zenon DEF ExchangeGet, life, Life, from
<1>2. life[c] = "live"
  BY DEF ExchangeGet, life, Life, IInv, SessionBinding
<1>3. claim' = [claim EXCEPT ![p] = c]
  BY ZenonT(30) DEF ExchangeGet, Goto, claim, IInv, TypeOK
<1> QED BY <1>1, <1>2, <1>3, LedgerAccept, ZenonT(30)

\* Saving a refresh token derives it from the claim.
LEMMA StepInsertRefresh ==
    ASSUME IInv, NEW p \in Handler, NEW row \in SessionRow \cup RefreshRow,
           NEW k \in Code \cup Token, NEW root, claim[p] = k,
           InsertRefresh(row, k, root), UNCHANGED <<sessions, granted>>,
           claim' = [claim EXCEPT ![p] = None]
    PROVE  [Ledger!Next]_(Ledger!vars)
<1> USE ConstantsAssumption DEF store, local, history
<1>1. PICK t \in Token : /\ FreshToken(t)
                         /\ tokens' = [tokens EXCEPT ![t] = NewRefreshRow(row)]
                         /\ parent' = [parent EXCEPT ![t] = k]
  BY ZenonT(30) DEF InsertRefresh
<1>2. life[t] = "unborn"
  BY <1>1, Zenon DEF life, Life, FreshToken
<1>3. \A i \in Code \cup Token : Life(i)' = IF i = t THEN "live" ELSE Life(i)
  <2>1. NewRefreshRow(row) # None /\ ~NewRefreshRow(row).used /\ k # None
    BY NewRefreshRowFacts, Zenon
  <2>2. tokens'[t] = NewRefreshRow(row) /\ parent'[t] = k
    BY Domains, <1>1, Zenon
  <2>3. \A i \in Token \ {t} : tokens'[i] = tokens[i] /\ parent'[i] = parent[i]
    BY Domains, <1>1, Zenon
  <2>4. \A i \in Token : Life(i)' = IF i = t THEN "live" ELSE Life(i)
    BY <2>1, <2>2, <2>3, LifeFacts, ZenonT(30) DEF LifeIs
  <2>5. \A c \in Code : Life(c)' = Life(c)
    BY LifeFacts DEF LifeIs
  <2> QED BY <2>4, <2>5, Zenon
<1>4. life' = [life EXCEPT ![t] = "live"]
  BY <1>3, ZenonT(30) DEF life
<1>5. \A i \in Code \cup Token : from[i]' = IF i = t THEN k ELSE from[i]
  <2>1. \A i \in Token : parent'[i] = IF i = t THEN k ELSE parent[i]
    BY Domains, <1>1
  <2> QED BY <2>1, ZenonT(30) DEF from
<1>6. from' = [from EXCEPT ![t] = claim[p]]
  BY <1>5, ZenonT(30) DEF from
<1> QED
  BY <1>2, <1>4, <1>6, LedgerDerive, ZenonT(30)

\* A request that ends without a write abandons its claim.
LEMMA StepRespond ==
    ASSUME IInv, NEW p \in Handler, UNCHANGED <<life, from>>,
           claim' = [claim EXCEPT ![p] = None]
    PROVE  [Ledger!Next]_(Ledger!vars)
<1> USE ConstantsAssumption DEF store, local, history
<1> QED
  BY LedgerAbandon, {p} \in SUBSET Handler, ZenonT(30) DEF claim

\* ExchangeCode's save derives a token, or fails and abandons the code.
LEMMA StepExchangeSaveRefresh ==
    ASSUME IInv, NEW p \in Handler, ExchangeSaveRefresh(p)
    PROVE  [Ledger!Next]_(Ledger!vars)
<1> USE ConstantsAssumption DEF store, local, history
<1>1. claim[p] = key[p] /\ claim' = [claim EXCEPT ![p] = None]
  <2>1. claim[p] = key[p]
    BY Zenon DEF ExchangeSaveRefresh, claim
  <2>2. Goto(p, "deleteSession", key[p], copy[p]) \/ Respond(p)
    BY DEF ExchangeSaveRefresh
  <2> QED BY <2>1, <2>2, GotoClaim, SMTT(30) DEF Respond, IInv
<1>2. CASE InsertRefresh(copy[p], key[p], key[p])
  BY StepInsertRefresh, <1>1, <1>2, ZenonT(30) DEF ExchangeSaveRefresh, IInv, TypeOK
<1>3. CASE UNCHANGED <<tokens, parent, origin>>
  BY StepRespond, <1>1, <1>3, ZenonT(30) DEF ExchangeSaveRefresh, life, Life, from
<1> QED BY <1>2, <1>3, Zenon DEF ExchangeSaveRefresh

\* Deleting a session kills its code.
LEMMA StepRemoveSession ==
    ASSUME IInv, NEW c \in Code, RemoveSession(c), granted[c] # None,
           UNCHANGED <<tokens, parent, granted, claim>>
    PROVE  [Ledger!Next]_(Ledger!vars)
<1> USE ConstantsAssumption DEF store, local, history
<1>1. life' = [k \in Code \cup Token |->
                  IF k \in {c} /\ life[k] = "live" THEN "dead" ELSE life[k]]
  <2>1. \A k \in Code : sessions'[k] = IF k = c THEN None ELSE sessions[k]
    BY Domains, Zenon DEF RemoveSession
  <2>2. \A k \in Code : Life(k)' = IF k \in {c} /\ Life(k) = "live" THEN "dead" ELSE Life(k)
    BY <2>1, LifeFacts, ZenonT(30) DEF LifeIs
  <2>3. \A k \in Token : Life(k)' = Life(k)
    BY LifeFacts, Zenon DEF LifeIs
  <2> QED BY <2>2, <2>3, LifeKilled, {c} \in SUBSET (Code \cup Token), ZenonT(30)
<1> QED
  BY <1>1, LedgerKill, {c} \in SUBSET (Code \cup Token), ZenonT(30) DEF from

\* ExchangeCode's delete kills the code, or fails and stutters.
LEMMA StepExchangeDeleteSession ==
    ASSUME IInv, NEW p \in Handler, ExchangeDeleteSession(p)
    PROVE  [Ledger!Next]_(Ledger!vars)
<1> USE ConstantsAssumption DEF store, local, history
<1>1. UNCHANGED <<tokens, parent, granted, claim>>
  BY ZenonT(30) DEF ExchangeDeleteSession, Respond, Goto, claim, IInv, TypeOK
<1>2. CASE RemoveSession(key[p])
  BY StepRemoveSession, <1>1, <1>2, ZenonT(30) DEF ExchangeDeleteSession, IInv, TypeOK, CopyBinding
<1>3. CASE UNCHANGED <<sessions, dead>>
  BY <1>1, <1>3, LedgerStutter, ZenonT(30) DEF life, Life, from
<1> QED BY <1>2, <1>3 DEF ExchangeDeleteSession

\* RefreshToken's checks accept a live token, or find a spent one.
LEMMA StepRefreshGet ==
    ASSUME IInv, NEW p \in Handler, NEW t \in Token, RefreshGet(p, t)
    PROVE  [Ledger!Next]_(Ledger!vars)
<1> USE ConstantsAssumption DEF store, local, history
<1>1. UNCHANGED <<life, from>>
  BY ZenonT(30) DEF RefreshGet, life, Life, from
<1>2. CASE Goto(p, "discard", t, tokens[t])
  <2>1. claim[p] = None
    BY Zenon DEF RefreshGet, claim
  <2>2. UNCHANGED claim
    BY <1>2, <2>1, GotoSameClaim DEF IInv
  <2> QED BY <1>1, <2>2, LedgerStutter, Zenon
<1>3. CASE ~tokens[t].used /\ Goto(p, "markUsed", t, tokens[t])
  <2>1. life[t] = "live"
    BY <1>3, Zenon DEF RefreshGet, life, Life, IInv, StoredWasIssued
  <2>2. claim' = [claim EXCEPT ![p] = t]
    BY <1>3, GotoClaim DEF IInv
  <2> QED BY <1>1, <2>1, <2>2, LedgerAccept, ZenonT(30)
<1> QED BY <1>2, <1>3, ZenonT(30) DEF RefreshGet

\* Deleting a refresh token kills it.
LEMMA StepRemoveRefresh ==
    ASSUME IInv, NEW t \in Token, RemoveRefresh(t), parent[t] # None,
           UNCHANGED <<sessions, parent, granted, claim>>
    PROVE  [Ledger!Next]_(Ledger!vars)
<1> USE ConstantsAssumption DEF store, local, history
<1>1. life' = [k \in Code \cup Token |->
                  IF k \in {t} /\ life[k] = "live" THEN "dead" ELSE life[k]]
  <2>1. \A k \in Token : tokens'[k] = IF k = t THEN None ELSE tokens[k]
    BY Domains, Zenon DEF RemoveRefresh
  <2>2. \A k \in Token : Life(k)' = IF k \in {t} /\ Life(k) = "live" THEN "dead" ELSE Life(k)
    BY <2>1, LifeFacts, ZenonT(30) DEF LifeIs
  <2>3. \A k \in Code : Life(k)' = Life(k)
    BY LifeFacts, ZenonT(30) DEF LifeIs
  <2> QED BY <2>2, <2>3, LifeKilled, {t} \in SUBSET (Code \cup Token), ZenonT(30)
<1> QED
  BY <1>1, LedgerKill, {t} \in SUBSET (Code \cup Token), ZenonT(30) DEF from

\* The deletes of a spent and of a revoked token kill it, or fail.
LEMMA StepDiscard ==
    ASSUME IInv, NEW p \in Handler, RefreshDiscard(p) \/ RevokeDelete(p)
    PROVE  [Ledger!Next]_(Ledger!vars)
<1> USE ConstantsAssumption DEF store, local, history
<1>1. UNCHANGED <<sessions, parent, granted>>
  BY ZenonT(30) DEF RefreshDiscard, RevokeDelete
<1>2. UNCHANGED claim
  <2>1. claim[p] = None
    BY ZenonT(30) DEF RefreshDiscard, RevokeDelete, claim
  <2> QED BY <2>1, GotoSameClaim DEF RefreshDiscard, RevokeDelete, Respond, IInv
<1>3. CASE RemoveRefresh(key[p])
  BY StepRemoveRefresh, <1>1, <1>2, <1>3, ZenonT(30)
  DEF RefreshDiscard, RevokeDelete, IInv, TypeOK, CopyBinding
<1>4. CASE UNCHANGED <<tokens, dead>>
  BY <1>1, <1>2, <1>4, LedgerStutter, ZenonT(30) DEF life, Life, from
<1> QED BY <1>3, <1>4, Zenon DEF RefreshDiscard, RevokeDelete

\* Marking a token used kills it, or fails and stutters.
LEMMA StepRefreshMarkUsed ==
    ASSUME IInv, NEW p \in Handler, RefreshMarkUsed(p)
    PROVE  [Ledger!Next]_(Ledger!vars)
<1> USE ConstantsAssumption DEF store, local, history
<1>1. UNCHANGED <<sessions, parent, granted>>
  BY DEF RefreshMarkUsed
<1>2. UNCHANGED claim
  <2>1. claim[p] = key[p]
    BY ZenonT(30) DEF RefreshMarkUsed, claim
  <2> QED BY <2>1, GotoSameClaim, ZenonT(30) DEF RefreshMarkUsed, IInv
<1>3. CASE UpsertUsed(key[p], copy[p])
  <2>1. key[p] \in Token /\ copy[p] \in RefreshRow /\ parent[key[p]] # None
    BY DEF RefreshMarkUsed, IInv, TypeOK, CopyBinding
  <2>2. PICK row \in RefreshRow : tokens' = [tokens EXCEPT ![key[p]] = MarkedUsed(row)]
    BY <1>3, <2>1, ZenonT(30) DEF UpsertUsed, IInv, TypeOK
  <2>3. {key[p]} \in SUBSET (Code \cup Token)
    BY <2>1, ZenonT(30)
  <2>4. life' = [k \in Code \cup Token |->
                    IF k \in {key[p]} /\ life[k] = "live"
                    THEN "dead" ELSE life[k]]
    <3>1. MarkedUsed(row).used
      BY <2>2, MarkedUsedFacts
    <3>2. /\ tokens'[key[p]] = MarkedUsed(row)
          /\ \A k \in Token \ {key[p]} : tokens'[k] = tokens[k]
      BY Domains, <2>1, <2>2
    <3>3. \A k \in Token : Life(k)' = IF k \in {key[p]} /\ Life(k) = "live"
                                      THEN "dead" ELSE Life(k)
      <4> TAKE k \in Token
      <4>1. CASE k = key[p]
        <5>1. tokens'[k].used /\ parent'[k] # None /\ parent[k] # None
          BY <1>1, <2>1, <3>1, <3>2, <4>1, ZenonT(30)
        <5>2. Life(k)' = "dead"
          BY <5>1, LifeFacts, Zenon DEF LifeIs
        <5>3. Life(k) \in {"live", "dead"}
          BY <5>1, LifeFacts, Zenon DEF LifeIs
        <5> QED BY <4>1, <5>2, <5>3
      <4>2. CASE k # key[p]
        BY <1>1, <3>2, <4>2, LifeFacts, SMTT(30) DEF LifeIs
      <4> QED BY <4>1, <4>2
    <3>4. \A k \in Code : Life(k)' = Life(k)
      BY <1>1, LifeFacts, Zenon DEF LifeIs
    <3> QED BY <2>1, <2>3, <3>3, <3>4, LifeKilled, ZenonT(30)
  <2> QED
    BY <1>1, <1>2, <2>1, <2>3, <2>4, LedgerKill, ZenonT(30)
    DEF from
<1>4. CASE UNCHANGED <<tokens, dead>>
  BY <1>1, <1>2, <1>4, LedgerStutter, Zenon DEF life, Life, from
<1> QED BY <1>3, <1>4, ZenonT(30) DEF RefreshMarkUsed

\* RefreshToken's save derives a token, or fails and abandons the old one.
LEMMA StepRefreshSaveNew ==
    ASSUME IInv, NEW p \in Handler, RefreshSaveNew(p)
    PROVE  [Ledger!Next]_(Ledger!vars)
<1> USE ConstantsAssumption DEF store, local, history
<1>1. claim[p] = key[p] /\ claim' = [claim EXCEPT ![p] = None]
  BY GotoClaim, ZenonT(30) DEF RefreshSaveNew, Respond, claim, IInv
<1>2. CASE InsertRefresh(copy[p], key[p], origin[key[p]])
  BY StepInsertRefresh, <1>1, <1>2, ZenonT(30) DEF RefreshSaveNew, IInv, TypeOK
<1>3. CASE UNCHANGED <<tokens, parent, origin>>
  BY StepRespond, <1>1, <1>3, ZenonT(30) DEF RefreshSaveNew, life, Life, from
<1> QED BY <1>2, <1>3 DEF RefreshSaveNew

\* RevokeHandler's lookup is a stutter.
LEMMA StepRevokeGet ==
    ASSUME IInv, NEW p \in Handler, NEW t \in Token, RevokeGet(p, t)
    PROVE  [Ledger!Next]_(Ledger!vars)
<1> USE ConstantsAssumption DEF store, local, history
<1>1. UNCHANGED claim
  <2>1. claim[p] = None
    BY Zenon DEF RevokeGet, claim
  <2> QED BY <2>1, GotoSameClaim, Zenon DEF RevokeGet, IInv
<1> QED BY <1>1, LedgerStutter, ZenonT(30) DEF RevokeGet, life, Life, from

\* A logout's list of sessions is a stutter.
LEMMA StepLogoutList ==
    ASSUME IInv, NEW p \in Handler, NEW s \in Subject, LogoutList(p, s)
    PROVE  [Ledger!Next]_(Ledger!vars)
<1> USE ConstantsAssumption DEF store, local, history
<1>1. UNCHANGED claim
  <2>1. claim[p] = None
    BY ZenonT(30) DEF LogoutList, claim
  <2> QED BY <2>1, GotoSameClaim DEF LogoutList, IInv
<1> QED BY <1>1, LedgerStutter, Zenon DEF LogoutList, life, Life, from

\* A logout's delete kills one code, or fails and stutters.
LEMMA StepLogoutDelete ==
    ASSUME IInv, NEW p \in Handler, LogoutDelete(p)
    PROVE  [Ledger!Next]_(Ledger!vars)
<1> USE ConstantsAssumption DEF store, local, history
<1>1. PICK c \in todo[p] : \/ RemoveSession(c)
                           \/ UNCHANGED <<sessions, dead>>
  BY Zenon DEF LogoutDelete
<1>2. c \in Code /\ granted[c] # None
  BY <1>1 DEF IInv, TypeOK, DeadWasIssued
<1>3. UNCHANGED <<tokens, parent, granted, claim>>
  <2>1. UNCHANGED <<parent, granted, claim>>
    BY Zenon DEF LogoutDelete, claim
  <2>2. \A d \in todo[p] : d \in Code
    BY DEF IInv, TypeOK
  <2>3. UNCHANGED tokens
    BY <2>2, ZenonT(30) DEF LogoutDelete, IInv, SessionBinding
  <2> QED BY <2>1, <2>3, Zenon
<1>4. CASE UNCHANGED <<sessions, dead>>
  BY <1>3, <1>4, LedgerStutter, ZenonT(30) DEF life, Life, from
<1> QED BY StepRemoveSession, <1>1, <1>2, <1>3, <1>4, Zenon

\* A logout's purge kills the expired codes, or fails and stutters.
LEMMA StepLogoutPurge ==
    ASSUME IInv, NEW p \in Handler, LogoutPurge(p)
    PROVE  [Ledger!Next]_(Ledger!vars)
<1> USE ConstantsAssumption DEF store, local, history
<1>1. UNCHANGED claim
  <2>1. claim[p] = None
    BY DEF LogoutPurge, claim
  <2> QED BY <2>1, GotoSameClaim DEF LogoutPurge, Respond, IInv
<1>2. UNCHANGED <<tokens, parent, granted>>
  BY DEF LogoutPurge
<1>3. CASE sessions' = [c \in Code |-> IF c \in expired THEN None ELSE sessions[c]]
  <2>1. life' = [k \in Code \cup Token |->
                    IF k \in expired \cap Code /\ life[k] = "live"
                    THEN "dead" ELSE life[k]]
    BY <1>2, <1>3, ZenonT(30) DEF life, Life, IInv, TypeOK
  <2> QED
    BY <1>1, <1>2, <2>1, LedgerKill, expired \cap Code \in SUBSET (Code \cup Token), ZenonT(30)
    DEF from
<1>4. CASE UNCHANGED sessions
  BY <1>1, <1>2, <1>4, LedgerStutter, ZenonT(30) DEF life, Life, from
<1> QED BY <1>3, <1>4, ZenonT(30) DEF LogoutPurge

\* The administrator's delete kills one code.
LEMMA StepDeleteSession ==
    ASSUME IInv, NEW c \in Code, DeleteSession(c)
    PROVE  [Ledger!Next]_(Ledger!vars)
<1> USE ConstantsAssumption DEF store, local, history
<1> QED
  BY StepRemoveSession, ZenonT(30) DEF DeleteSession, claim, IInv, SessionBinding

\* Deleting a client is a stutter.
LEMMA StepDeleteClient ==
    ASSUME IInv, NEW k \in Client, DeleteClient(k)
    PROVE  [Ledger!Next]_(Ledger!vars)
<1> USE ConstantsAssumption DEF store, local, history
<1> QED
  BY LedgerStutter, ZenonT(30) DEF DeleteClient, life, Life, claim, from

\* The passing of an expiry is a stutter.
LEMMA StepExpire ==
    ASSUME IInv, NEW k \in Code \cup Token, Expire(k)
    PROVE  [Ledger!Next]_(Ledger!vars)
<1> USE ConstantsAssumption DEF store, local, history
<1> QED
  BY LedgerStutter DEF Expire, life, Life, claim, from

\* A crash abandons every claim.
LEMMA StepCrash ==
    ASSUME IInv, Crash
    PROVE  [Ledger!Next]_(Ledger!vars)
<1> USE ConstantsAssumption DEF store, local, history
<1>1. claim' = [w \in Handler |-> IF w \in Handler THEN None ELSE claim[w]]
  BY Zenon DEF Crash, claim
<1>2. UNCHANGED <<life, from>>
  BY Zenon DEF Crash, life, Life, from
<1> QED BY <1>1, <1>2, LedgerAbandon, Handler \in SUBSET Handler

\* Every step of the server is a step of the ledger or a stutter.
LEMMA LedgerNext ==
    ASSUME IInv, [Next]_vars
    PROVE  [Ledger!Next]_(Ledger!vars)
<1>1. CASE UNCHANGED vars
  BY <1>1, LedgerStutter, ZenonT(30) DEF vars, store, local, history, life, Life, claim, from
<1>2. CASE Next
  BY <1>2, StepAuthorizeGetClient, StepAuthorizeSave, StepBridgeIssue,
     StepExchangeGet, StepExchangeSaveRefresh, StepExchangeDeleteSession,
     StepRefreshGet, StepDiscard, StepRefreshMarkUsed, StepRefreshSaveNew,
     StepRevokeGet, StepLogoutList, StepLogoutDelete, StepLogoutPurge,
     StepDeleteSession, StepDeleteClient, StepExpire, StepCrash, ZenonT(30)
  DEF Next, Arrive, Continue
<1> QED BY <1>1, <1>2

\* The token endpoint keeps the promise of GrantLedger, for every instance.
THEOREM Implementation == Spec => ImplementsLedger
<1>1. Spec => Ledger!Init /\ [][Ledger!Next]_(Ledger!vars)
  BY LedgerInit, LedgerNext, InvIInv, PTL DEF Spec
<1> QED
  BY <1>1 DEF ImplementsLedger, Ledger!Spec

=============================================================================
