------------------------- MODULE DeviceGrantProofs -------------------------
(***************************************************************************)
(* Proofs about DeviceGrant, for any goroutines, devices, user codes and   *)
(* tokens: types, the binding of tokens to what was asked and approved,    *)
(* and that the device grant implements GrantLedger.                       *)
(***************************************************************************)
EXTENDS DeviceGrant, TLAPS

\* A stored row is that of the request of its device, and is approved only
\* by someone who approved that device.
RowBinding ==
    \A d \in Device : rows[d] # None =>
        /\ asked[d] = rows[d].request
        /\ rows[d].approved => rows[d].subject \in approvers[d]

\* So is the row a goroutine holds.
Held(p) ==
    /\ pc[p] # "idle" =>
         /\ key[p] \in Device
         /\ asked[key[p]] # None
    /\ pc[p] \in {"update", "saveRefresh"} =>
         /\ copy[p] \in Row
         /\ copy[p].subject \in approvers[key[p]]
         /\ copy[p].request = asked[key[p]]

CopyBinding == \A p \in Handler : Held(p)

\* A token has a parent from when it is stored, and a device that asked.
TokenBinding ==
    \A t \in Token :
        /\ tokens[t] = None <=> parent[t] = None
        /\ tokens[t] # None =>
             /\ tokens[t].request = asked[parent[t]]
             /\ tokens[t].subject \in approvers[parent[t]]

Inv == TypeOK /\ RowBinding /\ CopyBinding /\ TokenBinding

-----------------------------------------------------------------------------

\* What Goto leaves of the types.
LEMMA GotoType ==
    ASSUME TypeOK, NEW p \in Handler,
           NEW next \in {"idle", "update", "saveRefresh", "delete"},
           NEW k \in Device \cup {None}, NEW row \in Row \cup {None},
           Goto(p, next, k, row)
    PROVE  /\ pc' \in [Handler -> {"idle", "update", "saveRefresh", "delete"}]
           /\ key' \in [Handler -> Device \cup {None}]
           /\ copy' \in [Handler -> Row \cup {None}]
           /\ pc'[p] = next /\ key'[p] = k /\ copy'[p] = row
           /\ \A q \in Handler : q # p =>
                pc'[q] = pc[q] /\ key'[q] = key[q] /\ copy'[q] = copy[q]
BY DEF Goto, TypeOK

\* The invariant holds before the first request.
LEMMA InitInv == Init => Inv
<1> SUFFICES ASSUME Init PROVE Inv
  OBVIOUS
<1>1. failed \in BOOLEAN
  BY Zenon DEF Init
<1>2. TypeOK
  BY <1>1 DEF Init, TypeOK
<1> QED BY <1>2 DEF Init, Inv, RowBinding, CopyBinding, Held, TokenBinding

\* DeviceAuthorizationHandler: the device code is a fresh one.
LEMMA DeviceAuthorizeInv ==
    ASSUME Inv, NEW d \in Device, NEW u \in UserCode, NEW r \in Request,
           DeviceAuthorize(d, u, r)
    PROVE  Inv'
<1> DEFINE row == [user |-> u, request |-> r, subject |-> None,
                   approved |-> FALSE, denied |-> FALSE]
<1>1. row \in Row
  BY DEF Row
<1>2. /\ rows' = [rows EXCEPT ![d] = row] /\ asked' = [asked EXCEPT ![d] = r]
      /\ asked[d] = None
      /\ UNCHANGED <<tokens, expired, pc, key, copy, approvers, parent, failed>>
  BY DEF DeviceAuthorize, local
<1>3. TypeOK'
  BY <1>1, <1>2 DEF Inv, TypeOK
<1>4. \A e \in Device : e # d => rows'[e] = rows[e] /\ asked'[e] = asked[e]
  BY <1>2 DEF Inv, TypeOK
<1>5. rows'[d] = row /\ asked'[d] = r /\ r # None
  BY <1>2, DeviceAssumption DEF Inv, TypeOK
<1>6. RowBinding'
  BY <1>2, <1>4, <1>5 DEF Inv, RowBinding
<1>7. CopyBinding'
  <2>1. \A p \in Handler : pc[p] # "idle" => key[p] # d
    BY <1>2 DEF Inv, CopyBinding, Held
  <2> QED BY <1>2, <1>4, <2>1 DEF Inv, CopyBinding, Held
<1>8. TokenBinding'
  <2>1. ASSUME NEW t \in Token, tokens[t] # None
        PROVE  parent[t] \in Device /\ parent[t] # d
    <3>1. parent[t] \in Device
      BY <2>1 DEF Inv, TypeOK, TokenBinding
    <3>2. asked[parent[t]] \in Request
      BY <2>1 DEF Inv, TypeOK, TokenBinding, RefreshRow
    <3> QED BY <1>2, <3>1, <3>2, DeviceAssumption
  <2> QED BY <1>2, <1>4, <2>1 DEF Inv, TokenBinding
<1> QED BY <1>3, <1>6, <1>7, <1>8 DEF Inv

\* DeviceApproveHandler reads the row and fills in who approved it.
LEMMA ApproveGetInv ==
    ASSUME Inv, NEW p \in Handler, NEW d \in Device, NEW s \in Subject, ApproveGet(p, d, s)
    PROVE  Inv'
<1> DEFINE row == [rows[d] EXCEPT !.subject = s, !.approved = TRUE]
<1>1. rows[d] \in Row /\ rows[d] # None
  BY DEF ApproveGet, Inv, TypeOK
<1>2. row \in Row /\ row.subject = s /\ row.request = rows[d].request
  BY <1>1, Zenon DEF Row
<1>3. /\ Goto(p, "update", d, row)
      /\ approvers' = [approvers EXCEPT ![d] = @ \cup {s}]
      /\ UNCHANGED <<rows, tokens, expired, asked, parent, failed>>
  BY DEF ApproveGet
<1>4. /\ pc' \in [Handler -> {"idle", "update", "saveRefresh", "delete"}]
      /\ key' \in [Handler -> Device \cup {None}]
      /\ copy' \in [Handler -> Row \cup {None}]
      /\ pc'[p] = "update" /\ key'[p] = d /\ copy'[p] = row
      /\ \A q \in Handler : q # p => pc'[q] = pc[q] /\ key'[q] = key[q] /\ copy'[q] = copy[q]
  BY <1>2, <1>3, GotoType DEF Inv
<1>5. approvers' \in [Device -> SUBSET Subject]
  BY <1>3 DEF Inv, TypeOK
<1>6. s \in approvers'[d] /\ \A e \in Device : approvers[e] \subseteq approvers'[e]
  BY <1>3 DEF Inv, TypeOK
<1>7. TypeOK'
  BY <1>3, <1>4, <1>5 DEF Inv, TypeOK
<1>8. RowBinding'
  BY <1>3, <1>6 DEF Inv, RowBinding
<1>9. CopyBinding'
  <2>1. rows[d].request \in Request
    BY <1>1 DEF Row
  <2>2. asked[d] = rows[d].request /\ asked[d] # None
    BY <1>1, <2>1, DeviceAssumption DEF Inv, RowBinding
  <2>3. ASSUME NEW q \in Handler, q # p PROVE Held(q)'
    BY <1>3, <1>4, <1>6, <2>3 DEF Inv, CopyBinding, Held
  <2>4. Held(p)'
    <3> HIDE DEF row
    <3> QED BY <1>2, <1>3, <1>4, <1>6, <2>2 DEF Held
  <2> QED BY <2>3, <2>4 DEF CopyBinding
<1>10. TokenBinding'
  <2>1. \A t \in Token : tokens[t] # None => parent[t] \in Device
    BY DEF Inv, TypeOK, TokenBinding
  <2> QED BY <1>3, <1>6, <2>1 DEF Inv, TokenBinding
<1> QED BY <1>7, <1>8, <1>9, <1>10 DEF Inv

\* A goroutine answers while requests, approvals and tokens stay: the other
\* goroutines hold what they held.
LEMMA RespondKept ==
    ASSUME Inv, NEW p \in Handler, Respond(p), UNCHANGED <<asked, approvers>>
    PROVE  /\ pc' \in [Handler -> {"idle", "update", "saveRefresh", "delete"}]
           /\ key' \in [Handler -> Device \cup {None}]
           /\ copy' \in [Handler -> Row \cup {None}]
           /\ CopyBinding'
<1>1. /\ pc' \in [Handler -> {"idle", "update", "saveRefresh", "delete"}]
      /\ key' \in [Handler -> Device \cup {None}]
      /\ copy' \in [Handler -> Row \cup {None}]
      /\ pc'[p] = "idle"
      /\ \A q \in Handler : q # p => pc'[q] = pc[q] /\ key'[q] = key[q] /\ copy'[q] = copy[q]
  BY GotoType DEF Respond, Inv
<1>2. ASSUME NEW q \in Handler PROVE Held(q)'
  BY <1>1 DEF Inv, CopyBinding, Held
<1> QED BY <1>1, <1>2 DEF CopyBinding

\* DeviceApproveHandler writes the approval into the row, if it is there.
LEMMA ApproveUpdateInv ==
    ASSUME Inv, NEW p \in Handler, ApproveUpdate(p)
    PROVE  Inv'
<1>1. /\ Respond(p) /\ UNCHANGED <<tokens, expired, asked, approvers, parent>>
      /\ pc[p] = "update"
  BY DEF ApproveUpdate
<1>2. failed' \in BOOLEAN
  BY Zenon DEF ApproveUpdate, Note
<1>3. /\ key[p] \in Device /\ copy[p] \in Row /\ copy[p].subject \in approvers[key[p]]
  BY <1>1 DEF Inv, CopyBinding, Held
<1>4. CASE UNCHANGED rows
  <2>1. TypeOK'
    BY <1>1, <1>2, <1>4, RespondKept DEF Inv, TypeOK
  <2>2. RowBinding' /\ TokenBinding'
    BY <1>1, <1>4 DEF Inv, RowBinding, TokenBinding
  <2> QED BY <1>1, <2>1, <2>2, RespondKept DEF Inv
<1>5. CASE UpdateDeviceCode(key[p], copy[p])
  <2>1. /\ \A e \in Device : e # key[p] => rows'[e] = rows[e]
        /\ rows[key[p]] = None => rows'[key[p]] = None
        /\ rows[key[p]] # None => rows'[key[p]] = Approved(rows[key[p]], copy[p])
        /\ rows' = [e \in Device |-> rows'[e]]
    BY <1>3, <1>5, Zenon DEF UpdateDeviceCode, Inv, TypeOK
  <2>2. rows[key[p]] # None =>
          /\ rows'[key[p]] \in Row
          /\ rows'[key[p]].request = rows[key[p]].request
          /\ rows'[key[p]].subject = copy[p].subject
    <3> SUFFICES ASSUME rows[key[p]] # None
                 PROVE  /\ rows'[key[p]] \in Row
                        /\ rows'[key[p]].request = rows[key[p]].request
                        /\ rows'[key[p]].subject = copy[p].subject
      OBVIOUS
    <3>1. rows[key[p]] \in Row
      BY <1>3 DEF Inv, TypeOK
    <3> QED BY <1>3, <2>1, <3>1, Zenon DEF Approved, Row
  <2>3. rows' \in [Device -> Row \cup {None}]
    <3>1. \A e \in Device : rows'[e] \in Row \cup {None}
      BY <1>3, <2>1, <2>2 DEF Inv, TypeOK
    <3> QED BY <2>1, <3>1
  <2>4. TypeOK'
    BY <1>1, <1>2, <2>3, RespondKept DEF Inv, TypeOK
  <2>5. RowBinding'
    BY <1>1, <1>3, <2>1, <2>2 DEF Inv, RowBinding
  <2>6. TokenBinding'
    BY <1>1 DEF Inv, TokenBinding
  <2> QED BY <1>1, <2>4, <2>5, <2>6, RespondKept DEF Inv
<1> QED BY <1>4, <1>5 DEF ApproveUpdate

\* handleDeviceGrant reads the row: it holds what the row says.
LEMMA PollGetInv ==
    ASSUME Inv, NEW p \in Handler, NEW d \in Device, PollGet(p, d)
    PROVE  Inv'
<1>1. /\ UNCHANGED <<rows, tokens, expired, asked, approvers, parent, failed>>
      /\ rows[d] # None
  BY DEF PollGet, history
<1>2. rows[d] \in Row /\ asked[d] = rows[d].request /\ asked[d] # None
  <2>1. rows[d] \in Row /\ asked[d] = rows[d].request
    BY <1>1 DEF Inv, TypeOK, RowBinding
  <2>2. rows[d].request \in Request
    BY <2>1 DEF Row
  <2> QED BY <2>1, <2>2, DeviceAssumption
<1>3. PICK next \in {"saveRefresh", "delete"} :
        /\ Goto(p, next, d, rows[d])
        /\ next = "saveRefresh" => rows[d].approved
  BY DEF PollGet
<1>4. /\ pc' \in [Handler -> {"idle", "update", "saveRefresh", "delete"}]
      /\ key' \in [Handler -> Device \cup {None}]
      /\ copy' \in [Handler -> Row \cup {None}]
      /\ pc'[p] = next /\ key'[p] = d /\ copy'[p] = rows[d]
      /\ \A q \in Handler : q # p => pc'[q] = pc[q] /\ key'[q] = key[q] /\ copy'[q] = copy[q]
  BY <1>2, <1>3, GotoType DEF Inv
<1>5. TypeOK'
  BY <1>1, <1>4 DEF Inv, TypeOK
<1>6. ASSUME NEW q \in Handler, q # p PROVE Held(q)'
  BY <1>1, <1>4, <1>6 DEF Inv, CopyBinding, Held
<1>7. Held(p)'
  BY <1>1, <1>2, <1>3, <1>4 DEF Inv, RowBinding, Held
<1>8. RowBinding' /\ TokenBinding'
  BY <1>1 DEF Inv, RowBinding, TokenBinding
<1> QED BY <1>5, <1>6, <1>7, <1>8 DEF Inv, CopyBinding

\* handleDeviceGrant stores a refresh token made of what it read.
LEMMA PollSaveRefreshInv ==
    ASSUME Inv, NEW p \in Handler, PollSaveRefresh(p)
    PROVE  Inv'
<1>1. pc[p] = "saveRefresh" /\ UNCHANGED <<rows, expired, asked, approvers>>
  BY DEF PollSaveRefresh
<1>2. failed' \in BOOLEAN
  BY Zenon DEF PollSaveRefresh, Note
<1>3. /\ key[p] \in Device /\ copy[p] \in Row /\ asked[key[p]] # None
      /\ copy[p].subject \in approvers[key[p]]
      /\ copy[p].request = asked[key[p]]
  BY <1>1 DEF Inv, CopyBinding, Held
<1>4. RowBinding'
  BY <1>1 DEF Inv, RowBinding
<1>5. CASE Respond(p) /\ UNCHANGED <<tokens, parent>>
  <2>1. TypeOK'
    BY <1>1, <1>2, <1>5, RespondKept DEF Inv, TypeOK
  <2>2. TokenBinding'
    BY <1>1, <1>5 DEF Inv, TokenBinding
  <2> QED BY <1>1, <1>4, <1>5, <2>1, <2>2, RespondKept DEF Inv
<1>6. ASSUME NEW t \in Token, parent[t] = None,
             tokens' = [tokens EXCEPT ![t] = [subject |-> copy[p].subject,
                                              request |-> copy[p].request]],
             parent' = [parent EXCEPT ![t] = key[p]],
             Goto(p, "delete", key[p], copy[p])
      PROVE  Inv'
  <2> DEFINE row == [subject |-> copy[p].subject, request |-> copy[p].request]
  <2>1. copy[p].subject \in Subject /\ copy[p].request \in Request
    BY <1>3 DEF Inv, TypeOK, Row
  <2>2. row \in RefreshRow /\ row # None
    BY <2>1, DeviceAssumption DEF RefreshRow
  <2>3. /\ tokens' \in [Token -> RefreshRow \cup {None}]
        /\ parent' \in [Token -> Device \cup {None}]
        /\ tokens'[t] = row /\ parent'[t] = key[p]
        /\ \A x \in Token : x # t => tokens'[x] = tokens[x] /\ parent'[x] = parent[x]
    BY <1>3, <1>6, <2>2 DEF Inv, TypeOK
  <2>4. /\ pc' \in [Handler -> {"idle", "update", "saveRefresh", "delete"}]
        /\ key' \in [Handler -> Device \cup {None}]
        /\ copy' \in [Handler -> Row \cup {None}]
        /\ pc'[p] = "delete" /\ key'[p] = key[p] /\ copy'[p] = copy[p]
        /\ \A q \in Handler : q # p => pc'[q] = pc[q] /\ key'[q] = key[q] /\ copy'[q] = copy[q]
    BY <1>3, <1>6, GotoType DEF Inv
  <2>5. TypeOK'
    BY <1>1, <1>2, <2>3, <2>4 DEF Inv, TypeOK
  <2>6. ASSUME NEW q \in Handler PROVE Held(q)'
    BY <1>1, <1>3, <2>4 DEF Inv, CopyBinding, Held
  <2>7. TokenBinding'
    <3>1. row.request = asked'[key[p]] /\ row.subject \in approvers'[key[p]] /\ key[p] # None
      BY <1>1, <1>3, DeviceAssumption
    <3> HIDE DEF row
    <3> QED BY <1>1, <2>2, <2>3, <3>1 DEF Inv, TokenBinding
  <2> QED BY <1>4, <2>5, <2>6, <2>7 DEF Inv, CopyBinding
<1> QED BY <1>5, <1>6 DEF PollSaveRefresh

\* handleDeviceGrant deletes the row.
LEMMA PollDeleteInv ==
    ASSUME Inv, NEW p \in Handler, PollDelete(p)
    PROVE  Inv'
<1>1. /\ pc[p] = "delete" /\ Respond(p)
      /\ UNCHANGED <<tokens, expired, asked, approvers, parent>>
      /\ rows' = rows \/ rows' = [rows EXCEPT ![key[p]] = None]
  BY DEF PollDelete
<1>2. failed' \in BOOLEAN
  BY Zenon DEF PollDelete, Note
<1>3. /\ rows' \in [Device -> Row \cup {None}]
      /\ \A d \in Device : rows'[d] # None => rows'[d] = rows[d]
  BY <1>1 DEF Inv, TypeOK
<1>4. TypeOK'
  BY <1>1, <1>2, <1>3, RespondKept DEF Inv, TypeOK
<1>5. RowBinding' /\ TokenBinding'
  BY <1>1, <1>3 DEF Inv, RowBinding, TokenBinding
<1> QED BY <1>1, <1>4, <1>5, RespondKept DEF Inv

\* Steps that keep the invariant because they only forget.
LEMMA CrashInv ==
    ASSUME Inv, Crash
    PROVE  Inv'
<1>1. failed' \in BOOLEAN
  BY Zenon DEF Crash
<1>2. TypeOK'
  BY <1>1 DEF Crash, Inv, TypeOK
<1> QED BY <1>2 DEF Crash, Inv, RowBinding, CopyBinding, Held, TokenBinding

LEMMA ExpireInv ==
    ASSUME Inv, NEW d \in Device, Expire(d)
    PROVE  Inv'
<1>1. TypeOK'
  BY DEF Expire, local, history, Inv, TypeOK
<1> QED BY <1>1 DEF Expire, local, history, Inv, RowBinding, CopyBinding, Held, TokenBinding

\* One step of the device grant keeps the invariant.
LEMMA NextInv == Inv /\ [Next]_vars => Inv'
<1> SUFFICES ASSUME Inv, [Next]_vars PROVE Inv'
  OBVIOUS
<1>1. CASE UNCHANGED vars
  <2>1. TypeOK'
    BY <1>1 DEF vars, local, history, Inv, TypeOK
  <2> QED
    BY <1>1, <2>1
    DEF vars, local, history, Inv, RowBinding, CopyBinding, Held, TokenBinding
<1> QED
  BY <1>1, DeviceAuthorizeInv, ApproveGetInv, ApproveUpdateInv, PollGetInv,
     PollSaveRefreshInv, PollDeleteInv, CrashInv, ExpireInv
  DEF Next, Continue

\* Every variable keeps its type.
THEOREM DeviceTypeCorrect == Spec => []TypeOK
<1>1. Inv => TypeOK
  BY DEF Inv
<1> QED BY <1>1, InitInv, NextInv, PTL DEF Spec

\* A token is for what its device asked and for someone who approved that
\* device (device.go:106-131, 134-197), however user codes are reused.
THEOREM DeviceBindingHolds == Spec => []DeviceBinding
<1>1. Inv => DeviceBinding
  BY DEF Inv, TokenBinding, DeviceBinding
<1> QED BY <1>1, InitInv, NextInv, PTL DEF Spec

-----------------------------------------------------------------------------
(* The device grant implements GrantLedger.  The functions that the        *)
(* refinement mapping of DeviceGrant gives:                                *)

Item == Device \cup Token
life == [k \in Item |->
           IF k \in Token
           THEN IF tokens[k] = None THEN "unborn" ELSE "live"
           ELSE IF asked[k] = None THEN "unborn"
           ELSE IF rows[k] # None THEN "live" ELSE "dead"]
claim == [p \in Handler |-> IF pc[p] = "saveRefresh" THEN key[p] ELSE None]
from == [k \in Item |-> IF k \in Token THEN parent[k] ELSE None]

\* A step that leaves the three functions alone is a stutter.
LEMMA MappedStutter ==
    ASSUME UNCHANGED <<life, claim, from>>
    PROVE  [Ledger!Next]_(Ledger!vars)
BY DEF life, claim, from, Item, Ledger!vars

\* A device code is issued: DeviceAuthorizationHandler saved its row.
LEMMA MappedIssue ==
    ASSUME NEW d \in Device, UNCHANGED <<claim, from>>,
           life[d] = "unborn", life' = [life EXCEPT ![d] = "live"]
    PROVE  [Ledger!Next]_(Ledger!vars)
BY Zenon DEF life, claim, from, Item, Ledger!Next, Ledger!Issue

\* A poll is accepted on a live device code.
LEMMA MappedAccept ==
    ASSUME NEW p \in Handler, NEW d \in Device, UNCHANGED <<life, from>>,
           life[d] = "live", claim' = [claim EXCEPT ![p] = d]
    PROVE  [Ledger!Next]_(Ledger!vars)
BY ZenonT(30) DEF life, claim, from, Item, Ledger!Next, Ledger!Accept

\* The refresh token of an accepted poll is stored.
LEMMA MappedDerive ==
    ASSUME NEW p \in Handler, NEW t \in Token, claim[p] # None, life[t] = "unborn",
           life' = [life EXCEPT ![t] = "live"],
           from' = [from EXCEPT ![t] = claim[p]],
           claim' = [claim EXCEPT ![p] = None]
    PROVE  [Ledger!Next]_(Ledger!vars)
BY Zenon DEF life, claim, from, Item, Ledger!Next, Ledger!Derive

\* The row of a device code is deleted.
LEMMA MappedKill ==
    ASSUME NEW d \in Device, UNCHANGED <<claim, from>>,
           life' = [k \in Item |-> IF k \in {d} /\ life[k] = "live" THEN "dead" ELSE life[k]]
    PROVE  [Ledger!Next]_(Ledger!vars)
<1>1. {d} \in SUBSET (Device \cup Token)
  OBVIOUS
<1> QED BY <1>1, Zenon DEF life, claim, from, Item, Ledger!Next, Ledger!Kill

\* Polls end without a token: a write failed or the server crashed.
LEMMA MappedAbandon ==
    ASSUME NEW W \in SUBSET Handler, UNCHANGED <<life, from>>,
           claim' = [p \in Handler |-> IF p \in W THEN None ELSE claim[p]]
    PROVE  [Ledger!Next]_(Ledger!vars)
BY DEF life, claim, from, Item, Ledger!Next, Ledger!Abandon

\* What a goroutine's move does to its claim.
LEMMA GotoClaim ==
    ASSUME TypeOK, NEW p \in Handler, NEW next, NEW k, NEW row, Goto(p, next, k, row)
    PROVE  /\ claim' = [claim EXCEPT ![p] = IF next = "saveRefresh" THEN k ELSE None]
           /\ next # "saveRefresh" /\ pc[p] # "saveRefresh" => UNCHANGED claim
BY Zenon DEF Goto, claim, TypeOK

\* Every step of the device grant is a step of the ledger or a stutter.
LEMMA DeviceLedgerNext ==
    ASSUME Inv, [Next]_vars
    PROVE  [Ledger!Next]_(Ledger!vars)
<1>0. /\ TypeOK
      /\ \A d \in Device : d \notin Token /\ d # None
      /\ \A d \in Device : rows[d] # None => asked[d] # None
  <2>1. ASSUME NEW d \in Device, rows[d] # None PROVE asked[d] # None
    <3>1. rows[d] \in Row /\ asked[d] = rows[d].request
      BY <2>1 DEF Inv, TypeOK, RowBinding
    <3>2. rows[d].request \in Request
      BY <3>1 DEF Row
    <3> QED BY <3>1, <3>2, DeviceAssumption
  <2> QED BY <2>1, DeviceAssumption DEF Inv
<1>1. ASSUME NEW d \in Device, NEW u \in UserCode, NEW r \in Request, DeviceAuthorize(d, u, r)
      PROVE  [Ledger!Next]_(Ledger!vars)
  <2> DEFINE row == [user |-> u, request |-> r, subject |-> None,
                     approved |-> FALSE, denied |-> FALSE]
  <2>1. row # None /\ r # None
    <3>1. row \in Row
      BY DEF Row
    <3> HIDE DEF row
    <3> QED BY <3>1, DeviceAssumption
  <2>2. /\ UNCHANGED <<tokens, parent, pc, key>> /\ asked[d] = None
        /\ rows' = [rows EXCEPT ![d] = row] /\ asked' = [asked EXCEPT ![d] = r]
    BY <1>1 DEF DeviceAuthorize, local
  <2> HIDE DEF row
  <2>3. UNCHANGED <<claim, from>>
    BY <2>2 DEF claim, from
  <2>4. \A k \in Device \ {d} : rows'[k] = rows[k] /\ asked'[k] = asked[k]
    BY <1>0, <2>2 DEF TypeOK
  <2>5. rows'[d] # None /\ asked'[d] # None
    BY <1>0, <2>1, <2>2 DEF TypeOK
  <2>6. life[d] = "unborn" /\ life'[d] = "live"
    BY <1>0, <2>2, <2>5 DEF life, Item
  <2>7. \A k \in Item \ {d} : life'[k] = life[k]
    BY <2>2, <2>4 DEF life, Item
  <2>8. life' = [life EXCEPT ![d] = "live"]
    BY <2>6, <2>7, Zenon DEF life, Item
  <2> QED BY <2>3, <2>6, <2>8, MappedIssue, Zenon
<1>2. ASSUME NEW p \in Handler, NEW d \in Device, NEW s \in Subject, ApproveGet(p, d, s)
      PROVE  [Ledger!Next]_(Ledger!vars)
  <2>1. UNCHANGED <<rows, tokens, asked, parent>> /\ UNCHANGED claim
    BY <1>0, <1>2, GotoClaim DEF ApproveGet
  <2> QED BY <2>1, MappedStutter DEF life, from
<1>3. ASSUME NEW p \in Handler, ApproveUpdate(p)
      PROVE  [Ledger!Next]_(Ledger!vars)
  <2>1. UNCHANGED <<tokens, asked, parent>> /\ UNCHANGED claim
    BY <1>0, <1>3, GotoClaim DEF ApproveUpdate, Respond
  <2>2. \A d \in Device : rows'[d] = None <=> rows[d] = None
    <3>1. CASE UNCHANGED rows
      BY <3>1
    <3>2. CASE UpdateDeviceCode(key[p], copy[p])
      <4>1. /\ key[p] \in Device /\ copy[p] \in Row
        BY <1>3 DEF ApproveUpdate, Inv, CopyBinding, Held
      <4>2. rows[key[p]] # None => Approved(rows[key[p]], copy[p]) # None
        <5>1. rows[key[p]] # None => rows[key[p]] \in Row
          BY <4>1 DEF Inv, TypeOK
        <5> QED BY <4>1, <5>1, DeviceAssumption, Zenon DEF Approved, Row
      <4> QED BY <1>0, <3>2, <4>1, <4>2 DEF UpdateDeviceCode, TypeOK
    <3> QED BY <1>3, <3>1, <3>2 DEF ApproveUpdate
  <2>3. UNCHANGED life /\ UNCHANGED from
    BY <1>0, <2>1, <2>2 DEF life, from, Item
  <2> QED BY <2>1, <2>3, MappedStutter
<1>4. ASSUME NEW p \in Handler, NEW d \in Device, PollGet(p, d)
      PROVE  [Ledger!Next]_(Ledger!vars)
  <2>1. UNCHANGED <<life, from>> /\ pc[p] = "idle" /\ rows[d] # None
    BY <1>4 DEF PollGet, history, life, from
  <2>2. CASE Goto(p, "delete", d, rows[d])
    BY <1>0, <2>1, <2>2, GotoClaim, MappedStutter
  <2>3. CASE Goto(p, "saveRefresh", d, rows[d])
    <3>1. life[d] = "live"
      BY <1>0, <2>1 DEF life, Item
    <3>2. claim' = [claim EXCEPT ![p] = d]
      BY <1>0, <2>3, GotoClaim
    <3> QED BY <2>1, <3>1, <3>2, MappedAccept, Zenon
  <2> QED BY <1>4, <2>2, <2>3 DEF PollGet
<1>5. ASSUME NEW p \in Handler, PollSaveRefresh(p)
      PROVE  [Ledger!Next]_(Ledger!vars)
  <2>1. UNCHANGED <<rows, asked>> /\ pc[p] = "saveRefresh"
    BY <1>5 DEF PollSaveRefresh
  <2>2. key[p] \in Device /\ copy[p] \in Row /\ copy[p].subject \in approvers[key[p]]
    BY <2>1 DEF Inv, CopyBinding, Held
  <2>3. claim[p] = key[p] /\ claim[p] # None
    BY <1>0, <2>1, <2>2 DEF claim
  <2>4. CASE Respond(p) /\ UNCHANGED <<tokens, parent>>
    <3>1. claim' = [claim EXCEPT ![p] = None]
      BY <1>0, <2>4, GotoClaim DEF Respond
    <3>2. claim' = [q \in Handler |-> IF q \in {p} THEN None ELSE claim[q]]
      BY <3>1, Zenon DEF claim
    <3>3. UNCHANGED <<life, from>>
      BY <2>1, <2>4 DEF life, from
    <3>4. {p} \in SUBSET Handler
      OBVIOUS
    <3> QED BY <3>2, <3>3, <3>4, MappedAbandon, Zenon
  <2>5. ASSUME NEW t \in Token, parent[t] = None,
               tokens' = [tokens EXCEPT ![t] = [subject |-> copy[p].subject,
                                                request |-> copy[p].request]],
               parent' = [parent EXCEPT ![t] = key[p]],
               Goto(p, "delete", key[p], copy[p])
        PROVE  [Ledger!Next]_(Ledger!vars)
    <3> DEFINE row == [subject |-> copy[p].subject, request |-> copy[p].request]
    <3>1. row # None
      <4>1. copy[p].subject \in Subject /\ copy[p].request \in Request
        BY <2>2 DEF Inv, TypeOK, Row
      <4> QED BY <4>1, DeviceAssumption DEF RefreshRow
    <3>2. tokens' = [tokens EXCEPT ![t] = row] /\ tokens[t] = None
      BY <2>5 DEF Inv, TokenBinding
    <3> HIDE DEF row
    <3>3. claim' = [claim EXCEPT ![p] = None]
      BY <1>0, <2>5, GotoClaim
    <3>4. life[t] = "unborn" /\ life'[t] = "live"
      BY <3>1, <3>2 DEF life, Item, Inv, TypeOK
    <3>5. \A k \in Item \ {t} : life'[k] = life[k]
      <4>1. \A k \in Token \ {t} : tokens'[k] = tokens[k]
        BY <1>0, <3>2 DEF TypeOK
      <4> QED BY <2>1, <4>1 DEF life, Item
    <3>6. life' = [life EXCEPT ![t] = "live"]
      BY <3>4, <3>5, Zenon DEF life, Item
    <3>7. from' = [from EXCEPT ![t] = claim[p]]
      BY <1>0, <2>3, <2>5, Zenon DEF from, Item, TypeOK
    <3> QED BY <2>3, <3>3, <3>4, <3>6, <3>7, MappedDerive, Zenon
  <2> QED BY <1>5, <2>4, <2>5 DEF PollSaveRefresh
<1>6. ASSUME NEW p \in Handler, PollDelete(p)
      PROVE  [Ledger!Next]_(Ledger!vars)
  <2>1. /\ UNCHANGED <<tokens, asked, parent>> /\ UNCHANGED claim
        /\ rows' = rows \/ rows' = [rows EXCEPT ![key[p]] = None]
    BY <1>0, <1>6, GotoClaim DEF PollDelete, Respond
  <2>2. key[p] \in Device /\ asked[key[p]] # None
    BY <1>6 DEF PollDelete, Inv, CopyBinding, Held
  <2>3. UNCHANGED from
    BY <2>1 DEF from
  <2>4. CASE rows' = rows
    BY <2>1, <2>3, <2>4, MappedStutter DEF life
  <2>5. CASE rows' = [rows EXCEPT ![key[p]] = None]
    <3>1. /\ rows'[key[p]] = None
          /\ \A k \in Device \ {key[p]} : rows'[k] = rows[k]
      BY <1>0, <2>2, <2>5 DEF TypeOK
    <3>2. life'[key[p]] = "dead"
      BY <1>0, <2>1, <2>2, <3>1 DEF life, Item
    <3>3. life[key[p]] \in {"live", "dead"}
      BY <1>0, <2>2 DEF life, Item
    <3>4. \A k \in Item \ {key[p]} : life'[k] = life[k]
      BY <2>1, <3>1 DEF life, Item
    <3>5. life' = [k \in Item |-> IF k \in {key[p]} /\ life[k] = "live"
                                  THEN "dead" ELSE life[k]]
      BY <2>2, <3>2, <3>3, <3>4 DEF life, Item
    <3> QED BY <2>1, <2>2, <2>3, <3>5, MappedKill
  <2> QED BY <2>1, <2>4, <2>5
<1>7. ASSUME NEW d \in Device, Expire(d)
      PROVE  [Ledger!Next]_(Ledger!vars)
  BY <1>7, MappedStutter DEF Expire, local, history, life, claim, from
<1>8. CASE Crash
  <2>1. claim' = [p \in Handler |-> IF p \in Handler THEN None ELSE claim[p]]
    BY <1>8 DEF Crash, claim
  <2>2. UNCHANGED <<life, from>>
    BY <1>8 DEF Crash, life, from
  <2> QED BY <2>1, <2>2, MappedAbandon
<1>9. CASE UNCHANGED vars
  BY <1>9, MappedStutter DEF vars, local, history, life, claim, from
<1> QED
  BY <1>1, <1>2, <1>3, <1>4, <1>5, <1>6, <1>7, <1>8, <1>9 DEF Next, Continue

\* The device grant keeps the promise of GrantLedger, for every instance: a
\* device code lives once and only a live one is accepted, although an
\* approval writes after the row may be gone (device.go:125).
THEOREM DeviceImplementation == Spec => DeviceImplementsLedger
<1>1. Init => Ledger!Init
  BY DeviceAssumption DEF Init, Ledger!Init
<1>2. Inv /\ [Next]_vars => [Ledger!Next]_(Ledger!vars)
  BY DeviceLedgerNext
<1>3. Spec => Ledger!Init /\ [][Ledger!Next]_(Ledger!vars)
  BY <1>1, <1>2, InitInv, NextInv, PTL DEF Spec
<1> QED BY <1>3 DEF DeviceImplementsLedger, Ledger!Spec

=============================================================================
