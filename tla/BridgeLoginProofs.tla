------------------------- MODULE BridgeLoginProofs -------------------------
(***************************************************************************)
(* What the bridge keeps for any number of goroutines, providers and DIDs: *)
(* links lead to stored documents, or to a DID that a token's holder       *)
(* linked without one, whatever overlaps or fails; and as long as requests *)
(* do not overlap an identity keeps its DID and a link its owner.  The     *)
(* invariant says what a goroutine's local values have to do with the      *)
(* tables between two store calls; the part of it that a second goroutine  *)
(* could spoil is claimed only while requests do not overlap.              *)
(***************************************************************************)
EXTENDS BridgeLogin, TLAPS

\* The marker of an absent value is none of the values; mail addresses are
\* external identities.
Distinct == None \notin Ext /\ None \notin DID \cup Foreign /\ Mail \subseteq Ext

\* The subjects of access tokens, stored here or not.
Person == DID \cup Foreign

Steps == {"idle", "find", "touch", "saveIdentity", "saveDocument", "saveLink",
          "magicDelete", "linkSave", "unlinkDelete"}

Stored == identities \cap documents

\* The DIDs a link may lead to.
Linkable == Stored \cup adopted

Shape ==
    /\ identities \subseteq DID
    /\ adopted \subseteq Person
    /\ links \in [Ext -> Person \cup {None}]
    /\ magic \in [Magic -> Ext \cup {None}]
    /\ pc \in [Handler -> Steps]
    /\ ext \in [Handler -> Ext \cup {None}]
    /\ did \in [Handler -> Person \cup {None}]

\* What goroutine p carries, whatever the others do.
Carries(p) ==
    /\ pc[p] # "idle" => ext[p] \in Ext
    /\ pc[p] = "saveDocument" => did[p] \in identities
    /\ pc[p] = "saveLink" => did[p] \in Stored
    /\ pc[p] = "touch" => did[p] \in Linkable
    /\ pc[p] = "linkSave" => did[p] \in Person

\* What p read of the link still holds.
Fresh(p) ==
    /\ pc[p] = "touch" => links[ext[p]] = did[p]
    /\ pc[p] \in {"saveIdentity", "saveDocument", "saveLink", "linkSave"} =>
         links[ext[p]] = None

\* One goroutine at most is busy, and what it read is fresh.
Alone == \A p \in Handler :
    Fresh(p) /\ \A q \in Handler : pc[p] # "idle" /\ pc[q] # "idle" => p = q

LoginsTyped == \A l \in logins : l.ext \in Ext /\ l.did \in Person

\* An identity that was not unlinked is linked to the DID it got.
LoginsLinked == \A l \in logins : links[l.ext] = l.did

Inv ==
    /\ Shape
    /\ \A p \in Handler : Carries(p)
    /\ LinkedDIDResolves
    /\ LoginsTyped
    /\ ~overlap => Alone /\ LoginsLinked

-----------------------------------------------------------------------------

\* Nothing is stored and nobody is busy.
LEMMA InitInv == ASSUME Init PROVE Inv
BY DEF Init, Inv, Shape, Steps, Carries, LinkedDIDResolves, LoginsTyped, Alone, Fresh,
       LoginsLinked

\* p starts on a request, or goes on with one; while requests do not overlap
\* the others are idle.
Runs(p) ==
    /\ overlap => overlap'
    /\ ~overlap' => \A q \in Handler : q # p => pc[q] = "idle"

LEMMA ArriveRuns == ASSUME NEW p \in Handler, Arrive(p) PROVE Runs(p)
BY Zenon DEF Arrive, Runs

LEMMA ContinueRuns ==
    ASSUME Inv, NEW p \in Handler, pc[p] # "idle", UNCHANGED overlap
    PROVE  Runs(p)
BY DEF Inv, Alone, Runs

\* The local values after a move of p.
LEMMA GotoValues ==
    ASSUME Inv, NEW p \in Handler, NEW next \in Steps, NEW e \in Ext \cup {None},
           NEW d \in Person \cup {None}, NEW n, Goto(p, next, e, d, n)
    PROVE  /\ pc' \in [Handler -> Steps]
           /\ ext' \in [Handler -> Ext \cup {None}]
           /\ did' \in [Handler -> Person \cup {None}]
           /\ pc'[p] = next /\ ext'[p] = e /\ did'[p] = d
           /\ \A q \in Handler : q # p =>
                pc'[q] = pc[q] /\ ext'[q] = ext[q] /\ did'[q] = did[q]
BY DEF Goto, Inv, Shape

\* What a goroutine that does not move carries, while the tables grow.
LEMMA StillCarries ==
    ASSUME NEW q \in Handler, Carries(q), pc'[q] = pc[q], ext'[q] = ext[q], did'[q] = did[q],
           identities \subseteq identities', documents \subseteq documents',
           adopted \subseteq adopted'
    PROVE  Carries(q)'
BY DEF Carries, Linkable, Stored

\* p moves, perhaps storing an identity or a document; the links stay.
LEMMA MoveInv ==
    ASSUME Inv, NEW p \in Handler, NEW next \in Steps, NEW e \in Ext \cup {None},
           NEW d \in Person \cup {None}, NEW n, Goto(p, next, e, d, n), Runs(p),
           UNCHANGED <<links, logins, adopted>>,
           identities \subseteq identities', identities' \subseteq DID,
           documents \subseteq documents', magic' \in [Magic -> Ext \cup {None}],
           Carries(p)', ~overlap' => Fresh(p)'
    PROVE  Inv'
<1>1. Shape'
  BY GotoValues, Zenon DEF Inv, Shape
<1>2. ASSUME NEW q \in Handler PROVE Carries(q)'
  <2>1. CASE q # p
    <3>1. Carries(q) /\ pc'[q] = pc[q] /\ ext'[q] = ext[q] /\ did'[q] = did[q]
      BY <2>1, GotoValues DEF Inv
    <3> QED BY <3>1, StillCarries
  <2> QED BY <2>1
<1>3. LinkedDIDResolves' /\ LoginsTyped'
  BY DEF Inv, LinkedDIDResolves, LoginsTyped, Stored
<1>4. ASSUME ~overlap' PROVE Alone' /\ LoginsLinked'
  <2>1. ~overlap /\ \A q \in Handler : q # p => pc'[q] = "idle"
    BY <1>4, GotoValues DEF Runs
  <2>2. Alone'
    BY <1>4, <2>1 DEF Alone, Fresh
  <2> QED BY <2>1, <2>2 DEF Inv, LoginsLinked
<1> QED BY <1>1, <1>2, <1>3, <1>4 DEF Inv

\* p writes the link to its DID, which is stored or adopted, or does not, logs
\* in or not, and is done with FindOrCreate or LinkIdentity.
Written(p) ==
    /\ adopted \subseteq adopted' /\ adopted' \subseteq adopted \cup {did[p]}
    /\ \/ links' = links
       \/ links' = [links EXCEPT ![ext[p]] = did[p]] /\ did[p] \in Stored \cup adopted'
    /\ \/ logins' = logins
       \/ /\ logins' = logins \cup {[ext |-> ext[p], did |-> did[p]]}
          /\ ~overlap => links'[ext[p]] = did[p]
    /\ ~overlap => links[ext[p]] \in {None, did[p]}

LEMMA FinishInv ==
    ASSUME Distinct, Inv, NEW p \in Handler, pc[p] \in {"touch", "saveLink", "linkSave"},
           NEW next \in {"idle", "find"}, NEW e \in Ext \cup {None}, NEW n,
           Goto(p, next, e, None, n), next = "find" => e = ext[p], Written(p),
           UNCHANGED <<identities, documents, magic, overlap>>
    PROVE  Inv'
<1>0. /\ ext[p] \in Ext /\ did[p] \in Person
      /\ next \in Steps /\ Runs(p)
  BY ContinueRuns DEF Inv, Carries, Shape, Stored, Linkable, Steps, Person
<1>1. /\ links' \in [Ext -> Person \cup {None}] /\ adopted' \subseteq Person
      /\ \A x \in Ext : links'[x] = links[x] \/ links'[x] \in Stored \cup adopted'
      /\ \A x \in Ext : x # ext[p] => links'[x] = links[x]
  BY <1>0 DEF Written, Inv, Shape
<1>2. Shape'
  BY <1>0, <1>1, GotoValues, Zenon DEF Inv, Shape
<1>3. ASSUME NEW q \in Handler PROVE Carries(q)'
  <2>1. CASE q = p
    <3>1. pc'[p] = next /\ ext'[p] = e
      BY DEF Goto, Inv, Shape
    <3> QED BY <1>0, <2>1, <3>1 DEF Carries
  <2>2. CASE q # p
    <3>1. Carries(q) /\ pc'[q] = pc[q] /\ ext'[q] = ext[q] /\ did'[q] = did[q]
      BY <1>0, <2>2, GotoValues, ZenonT(30) DEF Inv
    <3>2. /\ identities \subseteq identities' /\ documents \subseteq documents'
          /\ adopted \subseteq adopted'
      BY DEF Written
    <3> QED BY <3>1, <3>2, StillCarries
  <2> QED BY <2>1, <2>2
<1>4. LinkedDIDResolves'
  BY <1>0, <1>1 DEF Inv, LinkedDIDResolves, Stored, Written
<1>5. LoginsTyped'
  BY <1>0 DEF Inv, LoginsTyped, Written
<1>6. ASSUME ~overlap' PROVE Alone' /\ LoginsLinked'
  <2>1. ~overlap /\ \A q \in Handler : q # p => pc'[q] = "idle"
    BY <1>0, <1>6, GotoValues, ZenonT(30) DEF Runs
  <2>2. Alone'
    BY <1>0, <2>1, GotoValues, SMTT(30) DEF Alone, Fresh
  <2>3. ASSUME NEW l \in logins PROVE links'[l.ext] = l.did
    <3>1. l.ext \in Ext /\ links[l.ext] = l.did /\ l.did # None
      BY <2>1, <2>3 DEF Inv, LoginsTyped, LoginsLinked, Distinct, Person
    <3>2. CASE l.ext = ext[p]
      BY <1>1, <2>1, <3>1, <3>2 DEF Written
    <3> QED BY <1>1, <3>1, <3>2
  <2>4. LoginsLinked'
    BY <2>1, <2>3 DEF LoginsLinked, Written
  <2> QED BY <2>2, <2>4
<1> QED BY <1>2, <1>3, <1>4, <1>5, <1>6 DEF Inv

\* p responds, or starts FindOrCreate once more, and writes nothing.
LEMMA QuietInv ==
    ASSUME Inv, NEW p \in Handler, pc[p] # "idle",
           NEW next \in {"idle", "find"}, NEW e \in Ext \cup {None}, NEW n,
           Goto(p, next, e, None, n), next = "find" => e \in Ext,
           UNCHANGED <<identities, documents, links, logins, adopted, overlap>>,
           magic' \in [Magic -> Ext \cup {None}]
    PROVE  Inv'
<1>0. next \in Steps /\ None \in Person \cup {None}
  BY DEF Steps
<1>1. Runs(p) /\ identities' \subseteq DID
  BY ContinueRuns DEF Inv, Shape
<1>2. pc'[p] = next /\ ext'[p] = e
  BY DEF Goto, Inv, Shape
<1>3. Carries(p)' /\ Fresh(p)'
  BY <1>2 DEF Carries, Fresh
<1> QED BY <1>0, <1>1, <1>3, MoveInv

LEMMA ReturnError ==
    ASSUME Inv, NEW p \in Handler, pc[p] # "idle", Return(p, FALSE),
           UNCHANGED <<identities, documents, links, magic, adopted, overlap>>
    PROVE  Inv'
<1>1. UNCHANGED logins /\ ext[p] \in Ext /\ magic' \in [Magic -> Ext \cup {None}]
  BY DEF Return, Inv, Carries, Shape
<1>2. CASE Goto(p, "find", ext[p], None, rounds[p] - 1)
  BY <1>1, <1>2, QuietInv
<1>3. CASE Goto(p, "idle", None, None, 0)
  BY <1>1, <1>3, QuietInv
<1> QED BY <1>2, <1>3 DEF Return, Respond

\* GetExternalLink.
LEMMA FindInv ==
    ASSUME Distinct, Inv, NEW p \in Handler, NEW e \in Ext, NEW n, Runs(p), Find(p, e, n),
           UNCHANGED <<identities, documents, links, magic, logins, adopted>>
    PROVE  Inv'
<1>0. identities' \subseteq DID /\ magic' \in [Magic -> Ext \cup {None}]
  BY DEF Inv, Shape
<1>1. CASE links[e] # None /\ Goto(p, "touch", e, links[e], n)
  <2>1. links[e] \in Linkable /\ links[e] \in Person
    BY <1>1 DEF Inv, LinkedDIDResolves, Linkable, Stored, Shape
  <2>2. pc'[p] = "touch" /\ ext'[p] = e /\ did'[p] = links[e]
    BY <1>1, <2>1, GotoValues DEF Steps
  <2>3. Carries(p)' /\ Fresh(p)'
    BY <2>1, <2>2 DEF Carries, Fresh, Linkable, Stored
  <2> QED BY <1>0, <1>1, <2>1, <2>3, MoveInv DEF Steps
<1>2. CASE links[e] = None /\ Goto(p, "saveIdentity", e, None, n)
  <2>1. pc'[p] = "saveIdentity" /\ ext'[p] = e
    BY <1>2, GotoValues DEF Steps
  <2>2. Carries(p)' /\ Fresh(p)'
    BY <1>2, <2>1 DEF Carries, Fresh
  <2> QED BY <1>0, <1>2, <2>2, MoveInv DEF Steps
<1> QED BY <1>1, <1>2 DEF Find

LEMMA LoginInv ==
    ASSUME Distinct, Inv, NEW p \in Handler, NEW e \in Ext, NEW n, Login(p, e, n)
    PROVE  Inv'
BY ArriveRuns, FindInv DEF Login, tables

LEMMA FindAgainInv ==
    ASSUME Distinct, Inv, NEW p \in Handler, FindAgain(p)
    PROVE  Inv'
<1>1. pc[p] = "find" /\ UNCHANGED overlap /\ ext[p] \in Ext
  BY DEF FindAgain, Inv, Carries
<1> QED BY <1>1, ContinueRuns, FindInv DEF FindAgain, tables

\* FindOrCreate returns the DID p holds, its link written or there already.
LEMMA ReturnDID ==
    ASSUME Distinct, Inv, NEW p \in Handler, pc[p] \in {"touch", "saveLink"}, Return(p, TRUE),
           links' = links \/ links' = [links EXCEPT ![ext[p]] = did[p]],
           ~overlap => links'[ext[p]] = did[p] /\ links[ext[p]] \in {None, did[p]},
           UNCHANGED <<identities, documents, magic, adopted, overlap>>
    PROVE  Inv'
<1>1. ext[p] \in Ext /\ did[p] \in Stored \cup adopted
  BY DEF Inv, Carries, Linkable
<1>0. Written(p)
  BY <1>1 DEF Return, Written
<1>2. CASE Goto(p, "find", ext[p], None, rounds[p] - 1)
  BY <1>0, <1>1, <1>2, FinishInv
<1>3. CASE Goto(p, "idle", None, None, 0)
  BY <1>0, <1>1, <1>3, FinishInv
<1> QED BY <1>2, <1>3 DEF Return, Respond

\* What the writer of a link knows of it while requests do not overlap.
LEMMA OwnLink ==
    ASSUME Inv, NEW p \in Handler, pc[p] \in {"touch", "saveLink", "linkSave"}, ~overlap
    PROVE  /\ links[ext[p]] \in {None, did[p]}
           /\ pc[p] = "touch" => links[ext[p]] = did[p]
           /\ [links EXCEPT ![ext[p]] = did[p]][ext[p]] = did[p]
<1>1. Fresh(p) /\ ext[p] \in Ext
  BY DEF Inv, Alone, Carries
<1> QED BY <1>1 DEF Fresh, Inv, Shape

LEMMA FindTouchInv ==
    ASSUME Distinct, Inv, NEW p \in Handler, FindTouch(p)
    PROVE  Inv'
<1>1. /\ pc[p] = "touch" /\ Return(p, TRUE)
      /\ links' = links \/ links' = [links EXCEPT ![ext[p]] = did[p]]
      /\ UNCHANGED <<identities, documents, magic, adopted, overlap>>
  BY Zenon DEF FindTouch
<1>2. ~overlap => links'[ext[p]] = did[p] /\ links[ext[p]] \in {None, did[p]}
  BY <1>1, OwnLink, Zenon
<1> QED BY <1>1, <1>2, ReturnDID, Zenon

LEMMA CreateLinkInv ==
    ASSUME Distinct, Inv, NEW p \in Handler, CreateLink(p)
    PROVE  Inv'
<1>1. pc[p] = "saveLink" /\ UNCHANGED <<identities, documents, magic, adopted, overlap>>
  BY DEF CreateLink
<1>2. CASE links' = links /\ Return(p, FALSE)
  BY <1>1, <1>2, ReturnError, Zenon
<1>3. CASE links' = [links EXCEPT ![ext[p]] = did[p]] /\ Return(p, TRUE)
  BY <1>1, <1>3, OwnLink, ReturnDID, Zenon
<1> QED BY <1>2, <1>3, Zenon DEF CreateLink

LEMMA CreateIdentityInv ==
    ASSUME Inv, NEW p \in Handler, CreateIdentity(p)
    PROVE  Inv'
<1>1. /\ pc[p] = "saveIdentity" /\ ext[p] \in Ext
      /\ UNCHANGED <<documents, links, magic, adopted, overlap>>
  BY DEF CreateIdentity, Inv, Carries
<1>2. CASE UNCHANGED identities /\ Return(p, FALSE)
  BY <1>1, <1>2, ReturnError, Zenon
<1>3. ASSUME NEW d \in DID, identities' = identities \cup {d}, UNCHANGED logins,
             Goto(p, "saveDocument", ext[p], d, rounds[p])
      PROVE  Inv'
  <2>0. d \in Person
    BY <1>3 DEF Person
  <2>1. pc'[p] = "saveDocument" /\ ext'[p] = ext[p] /\ did'[p] = d
    BY <1>1, <1>3, <2>0, GotoValues DEF Steps
  <2>2. Carries(p)'
    BY <1>1, <1>3, <2>1 DEF Carries
  <2>3. Runs(p) /\ (~overlap' => Fresh(p)')
    BY <1>1, <2>1, ContinueRuns DEF Fresh, Inv, Alone
  <2>4. identities' \subseteq DID /\ magic' \in [Magic -> Ext \cup {None}]
    BY <1>1, <1>3 DEF Inv, Shape
  <2> QED BY <1>1, <1>3, <2>0, <2>2, <2>3, <2>4, MoveInv DEF Steps
<1> QED BY <1>2, <1>3, Zenon DEF CreateIdentity

LEMMA CreateDocumentInv ==
    ASSUME Inv, NEW p \in Handler, CreateDocument(p)
    PROVE  Inv'
<1>1. /\ pc[p] = "saveDocument" /\ ext[p] \in Ext /\ did[p] \in identities /\ did[p] \in Person
      /\ UNCHANGED <<identities, links, magic, adopted, overlap>>
  BY DEF CreateDocument, Inv, Carries, Shape, Person
<1>2. CASE UNCHANGED documents /\ Return(p, FALSE)
  BY <1>1, <1>2, ReturnError, Zenon
<1>3. CASE documents' = documents \cup {did[p]} /\ UNCHANGED logins
           /\ Goto(p, "saveLink", ext[p], did[p], rounds[p])
  <2>1. pc'[p] = "saveLink" /\ ext'[p] = ext[p] /\ did'[p] = did[p]
    BY <1>1, <1>3, GotoValues DEF Steps
  <2>2. Carries(p)'
    BY <1>1, <1>3, <2>1 DEF Carries, Stored
  <2>3. Runs(p) /\ (~overlap' => Fresh(p)')
    BY <1>1, <2>1, ContinueRuns DEF Fresh, Inv, Alone
  <2>4. identities' \subseteq DID /\ magic' \in [Magic -> Ext \cup {None}]
    BY <1>1 DEF Inv, Shape
  <2> QED BY <1>1, <1>3, <2>2, <2>3, <2>4, MoveInv DEF Steps
<1> QED BY <1>2, <1>3, Zenon DEF CreateDocument

LEMMA MagicGetInv ==
    ASSUME Inv, NEW p \in Handler, NEW m \in Magic, MagicGet(p, m)
    PROVE  Inv'
<1>1. /\ Arrive(p) /\ magic[m] \in Ext /\ Goto(p, "magicDelete", magic[m], None, 1)
      /\ UNCHANGED <<identities, documents, links, magic, logins, adopted>>
  BY DEF MagicGet, tables, Inv, Shape
<1>2. pc'[p] = "magicDelete" /\ ext'[p] = magic[m]
  BY <1>1, GotoValues DEF Steps
<1>3. Carries(p)' /\ Fresh(p)'
  BY <1>1, <1>2 DEF Carries, Fresh
<1>4. identities' \subseteq DID /\ magic' \in [Magic -> Ext \cup {None}]
  BY <1>1 DEF Inv, Shape
<1> QED BY <1>1, <1>3, <1>4, ArriveRuns, MoveInv DEF Steps

LEMMA MagicDeleteInv ==
    ASSUME Inv, NEW p \in Handler, MagicDelete(p)
    PROVE  Inv'
<1>1. /\ pc[p] = "magicDelete" /\ ext[p] \in Ext
      /\ UNCHANGED <<identities, documents, links, logins, adopted, overlap>>
      /\ magic' = magic \/ magic' = [magic EXCEPT ![token[p]] = None]
      /\ Goto(p, "idle", None, None, 0) \/ Goto(p, "find", ext[p], None, 1)
  BY DEF MagicDelete, Respond, Inv, Carries
<1>2. magic' \in [Magic -> Ext \cup {None}]
  BY <1>1 DEF Inv, Shape
<1> QED BY <1>1, <1>2, QuietInv

LEMMA LinkGetInv ==
    ASSUME Inv, NEW p \in Handler, NEW s \in SignedIn, NEW e \in Ext, LinkGet(p, s, e)
    PROVE  Inv'
<1>1. s \in Person
  BY DEF SignedIn, Inv, Shape, Person
<1>2. /\ Arrive(p) /\ links[e] = None /\ Goto(p, "linkSave", e, s, 0)
      /\ UNCHANGED <<identities, documents, links, magic, logins, adopted>>
  BY DEF LinkGet, tables
<1>3. pc'[p] = "linkSave" /\ ext'[p] = e /\ did'[p] = s
  BY <1>1, <1>2, GotoValues DEF Steps
<1>4. Carries(p)' /\ Fresh(p)'
  BY <1>1, <1>2, <1>3 DEF Carries, Fresh
<1>5. identities' \subseteq DID /\ magic' \in [Magic -> Ext \cup {None}]
  BY <1>2 DEF Inv, Shape
<1> QED BY <1>1, <1>2, <1>4, <1>5, ArriveRuns, MoveInv DEF Steps

LEMMA MagicLinkGetInv ==
    ASSUME Inv, NEW p \in Handler, NEW s \in SignedIn, MagicLinkGet(p, s)
    PROVE  Inv'
<1>1. s \in Person
  BY DEF SignedIn, Inv, Shape, Person
<1>2. /\ pc[p] = "find" /\ ext[p] \in Ext
      /\ UNCHANGED <<identities, documents, links, magic, logins, adopted, overlap>>
  BY DEF MagicLinkGet, tables, Inv, Carries
<1>3. Runs(p) /\ identities' \subseteq DID /\ magic' \in [Magic -> Ext \cup {None}]
  BY <1>2, ContinueRuns DEF Inv, Shape
<1>4. CASE links[ext[p]] = None /\ Goto(p, "linkSave", ext[p], s, 0)
  <2>1. pc'[p] = "linkSave" /\ ext'[p] = ext[p] /\ did'[p] = s
    BY <1>1, <1>2, <1>4, GotoValues DEF Steps
  <2>2. Carries(p)' /\ Fresh(p)'
    BY <1>1, <1>2, <1>4, <2>1 DEF Carries, Fresh
  <2> QED BY <1>1, <1>2, <1>3, <1>4, <2>2, MoveInv DEF Steps
<1>5. CASE Goto(p, "idle", None, None, 0)
  BY <1>2, <1>3, <1>5, QuietInv, ZenonT(30)
<1> QED BY <1>4, <1>5 DEF MagicLinkGet, Respond

LEMMA LinkSaveInv ==
    ASSUME Distinct, Inv, NEW p \in Handler, LinkSave(p)
    PROVE  Inv'
<1>1. /\ pc[p] = "linkSave" /\ Goto(p, "idle", None, None, 0)
      /\ UNCHANGED <<identities, documents, magic, logins, overlap>>
  BY DEF LinkSave, Respond
<1>2. /\ adopted \subseteq adopted' /\ adopted' \subseteq adopted \cup {did[p]}
      /\ \/ links' = links
         \/ links' = [links EXCEPT ![ext[p]] = did[p]] /\ did[p] \in Stored \cup adopted'
  BY DEF LinkSave, Stored
<1>3. Written(p)
  BY <1>1, <1>2, OwnLink DEF Written
<1> QED BY <1>1, <1>3, FinishInv

LEMMA UnlinkListInv ==
    ASSUME Inv, NEW p \in Handler, NEW s \in SignedIn, NEW e \in Ext, UnlinkList(p, s, e)
    PROVE  Inv'
<1>1. s \in Person
  BY DEF SignedIn, Inv, Shape, Person
<1>2. /\ Arrive(p) /\ Goto(p, "unlinkDelete", e, s, 0)
      /\ UNCHANGED <<identities, documents, links, magic, logins, adopted>>
  BY Zenon DEF UnlinkList, tables
<1>3. pc'[p] = "unlinkDelete" /\ ext'[p] = e
  BY <1>1, <1>2, GotoValues, ZenonT(30) DEF Steps
<1>4. Carries(p)' /\ Fresh(p)'
  BY <1>3 DEF Carries, Fresh
<1>5. identities' \subseteq DID /\ magic' \in [Magic -> Ext \cup {None}]
  BY <1>2, Zenon DEF Inv, Shape
<1> QED BY <1>1, <1>2, <1>4, <1>5, ArriveRuns, MoveInv DEF Steps

LEMMA UnlinkDeleteInv ==
    ASSUME Inv, NEW p \in Handler, UnlinkDelete(p)
    PROVE  Inv'
<1>1. /\ pc[p] = "unlinkDelete" /\ ext[p] \in Ext /\ Goto(p, "idle", None, None, 0)
      /\ UNCHANGED <<identities, documents, magic, adopted, overlap>>
  BY DEF UnlinkDelete, Respond, Inv, Carries
<1>2. CASE UNCHANGED <<links, logins>>
  <2>1. magic' \in [Magic -> Ext \cup {None}]
    BY <1>1 DEF Inv, Shape
  <2> QED BY <1>1, <1>2, <2>1, QuietInv
<1>3. CASE links' = [links EXCEPT ![ext[p]] = None] /\ logins' = {l \in logins : l.ext # ext[p]}
  <2>1. /\ links' \in [Ext -> Person \cup {None}] /\ links'[ext[p]] = None
        /\ \A x \in Ext : x # ext[p] => links'[x] = links[x]
    BY <1>1, <1>3 DEF Inv, Shape
  <2>2. Shape'
    BY <1>1, <2>1, GotoValues, Zenon DEF Inv, Shape, Steps
  <2>3. ASSUME NEW q \in Handler PROVE Carries(q)'
    <3>1. CASE q = p
      <4>1. pc'[p] = "idle"
        BY <1>1, GotoValues, ZenonT(30) DEF Steps
      <4> QED BY <3>1, <4>1 DEF Carries
    <3>2. CASE q # p
      <4>1. Carries(q) /\ pc'[q] = pc[q] /\ ext'[q] = ext[q] /\ did'[q] = did[q]
        <5>1. "idle" \in Steps /\ None \in Ext \cup {None} /\ None \in Person \cup {None}
          BY DEF Steps
        <5> QED BY <1>1, <3>2, <5>1, GotoValues, ZenonT(30) DEF Inv
      <4>2. /\ identities \subseteq identities' /\ documents \subseteq documents'
            /\ adopted \subseteq adopted'
        BY <1>1
      <4> QED BY <4>1, <4>2, StillCarries
    <3> QED BY <3>1, <3>2
  <2>4. LinkedDIDResolves' /\ LoginsTyped'
    <3>1. UNCHANGED <<identities, documents, adopted>> /\ logins' \subseteq logins
      BY <1>1, <1>3
    <3>2. LinkedDIDResolves'
      BY <1>1, <2>1, <3>1 DEF Inv, LinkedDIDResolves
    <3> QED BY <3>1, <3>2 DEF Inv, LoginsTyped
  <2>5. ASSUME ~overlap' PROVE Alone' /\ LoginsLinked'
    <3>1. ~overlap /\ \A q \in Handler : pc'[q] = "idle"
      <4>1. Runs(p) /\ ~overlap
        BY <1>1, <2>5, ContinueRuns, Zenon
      <4> QED BY <1>1, <2>5, <4>1 DEF Runs, Goto, Inv, Shape
    <3>2. Alone'
      BY <3>1, Zenon DEF Alone, Fresh
    <3>3. LoginsLinked'
      BY <1>1, <1>3, <2>1, <3>1 DEF Inv, LoginsLinked, LoginsTyped
    <3> QED BY <3>2, <3>3
  <2> QED BY <2>2, <2>3, <2>4, <2>5 DEF Inv
<1> QED BY <1>2, <1>3 DEF UnlinkDelete

LEMMA CrashInv == ASSUME Inv, Crash PROVE Inv'
<1>1. /\ UNCHANGED <<identities, documents, links, magic, logins, adopted, overlap>>
      /\ \A p \in Handler : pc'[p] = "idle"
  BY DEF Crash, tables
<1>2. Shape'
  BY DEF Crash, tables, Inv, Shape, Steps
<1>3. (\A p \in Handler : Carries(p)') /\ Alone'
  BY <1>1 DEF Carries, Alone, Fresh
<1>4. LinkedDIDResolves' /\ LoginsTyped' /\ (~overlap' => LoginsLinked')
  BY <1>1, ZenonT(30) DEF Inv, LinkedDIDResolves, LoginsTyped, LoginsLinked
<1> QED BY <1>2, <1>3, <1>4 DEF Inv

\* Only the table of magic links, or nothing of interest, changes.
LEMMA MailInv ==
    ASSUME Inv, magic' \in [Magic -> Ext \cup {None}],
           UNCHANGED <<identities, documents, links, pc, ext, did, logins, adopted, overlap>>
    PROVE  Inv'
BY DEF Inv, Shape, Carries, LinkedDIDResolves, LoginsTyped, LoginsLinked, Alone, Fresh, Linkable, Stored

LEMMA NextInv == ASSUME Distinct, Inv, [Next]_vars PROVE Inv'
<1>1. ASSUME NEW p \in Handler, Request(p) PROVE Inv'
  BY <1>1, LoginInv, MagicGetInv, LinkGetInv, UnlinkListInv DEF Request
<1>2. ASSUME NEW p \in Handler, Continue(p) PROVE Inv'
  BY <1>2, FindAgainInv, FindTouchInv, CreateIdentityInv, CreateDocumentInv, CreateLinkInv,
     MagicDeleteInv, MagicLinkGetInv, LinkSaveInv, UnlinkDeleteInv DEF Continue
<1>3. ASSUME NEW m \in Magic, NEW e \in Mail, MagicRequest(m, e) PROVE Inv'
  <2>1. magic' \in [Magic -> Ext \cup {None}]
    BY <1>3 DEF MagicRequest, Inv, Shape, Distinct
  <2> QED BY <1>3, <2>1, MailInv DEF MagicRequest, local
<1>4. ASSUME NEW m \in Magic, Expire(m) PROVE Inv'
  BY <1>4, MailInv, ZenonT(30) DEF Expire, tables, local, Inv, Shape
<1>5. CASE UNCHANGED vars
  BY <1>5, MailInv DEF vars, tables, local, Inv, Shape
<1> QED BY <1>1, <1>2, <1>3, <1>4, <1>5, CrashInv DEF Next

-----------------------------------------------------------------------------

\* What the bridge's goroutines carry between store calls, what the links
\* lead to and, while requests do not overlap, whose they are (mapper.go).
THEOREM BridgeInvariant == Distinct => (Spec => []Inv)
<1> SUFFICES ASSUME Distinct PROVE Spec => []Inv
  OBVIOUS
<1>1. Init => Inv
  BY InitInv
<1>2. Inv /\ [Next]_vars => Inv'
  BY NextInv
<1> QED BY <1>1, <1>2, PTL DEF Spec

\* An external identity is linked to a DID whose identity and document are
\* stored, or to one that a token's holder linked while they were not,
\* whatever overlaps, fails or crashes: createIdentity writes the link after
\* both, and LinkIdentity does not look for them (mapper.go).
THEOREM LinkedDIDResolvesAlways == Distinct => (Spec => []LinkedDIDResolves)
<1>1. Inv => LinkedDIDResolves
  BY DEF Inv
<1> QED BY <1>1, BridgeInvariant, PTL

\* While requests do not overlap, an external identity gets the same DID at
\* every login until it is unlinked, for any number of providers, failed
\* writes and crashes (FindOrCreate, mapper.go).
THEOREM StableIdentifierAlways == Distinct => (Spec => []StableIdentifier)
<1>1. Inv => StableIdentifier
  BY DEF Inv, LoginsLinked, StableIdentifier
<1> QED BY <1>1, BridgeInvariant, PTL

\* The writers of a link leave it its owner, and unlinking removes it.
LEMMA OwnerKept ==
    ASSUME Inv, [Next]_vars, ~overlap', NEW e \in Ext, links[e] # None
    PROVE  links'[e] \in {links[e], None}
<1>1. ASSUME NEW p \in Handler, FindTouch(p) \/ CreateLink(p) \/ LinkSave(p)
      PROVE  links'[e] \in {links[e], None}
  <2>1. /\ pc[p] \in {"touch", "saveLink", "linkSave"} /\ UNCHANGED overlap
        /\ links' = links \/ links' = [links EXCEPT ![ext[p]] = did[p]]
    BY <1>1, Zenon DEF FindTouch, CreateLink, LinkSave
  <2>2. links[ext[p]] \in {None, did[p]}
    BY <2>1, OwnLink
  <2> QED BY <2>1, <2>2 DEF Inv, Shape
<1>2. ASSUME NEW p \in Handler, UnlinkDelete(p)
      PROVE  links'[e] \in {links[e], None}
  BY <1>2, ZenonT(30) DEF UnlinkDelete, Inv, Shape
<1>3. ASSUME NEW p \in Handler, Request(p)
      PROVE  UNCHANGED links
  BY <1>3 DEF Request, Login, MagicGet, LinkGet, UnlinkList, tables
<1>4. ASSUME NEW p \in Handler,
             \/ FindAgain(p) \/ CreateIdentity(p) \/ CreateDocument(p) \/ MagicDelete(p)
             \/ \E s \in SignedIn : MagicLinkGet(p, s)
      PROVE  UNCHANGED links
  BY <1>4, Zenon DEF FindAgain, CreateIdentity, CreateDocument, MagicDelete, MagicLinkGet, tables
<1>5. ASSUME NEW m \in Magic, NEW a \in Mail, MagicRequest(m, a)
      PROVE  UNCHANGED links
  BY <1>5 DEF MagicRequest
<1>6. CASE Crash \/ UNCHANGED vars \/ \E m \in Magic : Expire(m)
  BY <1>6 DEF Crash, Expire, vars, tables
<1> QED BY <1>1, <1>2, <1>3, <1>4, <1>5, <1>6 DEF Next, Continue

\* While requests do not overlap, no operation moves a link from one DID to
\* another: SaveExternalLink is an upsert, but who calls it has seen that
\* the link is free or its own (mapper.go).
THEOREM LinkKeepsOwnerAlways == Distinct => (Spec => LinkKeepsOwner)
<1> DEFINE Step == ~overlap' => \A e \in Ext : links[e] # None => links'[e] \in {links[e], None}
<1>1. Inv /\ [Next]_vars => [Step]_vars
  BY OwnerKept
<1>2. Distinct => (Spec => [][Step]_vars)
  BY <1>1, BridgeInvariant, PTL DEF Spec
<1> QED BY <1>2 DEF LinkKeepsOwner

=============================================================================
