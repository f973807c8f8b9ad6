----------------------------- MODULE Disclosures -----------------------------
(***************************************************************************)
(* What a subject can see of the accesses to their data: the consent       *)
(* receipts relying parties submit, read page by page while new ones come  *)
(* in, and the privacy budget computed from the recorded disclosures.  A   *)
(* reader asks for one page after the other, adding the limit it was       *)
(* served with to the offset, until the offset reaches X-Total-Count.      *)
(***************************************************************************)
EXTENDS Integers, Sequences, FiniteSets, SequencesExt, Folds

CONSTANTS Receipt,       \* receipts that may be submitted
          Schema,        \* schemas
          Verifier,      \* verifier DIDs
          Limit,         \* limits a client asks for; 0 is no limit parameter
          defaultLimit,  \* the two arguments of parsePagination
          maxLimit,
          MaxDisclosures,
          None

VARIABLES receipts,      \* consent_receipts, newest first
          reader,        \* the offset a reader has reached, None: not reading
          wanted,        \* receipts that were stored when it started
          seen,          \* receipts on the pages it was served
          disclosures    \* privacy_disclosures, in the order recorded

vars == <<receipts, reader, wanted, seen, disclosures>>

Init ==
  /\ receipts = <<>>
  /\ reader = None
  /\ wanted = {}
  /\ seen = {}
  /\ disclosures = <<>>

(* parsePagination: the limit a request is served with. *)
parsePagination(n) ==
  LET limit == IF n > 0 THEN n ELSE defaultLimit
  IN IF limit > maxLimit THEN maxLimit ELSE limit

\* Fault variant: the page begins one receipt too late.
PageLate(offset, limit) ==
  LET from == IF offset + 1 > Len(receipts) THEN Len(receipts) ELSE offset + 1
      rest == SubSeq(receipts, from + 1, Len(receipts))
  IN IF Len(rest) > limit THEN SubSeq(rest, 1, limit) ELSE rest

(* The slice that handleListReceipts cuts out of ListReceipts. *)
Page(offset, limit) ==
  LET from == IF offset > Len(receipts) THEN Len(receipts) ELSE offset
      rest == SubSeq(receipts, from + 1, Len(receipts))
  IN IF Len(rest) > limit THEN SubSeq(rest, 1, limit) ELSE rest

(* POST /consents/receipts: a signed receipt, accessed now.  The list is  *)
(* ordered by the time of access, which is taken before the receipt is    *)
(* saved: later ones may have been saved already.                         *)
SubmitReceipt(x, i) ==
  /\ x \notin ToSet(receipts)
  /\ receipts' = InsertAt(receipts, i, x)
  /\ UNCHANGED <<reader, wanted, seen, disclosures>>

StartReading ==
  /\ reader = None
  /\ reader' = 0
  /\ wanted' = ToSet(receipts)
  /\ seen' = {}
  /\ UNCHANGED <<receipts, disclosures>>

(* GET /consents/receipts?offset=&limit=: one page. *)
ListReceipts(n) ==
  /\ reader # None
  /\ reader < Len(receipts)
  /\ LET limit == parsePagination(n)
     IN /\ seen' = seen \cup ToSet(Page(reader, limit))
        /\ reader' = reader + limit
  /\ UNCHANGED <<receipts, wanted, disclosures>>

StopReading ==
  /\ reader # None
  /\ reader' = None
  /\ wanted' = {}
  /\ seen' = {}
  /\ UNCHANGED <<receipts, disclosures>>

(* POST /me/privacy-budget/record: RecordDisclosure. *)
RecordDisclosure(s, v) ==
  /\ Len(disclosures) < MaxDisclosures
  /\ disclosures' = Append(disclosures, [schema |-> s, verifier |-> v])
  /\ UNCHANGED <<receipts, reader, wanted, seen>>

(* The schemaStats of a schema nobody received yet. *)
NoStats == [shares |-> 0, counts |-> [v \in Verifier |-> 0], verifiers |-> {}]

\* Fault variant: a verifier that is known already is not counted again.
AddStatsOnce(d, stats) ==
  IF d.verifier \in stats[d.schema].verifiers THEN stats
  ELSE [stats EXCEPT ![d.schema].shares = @ + 1,
                     ![d.schema].counts[d.verifier] = @ + 1,
                     ![d.schema].verifiers = @ \cup {d.verifier}]

(* One turn of the loop of handleGetPrivacyBudget. *)
AddStats(d, stats) ==
  [stats EXCEPT ![d.schema].shares = @ + 1,
                ![d.schema].counts[d.verifier] = @ + 1,
                ![d.schema].verifiers = @ \cup {d.verifier}]

(* ListDisclosures returns the newest first. *)
PrivacyBudget ==
  FoldLeft(LAMBDA stats, d : AddStats(d, stats),
           [s \in Schema |-> NoStats], Reverse(disclosures))

Next ==
  \/ \E x \in Receipt, i \in 1 .. Len(receipts) + 1 : SubmitReceipt(x, i)
  \/ StartReading
  \/ \E n \in Limit : ListReceipts(n)
  \/ StopReading
  \/ \E s \in Schema, v \in Verifier : RecordDisclosure(s, v)

Spec == Init /\ [][Next]_vars

\* Every variable has its type.
TypeOK ==
  /\ ToSet(receipts) \subseteq Receipt
  /\ IsInjective(receipts)
  /\ reader = None \/ reader \in Nat
  /\ wanted \subseteq Receipt
  /\ seen \subseteq Receipt
  /\ ToSet(disclosures) \subseteq [schema : Schema, verifier : Verifier]

(* A reader who pages through the receipts (consents.go:125-133) sees    *)
(* every receipt that was there when they started, whatever limits they  *)
(* ask for and however many receipts are submitted between two pages, in *)
(* whatever order they are saved: a new one moves old ones to later      *)
(* pages, never to a page already served.                                *)
PagesMissNothing ==
  reader # None /\ reader >= Len(receipts) => wanted \subseteq seen

(* The privacy budget (privacy.go:39-62) counts every disclosure of a    *)
(* schema once, under the verifier that received it, and its number of   *)
(* unique verifiers is the number of verifiers with a positive count.    *)
BudgetExact ==
  \A s \in Schema :
    LET of(v) == {i \in DOMAIN disclosures :
                    disclosures[i] = [schema |-> s, verifier |-> v]}
        st == PrivacyBudget[s]
    IN /\ \A v \in Verifier : st.counts[v] = Cardinality(of(v))
       /\ st.shares = Cardinality(UNION {of(v) : v \in Verifier})
       /\ st.verifiers = {v \in Verifier : st.counts[v] > 0}

==============================================================================
