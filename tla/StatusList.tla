----------------------------- MODULE StatusList -----------------------------
(***************************************************************************)
(* The BitstringStatusList: revocation bits packed into bytes, published   *)
(* as a credential in the store, and looked up by verifiers in a list they *)
(* fetched earlier.  The list's owner is a caller of pkg/vc.  Integer      *)
(* division and remainder are Go's: they round towards zero, and an index  *)
(* is converted to unsigned before the remainder.                          *)
(***************************************************************************)
EXTENDS Integers, FiniteSets

CONSTANTS Index,       \* indices that Revoke and Unrevoke are called with
          size,        \* the size asked for
          MinSize,     \* StatusListMinSize
          ReadLimit,   \* the bytes ParseEncodedList reads at most
          None

VARIABLES bits,        \* StatusList.bits
          isRevoked,   \* indices that are revoked now
          stored,      \* the list's credential in the store, or None
          storedOf,    \* the indices that were revoked when it was issued
          fetched,     \* a verifier's decoded list, or None
          fetchedOf    \* storedOf when it was fetched

vars == <<bits, isRevoked, stored, storedOf, fetched, fetchedOf>>

(* NewStatusList: at least MinSize entries, in whole bytes. *)
byteLen == ((IF size < MinSize THEN MinSize ELSE size) + 7) \div 8
listSize == byteLen * 8

Init ==
  /\ bits = [b \in 0 .. byteLen - 1 |-> 0]
  /\ isRevoked = {}
  /\ stored = None /\ storedOf = {}
  /\ fetched = None
  /\ fetchedOf = {}

checkIndex(i) == i >= 0 /\ i < listSize

(* Go's i / 8. *)
goDiv8(i) == IF i >= 0 THEN i \div 8 ELSE -((-i) \div 8)

(* uint(i) % 8: 2^64 is a multiple of 8. *)
bitOf(i) == i % 8

IsSet(byte, k) == (byte \div 2^k) % 2 = 1

\* Fault variant: the bit is added whether it is set or not.
SetBitTwice(byte, k) == byte + 2^k

(* byte |= 1 << k *)
SetBit(byte, k) == IF IsSet(byte, k) THEN byte ELSE byte + 2^k

(* byte &^= 1 << k *)
ClearBit(byte, k) == IF IsSet(byte, k) THEN byte - 2^k ELSE byte

(* StatusList.Revoke, under the list's mutex. *)
Revoke(i) ==
  /\ checkIndex(i)
  /\ bits' = [bits EXCEPT ![goDiv8(i)] = SetBit(@, bitOf(i))]
  /\ isRevoked' = isRevoked \cup {i}
  /\ UNCHANGED <<stored, storedOf, fetched, fetchedOf>>

(* StatusList.Unrevoke. *)
Unrevoke(i) ==
  /\ checkIndex(i)
  /\ bits' = [bits EXCEPT ![goDiv8(i)] = ClearBit(@, bitOf(i))]
  /\ isRevoked' = isRevoked \ {i}
  /\ UNCHANGED <<stored, storedOf, fetched, fetchedOf>>

(* EncodedList: gzip and base64url. *)
EncodedList(list) == [gzip |-> list]

(* ParseEncodedList: the bytes, up to the limit on what is decompressed. *)
ParseEncodedList(encoded) ==
  [b \in {d \in DOMAIN encoded.gzip : d < ReadLimit} |-> encoded.gzip[b]]

(* IssueStatusListVC, and the owner stores the credential: SaveCredential *)
(* is a plain INSERT, so that a list is replaced only after a deletion.   *)
IssueStatusListVC ==
  /\ stored = None
  /\ stored' = [id |-> "list", encodedList |-> EncodedList(bits)]
  /\ storedOf' = isRevoked
  /\ UNCHANGED <<bits, isRevoked, fetched, fetchedOf>>

(* handleDeleteCredential *)
DeleteCredential ==
  /\ stored' = None /\ storedOf' = {}
  /\ UNCHANGED <<bits, isRevoked, fetched, fetchedOf>>

(* handleStatusList, and the verifier decodes and keeps what it got. *)
handleStatusList ==
  /\ stored # None
  /\ fetched' = ParseEncodedList(stored.encodedList)
  /\ fetchedOf' = storedOf
  /\ UNCHANGED <<bits, isRevoked, stored, storedOf>>

(* CheckStatus against the decoded list. *)
CheckStatus(list, i) ==
  IF goDiv8(i) >= Cardinality(DOMAIN list) THEN "out of range"
  ELSE IF goDiv8(i) < 0 THEN "panic"
  ELSE IF IsSet(list[goDiv8(i)], bitOf(i)) THEN "revoked" ELSE "ok"

Next ==
  \/ \E i \in Index : Revoke(i) \/ Unrevoke(i)
  \/ IssueStatusListVC
  \/ DeleteCredential
  \/ handleStatusList

Spec == Init /\ [][Next]_vars

\* Every variable has its type.
TypeOK ==
  /\ bits \in [0 .. byteLen - 1 -> 0 .. 255]
  /\ isRevoked \subseteq Index
  /\ fetched # None => \A b \in DOMAIN fetched : fetched[b] \in 0 .. 255
  /\ storedOf \subseteq Index /\ fetchedOf \subseteq Index

(* After any revocations and corrections, repeated ones included, a      *)
(* verifier's CheckStatus (status.go:179) tells for every index that was *)
(* decompressed, those that share a byte included, whether it was        *)
(* revoked when the list was issued, and refuses every index past that:  *)
(* what the limit of status.go:170 cuts off is never taken for "ok".     *)
(* A negative index, which status.go:184 does not refuse, is left out.   *)
StatusExact ==
  LET read == IF byteLen < ReadLimit THEN listSize ELSE ReadLimit * 8
  IN fetched # None =>
       /\ \A i \in 0 .. read - 1 :
            CheckStatus(fetched, i) = IF i \in fetchedOf THEN "revoked" ELSE "ok"
       /\ \A i \in read .. listSize + 8 : CheckStatus(fetched, i) = "out of range"

=============================================================================
