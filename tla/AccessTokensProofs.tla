------------------------- MODULE AccessTokensProofs -------------------------
(***************************************************************************)
(* A revoked access token is reported inactive until the instant it        *)
(* expires, for any number of goroutines, any length of a second and any   *)
(* lifetime of tokens, with stale denylist entries dropped concurrently.   *)
(*                                                                         *)
(* The property is about the last answer; what makes it inductive is that  *)
(* a revoked token has its denylist entry until the clock has passed the   *)
(* expiry (EntryKept), and that a goroutine which got past the denylist    *)
(* with a revoked token did so after the expiry (PastDenylist).            *)
(***************************************************************************)
EXTENDS AccessTokens, TLAPS

\* The types the argument needs.
Types ==
    /\ now \in Nat
    /\ claims \in [Token -> Claims \cup {None}]
    /\ deny \in [Token -> Nat \cup {None}]
    /\ pc \in [Handler -> {"idle", "lookup", "drop", "expiry"}]
    /\ tok \in [Handler -> Token \cup {None}]
    /\ revoked \subseteq Token
    /\ began \in [Handler -> BOOLEAN]
    /\ DOMAIN answer = Handler
    /\ \A p \in Handler : pc[p] # "idle" => tok[p] \in Token

\* The clock has passed the expiry of token t.
Gone(t) == now > Instant(claims[t].exp)

\* A revoked token was issued, and its entry is there until it expires.
EntryKept ==
    \A t \in revoked :
        /\ claims[t] # None
        /\ deny[t] = Instant(claims[t].exp) \/ Gone(t)

\* An entry is the expiry of its token.
EntryIsExpiry ==
    \A t \in Token : deny[t] # None =>
        claims[t] # None /\ deny[t] = Instant(claims[t].exp)

\* Beyond the denylist, a token revoked at the start is past its expiry, and
\* so is one whose entry is about to be dropped.
PastDenylist ==
    \A p \in Handler :
        /\ pc[p] # "idle" => claims[tok[p]] # None
        /\ pc[p] # "idle" /\ began[p] => tok[p] \in revoked
        /\ pc[p] = "expiry" /\ began[p] => Gone(tok[p])
        /\ pc[p] = "drop" => Gone(tok[p])

\* What has been answered about a revoked token.
AnswersSound ==
    \A p \in Handler : answer[p] # None =>
        /\ answer[p].token \in Token
        /\ answer[p].at \in Nat
        /\ claims[answer[p].token] # None
        /\ answer[p].revoked /\ answer[p].active =>
              answer[p].at > Instant(claims[answer[p].token].exp)

IInv == Types /\ EntryKept /\ EntryIsExpiry /\ PastDenylist /\ AnswersSound

-----------------------------------------------------------------------------

\* Expiry instants are clock times.
LEMMA InstantNat == \A c \in Claims : Instant(c.exp) \in Nat
BY ClockAssumption DEF Instant, Claims

\* Signing gives a fresh token well-formed claims and leaves all others.
LEMMA SignFacts ==
    ASSUME Types, NEW t \in Token, NEW s \in Subject, NEW sc \in SUBSET Scope,
           NEW a \in ACR, NEW from, Sign(t, s, sc, a, from)
    PROVE  /\ claims' \in [Token -> Claims \cup {None}]
           /\ claims[t] = None
           /\ \A u \in Token : u # t => claims'[u] = claims[u]
           /\ claims'[t] \in Claims /\ claims'[t] # None
           /\ UNCHANGED <<now, deny, pc, tok, answer, revoked, began>>
<1>1. Unix(now + TTL) \in Nat
  BY ClockAssumption DEF Types, Unix
<1> QED
  BY <1>1, NoneAssumption DEF Types, Sign, Claims

\* Issuing a token keeps the invariant: nothing is known of a fresh name.
LEMMA SignIInv ==
    ASSUME IInv, NEW t \in Token, NEW s \in Subject, NEW sc \in SUBSET Scope,
           NEW a \in ACR, NEW from, Sign(t, s, sc, a, from)
    PROVE  IInv'
<1>1. Types
  BY DEF IInv
<1>2. /\ claims' \in [Token -> Claims \cup {None}]
      /\ claims[t] = None
      /\ \A u \in Token : u # t => claims'[u] = claims[u]
      /\ UNCHANGED <<now, deny, pc, tok, answer, revoked, began>>
  BY <1>1, SignFacts, Zenon
<1>3. \A u \in Token : claims[u] # None => claims'[u] = claims[u]
  BY <1>2
<1>4. Types'
  BY <1>1, <1>2 DEF Types
<1>5. EntryKept'
  BY <1>1, <1>2, <1>3 DEF IInv, Types, EntryKept, Gone
<1>6. EntryIsExpiry'
  BY <1>2, <1>3 DEF IInv, EntryIsExpiry
<1>7. PastDenylist'
  BY <1>1, <1>2, <1>3 DEF IInv, Types, PastDenylist, Gone
<1>8. AnswersSound'
  BY <1>2, <1>3 DEF IInv, AnswersSound
<1> QED
  BY <1>4, <1>5, <1>6, <1>7, <1>8 DEF IInv

-----------------------------------------------------------------------------

\* Nothing is issued, revoked or asked at the start.
LEMMA InitIInv == Init => IInv
<1> SUFFICES ASSUME Init PROVE IInv
  OBVIOUS
<1>1. Types
  <2>1. began \in [Handler -> BOOLEAN]
    BY Zenon DEF Init
  <2> QED
    BY <2>1 DEF Init, Types
<1>2. EntryKept /\ EntryIsExpiry /\ AnswersSound
  BY DEF Init, EntryKept, EntryIsExpiry, AnswersSound
<1>3. PastDenylist
  BY DEF Init, PastDenylist
<1> QED
  BY <1>1, <1>2, <1>3 DEF IInv

\* Revocation writes the entry EntryKept asks for.
LEMMA RevokeIInv == ASSUME IInv, NEW t \in Token, Revoke(t) PROVE IInv'
<1> USE DEF IInv, Revoke
<1>1. Instant(claims[t].exp) \in Nat
  BY InstantNat DEF Types
<1>2. Types'
  BY <1>1 DEF Types
<1>3. EntryKept' /\ EntryIsExpiry'
  BY DEF Types, EntryKept, EntryIsExpiry, Gone
<1>4. PastDenylist'
  BY DEF Types, PastDenylist, Gone
<1>5. AnswersSound'
  BY DEF AnswersSound
<1> QED
  BY <1>2, <1>3, <1>4, <1>5

\* Time only makes expired tokens more expired.
LEMMA TickIInv == ASSUME IInv, Tick PROVE IInv'
<1> USE DEF IInv, Tick
<1>1. Types'
  BY DEF Types
<1>2. \A t \in Token : claims[t] # None /\ Gone(t) => Gone(t)'
  BY InstantNat DEF Types, Gone
<1>3. EntryKept' /\ EntryIsExpiry'
  BY <1>2 DEF Types, EntryKept, EntryIsExpiry
<1>4. PastDenylist'
  BY <1>2 DEF Types, PastDenylist
<1>5. AnswersSound'
  BY DEF AnswersSound
<1> QED
  BY <1>1, <1>3, <1>4, <1>5

\* A restart forgets what was revoked along with the denylist.
LEMMA RestartIInv == ASSUME IInv, Restart PROVE IInv'
<1> USE DEF IInv, Restart
<1>1. Types'
  <2>1. began' \in [Handler -> BOOLEAN]
    BY Zenon
  <2> QED
    BY <2>1 DEF Types
<1>2. EntryKept' /\ EntryIsExpiry' /\ PastDenylist' /\ AnswersSound'
  BY DEF Types, EntryKept, EntryIsExpiry, PastDenylist, AnswersSound
<1> QED
  BY <1>1, <1>2

\* Introspection begins by noting whether the token is revoked.
LEMMA VerifyIInv ==
    ASSUME IInv, NEW p \in Handler, NEW t \in Token, IntrospectVerify(p, t)
    PROVE  IInv'
<1> USE DEF IInv, IntrospectVerify, Goto
<1>1. began' \in [Handler -> BOOLEAN]
  <2>1. (t \in revoked) \in BOOLEAN
    BY SMT
  <2>2. began \in [Handler -> BOOLEAN]
    BY DEF Types
  <2> QED
    BY <2>1, <2>2, Zenon
<1>2. Types'
  BY <1>1 DEF Types
<1>3. EntryKept' /\ EntryIsExpiry'
  BY DEF EntryKept, EntryIsExpiry, Gone
<1>4. PastDenylist'
  <2> SUFFICES ASSUME NEW q \in Handler PROVE PastDenylist!(q)'
    BY DEF PastDenylist
  <2>1. CASE q = p
    <3>1. pc'[q] = "lookup" /\ tok'[q] = t
      BY <2>1 DEF Types
    <3>2. began'[q] = (t \in revoked)
      BY <2>1 DEF Types
    <3> QED
      BY <3>1, <3>2, Zenon DEF Verify
  <2>2. CASE q # p
    BY <2>2 DEF Types, PastDenylist, Gone
  <2> QED
    BY <2>1, <2>2
<1>5. AnswersSound'
  BY DEF Types, AnswersSound
<1> QED
  BY <1>2, <1>3, <1>4, <1>5

\* A revoked token gets past the lookup only without an entry or with a
\* stale one, and EntryKept and EntryIsExpiry say what either means.
LEMMA LookupIInv ==
    ASSUME IInv, NEW p \in Handler, IntrospectLookup(p) PROVE IInv'
<1> USE DEF IInv, IntrospectLookup, Goto, Reply
<1>1. tok[p] \in Token /\ claims[tok[p]] # None
  BY DEF Types, PastDenylist
<1>2. Types'
  BY DEF Types
<1>3. EntryKept' /\ EntryIsExpiry'
  BY DEF EntryKept, EntryIsExpiry, Gone
<1>4. PastDenylist'
  <2>1. CASE deny[tok[p]] = None
    <3>1. Instant(claims[tok[p]].exp) # None
      BY <1>1, InstantNat, NoneAssumption DEF Types
    <3>2. began[p] => Gone(tok[p])
      BY <2>1, <3>1 DEF PastDenylist, EntryKept
    <3> QED
      BY <1>1, <2>1, <3>2 DEF Types, PastDenylist, Gone
  <2>2. CASE deny[tok[p]] # None
    BY <1>1, <2>2 DEF Types, PastDenylist, EntryIsExpiry, Gone
  <2> QED
    BY <2>1, <2>2
<1>5. AnswersSound'
  BY <1>1 DEF Types, AnswersSound
<1> QED
  BY <1>2, <1>3, <1>4, <1>5

\* An entry is dropped after the expiry of its token.
LEMMA DropIInv ==
    ASSUME IInv, NEW p \in Handler, IntrospectDrop(p) PROVE IInv'
<1> USE DEF IInv, IntrospectDrop, Goto
<1>1. tok[p] \in Token /\ Gone(tok[p])
  BY DEF Types, PastDenylist
<1>2. Types'
  BY <1>1 DEF Types
<1>3. EntryKept' /\ EntryIsExpiry'
  BY <1>1 DEF Types, EntryKept, EntryIsExpiry, Gone
<1>4. PastDenylist'
  BY <1>1 DEF Types, PastDenylist, Gone
<1>5. AnswersSound'
  BY DEF AnswersSound
<1> QED
  BY <1>2, <1>3, <1>4, <1>5

\* What is answered last is answered after the expiry, if of a revoked token.
LEMMA ExpiryIInv ==
    ASSUME IInv, NEW p \in Handler, IntrospectExpiry(p) PROVE IInv'
<1> USE DEF IInv, IntrospectExpiry, Goto, Reply
<1>1. tok[p] \in Token /\ claims[tok[p]] # None /\ (began[p] => Gone(tok[p]))
  BY DEF Types, PastDenylist
<1>2. Types'
  BY DEF Types
<1>3. EntryKept' /\ EntryIsExpiry'
  BY DEF EntryKept, EntryIsExpiry, Gone
<1>4. PastDenylist'
  BY DEF Types, PastDenylist, Gone
<1>5. AnswersSound'
  BY <1>1 DEF Types, AnswersSound, Gone
<1> QED
  BY <1>2, <1>3, <1>4, <1>5

-----------------------------------------------------------------------------

\* The inductive invariant is preserved by every step.
LEMMA NextIInv == IInv /\ [Next]_vars => IInv'
<1> SUFFICES ASSUME IInv, [Next]_vars PROVE IInv'
  OBVIOUS
<1>1. ASSUME NEW t \in Token, NEW s \in Subject, Issue(t, s) PROVE IInv'
  BY <1>1, SignIInv DEF Issue, ACR
<1>2. ASSUME NEW t \in Token, NEW from \in Token, NEW scope \in SUBSET Scope,
             TokenExchange(t, from, scope)
      PROVE  IInv'
  <2>1. claims[from] \in Claims
    BY <1>2 DEF TokenExchange, Verify, IInv, Types
  <2> DEFINE granted == IF scope = {} THEN claims[from].scope ELSE scope
  <2>2. claims[from].sub \in Subject /\ granted \in SUBSET Scope
    BY <2>1 DEF Claims
  <2>3. Sign(t, claims[from].sub, granted, 0, from)
    BY <1>2 DEF TokenExchange
  <2> HIDE DEF granted
  <2> QED
    BY <2>2, <2>3, SignIInv DEF ACR
<1>3. ASSUME NEW t \in Token, NEW from \in Token, NEW need \in ACR,
             StepUp(t, from, need)
      PROVE  IInv'
  <2>1. claims[from] \in Claims
    BY <1>3 DEF StepUp, Verify, IInv, Types
  <2>2. claims[from].sub \in Subject /\ claims[from].scope \in SUBSET Scope
        /\ claims[from].acr \in ACR
    BY <2>1 DEF Claims
  <2> QED
    BY <1>3, <2>2, SignIInv DEF StepUp
<1>4. CASE UNCHANGED vars
  BY <1>4 DEF vars, IInv, Types, EntryKept, EntryIsExpiry, PastDenylist,
              AnswersSound, Gone
<1> QED
  BY <1>1, <1>2, <1>3, <1>4, RevokeIInv, VerifyIInv, LookupIInv, DropIInv,
     ExpiryIInv, TickIInv, RestartIInv DEF Next

\* Whatever the number of goroutines and tokens and the resolution of the
\* clock, introspection never reports a revoked token active at or before the
\* instant it expires, although IsAccessTokenRevoked drops entries on its own.
THEOREM RevocationHolds == Spec => []RevokedInactiveUntilExpiry
<1>1. IInv => RevokedInactiveUntilExpiry
  <2> SUFFICES ASSUME IInv, NEW p \in Handler,
                      answer[p] # None, answer[p].revoked, answer[p].active,
                      answer[p].at <= Instant(claims[answer[p].token].exp)
               PROVE  FALSE
    BY DEF RevokedInactiveUntilExpiry
  <2>1. /\ answer[p].token \in Token /\ answer[p].at \in Nat
        /\ claims[answer[p].token] # None
        /\ answer[p].at > Instant(claims[answer[p].token].exp)
    BY DEF IInv, AnswersSound
  <2>2. Instant(claims[answer[p].token].exp) \in Nat
    BY <2>1, InstantNat DEF IInv, Types
  <2> QED
    BY <2>1, <2>2
<1> QED
  BY <1>1, InitIInv, NextIInv, PTL DEF Spec

-----------------------------------------------------------------------------

\* A token obtained with another one is narrower, and both were issued.
Narrows ==
    /\ DOMAIN parent = Token
    /\ \A t \in Token : parent[t] # None =>
          /\ parent[t] \in Token
          /\ claims[t] # None /\ claims[parent[t]] # None
          /\ claims[t].sub = claims[parent[t]].sub
          /\ claims[t].scope \subseteq claims[parent[t]].scope
          /\ claims[t].acr <= claims[parent[t]].acr

\* Signing a token no broader than the one it is obtained with keeps Narrows.
LEMMA SignNarrows ==
    ASSUME IInv, Narrows, NEW t \in Token, NEW s \in Subject,
           NEW sc \in SUBSET Scope, NEW a \in ACR,
           NEW from \in Token \cup {None}, Sign(t, s, sc, a, from),
           from # None => /\ claims[from] # None
                          /\ s = claims[from].sub
                          /\ sc \subseteq claims[from].scope
                          /\ a <= claims[from].acr
    PROVE  Narrows'
<1>1. Types
  BY DEF IInv
<1>2. /\ claims[t] = None
      /\ \A u \in Token : u # t => claims'[u] = claims[u]
      /\ claims'[t] # None
  BY <1>1, SignFacts
<1>3. claims'[t].sub = s /\ claims'[t].scope = sc /\ claims'[t].acr = a
  BY <1>1 DEF Types, Sign
<1>4. parent' = [parent EXCEPT ![t] = from]
  BY DEF Sign
<1>5. ASSUME NEW u \in Token, parent'[u] # None PROVE Narrows!2!(u)!2'
  <2>1. CASE u = t
    <3>1. parent'[u] = from
      BY <1>4, <2>1 DEF Narrows
    <3> QED
      BY <1>2, <1>3, <1>5, <2>1, <3>1
  <2>2. CASE u # t
    <3>1. parent'[u] = parent[u]
      BY <1>4, <2>2 DEF Narrows
    <3> QED
      BY <1>2, <1>5, <2>2, <3>1 DEF Narrows
  <2> QED
    BY <2>1, <2>2
<1> QED
  BY <1>4, <1>5 DEF Narrows

\* Whatever chain of exchanges and step-ups a token comes from, each link
\* keeps the subject and adds neither scope nor ACR.
THEOREM Delegation == Spec => []DelegationNarrows
<1>1. Init => Narrows
  BY DEF Init, Narrows
<1>2. IInv /\ Narrows /\ [Next]_vars => Narrows'
  <2> SUFFICES ASSUME IInv, Narrows, [Next]_vars PROVE Narrows'
    OBVIOUS
  <2>1. ASSUME NEW t \in Token, NEW s \in Subject, Issue(t, s) PROVE Narrows'
    BY <2>1, SignNarrows DEF Issue, ACR
  <2>2. ASSUME NEW t \in Token, NEW from \in Token, NEW scope \in SUBSET Scope,
               TokenExchange(t, from, scope)
        PROVE  Narrows'
    <3>1. claims[from] \in Claims /\ claims[from] # None
      BY <2>2, NoneAssumption DEF TokenExchange, Verify, IInv, Types
    <3> DEFINE granted == IF scope = {} THEN claims[from].scope ELSE scope
    <3>2. /\ claims[from].sub \in Subject /\ granted \in SUBSET Scope
          /\ granted \subseteq claims[from].scope /\ 0 <= claims[from].acr
      BY <2>2, <3>1 DEF TokenExchange, Claims, ACR
    <3>3. Sign(t, claims[from].sub, granted, 0, from)
      BY <2>2 DEF TokenExchange
    <3>4. 0 \in ACR
      BY DEF ACR
    <3> HIDE DEF granted
    <3> QED
      BY <3>1, <3>2, <3>3, <3>4, SignNarrows
  <2>3. ASSUME NEW t \in Token, NEW from \in Token, NEW need \in ACR,
               StepUp(t, from, need)
        PROVE  Narrows'
    <3>1. claims[from] \in Claims /\ claims[from] # None
      BY <2>3, NoneAssumption DEF StepUp, Verify, IInv, Types
    <3>2. /\ claims[from].sub \in Subject /\ claims[from].scope \in SUBSET Scope
          /\ claims[from].acr \in ACR /\ claims[from].acr <= claims[from].acr
      BY <3>1 DEF Claims, ACR
    <3> QED
      BY <2>3, <3>1, <3>2, SignNarrows DEF StepUp
  <2>4. CASE UNCHANGED <<claims, parent>>
    BY <2>4 DEF Narrows
  <2> QED
    BY <2>1, <2>2, <2>3, <2>4, Zenon
    DEF Next, vars, Revoke, Tick, Restart, IntrospectVerify, IntrospectLookup,
        IntrospectDrop, IntrospectExpiry
<1>3. Narrows => DelegationNarrows
  BY DEF Narrows, DelegationNarrows
<1> QED
  BY <1>1, <1>2, <1>3, InitIInv, NextIInv, PTL DEF Spec

=============================================================================
