--------------------------- MODULE AccessTokens ---------------------------
(***************************************************************************)
(* Access tokens: signed claims with an expiry in whole seconds, the       *)
(* in-memory denylist of revoked ones, introspection, and the two ways of  *)
(* turning one access token into another (token exchange and step-up).     *)
(*                                                                         *)
(* A token is not stored anywhere; what matters is what its claims say and *)
(* when.  The clock runs in ticks, a few to the second, because expiry is  *)
(* compared in seconds by Verify and in clock time by the denylist.        *)
(***************************************************************************)
EXTENDS Naturals, FiniteSets

CONSTANTS
    Handler,  \* goroutines serving introspection requests
    Token,    \* names of the access tokens issued
    Subject,  \* subject DIDs and client ids
    Scope,    \* single scopes
    None,
    Second,   \* clock ticks in a second
    TTL,      \* accessTokenTTL, in ticks
    MaxNow    \* bound on the clock

ASSUME ClockAssumption ==
    Second \in Nat \ {0} /\ TTL \in Nat /\ MaxNow \in Nat

\* acrSatisfies: an ACR is its level in the hierarchy "" < social < pwd < mfa;
\* a requirement is the highest level among the values asked for.
ACR == 0..3

Claims == [sub : Subject, scope : SUBSET Scope, acr : ACR, exp : Nat]

ASSUME NoneAssumption == None \notin Claims /\ None \notin Nat

VARIABLES
    now,      \* the clock
    claims,   \* what each issued token says
    deny,     \* revokedTokens: the expiry of each entry
    pc, tok,  \* each goroutine: next step, the token it was given
    answer,   \* each goroutine: its last answer
    parent,   \* history: the token each token was obtained with
    revoked,  \* history: tokens revoked since the process started
    began     \* history: was the token revoked when introspection began?

vars == <<now, claims, deny, pc, tok, answer, parent, revoked, began>>

Init ==
    /\ now = 0
    /\ claims = [t \in Token |-> None]
    /\ deny = [t \in Token |-> None]
    /\ pc = [p \in Handler |-> "idle"]
    /\ tok = [p \in Handler |-> None]
    /\ answer = [p \in Handler |-> None]
    /\ parent = [t \in Token |-> None]
    /\ revoked = {}
    /\ began = [p \in Handler |-> FALSE]

-----------------------------------------------------------------------------
(* Issuing and verifying *)

\* time.Now().Unix()
Unix(t) == t \div Second

\* The clock time of an expiry given in seconds.
Instant(exp) == exp * Second

\* Verify on a token this provider signed.
Verify(t) == claims[t] # None /\ Unix(now) <= claims[t].exp

\* Fault variant: the claims are signed before the subject is filled in.
SignNoSubject(t, sub, scope, acr, from) ==
    /\ claims[t] = None
    /\ claims' = [claims EXCEPT ![t] = [sub |-> None, scope |-> scope, acr |-> acr,
                                        exp |-> Unix(now + TTL)]]
    /\ parent' = [parent EXCEPT ![t] = from]
    /\ UNCHANGED <<now, deny, pc, tok, answer, revoked, began>>

\* IssueAccessToken and issueJWTWithExtra.
Sign(t, sub, scope, acr, from) ==
    /\ claims[t] = None
    /\ claims' = [claims EXCEPT ![t] = [sub |-> sub, scope |-> scope, acr |-> acr,
                                        exp |-> Unix(now + TTL)]]
    /\ parent' = [parent EXCEPT ![t] = from]
    /\ UNCHANGED <<now, deny, pc, tok, answer, revoked, began>>

\* The code, refresh, device and client-credentials grants: no scope and no
\* ACR is put into the token.
Issue(t, s) == Sign(t, s, {}, 0, None)

\* Fault variant: the requested scope is granted as it is.
TokenExchangeUnchecked(t, from, scope) ==
    /\ Verify(from)
    /\ Sign(t, claims[from].sub,
            IF scope = {} THEN claims[from].scope ELSE scope, 0, from)

\* handleTokenExchange: a requested scope must be a subset; none carries the
\* scope of the subject token over.  The ACR is not carried over.
TokenExchange(t, from, scope) ==
    /\ Verify(from)
    /\ scope \subseteq claims[from].scope
    /\ Sign(t, claims[from].sub,
            IF scope = {} THEN claims[from].scope ELSE scope, 0, from)

\* StepUpHandler when the token satisfies the requirement.
StepUp(t, from, need) ==
    /\ Verify(from)
    /\ claims[from].acr >= need
    /\ Sign(t, claims[from].sub, claims[from].scope, claims[from].acr, from)

-----------------------------------------------------------------------------
(* RevokeHandler on an access token *)

\* Fault variant: the expiry is taken for a clock time.
RevokeSeconds(t) ==
    /\ claims[t] # None
    /\ now < Instant(claims[t].exp)
    /\ deny' = [deny EXCEPT ![t] = claims[t].exp]
    /\ revoked' = revoked \cup {t}
    /\ UNCHANGED <<now, claims, pc, tok, answer, parent, began>>

Revoke(t) ==
    /\ claims[t] # None
    /\ now < Instant(claims[t].exp)
    /\ deny' = [deny EXCEPT ![t] = Instant(claims[t].exp)]
    /\ revoked' = revoked \cup {t}
    /\ UNCHANGED <<now, claims, pc, tok, answer, parent, began>>

-----------------------------------------------------------------------------
(* IntrospectHandler: Verify, IsAccessTokenRevoked (look up, then drop a   *)
(* stale entry under another lock), expiry once more                       *)

Goto(p, next) == pc' = [pc EXCEPT ![p] = next]

Reply(p, active) ==
    /\ answer' = [answer EXCEPT ![p] = [token |-> tok[p], active |-> active,
                                        revoked |-> began[p], at |-> now]]
    /\ Goto(p, "idle")

\* A token that fails Verify is answered as inactive at once: no step.
IntrospectVerify(p, t) ==
    /\ pc[p] = "idle"
    /\ Verify(t)
    /\ Goto(p, "lookup")
    /\ tok' = [tok EXCEPT ![p] = t]
    /\ began' = [began EXCEPT ![p] = t \in revoked]
    /\ answer' = [answer EXCEPT ![p] = None]
    /\ UNCHANGED <<now, claims, deny, parent, revoked>>

IntrospectLookup(p) ==
    /\ pc[p] = "lookup"
    /\ LET entry == deny[tok[p]]
       IN  \/ entry = None /\ Goto(p, "expiry") /\ UNCHANGED answer
           \/ entry # None /\ now > entry /\ Goto(p, "drop") /\ UNCHANGED answer
           \/ entry # None /\ now <= entry /\ Reply(p, FALSE)
    /\ UNCHANGED <<now, claims, deny, tok, parent, revoked, began>>

IntrospectDrop(p) ==
    /\ pc[p] = "drop"
    /\ deny' = [deny EXCEPT ![tok[p]] = None]
    /\ Goto(p, "expiry")
    /\ UNCHANGED <<now, claims, tok, answer, parent, revoked, began>>

IntrospectExpiry(p) ==
    /\ pc[p] = "expiry"
    /\ Reply(p, Unix(now) <= claims[tok[p]].exp)
    /\ UNCHANGED <<now, claims, deny, tok, parent, revoked, began>>

-----------------------------------------------------------------------------

Tick ==
    /\ now < MaxNow
    /\ now' = now + 1
    /\ UNCHANGED <<claims, deny, pc, tok, answer, parent, revoked, began>>

\* The denylist is memory: a restart forgets it.
Restart ==
    /\ deny' = [t \in Token |-> None]
    /\ revoked' = {}
    /\ pc' = [p \in Handler |-> "idle"]
    /\ tok' = [p \in Handler |-> None]
    /\ answer' = [p \in Handler |-> None]
    /\ began' = [p \in Handler |-> FALSE]
    /\ UNCHANGED <<now, claims, parent>>

Next ==
    \/ \E t \in Token :
          \/ \E s \in Subject : Issue(t, s)
          \/ \E from \in Token, scope \in SUBSET Scope : TokenExchange(t, from, scope)
          \/ \E from \in Token, need \in ACR : StepUp(t, from, need)
          \/ Revoke(t)
    \/ \E p \in Handler :
          \/ \E t \in Token : IntrospectVerify(p, t)
          \/ IntrospectLookup(p) \/ IntrospectDrop(p) \/ IntrospectExpiry(p)
    \/ Tick
    \/ Restart

Spec == Init /\ [][Next]_vars

-----------------------------------------------------------------------------
(* Properties *)

\* Every variable has its type.
TypeOK ==
    /\ now \in Nat
    /\ claims \in [Token -> Claims \cup {None}]
    /\ deny \in [Token -> Nat \cup {None}]
    /\ pc \in [Handler -> {"idle", "lookup", "drop", "expiry"}]
    /\ tok \in [Handler -> Token \cup {None}]
    /\ parent \in [Token -> Token \cup {None}]
    /\ revoked \subseteq Token
    /\ began \in [Handler -> BOOLEAN]

\* '{"active":false} for revoked or invalid ones': a token that was revoked
\* before introspection began is not reported active.
RevokedNeverActive ==
    \A p \in Handler : answer[p] # None /\ answer[p].revoked => ~answer[p].active

\* RevokedNeverActive up to the instant the token expires, although stale
\* entries are dropped under a lock of their own and time passes between the
\* checks.  In the rest of that second the entry is stale and Verify still
\* accepts the token.
RevokedInactiveUntilExpiry ==
    \A p \in Handler :
        answer[p] # None /\ answer[p].revoked
            /\ answer[p].at <= Instant(claims[answer[p].token].exp)
        => ~answer[p].active

\* However tokens are exchanged and stepped up, a token speaks for the
\* subject of the token it was obtained with, for no scope that one did not
\* have and with no higher ACR.  (The grants put no scope and no ACR into a
\* token, so an exchange that asks for a scope is always refused.)
DelegationNarrows ==
    \A t \in Token : parent[t] # None =>
        /\ claims[t].sub = claims[parent[t]].sub
        /\ claims[t].scope \subseteq claims[parent[t]].scope
        /\ claims[t].acr <= claims[parent[t]].acr

=============================================================================
