------------------------ MODULE PushedRequestsProofs ------------------------
(***************************************************************************)
(* A pushed authorization request binds the session it leads to, for any   *)
(* number of handlers, clients, URIs and request_uris.  The row, the copy  *)
(* a handler reads of it and the parameters merged from that copy go back  *)
(* to what was pushed; a request_uri is drawn once, so that what was       *)
(* pushed under it never changes while a handler is on its way.            *)
(***************************************************************************)
EXTENDS PushedRequests, TLAPS

\* The marker of an absent value is none of the values.
Distinct == None \notin Params /\ None \notin RequestURI

Resolving == [push : RequestURI, row : Params, query : Params, late : BOOLEAN]
Merged == [push : RequestURI \cup {None}, merged : Params]

Shape ==
  /\ par \in [RequestURI -> Params \cup {None}]
  /\ pushed \in [RequestURI -> Params \cup {None}]
  /\ pc \in [Handler -> {"idle", "push", "resolve", "client", "open"}]
  /\ copy \in [Handler -> Params \cup Resolving \cup Merged \cup {None}]

\* A row is what was pushed.
RowsPushed == \A u \in RequestURI : par[u] # None => par[u] = pushed[u]

\* The client and the redirect URI are those pushed under u.
Binds(u, client, redirect) ==
  /\ u \in RequestURI
  /\ pushed[u] # None
  /\ pushed[u].client = client
  /\ pushed[u].redirect \in {None, redirect}

\* What a handler holds goes back to what was pushed.
Held(p) ==
  /\ pc[p] = "push" => copy[p] \in Params
  /\ pc[p] = "resolve" =>
       /\ copy[p] \in Resolving
       /\ pushed[copy[p].push] = copy[p].row
  /\ pc[p] \in {"client", "open"} =>
       /\ copy[p] \in Merged
       /\ copy[p].push # None =>
            Binds(copy[p].push, copy[p].merged.client, copy[p].merged.redirect)

OpenedBound ==
  opened # None /\ opened.push # None => Binds(opened.push, opened.client, opened.redirect)

Inv == Shape /\ RowsPushed /\ (\A p \in Handler : Held(p)) /\ OpenedBound

-----------------------------------------------------------------------------

\* Before anything was pushed there is nothing to keep.
LEMMA InitInv == ASSUME Init PROVE Inv
BY DEF Init, Inv, Shape, RowsPushed, Held, OpenedBound

\* What handlers other than p hold is kept when nothing pushed changes.
LEMMA OthersKept ==
    ASSUME Inv, NEW p \in Handler, NEW step, NEW value, Goto(p, step, value),
           UNCHANGED pushed, NEW q \in Handler, q # p
    PROVE  Held(q)'
<1>1. pc'[q] = pc[q] /\ copy'[q] = copy[q]
  BY DEF Goto, Inv, Shape
<1> QED BY <1>1 DEF Inv, Held, Binds

\* The handler that moves.
LEMMA Moved ==
    ASSUME Inv, NEW p \in Handler, NEW step, NEW value, Goto(p, step, value)
    PROVE  pc'[p] = step /\ copy'[p] = value
BY DEF Goto, Inv, Shape

\* The variables keep their shape when a handler moves with a value of its own.
LEMMA GotoShape ==
    ASSUME Inv, NEW p \in Handler, NEW step \in {"idle", "push", "resolve", "client", "open"},
           NEW value \in Params \cup Resolving \cup Merged \cup {None},
           Goto(p, step, value), UNCHANGED <<par, pushed>>
    PROVE  Shape'
BY DEF Goto, Inv, Shape

\* A step of p that leaves what was pushed, the rows and the session alone,
\* and after which p holds something good.
LEMMA MoveInv ==
    ASSUME Inv, NEW p \in Handler, NEW step \in {"idle", "push", "resolve", "client", "open"},
           NEW value \in Params \cup Resolving \cup Merged \cup {None},
           Goto(p, step, value), UNCHANGED <<par, pushed, opened>>, Held(p)'
    PROVE  Inv'
<1>1. Shape'
  BY GotoShape
<1>2. \A q \in Handler : Held(q)'
  BY OthersKept
<1>3. RowsPushed' /\ OpenedBound'
  BY DEF Inv, RowsPushed, OpenedBound, Binds
<1> QED BY <1>1, <1>2, <1>3 DEF Inv

\* A handler that is done holds nothing.
LEMMA IdleHeld ==
    ASSUME NEW p \in Handler, pc'[p] = "idle"
    PROVE  Held(p)'
BY DEF Held

LEMMA PushInv ==
    ASSUME Inv, NEW p \in Handler, NEW q \in Params, Push(p, q)
    PROVE  Inv'
<1>1. Goto(p, "push", q) /\ UNCHANGED <<par, pushed, opened>>
  BY DEF Push, history
<1>2. Held(p)'
  BY <1>1, Moved DEF Held
<1> QED BY <1>1, <1>2, MoveInv

LEMMA AuthorizePlainInv ==
    ASSUME Inv, NEW p \in Handler, NEW q \in Params, AuthorizePlain(p, q)
    PROVE  Inv'
<1> DEFINE value == [push |-> None, merged |-> q]
<1>1. value \in Merged /\ value.push = None
  BY DEF Merged
<1>2. Goto(p, "client", value) /\ UNCHANGED <<par, pushed, opened>>
  BY DEF AuthorizePlain, history
<1> HIDE DEF value
<1>3. Held(p)'
  BY <1>1, <1>2, Moved DEF Held
<1> QED BY <1>1, <1>2, <1>3, MoveInv

LEMMA ResolveGetInv ==
    ASSUME Inv, NEW p \in Handler, NEW u \in RequestURI, NEW q \in Params, ResolveGet(p, u, q)
    PROVE  Inv'
<1> DEFINE value == [push |-> u, row |-> par[u], query |-> q, late |-> u \in stale]
<1>1. par[u] \in Params /\ par[u] = pushed[u]
  BY DEF ResolveGet, Inv, Shape, RowsPushed
<1>2. (u \in stale) \in BOOLEAN
  OBVIOUS
<1>3. value \in Resolving /\ value.push = u /\ value.row = par[u]
  BY <1>1, <1>2 DEF Resolving
<1>4. Goto(p, "resolve", value) /\ UNCHANGED <<par, pushed, opened>>
  BY DEF ResolveGet
<1> HIDE DEF value
<1>5. Held(p)'
  BY <1>1, <1>3, <1>4, Moved DEF Held
<1> QED BY <1>3, <1>4, <1>5, MoveInv

LEMMA AuthorizeClientInv ==
    ASSUME Inv, NEW p \in Handler, AuthorizeClient(p)
    PROVE  Inv'
<1>1. UNCHANGED <<par, pushed, opened>> /\ pc[p] = "client"
  BY DEF AuthorizeClient, history
<1>2. CASE Goto(p, "open", copy[p])
  <2>1. copy[p] \in Merged
    BY <1>1 DEF Inv, Held
  <2>2. Held(p)'
    BY <1>1, <1>2, Moved DEF Inv, Held, Binds
  <2> QED BY <1>1, <1>2, <2>1, <2>2, MoveInv
<1>3. CASE Goto(p, "idle", None)
  BY <1>1, <1>3, Moved, IdleHeld, MoveInv
<1> QED BY <1>2, <1>3 DEF AuthorizeClient

LEMMA SavePARRequestInv ==
    ASSUME Distinct, Inv, NEW p \in Handler, SavePARRequest(p)
    PROVE  Inv'
<1>1. /\ Goto(p, "idle", None) /\ UNCHANGED opened /\ pc[p] = "push"
      /\ copy[p] \in Params
  BY DEF SavePARRequest, Inv, Held
<1>2. CASE UNCHANGED <<par, pushed>>
  BY <1>1, <1>2, Moved, IdleHeld, MoveInv
<1>3. ASSUME NEW u \in RequestURI, pushed[u] = None,
             par' = [par EXCEPT ![u] = copy[p]],
             pushed' = [pushed EXCEPT ![u] = copy[p]]
      PROVE  Inv'
  <2>1. \A w \in RequestURI : pushed[w] # None => pushed'[w] = pushed[w]
    BY <1>3 DEF Inv, Shape
  <2>2. Shape'
    BY <1>1, <1>3 DEF Goto, Inv, Shape
  <2>3. RowsPushed'
    BY <1>3 DEF Inv, Shape, RowsPushed
  <2>4. \A w, client, redirect : Binds(w, client, redirect) => Binds(w, client, redirect)'
    BY <2>1 DEF Binds
  <2>5. ASSUME NEW q \in Handler PROVE Held(q)'
    <3>1. CASE q = p
      BY <1>1, <3>1, Moved, IdleHeld
    <3>2. CASE q # p
      <4>1. pc'[q] = pc[q] /\ copy'[q] = copy[q]
        BY <1>1, <3>2 DEF Goto, Inv, Shape
      <4>2. pc[q] = "resolve" => pushed'[copy[q].push] = pushed[copy[q].push]
        <5>1. pc[q] = "resolve" => copy[q].push \in RequestURI /\ copy[q].row \in Params
          BY DEF Inv, Held, Resolving
        <5> QED BY <2>1, <5>1 DEF Inv, Held, Distinct
      <4> QED BY <2>4, <4>1, <4>2 DEF Inv, Held
    <3> QED BY <3>1, <3>2
  <2>6. OpenedBound'
    BY <1>1, <2>4 DEF Inv, OpenedBound
  <2> QED BY <2>2, <2>3, <2>5, <2>6 DEF Inv
<1> QED BY <1>2, <1>3 DEF SavePARRequest

\* PAR params take precedence over the query.
LEMMA MergeBinds ==
    ASSUME NEW u \in RequestURI, NEW row \in Params, NEW query \in Params,
           pushed[u] = row, pushed[u] # None
    PROVE  /\ Merge(row, query) \in Params
           /\ Binds(u, Merge(row, query).client, Merge(row, query).redirect)
BY DEF Merge, Params, Binds

LEMMA ResolveDeleteInv ==
    ASSUME Distinct, Inv, NEW p \in Handler, ResolveDelete(p)
    PROVE  Inv'
<1>1. /\ UNCHANGED <<pushed, opened>> /\ pc[p] = "resolve"
      /\ copy[p] \in Resolving /\ pushed[copy[p].push] = copy[p].row
  BY DEF ResolveDelete, Inv, Held
<1> DEFINE u == copy[p].push
           merged == Merge(copy[p].row, copy[p].query)
           value == [push |-> u, merged |-> merged]
<1>2. u \in RequestURI /\ copy[p].row \in Params /\ copy[p].query \in Params
  BY <1>1 DEF Resolving
<1>3. merged \in Params /\ Binds(u, merged.client, merged.redirect)
  BY <1>1, <1>2, MergeBinds DEF Distinct
<1>4. value \in Merged /\ value.push = u /\ value.merged = merged
  BY <1>2, <1>3 DEF Merged
<1>5. \/ Goto(p, "idle", None)
      \/ Goto(p, "client", value)
  BY DEF ResolveDelete
<1>6. par' = par \/ par' = [par EXCEPT ![u] = None]
  BY DEF ResolveDelete
<1> HIDE DEF merged, value, u
<1>7. Shape'
  BY <1>1, <1>2, <1>4, <1>5, <1>6 DEF Goto, Inv, Shape
<1>8. RowsPushed'
  BY <1>1, <1>2, <1>6 DEF Inv, Shape, RowsPushed
<1>9. Held(p)'
  <2>1. CASE Goto(p, "idle", None)
    BY <2>1, Moved, IdleHeld
  <2>2. CASE Goto(p, "client", value)
    BY <1>1, <1>3, <1>4, <2>2, Moved DEF Held, Binds
  <2> QED BY <1>5, <2>1, <2>2
<1>10. \A q \in Handler : Held(q)'
  BY <1>1, <1>5, <1>9, OthersKept
<1>11. OpenedBound'
  BY <1>1 DEF Inv, OpenedBound, Binds
<1> QED BY <1>7, <1>8, <1>10, <1>11 DEF Inv

LEMMA AuthorizeSaveInv ==
    ASSUME Inv, NEW p \in Handler, AuthorizeSave(p)
    PROVE  Inv'
<1>1. /\ Goto(p, "idle", None) /\ UNCHANGED <<par, pushed>> /\ pc[p] = "open"
      /\ copy[p].push # None =>
           Binds(copy[p].push, copy[p].merged.client, copy[p].merged.redirect)
  BY DEF AuthorizeSave, history, Inv, Held
<1>2. CASE UNCHANGED opened
  BY <1>1, <1>2, Moved, IdleHeld, MoveInv
<1>3. CASE opened' = [client |-> copy[p].merged.client,
                      redirect |-> copy[p].merged.redirect, push |-> copy[p].push]
  <2>1. Shape'
    BY <1>1, GotoShape
  <2>2. \A q \in Handler : Held(q)'
    BY <1>1, Moved, IdleHeld, OthersKept
  <2>3. OpenedBound'
    BY <1>1, <1>3 DEF OpenedBound, Binds
  <2> QED BY <1>1, <2>1, <2>2, <2>3 DEF Inv, RowsPushed
<1> QED BY <1>2, <1>3 DEF AuthorizeSave

LEMMA NextInv == ASSUME Distinct, Inv, [Next]_vars PROVE Inv'
<1>1. CASE UNCHANGED <<par, opened, pc, copy, pushed>>
  BY <1>1 DEF Inv, Shape, RowsPushed, Held, OpenedBound, Binds
<1>2. ASSUME NEW c \in Client, (\E uris \in SUBSET URI : RegisterClient(c, uris)) \/ DeleteClient(c)
      PROVE  Inv'
  BY <1>1, <1>2 DEF RegisterClient, DeleteClient, local, history
<1>3. ASSUME NEW u \in RequestURI, PARExpires(u)
      PROVE  Inv'
  BY <1>1, <1>3 DEF PARExpires, local, history
<1>4. CASE UNCHANGED vars
  BY <1>1, <1>4 DEF vars
<1> QED
  BY <1>2, <1>3, <1>4, PushInv, AuthorizePlainInv, SavePARRequestInv, ResolveGetInv,
     ResolveDeleteInv, AuthorizeClientInv, AuthorizeSaveInv DEF Next

\* What a request_uri leads to goes back to what was pushed under it, at
\* every step of the handlers of par.go and provider.go.
THEOREM PushInvariant == Distinct => (Spec => []Inv)
<1> SUFFICES ASSUME Distinct PROVE Spec => []Inv
  OBVIOUS
<1>1. Init => Inv
  BY InitInv
<1>2. Inv /\ [Next]_vars => Inv'
  BY NextInv
<1> QED BY <1>1, <1>2, PTL DEF Spec

\* A session opened through a request_uri belongs to the client that pushed
\* the request, and goes to the redirect URI it pushed if it pushed one
\* (par.go:16-19, provider.go:60-66), for every instance: requests may
\* overlap, deletions fail and clients come and go.
THEOREM PushIsBindingAlways == Distinct => (Spec => []PushIsBinding)
<1> SUFFICES ASSUME Distinct PROVE Spec => []PushIsBinding
  OBVIOUS
<1>1. Inv => PushIsBinding
  BY DEF Inv, OpenedBound, Binds, PushIsBinding
<1> QED BY <1>1, PushInvariant, PTL

-----------------------------------------------------------------------------
(* A request is used once unless handlers overlap on it.                   *)

Resolves(p, u) == pc[p] = "resolve" /\ copy[p].push = u

\* While a request that was never shared is in the table or in some
\* handler's hands it was not used, and one handler at most has it.
Unused(u) ==
  /\ pushed[u] = None => par[u] = None /\ uses[u] = 0
  /\ u \notin shared =>
       /\ uses[u] <= 1
       /\ par[u] # None => uses[u] = 0
       /\ \A p \in Handler : Resolves(p, u) => uses[u] = 0
       /\ \A p, q \in Handler : Resolves(p, u) /\ Resolves(q, u) => p = q

UseInv ==
  /\ uses \in [RequestURI -> Nat]
  /\ \A u \in RequestURI : Unused(u)

\* Steps that leave the table, the counts and the resolving handlers alone.
LEMMA UnusedKept ==
    ASSUME UseInv, UNCHANGED <<par, pushed, uses, shared>>,
           \A p \in Handler, u \in RequestURI : Resolves(p, u)' => Resolves(p, u)
    PROVE  UseInv'
BY DEF UseInv, Unused

\* A handler that moves to a step other than "resolve" resolves nothing, and
\* the others resolve what they did.
LEMMA GotoResolves ==
    ASSUME Inv, NEW p \in Handler, NEW step, NEW value, Goto(p, step, value)
    PROVE  /\ \A q \in Handler \ {p}, u \in RequestURI : Resolves(q, u)' <=> Resolves(q, u)
           /\ \A u \in RequestURI : Resolves(p, u)' => step = "resolve" /\ value.push = u
BY DEF Goto, Inv, Shape, Resolves

LEMMA NextUseInv == ASSUME Distinct, Inv, UseInv, [Next]_vars PROVE UseInv'
<1>1. ASSUME NEW p \in Handler, NEW q \in Params, Push(p, q) \/ AuthorizePlain(p, q)
      PROVE  UseInv'
  BY <1>1, GotoResolves, UnusedKept DEF Push, AuthorizePlain, history
<1>2. ASSUME NEW p \in Handler, AuthorizeClient(p) \/ AuthorizeSave(p)
      PROVE  UseInv'
  BY <1>2, GotoResolves, UnusedKept DEF AuthorizeClient, AuthorizeSave, history
<1>3. ASSUME NEW p \in Handler, SavePARRequest(p)
      PROVE  UseInv'
  <2>1. /\ Goto(p, "idle", None) /\ UNCHANGED <<uses, shared>>
        /\ \A q \in Handler, w \in RequestURI : Resolves(q, w)' => Resolves(q, w)
    BY <1>3, GotoResolves DEF SavePARRequest
  <2>2. CASE UNCHANGED <<par, pushed>>
    BY <2>1, <2>2, UnusedKept
  <2>3. ASSUME NEW u \in RequestURI, pushed[u] = None,
               par' = [par EXCEPT ![u] = copy[p]],
               pushed' = [pushed EXCEPT ![u] = copy[p]]
        PROVE  UseInv'
    <3>1. copy[p] \in Params /\ copy[p] # None
      BY <1>3 DEF SavePARRequest, Inv, Held, Distinct
    <3>2. /\ pushed'[u] # None /\ uses[u] = 0
          /\ \A w \in RequestURI \ {u} : par'[w] = par[w] /\ pushed'[w] = pushed[w]
      BY <2>3, <3>1 DEF Inv, Shape, UseInv, Unused
    <3>3. ASSUME NEW w \in RequestURI PROVE Unused(w)'
      BY <2>1, <3>2 DEF UseInv, Unused
    <3> QED BY <2>1, <3>3 DEF UseInv
  <2> QED BY <1>3, <2>2, <2>3 DEF SavePARRequest
<1>4. ASSUME NEW p \in Handler, NEW u \in RequestURI, NEW q \in Params, ResolveGet(p, u, q)
      PROVE  UseInv'
  <2> DEFINE value == [push |-> u, row |-> par[u], query |-> q, late |-> u \in stale]
  <2>1. /\ value.push = u /\ Goto(p, "resolve", value) /\ UNCHANGED <<par, pushed, uses>>
        /\ par[u] # None
        /\ shared' = IF HeldElsewhere(p, u) THEN shared \cup {u} ELSE shared
    BY <1>4 DEF ResolveGet
  <2> HIDE DEF value
  <2>2. /\ \A o \in Handler \ {p}, w \in RequestURI : Resolves(o, w)' <=> Resolves(o, w)
        /\ \A w \in RequestURI : Resolves(p, w)' => w = u
    BY <2>1, GotoResolves
  <2>3. ASSUME NEW w \in RequestURI PROVE Unused(w)'
    <3>1. CASE w # u
      BY <2>1, <2>2, <3>1 DEF UseInv, Unused
    <3>2. CASE w = u /\ u \in shared'
      BY <2>1, <3>2 DEF UseInv, Unused
    <3>3. CASE w = u /\ u \notin shared'
      <4>1. u \notin shared /\ \A o \in Handler \ {p} : ~Resolves(o, u)
        BY <2>1, <3>3 DEF HeldElsewhere, Resolves
      <4> QED BY <2>1, <2>2, <3>3, <4>1 DEF UseInv, Unused
    <3> QED BY <3>1, <3>2, <3>3
  <2> QED BY <2>1, <2>3 DEF UseInv
<1>5. ASSUME NEW p \in Handler, ResolveDelete(p)
      PROVE  UseInv'
  <2> DEFINE u == copy[p].push
             value == [push |-> u, merged |-> Merge(copy[p].row, copy[p].query)]
  <2>1. /\ pc[p] = "resolve" /\ UNCHANGED pushed
        /\ u \in RequestURI /\ pushed[u] # None /\ Resolves(p, u)
    BY <1>5 DEF ResolveDelete, Inv, Held, Resolving, Distinct, Resolves
  <2>2. \/ par' = [par EXCEPT ![u] = None] /\ UNCHANGED shared
        \/ UNCHANGED par /\ shared' = shared \cup {u}
    BY <1>5 DEF ResolveDelete
  <2>3. UNCHANGED uses \/ uses' = [uses EXCEPT ![u] = Increment(@)]
    BY <1>5 DEF ResolveDelete
  <2>4. Goto(p, "idle", None) \/ Goto(p, "client", value)
    BY <1>5 DEF ResolveDelete
  <2> HIDE DEF u, value
  <2>5. /\ \A o \in Handler \ {p}, w \in RequestURI : Resolves(o, w)' <=> Resolves(o, w)
        /\ \A w \in RequestURI : ~Resolves(p, w)'
    BY <2>4, GotoResolves
  <2>6. \A n \in Nat : Increment(n) \in Nat /\ (n = 0 => Increment(n) <= 1)
    BY DEF Increment
  <2>7. /\ uses' \in [RequestURI -> Nat] /\ (uses[u] = 0 => uses'[u] <= 1)
        /\ \A w \in RequestURI \ {u} : uses'[w] = uses[w]
    BY <2>1, <2>3, <2>6 DEF UseInv
  <2>8. ASSUME NEW w \in RequestURI PROVE Unused(w)'
    <3>1. CASE w # u
      BY <2>1, <2>2, <2>5, <2>7, <3>1 DEF UseInv, Unused, Inv, Shape
    <3>2. CASE w = u /\ u \in shared'
      BY <2>1, <3>2 DEF Unused
    <3>3. CASE w = u /\ u \notin shared'
      <4>1. u \notin shared /\ par'[u] = None
        BY <2>1, <2>2, <3>3 DEF Inv, Shape
      <4>2. uses[u] = 0 /\ \A o \in Handler \ {p} : ~Resolves(o, u)
        BY <2>1, <4>1 DEF UseInv, Unused
      <4> QED BY <2>1, <2>5, <2>7, <3>3, <4>1, <4>2 DEF Unused
    <3> QED BY <3>1, <3>2, <3>3
  <2> QED BY <2>7, <2>8 DEF UseInv
<1>6. CASE UNCHANGED <<par, pc, copy, pushed, uses, shared>>
  BY <1>6 DEF UseInv, Unused, Resolves
<1>7. ASSUME NEW c \in Client, (\E uris \in SUBSET URI : RegisterClient(c, uris)) \/ DeleteClient(c)
      PROVE  UseInv'
  BY <1>6, <1>7 DEF RegisterClient, DeleteClient, local, history
<1>8. ASSUME NEW u \in RequestURI, PARExpires(u)
      PROVE  UseInv'
  BY <1>6, <1>8 DEF PARExpires, local, history
<1>9. CASE UNCHANGED vars
  BY <1>6, <1>9 DEF vars
<1> QED BY <1>1, <1>2, <1>3, <1>4, <1>5, <1>7, <1>8, <1>9 DEF Next

\* A request_uri leads to at most one authorization unless two handlers held
\* its row at a time or its deletion failed (resolvePARRequest, par.go:92,
\* 100), for any number of handlers and request_uris.
THEOREM PushUsedOnceAloneAlways == Distinct => (Spec => []PushUsedOnceAlone)
<1> SUFFICES ASSUME Distinct PROVE Spec => []PushUsedOnceAlone
  OBVIOUS
<1>1. Init => UseInv
  BY DEF Init, UseInv, Unused, Resolves
<1>2. Inv /\ UseInv /\ [Next]_vars => UseInv'
  BY NextUseInv
<1>3. UseInv => PushUsedOnceAlone
  BY DEF UseInv, Unused, PushUsedOnceAlone
<1> QED BY <1>1, <1>2, <1>3, PushInvariant, PTL DEF Spec

=============================================================================
