--------------------------- MODULE MCTokenGrants ---------------------------
(***************************************************************************)
(* TokenGrants for model checking: two authorization requests that differ  *)
(* in every field, one by a public and one by a confidential client, or    *)
(* only the second of them.                                                *)
(***************************************************************************)
EXTENDS TokenGrants, TLC

CONSTANTS alice, bob, app, web, openid, profile, chal

MCSubject == {alice, bob}
MCClient == {app, web}
MCPublic == {app}
MCScope == {openid, profile}
MCChallenge == {chal}

WithChallenge(s, k, sc, ch) ==
    [subject |-> s, client |-> k, scope |-> sc, challenge |-> ch]

MCRequest == {WithChallenge(alice, app, openid, chal),
              WithChallenge(bob, web, profile, chal)}

MCRequestOne == {WithChallenge(bob, web, profile, chal)}

\* Bound on the environment: expiries and client deletions in one behaviour.
CONSTANT MaxEvents
FewEvents == Cardinality(expired) + Cardinality(Client \ clients) <= MaxEvents

Symmetry == Permutations(Handler) \cup Permutations(Code) \cup Permutations(Token)

=============================================================================
