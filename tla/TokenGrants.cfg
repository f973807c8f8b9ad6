\* Two overlapping requests, failing writes, crashes.
SPECIFICATION Spec
CONSTANTS
    alice = alice bob = bob app = app web = web
    openid = openid profile = profile chal = chal
    None = None
    Handler = {h1, h2}
    Code = {c1}
    Token = {t1, t2, t3}
    Subject <- MCSubject
    Client <- MCClient
    Public <- MCPublic
    Scope <- MCScope
    Challenge <- MCChallenge
    Request <- MCRequest
    StoreFaults = TRUE
    Crashes = TRUE
    MaxEvents = 1
CONSTRAINT FewEvents
SYMMETRY Symmetry
INVARIANT TypeOK
INVARIANT GrantBinding
INVARIANT DeadStaysDead
INVARIANT RaceBound
INVARIANT SuccessorImpliesSpent
PROPERTY ImplementsLedger
