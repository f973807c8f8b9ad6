\* Two overlapping refreshes of one token.
SPECIFICATION Spec
CONSTANTS
    alice = alice bob = bob app = app web = web
    openid = openid profile = profile chal = chal
    None = None
    Handler = {h1, h2}
    Code = {c1}
    Token = {t1, t2, t3}
    Subject <- MCSubject
    Client <- MCClient
    Public <- MCPublic
    Scope <- MCScope
    Challenge <- MCChallenge
    Request <- MCRequestOne
    StoreFaults = FALSE
    Crashes = FALSE
    MaxEvents = 0
CONSTRAINT FewEvents
SYMMETRY Symmetry
INVARIANT RefreshSingleUse
