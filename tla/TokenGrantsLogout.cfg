\* A logout, with nothing else going on.
SPECIFICATION Spec
CONSTANTS
    alice = alice bob = bob app = app web = web
    openid = openid profile = profile chal = chal
    None = None
    Handler = {h1}
    Code = {c1}
    Token = {t1}
    Subject <- MCSubject
    Client <- MCClient
    Public <- MCPublic
    Scope <- MCScope
    Challenge <- MCChallenge
    Request <- MCRequestOne
    StoreFaults = FALSE
    Crashes = FALSE
    MaxEvents = 0
CONSTRAINT FewEvents
PROPERTY LogoutRevokesRefreshTokens
