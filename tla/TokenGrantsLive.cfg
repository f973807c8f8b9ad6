\* Eventual invalidation of exchanged codes.
SPECIFICATION FairSpec
CONSTANTS
    alice = alice bob = bob app = app web = web
    openid = openid profile = profile chal = chal
    None = None
    Handler = {h1, h2}
    Code = {c1}
    Token = {t1, t2}
    Subject <- MCSubject
    Client <- MCClient
    Public <- MCPublic
    Scope <- MCScope
    Challenge <- MCChallenge
    Request <- MCRequestOne
    StoreFaults = TRUE
    Crashes = TRUE
    MaxEvents = 0
PROPERTY ExchangedCodeIsInvalidated
