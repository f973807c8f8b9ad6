\* Two goroutines; see the README for the instance of each part.
SPECIFICATION SpecAll
CONSTANTS
    None = None
    Handler = {h1, h2}
    Token = {t1, t2}
    Subject = {alice, bob}
    Scope = {openid}
    Second = 2
    TTL = 2
    MaxNow = 6
    Client = {c1, c2}
    URI = {r1}
    RequestURI = {u1}
    MaxUses = 2
    RequestID = {q1, q2}
    Offer = {o1}
    Schema = {age, health}
    Holder = {j1}
    GrantID = {g1}
    Relying = {p1, p2}
    Sensitive = {health}
    MaxPolicy = 2
    Receipt = {w1, w2, w3}
    Shown = {age}
    Verifier = {x1, x2}
    Limit = {0, 1, 5}
    defaultLimit = 2
    maxLimit = 3
    MaxDisclosures = 3
    MaxVersion = 2
    ttl = 2
    Timeout = 1
    MaxTime = 6
    Index = {0, 7, 8, 15, 16}
    size = 17
    MinSize = 3
    ReadLimit = 2
    Credential = {s1, s2}
    Claim = {k1, k2}
    Value = {v1}
    Nonce = {n1}
    Audience = {u2}
    KID = {i1, i2}
    SenderKID = i3
    Body = {b1}
    MaxKey = 2
    MaxMessages = 1
    MaxYear = 5
    Threshold = {1, 2, 3}
    maxThreshold = 4
\* The parts stop when their finite stocks and clocks are used up.
CHECK_DEADLOCK FALSE
SYMMETRY Symmetry
INVARIANT TypesOK
INVARIANT RevokedInactiveUntilExpiry
INVARIANT DelegationNarrows
INVARIANT PushIsBinding
INVARIANT UsedOnceAlone
INVARIANT ResponsesGoWithRequests
INVARIANT SensitiveNeedsConfirmation
INVARIANT SubjectSeesEveryAccess
INVARIANT RevocationReaches
INVARIANT StatusExact
INVARIANT RevealedExactly
INVARIANT OpensExactly
INVARIANT AgeProofExact
