\* A revoked token in its last second.
SPECIFICATION Spec
CONSTANTS
    None = None
    Handler = {h1, h2}
    Token = {t1, t2}
    Subject = {alice, bob}
    Scope = {openid}
    Second = 2
    TTL = 2
    MaxNow = 6
INVARIANT RevokedNeverActive
