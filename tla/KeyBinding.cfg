\* Two credentials of one holder.
SPECIFICATION Spec
CONSTANTS
    Credential = {c1, c2}
    Claim = {k1, k2}
    Value = {v1}
    Nonce = {n1}
    Audience = {u1}
    None = None
INVARIANT KeyBoundAccepted
