\* An event of an HTTP handler and the audit log.
SPECIFICATION Spec
CONSTANTS
    None = None
    Api = {h1}
    Ticker = {tick}
    Event = {e1, e2, e3}
    Webhook = {w1}
    Verifier = {v1}
    MaxAttempts = 2
    ProofLimit = 2
INVARIANT EveryEventAudited
