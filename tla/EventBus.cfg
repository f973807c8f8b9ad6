\* The wiring of the process: one ticker on the audited bus, one handler on
\* the other.
SPECIFICATION Spec
CONSTANTS
    None = None
    Api = {h1}
    Ticker = {tick}
    Event = {e1, e2, e3}
    Webhook = {w1}
    Verifier = {v1}
    MaxAttempts = 2
    ProofLimit = 2
INVARIANT ChainLinked
INVARIANT ProofReachesHead
INVARIANT ReportedOnce
PROPERTY DeliveriesSettle
