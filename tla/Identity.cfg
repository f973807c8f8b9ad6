\* Two goroutines; see the README for the instance of each part.  x1 and x2 are
\* DIDs in one, passkeys in another and credentials in a third.
SPECIFICATION SpecAll
CONSTANTS
    None = None
    Handler = {h1, h2}
    Peer = {a1, a2}
    Proxy = {a2}
    rate = 3
    capacity = 6
    Cost = 2
    Idle = 2
    MaxTime = 3
    Ext = {google, mail}
    Mail = {mail}
    Magic = {m1}
    DID = {x1, x2}
    Foreign = {f1}
    Subject = {alice}
    Cred = {x1, x2, c3}
    Twin = {x1, x2}
    Session = {n1}
    MaxSign = 1
    lockThreshold1 = 3
    lockThreshold2 = 4
    lockThreshold3 = 5
    MaxCount = 6
    Passphrase = {w1, w2}
    Secret = {s1, s2}
    Token = {k1, k2, k3}
    ResetLimit = 2
    Guardian = {g1, g2, g3}
    MaxApprovals = 3
    SecretByte = {0, 1, 83, 255}
    Coefficient = {0, 1, 128, 202}
    MaxShares = 4
    CredID = {x1, x2}
    OIDCSession = {o1}
\* The parts stop when their finite stocks and clocks are used up.
CHECK_DEADLOCK FALSE
SYMMETRY Symmetry
INVARIANT TypesOK
INVARIANT AnchorsResolve
INVARIANT StableIdentifier
INVARIANT MagicLinkUses
PROPERTY LinkKeepsOwner
PROPERTY LastMethodKeptAlone
INVARIANT WindowBound
PROPERTY CounterKeepsFloor
INVARIANT AttemptsCounted
INVARIANT SharesCollectedCounts
INVARIANT QuorumRecovers
INVARIANT DeletionRemovesWhatItFound
INVARIANT DeletionStands
