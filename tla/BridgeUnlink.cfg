\* Two overlapping unlink requests.
SPECIFICATION Spec
CONSTANTS
    None = None
    Handler = {h1, h2}
    Ext = {google, mail}
    Mail = {mail}
    Magic = {m1}
    DID = {d1, d2}
    Foreign = {f1}
\* Stops only when the finite stock of DIDs is used up.
CHECK_DEADLOCK FALSE
PROPERTY LastMethodKept
