\* Two devices that may draw the same user code one after the other.
SPECIFICATION Spec
CONSTANTS
    None = None
    Handler = {h1, h2}
    Device = {d1, d2}
    UserCode = {u1, u2}
    Request = {r1, r2}
    Subject = {alice, bob}
    Token = {t1, t2, t3}
\* The system stops only when the finite stock of device codes is used up.
CHECK_DEADLOCK FALSE
SYMMETRY Symmetry
INVARIANT DeviceBinding
INVARIANT DeviceRaceBound
PROPERTY DeviceImplementsLedger
