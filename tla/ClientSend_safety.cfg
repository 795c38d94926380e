\* Two threads sending concurrently, an empty message among theirs.
SPECIFICATION Spec
CONSTANTS
    t1 = t1
    t2 = t2
    a = a
    b = b
    c = c
    d = d
    z = z
    NoMessage = NoMessage
    Threads = {t1, t2}
    Messages = {a, b, c, d, z}
    Owner <- ZeroOwner
    Size <- ZeroSize
    Limit = 2
INVARIANTS TypeOK Accounting MemoryBound OnWireOnce NoSilentLoss
PROPERTY OvertakesOnlyInWindow
\* All messages sent and the connection down: the model stops.
CHECK_DEADLOCK FALSE
