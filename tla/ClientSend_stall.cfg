\* Two threads: the queue can stall on a healthy connection.
SPECIFICATION FairSpec
CONSTANTS
    t1 = t1
    t2 = t2
    a = a
    b = b
    c = c
    d = d
    z = z
    NoMessage = NoMessage
    Threads = {t1, t2}
    Messages = {a, b, c, d}
    Owner <- TwoOwner
    Size <- TwoSize
    Limit = 8
PROPERTY QueuedIsSentLater
\* All messages sent and the connection down: the model stops.
CHECK_DEADLOCK FALSE
