\* One thread sending alone on the client.
SPECIFICATION FairSpec
CONSTANTS
    t1 = t1
    t2 = t2
    a = a
    b = b
    c = c
    d = d
    z = z
    NoMessage = NoMessage
    Threads = {t1}
    Messages = {a, b, c, d, z}
    Owner <- OneOwner
    Size <- OneSize
    Limit = 4
PROPERTIES IsChannel QueuedIsSentLater
\* All messages sent and the connection down: the model stops.
CHECK_DEADLOCK FALSE
