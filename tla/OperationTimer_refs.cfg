\* A socket operation and a custom one whose timers share a bucket.
SPECIFICATION FairSpec
CONSTANTS
    n1 = n1
    n2 = n2
    c1 = c1
    b1 = b1
    b2 = b2
    NoOperation = NoOperation
    Buckets = {b1, b2}
    Network = {n1}
    Custom = {c1}
    Bucket <- SharedBucket
INVARIANTS TypeOK LateCallbackFindsNothing OutlivedOnlyByUnlock
PROPERTY StallsOnlyWhenCrossed
\* Every operation was finished, or the timer thread is caught in crossed locks.
CHECK_DEADLOCK FALSE
