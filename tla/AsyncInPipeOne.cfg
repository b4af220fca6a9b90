\* One pipe with rings of one and two transfers, on Linux 4.0 or later: the promises to
\* the user, the invariant of the proofs, the queue of requests that the ring implements,
\* and the end of a cancellation.
SPECIFICATION FairSpec
CONSTANTS
    Pipes = {p1}
    NoPipe = NoPipe
    MaxCount = 2
    MaxChunks = 3
    ReapAfterDisconnect = TRUE
INVARIANTS
    RingInv
    NothingPendingMeansNothingLost
    EndlessKeepsAllPending
    CancelQuiesces
PROPERTIES
    CloseWithoutPendingFreesAll
    DeliveredInOrder
    ImplementsTransferQueue
    CancelDrains
