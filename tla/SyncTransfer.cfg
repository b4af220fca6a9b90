\* One endpoint number in both directions, ids that are no pipes (17 aliases 1
\* if the reserved bits are ignored, 128 is pipe 0 with the direction IN).
SPECIFICATION Spec
CONSTANTS
    Blocks = {b1, b2, b3, b4, b5, b6}
    PipeIds = {0, 1, 17, 128, 129}
    Layouts <- PairLayouts
    MaxSize = 1
    Timeouts = {0, 5}
INVARIANTS
    HeapIsOwned
    FailureIsReported
    CauseIsTold
    TimeoutWasAskedFor
    NamedEndpointIsUsed
    CountIsTrusted
PROPERTIES
    CopyTellsTheSame
CONSTRAINT CopiesAreShortLived
