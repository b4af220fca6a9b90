SPECIFICATION Spec
CONSTANTS
    Pipes = {p1}
    NoPipe = NoPipe
    MaxCount = 2
    MaxChunks = 2
    ReapAfterDisconnect = TRUE
INVARIANTS
    ReportedDataIsNew
