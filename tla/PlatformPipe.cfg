\* One pipe with rings of up to three transfers, on Windows and on macOS.
SPECIFICATION FairPortSpec
CONSTANTS
    Pipes = {p1}
    NoPipe = NoPipe
    MaxCount = 3
    MaxChunks = 1
    ReapAfterDisconnect = TRUE
INVARIANTS
    KernelMemorySafe
    FlagsMatchDriver
    ReportedDataIsNew
PROPERTIES
    ImplementsTransferQueue
    CancelDrains
