\* Two pipes that share a handle: handle_events on one reaps for both, and
\* for transfers leaked by a pipe that was closed while they were pending.
\* Here on a kernel older than 4.0, where an unplug leaves URBs that are never reaped.
SPECIFICATION Spec
CONSTANTS
    Pipes = {p1, p2}
    NoPipe = NoPipe
    MaxCount = 2
    MaxChunks = 0
    ReapAfterDisconnect = FALSE
SYMMETRY PipeSymmetry
INVARIANTS
    SubmitAssertions
    KernelMemorySafe
