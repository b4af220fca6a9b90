\* From the list to an open handle, while devices are exchanged.
SPECIFICATION Spec
SYMMETRY PortSymmetry
CONSTRAINT OneChain
CONSTANTS
    Ports = {p1, p2}
    Models <- TwoKinds
    Interfaces = {0}
    Drivers = {}
    NoDriver = NoDriver
    WholeDevice = WholeDevice
    MaxPlugs = 3
    MaxAddress = 2
    Calls = {"list", "find", "interface", "open"}
    NULL = NULL
    MaxOoms = 0
INVARIANTS
    AccessInv
    ListIsComplete
    FindIsRight
    HandleMatchesDevice
    OpensListedDevice
