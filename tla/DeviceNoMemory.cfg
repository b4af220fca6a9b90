\* Memory runs out while a handle is opened.
SPECIFICATION Spec
CONSTANTS
    Ports = {1}
    Models <- OneKind
    Interfaces = {0}
    Drivers = {}
    NoDriver = NoDriver
    WholeDevice = WholeDevice
    MaxPlugs = 1
    MaxAddress = 2
    Calls = {"find", "interface", "open"}
    NULL = NULL
    MaxOoms = 1
INVARIANT MemoryShortageIsAnError
