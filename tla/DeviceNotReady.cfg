\* An interface that does not exist, and another device that vanishes.
SPECIFICATION Spec
CONSTANTS
    Ports = {1, 2}
    Models <- OneKind
    Interfaces = {0}
    Drivers = {}
    NoDriver = NoDriver
    WholeDevice = WholeDevice
    MaxPlugs = 3
    MaxAddress = 4
    Calls = {"find", "interface"}
    NULL = NULL
    MaxOoms = 0
INVARIANT MissingInterfaceIsNotReady
