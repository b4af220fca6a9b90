\* Interfaces, serial ports and handles on Windows, while devices come and go.
SPECIFICATION Spec
CONSTRAINT OneChain
SYMMETRY PortSymmetry
CONSTANTS
    Ports = {p1, p2}
    Models <- TwoModels
    Interfaces = {0}
    Drivers = {"winusb", "ftdi"}
    NoDriver = NoDriver
    WholeDevice = WholeDevice
    MaxPlugs = 2
    MaxAddress = 2
    Calls = {"list", "interface", "port", "open", "copy"}
    NULL = NULL
    MaxOoms = 1
INVARIANTS
    NothingLeaks
    ListIsComplete
    OpensListedDevice
    ReadyInterfaceIsCreated
    NotReadyIsTrue

