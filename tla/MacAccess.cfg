\* Interfaces, serial ports and handles on macOS, while devices come and go.
SPECIFICATION Spec
CONSTRAINT OneChain
CONSTANTS
    Ports = {1}
    Models <- TwoModels
    Interfaces = {0, 1, 2}
    Drivers = {"AppleUSBACMControl", "AppleUSBACMData", "AppleUSBFTDI"}
    NoDriver = NoDriver
    WholeDevice = WholeDevice
    MaxPlugs = 2
    MaxAddress = 2
    Calls = {"list", "interface", "port", "open", "copy"}
    NULL = NULL
    MaxOoms = 1
    Personality <- AcmAndSerial
INVARIANTS
    NothingLeaks
    OpensListedDevice
    SerialPortIsRight
    ReadyIsFound
