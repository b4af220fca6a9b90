\* All calls, on a bus that never rests, with a shortage of memory anywhere: interfaces
\* and serial ports that are not ready yet, or vanish.
SPECIFICATION FairSpec
CONSTANTS
    Ports = {1}
    Models <- OneKind
    Interfaces = {0, 1}
    Drivers = {"other"}
    NoDriver = NoDriver
    WholeDevice = WholeDevice
    MaxPlugs = 1
    MaxAddress = 2
    Calls = {"find", "interface", "port", "open", "copy"}
    NULL = NULL
    MaxOoms = 1
INVARIANTS
    ReadyInterfaceIsCreated
    NotReadyIsTrue
    NothingLeaks
PROPERTY CallsReturn
