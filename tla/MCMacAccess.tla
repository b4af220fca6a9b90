----------------------------- MODULE MCMacAccess -----------------------------
(* Instances of MacAccess for TLC. *)
EXTENDS MacAccess

Model(s, c) == [vid |-> 1, pid |-> 1, rev |-> 1, serial |-> s, composite |-> c]

\* A composite device and one that is not, of the same kind.
TwoModels == {Model("a", TRUE), Model(NULL, FALSE)}

\* An ACM function, and an interface with a serial port of its own.
AcmAndSerial == [i \in Interfaces |->
    CASE i = 0 -> "AppleUSBACMControl" [] i = 1 -> "AppleUSBACMData" [] i = 2 -> "AppleUSBFTDI"]

\* The user has one chain of objects at a time: the device, its interface or serial port,
\* and the handle to the interface.  It frees a copy before the next call, and
\* stops after a call in which memory ran out.
OneChain ==
    /\ user.interface = NULL \/ user.port = NULL
    /\ \A o \in {"interface", "port"} : user[o] # NULL => user[o].device = user.device
    /\ user.handle # NULL => user.interface # NULL
    /\ user.copied # NULL => frame.pc = "idle"
    /\ ooms < MaxOoms => frame.pc # "idle"
=============================================================================
