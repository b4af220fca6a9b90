--------------------------- MODULE MCWindowsAccess ---------------------------
(* Instances of WindowsAccess for TLC. *)
EXTENDS WindowsAccess, TLC

Model(r, s, c) == [vid |-> 1, pid |-> 1, rev |-> r, serial |-> s, composite |-> c]

\* A composite device with a serial number, and a plain one without.
TwoModels == {Model(1, "a", TRUE), Model(2, NULL, FALSE)}

\* No definition tells one port from another.
PortSymmetry == Permutations(Ports)

\* The user has one chain of objects at a time: the device, its interface or serial port,
\* and the handle to the interface.  It frees a copy before the next call, and
\* stops after a call in which memory ran out.
OneChain ==
    /\ user.interface = NULL \/ user.port = NULL
    /\ \A o \in {"interface", "port"} : user[o] # NULL => user[o].device = user.device
    /\ user.handle # NULL => user.interface # NULL
    /\ user.copied # NULL => frame.pc = "idle"
    /\ ooms < MaxOoms => frame.pc # "idle"
=============================================================================
