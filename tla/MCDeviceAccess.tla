--------------------------- MODULE MCDeviceAccess ---------------------------
(* Instances of DeviceAccess for TLC. *)
EXTENDS DeviceAccess, TLC

Model(v, p, s) == [vid |-> v, pid |-> p, rev |-> 1, serial |-> s]

\* Two products of a vendor, one of them without a serial number.
TwoKinds == {Model(1, 1, "a"), Model(1, 2, NULL)}
OneKind == {Model(1, 1, "a")}

\* No definition tells one port from another.
PortSymmetry == Permutations(Ports)

\* The user has one chain of objects at a time: a device, its interface, and the handle
\* to that interface.
OneChain ==
    /\ gi # NULL => gi.device = device
    /\ handle # NULL => gi # NULL
=============================================================================
