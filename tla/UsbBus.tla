------------------------------- MODULE UsbBus -------------------------------
(***************************************************************************)
(* The world that libusbp looks at when it lists and opens devices: the    *)
(* ports of a Linux machine, with the kernel, sysfs, devtmpfs and udev.    *)
(* All of this is outside of the repository; it is modelled from what the  *)
(* library asks of it.                                                     *)
(*                                                                         *)
(* Each time a device is plugged in, the bus has a new instance, numbered  *)
(* 1, 2, ...  A sysfs path names a port, so a device that is plugged into  *)
(* the same port later has the same path.  A device node is named after    *)
(* the address of the device; addresses are given out in turn and are used *)
(* again after the last one.  The device node, the interfaces, their       *)
(* drivers and ttys, and the udev record of a device appear some time      *)
(* after the device, and everything of it vanishes when it is unplugged.   *)
(***************************************************************************)
EXTENDS Naturals, Sequences, FiniteSets

CONSTANTS
    Ports,          \* where a device can be plugged in
    Models,         \* what can be plugged in: [vid, pid, rev, serial]
    Interfaces,     \* interface numbers
    Drivers,        \* drivers an interface can be bound to
    NoDriver,       \* an interface that is bound to no driver
    WholeDevice,    \* second half of the sysfs path of a device
    MaxPlugs,       \* bound on the number of devices plugged in over time
    MaxAddress      \* number of addresses

ASSUME PlugsAssumption == MaxPlugs \in Nat
ASSUME AddressAssumption == MaxAddress \in Nat \ {0}
ASSUME WholeDeviceAssumption == WholeDevice \notin Interfaces
ASSUME NoDriverAssumption == NoDriver \notin Drivers

VARIABLES
    at,             \* at[p]: the instance at port p, 0 for none
    identity,       \* identity[n]: the model of instance n
    nodes,          \* instances with a device node
    initialized,    \* instances that udev has processed
    ifaces,         \* interfaces in sysfs: <<port, interface number>>
    driver,         \* driver[i]: the driver of interface i
    ttys            \* interfaces with a tty

busVars == <<at, identity, nodes, initialized, ifaces, driver, ttys>>

InterfacePaths == Ports \X Interfaces
DevicePath(p) == <<p, WholeDevice>>
SysPaths == InterfacePaths \cup {DevicePath(p) : p \in Ports}

Instances == 1..Len(identity)
Connected == {at[p] : p \in Ports} \ {0}
Address(n) == ((n - 1) % MaxAddress) + 1

\* The paths of the subsystem "usb" that exist in sysfs.
Present == ifaces \cup {DevicePath(p) : p \in {q \in Ports : at[q] # 0}}

BusTypeOK ==
    /\ identity \in Seq(Models) /\ Len(identity) <= MaxPlugs
    /\ at \in [Ports -> 0..MaxPlugs]
    /\ nodes \subseteq Instances
    /\ initialized \subseteq nodes
    /\ ifaces \subseteq InterfacePaths
    /\ driver \in [InterfacePaths -> Drivers \cup {NoDriver}]
    /\ ttys \subseteq ifaces

BusInit ==
    /\ at = [p \in Ports |-> 0]
    /\ identity = <<>>
    /\ nodes = {}
    /\ initialized = {}
    /\ ifaces = {}
    /\ driver = [i \in InterfacePaths |-> NoDriver]
    /\ ttys = {}

Plug(p, m) ==
    /\ at[p] = 0
    /\ Len(identity) < MaxPlugs
    /\ Address(Len(identity) + 1) \notin {Address(n) : n \in Connected}
    /\ identity' = Append(identity, m)
    /\ at' = [at EXCEPT ![p] = Len(identity) + 1]
    /\ UNCHANGED <<nodes, initialized, ifaces, driver, ttys>>

NodeAppears(p) ==
    /\ at[p] # 0
    /\ at[p] \notin nodes
    /\ nodes' = nodes \cup {at[p]}
    /\ UNCHANGED <<at, identity, initialized, ifaces, driver, ttys>>

UdevInitializes(p) ==
    /\ at[p] \in nodes \ initialized
    /\ initialized' = initialized \cup {at[p]}
    /\ UNCHANGED <<at, identity, nodes, ifaces, driver, ttys>>

InterfaceAppears(i) ==
    /\ at[i[1]] # 0
    /\ i \notin ifaces
    /\ ifaces' = ifaces \cup {i}
    /\ UNCHANGED <<at, identity, nodes, initialized, driver, ttys>>

DriverBinds(i, d) ==
    /\ i \in ifaces
    /\ driver[i] = NoDriver
    /\ driver' = [driver EXCEPT ![i] = d]
    /\ UNCHANGED <<at, identity, nodes, initialized, ifaces, ttys>>

\* The driver of a serial port gives its interface a tty.
TtyAppears(i) ==
    /\ i \in ifaces \ ttys
    /\ driver[i] \notin {NoDriver, "usbfs"}
    /\ ttys' = ttys \cup {i}
    /\ UNCHANGED <<at, identity, nodes, initialized, ifaces, driver>>

\* What is left of sysfs without the interfaces of the set I.
Removes(I) ==
    /\ ifaces' = ifaces \ I
    /\ driver' = [i \in InterfacePaths |-> IF i \in I THEN NoDriver ELSE driver[i]]
    /\ ttys' = ttys \ I

\* An interface vanishes: the device changes its configuration, or the kernel
\* has started to take the device away.
InterfaceVanishes(i) ==
    /\ i \in ifaces
    /\ Removes({i})
    /\ UNCHANGED <<at, identity, nodes, initialized>>

Unplug(p) ==
    /\ at[p] # 0
    /\ at' = [at EXCEPT ![p] = 0]
    /\ nodes' = nodes \ {at[p]}
    /\ initialized' = initialized \ {at[p]}
    /\ Removes({p} \X Interfaces)
    /\ UNCHANGED identity

BusNext ==
    \/ \E p \in Ports :
        \/ \E m \in Models : Plug(p, m)
        \/ NodeAppears(p)
        \/ UdevInitializes(p)
        \/ Unplug(p)
    \/ \E i \in InterfacePaths :
        \/ InterfaceAppears(i)
        \/ \E d \in Drivers : DriverBinds(i, d)
        \/ TtyAppears(i)
        \/ InterfaceVanishes(i)

-----------------------------------------------------------------------------
(***************************************************************************)
(* The inductive invariant of the bus: an instance is at one port at most, *)
(* has the address of no other one that is plugged in, and what sysfs and  *)
(* /dev have belongs to something plugged in.                              *)
(***************************************************************************)
BusInv ==
    /\ BusTypeOK
    /\ \A p \in Ports : at[p] \in 0..Len(identity)
    /\ \A p, q \in Ports : at[p] # 0 /\ at[p] = at[q] => p = q
    /\ \A m, n \in Connected : Address(m) = Address(n) => m = n
    /\ nodes \subseteq Connected
    /\ \A i \in ifaces : at[i[1]] # 0
=============================================================================
