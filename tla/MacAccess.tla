------------------------------ MODULE MacAccess ------------------------------
(***************************************************************************)
(* From the list of devices to an open handle, on macOS: device lists,     *)
(* generic interfaces, serial ports and the opening of a generic handle,   *)
(* while devices come and go in the I/O registry.                          *)
(*                                                                         *)
(* UsbBus is read as follows: "nodes" are the devices in the registry, and *)
(* "ifaces" their interfaces, which stay until the device is unplugged;    *)
(* "ttys" are the interfaces with an IOSerialBSDClient below their driver. *)
(* An entry of the registry has an id that is never used again: here the   *)
(* instance of the device, and <<instance, number>> for an interface.  A   *)
(* device that is not composite has no interfaces before it is configured. *)
(*                                                                         *)
(* held counts the objects in memory, the references to services and       *)
(* iterators, and the exclusive accesses that exist.                       *)
(***************************************************************************)
EXTENDS UsbBus, Integers

CONSTANTS
    Calls,         \* the calls the user makes
    NULL,          \* the null pointer
    MaxOoms,       \* bound on the number of allocations that fail
    Personality    \* Personality[i]: the driver that matches interface i

ASSUME OomsAssumption == MaxOoms \in Nat
ASSUME InterfacesAssumption == Interfaces \subseteq Nat
ASSUME PersonalityAssumption == Personality \in [Interfaces -> Drivers]
ASSUME AcmAssumption == NoDriver # "AppleUSBACMControl"

VARIABLES
    configured,    \* instances in configuration 1
    frame,         \* the call in progress
    user,          \* the objects of the user
    held,          \* held[k]: resources of kind k that exist
    ooms,          \* allocations that may still fail
    result,        \* what the last call returned
    watch          \* history of the bus during the call

vars == <<busVars, configured, frame, user, held, ooms, result, watch>>

-----------------------------------------------------------------------------
(* The registry                                                            *)

Registered == nodes \cap Connected
PortOf(n) == CHOOSE p \in Ports : at[p] = n

\* The numbers of the interfaces of instance n, of those with a driver, and of those
\* with a serial port.
InterfacesOf(n) == IF n \in Registered THEN {i \in Interfaces : <<PortOf(n), i>> \in ifaces} ELSE {}
DriverOf(n, i) == driver[<<PortOf(n), i>>]
SerialOf(n) == {i \in InterfacesOf(n) : <<PortOf(n), i>> \in ttys}

IsComposite(n) == identity[n].composite

\* A serial port belongs to an interface of its own, or to the ACM control interface
\* before the ACM data interface that has the port.
FunctionOf(n, i) ==
    IF DriverOf(n, i) = "AppleUSBACMData" /\ i > 0 /\ Personality[i - 1] = "AppleUSBACMControl"
    THEN i - 1 ELSE i

-----------------------------------------------------------------------------
(* Objects, calls and returns                                              *)

\* struct libusbp_device; its id is that of the registry.
DeviceFields(n) ==
    [id |-> n, vid |-> identity[n].vid, pid |-> identity[n].pid, rev |-> identity[n].rev,
     serial |-> identity[n].serial]

IdleFrame ==
    [pc |-> "idle", call |-> "none", want |-> NULL, composite |-> FALSE, todo |-> {},
     service |-> 0, found |-> -1, control |-> -1, data |-> -1]

NoResult == [call |-> "none", want |-> NULL, error |-> "none"]
NoWatch == [changed |-> FALSE, ready |-> FALSE, nomem |-> FALSE]

Kinds == {"device", "interface", "port", "handle", "device_service", "interface_service",
          "iterator", "plug_in", "ioh", "exclusive"}

Device == [id : 1..MaxPlugs, vid : {m.vid : m \in Models}, pid : {m.pid : m \in Models},
           rev : {m.rev : m \in Models}, serial : {m.serial : m \in Models}]
Interface == [device : Device, device_id : 1..MaxPlugs, number : Interfaces,
              has_interface_id : BOOLEAN]
Port == [device : Device, inst : 1..MaxPlugs, number : Interfaces, at : Interfaces,
         name : Interfaces \cup {NULL}]
Handle == [device : Device, inst : 1..MaxPlugs, asked : Interfaces, number : Interfaces]

\* The null pointer points to no object.
ASSUME NullAssumption ==
    /\ NULL \notin Interfaces /\ NULL \notin Kinds
    /\ NULL \notin Device \cup Interface \cup Port \cup Handle

\* The entry that the call is about.
Target == IF frame.call = "open" THEN user.interface.device_id ELSE user.device.id
Number == IF frame.call = "open" THEN user.interface.number ELSE frame.want

\* What the call needs is in the registry.
Ready(call, want, composite) ==
    CASE call = "interface" -> ~composite \/ want \in InterfacesOf(user.device.id)
      [] call = "port" -> \E i \in SerialOf(user.device.id) : FunctionOf(user.device.id, i) = want
      [] call = "open" -> user.interface.number \in InterfacesOf(user.interface.device_id)
      [] OTHER -> FALSE

Enter(call, want, composite) ==
    /\ frame.pc = "idle"
    /\ call \in Calls
    /\ frame' = [IdleFrame EXCEPT !.pc = call, !.call = call, !.want = want,
                                  !.composite = composite]
    /\ result' = NoResult
    /\ watch' = [changed |-> FALSE, nomem |-> FALSE,
                 ready |-> Ready(call, want, composite)]
    /\ UNCHANGED <<busVars, configured, user, held, ooms>>

Returns(error) ==
    /\ frame' = IdleFrame
    /\ result' = [call |-> frame.call, want |-> frame.want, error |-> error]

Continue(f) == frame' = f /\ UNCHANGED result

Allocates == UNCHANGED <<ooms, watch>>

OutOfMemory ==
    /\ ooms > 0
    /\ ooms' = ooms - 1
    /\ watch' = [watch EXCEPT !.nomem = TRUE]

Acquire(S) == held' = [k \in Kinds |-> IF k \in S THEN held[k] + 1 ELSE held[k]]
Release(S) == held' = [k \in Kinds |-> IF k \in S THEN held[k] - 1 ELSE held[k]]

\* A call fails; its cleanup frees the resources freed.  error_create may find no memory.
Fail(error, freed) ==
    /\ Release(freed)
    /\ \/ Allocates /\ Returns(error)
       \/ OutOfMemory /\ Returns("memory")
    /\ UNCHANGED user

NoMemory(freed) ==
    /\ OutOfMemory
    /\ Release(freed)
    /\ Returns("memory")
    /\ UNCHANGED user

Proceed(f, acquired) ==
    /\ Allocates
    /\ Acquire(acquired)
    /\ Continue(f)
    /\ UNCHANGED user

\* A call succeeds: the new object belongs to the user.
Succeed(kind, object, freed) ==
    /\ Allocates
    /\ Release(freed)
    /\ user' = [user EXCEPT ![kind] = object]
    /\ Returns("none")

-----------------------------------------------------------------------------
(* list_mac.c, device_mac.c, list.c                                        *)

list_begin ==
    /\ frame.pc = "list"
    /\ \/ Proceed([frame EXCEPT !.pc = "each", !.todo = Registered], {"iterator"})
       \/ NoMemory({})

\* The properties of a device that is gone cannot be read: it is passed over, and so is
\* any for which there is no memory.
try_create_device(n) ==
    /\ frame.pc = "each"
    /\ n \in frame.todo
    /\ LET next == [frame EXCEPT !.todo = @ \ {n}]
       IN  \/ n \notin Registered /\ Proceed(next, {})
           \/ OutOfMemory /\ Continue(next) /\ UNCHANGED <<user, held>>
           \/ n \in Registered
              /\ Proceed([next EXCEPT !.pc = "append", !.found = n], {"device", "device_service"})

\* If the list cannot grow, its devices are freed, but not the one that was to be added.
device_list_append ==
    /\ frame.pc = "append"
    /\ \/ /\ Allocates
          /\ user' = [user EXCEPT !.list = Append(@, DeviceFields(frame.found))]
          /\ Release({"device_service"})
          /\ Continue([frame EXCEPT !.pc = "each", !.found = -1])
       \/ /\ OutOfMemory
          /\ user' = [user EXCEPT !.list = <<>>]
          /\ held' = [held EXCEPT !["device"] = @ - Len(user.list), !["iterator"] = @ - 1,
                                  !["device_service"] = @ - 1]
          /\ Returns("memory")

list_return ==
    /\ frame.pc = "each" /\ frame.todo = {}
    /\ Release({"iterator"})
    /\ Returns("none")
    /\ UNCHANGED <<user, ooms, watch>>

-----------------------------------------------------------------------------
(* generic_interface_mac.c                                                 *)

GenericInterface(has_interface_id) ==
    [device |-> user.device, device_id |-> user.device.id, number |-> frame.want,
     has_interface_id |-> has_interface_id]

\* A device that is not composite is only looked for when a handle is opened.
generic_interface_begin ==
    /\ frame.pc = "interface"
    /\ \/ NoMemory({})
       \/ frame.composite /\ Proceed([frame EXCEPT !.pc = "device_service"], {"interface"})
       \/ /\ ~frame.composite
          /\ Allocates
          /\ Acquire({"interface"})
          /\ user' = [user EXCEPT !.interface = GenericInterface(FALSE)]
          /\ Returns("none")

\* get_id: an entry that is gone may have lost its id.
generic_interface_return ==
    /\ frame.pc = "interface_id"
    /\ LET freed == {"device_service", "interface_service"}
       IN  \/ Number \notin InterfacesOf(frame.service) /\ Fail("other", freed \cup {"interface"})
           \/ Succeed("interface", GenericInterface(TRUE), freed)

-----------------------------------------------------------------------------
(* iokit_mac.c: the service of a device, and that of one of its interfaces *)

\* The object that the call is making
Object == IF frame.call = "open" THEN "handle" ELSE frame.call

AfterDevice == CASE frame.call = "interface" -> "children"
                 [] frame.call = "open" -> "configuration"
                 [] frame.call = "port" -> "entries"

\* Mutant: any device of the same kind will do.
entries_of_kind(n) ==
    {m \in Registered : identity[m].vid = identity[n].vid /\ identity[m].pid = identity[n].pid}

\* IORegistryEntryIDMatching
entries_with_id(n) == {m \in Registered : m = n}

\* service_get_from_id, for a device
service_get_from_id ==
    /\ frame.pc = "device_service"
    /\ \/ entries_with_id(Target) = {} /\ Fail("other", {Object})
       \/ \E n \in entries_with_id(Target) :
            Proceed([frame EXCEPT !.pc = AfterDevice, !.service = n], {"device_service"})

\* The iterator over the children of the device
get_child_iterator ==
    /\ frame.pc = "children"
    /\ \/ frame.service \notin Registered /\ Fail("other", {Object, "device_service"})
       \/ frame.service \in Registered
          /\ Proceed([frame EXCEPT !.pc = "candidate", !.todo = InterfacesOf(frame.service)], {"iterator"})

search_cleanup == {Object, "device_service", "iterator"}

\* Mutant: an interface with another number ends the search.
wrong_interface_ends(i) == [frame EXCEPT !.todo = {}]

wrong_interface(i) == [frame EXCEPT !.todo = @ \ {i}]

\* One turn of the loop of service_get_usb_interface.  In the call that opens a handle, the
\* device service is not needed any more once the interface is found.
get_usb_interface(i) ==
    /\ frame.pc = "candidate"
    /\ i \in frame.todo
    /\ \/ i \notin InterfacesOf(frame.service) /\ Fail("other", search_cleanup)
       \/ /\ i \in InterfacesOf(frame.service) /\ i # Number
          /\ Proceed(wrong_interface(i), {})
       \/ /\ i \in InterfacesOf(frame.service) /\ i = Number
          /\ Allocates
          /\ held' = [held EXCEPT !["iterator"] = @ - 1, !["interface_service"] = @ + 1,
                         !["device_service"] = IF frame.call = "open" THEN @ - 1 ELSE @]
          /\ Continue([frame EXCEPT !.todo = {}, !.found = i,
                         !.pc = IF frame.call = "open" THEN "plug_in" ELSE "interface_id"])
          /\ UNCHANGED user

interface_not_found ==
    /\ frame.pc = "candidate"
    /\ frame.todo = {}
    /\ Fail("not_ready", search_cleanup)

-----------------------------------------------------------------------------
(* generic_handle_mac.c                                                    *)

handle_begin ==
    /\ frame.pc = "open"
    /\ \/ NoMemory({})
       \/ ~user.interface.has_interface_id
          /\ Proceed([frame EXCEPT !.pc = "device_service"], {"handle"})
       \/ user.interface.has_interface_id
          /\ Proceed([frame EXCEPT !.pc = "interface_service", !.found = Number], {"handle"})

\* service_get_from_id, for an interface
interface_get_from_id ==
    /\ frame.pc = "interface_service"
    /\ LET found == {n \in entries_with_id(Target) : Number \in InterfacesOf(n)}
       IN  \/ found = {} /\ Fail("other", {"handle"})
           \/ \E n \in found :
                Proceed([frame EXCEPT !.pc = "plug_in", !.service = n], {"interface_service"})

\* set_configuration: a handle to the device; then, if the device says that it is configured,
\* that is all.  If it does not say anything it is taken to be not configured.
set_configuration ==
    /\ frame.pc = "configuration"
    /\ \/ frame.service \notin Registered /\ Fail("other", {"handle", "device_service"})
       \/ /\ frame.service \in Registered
          /\ frame.service \in configured \/ IsComposite(frame.service)
          /\ Proceed([frame EXCEPT !.pc = "children"], {})
       \/ frame.service \in Registered /\ Proceed([frame EXCEPT !.pc = "device_open"], {"plug_in", "ioh"})

\* USBDeviceOpen: another program may have the device.
device_open ==
    /\ frame.pc = "device_open"
    /\ \/ \E error \in {"access", "other"} :
          /\ error = "other" => frame.service \notin Registered
          /\ Fail(error, {"handle", "device_service", "plug_in", "ioh"})
       \/ frame.service \in Registered
          /\ Proceed([frame EXCEPT !.pc = "device_configure"], {"exclusive"})

\* Mutant: the device stays open.
configure_cleanup_without_close == {"plug_in", "ioh"}

configure_cleanup == {"plug_in", "ioh", "exclusive"}

\* SetConfiguration and the cleanup of set_configuration.  The device, if it is there, may
\* refuse.  The interfaces appear later; those of a device that was configured before stay.
device_configure ==
    /\ frame.pc = "device_configure"
    /\ \/ \E error \in {"refused", "other"} :
          /\ error = "other" <=> frame.service \notin Registered
          /\ Fail(error, configure_cleanup \cup {"handle", "device_service"})
          /\ UNCHANGED configured
       \/ /\ frame.service \in Registered
          /\ configured' = configured \cup {frame.service}
          /\ Allocates
          /\ Release(configure_cleanup)
          /\ Continue([frame EXCEPT !.pc = "children"])
          /\ UNCHANGED user

\* service_to_interface: the plug-in and the interface object
create_plug_in ==
    /\ frame.pc = "plug_in"
    /\ \/ Number \notin InterfacesOf(frame.service) /\ Fail("other", {"handle", "interface_service"})
       \/ Number \in InterfacesOf(frame.service)
          /\ Proceed([frame EXCEPT !.pc = "interface_open"], {"plug_in", "ioh"})

\* libusbp_generic_handle_close
handle_close == {"handle", "plug_in", "ioh"}

\* USBInterfaceOpen: another program may have the interface.
interface_open ==
    /\ frame.pc = "interface_open"
    /\ \/ \E error \in {"access", "other"} :
          /\ error = "other" => Number \notin InterfacesOf(frame.service)
          /\ Fail(error, handle_close \cup {"interface_service"})
       \/ Number \in InterfacesOf(frame.service)
          /\ Proceed([frame EXCEPT !.pc = "pipes"], {"exclusive"})

\* process_pipe_properties and CreateInterfaceAsyncPort
handle_return ==
    /\ frame.pc = "pipes"
    /\ \/ /\ Number \notin InterfacesOf(frame.service)
          /\ Fail("other", handle_close \cup {"interface_service", "exclusive"})
       \/ /\ Number \in InterfacesOf(frame.service)
          /\ Succeed("handle", [device |-> user.interface.device, inst |-> frame.service,
                                asked |-> Number, number |-> frame.found], {"interface_service"})

-----------------------------------------------------------------------------
(* serial_port_mac.c                                                       *)

port_begin ==
    /\ frame.pc = "port"
    /\ NoMemory({}) \/ Proceed([frame EXCEPT !.pc = "device_service"], {"port"})

\* The recursive iterator walks over the registry as it is.
entries_begin ==
    /\ frame.pc = "entries"
    /\ \/ frame.service \notin Registered /\ Fail("other", {"port", "device_service"})
       \/ frame.service \in Registered
          /\ Proceed([frame EXCEPT !.pc = "entry", !.todo = Interfaces], {"iterator"})

\* Mutant: any port belongs to the control interface before it.
fixed_interface_any(i, control, data) == IF control >= 0 THEN control ELSE i

\* The port of an ACM data interface belongs to the control interface before it.
fixed_interface(i, control, data) == IF data = i /\ control >= 0 THEN control ELSE i

search_port_cleanup == {"port", "device_service", "iterator"}

\* The iterator comes to interface i, then to its driver, and then to its serial port.
\* get_int32 fails for an interface that is gone after the iterator came to it.
port_entry(i) ==
    /\ frame.pc = "entry"
    /\ i \in frame.todo /\ \A j \in frame.todo : i <= j
    /\ LET next == [frame EXCEPT !.todo = @ \ {i}]
           control == IF DriverOf(frame.service, i) = "AppleUSBACMControl" THEN i ELSE frame.control
           data == IF DriverOf(frame.service, i) = "AppleUSBACMData" THEN i ELSE frame.data
       IN  IF i \notin InterfacesOf(frame.service)
           THEN Proceed(next, {}) \/ (watch.changed /\ Fail("other", search_port_cleanup))
           ELSE IF i \notin SerialOf(frame.service)
           THEN Proceed([next EXCEPT !.control = control, !.data = data], {})
           ELSE IF fixed_interface(i, control, data) # Number
           THEN Proceed([next EXCEPT !.control = -1, !.data = data], {})
           ELSE Proceed([next EXCEPT !.pc = "port_name", !.todo = {}, !.found = i],
                        {"interface_service"})

\* The iterator ends at the last entry, and at once when the registry has changed.
port_not_found ==
    /\ frame.pc = "entry"
    /\ frame.todo = {} \/ watch.changed
    /\ Fail("not_ready", search_port_cleanup)

\* get_string: if the property is not there any more, the name is NULL, and no error.
port_name ==
    /\ frame.pc = "port_name"
    /\ LET freed == {"device_service", "iterator", "interface_service"}
       IN  \/ NoMemory(freed \cup {"port"})
           \/ Succeed("port", [device |-> user.device, inst |-> frame.service,
                     number |-> frame.want, at |-> frame.found,
                     name |-> IF frame.found \in SerialOf(frame.service) THEN frame.found ELSE NULL],
                     freed)

-----------------------------------------------------------------------------
(* The user                                                                *)

Idle(call) ==
    /\ frame.pc = "idle"
    /\ result' = [NoResult EXCEPT !.call = call]
    /\ watch' = NoWatch
    /\ UNCHANGED <<busVars, configured, frame>>

list_free ==
    /\ Idle("none") /\ user.list # <<>>
    /\ \E d \in {NULL} \cup {user.list[k] : k \in DOMAIN user.list} :
        /\ user' = [user EXCEPT !.list = <<>>, !.device = d]
        /\ held' = [held EXCEPT !["device"] = @ - (Len(user.list) - IF d = NULL THEN 0 ELSE 1)]
    /\ UNCHANGED ooms

\* libusbp_device_free, libusbp_generic_interface_free and libusbp_serial_port_free
free_object(kind) ==
    /\ Idle("none") /\ user[kind] # NULL
    /\ user' = [user EXCEPT ![kind] = NULL]
    /\ Release({kind})
    /\ UNCHANGED ooms

\* libusbp_device_copy, libusbp_generic_interface_copy and libusbp_serial_port_copy; string_copy
\* asserts that there is a name, so a port without one must not be copied.
copy_object(kind) ==
    /\ "copy" \in Calls
    /\ Idle("copy") /\ user[kind] # NULL /\ user.copied = NULL
    /\ kind = "port" => user.port.name # NULL
    /\ user' = [user EXCEPT !.copied = kind]
    /\ Acquire({kind})
    /\ UNCHANGED ooms

copy_object_fails(kind) ==
    /\ "copy" \in Calls
    /\ frame.pc = "idle" /\ user[kind] # NULL /\ user.copied = NULL
    /\ OutOfMemory
    /\ result' = [NoResult EXCEPT !.call = "copy", !.error = "memory"]
    /\ UNCHANGED <<busVars, configured, frame, user, held>>

free_copy ==
    /\ Idle("none") /\ user.copied # NULL
    /\ user' = [user EXCEPT !.copied = NULL]
    /\ Release({user.copied})
    /\ UNCHANGED ooms

libusbp_generic_handle_close ==
    /\ Idle("none") /\ user.handle # NULL
    /\ user' = [user EXCEPT !.handle = NULL]
    /\ Release(handle_close \cup {"exclusive"})
    /\ UNCHANGED ooms

libusbp_list_connected_devices ==
    user.device = NULL /\ user.list = <<>> /\ Enter("list", NULL, FALSE)

libusbp_generic_interface_create(i, composite) ==
    user.device # NULL /\ user.interface = NULL /\ Enter("interface", i, composite)

libusbp_serial_port_create(i) ==
    user.device # NULL /\ user.port = NULL /\ Enter("port", i, FALSE)

libusbp_generic_handle_open ==
    user.interface # NULL /\ user.handle = NULL /\ Enter("open", NULL, FALSE)

-----------------------------------------------------------------------------
(* The bus.  What is remembered of a call is forgotten with the first      *)
(* event after it.                                                         *)

\* An interface appears when its device is configured, has the driver that matches it, and
\* the port of an ACM data interface needs the driver of the control interface.
RegistryInOrder ==
    /\ initialized = {}
    /\ \A i \in ifaces :
        /\ at[i[1]] \in nodes
        /\ IsComposite(at[i[1]]) \/ at[i[1]] \in configured
        /\ driver[i] \in {NoDriver, Personality[i[2]]}
    /\ \A i \in ttys :
        /\ driver[i] # "AppleUSBACMControl"
        /\ driver[i] = "AppleUSBACMData" =>
            \E j \in ifaces : j[1] = i[1] /\ j[2] = i[2] - 1 /\ driver[j] = "AppleUSBACMControl"

BusStep ==
    /\ BusNext
    /\ UNCHANGED <<configured, frame, user, held, ooms>>
    /\ RegistryInOrder'
    /\ \A i \in ifaces \ ifaces' : at'[i[1]] # at[i[1]]
    /\ IF frame.pc = "idle"
       THEN result' = NoResult /\ watch' = NoWatch
       ELSE /\ watch' = [watch EXCEPT !.changed = TRUE,
                            !.ready = @ /\ Ready(frame.call, frame.want, frame.composite)']
            /\ UNCHANGED result

Init ==
    /\ BusInit
    /\ configured = {}
    /\ frame = IdleFrame
    /\ user = [list |-> <<>>, device |-> NULL, interface |-> NULL, port |-> NULL, handle |-> NULL,
               copied |-> NULL]
    /\ held = [k \in Kinds |-> 0]
    /\ ooms = MaxOoms
    /\ result = NoResult
    /\ watch = NoWatch

CallStep ==
    /\ UNCHANGED busVars
    /\ \/ device_configure
       \/ /\ UNCHANGED configured
          /\ \/ list_begin
             \/ \E n \in frame.todo : try_create_device(n)
             \/ device_list_append
             \/ list_return
             \/ generic_interface_begin
             \/ generic_interface_return
             \/ service_get_from_id
             \/ get_child_iterator
             \/ \E i \in frame.todo : get_usb_interface(i)
             \/ interface_not_found
             \/ handle_begin
             \/ interface_get_from_id
             \/ set_configuration
             \/ device_open
             \/ create_plug_in
             \/ interface_open
             \/ handle_return
             \/ port_begin
             \/ entries_begin
             \/ \E i \in frame.todo : port_entry(i)
             \/ port_not_found
             \/ port_name

UserStep ==
    \/ libusbp_list_connected_devices
    \/ \E i \in Interfaces :
        \/ \E composite \in BOOLEAN : libusbp_generic_interface_create(i, composite)
        \/ libusbp_serial_port_create(i)
    \/ libusbp_generic_handle_open
    \/ list_free
    \/ \E kind \in {"device", "interface", "port"} :
        free_object(kind) \/ copy_object(kind) \/ copy_object_fails(kind)
    \/ free_copy
    \/ libusbp_generic_handle_close

Next == CallStep \/ UserStep \/ BusStep

Spec == Init /\ [][Next]_vars

-----------------------------------------------------------------------------
(* Properties                                                              *)

\* The resources that the objects of the user account for.
One(b) == IF b THEN 1 ELSE 0

Owned(k) ==
    CASE k = "device" -> Len(user.list) + One(user.device # NULL) + One(user.copied = k)
      [] k \in {"interface", "port"} -> One(user[k] # NULL) + One(user.copied = k)
      [] k \in {"handle", "plug_in", "ioh", "exclusive"} -> One(user.handle # NULL)
      [] OTHER -> 0

\* Between calls every object, service, iterator and plug-in belongs to an object of the
\* user, and no device or interface stays open for exclusive access: the cleanups of
\* iokit_mac.c, serial_port_mac.c and generic_handle_mac.c release exactly what was got before
\* the failure, wherever it is.  Only an allocation that fails may leave something behind.
NothingLeaks ==
    frame.pc = "idle" =>
        \A k \in Kinds : /\ held[k] >= Owned(k)
                         /\ ooms = MaxOoms => held[k] = Owned(k)

\* A handle or a serial port is never one of another device than the one that was listed, and
\* a handle never one to another interface, even if a device of the same kind takes its place
\* at any moment: ids of the registry are not used again (service_get_from_id).
OpensListedDevice ==
    /\ user.handle # NULL =>
        /\ user.handle.inst = user.handle.device.id
        /\ user.handle.number = user.handle.asked
    /\ user.port # NULL => user.port.inst = user.port.device.id

\* The serial port that is found for an interface is the one of its function, whichever of the
\* drivers and ports of the functions of the device are there yet: a port is never attributed
\* to the control interface of another function (libusbp_serial_port_create).  This needs a
\* registry that does not change while the iterator walks over it.
SerialPortIsRight ==
    result.call = "port" /\ result.error = "none" /\ ~watch.changed =>
        user.port.number = FunctionOf(user.device.id, user.port.at)

\* What is in the registry during the whole call is found, if memory lasts, no other program
\* has it open and the device does not refuse to be configured; a serial port also needs a
\* registry that does not change.
ReadyIsFound ==
    result.call \in {"interface", "port", "open"} /\ watch.ready /\ ~watch.nomem =>
        \/ result.error = "none"
        \/ result.call = "open" /\ result.error \in {"access", "refused"}
        \/ result.call = "port" /\ watch.changed

-----------------------------------------------------------------------------
(***************************************************************************)
(* The inductive invariant, in named parts.  First the registry.           *)
(***************************************************************************)
RegistryInv == BusInv /\ RegistryInOrder

\* Where a call has the service of its target.
AtService == {"configuration", "device_open", "device_configure", "children", "candidate",
              "interface_id", "plug_in", "interface_open", "pipes", "entries", "entry",
              "port_name"}

(***************************************************************************)
(* The local variables of the calls, at each place.                        *)
(***************************************************************************)
FrameInv ==
    /\ frame = [pc |-> frame.pc, call |-> frame.call, want |-> frame.want,
                composite |-> frame.composite, todo |-> frame.todo, service |-> frame.service,
                found |-> frame.found, control |-> frame.control, data |-> frame.data]
    /\ \/ frame = IdleFrame
       \/ /\ frame.call = "list" /\ user.device = NULL
          /\ frame.pc \in {"list", "each", "append"}
       \/ /\ frame.call = "interface" /\ user.device # NULL /\ user.interface = NULL
          /\ frame.pc \in {"interface", "device_service", "children", "candidate", "interface_id"}
          /\ frame.pc # "interface" => frame.composite
          /\ frame.want \in Interfaces
       \/ /\ frame.call = "port" /\ user.device # NULL /\ user.port = NULL
          /\ frame.pc \in {"port", "device_service", "entries", "entry", "port_name"}
          /\ frame.want \in Interfaces
       \/ /\ frame.call = "open" /\ user.interface # NULL /\ user.handle = NULL
          /\ frame.pc \in {"open", "interface_service", "device_service", "configuration",
                           "device_open", "device_configure", "children", "candidate",
                           "plug_in", "interface_open", "pipes"}
    /\ frame.pc # "idle" => result = NoResult
    /\ frame.pc = "list" => user.list = <<>>
    /\ frame.pc = "append" => frame.found \in Instances
    /\ frame.pc \in AtService => frame.service = Target
    /\ frame.pc \in {"interface_service", "plug_in", "interface_open", "pipes"} =>
            frame.found = Number
    /\ frame.pc = "port_name" => frame.found \in Interfaces
    /\ user.list # <<>> => user.device = NULL

(***************************************************************************)
(* The resources that the call in progress holds, at each place.           *)
(***************************************************************************)
InUse ==
    CASE frame.pc = "each" -> {"iterator"}
      [] frame.pc = "append" -> {"iterator", "device", "device_service"}
      [] frame.pc \in {"device_service", "interface_service"} -> {Object}
      [] frame.pc \in {"configuration", "children", "entries"} -> {Object, "device_service"}
      [] frame.pc = "device_open" -> {"handle", "device_service", "plug_in", "ioh"}
      [] frame.pc = "device_configure" ->
             {"handle", "device_service", "plug_in", "ioh", "exclusive"}
      [] frame.pc \in {"candidate", "entry"} -> {Object, "device_service", "iterator"}
      [] frame.pc = "interface_id" -> {"interface", "device_service", "interface_service"}
      [] frame.pc = "plug_in" -> {"handle", "interface_service"}
      [] frame.pc = "interface_open" -> {"handle", "interface_service", "plug_in", "ioh"}
      [] frame.pc = "pipes" -> {"handle", "interface_service", "plug_in", "ioh", "exclusive"}
      [] frame.pc = "port_name" -> {"port", "device_service", "iterator", "interface_service"}
      [] OTHER -> {}

CountInv ==
    /\ held \in [Kinds -> Nat]
    /\ ooms \in 0..MaxOoms
    /\ \A k \in Kinds :
        /\ held[k] >= Owned(k) + One(k \in InUse)
        /\ ooms = MaxOoms => held[k] = Owned(k) + One(k \in InUse)

(***************************************************************************)
(* The objects of the user name instances that have been plugged in.       *)
(***************************************************************************)
ObjectInv ==
    /\ user \in [list : Seq(Device), device : Device \cup {NULL},
                 interface : Interface \cup {NULL}, port : Port \cup {NULL},
                 handle : Handle \cup {NULL},
                 copied : {"device", "interface", "port", NULL}]
    /\ \A k \in DOMAIN user.list : user.list[k].id \in Instances
    /\ user.device # NULL => user.device.id \in Instances
    /\ user.interface # NULL =>
        /\ user.interface.device_id \in Instances
        /\ user.interface.device_id = user.interface.device.id
    /\ OpensListedDevice

\* What is remembered of a call has the fields of NoWatch.
WatchInv ==
    watch = [changed |-> watch.changed, ready |-> watch.ready, nomem |-> watch.nomem]

(***************************************************************************)
(* The walk over the registry goes upwards, has not met the interface that *)
(* is next, and knows the control interface right before it.               *)
(***************************************************************************)
WalkInv ==
    /\ frame.pc \notin {"entry", "port_name"} => frame.data = -1
    /\ frame.pc = "entry" =>
        /\ frame.todo \subseteq Interfaces
        /\ \A i \in frame.todo, j \in Interfaces : i <= j => j \in frame.todo
        /\ frame.data \notin frame.todo
        /\ ~watch.changed => \A i \in frame.todo :
            i - 1 \in InterfacesOf(frame.service) \ frame.todo
            /\ DriverOf(frame.service, i - 1) = "AppleUSBACMControl" => frame.control = i - 1
    /\ frame.pc = "port_name" /\ ~watch.changed =>
            FunctionOf(frame.service, frame.found) = Number

(***************************************************************************)
(* What has been there since the call began is still there, and ahead of   *)
(* the iterators.                                                          *)
(***************************************************************************)
ReadyInv ==
    frame.call \in {"interface", "port", "open"} /\ watch.ready =>
        /\ Ready(frame.call, frame.want, frame.composite)
        /\ frame.pc = "candidate" =>
            Number \in frame.todo /\ frame.todo \subseteq InterfacesOf(frame.service)
        /\ frame.pc = "entry" /\ ~watch.changed =>
            \E i \in frame.todo \cap SerialOf(frame.service) :
                FunctionOf(frame.service, i) = Number

MacInv ==
    /\ RegistryInv
    /\ FrameInv
    /\ CountInv
    /\ ObjectInv
    /\ WatchInv
    /\ WalkInv
    /\ ReadyInv
=============================================================================
