---------------------------- MODULE WindowsAccess ----------------------------
(***************************************************************************)
(* From the list of devices to an open handle, on Windows: device lists,   *)
(* generic interfaces, serial ports and the opening of a generic handle,   *)
(* while devices come and go.                                              *)
(*                                                                         *)
(* Windows keeps a device node for each device and for each interface of a *)
(* composite device.  UsbBus is read as follows: "nodes" are the devices   *)
(* that are registered with GUID_DEVINTERFACE_USB_DEVICE, "driver" is the  *)
(* Service of a device node, and "ttys" are the nodes whose driver has     *)
(* registered its own device interface: a COM port, a modem or a WinUSB    *)
(* file.  "initialized" is not used.                                       *)
(*                                                                         *)
(* A HDEVINFO is a snapshot.  The questions put to one node in a row are   *)
(* one step.  Any allocation can fail; a function that only allocates and  *)
(* fills strings is all or nothing.  libusbp_find_device_with_vid_pid is   *)
(* the same on all systems (DeviceAccess).                                 *)
(***************************************************************************)
EXTENDS UsbBus

CONSTANTS
    Calls,        \* the calls the user makes
    NULL,         \* the null pointer
    MaxOoms       \* bound on the number of allocations that fail

ASSUME OomsAssumption == MaxOoms \in Nat

VARIABLES
    frame,        \* the call in progress
    user,         \* the objects of the user
    held,         \* held[k]: resources of kind k that exist
    ooms,         \* allocations that may still fail
    result,       \* what the last call returned
    watch         \* history of the bus during the call

vars == <<busVars, frame, user, held, ooms, result, watch>>

-----------------------------------------------------------------------------
(* Device nodes.  An instance id has the serial number of the device, or   *)
(* its port if it has none, and not its revision.                          *)

Located == {p \in Ports : at[p] # 0}

DeviceInstanceId(p) ==
    LET m == identity[at[p]]
    IN  <<m.vid, m.pid, IF m.serial = NULL THEN p ELSE m.serial>>

PortsOf(id) == {p \in Located : DeviceInstanceId(p) = id}

\* The composite device at port p has a node for each of its interfaces.
Parts(p) ==
    {WholeDevice} \cup {i \in Interfaces : <<p, i>> \in ifaces /\ identity[at[p]].composite}

DevNodes == UNION {{<<DeviceInstanceId(p), part>> : part \in Parts(p)} : p \in Located}

\* Where UsbBus has the driver of a node.
Entry(node) ==
    <<CHOOSE p \in PortsOf(node[1]) : TRUE, IF node[2] = WholeDevice THEN 0 ELSE node[2]>>

\* The composite device itself has the driver "usbccgp".
Service(node) ==
    IF node[2] = WholeDevice /\ identity[at[Entry(node)[1]]].composite THEN "usbccgp"
    ELSE driver[Entry(node)]

Registered(node) == node \in DevNodes /\ Service(node) # "usbccgp" /\ Entry(node) \in ttys

HasWinUsbFile(node) == Registered(node) /\ Service(node) = "winusb"
HasPortName(node) == Registered(node) /\ Service(node) # "winusb"

UsbDevices == {<<DeviceInstanceId(p), WholeDevice>> : p \in {q \in Located : at[q] \in nodes}}

\* The lists that get_interface_composite goes through, in this order.
ClassDevs(list_index) ==
    CASE list_index = 0 -> {n \in DevNodes : Service(n) # "ftdi"}
      [] list_index = 1 -> {n \in DevNodes : HasPortName(n) /\ Service(n) # "modem"}
      [] list_index = 2 -> {n \in DevNodes : HasPortName(n) /\ Service(n) = "modem"}

-----------------------------------------------------------------------------
(* Objects, calls and returns                                              *)

\* struct libusbp_device; inst is history: the instance it was made from.
DeviceFields(id, m, n) ==
    [id |-> id, vid |-> m.vid, pid |-> m.pid, rev |-> m.rev, inst |-> n]

IdleFrame ==
    [pc |-> "idle", call |-> "none", want |-> NULL, composite |-> FALSE, first |-> "none",
     list_index |-> 0, todo |-> {}, node |-> NULL, inst |-> 0]

NoResult == [call |-> "none", want |-> NULL, error |-> "none"]
NoWatch == [stable |-> {}, vanished |-> FALSE, ready |-> FALSE, nomem |-> FALSE]

Kinds == {"device", "interface", "port", "handle", "list", "inner", "key", "file"}

Ids == {m.vid : m \in Models} \X {m.pid : m \in Models}
           \X ({m.serial : m \in Models} \cup Ports)
Device == [id : Ids, vid : {m.vid : m \in Models}, pid : {m.pid : m \in Models},
           rev : {m.rev : m \in Models}, inst : 1..MaxPlugs]
Object == [device : Device, node : Ids \X (Interfaces \cup {WholeDevice})]
Handle == [device : Device, inst : 1..MaxPlugs]

\* The null pointer points to no object.
ASSUME NullAssumption ==
    /\ NULL \notin Interfaces /\ NULL \notin Kinds
    /\ NULL \notin Device /\ NULL \notin Object /\ NULL \notin Handle

\* The second attempt of libusbp_serial_port_create is for interface 0 of a
\* composite device.
Again == frame.first # "none"
Composite == frame.composite \/ Again
interface_number == IF Again THEN 0 ELSE frame.want

\* An interface that nothing needs to be waited for.
Ready(call, want, composite) ==
    /\ call \in {"interface", "port"}
    /\ LET id == user.device.id
           whole == <<id, WholeDevice>>
           good(n) == IF call = "interface" THEN HasWinUsbFile(n) ELSE HasPortName(n)
       IN  IF composite THEN good(<<id, want>>)
           ELSE \/ good(whole) /\ whole \in UsbDevices
                \/ call = "port" /\ good(<<id, 0>>)

Enter(call, want, composite) ==
    /\ frame.pc = "idle"
    /\ call \in Calls
    /\ frame' = [IdleFrame EXCEPT !.pc = call, !.call = call, !.want = want,
                                  !.composite = composite]
    /\ result' = NoResult
    /\ watch' = [stable   |-> {<<p, at[p]>> : p \in {q \in Located : at[q] \in nodes}},
                 vanished |-> FALSE,
                 ready    |-> Ready(call, want, composite),
                 nomem    |-> FALSE]
    /\ UNCHANGED <<busVars, user, held, ooms>>

Returns(error) ==
    /\ frame' = IdleFrame
    /\ result' = [call |-> frame.call, want |-> frame.want, error |-> error]

Continue(f) == frame' = f /\ UNCHANGED result

Allocates == UNCHANGED <<ooms, watch>>

OutOfMemory ==
    /\ ooms > 0
    /\ ooms' = ooms - 1
    /\ watch' = [watch EXCEPT !.nomem = TRUE]

Acquire(S) == held' = [k \in Kinds |-> IF k \in S THEN held[k] + 1 ELSE held[k]]
Release(S) == held' = [k \in Kinds |-> IF k \in S THEN held[k] - 1 ELSE held[k]]

\* The end of libusbp_serial_port_create: a non-composite device gets a second
\* attempt, and if that fails too the first error is returned.
attempt_ends(error) ==
    IF frame.call = "port" /\ ~Composite
    THEN Continue([IdleFrame EXCEPT !.pc = "port", !.call = "port", !.want = frame.want,
                                    !.first = error])
    ELSE Returns(IF Again THEN frame.first ELSE error)

\* A call, or its first attempt, fails; its cleanup frees the resources freed.
\* error_create may find no memory.
Fail(error, freed) ==
    /\ Release(freed)
    /\ \/ Allocates /\ attempt_ends(error)
       \/ OutOfMemory /\ attempt_ends("memory")
    /\ UNCHANGED user

NoMemory(freed) ==
    /\ OutOfMemory
    /\ Release(freed)
    /\ attempt_ends("memory")
    /\ UNCHANGED user

Proceed(f) ==
    /\ Allocates
    /\ Continue(f)
    /\ UNCHANGED <<user, held>>

-----------------------------------------------------------------------------
(* list_windows.c, device_windows.c, list.c                                *)

list_begin ==
    /\ frame.pc = "list"
    /\ \/ /\ Allocates
          /\ Acquire({"list"})
          /\ Continue([frame EXCEPT !.pc = "each", !.todo = UsbDevices])
       \/ /\ OutOfMemory
          /\ Returns("memory")
          /\ UNCHANGED held
    /\ UNCHANGED user

\* Mutant: a device that vanished ends the list.
passed_over_ends(node) == IF node \in DevNodes THEN frame ELSE [frame EXCEPT !.todo = {}]

passed_over(node) == [frame EXCEPT !.todo = @ \ {node}]

\* A device that is gone is passed over, and so is any for which there is no memory.
try_create_device(node) ==
    /\ frame.pc = "each"
    /\ node \in frame.todo
    /\ LET next == passed_over(node)
       IN  \/ node \notin DevNodes /\ Proceed(next)
           \/ OutOfMemory /\ Continue(next) /\ UNCHANGED <<user, held>>
           \/ /\ node \in DevNodes
              /\ Allocates
              /\ Acquire({"device"})
              /\ Continue([next EXCEPT !.pc = "append", !.node = node,
                                       !.inst = at[Entry(node)[1]]])
              /\ UNCHANGED user

\* If the list cannot grow, its devices are freed, but not the one that was to be added.
device_list_append ==
    /\ frame.pc = "append"
    /\ \/ /\ Allocates
          /\ user' = [user EXCEPT !.list =
                 Append(@, DeviceFields(frame.node[1], identity[frame.inst], frame.inst))]
          /\ Continue([frame EXCEPT !.pc = "each", !.node = NULL, !.inst = 0])
          /\ UNCHANGED held
       \/ /\ OutOfMemory
          /\ user' = [user EXCEPT !.list = <<>>]
          /\ held' = [held EXCEPT !["device"] = @ - Len(user.list), !["list"] = @ - 1]
          /\ Returns("memory")

Matches(d, m) == d.vid = m.vid /\ d.pid = m.pid

list_return ==
    /\ frame.pc = "each" /\ frame.todo = {}
    /\ Release({"list"})
    /\ Returns("none")
    /\ UNCHANGED <<user, ooms, watch>>

-----------------------------------------------------------------------------
(* interface_windows.c                                                     *)

device_instance_id == user.device.id

\* generic_interface_create and serial_port_create: the object and the id of the
\* device.  If there is no memory for the id, the pointer that is freed is NULL.
create_begin ==
    /\ frame.pc \in {"interface", "port"}
    /\ \/ /\ Allocates
          /\ Acquire({frame.call})
          /\ Continue([frame EXCEPT !.pc = IF Composite THEN "locate" ELSE "usb_devices"])
          /\ UNCHANGED user
       \/ NoMemory({})

\* get_interface_non_composite: the node has to be in the list of USB devices.
get_interface_non_composite ==
    /\ frame.pc = "usb_devices"
    /\ \/ NoMemory({frame.call})
       \/ /\ <<device_instance_id, WholeDevice>> \notin UsbDevices
          /\ Fail("other", {frame.call})
       \/ /\ <<device_instance_id, WholeDevice>> \in UsbDevices
          /\ Acquire({"list"})
          /\ Allocates
          /\ Continue([frame EXCEPT !.pc = "id_string",
                                    !.node = <<device_instance_id, WholeDevice>>])
          /\ UNCHANGED user

\* CM_Locate_DevNode
locate_devnode ==
    /\ frame.pc = "locate"
    /\ \/ PortsOf(device_instance_id) = {} /\ Fail("other", {frame.call})
       \/ PortsOf(device_instance_id) # {} /\ Proceed([frame EXCEPT !.pc = "next_list"])

\* Mutant: only the first list is looked at.
list_count_one == 1

list_count == 3

next_list ==
    /\ frame.pc = "next_list"
    /\ \/ frame.list_index = list_count /\ Fail("not_ready", {frame.call})
       \/ /\ frame.list_index < list_count
          /\ \/ NoMemory({frame.call})
             \/ /\ Allocates
                /\ Acquire({"list"})
                /\ Continue([frame EXCEPT !.pc = "entry",
                                          !.todo = ClassDevs(frame.list_index)])
                /\ UNCHANGED user

\* Mutant: only the number of an interface is compared, not its parent.
is_wanted_by_number(node) == node[2] = interface_number

\* CM_Get_Parent and the number in the instance id
is_wanted(node) == node[1] = device_instance_id /\ node[2] = interface_number

\* Mutants: the list is not destroyed when an entry is gone; the search ends, but
\* without its error.
entry_gone_means_not_found == Fail("not_ready", {frame.call, "list"})
entry_gone_keeps_list == Fail("other", {frame.call})

entry_gone == Fail("other", {frame.call, "list"})

\* One turn of the loop of get_interface_composite
get_interface_composite(node) ==
    /\ frame.pc = "entry"
    /\ node \in frame.todo
    /\ \/ node \notin DevNodes /\ entry_gone
       \/ /\ node \in DevNodes
          /\ ~is_wanted(node)
          /\ Proceed([frame EXCEPT !.todo = @ \ {node}])
       \/ /\ node \in DevNodes
          /\ is_wanted(node)
          /\ Proceed([frame EXCEPT !.pc = "id_string", !.todo = {}, !.node = node])

list_done ==
    /\ frame.pc = "entry"
    /\ frame.todo = {}
    /\ Allocates
    /\ Release({"list"})
    /\ Continue([frame EXCEPT !.pc = "next_list", !.list_index = @ + 1])
    /\ UNCHANGED user

\* The instance id of the node, from the snapshot
create_id_string ==
    /\ frame.pc = "id_string"
    /\ \/ NoMemory({frame.call, "list"})
       \/ Proceed([frame EXCEPT !.pc = IF frame.call = "port" THEN "port_name" ELSE "service"])

\* get_filename_from_devinst_and_guid makes a list of its own.
get_filename_list ==
    /\ frame.pc = "filename"
    /\ \/ NoMemory({"interface", "list"})
       \/ ~HasWinUsbFile(frame.node) /\ Fail("not_ready", {"interface", "list"})
       \/ /\ HasWinUsbFile(frame.node)
          /\ Allocates
          /\ Acquire({"inner"})
          /\ Continue([frame EXCEPT !.pc = "detail"])
          /\ UNCHANGED user

\* The first malloc that fails leaves the inner list behind, the strdup does not.
get_filename_detail ==
    /\ frame.pc = "detail"
    /\ \/ NoMemory({"interface", "list"})
       \/ NoMemory({"interface", "list", "inner"})
       \/ ~HasWinUsbFile(frame.node) /\ Fail("other", {"interface", "list", "inner"})
       \/ /\ HasWinUsbFile(frame.node)
          /\ Allocates
          /\ Release({"list", "inner"})
          /\ user' = [user EXCEPT !.interface = [device |-> user.device, node |-> frame.node]]
          /\ Returns("none")

-----------------------------------------------------------------------------
(* generic_interface_windows.c                                             *)

check_driver_installation ==
    /\ frame.pc = "service"
    /\ \/ NoMemory({"interface", "list"})
       \/ frame.node \notin DevNodes /\ Fail("other", {"interface", "list"})
       \/ /\ frame.node \in DevNodes
          /\ CASE Service(frame.node) = NoDriver -> Fail("not_ready", {"interface", "list"})
               [] Service(frame.node) = "winusb" -> Proceed([frame EXCEPT !.pc = "guid"])
               [] OTHER -> Fail("other", {"interface", "list"})

\* A driver that has no DeviceInterfaceGUIDs in the registry gets no WinUSB file.  A malloc
\* that fails leaves the registry key open.
get_first_device_interface_guid ==
    /\ frame.pc = "guid"
    /\ \/ ~HasWinUsbFile(frame.node) /\ Fail("other", {"interface", "list"})
       \/ /\ frame.node \in DevNodes
          /\ \/ Proceed([frame EXCEPT !.pc = "filename"])
             \/ /\ OutOfMemory
                /\ held' = [held EXCEPT !["interface"] = @ - 1, !["list"] = @ - 1, !["key"] = @ + 1]
                /\ attempt_ends("memory")
                /\ UNCHANGED user

-----------------------------------------------------------------------------
(* serial_port_windows.c                                                   *)

open_port_key ==
    /\ frame.pc = "port_name"
    /\ \/ frame.node \notin DevNodes /\ Fail("other", {"port", "list"})
       \/ /\ frame.node \in DevNodes
          /\ Allocates
          /\ Acquire({"key"})
          /\ Continue([frame EXCEPT !.pc = "port_key"])
          /\ UNCHANGED user

get_port_name ==
    /\ frame.pc = "port_key"
    /\ \/ NoMemory({"port", "list", "key"})
       \/ ~HasPortName(frame.node) /\ Fail("other", {"port", "list", "key"})
       \/ /\ HasPortName(frame.node)
          /\ Allocates
          /\ Release({"list", "key"})
          /\ user' = [user EXCEPT !.port = [device |-> user.device, node |-> frame.node]]
          /\ Returns("none")

-----------------------------------------------------------------------------
(* generic_handle_windows.c                                                *)

\* Memory for the handle and for a copy of the filename, and CreateFile, which fails if
\* no driver has the file, or if someone else has it open.
open_file ==
    /\ frame.pc = "open"
    /\ LET node == user.interface.node
       IN  \/ NoMemory({})
           \/ \E error \in {"access", "other"} :
              /\ error = "other" => ~HasWinUsbFile(node)
              /\ Fail(error, {})
           \/ /\ HasWinUsbFile(node)
              /\ Allocates
              /\ Acquire({"handle", "file"})
              /\ Continue([frame EXCEPT !.pc = "winusb", !.inst = at[Entry(node)[1]]])
              /\ UNCHANGED user

close_handle == {"handle", "file"}

\* WinUsb_Initialize, for the device the file was opened for
winusb_initialize ==
    /\ frame.pc = "winusb"
    /\ \/ NoMemory(close_handle)
       \/ frame.inst \notin Connected /\ Fail("other", close_handle)
       \/ /\ frame.inst \in Connected
          /\ Allocates
          /\ user' = [user EXCEPT !.handle = [device |-> user.interface.device, inst |-> frame.inst]]
          /\ Returns("none")
          /\ UNCHANGED held

-----------------------------------------------------------------------------
(* The user                                                                *)

Idle(call) ==
    /\ frame.pc = "idle"
    /\ result' = [NoResult EXCEPT !.call = call]
    /\ watch' = NoWatch
    /\ UNCHANGED <<busVars, frame>>

list_free ==
    /\ Idle("none") /\ user.list # <<>>
    /\ \E d \in {NULL} \cup {user.list[k] : k \in DOMAIN user.list} :
        /\ user' = [user EXCEPT !.list = <<>>, !.device = d]
        /\ held' = [held EXCEPT !["device"] = @ - (Len(user.list) - IF d = NULL THEN 0 ELSE 1)]
    /\ UNCHANGED ooms

\* libusbp_device_free, libusbp_generic_interface_free, libusbp_serial_port_free and
\* libusbp_generic_handle_close
free_object(kind) ==
    /\ Idle("none") /\ user[kind] # NULL
    /\ user' = [user EXCEPT ![kind] = NULL]
    /\ Release({kind} \cup {k \in {"file"} : kind = "handle"})
    /\ UNCHANGED ooms

\* libusbp_device_copy, libusbp_generic_interface_copy and libusbp_serial_port_copy
copy_object(kind) ==
    /\ "copy" \in Calls
    /\ Idle("copy") /\ user[kind] # NULL /\ user.copied = NULL
    /\ user' = [user EXCEPT !.copied = kind]
    /\ Acquire({kind})
    /\ UNCHANGED ooms

copy_object_fails(kind) ==
    /\ "copy" \in Calls
    /\ frame.pc = "idle" /\ user[kind] # NULL /\ user.copied = NULL
    /\ OutOfMemory
    /\ result' = [NoResult EXCEPT !.call = "copy", !.error = "memory"]
    /\ UNCHANGED <<busVars, frame, user, held>>

free_copy ==
    /\ Idle("none") /\ user.copied # NULL
    /\ user' = [user EXCEPT !.copied = NULL]
    /\ Release({user.copied})
    /\ UNCHANGED ooms

libusbp_list_connected_devices ==
    user.device = NULL /\ user.list = <<>> /\ Enter("list", NULL, FALSE)

libusbp_generic_interface_create(i, composite) ==
    user.device # NULL /\ user.interface = NULL /\ Enter("interface", i, composite)

libusbp_serial_port_create(i, composite) ==
    user.device # NULL /\ user.port = NULL /\ Enter("port", i, composite)

libusbp_generic_handle_open ==
    user.interface # NULL /\ user.handle = NULL /\ Enter("open", NULL, FALSE)

-----------------------------------------------------------------------------
(* The bus.  No two devices have the same instance id at the same time.    *)
(* What was remembered of a call is forgotten with the first event after.  *)

UniqueIds == \A p, q \in {r \in Ports : at[r] # 0} :
                DeviceInstanceId(p) = DeviceInstanceId(q) => p = q

\* A driver is loaded, and the nodes of interfaces are made, after the device is registered.
NodesInOrder == initialized = {} /\ \A i \in ifaces : at[i[1]] \in nodes

BusStep ==
    /\ BusNext
    /\ (UniqueIds /\ NodesInOrder)'
    /\ UNCHANGED <<frame, user, held, ooms>>
    /\ IF frame.pc = "idle"
       THEN result' = NoResult /\ watch' = NoWatch
       ELSE /\ watch' = [watch EXCEPT
                    !.stable = {s \in @ : at'[s[1]] = s[2]},
                    !.vanished = @ \/ ~(DevNodes \subseteq DevNodes'),
                    !.ready = @ /\ Ready(frame.call, frame.want, frame.composite)']
            /\ UNCHANGED result

Init ==
    /\ BusInit
    /\ frame = IdleFrame
    /\ user = [list |-> <<>>, device |-> NULL, interface |-> NULL, port |-> NULL,
               handle |-> NULL, copied |-> NULL]
    /\ held = [k \in Kinds |-> 0]
    /\ ooms = MaxOoms
    /\ result = NoResult
    /\ watch = NoWatch

CallStep ==
    /\ \/ list_begin
       \/ \E node \in frame.todo : try_create_device(node)
       \/ device_list_append
       \/ list_return
       \/ create_begin
       \/ get_interface_non_composite
       \/ locate_devnode
       \/ next_list
       \/ \E node \in frame.todo : get_interface_composite(node)
       \/ list_done
       \/ create_id_string
       \/ check_driver_installation
       \/ get_first_device_interface_guid
       \/ get_filename_list
       \/ get_filename_detail
       \/ open_port_key
       \/ get_port_name
       \/ open_file
       \/ winusb_initialize
    /\ UNCHANGED busVars

UserStep ==
    \/ libusbp_list_connected_devices
    \/ \E i \in Interfaces, composite \in BOOLEAN :
        \/ libusbp_generic_interface_create(i, composite)
        \/ libusbp_serial_port_create(i, composite)
    \/ libusbp_generic_handle_open
    \/ list_free
    \/ \E kind \in {"device", "interface", "port", "handle"} : free_object(kind)
    \/ \E kind \in {"device", "interface", "port"} :
        copy_object(kind) \/ copy_object_fails(kind)
    \/ free_copy

Next == CallStep \/ UserStep \/ BusStep

Spec == Init /\ [][Next]_vars

-----------------------------------------------------------------------------
(* Properties                                                              *)

\* The resources that the objects of the user account for.
One(b) == IF b THEN 1 ELSE 0

Owned(k) ==
    CASE k = "device" -> Len(user.list) + One(user.device # NULL) + One(user.copied = k)
      [] k \in {"interface", "port"} -> One(user[k] # NULL) + One(user.copied = k)
      [] k \in {"handle", "file"} -> One(user.handle # NULL)
      [] OTHER -> 0

\* Between calls every object, list, registry key and file belongs to an object of the
\* user: no path of list_windows.c, interface_windows.c, generic_interface_windows.c,
\* serial_port_windows.c and generic_handle_windows.c, with its many early returns, frees
\* something twice, and none leaves something behind unless an allocation failed.
NothingLeaks ==
    frame.pc = "idle" =>
        \A k \in Kinds : /\ held[k] >= Owned(k)
                         /\ ooms = MaxOoms => held[k] = Owned(k)

\* A device that is registered during the whole of libusbp_list_connected_devices is in
\* the list exactly once, with its own ids, whatever other devices do meanwhile.
ListIsComplete ==
    result.call = "list" /\ result.error = "none" /\ ~watch.nomem =>
        \A s \in watch.stable :
            Cardinality({k \in DOMAIN user.list :
                /\ user.list[k].inst = s[2]
                /\ Matches(user.list[k], identity[s[2]])
                /\ user.list[k].rev = identity[s[2]].rev}) = 1

\* What is opened has the instance id of the device that was listed (and so its vendor
\* and product id and serial number), and it is that very device if that is still
\* connected, although names are looked up anew in each of the calls in between.
OpensListedDevice ==
    /\ user.interface # NULL => user.interface.node[1] = user.interface.device.id
    /\ user.port # NULL => user.port.node[1] = user.port.device.id
    /\ user.handle # NULL =>
        /\ Matches(user.handle.device, identity[user.handle.inst])
        /\ user.handle.device.inst \in Connected => user.handle.inst = user.handle.device.inst

\* For an interface whose driver has been ready during the whole call, while no device
\* node vanishes and memory lasts, generic_interface_create and serial_port_create succeed:
\* one of the three lists of get_interface_composite has it, and a device that only looks
\* composite to Windows is found by the second attempt of serial_port_create.
ReadyInterfaceIsCreated ==
    result.call \in {"interface", "port"} /\ watch.ready /\ ~watch.vanished /\ ~watch.nomem =>
        result.error = "none"

\* NOT_READY is never the answer for an interface that was ready all the time, even if
\* other device nodes vanish from the lists during the search.
NotReadyIsTrue == result.error = "not_ready" => ~watch.ready

-----------------------------------------------------------------------------
(***************************************************************************)
(* The inductive invariant, in named parts.  First the bus: names are      *)
(* unique, and what has registered an interface of its own has a driver.   *)
(***************************************************************************)
NamesInv ==
    /\ BusInv
    /\ UniqueIds
    /\ \A i \in ttys : driver[i] # NoDriver

\* Where a call is: looking for the node, or asking the node that was found.
Walking == {"usb_devices", "locate", "next_list", "entry"}
OfInterface == {"service", "guid", "filename", "detail"}
OfPort == {"port_name", "port_key"}
Asking == {"id_string"} \cup OfInterface \cup OfPort
Creating == {"interface", "port"} \cup Walking \cup Asking

\* The node that the attempt in progress looks for.
TargetNode ==
    <<device_instance_id, IF Composite THEN interface_number ELSE WholeDevice>>

(***************************************************************************)
(* The local variables of the calls, at each place.                        *)
(***************************************************************************)
FrameInv ==
    /\ frame = [pc |-> frame.pc, call |-> frame.call, want |-> frame.want,
                composite |-> frame.composite, first |-> frame.first,
                list_index |-> frame.list_index, todo |-> frame.todo,
                node |-> frame.node, inst |-> frame.inst]
    /\ frame.pc \in {"idle", "list", "each", "append", "open", "winusb"} \cup Creating
    /\ frame.pc = "idle" => frame = IdleFrame
    /\ frame.pc # "idle" => result = NoResult
    /\ frame.pc \in {"list", "each", "append"} => frame.call = "list" /\ user.device = NULL
    /\ frame.pc = "list" => user.list = <<>>
    /\ frame.pc \in Creating =>
        /\ frame.call \in {"interface", "port"}
        /\ frame.want \in Interfaces
        /\ user.device # NULL /\ user[frame.call] = NULL
        /\ frame.first \in {"none", "other", "memory"}
        /\ Again => frame.call = "port" /\ ~frame.composite
        /\ frame.list_index \in 0..3
    /\ frame.pc \in {"interface", "port"} => frame.call = frame.pc /\ frame.list_index = 0
    /\ frame.pc \in {"usb_devices", "locate"} => frame.list_index = 0
    /\ frame.pc = "entry" => frame.list_index # 3
    /\ frame.pc \in Walking => (Composite <=> frame.pc # "usb_devices")
    /\ frame.pc \in OfInterface => frame.call = "interface"
    /\ frame.pc \in OfPort => frame.call = "port"
    /\ frame.pc \in Asking => frame.node = TargetNode
    /\ frame.pc \in {"open", "winusb"} =>
        frame.call = "open" /\ ~Again /\ user.interface # NULL /\ user.handle = NULL
    /\ user.list # <<>> => user.device = NULL

(***************************************************************************)
(* The resources that the call in progress holds, at each place.           *)
(***************************************************************************)
InUse ==
    CASE frame.pc = "each" -> {"list"}
      [] frame.pc = "append" -> {"list", "device"}
      [] frame.pc \in {"usb_devices", "locate", "next_list"} -> {frame.call}
      [] frame.pc \in {"entry", "id_string", "service", "guid", "filename", "port_name"} ->
             {frame.call, "list"}
      [] frame.pc = "detail" -> {frame.call, "list", "inner"}
      [] frame.pc = "port_key" -> {frame.call, "list", "key"}
      [] frame.pc = "winusb" -> {"handle", "file"}
      [] OTHER -> {}

CountInv ==
    /\ held \in [Kinds -> Nat]
    /\ ooms \in 0..MaxOoms
    /\ \A k \in Kinds :
        /\ held[k] >= Owned(k) + One(k \in InUse)
        /\ ooms = MaxOoms => held[k] = Owned(k) + One(k \in InUse)

(***************************************************************************)
(* A device object describes its instance, and has its id as long as it is *)
(* plugged in.                                                             *)
(***************************************************************************)
Known(d) ==
    /\ d.inst \in Instances
    /\ Matches(d, identity[d.inst]) /\ d.rev = identity[d.inst].rev
    /\ d.id[1] = d.vid /\ d.id[2] = d.pid
    /\ \A p \in Ports : at[p] = d.inst => DeviceInstanceId(p) = d.id

\* The device object that is to be added to the list.
NewDevice == DeviceFields(frame.node[1], identity[frame.inst], frame.inst)

\* What is opened for device d is instance n.
Opened(d, n) ==
    /\ n \in Instances
    /\ Matches(d, identity[n])
    /\ d.inst \in Connected => n = d.inst

ObjectInv ==
    /\ user \in [list : Seq(Device), device : Device \cup {NULL},
                 interface : Object \cup {NULL}, port : Object \cup {NULL},
                 handle : Handle \cup {NULL},
                 copied : {"device", "interface", "port", NULL}]
    /\ \A k \in DOMAIN user.list : Known(user.list[k])
    /\ user.device # NULL => Known(user.device)
    /\ \A o \in {"interface", "port"} : user[o] # NULL =>
            Known(user[o].device) /\ user[o].node[1] = user[o].device.id
    /\ user.handle # NULL =>
            Known(user.handle.device) /\ Opened(user.handle.device, user.handle.inst)
    /\ frame.pc = "append" => NewDevice \in Device /\ Known(NewDevice)
    /\ frame.pc = "winusb" => Opened(user.interface.device, frame.inst)

\* What is remembered of a call has the fields of NoWatch.
WatchInv ==
    watch = [stable |-> watch.stable, vanished |-> watch.vanished, ready |-> watch.ready,
             nomem |-> watch.nomem]

(***************************************************************************)
(* While the interface has been ready since the call began, the attempt    *)
(* that can find it has it ahead.  A second attempt is made for a part of  *)
(* the device, unless memory or a node was missing in the first one.       *)
(***************************************************************************)
Good(n) == IF frame.call = "interface" THEN HasWinUsbFile(n) ELSE HasPortName(n)

Aimed ==
    /\ watch.ready
    /\ Good(TargetNode)
    /\ Again => ~watch.nomem /\ ~watch.vanished

ReadyInv ==
    frame.pc \in Creating =>
        /\ watch.ready => Ready(frame.call, frame.want, frame.composite)
        /\ watch.ready /\ Again /\ ~watch.nomem /\ ~watch.vanished => Good(TargetNode)
        /\ Aimed /\ frame.pc = "next_list" =>
            \/ frame.list_index = 0
            \/ frame.list_index = 1 /\ Service(TargetNode) = "ftdi"
        /\ Aimed /\ frame.pc = "entry" =>
            \/ frame.list_index = 0 /\ Service(TargetNode) = "ftdi"
            \/ frame.list_index \in {0, 1} /\ TargetNode \in frame.todo
        /\ frame.pc = "entry" /\ ~watch.vanished => frame.todo \subseteq DevNodes

(***************************************************************************)
(* A list has an id once at most, and never one that is still to be looked *)
(* at.  A device that has been there since the call began is ahead, being  *)
(* added, or in the list.                                                  *)
(***************************************************************************)
OnceInv ==
    frame.pc \in {"each", "append"} =>
        /\ \A k \in DOMAIN user.list : <<user.list[k].id, WholeDevice>> \notin frame.todo
        /\ \A j, k \in DOMAIN user.list : user.list[j].id = user.list[k].id => j = k
        /\ frame.pc = "append" =>
            /\ frame.node = <<frame.node[1], WholeDevice>> /\ frame.node \notin frame.todo
            /\ \A k \in DOMAIN user.list : user.list[k].id # frame.node[1]
        /\ frame.todo \subseteq Ids \X {WholeDevice}

StableInv ==
    frame.pc \in {"list", "each", "append"} =>
        \A s \in watch.stable :
            /\ s[1] \in Ports /\ at[s[1]] = s[2] /\ s[2] \in nodes
            /\ frame.pc # "list" /\ ~watch.nomem =>
                \/ <<DeviceInstanceId(s[1]), WholeDevice>> \in frame.todo
                \/ frame.pc = "append" /\ frame.inst = s[2]
                \/ \E k \in DOMAIN user.list : user.list[k].inst = s[2]

WindowsInv ==
    /\ NamesInv
    /\ FrameInv
    /\ CountInv
    /\ ObjectInv
    /\ WatchInv
    /\ ReadyInv
    /\ OnceInv
    /\ StableInv
=============================================================================
