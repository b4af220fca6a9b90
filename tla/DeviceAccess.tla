---------------------------- MODULE DeviceAccess ----------------------------
(***************************************************************************)
(* From the list of devices to an open handle, on Linux: listing and       *)
(* finding devices, generic interfaces, serial ports and the opening of a  *)
(* generic handle, on a bus where devices come and go at any time.         *)
(*                                                                         *)
(* One user makes one call at a time (calls on separate objects share      *)
(* nothing, THREADS.md).  A call asks sysfs, udev and the kernel several   *)
(* questions, one step each, and the bus changes between them.  frame      *)
(* holds the local variables of the call.  The questions that are put to   *)
(* one and the same sysfs entry in a row, such that a change between them  *)
(* has the effect of a change before or after them, are one step.          *)
(*                                                                         *)
(* Any allocation can fail.  A function that only allocates, fills and     *)
(* frees is all or nothing; devs and fds count the libusbp_device objects  *)
(* and the file descriptors that exist, wherever the code keeps them.      *)
(* NULL arguments are refused at once and are not written down.            *)
(***************************************************************************)
EXTENDS UsbBus

CONSTANTS
    Calls,        \* the calls the user makes
    NULL,         \* the null pointer
    MaxOoms       \* bound on the number of allocations that fail

ASSUME OomsAssumption == MaxOoms \in Nat

VARIABLES
    frame,        \* the call in progress
    list,         \* the device list of libusbp_list_connected_devices
    device,       \* libusbp_device of the user, or NULL
    gi,           \* libusbp_generic_interface of the user, or NULL
    copied,       \* the kind of an object the user has copied, or NULL
    port,         \* libusbp_serial_port of the user, or NULL
    handle,       \* libusbp_generic_handle of the user, or NULL
    devs,         \* number of libusbp_device objects in memory
    fds,          \* number of open file descriptors
    ooms,         \* allocations that may still fail
    result,       \* what the last call returned
    watch         \* history of the bus and of memory during the call

objVars == <<list, device, gi, copied, port, handle, devs, fds>>
vars == <<busVars, frame, objVars, ooms, result, watch>>

-----------------------------------------------------------------------------
(* Objects                                                                 *)

\* struct libusbp_device; the syspath is that of a port.  inst is history:
\* the instance that was at the port when the object was made.
DeviceFields(p, v, i, r, s, n) ==
    [port |-> p, vid |-> v, pid |-> i, rev |-> r, serial |-> s, inst |-> n]

Pointers(S) == S \cup {NULL}
Device ==
    [port: Ports, vid: Pointers({m.vid : m \in Models}), pid: Pointers({m.pid : m \in Models}),
     rev: Pointers({m.rev : m \in Models}), serial: Pointers({m.serial : m \in Models}),
     inst: 1..MaxPlugs]
Interface == [device: Device, interface: InterfacePaths, filename: 1..MaxAddress]
Handle == [device: Device, inst: 1..MaxPlugs]
CopyKinds == {"device", "interface", "port"}

\* The null pointer points to no object.
ASSUME NullAssumption ==
    /\ NULL \notin Interfaces
    /\ NULL \notin Device /\ NULL \notin Interface /\ NULL \notin Handle
    /\ NULL \notin InterfacePaths /\ NULL \notin CopyKinds

IdleFrame ==
    [pc |-> "idle", call |-> "none", want |-> NULL, todo |-> {}, entry |-> NULL,
     obj |-> NULL, filename |-> 0, no_handle |-> FALSE]

Errors == {"none", "memory", "not_ready", "access", "disconnected", "other"}

NoResult == [call |-> "none", want |-> NULL, error |-> "none"]
NoWatch == [stable |-> {}, vanished |-> FALSE, seen |-> FALSE, ready |-> FALSE, nomem |-> FALSE]

\* The interface that a call is asked for.
Target == <<device.port, frame.want>>

\* The drivers check_driver_installation accepts: none, or one that usbfs can detach.
AcceptedDrivers == {NoDriver, "usbfs", "cp210x"}

\* An interface that nothing needs to be waited for.
ReadyFor(call, i) ==
    /\ i \in ifaces
    /\ \/ call = "interface" /\ driver[i] \in AcceptedDrivers /\ at[i[1]] \in nodes
       \/ call = "port" /\ i \in ttys

-----------------------------------------------------------------------------
(* Calls and returns                                                       *)

Enter(call, want) ==
    /\ frame.pc = "idle"
    /\ call \in Calls
    /\ frame' = [IdleFrame EXCEPT !.pc = call, !.call = call, !.want = want]
    /\ result' = NoResult
    /\ watch' = [stable   |-> {<<p, at[p]>> : p \in {q \in Ports : at[q] \in initialized}},
                 vanished |-> FALSE,
                 seen     |-> device # NULL /\ <<device.port, want>> \in ifaces,
                 ready    |-> device # NULL /\ ReadyFor(call, <<device.port, want>>),
                 nomem    |-> FALSE]
    /\ UNCHANGED <<busVars, objVars, ooms>>

Return(error) ==
    /\ frame' = IdleFrame
    /\ result' = [call |-> frame.call, want |-> frame.want, error |-> error]
    /\ UNCHANGED busVars

\* The call goes on with the local variables f.
Continue(f) ==
    /\ frame' = f
    /\ UNCHANGED <<busVars, result>>

Allocates == UNCHANGED <<ooms, watch>>

OutOfMemory ==
    /\ ooms > 0
    /\ ooms' = ooms - 1
    /\ watch' = [watch EXCEPT !.nomem = TRUE]

\* error_create: an error object cannot always be made, and the error is then
\* masked by the static error_masked_by_no_memory.
Fail(error) ==
    \/ Allocates /\ Return(error)
    \/ OutOfMemory /\ Return("memory")

-----------------------------------------------------------------------------
(* What the library asks of udev (udev_linux.c)                            *)

udevw_create_usb_list == Present

\* An interface in sysfs has itself and its tty below it.
udevw_create_child_list(i) ==
    {kind \in {"usb", "tty"} : i \in IF kind = "tty" THEN ttys ELSE ifaces}

udevw_get_device_from_syspath(path) == path \in Present

\* The serial number of what is at port p: a device without the attribute and a
\* device that is gone have none.
udevw_get_sysattr_if_exists_copy(p) ==
    IF DevicePath(p) \in Present THEN identity[at[p]].serial ELSE NULL

-----------------------------------------------------------------------------
(* list_linux.c, list.c, device_linux.c, find_device.c                     *)

libusbp_device_copy == devs' = devs + 1

\* What a walk needs is not there: the error is a plain one when udev has no memory
\* for its context or for the enumeration.
setup_out_of_memory ==
    /\ OutOfMemory
    /\ \E code \in {"memory", "other"} : Return(code)

\* The context, the enumeration and an empty list.
list_begin ==
    /\ frame.pc \in {"list", "find"}
    /\ \/ Allocates /\ Continue([frame EXCEPT !.pc = "each", !.todo = udevw_create_usb_list])
       \/ setup_out_of_memory
    /\ UNCHANGED objVars

\* An entry that is gone, an interface, or a device that udev has not finished
\* with, is passed over; so is any other one for which there is no memory.
Skipped(path) ==
    \/ ~udevw_get_device_from_syspath(path)
    \/ path[2] # WholeDevice
    \/ at[path[1]] \notin initialized

\* Mutant: an entry that is passed over is looked at again.
remains_with(path) == [frame EXCEPT !.todo = IF Skipped(path) THEN @ ELSE @ \ {path}]

remains(path) == [frame EXCEPT !.todo = @ \ {path}]

add_udev_device_to_list_if_needed(path) ==
    /\ frame.pc = "each"
    /\ path \in frame.todo
    /\ LET next == remains(path)
       IN  \/ /\ Skipped(path)
              /\ Allocates
              /\ Continue(next)
              /\ UNCHANGED devs
           \/ /\ ~Skipped(path)
              /\ Allocates
              /\ Continue([next EXCEPT !.pc = "idVendor",
                    !.obj = DeviceFields(path[1], NULL, NULL, NULL, NULL, at[path[1]])])
              /\ devs' = devs + 1
           \/ /\ ~Skipped(path)
              /\ OutOfMemory
              /\ Continue(next)
              /\ UNCHANGED devs
    /\ UNCHANGED <<list, device, gi, copied, port, handle, fds>>

\* Mutants: an error ends the enumeration; the object is freed twice.
drop_device_and_stop ==
    /\ Continue([frame EXCEPT !.pc = "each", !.obj = NULL, !.todo = {}])
    /\ devs' = devs - 1
    /\ UNCHANGED list
drop_device_twice ==
    /\ Continue([frame EXCEPT !.pc = "each", !.obj = NULL])
    /\ devs' = devs - 2
    /\ UNCHANGED list

\* The device object is freed, the error forgotten, and the loop goes on.
drop_device ==
    /\ Continue([frame EXCEPT !.pc = "each", !.obj = NULL])
    /\ devs' = devs - 1
    /\ UNCHANGED list

\* A sysfs attribute of the device at the port, read through its path.
ObjPresent == DevicePath(frame.obj.port) \in Present
ObjModel == identity[at[frame.obj.port]]

get_sysattr(attr, next, obj) ==
    /\ frame.pc = attr
    /\ \/ ObjPresent /\ Continue([frame EXCEPT !.pc = next, !.obj = obj])
                     /\ UNCHANGED <<list, devs>>
       \/ ~ObjPresent /\ drop_device
    /\ Allocates
    /\ UNCHANGED <<device, gi, copied, port, handle, fds>>

read_ids ==
    \/ get_sysattr("idVendor", "idProduct", [frame.obj EXCEPT !.vid = ObjModel.vid])
    \/ get_sysattr("idProduct", "bcdDevice", [frame.obj EXCEPT !.pid = ObjModel.pid])
    \/ get_sysattr("bcdDevice", "serial", [frame.obj EXCEPT !.rev = ObjModel.rev])

device_list_append(d) == list' = Append(list, d)

\* A complete device object joins the list; if the list cannot grow, it is freed.
add_udev_device_to_list(d) ==
    \/ /\ Allocates
       /\ device_list_append(d)
       /\ Continue([frame EXCEPT !.pc = "each", !.obj = NULL])
       /\ UNCHANGED devs
    \/ OutOfMemory /\ drop_device

\* The end of device_create, and the rest of add_udev_device_to_list
read_serial ==
    /\ frame.pc = "serial"
    /\ add_udev_device_to_list([frame.obj EXCEPT
            !.serial = udevw_get_sysattr_if_exists_copy(frame.obj.port)])
    /\ UNCHANGED <<device, gi, copied, port, handle, fds>>

list_return ==
    /\ frame.pc = "each"
    /\ frame.todo = {}
    /\ frame.call = "list"
    /\ Return("none")
    /\ UNCHANGED <<objVars, ooms, watch>>

\* check_device_vid_pid
Matches(d, ids) == d.vid = ids.vid /\ d.pid = ids.pid

\* Mutant: only the first device of the list is looked at.
first_candidate == {k \in DOMAIN list : k = 1 /\ Matches(list[k], frame.want)}

Candidates == {k \in DOMAIN list : Matches(list[k], frame.want)}

\* The first device that matches goes to the user, the others are freed.
find_return ==
    /\ frame.pc = "each"
    /\ frame.todo = {}
    /\ frame.call = "find"
    /\ \/ /\ Candidates = {}
          /\ device' = NULL
          /\ devs' = devs - Len(list)
       \/ \E k \in Candidates :
          /\ \A j \in Candidates : k <= j
          /\ device' = list[k]
          /\ devs' = devs - (Len(list) - 1)
    /\ list' = <<>>
    /\ Return("none")
    /\ UNCHANGED <<gi, copied, port, handle, fds, ooms, watch>>

-----------------------------------------------------------------------------
(* udev_linux.c, generic_interface_linux.c, serial_port_linux.c            *)

\* A failed search: the copy of the device that generic_interface_create has
\* made is freed; serial_port_create makes none.
give_up(error) ==
    /\ Fail(error)
    /\ devs' = IF frame.call = "interface" THEN devs - 1 ELSE devs
    /\ UNCHANGED <<list, device, gi, copied, port, handle, fds>>

proceed(f) ==
    /\ Allocates
    /\ Continue(f)
    /\ UNCHANGED objVars

\* The new object, the copy of the device, the context and the enumeration.
search_begin ==
    /\ frame.pc \in {"interface", "port"}
    /\ \/ /\ Allocates
          /\ Continue([frame EXCEPT !.pc = "search", !.todo = udevw_create_usb_list])
          /\ IF frame.call = "interface" THEN libusbp_device_copy ELSE UNCHANGED devs
       \/ /\ setup_out_of_memory
          /\ UNCHANGED devs
    /\ UNCHANGED <<list, device, gi, copied, port, handle, fds>>

\* Mutant: the search ends, but without its error.
entry_gone_means_not_found == give_up("not_ready")

\* udevw_get_interface: an entry that is gone ends the search.
entry_gone == give_up("other")

\* The loop of udevw_get_interface
get_interface_entry(path) ==
    /\ frame.pc = "search"
    /\ path \in frame.todo
    /\ LET next == [frame EXCEPT !.todo = @ \ {path}]
       IN  \/ ~udevw_get_device_from_syspath(path) /\ entry_gone
           \/ /\ udevw_get_device_from_syspath(path)
              /\ \/ path[2] = WholeDevice /\ proceed(next)
                 \/ path[2] # WholeDevice /\ proceed([next EXCEPT !.pc = "check", !.entry = path])

\* Mutant: the first interface that is not the right one ends the search.
wrong_interface_ends == give_up("other")

wrong_interface == proceed([frame EXCEPT !.pc = "search", !.entry = NULL])

\* udevw_check_if_device_is_specific_interface, for an entry that is an interface
check_interface ==
    /\ frame.pc = "check"
    /\ \/ frame.entry \notin Present /\ entry_gone
       \/ frame.entry \in Present /\ frame.entry # Target /\ wrong_interface
       \/ frame.entry \in Present /\ frame.entry = Target
          /\ proceed([frame EXCEPT !.pc = IF frame.call = "port" THEN "tty_scan" ELSE "driver",
                                   !.todo = {}])

interface_not_found ==
    /\ frame.pc = "search"
    /\ frame.todo = {}
    /\ give_up("not_ready")

\* The driver of an interface that is gone is NULL, which is accepted.
check_driver_installation ==
    /\ frame.pc = "driver"
    /\ LET name == IF frame.entry \in Present THEN driver[frame.entry] ELSE NoDriver
       IN  IF name \in AcceptedDrivers
           THEN proceed([frame EXCEPT !.pc = "devnode"])
           ELSE give_up("other")

\* Mutant: the node of any device with the same ids as the one at port p.
devnode_of_same_ids(p) ==
    CHOOSE a \in {Address(n) : n \in {c \in Connected : identity[c] = identity[at[p]]}} : TRUE

\* The DEVNAME of the device at port p
devnode_of(p) == Address(at[p])

\* udevw_get_devnode_copy_from_syspath, with the path of the whole device
get_devnode ==
    /\ frame.pc = "devnode"
    /\ IF udevw_get_device_from_syspath(DevicePath(device.port))
       THEN proceed([frame EXCEPT !.pc = "access", !.filename = devnode_of(device.port)])
       ELSE give_up("other")

NodeExists(filename) == \E n \in nodes : Address(n) = filename

\* usbfd_check_existence; then the object is complete.
check_existence ==
    /\ frame.pc = "access"
    /\ \/ /\ ~NodeExists(frame.filename)
          /\ give_up("not_ready")
       \/ /\ NodeExists(frame.filename)
          /\ gi' = [device |-> device, interface |-> frame.entry, filename |-> frame.filename]
          /\ Return("none")
          /\ UNCHANGED <<list, device, copied, port, handle, devs, fds, ooms, watch>>

\* udevw_get_tty lists the interface and its tty, and looks at them in turn.
tty_scan ==
    /\ frame.pc = "tty_scan"
    /\ proceed([frame EXCEPT !.pc = "tty", !.todo = udevw_create_child_list(frame.entry)])

\* An entry that is gone ends the search, unless it goes between the opening of the
\* entry and the question for its subsystem: then it is passed over.
tty_entry(kind) ==
    /\ frame.pc = "tty"
    /\ kind \in frame.todo
    /\ LET next == [frame EXCEPT !.todo = @ \ {kind}]
           gone == kind \notin udevw_create_child_list(frame.entry)
       IN  \/ gone /\ entry_gone
           \/ (gone \/ kind # "tty") /\ proceed(next)
           \/ ~gone /\ kind = "tty" /\ proceed([next EXCEPT !.pc = "tty_name", !.todo = {}])

tty_not_found ==
    /\ frame.pc = "tty"
    /\ frame.todo = {}
    /\ give_up("not_ready")

\* The DEVNAME property, and the copies of the two strings.
tty_name ==
    /\ frame.pc = "tty_name"
    /\ \/ frame.entry \notin ttys /\ give_up("other")
       \/ /\ frame.entry \in ttys
          /\ port' = frame.entry
          /\ Return("none")
          /\ UNCHANGED <<list, device, gi, copied, handle, devs, fds, ooms, watch>>

\* An allocation fails in libudev or in one of the string copies of a search.
search_out_of_memory ==
    /\ frame.pc \in {"search", "check", "driver", "devnode", "tty_scan", "tty", "tty_name"}
    /\ OutOfMemory
    /\ \E error \in {"memory", "other"} : Return(error)
    /\ devs' = IF frame.call = "interface" THEN devs - 1 ELSE devs
    /\ UNCHANGED <<list, device, gi, copied, port, handle, fds>>

-----------------------------------------------------------------------------
(* Copies made by the user                                                 *)

Copies(kind) ==
    /\ "copy" \in Calls
    /\ frame.pc = "idle"
    /\ copied = NULL
    /\ copied' = kind
    /\ result' = [NoResult EXCEPT !.call = "copy"]
    /\ watch' = NoWatch
    /\ UNCHANGED <<busVars, frame, list, device, gi, port, handle, fds, ooms>>

\* The copy is not made, and what it had so far is freed.
CopyFails(error) ==
    /\ "copy" \in Calls
    /\ frame.pc = "idle"
    /\ copied = NULL
    /\ ooms > 0 /\ ooms' = ooms - 1
    /\ result' = [NoResult EXCEPT !.call = "copy", !.error = error]
    /\ watch' = NoWatch
    /\ UNCHANGED <<busVars, frame, objVars>>

user_copies_device ==
    /\ device # NULL
    /\ \/ Copies("device") /\ libusbp_device_copy
       \/ CopyFails("memory")

\* On failure everything is freed, but what is returned is NULL: no error.
libusbp_generic_interface_copy ==
    /\ gi # NULL
    /\ \/ Copies("interface") /\ libusbp_device_copy
       \/ CopyFails("none")

libusbp_serial_port_copy ==
    /\ port # NULL
    /\ \/ Copies("port") /\ UNCHANGED devs
       \/ CopyFails("memory")

-----------------------------------------------------------------------------
(* generic_handle_linux.c                                                  *)

\* The result of calloc is not looked at (the test is of another pointer).
generic_handle_setup ==
    /\ frame.pc = "open"
    /\ \/ /\ Allocates
          /\ Continue([frame EXCEPT !.pc = "open_node"])
          /\ libusbp_device_copy
       \/ /\ OutOfMemory
          /\ Continue([frame EXCEPT !.pc = "open_node", !.no_handle = TRUE])
          /\ libusbp_device_copy
       \/ /\ OutOfMemory
          /\ Return("memory")
          /\ UNCHANGED devs
    /\ UNCHANGED <<list, device, gi, copied, port, handle, fds>>

\* open() of the device node; the file stays with the instance it was opened for.
usbfd_open ==
    /\ frame.pc = "open_node"
    /\ \/ \E n \in nodes :
          /\ Address(n) = gi.filename
          /\ fds' = fds + 1
          /\ Continue([frame EXCEPT !.pc = IF frame.no_handle THEN "crashed" ELSE "descriptor",
                                    !.entry = n])
          /\ Allocates
          /\ UNCHANGED devs
       \/ \E error \in {"access", "other"} :
          /\ error = "other" => ~NodeExists(gi.filename)
          /\ Fail(error)
          /\ devs' = devs - 1
          /\ UNCHANGED fds
    /\ UNCHANGED <<list, device, gi, copied, port, handle>>

\* Mutant: the product is not compared.
descriptor_without_product(d, m) == d.vid = m.vid /\ d.rev = m.rev

\* The comparisons of check_device_descriptor
DescriptorMatches(d, m) == d.vid = m.vid /\ d.pid = m.pid /\ d.rev = m.rev

\* Mutant: the file descriptor is not closed.
abandon_memory_only == devs' = devs - 1 /\ UNCHANGED fds

\* On any failure libusbp_generic_handle_open closes the handle again.
abandon_handle == devs' = devs - 1 /\ fds' = fds - 1

check_device_descriptor ==
    /\ frame.pc = "descriptor"
    /\ \/ /\ frame.entry \in Connected
          /\ DescriptorMatches(gi.device, identity[frame.entry])
          /\ handle' = [device |-> gi.device, inst |-> frame.entry]
          /\ Return("none")
          /\ UNCHANGED <<devs, fds, ooms, watch>>
       \/ /\ \/ frame.entry \notin Connected /\ Fail("disconnected")
             \/ /\ frame.entry \in Connected
                /\ ~DescriptorMatches(gi.device, identity[frame.entry])
                /\ Fail("other")
          /\ abandon_handle
          /\ UNCHANGED handle
    /\ UNCHANGED <<list, device, gi, copied, port>>

-----------------------------------------------------------------------------
(* The user                                                                *)

\* What is remembered of a call is forgotten with the first event after it.
Forget == result' = NoResult /\ watch' = NoWatch

\* Of a list the user keeps one device or none, and frees the rest and the list.
list_free ==
    /\ frame.pc = "idle"
    /\ list # <<>>
    /\ \/ device' = NULL /\ devs' = devs - Len(list)
       \/ \E k \in DOMAIN list : device' = list[k] /\ devs' = devs - (Len(list) - 1)
    /\ list' = <<>>
    /\ Forget
    /\ UNCHANGED <<busVars, frame, gi, copied, port, handle, fds, ooms>>

libusbp_device_free ==
    /\ frame.pc = "idle"
    /\ \/ device # NULL /\ device' = NULL /\ UNCHANGED copied
       \/ copied = "device" /\ copied' = NULL /\ UNCHANGED device
    /\ devs' = devs - 1
    /\ Forget
    /\ UNCHANGED <<busVars, frame, list, gi, port, handle, fds, ooms>>

libusbp_generic_interface_free ==
    /\ frame.pc = "idle"
    /\ \/ gi # NULL /\ gi' = NULL /\ UNCHANGED copied
       \/ copied = "interface" /\ copied' = NULL /\ UNCHANGED gi
    /\ devs' = devs - 1
    /\ Forget
    /\ UNCHANGED <<busVars, frame, list, device, port, handle, fds, ooms>>

libusbp_serial_port_free ==
    /\ frame.pc = "idle"
    /\ \/ port # NULL /\ port' = NULL /\ UNCHANGED copied
       \/ copied = "port" /\ copied' = NULL /\ UNCHANGED port
    /\ Forget
    /\ UNCHANGED <<busVars, frame, list, device, gi, handle, devs, fds, ooms>>

libusbp_generic_handle_close ==
    /\ frame.pc = "idle"
    /\ handle # NULL
    /\ handle' = NULL
    /\ devs' = devs - 1
    /\ fds' = fds - 1
    /\ Forget
    /\ UNCHANGED <<busVars, frame, list, device, gi, copied, port, ooms>>

libusbp_list_connected_devices ==
    device = NULL /\ list = <<>> /\ Enter("list", NULL)

libusbp_find_device_with_vid_pid(m) ==
    device = NULL /\ list = <<>> /\ Enter("find", [vid |-> m.vid, pid |-> m.pid])

libusbp_generic_interface_create(i) ==
    device # NULL /\ gi = NULL /\ Enter("interface", i)

libusbp_serial_port_create(i) ==
    device # NULL /\ port = NULL /\ Enter("port", i)

libusbp_generic_handle_open ==
    gi # NULL /\ handle = NULL /\ Enter("open", NULL)

-----------------------------------------------------------------------------
(* The bus, and what is remembered of it while a call is in progress       *)

BusStep ==
    /\ BusNext
    /\ UNCHANGED <<frame, objVars, ooms>>
    /\ IF frame.pc \in {"idle", "crashed"}
       THEN result' = NoResult /\ watch' = NoWatch
       ELSE /\ watch' = [watch EXCEPT
                    !.stable = {s \in @ : at'[s[1]] = s[2]},
                    !.vanished = @ \/ ~(Present \subseteq Present') \/ ~(ttys \subseteq ttys'),
                    !.seen = @ \/ (device # NULL /\ Target \in ifaces'),
                    !.ready = @ /\ ReadyFor(frame.call, Target)']
            /\ UNCHANGED result

Init ==
    /\ BusInit
    /\ frame = IdleFrame
    /\ list = <<>>
    /\ device = NULL /\ gi = NULL /\ copied = NULL /\ port = NULL /\ handle = NULL
    /\ devs = 0 /\ fds = 0
    /\ ooms = MaxOoms
    /\ result = NoResult
    /\ watch = NoWatch

\* The call in progress goes on.
CallStep ==
    \/ list_begin
    \/ \E path \in SysPaths : add_udev_device_to_list_if_needed(path)
    \/ read_ids
    \/ read_serial
    \/ list_return
    \/ find_return
    \/ search_begin
    \/ \E path \in SysPaths : get_interface_entry(path)
    \/ check_interface
    \/ interface_not_found
    \/ check_driver_installation
    \/ get_devnode
    \/ check_existence
    \/ tty_scan
    \/ \E kind \in {"usb", "tty"} : tty_entry(kind)
    \/ tty_not_found
    \/ tty_name
    \/ search_out_of_memory
    \/ generic_handle_setup
    \/ usbfd_open
    \/ check_device_descriptor

UserStep ==
    \/ libusbp_list_connected_devices
    \/ \E m \in Models : libusbp_find_device_with_vid_pid(m)
    \/ \E i \in Interfaces : libusbp_generic_interface_create(i)
    \/ \E i \in Interfaces : libusbp_serial_port_create(i)
    \/ libusbp_generic_handle_open
    \/ user_copies_device
    \/ libusbp_generic_interface_copy
    \/ libusbp_serial_port_copy
    \/ list_free
    \/ libusbp_device_free
    \/ libusbp_generic_interface_free
    \/ libusbp_serial_port_free
    \/ libusbp_generic_handle_close

\* The process has ended with a segmentation fault.
Crashed == frame.pc = "crashed" /\ UNCHANGED vars

Next == CallStep \/ UserStep \/ BusStep \/ Crashed

Spec == Init /\ [][Next]_vars

\* A call that was made goes on: none of its questions blocks.
FairSpec == Spec /\ WF_vars(CallStep)

-----------------------------------------------------------------------------
(* Properties                                                              *)

\* Types of the objects that the calls of list_linux.c, generic_interface_linux.c,
\* serial_port_linux.c and generic_handle_linux.c keep.
TypeOK ==
    /\ BusTypeOK
    /\ list \in Seq(Device)
    /\ device \in Pointers(Device)
    /\ gi \in Pointers(Interface)
    /\ copied \in Pointers(CopyKinds)
    /\ port \in Pointers(InterfacePaths)
    /\ handle \in Pointers(Handle)
    /\ devs \in Nat /\ fds \in Nat
    /\ ooms \in 0..MaxOoms
    /\ frame.obj \in Pointers(Device)
    /\ frame.filename \in 0..MaxAddress
    /\ result.error \in Errors

One(b) == IF b THEN 1 ELSE 0

\* The libusbp_device objects that belong to what the user holds.
UserDevices ==
    Len(list) + One(device # NULL) + One(gi # NULL)
        + One(copied \in {"device", "interface"}) + One(handle # NULL)

\* What a list says of the device that is instance n at port p.
Describes(d, p, n) ==
    /\ d.port = p
    /\ d.vid = identity[n].vid /\ d.pid = identity[n].pid
    /\ d.rev = identity[n].rev /\ d.serial = identity[n].serial

\* A device that is plugged in and known to udev during the whole of
\* libusbp_list_connected_devices is in the list exactly once, with its own ids
\* and serial number, whatever happens to other devices meanwhile (list_linux.c:
\* errors of one device do not end the loop).
ListIsComplete ==
    result.call = "list" /\ result.error = "none" /\ ~watch.nomem =>
        \A s \in watch.stable :
            /\ \E k \in DOMAIN list : Describes(list[k], s[1], s[2])
            /\ Cardinality({k \in DOMAIN list : list[k].port = s[1]}) = 1

\* libusbp_find_device_with_vid_pid finds a device that was there during the whole
\* call, and what it returns has the ids that were asked for.
FindIsRight ==
    result.call = "find" /\ result.error = "none" =>
        /\ device # NULL => Matches(device, result.want)
        /\ device = NULL /\ ~watch.nomem =>
            \A s \in watch.stable : ~Matches(identity[s[2]], result.want)

\* Between calls the device objects and file descriptors in memory are those of
\* the objects the user holds: no path of a call, successful or failed, leaks one
\* or frees one twice (the cleanup at the end of each function).
NothingLeaks ==
    frame.pc = "idle" =>
        /\ devs = UserDevices
        /\ fds = One(handle # NULL)

\* The device behind an open handle has the vendor, product and revision of the
\* device object it was opened for, even if devices were exchanged between any two
\* steps since that was listed (check_device_descriptor).
HandleMatchesDevice ==
    handle # NULL =>
        /\ handle.device.vid = identity[handle.inst].vid
        /\ handle.device.pid = identity[handle.inst].pid
        /\ handle.device.rev = identity[handle.inst].rev

\* As long as the device that was listed stays plugged in, what is opened for it
\* is that very device and not another one of the same kind: the path leads to its
\* node and the node to it (get_devnode, usbfd_open).
OpensListedDevice ==
    /\ gi # NULL /\ gi.device.inst \in Connected =>
        gi.filename = Address(gi.device.inst)
    /\ handle # NULL /\ handle.device.inst \in Connected =>
        handle.inst = handle.device.inst

\* For an interface that is ready during the whole call, while nothing vanishes
\* from the bus and memory does not run out, generic_interface_create and
\* serial_port_create succeed.
ReadyInterfaceIsCreated ==
    result.call \in {"interface", "port"} /\ watch.ready /\ ~watch.vanished /\ ~watch.nomem =>
        result.error = "none"

\* The code NOT_READY is never given for a device that was ready all the time, even
\* if other devices vanish: the user is never told to wait for nothing
\* (interface_not_found, check_existence, tty_not_found).
NotReadyIsTrue ==
    result.error = "not_ready" => ~watch.ready

\* Every call returns, however often devices, interfaces and ttys come and go during its
\* loops: each loop is over entries that were listed once (or the process crashes, see
\* MemoryShortageIsAnError).
CallsReturn == frame.pc # "idle" ~> frame.pc \in {"idle", "crashed"}

\* libusbp.h: "if a record of the interface cannot be found, then an error is returned
\* with the code LIBUSBP_ERROR_NOT_READY".  Here: no interface has the number during
\* the call, and the device stays plugged in.  What the code does when another device
\* vanishes from the list it walks over is different (udevw_get_interface).
MissingInterfaceIsNotReady ==
    /\ result.call \in {"interface", "port"}
    /\ ~watch.seen /\ ~watch.nomem
    /\ device.inst \in Connected
    => result.error = "not_ready"

\* libusbp.h: "a NULL pointer indicates success": a copy that could not be made is an
\* error (libusbp_generic_interface_copy).
CopyFailureIsReported ==
    result.call = "copy" /\ result.error = "none" => copied # NULL

\* libusbp.h: running out of memory is an error with the code LIBUSBP_ERROR_MEMORY; it
\* is not the end of the process (generic_handle_setup).
MemoryShortageIsAnError == frame.pc # "crashed"


-----------------------------------------------------------------------------
(***************************************************************************)
(* The inductive invariant, in named parts; that of the bus is in UsbBus.  *)
(***************************************************************************)

(* Where a call is: reading a device, looking for an interface or a tty. *)
Reading == {"idVendor", "idProduct", "bcdDevice", "serial"}
Listing == {"each"} \cup Reading
OfInterface == {"driver", "devnode", "access"}
OfTty == {"tty_scan", "tty", "tty_name"}
Searching == {"search", "check"} \cup OfInterface \cup OfTty

(***************************************************************************)
(* What the local variables and the objects of the user are in each place. *)
(***************************************************************************)
FrameInv ==
    /\ frame = [pc |-> frame.pc, call |-> frame.call, want |-> frame.want,
                todo |-> frame.todo, entry |-> frame.entry, obj |-> frame.obj,
                filename |-> frame.filename, no_handle |-> frame.no_handle]
    /\ frame.pc \in {"idle", "list", "find", "interface", "port", "open", "open_node",
                     "descriptor", "crashed"} \cup Listing \cup Searching
    /\ frame.pc = "idle" => frame = IdleFrame
    /\ frame.pc # "idle" => result = NoResult
    /\ frame.pc \in {"list", "find", "interface", "port", "open"} => frame.call = frame.pc
    /\ frame.pc \in {"list", "find"} => list = <<>>
    /\ frame.pc \in Listing => frame.call \in {"list", "find"}
    /\ frame.pc \in {"list", "find"} \cup Listing => device = NULL
    /\ frame.obj # NULL <=> frame.pc \in Reading
    /\ frame.pc \in {"interface", "port"} \cup Searching =>
            device # NULL /\ frame.want \in Interfaces
    /\ frame.pc \in Searching => frame.call \in {"interface", "port"}
    /\ frame.call = "interface" => gi = NULL
    /\ frame.call = "port" => port = NULL
    /\ frame.pc = "check" => frame.entry \in InterfacePaths
    /\ frame.pc \in OfInterface => frame.call = "interface" /\ frame.entry = Target
    /\ frame.pc \in OfTty => frame.call = "port" /\ frame.entry = Target
    /\ frame.pc = "access" => frame.filename # 0
    /\ frame.pc \in {"open", "open_node", "descriptor", "crashed"} =>
            gi # NULL /\ handle = NULL /\ frame.call = "open"
    /\ list # <<>> => device = NULL

(* The objects and file descriptors that the call in progress has made. *)
OwnDevices ==
    One(\/ frame.pc \in Reading \cup {"open_node", "descriptor", "crashed"}
        \/ frame.pc \in Searching /\ frame.call = "interface")

CountInv ==
    /\ devs = UserDevices + OwnDevices
    /\ fds = One(handle # NULL) + One(frame.pc \in {"descriptor", "crashed"})

(***************************************************************************)
(* A device object knows where its instance is, if that is plugged in.     *)
(***************************************************************************)
Located(d) ==
    /\ d.inst \in Instances
    /\ \A p \in Ports : at[p] = d.inst => p = d.port

ObjectInv ==
    /\ \A k \in DOMAIN list : Located(list[k])
    /\ device # NULL => Located(device)
    /\ frame.pc \in Reading => Located(frame.obj)
    /\ gi # NULL => Located(gi.device)
    /\ handle # NULL => Located(handle.device) /\ handle.inst \in Instances
    /\ frame.pc = "access" /\ device.inst \in Connected =>
            frame.filename = Address(device.inst)
    /\ frame.pc \in {"descriptor", "crashed"} => frame.entry \in Instances
    /\ frame.pc = "descriptor" /\ gi.device.inst \in Connected =>
            frame.entry = gi.device.inst

(* What is remembered of a call has the fields of NoWatch. *)
WatchInv ==
    watch = [stable |-> watch.stable, vanished |-> watch.vanished, seen |-> watch.seen,
             ready |-> watch.ready, nomem |-> watch.nomem]

(***************************************************************************)
(* While the interface has been ready since the call began, the search has *)
(* it still ahead, and finds what it needs.                                *)
(***************************************************************************)
ReadyInv ==
    frame.pc \in {"interface", "port"} \cup Searching /\ watch.ready =>
        /\ ReadyFor(frame.call, Target)
        /\ frame.pc = "search" => Target \in frame.todo
        /\ frame.pc = "check" => frame.entry = Target \/ Target \in frame.todo
        /\ frame.pc = "access" => frame.filename = Address(at[device.port])
        /\ frame.pc = "tty" => "tty" \in frame.todo
        /\ ~watch.vanished =>
            /\ frame.pc \in {"search", "check"} => frame.todo \subseteq Present
            /\ frame.pc = "check" => frame.entry \in Present
            /\ frame.pc = "tty" => frame.todo \subseteq udevw_create_child_list(frame.entry)

(***************************************************************************)
(* A list has a port once at most, and never one that is still to be       *)
(* looked at.  A device that has been there since the call began is ahead, *)
(* being read, or in the list, and what was read of it is right.           *)
(***************************************************************************)
OnceInv ==
    frame.pc \in Listing =>
        /\ \A k \in DOMAIN list : DevicePath(list[k].port) \notin frame.todo
        /\ \A j, k \in DOMAIN list : list[j].port = list[k].port => j = k
        /\ frame.pc \in Reading =>
            /\ DevicePath(frame.obj.port) \notin frame.todo
            /\ \A k \in DOMAIN list : list[k].port # frame.obj.port

StaysThere(s) ==
    /\ s[1] \in Ports
    /\ at[s[1]] = s[2] /\ s[2] \in initialized

ReadSoFar(d, n) ==
    /\ frame.pc # "idVendor" => d.vid = identity[n].vid
    /\ frame.pc \in {"bcdDevice", "serial"} => d.pid = identity[n].pid
    /\ frame.pc = "serial" => d.rev = identity[n].rev

StableInv ==
    frame.pc \in {"list", "find"} \cup Listing =>
        \A s \in watch.stable :
            /\ StaysThere(s)
            /\ \A k \in DOMAIN list : list[k].port = s[1] => Describes(list[k], s[1], s[2])
            /\ frame.pc \in Reading /\ frame.obj.port = s[1] => ReadSoFar(frame.obj, s[2])
            /\ frame.pc \in Listing /\ ~watch.nomem =>
                \/ DevicePath(s[1]) \in frame.todo
                \/ frame.pc \in Reading /\ frame.obj.port = s[1]
                \/ \E k \in DOMAIN list : list[k].port = s[1]

AccessInv ==
    /\ BusInv
    /\ TypeOK
    /\ FrameInv
    /\ CountInv
    /\ ObjectInv
    /\ HandleMatchesDevice
    /\ OpensListedDevice
    /\ WatchInv
    /\ ReadyInv
    /\ OnceInv
    /\ StableInv
=============================================================================
