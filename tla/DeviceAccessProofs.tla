------------------------- MODULE DeviceAccessProofs -------------------------
(***************************************************************************)
(* Proofs about DeviceAccess, for any number of ports, devices, interfaces *)
(* and addresses, and any number of failed allocations.                    *)
(***************************************************************************)
EXTENDS DeviceAccess, UsbBusProofs, FiniteSetTheorems, TLAPS

-----------------------------------------------------------------------------
(* Objects and local variables.                                            *)

CoreInv ==
    /\ TypeOK
    /\ FrameInv
    /\ CountInv
    /\ ObjectInv
    /\ HandleMatchesDevice
    /\ OpensListedDevice

(* A step inside of a call, with the new local variables written out. *)
Goes(pc, todo, entry, obj, filename, no_handle) ==
    /\ frame' = [pc |-> pc, call |-> frame.call, want |-> frame.want, todo |-> todo,
                 entry |-> entry, obj |-> obj, filename |-> filename,
                 no_handle |-> no_handle]
    /\ UNCHANGED <<busVars, result>>

LEMMA OneFacts ==
    /\ One(device # NULL) \in {0, 1} /\ One(gi # NULL) \in {0, 1}
    /\ One(copied \in {"device", "interface"}) \in {0, 1}
    /\ One(handle # NULL) \in {0, 1}
BY DEF One

LEMMA CountFacts ==
    ASSUME TypeOK
    PROVE  UserDevices \in Nat /\ OwnDevices \in {0, 1}
<1>1. Len(list) \in Nat
    BY DEF TypeOK
<1>2. /\ One(device # NULL) \in {0, 1} /\ One(gi # NULL) \in {0, 1}
      /\ One(copied \in {"device", "interface"}) \in {0, 1}
      /\ One(handle # NULL) \in {0, 1}
    BY OneFacts
<1>3. OwnDevices \in {0, 1}
    BY DEF OwnDevices, One
<1>4. UserDevices \in Nat
    BY <1>1, <1>2 DEF UserDevices
<1>. QED
    BY <1>3, <1>4

(* A call ends and frees what it had made. *)
LEMMA QuitCore ==
    ASSUME CoreInv, frame' = IdleFrame, result'.error \in Errors,
           ooms' \in 0..MaxOoms, devs' = devs - OwnDevices,
           fds' = fds - One(frame.pc \in {"descriptor", "crashed"}),
           UNCHANGED <<busVars, list, device, gi, copied, port, handle>>
    PROVE  CoreInv'
<1>1. frame'.pc = "idle" /\ frame'.call = "none" /\ frame'.obj = NULL /\ frame'.filename = 0
    BY DEF IdleFrame
<1>2. FrameInv'
    BY <1>1 DEF CoreInv, FrameInv, IdleFrame, Listing, Reading, Searching, OfInterface, OfTty
<1>3. /\ UserDevices' = UserDevices /\ UserDevices \in Nat
      /\ OwnDevices' = 0 /\ OwnDevices \in {0, 1}
    BY <1>1, CountFacts DEF CoreInv, UserDevices, OwnDevices, One, Reading, Searching,
           OfInterface, OfTty
<1>4. CountInv'
    BY <1>1, <1>3 DEF CoreInv, CountInv, One
<1>5. devs' \in Nat /\ fds' \in Nat
    BY <1>3, <1>4 DEF CountInv, One
<1>6. TypeOK'
    <2>1. BusTypeOK'
        BY DEF CoreInv, TypeOK, BusTypeOK, busVars, Instances
    <2>. QED
        BY <1>1, <1>5, <2>1, AddressAssumption DEF CoreInv, TypeOK, Pointers
<1>7. ObjectInv' /\ HandleMatchesDevice' /\ OpensListedDevice'
    BY <1>1 DEF CoreInv, ObjectInv, HandleMatchesDevice, OpensListedDevice, Located,
           Instances, Connected, Address, busVars, Reading
<1>. QED
    BY <1>2, <1>4, <1>6, <1>7 DEF CoreInv


(* A step from one place of a call to another. *)
LEMMA GoFrame ==
    ASSUME FrameInv, NEW pc, NEW todo, NEW entry, NEW obj, NEW filename, NEW no_handle,
           Goes(pc, todo, entry, obj, filename, no_handle),
           UNCHANGED <<device, gi, port, handle>>,
           obj # NULL <=> pc \in Reading,
           \/ /\ frame.pc \in {"list", "find"} \cup Listing
              /\ pc \in Listing
           \/ /\ frame.pc \in {"interface", "port"} \cup Searching
              /\ \/ pc = "search"
                 \/ pc = "check" /\ entry \in InterfacePaths
                 \/ /\ pc \in OfInterface /\ frame.call = "interface" /\ entry = Target
                    /\ pc = "access" => filename # 0
                 \/ pc \in OfTty /\ frame.call = "port" /\ entry = Target
              /\ list' = list
           \/ /\ frame.pc \in {"open", "open_node"}
              /\ pc \in {"open_node", "descriptor", "crashed"}
              /\ list' = list
    PROVE  FrameInv'
<1>1. /\ frame'.pc = pc /\ frame'.call = frame.call /\ frame'.want = frame.want
      /\ frame'.entry = entry /\ frame'.obj = obj /\ frame'.filename = filename
      /\ result' = result /\ Target' = Target
      /\ frame' = [pc |-> frame'.pc, call |-> frame'.call, want |-> frame'.want,
                   todo |-> frame'.todo, entry |-> frame'.entry, obj |-> frame'.obj,
                   filename |-> frame'.filename, no_handle |-> frame'.no_handle]
    BY DEF Goes, Target
<1>2. CASE /\ frame.pc \in {"list", "find"} \cup Listing
           /\ pc \in Listing
    BY <1>1, <1>2 DEF FrameInv, Listing, Reading, Searching, OfInterface, OfTty
<1>3. CASE /\ frame.pc \in {"interface", "port"} \cup Searching
           /\ \/ pc = "search"
              \/ pc = "check" /\ entry \in InterfacePaths
              \/ /\ pc \in OfInterface /\ frame.call = "interface" /\ entry = Target
                 /\ pc = "access" => filename # 0
              \/ pc \in OfTty /\ frame.call = "port" /\ entry = Target
           /\ list' = list
    BY <1>1, <1>3 DEF FrameInv, Listing, Reading, Searching, OfInterface, OfTty
<1>4. CASE /\ frame.pc \in {"open", "open_node"}
           /\ pc \in {"open_node", "descriptor", "crashed"}
           /\ list' = list
    BY <1>1, <1>4 DEF FrameInv, Listing, Reading, Searching, OfInterface, OfTty
<1>. QED
    BY <1>2, <1>3, <1>4

LEMMA CountType ==
    ASSUME list' \in Seq(Device), CountInv'
    PROVE  devs' \in Nat /\ fds' \in Nat
<1>1. Len(list') \in Nat
    OBVIOUS
<1>2. /\ One(device' # NULL) \in {0, 1} /\ One(gi' # NULL) \in {0, 1}
      /\ One(copied' \in {"device", "interface"}) \in {0, 1}
      /\ One(handle' # NULL) \in {0, 1}
      /\ One(frame'.pc \in {"descriptor", "crashed"}) \in {0, 1}
    BY DEF One
<1>3. OwnDevices' \in {0, 1}
    BY DEF OwnDevices, One
<1>4. UserDevices' \in Nat
    BY <1>1, <1>2 DEF UserDevices
<1>5. devs' = UserDevices' + OwnDevices'
    BY DEF CountInv
<1>6. fds' = One(handle' # NULL) + One(frame'.pc \in {"descriptor", "crashed"})
    BY DEF CountInv
<1>7. devs' \in Nat
    <2>1. \A u \in Nat, o \in {0, 1} : u + o \in Nat
        OBVIOUS
    <2>. QED
        BY <1>3, <1>4, <1>5, <2>1, Zenon
<1>8. fds' \in Nat
    BY <1>2, <1>6
<1>. QED
    BY <1>7, <1>8

(* The other parts, for a step inside of a call. *)
LEMMA GoCore ==
    ASSUME CoreInv, NEW pc, NEW todo, NEW entry, NEW obj, NEW filename, NEW no_handle,
           Goes(pc, todo, entry, obj, filename, no_handle), FrameInv',
           UNCHANGED <<device, gi, copied, port, handle>>,
           list' \in Seq(Device), \A k \in DOMAIN list' : Located(list'[k]),
           devs' = UserDevices' + OwnDevices',
           fds' = One(handle # NULL) + One(pc \in {"descriptor", "crashed"}),
           ooms' \in 0..MaxOoms,
           obj \in Pointers(Device), filename \in 0..MaxAddress,
           pc \in Reading => Located(obj),
           pc = "access" /\ device.inst \in Connected => filename = Address(device.inst),
           pc \in {"descriptor", "crashed"} => entry \in Instances,
           pc = "descriptor" /\ gi.device.inst \in Connected => entry = gi.device.inst
    PROVE  CoreInv'
<1>1. /\ frame'.pc = pc /\ frame'.entry = entry /\ frame'.obj = obj
      /\ frame'.filename = filename /\ result' = result
    BY DEF Goes
<1>2. CountInv'
    BY <1>1 DEF CountInv
<1>3. TypeOK'
    <2>1. BusTypeOK'
        BY DEF CoreInv, TypeOK, BusTypeOK, Goes, busVars, Instances
    <2>2. devs' \in Nat /\ fds' \in Nat
        BY <1>2, CountType
    <2>. QED
        BY <1>1, <2>1, <2>2 DEF CoreInv, TypeOK
<1>4. /\ Instances' = Instances /\ Connected' = Connected /\ at' = at
      /\ identity' = identity
    BY DEF Goes, busVars, Instances, Connected
<1>5. ObjectInv'
    BY <1>1, <1>4 DEF CoreInv, ObjectInv, Located, Address
<1>6. HandleMatchesDevice' /\ OpensListedDevice'
    BY <1>4 DEF CoreInv, HandleMatchesDevice, OpensListedDevice, Address
<1>. QED
    BY <1>2, <1>3, <1>5, <1>6 DEF CoreInv


(* A step that makes and frees nothing. *)
LEMMA WalkCore ==
    ASSUME CoreInv, NEW pc, NEW todo, NEW entry,
           Goes(pc, todo, entry, frame.obj, frame.filename, frame.no_handle),
           UNCHANGED objVars, ooms' \in 0..MaxOoms,
           \/ frame.pc \in {"list", "find", "each"} /\ pc = "each"
           \/ /\ frame.pc \in Searching
              /\ \/ pc = "search"
                 \/ pc = "check" /\ entry \in InterfacePaths
                 \/ pc \in {"driver", "devnode"} /\ frame.call = "interface" /\ entry = Target
                 \/ pc \in OfTty /\ frame.call = "port" /\ entry = Target
    PROVE  CoreInv'
<1>1. frame.pc \notin Reading /\ frame.obj = NULL /\ pc \notin Reading
    BY DEF CoreInv, FrameInv, Listing, Reading, Searching, OfInterface, OfTty
<1>2. FrameInv'
    BY <1>1, GoFrame DEF CoreInv, objVars, Listing, Reading, OfInterface, OfTty
<1>3. OwnDevices' = OwnDevices /\ UserDevices' = UserDevices
    BY DEF Goes, OwnDevices, UserDevices, objVars, One, Reading, Searching, OfInterface, OfTty
<1>4. frame.pc \notin {"descriptor", "crashed"} /\ pc \notin {"descriptor", "crashed", "access"}
    BY DEF Searching, OfInterface, OfTty
<1>5. devs' = UserDevices' + OwnDevices'
    BY <1>3 DEF CoreInv, CountInv, objVars
<1>6. fds' = One(handle # NULL) + One(pc \in {"descriptor", "crashed"})
    BY <1>4 DEF CoreInv, CountInv, objVars, One
<1>7. list' \in Seq(Device) /\ \A k \in DOMAIN list' : Located(list'[k])
    BY DEF CoreInv, TypeOK, ObjectInv, objVars
<1>8. frame.obj \in Pointers(Device) /\ frame.filename \in 0..MaxAddress
    BY DEF CoreInv, TypeOK
<1>. QED
    BY <1>1, <1>2, <1>4, <1>5, <1>6, <1>7, <1>8, GoCore DEF objVars

LEMMA OomsFacts ==
    ASSUME TypeOK, Allocates \/ OutOfMemory
    PROVE  ooms' \in 0..MaxOoms
BY OomsAssumption DEF TypeOK, Allocates, OutOfMemory

(* Listing. *)
LEMMA ListBeginCore == ASSUME CoreInv, list_begin PROVE CoreInv'
<1>0. /\ frame.pc \in {"list", "find"} /\ ooms' \in 0..MaxOoms /\ UNCHANGED objVars
    BY OomsFacts DEF list_begin, setup_out_of_memory, CoreInv
<1>1. CASE Continue([frame EXCEPT !.pc = "each", !.todo = udevw_create_usb_list])
    <2>1. Goes("each", udevw_create_usb_list, frame.entry, frame.obj, frame.filename,
               frame.no_handle)
        BY <1>1 DEF Continue, Goes, CoreInv, FrameInv
    <2>. QED
        BY <1>0, <2>1, WalkCore
<1>2. ASSUME NEW code \in {"memory", "other"}, Return(code) PROVE CoreInv'
    <2>1. OwnDevices = 0 /\ One(frame.pc \in {"descriptor", "crashed"}) = 0
        BY <1>0 DEF OwnDevices, One, Reading, Searching, OfInterface, OfTty
    <2>2. devs \in Nat /\ fds \in Nat
        BY DEF CoreInv, TypeOK
    <2>3. devs' = devs - OwnDevices /\ fds' = fds - One(frame.pc \in {"descriptor", "crashed"})
        BY <1>0, <2>1, <2>2 DEF objVars
    <2>. QED
        BY <1>0, <1>2, <2>3, QuitCore DEF Return, Errors, objVars
<1>. QED
    BY <1>1, <1>2 DEF list_begin, setup_out_of_memory

(* The path of a whole device. *)
LEMMA WholePath ==
    ASSUME NEW path \in SysPaths
    PROVE  /\ path[2] = WholeDevice => path[1] \in Ports /\ path = DevicePath(path[1])
           /\ path[2] # WholeDevice => path \in InterfacePaths
BY WholeDeviceAssumption DEF SysPaths, InterfacePaths, DevicePath

(* The bytes that a device object starts with. *)
LEMMA NewDevice ==
    ASSUME BusInv, NEW p \in Ports, at[p] # 0
    PROVE  LET d == DeviceFields(p, NULL, NULL, NULL, NULL, at[p])
           IN  d \in Device /\ Located(d) /\ d # NULL
<1>. DEFINE d == DeviceFields(p, NULL, NULL, NULL, NULL, at[p])
<1>1. at[p] \in 1..Len(identity) /\ at[p] \in 1..MaxPlugs
    BY ConnectedFacts, PlugsAssumption DEF BusInv, BusTypeOK
<1>2. d \in Device
    BY <1>1 DEF DeviceFields, Device, Pointers
<1>3. Located(d)
    BY <1>1 DEF Located, DeviceFields, Instances, BusInv
<1>. QED
    BY <1>2, <1>3, NullAssumption

LEMMA AddCore ==
    ASSUME BusInv, CoreInv, NEW path \in SysPaths, add_udev_device_to_list_if_needed(path)
    PROVE  CoreInv'
<1>0. /\ frame.pc = "each" /\ frame.obj = NULL /\ frame.pc \in Listing
      /\ UNCHANGED <<list, device, gi, copied, port, handle, fds>>
      /\ ooms' \in 0..MaxOoms
    BY OomsFacts DEF add_udev_device_to_list_if_needed, CoreInv, FrameInv, Listing, Reading
<1>. DEFINE todo == frame.todo \ {path}
            p == path[1]
            d == DeviceFields(p, NULL, NULL, NULL, NULL, at[p])
<1>1. CASE Continue(remains(path)) /\ UNCHANGED devs
    <2>1. Goes("each", todo, frame.entry, frame.obj, frame.filename, frame.no_handle)
        BY <1>0, <1>1 DEF Continue, Goes, remains, CoreInv, FrameInv
    <2>. QED
        BY <1>0, <1>1, <2>1, WalkCore DEF objVars
<1>2. CASE /\ ~Skipped(path) /\ devs' = devs + 1
           /\ Continue([remains(path) EXCEPT !.pc = "idVendor", !.obj = d])
    <2>1. Goes("idVendor", todo, frame.entry, d, frame.filename, frame.no_handle)
        <3>. HIDE DEF d
        <3>. QED
            BY <1>2 DEF Continue, Goes, remains, CoreInv, FrameInv
    <2>2. p \in Ports /\ at[p] # 0
        <3>1. p \in Ports /\ at[p] \in initialized
            BY <1>2, WholePath DEF Skipped
        <3>2. 0 \notin initialized
            BY ConnectedFacts DEF BusInv, BusTypeOK, Instances
        <3>. QED
            BY <3>1, <3>2
    <2>3. d \in Device /\ Located(d) /\ d # NULL
        BY <2>2, NewDevice
    <2>. HIDE DEF d
    <2>4. FrameInv'
        BY <1>0, <2>1, <2>3, GoFrame DEF CoreInv, Listing, Reading
    <2>5. OwnDevices' = 1 /\ OwnDevices = 0 /\ UserDevices' = UserDevices
        BY <1>0, <2>1 DEF Goes, OwnDevices, UserDevices, One, Reading, Searching, OfInterface, OfTty
    <2>6. devs' = UserDevices' + OwnDevices'
        BY <1>2, <2>5, CountFacts DEF CoreInv, CountInv
    <2>7. fds' = One(handle # NULL) + One("idVendor" \in {"descriptor", "crashed"})
        BY <1>0 DEF CoreInv, CountInv, One
    <2>8. list' \in Seq(Device) /\ \A k \in DOMAIN list' : Located(list'[k])
        BY <1>0 DEF CoreInv, TypeOK, ObjectInv
    <2>9. d \in Pointers(Device) /\ frame.filename \in 0..MaxAddress
        BY <2>3 DEF CoreInv, TypeOK, Pointers
    <2>. QED
        BY <1>0, <2>1, <2>3, <2>4, <2>6, <2>7, <2>8, <2>9, GoCore
<1>. QED
    BY <1>1, <1>2 DEF add_udev_device_to_list_if_needed


(* The object of a device that is being read. *)
LEMMA ReadingFacts ==
    ASSUME CoreInv, frame.pc \in Reading
    PROVE  /\ frame.obj \in Device /\ frame.obj # NULL /\ Located(frame.obj)
           /\ frame.obj.port \in Ports
           /\ OwnDevices = 1 /\ frame.pc \notin {"descriptor", "crashed"}
           /\ frame.pc \in Listing
<1>1. frame.obj \in Device /\ frame.obj # NULL
    BY NullAssumption DEF CoreInv, TypeOK, FrameInv, Pointers
<1>2. OwnDevices = 1 /\ frame.pc \notin {"descriptor", "crashed"} /\ frame.pc \in Listing
    BY DEF OwnDevices, One, Reading, Listing
<1>. QED
    BY <1>1, <1>2 DEF CoreInv, ObjectInv, Device

LEMMA DropCore ==
    ASSUME CoreInv, frame.pc \in Reading, drop_device, ooms' \in 0..MaxOoms,
           UNCHANGED <<device, gi, copied, port, handle, fds>>
    PROVE  CoreInv'
<1>1. Goes("each", frame.todo, frame.entry, NULL, frame.filename, frame.no_handle)
    BY DEF drop_device, Continue, Goes, CoreInv, FrameInv
<1>2. list' = list /\ devs' = devs - 1
    BY DEF drop_device
<1>3. FrameInv'
    BY <1>1, <1>2, ReadingFacts, GoFrame DEF CoreInv, Listing, Reading
<1>4. OwnDevices' = 0 /\ OwnDevices = 1 /\ UserDevices' = UserDevices
    BY <1>1, <1>2, ReadingFacts
       DEF Goes, OwnDevices, UserDevices, One, Reading, Searching, OfInterface, OfTty
<1>5. devs' = UserDevices' + OwnDevices'
    BY <1>2, <1>4, CountFacts DEF CoreInv, CountInv
<1>6. fds' = One(handle # NULL) + One("each" \in {"descriptor", "crashed"})
    BY ReadingFacts DEF CoreInv, CountInv, One
<1>7. list' \in Seq(Device) /\ \A k \in DOMAIN list' : Located(list'[k])
    BY <1>2 DEF CoreInv, TypeOK, ObjectInv
<1>8. NULL \in Pointers(Device) /\ frame.filename \in 0..MaxAddress /\ "each" \notin Reading
    BY DEF CoreInv, TypeOK, Pointers, Reading
<1>. QED
    BY <1>1, <1>3, <1>5, <1>6, <1>7, <1>8, GoCore

LEMMA ReadCore ==
    ASSUME CoreInv, frame.pc \in Reading, NEW pc \in Reading, NEW obj \in Device,
           obj.port = frame.obj.port, obj.inst = frame.obj.inst,
           Goes(pc, frame.todo, frame.entry, obj, frame.filename, frame.no_handle),
           UNCHANGED objVars, ooms' \in 0..MaxOoms
    PROVE  CoreInv'
<1>1. obj # NULL /\ Located(obj) /\ pc \in Listing
    BY ReadingFacts, NullAssumption DEF Located, Listing
<1>2. FrameInv'
    BY <1>1, ReadingFacts, GoFrame DEF CoreInv, objVars
<1>3. OwnDevices' = 1 /\ UserDevices' = UserDevices
    BY DEF Goes, OwnDevices, UserDevices, One, objVars
<1>4. devs' = UserDevices' + OwnDevices'
    BY <1>3, ReadingFacts DEF CoreInv, CountInv, objVars
<1>5. pc \notin {"descriptor", "crashed", "access"}
    BY DEF Reading
<1>6. fds' = One(handle # NULL) + One(pc \in {"descriptor", "crashed"})
    BY <1>5, ReadingFacts DEF CoreInv, CountInv, One, objVars
<1>7. list' \in Seq(Device) /\ \A k \in DOMAIN list' : Located(list'[k])
    BY DEF CoreInv, TypeOK, ObjectInv, objVars
<1>8. obj \in Pointers(Device) /\ frame.filename \in 0..MaxAddress
    BY DEF CoreInv, TypeOK, Pointers
<1>. QED
    BY <1>1, <1>2, <1>4, <1>5, <1>6, <1>7, <1>8, GoCore DEF objVars

(* What is read from sysfs is of the device that is at the port. *)
LEMMA ModelFacts ==
    ASSUME BusInv, NEW p \in Ports, DevicePath(p) \in Present
    PROVE  at[p] \in Instances /\ identity[at[p]] \in Models /\ at[p] # 0
<1>1. DevicePath(p) \notin ifaces
    BY WholeDeviceAssumption DEF DevicePath, BusInv, BusTypeOK, InterfacePaths
<1>2. at[p] # 0
    BY <1>1 DEF Present, DevicePath
<1>3. at[p] \in 1..Len(identity) /\ identity \in Seq(Models)
    BY <1>2, ConnectedFacts DEF BusInv, BusTypeOK
<1>. QED
    BY <1>2, <1>3 DEF Instances

LEMMA SysattrCore ==
    ASSUME BusInv, CoreInv, NEW attr \in Reading, NEW next \in Reading, NEW obj,
           get_sysattr(attr, next, obj),
           ObjPresent => /\ obj \in Device
                         /\ obj.port = frame.obj.port /\ obj.inst = frame.obj.inst
    PROVE  CoreInv'
<1>0. /\ frame.pc \in Reading /\ UNCHANGED <<device, gi, copied, port, handle, fds>>
      /\ ooms' \in 0..MaxOoms
    BY OomsFacts DEF get_sysattr, CoreInv
<1>1. CASE /\ ObjPresent /\ Continue([frame EXCEPT !.pc = next, !.obj = obj])
           /\ UNCHANGED <<list, devs>>
    <2>1. Goes(next, frame.todo, frame.entry, obj, frame.filename, frame.no_handle)
        BY <1>1 DEF Continue, Goes, CoreInv, FrameInv
    <2>. QED
        BY <1>0, <1>1, <2>1, ReadCore DEF objVars
<1>2. CASE drop_device
    BY <1>0, <1>2, DropCore
<1>. QED
    BY <1>1, <1>2 DEF get_sysattr

LEMMA ReadIdsCore == ASSUME BusInv, CoreInv, read_ids PROVE CoreInv'
<1>0. frame.pc \in Reading
    BY DEF read_ids, get_sysattr, Reading
<1>1. frame.obj \in Device /\ frame.obj.port \in Ports
    BY <1>0, ReadingFacts
<1>2. ObjPresent => ObjModel \in Models
    BY <1>1, ModelFacts DEF ObjPresent, ObjModel
<1>. DEFINE vid == [frame.obj EXCEPT !.vid = ObjModel.vid]
            pid == [frame.obj EXCEPT !.pid = ObjModel.pid]
            rev == [frame.obj EXCEPT !.rev = ObjModel.rev]
<1>3. ObjPresent => /\ vid \in Device
                    /\ vid.port = frame.obj.port /\ vid.inst = frame.obj.inst
    BY <1>1, <1>2 DEF Device, Pointers
<1>4. ObjPresent => /\ pid \in Device
                    /\ pid.port = frame.obj.port /\ pid.inst = frame.obj.inst
    BY <1>1, <1>2 DEF Device, Pointers
<1>5. ObjPresent => /\ rev \in Device
                    /\ rev.port = frame.obj.port /\ rev.inst = frame.obj.inst
    BY <1>1, <1>2 DEF Device, Pointers
<1>6. /\ "idVendor" \in Reading /\ "idProduct" \in Reading
      /\ "bcdDevice" \in Reading /\ "serial" \in Reading
    BY DEF Reading
<1>7. \/ get_sysattr("idVendor", "idProduct", vid)
      \/ get_sysattr("idProduct", "bcdDevice", pid)
      \/ get_sysattr("bcdDevice", "serial", rev)
    BY DEF read_ids
<1>. HIDE DEF vid, pid, rev
<1>. QED
    BY <1>3, <1>4, <1>5, <1>6, <1>7, SysattrCore

(* A complete object joins the list. *)
LEMMA AppendCore ==
    ASSUME CoreInv, frame.pc \in Reading, NEW d \in Device,
           d.port = frame.obj.port, d.inst = frame.obj.inst,
           list' = Append(list, d),
           Goes("each", frame.todo, frame.entry, NULL, frame.filename, frame.no_handle),
           UNCHANGED <<device, gi, copied, port, handle, devs, fds>>, ooms' \in 0..MaxOoms
    PROVE  CoreInv'
<1>1. FrameInv'
    BY ReadingFacts, GoFrame DEF CoreInv, Listing, Reading
<1>2. /\ list \in Seq(Device) /\ list' \in Seq(Device)
      /\ Len(list') = Len(list) + 1 /\ list'[Len(list) + 1] = d
      /\ \A k \in 1..Len(list) : list'[k] = list[k]
    BY DEF CoreInv, TypeOK
<1>3. \A k \in DOMAIN list' : Located(list'[k])
    <2>1. Located(d)
        BY ReadingFacts DEF Located
    <2>2. \A k \in 1..Len(list) : Located(list[k])
        BY <1>2 DEF CoreInv, ObjectInv
    <2>. QED
        BY <1>2, <2>1, <2>2
<1>4. OwnDevices' = 0 /\ OwnDevices = 1 /\ UserDevices' = UserDevices + 1
    <2>1. OwnDevices' = 0 /\ OwnDevices = 1
        BY ReadingFacts DEF Goes, OwnDevices, One, Reading, Searching, OfInterface, OfTty
    <2>2. Len(list') = Len(list) + 1 /\ Len(list) \in Nat
        BY <1>2
    <2>3. UserDevices' = UserDevices + 1
        <3>. DEFINE rest == One(device # NULL) + One(gi # NULL)
                                + One(copied \in {"device", "interface"}) + One(handle # NULL)
        <3>1. rest \in Int
            BY OneFacts
        <3>2. UserDevices = Len(list) + rest /\ UserDevices' = Len(list') + rest
            BY <2>2, OneFacts DEF UserDevices
        <3>. QED
            BY <2>2, <3>1, <3>2
    <2>. QED
        BY <2>1, <2>3
<1>5. devs' = UserDevices' + OwnDevices'
    BY <1>4, CountFacts DEF CoreInv, CountInv
<1>6. fds' = One(handle # NULL) + One("each" \in {"descriptor", "crashed"})
    BY ReadingFacts DEF CoreInv, CountInv, One
<1>7. NULL \in Pointers(Device) /\ frame.filename \in 0..MaxAddress /\ "each" \notin Reading
    BY DEF CoreInv, TypeOK, Pointers, Reading
<1>. QED
    BY <1>1, <1>2, <1>3, <1>5, <1>6, <1>7, GoCore

(* What the serial number is read as. *)
LEMMA SerialFacts ==
    ASSUME BusInv, CoreInv, frame.pc = "serial"
    PROVE  LET d == [frame.obj EXCEPT
                        !.serial = udevw_get_sysattr_if_exists_copy(frame.obj.port)]
           IN  d \in Device /\ d.port = frame.obj.port /\ d.inst = frame.obj.inst
<1>0. frame.obj \in Device /\ frame.obj.port \in Ports
    BY ReadingFacts DEF Reading
<1>1. udevw_get_sysattr_if_exists_copy(frame.obj.port) \in Pointers({m.serial : m \in Models})
    BY <1>0, ModelFacts DEF udevw_get_sysattr_if_exists_copy, Pointers
<1>. QED
    BY <1>0, <1>1 DEF Device

LEMMA SerialCore == ASSUME BusInv, CoreInv, read_serial PROVE CoreInv'
<1>0. /\ frame.pc = "serial" /\ frame.pc \in Reading
      /\ UNCHANGED <<device, gi, copied, port, handle, fds>>
      /\ ooms' \in 0..MaxOoms
    BY OomsFacts DEF read_serial, add_udev_device_to_list, Reading, CoreInv
<1>. DEFINE d == [frame.obj EXCEPT
                     !.serial = udevw_get_sysattr_if_exists_copy(frame.obj.port)]
<1>1. d \in Device /\ d.port = frame.obj.port /\ d.inst = frame.obj.inst
    BY <1>0, SerialFacts
<1>2. add_udev_device_to_list(d)
    BY DEF read_serial
<1>. HIDE DEF d
<1>3. CASE /\ device_list_append(d) /\ Continue([frame EXCEPT !.pc = "each", !.obj = NULL])
           /\ UNCHANGED devs
    <2>1. Goes("each", frame.todo, frame.entry, NULL, frame.filename, frame.no_handle)
        BY <1>3 DEF Continue, Goes, CoreInv, FrameInv
    <2>. QED
        BY <1>0, <1>1, <1>3, <2>1, AppendCore DEF device_list_append
<1>4. CASE drop_device
    BY <1>0, <1>4, DropCore
<1>. QED
    BY <1>2, <1>3, <1>4 DEF add_udev_device_to_list


(***************************************************************************)
(* What the user holds between calls.                                      *)
(***************************************************************************)
UserInv ==
    /\ list \in Seq(Device) /\ device \in Pointers(Device) /\ gi \in Pointers(Interface)
    /\ copied \in Pointers(CopyKinds) /\ port \in Pointers(InterfacePaths)
    /\ handle \in Pointers(Handle)
    /\ \A k \in DOMAIN list : Located(list[k])
    /\ device # NULL => Located(device)
    /\ gi # NULL => Located(gi.device)
    /\ handle # NULL => Located(handle.device) /\ handle.inst \in Instances
    /\ list # <<>> => device = NULL
    /\ HandleMatchesDevice
    /\ OpensListedDevice

LEMMA CoreUser == CoreInv => UserInv
BY DEF CoreInv, TypeOK, FrameInv, ObjectInv, UserInv

LEMMA IdleCore ==
    ASSUME CoreInv, UNCHANGED busVars, frame' = IdleFrame, result'.error \in Errors,
           ooms' \in 0..MaxOoms, UserInv', devs' = UserDevices',
           fds' = One(handle' # NULL)
    PROVE  CoreInv'
<1>1. frame'.pc = "idle" /\ frame'.call = "none" /\ frame'.obj = NULL /\ frame'.filename = 0
    BY DEF IdleFrame
<1>2. FrameInv'
    BY <1>1 DEF UserInv, FrameInv, IdleFrame, Listing, Reading, Searching, OfInterface, OfTty
<1>3. OwnDevices' = 0
    BY <1>1 DEF OwnDevices, One, Reading, Searching, OfInterface, OfTty
<1>4. list' \in Seq(Device)
    BY DEF UserInv
<1>5. UserDevices' \in Nat
    <2>1. Len(list') \in Nat
        BY <1>4
    <2>2. /\ One(device' # NULL) \in {0, 1} /\ One(gi' # NULL) \in {0, 1}
          /\ One(copied' \in {"device", "interface"}) \in {0, 1}
          /\ One(handle' # NULL) \in {0, 1}
        BY DEF One
    <2>. QED
        BY <2>1, <2>2 DEF UserDevices
<1>6. CountInv'
    <2>1. One(frame'.pc \in {"descriptor", "crashed"}) = 0 /\ One(handle' # NULL) \in {0, 1}
        BY <1>1 DEF One
    <2>2. \A u \in Nat : u + 0 = u
        OBVIOUS
    <2>3. devs' = UserDevices' + OwnDevices'
        BY <1>3, <1>5, <2>2, Zenon
    <2>4. fds' = One(handle' # NULL) + One(frame'.pc \in {"descriptor", "crashed"})
        BY <2>1
    <2>. QED
        BY <2>3, <2>4 DEF CountInv
<1>7. TypeOK'
    <2>1. BusTypeOK'
        BY DEF CoreInv, TypeOK, BusTypeOK, busVars, Instances
    <2>2. devs' \in Nat /\ fds' \in Nat
        BY <1>4, <1>6, CountType
    <2>. QED
        BY <1>1, <2>1, <2>2, AddressAssumption DEF TypeOK, UserInv, Pointers
<1>8. ObjectInv'
    BY <1>1 DEF UserInv, ObjectInv, Reading
<1>. QED
    BY <1>2, <1>6, <1>7, <1>8 DEF CoreInv, UserInv

(* A call that has made nothing ends. *)
LEMMA EndCore ==
    ASSUME CoreInv, frame.pc \in {"list", "find", "each", "interface", "port", "open"},
           frame' = IdleFrame, result'.error \in Errors, ooms' \in 0..MaxOoms,
           UNCHANGED <<busVars, objVars>>
    PROVE  CoreInv'
<1>1. OwnDevices = 0 /\ One(frame.pc \in {"descriptor", "crashed"}) = 0
    BY DEF OwnDevices, One, Reading, Searching, OfInterface, OfTty
<1>2. devs \in Nat /\ fds \in Nat
    BY DEF CoreInv, TypeOK
<1>3. devs' = devs - OwnDevices /\ fds' = fds - One(frame.pc \in {"descriptor", "crashed"})
    BY <1>1, <1>2 DEF objVars
<1>. QED
    BY <1>3, QuitCore DEF objVars

LEMMA ListReturnCore == ASSUME CoreInv, list_return PROVE CoreInv'
<1>1. ooms' \in 0..MaxOoms
    BY DEF list_return, CoreInv, TypeOK
<1>. QED
    BY <1>1, EndCore DEF list_return, Return, Errors

(* Of a list one device is kept, or none (find_return, list_free). *)
LEMMA ListGoneCore ==
    ASSUME CoreInv, frame.pc \in {"each", "idle"}, device = NULL, frame' = IdleFrame,
           result'.error \in Errors, ooms' \in 0..MaxOoms, list' = <<>>,
           \/ device' = NULL /\ devs' = devs - Len(list)
           \/ \E k \in DOMAIN list : device' = list[k] /\ devs' = devs - (Len(list) - 1),
           UNCHANGED <<busVars, gi, copied, port, handle, fds>>
    PROVE  CoreInv'
<1>0. UserInv
    BY CoreUser
<1>1. list \in Seq(Device) /\ Len(list) \in Nat
    BY <1>0 DEF UserInv
<1>2. /\ device' \in Pointers(Device)
      /\ device' # NULL => Located(device')
    BY <1>0 DEF UserInv, Pointers
<1>3. /\ Instances' = Instances /\ Connected' = Connected /\ at' = at /\ identity' = identity
    BY DEF busVars, Instances, Connected
<1>4. HandleMatchesDevice' /\ OpensListedDevice'
    BY <1>0, <1>3 DEF UserInv, HandleMatchesDevice, OpensListedDevice, Address
<1>5. UserInv'
    BY <1>0, <1>2, <1>3, <1>4 DEF UserInv, Located
<1>6. OwnDevices = 0 /\ One(frame.pc \in {"descriptor", "crashed"}) = 0
    BY DEF OwnDevices, One, Reading, Searching, OfInterface, OfTty
<1>7. devs' = UserDevices'
    <2>. DEFINE rest == One(gi # NULL) + One(copied \in {"device", "interface"})
                            + One(handle # NULL)
    <2>1. rest \in Nat
        BY OneFacts
    <2>2. UserDevices = Len(list) + rest
        <3>1. One(device # NULL) = 0
            BY DEF One
        <3>. QED
            BY <1>1, <3>1, OneFacts DEF UserDevices
    <2>3. CASE device' = NULL /\ devs' = devs - Len(list)
        <3>1. UserDevices' = rest
            BY <2>3, OneFacts DEF UserDevices, One
        <3>. HIDE DEF rest
        <3>. QED
            BY <1>1, <1>6, <2>1, <2>2, <2>3, <3>1 DEF CoreInv, CountInv
    <2>4. CASE \E k \in DOMAIN list : device' = list[k] /\ devs' = devs - (Len(list) - 1)
        <3>1. device' # NULL
            BY <1>1, <2>4, NullAssumption
        <3>2. UserDevices' = 1 + rest
            BY <3>1, OneFacts DEF UserDevices, One
        <3>. HIDE DEF rest
        <3>. QED
            BY <1>1, <1>6, <2>1, <2>2, <2>4, <3>2 DEF CoreInv, CountInv
    <2>. QED
        BY <2>3, <2>4
<1>8. fds' = One(handle' # NULL)
    BY <1>6 DEF CoreInv, CountInv, One
<1>. QED
    BY <1>5, <1>7, <1>8, IdleCore

LEMMA FindReturnCore == ASSUME CoreInv, find_return PROVE CoreInv'
<1>1. frame.pc = "each" /\ device = NULL /\ list' = <<>>
    BY DEF find_return, CoreInv, FrameInv, Listing
<1>2. frame' = IdleFrame /\ result'.error \in Errors /\ ooms' \in 0..MaxOoms
    BY DEF find_return, Return, Errors, CoreInv, TypeOK
<1>3. \/ device' = NULL /\ devs' = devs - Len(list)
      \/ \E k \in DOMAIN list : device' = list[k] /\ devs' = devs - (Len(list) - 1)
    BY DEF find_return, Candidates
<1>. QED
    BY <1>1, <1>2, <1>3, ListGoneCore DEF find_return, Return


(* Searching. *)
LEMMA AddressType == ASSUME NEW n \in Nat \ {0} PROVE Address(n) \in 1..MaxAddress
<1>1. n - 1 \in Nat /\ MaxAddress \in Nat /\ MaxAddress > 0
    BY AddressAssumption
<1>2. (n - 1) % MaxAddress \in 0..MaxAddress - 1
    BY <1>1
<1>. QED
    BY <1>1, <1>2 DEF Address

(* The search is given up, and what it made is freed. *)
LEMMA SearchEndsCore ==
    ASSUME CoreInv, frame.pc \in Searching, frame' = IdleFrame, result'.error \in Errors,
           Allocates \/ OutOfMemory,
           devs' = IF frame.call = "interface" THEN devs - 1 ELSE devs,
           UNCHANGED <<busVars, list, device, gi, copied, port, handle, fds>>
    PROVE  CoreInv'
<1>1. OwnDevices = IF frame.call = "interface" THEN 1 ELSE 0
    BY DEF OwnDevices, One, Reading, Searching, OfInterface, OfTty
<1>2. One(frame.pc \in {"descriptor", "crashed"}) = 0
    BY DEF One, Searching, OfInterface, OfTty
<1>3. devs \in Nat /\ fds \in Nat
    BY DEF CoreInv, TypeOK
<1>4. devs' = devs - OwnDevices /\ fds' = fds - One(frame.pc \in {"descriptor", "crashed"})
    BY <1>1, <1>2, <1>3
<1>5. ooms' \in 0..MaxOoms
    BY OomsFacts DEF CoreInv
<1>. QED
    BY <1>4, <1>5, QuitCore

LEMMA GiveUpCore ==
    ASSUME CoreInv, frame.pc \in Searching, NEW error \in Errors, give_up(error)
    PROVE  CoreInv'
<1>1. frame' = IdleFrame /\ result'.error \in Errors /\ UNCHANGED busVars
    BY DEF give_up, Fail, Return, Errors
<1>2. Allocates \/ OutOfMemory
    BY DEF give_up, Fail
<1>. QED
    BY <1>1, <1>2, SearchEndsCore DEF give_up

LEMMA SearchMemoryCore == ASSUME CoreInv, search_out_of_memory PROVE CoreInv'
<1>1. frame.pc \in Searching
    BY DEF search_out_of_memory, Searching, OfInterface, OfTty
<1>2. frame' = IdleFrame /\ result'.error \in Errors /\ UNCHANGED busVars /\ OutOfMemory
    BY DEF search_out_of_memory, Return, Errors
<1>. QED
    BY <1>1, <1>2, SearchEndsCore DEF search_out_of_memory

LEMMA SearchBeginCore == ASSUME CoreInv, search_begin PROVE CoreInv'
<1>0. /\ frame.pc \in {"interface", "port"} /\ frame.call = frame.pc /\ frame.obj = NULL
      /\ ooms' \in 0..MaxOoms
      /\ UNCHANGED <<list, device, gi, copied, port, handle, fds>>
    BY OomsFacts DEF search_begin, setup_out_of_memory, CoreInv, FrameInv, Reading
<1>1. CASE /\ Continue([frame EXCEPT !.pc = "search", !.todo = udevw_create_usb_list])
           /\ IF frame.call = "interface" THEN libusbp_device_copy ELSE UNCHANGED devs
    <2>1. Goes("search", udevw_create_usb_list, frame.entry, frame.obj, frame.filename,
               frame.no_handle)
        BY <1>1 DEF Continue, Goes, CoreInv, FrameInv
    <2>2. FrameInv'
        BY <1>0, <2>1, GoFrame DEF CoreInv, Reading
    <2>3. /\ OwnDevices' = IF frame.call = "interface" THEN 1 ELSE 0
          /\ OwnDevices = 0 /\ UserDevices' = UserDevices
        BY <1>0, <2>1 DEF Goes, OwnDevices, UserDevices, One, Reading, Searching,
               OfInterface, OfTty
    <2>4. devs' = UserDevices' + OwnDevices'
        BY <1>1, <2>3, CountFacts DEF CoreInv, CountInv, libusbp_device_copy
    <2>5. fds' = One(handle # NULL) + One("search" \in {"descriptor", "crashed"})
        BY <1>0 DEF CoreInv, CountInv, One
    <2>6. list' \in Seq(Device) /\ \A k \in DOMAIN list' : Located(list'[k])
        BY <1>0 DEF CoreInv, TypeOK, ObjectInv
    <2>7. /\ frame.obj \in Pointers(Device) /\ frame.filename \in 0..MaxAddress
          /\ "search" \notin Reading
        BY DEF CoreInv, TypeOK, Reading
    <2>. QED
        BY <1>0, <2>1, <2>2, <2>4, <2>5, <2>6, <2>7, GoCore
<1>2. ASSUME NEW code \in {"memory", "other"}, Return(code), UNCHANGED devs
      PROVE  CoreInv'
    BY <1>0, <1>2, EndCore DEF Return, Errors, objVars
<1>. QED
    BY <1>1, <1>2 DEF search_begin, setup_out_of_memory

LEMMA SearchingFacts ==
    ASSUME CoreInv, frame.pc \in Searching
    PROVE  /\ frame.obj = NULL /\ frame.pc \notin Reading /\ device \in Device
           /\ device.port \in Ports /\ Target \in InterfacePaths
           /\ frame.call \in {"interface", "port"}
<1>1. /\ frame.obj = NULL /\ frame.pc \notin Reading /\ device # NULL
      /\ frame.want \in Interfaces /\ frame.call \in {"interface", "port"}
    BY DEF CoreInv, FrameInv, Searching, OfInterface, OfTty, Reading
<1>2. device \in Device
    BY <1>1 DEF CoreInv, TypeOK, Pointers
<1>. QED
    BY <1>1, <1>2 DEF Device, Target, InterfacePaths

LEMMA EntryCore ==
    ASSUME CoreInv, NEW path \in SysPaths, get_interface_entry(path)
    PROVE  CoreInv'
<1>0. frame.pc = "search" /\ frame.pc \in Searching
    BY DEF get_interface_entry, Searching
<1>. DEFINE todo == frame.todo \ {path}
<1>1. CASE entry_gone
    BY <1>0, <1>1, GiveUpCore DEF entry_gone, Errors
<1>2. CASE proceed([frame EXCEPT !.todo = @ \ {path}])
    <2>1. Goes("search", todo, frame.entry, frame.obj, frame.filename, frame.no_handle)
        BY <1>0, <1>2 DEF proceed, Continue, Goes, CoreInv, FrameInv
    <2>2. ooms' \in 0..MaxOoms /\ UNCHANGED objVars
        BY <1>2, OomsFacts DEF proceed, CoreInv
    <2>. QED
        BY <1>0, <2>1, <2>2, WalkCore
<1>3. CASE /\ path[2] # WholeDevice
           /\ proceed([[frame EXCEPT !.todo = @ \ {path}] EXCEPT !.pc = "check", !.entry = path])
    <2>1. Goes("check", todo, path, frame.obj, frame.filename, frame.no_handle)
        BY <1>3 DEF proceed, Continue, Goes, CoreInv, FrameInv
    <2>2. ooms' \in 0..MaxOoms /\ UNCHANGED objVars
        BY <1>3, OomsFacts DEF proceed, CoreInv
    <2>3. path \in InterfacePaths
        BY <1>3, WholePath
    <2>. QED
        BY <1>0, <2>1, <2>2, <2>3, WalkCore
<1>. QED
    BY <1>1, <1>2, <1>3 DEF get_interface_entry

LEMMA CheckCore == ASSUME CoreInv, check_interface PROVE CoreInv'
<1>0. frame.pc = "check" /\ frame.pc \in Searching
    BY DEF check_interface, Searching
<1>1. CASE entry_gone
    BY <1>0, <1>1, GiveUpCore DEF entry_gone, Errors
<1>2. CASE wrong_interface
    <2>1. Goes("search", frame.todo, NULL, frame.obj, frame.filename, frame.no_handle)
        BY <1>2 DEF wrong_interface, proceed, Continue, Goes, CoreInv, FrameInv
    <2>2. ooms' \in 0..MaxOoms /\ UNCHANGED objVars
        BY <1>2, OomsFacts DEF wrong_interface, proceed, CoreInv
    <2>. QED
        BY <1>0, <2>1, <2>2, WalkCore
<1>3. CASE /\ frame.entry = Target
           /\ proceed([frame EXCEPT !.pc = IF frame.call = "port" THEN "tty_scan" ELSE "driver",
                                    !.todo = {}])
    <2>. DEFINE pc == IF frame.call = "port" THEN "tty_scan" ELSE "driver"
    <2>1. Goes(pc, {}, frame.entry, frame.obj, frame.filename, frame.no_handle)
        <3>1. frame' = [frame EXCEPT !.pc = pc, !.todo = {}] /\ UNCHANGED <<busVars, result>>
            BY <1>3 DEF proceed, Continue
        <3>. HIDE DEF pc
        <3>. QED
            BY <3>1 DEF Goes, CoreInv, FrameInv
    <2>2. ooms' \in 0..MaxOoms /\ UNCHANGED objVars
        BY <1>3, OomsFacts DEF proceed, CoreInv
    <2>3. \/ pc = "driver" /\ frame.call = "interface"
          \/ pc = "tty_scan" /\ frame.call = "port" /\ pc \in OfTty
        BY <1>0, SearchingFacts DEF OfTty
    <2>. HIDE DEF pc
    <2>. QED
        BY <1>0, <1>3, <2>1, <2>2, <2>3, WalkCore
<1>. QED
    BY <1>1, <1>2, <1>3 DEF check_interface

LEMMA DriverCore == ASSUME CoreInv, check_driver_installation PROVE CoreInv'
<1>0. /\ frame.pc = "driver" /\ frame.pc \in Searching
      /\ frame.call = "interface" /\ frame.entry = Target
    BY DEF check_driver_installation, Searching, OfInterface, CoreInv, FrameInv
<1>1. CASE give_up("other")
    BY <1>0, <1>1, GiveUpCore DEF Errors
<1>2. CASE proceed([frame EXCEPT !.pc = "devnode"])
    <2>1. Goes("devnode", frame.todo, frame.entry, frame.obj, frame.filename, frame.no_handle)
        BY <1>2 DEF proceed, Continue, Goes, CoreInv, FrameInv
    <2>2. ooms' \in 0..MaxOoms /\ UNCHANGED objVars
        BY <1>2, OomsFacts DEF proceed, CoreInv
    <2>. QED
        BY <1>0, <2>1, <2>2, WalkCore
<1>. QED
    BY <1>1, <1>2 DEF check_driver_installation


LEMMA DevnodeCore == ASSUME BusInv, CoreInv, get_devnode PROVE CoreInv'
<1>0. /\ frame.pc = "devnode" /\ frame.pc \in Searching
      /\ frame.call = "interface" /\ frame.entry = Target
    BY DEF get_devnode, Searching, OfInterface, CoreInv, FrameInv
<1>1. CASE give_up("other")
    BY <1>0, <1>1, GiveUpCore DEF Errors
<1>2. CASE /\ DevicePath(device.port) \in Present
           /\ proceed([frame EXCEPT !.pc = "access", !.filename = devnode_of(device.port)])
    <2>. DEFINE filename == devnode_of(device.port)
    <2>1. Goes("access", frame.todo, frame.entry, frame.obj, filename, frame.no_handle)
        BY <1>2 DEF proceed, Continue, Goes, CoreInv, FrameInv
    <2>2. ooms' \in 0..MaxOoms /\ UNCHANGED objVars
        BY <1>2, OomsFacts DEF proceed, CoreInv
    <2>3. filename \in 1..MaxAddress /\ filename = Address(at[device.port])
        <3>1. at[device.port] \in Nat \ {0}
            BY <1>0, <1>2, ModelFacts, SearchingFacts, ConnectedFacts DEF Instances
        <3>. QED
            BY <3>1, AddressType DEF devnode_of
    <2>. HIDE DEF filename
    <2>4. filename # 0 /\ filename \in 0..MaxAddress
        BY <2>3
    <2>5. FrameInv'
        BY <1>0, <2>1, <2>2, <2>4, GoFrame, SearchingFacts
           DEF CoreInv, objVars, OfInterface, Reading
    <2>6. OwnDevices' = OwnDevices /\ UserDevices' = UserDevices
        BY <1>0, <2>1, <2>2 DEF Goes, OwnDevices, UserDevices, One, objVars, Reading, Searching,
               OfInterface, OfTty
    <2>7. devs' = UserDevices' + OwnDevices'
        BY <2>2, <2>6 DEF CoreInv, CountInv, objVars
    <2>8. fds' = One(handle # NULL) + One("access" \in {"descriptor", "crashed"})
        BY <1>0, <2>2 DEF CoreInv, CountInv, One, objVars
    <2>9. list' \in Seq(Device) /\ \A k \in DOMAIN list' : Located(list'[k])
        BY <2>2 DEF CoreInv, TypeOK, ObjectInv, objVars
    <2>10. frame.obj \in Pointers(Device) /\ "access" \notin Reading
        BY DEF CoreInv, TypeOK, Reading
    <2>11. device.inst \in Connected => filename = Address(device.inst)
        <3>1. Located(device)
            BY <1>0, SearchingFacts, NullAssumption DEF CoreInv, ObjectInv
        <3>2. device.inst \in Connected => at[device.port] = device.inst
            BY <3>1, ConnectedFacts DEF Located
        <3>. QED
            BY <2>3, <3>2
    <2>. QED
        BY <2>1, <2>2, <2>4, <2>5, <2>7, <2>8, <2>9, <2>10, <2>11, GoCore DEF objVars
<1>. QED
    BY <1>1, <1>2 DEF get_devnode, udevw_get_device_from_syspath

(* A call hands a new object to the user. *)
LEMMA ExistenceCore == ASSUME CoreInv, check_existence PROVE CoreInv'
<1>0. /\ frame.pc = "access" /\ frame.pc \in Searching
      /\ frame.call = "interface" /\ frame.entry = Target /\ gi = NULL
    BY DEF check_existence, Searching, OfInterface, CoreInv, FrameInv
<1>1. CASE give_up("not_ready")
    BY <1>0, <1>1, GiveUpCore DEF Errors
<1>2. CASE /\ gi' = [device |-> device, interface |-> frame.entry, filename |-> frame.filename]
           /\ Return("none")
           /\ UNCHANGED <<list, device, copied, port, handle, devs, fds, ooms, watch>>
    <2>0. UserInv
        BY CoreUser
    <2>1. gi' \in Interface /\ gi' # NULL
        <3>1. frame.filename \in 1..MaxAddress
            BY <1>0, AddressAssumption DEF CoreInv, TypeOK, FrameInv
        <3>2. device \in Device /\ frame.entry \in InterfacePaths
            BY <1>0, SearchingFacts
        <3>3. gi' \in Interface
            BY <1>2, <3>1, <3>2 DEF Interface
        <3>. QED
            BY <3>3, NullAssumption
    <2>2. gi'.device = device /\ gi'.filename = frame.filename
        BY <1>2
    <2>3. device # NULL
        BY <1>0, SearchingFacts, NullAssumption
    <2>4. Instances' = Instances /\ Connected' = Connected /\ at' = at /\ identity' = identity
        BY <1>2 DEF Return, busVars, Instances, Connected
    <2>5. HandleMatchesDevice'
        BY <1>2, <2>0, <2>4 DEF UserInv, HandleMatchesDevice
    <2>6. OpensListedDevice'
        BY <1>0, <1>2, <2>0, <2>2, <2>4 DEF UserInv, OpensListedDevice, CoreInv, ObjectInv, Address
    <2>7. UserInv'
        BY <1>2, <2>0, <2>1, <2>2, <2>3, <2>4, <2>5, <2>6 DEF UserInv, Located, Pointers
    <2>8. devs' = UserDevices'
        <3>1. OwnDevices = 1
            BY <1>0 DEF OwnDevices, One
        <3>2. UserDevices' = UserDevices + 1
            <4>1. Len(list) \in Nat /\ One(gi # NULL) = 0
                BY <1>0, <2>0 DEF UserInv, One
            <4>2. One(gi' # NULL) = 1
                BY <2>1 DEF One
            <4>. QED
                BY <1>2, <4>1, <4>2, OneFacts DEF UserDevices
        <3>. QED
            BY <1>2, <3>1, <3>2, CountFacts DEF CoreInv, CountInv
    <2>9. fds' = One(handle' # NULL)
        BY <1>0, <1>2 DEF CoreInv, CountInv, One
    <2>10. /\ frame' = IdleFrame /\ result'.error \in Errors /\ UNCHANGED busVars
           /\ ooms' \in 0..MaxOoms
        BY <1>2 DEF Return, Errors, CoreInv, TypeOK
    <2>. QED
        BY <2>7, <2>8, <2>9, <2>10, IdleCore
<1>. QED
    BY <1>1, <1>2 DEF check_existence

LEMMA NotFoundCore ==
    ASSUME CoreInv, interface_not_found \/ tty_not_found
    PROVE  CoreInv'
<1>1. frame.pc \in Searching
    BY DEF interface_not_found, tty_not_found, Searching, OfTty
<1>2. give_up("not_ready")
    BY DEF interface_not_found, tty_not_found
<1>. QED
    BY <1>1, <1>2, GiveUpCore DEF Errors

LEMMA TtyCore ==
    ASSUME CoreInv, tty_scan \/ \E kind \in {"usb", "tty"} : tty_entry(kind)
    PROVE  CoreInv'
<1>0. /\ frame.pc \in {"tty_scan", "tty"} /\ frame.pc \in Searching
      /\ frame.call = "port" /\ frame.entry = Target
    BY DEF tty_scan, tty_entry, Searching, OfTty, CoreInv, FrameInv
<1>1. ASSUME NEW pc \in OfTty, NEW todo, proceed([frame EXCEPT !.pc = pc, !.todo = todo])
      PROVE  CoreInv'
    <2>1. Goes(pc, todo, frame.entry, frame.obj, frame.filename, frame.no_handle)
        BY <1>1 DEF proceed, Continue, Goes, CoreInv, FrameInv
    <2>2. ooms' \in 0..MaxOoms /\ UNCHANGED objVars
        BY <1>1, OomsFacts DEF proceed, CoreInv
    <2>. QED
        BY <1>0, <2>1, <2>2, WalkCore
<1>2. CASE tty_scan
    BY <1>1, <1>2 DEF tty_scan, OfTty
<1>3. ASSUME NEW kind \in {"usb", "tty"}, tty_entry(kind) PROVE CoreInv'
    <2>1. CASE entry_gone
        BY <1>0, <2>1, GiveUpCore DEF entry_gone, Errors
    <2>2. CASE proceed([frame EXCEPT !.todo = @ \ {kind}])
        <3>1. [frame EXCEPT !.todo = @ \ {kind}] =
                  [frame EXCEPT !.pc = "tty", !.todo = frame.todo \ {kind}]
            BY <1>3 DEF tty_entry, CoreInv, FrameInv
        <3>. QED
            BY <1>1, <2>2, <3>1 DEF OfTty
    <2>3. CASE proceed([[frame EXCEPT !.todo = @ \ {kind}] EXCEPT !.pc = "tty_name", !.todo = {}])
        <3>1. [[frame EXCEPT !.todo = @ \ {kind}] EXCEPT !.pc = "tty_name", !.todo = {}] =
                  [frame EXCEPT !.pc = "tty_name", !.todo = {}]
            BY DEF CoreInv, FrameInv
        <3>. QED
            BY <1>1, <2>3, <3>1 DEF OfTty
    <2>. QED
        BY <1>3, <2>1, <2>2, <2>3 DEF tty_entry
<1>. QED
    BY <1>2, <1>3

LEMMA TtyNameCore == ASSUME CoreInv, tty_name PROVE CoreInv'
<1>0. /\ frame.pc = "tty_name" /\ frame.pc \in Searching
      /\ frame.call = "port" /\ frame.entry = Target /\ port = NULL
    BY DEF tty_name, Searching, OfTty, CoreInv, FrameInv
<1>1. CASE give_up("other")
    BY <1>0, <1>1, GiveUpCore DEF Errors
<1>2. CASE /\ port' = frame.entry /\ Return("none")
           /\ UNCHANGED <<list, device, gi, copied, handle, devs, fds, ooms, watch>>
    <2>0. UserInv
        BY CoreUser
    <2>1. port' \in InterfacePaths
        BY <1>0, <1>2, SearchingFacts
    <2>2. Instances' = Instances /\ Connected' = Connected /\ at' = at /\ identity' = identity
        BY <1>2 DEF Return, busVars, Instances, Connected
    <2>3. HandleMatchesDevice' /\ OpensListedDevice'
        BY <1>2, <2>0, <2>2 DEF UserInv, HandleMatchesDevice, OpensListedDevice, Address
    <2>4. UserInv'
        BY <1>2, <2>0, <2>1, <2>2, <2>3 DEF UserInv, Located, Pointers
    <2>5. devs' = UserDevices'
        <3>1. OwnDevices = 0
            BY <1>0 DEF OwnDevices, One, Reading
        <3>2. UserDevices' = UserDevices
            BY <1>2 DEF UserDevices
        <3>. QED
            BY <1>2, <3>1, <3>2, CountFacts DEF CoreInv, CountInv
    <2>6. fds' = One(handle' # NULL)
        BY <1>0, <1>2 DEF CoreInv, CountInv, One
    <2>7. /\ frame' = IdleFrame /\ result'.error \in Errors /\ UNCHANGED busVars
          /\ ooms' \in 0..MaxOoms
        BY <1>2 DEF Return, Errors, CoreInv, TypeOK
    <2>. QED
        BY <2>4, <2>5, <2>6, <2>7, IdleCore
<1>. QED
    BY <1>1, <1>2 DEF tty_name


(* Opening a handle. *)
LEMMA OpeningFacts ==
    ASSUME CoreInv, frame.pc \in {"open", "open_node", "descriptor"}
    PROVE  /\ frame.obj = NULL /\ gi # NULL /\ gi \in Interface /\ handle = NULL
           /\ OwnDevices = One(frame.pc # "open")
           /\ gi.device \in Device
<1>1. frame.obj = NULL /\ gi # NULL /\ handle = NULL
    BY DEF CoreInv, FrameInv, Reading
<1>2. gi \in Interface
    BY <1>1 DEF CoreInv, TypeOK, Pointers
<1>3. OwnDevices = One(frame.pc # "open")
    BY DEF OwnDevices, One, Reading, Searching, OfInterface, OfTty
<1>. QED
    BY <1>1, <1>2, <1>3 DEF Interface

LEMMA SetupCore == ASSUME CoreInv, generic_handle_setup PROVE CoreInv'
<1>0. /\ frame.pc = "open" /\ ooms' \in 0..MaxOoms
      /\ UNCHANGED <<list, device, gi, copied, port, handle, fds>>
    BY OomsFacts DEF generic_handle_setup, CoreInv
<1>1. ASSUME NEW no_handle, devs' = devs + 1,
             Goes("open_node", frame.todo, frame.entry, frame.obj, frame.filename, no_handle)
      PROVE  CoreInv'
    <2>1. FrameInv'
        BY <1>0, <1>1, OpeningFacts, GoFrame DEF CoreInv, Reading
    <2>2. OwnDevices' = 1 /\ OwnDevices = 0 /\ UserDevices' = UserDevices
        BY <1>0, <1>1, OpeningFacts DEF Goes, OwnDevices, UserDevices, One
    <2>3. devs' = UserDevices' + OwnDevices'
        BY <1>1, <2>2, CountFacts DEF CoreInv, CountInv
    <2>4. fds' = One(handle # NULL) + One("open_node" \in {"descriptor", "crashed"})
        BY <1>0 DEF CoreInv, CountInv, One
    <2>5. list' \in Seq(Device) /\ \A k \in DOMAIN list' : Located(list'[k])
        BY <1>0 DEF CoreInv, TypeOK, ObjectInv
    <2>6. /\ frame.obj \in Pointers(Device) /\ frame.filename \in 0..MaxAddress
          /\ "open_node" \notin Reading
        BY DEF CoreInv, TypeOK, Reading
    <2>. QED
        BY <1>0, <1>1, <2>1, <2>3, <2>4, <2>5, <2>6, GoCore
<1>2. CASE Continue([frame EXCEPT !.pc = "open_node"]) /\ libusbp_device_copy
    <2>1. Goes("open_node", frame.todo, frame.entry, frame.obj, frame.filename, frame.no_handle)
        BY <1>2 DEF Continue, Goes, CoreInv, FrameInv
    <2>. QED
        BY <1>1, <1>2, <2>1 DEF libusbp_device_copy
<1>3. CASE Continue([frame EXCEPT !.pc = "open_node", !.no_handle = TRUE]) /\ libusbp_device_copy
    <2>1. Goes("open_node", frame.todo, frame.entry, frame.obj, frame.filename, TRUE)
        BY <1>3 DEF Continue, Goes, CoreInv, FrameInv
    <2>. QED
        BY <1>1, <1>3, <2>1 DEF libusbp_device_copy
<1>4. CASE Return("memory") /\ UNCHANGED devs
    BY <1>0, <1>4, EndCore DEF Return, Errors, objVars
<1>. QED
    BY <1>2, <1>3, <1>4 DEF generic_handle_setup

LEMMA OpenCore == ASSUME BusInv, CoreInv, usbfd_open PROVE CoreInv'
<1>0. /\ frame.pc = "open_node" /\ OwnDevices = 1
      /\ UNCHANGED <<list, device, gi, copied, port, handle>>
    BY OpeningFacts DEF usbfd_open, One
<1>1. ASSUME NEW n \in nodes, Address(n) = gi.filename, fds' = fds + 1, UNCHANGED devs,
             Allocates,
             Continue([frame EXCEPT !.pc = IF frame.no_handle THEN "crashed" ELSE "descriptor",
                                    !.entry = n])
      PROVE  CoreInv'
    <2>. DEFINE pc == IF frame.no_handle THEN "crashed" ELSE "descriptor"
    <2>1. pc \in {"descriptor", "crashed"}
        OBVIOUS
    <2>2. frame' = [frame EXCEPT !.pc = pc, !.entry = n] /\ UNCHANGED <<busVars, result>>
        BY <1>1 DEF Continue
    <2>. HIDE DEF pc
    <2>3. Goes(pc, frame.todo, n, frame.obj, frame.filename, frame.no_handle)
        BY <2>2 DEF Goes, CoreInv, FrameInv
    <2>4. FrameInv'
        BY <1>0, <2>1, <2>3, OpeningFacts, GoFrame DEF CoreInv, Reading
    <2>5. OwnDevices' = 1 /\ UserDevices' = UserDevices
        BY <1>0, <2>1, <2>3 DEF Goes, OwnDevices, UserDevices, One
    <2>6. devs' = UserDevices' + OwnDevices'
        BY <1>0, <1>1, <2>5 DEF CoreInv, CountInv
    <2>7. fds' = One(handle # NULL) + One(pc \in {"descriptor", "crashed"})
        BY <1>0, <1>1, <2>1, OneFacts DEF CoreInv, CountInv, One
    <2>8. list' \in Seq(Device) /\ \A k \in DOMAIN list' : Located(list'[k])
        BY <1>0 DEF CoreInv, TypeOK, ObjectInv
    <2>9. /\ frame.obj \in Pointers(Device) /\ frame.filename \in 0..MaxAddress
          /\ pc \notin Reading /\ pc # "access"
        BY <2>1 DEF CoreInv, TypeOK, Reading
    <2>10. n \in Instances /\ n \in Connected
        BY ConnectedFacts DEF BusInv
    <2>11. gi.device.inst \in Connected => n = gi.device.inst
        <3>1. gi.device.inst \in Connected => gi.filename = Address(gi.device.inst)
            BY <1>0, OpeningFacts DEF CoreInv, OpensListedDevice
        <3>. QED
            BY <1>1, <2>10, <3>1 DEF BusInv
    <2>12. ooms' \in 0..MaxOoms
        BY <1>1, OomsFacts DEF CoreInv
    <2>. QED
        BY <1>0, <2>3, <2>4, <2>6, <2>7, <2>8, <2>9, <2>10, <2>11, <2>12, GoCore
<1>2. ASSUME NEW error \in {"access", "other"}, Fail(error), devs' = devs - 1, UNCHANGED fds
      PROVE  CoreInv'
    <2>1. /\ frame' = IdleFrame /\ result'.error \in Errors /\ UNCHANGED busVars
          /\ Allocates \/ OutOfMemory
        BY <1>2 DEF Fail, Return, Errors
    <2>2. ooms' \in 0..MaxOoms
        BY <2>1, OomsFacts DEF CoreInv
    <2>3. fds' = fds - One(frame.pc \in {"descriptor", "crashed"})
        BY <1>0, <1>2 DEF CoreInv, TypeOK, One
    <2>. QED
        BY <1>0, <1>2, <2>1, <2>2, <2>3, QuitCore
<1>. QED
    BY <1>1, <1>2 DEF usbfd_open

LEMMA DescriptorCore == ASSUME BusInv, CoreInv, check_device_descriptor PROVE CoreInv'
<1>0. /\ frame.pc = "descriptor" /\ OwnDevices = 1
      /\ UNCHANGED <<list, device, gi, copied, port>>
    BY OpeningFacts DEF check_device_descriptor, One
<1>1. CASE /\ frame.entry \in Connected
           /\ DescriptorMatches(gi.device, identity[frame.entry])
           /\ handle' = [device |-> gi.device, inst |-> frame.entry]
           /\ Return("none")
           /\ UNCHANGED <<devs, fds, ooms, watch>>
    <2>0. UserInv
        BY CoreUser
    <2>1. /\ frame.entry \in Instances /\ frame.entry \in 1..MaxPlugs
        <3>1. Len(identity) \in Nat /\ Len(identity) <= MaxPlugs /\ MaxPlugs \in Nat
            BY ConnectedFacts, PlugsAssumption DEF BusInv, BusTypeOK
        <3>2. frame.entry \in Instances
            BY <1>1, ConnectedFacts
        <3>. QED
            BY <3>1, <3>2 DEF Instances
    <2>2. handle' \in Handle /\ handle' # NULL
        <3>1. handle' \in Handle
            BY <1>0, <1>1, <2>1, OpeningFacts DEF Handle
        <3>. QED
            BY <3>1, NullAssumption
    <2>3. handle'.device = gi.device /\ handle'.inst = frame.entry
        BY <1>1
    <2>4. Instances' = Instances /\ Connected' = Connected /\ at' = at /\ identity' = identity
        BY <1>1 DEF Return, busVars, Instances, Connected
    <2>5. HandleMatchesDevice'
        BY <1>1, <2>3, <2>4 DEF HandleMatchesDevice, DescriptorMatches
    <2>6. OpensListedDevice'
        BY <1>0, <2>0, <2>3, <2>4 DEF UserInv, OpensListedDevice, CoreInv, ObjectInv, Address
    <2>7. gi # NULL
        BY <1>0, OpeningFacts
    <2>8. UserInv'
        BY <1>0, <2>0, <2>1, <2>2, <2>3, <2>4, <2>5, <2>6, <2>7 DEF UserInv, Located, Pointers
    <2>9. devs' = UserDevices'
        <3>1. UserDevices' = UserDevices + 1
            <4>1. Len(list) \in Nat /\ One(handle # NULL) = 0
                BY <1>0, <2>0, OpeningFacts DEF UserInv, One
            <4>2. One(handle' # NULL) = 1
                BY <2>2 DEF One
            <4>. QED
                BY <1>0, <4>1, <4>2, OneFacts DEF UserDevices
        <3>. QED
            BY <1>0, <1>1, <3>1, CountFacts DEF CoreInv, CountInv
    <2>10. fds' = One(handle' # NULL)
        BY <1>0, <1>1, <2>2, OpeningFacts DEF CoreInv, CountInv, One
    <2>11. /\ frame' = IdleFrame /\ result'.error \in Errors /\ UNCHANGED busVars
           /\ ooms' \in 0..MaxOoms
        BY <1>1 DEF Return, Errors, CoreInv, TypeOK
    <2>. QED
        BY <2>8, <2>9, <2>10, <2>11, IdleCore
<1>2. CASE /\ Fail("disconnected") \/ Fail("other")
           /\ abandon_handle
           /\ UNCHANGED handle
    <2>1. /\ frame' = IdleFrame /\ result'.error \in Errors /\ UNCHANGED busVars
          /\ Allocates \/ OutOfMemory
        BY <1>2 DEF Fail, Return, Errors
    <2>2. ooms' \in 0..MaxOoms
        BY <2>1, OomsFacts DEF CoreInv
    <2>3. fds' = fds - One(frame.pc \in {"descriptor", "crashed"}) /\ devs' = devs - 1
        BY <1>0, <1>2 DEF abandon_handle, One
    <2>. QED
        BY <1>0, <1>2, <2>1, <2>2, <2>3, QuitCore
<1>. QED
    BY <1>1, <1>2 DEF check_device_descriptor

(* The calls and the other steps of the user. *)
LEMMA EnterCore ==
    ASSUME CoreInv, NEW call \in {"list", "find", "interface", "port", "open"}, NEW want,
           Enter(call, want),
           call \in {"list", "find"} => device = NULL /\ list = <<>>,
           call \in {"interface", "port"} => device # NULL /\ want \in Interfaces,
           call = "interface" => gi = NULL,
           call = "port" => port = NULL,
           call = "open" => gi # NULL /\ handle = NULL
    PROVE  CoreInv'
<1>1. /\ frame' = [pc |-> call, call |-> call, want |-> want, todo |-> {}, entry |-> NULL,
                   obj |-> NULL, filename |-> 0, no_handle |-> FALSE]
      /\ result' = NoResult /\ frame.pc = "idle"
      /\ UNCHANGED <<busVars, objVars, ooms>>
    BY DEF Enter, IdleFrame
<1>2. /\ frame'.pc = call /\ frame'.call = call /\ frame'.want = want
      /\ frame'.obj = NULL /\ frame'.filename = 0
    BY <1>1
<1>3. FrameInv'
    <2>1. UNCHANGED <<device, gi, port, handle, list>>
        BY <1>1 DEF objVars
    <2>2. list # <<>> => device = NULL
        BY DEF CoreInv, FrameInv
    <2>. QED
        BY <1>1, <1>2, <2>1, <2>2
        DEF FrameInv, Listing, Reading, Searching, OfInterface, OfTty
<1>4. OwnDevices' = 0 /\ OwnDevices = 0 /\ UserDevices' = UserDevices
    BY <1>1, <1>2 DEF OwnDevices, UserDevices, One, Reading, Searching, OfInterface, OfTty,
        objVars
<1>5. /\ One(frame.pc \in {"descriptor", "crashed"}) = 0
      /\ One(frame'.pc \in {"descriptor", "crashed"}) = 0
    BY <1>1, <1>2 DEF One
<1>6. CountInv'
    <2>1. devs = UserDevices + 0 /\ fds = One(handle # NULL) + 0
        BY <1>4, <1>5 DEF CoreInv, CountInv
    <2>2. devs' = UserDevices' + 0 /\ fds' = One(handle' # NULL) + 0
        BY <1>1, <1>4, <2>1 DEF objVars
    <2>. QED
        BY <1>4, <1>5, <2>2 DEF CountInv
<1>7. TypeOK'
    <2>1. BusTypeOK'
        BY <1>1 DEF CoreInv, TypeOK, BusTypeOK, Instances, busVars
    <2>2. 0 \in 0..MaxAddress
        BY AddressAssumption
    <2>. QED
        BY <1>1, <1>2, <2>1, <2>2 DEF CoreInv, TypeOK, objVars, Pointers, NoResult, Errors
<1>8. ObjectInv'
    BY <1>1, <1>2 DEF CoreInv, ObjectInv, Located, Instances, Connected, busVars, objVars,
        Reading
<1>9. HandleMatchesDevice' /\ OpensListedDevice'
    BY <1>1 DEF CoreInv, HandleMatchesDevice, OpensListedDevice, Connected, Address, busVars,
        objVars
<1>. QED
    BY <1>3, <1>6, <1>7, <1>8, <1>9 DEF CoreInv

(* Between calls, nothing but the objects of the user is in memory. *)
LEMMA IdleFacts ==
    ASSUME CoreInv, frame.pc = "idle"
    PROVE  /\ frame = IdleFrame
           /\ devs = UserDevices /\ fds = One(handle # NULL)
           /\ UserDevices \in Nat /\ One(handle # NULL) \in {0, 1}
           /\ UserInv /\ ooms \in 0..MaxOoms
<1>1. OwnDevices = 0 /\ One(frame.pc \in {"descriptor", "crashed"}) = 0
    BY DEF OwnDevices, One, Reading, Searching, OfInterface, OfTty
<1>2. UserDevices \in Nat /\ One(handle # NULL) \in {0, 1}
    BY CountFacts, OneFacts DEF CoreInv
<1>3. devs = UserDevices + 0 /\ fds = One(handle # NULL) + 0
    BY <1>1 DEF CoreInv, CountInv
<1>. QED
    BY <1>2, <1>3, CoreUser DEF CoreInv, FrameInv, TypeOK

LEMMA CopiesCore ==
    ASSUME CoreInv, NEW kind \in CopyKinds, Copies(kind),
           devs' = devs + One(kind \in {"device", "interface"})
    PROVE  CoreInv'
<1>1. /\ frame' = IdleFrame /\ result' = [NoResult EXCEPT !.call = "copy"]
      /\ copied = NULL /\ copied' = kind
      /\ UNCHANGED <<busVars, list, device, gi, port, handle, fds, ooms>>
    BY IdleFacts DEF Copies
<1>2. result'.error \in Errors
    BY <1>1 DEF NoResult, Errors
<1>3. UserInv'
    BY <1>1, CoreUser DEF UserInv, Pointers, Located, Instances, Connected, busVars,
        HandleMatchesDevice, OpensListedDevice, Address
<1>4. /\ One(copied \in {"device", "interface"}) = 0
      /\ One(copied' \in {"device", "interface"}) = One(kind \in {"device", "interface"})
      /\ One(kind \in {"device", "interface"}) \in {0, 1}
    BY <1>1, NullAssumption DEF One, CopyKinds
<1>5. UserDevices' = UserDevices + One(kind \in {"device", "interface"})
    <2>1. Len(list) \in Nat
        BY DEF CoreInv, TypeOK
    <2>. QED
        BY <1>1, <1>4, <2>1, OneFacts DEF UserDevices
<1>6. devs' = UserDevices' /\ fds' = One(handle' # NULL) /\ ooms' \in 0..MaxOoms
    BY <1>1, <1>5, IdleFacts DEF Copies
<1>. QED
    BY <1>1, <1>2, <1>3, <1>6, IdleCore

LEMMA CopyFailsCore ==
    ASSUME CoreInv, NEW error \in Errors, CopyFails(error)
    PROVE  CoreInv'
<1>1. /\ frame' = IdleFrame /\ result' = [NoResult EXCEPT !.call = "copy", !.error = error]
      /\ UNCHANGED <<busVars, objVars>> /\ ooms > 0 /\ ooms' = ooms - 1
    BY IdleFacts DEF CopyFails
<1>2. result'.error \in Errors
    BY <1>1 DEF NoResult
<1>3. UserInv'
    BY <1>1, CoreUser DEF UserInv, Pointers, Located, Instances, Connected, busVars, objVars,
        HandleMatchesDevice, OpensListedDevice, Address
<1>4. devs' = UserDevices' /\ fds' = One(handle' # NULL)
    BY <1>1, IdleFacts DEF CopyFails, objVars, UserDevices
<1>5. ooms' \in 0..MaxOoms
    BY <1>1, OomsAssumption DEF CoreInv, TypeOK
<1>. QED
    BY <1>1, <1>2, <1>3, <1>4, <1>5, IdleCore

(* An object of the user is freed: it had one device object at most. *)
LEMMA FreeCore ==
    ASSUME CoreInv, frame.pc = "idle", Forget, UNCHANGED <<busVars, frame, list, ooms>>,
           device' \in {device, NULL}, gi' \in {gi, NULL}, copied' \in {copied, NULL},
           port' \in {port, NULL}, handle' \in {handle, NULL},
           devs' = UserDevices', fds' = One(handle' # NULL)
    PROVE  CoreInv'
<1>1. frame' = IdleFrame /\ ooms' \in 0..MaxOoms
    BY IdleFacts
<1>2. result'.error \in Errors
    BY DEF Forget, NoResult, Errors
<1>3. UserInv'
    <2>1. UserInv
        BY CoreUser
    <2>2. /\ device' \in Pointers(Device) /\ gi' \in Pointers(Interface)
          /\ copied' \in Pointers(CopyKinds) /\ port' \in Pointers(InterfacePaths)
          /\ handle' \in Pointers(Handle)
        BY <2>1 DEF UserInv, Pointers
    <2>3. /\ device' # NULL => device' = device
          /\ gi' # NULL => gi' = gi
          /\ handle' # NULL => handle' = handle
        OBVIOUS
    <2>. QED
        BY <2>1, <2>2, <2>3 DEF UserInv, Located, Instances, Connected, busVars,
            HandleMatchesDevice, OpensListedDevice, Address
<1>. QED
    BY <1>1, <1>2, <1>3, IdleCore

LEMMA DeviceFreeCore == ASSUME CoreInv, libusbp_device_free PROVE CoreInv'
<1>0. /\ frame.pc = "idle" /\ Forget /\ devs' = devs - 1
      /\ UNCHANGED <<busVars, frame, list, gi, port, handle, fds, ooms>>
    BY DEF libusbp_device_free
<1>1. Len(list) \in Nat
    BY DEF CoreInv, TypeOK
<1>2. One(NULL # NULL) = 0 /\ One(NULL \in {"device", "interface"}) = 0
    BY NullAssumption DEF One, CopyKinds
<1>3. UserDevices' = UserDevices - 1
    <2>1. CASE device # NULL /\ device' = NULL /\ UNCHANGED copied
        <3>1. One(device # NULL) = 1 /\ One(device' # NULL) = 0
            BY <2>1 DEF One
        <3>. QED
            BY <1>0, <1>1, <2>1, <3>1, OneFacts DEF UserDevices
    <2>2. CASE copied = "device" /\ copied' = NULL /\ UNCHANGED device
        <3>1. /\ One(copied \in {"device", "interface"}) = 1
              /\ One(copied' \in {"device", "interface"}) = 0
            BY <1>2, <2>2 DEF One
        <3>. QED
            BY <1>0, <1>1, <2>2, <3>1, OneFacts DEF UserDevices
    <2>. QED
        BY <2>1, <2>2 DEF libusbp_device_free
<1>4. devs' = UserDevices' /\ fds' = One(handle' # NULL)
    BY <1>0, <1>3, IdleFacts
<1>5. device' \in {device, NULL} /\ copied' \in {copied, NULL}
    BY DEF libusbp_device_free
<1>. QED
    BY <1>0, <1>4, <1>5, FreeCore

LEMMA InterfaceFreeCore == ASSUME CoreInv, libusbp_generic_interface_free PROVE CoreInv'
<1>0. /\ frame.pc = "idle" /\ Forget /\ devs' = devs - 1
      /\ UNCHANGED <<busVars, frame, list, device, port, handle, fds, ooms>>
    BY DEF libusbp_generic_interface_free
<1>1. Len(list) \in Nat
    BY DEF CoreInv, TypeOK
<1>2. One(NULL # NULL) = 0 /\ One(NULL \in {"device", "interface"}) = 0
    BY NullAssumption DEF One, CopyKinds
<1>3. UserDevices' = UserDevices - 1
    <2>1. CASE gi # NULL /\ gi' = NULL /\ UNCHANGED copied
        <3>1. One(gi # NULL) = 1 /\ One(gi' # NULL) = 0
            BY <2>1 DEF One
        <3>. QED
            BY <1>0, <1>1, <2>1, <3>1, OneFacts DEF UserDevices
    <2>2. CASE copied = "interface" /\ copied' = NULL /\ UNCHANGED gi
        <3>1. /\ One(copied \in {"device", "interface"}) = 1
              /\ One(copied' \in {"device", "interface"}) = 0
            BY <1>2, <2>2 DEF One
        <3>. QED
            BY <1>0, <1>1, <2>2, <3>1, OneFacts DEF UserDevices
    <2>. QED
        BY <2>1, <2>2 DEF libusbp_generic_interface_free
<1>4. devs' = UserDevices' /\ fds' = One(handle' # NULL)
    BY <1>0, <1>3, IdleFacts
<1>5. gi' \in {gi, NULL} /\ copied' \in {copied, NULL}
    BY DEF libusbp_generic_interface_free
<1>. QED
    BY <1>0, <1>4, <1>5, FreeCore

LEMMA PortFreeCore == ASSUME CoreInv, libusbp_serial_port_free PROVE CoreInv'
<1>0. /\ frame.pc = "idle" /\ Forget
      /\ UNCHANGED <<busVars, frame, list, device, gi, handle, devs, fds, ooms>>
    BY DEF libusbp_serial_port_free
<1>1. port' \in {port, NULL} /\ copied' \in {copied, NULL}
    BY DEF libusbp_serial_port_free
<1>2. One(copied' \in {"device", "interface"}) = One(copied \in {"device", "interface"})
    BY NullAssumption DEF libusbp_serial_port_free, One, CopyKinds
<1>3. UserDevices' = UserDevices
    BY <1>0, <1>2 DEF UserDevices
<1>4. devs' = UserDevices' /\ fds' = One(handle' # NULL)
    BY <1>0, <1>3, IdleFacts
<1>. QED
    BY <1>0, <1>1, <1>4, FreeCore

LEMMA CloseCore == ASSUME CoreInv, libusbp_generic_handle_close PROVE CoreInv'
<1>0. /\ frame.pc = "idle" /\ Forget /\ devs' = devs - 1 /\ fds' = fds - 1
      /\ handle # NULL /\ handle' = NULL
      /\ UNCHANGED <<busVars, frame, list, device, gi, copied, port, ooms>>
    BY DEF libusbp_generic_handle_close
<1>1. One(handle # NULL) = 1 /\ One(handle' # NULL) = 0
    BY <1>0 DEF One
<1>2. UserDevices' = UserDevices - 1
    <2>1. Len(list) \in Nat
        BY DEF CoreInv, TypeOK
    <2>. QED
        BY <1>0, <1>1, <2>1, OneFacts DEF UserDevices
<1>3. devs' = UserDevices' /\ fds' = One(handle' # NULL)
    BY <1>0, <1>1, <1>2, IdleFacts
<1>. QED
    BY <1>0, <1>3, FreeCore

LEMMA ListFreeCore == ASSUME CoreInv, list_free PROVE CoreInv'
<1>1. /\ frame.pc = "idle" /\ frame' = IdleFrame /\ list # <<>> /\ list' = <<>>
      /\ ooms' \in 0..MaxOoms /\ UNCHANGED <<busVars, gi, copied, port, handle, fds>>
    BY IdleFacts DEF list_free
<1>2. device = NULL
    BY <1>1 DEF CoreInv, FrameInv
<1>3. result'.error \in Errors
    BY DEF list_free, Forget, NoResult, Errors
<1>4. \/ device' = NULL /\ devs' = devs - Len(list)
      \/ \E k \in DOMAIN list : device' = list[k] /\ devs' = devs - (Len(list) - 1)
    BY DEF list_free
<1>. QED
    BY <1>1, <1>2, <1>3, <1>4, ListGoneCore

LEMMA CopyCore ==
    ASSUME CoreInv,
           \/ user_copies_device
           \/ libusbp_generic_interface_copy
           \/ libusbp_serial_port_copy
    PROVE  CoreInv'
<1>1. {"memory", "none"} \subseteq Errors
    BY DEF Errors
<1>2. /\ One("device" \in {"device", "interface"}) = 1
      /\ One("interface" \in {"device", "interface"}) = 1
      /\ One("port" \in {"device", "interface"}) = 0
      /\ devs \in Nat
    BY DEF One, CoreInv, TypeOK
<1>3. CASE CopyFails("memory") \/ CopyFails("none")
    BY <1>1, <1>3, CopyFailsCore
<1>4. CASE Copies("device") /\ libusbp_device_copy
    BY <1>2, <1>4, CopiesCore DEF CopyKinds, libusbp_device_copy
<1>5. CASE Copies("interface") /\ libusbp_device_copy
    BY <1>2, <1>5, CopiesCore DEF CopyKinds, libusbp_device_copy
<1>6. CASE Copies("port") /\ UNCHANGED devs
    <2>1. devs' = devs + 0
        BY <1>2, <1>6
    <2>. QED
        BY <1>2, <1>6, <2>1, CopiesCore DEF CopyKinds
<1>. QED
    BY <1>3, <1>4, <1>5, <1>6
    DEF user_copies_device, libusbp_generic_interface_copy, libusbp_serial_port_copy

(***************************************************************************)
(* A change of the bus: what was unplugged does not come back, so nothing  *)
(* that is known of an instance becomes wrong.                             *)
(***************************************************************************)
LEMMA StaysUnplugged ==
    ASSUME BusInv, BusNext, NEW n \in Instances, n \in Connected'
    PROVE  n \in Connected
<1>1. PICK p \in Ports : at'[p] = n
    BY DEF Connected
<1>2. at[p] = n /\ n # 0
    BY <1>1, BusMoves, ConnectedFacts DEF Instances
<1>. QED
    BY <1>2, ConnectedFacts

LEMMA StaysLocated ==
    ASSUME BusInv, BusNext, NEW d, Located(d)
    PROVE  d.inst \in Instances' /\ \A p \in Ports : at'[p] = d.inst => p = d.port
BY BusMoves DEF Located

LEMMA BusCore == ASSUME BusInv, CoreInv, BusStep PROVE CoreInv'
<1>0. BusNext /\ UNCHANGED <<frame, objVars, ooms>>
    BY DEF BusStep
<1>1. /\ UNCHANGED <<list, device, gi, copied, port, handle, devs, fds>>
    BY <1>0 DEF objVars
<1>2. result' = NoResult \/ result' = result
    BY DEF BusStep
<1>3. TypeOK'
    <2>1. BusTypeOK'
        BY <1>0, BusPreserved DEF BusInv
    <2>2. result'.error \in Errors
        BY <1>2 DEF CoreInv, TypeOK, NoResult, Errors
    <2>. QED
        BY <1>0, <1>1, <2>1, <2>2 DEF CoreInv, TypeOK
<1>4. FrameInv'
    <2>1. frame.pc # "idle" => result' = NoResult
        BY <1>2 DEF CoreInv, FrameInv
    <2>. QED
        BY <1>0, <1>1, <2>1 DEF CoreInv, FrameInv, Target
<1>5. CountInv'
    BY <1>0, <1>1 DEF CoreInv, CountInv, UserDevices, OwnDevices
<1>. DEFINE L(d) == d.inst \in Instances' /\ \A p \in Ports : at'[p] = d.inst => p = d.port
<1>6. \A d : Located(d) => L(d)
    BY <1>0, StaysLocated
<1>7. \A n \in Instances : /\ n \in Connected' => n \in Connected
                           /\ n \in Instances' /\ identity'[n] = identity[n]
    BY <1>0, StaysUnplugged, BusMoves
<1>8. \A d : Located(d) => d.inst \in Instances
    BY DEF Located
<1>. HIDE DEF L
<1>9. ObjectInv'
    <2>1. \A k \in DOMAIN list : L(list[k])
        BY <1>6 DEF CoreInv, ObjectInv
    <2>2. device # NULL => L(device) /\ (device.inst \in Connected' => device.inst \in Connected)
        BY <1>6, <1>7, <1>8 DEF CoreInv, ObjectInv
    <2>3. frame.pc \in Reading => L(frame.obj)
        BY <1>6 DEF CoreInv, ObjectInv
    <2>4. gi # NULL => L(gi.device) /\ (gi.device.inst \in Connected' => gi.device.inst \in Connected)
        BY <1>6, <1>7, <1>8 DEF CoreInv, ObjectInv
    <2>5. handle # NULL => L(handle.device) /\ handle.inst \in Instances'
        BY <1>6, <1>7 DEF CoreInv, ObjectInv
    <2>6. frame.pc = "access" => device # NULL
        BY DEF CoreInv, FrameInv, Searching, OfInterface
    <2>7. frame.pc \in {"descriptor", "crashed"} => gi # NULL /\ frame.entry \in Instances'
        BY <1>7 DEF CoreInv, FrameInv, ObjectInv
    <2>8. list' = list /\ device' = device /\ gi' = gi /\ handle' = handle /\ frame' = frame
        BY <1>0, <1>1
    <2>. QED
        BY <2>1, <2>2, <2>3, <2>4, <2>5, <2>6, <2>7, <2>8 DEF CoreInv, ObjectInv, Located, Address, L
<1>10. HandleMatchesDevice'
    <2>1. handle # NULL => identity'[handle.inst] = identity[handle.inst]
        BY <1>7 DEF CoreInv, ObjectInv
    <2>. QED
        BY <1>1, <2>1 DEF CoreInv, HandleMatchesDevice
<1>11. OpensListedDevice'
    <2>1. gi # NULL /\ gi.device.inst \in Connected' => gi.device.inst \in Connected
        BY <1>7, <1>8 DEF CoreInv, ObjectInv
    <2>2. handle # NULL /\ handle.device.inst \in Connected' => handle.device.inst \in Connected
        BY <1>7, <1>8 DEF CoreInv, ObjectInv
    <2>. QED
        BY <1>1, <2>1, <2>2 DEF CoreInv, OpensListedDevice, Address
<1>. QED
    BY <1>3, <1>4, <1>5, <1>9, <1>10, <1>11 DEF CoreInv

LEMMA UserCore == ASSUME CoreInv, UserStep PROVE CoreInv'
<1>1. CASE libusbp_list_connected_devices
    BY <1>1, EnterCore DEF libusbp_list_connected_devices
<1>2. ASSUME NEW m \in Models, libusbp_find_device_with_vid_pid(m) PROVE CoreInv'
    BY <1>2, EnterCore DEF libusbp_find_device_with_vid_pid
<1>3. ASSUME NEW i \in Interfaces, libusbp_generic_interface_create(i) PROVE CoreInv'
    BY <1>3, EnterCore DEF libusbp_generic_interface_create
<1>4. ASSUME NEW i \in Interfaces, libusbp_serial_port_create(i) PROVE CoreInv'
    BY <1>4, EnterCore DEF libusbp_serial_port_create
<1>5. CASE libusbp_generic_handle_open
    BY <1>5, EnterCore DEF libusbp_generic_handle_open
<1>6. CASE \/ user_copies_device
           \/ libusbp_generic_interface_copy
           \/ libusbp_serial_port_copy
    BY <1>6, CopyCore
<1>. QED
    BY <1>1, <1>2, <1>3, <1>4, <1>5, <1>6, ListFreeCore, DeviceFreeCore, InterfaceFreeCore,
        PortFreeCore, CloseCore DEF UserStep

LEMMA CallCore == ASSUME BusInv, CoreInv, CallStep PROVE CoreInv'
<1>1. \A path \in SysPaths :
        /\ add_udev_device_to_list_if_needed(path) => CoreInv'
        /\ get_interface_entry(path) => CoreInv'
    BY AddCore, EntryCore
<1>2. \A kind \in {"usb", "tty"} : tty_entry(kind) => CoreInv'
    BY TtyCore
<1>. QED
    BY <1>1, <1>2, ListBeginCore, ReadIdsCore, SerialCore, ListReturnCore, FindReturnCore,
        SearchBeginCore, CheckCore, NotFoundCore, DriverCore, DevnodeCore, ExistenceCore,
        TtyNameCore, TtyCore, SearchMemoryCore, SetupCore, OpenCore, DescriptorCore
    DEF CallStep

LEMMA StutterCore == ASSUME CoreInv, UNCHANGED vars PROVE CoreInv'
<1>. USE DEF vars, objVars, busVars, CoreInv
<1>1. TypeOK'
    BY DEF TypeOK, BusTypeOK, Instances
<1>2. FrameInv'
    BY DEF FrameInv, Target
<1>3. CountInv'
    BY DEF CountInv, UserDevices, OwnDevices
<1>4. ObjectInv'
    BY DEF ObjectInv, Located, Instances, Connected, Address
<1>5. HandleMatchesDevice' /\ OpensListedDevice'
    BY DEF HandleMatchesDevice, OpensListedDevice, Connected, Address
<1>. QED
    BY <1>1, <1>2, <1>3, <1>4, <1>5

(* The first part of the invariant is inductive together with the bus. *)
LEMMA CoreStep == ASSUME BusInv, CoreInv, [Next]_vars PROVE BusInv' /\ CoreInv'
<1>1. BusInv'
    <2>1. BusNext \/ UNCHANGED busVars
        <3>1. CallStep => UNCHANGED busVars
            BY DEF CallStep, list_begin, add_udev_device_to_list_if_needed, read_ids,
                get_sysattr, drop_device, read_serial, add_udev_device_to_list, list_return,
                find_return, search_begin, get_interface_entry, check_interface,
                interface_not_found, check_driver_installation, get_devnode, check_existence,
                tty_scan, tty_entry, tty_not_found, tty_name, search_out_of_memory,
                generic_handle_setup, usbfd_open, check_device_descriptor, entry_gone,
                wrong_interface, setup_out_of_memory, give_up, proceed, Fail, Return, Continue
        <3>2. UserStep => UNCHANGED busVars
            BY DEF UserStep, libusbp_list_connected_devices, libusbp_find_device_with_vid_pid,
                libusbp_generic_interface_create, libusbp_serial_port_create,
                libusbp_generic_handle_open, Enter, user_copies_device,
                libusbp_generic_interface_copy, libusbp_serial_port_copy, Copies, CopyFails,
                list_free, libusbp_device_free, libusbp_generic_interface_free,
                libusbp_serial_port_free, libusbp_generic_handle_close
        <3>. QED
            BY <3>1, <3>2 DEF Next, BusStep, Crashed, vars
    <2>. QED
        BY <2>1, BusPreserved, BusStutter
<1>2. CoreInv'
    BY CallCore, UserCore, BusCore, StutterCore DEF Next, Crashed
<1>. QED
    BY <1>1, <1>2

(***************************************************************************)
(* What is remembered of a call.                                           *)
(***************************************************************************)
LEMMA WatchStep == ASSUME WatchInv, [Next]_vars PROVE WatchInv'
<1>1. CASE watch' = watch
    BY <1>1 DEF WatchInv
<1>2. CASE OutOfMemory
    BY <1>2 DEF OutOfMemory, WatchInv
<1>3. CASE watch' = NoWatch
    BY <1>3 DEF NoWatch, WatchInv
<1>4. ASSUME NEW call, NEW want, Enter(call, want) PROVE WatchInv'
    BY <1>4 DEF Enter, WatchInv
<1>5. CASE BusStep
    BY <1>3, <1>5 DEF BusStep, WatchInv
<1>6. CallStep => Allocates \/ OutOfMemory
    BY DEF CallStep, list_begin, add_udev_device_to_list_if_needed, read_ids,
        get_sysattr, drop_device, read_serial, add_udev_device_to_list, list_return,
        find_return, search_begin, get_interface_entry, check_interface,
        interface_not_found, check_driver_installation, get_devnode, check_existence,
        tty_scan, tty_entry, tty_not_found, tty_name, search_out_of_memory,
        generic_handle_setup, usbfd_open, check_device_descriptor, entry_gone,
        wrong_interface, setup_out_of_memory, give_up, proceed, Fail, Allocates
<1>7. UserStep => watch' = NoWatch \/ \E call, want : Enter(call, want)
    BY DEF UserStep, libusbp_list_connected_devices, libusbp_find_device_with_vid_pid,
        libusbp_generic_interface_create, libusbp_serial_port_create,
        libusbp_generic_handle_open, user_copies_device,
        libusbp_generic_interface_copy, libusbp_serial_port_copy, Copies, CopyFails,
        list_free, libusbp_device_free, libusbp_generic_interface_free,
        libusbp_serial_port_free, libusbp_generic_handle_close, Forget
<1>. QED
    BY <1>1, <1>2, <1>3, <1>4, <1>5, <1>6, <1>7 DEF Next, Crashed, vars, Allocates

(***************************************************************************)
(* The search for an interface.  The answers of a call are right, and an   *)
(* interface that is ready is found.                                       *)
(***************************************************************************)
AnswersInv == NotReadyIsTrue /\ ReadyInterfaceIsCreated
SearchPcs == {"interface", "port"} \cup Searching

(* Everything but a search: the answer is not about an interface. *)
LEMMA OtherReady ==
    ASSUME frame'.pc \notin SearchPcs, result'.error # "not_ready",
           result'.call \notin {"interface", "port"}
    PROVE  ReadyInv' /\ AnswersInv'
BY DEF ReadyInv, AnswersInv, SearchPcs, NotReadyIsTrue, ReadyInterfaceIsCreated

LEMMA NoAnswer ==
    ASSUME FrameInv', frame'.pc # "idle"
    PROVE  AnswersInv'
<1>1. result'.error = "none"
    BY DEF FrameInv, NoResult
<1>. QED
    BY <1>1 DEF AnswersInv, NotReadyIsTrue, ReadyInterfaceIsCreated

(* A step inside of a search. *)
LEMMA GoReady ==
    ASSUME ReadyInv, FrameInv, FrameInv', frame.pc \in SearchPcs,
           NEW pc \in Searching, NEW todo, NEW entry, NEW obj, NEW filename, NEW no_handle,
           Goes(pc, todo, entry, obj, filename, no_handle), UNCHANGED <<device, watch>>,
           watch.ready =>
            /\ pc = "search" => Target \in todo
            /\ pc = "check" => entry = Target \/ Target \in todo
            /\ pc = "access" => filename = Address(at[device.port])
            /\ pc = "tty" => "tty" \in todo
            /\ ~watch.vanished =>
                /\ pc \in {"search", "check"} => todo \subseteq Present
                /\ pc = "check" => entry \in Present
                /\ pc = "tty" => todo \subseteq udevw_create_child_list(entry)
    PROVE  ReadyInv' /\ AnswersInv'
<1>1. /\ frame'.pc = pc /\ frame'.call = frame.call /\ frame'.want = frame.want
      /\ frame'.todo = todo /\ frame'.entry = entry /\ frame'.filename = filename
    BY DEF Goes
<1>2. /\ Target' = Target /\ Present' = Present /\ at' = at
      /\ udevw_create_child_list(entry)' = udevw_create_child_list(entry)
      /\ ifaces' = ifaces /\ driver' = driver /\ nodes' = nodes /\ ttys' = ttys
    BY <1>1 DEF Goes, Target, Present, udevw_create_child_list, busVars
<1>3. watch.ready => ReadyFor(frame.call, Target)
    BY DEF ReadyInv, SearchPcs
<1>4. watch'.ready => ReadyFor(frame.call, Target)'
    BY <1>1, <1>2, <1>3 DEF ReadyFor
<1>5. udevw_create_child_list(frame.entry)' = udevw_create_child_list(entry)
    BY <1>1, <1>2 DEF udevw_create_child_list
<1>6. ReadyInv'
    BY <1>1, <1>2, <1>4, <1>5 DEF ReadyInv, Address
<1>7. frame'.pc # "idle"
    BY <1>1 DEF Searching, OfInterface, OfTty
<1>. QED
    BY <1>6, <1>7, NoAnswer

LEMMA GiveUpReady ==
    ASSUME WatchInv, NEW error, give_up(error),
           error = "not_ready" => ~watch.ready,
           ~(watch.ready /\ ~watch.vanished)
    PROVE  ReadyInv' /\ AnswersInv'
<1>1. frame'.pc \notin SearchPcs
    BY DEF give_up, Fail, Return, IdleFrame, SearchPcs, Searching, OfInterface, OfTty
<1>2. CASE Allocates /\ Return(error)
    BY <1>1, <1>2 DEF Allocates, Return, ReadyInv, SearchPcs, AnswersInv, NotReadyIsTrue,
        ReadyInterfaceIsCreated
<1>3. CASE OutOfMemory /\ Return("memory")
    <2>1. watch'.nomem /\ result'.error = "memory"
        BY <1>3 DEF OutOfMemory, Return, WatchInv
    <2>. QED
        BY <1>1, <2>1 DEF ReadyInv, SearchPcs, AnswersInv, NotReadyIsTrue,
            ReadyInterfaceIsCreated
<1>. QED
    BY <1>2, <1>3 DEF give_up, Fail

(* The search is over for lack of memory. *)
LEMMA MemoryReady ==
    ASSUME WatchInv, OutOfMemory, NEW error \in {"memory", "other"}, Return(error)
    PROVE  ReadyInv' /\ AnswersInv'
<1>1. frame'.pc \notin SearchPcs
    BY DEF Return, IdleFrame, SearchPcs, Searching, OfInterface, OfTty
<1>2. watch'.nomem /\ result'.error = error
    BY DEF OutOfMemory, Return, WatchInv
<1>. QED
    BY <1>1, <1>2 DEF ReadyInv, SearchPcs, AnswersInv, NotReadyIsTrue,
        ReadyInterfaceIsCreated

(* The search is over, with success. *)
LEMMA SuccessReady ==
    ASSUME Return("none")
    PROVE  ReadyInv' /\ AnswersInv'
<1>1. frame'.pc \notin SearchPcs /\ result'.error = "none"
    BY DEF Return, IdleFrame, SearchPcs, Searching, OfInterface, OfTty
<1>. QED
    BY <1>1 DEF ReadyInv, SearchPcs, AnswersInv, NotReadyIsTrue,
        ReadyInterfaceIsCreated

(* What the search relies on while the interface is ready. *)
LEMMA ReadyFacts ==
    ASSUME BusInv, CoreInv, ReadyInv, frame.pc \in SearchPcs, watch.ready
    PROVE  /\ Target \in ifaces /\ Target \in Present
           /\ frame.call = "interface" =>
                /\ driver[Target] \in AcceptedDrivers
                /\ at[device.port] \in nodes /\ DevicePath(device.port) \in Present
           /\ frame.call = "port" => Target \in ttys
<1>1. ReadyFor(frame.call, Target)
    BY DEF ReadyInv, SearchPcs
<1>2. /\ device \in Device /\ device.port \in Ports /\ Target[1] = device.port
    <2>1. device # NULL
        BY DEF CoreInv, FrameInv, SearchPcs
    <2>. QED
        BY <2>1 DEF CoreInv, TypeOK, Pointers, Device, Target
<1>3. at[device.port] \in nodes => at[device.port] # 0
    BY DEF BusInv, Connected
<1>. QED
    BY <1>1, <1>2, <1>3 DEF ReadyFor, Present

LEMMA SearchBeginReady ==
    ASSUME BusInv, CoreInv, CoreInv', WatchInv, ReadyInv, search_begin
    PROVE  ReadyInv' /\ AnswersInv'
<1>0. frame.pc \in SearchPcs /\ device' = device
    BY DEF search_begin, SearchPcs
<1>1. CASE Allocates /\ Continue([frame EXCEPT !.pc = "search", !.todo = udevw_create_usb_list])
    <2>1. Goes("search", udevw_create_usb_list, frame.entry, frame.obj, frame.filename,
               frame.no_handle)
        BY <1>1 DEF Continue, Goes, CoreInv, FrameInv
    <2>2. watch.ready => Target \in udevw_create_usb_list
        BY <1>0, ReadyFacts DEF udevw_create_usb_list
    <2>. QED
        BY <1>0, <1>1, <2>1, <2>2, GoReady DEF Searching, udevw_create_usb_list, CoreInv, Allocates
<1>2. ASSUME OutOfMemory, NEW code \in {"memory", "other"}, Return(code)
      PROVE  ReadyInv' /\ AnswersInv'
    BY <1>2, MemoryReady
<1>. QED
    BY <1>1, <1>2 DEF search_begin, setup_out_of_memory

LEMMA EntryReady ==
    ASSUME BusInv, CoreInv, CoreInv', WatchInv, ReadyInv,
           NEW path \in SysPaths, get_interface_entry(path)
    PROVE  ReadyInv' /\ AnswersInv'
<1>0. /\ frame.pc = "search" /\ frame.pc \in SearchPcs /\ path \in frame.todo
    BY DEF get_interface_entry, SearchPcs, Searching
<1>1. watch.ready => /\ Target \in frame.todo
                     /\ ~watch.vanished => frame.todo \subseteq Present
    BY <1>0 DEF ReadyInv, SearchPcs
<1>2. Target \in InterfacePaths
    BY <1>0, SearchingFacts DEF Searching
<1>. DEFINE todo == frame.todo \ {path}
<1>3. CASE path \notin Present /\ entry_gone
    BY <1>0, <1>1, <1>3, GiveUpReady DEF entry_gone
<1>4. CASE path[2] = WholeDevice /\ proceed([frame EXCEPT !.todo = @ \ {path}])
    <2>1. Goes("search", todo, frame.entry, frame.obj, frame.filename, frame.no_handle)
        BY <1>0, <1>4 DEF proceed, Continue, Goes, CoreInv, FrameInv
    <2>2. path # Target
        BY <1>2, <1>4, WholeDeviceAssumption DEF InterfacePaths
    <2>3. UNCHANGED <<device, watch>>
        BY <1>4 DEF proceed, Allocates, objVars
    <2>. QED
        BY <1>0, <1>1, <2>1, <2>2, <2>3, GoReady DEF Searching, CoreInv
<1>5. CASE /\ path \in Present
           /\ proceed([frame EXCEPT !.todo = @ \ {path}, !.pc = "check", !.entry = path])
    <2>1. Goes("check", todo, path, frame.obj, frame.filename, frame.no_handle)
        BY <1>0, <1>5 DEF proceed, Continue, Goes, CoreInv, FrameInv
    <2>2. UNCHANGED <<device, watch>>
        BY <1>5 DEF proceed, Allocates, objVars
    <2>. QED
        BY <1>0, <1>1, <1>5, <2>1, <2>2, GoReady DEF Searching, CoreInv
<1>6. [[frame EXCEPT !.todo = @ \ {path}] EXCEPT !.pc = "check", !.entry = path]
        = [frame EXCEPT !.todo = @ \ {path}, !.pc = "check", !.entry = path]
    BY DEF CoreInv, FrameInv
<1>. QED
    BY <1>3, <1>4, <1>5, <1>6 DEF get_interface_entry, udevw_get_device_from_syspath

LEMMA CheckReady ==
    ASSUME BusInv, CoreInv, CoreInv', WatchInv, ReadyInv, check_interface
    PROVE  ReadyInv' /\ AnswersInv'
<1>0. /\ frame.pc = "check" /\ frame.pc \in SearchPcs
    BY DEF check_interface, SearchPcs, Searching
<1>1. watch.ready => /\ frame.entry = Target \/ Target \in frame.todo
                     /\ ~watch.vanished => /\ frame.todo \subseteq Present
                                           /\ frame.entry \in Present
    BY <1>0 DEF ReadyInv, SearchPcs
<1>2. CASE frame.entry \notin Present /\ entry_gone
    BY <1>0, <1>1, <1>2, GiveUpReady DEF entry_gone
<1>3. CASE frame.entry # Target /\ wrong_interface
    <2>1. Goes("search", frame.todo, NULL, frame.obj, frame.filename, frame.no_handle)
        BY <1>3 DEF wrong_interface, proceed, Continue, Goes, CoreInv, FrameInv
    <2>2. UNCHANGED <<device, watch>>
        BY <1>3 DEF wrong_interface, proceed, Allocates, objVars
    <2>. QED
        BY <1>0, <1>1, <1>3, <2>1, <2>2, GoReady DEF Searching, CoreInv
<1>4. CASE proceed([frame EXCEPT !.pc = IF frame.call = "port" THEN "tty_scan" ELSE "driver",
                                 !.todo = {}])
    <2>. DEFINE pc == IF frame.call = "port" THEN "tty_scan" ELSE "driver"
    <2>1. pc \in Searching \ {"search", "check", "access", "tty"}
        BY DEF Searching, OfInterface, OfTty
    <2>2. frame' = [frame EXCEPT !.pc = pc, !.todo = {}] /\ UNCHANGED <<busVars, result>>
        BY <1>4 DEF proceed, Continue
    <2>. HIDE DEF pc
    <2>3. Goes(pc, {}, frame.entry, frame.obj, frame.filename, frame.no_handle)
        BY <2>2 DEF Goes, CoreInv, FrameInv
    <2>4. UNCHANGED <<device, watch>>
        BY <1>4 DEF proceed, Allocates, objVars
    <2>. QED
        BY <1>0, <2>1, <2>3, <2>4, GoReady DEF CoreInv
<1>. QED
    BY <1>2, <1>3, <1>4 DEF check_interface

LEMMA NotFoundReady ==
    ASSUME CoreInv, WatchInv, ReadyInv, interface_not_found \/ tty_not_found
    PROVE  ReadyInv' /\ AnswersInv'
<1>1. ~watch.ready
    BY DEF interface_not_found, tty_not_found, ReadyInv, Searching, OfTty
<1>. QED
    BY <1>1, GiveUpReady DEF interface_not_found, tty_not_found

LEMMA DriverReady ==
    ASSUME BusInv, CoreInv, CoreInv', WatchInv, ReadyInv, check_driver_installation
    PROVE  ReadyInv' /\ AnswersInv'
<1>0. /\ frame.pc = "driver" /\ frame.pc \in SearchPcs
      /\ frame.call = "interface" /\ frame.entry = Target
    BY DEF check_driver_installation, SearchPcs, Searching, OfInterface, CoreInv, FrameInv
<1>1. CASE proceed([frame EXCEPT !.pc = "devnode"])
    <2>1. Goes("devnode", frame.todo, frame.entry, frame.obj, frame.filename, frame.no_handle)
        BY <1>1 DEF proceed, Continue, Goes, CoreInv, FrameInv
    <2>2. UNCHANGED <<device, watch>>
        BY <1>1 DEF proceed, Allocates, objVars
    <2>. QED
        BY <1>0, <2>1, <2>2, GoReady DEF Searching, OfInterface, CoreInv
<1>2. CASE ~(watch.ready) /\ give_up("other")
    BY <1>2, GiveUpReady
<1>3. watch.ready => frame.entry \in Present /\ driver[frame.entry] \in AcceptedDrivers
    BY <1>0, ReadyFacts
<1>. QED
    BY <1>1, <1>2, <1>3 DEF check_driver_installation

LEMMA DevnodeReady ==
    ASSUME BusInv, CoreInv, CoreInv', WatchInv, ReadyInv, get_devnode
    PROVE  ReadyInv' /\ AnswersInv'
<1>0. /\ frame.pc = "devnode" /\ frame.pc \in SearchPcs
      /\ frame.call = "interface" /\ frame.entry = Target
    BY DEF get_devnode, SearchPcs, Searching, OfInterface, CoreInv, FrameInv
<1>1. CASE proceed([frame EXCEPT !.pc = "access", !.filename = devnode_of(device.port)])
    <2>1. Goes("access", frame.todo, frame.entry, frame.obj, Address(at[device.port]),
               frame.no_handle)
        BY <1>1 DEF proceed, Continue, Goes, CoreInv, FrameInv, devnode_of
    <2>2. UNCHANGED <<device, watch>>
        BY <1>1 DEF proceed, Allocates, objVars
    <2>. QED
        BY <1>0, <2>1, <2>2, GoReady DEF Searching, OfInterface, CoreInv
<1>2. CASE ~(watch.ready) /\ give_up("other")
    BY <1>2, GiveUpReady
<1>3. watch.ready => DevicePath(device.port) \in Present
    BY <1>0, ReadyFacts
<1>. QED
    BY <1>1, <1>2, <1>3 DEF get_devnode, udevw_get_device_from_syspath

LEMMA ExistenceReady ==
    ASSUME BusInv, CoreInv, WatchInv, ReadyInv, check_existence
    PROVE  ReadyInv' /\ AnswersInv'
<1>0. /\ frame.pc = "access" /\ frame.pc \in SearchPcs /\ frame.call = "interface"
    BY DEF check_existence, SearchPcs, Searching, OfInterface, CoreInv, FrameInv
<1>1. watch.ready => NodeExists(frame.filename)
    <2>1. watch.ready => at[device.port] \in nodes /\ frame.filename = Address(at[device.port])
        BY <1>0, ReadyFacts DEF ReadyInv, SearchPcs
    <2>. QED
        BY <2>1 DEF NodeExists
<1>2. CASE ~NodeExists(frame.filename) /\ give_up("not_ready")
    BY <1>1, <1>2, GiveUpReady
<1>3. CASE Return("none")
    BY <1>3, SuccessReady
<1>. QED
    BY <1>2, <1>3 DEF check_existence

LEMMA TtyScanReady ==
    ASSUME BusInv, CoreInv, CoreInv', WatchInv, ReadyInv, tty_scan
    PROVE  ReadyInv' /\ AnswersInv'
<1>0. /\ frame.pc = "tty_scan" /\ frame.pc \in SearchPcs
      /\ frame.call = "port" /\ frame.entry = Target
    BY DEF tty_scan, SearchPcs, Searching, OfTty, CoreInv, FrameInv
<1>. DEFINE todo == udevw_create_child_list(frame.entry)
<1>1. Goes("tty", todo, frame.entry, frame.obj, frame.filename, frame.no_handle)
    BY DEF tty_scan, proceed, Continue, Goes, CoreInv, FrameInv
<1>2. UNCHANGED <<device, watch>>
    BY DEF tty_scan, proceed, Allocates, objVars
<1>3. watch.ready => "tty" \in todo
    BY <1>0, ReadyFacts DEF udevw_create_child_list
<1>. QED
    BY <1>0, <1>1, <1>2, <1>3, GoReady DEF Searching, OfTty, CoreInv

LEMMA TtyEntryReady ==
    ASSUME BusInv, CoreInv, CoreInv', WatchInv, ReadyInv,
           NEW kind \in {"usb", "tty"}, tty_entry(kind)
    PROVE  ReadyInv' /\ AnswersInv'
<1>0. /\ frame.pc = "tty" /\ frame.pc \in SearchPcs /\ kind \in frame.todo
      /\ frame.call = "port" /\ frame.entry = Target
    BY DEF tty_entry, SearchPcs, Searching, OfTty, CoreInv, FrameInv
<1>. DEFINE gone == kind \notin udevw_create_child_list(frame.entry)
            todo == frame.todo \ {kind}
<1>1. watch.ready => /\ "tty" \in frame.todo
                     /\ "tty" \in udevw_create_child_list(frame.entry)
                     /\ ~watch.vanished =>
                            frame.todo \subseteq udevw_create_child_list(frame.entry)
    <2>1. watch.ready => Target \in ttys
        BY <1>0, ReadyFacts
    <2>2. watch.ready => "tty" \in udevw_create_child_list(frame.entry)
        BY <1>0, <2>1 DEF udevw_create_child_list
    <2>. QED
        BY <1>0, <2>2 DEF ReadyInv, SearchPcs
<1>2. CASE gone /\ entry_gone
    BY <1>0, <1>1, <1>2, GiveUpReady DEF entry_gone
<1>3. CASE (gone \/ kind # "tty") /\ proceed([frame EXCEPT !.todo = @ \ {kind}])
    <2>1. Goes("tty", todo, frame.entry, frame.obj, frame.filename, frame.no_handle)
        BY <1>0, <1>3 DEF proceed, Continue, Goes, CoreInv, FrameInv
    <2>2. UNCHANGED <<device, watch>>
        BY <1>3 DEF proceed, Allocates, objVars
    <2>3. watch.ready => "tty" \in todo
        BY <1>1, <1>3
    <2>. QED
        BY <1>0, <1>1, <2>1, <2>2, <2>3, GoReady DEF Searching, OfTty, CoreInv
<1>4. CASE proceed([[frame EXCEPT !.todo = @ \ {kind}] EXCEPT !.pc = "tty_name", !.todo = {}])
    <2>1. Goes("tty_name", {}, frame.entry, frame.obj, frame.filename, frame.no_handle)
        BY <1>4 DEF proceed, Continue, Goes, CoreInv, FrameInv
    <2>2. UNCHANGED <<device, watch>>
        BY <1>4 DEF proceed, Allocates, objVars
    <2>. QED
        BY <1>0, <2>1, <2>2, GoReady DEF Searching, OfTty, CoreInv
<1>. QED
    BY <1>2, <1>3, <1>4 DEF tty_entry

LEMMA TtyNameReady ==
    ASSUME BusInv, CoreInv, WatchInv, ReadyInv, tty_name
    PROVE  ReadyInv' /\ AnswersInv'
<1>0. /\ frame.pc = "tty_name" /\ frame.pc \in SearchPcs
      /\ frame.call = "port" /\ frame.entry = Target
    BY DEF tty_name, SearchPcs, Searching, OfTty, CoreInv, FrameInv
<1>1. CASE frame.entry \notin ttys /\ give_up("other")
    <2>1. ~watch.ready
        BY <1>0, <1>1, ReadyFacts
    <2>. QED
        BY <1>1, <2>1, GiveUpReady
<1>2. CASE Return("none")
    BY <1>2, SuccessReady
<1>. QED
    BY <1>1, <1>2 DEF tty_name

(* The calls that are not a search, and the user. *)
LEMMA ListReady ==
    ASSUME CoreInv,
           \/ list_begin
           \/ \E path \in SysPaths : add_udev_device_to_list_if_needed(path)
           \/ read_ids
           \/ read_serial
           \/ list_return
           \/ find_return
    PROVE  ReadyInv' /\ AnswersInv'
<1>0. /\ frame.pc \in {"list", "find"} \cup Listing
      /\ frame.call \in {"list", "find"} /\ result = NoResult
    <2>1. frame.pc \in {"list", "find"} \cup Listing
        BY DEF list_begin, add_udev_device_to_list_if_needed, read_ids, get_sysattr,
            read_serial, list_return, find_return, Listing, Reading
    <2>. QED
        BY <2>1 DEF CoreInv, FrameInv, Listing, Reading
<1>1. ASSUME NEW code \in {"none", "memory", "other"}, Return(code)
      PROVE  ReadyInv' /\ AnswersInv'
    <2>1. frame'.pc = "idle" /\ result'.call = frame.call /\ result'.error = code
        BY <1>1 DEF Return, IdleFrame
    <2>. QED
        BY <1>0, <1>1, <2>1, OtherReady DEF SearchPcs, Searching, OfInterface, OfTty
<1>2. CASE result' = result /\ frame'.pc \in Listing
    BY <1>0, <1>2, OtherReady DEF SearchPcs, Searching, OfInterface, OfTty, Listing, Reading,
        NoResult
<1>3. frame = [pc |-> frame.pc, call |-> frame.call, want |-> frame.want,
               todo |-> frame.todo, entry |-> frame.entry, obj |-> frame.obj,
               filename |-> frame.filename, no_handle |-> frame.no_handle]
    BY DEF CoreInv, FrameInv
<1>4. CASE list_begin
    <2>1. ASSUME Continue([frame EXCEPT !.pc = "each", !.todo = udevw_create_usb_list])
          PROVE  result' = result /\ frame'.pc \in Listing
        BY <1>3, <2>1 DEF Continue, Listing
    <2>. QED
        BY <1>1, <1>2, <1>4, <2>1 DEF list_begin, setup_out_of_memory
<1>5. ASSUME NEW path \in SysPaths, add_udev_device_to_list_if_needed(path)
      PROVE  result' = result /\ frame'.pc \in Listing
    <2>1. frame.pc = "each" /\ remains(path).pc = "each"
        BY <1>3, <1>5 DEF add_udev_device_to_list_if_needed, remains
    <2>2. remains(path) = [pc |-> frame.pc, call |-> frame.call, want |-> frame.want,
               todo |-> frame.todo \ {path}, entry |-> frame.entry, obj |-> frame.obj,
               filename |-> frame.filename, no_handle |-> frame.no_handle]
        BY <1>3 DEF remains
    <2>. HIDE DEF remains
    <2>3. result' = result
        BY <1>5 DEF add_udev_device_to_list_if_needed, Continue
    <2>4. frame'.pc \in {"each", "idVendor"}
        BY <1>5, <2>1, <2>2 DEF add_udev_device_to_list_if_needed, Continue
    <2>. QED
        BY <2>3, <2>4 DEF Listing, Reading
<1>6. CASE read_ids \/ read_serial
    <2>1. result' = result
        BY <1>6 DEF read_ids, get_sysattr, drop_device, read_serial, add_udev_device_to_list,
            Continue
    <2>2. frame'.pc \in Listing
        BY <1>3, <1>6 DEF read_ids, get_sysattr, drop_device, read_serial,
            add_udev_device_to_list, Continue, Listing, Reading
    <2>. QED
        BY <1>2, <2>1, <2>2
<1>7. CASE list_return \/ find_return
    BY <1>1, <1>7 DEF list_return, find_return
<1>. QED
    BY <1>2, <1>4, <1>5, <1>6, <1>7

LEMMA OpenReady ==
    ASSUME CoreInv, generic_handle_setup \/ usbfd_open \/ check_device_descriptor
    PROVE  ReadyInv' /\ AnswersInv'
<1>0. frame.call = "open" /\ result = NoResult
    BY DEF generic_handle_setup, usbfd_open, check_device_descriptor, CoreInv, FrameInv
<1>1. ASSUME NEW error \in Errors \ {"not_ready"}, Return(error)
      PROVE  ReadyInv' /\ AnswersInv'
    <2>1. frame'.pc = "idle" /\ result'.call = frame.call /\ result'.error = error
        BY <1>1 DEF Return, IdleFrame
    <2>. QED
        BY <1>0, <2>1, OtherReady DEF SearchPcs, Searching, OfInterface, OfTty
<1>2. CASE result' = result /\ frame'.pc \in {"open_node", "descriptor", "crashed"}
    BY <1>0, <1>2, OtherReady DEF SearchPcs, Searching, OfInterface, OfTty, NoResult
<1>3. frame = [pc |-> frame.pc, call |-> frame.call, want |-> frame.want,
               todo |-> frame.todo, entry |-> frame.entry, obj |-> frame.obj,
               filename |-> frame.filename, no_handle |-> frame.no_handle]
    BY DEF CoreInv, FrameInv
<1>4. {"none", "memory", "access", "other", "disconnected"} \subseteq Errors \ {"not_ready"}
    BY DEF Errors
<1>5. CASE generic_handle_setup
    <2>1. \/ Return("memory")
          \/ Continue([frame EXCEPT !.pc = "open_node"])
          \/ Continue([frame EXCEPT !.pc = "open_node", !.no_handle = TRUE])
        BY <1>5 DEF generic_handle_setup
    <2>2. ASSUME ~Return("memory")
          PROVE  result' = result /\ frame'.pc = "open_node"
        BY <1>3, <2>1, <2>2 DEF Continue
    <2>. QED
        BY <1>1, <1>2, <1>4, <2>2
<1>6. CASE usbfd_open
    <2>1. ASSUME NEW n, Continue([frame EXCEPT
                    !.pc = IF frame.no_handle THEN "crashed" ELSE "descriptor", !.entry = n])
          PROVE  result' = result /\ frame'.pc \in {"descriptor", "crashed"}
        BY <1>3, <2>1 DEF Continue
    <2>2. ASSUME NEW error \in {"access", "other"}, Fail(error)
          PROVE  ReadyInv' /\ AnswersInv'
        BY <1>1, <1>4, <2>2 DEF Fail
    <2>. QED
        BY <1>2, <1>6, <2>1, <2>2 DEF usbfd_open
<1>7. CASE check_device_descriptor
    BY <1>1, <1>4, <1>7 DEF check_device_descriptor, Fail
<1>. QED
    BY <1>5, <1>6, <1>7

LEMMA EnterReady ==
    ASSUME BusInv, CoreInv, CoreInv', NEW call \in {"list", "find", "interface", "port", "open"},
           NEW want, Enter(call, want)
    PROVE  ReadyInv' /\ AnswersInv'
<1>1. /\ frame'.pc = call /\ frame'.call = call /\ frame'.want = want
      /\ UNCHANGED <<busVars, device>>
      /\ watch'.ready => ReadyFor(call, <<device.port, want>>)
    BY DEF Enter, IdleFrame, objVars
<1>2. Target' = <<device.port, want>>
    BY <1>1 DEF Target
<1>3. watch'.ready => ReadyFor(frame.call, Target)'
    BY <1>1, <1>2 DEF ReadyFor, busVars
<1>4. AnswersInv'
    BY <1>1, NoAnswer DEF CoreInv
<1>5. ReadyInv'
    BY <1>1, <1>3 DEF ReadyInv
<1>. QED
    BY <1>4, <1>5

LEMMA UserReady ==
    ASSUME BusInv, CoreInv, CoreInv', UserStep
    PROVE  ReadyInv' /\ AnswersInv'
<1>1. CASE \E call \in {"list", "find", "interface", "port", "open"} : \E want : Enter(call, want)
    BY <1>1, EnterReady
<1>2. CASE /\ frame.pc = "idle" /\ frame' = frame
           /\ result'.error # "not_ready" /\ result'.call \notin {"interface", "port"}
    BY <1>2, OtherReady DEF SearchPcs, Searching, OfInterface, OfTty
<1>3. CASE user_copies_device \/ libusbp_generic_interface_copy \/ libusbp_serial_port_copy
    <2>1. frame.pc = "idle" /\ frame' = frame
        BY <1>3 DEF user_copies_device, libusbp_generic_interface_copy,
            libusbp_serial_port_copy, Copies, CopyFails
    <2>2. result'.call = "copy" /\ result'.error \in {"none", "memory"}
        BY <1>3 DEF user_copies_device, libusbp_generic_interface_copy,
            libusbp_serial_port_copy, Copies, CopyFails, NoResult
    <2>. QED
        BY <1>2, <2>1, <2>2
<1>4. CASE \/ list_free \/ libusbp_device_free \/ libusbp_generic_interface_free
           \/ libusbp_serial_port_free \/ libusbp_generic_handle_close
    <2>1. frame.pc = "idle" /\ frame' = frame /\ Forget
        BY <1>4 DEF list_free, libusbp_device_free, libusbp_generic_interface_free,
            libusbp_serial_port_free, libusbp_generic_handle_close
    <2>. QED
        BY <1>2, <2>1 DEF Forget, NoResult
<1>. QED
    BY <1>1, <1>3, <1>4 DEF UserStep, libusbp_list_connected_devices,
        libusbp_find_device_with_vid_pid, libusbp_generic_interface_create,
        libusbp_serial_port_create, libusbp_generic_handle_open

(* The bus changes: what was ready and still is has not moved. *)
LEMMA BusReady ==
    ASSUME BusInv, CoreInv, CoreInv', WatchInv, ReadyInv, BusStep
    PROVE  ReadyInv' /\ AnswersInv'
<1>0. BusNext /\ frame' = frame /\ device' = device /\ Target' = Target
    BY DEF BusStep, objVars, Target
<1>1. CASE frame.pc \in {"idle", "crashed"}
    BY <1>0, <1>1, OtherReady DEF BusStep, NoResult, SearchPcs, Searching, OfInterface, OfTty
<1>2. CASE frame.pc \notin {"idle", "crashed"}
    <2>1. AnswersInv'
        BY <1>0, <1>2, NoAnswer DEF CoreInv
    <2>2. CASE frame.pc \notin SearchPcs
        BY <1>0, <2>1, <2>2 DEF ReadyInv, SearchPcs
    <2>3. CASE frame.pc \in SearchPcs /\ watch'.ready
        <3>1. /\ watch.ready /\ ReadyFor(frame.call, Target)'
              /\ ~watch'.vanished => /\ ~watch.vanished
                                     /\ Present \subseteq Present' /\ ttys \subseteq ttys'
            BY <1>2, <2>3 DEF BusStep, WatchInv
        <3>2. Target \in ifaces /\ Target \in ifaces' /\ Target[1] = device.port
            BY <1>0, <2>3, <3>1, ReadyFacts DEF ReadyFor, Target
        <3>3. at'[device.port] = at[device.port]
            BY <1>0, <3>2, BusMoves
        <3>4. frame.pc = "tty" => frame.entry = Target
            BY DEF CoreInv, FrameInv, OfTty
        <3>5. frame.pc = "tty" /\ ~watch'.vanished =>
                \A kind \in udevw_create_child_list(frame.entry) :
                    kind \in udevw_create_child_list(frame.entry)'
            BY <1>0, <3>1, <3>2, <3>4 DEF udevw_create_child_list
        <3>6. /\ frame.pc = "search" => Target \in frame.todo
              /\ frame.pc = "check" => frame.entry = Target \/ Target \in frame.todo
              /\ frame.pc = "access" => frame.filename = Address(at[device.port])
              /\ frame.pc = "tty" => "tty" \in frame.todo
              /\ ~watch.vanished =>
                /\ frame.pc \in {"search", "check"} => frame.todo \subseteq Present
                /\ frame.pc = "check" => frame.entry \in Present
                /\ frame.pc = "tty" => frame.todo \subseteq udevw_create_child_list(frame.entry)
            BY <2>3, <3>1 DEF ReadyInv, SearchPcs
        <3>7. ~watch'.vanished => 
                /\ frame.pc \in {"search", "check"} => frame.todo \subseteq Present'
                /\ frame.pc = "check" => frame.entry \in Present'
                /\ frame.pc = "tty" => frame.todo \subseteq udevw_create_child_list(frame.entry)'
            BY <3>1, <3>5, <3>6
        <3>8. frame.pc = "access" => frame.filename = Address(at'[device.port])
            BY <3>3, <3>6
        <3>. QED
            BY <1>0, <2>1, <3>1, <3>6, <3>7, <3>8 DEF ReadyInv, Address
    <2>4. CASE ~watch'.ready
        BY <2>1, <2>4 DEF ReadyInv
    <2>. QED
        BY <2>2, <2>3, <2>4
<1>. QED
    BY <1>1, <1>2

LEMMA StutterReady ==
    ASSUME ReadyInv, AnswersInv, UNCHANGED vars
    PROVE  ReadyInv' /\ AnswersInv'
<1>. USE DEF vars, objVars, busVars
<1>1. ReadyInv'
    BY DEF ReadyInv, ReadyFor, Target, Present, udevw_create_child_list, Address
<1>2. AnswersInv'
    BY DEF AnswersInv, NotReadyIsTrue, ReadyInterfaceIsCreated
<1>. QED
    BY <1>1, <1>2

LEMMA ReadyStep ==
    ASSUME BusInv, CoreInv, CoreInv', WatchInv, ReadyInv, AnswersInv, [Next]_vars
    PROVE  ReadyInv' /\ AnswersInv'
<1>1. CASE CallStep
    <2>1. search_out_of_memory => ReadyInv' /\ AnswersInv'
        BY MemoryReady DEF search_out_of_memory
    <2>2. \A path \in SysPaths : get_interface_entry(path) => ReadyInv' /\ AnswersInv'
        BY EntryReady
    <2>3. \A kind \in {"usb", "tty"} : tty_entry(kind) => ReadyInv' /\ AnswersInv'
        BY TtyEntryReady
    <2>. QED
        BY <1>1, <2>1, <2>2, <2>3, ListReady, OpenReady, SearchBeginReady, CheckReady,
            NotFoundReady, DriverReady, DevnodeReady, ExistenceReady, TtyScanReady,
            TtyNameReady DEF CallStep
<1>. QED
    BY <1>1, UserReady, BusReady, StutterReady DEF Next, Crashed

(***************************************************************************)
(* The list: what has been at a port since the call began is ahead, being  *)
(* read, or listed, and no port is listed twice.                           *)
(***************************************************************************)
ListInv == OnceInv /\ StableInv
ListPcs == {"list", "find"} \cup Listing
ListAnswersInv == ListIsComplete /\ FindIsRight

LEMMA StableFacts ==
    ASSUME BusInv, NEW s, StaysThere(s)
    PROVE  /\ s[1] \in Ports /\ at[s[1]] = s[2] /\ s[2] \in initialized
           /\ s[2] \in Instances /\ s[2] # 0 /\ DevicePath(s[1]) \in Present
<1>1. /\ s[1] \in Ports /\ at[s[1]] = s[2] /\ s[2] \in initialized
    BY DEF StaysThere
<1>2. s[2] \in Connected /\ s[2] \in Instances /\ s[2] # 0
    BY <1>1 DEF BusInv, BusTypeOK, Connected
<1>. QED
    BY <1>1, <1>2 DEF Present

LEMMA PathsDiffer == \A p, q : DevicePath(p) = DevicePath(q) => p = q
BY DEF DevicePath

LEMMA OtherList ==
    ASSUME frame'.pc \notin ListPcs, result'.call \notin {"list", "find"} \/ result'.error # "none"
    PROVE  ListInv' /\ ListAnswersInv'
BY DEF ListInv, OnceInv, StableInv, ListPcs, ListAnswersInv, ListIsComplete, FindIsRight

LEMMA NoListAnswer ==
    ASSUME FrameInv', frame'.pc # "idle"
    PROVE  ListAnswersInv'
<1>1. result'.call = "none"
    BY DEF FrameInv, NoResult
<1>. QED
    BY <1>1 DEF ListAnswersInv, ListIsComplete, FindIsRight

(* A step inside of a listing. *)
LEMMA GoList ==
    ASSUME BusInv, CoreInv, CoreInv', ListInv, frame.pc \in ListPcs,
           NEW pc \in Listing, NEW todo, NEW entry, NEW obj, NEW filename, NEW no_handle,
           Goes(pc, todo, entry, obj, filename, no_handle),
           watch'.stable = watch.stable,
           \A k \in DOMAIN list' : DevicePath(list'[k].port) \notin todo,
           \A j, k \in DOMAIN list' : list'[j].port = list'[k].port => j = k,
           pc \in Reading => /\ DevicePath(obj.port) \notin todo
                             /\ \A k \in DOMAIN list' : list'[k].port # obj.port,
           \A s \in watch.stable : StaysThere(s) =>
            /\ \A k \in DOMAIN list' : list'[k].port = s[1] => Describes(list'[k], s[1], s[2])
            /\ pc \in Reading /\ obj.port = s[1] =>
                /\ pc # "idVendor" => obj.vid = identity[s[2]].vid
                /\ pc \in {"bcdDevice", "serial"} => obj.pid = identity[s[2]].pid
                /\ pc = "serial" => obj.rev = identity[s[2]].rev
            /\ ~watch'.nomem =>
                \/ DevicePath(s[1]) \in todo
                \/ pc \in Reading /\ obj.port = s[1]
                \/ \E k \in DOMAIN list' : list'[k].port = s[1]
    PROVE  ListInv' /\ ListAnswersInv'
<1>1. /\ frame'.pc = pc /\ frame'.todo = todo /\ frame'.obj = obj
      /\ at' = at /\ identity' = identity /\ initialized' = initialized
    BY DEF Goes, busVars
<1>2. OnceInv'
    BY <1>1 DEF OnceInv
<1>3. \A s \in watch.stable : StaysThere(s)
    BY DEF ListInv, StableInv, ListPcs
<1>4. StableInv'
    BY <1>1, <1>3 DEF StableInv, StaysThere, ReadSoFar, Describes
<1>5. frame'.pc # "idle"
    BY <1>1 DEF Listing, Reading
<1>. QED
    BY <1>2, <1>4, <1>5, NoListAnswer DEF ListInv, CoreInv

LEMMA ListBeginList ==
    ASSUME BusInv, CoreInv, CoreInv', WatchInv, ListInv, list_begin
    PROVE  ListInv' /\ ListAnswersInv'
<1>0. frame.pc \in {"list", "find"} /\ frame.pc \in ListPcs /\ list = <<>> /\ list' = <<>>
    BY DEF list_begin, ListPcs, objVars, CoreInv, FrameInv
<1>1. CASE Allocates /\ Continue([frame EXCEPT !.pc = "each", !.todo = udevw_create_usb_list])
    <2>1. Goes("each", Present, frame.entry, frame.obj, frame.filename, frame.no_handle)
        BY <1>1 DEF Continue, Goes, udevw_create_usb_list, CoreInv, FrameInv
    <2>2. DOMAIN list' = {} /\ watch' = watch
        BY <1>0, <1>1 DEF Allocates
    <2>3. \A s \in watch.stable : StaysThere(s) => DevicePath(s[1]) \in Present
        BY StableFacts
    <2>. QED
        BY <1>0, <2>1, <2>2, <2>3, GoList DEF Listing, Reading
<1>2. ASSUME NEW code \in {"memory", "other"}, Return(code)
      PROVE  ListInv' /\ ListAnswersInv'
    BY <1>2, OtherList DEF Return, IdleFrame, ListPcs, Listing, Reading
<1>. QED
    BY <1>1, <1>2 DEF list_begin, setup_out_of_memory

LEMMA AddList ==
    ASSUME BusInv, CoreInv, CoreInv', WatchInv, ListInv,
           NEW path \in SysPaths, add_udev_device_to_list_if_needed(path)
    PROVE  ListInv' /\ ListAnswersInv'
<1>0. /\ frame.pc = "each" /\ frame.pc \in ListPcs /\ path \in frame.todo /\ list' = list
      /\ "each" \in Listing /\ "each" \notin Reading
    BY DEF add_udev_device_to_list_if_needed, ListPcs, Listing, Reading
<1>. DEFINE todo == frame.todo \ {path}
            d == DeviceFields(path[1], NULL, NULL, NULL, NULL, at[path[1]])
<1>1. /\ \A k \in DOMAIN list : DevicePath(list[k].port) \notin frame.todo
      /\ \A j, k \in DOMAIN list : list[j].port = list[k].port => j = k
    BY <1>0 DEF ListInv, OnceInv
<1>2. \A s \in watch.stable :
        /\ StaysThere(s)
        /\ \A k \in DOMAIN list : list[k].port = s[1] => Describes(list[k], s[1], s[2])
        /\ ~watch.nomem => \/ DevicePath(s[1]) \in frame.todo
                           \/ \E k \in DOMAIN list : list[k].port = s[1]
    BY <1>0 DEF ListInv, StableInv
<1>3. CASE Skipped(path) /\ Allocates /\ Continue(remains(path))
    <2>1. Goes("each", todo, frame.entry, frame.obj, frame.filename, frame.no_handle)
        BY <1>0, <1>3 DEF Continue, remains, Goes, CoreInv, FrameInv
    <2>2. \A s \in watch.stable : DevicePath(s[1]) # path
        <3>1. SUFFICES ASSUME NEW s \in watch.stable, DevicePath(s[1]) = path PROVE FALSE
            OBVIOUS
        <3>2. path \in Present /\ path[1] = s[1] /\ path[2] = WholeDevice
              /\ at[path[1]] \in initialized
            BY <1>2, <3>1, StableFacts DEF DevicePath
        <3>. QED
            BY <1>3, <3>2 DEF Skipped, udevw_get_device_from_syspath
    <2>3. watch' = watch
        BY <1>3 DEF Allocates
    <2>. QED
        BY <1>0, <1>1, <1>2, <2>1, <2>2, <2>3, GoList
<1>4. CASE OutOfMemory /\ Continue(remains(path))
    <2>1. Goes("each", todo, frame.entry, frame.obj, frame.filename, frame.no_handle)
        BY <1>0, <1>4 DEF Continue, remains, Goes, CoreInv, FrameInv
    <2>2. watch'.stable = watch.stable /\ watch'.nomem
        BY <1>4 DEF OutOfMemory, WatchInv
    <2>. QED
        BY <1>0, <1>1, <1>2, <2>1, <2>2, GoList
<1>5. CASE ~Skipped(path) /\ Allocates /\ Continue([remains(path) EXCEPT !.pc = "idVendor", !.obj = d])
    <2>1. path = DevicePath(path[1])
        BY <1>5, WholePath DEF Skipped
    <2>2. d.port = path[1]
        BY DEF DeviceFields
    <2>. HIDE DEF d
    <2>3. Goes("idVendor", todo, frame.entry, d, frame.filename, frame.no_handle)
        BY <1>5 DEF Continue, remains, Goes, CoreInv, FrameInv
    <2>4. watch' = watch
        BY <1>5 DEF Allocates
    <2>5. \A k \in DOMAIN list : list[k].port # d.port
        BY <1>0, <1>1, <2>1, <2>2
    <2>6. \A s \in watch.stable : DevicePath(s[1]) = path => d.port = s[1]
        BY <2>1, <2>2, PathsDiffer
    <2>7. "idVendor" \in Listing /\ "idVendor" \in Reading
        BY DEF Listing, Reading
    <2>. QED
        BY <1>0, <1>1, <1>2, <2>1, <2>2, <2>3, <2>4, <2>5, <2>6, <2>7, GoList
<1>. QED
    BY <1>3, <1>4, <1>5 DEF add_udev_device_to_list_if_needed

(* While a device is read. *)
LEMMA ReadingListFacts ==
    ASSUME BusInv, CoreInv, ListInv, frame.pc \in Reading
    PROVE  /\ frame.pc \in ListPcs
           /\ \A k \in DOMAIN list : DevicePath(list[k].port) \notin frame.todo
           /\ \A j, k \in DOMAIN list : list[j].port = list[k].port => j = k
           /\ DevicePath(frame.obj.port) \notin frame.todo
           /\ \A k \in DOMAIN list : list[k].port # frame.obj.port
           /\ \A s \in watch.stable :
                /\ StaysThere(s)
                /\ \A k \in DOMAIN list : list[k].port = s[1] => Describes(list[k], s[1], s[2])
                /\ frame.obj.port = s[1] => ReadSoFar(frame.obj, s[2])
                /\ ~watch.nomem => \/ DevicePath(s[1]) \in frame.todo
                                   \/ frame.obj.port = s[1]
                                   \/ \E k \in DOMAIN list : list[k].port = s[1]
           /\ \A s \in watch.stable : frame.obj.port = s[1] =>
                ObjPresent /\ ObjModel = identity[s[2]]
<1>1. frame.pc \in Listing /\ frame.pc \in ListPcs
    BY DEF Listing, ListPcs
<1>2. \A s \in watch.stable : StaysThere(s)
    BY <1>1 DEF ListInv, StableInv, ListPcs
<1>3. \A s \in watch.stable : frame.obj.port = s[1] =>
                ObjPresent /\ ObjModel = identity[s[2]]
    BY <1>2, StableFacts DEF ObjPresent, ObjModel
<1>. QED
    BY <1>1, <1>2, <1>3 DEF ListInv, OnceInv, StableInv, ListPcs

LEMMA DropList ==
    ASSUME BusInv, CoreInv, CoreInv', WatchInv, ListInv, frame.pc \in Reading, drop_device,
           \/ Allocates /\ ~ObjPresent
           \/ OutOfMemory
    PROVE  ListInv' /\ ListAnswersInv'
<1>1. Goes("each", frame.todo, frame.entry, NULL, frame.filename, frame.no_handle)
    BY DEF drop_device, Continue, Goes, CoreInv, FrameInv
<1>2. watch'.stable = watch.stable /\ (~watch'.nomem => ~watch.nomem /\ ~ObjPresent)
    BY DEF Allocates, OutOfMemory, WatchInv
<1>3. list' = list /\ "each" \in Listing /\ "each" \notin Reading
    BY DEF drop_device, Listing, Reading
<1>. QED
    BY <1>1, <1>2, <1>3, ReadingListFacts, GoList

LEMMA SysattrList ==
    ASSUME BusInv, CoreInv, CoreInv', WatchInv, ListInv, NEW attr \in Reading, NEW next \in Reading,
           NEW obj, get_sysattr(attr, next, obj), obj.port = frame.obj.port,
           \A s \in watch.stable : frame.obj.port = s[1] =>
                /\ next # "idVendor" => obj.vid = identity[s[2]].vid
                /\ next \in {"bcdDevice", "serial"} => obj.pid = identity[s[2]].pid
                /\ next = "serial" => obj.rev = identity[s[2]].rev
    PROVE  ListInv' /\ ListAnswersInv'
<1>0. frame.pc \in Reading /\ Allocates
    BY DEF get_sysattr
<1>1. CASE Continue([frame EXCEPT !.pc = next, !.obj = obj]) /\ UNCHANGED <<list, devs>>
    <2>1. Goes(next, frame.todo, frame.entry, obj, frame.filename, frame.no_handle)
        BY <1>1 DEF Continue, Goes, CoreInv, FrameInv
    <2>2. watch' = watch /\ list' = list /\ next \in Listing
        BY <1>0, <1>1 DEF Allocates, Listing
    <2>. QED
        BY <1>0, <2>1, <2>2, ReadingListFacts, GoList
<1>2. CASE ~ObjPresent /\ drop_device
    BY <1>0, <1>2, DropList
<1>. QED
    BY <1>1, <1>2 DEF get_sysattr

LEMMA ReadIdsList ==
    ASSUME BusInv, CoreInv, CoreInv', WatchInv, ListInv, read_ids
    PROVE  ListInv' /\ ListAnswersInv'
<1>0. frame.pc \in Reading
    BY DEF read_ids, get_sysattr, Reading
<1>1. frame.obj \in Device
    BY <1>0, ReadingFacts
<1>2. \A s \in watch.stable : frame.obj.port = s[1] =>
        ReadSoFar(frame.obj, s[2]) /\ ObjModel = identity[s[2]]
    BY <1>0, ReadingListFacts
<1>. DEFINE vid == [frame.obj EXCEPT !.vid = ObjModel.vid]
            pid == [frame.obj EXCEPT !.pid = ObjModel.pid]
            rev == [frame.obj EXCEPT !.rev = ObjModel.rev]
<1>3. vid.port = frame.obj.port /\ vid.vid = ObjModel.vid
    BY <1>1 DEF Device
<1>4. pid.port = frame.obj.port /\ pid.vid = frame.obj.vid /\ pid.pid = ObjModel.pid
    BY <1>1 DEF Device
<1>5. rev.port = frame.obj.port /\ rev.vid = frame.obj.vid /\ rev.pid = frame.obj.pid
      /\ rev.rev = ObjModel.rev
    BY <1>1 DEF Device
<1>. HIDE DEF vid, pid, rev
<1>6. CASE get_sysattr("idVendor", "idProduct", vid)
    BY <1>2, <1>3, <1>6, SysattrList DEF Reading
<1>7. CASE get_sysattr("idProduct", "bcdDevice", pid)
    <2>1. frame.pc = "idProduct"
        BY <1>7 DEF get_sysattr
    <2>2. \A s \in watch.stable : frame.obj.port = s[1] => frame.obj.vid = identity[s[2]].vid
        BY <1>2, <2>1 DEF ReadSoFar
    <2>. QED
        BY <1>2, <1>4, <1>7, <2>2, SysattrList DEF Reading
<1>8. CASE get_sysattr("bcdDevice", "serial", rev)
    <2>1. frame.pc = "bcdDevice"
        BY <1>8 DEF get_sysattr
    <2>2. \A s \in watch.stable : frame.obj.port = s[1] =>
            frame.obj.vid = identity[s[2]].vid /\ frame.obj.pid = identity[s[2]].pid
        BY <1>2, <2>1 DEF ReadSoFar
    <2>. QED
        BY <1>2, <1>5, <1>8, <2>2, SysattrList DEF Reading
<1>. QED
    BY <1>6, <1>7, <1>8 DEF read_ids, vid, pid, rev

LEMMA SerialList ==
    ASSUME BusInv, CoreInv, CoreInv', WatchInv, ListInv, read_serial
    PROVE  ListInv' /\ ListAnswersInv'
<1>0. frame.pc = "serial" /\ frame.pc \in Reading
    BY DEF read_serial, Reading
<1>. DEFINE d == [frame.obj EXCEPT
                     !.serial = udevw_get_sysattr_if_exists_copy(frame.obj.port)]
<1>1. frame.obj \in Device
    BY <1>0, ReadingFacts
<1>2. /\ d.port = frame.obj.port /\ d.vid = frame.obj.vid /\ d.pid = frame.obj.pid
      /\ d.rev = frame.obj.rev
      /\ d.serial = udevw_get_sysattr_if_exists_copy(frame.obj.port)
    BY <1>1 DEF Device
<1>3. add_udev_device_to_list(d)
    BY DEF read_serial
<1>. HIDE DEF d
<1>4. \A s \in watch.stable : d.port = s[1] => Describes(d, s[1], s[2])
    <2>1. \A s \in watch.stable : frame.obj.port = s[1] =>
            /\ ReadSoFar(frame.obj, s[2]) /\ ObjPresent /\ ObjModel = identity[s[2]]
        BY <1>0, ReadingListFacts
    <2>2. \A s \in watch.stable : frame.obj.port = s[1] => d.serial = identity[s[2]].serial
        BY <1>2, <2>1 DEF udevw_get_sysattr_if_exists_copy, ObjPresent, ObjModel
    <2>. QED
        BY <1>0, <1>2, <2>1, <2>2 DEF ReadSoFar, Describes
<1>5. CASE /\ Allocates /\ device_list_append(d)
           /\ Continue([frame EXCEPT !.pc = "each", !.obj = NULL])
    <2>1. Goes("each", frame.todo, frame.entry, NULL, frame.filename, frame.no_handle)
        BY <1>5 DEF Continue, Goes, CoreInv, FrameInv
    <2>2. watch' = watch /\ "each" \in Listing /\ "each" \notin Reading
        BY <1>5 DEF Allocates, Listing, Reading
    <2>3. list \in Seq(Device) /\ list' = Append(list, d) /\ Len(list) \in Nat
        BY <1>5 DEF device_list_append, CoreInv, TypeOK
    <2>4. /\ DOMAIN list = 1..Len(list) /\ DOMAIN list' = 1..(Len(list) + 1)
          /\ \A k \in DOMAIN list : list'[k] = list[k]
          /\ list'[Len(list) + 1] = d
        BY <2>3
    <2>5. \A k \in DOMAIN list' : k \in DOMAIN list \/ k = Len(list) + 1
        BY <2>3, <2>4
    <2>6. DOMAIN list \subseteq DOMAIN list' /\ Len(list) + 1 \in DOMAIN list'
        BY <2>3, <2>4
    <2>7. \A k \in DOMAIN list' : DevicePath(list'[k].port) \notin frame.todo
        BY <1>0, <1>2, <2>4, <2>5, ReadingListFacts
    <2>8. \A j, k \in DOMAIN list' : list'[j].port = list'[k].port => j = k
        BY <1>0, <1>2, <2>4, <2>5, ReadingListFacts
    <2>9. \A s \in watch.stable :
            /\ \A k \in DOMAIN list' : list'[k].port = s[1] => Describes(list'[k], s[1], s[2])
            /\ ~watch.nomem =>
                \/ DevicePath(s[1]) \in frame.todo
                \/ \E k \in DOMAIN list' : list'[k].port = s[1]
        BY <1>0, <1>2, <1>4, <2>4, <2>5, <2>6, ReadingListFacts
    <2>. QED
        BY <1>0, <2>1, <2>2, <2>7, <2>8, <2>9, ReadingListFacts, GoList
<1>6. CASE OutOfMemory /\ drop_device
    BY <1>0, <1>6, DropList
<1>. QED
    BY <1>3, <1>5, <1>6 DEF add_udev_device_to_list

(* The loop is over: everything that was there all the time is in the list. *)
LEMMA ListEnds ==
    ASSUME ListInv, frame.pc = "each", frame.todo = {}, ~watch.nomem, NEW s \in watch.stable
    PROVE  \E k \in DOMAIN list :
            /\ Describes(list[k], s[1], s[2])
            /\ {j \in DOMAIN list : list[j].port = s[1]} = {k}
<1>1. frame.pc \in Listing /\ frame.pc \notin Reading
    BY DEF Listing, Reading
<1>2. PICK k \in DOMAIN list : list[k].port = s[1]
    BY <1>1 DEF ListInv, StableInv
<1>3. Describes(list[k], s[1], s[2])
    BY <1>1, <1>2 DEF ListInv, StableInv
<1>4. \A j \in DOMAIN list : list[j].port = s[1] => j = k
    BY <1>1, <1>2 DEF ListInv, OnceInv
<1>. QED
    BY <1>2, <1>3, <1>4

LEMMA ListReturnList ==
    ASSUME ListInv, list_return
    PROVE  ListInv' /\ ListAnswersInv'
<1>1. /\ frame'.pc = "idle" /\ result'.call = "list"
      /\ UNCHANGED <<watch, list, identity>>
    BY DEF list_return, Return, IdleFrame, objVars, busVars
<1>2. ListInv'
    BY <1>1 DEF ListInv, OnceInv, StableInv, Listing, Reading
<1>3. FindIsRight'
    BY <1>1 DEF FindIsRight
<1>4. ASSUME ~watch.nomem, NEW s \in watch.stable
      PROVE  /\ \E k \in DOMAIN list : Describes(list[k], s[1], s[2])
             /\ Cardinality({k \in DOMAIN list : list[k].port = s[1]}) = 1
    <2>1. PICK k \in DOMAIN list : /\ Describes(list[k], s[1], s[2])
                                   /\ {j \in DOMAIN list : list[j].port = s[1]} = {k}
        BY <1>4, ListEnds DEF list_return
    <2>2. Cardinality({k}) = 1
        BY FS_Singleton
    <2>. QED
        BY <2>1, <2>2
<1>5. ListIsComplete'
    BY <1>1, <1>4 DEF ListIsComplete, Describes
<1>. QED
    BY <1>2, <1>3, <1>5 DEF ListAnswersInv

LEMMA FindReturnList ==
    ASSUME CoreInv, ListInv, find_return
    PROVE  ListInv' /\ ListAnswersInv'
<1>1. /\ frame'.pc = "idle" /\ result'.call = "find" /\ result'.want = frame.want
      /\ UNCHANGED <<watch, identity>>
    BY DEF find_return, Return, IdleFrame, busVars
<1>2. ListInv'
    BY <1>1 DEF ListInv, OnceInv, StableInv, Listing, Reading
<1>3. ListIsComplete'
    BY <1>1 DEF ListIsComplete
<1>4. /\ device' # NULL => Matches(device', frame.want)
      /\ device' = NULL => Candidates = {}
    <2>1. \A k \in DOMAIN list : list[k] # NULL
        BY NullAssumption DEF CoreInv, TypeOK
    <2>2. CASE Candidates = {} /\ device' = NULL
        BY <2>2
    <2>3. ASSUME NEW k \in Candidates, device' = list[k]
          PROVE  Matches(device', frame.want) /\ device' # NULL
        BY <2>1, <2>3 DEF Candidates
    <2>. QED
        BY <2>2, <2>3 DEF find_return
<1>5. ASSUME device' = NULL, ~watch.nomem, NEW s \in watch.stable
      PROVE  ~Matches(identity[s[2]], frame.want)
    <2>1. PICK k \in DOMAIN list : Describes(list[k], s[1], s[2])
        BY <1>5, ListEnds DEF find_return
    <2>2. ~Matches(list[k], frame.want)
        BY <1>4, <1>5 DEF Candidates
    <2>. QED
        BY <2>1, <2>2 DEF Describes, Matches
<1>6. FindIsRight'
    BY <1>1, <1>4, <1>5 DEF FindIsRight, Matches
<1>. QED
    BY <1>2, <1>3, <1>6 DEF ListAnswersInv

(* The other calls, the user and the bus. *)
LEMMA EnterList ==
    ASSUME CoreInv, CoreInv', NEW call \in {"list", "find", "interface", "port", "open"},
           NEW want, Enter(call, want), call \in {"list", "find"} => list = <<>>
    PROVE  ListInv' /\ ListAnswersInv'
<1>1. /\ frame'.pc = call /\ frame'.call = call
      /\ UNCHANGED <<busVars, list>>
      /\ watch'.stable = {<<p, at[p]>> : p \in {q \in Ports : at[q] \in initialized}}
    BY DEF Enter, IdleFrame, objVars
<1>2. ListAnswersInv'
    BY <1>1, NoListAnswer DEF CoreInv
<1>3. frame'.pc \notin Listing
    BY <1>1 DEF Listing, Reading
<1>4. OnceInv'
    BY <1>3 DEF OnceInv
<1>5. \A s \in watch'.stable : s[1] \in Ports /\ at[s[1]] = s[2] /\ s[2] \in initialized
    BY <1>1
<1>6. \A s \in watch'.stable : s[1] \in Ports /\ at'[s[1]] = s[2] /\ s[2] \in initialized'
    BY <1>1, <1>5 DEF busVars
<1>7. frame'.pc \in {"list", "find"} => DOMAIN list' = {}
    BY <1>1
<1>8. frame'.pc \notin Reading
    BY <1>3 DEF Listing
<1>9. StableInv'
    BY <1>3, <1>6, <1>7, <1>8 DEF StableInv, StaysThere
<1>. QED
    BY <1>2, <1>4, <1>9 DEF ListInv

LEMMA UserList ==
    ASSUME CoreInv, CoreInv', UserStep
    PROVE  ListInv' /\ ListAnswersInv'
<1>1. CASE \E call \in {"list", "find", "interface", "port", "open"} : \E want :
            Enter(call, want) /\ (call \in {"list", "find"} => list = <<>>)
    BY <1>1, EnterList
<1>2. CASE frame.pc = "idle" /\ frame' = frame /\ result'.call \notin {"list", "find"}
    BY <1>2, OtherList DEF ListPcs, Listing, Reading
<1>3. CASE user_copies_device \/ libusbp_generic_interface_copy \/ libusbp_serial_port_copy
    <2>1. frame.pc = "idle" /\ frame' = frame
        BY <1>3 DEF user_copies_device, libusbp_generic_interface_copy,
            libusbp_serial_port_copy, Copies, CopyFails
    <2>2. result'.call = "copy"
        BY <1>3 DEF user_copies_device, libusbp_generic_interface_copy,
            libusbp_serial_port_copy, Copies, CopyFails, NoResult
    <2>. QED
        BY <1>2, <2>1, <2>2
<1>4. CASE \/ list_free \/ libusbp_device_free \/ libusbp_generic_interface_free
           \/ libusbp_serial_port_free \/ libusbp_generic_handle_close
    <2>1. frame.pc = "idle" /\ frame' = frame /\ Forget
        BY <1>4 DEF list_free, libusbp_device_free, libusbp_generic_interface_free,
            libusbp_serial_port_free, libusbp_generic_handle_close
    <2>. QED
        BY <1>2, <2>1 DEF Forget, NoResult
<1>. QED
    BY <1>1, <1>3, <1>4 DEF UserStep, libusbp_list_connected_devices,
        libusbp_find_device_with_vid_pid, libusbp_generic_interface_create,
        libusbp_serial_port_create, libusbp_generic_handle_open

LEMMA BusList ==
    ASSUME BusInv, CoreInv, CoreInv', WatchInv, ListInv, BusStep
    PROVE  ListInv' /\ ListAnswersInv'
<1>0. BusNext /\ frame' = frame /\ list' = list
    BY DEF BusStep, objVars
<1>1. CASE frame.pc \in {"idle", "crashed"}
    BY <1>0, <1>1, OtherList DEF BusStep, NoResult, ListPcs, Listing, Reading
<1>2. CASE frame.pc \notin {"idle", "crashed"}
    <2>1. ListAnswersInv'
        BY <1>0, <1>2, NoListAnswer DEF CoreInv
    <2>2. OnceInv'
        BY <1>0 DEF ListInv, OnceInv
    <2>3. /\ watch'.stable = {s \in watch.stable : at'[s[1]] = s[2]}
          /\ watch'.nomem = watch.nomem
        BY <1>2 DEF BusStep, WatchInv
    <2>4. ASSUME frame.pc \in ListPcs, NEW s \in watch'.stable
          PROVE  /\ s \in watch.stable /\ identity'[s[2]] = identity[s[2]]
                 /\ s[1] \in Ports /\ at'[s[1]] = s[2] /\ s[2] \in initialized'
        <3>1. s \in watch.stable /\ at'[s[1]] = s[2]
            BY <2>3, <2>4
        <3>2. StaysThere(s)
            BY <2>4, <3>1 DEF ListInv, StableInv, ListPcs
        <3>. QED
            BY <1>0, <3>1, <3>2, StableFacts, BusMoves
    <2>5. StableInv'
        BY <1>0, <2>3, <2>4 DEF ListInv, StableInv, ListPcs, StaysThere, Describes, ReadSoFar
    <2>. QED
        BY <2>1, <2>2, <2>5 DEF ListInv
<1>. QED
    BY <1>1, <1>2

(* Searches and the opening of a handle. *)
LEMMA SearchList ==
    ASSUME CoreInv, CoreInv', CallStep, frame.pc \notin ListPcs
    PROVE  ListInv' /\ ListAnswersInv'
<1>1. /\ frame.call \notin {"list", "find"} /\ frame.pc # "idle" /\ result = NoResult
    <2>1. frame.pc \in SearchPcs \cup {"open", "open_node", "descriptor"}
        BY DEF CallStep, list_begin, add_udev_device_to_list_if_needed, read_ids,
            get_sysattr, read_serial, list_return, find_return, search_begin,
            get_interface_entry, check_interface, interface_not_found,
            check_driver_installation, get_devnode, check_existence,
            tty_scan, tty_entry, tty_not_found, tty_name, search_out_of_memory,
            generic_handle_setup, usbfd_open, check_device_descriptor,
            ListPcs, Listing, Reading, SearchPcs, Searching, OfInterface, OfTty
    <2>. QED
        BY SMTT(30), <2>1 DEF CoreInv, FrameInv, SearchPcs, Searching, OfInterface, OfTty
<1>. DEFINE GoesOn == \/ frame' = IdleFrame /\ result'.call = frame.call
                      \/ frame'.call = frame.call /\ result' = result
<1>2. GoesOn
    <2>0. ASSUME NEW error, Return(error) PROVE GoesOn
        BY <2>0 DEF Return
    <2>1. frame = [pc |-> frame.pc, call |-> frame.call, want |-> frame.want,
                   todo |-> frame.todo, entry |-> frame.entry, obj |-> frame.obj,
                   filename |-> frame.filename, no_handle |-> frame.no_handle]
        BY DEF CoreInv, FrameInv
    <2>2. ASSUME NEW error, give_up(error) PROVE GoesOn
        <3>1. Return(error) \/ Return("memory")
            BY <2>2 DEF give_up, Fail
        <3>. HIDE DEF GoesOn
        <3>. QED
            BY <2>0, <3>1
    <2>3. ASSUME NEW f, proceed(f), f.call = frame.call PROVE GoesOn
        BY <2>3 DEF proceed, Continue
    <2>4. ASSUME NEW f, Continue(f), f.call = frame.call PROVE GoesOn
        BY <2>4 DEF Continue
    <2>. HIDE DEF GoesOn
    <2>5. CASE search_begin
        <3>1. [frame EXCEPT !.pc = "search", !.todo = udevw_create_usb_list].call = frame.call
            BY <2>1
        <3>. QED
            BY <2>0, <2>4, <2>5, <3>1 DEF search_begin, setup_out_of_memory
    <2>6. ASSUME NEW path, get_interface_entry(path) PROVE GoesOn
        <3>. DEFINE next == [frame EXCEPT !.todo = @ \ {path}]
        <3>1. /\ next.call = frame.call
              /\ [next EXCEPT !.pc = "check", !.entry = path].call = frame.call
            BY <2>1
        <3>. HIDE DEF next
        <3>2. entry_gone \/ proceed(next) \/ proceed([next EXCEPT !.pc = "check", !.entry = path])
            BY <2>6 DEF get_interface_entry, next
        <3>. QED
            BY <2>2, <2>3, <3>1, <3>2 DEF entry_gone
    <2>7. CASE check_interface
        <3>. DEFINE pc == IF frame.call = "port" THEN "tty_scan" ELSE "driver"
        <3>1. /\ [frame EXCEPT !.pc = "search", !.entry = NULL].call = frame.call
              /\ [frame EXCEPT !.pc = pc, !.todo = {}].call = frame.call
            BY <2>1
        <3>2. entry_gone \/ wrong_interface \/ proceed([frame EXCEPT !.pc = pc, !.todo = {}])
            BY <2>7 DEF check_interface
        <3>. HIDE DEF pc
        <3>. QED
            BY <2>2, <2>3, <3>1, <3>2 DEF entry_gone, wrong_interface
    <2>8. CASE check_driver_installation \/ get_devnode
        <3>1. /\ [frame EXCEPT !.pc = "devnode"].call = frame.call
              /\ [frame EXCEPT !.pc = "access",
                    !.filename = devnode_of(device.port)].call = frame.call
            BY <2>1
        <3>. QED
            BY <2>2, <2>3, <2>8, <3>1 DEF check_driver_installation, get_devnode
    <2>9. CASE \/ interface_not_found \/ check_existence \/ tty_not_found \/ tty_name
               \/ search_out_of_memory
        BY <2>0, <2>2, <2>9 DEF interface_not_found, check_existence, tty_not_found, tty_name,
            search_out_of_memory
    <2>10. CASE tty_scan
        <3>1. [frame EXCEPT !.pc = "tty",
                !.todo = udevw_create_child_list(frame.entry)].call = frame.call
            BY <2>1
        <3>. QED
            BY <2>3, <2>10, <3>1 DEF tty_scan
    <2>11. ASSUME NEW kind, tty_entry(kind) PROVE GoesOn
        <3>. DEFINE next == [frame EXCEPT !.todo = @ \ {kind}]
        <3>1. /\ next.call = frame.call
              /\ [next EXCEPT !.pc = "tty_name", !.todo = {}].call = frame.call
            BY <2>1
        <3>. HIDE DEF next
        <3>2. entry_gone \/ proceed(next) \/ proceed([next EXCEPT !.pc = "tty_name", !.todo = {}])
            BY <2>11 DEF tty_entry, next
        <3>. QED
            BY <2>2, <2>3, <3>1, <3>2 DEF entry_gone
    <2>12. CASE generic_handle_setup
        <3>1. /\ [frame EXCEPT !.pc = "open_node"].call = frame.call
              /\ [frame EXCEPT !.pc = "open_node", !.no_handle = TRUE].call = frame.call
            BY <2>1
        <3>. QED
            BY <2>0, <2>4, <2>12, <3>1 DEF generic_handle_setup
    <2>13. CASE usbfd_open
        <3>. DEFINE pc == IF frame.no_handle THEN "crashed" ELSE "descriptor"
        <3>1. \A n : [frame EXCEPT !.pc = pc, !.entry = n].call = frame.call
            BY <2>1
        <3>2. \/ \E n : Continue([frame EXCEPT !.pc = pc, !.entry = n])
              \/ \E error : Return(error)
            BY <2>13 DEF usbfd_open, Fail
        <3>. HIDE DEF pc
        <3>. QED
            BY <2>0, <2>4, <3>1, <3>2
    <2>14. CASE check_device_descriptor
        BY <2>0, <2>14 DEF check_device_descriptor, Fail
    <2>15. ~list_begin /\ ~read_ids /\ ~read_serial /\ ~list_return /\ ~find_return
           /\ \A path \in SysPaths : ~add_udev_device_to_list_if_needed(path)
        BY DEF list_begin, add_udev_device_to_list_if_needed, read_ids, get_sysattr,
            read_serial, list_return, find_return, ListPcs, Listing, Reading
    <2>. QED
        BY <2>5, <2>6, <2>7, <2>8, <2>9, <2>10, <2>11, <2>12, <2>13, <2>14, <2>15 DEF CallStep
<1>3. ASSUME frame' = IdleFrame
      PROVE  frame'.pc \notin ListPcs
    BY <1>3 DEF IdleFrame, ListPcs, Listing, Reading
<1>4. ASSUME frame'.call = frame.call, result' = result
      PROVE  frame'.pc \notin ListPcs /\ result'.call = "none"
    <2>1. frame'.pc \in ListPcs => frame'.call \in {"list", "find"}
        BY DEF CoreInv, FrameInv, ListPcs
    <2>. QED
        BY <1>1, <1>4, <2>1 DEF NoResult
<1>. QED
    BY <1>1, <1>2, <1>3, <1>4, OtherList

LEMMA StutterList ==
    ASSUME ListInv, ListAnswersInv, UNCHANGED vars
    PROVE  ListInv' /\ ListAnswersInv'
<1>. USE DEF vars, objVars, busVars
<1>1. OnceInv'
    BY DEF ListInv, OnceInv
<1>2. StableInv'
    BY DEF ListInv, StableInv, StaysThere, Describes, ReadSoFar
<1>3. ListAnswersInv'
    BY DEF ListAnswersInv, ListIsComplete, FindIsRight, Describes, Matches
<1>. QED
    BY <1>1, <1>2, <1>3 DEF ListInv

LEMMA ListStep ==
    ASSUME BusInv, CoreInv, CoreInv', WatchInv, ListInv, ListAnswersInv, [Next]_vars
    PROVE  ListInv' /\ ListAnswersInv'
<1>1. CASE CallStep /\ frame.pc \in ListPcs
    <2>1. \/ list_begin \/ read_ids \/ read_serial \/ list_return \/ find_return
          \/ \E path \in SysPaths : add_udev_device_to_list_if_needed(path)
        BY <1>1 DEF CallStep, search_begin,
            get_interface_entry, check_interface, interface_not_found,
            check_driver_installation, get_devnode, check_existence,
            tty_scan, tty_entry, tty_not_found, tty_name, search_out_of_memory,
            generic_handle_setup, usbfd_open, check_device_descriptor,
            ListPcs, Listing, Reading
    <2>2. \A path \in SysPaths :
            add_udev_device_to_list_if_needed(path) => ListInv' /\ ListAnswersInv'
        BY AddList
    <2>. QED
        BY SMTT(30), <2>1, <2>2, ListBeginList, ReadIdsList, SerialList, ListReturnList, FindReturnList
<1>2. CASE CallStep /\ frame.pc \notin ListPcs
    BY <1>2, SearchList
<1>. QED
    BY <1>1, <1>2, UserList, BusList, StutterList DEF Next, Crashed

(***************************************************************************)
(* The invariant holds initially, and the theorems.                        *)
(***************************************************************************)
LEMMA AccessInit == Init => AccessInv /\ AnswersInv /\ ListAnswersInv
<1>. SUFFICES ASSUME Init PROVE AccessInv /\ AnswersInv /\ ListAnswersInv
    OBVIOUS
<1>1. BusInv
    <2>1. Len(<<>>) = 0 /\ identity \in Seq(Models) /\ Len(identity) <= MaxPlugs
        BY PlugsAssumption DEF Init, BusInit
    <2>2. at \in [Ports -> 0..MaxPlugs] /\ Connected = {}
        BY PlugsAssumption DEF Init, BusInit, Connected
    <2>3. BusTypeOK
        BY <2>1, <2>2 DEF Init, BusInit, BusTypeOK
    <2>. QED
        BY <2>1, <2>2, <2>3 DEF Init, BusInit, BusInv
<1>2. /\ frame = IdleFrame /\ frame.pc = "idle" /\ frame.call = "none" /\ frame.obj = NULL
      /\ frame.filename = 0
    BY DEF Init, IdleFrame
<1>3. FrameInv
    BY <1>2 DEF Init, FrameInv, IdleFrame, Listing, Reading, Searching, OfInterface, OfTty
<1>4. TypeOK
    BY <1>1, <1>2, AddressAssumption, OomsAssumption
    DEF Init, TypeOK, BusInv, Pointers, NoResult, Errors
<1>5. CountInv
    <2>1. OwnDevices = 0 /\ One(handle # NULL) = 0 /\ One(frame.pc \in {"descriptor", "crashed"}) = 0
        BY <1>2 DEF Init, OwnDevices, One, Reading, Searching, OfInterface, OfTty
    <2>2. One(device # NULL) = 0 /\ One(gi # NULL) = 0 /\ Len(list) = 0
        BY DEF Init, One
    <2>3. One(copied \in {"device", "interface"}) = 0
        BY NullAssumption DEF Init, One, CopyKinds
    <2>. QED
        BY <2>1, <2>2, <2>3 DEF Init, CountInv, UserDevices
<1>6. ObjectInv /\ HandleMatchesDevice /\ OpensListedDevice
    BY <1>2 DEF Init, ObjectInv, HandleMatchesDevice, OpensListedDevice, Reading
<1>7. WatchInv
    BY DEF Init, NoWatch, WatchInv
<1>8. ReadyInv /\ OnceInv /\ StableInv
    BY <1>2 DEF ReadyInv, OnceInv, StableInv, Listing, Reading, Searching, OfInterface, OfTty
<1>9. AnswersInv /\ ListAnswersInv
    BY DEF Init, NoResult, AnswersInv, ListAnswersInv, NotReadyIsTrue,
        ReadyInterfaceIsCreated, ListIsComplete, FindIsRight
<1>. QED
    BY <1>1, <1>3, <1>4, <1>5, <1>6, <1>7, <1>8, <1>9 DEF AccessInv

LEMMA AccessStep ==
    AccessInv /\ AnswersInv /\ ListAnswersInv /\ [Next]_vars
        => AccessInv' /\ AnswersInv' /\ ListAnswersInv'
<1>. SUFFICES ASSUME AccessInv, AnswersInv, ListAnswersInv, [Next]_vars
              PROVE  AccessInv' /\ AnswersInv' /\ ListAnswersInv'
    OBVIOUS
<1>1. BusInv /\ CoreInv /\ WatchInv /\ ReadyInv /\ ListInv
    BY DEF AccessInv, CoreInv, ListInv
<1>2. BusInv' /\ CoreInv'
    BY <1>1, CoreStep
<1>3. WatchInv'
    BY <1>1, WatchStep
<1>4. ReadyInv' /\ AnswersInv'
    BY <1>1, <1>2, ReadyStep
<1>5. ListInv' /\ ListAnswersInv'
    BY <1>1, <1>2, ListStep
<1>. QED
    BY <1>2, <1>3, <1>4, <1>5 DEF AccessInv, CoreInv, ListInv

(* The inductive invariant of the calls of list_linux.c, find_device.c,    *)
(* generic_interface_linux.c, serial_port_linux.c and generic_handle_linux.c, *)
(* with what the answers of the calls promise.                             *)
THEOREM AccessInvariant == Spec => [](AccessInv /\ AnswersInv /\ ListAnswersInv)
<1>1. Init => AccessInv /\ AnswersInv /\ ListAnswersInv
    BY AccessInit
<1>2. AccessInv /\ AnswersInv /\ ListAnswersInv /\ [Next]_vars
        => (AccessInv /\ AnswersInv /\ ListAnswersInv)'
    BY AccessStep
<1>. QED
    BY <1>1, <1>2, PTL DEF Spec

(* Between calls, the device objects and file descriptors in memory are those of *)
(* the objects the user holds: whatever fails in a call, on whatever path, it     *)
(* frees what it made, once (the cleanup code of every create and open function). *)
THEOREM NoLeak == Spec => []NothingLeaks
<1>1. AccessInv => NothingLeaks
    <2>. SUFFICES ASSUME AccessInv, frame.pc = "idle"
                  PROVE  devs = UserDevices /\ fds = One(handle # NULL)
        BY DEF NothingLeaks
    <2>. QED
        BY IdleFacts DEF AccessInv, CoreInv
<1>. QED
    BY <1>1, AccessInvariant, PTL

(* The open device has the vendor, product and revision of the device object it   *)
(* was opened for, whatever was exchanged since (check_device_descriptor).        *)
THEOREM HandlesMatchDevices == Spec => []HandleMatchesDevice
<1>1. AccessInv => HandleMatchesDevice
    BY DEF AccessInv
<1>. QED
    BY <1>1, AccessInvariant, PTL

(* As long as the listed device stays plugged in, the interface and the handle    *)
(* made for it lead to that device and no other (get_devnode, usbfd_open).        *)
THEOREM ListedDevicesAreOpened == Spec => []OpensListedDevice
<1>1. AccessInv => OpensListedDevice
    BY DEF AccessInv
<1>. QED
    BY <1>1, AccessInvariant, PTL

(* NOT_READY is never the answer for an interface that was ready during the whole *)
(* call (interface_not_found, check_existence, tty_not_found).                    *)
THEOREM NotReadyIsNeverWrong == Spec => []NotReadyIsTrue
<1>1. AnswersInv => NotReadyIsTrue
    BY DEF AnswersInv
<1>. QED
    BY <1>1, AccessInvariant, PTL

(* An interface that is ready during the whole call gets its object, unless       *)
(* something vanishes from the bus or memory runs out (generic_interface_create,  *)
(* serial_port_create).                                                           *)
THEOREM ReadyInterfacesAreCreated == Spec => []ReadyInterfaceIsCreated
<1>1. AnswersInv => ReadyInterfaceIsCreated
    BY DEF AnswersInv
<1>. QED
    BY <1>1, AccessInvariant, PTL

(* A device that is plugged in and known to udev during the whole call is in the  *)
(* list exactly once, with its own ids, whatever happens to the others            *)
(* (add_udev_device_to_list_if_needed).                                           *)
THEOREM ListsAreComplete == Spec => []ListIsComplete
<1>1. ListAnswersInv => ListIsComplete
    BY DEF ListAnswersInv
<1>. QED
    BY <1>1, AccessInvariant, PTL

(* What libusbp_find_device_with_vid_pid finds has the ids that were asked for,   *)
(* and when it finds nothing no such device was there all the time.               *)
THEOREM FindsAreRight == Spec => []FindIsRight
<1>1. ListAnswersInv => FindIsRight
    BY DEF ListAnswersInv
<1>. QED
    BY <1>1, AccessInvariant, PTL
=============================================================================
