------------------------ MODULE WindowsAccessProofs ------------------------
(***************************************************************************)
(* Proofs about WindowsAccess, for any number of ports, devices and        *)
(* interfaces, any drivers, and any number of failed allocations.          *)
(***************************************************************************)
EXTENDS WindowsAccess, UsbBusProofs, FiniteSetTheorems

-----------------------------------------------------------------------------
(* Names: what an instance id and a device node lead to.                   *)

LEMMA LocatedFacts ==
    ASSUME NamesInv, NEW p \in Located
    PROVE  /\ p \in Ports /\ at[p] \in Instances /\ at[p] \in Connected
           /\ identity[at[p]] \in Models
           /\ DeviceInstanceId(p) \in Ids
           /\ PortsOf(DeviceInstanceId(p)) = {p}
<1>1. p \in Ports /\ at[p] # 0
    BY DEF Located
<1>2. at[p] \in Instances /\ at[p] \in Connected
    BY <1>1, ConnectedFacts DEF NamesInv
<1>3. identity[at[p]] \in Models
    BY <1>2 DEF NamesInv, BusInv, BusTypeOK, Instances
<1>4. DeviceInstanceId(p) \in Ids
    BY <1>1, <1>3 DEF DeviceInstanceId, Ids
<1>5. PortsOf(DeviceInstanceId(p)) = {p}
    BY DEF NamesInv, UniqueIds, PortsOf, Located
<1>. QED
    BY <1>1, <1>2, <1>3, <1>4, <1>5

(* The node of an existing device or interface leads to one port. *)
LEMMA NodeFacts ==
    ASSUME NamesInv, NEW n \in DevNodes
    PROVE  \E p \in Located :
               /\ n = <<n[1], n[2]>> /\ n[1] = DeviceInstanceId(p) /\ n[2] \in Parts(p)
               /\ PortsOf(n[1]) = {p}
               /\ Entry(n) = <<p, IF n[2] = WholeDevice THEN 0 ELSE n[2]>>
               /\ Entry(n)[1] = p
<1>1. PICK p \in Located : \E part \in Parts(p) : n = <<DeviceInstanceId(p), part>>
    BY DEF DevNodes
<1>2. n = <<n[1], n[2]>> /\ n[1] = DeviceInstanceId(p) /\ n[2] \in Parts(p)
    BY <1>1
<1>3. PortsOf(n[1]) = {p}
    BY <1>2, LocatedFacts
<1>4. Entry(n) = <<p, IF n[2] = WholeDevice THEN 0 ELSE n[2]>>
    BY <1>3 DEF Entry
<1>. QED
    BY <1>2, <1>3, <1>4

LEMMA NodeExists ==
    ASSUME NEW p \in Located, NEW part \in Parts(p)
    PROVE  <<DeviceInstanceId(p), part>> \in DevNodes
BY DEF DevNodes

(***************************************************************************)
(* A step of the bus changes the device of one port at most, and the       *)
(* driver of an interface that keeps what the driver has registered stays. *)
(***************************************************************************)
LEMMA BusOneChange ==
    ASSUME BusInv, BusNext
    PROVE  /\ \A p, q \in Ports : at'[p] # at[p] /\ at'[q] # at[q] => p = q
           /\ \A p \in Ports : at[p] # 0 /\ at'[p] # 0 => at'[p] = at[p]
           /\ \A p \in Ports : at'[p] = at[p] /\ at[p] \in nodes => at[p] \in nodes'
<1>1. ASSUME NEW p \in Ports, NEW m \in Models, Plug(p, m)
      PROVE  /\ \A q \in Ports : q # p => at'[q] = at[q]
             /\ at[p] = 0 /\ nodes' = nodes
    BY <1>1 DEF Plug, BusInv, BusTypeOK
<1>2. ASSUME NEW p \in Ports, Unplug(p)
      PROVE  /\ \A q \in Ports : q # p => at'[q] = at[q]
             /\ at[p] # 0 /\ at'[p] = 0 /\ nodes' = nodes \ {at[p]}
    BY <1>2 DEF Unplug, BusInv, BusTypeOK
<1>3. CASE \/ \E p \in Ports : NodeAppears(p) \/ UdevInitializes(p)
           \/ \E i \in InterfacePaths :
                \/ InterfaceAppears(i) \/ TtyAppears(i) \/ InterfaceVanishes(i)
                \/ \E d \in Drivers : DriverBinds(i, d)
    BY <1>3 DEF NodeAppears, UdevInitializes, InterfaceAppears, TtyAppears,
           InterfaceVanishes, DriverBinds
<1>4. CASE \E p \in Ports, m \in Models : Plug(p, m)
    BY <1>1, <1>4
<1>5. CASE \E p \in Ports : Unplug(p)
    BY <1>2, <1>5 DEF BusInv
<1>. QED
    BY <1>3, <1>4, <1>5 DEF BusNext

LEMMA DriversKept ==
    ASSUME NamesInv, BusNext
    PROVE  /\ \A i \in ttys' : driver'[i] # NoDriver
           /\ \A i \in ttys : i \in ttys' => driver'[i] = driver[i]
<1>0. /\ driver \in [InterfacePaths -> Drivers \cup {NoDriver}]
      /\ ttys \subseteq InterfacePaths
      /\ \A i \in ttys : driver[i] # NoDriver
    BY DEF NamesInv, BusInv, BusTypeOK
<1>1. ASSUME NEW I, Removes(I)
      PROVE  /\ \A i \in ttys' : driver'[i] # NoDriver
             /\ \A i \in ttys : i \in ttys' => driver'[i] = driver[i]
    BY <1>0, <1>1 DEF Removes
<1>2. CASE \/ \E p \in Ports : NodeAppears(p) \/ UdevInitializes(p) \/ Unplug(p)
           \/ \E p \in Ports, m \in Models : Plug(p, m)
    BY <1>0, <1>1, <1>2 DEF NodeAppears, UdevInitializes, Unplug, Plug
<1>3. CASE \E i \in InterfacePaths :
                \/ InterfaceAppears(i) \/ TtyAppears(i) \/ InterfaceVanishes(i)
                \/ \E d \in Drivers : DriverBinds(i, d)
    BY <1>0, <1>1, <1>3, NoDriverAssumption DEF InterfaceAppears, TtyAppears,
           InterfaceVanishes, DriverBinds
<1>. QED
    BY <1>2, <1>3 DEF BusNext

(* An instance id that leads somewhere before and after a step of the bus  *)
(* leads to the same device.                                               *)
LEMMA SameDevice ==
    ASSUME NamesInv, NamesInv', BusNext, NEW id,
           NEW p \in PortsOf(id), PortsOf(id)' # {}
    PROVE  /\ p \in Located /\ p \in Located'
           /\ PortsOf(id) = {p} /\ PortsOf(id)' = {p}
           /\ at'[p] = at[p] /\ identity'[at[p]] = identity[at[p]]
<1>1. /\ p \in Located /\ id = DeviceInstanceId(p) /\ PortsOf(id) = {p}
      /\ at[p] \in Instances /\ p \in Ports
    BY LocatedFacts DEF PortsOf
<1>2. PICK q : q \in Located' /\ id = DeviceInstanceId(q)' /\ q \in Ports
    BY DEF PortsOf, Located
<1>3. ASSUME NEW r \in Located, r \in Located'
      PROVE  /\ r \in Ports /\ at'[r] = at[r] /\ identity'[at[r]] = identity[at[r]]
             /\ DeviceInstanceId(r)' = DeviceInstanceId(r)
    <2>1. r \in Ports /\ at[r] \in Instances /\ at'[r] = at[r]
        BY <1>3, BusOneChange, LocatedFacts DEF NamesInv, Located
    <2>2. identity'[at[r]] = identity[at[r]]
        BY <2>1, BusMoves DEF NamesInv
    <2>. QED
        BY <2>1, <2>2 DEF DeviceInstanceId
<1>4. p = q
    <2>1. CASE p \in Located'
        BY <1>1, <1>2, <1>3, <2>1, ZenonT(40) DEF NamesInv, UniqueIds, Located
    <2>2. CASE p \notin Located' /\ q \in Located
        BY <1>1, <1>2, <1>3, <2>2 DEF PortsOf
    <2>3. CASE p \notin Located' /\ q \notin Located
        <3>1. at'[p] # at[p] /\ at'[q] # at[q]
            BY <1>1, <1>2, <2>3 DEF Located
        <3>. QED
            BY <1>1, <1>2, <3>1, BusOneChange DEF NamesInv
    <2>. QED
        BY <2>1, <2>2, <2>3
<1>5. p \in Located' /\ DeviceInstanceId(p)' = id
    BY <1>2, <1>4
<1>6. PortsOf(id)' = {p}
    BY <1>5 DEF NamesInv, UniqueIds, PortsOf, Located
<1>. QED
    BY <1>1, <1>3, <1>5, <1>6


LEMMA NamesStep ==
    ASSUME NamesInv, BusNext, UniqueIds' PROVE NamesInv'
<1>1. BusInv'
    BY BusPreserved DEF NamesInv
<1>. QED
    BY <1>1, DriversKept DEF NamesInv

LEMMA NamesStutter ==
    ASSUME NamesInv, UNCHANGED busVars PROVE NamesInv'
<1>1. BusInv'
    BY BusStutter DEF NamesInv
<1>2. UniqueIds'
    BY DEF NamesInv, UniqueIds, DeviceInstanceId, busVars
<1>. QED
    BY <1>1, <1>2 DEF NamesInv, busVars

(* What has registered an interface of its own is the only node of a plain *)
(* device, or a part of a composite one.                                   *)
LEMMA RegisteredFacts ==
    ASSUME NamesInv, NEW n, Registered(n)
    PROVE  \E p \in Located :
               /\ n[1] = DeviceInstanceId(p) /\ PortsOf(n[1]) = {p}
               /\ identity[at[p]].composite <=> n[2] # WholeDevice
<1>1. n \in DevNodes /\ Service(n) # "usbccgp"
    BY DEF Registered
<1>2. PICK p \in Located :
          /\ n[1] = DeviceInstanceId(p) /\ n[2] \in Parts(p)
          /\ PortsOf(n[1]) = {p} /\ Entry(n)[1] = p
    BY <1>1, NodeFacts
<1>3. n[2] = WholeDevice => ~identity[at[p]].composite
    BY <1>1, <1>2 DEF Service
<1>4. n[2] # WholeDevice => identity[at[p]].composite
    BY <1>2 DEF Parts
<1>. QED
    BY <1>2, <1>3, <1>4

(* Its service stays the same. *)
LEMMA ServiceKept ==
    ASSUME NamesInv, NamesInv', BusNext, NEW n, Registered(n), Registered(n)'
    PROVE  Service(n)' = Service(n)
<1>1. PICK p \in Located :
          /\ PortsOf(n[1]) = {p}
          /\ Entry(n) = <<p, IF n[2] = WholeDevice THEN 0 ELSE n[2]>>
    BY NodeFacts DEF Registered
<1>2. PortsOf(n[1])' # {}
    <2>1. n \in DevNodes'
        BY DEF Registered
    <2>2. PICK q \in Located' : \E part \in Parts(q)' : n = <<DeviceInstanceId(q)', part>>
        BY <2>1 DEF DevNodes
    <2>. QED
        BY <2>2 DEF PortsOf
<1>3. /\ PortsOf(n[1])' = {p} /\ at'[p] = at[p]
      /\ identity'[at[p]] = identity[at[p]]
    BY <1>1, <1>2, SameDevice
<1>4. Entry(n)' = Entry(n) /\ Entry(n)[1] = p
    BY <1>1, <1>3 DEF Entry
<1>5. driver'[Entry(n)] = driver[Entry(n)]
    BY <1>4, DriversKept DEF Registered
<1>. QED
    BY <1>3, <1>4, <1>5 DEF Service

(***************************************************************************)
(* Nodes of another device are not those of device d.  An object that is   *)
(* known stays known.                                                      *)
(***************************************************************************)
LEMMA BusKnown ==
    ASSUME NamesInv, BusNext, NEW d, Known(d)
    PROVE  Known(d)'
<1>1. d.inst \in Instances' /\ identity'[d.inst] = identity[d.inst]
    BY BusMoves DEF Known, NamesInv
<1>2. ASSUME NEW p \in Ports, at'[p] = d.inst PROVE DeviceInstanceId(p)' = d.id
    <2>1. at[p] = d.inst
        BY <1>2, BusMoves DEF Known, NamesInv
    <2>2. DeviceInstanceId(p)' = DeviceInstanceId(p)
        BY <1>1, <1>2, <2>1 DEF DeviceInstanceId
    <2>. QED
        BY <2>1, <2>2 DEF Known
<1>. QED
    BY <1>1, <1>2 DEF Known, Matches

LEMMA BusOpened ==
    ASSUME NamesInv, BusNext, NEW d, d.inst \in Instances, NEW n, Opened(d, n)
    PROVE  Opened(d, n)'
<1>1. n \in Instances' /\ identity'[n] = identity[n]
    BY BusMoves DEF Opened, NamesInv
<1>2. d.inst \in Connected' => d.inst \in Connected
    <2>1. \A p \in Ports : at'[p] = d.inst => at[p] = d.inst
        BY BusMoves DEF NamesInv
    <2>2. d.inst # 0
        BY ConnectedFacts DEF Instances, NamesInv
    <2>. QED
        BY <2>1, <2>2 DEF Connected
<1>. QED
    BY <1>1, <1>2 DEF Opened, Matches

-----------------------------------------------------------------------------
(* Resources.                                                              *)

UserType ==
    user \in [list : Seq(Device), device : Device \cup {NULL},
              interface : Object \cup {NULL}, port : Object \cup {NULL},
              handle : Handle \cup {NULL},
              copied : {"device", "interface", "port", NULL}]

LEMMA OwnedFacts ==
    ASSUME UserType, NEW k \in Kinds
    PROVE  Owned(k) \in Nat
<1>1. Len(user.list) \in Nat
    BY DEF UserType
<1>2. /\ One(user.device # NULL) \in Nat /\ One(user.handle # NULL) \in Nat
      /\ One(user[k] # NULL) \in Nat /\ One(user.copied = k) \in Nat
    BY DEF One
<1>3. CASE k = "device"
    BY <1>1, <1>2, <1>3 DEF Owned
<1>4. CASE k \in {"interface", "port"}
    BY <1>1, <1>2, <1>4 DEF Owned
<1>5. CASE k \in {"handle", "file"}
    BY <1>1, <1>2, <1>5 DEF Owned
<1>6. CASE k \in {"list", "inner", "key"}
    BY <1>1, <1>2, <1>6 DEF Owned
<1>. QED
    BY <1>3, <1>4, <1>5, <1>6 DEF Kinds

(* The memory that is left: an allocation may have failed in the step. *)
MemoryLeft == ooms' = ooms \/ (ooms > 0 /\ ooms' = ooms - 1)

(* A step of a call that gets the resources of a set. *)
LEMMA AcquireCount ==
    ASSUME CountInv, UserType, UNCHANGED user, MemoryLeft, NEW S, Acquire(S),
           S \cap InUse = {}, InUse' = InUse \cup S
    PROVE  CountInv'
<1>1. ooms' \in 0..MaxOoms /\ ooms' <= ooms
    BY OomsAssumption DEF MemoryLeft, CountInv
<1>2. \A k \in Kinds : Owned(k)' = Owned(k) /\ Owned(k) \in Nat
    BY OwnedFacts DEF Owned
<1>3. ASSUME NEW k \in Kinds
      PROVE  /\ held'[k] \in Nat
             /\ held'[k] >= Owned(k)' + One(k \in InUse')
             /\ ooms' = MaxOoms => held'[k] = Owned(k)' + One(k \in InUse')
    BY <1>1, <1>2 DEF CountInv, Acquire, One
<1>4. held' = [k \in Kinds |-> held'[k]]
    BY DEF Acquire
<1>. QED
    BY <1>1, <1>3, <1>4 DEF CountInv

(* A step that gives the resources of a set back.  Something more may be   *)
(* left behind when memory was missing.                                    *)
LEMMA ReleaseCount ==
    ASSUME CountInv, UserType, UNCHANGED user, MemoryLeft, NEW S, Release(S),
           S \subseteq InUse, InUse' \subseteq InUse \ S,
           InUse' = InUse \ S \/ ooms' # ooms
    PROVE  CountInv'
<1>1. ooms' \in 0..MaxOoms /\ ooms' <= ooms /\ (ooms' # ooms => ooms' # MaxOoms)
    BY OomsAssumption DEF MemoryLeft, CountInv
<1>2. \A k \in Kinds : Owned(k)' = Owned(k) /\ Owned(k) \in Nat
    BY OwnedFacts DEF Owned
<1>3. ASSUME NEW k \in Kinds
      PROVE  /\ held'[k] \in Nat
             /\ held'[k] >= Owned(k)' + One(k \in InUse')
             /\ ooms' = MaxOoms => held'[k] = Owned(k)' + One(k \in InUse')
    BY <1>1, <1>2 DEF CountInv, Release, One
<1>4. held' = [k \in Kinds |-> held'[k]]
    BY DEF Release
<1>. QED
    BY <1>1, <1>3, <1>4 DEF CountInv

LEMMA SameCount ==
    ASSUME CountInv, UserType, UNCHANGED <<user, held>>, MemoryLeft, InUse' = InUse
    PROVE  CountInv'
<1>1. ooms' \in 0..MaxOoms /\ ooms' <= ooms
    BY OomsAssumption DEF MemoryLeft, CountInv
<1>2. \A k \in Kinds : Owned(k)' = Owned(k)
    BY DEF Owned
<1>. QED
    BY <1>1, <1>2, OomsAssumption DEF CountInv

-----------------------------------------------------------------------------
(* Objects and local variables.                                            *)

CoreInv == FrameInv /\ CountInv /\ ObjectInv

(* A step inside of a call, with the new local variables written out. *)
Moves(pc, list_index, todo, node, inst) ==
    /\ frame' = [pc |-> pc, call |-> frame.call, want |-> frame.want,
                 composite |-> frame.composite, first |-> frame.first,
                 list_index |-> list_index, todo |-> todo, node |-> node, inst |-> inst]
    /\ UNCHANGED <<busVars, result>>

LEMMA CoreTypes == ASSUME ObjectInv PROVE UserType
BY DEF ObjectInv, UserType

(* The objects of the user are the same. *)
LEMMA SameObjects ==
    ASSUME ObjectInv, UNCHANGED <<busVars, user>>,
           frame'.pc = "append" => NewDevice' \in Device /\ Known(NewDevice'),
           frame'.pc = "winusb" => Opened(user.interface.device, frame'.inst)
    PROVE  ObjectInv'
<1>1. /\ \A d : Known(d)' <=> Known(d)
      /\ \A d, n : Opened(d, n)' <=> Opened(d, n)
    BY DEF Known, Opened, Matches, Instances, Connected, DeviceInstanceId, busVars
<1>. QED
    BY <1>1 DEF ObjectInv

(* A call ends. *)
LEMMA EndFrame ==
    ASSUME FrameInv, NEW error, Returns(error), user' = user
    PROVE  FrameInv' /\ InUse' = {}
<1>1. frame'.pc = "idle"
    BY DEF Returns, IdleFrame
<1>2. InUse' = {}
    BY <1>1 DEF InUse
<1>3. FrameInv'
    BY <1>1 DEF FrameInv, Returns, IdleFrame, Creating, Walking, Asking, OfInterface, OfPort
<1>. QED
    BY <1>2, <1>3

(* A call ends without a new object, or serial_port_create tries again. *)
LEMMA AttemptFrame ==
    ASSUME FrameInv, NEW error, attempt_ends(error), UNCHANGED user,
           frame.call = "port" /\ ~Composite =>
               frame.pc \in Creating /\ error \in {"other", "memory"}
    PROVE  FrameInv' /\ InUse' = {} /\ frame'.pc \notin {"append", "winusb"}
<1>1. CASE frame.call = "port" /\ ~Composite
    <2>1. /\ frame' = [pc |-> "port", call |-> "port", want |-> frame.want,
                       composite |-> FALSE, first |-> error, list_index |-> 0,
                       todo |-> {}, node |-> NULL, inst |-> 0]
          /\ result' = result
        BY <1>1 DEF attempt_ends, Continue, IdleFrame
    <2>2. InUse' = {}
        BY <2>1 DEF InUse
    <2>3. FrameInv'
        BY <1>1, <2>1 DEF FrameInv, Creating, Walking, Asking, OfInterface, OfPort,
               Again, Composite
    <2>. QED
        BY <2>1, <2>2, <2>3
<1>2. CASE ~(frame.call = "port" /\ ~Composite)
    <2>1. Returns(IF Again THEN frame.first ELSE error)
        BY <1>2 DEF attempt_ends
    <2>. QED
        BY <2>1, EndFrame DEF Returns, IdleFrame
<1>. QED
    BY <1>1, <1>2

LEMMA FailCore ==
    ASSUME CoreInv, NEW error, NEW S, Fail(error, S), S = InUse, UNCHANGED busVars,
           frame.call = "port" /\ ~Composite =>
               frame.pc \in Creating /\ error \in {"other", "memory"}
    PROVE  CoreInv'
<1>1. \/ attempt_ends(error) /\ ooms' = ooms
      \/ attempt_ends("memory") /\ ooms > 0 /\ ooms' = ooms - 1
    BY DEF Fail, Allocates, OutOfMemory
<1>2. FrameInv' /\ InUse' = {} /\ frame'.pc \notin {"append", "winusb"}
    BY <1>1, AttemptFrame DEF CoreInv, Fail
<1>3. CountInv'
    <2>1. MemoryLeft /\ UserType /\ Release(S) /\ UNCHANGED user
        BY <1>1, CoreTypes DEF CoreInv, Fail, MemoryLeft
    <2>2. S \subseteq InUse /\ InUse' \subseteq InUse \ S /\ InUse' = InUse \ S
        BY <1>2
    <2>. QED
        BY <2>1, <2>2, ReleaseCount DEF CoreInv
<1>4. ObjectInv'
    BY <1>2, SameObjects DEF CoreInv, Fail
<1>. QED
    BY <1>2, <1>3, <1>4 DEF CoreInv

LEMMA NoMemoryCore ==
    ASSUME CoreInv, NEW S, NoMemory(S), S \subseteq InUse, UNCHANGED busVars,
           frame.call = "port" /\ ~Composite => frame.pc \in Creating
    PROVE  CoreInv'
<1>1. attempt_ends("memory") /\ ooms > 0 /\ ooms' = ooms - 1 /\ ooms \in Nat
    BY OomsAssumption DEF NoMemory, OutOfMemory, CoreInv, CountInv
<1>2. FrameInv' /\ InUse' = {} /\ frame'.pc \notin {"append", "winusb"}
    BY <1>1, AttemptFrame DEF CoreInv, NoMemory
<1>3. CountInv'
    BY <1>1, <1>2, ReleaseCount, CoreTypes DEF CoreInv, NoMemory, MemoryLeft
<1>4. ObjectInv'
    BY <1>2, SameObjects DEF CoreInv, NoMemory
<1>. QED
    BY <1>2, <1>3, <1>4 DEF CoreInv

(* A step from one place of a search to another. *)
LEMMA MoveFrame ==
    ASSUME FrameInv, frame.pc \in Creating, user' = user,
           NEW pc \in Walking \cup Asking, NEW list_index \in 0..3, NEW todo, NEW node, NEW inst,
           Moves(pc, list_index, todo, node, inst),
           pc \in {"usb_devices", "locate"} => list_index = 0,
           pc = "entry" => list_index # 3,
           pc \in Walking => (Composite <=> pc # "usb_devices"),
           pc \in OfInterface => frame.call = "interface",
           pc \in OfPort => frame.call = "port",
           pc \in Asking => node = TargetNode
    PROVE  /\ FrameInv'
           /\ frame'.pc = pc /\ frame'.call = frame.call
           /\ (Composite <=> Composite') /\ (Again <=> Again') /\ TargetNode' = TargetNode
<1>1. /\ frame'.pc = pc /\ frame'.call = frame.call /\ frame'.want = frame.want
      /\ frame'.composite = frame.composite /\ frame'.first = frame.first
      /\ frame'.list_index = list_index /\ frame'.node = node /\ frame'.todo = todo
      /\ frame'.inst = inst /\ result' = result
    BY DEF Moves
<1>2. /\ (Composite <=> Composite') /\ (Again <=> Again') /\ TargetNode' = TargetNode
    BY <1>1 DEF Composite, Again, TargetNode, interface_number, device_instance_id
<1>3. /\ frame.call \in {"interface", "port"} /\ frame.want \in Interfaces
      /\ user.device # NULL /\ user[frame.call] = NULL
      /\ frame.first \in {"none", "other", "memory"}
      /\ Again => frame.call = "port" /\ ~frame.composite
      /\ result = NoResult
      /\ user.list # <<>> => user.device = NULL
    BY DEF FrameInv, Creating, Walking, Asking, OfInterface, OfPort
<1>4. frame' = [pc |-> frame'.pc, call |-> frame'.call, want |-> frame'.want,
                composite |-> frame'.composite, first |-> frame'.first,
                list_index |-> frame'.list_index, todo |-> frame'.todo,
                node |-> frame'.node, inst |-> frame'.inst]
    BY <1>1 DEF Moves
<1>5. FrameInv'
    BY <1>1, <1>2, <1>3, <1>4 DEF FrameInv, Creating, Walking, Asking, OfInterface, OfPort
<1>. QED
    BY <1>1, <1>2, <1>5

(* Such a step keeps the invariant if it accounts for its resources. *)
LEMMA MoveCore ==
    ASSUME CoreInv, frame.pc \in Creating, user' = user, ooms' = ooms,
           NEW pc \in Walking \cup Asking, NEW list_index \in 0..3, NEW todo, NEW node, NEW inst,
           Moves(pc, list_index, todo, node, inst),
           pc \in {"usb_devices", "locate"} => list_index = 0,
           pc = "entry" => list_index # 3,
           pc \in Walking => (Composite <=> pc # "usb_devices"),
           pc \in OfInterface => frame.call = "interface",
           pc \in OfPort => frame.call = "port",
           pc \in Asking => node = TargetNode,
           \/ UNCHANGED held /\ InUse' = InUse
           \/ \E S : Acquire(S) /\ S \cap InUse = {} /\ InUse' = InUse \cup S
           \/ \E S : Release(S) /\ S \subseteq InUse /\ InUse' = InUse \ S
    PROVE  CoreInv'
<1>1. FrameInv' /\ frame'.pc = pc
    BY MoveFrame DEF CoreInv
<1>2. CountInv /\ UserType /\ MemoryLeft /\ UNCHANGED user
    BY CoreTypes DEF CoreInv, MemoryLeft
<1>3. CountInv'
    <2>1. CASE UNCHANGED held /\ InUse' = InUse
        BY <1>2, <2>1, SameCount
    <2>2. CASE \E S : Acquire(S) /\ S \cap InUse = {} /\ InUse' = InUse \cup S
        BY <1>2, <2>2, AcquireCount
    <2>3. CASE \E S : Release(S) /\ S \subseteq InUse /\ InUse' = InUse \ S
        <3>1. PICK S : Release(S) /\ S \subseteq InUse /\ InUse' = InUse \ S
            BY <2>3
        <3>2. InUse' \subseteq InUse \ S
            BY <3>1
        <3>. QED
            BY <1>2, <3>1, <3>2, ReleaseCount
    <2>. QED
        BY <2>1, <2>2, <2>3
<1>4. ObjectInv'
    <2>1. frame'.pc \notin {"append", "winusb"} /\ UNCHANGED <<busVars, user>>
        BY <1>1 DEF Walking, Asking, OfInterface, OfPort, Moves
    <2>. QED
        BY <2>1, SameObjects DEF CoreInv
<1>. QED
    BY <1>1, <1>3, <1>4 DEF CoreInv

(* What the local variables of a search are. *)
LEMMA CreatingFacts ==
    ASSUME FrameInv, frame.pc \in Creating
    PROVE  /\ frame.call \in {"interface", "port"} /\ frame.want \in Interfaces
           /\ frame.list_index \in 0..3
           /\ user.device # NULL /\ user[frame.call] = NULL
           /\ Again => frame.call = "port" /\ ~frame.composite
           /\ frame.first \in {"none", "other", "memory"}
           /\ result = NoResult
BY DEF FrameInv, Creating, Walking, Asking, OfInterface, OfPort

LEMMA CreateBeginCore ==
    ASSUME CoreInv, create_begin, UNCHANGED busVars
    PROVE  CoreInv'
<1>0. /\ FrameInv /\ frame.pc \in {"interface", "port"} /\ frame.pc \in Creating
      /\ frame.call = frame.pc /\ frame.list_index = 0
    BY DEF create_begin, CoreInv, FrameInv, Creating
<1>1. InUse = {}
    BY <1>0 DEF InUse
<1>2. CASE /\ Allocates
           /\ Acquire({frame.call})
           /\ Continue([frame EXCEPT !.pc = IF Composite THEN "locate" ELSE "usb_devices"])
           /\ UNCHANGED user
    <2>. DEFINE pc == IF Composite THEN "locate" ELSE "usb_devices"
    <2>1. Moves(pc, 0, frame.todo, frame.node, frame.inst)
        BY <1>0, <1>2 DEF Moves, Continue, FrameInv
    <2>2. InUse' = InUse \cup {frame.call} /\ {frame.call} \cap InUse = {}
        BY <1>1, <2>1 DEF InUse, Moves
    <2>3. /\ pc \in Walking \cup Asking /\ pc \in {"usb_devices", "locate"}
          /\ pc \notin OfInterface /\ pc \notin OfPort /\ pc \notin Asking
          /\ (Composite <=> pc # "usb_devices")
        BY DEF Walking, OfInterface, OfPort, Asking
    <2>4. user' = user /\ ooms' = ooms /\ Acquire({frame.call})
        BY <1>2 DEF Allocates
    <2>. HIDE DEF pc
    <2>. QED
        BY <1>0, <2>1, <2>2, <2>3, <2>4, MoveCore
<1>3. CASE NoMemory({})
    BY <1>0, <1>1, <1>3, NoMemoryCore
<1>. QED
    BY <1>2, <1>3 DEF create_begin

LEMMA NonCompositeCore ==
    ASSUME CoreInv, get_interface_non_composite, UNCHANGED busVars
    PROVE  CoreInv'
<1>0. /\ FrameInv /\ frame.pc = "usb_devices" /\ frame.pc \in Creating
      /\ frame.list_index = 0 /\ ~Composite
      /\ frame.call \in {"interface", "port"}
    BY DEF get_interface_non_composite, CoreInv, FrameInv, Creating, Walking
<1>1. InUse = {frame.call}
    BY <1>0 DEF InUse
<1>2. CASE NoMemory({frame.call})
    BY <1>0, <1>1, <1>2, NoMemoryCore
<1>3. CASE Fail("other", {frame.call})
    BY <1>0, <1>1, <1>3, FailCore
<1>4. CASE /\ Acquire({"list"})
           /\ Allocates
           /\ Continue([frame EXCEPT !.pc = "id_string",
                                     !.node = <<device_instance_id, WholeDevice>>])
           /\ UNCHANGED user
    <2>1. Moves("id_string", 0, frame.todo, TargetNode, frame.inst)
        BY <1>0, <1>4 DEF Moves, Continue, FrameInv, TargetNode
    <2>2. InUse' = InUse \cup {"list"} /\ {"list"} \cap InUse = {}
        BY <1>0, <1>1, <2>1 DEF InUse, Moves
    <2>3. /\ "id_string" \in Asking
          /\ "id_string" \notin OfInterface \cup OfPort \cup Walking
        BY DEF Walking, OfInterface, OfPort, Asking
    <2>4. user' = user /\ ooms' = ooms /\ Acquire({"list"})
        BY <1>4 DEF Allocates
    <2>. QED
        BY <1>0, <2>1, <2>2, <2>3, <2>4, MoveCore
<1>. QED
    BY <1>2, <1>3, <1>4 DEF get_interface_non_composite

LEMMA LocateCore ==
    ASSUME CoreInv, locate_devnode, UNCHANGED busVars
    PROVE  CoreInv'
<1>0. /\ FrameInv /\ frame.pc = "locate" /\ frame.pc \in Creating
      /\ frame.list_index = 0 /\ Composite
    BY DEF locate_devnode, CoreInv, FrameInv, Creating, Walking
<1>1. InUse = {frame.call}
    BY <1>0 DEF InUse
<1>2. CASE Fail("other", {frame.call})
    BY <1>0, <1>1, <1>2, FailCore
<1>3. CASE Proceed([frame EXCEPT !.pc = "next_list"])
    <2>1. Moves("next_list", 0, frame.todo, frame.node, frame.inst)
        BY <1>0, <1>3 DEF Moves, Continue, Proceed, FrameInv
    <2>2. InUse' = InUse
        BY <1>1, <2>1 DEF InUse, Moves
    <2>3. "next_list" \in Walking /\ "next_list" \notin Asking \cup OfInterface \cup OfPort
        BY DEF Walking, OfInterface, OfPort, Asking
    <2>4. user' = user /\ ooms' = ooms /\ held' = held
        BY <1>3 DEF Proceed, Allocates
    <2>. QED
        BY <1>0, <2>1, <2>2, <2>3, <2>4, MoveCore
<1>. QED
    BY <1>2, <1>3 DEF locate_devnode

LEMMA NextListCore ==
    ASSUME CoreInv, next_list, UNCHANGED busVars
    PROVE  CoreInv'
<1>0. /\ FrameInv /\ frame.pc = "next_list" /\ frame.pc \in Creating
      /\ frame.list_index \in 0..3 /\ Composite
      /\ frame.call \in {"interface", "port"}
    BY DEF next_list, CoreInv, FrameInv, Creating, Walking
<1>1. InUse = {frame.call}
    BY <1>0 DEF InUse
<1>2. CASE Fail("not_ready", {frame.call})
    BY <1>0, <1>1, <1>2, FailCore
<1>3. CASE NoMemory({frame.call})
    BY <1>0, <1>1, <1>3, NoMemoryCore
<1>4. CASE /\ Allocates
           /\ frame.list_index # 3
           /\ Acquire({"list"})
           /\ Continue([frame EXCEPT !.pc = "entry", !.todo = ClassDevs(frame.list_index)])
           /\ UNCHANGED user
    <2>1. Moves("entry", frame.list_index, ClassDevs(frame.list_index), frame.node, frame.inst)
        BY <1>0, <1>4 DEF Moves, Continue, FrameInv
    <2>2. InUse' = InUse \cup {"list"} /\ {"list"} \cap InUse = {}
        BY <1>0, <1>1, <2>1 DEF InUse, Moves
    <2>3. "entry" \in Walking /\ "entry" \notin Asking \cup OfInterface \cup OfPort
        BY DEF Walking, OfInterface, OfPort, Asking
    <2>4. user' = user /\ ooms' = ooms /\ Acquire({"list"})
        BY <1>4 DEF Allocates
    <2>. QED
        BY <1>0, <1>4, <2>1, <2>2, <2>3, <2>4, MoveCore
<1>. QED
    BY <1>2, <1>3, <1>4 DEF next_list, list_count

LEMMA EntryCore ==
    ASSUME CoreInv, NEW n, get_interface_composite(n), UNCHANGED busVars
    PROVE  CoreInv'
<1>0. /\ FrameInv /\ frame.pc = "entry" /\ frame.pc \in Creating
      /\ frame.list_index \in 0..2 /\ Composite
    BY DEF get_interface_composite, CoreInv, FrameInv, Creating, Walking
<1>1. InUse = {frame.call, "list"}
    BY <1>0 DEF InUse
<1>2. CASE entry_gone
    BY <1>0, <1>1, <1>2, FailCore DEF entry_gone
<1>3. CASE Proceed([frame EXCEPT !.todo = @ \ {n}])
    <2>1. Moves("entry", frame.list_index, frame.todo \ {n}, frame.node, frame.inst)
        BY <1>0, <1>3 DEF Moves, Continue, Proceed, FrameInv
    <2>2. InUse' = InUse
        BY <1>1, <2>1 DEF InUse, Moves
    <2>3. "entry" \in Walking /\ "entry" \notin Asking \cup OfInterface \cup OfPort
        BY DEF Walking, OfInterface, OfPort, Asking
    <2>4. user' = user /\ ooms' = ooms /\ held' = held
        BY <1>3 DEF Proceed, Allocates
    <2>. QED
        BY <1>0, <2>1, <2>2, <2>3, <2>4, MoveCore
<1>4. CASE /\ n \in DevNodes /\ is_wanted(n)
           /\ Proceed([frame EXCEPT !.pc = "id_string", !.todo = {}, !.node = n])
    <2>1. Moves("id_string", frame.list_index, {}, n, frame.inst)
        BY <1>0, <1>4 DEF Moves, Continue, Proceed, FrameInv
    <2>2. InUse' = InUse
        BY <1>1, <2>1 DEF InUse, Moves
    <2>3. /\ "id_string" \in Asking
          /\ "id_string" \notin OfInterface \cup OfPort \cup Walking
        BY DEF Walking, OfInterface, OfPort, Asking
    <2>4. user' = user /\ ooms' = ooms /\ held' = held
        BY <1>4 DEF Proceed, Allocates
    <2>5. n = TargetNode
        <3>1. n = <<n[1], n[2]>>
            BY <1>4 DEF DevNodes
        <3>. QED
            BY <1>0, <1>4, <3>1 DEF is_wanted, TargetNode
    <2>. QED
        BY <1>0, <2>1, <2>2, <2>3, <2>4, <2>5, MoveCore
<1>. QED
    BY <1>2, <1>3, <1>4 DEF get_interface_composite

LEMMA ListDoneCore ==
    ASSUME CoreInv, list_done, UNCHANGED busVars
    PROVE  CoreInv'
<1>0. /\ FrameInv /\ frame.pc = "entry" /\ frame.pc \in Creating
      /\ frame.list_index \in 0..2 /\ Composite
      /\ frame.call \in {"interface", "port"}
    BY DEF list_done, CoreInv, FrameInv, Creating, Walking
<1>1. InUse = {frame.call, "list"}
    BY <1>0 DEF InUse
<1>2. Moves("next_list", frame.list_index + 1, frame.todo, frame.node, frame.inst)
    BY <1>0 DEF Moves, Continue, list_done, FrameInv
<1>3. InUse' = InUse \ {"list"} /\ {"list"} \subseteq InUse
    BY <1>0, <1>1, <1>2 DEF InUse, Moves
<1>4. "next_list" \in Walking /\ "next_list" \notin Asking \cup OfInterface \cup OfPort
    BY DEF Walking, OfInterface, OfPort, Asking
<1>5. user' = user /\ ooms' = ooms /\ Release({"list"}) /\ frame.list_index + 1 \in 0..3
    BY <1>0 DEF list_done, Allocates
<1>. QED
    BY <1>0, <1>2, <1>3, <1>4, <1>5, MoveCore

(***************************************************************************)
(* The questions put to the node that was found.                           *)
(***************************************************************************)
LEMMA AskingFacts ==
    ASSUME CoreInv, frame.pc \in Asking
    PROVE  /\ FrameInv /\ frame.pc \in Creating
           /\ frame.call \in {"interface", "port"}
           /\ frame.list_index \in 0..3
           /\ frame.node = TargetNode
           /\ user.device # NULL
           /\ frame.pc \in OfInterface => frame.call = "interface"
           /\ frame.pc \in OfPort => frame.call = "port"
BY DEF CoreInv, FrameInv, Creating

LEMMA AskMoves ==
    ASSUME CoreInv, frame.pc \in Asking, user' = user, ooms' = ooms, UNCHANGED busVars,
           NEW pc \in OfInterface \cup OfPort, Continue([frame EXCEPT !.pc = pc]),
           pc \in OfInterface => frame.call = "interface",
           pc \in OfPort => frame.call = "port",
           \/ UNCHANGED held /\ InUse' = InUse
           \/ \E S : Acquire(S) /\ S \cap InUse = {} /\ InUse' = InUse \cup S
    PROVE  CoreInv'
<1>1. Moves(pc, frame.list_index, frame.todo, frame.node, frame.inst)
    BY DEF Moves, Continue, CoreInv, FrameInv
<1>2. /\ pc \in Asking /\ pc \notin Walking /\ pc \notin {"usb_devices", "locate", "entry"}
    BY DEF Asking, OfInterface, OfPort, Walking
<1>. QED
    BY <1>1, <1>2, AskingFacts, MoveCore

LEMMA IdStringCore ==
    ASSUME CoreInv, create_id_string, UNCHANGED busVars
    PROVE  CoreInv'
<1>0. frame.pc = "id_string" /\ frame.pc \in Asking
    BY DEF create_id_string, Asking
<1>1. InUse = {frame.call, "list"}
    BY <1>0 DEF InUse
<1>2. CASE NoMemory({frame.call, "list"})
    BY <1>0, <1>1, <1>2, NoMemoryCore, AskingFacts
<1>3. CASE Proceed([frame EXCEPT !.pc =
                        IF frame.call = "port" THEN "port_name" ELSE "service"])
    <2>. DEFINE pc == IF frame.call = "port" THEN "port_name" ELSE "service"
    <2>1. /\ Continue([frame EXCEPT !.pc = pc])
          /\ user' = user /\ ooms' = ooms /\ held' = held
        BY <1>3 DEF Proceed, Allocates
    <2>2. frame'.pc = pc /\ frame'.call = frame.call
        BY <2>1 DEF Continue, CoreInv, FrameInv
    <2>3. InUse' = InUse
        BY <1>1, <2>2 DEF InUse
    <2>4. /\ pc \in OfInterface \cup OfPort
          /\ pc \in OfInterface => frame.call = "interface"
          /\ pc \in OfPort => frame.call = "port"
        BY <1>0, AskingFacts DEF OfInterface, OfPort
    <2>. HIDE DEF pc
    <2>. QED
        BY <1>0, <2>1, <2>3, <2>4, AskMoves
<1>. QED
    BY <1>2, <1>3 DEF create_id_string

(* What holds at a question of generic_interface_create. *)
LEMMA OfInterfaceFacts ==
    ASSUME CoreInv, frame.pc \in OfInterface
    PROVE  /\ FrameInv /\ frame.pc \in Asking /\ frame.pc \in Creating
           /\ frame.call = "interface"
           /\ InUse = IF frame.pc = "detail" THEN {"interface", "list", "inner"}
                      ELSE {"interface", "list"}
<1>1. frame.pc \in Asking
    BY DEF Asking
<1>2. frame.call = "interface" /\ frame.pc \in Creating /\ FrameInv
    BY <1>1, AskingFacts
<1>. QED
    BY <1>1, <1>2 DEF InUse, OfInterface

LEMMA OfPortFacts ==
    ASSUME CoreInv, frame.pc \in OfPort
    PROVE  /\ FrameInv /\ frame.pc \in Asking /\ frame.pc \in Creating
           /\ frame.call = "port"
           /\ InUse = IF frame.pc = "port_key" THEN {"port", "list", "key"}
                      ELSE {"port", "list"}
<1>1. frame.pc \in Asking
    BY DEF Asking
<1>2. frame.call = "port" /\ frame.pc \in Creating /\ FrameInv
    BY <1>1, AskingFacts
<1>. QED
    BY <1>1, <1>2 DEF InUse, OfPort

LEMMA DriverCore ==
    ASSUME CoreInv, check_driver_installation, UNCHANGED busVars
    PROVE  CoreInv'
<1>0. /\ frame.pc = "service" /\ frame.pc \in OfInterface
      /\ FrameInv /\ frame.pc \in Asking /\ frame.pc \in Creating
      /\ frame.call = "interface" /\ InUse = {"interface", "list"}
    BY OfInterfaceFacts DEF check_driver_installation, OfInterface
<1>1. CASE NoMemory({"interface", "list"})
    BY <1>0, <1>1, NoMemoryCore
<1>2. CASE \E error : Fail(error, {"interface", "list"})
    BY <1>0, <1>2, FailCore
<1>3. CASE Proceed([frame EXCEPT !.pc = "guid"])
    <2>1. /\ Continue([frame EXCEPT !.pc = "guid"])
          /\ user' = user /\ ooms' = ooms /\ held' = held
        BY <1>3 DEF Proceed, Allocates
    <2>2. frame'.pc = "guid" /\ frame'.call = frame.call
        BY <2>1 DEF Continue, CoreInv, FrameInv
    <2>3. InUse' = InUse
        BY <1>0, <2>2 DEF InUse
    <2>4. "guid" \in OfInterface /\ "guid" \notin OfPort
        BY DEF OfInterface, OfPort
    <2>. QED
        BY <1>0, <2>1, <2>3, <2>4, AskMoves
<1>. QED
    BY <1>1, <1>2, <1>3 DEF check_driver_installation

(* A call that leaves more behind than nothing, having found no memory. *)
LEMMA GuidCore ==
    ASSUME CoreInv, get_first_device_interface_guid, UNCHANGED busVars
    PROVE  CoreInv'
<1>0. /\ frame.pc = "guid" /\ frame.pc \in OfInterface
      /\ FrameInv /\ frame.pc \in Asking /\ frame.pc \in Creating
      /\ frame.call = "interface" /\ InUse = {"interface", "list"}
    BY OfInterfaceFacts DEF get_first_device_interface_guid, OfInterface
<1>1. CASE Fail("other", {"interface", "list"})
    BY <1>0, <1>1, FailCore
<1>2. CASE Proceed([frame EXCEPT !.pc = "filename"])
    <2>1. /\ Continue([frame EXCEPT !.pc = "filename"])
          /\ user' = user /\ ooms' = ooms /\ held' = held
        BY <1>2 DEF Proceed, Allocates
    <2>2. frame'.pc = "filename" /\ frame'.call = frame.call
        BY <2>1 DEF Continue, CoreInv, FrameInv
    <2>3. InUse' = InUse
        BY <1>0, <2>2 DEF InUse
    <2>4. "filename" \in OfInterface /\ "filename" \notin OfPort
        BY DEF OfInterface, OfPort
    <2>. QED
        BY <1>0, <2>1, <2>3, <2>4, AskMoves
<1>3. CASE /\ OutOfMemory
           /\ held' = [held EXCEPT !["interface"] = @ - 1, !["list"] = @ - 1,
                                   !["key"] = @ + 1]
           /\ attempt_ends("memory")
           /\ UNCHANGED user
    <2>1. FrameInv' /\ InUse' = {} /\ frame'.pc \notin {"append", "winusb"}
        BY <1>0, <1>3, AttemptFrame
    <2>2. ooms \in 0..MaxOoms /\ ooms' \in 0..MaxOoms /\ ooms' # MaxOoms
        BY <1>3, OomsAssumption DEF OutOfMemory, CoreInv, CountInv
    <2>3. \A k \in Kinds : Owned(k)' = Owned(k) /\ Owned(k) \in Nat
        BY <1>3, OwnedFacts, CoreTypes DEF Owned, CoreInv
    <2>4. ASSUME NEW k \in Kinds
          PROVE  held'[k] \in Nat /\ held'[k] >= Owned(k)' + One(k \in InUse')
        BY <1>0, <1>3, <2>1, <2>3 DEF CoreInv, CountInv, One
    <2>5. held' = [k \in Kinds |-> held'[k]]
        BY <1>3 DEF CoreInv, CountInv
    <2>6. CountInv'
        BY <2>2, <2>4, <2>5 DEF CountInv
    <2>7. ObjectInv'
        BY <1>3, <2>1, SameObjects DEF CoreInv
    <2>. QED
        BY <2>1, <2>6, <2>7 DEF CoreInv
<1>. QED
    BY <1>1, <1>2, <1>3 DEF get_first_device_interface_guid

LEMMA FilenameListCore ==
    ASSUME CoreInv, get_filename_list, UNCHANGED busVars
    PROVE  CoreInv'
<1>0. /\ frame.pc = "filename" /\ frame.pc \in OfInterface
      /\ FrameInv /\ frame.pc \in Asking /\ frame.pc \in Creating
      /\ frame.call = "interface" /\ InUse = {"interface", "list"}
    BY OfInterfaceFacts DEF get_filename_list, OfInterface
<1>1. CASE NoMemory({"interface", "list"})
    BY <1>0, <1>1, NoMemoryCore
<1>2. CASE Fail("not_ready", {"interface", "list"})
    BY <1>0, <1>2, FailCore
<1>3. CASE /\ Allocates
           /\ Acquire({"inner"})
           /\ Continue([frame EXCEPT !.pc = "detail"])
           /\ UNCHANGED user
    <2>1. user' = user /\ ooms' = ooms
        BY <1>3 DEF Allocates
    <2>2. frame'.pc = "detail" /\ frame'.call = frame.call
        BY <1>3 DEF Continue, CoreInv, FrameInv
    <2>3. InUse' = InUse \cup {"inner"} /\ {"inner"} \cap InUse = {}
        BY <1>0, <2>2 DEF InUse
    <2>4. "detail" \in OfInterface /\ "detail" \notin OfPort
        BY DEF OfInterface, OfPort
    <2>. QED
        BY <1>0, <1>3, <2>1, <2>3, <2>4, AskMoves
<1>. QED
    BY <1>1, <1>2, <1>3 DEF get_filename_list


(* An object is made for the device of the user, who owns it now. *)
LEMMA ObjectMade ==
    ASSUME NamesInv, CoreInv, UNCHANGED busVars, NEW o \in {"interface", "port"},
           frame.pc \in Asking, frame.call = o, frame.node \in DevNodes,
           NEW S, S \subseteq {"list", "inner", "key"}, InUse = S \cup {o},
           Allocates, Release(S), Returns("none"),
           user' = [user EXCEPT ![o] = [device |-> user.device, node |-> frame.node]]
    PROVE  CoreInv'
<1>. DEFINE new == [device |-> user.device, node |-> frame.node]
<1>1. /\ FrameInv /\ UserType /\ user.device # NULL /\ user[o] = NULL
      /\ frame.node = TargetNode /\ frame.pc \in Creating
    BY AskingFacts, CreatingFacts, CoreTypes DEF CoreInv
<1>2. /\ frame' = IdleFrame /\ frame'.pc = "idle" /\ InUse' = {}
    BY DEF Returns, IdleFrame, InUse
<1>3. new \in Object /\ new # NULL
    <2>1. user.device \in Device
        BY <1>1 DEF UserType
    <2>2. frame.node = <<frame.node[1], frame.node[2]>> /\ frame.node[1] = user.device.id
        BY <1>1 DEF TargetNode, device_instance_id
    <2>3. frame.node[2] \in Interfaces \cup {WholeDevice}
        BY NodeFacts DEF Parts
    <2>4. user.device.id \in Ids
        BY <2>1 DEF Device
    <2>5. new \in Object
        BY <2>1, <2>2, <2>3, <2>4 DEF Object
    <2>. QED
        BY <2>5, NullAssumption
<1>. HIDE DEF new
<1>4. /\ user'[o] = new
      /\ user'.list = user.list /\ user'.device = user.device /\ user'.handle = user.handle
      /\ user'.copied = user.copied
      /\ \A x \in {"interface", "port"} : x # o => user'[x] = user[x]
    BY <1>1 DEF UserType, new
<1>5. UserType'
    BY <1>1, <1>3 DEF UserType, new
<1>6. FrameInv'
    BY <1>1, <1>2, <1>4 DEF FrameInv, Returns, IdleFrame, Creating, Walking, Asking,
           OfInterface, OfPort
<1>7. CountInv'
    <2>1. /\ ooms' = ooms /\ held \in [Kinds -> Nat]
          /\ \A k \in Kinds : Owned(k) \in Nat
        BY <1>1, OwnedFacts DEF Allocates, CoreInv, CountInv
    <2>2. ASSUME NEW k \in Kinds PROVE Owned(k)' = Owned(k) + One(k = o)
        <3>1. CASE k = o
            <4>1. user[k] = NULL /\ user'[k] # NULL
                BY <1>1, <1>3, <1>4, <3>1
            <4>. QED
                BY <1>4, <3>1, <4>1 DEF Owned, One
        <3>2. CASE k # o
            <4>1. k \in {"interface", "port"} => user'[k] = user[k]
                BY <1>4, <3>2
            <4>2. Owned(k)' = Owned(k)
                BY <1>4, <4>1 DEF Owned
            <4>. QED
                BY <2>1, <3>2, <4>2 DEF One
        <3>. QED
            BY <3>1, <3>2
    <2>3. ASSUME NEW k \in Kinds
          PROVE  /\ held'[k] \in Nat
                 /\ held'[k] >= Owned(k)' + One(k \in InUse')
                 /\ ooms' = MaxOoms => held'[k] = Owned(k)' + One(k \in InUse')
        BY <1>2, <2>1, <2>2 DEF CoreInv, CountInv, Release, One
    <2>4. held' = [k \in Kinds |-> held'[k]]
        BY DEF Release
    <2>. QED
        BY <2>1, <2>3, <2>4 DEF CoreInv, CountInv
<1>8. ObjectInv'
    <2>1. /\ \A d : Known(d)' <=> Known(d)
          /\ \A d, n : Opened(d, n)' <=> Opened(d, n)
        BY DEF Known, Opened, Matches, Instances, Connected, DeviceInstanceId, busVars
    <2>2. Known(user.device) /\ ObjectInv
        BY <1>1 DEF ObjectInv, CoreInv
    <2>3. /\ new.device = user.device /\ new.node[1] = user.device.id
        BY <1>1 DEF new, TargetNode, device_instance_id
    <2>4. (\A x \in {"interface", "port"} : user[x] # NULL =>
               Known(user[x].device) /\ user[x].node[1] = user[x].device.id)'
        BY <1>4, <2>1, <2>2, <2>3 DEF ObjectInv
    <2>. QED
        BY <1>2, <1>4, <1>5, <2>1, <2>2, <2>4 DEF ObjectInv, UserType
<1>. QED
    BY <1>6, <1>7, <1>8 DEF CoreInv

LEMMA FilenameDetailCore ==
    ASSUME NamesInv, CoreInv, get_filename_detail, UNCHANGED busVars
    PROVE  CoreInv'
<1>0. /\ frame.pc = "detail" /\ frame.pc \in OfInterface
      /\ FrameInv /\ frame.pc \in Asking /\ frame.pc \in Creating
      /\ frame.call = "interface" /\ InUse = {"interface", "list", "inner"}
    BY OfInterfaceFacts DEF get_filename_detail, OfInterface
<1>1. CASE NoMemory({"interface", "list"}) \/ NoMemory({"interface", "list", "inner"})
    BY <1>0, <1>1, NoMemoryCore
<1>2. CASE Fail("other", {"interface", "list", "inner"})
    BY <1>0, <1>2, FailCore
<1>3. CASE /\ HasWinUsbFile(frame.node)
           /\ Allocates
           /\ Release({"list", "inner"})
           /\ user' = [user EXCEPT !.interface = [device |-> user.device, node |-> frame.node]]
           /\ Returns("none")
    <2>1. frame.node \in DevNodes
        BY <1>3 DEF HasWinUsbFile, Registered
    <2>2. InUse = {"list", "inner"} \cup {"interface"}
        BY <1>0
    <2>. QED
        BY <1>0, <1>3, <2>1, <2>2, ObjectMade
<1>. QED
    BY <1>1, <1>2, <1>3 DEF get_filename_detail

LEMMA PortKeyCore ==
    ASSUME CoreInv, open_port_key, UNCHANGED busVars
    PROVE  CoreInv'
<1>0. /\ frame.pc = "port_name" /\ frame.pc \in OfPort
      /\ FrameInv /\ frame.pc \in Asking /\ frame.pc \in Creating
      /\ frame.call = "port" /\ InUse = {"port", "list"}
    BY OfPortFacts DEF open_port_key, OfPort
<1>1. CASE Fail("other", {"port", "list"})
    BY <1>0, <1>1, FailCore
<1>2. CASE /\ Allocates
           /\ Acquire({"key"})
           /\ Continue([frame EXCEPT !.pc = "port_key"])
           /\ UNCHANGED user
    <2>1. user' = user /\ ooms' = ooms
        BY <1>2 DEF Allocates
    <2>2. frame'.pc = "port_key" /\ frame'.call = frame.call
        BY <1>2 DEF Continue, CoreInv, FrameInv
    <2>3. InUse' = InUse \cup {"key"} /\ {"key"} \cap InUse = {}
        BY <1>0, <2>2 DEF InUse
    <2>4. "port_key" \in OfPort /\ "port_key" \notin OfInterface
        BY DEF OfInterface, OfPort
    <2>. QED
        BY <1>0, <1>2, <2>1, <2>3, <2>4, AskMoves
<1>. QED
    BY <1>1, <1>2 DEF open_port_key

LEMMA PortNameCore ==
    ASSUME NamesInv, CoreInv, get_port_name, UNCHANGED busVars
    PROVE  CoreInv'
<1>0. /\ frame.pc = "port_key" /\ frame.pc \in OfPort
      /\ FrameInv /\ frame.pc \in Asking /\ frame.pc \in Creating
      /\ frame.call = "port" /\ InUse = {"port", "list", "key"}
    BY OfPortFacts DEF get_port_name, OfPort
<1>1. CASE NoMemory({"port", "list", "key"})
    BY <1>0, <1>1, NoMemoryCore
<1>2. CASE Fail("other", {"port", "list", "key"})
    BY <1>0, <1>2, FailCore
<1>3. CASE /\ HasPortName(frame.node)
           /\ Allocates
           /\ Release({"list", "key"})
           /\ user' = [user EXCEPT !.port = [device |-> user.device, node |-> frame.node]]
           /\ Returns("none")
    <2>1. frame.node \in DevNodes
        BY <1>3 DEF HasPortName, Registered
    <2>2. InUse = {"list", "key"} \cup {"port"}
        BY <1>0
    <2>. QED
        BY <1>0, <1>3, <2>1, <2>2, ObjectMade
<1>. QED
    BY <1>1, <1>2, <1>3 DEF get_port_name

-----------------------------------------------------------------------------
(* The opening of a handle.                                                *)

(* What the name of a known device leads to may be opened for it. *)
LEMMA OpenedNode ==
    ASSUME NamesInv, NEW d, Known(d), NEW n \in DevNodes, n[1] = d.id
    PROVE  Opened(d, at[Entry(n)[1]]) /\ at[Entry(n)[1]] \in 1..MaxPlugs
<1>1. PICK p \in Located : /\ d.id = DeviceInstanceId(p) /\ PortsOf(d.id) = {p}
                           /\ Entry(n)[1] = p
    BY NodeFacts
<1>2. at[p] \in Instances /\ at[p] \in 1..MaxPlugs
    <2>1. at[p] \in Instances
        BY LocatedFacts
    <2>2. Len(identity) \in Nat /\ Len(identity) <= MaxPlugs
        BY DEF NamesInv, BusInv, BusTypeOK
    <2>. QED
        BY <2>1, <2>2, PlugsAssumption DEF Instances
<1>3. Matches(d, identity[at[p]])
    BY <1>1 DEF Known, Matches, DeviceInstanceId
<1>4. d.inst \in Connected => at[p] = d.inst
    <2>1. ASSUME d.inst \in Connected PROVE at[p] = d.inst
        <3>1. PICK q \in Ports : at[q] = d.inst /\ at[q] # 0
            BY <2>1 DEF Connected
        <3>2. q \in PortsOf(d.id)
            BY <3>1 DEF Known, PortsOf, Located
        <3>. QED
            BY <1>1, <3>1, <3>2
    <2>. QED
        BY <2>1
<1>. QED
    BY <1>1, <1>2, <1>3, <1>4 DEF Opened

LEMMA OpenCore ==
    ASSUME NamesInv, CoreInv, open_file, UNCHANGED busVars
    PROVE  CoreInv'
<1>. DEFINE n == user.interface.node
<1>0. /\ FrameInv /\ UserType /\ frame.pc = "open" /\ frame.call = "open" /\ InUse = {}
      /\ user.interface # NULL /\ user.handle = NULL
    BY CoreTypes DEF open_file, CoreInv, FrameInv, InUse
<1>1. CASE NoMemory({})
    BY <1>0, <1>1, NoMemoryCore
<1>2. CASE \E error : Fail(error, {})
    BY <1>0, <1>2, FailCore
<1>3. CASE /\ HasWinUsbFile(n)
           /\ Allocates
           /\ Acquire({"handle", "file"})
           /\ Continue([frame EXCEPT !.pc = "winusb", !.inst = at[Entry(n)[1]]])
           /\ UNCHANGED user
    <2>1. /\ Moves("winusb", frame.list_index, frame.todo, frame.node, at[Entry(n)[1]])
          /\ user' = user /\ ooms' = ooms
        BY <1>0, <1>3 DEF Continue, Moves, FrameInv, Allocates
    <2>2. /\ frame'.pc = "winusb" /\ frame'.call = "open" /\ frame'.inst = at[Entry(n)[1]]
          /\ InUse' = {"handle", "file"}
        BY <1>0, <2>1 DEF Moves, InUse
    <2>3. FrameInv'
        BY <1>0, <2>1, <2>2 DEF FrameInv, Moves, Creating, Walking, Asking, OfInterface,
               OfPort, Again
    <2>4. CountInv'
        <3>1. InUse' = InUse \cup {"handle", "file"} /\ {"handle", "file"} \cap InUse = {}
            BY <1>0, <2>2
        <3>. QED
            BY <1>0, <1>3, <2>1, <3>1, AcquireCount DEF CoreInv, MemoryLeft
    <2>5. ObjectInv'
        <3>1. n \in DevNodes
            BY <1>3 DEF HasWinUsbFile, Registered
        <3>2. Known(user.interface.device) /\ n[1] = user.interface.device.id
            BY <1>0 DEF CoreInv, ObjectInv
        <3>3. Opened(user.interface.device, frame'.inst)
            BY <2>2, <3>1, <3>2, OpenedNode
        <3>. QED
            BY <2>1, <2>2, <3>3, SameObjects DEF CoreInv
    <2>. QED
        BY <2>3, <2>4, <2>5 DEF CoreInv
<1>. QED
    BY <1>1, <1>2, <1>3 DEF open_file

LEMMA InitializeCore ==
    ASSUME NamesInv, CoreInv, winusb_initialize, UNCHANGED busVars
    PROVE  CoreInv'
<1>0. /\ FrameInv /\ UserType /\ frame.pc = "winusb" /\ frame.call = "open"
      /\ InUse = {"handle", "file"} /\ user.interface # NULL /\ user.handle = NULL
    BY CoreTypes DEF winusb_initialize, CoreInv, FrameInv, InUse
<1>1. CASE NoMemory(close_handle)
    BY <1>0, <1>1, NoMemoryCore DEF close_handle
<1>2. CASE Fail("other", close_handle)
    BY <1>0, <1>2, FailCore DEF close_handle
<1>3. CASE /\ Allocates
           /\ user' = [user EXCEPT !.handle = [device |-> user.interface.device,
                                               inst |-> frame.inst]]
           /\ Returns("none")
           /\ UNCHANGED held
    <2>. DEFINE new == [device |-> user.interface.device, inst |-> frame.inst]
    <2>1. /\ frame' = IdleFrame /\ frame'.pc = "idle" /\ InUse' = {}
        BY <1>3 DEF Returns, IdleFrame, InUse
    <2>2. new \in Handle /\ new # NULL
        <3>1. user.interface.device \in Device
            BY <1>0 DEF UserType, Object
        <3>2. frame.inst \in Instances
            BY <1>0 DEF CoreInv, ObjectInv, Opened
        <3>3. Len(identity) \in Nat /\ Len(identity) <= MaxPlugs
            BY DEF NamesInv, BusInv, BusTypeOK
        <3>4. frame.inst \in 1..MaxPlugs
            BY <3>2, <3>3, PlugsAssumption DEF Instances
        <3>5. new \in Handle
            BY <3>1, <3>4 DEF Handle
        <3>. QED
            BY <3>5, NullAssumption
    <2>3. /\ user'.handle = new /\ user'.list = user.list /\ user'.device = user.device
          /\ user'.copied = user.copied
          /\ \A x \in {"interface", "port"} : user'[x] = user[x]
        BY <1>0, <1>3 DEF UserType
    <2>. HIDE DEF new
    <2>4. UserType'
        BY <1>0, <1>3, <2>2 DEF UserType, new
    <2>5. FrameInv'
        BY <1>0, <1>3, <2>1, <2>3 DEF FrameInv, Returns, IdleFrame, Creating, Walking, Asking,
               OfInterface, OfPort
    <2>6. CountInv'
        <3>1. /\ ooms' = ooms /\ held' = held /\ held \in [Kinds -> Nat]
              /\ \A k \in Kinds : Owned(k) \in Nat
            BY <1>0, <1>3, OwnedFacts DEF Allocates, CoreInv, CountInv
        <3>2. ASSUME NEW k \in Kinds PROVE Owned(k)' = Owned(k) + One(k \in InUse)
            <4>1. CASE k \in {"handle", "file"}
                BY <1>0, <2>2, <2>3, <4>1 DEF Owned, One
            <4>2. CASE k \notin {"handle", "file"}
                <5>1. Owned(k)' = Owned(k)
                    BY <2>3, <4>2 DEF Owned
                <5>. QED
                    BY <1>0, <3>1, <4>2, <5>1 DEF One
            <4>. QED
                BY <4>1, <4>2
        <3>3. \A k \in Kinds : Owned(k)' + One(k \in InUse') = Owned(k) + One(k \in InUse)
            BY <1>0, <2>1, <3>1, <3>2 DEF One
        <3>. QED
            BY <3>1, <3>3 DEF CoreInv, CountInv
    <2>7. ObjectInv'
        <3>1. /\ \A d : Known(d)' <=> Known(d)
              /\ \A d, m : Opened(d, m)' <=> Opened(d, m)
            BY DEF Known, Opened, Matches, Instances, Connected, DeviceInstanceId, busVars
        <3>2. /\ Known(user.interface.device) /\ Opened(user.interface.device, frame.inst)
              /\ ObjectInv
            BY <1>0 DEF ObjectInv, CoreInv
        <3>3. (Known(user.handle.device) /\ Opened(user.handle.device, user.handle.inst))'
            BY <2>3, <3>1, <3>2 DEF new
        <3>. QED
            BY <2>1, <2>3, <2>4, <3>1, <3>2, <3>3 DEF ObjectInv, UserType
    <2>. QED
        BY <2>5, <2>6, <2>7 DEF CoreInv
<1>. QED
    BY <1>1, <1>2, <1>3 DEF winusb_initialize

-----------------------------------------------------------------------------
(* Lists of devices.                                                       *)

(* What libusbp_device_create makes of a device node. *)
LEMMA DeviceMade ==
    ASSUME NamesInv, NEW n \in DevNodes, NEW m, m = at[Entry(n)[1]]
    PROVE  /\ DeviceFields(n[1], identity[m], m) \in Device
           /\ Known(DeviceFields(n[1], identity[m], m))
<1>. DEFINE d == DeviceFields(n[1], identity[m], m)
<1>1. PICK p \in Located : n[1] = DeviceInstanceId(p) /\ Entry(n)[1] = p
    BY NodeFacts
<1>2. /\ m = at[p] /\ p \in Ports /\ m \in Instances /\ m # 0
      /\ identity[m] \in Models /\ n[1] \in Ids
    BY <1>1, LocatedFacts DEF Located
<1>3. m \in 1..MaxPlugs
    <2>1. Len(identity) \in Nat /\ Len(identity) <= MaxPlugs
        BY DEF NamesInv, BusInv, BusTypeOK
    <2>. QED
        BY <1>2, <2>1, PlugsAssumption DEF Instances
<1>4. d \in Device
    BY <1>2, <1>3 DEF DeviceFields, Device
<1>5. /\ d.inst = m /\ d.id = n[1] /\ d.vid = identity[m].vid /\ d.pid = identity[m].pid
      /\ d.rev = identity[m].rev
    BY DEF DeviceFields
<1>6. d.id[1] = d.vid /\ d.id[2] = d.pid
    BY <1>1, <1>2, <1>5 DEF DeviceInstanceId
<1>7. \A q \in Ports : at[q] = d.inst => DeviceInstanceId(q) = d.id
    BY <1>1, <1>2, <1>5 DEF NamesInv, BusInv
<1>. HIDE DEF d
<1>8. Known(d)
    BY <1>2, <1>5, <1>6, <1>7 DEF Known, Matches
<1>. QED
    BY <1>4, <1>8 DEF d

(* A step from one place of libusbp_list_connected_devices to another. *)
LEMMA ListFrame ==
    ASSUME FrameInv, frame.pc \in {"list", "each", "append"},
           NEW pc \in {"each", "append"}, NEW todo, NEW node, NEW inst,
           Moves(pc, frame.list_index, todo, node, inst), user'.device = user.device
    PROVE  FrameInv' /\ frame'.pc = pc /\ frame'.inst = inst /\ frame'.node = node
<1>1. /\ frame'.pc = pc /\ frame'.call = frame.call /\ frame'.inst = inst
      /\ frame'.node = node /\ result' = result
    BY DEF Moves
<1>2. frame' = [pc |-> frame'.pc, call |-> frame'.call, want |-> frame'.want,
                composite |-> frame'.composite, first |-> frame'.first,
                list_index |-> frame'.list_index, todo |-> frame'.todo,
                node |-> frame'.node, inst |-> frame'.inst]
    BY DEF Moves
<1>3. FrameInv'
    BY <1>1, <1>2 DEF FrameInv, Creating, Walking, Asking, OfInterface, OfPort
<1>. QED
    BY <1>1, <1>3

LEMMA ListBeginCore ==
    ASSUME CoreInv, list_begin, UNCHANGED busVars
    PROVE  CoreInv'
<1>0. /\ FrameInv /\ UserType /\ frame.pc = "list" /\ InUse = {} /\ UNCHANGED user
    BY CoreTypes DEF list_begin, CoreInv, InUse
<1>1. CASE /\ Allocates
           /\ Acquire({"list"})
           /\ Continue([frame EXCEPT !.pc = "each", !.todo = UsbDevices])
    <2>1. Moves("each", frame.list_index, UsbDevices, frame.node, frame.inst)
        BY <1>0, <1>1 DEF Continue, Moves, FrameInv
    <2>2. FrameInv' /\ frame'.pc = "each"
        BY <1>0, <2>1, ListFrame
    <2>3. InUse' = InUse \cup {"list"} /\ {"list"} \cap InUse = {}
        BY <1>0, <2>2 DEF InUse
    <2>4. CountInv'
        BY <1>0, <1>1, <2>3, AcquireCount DEF CoreInv, MemoryLeft, Allocates
    <2>5. ObjectInv'
        BY <1>0, <2>2, SameObjects DEF CoreInv
    <2>. QED
        BY <2>2, <2>4, <2>5 DEF CoreInv
<1>2. CASE /\ OutOfMemory
           /\ Returns("memory")
           /\ UNCHANGED held
    <2>1. FrameInv' /\ InUse' = {} /\ frame'.pc = "idle"
        BY <1>0, <1>2, EndFrame DEF Returns, IdleFrame
    <2>2. CountInv'
        BY <1>0, <1>2, <2>1, SameCount DEF CoreInv, MemoryLeft, OutOfMemory
    <2>3. ObjectInv'
        BY <1>0, <2>1, SameObjects DEF CoreInv
    <2>. QED
        BY <2>1, <2>2, <2>3 DEF CoreInv
<1>. QED
    BY <1>1, <1>2 DEF list_begin

LEMMA TryCreateCore ==
    ASSUME NamesInv, CoreInv, NEW n, try_create_device(n), UNCHANGED busVars
    PROVE  CoreInv'
<1>0. /\ FrameInv /\ UserType /\ frame.pc = "each" /\ InUse = {"list"} /\ UNCHANGED user
    BY CoreTypes DEF try_create_device, CoreInv, InUse, Proceed
<1>1. CASE Continue(passed_over(n)) /\ UNCHANGED held /\ MemoryLeft
    <2>1. Moves("each", frame.list_index, frame.todo \ {n}, frame.node, frame.inst)
        BY <1>0, <1>1 DEF Continue, Moves, FrameInv, passed_over
    <2>2. FrameInv' /\ frame'.pc = "each"
        BY <1>0, <2>1, ListFrame
    <2>3. InUse' = InUse
        BY <1>0, <2>2 DEF InUse
    <2>4. CountInv'
        BY <1>0, <1>1, <2>3, SameCount DEF CoreInv
    <2>5. ObjectInv'
        BY <1>0, <2>2, SameObjects DEF CoreInv
    <2>. QED
        BY <2>2, <2>4, <2>5 DEF CoreInv
<1>2. CASE /\ n \in DevNodes
           /\ Allocates
           /\ Acquire({"device"})
           /\ Continue([passed_over(n) EXCEPT !.pc = "append", !.node = n,
                                              !.inst = at[Entry(n)[1]]])
    <2>1. Moves("append", frame.list_index, frame.todo \ {n}, n, at[Entry(n)[1]])
        BY <1>0, <1>2 DEF Continue, Moves, FrameInv, passed_over
    <2>2. /\ FrameInv' /\ frame'.pc = "append"
          /\ frame'.inst = at[Entry(n)[1]] /\ frame'.node = n
        BY <1>0, <2>1, ListFrame
    <2>3. InUse' = InUse \cup {"device"} /\ {"device"} \cap InUse = {}
        BY <1>0, <2>2 DEF InUse
    <2>4. CountInv'
        BY <1>0, <1>2, <2>3, AcquireCount DEF CoreInv, MemoryLeft, Allocates
    <2>5. ObjectInv'
        <3>1. NewDevice' = DeviceFields(n[1], identity[at[Entry(n)[1]]], at[Entry(n)[1]])
            BY <2>2 DEF NewDevice, busVars
        <3>2. NewDevice' \in Device /\ Known(NewDevice')
            BY <1>2, <3>1, DeviceMade
        <3>. QED
            BY <1>0, <2>2, <3>2, SameObjects DEF CoreInv
    <2>. QED
        BY <2>2, <2>4, <2>5 DEF CoreInv
<1>. QED
    BY <1>1, <1>2 DEF try_create_device, Proceed, Allocates, OutOfMemory, MemoryLeft

LEMMA AppendCore ==
    ASSUME CoreInv, device_list_append, UNCHANGED busVars
    PROVE  CoreInv'
<1>0. /\ FrameInv /\ UserType /\ frame.pc = "append" /\ InUse = {"list", "device"}
      /\ user.device = NULL /\ NewDevice \in Device /\ Known(NewDevice)
    BY CoreTypes DEF device_list_append, CoreInv, FrameInv, InUse, ObjectInv
<1>1. /\ held \in [Kinds -> Nat] /\ ooms \in 0..MaxOoms
      /\ \A k \in Kinds : Owned(k) \in Nat
    BY <1>0, OwnedFacts DEF CoreInv, CountInv
<1>2. /\ \A d : Known(d)' <=> Known(d)
      /\ \A d, n : Opened(d, n)' <=> Opened(d, n)
    BY DEF Known, Opened, Matches, Instances, Connected, DeviceInstanceId, busVars
<1>3. CASE /\ Allocates
           /\ user' = [user EXCEPT !.list = Append(@, NewDevice)]
           /\ Continue([frame EXCEPT !.pc = "each", !.node = NULL, !.inst = 0])
           /\ UNCHANGED held
    <2>1. /\ user'.list = Append(user.list, NewDevice) /\ user'.device = user.device
          /\ user'.handle = user.handle /\ user'.copied = user.copied
          /\ \A x \in {"interface", "port"} : user'[x] = user[x]
        BY <1>0, <1>3 DEF UserType
    <2>2. Moves("each", frame.list_index, frame.todo, NULL, 0)
        BY <1>0, <1>3 DEF Continue, Moves, FrameInv
    <2>3. FrameInv' /\ frame'.pc = "each"
        BY <1>0, <2>1, <2>2, ListFrame
    <2>4. InUse' = {"list"}
        BY <2>3 DEF InUse
    <2>5. CountInv'
        <3>1. ASSUME NEW k \in Kinds PROVE Owned(k)' = Owned(k) + One(k = "device")
            <4>1. CASE k = "device"
                <5>1. Len(user.list) \in Nat /\ Len(user'.list) = Len(user.list) + 1
                    BY <1>0, <2>1 DEF UserType
                <5>2. /\ Owned(k) = Len(user.list) + One(user.device # NULL)
                                        + One(user.copied = k)
                      /\ Owned(k)' = Len(user'.list) + One(user'.device # NULL)
                                         + One(user'.copied = k)
                    BY <4>1 DEF Owned
                <5>3. One(user.device # NULL) \in Nat /\ One(user.copied = k) \in Nat
                    BY DEF One
                <5>4. /\ One(user'.device # NULL) = One(user.device # NULL)
                      /\ One(user'.copied = k) = One(user.copied = k)
                    BY <2>1
                <5>5. One(k = "device") = 1
                    BY <4>1 DEF One
                <5>. QED
                    BY <5>1, <5>2, <5>3, <5>4, <5>5
            <4>2. CASE k # "device"
                <5>1. Owned(k)' = Owned(k)
                    BY <2>1, <4>2 DEF Owned
                <5>. QED
                    BY <1>1, <4>2, <5>1 DEF One
            <4>. QED
                BY <4>1, <4>2
        <3>2. \A k \in Kinds : Owned(k)' + One(k \in InUse') = Owned(k) + One(k \in InUse)
            BY <1>0, <1>1, <2>4, <3>1 DEF One
        <3>3. held' = held /\ ooms' = ooms
            BY <1>3 DEF Allocates
        <3>. QED
            BY <3>2, <3>3 DEF CoreInv, CountInv
    <2>6. ObjectInv'
        <3>1. UserType'
            <4>1. Append(user.list, NewDevice) \in Seq(Device)
                BY <1>0 DEF UserType
            <4>. QED
                BY <1>0, <1>3, <4>1 DEF UserType
        <3>2. (\A k \in DOMAIN user.list : Known(user.list[k]))'
            <4>1. ASSUME NEW k \in DOMAIN user'.list PROVE Known(user'.list[k])
                <5>1. user.list \in Seq(Device)
                    BY <1>0 DEF UserType
                <5>2. /\ k \in 1..(Len(user.list) + 1)
                      /\ k \in 1..Len(user.list) => user'.list[k] = user.list[k]
                      /\ k = Len(user.list) + 1 => user'.list[k] = NewDevice
                    BY <2>1, <4>1, <5>1
                <5>3. CASE k \in 1..Len(user.list)
                    BY <5>1, <5>2, <5>3 DEF CoreInv, ObjectInv
                <5>4. CASE k = Len(user.list) + 1
                    BY <1>0, <5>2, <5>4
                <5>. QED
                    BY <5>1, <5>2, <5>3, <5>4
            <4>. QED
                BY <1>2, <4>1
        <3>. QED
            BY <1>2, <2>1, <2>3, <3>1, <3>2 DEF CoreInv, ObjectInv, UserType
    <2>. QED
        BY <2>3, <2>5, <2>6 DEF CoreInv
<1>4. CASE /\ OutOfMemory
           /\ user' = [user EXCEPT !.list = <<>>]
           /\ held' = [held EXCEPT !["device"] = @ - Len(user.list), !["list"] = @ - 1]
           /\ Returns("memory")
    <2>1. /\ user'.list = <<>> /\ user'.device = user.device
          /\ user'.handle = user.handle /\ user'.copied = user.copied
          /\ \A x \in {"interface", "port"} : user'[x] = user[x]
        BY <1>0, <1>4 DEF UserType
    <2>2. frame' = IdleFrame /\ frame'.pc = "idle" /\ InUse' = {}
        BY <1>4 DEF Returns, IdleFrame, InUse
    <2>3. FrameInv'
        BY <1>0, <2>1, <2>2 DEF FrameInv, IdleFrame, Creating, Walking, Asking,
               OfInterface, OfPort
    <2>4. CountInv'
        <3>1. ooms' \in 0..MaxOoms /\ ooms' # MaxOoms
            BY <1>1, <1>4, OomsAssumption DEF OutOfMemory
        <3>2. ASSUME NEW k \in Kinds
              PROVE  /\ Owned(k)' \in Nat
                     /\ Owned(k) = Owned(k)' + IF k = "device" THEN Len(user.list) ELSE 0
            <4>1. CASE k = "device"
                <5>1. Len(user.list) \in Nat /\ Len(user'.list) = 0
                    BY <1>0, <2>1 DEF UserType
                <5>2. /\ Owned(k) = Len(user.list) + One(user.device # NULL)
                                        + One(user.copied = k)
                      /\ Owned(k)' = Len(user'.list) + One(user'.device # NULL)
                                         + One(user'.copied = k)
                    BY <4>1 DEF Owned
                <5>3. One(user.device # NULL) \in Nat /\ One(user.copied = k) \in Nat
                    BY DEF One
                <5>4. /\ One(user'.device # NULL) = One(user.device # NULL)
                      /\ One(user'.copied = k) = One(user.copied = k)
                    BY <2>1
                <5>. QED
                    BY <4>1, <5>1, <5>2, <5>3, <5>4
            <4>2. CASE k # "device"
                <5>1. Owned(k)' = Owned(k)
                    BY <2>1, <4>2 DEF Owned
                <5>. QED
                    BY <1>1, <4>2, <5>1
            <4>. QED
                BY <4>1, <4>2
        <3>3. ASSUME NEW k \in Kinds
              PROVE  held'[k] \in Nat /\ held'[k] >= Owned(k)' + One(k \in InUse')
            <4>1. Len(user.list) \in Nat /\ held[k] >= Owned(k) + One(k \in InUse)
                BY <1>0 DEF UserType, CoreInv, CountInv
            <4>2. CASE k = "device"
                BY <1>0, <1>1, <1>4, <2>2, <3>2, <4>1, <4>2 DEF One
            <4>3. CASE k # "device"
                BY <1>0, <1>1, <1>4, <2>2, <3>2, <4>1, <4>3 DEF One
            <4>. QED
                BY <4>2, <4>3
        <3>4. held' = [k \in Kinds |-> held'[k]]
            BY <1>1, <1>4
        <3>. QED
            BY <3>1, <3>3, <3>4 DEF CountInv
    <2>5. ObjectInv'
        <3>1. UserType'
            <4>1. <<>> \in Seq(Device)
                OBVIOUS
            <4>. QED
                BY <1>0, <1>4, <4>1 DEF UserType
        <3>. QED
            BY <1>2, <2>1, <2>2, <3>1 DEF CoreInv, ObjectInv, UserType
    <2>. QED
        BY <2>3, <2>4, <2>5 DEF CoreInv
<1>. QED
    BY <1>3, <1>4 DEF device_list_append, NewDevice

LEMMA ListReturnCore ==
    ASSUME CoreInv, list_return, UNCHANGED busVars
    PROVE  CoreInv'
<1>0. /\ FrameInv /\ UserType /\ frame.pc = "each" /\ InUse = {"list"} /\ UNCHANGED user
    BY CoreTypes DEF list_return, CoreInv, InUse
<1>1. FrameInv' /\ InUse' = {} /\ frame'.pc = "idle"
    BY <1>0, EndFrame DEF list_return, Returns, IdleFrame
<1>2. CountInv'
    <2>1. InUse' = InUse \ {"list"} /\ InUse' \subseteq InUse \ {"list"} /\ {"list"} \subseteq InUse
        BY <1>0, <1>1
    <2>. QED
        BY <1>0, <2>1, ReleaseCount DEF list_return, CoreInv, MemoryLeft
<1>3. ObjectInv'
    BY <1>0, <1>1, SameObjects DEF CoreInv
<1>. QED
    BY <1>1, <1>2, <1>3 DEF CoreInv

-----------------------------------------------------------------------------
(* The user and the bus.                                                   *)

LEMMA IdleFacts ==
    ASSUME CoreInv, frame.pc = "idle"
    PROVE  /\ FrameInv /\ UserType /\ frame = IdleFrame /\ InUse = {}
           /\ held \in [Kinds -> Nat] /\ ooms \in 0..MaxOoms
           /\ \A k \in Kinds : Owned(k) \in Nat /\ One(k \in InUse) = 0
<1>1. InUse = {}
    BY DEF InUse
<1>. QED
    BY <1>1, CoreTypes, OwnedFacts DEF CoreInv, FrameInv, CountInv, One

(* A call begins. *)
LEMMA EnterCore ==
    ASSUME CoreInv, NEW call, NEW want, NEW composite, Enter(call, want, composite),
           \/ call = "list" /\ user.device = NULL /\ user.list = <<>>
           \/ /\ call \in {"interface", "port"} /\ want \in Interfaces
              /\ user.device # NULL /\ user[call] = NULL
           \/ call = "open" /\ user.interface # NULL /\ user.handle = NULL
    PROVE  CoreInv'
<1>1. /\ frame' = [pc |-> call, call |-> call, want |-> want, composite |-> composite,
                   first |-> "none", list_index |-> 0, todo |-> {}, node |-> NULL, inst |-> 0]
      /\ result' = NoResult /\ frame.pc = "idle"
      /\ UNCHANGED <<busVars, user, held, ooms>>
    BY DEF Enter, IdleFrame
<1>2. /\ frame'.pc = call /\ frame'.call = call /\ frame'.want = want
      /\ frame'.first = "none" /\ frame'.list_index = 0
    BY <1>1
<1>3. FrameInv'
    <2>1. ~Again'
        BY <1>2 DEF Again
    <2>2. FrameInv
        BY DEF CoreInv
    <2>. QED
        BY <1>1, <1>2, <2>1, <2>2 DEF FrameInv, Creating, Walking, Asking, OfInterface, OfPort
<1>4. InUse' = InUse
    <2>1. InUse = {}
        BY <1>1, IdleFacts
    <2>2. InUse' = {}
        BY <1>2 DEF InUse
    <2>. QED
        BY <2>1, <2>2
<1>5. CountInv'
    BY <1>1, <1>4, SameCount, CoreTypes DEF CoreInv, MemoryLeft
<1>6. ObjectInv'
    BY <1>1, <1>2, SameObjects DEF CoreInv
<1>. QED
    BY <1>3, <1>5, <1>6 DEF CoreInv

(* Between calls, the user frees or copies an object. *)
LEMMA IdleFrameKept ==
    ASSUME CoreInv, NEW call, Idle(call),
           user'.list # <<>> => user'.device = NULL
    PROVE  FrameInv' /\ InUse' = {} /\ frame'.pc = "idle"
<1>1. FrameInv /\ frame = IdleFrame /\ frame' = frame /\ frame.pc = "idle"
    BY IdleFacts DEF Idle
<1>2. InUse' = {}
    BY <1>1 DEF InUse
<1>3. FrameInv'
    BY <1>1 DEF FrameInv, IdleFrame, Creating, Walking, Asking, OfInterface, OfPort
<1>. QED
    BY <1>1, <1>2, <1>3

LEMMA ListFreeCore ==
    ASSUME CoreInv, list_free
    PROVE  CoreInv'
<1>0. /\ FrameInv /\ UserType /\ frame.pc = "idle" /\ InUse = {}
      /\ held \in [Kinds -> Nat] /\ ooms \in 0..MaxOoms /\ ooms' = ooms
      /\ \A k \in Kinds : Owned(k) \in Nat /\ One(k \in InUse) = 0
      /\ user.list # <<>> /\ user.device = NULL /\ UNCHANGED busVars /\ Idle("none")
    BY IdleFacts DEF list_free, Idle, FrameInv
<1>1. PICK d \in {NULL} \cup {user.list[k] : k \in DOMAIN user.list} :
        /\ user' = [user EXCEPT !.list = <<>>, !.device = d]
        /\ held' = [held EXCEPT !["device"] =
                        @ - (Len(user.list) - IF d = NULL THEN 0 ELSE 1)]
    BY DEF list_free
<1>2. /\ user'.list = <<>> /\ user'.device = d
      /\ user'.handle = user.handle /\ user'.copied = user.copied
      /\ \A x \in {"interface", "port"} : user'[x] = user[x]
    BY <1>0, <1>1 DEF UserType
<1>3. d # NULL => d \in Device /\ Known(d)
    BY <1>0 DEF UserType, CoreInv, ObjectInv
<1>4. FrameInv' /\ InUse' = {} /\ frame'.pc = "idle"
    BY <1>0, <1>2, IdleFrameKept
<1>5. CountInv'
    <2>. DEFINE freed == Len(user.list) - IF d = NULL THEN 0 ELSE 1
    <2>1. Len(user.list) \in Nat /\ Len(user.list) > 0 /\ freed \in Nat
        BY <1>0 DEF UserType
    <2>2. ASSUME NEW k \in Kinds
          PROVE  /\ Owned(k)' \in Nat
                 /\ Owned(k) = Owned(k)' + IF k = "device" THEN freed ELSE 0
        <3>1. CASE k = "device"
            <4>1. /\ Owned(k) = Len(user.list) + One(user.device # NULL)
                                    + One(user.copied = k)
                  /\ Owned(k)' = Len(user'.list) + One(user'.device # NULL)
                                     + One(user'.copied = k)
                BY <3>1 DEF Owned
            <4>2. /\ One(user.device # NULL) = 0 /\ One(user.copied = k) \in Nat
                  /\ Len(user'.list) = 0
                  /\ One(user'.copied = k) = One(user.copied = k)
                  /\ One(user'.device # NULL) = IF d = NULL THEN 0 ELSE 1
                BY <1>0, <1>2 DEF One
            <4>. HIDE DEF freed
            <4>4. CASE d = NULL
                <5>1. freed = Len(user.list) /\ One(user'.device # NULL) = 0
                    BY <2>1, <4>2, <4>4 DEF freed
                <5>. QED
                    BY <2>1, <3>1, <4>1, <4>2, <5>1
            <4>5. CASE d # NULL
                <5>1. freed = Len(user.list) - 1 /\ One(user'.device # NULL) = 1
                    BY <2>1, <4>2, <4>5 DEF freed
                <5>. QED
                    BY <2>1, <3>1, <4>1, <4>2, <5>1
            <4>. QED
                BY <4>4, <4>5
        <3>2. CASE k # "device"
            <4>1. Owned(k)' = Owned(k)
                BY <1>2, <3>2 DEF Owned
            <4>. QED
                BY <1>0, <3>2, <4>1
        <3>. QED
            BY <3>1, <3>2
    <2>3. ASSUME NEW k \in Kinds
          PROVE  /\ held'[k] \in Nat /\ held'[k] >= Owned(k)' + One(k \in InUse')
                 /\ ooms = MaxOoms => held'[k] = Owned(k)' + One(k \in InUse')
        <3>1. /\ held[k] >= Owned(k)
              /\ ooms = MaxOoms => held[k] = Owned(k)
            BY <1>0 DEF CoreInv, CountInv
        <3>2. held'[k] = held[k] - IF k = "device" THEN freed ELSE 0
            <4>1. held' = [held EXCEPT !["device"] = @ - freed] /\ held[k] \in Nat
                BY <1>0, <1>1
            <4>. HIDE DEF freed
            <4>2. CASE k = "device"
                BY <1>0, <4>1, <4>2
            <4>3. CASE k # "device"
                BY <1>0, <4>1, <4>3
            <4>. QED
                BY <4>2, <4>3
        <3>3. One(k \in InUse') = 0
            BY <1>4 DEF One
        <3>. HIDE DEF freed
        <3>. QED
            BY <1>0, <2>1, <2>2, <3>1, <3>2, <3>3
    <2>4. held' = [k \in Kinds |-> held'[k]]
        BY <1>0, <1>1
    <2>. QED
        BY <1>0, <2>3, <2>4 DEF CountInv
<1>6. ObjectInv'
    <2>1. /\ \A e : Known(e)' <=> Known(e)
          /\ \A e, n : Opened(e, n)' <=> Opened(e, n)
        BY <1>0 DEF Known, Opened, Matches, Instances, Connected, DeviceInstanceId, busVars
    <2>2. UserType'
        <3>1. <<>> \in Seq(Device)
            OBVIOUS
        <3>. QED
            BY <1>0, <1>1, <1>3, <3>1 DEF UserType
    <2>. QED
        BY <1>2, <1>3, <1>4, <2>1, <2>2 DEF CoreInv, ObjectInv, UserType
<1>. QED
    BY <1>4, <1>5, <1>6 DEF CoreInv

(* The counts after a step between calls that gives back the resources of S, *)
(* which the user no longer owns.                                            *)
LEMMA IdleRelease ==
    ASSUME CoreInv, frame.pc = "idle", ooms' = ooms, InUse' = {}, NEW S, Release(S),
           \A k \in Kinds : Owned(k)' \in Nat /\ Owned(k) = Owned(k)' + One(k \in S)
    PROVE  CountInv'
<1>1. /\ held \in [Kinds -> Nat] /\ ooms \in 0..MaxOoms
      /\ \A k \in Kinds : One(k \in InUse) = 0 /\ One(k \in InUse') = 0
    BY IdleFacts DEF One
<1>2. ASSUME NEW k \in Kinds
      PROVE  /\ held'[k] \in Nat /\ held'[k] >= Owned(k)' + One(k \in InUse')
             /\ ooms = MaxOoms => held'[k] = Owned(k)' + One(k \in InUse')
    <2>1. /\ held[k] >= Owned(k) + One(k \in InUse)
          /\ ooms = MaxOoms => held[k] = Owned(k) + One(k \in InUse)
        BY DEF CoreInv, CountInv
    <2>2. held'[k] = held[k] - One(k \in S) /\ One(k \in S) \in {0, 1}
        BY <1>1 DEF Release, One
    <2>. QED
        BY <1>1, <2>1, <2>2
<1>3. held' = [k \in Kinds |-> held'[k]]
    BY DEF Release
<1>. QED
    BY <1>1, <1>2, <1>3 DEF CountInv

LEMMA FreeCore ==
    ASSUME CoreInv, NEW kind \in {"device", "interface", "port", "handle"}, free_object(kind)
    PROVE  CoreInv'
<1>. DEFINE S == {kind} \cup {k \in {"file"} : kind = "handle"}
<1>0. /\ FrameInv /\ UserType /\ frame.pc = "idle" /\ Idle("none") /\ user[kind] # NULL
      /\ ooms' = ooms /\ UNCHANGED busVars /\ Release(S)
      /\ \A k \in Kinds : Owned(k) \in Nat
    BY IdleFacts DEF free_object, Idle
<1>1. /\ user'.list = user.list /\ user'.copied = user.copied /\ user'[kind] = NULL
      /\ \A x \in {"device", "interface", "port", "handle"} : x # kind => user'[x] = user[x]
    BY <1>0 DEF free_object, UserType
<1>2. UserType'
    BY <1>0 DEF free_object, UserType
<1>3. FrameInv' /\ InUse' = {} /\ frame'.pc = "idle"
    <2>1. user'.list # <<>> => user'.device = NULL
        BY <1>0, <1>1 DEF FrameInv
    <2>. QED
        BY <1>0, <2>1, IdleFrameKept
<1>4. CountInv'
    <2>1. ASSUME NEW k \in Kinds
          PROVE  Owned(k)' \in Nat /\ Owned(k) = Owned(k)' + One(k \in S)
        <3>0. /\ One(user.copied = k) \in Nat /\ One(user'.copied = k) = One(user.copied = k)
              /\ One(user'.device # NULL) \in Nat /\ Len(user.list) \in Nat
              /\ One(user'[k] # NULL) \in Nat /\ One(user'.handle # NULL) \in Nat
              /\ One(k \in S) \in Nat /\ Len(user'.list) = Len(user.list)
            BY <1>0, <1>1 DEF One, UserType
        <3>1. CASE k = "device"
            <4>1. /\ Owned(k) = Len(user.list) + One(user.device # NULL)
                                    + One(user.copied = k)
                  /\ Owned(k)' = Len(user'.list) + One(user'.device # NULL)
                                     + One(user'.copied = k)
                BY <3>1 DEF Owned
            <4>3. /\ Owned(k) = Len(user.list) + One(user.device # NULL)
                                    + One(user.copied = k)
                  /\ Owned(k)' = Len(user.list) + One(user'.device # NULL)
                                     + One(user.copied = k)
                BY <3>0, <4>1
            <4>4. CASE kind = "device"
                <5>1. One(user.device # NULL) = 1 /\ One(user'.device # NULL) = 0
                      /\ One(k \in S) = 1
                    BY <1>0, <1>1, <3>1, <4>4 DEF One
                <5>. HIDE DEF S
                <5>. QED
                    BY <3>0, <4>3, <5>1
            <4>5. CASE kind # "device"
                <5>1. One(user.device # NULL) = One(user'.device # NULL) /\ One(k \in S) = 0
                    BY <1>0, <1>1, <3>1, <4>5 DEF One
                <5>. HIDE DEF S
                <5>. QED
                    BY <3>0, <4>3, <5>1
            <4>. QED
                BY <4>4, <4>5
        <3>2. CASE k \in {"interface", "port"}
            <4>1. /\ Owned(k) = One(user[k] # NULL) + One(user.copied = k)
                  /\ Owned(k)' = One(user'[k] # NULL) + One(user'.copied = k)
                BY <3>2 DEF Owned
            <4>2. One(user[k] # NULL) = One(user'[k] # NULL) + One(k \in S)
                BY <1>0, <1>1, <3>2 DEF One
            <4>. QED
                BY SMTT(40), <1>1, <3>0, <4>1, <4>2
        <3>3. CASE k \in {"handle", "file"}
            <4>1. /\ Owned(k) = One(user.handle # NULL)
                  /\ Owned(k)' = One(user'.handle # NULL)
                BY <3>3 DEF Owned
            <4>2. One(user.handle # NULL) = One(user'.handle # NULL) + One(k \in S)
                BY <1>0, <1>1, <3>3 DEF One
            <4>. QED
                BY <3>0, <4>1, <4>2
        <3>4. CASE k \in {"list", "inner", "key"}
            <4>1. Owned(k) = 0 /\ Owned(k)' = 0 /\ One(k \in S) = 0
                BY <3>4 DEF Owned, One
            <4>. QED
                BY <4>1
        <3>. QED
            BY <3>1, <3>2, <3>3, <3>4 DEF Kinds
    <2>. HIDE DEF S
    <2>. QED
        BY <1>0, <1>3, <2>1, IdleRelease
<1>5. ObjectInv'
    <2>1. /\ \A e : Known(e)' <=> Known(e)
          /\ \A e, n : Opened(e, n)' <=> Opened(e, n)
        BY <1>0 DEF Known, Opened, Matches, Instances, Connected, DeviceInstanceId, busVars
    <2>2. \A x \in {"device", "interface", "port", "handle"} :
            user'[x] # NULL => user'[x] = user[x]
        BY <1>1
    <2>. QED
        BY <1>1, <1>2, <1>3, <2>1, <2>2 DEF CoreInv, ObjectInv, UserType
<1>. QED
    BY <1>3, <1>4, <1>5 DEF CoreInv

(* Copies change what the user owns of one kind. *)
LEMMA CopiedOwned ==
    ASSUME UserType, NEW kind \in {"device", "interface", "port"}, NEW k \in Kinds,
           \/ user.copied = NULL /\ user' = [user EXCEPT !.copied = kind]
           \/ user.copied = kind /\ user' = [user EXCEPT !.copied = NULL]
    PROVE  /\ UserType'
           /\ \A x \in {"list", "device", "interface", "port", "handle"} : user'[x] = user[x]
           /\ Owned(k) \in Nat /\ Owned(k)' \in Nat
           /\ user.copied = NULL => Owned(k)' = Owned(k) + One(k = kind)
           /\ user.copied = kind => Owned(k) = Owned(k)' + One(k = kind)
<1>1. /\ UserType'
      /\ \A x \in {"list", "device", "interface", "port", "handle"} : user'[x] = user[x]
      /\ user'.copied = IF user.copied = NULL THEN kind ELSE NULL
    BY NullAssumption DEF UserType, Kinds
<1>2. /\ user.copied = NULL =>
            One(user'.copied = k) = One(k = kind) /\ One(user.copied = k) = 0
      /\ user.copied = kind =>
            One(user.copied = k) = One(k = kind) /\ One(user'.copied = k) = 0
    BY <1>1, NullAssumption DEF One, Kinds
<1>3. /\ One(k = kind) \in Nat /\ Len(user.list) \in Nat /\ user.copied \in {NULL, kind}
      /\ One(user.device # NULL) \in Nat /\ One(user[k] # NULL) \in Nat
      /\ One(user.handle # NULL) \in Nat
      /\ One(user.copied = k) \in Nat /\ One(user'.copied = k) \in Nat
    BY DEF One, UserType
<1>4. CASE k = "device"
    <2>1. /\ Owned(k) = Len(user.list) + One(user.device # NULL) + One(user.copied = k)
          /\ Owned(k)' = Len(user.list) + One(user.device # NULL) + One(user'.copied = k)
        BY <1>1, <1>4 DEF Owned
    <2>. QED
        BY SMTT(40), <1>1, <1>2, <1>3, <2>1
<1>5. CASE k \in {"interface", "port"}
    <2>1. /\ Owned(k) = One(user[k] # NULL) + One(user.copied = k)
          /\ Owned(k)' = One(user[k] # NULL) + One(user'.copied = k)
        BY <1>1, <1>5 DEF Owned
    <2>. QED
        BY SMTT(40), <1>1, <1>2, <1>3, <2>1
<1>6. CASE k \in {"handle", "file", "list", "inner", "key"}
    <2>1. /\ Owned(k) = IF k \in {"handle", "file"} THEN One(user.handle # NULL) ELSE 0
          /\ Owned(k)' = Owned(k) /\ One(k = kind) = 0
        BY <1>1, <1>6 DEF Owned, One
    <2>. QED
        BY <1>1, <1>3, <2>1
<1>. QED
    BY <1>4, <1>5, <1>6 DEF Kinds

LEMMA CopyCore ==
    ASSUME CoreInv, NEW kind \in {"device", "interface", "port"},
           \/ copy_object(kind)
           \/ free_copy /\ user.copied = kind
    PROVE  CoreInv'
<1>0. /\ FrameInv /\ UserType /\ frame.pc = "idle" /\ ooms' = ooms /\ UNCHANGED busVars
      /\ held \in [Kinds -> Nat] /\ ooms \in 0..MaxOoms /\ InUse = {}
      /\ \E call : Idle(call)
      /\ \/ user.copied = NULL /\ user' = [user EXCEPT !.copied = kind] /\ Acquire({kind})
         \/ user.copied = kind /\ user' = [user EXCEPT !.copied = NULL] /\ Release({kind})
    BY IdleFacts DEF copy_object, free_copy, Idle
<1>1. /\ UserType'
      /\ \A x \in {"list", "device", "interface", "port", "handle"} : user'[x] = user[x]
    BY <1>0, CopiedOwned DEF Kinds
<1>2. FrameInv' /\ InUse' = {} /\ frame'.pc = "idle"
    <2>1. user'.list # <<>> => user'.device = NULL
        BY <1>0, <1>1 DEF FrameInv
    <2>. QED
        BY <1>0, <2>1, IdleFrameKept
<1>3. CountInv'
    <2>1. CASE user.copied = kind /\ user' = [user EXCEPT !.copied = NULL] /\ Release({kind})
        <3>1. \A k \in Kinds :
                Owned(k)' \in Nat /\ Owned(k) = Owned(k)' + One(k = kind)
            BY <1>0, <2>1, CopiedOwned
        <3>2. \A k \in Kinds : One(k = kind) = One(k \in {kind})
            BY DEF One
        <3>. QED
            BY <1>0, <1>2, <2>1, <3>1, <3>2, IdleRelease
    <2>2. CASE user.copied = NULL /\ user' = [user EXCEPT !.copied = kind] /\ Acquire({kind})
        <3>1. \A k \in Kinds :
                Owned(k) \in Nat /\ Owned(k)' = Owned(k) + One(k = kind)
            BY <1>0, <2>2, CopiedOwned
        <3>2. ASSUME NEW k \in Kinds
              PROVE  /\ held'[k] \in Nat /\ held'[k] >= Owned(k)' + One(k \in InUse')
                     /\ ooms = MaxOoms => held'[k] = Owned(k)' + One(k \in InUse')
            <4>1. /\ held[k] >= Owned(k) + One(k \in InUse)
                  /\ ooms = MaxOoms => held[k] = Owned(k) + One(k \in InUse)
                BY DEF CoreInv, CountInv
            <4>2. /\ held'[k] = held[k] + One(k = kind) /\ One(k = kind) \in Nat
                  /\ One(k \in InUse) = 0 /\ One(k \in InUse') = 0
                BY <1>0, <1>2, <2>2 DEF Acquire, One
            <4>. QED
                BY <1>0, <3>1, <4>1, <4>2
        <3>3. held' = [k \in Kinds |-> held'[k]]
            BY <2>2 DEF Acquire
        <3>. QED
            BY <1>0, <3>2, <3>3 DEF CountInv
    <2>. QED
        BY <1>0, <2>1, <2>2
<1>4. ObjectInv'
    <2>1. /\ \A e : Known(e)' <=> Known(e)
          /\ \A e, n : Opened(e, n)' <=> Opened(e, n)
        BY <1>0 DEF Known, Opened, Matches, Instances, Connected, DeviceInstanceId, busVars
    <2>. QED
        BY <1>1, <1>2, <2>1 DEF CoreInv, ObjectInv, UserType
<1>. QED
    BY <1>2, <1>3, <1>4 DEF CoreInv

LEMMA CopyFailsCore ==
    ASSUME CoreInv, NEW kind, copy_object_fails(kind)
    PROVE  CoreInv'
<1>0. /\ FrameInv /\ UserType /\ frame = IdleFrame /\ frame.pc = "idle"
      /\ UNCHANGED <<busVars, frame, user, held>> /\ MemoryLeft /\ frame'.pc = "idle"
    BY IdleFacts DEF copy_object_fails, OutOfMemory, MemoryLeft
<1>1. FrameInv'
    BY <1>0 DEF FrameInv, IdleFrame, Creating, Walking, Asking, OfInterface, OfPort
<1>2. InUse' = InUse
    BY <1>0 DEF InUse
<1>3. CountInv'
    BY <1>0, <1>2, SameCount DEF CoreInv
<1>4. ObjectInv'
    BY <1>0, SameObjects DEF CoreInv
<1>. QED
    BY <1>1, <1>3, <1>4 DEF CoreInv

LEMMA BusCore ==
    ASSUME NamesInv, CoreInv, BusStep
    PROVE  CoreInv'
<1>0. /\ BusNext /\ UNCHANGED <<frame, user, held, ooms>>
      /\ result' = IF frame.pc = "idle" THEN NoResult ELSE result
    BY DEF BusStep
<1>1. FrameInv'
    <2>1. /\ (Composite <=> Composite') /\ (Again <=> Again') /\ TargetNode' = TargetNode
        BY <1>0 DEF Composite, Again, TargetNode, interface_number, device_instance_id
    <2>2. FrameInv
        BY DEF CoreInv
    <2>. QED
        BY <1>0, <2>1, <2>2 DEF FrameInv
<1>2. CountInv'
    <2>1. InUse' = InUse
        BY <1>0 DEF InUse
    <2>. QED
        BY <1>0, <2>1, SameCount, CoreTypes DEF CoreInv, MemoryLeft
<1>3. ObjectInv'
    <2>0. ObjectInv
        BY DEF CoreInv
    <2>1. /\ \A d : Known(d) => Known(d)'
          /\ \A d, n : d.inst \in Instances /\ Opened(d, n) => Opened(d, n)'
          /\ \A d : Known(d) => d.inst \in Instances
        BY <1>0, BusKnown, BusOpened DEF Known
    <2>2. frame'.pc = "append" => (NewDevice \in Device /\ Known(NewDevice))'
        <3>1. ASSUME frame'.pc = "append" PROVE (NewDevice \in Device /\ Known(NewDevice))'
            <4>1. NewDevice \in Device /\ Known(NewDevice)
                BY <1>0, <2>0, <3>1 DEF ObjectInv
            <4>2. frame.inst \in Instances
                BY <4>1 DEF Known, NewDevice, DeviceFields
            <4>3. identity'[frame.inst] = identity[frame.inst]
                BY <1>0, <4>2, BusMoves DEF NamesInv
            <4>4. NewDevice' = NewDevice
                BY <1>0, <4>3 DEF NewDevice
            <4>. QED
                BY <2>1, <4>1, <4>4
        <3>. QED
            BY <3>1
    <2>3. frame.pc = "winusb" =>
            Known(user.interface.device) /\ Opened(user.interface.device, frame.inst)
        BY <2>0 DEF CoreInv, FrameInv, ObjectInv
    <2>4. /\ (\A k \in DOMAIN user.list : Known(user.list[k]))'
          /\ (user.device # NULL => Known(user.device))'
          /\ (\A o \in {"interface", "port"} : user[o] # NULL =>
                Known(user[o].device) /\ user[o].node[1] = user[o].device.id)'
        BY <1>0, <2>0, <2>1 DEF ObjectInv
    <2>5. (user.handle # NULL =>
                Known(user.handle.device) /\ Opened(user.handle.device, user.handle.inst))'
        BY <1>0, <2>0, <2>1 DEF ObjectInv
    <2>6. (frame.pc = "winusb" => Opened(user.interface.device, frame.inst))'
        BY <1>0, <2>1, <2>3
    <2>7. UserType'
        BY <1>0, CoreTypes DEF CoreInv, UserType
    <2>. QED
        BY <2>2, <2>4, <2>5, <2>6, <2>7 DEF ObjectInv, UserType
<1>. QED
    BY <1>1, <1>2, <1>3 DEF CoreInv

LEMMA StutterCore ==
    ASSUME CoreInv, UNCHANGED vars
    PROVE  CoreInv'
<1>0. UNCHANGED <<busVars, frame, user, held, ooms, result>>
    BY DEF vars
<1>1. FrameInv'
    <2>1. /\ (Composite <=> Composite') /\ (Again <=> Again') /\ TargetNode' = TargetNode
        BY <1>0 DEF Composite, Again, TargetNode, interface_number, device_instance_id
    <2>. QED
        BY <1>0, <2>1 DEF FrameInv, CoreInv
<1>2. InUse' = InUse
    BY <1>0 DEF InUse
<1>3. CountInv'
    BY <1>0, <1>2, SameCount, CoreTypes DEF CoreInv, MemoryLeft
<1>4. ObjectInv'
    <2>1. NewDevice' = NewDevice
        BY <1>0 DEF NewDevice, busVars
    <2>. QED
        BY <1>0, <2>1, SameObjects DEF CoreInv, ObjectInv
<1>. QED
    BY <1>1, <1>3, <1>4 DEF CoreInv

LEMMA CallCore ==
    ASSUME NamesInv, CoreInv, CallStep
    PROVE  CoreInv'
BY ListBeginCore, TryCreateCore, AppendCore, ListReturnCore, CreateBeginCore, NonCompositeCore,
   LocateCore, NextListCore, EntryCore, ListDoneCore, IdStringCore, DriverCore, GuidCore,
   FilenameListCore, FilenameDetailCore, PortKeyCore, PortNameCore, OpenCore, InitializeCore
   DEF CallStep

LEMMA UserCore ==
    ASSUME CoreInv, UserStep
    PROVE  CoreInv'
<1>1. CASE libusbp_list_connected_devices
    BY <1>1, EnterCore DEF libusbp_list_connected_devices
<1>2. CASE \E i \in Interfaces, composite \in BOOLEAN :
                \/ libusbp_generic_interface_create(i, composite)
                \/ libusbp_serial_port_create(i, composite)
    BY <1>2, EnterCore DEF libusbp_generic_interface_create, libusbp_serial_port_create
<1>3. CASE libusbp_generic_handle_open
    BY <1>3, EnterCore DEF libusbp_generic_handle_open
<1>4. CASE list_free
    BY <1>4, ListFreeCore
<1>5. CASE \E kind \in {"device", "interface", "port", "handle"} : free_object(kind)
    BY <1>5, FreeCore
<1>6. CASE \E kind \in {"device", "interface", "port"} :
                copy_object(kind) \/ copy_object_fails(kind)
    BY <1>6, CopyCore, CopyFailsCore
<1>7. CASE free_copy
    <2>1. user.copied \in {"device", "interface", "port"}
        BY <1>7, CoreTypes DEF free_copy, CoreInv, UserType
    <2>. QED
        BY <1>7, <2>1, CopyCore
<1>. QED
    BY <1>1, <1>2, <1>3, <1>4, <1>5, <1>6, <1>7 DEF UserStep

LEMMA NamesKept ==
    ASSUME NamesInv, [Next]_vars
    PROVE  NamesInv'
<1>1. CASE BusStep
    BY <1>1, NamesStep DEF BusStep
<1>2. CASE CallStep \/ UNCHANGED vars
    BY <1>2, NamesStutter DEF CallStep, vars
<1>3. CASE UserStep
    <2>1. UNCHANGED busVars
        BY <1>3 DEF UserStep, libusbp_list_connected_devices,
               libusbp_generic_interface_create, libusbp_serial_port_create,
               libusbp_generic_handle_open, Enter, list_free, free_object, copy_object,
               copy_object_fails, free_copy, Idle
    <2>. QED
        BY <2>1, NamesStutter
<1>. QED
    BY <1>1, <1>2, <1>3 DEF Next

LEMMA CoreStep ==
    ASSUME NamesInv, CoreInv, [Next]_vars
    PROVE  CoreInv'
BY CallCore, UserCore, BusCore, StutterCore DEF Next

LEMMA CoreInit ==
    ASSUME Init
    PROVE  NamesInv /\ CoreInv
<1>1. /\ at = [p \in Ports |-> 0] /\ identity = <<>> /\ nodes = {} /\ initialized = {}
      /\ ifaces = {} /\ driver = [i \in InterfacePaths |-> NoDriver] /\ ttys = {}
    BY DEF Init, BusInit
<1>2. NamesInv
    <2>1. Connected = {}
        BY <1>1 DEF Connected
    <2>2. BusTypeOK
        BY <1>1, PlugsAssumption DEF BusTypeOK
    <2>3. BusInv
        BY <1>1, <2>1, <2>2 DEF BusInv
    <2>. QED
        BY <1>1, <2>3 DEF NamesInv, UniqueIds
<1>3. frame = IdleFrame /\ frame.pc = "idle" /\ InUse = {}
    BY DEF Init, IdleFrame, InUse
<1>4. /\ user.list = <<>> /\ user.device = NULL /\ user.interface = NULL /\ user.port = NULL
      /\ user.handle = NULL /\ user.copied = NULL
    BY DEF Init
<1>5. FrameInv
    BY <1>3, <1>4 DEF FrameInv, IdleFrame, Creating, Walking, Asking, OfInterface, OfPort
<1>6. UserType
    BY DEF Init, UserType
<1>7. CountInv
    <2>1. \A k \in Kinds : Owned(k) = 0
        BY <1>4, NullAssumption DEF Owned, One, Kinds
    <2>. QED
        BY <1>3, <2>1, OomsAssumption DEF Init, CountInv, One
<1>8. ObjectInv
    BY <1>3, <1>4, <1>6 DEF ObjectInv, UserType
<1>. QED
    BY <1>2, <1>5, <1>7, <1>8 DEF CoreInv

-----------------------------------------------------------------------------
(***************************************************************************)
(* An interface that is ready all the time is found.  The invariant about  *)
(* calls in progress goes with what it says of a call that has returned.   *)
(***************************************************************************)
FoundInv == WatchInv /\ ReadyInv /\ NotReadyIsTrue /\ ReadyInterfaceIsCreated

(* What a call sees of the bus is a matter of the bus alone. *)
LEMMA SameBus ==
    ASSUME UNCHANGED busVars
    PROVE  /\ DevNodes' = DevNodes /\ UsbDevices' = UsbDevices
           /\ \A n : Service(n)' = Service(n)
           /\ \A n : (HasWinUsbFile(n)' <=> HasWinUsbFile(n)) /\ (HasPortName(n)' <=> HasPortName(n))
<1>1. DevNodes' = DevNodes /\ UsbDevices' = UsbDevices
    BY DEF DevNodes, UsbDevices, Located, Parts, DeviceInstanceId, busVars
<1>2. \A n : Service(n)' = Service(n) /\ Entry(n)' = Entry(n)
    BY DEF Service, Entry, PortsOf, Located, DeviceInstanceId, busVars
<1>3. \A n : Registered(n)' <=> Registered(n)
    BY <1>1, <1>2 DEF Registered, busVars
<1>. QED
    BY <1>1, <1>2, <1>3 DEF HasWinUsbFile, HasPortName

LEMMA SameReady ==
    ASSUME UNCHANGED busVars, user' = user, NEW call, NEW want, NEW composite
    PROVE  Ready(call, want, composite)' <=> Ready(call, want, composite)
BY SameBus DEF Ready

(* The node that is looked for stays, and its driver with it. *)
LEMMA SameService ==
    ASSUME UNCHANGED busVars, TargetNode' = TargetNode
    PROVE  Service(TargetNode)' = Service(TargetNode)
<1>1. at' = at /\ identity' = identity /\ driver' = driver
    BY DEF busVars
<1>2. PortsOf(TargetNode[1])' = PortsOf(TargetNode[1])
    BY <1>1 DEF PortsOf, Located, DeviceInstanceId
<1>3. Entry(TargetNode)' = Entry(TargetNode)
    BY <1>2 DEF Entry
<1>. QED
    BY <1>1, <1>3 DEF Service

(* The state of a call that looks for no interface says nothing about it. *)
LEMMA OtherFound ==
    ASSUME WatchInv', frame'.pc \notin Creating, result'.error # "not_ready",
           result'.call \in {"interface", "port"} => result'.error = "none"
    PROVE  FoundInv'
BY DEF FoundInv, ReadyInv, NotReadyIsTrue, ReadyInterfaceIsCreated

(* Memory was missing.  That is the answer, or the second attempt follows. *)
LEMMA MemoryFound ==
    ASSUME FrameInv, FoundInv, frame.pc \in Creating, UNCHANGED <<busVars, user>>,
           OutOfMemory, attempt_ends("memory")
    PROVE  FoundInv'
<1>1. WatchInv' /\ watch'.nomem /\ watch'.ready = watch.ready
    BY DEF FoundInv, WatchInv, OutOfMemory
<1>2. CASE frame.call = "port" /\ ~Composite
    <2>1. /\ frame' = [pc |-> "port", call |-> "port", want |-> frame.want,
                       composite |-> FALSE, first |-> "memory", list_index |-> 0,
                       todo |-> {}, node |-> NULL, inst |-> 0]
          /\ result' = result
        BY <1>2 DEF attempt_ends, Continue, IdleFrame
    <2>2. result = NoResult
        BY CreatingFacts
    <2>3. watch.ready => Ready(frame.call, frame.want, frame.composite)
        BY DEF FoundInv, ReadyInv
    <2>4. watch.ready => Ready("port", frame.want, FALSE)'
        BY <1>2, <2>3, SameReady DEF Ready, Composite
    <2>5. frame'.pc = "port" /\ frame'.call = "port" /\ frame'.want = frame.want
          /\ frame'.composite = FALSE
        BY <2>1
    <2>6. ReadyInv'
        BY <1>1, <2>4, <2>5 DEF ReadyInv, Aimed, Again
    <2>. QED
        BY <1>1, <2>1, <2>2, <2>6 DEF FoundInv, NotReadyIsTrue, ReadyInterfaceIsCreated,
               NoResult
<1>3. CASE ~(frame.call = "port" /\ ~Composite)
    <2>1. Returns(IF Again THEN frame.first ELSE "memory")
        BY <1>3 DEF attempt_ends
    <2>2. frame'.pc = "idle" /\ result'.error # "not_ready"
        BY <2>1, CreatingFacts DEF Returns, IdleFrame, Again
    <2>3. "idle" \notin Creating
        BY DEF Creating, Walking, Asking, OfInterface, OfPort
    <2>. QED
        BY <1>1, <2>2, <2>3 DEF FoundInv, ReadyInv, NotReadyIsTrue, ReadyInterfaceIsCreated
<1>. QED
    BY <1>2, <1>3

(* Where the attempt in progress looks, when the interface is ready. *)
LEMMA ReadyTarget ==
    ASSUME FrameInv, FoundInv, frame.pc \in Creating, watch.ready,
           Again => ~watch.nomem /\ ~watch.vanished
    PROVE  \/ Aimed /\ (~Composite => TargetNode \in UsbDevices)
           \/ /\ frame.call = "port" /\ ~Composite
              /\ HasPortName(<<device_instance_id, 0>>)
<1>1. /\ Ready(frame.call, frame.want, frame.composite)
      /\ Again => Good(TargetNode)
    BY DEF FoundInv, ReadyInv
<1>2. CASE Again
    BY <1>1, <1>2 DEF Aimed, Composite
<1>3. CASE ~Again /\ frame.composite
    <2>1. TargetNode = <<device_instance_id, frame.want>> /\ Composite
        BY <1>3 DEF TargetNode, Composite, interface_number
    <2>. QED
        BY <1>1, <1>3, <2>1 DEF Ready, Good, Aimed, device_instance_id
<1>4. CASE ~Again /\ ~frame.composite
    <2>1. TargetNode = <<device_instance_id, WholeDevice>> /\ ~Composite
        BY <1>4 DEF TargetNode, Composite
    <2>. QED
        BY <1>1, <1>4, <2>1 DEF Ready, Good, Aimed, device_instance_id
<1>. QED
    BY <1>2, <1>3, <1>4

(***************************************************************************)
(* A search fails.  It may do so where the attempt has nothing to find or  *)
(* was hindered, and with NOT_READY only where it has nothing to find.     *)
(***************************************************************************)
LEMMA FailFound ==
    ASSUME FrameInv, FoundInv, frame.pc \in Creating, UNCHANGED busVars,
           NEW error \in {"other", "not_ready"}, NEW S, Fail(error, S),
           frame.call = "port" /\ ~Composite => error = "other",
           ~(/\ Aimed /\ (~Composite => TargetNode \in UsbDevices)
             /\ ~watch.nomem /\ ~watch.vanished),
           error = "not_ready" => ~Aimed
    PROVE  FoundInv'
<1>1. CASE OutOfMemory /\ attempt_ends("memory")
    BY <1>1, MemoryFound DEF Fail
<1>2. CASE Allocates /\ attempt_ends(error)
    <2>0. WatchInv' /\ watch' = watch /\ user' = user
        BY <1>2 DEF FoundInv, WatchInv, Allocates, Fail
    <2>1. CASE frame.call = "port" /\ ~Composite
        <3>1. /\ frame' = [pc |-> "port", call |-> "port", want |-> frame.want,
                           composite |-> FALSE, first |-> error, list_index |-> 0,
                           todo |-> {}, node |-> NULL, inst |-> 0]
              /\ result' = result
            BY <1>2, <2>1 DEF attempt_ends, Continue, IdleFrame
        <3>2. result = NoResult /\ ~Again
            BY <2>1, CreatingFacts DEF Composite
        <3>3. watch.ready => Ready(frame.call, frame.want, frame.composite)
            BY DEF FoundInv, ReadyInv
        <3>4. watch.ready => Ready("port", frame.want, FALSE)'
            BY <2>0, <2>1, <3>3, SameReady DEF Ready, Composite
        <3>5. /\ frame'.pc = "port" /\ frame'.call = "port" /\ frame'.want = frame.want
              /\ frame'.composite = FALSE
            BY <3>1
        <3>6. watch.ready /\ ~watch.nomem /\ ~watch.vanished => Good(TargetNode)'
            <4>1. Again' /\ TargetNode' = <<device_instance_id, 0>>
                BY <2>0, <2>1, <3>1 DEF Again, TargetNode, Composite, interface_number,
                       device_instance_id
            <4>2. watch.ready /\ ~watch.nomem /\ ~watch.vanished =>
                    HasPortName(<<device_instance_id, 0>>)
                BY <3>2, ReadyTarget
            <4>. QED
                BY <3>5, <4>1, <4>2, SameBus DEF Good
        <3>7. ReadyInv'
            BY <2>0, <3>4, <3>5, <3>6 DEF ReadyInv
        <3>. QED
            BY <2>0, <3>1, <3>2, <3>7 DEF FoundInv, NotReadyIsTrue, ReadyInterfaceIsCreated,
                   NoResult
    <2>2. CASE ~(frame.call = "port" /\ ~Composite)
        <3>1. Returns(IF Again THEN frame.first ELSE error)
            BY <1>2, <2>2 DEF attempt_ends
        <3>2. frame'.pc = "idle" /\ result'.error = IF Again THEN frame.first ELSE error
            BY <3>1 DEF Returns, IdleFrame
        <3>3. "idle" \notin Creating
            BY DEF Creating, Walking, Asking, OfInterface, OfPort
        <3>4. watch.ready => watch.nomem \/ watch.vanished
            BY <2>2, ReadyTarget
        <3>5. result'.error = "not_ready" => ~watch.ready
            BY <2>2, <3>2, ReadyTarget, CreatingFacts DEF Again
        <3>. QED
            BY <2>0, <3>2, <3>3, <3>4, <3>5 DEF FoundInv, ReadyInv, NotReadyIsTrue,
                   ReadyInterfaceIsCreated
    <2>. QED
        BY <2>1, <2>2
<1>. QED
    BY <1>1, <1>2 DEF Fail

(* A step from one place of a search to another. *)
LEMMA MoveFound ==
    ASSUME FrameInv, FoundInv, frame.pc \in Creating, user' = user, watch' = watch,
           NEW pc, NEW list_index, NEW todo, NEW node, NEW inst,
           Moves(pc, list_index, todo, node, inst),
           Aimed /\ pc = "next_list" =>
               \/ list_index = 0
               \/ list_index = 1 /\ Service(TargetNode) = "ftdi",
           Aimed /\ pc = "entry" =>
               \/ list_index = 0 /\ Service(TargetNode) = "ftdi"
               \/ list_index \in {0, 1} /\ TargetNode \in todo,
           pc = "entry" /\ ~watch.vanished => todo \subseteq DevNodes
    PROVE  FoundInv'
<1>1. /\ frame'.pc = pc /\ frame'.call = frame.call /\ frame'.want = frame.want
      /\ frame'.composite = frame.composite /\ frame'.first = frame.first
      /\ frame'.list_index = list_index /\ frame'.todo = todo
      /\ UNCHANGED busVars /\ result' = NoResult
    BY CreatingFacts DEF Moves
<1>2. /\ (Again <=> Again') /\ TargetNode' = TargetNode
    BY <1>1 DEF Composite, Again, TargetNode, interface_number, device_instance_id
<1>3. /\ Good(TargetNode)' <=> Good(TargetNode)
      /\ Service(TargetNode)' = Service(TargetNode) /\ DevNodes' = DevNodes
      /\ Ready(frame.call, frame.want, frame.composite)'
             <=> Ready(frame.call, frame.want, frame.composite)
    <2>1. Service(TargetNode)' = Service(TargetNode) /\ DevNodes' = DevNodes
        BY <1>1, <1>2, SameBus, SameService
    <2>2. Good(TargetNode)' <=> Good(TargetNode)
        BY <1>1, <1>2, <2>1, SameBus DEF Good
    <2>3. \A call, want, composite :
            Ready(call, want, composite)' <=> Ready(call, want, composite)
        <3>1. UNCHANGED busVars /\ user' = user
            BY <1>1
        <3>. QED
            BY ZenonT(40), <3>1, SameReady
    <2>. QED
        BY <1>1, <2>1, <2>2, <2>3
<1>4. Aimed' <=> Aimed
    BY <1>2, <1>3 DEF Aimed
<1>5. ReadyInv'
    BY <1>1, <1>2, <1>3, <1>4 DEF ReadyInv, FoundInv
<1>. QED
    BY <1>1, <1>5 DEF FoundInv, WatchInv, NotReadyIsTrue, ReadyInterfaceIsCreated, NoResult

(* What a search that is aimed right can rely on. *)
LEMMA AimedFacts ==
    ASSUME NamesInv, FrameInv, frame.pc \in Creating, Aimed
    PROVE  /\ TargetNode \in DevNodes
           /\ PortsOf(device_instance_id) # {}
           /\ Service(TargetNode) # NoDriver
           /\ frame.call = "interface" =>
                  HasWinUsbFile(TargetNode) /\ Service(TargetNode) = "winusb"
           /\ frame.call = "port" => HasPortName(TargetNode)
           /\ Service(TargetNode) = "ftdi" => HasPortName(TargetNode)
<1>1. Good(TargetNode) /\ frame.call \in {"interface", "port"}
    BY CreatingFacts DEF Aimed
<1>2. /\ frame.call = "interface" =>
             HasWinUsbFile(TargetNode) /\ Service(TargetNode) = "winusb"
      /\ frame.call = "port" => HasPortName(TargetNode)
      /\ Registered(TargetNode)
    BY <1>1 DEF Good, HasWinUsbFile, HasPortName
<1>3. TargetNode \in DevNodes
    BY <1>2 DEF Registered
<1>4. PortsOf(TargetNode[1]) # {}
    BY <1>3, NodeFacts
<1>5. TargetNode[1] = device_instance_id
    BY DEF TargetNode
<1>6. Service(TargetNode) # NoDriver
    <2>1. Service(TargetNode) = driver[Entry(TargetNode)] /\ Entry(TargetNode) \in ttys
        BY <1>2 DEF Registered, Service
    <2>. QED
        BY <2>1 DEF NamesInv
<1>7. Service(TargetNode) = "ftdi" => HasPortName(TargetNode)
    BY <1>1, <1>2
<1>. QED
    BY <1>2, <1>3, <1>4, <1>5, <1>6, <1>7

LEMMA CreateBeginFound ==
    ASSUME CoreInv, FoundInv, create_begin, UNCHANGED busVars
    PROVE  FoundInv'
<1>0. FrameInv /\ frame.pc \in Creating /\ frame.pc \in {"interface", "port"}
    BY DEF create_begin, CoreInv, Creating
<1>1. CASE /\ Allocates
           /\ Continue([frame EXCEPT !.pc = IF Composite THEN "locate" ELSE "usb_devices"])
           /\ UNCHANGED user
    <2>. DEFINE pc == IF Composite THEN "locate" ELSE "usb_devices"
    <2>1. Moves(pc, frame.list_index, frame.todo, frame.node, frame.inst)
        BY <1>0, <1>1 DEF Moves, Continue, FrameInv
    <2>2. user' = user /\ watch' = watch /\ pc \notin {"next_list", "entry"}
        BY <1>1 DEF Allocates
    <2>. HIDE DEF pc
    <2>. QED
        BY <1>0, <2>1, <2>2, MoveFound
<1>2. CASE NoMemory({})
    BY <1>0, <1>2, MemoryFound DEF NoMemory
<1>. QED
    BY <1>1, <1>2 DEF create_begin

LEMMA NonCompositeFound ==
    ASSUME CoreInv, FoundInv, get_interface_non_composite, UNCHANGED busVars
    PROVE  FoundInv'
<1>0. /\ FrameInv /\ frame.pc \in Creating /\ ~Composite
    BY DEF get_interface_non_composite, CoreInv, FrameInv, Creating, Walking
<1>1. CASE NoMemory({frame.call})
    BY <1>0, <1>1, MemoryFound DEF NoMemory
<1>2. CASE /\ <<device_instance_id, WholeDevice>> \notin UsbDevices
           /\ Fail("other", {frame.call})
    <2>1. TargetNode \notin UsbDevices
        BY <1>0, <1>2 DEF TargetNode
    <2>. QED
        BY <1>0, <1>2, <2>1, FailFound
<1>3. CASE /\ Allocates
           /\ Continue([frame EXCEPT !.pc = "id_string",
                                     !.node = <<device_instance_id, WholeDevice>>])
           /\ UNCHANGED user
    <2>1. Moves("id_string", frame.list_index, frame.todo,
                <<device_instance_id, WholeDevice>>, frame.inst)
        BY <1>0, <1>3 DEF Moves, Continue, FrameInv
    <2>. QED
        BY <1>0, <1>3, <2>1, MoveFound DEF Allocates
<1>. QED
    BY <1>1, <1>2, <1>3 DEF get_interface_non_composite

LEMMA LocateFound ==
    ASSUME NamesInv, CoreInv, FoundInv, locate_devnode, UNCHANGED busVars
    PROVE  FoundInv'
<1>0. FrameInv /\ frame.pc \in Creating /\ frame.list_index = 0 /\ Composite
    BY DEF locate_devnode, CoreInv, FrameInv, Creating, Walking
<1>1. CASE PortsOf(device_instance_id) = {} /\ Fail("other", {frame.call})
    <2>1. ~Aimed
        BY <1>0, <1>1, AimedFacts
    <2>. QED
        BY <1>0, <1>1, <2>1, FailFound
<1>2. CASE Proceed([frame EXCEPT !.pc = "next_list"])
    <2>1. Moves("next_list", 0, frame.todo, frame.node, frame.inst)
        BY <1>0, <1>2 DEF Moves, Continue, Proceed, FrameInv
    <2>. QED
        BY <1>0, <1>2, <2>1, MoveFound DEF Allocates, Proceed
<1>. QED
    BY <1>1, <1>2 DEF locate_devnode

LEMMA NextListFound ==
    ASSUME NamesInv, CoreInv, FoundInv, next_list, UNCHANGED busVars
    PROVE  FoundInv'
<1>0. /\ FrameInv /\ frame.pc = "next_list" /\ frame.pc \in Creating
      /\ frame.list_index \in 0..3 /\ Composite
    BY DEF next_list, CoreInv, FrameInv, Creating, Walking
<1>a. Aimed => \/ frame.list_index = 0
               \/ frame.list_index = 1 /\ Service(TargetNode) = "ftdi"
    BY <1>0 DEF FoundInv, ReadyInv
<1>1. CASE frame.list_index = 3 /\ Fail("not_ready", {frame.call})
    BY <1>0, <1>a, <1>1, FailFound
<1>2. CASE NoMemory({frame.call})
    BY <1>0, <1>2, MemoryFound DEF NoMemory
<1>3. CASE /\ frame.list_index < 3
           /\ Allocates
           /\ Continue([frame EXCEPT !.pc = "entry", !.todo = ClassDevs(frame.list_index)])
           /\ UNCHANGED user
    <2>1. Moves("entry", frame.list_index, ClassDevs(frame.list_index), frame.node, frame.inst)
        BY <1>0, <1>3 DEF Moves, Continue, FrameInv
    <2>2. ClassDevs(frame.list_index) \subseteq DevNodes
        BY <1>0, <1>3 DEF ClassDevs
    <2>3. Aimed => \/ frame.list_index = 0 /\ Service(TargetNode) = "ftdi"
                   \/ /\ frame.list_index \in {0, 1}
                      /\ TargetNode \in ClassDevs(frame.list_index)
        <3>1. CASE frame.list_index = 0
            BY <1>0, <3>1, AimedFacts DEF ClassDevs
        <3>2. CASE frame.list_index # 0
            BY <1>0, <1>a, <3>2, AimedFacts DEF ClassDevs
        <3>. QED
            BY <3>1, <3>2
    <2>. QED
        BY <1>0, <1>3, <2>1, <2>2, <2>3, MoveFound DEF Allocates
<1>. QED
    BY <1>1, <1>2, <1>3 DEF next_list, list_count

LEMMA EntryFound ==
    ASSUME CoreInv, FoundInv, NEW n, get_interface_composite(n), UNCHANGED busVars
    PROVE  FoundInv'
<1>0. /\ FrameInv /\ frame.pc = "entry" /\ frame.pc \in Creating
      /\ frame.list_index \in 0..2 /\ Composite /\ n \in frame.todo
    BY DEF get_interface_composite, CoreInv, FrameInv, Creating, Walking
<1>a. /\ Aimed => \/ frame.list_index = 0 /\ Service(TargetNode) = "ftdi"
                  \/ frame.list_index \in {0, 1} /\ TargetNode \in frame.todo
      /\ ~watch.vanished => frame.todo \subseteq DevNodes
    BY <1>0 DEF FoundInv, ReadyInv
<1>1. CASE n \notin DevNodes /\ entry_gone
    <2>1. watch.vanished
        BY <1>0, <1>a, <1>1
    <2>. QED
        BY <1>0, <1>1, <2>1, FailFound DEF entry_gone
<1>2. CASE ~is_wanted(n) /\ Proceed([frame EXCEPT !.todo = @ \ {n}])
    <2>1. Moves("entry", frame.list_index, frame.todo \ {n}, frame.node, frame.inst)
        BY <1>0, <1>2 DEF Moves, Continue, Proceed, FrameInv
    <2>2. n # TargetNode
        BY <1>0, <1>2 DEF is_wanted, TargetNode
    <2>3. Aimed => \/ frame.list_index = 0 /\ Service(TargetNode) = "ftdi"
                   \/ frame.list_index \in {0, 1} /\ TargetNode \in frame.todo \ {n}
        BY <1>a, <2>2
    <2>4. ~watch.vanished => frame.todo \ {n} \subseteq DevNodes
        BY <1>a
    <2>5. user' = user /\ watch' = watch
        BY <1>2 DEF Proceed, Allocates
    <2>. QED
        BY <1>0, <2>1, <2>3, <2>4, <2>5, MoveFound
<1>3. CASE Proceed([frame EXCEPT !.pc = "id_string", !.todo = {}, !.node = n])
    <2>1. Moves("id_string", frame.list_index, {}, n, frame.inst)
        BY <1>0, <1>3 DEF Moves, Continue, Proceed, FrameInv
    <2>. QED
        BY <1>0, <1>3, <2>1, MoveFound DEF Allocates, Proceed
<1>. QED
    BY <1>1, <1>2, <1>3 DEF get_interface_composite

LEMMA ListDoneFound ==
    ASSUME CoreInv, FoundInv, list_done, UNCHANGED busVars
    PROVE  FoundInv'
<1>0. /\ FrameInv /\ frame.pc = "entry" /\ frame.pc \in Creating
      /\ frame.list_index \in 0..2 /\ frame.todo = {}
    BY DEF list_done, CoreInv, FrameInv, Creating, Walking
<1>1. Aimed => frame.list_index = 0 /\ Service(TargetNode) = "ftdi"
    BY <1>0 DEF FoundInv, ReadyInv
<1>2. Moves("next_list", frame.list_index + 1, frame.todo, frame.node, frame.inst)
    BY <1>0 DEF Moves, Continue, list_done, FrameInv
<1>3. user' = user /\ watch' = watch
    BY DEF list_done, Allocates
<1>4. Aimed => \/ frame.list_index + 1 = 0
               \/ frame.list_index + 1 = 1 /\ Service(TargetNode) = "ftdi"
    BY <1>1
<1>. QED
    BY <1>0, <1>2, <1>3, <1>4, MoveFound

(* The next question, and the last answer. *)
LEMMA AskFound ==
    ASSUME CoreInv, FoundInv, frame.pc \in Asking, user' = user, UNCHANGED busVars, Allocates,
           NEW pc \in Asking, Continue([frame EXCEPT !.pc = pc])
    PROVE  FoundInv'
<1>1. Moves(pc, frame.list_index, frame.todo, frame.node, frame.inst)
    BY DEF Moves, Continue, CoreInv, FrameInv
<1>2. pc \notin {"next_list", "entry"}
    BY DEF Asking, OfInterface, OfPort
<1>. QED
    BY <1>1, <1>2, AskingFacts, MoveFound DEF Allocates

LEMMA AnswerFound ==
    ASSUME FoundInv, Allocates, Returns("none")
    PROVE  FoundInv'
<1>1. WatchInv' /\ frame'.pc = "idle" /\ result'.error = "none"
    BY DEF FoundInv, WatchInv, Allocates, Returns, IdleFrame
<1>2. "idle" \notin Creating
    BY DEF Creating, Walking, Asking, OfInterface, OfPort
<1>. QED
    BY <1>1, <1>2, OtherFound

(* A question fails that a node which is ready would have answered. *)
LEMMA AskFails ==
    ASSUME NamesInv, CoreInv, FoundInv, frame.pc \in Asking, UNCHANGED busVars,
           NEW error \in {"other", "not_ready"}, NEW S, Fail(error, S),
           frame.call = "port" => error = "other",
           \/ frame.node \notin DevNodes
           \/ frame.call = "interface" /\ ~HasWinUsbFile(frame.node)
           \/ frame.call = "interface" /\ Service(frame.node) # "winusb"
           \/ frame.call = "port" /\ ~HasPortName(frame.node)
    PROVE  FoundInv'
<1>1. FrameInv /\ frame.pc \in Creating /\ frame.node = TargetNode
    BY AskingFacts
<1>2. ~Aimed
    BY <1>1, AimedFacts
<1>. QED
    BY <1>1, <1>2, FailFound

LEMMA AskNoMemory ==
    ASSUME CoreInv, FoundInv, frame.pc \in Asking, UNCHANGED <<busVars, user>>,
           OutOfMemory, attempt_ends("memory")
    PROVE  FoundInv'
BY AskingFacts, MemoryFound

LEMMA QuestionsFound ==
    ASSUME NamesInv, CoreInv, FoundInv, UNCHANGED busVars,
           \/ create_id_string \/ check_driver_installation
           \/ get_first_device_interface_guid \/ get_filename_list \/ get_filename_detail
           \/ open_port_key \/ get_port_name
    PROVE  FoundInv'
<1>0. {"id_string", "service", "guid", "filename", "detail", "port_name", "port_key"} = Asking
    BY DEF Asking, OfInterface, OfPort
<1>a. ASSUME NEW S, frame.pc \in Asking, NoMemory(S) PROVE FoundInv'
    BY <1>a, AskNoMemory DEF NoMemory
<1>b. ASSUME NEW pc \in Asking, frame.pc \in Asking, Proceed([frame EXCEPT !.pc = pc])
      PROVE  FoundInv'
    BY <1>b, AskFound DEF Proceed
<1>c. /\ frame.pc \in OfInterface => frame.call = "interface"
      /\ frame.pc \in OfPort => frame.call = "port"
    BY DEF CoreInv, FrameInv
<1>1. CASE create_id_string
    <2>1. frame.pc \in Asking
        BY <1>0, <1>1 DEF create_id_string
    <2>2. (IF frame.call = "port" THEN "port_name" ELSE "service") \in Asking
        BY <1>0
    <2>. QED
        BY <1>1, <1>a, <1>b, <2>1, <2>2 DEF create_id_string
<1>2. CASE check_driver_installation
    <2>1. frame.pc \in Asking /\ frame.pc = "service" /\ frame.call = "interface"
        BY <1>0, <1>2, <1>c DEF check_driver_installation, OfInterface
    <2>2. CASE NoMemory({"interface", "list"})
        BY <1>a, <2>1, <2>2
    <2>3. CASE frame.node \notin DevNodes /\ Fail("other", {"interface", "list"})
        BY <2>1, <2>3, AskFails
    <2>4. CASE Service(frame.node) = NoDriver /\ Fail("not_ready", {"interface", "list"})
        <3>1. ~Aimed /\ FrameInv /\ frame.pc \in Creating
            BY <2>1, <2>4, AskingFacts, AimedFacts
        <3>. QED
            BY <2>1, <2>4, <3>1, FailFound
    <2>5. CASE Proceed([frame EXCEPT !.pc = "guid"])
        BY <1>0, <1>b, <2>1, <2>5
    <2>6. CASE Service(frame.node) # "winusb" /\ Fail("other", {"interface", "list"})
        BY <2>1, <2>6, AskFails
    <2>. QED
        BY <1>2, <2>2, <2>3, <2>4, <2>5, <2>6 DEF check_driver_installation
<1>3. CASE get_first_device_interface_guid
    <2>1. frame.pc \in Asking /\ frame.call = "interface"
        BY <1>0, <1>3, <1>c DEF get_first_device_interface_guid, OfInterface
    <2>2. CASE ~HasWinUsbFile(frame.node) /\ Fail("other", {"interface", "list"})
        BY <2>1, <2>2, AskFails
    <2>3. CASE Proceed([frame EXCEPT !.pc = "filename"])
        BY <1>0, <1>b, <2>1, <2>3
    <2>4. CASE OutOfMemory /\ attempt_ends("memory") /\ UNCHANGED user
        BY <2>1, <2>4, AskNoMemory
    <2>. QED
        BY <1>3, <2>2, <2>3, <2>4 DEF get_first_device_interface_guid
<1>4. CASE get_filename_list
    <2>1. frame.pc \in Asking /\ frame.call = "interface"
        BY <1>0, <1>4, <1>c DEF get_filename_list, OfInterface
    <2>2. CASE NoMemory({"interface", "list"})
        BY <1>a, <2>1, <2>2
    <2>3. CASE ~HasWinUsbFile(frame.node) /\ Fail("not_ready", {"interface", "list"})
        BY <2>1, <2>3, AskFails
    <2>4. CASE Allocates /\ Continue([frame EXCEPT !.pc = "detail"]) /\ UNCHANGED user
        BY <1>0, <2>1, <2>4, AskFound
    <2>. QED
        BY <1>4, <2>2, <2>3, <2>4 DEF get_filename_list
<1>5. CASE get_filename_detail
    <2>1. frame.pc \in Asking /\ frame.call = "interface"
        BY <1>0, <1>5, <1>c DEF get_filename_detail, OfInterface
    <2>2. CASE NoMemory({"interface", "list"}) \/ NoMemory({"interface", "list", "inner"})
        BY <1>a, <2>1, <2>2
    <2>3. CASE ~HasWinUsbFile(frame.node) /\ Fail("other", {"interface", "list", "inner"})
        BY <2>1, <2>3, AskFails
    <2>4. CASE Allocates /\ Returns("none")
        BY <2>4, AnswerFound
    <2>. QED
        BY <1>5, <2>2, <2>3, <2>4 DEF get_filename_detail
<1>6. CASE open_port_key
    <2>1. frame.pc \in Asking
        BY <1>0, <1>6 DEF open_port_key
    <2>2. CASE frame.node \notin DevNodes /\ Fail("other", {"port", "list"})
        BY <2>1, <2>2, AskFails
    <2>3. CASE Allocates /\ Continue([frame EXCEPT !.pc = "port_key"]) /\ UNCHANGED user
        BY <1>0, <2>1, <2>3, AskFound
    <2>. QED
        BY <1>6, <2>2, <2>3 DEF open_port_key
<1>7. CASE get_port_name
    <2>1. frame.pc \in Asking /\ frame.call = "port"
        BY <1>0, <1>7, <1>c DEF get_port_name, OfPort
    <2>2. CASE NoMemory({"port", "list", "key"})
        BY <1>a, <2>1, <2>2
    <2>3. CASE ~HasPortName(frame.node) /\ Fail("other", {"port", "list", "key"})
        BY <2>1, <2>3, AskFails
    <2>4. CASE Allocates /\ Returns("none")
        BY <2>4, AnswerFound
    <2>. QED
        BY <1>7, <2>2, <2>3, <2>4 DEF get_port_name
<1>. QED
    BY <1>1, <1>2, <1>3, <1>4, <1>5, <1>6, <1>7

(* Lists and handles: no interface is looked for. *)
LEMMA ElsewhereFound ==
    ASSUME CoreInv, FoundInv, UNCHANGED busVars,
           \/ list_begin \/ (\E n \in frame.todo : try_create_device(n))
           \/ device_list_append \/ list_return \/ open_file \/ winusb_initialize
    PROVE  FoundInv'
<1>0. FrameInv /\ WatchInv
    BY DEF CoreInv, FoundInv
<1>a. {"idle", "each", "append", "winusb"} \cap Creating = {}
    BY DEF Creating, Walking, Asking, OfInterface, OfPort
<1>b. WatchInv'
    BY <1>0 DEF WatchInv, list_begin, try_create_device, device_list_append, list_return,
           open_file, winusb_initialize, Allocates, OutOfMemory, NoMemory, Fail, Proceed
<1>1. CASE \/ list_begin \/ (\E n \in frame.todo : try_create_device(n))
           \/ device_list_append \/ list_return
    <2>1. frame.pc \in {"list", "each", "append"} /\ frame.call = "list" /\ result = NoResult
        BY <1>0, <1>1 DEF FrameInv, list_begin, try_create_device, device_list_append,
               list_return
    <2>2. \/ \E pc \in {"each", "append"} : frame'.pc = pc /\ result' = result
          \/ \E error \in {"memory", "none"} : Returns(error)
        BY <1>0, <1>1 DEF FrameInv, list_begin, try_create_device, device_list_append,
               list_return, Continue, Proceed, passed_over
    <2>3. /\ frame'.pc \in {"idle", "each", "append", "winusb"}
          /\ result'.error # "not_ready"
          /\ result'.call \notin {"interface", "port"}
        BY <2>1, <2>2 DEF Returns, IdleFrame, NoResult
    <2>. QED
        BY <1>a, <1>b, <2>3, OtherFound
<1>2. CASE open_file \/ winusb_initialize
    <2>1. /\ frame.pc \in {"open", "winusb"} /\ frame.call = "open" /\ ~Again
          /\ result = NoResult
        BY <1>0, <1>2 DEF FrameInv, open_file, winusb_initialize
    <2>2. \/ frame'.pc = "winusb" /\ result' = result
          \/ \E error \in {"memory", "none", "access", "other"} :
                attempt_ends(error) \/ Returns(error)
        BY <1>0, <1>2 DEF FrameInv, open_file, winusb_initialize, Continue, NoMemory, Fail
    <2>3. ASSUME NEW error \in {"memory", "none", "access", "other"}, attempt_ends(error)
          PROVE  Returns(error)
        BY <2>1, <2>3 DEF attempt_ends
    <2>4. /\ frame'.pc \in {"idle", "each", "append", "winusb"}
          /\ result'.error # "not_ready"
          /\ result'.call \notin {"interface", "port"}
        BY <2>1, <2>2, <2>3 DEF Returns, IdleFrame, NoResult
    <2>. QED
        BY <1>a, <1>b, <2>4, OtherFound
<1>. QED
    BY <1>1, <1>2

(* The user begins a call, or does something between calls. *)
LEMMA UserFound ==
    ASSUME CoreInv, FoundInv, UserStep
    PROVE  FoundInv'
<1>0. {"idle", "list", "open"} \cap Creating = {}
    BY DEF Creating, Walking, Asking, OfInterface, OfPort
<1>1. ASSUME NEW call \in {"list", "interface", "port", "open"}, NEW want, NEW composite,
             Enter(call, want, composite)
      PROVE  FoundInv'
    <2>1. /\ frame'.pc = call /\ frame'.call = call /\ frame'.want = want
          /\ frame'.composite = composite /\ frame'.first = "none"
          /\ result' = NoResult /\ UNCHANGED <<busVars, user>>
        BY <1>1 DEF Enter, IdleFrame
    <2>2. WatchInv' /\ watch'.ready = Ready(call, want, composite)
        BY <1>1 DEF Enter, WatchInv
    <2>3. ReadyInv'
        <3>1. ASSUME call \in Creating
              PROVE  /\ call \in {"interface", "port"}
                     /\ watch'.ready => Ready(call, want, composite)'
            BY <1>0, <2>1, <2>2, <3>1, SameReady
        <3>. QED
            BY <2>1, <3>1 DEF ReadyInv, Again
    <2>. QED
        BY <2>1, <2>2, <2>3 DEF FoundInv, NotReadyIsTrue, ReadyInterfaceIsCreated, NoResult
<1>2. ASSUME NEW call \in {"none", "copy"}, Idle(call)
      PROVE  FoundInv'
    <2>1. /\ frame'.pc = "idle" /\ result'.error = "none" /\ WatchInv'
        BY <1>2 DEF Idle, NoResult, NoWatch, WatchInv
    <2>. QED
        BY <1>0, <2>1, OtherFound
<1>3. ASSUME NEW kind, copy_object_fails(kind)
      PROVE  FoundInv'
    <2>1. /\ frame'.pc = "idle" /\ result'.error = "memory" /\ result'.call = "copy"
          /\ WatchInv'
        BY <1>3 DEF copy_object_fails, NoResult, OutOfMemory, WatchInv, FoundInv
    <2>. QED
        BY <1>0, <2>1, OtherFound
<1>. QED
    BY <1>1, <1>2, <1>3 DEF UserStep, libusbp_list_connected_devices,
       libusbp_generic_interface_create, libusbp_serial_port_create,
       libusbp_generic_handle_open, list_free, free_object, copy_object, free_copy

(* Something happens on the bus while a search is aimed at a node. *)
LEMMA BusAimed ==
    ASSUME NamesInv, NamesInv', CoreInv, FoundInv, BusStep, frame.pc \in Creating
    PROVE  /\ watch'.ready /\ Again /\ ~watch'.nomem /\ ~watch'.vanished => Good(TargetNode)'
           /\ Aimed' /\ Composite => Aimed /\ Service(TargetNode)' = Service(TargetNode)
<1>0. /\ BusNext /\ UNCHANGED <<frame, user>> /\ FrameInv
      /\ frame.pc # "idle"
    BY DEF BusStep, CoreInv, Creating, Walking, Asking, OfInterface, OfPort
<1>1. /\ watch' = [watch EXCEPT
               !.stable = {s \in @ : at'[s[1]] = s[2]},
               !.vanished = @ \/ ~(DevNodes \subseteq DevNodes'),
               !.ready = @ /\ Ready(frame.call, frame.want, frame.composite)']
    BY <1>0 DEF BusStep
<1>2. /\ watch'.nomem = watch.nomem
      /\ watch'.vanished = (watch.vanished \/ ~(DevNodes \subseteq DevNodes'))
      /\ watch'.ready = (watch.ready /\ Ready(frame.call, frame.want, frame.composite)')
    BY <1>1 DEF FoundInv, WatchInv
<1>3. /\ (Composite <=> Composite') /\ (Again <=> Again') /\ TargetNode' = TargetNode
      /\ device_instance_id' = device_instance_id
    BY <1>0 DEF Composite, Again, TargetNode, interface_number, device_instance_id
<1>4. /\ watch.ready => Ready(frame.call, frame.want, frame.composite)
      /\ watch.ready /\ Again /\ ~watch.nomem /\ ~watch.vanished => Good(TargetNode)
      /\ Again => frame.call = "port" /\ ~frame.composite
    BY <1>0, CreatingFacts DEF FoundInv, ReadyInv
<1>5. ASSUME watch'.ready, Again, ~watch'.nomem, ~watch'.vanished
      PROVE  Good(TargetNode)'
    <2>1. /\ watch.ready /\ DevNodes \subseteq DevNodes'
          /\ Ready(frame.call, frame.want, frame.composite)' /\ Good(TargetNode)
        BY <1>2, <1>4, <1>5
    <2>2. /\ TargetNode = <<device_instance_id, 0>> /\ frame.call = "port"
          /\ HasPortName(TargetNode)
        BY <1>4, <1>5, <2>1 DEF TargetNode, interface_number, Composite, Good
    <2>. DEFINE whole == <<device_instance_id, WholeDevice>>
    <2>3. HasPortName(whole)' \/ HasPortName(<<device_instance_id, 0>>)'
        BY <1>0, <1>3, <1>4, <1>5, <2>1, <2>2 DEF Ready, device_instance_id
    <2>4. CASE HasPortName(<<device_instance_id, 0>>)'
        BY <1>0, <1>3, <2>2, <2>4 DEF Good
    <2>5. CASE HasPortName(whole)'
        <3>1. CASE WholeDevice = 0
            BY <1>0, <1>3, <2>2, <2>5, <3>1 DEF Good
        <3>2. CASE WholeDevice # 0
            <4>1. PICK p \in Located : /\ PortsOf(device_instance_id) = {p}
                                       /\ identity[at[p]].composite
                <5>1. Registered(TargetNode) /\ TargetNode[1] = device_instance_id
                      /\ TargetNode[2] # WholeDevice
                    BY <2>2, <3>2 DEF HasPortName
                <5>. QED
                    BY <5>1, RegisteredFacts
            <4>2. PortsOf(device_instance_id)' # {}
                <5>1. TargetNode \in DevNodes'
                    BY <2>1, <2>2 DEF HasPortName, Registered
                <5>2. PICK q \in Located' :
                        \E part \in Parts(q)' : TargetNode = <<DeviceInstanceId(q)', part>>
                    BY <5>1 DEF DevNodes
                <5>3. DeviceInstanceId(q)' = device_instance_id
                    BY <2>2, <5>2
                <5>. QED
                    BY <1>3, <5>2, <5>3 DEF PortsOf
            <4>3. /\ PortsOf(device_instance_id)' = {p}
                  /\ at'[p] = at[p] /\ identity'[at[p]] = identity[at[p]]
                <5>. DEFINE id == device_instance_id
                <5>1. p \in PortsOf(id) /\ PortsOf(id)' # {} /\ id' = id
                    BY <1>3, <4>1, <4>2
                <5>. HIDE DEF id
                <5>2. PortsOf(id)' = {p} /\ at'[p] = at[p] /\ identity'[at[p]] = identity[at[p]]
                    BY <1>0, <5>1, SameDevice
                <5>. QED
                    BY <5>2 DEF id
            <4>4. Entry(whole)'[1] = p
                BY <1>3, <4>3 DEF Entry
            <4>5. Service(whole)' = "usbccgp"
                BY <4>1, <4>3, <4>4 DEF Service
            <4>. QED
                BY <2>5, <4>5 DEF HasPortName, Registered
        <3>. QED
            BY <3>1, <3>2
    <2>. QED
        BY <2>3, <2>4, <2>5
<1>6. ASSUME Aimed', Composite
      PROVE  Aimed /\ Service(TargetNode)' = Service(TargetNode)
    <2>1. watch.ready /\ Good(TargetNode)' /\ (Again => ~watch.nomem /\ ~watch.vanished)
        BY <1>2, <1>3, <1>6 DEF Aimed
    <2>2. Good(TargetNode)
        <3>1. CASE Again
            BY <1>4, <2>1, <3>1
        <3>2. CASE ~Again
            <4>1. frame.composite /\ TargetNode = <<device_instance_id, frame.want>>
                BY <1>6, <3>2 DEF Composite, TargetNode, interface_number
            <4>. QED
                BY <1>4, <2>1, <4>1 DEF Ready, Good, device_instance_id
        <3>. QED
            BY <3>1, <3>2
    <2>3. Service(TargetNode)' = Service(TargetNode)
        <3>. DEFINE n == TargetNode
        <3>1. Registered(n) /\ Registered(n)' /\ n' = n
            BY <1>3, <2>1, <2>2 DEF Good, HasWinUsbFile, HasPortName
        <3>. HIDE DEF n
        <3>2. Service(n)' = Service(n)
            BY <1>0, <3>1, ServiceKept
        <3>. QED
            BY <3>2 DEF n
    <2>. QED
        BY <2>1, <2>2, <2>3 DEF Aimed
<1>. QED
    BY <1>5, <1>6

LEMMA BusFound ==
    ASSUME NamesInv, NamesInv', CoreInv, FoundInv, BusStep
    PROVE  FoundInv'
<1>0. /\ BusNext /\ UNCHANGED <<frame, user>> /\ FrameInv
    BY DEF BusStep, CoreInv
<1>1. CASE frame.pc = "idle"
    <2>1. result' = NoResult /\ watch' = NoWatch /\ frame'.pc = frame.pc
        BY <1>1 DEF BusStep
    <2>2. frame.pc \notin Creating
        BY <1>1 DEF Creating, Walking, Asking, OfInterface, OfPort
    <2>3. WatchInv'
        BY <2>1 DEF WatchInv, NoWatch
    <2>. QED
        BY <2>1, <2>2, <2>3, OtherFound DEF NoResult
<1>2. CASE frame.pc # "idle"
    <2>1. /\ watch' = [watch EXCEPT
                   !.stable = {s \in @ : at'[s[1]] = s[2]},
                   !.vanished = @ \/ ~(DevNodes \subseteq DevNodes'),
                   !.ready = @ /\ Ready(frame.call, frame.want, frame.composite)']
          /\ result' = NoResult
        BY <1>0, <1>2 DEF BusStep, FrameInv
    <2>2. /\ watch'.nomem = watch.nomem /\ WatchInv'
          /\ watch'.vanished = (watch.vanished \/ ~(DevNodes \subseteq DevNodes'))
          /\ watch'.ready = (watch.ready /\ Ready(frame.call, frame.want, frame.composite)')
        BY <2>1 DEF FoundInv, WatchInv
    <2>3. CASE frame.pc \notin Creating
        BY <1>0, <2>1, <2>2, <2>3, OtherFound DEF NoResult
    <2>4. CASE frame.pc \in Creating
        <3>1. /\ (Composite <=> Composite') /\ (Again <=> Again') /\ TargetNode' = TargetNode
            BY <1>0 DEF Composite, Again, TargetNode, interface_number, device_instance_id
        <3>2. frame.pc \in {"next_list", "entry"} => Composite
            BY <1>0 DEF FrameInv, Walking
        <3>3. ReadyInv
            BY DEF FoundInv
        <3>4. watch'.ready => Ready(frame.call, frame.want, frame.composite)'
            BY <2>2
        <3>5. Aimed' /\ Composite => Aimed /\ Service(TargetNode)' = Service(TargetNode)
            BY <2>4, BusAimed
        <3>6. watch'.ready /\ Again' /\ ~watch'.nomem /\ ~watch'.vanished => Good(TargetNode)'
            BY <2>4, <3>1, BusAimed
        <3>7. /\ Aimed' /\ frame'.pc = "next_list" =>
                    \/ frame'.list_index = 0
                    \/ frame'.list_index = 1 /\ Service(TargetNode)' = "ftdi"
              /\ Aimed' /\ frame'.pc = "entry" =>
                    \/ frame'.list_index = 0 /\ Service(TargetNode)' = "ftdi"
                    \/ frame'.list_index \in {0, 1} /\ TargetNode' \in frame'.todo
            BY <1>0, <2>4, <3>1, <3>2, <3>3, <3>5 DEF ReadyInv
        <3>8. frame'.pc = "entry" /\ ~watch'.vanished => frame'.todo \subseteq DevNodes'
            BY <1>0, <2>2, <2>4, <3>3 DEF ReadyInv
        <3>9. ReadyInv'
            BY <1>0, <3>4, <3>6, <3>7, <3>8 DEF ReadyInv
        <3>. QED
            BY <2>1, <2>2, <3>9 DEF FoundInv, NotReadyIsTrue, ReadyInterfaceIsCreated, NoResult
    <2>. QED
        BY <2>3, <2>4
<1>. QED
    BY <1>1, <1>2

LEMMA StutterFound ==
    ASSUME FoundInv, UNCHANGED vars
    PROVE  FoundInv'
<1>0. UNCHANGED <<busVars, frame, user, result, watch>>
    BY DEF vars
<1>1. /\ (Composite <=> Composite') /\ (Again <=> Again') /\ TargetNode' = TargetNode
    BY <1>0 DEF Composite, Again, TargetNode, interface_number, device_instance_id
<1>2. /\ DevNodes' = DevNodes /\ Service(TargetNode)' = Service(TargetNode)
      /\ Ready(frame.call, frame.want, frame.composite)'
             <=> Ready(frame.call, frame.want, frame.composite)
    BY <1>0, <1>1, SameBus, SameReady DEF Service, Entry, PortsOf, Located, DeviceInstanceId,
           busVars
<1>3. Good(TargetNode)' <=> Good(TargetNode)
    BY <1>0, <1>1, SameBus DEF Good
<1>4. Aimed' <=> Aimed
    BY <1>0, <1>1, <1>3 DEF Aimed
<1>5. ReadyInv'
    BY <1>0, <1>1, <1>2, <1>3, <1>4 DEF FoundInv, ReadyInv
<1>. QED
    BY <1>0, <1>5 DEF FoundInv, WatchInv, NotReadyIsTrue, ReadyInterfaceIsCreated

LEMMA FoundStep ==
    ASSUME NamesInv, NamesInv', CoreInv, FoundInv, [Next]_vars
    PROVE  FoundInv'
<1>1. CASE CallStep
    BY <1>1, ElsewhereFound, CreateBeginFound, NonCompositeFound, LocateFound, NextListFound,
       EntryFound, ListDoneFound, QuestionsFound DEF CallStep
<1>. QED
    BY <1>1, UserFound, BusFound, StutterFound DEF Next

-----------------------------------------------------------------------------
(***************************************************************************)
(* Every device that stays is in the list once.  The invariant about lists *)
(* in the making goes with what it says of a list that is returned.        *)
(***************************************************************************)
ListedInv == OnceInv /\ StableInv /\ ListIsComplete

LEMMA OtherListed ==
    ASSUME frame'.pc \notin {"list", "each", "append"},
           result'.call # "list" \/ result'.error # "none"
    PROVE  ListedInv'
BY DEF ListedInv, OnceInv, StableInv, ListIsComplete

(* A device that has been there all the time leads a list to its node. *)
LEMMA StableFacts ==
    ASSUME NamesInv, NEW s, s[1] \in Ports, at[s[1]] = s[2], s[2] \in nodes
    PROVE  /\ s[1] \in Located
           /\ <<DeviceInstanceId(s[1]), WholeDevice>> \in UsbDevices
           /\ <<DeviceInstanceId(s[1]), WholeDevice>> \in DevNodes
           /\ Entry(<<DeviceInstanceId(s[1]), WholeDevice>>)[1] = s[1]
<1>1. s[1] \in Located
    BY DEF NamesInv, BusInv, Connected, Located
<1>2. <<DeviceInstanceId(s[1]), WholeDevice>> \in UsbDevices
    BY <1>1 DEF UsbDevices
<1>3. <<DeviceInstanceId(s[1]), WholeDevice>> \in DevNodes
    BY <1>1, NodeExists DEF Parts
<1>4. Entry(<<DeviceInstanceId(s[1]), WholeDevice>>)[1] = s[1]
    BY <1>1, LocatedFacts DEF Entry
<1>. QED
    BY <1>1, <1>2, <1>3, <1>4

LEMMA ListBeginListed ==
    ASSUME NamesInv, CoreInv, ListedInv, list_begin, UNCHANGED busVars
    PROVE  ListedInv'
<1>0. FrameInv /\ frame.pc = "list" /\ user' = user /\ user.list = <<>> /\ result = NoResult
    BY DEF list_begin, CoreInv, FrameInv
<1>1. CASE OutOfMemory /\ Returns("memory")
    BY <1>1, OtherListed DEF Returns, IdleFrame
<1>2. CASE Allocates /\ Continue([frame EXCEPT !.pc = "each", !.todo = UsbDevices])
    <2>1. /\ frame'.pc = "each" /\ frame'.todo = UsbDevices /\ result' = NoResult
          /\ watch' = watch
        BY <1>0, <1>2 DEF Continue, FrameInv, Allocates
    <2>2. UsbDevices \subseteq Ids \X {WholeDevice}
        BY LocatedFacts DEF UsbDevices
    <2>3. OnceInv'
        BY <1>0, <2>1, <2>2 DEF OnceInv
    <2>4. StableInv'
        <3>1. ASSUME NEW s \in watch.stable
              PROVE  /\ s[1] \in Ports /\ at'[s[1]] = s[2] /\ s[2] \in nodes'
                     /\ <<DeviceInstanceId(s[1])', WholeDevice>> \in frame'.todo
            <4>1. s[1] \in Ports /\ at[s[1]] = s[2] /\ s[2] \in nodes
                BY <1>0 DEF ListedInv, StableInv
            <4>. QED
                BY <2>1, <4>1, StableFacts DEF busVars, DeviceInstanceId
        <3>. QED
            BY <2>1, <3>1 DEF StableInv
    <2>. QED
        BY <2>1, <2>3, <2>4 DEF ListedInv, ListIsComplete, NoResult
<1>. QED
    BY <1>1, <1>2 DEF list_begin

LEMMA TryCreateListed ==
    ASSUME NamesInv, CoreInv, WatchInv, ListedInv, NEW n, try_create_device(n), UNCHANGED busVars
    PROVE  ListedInv'
<1>0. /\ FrameInv /\ frame.pc = "each" /\ user' = user /\ result = NoResult /\ n \in frame.todo
      /\ OnceInv /\ StableInv /\ frame.todo \subseteq Ids \X {WholeDevice}
      /\ UNCHANGED <<at, identity, nodes>>
    BY DEF try_create_device, CoreInv, FrameInv, ListedInv, OnceInv, Proceed, busVars
<1>a. \A p : DeviceInstanceId(p)' = DeviceInstanceId(p)
    BY <1>0 DEF DeviceInstanceId
<1>1. CASE /\ Continue(passed_over(n))
           /\ \/ n \notin DevNodes /\ watch' = watch
              \/ watch' = [watch EXCEPT !.nomem = TRUE]
    <2>1. /\ frame'.pc = "each" /\ frame'.todo = frame.todo \ {n} /\ result' = NoResult
        BY <1>0, <1>1 DEF Continue, FrameInv, passed_over
    <2>2. OnceInv'
        BY <1>0, <2>1 DEF OnceInv
    <2>3. /\ watch'.stable = watch.stable
          /\ watch'.nomem \/ n \notin DevNodes
          /\ ~watch'.nomem => ~watch.nomem
        BY <1>1 DEF WatchInv
    <2>4. StableInv'
        <3>1. ASSUME NEW s \in watch.stable
              PROVE  /\ s[1] \in Ports /\ at[s[1]] = s[2] /\ s[2] \in nodes
                     /\ ~watch'.nomem =>
                          \/ <<DeviceInstanceId(s[1]), WholeDevice>> \in frame'.todo
                          \/ \E k \in DOMAIN user.list : user.list[k].inst = s[2]
            <4>1. /\ s[1] \in Ports /\ at[s[1]] = s[2] /\ s[2] \in nodes
                  /\ ~watch.nomem =>
                          \/ <<DeviceInstanceId(s[1]), WholeDevice>> \in frame.todo
                          \/ \E k \in DOMAIN user.list : user.list[k].inst = s[2]
                BY <1>0 DEF StableInv
            <4>2. <<DeviceInstanceId(s[1]), WholeDevice>> \in DevNodes
                BY <4>1, StableFacts
            <4>. QED
                BY <2>1, <2>3, <4>1, <4>2
        <3>. QED
            BY <1>0, <1>a, <2>1, <2>3, <3>1 DEF StableInv
    <2>. QED
        BY <2>1, <2>2, <2>4 DEF ListedInv, ListIsComplete, NoResult
<1>2. CASE /\ n \in DevNodes
           /\ Allocates
           /\ Continue([passed_over(n) EXCEPT !.pc = "append", !.node = n,
                                              !.inst = at[Entry(n)[1]]])
    <2>1. /\ frame'.pc = "append" /\ frame'.todo = frame.todo \ {n} /\ result' = NoResult
          /\ frame'.node = n /\ frame'.inst = at[Entry(n)[1]] /\ watch' = watch
        BY <1>0, <1>2 DEF Continue, FrameInv, passed_over, Allocates
    <2>2. n = <<n[1], WholeDevice>>
        BY <1>0
    <2>3. OnceInv'
        <3>1. \A k \in DOMAIN user.list : user.list[k].id # n[1]
            BY <1>0, <2>2 DEF OnceInv
        <3>. QED
            BY <1>0, <2>1, <2>2, <3>1 DEF OnceInv
    <2>4. StableInv'
        <3>1. ASSUME NEW s \in watch.stable
              PROVE  /\ s[1] \in Ports /\ at[s[1]] = s[2] /\ s[2] \in nodes
                     /\ ~watch.nomem =>
                          \/ <<DeviceInstanceId(s[1]), WholeDevice>> \in frame'.todo
                          \/ frame'.inst = s[2]
                          \/ \E k \in DOMAIN user.list : user.list[k].inst = s[2]
            <4>1. /\ s[1] \in Ports /\ at[s[1]] = s[2] /\ s[2] \in nodes
                  /\ ~watch.nomem =>
                          \/ <<DeviceInstanceId(s[1]), WholeDevice>> \in frame.todo
                          \/ \E k \in DOMAIN user.list : user.list[k].inst = s[2]
                BY <1>0 DEF StableInv
            <4>2. Entry(<<DeviceInstanceId(s[1]), WholeDevice>>)[1] = s[1]
                BY <4>1, StableFacts
            <4>. QED
                BY <2>1, <4>1, <4>2
        <3>. QED
            BY <1>0, <1>a, <2>1, <3>1 DEF StableInv
    <2>. QED
        BY <2>1, <2>3, <2>4 DEF ListedInv, ListIsComplete, NoResult
<1>. QED
    BY <1>1, <1>2 DEF try_create_device, Proceed, Allocates, OutOfMemory

LEMMA AppendListed ==
    ASSUME NamesInv, CoreInv, ListedInv, device_list_append, UNCHANGED busVars
    PROVE  ListedInv'
<1>0. /\ FrameInv /\ UserType /\ frame.pc = "append" /\ result = NoResult
      /\ OnceInv /\ StableInv /\ UNCHANGED <<at, identity, nodes>>
    BY CoreTypes DEF device_list_append, CoreInv, FrameInv, ListedInv, busVars
<1>a. \A p : DeviceInstanceId(p)' = DeviceInstanceId(p)
    BY <1>0 DEF DeviceInstanceId
<1>1. CASE OutOfMemory /\ Returns("memory")
    BY <1>1, OtherListed DEF Returns, IdleFrame
<1>2. CASE /\ Allocates
           /\ user' = [user EXCEPT !.list = Append(@, NewDevice)]
           /\ Continue([frame EXCEPT !.pc = "each", !.node = NULL, !.inst = 0])
    <2>1. /\ frame'.pc = "each" /\ frame'.todo = frame.todo /\ result' = NoResult
          /\ watch' = watch
        BY <1>0, <1>2 DEF Continue, FrameInv, Allocates
    <2>2. /\ user.list \in Seq(Device) /\ Len(user.list) \in Nat
          /\ DOMAIN user.list = 1..Len(user.list)
        BY <1>0 DEF UserType
    <2>3. user'.list = Append(user.list, NewDevice)
        BY <1>0, <1>2 DEF UserType
    <2>4. /\ DOMAIN user'.list = 1..(Len(user.list) + 1)
          /\ \A k \in DOMAIN user.list : k \in DOMAIN user'.list /\ user'.list[k] = user.list[k]
          /\ user'.list[Len(user.list) + 1] = NewDevice
          /\ \A k \in DOMAIN user'.list : k \in DOMAIN user.list \/ k = Len(user.list) + 1
        BY <2>2, <2>3
    <2>5. NewDevice.id = frame.node[1] /\ NewDevice.inst = frame.inst
        BY DEF NewDevice, DeviceFields
    <2>6. OnceInv'
        <3>1. ASSUME NEW k \in DOMAIN user'.list
              PROVE  <<user'.list[k].id, WholeDevice>> \notin frame.todo
            BY ZenonT(40), <1>0, <2>4, <2>5 DEF OnceInv
        <3>2. ASSUME NEW j \in DOMAIN user'.list, NEW k \in DOMAIN user'.list,
                     user'.list[j].id = user'.list[k].id
              PROVE  j = k
            BY SMTT(40), <1>0, <2>4, <2>5, <3>2 DEF OnceInv
        <3>3. frame.todo \subseteq Ids \X {WholeDevice}
            BY <1>0 DEF OnceInv
        <3>. QED
            BY <2>1, <3>1, <3>2, <3>3 DEF OnceInv
    <2>7. StableInv'
        <3>1. ASSUME NEW s \in watch.stable
              PROVE  /\ s[1] \in Ports /\ at[s[1]] = s[2] /\ s[2] \in nodes
                     /\ ~watch.nomem =>
                          \/ <<DeviceInstanceId(s[1]), WholeDevice>> \in frame.todo
                          \/ \E k \in DOMAIN user'.list : user'.list[k].inst = s[2]
            <4>1. /\ s[1] \in Ports /\ at[s[1]] = s[2] /\ s[2] \in nodes
                  /\ ~watch.nomem =>
                          \/ <<DeviceInstanceId(s[1]), WholeDevice>> \in frame.todo
                          \/ frame.inst = s[2]
                          \/ \E k \in DOMAIN user.list : user.list[k].inst = s[2]
                BY <1>0 DEF StableInv
            <4>2. Len(user.list) + 1 \in DOMAIN user'.list
                BY <2>2, <2>4
            <4>. QED
                BY <2>4, <2>5, <4>1, <4>2
        <3>. QED
            BY <1>0, <1>a, <2>1, <3>1 DEF StableInv
    <2>. QED
        BY <2>1, <2>6, <2>7 DEF ListedInv, ListIsComplete, NoResult
<1>. QED
    BY <1>1, <1>2 DEF device_list_append, NewDevice

LEMMA ListReturnListed ==
    ASSUME NamesInv, CoreInv, ListedInv, list_return, UNCHANGED busVars
    PROVE  ListedInv'
<1>0. /\ frame.pc = "each" /\ frame.todo = {} /\ OnceInv /\ StableInv /\ ObjectInv
      /\ UNCHANGED <<user, watch, identity>> /\ frame'.pc = "idle"
    BY DEF list_return, CoreInv, ListedInv, busVars, Returns, IdleFrame
<1>1. ASSUME ~watch.nomem, NEW s \in watch.stable
      PROVE  Cardinality({k \in DOMAIN user.list :
                 /\ user.list[k].inst = s[2]
                 /\ Matches(user.list[k], identity[s[2]])
                 /\ user.list[k].rev = identity[s[2]].rev}) = 1
    <2>. DEFINE K == {k \in DOMAIN user.list :
                        /\ user.list[k].inst = s[2]
                        /\ Matches(user.list[k], identity[s[2]])
                        /\ user.list[k].rev = identity[s[2]].rev}
    <2>1. s[1] \in Ports /\ at[s[1]] = s[2]
        BY <1>0, <1>1 DEF StableInv
    <2>2. PICK k \in DOMAIN user.list : user.list[k].inst = s[2]
        BY <1>0, <1>1 DEF StableInv
    <2>3. k \in K
        BY <1>0, <2>2 DEF ObjectInv, Known
    <2>4. ASSUME NEW j \in K PROVE j = k
        <3>1. j \in DOMAIN user.list /\ user.list[j].inst = s[2]
            OBVIOUS
        <3>2. user.list[j].id = DeviceInstanceId(s[1]) /\ user.list[k].id = DeviceInstanceId(s[1])
            BY <1>0, <2>1, <2>2, <3>1 DEF ObjectInv, Known
        <3>. QED
            BY <1>0, <2>2, <3>1, <3>2 DEF OnceInv
    <2>. HIDE DEF K
    <2>5. K = {k}
        BY <2>3, <2>4
    <2>6. Cardinality(K) = 1
        BY <2>5, FS_Singleton
    <2>. QED
        BY <2>6 DEF K
<1>2. ListIsComplete'
    BY <1>0, <1>1 DEF ListIsComplete, Matches
<1>. QED
    BY <1>0, <1>2 DEF ListedInv, OnceInv, StableInv

(* Searches and handles: no list is made. *)
LEMMA AttemptListed ==
    ASSUME FrameInv, frame.call # "list", frame.pc # "idle", NEW error, attempt_ends(error)
    PROVE  ListedInv'
<1>1. result = NoResult
    BY DEF FrameInv
<1>2. CASE frame.call = "port" /\ ~Composite
    <2>1. frame'.pc = "port" /\ result' = result
        BY <1>2 DEF attempt_ends, Continue, IdleFrame
    <2>. QED
        BY <1>1, <2>1, OtherListed DEF NoResult
<1>3. CASE ~(frame.call = "port" /\ ~Composite)
    <2>1. frame'.pc = "idle" /\ result'.call = frame.call
        BY <1>3 DEF attempt_ends, Returns, IdleFrame
    <2>. QED
        BY <2>1, OtherListed
<1>. QED
    BY <1>2, <1>3

LEMMA SearchListed ==
    ASSUME CoreInv,
           \/ create_begin \/ get_interface_non_composite \/ locate_devnode \/ next_list
           \/ (\E n \in frame.todo : get_interface_composite(n)) \/ list_done
           \/ create_id_string \/ check_driver_installation
           \/ get_first_device_interface_guid \/ get_filename_list \/ get_filename_detail
           \/ open_port_key \/ get_port_name \/ open_file \/ winusb_initialize
    PROVE  ListedInv'
<1>0. FrameInv
    BY DEF CoreInv
<1>1. frame.pc \in Creating \cup {"open", "winusb"}
    BY DEF create_begin, get_interface_non_composite, locate_devnode, next_list,
       get_interface_composite, list_done, create_id_string, check_driver_installation,
       get_first_device_interface_guid, get_filename_list, get_filename_detail,
       open_port_key, get_port_name, open_file, winusb_initialize,
       Creating, Walking, Asking, OfInterface, OfPort
<1>2. frame.call # "list" /\ frame.pc # "idle" /\ result = NoResult
    BY <1>0, <1>1 DEF FrameInv, Creating, Walking, Asking, OfInterface, OfPort
<1>3. ASSUME NEW error, attempt_ends(error) PROVE ListedInv'
    BY <1>0, <1>2, <1>3, AttemptListed
<1>4. ASSUME Returns("none") PROVE ListedInv'
    BY <1>2, <1>4, OtherListed DEF Returns, IdleFrame
<1>5. ASSUME result' = result, frame'.pc \notin {"list", "each", "append"} PROVE ListedInv'
    BY <1>2, <1>5, OtherListed DEF NoResult
<1>7. ASSUME NEW error, NEW S, Fail(error, S) PROVE ListedInv'
    BY <1>3, <1>7 DEF Fail
<1>8. ASSUME NEW S, NoMemory(S) PROVE ListedInv'
    BY <1>3, <1>8 DEF NoMemory
<1>9. CASE create_begin
    <2>1. \/ NoMemory({})
          \/ frame'.pc \in {"locate", "usb_devices"} /\ result' = result
        BY <1>0, <1>9 DEF create_begin, Continue, FrameInv, IdleFrame
    <2>. QED
        BY <1>5, <1>8, <2>1
<1>10. CASE get_interface_non_composite
    <2>1. \/ \E S : NoMemory(S) \/ Fail("other", S)
          \/ frame'.pc = "id_string" /\ result' = result
        BY <1>0, <1>10 DEF get_interface_non_composite, Continue, FrameInv
    <2>. QED
        BY <1>5, <1>7, <1>8, <2>1
<1>11. CASE locate_devnode \/ next_list
    <2>1. \/ \E S : NoMemory(S) \/ Fail("other", S) \/ Fail("not_ready", S)
          \/ frame'.pc \in {"next_list", "entry"} /\ result' = result
        BY <1>0, <1>11 DEF locate_devnode, next_list, Proceed, Continue, FrameInv
    <2>. QED
        BY <1>5, <1>7, <1>8, <2>1
<1>12. CASE (\E n \in frame.todo : get_interface_composite(n)) \/ list_done
    <2>1. \/ \E S : Fail("other", S)
          \/ frame'.pc \in {"next_list", "entry", "id_string"} /\ result' = result
        BY <1>0, <1>12 DEF get_interface_composite, entry_gone, list_done, Proceed, Continue,
               FrameInv
    <2>. QED
        BY <1>5, <1>7, <2>1
<1>13. CASE create_id_string \/ check_driver_installation
    <2>1. \/ \E S : NoMemory(S) \/ Fail("other", S) \/ Fail("not_ready", S)
          \/ frame'.pc \in {"port_name", "service", "guid"} /\ result' = result
        BY <1>0, <1>13 DEF create_id_string, check_driver_installation, Proceed, Continue,
               FrameInv
    <2>. QED
        BY <1>5, <1>7, <1>8, <2>1
<1>14. CASE get_first_device_interface_guid \/ get_filename_list \/ get_filename_detail
    <2>1. \/ \E S : NoMemory(S) \/ Fail("other", S) \/ Fail("not_ready", S)
          \/ attempt_ends("memory") \/ Returns("none")
          \/ frame'.pc \in {"filename", "detail"} /\ result' = result
        BY <1>0, <1>14 DEF get_first_device_interface_guid, get_filename_list,
               get_filename_detail, Proceed, Continue, FrameInv
    <2>. QED
        BY <1>3, <1>4, <1>5, <1>7, <1>8, <2>1
<1>15. CASE open_port_key \/ get_port_name
    <2>1. \/ \E S : NoMemory(S) \/ Fail("other", S)
          \/ Returns("none")
          \/ frame'.pc = "port_key" /\ result' = result
        BY <1>0, <1>15 DEF open_port_key, get_port_name, Continue, FrameInv
    <2>. QED
        BY <1>4, <1>5, <1>7, <1>8, <2>1
<1>16. CASE open_file \/ winusb_initialize
    <2>1. \/ \E S : NoMemory(S) \/ Fail("other", S) \/ Fail("access", S)
          \/ Returns("none")
          \/ frame'.pc = "winusb" /\ result' = result
        BY <1>0, <1>16 DEF open_file, winusb_initialize, Continue, FrameInv
    <2>. QED
        BY <1>4, <1>5, <1>7, <1>8, <2>1
<1>. QED
    BY <1>9, <1>10, <1>11, <1>12, <1>13, <1>14, <1>15, <1>16

LEMMA UserListed ==
    ASSUME NamesInv, CoreInv, UserStep
    PROVE  ListedInv'
<1>1. ASSUME NEW call \in {"interface", "port", "open"}, NEW want, NEW composite,
             Enter(call, want, composite)
      PROVE  ListedInv'
    BY <1>1, OtherListed DEF Enter, IdleFrame, NoResult
<1>2. ASSUME Enter("list", NULL, FALSE)
      PROVE  ListedInv'
    <2>1. /\ frame'.pc = "list" /\ result' = NoResult
          /\ watch'.stable = {<<p, at[p]>> : p \in {q \in Located : at[q] \in nodes}}
          /\ UNCHANGED <<at, nodes>>
        BY <1>2 DEF Enter, IdleFrame, busVars
    <2>2. ASSUME NEW s \in watch'.stable
          PROVE  s[1] \in Ports /\ at'[s[1]] = s[2] /\ s[2] \in nodes'
        BY <2>1 DEF Located
    <2>. QED
        BY <2>1, <2>2 DEF ListedInv, OnceInv, StableInv, ListIsComplete, NoResult
<1>3. ASSUME NEW call \in {"none", "copy"}, Idle(call)
      PROVE  ListedInv'
    <2>1. frame'.pc = "idle" /\ result'.call = call
        BY <1>3 DEF Idle, NoResult
    <2>. QED
        BY <2>1, OtherListed
<1>4. ASSUME NEW kind, copy_object_fails(kind)
      PROVE  ListedInv'
    <2>1. frame'.pc = "idle" /\ result'.call = "copy"
        BY <1>4 DEF copy_object_fails, NoResult
    <2>. QED
        BY <2>1, OtherListed
<1>. QED
    BY <1>1, <1>2, <1>3, <1>4 DEF UserStep, libusbp_list_connected_devices,
       libusbp_generic_interface_create, libusbp_serial_port_create,
       libusbp_generic_handle_open, list_free, free_object, copy_object, free_copy

LEMMA BusListed ==
    ASSUME NamesInv, CoreInv, WatchInv, ListedInv, BusStep
    PROVE  ListedInv'
<1>0. BusNext /\ UNCHANGED <<frame, user>> /\ FrameInv
    BY DEF BusStep, CoreInv
<1>1. CASE frame.pc \notin {"list", "each", "append"}
    <2>1. result' = NoResult
        BY <1>0, <1>1 DEF BusStep, FrameInv
    <2>. QED
        BY <1>0, <1>1, <2>1, OtherListed DEF NoResult
<1>2. CASE frame.pc \in {"list", "each", "append"}
    <2>1. /\ result' = NoResult
          /\ watch' = [watch EXCEPT
                   !.stable = {s \in @ : at'[s[1]] = s[2]},
                   !.vanished = @ \/ ~(DevNodes \subseteq DevNodes'),
                   !.ready = @ /\ Ready(frame.call, frame.want, frame.composite)']
        BY <1>0, <1>2 DEF BusStep, FrameInv
    <2>2. /\ watch'.nomem = watch.nomem
          /\ watch'.stable = {s \in watch.stable : at'[s[1]] = s[2]}
        BY <2>1 DEF WatchInv
    <2>3. OnceInv'
        BY <1>0 DEF ListedInv, OnceInv
    <2>4. StableInv'
        <3>1. ASSUME NEW s \in watch'.stable
              PROVE  /\ s[1] \in Ports /\ at'[s[1]] = s[2] /\ s[2] \in nodes'
                     /\ frame.pc # "list" /\ ~watch.nomem =>
                          \/ <<DeviceInstanceId(s[1])', WholeDevice>> \in frame.todo
                          \/ frame.pc = "append" /\ frame.inst = s[2]
                          \/ \E k \in DOMAIN user.list : user.list[k].inst = s[2]
            <4>1. /\ s \in watch.stable /\ at'[s[1]] = s[2]
                  /\ s[1] \in Ports /\ at[s[1]] = s[2] /\ s[2] \in nodes
                  /\ frame.pc # "list" /\ ~watch.nomem =>
                          \/ <<DeviceInstanceId(s[1]), WholeDevice>> \in frame.todo
                          \/ frame.pc = "append" /\ frame.inst = s[2]
                          \/ \E k \in DOMAIN user.list : user.list[k].inst = s[2]
                BY <1>2, <2>2 DEF ListedInv, StableInv
            <4>2. s[2] \in nodes'
                BY <1>0, <4>1, BusOneChange DEF NamesInv
            <4>3. s[1] \in Located
                BY <4>1, StableFacts
            <4>4. at[s[1]] \in Instances
                BY <4>3, LocatedFacts
            <4>5. identity'[at[s[1]]] = identity[at[s[1]]]
                BY <1>0, <4>4, BusMoves DEF NamesInv
            <4>6. DeviceInstanceId(s[1])' = DeviceInstanceId(s[1])
                BY <4>1, <4>5 DEF DeviceInstanceId
            <4>. QED
                BY <4>1, <4>2, <4>6
        <3>. QED
            BY <1>0, <2>2, <3>1 DEF StableInv
    <2>. QED
        BY <2>1, <2>3, <2>4 DEF ListedInv, ListIsComplete, NoResult
<1>. QED
    BY <1>1, <1>2

LEMMA StutterListed ==
    ASSUME ListedInv, UNCHANGED vars
    PROVE  ListedInv'
<1>0. UNCHANGED <<at, identity, nodes, frame, user, result, watch>>
    BY DEF vars, busVars
<1>1. \A p : DeviceInstanceId(p)' = DeviceInstanceId(p)
    BY <1>0 DEF DeviceInstanceId
<1>2. OnceInv'
    BY <1>0 DEF ListedInv, OnceInv
<1>3. StableInv'
    BY <1>0, <1>1 DEF ListedInv, StableInv
<1>4. ListIsComplete'
    BY <1>0 DEF ListedInv, ListIsComplete, Matches
<1>. QED
    BY <1>2, <1>3, <1>4 DEF ListedInv

LEMMA ListedStep ==
    ASSUME NamesInv, CoreInv, WatchInv, ListedInv, [Next]_vars
    PROVE  ListedInv'
<1>1. CASE CallStep
    BY <1>1, ListBeginListed, TryCreateListed, AppendListed, ListReturnListed, SearchListed
       DEF CallStep
<1>. QED
    BY <1>1, UserListed, BusListed, StutterListed DEF Next

-----------------------------------------------------------------------------
(* The theorems.                                                           *)

(* The invariant with what it says of a call that has returned. *)
AccessInv == NamesInv /\ CoreInv /\ FoundInv /\ ListedInv

LEMMA AccessInit == ASSUME Init PROVE AccessInv
<1>1. NamesInv /\ CoreInv
    BY CoreInit
<1>2. frame.pc = "idle" /\ result = NoResult /\ WatchInv
    BY DEF Init, IdleFrame, WatchInv, NoWatch
<1>3. "idle" \notin Creating
    BY DEF Creating, Walking, Asking, OfInterface, OfPort
<1>. QED
    BY <1>1, <1>2, <1>3 DEF AccessInv, FoundInv, ListedInv, ReadyInv, OnceInv, StableInv,
       ListIsComplete, NotReadyIsTrue, ReadyInterfaceIsCreated, NoResult

LEMMA AccessStep == ASSUME AccessInv, [Next]_vars PROVE AccessInv'
<1>1. NamesInv' /\ CoreInv'
    BY NamesKept, CoreStep DEF AccessInv
<1>2. FoundInv'
    BY <1>1, FoundStep DEF AccessInv
<1>3. ListedInv'
    BY ListedStep DEF AccessInv, FoundInv
<1>. QED
    BY <1>1, <1>2, <1>3 DEF AccessInv

LEMMA AccessAlways == Spec => []AccessInv
<1>1. Init => AccessInv
    BY AccessInit
<1>2. AccessInv /\ [Next]_vars => AccessInv'
    BY AccessStep
<1>. QED
    BY <1>1, <1>2, PTL DEF Spec

(***************************************************************************)
(* WindowsInv is an invariant: at each place of each call, the names of    *)
(* the devices, the local variables, the objects and resources, and what   *)
(* is left of a list or a search fit together.                             *)
(***************************************************************************)
THEOREM WindowsInvariant == Spec => []WindowsInv
<1>1. AccessInv => WindowsInv
    BY DEF AccessInv, CoreInv, FoundInv, ListedInv, WindowsInv
<1>. QED
    BY <1>1, AccessAlways, PTL

(***************************************************************************)
(* NothingLeaks: between calls, each object, list, registry key and file   *)
(* belongs to an object of the user; nothing is freed twice, and nothing   *)
(* is left behind unless an allocation failed, on any path of the Windows  *)
(* files.                                                                  *)
(***************************************************************************)
THEOREM WindowsLeaksNothing == Spec => []NothingLeaks
<1>1. AccessInv => NothingLeaks
    <2>1. ASSUME AccessInv, frame.pc = "idle", NEW k \in Kinds
          PROVE  held[k] >= Owned(k) /\ (ooms = MaxOoms => held[k] = Owned(k))
        <3>1. One(k \in InUse) = 0 /\ Owned(k) \in Nat
            BY <2>1, IdleFacts DEF AccessInv
        <3>2. /\ held[k] >= Owned(k) + One(k \in InUse)
              /\ ooms = MaxOoms => held[k] = Owned(k) + One(k \in InUse)
            BY <2>1 DEF AccessInv, CoreInv, CountInv
        <3>. QED
            BY <3>1, <3>2
    <2>. QED
        BY <2>1 DEF NothingLeaks
<1>. QED
    BY <1>1, AccessAlways, PTL

(***************************************************************************)
(* OpensListedDevice: interfaces and ports have the instance id of the     *)
(* device they were made for, and a handle is open to a device with that   *)
(* vendor and product id, and to the very device if it is still connected. *)
(***************************************************************************)
THEOREM WindowsOpensListedDevice == Spec => []OpensListedDevice
<1>1. AccessInv => OpensListedDevice
    BY DEF AccessInv, CoreInv, ObjectInv, Opened, OpensListedDevice
<1>. QED
    BY <1>1, AccessAlways, PTL

(***************************************************************************)
(* NotReadyIsTrue: generic_interface_create and serial_port_create never   *)
(* answer NOT_READY for an interface that was ready all the time.          *)
(***************************************************************************)
THEOREM WindowsNotReadyIsTrue == Spec => []NotReadyIsTrue
<1>1. AccessInv => NotReadyIsTrue
    BY DEF AccessInv, FoundInv
<1>. QED
    BY <1>1, AccessAlways, PTL

(***************************************************************************)
(* ReadyInterfaceIsCreated: they succeed for an interface that was ready   *)
(* all the time while no node vanished and memory lasted.                  *)
(***************************************************************************)
THEOREM WindowsReadyIsCreated == Spec => []ReadyInterfaceIsCreated
<1>1. AccessInv => ReadyInterfaceIsCreated
    BY DEF AccessInv, FoundInv
<1>. QED
    BY <1>1, AccessAlways, PTL

(***************************************************************************)
(* ListIsComplete: libusbp_list_connected_devices has each device that was *)
(* registered during the whole of the call exactly once, with its ids.     *)
(***************************************************************************)
THEOREM WindowsListIsComplete == Spec => []ListIsComplete
<1>1. AccessInv => ListIsComplete
    BY DEF AccessInv, ListedInv
<1>. QED
    BY <1>1, AccessAlways, PTL
=============================================================================
