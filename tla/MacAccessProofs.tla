--------------------------- MODULE MacAccessProofs ---------------------------
(***************************************************************************)
(* Proofs about MacAccess, for any number of ports, devices and            *)
(* interfaces, any drivers, and any number of failed allocations.          *)
(***************************************************************************)
EXTENDS MacAccess, UsbBusProofs

-----------------------------------------------------------------------------
(* The registry.                                                           *)

(* A device in the registry is at one port. *)
LEMMA RegisteredFacts ==
    ASSUME RegistryInv, NEW n \in Registered
    PROVE  /\ n \in Instances /\ identity[n] \in Models
           /\ PortOf(n) \in Ports /\ at[PortOf(n)] = n
           /\ \A p \in Ports : at[p] = n => p = PortOf(n)
<1>1. n \in Connected /\ n # 0
    BY DEF Registered, Connected
<1>2. PICK p \in Ports : at[p] = n
    BY <1>1 DEF Connected
<1>3. PortOf(n) \in Ports /\ at[PortOf(n)] = n
    BY <1>2 DEF PortOf
<1>4. n \in Instances
    BY <1>1, ConnectedFacts DEF RegistryInv
<1>5. identity[n] \in Models
    BY <1>4 DEF RegistryInv, BusInv, BusTypeOK, Instances
<1>. QED
    BY <1>1, <1>3, <1>4, <1>5 DEF RegistryInv, BusInv

LEMMA InstanceBound ==
    ASSUME BusInv, NEW n \in Instances
    PROVE  n \in 1..MaxPlugs /\ identity[n] \in Models
<1>1. identity \in Seq(Models) /\ Len(identity) \in Nat /\ Len(identity) <= MaxPlugs
    BY DEF BusInv, BusTypeOK
<1>. QED
    BY <1>1, PlugsAssumption DEF Instances

(* What the registry has is a matter of the bus alone. *)
LEMMA SameRegistry ==
    ASSUME UNCHANGED busVars
    PROVE  /\ Registered' = Registered /\ Instances' = Instances
           /\ \A n : InterfacesOf(n)' = InterfacesOf(n) /\ SerialOf(n)' = SerialOf(n)
           /\ \A n, i : DriverOf(n, i)' = DriverOf(n, i)
           /\ \A n, i : FunctionOf(n, i)' = FunctionOf(n, i)
<1>1. Registered' = Registered /\ Instances' = Instances /\ \A n : PortOf(n)' = PortOf(n)
    BY DEF Registered, Connected, Instances, PortOf, busVars
<1>2. /\ \A n : InterfacesOf(n)' = InterfacesOf(n)
      /\ \A n, i : DriverOf(n, i)' = DriverOf(n, i)
    BY <1>1 DEF InterfacesOf, DriverOf, busVars
<1>3. \A n : SerialOf(n)' = SerialOf(n)
    BY <1>1, <1>2 DEF SerialOf, busVars
<1>4. \A n, i : FunctionOf(n, i)' = FunctionOf(n, i)
    BY <1>2 DEF FunctionOf
<1>. QED
    BY <1>1, <1>2, <1>3, <1>4

(* The interfaces of a device that stays in the registry stay. *)
LEMMA InterfacesKept ==
    ASSUME RegistryInv, RegistryInv', BusStep, NEW n \in Instances, n \in Registered'
    PROVE  InterfacesOf(n) \subseteq InterfacesOf(n)'
<1>1. CASE n \notin Registered
    BY <1>1 DEF InterfacesOf
<1>2. CASE n \in Registered
    <2>1. /\ PortOf(n) \in Ports /\ at[PortOf(n)] = n
          /\ \A p \in Ports : at[p] = n => p = PortOf(n)
        BY <1>2, RegisteredFacts
    <2>2. PICK q \in Ports : at'[q] = n
        BY DEF Registered, Connected
    <2>3. q = PortOf(n)
        BY <2>1, <2>2, BusMoves DEF RegistryInv, BusStep
    <2>4. (PortOf(n))' = q
        <3>1. /\ (PortOf(n))' \in Ports /\ at'[(PortOf(n))'] = n
            BY <2>2 DEF PortOf
        <3>. QED
            BY <3>1, <2>1, <2>3, BusMoves DEF RegistryInv, BusStep
    <2>5. ASSUME NEW i \in InterfacesOf(n) PROVE i \in InterfacesOf(n)'
        <3>1. i \in Interfaces /\ <<q, i>> \in ifaces
            BY <1>2, <2>3 DEF InterfacesOf
        <3>2. <<q, i>> \in ifaces'
            <4>1. at'[<<q, i>>[1]] = at[<<q, i>>[1]]
                BY <2>1, <2>2, <2>3
            <4>. QED
                BY <3>1, <4>1 DEF BusStep
        <3>. QED
            BY <2>4, <3>1, <3>2 DEF InterfacesOf
    <2>. QED
        BY <2>5
<1>. QED
    BY <1>1, <1>2

LEMMA RegistryStutter ==
    ASSUME RegistryInv, UNCHANGED busVars, configured \subseteq configured'
    PROVE  RegistryInv'
<1>1. BusInv'
    BY BusStutter DEF RegistryInv
<1>2. RegistryInOrder'
    BY DEF RegistryInv, RegistryInOrder, IsComposite, busVars
<1>. QED
    BY <1>1, <1>2 DEF RegistryInv

(* The port of an ACM data interface comes with the control interface      *)
(* before it, and a control interface has no port.                         *)
LEMMA SerialFacts ==
    ASSUME RegistryInv, NEW n, NEW i \in SerialOf(n)
    PROVE  /\ i \in InterfacesOf(n) /\ i \in Interfaces
           /\ DriverOf(n, i) # "AppleUSBACMControl"
           /\ DriverOf(n, i) = "AppleUSBACMData" =>
                /\ i - 1 \in InterfacesOf(n) /\ FunctionOf(n, i) = i - 1
                /\ DriverOf(n, i - 1) = "AppleUSBACMControl"
           /\ DriverOf(n, i) # "AppleUSBACMData" => FunctionOf(n, i) = i
<1>. DEFINE p == PortOf(n)
<1>1. /\ n \in Registered /\ i \in Interfaces /\ <<p, i>> \in ifaces /\ <<p, i>> \in ttys
      /\ i \in InterfacesOf(n)
    BY DEF SerialOf, InterfacesOf
<1>2. driver[<<p, i>>] # "AppleUSBACMControl"
    BY <1>1 DEF RegistryInv, RegistryInOrder
<1>3. ASSUME DriverOf(n, i) = "AppleUSBACMData"
      PROVE  /\ i - 1 \in InterfacesOf(n) /\ FunctionOf(n, i) = i - 1
             /\ DriverOf(n, i - 1) = "AppleUSBACMControl"
    <2>1. PICK j \in ifaces : j[1] = p /\ j[2] = i - 1 /\ driver[j] = "AppleUSBACMControl"
        <3>1. driver[<<p, i>>] = "AppleUSBACMData" /\ <<p, i>>[1] = p /\ <<p, i>>[2] = i
            BY <1>3 DEF DriverOf
        <3>. HIDE DEF p
        <3>. QED
            BY <1>1, <3>1 DEF RegistryInv, RegistryInOrder
    <2>2. j \in Ports \X Interfaces
        BY DEF RegistryInv, BusInv, BusTypeOK, InterfacePaths
    <2>3. j = <<p, i - 1>> /\ i - 1 \in Interfaces
        BY <2>1, <2>2
    <2>4. Personality[i - 1] = "AppleUSBACMControl"
        <3>1. driver[j] \in {NoDriver, Personality[j[2]]}
            BY DEF RegistryInv, RegistryInOrder
        <3>2. driver[j] # NoDriver
            BY <2>1, AcmAssumption
        <3>. QED
            BY <2>1, <3>1, <3>2
    <2>5. i > 0 /\ i \in Nat
        BY <1>1, <2>3, InterfacesAssumption
    <2>6. i - 1 \in InterfacesOf(n) /\ DriverOf(n, i - 1) = "AppleUSBACMControl"
        BY <1>1, <2>1, <2>3 DEF InterfacesOf, DriverOf
    <2>7. FunctionOf(n, i) = i - 1
        BY <1>3, <2>4, <2>5 DEF FunctionOf
    <2>. QED
        BY <2>6, <2>7
<1>4. DriverOf(n, i) # "AppleUSBACMData" => FunctionOf(n, i) = i
    BY DEF FunctionOf
<1>. QED
    BY <1>1, <1>2, <1>3, <1>4 DEF DriverOf

-----------------------------------------------------------------------------
(* Resources.                                                              *)

UserType ==
    user \in [list : Seq(Device), device : Device \cup {NULL},
              interface : Interface \cup {NULL}, port : Port \cup {NULL},
              handle : Handle \cup {NULL},
              copied : {"device", "interface", "port", NULL}]

LEMMA CoreTypes == ASSUME ObjectInv PROVE UserType
BY DEF ObjectInv, UserType

(* What belongs to a handle besides its memory. *)
OfHandle == {"handle", "plug_in", "ioh", "exclusive"}

LEMMA OwnedFacts ==
    ASSUME UserType, NEW k \in Kinds
    PROVE  Owned(k) \in Nat
<1>1. Len(user.list) \in Nat
    BY DEF UserType
<1>2. /\ One(user.device # NULL) \in Nat /\ One(user.handle # NULL) \in Nat
      /\ One(user[k] # NULL) \in Nat /\ One(user.copied = k) \in Nat
    BY DEF One
<1>3. CASE k = "device"
    BY <1>1, <1>2, <1>3 DEF Owned
<1>4. CASE k \in {"interface", "port"}
    BY <1>1, <1>2, <1>4 DEF Owned
<1>5. CASE k \in OfHandle
    BY <1>1, <1>2, <1>5 DEF Owned, OfHandle
<1>6. CASE k \in {"device_service", "interface_service", "iterator"}
    BY <1>1, <1>2, <1>6 DEF Owned
<1>. QED
    BY <1>3, <1>4, <1>5, <1>6 DEF Kinds, OfHandle

(* The memory that is left: an allocation may have failed in the step. *)
MemoryLeft == ooms' = ooms \/ (ooms > 0 /\ ooms' = ooms - 1)

(***************************************************************************)
(* The counts stay right if what exists changes as what is accounted for.  *)
(* Something may be left behind when memory was missing.                   *)
(***************************************************************************)
LEMMA CountKept ==
    ASSUME CountInv, MemoryLeft, held' = [k \in Kinds |-> held'[k]],
           \A k \in Kinds :
               /\ Owned(k) \in Nat /\ Owned(k)' \in Nat /\ held'[k] \in Int
               /\ held'[k] + Owned(k) + One(k \in InUse)
                      >= held[k] + Owned(k)' + One(k \in InUse')
               /\ ooms' = ooms => held'[k] + Owned(k) + One(k \in InUse)
                                      = held[k] + Owned(k)' + One(k \in InUse')
    PROVE  CountInv'
<1>1. ooms' \in 0..MaxOoms /\ ooms' <= ooms /\ (ooms' # ooms => ooms' # MaxOoms)
    BY OomsAssumption DEF MemoryLeft, CountInv
<1>2. ASSUME NEW k \in Kinds
      PROVE  /\ held'[k] \in Nat
             /\ held'[k] >= Owned(k)' + One(k \in InUse')
             /\ ooms' = MaxOoms => held'[k] = Owned(k)' + One(k \in InUse')
    <2>1. One(k \in InUse) \in Nat /\ One(k \in InUse') \in Nat
        BY DEF One
    <2>2. /\ held[k] \in Nat /\ held[k] >= Owned(k) + One(k \in InUse)
          /\ ooms = MaxOoms => held[k] = Owned(k) + One(k \in InUse)
        BY DEF CountInv
    <2>3. ooms' = MaxOoms => ooms' = ooms /\ ooms = MaxOoms
        BY <1>1
    <2>. QED
        BY <2>1, <2>2, <2>3
<1>. QED
    BY <1>1, <1>2 DEF CountInv

LEMMA HeldCount ==
    ASSUME CountInv, UserType, user' = user, MemoryLeft, held' = [k \in Kinds |-> held'[k]],
           \A k \in Kinds :
               /\ held'[k] \in Int
               /\ held'[k] + One(k \in InUse) >= held[k] + One(k \in InUse')
               /\ ooms' = ooms => held'[k] + One(k \in InUse) = held[k] + One(k \in InUse')
    PROVE  CountInv'
<1>1. ASSUME NEW k \in Kinds
      PROVE  /\ Owned(k) \in Nat /\ Owned(k)' \in Nat /\ held'[k] \in Int
             /\ held'[k] + Owned(k) + One(k \in InUse)
                    >= held[k] + Owned(k)' + One(k \in InUse')
             /\ ooms' = ooms => held'[k] + Owned(k) + One(k \in InUse)
                                    = held[k] + Owned(k)' + One(k \in InUse')
    <2>1. Owned(k)' = Owned(k) /\ Owned(k) \in Nat
        BY OwnedFacts DEF Owned
    <2>2. One(k \in InUse) \in Nat /\ One(k \in InUse') \in Nat /\ held[k] \in Nat
        BY DEF One, CountInv
    <2>. QED
        BY <2>1, <2>2
<1>. QED
    BY <1>1, CountKept

LEMMA AcquireCount ==
    ASSUME CountInv, UserType, user' = user, MemoryLeft, NEW S, Acquire(S),
           S \cap InUse = {}, InUse' = InUse \cup S
    PROVE  CountInv'
<1>1. ASSUME NEW k \in Kinds
      PROVE  held'[k] \in Int /\ held'[k] + One(k \in InUse) = held[k] + One(k \in InUse')
    BY DEF CountInv, Acquire, One
<1>2. held' = [k \in Kinds |-> held'[k]]
    BY DEF Acquire
<1>3. \A k \in Kinds : One(k \in InUse) \in Nat /\ held[k] \in Nat
    BY DEF CountInv, One
<1>. QED
    BY <1>1, <1>2, <1>3, HeldCount

LEMMA ReleaseCount ==
    ASSUME CountInv, UserType, user' = user, MemoryLeft, NEW S, Release(S),
           S \subseteq InUse, InUse' \subseteq InUse \ S,
           InUse' = InUse \ S \/ ooms' # ooms
    PROVE  CountInv'
<1>1. ASSUME NEW k \in Kinds
      PROVE  /\ held'[k] \in Int
             /\ held'[k] + One(k \in InUse) >= held[k] + One(k \in InUse')
             /\ ooms' = ooms => held'[k] + One(k \in InUse) = held[k] + One(k \in InUse')
    BY DEF CountInv, Release, One
<1>2. held' = [k \in Kinds |-> held'[k]]
    BY DEF Release
<1>. QED
    BY <1>1, <1>2, HeldCount

LEMMA SameCount ==
    ASSUME CountInv, UserType, UNCHANGED <<user, held>>, MemoryLeft, InUse' = InUse
    PROVE  CountInv'
<1>1. Acquire({})
    BY DEF CountInv, Acquire
<1>. QED
    BY <1>1, AcquireCount

-----------------------------------------------------------------------------
(* Objects and local variables.                                            *)

CoreInv == FrameInv /\ CountInv /\ ObjectInv

(* The places of a call. *)
Places(call) ==
    CASE call = "list" -> {"list", "each", "append"}
      [] call = "interface" -> {"interface", "device_service", "children", "candidate", "interface_id"}
      [] call = "port" -> {"port", "device_service", "entries", "entry", "port_name"}
      [] call = "open" -> {"open", "interface_service", "device_service", "configuration",
                           "device_open", "device_configure", "children", "candidate",
                           "plug_in", "interface_open", "pipes"}

LEMMA CallFacts ==
    ASSUME FrameInv, frame.pc # "idle"
    PROVE  /\ frame.call \in {"list", "interface", "port", "open"}
           /\ frame.pc \in Places(frame.call)
           /\ frame.call = "list" => user.device = NULL
           /\ frame.call \in {"interface", "port"} =>
                  /\ frame.want \in Interfaces
                  /\ user.device # NULL /\ user[frame.call] = NULL
           /\ frame.call = "interface" /\ frame.pc # "interface" => frame.composite
           /\ frame.call = "open" => user.interface # NULL /\ user.handle = NULL
           /\ result = NoResult
           /\ user.list # <<>> => user.device = NULL
           /\ frame.pc \in AtService => frame.service = Target
           /\ frame.pc \in {"interface_service", "plug_in", "interface_open", "pipes"} =>
                  frame.found = Number
<1>1. frame # IdleFrame
    BY DEF IdleFrame
<1>2. \/ /\ frame.call = "list" /\ user.device = NULL
         /\ frame.pc \in {"list", "each", "append"}
      \/ /\ frame.call = "interface" /\ user.device # NULL /\ user.interface = NULL
         /\ frame.pc \in {"interface", "device_service", "children", "candidate", "interface_id"}
         /\ frame.pc # "interface" => frame.composite
         /\ frame.want \in Interfaces
      \/ /\ frame.call = "port" /\ user.device # NULL /\ user.port = NULL
         /\ frame.pc \in {"port", "device_service", "entries", "entry", "port_name"}
         /\ frame.want \in Interfaces
      \/ /\ frame.call = "open" /\ user.interface # NULL /\ user.handle = NULL
         /\ frame.pc \in {"open", "interface_service", "device_service", "configuration",
                          "device_open", "device_configure", "children", "candidate",
                          "plug_in", "interface_open", "pipes"}
    BY <1>1 DEF FrameInv
<1>. QED
    BY <1>2 DEF FrameInv, Places

(* A step inside of a call, with the new local variables written out. *)
Moves(pc, todo, service, found, control, data) ==
    /\ frame' = [pc |-> pc, call |-> frame.call, want |-> frame.want,
                 composite |-> frame.composite, todo |-> todo, service |-> service,
                 found |-> found, control |-> control, data |-> data]
    /\ UNCHANGED <<busVars, result>>

LEMMA MoveFrame ==
    ASSUME FrameInv, frame.pc # "idle",
           NEW pc \in Places(frame.call) \ {frame.call},
           NEW todo, NEW service, NEW found, NEW control, NEW data,
           Moves(pc, todo, service, found, control, data),
           \A x \in {"device", "interface", "port", "handle"} : user'[x] = user[x],
           user'.list = user.list \/ user.device = NULL,
           frame.call = "interface" => frame.composite,
           pc = "append" => found \in Instances,
           pc \in AtService => service = Target,
           pc \in {"interface_service", "plug_in", "interface_open", "pipes"} => found = Number,
           pc = "port_name" => found \in Interfaces
    PROVE  /\ FrameInv'
           /\ frame'.pc = pc /\ frame'.call = frame.call /\ frame'.want = frame.want
           /\ frame'.composite = frame.composite /\ frame'.todo = todo
           /\ frame'.service = service /\ frame'.found = found /\ frame'.control = control
           /\ frame'.data = data
           /\ Target' = Target /\ Number' = Number /\ Object' = Object
<1>1. /\ frame'.pc = pc /\ frame'.call = frame.call /\ frame'.want = frame.want
      /\ frame'.composite = frame.composite /\ frame'.todo = todo
      /\ frame'.service = service /\ frame'.found = found /\ frame'.control = control
      /\ frame'.data = data /\ result' = result /\ UNCHANGED busVars
    BY DEF Moves
<1>2. /\ frame.call \in {"list", "interface", "port", "open"}
      /\ frame.call = "list" => user.device = NULL
      /\ frame.call \in {"interface", "port"} =>
             /\ frame.want \in Interfaces
             /\ user.device # NULL /\ user[frame.call] = NULL
      /\ frame.call = "open" => user.interface # NULL /\ user.handle = NULL
      /\ result = NoResult
      /\ user.list # <<>> => user.device = NULL
    BY CallFacts
<1>3. Target' = Target /\ Number' = Number /\ Object' = Object
    BY <1>1 DEF Target, Number, Object
<1>4. frame' = [pc |-> frame'.pc, call |-> frame'.call, want |-> frame'.want,
                composite |-> frame'.composite, todo |-> frame'.todo,
                service |-> frame'.service, found |-> frame'.found,
                control |-> frame'.control, data |-> frame'.data]
    BY <1>1 DEF Moves
<1>5. Instances' = Instances
    BY <1>1, SameRegistry
<1>6. FrameInv'
    <2>1. (frame.call = "list") =>
            /\ frame'.call = "list" /\ user'.device = NULL
            /\ frame'.pc \in {"each", "append"}
        BY <1>1, <1>2 DEF Places
    <2>2. (frame.call = "interface") =>
            /\ frame'.call = "interface" /\ user'.device # NULL /\ user'.interface = NULL
            /\ frame'.pc \in {"device_service", "children", "candidate", "interface_id"}
            /\ frame'.composite
            /\ frame'.want \in Interfaces
        BY <1>1, <1>2 DEF Places
    <2>3. (frame.call = "port") =>
            /\ frame'.call = "port" /\ user'.device # NULL /\ user'.port = NULL
            /\ frame'.pc \in {"device_service", "entries", "entry", "port_name"}
            /\ frame'.want \in Interfaces
        BY <1>1, <1>2 DEF Places
    <2>4. (frame.call = "open") =>
            /\ frame'.call = "open" /\ user'.interface # NULL /\ user'.handle = NULL
            /\ frame'.pc \in {"interface_service", "device_service", "configuration",
                              "device_open", "device_configure", "children", "candidate",
                              "plug_in", "interface_open", "pipes"}
        BY <1>1, <1>2 DEF Places
    <2>5. /\ frame'.pc # "list" /\ result' = NoResult
          /\ frame'.pc = "append" => frame'.found \in Instances'
          /\ frame'.pc \in AtService => frame'.service = Target'
          /\ frame'.pc \in {"interface_service", "plug_in", "interface_open", "pipes"} =>
                frame'.found = Number'
          /\ frame'.pc = "port_name" => frame'.found \in Interfaces
          /\ user'.list # <<>> => user'.device = NULL
        BY <1>1, <1>2, <1>3, <1>5, <2>1, <2>2, <2>3, <2>4
    <2>. QED
        BY <1>2, <1>4, <2>1, <2>2, <2>3, <2>4, <2>5 DEF FrameInv
<1>. QED
    BY <1>1, <1>3, <1>6

(* The objects of the user are the same. *)
LEMMA SameObjects ==
    ASSUME ObjectInv, UNCHANGED <<busVars, user>>
    PROVE  ObjectInv'
<1>1. Instances' = Instances
    BY SameRegistry
<1>. QED
    BY <1>1 DEF ObjectInv, OpensListedDevice

(* A call ends. *)
LEMMA EndFrame ==
    ASSUME NEW error, Returns(error), user'.list # <<>> => user'.device = NULL
    PROVE  FrameInv' /\ InUse' = {} /\ frame'.pc = "idle"
<1>1. frame' = IdleFrame /\ frame'.pc = "idle"
    BY DEF Returns, IdleFrame
<1>2. InUse' = {}
    BY <1>1 DEF InUse
<1>3. FrameInv'
    BY <1>1 DEF FrameInv, IdleFrame, AtService
<1>. QED
    BY <1>1, <1>2, <1>3

LEMMA FailCore ==
    ASSUME CoreInv, NEW error, NEW S, UNCHANGED busVars, S \subseteq InUse,
           (Fail(error, S) /\ S = InUse) \/ NoMemory(S)
    PROVE  CoreInv'
<1>1. /\ \E e : Returns(e)
      /\ user' = user /\ Release(S) /\ MemoryLeft
      /\ S = InUse \/ ooms' # ooms
    BY OomsAssumption DEF Fail, NoMemory, Allocates, OutOfMemory, MemoryLeft, CoreInv, CountInv
<1>2. FrameInv' /\ InUse' = {}
    <2>1. user'.list # <<>> => user'.device = NULL
        BY <1>1 DEF CoreInv, FrameInv
    <2>. QED
        BY <1>1, <2>1, EndFrame
<1>3. CountInv'
    <2>1. InUse' \subseteq InUse \ S /\ (InUse' = InUse \ S \/ ooms' # ooms)
        BY <1>1, <1>2
    <2>. QED
        BY <1>1, <2>1, CoreTypes, ReleaseCount DEF CoreInv
<1>4. ObjectInv'
    BY <1>1, SameObjects DEF CoreInv
<1>. QED
    BY <1>2, <1>3, <1>4 DEF CoreInv

-----------------------------------------------------------------------------
(***************************************************************************)
(* What is there is found.  The invariant about calls in progress goes     *)
(* with what it says of a call that has returned.                          *)
(***************************************************************************)
FoundInv == WatchInv /\ WalkInv /\ ReadyInv /\ SerialPortIsRight /\ ReadyIsFound

Searches == {"interface", "port", "open"}

LEMMA SameReady ==
    ASSUME UNCHANGED busVars, user' = user, frame'.call = frame.call, frame'.want = frame.want,
           frame'.composite = frame.composite
    PROVE  Ready(frame.call, frame.want, frame.composite)'
               <=> Ready(frame.call, frame.want, frame.composite)
<1>1. /\ InterfacesOf(user.device.id)' = InterfacesOf(user.device.id)
      /\ InterfacesOf(user.interface.device_id)' = InterfacesOf(user.interface.device_id)
    BY DEF InterfacesOf, Registered, Connected, PortOf, busVars
<1>2. SerialOf(user.device.id)' = SerialOf(user.device.id)
    BY <1>1 DEF SerialOf, PortOf, busVars
<1>3. \A i : FunctionOf(user.device.id, i)' = FunctionOf(user.device.id, i)
    BY DEF FunctionOf, DriverOf, PortOf, busVars
<1>. QED
    BY <1>1, <1>2, <1>3 DEF Ready

(* While what the call needs has been there, it is there now. *)
LEMMA ReadyFacts ==
    ASSUME FrameInv, ReadyInv, frame.pc \notin {"idle", "interface"}, frame.call \in Searches,
           watch.ready
    PROVE  /\ Target \in Registered
           /\ frame.call \in {"interface", "open"} => Number \in InterfacesOf(Target)
           /\ frame.call = "port" =>
                  \E i \in SerialOf(Target) : FunctionOf(Target, i) = Number
<1>1. /\ Ready(frame.call, frame.want, frame.composite)
      /\ frame.call = "interface" => frame.composite
    BY CallFacts DEF ReadyInv, Searches
<1>2. /\ frame.call \in {"interface", "open"} => Number \in InterfacesOf(Target)
      /\ frame.call = "port" => \E i \in SerialOf(Target) : FunctionOf(Target, i) = Number
    BY <1>1 DEF Ready, Target, Number
<1>3. InterfacesOf(Target) # {}
    BY <1>2 DEF Searches, SerialOf
<1>4. Target \in Registered
    BY <1>3 DEF InterfacesOf
<1>. QED
    BY <1>2, <1>4

(* A step from one place of a call to another. *)
LEMMA MoveStep ==
    ASSUME CoreInv, FoundInv, frame.pc # "idle", user' = user, Allocates \/ OutOfMemory,
           NEW pc \in Places(frame.call) \ {frame.call},
           NEW todo, NEW service, NEW found, NEW control, NEW data,
           Moves(pc, todo, service, found, control, data),
           frame.call = "interface" => frame.composite,
           pc = "append" => found \in Instances,
           pc \in AtService => service = Target,
           pc \in {"interface_service", "plug_in", "interface_open", "pipes"} => found = Number,
           pc = "port_name" => found \in Interfaces,
           CountInv',
           pc \notin {"entry", "port_name"} =>
               data = frame.data /\ frame.pc \notin {"entry", "port_name"},
           pc = "entry" =>
               /\ todo \subseteq Interfaces
               /\ \A i \in todo, j \in Interfaces : i <= j => j \in todo
               /\ data \notin todo
               /\ ~watch.changed => \A i \in todo :
                   i - 1 \in InterfacesOf(service) \ todo
                   /\ DriverOf(service, i - 1) = "AppleUSBACMControl" => control = i - 1,
           pc = "port_name" /\ ~watch.changed => FunctionOf(service, found) = Number,
           frame.call \in Searches /\ watch.ready /\ pc = "candidate" =>
               Number \in todo /\ todo \subseteq InterfacesOf(service),
           frame.call \in Searches /\ watch.ready /\ pc = "entry" /\ ~watch.changed =>
               \E i \in todo \cap SerialOf(service) : FunctionOf(service, i) = Number
    PROVE  CoreInv' /\ FoundInv'
<1>1. /\ FrameInv'
      /\ frame'.pc = pc /\ frame'.call = frame.call /\ frame'.want = frame.want
      /\ frame'.composite = frame.composite /\ frame'.todo = todo
      /\ frame'.service = service /\ frame'.found = found /\ frame'.control = control
      /\ frame'.data = data
      /\ Number' = Number
    BY MoveFrame DEF CoreInv
<1>2. CoreInv'
    BY <1>1, SameObjects DEF CoreInv, Moves
<1>3. WatchInv' /\ watch'.changed = watch.changed /\ watch'.ready = watch.ready
    BY DEF FoundInv, WatchInv, Allocates, OutOfMemory
<1>4. UNCHANGED busVars /\ result' = result /\ result = NoResult
    BY CallFacts DEF Moves, CoreInv
<1>5. /\ \A n : InterfacesOf(n)' = InterfacesOf(n) /\ SerialOf(n)' = SerialOf(n)
      /\ \A n, i : DriverOf(n, i)' = DriverOf(n, i)
      /\ \A n, i : FunctionOf(n, i)' = FunctionOf(n, i)
    BY <1>4, SameRegistry
<1>6. /\ InterfacesOf(frame.service)' = InterfacesOf(service)
      /\ SerialOf(frame.service)' = SerialOf(service)
      /\ \A i : DriverOf(frame.service, i)' = DriverOf(service, i)
      /\ \A i : FunctionOf(frame.service, i)' = FunctionOf(service, i)
      /\ FunctionOf(frame.service, frame.found)' = FunctionOf(service, found)
    <2>1. /\ InterfacesOf(frame.service)' = InterfacesOf(service)
          /\ \A i : DriverOf(frame.service, i)' = DriverOf(service, i)
        BY <1>1, <1>4 DEF InterfacesOf, Registered, Connected, PortOf, DriverOf, busVars
    <2>2. SerialOf(frame.service)' = SerialOf(service)
        BY <1>1, <1>4, <2>1 DEF SerialOf, PortOf, busVars
    <2>3. /\ \A i : FunctionOf(frame.service, i)' = FunctionOf(service, i)
          /\ FunctionOf(frame.service, frame.found)' = FunctionOf(service, found)
        BY <1>1, <1>4 DEF FunctionOf, DriverOf, PortOf, busVars
    <2>. QED
        BY <2>1, <2>2, <2>3
<1>7. WalkInv'
    <2>1. CASE pc = "entry"
        BY <1>1, <1>3, <1>6, <2>1 DEF WalkInv
    <2>2. CASE pc # "entry"
        <3>1. frame'.pc \notin {"entry", "port_name"} => frame'.data = -1
            BY <1>1 DEF FoundInv, WalkInv
        <3>. QED
            BY <1>1, <1>3, <1>6, <2>2, <3>1 DEF WalkInv
    <2>. QED
        BY <2>1, <2>2
<1>8. ReadyInv'
    <2>1. SUFFICES ASSUME frame.call \in Searches, watch.ready
                   PROVE  /\ Ready(frame.call, frame.want, frame.composite)'
                          /\ pc = "candidate" =>
                              Number' \in todo /\ todo \subseteq InterfacesOf(frame.service)'
                          /\ pc = "entry" /\ ~watch.changed =>
                              \E i \in todo \cap SerialOf(frame.service)' :
                                  FunctionOf(frame.service, i)' = Number'
        BY <1>1, <1>3 DEF ReadyInv, Searches
    <2>2. Ready(frame.call, frame.want, frame.composite)
        BY <2>1 DEF FoundInv, ReadyInv, Searches
    <2>3. Ready(frame.call, frame.want, frame.composite)'
        BY <1>1, <1>4, <2>2, SameReady
    <2>. QED
        BY <1>1, <1>6, <2>1, <2>3
<1>9. SerialPortIsRight' /\ ReadyIsFound'
    BY <1>4 DEF SerialPortIsRight, ReadyIsFound, NoResult
<1>. QED
    BY <1>2, <1>3, <1>7, <1>8, <1>9 DEF FoundInv

(* A call fails, for a reason. *)
LEMMA FailStep ==
    ASSUME CoreInv, FoundInv, frame.pc # "idle", UNCHANGED busVars, NEW S, S \subseteq InUse,
           NEW error, error # "none",
           \/ /\ Fail(error, S) /\ S = InUse
              /\ frame.call \in Searches /\ watch.ready =>
                     \/ frame.call = "open" /\ error \in {"access", "refused"}
                     \/ frame.call = "port" /\ watch.changed
           \/ NoMemory(S)
    PROVE  CoreInv' /\ FoundInv'
<1>1. CoreInv'
    BY FailCore
<1>2. /\ frame' = IdleFrame /\ frame'.pc = "idle" /\ frame'.call = "none"
      /\ frame'.data = -1 /\ result'.call = frame.call
      /\ WatchInv' /\ watch'.changed = watch.changed /\ watch'.ready = watch.ready
      /\ \/ watch'.nomem /\ result'.error = "memory"
         \/ /\ result'.error = error
            /\ frame.call \in Searches /\ watch.ready =>
                     \/ frame.call = "open" /\ error \in {"access", "refused"}
                     \/ frame.call = "port" /\ watch.changed
    BY DEF Fail, NoMemory, Returns, IdleFrame, Allocates, OutOfMemory, FoundInv, WatchInv
<1>3. WalkInv' /\ ReadyInv'
    BY <1>2 DEF WalkInv, ReadyInv
<1>4. SerialPortIsRight' /\ ReadyIsFound'
    BY <1>2 DEF SerialPortIsRight, ReadyIsFound, Searches
<1>. QED
    BY <1>1, <1>2, <1>3, <1>4 DEF FoundInv

(* A call succeeds: it has made an object, which belongs to the user. *)
OwnedBy(o) == IF o = "handle" THEN OfHandle ELSE {o}

LEMMA MadeOwned ==
    ASSUME UserType, UserType', NEW o \in {"interface", "port", "handle"}, NEW new, new # NULL,
           user[o] = NULL, user' = [user EXCEPT ![o] = new], NEW k \in Kinds
    PROVE  Owned(k) \in Nat /\ Owned(k)' = Owned(k) + One(k \in OwnedBy(o))
<1>0. Owned(k) \in Nat
    BY OwnedFacts
<1>1. /\ user'[o] = new
      /\ \A x \in {"list", "device", "interface", "port", "handle", "copied"} :
            x # o => user'[x] = user[x]
    BY DEF UserType
<1>2. CASE k \in OwnedBy(o) /\ o = "handle"
    <2>1. One(user.handle # NULL) = 0 /\ One(user'.handle # NULL) = 1 /\ One(k \in OwnedBy(o)) = 1
        BY <1>1, <1>2 DEF One
    <2>2. Owned(k) = One(user.handle # NULL) /\ Owned(k)' = One(user'.handle # NULL)
        BY <1>2 DEF Owned, OwnedBy, OfHandle
    <2>. QED
        BY <1>0, <2>1, <2>2
<1>3. CASE k \in OwnedBy(o) /\ o # "handle"
    <2>1. /\ One(user[k] # NULL) = 0 /\ One(user'[k] # NULL) = 1
          /\ One(k \in OwnedBy(o)) = 1 /\ k = o
          /\ One(user.copied = k) \in Nat
        BY <1>1, <1>3 DEF One, OwnedBy
    <2>2. /\ Owned(k) = One(user[k] # NULL) + One(user.copied = k)
          /\ Owned(k)' = One(user'[k] # NULL) + One(user.copied = k)
        BY <1>1, <1>3, <2>1 DEF Owned, OwnedBy
    <2>. QED
        BY <1>0, <2>1, <2>2
<1>4. CASE k \notin OwnedBy(o)
    <2>1. One(k \in OwnedBy(o)) = 0
        BY <1>4 DEF One
    <2>2. /\ k # o
          /\ k \in OfHandle => user'.handle = user.handle
          /\ k \in {"interface", "port"} => user'[k] = user[k]
          /\ user'.list = user.list /\ user'.device = user.device /\ user'.copied = user.copied
        BY <1>1, <1>4 DEF OwnedBy, OfHandle
    <2>3. Owned(k)' = Owned(k)
        BY <2>2 DEF Owned, OfHandle
    <2>. QED
        BY <1>0, <2>1, <2>3
<1>. QED
    BY <1>0, <1>2, <1>3, <1>4

LEMMA MadeStep ==
    ASSUME CoreInv, FoundInv, UNCHANGED busVars, frame.pc # "idle", Allocates, Returns("none"),
           NEW o \in {"interface", "port", "handle"}, o = Object, frame.call \in Searches,
           NEW new, user' = [user EXCEPT ![o] = new],
           o = "interface" => /\ new \in Interface /\ new.device_id \in Instances
                              /\ new.device_id = new.device.id,
           o = "port" => /\ new \in Port /\ new.inst = new.device.id
                         /\ ~watch.changed => new.number = FunctionOf(user.device.id, new.at),
           o = "handle" => /\ new \in Handle /\ new.inst = new.device.id
                           /\ new.number = new.asked,
           held' = [k \in Kinds |-> held'[k]],
           \A k \in Kinds : /\ held'[k] \in Int
                            /\ held'[k] + One(k \in InUse) = held[k] + One(k \in OwnedBy(o))
    PROVE  CoreInv' /\ FoundInv'
<1>1. /\ FrameInv /\ CountInv /\ ObjectInv /\ UserType /\ new # NULL
    BY CoreTypes, NullAssumption DEF CoreInv
<1>2. /\ user[o] = NULL /\ (o = "handle" <=> frame.call = "open")
      /\ (o = "port" <=> frame.call = "port")
    BY <1>1, CallFacts DEF Object, Searches
<1>3. /\ user'[o] = new
      /\ \A x \in {"list", "device", "interface", "port", "handle", "copied"} :
            x # o => user'[x] = user[x]
    BY <1>1 DEF UserType
<1>4. UserType'
    <2>1. CASE o = "interface"
        BY <1>1, <2>1 DEF UserType
    <2>2. CASE o = "port"
        BY <1>1, <2>2 DEF UserType
    <2>3. CASE o = "handle"
        BY <1>1, <2>3 DEF UserType
    <2>. QED
        BY <2>1, <2>2, <2>3
<1>5. FrameInv' /\ InUse' = {} /\ frame'.pc = "idle"
    <2>1. user'.list # <<>> => user'.device = NULL
        BY <1>1, <1>3 DEF FrameInv
    <2>. QED
        BY <2>1, EndFrame
<1>6. CountInv'
    <2>1. ASSUME NEW k \in Kinds
          PROVE  /\ Owned(k) \in Nat /\ Owned(k)' \in Nat /\ held'[k] \in Int
                 /\ held'[k] + Owned(k) + One(k \in InUse)
                        = held[k] + Owned(k)' + One(k \in InUse')
                 /\ held[k] + Owned(k)' + One(k \in InUse') \in Int
        <3>1. Owned(k) \in Nat /\ Owned(k)' = Owned(k) + One(k \in OwnedBy(o))
            BY <1>1, <1>2, <1>4, MadeOwned
        <3>2. /\ One(k \in InUse) \in Nat /\ One(k \in OwnedBy(o)) \in Nat
              /\ One(k \in InUse') = 0 /\ held[k] \in Nat
            BY <1>1, <1>5 DEF One, CountInv
        <3>. QED
            BY <3>1, <3>2
    <2>2. MemoryLeft
        BY DEF Allocates, MemoryLeft
    <2>. QED
        BY <1>1, <2>1, <2>2, CountKept
<1>7. ObjectInv'
    <2>1. Instances' = Instances
        BY SameRegistry
    <2>2. user.list = user'.list /\ user.device = user'.device
        BY <1>3
    <2>3. CASE o = "interface"
        BY <1>1, <1>3, <1>4, <2>1, <2>2, <2>3 DEF ObjectInv, OpensListedDevice, UserType
    <2>4. CASE o = "port"
        BY <1>1, <1>3, <1>4, <2>1, <2>2, <2>4 DEF ObjectInv, OpensListedDevice, UserType
    <2>5. CASE o = "handle"
        BY <1>1, <1>3, <1>4, <2>1, <2>2, <2>5 DEF ObjectInv, OpensListedDevice, UserType
    <2>. QED
        BY <2>3, <2>4, <2>5
<1>8. /\ frame'.call = "none" /\ frame'.data = -1
      /\ result'.call = frame.call /\ result'.error = "none"
      /\ WatchInv' /\ watch' = watch
    BY DEF Returns, IdleFrame, Allocates, FoundInv, WatchInv
<1>9. WalkInv' /\ ReadyInv' /\ ReadyIsFound'
    BY <1>5, <1>8 DEF WalkInv, ReadyInv, ReadyIsFound
<1>10. SerialPortIsRight'
    <2>1. CASE o = "port"
        <3>1. user'.device = user.device /\ user'.port = new
            BY <1>3, <2>1
        <3>2. FunctionOf(user.device.id, user.port.at)' = FunctionOf(user.device.id, new.at)
            <4>1. at' = at /\ driver' = driver
                BY DEF busVars
            <4>2. PortOf(user.device.id)' = PortOf(user.device.id)
                BY <3>1, <4>1 DEF PortOf
            <4>3. DriverOf(user.device.id, user.port.at)' = DriverOf(user.device.id, new.at)
                BY <3>1, <4>1, <4>2 DEF DriverOf
            <4>. QED
                BY <3>1, <4>3 DEF FunctionOf
        <3>. QED
            BY <1>8, <2>1, <3>1, <3>2 DEF SerialPortIsRight
    <2>2. CASE o # "port"
        BY <1>2, <1>8, <2>2 DEF SerialPortIsRight
    <2>. QED
        BY <2>1, <2>2
<1>. QED
    BY <1>5, <1>6, <1>7, <1>8, <1>9, <1>10 DEF CoreInv, FoundInv

-----------------------------------------------------------------------------
(* The calls, step by step.                                                *)

(* What a step of a call can rely on. *)
LEMMA StepFacts ==
    ASSUME CoreInv, frame.pc # "idle"
    PROVE  /\ FrameInv /\ CountInv /\ ObjectInv /\ UserType
           /\ frame = [pc |-> frame.pc, call |-> frame.call, want |-> frame.want,
                       composite |-> frame.composite, todo |-> frame.todo,
                       service |-> frame.service, found |-> frame.found,
                       control |-> frame.control, data |-> frame.data]
           /\ frame.call \in {"list", "interface", "port", "open"}
           /\ frame.pc \in Places(frame.call)
           /\ frame.call = "interface" /\ frame.pc # "interface" => frame.composite
           /\ frame.pc \in AtService => frame.service = Target
BY CoreTypes, CallFacts DEF CoreInv, FrameInv

(* A step that gets the resources of S and goes on. *)
LEMMA GoStep ==
    ASSUME CoreInv, FoundInv, frame.pc \notin {"idle", "entry", "port_name"},
           NEW f, NEW S, Proceed(f, S),
           NEW pc \in Places(frame.call) \ {frame.call, "append", "candidate", "entry", "port_name"},
           NEW todo, NEW service, NEW found,
           Moves(pc, todo, service, found, frame.control, frame.data),
           frame.call = "interface" => frame.composite,
           pc \in AtService => service = Target,
           pc \in {"interface_service", "plug_in", "interface_open", "pipes"} => found = Number,
           S \cap InUse = {}, InUse' = InUse \cup S
    PROVE  CoreInv' /\ FoundInv'
<1>1. CountInv'
    BY StepFacts, AcquireCount DEF Proceed, Allocates, MemoryLeft
<1>. QED
    BY <1>1, MoveStep DEF Proceed

LEMMA ListBegin ==
    ASSUME CoreInv, FoundInv, list_begin, UNCHANGED busVars
    PROVE  CoreInv' /\ FoundInv'
<1>0. frame.pc = "list" /\ frame.call = "list" /\ InUse = {}
    BY StepFacts DEF list_begin, InUse, Places
<1>1. CASE NoMemory({})
    BY <1>0, <1>1, FailStep
<1>2. CASE Proceed([frame EXCEPT !.pc = "each", !.todo = Registered], {"iterator"})
    <2>1. Moves("each", Registered, frame.service, frame.found, frame.control, frame.data)
        BY <1>0, <1>2, StepFacts DEF Proceed, Continue, Moves
    <2>2. InUse' = {"iterator"}
        BY <2>1 DEF InUse, Moves
    <2>3. "each" \in Places(frame.call) /\ "each" \notin AtService
        BY <1>0 DEF Places, AtService
    <2>. QED
        BY <1>0, <1>2, <2>1, <2>2, <2>3, GoStep
<1>. QED
    BY <1>1, <1>2 DEF list_begin

LEMMA TryCreate ==
    ASSUME RegistryInv, CoreInv, FoundInv, NEW n, try_create_device(n), UNCHANGED busVars
    PROVE  CoreInv' /\ FoundInv'
<1>. DEFINE next == [frame EXCEPT !.todo = @ \ {n}]
<1>0. frame.pc = "each" /\ frame.call = "list" /\ InUse = {"iterator"}
    BY StepFacts DEF try_create_device, InUse, Places
<1>1. frame.call \notin Searches /\ {"each", "append"} \subseteq Places(frame.call)
      /\ "each" \notin AtService /\ "append" \notin AtService
    BY <1>0 DEF Searches, Places, AtService
<1>2. CASE Continue(next) /\ user' = user /\ held' = held /\ (Allocates \/ OutOfMemory)
    <2>1. Moves("each", frame.todo \ {n}, frame.service, frame.found, frame.control, frame.data)
        BY <1>0, <1>2, StepFacts DEF Continue, Moves
    <2>2. InUse' = InUse
        BY <1>0, <2>1 DEF InUse, Moves
    <2>3. CountInv'
        BY <1>0, <1>2, <2>2, StepFacts, SameCount DEF Allocates, OutOfMemory, MemoryLeft
    <2>. QED
        BY <1>0, <1>1, <1>2, <2>1, <2>3, MoveStep
<1>3. CASE /\ n \in Registered
           /\ Proceed([next EXCEPT !.pc = "append", !.found = n], {"device", "device_service"})
    <2>1. Moves("append", frame.todo \ {n}, frame.service, n, frame.control, frame.data)
        BY <1>0, <1>3, StepFacts DEF Continue, Moves, Proceed
    <2>2. InUse' = InUse \cup {"device", "device_service"}
        BY <1>0, <2>1 DEF InUse, Moves
    <2>3. CountInv'
        BY <1>0, <1>3, <2>2, StepFacts, AcquireCount DEF Proceed, Allocates, MemoryLeft
    <2>4. n \in Instances
        BY <1>3, RegisteredFacts
    <2>. QED
        BY <1>0, <1>1, <1>3, <2>1, <2>3, <2>4, MoveStep DEF Proceed
<1>4. CASE Proceed(next, {})
    <2>1. held' = held
        BY <1>0, <1>4, StepFacts DEF Proceed, Acquire, CountInv
    <2>. QED
        BY <1>2, <1>4, <2>1 DEF Proceed
<1>. QED
    BY <1>2, <1>3, <1>4 DEF try_create_device

(* The interface object that is made for the device of the user. *)
LEMMA MadeInterface ==
    ASSUME ObjectInv, user.device # NULL, frame.want \in Interfaces, NEW b \in BOOLEAN
    PROVE  /\ GenericInterface(b) \in Interface
           /\ GenericInterface(b).device_id \in Instances
           /\ GenericInterface(b).device_id = GenericInterface(b).device.id
<1>1. user.device \in Device /\ user.device.id \in Instances /\ user.device.id \in 1..MaxPlugs
    BY DEF ObjectInv, Device
<1>. QED
    BY <1>1 DEF GenericInterface, Interface

LEMMA InterfaceBegin ==
    ASSUME RegistryInv, CoreInv, FoundInv, generic_interface_begin, UNCHANGED busVars
    PROVE  CoreInv' /\ FoundInv'
<1>0. /\ frame.pc = "interface" /\ frame.call = "interface" /\ InUse = {}
      /\ frame.want \in Interfaces /\ user.device # NULL
    BY StepFacts, CallFacts DEF generic_interface_begin, InUse, Places
<1>1. CASE NoMemory({})
    BY <1>0, <1>1, FailStep
<1>2. CASE frame.composite /\ Proceed([frame EXCEPT !.pc = "device_service"], {"interface"})
    <2>1. Moves("device_service", frame.todo, frame.service, frame.found, frame.control,
                frame.data)
        BY <1>0, <1>2, StepFacts DEF Proceed, Continue, Moves
    <2>2. InUse' = {"interface"}
        BY <1>0, <2>1 DEF InUse, Object, Moves
    <2>3. "device_service" \in Places(frame.call) /\ "device_service" \notin AtService
        BY <1>0 DEF Places, AtService
    <2>. QED
        BY <1>0, <1>2, <2>1, <2>2, <2>3, GoStep
<1>3. CASE /\ Allocates
           /\ Acquire({"interface"})
           /\ user' = [user EXCEPT !.interface = GenericInterface(FALSE)]
           /\ Returns("none")
    <2>1. /\ GenericInterface(FALSE) \in Interface
          /\ GenericInterface(FALSE).device_id \in Instances
          /\ GenericInterface(FALSE).device_id = GenericInterface(FALSE).device.id
        BY <1>0, MadeInterface, StepFacts
    <2>2. Object = "interface" /\ frame.call \in Searches
        BY <1>0 DEF Object, Searches
    <2>3. /\ held' = [k \in Kinds |-> held'[k]]
          /\ \A k \in Kinds :
                /\ held'[k] \in Int
                /\ held'[k] + One(k \in InUse) = held[k] + One(k \in OwnedBy("interface"))
        BY <1>0, <1>3, StepFacts DEF Acquire, CountInv, OwnedBy, One
    <2>. QED
        BY <1>0, <1>3, <2>1, <2>2, <2>3, MadeStep
<1>. QED
    BY <1>1, <1>2, <1>3 DEF generic_interface_begin

LEMMA InterfaceReturn ==
    ASSUME RegistryInv, CoreInv, FoundInv, generic_interface_return, UNCHANGED busVars
    PROVE  CoreInv' /\ FoundInv'
<1>0. /\ frame.pc = "interface_id" /\ frame.call = "interface"
      /\ InUse = {"interface", "device_service", "interface_service"}
      /\ frame.want \in Interfaces /\ user.device # NULL
      /\ Object = "interface" /\ frame.call \in Searches /\ frame.service = Target
    BY StepFacts, CallFacts
       DEF generic_interface_return, InUse, Places, Object, Searches, AtService
<1>1. CASE /\ Number \notin InterfacesOf(frame.service)
           /\ Fail("other", {"device_service", "interface_service"} \cup {"interface"})
    <2>1. ~watch.ready
        BY <1>0, <1>1, ReadyFacts, StepFacts DEF FoundInv
    <2>2. {"device_service", "interface_service"} \cup {"interface"} = InUse
        BY <1>0
    <2>. QED
        BY <1>0, <1>1, <2>1, <2>2, FailStep
<1>2. CASE Succeed("interface", GenericInterface(TRUE), {"device_service", "interface_service"})
    <2>1. /\ Allocates /\ Release({"device_service", "interface_service"})
          /\ user' = [user EXCEPT !.interface = GenericInterface(TRUE)]
          /\ Returns("none")
        BY <1>2 DEF Succeed
    <2>2. /\ GenericInterface(TRUE) \in Interface
          /\ GenericInterface(TRUE).device_id \in Instances
          /\ GenericInterface(TRUE).device_id = GenericInterface(TRUE).device.id
        BY <1>0, MadeInterface, StepFacts
    <2>3. /\ held' = [k \in Kinds |-> held'[k]]
          /\ \A k \in Kinds :
                /\ held'[k] \in Int
                /\ held'[k] + One(k \in InUse) = held[k] + One(k \in OwnedBy("interface"))
        BY <1>0, <2>1, StepFacts DEF Release, CountInv, OwnedBy, One
    <2>. QED
        BY <1>0, <2>1, <2>2, <2>3, MadeStep
<1>. QED
    BY <1>1, <1>2 DEF generic_interface_return

LEMMA ServiceFromId ==
    ASSUME CoreInv, FoundInv, service_get_from_id, UNCHANGED busVars
    PROVE  CoreInv' /\ FoundInv'
<1>0. /\ frame.pc = "device_service" /\ frame.call \in Searches /\ InUse = {Object}
    BY StepFacts DEF service_get_from_id, InUse, Places, Searches
<1>1. CASE entries_with_id(Target) = {} /\ Fail("other", {Object})
    <2>1. Target \notin Registered
        BY <1>1 DEF entries_with_id
    <2>. QED
        BY <1>0, <1>1, <2>1, ReadyFacts, FailStep, StepFacts DEF FoundInv
<1>2. ASSUME NEW n \in entries_with_id(Target),
             Proceed([frame EXCEPT !.pc = AfterDevice, !.service = n], {"device_service"})
      PROVE  CoreInv' /\ FoundInv'
    <2>1. n = Target /\ Target \in Registered
        BY DEF entries_with_id
    <2>2. /\ AfterDevice \in Places(frame.call)
          /\ AfterDevice \in {"children", "configuration", "entries"}
        BY <1>0 DEF AfterDevice, Places, Searches
    <2>3. Moves(AfterDevice, frame.todo, n, frame.found, frame.control, frame.data)
        BY <1>0, <1>2, StepFacts DEF Proceed, Continue, Moves
    <2>4. InUse' = InUse \cup {"device_service"}
        <3>1. frame'.pc = AfterDevice /\ frame'.call = frame.call
            BY <2>3 DEF Moves
        <3>2. Object' = Object
            BY <3>1 DEF Object
        <3>. QED
            BY <1>0, <2>2, <3>1, <3>2 DEF InUse
    <2>5. {"device_service"} \cap InUse = {} /\ AfterDevice # frame.call
        BY <1>0, <2>2 DEF Object, Searches
    <2>6. frame.call = "interface" => frame.composite
        BY <1>0, StepFacts
    <2>. QED
        BY <1>0, <1>2, <2>1, <2>2, <2>3, <2>4, <2>5, <2>6, GoStep
<1>. QED
    BY <1>1, <1>2 DEF service_get_from_id

LEMMA ChildIterator ==
    ASSUME CoreInv, FoundInv, get_child_iterator, UNCHANGED busVars
    PROVE  CoreInv' /\ FoundInv'
<1>0. /\ frame.pc = "children" /\ frame.call \in {"interface", "open"}
      /\ InUse = {Object, "device_service"} /\ frame.service = Target
    BY StepFacts DEF get_child_iterator, InUse, Places, AtService
<1>1. CASE frame.service \notin Registered /\ Fail("other", {Object, "device_service"})
    BY <1>0, <1>1, ReadyFacts, FailStep, StepFacts DEF FoundInv, Searches
<1>2. CASE /\ frame.service \in Registered
           /\ Proceed([frame EXCEPT !.pc = "candidate", !.todo = InterfacesOf(frame.service)],
                      {"iterator"})
    <2>1. Moves("candidate", InterfacesOf(frame.service), frame.service, frame.found,
                frame.control, frame.data)
        BY <1>0, <1>2, StepFacts DEF Proceed, Continue, Moves
    <2>2. InUse' = InUse \cup {"iterator"} /\ {"iterator"} \cap InUse = {}
        BY <1>0, <2>1 DEF InUse, Moves, Object
    <2>3. CountInv'
        BY <1>0, <1>2, <2>2, StepFacts, AcquireCount DEF Proceed, Allocates, MemoryLeft
    <2>4. "candidate" \in Places(frame.call)
        BY <1>0 DEF Places
    <2>5. frame.call \in Searches /\ watch.ready => Number \in InterfacesOf(frame.service)
        BY <1>0, ReadyFacts, StepFacts DEF FoundInv
    <2>. QED
        BY <1>0, <1>2, <2>1, <2>3, <2>4, <2>5, MoveStep, StepFacts DEF Proceed
<1>. QED
    BY <1>1, <1>2 DEF get_child_iterator

LEMMA GetUsbInterface ==
    ASSUME CoreInv, FoundInv, NEW i, get_usb_interface(i), UNCHANGED busVars
    PROVE  CoreInv' /\ FoundInv'
<1>0. /\ frame.pc = "candidate" /\ frame.call \in {"interface", "open"}
      /\ InUse = {Object, "device_service", "iterator"} /\ frame.service = Target
      /\ Object \in {"interface", "handle"} /\ i \in frame.todo
      /\ frame.call = "interface" => frame.composite
    BY StepFacts DEF get_usb_interface, InUse, Places, AtService, Object
<1>1. CASE i \notin InterfacesOf(frame.service) /\ Fail("other", search_cleanup)
    <2>1. ~watch.ready
        BY <1>0, <1>1 DEF FoundInv, ReadyInv
    <2>. QED
        BY <1>0, <1>1, <2>1, FailStep DEF search_cleanup
<1>2. CASE i # Number /\ Proceed(wrong_interface(i), {})
    <2>1. Moves("candidate", frame.todo \ {i}, frame.service, frame.found, frame.control,
                frame.data)
        BY <1>0, <1>2, StepFacts DEF Proceed, Continue, Moves, wrong_interface
    <2>2. InUse' = InUse \cup {} /\ {} \cap InUse = {}
        BY <1>0, <2>1 DEF InUse, Moves, Object
    <2>3. CountInv'
        BY <1>0, <1>2, <2>2, StepFacts, AcquireCount DEF Proceed, Allocates, MemoryLeft
    <2>4. "candidate" \in Places(frame.call)
        BY <1>0 DEF Places
    <2>5. watch.ready => /\ Number \in frame.todo \ {i}
                         /\ frame.todo \ {i} \subseteq InterfacesOf(frame.service)
        BY <1>0, <1>2 DEF FoundInv, ReadyInv
    <2>. QED
        BY <1>0, <1>2, <2>1, <2>3, <2>4, <2>5, MoveStep DEF Proceed
<1>3. CASE /\ i = Number
           /\ Allocates
           /\ held' = [held EXCEPT !["iterator"] = @ - 1, !["interface_service"] = @ + 1,
                          !["device_service"] = IF frame.call = "open" THEN @ - 1 ELSE @]
           /\ Continue([frame EXCEPT !.todo = {}, !.found = i,
                          !.pc = IF frame.call = "open" THEN "plug_in" ELSE "interface_id"])
           /\ UNCHANGED user
    <2>. DEFINE pc == IF frame.call = "open" THEN "plug_in" ELSE "interface_id"
    <2>1. Moves(pc, {}, frame.service, i, frame.control, frame.data)
        BY <1>0, <1>3, StepFacts DEF Continue, Moves
    <2>2. /\ frame'.pc = pc /\ frame'.call = frame.call
          /\ pc \in Places(frame.call) \ {frame.call}
          /\ pc \in {"plug_in", "interface_id"}
        BY <1>0, <2>1 DEF Moves, Places
    <2>3. InUse' = IF frame.call = "open" THEN {"handle", "interface_service"}
                   ELSE {"interface", "device_service", "interface_service"}
        BY <1>0, <2>2 DEF InUse
    <2>4. CountInv'
        <3>1. CountInv /\ UserType /\ held \in [Kinds -> Nat] /\ MemoryLeft
            BY <1>0, <1>3, StepFacts DEF CountInv, Allocates, MemoryLeft
        <3>2. held' = [k \in Kinds |-> held'[k]]
            BY <1>3, <3>1
        <3>3. ASSUME NEW k \in Kinds
              PROVE  /\ held'[k] \in Int
                     /\ held'[k] + One(k \in InUse) = held[k] + One(k \in InUse')
                     /\ held[k] + One(k \in InUse') \in Int
            <4>1. CASE frame.call = "open"
                <5>1. /\ InUse = {"handle", "device_service", "iterator"}
                      /\ InUse' = {"handle", "interface_service"}
                    BY <1>0, <2>3, <4>1 DEF Object
                <5>. QED
                    BY <1>3, <3>1, <4>1, <5>1 DEF Kinds, One
            <4>2. CASE frame.call = "interface"
                <5>1. /\ InUse = {"interface", "device_service", "iterator"}
                      /\ InUse' = {"interface", "device_service", "interface_service"}
                    BY <1>0, <2>3, <4>2 DEF Object
                <5>. QED
                    BY <1>3, <3>1, <4>2, <5>1 DEF Kinds, One
            <4>. QED
                BY <1>0, <4>1, <4>2
        <3>. QED
            BY <1>3, <3>1, <3>2, <3>3, HeldCount
    <2>. HIDE DEF pc
    <2>. QED
        BY <1>0, <1>3, <2>1, <2>2, <2>4, MoveStep
<1>. QED
    BY <1>1, <1>2, <1>3 DEF get_usb_interface

LEMMA InterfaceNotFound ==
    ASSUME CoreInv, FoundInv, interface_not_found, UNCHANGED busVars
    PROVE  CoreInv' /\ FoundInv'
<1>0. /\ frame.pc = "candidate" /\ frame.call \in {"interface", "open"}
      /\ InUse = {Object, "device_service", "iterator"} /\ frame.todo = {}
    BY StepFacts DEF interface_not_found, InUse, Places
<1>1. ~watch.ready
    BY <1>0 DEF FoundInv, ReadyInv
<1>. QED
    BY <1>0, <1>1, FailStep DEF search_cleanup, interface_not_found

LEMMA HandleBegin ==
    ASSUME CoreInv, FoundInv, handle_begin, UNCHANGED busVars
    PROVE  CoreInv' /\ FoundInv'
<1>0. frame.pc = "open" /\ frame.call = "open" /\ InUse = {}
    BY StepFacts DEF handle_begin, InUse, Places
<1>1. CASE NoMemory({})
    BY <1>0, <1>1, FailStep
<1>2. CASE Proceed([frame EXCEPT !.pc = "device_service"], {"handle"})
    <2>1. Moves("device_service", frame.todo, frame.service, frame.found, frame.control,
                frame.data)
        BY <1>0, <1>2, StepFacts DEF Proceed, Continue, Moves
    <2>2. InUse' = {"handle"}
        BY <1>0, <2>1 DEF InUse, Object, Moves
    <2>3. "device_service" \in Places(frame.call) /\ "device_service" \notin AtService
        BY <1>0 DEF Places, AtService
    <2>. QED
        BY <1>0, <1>2, <2>1, <2>2, <2>3, GoStep
<1>3. CASE Proceed([frame EXCEPT !.pc = "interface_service", !.found = Number], {"handle"})
    <2>1. Moves("interface_service", frame.todo, frame.service, Number, frame.control,
                frame.data)
        BY <1>0, <1>3, StepFacts DEF Proceed, Continue, Moves
    <2>2. InUse' = {"handle"}
        BY <1>0, <2>1 DEF InUse, Object, Moves
    <2>3. "interface_service" \in Places(frame.call) /\ "interface_service" \notin AtService
        BY <1>0 DEF Places, AtService
    <2>. QED
        BY <1>0, <1>3, <2>1, <2>2, <2>3, GoStep
<1>. QED
    BY <1>1, <1>2, <1>3 DEF handle_begin

LEMMA InterfaceFromId ==
    ASSUME CoreInv, FoundInv, interface_get_from_id, UNCHANGED busVars
    PROVE  CoreInv' /\ FoundInv'
<1>. DEFINE entries == {n \in entries_with_id(Target) : Number \in InterfacesOf(n)}
<1>0. /\ frame.pc = "interface_service" /\ frame.call = "open" /\ InUse = {"handle"}
      /\ frame.found = Number /\ frame.call \in Searches
    BY StepFacts, CallFacts DEF interface_get_from_id, InUse, Places, Object, Searches
<1>1. CASE entries = {} /\ Fail("other", {"handle"})
    <2>1. ~(Target \in Registered /\ Number \in InterfacesOf(Target))
        BY <1>1 DEF entries_with_id
    <2>2. ~watch.ready
        BY <1>0, <2>1, ReadyFacts, StepFacts DEF FoundInv
    <2>. HIDE DEF entries
    <2>. QED
        BY <1>0, <1>1, <2>2, FailStep
<1>2. ASSUME NEW n \in entries,
             Proceed([frame EXCEPT !.pc = "plug_in", !.service = n], {"interface_service"})
      PROVE  CoreInv' /\ FoundInv'
    <2>1. n = Target
        BY DEF entries_with_id
    <2>2. Moves("plug_in", frame.todo, n, frame.found, frame.control, frame.data)
        BY <1>0, <1>2, StepFacts DEF Proceed, Continue, Moves
    <2>3. InUse' = InUse \cup {"interface_service"} /\ {"interface_service"} \cap InUse = {}
        BY <1>0, <2>2 DEF InUse, Moves
    <2>4. "plug_in" \in Places(frame.call)
        BY <1>0 DEF Places
    <2>. HIDE DEF entries
    <2>. QED
        BY <1>0, <1>2, <2>1, <2>2, <2>3, <2>4, GoStep
<1>. QED
    BY <1>1, <1>2 DEF interface_get_from_id

LEMMA SetConfiguration ==
    ASSUME CoreInv, FoundInv, set_configuration, UNCHANGED busVars
    PROVE  CoreInv' /\ FoundInv'
<1>0. /\ frame.pc = "configuration" /\ frame.call = "open" /\ frame.service = Target
      /\ InUse = {"handle", "device_service"} /\ frame.call \in Searches
    BY StepFacts DEF set_configuration, InUse, Places, Object, AtService, Searches
<1>1. CASE frame.service \notin Registered /\ Fail("other", {"handle", "device_service"})
    <2>1. ~watch.ready
        BY <1>0, <1>1, ReadyFacts, StepFacts DEF FoundInv
    <2>. QED
        BY <1>0, <1>1, <2>1, FailStep
<1>2. CASE Proceed([frame EXCEPT !.pc = "children"], {})
    <2>1. Moves("children", frame.todo, frame.service, frame.found, frame.control, frame.data)
        BY <1>0, <1>2, StepFacts DEF Proceed, Continue, Moves
    <2>2. InUse' = InUse \cup {} /\ {} \cap InUse = {}
        BY <1>0, <2>1 DEF InUse, Object, Moves
    <2>3. "children" \in Places(frame.call)
        BY <1>0 DEF Places
    <2>. QED
        BY <1>0, <1>2, <2>1, <2>2, <2>3, GoStep
<1>3. CASE Proceed([frame EXCEPT !.pc = "device_open"], {"plug_in", "ioh"})
    <2>1. Moves("device_open", frame.todo, frame.service, frame.found, frame.control, frame.data)
        BY <1>0, <1>3, StepFacts DEF Proceed, Continue, Moves
    <2>2. InUse' = InUse \cup {"plug_in", "ioh"} /\ {"plug_in", "ioh"} \cap InUse = {}
        BY <1>0, <2>1 DEF InUse, Moves
    <2>3. "device_open" \in Places(frame.call)
        BY <1>0 DEF Places
    <2>. QED
        BY <1>0, <1>3, <2>1, <2>2, <2>3, GoStep
<1>. QED
    BY <1>1, <1>2, <1>3 DEF set_configuration

LEMMA DeviceOpen ==
    ASSUME CoreInv, FoundInv, device_open, UNCHANGED busVars
    PROVE  CoreInv' /\ FoundInv'
<1>0. /\ frame.pc = "device_open" /\ frame.call = "open" /\ frame.service = Target
      /\ InUse = {"handle", "device_service", "plug_in", "ioh"} /\ frame.call \in Searches
    BY StepFacts DEF device_open, InUse, Places, AtService, Searches
<1>1. ASSUME NEW error \in {"access", "other"}, error = "other" => frame.service \notin Registered,
             Fail(error, {"handle", "device_service", "plug_in", "ioh"})
      PROVE  CoreInv' /\ FoundInv'
    <2>1. watch.ready => error = "access"
        BY <1>0, <1>1, ReadyFacts, StepFacts DEF FoundInv
    <2>. QED
        BY <1>0, <1>1, <2>1, FailStep
<1>2. CASE Proceed([frame EXCEPT !.pc = "device_configure"], {"exclusive"})
    <2>1. Moves("device_configure", frame.todo, frame.service, frame.found, frame.control,
                frame.data)
        BY <1>0, <1>2, StepFacts DEF Proceed, Continue, Moves
    <2>2. InUse' = InUse \cup {"exclusive"} /\ {"exclusive"} \cap InUse = {}
        BY <1>0, <2>1 DEF InUse, Moves
    <2>3. "device_configure" \in Places(frame.call)
        BY <1>0 DEF Places
    <2>. QED
        BY <1>0, <1>2, <2>1, <2>2, <2>3, GoStep
<1>. QED
    BY <1>1, <1>2 DEF device_open

LEMMA DeviceConfigure ==
    ASSUME CoreInv, FoundInv, device_configure, UNCHANGED busVars
    PROVE  CoreInv' /\ FoundInv'
<1>0. /\ frame.pc = "device_configure" /\ frame.call = "open" /\ frame.service = Target
      /\ InUse = {"handle", "device_service", "plug_in", "ioh", "exclusive"}
      /\ frame.call \in Searches
    BY StepFacts DEF device_configure, InUse, Places, AtService, Searches
<1>1. ASSUME NEW error \in {"refused", "other"},
             error = "other" => frame.service \notin Registered,
             Fail(error, configure_cleanup \cup {"handle", "device_service"})
      PROVE  CoreInv' /\ FoundInv'
    <2>1. error = "other" => ~watch.ready
        BY <1>0, <1>1, ReadyFacts, StepFacts DEF FoundInv
    <2>2. configure_cleanup \cup {"handle", "device_service"} = InUse
        BY <1>0 DEF configure_cleanup
    <2>. QED
        BY <1>0, <1>1, <2>1, <2>2, FailStep
<1>2. CASE /\ Allocates
           /\ Release(configure_cleanup)
           /\ Continue([frame EXCEPT !.pc = "children"])
           /\ UNCHANGED user
    <2>1. Moves("children", frame.todo, frame.service, frame.found, frame.control, frame.data)
        BY <1>0, <1>2, StepFacts DEF Continue, Moves
    <2>2. /\ configure_cleanup \subseteq InUse /\ InUse' = InUse \ configure_cleanup
          /\ InUse' \subseteq InUse \ configure_cleanup
        BY <1>0, <2>1 DEF InUse, Moves, configure_cleanup, Object
    <2>3. CountInv'
        BY <1>0, <1>2, <2>2, StepFacts, ReleaseCount DEF Allocates, MemoryLeft
    <2>4. "children" \in Places(frame.call)
        BY <1>0 DEF Places
    <2>. QED
        BY <1>0, <1>2, <2>1, <2>3, <2>4, MoveStep
<1>. QED
    BY <1>1, <1>2 DEF device_configure

LEMMA CreatePlugIn ==
    ASSUME CoreInv, FoundInv, create_plug_in, UNCHANGED busVars
    PROVE  CoreInv' /\ FoundInv'
<1>0. /\ frame.pc = "plug_in" /\ frame.call = "open" /\ frame.service = Target
      /\ InUse = {"handle", "interface_service"} /\ frame.call \in Searches
      /\ frame.found = Number
    BY StepFacts, CallFacts DEF create_plug_in, InUse, Places, AtService, Searches
<1>1. CASE /\ Number \notin InterfacesOf(frame.service)
           /\ Fail("other", {"handle", "interface_service"})
    <2>1. ~watch.ready
        BY <1>0, <1>1, ReadyFacts, StepFacts DEF FoundInv
    <2>. QED
        BY <1>0, <1>1, <2>1, FailStep
<1>2. CASE Proceed([frame EXCEPT !.pc = "interface_open"], {"plug_in", "ioh"})
    <2>1. Moves("interface_open", frame.todo, frame.service, frame.found, frame.control,
                frame.data)
        BY <1>0, <1>2, StepFacts DEF Proceed, Continue, Moves
    <2>2. InUse' = InUse \cup {"plug_in", "ioh"} /\ {"plug_in", "ioh"} \cap InUse = {}
        BY <1>0, <2>1 DEF InUse, Moves
    <2>3. "interface_open" \in Places(frame.call)
        BY <1>0 DEF Places
    <2>. QED
        BY <1>0, <1>2, <2>1, <2>2, <2>3, GoStep
<1>. QED
    BY <1>1, <1>2 DEF create_plug_in

LEMMA InterfaceOpen ==
    ASSUME CoreInv, FoundInv, interface_open, UNCHANGED busVars
    PROVE  CoreInv' /\ FoundInv'
<1>0. /\ frame.pc = "interface_open" /\ frame.call = "open" /\ frame.service = Target
      /\ InUse = {"handle", "interface_service", "plug_in", "ioh"} /\ frame.call \in Searches
      /\ frame.found = Number
      /\ InUse = handle_close \cup {"interface_service"}
    BY StepFacts, CallFacts DEF interface_open, InUse, Places, AtService, Searches, handle_close
<1>1. ASSUME NEW error \in {"access", "other"},
             error = "other" => Number \notin InterfacesOf(frame.service),
             Fail(error, handle_close \cup {"interface_service"})
      PROVE  CoreInv' /\ FoundInv'
    <2>1. watch.ready => error = "access"
        BY <1>0, <1>1, ReadyFacts, StepFacts DEF FoundInv
    <2>. QED
        BY <1>0, <1>1, <2>1, FailStep
<1>2. CASE Proceed([frame EXCEPT !.pc = "pipes"], {"exclusive"})
    <2>1. Moves("pipes", frame.todo, frame.service, frame.found, frame.control, frame.data)
        BY <1>0, <1>2, StepFacts DEF Proceed, Continue, Moves
    <2>2. InUse' = InUse \cup {"exclusive"} /\ {"exclusive"} \cap InUse = {}
        BY <1>0, <2>1 DEF InUse, Moves
    <2>3. "pipes" \in Places(frame.call)
        BY <1>0 DEF Places
    <2>. QED
        BY <1>0, <1>2, <2>1, <2>2, <2>3, GoStep
<1>. QED
    BY <1>1, <1>2 DEF interface_open

LEMMA HandleReturn ==
    ASSUME CoreInv, FoundInv, handle_return, UNCHANGED busVars
    PROVE  CoreInv' /\ FoundInv'
<1>. DEFINE new == [device |-> user.interface.device, inst |-> frame.service,
                    asked |-> Number, number |-> frame.found]
<1>0. /\ frame.pc = "pipes" /\ frame.call = "open" /\ frame.service = Target
      /\ InUse = {"handle", "interface_service", "plug_in", "ioh", "exclusive"}
      /\ frame.call \in Searches /\ frame.found = Number /\ user.interface # NULL
      /\ InUse = handle_close \cup {"interface_service", "exclusive"}
    BY StepFacts, CallFacts DEF handle_return, InUse, Places, AtService, Searches, handle_close
<1>1. CASE /\ Number \notin InterfacesOf(frame.service)
           /\ Fail("other", handle_close \cup {"interface_service", "exclusive"})
    <2>1. ~watch.ready
        BY <1>0, <1>1, ReadyFacts, StepFacts DEF FoundInv
    <2>. QED
        BY <1>0, <1>1, <2>1, FailStep
<1>2. CASE Succeed("handle", new, {"interface_service"})
    <2>1. /\ Allocates /\ Release({"interface_service"}) /\ Returns("none")
          /\ user' = [user EXCEPT !["handle"] = new]
        BY <1>2 DEF Succeed
    <2>2. new \in Handle /\ new.inst = new.device.id /\ new.number = new.asked
        <3>1. /\ user.interface \in Interface
              /\ user.interface.device_id = user.interface.device.id
            BY <1>0, StepFacts DEF ObjectInv
        <3>2. /\ frame.service = user.interface.device_id /\ Number = user.interface.number
            BY <1>0 DEF Target, Number
        <3>. QED
            BY <1>0, <3>1, <3>2 DEF Interface, Handle
    <2>3. Object = "handle"
        BY <1>0 DEF Object
    <2>4. /\ held' = [k \in Kinds |-> held'[k]]
          /\ \A k \in Kinds :
                /\ held'[k] \in Int
                /\ held'[k] + One(k \in InUse) = held[k] + One(k \in OwnedBy("handle"))
        BY <1>0, <2>1, StepFacts DEF Release, CountInv, OwnedBy, OfHandle, One
    <2>. HIDE DEF new
    <2>. QED
        BY <1>0, <2>1, <2>2, <2>3, <2>4, MadeStep
<1>. QED
    BY <1>1, <1>2 DEF handle_return

-----------------------------------------------------------------------------
(* Serial ports.                                                           *)

LEMMA PortBegin ==
    ASSUME CoreInv, FoundInv, port_begin, UNCHANGED busVars
    PROVE  CoreInv' /\ FoundInv'
<1>0. frame.pc = "port" /\ frame.call = "port" /\ InUse = {}
    BY StepFacts DEF port_begin, InUse, Places
<1>1. CASE NoMemory({})
    BY <1>0, <1>1, FailStep
<1>2. CASE Proceed([frame EXCEPT !.pc = "device_service"], {"port"})
    <2>1. Moves("device_service", frame.todo, frame.service, frame.found, frame.control,
                frame.data)
        BY <1>0, <1>2, StepFacts DEF Proceed, Continue, Moves
    <2>2. InUse' = {"port"}
        BY <1>0, <2>1 DEF InUse, Object, Moves
    <2>3. "device_service" \in Places(frame.call) /\ "device_service" \notin AtService
        BY <1>0 DEF Places, AtService
    <2>. QED
        BY <1>0, <1>2, <2>1, <2>2, <2>3, GoStep
<1>. QED
    BY <1>1, <1>2 DEF port_begin

(* A walk begins below all interfaces, and has met none. *)
LEMMA EntriesBegin ==
    ASSUME CoreInv, FoundInv, entries_begin, UNCHANGED busVars
    PROVE  CoreInv' /\ FoundInv'
<1>0. /\ frame.pc = "entries" /\ frame.call = "port" /\ frame.service = Target
      /\ InUse = {"port", "device_service"} /\ frame.call \in Searches
    BY StepFacts DEF entries_begin, InUse, Places, AtService, Searches, Object
<1>1. CASE frame.service \notin Registered /\ Fail("other", {"port", "device_service"})
    <2>1. ~watch.ready
        BY <1>0, <1>1, ReadyFacts, StepFacts DEF FoundInv
    <2>. QED
        BY <1>0, <1>1, <2>1, FailStep
<1>2. CASE Proceed([frame EXCEPT !.pc = "entry", !.todo = Interfaces], {"iterator"})
    <2>1. Moves("entry", Interfaces, frame.service, frame.found, frame.control, frame.data)
        BY <1>0, <1>2, StepFacts DEF Proceed, Continue, Moves
    <2>2. InUse' = InUse \cup {"iterator"} /\ {"iterator"} \cap InUse = {}
        BY <1>0, <2>1 DEF InUse, Moves, Object
    <2>3. CountInv'
        BY <1>0, <1>2, <2>2, StepFacts, AcquireCount DEF Proceed, Allocates, MemoryLeft
    <2>4. "entry" \in Places(frame.call)
        BY <1>0 DEF Places
    <2>5. InterfacesOf(frame.service) \subseteq Interfaces
        BY DEF InterfacesOf
    <2>6. watch.ready =>
            \E i \in Interfaces \cap SerialOf(frame.service) :
                FunctionOf(frame.service, i) = Number
        BY <1>0, <2>5, ReadyFacts, StepFacts DEF FoundInv, SerialOf
    <2>7. frame.data \notin Interfaces
        BY <1>0, InterfacesAssumption DEF FoundInv, WalkInv
    <2>8. \A i \in Interfaces : i - 1 \notin InterfacesOf(frame.service) \ Interfaces
        BY <2>5
    <2>. QED
        BY <1>0, <1>2, <2>1, <2>3, <2>4, <2>6, <2>7, <2>8, MoveStep DEF Proceed
<1>. QED
    BY <1>1, <1>2 DEF entries_begin

(* An interface that comes next in the walk: what is left after it, and    *)
(* what serial_port_mac.c makes of the interfaces it has met.              *)
LEMMA WalkFacts ==
    ASSUME RegistryInv, FrameInv, WalkInv, frame.pc = "entry",
           NEW i \in frame.todo, \A j \in frame.todo : i <= j
    PROVE  /\ i \in Interfaces /\ i \in Nat
           /\ frame.todo \ {i} \subseteq Interfaces
           /\ \A j \in frame.todo \ {i}, k \in Interfaces : j <= k => k \in frame.todo \ {i}
           /\ \A j \in frame.todo \ {i} :
                 j - 1 \in InterfacesOf(frame.service) \ (frame.todo \ {i}) => j - 1 = i
           /\ i - 1 \notin frame.todo
<1>1. /\ frame.todo \subseteq Interfaces
      /\ \A j \in frame.todo, k \in Interfaces : j <= k => k \in frame.todo
    BY DEF WalkInv
<1>2. Interfaces \subseteq Nat /\ InterfacesOf(frame.service) \subseteq Interfaces
    BY InterfacesAssumption DEF InterfacesOf
<1>3. ASSUME NEW j \in frame.todo \ {i} PROVE j \in Nat /\ i \in Nat /\ i < j
    <2>1. j \in Nat /\ i \in Nat
        BY <1>1, <1>2
    <2>2. i <= j /\ i # j
        OBVIOUS
    <2>. QED
        BY <2>1, <2>2
<1>4. \A j \in frame.todo \ {i}, k \in Interfaces : j <= k => k \in frame.todo \ {i}
    BY <1>1, <1>2, <1>3
<1>5. ASSUME NEW j \in frame.todo \ {i},
             j - 1 \in InterfacesOf(frame.service) \ (frame.todo \ {i})
      PROVE  j - 1 = i
    <2>1. j - 1 \in Interfaces /\ i <= j - 1
        BY <1>2, <1>3, <1>5
    <2>2. j - 1 \in frame.todo
        BY <1>1, <2>1
    <2>. QED
        BY <1>5, <2>2
<1>6. i \in Nat /\ i - 1 \notin frame.todo
    BY <1>1, <1>2
<1>. QED
    BY <1>1, <1>4, <1>5, <1>6

(* The port of an interface is attributed to its function. *)
LEMMA FixedFacts ==
    ASSUME RegistryInv, FrameInv, WalkInv, frame.pc = "entry", ~watch.changed,
           NEW i \in frame.todo, \A j \in frame.todo : i <= j, i \in SerialOf(frame.service),
           NEW control, NEW data,
           control = IF DriverOf(frame.service, i) = "AppleUSBACMControl" THEN i
                     ELSE frame.control,
           data = IF DriverOf(frame.service, i) = "AppleUSBACMData" THEN i ELSE frame.data
    PROVE  fixed_interface(i, control, data) = FunctionOf(frame.service, i)
<1>0. /\ i \in Nat /\ i - 1 \notin frame.todo
    BY WalkFacts
<1>1. CASE DriverOf(frame.service, i) = "AppleUSBACMData"
    <2>1. /\ i - 1 \in InterfacesOf(frame.service) /\ FunctionOf(frame.service, i) = i - 1
          /\ DriverOf(frame.service, i - 1) = "AppleUSBACMControl"
        BY <1>1, SerialFacts
    <2>2. frame.control = i - 1
        BY <1>0, <2>1 DEF WalkInv
    <2>3. control = i - 1 /\ data = i
        BY <1>1, <2>2
    <2>4. i - 1 \in Interfaces
        BY <2>1 DEF InterfacesOf
    <2>5. i - 1 >= 0
        BY <2>4, InterfacesAssumption
    <2>. QED
        BY <2>1, <2>3, <2>5 DEF fixed_interface
<1>2. CASE DriverOf(frame.service, i) # "AppleUSBACMData"
    <2>1. FunctionOf(frame.service, i) = i
        BY <1>2, SerialFacts
    <2>2. data # i
        BY <1>2 DEF WalkInv
    <2>. QED
        BY <2>1, <2>2 DEF fixed_interface
<1>. QED
    BY <1>1, <1>2

(* The walk goes on after interface i. *)
LEMMA WalksOn ==
    ASSUME RegistryInv, CoreInv, FoundInv, frame.pc = "entry", UNCHANGED busVars,
           NEW i \in frame.todo, \A j \in frame.todo : i <= j,
           NEW f, Proceed(f, {}), NEW control, NEW data,
           Moves("entry", frame.todo \ {i}, frame.service, frame.found, control, data),
           data \in {frame.data, i},
           i \in InterfacesOf(frame.service)
               /\ DriverOf(frame.service, i) = "AppleUSBACMControl" => control = i,
           i \in SerialOf(frame.service) /\ ~watch.changed =>
               FunctionOf(frame.service, i) # Number
    PROVE  CoreInv' /\ FoundInv'
<1>. DEFINE rest == frame.todo \ {i}
<1>0. /\ frame.call = "port" /\ frame.service = Target
      /\ InUse = {"port", "device_service", "iterator"} /\ frame.call \in Searches
      /\ frame.pc # "idle"
    BY StepFacts DEF InUse, Places, AtService, Searches, Object
<1>1. /\ rest \subseteq Interfaces
      /\ \A j \in rest, k \in Interfaces : j <= k => k \in rest
      /\ \A j \in rest : j - 1 \in InterfacesOf(frame.service) \ rest => j - 1 = i
    BY <1>0, WalkFacts, StepFacts DEF FoundInv
<1>2. data \notin rest
    BY DEF FoundInv, WalkInv
<1>3. \A j \in rest :
        j - 1 \in InterfacesOf(frame.service) \ rest
        /\ DriverOf(frame.service, j - 1) = "AppleUSBACMControl" => control = j - 1
    BY <1>1
<1>4. watch.ready /\ ~watch.changed =>
        \E j \in rest \cap SerialOf(frame.service) : FunctionOf(frame.service, j) = Number
    BY <1>0 DEF FoundInv, ReadyInv
<1>5. InUse' = InUse \cup {} /\ {} \cap InUse = {}
    BY <1>0 DEF InUse, Moves, Object
<1>6. CountInv'
    BY <1>0, <1>5, StepFacts, AcquireCount DEF Proceed, Allocates, MemoryLeft
<1>7. "entry" \in Places(frame.call)
    BY <1>0 DEF Places
<1>. HIDE DEF rest
<1>8. Moves("entry", rest, frame.service, frame.found, control, data)
    BY DEF rest
<1>. QED
    BY <1>0, <1>1, <1>2, <1>3, <1>4, <1>6, <1>7, <1>8, MoveStep DEF Proceed

LEMMA PortEntry ==
    ASSUME RegistryInv, CoreInv, FoundInv, NEW i, port_entry(i), UNCHANGED busVars
    PROVE  CoreInv' /\ FoundInv'
<1>. DEFINE next == [frame EXCEPT !.todo = @ \ {i}]
            control == IF DriverOf(frame.service, i) = "AppleUSBACMControl" THEN i
                       ELSE frame.control
            data == IF DriverOf(frame.service, i) = "AppleUSBACMData" THEN i ELSE frame.data
<1>0. /\ frame.pc = "entry" /\ frame.call = "port" /\ frame.service = Target
      /\ InUse = {"port", "device_service", "iterator"} /\ frame.call \in Searches
      /\ i \in frame.todo /\ \A j \in frame.todo : i <= j
    BY StepFacts DEF port_entry, InUse, Places, AtService, Searches, Object
<1>1. /\ FrameInv /\ WalkInv /\ i \in Interfaces
      /\ data \in {frame.data, i}
    BY <1>0, StepFacts DEF FoundInv, WalkInv
<1>2. i \in SerialOf(frame.service) /\ ~watch.changed =>
        fixed_interface(i, control, data) = FunctionOf(frame.service, i)
    <2>. HIDE DEF control, data
    <2>. QED
        BY <1>0, <1>1, FixedFacts DEF control, data
<1>3. CASE i \notin InterfacesOf(frame.service) /\ Proceed(next, {})
    <2>1. Moves("entry", frame.todo \ {i}, frame.service, frame.found, frame.control, frame.data)
        BY <1>0, <1>3, StepFacts DEF Proceed, Continue, Moves
    <2>2. i \notin SerialOf(frame.service)
        BY <1>3 DEF SerialOf
    <2>. QED
        BY <1>0, <1>3, <2>1, <2>2, WalksOn
<1>4. CASE /\ i \notin SerialOf(frame.service)
           /\ Proceed([next EXCEPT !.control = control, !.data = data], {})
    <2>1. Moves("entry", frame.todo \ {i}, frame.service, frame.found, control, data)
        BY <1>0, <1>4, StepFacts DEF Proceed, Continue, Moves
    <2>2. DriverOf(frame.service, i) = "AppleUSBACMControl" => control = i
        OBVIOUS
    <2>. HIDE DEF control, data
    <2>. QED
        BY <1>0, <1>1, <1>4, <2>1, <2>2, WalksOn
<1>5. CASE /\ i \in SerialOf(frame.service) /\ fixed_interface(i, control, data) # Number
           /\ Proceed([next EXCEPT !.control = -1, !.data = data], {})
    <2>1. Moves("entry", frame.todo \ {i}, frame.service, frame.found, -1, data)
        BY <1>0, <1>5, StepFacts DEF Proceed, Continue, Moves
    <2>2. DriverOf(frame.service, i) # "AppleUSBACMControl"
        BY <1>5, SerialFacts
    <2>3. ~watch.changed => FunctionOf(frame.service, i) # Number
        BY <1>2, <1>5
    <2>. HIDE DEF control, data
    <2>. QED
        BY <1>0, <1>1, <1>5, <2>1, <2>2, <2>3, WalksOn
<1>6. CASE /\ i \in SerialOf(frame.service) /\ fixed_interface(i, control, data) = Number
           /\ Proceed([next EXCEPT !.pc = "port_name", !.todo = {}, !.found = i],
                      {"interface_service"})
    <2>1. Moves("port_name", {}, frame.service, i, frame.control, frame.data)
        BY <1>0, <1>6, StepFacts DEF Proceed, Continue, Moves
    <2>2. InUse' = InUse \cup {"interface_service"} /\ {"interface_service"} \cap InUse = {}
        BY <1>0, <2>1 DEF InUse, Moves
    <2>3. CountInv'
        BY <1>0, <1>6, <2>2, StepFacts, AcquireCount DEF Proceed, Allocates, MemoryLeft
    <2>4. "port_name" \in Places(frame.call)
        BY <1>0 DEF Places
    <2>5. ~watch.changed => FunctionOf(frame.service, i) = Number
        BY <1>2, <1>6
    <2>. HIDE DEF control, data
    <2>. QED
        BY <1>0, <1>1, <1>6, <2>1, <2>3, <2>4, <2>5, MoveStep DEF Proceed
<1>7. CASE watch.changed /\ Fail("other", search_port_cleanup)
    BY <1>0, <1>7, FailStep DEF search_port_cleanup
<1>. QED
    BY <1>3, <1>4, <1>5, <1>6, <1>7 DEF port_entry

LEMMA PortNotFound ==
    ASSUME CoreInv, FoundInv, port_not_found, UNCHANGED busVars
    PROVE  CoreInv' /\ FoundInv'
<1>0. /\ frame.pc = "entry" /\ frame.call = "port"
      /\ InUse = {"port", "device_service", "iterator"}
      /\ frame.todo = {} \/ watch.changed
    BY StepFacts DEF port_not_found, InUse, Places, Object
<1>1. watch.ready => watch.changed
    BY <1>0 DEF FoundInv, ReadyInv
<1>. QED
    BY <1>0, <1>1, FailStep DEF port_not_found, search_port_cleanup

LEMMA PortName ==
    ASSUME CoreInv, FoundInv, port_name, UNCHANGED busVars
    PROVE  CoreInv' /\ FoundInv'
<1>. DEFINE freed == {"device_service", "iterator", "interface_service"}
            new == [device |-> user.device, inst |-> frame.service,
                    number |-> frame.want, at |-> frame.found,
                    name |-> IF frame.found \in SerialOf(frame.service) THEN frame.found ELSE NULL]
<1>0. /\ frame.pc = "port_name" /\ frame.call = "port" /\ frame.service = Target
      /\ InUse = {"port", "device_service", "iterator", "interface_service"}
      /\ frame.call \in Searches /\ user.device # NULL /\ frame.want \in Interfaces
      /\ frame.found \in Interfaces /\ Object = "port"
    BY StepFacts, CallFacts DEF port_name, InUse, Places, AtService, Searches, FrameInv, Object
<1>1. CASE NoMemory(freed \cup {"port"})
    <2>1. freed \cup {"port"} \subseteq InUse
        BY <1>0
    <2>. HIDE DEF freed
    <2>. QED
        BY <1>0, <1>1, <2>1, FailStep
<1>2. CASE Succeed("port", new, freed)
    <2>1. /\ Allocates /\ Release(freed) /\ Returns("none")
          /\ user' = [user EXCEPT !["port"] = new]
        BY <1>2 DEF Succeed
    <2>2. /\ user.device \in Device /\ user.device.id \in 1..MaxPlugs
          /\ frame.service = user.device.id /\ Number = frame.want
        BY <1>0, StepFacts DEF ObjectInv, Device, Target, Number
    <2>3. new \in Port /\ new.inst = new.device.id
        BY <1>0, <2>2 DEF Port
    <2>4. ~watch.changed => new.number = FunctionOf(user.device.id, new.at)
        BY <1>0, <2>2 DEF FoundInv, WalkInv
    <2>5. /\ held' = [k \in Kinds |-> held'[k]]
          /\ \A k \in Kinds :
                /\ held'[k] \in Int
                /\ held'[k] + One(k \in InUse) = held[k] + One(k \in OwnedBy("port"))
        BY <1>0, <2>1, StepFacts DEF Release, CountInv, OwnedBy, One
    <2>. HIDE DEF new, freed
    <2>. QED
        BY <1>0, <2>1, <2>3, <2>4, <2>5, MadeStep
<1>. QED
    BY <1>1, <1>2 DEF port_name

-----------------------------------------------------------------------------
(* Lists of devices.                                                       *)

(* The state of a call that looks for nothing says nothing about it. *)
LEMMA ElsewhereFound ==
    ASSUME WatchInv', frame'.call \notin Searches, frame'.data = -1,
           frame'.pc \notin {"entry", "port_name"}, result'.call \notin Searches
    PROVE  FoundInv'
BY DEF FoundInv, WalkInv, ReadyInv, SerialPortIsRight, ReadyIsFound, Searches

LEMMA ListAppend ==
    ASSUME RegistryInv, CoreInv, FoundInv, device_list_append, UNCHANGED busVars
    PROVE  CoreInv' /\ FoundInv'
<1>. DEFINE d == DeviceFields(frame.found)
<1>0. /\ FrameInv /\ CountInv /\ ObjectInv /\ UserType /\ frame.pc = "append"
      /\ frame.call = "list" /\ user.device = NULL /\ frame.found \in Instances
      /\ InUse = {"iterator", "device", "device_service"} /\ frame.data = -1
      /\ result = NoResult
    BY StepFacts, CallFacts DEF device_list_append, InUse, Places, FrameInv, FoundInv, WalkInv
<1>1. /\ held \in [Kinds -> Nat] /\ ooms \in 0..MaxOoms
      /\ \A k \in Kinds : Owned(k) \in Nat
      /\ Len(user.list) \in Nat /\ user.list \in Seq(Device)
    BY <1>0, OwnedFacts DEF CountInv, UserType
<1>2. d \in Device /\ d.id \in Instances
    <2>1. frame.found \in 1..MaxPlugs /\ identity[frame.found] \in Models
        BY <1>0, InstanceBound DEF RegistryInv
    <2>. QED
        BY <1>0, <2>1 DEF DeviceFields, Device
<1>3. Instances' = Instances
    BY SameRegistry
<1>. HIDE DEF d
<1>4. CASE /\ Allocates
           /\ user' = [user EXCEPT !.list = Append(@, d)]
           /\ Release({"device_service"})
           /\ Continue([frame EXCEPT !.pc = "each", !.found = -1])
    <2>1. /\ user'.list = Append(user.list, d) /\ user'.copied = user.copied
          /\ \A x \in {"device", "interface", "port", "handle"} : user'[x] = user[x]
        BY <1>0, <1>4 DEF UserType
    <2>2. Moves("each", frame.todo, frame.service, -1, frame.control, frame.data)
        BY <1>0, <1>4, StepFacts DEF Continue, Moves
    <2>3. "each" \in Places(frame.call) /\ "each" \notin AtService
        BY <1>0 DEF Places, AtService
    <2>4. FrameInv' /\ frame'.pc = "each" /\ frame'.call = "list" /\ frame'.data = -1
        BY <1>0, <2>1, <2>2, <2>3, MoveFrame
    <2>5. InUse' = {"iterator"}
        BY <2>4 DEF InUse
    <2>6. UserType'
        <3>1. Append(user.list, d) \in Seq(Device)
            BY <1>1, <1>2
        <3>. QED
            BY <1>0, <1>4, <3>1 DEF UserType
    <2>7. CountInv'
        <3>1. ASSUME NEW k \in Kinds PROVE Owned(k)' = Owned(k) + One(k = "device")
            <4>1. CASE k = "device"
                <5>1. Len(user'.list) = Len(user.list) + 1
                    BY <1>1, <1>2, <2>1
                <5>2. /\ Owned(k) = Len(user.list) + One(user.device # NULL)
                                        + One(user.copied = k)
                      /\ Owned(k)' = Len(user'.list) + One(user'.device # NULL)
                                         + One(user'.copied = k)
                    BY <4>1 DEF Owned
                <5>3. One(user.device # NULL) \in Nat /\ One(user.copied = k) \in Nat
                    BY DEF One
                <5>4. /\ One(user'.device # NULL) = One(user.device # NULL)
                      /\ One(user'.copied = k) = One(user.copied = k)
                    BY <2>1
                <5>5. One(k = "device") = 1
                    BY <4>1 DEF One
                <5>. QED
                    BY <1>1, <5>1, <5>2, <5>3, <5>4, <5>5
            <4>2. CASE k # "device"
                <5>1. Owned(k)' = Owned(k)
                    BY <2>1, <4>2 DEF Owned
                <5>. QED
                    BY <1>1, <4>2, <5>1 DEF One
            <4>. QED
                BY <4>1, <4>2
        <3>2. ASSUME NEW k \in Kinds
              PROVE  /\ Owned(k) \in Nat /\ Owned(k)' \in Nat /\ held'[k] \in Int
                     /\ held'[k] + Owned(k) + One(k \in InUse)
                            = held[k] + Owned(k)' + One(k \in InUse')
                     /\ held[k] + Owned(k)' + One(k \in InUse') \in Int
            <4>1. /\ One(k = "device") \in Nat /\ One(k \in InUse) \in Nat
                  /\ One(k \in InUse') \in Nat /\ held[k] \in Nat
                BY <1>1 DEF One
            <4>2. CASE k = "device"
                <5>1. /\ held'[k] = held[k] /\ One(k = "device") = 1
                      /\ One(k \in InUse) = 1 /\ One(k \in InUse') = 0
                    BY <1>0, <1>1, <1>4, <2>5, <4>2 DEF Release, One
                <5>2. Owned(k)' = Owned(k) + 1 /\ Owned(k) \in Nat
                    BY <1>1, <3>1, <5>1
                <5>. QED
                    BY <4>1, <5>1, <5>2
            <4>3. CASE k = "device_service"
                <5>1. /\ held'[k] = held[k] - 1 /\ One(k = "device") = 0
                      /\ One(k \in InUse) = 1 /\ One(k \in InUse') = 0
                    BY <1>0, <1>1, <1>4, <2>5, <4>3 DEF Release, One
                <5>. QED
                    BY <1>1, <3>1, <4>1, <5>1
            <4>4. CASE k \notin {"device", "device_service"}
                <5>1. /\ held'[k] = held[k] /\ One(k = "device") = 0
                      /\ One(k \in InUse) = One(k \in InUse')
                    BY <1>0, <1>1, <1>4, <2>5, <4>4 DEF Release, One
                <5>. QED
                    BY <1>1, <3>1, <4>1, <5>1
            <4>. QED
                BY <4>2, <4>3, <4>4
        <3>3. MemoryLeft /\ held' = [k \in Kinds |-> held'[k]]
            BY <1>4 DEF Allocates, MemoryLeft, Release
        <3>. QED
            BY <1>0, <3>2, <3>3, CountKept
    <2>8. ObjectInv'
        <3>1. (\A k \in DOMAIN user.list : user.list[k].id \in Instances)'
            <4>1. ASSUME NEW k \in DOMAIN user'.list PROVE user'.list[k].id \in Instances
                <5>1. /\ k \in 1..(Len(user.list) + 1)
                      /\ k \in 1..Len(user.list) => user'.list[k] = user.list[k]
                      /\ k = Len(user.list) + 1 => user'.list[k] = d
                    BY <1>1, <1>2, <2>1, <4>1
                <5>2. CASE k \in 1..Len(user.list)
                    BY <1>0, <1>1, <5>1, <5>2 DEF ObjectInv
                <5>3. CASE k = Len(user.list) + 1
                    BY <1>2, <5>1, <5>3
                <5>. QED
                    BY <1>1, <5>1, <5>2, <5>3
            <4>. QED
                BY <1>3, <4>1
        <3>. QED
            BY <1>0, <1>3, <2>1, <2>6, <3>1 DEF ObjectInv, OpensListedDevice, UserType
    <2>9. FoundInv'
        <3>1. WatchInv' /\ result'.call \notin Searches /\ frame'.call \notin Searches
            BY <1>0, <1>4, <2>4 DEF Allocates, Continue, NoResult, FoundInv, WatchInv, Searches
        <3>. QED
            BY <2>4, <3>1, ElsewhereFound
    <2>. QED
        BY <2>4, <2>7, <2>8, <2>9 DEF CoreInv
<1>5. CASE /\ OutOfMemory
           /\ user' = [user EXCEPT !.list = <<>>]
           /\ held' = [held EXCEPT !["device"] = @ - Len(user.list), !["iterator"] = @ - 1,
                                   !["device_service"] = @ - 1]
           /\ Returns("memory")
    <2>1. /\ user'.list = <<>> /\ user'.copied = user.copied
          /\ \A x \in {"device", "interface", "port", "handle"} : user'[x] = user[x]
        BY <1>0, <1>5 DEF UserType
    <2>2. FrameInv' /\ frame'.pc = "idle" /\ InUse' = {}
        BY <1>5, <2>1, EndFrame
    <2>3. UserType'
        <3>1. <<>> \in Seq(Device)
            OBVIOUS
        <3>. QED
            BY <1>0, <1>5, <3>1 DEF UserType
    <2>4. CountInv'
        <3>1. ASSUME NEW k \in Kinds
              PROVE  /\ Owned(k)' \in Nat
                     /\ Owned(k) = Owned(k)' + IF k = "device" THEN Len(user.list) ELSE 0
            <4>1. CASE k = "device"
                <5>1. Len(user'.list) = 0
                    BY <2>1
                <5>2. /\ Owned(k) = Len(user.list) + One(user.device # NULL)
                                        + One(user.copied = k)
                      /\ Owned(k)' = Len(user'.list) + One(user'.device # NULL)
                                         + One(user'.copied = k)
                    BY <4>1 DEF Owned
                <5>3. One(user.device # NULL) \in Nat /\ One(user.copied = k) \in Nat
                    BY DEF One
                <5>4. /\ One(user'.device # NULL) = One(user.device # NULL)
                      /\ One(user'.copied = k) = One(user.copied = k)
                    BY <2>1
                <5>5. Len(user.list) \in Nat
                    BY <1>1
                <5>. QED
                    BY SMTT(40), <4>1, <5>1, <5>2, <5>3, <5>4, <5>5
            <4>2. CASE k # "device"
                <5>1. Owned(k)' = Owned(k)
                    BY <2>1, <4>2 DEF Owned
                <5>. QED
                    BY <1>1, <4>2, <5>1
            <4>. QED
                BY <4>1, <4>2
        <3>2. ASSUME NEW k \in Kinds
              PROVE  /\ Owned(k) \in Nat /\ Owned(k)' \in Nat /\ held'[k] \in Int
                     /\ held'[k] + Owned(k) + One(k \in InUse)
                            >= held[k] + Owned(k)' + One(k \in InUse')
            <4>1. /\ held[k] \in Nat /\ One(k \in InUse') = 0
                BY <1>1, <2>2 DEF One
            <4>2. CASE k = "device"
                <5>1. held'[k] = held[k] - Len(user.list) /\ One(k \in InUse) = 1
                    BY <1>0, <1>1, <1>5, <4>2 DEF One
                <5>2. /\ Owned(k) = Owned(k)' + Len(user.list) /\ Owned(k)' \in Nat
                      /\ Len(user.list) \in Nat
                    BY <1>1, <3>1, <4>2
                <5>. QED
                    BY SMTT(40), <4>1, <5>1, <5>2
            <4>3. CASE k \in {"iterator", "device_service"}
                <5>1. held'[k] = held[k] - 1 /\ One(k \in InUse) = 1
                    BY <1>0, <1>1, <1>5, <4>3 DEF One
                <5>. QED
                    BY <1>1, <3>1, <4>1, <4>3, <5>1
            <4>4. CASE k \notin {"device", "iterator", "device_service"}
                <5>1. held'[k] = held[k] /\ One(k \in InUse) = 0
                    BY <1>0, <1>1, <1>5, <4>4 DEF One
                <5>. QED
                    BY <1>1, <3>1, <4>1, <4>4, <5>1
            <4>. QED
                BY <4>2, <4>3, <4>4
        <3>3. MemoryLeft /\ ooms' # ooms
            BY <1>1, <1>5, OomsAssumption DEF OutOfMemory, MemoryLeft
        <3>4. held' = [k \in Kinds |-> held'[k]]
            BY <1>1, <1>5
        <3>. QED
            BY <1>0, <3>2, <3>3, <3>4, CountKept
    <2>5. ObjectInv'
        BY <1>0, <1>3, <2>1, <2>3 DEF ObjectInv, OpensListedDevice, UserType
    <2>6. FoundInv'
        <3>1. /\ WatchInv' /\ result'.call = "list" /\ frame'.call = "none" /\ frame'.data = -1
            BY <1>0, <1>5 DEF OutOfMemory, Returns, IdleFrame, FoundInv, WatchInv
        <3>. QED
            BY <2>2, <3>1, ElsewhereFound DEF Searches
    <2>. QED
        BY <2>2, <2>4, <2>5, <2>6 DEF CoreInv
<1>. QED
    BY <1>4, <1>5 DEF device_list_append, d

LEMMA ListReturn ==
    ASSUME CoreInv, FoundInv, list_return, UNCHANGED busVars
    PROVE  CoreInv' /\ FoundInv'
<1>0. /\ frame.pc = "each" /\ frame.call = "list" /\ InUse = {"iterator"} /\ user' = user
      /\ frame.pc # "idle"
    BY StepFacts DEF list_return, InUse, Places
<1>1. FrameInv' /\ InUse' = {} /\ frame'.pc = "idle"
    <2>1. user'.list # <<>> => user'.device = NULL
        BY <1>0 DEF CoreInv, FrameInv
    <2>. QED
        BY <2>1, EndFrame DEF list_return
<1>2. CountInv'
    <2>1. /\ {"iterator"} \subseteq InUse /\ InUse' = InUse \ {"iterator"}
          /\ InUse' \subseteq InUse \ {"iterator"}
        BY <1>0, <1>1
    <2>. QED
        BY <1>0, <2>1, StepFacts, ReleaseCount DEF list_return, MemoryLeft
<1>3. ObjectInv'
    BY <1>0, SameObjects DEF CoreInv
<1>4. FoundInv'
    <2>1. /\ WatchInv' /\ result'.call = "list" /\ frame'.call = "none" /\ frame'.data = -1
        BY <1>0 DEF list_return, Returns, IdleFrame, FoundInv, WatchInv
    <2>. QED
        BY <1>1, <2>1, ElsewhereFound DEF Searches
<1>. QED
    BY <1>1, <1>2, <1>3, <1>4 DEF CoreInv

LEMMA CallKeeps ==
    ASSUME RegistryInv, CoreInv, FoundInv, CallStep
    PROVE  CoreInv' /\ FoundInv'
<1>1. UNCHANGED busVars
    BY DEF CallStep
<1>2. CASE \/ device_configure \/ list_begin \/ \E n \in frame.todo : try_create_device(n)
           \/ device_list_append \/ list_return \/ generic_interface_begin
           \/ generic_interface_return \/ service_get_from_id \/ get_child_iterator
           \/ \E i \in frame.todo : get_usb_interface(i)
    BY <1>1, <1>2, DeviceConfigure, ListBegin, TryCreate, ListAppend, ListReturn, InterfaceBegin,
       InterfaceReturn, ServiceFromId, ChildIterator, GetUsbInterface
<1>3. CASE \/ interface_not_found \/ handle_begin \/ interface_get_from_id \/ set_configuration
           \/ device_open \/ create_plug_in \/ interface_open \/ handle_return \/ port_begin
           \/ entries_begin \/ \E i \in frame.todo : port_entry(i)
           \/ port_not_found \/ port_name
    BY <1>1, <1>3, InterfaceNotFound, HandleBegin, InterfaceFromId, SetConfiguration, DeviceOpen,
       CreatePlugIn, InterfaceOpen, HandleReturn, PortBegin, EntriesBegin, PortEntry,
       PortNotFound, PortName
<1>. QED
    BY <1>2, <1>3 DEF CallStep

-----------------------------------------------------------------------------
(* The user.                                                               *)

LEMMA IdleFacts ==
    ASSUME CoreInv, frame.pc = "idle"
    PROVE  /\ FrameInv /\ UserType /\ frame = IdleFrame /\ InUse = {}
           /\ held \in [Kinds -> Nat] /\ ooms \in 0..MaxOoms
           /\ \A k \in Kinds : Owned(k) \in Nat /\ One(k \in InUse) = 0
<1>1. InUse = {}
    BY DEF InUse
<1>. QED
    BY <1>1, CoreTypes, OwnedFacts DEF CoreInv, FrameInv, CountInv, One

(* A call begins. *)
LEMMA EnterStep ==
    ASSUME CoreInv, NEW call, NEW want, NEW composite, Enter(call, want, composite),
           \/ call = "list" /\ user.device = NULL /\ user.list = <<>>
           \/ /\ call \in {"interface", "port"} /\ want \in Interfaces
              /\ user.device # NULL /\ user[call] = NULL
           \/ call = "open" /\ user.interface # NULL /\ user.handle = NULL
    PROVE  CoreInv' /\ FoundInv'
<1>1. /\ frame' = [pc |-> call, call |-> call, want |-> want, composite |-> composite,
                   todo |-> {}, service |-> 0, found |-> -1, control |-> -1, data |-> -1]
      /\ result' = NoResult /\ frame.pc = "idle"
      /\ UNCHANGED <<busVars, user, held, ooms>>
    BY DEF Enter, IdleFrame
<1>2. /\ frame'.pc = call /\ frame'.call = call /\ frame'.want = want
      /\ frame'.composite = composite /\ frame'.data = -1
    BY <1>1
<1>3. FrameInv'
    <2>1. FrameInv
        BY DEF CoreInv
    <2>. QED
        BY <1>1, <1>2, <2>1 DEF FrameInv, AtService
<1>4. InUse' = InUse
    <2>1. InUse = {}
        BY <1>1, IdleFacts
    <2>2. InUse' = {}
        BY <1>2 DEF InUse
    <2>. QED
        BY <2>1, <2>2
<1>5. CountInv'
    BY <1>1, <1>4, SameCount, CoreTypes DEF CoreInv, MemoryLeft
<1>6. ObjectInv'
    BY <1>1, SameObjects DEF CoreInv
<1>7. WatchInv' /\ watch'.ready = Ready(call, want, composite)
    BY DEF Enter, WatchInv
<1>8. FoundInv'
    <2>1. WalkInv'
        BY <1>2 DEF WalkInv
    <2>2. Ready(frame.call, frame.want, frame.composite)' <=> Ready(call, want, composite)
        <3>1. /\ InterfacesOf(user.device.id)' = InterfacesOf(user.device.id)
              /\ InterfacesOf(user.interface.device_id)'
                     = InterfacesOf(user.interface.device_id)
            BY <1>1 DEF InterfacesOf, Registered, Connected, PortOf, busVars
        <3>2. SerialOf(user.device.id)' = SerialOf(user.device.id)
            BY <1>1, <3>1 DEF SerialOf, PortOf, busVars
        <3>3. \A i : FunctionOf(user.device.id, i)' = FunctionOf(user.device.id, i)
            BY <1>1 DEF FunctionOf, DriverOf, PortOf, busVars
        <3>. QED
            BY <1>1, <1>2, <3>1, <3>2, <3>3 DEF Ready
    <2>3. ReadyInv'
        BY <1>2, <1>7, <2>2 DEF ReadyInv
    <2>4. SerialPortIsRight' /\ ReadyIsFound'
        BY <1>1 DEF SerialPortIsRight, ReadyIsFound, NoResult
    <2>. QED
        BY <1>7, <2>1, <2>3, <2>4 DEF FoundInv
<1>. QED
    BY <1>3, <1>5, <1>6, <1>8 DEF CoreInv

(* Between calls, the user frees or copies an object. *)
LEMMA IdleKept ==
    ASSUME CoreInv, NEW call \in {"none", "copy"}, Idle(call),
           user'.list # <<>> => user'.device = NULL
    PROVE  FrameInv' /\ InUse' = {} /\ frame'.pc = "idle" /\ FoundInv'
<1>1. FrameInv /\ frame = IdleFrame /\ frame' = frame /\ frame.pc = "idle"
    BY IdleFacts DEF Idle
<1>2. InUse' = {}
    BY <1>1 DEF InUse
<1>3. FrameInv'
    BY <1>1 DEF FrameInv, IdleFrame, AtService
<1>4. /\ WatchInv' /\ result'.call = call /\ frame'.call = "none" /\ frame'.data = -1
    BY <1>1 DEF Idle, NoWatch, NoResult, WatchInv, IdleFrame
<1>5. FoundInv'
    BY <1>1, <1>4, ElsewhereFound DEF Searches
<1>. QED
    BY <1>1, <1>2, <1>3, <1>5

LEMMA ListFree ==
    ASSUME CoreInv, list_free
    PROVE  CoreInv' /\ FoundInv'
<1>0. /\ FrameInv /\ UserType /\ frame.pc = "idle" /\ InUse = {}
      /\ held \in [Kinds -> Nat] /\ ooms \in 0..MaxOoms /\ ooms' = ooms
      /\ \A k \in Kinds : Owned(k) \in Nat /\ One(k \in InUse) = 0
      /\ user.list # <<>> /\ user.device = NULL /\ UNCHANGED busVars /\ Idle("none")
    BY IdleFacts DEF list_free, Idle, FrameInv
<1>1. PICK d \in {NULL} \cup {user.list[k] : k \in DOMAIN user.list} :
        /\ user' = [user EXCEPT !.list = <<>>, !.device = d]
        /\ held' = [held EXCEPT !["device"] =
                        @ - (Len(user.list) - IF d = NULL THEN 0 ELSE 1)]
    BY DEF list_free
<1>2. /\ user'.list = <<>> /\ user'.device = d
      /\ user'.handle = user.handle /\ user'.copied = user.copied
      /\ \A x \in {"interface", "port"} : user'[x] = user[x]
    BY <1>0, <1>1 DEF UserType
<1>3. d # NULL => d \in Device /\ d.id \in Instances
    BY <1>0 DEF UserType, CoreInv, ObjectInv
<1>4. FrameInv' /\ InUse' = {} /\ frame'.pc = "idle" /\ FoundInv'
    BY <1>0, <1>2, IdleKept
<1>5. CountInv'
    <2>. DEFINE freed == Len(user.list) - IF d = NULL THEN 0 ELSE 1
    <2>1. Len(user.list) \in Nat /\ Len(user.list) > 0 /\ freed \in Nat
        BY <1>0 DEF UserType
    <2>2. ASSUME NEW k \in Kinds
          PROVE  /\ Owned(k)' \in Nat
                 /\ Owned(k) = Owned(k)' + IF k = "device" THEN freed ELSE 0
        <3>1. CASE k = "device"
            <4>1. /\ Owned(k) = Len(user.list) + One(user.device # NULL)
                                    + One(user.copied = k)
                  /\ Owned(k)' = Len(user'.list) + One(user'.device # NULL)
                                     + One(user'.copied = k)
                BY <3>1 DEF Owned
            <4>2. /\ One(user.device # NULL) = 0 /\ One(user.copied = k) \in Nat
                  /\ Len(user'.list) = 0
                  /\ One(user'.copied = k) = One(user.copied = k)
                  /\ One(user'.device # NULL) = IF d = NULL THEN 0 ELSE 1
                BY <1>0, <1>2 DEF One
            <4>. HIDE DEF freed
            <4>4. CASE d = NULL
                <5>1. freed = Len(user.list) /\ One(user'.device # NULL) = 0
                    BY <2>1, <4>2, <4>4 DEF freed
                <5>. QED
                    BY <2>1, <3>1, <4>1, <4>2, <5>1
            <4>5. CASE d # NULL
                <5>1. freed = Len(user.list) - 1 /\ One(user'.device # NULL) = 1
                    BY <2>1, <4>2, <4>5 DEF freed
                <5>. QED
                    BY <2>1, <3>1, <4>1, <4>2, <5>1
            <4>. QED
                BY <4>4, <4>5
        <3>2. CASE k # "device"
            <4>1. Owned(k)' = Owned(k)
                BY <1>2, <3>2 DEF Owned
            <4>. QED
                BY <1>0, <3>2, <4>1
        <3>. QED
            BY <3>1, <3>2
    <2>3. ASSUME NEW k \in Kinds
          PROVE  /\ held'[k] \in Nat /\ held'[k] >= Owned(k)' + One(k \in InUse')
                 /\ ooms = MaxOoms => held'[k] = Owned(k)' + One(k \in InUse')
        <3>1. /\ held[k] >= Owned(k)
              /\ ooms = MaxOoms => held[k] = Owned(k)
            BY <1>0 DEF CoreInv, CountInv
        <3>2. held'[k] = held[k] - IF k = "device" THEN freed ELSE 0
            <4>1. held' = [held EXCEPT !["device"] = @ - freed] /\ held[k] \in Nat
                BY <1>0, <1>1
            <4>. HIDE DEF freed
            <4>2. CASE k = "device"
                BY <1>0, <4>1, <4>2
            <4>3. CASE k # "device"
                BY <1>0, <4>1, <4>3
            <4>. QED
                BY <4>2, <4>3
        <3>3. One(k \in InUse') = 0
            BY <1>4 DEF One
        <3>. HIDE DEF freed
        <3>. QED
            BY <1>0, <2>1, <2>2, <3>1, <3>2, <3>3
    <2>4. held' = [k \in Kinds |-> held'[k]]
        BY <1>0, <1>1
    <2>. QED
        BY <1>0, <2>3, <2>4 DEF CountInv
<1>6. ObjectInv'
    <2>1. Instances' = Instances
        BY <1>0, SameRegistry
    <2>2. UserType'
        <3>1. <<>> \in Seq(Device)
            OBVIOUS
        <3>. QED
            BY <1>0, <1>1, <1>3, <3>1 DEF UserType
    <2>. QED
        BY <1>2, <1>3, <2>1, <2>2 DEF CoreInv, ObjectInv, OpensListedDevice, UserType
<1>. QED
    BY <1>4, <1>5, <1>6 DEF CoreInv

(* The counts after a step between calls that gives back the resources of  *)
(* S, which the user no longer owns.                                       *)
LEMMA IdleRelease ==
    ASSUME CoreInv, frame.pc = "idle", ooms' = ooms, InUse' = {}, NEW S, Release(S),
           \A k \in Kinds : Owned(k)' \in Nat /\ Owned(k) = Owned(k)' + One(k \in S)
    PROVE  CountInv'
<1>1. /\ held \in [Kinds -> Nat] /\ ooms \in 0..MaxOoms
      /\ \A k \in Kinds : One(k \in InUse) = 0 /\ One(k \in InUse') = 0
    BY IdleFacts DEF One
<1>2. ASSUME NEW k \in Kinds
      PROVE  /\ held'[k] \in Nat /\ held'[k] >= Owned(k)' + One(k \in InUse')
             /\ ooms = MaxOoms => held'[k] = Owned(k)' + One(k \in InUse')
    <2>1. /\ held[k] >= Owned(k) + One(k \in InUse)
          /\ ooms = MaxOoms => held[k] = Owned(k) + One(k \in InUse)
        BY DEF CoreInv, CountInv
    <2>2. held'[k] = held[k] - One(k \in S) /\ One(k \in S) \in {0, 1}
        BY <1>1 DEF Release, One
    <2>. QED
        BY <1>1, <2>1, <2>2
<1>3. held' = [k \in Kinds |-> held'[k]]
    BY DEF Release
<1>. QED
    BY <1>1, <1>2, <1>3 DEF CountInv

(* The user frees an object, or closes a handle. *)
LEMMA FreeStep ==
    ASSUME CoreInv, NEW kind \in {"device", "interface", "port", "handle"},
           Idle("none"), user[kind] # NULL, user' = [user EXCEPT ![kind] = NULL],
           Release(OwnedBy(kind)), ooms' = ooms
    PROVE  CoreInv' /\ FoundInv'
<1>0. /\ FrameInv /\ UserType /\ frame.pc = "idle" /\ UNCHANGED busVars
      /\ \A k \in Kinds : Owned(k) \in Nat
    BY IdleFacts DEF Idle
<1>1. /\ user'.list = user.list /\ user'.copied = user.copied /\ user'[kind] = NULL
      /\ \A x \in {"device", "interface", "port", "handle"} : x # kind => user'[x] = user[x]
    BY <1>0 DEF UserType
<1>2. UserType'
    BY <1>0 DEF UserType
<1>3. FrameInv' /\ InUse' = {} /\ frame'.pc = "idle" /\ FoundInv'
    <2>1. user'.list # <<>> => user'.device = NULL
        BY <1>0, <1>1 DEF FrameInv
    <2>. QED
        BY <1>0, <2>1, IdleKept
<1>4. CountInv'
    <2>1. ASSUME NEW k \in Kinds
          PROVE  Owned(k)' \in Nat /\ Owned(k) = Owned(k)' + One(k \in OwnedBy(kind))
        <3>0. /\ One(user.copied = k) \in Nat /\ One(user'.copied = k) = One(user.copied = k)
              /\ One(user'.device # NULL) \in Nat /\ Len(user.list) \in Nat
              /\ One(user'[k] # NULL) \in Nat /\ One(user'.handle # NULL) \in Nat
              /\ One(k \in OwnedBy(kind)) \in Nat /\ Len(user'.list) = Len(user.list)
            BY <1>0, <1>1 DEF One, UserType
        <3>1. CASE k = "device"
            <4>1. /\ Owned(k) = Len(user.list) + One(user.device # NULL)
                                    + One(user.copied = k)
                  /\ Owned(k)' = Len(user'.list) + One(user'.device # NULL)
                                     + One(user'.copied = k)
                BY <3>1 DEF Owned
            <4>3. /\ Owned(k) = Len(user.list) + One(user.device # NULL)
                                    + One(user.copied = k)
                  /\ Owned(k)' = Len(user.list) + One(user'.device # NULL)
                                     + One(user.copied = k)
                BY <3>0, <4>1
            <4>4. CASE kind = "device"
                <5>1. One(user.device # NULL) = 1 /\ One(user'.device # NULL) = 0
                      /\ One(k \in OwnedBy(kind)) = 1
                    BY <1>0, <1>1, <3>1, <4>4 DEF One, OwnedBy
                <5>. QED
                    BY <3>0, <4>3, <5>1
            <4>5. CASE kind # "device"
                <5>1. One(user.device # NULL) = One(user'.device # NULL)
                      /\ One(k \in OwnedBy(kind)) = 0
                    BY <1>0, <1>1, <3>1, <4>5 DEF One, OwnedBy, OfHandle
                <5>. QED
                    BY <3>0, <4>3, <5>1
            <4>. QED
                BY <4>4, <4>5
        <3>2. CASE k \in {"interface", "port"}
            <4>1. /\ Owned(k) = One(user[k] # NULL) + One(user.copied = k)
                  /\ Owned(k)' = One(user'[k] # NULL) + One(user'.copied = k)
                BY <3>2 DEF Owned
            <4>2. One(user[k] # NULL) = One(user'[k] # NULL) + One(k \in OwnedBy(kind))
                BY <1>0, <1>1, <3>2 DEF One, OwnedBy, OfHandle
            <4>. QED
                BY SMTT(40), <3>0, <4>1, <4>2
        <3>3. CASE k \in OfHandle
            <4>1. /\ Owned(k) = One(user.handle # NULL)
                  /\ Owned(k)' = One(user'.handle # NULL)
                BY <3>3 DEF Owned, OfHandle
            <4>2. One(user.handle # NULL) = One(user'.handle # NULL) + One(k \in OwnedBy(kind))
                BY <1>0, <1>1, <3>3 DEF One, OwnedBy, OfHandle
            <4>. QED
                BY <3>0, <4>1, <4>2
        <3>4. CASE k \in {"device_service", "interface_service", "iterator"}
            <4>1. Owned(k) = 0 /\ Owned(k)' = 0 /\ One(k \in OwnedBy(kind)) = 0
                BY <3>4 DEF Owned, One, OwnedBy, OfHandle
            <4>. QED
                BY <4>1
        <3>. QED
            BY <3>1, <3>2, <3>3, <3>4 DEF Kinds, OfHandle
    <2>. QED
        BY <1>0, <1>3, <2>1, IdleRelease
<1>5. ObjectInv'
    <2>1. Instances' = Instances
        BY <1>0, SameRegistry
    <2>2. \A x \in {"device", "interface", "port", "handle"} :
            user'[x] # NULL => user'[x] = user[x]
        BY <1>1
    <2>. QED
        BY <1>1, <1>2, <2>1, <2>2 DEF CoreInv, ObjectInv, OpensListedDevice, UserType
<1>. QED
    BY <1>3, <1>4, <1>5 DEF CoreInv

(* Copies change what the user owns of one kind. *)
LEMMA CopiedOwned ==
    ASSUME UserType, NEW kind \in {"device", "interface", "port"}, NEW k \in Kinds,
           \/ user.copied = NULL /\ user' = [user EXCEPT !.copied = kind]
           \/ user.copied = kind /\ user' = [user EXCEPT !.copied = NULL]
    PROVE  /\ UserType'
           /\ \A x \in {"list", "device", "interface", "port", "handle"} : user'[x] = user[x]
           /\ Owned(k) \in Nat /\ Owned(k)' \in Nat
           /\ user.copied = NULL => Owned(k)' = Owned(k) + One(k = kind)
           /\ user.copied = kind => Owned(k) = Owned(k)' + One(k = kind)
<1>1. /\ UserType'
      /\ \A x \in {"list", "device", "interface", "port", "handle"} : user'[x] = user[x]
      /\ user'.copied = IF user.copied = NULL THEN kind ELSE NULL
    BY NullAssumption DEF UserType, Kinds
<1>2. /\ user.copied = NULL =>
            One(user'.copied = k) = One(k = kind) /\ One(user.copied = k) = 0
      /\ user.copied = kind =>
            One(user.copied = k) = One(k = kind) /\ One(user'.copied = k) = 0
    BY <1>1, NullAssumption DEF One, Kinds
<1>3. /\ One(k = kind) \in Nat /\ Len(user.list) \in Nat /\ user.copied \in {NULL, kind}
      /\ One(user.device # NULL) \in Nat /\ One(user[k] # NULL) \in Nat
      /\ One(user.handle # NULL) \in Nat
      /\ One(user.copied = k) \in Nat /\ One(user'.copied = k) \in Nat
    BY DEF One, UserType
<1>4. CASE k = "device"
    <2>1. /\ Owned(k) = Len(user.list) + One(user.device # NULL) + One(user.copied = k)
          /\ Owned(k)' = Len(user.list) + One(user.device # NULL) + One(user'.copied = k)
        BY <1>1, <1>4 DEF Owned
    <2>. QED
        BY SMTT(40), <1>1, <1>2, <1>3, <2>1
<1>5. CASE k \in {"interface", "port"}
    <2>1. /\ Owned(k) = One(user[k] # NULL) + One(user.copied = k)
          /\ Owned(k)' = One(user[k] # NULL) + One(user'.copied = k)
        BY <1>1, <1>5 DEF Owned
    <2>. QED
        BY SMTT(40), <1>1, <1>2, <1>3, <2>1
<1>6. CASE k \in OfHandle \cup {"device_service", "interface_service", "iterator"}
    <2>1. /\ Owned(k) = IF k \in OfHandle THEN One(user.handle # NULL) ELSE 0
          /\ Owned(k)' = Owned(k) /\ One(k = kind) = 0
        BY <1>1, <1>6 DEF Owned, One, OfHandle
    <2>. QED
        BY <1>1, <1>3, <2>1
<1>. QED
    BY <1>4, <1>5, <1>6 DEF Kinds, OfHandle

LEMMA CopyStep ==
    ASSUME CoreInv, NEW kind \in {"device", "interface", "port"},
           \/ copy_object(kind)
           \/ free_copy /\ user.copied = kind
    PROVE  CoreInv' /\ FoundInv'
<1>0. /\ FrameInv /\ UserType /\ frame.pc = "idle" /\ ooms' = ooms /\ UNCHANGED busVars
      /\ held \in [Kinds -> Nat] /\ ooms \in 0..MaxOoms /\ InUse = {}
      /\ Idle("copy") \/ Idle("none")
      /\ \/ user.copied = NULL /\ user' = [user EXCEPT !.copied = kind] /\ Acquire({kind})
         \/ user.copied = kind /\ user' = [user EXCEPT !.copied = NULL] /\ Release({kind})
    BY IdleFacts DEF copy_object, free_copy, Idle
<1>1. /\ UserType'
      /\ \A x \in {"list", "device", "interface", "port", "handle"} : user'[x] = user[x]
    BY <1>0, CopiedOwned DEF Kinds
<1>2. FrameInv' /\ InUse' = {} /\ frame'.pc = "idle" /\ FoundInv'
    <2>1. user'.list # <<>> => user'.device = NULL
        BY <1>0, <1>1 DEF FrameInv
    <2>. QED
        BY <1>0, <2>1, IdleKept
<1>3. CountInv'
    <2>1. CASE user.copied = kind /\ user' = [user EXCEPT !.copied = NULL] /\ Release({kind})
        <3>1. \A k \in Kinds :
                Owned(k)' \in Nat /\ Owned(k) = Owned(k)' + One(k = kind)
            BY <1>0, <2>1, CopiedOwned
        <3>2. \A k \in Kinds : One(k = kind) = One(k \in {kind})
            BY DEF One
        <3>. QED
            BY <1>0, <1>2, <2>1, <3>1, <3>2, IdleRelease
    <2>2. CASE user.copied = NULL /\ user' = [user EXCEPT !.copied = kind] /\ Acquire({kind})
        <3>1. \A k \in Kinds :
                Owned(k) \in Nat /\ Owned(k)' = Owned(k) + One(k = kind)
            BY <1>0, <2>2, CopiedOwned
        <3>2. ASSUME NEW k \in Kinds
              PROVE  /\ held'[k] \in Nat /\ held'[k] >= Owned(k)' + One(k \in InUse')
                     /\ ooms = MaxOoms => held'[k] = Owned(k)' + One(k \in InUse')
            <4>1. /\ held[k] >= Owned(k) + One(k \in InUse)
                  /\ ooms = MaxOoms => held[k] = Owned(k) + One(k \in InUse)
                BY DEF CoreInv, CountInv
            <4>2. /\ held'[k] = held[k] + One(k = kind) /\ One(k = kind) \in Nat
                  /\ One(k \in InUse) = 0 /\ One(k \in InUse') = 0
                BY <1>0, <1>2, <2>2 DEF Acquire, One
            <4>. QED
                BY <1>0, <3>1, <4>1, <4>2
        <3>3. held' = [k \in Kinds |-> held'[k]]
            BY <2>2 DEF Acquire
        <3>. QED
            BY <1>0, <3>2, <3>3 DEF CountInv
    <2>. QED
        BY <1>0, <2>1, <2>2
<1>4. ObjectInv'
    <2>1. Instances' = Instances
        BY <1>0, SameRegistry
    <2>. QED
        BY <1>1, <2>1 DEF CoreInv, ObjectInv, OpensListedDevice, UserType
<1>. QED
    BY <1>2, <1>3, <1>4 DEF CoreInv

LEMMA CopyFails ==
    ASSUME CoreInv, FoundInv, NEW kind, copy_object_fails(kind)
    PROVE  CoreInv' /\ FoundInv'
<1>0. /\ FrameInv /\ UserType /\ frame = IdleFrame /\ frame.pc = "idle"
      /\ UNCHANGED <<busVars, frame, user, held>> /\ MemoryLeft /\ frame'.pc = "idle"
      /\ frame'.call = "none" /\ frame'.data = -1
    BY IdleFacts DEF copy_object_fails, OutOfMemory, MemoryLeft, IdleFrame
<1>1. FrameInv'
    BY <1>0 DEF FrameInv, IdleFrame, AtService
<1>2. InUse' = InUse
    BY <1>0 DEF InUse
<1>3. CountInv'
    BY <1>0, <1>2, SameCount DEF CoreInv
<1>4. ObjectInv'
    BY <1>0, SameObjects DEF CoreInv
<1>5. FoundInv'
    <2>1. WatchInv' /\ result'.call = "copy"
        BY DEF copy_object_fails, NoResult, OutOfMemory, WatchInv, FoundInv
    <2>. QED
        BY <1>0, <2>1, ElsewhereFound DEF Searches
<1>. QED
    BY <1>1, <1>3, <1>4, <1>5 DEF CoreInv

LEMMA UserKeeps ==
    ASSUME CoreInv, FoundInv, UserStep
    PROVE  CoreInv' /\ FoundInv'
<1>1. CASE libusbp_list_connected_devices
    BY <1>1, EnterStep DEF libusbp_list_connected_devices
<1>2. CASE \E i \in Interfaces :
                \/ \E composite \in BOOLEAN : libusbp_generic_interface_create(i, composite)
                \/ libusbp_serial_port_create(i)
    BY <1>2, EnterStep DEF libusbp_generic_interface_create, libusbp_serial_port_create
<1>3. CASE libusbp_generic_handle_open
    BY <1>3, EnterStep DEF libusbp_generic_handle_open
<1>4. CASE list_free
    BY <1>4, ListFree
<1>5. ASSUME NEW kind \in {"device", "interface", "port"}, free_object(kind)
      PROVE  CoreInv' /\ FoundInv'
    <2>1. OwnedBy(kind) = {kind}
        BY DEF OwnedBy
    <2>. QED
        BY <1>5, <2>1, FreeStep DEF free_object
<1>6. CASE \E kind \in {"device", "interface", "port"} :
                copy_object(kind) \/ copy_object_fails(kind)
    BY <1>6, CopyStep, CopyFails
<1>7. CASE free_copy
    <2>1. user.copied \in {"device", "interface", "port"}
        BY <1>7, CoreTypes DEF free_copy, CoreInv, UserType
    <2>. QED
        BY <1>7, <2>1, CopyStep
<1>8. CASE libusbp_generic_handle_close
    <2>1. OwnedBy("handle") = handle_close \cup {"exclusive"}
        BY DEF OwnedBy, OfHandle, handle_close
    <2>. QED
        BY <1>8, <2>1, FreeStep DEF libusbp_generic_handle_close
<1>. QED
    BY <1>1, <1>2, <1>3, <1>4, <1>5, <1>6, <1>7, <1>8 DEF UserStep

-----------------------------------------------------------------------------
(* The bus.                                                                *)

LEMMA BusCore ==
    ASSUME RegistryInv, CoreInv, BusStep
    PROVE  CoreInv'
<1>0. /\ BusNext /\ UNCHANGED <<frame, user, held, ooms>> /\ BusInv
      /\ result' = IF frame.pc = "idle" THEN NoResult ELSE result
    BY DEF BusStep, RegistryInv
<1>1. \A n \in Instances : n \in Instances'
    BY <1>0, BusMoves
<1>2. FrameInv'
    <2>1. Target' = Target /\ Number' = Number
        BY <1>0 DEF Target, Number
    <2>2. FrameInv
        BY DEF CoreInv
    <2>3. frame'.pc # "idle" => result' = NoResult
        BY <1>0, <2>2 DEF FrameInv
    <2>. QED
        BY <1>0, <1>1, <2>1, <2>2, <2>3 DEF FrameInv
<1>3. CountInv'
    <2>1. InUse' = InUse
        BY <1>0 DEF InUse, Object
    <2>. QED
        BY <1>0, <2>1, SameCount, CoreTypes DEF CoreInv, MemoryLeft
<1>4. ObjectInv'
    BY <1>0, <1>1 DEF CoreInv, ObjectInv, OpensListedDevice
<1>. QED
    BY <1>2, <1>3, <1>4 DEF CoreInv

(* What happens on the bus takes nothing from a search for what is there. *)
LEMMA BusCandidate ==
    ASSUME RegistryInv, RegistryInv', CoreInv, FoundInv, BusStep, frame.pc = "candidate",
           frame.call \in Searches, watch.ready,
           Ready(frame.call, frame.want, frame.composite)'
    PROVE  Number \in frame.todo /\ frame.todo \subseteq InterfacesOf(frame.service)'
<1>0. /\ UNCHANGED <<frame, user>> /\ FrameInv /\ ObjectInv
      /\ Number \in frame.todo /\ frame.todo \subseteq InterfacesOf(frame.service)
    BY DEF BusStep, CoreInv, FoundInv, ReadyInv, Searches
<1>1. /\ frame.call \in {"interface", "open"} /\ frame.service = Target
      /\ frame.call = "interface" => frame.composite /\ user.device # NULL
      /\ frame.call = "open" => user.interface # NULL
    BY <1>0, CallFacts DEF Places, AtService, Searches
<1>. DEFINE n == frame.service
<1>2. n \in Instances /\ n' = n
    BY <1>0, <1>1 DEF Target, ObjectInv
<1>3. n \in Registered'
    <2>1. CASE frame.call = "interface"
        <3>1. n = user.device.id
            BY <1>1, <2>1 DEF Target
        <3>2. frame.want \in InterfacesOf(user.device.id)'
            BY <1>0, <1>1, <2>1 DEF Ready
        <3>. QED
            BY <1>0, <3>1, <3>2 DEF InterfacesOf
    <2>2. CASE frame.call = "open"
        <3>1. n = user.interface.device_id
            BY <1>1, <2>2 DEF Target
        <3>2. user'.interface.number \in InterfacesOf(user.interface.device_id)'
            BY <1>0, <2>2 DEF Ready
        <3>. QED
            BY <1>0, <3>1, <3>2 DEF InterfacesOf
    <2>. QED
        BY <1>1, <2>1, <2>2
<1>. HIDE DEF n
<1>4. InterfacesOf(n) \subseteq InterfacesOf(n)'
    BY <1>2, <1>3, InterfacesKept
<1>. QED
    BY <1>0, <1>4 DEF n

LEMMA BusFound ==
    ASSUME RegistryInv, RegistryInv', CoreInv, FoundInv, BusStep
    PROVE  FoundInv'
<1>0. /\ UNCHANGED <<frame, user>> /\ FrameInv
    BY DEF BusStep, CoreInv
<1>1. CASE frame.pc = "idle"
    <2>1. result' = NoResult /\ watch' = NoWatch /\ frame = IdleFrame
        BY <1>1, IdleFacts DEF BusStep
    <2>2. /\ WatchInv' /\ frame'.call = "none" /\ frame'.data = -1 /\ frame'.pc = "idle"
          /\ result'.call = "none"
        BY <1>0, <2>1 DEF WatchInv, NoWatch, NoResult, IdleFrame
    <2>. QED
        BY <2>2, ElsewhereFound DEF Searches
<1>2. CASE frame.pc # "idle"
    <2>1. /\ watch' = [watch EXCEPT !.changed = TRUE,
                          !.ready = @ /\ Ready(frame.call, frame.want, frame.composite)']
          /\ result' = NoResult
        BY <1>0, <1>2 DEF BusStep, FrameInv
    <2>2. /\ WatchInv' /\ watch'.changed
          /\ watch'.ready = (watch.ready /\ Ready(frame.call, frame.want, frame.composite)')
        BY <2>1 DEF FoundInv, WatchInv
    <2>3. WalkInv'
        <3>1. WalkInv
            BY DEF FoundInv
        <3>. QED
            BY <1>0, <2>2, <3>1 DEF WalkInv
    <2>4. ReadyInv'
        <3>1. ASSUME frame.call \in Searches, watch'.ready
              PROVE  /\ Ready(frame.call, frame.want, frame.composite)'
                     /\ frame.pc = "candidate" =>
                          /\ Number' \in frame'.todo
                          /\ frame'.todo \subseteq InterfacesOf(frame.service)'
            <4>1. watch.ready /\ Ready(frame.call, frame.want, frame.composite)'
                BY <2>2, <3>1
            <4>2. Number' = Number
                BY <1>0 DEF Number
            <4>. QED
                BY <1>0, <3>1, <4>1, <4>2, BusCandidate
        <3>. QED
            BY <1>0, <2>2, <3>1 DEF ReadyInv, Searches
    <2>5. SerialPortIsRight' /\ ReadyIsFound'
        BY <2>1 DEF SerialPortIsRight, ReadyIsFound, NoResult
    <2>. QED
        BY <2>2, <2>3, <2>4, <2>5 DEF FoundInv
<1>. QED
    BY <1>1, <1>2

LEMMA StutterKeeps ==
    ASSUME CoreInv, FoundInv, UNCHANGED vars
    PROVE  CoreInv' /\ FoundInv'
<1>0. UNCHANGED <<busVars, frame, user, held, ooms, result, watch>>
    BY DEF vars
<1>1. /\ Target' = Target /\ Number' = Number /\ InUse' = InUse /\ Instances' = Instances
    BY <1>0, SameRegistry DEF Target, Number, InUse, Object
<1>2. FrameInv'
    BY <1>0, <1>1 DEF CoreInv, FrameInv
<1>3. CountInv'
    BY <1>0, <1>1, SameCount, CoreTypes DEF CoreInv, MemoryLeft
<1>4. ObjectInv'
    BY <1>0, SameObjects DEF CoreInv
<1>5. /\ InterfacesOf(frame.service)' = InterfacesOf(frame.service)
      /\ SerialOf(frame.service)' = SerialOf(frame.service)
      /\ \A i : DriverOf(frame.service, i)' = DriverOf(frame.service, i)
      /\ \A i : FunctionOf(frame.service, i)' = FunctionOf(frame.service, i)
      /\ FunctionOf(frame.service, frame.found)' = FunctionOf(frame.service, frame.found)
      /\ FunctionOf(user.device.id, user.port.at)' = FunctionOf(user.device.id, user.port.at)
    <2>1. /\ InterfacesOf(frame.service)' = InterfacesOf(frame.service)
          /\ \A i : DriverOf(frame.service, i)' = DriverOf(frame.service, i)
        BY <1>0 DEF InterfacesOf, Registered, Connected, PortOf, DriverOf, busVars
    <2>2. SerialOf(frame.service)' = SerialOf(frame.service)
        BY <1>0, <2>1 DEF SerialOf, PortOf, busVars
    <2>3. /\ \A i : FunctionOf(frame.service, i)' = FunctionOf(frame.service, i)
          /\ FunctionOf(frame.service, frame.found)' = FunctionOf(frame.service, frame.found)
          /\ FunctionOf(user.device.id, user.port.at)' = FunctionOf(user.device.id, user.port.at)
        BY <1>0 DEF FunctionOf, DriverOf, PortOf, busVars
    <2>. QED
        BY <2>1, <2>2, <2>3
<1>6. WalkInv'
    BY <1>0, <1>1, <1>5 DEF FoundInv, WalkInv
<1>7. ReadyInv'
    <2>1. Ready(frame.call, frame.want, frame.composite)'
              <=> Ready(frame.call, frame.want, frame.composite)
        BY <1>0, SameReady
    <2>. QED
        BY <1>0, <1>1, <1>5, <2>1 DEF FoundInv, ReadyInv
<1>8. WatchInv' /\ SerialPortIsRight' /\ ReadyIsFound'
    BY <1>0, <1>5 DEF FoundInv, WatchInv, SerialPortIsRight, ReadyIsFound
<1>. QED
    BY <1>2, <1>3, <1>4, <1>6, <1>7, <1>8 DEF CoreInv, FoundInv

LEMMA RegistryKept ==
    ASSUME RegistryInv, [Next]_vars
    PROVE  RegistryInv'
<1>1. CASE BusStep
    BY <1>1, BusPreserved DEF BusStep, RegistryInv
<1>2. CASE CallStep \/ UNCHANGED vars
    <2>1. UNCHANGED busVars /\ configured \subseteq configured'
        BY <1>2 DEF CallStep, device_configure, vars
    <2>. QED
        BY <2>1, RegistryStutter
<1>3. CASE UserStep
    <2>1. UNCHANGED <<busVars, configured>>
        BY <1>3 DEF UserStep, libusbp_list_connected_devices,
               libusbp_generic_interface_create, libusbp_serial_port_create,
               libusbp_generic_handle_open, Enter, list_free, free_object, copy_object,
               copy_object_fails, free_copy, libusbp_generic_handle_close, Idle
    <2>. QED
        BY <2>1, RegistryStutter
<1>. QED
    BY <1>1, <1>2, <1>3 DEF Next

-----------------------------------------------------------------------------
(* The theorems.                                                           *)

(* The invariant with what it says of a call that has returned. *)
AccessInv == RegistryInv /\ CoreInv /\ FoundInv

LEMMA AccessInit == ASSUME Init PROVE AccessInv
<1>1. /\ at = [p \in Ports |-> 0] /\ identity = <<>> /\ nodes = {} /\ initialized = {}
      /\ ifaces = {} /\ driver = [i \in InterfacePaths |-> NoDriver] /\ ttys = {}
    BY DEF Init, BusInit
<1>2. RegistryInv
    <2>1. Connected = {}
        BY <1>1 DEF Connected
    <2>2. BusTypeOK
        BY <1>1, PlugsAssumption DEF BusTypeOK
    <2>3. BusInv
        BY <1>1, <2>1, <2>2 DEF BusInv
    <2>. QED
        BY <1>1, <2>3 DEF RegistryInv, RegistryInOrder
<1>3. /\ frame = IdleFrame /\ frame.pc = "idle" /\ frame.call = "none" /\ frame.data = -1
      /\ InUse = {} /\ result.call = "none"
    BY DEF Init, IdleFrame, InUse, NoResult
<1>4. /\ user.list = <<>> /\ user.device = NULL /\ user.interface = NULL /\ user.port = NULL
      /\ user.handle = NULL /\ user.copied = NULL
    BY DEF Init
<1>5. FrameInv
    BY <1>3, <1>4 DEF FrameInv, IdleFrame, AtService
<1>6. UserType
    BY DEF Init, UserType
<1>7. CountInv
    <2>1. \A k \in Kinds : Owned(k) = 0
        BY <1>4, NullAssumption DEF Owned, One, Kinds
    <2>. QED
        BY <1>3, <2>1, OomsAssumption DEF Init, CountInv, One
<1>8. ObjectInv
    BY <1>4, <1>6 DEF ObjectInv, OpensListedDevice, UserType
<1>9. FoundInv
    BY <1>3 DEF Init, FoundInv, WatchInv, NoWatch, WalkInv, ReadyInv, SerialPortIsRight,
           ReadyIsFound
<1>. QED
    BY <1>2, <1>5, <1>7, <1>8, <1>9 DEF AccessInv, CoreInv

LEMMA AccessStep == ASSUME AccessInv, [Next]_vars PROVE AccessInv'
<1>0. RegistryInv /\ CoreInv /\ FoundInv /\ RegistryInv'
    BY RegistryKept DEF AccessInv
<1>1. CASE CallStep
    BY <1>0, <1>1, CallKeeps DEF AccessInv
<1>2. CASE UserStep
    BY <1>0, <1>2, UserKeeps DEF AccessInv
<1>3. CASE BusStep
    BY <1>0, <1>3, BusCore, BusFound DEF AccessInv
<1>4. CASE UNCHANGED vars
    BY <1>0, <1>4, StutterKeeps DEF AccessInv
<1>. QED
    BY <1>1, <1>2, <1>3, <1>4 DEF Next

LEMMA AccessAlways == Spec => []AccessInv
<1>1. Init => AccessInv
    BY AccessInit
<1>2. AccessInv /\ [Next]_vars => AccessInv'
    BY AccessStep
<1>. QED
    BY <1>1, <1>2, PTL DEF Spec

(***************************************************************************)
(* MacInv is an invariant: at each place of each call, the registry, the   *)
(* local variables, the objects and resources, and what is left of a       *)
(* search or of a walk over the registry fit together.                     *)
(***************************************************************************)
THEOREM MacInvariant == Spec => []MacInv
<1>1. AccessInv => MacInv
    BY DEF AccessInv, CoreInv, FoundInv, MacInv
<1>. QED
    BY <1>1, AccessAlways, PTL

(***************************************************************************)
(* NothingLeaks: between calls, each object, service, iterator, plug-in    *)
(* and exclusive access belongs to an object of the user; nothing is       *)
(* released twice, and nothing is left behind unless an allocation failed, *)
(* on any path of iokit_mac.c, serial_port_mac.c and generic_handle_mac.c. *)
(***************************************************************************)
THEOREM MacLeaksNothing == Spec => []NothingLeaks
<1>1. AccessInv => NothingLeaks
    <2>1. ASSUME AccessInv, frame.pc = "idle", NEW k \in Kinds
          PROVE  held[k] >= Owned(k) /\ (ooms = MaxOoms => held[k] = Owned(k))
        <3>1. One(k \in InUse) = 0 /\ Owned(k) \in Nat
            BY <2>1, IdleFacts DEF AccessInv
        <3>2. /\ held[k] >= Owned(k) + One(k \in InUse)
              /\ ooms = MaxOoms => held[k] = Owned(k) + One(k \in InUse)
            BY <2>1 DEF AccessInv, CoreInv, CountInv
        <3>. QED
            BY <3>1, <3>2
    <2>. QED
        BY <2>1 DEF NothingLeaks
<1>. QED
    BY <1>1, AccessAlways, PTL

(***************************************************************************)
(* OpensListedDevice: a handle or a port that service_get_from_id led to   *)
(* is one of the very device that was listed, and a handle is one to the   *)
(* interface that was asked for.                                           *)
(***************************************************************************)
THEOREM MacOpensListedDevice == Spec => []OpensListedDevice
<1>1. AccessInv => OpensListedDevice
    BY DEF AccessInv, CoreInv, ObjectInv
<1>. QED
    BY <1>1, AccessAlways, PTL

(***************************************************************************)
(* SerialPortIsRight: libusbp_serial_port_create finds the port of the     *)
(* function that was asked for, and no other, in a registry that does not  *)
(* change during its walk.                                                 *)
(***************************************************************************)
THEOREM MacSerialPortIsRight == Spec => []SerialPortIsRight
<1>1. AccessInv => SerialPortIsRight
    BY DEF AccessInv, FoundInv
<1>. QED
    BY <1>1, AccessAlways, PTL

(***************************************************************************)
(* ReadyIsFound: what is in the registry during the whole of a call is     *)
(* found, whatever else happens on the bus, if memory lasts and no other   *)
(* program has it open; a serial port also needs a registry that does not  *)
(* change.                                                                 *)
(***************************************************************************)
THEOREM MacReadyIsFound == Spec => []ReadyIsFound
<1>1. AccessInv => ReadyIsFound
    BY DEF AccessInv, FoundInv
<1>. QED
    BY <1>1, AccessAlways, PTL
=============================================================================
