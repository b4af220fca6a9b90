---------------------------- MODULE UsbBusProofs ----------------------------
(***************************************************************************)
(* Lemmas about UsbBus, for any number of ports, devices, interfaces and   *)
(* addresses: what every step of the bus keeps.  The proofs about the      *)
(* access modules of the three systems rest on them.                       *)
(***************************************************************************)
EXTENDS UsbBus, TLAPS

(* Instances that are plugged in were given out before. *)
LEMMA ConnectedFacts ==
    ASSUME BusInv
    PROVE  /\ Len(identity) \in Nat
           /\ Connected \subseteq Instances
           /\ \A p \in Ports : at[p] # 0 => at[p] \in Connected
           /\ \A n \in Connected : \E p \in Ports : at[p] = n
<1>1. Len(identity) \in Nat
    BY DEF BusInv, BusTypeOK
<1>2. \A p \in Ports : at[p] # 0 => at[p] \in 1..Len(identity)
    BY <1>1 DEF BusInv
<1>. QED
    BY <1>1, <1>2 DEF Connected, Instances

LEMMA PlugBus ==
    ASSUME BusInv, NEW p \in Ports, NEW m \in Models, Plug(p, m)
    PROVE  BusInv'
<1>. DEFINE n == Len(identity) + 1
<1>1. n \in Nat /\ n # 0 /\ n <= MaxPlugs
    BY ConnectedFacts, PlugsAssumption DEF Plug
<1>2. /\ identity' \in Seq(Models) /\ Len(identity') = n
    BY DEF Plug, BusInv, BusTypeOK
<1>3. /\ at'[p] = n
      /\ \A q \in Ports : q # p => at'[q] = at[q]
      /\ at' \in [Ports -> 0..MaxPlugs]
    BY <1>1 DEF Plug, BusInv, BusTypeOK
<1>4. Connected' = Connected \cup {n}
    <2>1. at[p] = 0
        BY DEF Plug
    <2>2. Connected' = {at'[q] : q \in Ports} \ {0}
        BY DEF Connected
    <2>. QED
        BY <1>1, <1>3, <2>1, <2>2 DEF Connected
<1>5. BusTypeOK'
    BY <1>1, <1>2, <1>3, ConnectedFacts DEF Plug, BusInv, BusTypeOK, Instances
<1>6. n \notin Connected
    BY ConnectedFacts DEF Instances
<1>7. \A q \in Ports : at'[q] \in 0..Len(identity')
    BY <1>1, <1>2, <1>3, ConnectedFacts DEF BusInv
<1>8. \A q, r \in Ports : at'[q] # 0 /\ at'[q] = at'[r] => q = r
    BY <1>3, <1>6, ConnectedFacts DEF BusInv
<1>9. \A a, b \in Connected' : Address(a) = Address(b) => a = b
    BY <1>4 DEF BusInv, Plug
<1>10. nodes' \subseteq Connected'
    BY <1>4 DEF BusInv, Plug
<1>11. \A i \in ifaces' : at'[i[1]] # 0
    BY <1>1, <1>3 DEF BusInv, BusTypeOK, Plug, InterfacePaths
<1>. QED
    BY <1>5, <1>7, <1>8, <1>9, <1>10, <1>11 DEF BusInv, Address

LEMMA UnplugBus ==
    ASSUME BusInv, NEW p \in Ports, Unplug(p)
    PROVE  BusInv'
<1>1. /\ at'[p] = 0
      /\ \A q \in Ports : q # p => at'[q] = at[q]
      /\ at' \in [Ports -> 0..MaxPlugs]
    BY PlugsAssumption DEF Unplug, BusInv, BusTypeOK
<1>2. Connected' = Connected \ {at[p]}
    <2>1. Connected' = {at'[q] : q \in Ports} \ {0}
        BY DEF Connected
    <2>2. \A q \in Ports : q # p /\ at[q] # 0 => at[q] # at[p]
        BY DEF BusInv
    <2>. QED
        BY <1>1, <2>1, <2>2 DEF Connected, Unplug
<1>3. BusTypeOK'
    <2>1. driver' \in [InterfacePaths -> Drivers \cup {NoDriver}]
        BY DEF Unplug, Removes, BusInv, BusTypeOK
    <2>. QED
        BY <1>1, <2>1 DEF Unplug, Removes, BusInv, BusTypeOK, Instances
<1>4. \A q \in Ports : at'[q] \in 0..Len(identity')
    BY <1>1, ConnectedFacts DEF BusInv, Unplug
<1>5. \A q, r \in Ports : at'[q] # 0 /\ at'[q] = at'[r] => q = r
    BY <1>1 DEF BusInv
<1>6. \A a, b \in Connected' : Address(a) = Address(b) => a = b
    BY <1>2 DEF BusInv
<1>7. nodes' \subseteq Connected'
    BY <1>2 DEF BusInv, Unplug
<1>8. ASSUME NEW i \in ifaces' PROVE at'[i[1]] # 0
    <2>1. i \in ifaces /\ i \notin {p} \X Interfaces
        BY DEF Unplug, Removes
    <2>2. i \in Ports \X Interfaces
        BY <2>1 DEF BusInv, BusTypeOK, InterfacePaths
    <2>3. i[1] # p /\ i[1] \in Ports
        BY <2>1, <2>2
    <2>. QED
        BY <1>1, <2>1, <2>3 DEF BusInv
<1>. QED
    BY <1>3, <1>4, <1>5, <1>6, <1>7, <1>8 DEF BusInv, Address

LEMMA BusStutter == ASSUME BusInv, UNCHANGED busVars PROVE BusInv'
BY DEF BusInv, BusTypeOK, busVars, Connected, Instances, Address

LEMMA BusPreserved == ASSUME BusInv, BusNext PROVE BusInv'
<1>1. ASSUME NEW p \in Ports, NodeAppears(p) PROVE BusInv'
    <2>1. at[p] \in Connected /\ at[p] \in Instances
        BY <1>1, ConnectedFacts DEF NodeAppears
    <2>2. Connected' = Connected /\ Instances' = Instances
        BY <1>1 DEF NodeAppears, Connected, Instances
    <2>3. BusTypeOK'
        BY <1>1, <2>1, <2>2 DEF NodeAppears, BusInv, BusTypeOK
    <2>4. nodes' \subseteq Connected'
        BY <1>1, <2>1, <2>2 DEF NodeAppears, BusInv
    <2>. QED
        BY <1>1, <2>2, <2>3, <2>4 DEF NodeAppears, BusInv, Address
<1>2. ASSUME NEW p \in Ports, UdevInitializes(p) PROVE BusInv'
    <2>1. Connected' = Connected /\ Instances' = Instances
        BY <1>2 DEF UdevInitializes, Connected, Instances
    <2>2. BusTypeOK'
        BY <1>2, <2>1 DEF UdevInitializes, BusInv, BusTypeOK
    <2>. QED
        BY <1>2, <2>1, <2>2 DEF UdevInitializes, BusInv, Address
<1>3. ASSUME NEW i \in InterfacePaths, InterfaceAppears(i) PROVE BusInv'
    BY <1>3 DEF InterfaceAppears, BusInv, BusTypeOK, Connected, Instances, Address
<1>4. ASSUME NEW i \in InterfacePaths, NEW d \in Drivers, DriverBinds(i, d) PROVE BusInv'
    BY <1>4 DEF DriverBinds, BusInv, BusTypeOK, Connected, Instances, Address
<1>5. ASSUME NEW i \in InterfacePaths, TtyAppears(i) PROVE BusInv'
    BY <1>5 DEF TtyAppears, BusInv, BusTypeOK, Connected, Instances, Address
<1>6. ASSUME NEW i \in InterfacePaths, InterfaceVanishes(i) PROVE BusInv'
    BY <1>6 DEF InterfaceVanishes, Removes, BusInv, BusTypeOK, Connected, Instances, Address
<1>. QED
    BY <1>1, <1>2, <1>3, <1>4, <1>5, <1>6, PlugBus, UnplugBus DEF BusNext

(***************************************************************************)
(* What a step of the bus keeps: the identity of an instance, that an      *)
(* instance which is gone does not come back, the udev record of a device  *)
(* that stays, and the device behind an interface that stays.              *)
(***************************************************************************)
LEMMA BusMoves ==
    ASSUME BusInv, BusNext
    PROVE  /\ \A n \in Instances : n \in Instances' /\ identity'[n] = identity[n]
           /\ \A p \in Ports, n \in Instances : at'[p] = n => at[p] = n
           /\ \A p \in Ports : at'[p] = at[p] /\ at[p] \in initialized
                  => at[p] \in initialized'
           /\ \A i \in ifaces : i \in ifaces' => at'[i[1]] = at[i[1]]
<1>1. ASSUME NEW p \in Ports, NEW m \in Models, Plug(p, m)
      PROVE  /\ \A n \in Instances : n \in Instances' /\ identity'[n] = identity[n]
             /\ \A q \in Ports, n \in Instances : at'[q] = n => at[q] = n
             /\ initialized' = initialized
             /\ \A i \in ifaces : at'[i[1]] = at[i[1]]
    <2>1. /\ Len(identity) \in Nat /\ Len(identity') = Len(identity) + 1
          /\ \A n \in 1..Len(identity) : identity'[n] = identity[n]
        BY <1>1 DEF Plug, BusInv, BusTypeOK
    <2>2. /\ at'[p] = Len(identity) + 1
          /\ \A q \in Ports : q # p => at'[q] = at[q]
        BY <1>1 DEF Plug, BusInv, BusTypeOK
    <2>3. \A i \in ifaces : i[1] \in Ports /\ i[1] # p
        BY <1>1 DEF Plug, BusInv, BusTypeOK, InterfacePaths
    <2>. QED
        BY <1>1, <2>1, <2>2, <2>3 DEF Instances, Plug
<1>2. ASSUME NEW p \in Ports, Unplug(p)
      PROVE  /\ identity' = identity
             /\ \A q \in Ports, n \in Instances : at'[q] = n => at[q] = n
             /\ \A q \in Ports : at'[q] = at[q] /\ at[q] \in initialized
                    => at[q] \in initialized'
             /\ \A i \in ifaces : i \in ifaces' => at'[i[1]] = at[i[1]]
    <2>1. /\ at'[p] = 0 /\ at[p] # 0
          /\ \A q \in Ports : q # p => at'[q] = at[q]
        BY <1>2 DEF Unplug, BusInv, BusTypeOK
    <2>2. \A q \in Ports : q # p /\ at[q] # 0 => at[q] # at[p]
        BY DEF BusInv
    <2>3. 0 \notin Instances /\ 0 \notin initialized
        BY ConnectedFacts DEF Instances, BusInv, BusTypeOK
    <2>4. \A i \in ifaces' : i[1] \in Ports /\ i[1] # p
        BY <1>2 DEF Unplug, Removes, BusInv, BusTypeOK, InterfacePaths
    <2>. QED
        BY <1>2, <2>1, <2>2, <2>3, <2>4 DEF Unplug
<1>3. CASE \/ \E p \in Ports : NodeAppears(p) \/ UdevInitializes(p)
           \/ \E i \in InterfacePaths :
                \/ InterfaceAppears(i) \/ TtyAppears(i) \/ InterfaceVanishes(i)
                \/ \E d \in Drivers : DriverBinds(i, d)
    BY <1>3 DEF NodeAppears, UdevInitializes, InterfaceAppears, TtyAppears,
           InterfaceVanishes, DriverBinds, Instances
<1>. QED
    BY <1>1, <1>2, <1>3 DEF BusNext, Instances
=============================================================================
