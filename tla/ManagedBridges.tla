---------------------------- MODULE ManagedBridges --------------------------
(***************************************************************************)
(* Bridges that virtPilot makes, the host's NICs it puts on them and the   *)
(* running VMs' taps: a pass every thirty seconds, creating and deleting,  *)
(* on a host whose own network configuration may want a NIC back           *)
(* (services/bridgeService.ts, lib/managedBridge.ts, libvirtBridge.ts,     *)
(* networkService.ts).                                                     *)
(*                                                                         *)
(* A NIC that becomes a port loses the host whatever reaches it by that    *)
(* NIC, so one the host depends on must be left alone, also while it has   *)
(* no address for a moment.  A network is known by its bridge; one VM      *)
(* stands for those on it.                                                 *)
(***************************************************************************)
EXTENDS Integers

CONSTANTS
    Nets,           \* bridges vp<N>
    Nics,           \* the host's NICs
    Old,            \* bridges from before 2.16.3, which libvirt does not know
    None, Other, Gone,  \* where a NIC is: on nothing, on another's bridge, not there
    MaxAsks,        \* bound: networks created and deleted
    MaxEvents       \* bound: failing calls, restarts, changes from outside

ASSUME BridgesAssumption ==
    /\ Old \subseteq Nets
    /\ Nets \cap (Nics \cup {None, Other, Gone}) = {}
    /\ None \notin Nics \cup {Other, Gone} /\ Other # Gone
    /\ MaxAsks \in Nat /\ MaxEvents \in Nat

VARIABLES
    file,           \* networks.json: the bridges with a record
    nicOf,          \* the NIC a record names
    claims,         \* records that say the host was seen using their NIC
    named,          \* records with the name of their libvirt network
    net,            \* net[n]: what libvirt says of the network
    auto,           \* networks that start with libvirt
    live,           \* bridges the kernel has
    at,             \* at[x]: the bridge NIC x is a port of
    up, address, route,  \* NICs that are up, have an address, carry a default route
    networkd,       \* networkd[x]: what systemd-networkd is doing with it
    onway,          \* history: NICs whose address comes before a hold is over
    vms, taps,      \* networks with a running VM, and with its tap on the bridge
    confirmed,      \* definitions seen since the start
    since,          \* since[x]: configuringSince
    known,          \* known[n]: how knownIfindex compares with the bridge
    reconnecting,
    pc,             \* what the change or pass at the head of the queue does next
    kind, cur, nic, \* what it is, the network it is at, and its NIC
    todo, absent, look, wasUp, plan, \* what it has left, and what it has read
    records, noted, myNames,    \* the records it works on
    fresh,          \* history: NICs something has happened to since they were looked at
    seen,           \* history: NICs the host was recorded to use, still has and configures
    orphaned,       \* history: networks rebuilt under a VM, unseen since the backend's start
    asks, events

disk == <<file, nicOf, claims, named>>
libvirt == <<net, auto, live>>
nics == <<at, up, address, route, networkd, onway>>
guests == <<vms, taps>>
memory == <<confirmed, since, known, reconnecting>>
pass == <<kind, cur, nic, todo, absent, look, wasUp, plan, records, noted, myNames>>
vars == <<disk, libvirt, nics, guests, memory, pc, pass, fresh, seen, orphaned, asks, events>>

Places == Nets \cup {None, Other, Gone}
Working == {"none", "configuring", "finished"}
Steps == {"nomaster", "master", "up"}

Idle == /\ kind' = "pass" /\ cur' = None /\ nic' = None /\ todo' = {} /\ absent' = {}
        /\ look' = None /\ wasUp' = FALSE /\ plan' = {}
        /\ records' = {} /\ noted' = {} /\ myNames' = {}

Init ==
    /\ file = Old /\ claims = {} /\ named = {}
    /\ nicOf \in {f \in [Nets -> Nics \cup {None}] :
                    /\ \A n \in Nets \ Old : f[n] = None
                    /\ \A n, m \in Old : f[n] = f[m] /\ f[n] # None => n = m}
    /\ net = [n \in Nets |-> "none"] /\ auto = {} /\ live = Old
    /\ at = [x \in Nics |-> None] /\ up = {} /\ address = {} /\ route = {}
    /\ networkd \in [Nics -> {"none", "finished"}] /\ onway = {}
    /\ vms \in SUBSET Old /\ taps = vms
    /\ confirmed = {} /\ since = [x \in Nics |-> "none"]
    /\ known = [n \in Nets |-> "none"] /\ reconnecting = {}
    /\ pc = "idle" /\ kind = "pass" /\ cur = None /\ nic = None /\ todo = {} /\ absent = {}
    /\ look = None /\ wasUp = FALSE /\ plan = {} /\ records = {} /\ noted = {} /\ myNames = {}
    /\ fresh = {} /\ seen = {} /\ orphaned = {}
    /\ asks = 0 /\ events = 0

\* A call that fails, or a change from outside; and a call that does not fail.
Event == events < MaxEvents /\ events' = events + 1
Works == UNCHANGED events

\* What becomes of the ports of bridges that go away.
Unplugged(gone) == [x \in Nics |-> IF at[x] \in gone THEN None ELSE at[x]]

(***************************************************************************)
(* A NIC and its bridge (syncUplink, planUplink).                          *)
(***************************************************************************)

\* readUplinkFacts looks at the NIC first, and then at who uses it.
ReadPort ==
    /\ pc = "port" /\ pc' = "use"
    /\ look' = at[nic] /\ wasUp' = (nic \in up) /\ fresh' = fresh \ {nic}
    /\ UNCHANGED <<disk, libvirt, nics, guests, memory, kind, cur, nic, todo, absent, plan,
                   records, noted, myNames, seen, orphaned, asks>>
    /\ Works

\* uplinkRefusal: a NIC already on the bridge stays, unless it has an address.
Refused(hasAddress, defaultRoute, state) ==
    \/ look \notin {None, cur}
    \/ hasAddress
    \/ look # cur /\ (defaultRoute \/ (cur \in noted /\ state # "none"))

\* Whether to wait for systemd-networkd, up to two and a half minutes.
Wait(state) == look # cur /\ state = "configuring"

Planned(refused) ==
    IF refused THEN IF look = cur THEN {"nomaster"} ELSE {}
    ELSE {op \in {"master", "up"} : IF op = "master" THEN look # cur ELSE ~wasUp}

\* Seeded fault: a NIC without address or route is taken to be unclaimed.
NoticedNow(refused, used) == IF used THEN noted \cup {cur} ELSE noted \ {cur}

\* A claim is made by an address or a route, and ends when nothing refuses the NIC.
Noticed(refused, used) ==
    IF ~refused THEN noted \ {cur} ELSE IF used THEN noted \cup {cur} ELSE noted

\* Where the pass goes on after the NIC.
Onwards == pc' = IF cur \in absent THEN "reconnect" ELSE "first"

Decide(hasAddress, defaultRoute, state) ==
    LET refused == Refused(hasAddress, defaultRoute, state)
        held == ~refused /\ Wait(state) /\ since[nic] # "over"
    IN  /\ noted' = Noticed(refused, hasAddress \/ defaultRoute)
        /\ since' = [since EXCEPT ![nic] =
                        IF refused \/ ~Wait(state) THEN "none"
                        ELSE IF @ = "none" THEN "running" ELSE @]
        /\ plan' = IF held THEN {} ELSE Planned(refused)
        /\ pc' = "steps"

\* Creating asks the same, without a wait or a record.
Accept(hasAddress, defaultRoute) ==
    /\ ~Refused(hasAddress, defaultRoute, "none")
    /\ plan' = Planned(FALSE) /\ pc' = "make"
    /\ UNCHANGED <<noted, since, kind, cur, nic, todo, absent, look, wasUp, records, myNames>>

Refuse(hasAddress, defaultRoute) ==
    /\ Refused(hasAddress, defaultRoute, "none")
    /\ pc' = "idle" /\ Idle /\ UNCHANGED since

Answer(hasAddress, defaultRoute, state) ==
    \/ /\ kind = "pass" /\ Decide(hasAddress, defaultRoute, state)
       /\ UNCHANGED <<kind, cur, nic, todo, absent, look, wasUp, records, myNames>>
    \/ kind = "create" /\ (Accept(hasAddress, defaultRoute) \/ Refuse(hasAddress, defaultRoute))

\* A port is only asked for its address, and has none if that cannot be read; if a free
\* NIC cannot be read, it is left alone.
ReadUse ==
    /\ pc = "use"
    /\ \/ look = None /\ Answer(nic \in address, nic \in route, networkd[nic]) /\ Works
       \/ /\ look = None /\ Event /\ UNCHANGED since
          /\ \/ /\ kind = "pass" /\ Onwards
                /\ UNCHANGED pass
             \/ kind = "create" /\ pc' = "idle" /\ Idle
       \/ look = Gone /\ Answer(FALSE, FALSE, "none") /\ Works
       \/ look \in Nets \cup {Other} /\ Answer(nic \in address, FALSE, "none") /\ Works
       \/ look \in Nets \cup {Other} /\ Answer(FALSE, FALSE, "none") /\ Event
    /\ UNCHANGED <<disk, libvirt, nics, guests, confirmed, known, reconnecting, fresh, seen,
                   orphaned, asks>>

Head(op) == op \in plan /\ (op = "up" => plan = {"up"})

\* `ip link set`: a NIC that is on another bridge by now is taken from there.
Step ==
    /\ pc = "steps"
    /\ \/ /\ Head("nomaster") /\ at[nic] # Gone
          /\ at' = [at EXCEPT ![nic] = None] /\ plan' = plan \ {"nomaster"}
          /\ UNCHANGED <<up, pc, seen>> /\ Works
       \/ /\ Head("master") /\ at[nic] # Gone /\ cur \in live
          /\ at' = [at EXCEPT ![nic] = cur] /\ plan' = plan \ {"master"}
          /\ seen' = seen \ {nic}
          /\ UNCHANGED <<up, pc>> /\ Works
       \/ /\ Head("up") /\ at[nic] # Gone
          /\ up' = up \cup {nic} /\ plan' = plan \ {"up"}
          /\ UNCHANGED <<at, pc, seen>> /\ Works
       \/ /\ plan # {} /\ plan' = {} /\ UNCHANGED <<at, up, seen>>
          /\ pc' = IF kind = "create" THEN "undo" ELSE pc
          /\ IF at[nic] = Gone \/ (Head("master") /\ cur \notin live) THEN Works ELSE Event
    /\ UNCHANGED <<disk, libvirt, address, route, networkd, onway, guests, memory, kind, cur, nic,
                   todo, absent, look, wasUp, records, noted, myNames, fresh, orphaned, asks>>

EndSteps ==
    /\ pc = "steps" /\ plan = {}
    /\ \/ kind = "pass" /\ Onwards
       \/ kind = "create" /\ pc' = "store"
    /\ UNCHANGED <<disk, libvirt, nics, guests, memory, pass, fresh, seen, orphaned, asks>>
    /\ Works

\* The hold is over, and with it every wait for an address that was on its way.
HoldOver(x) ==
    /\ since[x] = "running" /\ x \notin onway
    /\ since' = [since EXCEPT ![x] = "over"]
    /\ UNCHANGED <<disk, libvirt, nics, guests, confirmed, known, reconnecting, pc, pass, fresh,
                   seen, orphaned, asks>>
    /\ Works

(***************************************************************************)
(* The pass (syncManagedBridges).                                          *)
(***************************************************************************)

\* Every thirty seconds, and before a VM starts; a file that cannot be read has no bridges.
BeginPass ==
    /\ pc = "idle" /\ file # {} /\ pc' = "first"
    /\ records' = file /\ noted' = claims /\ myNames' = named /\ todo' = file
    /\ UNCHANGED <<disk, libvirt, nics, guests, memory, kind, cur, nic, absent, look, wasUp, plan,
                   fresh, seen, orphaned, asks>>
    /\ Works

\* NICs on the bridges that are here come first.
First(n) ==
    /\ pc = "first" /\ n \in todo /\ todo' = todo \ {n}
    /\ cur' = n /\ nic' = nicOf[n]
    /\ absent' = IF n \in live THEN absent ELSE absent \cup {n}
    /\ pc' = IF n \in live /\ nicOf[n] # None THEN "port" ELSE pc
    /\ UNCHANGED <<disk, libvirt, nics, guests, memory, kind, look, wasUp, plan, records, noted,
                   myNames, fresh, seen, orphaned, asks>>
    /\ Works

FirstDone ==
    /\ pc = "first" /\ todo = {} /\ pc' = "second" /\ todo' = records
    /\ UNCHANGED <<disk, libvirt, nics, guests, memory, kind, cur, nic, absent, look, wasUp, plan,
                   records, noted, myNames, fresh, seen, orphaned, asks>>
    /\ Works

\* Libvirt is asked once, and whenever a bridge has gone.
Second(n) ==
    /\ pc = "second" /\ n \in todo /\ todo' = todo \ {n}
    /\ cur' = n /\ nic' = nicOf[n]
    /\ pc' = IF n \notin confirmed \/ n \in absent THEN "define" ELSE "reconnect"
    /\ UNCHANGED <<disk, libvirt, nics, guests, memory, kind, absent, look, wasUp, plan, records,
                   noted, myNames, fresh, seen, orphaned, asks>>
    /\ Works

\* ensureDefinition: a network that cannot be defined is left for the next pass.
EnsureDefinition ==
    /\ pc = "define"
    /\ \/ /\ net' = [net EXCEPT ![cur] = IF @ = "none" THEN "off" ELSE @]
          /\ auto' = auto \cup {cur} /\ Works
          /\ confirmed' = confirmed \cup {cur} /\ myNames' = myNames \cup {cur}
          /\ pc' = IF cur \in absent THEN "restore" ELSE "reconnect"
       \/ /\ net' = [net EXCEPT ![cur] = IF @ = "none" THEN "off" ELSE @]
          /\ UNCHANGED <<auto, confirmed, myNames>> /\ pc' = "second" /\ Event
       \/ UNCHANGED <<net, auto, confirmed, myNames>> /\ pc' = "second" /\ Event
    /\ UNCHANGED <<disk, live, nics, guests, since, known, reconnecting, kind, cur, nic, todo, absent,
                   look, wasUp, plan, records, noted, fresh, seen, orphaned, asks>>

\* A bridge that is new to who knew one by its name.
Renewed(n) == known' = [known EXCEPT ![n] = IF @ = "none" THEN @ ELSE "other"]

\* restoreBridge: a network that is running without its bridge is stopped and started.
Restore ==
    /\ pc = "restore"
    /\ \/ /\ cur \notin live /\ Works
          /\ live' = live \cup {cur} /\ net' = [net EXCEPT ![cur] = "on"]
          /\ Renewed(cur) /\ reconnecting' = reconnecting \cup {cur}
       \/ cur \in live /\ UNCHANGED <<live, net, known, reconnecting>> /\ Works
       \/ /\ cur \notin live /\ Event
          /\ \E s \in {net[cur], "off"} : net' = [net EXCEPT ![cur] = s]
          /\ UNCHANGED <<live, known, reconnecting>>
    /\ pc' = IF cur \in live' /\ nic # None THEN "port" ELSE "reconnect"
    /\ UNCHANGED <<disk, auto, nics, guests, confirmed, since, pass, fresh, seen, orphaned, asks>>

\* Seeded fault: VMs that are stopped are put back as well.
AnyVm(n) == {n}

\* Paused VMs count as running.
Running(n) == {n} \cap vms

\* Seeded fault: the bridge is seen to once, whether that works or not.
ReconnectOnce ==
    /\ pc = "reconnect" /\ pc' = "second"
    /\ \E works \in BOOLEAN :
        /\ IF works THEN Works ELSE Event
        /\ IF cur \in live
           THEN /\ known' = [known EXCEPT ![cur] = "same"]
                /\ taps' = IF works /\ (cur \in reconnecting \/ known[cur] = "other")
                           THEN taps \cup Running(cur) ELSE taps
                /\ reconnecting' = reconnecting \ {cur}
           ELSE UNCHANGED <<known, taps, reconnecting>>
    /\ UNCHANGED <<disk, libvirt, nics, vms, confirmed, since, pass, fresh, seen, orphaned, asks>>

\* reconnectIfRebuilt: kept up until it works.
Reconnect ==
    /\ pc = "reconnect" /\ pc' = "second"
    /\ \/ cur \notin live /\ UNCHANGED <<known, taps, reconnecting>> /\ Works
       \/ /\ cur \in live
          /\ known' = [known EXCEPT ![cur] = "same"]
          /\ \/ /\ cur \notin reconnecting /\ known[cur] # "other"
                /\ UNCHANGED <<taps, reconnecting>> /\ Works
             \/ /\ cur \in reconnecting \/ known[cur] = "other"
                /\ \/ /\ taps' = taps \cup Running(cur)
                      /\ reconnecting' = reconnecting \ {cur} /\ Works
                   \/ /\ UNCHANGED taps
                      /\ reconnecting' = reconnecting \cup {cur} /\ Event
    /\ UNCHANGED <<disk, libvirt, nics, vms, confirmed, since, pass, fresh, seen, orphaned, asks>>

NicsOf(ns) == {nicOf[n] : n \in ns} \ {None}

\* applyBridgeNetworks saves the records if a pass has changed them.
EndPass ==
    /\ pc = "second" /\ todo = {} /\ pc' = "idle" /\ Idle
    /\ \/ /\ claims' = noted /\ named' = myNames /\ Works
          /\ seen' = {x \in seen \cup NicsOf(noted) : at[x] \notin Nets /\ networkd[x] # "none"}
       \/ /\ noted # claims \/ myNames # named
          /\ UNCHANGED <<claims, named, seen>> /\ Event
    /\ UNCHANGED <<file, nicOf, libvirt, nics, guests, memory, fresh, orphaned, asks>>

(***************************************************************************)
(* Creating a bridge (createBridgeNetworkNow) and deleting one             *)
(* (deleteNetworkNow).                                                     *)
(***************************************************************************)

Ask == pc = "idle" /\ asks < MaxAsks /\ asks' = asks + 1

\* Whoever reads a file it cannot read sees no networks.
Create(n, x, f) ==
    /\ Ask /\ n \notin f /\ \A m \in f : nicOf[m] # x \/ x = None
    /\ (f = file /\ Works) \/ (f = {} /\ Event)
    /\ kind' = "create" /\ cur' = n /\ nic' = x
    /\ records' = f /\ noted' = claims \cap f /\ myNames' = named \cap f
    /\ pc' = IF x = None THEN "make" ELSE "port"
    /\ UNCHANGED <<disk, libvirt, nics, guests, memory, todo, absent, look, wasUp, plan, fresh, seen,
                   orphaned>>

\* A device of that name that is there is somebody's, and so is a network with that bridge.
Make ==
    /\ pc = "make"
    /\ \/ /\ cur \notin live /\ net[cur] = "none" /\ Works
          /\ net' = [net EXCEPT ![cur] = "on"] /\ auto' = auto \cup {cur} /\ live' = live \cup {cur}
          /\ Renewed(cur) /\ confirmed' = confirmed \ {cur}
          /\ orphaned' = IF known[cur] = "none" THEN orphaned \cup Running(cur) ELSE orphaned
          /\ pc' = "steps" /\ UNCHANGED pass
       \/ /\ cur \in live \/ net[cur] # "none" \/ events < MaxEvents
          /\ IF cur \in live \/ net[cur] # "none" THEN Works ELSE Event
          /\ pc' = "idle" /\ Idle
          /\ UNCHANGED <<libvirt, known, confirmed, orphaned>>
    /\ UNCHANGED <<disk, nics, guests, since, reconnecting, fresh, seen, asks>>

Store ==
    /\ pc = "store"
    /\ \/ /\ file' = records \cup {cur} /\ Works
          /\ nicOf' = [n \in Nets |-> IF n = cur THEN nic ELSE IF n \in records THEN nicOf[n] ELSE None]
          /\ claims' = noted \ {cur} /\ named' = myNames \cup {cur}
          /\ seen' = seen \ {nic}
          /\ pc' = "idle" /\ Idle
       \/ pc' = "undo" /\ UNCHANGED <<disk, seen, pass>> /\ Event
    /\ UNCHANGED <<libvirt, nics, guests, memory, fresh, orphaned, asks>>

\* removeLibvirtNetwork and, of a bridge libvirt does not know, `ip link delete`.
Removed(n, forgotten) ==
    /\ live' = live \ {n} /\ at' = Unplugged({n}) /\ taps' = taps \ {n}
    /\ net' = IF forgotten THEN [net EXCEPT ![n] = "none"] ELSE net
    /\ auto' = IF forgotten THEN auto \ {n} ELSE auto

Undo ==
    /\ pc = "undo" /\ pc' = "idle" /\ Idle
    /\ \/ Removed(cur, TRUE) /\ Works
       \/ UNCHANGED <<libvirt, at, taps>> /\ Event
    /\ up' = IF nic # None /\ ~wasUp THEN up \ {nic} ELSE up
    /\ UNCHANGED <<disk, address, route, networkd, onway, vms, memory, fresh, seen, orphaned, asks>>

\* No VM is on it, nor may one come (NetworkHolds).
Delete(n) ==
    /\ Ask /\ n \in file \ vms /\ Works
    /\ kind' = "delete" /\ cur' = n /\ nic' = nicOf[n] /\ pc' = "ours"
    /\ records' = file /\ noted' = claims /\ myNames' = named
    /\ UNCHANGED <<disk, libvirt, nics, guests, memory, todo, absent, look, wasUp, plan, fresh, seen,
                   orphaned>>

\* Only if it is still ours to take.
Ours ==
    /\ pc = "ours" /\ pc' = IF nic # None /\ at[nic] = cur THEN "free" ELSE "remove"
    /\ UNCHANGED <<disk, libvirt, nics, guests, memory, pass, fresh, seen, orphaned, asks>>
    /\ Works

\* It stays up if anything else is on it, such as a VLAN.
FreeNic ==
    /\ pc = "free" /\ pc' = "remove"
    /\ \/ at' = [at EXCEPT ![nic] = IF @ = Gone THEN Gone ELSE None] /\ Works
       \/ UNCHANGED at /\ Event
    /\ up' \in {up, up \ {nic}}
    /\ UNCHANGED <<disk, libvirt, address, route, networkd, onway, guests, memory, pass, fresh, seen,
                   orphaned, asks>>

Remove ==
    /\ pc = "remove" /\ pc' = "erase"
    /\ \/ Removed(cur, cur \in myNames) /\ Works
       \/ UNCHANGED <<libvirt, at, taps>> /\ Event
    /\ UNCHANGED <<disk, up, address, route, networkd, onway, vms, memory, pass, fresh, seen, orphaned,
                   asks>>

Erase ==
    /\ pc = "erase" /\ pc' = "idle" /\ Idle
    /\ \/ /\ file' = records \ {cur} /\ nicOf' = [nicOf EXCEPT ![cur] = None]
          /\ claims' = noted \ {cur} /\ named' = myNames \ {cur}
          /\ seen' = seen \ {nic} /\ Works
       \/ UNCHANGED <<disk, seen>> /\ Event
    /\ UNCHANGED <<libvirt, nics, guests, memory, fresh, orphaned, asks>>

(***************************************************************************)
(* What happens to the host and to the backend.                            *)
(***************************************************************************)

\* Somebody gives a NIC an address or a route, or it loses both.
Readdress(x) ==
    /\ at[x] # Gone
    /\ \/ x \notin address /\ address' = address \cup {x} /\ route' \in {route, route \cup {x}}
          /\ UNCHANGED networkd
       \/ /\ x \in address /\ address' = address \ {x} /\ route' = route \ {x}
          /\ networkd' \in {networkd, [networkd EXCEPT ![x] = IF @ = "none" THEN @ ELSE "configuring"]}
    /\ UNCHANGED <<libvirt, at, up, onway, guests, known>>

\* netplan names a NIC, or systemd-networkd starts over with it: the NIC leaves its bridge.
\* An address comes in time if the hold has not begun before.
Configure(x) ==
    /\ at[x] # Gone
    /\ networkd' = [networkd EXCEPT ![x] = "configuring"]
    /\ at' = [at EXCEPT ![x] = IF @ \in Nets THEN None ELSE @]
    /\ address' = address \ {x} /\ route' = route \ {x}
    /\ onway' \in {onway \ {x}, IF since[x] = "none" THEN onway \cup {x} ELSE onway \ {x}}
    /\ UNCHANGED <<libvirt, up, guests, known>>

\* systemd-networkd is done without an address, or lets go of the NIC.
Settle(x) ==
    /\ networkd[x] # "none"
    /\ \/ /\ networkd[x] = "configuring" /\ x \notin onway
          /\ networkd' = [networkd EXCEPT ![x] = "finished"]
          /\ UNCHANGED <<address, route>>
       \/ /\ networkd' = [networkd EXCEPT ![x] = "none"]
          /\ address' = address \ {x} /\ route' = route \ {x}
    /\ onway' = onway \ {x}
    /\ UNCHANGED <<libvirt, at, up, guests, known>>

\* The NIC is moved, unplugged or put back by hand.
Move(x) ==
    /\ \E p \in {None, Other, Gone} \ {at[x]} :
        /\ at' = [at EXCEPT ![x] = p]
        /\ IF p = Gone
           THEN /\ up' = up \ {x} /\ address' = address \ {x} /\ route' = route \ {x}
                /\ networkd' = [networkd EXCEPT ![x] = "none"] /\ onway' = onway \ {x}
           ELSE UNCHANGED <<up, address, route, networkd, onway>>
    /\ UNCHANGED <<libvirt, guests, known>>

\* A bridge goes away, its network is stopped or restarted, by hand or with libvirt.
Disturb(n) ==
    /\ n \in live
    /\ at' = Unplugged({n}) /\ taps' = taps \ {n}
    /\ \/ /\ live' = live \ {n} /\ UNCHANGED known
          /\ net' \in {net, [net EXCEPT ![n] = IF @ = "none" THEN @ ELSE "off"]}
       \/ net[n] = "on" /\ UNCHANGED <<live, net>> /\ Renewed(n)
    /\ UNCHANGED <<auto, up, address, route, networkd, onway, vms>>

\* A VM starts on its bridge, or stops.
Power(n) ==
    /\ kind = "delete" => cur # n
    /\ \/ n \in live /\ n \in file \ vms /\ vms' = vms \cup {n} /\ taps' = taps \cup {n}
       \/ n \in vms /\ vms' = vms \ {n} /\ taps' = taps \ {n}
    /\ UNCHANGED <<libvirt, nics, known>>

Outside ==
    /\ Event
    /\ \/ \E x \in Nics : /\ Readdress(x) \/ Configure(x) \/ Settle(x) \/ Move(x)
                          /\ fresh' = fresh \cup {x}
                          /\ seen' = IF networkd'[x] = "none" THEN seen \ {x} ELSE seen
                          /\ UNCHANGED orphaned
       \/ \E n \in Nets : /\ Disturb(n) \/ Power(n)
                          /\ orphaned' = IF n \notin vms' THEN orphaned \ {n}
                                         ELSE IF n \in live' \ taps' /\ known[n] = "none"
                                              THEN orphaned \cup {n} ELSE orphaned
                          /\ UNCHANGED <<fresh, seen>>
    /\ UNCHANGED <<disk, confirmed, since, reconnecting, pc, pass, asks>>

\* The address that was on its way comes, unless the NIC is a port by then.
Arrive(x) ==
    /\ networkd[x] = "configuring" /\ at[x] = None
    /\ IF x \in onway THEN Works ELSE Event
    /\ address' = address \cup {x} /\ route' \in {route, route \cup {x}}
    /\ networkd' = [networkd EXCEPT ![x] = "finished"] /\ onway' = onway \ {x}
    /\ fresh' = fresh \cup {x}
    /\ UNCHANGED <<disk, libvirt, at, up, guests, memory, pc, pass, seen, orphaned, asks>>

Died == /\ pc' = "idle" /\ Idle
        /\ confirmed' = {} /\ since' = [x \in Nics |-> "none"]
        /\ known' = [n \in Nets |-> "none"] /\ reconnecting' = {}
        /\ UNCHANGED <<disk, fresh, asks>>

Restart ==
    /\ Event /\ Died
    /\ orphaned' = orphaned \cup (live \cap (vms \ taps))
    /\ UNCHANGED <<libvirt, nics, guests, seen>>

\* Libvirt starts its networks, and systemd-networkd over.
Reboot ==
    /\ Event /\ Died
    /\ \E fail \in SUBSET Nets :
        /\ live' = auto \ fail
        /\ net' = [n \in Nets |-> IF net[n] = "none" THEN "none" ELSE IF n \in live' THEN "on" ELSE "off"]
    /\ at' = Unplugged(Nets) /\ up' = {} /\ address' = {} /\ route' = {}
    /\ networkd' = [x \in Nics |-> IF networkd[x] = "none" THEN "none" ELSE "configuring"]
    /\ onway' \in SUBSET {x \in Nics : networkd[x] # "none"}
    /\ vms' = {} /\ taps' = {} /\ orphaned' = {}
    /\ UNCHANGED <<auto, seen>>

PassStep ==
    \/ ReadPort \/ ReadUse \/ Step \/ EndSteps
    \/ FirstDone \/ EnsureDefinition \/ Restore \/ Reconnect \/ EndPass
    \/ \E n \in Nets : First(n) \/ Second(n)
ChangeStep == Make \/ Store \/ Undo \/ Ours \/ FreeNic \/ Remove \/ Erase
Requests == \E n \in Nets : \/ \E x \in Nics \cup {None}, f \in {file, {}} : Create(n, x, f)
                           \/ Delete(n)
HoldsEnd == \E x \in Nics : HoldOver(x)

Next == \/ BeginPass \/ PassStep \/ ChangeStep \/ Requests \/ HoldsEnd
        \/ Outside \/ (\E x \in Nics : Arrive(x)) \/ Restart \/ Reboot

Spec == Init /\ [][Next]_vars

\* The timer goes off, what is at the head of the queue goes on, and time passes.
FairSpec == /\ Spec /\ WF_vars(BeginPass) /\ WF_vars(PassStep) /\ WF_vars(ChangeStep)
            /\ WF_vars(HoldsEnd)

-----------------------------------------------------------------------------

TypeOK ==
    /\ file \subseteq Nets /\ nicOf \in [Nets -> Nics \cup {None}]
    /\ claims \subseteq file /\ named \subseteq file
    /\ net \in [Nets -> {"none", "off", "on"}] /\ auto \subseteq Nets /\ live \subseteq Nets
    /\ at \in [Nics -> Places]
    /\ up \subseteq Nics /\ address \subseteq Nics /\ route \subseteq Nics /\ onway \subseteq Nics
    /\ networkd \in [Nics -> Working]
    /\ vms \subseteq Nets /\ taps \subseteq vms \cap live
    /\ confirmed \subseteq Nets /\ reconnecting \subseteq Nets
    /\ since \in [Nics -> {"none", "running", "over"}]
    /\ known \in [Nets -> {"none", "same", "other"}]
    /\ pc \in {"idle", "port", "use", "steps", "first", "second", "define", "restore", "reconnect",
               "make", "store", "undo", "ours", "free", "remove", "erase"}
    /\ kind \in {"pass", "create", "delete"} /\ cur \in Nets \cup {None} /\ nic \in Nics \cup {None}
    /\ todo \subseteq Nets /\ absent \subseteq Nets /\ look \in Places /\ wasUp \in BOOLEAN
    /\ plan \subseteq Steps
    /\ records \subseteq Nets /\ noted \subseteq records /\ myNames \subseteq records
    /\ fresh \subseteq Nics /\ seen \subseteq Nics /\ orphaned \subseteq Nets
    /\ asks \in 0 .. MaxAsks /\ events \in 0 .. MaxEvents

\* A pass never takes a NIC the host depends on: one with an address or a default route,
\* one whose address is on its way, or one it was recorded to use and still configures,
\* through restarts and lost addresses, unless that came about after the pass had begun
\* to look at it (managedBridge.ts:61-66 and 80-87).
HostKept ==
    [][\A x \in Nics :
          at[x] \notin Nets /\ at'[x] \in Nets /\ kind = "pass"
          => x \notin (address \cup route \cup onway \cup seen) \ fresh]_vars

InPlace(n) ==
    LET x == nicOf[n]
    IN  /\ n \in live \cap auto
        /\ n \in vms \ orphaned => n \in taps
        /\ x # None =>
             /\ x \in address => at[x] # n
             /\ /\ x \notin address \cup route /\ at[x] \in {None, n}
                /\ networkd[x] # "none" => x \notin onway /\ n \notin claims
                => at[x] = n /\ x \in up

\* After the last failure and the last change from outside, every bridge is there, will
\* be after the next boot, and has the taps of its running VMs; its NIC is on it and up,
\* or with the host if that has given it an address (bridgeService.ts:139-147).
Recovers == <>[](\A n \in file : InPlace(n))
=============================================================================
