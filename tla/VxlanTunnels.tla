---------------------------- MODULE VxlanTunnels ----------------------------
(***************************************************************************)
(* VXLANs: the kernel's devices, the remote hosts they flood to and the    *)
(* firewall rules that guard them, made to match networks.json by a pass   *)
(* every thirty seconds and around every change, against a host on which   *)
(* calls fail and others change things (services/vxlanService.ts,          *)
(* lib/vxlan.ts, services/libvirtBridge.ts, services/networkService.ts).   *)
(*                                                                         *)
(* A device that is up takes frames from any machine: it must never be up  *)
(* without its rules.  A network is known by its VXLAN ID, after which its *)
(* device and its bridge are named.                                        *)
(***************************************************************************)
EXTENDS Integers

CONSTANTS
    Ids,            \* VXLAN IDs
    Peers,          \* addresses of remote hosts
    None,
    MaxAsks,        \* bound: networks made, edited and deleted
    MaxEvents       \* bound: failing calls, restarts, changes from outside

ASSUME VxlanAssumption ==
    /\ None \notin Ids \cup Peers
    /\ MaxAsks \in Nat /\ MaxEvents \in Nat

VARIABLES
    file,           \* networks.json: the remote hosts of an ID's network
    bridge,         \* bridge[i]: of its libvirt network, see Bridges
    devs,           \* devices the kernel has
    up,             \* those that are up
    alien,          \* those with another ID or port than their name says
    ported,         \* those that are ports of their bridge
    fdb,            \* fdb[i]: the remote hosts device i floods to
    chain,          \* chain[i]: the hosts let in before ID i is dropped
    jump,           \* INPUT goes through the chain
    pc,             \* what the change or pass at the head of the queue does next
    kind,           \* what it is
    target,         \* the network it makes, edits or deletes
    asked,          \* the remote hosts it is asked for
    old,            \* the records it has read
    want,           \* the records the host is made to match
    links,          \* the devices as the pass has read them
    stuck,          \* up without reason, and would not go down
    todo,           \* networks this pass has yet to see to
    cur,            \* the one it is at
    plan,           \* what is left of that one's plan
    ok,             \* the rules are in force, as far as this pass knows
    bad,            \* something went wrong with the target
    faith,          \* history, see Faith
    told,           \* history: what the last change of i was answered to have done
    asks, events

kernel == <<devs, up, alien, ported, fdb>>
rules == <<chain, jump>>
request == <<kind, target, asked, old>>
pass == <<want, links, stuck, todo, cur, plan, ok, bad>>
vars == <<file, bridge, kernel, rules, pc, request, pass, faith, told, asks, events>>

\* No record, no rules, no answer.
Unset == {None}
Records == [Ids -> (SUBSET Peers) \cup {Unset}]

\* "hollow": libvirt counts it as running and its bridge has gone.
Bridges == {"none", "off", "hollow", "up"}

\* Whether the rules can be relied on.  "no": something took them away or raised a
\* device, or a pass could not list the devices; "reading": a pass has listed them
\* since; "yes": and has put its rules in.
Faith == {"no", "reading", "yes"}

Links == [devs : SUBSET Ids, up : SUBSET Ids, alien : SUBSET Ids, ported : SUBSET Ids]
NoLinks == [devs |-> {}, up |-> {}, alien |-> {}, ported |-> {}]
Ops == {"down", "add", "master", "fdb", "up"}

Init ==
    /\ file = [i \in Ids |-> Unset]
    /\ bridge = [i \in Ids |-> "none"]
    /\ devs = {} /\ up = {} /\ alien = {} /\ ported = {}
    /\ fdb = [i \in Ids |-> {}]
    /\ chain = [i \in Ids |-> Unset] /\ jump = FALSE
    /\ pc = "idle" /\ kind = "pass" /\ target = None /\ asked = {}
    /\ old = file /\ want = file
    /\ links = NoLinks /\ stuck = {} /\ todo = {} /\ cur = None /\ plan = {}
    /\ ok = FALSE /\ bad = FALSE
    /\ faith = "yes"
    /\ told = [i \in Ids |-> Unset]
    /\ asks = 0 /\ events = 0

\* A call that fails, or a change from outside; and a call that does not fail.
Event == events < MaxEvents /\ events' = events + 1
Works == UNCHANGED events

RecordsIn(f) == {i \in Ids : f[i] # Unset}
\* The tunnels with a socket open.
Listening(f) == {i \in Ids : f[i] \notin {Unset, {}}}

\* networks.json, which reads as empty when it cannot be read.
ReadFile(f) == \/ f = file /\ Works
               \/ f = [i \in Ids |-> Unset] /\ Event

(***************************************************************************)
(* Making the host match the records (syncVxlanNetworks).                  *)
(***************************************************************************)

Sync(records) == pc' = "links" /\ want' = records

\* Devices that should not be listening.
Idle(f) == Ids \ Listening(f)

ReadLinks ==
    /\ pc = "links"
    /\ \/ /\ links' = [devs |-> devs, up |-> up, alien |-> alien, ported |-> ported]
          /\ faith' = IF faith = "no" THEN "reading" ELSE faith
          /\ Works
       \/ links' = NoLinks /\ faith' = "no" /\ Event
    /\ pc' = "close" /\ stuck' = {} /\ bad' = FALSE
    /\ UNCHANGED <<file, bridge, kernel, rules, request, want, todo, cur, plan, ok, told>>

\* They close before the rules change; one that will not keeps a DROP.
Close(i) ==
    /\ pc = "close" /\ i \in (links.up \cap Idle(want)) \ stuck
    /\ \/ /\ i \in devs
          /\ up' = up \ {i} /\ links' = [links EXCEPT !.up = @ \ {i}]
          /\ UNCHANGED stuck /\ Works
       \/ stuck' = stuck \cup {i} /\ UNCHANGED <<up, links>> /\ Event
       \/ i \notin devs /\ stuck' = stuck \cup {i} /\ UNCHANGED <<up, links>> /\ Works
    /\ UNCHANGED <<file, bridge, devs, alien, ported, fdb, rules, pc, request, want, todo, cur, plan,
                   ok, bad, faith, told>>

\* Seeded fault: the rules change first, and the devices close after them.
RulesFirst ==
    /\ pc = "close" /\ pc' = "rules"
    /\ UNCHANGED <<file, bridge, kernel, rules, request, pass, faith, told>> /\ Works

Closed ==
    /\ pc = "close" /\ links.up \cap Idle(want) \subseteq stuck
    /\ pc' = "rules"
    /\ UNCHANGED <<file, bridge, kernel, rules, request, pass, faith, told>> /\ Works

\* vxlanFirewallRestore: what the chain says of each ID.  The ID of an alien device is
\* not its name's, and no record's.
RulesFor(f, open) == [i \in Ids |-> IF i \in Listening(f) THEN f[i]
                                    ELSE IF i \in open \ links.alien THEN {} ELSE Unset]

\* The rules are settled, for better or worse; now every network.
Settled(works) ==
    /\ ok' = works
    /\ faith' = IF works THEN (IF faith = "reading" THEN "yes" ELSE faith)
                ELSE IF faith = "reading" THEN "no" ELSE faith
    /\ todo' = RecordsIn(want)
    /\ pc' = "each"

\* removeFirewall: each of its calls may fail, which is not looked at.
RemoveRules ==
    /\ pc = "rules" /\ Listening(want) = {} /\ stuck = {}
    /\ \/ jump' = FALSE /\ chain' = [i \in Ids |-> Unset] /\ Works
       \/ jump' = FALSE /\ UNCHANGED chain /\ Event
       \/ UNCHANGED rules /\ Event
    /\ Settled(TRUE)
    /\ UNCHANGED <<file, bridge, kernel, request, want, links, stuck, cur, plan, bad, told>>

\* Seeded fault: the chain is written only when an ID is missing from it.
RestoreMissing ==
    /\ pc = "rules" /\ Listening(want) \cup stuck # {}
    /\ chain' = IF \E i \in Ids : (chain[i] = Unset) # (RulesFor(want, stuck)[i] = Unset)
                THEN RulesFor(want, stuck) ELSE chain
    /\ pc' = "jump" /\ Works
    /\ UNCHANGED <<file, bridge, kernel, jump, request, want, links, stuck, todo, cur, plan, ok, bad,
                   faith, told>>

\* The chain is replaced in one step.
RestoreChain ==
    /\ pc = "rules" /\ Listening(want) \cup stuck # {}
    /\ \/ /\ chain' = RulesFor(want, stuck) /\ pc' = "jump" /\ Works
          /\ UNCHANGED <<todo, ok, faith>>
       \/ UNCHANGED chain /\ Settled(FALSE) /\ Event
    /\ UNCHANGED <<file, bridge, kernel, jump, request, want, links, stuck, cur, plan, bad, told>>

PutJump ==
    /\ pc = "jump"
    /\ \/ jump' = TRUE /\ Settled(TRUE) /\ Works
       \/ UNCHANGED jump /\ Settled(FALSE) /\ Event
    /\ UNCHANGED <<file, bridge, kernel, chain, request, want, links, stuck, cur, plan, bad, told>>

\* restoreBridge: a network that is running without its bridge is stopped and started.
RestoreBridge(i) ==
    \/ bridge[i] = "up" /\ UNCHANGED bridge /\ bad' = bad /\ Works
    \/ /\ bridge[i] \in {"off", "hollow"}
       /\ bridge' = [bridge EXCEPT ![i] = "up"] /\ bad' = bad /\ Works
    \/ /\ bridge[i] \in {"off", "hollow"}
       /\ bridge' = [bridge EXCEPT ![i] = "off"] /\ bad' = (bad \/ i = target) /\ Event
    \/ bridge[i] = "none" /\ UNCHANGED bridge /\ bad' = (bad \/ i = target) /\ Works

BeginNetwork(i) ==
    /\ pc = "each" /\ i \in todo
    /\ RestoreBridge(i)
    /\ cur' = i /\ todo' = todo \ {i} /\ pc' = "plan"
    /\ UNCHANGED <<file, kernel, rules, request, want, links, stuck, plan, ok, faith, told>>

ShouldBeUp(i) == ok /\ want[i] # {} /\ bridge[i] = "up"

\* Seeded fault: a device that is there is taken to be up.
NeededUp(i, have) ==
    {op \in Ops :
        \/ op = "down" /\ i \in links.up /\ ~ShouldBeUp(i)
        \/ op = "add" /\ i \notin links.devs
        \/ op = "master" /\ bridge[i] = "up" /\ i \notin links.ported
        \/ op = "fdb" /\ have # want[i]
        \/ op = "up" /\ ShouldBeUp(i) /\ i \notin links.devs}

\* planTunnel, from the devices as they were read and the hosts flooded to as they are.
Needed(i, have) ==
    {op \in Ops :
        \/ op = "down" /\ i \in links.up /\ ~ShouldBeUp(i)
        \/ op = "add" /\ i \notin links.devs
        \/ op = "master" /\ bridge[i] = "up" /\ i \notin links.ported
        \/ op = "fdb" /\ have # want[i]
        \/ op = "up" /\ ShouldBeUp(i) /\ i \notin links.up}

\* Another ID's device with this name: nothing is touched, and it is said.
Plan ==
    /\ pc = "plan"
    /\ \/ /\ cur \in links.devs \cap links.alien
          /\ plan' = {} /\ bad' = (bad \/ cur = target) /\ Works
       \/ /\ cur \notin links.devs \cap links.alien
          /\ \/ plan' = Needed(cur, IF cur \in links.devs THEN fdb[cur] ELSE {}) /\ Works
             \/ cur \in links.devs /\ plan' = Needed(cur, {}) /\ Event
          /\ bad' = (bad \/ (cur = target /\ ~ok /\ want[cur] # {}))
    /\ pc' = "steps"
    /\ UNCHANGED <<file, bridge, kernel, rules, request, want, links, stuck, todo, cur, ok,
                   faith, told>>

Rank == [down |-> 1, add |-> 2, master |-> 3, fdb |-> 4, up |-> 5]
\* Closing comes first, bringing up last.
NextOp(op) == op \in plan /\ \A q \in plan : Rank[op] <= Rank[q]

Done(op) == plan' = plan \ {op} /\ UNCHANGED bad /\ Works
\* A step that fails ends the plan.
Stop == plan' = {} /\ bad' = (bad \/ cur = target)

Down == /\ NextOp("down")
        /\ \/ cur \in devs /\ up' = up \ {cur} /\ Done("down")
           \/ cur \notin devs /\ UNCHANGED up /\ Stop /\ Works
        /\ UNCHANGED <<devs, alien, ported, fdb>>
Add == /\ NextOp("add")
       /\ \/ /\ cur \notin devs /\ devs' = devs \cup {cur}
             /\ fdb' = [fdb EXCEPT ![cur] = {}] /\ Done("add")
          \/ cur \in devs /\ UNCHANGED <<devs, fdb>> /\ Stop /\ Works
       /\ UNCHANGED <<up, alien, ported>>
Master == /\ NextOp("master")
          /\ \/ cur \in devs /\ bridge[cur] = "up" /\ ported' = ported \cup {cur} /\ Done("master")
             \/ ~(cur \in devs /\ bridge[cur] = "up") /\ UNCHANGED ported /\ Stop /\ Works
          /\ UNCHANGED <<devs, up, alien, fdb>>
\* The hosts that have gone first, then the new ones; it may stop half way.
Flood == /\ NextOp("fdb")
         /\ \/ cur \in devs /\ fdb' = [fdb EXCEPT ![cur] = want[cur]] /\ Done("fdb")
            \/ cur \notin devs /\ UNCHANGED fdb /\ Stop /\ Works
            \/ cur \in devs /\ fdb' = [fdb EXCEPT ![cur] = @ \cap want[cur]] /\ Stop /\ Event
         /\ UNCHANGED <<devs, up, alien, ported>>
Raise == /\ NextOp("up")
         /\ \/ cur \in devs /\ up' = up \cup {cur} /\ Done("up")
            \/ cur \notin devs /\ UNCHANGED up /\ Stop /\ Works
         /\ UNCHANGED <<devs, alien, ported, fdb>>
Fails == plan # {} /\ Stop /\ Event /\ UNCHANGED kernel

Step ==
    /\ pc = "steps"
    /\ Down \/ Add \/ Master \/ Flood \/ Raise \/ Fails
    /\ UNCHANGED <<file, bridge, rules, pc, request, want, links, stuck, todo, cur, ok, faith, told>>

EndNetwork ==
    /\ pc = "steps" /\ plan = {} /\ pc' = "each" /\ cur' = None
    /\ UNCHANGED <<file, bridge, kernel, rules, request, want, links, stuck, todo, plan, ok, bad,
                   faith, told>>
    /\ Works

(***************************************************************************)
(* The queue's changes (createVxlanNetworkNow, updateVxlanPeers,           *)
(* deleteNetworkNow) and its pass (applyVxlanNetworks).                    *)
(***************************************************************************)

Over == /\ pc' = "idle" /\ kind' = "pass" /\ target' = None /\ asked' = {}
        /\ old' = [i \in Ids |-> Unset] /\ want' = old'
        /\ links' = NoLinks /\ stuck' = {} /\ todo' = {} /\ cur' = None /\ plan' = {}
        /\ ok' = FALSE /\ bad' = FALSE

\* Every thirty seconds if there is a record or a device; after a start in any case.
BeginPass ==
    /\ pc = "boot" \/ (pc = "idle" /\ (devs # {} \/ RecordsIn(file) # {}))
    /\ \E f \in {file, [i \in Ids |-> Unset]} : ReadFile(f) /\ old' = f /\ Sync(f)
    /\ UNCHANGED <<file, bridge, kernel, rules, kind, target, asked, links, stuck, todo, cur, plan, ok,
                   bad, faith, told, asks>>

\* A request that gets its turn, unless it is refused for what it reads.
Begin(k, i, ps, f) ==
    /\ pc = "idle" /\ asks < MaxAsks /\ asks' = asks + 1
    /\ ReadFile(f)
    /\ kind' = k /\ target' = i /\ asked' = ps /\ old' = f
    /\ told' = [told EXCEPT ![i] = Unset]
    /\ UNCHANGED <<file, bridge, kernel, rules, links, stuck, todo, cur, plan, ok, bad, faith>>

\* The ID is not taken, nor the device's and the bridge's name.
Create(i, ps, f) ==
    /\ f[i] = Unset /\ i \notin devs /\ bridge[i] # "up"
    /\ Begin("create", i, ps, f)
    /\ pc' = "define" /\ UNCHANGED want

\* libvirt refuses a bridge's name that another network of its has.
Define ==
    /\ pc = "define"
    /\ \/ /\ bridge[target] = "none" /\ Works
          /\ bridge' = [bridge EXCEPT ![target] = "up"]
          /\ Sync([old EXCEPT ![target] = asked])
          /\ UNCHANGED <<kind, target, asked, old, links, stuck, todo, cur, plan, ok, bad>>
       \/ Over /\ UNCHANGED bridge /\ (Event \/ (bridge[target] # "none" /\ Works))
    /\ UNCHANGED <<file, kernel, rules, faith, told, asks>>

\* Seeded fault: what is not an address is taken for a host.
UpdateUnparsed(i, ps, f) ==
    /\ f[i] # Unset
    /\ Begin("update", i, ps \cup {None}, f)
    /\ Sync([f EXCEPT ![i] = ps \cup {None}])

UpdatePeers(i, ps, f) ==
    /\ f[i] # Unset
    /\ Begin("update", i, ps, f)
    /\ Sync([f EXCEPT ![i] = ps])

Delete(i, f) ==
    /\ f[i] # Unset
    /\ Begin("delete", i, {}, f)
    /\ pc' = "device" /\ UNCHANGED want

Answered(ps) == told' = [told EXCEPT ![target] = ps]

\* What follows a pass over the host depends on what it was for.
EndSync ==
    /\ pc = "each" /\ todo = {}
    /\ \/ kind \in {"pass", "undo"} /\ Over /\ UNCHANGED told
       \/ kind = "delete" /\ Over /\ Answered(IF ok THEN {} ELSE Unset)
       \/ /\ kind \in {"create", "update"} /\ ~bad /\ pc' = "write"
          /\ UNCHANGED <<request, pass, told>>
       \/ /\ kind = "create" /\ bad /\ pc' = "device"
          /\ UNCHANGED <<request, pass, told>>
       \/ /\ kind = "update" /\ bad /\ kind' = "undo" /\ Sync(old)
          /\ UNCHANGED <<target, asked, old, links, stuck, todo, cur, plan, ok, bad, told>>
    /\ UNCHANGED <<file, bridge, kernel, rules, faith, asks>> /\ Works

\* A create whose record cannot be written takes back what it made; an edit only fails.
Write ==
    /\ pc = "write"
    /\ \/ file' = want /\ Answered(asked) /\ Over /\ Works
       \/ /\ UNCHANGED <<file, told>> /\ Event
          /\ \/ kind = "update" /\ Over
             \/ kind = "create" /\ pc' = "device" /\ UNCHANGED <<request, pass>>
    /\ UNCHANGED <<bridge, kernel, rules, faith, asks>>

Without(i) == /\ devs' = devs \ {i} /\ up' = up \ {i} /\ alien' = alien \ {i} /\ ported' = ported \ {i}
              /\ fdb' = [fdb EXCEPT ![i] = {}]

\* The device goes before anything else: its socket closes with it.
RemoveDevice ==
    /\ pc = "device" /\ pc' = "network"
    /\ \/ Without(target) /\ Works
       \/ UNCHANGED kernel /\ Event
    /\ UNCHANGED <<file, bridge, rules, request, pass, faith, told, asks>>

RemoveNetwork ==
    /\ pc = "network"
    /\ \/ bridge' = [bridge EXCEPT ![target] = "none"] /\ ported' = ported \ {target} /\ Works
       \/ /\ bridge' = [bridge EXCEPT ![target] = IF @ = "none" THEN @ ELSE "off"]
          /\ ported' = ported \ {target} /\ Event
       \/ UNCHANGED <<bridge, ported>> /\ Event
    /\ \/ kind = "delete" /\ pc' = "erase" /\ UNCHANGED <<kind, want>>
       \/ kind = "create" /\ kind' = "undo" /\ Sync(old)
    /\ UNCHANGED <<file, devs, up, alien, fdb, rules, target, asked, old, links, stuck, todo, cur, plan,
                   ok, bad, faith, told, asks>>

Erase ==
    /\ pc = "erase"
    /\ \/ /\ file' = [old EXCEPT ![target] = Unset] /\ Sync(file') /\ Works
          /\ UNCHANGED <<kind, target, asked, old, links, stuck, todo, cur, plan, ok, bad>>
       \/ UNCHANGED file /\ Over /\ Event
    /\ UNCHANGED <<bridge, kernel, rules, faith, told, asks>>

(***************************************************************************)
(* What happens to the host and to the backend.                            *)
(***************************************************************************)

\* Something else replaces the firewall's rules or puts back old ones.
ChangeRules ==
    /\ \/ jump /\ jump' = FALSE /\ chain' \in {chain, [i \in Ids |-> Unset]}
       \/ /\ \E i \in Ids, ps \in SUBSET Peers :
              chain[i] \notin {Unset, ps} /\ chain' = [chain EXCEPT ![i] = ps]
          /\ UNCHANGED jump
    /\ faith' = "no"
    /\ UNCHANGED <<bridge, kernel>>

ChangeDevice(i) ==
    /\ i \in devs
    /\ \/ /\ i \notin up /\ up' = up \cup {i} /\ faith' = "no"
          /\ UNCHANGED <<devs, alien, ported, fdb>>
       \/ /\ i \in up /\ up' = up \ {i}
          /\ UNCHANGED <<devs, alien, ported, fdb, faith>>
       \/ Without(i) /\ UNCHANGED faith
       \/ /\ i \notin alien /\ alien' = alien \cup {i}
          /\ up' = up \ {i} /\ ported' = ported \ {i} /\ fdb' = [fdb EXCEPT ![i] = {}]
          /\ UNCHANGED <<devs, faith>>
    /\ UNCHANGED <<bridge, rules>>

\* The libvirt network is stopped by hand, or its bridge taken away.
LoseBridge(i) ==
    /\ bridge[i] = "up"
    /\ \E b \in {"off", "hollow"} : bridge' = [bridge EXCEPT ![i] = b]
    /\ ported' = ported \ {i}
    /\ UNCHANGED <<devs, up, alien, fdb, rules, faith>>

Outside ==
    /\ Event
    /\ ChangeRules \/ \E i \in Ids : ChangeDevice(i) \/ LoseBridge(i)
    /\ UNCHANGED <<file, pc, request, pass, told, asks>>

Died == /\ pc' = "boot" /\ kind' = "pass" /\ target' = None /\ asked' = {}
        /\ old' = [i \in Ids |-> Unset] /\ want' = old'
        /\ links' = NoLinks /\ stuck' = {} /\ todo' = {} /\ cur' = None /\ plan' = {}
        /\ ok' = FALSE /\ bad' = FALSE
        /\ UNCHANGED <<file, told, asks>>

Restart == Event /\ Died /\ UNCHANGED <<bridge, kernel, rules, faith>>

\* libvirt brings the bridges back by itself, or fails to.
Reboot ==
    /\ Event /\ Died
    /\ devs' = {} /\ up' = {} /\ alien' = {} /\ ported' = {} /\ fdb' = [i \in Ids |-> {}]
    /\ chain' = [i \in Ids |-> Unset] /\ jump' = FALSE
    /\ \E fail \in SUBSET Ids :
        bridge' = [i \in Ids |-> IF bridge[i] = "none" THEN "none"
                                 ELSE IF i \in fail THEN "off" ELSE "up"]
    /\ faith' = "yes"

SyncStep ==
    /\ \/ ReadLinks \/ Closed \/ RemoveRules \/ RestoreChain \/ PutJump \/ Plan \/ Step \/ EndNetwork
       \/ \E i \in Ids : Close(i) \/ BeginNetwork(i)
    /\ UNCHANGED asks
ChangeStep == Define \/ EndSync \/ Write \/ RemoveDevice \/ RemoveNetwork \/ Erase
Requests ==
    \E i \in Ids, f \in {file, [j \in Ids |-> Unset]} :
        \/ \E ps \in SUBSET Peers : Create(i, ps, f) \/ UpdatePeers(i, ps, f)
        \/ Delete(i, f)

Next == BeginPass \/ SyncStep \/ ChangeStep \/ Requests \/ Outside \/ Restart \/ Reboot

Spec == Init /\ [][Next]_vars

\* The timer goes off, and what is at the head of the queue goes on.
FairSpec == Spec /\ WF_vars(BeginPass) /\ WF_vars(SyncStep) /\ WF_vars(ChangeStep)

-----------------------------------------------------------------------------

TypeOK ==
    /\ file \in Records /\ bridge \in [Ids -> Bridges]
    /\ up \subseteq devs /\ alien \subseteq devs /\ ported \subseteq devs /\ devs \subseteq Ids
    /\ fdb \in [Ids -> SUBSET Peers]
    /\ chain \in Records /\ jump \in BOOLEAN
    /\ pc \in {"boot", "idle", "links", "close", "rules", "jump", "each", "plan", "steps",
               "define", "write", "device", "network", "erase"}
    /\ kind \in {"pass", "create", "update", "delete", "undo"}
    /\ target \in Ids \cup {None} /\ asked \in SUBSET Peers
    /\ old \in Records /\ want \in Records
    /\ links \in Links /\ stuck \subseteq Ids /\ todo \subseteq Ids /\ cur \in Ids \cup {None}
    /\ plan \subseteq Ops /\ ok \in BOOLEAN /\ bad \in BOOLEAN
    /\ faith \in Faith /\ told \in Records
    /\ asks \in 0 .. MaxAsks /\ events \in 0 .. MaxEvents

\* A tunnel of ours that is up lets in only who its rules let in: never for a moment is
\* it open to every machine, whatever fails, through edits, deletes and restarts, unless
\* something outside took the rules or raised the device, or a pass could not list the
\* devices, and no pass has been through since (vxlanService.ts:145-148, :180).
Guarded == faith = "yes" => \A i \in up \ alien : jump /\ chain[i] # Unset

\* Once an edit or a delete has been answered, a host it removed is let in no more,
\* whatever passes and other networks' changes follow (vxlanService.ts:54-59).
AnswerStands ==
    faith = "yes" => \A i \in up \ alien : told[i] # Unset => chain[i] \subseteq told[i]

Matches(i) ==
    /\ i \in up => file[i] \notin {Unset, {}}
    /\ file[i] \notin {Unset, {}} /\ bridge[i] # "none" /\ i \notin alien
       => i \in up \cap ported /\ fdb[i] = file[i] /\ chain[i] = file[i] /\ jump

\* After the last failure and the last meddling the host comes to match the records for
\* good: every tunnel that has hosts is up, floods to them, and lets in nobody else
\* (networkService.ts:633-637).
Recovers == <>[](\A i \in Ids : Matches(i))
=============================================================================
