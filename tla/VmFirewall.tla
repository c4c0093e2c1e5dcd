----------------------------- MODULE VmFirewall -----------------------------
(***************************************************************************)
(* The routed half of a VM's firewall: what Apply puts in force, the file  *)
(* that says what that was, the two chains and the jumps that iptables     *)
(* has, and the passes that keep them on the addresses the VM has, beside  *)
(* port forwards made and deleted, VMs started and deleted, and restarts   *)
(* of backend and host (services/firewallService.ts, firewallSync.ts,      *)
(* portForwardService.ts, the hook in src/scripts).                        *)
(*                                                                         *)
(* A VM has one NIC, on a network that all the addresses belong to.        *)
(***************************************************************************)
EXTENDS Integers, Sequences, FiniteSets, SequencesExt

CONSTANTS
    Vms,
    First,          \* the VM that has a firewall at the start
    Ips,
    Rules,          \* rule sets that say something
    Oldest,         \* the one it has
    Open,           \* the rule set that says nothing
    Default,        \* chains with a rule set's defaults and nothing else
    Junk,           \* what chains list that something else has changed
    Absent,
    Null,           \* the hash of a file whose Apply has not succeeded
    Nothing,
    MaxEvents       \* bound: requests, failing calls, restarts, changes from outside

Cfgs == Rules \cup {Open}
Contents == Rules \cup {Default, Junk}

ASSUME FirewallAssumption ==
    /\ First \in Vms /\ Oldest \in Rules /\ IsFiniteSet(Ips)
    /\ {Open, Default, Junk, Absent, Null, Nothing} \cap Rules = {}
    /\ Open \notin {Default, Junk, Absent, Null} /\ Default \notin {Junk, Absent, Null}
    /\ Junk \notin {Absent, Null} /\ Absent # Null
    /\ Nothing \notin Vms \cup Ips \cup {Open, Default, Junk, Absent, Null}
    /\ MaxEvents \in Nat

VARIABLES
    file,           \* <uuid>-firewall.json, or Absent
    boot,           \* <uuid>-firewall.boot.ipt, or Absent
    chains,         \* what VP-IN and VP-OUT list, Absent without them
    fwd,            \* FORWARD, its head first
    forwards,       \* port-forwards.json
    st,             \* "off", "on", or "gone" from libvirt
    nic,            \* VMs with their NIC
    holder,         \* holder[ip]: the VM it is leased to, or fixed for
    phase,          \* of the backend: "restore", "rules" or "up"
    todo,           \* what that phase, or the pass under way, has still to do
    job,            \* the change of jumps that has the queue, after its kernel half
    look,           \* the pass: what it does next, and what it has read
    change,         \* the change of forwards under way
    ask,            \* the Apply under way
    gone,           \* the delete of a VM under way
    asked,          \* history: what Apply has been asked for
    since,          \* history: what there has been to see since the pass under way began
    events

kernel == <<chains, fwd>>
disk == <<file, boot>>
world == <<st, nic, holder>>
actors == <<look, change, ask, gone>>
start == <<phase, todo>>
history == <<asked, since>>
vars == <<file, boot, chains, fwd, forwards, st, nic, holder, phase, todo, job, look, change,
          ask, gone, asked, since, events>>

In(v, ip) == [do |-> "in", vm |-> v, ip |-> ip]
Out(v, ip) == [do |-> "out", vm |-> v, ip |-> ip]
Accept(v, ip) == [do |-> "accept", vm |-> v, ip |-> ip]
Libvirt == [do |-> "libvirt", vm |-> Nothing, ip |-> Nothing]
Jumps(v, ips) == {In(v, ip) : ip \in ips} \cup {Out(v, ip) : ip \in ips}
Has(f, r) == \E i \in DOMAIN f : f[i] = r
Above(f, r, s) == \E i, j \in DOMAIN f : i < j /\ f[i] = r /\ f[j] = s
\* FORWARD without some of its rules, and what goes in at its head.
Without(f, rules) ==
    LET Left(i) == Cardinality({j \in 1 .. i : f[j] \notin rules})
    IN  IF \A i \in DOMAIN f : f[i] \notin rules THEN f
        ELSE [n \in 1 .. Left(Len(f)) |-> f[CHOOSE i \in DOMAIN f : f[i] \notin rules /\ Left(i) = n]]
Pairs(v, ips) ==
    [n \in 1 .. 2 * Cardinality(ips) |->
        LET ip == SetToSeq(ips)[(n + 1) \div 2] IN IF n % 2 = 1 THEN Out(v, ip) ELSE In(v, ip)]

\* readJumps: either half of a pair names the address.
Held(f, v) == {ip \in Ips : Has(f, In(v, ip)) \/ Has(f, Out(v, ip))}
PutJumps(f, v, ips) == Pairs(v, ips) \o Without(f, Jumps(v, ips))
JumpSwap(f, v, ips) == Pairs(v, ips) \o Without(f, Jumps(v, Ips))
\* repairJumps: the half that is missing goes in at the head.
RepairJumps(f, v) ==
    SetToSeq({r \in Jumps(v, Held(f, v)) : ~Has(f, r)}) \o f
\* jumpsOutOfPlace
Low(f, v) == {ip \in Ips : \E j \in Jumps(v, {ip}) :
                 \/ Above(f, Libvirt, j)
                 \/ \E w \in Vms : Above(f, Accept(w, ip), j)}

(***************************************************************************)
(* A VM's file.                                                            *)
(***************************************************************************)

NewFile == [saved |-> Open, applied |-> Absent, raw |-> Absent, hash |-> Absent, to |-> {},
            print |-> Absent]

\* Seeded fault: what is saved is in force, whatever Apply has been asked for.
SavedInForce(f) == IF f.saved = Open THEN Absent ELSE f.saved

\* Seeded fault: a rule set that says nothing is in force like any other.
EmptyInForce(f) ==
    IF f.applied # Absent THEN f.applied
    ELSE IF f.raw # Absent THEN f.raw
    ELSE IF f.hash = f.saved THEN f.saved ELSE Absent

\* firewallInForce: a hash from before there was a copy tells a draft from what was applied.
InForce(f) ==
    IF f.applied # Absent
      THEN IF f.applied = Open THEN Absent ELSE f.applied
      ELSE IF f.raw # Absent THEN f.raw
      ELSE IF f.hash = f.saved /\ f.saved # Open THEN f.saved ELSE Absent
Kept(v) == file[v] # Absent /\ InForce(file[v]) # Absent

\* writeBootFiles
BootOf(f) == IF f = Absent \/ InForce(f) = Absent THEN Absent
             ELSE [rules |-> InForce(f), ips |-> f.to]
WriteBoth(v, f) ==
    /\ file' = [file EXCEPT ![v] = f]
    /\ boot' = [boot EXCEPT ![v] = BootOf(f)]

Idle == [pc |-> "idle", vm |-> Nothing, ip |-> Nothing, cfg |-> Absent, ips |-> {}]
NoPass == [pc |-> "idle", vm |-> Nothing, ip |-> Nothing, roster |-> {}, on |-> {}, nics |-> {},
           holder |-> Absent, owners |-> Absent, fwd |-> <<>>, claims |-> {}, wanted |-> {}, named |-> {}, held |-> {}]
Memory == [off : SUBSET Vms, here : SUBSET Vms, leased : SUBSET (Ips \X Vms)]
Unseen == [off |-> {}, here |-> {}, leased |-> {}]
NoJob == [by |-> "none", vm |-> Nothing, what |-> "none", cfg |-> Absent, ips |-> {}]

\* One VM has rules in force since before a copy of them was kept, and perhaps a draft beside them.
Init ==
    /\ \E s \in Rules, ip \in Ips, h \in {Absent, Oldest} :
          /\ h = Oldest \/ s # Oldest
          /\ file = [v \in Vms |-> IF v = First THEN [NewFile EXCEPT !.saved = s, !.hash = h]
                                                ELSE Absent]
          /\ fwd = Pairs(First, {ip}) \o <<Libvirt>>
          /\ holder = [i \in Ips |-> IF i = ip THEN First ELSE Nothing]
    /\ chains = [v \in Vms |-> IF v = First THEN Oldest ELSE Absent]
    /\ asked = [v \in Vms |-> IF v = First THEN {Oldest} ELSE {}]
    /\ todo = {First}
    /\ boot = [v \in Vms |-> Absent]
    /\ forwards = {}
    /\ st = [v \in Vms |-> "off"] /\ nic = Vms
    /\ phase = "restore" /\ job = NoJob
    /\ look = NoPass /\ change = Idle /\ ask = Idle /\ gone = Idle
    /\ since = Unseen /\ events = 0

\* What nothing makes happen: a failure, a restart, a request, a change in the world.
Event == events < MaxEvents /\ events' = events + 1

Named(v) == {ip \in Ips : <<v, ip>> \in forwards}
Stranger(h, v, ip) == h[ip] \notin {v, Nothing}
\* provedAnothers: a VM here has it, by a MAC among those this host knows.
Proved(h, owners, v, ip) == Stranger(h, v, ip) /\ h[ip] \in owners
Evidence(v, ip) == v \notin nic \/ Proved(holder, nic, v, ip)

(***************************************************************************)
(* The queue of changes of jumps (oneAtATime).  A change reads the file,   *)
(* changes the kernel in one step, and then writes what it has done.       *)
(***************************************************************************)

Free == job = NoJob
Queue(by, v, what, cfg, ips) ==
    job' = [by |-> by, vm |-> v, what |-> what, cfg |-> cfg, ips |-> ips]

\* noteAddresses: what the kernel has, not what it was asked for.
NoteAddresses ==
    /\ job.what = "note"
    /\ IF file[job.vm] = Absent
         THEN WriteBoth(job.vm, Absent)
         ELSE WriteBoth(job.vm, [file[job.vm] EXCEPT !.to = Held(fwd, job.vm)])
\* The end of a rebuild.
NoteRebuilt ==
    /\ job.what = "rebuilt"
    /\ WriteBoth(job.vm, [file[job.vm] EXCEPT !.to = job.ips, !.print = chains[job.vm]])
\* The end of an Apply, of a VM whose file may never have been written.
NoteApplied ==
    /\ job.what = "applied"
    /\ IF file[job.vm] = Absent
         THEN WriteBoth(job.vm, Absent)
         ELSE WriteBoth(job.vm, [file[job.vm] EXCEPT !.hash = job.cfg, !.applied = job.cfg,
                                     !.raw = Absent, !.to = job.ips, !.print = chains[job.vm]])
\* The end of removeVmFirewall, which leaves the file.
Unboot ==
    /\ job.what = "unboot"
    /\ boot' = [boot EXCEPT ![job.vm] = Absent] /\ UNCHANGED file

EndJob ==
    /\ NoteAddresses \/ NoteRebuilt \/ NoteApplied \/ Unboot
    /\ job' = NoJob
    /\ ask' = IF job.what = "applied" THEN Idle ELSE ask
    /\ UNCHANGED <<kernel, forwards, world, start, look, change, gone, asked, events>>

\* removeVmFirewall as far as the kernel goes.  A chain that a jump is left to stays, empty.
Clear(v) ==
    \/ /\ chains' = [chains EXCEPT ![v] = Absent] /\ UNCHANGED events
       /\ fwd' = Without(fwd, Jumps(v, Ips))
    \/ \E ip \in Held(fwd, v) :
          /\ Event /\ chains' = [chains EXCEPT ![v] = Junk]
          /\ fwd' = Without(fwd, Jumps(v, Ips \ {ip}))

\* keepInForce, with rules in force: what the chains list is what it was, or they are rebuilt.
Intact(v) == /\ chains[v] # Absent
             /\ file[v].print \in {Absent, chains[v]}
KeepIntact(v) ==
    /\ Kept(v) /\ Intact(v)
    /\ file' = [file EXCEPT ![v].print = chains[v]]
    /\ \/ fwd' = RepairJumps(fwd, v) /\ UNCHANGED events
       \/ RepairJumps(fwd, v) # fwd /\ Event /\ UNCHANGED fwd
    /\ UNCHANGED <<chains, boot, job>>
KeepRebuild(v, ips, by) ==
    /\ Kept(v) /\ ~Intact(v)
    /\ LET to == file[v].to \cup ips IN
          /\ Queue(by, v, "rebuilt", Absent, to) /\ UNCHANGED <<disk, events>>
          /\ chains' = [chains EXCEPT ![v] = InForce(file[v])]
          /\ fwd' = JumpSwap(fwd, v, to)
KeepInForce(v, ips, by) == KeepIntact(v) \/ KeepRebuild(v, ips, by)

(***************************************************************************)
(* A start of the backend: firewalls first, from files and kernel alone,   *)
(* then the rules of every forward, and only then requests and passes.     *)
(***************************************************************************)

Legacy(v) == file[v] # Absent /\ file[v].applied = Absent /\ file[v].raw = Absent

\* noteRulesAlreadyInForce: the saved rules only if the hash says they are what was applied.
NoteLegacy(v) ==
    /\ phase = "restore" /\ v \in todo /\ Free
    /\ Legacy(v) /\ chains[v] # Absent
    /\ LET f == [file[v] EXCEPT !.to = Held(fwd, v)] IN
       WriteBoth(v, IF f.hash = f.saved THEN [f EXCEPT !.applied = f.saved]
                                        ELSE [f EXCEPT !.raw = chains[v]])
    /\ UNCHANGED <<kernel, forwards, world, start, job, actors, asked, events>>

\* restoreFirewalls
Restore(v) ==
    /\ phase = "restore" /\ v \in todo /\ Free
    /\ ~(Legacy(v) /\ chains[v] # Absent)
    /\ \/ KeepInForce(v, Named(v), "start")
       \/ ~Kept(v) /\ UNCHANGED <<kernel, disk, job, events>>
       \/ Kept(v) /\ Event /\ UNCHANGED <<kernel, disk, job>>
    /\ todo' = todo \ {v}
    /\ UNCHANGED <<forwards, world, phase, actors, asked>>

Restored ==
    /\ phase = "restore" /\ todo = {} /\ Free
    /\ phase' = "rules" /\ todo' = forwards
    /\ UNCHANGED <<kernel, disk, forwards, world, job, actors, asked, events>>

\* applyAllRules: each forward's rules as when it was made.
ApplyRule(v, ip) ==
    /\ phase = "rules" /\ <<v, ip>> \in todo /\ change = Idle
    /\ change' = [Idle EXCEPT !.pc = "accept", !.vm = v, !.ip = ip]
    /\ UNCHANGED <<kernel, disk, forwards, world, start, job, look, ask, gone, asked, events>>

Up ==
    /\ phase = "rules" /\ todo = {} /\ change = Idle
    /\ phase' = "up"
    /\ UNCHANGED <<kernel, disk, forwards, world, todo, job, actors, asked, events>>

(***************************************************************************)
(* Changes of port forwards, one at a time.                                *)
(***************************************************************************)

\* A change that fails undoes its rules; at a start it is the next forward's turn.
Fail == IF phase = "up"
          THEN change' = [change EXCEPT !.pc = "undo"] /\ UNCHANGED todo
          ELSE change' = Idle /\ todo' = todo \ {<<change.vm, change.ip>>}

\* createPortForward, with the reservation it takes: never another's address.
BeginForward(v, ip) ==
    /\ phase = "up" /\ change = Idle /\ Event
    /\ st[v] # "gone" /\ v \in nic
    /\ <<v, ip>> \notin forwards /\ ~Stranger(holder, v, ip)
    /\ \A w \in Vms : <<w, ip>> \notin forwards
    /\ holder' = [holder EXCEPT ![ip] = v]
    /\ change' = [Idle EXCEPT !.pc = "accept", !.vm = v, !.ip = ip]
    /\ UNCHANGED <<kernel, disk, forwards, st, nic, start, job, look, ask, gone, asked>>

\* addIptablesRules, as far as FORWARD goes: at its head, as libvirt's refuse what comes after them.
InsertAccept ==
    /\ change.pc = "accept"
    /\ LET a == Accept(change.vm, change.ip) IN
       \/ /\ fwd' = IF Has(fwd, a) THEN fwd ELSE <<a>> \o fwd
          /\ change' = [change EXCEPT !.pc = "assert"]
          /\ UNCHANGED <<todo, events>>
       \/ Event /\ Fail /\ UNCHANGED fwd
    /\ UNCHANGED <<chains, disk, forwards, world, phase, job, look, ask, gone, asked>>

\* reassertForwardJumps: the firewall's jumps above it, if the VM has chains at all.
Reassert ==
    /\ change.pc = "assert" /\ Free
    /\ LET v == change.vm IN
       \/ /\ change' = [change EXCEPT !.pc = "record"] /\ UNCHANGED <<todo, events>>
          /\ IF chains[v] = Absent
               THEN UNCHANGED <<fwd, job>>
               ELSE /\ Queue("change", v, "note", Absent, {})
                    /\ fwd' = PutJumps(RepairJumps(fwd, v), v, {change.ip})
       \/ chains[v] # Absent /\ Event /\ Fail /\ UNCHANGED <<fwd, job>>
    /\ UNCHANGED <<chains, disk, forwards, world, phase, look, ask, gone, asked>>

\* The record last, for a forward that is in.
RecordForward ==
    /\ change.pc = "record" /\ job.by # "change"
    /\ \/ /\ phase = "up"
          /\ forwards' = forwards \cup {<<change.vm, change.ip>>}
          /\ change' = Idle /\ UNCHANGED <<todo, events>>
       \/ /\ phase = "up" /\ Event /\ Fail /\ UNCHANGED forwards
       \/ /\ phase = "rules"
          /\ change' = Idle /\ todo' = todo \ {<<change.vm, change.ip>>}
          /\ UNCHANGED <<forwards, events>>
    /\ UNCHANGED <<kernel, disk, world, phase, job, look, ask, gone, asked>>

UndoForward ==
    /\ change.pc = "undo"
    /\ change' = Idle
    /\ fwd' = Without(fwd, {Accept(change.vm, change.ip)})
    /\ UNCHANGED <<chains, disk, forwards, world, start, job, look, ask, gone, asked, events>>

\* deletePortForward and deleteForwardsWhere: the rules, then the record.
Drop(v, ips) ==
    /\ change = Idle
    /\ change' = [Idle EXCEPT !.pc = "erase", !.vm = v, !.ips = ips]
    /\ fwd' = Without(fwd, {Accept(v, ip) : ip \in ips})

DropForward(v, ip) ==
    /\ phase = "up" /\ <<v, ip>> \in forwards
    /\ Drop(v, {ip})
    /\ UNCHANGED <<chains, disk, forwards, world, start, job, look, ask, gone, asked, events>>

EraseForward ==
    /\ change.pc = "erase"
    /\ \/ forwards' = forwards \ {<<change.vm, ip>> : ip \in change.ips} /\ UNCHANGED events
       \/ Event /\ UNCHANGED forwards
    /\ change' = Idle
    /\ UNCHANGED <<kernel, disk, world, start, job, look, ask, gone, asked>>

(***************************************************************************)
(* What a VM's addresses are, as far as this host can tell (addressesOf).  *)
(***************************************************************************)

\* claimedElsewhere: another has it, or has a jump on it that a forward of its own backs.
Claimed(h, f, claims, v, ip) ==
    \/ Stranger(h, v, ip)
    \/ \E w \in Vms \ {v} : Has(f, In(w, ip)) /\ <<w, ip>> \in claims

\* A VM that is off has only what is fixed for it.  The guest's word, which can be any address, is
\* taken only where nothing better speaks, and for an address that nobody else claims.
Readings(h, f, claims, v, on, has) ==
    LET own == {ip \in Ips : h[ip] = v}
        found == IF ~has THEN {{}}
                 ELSE IF ~on THEN {own, {}}
                 ELSE IF own # {} THEN {own}
                 ELSE {{}} \cup {{ip} : ip \in Ips}
    IN  {{ip \in s : ~Claimed(h, f, claims, v, ip)} : s \in found}

(***************************************************************************)
(* Save and Apply, and a VM's delete.                                      *)
(***************************************************************************)

Save(v, c) ==
    /\ phase = "up" /\ Free /\ Event
    /\ file' = [file EXCEPT ![v] = [(IF @ = Absent THEN NewFile ELSE @) EXCEPT !.saved = c]]
    /\ UNCHANGED <<boot, kernel, forwards, world, start, job, actors, asked>>

\* firewallPlan, the forwards' addresses, and the rules as saved.
BeginApply(v) ==
    /\ phase = "up" /\ ask = Idle /\ Event
    /\ st[v] # "gone"
    /\ LET cfg == IF file[v] = Absent THEN Open ELSE file[v].saved IN
       \E ips \in Readings(holder, fwd, forwards, v, st[v] = "on", v \in nic) :
          /\ ask' = [Idle EXCEPT !.pc = "queue", !.vm = v, !.cfg = cfg, !.ips = ips \cup Named(v)]
          /\ asked' = [asked EXCEPT ![v] = @ \cup {cfg}]
    /\ UNCHANGED <<kernel, disk, forwards, world, start, job, look, change, gone>>

\* applyFirewallRules: first of all the file says that it may not succeed.
ApplyBegins ==
    /\ ask.pc = "queue" /\ Free
    /\ file' = IF file[ask.vm] = Absent THEN file ELSE [file EXCEPT ![ask.vm].hash = Null]
    /\ Queue("ask", ask.vm, "apply", ask.cfg, ask.ips)
    /\ ask' = [ask EXCEPT !.pc = "wait"]
    /\ UNCHANGED <<boot, kernel, forwards, world, start, look, change, gone, asked, events>>

\* rebuildFirewall.  What it is on now stays.  A rejected rule leaves what was in force, or with
\* nothing there the defaults, and the file as it is.
ApplyKernel ==
    /\ job.what = "apply"
    /\ LET v == job.vm
           ips == IF job.cfg = Open THEN {} ELSE job.ips \cup Held(fwd, v)
       IN  \/ /\ job.cfg = Open /\ Clear(v)
              /\ job' = [job EXCEPT !.what = "applied", !.ips = ips] /\ UNCHANGED ask
           \/ /\ job.cfg # Open
              /\ job' = [job EXCEPT !.what = "applied", !.ips = ips] /\ UNCHANGED <<ask, events>>
              /\ chains' = [chains EXCEPT ![v] = job.cfg] /\ fwd' = JumpSwap(fwd, v, ips)
           \/ /\ job.cfg # Open /\ Event
              /\ IF chains[v] = Absent
                   THEN \/ chains' = [chains EXCEPT ![v] = Default] /\ fwd' = JumpSwap(fwd, v, ips)
                        \/ UNCHANGED kernel
                   ELSE UNCHANGED kernel
              /\ job' = NoJob /\ ask' = Idle
    /\ UNCHANGED <<disk, forwards, world, start, look, change, gone, asked>>

\* The route that deletes a VM: libvirt first.
BeginDelete(v) ==
    /\ phase = "up" /\ gone = Idle /\ Event
    /\ st[v] # "gone"
    /\ st' = [st EXCEPT ![v] = "gone"] /\ nic' = nic \ {v}
    /\ gone' = [Idle EXCEPT !.pc = "forwards", !.vm = v]
    /\ UNCHANGED <<kernel, disk, forwards, holder, start, job, look, change, ask, asked>>

DeleteForwards ==
    /\ gone.pc = "forwards"
    /\ Drop(gone.vm, Named(gone.vm))
    /\ gone' = [gone EXCEPT !.pc = "firewall"]
    /\ UNCHANGED <<chains, disk, forwards, world, start, job, look, ask, asked, events>>

\* A forward whose record could not be erased ends the delete there.
DeleteFirewall ==
    /\ gone.pc = "firewall" /\ change.pc # "erase"
    /\ IF Named(gone.vm) # {}
         THEN gone' = Idle /\ UNCHANGED <<kernel, job, events>>
         ELSE /\ Free
              /\ gone' = [gone EXCEPT !.pc = "file"]
              /\ Queue("gone", gone.vm, "unboot", Absent, {})
              /\ Clear(gone.vm)
    /\ UNCHANGED <<disk, forwards, world, start, look, change, ask, asked>>

\* deleteFirewallConfig
DeleteFile ==
    /\ gone.pc = "file" /\ Free
    /\ file' = [file EXCEPT ![gone.vm] = Absent] /\ boot' = [boot EXCEPT ![gone.vm] = Absent]
    /\ gone' = Idle
    /\ UNCHANGED <<kernel, forwards, world, start, job, look, change, ask, asked, events>>

(***************************************************************************)
(* A pass: what there is to look after, and then one VM after another,     *)
(* with what it has read at its start (syncOnce, syncOne).                 *)
(***************************************************************************)

Passing(pc) == phase = "up" /\ look.pc = pc /\ job.by # "pass"
\* On to the next VM, whether this one's turn has ended or failed.
DoneWith(v) ==
    /\ todo' = todo \ {v}
    /\ look' = IF todo' = {} THEN NoPass
               ELSE [look EXCEPT !.pc = "look", !.vm = Nothing, !.ip = Nothing,
                                 !.wanted = {}, !.named = {}, !.held = {}]

\* listFirewallFiles, the VMs and their NICs, FORWARD and the forwards.  A roster may miss a VM.
BeginPass ==
    /\ phase = "up" /\ look = NoPass
    /\ todo' = {v \in Vms : Kept(v)} /\ todo' # {}
    /\ LET here == {v \in Vms : st[v] # "gone"} IN
       \E missed \in {{}} \cup {{v} : v \in here} :
          /\ look' = [NoPass EXCEPT !.pc = "look", !.roster = here \ missed, !.nics = nic,
                                    !.on = {v \in here : st[v] = "on"}, !.fwd = fwd,
                                    !.claims = forwards]
          /\ IF missed = {} THEN UNCHANGED events ELSE Event
    /\ UNCHANGED <<kernel, disk, forwards, world, phase, job, change, ask, gone, asked>>

\* Leases are read once, by the first VM that needs them.
Leases == IF look.holder = Absent THEN holder ELSE look.holder

LookAt(v) ==
    /\ Passing("look") /\ v \in todo \cap look.roster
    /\ \E ips \in Readings(Leases, look.fwd, look.claims, v, v \in look.on, v \in look.nics) :
          look' = [look EXCEPT !.pc = "keep", !.vm = v, !.holder = Leases, !.wanted = ips,
                               !.named = Named(v)]
    /\ UNCHANGED <<kernel, disk, forwards, world, start, job, change, ask, gone, asked, events>>

\* Not on the roster: out of force if libvirt says so too, and no forward's ACCEPT is under it.
LookGone(v) ==
    /\ Passing("look") /\ v \in todo \ look.roster
    /\ IF st[v] = "gone" /\ Named(v) = {} /\ chains[v] # Absent
         THEN look' = [look EXCEPT !.pc = "gone", !.vm = v] /\ UNCHANGED todo
         ELSE DoneWith(v)
    /\ UNCHANGED <<kernel, disk, forwards, world, phase, job, change, ask, gone, asked, events>>

TakeOut ==
    /\ Passing("gone") /\ Free
    /\ DoneWith(look.vm)
    /\ Queue("pass", look.vm, "unboot", Absent, {})
    /\ Clear(look.vm)
    /\ UNCHANGED <<disk, forwards, world, phase, change, ask, gone, asked>>

Keep ==
    /\ Passing("keep") /\ Free
    /\ \/ /\ look' = [look EXCEPT !.pc = "held"] /\ UNCHANGED todo
          /\ KeepInForce(look.vm, look.wanted \cup look.named, "pass")
       \/ /\ ~Kept(look.vm)
          /\ DoneWith(look.vm)
          /\ UNCHANGED <<kernel, disk, job, events>>
       \/ /\ Kept(look.vm) /\ ~Intact(look.vm) /\ Event
          /\ DoneWith(look.vm)
          /\ UNCHANGED <<kernel, disk, job>>
    /\ UNCHANGED <<forwards, world, phase, change, ask, gone, asked>>

ReadHeld ==
    /\ Passing("held")
    /\ look' = [look EXCEPT !.pc = "turn", !.held = Held(fwd, look.vm)]
    /\ UNCHANGED <<kernel, disk, forwards, world, start, job, change, ask, gone, asked, events>>

\* Seeded fault: only a forward's address is put in.
OnlyNamed == look.named \ look.held
\* Seeded fault: only what no network of the VM's has comes off.
OffNetwork == {ip \in look.held \ (look.wanted \cup look.named) : look.vm \notin look.nics}

Missing == (look.wanted \cup look.named) \ look.held
\* What it is on and nothing asks for.
Rest == look.held \ (look.wanted \cup look.named)
\* What of that is another's, as far as what was read says.
Strays == {ip \in Rest : \/ look.vm \notin look.nics
                         \/ look.owners # Absent /\ Proved(Leases, look.owners, look.vm, ip)}

\* addFirewallAddress: the file may have gone since, or its rules been taken out of force.
AddAddress(ip) ==
    /\ Passing("turn") /\ Free
    /\ ip \in Missing
    /\ \/ /\ look' = [look EXCEPT !.held = @ \cup {ip}] /\ UNCHANGED <<todo, events>>
          /\ IF Kept(look.vm) /\ chains[look.vm] # Absent
               THEN /\ Queue("pass", look.vm, "note", Absent, {})
                    /\ fwd' = PutJumps(fwd, look.vm, {ip})
               ELSE UNCHANGED <<fwd, job>>
       \/ /\ Event
          /\ DoneWith(look.vm) /\ UNCHANGED <<fwd, job>>
    /\ UNCHANGED <<chains, disk, forwards, world, phase, change, ask, gone, asked>>

\* Whose each MAC is: asked once a pass, when a lease first has to be told from a MAC made up.
NeedsOwners == /\ look.owners = Absent /\ look.vm \in look.nics
               /\ \E ip \in Rest : Leases[ip] # Nothing
AskOwners ==
    /\ Passing("turn") /\ Missing = {} /\ NeedsOwners
    /\ look' = [look EXCEPT !.owners = nic]
    /\ UNCHANGED <<kernel, disk, forwards, world, start, job, change, ask, gone, asked, events>>

\* Seeded fault: an address that is not read this time comes off.
AnyStray ==
    /\ Passing("turn") /\ Missing = {}
    /\ \E ip \in Rest : look' = [look EXCEPT !.held = @ \ {ip}, !.pc = "drop", !.ip = ip]
    /\ UNCHANGED <<kernel, disk, forwards, world, start, job, change, ask, gone, asked, events>>

\* As the forwards are now: one could have been made since this pass began.
CheckForwards ==
    /\ Passing("turn") /\ Missing = {}
    /\ \E ip \in Strays :
          look' = [look EXCEPT !.held = @ \ {ip}, !.ip = ip,
                               !.pc = IF <<look.vm, ip>> \in forwards THEN "turn" ELSE "drop"]
    /\ UNCHANGED <<kernel, disk, forwards, world, start, job, change, ask, gone, asked, events>>

\* removeFirewallAddress: a call that fails ends it, with half the pair left.
DropAddress ==
    /\ Passing("drop") /\ Free
    /\ look' = [look EXCEPT !.pc = "turn"]
    /\ Queue("pass", look.vm, "note", Absent, {})
    /\ \/ UNCHANGED events /\ fwd' = Without(fwd, Jumps(look.vm, {look.ip}))
       \/ Event /\ fwd' = Without(fwd, {In(look.vm, look.ip)})
    /\ UNCHANGED <<chains, disk, forwards, world, start, change, ask, gone, asked>>

\* raiseFirewallAddresses, by FORWARD as it was when the pass began.
Raise ==
    /\ Passing("turn") /\ Free
    /\ Missing = {} /\ Strays = {} /\ ~NeedsOwners
    /\ DoneWith(look.vm)
    /\ LET v == look.vm IN
       \/ chains[v] # Absent /\ UNCHANGED events /\ fwd' = PutJumps(fwd, v, Low(look.fwd, v))
       \/ chains[v] = Absent /\ UNCHANGED <<fwd, events>>
       \/ Low(look.fwd, v) # {} /\ Event /\ UNCHANGED fwd
    /\ UNCHANGED <<chains, disk, forwards, world, phase, job, change, ask, gone, asked>>

(***************************************************************************)
(* VMs, networks and the host.                                             *)
(***************************************************************************)

\* A start, with libvirt's hook: rules that are not in the kernel go in from the boot file.
Start(v) ==
    /\ st[v] = "off" /\ st' = [st EXCEPT ![v] = "on"]
    /\ IF chains[v] = Absent /\ boot[v] # Absent
         THEN \/ /\ chains' = [chains EXCEPT ![v] = boot[v].rules]
                 /\ fwd' = Pairs(v, boot[v].ips) \o fwd
                 /\ UNCHANGED events
              \/ Event /\ UNCHANGED kernel
         ELSE UNCHANGED <<kernel, events>>
    /\ UNCHANGED <<disk, forwards, nic, holder, start, job, actors, asked>>

Stop(v) ==
    /\ Event /\ st[v] = "on" /\ st' = [st EXCEPT ![v] = "off"]
    /\ UNCHANGED <<kernel, disk, forwards, nic, holder, start, job, actors, asked>>

\* An address is let go, or leased to another, but never one that is reserved for a forward.
MoveAddress(ip, v) ==
    /\ Event /\ holder[ip] # v
    /\ v = Nothing \/ (v \in nic /\ st[v] = "on")
    /\ \A w \in Vms : <<w, ip>> \notin forwards
    /\ change.pc \in {"idle", "erase"} \/ change.ip # ip
    /\ holder' = [holder EXCEPT ![ip] = v]
    /\ UNCHANGED <<kernel, disk, forwards, st, nic, start, job, actors, asked>>

\* A NIC comes off, with its forwards (deletePortForwardsForNic), or goes on again.
Detach(v) ==
    /\ phase = "up" /\ Event
    /\ v \in nic /\ st[v] # "gone" /\ nic' = nic \ {v}
    /\ Drop(v, Named(v))
    /\ UNCHANGED <<chains, disk, forwards, st, holder, start, job, look, ask, gone, asked>>

Attach(v) ==
    /\ Event /\ v \notin nic /\ st[v] # "gone" /\ nic' = nic \cup {v}
    /\ UNCHANGED <<kernel, disk, forwards, st, holder, start, job, actors, asked>>

\* From outside: a VM leaves libvirt, and a VM of the same name comes back to its file.
Undefine(v) ==
    /\ Event /\ st[v] = "off" /\ st' = [st EXCEPT ![v] = "gone"] /\ nic' = nic \ {v}
    /\ UNCHANGED <<kernel, disk, forwards, holder, start, job, actors, asked>>

Redefine(v) ==
    /\ Event /\ st[v] = "gone" /\ gone.vm # v
    /\ st' = [st EXCEPT ![v] = "off"] /\ nic' = nic \cup {v}
    /\ UNCHANGED <<kernel, disk, forwards, holder, start, job, actors, asked>>

\* Something empties or changes a VM's chains.
Meddle(v) ==
    /\ Event /\ chains[v] # Absent /\ chains' = [chains EXCEPT ![v] = Junk]
    /\ UNCHANGED <<fwd, disk, forwards, world, start, job, actors, asked>>

\* libvirt puts its rules in again, at the head.
LibvirtRules ==
    /\ Event /\ fwd' = <<Libvirt>> \o Without(fwd, {Libvirt})
    /\ UNCHANGED <<chains, disk, forwards, world, start, job, actors, asked>>

\* The backend comes back, alone or with its host, where no rule is left and no VM runs.
Restart ==
    /\ Event
    /\ \/ UNCHANGED <<kernel, st>>
       \/ /\ chains' = [v \in Vms |-> Absent] /\ fwd' = <<Libvirt>>
          /\ st' = [v \in Vms |-> IF st[v] = "on" THEN "off" ELSE st[v]]
    /\ phase' = "restore" /\ todo' = {v \in Vms : file[v] # Absent}
    /\ job' = NoJob /\ look' = NoPass /\ change' = Idle /\ ask' = Idle /\ gone' = Idle
    /\ UNCHANGED <<disk, forwards, nic, holder, asked>>

BootStep == Restored \/ Up \/ \E v \in Vms : \/ NoteLegacy(v) \/ Restore(v)
                                             \/ \E ip \in Ips : ApplyRule(v, ip)
ChangeStep == InsertAccept \/ Reassert \/ RecordForward \/ UndoForward \/ EraseForward
AskStep == ApplyBegins \/ ApplyKernel
DeleteStep == DeleteForwards \/ DeleteFirewall \/ DeleteFile
PassStep == \/ BeginPass \/ TakeOut \/ Keep \/ ReadHeld
            \/ AskOwners \/ CheckForwards \/ DropAddress \/ Raise
            \/ \E v \in Vms : LookAt(v) \/ LookGone(v)
            \/ \E ip \in Ips : AddAddress(ip)
Requests == \E v \in Vms : \/ BeginApply(v) \/ BeginDelete(v) \/ \E c \in Cfgs : Save(v, c)
                           \/ \E ip \in Ips : BeginForward(v, ip) \/ DropForward(v, ip)
World == \/ LibvirtRules \/ Restart
         \/ \E v \in Vms : \/ Start(v) \/ Stop(v) \/ Detach(v) \/ Attach(v)
                           \/ Undefine(v) \/ Redefine(v) \/ Meddle(v)
         \/ \E ip \in Ips, v \in Vms \cup {Nothing} : MoveAddress(ip, v)

\* VMs without their NIC, VMs with it, and what was leased to whom, at any moment of this pass.
Remember ==
    since' = IF look'.pc = "idle" THEN Unseen
             ELSE [off |-> since.off \cup (Vms \ nic'), here |-> since.here \cup nic',
                   leased |-> since.leased \cup {p \in Ips \X Vms : holder'[p[1]] = p[2]}]
Next == /\ EndJob \/ BootStep \/ ChangeStep \/ AskStep \/ DeleteStep \/ PassStep \/ Requests \/ World
        /\ Remember

Spec == Init /\ [][Next]_vars
FairSpec == /\ Spec
            /\ WF_vars(EndJob /\ Remember) /\ WF_vars(BootStep /\ Remember)
            /\ WF_vars(ChangeStep /\ Remember) /\ WF_vars(AskStep /\ Remember)
            /\ WF_vars(DeleteStep /\ Remember) /\ WF_vars(PassStep /\ Remember)

(***************************************************************************)
(* Properties.                                                             *)
(***************************************************************************)

TypeOK ==
    /\ file \in [Vms -> {Absent} \cup
                    [saved : Cfgs, applied : Cfgs \cup {Absent}, raw : Contents \cup {Absent},
                     hash : Cfgs \cup {Null, Absent}, to : SUBSET Ips,
                     print : Contents \cup {Absent}]]
    /\ boot \in [Vms -> {Absent} \cup [rules : Contents, ips : SUBSET Ips]]
    /\ chains \in [Vms -> Contents \cup {Absent}]
    /\ forwards \subseteq Vms \X Ips /\ nic \subseteq Vms
    /\ st \in [Vms -> {"off", "on", "gone"}] /\ holder \in [Ips -> Vms \cup {Nothing}]
    /\ phase \in {"restore", "rules", "up"}
    /\ asked \in [Vms -> SUBSET Cfgs]
    /\ since \in Memory

\* Whatever fails, restarts or is saved beside it, what filters a VM is something Apply was asked
\* for, unless another program has changed it: a draft never takes force by itself.
NoDraft == \A v \in Vms : chains[v] \in asked[v] \cup {Absent, Default, Junk}

\* A pass takes a jump off an address only when it has been able to see, since it began, that the
\* VM has no NIC for it, or that it was leased to another VM and that this host has that VM's MAC;
\* otherwise only in putting back chains that were changed or gone, and then never off an address
\* that the file has the firewall on.
Seen(v, ip) == \/ v \in since.off
               \/ \E w \in since.here \ {v} : <<ip, w>> \in since.leased
JumpsStay ==
    [][\A v \in Vms, ip \in Ips :
          look' # look /\ phase' = "up" /\ Has(fwd, In(v, ip)) /\ ~Has(fwd', In(v, ip))
          => \/ Seen(v, ip)
             \/ job'.what = "rebuilt" /\ ~Intact(v) /\ ip \notin file[v].to]_vars

\* A firewall in force comes to be on the address its running VM has, and in front of every forward
\* to it, in whatever order the two were made, moved or lost.  ([]<>~P is P ~> ~P.)
Unfiltered(v, ip) ==
    /\ Kept(v)
    /\ \/ st[v] = "on" /\ v \in nic /\ holder[ip] = v /\ ~Has(fwd, In(v, ip))
       \/ /\ st[v] # "gone" /\ <<v, ip>> \in forwards /\ Has(fwd, Accept(v, ip))
          /\ ~Above(fwd, In(v, ip), Accept(v, ip))
Follows == \A v \in Vms, ip \in Ips : []<>~Unfiltered(v, ip)

\* A firewall leaves an address that has passed to another VM, and every address of a VM that
\* libvirt no longer has, for as long as no forward of its own names it.
Foreign(v, ip) == /\ Kept(v) /\ Has(fwd, In(v, ip)) /\ <<v, ip>> \notin forwards
                  /\ \/ st[v] # "gone" /\ Evidence(v, ip)
                     \/ st[v] = "gone" /\ Named(v) = {}
ForeignLeaves == \A v \in Vms, ip \in Ips : []<>~Foreign(v, ip)

=============================================================================
