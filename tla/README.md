# Verification of virtPilot

TLA+ models of virtPilot, model-checked with TLC and, for the results that matter
most, proved with TLAPS. The modules are translations of the TypeScript under
`packages/backend/src` (paths below are relative to it); `PROJECT.json` maps every
definition to the lines it stands for, lists what can go wrong in the code
("hazards") and which property would notice, and records what each run shows.

## The system

virtPilot is one Node process in front of libvirt. It keeps no database of truth:
VMs live in libvirt, everything else in files. All of its concurrency is the event
loop's: requests, timers and background passes interleave at every `await`, and
whatever was read before an `await` may be stale after it. The process can die at
any await (restart, self-upgrade, out of memory) and starts again from the files.

| Component | State | Operations | What is hard | What makes it correct |
|---|---|---|---|---|
| Backup engine (`services/backupService.ts`, `diskCopyService.ts`, `libvirtBackupService.ts`) | a directory per backup (images, `manifest.json`, `.complete`), libvirt checkpoints; in memory `backupsInProgress` | create, delete (cascade), retention, sweep of abandoned directories, checkpoint reconciliation, restore, verify | a run takes hours while deletes and housekeeping act on the same chain; every scan is a snapshot; `rm -rf` is not atomic; reads fail for a while | a complete backup can always be read down to a full one; only a delete or retention removes one; a run's directory and checkpoint are left alone; every run deregisters |
| Schedules (`backupService.ts`, `backupSchedulerService.ts`, `routes/backups.ts`) | one JSON file for all VMs, a chain of promises that serialises saves | edit, delete, minute tick, run, record the outcome | read-modify-write of a shared file around awaits, failing writes, restarts | a save touches its own entry only; the record of the last run survives an edit; what is due is fired or disabled |
| Copy tiers (`diskCopyService.ts`) | the running domain's disks, transient overlays | push-mode backup, snapshot copy, live copy, offline copy | freeze/thaw and overlay commit on every path, job timeouts | the VM never stays frozen or on an overlay; a partial image never counts |
| VM lifecycle and hold (`vmService.ts`, `routes/vms.ts`) | domain definitions, disk files, `vmHolds` in memory | start, stop, delete, move disks, restore over a VM | long operations on a VM that must not start or be deleted meanwhile, rollback of half a move | definition and files agree; the hold is released on every path |
| Disk moves (`routes/vms.ts`, `storageService.ts`) | the file, its row in `vm_disk_locations`, the definition that names it | plan, copy or rename, record, redefine, roll back | three records that change one after another, each step and its undoing may fail; hours in which the VM may be started from outside | what was written last is never lost; file, row and definition end up agreeing |
| Storage directories (`storageDirService.ts`) | SQLite rows, one default directory per kind | create, update, delete, seed | a row and a directory change one after another | exactly one default; none is removed while used |
| Networks (`networkService.ts`, `bridgeService.ts`, `vxlanService.ts`, `portForwardService.ts`) | `networks.json`, allocations, kernel bridges, VXLAN devices, iptables | create, edit, delete, a watch pass every 30 s | records and host drift apart; an address appears on a NIC; rules are flushed by others | the host is never cut off; a tunnel is up only behind its rules; an address is allocated once |
| VM firewall (`firewallService.ts`, `firewallSync.ts`, `lib/bridgeFilter.ts`) | rule files, nftables table, iptables chains, libvirt hook files | apply, sync pass every 15 s, restore at start | addresses change hands; evidence is of different worth; forwards open holes under the rules | a VM's rules are on its addresses and on nobody else's |
| Device passthrough (`deviceService.ts`, `hostScan.ts`, `lib/hostDevices.ts`) | sysfs, domain definitions | list, attach, detach, keep for VMs | classification over IOMMU groups | nothing the host needs is offered |
| Login (`routes/auth.ts`, `middleware/auth.ts`, `lib/tokenStore.ts`, `rateLimit.ts`, `totpReplay.ts`) | in-memory tokens, counters, last TOTP step | login, TOTP set-up, one-time tokens | steps of different logins interleave, codes and tokens are used once | a code or a token works once; limits hold |
| Consoles, metrics, cloud-init, templates, ISOs, settings, logs, frontend, installer | see `PROJECT.json` | | mostly I/O | not modelled, or later |

How they interact: the scheduler calls `createBackup` and records its outcome in
the schedule file; retention reads the schedule file and the settings; restoring a
backup clears the VM's checkpoints; the hold of the VM lifecycle refuses backups;
the firewall and the forwards read networks and leases.

## Modules

| Module | Models | How it corresponds |
|---|---|---|
| `BackupEngine` | backup engine, one VM | an action is the code between two awaits; `pc[w]` names the await a worker hangs at; workers are `createBackup` runs (`Slots`), `applyRetentionAll` passes (`Keepers`), `deleteBackup` requests (`Deleters`) |
| `BackupCatalog` | what the engine promises | a set of restorable backups, each standalone or a delta over a kept one |
| `BackupEngine_proof` | theorems about the engine: its types, its chains and the catalog, and its workers overlapping | |
| `ScheduleStore` | schedules and scheduler | `queue` is the promise chain `scheduleWriteQueue`; `pc[w]` what a save or a run waits for |
| `ScheduleStore_proof` | theorems about the store | |
| `DiskMove` | a VM's disk: moves, starts, restores, deletes, and what happens to it from outside | `pc[w]` names the call a request waits for; `Movers` are move requests, `Callers` the others |
| `DiskMove_proof` | theorems about the disk | |
| `NetworkHolds` | networks, their address pools and the VMs put on them | `qpc` is where the change at the head of the queue (`serialized`) is; `pc[r]` what a request waits for; `arriving` and `leaving` are the code's |
| `NetworkHolds_proof` | theorems about holds and addresses | |
| `VmFirewall` | VMs' rules by address, port forwards, the firewall pass and the hook at a start | `fwd` is FORWARD from top to bottom; `job` is the change of jumps that has `oneAtATime`'s queue; `phase` is how far the start is, and `look`, `change`, `ask` and `gone` are the pass, the change of forwards, the Apply and the delete under way |
| `VmFirewall_proof` | theorems about the firewall | |
| `VxlanTunnels` | VXLAN devices, whom they flood to, the rules that guard them, and their records | `pc` is where the change or pass at the head of the queue (`serialized`) is; the kernel's side is in sets of IDs |
| `VxlanTunnels_proof` | theorems about the tunnels | |
| `ManagedBridges` | bridges, the host's NICs on them and running VMs' taps | `pc` is where the pass or change at the head of the queue (`serialized`) is; `claims`, `since`, `known` and `reconnecting` are the code's records and maps |
| `ManagedBridges_proof` | theorems about the bridges and the host's NICs | |
| `DiskCopy` | copying a VM's disks for a backup or a clone | `pc[c]` is the call copy `c` waits for, `how[c]` the tier it is at; the guest, libvirt's job and the images are next to it |
| `DiskCopy_proof` | theorems about the copies | |

### BackupEngine

`dir[b]` is what the directory of backup `b` holds: nothing, images without a
manifest, a manifest without the marker, a whole backup, or a marker whose manifest
is gone. `parent`, `stamp` and `recorded` are `parentBackupId`, the order of
`createdAt` and whether `checkpointName` is present in the manifest; a checkpoint
is named after its backup, so `checkpoints` is a set of backups. Backups are
numbered in the order their ids are minted. A call's locals are `listed` (what
`readdir` returned), `seen` (the manifests of the scan), `todo` (what its loop has
left to remove) and `cur` (the one being removed).

Abstractions, and why they lose nothing that a property tells apart:

- One VM: directories, checkpoints and the in-progress entry are per VM.
- A scan is two steps, `readdir` and the rest; the many reads of the rest are one
  step. With `ReadErrors` a scan may miss any manifests (they count as unreadable)
  or fail as a whole (it then returns an empty scan, as the code does).
- Which backups have expired is free: retention may remove any leaf and may stop
  anywhere. The same freedom stands for a `rm` that throws before it has removed
  anything. What the clock would allow is among these behaviours.
- `rm -rf` of a whole backup is two steps with a torn state in between, in which
  either the marker or the manifest is gone first; it may fail or the process die there.
- A copy is: the tier that is tried, whether it works, and whether libvirt has the
  checkpoint. Disks, compression, freezing and notes are left out, and so is the VM
  hold that refuses a backup (a run that does not begin).
- `deleteBackup` is called for a directory a listing has shown: not for one that is
  being written, whose id no listing returns.
- Restarting forgets every call and `backupsInProgress`; directories and
  checkpoints stay. Restoring is only its effect on checkpoints (`ClearCheckpoints`).

Two constants say which behaviours an instance has. `Overlap`: whether calls may
begin while a run is under way, or deletes and housekeeping only between runs.
`ReadErrors`: whether reading the backup directory can fail for a while. With both
the code has the flaws below, so the properties that hold are checked each under
the widest condition it holds under; the violation runs are the others.

### ScheduleStore

The file is a function from the VMs that have a schedule to schedules. A schedule
is whether it is enabled, its next run, its settings (as the number of the edit they
come from), whether its frequency is one this build knows (`Legacy` VMs may have one
that is not) and how its last run ended. A save waits in `queue`; at its head it
reads the file and computes what to write (`LockRead`), and writes and renames
(`LockWrite`); either may fail. `computeNextRunAt` is only "strictly in the future"
or, for an unknown frequency, an error. A backup is one step that ends either way.
The model holds a tick back while a VM that is due has no free run left (a VM may
have `Cardinality(Slots)` at once); this is a bound, and with one slot per VM means
that a run still going is not joined by a second one of the same VM.

### DiskMove

One VM with one disk, which is in three records: the file (`disk[d]`, its content a
number that grows with every write, 0 for no file), the row of `vm_disk_locations`
(`row`) and the saved definition (`xml`). `half` are the directories whose file is a
copy that is not finished. `guest` is the file the running guest has open, which may
have lost its name (`Gone`). A move asks, looks, plans and dry-runs; its file moves
by a rename or, between filesystems (`far`), by copy, comparison, last look and
unlink; then come the row and the definition, or the way back (`way` is "undo" when
the row could not be written, "rollback" when the definition could not). The steps
that run in one go in the code are one action; each may fail (`Fault`), and the
process may restart at any await.

Three history variables. `latest` is the newest content the disk was given, by a
guest or a restore. `torn` is set when a move ended half done: a restart between the
rename and the definition, or a way back that failed. `crossed` is set when a step
came between a check and what the check was for, which the code does not prevent: a
request that had asked about the hold acts after a move has begun (or two such
requests meet), or the VM is started from outside after a move's last look. The
properties promise nothing after `crossed`; what it covers is in the hazards. It is
not set by a start from outside before the last look, by guest writes, by failures or
by restarts, and with it left out the mutants are still found.

Left out: snapshots, clones and backups as readers of the disk; a VM's other disks;
`deleteVmDir` is one step; `undefine --remove-all-storage` removes only what a libvirt
pool manages, and virtPilot defines no pools. The comparison of size and mtime
notices every write (`Copied`): two writes within one tick of the file's clock that
leave the size alone would not be noticed by the code.

### NetworkHolds

Three kinds of request. `Makers` make a VM from nothing or derive one from the
definition of a VM or a backup; `Attachers` add a NIC to one; `Removers` take a NIC or a
VM away. A request brings one NIC, so it also stands for that NIC's MAC and, for a
maker, for the VM's UUID. A row of `ip-allocations.json` is the NIC it is for (`rows`);
what it says of it is in `want` (the network) and `ip`. A network is its ID and its
bridge: a number for `vpN`, `Os` for a bridge the operating system keeps. Creating and
deleting run one at a time, each in the steps its awaits cut it into; a delete's mark
is up from its reading of the file to its end, and a request waits only for a delete
of its own network, by ID or by bridge (`Hold`). Rows change one at a time, read to
write, so each such change is one step.

A history variable, `live`, says that a request found its network there when it looked.
Another, `blind`, is set by a create that read the file while it could not be read:
`readNetworks` then says there are no networks, and the create writes a file without
the others. `OnNetwork` promises nothing after that, as the code prevents nothing; it is
in the hazards. `past` is every network there has been, since backups keep definitions
that name networks which have gone.

Abstractions: which rows a delete frees (those older than five minutes) is free, so a
delete may also stay refused; which of the VMs it asks about the check after a start is
told are missing is free among those that are; a request that fails before it leaves
anything behind is as if not made; whether NIC metadata survives an overlapping attach
or detach is free (`Forget`), because `attach` and `forgetNic` read and write it outside
`vmMetaService`'s queue. `Reserved` speaks of requests answered with success or cut by a
restart: `POST /vms` frees the address of a VM it has defined when saving the metadata
fails. Left out: the pool watch and its book of seen addresses, ARP checks and
leases, the rate limit set after an attach, a guest that has not let go of a NIC that
was detached, and VXLANs as a kind of their own (their bridge is named after their ID).

### VmFirewall

Only the routed half: a VM's rules sit in iptables chains, and FORWARD holds a jump for
every address the VM is known by. `file[v]` is the VM's file, with the saved configuration,
the copy of what was applied and the addresses it went to; the hook's boot files are `boot`.
Which addresses a VM has is found out by a pass that reads leases, ARP and guests, each of
which may be missing or old (`Readings`); evidence that an address is another VM's
(`Proved`) is what lets a jump be taken off. A pass reads the leases once, at its start, and
whose the MACs are once, when a lease first has to be told (`AskOwners`). A forward is an ACCEPT that is inserted at the head of FORWARD, above the
jumps, and `Reassert` puts the jumps back on top. Changes of chains run one at a time
(`job`); forwards have a queue of their own; passes, Apply and delete interleave.

History: `asked` are the rule sets that Apply was asked for, or that were in force at the
start; `since` is what there has been to see since the pass under way began: VMs without
their NIC, VMs with it, and what was leased to whom. `JumpsStay` asks for no more than this,
because the code has no more: leases and the roster of MACs are of two moments of a pass,
so a jump can leave an address on evidence that held at no single moment. (An earlier form
asked that it hold at one; TLC refuted it once four events were allowed, with a NIC that
goes and a lease that moves in between.) Left out: the bridged half (nft at the taps, which follows the same file),
`everyNic`, several NICs and networks, DNAT and source NAT, and reservations. Three
things the model showed and the properties allow for: a pass raises jumps from the
FORWARD it read before it took some off; a rebuild that waits in the queue while
`removeVmFirewall` runs puts chains back for a VM whose file is about to go (the next
pass clears them); a restart between Apply's rules and its file brings the former rules
back.

### VxlanTunnels

A network is its VXLAN ID, after which device and bridge are named. `syncVxlanNetworks`
is cut at its calls: list the devices, close those that should not listen, change the
rules, then for each network bridge, plan and steps. Every call may fail (`Event`), and
between any two the host may change: rules flushed or an old set put back, a device
raised, lowered, removed, or another in its place, a bridge gone. Creates, edits and
deletes run in the same queue with their undo; the pass comes every 30 seconds, which the
model lets it do whenever the queue is idle.

History: `told[i]` is what the last change of network `i` was answered to have left
allowed. `faith` says whether the rules can be relied on; it is lost when something
outside takes them or raises a device, and when a pass cannot list the devices, and comes
back with a whole pass. The second is the code's own doing: `readVxlanLinks` reads a
failing `ip` as no devices, so nothing is closed, and a pass that takes the last host
away then removes the rules of a device that is up, against what `vxlanService.ts:145`
says of it. Other things the model showed: an edit whose `bridge fdb show` fails answers
success while a removed host is still flooded to (until the next pass; it is not let in);
an edit whose record cannot be written leaves the kernel with the new hosts until the
next pass; a restart between a create's libvirt network and its record leaves a network
nothing knows of, whose device the passes close; a delete whose record cannot be written
leaves a record without a libvirt network, for which `Recovers` promises nothing.

Left out: addressing and DHCP, the MTU's step of a plan, the status page, and putting
VMs' taps back on a bridge that was rebuilt.

### ManagedBridges

A network is its bridge. The pass goes over the records one by one: it reads what a NIC
is a port of (`ReadPort`), then its address, route and what systemd-networkd does with
it (`ReadUse`), decides (`plan`), takes the steps one by one, repairs the definition and
puts taps back. Each of these may fail, and between any two the host may change:
addresses and routes come and go, networkd begins and ends, a NIC is put elsewhere or
goes, a bridge is removed, VMs start and stop. One VM stands for all on a network.
Creating takes a NIC the operator has chosen, without claim or hold, so `HostKept` is
about passes.

History: `fresh` are the NICs something has happened to since they were looked at,
which the code cannot know; `onway` those whose address will come before a hold is over;
`seen` those the host was recorded to use and still configures, until they are on a bridge; `orphaned` the networks
that were rebuilt under a running VM by a backend that then restarted: the list of
whom to reconnect and the bridge's known index are in memory, so nothing puts these
taps back, and `Recovers` asks it only of VMs started since.

The model showed besides: the hold of a NIC that is being configured counts from when a
pass first saw that, also if networkd starts over; a claim also ends when the NIC is a
port without an address, although `managedBridge.ts:64-65` says only networkd's letting go
ends it; a network's libvirt name that could not be written is not written again before a
restart (`confirmed`); a create that reads the file while it cannot be read writes it
without the others. Left out: the status page, MTU, VLAN details, and kinds of network
other than these bridges.

### DiskCopy

What a disk holds is the number of the last write to it; an image is whole if it holds
the number its disk had, and `Torn` while it is written or when its source moved under
the reader. A copy tries libvirt's push-mode job (`push`), then overlays under
which the bases lie still (`snap`), then the live disks (`direct`); a VM that is off is
read where it is (`offline`). An increment has the first tier only, and its failure
makes the backup start again in full (`Retry`). Guest writes, stops and starts come at
any time, the job ends as it likes, checkpoints (which make libvirt refuse block
operations) are dropped by others, the backend restarts.

`point` and `calm` are history: the disks at the moment the copy is of, and whether the
guest was off or frozen then. So is `excused`, which `Undone` allows for: it is set when
a call that freezes or pivots does its work after it was given up on, when a thaw, a
commit or the look before it fails, when a commit is impossible as the VM was
started or stopped meanwhile, and when the backend restarts over a frozen guest or an
overlay. In each of these nothing comes back to it: no start looks for the names
(`-vpbk-`) that mark such overlays. `Lossy` is
whether libvirt may have no statistics of a copier's own job: they were dropped, the VM
was restarted between two looks, or another's job is taken for it.

Assumed: a VM is not started and stopped again between the converts of two of its disks,
nor between a freeze and the job's begin; qemu-img without `-U` cannot open an image a
guest has open (qemu's locks). With two copies at once (a clone and a backup guard only
against their own kind) the overlay of one is under the other's, its commit is refused,
and it stays in use: seen in a run aside, and a hazard. Left out: compression but for its
failure, notes, and the list of checkpoints (`BackupEngine` has what they mean).

## Runs

All instances are small sets of workers over two or three backups, two VMs, one disk, or two networks.
A chain needs a parent, a delta and a second delta to have a middle link: three
backups (`engine_quiet`). The races between workers need one of each kind and a
parent with a child: two backups (`engine_overlap`). A move needs a second directory,
a second move to be refused or to follow, one write to tell the copies apart, and two
faults: one to turn a move back and one to stop it on its way (`disk_move`). A bridge's name
can be used again with two networks; a VM, a NIC added to it and one request that
removes either can meet in every order, and can meet a create or a delete, with one
address to fight over and one fault (`network_holds`). An address changes hands with two
VMs, two rule sets tell a draft from what is in force, and one forward, one Apply and
one delete meet the pass (`vm_firewall`). Two VXLANs share the chain and the queue, two
hosts tell an edit from a delete, and two changes and two events let an edit's undo, a
restart or an outside change fall into another (`vxlan_tunnels`; three changes were
checked once for its invariants, with the same result). A bridge from before libvirt knew
them and one from after, one NIC both may want, one create or delete, and two things
that go wrong (`managed_bridges`; one network with four and two with three were
checked once). Two disks tell images of one moment from images of two, two writes put
one before and one after, and one event spoils one call (`disk_copy`). Numbers of steps are not
bounded; ids, minutes, edits and faults are, and when they run out the model may
stop, which is why `CHECK_DEADLOCK` is off.

| Run | Instance | What it shows |
|---|---|---|
| `engine_quiet` | 3 backups, a run, a delete request, no overlap with runs | `TypeOK`, `ChainsIntact`, and that the engine implements `BackupCatalog` |
| `engine_overlap` | 2 backups; run, pass and delete interleave freely | `OnlyRemovedOnPurpose`, `OwnDirKept`, `SeenDependentsGoFirst`, `PromisedCheckpointsKept` |
| `engine_faults` | 2 backups, a run, a pass, failing reads, fairness | `ChainsIntact` without deletes, and `RunsEnd`, `CallsEnd` |
| `engine_delete_race` | as `engine_overlap`, without the pass | **violated** `ChainsIntact`: finding 1 |
| `schedule_store` | 2 VMs, one from an older build, an operator, one fault, fairness | `TypeOK`, `OwnEntryOnly`, `EditKeepsOutcome`, `DueIsHandled` |
| `disk_move` | 2 directories, 2 moves, 1 other request, 2 writes, 2 faults, fairness | `TypeOK`, `HolderMoves`, `LatestKept`, `Settled`, `BootsLatest`, `HoldEnds` |
| `network_holds` | 2 networks, 1 address, one maker, one attacher, one remover, 1 fault, fairness | `TypeOK`, `OnNetwork`, `Reserved`, `OneHolder`, `HoldsEnd` |
| `vm_firewall` | 2 VMs, 1 address, rules saved, applied and deleted, a forward, events, fairness | `TypeOK`, `NoDraft`, `JumpsStay`, `Follows`, `ForeignLeaves` |
| `vxlan_tunnels` | 2 VXLANs, 2 hosts, 2 changes, 2 events, fairness | `TypeOK`, `Guarded`, `AnswerStands`, `Recovers` |
| `managed_bridges` | 2 bridges, one of them old, 1 NIC, 1 change, 2 events, fairness | `TypeOK`, `HostKept`, `Recovers` |
| `disk_copy` | 1 copy at a time, 2 disks, 2 writes, 1 event, fairness | `TypeOK`, `Honest`, `Undone` |
| `copy_lost_stats` | the same, without events, statistics may be lost | **violated** `NeverHalfWritten`: finding 2 |

Fairness. `FairSpec` of the engine lets a call that was made take its steps (weak
fairness per worker): Node runs every continuation, and each virsh, qemu-img and fs
call has a timeout or is local. It does not say that requests come. `FairSpec` of
the store says that the minute timer goes off, saves at the head of the queue get to
read and write, and backups end. `FairSpec` of the disk lets a move take its steps:
no call it waits for waits for another request, and a copy ends. `FairSpec` of the
networks lets a change take its steps, and a request that waited for a delete go on
(strong fairness on `Hold`): the promise it waits for has been resolved, so its
continuation runs before the next delete, which first reads a file, can be marked.
`FairSpec` of the firewall and of the tunnels lets timers go off and what is at the head
of a queue go on (weak fairness per step of start, queue, change, request and pass):
promises are resumed and every call they make has a timeout. `FairSpec` of the bridges
lets the timer go off, the head of the queue go on, and the time of a hold pass; that
of the copies lets each copy take its steps: every call has a timeout, and so has the
wait for a job, whose end is not taken for granted.

Findings (in full in `PROJECT.json`):

1. A delete request during an incremental run removes the parent the run is about to
   build on: dependents are looked for among complete backups only.
2. A push-mode job whose statistics cannot be read counts as done, and the check of
   its images that is to make up for it looks for files the copy has made itself: a
   failed job becomes a complete backup.

Seen while modelling, and kept as hazards with a note rather than as runs:

- A backup directory that cannot be listed for a moment reads as empty, and
  reconciliation deletes the checkpoints of complete backups.
- Two backup requests for a VM both pass the in-progress guard, as the entry is set after
  an `await`.
- The scheduler writes back the schedule its tick read, over an operator's edit saved in
  between.
- A restore asks once whether the VM is off and takes no hold, so the VM can be started
  while its disk is replaced, and then runs on a file without a name.
- A VM derived from a definition whose network has gone is defined on that bridge's
  name, with a warning that it will not start; the next network made may take the
  name, and the VM is on a network it was never put on.
- What the sections on `VmFirewall`, `VxlanTunnels`, `ManagedBridges` and `DiskCopy` list.

## Proofs

Every theorem is for all values of the constants that satisfy the modules' named
assumptions: any number of VMs, backups, networks, NICs, requests, failures. Where one
needs a further condition, it is in its statement.

| Module | Theorem | Shows | Condition |
|---|---|---|---|
| `BackupEngine_proof` | `TypeCorrect` | `TypeOK`, and that a run past `Mint` has an id | |
| | `ChainsStayIntact` | `ChainsIntact` | `Quiet` |
| | `ImplementsCatalog` | the engine implements `BackupCatalog` | `Quiet` |
| | `BackupsGoOnPurpose` | `OnlyRemovedOnPurpose` | `OneRun` |
| | `DependentsGoFirst` | `SeenDependentsGoFirst` | `OneRun` |
| | `OwnDirIsKept` | `OwnDirKept` | `OneRun` |
| | `CheckpointsAreKept` | `PromisedCheckpointsKept` | `OneRun`, `~ReadErrors` |
| `ScheduleStore_proof` | `TypeCorrect` | `TypeOK` | |
| | `SavesDoNotInterfere` | `OwnEntryOnly` | |
| | `EditsKeepOutcomes` | `EditKeepsOutcome` | |
| `DiskMove_proof` | `TypeCorrect` | `TypeOK` | |
| | `OnlyTheHolderMoves` | `HolderMoves` | |
| | `LatestIsKept`, `RecordsSettle`, `StartsBootLatest` | `LatestKept`, `Settled`, `BootsLatest` | |
| `NetworkHolds_proof` | `TypeCorrect` | `TypeOK` | |
| | `StaysOnItsNetwork` | `OnNetwork` | |
| | `AddressesAreUnique` | `OneHolder` | |
| | `AddressesStay` | `Reserved` | |
| `VmFirewall_proof` | `TypeCorrect` | `TypeOK` | |
| | `NeverADraft` | `NoDraft` | |
| | `JumpsAreKept` | `JumpsStay` | |
| `VxlanTunnels_proof` | `TypeCorrect` | `TypeOK` | |
| | `NeverOpen` | `Guarded` | |
| | `AnswersStand` | `AnswerStands` | |
| `ManagedBridges_proof` | `TypeCorrect` | `TypeOK` | |
| | `HostStays` | `HostKept` | |
| `DiskCopy_proof` | `TypeCorrect` | `TypeOK`, with any number of copies at once | |
| | `AnswersAreTrue`, `WholeIfKnown` | `Honest`, `NeverHalfWritten` | one copy at a time, statistics that are kept |

The conditions. `Quiet` is: no overlap with runs, and no deletes if reads can fail;
finding 1 and the hazard of unreadable dependents show that neither half can be dropped.
`OneRun` is one slot, so one run of the VM at a time, which is what
`backupsInProgress` is there for (that two requests can both pass its test is a hazard);
requests, passes and their failures overlap with it as they like. Without it the proofs
have no use of the flag: it says that *a* run is under way, not whose. `~ReadErrors` is
the hazard of a directory that cannot be listed for a moment. Finding 2 and the hazard of
a clone beside a backup show the same of the two conditions on copies.

### Backup engine

The inductive invariant of the chains, `QuietInv`, adds to the type invariant and
`ChainsIntact`: a run has the engine to itself (`RunAlone`); a parent is older than
what builds on it (`ParentsOlder`, `Dated`), which is why removing newest first takes
leaves; ids are used once (`IdsMinted`); what a run has chosen as parent is complete
until its marker (`RunOK`); and a remover's list has, with a backup, every complete
backup that builds on it (`LoopOK`), so that a leaf of the list is a leaf of the
disk. The argument is that a step of a call has one of four effects on the disk: none
that matters, a manifest, a marker, or the removal of a leaf (`DiskEffects`); chains
survive each, and each removes or adds what the catalog allows.

Where calls overlap, `OverlapInv` says less of the disk and more of each call: a run that
writes has the flag up (`Flagged`, `Writing`), and its id is newer than all that is listed
(`Minted`); what it builds on is finished (`Based`); what a remover has seen is finished,
and its list has, with a backup, whatever it has seen to build on it that is whole
(`Lists`); and what reconciliation takes for stale is on no whole backup's record
(`Stale`). What makes this inductive although anybody may act in between is that being
finished lasts: a manifest stands as long as its directory, and a removed backup never
comes back (`Lasting`). So what a call saw can go, but not change under it. The four action properties then
come from what a removing step does at most (`RemoverFrame`, `Loses`).

### Schedules

`StoreInv` says that only the head of the queue is past its turn
(`HeadWrites`), and that what it is about to write differs from the file in its own
entry only (`Fresh`), because nobody else can have written since it read. For the
outcomes, `EditInv` carries that an edit at its write has in hand, for its own VM, the
outcome that the file has (`Carried`): a run that ends meanwhile waits in the queue
behind it, or was before it and is read.

### Disk moves

`HolderMoves` is inductive with the types: a step of a move either lets the hold go and
ends it, or does neither. The other three are from `DiskInv`: until a step falls between a
check and what it was for (`crossed`), one story is told (`Story`). Nobody but the holder
acts on the disk (`Alone`), what was written last is whole somewhere (`Kept`), with
nobody holding the records agree or a move was left half done (`Quiet`), and the holder
is where its step and way say (`Working`): what is at its source, at its destination, in
the row and in the definition at each of its awaits. This is the table the three phases of
the route imply and nowhere state: e.g. that a copy equals its source from its
comparison to the unlink, and that a way back finds at the destination what it came with.

### Networks and addresses

`IInv` says that exactly those past their hold are in `arriving`
(`Requests`), that a delete past its check has nobody in `arriving` that wants its
network (`NoneComing`) and past its list of VMs nobody on it (`NoneOn`), and that a
change writes back what is there (`ReadIsCurrent`). A request that holds before the mark
is seen by the check; one after it waits: so no NIC gets onto the network in between.
`RowsInv` adds to `OneHolder` that a NIC has no row until its own `Alloc`.

`RInv` of the reserved addresses has, for each who frees rows, why the row is not one that
must stay: a request frees its own only on its way to failing, a removal only of the NIC or
VM that it has taken off (`Targets`), a delete of a network only those of its own network,
which nobody on a VM wants (from `IInv`), and the check after a start only those of VMs that
it found gone and that cannot come back (`Swept`).
The property itself is not inductive: what stays for a NIC that is on has to be
there when it is about to be (`RowKept`). `TypeOK` is harder than it looks: a create's
ID is the least that is not used, so that there is one has to be known
(`NatLessThanWellFounded`), and that it is below the bound follows from counting
(`SomeIds`).

### Firewall

A rule set gets into chains by Apply, by a rebuild from what is in force, and by the hook's
files, so `IInv` says of every place one can wait in (file, boot file, job, Apply) that it
is one that was asked for. For the jumps, `JInv` says what a pass knows: each thing it has
read is within what there was to see since it began (`Knows`), and at the removal the
evidence is `Seen`. A pass that is resumed at any await, after any change, has
this and no more. The rest is about lists: that FORWARD is one (`Listed`), and what
of it remains when rules are taken out and put on top (`WithoutIsAList`,
`WithoutKeeps`, `PairsHave`, `SwapKeeps`, `ListsStay`). These need counting of what is left of
each place, instead of recursion over the list, which is why `Without` is written so.

### Tunnels

`Phases` says what a pass may rely on where it is: once it has listed the
devices, those that are up and should not be are closed or `stuck`; from there the rules
to come cover all that is up; and while `ok` holds, every
network that may come up has its rules in force. For the answers, `AInv` adds what binds
records to answers (`Promised`: a record is what was last answered, or nothing was answered; `Changing`:
the change under way is the one exception), that the rules in force allow only what was
answered or what is being changed (`Applied`), and that a device whose change could not
get its rules is brought down before the change is answered (`Lowered`).

### Bridges

A NIC is taken by the last of several steps, each planned from looks that are old by then.
`Inv` says what still stands: that the NIC and the record in hand are of the pass (`Phases`,
`OnRecords`), that an address on its way means networkd at work and a hold that counts
(`OnWay`), that a NIC which the host was seen to use is claimed by every record of it, and the pass's
own notes with it (`Recorded`), and that, at the step that takes it, nothing speaks
against it but what has come up since it was looked at (`Free`). The proof showed that the
history variable `seen` said too much: a NIC that a failing create had left on its bridge
counted as the host's, though being put there is what ends a claim; it is now
until the NIC is on a bridge.

### Copies

`Shape` adds to the types that the overlays of a disk lie on one
another in one line (`Chain`) and which copies have one (`Owned`), without which a commit
could bring an image into use that nothing is under. `IInv` says where each tier gets
its truth from: a job that is waited for runs, has left the images of its moment, or is
known to have failed, and was begun in a frozen guest if the copy froze it (`JobInv`);
what lies under an overlay is what the disk held at the snapshot (`SnapInv`); a guest that
is off stays off while one of its disks is read (`OfflineInv`).

### What the model checker has for the proofs, and what it alone has

Before it was proved, each inductive invariant of the second half of these theorems was
checked by TLC as an invariant of its component's instance: `DiskInv` in 389,676 states,
`RInv` in 1,013,906, `OverlapInv` in 2,401,794, `AInv` in 961,358, the `Inv` of the bridges
in 555,478, `EditInv` in 99,420. `JumpsStay` was checked beyond its run as well: with three
events in 6,946,607 states, and with five of a narrower next-state relation in 834,816.

Only model-checked is liveness, which the prover does not reach: `RunsEnd`, `CallsEnd`,
`DueIsHandled`, `HoldEnds`, `HoldsEnd`, `Follows`, `ForeignLeaves`, `Recovers` of tunnels and bridges,
`Undone`. Every other property of a passing run is stated by a theorem, under a condition
its instance meets. A recursion over data would be out of reach as well; there is none in
the modules.

## Not modelled

Byte contents of images and files, XML generation and parsing, the HTTP layer, consoles
and metrics (streams that keep nothing), the installer, and the frontend, which holds no
state of its own beyond a page. Their lines are more than half of the repository, and no
definition stands for them. Device passthrough and cloud-init are functions over sysfs and
templates; what passthrough changes is one VM's definition. Components with state that are not
modelled yet are in the plan; `PROJECT.json` has a reason for each.

## Plan

Modelled so far, in the order of what they can cost: backups and their copies, schedules,
disk moves, networks and holds, firewall and forwards, tunnels, bridges. Next:

1. Login: TOTP set-up and one-time tokens over interleaved requests.
2. Storage directories, and templates and ISOs kept in them.
3. The pool watch (addresses guests were last seen with) and what it keeps from being
   given away.
4. The firewall's bridged half (nft at the taps) and DNAT of the forwards.
5. `computeNextRunAt` against a reference definition over a bounded calendar.

There are as many runs and properties as the project can keep quick: a new module's take
the place of narrower ones, whose finding then becomes a hazard with a note.

Theorems worth proving next: what is left of the four properties of overlapping calls
with two runs at once; abstract specifications for the disk (a register that a move does not
change) and for addresses (a map from NICs to addresses), shown to be implemented as the
catalog is.
