---------------------------- MODULE BackupEngine ----------------------------
(***************************************************************************)
(* The backup engine of virtPilot for one VM (services/backupService.ts):  *)
(* createBackup runs, deleteBackup requests and the 12-hourly retention    *)
(* and sweep pass, all of them asynchronous functions of one Node process  *)
(* that interleave at every await.  One action is the code between two     *)
(* awaits; pc[w] names the await a worker is suspended at.                 *)
(*                                                                         *)
(* A backup is a directory with images, manifest.json and a .complete      *)
(* marker; an incremental names its parent.  libvirt keeps one checkpoint  *)
(* (a dirty bitmap in the VM's disk) per backup a delta may be based on.   *)
(***************************************************************************)
EXTENDS Integers, FiniteSets

CONSTANTS
    MaxBackups,     \* bound: createBackup runs over the life of the model
    FullEvery,      \* the schedule's limit on incrementals between two fulls
    Slots,          \* createBackup calls that can be under way at once
    Keepers,        \* applyRetentionAll passes that can be under way at once
    Deleters,       \* deleteBackup requests that can be under way at once
    Overlap,        \* whether calls may be made while others are under way
    ReadErrors      \* whether reading the backup directory can fail for a while

ASSUME BackupAssumption ==
    /\ MaxBackups \in Nat \ {0}
    /\ FullEvery \in Nat \ {0}
    /\ Overlap \in BOOLEAN
    /\ ReadErrors \in BOOLEAN
    /\ Slots \cap Keepers = {}
    /\ Slots \cap Deleters = {}
    /\ Keepers \cap Deleters = {}

Backups == 1 .. MaxBackups
None == 0                           \* no backup
OptBackup == Backups \cup {None}
Workers == Slots \cup Keepers \cup Deleters

\* What a backup directory holds: nothing, images only, a manifest but no
\* marker, a whole backup, or a marker whose manifest is gone.
DirState == {"absent", "open", "manifest", "complete", "unreadable"}

VARIABLES
    \* On disk and in libvirt: survives a restart of the backend.
    dir,            \* dir[b]: what b's directory holds
    parent,         \* parent[b]: manifest.parentBackupId, None for a full
    stamp,          \* stamp[b]: the order of manifest.createdAt
    recorded,       \* recorded[b]: manifest.checkpointName is present
    checkpoints,    \* the vpbk- checkpoints libvirt holds
    minted,         \* ids handed out so far
    clock,          \* manifests written so far
    \* In memory: lost when the backend restarts.
    inProgress,     \* backupsInProgress has an entry for the VM
    inFlightId,     \* that entry's backupId, None until it is minted
    pc,             \* pc[w]: the await w is suspended at
    bid,            \* bid[s]: the backup the run writes
    from,           \* from[s]: the backup it is a delta over, None for a full
    made,           \* made[s]: copy.result.checkpointCreated
    listed,         \* listed[w]: the directories the scan's readdir returned
    seen,           \* seen[w]: the manifests of the last scan
    todo,           \* todo[w]: what is left to remove, in the loop w is in
    cur             \* cur[w]: the backup the loop is removing

disk == <<dir, parent, stamp, recorded, minted, clock>>
entry == <<inProgress, inFlightId>>
run == <<bid, from, made>>
work == <<listed, seen, todo, cur>>
vars == <<disk, checkpoints, entry, pc, run, work>>

\* The awaits of a run up to its marker, and the others.
WritePC == {"inspect", "read", "checkpoint", "parent", "precreate", "beginDelta",
            "delta", "degrade", "beginFull", "full", "plain", "manifest", "mark"}
PC == WritePC \cup
      {"idle", "findVm", "settings", "mkdir", "log", "cleanup", "names", "recRead",
       "reconcile", "finally", "retainRead", "retain", "rm", "drop",
       "sweepHas", "sweepList", "sweepRead", "sweep", "delRead", "delete", "rmOnly"}

Init ==
    /\ dir = [b \in Backups |-> "absent"]
    /\ parent = [b \in Backups |-> None]
    /\ stamp = [b \in Backups |-> 0]
    /\ recorded = [b \in Backups |-> FALSE]
    /\ checkpoints = {}
    /\ minted = 0
    /\ clock = 0
    /\ inProgress = FALSE
    /\ inFlightId = None
    /\ pc = [w \in Workers |-> "idle"]
    /\ bid = [s \in Slots |-> None]
    /\ from = [s \in Slots |-> None]
    /\ made = [s \in Slots |-> FALSE]
    /\ listed = [w \in Workers |-> {}]
    /\ seen = [w \in Workers |-> {}]
    /\ todo = [w \in Workers |-> {}]
    /\ cur = [w \in Workers |-> None]

\* The frames of the actions.  A step moves one worker from an await to another.
Step(w, a, b) == pc[w] = a /\ pc' = [pc EXCEPT ![w] = b]

Move(w, a, b) == Step(w, a, b) /\ UNCHANGED <<disk, checkpoints, entry, run, work>>

SetDir(b, d) == /\ dir' = [dir EXCEPT ![b] = d]
                /\ UNCHANGED <<parent, stamp, recorded, minted, clock>>
                /\ UNCHANGED <<checkpoints, entry, run>>

SetCheckpoints(C) == checkpoints' = C /\ UNCHANGED <<disk, entry, run>>

SetTodo(w, T) == todo' = [todo EXCEPT ![w] = T]

\* A call returns: its locals are gone.
Forget(w) == /\ listed' = [listed EXCEPT ![w] = {}]
             /\ seen' = [seen EXCEPT ![w] = {}]
             /\ todo' = [todo EXCEPT ![w] = {}]
             /\ cur' = [cur EXCEPT ![w] = None]

Return(w, a) == /\ Step(w, a, "idle") /\ Forget(w)
                /\ UNCHANGED <<disk, checkpoints, entry, run>>

\* A retention pass is over: a run goes on to its checkpoints, housekeeping sweeps.
EndRetention(w, a) ==
    /\ Step(w, a, IF w \in Slots THEN "names" ELSE "sweepHas")
    /\ Forget(w)
    /\ UNCHANGED <<disk, checkpoints, entry, run>>

Idle(W) == \A w \in W : pc[w] = "idle"
Complete == {b \in Backups : dir[b] = "complete"}

(***************************************************************************)
(* Scanning the VM's backup directory: scanManifests, buildBackupEntries.  *)
(***************************************************************************)

\* Seeded fault: the backup in flight is not known to scans.
InFlightUnknown == {}

\* isSuppressedInFlightDir, over every directory the scan listed.
InFlight == IF inProgress THEN {inFlightId} \ {None} ELSE {}

\* Seeded fault: the directory in flight is hidden with its manifest.
ScansHideInFlight(dirs) ==
    LET good == {b \in dirs : dir[b] = "complete"} \ InFlight
        torn == {b \in dirs : dir[b] = "unreadable"}
        open == {b \in dirs : dir[b] \in {"open", "manifest"}} \ InFlight
    IN  {[manifests |-> good, unreadable |-> torn, incomplete |-> open]}

\* The results a scan can have once the directories were listed: the usable
\* manifests, the directories marked complete whose manifest is out of reach
\* and the never-finished ones.  A failing readdir yields an empty scan.
Scans(dirs) ==
    LET good == {b \in dirs : dir[b] = "complete"}
        torn == {b \in dirs : dir[b] = "unreadable"}
        open == {b \in dirs : dir[b] \in {"open", "manifest"}} \ InFlight
    IN  {[manifests |-> good \ bad, unreadable |-> torn \cup bad, incomplete |-> open] :
             bad \in IF ReadErrors THEN SUBSET good ELSE {{}}}
        \cup IF ReadErrors
             THEN {[manifests |-> {}, unreadable |-> {}, incomplete |-> {}]}
             ELSE {}

\* The readdir of a scan; what it returns is read later.
ReadDir(w) == /\ listed' = [listed EXCEPT ![w] = {b \in Backups : dir[b] # "absent"}]
              /\ UNCHANGED <<disk, checkpoints, entry, run>>

\* The scan is read and its directory listing gone.
ScanOver(w) == listed' = [listed EXCEPT ![w] = {}]

Newest(M) == {b \in M : \A c \in M : stamp[c] <= stamp[b]}

\* walkChain: every link down to a full backup is among the manifests.
Unbroken(M, b) ==
    \E C \in SUBSET M : b \in C /\ \A c \in C : parent[c] # None => parent[c] \in C

\* countChainLength: the incrementals newer than every full backup.
ChainLength(M) ==
    Cardinality({b \in M : /\ parent[b] # None
                           /\ \A f \in M : parent[f] = None => stamp[f] < stamp[b]})

\* Seeded fault: direct children only.
ChildrenOnly(M, b) == {d \in M : parent[d] = b}

\* collectDescendants: what builds on b, directly or not.
Descendants(M, b) ==
    LET closed(C) == \A c \in M : parent[c] \in C \cup {b} => c \in C
    IN  {d \in M : \A C \in SUBSET M : closed(C) => d \in C}

(***************************************************************************)
(* Removing a directory: fs.rm is not atomic, so a whole backup first      *)
(* loses its marker or its manifest, and a restart can leave it like that. *)
(***************************************************************************)

Torn(b) == IF dir[b] = "complete" THEN {"open", "unreadable"} ELSE {dir[b]}

\* Seeded fault: the victim stays on the list.
BeginRemoveForever(w, b) ==
    /\ \E rest \in Torn(b) : SetDir(b, rest)
    /\ cur' = [cur EXCEPT ![w] = b]
    /\ UNCHANGED <<listed, seen, todo>>

\* removeBackupFiles begins on the next victim of the loop, and is done.
BeginRemove(w, b) ==
    /\ \E rest \in Torn(b) : SetDir(b, rest)
    /\ cur' = [cur EXCEPT ![w] = b]
    /\ SetTodo(w, todo[w] \ {b})
    /\ UNCHANGED <<listed, seen>>

EndRemove(w) ==
    /\ Step(w, "rm", "drop")
    /\ SetDir(cur[w], "absent")
    /\ UNCHANGED work

\* fs.rm throws half-way: that is the end of the pass, or of the request.
RemoveFail(w) ==
    \/ w \in Deleters /\ Return(w, "rm")
    \/ w \notin Deleters /\ EndRetention(w, "rm")

\* dropCheckpointFor: a failure costs a warning only.
DropCheckpoint(w) ==
    /\ Step(w, "drop", IF w \in Deleters THEN "delete" ELSE "retain")
    /\ \E C \in {checkpoints \ {cur[w]}, checkpoints} : SetCheckpoints(C)
    /\ cur' = [cur EXCEPT ![w] = None]
    /\ UNCHANGED <<listed, seen, todo>>

(***************************************************************************)
(* createBackup, up to the copy                                            *)
(***************************************************************************)

\* The guard runs before the await of findVm, the registration after it.
Request(s) ==
    /\ minted + Cardinality({t \in Slots : pc[t] \in {"findVm", "settings"}}) < MaxBackups
    /\ ~inProgress
    /\ Overlap \/ Idle(Workers)
    /\ Move(s, "idle", "findVm")

Register(s) ==
    /\ Step(s, "findVm", "settings")
    /\ inProgress' = TRUE
    /\ inFlightId' = None
    /\ UNCHANGED <<disk, checkpoints, run, work>>

\* Seeded fault: the id skips one.
MintSkips(s) ==
    /\ Step(s, "settings", "mkdir")
    /\ minted < MaxBackups
    /\ minted' = minted + 1
    /\ bid' = [bid EXCEPT ![s] = minted + 2]
    /\ inFlightId' = minted + 2
    /\ UNCHANGED <<dir, parent, stamp, recorded, clock>>
    /\ UNCHANGED <<inProgress, checkpoints, from, made, work>>

\* The id is published in the entry before the directory exists.
Mint(s) ==
    /\ Step(s, "settings", "mkdir")
    /\ minted < MaxBackups
    /\ minted' = minted + 1
    /\ bid' = [bid EXCEPT ![s] = minted + 1]
    /\ inFlightId' = IF inProgress THEN minted + 1 ELSE inFlightId
    /\ UNCHANGED <<dir, parent, stamp, recorded, clock>>
    /\ UNCHANGED <<inProgress, checkpoints, from, made, work>>

\* getUserSettings throws.
SettingsFail(s) == Move(s, "settings", "finally")

\* mkdir and two chmods, any of which may throw.
Mkdir(s) ==
    \/ /\ Step(s, "mkdir", "inspect") \/ Step(s, "mkdir", "finally")
       /\ SetDir(bid[s], "open")
       /\ UNCHANGED work
    \/ Move(s, "mkdir", "finally")

\* Seeded fault: the early exit skips the deregistration.
VmGoneStaysRegistered(s) ==
    /\ Step(s, "inspect", "idle")
    /\ SetDir(bid[s], "absent")
    /\ UNCHANGED work

\* getVmInfo throws: the directory goes, unless rm throws too, and nothing else
\* is tidied up.
VmGone(s) ==
    /\ Step(s, "inspect", "finally")
    /\ \E d \in {"absent", dir[bid[s]]} : SetDir(bid[s], d)
    /\ UNCHANGED work

\* Nothing to assess: a full backup was asked for or the VM is stopped, so no
\* checkpoint is asked for either; or the host was found not to support
\* incrementals, which the next probe may contradict.
TakeFull(s) == Move(s, "inspect", "plain") \/ Move(s, "inspect", "beginFull")

\* assessIncrementalReadiness, up to its scan's readdir.
Assess(s) == Step(s, "inspect", "read") /\ ReadDir(s) /\ UNCHANGED <<seen, todo, cur>>

\* The newest backup is the only candidate: whole, with a checkpoint on
\* record, and under a chain shorter than the limit.
Candidates(M) == {b \in Newest(M) : /\ Unbroken(M, b)
                                    /\ recorded[b]
                                    /\ ChainLength(M) < FullEvery}

AssessRead(s) ==
    /\ \E scan \in Scans(listed[s]) :
           LET fit == Candidates(scan.manifests)
           IN  \/ fit = {} /\ Step(s, "read", "beginFull") /\ UNCHANGED from
               \/ \E p \in fit : /\ Step(s, "read", "checkpoint")
                                 /\ from' = [from EXCEPT ![s] = p]
    /\ ScanOver(s)
    /\ UNCHANGED <<disk, checkpoints, entry, bid, made, seen, todo, cur>>

\* checkpointExists: no longer in libvirt, or libvirt does not say.
AssessCheckpoint(s) ==
    \/ from[s] \in checkpoints /\ Move(s, "checkpoint", "parent")
    \/ /\ Step(s, "checkpoint", "beginFull")
       /\ from' = [from EXCEPT ![s] = None]
       /\ UNCHANGED <<disk, checkpoints, entry, bid, made, work>>

\* getBackupManifest of the parent; without it the run throws.
ReadParent(s) ==
    \/ Move(s, "parent", "precreate") /\ dir[from[s]] \notin {"absent", "unreadable"}
    \/ Move(s, "parent", "cleanup") /\ (ReadErrors \/ dir[from[s]] # "complete")

(***************************************************************************)
(* The copy: copyDisksWithFullFallback over copyVmDisks and the libvirt    *)
(* push-mode backup, as far as the parent and the checkpoint go.           *)
(***************************************************************************)

\* precreateBackupTarget: qemu-img opens the parent's image.
Precreate(s) ==
    \/ Move(s, "precreate", "beginDelta") /\ dir[from[s]] # "absent"
    \/ Move(s, "precreate", "degrade")

\* beginPushBackup from the parent's checkpoint, leaving one of its own.
BeginDelta(s) ==
    \/ /\ from[s] \in checkpoints /\ bid[s] \notin checkpoints
       /\ Step(s, "beginDelta", "delta")
       /\ SetCheckpoints(checkpoints \cup {bid[s]})
       /\ UNCHANGED work
    \/ Move(s, "beginDelta", "degrade")

\* A push-mode job is over; libvirt is asked whether the checkpoint is there.
Copied(s, a) ==
    /\ Step(s, a, "manifest")
    /\ \E m \in BOOLEAN : /\ m => bid[s] \in checkpoints
                         /\ made' = [made EXCEPT ![s] = m]
    /\ UNCHANGED <<disk, checkpoints, entry, bid, from, work>>

EndDelta(s) == Copied(s, "delta") \/ Move(s, "delta", "degrade")

\* The incremental failed: drop its checkpoint and retry as a full backup.
Degrade(s) ==
    /\ Step(s, "degrade", "beginFull")
    /\ from' = [from EXCEPT ![s] = None]
    /\ checkpoints' \in {checkpoints \ {bid[s]}, checkpoints}
    /\ UNCHANGED <<disk, entry, bid, made, work>>

\* A full copy in push mode, leaving a checkpoint when one is asked for.  It
\* cannot start while the name is taken by the checkpoint of a failed attempt.
BeginFull(s) ==
    \/ /\ bid[s] \notin checkpoints
       /\ Step(s, "beginFull", "full")
       /\ \E C \in {checkpoints \cup {bid[s]}, checkpoints} : SetCheckpoints(C)
       /\ UNCHANGED work
    \/ Move(s, "beginFull", "plain")

EndFull(s) == Copied(s, "full") \/ Move(s, "full", "plain")

\* A full copy by qemu-img alone: no checkpoint, and no tier left to fall to.
PlainCopy(s) == Move(s, "plain", "manifest") \/ Move(s, "plain", "cleanup")

(***************************************************************************)
(* Making the backup real, and the end of a run.                           *)
(***************************************************************************)

WriteManifest(s) ==
    /\ Step(s, "manifest", "mark")
    /\ dir[bid[s]] = "open"
    /\ dir' = [dir EXCEPT ![bid[s]] = "manifest"]
    /\ parent' = [parent EXCEPT ![bid[s]] = from[s]]
    /\ recorded' = [recorded EXCEPT ![bid[s]] = made[s]]
    /\ stamp' = [stamp EXCEPT ![bid[s]] = clock + 1]
    /\ clock' = clock + 1
    /\ UNCHANGED <<minted, checkpoints, entry, run, work>>

Mark(s) ==
    /\ Step(s, "mark", "log")
    /\ dir[bid[s]] = "manifest"
    /\ SetDir(bid[s], "complete")
    /\ UNCHANGED work

\* The disks, a stat, a metadata lookup or a write fails before the marker.
RunFail(s) == \E a \in {"inspect", "manifest", "mark"} : Move(s, a, "cleanup")

\* The catch block before the marker: rm -rf of the run's own directory.
Cleanup(s) ==
    /\ Step(s, "cleanup", "names")
    /\ \E d \in {"absent", dir[bid[s]]} : SetDir(bid[s], d)
    /\ UNCHANGED work

\* Seeded fault: an error after the marker is cleaned up like one before it.
LogFailCleansUp(s) ==
    \/ Step(s, "log", "retainRead") /\ ReadDir(s) /\ UNCHANGED <<seen, todo, cur>>
    \/ Move(s, "log", "cleanup")

\* appendLog, then retention; if it throws the backup stays as it is and the
\* housekeeping is skipped.
Log(s) ==
    \/ Step(s, "log", "retainRead") /\ ReadDir(s) /\ UNCHANGED <<seen, todo, cur>>
    \/ Move(s, "log", "finally")

\* The finally of createBackup.
Finish(s) ==
    /\ Step(s, "finally", "idle")
    /\ inProgress' = FALSE
    /\ inFlightId' = None
    /\ bid' = [bid EXCEPT ![s] = None]
    /\ from' = [from EXCEPT ![s] = None]
    /\ made' = [made EXCEPT ![s] = FALSE]
    /\ Forget(s)
    /\ UNCHANGED <<disk, checkpoints>>

(***************************************************************************)
(* reconcileCheckpoints                                                    *)
(***************************************************************************)

\* The names first, then the scan; no names when there are none or virsh fails.
Names(s) ==
    \/ /\ Step(s, "names", "recRead") /\ ReadDir(s)
       /\ checkpoints # {}
       /\ SetTodo(s, checkpoints)
       /\ UNCHANGED <<seen, cur>>
    \/ Move(s, "names", "finally")

\* The checkpoints no manifest has on record are stale, unless a manifest is
\* out of reach.
ReconcileRead(s) ==
    /\ \E scan \in Scans(listed[s]) :
          \/ /\ Step(s, "recRead", "reconcile")
             /\ scan.unreadable = {}
             /\ SetTodo(s, todo[s] \ {b \in scan.manifests : recorded[b]})
          \/ /\ Step(s, "recRead", "finally")
             /\ scan.unreadable # {}
             /\ SetTodo(s, {})
    /\ ScanOver(s)
    /\ UNCHANGED <<disk, checkpoints, entry, run, seen, cur>>

\* One stale checkpoint: deleted, or left for the next pass with a warning.
Reconcile(s) ==
    \/ \E c \in todo[s] :
          /\ Step(s, "reconcile", "reconcile")
          /\ \E C \in {checkpoints \ {c}, checkpoints} : SetCheckpoints(C)
          /\ SetTodo(s, todo[s] \ {c})
          /\ UNCHANGED <<listed, seen, cur>>
    \/ todo[s] = {} /\ Move(s, "reconcile", "finally")

(***************************************************************************)
(* applyRetention, by a run after its backup or by a housekeeping pass.    *)
(***************************************************************************)

\* applyRetentionAll reaches this VM.
StartKeeping(k) ==
    /\ Step(k, "idle", "retainRead") /\ ReadDir(k)
    /\ Overlap \/ Idle(Slots)
    /\ UNCHANGED <<seen, todo, cur>>

\* Seeded fault: manifests out of reach do not stop the pass.
RetainWhatIsRead(w) ==
    \E scan \in Scans(listed[w]) :
        /\ Step(w, "retainRead", "retain")
        /\ seen' = [seen EXCEPT ![w] = scan.manifests]
        /\ SetTodo(w, scan.manifests)
        /\ ScanOver(w)
        /\ UNCHANGED <<disk, checkpoints, entry, run, cur>>

\* The scan, then the settings and schedules; the pass is refused when any
\* of them is out of reach.
RetainRead(w) ==
    \/ \E scan \in Scans(listed[w]) :
          /\ Step(w, "retainRead", "retain")
          /\ scan.unreadable = {}
          /\ seen' = [seen EXCEPT ![w] = scan.manifests]
          /\ SetTodo(w, scan.manifests)
          /\ ScanOver(w)
          /\ UNCHANGED <<disk, checkpoints, entry, run, cur>>
    \/ EndRetention(w, "retainRead")

\* Seeded fault: age is all that counts.
LeafByAge(w, b) == b \in todo[w]

\* A leaf of what is left of the scan, by the child counts.
Leaf(w, b) == b \in todo[w] /\ \A c \in todo[w] : parent[c] # b

\* An expired leaf goes, until no leaf left has expired; which ones have is up
\* to the wall clock.
Retain(w) == \E b \in Backups : Leaf(w, b) /\ Step(w, "retain", "rm") /\ BeginRemove(w, b)
Retained(w) == EndRetention(w, "retain")

(***************************************************************************)
(* sweepAbandonedBackupDirs                                                *)
(***************************************************************************)

SweepHas(k) ==
    \/ ~inProgress /\ Move(k, "sweepHas", "sweepList")
    \/ inProgress /\ Return(k, "sweepHas")

SweepList(k) ==
    Step(k, "sweepList", "sweepRead") /\ ReadDir(k) /\ UNCHANGED <<seen, todo, cur>>

\* Only never-finished directories older than a day, by the same clock.
SweepRead(k) ==
    /\ Step(k, "sweepRead", "sweep")
    /\ \E scan \in Scans(listed[k]) : \E old \in SUBSET scan.incomplete : SetTodo(k, old)
    /\ ScanOver(k)
    /\ UNCHANGED <<disk, checkpoints, entry, run, seen, cur>>

\* One after the other, until fs.rm throws or none is left.
Sweep(k) ==
    \/ \E b \in todo[k] : /\ Step(k, "sweep", "sweep")
                          /\ SetDir(b, "absent")
                          /\ SetTodo(k, todo[k] \ {b})
                          /\ UNCHANGED <<listed, seen, cur>>
    \/ Return(k, "sweep")

(***************************************************************************)
(* deleteBackup                                                            *)
(***************************************************************************)

\* The operator deletes a directory a page has shown: a backup or a leftover,
\* never the one being written, which no listing returns.
StartDelete(d) ==
    /\ Step(d, "idle", "delRead") /\ ReadDir(d)
    /\ Overlap \/ Idle(Slots)
    /\ \E b \in Backups : /\ dir[b] # "absent"
                          /\ dir[b] = "complete" \/ \A s \in Slots : bid[s] # b
                          /\ cur' = [cur EXCEPT ![d] = b]
    /\ UNCHANGED <<seen, todo>>

\* Without a manifest only the directory goes.  With dependents the request
\* is refused unless it is a cascade.
DeleteRead(d) ==
    \E scan \in Scans(listed[d]), cascade \in BOOLEAN :
        LET M == scan.manifests
            dependents == Descendants(M, cur[d])
        IN  \/ cur[d] \notin M /\ Move(d, "delRead", "rmOnly")
            \/ cur[d] \in M /\ dependents # {} /\ ~cascade /\ Return(d, "delRead")
            \/ /\ cur[d] \in M /\ (dependents = {} \/ cascade)
               /\ Step(d, "delRead", "delete")
               /\ seen' = [seen EXCEPT ![d] = M]
               /\ SetTodo(d, dependents \cup {cur[d]})
               /\ cur' = [cur EXCEPT ![d] = None]
               /\ ScanOver(d)
               /\ UNCHANGED <<disk, checkpoints, entry, run>>

\* fs.rm of a directory that is no backup to the request; it may throw.
RemoveOnly(d) ==
    /\ Step(d, "rmOnly", "idle")
    /\ \E left \in Torn(cur[d]) \cup {"absent", dir[cur[d]]} : SetDir(cur[d], left)
    /\ Forget(d)

\* Seeded fault: the cascade starts at the root.
DeleteRootFirst(d) ==
    \/ \E b \in {c \in todo[d] : \A e \in todo[d] : stamp[c] <= stamp[e]} :
          Step(d, "delete", "rm") /\ BeginRemove(d, b)
    \/ Return(d, "delete")

\* Newest first, so the tree is never missing a middle link; until fs.rm throws
\* or none is left.
Delete(d) ==
    \/ \E b \in Newest(todo[d]) : Step(d, "delete", "rm") /\ BeginRemove(d, b)
    \/ Return(d, "delete")

(***************************************************************************)
(* The environment, and the specification.                                 *)
(***************************************************************************)

\* restoreBackup clears the VM's checkpoints before it replaces the images;
\* one that libvirt will not delete stays.
ClearCheckpoints ==
    /\ checkpoints # {}
    /\ checkpoints' \in SUBSET checkpoints
    /\ UNCHANGED <<disk, entry, pc, run, work>>

\* The backend restarts: every call under way is forgotten.
Restart ==
    /\ ~Idle(Workers)
    /\ inProgress' = FALSE
    /\ inFlightId' = None
    /\ pc' = [w \in Workers |-> "idle"]
    /\ bid' = [s \in Slots |-> None]
    /\ from' = [s \in Slots |-> None]
    /\ made' = [s \in Slots |-> FALSE]
    /\ listed' = [w \in Workers |-> {}]
    /\ seen' = [w \in Workers |-> {}]
    /\ todo' = [w \in Workers |-> {}]
    /\ cur' = [w \in Workers |-> None]
    /\ UNCHANGED <<disk, checkpoints>>

BackupStep(s) ==
    \/ Register(s) \/ Mint(s) \/ SettingsFail(s) \/ Mkdir(s) \/ VmGone(s)
    \/ TakeFull(s) \/ Assess(s) \/ AssessRead(s) \/ AssessCheckpoint(s) \/ ReadParent(s)
    \/ Precreate(s) \/ BeginDelta(s) \/ EndDelta(s) \/ Degrade(s)
    \/ BeginFull(s) \/ EndFull(s) \/ PlainCopy(s)
    \/ WriteManifest(s) \/ Mark(s) \/ RunFail(s) \/ Cleanup(s) \/ Log(s)
    \/ Names(s) \/ ReconcileRead(s) \/ Reconcile(s) \/ Finish(s)

RetainStep(w) == RetainRead(w) \/ Retain(w) \/ Retained(w)

SweepStep(k) == SweepHas(k) \/ SweepList(k) \/ SweepRead(k) \/ Sweep(k)

DeleteStep(d) == DeleteRead(d) \/ RemoveOnly(d) \/ Delete(d)

\* The steps of a call that was made; it makes them unless the backend dies.
WorkStep(w) ==
    \/ w \in Slots /\ (BackupStep(w) \/ RetainStep(w))
    \/ w \in Keepers /\ (RetainStep(w) \/ SweepStep(w))
    \/ w \in Deleters /\ DeleteStep(w)
    \/ EndRemove(w) \/ RemoveFail(w) \/ DropCheckpoint(w)

Next ==
    \/ \E s \in Slots : Request(s)
    \/ \E k \in Keepers : StartKeeping(k)
    \/ \E d \in Deleters : StartDelete(d)
    \/ \E w \in Workers : WorkStep(w)
    \/ ClearCheckpoints
    \/ Restart

Spec == Init /\ [][Next]_vars

\* Node runs every continuation, and virsh, qemu-img and fs calls return: each
\* has a timeout or is local.
FairSpec == Spec /\ \A w \in Workers : WF_vars(WorkStep(w))

(***************************************************************************)
(* Properties.                                                             *)
(***************************************************************************)

TypeOK ==
    /\ dir \in [Backups -> DirState]
    /\ parent \in [Backups -> OptBackup]
    /\ stamp \in [Backups -> Nat]
    /\ recorded \in [Backups -> BOOLEAN]
    /\ checkpoints \subseteq Backups
    /\ minted \in 0 .. MaxBackups
    /\ clock \in Nat
    /\ inProgress \in BOOLEAN
    /\ inFlightId \in OptBackup
    /\ pc \in [Workers -> PC]
    /\ bid \in [Slots -> OptBackup]
    /\ from \in [Slots -> OptBackup]
    /\ made \in [Slots -> BOOLEAN]
    /\ listed \in [Workers -> SUBSET Backups]
    /\ seen \in [Workers -> SUBSET Backups]
    /\ todo \in [Workers -> SUBSET Backups]
    /\ cur \in [Workers -> OptBackup]

\* Every complete incremental's parent is complete, so by induction each
\* complete backup reads down to a full one ("a chain therefore reads as one
\* complete image", README).  Deleting, retention, a failed run and a restart
\* in the middle of any of them could each leave a link out.
ChainsIntact == \A b \in Complete : parent[b] \in Complete \cup {None}

\* A whole backup stops being whole only when deleteBackup or applyRetention
\* removes it: no failing run takes a finished backup with it, and no sweep
\* takes a directory that was being written when it was listed.
OnlyRemovedOnPurpose ==
    [][\A b \in Complete : b \notin Complete' =>
          \E w \in Workers : /\ pc[w] \in {"retain", "delete", "rmOnly"}
                             /\ b \in todo[w] \cup {cur[w]}]_vars

\* The directory a run is writing stays until the run is done with it, whatever
\* requests and housekeeping do meanwhile (the sweep's "a VM with a backup in
\* flight is skipped outright", and what isSuppressedInFlightDir is for).
OwnDirKept ==
    [][\A s \in Slots : pc[s] \in WritePC /\ dir'[bid[s]] = "absent"
                        => pc[s] = "inspect" /\ pc'[s] = "finally"]_vars

\* Removing a backup never breaks a chain whose next link was complete when
\* the remover looked: dependents go first, in a retention pass, in a cascade
\* and in both at once.  (A link finished since then is another matter.)
SeenDependentsGoFirst ==
    [][\A w \in Workers : \A p \in Complete \ Complete' :
          pc'[w] # pc[w] => \A b \in seen[w] : b \in Complete => parent[b] # p]_vars

\* A checkpoint somebody counts on: the one a whole backup has on record, or
\* the one a run has just verified and is about to record.
Promised(c) ==
    \/ c \in Complete /\ recorded[c]
    \/ \E s \in Slots : bid[s] = c /\ made[s] /\ pc[s] \in {"manifest", "mark"}

\* Only a restore takes a checkpoint that is counted on away from its backup;
\* in particular a run's reconciliation spares the one it has just laid down.
PromisedCheckpointsKept ==
    [][ClearCheckpoints \/ \A c \in checkpoints \ checkpoints' : ~Promised(c)]_vars

\* A run that registered is deregistered in the end, so the VM can always be
\* backed up again.
RunsEnd == inProgress ~> ~inProgress

\* Every request and every housekeeping pass comes to an end.
CallsEnd == \A w \in Workers : pc[w] # "idle" ~> pc[w] = "idle"

\* Under these, the engine implements the catalog: see BackupEngine_proof.
Catalog == INSTANCE BackupCatalog WITH
    kept <- Complete,
    base <- [b \in Backups |-> IF dir[b] = "complete" THEN parent[b] ELSE None]
CatalogSpec == Catalog!Spec

=============================================================================
