------------------------------- MODULE DiskCopy -------------------------------
(***************************************************************************)
(* Copying the disks of one VM for a backup or a clone                     *)
(* (services/diskCopyService.ts, libvirtBackupService.ts, vmService.ts,    *)
(* copyDisksWithFullFallback of backupService.ts).                         *)
(*                                                                         *)
(* A copy goes down the tiers: libvirt's push-mode job, the bases under    *)
(* overlays that are committed back, the live disks; or, with the VM off,  *)
(* the idle disks.  The guest writes meanwhile, and can be stopped and     *)
(* started.  What a disk holds is the number of the last write to it.      *)
(***************************************************************************)
EXTENDS Naturals

CONSTANTS
    Copiers,        \* backups and clones of the VM under way
    Disks,
    Base,           \* the image of a disk that is no overlay of a copier's
    None,           \* nothing; a file that is not there
    Torn,           \* an image that is not whole, or not of one moment
    Stray,          \* a job nobody waits for any more
    Lossy,          \* whether libvirt may have no statistics of a copier's own job
    MaxWrites,      \* bound: writes of the guest
    MaxEvents       \* bound: calls that undo something and fail, late answers, restarts

ASSUME CopyAssumption ==
    /\ Disks # {}
    /\ Base \notin Copiers /\ Stray \notin Copiers /\ None \notin Copiers \cup {Base, Stray}
    /\ None \notin Nat \cup Disks /\ Torn \notin Nat /\ Torn # None
    /\ Lossy \in BOOLEAN /\ MaxWrites \in Nat /\ MaxEvents \in Nat

VARIABLES
    power, frozen,      \* the guest runs; its filesystems are frozen
    top, under, data,   \* a disk's image in use, what an overlay lies on, what images hold
    job, stats,         \* libvirt's backup job, and how the last one ended
    checkpoint,         \* the VM has checkpoints, so libvirt refuses block operations
    writes,             \* writes made so far
    push,               \* backupSupportedCache is true
    pc,                 \* what a copy does next
    kind, how,          \* what is asked for, and the tier it is at
    on, src,            \* the VM was seen running; the images it had when asked
    left, cur, got,     \* disks left to do, the one being read, what it held
    quiet, err,         \* the guest was frozen for this copy; an error is on its way up
    image,              \* what has been written for each disk
    point, calm,        \* history: the disks at the copy's moment, and whether they were idle
    excused,            \* history: an undoing failed, or a restart cut it off
    events

guest == <<power, frozen>>
disks == <<top, under, data>>
libvirt == <<job, stats, checkpoint>>
asked == <<kind, on, src>>
loop == <<left, cur, got>>
moment == <<point, calm>>
vars == <<guest, disks, libvirt, writes, push, pc, asked, how, loop, quiet, err, image,
          moment, excused, events>>

Images == {Base} \cup Copiers
Contents == 0..MaxWrites
Kinds == {"plain", "mark", "delta"}     \* without a checkpoint, with one, since one
Tiers == {"push", "snap", "direct", "offline"}
Phases == {"idle", "probe", "create", "freeze", "begin", "thaw", "wait", "check", "caught",
           "retry", "snap", "convert", "look", "commit", "told"}

Init ==
    /\ power \in BOOLEAN /\ frozen = FALSE
    /\ top = [d \in Disks |-> Base] /\ under = [d \in Disks |-> [c \in Copiers |-> None]]
    /\ data = [d \in Disks |-> [i \in Images |-> 0]]
    /\ job = None /\ stats = "none" /\ checkpoint \in BOOLEAN
    /\ writes = 0 /\ push = FALSE
    /\ pc = [c \in Copiers |-> "idle"] /\ kind = [c \in Copiers |-> "plain"]
    /\ how = [c \in Copiers |-> "push"] /\ on = [c \in Copiers |-> FALSE]
    /\ src = [c \in Copiers |-> [d \in Disks |-> Base]]
    /\ left = [c \in Copiers |-> {}] /\ cur = [c \in Copiers |-> None]
    /\ got = [c \in Copiers |-> 0]
    /\ quiet = [c \in Copiers |-> FALSE] /\ err = [c \in Copiers |-> FALSE]
    /\ image = [c \in Copiers |-> [d \in Disks |-> None]]
    /\ point = [c \in Copiers |-> [d \in Disks |-> 0]] /\ calm = [c \in Copiers |-> FALSE]
    /\ excused = FALSE /\ events = 0

\* What the guest sees on its disks.
Now == [d \in Disks |-> data[d][top[d]]]

OnOverlay == \E d \in Disks : top[d] # Base

\* A call goes wrong in a way that leaves something undone.
Slip == events < MaxEvents /\ events' = events + 1 /\ excused' = TRUE
Fine == UNCHANGED <<events, excused>>

At(c, p) == pc[c] = p
Go(c, p) == pc' = [pc EXCEPT ![c] = p]
NoFiles(c) == image' = [image EXCEPT ![c] = [d \in Disks |-> None]]

(***************************************************************************)
(* What is asked, and what the host can do.                                *)
(***************************************************************************)

\* An overlay is named after its copy, so one that stayed is not met again.
Ask(c, k) ==
    /\ pc[c] \in {"idle", "told"} /\ \A d \in Disks : under[d][c] = None
    /\ (k = "plain" \/ power)
    /\ k = "delta" => checkpoint
    /\ kind' = [kind EXCEPT ![c] = k] /\ on' = [on EXCEPT ![c] = power]
    /\ src' = [src EXCEPT ![c] = top]
    /\ Go(c, IF power THEN "probe" ELSE "convert")
    /\ how' = [how EXCEPT ![c] = IF power THEN "push" ELSE "offline"]
    /\ left' = [left EXCEPT ![c] = Disks]
    /\ quiet' = [quiet EXCEPT ![c] = FALSE] /\ err' = [err EXCEPT ![c] = FALSE]
    /\ NoFiles(c)
    /\ UNCHANGED <<guest, disks, libvirt, writes, push, cur, got, moment>> /\ Fine

\* isBackupSupported: a yes is kept, a no is asked again.
Probe(c) ==
    /\ At(c, "probe")
    /\ \/ push' = TRUE /\ Go(c, "create")
       \/ ~push /\ push' = push /\ Go(c, IF kind[c] = "delta" THEN "retry" ELSE "snap")
    /\ UNCHANGED <<guest, disks, libvirt, writes, asked, how, loop, quiet, err, image, moment>>
    /\ Fine

(***************************************************************************)
(* The push-mode job.                                                      *)
(***************************************************************************)

There(d, i) == i # Base => under[d][i] # None

\* precreateBackupTarget: empty images, which a delta lays on its parent's.
Create(c) ==
    /\ At(c, "create")
    /\ image' = [image EXCEPT ![c] = [d \in Disks |-> Torn]]
    /\ \/ /\ kind[c] = "delta" \/ \A d \in Disks : There(d, src[c][d])
          /\ Go(c, "freeze")
       \/ Go(c, "caught")
    /\ UNCHANGED <<guest, disks, libvirt, writes, push, asked, how, loop, quiet, err, moment>>
    /\ Fine

\* fsFreeze: the agent answers, or does not, or freezes when nobody waits any more.
Freeze(c) ==
    /\ At(c, "freeze") /\ Go(c, "begin")
    /\ \/ /\ power /\ ~frozen /\ frozen' = TRUE /\ quiet' = [quiet EXCEPT ![c] = TRUE] /\ Fine
       \/ frozen' = frozen /\ quiet' = [quiet EXCEPT ![c] = FALSE] /\ Fine
       \/ power /\ ~frozen /\ frozen' = TRUE /\ quiet' = [quiet EXCEPT ![c] = FALSE] /\ Slip
    /\ UNCHANGED <<power, disks, libvirt, writes, push, asked, how, loop, err, image, moment>>

\* backup-begin takes the disks' moment, and lays a checkpoint if asked for one.
Begun(c) ==
    /\ power /\ job = None
    /\ kind[c] = "delta" => checkpoint
    /\ Lossy \/ \A o \in Copiers : pc[o] # "wait"
    /\ checkpoint' = (checkpoint \/ kind[c] # "plain") /\ stats' = "none"
    /\ point' = [point EXCEPT ![c] = Now] /\ calm' = [calm EXCEPT ![c] = frozen]

\* Seeded fault: an error of backup-begin passes by the thaw.
BeginThrows(c) ==
    /\ At(c, "begin")
    /\ \/ Begun(c) /\ job' = c /\ err' = [err EXCEPT ![c] = FALSE] /\ UNCHANGED events
       \/ err' = [err EXCEPT ![c] = TRUE] /\ UNCHANGED <<libvirt, moment, events>>
    /\ Go(c, IF err'[c] THEN "caught" ELSE IF quiet[c] THEN "thaw" ELSE "wait")
    /\ UNCHANGED <<guest, disks, writes, push, asked, how, loop, quiet, image, excused>>

\* It fails, or is running when virsh is given up on.
Begin(c) ==
    /\ At(c, "begin")
    /\ \/ Begun(c) /\ job' = c /\ err' = [err EXCEPT ![c] = FALSE] /\ UNCHANGED events
       \/ /\ events < MaxEvents /\ events' = events + 1
          /\ Begun(c) /\ job' = Stray /\ err' = [err EXCEPT ![c] = TRUE]
       \/ err' = [err EXCEPT ![c] = TRUE] /\ UNCHANGED <<libvirt, moment, events>>
    /\ Go(c, IF quiet[c] THEN "thaw" ELSE IF err'[c] THEN "caught" ELSE "wait")
    /\ UNCHANGED <<guest, disks, writes, push, asked, how, loop, quiet, image, excused>>

\* fsThaw is best-effort.
Thaw(c) ==
    /\ At(c, "thaw") /\ Go(c, IF err[c] THEN "caught" ELSE "wait")
    /\ \/ frozen' = FALSE /\ Fine
       \/ frozen /\ frozen' = frozen /\ Slip
    /\ UNCHANGED <<power, disks, libvirt, writes, push, asked, how, loop, quiet, err, image,
                   moment>>

\* A job a copier gives up writes to a file that is about to lose its name.
Abandon(c) == job' = IF job = c THEN Stray ELSE job

\* waitForBackupJob: only a job that is known to have failed is an error.
Wait(c) ==
    /\ At(c, "wait")
    /\ \/ Go(c, "caught") /\ Abandon(c) /\ UNCHANGED stats      \* domjobinfo fails
       \/ /\ job # None /\ Go(c, "caught")                      \* timeout, and domjobabort
          /\ \/ job' = None /\ stats' = "cancelled"
             \/ Abandon(c) /\ UNCHANGED stats
       \/ /\ power /\ job = None
          /\ Go(c, IF stats = "failed" THEN "caught" ELSE "check")
          /\ UNCHANGED <<job, stats>>
    /\ UNCHANGED <<guest, disks, checkpoint, writes, push, asked, how, loop, quiet, err, image,
                   moment>>
    /\ Fine

\* The images are there, as they were made beforehand; compressing them may fail.
Check(c) ==
    /\ At(c, "check")
    /\ \/ (\A d \in Disks : image[c][d] # None) /\ Go(c, "told")
       \/ Go(c, "caught")
    /\ UNCHANGED <<guest, disks, libvirt, writes, push, asked, how, loop, quiet, err, image,
                   moment>>
    /\ Fine

\* A delta has no other tier: its error goes up, to the backup that tries a full copy.
Caught(c) ==
    /\ At(c, "caught") /\ NoFiles(c)
    /\ Go(c, IF kind[c] = "delta" THEN "retry" ELSE "snap")
    /\ UNCHANGED <<guest, disks, libvirt, writes, push, asked, how, loop, quiet, err, moment>>
    /\ Fine

\* copyDisksWithFullFallback: only the checkpoint of this copy is taken back.
Retry(c) ==
    /\ At(c, "retry") /\ NoFiles(c) /\ Go(c, "probe")
    /\ kind' = [kind EXCEPT ![c] = "mark"]
    /\ UNCHANGED <<guest, disks, libvirt, writes, push, on, src, how, loop, quiet, err, moment>>
    /\ Fine

(***************************************************************************)
(* Overlays.                                                               *)
(***************************************************************************)

\* The next tier: a copy of the live disks, from the images found when asked.
Fall(c) ==
    /\ Go(c, "convert") /\ how' = [how EXCEPT ![c] = "direct"]
    /\ left' = [left EXCEPT ![c] = Disks] /\ NoFiles(c)

\* What libvirt needs for changing which image is in use.
Unblocked == job = None /\ ~checkpoint

Pivot(c) ==
    /\ Unblocked
    /\ under' = [d \in Disks |-> [under[d] EXCEPT ![c] = top[d]]]
    /\ data' = [d \in Disks |-> [data[d] EXCEPT ![c] = data[d][top[d]]]]
    /\ top' = [d \in Disks |-> c]

\* createTransientDiskSnapshot: quiesced if the agent can, else as it is.
Snap(c) ==
    /\ At(c, "snap")
    /\ \/ /\ Pivot(c)
          /\ \E q \in BOOLEAN :
                /\ q => power /\ ~frozen
                /\ quiet' = [quiet EXCEPT ![c] = q]
                /\ calm' = [calm EXCEPT ![c] = q \/ frozen \/ ~power]
          /\ point' = [point EXCEPT ![c] = Now]
          /\ how' = [how EXCEPT ![c] = "snap"] /\ err' = [err EXCEPT ![c] = FALSE]
          /\ left' = [left EXCEPT ![c] = Disks] /\ Go(c, "convert") /\ Fine
          /\ UNCHANGED image
       \/ Pivot(c) /\ Fall(c) /\ Slip /\ UNCHANGED <<quiet, err, moment>>
       \/ Fall(c) /\ Fine /\ UNCHANGED <<disks, quiet, err, moment>>
    /\ UNCHANGED <<guest, libvirt, writes, push, asked, cur, got>>

\* Seeded fault: the image in use is copied, not the one under the overlay.
SourceInUse(c, d) == IF how[c] = "snap" THEN top[d] ELSE src[c][d]

Source(c, d) == IF how[c] = "snap" THEN under[d][c] ELSE src[c][d]

\* qemu-img convert; without -U it needs an image that no guest has open for writing.
StartConvert(c, d) ==
    /\ At(c, "convert") /\ cur[c] = None /\ d \in left[c]
    /\ There(d, Source(c, d))
    /\ how[c] = "offline" => ~(power /\ Source(c, d) = top[d])
    /\ cur' = [cur EXCEPT ![c] = d]
    /\ got' = [got EXCEPT ![c] = data[d][Source(c, d)]]
    /\ image' = [image EXCEPT ![c][d] = Torn]
    /\ IF how[c] = "offline" /\ left[c] = Disks
       THEN point' = [point EXCEPT ![c] = Now] /\ calm' = [calm EXCEPT ![c] = ~power]
       ELSE UNCHANGED moment
    /\ UNCHANGED <<guest, disks, libvirt, writes, push, pc, asked, how, left, quiet, err>>
    /\ Fine

EndConvert(c) ==
    /\ At(c, "convert") /\ cur[c] # None
    /\ LET d == cur[c]
           same == There(d, Source(c, d)) /\ data[d][Source(c, d)] = got[c]
       IN /\ image' = [image EXCEPT ![c][d] = IF same THEN got[c] ELSE Torn]
          /\ left' = [left EXCEPT ![c] = @ \ {d}]
    /\ cur' = [cur EXCEPT ![c] = None] /\ got' = [got EXCEPT ![c] = 0]
    /\ UNCHANGED <<guest, disks, libvirt, writes, push, pc, asked, how, quiet, err, moment>>
    /\ Fine

\* The overlays are committed whether or not the images could be read.
ConvertFails(c) ==
    /\ At(c, "convert") /\ left[c] # {}
    /\ cur' = [cur EXCEPT ![c] = None] /\ got' = [got EXCEPT ![c] = 0]
    /\ IF how[c] = "snap"
       THEN Go(c, "look") /\ err' = [err EXCEPT ![c] = TRUE] /\ UNCHANGED <<left, image>>
       ELSE /\ Go(c, "idle") /\ left' = [left EXCEPT ![c] = {}] /\ NoFiles(c)
            /\ UNCHANGED err
    /\ UNCHANGED <<guest, disks, libvirt, writes, push, asked, how, quiet, moment>> /\ Fine

Converted(c) ==
    /\ At(c, "convert") /\ left[c] = {}
    /\ Go(c, IF how[c] = "snap" THEN "look" ELSE "told")
    /\ UNCHANGED <<guest, disks, libvirt, writes, push, asked, how, loop, quiet, err, image,
                   moment>>
    /\ Fine

\* commitTransientDiskSnapshot looks once whether the guest runs.
Look(c) ==
    /\ At(c, "look")
    /\ \/ /\ on' = [on EXCEPT ![c] = power] /\ left' = [left EXCEPT ![c] = Disks]
          /\ Go(c, "commit") /\ Fine /\ UNCHANGED <<how, image>>
       \/ Fall(c) /\ Slip /\ UNCHANGED on
    /\ UNCHANGED <<guest, disks, libvirt, writes, push, kind, src, cur, got, quiet, err, moment>>

\* blockcommit with the guest, qemu-img commit without, which needs the images to itself.
Possible(c, d) ==
    /\ top[d] = c
    /\ IF on[c] THEN power /\ Unblocked ELSE ~power

\* Seeded fault: the overlay is committed and removed, and stays in the definition.
MergedOnly(c, d) ==
    /\ data' = [data EXCEPT ![d][under[d][c]] = data[d][c]]
    /\ under' = [under EXCEPT ![d][c] = None]
    /\ UNCHANGED top

Merged(c, d) ==
    /\ data' = [data EXCEPT ![d] = [@ EXCEPT ![under[d][c]] = data[d][c], ![c] = 0]]
    /\ top' = [top EXCEPT ![d] = under[d][c]]
    /\ under' = [under EXCEPT ![d][c] = None]

Commit(c, d) ==
    /\ At(c, "commit") /\ d \in left[c]
    /\ \/ /\ Possible(c, d) /\ Merged(c, d)
          /\ left' = [left EXCEPT ![c] = @ \ {d}] /\ Fine
          /\ UNCHANGED <<pc, how, image>>
       \/ ~Possible(c, d) /\ Fall(c) /\ excused' = TRUE /\ UNCHANGED <<disks, events>>
       \/ Possible(c, d) /\ Fall(c) /\ Slip /\ UNCHANGED disks
    /\ UNCHANGED <<guest, libvirt, writes, push, asked, cur, got, quiet, err, moment>>

Committed(c) ==
    /\ At(c, "commit") /\ left[c] = {}
    /\ \/ err[c] /\ Fall(c)
       \/ ~err[c] /\ Go(c, "told") /\ UNCHANGED <<how, left, image>>
    /\ UNCHANGED <<guest, disks, libvirt, writes, push, asked, cur, got, quiet, err, moment>>
    /\ Fine

(***************************************************************************)
(* Around the copiers.                                                     *)
(***************************************************************************)

Rest == UNCHANGED <<push, pc, asked, how, loop, quiet, err, moment>>

Write(d) ==
    /\ power /\ ~frozen /\ writes < MaxWrites /\ writes' = writes + 1
    /\ data' = [data EXCEPT ![d][top[d]] = writes + 1]
    /\ UNCHANGED <<guest, top, under, libvirt, image>> /\ Rest /\ Fine

\* The job ends: the images hold the moment it was begun at, or it has failed.
JobEnd ==
    /\ job # None /\ job' = None
    /\ \/ /\ stats' = "completed"
          /\ image' = IF job = Stray THEN image ELSE [image EXCEPT ![job] = point[job]]
       \/ /\ stats' \in {"failed", "none"} /\ (Lossy \/ stats' = "failed")
          /\ UNCHANGED image
    /\ UNCHANGED <<guest, disks, checkpoint, writes>> /\ Rest /\ Fine

\* Between two converts there is no time to boot a guest and stop it again.
PowerOff ==
    /\ power /\ power' = FALSE /\ frozen' = FALSE
    /\ \A c \in Copiers :
          ~(At(c, "convert") /\ how[c] = "offline" /\ cur[c] = None /\ left[c] # Disks)
    /\ job' = None /\ stats' = "none"
    /\ UNCHANGED <<disks, checkpoint, writes, image>> /\ Rest /\ Fine

\* Nor, unless Lossy, between two looks at a job, or between freezing and backup-begin.
PowerOn ==
    /\ ~power /\ power' = TRUE
    /\ \A c \in Copiers :
          /\ ~(At(c, "convert") /\ how[c] = "offline" /\ cur[c] # None
               /\ Source(c, cur[c]) = top[cur[c]])
          /\ ~At(c, "begin")
          /\ Lossy \/ pc[c] \notin {"thaw", "wait"}
    /\ UNCHANGED <<frozen, disks, libvirt, writes, image>> /\ Rest /\ Fine

\* Retention and reconciliation drop checkpoints.
DropCheckpoint ==
    /\ checkpoint /\ checkpoint' = FALSE
    /\ UNCHANGED <<guest, disks, job, stats, writes, image>> /\ Rest /\ Fine

\* The backend dies; nothing takes up what its copies had begun.
Restart ==
    /\ events < MaxEvents /\ events' = events + 1
    /\ pc' = [c \in Copiers |-> "idle"] /\ push' = FALSE
    /\ excused' = (excused \/ frozen \/ OnOverlay)
    /\ job' = IF job = None THEN None ELSE Stray
    /\ left' = [c \in Copiers |-> {}] /\ cur' = [c \in Copiers |-> None]
    /\ got' = [c \in Copiers |-> 0]
    /\ UNCHANGED <<guest, disks, stats, checkpoint, writes, asked, how, quiet, err, image, moment>>

PushStep(c) == \/ Probe(c) \/ Create(c) \/ Freeze(c) \/ Begin(c) \/ Thaw(c) \/ Wait(c) \/ Check(c)
               \/ Caught(c) \/ Retry(c)
OverlayStep(c) == \/ Snap(c) \/ EndConvert(c) \/ ConvertFails(c) \/ Converted(c) \/ Look(c)
                  \/ Committed(c)
                  \/ \E d \in Disks : StartConvert(c, d) \/ Commit(c, d)
CopyStep(c) == PushStep(c) \/ OverlayStep(c)
Outside == \/ JobEnd \/ PowerOff \/ PowerOn \/ DropCheckpoint \/ Restart
           \/ \E d \in Disks : Write(d)

Next == \/ \E c \in Copiers : CopyStep(c) \/ \E k \in Kinds : Ask(c, k)
        \/ Outside

Spec == Init /\ [][Next]_vars
FairSpec == Spec /\ \A c \in Copiers : WF_vars(CopyStep(c))

(***************************************************************************)
(* Properties.                                                             *)
(***************************************************************************)

\* Everything has its type; only a running guest is frozen, overlays lie on something,
\* and a disk that is being read is one that is left to read.
GuestTyped ==
    /\ power \in BOOLEAN /\ frozen \in BOOLEAN /\ (frozen => power)
    /\ checkpoint \in BOOLEAN /\ push \in BOOLEAN /\ excused \in BOOLEAN
HostTyped ==
    /\ job \in {None, Stray} \cup Copiers
    /\ stats \in {"none", "completed", "failed", "cancelled"}
    /\ writes \in 0..MaxWrites /\ events \in 0..MaxEvents
DisksTyped ==
    /\ top \in [Disks -> Images] /\ under \in [Disks -> [Copiers -> Images \cup {None}]]
    /\ data \in [Disks -> [Images -> Contents]]
Mounted == \A d \in Disks : top[d] # Base => under[d][top[d]] # None
CopiersTyped ==
    /\ pc \in [Copiers -> Phases] /\ kind \in [Copiers -> Kinds] /\ how \in [Copiers -> Tiers]
    /\ on \in [Copiers -> BOOLEAN] /\ src \in [Copiers -> [Disks -> Images]]
    /\ quiet \in [Copiers -> BOOLEAN] /\ err \in [Copiers -> BOOLEAN]
LoopTyped ==
    /\ left \in [Copiers -> SUBSET Disks] /\ cur \in [Copiers -> Disks \cup {None}]
    /\ got \in [Copiers -> Contents]
Reading == \A c \in Copiers : cur[c] # None => At(c, "convert") /\ cur[c] \in left[c]
FilesTyped ==
    /\ image \in [Copiers -> [Disks -> Contents \cup {None, Torn}]]
    /\ point \in [Copiers -> [Disks -> Contents]] /\ calm \in [Copiers -> BOOLEAN]
TypeOK == /\ GuestTyped /\ HostTyped /\ DisksTyped /\ Mounted
          /\ CopiersTyped /\ LoopTyped /\ Reading /\ FilesTyped

Consistent(c) == how[c] = "offline" \/ (how[c] \in {"push", "snap"} /\ quiet[c])

\* A copy that is answered for is there; unless it was made of the live disks, each of
\* its images is what the disk held at one moment; and if it is called consistent, the
\* guest was off or had its filesystems frozen at that moment.
Honest ==
    \A c \in Copiers : At(c, "told") =>
        /\ \A d \in Disks : image[c][d] # None
        /\ how[c] # "direct" => image[c] = point[c]
        /\ Consistent(c) => calm[c]

\* What diskCopyService.ts and libvirtBackupService.ts say of the push-mode job: that
\* no half-written image is taken for a good one.
NeverHalfWritten ==
    \A c \in Copiers : At(c, "told") /\ how[c] = "push" => \A d \in Disks : image[c][d] # Torn

\* A guest that is frozen is thawed and a disk that is on a copy's overlay comes back to
\* its own image, whatever else fails on the way.
Undone == (frozen \/ OnOverlay) ~> (~frozen /\ ~OnOverlay) \/ excused
=============================================================================
