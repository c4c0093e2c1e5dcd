------------------------------ MODULE DiskMove ------------------------------
(***************************************************************************)
(* Moving a VM's disk to another storage directory, and everything else    *)
(* that touches that disk meanwhile: starts, restores over it, deletions,  *)
(* the guest's own writes, and what is done to the VM without virtPilot    *)
(* (routes/vms.ts, services/storageService.ts, services/vmService.ts).     *)
(*                                                                         *)
(* One VM with one disk.  Where the disk is is recorded three times: the   *)
(* file itself, the row of vm_disk_locations and the domain definition.    *)
(* A file's content is a number, higher for later writes.                  *)
(***************************************************************************)
EXTENDS Integers

CONSTANTS
    Dirs,           \* storage directories for VM disks
    Home,           \* the default one, where the disk is at first
    Movers,         \* requests to move the disk
    Callers,        \* requests to start, restore over or delete the VM
    Nobody,         \* holds the VM when no request does
    Nowhere,        \* no row, no definition, not running
    Gone,           \* the guest runs on a file with no name any more
    MaxVersion,     \* bound: writes to the disk
    MaxFaults       \* bound: failing calls and restarts

ASSUME DiskAssumption ==
    /\ Home \in Dirs
    /\ Nobody \notin Movers \cup Callers /\ Movers \cap Callers = {}
    /\ Nowhere \notin Dirs /\ Gone \notin Dirs /\ Nowhere # Gone
    /\ MaxVersion \in Nat \ {0} /\ MaxFaults \in Nat

VARIABLES
    far,            \* the directories are on different filesystems
    disk,           \* disk[d]: the content of the file in d, 0 = no file
    half,           \* directories whose file is a copy that is not finished
    row,            \* the disk's row in vm_disk_locations
    xml,            \* the directory the saved definition names
    guest,          \* the directory of the file the running guest has open
    hold,           \* vmHolds: the request that holds the VM
    pc,             \* pc[w]: what request w does next
    from, to,       \* the plan of a move
    way,            \* way[m]: "there", or back as an "undo" or a "rollback"
    defined,        \* defined[m]: the VM was defined when the move began
    seen,           \* seen[m]: the source's content when the copy began
    where,          \* where[c]: the directory a restore writes to
    tmp,            \* tmp[d]: the restore whose image is being written beside d's file
    faults,
    latest,         \* history: the newest content the disk was given
    wanted,         \* history: nobody has deleted the disk
    crossed,        \* history: something got between a check and what it was for
    torn            \* history: a move ended half done

plan == <<from, to, way, defined, seen>>
host == <<disk, half, guest>>
records == <<row, xml>>
restoring == <<where, tmp>>
history == <<latest, wanted, crossed, torn>>
vars == <<far, disk, half, row, xml, guest, hold, pc, from, to, way, defined,
          seen, where, tmp, faults, latest, wanted, crossed, torn>>

Places == Dirs \cup {Nowhere}
Workers == Movers \cup Callers

Init ==
    /\ far \in BOOLEAN
    /\ disk = [d \in Dirs |-> IF d = Home THEN 1 ELSE 0]
    /\ half = {}
    /\ row = Home
    /\ xml = Home
    /\ guest \in {Home, Nowhere}
    /\ hold = Nobody
    /\ pc = [w \in Workers |-> "idle"]
    /\ from = [m \in Movers |-> Home]
    /\ to = [m \in Movers |-> Home]
    /\ way = [m \in Movers |-> "there"]
    /\ defined = [m \in Movers |-> TRUE]
    /\ seen = [m \in Movers |-> 0]
    /\ where = [c \in Callers |-> Home]
    /\ tmp = [d \in Dirs |-> Nobody]
    /\ faults = 0
    /\ latest = 1
    /\ wanted = TRUE
    /\ crossed = FALSE
    /\ torn = FALSE

Fault == faults < MaxFaults /\ faults' = faults + 1
Goto(w, a) == pc' = [pc EXCEPT ![w] = a]

\* The guest's file loses its name d.
Unnamed(d) == IF guest = d THEN Gone ELSE guest

\* A caller that has begun may act under what begins now.
Crossing == /\ crossed' = (crossed \/ \E c \in Callers : pc[c] # "idle")
            /\ UNCHANGED <<latest, wanted, torn>>

(***************************************************************************)
(* POST /:uuid/disk-files/:filename/move.                                  *)
(***************************************************************************)

\* The finally clause of the route: the hold is let go and the request is over.
Done(m) == /\ pc' = [pc EXCEPT ![m] = "idle"]
           /\ hold' = Nobody
           /\ from' = [from EXCEPT ![m] = Home]
           /\ to' = [to EXCEPT ![m] = Home]
           /\ way' = [way EXCEPT ![m] = "there"]
           /\ defined' = [defined EXCEPT ![m] = TRUE]
           /\ seen' = [seen EXCEPT ![m] = 0]
Refuse(m) == Done(m) /\ UNCHANGED <<far, host, records, restoring, history>>

\* Seeded fault: a hold that is there is taken over.
AskAgain(m, e) ==
    /\ pc[m] = "idle"
    /\ hold' = m
    /\ to' = [to EXCEPT ![m] = e]
    /\ Goto(m, "look")
    /\ Crossing
    /\ UNCHANGED <<far, host, records, from, way, defined, seen, restoring, faults>>

\* holdVm, before anything is awaited.
Ask(m, e) ==
    /\ pc[m] = "idle"
    /\ hold = Nobody
    /\ hold' = m
    /\ to' = [to EXCEPT ![m] = e]
    /\ Goto(m, "look")
    /\ Crossing
    /\ UNCHANGED <<far, host, records, from, way, defined, seen, restoring, faults>>

\* findVm: the VM must be off if there is one.
Look(m) ==
    /\ pc[m] = "look"
    /\ IF guest # Nowhere
         THEN Refuse(m) /\ UNCHANGED faults
         ELSE /\ defined' = [defined EXCEPT ![m] = xml # Nowhere]
              /\ Goto(m, "plan")
              /\ UNCHANGED <<far, host, records, hold, from, to, way, seen, restoring, faults, history>>

\* planVmDiskMove.
Plan(m) ==
    /\ pc[m] = "plan"
    /\ IF row # Nowhere /\ to[m] # row /\ disk[row] # 0 /\ disk[to[m]] = 0
         THEN /\ from' = [from EXCEPT ![m] = row]
              /\ Goto(m, IF defined[m] THEN "dryrun" ELSE "move")
              /\ UNCHANGED <<far, host, records, hold, to, way, defined, seen, restoring, faults, history>>
         ELSE Refuse(m) /\ UNCHANGED faults

\* buildReplacedDiskSourceXml, to refuse now rather than after the copy.
DryRun(m) ==
    /\ pc[m] = "dryrun"
    /\ IF xml = from[m]
         THEN /\ Goto(m, "move")
              /\ UNCHANGED <<far, host, records, hold, plan, restoring, faults, history>>
         ELSE Refuse(m) /\ UNCHANGED faults

\* Any of these calls fails: nothing has been touched yet.
EarlyFail(m) == /\ pc[m] \in {"look", "plan", "dryrun", "move"}
                /\ way[m] = "there"
                /\ Fault
                /\ Refuse(m)

(***************************************************************************)
(* moveCrossFs, called there and back: rename, or copy and delete.         *)
(***************************************************************************)

Src(m) == IF way[m] = "there" THEN from[m] ELSE to[m]
Dst(m) == IF way[m] = "there" THEN to[m] ELSE from[m]

\* What its caller does next, with the file moved and without.
Moved(m) ==
    CASE way[m] = "there" -> Goto(m, "record") /\ UNCHANGED <<hold, plan>>
      [] way[m] = "undo" -> Done(m)
      [] way[m] = "rollback" -> Goto(m, "rerecord") /\ UNCHANGED <<hold, plan>>
NotMoved(m) == /\ Done(m)
               /\ torn' = (torn \/ way[m] # "there")
               /\ UNCHANGED <<latest, wanted, crossed>>

Rename(m) ==
    /\ pc[m] = "move" /\ ~far /\ disk[Src(m)] # 0
    /\ disk' = [disk EXCEPT ![Dst(m)] = disk[Src(m)], ![Src(m)] = 0]
    /\ half' = {IF d = Src(m) THEN Dst(m) ELSE d : d \in half \ {Dst(m)}}
    /\ guest' = IF guest = Src(m) THEN Dst(m) ELSE Unnamed(Dst(m))
    /\ Moved(m)
    /\ UNCHANGED <<far, records, restoring, faults, history>>

\* Seeded fault: waits for the file to come, or for the other one to go.
WaitToMove(m) ==
    /\ pc[m] = "move"
    /\ disk[Src(m)] = 0 \/ (far /\ disk[Dst(m)] # 0)
    /\ UNCHANGED vars

\* The source has no file, or the copy meets one that is there.
CannotMove(m) ==
    /\ pc[m] = "move"
    /\ disk[Src(m)] = 0 \/ (far /\ disk[Dst(m)] # 0)
    /\ NotMoved(m)
    /\ UNCHANGED <<far, host, records, restoring, faults>>

Copy(m) ==
    /\ pc[m] = "move" /\ far /\ disk[Src(m)] # 0 /\ disk[Dst(m)] = 0
    /\ seen' = [seen EXCEPT ![m] = disk[Src(m)]]
    /\ disk' = [disk EXCEPT ![Dst(m)] = disk[Src(m)]]
    /\ half' = half \cup {Dst(m)}
    /\ Goto(m, "copying")
    /\ UNCHANGED <<far, records, guest, hold, from, to, way, defined, restoring, faults, history>>

\* The copy is thrown away, unless even that fails.
ThrowAway(m) ==
    /\ \/ /\ disk' = [disk EXCEPT ![Dst(m)] = 0]
          /\ half' = half \ {Dst(m)}
          /\ guest' = Unnamed(Dst(m))
       \/ UNCHANGED host
    /\ NotMoved(m)
    /\ UNCHANGED <<far, records, restoring>>

\* Seeded fault: what was written to the source meanwhile goes unnoticed.
CopiedUnchecked(m) ==
    /\ pc[m] = "copying"
    /\ half' = half \ {Dst(m)}
    /\ Goto(m, IF way[m] = "there" THEN "lastlook" ELSE "unlink")
    /\ UNCHANGED <<far, disk, guest, records, hold, plan, restoring, faults, history>>

\* The copy is on the disk, and the source is as it was when it began.
Copied(m) ==
    /\ pc[m] = "copying"
    /\ IF disk[Src(m)] = seen[m]
         THEN /\ half' = IF Src(m) \in half THEN half ELSE half \ {Dst(m)}
              /\ Goto(m, IF way[m] = "there" THEN "lastlook" ELSE "unlink")
              /\ UNCHANGED <<far, disk, guest, records, hold, plan, restoring, faults, history>>
         ELSE ThrowAway(m) /\ UNCHANGED faults

\* beforeOriginalGoes: started from outside during the copy?
LastLook(m) ==
    /\ pc[m] = "lastlook"
    /\ IF guest = Nowhere
         THEN /\ Goto(m, "unlink")
              /\ UNCHANGED <<far, host, records, hold, plan, restoring, faults, history>>
         ELSE ThrowAway(m) /\ UNCHANGED faults

CopyFail(m) == /\ pc[m] \in {"copying", "lastlook"}
               /\ Fault
               /\ ThrowAway(m)

Unlink(m) ==
    /\ pc[m] = "unlink" /\ disk[Src(m)] # 0
    /\ disk' = [disk EXCEPT ![Src(m)] = 0]
    /\ guest' = Unnamed(Src(m))
    /\ Moved(m)
    /\ UNCHANGED <<far, half, records, restoring, faults, history>>

\* Outside the try that throws the copy away: both files stay.
UnlinkFail(m) ==
    /\ pc[m] = "unlink"
    /\ Fault \/ (disk[Src(m)] = 0 /\ UNCHANGED faults)
    /\ NotMoved(m)
    /\ UNCHANGED <<far, host, records, restoring>>

\* executeVmDiskMove: the row, or the file goes back.
Record(m) ==
    /\ pc[m] = "record"
    /\ row' = to[m]
    /\ IF defined[m] THEN Goto(m, "dumpxml") /\ UNCHANGED <<hold, plan>> ELSE Done(m)
    /\ UNCHANGED <<far, host, xml, restoring, faults, history>>

Back(m, why) == /\ way' = [way EXCEPT ![m] = why]
                /\ Goto(m, "move")
                /\ UNCHANGED <<far, host, records, hold, from, to, defined, seen, restoring, history>>

RecordFail(m) == pc[m] = "record" /\ Fault /\ Back(m, "undo")

\* The definition is read again, and written back naming the new path.
DumpXml(m) ==
    /\ pc[m] = "dumpxml"
    /\ IF xml = from[m]
         THEN /\ Goto(m, "define")
              /\ UNCHANGED <<far, host, records, hold, plan, restoring, history>>
         ELSE Back(m, "rollback")
    /\ UNCHANGED faults

Define(m) ==
    /\ pc[m] = "define"
    /\ xml' = to[m]
    /\ Done(m)
    /\ UNCHANGED <<far, host, row, restoring, faults, history>>

\* Seeded fault: a definition that is refused leaves the disk restoring it went.
DefineGivesUp(m) == /\ pc[m] \in {"dumpxml", "define"}
                    /\ Fault
                    /\ Refuse(m)

DefineFail(m) == pc[m] \in {"dumpxml", "define"} /\ Fault /\ Back(m, "rollback")

\* rollbackVmDiskMove: the file is back, and now its row.
Rerecord(m) ==
    /\ pc[m] = "rerecord"
    /\ \/ row' = from[m] /\ torn' = torn /\ UNCHANGED faults
       \/ row' = row /\ torn' = TRUE /\ Fault
    /\ Done(m)
    /\ UNCHANGED <<far, host, xml, restoring, latest, wanted, crossed>>

MoveStep(m) ==
    \/ Look(m) \/ Plan(m) \/ DryRun(m) \/ EarlyFail(m)
    \/ Rename(m) \/ CannotMove(m)
    \/ Copy(m) \/ Copied(m) \/ LastLook(m) \/ CopyFail(m) \/ Unlink(m) \/ UnlinkFail(m)
    \/ Record(m) \/ RecordFail(m) \/ DumpXml(m) \/ Define(m) \/ DefineFail(m) \/ Rerecord(m)

(***************************************************************************)
(* Starting, restoring over and deleting the VM.                           *)
(***************************************************************************)

Jobs == {"start", "restore", "delete", "orphan"}

\* Seeded fault: nothing asks whether the VM is held.
BeginUnasked(c, job) ==
    /\ pc[c] = "idle"
    /\ Goto(c, job)
    /\ Crossing
    /\ UNCHANGED <<far, host, records, hold, plan, restoring, faults>>

\* heldBecause, and then the first of many awaits.
Begin(c, job) ==
    /\ pc[c] = "idle"
    /\ hold = Nobody
    /\ Goto(c, job)
    /\ Crossing
    /\ UNCHANGED <<far, host, records, hold, plan, restoring, faults>>

Over(c) == /\ pc' = [pc EXCEPT ![c] = "idle"]
           /\ where' = [where EXCEPT ![c] = Home]

Bootable == guest = Nowhere /\ xml # Nowhere /\ disk[xml] # 0

\* startDomain, past its check.
Start(c) ==
    /\ pc[c] = "start"
    /\ guest' = IF Bootable THEN xml ELSE guest
    /\ Goto(c, "idle")
    /\ UNCHANGED <<far, disk, half, records, hold, plan, restoring, faults, history>>

\* restoreBackup: the VM must be off, and each disk goes where its row says.
RestoreLook(c) ==
    /\ pc[c] = "restore"
    /\ Goto(c, IF guest = Nowhere THEN "place" ELSE "idle")
    /\ UNCHANGED <<far, host, records, hold, plan, restoring, faults, history>>

\* Seeded fault: no default for a disk without a row.
PlaceByRow(c) ==
    /\ pc[c] = "place"
    /\ where' = [where EXCEPT ![c] = row]
    /\ Goto(c, "convert")
    /\ UNCHANGED <<far, host, records, hold, plan, tmp, faults, history>>

RestorePlace(c) ==
    /\ pc[c] = "place"
    /\ where' = [where EXCEPT ![c] = IF row = Nowhere THEN Home ELSE row]
    /\ Goto(c, "convert")
    /\ UNCHANGED <<far, host, records, hold, plan, tmp, faults, history>>

\* materialiseBackupDisk: a new file beside the disk, in place of one there.
Convert(c) ==
    /\ pc[c] = "convert"
    /\ tmp' = [tmp EXCEPT ![where[c]] = c]
    /\ Goto(c, "put")
    /\ UNCHANGED <<far, host, records, hold, plan, where, faults, history>>

\* The file of that name takes the disk's place, whoever is writing it.  One
\* put in place unfinished is finished when its own restore gets here.
Put(c) ==
    LET d == where[c]
    IN  /\ pc[c] = "put"
        /\ IF tmp[d] = Nobody
             THEN /\ half' = half \ {d}
                  /\ Over(c)
                  /\ UNCHANGED <<disk, guest, tmp, history>>
             ELSE /\ latest < MaxVersion
                  /\ disk' = [disk EXCEPT ![d] = latest + 1]
                  /\ half' = IF tmp[d] = c THEN half \ {d} ELSE half \cup {d}
                  /\ guest' = Unnamed(d)
                  /\ tmp' = [tmp EXCEPT ![d] = Nobody]
                  /\ latest' = latest + 1
                  /\ wanted' = TRUE
                  /\ Goto(c, "row")
                  /\ UNCHANGED <<where, crossed, torn>>
        /\ UNCHANGED <<far, records, hold, plan, faults>>

PutRow(c) ==
    /\ pc[c] = "row"
    /\ row' = where[c]
    /\ Over(c)
    /\ UNCHANGED <<far, host, xml, hold, plan, tmp, faults, history>>

\* deleteVm: destroy, then undefine; the disk goes with it or stays.
Undefine(c) ==
    /\ pc[c] = "delete"
    /\ guest' = Nowhere
    /\ xml' = Nowhere
    /\ \E next \in {"files", "idle"} : Goto(c, next)
    /\ UNCHANGED <<far, disk, half, row, hold, plan, restoring, faults, history>>

\* DELETE /disks/:uuid is for the disks of a VM libvirt does not know.
OrphanLook(c) ==
    /\ pc[c] = "orphan"
    /\ Goto(c, IF xml = Nowhere /\ guest = Nowhere THEN "files" ELSE "idle")
    /\ UNCHANGED <<far, host, records, hold, plan, restoring, faults, history>>

\* deleteVmDir.
DeleteFiles(c) ==
    /\ pc[c] = "files"
    /\ IF row = Nowhere
         THEN UNCHANGED <<host, row, history>>
         ELSE /\ disk' = [disk EXCEPT ![row] = 0]
              /\ half' = half \ {row}
              /\ guest' = Unnamed(row)
              /\ row' = Nowhere
              /\ wanted' = FALSE
              /\ UNCHANGED <<latest, crossed, torn>>
    /\ Goto(c, "idle")
    /\ UNCHANGED <<far, xml, hold, plan, restoring, faults>>

CallFail(c) ==
    /\ pc[c] # "idle"
    /\ Fault
    /\ tmp' = IF pc[c] = "put" THEN [tmp EXCEPT ![where[c]] = Nobody] ELSE tmp
    /\ Over(c)
    /\ UNCHANGED <<far, host, records, hold, plan, history>>

CallStep(c) ==
    \/ Start(c)
    \/ RestoreLook(c) \/ RestorePlace(c) \/ Convert(c) \/ Put(c) \/ PutRow(c)
    \/ Undefine(c) \/ OrphanLook(c) \/ DeleteFiles(c)
    \/ CallFail(c)

(***************************************************************************)
(* The guest, the operator at a shell, and restarts of the backend.        *)
(***************************************************************************)

\* A move has taken its last look, or is on its way back.
Exposed == \E m \in Movers : pc[m] = "unlink" \/ way[m] # "there"

\* virsh start, or autostart: no hold stops it.
OutsideStart ==
    /\ Bootable
    /\ guest' = xml
    /\ crossed' = (crossed \/ Exposed \/ \E c \in Callers : pc[c] # "idle")
    /\ UNCHANGED <<far, disk, half, records, hold, pc, plan, restoring, faults, latest, wanted, torn>>

OutsideUndefine ==
    /\ xml # Nowhere
    /\ xml' = Nowhere
    /\ UNCHANGED <<far, host, row, hold, pc, plan, restoring, faults, history>>

\* What a guest wrote after the copy was compared goes unseen if it is off again
\* at the last look.
Stop ==
    /\ guest # Nowhere
    /\ guest' = Nowhere
    /\ crossed' = (crossed \/ \E m \in Movers : pc[m] = "lastlook")
    /\ UNCHANGED <<far, disk, half, records, hold, pc, plan, restoring, faults, latest, wanted, torn>>

\* The guest writes; on a copy that is not finished it has nothing to add to.
Write ==
    /\ guest \notin half \cup {Nowhere} /\ latest < MaxVersion
    /\ latest' = latest + 1
    /\ disk' = IF guest \in Dirs THEN [disk EXCEPT ![guest] = latest + 1] ELSE disk
    /\ UNCHANGED <<far, half, guest, records, hold, pc, plan, restoring, faults, wanted, crossed, torn>>

\* The file has moved and the records have not, or it is on its way back.
Split(m) == pc[m] \in {"record", "dumpxml", "define", "rerecord"} \/ way[m] # "there"

\* Holds are kept in memory only.
Restart ==
    /\ Fault
    /\ pc' = [w \in Workers |-> "idle"]
    /\ hold' = Nobody
    /\ from' = [m \in Movers |-> Home]
    /\ to' = [m \in Movers |-> Home]
    /\ way' = [m \in Movers |-> "there"]
    /\ defined' = [m \in Movers |-> TRUE]
    /\ seen' = [m \in Movers |-> 0]
    /\ where' = [c \in Callers |-> Home]
    /\ tmp' = [d \in Dirs |-> Nobody]
    /\ torn' = (torn \/ \E m \in Movers : Split(m))
    /\ UNCHANGED <<far, host, records, latest, wanted, crossed>>

Next == \/ \E m \in Movers : MoveStep(m) \/ \E e \in Dirs : Ask(m, e)
        \/ \E c \in Callers : CallStep(c) \/ \E job \in Jobs : Begin(c, job)
        \/ OutsideStart \/ OutsideUndefine \/ Stop \/ Write \/ Restart

Spec == Init /\ [][Next]_vars

\* The event loop goes on with a move whose call has been answered.
FairSpec == Spec /\ \A m \in Movers : WF_vars(MoveStep(m))

(***************************************************************************)
(* Properties.                                                             *)
(***************************************************************************)

MovePC == {"idle", "look", "plan", "dryrun", "move", "copying", "lastlook", "unlink",
           "record", "dumpxml", "define", "rerecord"}
CallPC == {"idle", "place", "convert", "put", "row", "files"} \cup Jobs

\* Every variable has its type.
TypeOK ==
    /\ far \in BOOLEAN
    /\ disk \in [Dirs -> 0 .. MaxVersion] /\ half \subseteq Dirs
    /\ row \in Places /\ xml \in Places
    /\ guest \in Places \cup {Gone}
    /\ hold \in Movers \cup {Nobody}
    /\ pc \in [Workers -> MovePC \cup CallPC]
    /\ \A m \in Movers : pc[m] \in MovePC
    /\ \A c \in Callers : pc[c] \in CallPC
    /\ from \in [Movers -> Dirs] /\ to \in [Movers -> Dirs]
    /\ way \in [Movers -> {"there", "undo", "rollback"}]
    /\ defined \in [Movers -> BOOLEAN]
    /\ seen \in [Movers -> 0 .. MaxVersion]
    /\ where \in [Callers -> Dirs]
    /\ tmp \in [Dirs -> Callers \cup {Nobody}]
    /\ faults \in 0 .. MaxFaults
    /\ latest \in 0 .. MaxVersion
    /\ wanted \in BOOLEAN /\ crossed \in BOOLEAN /\ torn \in BOOLEAN

\* The hold means one move at a time, and only while it is held: whatever else
\* happens, a move under way is the holder's (holdVm and the route's finally).
HolderMoves == \A m \in Movers : pc[m] # "idle" <=> hold = m

\* What was last written to the disk is in a finished file of some directory,
\* through failing calls, starts from outside and restarts at any point of a
\* move, as long as no request that was let through earlier acts under another.
LatestKept == wanted /\ ~crossed => \E d \in Dirs \ half : disk[d] = latest

\* With nothing under way the definition, the row and the file agree on where
\* the disk is, unless a restart or a failing rollback left a move half done:
\* the three phases of the move route, whichever of them fails.
Agree == /\ xml # Nowhere => xml = row
         /\ row # Nowhere => row \notin half /\ disk[row] = latest
Settled == ~crossed /\ ~torn /\ (\A w \in Workers : pc[w] = "idle") => Agree

\* A guest that starts, by virtPilot or from outside, opens the newest content
\* and never a copy that is not finished.
BootsLatest ==
    [][guest = Nowhere /\ guest' # Nowhere /\ ~crossed' /\ ~torn
         => guest' \notin half /\ disk[guest'] = latest]_vars

\* A VM that is held is let go: every return of the route runs its finally.
HoldEnds == \A m \in Movers : hold = m ~> hold # m

=============================================================================
