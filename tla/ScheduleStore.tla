--------------------------- MODULE ScheduleStore ---------------------------
(***************************************************************************)
(* The backup schedules of virtPilot: one JSON file for all VMs, rewritten *)
(* as a whole by every save (services/backupService.ts), the scheduler     *)
(* that fires what is due every minute (services/backupSchedulerService.ts)*)
(* and the requests that edit and delete schedules (routes/backups.ts).    *)
(*                                                                         *)
(* Saves queue up behind one another in a chain of promises; what a save   *)
(* writes may have been read long before it got its turn.                  *)
(***************************************************************************)
EXTENDS Integers, Sequences, FiniteSets

CONSTANTS
    Vms,
    Legacy,         \* VMs whose schedule, if any, an older build has written
    Slots,          \* runs that can be under way for one VM at once
    Operators,      \* requests that can be under way at once
    MaxTime,        \* bound: minutes that pass
    MaxEdits,       \* bound: edits and deletions by operators
    MaxFaults       \* bound: failing reads and writes of the file, and restarts

ASSUME StoreAssumption ==
    /\ Vms # {} /\ IsFiniteSet(Vms) /\ Legacy \subseteq Vms
    /\ MaxTime \in Nat /\ MaxEdits \in Nat /\ MaxFaults \in Nat
    /\ Operators \cap (Vms \X Slots) = {}

Runs == Vms \X Slots
Workers == Runs \cup Operators

Never == 0                          \* nextRunAt is null
Outcomes == {"none", "success", "error"}

\* A schedule: enabled, nextRunAt, the operator's settings as the number of the
\* edit they come from, whether its frequency is one computeNextRunAt knows, and
\* lastRunStatus.
Schedule == [on : BOOLEAN, next : Nat, edit : Nat, known : BOOLEAN, outcome : Outcomes]

VARIABLES
    store,          \* the file: a schedule for each VM that has one
    now,            \* the minute it is
    edits,          \* edits and deletions asked for so far
    faults,         \* failures of the file and restarts so far
    tick,           \* whether the scheduler has read the file
    due,            \* what it read
    queue,          \* the chain of saves; its head holds the lock
    pc,             \* pc[w]: what w waits for
    job,            \* job[w]: what its save is for
    vm,             \* vm[o]: the VM an operator's request is about
    mine,           \* mine[w]: the schedule w is about to save
    out             \* out[w]: the whole file w is about to write

file == <<store, edits, faults>>
timer == <<tick, due>>
locals == <<job, vm, mine, out>>
vars == <<store, now, edits, faults, tick, due, queue, pc, job, vm, mine, out>>

\* The JSON object as a function on the VMs that have a schedule.
IsStore(f) == DOMAIN f \subseteq Vms /\ f \in [DOMAIN f -> Schedule]
Empty == [v \in {} |-> {}]
With(all, v, s) == [u \in DOMAIN all \cup {v} |-> IF u = v THEN s ELSE all[u]]
\* Seeded fault: the entry is emptied, not removed.
WithoutLeavesNull(all, v) == With(all, v, <<>>)
Without(all, v) == [u \in DOMAIN all \ {v} |-> all[u]]
Entry(all, v) == IF v \in DOMAIN all THEN {all[v]} ELSE {}

VmOf(w) == IF w \in Runs THEN w[1] ELSE vm[w]

NoSchedule == [on |-> FALSE, next |-> Never, edit |-> 0, known |-> TRUE, outcome |-> "none"]

\* A store left by earlier use: what schedules there are came due while the
\* backend was down, and an older build's has a frequency that is not known now.
Init ==
    /\ \E S \in SUBSET Vms :
          store = [v \in S |->
                      [NoSchedule EXCEPT !.on = TRUE, !.next = 1, !.known = v \notin Legacy]]
    /\ now = 1
    /\ edits = 0
    /\ faults = 0
    /\ tick = "idle"
    /\ due = Empty
    /\ queue = <<>>
    /\ pc = [w \in Workers |-> "idle"]
    /\ job = [w \in Workers |-> "none"]
    /\ vm = [o \in Operators |-> CHOOSE v \in Vms : TRUE]
    /\ mine = [w \in Workers |-> NoSchedule]
    /\ out = [w \in Workers |-> Empty]

\* Something goes wrong.
Fault == faults < MaxFaults /\ faults' = faults + 1

\* computeNextRunAt: strictly in the future.
NextRun == now + 1

(***************************************************************************)
(* The chain of saves: withScheduleLock.                                   *)
(***************************************************************************)

\* The call is over: its locals are gone.
Done(w, a) == /\ pc' = [pc EXCEPT ![w] = a]
              /\ out' = [out EXCEPT ![w] = Empty]
              /\ mine' = [mine EXCEPT ![w] = NoSchedule]
              /\ job' = [job EXCEPT ![w] = "none"]
              /\ UNCHANGED vm

\* updateSchedule's build for an edit: what the operator sets, with the record
\* of the last run carried over from the stored schedule.
Edited(w, all) ==
    LET v == VmOf(w)
    IN  [mine[w] EXCEPT !.next = NextRun,
                        !.outcome = IF v \in DOMAIN all THEN all[v].outcome ELSE "none"]

\* What a save makes of the file it has read.
NewStore(w, all) ==
    CASE job[w] = "edit" -> With(all, VmOf(w), Edited(w, all))
      [] job[w] = "delete" -> Without(all, VmOf(w))
      [] OTHER -> With(all, VmOf(w), mine[w])

\* Seeded fault: saves do not wait for one another.
LockReadAtOnce(w) ==
    /\ pc[w] = "queued"
    /\ pc' = [pc EXCEPT ![w] = "writing"]
    /\ out' = [out EXCEPT ![w] = NewStore(w, store)]
    /\ UNCHANGED <<file, now, timer, queue, job, vm, mine>>

\* The save has its turn, and reads the file.
LockRead(w) ==
    /\ queue # <<>> /\ Head(queue) = w /\ pc[w] = "queued"
    /\ pc' = [pc EXCEPT ![w] = "writing"]
    /\ out' = [out EXCEPT ![w] = NewStore(w, store)]
    /\ UNCHANGED <<file, now, timer, queue, job, vm, mine>>

\* writeFile to a temporary name, and the rename that makes it the store.
LockWrite(w) ==
    /\ pc[w] = "writing"
    /\ store' = out[w]
    /\ queue' = Tail(queue)
    /\ Done(w, IF job[w] = "mark" THEN "backup" ELSE "idle")
    /\ UNCHANGED <<now, edits, faults, timer>>

\* Seeded fault: a rejection breaks the chain.
LockFailBreaksChain(w) ==
    /\ queue # <<>> /\ Head(queue) = w /\ pc[w] \in {"queued", "writing"}
    /\ Fault
    /\ Done(w, "idle")
    /\ UNCHANGED <<store, now, edits, timer, queue>>

\* The read or the write throws: the caller gives up and the chain goes on.
LockFail(w) ==
    /\ queue # <<>> /\ Head(queue) = w /\ pc[w] \in {"queued", "writing"}
    /\ Fault
    /\ queue' = Tail(queue)
    /\ Done(w, "idle")
    /\ UNCHANGED <<store, now, edits, timer>>

(***************************************************************************)
(* The scheduler: tick and runScheduledBackup.                             *)
(***************************************************************************)

Minute == /\ now < MaxTime
          /\ now' = now + 1
          /\ UNCHANGED <<file, timer, queue, pc, locals>>

\* tick reads the file; a file that cannot be read is left to the next tick.
TickRead ==
    /\ tick = "idle"
    /\ \/ /\ due' = store /\ tick' = "read" /\ UNCHANGED faults
       \/ /\ Fault /\ UNCHANGED timer
    /\ UNCHANGED <<store, now, edits, queue, pc, locals>>

IsDue(s) == s.on /\ s.next # Never /\ s.next <= now

\* The save runScheduledBackup begins with: the next run, so that the backup is
\* not fired twice, or the end of a schedule that has none.
Marked(s) == IF s.known THEN [s EXCEPT !.next = NextRun]
             ELSE [s EXCEPT !.on = FALSE, !.next = Never]

\* Everything due is fired in one go, in the order of the file.  (The model waits
\* with it while a VM that is due has no free run left: a bound.)
TickFire ==
    LET fired == {v \in DOMAIN due : IsDue(due[v])}
        n == Cardinality(fired)
    IN  /\ tick = "read"
        /\ tick' = "idle"
        /\ due' = Empty
        /\ \E r \in [1 .. n -> {w \in Runs : w[1] \in fired /\ pc[w] = "idle"}] :
              LET started == {r[i] : i \in 1 .. n}
              IN  /\ \A i, j \in 1 .. n : i # j => r[i][1] # r[j][1]
                  /\ queue' = queue \o r
                  /\ pc' = [w \in Workers |-> IF w \in started THEN "queued" ELSE pc[w]]
                  /\ mine' = [w \in Workers |->
                                 IF w \in started THEN Marked(due[w[1]]) ELSE mine[w]]
                  /\ job' = [w \in Workers |->
                                 IF w \in started
                                 THEN IF due[w[1]].known THEN "mark" ELSE "disable"
                                 ELSE job[w]]
        /\ UNCHANGED <<file, now, vm, out>>

\* createBackup ends, one way or the other.
Backup(w) ==
    /\ pc[w] = "backup"
    /\ pc' = [pc EXCEPT ![w] = "record"]
    /\ \E o \in {"success", "error"} : mine' = [mine EXCEPT ![w].outcome = o]
    /\ UNCHANGED <<file, now, timer, queue, job, vm, out>>

\* recordOutcome: reads the schedule again, and saves it with the outcome.
RecordOutcome(w) ==
    /\ pc[w] = "record"
    /\ \/ /\ w[1] \in DOMAIN store
          /\ mine' = [mine EXCEPT ![w] = [store[w[1]] EXCEPT !.outcome = mine[w].outcome]]
          /\ job' = [job EXCEPT ![w] = "outcome"]
          /\ pc' = [pc EXCEPT ![w] = "queued"]
          /\ queue' = Append(queue, w)
          /\ UNCHANGED <<vm, out, faults>>
       \/ /\ w[1] \notin DOMAIN store
          /\ Done(w, "idle")
          /\ UNCHANGED <<queue, faults>>
       \/ /\ Fault
          /\ Done(w, "idle")
          /\ UNCHANGED queue
    /\ UNCHANGED <<store, now, edits, timer>>

(***************************************************************************)
(* The operators, and the specification.                                   *)
(***************************************************************************)

\* Seeded fault: the schedule to preserve is read before the save has its turn.
AskEarly(o) ==
    \E v \in Vms, on \in BOOLEAN, kind \in {"edit", "delete"} :
        /\ pc[o] = "idle" /\ edits < MaxEdits
        /\ kind = "delete" => ~on
        /\ edits' = edits + 1
        /\ vm' = [vm EXCEPT ![o] = v]
        /\ job' = [job EXCEPT ![o] = IF kind = "edit" THEN "outcome" ELSE kind]
        /\ mine' = [mine EXCEPT ![o] =
                       [NoSchedule EXCEPT !.on = on, !.edit = edits + 1, !.next = NextRun,
                           !.outcome = IF v \in DOMAIN store THEN store[v].outcome ELSE "none"]]
        /\ queue' = Append(queue, o)
        /\ pc' = [pc EXCEPT ![o] = "queued"]
        /\ UNCHANGED <<store, now, faults, timer, out>>

\* PUT and DELETE /schedules/:vmUuid.
Ask(o) ==
    \E v \in Vms, on \in BOOLEAN, kind \in {"edit", "delete"} :
        /\ pc[o] = "idle" /\ edits < MaxEdits
        /\ kind = "delete" => ~on
        /\ edits' = edits + 1
        /\ vm' = [vm EXCEPT ![o] = v]
        /\ job' = [job EXCEPT ![o] = kind]
        /\ mine' = [mine EXCEPT ![o] = [NoSchedule EXCEPT !.on = on, !.edit = edits + 1]]
        /\ queue' = Append(queue, o)
        /\ pc' = [pc EXCEPT ![o] = "queued"]
        /\ UNCHANGED <<store, now, faults, timer, out>>

\* The backend restarts: the file stays, everything else is forgotten.
Restart ==
    /\ tick # "idle" \/ \E w \in Workers : pc[w] # "idle"
    /\ Fault
    /\ tick' = "idle"
    /\ due' = Empty
    /\ queue' = <<>>
    /\ pc' = [w \in Workers |-> "idle"]
    /\ job' = [w \in Workers |-> "none"]
    /\ mine' = [w \in Workers |-> NoSchedule]
    /\ out' = [w \in Workers |-> Empty]
    /\ UNCHANGED <<store, edits, now, vm>>

SaveStep(w) == LockRead(w) \/ LockWrite(w) \/ LockFail(w)
RunStep(w) == Backup(w) \/ RecordOutcome(w)
Tick == TickRead \/ TickFire

Next ==
    \/ Minute \/ Tick
    \/ \E w \in Workers : SaveStep(w)
    \/ \E w \in Runs : RunStep(w)
    \/ \E o \in Operators : Ask(o)
    \/ Restart

Spec == Init /\ [][Next]_vars

\* The timer goes off every minute, saves get their turn and reads, writes and
\* backups end.
FairSpec == /\ Spec
            /\ WF_vars(Tick)
            /\ \A w \in Workers : WF_vars(SaveStep(w))
            /\ \A w \in Runs : WF_vars(RunStep(w))

(***************************************************************************)
(* Properties.                                                             *)
(***************************************************************************)

TypeOK ==
    /\ IsStore(store) /\ IsStore(due)
    /\ now \in Nat /\ edits \in Nat /\ faults \in Nat
    /\ tick \in {"idle", "read"}
    /\ queue \in Seq(Workers)
    /\ pc \in [Workers -> {"idle", "queued", "writing", "backup", "record"}]
    /\ job \in [Workers -> {"none", "mark", "disable", "outcome", "edit", "delete"}]
    /\ vm \in [Operators -> Vms]
    /\ mine \in [Workers -> Schedule]
    /\ DOMAIN out = Workers /\ \A w \in Workers : IsStore(out[w])

\* A save changes the schedule of its own VM only, although it writes the whole
\* file: two saves of different VMs cannot revert one another, and a failed read
\* never empties the store (the comments on readSchedules and scheduleWriteQueue).
OwnEntryOnly ==
    [][\A v \in Vms : Entry(store', v) # Entry(store, v) =>
          \E w \in Workers : pc[w] = "writing" /\ pc'[w] # "writing" /\ VmOf(w) = v]_vars

\* Saving an edit never changes the record of how the last run ended, even when
\* a run records its outcome while the edit waits for its turn.
EditKeepsOutcome ==
    [][\A o \in Operators :
          LET v == vm[o]
          IN  /\ pc[o] = "writing" /\ pc'[o] = "idle"
              /\ v \in DOMAIN store /\ v \in DOMAIN store'
              => store'[v].outcome = store[v].outcome]_vars

\* A schedule that is due does not stay due: it is fired and gets a next run, or
\* it is disabled, in spite of failing reads, failing saves and restarts ("a
\* schedule never silently skips", README).
DueIsHandled ==
    \A v \in Vms : (v \in DOMAIN store /\ IsDue(store[v]))
                    ~> ~(v \in DOMAIN store /\ IsDue(store[v]))

=============================================================================
