------------------------ MODULE ScheduleStore_proof ------------------------
(***************************************************************************)
(* That saves of the schedule file do not disturb one another's entries,   *)
(* for every number of VMs, runs and operators.                            *)
(***************************************************************************)
EXTENDS ScheduleStore, FiniteSetTheorems, TLAPS

\* A save only changes the entry of its own VM.
LEMMA NewStoreEntry ==
    ASSUME NEW w \in Workers, NEW all, NEW v \in Vms, v # VmOf(w)
    PROVE  Entry(NewStore(w, all), v) = Entry(all, v)
  <1>1. ASSUME NEW s, NEW u, v # u PROVE Entry(With(all, u, s), v) = Entry(all, v)
    BY <1>1 DEF With, Entry
  <1>2. ASSUME NEW u, v # u PROVE Entry(Without(all, u), v) = Entry(all, v)
    BY <1>2 DEF Without, Entry
  <1>3. NewStore(w, all) \in {With(all, VmOf(w), Edited(w, all)), Without(all, VmOf(w)),
                              With(all, VmOf(w), mine[w])}
    BY DEF NewStore
  <1> QED
    BY <1>1, <1>2, <1>3

LEMMA VmOfType ==
    ASSUME vm \in [Operators -> Vms], NEW w \in Workers
    PROVE  VmOf(w) \in Vms
  <1>1. CASE w \in Runs
    BY <1>1 DEF Runs, VmOf
  <1>2. CASE w \notin Runs
    BY <1>2 DEF Workers, VmOf
  <1> QED
    BY <1>1, <1>2

LEMMA NewStoreDomain ==
    ASSUME vm \in [Operators -> Vms], NEW w \in Workers, NEW all, DOMAIN all \subseteq Vms
    PROVE  DOMAIN NewStore(w, all) \subseteq Vms
  <1>1. VmOf(w) \in Vms
    BY VmOfType
  <1>2. ASSUME NEW s, NEW u \in Vms PROVE DOMAIN With(all, u, s) \subseteq Vms
    BY DEF With
  <1>3. ASSUME NEW u PROVE DOMAIN Without(all, u) \subseteq Vms
    BY DEF Without
  <1>4. NewStore(w, all) \in {With(all, VmOf(w), Edited(w, all)), Without(all, VmOf(w)),
                              With(all, VmOf(w), mine[w])}
    BY DEF NewStore
  <1> QED
    BY <1>1, <1>2, <1>3, <1>4

Shape == /\ queue \in Seq(Workers)
         /\ pc \in [Workers -> {"idle", "queued", "writing", "backup", "record"}]
         /\ DOMAIN out = Workers
         /\ vm \in [Operators -> Vms]
         /\ DOMAIN due \subseteq Vms
         /\ DOMAIN store \subseteq Vms

\* Whoever is writing holds the lock, and what it is about to write agrees with
\* the file on every other VM's entry.
HeadWrites == \A w \in Workers : pc[w] = "writing" => queue # <<>> /\ Head(queue) = w
Fresh == \A w \in Workers : pc[w] = "writing" =>
             /\ DOMAIN out[w] \subseteq Vms
             /\ \A v \in Vms : v # VmOf(w) => Entry(out[w], v) = Entry(store, v)

StoreInv == Shape /\ HeadWrites /\ Fresh

LEMMA StoreInit == Init => StoreInv
  <1> SUFFICES ASSUME Init PROVE StoreInv
    OBVIOUS
  <1>1. \A w \in Workers : pc[w] = "idle"
    BY DEF Init
  <1>2. vm \in [Operators -> Vms]
    <2>1. (CHOOSE v \in Vms : TRUE) \in Vms
      BY StoreAssumption
    <2> QED
      BY <2>1 DEF Init
  <1>3. Shape
    <2>1. queue = <<>> /\ due = Empty
      BY DEF Init
    <2>2. DOMAIN store \subseteq Vms
      BY DEF Init
    <2>3. pc = [w \in Workers |-> "idle"] /\ out = [w \in Workers |-> Empty]
      BY DEF Init
    <2>4. DOMAIN due \subseteq Vms
      BY <2>1 DEF Empty
    <2> QED
      BY <1>2, <2>1, <2>2, <2>3, <2>4 DEF Shape
  <1> QED
    BY <1>1, <1>3 DEF StoreInv, HeadWrites, Fresh

\* A step that starts no write keeps the invariant, if it only adds to the chain.
LEMMA WritersKept ==
    ASSUME StoreInv, Shape', store' = store, NEW r \in Seq(Workers), queue' = queue \o r,
           \A u \in Workers : pc'[u] = "writing" =>
               pc[u] = "writing" /\ out'[u] = out[u] /\ VmOf(u)' = VmOf(u)
    PROVE  StoreInv'
  <1>1. queue \in Seq(Workers)
    BY DEF StoreInv, Shape
  <1>2. queue # <<>> => queue' # <<>> /\ Head(queue') = Head(queue)
    BY <1>1
  <1>3. HeadWrites'
    BY <1>2 DEF StoreInv, HeadWrites
  <1>4. Fresh'
    BY DEF StoreInv, Fresh, Entry
  <1> QED
    BY <1>3, <1>4 DEF StoreInv

\* The end of a save leaves nobody writing.
LEMMA SaveEnds ==
    ASSUME StoreInv, Shape', NEW w \in Workers, queue # <<>>, Head(queue) = w,
           NEW a \in {"idle", "backup"}, pc' = [pc EXCEPT ![w] = a]
    PROVE  StoreInv'
  <1>1. \A u \in Workers : pc'[u] # "writing"
    BY DEF StoreInv, Shape, HeadWrites
  <1> QED
    BY <1>1 DEF StoreInv, HeadWrites, Fresh

LEMMA StoreStep == StoreInv /\ [Next]_vars => StoreInv'
  <1> SUFFICES ASSUME StoreInv, [Next]_vars PROVE StoreInv'
    OBVIOUS
  <1> USE DEF file, timer, locals
  <1>1. Shape /\ HeadWrites /\ Fresh
    BY DEF StoreInv
  <1>2. /\ pc \in [Workers -> {"idle", "queued", "writing", "backup", "record"}]
        /\ queue \in Seq(Workers) /\ DOMAIN out = Workers /\ vm \in [Operators -> Vms]
        /\ DOMAIN store \subseteq Vms /\ DOMAIN due \subseteq Vms
    BY <1>1 DEF Shape
  <1>3. <<>> \in Seq(Workers) /\ queue = queue \o <<>>
    BY <1>2
  <1>4. ASSUME UNCHANGED <<store, queue, pc, vm, out>>, due' \in {due, store, Empty}
        PROVE  StoreInv'
    <2>1. Shape'
      BY <1>1, <1>4 DEF Shape, Empty
    <2>2. \A u \in Workers : VmOf(u)' = VmOf(u)
      BY <1>4 DEF VmOf
    <2> QED
      BY <1>3, <1>4, <2>1, <2>2, WritersKept
  <1>5. CASE UNCHANGED vars
    BY <1>4, <1>5 DEF vars
  <1>6. CASE Minute
    BY <1>4, <1>6 DEF Minute
  <1>7. CASE TickRead
    BY <1>4, <1>7 DEF TickRead
  <1>8. CASE TickFire
    <2> DEFINE fired == {v \in DOMAIN due : IsDue(due[v])}
               n == Cardinality(fired)
    <2>1. n \in Nat
      <3>1. fired \subseteq Vms
        BY <1>2
      <3>2. IsFiniteSet(fired)
        BY <3>1, StoreAssumption, FS_Subset
      <3> QED
        BY <3>2, FS_CardinalityType
    <2> HIDE DEF n
    <2>2. PICK r \in [1 .. n -> {w \in Runs : w[1] \in fired /\ pc[w] = "idle"}] :
              /\ queue' = queue \o r
              /\ pc' = [w \in Workers |-> IF w \in {r[i] : i \in 1 .. n} THEN "queued" ELSE pc[w]]
      BY <1>8 DEF TickFire, n
    <2>3. r \in Seq(Workers)
      BY <2>1, <2>2 DEF Workers
    <2>4. UNCHANGED <<store, vm, out>> /\ due' = Empty
      BY <1>8 DEF TickFire
    <2>5. \A u \in Workers : VmOf(u)' = VmOf(u)
      BY <2>4 DEF VmOf
    <2>6. pc' \in [Workers -> {"idle", "queued", "writing", "backup", "record"}]
      BY <1>2, <2>2
    <2>7. Shape'
      BY <1>2, <2>2, <2>3, <2>4, <2>6 DEF Shape, Empty
    <2>8. \A u \in Workers : pc'[u] = "writing" => pc[u] = "writing"
      BY <2>2
    <2> QED
      BY <2>2, <2>3, <2>4, <2>5, <2>7, <2>8, WritersKept
  <1>9. ASSUME NEW w \in Workers, LockRead(w) PROVE StoreInv'
    <2>1. /\ queue # <<>> /\ Head(queue) = w
          /\ pc' = [pc EXCEPT ![w] = "writing"] /\ out' = [out EXCEPT ![w] = NewStore(w, store)]
          /\ UNCHANGED <<store, queue, vm, due>>
      BY <1>9 DEF LockRead
    <2>2. Shape'
      BY <1>2, <2>1 DEF Shape
    <2>3. HeadWrites'
      BY <1>1, <1>2, <2>1 DEF HeadWrites
    <2>4. \A u \in Workers : VmOf(u)' = VmOf(u)
      BY <2>1 DEF VmOf
    <2>5. ASSUME NEW u \in Workers, pc'[u] = "writing" PROVE u = w
      BY <2>1, <2>3, <2>5 DEF HeadWrites
    <2>6. out'[w] = NewStore(w, store)
      BY <1>2, <2>1
    <2>7. DOMAIN NewStore(w, store) \subseteq Vms
      BY <1>2, NewStoreDomain
    <2>8. \A v \in Vms : v # VmOf(w) => Entry(out'[w], v) = Entry(store', v)
      BY <2>1, <2>6, NewStoreEntry
    <2>9. Fresh'
      BY <2>4, <2>5, <2>6, <2>7, <2>8 DEF Fresh
    <2> QED
      BY <2>2, <2>3, <2>9 DEF StoreInv
  <1>10. ASSUME NEW w \in Workers, LockWrite(w) PROVE StoreInv'
    <2>1. queue # <<>> /\ Head(queue) = w /\ DOMAIN out[w] \subseteq Vms
      BY <1>1, <1>10 DEF LockWrite, HeadWrites, Fresh
    <2>2. PICK a \in {"idle", "backup"} : pc' = [pc EXCEPT ![w] = a]
      BY <1>10 DEF LockWrite, Done
    <2>3. Shape'
      BY <1>2, <1>10, <2>1, <2>2 DEF LockWrite, Done, Shape
    <2> QED
      BY <2>1, <2>2, <2>3, SaveEnds
  <1>11. ASSUME NEW w \in Workers, LockFail(w) PROVE StoreInv'
    <2>1. queue # <<>> /\ Head(queue) = w /\ pc' = [pc EXCEPT ![w] = "idle"]
      BY <1>11 DEF LockFail, Done
    <2>2. Shape'
      BY <1>2, <1>11, <2>1 DEF LockFail, Done, Shape
    <2> QED
      BY <2>1, <2>2, SaveEnds
  <1>12. ASSUME NEW w \in Runs, Backup(w) PROVE StoreInv'
    <2>1. w \in Workers
      BY DEF Workers
    <2>2. UNCHANGED <<store, queue, vm, out, due>> /\ pc' = [pc EXCEPT ![w] = "record"]
      BY <1>12 DEF Backup
    <2>3. Shape' /\ \A u \in Workers : VmOf(u)' = VmOf(u)
      BY <1>2, <2>1, <2>2 DEF Shape, VmOf
    <2>4. \A u \in Workers : pc'[u] = "writing" => pc[u] = "writing"
      BY <1>2, <2>2
    <2> QED
      BY <1>3, <2>2, <2>3, <2>4, WritersKept
  <1>13. ASSUME NEW w \in Runs, RecordOutcome(w) PROVE StoreInv'
    <2>1. w \in Workers
      BY DEF Workers
    <2>2. PICK r \in Seq(Workers) : queue' = queue \o r
      <3>1. queue' = queue \/ queue' = Append(queue, w)
        BY <1>13 DEF RecordOutcome
      <3>2. Append(queue, w) = queue \o <<w>> /\ <<w>> \in Seq(Workers)
        BY <1>2, <2>1
      <3> QED
        BY <1>3, <3>1, <3>2
    <2>3. UNCHANGED <<store, vm, due>> /\ \E a \in {"queued", "idle"} : pc' = [pc EXCEPT ![w] = a]
      BY <1>13 DEF RecordOutcome, Done
    <2>4. out' = out \/ out' = [out EXCEPT ![w] = Empty]
      BY <1>13 DEF RecordOutcome, Done
    <2>5. pc' \in [Workers -> {"idle", "queued", "writing", "backup", "record"}]
      BY <1>2, <2>1, <2>3
    <2>6. DOMAIN out' = Workers /\ queue' \in Seq(Workers)
      BY <1>2, <2>2, <2>4
    <2>7. Shape' /\ \A u \in Workers : VmOf(u)' = VmOf(u)
      BY <1>2, <2>3, <2>5, <2>6 DEF Shape, VmOf
    <2>8. \A u \in Workers : pc'[u] = "writing" => pc[u] = "writing" /\ u # w
      BY <1>2, <2>3
    <2>9. \A u \in Workers : u # w => out'[u] = out[u]
      BY <1>2, <2>4
    <2> QED
      BY <2>2, <2>3, <2>7, <2>8, <2>9, WritersKept
  <1>14. ASSUME NEW o \in Operators, Ask(o) PROVE StoreInv'
    <2>1. o \in Workers /\ o \notin Runs
      BY StoreAssumption DEF Workers, Runs
    <2>2. /\ queue' = queue \o <<o>> /\ <<o>> \in Seq(Workers)
          /\ pc[o] = "idle" /\ pc' = [pc EXCEPT ![o] = "queued"] /\ UNCHANGED <<store, out, due>>
      BY <1>2, <1>14, <2>1 DEF Ask
    <2>3. PICK v \in Vms : vm' = [vm EXCEPT ![o] = v]
      BY <1>14 DEF Ask
    <2>4. Shape'
      BY <1>2, <2>1, <2>2, <2>3 DEF Shape
    <2>5. \A u \in Workers : u # o => VmOf(u)' = VmOf(u)
      BY <1>2, <2>3 DEF VmOf, Workers
    <2>6. \A u \in Workers : pc'[u] = "writing" => pc[u] = "writing" /\ u # o
      BY <1>2, <2>2
    <2> QED
      BY <2>2, <2>4, <2>5, <2>6, WritersKept
  <1>15. CASE Restart
    <2>1. /\ pc' = [w \in Workers |-> "idle"] /\ queue' = <<>> /\ due' = Empty
          /\ out' = [w \in Workers |-> Empty] /\ UNCHANGED <<store, vm>>
      BY <1>15 DEF Restart
    <2>2. Shape'
      BY <1>2, <2>1 DEF Shape, Empty
    <2> QED
      BY <2>1, <2>2 DEF StoreInv, HeadWrites, Fresh
  <1> QED
    BY <1>5, <1>6, <1>7, <1>8, <1>9, <1>10, <1>11, <1>12, <1>13, <1>14, <1>15
    DEF Next, Tick, SaveStep, RunStep

\* A save changes the schedule of its own VM only, whatever else is queued, fails
\* or is restarted meanwhile: the chain of promises is a lock around the whole
\* read-modify-write of the file.
THEOREM SavesDoNotInterfere == Spec => OwnEntryOnly
  <1> DEFINE Own == \A v \in Vms : Entry(store', v) # Entry(store, v) =>
                 \E w \in Workers : pc[w] = "writing" /\ pc'[w] # "writing" /\ VmOf(w) = v
  <1>1. StoreInv /\ [Next]_vars => [Own]_vars
    <2> SUFFICES ASSUME StoreInv, [Next]_vars PROVE Own
      OBVIOUS
    <2> USE DEF file
    <2>1. CASE store' = store
      BY <2>1 DEF Entry
    <2>2. ASSUME NEW w \in Workers, LockWrite(w) PROVE Own
      <3>1. pc[w] = "writing" /\ pc'[w] # "writing" /\ store' = out[w]
        BY <2>2 DEF LockWrite, Done, StoreInv, Shape
      <3>2. \A v \in Vms : v # VmOf(w) => Entry(store', v) = Entry(store, v)
        BY <3>1 DEF StoreInv, Fresh
      <3> QED
        BY <3>1, <3>2
    <2> QED
      BY <2>1, <2>2
      DEF Next, Tick, SaveStep, RunStep, Minute, TickRead, TickFire, LockRead, LockFail, Backup,
          RecordOutcome, Ask, Restart, vars
  <1> QED
    BY <1>1, StoreInit, StoreStep, PTL DEF Spec, OwnEntryOnly


(***************************************************************************)
(* What the file, the scheduler and the saves hold, and what an edit keeps. *)
(***************************************************************************)

\* A schedule of which some fields are changed is a schedule.
LEMMA ScheduleChanges ==
    ASSUME NEW s \in Schedule
    PROVE  /\ \A n \in Nat : [s EXCEPT !.next = n] \in Schedule
           /\ \A o \in Outcomes : [s EXCEPT !.outcome = o] \in Schedule
           /\ \A b \in BOOLEAN, n \in Nat : [s EXCEPT !.on = b, !.next = n] \in Schedule
           /\ \A b \in BOOLEAN, e \in Nat : [s EXCEPT !.on = b, !.edit = e] \in Schedule
           /\ \A n \in Nat, o \in Outcomes :
                 /\ [s EXCEPT !.next = n, !.outcome = o] \in Schedule
                 /\ [s EXCEPT !.next = n, !.outcome = o].outcome = o
           /\ \A b, k \in BOOLEAN, n \in Nat :
                 [s EXCEPT !.on = b, !.next = n, !.known = k] \in Schedule
  <1>1. /\ DOMAIN s = {"on", "next", "edit", "known", "outcome"}
        /\ s.on \in BOOLEAN /\ s.next \in Nat /\ s.edit \in Nat /\ s.known \in BOOLEAN
        /\ s.outcome \in Outcomes
    BY DEF Schedule
  <1> QED
    BY <1>1 DEF Schedule

LEMMA NoScheduleType == NoSchedule \in Schedule
  BY DEF NoSchedule, Schedule, Outcomes, Never

LEMMA WithType ==
    ASSUME NEW all, IsStore(all), NEW v \in Vms, NEW s \in Schedule
    PROVE  IsStore(With(all, v, s))
  <1>1. DOMAIN With(all, v, s) = DOMAIN all \cup {v} /\ DOMAIN all \subseteq Vms
    BY DEF With, IsStore
  <1>2. \A u \in DOMAIN all \cup {v} : (IF u = v THEN s ELSE all[u]) \in Schedule
    BY DEF IsStore
  <1>3. With(all, v, s) \in [DOMAIN all \cup {v} -> Schedule]
    BY <1>2 DEF With
  <1> QED
    BY <1>1, <1>3 DEF IsStore

LEMMA WithoutType ==
    ASSUME NEW all, IsStore(all), NEW v
    PROVE  IsStore(Without(all, v))
  <1>1. DOMAIN Without(all, v) = DOMAIN all \ {v} /\ DOMAIN all \subseteq Vms
    BY DEF Without, IsStore
  <1>2. Without(all, v) \in [DOMAIN all \ {v} -> Schedule]
    BY DEF Without, IsStore
  <1> QED
    BY <1>1, <1>2 DEF IsStore

LEMMA EmptyType == IsStore(Empty)
  BY DEF IsStore, Empty

\* An operator's save is an edit or a deletion for as long as it is under way, and
\* the edit it is about to write carries the outcome the file has.
Asked == \A o \in Operators :
             /\ pc[o] \in {"idle", "queued", "writing"}
             /\ pc[o] \in {"queued", "writing"} => job[o] \in {"edit", "delete"}
Carried == \A o \in Operators :
               /\ pc[o] = "writing"
               /\ vm[o] \in DOMAIN store
               /\ vm[o] \in DOMAIN out[o]
               => out[o][vm[o]].outcome = store[vm[o]].outcome

EditInv == TypeOK /\ Asked /\ Carried

\* What a save makes of a file is a file; an edit keeps the outcome of its VM.
LEMMA NewStoreType ==
    ASSUME TypeOK, NEW w \in Workers, NEW all, IsStore(all)
    PROVE  IsStore(NewStore(w, all))
  <1>1. VmOf(w) \in Vms
    BY VmOfType DEF TypeOK
  <1>2. mine[w] \in Schedule
    BY DEF TypeOK
  <1>3. Edited(w, all) \in Schedule
    <2> DEFINE o == IF VmOf(w) \in DOMAIN all THEN all[VmOf(w)].outcome ELSE "none"
    <2>1. o \in Outcomes
      BY DEF IsStore, Schedule, Outcomes
    <2>2. NextRun \in Nat
      BY DEF NextRun, TypeOK
    <2> HIDE DEF o
    <2>3. [mine[w] EXCEPT !.next = NextRun, !.outcome = o] \in Schedule
      BY <1>2, <2>1, <2>2, ScheduleChanges
    <2> QED
      BY <2>3 DEF Edited, o
  <1> QED
    BY <1>1, <1>2, <1>3, WithType, WithoutType DEF NewStore

LEMMA EditCarries ==
    ASSUME TypeOK, NEW o \in Operators, job[o] \in {"edit", "delete"},
           VmOf(o) \in DOMAIN store, VmOf(o) \in DOMAIN NewStore(o, store)
    PROVE  NewStore(o, store)[VmOf(o)].outcome = store[VmOf(o)].outcome
  <1> DEFINE v == VmOf(o)
             c == store[v].outcome
  <1>1. CASE job[o] = "edit"
    <2>1. c \in Outcomes
      BY <1>1 DEF TypeOK, IsStore, Schedule
    <2>2. mine[o] \in Schedule /\ NextRun \in Nat
      BY DEF TypeOK, NextRun, Workers
    <2>3. Edited(o, store) = [mine[o] EXCEPT !.next = NextRun, !.outcome = c]
      BY DEF Edited
    <2> HIDE DEF c
    <2>4. Edited(o, store).outcome = c
      <3>1. [mine[o] EXCEPT !.next = NextRun, !.outcome = c].outcome = c
        <4>1. DOMAIN mine[o] = {"on", "next", "edit", "known", "outcome"}
          BY <2>2 DEF Schedule
        <4> QED
          BY <4>1
      <3> QED
        BY <2>3, <3>1
    <2>5. NewStore(o, store) = With(store, v, Edited(o, store))
      BY <1>1 DEF NewStore
    <2> QED
      BY <2>4, <2>5 DEF With, c
  <1>2. CASE job[o] = "delete"
    BY <1>2 DEF NewStore, Without
  <1> QED
    BY <1>1, <1>2

LEMMA EditInit == Init => EditInv
  <1> SUFFICES ASSUME Init PROVE EditInv
    OBVIOUS
  <1>1. IsStore(store)
    <2>1. PICK S \in SUBSET Vms :
              store = [v \in S |->
                          [NoSchedule EXCEPT !.on = TRUE, !.next = 1, !.known = v \notin Legacy]]
      BY DEF Init
    <2>2. ASSUME NEW v \in S
          PROVE  [NoSchedule EXCEPT !.on = TRUE, !.next = 1, !.known = v \notin Legacy] \in Schedule
      <3>1. CASE v \in Legacy
        <4>1. [NoSchedule EXCEPT !.on = TRUE, !.next = 1, !.known = FALSE] \in Schedule
          BY NoScheduleType, ScheduleChanges
        <4>2. (v \notin Legacy) = FALSE
          BY <3>1
        <4> QED
          BY <4>1, <4>2
      <3>2. CASE v \notin Legacy
        <4>1. [NoSchedule EXCEPT !.on = TRUE, !.next = 1, !.known = TRUE] \in Schedule
          BY NoScheduleType, ScheduleChanges
        <4>2. (v \notin Legacy) = TRUE
          BY <3>2
        <4> QED
          BY <4>1, <4>2
      <3> QED
        BY <3>1, <3>2
    <2> QED
      BY <2>1, <2>2 DEF IsStore
  <1>2. /\ now = 1 /\ edits = 0 /\ faults = 0 /\ tick = "idle" /\ due = Empty /\ queue = <<>>
        /\ pc = [w \in Workers |-> "idle"] /\ job = [w \in Workers |-> "none"]
        /\ mine = [w \in Workers |-> NoSchedule] /\ out = [w \in Workers |-> Empty]
    BY DEF Init
  <1>3. vm \in [Operators -> Vms]
    <2>1. (CHOOSE v \in Vms : TRUE) \in Vms
      BY StoreAssumption
    <2> QED
      BY <2>1 DEF Init
  <1>4. TypeOK
    BY <1>1, <1>2, <1>3, NoScheduleType, EmptyType DEF TypeOK
  <1>5. Asked /\ Carried
    BY <1>2 DEF Asked, Carried, Workers
  <1> QED
    BY <1>4, <1>5 DEF EditInv


\* A step that neither begins nor ends an operator's save keeps what is known of
\* them.
LEMMA EditsKept ==
    ASSUME EditInv, TypeOK', store' = store,
           \A o \in Operators : /\ pc'[o] = pc[o] \/ pc'[o] = "idle"
                                /\ pc'[o] = pc[o] => job'[o] = job[o] /\ vm'[o] = vm[o]
                                                     /\ out'[o] = out[o]
    PROVE  EditInv'
  <1>1. Asked'
    BY DEF EditInv, Asked
  <1>2. Carried'
    BY DEF EditInv, Carried
  <1> QED
    BY <1>1, <1>2 DEF EditInv

\* The end of a call leaves its worker with no locals.
LEMMA DoneType ==
    ASSUME TypeOK, NEW w \in Workers, NEW a \in {"idle", "backup"}, Done(w, a)
    PROVE  /\ pc' \in [Workers -> {"idle", "queued", "writing", "backup", "record"}]
           /\ job' \in [Workers -> {"none", "mark", "disable", "outcome", "edit", "delete"}]
           /\ vm' \in [Operators -> Vms] /\ mine' \in [Workers -> Schedule]
           /\ DOMAIN out' = Workers /\ \A u \in Workers : IsStore(out'[u])
  BY NoScheduleType, EmptyType DEF TypeOK, Done

LEMMA FireType ==
    ASSUME TypeOK, TickFire
    PROVE  TypeOK'
  <1> USE DEF file
  <1> DEFINE fired == {v \in DOMAIN due : IsDue(due[v])}
             n == Cardinality(fired)
  <1>0. /\ IsStore(store) /\ IsStore(due) /\ now \in Nat /\ queue \in Seq(Workers)
        /\ pc \in [Workers -> {"idle", "queued", "writing", "backup", "record"}]
        /\ job \in [Workers -> {"none", "mark", "disable", "outcome", "edit", "delete"}]
        /\ mine \in [Workers -> Schedule]
    BY DEF TypeOK
  <1>1. n \in Nat
    <2>1. fired \subseteq Vms
      BY <1>0 DEF IsStore
    <2>2. IsFiniteSet(fired)
      BY <2>1, StoreAssumption, FS_Subset
    <2> QED
      BY <2>2, FS_CardinalityType
  <1> HIDE DEF n
  <1>2. PICK r \in [1 .. n -> {w \in Runs : w[1] \in fired /\ pc[w] = "idle"}] :
            LET started == {r[i] : i \in 1 .. n}
            IN  /\ queue' = queue \o r
                /\ pc' = [w \in Workers |-> IF w \in started THEN "queued" ELSE pc[w]]
                /\ mine' = [w \in Workers |->
                               IF w \in started THEN Marked(due[w[1]]) ELSE mine[w]]
                /\ job' = [w \in Workers |->
                               IF w \in started
                               THEN IF due[w[1]].known THEN "mark" ELSE "disable"
                               ELSE job[w]]
    BY DEF TickFire, n
  <1> DEFINE started == {r[i] : i \in 1 .. n}
  <1>3. \A w \in started : w[1] \in DOMAIN due
    OBVIOUS
  <1>4. queue' \in Seq(Workers)
    <2>1. r \in [1 .. n -> Workers]
      BY DEF Workers
    <2>2. r \in Seq(Workers)
      BY <1>1, <2>1
    <2> QED
      BY <1>0, <1>2, <2>2
  <1>5. ASSUME NEW s \in Schedule PROVE Marked(s) \in Schedule
    <2>1. NextRun \in Nat /\ Never \in Nat
      BY <1>0 DEF NextRun, Never
    <2> QED
      BY <2>1, ScheduleChanges DEF Marked
  <1> HIDE DEF started
  <1>6. mine' \in [Workers -> Schedule]
    <2>1. \A w \in started : due[w[1]] \in Schedule
      BY <1>0, <1>3 DEF IsStore
    <2>2. mine' = [w \in Workers |-> IF w \in started THEN Marked(due[w[1]]) ELSE mine[w]]
      BY <1>2 DEF started
    <2> QED
      BY <1>0, <1>5, <2>1, <2>2
  <1>7. /\ pc' \in [Workers -> {"idle", "queued", "writing", "backup", "record"}]
        /\ job' \in [Workers -> {"none", "mark", "disable", "outcome", "edit", "delete"}]
    BY <1>0, <1>2
  <1>8. tick' = "idle" /\ due' = Empty /\ UNCHANGED <<store, edits, faults, now, vm, out>>
    BY DEF TickFire
  <1> QED
    BY <1>4, <1>6, <1>7, <1>8, EmptyType DEF TypeOK

LEMMA TypeStep == StoreInv /\ TypeOK /\ [Next]_vars => TypeOK'
  <1> SUFFICES ASSUME StoreInv, TypeOK, [Next]_vars PROVE TypeOK'
    OBVIOUS
  <1> USE DEF file, timer, locals
  <1>1. /\ IsStore(store) /\ IsStore(due) /\ now \in Nat /\ edits \in Nat /\ faults \in Nat
        /\ tick \in {"idle", "read"} /\ queue \in Seq(Workers)
        /\ pc \in [Workers -> {"idle", "queued", "writing", "backup", "record"}]
        /\ job \in [Workers -> {"none", "mark", "disable", "outcome", "edit", "delete"}]
        /\ vm \in [Operators -> Vms] /\ mine \in [Workers -> Schedule]
        /\ DOMAIN out = Workers /\ \A w \in Workers : IsStore(out[w])
    BY DEF TypeOK
  <1>2. CASE UNCHANGED vars
    BY <1>1, <1>2 DEF vars, TypeOK
  <1>3. CASE Minute
    BY <1>1, <1>3 DEF Minute, TypeOK
  <1>4. CASE TickRead
    BY <1>1, <1>4 DEF TickRead, Fault, TypeOK
  <1>5. CASE TickFire
    BY <1>5, FireType
  <1>6. ASSUME NEW w \in Workers, LockRead(w) PROVE TypeOK'
    <2>1. IsStore(NewStore(w, store))
      BY <1>1, NewStoreType
    <2>2. DOMAIN out' = Workers /\ \A u \in Workers : IsStore(out'[u])
      BY <1>1, <1>6, <2>1 DEF LockRead
    <2> QED
      BY <1>1, <1>6, <2>2 DEF LockRead, TypeOK
  <1>7. ASSUME NEW w \in Workers, LockWrite(w) PROVE TypeOK'
    <2>1. PICK a \in {"idle", "backup"} : Done(w, a)
      BY <1>7 DEF LockWrite
    <2>2. queue # <<>>
      BY <1>7 DEF LockWrite, StoreInv, HeadWrites
    <2> QED
      BY <1>1, <1>7, <2>1, <2>2, DoneType DEF LockWrite, TypeOK
  <1>8. ASSUME NEW w \in Workers, LockFail(w) PROVE TypeOK'
    <2>1. Done(w, "idle")
      BY <1>8 DEF LockFail
    <2> QED
      BY <1>1, <1>8, <2>1, DoneType DEF LockFail, Fault, TypeOK
  <1>9. ASSUME NEW w \in Runs, Backup(w) PROVE TypeOK'
    <2>1. w \in Workers
      BY DEF Workers
    <2>2. PICK o \in Outcomes : mine' = [mine EXCEPT ![w].outcome = o]
      BY <1>9 DEF Backup, Outcomes
    <2>3. [mine[w] EXCEPT !.outcome = o] \in Schedule
      BY <1>1, <2>1, ScheduleChanges
    <2>4. mine' \in [Workers -> Schedule]
      BY <1>1, <2>1, <2>2, <2>3
    <2> QED
      BY <1>1, <1>9, <2>1, <2>4 DEF Backup, TypeOK
  <1>10. ASSUME NEW w \in Runs, RecordOutcome(w) PROVE TypeOK'
    <2>1. w \in Workers
      BY DEF Workers
    <2>2. UNCHANGED <<store, now, edits, tick, due>> /\ faults' \in Nat
      BY <1>1, <1>10 DEF RecordOutcome, Fault
    <2>3. CASE Done(w, "idle") /\ queue' = queue
      BY <1>1, <2>1, <2>2, <2>3, DoneType DEF TypeOK
    <2>4. CASE /\ w[1] \in DOMAIN store
               /\ mine' = [mine EXCEPT ![w] = [store[w[1]] EXCEPT !.outcome = mine[w].outcome]]
               /\ job' = [job EXCEPT ![w] = "outcome"]
               /\ pc' = [pc EXCEPT ![w] = "queued"]
               /\ queue' = Append(queue, w)
               /\ UNCHANGED <<vm, out>>
      <3>1. mine[w].outcome \in Outcomes
        BY <1>1, <2>1 DEF Schedule
      <3>2. store[w[1]] \in Schedule
        BY <1>1, <2>4 DEF IsStore
      <3>3. [store[w[1]] EXCEPT !.outcome = mine[w].outcome] \in Schedule
        BY <3>1, <3>2, ScheduleChanges
      <3>4. mine' \in [Workers -> Schedule]
        BY <1>1, <2>1, <2>4, <3>3
      <3> QED
        BY <1>1, <2>1, <2>2, <2>4, <3>4 DEF TypeOK
    <2> QED
      BY <1>10, <2>3, <2>4 DEF RecordOutcome
  <1>11. ASSUME NEW o \in Operators, Ask(o) PROVE TypeOK'
    <2>1. o \in Workers
      BY DEF Workers
    <2>2. PICK v \in Vms, on \in BOOLEAN, kind \in {"edit", "delete"} :
              /\ edits' = edits + 1
              /\ vm' = [vm EXCEPT ![o] = v]
              /\ job' = [job EXCEPT ![o] = kind]
              /\ mine' = [mine EXCEPT ![o] = [NoSchedule EXCEPT !.on = on, !.edit = edits + 1]]
              /\ queue' = Append(queue, o)
              /\ pc' = [pc EXCEPT ![o] = "queued"]
              /\ UNCHANGED <<store, now, faults, timer, out>>
      BY <1>11 DEF Ask
    <2>3. [NoSchedule EXCEPT !.on = on, !.edit = edits + 1] \in Schedule
      <3>1. edits + 1 \in Nat
        BY <1>1
      <3> QED
        BY <3>1, NoScheduleType, ScheduleChanges
    <2>4. mine' \in [Workers -> Schedule]
      BY <1>1, <2>1, <2>2, <2>3
    <2> QED
      BY <1>1, <2>1, <2>2, <2>4 DEF TypeOK
  <1>12. CASE Restart
    BY <1>1, <1>12, NoScheduleType, EmptyType DEF Restart, Fault, TypeOK
  <1> QED
    BY <1>2, <1>3, <1>4, <1>5, <1>6, <1>7, <1>8, <1>9, <1>10, <1>11, <1>12
    DEF Next, Tick, SaveStep, RunStep


LEMMA EditStep == StoreInv /\ EditInv /\ [Next]_vars => EditInv'
  <1> SUFFICES ASSUME StoreInv, EditInv, [Next]_vars PROVE EditInv'
    OBVIOUS
  <1> USE DEF file, timer, locals
  <1>1. TypeOK /\ TypeOK' /\ Asked /\ Carried
    BY TypeStep DEF EditInv
  <1>2. /\ pc \in [Workers -> {"idle", "queued", "writing", "backup", "record"}]
        /\ job \in [Workers -> {"none", "mark", "disable", "outcome", "edit", "delete"}]
        /\ vm \in [Operators -> Vms] /\ DOMAIN out = Workers
    BY <1>1 DEF TypeOK
  <1>3. \A o \in Operators : o \in Workers /\ o \notin Runs
    BY StoreAssumption DEF Workers, Runs
  <1>4. ASSUME UNCHANGED <<store, pc, job, vm, out>> PROVE EditInv'
    BY <1>1, <1>4, EditsKept
  <1>5. CASE UNCHANGED vars \/ Minute \/ TickRead
    BY <1>4, <1>5 DEF vars, Minute, TickRead
  <1>6. CASE TickFire
    <2>1. UNCHANGED <<store, vm, out>>
      BY <1>6 DEF TickFire
    <2>2. PICK started \in SUBSET Runs :
              /\ pc' = [w \in Workers |-> IF w \in started THEN "queued" ELSE pc[w]]
              /\ job' = [w \in Workers |->
                             IF w \in started
                             THEN IF due[w[1]].known THEN "mark" ELSE "disable"
                             ELSE job[w]]
      <3> DEFINE fired == {v \in DOMAIN due : IsDue(due[v])}
                 n == Cardinality(fired)
      <3>1. PICK r \in [1 .. n -> {w \in Runs : w[1] \in fired /\ pc[w] = "idle"}] :
                LET started == {r[i] : i \in 1 .. n}
                IN  /\ pc' = [w \in Workers |-> IF w \in started THEN "queued" ELSE pc[w]]
                    /\ job' = [w \in Workers |->
                                   IF w \in started
                                   THEN IF due[w[1]].known THEN "mark" ELSE "disable"
                                   ELSE job[w]]
        BY <1>6 DEF TickFire
      <3>2. {r[i] : i \in 1 .. n} \in SUBSET Runs
        OBVIOUS
      <3> QED
        BY <3>1, <3>2
    <2>3. \A o \in Operators : pc'[o] = pc[o] /\ job'[o] = job[o]
      BY <1>3, <2>2
    <2> QED
      BY <1>1, <2>1, <2>3, EditsKept
  <1>7. ASSUME NEW w \in Workers, LockRead(w) PROVE EditInv'
    <2>1. /\ pc[w] = "queued" /\ pc' = [pc EXCEPT ![w] = "writing"]
          /\ out' = [out EXCEPT ![w] = NewStore(w, store)] /\ UNCHANGED <<store, job, vm>>
      BY <1>7 DEF LockRead
    <2>2. Asked'
      BY <1>1, <1>2, <1>3, <2>1 DEF Asked
    <2>3. ASSUME NEW o \in Operators, pc'[o] = "writing",
                 vm'[o] \in DOMAIN store', vm'[o] \in DOMAIN out'[o]
          PROVE  out'[o][vm'[o]].outcome = store'[vm'[o]].outcome
      <3>1. CASE o = w
        <4>1. out'[o] = NewStore(o, store) /\ VmOf(o) = vm[o]
          BY <1>2, <1>3, <2>1, <3>1 DEF VmOf
        <4>2. job[o] \in {"edit", "delete"}
          BY <1>1, <2>1, <3>1 DEF Asked
        <4> QED
          BY <1>1, <2>1, <2>3, <4>1, <4>2, EditCarries
      <3>2. CASE o # w
        BY <1>1, <1>2, <1>3, <2>1, <2>3, <3>2 DEF Carried
      <3> QED
        BY <3>1, <3>2
    <2> QED
      BY <1>1, <2>2, <2>3 DEF EditInv, Carried
  <1>8. ASSUME NEW w \in Workers, LockWrite(w) PROVE EditInv'
    <2>1. Head(queue) = w /\ queue # <<>>
      BY <1>8 DEF LockWrite, StoreInv, HeadWrites
    <2>2. pc' = [pc EXCEPT ![w] = IF job[w] = "mark" THEN "backup" ELSE "idle"]
          /\ job' = [job EXCEPT ![w] = "none"]
      BY <1>8 DEF LockWrite, Done
    <2>3. \A u \in Workers : pc'[u] # "writing"
      BY <1>2, <2>1, <2>2 DEF StoreInv, HeadWrites
    <2>4. Asked'
      BY <1>1, <1>2, <1>3, <1>8, <2>2 DEF Asked, LockWrite
    <2> QED
      BY <1>1, <1>3, <2>3, <2>4 DEF EditInv, Carried
  <1>9. ASSUME NEW w \in Workers, Done(w, "idle"), store' = store PROVE EditInv'
    <2>1. \A o \in Operators : /\ pc'[o] = pc[o] \/ pc'[o] = "idle"
                               /\ pc'[o] = pc[o] => pc[o] = "idle" \/ (job'[o] = job[o]
                                     /\ vm'[o] = vm[o] /\ out'[o] = out[o])
      BY <1>2, <1>3, <1>9 DEF Done
    <2>2. Asked' /\ Carried'
      BY <1>1, <1>9, <2>1 DEF Asked, Carried
    <2> QED
      BY <1>1, <2>2 DEF EditInv
  <1>10. ASSUME NEW w \in Workers, LockFail(w) PROVE EditInv'
    BY <1>9, <1>10 DEF LockFail
  <1>11. ASSUME NEW w \in Runs, Backup(w) PROVE EditInv'
    <2>1. \A o \in Operators : pc'[o] = pc[o]
      BY <1>2, <1>3, <1>11 DEF Backup
    <2> QED
      BY <1>1, <1>11, <2>1, EditsKept DEF Backup
  <1>12. ASSUME NEW w \in Runs, RecordOutcome(w) PROVE EditInv'
    <2>1. w \in Workers
      BY DEF Workers
    <2>2. store' = store
      BY <1>12 DEF RecordOutcome
    <2>3. CASE Done(w, "idle")
      BY <1>9, <2>1, <2>2, <2>3
    <2>4. CASE /\ job' = [job EXCEPT ![w] = "outcome"] /\ pc' = [pc EXCEPT ![w] = "queued"]
               /\ UNCHANGED <<vm, out>>
      <3>1. \A o \in Operators : pc'[o] = pc[o] /\ job'[o] = job[o]
        BY <1>2, <1>3, <2>4
      <3> QED
        BY <1>1, <2>2, <2>4, <3>1, EditsKept
    <2> QED
      BY <1>12, <2>3, <2>4 DEF RecordOutcome
  <1>13. ASSUME NEW o \in Operators, Ask(o) PROVE EditInv'
    <2>1. PICK v \in Vms, kind \in {"edit", "delete"} :
              /\ vm' = [vm EXCEPT ![o] = v]
              /\ job' = [job EXCEPT ![o] = kind]
              /\ pc' = [pc EXCEPT ![o] = "queued"]
              /\ UNCHANGED <<store, out>>
      BY <1>13 DEF Ask
    <2>2. Asked' /\ Carried'
      BY <1>1, <1>2, <1>3, <2>1 DEF Asked, Carried
    <2> QED
      BY <1>1, <2>2 DEF EditInv
  <1>14. CASE Restart
    <2>1. \A o \in Operators : pc'[o] = "idle"
      BY <1>3, <1>14 DEF Restart
    <2> QED
      BY <1>1, <2>1 DEF EditInv, Asked, Carried
  <1> QED
    BY <1>5, <1>6, <1>7, <1>8, <1>10, <1>11, <1>12, <1>13, <1>14
    DEF Next, Tick, SaveStep, RunStep

\* The file, what the scheduler has read and what each save is about to write are
\* schedules of VMs there are, whatever fails or is restarted.
THEOREM TypeCorrect == Spec => []TypeOK
  <1>1. Init => TypeOK
    BY EditInit DEF EditInv
  <1> QED
    BY <1>1, StoreInit, StoreStep, TypeStep, PTL DEF Spec

\* Saving an edit never changes the record of how the last run ended: the outcome
\* is taken from the file under the lock, so that a run which recorded its own
\* while the edit waited is not undone by it.
THEOREM EditsKeepOutcomes == Spec => EditKeepsOutcome
  <1> DEFINE Keeps == \A o \in Operators :
                          LET v == vm[o]
                          IN  /\ pc[o] = "writing" /\ pc'[o] = "idle"
                              /\ v \in DOMAIN store /\ v \in DOMAIN store'
                              => store'[v].outcome = store[v].outcome
  <1>1. StoreInv /\ EditInv /\ [Next]_vars => [Keeps]_vars
    <2> SUFFICES ASSUME StoreInv, EditInv, [Next]_vars PROVE Keeps
      OBVIOUS
    <2> USE DEF file
    <2>1. CASE store' = store
      BY <2>1
    <2>2. ASSUME NEW w \in Workers, LockWrite(w) PROVE Keeps
      <3> SUFFICES ASSUME NEW o \in Operators, pc[o] = "writing",
                          vm[o] \in DOMAIN store, vm[o] \in DOMAIN store'
                   PROVE  store'[vm[o]].outcome = store[vm[o]].outcome
        OBVIOUS
      <3>1. o = w
        BY <2>2 DEF LockWrite, StoreInv, HeadWrites, Workers
      <3> QED
        BY <2>2, <3>1 DEF LockWrite, EditInv, Carried
    <2> QED
      BY <2>1, <2>2
      DEF Next, Tick, SaveStep, RunStep, Minute, TickRead, TickFire, LockRead, LockFail, Backup,
          RecordOutcome, Ask, Restart, vars
  <1> QED
    BY <1>1, StoreInit, StoreStep, EditInit, EditStep, PTL DEF Spec, EditKeepsOutcome

=============================================================================
