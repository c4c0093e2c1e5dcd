------------------------- MODULE BackupEngine_proof -------------------------
(***************************************************************************)
(* Proofs about BackupEngine, for every number of backups, of concurrent   *)
(* runs, housekeeping passes and delete requests: its types and ids; when  *)
(* calls do not overlap a run, that no chain of backups is ever broken and *)
(* that the engine implements BackupCatalog; and when they do, that a      *)
(* single run and any number of removers take nothing that was not meant   *)
(* to go.                                                                  *)
(***************************************************************************)
EXTENDS BackupEngine, TLAPS

\* A scan returns what the directories hold; without read errors, all of it.
LEMMA ScansReturn ==
    ASSUME TypeOK, NEW dirs \in SUBSET Backups, NEW scan \in Scans(dirs)
    PROVE  /\ scan.manifests \subseteq {b \in dirs : dir[b] = "complete"}
           /\ scan.incomplete \subseteq {b \in dirs : dir[b] \in {"open", "manifest"}}
           /\ ~ReadErrors => scan.manifests = {b \in dirs : dir[b] = "complete"}
  BY BackupAssumption DEF Scans, TypeOK

\* Updating a Boolean-valued function with a Boolean leaves it one.
LEMMA BooleanUpdate ==
    ASSUME NEW S, NEW f \in [S -> BOOLEAN], NEW x, NEW v \in BOOLEAN
    PROVE  [f EXCEPT ![x] = v] \in [S -> BOOLEAN]
  <1>1. [f EXCEPT ![x] = v] = [y \in S |-> IF y = x THEN v ELSE f[y]]
    OBVIOUS
  <1>2. \A y \in S : (IF y = x THEN v ELSE f[y]) \in BOOLEAN
    OBVIOUS
  <1> QED
    BY <1>1, <1>2

\* The manifest a run writes: every part keeps its type.
LEMMA WriteManifestStep ==
    ASSUME TypeOK, NEW s \in Slots, WriteManifest(s)
    PROVE  TypeOK'
  <1>1. recorded' \in [Backups -> BOOLEAN]
    <2>1. made[s] \in BOOLEAN /\ recorded \in [Backups -> BOOLEAN]
      BY DEF TypeOK
    <2>2. [recorded EXCEPT ![bid[s]] = made[s]] \in [Backups -> BOOLEAN]
      BY <2>1, BooleanUpdate, Zenon
    <2>3. recorded' = [recorded EXCEPT ![bid[s]] = made[s]]
      BY DEF WriteManifest
    <2> QED
      BY <2>2, <2>3, Zenon
  <1>2. clock' \in Nat
    <2>1. clock' = clock + 1
      BY DEF WriteManifest
    <2> QED
      BY <2>1 DEF TypeOK
  <1>3. stamp' \in [Backups -> Nat]
    <2>1. stamp' = [stamp EXCEPT ![bid[s]] = clock + 1]
      BY DEF WriteManifest
    <2>2. clock + 1 \in Nat /\ stamp \in [Backups -> Nat]
      BY DEF TypeOK
    <2> QED
      BY <2>1, <2>2
  <1>4. parent' \in [Backups -> OptBackup]
    <2>1. parent' = [parent EXCEPT ![bid[s]] = from[s]]
      BY DEF WriteManifest
    <2> QED
      BY <2>1 DEF TypeOK
  <1>5. dir' \in [Backups -> DirState]
    <2>1. dir' = [dir EXCEPT ![bid[s]] = "manifest"]
      BY DEF WriteManifest
    <2> QED
      BY <2>1 DEF TypeOK, DirState
  <1>6. pc' \in [Workers -> PC]
    <2>1. pc' = [pc EXCEPT ![s] = "mark"]
      BY DEF WriteManifest, Step
    <2> QED
      BY <2>1 DEF TypeOK, PC, WritePC
  <1>7. UNCHANGED <<minted, checkpoints, entry, run, work>>
    BY DEF WriteManifest
  <1> QED
    BY <1>1, <1>2, <1>3, <1>4, <1>5, <1>6, <1>7, Zenon DEF TypeOK, entry, run, work

LEMMA WorkersOf ==
    /\ Slots \subseteq Workers /\ Keepers \subseteq Workers /\ Deleters \subseteq Workers
    /\ None \in OptBackup /\ Backups \subseteq OptBackup
    /\ \A b \in Backups : b \in Nat /\ b # None
  BY BackupAssumption DEF Workers, OptBackup, Backups, None

\* A run past its registration has its id.
HasId == \A s \in Slots : pc[s] \in WritePC \cup {"mkdir"} => bid[s] \in Backups

LEMMA TypeStep == TypeOK /\ HasId /\ [Next]_vars => TypeOK'
  <1> SUFFICES ASSUME TypeOK, HasId, [Next]_vars PROVE TypeOK'
    OBVIOUS
  <1> USE BackupAssumption, WorkersOf
  <1> USE DEF TypeOK, disk, entry, run, work, PC, WritePC, DirState
  <1>1. CASE UNCHANGED vars
    BY <1>1 DEF vars
  <1>2. CASE \E s \in Slots : Request(s)
    BY <1>2 DEF Request, Move, Step
  <1>3. CASE \E k \in Keepers : StartKeeping(k)
    BY <1>3 DEF StartKeeping, Step, ReadDir
  <1>4. CASE \E d \in Deleters : StartDelete(d)
    BY <1>4 DEF StartDelete, Step, ReadDir
  <1>5. CASE ClearCheckpoints
    BY <1>5 DEF ClearCheckpoints
  <1>6. CASE Restart
    BY <1>6 DEF Restart
  <1>7. ASSUME NEW s \in Slots, BackupStep(s) PROVE TypeOK'
    <2>1. CASE Register(s)
      BY <2>1 DEF Register, Step
    <2>2. CASE Mint(s)
      BY <2>2 DEF Mint, Step, Backups, OptBackup
    <2>3. CASE SettingsFail(s) \/ TakeFull(s) \/ ReadParent(s) \/ Precreate(s)
               \/ PlainCopy(s) \/ RunFail(s)
      BY <2>3 DEF SettingsFail, TakeFull, ReadParent, Precreate, PlainCopy, RunFail, Move, Step
    <2>4. CASE Mkdir(s) \/ VmGone(s) \/ Mark(s) \/ Cleanup(s)
      BY <2>4 DEF Mkdir, VmGone, Mark, Cleanup, SetDir, Move, Step
    <2>5. CASE Assess(s) \/ Log(s)
      BY <2>5 DEF Assess, Log, ReadDir, Move, Step
    <2>6. CASE AssessRead(s)
      <3>1. \A scan \in Scans(listed[s]) : Candidates(scan.manifests) \subseteq Backups
        BY ScansReturn DEF Candidates, Newest
      <3>2. from' \in [Slots -> OptBackup]
        BY <2>6, <3>1 DEF AssessRead
      <3>3. pc' \in [Workers -> PC]
        BY <2>6 DEF AssessRead, Step
      <3> QED
        BY <2>6, <3>2, <3>3 DEF AssessRead, ScanOver
    <2>7. CASE AssessCheckpoint(s)
      <3>1. CASE Move(s, "checkpoint", "parent")
        BY <3>1 DEF Move, Step
      <3>2. CASE from' = [from EXCEPT ![s] = None] /\ Step(s, "checkpoint", "beginFull")
        BY <2>7, <3>2 DEF AssessCheckpoint, Move, Step
      <3> QED
        BY <2>7, <3>1, <3>2 DEF AssessCheckpoint
    <2>8. CASE BeginDelta(s) \/ BeginFull(s)
      <3>1. bid[s] \in Backups
        BY <2>8 DEF BeginDelta, BeginFull, Move, Step, HasId
      <3> QED
        <4>1. CASE BeginDelta(s)
          BY <4>1, <3>1 DEF BeginDelta, SetCheckpoints, Move, Step
        <4>2. CASE BeginFull(s)
          BY <4>2, <3>1 DEF BeginFull, SetCheckpoints, Move, Step
        <4> QED
          BY <2>8, <4>1, <4>2
    <2>9. CASE EndDelta(s) \/ EndFull(s)
      BY <2>9 DEF EndDelta, EndFull, Copied, Move, Step
    <2>10. CASE Degrade(s)
      BY <2>10 DEF Degrade, Step
    <2>11. CASE WriteManifest(s)
      BY <2>11, WriteManifestStep
    <2>12. CASE Names(s)
      BY <2>12 DEF Names, Step, Move, ReadDir, SetTodo
    <2>13. CASE ReconcileRead(s)
      <3>1. PICK scan \in Scans(listed[s]) :
                \/ SetTodo(s, todo[s] \ {b \in scan.manifests : recorded[b]})
                \/ SetTodo(s, {})
        BY <2>13 DEF ReconcileRead
      <3>3. todo' \in [Workers -> SUBSET Backups]
        BY <3>1 DEF SetTodo
      <3>4. listed' = [listed EXCEPT ![s] = {}]
        BY <2>13 DEF ReconcileRead, ScanOver
      <3>6. \E a \in {"reconcile", "finally"} : pc' = [pc EXCEPT ![s] = a]
        BY <2>13 DEF ReconcileRead, Step
      <3>5. UNCHANGED <<disk, checkpoints, entry, run, seen, cur>>
        BY <2>13 DEF ReconcileRead
      <3> QED
        BY <3>3, <3>4, <3>5, <3>6
    <2>14. CASE Reconcile(s)
      BY <2>14 DEF Reconcile, Step, Move, SetTodo, SetCheckpoints
    <2>15. CASE Finish(s)
      BY <2>15 DEF Finish, Step, Forget
    <2> QED
      BY <1>7, <2>1, <2>2, <2>3, <2>4, <2>5, <2>6, <2>7, <2>8, <2>9, <2>10, <2>11, <2>12,
         <2>13, <2>14, <2>15 DEF BackupStep
  <1>8. ASSUME NEW w \in Workers, RetainStep(w) PROVE TypeOK'
    <2>1. CASE RetainRead(w)
      <3>1. CASE EndRetention(w, "retainRead")
        BY <3>1 DEF EndRetention, Step, Forget
      <3>2. \A scan \in Scans(listed[w]) : scan.manifests \subseteq Backups
        BY ScansReturn
      <3> QED
        BY <2>1, <3>1, <3>2 DEF RetainRead, Step, SetTodo, ScanOver
    <2>2. CASE Retain(w)
      BY <2>2 DEF Retain, Leaf, BeginRemove, Torn, Step, SetDir, SetTodo
    <2>3. CASE Retained(w)
      BY <2>3 DEF Retained, EndRetention, Step, Forget
    <2> QED
      BY <1>8, <2>1, <2>2, <2>3 DEF RetainStep
  <1>9. ASSUME NEW k \in Keepers, SweepStep(k) PROVE TypeOK'
    <2> k \in Workers
      OBVIOUS
    <2>1. CASE SweepHas(k) \/ SweepList(k)
      <3>1. CASE SweepHas(k)
        <4>1. CASE Move(k, "sweepHas", "sweepList")
          BY <4>1 DEF Move, Step
        <4>2. CASE Return(k, "sweepHas")
          BY <4>2 DEF Return, Step, Forget
        <4> QED
          BY <3>1, <4>1, <4>2 DEF SweepHas
      <3>2. CASE SweepList(k)
        <4>1. pc' = [pc EXCEPT ![k] = "sweepRead"]
          BY <3>2 DEF SweepList, Step
        <4>2. listed' \in [Workers -> SUBSET Backups]
          <5>1. {b \in Backups : dir[b] # "absent"} \in SUBSET Backups
            OBVIOUS
          <5> HIDE DEF WritePC, PC, DirState
          <5> QED
            BY <3>2, <5>1 DEF SweepList, ReadDir
        <4>3. UNCHANGED <<disk, checkpoints, entry, run, seen, todo, cur>>
          BY <3>2 DEF SweepList, ReadDir
        <4> QED
          BY <4>1, <4>2, <4>3
      <3> QED
        BY <2>1, <3>1, <3>2
    <2>2. CASE SweepRead(k)
      BY <2>2, ScansReturn DEF SweepRead, Step, SetTodo, ScanOver
    <2>3. CASE Sweep(k)
      <3>1. CASE Return(k, "sweep")
        BY <3>1 DEF Return, Step, Forget
      <3>2. ASSUME NEW b \in todo[k], SetDir(b, "absent"), SetTodo(k, todo[k] \ {b}),
                   Step(k, "sweep", "sweep"), UNCHANGED <<listed, seen, cur>>
            PROVE  TypeOK'
        BY <3>2 DEF Step, SetDir, SetTodo
      <3> QED
        BY <2>3, <3>1, <3>2 DEF Sweep
    <2> QED
      BY <1>9, <2>1, <2>2, <2>3 DEF SweepStep
  <1>10. ASSUME NEW d \in Deleters, DeleteStep(d) PROVE TypeOK'
    <2>1. CASE DeleteRead(d)
      <3>1. CASE Move(d, "delRead", "rmOnly")
        BY <3>1 DEF Move, Step
      <3>2. CASE Return(d, "delRead")
        BY <3>2 DEF Return, Step, Forget
      <3>3. ASSUME NEW scan \in Scans(listed[d]), cur[d] \in scan.manifests,
                   SetTodo(d, Descendants(scan.manifests, cur[d]) \cup {cur[d]}),
                   Step(d, "delRead", "delete"), ScanOver(d),
                   seen' = [seen EXCEPT ![d] = scan.manifests],
                   cur' = [cur EXCEPT ![d] = None],
                   UNCHANGED <<disk, checkpoints, entry, run>>
            PROVE  TypeOK'
        <4>1. scan.manifests \subseteq Backups
          BY ScansReturn
        <4>2. Descendants(scan.manifests, cur[d]) \subseteq Backups
          BY <4>1 DEF Descendants
        <4>3. todo' \in [Workers -> SUBSET Backups]
          BY <3>3, <4>1, <4>2 DEF SetTodo
        <4> QED
          BY <3>3, <4>1, <4>3 DEF Step, ScanOver
      <3> QED
        BY <2>1, <3>1, <3>2, <3>3 DEF DeleteRead
    <2>2. CASE RemoveOnly(d)
      <3>1. PICK left \in Torn(cur[d]) \cup {"absent", dir[cur[d]]} : SetDir(cur[d], left)
        BY <2>2 DEF RemoveOnly
      <3>2. dir' \in [Backups -> DirState]
        <4>1. CASE cur[d] \in Backups
          BY <3>1, <4>1 DEF SetDir, Torn
        <4>2. CASE cur[d] \notin Backups
          BY <3>1, <4>2 DEF SetDir
        <4> QED
          BY <4>1, <4>2
      <3> QED
        BY <2>2, <3>1, <3>2 DEF RemoveOnly, Step, SetDir, Forget
    <2>3. CASE Delete(d)
      <3>1. CASE Return(d, "delete")
        BY <3>1 DEF Return, Step, Forget
      <3>2. ASSUME NEW b \in todo[d], BeginRemove(d, b), Step(d, "delete", "rm") PROVE TypeOK'
        BY <3>2 DEF BeginRemove, Torn, Step, SetDir, SetTodo
      <3> QED
        BY <2>3, <3>1, <3>2 DEF Delete, Newest
    <2> QED
      BY <1>10, <2>1, <2>2, <2>3 DEF DeleteStep
  <1>11. ASSUME NEW w \in Workers, EndRemove(w) \/ RemoveFail(w) \/ DropCheckpoint(w)
         PROVE  TypeOK'
    <2>1. CASE EndRemove(w) \/ DropCheckpoint(w)
      BY <2>1 DEF EndRemove, DropCheckpoint, Step, SetDir, SetCheckpoints
    <2>2. CASE RemoveFail(w)
      <3>1. CASE Return(w, "rm")
        BY <3>1 DEF Return, Step, Forget
      <3>2. CASE EndRetention(w, "rm")
        BY <3>2 DEF EndRetention, Step, Forget
      <3> QED
        BY <2>2, <3>1, <3>2 DEF RemoveFail
    <2> QED
      BY <1>11, <2>1, <2>2
  <1> QED
    BY <1>1, <1>2, <1>3, <1>4, <1>5, <1>6, <1>7, <1>8, <1>9, <1>10, <1>11 DEF Next, WorkStep

LEMMA HasIdStep == TypeOK /\ HasId /\ [Next]_vars => HasId'
  <1> SUFFICES ASSUME TypeOK, HasId, [Next]_vars PROVE HasId'
    OBVIOUS
  <1> USE BackupAssumption, WorkersOf
  <1> USE DEF HasId, run, WritePC
  <1> pc \in [Workers -> PC] /\ bid \in [Slots -> OptBackup] /\ minted \in 0 .. MaxBackups
    BY DEF TypeOK
  <1>1. CASE UNCHANGED vars
    BY <1>1 DEF vars
  <1>2. CASE \E s \in Slots : Request(s)
    BY <1>2 DEF Request, Move, Step
  <1>3. CASE \E k \in Keepers : StartKeeping(k)
    BY <1>3 DEF StartKeeping, Step, ReadDir
  <1>4. CASE \E d \in Deleters : StartDelete(d)
    BY <1>4 DEF StartDelete, Step, ReadDir
  <1>5. CASE ClearCheckpoints
    BY <1>5 DEF ClearCheckpoints
  <1>6. CASE Restart
    BY <1>6 DEF Restart
  <1>7. ASSUME NEW s \in Slots, BackupStep(s) PROVE HasId'
    <2>1. CASE Mint(s)
      BY <2>1 DEF Mint, Step, Backups
    <2>2. CASE Finish(s)
      BY <2>2 DEF Finish, Step
    <2>3. CASE Register(s) \/ SettingsFail(s) \/ TakeFull(s) \/ ReadParent(s) \/ Precreate(s)
               \/ PlainCopy(s) \/ RunFail(s)
      BY <2>3 DEF Register, SettingsFail, TakeFull, ReadParent, Precreate, PlainCopy, RunFail,
                  Move, Step
    <2>4. CASE Mkdir(s) \/ VmGone(s) \/ Mark(s) \/ Cleanup(s)
      BY <2>4 DEF Mkdir, VmGone, Mark, Cleanup, SetDir, Move, Step
    <2>5. CASE Assess(s) \/ Log(s) \/ AssessRead(s) \/ AssessCheckpoint(s)
      BY <2>5 DEF Assess, Log, AssessRead, AssessCheckpoint, ReadDir, Move, Step
    <2>6. CASE BeginDelta(s) \/ BeginFull(s) \/ EndDelta(s) \/ EndFull(s) \/ Degrade(s)
      BY <2>6 DEF BeginDelta, BeginFull, EndDelta, EndFull, Copied, Degrade, SetCheckpoints,
                  Move, Step
    <2>7. CASE WriteManifest(s) \/ Names(s) \/ ReconcileRead(s) \/ Reconcile(s)
      BY <2>7 DEF WriteManifest, Names, ReconcileRead, Reconcile, ReadDir, SetCheckpoints,
                  Move, Step
    <2> QED
      BY <1>7, <2>1, <2>2, <2>3, <2>4, <2>5, <2>6, <2>7 DEF BackupStep
  <1>8. ASSUME NEW w \in Workers, RetainStep(w) PROVE HasId'
    BY <1>8 DEF RetainStep, RetainRead, Retain, Retained, EndRetention, BeginRemove, SetDir, Step
  <1>9. ASSUME NEW k \in Keepers, SweepStep(k) PROVE HasId'
    BY <1>9 DEF SweepStep, SweepHas, SweepList, SweepRead, Sweep, ReadDir, Return, SetDir,
                Move, Step
  <1>10. ASSUME NEW d \in Deleters, DeleteStep(d) PROVE HasId'
    <2>1. /\ UNCHANGED run
          /\ \E a \in PC : pc' = [pc EXCEPT ![d] = a]
      <3>1. CASE DeleteRead(d)
        BY <3>1 DEF DeleteRead, Return, Move, Step, PC
      <3>2. CASE RemoveOnly(d)
        BY <3>2 DEF RemoveOnly, SetDir, Step, PC
      <3>3. CASE Delete(d)
        BY <3>3 DEF Delete, BeginRemove, SetDir, Return, Step, PC
      <3> QED
        BY <1>10, <3>1, <3>2, <3>3 DEF DeleteStep
    <2>2. d \notin Slots
      BY BackupAssumption
    <2> QED
      BY <2>1, <2>2 DEF run
  <1>11. ASSUME NEW w \in Workers, EndRemove(w) \/ RemoveFail(w) \/ DropCheckpoint(w)
         PROVE  HasId'
    BY <1>11 DEF EndRemove, RemoveFail, EndRetention, Return, Forget, DropCheckpoint, SetDir,
                 SetCheckpoints, Step
  <1> QED
    BY <1>1, <1>2, <1>3, <1>4, <1>5, <1>6, <1>7, <1>8, <1>9, <1>10, <1>11 DEF Next, WorkStep

LEMMA TypeInit == Init => TypeOK /\ HasId
  <1> SUFFICES ASSUME Init PROVE TypeOK /\ HasId
    OBVIOUS
  <1>1. recorded \in [Backups -> BOOLEAN] /\ made \in [Slots -> BOOLEAN]
    BY DEF Init
  <1>2. dir \in [Backups -> DirState] /\ pc \in [Workers -> PC]
    BY DEF Init, DirState, PC
  <1>3. /\ parent \in [Backups -> OptBackup] /\ stamp \in [Backups -> Nat]
        /\ bid \in [Slots -> OptBackup] /\ from \in [Slots -> OptBackup]
        /\ cur \in [Workers -> OptBackup]
    BY WorkersOf DEF Init
  <1>4. /\ listed \in [Workers -> SUBSET Backups] /\ seen \in [Workers -> SUBSET Backups]
        /\ todo \in [Workers -> SUBSET Backups]
    BY DEF Init
  <1>5. /\ checkpoints \subseteq Backups /\ minted \in 0 .. MaxBackups /\ clock \in Nat
        /\ inProgress \in BOOLEAN /\ inFlightId \in OptBackup
    <2>1. checkpoints = {} /\ minted = 0 /\ clock = 0 /\ inFlightId = None
      BY DEF Init
    <2>2. inProgress = FALSE
      BY DEF Init
    <2>3. inProgress \in BOOLEAN
      BY <2>2, Zenon
    <2>4. 0 \in 0 .. MaxBackups
      BY BackupAssumption
    <2> QED
      BY <2>1, <2>3, <2>4, WorkersOf
  <1>6. HasId
    <2>1. \A s \in Slots : pc[s] = "idle"
      BY WorkersOf DEF Init
    <2> QED
      BY <2>1 DEF HasId, WritePC
  <1> QED
    BY <1>1, <1>2, <1>3, <1>4, <1>5, <1>6 DEF TypeOK

\* The parts of the engine's state keep their types, whatever fails and however
\* calls interleave; a run that is past its registration has an id.
THEOREM TypeCorrect == Spec => [](TypeOK /\ HasId)
  <1>1. TypeOK /\ HasId /\ [Next]_vars => TypeOK' /\ HasId'
    BY TypeStep, HasIdStep
  <1> QED
    BY TypeInit, <1>1, PTL DEF Spec


(***************************************************************************)
(* Calls that do not overlap a run, and whose reads do not fail while a    *)
(* request may delete: the condition under which chains stay intact.       *)
(***************************************************************************)
Quiet == ~Overlap /\ (ReadErrors => Deleters = {})

\* A run has the engine to itself; housekeeping and deletes may overlap.
RunAlone ==
    \A s \in Slots, w \in Workers : pc[s] # "idle" /\ w # s => pc[w] = "idle"

\* Manifests are dated after their parents', and ids are used once.
ParentsOlder == \A b \in Complete : parent[b] # None => stamp[parent[b]] < stamp[b]
Dated == \A b \in Backups : stamp[b] <= clock
IdsMinted == (\A b \in Complete : b <= minted) /\ (\A s \in Slots : bid[s] <= minted)

\* What a run relies on: its own backup is not complete before the marker, and
\* the one it is a delta over is.
RunOK(s) ==
    /\ pc[s] \in WritePC \cup {"mkdir", "cleanup"} =>
           bid[s] \notin Complete /\ from[s] \in Complete \cup {None}
    /\ pc[s] = "mark" => /\ parent[bid[s]] = from[s]
                         /\ from[s] # None => stamp[from[s]] < stamp[bid[s]]
    /\ pc[s] \in {"idle", "findVm", "settings"} => from[s] = None

\* What a remover relies on: its list has, with a backup, all that builds on it.
LoopOK(w) ==
    /\ pc[w] \in {"retainRead", "delRead"} => Complete \subseteq listed[w]
    /\ pc[w] \in {"retain", "delete", "rm", "drop"} =>
           \A c \in Complete : parent[c] \in todo[w] => c \in todo[w]
    /\ pc[w] \in {"rm", "rmOnly"} => cur[w] \notin Complete
    /\ pc[w] = "sweep" => todo[w] \cap Complete = {}

QuietInv ==
    /\ TypeOK
    /\ HasId
    /\ RunAlone
    /\ ChainsIntact
    /\ ParentsOlder
    /\ Dated
    /\ IdsMinted
    /\ \A s \in Slots : RunOK(s)
    /\ \A w \in Workers : LoopOK(w)

(***************************************************************************)
(* What one step of a call can do.                                         *)
(***************************************************************************)

\* A step moves its own worker, and leaves the locals of the others alone.
WorkFrame(w) ==
    /\ pc[w] # "idle"
    /\ \A v \in Workers : v # w => /\ pc'[v] = pc[v] /\ listed'[v] = listed[v]
                                 /\ seen'[v] = seen[v] /\ todo'[v] = todo[v]
                                 /\ cur'[v] = cur[v]
    /\ \A t \in Slots : t # w => bid'[t] = bid[t] /\ from'[t] = from[t]

LEMMA WorkFrames ==
    ASSUME TypeOK, NEW w \in Workers, WorkStep(w)
    PROVE  WorkFrame(w)
  <1> USE WorkersOf DEF WorkFrame, run, work
  <1> /\ pc \in [Workers -> PC] /\ bid \in [Slots -> OptBackup]
      /\ from \in [Slots -> OptBackup] /\ cur \in [Workers -> OptBackup]
      /\ listed \in [Workers -> SUBSET Backups] /\ seen \in [Workers -> SUBSET Backups]
      /\ todo \in [Workers -> SUBSET Backups]
    BY DEF TypeOK
  <1>1. ASSUME w \in Slots, BackupStep(w) PROVE WorkFrame(w)
    <2>1. CASE Mint(w) \/ Finish(w)
      BY <2>1 DEF Mint, Finish, Step, Forget
    <2>2. CASE Register(w) \/ SettingsFail(w) \/ TakeFull(w) \/ ReadParent(w) \/ Precreate(w)
               \/ PlainCopy(w) \/ RunFail(w)
      BY <2>2 DEF Register, SettingsFail, TakeFull, ReadParent, Precreate, PlainCopy, RunFail,
                  Move, Step
    <2>3. CASE Mkdir(w) \/ VmGone(w) \/ Mark(w) \/ Cleanup(w)
      BY <2>3 DEF Mkdir, VmGone, Mark, Cleanup, SetDir, Move, Step
    <2>4. CASE Assess(w) \/ Log(w) \/ AssessRead(w) \/ AssessCheckpoint(w)
      BY <2>4 DEF Assess, Log, AssessRead, AssessCheckpoint, ScanOver, ReadDir, Move, Step
    <2>5. CASE BeginDelta(w) \/ BeginFull(w) \/ EndDelta(w) \/ EndFull(w) \/ Degrade(w)
      BY <2>5 DEF BeginDelta, BeginFull, EndDelta, EndFull, Copied, Degrade, SetCheckpoints,
                  Move, Step
    <2>6. CASE WriteManifest(w)
      BY <2>6 DEF WriteManifest, Step
    <2>7. CASE Names(w) \/ ReconcileRead(w) \/ Reconcile(w)
      BY <2>7 DEF Names, ReconcileRead, Reconcile, ReadDir, ScanOver, SetCheckpoints, SetTodo,
                  Move, Step
    <2> QED
      BY <1>1, <2>1, <2>2, <2>3, <2>4, <2>5, <2>6, <2>7 DEF BackupStep
  <1>2. CASE RetainStep(w)
    BY <1>2 DEF RetainStep, RetainRead, Retain, Retained, EndRetention, BeginRemove, SetDir,
                ScanOver, SetTodo, Forget, Step
  <1>3. CASE w \in Keepers /\ SweepStep(w)
    BY <1>3 DEF SweepStep, SweepHas, SweepList, SweepRead, Sweep, ReadDir, Return, SetDir,
                ScanOver, SetTodo, Forget, Move, Step
  <1>4. CASE w \in Deleters /\ DeleteStep(w)
    BY <1>4 DEF DeleteStep, DeleteRead, RemoveOnly, Delete, BeginRemove, Return, SetDir,
                ScanOver, SetTodo, Forget, Move, Step
  <1>5. CASE EndRemove(w) \/ RemoveFail(w) \/ DropCheckpoint(w)
    BY <1>5 DEF EndRemove, RemoveFail, EndRetention, Return, Forget, DropCheckpoint, SetDir,
                SetCheckpoints, Step
  <1> QED
    BY <1>1, <1>2, <1>3, <1>4, <1>5 DEF WorkStep

\* The step leaves the whole backups and what is known of them as they are.
DiskKept ==
    /\ Complete' = Complete
    /\ UNCHANGED <<parent, stamp, clock>>
    /\ minted' \in Nat /\ minted <= minted'

\* The step begins to remove b, in retention or in a delete.
Removes(w, b) ==
    /\ b \in todo[w]
    /\ \/ pc[w] = "retain" /\ Leaf(w, b)
       \/ pc[w] = "delete" /\ b \in Newest(todo[w])
    /\ pc' = [pc EXCEPT ![w] = "rm"]
    /\ BeginRemove(w, b)

\* Writing to a directory that is not, and does not become, a whole backup.
LEMMA SetDirKeeps ==
    ASSUME TypeOK, NEW b \in OptBackup, NEW d, SetDir(b, d), b \notin Complete, d # "complete"
    PROVE  DiskKept
  <1>1. \A c \in Backups : dir'[c] = IF c = b THEN d ELSE dir[c]
    BY DEF SetDir, TypeOK
  <1>2. Complete' = Complete
    BY <1>1 DEF Complete
  <1> QED
    BY <1>2 DEF SetDir, DiskKept, TypeOK

\* A directory that is no whole backup goes, or stays as it is.
LEMMA GoneOrLeftKeeps ==
    ASSUME TypeOK, NEW b \in OptBackup, b \notin Complete,
           NEW d \in Torn(b) \cup {"absent", dir[b]}, SetDir(b, d)
    PROVE  DiskKept
  <1>1. CASE b \in Backups
    <2>1. d # "complete"
      BY <1>1 DEF Torn, Complete
    <2> QED
      BY <2>1, SetDirKeeps
  <1>2. CASE b \notin Backups
    <2>1. dir' = dir
      BY <1>2 DEF SetDir, TypeOK
    <2> QED
      BY <2>1 DEF SetDir, DiskKept, Complete, TypeOK
  <1> QED
    BY <1>1, <1>2

LEMMA UnchangedKeeps ==
    ASSUME TypeOK, UNCHANGED disk
    PROVE  DiskKept
  BY DEF TypeOK, disk, DiskKept, Complete

\* The only steps that change which backups are whole are the marker and the
\* beginning of a removal; the only other one that touches a manifest writes it.
LEMMA DiskEffects ==
    ASSUME QuietInv, NEW w \in Workers, WorkStep(w)
    PROVE  \/ DiskKept
           \/ w \in Slots /\ (WriteManifest(w) \/ Mark(w))
           \/ \E b \in Backups : Removes(w, b)
  <1> SUFFICES ASSUME ~(w \in Slots /\ (WriteManifest(w) \/ Mark(w))),
                      ~(\E b \in Backups : Removes(w, b))
               PROVE  DiskKept
    OBVIOUS
  <1> USE WorkersOf
  <1>1. TypeOK /\ LoopOK(w) /\ (w \in Slots => RunOK(w))
    BY DEF QuietInv
  <1>2. cur[w] \in OptBackup /\ todo[w] \subseteq Backups /\ (w \in Slots => bid[w] \in OptBackup)
    BY <1>1 DEF TypeOK
  <1>3. ASSUME w \in Slots, BackupStep(w) PROVE DiskKept
    <2>1. CASE Mkdir(w)
      <3>1. CASE UNCHANGED disk
        BY <3>1, <1>1, UnchangedKeeps
      <3>2. CASE SetDir(bid[w], "open")
        <4>1. bid[w] \notin Complete
          BY <2>1, <1>1, <1>3 DEF Mkdir, Move, Step, RunOK, WritePC
        <4> QED
          BY <3>2, <4>1, <1>1, <1>2, <1>3, SetDirKeeps
      <3> QED
        BY <2>1, <3>1, <3>2 DEF Mkdir, Move
    <2>2. CASE Cleanup(w) \/ VmGone(w)
      <3>1. bid[w] \notin Complete
        BY <2>2, <1>1, <1>3 DEF Cleanup, VmGone, Step, RunOK, WritePC
      <3>2. PICK d \in {"absent", dir[bid[w]]} : SetDir(bid[w], d)
        BY <2>2 DEF Cleanup, VmGone
      <3> QED
        BY <3>1, <3>2, <1>1, <1>2, <1>3, GoneOrLeftKeeps
    <2>3. CASE Mint(w)
      <3>1. minted' \in Nat /\ minted <= minted' /\ UNCHANGED <<dir, parent, stamp, clock>>
        BY <2>3, <1>1 DEF Mint, TypeOK
      <3> QED
        BY <3>1 DEF DiskKept, Complete
    <2>4. CASE UNCHANGED disk
      BY <2>4, <1>1, UnchangedKeeps
    <2> QED
      BY <1>3, <2>1, <2>2, <2>3, <2>4
      DEF BackupStep, Register, SettingsFail, TakeFull, ReadParent, Precreate, PlainCopy,
          RunFail, Assess, Log, AssessRead, AssessCheckpoint, ReadDir, Move, BeginDelta,
          BeginFull, EndDelta, EndFull, Copied, Degrade, SetCheckpoints, Names, ReconcileRead,
          Reconcile, Finish
  <1>4. CASE RetainStep(w)
    <2>1. CASE Retain(w)
      BY <2>1, <1>1, <1>2 DEF Retain, Leaf, Removes, Step
    <2>2. CASE UNCHANGED disk
      BY <2>2, <1>1, UnchangedKeeps
    <2> QED
      BY <1>4, <2>1, <2>2 DEF RetainStep, RetainRead, Retained, EndRetention
  <1>5. CASE w \in Keepers /\ SweepStep(w)
    <2>1. ASSUME NEW b \in todo[w], Step(w, "sweep", "sweep"), SetDir(b, "absent") PROVE DiskKept
      <3>1. b \in OptBackup /\ b \notin Complete
        BY <2>1, <1>1, <1>2 DEF LoopOK, Step
      <3> QED
        BY <2>1, <3>1, <1>1, SetDirKeeps
    <2>2. CASE UNCHANGED disk
      BY <2>2, <1>1, UnchangedKeeps
    <2> QED
      BY <1>5, <2>1, <2>2
      DEF SweepStep, SweepHas, SweepList, SweepRead, Sweep, Move, Return, ReadDir
  <1>6. CASE w \in Deleters /\ DeleteStep(w)
    <2>1. CASE RemoveOnly(w)
      <3>1. cur[w] \notin Complete
        BY <2>1, <1>1 DEF RemoveOnly, LoopOK, Step
      <3>2. PICK left \in Torn(cur[w]) \cup {"absent", dir[cur[w]]} : SetDir(cur[w], left)
        BY <2>1 DEF RemoveOnly
      <3> QED
        BY <3>1, <3>2, <1>1, <1>2, GoneOrLeftKeeps
    <2>2. ASSUME NEW b \in Newest(todo[w]), Step(w, "delete", "rm"), BeginRemove(w, b)
          PROVE  DiskKept
      BY <2>2, <1>2 DEF Newest, Removes, Step
    <2>3. CASE UNCHANGED disk
      BY <2>3, <1>1, UnchangedKeeps
    <2> QED
      BY <1>6, <2>1, <2>2, <2>3 DEF DeleteStep, DeleteRead, Delete, Move, Return
  <1>7. CASE EndRemove(w)
    <2>1. cur[w] \notin Complete
      BY <1>7, <1>1 DEF EndRemove, LoopOK, Step
    <2> QED
      BY <1>7, <2>1, <1>1, <1>2, SetDirKeeps DEF EndRemove
  <1>8. CASE RemoveFail(w) \/ DropCheckpoint(w)
    BY <1>8, <1>1, UnchangedKeeps
    DEF RemoveFail, Return, EndRetention, DropCheckpoint, SetCheckpoints
  <1> QED
    BY <1>3, <1>4, <1>5, <1>6, <1>7, <1>8 DEF WorkStep

\* What a removal takes away is the victim, and no whole backup builds on it.
LEMMA RemovalEffects ==
    ASSUME QuietInv, NEW w \in Workers, NEW b \in Backups, Removes(w, b)
    PROVE  /\ Complete' = Complete \ {b}
           /\ \A c \in Complete : parent[c] # b
           /\ UNCHANGED <<parent, stamp, minted, clock, bid, from>>
  <1>1. TypeOK /\ LoopOK(w) /\ ParentsOlder
    BY DEF QuietInv
  <1>2. PICK rest \in Torn(b) : SetDir(b, rest)
    BY DEF Removes, BeginRemove
  <1>3. \A c \in Backups : dir'[c] = IF c = b THEN rest ELSE dir[c]
    BY <1>1, <1>2 DEF SetDir, TypeOK
  <1>4. rest # "complete"
    BY <1>2 DEF Torn
  <1>5. Complete' = Complete \ {b}
    BY <1>3, <1>4 DEF Complete
  <1>6. ASSUME NEW c \in Complete, parent[c] = b PROVE FALSE
    <2>1. c \in todo[w]
      BY <1>1, <1>6 DEF Removes, LoopOK
    <2>2. stamp[b] < stamp[c]
      BY <1>1, <1>6, WorkersOf DEF ParentsOlder
    <2>3. stamp[b] \in Nat /\ stamp[c] \in Nat
      BY <1>1 DEF TypeOK, Complete
    <2> QED
      BY <1>6, <2>1, <2>2, <2>3 DEF Removes, Leaf, Newest
  <1> QED
    BY <1>2, <1>5, <1>6 DEF SetDir, run

\* What a marker adds is the run's backup, on top of a whole one or of none.
LEMMA MarkEffects ==
    ASSUME QuietInv, NEW s \in Slots, Mark(s)
    PROVE  /\ bid[s] \in Backups /\ bid[s] \notin Complete
           /\ Complete' = Complete \cup {bid[s]}
           /\ parent[bid[s]] \in Complete \cup {None}
           /\ parent[bid[s]] # None => stamp[parent[bid[s]]] < stamp[bid[s]]
           /\ UNCHANGED <<parent, stamp, minted, clock, bid, from>>
  <1>1. TypeOK /\ RunOK(s) /\ HasId
    BY DEF QuietInv
  <1>2. pc[s] = "mark" /\ SetDir(bid[s], "complete")
    BY DEF Mark, Step
  <1>3. bid[s] \in Backups /\ bid[s] \notin Complete
    BY <1>1, <1>2 DEF HasId, RunOK, WritePC
  <1>4. Complete' = Complete \cup {bid[s]}
    BY <1>1, <1>2, <1>3 DEF SetDir, TypeOK, Complete
  <1> QED
    BY <1>1, <1>2, <1>3, <1>4 DEF SetDir, run, RunOK, WritePC

\* What a manifest changes is the run's own backup, which is not whole yet.
LEMMA ManifestEffects ==
    ASSUME QuietInv, NEW s \in Slots, WriteManifest(s)
    PROVE  /\ bid[s] \in Backups /\ bid[s] \notin Complete
           /\ Complete' = Complete
           /\ \A b \in Backups \ {bid[s]} : parent'[b] = parent[b] /\ stamp'[b] = stamp[b]
           /\ parent'[bid[s]] = from[s] /\ stamp'[bid[s]] = clock + 1 /\ clock' = clock + 1
           /\ UNCHANGED <<minted, bid, from>>
  <1>1. TypeOK /\ RunOK(s) /\ HasId
    BY DEF QuietInv
  <1>2. pc[s] = "manifest"
    BY DEF WriteManifest, Step
  <1>3. bid[s] \in Backups /\ bid[s] \notin Complete
    BY <1>1, <1>2 DEF HasId, RunOK, WritePC
  <1>4. \A b \in Backups : dir'[b] = IF b = bid[s] THEN "manifest" ELSE dir[b]
    BY <1>1 DEF WriteManifest, TypeOK
  <1>5. Complete' = Complete
    BY <1>3, <1>4 DEF Complete
  <1> QED
    BY <1>1, <1>3, <1>5 DEF WriteManifest, TypeOK, run

\* The conjuncts about the disk survive each of the four effects.
LEMMA DiskInvStep ==
    ASSUME QuietInv, TypeOK', NEW w \in Workers, WorkStep(w)
    PROVE  ChainsIntact' /\ ParentsOlder' /\ Dated' /\ (\A b \in Complete' : b <= minted')
  <1> USE WorkersOf
  <1>1. TypeOK /\ ChainsIntact /\ ParentsOlder /\ Dated /\ IdsMinted
    BY DEF QuietInv
  <1>2. Complete \subseteq Backups
    BY DEF Complete
  <1>3. minted \in Nat /\ clock \in Nat /\ \A b \in Backups : stamp[b] \in Nat
    BY <1>1 DEF TypeOK
  <1>4. CASE DiskKept
    BY <1>1, <1>2, <1>3, <1>4 DEF DiskKept, ChainsIntact, ParentsOlder, Dated, IdsMinted
  <1>5. CASE w \in Slots /\ WriteManifest(w)
    <2> DEFINE b == bid[w]
    <2>1. /\ b \in Backups /\ b \notin Complete /\ Complete' = Complete /\ minted' = minted
          /\ \A c \in Backups \ {b} : parent'[c] = parent[c] /\ stamp'[c] = stamp[c]
          /\ stamp'[b] = clock + 1 /\ clock' = clock + 1
      BY <1>5, ManifestEffects
    <2>2. ChainsIntact'
      BY <1>1, <1>2, <2>1 DEF ChainsIntact
    <2>3. ParentsOlder'
      <3> SUFFICES ASSUME NEW c \in Complete, parent[c] # None
                   PROVE  stamp'[parent[c]] < stamp'[c]
        BY <1>2, <2>1 DEF ParentsOlder
      <3>1. parent[c] \in Complete
        BY <1>1 DEF ChainsIntact
      <3> QED
        BY <1>1, <1>2, <2>1, <3>1 DEF ParentsOlder
    <2>4. Dated'
      BY <1>1, <1>3, <2>1 DEF Dated
    <2> QED
      BY <1>1, <2>1, <2>2, <2>3, <2>4 DEF IdsMinted
  <1>6. CASE w \in Slots /\ Mark(w)
    BY <1>1, <1>2, <1>6, MarkEffects DEF ChainsIntact, ParentsOlder, Dated, IdsMinted
  <1>7. ASSUME NEW b \in Backups, Removes(w, b)
        PROVE  ChainsIntact' /\ ParentsOlder' /\ Dated' /\ (\A c \in Complete' : c <= minted')
    BY <1>1, <1>2, <1>7, RemovalEffects DEF ChainsIntact, ParentsOlder, Dated, IdsMinted
  <1> QED
    BY <1>4, <1>5, <1>6, <1>7, DiskEffects

(***************************************************************************)
(* The workers' own parts of the invariant.                                *)
(***************************************************************************)

\* A worker that does not move keeps its part, whatever the one that moves does:
\* a run has the engine to itself, and removals only make its part weaker.
LEMMA OthersKept ==
    ASSUME QuietInv, TypeOK', NEW w \in Workers, WorkStep(w)
    PROVE  /\ RunAlone'
           /\ \A t \in Slots : t # w => RunOK(t)'
           /\ \A v \in Workers : v # w => LoopOK(v)'
  <1> USE WorkersOf
  <1>1. WorkFrame(w)
    BY WorkFrames DEF QuietInv
  <1>2. \A s \in Slots, v \in Workers : pc[s] # "idle" /\ v # s => pc[v] = "idle"
    BY DEF QuietInv, RunAlone
  <1>3. RunAlone'
    BY <1>1, <1>2 DEF RunAlone, WorkFrame
  <1>4. ASSUME NEW t \in Slots, t # w PROVE RunOK(t)'
    <2>1. pc[t] = "idle" /\ pc'[t] = "idle" /\ from'[t] = from[t]
      BY <1>1, <1>2, <1>4 DEF WorkFrame
    <2>2. from[t] = None
      BY <2>1 DEF QuietInv, RunOK
    <2> QED
      BY <2>1, <2>2 DEF RunOK, WritePC
  <1>5. ASSUME NEW v \in Workers, v # w PROVE LoopOK(v)'
    <2>1. /\ pc'[v] = pc[v] /\ listed'[v] = listed[v] /\ todo'[v] = todo[v]
          /\ cur'[v] = cur[v]
      BY <1>1, <1>5 DEF WorkFrame
    <2>2. CASE w \in Slots
      <3>1. pc'[v] = "idle"
        BY <1>1, <1>2, <1>5, <2>1, <2>2 DEF WorkFrame
      <3> QED
        BY <3>1 DEF LoopOK
    <2>3. CASE w \notin Slots
      <3>1. Complete' \subseteq Complete /\ parent' = parent
        BY <2>3, DiskEffects, RemovalEffects DEF DiskKept
      <3>2. LoopOK(v)
        BY DEF QuietInv
      <3> QED
        BY <2>1, <3>1, <3>2 DEF LoopOK
    <2> QED
      BY <2>2, <2>3
  <1> QED
    BY <1>3, <1>4, <1>5

\* Awaits at which a worker relies on nothing.
LEMMA NothingToKeep ==
    ASSUME NEW w \in Workers,
           pc'[w] \in {"log", "names", "recRead", "reconcile", "finally"}
    PROVE  LoopOK(w)' /\ RunOK(w)'
  BY DEF LoopOK, RunOK, WritePC

\* A run up to its marker: its backup and its parent stay what they were.
LEMMA RunningStep ==
    ASSUME QuietInv, NEW s \in Slots, BackupStep(s), DiskKept,
           pc[s] \in WritePC \cup {"mkdir"},
           pc'[s] \in (WritePC \cup {"cleanup"}) \ {"mark"},
           bid'[s] = bid[s], from'[s] \in {from[s], None} \cup Complete
    PROVE  RunOK(s)' /\ LoopOK(s)'
  <1>1. bid[s] \notin Complete /\ from[s] \in Complete \cup {None}
    BY DEF QuietInv, RunOK
  <1>2. bid'[s] \notin Complete' /\ from'[s] \in Complete' \cup {None}
    BY <1>1 DEF DiskKept
  <1>3. pc'[s] \notin {"mark", "idle", "findVm", "settings"}
    BY DEF WritePC
  <1>4. LoopOK(s)'
    BY DEF LoopOK, WritePC
  <1> QED
    BY <1>2, <1>3, <1>4 DEF RunOK

LEMMA BackupStepKeeps ==
    ASSUME QuietInv, TypeOK', NEW s \in Slots, BackupStep(s)
    PROVE  RunOK(s)' /\ LoopOK(s)' /\ bid'[s] <= minted'
  <1> USE WorkersOf
  <1>1. TypeOK /\ RunOK(s) /\ IdsMinted
    BY DEF QuietInv
  <1>2. pc \in [Workers -> PC] /\ bid \in [Slots -> OptBackup] /\ from \in [Slots -> OptBackup]
        /\ minted \in Nat /\ clock \in Nat /\ bid[s] \in Nat /\ bid[s] <= minted
    BY <1>1 DEF TypeOK, IdsMinted, OptBackup, None
  <1>3. WorkStep(s)
    BY DEF WorkStep
  <1>4. CASE Register(s)
    <2>1. from'[s] = None /\ pc'[s] = "settings" /\ bid' = bid /\ minted' = minted
      BY <1>1, <1>2, <1>4 DEF Register, Step, RunOK, run, disk
    <2> QED
      BY <1>2, <2>1 DEF RunOK, LoopOK, WritePC
  <1>5. CASE Mint(s)
    <2>1. /\ from'[s] = None /\ pc'[s] = "mkdir" /\ bid'[s] = minted + 1
          /\ minted' = minted + 1 /\ dir' = dir
      BY <1>1, <1>2, <1>5 DEF Mint, Step, RunOK
    <2>2. Complete' = Complete /\ minted + 1 \notin Complete
      BY <1>1, <1>2, <2>1 DEF Complete, IdsMinted
    <2> QED
      BY <1>2, <2>1, <2>2 DEF RunOK, LoopOK
  <1>6. CASE Finish(s)
    <2>1. from'[s] = None /\ pc'[s] = "idle" /\ bid'[s] = None /\ minted' = minted
      BY <1>2, <1>6 DEF Finish, Step, disk
    <2> QED
      BY <1>2, <2>1 DEF RunOK, LoopOK, WritePC, None
  <1>7. CASE WriteManifest(s)
    <2>1. pc[s] = "manifest" /\ pc'[s] = "mark"
      BY <1>2, <1>7 DEF WriteManifest, Step
    <2>2. from[s] \in Complete \cup {None}
      BY <1>1, <2>1 DEF RunOK, WritePC
    <2>3. from[s] # None => stamp[from[s]] \in Nat /\ stamp[from[s]] <= clock
      BY <1>1, <2>2 DEF QuietInv, Dated, Complete, TypeOK
    <2>4. from[s] # bid[s] /\ from[s] # None => stamp'[from[s]] = stamp[from[s]]
      BY <1>7, <2>2, ManifestEffects DEF Complete
    <2>5. from[s] # None => stamp'[from[s]] < stamp'[bid[s]]
      BY <1>2, <1>7, <2>2, <2>3, <2>4, ManifestEffects
    <2> QED
      BY <1>2, <1>7, <2>1, <2>2, <2>5, ManifestEffects DEF RunOK, LoopOK, WritePC
  <1>8. CASE Mark(s)
    <2>1. pc'[s] = "log"
      BY <1>2, <1>8 DEF Mark, Step
    <2> QED
      BY <1>2, <1>8, <2>1, MarkEffects, NothingToKeep
  <1> SUFFICES ASSUME ~Register(s), ~Mint(s), ~Finish(s), ~WriteManifest(s), ~Mark(s)
               PROVE  RunOK(s)' /\ LoopOK(s)' /\ bid'[s] <= minted'
    BY <1>4, <1>5, <1>6, <1>7, <1>8
  <1>9. bid' = bid
    BY DEF BackupStep, SettingsFail, TakeFull, ReadParent, Precreate, PlainCopy, RunFail,
           Assess, Log, AssessRead, AssessCheckpoint, ReadDir, Move, BeginDelta, BeginFull,
           EndDelta, EndFull, Copied, Degrade, SetCheckpoints, Names, ReconcileRead, Reconcile,
           Mkdir, VmGone, Cleanup, SetDir, run
  <1>10. ~\E b \in Backups : Removes(s, b)
    <2>1. pc[s] \notin {"retain", "delete"}
      BY DEF BackupStep, SettingsFail, TakeFull, ReadParent, Precreate, PlainCopy, RunFail,
             Assess, Log, AssessRead, AssessCheckpoint, Move, Step, BeginDelta, BeginFull,
             EndDelta, EndFull, Copied, Degrade, Names, ReconcileRead, Reconcile,
             Mkdir, VmGone, Cleanup
    <2> QED
      BY <2>1 DEF Removes
  <1>11. DiskKept
    BY <1>3, <1>10, DiskEffects
  <1>12. bid'[s] <= minted'
    BY <1>2, <1>9, <1>11 DEF DiskKept
  <1>13. CASE pc'[s] \in {"log", "names", "recRead", "reconcile", "finally"}
    BY <1>12, <1>13, NothingToKeep
  <1>14. CASE Log(s) /\ pc'[s] = "retainRead"
    <2>1. listed'[s] = {b \in Backups : dir[b] # "absent"}
      BY <1>1, <1>2, <1>14 DEF Log, Move, Step, ReadDir, TypeOK
    <2>2. Complete \subseteq listed'[s]
      BY <2>1 DEF Complete
    <2> QED
      BY <1>11, <1>12, <1>14, <2>2 DEF DiskKept, LoopOK, RunOK, WritePC
  <1>15. /\ pc[s] \in WritePC \cup {"mkdir"}
         /\ pc'[s] \in (WritePC \cup {"cleanup"}) \ {"mark"}
         /\ from'[s] \in {from[s], None} \cup Complete
         => RunOK(s)' /\ LoopOK(s)'
    BY <1>9, <1>11, RunningStep
  <1>16. CASE Mkdir(s) \/ TakeFull(s) \/ Assess(s) \/ ReadParent(s) \/ Precreate(s)
              \/ BeginDelta(s) \/ BeginFull(s) \/ EndDelta(s) \/ EndFull(s) \/ PlainCopy(s)
              \/ RunFail(s)
    <2>1. from' = from
      BY <1>16 DEF Mkdir, TakeFull, Assess, ReadParent, Precreate, BeginDelta, BeginFull,
                   EndDelta, EndFull, Copied, PlainCopy, RunFail, Move, SetDir, ReadDir,
                   SetCheckpoints, run
    <2>2. /\ pc[s] \in WritePC \cup {"mkdir"}
          /\ pc'[s] \in ((WritePC \cup {"cleanup"}) \ {"mark"}) \cup {"finally"}
      BY <1>2, <1>16 DEF Mkdir, TakeFull, Assess, ReadParent, Precreate, BeginDelta, BeginFull,
                   EndDelta, EndFull, Copied, PlainCopy, RunFail, Move, Step, WritePC
    <2> QED
      BY <1>12, <1>13, <1>15, <2>1, <2>2
  <1>17. CASE AssessRead(s)
    <2>1. from'[s] \in {from[s]} \cup Complete
      <3>1. ASSUME NEW scan \in Scans(listed[s]), NEW p \in Candidates(scan.manifests)
            PROVE  p \in Complete
        <4>1. listed[s] \in SUBSET Backups
          BY <1>1 DEF TypeOK
        <4> QED
          BY <1>1, <3>1, <4>1, ScansReturn DEF Candidates, Newest, Complete
      <3> QED
        BY <1>2, <1>17, <3>1 DEF AssessRead
    <2>2. pc[s] = "read" /\ pc'[s] \in {"beginFull", "checkpoint"}
      BY <1>2, <1>17 DEF AssessRead, Step
    <2> QED
      BY <1>12, <1>15, <2>1, <2>2 DEF WritePC
  <1>18. CASE AssessCheckpoint(s) \/ Degrade(s)
    <2>1. from'[s] \in {from[s], None}
      BY <1>2, <1>18 DEF AssessCheckpoint, Degrade, Move, run
    <2>2. pc[s] \in {"checkpoint", "degrade"} /\ pc'[s] \in {"parent", "beginFull"}
      BY <1>2, <1>18 DEF AssessCheckpoint, Degrade, Move, Step
    <2> QED
      BY <1>12, <1>15, <2>1, <2>2 DEF WritePC
  <1>19. CASE SettingsFail(s) \/ VmGone(s) \/ Cleanup(s) \/ Names(s) \/ ReconcileRead(s)
              \/ Reconcile(s)
    <2>1. pc'[s] \in {"names", "recRead", "reconcile", "finally"}
      BY <1>2, <1>19 DEF SettingsFail, VmGone, Cleanup, Names, ReconcileRead, Reconcile,
                         Move, Step
    <2> QED
      BY <1>13, <2>1
  <1>20. CASE Log(s)
    <2>1. pc'[s] \in {"retainRead", "finally"}
      BY <1>2, <1>20 DEF Log, Move, Step
    <2> QED
      BY <1>13, <1>14, <1>20, <2>1
  <1> QED
    BY <1>16, <1>17, <1>18, <1>19, <1>20 DEF BackupStep

\* Taking a victim out of a remover's list leaves a list that has, with every
\* backup that is still whole, all that builds on it.
LEMMA RemovesKeeps ==
    ASSUME QuietInv, NEW w \in Workers, NEW b \in Backups, Removes(w, b)
    PROVE  LoopOK(w)' /\ (w \in Slots => RunOK(w)')
  <1>1. TypeOK /\ LoopOK(w)
    BY DEF QuietInv
  <1>2. todo'[w] = todo[w] \ {b} /\ cur'[w] = b /\ pc'[w] = "rm"
    BY <1>1 DEF Removes, BeginRemove, SetTodo, TypeOK
  <1>3. \A c \in Complete : parent[c] \in todo[w] => c \in todo[w]
    BY <1>1 DEF Removes, LoopOK
  <1>4. Complete' = Complete \ {b} /\ parent' = parent
    BY RemovalEffects
  <1> QED
    BY <1>2, <1>3, <1>4 DEF LoopOK, RunOK, WritePC

LEMMA RetainStepKeeps ==
    ASSUME QuietInv, NEW w \in Workers, RetainStep(w)
    PROVE  LoopOK(w)' /\ (w \in Slots => RunOK(w)')
  <1>1. TypeOK /\ LoopOK(w)
    BY DEF QuietInv
  <1>2. pc \in [Workers -> PC] /\ todo \in [Workers -> SUBSET Backups]
    BY <1>1 DEF TypeOK
  <1>3. CASE Retain(w)
    BY <1>3, RemovesKeeps DEF Retain, Leaf, Removes, Step
  <1>4. CASE EndRetention(w, "retainRead") \/ EndRetention(w, "retain")
    <2>1. pc'[w] \in {"names", "sweepHas"}
      BY <1>2, <1>4 DEF EndRetention, Step
    <2> QED
      BY <2>1 DEF LoopOK, RunOK, WritePC
  <1>5. ASSUME NEW scan \in Scans(listed[w]), Step(w, "retainRead", "retain"),
               scan.unreadable = {}, SetTodo(w, scan.manifests),
               UNCHANGED <<disk, checkpoints, entry, run, cur>>
        PROVE  LoopOK(w)' /\ (w \in Slots => RunOK(w)')
    <2>1. pc'[w] = "retain" /\ todo'[w] = scan.manifests /\ dir' = dir /\ parent' = parent
      BY <1>2, <1>5 DEF SetTodo, Step, disk
    <2>2. Complete \subseteq listed[w]
      BY <1>1, <1>5 DEF LoopOK, Step
    <2>3. scan.manifests = Complete \/ scan.manifests = {}
      <3>1. {b \in listed[w] : dir[b] = "complete"} = Complete
        BY <1>1, <2>2 DEF TypeOK, Complete
      <3> QED
        BY <1>5, <3>1, BackupAssumption DEF Scans
    <2>4. Complete' = Complete
      BY <2>1 DEF Complete
    <2> QED
      BY <2>1, <2>3, <2>4 DEF LoopOK, RunOK, WritePC
  <1> QED
    BY <1>3, <1>4, <1>5 DEF RetainStep, RetainRead, Retained

LEMMA SweepStepKeeps ==
    ASSUME QuietInv, NEW k \in Keepers, SweepStep(k)
    PROVE  LoopOK(k)'
  <1> USE WorkersOf
  <1>1. TypeOK /\ LoopOK(k)
    BY DEF QuietInv
  <1>2. pc \in [Workers -> PC] /\ todo \in [Workers -> SUBSET Backups]
    BY <1>1 DEF TypeOK
  <1>3. CASE SweepHas(k) \/ SweepList(k)
    <2>1. pc'[k] \in {"sweepList", "idle", "sweepRead"}
      BY <1>2, <1>3 DEF SweepHas, SweepList, Move, Return, Step
    <2> QED
      BY <2>1 DEF LoopOK
  <1>4. CASE SweepRead(k)
    <2>1. PICK scan \in Scans(listed[k]) : \E old \in SUBSET scan.incomplete : SetTodo(k, old)
      BY <1>4 DEF SweepRead
    <2>2. scan.incomplete \cap Complete = {}
      BY <1>1, ScansReturn DEF Complete, TypeOK
    <2>3. todo'[k] \subseteq scan.incomplete
      BY <1>2, <2>1 DEF SetTodo
    <2>4. pc'[k] = "sweep" /\ Complete' = Complete
      BY <1>2, <1>4 DEF SweepRead, Step, Complete, disk
    <2> QED
      BY <2>2, <2>3, <2>4 DEF LoopOK
  <1>5. CASE Sweep(k)
    <2>1. CASE Return(k, "sweep")
      <3>1. pc'[k] = "idle"
        BY <1>2, <2>1 DEF Return, Step
      <3> QED
        BY <3>1 DEF LoopOK
    <2>2. ASSUME NEW b \in todo[k], Step(k, "sweep", "sweep"), SetDir(b, "absent"),
                 SetTodo(k, todo[k] \ {b})
          PROVE  LoopOK(k)'
      <3>1. pc'[k] = "sweep" /\ todo'[k] \subseteq todo[k] /\ todo[k] \cap Complete = {}
        BY <1>1, <1>2, <2>2 DEF SetTodo, Step, LoopOK
      <3>2. Complete' \subseteq Complete
        BY <1>1, <2>2 DEF SetDir, Complete, TypeOK
      <3> QED
        BY <3>1, <3>2 DEF LoopOK
    <2> QED
      BY <1>5, <2>1, <2>2 DEF Sweep
  <1> QED
    BY <1>3, <1>4, <1>5 DEF SweepStep

\* What builds on b, directly or not, has with a backup all that builds on it.
LEMMA DescendantsClosed ==
    ASSUME NEW M, NEW b, NEW c \in M, parent[c] \in Descendants(M, b) \cup {b}
    PROVE  c \in Descendants(M, b)
  BY DEF Descendants

LEMMA DeleteStepKeeps ==
    ASSUME QuietInv, Quiet, NEW d \in Deleters, DeleteStep(d)
    PROVE  LoopOK(d)'
  <1> USE WorkersOf
  <1>1. TypeOK /\ LoopOK(d) /\ ~ReadErrors
    BY DEF QuietInv, Quiet
  <1>2. pc \in [Workers -> PC] /\ todo \in [Workers -> SUBSET Backups]
    BY <1>1 DEF TypeOK
  <1>3. CASE DeleteRead(d)
    <2>1. pc[d] = "delRead" /\ dir' = dir /\ parent' = parent
      BY <1>3 DEF DeleteRead, Move, Return, Step, disk
    <2>2. Complete \subseteq listed[d] /\ Complete' = Complete
      BY <1>1, <2>1 DEF LoopOK, Complete
    <2>3. \A scan \in Scans(listed[d]) : scan.manifests = Complete
      <3>1. \A scan \in Scans(listed[d]) :
                scan.manifests = {b \in listed[d] : dir[b] = "complete"}
        BY <1>1, ScansReturn DEF TypeOK
      <3>2. {b \in listed[d] : dir[b] = "complete"} = Complete
        BY <1>1, <2>2 DEF Complete, TypeOK
      <3> QED
        BY <3>1, <3>2
    <2>4. CASE Return(d, "delRead")
      <3>1. pc'[d] = "idle"
        BY <1>2, <2>4 DEF Return, Step
      <3> QED
        BY <3>1 DEF LoopOK
    <2>5. CASE cur[d] \notin Complete /\ Move(d, "delRead", "rmOnly")
      <3>1. pc'[d] = "rmOnly" /\ cur'[d] = cur[d]
        BY <1>2, <2>5 DEF Move, Step, work
      <3> QED
        BY <2>2, <2>5, <3>1 DEF LoopOK
    <2>6. CASE /\ Step(d, "delRead", "delete")
               /\ SetTodo(d, Descendants(Complete, cur[d]) \cup {cur[d]})
      <3>1. pc'[d] = "delete" /\ todo'[d] = Descendants(Complete, cur[d]) \cup {cur[d]}
        BY <1>2, <2>6 DEF SetTodo, Step
      <3>2. \A c \in Complete : parent[c] \in todo'[d] => c \in todo'[d]
        BY <3>1, DescendantsClosed
      <3> QED
        BY <2>1, <2>2, <3>1, <3>2 DEF LoopOK
    <2> QED
      BY <1>3, <2>3, <2>4, <2>5, <2>6 DEF DeleteRead
  <1>4. CASE RemoveOnly(d)
    <2>1. pc'[d] = "idle"
      BY <1>2, <1>4 DEF RemoveOnly, Step
    <2> QED
      BY <2>1 DEF LoopOK
  <1>5. CASE Delete(d)
    <2>1. CASE Return(d, "delete")
      <3>1. pc'[d] = "idle"
        BY <1>2, <2>1 DEF Return, Step
      <3> QED
        BY <3>1 DEF LoopOK
    <2>2. ASSUME NEW b \in Newest(todo[d]), Step(d, "delete", "rm"), BeginRemove(d, b)
          PROVE  LoopOK(d)'
      BY <1>2, <2>2, RemovesKeeps DEF Newest, Removes, Step
    <2> QED
      BY <1>5, <2>1, <2>2 DEF Delete
  <1> QED
    BY <1>3, <1>4, <1>5 DEF DeleteStep

LEMMA LoopStepKeeps ==
    ASSUME QuietInv, NEW w \in Workers, EndRemove(w) \/ RemoveFail(w) \/ DropCheckpoint(w)
    PROVE  LoopOK(w)' /\ (w \in Slots => RunOK(w)')
  <1>1. TypeOK /\ LoopOK(w)
    BY DEF QuietInv
  <1>2. CASE RemoveFail(w)
    <2>1. pc'[w] \in {"idle", "names", "sweepHas"} /\ (w \in Slots => pc'[w] = "names")
      BY <1>1, <1>2, BackupAssumption
      DEF RemoveFail, EndRetention, Return, Step, TypeOK, Workers
    <2> QED
      BY <2>1 DEF LoopOK, RunOK, WritePC
  <1>3. CASE EndRemove(w) \/ DropCheckpoint(w)
    <2>1. /\ pc[w] \in {"rm", "drop"} /\ pc'[w] \in {"drop", "delete", "retain"}
          /\ todo'[w] = todo[w]
      BY <1>1, <1>3 DEF EndRemove, DropCheckpoint, Step, TypeOK, work
    <2>2. Complete' \subseteq Complete /\ parent' = parent
      BY <1>1, <1>3 DEF EndRemove, DropCheckpoint, SetDir, SetCheckpoints, Complete, TypeOK, disk
    <2> QED
      BY <1>1, <2>1, <2>2 DEF LoopOK, RunOK, WritePC
  <1> QED
    BY <1>2, <1>3

(***************************************************************************)
(* The invariant, and the two theorems.                                    *)
(***************************************************************************)

\* A call can only start when no run is under way.
LEMMA StartKeeps ==
    ASSUME QuietInv, Quiet,
           \/ \E s \in Slots : Request(s)
           \/ \E k \in Keepers : StartKeeping(k)
           \/ \E d \in Deleters : StartDelete(d)
    PROVE  RunAlone' /\ (\A s \in Slots : RunOK(s)') /\ (\A w \in Workers : LoopOK(w)')
  <1> USE WorkersOf DEF Quiet
  <1>1. /\ TypeOK /\ RunAlone
        /\ \A s \in Slots : RunOK(s)
        /\ \A w \in Workers : LoopOK(w)
    BY DEF QuietInv
  <1>2. pc \in [Workers -> PC]
    BY <1>1 DEF TypeOK
  <1>3. /\ UNCHANGED <<disk, run, todo>>
        /\ Complete' = Complete
    BY DEF Request, StartKeeping, StartDelete, ReadDir, Move, work, disk, Complete
  <1>4. ASSUME NEW s \in Slots, Request(s)
        PROVE  RunAlone' /\ (\A t \in Slots : RunOK(t)') /\ (\A w \in Workers : LoopOK(w)')
    <2>1. \A w \in Workers : pc[w] = "idle"
      BY <1>4 DEF Request, Idle
    <2>2. \A w \in Workers : pc'[w] = IF w = s THEN "findVm" ELSE "idle"
      BY <1>2, <1>4, <2>1 DEF Request, Move, Step
    <2>3. \A t \in Slots : from[t] = None
      BY <1>1, <2>1 DEF RunOK
    <2> QED
      BY <1>3, <2>2, <2>3 DEF RunAlone, RunOK, LoopOK, WritePC, run
  <1>5. ASSUME NEW w \in Workers, w \notin Slots, Idle(Slots), ReadDir(w),
               pc' = [pc EXCEPT ![w] = IF w \in Keepers THEN "retainRead" ELSE "delRead"],
               \A v \in Workers : v # w => cur'[v] = cur[v]
        PROVE  RunAlone' /\ (\A t \in Slots : RunOK(t)') /\ (\A v \in Workers : LoopOK(v)')
    <2>1. \A s \in Slots : pc[s] = "idle" /\ pc'[s] = "idle"
      BY <1>2, <1>5 DEF Idle
    <2>2. \A t \in Slots : from[t] = None
      BY <1>1, <2>1 DEF RunOK
    <2>3. RunAlone' /\ (\A t \in Slots : RunOK(t)')
      BY <1>3, <2>1, <2>2 DEF RunAlone, RunOK, WritePC, run
    <2>4. Complete \subseteq listed'[w]
      BY <1>1, <1>5 DEF ReadDir, TypeOK, Complete
    <2>5. pc'[w] \in {"retainRead", "delRead"}
      BY <1>2, <1>5
    <2>6. LoopOK(w)'
      BY <1>3, <2>4, <2>5 DEF LoopOK
    <2>7. ASSUME NEW v \in Workers, v # w PROVE LoopOK(v)'
      <3>1. pc'[v] = pc[v] /\ listed'[v] = listed[v] /\ cur'[v] = cur[v]
        BY <1>1, <1>5, <2>7 DEF ReadDir, TypeOK
      <3> QED
        BY <1>1, <1>3, <3>1 DEF LoopOK, disk
    <2> QED
      BY <2>3, <2>6, <2>7
  <1>6. ASSUME NEW k \in Keepers, StartKeeping(k)
        PROVE  RunAlone' /\ (\A t \in Slots : RunOK(t)') /\ (\A w \in Workers : LoopOK(w)')
    BY <1>5, <1>6, BackupAssumption DEF StartKeeping, Step
  <1>7. ASSUME NEW d \in Deleters, StartDelete(d)
        PROVE  RunAlone' /\ (\A t \in Slots : RunOK(t)') /\ (\A w \in Workers : LoopOK(w)')
    BY <1>1, <1>5, <1>7, BackupAssumption DEF StartDelete, Step, TypeOK
  <1> QED
    BY <1>4, <1>6, <1>7

LEMMA QuietStep == Quiet /\ QuietInv /\ [Next]_vars => QuietInv'
  <1> SUFFICES ASSUME Quiet, QuietInv, [Next]_vars PROVE QuietInv'
    OBVIOUS
  <1> USE WorkersOf
  <1>1. TypeOK' /\ HasId'
    BY TypeStep, HasIdStep DEF QuietInv
  <1>2. /\ TypeOK /\ RunAlone /\ ChainsIntact /\ ParentsOlder /\ Dated /\ IdsMinted
        /\ \A s \in Slots : RunOK(s)
        /\ \A w \in Workers : LoopOK(w)
    BY DEF QuietInv
  <1>3. ASSUME UNCHANGED disk, bid' \in {bid, [s \in Slots |-> None]}
        PROVE  ChainsIntact' /\ ParentsOlder' /\ Dated' /\ IdsMinted'
    <2>1. Complete' = Complete
      BY <1>3 DEF Complete, disk
    <2>2. minted' \in Nat /\ None <= minted'
      BY <1>1 DEF TypeOK, None
    <2> QED
      BY <1>2, <1>3, <2>1, <2>2 DEF ChainsIntact, ParentsOlder, Dated, IdsMinted, disk
  <1>4. CASE UNCHANGED vars
    BY <1>1, <1>2, <1>3, <1>4
    DEF QuietInv, RunAlone, RunOK, LoopOK, vars, disk, run, work, Complete
  <1>5. CASE \/ \E s \in Slots : Request(s)
             \/ \E k \in Keepers : StartKeeping(k)
             \/ \E d \in Deleters : StartDelete(d)
    <2>1. UNCHANGED disk /\ bid' = bid
      BY <1>5 DEF Request, StartKeeping, StartDelete, ReadDir, Move, run
    <2> QED
      BY <1>1, <1>3, <1>5, <2>1, StartKeeps DEF QuietInv
  <1>6. CASE ClearCheckpoints
    <2>1. UNCHANGED <<disk, pc, run, work>> /\ Complete' = Complete
      BY <1>6 DEF ClearCheckpoints, Complete, disk
    <2> QED
      BY <1>1, <1>2, <1>3, <2>1 DEF QuietInv, RunAlone, RunOK, LoopOK, disk, run, work
  <1>7. CASE Restart
    <2>1. \A w \in Workers : pc'[w] = "idle"
      BY <1>7 DEF Restart
    <2>2. \A s \in Slots : from'[s] = None
      BY <1>7 DEF Restart
    <2>3. UNCHANGED disk /\ bid' = [s \in Slots |-> None]
      BY <1>7 DEF Restart
    <2> QED
      BY <1>1, <1>3, <2>1, <2>2, <2>3 DEF QuietInv, RunAlone, RunOK, LoopOK, WritePC
  <1>8. ASSUME NEW w \in Workers, WorkStep(w) PROVE QuietInv'
    <2>1. /\ RunAlone'
          /\ \A t \in Slots : t # w => RunOK(t)'
          /\ \A v \in Workers : v # w => LoopOK(v)'
      BY <1>1, <1>8, OthersKept
    <2>2. LoopOK(w)' /\ (w \in Slots => RunOK(w)')
      <3>1. CASE w \in Slots /\ BackupStep(w)
        BY <1>1, <3>1, BackupStepKeeps
      <3>2. CASE RetainStep(w)
        BY <3>2, RetainStepKeeps
      <3>3. CASE w \in Keepers /\ SweepStep(w)
        BY <3>3, SweepStepKeeps, BackupAssumption
      <3>4. CASE w \in Deleters /\ DeleteStep(w)
        BY <3>4, DeleteStepKeeps, BackupAssumption
      <3>5. CASE EndRemove(w) \/ RemoveFail(w) \/ DropCheckpoint(w)
        BY <3>5, LoopStepKeeps
      <3> QED
        BY <1>8, <3>1, <3>2, <3>3, <3>4, <3>5 DEF WorkStep
    <2>3. ChainsIntact' /\ ParentsOlder' /\ Dated' /\ (\A b \in Complete' : b <= minted')
      BY <1>1, <1>8, DiskInvStep
    <2>4. \A s \in Slots : bid'[s] <= minted'
      <3>1. CASE w \in Slots /\ BackupStep(w)
        <4>1. bid'[w] <= minted'
          BY <1>1, <3>1, BackupStepKeeps
        <4>2. \A t \in Slots : t # w => bid'[t] = bid[t]
          BY <1>2, <1>8, WorkFrames DEF WorkFrame
        <4>3. minted' >= minted /\ minted' \in Nat /\ minted \in Nat
          BY <1>2, <1>8, DiskEffects, RemovalEffects, ManifestEffects, MarkEffects
          DEF DiskKept, TypeOK
        <4>4. \A t \in Slots : bid[t] \in Nat /\ bid[t] <= minted
          BY <1>2 DEF TypeOK, IdsMinted, OptBackup, None
        <4> QED
          BY <4>1, <4>2, <4>3, <4>4
      <3>2. CASE ~(w \in Slots /\ BackupStep(w))
        <4>1. bid' = bid /\ minted' = minted
          BY <1>8, <3>2
          DEF WorkStep, RetainStep, SweepStep, DeleteStep, RetainRead, Retain, Retained,
              EndRetention, BeginRemove, SetDir, SweepHas, SweepList, SweepRead, Sweep, Move,
              Return, ReadDir, DeleteRead, RemoveOnly, Delete, EndRemove, RemoveFail,
              DropCheckpoint,
              SetCheckpoints, run, disk
        <4> QED
          BY <1>2, <4>1 DEF IdsMinted
      <3> QED
        BY <3>1, <3>2
    <2> QED
      BY <1>1, <2>1, <2>2, <2>3, <2>4 DEF QuietInv, IdsMinted
  <1> QED
    BY <1>4, <1>5, <1>6, <1>7, <1>8 DEF Next

LEMMA QuietInit == Init => QuietInv
  <1> SUFFICES ASSUME Init PROVE QuietInv
    OBVIOUS
  <1>1. TypeOK /\ HasId
    BY TypeInit
  <1>2. Complete = {}
    BY DEF Init, Complete
  <1>3. \A w \in Workers : pc[w] = "idle"
    BY DEF Init
  <1>4. (\A s \in Slots : from[s] = None /\ bid[s] = None) /\ minted = 0
    BY DEF Init
  <1>5. Dated
    BY DEF Init, Dated
  <1> QED
    BY <1>1, <1>2, <1>3, <1>4, <1>5, WorkersOf
    DEF QuietInv, RunAlone, ChainsIntact, ParentsOlder, IdsMinted, RunOK, LoopOK, WritePC, None

LEMMA QuietInvariant == ASSUME Quiet PROVE Spec => []QuietInv
  BY QuietInit, QuietStep, PTL DEF Spec

\* Every complete backup reads down to a full one in every state, through
\* failures and restarts: no delete, cascade, retention pass, sweep or failed
\* run leaves a link out, as long as none of them overlaps a run.
THEOREM ChainsStayIntact == ASSUME Quiet PROVE Spec => []ChainsIntact
  <1>1. QuietInv => ChainsIntact
    BY DEF QuietInv
  <1> QED
    BY <1>1, QuietInvariant, PTL

\* The catalog's view of a step that leaves the whole backups as they are.
LEMMA CatalogStutters ==
    ASSUME Complete' = Complete, \A b \in Complete : parent'[b] = parent[b]
    PROVE  UNCHANGED Catalog!vars
  <1>1. \A b \in Backups : dir[b] = "complete" <=> b \in Complete
    BY DEF Complete
  <1>2. \A b \in Backups : dir'[b] = "complete" <=> b \in Complete'
    BY DEF Complete
  <1> QED
    BY <1>1, <1>2 DEF Catalog!vars

\* In such a system the engine implements BackupCatalog: a backup appears with
\* its marker, on top of a kept one or of none, and disappears, all at once as far
\* as a reader of chains can tell, only when nothing kept builds on it.
THEOREM ImplementsCatalog == ASSUME Quiet PROVE Spec => CatalogSpec
  <1> USE WorkersOf
  <1>1. Init => Catalog!Init
    BY DEF Init, Catalog!Init, Complete, Catalog!Backups, Backups, None
  <1>2. QuietInv /\ [Next]_vars => [Catalog!Next]_(Catalog!vars)
    <2> SUFFICES ASSUME QuietInv, [Next]_vars PROVE Catalog!Next \/ UNCHANGED Catalog!vars
      OBVIOUS
    <2>1. \A b \in Backups : dir[b] = "complete" <=> b \in Complete
      BY DEF Complete
    <2>2. \A b \in Backups : dir'[b] = "complete" <=> b \in Complete'
      BY DEF Complete
    <2>3. CASE UNCHANGED <<dir, parent>>
      BY <2>3, CatalogStutters DEF Complete
    <2>4. ASSUME NEW w \in Workers, WorkStep(w)
          PROVE  Catalog!Next \/ UNCHANGED Catalog!vars
      <3>1. CASE DiskKept
        BY <3>1, CatalogStutters DEF DiskKept
      <3>2. CASE w \in Slots /\ WriteManifest(w)
        BY <3>2, ManifestEffects, CatalogStutters DEF Complete
      <3>3. CASE w \in Slots /\ Mark(w)
        <4>1. PICK b \in Backups, p \in Complete \cup {0} : b = bid[w] /\ p = parent[b]
          BY <3>3, MarkEffects DEF None
        <4>2. b \notin Complete /\ Complete' = Complete \cup {b} /\ parent' = parent
          BY <3>3, <4>1, MarkEffects
        <4>3. Catalog!Add(b, p)
          BY <2>1, <2>2, <4>1, <4>2 DEF Catalog!Add, None
        <4> QED
          BY <4>1, <4>3 DEF Catalog!Next, Catalog!Backups, Backups
      <3>4. ASSUME NEW b \in Backups, Removes(w, b)
            PROVE  Catalog!Next \/ UNCHANGED Catalog!vars
        <4>1. /\ Complete' = Complete \ {b} /\ parent' = parent
              /\ \A c \in Complete : parent[c] # b
          BY <3>4, RemovalEffects
        <4>2. CASE b \notin Complete
          BY <4>1, <4>2, CatalogStutters
        <4>3. CASE b \in Complete
          <5>1. Complete \subseteq Backups
            BY DEF Complete
          <5>2. Catalog!Remove(b)
            BY <2>1, <2>2, <4>1, <4>3, <5>1 DEF Catalog!Remove, None
          <5> QED
            BY <5>2 DEF Catalog!Next, Catalog!Backups, Backups
        <4> QED
          BY <4>2, <4>3
      <3> QED
        BY <2>4, <3>1, <3>2, <3>3, <3>4, DiskEffects
    <2> QED
      BY <2>3, <2>4
      DEF Next, Request, StartKeeping, StartDelete, ReadDir, Move, ClearCheckpoints, Restart,
          vars, disk
  <1> QED
    BY <1>1, <1>2, QuietInvariant, PTL DEF Spec, CatalogSpec, Catalog!Spec

(***************************************************************************)
(* Calls that overlap a run.  Chains may break then, but nothing goes that *)
(* was not meant to: as long as there is one run at a time, which is what  *)
(* the entry in backupsInProgress is for.                                  *)
(***************************************************************************)
OneRun == \A s, t \in Slots : s = t

\* A run that may still write its directory, or remove it.
Pre == WritePC \cup {"mkdir", "cleanup"}

\* The backup's id is taken, and nobody writes its directory: so it never becomes
\* complete again once it has ceased to be.
Finished(b) == b <= minted /\ \A s \in Slots : pc[s] \in Pre => bid[s] # b

\* The entry says which backup the run writes.
Flagged ==
    \A s \in Slots :
        /\ pc[s] \in {"idle", "findVm", "settings"} => bid[s] = None
        /\ pc[s] \notin {"idle", "findVm"} => inProgress
        /\ bid[s] # None => inFlightId = bid[s]

Minted == \A b \in Backups : dir[b] # "absent" => b <= minted

\* A run's directory is there while it writes it, and complete only after that.
Writing ==
    \A s \in Slots :
        /\ bid[s] <= minted
        /\ pc[s] \in Pre => bid[s] \notin Complete
        /\ pc[s] \in WritePC => dir[bid[s]] # "absent"

\* A delta is over a backup that was finished and is dated before it.
Based ==
    /\ \A b \in Backups : stamp[b] <= clock
    /\ \A b \in Complete : parent[b] # None => Finished(parent[b]) /\ stamp[parent[b]] < stamp[b]
    /\ \A s \in Slots : from[s] # None => Finished(from[s])
    /\ \A s \in Slots : pc[s] = "mark" => /\ parent[bid[s]] = from[s]
                                          /\ from[s] # None => stamp[from[s]] < stamp[bid[s]]

\* What a remover works on is finished; of what it has seen, all that builds on what
\* it is yet to remove is on its list as well.
Lists(w) ==
    /\ pc[w] \in {"retain", "delete", "rm", "drop", "sweep"} => \A b \in todo[w] : Finished(b)
    /\ pc[w] \in {"rm", "drop", "delRead", "rmOnly"} => cur[w] \in Backups /\ Finished(cur[w])
    /\ pc[w] \in {"rm", "drop"} => cur[w] \notin Complete
    /\ pc[w] = "sweep" => todo[w] \cap Complete = {}
    /\ pc[w] \notin {"retain", "delete", "rm", "drop"} => seen[w] = {}
    /\ \A b \in seen[w] : /\ Finished(b)
                          /\ b \in Complete /\ parent[b] \in todo[w] => b \in todo[w]

\* What a run's reconciliation takes for stale is on no whole backup's record.
Stale(s) ==
    /\ pc[s] = "recRead" => Complete \subseteq listed[s]
    /\ pc[s] = "reconcile" /\ ~ReadErrors => \A c \in todo[s] \cap Complete : ~recorded[c]

OverlapInv ==
    /\ TypeOK /\ HasId
    /\ Flagged /\ Minted /\ Writing /\ Based
    /\ \A w \in Workers : Lists(w)
    /\ \A s \in Slots : Stale(s)


\* A finished backup stays finished: its manifest stands, and it is never made whole
\* again.
Lasting ==
    \A b \in OptBackup : Finished(b) =>
        /\ Finished(b)'
        /\ b \in Complete' => b \in Complete
        /\ b \in Backups => /\ parent'[b] = parent[b] /\ stamp'[b] = stamp[b]
                            /\ recorded'[b] = recorded[b]

\* The parts of the invariant that are about runs and the disk.
RunInv == Flagged /\ Minted /\ Writing /\ Based

\* The effects of a removal, and of whatever else leaves the runs alone.
RemoverFrame(w) ==
    /\ UNCHANGED <<parent, stamp, recorded, minted, clock, bid, from, made>>
    /\ UNCHANGED entry
    /\ w \in Slots => pc[w] \notin Pre \cup {"idle", "findVm", "settings"}
                      /\ pc'[w] \notin Pre \cup {"idle", "findVm", "settings"}
    /\ \A s \in Slots : s # w => pc'[s] = pc[s]
    /\ \A b \in Backups : dir'[b] # dir[b] => Finished(b) /\ dir'[b] # "complete"

LEMMA WholeIsFinished ==
    ASSUME OverlapInv
    PROVE  \A b \in Complete : b \in Backups /\ Finished(b)
  BY DEF OverlapInv, Writing, Minted, Finished, Complete, TypeOK

LEMMA RemoversKeepRuns ==
    ASSUME OverlapInv, NEW w \in Workers, RemoverFrame(w)
    PROVE  RunInv' /\ Lasting /\ Complete' \subseteq Complete
  <1> USE WorkersOf DEF OverlapInv
  <1>1. \A s \in Slots : pc'[s] \in Pre \/ pc[s] \in Pre => pc'[s] = pc[s]
    BY DEF RemoverFrame
  <1>2. \A b \in Backups : dir'[b] = "complete" => dir[b] = "complete"
    BY DEF RemoverFrame
  <1>3. Complete' \subseteq Complete
    BY <1>2 DEF Complete
  <1>4. \A b : Finished(b)' <=> Finished(b)
    BY <1>1 DEF RemoverFrame, Finished
  <1>5. Lasting
    BY <1>3, <1>4 DEF Lasting, RemoverFrame
  <1>6. Flagged'
    BY DEF Flagged, RemoverFrame, entry
  <1>7. Minted'
    BY DEF Minted, RemoverFrame, Finished
  <1>8. Writing'
    BY <1>1, <1>3 DEF Writing, RemoverFrame, Finished, HasId, Pre, WritePC
  <1>9. Based'
    BY <1>1, <1>3, <1>4 DEF Based, RemoverFrame, Pre, WritePC
  <1> QED
    BY <1>3, <1>5, <1>6, <1>7, <1>8, <1>9 DEF RunInv

LEMMA RegistrationRuns ==
    ASSUME OneRun, OverlapInv, TypeOK', NEW s \in Slots,
           Register(s) \/ Mint(s) \/ Finish(s)
    PROVE  RunInv' /\ Lasting /\ Complete \subseteq Complete' /\ Lists(s)' /\ Stale(s)'
  <1> USE WorkersOf
  <1> USE DEF Register, Mint, Finish, Step, Forget, Move, disk, entry, run, work
  <1>0. \A t \in Slots : t = s
    BY DEF OneRun
  <1>1. Flagged'
    BY <1>0 DEF OverlapInv, Flagged, TypeOK
  <1>2. Minted'
    BY <1>0 DEF OverlapInv, Minted, Writing, HasId, WritePC, TypeOK
  <1>3. Writing'
    <2>1. CASE Finish(s)
      <3>1. bid'[s] = None /\ pc'[s] = "idle" /\ minted' \in Nat /\ None <= minted'
        BY <2>1 DEF OverlapInv, TypeOK, None
      <3> QED
        BY <1>0, <3>1 DEF Writing, Pre, WritePC
    <2>2. CASE Register(s)
      BY <1>0, <2>2 DEF OverlapInv, Writing, Complete, Pre, WritePC, TypeOK
    <2>3. CASE Mint(s)
      BY <1>0, <2>3 DEF OverlapInv, Writing, Minted, Complete, Pre, WritePC, TypeOK
    <2> QED
      BY <2>1, <2>2, <2>3
  <1>4. Lasting
    <2>1. UNCHANGED <<dir, parent, stamp, recorded>>
      OBVIOUS
    <2>2. Complete' = Complete
      BY <2>1 DEF Complete
    <2>3. minted \in Nat /\ minted' \in Nat /\ minted <= minted'
      BY DEF OverlapInv, TypeOK
    <2>4. pc'[s] \in Pre => bid'[s] = minted + 1
      BY DEF OverlapInv, TypeOK, Pre, WritePC
    <2>5. \A b \in OptBackup : b \in Nat
      BY DEF OptBackup, None
    <2> QED
      BY <1>0, <2>1, <2>2, <2>3, <2>4, <2>5 DEF Lasting, Finished
  <1>5. Based'
    BY <1>0, <1>4, WholeIsFinished
    DEF OverlapInv, Based, Lasting, HasId, Complete, Pre, WritePC, TypeOK
  <1>6. Complete \subseteq Complete'
    BY <1>0 DEF OverlapInv, Writing, HasId, Complete, Pre, WritePC, TypeOK
  <1>7. Lists(s)'
    BY <1>0 DEF OverlapInv, Lists, TypeOK
  <1>8. Stale(s)'
    BY <1>0 DEF OverlapInv, Stale, Complete, TypeOK
  <1> QED
    BY <1>1, <1>2, <1>3, <1>4, <1>5, <1>6, <1>7, <1>8 DEF RunInv

LEMMA MovesRuns ==
    ASSUME OneRun, OverlapInv, TypeOK', NEW s \in Slots,
           SettingsFail(s) \/ TakeFull(s) \/ ReadParent(s) \/ Precreate(s) \/ PlainCopy(s)
           \/ RunFail(s)
    PROVE  RunInv' /\ Lasting /\ Complete \subseteq Complete' /\ Lists(s)' /\ Stale(s)'
  <1> USE WorkersOf
  <1> USE DEF SettingsFail, TakeFull, ReadParent, Precreate, PlainCopy, RunFail, Move, Step,
          disk, entry, run, work
  <1>0. \A t \in Slots : t = s
    BY DEF OneRun
  <1>1. Flagged'
    BY <1>0 DEF OverlapInv, Flagged, TypeOK
  <1>2. Minted'
    BY <1>0 DEF OverlapInv, Minted, Writing, HasId, WritePC, TypeOK
  <1>3. Writing'
    BY <1>0 DEF OverlapInv, Writing, Minted, HasId, Complete, Pre, WritePC, TypeOK
  <1>4. Lasting
    BY <1>0 DEF OverlapInv, Lasting, Finished, Minted, HasId, Complete, Pre, WritePC, TypeOK
  <1>5. Based'
    BY <1>0, <1>4, WholeIsFinished
    DEF OverlapInv, Based, Lasting, HasId, Complete, Pre, WritePC, TypeOK
  <1>6. Complete \subseteq Complete'
    BY <1>0 DEF OverlapInv, Writing, HasId, Complete, Pre, WritePC, TypeOK
  <1>7. Lists(s)'
    BY <1>0 DEF OverlapInv, Lists, TypeOK
  <1>8. Stale(s)'
    BY <1>0 DEF OverlapInv, Stale, Complete, TypeOK
  <1> QED
    BY <1>1, <1>2, <1>3, <1>4, <1>5, <1>6, <1>7, <1>8 DEF RunInv

LEMMA AssessingRuns ==
    ASSUME OneRun, OverlapInv, TypeOK', NEW s \in Slots,
           Assess(s) \/ AssessRead(s) \/ AssessCheckpoint(s) \/ Degrade(s)
    PROVE  RunInv' /\ Lasting /\ Complete \subseteq Complete' /\ Lists(s)' /\ Stale(s)'
  <1> USE WorkersOf
  <1> USE DEF Assess, AssessRead, AssessCheckpoint, Degrade, Step, Move, ReadDir, ScanOver,
          disk, entry, run, work
  <1>0. \A t \in Slots : t = s
    BY DEF OneRun
  <1>1. Flagged'
    BY <1>0 DEF OverlapInv, Flagged, TypeOK
  <1>2. Minted'
    BY <1>0 DEF OverlapInv, Minted, Writing, HasId, WritePC, TypeOK
  <1>3. Writing'
    BY <1>0 DEF OverlapInv, Writing, Minted, HasId, Complete, Pre, WritePC, TypeOK
  <1>4. Lasting
    BY <1>0 DEF OverlapInv, Lasting, Finished, Minted, HasId, Complete, Pre, WritePC, TypeOK
  <1>5. Based'
    <2>1. from'[s] \in {None, from[s]} \cup Complete
      <3>1. \A scan \in Scans(listed[s]) : Candidates(scan.manifests) \subseteq Complete
        BY ScansReturn DEF OverlapInv, TypeOK, Candidates, Newest, Complete
      <3> QED
        BY <3>1 DEF OverlapInv, TypeOK
    <2>2. UNCHANGED <<dir, parent, stamp, clock, bid>> /\ Complete' = Complete
      BY DEF Complete
    <2>3. pc'[s] # "mark"
      BY DEF OverlapInv, TypeOK
    <2>4. \A b \in OptBackup : Finished(b) => Finished(b)'
      BY <1>4 DEF Lasting
    <2>5. from'[s] # None => Finished(from'[s]) /\ from'[s] \in OptBackup
      BY <2>1, WholeIsFinished DEF OverlapInv, Based, TypeOK
    <2>6. from'[s] # None => Finished(from[s])'
      BY <2>4, <2>5 DEF Finished
    <2>7. \A b \in Complete : parent[b] \in OptBackup
      BY DEF OverlapInv, TypeOK, Complete
    <2> QED
      BY <1>0, <2>2, <2>3, <2>4, <2>6, <2>7 DEF OverlapInv, Based
  <1>6. Complete \subseteq Complete'
    BY <1>0 DEF OverlapInv, Writing, HasId, Complete, Pre, WritePC, TypeOK
  <1>7. Lists(s)'
    BY <1>0 DEF OverlapInv, Lists, TypeOK
  <1>8. Stale(s)'
    BY <1>0 DEF OverlapInv, Stale, Complete, TypeOK
  <1> QED
    BY <1>1, <1>2, <1>3, <1>4, <1>5, <1>6, <1>7, <1>8 DEF RunInv

LEMMA CopyingRuns ==
    ASSUME OneRun, OverlapInv, TypeOK', NEW s \in Slots,
           BeginDelta(s) \/ EndDelta(s) \/ BeginFull(s) \/ EndFull(s)
    PROVE  RunInv' /\ Lasting /\ Complete \subseteq Complete' /\ Lists(s)' /\ Stale(s)'
  <1> USE WorkersOf
  <1> USE DEF BeginDelta, EndDelta, BeginFull, EndFull, Step, Move, Copied, SetCheckpoints,
          disk, entry, run, work
  <1>0. \A t \in Slots : t = s
    BY DEF OneRun
  <1>1. Flagged'
    BY <1>0 DEF OverlapInv, Flagged, TypeOK
  <1>2. Minted'
    BY <1>0 DEF OverlapInv, Minted, Writing, HasId, WritePC, TypeOK
  <1>3. Writing'
    BY <1>0 DEF OverlapInv, Writing, Minted, HasId, Complete, Pre, WritePC, TypeOK
  <1>4. Lasting
    BY <1>0 DEF OverlapInv, Lasting, Finished, Minted, HasId, Complete, Pre, WritePC, TypeOK
  <1>5. Based'
    BY <1>0, <1>4, WholeIsFinished
    DEF OverlapInv, Based, Lasting, HasId, Complete, Pre, WritePC, TypeOK
  <1>6. Complete \subseteq Complete'
    BY <1>0 DEF OverlapInv, Writing, HasId, Complete, Pre, WritePC, TypeOK
  <1>7. Lists(s)'
    BY <1>0 DEF OverlapInv, Lists, TypeOK
  <1>8. Stale(s)'
    BY <1>0 DEF OverlapInv, Stale, Complete, TypeOK
  <1> QED
    BY <1>1, <1>2, <1>3, <1>4, <1>5, <1>6, <1>7, <1>8 DEF RunInv

LEMMA OwnDirRuns ==
    ASSUME OneRun, OverlapInv, TypeOK', NEW s \in Slots,
           Mkdir(s) \/ VmGone(s) \/ Mark(s) \/ Cleanup(s)
    PROVE  RunInv' /\ Lasting /\ Complete \subseteq Complete' /\ Lists(s)' /\ Stale(s)'
  <1> USE WorkersOf
  <1> USE DEF Mkdir, VmGone, Mark, Cleanup, Step, Move, SetDir, disk, entry, run, work
  <1>0. \A t \in Slots : t = s
    BY DEF OneRun
  <1>1. Flagged'
    BY <1>0 DEF OverlapInv, Flagged, TypeOK
  <1>2. Minted'
    BY <1>0 DEF OverlapInv, Minted, Writing, HasId, WritePC, TypeOK
  <1>3. Writing'
    BY <1>0 DEF OverlapInv, Writing, Minted, HasId, Complete, Pre, WritePC, TypeOK
  <1>4. Lasting
    BY <1>0 DEF OverlapInv, Lasting, Finished, Minted, HasId, Complete, Pre, WritePC, TypeOK
  <1>5. Based'
    BY <1>0, <1>4, WholeIsFinished
    DEF OverlapInv, Based, Lasting, HasId, Complete, Pre, WritePC, TypeOK
  <1>6. Complete \subseteq Complete'
    BY <1>0 DEF OverlapInv, Writing, HasId, Complete, Pre, WritePC, TypeOK
  <1>7. Lists(s)'
    BY <1>0 DEF OverlapInv, Lists, TypeOK
  <1>8. Stale(s)'
    BY <1>0 DEF OverlapInv, Stale, Complete, TypeOK
  <1> QED
    BY <1>1, <1>2, <1>3, <1>4, <1>5, <1>6, <1>7, <1>8 DEF RunInv

LEMMA ManifestRuns ==
    ASSUME OneRun, OverlapInv, TypeOK', NEW s \in Slots,
           WriteManifest(s)
    PROVE  RunInv' /\ Lasting /\ Complete \subseteq Complete' /\ Lists(s)' /\ Stale(s)'
  <1> USE WorkersOf
  <1> USE DEF WriteManifest, Step, disk, entry, run, work
  <1>0. \A t \in Slots : t = s
    BY DEF OneRun
  <1>1. Flagged'
    BY <1>0 DEF OverlapInv, Flagged, TypeOK
  <1>2. Minted'
    BY <1>0 DEF OverlapInv, Minted, Writing, HasId, WritePC, TypeOK
  <1>3. Writing'
    BY <1>0 DEF OverlapInv, Writing, Minted, HasId, Complete, Pre, WritePC, TypeOK
  <1>4. Lasting
    BY <1>0 DEF OverlapInv, Lasting, Finished, Minted, HasId, Complete, Pre, WritePC, TypeOK
  <1>5. Based'
    <2> DEFINE b == bid[s]
    <2>1. /\ b \in Backups /\ b \notin Complete /\ ~Finished(b) /\ clock \in Nat
          /\ pc[s] = "manifest" /\ pc'[s] = "mark"
      BY DEF OverlapInv, HasId, Writing, Finished, Pre, WritePC, TypeOK
    <2>2. /\ Complete' = Complete /\ clock' = clock + 1 /\ UNCHANGED <<bid, from>>
          /\ \A c \in Backups \ {b} : parent'[c] = parent[c] /\ stamp'[c] = stamp[c]
          /\ parent'[b] = from[s] /\ stamp'[b] = clock + 1
      BY <2>1 DEF OverlapInv, Complete, TypeOK
    <2>3. \A c \in OptBackup : Finished(c) => Finished(c)'
      BY <1>4 DEF Lasting
    <2>4. /\ \A c \in Complete : parent[c] \in OptBackup /\ c \in Backups
          /\ \A c \in Backups : stamp[c] \in Nat /\ stamp[c] <= clock
          /\ from[s] \in OptBackup /\ (from[s] # None => Finished(from[s]))
          /\ \A c \in Complete : parent[c] # None =>
                 Finished(parent[c]) /\ stamp[parent[c]] < stamp[c]
      BY DEF OverlapInv, Based, TypeOK, Complete
    <2>5. \A c \in Backups : stamp'[c] <= clock'
      BY <2>1, <2>2, <2>4
    <2>6. \A c \in Complete : parent[c] # None =>
             Finished(parent[c])' /\ stamp'[parent[c]] < stamp'[c] /\ parent'[c] = parent[c]
      <3> SUFFICES ASSUME NEW c \in Complete, parent[c] # None
                   PROVE  /\ Finished(parent[c])' /\ parent'[c] = parent[c]
                          /\ stamp'[parent[c]] < stamp'[c]
        OBVIOUS
      <3>1. Finished(parent[c]) /\ parent[c] \in Backups /\ parent[c] # b
        BY <2>1, <2>4 DEF OptBackup
      <3>2. c \in Backups /\ c # b
        BY <2>1, <2>4
      <3>3. parent'[c] = parent[c] /\ stamp'[parent[c]] < stamp'[c]
        BY <2>2, <2>4, <3>1, <3>2
      <3>4. Finished(parent[c])'
        BY <2>2, <2>3, <2>4, <3>1, <3>2, <3>3 DEF Finished
      <3> QED
        BY <3>3, <3>4
    <2>7. from[s] # None => Finished(from[s])' /\ from[s] \in Backups /\ from[s] # b
      BY <2>1, <2>2, <2>3, <2>4 DEF OptBackup, Finished
    <2>8. from[s] # None => stamp'[from[s]] < stamp'[b]
      BY <2>1, <2>2, <2>4, <2>7
    <2> QED
      BY <1>0, <2>2, <2>5, <2>6, <2>7, <2>8 DEF Based, Finished
  <1>6. Complete \subseteq Complete'
    BY <1>0 DEF OverlapInv, Writing, HasId, Complete, Pre, WritePC, TypeOK
  <1>7. Lists(s)'
    BY <1>0 DEF OverlapInv, Lists, TypeOK
  <1>8. Stale(s)'
    BY <1>0 DEF OverlapInv, Stale, Complete, TypeOK
  <1> QED
    BY <1>1, <1>2, <1>3, <1>4, <1>5, <1>6, <1>7, <1>8 DEF RunInv

LEMMA AfterRuns ==
    ASSUME OneRun, OverlapInv, TypeOK', NEW s \in Slots,
           Log(s) \/ Names(s) \/ ReconcileRead(s) \/ Reconcile(s)
    PROVE  RunInv' /\ Lasting /\ Complete \subseteq Complete' /\ Lists(s)' /\ Stale(s)'
  <1> USE WorkersOf
  <1> USE DEF Log, Names, ReconcileRead, Reconcile, Step, Move, ReadDir, ScanOver, SetTodo,
          SetCheckpoints, disk, entry, run, work
  <1>0. \A t \in Slots : t = s
    BY DEF OneRun
  <1>1. Flagged'
    BY <1>0 DEF OverlapInv, Flagged, TypeOK
  <1>2. Minted'
    BY <1>0 DEF OverlapInv, Minted, Writing, HasId, WritePC, TypeOK
  <1>3. Writing'
    BY <1>0 DEF OverlapInv, Writing, Minted, HasId, Complete, Pre, WritePC, TypeOK
  <1>4. Lasting
    BY <1>0 DEF OverlapInv, Lasting, Finished, Minted, HasId, Complete, Pre, WritePC, TypeOK
  <1>5. Based'
    BY <1>0, <1>4, WholeIsFinished
    DEF OverlapInv, Based, Lasting, HasId, Complete, Pre, WritePC, TypeOK
  <1>6. Complete \subseteq Complete'
    BY <1>0 DEF OverlapInv, Writing, HasId, Complete, Pre, WritePC, TypeOK
  <1>7. Lists(s)'
    <2>1. /\ pc[s] \in {"log", "names", "recRead", "reconcile"}
          /\ pc'[s] \in {"retainRead", "recRead", "reconcile", "finally"} /\ seen'[s] = seen[s]
      BY DEF OverlapInv, TypeOK
    <2>2. seen[s] = {}
      BY <2>1 DEF OverlapInv, Lists
    <2> QED
      BY <2>1, <2>2 DEF Lists
  <1>8. Stale(s)'
    <2>1. CASE ReconcileRead(s)
      <3> SUFFICES ASSUME ~ReadErrors, pc'[s] = "reconcile",
                          NEW c \in todo'[s], c \in Complete, recorded[c]
                   PROVE  FALSE
        BY <1>0, <2>1 DEF OverlapInv, Stale, Complete, TypeOK
      <3>1. PICK scan \in Scans(listed[s]) :
                todo' = [todo EXCEPT ![s] = todo[s] \ {b \in scan.manifests : recorded[b]}]
        BY <2>1 DEF OverlapInv, TypeOK
      <3>2. c \in listed[s] /\ listed[s] \subseteq Backups
        BY <2>1 DEF OverlapInv, Stale, TypeOK
      <3>3. c \in scan.manifests
        BY <3>2, ScansReturn DEF OverlapInv, Complete
      <3> QED
        BY <3>1, <3>3 DEF OverlapInv, TypeOK
    <2>2. CASE Log(s) \/ Names(s) \/ Reconcile(s)
      BY <1>0, <2>2 DEF OverlapInv, Stale, Complete, TypeOK
    <2> QED
      BY <2>1, <2>2
  <1> QED
    BY <1>1, <1>2, <1>3, <1>4, <1>5, <1>6, <1>7, <1>8 DEF RunInv

\* What a removal costs: a whole backup that was on the remover's list, and that
\* nothing the remover has seen builds on.
Loses(w) ==
    \A b \in Complete \ Complete' :
        /\ pc[w] \in {"retain", "delete", "rmOnly"}
        /\ b \in todo[w] \cup {cur[w]}
        /\ \A c \in seen[w] : c \in Complete => parent[c] # b

LEMMA RemovalBegins ==
    ASSUME OverlapInv, NEW w \in Workers, NEW b \in Backups, Removes(w, b)
    PROVE  RemoverFrame(w) /\ Lists(w)' /\ Loses(w)
  <1> USE WorkersOf
  <1>1. TypeOK /\ Lists(w) /\ Based
    BY DEF OverlapInv
  <1>2. PICK rest \in Torn(b) : SetDir(b, rest)
    BY DEF Removes, BeginRemove
  <1>3. \A c \in Backups : dir'[c] = IF c = b THEN rest ELSE dir[c]
    BY <1>1, <1>2 DEF SetDir, TypeOK
  <1>4. rest # "complete" /\ Complete' = Complete \ {b}
    BY <1>2, <1>3 DEF Torn, Complete
  <1>5. /\ pc[w] \in {"retain", "delete"} /\ pc'[w] = "rm" /\ b \in todo[w]
        /\ \A v \in Workers : v # w => pc'[v] = pc[v]
    BY <1>1 DEF Removes, TypeOK
  <1>6. Finished(b) /\ \A c \in todo[w] : Finished(c)
    BY <1>1, <1>5 DEF Lists
  <1>7. UNCHANGED <<parent, stamp, recorded, minted, clock, bid, from, made, entry>>
    BY <1>2 DEF SetDir, run
  <1>8. RemoverFrame(w)
    BY <1>3, <1>4, <1>5, <1>6, <1>7 DEF RemoverFrame, Pre, WritePC
  <1>9. Lists(w)'
    <2>1. cur'[w] = b /\ todo'[w] = todo[w] \ {b} /\ seen'[w] = seen[w]
      BY <1>1 DEF Removes, BeginRemove, SetTodo, TypeOK
    <2>2. \A c : Finished(c) => Finished(c)'
      BY <1>5, <1>7 DEF Finished, Pre, WritePC
    <2> QED
      BY <1>1, <1>4, <1>5, <1>6, <1>7, <2>1, <2>2 DEF Lists
  <1>10. Loses(w)
    <2> SUFFICES ASSUME NEW c \in seen[w], c \in Complete, parent[c] = b PROVE FALSE
      BY <1>4, <1>5 DEF Loses
    <2>1. c \in todo[w]
      BY <1>1, <1>5 DEF Lists
    <2>2. stamp[b] < stamp[c] /\ stamp[b] \in Nat /\ stamp[c] \in Nat
      BY <1>1 DEF Based, TypeOK, Complete
    <2> QED
      BY <2>1, <2>2 DEF Removes, Leaf, Newest
  <1> QED
    BY <1>8, <1>9, <1>10

\* The same backups are whole and finished.
SameFinished == Complete' = Complete /\ \A b : Finished(b)' <=> Finished(b)

\* A step that leaves the disk and the runs as they are.
LEMMA NothingLost ==
    ASSUME OverlapInv, NEW w \in Workers, UNCHANGED <<disk, entry, run>>,
           \A s \in Slots : s # w => pc'[s] = pc[s],
           w \in Slots => /\ pc[w] \notin Pre \cup {"idle", "findVm", "settings"}
                          /\ pc'[w] \notin Pre \cup {"idle", "findVm", "settings"}
    PROVE  RemoverFrame(w) /\ Loses(w) /\ SameFinished
  BY DEF RemoverFrame, Loses, SameFinished, Complete, Finished, disk, run

LEMMA RetainRuns ==
    ASSUME OverlapInv, NEW w \in Workers, RetainStep(w)
    PROVE  RemoverFrame(w) /\ Lists(w)' /\ Loses(w)
  <1> USE WorkersOf
  <1>1. TypeOK /\ Lists(w)
    BY DEF OverlapInv
  <1>2. CASE Retain(w)
    BY <1>1, <1>2, RemovalBegins DEF Retain, Leaf, Removes, Step
  <1>3. CASE Retained(w) \/ EndRetention(w, "retainRead")
    <2>1. RemoverFrame(w) /\ Loses(w)
      BY <1>1, <1>3, NothingLost DEF Retained, EndRetention, Step, TypeOK, Pre, WritePC
    <2>2. Lists(w)'
      BY <1>1, <1>3 DEF Retained, EndRetention, Forget, Step, TypeOK, Lists
    <2> QED
      BY <2>1, <2>2
  <1>4. CASE RetainRead(w) /\ ~EndRetention(w, "retainRead")
    <2>1. PICK scan \in Scans(listed[w]) :
              /\ Step(w, "retainRead", "retain")
              /\ seen' = [seen EXCEPT ![w] = scan.manifests]
              /\ SetTodo(w, scan.manifests)
              /\ UNCHANGED <<disk, checkpoints, entry, run, cur>>
      BY <1>4 DEF RetainRead
    <2>2. scan.manifests \subseteq Complete
      BY <1>1, ScansReturn DEF TypeOK, Complete
    <2>3. RemoverFrame(w) /\ Loses(w) /\ SameFinished
      BY <1>1, <2>1, NothingLost DEF Step, TypeOK, Pre, WritePC
    <2>4. Lists(w)'
      BY <1>1, <2>1, <2>2, <2>3, WholeIsFinished DEF Lists, SameFinished, Step, SetTodo, TypeOK
    <2> QED
      BY <2>3, <2>4
  <1> QED
    BY <1>2, <1>3, <1>4 DEF RetainStep

LEMMA SweepRuns ==
    ASSUME OverlapInv, NEW k \in Keepers, SweepStep(k)
    PROVE  RemoverFrame(k) /\ Lists(k)' /\ Loses(k)
  <1> USE WorkersOf
  <1>1. TypeOK /\ Lists(k) /\ k \notin Slots
    BY BackupAssumption DEF OverlapInv
  <1>2. CASE SweepHas(k) \/ SweepList(k) \/ Return(k, "sweep")
    <2>1. /\ UNCHANGED <<disk, entry, run>>
          /\ \A s \in Slots : pc'[s] = pc[s]
      BY <1>1, <1>2 DEF SweepHas, SweepList, ReadDir, Move, Return, Step, TypeOK
    <2>2. RemoverFrame(k) /\ Loses(k)
      BY <1>1, <2>1, NothingLost
    <2>3. Lists(k)'
      BY <1>1, <1>2
      DEF SweepHas, SweepList, ReadDir, Move, Return, Forget, Step, TypeOK, Lists, work
    <2> QED
      BY <2>2, <2>3
  <1>3. CASE SweepRead(k)
    <2>1. RemoverFrame(k) /\ Loses(k) /\ SameFinished
      BY <1>1, <1>3, NothingLost DEF SweepRead, Step, TypeOK
    <2>2. PICK scan \in Scans(listed[k]) :
              \E old \in SUBSET scan.incomplete : todo' = [todo EXCEPT ![k] = old]
      BY <1>3 DEF SweepRead, SetTodo
    <2>3. \A b \in scan.incomplete :
              b \in Backups /\ dir[b] \in {"open", "manifest"} /\ b \notin InFlight
      BY <1>1 DEF Scans, TypeOK
    <2>4. \A b \in scan.incomplete : Finished(b) /\ b \notin Complete
      BY <2>3 DEF OverlapInv, Flagged, Minted, Finished, InFlight, Complete, Pre, WritePC, HasId
    <2> QED
      BY <1>1, <1>3, <2>1, <2>2, <2>4 DEF SweepRead, Step, TypeOK, Lists, SameFinished
  <1>4. ASSUME NEW b \in todo[k], Step(k, "sweep", "sweep"), SetDir(b, "absent"),
               SetTodo(k, todo[k] \ {b}), UNCHANGED <<listed, seen, cur>>
        PROVE  RemoverFrame(k) /\ Lists(k)' /\ Loses(k)
    <2>1. b \in Backups /\ Finished(b) /\ b \notin Complete
      BY <1>1, <1>4 DEF Lists, Step, TypeOK
    <2>2. \A c \in Backups : dir'[c] = IF c = b THEN "absent" ELSE dir[c]
      BY <1>1, <1>4 DEF SetDir, TypeOK
    <2>3. Complete' = Complete
      BY <2>1, <2>2 DEF Complete
    <2>4. RemoverFrame(k) /\ Loses(k)
      BY <1>1, <1>4, <2>1, <2>2, <2>3 DEF RemoverFrame, Loses, SetDir, Step, TypeOK, run
    <2>5. \A c : Finished(c)' <=> Finished(c)
      BY <2>4, <1>1 DEF Finished, RemoverFrame
    <2> QED
      BY <1>1, <1>4, <2>3, <2>4, <2>5 DEF Lists, SetTodo, Step, TypeOK
  <1> QED
    BY <1>2, <1>3, <1>4 DEF SweepStep, Sweep

LEMMA DeleteRuns ==
    ASSUME OverlapInv, NEW d \in Deleters, DeleteStep(d)
    PROVE  RemoverFrame(d) /\ Lists(d)' /\ Loses(d)
  <1> USE WorkersOf
  <1>1. TypeOK /\ Lists(d) /\ d \notin Slots
    BY BackupAssumption DEF OverlapInv
  <1>2. CASE Move(d, "delRead", "rmOnly") \/ Return(d, "delRead") \/ Return(d, "delete")
    <2>1. RemoverFrame(d) /\ Loses(d) /\ SameFinished
      BY <1>1, <1>2, NothingLost DEF Move, Return, Step, TypeOK
    <2> QED
      BY <1>1, <1>2, <2>1 DEF Move, Return, Forget, Step, TypeOK, Lists, SameFinished, work
  <1>3. CASE \E b \in Newest(todo[d]) : Step(d, "delete", "rm") /\ BeginRemove(d, b)
    BY <1>1, <1>3, RemovalBegins DEF Newest, Removes, Step, TypeOK
  <1>4. CASE RemoveOnly(d)
    <2> DEFINE b == cur[d]
    <2>1. b \in Backups /\ Finished(b) /\ pc[d] = "rmOnly" /\ seen[d] = {}
      BY <1>1, <1>4 DEF Lists, RemoveOnly, Step
    <2>2. PICK left \in Torn(b) \cup {"absent", dir[b]} : SetDir(b, left)
      BY <1>4 DEF RemoveOnly
    <2>3. \A c \in Backups : dir'[c] = IF c = b THEN left ELSE dir[c]
      BY <1>1, <2>2 DEF SetDir, TypeOK
    <2>4. left = "complete" => dir[b] = "complete"
      BY <2>2 DEF Torn
    <2>5. RemoverFrame(d) /\ Loses(d)
      BY <1>1, <1>4, <2>1, <2>2, <2>3, <2>4
      DEF RemoverFrame, Loses, RemoveOnly, SetDir, Step, TypeOK, Complete, run
    <2> QED
      BY <1>1, <1>4, <2>5 DEF RemoveOnly, Forget, Step, TypeOK, Lists
  <1>5. ASSUME NEW scan \in Scans(listed[d]), cur[d] \in scan.manifests,
               SetTodo(d, Descendants(scan.manifests, cur[d]) \cup {cur[d]}),
               Step(d, "delRead", "delete"),
               seen' = [seen EXCEPT ![d] = scan.manifests],
               cur' = [cur EXCEPT ![d] = None],
               UNCHANGED <<disk, checkpoints, entry, run>>
        PROVE  RemoverFrame(d) /\ Lists(d)' /\ Loses(d)
    <2> DEFINE M == scan.manifests
    <2>1. M \subseteq Complete
      BY <1>1, ScansReturn DEF TypeOK, Complete
    <2>2. RemoverFrame(d) /\ Loses(d) /\ SameFinished
      BY <1>1, <1>5, NothingLost DEF Step, TypeOK
    <2>3. /\ Descendants(M, cur[d]) \subseteq M
          /\ \A c \in M : parent[c] \in Descendants(M, cur[d]) \cup {cur[d]}
                          => c \in Descendants(M, cur[d])
      BY DescendantsClosed DEF Descendants
    <2>4. /\ todo'[d] = Descendants(M, cur[d]) \cup {cur[d]} /\ seen'[d] = M
          /\ pc'[d] = "delete"
      BY <1>1, <1>5 DEF SetTodo, Step, TypeOK
    <2>5. parent' = parent
      BY <1>5 DEF disk
    <2> HIDE DEF M
    <2> QED
      BY <1>5, <2>1, <2>2, <2>3, <2>4, <2>5, WholeIsFinished DEF Lists, SameFinished, M
  <1> QED
    BY <1>2, <1>3, <1>4, <1>5 DEF DeleteStep, DeleteRead, Delete

LEMMA LoopRuns ==
    ASSUME OverlapInv, NEW w \in Workers, EndRemove(w) \/ RemoveFail(w) \/ DropCheckpoint(w)
    PROVE  RemoverFrame(w) /\ Lists(w)' /\ Loses(w)
  <1> USE WorkersOf
  <1>1. TypeOK /\ Lists(w)
    BY DEF OverlapInv
  <1>2. CASE EndRemove(w)
    <2> DEFINE b == cur[w]
    <2>1. b \in Backups /\ Finished(b) /\ b \notin Complete
      BY <1>1, <1>2 DEF Lists, EndRemove, Step
    <2>2. \A c \in Backups : dir'[c] = IF c = b THEN "absent" ELSE dir[c]
      BY <1>1, <1>2 DEF EndRemove, SetDir, TypeOK
    <2>3. Complete' = Complete
      BY <2>1, <2>2 DEF Complete
    <2>4. RemoverFrame(w) /\ Loses(w)
      BY <1>1, <1>2, <2>1, <2>2, <2>3
      DEF RemoverFrame, Loses, EndRemove, SetDir, Step, TypeOK, run, Pre, WritePC
    <2>5. \A c : Finished(c)' <=> Finished(c)
      BY <2>4 DEF Finished, RemoverFrame, Pre
    <2> QED
      BY <1>1, <1>2, <2>1, <2>3, <2>4, <2>5 DEF Lists, EndRemove, SetDir, Step, TypeOK, work
  <1>3. CASE DropCheckpoint(w)
    <2>1. RemoverFrame(w) /\ Loses(w) /\ SameFinished
      BY <1>1, <1>3, BackupAssumption, NothingLost
      DEF DropCheckpoint, SetCheckpoints, Step, TypeOK, Pre, WritePC
    <2> QED
      BY <1>1, <1>3, <2>1 DEF DropCheckpoint, SetCheckpoints, Step, TypeOK, Lists, SameFinished, disk
  <1>4. CASE RemoveFail(w)
    <2>1. RemoverFrame(w) /\ Loses(w)
      BY <1>1, <1>4, BackupAssumption, NothingLost
      DEF RemoveFail, EndRetention, Return, Step, TypeOK, Pre, WritePC
    <2> QED
      BY <1>1, <1>4, <2>1 DEF RemoveFail, EndRetention, Return, Forget, Step, TypeOK, Lists
  <1> QED
    BY <1>2, <1>3, <1>4

\* A worker that does not move keeps its list, whatever the one that moves does.
LEMMA OthersLists ==
    ASSUME OverlapInv, Lasting, NEW v \in Workers, pc'[v] = pc[v],
           seen'[v] = seen[v], todo'[v] = todo[v], cur'[v] = cur[v]
    PROVE  Lists(v)'
  <1>1. /\ Lists(v) /\ todo[v] \subseteq Backups /\ seen[v] \subseteq Backups
        /\ \A b \in Complete' : b \in Backups
    BY DEF OverlapInv, TypeOK, Complete
  <1> QED
    BY <1>1, WorkersOf DEF Lists, Lasting

LEMMA BackupStepRuns ==
    ASSUME OneRun, OverlapInv, TypeOK', NEW s \in Slots, BackupStep(s)
    PROVE  RunInv' /\ Lasting /\ Complete \subseteq Complete' /\ Lists(s)' /\ Stale(s)'
  BY RegistrationRuns, MovesRuns, AssessingRuns, CopyingRuns, OwnDirRuns, ManifestRuns, AfterRuns
  DEF BackupStep

LEMMA RemovalStepRuns ==
    ASSUME OverlapInv, NEW w \in Workers, WorkStep(w), ~(w \in Slots /\ BackupStep(w))
    PROVE  /\ RemoverFrame(w) /\ Lists(w)' /\ Loses(w)
           /\ w \in Slots => pc'[w] \notin {"recRead", "reconcile"}
  <1>1. RemoverFrame(w) /\ Lists(w)' /\ Loses(w)
    BY RetainRuns, SweepRuns, DeleteRuns, LoopRuns DEF WorkStep
  <1>2. w \in Slots => RetainStep(w) \/ EndRemove(w) \/ RemoveFail(w) \/ DropCheckpoint(w)
    BY BackupAssumption DEF WorkStep
  <1>3. w \in Slots => pc'[w] \in {"retain", "rm", "drop", "names"}
    BY <1>2, BackupAssumption
    DEF RetainStep, RetainRead, Retain, Retained, EndRetention, EndRemove, RemoveFail,
        DropCheckpoint, Step, OverlapInv, TypeOK, Workers
  <1> QED
    BY <1>1, <1>3

\* The calls that start, a restore and a restart of the backend.
LEMMA OutsideRuns ==
    ASSUME OneRun, OverlapInv, TypeOK',
           \/ \E s \in Slots : Request(s)
           \/ \E k \in Keepers : StartKeeping(k)
           \/ \E d \in Deleters : StartDelete(d)
           \/ ClearCheckpoints
           \/ Restart
           \/ UNCHANGED vars
    PROVE  /\ RunInv' /\ (\A w \in Workers : Lists(w)') /\ (\A s \in Slots : Stale(s)')
           /\ UNCHANGED disk
  <1> USE WorkersOf
  <1>1. /\ TypeOK /\ HasId /\ RunInv
        /\ \A w \in Workers : Lists(w)
        /\ \A s \in Slots : Stale(s)
    BY DEF OverlapInv, RunInv
  <1>2. UNCHANGED disk
    BY DEF Request, StartKeeping, StartDelete, ReadDir, Move, ClearCheckpoints, Restart, vars
  <1>3. Complete' = Complete /\ UNCHANGED <<dir, parent, stamp, recorded, minted, clock>>
    BY <1>2 DEF disk, Complete
  <1>4. CASE Restart
    <2>1. /\ inProgress' = FALSE /\ inFlightId' = None
          /\ \A w \in Workers : pc'[w] = "idle" /\ seen'[w] = {}
          /\ \A s \in Slots : bid'[s] = None /\ from'[s] = None
      BY <1>4 DEF Restart
    <2>2. \A b : Finished(b) => Finished(b)'
      BY <1>3, <2>1 DEF Finished, Pre, WritePC
    <2>3. None <= minted' /\ Flagged'
      BY <2>1 DEF TypeOK, None, Flagged
    <2>4. RunInv'
      BY <1>1, <1>3, <2>1, <2>2, <2>3 DEF RunInv, Minted, Writing, Based, Pre, WritePC
    <2> QED
      BY <1>2, <2>1, <2>4 DEF Lists, Stale
  <1>5. CASE ~Restart
    <2> DEFINE Starts(x, a) ==
            /\ pc[x] = "idle" /\ pc' = [pc EXCEPT ![x] = a]
            /\ x \in Slots <=> a = "findVm"
            /\ UNCHANGED <<entry, run, seen, todo>>
            /\ \A v \in Workers : v # x => listed'[v] = listed[v] /\ cur'[v] = cur[v]
    <2>0. \/ UNCHANGED <<entry, run, pc, work>>
          \/ \E x \in Workers : \E a \in {"findVm", "retainRead", "delRead"} : Starts(x, a)
      <3>1. ASSUME NEW s \in Slots, Request(s) PROVE Starts(s, "findVm")
        BY <3>1 DEF Request, Move, Step, work
      <3>2. ASSUME NEW k \in Keepers, StartKeeping(k) PROVE Starts(k, "retainRead")
        BY <1>1, <3>2, BackupAssumption DEF StartKeeping, ReadDir, Step, TypeOK
      <3>3. ASSUME NEW d \in Deleters, StartDelete(d) PROVE Starts(d, "delRead")
        BY <1>1, <3>3, BackupAssumption DEF StartDelete, ReadDir, Step, TypeOK
      <3> HIDE DEF Starts
      <3> QED
        BY <1>5, <3>1, <3>2, <3>3 DEF ClearCheckpoints, vars
    <2>1. /\ UNCHANGED <<run, entry>>
          /\ \A s \in Slots : pc'[s] # pc[s] => pc[s] = "idle" /\ pc'[s] = "findVm"
      BY <1>1, <2>0 DEF TypeOK
    <2>2. \A b : Finished(b)' <=> Finished(b)
      BY <1>3, <2>1 DEF Finished, Pre, WritePC, run
    <2>3. RunInv'
      BY <1>1, <1>3, <2>1, <2>2
      DEF RunInv, Flagged, Minted, Writing, Based, Pre, WritePC, run, entry
    <2>4. \A w \in Workers : pc'[w] = pc[w] =>
              UNCHANGED <<listed[w], seen[w], todo[w], cur[w]>>
      BY <1>1, <2>0 DEF TypeOK, work
    <2>5. Lasting
      BY <1>3, <2>2 DEF Lasting
    <2>6. \A s \in Slots : Stale(s)'
      BY <1>1, <1>3, <2>1, <2>4 DEF Stale
    <2>7. ASSUME NEW w \in Workers, pc'[w] # pc[w] PROVE Lists(w)'
      <3>1. pc[w] = "idle" /\ seen'[w] = {} /\ pc'[w] \in {"findVm", "retainRead", "delRead"}
        <4>1. PICK x \in Workers, a \in {"findVm", "retainRead", "delRead"} : Starts(x, a)
          BY <2>0, <2>7
        <4>2. x = w /\ pc'[w] = a
          BY <1>1, <2>7, <4>1 DEF TypeOK
        <4> QED
          BY <1>1, <4>1, <4>2 DEF Lists
      <3>2. pc'[w] = "delRead" => cur'[w] \in Backups /\ Finished(cur'[w])
        <4> SUFFICES ASSUME pc'[w] = "delRead"
                     PROVE  cur'[w] \in Backups /\ Finished(cur'[w])
          OBVIOUS
        <4>1. w \in Deleters /\ StartDelete(w)
          BY <1>1, <1>5, <2>7
          DEF Request, StartKeeping, StartDelete, Move, Step, ClearCheckpoints, vars, TypeOK
        <4>2. PICK b \in Backups : /\ dir[b] # "absent"
                                   /\ dir[b] = "complete" \/ \A s \in Slots : bid[s] # b
                                   /\ cur' = [cur EXCEPT ![w] = b]
          BY <4>1 DEF StartDelete
        <4>3. Finished(b)
          BY <1>1, <4>2, WholeIsFinished DEF RunInv, Minted, Finished, Complete
        <4> QED
          BY <1>1, <4>2, <4>3 DEF TypeOK
      <3> QED
        BY <2>2, <3>1, <3>2 DEF Lists, Finished
    <2> QED
      BY <1>2, <2>3, <2>4, <2>5, <2>6, <2>7, OthersLists
  <1> QED
    BY <1>4, <1>5

LEMMA OverlapStep == OneRun /\ OverlapInv /\ [Next]_vars => OverlapInv'
  <1> SUFFICES ASSUME OneRun, OverlapInv, [Next]_vars PROVE OverlapInv'
    OBVIOUS
  <1> USE WorkersOf
  <1>1. TypeOK' /\ HasId'
    BY TypeStep, HasIdStep DEF OverlapInv
  <1>2. ASSUME NEW w \in Workers, WorkStep(w) PROVE OverlapInv'
    <2>1. /\ WorkFrame(w) /\ TypeOK
          /\ \A s \in Slots : Stale(s)
      BY <1>2, WorkFrames DEF OverlapInv
    <2>2. CASE w \in Slots /\ BackupStep(w)
      <3>1. RunInv' /\ Lasting /\ Lists(w)' /\ Stale(w)'
        BY <1>1, <2>2, BackupStepRuns
      <3>2. \A v \in Workers : Lists(v)'
        BY <2>1, <3>1, OthersLists DEF WorkFrame
      <3>3. \A s \in Slots : Stale(s)'
        BY <2>2, <3>1 DEF OneRun
      <3> QED
        BY <1>1, <3>1, <3>2, <3>3 DEF OverlapInv, RunInv
    <2>3. CASE ~(w \in Slots /\ BackupStep(w))
      <3>1. /\ RemoverFrame(w) /\ Lists(w)'
            /\ w \in Slots => pc'[w] \notin {"recRead", "reconcile"}
        BY <1>2, <2>3, RemovalStepRuns
      <3>2. RunInv' /\ Lasting /\ Complete' \subseteq Complete
        BY <3>1, RemoversKeepRuns
      <3>3. \A v \in Workers : Lists(v)'
        BY <2>1, <3>1, <3>2, OthersLists DEF WorkFrame
      <3>4. \A s \in Slots : Stale(s)'
        <4>1. ASSUME NEW s \in Slots, s # w PROVE Stale(s)'
          <5>1. /\ pc'[s] = pc[s] /\ listed'[s] = listed[s] /\ todo'[s] = todo[s]
                /\ recorded' = recorded
            BY <2>1, <3>1, <4>1 DEF WorkFrame, RemoverFrame
          <5> QED
            BY <2>1, <3>2, <5>1 DEF Stale
        <4>2. w \in Slots => Stale(w)'
          BY <3>1 DEF Stale
        <4> QED
          BY <4>1, <4>2
      <3> QED
        BY <1>1, <3>2, <3>3, <3>4 DEF OverlapInv, RunInv
    <2> QED
      BY <2>2, <2>3
  <1>3. CASE ~(\E w \in Workers : WorkStep(w))
    BY <1>1, <1>3, OutsideRuns DEF Next, OverlapInv, RunInv
  <1> QED
    BY <1>2, <1>3

LEMMA OverlapInit == Init => OverlapInv
  <1> SUFFICES ASSUME Init PROVE OverlapInv
    OBVIOUS
  <1> USE WorkersOf
  <1>1. TypeOK /\ HasId
    BY TypeInit
  <1>2. Complete = {} /\ minted = 0
    BY DEF Init, Complete
  <1>3. \A w \in Workers : pc[w] = "idle" /\ seen[w] = {}
    BY DEF Init
  <1>4. \A s \in Slots : from[s] = None /\ bid[s] = None
    BY DEF Init
  <1>5. (\A b \in Backups : stamp[b] <= clock) /\ \A b \in Backups : dir[b] = "absent"
    BY DEF Init
  <1> QED
    BY <1>1, <1>2, <1>3, <1>4, <1>5
    DEF OverlapInv, Flagged, Minted, Writing, Based, Lists, Stale, Pre, WritePC, None

LEMMA OverlapInvariant == ASSUME OneRun PROVE Spec => []OverlapInv
  BY OverlapInit, OverlapStep, PTL DEF Spec

\* A whole backup goes only on purpose, however requests, retention passes and
\* sweeps overlap the run: its removal is that of a remover which has it on its list.
THEOREM BackupsGoOnPurpose == ASSUME OneRun PROVE Spec => OnlyRemovedOnPurpose
  <1> DEFINE P == \A b \in Complete : b \notin Complete' =>
                      \E w \in Workers : /\ pc[w] \in {"retain", "delete", "rmOnly"}
                                         /\ b \in todo[w] \cup {cur[w]}
  <1>1. OverlapInv /\ [Next]_vars => [P]_vars
    <2> SUFFICES ASSUME OverlapInv, [Next]_vars PROVE P
      OBVIOUS
    <2>1. TypeOK'
      BY TypeStep DEF OverlapInv
    <2>2. ASSUME NEW w \in Workers, WorkStep(w) PROVE P
      <3>1. CASE w \in Slots /\ BackupStep(w)
        BY <2>1, <3>1, BackupStepRuns
      <3>2. CASE ~(w \in Slots /\ BackupStep(w))
        BY <2>2, <3>2, RemovalStepRuns DEF Loses
      <3> QED
        BY <3>1, <3>2
    <2>3. CASE ~(\E w \in Workers : WorkStep(w))
      BY <2>1, <2>3, OutsideRuns DEF Next, Complete, disk
    <2> QED
      BY <2>2, <2>3
  <1> QED
    BY <1>1, OverlapInvariant, PTL DEF Spec, OnlyRemovedOnPurpose

\* No remover takes a backup that something it has seen still builds on, however
\* many of them work at once.
THEOREM DependentsGoFirst == ASSUME OneRun PROVE Spec => SeenDependentsGoFirst
  <1> DEFINE P == \A w \in Workers : \A p \in Complete \ Complete' :
                      pc'[w] # pc[w] => \A b \in seen[w] : b \in Complete => parent[b] # p
  <1>1. OverlapInv /\ [Next]_vars => [P]_vars
    <2> SUFFICES ASSUME OverlapInv, [Next]_vars PROVE P
      OBVIOUS
    <2>1. TypeOK' /\ TypeOK
      BY TypeStep DEF OverlapInv
    <2>2. ASSUME NEW w \in Workers, WorkStep(w) PROVE P
      <3>1. CASE w \in Slots /\ BackupStep(w)
        BY <2>1, <3>1, BackupStepRuns
      <3>2. CASE ~(w \in Slots /\ BackupStep(w))
        <4>1. \A v \in Workers : v # w => pc'[v] = pc[v]
          BY <2>1, <2>2, WorkFrames DEF WorkFrame
        <4> QED
          BY <2>2, <3>2, <4>1, RemovalStepRuns DEF Loses
      <3> QED
        BY <3>1, <3>2
    <2>3. CASE ~(\E w \in Workers : WorkStep(w))
      BY <2>1, <2>3, OutsideRuns DEF Next, Complete, disk
    <2> QED
      BY <2>2, <2>3
  <1> QED
    BY <1>1, OverlapInvariant, PTL DEF Spec, SeenDependentsGoFirst

\* The directory a run is writing goes only when the run itself finds its VM gone: a
\* sweep, a retention pass or a delete request never takes it.
THEOREM OwnDirIsKept == ASSUME OneRun PROVE Spec => OwnDirKept
  <1> DEFINE P == \A s \in Slots : pc[s] \in WritePC /\ dir'[bid[s]] = "absent"
                                   => pc[s] = "inspect" /\ pc'[s] = "finally"
  <1>1. OverlapInv /\ [Next]_vars => [P]_vars
    <2> SUFFICES ASSUME OverlapInv, [Next]_vars, NEW s \in Slots, pc[s] \in WritePC,
                        dir'[bid[s]] = "absent"
                 PROVE  pc[s] = "inspect" /\ pc'[s] = "finally"
      OBVIOUS
    <2> USE WorkersOf
    <2>1. TypeOK' /\ TypeOK
      BY TypeStep DEF OverlapInv
    <2>2. bid[s] \in Backups /\ dir[bid[s]] # "absent" /\ ~Finished(bid[s])
      BY DEF OverlapInv, HasId, Writing, Finished, Pre
    <2>3. PICK w \in Workers : WorkStep(w)
      BY <2>1, <2>2, OutsideRuns DEF Next, disk
    <2>4. w = s /\ BackupStep(s)
      <3>1. CASE ~(w \in Slots /\ BackupStep(w))
        BY <2>2, <2>3, <3>1, RemovalStepRuns DEF RemoverFrame
      <3> QED
        BY <3>1 DEF OneRun
    <2>5. CASE VmGone(s)
      BY <2>1, <2>5 DEF VmGone, Step, TypeOK
    <2>6. CASE Mkdir(s) \/ Cleanup(s) \/ Finish(s) \/ Mint(s)
      BY <2>6 DEF Mkdir, Cleanup, Finish, Mint, Move, Step, WritePC
    <2>7. CASE WriteManifest(s) \/ Mark(s)
      BY <2>1, <2>2, <2>7 DEF WriteManifest, Mark, SetDir, TypeOK
    <2>8. CASE UNCHANGED dir
      BY <2>2, <2>8
    <2> QED
      BY <2>4, <2>5, <2>6, <2>7, <2>8
      DEF BackupStep, Register, SettingsFail, TakeFull, ReadParent, Precreate, PlainCopy,
          RunFail, Assess, Log, AssessRead, AssessCheckpoint, ReadDir, Move, BeginDelta,
          BeginFull, EndDelta, EndFull, Copied, Degrade, SetCheckpoints, Names, ReconcileRead,
          Reconcile, disk
  <1> QED
    BY <1>1, OverlapInvariant, PTL DEF Spec, OwnDirKept

\* Only a restore takes a checkpoint away that a backup or a run counts on: the one
\* that goes with a removal is its backup's, and reconciliation's are on no record.
THEOREM CheckpointsAreKept ==
    ASSUME OneRun, ~ReadErrors PROVE Spec => PromisedCheckpointsKept
  <1> DEFINE P == ClearCheckpoints \/ \A c \in checkpoints \ checkpoints' : ~Promised(c)
  <1>1. OverlapInv /\ [Next]_vars => [P]_vars
    <2> SUFFICES ASSUME OverlapInv, [Next]_vars, ~ClearCheckpoints,
                        NEW c \in checkpoints \ checkpoints'
                 PROVE  ~Promised(c)
      OBVIOUS
    <2> USE WorkersOf
    <2>1. TypeOK /\ \A v \in Workers : Lists(v)
      BY DEF OverlapInv
    <2>2. PICK w \in Workers : WorkStep(w)
      BY DEF Next, Request, StartKeeping, StartDelete, ReadDir, Move, Restart, vars
    <2>3. CASE DropCheckpoint(w)
      <3>1. c = cur[w] /\ Finished(c) /\ c \notin Complete
        BY <2>1, <2>3 DEF DropCheckpoint, SetCheckpoints, Step, Lists
      <3> QED
        BY <3>1 DEF Promised, Finished, Pre, WritePC
    <2>4. ASSUME w \in Slots, Degrade(w) PROVE ~Promised(c)
      <3>1. c = bid[w] /\ pc[w] = "degrade" /\ \A t \in Slots : t = w
        BY <2>4 DEF Degrade, Step, OneRun
      <3>2. c \notin Complete
        BY <2>4, <3>1 DEF OverlapInv, Writing, Pre, WritePC
      <3> QED
        BY <3>1, <3>2 DEF Promised
    <2>5. ASSUME w \in Slots, Reconcile(w) PROVE ~Promised(c)
      <3>1. pc[w] = "reconcile" /\ \A t \in Slots : t = w
        BY <2>5 DEF Reconcile, Move, Step, OneRun
      <3>3. c \in todo[w]
        BY <2>5 DEF Reconcile, SetCheckpoints, Move
      <3>2. ~(c \in Complete /\ recorded[c])
        BY <2>5, <3>1, <3>3 DEF OverlapInv, Stale
      <3> QED
        BY <3>1, <3>2 DEF Promised
    <2>6. CASE checkpoints \subseteq checkpoints'
      BY <2>6
    <2>7. CASE w \in Slots /\ BackupStep(w)
      BY <2>4, <2>5, <2>6, <2>7
      DEF BackupStep, Register, Mint, SettingsFail, Mkdir, VmGone, TakeFull, Assess, AssessRead,
          AssessCheckpoint, ReadParent, Precreate, BeginDelta, EndDelta, BeginFull, EndFull,
          PlainCopy, WriteManifest, Mark, RunFail, Cleanup, Log, Names, ReconcileRead, Finish,
          Copied, SetDir, SetCheckpoints, ReadDir, Move
    <2>8. CASE RetainStep(w) \/ SweepStep(w) \/ EndRemove(w) \/ RemoveFail(w)
      BY <2>6, <2>8
      DEF RetainStep, RetainRead, Retain, Retained, EndRetention, BeginRemove, SweepStep,
          SweepHas, SweepList, SweepRead, Sweep, EndRemove, RemoveFail, Return, SetDir, ReadDir,
          Move
    <2>9. CASE DeleteStep(w)
      BY <2>6, <2>9
      DEF DeleteStep, DeleteRead, RemoveOnly, Delete, BeginRemove, Return, SetDir, Move
    <2> QED
      BY <2>2, <2>3, <2>7, <2>8, <2>9 DEF WorkStep
  <1> QED
    BY <1>1, OverlapInvariant, PTL DEF Spec, PromisedCheckpointsKept

=============================================================================
