-------------------------- MODULE VmFirewall_proof --------------------------
(***************************************************************************)
(* Types of the firewall's model, that what filters a VM is something      *)
(* Apply was asked for (NoDraft), and that a pass takes a jump off for a   *)
(* reason (JumpsStay): for any VMs, addresses, rule sets and number of     *)
(* events.                                                                 *)
(*                                                                         *)
(* NoDraft.  Nothing but an Apply brings a rule set in from outside the    *)
(* record of what it was asked for.  So every place that rules are put     *)
(* back from, the file, the hook's file, the change that has the queue     *)
(* and the Apply that waits for it, only ever holds what is in the record, *)
(* and so does what is put back from them.                                 *)
(*                                                                         *)
(* JumpsStay.  A pass acts on what it has read, at moments of its own:     *)
(* NICs at its start, leases when a VM first needs them, whose MAC is      *)
(* whose later still.  Each of them is something there was to see in its   *)
(* time (Knows), and it takes nothing off but by them.  The rest is about  *)
(* FORWARD as a list: what a change neither leaves out nor puts back is on *)
(* it afterwards, so every other change of jumps keeps them all.           *)
(***************************************************************************)
EXTENDS VmFirewall, FiniteSetTheorems, TLAPS

USE FirewallAssumption

\* A VM's file, its hook's file and its chains, of a VM for which Apply has been asked for S.
ChainsFor(S) == (S \cap Rules) \cup {Default, Junk}
BootFor(S) == [rules : ChainsFor(S), ips : SUBSET Ips]
FileFor(S) == [saved : Cfgs, applied : (S \cap Cfgs) \cup {Absent}, raw : ChainsFor(S) \cup {Absent},
               hash : (S \cap Cfgs) \cup {Null, Absent}, to : SUBSET Ips,
               print : Contents \cup {Absent}]

FilesTyped ==
    /\ file \in [Vms -> {Absent} \cup
                    [saved : Cfgs, applied : Cfgs \cup {Absent}, raw : Contents \cup {Absent},
                     hash : Cfgs \cup {Null, Absent}, to : SUBSET Ips,
                     print : Contents \cup {Absent}]]
    /\ boot \in [Vms -> {Absent} \cup [rules : Contents, ips : SUBSET Ips]]

Sound ==
    \A v \in Vms :
        /\ file[v] # Absent => file[v] \in FileFor(asked[v])
        /\ boot[v] # Absent => boot[v] \in BootFor(asked[v])
        /\ chains[v] \in ChainsFor(asked[v]) \cup {Absent}

\* What the change that has the queue, and the others under way, have still to write.
JobOK ==
    /\ job \in [by : {"none", "start", "change", "ask", "gone", "pass"}, vm : Vms \cup {Nothing},
                what : {"none", "note", "rebuilt", "apply", "applied", "unboot"},
                cfg : Cfgs \cup {Absent}, ips : SUBSET Ips]
    /\ job.what # "none" => job.vm \in Vms
    /\ job.what = "rebuilt" => file[job.vm] # Absent
    /\ job.what \in {"apply", "applied"} => job.cfg \in asked[job.vm]
ChangeOK ==
    /\ change \in [pc : {"idle", "accept", "assert", "record", "undo", "erase"},
                   vm : Vms \cup {Nothing}, ip : Ips \cup {Nothing}, cfg : {Absent},
                   ips : SUBSET Ips]
    /\ change.pc \in {"accept", "assert", "record", "undo"} => change.vm \in Vms /\ change.ip \in Ips
AskOK ==
    /\ ask \in [pc : {"idle", "queue", "wait"}, vm : Vms \cup {Nothing}, ip : {Nothing},
                cfg : Cfgs \cup {Absent}, ips : SUBSET Ips]
    /\ ask.pc # "idle" => ask.vm \in Vms /\ ask.cfg \in asked[ask.vm]
GoneOK ==
    /\ gone \in [pc : {"idle", "forwards", "firewall", "file"}, vm : Vms \cup {Nothing},
                 ip : {Nothing}, cfg : {Absent}, ips : SUBSET Ips]
    /\ gone.pc # "idle" => gone.vm \in Vms
\* Whatever the pass has read of FORWARD.
PassFor(f) ==
    [pc : {"idle", "look", "gone", "keep", "held", "turn", "drop"}, vm : Vms \cup {Nothing},
     ip : Ips \cup {Nothing}, roster : SUBSET Vms, on : SUBSET Vms, nics : SUBSET Vms,
     holder : {Absent} \cup [Ips -> Vms \cup {Nothing}], owners : {Absent} \cup SUBSET Vms, fwd : {f},
     claims : SUBSET (Vms \X Ips), wanted : SUBSET Ips, named : SUBSET Ips, held : SUBSET Ips]
LookOK ==
    /\ look \in PassFor(look.fwd)
    /\ look.pc \in {"gone", "keep", "held", "turn", "drop"} => look.vm \in Vms

IInv == TypeOK /\ Sound /\ JobOK /\ ChangeOK /\ AskOK /\ GoneOK /\ LookOK


LEMMA Distinct ==
    /\ Absent \notin Cfgs /\ Null \notin Cfgs /\ Absent # Null
    /\ Absent \notin Contents /\ Open \notin Contents
    /\ Default \notin Cfgs /\ Junk \notin Cfgs
  BY DEF Cfgs, Contents

\* What a file puts in force is what Apply was asked for.
LEMMA InForceTyped ==
    ASSUME NEW S \in SUBSET Cfgs, NEW f \in FileFor(S)
    PROVE  InForce(f) \in ChainsFor(S) \cup {Absent}
  BY Distinct DEF InForce, FileFor, ChainsFor, Cfgs

LEMMA BootTyped ==
    ASSUME NEW S \in SUBSET Cfgs, NEW f \in FileFor(S)
    PROVE  BootOf(f) \in BootFor(S) \cup {Absent}
  BY InForceTyped DEF BootOf, BootFor, FileFor

\* What there has been to see keeps its type.
LEMMA MemoryTyped == since \in Memory /\ Remember /\ nic' \subseteq Vms => since' \in Memory
  BY DEF Memory, Unseen, Remember

LEMMA InitOK == Init => IInv
  <1> SUFFICES ASSUME Init PROVE IInv
    OBVIOUS
  <1>1. PICK s \in Rules, ip \in Ips, h \in {Absent, Oldest} :
          /\ h = Oldest \/ s # Oldest
          /\ file = [v \in Vms |-> IF v = First THEN [NewFile EXCEPT !.saved = s, !.hash = h]
                                                ELSE Absent]
          /\ fwd = Pairs(First, {ip}) \o <<Libvirt>>
          /\ holder = [i \in Ips |-> IF i = ip THEN First ELSE Nothing]
    BY DEF Init
  <1>2. [NewFile EXCEPT !.saved = s, !.hash = h] \in FileFor({Oldest})
    BY DEF NewFile, FileFor, Cfgs
  <1>a. file \in [Vms -> {Absent} \cup FileFor({Oldest})]
    BY <1>1, <1>2
  <1>b. TypeOK
    BY <1>a, <1>1 DEF Init, TypeOK, FileFor, ChainsFor, Cfgs, Contents, Memory, Unseen
  <1>3. Sound
    BY <1>1, <1>2 DEF Init, Sound, ChainsFor
  <1>4. JobOK /\ ChangeOK /\ AskOK /\ GoneOK /\ LookOK
    BY DEF Init, JobOK, ChangeOK, AskOK, GoneOK, LookOK, PassFor, NoJob, Idle, NoPass
  <1> QED
    BY <1>b, <1>3, <1>4 DEF IInv

\* An Apply's write keeps the type, of a file for which it has been asked.
LEMMA AppliedTyped ==
    ASSUME NEW S \in SUBSET Cfgs, NEW f \in FileFor(S), NEW c \in S, NEW ips \in SUBSET Ips,
           NEW p \in Contents \cup {Absent}
    PROVE  [f EXCEPT !.hash = c, !.applied = c, !.raw = Absent, !.to = ips, !.print = p]
           \in FileFor(S)
  <1>1. PICK g \in FileFor(S) : g = [f EXCEPT !.hash = c, !.applied = c]
    BY DEF FileFor
  <1>2. PICK k \in FileFor(S) : k = [g EXCEPT !.raw = Absent, !.to = ips]
    BY DEF FileFor
  <1>3. [k EXCEPT !.print = p] \in FileFor(S)
    BY DEF FileFor
  <1> QED
    BY <1>1, <1>2, <1>3

\* A write of a VM's file, which is there and has been given new contents, and of its hook's file.
LEMMA WriteTyped ==
    ASSUME IInv, NEW v \in Vms, NEW f, f = Absent \/ f \in FileFor(asked[v]), WriteBoth(v, f),
           UNCHANGED <<chains, asked>>
    PROVE  FilesTyped' /\ Sound'
  <1>1. asked[v] \in SUBSET Cfgs
    BY DEF IInv, TypeOK
  <1>2. BootOf(f) \in BootFor(asked[v]) \cup {Absent}
    BY <1>1, BootTyped DEF BootOf
  <1> QED
    BY <1>1, <1>2
    DEF IInv, TypeOK, FilesTyped, Sound, WriteBoth, FileFor, BootFor, ChainsFor, Cfgs, Contents

\* A VM's file, its hook's file and its chains, when they are left alone.
LEMMA SameFiles ==
    ASSUME IInv, UNCHANGED <<file, boot, chains>>, asked' \in [Vms -> SUBSET Cfgs],
           \A v \in Vms : asked[v] \subseteq asked'[v]
    PROVE  FilesTyped' /\ Sound'
  BY DEF IInv, TypeOK, FilesTyped, Sound, FileFor, BootFor, ChainsFor

\* When the chains of one VM are given other contents.
LEMMA ChainsTyped ==
    ASSUME IInv, NEW v \in Vms, NEW c \in ChainsFor(asked[v]) \cup {Absent},
           chains' = [chains EXCEPT ![v] = c], UNCHANGED <<file, boot, asked>>
    PROVE  FilesTyped' /\ Sound' /\ chains' \in [Vms -> Contents \cup {Absent}]
  BY DEF IInv, TypeOK, FilesTyped, Sound, FileFor, BootFor, ChainsFor, Contents

\* The end of a change of jumps writes what it has done.
LEMMA EndJobOK == ASSUME IInv, EndJob, Remember PROVE IInv'
  <1> USE MemoryTyped DEF EndJob, kernel, world, start
  <1> DEFINE v == job.vm
  <1>1. asked' = asked /\ chains' = chains /\ job' = NoJob
    BY DEF EndJob
  <1>2. FilesTyped' /\ Sound'
    <2>0. Held(fwd, v) \in SUBSET Ips
      BY DEF Held
    <2>1. CASE NoteAddresses
      <3>1. CASE file[v] = Absent
        BY <2>1, <3>1, <1>1, WriteTyped DEF NoteAddresses, IInv, JobOK
      <3>2. CASE file[v] # Absent
        <4>1. [file[v] EXCEPT !.to = Held(fwd, v)] \in FileFor(asked[v])
          BY <2>1, <3>2, <2>0 DEF NoteAddresses, IInv, JobOK, Sound, FileFor
        <4> QED
          BY <2>1, <3>2, <4>1, <1>1, WriteTyped DEF NoteAddresses, IInv, JobOK
      <3> QED
        BY <3>1, <3>2
    <2>2. CASE NoteRebuilt
      <3>1. [file[v] EXCEPT !.to = job.ips, !.print = chains[v]] \in FileFor(asked[v])
        <4>1. /\ v \in Vms /\ job.ips \in SUBSET Ips /\ file[v] \in FileFor(asked[v])
              /\ chains[v] \in Contents \cup {Absent}
          BY <2>2 DEF NoteRebuilt, IInv, JobOK, Sound, TypeOK
        <4> QED
          BY <4>1 DEF FileFor
      <3> QED
        BY <2>2, <3>1, <1>1, WriteTyped DEF NoteRebuilt, IInv, JobOK
    <2>3. CASE NoteApplied
      <3>1. CASE file[v] = Absent
        BY <2>3, <3>1, <1>1, WriteTyped DEF NoteApplied, IInv, JobOK
      <3>2. CASE file[v] # Absent
        <4>0. /\ job.cfg \in asked[v] /\ v \in Vms /\ job.ips \in SUBSET Ips
              /\ asked[v] \in SUBSET Cfgs /\ file[v] \in FileFor(asked[v])
              /\ chains[v] \in Contents \cup {Absent}
          BY <2>3, <3>2 DEF NoteApplied, IInv, JobOK, TypeOK, Sound
        <4>1. [file[v] EXCEPT !.hash = job.cfg, !.applied = job.cfg, !.raw = Absent,
                              !.to = job.ips, !.print = chains[v]] \in FileFor(asked[v])
          BY <4>0, AppliedTyped
        <4> QED
          BY <2>3, <3>2, <4>0, <4>1, <1>1, WriteTyped DEF NoteApplied
      <3> QED
        BY <3>1, <3>2
    <2>4. CASE Unboot
      BY <2>4, <1>1 DEF Unboot, IInv, JobOK, FilesTyped, Sound, TypeOK
    <2> QED
      BY <2>1, <2>2, <2>3, <2>4
  <1>3. ask' = Idle \/ ask' = ask
    OBVIOUS
  <1> QED
    BY <1>1, <1>2, <1>3
    DEF IInv, TypeOK, FilesTyped, JobOK, ChangeOK, AskOK, GoneOK, LookOK, PassFor, NoJob, Idle

\* removeVmFirewall and keepInForce leave a VM's chains as they may be.
LEMMA ClearOK ==
    ASSUME IInv, NEW v \in Vms, Clear(v), UNCHANGED <<file, boot, asked>>
    PROVE  FilesTyped' /\ Sound' /\ chains' \in [Vms -> Contents \cup {Absent}]
  <1>1. Absent \in ChainsFor(asked[v]) \cup {Absent} /\ Junk \in ChainsFor(asked[v]) \cup {Absent}
    BY DEF ChainsFor
  <1> QED
    BY <1>1, ChainsTyped DEF Clear

LEMMA KeepOK ==
    ASSUME IInv, NEW v \in Vms, NEW ips \in SUBSET Ips, NEW by \in {"start", "pass"},
           KeepInForce(v, ips, by), asked' = asked, Free
    PROVE  FilesTyped' /\ Sound' /\ JobOK' /\ chains' \in [Vms -> Contents \cup {Absent}]
  <1>0. file[v] # Absent /\ asked[v] \in SUBSET Cfgs /\ file[v] \in FileFor(asked[v])
    BY DEF KeepInForce, KeepIntact, KeepRebuild, Kept, IInv, TypeOK, Sound
  <1>1. CASE KeepIntact(v)
    <2>1. [file[v] EXCEPT !.print = chains[v]] \in FileFor(asked[v])
      BY <1>0 DEF IInv, TypeOK, FileFor
    <2>2. file' = [file EXCEPT ![v] = [file[v] EXCEPT !.print = chains[v]]]
      BY <1>1 DEF KeepIntact
    <2>3. FilesTyped' /\ Sound'
      BY <1>1, <2>1, <2>2
      DEF KeepIntact, IInv, TypeOK, FilesTyped, Sound, FileFor, BootFor, ChainsFor, Contents
    <2> QED
      BY <1>1, <2>3 DEF KeepIntact, IInv, TypeOK, JobOK, Free, NoJob
  <1>2. CASE KeepRebuild(v, ips, by)
    <2>1. InForce(file[v]) \in ChainsFor(asked[v]) \cup {Absent}
      BY <1>0, InForceTyped
    <2>2. file[v].to \cup ips \in SUBSET Ips
      BY <1>0 DEF FileFor
    <2>3. FilesTyped' /\ Sound' /\ chains' \in [Vms -> Contents \cup {Absent}]
      BY <1>2, <2>1, ChainsTyped DEF KeepRebuild, disk
    <2> QED
      BY <1>0, <1>2, <2>2, <2>3 DEF KeepRebuild, Queue, JobOK, disk
  <1> QED
    BY <1>1, <1>2 DEF KeepInForce

\* A start of the backend keeps it.
LEMMA BootOK == ASSUME IInv, BootStep, Remember PROVE IInv'
  <1> USE MemoryTyped DEF kernel, disk, world, actors, start
  <1>1. CASE Restored \/ Up
    <2>1. FilesTyped' /\ Sound'
      BY <1>1, SameFiles DEF Restored, Up, IInv, TypeOK
    <2> QED
      BY <1>1, <2>1
      DEF Restored, Up, IInv, TypeOK, FilesTyped, JobOK, ChangeOK, AskOK, GoneOK, LookOK, PassFor
  <1>2. ASSUME NEW v \in Vms, NoteLegacy(v) PROVE IInv'
    <2>1. file[v] # Absent /\ file[v] \in FileFor(asked[v]) /\ Held(fwd, v) \in SUBSET Ips
      BY <1>2 DEF NoteLegacy, Legacy, IInv, Sound, Held
    <2> DEFINE f == [file[v] EXCEPT !.to = Held(fwd, v)]
    <2>2. f \in FileFor(asked[v]) /\ f.hash = file[v].hash /\ f.saved = file[v].saved
      BY <2>1 DEF FileFor
    <2>3. f.hash = f.saved => [f EXCEPT !.applied = f.saved] \in FileFor(asked[v])
      <3> HIDE DEF f
      <3> QED
        BY <2>2, Distinct DEF FileFor
    <2>4. [f EXCEPT !.raw = chains[v]] \in FileFor(asked[v])
      <3>1. chains[v] \in ChainsFor(asked[v]) \cup {Absent}
        BY DEF IInv, Sound
      <3> HIDE DEF f
      <3> QED
        BY <2>2, <3>1 DEF FileFor
    <2>5. \E g \in FileFor(asked[v]) : WriteBoth(v, g)
      BY <1>2, <2>3, <2>4 DEF NoteLegacy
    <2>6. FilesTyped' /\ Sound'
      BY <1>2, <2>5, WriteTyped DEF NoteLegacy
    <2> QED
      BY <1>2, <2>6
      DEF NoteLegacy, Free, NoJob, IInv, TypeOK, FilesTyped, JobOK, ChangeOK, AskOK, GoneOK, LookOK, PassFor
  <1>3. ASSUME NEW v \in Vms, Restore(v) PROVE IInv'
    <2>0. Named(v) \in SUBSET Ips
      BY DEF Named
    <2>1. FilesTyped' /\ Sound' /\ JobOK' /\ chains' \in [Vms -> Contents \cup {Absent}]
      <3>1. CASE KeepInForce(v, Named(v), "start")
        BY <1>3, <2>0, <3>1, KeepOK DEF Restore
      <3>2. CASE UNCHANGED <<kernel, disk, job>>
        <4>1. FilesTyped' /\ Sound'
          BY <1>3, <3>2, SameFiles DEF Restore, IInv, TypeOK
        <4> QED
          BY <1>3, <3>2, <4>1 DEF Restore, IInv, TypeOK, JobOK
      <3> QED
        BY <1>3, <3>1, <3>2 DEF Restore
    <2> QED
      BY <1>3, <2>1 DEF Restore, IInv, TypeOK, FilesTyped, ChangeOK, AskOK, GoneOK, LookOK, PassFor
  <1>4. ASSUME NEW v \in Vms, NEW ip \in Ips, ApplyRule(v, ip) PROVE IInv'
    <2>1. FilesTyped' /\ Sound'
      BY <1>4, SameFiles DEF ApplyRule, IInv, TypeOK
    <2> QED
      <3>1. ChangeOK'
        BY <1>4 DEF ApplyRule, Idle, ChangeOK
      <3> QED
        BY <1>4, <2>1, <3>1 DEF ApplyRule, IInv, TypeOK, FilesTyped, JobOK, AskOK, GoneOK, LookOK, PassFor
  <1> QED
    BY <1>1, <1>2, <1>3, <1>4 DEF BootStep

\* So does a change of forwards, which leaves files and chains alone.
LEMMA ChangeStepOK == ASSUME IInv, ChangeStep, Remember PROVE IInv'
  <1> USE MemoryTyped DEF kernel, disk, world, start
  <1>0. FilesTyped' /\ Sound'
    BY SameFiles DEF ChangeStep, InsertAccept, Reassert, RecordForward, UndoForward, EraseForward,
                     IInv, TypeOK
  <1> USE DEF IInv, TypeOK, FilesTyped, JobOK, ChangeOK, AskOK, GoneOK, LookOK, Idle, Fail
  <1>1. CASE InsertAccept
    BY <1>0, <1>1 DEF InsertAccept
  <1>2. CASE Reassert
    BY <1>0, <1>2 DEF Reassert, Queue, Free, NoJob
  <1>3. CASE RecordForward
    BY <1>0, <1>3 DEF RecordForward
  <1>4. CASE UndoForward
    BY <1>0, <1>4 DEF UndoForward
  <1>5. CASE EraseForward
    BY <1>0, <1>5 DEF EraseForward
  <1> QED
    BY <1>1, <1>2, <1>3, <1>4, <1>5 DEF ChangeStep

\* An Apply puts in force what it was asked for, or the defaults.
LEMMA AskStepOK == ASSUME IInv, AskStep, Remember PROVE IInv'
  <1> USE MemoryTyped DEF kernel, disk, world, start
  <1>1. CASE ApplyBegins
    <2> DEFINE v == ask.vm
    <2>1. v \in Vms /\ asked[v] \in SUBSET Cfgs
      BY <1>1 DEF ApplyBegins, IInv, AskOK, TypeOK
    <2>2. file[v] # Absent => [file[v] EXCEPT !.hash = Null] \in FileFor(asked[v])
      BY <2>1 DEF IInv, Sound, FileFor
    <2>3. FilesTyped' /\ Sound'
      BY <1>1, <2>1, <2>2
      DEF ApplyBegins, IInv, TypeOK, FilesTyped, Sound, FileFor, BootFor, ChainsFor, Cfgs, Contents
    <2> QED
      BY <1>1, <2>1, <2>3
      DEF ApplyBegins, Queue, IInv, TypeOK, FilesTyped, JobOK, ChangeOK, AskOK, GoneOK, LookOK, PassFor
  <1>2. CASE ApplyKernel
    <2> DEFINE v == job.vm
               ips == IF job.cfg = Open THEN {} ELSE job.ips \cup Held(fwd, v)
    <2>0. /\ v \in Vms /\ asked[v] \in SUBSET Cfgs /\ job.cfg \in asked[v]
          /\ ips \in SUBSET Ips
      BY <1>2 DEF ApplyKernel, IInv, JobOK, TypeOK, Held
    <2>1. CASE job.cfg = Open /\ Clear(v)
               /\ job' = [job EXCEPT !.what = "applied", !.ips = ips] /\ UNCHANGED ask
      <3>1. FilesTyped' /\ Sound' /\ chains' \in [Vms -> Contents \cup {Absent}]
        BY <1>2, <2>0, <2>1, ClearOK DEF ApplyKernel
      <3> HIDE DEF ips
      <3>a. JobOK'
        BY <1>2, <2>0, <2>1 DEF ApplyKernel, IInv, JobOK
      <3> QED
        BY <1>2, <2>1, <3>1, <3>a
        DEF ApplyKernel, IInv, TypeOK, FilesTyped, ChangeOK, AskOK, GoneOK, LookOK, PassFor
    <2>2. CASE job.cfg # Open /\ chains' = [chains EXCEPT ![v] = job.cfg]
               /\ job' = [job EXCEPT !.what = "applied", !.ips = ips] /\ UNCHANGED ask
      <3>1. job.cfg \in ChainsFor(asked[v]) \cup {Absent}
        BY <2>0, <2>2 DEF ChainsFor, Cfgs
      <3>2. FilesTyped' /\ Sound' /\ chains' \in [Vms -> Contents \cup {Absent}]
        BY <1>2, <2>0, <2>2, <3>1, ChainsTyped DEF ApplyKernel
      <3> HIDE DEF ips
      <3>a. JobOK'
        BY <1>2, <2>0, <2>2 DEF ApplyKernel, IInv, JobOK
      <3> QED
        BY <1>2, <2>2, <3>2, <3>a
        DEF ApplyKernel, IInv, TypeOK, FilesTyped, ChangeOK, AskOK, GoneOK, LookOK, PassFor
    <2>3. CASE /\ chains' = [chains EXCEPT ![v] = Default] \/ UNCHANGED chains
               /\ job' = NoJob /\ ask' = Idle
      <3>1. Default \in ChainsFor(asked[v]) \cup {Absent}
        BY DEF ChainsFor
      <3>2. FilesTyped' /\ Sound' /\ chains' \in [Vms -> Contents \cup {Absent}]
        <4>1. CASE chains' = [chains EXCEPT ![v] = Default]
          BY <1>2, <2>0, <3>1, <4>1, ChainsTyped DEF ApplyKernel
        <4>2. CASE UNCHANGED chains
          BY <1>2, <4>2, SameFiles DEF ApplyKernel, IInv, TypeOK
        <4> QED
          BY <2>3, <4>1, <4>2
      <3> QED
        BY <1>2, <2>3, <3>2
        DEF ApplyKernel, NoJob, Idle, IInv, TypeOK, FilesTyped, JobOK, ChangeOK, AskOK, GoneOK, LookOK, PassFor
    <2> QED
      BY <1>2, <2>1, <2>2, <2>3 DEF ApplyKernel
  <1> QED
    BY <1>1, <1>2 DEF AskStep

\* A VM's delete takes its firewall away.
LEMMA DeleteStepOK == ASSUME IInv, DeleteStep, Remember PROVE IInv'
  <1> USE MemoryTyped DEF kernel, disk, world, start
  <1>1. CASE DeleteForwards
    <2>1. FilesTyped' /\ Sound'
      BY <1>1, SameFiles DEF DeleteForwards, IInv, TypeOK
    <2>2. Named(gone.vm) \in SUBSET Ips
      BY DEF Named
    <2>3. ChangeOK' /\ GoneOK'
      BY <1>1, <2>2 DEF DeleteForwards, Drop, Idle, ChangeOK, GoneOK, IInv
    <2> QED
      BY <1>1, <2>1, <2>3 DEF DeleteForwards, IInv, TypeOK, FilesTyped, JobOK, AskOK, LookOK, PassFor
  <1>2. CASE DeleteFirewall
    <2>0. gone.vm \in Vms
      BY <1>2 DEF DeleteFirewall, IInv, GoneOK
    <2>1. FilesTyped' /\ Sound' /\ chains' \in [Vms -> Contents \cup {Absent}]
      <3>1. CASE UNCHANGED kernel
        BY <1>2, <3>1, SameFiles DEF DeleteFirewall, IInv, TypeOK
      <3>2. CASE Clear(gone.vm)
        BY <1>2, <2>0, <3>2, ClearOK DEF DeleteFirewall
      <3> QED
        BY <1>2, <3>1, <3>2 DEF DeleteFirewall
    <2>2. JobOK' /\ GoneOK'
      BY <1>2, <2>0 DEF DeleteFirewall, Queue, Idle, JobOK, GoneOK, IInv
    <2> QED
      BY <1>2, <2>1, <2>2 DEF DeleteFirewall, IInv, TypeOK, FilesTyped, ChangeOK, AskOK, LookOK, PassFor
  <1>3. CASE DeleteFile
    <2>1. FilesTyped' /\ Sound'
      BY <1>3 DEF DeleteFile, IInv, TypeOK, FilesTyped, Sound
    <2>2. JobOK' /\ GoneOK'
      BY <1>3 DEF DeleteFile, Free, NoJob, Idle, JobOK, GoneOK, IInv
    <2> QED
      BY <1>3, <2>1, <2>2 DEF DeleteFile, IInv, TypeOK, FilesTyped, ChangeOK, AskOK, LookOK, PassFor
  <1> QED
    BY <1>1, <1>2, <1>3 DEF DeleteStep

\* What a pass can read of a VM's addresses is a set of addresses.
LEMMA ReadingsTyped ==
    ASSUME NEW h, NEW f, NEW claims, NEW v, NEW on, NEW has, NEW s \in Readings(h, f, claims, v, on, has)
    PROVE  s \in SUBSET Ips
  <1>1. PICK t : s = {ip \in t : ~Claimed(h, f, claims, v, ip)} /\ t \subseteq Ips
    BY DEF Readings
  <1> QED
    BY <1>1

\* On to the next VM: the pass ends, or goes on with nothing but its readings.
LEMMA NextVm ==
    ASSUME LookOK, NEW v \in Vms, DoneWith(v)
    PROVE  LookOK'
  BY DEF DoneWith, LookOK, PassFor, NoPass

\* A pass puts back what is in force, and changes jumps.
LEMMA PassStepOK == ASSUME IInv, PassStep, Remember PROVE IInv'
  <1> USE MemoryTyped DEF kernel, disk, world, start
  <1>0. ASSUME UNCHANGED <<kernel, disk, job, asked>>
        PROVE  FilesTyped' /\ Sound' /\ JobOK'
    BY <1>0, SameFiles DEF IInv, TypeOK, JobOK
  <1>1. CASE BeginPass
    <2>1. PICK missed :
              look' = [pc |-> "look", vm |-> Nothing, ip |-> Nothing,
                       roster |-> {v \in Vms : st[v] # "gone"} \ missed,
                       on |-> {v \in {w \in Vms : st[w] # "gone"} : st[v] = "on"}, nics |-> nic,
                       holder |-> Absent, owners |-> Absent, fwd |-> fwd, claims |-> forwards, wanted |-> {},
                       named |-> {}, held |-> {}]
      BY <1>1 DEF BeginPass, NoPass
    <2>2. LookOK'
      BY <2>1 DEF LookOK, PassFor, IInv, TypeOK
    <2> QED
      BY <1>0, <1>1, <2>2 DEF BeginPass, IInv, TypeOK, FilesTyped, ChangeOK, AskOK, GoneOK
  <1>2. ASSUME NEW v \in Vms, LookAt(v) PROVE IInv'
    <2>1. Named(v) \in SUBSET Ips /\ Leases \in {Absent} \cup [Ips -> Vms \cup {Nothing}]
      BY DEF Named, Leases, IInv, LookOK, PassFor, TypeOK
    <2>2. PICK ips \in SUBSET Ips :
              look' = [look EXCEPT !.pc = "keep", !.vm = v, !.holder = Leases, !.wanted = ips,
                                   !.named = Named(v)]
      <3>1. PICK ips \in Readings(Leases, look.fwd, look.claims, v, v \in look.on, v \in look.nics) :
                look' = [look EXCEPT !.pc = "keep", !.vm = v, !.holder = Leases, !.wanted = ips,
                                     !.named = Named(v)]
        BY <1>2 DEF LookAt
      <3>2. ips \in SUBSET Ips
        BY ReadingsTyped
      <3> QED
        BY <3>1, <3>2
    <2>3. LookOK'
      <3>1. PICK k : k = [look EXCEPT !.pc = "keep", !.vm = v]
        OBVIOUS
      <3>2. PICK m : m = [k EXCEPT !.holder = Leases, !.wanted = ips]
        OBVIOUS
      <3>3. k \in PassFor(look.fwd) /\ k.vm = v
        BY <3>1 DEF IInv, LookOK, PassFor
      <3>4. m \in PassFor(look.fwd) /\ m.vm = v
        BY <2>1, <3>2, <3>3 DEF PassFor
      <3>5. look' = [m EXCEPT !.named = Named(v)]
        BY <2>2, <3>1, <3>2
      <3>6. look' \in PassFor(look.fwd) /\ look'.vm = v
        BY <2>1, <3>4, <3>5 DEF PassFor
      <3> QED
        BY <3>6 DEF LookOK, PassFor
    <2> QED
      BY <1>0, <1>2, <2>3 DEF LookAt, IInv, TypeOK, FilesTyped, ChangeOK, AskOK, GoneOK
  <1>3. ASSUME NEW v \in Vms, LookGone(v) PROVE IInv'
    <2>1. LookOK'
      <3>1. CASE look' = [look EXCEPT !.pc = "gone", !.vm = v]
        BY <3>1 DEF LookOK, PassFor, IInv
      <3> QED
        BY <1>3, <3>1, NextVm DEF LookGone, IInv
    <2> QED
      BY <1>0, <1>3, <2>1 DEF LookGone, IInv, TypeOK, FilesTyped, ChangeOK, AskOK, GoneOK
  <1>4. CASE TakeOut
    <2>0. look.vm \in Vms
      BY <1>4 DEF TakeOut, Passing, IInv, LookOK, PassFor
    <2>1. FilesTyped' /\ Sound' /\ chains' \in [Vms -> Contents \cup {Absent}]
      BY <1>4, <2>0, ClearOK DEF TakeOut
    <2>2. JobOK' /\ LookOK'
      BY <1>4, <2>0, NextVm DEF TakeOut, Queue, JobOK, IInv
    <2> QED
      BY <1>4, <2>1, <2>2 DEF TakeOut, IInv, TypeOK, FilesTyped, ChangeOK, AskOK, GoneOK
  <1>5. CASE Keep
    <2>0. look.vm \in Vms /\ look.wanted \cup look.named \in SUBSET Ips
      BY <1>5 DEF Keep, Passing, IInv, LookOK, PassFor
    <2>1. FilesTyped' /\ Sound' /\ JobOK' /\ chains' \in [Vms -> Contents \cup {Absent}]
      <3>1. CASE KeepInForce(look.vm, look.wanted \cup look.named, "pass")
        BY <1>5, <2>0, <3>1, KeepOK DEF Keep
      <3>2. CASE UNCHANGED <<kernel, disk, job>>
        BY <1>0, <1>5, <3>2 DEF Keep, IInv, TypeOK
      <3> QED
        BY <1>5, <3>1, <3>2 DEF Keep
    <2>2. LookOK'
      <3>1. CASE look' = [look EXCEPT !.pc = "held"]
        BY <2>0, <3>1 DEF LookOK, PassFor, IInv
      <3> QED
        BY <1>5, <2>0, <3>1, NextVm DEF Keep, IInv
    <2> QED
      BY <1>5, <2>1, <2>2 DEF Keep, IInv, TypeOK, FilesTyped, ChangeOK, AskOK, GoneOK
  <1>6. CASE ReadHeld
    <2>1. LookOK'
      BY <1>6 DEF ReadHeld, Passing, Held, LookOK, PassFor, IInv
    <2> QED
      BY <1>0, <1>6, <2>1 DEF ReadHeld, IInv, TypeOK, FilesTyped, ChangeOK, AskOK, GoneOK
  <1>7. ASSUME NEW ip \in Ips, AddAddress(ip) PROVE IInv'
    <2>0. look.vm \in Vms
      BY <1>7 DEF AddAddress, Passing, IInv, LookOK, PassFor
    <2>1. FilesTyped' /\ Sound'
      BY <1>7, SameFiles DEF AddAddress, IInv, TypeOK
    <2>2. JobOK'
      BY <1>7, <2>0 DEF AddAddress, Queue, JobOK, IInv
    <2>3. LookOK'
      BY <1>7, <2>0, NextVm DEF AddAddress, LookOK, PassFor, IInv
    <2> QED
      BY <1>7, <2>1, <2>2, <2>3 DEF AddAddress, IInv, TypeOK, FilesTyped, ChangeOK, AskOK, GoneOK
  <1>7a. CASE AskOwners
    <2>1. LookOK'
      BY <1>7a DEF AskOwners, Passing, LookOK, PassFor, IInv, TypeOK
    <2> QED
      BY <1>0, <1>7a, <2>1 DEF AskOwners, IInv, TypeOK, FilesTyped, ChangeOK, AskOK, GoneOK
  <1>8. CASE CheckForwards
    <2>1. LookOK'
      <3>1. PICK ip \in Ips, p \in {"turn", "drop"} :
                look' = [look EXCEPT !.held = @ \ {ip}, !.ip = ip, !.pc = p]
        <4>1. Strays \in SUBSET Ips
          BY DEF Strays, Rest, IInv, LookOK, PassFor
        <4> QED
          BY <1>8, <4>1 DEF CheckForwards
      <3>2. look.vm \in Vms
        BY <1>8 DEF CheckForwards, Passing, IInv, LookOK, PassFor
      <3>3. PICK k : k = [look EXCEPT !.held = @ \ {ip}, !.ip = ip]
        OBVIOUS
      <3>4. /\ k \in PassFor(look.fwd)
            /\ k.vm = look.vm
        BY <3>3 DEF LookOK, PassFor, IInv
      <3>5. look' = [k EXCEPT !.pc = p]
        BY <3>1, <3>3
      <3> QED
        BY <3>2, <3>4, <3>5 DEF LookOK, PassFor
    <2> QED
      BY <1>0, <1>8, <2>1 DEF CheckForwards, IInv, TypeOK, FilesTyped, ChangeOK, AskOK, GoneOK
  <1>9. CASE DropAddress
    <2>0. look.vm \in Vms
      BY <1>9 DEF DropAddress, Passing, IInv, LookOK, PassFor
    <2>1. FilesTyped' /\ Sound'
      BY <1>9, SameFiles DEF DropAddress, IInv, TypeOK
    <2>2. JobOK' /\ LookOK'
      BY <1>9, <2>0 DEF DropAddress, Queue, JobOK, LookOK, PassFor, IInv
    <2> QED
      BY <1>9, <2>1, <2>2 DEF DropAddress, IInv, TypeOK, FilesTyped, ChangeOK, AskOK, GoneOK
  <1>10. CASE Raise
    <2>1. FilesTyped' /\ Sound'
      BY <1>10, SameFiles DEF Raise, IInv, TypeOK
    <2>2. LookOK'
      <3>1. look.vm \in Vms /\ DoneWith(look.vm)
        BY <1>10 DEF Raise, Passing, IInv, LookOK, PassFor
      <3> QED
        BY <3>1, NextVm DEF IInv
    <2>3. UNCHANGED <<file, chains, nic, st, holder, forwards, phase, asked, job, change, ask, gone>>
      BY <1>10 DEF Raise
    <2>4. JobOK' /\ ChangeOK' /\ AskOK' /\ GoneOK'
      BY <2>3 DEF IInv, JobOK, ChangeOK, AskOK, GoneOK
    <2>5. since' \in Memory
      BY <2>3 DEF IInv, TypeOK
    <2> QED
      BY <2>1, <2>2, <2>3, <2>4, <2>5 DEF IInv, TypeOK, FilesTyped
  <1> QED
    BY <1>1, <1>2, <1>3, <1>4, <1>5, <1>6, <1>7, <1>8, <1>9, <1>10, <1>7a DEF PassStep

\* A request changes no rules by itself, and an Apply is noted as asked for.
LEMMA RequestsOK == ASSUME IInv, Requests, Remember PROVE IInv'
  <1> USE MemoryTyped DEF kernel, disk, world, actors, start
  <1>1. ASSUME NEW v \in Vms, NEW c \in Cfgs, Save(v, c) PROVE IInv'
    <2> DEFINE f == IF file[v] = Absent THEN NewFile ELSE file[v]
    <2>1. f \in FileFor(asked[v])
      BY DEF IInv, Sound, NewFile, FileFor, Cfgs
    <2>2. [f EXCEPT !.saved = c] \in FileFor(asked[v])
      <3> HIDE DEF f
      <3> QED
        BY <2>1 DEF FileFor
    <2>3. file' = [file EXCEPT ![v] = [f EXCEPT !.saved = c]]
      BY <1>1 DEF Save
    <2> HIDE DEF f
    <2>4. FilesTyped' /\ Sound'
      BY <1>1, <2>2, <2>3
      DEF Save, IInv, TypeOK, FilesTyped, Sound, FileFor, BootFor, ChainsFor, Cfgs, Contents
    <2>5. JobOK'
      BY <1>1 DEF Save, Free, NoJob, JobOK, IInv
    <2> QED
      BY <1>1, <2>4, <2>5 DEF Save, IInv, TypeOK, FilesTyped, ChangeOK, AskOK, GoneOK, LookOK, PassFor
  <1>2. ASSUME NEW v \in Vms, BeginApply(v) PROVE IInv'
    <2> DEFINE cfg == IF file[v] = Absent THEN Open ELSE file[v].saved
    <2>1. cfg \in Cfgs
      BY DEF IInv, Sound, FileFor, Cfgs
    <2>2. PICK ips \in SUBSET Ips :
              /\ ask' = [Idle EXCEPT !.pc = "queue", !.vm = v, !.cfg = cfg, !.ips = ips \cup Named(v)]
              /\ asked' = [asked EXCEPT ![v] = asked[v] \cup {cfg}]
      <3>1. PICK ips \in Readings(holder, fwd, forwards, v, st[v] = "on", v \in nic) :
                /\ ask' = [Idle EXCEPT !.pc = "queue", !.vm = v, !.cfg = cfg, !.ips = ips \cup Named(v)]
                /\ asked' = [asked EXCEPT ![v] = @ \cup {cfg}]
        BY <1>2 DEF BeginApply
      <3>2. ips \in SUBSET Ips
        BY ReadingsTyped
      <3> QED
        BY <3>1, <3>2
    <2> HIDE DEF cfg
    <2>3. asked' \in [Vms -> SUBSET Cfgs] /\ \A w \in Vms : asked[w] \subseteq asked'[w]
      BY <2>1, <2>2 DEF IInv, TypeOK
    <2>4. FilesTyped' /\ Sound'
      BY <1>2, <2>3, SameFiles DEF BeginApply
    <2>5. AskOK'
      <3>1. ips \cup Named(v) \in SUBSET Ips
        BY DEF Named
      <3>2. ask' = [pc |-> "queue", vm |-> v, ip |-> Nothing, cfg |-> cfg, ips |-> ips \cup Named(v)]
        BY <2>2 DEF Idle
      <3>3. cfg \in asked'[v]
        BY <2>2 DEF IInv, TypeOK
      <3> QED
        BY <2>1, <3>1, <3>2, <3>3 DEF AskOK
    <2>6. JobOK'
      BY <1>2, <2>3 DEF BeginApply, JobOK, IInv
    <2> QED
      BY <1>2, <2>3, <2>4, <2>5, <2>6
      DEF BeginApply, IInv, TypeOK, FilesTyped, ChangeOK, GoneOK, LookOK, PassFor
  <1>3. ASSUME NEW v \in Vms, BeginDelete(v) PROVE IInv'
    <2>1. FilesTyped' /\ Sound'
      BY <1>3, SameFiles DEF BeginDelete, IInv, TypeOK
    <2>2. GoneOK'
      BY <1>3 DEF BeginDelete, Idle, GoneOK
    <2> QED
      BY <1>3, <2>1, <2>2 DEF BeginDelete, IInv, TypeOK, FilesTyped, JobOK, ChangeOK, AskOK, LookOK, PassFor
  <1>4. ASSUME NEW v \in Vms, NEW ip \in Ips, BeginForward(v, ip) \/ DropForward(v, ip) PROVE IInv'
    <2>1. FilesTyped' /\ Sound'
      BY <1>4, SameFiles DEF BeginForward, DropForward, IInv, TypeOK
    <2>2. ChangeOK'
      <3>1. CASE BeginForward(v, ip)
        BY <3>1 DEF BeginForward, Idle, ChangeOK
      <3>2. CASE DropForward(v, ip)
        BY <3>2 DEF DropForward, Drop, Idle, ChangeOK
      <3> QED
        BY <1>4, <3>1, <3>2
    <2> QED
      BY <1>4, <2>1, <2>2
      DEF BeginForward, DropForward, Drop, IInv, TypeOK, FilesTyped, JobOK, AskOK, GoneOK, LookOK, PassFor
  <1> QED
    BY <1>1, <1>2, <1>3, <1>4 DEF Requests

\* What happens in the world puts nothing in force but what a file of the hook says.
LEMMA WorldOK == ASSUME IInv, World, Remember PROVE IInv'
  <1> USE MemoryTyped DEF kernel, disk, world, actors, start
  <1>0. ASSUME UNCHANGED <<kernel, disk, asked>>
        PROVE  FilesTyped' /\ Sound'
    BY <1>0, SameFiles DEF IInv, TypeOK
  <1>1. ASSUME NEW v \in Vms, Start(v) PROVE IInv'
    <2>1. FilesTyped' /\ Sound' /\ chains' \in [Vms -> Contents \cup {Absent}]
      <3>1. CASE UNCHANGED chains
        BY <1>1, <3>1, SameFiles DEF Start, IInv, TypeOK
      <3>2. CASE boot[v] # Absent /\ chains' = [chains EXCEPT ![v] = boot[v].rules]
        <4>1. boot[v].rules \in ChainsFor(asked[v]) \cup {Absent}
          BY <3>2 DEF IInv, Sound, BootFor
        <4> QED
          BY <1>1, <3>2, <4>1, ChainsTyped DEF Start
      <3> QED
        BY <1>1, <3>1, <3>2 DEF Start
    <2>2. st' \in [Vms -> {"off", "on", "gone"}]
      BY <1>1 DEF Start, IInv, TypeOK
    <2>3. JobOK' /\ ChangeOK' /\ AskOK' /\ GoneOK' /\ LookOK'
      BY <1>1 DEF Start, IInv, JobOK, ChangeOK, AskOK, GoneOK, LookOK, PassFor
    <2> QED
      BY <1>1, <2>1, <2>2, <2>3 DEF Start, IInv, TypeOK, FilesTyped
  <1>2. ASSUME NEW v \in Vms, Meddle(v) PROVE IInv'
    <2>0. Junk \in ChainsFor(asked[v]) \cup {Absent}
      BY DEF ChainsFor
    <2>1. FilesTyped' /\ Sound' /\ chains' \in [Vms -> Contents \cup {Absent}]
      BY <1>2, <2>0, ChainsTyped DEF Meddle
    <2> QED
      BY <1>2, <2>1 DEF Meddle, IInv, TypeOK, FilesTyped, JobOK, ChangeOK, AskOK, GoneOK, LookOK, PassFor
  <1>3. ASSUME NEW v \in Vms, Detach(v) PROVE IInv'
    <2>0. Named(v) \in SUBSET Ips
      BY DEF Named
    <2>1. FilesTyped' /\ Sound'
      BY <1>3, SameFiles DEF Detach, IInv, TypeOK
    <2>2. ChangeOK'
      BY <1>3, <2>0 DEF Detach, Drop, Idle, ChangeOK
    <2> QED
      BY <1>3, <2>1, <2>2 DEF Detach, Drop, IInv, TypeOK, FilesTyped, JobOK, AskOK, GoneOK, LookOK, PassFor
  <1>4. ASSUME NEW v \in Vms, Stop(v) \/ Attach(v) \/ Undefine(v) \/ Redefine(v) PROVE IInv'
    <2>1. FilesTyped' /\ Sound'
      BY <1>0, <1>4 DEF Stop, Attach, Undefine, Redefine
    <2> QED
      BY <1>4, <2>1 DEF Stop, Attach, Undefine, Redefine, IInv, TypeOK, FilesTyped, JobOK, ChangeOK,
                        AskOK, GoneOK, LookOK, PassFor
  <1>5. ASSUME NEW ip \in Ips, NEW v \in Vms \cup {Nothing}, MoveAddress(ip, v) PROVE IInv'
    <2>1. FilesTyped' /\ Sound'
      BY <1>0, <1>5 DEF MoveAddress
    <2> QED
      BY <1>5, <2>1 DEF MoveAddress, IInv, TypeOK, FilesTyped, JobOK, ChangeOK, AskOK, GoneOK, LookOK, PassFor
  <1>6. CASE LibvirtRules
    <2>1. FilesTyped' /\ Sound'
      BY <1>6, SameFiles DEF LibvirtRules, IInv, TypeOK
    <2> QED
      BY <1>6, <2>1 DEF LibvirtRules, IInv, TypeOK, FilesTyped, JobOK, ChangeOK, AskOK, GoneOK, LookOK, PassFor
  <1>7. CASE Restart
    <2>1. FilesTyped' /\ Sound'
      <3>1. CASE UNCHANGED <<kernel, st>>
        BY <1>0, <1>7, <3>1 DEF Restart
      <3>2. CASE chains' = [v \in Vms |-> Absent]
        BY <1>7, <3>2 DEF Restart, IInv, TypeOK, FilesTyped, Sound
      <3> QED
        BY <1>7, <3>1, <3>2 DEF Restart
    <2>2. st' \in [Vms -> {"off", "on", "gone"}] /\ chains' \in [Vms -> Contents \cup {Absent}]
      BY <1>7 DEF Restart, IInv, TypeOK
    <2>3. JobOK' /\ ChangeOK' /\ AskOK' /\ GoneOK' /\ LookOK'
      BY <1>7 DEF Restart, NoJob, NoPass, Idle, JobOK, ChangeOK, AskOK, GoneOK, LookOK, PassFor
    <2> QED
      BY <1>7, <2>1, <2>2, <2>3 DEF Restart, IInv, TypeOK, FilesTyped
  <1> QED
    BY <1>1, <1>2, <1>3, <1>4, <1>5, <1>6, <1>7 DEF World

LEMMA StepOK == IInv /\ [Next]_vars => IInv'
  <1> SUFFICES ASSUME IInv, [Next]_vars PROVE IInv'
    OBVIOUS
  <1>1. CASE UNCHANGED vars
    BY <1>1 DEF vars, IInv, TypeOK, Sound, JobOK, ChangeOK, AskOK, GoneOK, LookOK, PassFor
  <1> QED
    BY <1>1, EndJobOK, BootOK, ChangeStepOK, AskStepOK, DeleteStepOK, PassStepOK, RequestsOK, WorldOK
    DEF Next

THEOREM Inductive == Spec => []IInv
  BY InitOK, StepOK, PTL DEF Spec

\* Every variable of the firewall's model keeps its type: files, chains, addresses and the record
\* of what was asked for.
THEOREM TypeCorrect == Spec => []TypeOK
  <1>1. IInv => TypeOK
    BY DEF IInv
  <1> QED
    BY <1>1, Inductive, PTL

\* A draft never takes force: what filters a VM is something Apply was asked for, its defaults, or
\* what another program has made of it.
THEOREM NeverADraft == Spec => []NoDraft
  <1>1. IInv => NoDraft
    BY DEF IInv, Sound, ChainsFor, NoDraft
  <1> QED
    BY <1>1, Inductive, PTL

(***************************************************************************)
(* Lists of rules: what is taken out of one, and put at its head.          *)
(***************************************************************************)

IsAList(f) == \E S : f \in Seq(S)

\* How many of the first rules stay.
Left(f, rules, i) == Cardinality({j \in 1 .. i : f[j] \notin rules})

LEMMA LeftCounts ==
    ASSUME NEW f, NEW rules, NEW i \in Nat, NEW k \in Nat, i <= k
    PROVE  /\ Left(f, rules, i) \in Nat /\ Left(f, rules, k) \in Nat
           /\ Left(f, rules, i) <= Left(f, rules, k)
           /\ i < k /\ f[k] \notin rules => Left(f, rules, i) < Left(f, rules, k)
  <1> DEFINE A == {j \in 1 .. i : f[j] \notin rules}
             B == {j \in 1 .. k : f[j] \notin rules}
  <1>1. IsFiniteSet(1 .. k)
    BY FS_Interval
  <1>2. B \in SUBSET (1 .. k) /\ A \in SUBSET B
    OBVIOUS
  <1>3. IsFiniteSet(B)
    BY <1>1, <1>2, FS_Subset
  <1>4. IsFiniteSet(A) /\ Cardinality(A) <= Cardinality(B) /\ (Cardinality(B) = Cardinality(A) => B = A)
    BY <1>2, <1>3, FS_Subset
  <1>5. Cardinality(A) \in Nat /\ Cardinality(B) \in Nat
    BY <1>3, <1>4, FS_CardinalityType
  <1>6. i < k /\ f[k] \notin rules => A # B
    <2> SUFFICES ASSUME i < k, f[k] \notin rules PROVE k \in B /\ k \notin A
      OBVIOUS
    <2> QED
      OBVIOUS
  <1> QED
    BY <1>4, <1>5, <1>6 DEF Left

\* What is left of a list is one.
LEMMA WithoutIsAList ==
    ASSUME NEW f, NEW rules, IsAList(f)
    PROVE  IsAList(Without(f, rules))
  <1>1. Len(f) \in Nat
    BY DEF IsAList
  <1>2. Left(f, rules, Len(f)) \in Nat
    BY <1>1, LeftCounts
  <1>3. CASE \A i \in DOMAIN f : f[i] \notin rules
    BY <1>3 DEF Without
  <1>4. CASE ~ \A i \in DOMAIN f : f[i] \notin rules
    <2> DEFINE n == Left(f, rules, Len(f))
               e(k) == f[CHOOSE i \in DOMAIN f : f[i] \notin rules /\ Left(f, rules, i) = k]
               g == [k \in 1 .. n |-> e(k)]
    <2>1. Without(f, rules) = g
      BY <1>4 DEF Without, Left
    <2> HIDE DEF e, n
    <2>2. g \in [1 .. n -> {e(k) : k \in 1 .. n}]
      OBVIOUS
    <2>3. g \in Seq({e(k) : k \in 1 .. n})
      BY <1>2, <2>2 DEF n
    <2> QED
      BY <2>1, <2>3 DEF IsAList
  <1> QED
    BY <1>3, <1>4

\* Whatever is not taken out of a list is still on it.
LEMMA WithoutKeeps ==
    ASSUME NEW f, NEW rules, IsAList(f), NEW r, r \notin rules, Has(f, r)
    PROVE  Has(Without(f, rules), r)
  <1>1. Len(f) \in Nat /\ DOMAIN f = 1 .. Len(f)
    BY DEF IsAList
  <1>2. PICK i \in 1 .. Len(f) : f[i] = r
    BY <1>1 DEF Has
  <1>3. CASE \A j \in DOMAIN f : f[j] \notin rules
    BY <1>3 DEF Without
  <1>4. CASE ~ \A j \in DOMAIN f : f[j] \notin rules
    <2> DEFINE n == Left(f, rules, Len(f))
               P(k, j) == j \in DOMAIN f /\ f[j] \notin rules /\ Left(f, rules, j) = k
               m == Left(f, rules, i)
    <2>1. Without(f, rules) = [k \in 1 .. n |-> f[CHOOSE j \in DOMAIN f : f[j] \notin rules /\ Left(f, rules, j) = k]]
      BY <1>4 DEF Without, Left
    <2>2. m \in 1 .. n
      <3>1. m <= n /\ m \in Nat /\ n \in Nat
        BY <1>1, <1>2, LeftCounts
      <3>2. Left(f, rules, 0) \in Nat /\ Left(f, rules, 0) < m
        BY <1>2, LeftCounts
      <3> QED
        BY <3>1, <3>2
    <2>3. \A j \in DOMAIN f : f[j] \notin rules /\ Left(f, rules, j) = m => j = i
      <3> SUFFICES ASSUME NEW j \in 1 .. Len(f), f[j] \notin rules, Left(f, rules, j) = m, j # i
                   PROVE  FALSE
        BY <1>1
      <3>1. CASE j < i
        BY <1>2, <3>1, LeftCounts
      <3>2. CASE i < j
        BY <1>2, <3>2, LeftCounts
      <3> QED
        BY <1>2, <3>1, <3>2
    <2>4. (CHOOSE j \in DOMAIN f : f[j] \notin rules /\ Left(f, rules, j) = m) = i
      BY <1>1, <1>2, <2>3
    <2>5. Without(f, rules)[m] = r
      BY <1>2, <2>1, <2>2, <2>4
    <2> QED
      BY <2>1, <2>2, <2>5 DEF Has
  <1> QED
    BY <1>3, <1>4

\* A finite set's members, each at a place of a list.
LEMMA SetToSeqCovers ==
    ASSUME NEW S, IsFiniteSet(S)
    PROVE  /\ Cardinality(S) \in Nat /\ SetToSeq(S) \in [1 .. Cardinality(S) -> S]
           /\ \A x \in S : \E i \in 1 .. Cardinality(S) : SetToSeq(S)[i] = x
  <1> DEFINE n == Cardinality(S)
  <1>1. n \in Nat /\ ExistsBijection(1 .. n, S)
    BY FS_CardinalityType
  <1>2. \E f \in [1 .. n -> S] : IsInjective(f)
    BY <1>1 DEF ExistsBijection, Bijection, Injection
  <1>3. SetToSeq(S) \in [1 .. n -> S] /\ IsInjective(SetToSeq(S))
    BY <1>2 DEF SetToSeq
  <1>4. SetToSeq(S) \in Injection(1 .. n, S)
    BY <1>3 DEF Injection
  <1>5. Cardinality(1 .. n) = n
    BY <1>1, FS_Interval
  <1>6. SetToSeq(S) \in Surjection(1 .. n, S)
    BY <1>4, <1>5, FS_Injection
  <1> QED
    BY <1>1, <1>3, <1>6 DEF Surjection

\* The pairs of jumps for some addresses have the jump in for each.
LEMMA PairsHave ==
    ASSUME NEW v, NEW ips, IsFiniteSet(ips)
    PROVE  /\ IsAList(Pairs(v, ips))
           /\ \A ip \in ips : Has(Pairs(v, ips), In(v, ip))
  <1> DEFINE n == Cardinality(ips)
             e(k) == LET ip == SetToSeq(ips)[(k + 1) \div 2]
                     IN  IF k % 2 = 1 THEN Out(v, ip) ELSE In(v, ip)
  <1>1. /\ n \in Nat
        /\ \A x \in ips : \E i \in 1 .. n : SetToSeq(ips)[i] = x
    BY SetToSeqCovers
  <1>2. Pairs(v, ips) = [k \in 1 .. 2 * n |-> e(k)]
    BY DEF Pairs
  <1>3. IsAList(Pairs(v, ips))
    <2> HIDE DEF e, n
    <2>1. [k \in 1 .. 2 * n |-> e(k)] \in Seq({e(k) : k \in 1 .. 2 * n})
      BY <1>1
    <2> QED
      BY <1>2, <2>1 DEF IsAList
  <1>4. ASSUME NEW ip \in ips PROVE Has(Pairs(v, ips), In(v, ip))
    <2>1. PICK i \in 1 .. n : SetToSeq(ips)[i] = ip
      BY <1>1
    <2>2. 2 * i \in 1 .. 2 * n /\ (2 * i + 1) \div 2 = i /\ (2 * i) % 2 = 0
      BY <1>1, <2>1
    <2>3. e(2 * i) = In(v, ip)
      BY <2>1, <2>2
    <2> QED
      BY <1>2, <2>2, <2>3 DEF Has
  <1> QED
    BY <1>3, <1>4

\* One list before another: it has what either has.
LEMMA JoinHas ==
    ASSUME NEW f, NEW g, IsAList(f), IsAList(g)
    PROVE  /\ IsAList(f \o g)
           /\ \A r : Has(f, r) \/ Has(g, r) => Has(f \o g, r)
  <1>1. PICK S : f \in Seq(S)
    BY DEF IsAList
  <1>2. PICK T : g \in Seq(T)
    BY DEF IsAList
  <1>3. f \in Seq(S \cup T) /\ g \in Seq(S \cup T)
    BY <1>1, <1>2
  <1>4. f \o g \in Seq(S \cup T)
    BY <1>3
  <1>5. ASSUME NEW r, NEW i \in DOMAIN f, f[i] = r PROVE Has(f \o g, r)
    <2>1. i \in DOMAIN (f \o g) /\ (f \o g)[i] = r
      BY <1>3, <1>5
    <2> QED
      BY <2>1 DEF Has
  <1>6. ASSUME NEW r, NEW i \in DOMAIN g, g[i] = r PROVE Has(f \o g, r)
    <2>1. Len(f) + i \in DOMAIN (f \o g) /\ (f \o g)[Len(f) + i] = r
      BY <1>3, <1>6
    <2> QED
      BY <2>1 DEF Has
  <1> QED
    BY <1>4, <1>5, <1>6 DEF Has, IsAList

\* A jump that a change of jumps neither leaves out nor puts back stays.
LEMMA SwapKeeps ==
    ASSUME NEW f, IsAList(f), NEW v, NEW ips \in SUBSET Ips, NEW rules,
           NEW w, NEW ip, Has(f, In(w, ip)),
           In(w, ip) \in rules => w = v /\ ip \in ips
    PROVE  Has(Pairs(v, ips) \o Without(f, rules), In(w, ip))
  <1>1. IsFiniteSet(ips)
    BY FS_Subset
  <1>2. IsAList(Pairs(v, ips)) /\ \A i \in ips : Has(Pairs(v, ips), In(v, i))
    BY <1>1, PairsHave
  <1>3. IsAList(Without(f, rules))
    BY WithoutIsAList
  <1>4. CASE In(w, ip) \in rules
    BY <1>2, <1>3, <1>4, JoinHas
  <1>5. CASE In(w, ip) \notin rules
    BY <1>2, <1>3, <1>5, WithoutKeeps, JoinHas
  <1> QED
    BY <1>4, <1>5

\* The jumps of some addresses of a VM.
LEMMA JumpsOf ==
    ASSUME NEW v, NEW ips, NEW w, NEW ip
    PROVE  In(w, ip) \in Jumps(v, ips) => w = v /\ ip \in ips
  BY DEF Jumps, In, Out

LEMMA JumpsFinite ==
    ASSUME NEW v, NEW ips \in SUBSET Ips
    PROVE  IsFiniteSet(Jumps(v, ips))
  <1>1. IsFiniteSet(ips)
    BY FS_Subset
  <1>2. IsFiniteSet({In(v, ip) : ip \in ips})
    <2> DEFINE T == {In(v, ip) : ip \in ips}
               f == [ip \in ips |-> In(v, ip)]
    <2>1. f \in Surjection(ips, T)
      BY DEF Surjection
    <2> QED
      BY <1>1, <2>1, FS_Surjection
  <1>3. IsFiniteSet({Out(v, ip) : ip \in ips})
    <2> DEFINE T == {Out(v, ip) : ip \in ips}
               f == [ip \in ips |-> Out(v, ip)]
    <2>1. f \in Surjection(ips, T)
      BY DEF Surjection
    <2> QED
      BY <1>1, <2>1, FS_Surjection
  <1> QED
    BY <1>2, <1>3, FS_Union DEF Jumps

\* Every change of FORWARD leaves it a list.
LEMMA ListsStay ==
    ASSUME NEW f, IsAList(f)
    PROVE  /\ \A r : IsAList(<<r>>) /\ IsAList(<<r>> \o f)
           /\ \A rules : IsAList(Without(f, rules))
           /\ \A v : \A ips \in SUBSET Ips : IsAList(Pairs(v, ips) \o f)
           /\ \A v : \A ips \in SUBSET Ips : IsAList(PutJumps(f, v, ips)) /\ IsAList(JumpSwap(f, v, ips))
           /\ \A v : IsAList(RepairJumps(f, v))
  <1>1. ASSUME NEW r PROVE IsAList(<<r>>)
    <2>1. <<r>> \in Seq({r})
      OBVIOUS
    <2> QED
      BY <2>1 DEF IsAList
  <1>2. ASSUME NEW v, NEW ips \in SUBSET Ips PROVE IsAList(Pairs(v, ips))
    BY FS_Subset, PairsHave
  <1>3. ASSUME NEW v PROVE IsAList(RepairJumps(f, v))
    <2> DEFINE missing == {r \in Jumps(v, Held(f, v)) : ~Has(f, r)}
    <2>1. IsFiniteSet(missing)
      <3>1. Held(f, v) \in SUBSET Ips
        BY DEF Held
      <3>2. IsFiniteSet(Jumps(v, Held(f, v)))
        BY <3>1, JumpsFinite
      <3> QED
        BY <3>2, FS_Subset
    <2>2. RepairJumps(f, v) = SetToSeq(missing) \o f
      BY DEF RepairJumps
    <2> HIDE DEF missing
    <2>3. SetToSeq(missing) \in Seq(missing)
      BY <2>1, SetToSeqCovers
    <2>4. IsAList(SetToSeq(missing))
      BY <2>3 DEF IsAList
    <2> QED
      BY <2>2, <2>4, JoinHas
  <1>4. ASSUME NEW v, NEW ips \in SUBSET Ips, NEW g, IsAList(g) PROVE IsAList(Pairs(v, ips) \o g)
    BY <1>2, <1>4, JoinHas
  <1>5. ASSUME NEW rules PROVE IsAList(Without(f, rules))
    BY WithoutIsAList
  <1>6. ASSUME NEW v, NEW ips \in SUBSET Ips
        PROVE  IsAList(PutJumps(f, v, ips)) /\ IsAList(JumpSwap(f, v, ips))
    BY <1>4, <1>5 DEF PutJumps, JumpSwap
  <1>7. ASSUME NEW r PROVE IsAList(<<r>> \o f)
    BY <1>1, JoinHas
  <1> QED
    BY <1>1, <1>3, <1>4, <1>5, <1>6, <1>7

(***************************************************************************)
(* What a pass knows when it takes a jump off.                             *)
(***************************************************************************)

Listed == IsAList(fwd)
GoneOff == \A v \in Vms : st[v] = "gone" => v \notin nic
\* A pass under way has been able to see all that it has read, and what is so now.
Knows(l) ==
    /\ Vms \ nic \subseteq since.off /\ nic \subseteq since.here
    /\ \A ip \in Ips, w \in Vms : holder[ip] = w => <<ip, w>> \in since.leased
    /\ Vms \ l.nics \subseteq since.off
    /\ l.owners # Absent => l.owners \subseteq since.here
    /\ l.holder # Absent => \A ip \in Ips, w \in Vms : l.holder[ip] = w => <<ip, w>> \in since.leased
    /\ l.pc = "gone" => l.vm \in since.off
    /\ l.pc = "drop" => Seen(l.vm, l.ip)
JInv == /\ IInv /\ Listed /\ GoneOff
        /\ look.pc # "idle" => Knows(look)

LEMMA InitKnows == Init => JInv
  <1> SUFFICES ASSUME Init PROVE JInv
    OBVIOUS
  <1>1. PICK ip \in Ips : fwd = Pairs(First, {ip}) \o <<Libvirt>>
    BY DEF Init
  <1>2. IsAList(<<Libvirt>>)
    <2>1. <<Libvirt>> \in Seq({Libvirt})
      OBVIOUS
    <2> QED
      BY <2>1 DEF IsAList
  <1>3. Listed
    BY <1>1, <1>2, ListsStay DEF Listed
  <1> QED
    BY <1>3, InitOK DEF JInv, Init, GoneOff, NoPass

LEMMA ListedStays == ASSUME IInv, Listed, Next PROVE Listed'
  <1> USE DEF Listed, kernel, disk
  <1>0. /\ \A r : IsAList(<<r>>) /\ IsAList(<<r>> \o fwd)
        /\ \A rules : IsAList(Without(fwd, rules))
        /\ \A v : \A ips \in SUBSET Ips : IsAList(Pairs(v, ips) \o fwd)
        /\ \A v : \A ips \in SUBSET Ips : IsAList(PutJumps(fwd, v, ips)) /\ IsAList(JumpSwap(fwd, v, ips))
        /\ \A v : IsAList(RepairJumps(fwd, v))
    BY ListsStay
  <1>1. CASE UNCHANGED fwd
    BY <1>1
  <1>2. ASSUME NEW v, Clear(v) PROVE Listed'
    BY <1>0, <1>2 DEF Clear
  <1>3. ASSUME NEW v \in Vms, NEW ips \in SUBSET Ips, NEW by, KeepInForce(v, ips, by) PROVE Listed'
    <2>1. Kept(v)
      BY <1>3 DEF KeepInForce, KeepIntact, KeepRebuild
    <2>2. file[v].to \cup ips \in SUBSET Ips
      BY <2>1 DEF Kept, IInv, TypeOK
    <2> QED
      BY <1>0, <1>3, <2>2 DEF KeepInForce, KeepIntact, KeepRebuild
  <1>4. CASE EndJob
    BY <1>1, <1>4 DEF EndJob
  <1>5. CASE BootStep
    <2>1. ASSUME NEW v \in Vms, Restore(v) PROVE Listed'
      <3>1. Named(v) \in SUBSET Ips
        BY DEF Named
      <3> QED
        BY <1>1, <1>3, <2>1, <3>1 DEF Restore
    <2> QED
      BY <1>1, <1>5, <2>1 DEF BootStep, Restored, Up, NoteLegacy, ApplyRule
  <1>6. CASE ChangeStep
    <2>1. CASE InsertAccept
      BY <1>0, <2>1 DEF InsertAccept
    <2>2. CASE Reassert
      <3>1. {change.ip} \in SUBSET Ips
        BY <2>2 DEF Reassert, IInv, ChangeOK
      <3>2. IsAList(PutJumps(RepairJumps(fwd, change.vm), change.vm, {change.ip}))
        BY <1>0, <3>1, ListsStay
      <3> QED
        BY <1>1, <2>2, <3>2 DEF Reassert
    <2>3. CASE UndoForward
      BY <1>0, <2>3 DEF UndoForward
    <2> QED
      BY <1>1, <1>6, <2>1, <2>2, <2>3 DEF ChangeStep, RecordForward, EraseForward
  <1>7. CASE AskStep
    <2>1. CASE ApplyKernel
      <3> DEFINE v == job.vm
                 ips == IF job.cfg = Open THEN {} ELSE job.ips \cup Held(fwd, v)
      <3>1. ips \in SUBSET Ips
        BY DEF IInv, JobOK, Held
      <3>2. Clear(v) \/ fwd' = JumpSwap(fwd, v, ips) \/ UNCHANGED fwd
        BY <2>1 DEF ApplyKernel
      <3> HIDE DEF ips
      <3> QED
        BY <1>0, <1>1, <1>2, <3>1, <3>2
    <2> QED
      BY <1>1, <1>7, <2>1 DEF AskStep, ApplyBegins
  <1>8. CASE DeleteStep
    BY <1>0, <1>1, <1>2, <1>8 DEF DeleteStep, DeleteForwards, DeleteFirewall, DeleteFile, Drop
  <1>9. CASE PassStep
    <2>1. CASE TakeOut
      BY <1>2, <2>1 DEF TakeOut
    <2>2. CASE Keep
      <3>1. look.vm \in Vms /\ look.wanted \cup look.named \in SUBSET Ips
        BY <2>2 DEF Keep, Passing, IInv, LookOK, PassFor
      <3> QED
        BY <1>1, <1>3, <2>2, <3>1 DEF Keep
    <2>3. ASSUME NEW ip \in Ips, AddAddress(ip) PROVE Listed'
      BY <1>0, <2>3 DEF AddAddress
    <2>4. CASE DropAddress
      BY <1>0, <2>4 DEF DropAddress
    <2>5. CASE Raise
      <3>1. Low(look.fwd, look.vm) \in SUBSET Ips
        BY DEF Low
      <3> QED
        BY <1>0, <1>1, <2>5, <3>1 DEF Raise
    <2> QED
      BY <1>1, <1>9, <2>1, <2>2, <2>3, <2>4, <2>5
      DEF PassStep, BeginPass, LookAt, LookGone, ReadHeld, AskOwners, CheckForwards
  <1>10. CASE Requests
    BY <1>0, <1>1, <1>10 DEF Requests, Save, BeginApply, BeginDelete, BeginForward, DropForward, Drop
  <1>11. CASE World
    <2>1. ASSUME NEW v \in Vms, Start(v) PROVE Listed'
      <3>1. boot[v] # Absent => boot[v].ips \in SUBSET Ips
        BY DEF IInv, TypeOK
      <3>2. UNCHANGED fwd \/ (boot[v] # Absent /\ fwd' = Pairs(v, boot[v].ips) \o fwd)
        BY <2>1 DEF Start
      <3>3. boot[v] # Absent => IsAList(Pairs(v, boot[v].ips) \o fwd)
        BY <1>0, <3>1
      <3> QED
        BY <1>1, <3>2, <3>3
    <2>2. CASE Restart
      BY <1>0, <1>1, <2>2 DEF Restart
    <2>3. CASE LibvirtRules
      <3>1. IsAList(Without(fwd, {Libvirt}))
        BY <1>0
      <3>2. IsAList(<<Libvirt>> \o Without(fwd, {Libvirt}))
        <4> DEFINE g == Without(fwd, {Libvirt})
        <4> HIDE DEF g
        <4>1. IsAList(g)
          BY <3>1 DEF g
        <4>2. IsAList(<<Libvirt>> \o g)
          BY <4>1, ListsStay
        <4> QED
          BY <4>2 DEF g
      <3> QED
        BY <2>3, <3>2 DEF LibvirtRules
    <2>4. ASSUME NEW v \in Vms, Detach(v) PROVE Listed'
      BY <1>0, <2>4 DEF Detach, Drop
    <2> QED
      BY <1>1, <1>11, <2>1, <2>2, <2>3, <2>4
      DEF World, Stop, Attach, Undefine, Redefine, Meddle, MoveAddress
  <1> QED
    BY <1>4, <1>5, <1>6, <1>7, <1>8, <1>9, <1>10, <1>11 DEF Next

\* A VM that libvirt does not have has no NIC.
LEMMA GoneOffStays == ASSUME IInv, GoneOff, Next PROVE GoneOff'
  <1> USE DEF GoneOff, world
  <1>0. st \in [Vms -> {"off", "on", "gone"}]
    BY DEF IInv, TypeOK
  <1>1. CASE UNCHANGED <<st, nic>>
    BY <1>1
  <1>2. CASE Requests
    BY <1>0, <1>1, <1>2 DEF Requests, Save, BeginApply, BeginDelete, BeginForward, DropForward
  <1>3. CASE World
    <2>1. CASE Restart
      BY <1>0, <2>1 DEF Restart
    <2> QED
      BY <1>0, <1>1, <1>3, <2>1
      DEF World, LibvirtRules, Start, Stop, Detach, Attach, Undefine, Redefine, Meddle, MoveAddress
  <1>4. CASE PassStep
    BY <1>1, <1>4 DEF PassStep, BeginPass, LookAt, LookGone, TakeOut, Keep, ReadHeld, AddAddress,
                      AskOwners, CheckForwards, DropAddress, Raise
  <1> QED
    BY <1>1, <1>2, <1>3, <1>4
    DEF Next, EndJob, BootStep, Restored, Up, NoteLegacy, Restore, ApplyRule, ChangeStep, InsertAccept,
        Reassert, RecordForward, UndoForward, EraseForward, AskStep, ApplyBegins, ApplyKernel,
        DeleteStep, DeleteForwards, DeleteFirewall, DeleteFile

\* What could be seen is remembered while the pass lasts, and what is so now is seen.
LEMMA MemoryGrows ==
    ASSUME Remember, look'.pc # "idle"
    PROVE  /\ since.off \subseteq since'.off /\ since.here \subseteq since'.here
           /\ since.leased \subseteq since'.leased
           /\ (Vms \ nic') \subseteq since'.off /\ nic' \subseteq since'.here
           /\ \A ip \in Ips, w \in Vms : holder'[ip] = w => <<ip, w>> \in since'.leased
  BY DEF Remember

\* What the pass has read so far it goes on knowing.
LEMMA StillKnows ==
    ASSUME Remember, look.pc # "idle", look'.pc # "idle", Knows(look),
           look'.nics = look.nics, look'.owners = look.owners, look'.holder = look.holder,
           look'.pc = "gone" => look.pc = "gone" /\ look'.vm = look.vm,
           look'.pc = "drop" => look.pc = "drop" /\ look'.vm = look.vm /\ look'.ip = look.ip
    PROVE  Knows(look)'
  BY MemoryGrows DEF Knows, Seen

\* Only a pass begins one, or goes on with one.
LEMMA LookFrame ==
    ASSUME Next, ~PassStep
    PROVE  look' = look \/ (look' = NoPass /\ phase' = "restore")
  BY DEF Next, EndJob, BootStep, Restored, Up, NoteLegacy, Restore, ApplyRule, ChangeStep, InsertAccept,
         Reassert, RecordForward, UndoForward, EraseForward, AskStep, ApplyBegins, ApplyKernel,
         DeleteStep, DeleteForwards, DeleteFirewall, DeleteFile, Requests, Save, BeginApply, BeginDelete,
         BeginForward, DropForward, World, LibvirtRules, Restart, Start, Stop, Detach, Attach, Undefine,
         Redefine, Meddle, MoveAddress, actors

\* Each step of a pass keeps to what there has been to see.
LEMMA PassKnows ==
    ASSUME JInv, PassStep, Remember, look'.pc # "idle"
    PROVE  Knows(look)'
  <1> USE DEF world
  <1>0. /\ st \in [Vms -> {"off", "on", "gone"}] /\ nic \in SUBSET Vms
        /\ holder \in [Ips -> Vms \cup {Nothing}] /\ look \in PassFor(look.fwd)
    BY DEF JInv, IInv, TypeOK, LookOK
  <1>1. CASE BeginPass
    <2>1. /\ look'.nics = nic /\ look'.owners = Absent /\ look'.holder = Absent /\ look'.pc = "look"
          /\ nic' = nic
      BY <1>1 DEF BeginPass, NoPass
    <2> QED
      BY <2>1, MemoryGrows DEF Knows
  <1>2. ASSUME NEW v \in Vms, DoneWith(v), look.pc # "idle" PROVE Knows(look)'
    <2>1. look' = [look EXCEPT !.pc = "look", !.vm = Nothing, !.ip = Nothing,
                               !.wanted = {}, !.named = {}, !.held = {}]
      BY <1>2 DEF DoneWith, NoPass
    <2>2. /\ look'.nics = look.nics /\ look'.owners = look.owners /\ look'.holder = look.holder
          /\ look'.pc = "look"
      BY <1>0, <2>1 DEF PassFor
    <2> QED
      BY <1>2, <2>2, StillKnows DEF JInv
  <1>3. ASSUME NEW v \in Vms, LookAt(v) PROVE Knows(look)'
    <2>1. look.pc = "look" /\ Knows(look) /\ UNCHANGED <<nic, holder>>
      BY <1>3 DEF LookAt, Passing, JInv
    <2>2. /\ look'.nics = look.nics /\ look'.owners = look.owners /\ look'.holder = Leases
          /\ look'.pc = "keep"
      BY <1>0, <1>3 DEF LookAt, PassFor
    <2>3. \A ip \in Ips, w \in Vms : Leases[ip] = w => <<ip, w>> \in since.leased
      BY <2>1 DEF Leases, Knows
    <2> QED
      BY <2>1, <2>2, <2>3, MemoryGrows DEF Knows
  <1>4. ASSUME NEW v \in Vms, LookGone(v) PROVE Knows(look)'
    <2>1. look.pc = "look" /\ Knows(look) /\ UNCHANGED <<nic, holder>>
      BY <1>4 DEF LookGone, Passing, JInv
    <2>2. CASE st[v] = "gone" /\ look' = [look EXCEPT !.pc = "gone", !.vm = v]
      <3>1. /\ look'.nics = look.nics /\ look'.owners = look.owners /\ look'.holder = look.holder
            /\ look'.pc = "gone" /\ look'.vm = v
        BY <1>0, <2>2 DEF PassFor
      <3>2. v \in since.off
        BY <2>1, <2>2 DEF JInv, GoneOff, Knows
      <3> QED
        BY <2>1, <3>1, <3>2, MemoryGrows DEF Knows
    <2> QED
      BY <1>2, <1>4, <2>1, <2>2 DEF LookGone
  <1>5. CASE TakeOut
    BY <1>0, <1>2, <1>5 DEF TakeOut, Passing, JInv, IInv, LookOK
  <1>6. CASE Keep
    <2>1. look.vm \in Vms /\ look.pc = "keep" /\ Knows(look)
      BY <1>6 DEF Keep, Passing, JInv, IInv, LookOK
    <2>2. CASE look' = [look EXCEPT !.pc = "held"]
      <3>1. /\ look'.nics = look.nics /\ look'.owners = look.owners /\ look'.holder = look.holder
            /\ look'.pc = "held"
        BY <1>0, <2>2 DEF PassFor
      <3> QED
        BY <2>1, <3>1, StillKnows
    <2> QED
      BY <1>2, <1>6, <2>1, <2>2 DEF Keep
  <1>7. CASE ReadHeld
    <2>1. /\ look'.nics = look.nics /\ look'.owners = look.owners /\ look'.holder = look.holder
          /\ look'.pc = "turn" /\ look.pc = "held"
      BY <1>0, <1>7 DEF ReadHeld, Passing, PassFor
    <2> QED
      BY <2>1, StillKnows DEF JInv
  <1>8. ASSUME NEW ip \in Ips, AddAddress(ip) PROVE Knows(look)'
    <2>1. look.vm \in Vms /\ look.pc = "turn" /\ Knows(look)
      BY <1>8 DEF AddAddress, Passing, JInv, IInv, LookOK
    <2>2. CASE look' = [look EXCEPT !.held = @ \cup {ip}]
      <3>1. /\ look'.nics = look.nics /\ look'.owners = look.owners /\ look'.holder = look.holder
            /\ look'.pc = "turn"
        BY <1>0, <2>1, <2>2 DEF PassFor
      <3> QED
        BY <2>1, <3>1, StillKnows
    <2> QED
      BY <1>2, <1>8, <2>1, <2>2 DEF AddAddress
  <1>9. CASE AskOwners
    <2>1. look.pc = "turn" /\ Knows(look) /\ UNCHANGED <<nic, holder>>
      BY <1>9 DEF AskOwners, Passing, JInv
    <2>2. /\ look'.nics = look.nics /\ look'.owners = nic /\ look'.holder = look.holder
          /\ look'.pc = "turn"
      BY <1>0, <1>9, <2>1 DEF AskOwners, PassFor
    <2> QED
      BY <2>1, <2>2, MemoryGrows DEF Knows
  <1>10. CASE CheckForwards
    <2>1. look.pc = "turn" /\ Knows(look) /\ look.vm \in Vms
      BY <1>10 DEF CheckForwards, Passing, JInv, IInv, LookOK
    <2>2. PICK ip \in Strays : look' = [look EXCEPT !.held = @ \ {ip}, !.ip = ip,
                               !.pc = IF <<look.vm, ip>> \in forwards THEN "turn" ELSE "drop"]
      BY <1>10 DEF CheckForwards
    <2>3. /\ look'.nics = look.nics /\ look'.owners = look.owners /\ look'.holder = look.holder
          /\ look'.vm = look.vm /\ look'.ip = ip /\ look'.pc # "gone"
      BY <1>0, <2>2 DEF PassFor
    <2>4. ip \in Ips
      BY <1>0 DEF Strays, Rest, PassFor
    <2>5. Seen(look.vm, ip)
      <3>1. CASE look.vm \notin look.nics
        BY <2>1, <3>1 DEF Knows, Seen
      <3>2. CASE look.owners # Absent /\ Proved(Leases, look.owners, look.vm, ip)
        <4>1. look.owners \subseteq Vms
          BY <1>0, <3>2 DEF PassFor
        <4>2. Leases[ip] \in Vms \ {look.vm} /\ Leases[ip] \in since.here
          BY <2>1, <3>2, <4>1 DEF Proved, Stranger, Knows
        <4>3. \A w \in Vms : Leases[ip] = w => <<ip, w>> \in since.leased
          BY <2>1, <2>4 DEF Leases, Knows
        <4> QED
          BY <4>2, <4>3 DEF Seen
      <3> QED
        BY <3>1, <3>2 DEF Strays
    <2>6. Seen(look.vm, ip)'
      BY <2>3, <2>5, MemoryGrows DEF Seen
    <2> QED
      BY <2>1, <2>3, <2>6, MemoryGrows DEF Knows
  <1>11. CASE DropAddress
    <2>1. /\ look'.nics = look.nics /\ look'.owners = look.owners /\ look'.holder = look.holder
          /\ look'.pc = "turn" /\ look.pc = "drop"
      BY <1>0, <1>11 DEF DropAddress, Passing, PassFor
    <2> QED
      BY <2>1, StillKnows DEF JInv
  <1>12. CASE Raise
    BY <1>0, <1>2, <1>12 DEF Raise, Passing, JInv, IInv, LookOK
  <1> QED
    BY <1>1, <1>3, <1>4, <1>5, <1>6, <1>7, <1>8, <1>9, <1>10, <1>11, <1>12 DEF PassStep

LEMMA KnowsStays == JInv /\ [Next]_vars => JInv'
  <1> SUFFICES ASSUME JInv, [Next]_vars PROVE JInv'
    OBVIOUS
  <1>1. IInv'
    BY StepOK DEF JInv
  <1>2. CASE UNCHANGED vars
    BY <1>1, <1>2 DEF vars, JInv, Listed, GoneOff, Knows, Seen
  <1>3. CASE Next
    <2>1. Listed' /\ GoneOff'
      BY <1>3, ListedStays, GoneOffStays DEF JInv
    <2>2. look'.pc # "idle" => Knows(look)'
      <3> SUFFICES ASSUME look'.pc # "idle" PROVE Knows(look)'
        OBVIOUS
      <3>1. Remember
        BY <1>3 DEF Next
      <3>2. CASE PassStep
        BY <3>1, <3>2, PassKnows
      <3>3. CASE look' = look
        BY <3>1, <3>3, StillKnows DEF JInv
      <3> QED
        BY <1>3, <3>2, <3>3, LookFrame DEF NoPass
    <2> QED
      BY <1>1, <2>1, <2>2 DEF JInv
  <1> QED
    BY <1>2, <1>3

THEOREM Knowing == Spec => []JInv
  BY InitKnows, KnowsStays, PTL DEF Spec

\* What the steps of a pass may take off FORWARD.
LEMMA JumpsStayStep ==
    ASSUME JInv, Next, NEW v \in Vms, NEW ip \in Ips,
           look' # look, phase' = "up", Has(fwd, In(v, ip)), ~Has(fwd', In(v, ip))
    PROVE  \/ Seen(v, ip)
           \/ job'.what = "rebuilt" /\ ~Intact(v) /\ ip \notin file[v].to
  <1> USE DEF kernel, disk
  <1>0. IsAList(fwd) /\ look \in PassFor(look.fwd)
    BY DEF JInv, Listed, IInv, LookOK
  <1>1. PassStep
    BY LookFrame
  <1>2. fwd' # fwd
    OBVIOUS
  <1>3. CASE TakeOut
    <2>1. look.vm \in since.off
      BY <1>3 DEF TakeOut, Passing, JInv, Knows
    <2>2. PICK ips \in SUBSET Ips : fwd' = Without(fwd, Jumps(look.vm, ips))
      BY <1>3 DEF TakeOut, Clear
    <2>3. v = look.vm
      BY <1>0, <2>2, WithoutKeeps, JumpsOf
    <2> QED
      BY <2>1, <2>3 DEF Seen
  <1>4. CASE Keep
    <2>1. look.vm \in Vms /\ look.wanted \cup look.named \in SUBSET Ips
      BY <1>0, <1>4 DEF Keep, Passing, JInv, IInv, LookOK, PassFor
    <2>2. CASE KeepIntact(look.vm)
      <3>1. fwd' = RepairJumps(fwd, look.vm)
        BY <1>2, <2>2 DEF KeepIntact
      <3> DEFINE missing == {r \in Jumps(look.vm, Held(fwd, look.vm)) : ~Has(fwd, r)}
      <3>2. fwd' = SetToSeq(missing) \o fwd
        BY <3>1 DEF RepairJumps
      <3>3. IsFiniteSet(missing)
        <4>1. Held(fwd, look.vm) \in SUBSET Ips
          BY DEF Held
        <4> QED
          BY <4>1, JumpsFinite, FS_Subset
      <3> HIDE DEF missing
      <3>4. IsAList(SetToSeq(missing))
        <4>1. SetToSeq(missing) \in Seq(missing)
          BY <3>3, SetToSeqCovers
        <4> QED
          BY <4>1 DEF IsAList
      <3> QED
        BY <1>0, <3>2, <3>4, JoinHas
    <2>3. CASE KeepRebuild(look.vm, look.wanted \cup look.named, "pass")
      <3> DEFINE to == file[look.vm].to \cup (look.wanted \cup look.named)
      <3>1. /\ Kept(look.vm) /\ ~Intact(look.vm) /\ job'.what = "rebuilt"
            /\ fwd' = JumpSwap(fwd, look.vm, to)
        BY <2>3 DEF KeepRebuild, Queue
      <3>2. to \in SUBSET Ips
        BY <2>1, <3>1 DEF Kept, JInv, IInv, TypeOK
      <3> HIDE DEF to
      <3>3. v = look.vm /\ ip \notin to
        <4>1. fwd' = Pairs(look.vm, to) \o Without(fwd, Jumps(look.vm, Ips))
          BY <3>1 DEF JumpSwap
        <4>2. ~(In(v, ip) \in Jumps(look.vm, Ips) => v = look.vm /\ ip \in to)
          BY <1>0, <3>2, <4>1, SwapKeeps
        <4> QED
          BY <4>2, JumpsOf
      <3> QED
        BY <3>1, <3>3 DEF to
    <2> QED
      BY <1>2, <1>4, <2>2, <2>3 DEF Keep, KeepInForce
  <1>5. ASSUME NEW a \in Ips, AddAddress(a) PROVE FALSE
    <2>1. fwd' = Pairs(look.vm, {a}) \o Without(fwd, Jumps(look.vm, {a}))
      BY <1>2, <1>5 DEF AddAddress, PutJumps
    <2>2. {a} \in SUBSET Ips
      OBVIOUS
    <2>3. In(v, ip) \in Jumps(look.vm, {a}) => v = look.vm /\ ip \in {a}
      BY JumpsOf
    <2> QED
      BY <1>0, <2>1, <2>2, <2>3, SwapKeeps
  <1>6. CASE DropAddress
    <2>1. Seen(look.vm, look.ip)
      BY <1>6 DEF DropAddress, Passing, JInv, Knows
    <2>2. \/ fwd' = Without(fwd, Jumps(look.vm, {look.ip}))
          \/ fwd' = Without(fwd, {In(look.vm, look.ip)})
      BY <1>6 DEF DropAddress
    <2>3. In(v, ip) \in Jumps(look.vm, {look.ip}) \/ In(v, ip) \in {In(look.vm, look.ip)}
      BY <1>0, <2>2, WithoutKeeps
    <2>4. v = look.vm /\ ip = look.ip
      BY <2>3, JumpsOf DEF In
    <2> QED
      BY <2>1, <2>4
  <1>7. CASE Raise
    <2> DEFINE low == Low(look.fwd, look.vm)
    <2>1. fwd' = Pairs(look.vm, low) \o Without(fwd, Jumps(look.vm, low))
      BY <1>2, <1>7 DEF Raise, PutJumps
    <2>2. low \in SUBSET Ips
      BY DEF Low
    <2> HIDE DEF low
    <2>3. In(v, ip) \in Jumps(look.vm, low) => v = look.vm /\ ip \in low
      BY JumpsOf
    <2> QED
      BY <1>0, <2>1, <2>2, <2>3, SwapKeeps
  <1> QED
    BY <1>1, <1>2, <1>3, <1>4, <1>5, <1>6, <1>7
    DEF PassStep, BeginPass, LookAt, LookGone, ReadHeld, AskOwners, CheckForwards

\* However readings, leases, NICs, requests and restarts fall among the steps of a pass, it takes a
\* jump off an address only when there has been something to see in its own time: that the VM has no
\* NIC for it, or that it is another's.  What it puts back, it puts on all that the file names.
THEOREM JumpsAreKept == Spec => JumpsStay
  <1>1. JInv /\ [Next]_vars =>
            [\A v \in Vms, ip \in Ips :
                look' # look /\ phase' = "up" /\ Has(fwd, In(v, ip)) /\ ~Has(fwd', In(v, ip))
                => \/ Seen(v, ip)
                   \/ job'.what = "rebuilt" /\ ~Intact(v) /\ ip \notin file[v].to]_vars
    BY JumpsStayStep
  <1> QED
    BY <1>1, Knowing, PTL DEF Spec, JumpsStay

=============================================================================
