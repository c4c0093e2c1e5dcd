----------------------- MODULE ManagedBridges_proof -------------------------
(***************************************************************************)
(* Types of the managed bridges' model (TypeOK), and that a pass never     *)
(* takes a NIC the host depends on (HostKept): for any bridges, NICs and   *)
(* number of events.                                                       *)
(*                                                                         *)
(* The argument: a NIC is taken by the last step of a plan that was made   *)
(* from what the pass saw of it (Free), and what came about since is       *)
(* marked.  An address that is on its way belongs to a NIC that            *)
(* systemd-networkd is configuring, and whose hold has not run out (OnWay),*)
(* so that the pass waits.  A NIC the host was seen to use is never on one *)
(* of our bridges, and its record keeps saying so (Recorded): through the  *)
(* pass, which works on the file's records (OnRecords), and through        *)
(* creating and deleting, which rewrite the file.                          *)
(***************************************************************************)
EXTENDS ManagedBridges, TLAPS

USE BridgesAssumption

\* The parts of TypeOK.
DiskTyped == /\ file \subseteq Nets /\ nicOf \in [Nets -> Nics \cup {None}]
             /\ claims \subseteq file /\ named \subseteq file
LibvirtTyped == net \in [Nets -> {"none", "off", "on"}] /\ auto \subseteq Nets /\ live \subseteq Nets
NicsTyped ==
    /\ at \in [Nics -> Places] /\ networkd \in [Nics -> Working]
    /\ up \subseteq Nics /\ address \subseteq Nics /\ route \subseteq Nics /\ onway \subseteq Nics
GuestsTyped == vms \subseteq Nets /\ taps \subseteq vms \cap live
MemoryTyped ==
    /\ confirmed \subseteq Nets /\ reconnecting \subseteq Nets
    /\ since \in [Nics -> {"none", "running", "over"}]
    /\ known \in [Nets -> {"none", "same", "other"}]
PassTyped ==
    /\ pc \in {"idle", "port", "use", "steps", "first", "second", "define", "restore", "reconnect",
               "make", "store", "undo", "ours", "free", "remove", "erase"}
    /\ kind \in {"pass", "create", "delete"} /\ cur \in Nets \cup {None} /\ nic \in Nics \cup {None}
    /\ todo \subseteq Nets /\ absent \subseteq Nets /\ look \in Places /\ wasUp \in BOOLEAN
    /\ plan \subseteq Steps
RecordsTyped == records \subseteq Nets /\ noted \subseteq records /\ myNames \subseteq records
HistoryTyped == /\ fresh \subseteq Nics /\ seen \subseteq Nics /\ orphaned \subseteq Nets
                /\ asks \in 0 .. MaxAsks /\ events \in 0 .. MaxEvents
Typed == /\ DiskTyped /\ LibvirtTyped /\ NicsTyped /\ GuestsTyped
         /\ MemoryTyped /\ PassTyped /\ RecordsTyped /\ HistoryTyped

LEMMA Parts == TypeOK <=> Typed
  BY DEF TypeOK, Typed, DiskTyped, LibvirtTyped, NicsTyped, GuestsTyped, MemoryTyped, PassTyped,
     RecordsTyped, HistoryTyped

(***************************************************************************)
(* What each step of a change or a pass knows of its own variables.        *)
(***************************************************************************)

\* The record a pass is at.
AtRecord == {"port", "use", "steps", "define", "restore", "reconnect"}

Phases ==
    /\ pc \in {"idle", "first", "second", "define", "restore", "reconnect"} => kind = "pass"
    /\ pc \in {"make", "store", "undo"} => kind = "create"
    /\ pc \in {"ours", "free", "remove", "erase"} => kind = "delete"
    /\ pc \in {"port", "use", "steps"} => kind \in {"pass", "create"}
    /\ pc \notin {"idle", "first", "second"} => cur \in Nets
    /\ pc \in {"port", "use", "free"} \/ plan # {} => nic \in Nics
    /\ pc \notin {"steps", "make"} => plan = {}

\* A pass works on the file's records, and a record is the only one with its NIC.
OnRecords ==
    /\ kind = "pass" /\ pc # "idle" => records = file /\ todo \subseteq records
    /\ kind = "pass" /\ pc \in AtRecord => cur \in records /\ nic = nicOf[cur]
    /\ kind = "delete" => records = file
    /\ \A n, m \in file : nicOf[n] = nicOf[m] /\ nicOf[n] # None => n = m
    /\ kind = "create" => /\ \A n, m \in records : nicOf[n] = nicOf[m] /\ nicOf[n] # None => n = m
                          /\ \A n \in records : nicOf[n] # nic \/ nic = None

\* What is known of addresses on their way, and of NICs the host was seen to use.
OnWay == \A x \in Nics : x \in onway => networkd[x] = "configuring" /\ since[x] # "over"
Recorded ==
    /\ \A x \in seen : at[x] \notin Nets /\ networkd[x] # "none"
    /\ \A n \in file : nicOf[n] \in seen => n \in claims
    /\ pc # "idle" => \A n \in records : nicOf[n] \in seen => n \in noted
    /\ pc = "use" /\ nic \in seen => look \notin Nets

\* A NIC that is about to be taken.
Free ==
    pc = "steps" /\ kind = "pass" /\ "master" \in plan
    => nic \notin seen /\ nic \notin (address \cup route \cup onway) \ fresh

Inv == Typed /\ Phases /\ OnRecords /\ OnWay /\ Recorded /\ Free

\* What an idle queue is left with.
LEMMA IdleTyped ==
    ASSUME Idle
    PROVE  /\ kind' = "pass" /\ cur' = None /\ nic' = None /\ todo' \subseteq Nets
           /\ absent' \subseteq Nets /\ look' \in Places /\ wasUp' \in BOOLEAN /\ plan' \subseteq Steps
  BY DEF Idle, Places

\* What the NIC's look-up plans are steps.
LEMMA PlannedTyped == \A refused \in BOOLEAN : Planned(refused) \subseteq Steps
  BY DEF Planned, Steps

LEMMA BeginPassKeeps ==
    ASSUME Inv, BeginPass
    PROVE  Inv'
<1>1. Typed'
  BY DEF Inv, Typed, DiskTyped, LibvirtTyped, NicsTyped, GuestsTyped, MemoryTyped, PassTyped,
     RecordsTyped, HistoryTyped, Places, Working, Works, Phases, OnRecords, disk, libvirt, nics,
     guests, memory, pass, BeginPass
<1>2. Phases' /\ OnRecords'
  BY DEF Inv, Typed, DiskTyped, LibvirtTyped, NicsTyped, GuestsTyped, MemoryTyped, PassTyped,
     RecordsTyped, HistoryTyped, Phases, OnRecords, AtRecord, disk, libvirt, nics, guests,
     memory, pass, BeginPass
<1>3. OnWay'
  BY DEF Inv, Typed, DiskTyped, LibvirtTyped, NicsTyped, GuestsTyped, MemoryTyped, PassTyped,
     RecordsTyped, HistoryTyped, Phases, OnWay, disk, libvirt, nics, guests, memory, pass,
     BeginPass
<1>4. Recorded'
  BY DEF Inv, Typed, DiskTyped, LibvirtTyped, NicsTyped, GuestsTyped, MemoryTyped, PassTyped,
     RecordsTyped, HistoryTyped, Phases, OnRecords, AtRecord, OnWay, Recorded, Free, disk,
     libvirt, nics, guests, memory, pass, BeginPass
<1>5. Free'
  BY DEF Inv, Typed, DiskTyped, LibvirtTyped, NicsTyped, GuestsTyped, MemoryTyped, PassTyped,
     RecordsTyped, HistoryTyped, Phases, OnRecords, AtRecord, OnWay, Recorded, Free, disk,
     libvirt, nics, guests, memory, pass, BeginPass
<1> QED  BY <1>1, <1>2, <1>3, <1>4, <1>5 DEF Inv

LEMMA ReadPortKeeps ==
    ASSUME Inv, ReadPort
    PROVE  Inv'
<1>1. Typed'
  BY DEF Inv, Typed, DiskTyped, LibvirtTyped, NicsTyped, GuestsTyped, MemoryTyped, PassTyped,
     RecordsTyped, HistoryTyped, Places, Working, Works, Phases, OnRecords, disk, libvirt, nics,
     guests, memory, pass, ReadPort
<1>2. Phases' /\ OnRecords'
  BY DEF Inv, Typed, DiskTyped, LibvirtTyped, NicsTyped, GuestsTyped, MemoryTyped, PassTyped,
     RecordsTyped, HistoryTyped, Phases, OnRecords, AtRecord, disk, libvirt, nics, guests,
     memory, pass, ReadPort
<1>3. OnWay'
  BY DEF Inv, Typed, DiskTyped, LibvirtTyped, NicsTyped, GuestsTyped, MemoryTyped, PassTyped,
     RecordsTyped, HistoryTyped, Phases, OnWay, disk, libvirt, nics, guests, memory, pass,
     ReadPort
<1>4. Recorded'
  BY DEF Inv, Typed, DiskTyped, LibvirtTyped, NicsTyped, GuestsTyped, MemoryTyped, PassTyped,
     RecordsTyped, HistoryTyped, Phases, OnRecords, AtRecord, OnWay, Recorded, Free, disk,
     libvirt, nics, guests, memory, pass, ReadPort
<1>5. Free'
  BY DEF Inv, Typed, DiskTyped, LibvirtTyped, NicsTyped, GuestsTyped, MemoryTyped, PassTyped,
     RecordsTyped, HistoryTyped, Phases, OnRecords, AtRecord, OnWay, Recorded, Free, disk,
     libvirt, nics, guests, memory, pass, ReadPort
<1> QED  BY <1>1, <1>2, <1>3, <1>4, <1>5 DEF Inv

LEMMA ReadUseKeeps ==
    ASSUME Inv, ReadUse
    PROVE  Inv'
<1>1. Typed'
<2>1. DiskTyped'
  BY DEF Inv, Typed, DiskTyped, LibvirtTyped, NicsTyped, GuestsTyped, MemoryTyped, PassTyped,
     RecordsTyped, HistoryTyped, Phases, OnRecords, AtRecord, disk, libvirt, nics, guests, pass,
     ReadUse, Answer, Decide, Accept, Refuse, Refused, Wait, Planned, Noticed, Onwards, Idle
<2>2. LibvirtTyped'
  BY DEF Inv, Typed, DiskTyped, LibvirtTyped, NicsTyped, GuestsTyped, MemoryTyped, PassTyped,
     RecordsTyped, HistoryTyped, Phases, OnRecords, AtRecord, disk, libvirt, nics, guests, pass,
     ReadUse, Answer, Decide, Accept, Refuse, Refused, Wait, Planned, Noticed, Onwards, Idle
<2>3. NicsTyped'
  BY DEF Inv, Typed, DiskTyped, LibvirtTyped, NicsTyped, GuestsTyped, MemoryTyped, PassTyped,
     RecordsTyped, HistoryTyped, Places, Working, Phases, OnRecords, AtRecord, disk, libvirt, nics,
     guests, pass, ReadUse, Answer, Decide, Accept, Refuse, Refused, Wait, Planned, Noticed,
     Onwards, Idle
<2>4. GuestsTyped'
  BY DEF Inv, Typed, DiskTyped, LibvirtTyped, NicsTyped, GuestsTyped, MemoryTyped, PassTyped,
     RecordsTyped, HistoryTyped, Phases, OnRecords, AtRecord, disk, libvirt, nics, guests, pass,
     ReadUse, Answer, Decide, Accept, Refuse, Refused, Wait, Planned, Noticed, Onwards, Idle
<2>5. MemoryTyped'
  BY DEF Inv, Typed, DiskTyped, LibvirtTyped, NicsTyped, GuestsTyped, MemoryTyped, PassTyped,
     RecordsTyped, HistoryTyped, Phases, OnRecords, AtRecord, disk, libvirt, nics, guests, pass,
     ReadUse, Answer, Decide, Accept, Refuse, Refused, Wait, Planned, Noticed, Onwards, Idle
<2>6. PassTyped'
  <3>1. ASSUME NEW a, NEW r, NEW state, Answer(a, r, state) PROVE PassTyped'
    <4>1. CASE Decide(a, r, state) /\ UNCHANGED <<kind, cur, nic, todo, absent, look, wasUp>>
      <5>1. plan' \subseteq Steps
        BY <4>1 DEF Decide, Planned, Steps
      <5> QED  BY <4>1, <5>1 DEF Inv, Typed, PassTyped, Decide
    <4>2. CASE Accept(a, r)
      BY <4>2, PlannedTyped DEF Inv, Typed, PassTyped, Accept
    <4>3. CASE Refuse(a, r)
      BY <4>3, IdleTyped DEF PassTyped, Refuse
    <4> QED  BY <3>1, <4>1, <4>2, <4>3 DEF Answer
  <3>2. CASE Onwards /\ UNCHANGED pass
    BY <3>2 DEF Inv, Typed, PassTyped, Onwards, pass
  <3>3. CASE pc' = "idle" /\ Idle
    BY <3>3, IdleTyped DEF PassTyped
  <3> QED  BY <3>1, <3>2, <3>3 DEF ReadUse
<2>7. RecordsTyped'
  BY DEF Inv, Typed, DiskTyped, LibvirtTyped, NicsTyped, GuestsTyped, MemoryTyped, PassTyped,
     RecordsTyped, HistoryTyped, Phases, OnRecords, AtRecord, disk, libvirt, nics, guests, pass,
     ReadUse, Answer, Decide, Accept, Refuse, Refused, Wait, Planned, Noticed, Onwards, Idle
<2>8. HistoryTyped'
  BY DEF Inv, Typed, DiskTyped, LibvirtTyped, NicsTyped, GuestsTyped, MemoryTyped, PassTyped,
     RecordsTyped, HistoryTyped, Event, Works, Phases, OnRecords, AtRecord, disk, libvirt, nics,
     guests, pass, ReadUse, Answer, Decide, Accept, Refuse, Refused, Wait, Planned, Noticed,
     Onwards, Idle
<2> QED  BY <2>1, <2>2, <2>3, <2>4, <2>5, <2>6, <2>7, <2>8 DEF Typed
<1>2. Phases' /\ OnRecords'
  BY DEF Inv, Typed, DiskTyped, LibvirtTyped, NicsTyped, GuestsTyped, MemoryTyped, PassTyped,
     RecordsTyped, HistoryTyped, Phases, OnRecords, AtRecord, disk, libvirt, nics, guests, pass,
     ReadUse, Answer, Decide, Accept, Refuse, Refused, Wait, Planned, Noticed, Onwards, Idle
<1>3. OnWay'
  BY DEF Inv, Typed, DiskTyped, LibvirtTyped, NicsTyped, GuestsTyped, MemoryTyped, PassTyped,
     RecordsTyped, HistoryTyped, Phases, OnWay, disk, libvirt, nics, guests, pass, ReadUse, Answer,
     Decide, Accept, Refuse, Refused, Wait, Planned, Noticed, Onwards, Idle
<1>4. Recorded'
  BY DEF Inv, Typed, DiskTyped, LibvirtTyped, NicsTyped, GuestsTyped, MemoryTyped, PassTyped,
     RecordsTyped, HistoryTyped, Phases, OnRecords, AtRecord, OnWay, Recorded, Free, disk, libvirt,
     nics, guests, pass, ReadUse, Answer, Decide, Accept, Refuse, Refused, Wait, Planned, Noticed,
     Onwards, Idle
<1>5. Free'
  BY DEF Inv, Typed, DiskTyped, LibvirtTyped, NicsTyped, GuestsTyped, MemoryTyped, PassTyped,
     RecordsTyped, HistoryTyped, Phases, OnRecords, AtRecord, OnWay, Recorded, Free, disk, libvirt,
     nics, guests, pass, ReadUse, Answer, Decide, Accept, Refuse, Refused, Wait, Planned, Noticed,
     Onwards, Idle
<1> QED  BY <1>1, <1>2, <1>3, <1>4, <1>5 DEF Inv

LEMMA StepKeeps ==
    ASSUME Inv, Step
    PROVE  Inv'
<1>1. Typed'
<2>1. DiskTyped'
  BY DEF Inv, Typed, DiskTyped, LibvirtTyped, NicsTyped, GuestsTyped, MemoryTyped, PassTyped,
     RecordsTyped, HistoryTyped, Phases, OnRecords, AtRecord, disk, libvirt, guests, memory, pass,
     Step, Head, Steps
<2>2. LibvirtTyped'
  BY DEF Inv, Typed, DiskTyped, LibvirtTyped, NicsTyped, GuestsTyped, MemoryTyped, PassTyped,
     RecordsTyped, HistoryTyped, Phases, OnRecords, AtRecord, disk, libvirt, guests, memory, pass,
     Step, Head, Steps
<2>3. NicsTyped'
  BY DEF Inv, Typed, DiskTyped, LibvirtTyped, NicsTyped, GuestsTyped, MemoryTyped, PassTyped,
     RecordsTyped, HistoryTyped, Places, Working, Phases, OnRecords, AtRecord, disk, libvirt,
     guests, memory, pass, Step, Head, Steps
<2>4. GuestsTyped'
  BY DEF Inv, Typed, DiskTyped, LibvirtTyped, NicsTyped, GuestsTyped, MemoryTyped, PassTyped,
     RecordsTyped, HistoryTyped, Phases, OnRecords, AtRecord, disk, libvirt, guests, memory, pass,
     Step, Head, Steps
<2>5. MemoryTyped'
  BY DEF Inv, Typed, DiskTyped, LibvirtTyped, NicsTyped, GuestsTyped, MemoryTyped, PassTyped,
     RecordsTyped, HistoryTyped, Phases, OnRecords, AtRecord, disk, libvirt, guests, memory, pass,
     Step, Head, Steps
<2>6. PassTyped'
  BY DEF Inv, Typed, DiskTyped, LibvirtTyped, NicsTyped, GuestsTyped, MemoryTyped, PassTyped,
     RecordsTyped, HistoryTyped, Places, Steps, Phases, OnRecords, AtRecord, disk, libvirt, guests,
     memory, pass, Step, Head, Steps
<2>7. RecordsTyped'
  BY DEF Inv, Typed, DiskTyped, LibvirtTyped, NicsTyped, GuestsTyped, MemoryTyped, PassTyped,
     RecordsTyped, HistoryTyped, Phases, OnRecords, AtRecord, disk, libvirt, guests, memory, pass,
     Step, Head, Steps
<2>8. HistoryTyped'
  BY DEF Inv, Typed, DiskTyped, LibvirtTyped, NicsTyped, GuestsTyped, MemoryTyped, PassTyped,
     RecordsTyped, HistoryTyped, Event, Works, Phases, OnRecords, AtRecord, disk, libvirt, guests,
     memory, pass, Step, Head, Steps
<2> QED  BY <2>1, <2>2, <2>3, <2>4, <2>5, <2>6, <2>7, <2>8 DEF Typed
<1>2. Phases' /\ OnRecords'
  BY DEF Inv, Typed, DiskTyped, LibvirtTyped, NicsTyped, GuestsTyped, MemoryTyped, PassTyped,
     RecordsTyped, HistoryTyped, Phases, OnRecords, AtRecord, disk, libvirt, guests, memory, pass,
     Step, Head, Steps
<1>3. OnWay'
  BY DEF Inv, Typed, DiskTyped, LibvirtTyped, NicsTyped, GuestsTyped, MemoryTyped, PassTyped,
     RecordsTyped, HistoryTyped, Phases, OnWay, disk, libvirt, guests, memory, pass, Step, Head,
     Steps
<1>4. Recorded'
  BY DEF Inv, Typed, DiskTyped, LibvirtTyped, NicsTyped, GuestsTyped, MemoryTyped, PassTyped,
     RecordsTyped, HistoryTyped, Phases, OnRecords, AtRecord, OnWay, Recorded, Free, disk, libvirt,
     guests, memory, pass, Step, Head, Steps
<1>5. Free'
  BY DEF Inv, Typed, DiskTyped, LibvirtTyped, NicsTyped, GuestsTyped, MemoryTyped, PassTyped,
     RecordsTyped, HistoryTyped, Phases, OnRecords, AtRecord, OnWay, Recorded, Free, disk, libvirt,
     guests, memory, pass, Step, Head, Steps
<1> QED  BY <1>1, <1>2, <1>3, <1>4, <1>5 DEF Inv

LEMMA EndStepsKeeps ==
    ASSUME Inv, EndSteps
    PROVE  Inv'
<1>1. Typed'
  BY DEF Inv, Typed, DiskTyped, LibvirtTyped, NicsTyped, GuestsTyped, MemoryTyped, PassTyped,
     RecordsTyped, HistoryTyped, Places, Working, Works, Phases, OnRecords, disk, libvirt, nics,
     guests, memory, pass, EndSteps, Onwards
<1>2. Phases' /\ OnRecords'
  BY DEF Inv, Typed, DiskTyped, LibvirtTyped, NicsTyped, GuestsTyped, MemoryTyped, PassTyped,
     RecordsTyped, HistoryTyped, Phases, OnRecords, AtRecord, disk, libvirt, nics, guests,
     memory, pass, EndSteps, Onwards
<1>3. OnWay'
  BY DEF Inv, Typed, DiskTyped, LibvirtTyped, NicsTyped, GuestsTyped, MemoryTyped, PassTyped,
     RecordsTyped, HistoryTyped, Phases, OnWay, disk, libvirt, nics, guests, memory, pass,
     EndSteps, Onwards
<1>4. Recorded'
  BY DEF Inv, Typed, DiskTyped, LibvirtTyped, NicsTyped, GuestsTyped, MemoryTyped, PassTyped,
     RecordsTyped, HistoryTyped, Phases, OnRecords, AtRecord, OnWay, Recorded, Free, disk,
     libvirt, nics, guests, memory, pass, EndSteps, Onwards
<1>5. Free'
  BY DEF Inv, Typed, DiskTyped, LibvirtTyped, NicsTyped, GuestsTyped, MemoryTyped, PassTyped,
     RecordsTyped, HistoryTyped, Phases, OnRecords, AtRecord, OnWay, Recorded, Free, disk,
     libvirt, nics, guests, memory, pass, EndSteps, Onwards
<1> QED  BY <1>1, <1>2, <1>3, <1>4, <1>5 DEF Inv

LEMMA FirstKeeps ==
    ASSUME Inv, NEW n \in Nets, First(n)
    PROVE  Inv'
<1>1. Typed'
  BY DEF Inv, Typed, DiskTyped, LibvirtTyped, NicsTyped, GuestsTyped, MemoryTyped, PassTyped,
     RecordsTyped, HistoryTyped, Places, Working, Works, Phases, OnRecords, disk, libvirt, nics,
     guests, memory, pass, First
<1>2. Phases' /\ OnRecords'
  BY DEF Inv, Typed, DiskTyped, LibvirtTyped, NicsTyped, GuestsTyped, MemoryTyped, PassTyped,
     RecordsTyped, HistoryTyped, Phases, OnRecords, AtRecord, disk, libvirt, nics, guests,
     memory, pass, First
<1>3. OnWay'
  BY DEF Inv, Typed, DiskTyped, LibvirtTyped, NicsTyped, GuestsTyped, MemoryTyped, PassTyped,
     RecordsTyped, HistoryTyped, Phases, OnWay, disk, libvirt, nics, guests, memory, pass,
     First
<1>4. Recorded'
  BY DEF Inv, Typed, DiskTyped, LibvirtTyped, NicsTyped, GuestsTyped, MemoryTyped, PassTyped,
     RecordsTyped, HistoryTyped, Phases, OnRecords, AtRecord, OnWay, Recorded, Free, disk,
     libvirt, nics, guests, memory, pass, First
<1>5. Free'
  BY DEF Inv, Typed, DiskTyped, LibvirtTyped, NicsTyped, GuestsTyped, MemoryTyped, PassTyped,
     RecordsTyped, HistoryTyped, Phases, OnRecords, AtRecord, OnWay, Recorded, Free, disk,
     libvirt, nics, guests, memory, pass, First
<1> QED  BY <1>1, <1>2, <1>3, <1>4, <1>5 DEF Inv

LEMMA FirstDoneKeeps ==
    ASSUME Inv, FirstDone
    PROVE  Inv'
<1>1. Typed'
  BY DEF Inv, Typed, DiskTyped, LibvirtTyped, NicsTyped, GuestsTyped, MemoryTyped, PassTyped,
     RecordsTyped, HistoryTyped, Places, Working, Works, Phases, OnRecords, disk, libvirt, nics,
     guests, memory, pass, FirstDone
<1>2. Phases' /\ OnRecords'
  BY DEF Inv, Typed, DiskTyped, LibvirtTyped, NicsTyped, GuestsTyped, MemoryTyped, PassTyped,
     RecordsTyped, HistoryTyped, Phases, OnRecords, AtRecord, disk, libvirt, nics, guests,
     memory, pass, FirstDone
<1>3. OnWay'
  BY DEF Inv, Typed, DiskTyped, LibvirtTyped, NicsTyped, GuestsTyped, MemoryTyped, PassTyped,
     RecordsTyped, HistoryTyped, Phases, OnWay, disk, libvirt, nics, guests, memory, pass,
     FirstDone
<1>4. Recorded'
  BY DEF Inv, Typed, DiskTyped, LibvirtTyped, NicsTyped, GuestsTyped, MemoryTyped, PassTyped,
     RecordsTyped, HistoryTyped, Phases, OnRecords, AtRecord, OnWay, Recorded, Free, disk,
     libvirt, nics, guests, memory, pass, FirstDone
<1>5. Free'
  BY DEF Inv, Typed, DiskTyped, LibvirtTyped, NicsTyped, GuestsTyped, MemoryTyped, PassTyped,
     RecordsTyped, HistoryTyped, Phases, OnRecords, AtRecord, OnWay, Recorded, Free, disk,
     libvirt, nics, guests, memory, pass, FirstDone
<1> QED  BY <1>1, <1>2, <1>3, <1>4, <1>5 DEF Inv

LEMMA SecondKeeps ==
    ASSUME Inv, NEW n \in Nets, Second(n)
    PROVE  Inv'
<1>1. Typed'
  BY DEF Inv, Typed, DiskTyped, LibvirtTyped, NicsTyped, GuestsTyped, MemoryTyped, PassTyped,
     RecordsTyped, HistoryTyped, Places, Working, Works, Phases, OnRecords, disk, libvirt, nics,
     guests, memory, pass, Second
<1>2. Phases' /\ OnRecords'
  BY DEF Inv, Typed, DiskTyped, LibvirtTyped, NicsTyped, GuestsTyped, MemoryTyped, PassTyped,
     RecordsTyped, HistoryTyped, Phases, OnRecords, AtRecord, disk, libvirt, nics, guests,
     memory, pass, Second
<1>3. OnWay'
  BY DEF Inv, Typed, DiskTyped, LibvirtTyped, NicsTyped, GuestsTyped, MemoryTyped, PassTyped,
     RecordsTyped, HistoryTyped, Phases, OnWay, disk, libvirt, nics, guests, memory, pass,
     Second
<1>4. Recorded'
  BY DEF Inv, Typed, DiskTyped, LibvirtTyped, NicsTyped, GuestsTyped, MemoryTyped, PassTyped,
     RecordsTyped, HistoryTyped, Phases, OnRecords, AtRecord, OnWay, Recorded, Free, disk,
     libvirt, nics, guests, memory, pass, Second
<1>5. Free'
  BY DEF Inv, Typed, DiskTyped, LibvirtTyped, NicsTyped, GuestsTyped, MemoryTyped, PassTyped,
     RecordsTyped, HistoryTyped, Phases, OnRecords, AtRecord, OnWay, Recorded, Free, disk,
     libvirt, nics, guests, memory, pass, Second
<1> QED  BY <1>1, <1>2, <1>3, <1>4, <1>5 DEF Inv

LEMMA EnsureDefinitionKeeps ==
    ASSUME Inv, EnsureDefinition
    PROVE  Inv'
<1>1. Typed'
<2>1. DiskTyped'
  BY DEF Inv, Typed, DiskTyped, LibvirtTyped, NicsTyped, GuestsTyped, MemoryTyped, PassTyped,
     RecordsTyped, HistoryTyped, Phases, OnRecords, AtRecord, disk, nics, guests, pass,
     EnsureDefinition
<2>2. LibvirtTyped'
  BY DEF Inv, Typed, DiskTyped, LibvirtTyped, NicsTyped, GuestsTyped, MemoryTyped, PassTyped,
     RecordsTyped, HistoryTyped, Phases, OnRecords, AtRecord, disk, nics, guests, pass,
     EnsureDefinition
<2>3. NicsTyped'
  BY DEF Inv, Typed, DiskTyped, LibvirtTyped, NicsTyped, GuestsTyped, MemoryTyped, PassTyped,
     RecordsTyped, HistoryTyped, Places, Working, Phases, OnRecords, AtRecord, disk, nics, guests,
     pass, EnsureDefinition
<2>4. GuestsTyped'
  BY DEF Inv, Typed, DiskTyped, LibvirtTyped, NicsTyped, GuestsTyped, MemoryTyped, PassTyped,
     RecordsTyped, HistoryTyped, Phases, OnRecords, AtRecord, disk, nics, guests, pass,
     EnsureDefinition
<2>5. MemoryTyped'
  BY DEF Inv, Typed, DiskTyped, LibvirtTyped, NicsTyped, GuestsTyped, MemoryTyped, PassTyped,
     RecordsTyped, HistoryTyped, Phases, OnRecords, AtRecord, disk, nics, guests, pass,
     EnsureDefinition
<2>6. PassTyped'
  BY DEF Inv, Typed, DiskTyped, LibvirtTyped, NicsTyped, GuestsTyped, MemoryTyped, PassTyped,
     RecordsTyped, HistoryTyped, Places, Steps, Phases, OnRecords, AtRecord, disk, nics, guests,
     pass, EnsureDefinition
<2>7. RecordsTyped'
  BY DEF Inv, Typed, DiskTyped, LibvirtTyped, NicsTyped, GuestsTyped, MemoryTyped, PassTyped,
     RecordsTyped, HistoryTyped, Phases, OnRecords, AtRecord, disk, nics, guests, pass,
     EnsureDefinition
<2>8. HistoryTyped'
  BY DEF Inv, Typed, DiskTyped, LibvirtTyped, NicsTyped, GuestsTyped, MemoryTyped, PassTyped,
     RecordsTyped, HistoryTyped, Event, Works, Phases, OnRecords, AtRecord, disk, nics, guests,
     pass, EnsureDefinition
<2> QED  BY <2>1, <2>2, <2>3, <2>4, <2>5, <2>6, <2>7, <2>8 DEF Typed
<1>2. Phases' /\ OnRecords'
  BY DEF Inv, Typed, DiskTyped, LibvirtTyped, NicsTyped, GuestsTyped, MemoryTyped, PassTyped,
     RecordsTyped, HistoryTyped, Phases, OnRecords, AtRecord, disk, nics, guests, pass,
     EnsureDefinition
<1>3. OnWay'
  BY DEF Inv, Typed, DiskTyped, LibvirtTyped, NicsTyped, GuestsTyped, MemoryTyped, PassTyped,
     RecordsTyped, HistoryTyped, Phases, OnWay, disk, nics, guests, pass, EnsureDefinition
<1>4. Recorded'
  BY DEF Inv, Typed, DiskTyped, LibvirtTyped, NicsTyped, GuestsTyped, MemoryTyped, PassTyped,
     RecordsTyped, HistoryTyped, Phases, OnRecords, AtRecord, OnWay, Recorded, Free, disk, nics,
     guests, pass, EnsureDefinition
<1>5. Free'
  BY DEF Inv, Typed, DiskTyped, LibvirtTyped, NicsTyped, GuestsTyped, MemoryTyped, PassTyped,
     RecordsTyped, HistoryTyped, Phases, OnRecords, AtRecord, OnWay, Recorded, Free, disk, nics,
     guests, pass, EnsureDefinition
<1> QED  BY <1>1, <1>2, <1>3, <1>4, <1>5 DEF Inv

LEMMA RestoreKeeps ==
    ASSUME Inv, Restore
    PROVE  Inv'
<1>1. Typed'
  BY DEF Inv, Typed, DiskTyped, LibvirtTyped, NicsTyped, GuestsTyped, MemoryTyped, PassTyped,
     RecordsTyped, HistoryTyped, Places, Working, Event, Works, Phases, OnRecords, disk, nics,
     guests, pass, Restore, Renewed
<1>2. Phases' /\ OnRecords'
  BY DEF Inv, Typed, DiskTyped, LibvirtTyped, NicsTyped, GuestsTyped, MemoryTyped, PassTyped,
     RecordsTyped, HistoryTyped, Phases, OnRecords, AtRecord, disk, nics, guests, pass, Restore,
     Renewed
<1>3. OnWay'
  BY DEF Inv, Typed, DiskTyped, LibvirtTyped, NicsTyped, GuestsTyped, MemoryTyped, PassTyped,
     RecordsTyped, HistoryTyped, Phases, OnWay, disk, nics, guests, pass, Restore, Renewed
<1>4. Recorded'
  BY DEF Inv, Typed, DiskTyped, LibvirtTyped, NicsTyped, GuestsTyped, MemoryTyped, PassTyped,
     RecordsTyped, HistoryTyped, Phases, OnRecords, AtRecord, OnWay, Recorded, Free, disk, nics,
     guests, pass, Restore, Renewed
<1>5. Free'
  BY DEF Inv, Typed, DiskTyped, LibvirtTyped, NicsTyped, GuestsTyped, MemoryTyped, PassTyped,
     RecordsTyped, HistoryTyped, Phases, OnRecords, AtRecord, OnWay, Recorded, Free, disk, nics,
     guests, pass, Restore, Renewed
<1> QED  BY <1>1, <1>2, <1>3, <1>4, <1>5 DEF Inv

LEMMA ReconnectKeeps ==
    ASSUME Inv, Reconnect
    PROVE  Inv'
<1>1. Typed'
  BY DEF Inv, Typed, DiskTyped, LibvirtTyped, NicsTyped, GuestsTyped, MemoryTyped, PassTyped,
     RecordsTyped, HistoryTyped, Places, Working, Event, Works, Phases, OnRecords, disk, libvirt,
     nics, pass, Reconnect, Running
<1>2. Phases' /\ OnRecords'
  BY DEF Inv, Typed, DiskTyped, LibvirtTyped, NicsTyped, GuestsTyped, MemoryTyped, PassTyped,
     RecordsTyped, HistoryTyped, Phases, OnRecords, AtRecord, disk, libvirt, nics, pass, Reconnect,
     Running
<1>3. OnWay'
  BY DEF Inv, Typed, DiskTyped, LibvirtTyped, NicsTyped, GuestsTyped, MemoryTyped, PassTyped,
     RecordsTyped, HistoryTyped, Phases, OnWay, disk, libvirt, nics, pass, Reconnect, Running
<1>4. Recorded'
  BY DEF Inv, Typed, DiskTyped, LibvirtTyped, NicsTyped, GuestsTyped, MemoryTyped, PassTyped,
     RecordsTyped, HistoryTyped, Phases, OnRecords, AtRecord, OnWay, Recorded, Free, disk, libvirt,
     nics, pass, Reconnect, Running
<1>5. Free'
  BY DEF Inv, Typed, DiskTyped, LibvirtTyped, NicsTyped, GuestsTyped, MemoryTyped, PassTyped,
     RecordsTyped, HistoryTyped, Phases, OnRecords, AtRecord, OnWay, Recorded, Free, disk, libvirt,
     nics, pass, Reconnect, Running
<1> QED  BY <1>1, <1>2, <1>3, <1>4, <1>5 DEF Inv

LEMMA EndPassKeeps ==
    ASSUME Inv, EndPass
    PROVE  Inv'
<1>1. Typed'
<2>1. DiskTyped'
  BY DEF Inv, Typed, DiskTyped, LibvirtTyped, NicsTyped, GuestsTyped, MemoryTyped, PassTyped,
     RecordsTyped, HistoryTyped, Phases, OnRecords, AtRecord, libvirt, nics, guests, memory, pass,
     EndPass, Idle, NicsOf
<2>2. LibvirtTyped'
  BY DEF Inv, Typed, DiskTyped, LibvirtTyped, NicsTyped, GuestsTyped, MemoryTyped, PassTyped,
     RecordsTyped, HistoryTyped, Phases, OnRecords, AtRecord, libvirt, nics, guests, memory, pass,
     EndPass, Idle, NicsOf
<2>3. NicsTyped'
  BY DEF Inv, Typed, DiskTyped, LibvirtTyped, NicsTyped, GuestsTyped, MemoryTyped, PassTyped,
     RecordsTyped, HistoryTyped, Places, Working, Phases, OnRecords, AtRecord, libvirt, nics,
     guests, memory, pass, EndPass, Idle, NicsOf
<2>4. GuestsTyped'
  BY DEF Inv, Typed, DiskTyped, LibvirtTyped, NicsTyped, GuestsTyped, MemoryTyped, PassTyped,
     RecordsTyped, HistoryTyped, Phases, OnRecords, AtRecord, libvirt, nics, guests, memory, pass,
     EndPass, Idle, NicsOf
<2>5. MemoryTyped'
  BY DEF Inv, Typed, DiskTyped, LibvirtTyped, NicsTyped, GuestsTyped, MemoryTyped, PassTyped,
     RecordsTyped, HistoryTyped, Phases, OnRecords, AtRecord, libvirt, nics, guests, memory, pass,
     EndPass, Idle, NicsOf
<2>6. PassTyped'
  BY DEF Inv, Typed, DiskTyped, LibvirtTyped, NicsTyped, GuestsTyped, MemoryTyped, PassTyped,
     RecordsTyped, HistoryTyped, Places, Steps, Phases, OnRecords, AtRecord, libvirt, nics, guests,
     memory, pass, EndPass, Idle, NicsOf
<2>7. RecordsTyped'
  BY DEF Inv, Typed, DiskTyped, LibvirtTyped, NicsTyped, GuestsTyped, MemoryTyped, PassTyped,
     RecordsTyped, HistoryTyped, Phases, OnRecords, AtRecord, libvirt, nics, guests, memory, pass,
     EndPass, Idle, NicsOf
<2>8. HistoryTyped'
  BY DEF Inv, Typed, DiskTyped, LibvirtTyped, NicsTyped, GuestsTyped, MemoryTyped, PassTyped,
     RecordsTyped, HistoryTyped, Event, Works, Phases, OnRecords, AtRecord, libvirt, nics, guests,
     memory, pass, EndPass, Idle, NicsOf
<2> QED  BY <2>1, <2>2, <2>3, <2>4, <2>5, <2>6, <2>7, <2>8 DEF Typed
<1>2. Phases' /\ OnRecords'
  BY DEF Inv, Typed, DiskTyped, LibvirtTyped, NicsTyped, GuestsTyped, MemoryTyped, PassTyped,
     RecordsTyped, HistoryTyped, Phases, OnRecords, AtRecord, libvirt, nics, guests, memory, pass,
     EndPass, Idle, NicsOf
<1>3. OnWay'
  BY DEF Inv, Typed, DiskTyped, LibvirtTyped, NicsTyped, GuestsTyped, MemoryTyped, PassTyped,
     RecordsTyped, HistoryTyped, Phases, OnWay, libvirt, nics, guests, memory, pass, EndPass, Idle,
     NicsOf
<1>4. Recorded'
<2>1. kind = "pass" /\ records = file /\ noted \subseteq file /\ kind' = "pass" /\ pc' = "idle"
  BY DEF Inv, Typed, RecordsTyped, Phases, OnRecords, EndPass, Idle
<2>2. UNCHANGED <<file, nicOf, at, networkd>>
  BY DEF EndPass, nics
<2>3. CASE UNCHANGED <<claims, seen>>
  BY <2>1, <2>2, <2>3 DEF Inv, Recorded
<2>4. CASE /\ claims' = noted
           /\ seen' = {x \in seen \cup NicsOf(noted) : at[x] \notin Nets /\ networkd[x] # "none"}
  <3>1. ASSUME NEW n \in file, nicOf[n] \in seen' PROVE n \in noted
    <4>1. CASE nicOf[n] \in seen
      BY <2>1, <4>1 DEF Inv, Recorded, EndPass
    <4>2. CASE nicOf[n] \in NicsOf(noted)
      <5>1. PICK m \in noted : nicOf[m] = nicOf[n] /\ nicOf[m] # None
        BY <4>2 DEF NicsOf
      <5>2. m = n
        BY <2>1, <5>1 DEF Inv, OnRecords
      <5> QED  BY <5>1, <5>2
    <4> QED  BY <2>4, <3>1, <4>1, <4>2
  <3> QED  BY <2>1, <2>2, <2>4, <3>1 DEF Recorded
<2> QED  BY <2>3, <2>4 DEF EndPass
<1>5. Free'
  BY DEF Inv, Typed, DiskTyped, LibvirtTyped, NicsTyped, GuestsTyped, MemoryTyped, PassTyped,
     RecordsTyped, HistoryTyped, Phases, OnRecords, AtRecord, OnWay, Recorded, Free, libvirt, nics,
     guests, memory, pass, EndPass, Idle, NicsOf
<1> QED  BY <1>1, <1>2, <1>3, <1>4, <1>5 DEF Inv

LEMMA RequestsKeeps ==
    ASSUME Inv, Requests
    PROVE  Inv'
<1>1. Typed'
  BY DEF Inv, Typed, DiskTyped, LibvirtTyped, NicsTyped, GuestsTyped, MemoryTyped, PassTyped,
     RecordsTyped, HistoryTyped, Places, Working, Event, Works, Phases, OnRecords, disk,
     libvirt, nics, guests, memory, pass, Requests, Create, Delete, Ask
<1>2. Phases' /\ OnRecords'
  BY DEF Inv, Typed, DiskTyped, LibvirtTyped, NicsTyped, GuestsTyped, MemoryTyped, PassTyped,
     RecordsTyped, HistoryTyped, Phases, OnRecords, AtRecord, disk, libvirt, nics, guests,
     memory, pass, Requests, Create, Delete, Ask
<1>3. OnWay'
  BY DEF Inv, Typed, DiskTyped, LibvirtTyped, NicsTyped, GuestsTyped, MemoryTyped, PassTyped,
     RecordsTyped, HistoryTyped, Phases, OnWay, disk, libvirt, nics, guests, memory, pass,
     Requests, Create, Delete, Ask
<1>4. Recorded'
  BY DEF Inv, Typed, DiskTyped, LibvirtTyped, NicsTyped, GuestsTyped, MemoryTyped, PassTyped,
     RecordsTyped, HistoryTyped, Phases, OnRecords, AtRecord, OnWay, Recorded, Free, disk,
     libvirt, nics, guests, memory, pass, Requests, Create, Delete, Ask
<1>5. Free'
  BY DEF Inv, Typed, DiskTyped, LibvirtTyped, NicsTyped, GuestsTyped, MemoryTyped, PassTyped,
     RecordsTyped, HistoryTyped, Phases, OnRecords, AtRecord, OnWay, Recorded, Free, disk,
     libvirt, nics, guests, memory, pass, Requests, Create, Delete, Ask
<1> QED  BY <1>1, <1>2, <1>3, <1>4, <1>5 DEF Inv

LEMMA MakeKeeps ==
    ASSUME Inv, Make
    PROVE  Inv'
<1>1. Typed'
<2>1. DiskTyped'
  BY DEF Inv, Typed, DiskTyped, LibvirtTyped, NicsTyped, GuestsTyped, MemoryTyped, PassTyped,
     RecordsTyped, HistoryTyped, Phases, OnRecords, AtRecord, disk, libvirt, nics, guests, pass,
     Make, Renewed, Running, Idle
<2>2. LibvirtTyped'
  BY DEF Inv, Typed, DiskTyped, LibvirtTyped, NicsTyped, GuestsTyped, MemoryTyped, PassTyped,
     RecordsTyped, HistoryTyped, Phases, OnRecords, AtRecord, disk, libvirt, nics, guests, pass,
     Make, Renewed, Running, Idle
<2>3. NicsTyped'
  BY DEF Inv, Typed, DiskTyped, LibvirtTyped, NicsTyped, GuestsTyped, MemoryTyped, PassTyped,
     RecordsTyped, HistoryTyped, Places, Working, Phases, OnRecords, AtRecord, disk, libvirt, nics,
     guests, pass, Make, Renewed, Running, Idle
<2>4. GuestsTyped'
  BY DEF Inv, Typed, DiskTyped, LibvirtTyped, NicsTyped, GuestsTyped, MemoryTyped, PassTyped,
     RecordsTyped, HistoryTyped, Phases, OnRecords, AtRecord, disk, libvirt, nics, guests, pass,
     Make, Renewed, Running, Idle
<2>5. MemoryTyped'
  BY DEF Inv, Typed, DiskTyped, LibvirtTyped, NicsTyped, GuestsTyped, MemoryTyped, PassTyped,
     RecordsTyped, HistoryTyped, Phases, OnRecords, AtRecord, disk, libvirt, nics, guests, pass,
     Make, Renewed, Running, Idle
<2>6. PassTyped'
  <3>1. CASE pc' = "steps" /\ UNCHANGED pass
    BY <3>1 DEF Inv, Typed, PassTyped, pass
  <3>2. CASE pc' = "idle" /\ Idle
    BY <3>2, IdleTyped DEF PassTyped
  <3> QED  BY <3>1, <3>2 DEF Make
<2>7. RecordsTyped'
  BY DEF Inv, Typed, DiskTyped, LibvirtTyped, NicsTyped, GuestsTyped, MemoryTyped, PassTyped,
     RecordsTyped, HistoryTyped, Phases, OnRecords, AtRecord, disk, libvirt, nics, guests, pass,
     Make, Renewed, Running, Idle
<2>8. HistoryTyped'
  BY DEF Inv, Typed, DiskTyped, LibvirtTyped, NicsTyped, GuestsTyped, MemoryTyped, PassTyped,
     RecordsTyped, HistoryTyped, Event, Works, Phases, OnRecords, AtRecord, disk, libvirt, nics,
     guests, pass, Make, Renewed, Running, Idle
<2> QED  BY <2>1, <2>2, <2>3, <2>4, <2>5, <2>6, <2>7, <2>8 DEF Typed
<1>2. Phases' /\ OnRecords'
  BY DEF Inv, Typed, DiskTyped, LibvirtTyped, NicsTyped, GuestsTyped, MemoryTyped, PassTyped,
     RecordsTyped, HistoryTyped, Phases, OnRecords, AtRecord, disk, libvirt, nics, guests, pass,
     Make, Renewed, Running, Idle
<1>3. OnWay'
  BY DEF Inv, Typed, DiskTyped, LibvirtTyped, NicsTyped, GuestsTyped, MemoryTyped, PassTyped,
     RecordsTyped, HistoryTyped, Phases, OnWay, disk, libvirt, nics, guests, pass, Make, Renewed,
     Running, Idle
<1>4. Recorded'
  BY DEF Inv, Typed, DiskTyped, LibvirtTyped, NicsTyped, GuestsTyped, MemoryTyped, PassTyped,
     RecordsTyped, HistoryTyped, Phases, OnRecords, AtRecord, OnWay, Recorded, Free, disk, libvirt,
     nics, guests, pass, Make, Renewed, Running, Idle
<1>5. Free'
  BY DEF Inv, Typed, DiskTyped, LibvirtTyped, NicsTyped, GuestsTyped, MemoryTyped, PassTyped,
     RecordsTyped, HistoryTyped, Phases, OnRecords, AtRecord, OnWay, Recorded, Free, disk, libvirt,
     nics, guests, pass, Make, Renewed, Running, Idle
<1> QED  BY <1>1, <1>2, <1>3, <1>4, <1>5 DEF Inv

LEMMA StoreKeeps ==
    ASSUME Inv, Store
    PROVE  Inv'
<1>1. Typed'
<2>1. DiskTyped'
  BY DEF Inv, Typed, DiskTyped, LibvirtTyped, NicsTyped, GuestsTyped, MemoryTyped, PassTyped,
     RecordsTyped, HistoryTyped, Phases, OnRecords, AtRecord, disk, libvirt, nics, guests,
     memory, pass, Store, Idle
<2>2. LibvirtTyped'
  BY DEF Inv, Typed, DiskTyped, LibvirtTyped, NicsTyped, GuestsTyped, MemoryTyped, PassTyped,
     RecordsTyped, HistoryTyped, Phases, OnRecords, AtRecord, disk, libvirt, nics, guests,
     memory, pass, Store, Idle
<2>3. NicsTyped'
  BY DEF Inv, Typed, DiskTyped, LibvirtTyped, NicsTyped, GuestsTyped, MemoryTyped, PassTyped,
     RecordsTyped, HistoryTyped, Places, Working, Phases, OnRecords, AtRecord, disk, libvirt,
     nics, guests, memory, pass, Store, Idle
<2>4. GuestsTyped'
  BY DEF Inv, Typed, DiskTyped, LibvirtTyped, NicsTyped, GuestsTyped, MemoryTyped, PassTyped,
     RecordsTyped, HistoryTyped, Phases, OnRecords, AtRecord, disk, libvirt, nics, guests,
     memory, pass, Store, Idle
<2>5. MemoryTyped'
  BY DEF Inv, Typed, DiskTyped, LibvirtTyped, NicsTyped, GuestsTyped, MemoryTyped, PassTyped,
     RecordsTyped, HistoryTyped, Phases, OnRecords, AtRecord, disk, libvirt, nics, guests,
     memory, pass, Store, Idle
<2>6. PassTyped'
  <3>1. CASE pc' = "undo" /\ UNCHANGED pass
    BY <3>1 DEF Inv, Typed, PassTyped, pass
  <3>2. CASE pc' = "idle" /\ Idle
    BY <3>2, IdleTyped DEF PassTyped
  <3> QED  BY <3>1, <3>2 DEF Store
<2>7. RecordsTyped'
  BY DEF Inv, Typed, DiskTyped, LibvirtTyped, NicsTyped, GuestsTyped, MemoryTyped, PassTyped,
     RecordsTyped, HistoryTyped, Phases, OnRecords, AtRecord, disk, libvirt, nics, guests,
     memory, pass, Store, Idle
<2>8. HistoryTyped'
  BY DEF Inv, Typed, DiskTyped, LibvirtTyped, NicsTyped, GuestsTyped, MemoryTyped, PassTyped,
     RecordsTyped, HistoryTyped, Event, Works, Phases, OnRecords, AtRecord, disk, libvirt,
     nics, guests, memory, pass, Store, Idle
<2> QED  BY <2>1, <2>2, <2>3, <2>4, <2>5, <2>6, <2>7, <2>8 DEF Typed
<1>2. Phases' /\ OnRecords'
  BY DEF Inv, Typed, DiskTyped, LibvirtTyped, NicsTyped, GuestsTyped, MemoryTyped, PassTyped,
     RecordsTyped, HistoryTyped, Phases, OnRecords, AtRecord, disk, libvirt, nics, guests,
     memory, pass, Store, Idle
<1>3. OnWay'
  BY DEF Inv, Typed, DiskTyped, LibvirtTyped, NicsTyped, GuestsTyped, MemoryTyped, PassTyped,
     RecordsTyped, HistoryTyped, Phases, OnWay, disk, libvirt, nics, guests, memory, pass,
     Store, Idle
<1>4. Recorded'
  BY DEF Inv, Typed, DiskTyped, LibvirtTyped, NicsTyped, GuestsTyped, MemoryTyped, PassTyped,
     RecordsTyped, HistoryTyped, Phases, OnRecords, AtRecord, OnWay, Recorded, Free, disk,
     libvirt, nics, guests, memory, pass, Store, Idle
<1>5. Free'
  BY DEF Inv, Typed, DiskTyped, LibvirtTyped, NicsTyped, GuestsTyped, MemoryTyped, PassTyped,
     RecordsTyped, HistoryTyped, Phases, OnRecords, AtRecord, OnWay, Recorded, Free, disk,
     libvirt, nics, guests, memory, pass, Store, Idle
<1> QED  BY <1>1, <1>2, <1>3, <1>4, <1>5 DEF Inv

LEMMA UndoKeeps ==
    ASSUME Inv, Undo
    PROVE  Inv'
<1>1. Typed'
<2>1. DiskTyped'
  BY DEF Inv, Typed, DiskTyped, LibvirtTyped, NicsTyped, GuestsTyped, MemoryTyped, PassTyped,
     RecordsTyped, HistoryTyped, Phases, OnRecords, AtRecord, disk, libvirt, memory, pass, Undo,
     Removed, Unplugged, Idle
<2>2. LibvirtTyped'
  BY DEF Inv, Typed, DiskTyped, LibvirtTyped, NicsTyped, GuestsTyped, MemoryTyped, PassTyped,
     RecordsTyped, HistoryTyped, Phases, OnRecords, AtRecord, disk, libvirt, memory, pass, Undo,
     Removed, Unplugged, Idle
<2>3. NicsTyped'
  BY DEF Inv, Typed, DiskTyped, LibvirtTyped, NicsTyped, GuestsTyped, MemoryTyped, PassTyped,
     RecordsTyped, HistoryTyped, Places, Working, Phases, OnRecords, AtRecord, disk, libvirt,
     memory, pass, Undo, Removed, Unplugged, Idle
<2>4. GuestsTyped'
  BY DEF Inv, Typed, DiskTyped, LibvirtTyped, NicsTyped, GuestsTyped, MemoryTyped, PassTyped,
     RecordsTyped, HistoryTyped, Phases, OnRecords, AtRecord, disk, libvirt, memory, pass, Undo,
     Removed, Unplugged, Idle
<2>5. MemoryTyped'
  BY DEF Inv, Typed, DiskTyped, LibvirtTyped, NicsTyped, GuestsTyped, MemoryTyped, PassTyped,
     RecordsTyped, HistoryTyped, Phases, OnRecords, AtRecord, disk, libvirt, memory, pass, Undo,
     Removed, Unplugged, Idle
<2>6. PassTyped'
  BY DEF Inv, Typed, DiskTyped, LibvirtTyped, NicsTyped, GuestsTyped, MemoryTyped, PassTyped,
     RecordsTyped, HistoryTyped, Places, Steps, Phases, OnRecords, AtRecord, disk, libvirt, memory,
     pass, Undo, Removed, Unplugged, Idle
<2>7. RecordsTyped'
  BY DEF Inv, Typed, DiskTyped, LibvirtTyped, NicsTyped, GuestsTyped, MemoryTyped, PassTyped,
     RecordsTyped, HistoryTyped, Phases, OnRecords, AtRecord, disk, libvirt, memory, pass, Undo,
     Removed, Unplugged, Idle
<2>8. HistoryTyped'
  BY DEF Inv, Typed, DiskTyped, LibvirtTyped, NicsTyped, GuestsTyped, MemoryTyped, PassTyped,
     RecordsTyped, HistoryTyped, Event, Works, Phases, OnRecords, AtRecord, disk, libvirt, memory,
     pass, Undo, Removed, Unplugged, Idle
<2> QED  BY <2>1, <2>2, <2>3, <2>4, <2>5, <2>6, <2>7, <2>8 DEF Typed
<1>2. Phases' /\ OnRecords'
  BY DEF Inv, Typed, DiskTyped, LibvirtTyped, NicsTyped, GuestsTyped, MemoryTyped, PassTyped,
     RecordsTyped, HistoryTyped, Phases, OnRecords, AtRecord, disk, libvirt, memory, pass, Undo,
     Removed, Unplugged, Idle
<1>3. OnWay'
  BY DEF Inv, Typed, DiskTyped, LibvirtTyped, NicsTyped, GuestsTyped, MemoryTyped, PassTyped,
     RecordsTyped, HistoryTyped, Phases, OnWay, disk, libvirt, memory, pass, Undo, Removed,
     Unplugged, Idle
<1>4. Recorded'
  BY DEF Inv, Typed, DiskTyped, LibvirtTyped, NicsTyped, GuestsTyped, MemoryTyped, PassTyped,
     RecordsTyped, HistoryTyped, Phases, OnRecords, AtRecord, OnWay, Recorded, Free, disk, libvirt,
     memory, pass, Undo, Removed, Unplugged, Idle
<1>5. Free'
  BY DEF Inv, Typed, DiskTyped, LibvirtTyped, NicsTyped, GuestsTyped, MemoryTyped, PassTyped,
     RecordsTyped, HistoryTyped, Phases, OnRecords, AtRecord, OnWay, Recorded, Free, disk, libvirt,
     memory, pass, Undo, Removed, Unplugged, Idle
<1> QED  BY <1>1, <1>2, <1>3, <1>4, <1>5 DEF Inv

LEMMA OursKeeps ==
    ASSUME Inv, Ours
    PROVE  Inv'
<1>1. Typed'
  BY DEF Inv, Typed, DiskTyped, LibvirtTyped, NicsTyped, GuestsTyped, MemoryTyped, PassTyped,
     RecordsTyped, HistoryTyped, Places, Working, Works, Phases, OnRecords, disk, libvirt, nics,
     guests, memory, pass, Ours
<1>2. Phases' /\ OnRecords'
  BY DEF Inv, Typed, DiskTyped, LibvirtTyped, NicsTyped, GuestsTyped, MemoryTyped, PassTyped,
     RecordsTyped, HistoryTyped, Phases, OnRecords, AtRecord, disk, libvirt, nics, guests,
     memory, pass, Ours
<1>3. OnWay'
  BY DEF Inv, Typed, DiskTyped, LibvirtTyped, NicsTyped, GuestsTyped, MemoryTyped, PassTyped,
     RecordsTyped, HistoryTyped, Phases, OnWay, disk, libvirt, nics, guests, memory, pass,
     Ours
<1>4. Recorded'
  BY DEF Inv, Typed, DiskTyped, LibvirtTyped, NicsTyped, GuestsTyped, MemoryTyped, PassTyped,
     RecordsTyped, HistoryTyped, Phases, OnRecords, AtRecord, OnWay, Recorded, Free, disk,
     libvirt, nics, guests, memory, pass, Ours
<1>5. Free'
  BY DEF Inv, Typed, DiskTyped, LibvirtTyped, NicsTyped, GuestsTyped, MemoryTyped, PassTyped,
     RecordsTyped, HistoryTyped, Phases, OnRecords, AtRecord, OnWay, Recorded, Free, disk,
     libvirt, nics, guests, memory, pass, Ours
<1> QED  BY <1>1, <1>2, <1>3, <1>4, <1>5 DEF Inv

LEMMA FreeNicKeeps ==
    ASSUME Inv, FreeNic
    PROVE  Inv'
<1>1. Typed'
  BY DEF Inv, Typed, DiskTyped, LibvirtTyped, NicsTyped, GuestsTyped, MemoryTyped, PassTyped,
     RecordsTyped, HistoryTyped, Places, Working, Event, Works, Phases, OnRecords, disk, libvirt,
     guests, memory, pass, FreeNic
<1>2. Phases' /\ OnRecords'
  BY DEF Inv, Typed, DiskTyped, LibvirtTyped, NicsTyped, GuestsTyped, MemoryTyped, PassTyped,
     RecordsTyped, HistoryTyped, Phases, OnRecords, AtRecord, disk, libvirt, guests, memory, pass,
     FreeNic
<1>3. OnWay'
  BY DEF Inv, Typed, DiskTyped, LibvirtTyped, NicsTyped, GuestsTyped, MemoryTyped, PassTyped,
     RecordsTyped, HistoryTyped, Phases, OnWay, disk, libvirt, guests, memory, pass, FreeNic
<1>4. Recorded'
  BY DEF Inv, Typed, DiskTyped, LibvirtTyped, NicsTyped, GuestsTyped, MemoryTyped, PassTyped,
     RecordsTyped, HistoryTyped, Phases, OnRecords, AtRecord, OnWay, Recorded, Free, disk, libvirt,
     guests, memory, pass, FreeNic
<1>5. Free'
  BY DEF Inv, Typed, DiskTyped, LibvirtTyped, NicsTyped, GuestsTyped, MemoryTyped, PassTyped,
     RecordsTyped, HistoryTyped, Phases, OnRecords, AtRecord, OnWay, Recorded, Free, disk, libvirt,
     guests, memory, pass, FreeNic
<1> QED  BY <1>1, <1>2, <1>3, <1>4, <1>5 DEF Inv

LEMMA RemoveKeeps ==
    ASSUME Inv, Remove
    PROVE  Inv'
<1>1. Typed'
  BY DEF Inv, Typed, DiskTyped, LibvirtTyped, NicsTyped, GuestsTyped, MemoryTyped, PassTyped,
     RecordsTyped, HistoryTyped, Places, Working, Event, Works, Phases, OnRecords, disk, libvirt,
     memory, pass, Remove, Removed, Unplugged
<1>2. Phases' /\ OnRecords'
  BY DEF Inv, Typed, DiskTyped, LibvirtTyped, NicsTyped, GuestsTyped, MemoryTyped, PassTyped,
     RecordsTyped, HistoryTyped, Phases, OnRecords, AtRecord, disk, libvirt, memory, pass, Remove,
     Removed, Unplugged
<1>3. OnWay'
  BY DEF Inv, Typed, DiskTyped, LibvirtTyped, NicsTyped, GuestsTyped, MemoryTyped, PassTyped,
     RecordsTyped, HistoryTyped, Phases, OnWay, disk, libvirt, memory, pass, Remove, Removed,
     Unplugged
<1>4. Recorded'
  BY DEF Inv, Typed, DiskTyped, LibvirtTyped, NicsTyped, GuestsTyped, MemoryTyped, PassTyped,
     RecordsTyped, HistoryTyped, Phases, OnRecords, AtRecord, OnWay, Recorded, Free, disk, libvirt,
     memory, pass, Remove, Removed, Unplugged
<1>5. Free'
  BY DEF Inv, Typed, DiskTyped, LibvirtTyped, NicsTyped, GuestsTyped, MemoryTyped, PassTyped,
     RecordsTyped, HistoryTyped, Phases, OnRecords, AtRecord, OnWay, Recorded, Free, disk, libvirt,
     memory, pass, Remove, Removed, Unplugged
<1> QED  BY <1>1, <1>2, <1>3, <1>4, <1>5 DEF Inv

LEMMA EraseKeeps ==
    ASSUME Inv, Erase
    PROVE  Inv'
<1>1. Typed'
<2>1. DiskTyped'
  BY DEF Inv, Typed, DiskTyped, LibvirtTyped, NicsTyped, GuestsTyped, MemoryTyped, PassTyped,
     RecordsTyped, HistoryTyped, Phases, OnRecords, AtRecord, disk, libvirt, nics, guests,
     memory, pass, Erase, Idle
<2>2. LibvirtTyped'
  BY DEF Inv, Typed, DiskTyped, LibvirtTyped, NicsTyped, GuestsTyped, MemoryTyped, PassTyped,
     RecordsTyped, HistoryTyped, Phases, OnRecords, AtRecord, disk, libvirt, nics, guests,
     memory, pass, Erase, Idle
<2>3. NicsTyped'
  BY DEF Inv, Typed, DiskTyped, LibvirtTyped, NicsTyped, GuestsTyped, MemoryTyped, PassTyped,
     RecordsTyped, HistoryTyped, Places, Working, Phases, OnRecords, AtRecord, disk, libvirt,
     nics, guests, memory, pass, Erase, Idle
<2>4. GuestsTyped'
  BY DEF Inv, Typed, DiskTyped, LibvirtTyped, NicsTyped, GuestsTyped, MemoryTyped, PassTyped,
     RecordsTyped, HistoryTyped, Phases, OnRecords, AtRecord, disk, libvirt, nics, guests,
     memory, pass, Erase, Idle
<2>5. MemoryTyped'
  BY DEF Inv, Typed, DiskTyped, LibvirtTyped, NicsTyped, GuestsTyped, MemoryTyped, PassTyped,
     RecordsTyped, HistoryTyped, Phases, OnRecords, AtRecord, disk, libvirt, nics, guests,
     memory, pass, Erase, Idle
<2>6. PassTyped'
  BY DEF Inv, Typed, DiskTyped, LibvirtTyped, NicsTyped, GuestsTyped, MemoryTyped, PassTyped,
     RecordsTyped, HistoryTyped, Places, Steps, Phases, OnRecords, AtRecord, disk, libvirt,
     nics, guests, memory, pass, Erase, Idle
<2>7. RecordsTyped'
  BY DEF Inv, Typed, DiskTyped, LibvirtTyped, NicsTyped, GuestsTyped, MemoryTyped, PassTyped,
     RecordsTyped, HistoryTyped, Phases, OnRecords, AtRecord, disk, libvirt, nics, guests,
     memory, pass, Erase, Idle
<2>8. HistoryTyped'
  BY DEF Inv, Typed, DiskTyped, LibvirtTyped, NicsTyped, GuestsTyped, MemoryTyped, PassTyped,
     RecordsTyped, HistoryTyped, Event, Works, Phases, OnRecords, AtRecord, disk, libvirt,
     nics, guests, memory, pass, Erase, Idle
<2> QED  BY <2>1, <2>2, <2>3, <2>4, <2>5, <2>6, <2>7, <2>8 DEF Typed
<1>2. Phases' /\ OnRecords'
  BY DEF Inv, Typed, DiskTyped, LibvirtTyped, NicsTyped, GuestsTyped, MemoryTyped, PassTyped,
     RecordsTyped, HistoryTyped, Phases, OnRecords, AtRecord, disk, libvirt, nics, guests,
     memory, pass, Erase, Idle
<1>3. OnWay'
  BY DEF Inv, Typed, DiskTyped, LibvirtTyped, NicsTyped, GuestsTyped, MemoryTyped, PassTyped,
     RecordsTyped, HistoryTyped, Phases, OnWay, disk, libvirt, nics, guests, memory, pass,
     Erase, Idle
<1>4. Recorded'
  BY DEF Inv, Typed, DiskTyped, LibvirtTyped, NicsTyped, GuestsTyped, MemoryTyped, PassTyped,
     RecordsTyped, HistoryTyped, Phases, OnRecords, AtRecord, OnWay, Recorded, Free, disk,
     libvirt, nics, guests, memory, pass, Erase, Idle
<1>5. Free'
  BY DEF Inv, Typed, DiskTyped, LibvirtTyped, NicsTyped, GuestsTyped, MemoryTyped, PassTyped,
     RecordsTyped, HistoryTyped, Phases, OnRecords, AtRecord, OnWay, Recorded, Free, disk,
     libvirt, nics, guests, memory, pass, Erase, Idle
<1> QED  BY <1>1, <1>2, <1>3, <1>4, <1>5 DEF Inv

LEMMA HoldOverKeeps ==
    ASSUME Inv, NEW x \in Nics, HoldOver(x)
    PROVE  Inv'
<1>1. Typed'
  BY DEF Inv, Typed, DiskTyped, LibvirtTyped, NicsTyped, GuestsTyped, MemoryTyped, PassTyped,
     RecordsTyped, HistoryTyped, Places, Working, Works, Phases, OnRecords, disk, libvirt, nics,
     guests, pass, HoldOver
<1>2. Phases' /\ OnRecords'
  BY DEF Inv, Typed, DiskTyped, LibvirtTyped, NicsTyped, GuestsTyped, MemoryTyped, PassTyped,
     RecordsTyped, HistoryTyped, Phases, OnRecords, AtRecord, disk, libvirt, nics, guests, pass,
     HoldOver
<1>3. OnWay'
  BY DEF Inv, Typed, DiskTyped, LibvirtTyped, NicsTyped, GuestsTyped, MemoryTyped, PassTyped,
     RecordsTyped, HistoryTyped, Phases, OnWay, disk, libvirt, nics, guests, pass, HoldOver
<1>4. Recorded'
  BY DEF Inv, Typed, DiskTyped, LibvirtTyped, NicsTyped, GuestsTyped, MemoryTyped, PassTyped,
     RecordsTyped, HistoryTyped, Phases, OnRecords, AtRecord, OnWay, Recorded, Free, disk, libvirt,
     nics, guests, pass, HoldOver
<1>5. Free'
  BY DEF Inv, Typed, DiskTyped, LibvirtTyped, NicsTyped, GuestsTyped, MemoryTyped, PassTyped,
     RecordsTyped, HistoryTyped, Phases, OnRecords, AtRecord, OnWay, Recorded, Free, disk, libvirt,
     nics, guests, pass, HoldOver
<1> QED  BY <1>1, <1>2, <1>3, <1>4, <1>5 DEF Inv

LEMMA OutsideKeeps ==
    ASSUME Inv, Outside
    PROVE  Inv'
<1>1. Typed'
  BY DEF Inv, Typed, DiskTyped, LibvirtTyped, NicsTyped, GuestsTyped, MemoryTyped, PassTyped,
     RecordsTyped, HistoryTyped, Places, Working, Event, Phases, OnRecords, disk, libvirt, nics,
     guests, pass, Outside, Readdress, Configure, Settle, Move, Disturb, Power, Unplugged, Renewed
<1>2. Phases' /\ OnRecords'
  BY DEF Inv, Typed, DiskTyped, LibvirtTyped, NicsTyped, GuestsTyped, MemoryTyped, PassTyped,
     RecordsTyped, HistoryTyped, Phases, OnRecords, AtRecord, disk, libvirt, nics, guests, pass,
     Outside, Readdress, Configure, Settle, Move, Disturb, Power, Unplugged, Renewed
<1>3. OnWay'
  BY DEF Inv, Typed, DiskTyped, LibvirtTyped, NicsTyped, GuestsTyped, MemoryTyped, PassTyped,
     RecordsTyped, HistoryTyped, Phases, OnWay, disk, libvirt, nics, guests, pass, Outside,
     Readdress, Configure, Settle, Move, Disturb, Power, Unplugged, Renewed
<1>4. Recorded'
  BY DEF Inv, Typed, DiskTyped, LibvirtTyped, NicsTyped, GuestsTyped, MemoryTyped, PassTyped,
     RecordsTyped, HistoryTyped, Phases, OnRecords, AtRecord, OnWay, Recorded, Free, disk, libvirt,
     nics, guests, pass, Outside, Readdress, Configure, Settle, Move, Disturb, Power, Unplugged,
     Renewed
<1>5. Free'
  BY DEF Inv, Typed, DiskTyped, LibvirtTyped, NicsTyped, GuestsTyped, MemoryTyped, PassTyped,
     RecordsTyped, HistoryTyped, Phases, OnRecords, AtRecord, OnWay, Recorded, Free, disk, libvirt,
     nics, guests, pass, Outside, Readdress, Configure, Settle, Move, Disturb, Power, Unplugged,
     Renewed
<1> QED  BY <1>1, <1>2, <1>3, <1>4, <1>5 DEF Inv

LEMMA ArriveKeeps ==
    ASSUME Inv, NEW x \in Nics, Arrive(x)
    PROVE  Inv'
<1>1. Typed'
  BY DEF Inv, Typed, DiskTyped, LibvirtTyped, NicsTyped, GuestsTyped, MemoryTyped, PassTyped,
     RecordsTyped, HistoryTyped, Places, Working, Event, Works, Phases, OnRecords, disk, libvirt,
     guests, memory, pass, Arrive
<1>2. Phases' /\ OnRecords'
  BY DEF Inv, Typed, DiskTyped, LibvirtTyped, NicsTyped, GuestsTyped, MemoryTyped, PassTyped,
     RecordsTyped, HistoryTyped, Phases, OnRecords, AtRecord, disk, libvirt, guests, memory, pass,
     Arrive
<1>3. OnWay'
  BY DEF Inv, Typed, DiskTyped, LibvirtTyped, NicsTyped, GuestsTyped, MemoryTyped, PassTyped,
     RecordsTyped, HistoryTyped, Phases, OnWay, disk, libvirt, guests, memory, pass, Arrive
<1>4. Recorded'
  BY DEF Inv, Typed, DiskTyped, LibvirtTyped, NicsTyped, GuestsTyped, MemoryTyped, PassTyped,
     RecordsTyped, HistoryTyped, Phases, OnRecords, AtRecord, OnWay, Recorded, Free, disk, libvirt,
     guests, memory, pass, Arrive
<1>5. Free'
  BY DEF Inv, Typed, DiskTyped, LibvirtTyped, NicsTyped, GuestsTyped, MemoryTyped, PassTyped,
     RecordsTyped, HistoryTyped, Phases, OnRecords, AtRecord, OnWay, Recorded, Free, disk, libvirt,
     guests, memory, pass, Arrive
<1> QED  BY <1>1, <1>2, <1>3, <1>4, <1>5 DEF Inv

LEMMA RestartKeeps ==
    ASSUME Inv, Restart
    PROVE  Inv'
<1>1. Typed'
<2>1. DiskTyped'
  BY DEF Inv, Typed, DiskTyped, LibvirtTyped, NicsTyped, GuestsTyped, MemoryTyped, PassTyped,
     RecordsTyped, HistoryTyped, Phases, OnRecords, AtRecord, disk, libvirt, nics, guests, pass,
     Restart, Died, Idle
<2>2. LibvirtTyped'
  BY DEF Inv, Typed, DiskTyped, LibvirtTyped, NicsTyped, GuestsTyped, MemoryTyped, PassTyped,
     RecordsTyped, HistoryTyped, Phases, OnRecords, AtRecord, disk, libvirt, nics, guests, pass,
     Restart, Died, Idle
<2>3. NicsTyped'
  BY DEF Inv, Typed, DiskTyped, LibvirtTyped, NicsTyped, GuestsTyped, MemoryTyped, PassTyped,
     RecordsTyped, HistoryTyped, Places, Working, Phases, OnRecords, AtRecord, disk, libvirt, nics,
     guests, pass, Restart, Died, Idle
<2>4. GuestsTyped'
  BY DEF Inv, Typed, DiskTyped, LibvirtTyped, NicsTyped, GuestsTyped, MemoryTyped, PassTyped,
     RecordsTyped, HistoryTyped, Phases, OnRecords, AtRecord, disk, libvirt, nics, guests, pass,
     Restart, Died, Idle
<2>5. MemoryTyped'
  BY DEF Inv, Typed, DiskTyped, LibvirtTyped, NicsTyped, GuestsTyped, MemoryTyped, PassTyped,
     RecordsTyped, HistoryTyped, Phases, OnRecords, AtRecord, disk, libvirt, nics, guests, pass,
     Restart, Died, Idle
<2>6. PassTyped'
  BY DEF Inv, Typed, DiskTyped, LibvirtTyped, NicsTyped, GuestsTyped, MemoryTyped, PassTyped,
     RecordsTyped, HistoryTyped, Places, Steps, Phases, OnRecords, AtRecord, disk, libvirt, nics,
     guests, pass, Restart, Died, Idle
<2>7. RecordsTyped'
  BY DEF Inv, Typed, DiskTyped, LibvirtTyped, NicsTyped, GuestsTyped, MemoryTyped, PassTyped,
     RecordsTyped, HistoryTyped, Phases, OnRecords, AtRecord, disk, libvirt, nics, guests, pass,
     Restart, Died, Idle
<2>8. HistoryTyped'
  BY DEF Inv, Typed, DiskTyped, LibvirtTyped, NicsTyped, GuestsTyped, MemoryTyped, PassTyped,
     RecordsTyped, HistoryTyped, Event, Phases, OnRecords, AtRecord, disk, libvirt, nics, guests,
     pass, Restart, Died, Idle
<2> QED  BY <2>1, <2>2, <2>3, <2>4, <2>5, <2>6, <2>7, <2>8 DEF Typed
<1>2. Phases' /\ OnRecords'
  BY DEF Inv, Typed, DiskTyped, LibvirtTyped, NicsTyped, GuestsTyped, MemoryTyped, PassTyped,
     RecordsTyped, HistoryTyped, Phases, OnRecords, AtRecord, disk, libvirt, nics, guests, pass,
     Restart, Died, Idle
<1>3. OnWay'
  BY DEF Inv, Typed, DiskTyped, LibvirtTyped, NicsTyped, GuestsTyped, MemoryTyped, PassTyped,
     RecordsTyped, HistoryTyped, Phases, OnWay, disk, libvirt, nics, guests, pass, Restart, Died,
     Idle
<1>4. Recorded'
  BY DEF Inv, Typed, DiskTyped, LibvirtTyped, NicsTyped, GuestsTyped, MemoryTyped, PassTyped,
     RecordsTyped, HistoryTyped, Phases, OnRecords, AtRecord, OnWay, Recorded, Free, disk, libvirt,
     nics, guests, pass, Restart, Died, Idle
<1>5. Free'
  BY DEF Inv, Typed, DiskTyped, LibvirtTyped, NicsTyped, GuestsTyped, MemoryTyped, PassTyped,
     RecordsTyped, HistoryTyped, Phases, OnRecords, AtRecord, OnWay, Recorded, Free, disk, libvirt,
     nics, guests, pass, Restart, Died, Idle
<1> QED  BY <1>1, <1>2, <1>3, <1>4, <1>5 DEF Inv

LEMMA RebootKeeps ==
    ASSUME Inv, Reboot
    PROVE  Inv'
<1>1. Typed'
<2>1. DiskTyped'
  BY DEF Inv, Typed, DiskTyped, LibvirtTyped, NicsTyped, GuestsTyped, MemoryTyped, PassTyped,
     RecordsTyped, HistoryTyped, Phases, OnRecords, AtRecord, disk, pass, Reboot, Died, Idle,
     Unplugged
<2>2. LibvirtTyped'
  BY DEF Inv, Typed, DiskTyped, LibvirtTyped, NicsTyped, GuestsTyped, MemoryTyped, PassTyped,
     RecordsTyped, HistoryTyped, Phases, OnRecords, AtRecord, disk, pass, Reboot, Died, Idle,
     Unplugged
<2>3. NicsTyped'
  BY DEF Inv, Typed, DiskTyped, LibvirtTyped, NicsTyped, GuestsTyped, MemoryTyped, PassTyped,
     RecordsTyped, HistoryTyped, Places, Working, Phases, OnRecords, AtRecord, disk, pass, Reboot,
     Died, Idle, Unplugged
<2>4. GuestsTyped'
  BY DEF Inv, Typed, DiskTyped, LibvirtTyped, NicsTyped, GuestsTyped, MemoryTyped, PassTyped,
     RecordsTyped, HistoryTyped, Phases, OnRecords, AtRecord, disk, pass, Reboot, Died, Idle,
     Unplugged
<2>5. MemoryTyped'
  BY DEF Inv, Typed, DiskTyped, LibvirtTyped, NicsTyped, GuestsTyped, MemoryTyped, PassTyped,
     RecordsTyped, HistoryTyped, Phases, OnRecords, AtRecord, disk, pass, Reboot, Died, Idle,
     Unplugged
<2>6. PassTyped'
  BY DEF Inv, Typed, DiskTyped, LibvirtTyped, NicsTyped, GuestsTyped, MemoryTyped, PassTyped,
     RecordsTyped, HistoryTyped, Places, Steps, Phases, OnRecords, AtRecord, disk, pass, Reboot,
     Died, Idle, Unplugged
<2>7. RecordsTyped'
  BY DEF Inv, Typed, DiskTyped, LibvirtTyped, NicsTyped, GuestsTyped, MemoryTyped, PassTyped,
     RecordsTyped, HistoryTyped, Phases, OnRecords, AtRecord, disk, pass, Reboot, Died, Idle,
     Unplugged
<2>8. HistoryTyped'
  BY DEF Inv, Typed, DiskTyped, LibvirtTyped, NicsTyped, GuestsTyped, MemoryTyped, PassTyped,
     RecordsTyped, HistoryTyped, Event, Phases, OnRecords, AtRecord, disk, pass, Reboot, Died, Idle,
     Unplugged
<2> QED  BY <2>1, <2>2, <2>3, <2>4, <2>5, <2>6, <2>7, <2>8 DEF Typed
<1>2. Phases' /\ OnRecords'
  BY DEF Inv, Typed, DiskTyped, LibvirtTyped, NicsTyped, GuestsTyped, MemoryTyped, PassTyped,
     RecordsTyped, HistoryTyped, Phases, OnRecords, AtRecord, disk, pass, Reboot, Died, Idle,
     Unplugged
<1>3. OnWay'
  BY DEF Inv, Typed, DiskTyped, LibvirtTyped, NicsTyped, GuestsTyped, MemoryTyped, PassTyped,
     RecordsTyped, HistoryTyped, Phases, OnWay, disk, pass, Reboot, Died, Idle, Unplugged
<1>4. Recorded'
  BY DEF Inv, Typed, DiskTyped, LibvirtTyped, NicsTyped, GuestsTyped, MemoryTyped, PassTyped,
     RecordsTyped, HistoryTyped, Phases, OnRecords, AtRecord, OnWay, Recorded, Free, disk, pass,
     Reboot, Died, Idle, Unplugged
<1>5. Free'
  BY DEF Inv, Typed, DiskTyped, LibvirtTyped, NicsTyped, GuestsTyped, MemoryTyped, PassTyped,
     RecordsTyped, HistoryTyped, Phases, OnRecords, AtRecord, OnWay, Recorded, Free, disk, pass,
     Reboot, Died, Idle, Unplugged
<1> QED  BY <1>1, <1>2, <1>3, <1>4, <1>5 DEF Inv

LEMMA Starts == Init => Inv
<1> SUFFICES ASSUME Init PROVE Inv
  OBVIOUS
<1>1. DiskTyped /\ LibvirtTyped /\ GuestsTyped /\ RecordsTyped
  BY DEF Init, DiskTyped, LibvirtTyped, GuestsTyped, RecordsTyped
<1>2. NicsTyped /\ MemoryTyped /\ HistoryTyped
  BY DEF Init, NicsTyped, MemoryTyped, HistoryTyped, Places, Working
<1>3. PassTyped
  BY DEF Init, PassTyped, Places, Steps
<1>4. Phases /\ OnWay /\ Recorded /\ Free
  BY DEF Init, Phases, OnWay, Recorded, Free
<1>5. OnRecords
  <2>1. file = Old /\ pc = "idle" /\ kind = "pass"
    BY DEF Init
  <2>2. \A n, m \in Old : nicOf[n] = nicOf[m] /\ nicOf[n] # None => n = m
    BY DEF Init
  <2> QED  BY <2>1, <2>2 DEF OnRecords, AtRecord
<1> QED  BY <1>1, <1>2, <1>3, <1>4, <1>5 DEF Inv, Typed

LEMMA StepsKeep == Inv /\ [Next]_vars => Inv'
<1> SUFFICES ASSUME Inv, [Next]_vars PROVE Inv'
  OBVIOUS
<1>1. CASE PassStep
  BY <1>1, ReadPortKeeps, ReadUseKeeps, StepKeeps, EndStepsKeeps, FirstDoneKeeps,
     EnsureDefinitionKeeps, RestoreKeeps, ReconnectKeeps, EndPassKeeps, FirstKeeps, SecondKeeps
  DEF PassStep
<1>2. CASE ChangeStep
  BY <1>2, MakeKeeps, StoreKeeps, UndoKeeps, OursKeeps, FreeNicKeeps, RemoveKeeps, EraseKeeps
  DEF ChangeStep
<1>3. CASE HoldsEnd
  BY <1>3, HoldOverKeeps DEF HoldsEnd
<1>4. CASE UNCHANGED vars
  BY <1>4 DEF Inv, Typed, DiskTyped, LibvirtTyped, NicsTyped, GuestsTyped, MemoryTyped, PassTyped,
     RecordsTyped, HistoryTyped, Phases, OnRecords, OnWay, Recorded, Free, vars, disk, libvirt,
     nics, guests, memory, pass
<1> QED  BY <1>1, <1>2, <1>3, <1>4, BeginPassKeeps, RequestsKeeps, OutsideKeeps, ArriveKeeps,
            RestartKeeps, RebootKeeps DEF Next

(***************************************************************************)
(* Every variable keeps its type (TypeOK), and with it what the code takes *)
(* for granted: claims and names are those of records there are, and a tap *)
(* is on a bridge that is there (bridgeService.ts, networkService.ts).     *)
(***************************************************************************)
THEOREM TypeCorrect == Spec => []TypeOK
<1>1. Inv => TypeOK
  BY Parts DEF Inv
<1> QED  BY <1>1, Starts, StepsKeep, PTL DEF Spec

(***************************************************************************)
(* A pass never takes a NIC the host depends on (HostKept), for any number *)
(* of bridges and NICs and whatever fails, restarts or is changed from     *)
(* outside, unless it came about after the pass had begun to look at the   *)
(* NIC (managedBridge.ts:61-66 and 80-87).                                 *)
(***************************************************************************)
THEOREM HostStays == Spec => HostKept
<1> DEFINE Kept == \A x \in Nics :
                       at[x] \notin Nets /\ at'[x] \in Nets /\ kind = "pass"
                       => x \notin (address \cup route \cup onway \cup seen) \ fresh
<1>1. Inv /\ [Next]_vars => [Kept]_vars
  <2> SUFFICES ASSUME Inv, Next PROVE Kept
    OBVIOUS
  <2>1. at \in [Nics -> Places]
    BY DEF Inv, Typed, NicsTyped
  <2>2. CASE \A x \in Nics : at'[x] \in {at[x], None, Other, Gone}
    BY <2>1, <2>2
  <2>3. CASE Step /\ Head("master") /\ at' = [at EXCEPT ![nic] = cur]
    <3>1. \A x \in Nics : x # nic => at'[x] = at[x]
      BY <2>1, <2>3
    <3>2. kind = "pass" => nic \notin (address \cup route \cup onway \cup seen) \ fresh
      BY <2>3 DEF Inv, Free, Step, Head
    <3> QED  BY <3>1, <3>2
  <2>4. Step => \/ at' \in {at, [at EXCEPT ![nic] = None]}
                \/ Head("master") /\ at' = [at EXCEPT ![nic] = cur]
    BY DEF Step
  <2>5. ASSUME NEW gone, at' = Unplugged(gone)
        PROVE  \A x \in Nics : at'[x] \in {at[x], None, Other, Gone}
    BY <2>5 DEF Unplugged
  <2>6. Outside => \A x \in Nics : at'[x] \in {at[x], None, Other, Gone}
    BY <2>1 DEF Outside, Readdress, Configure, Settle, Move, Disturb, Power, Unplugged, nics
  <2>7. Undo \/ Remove \/ Reboot \/ FreeNic => \A x \in Nics : at'[x] \in {at[x], None, Other, Gone}
    BY <2>1 DEF Undo, Remove, Removed, Reboot, Unplugged, FreeNic
  <2>8. \/ UNCHANGED at \/ Step \/ Outside
        \/ Undo \/ Remove \/ Reboot \/ FreeNic
    BY DEF Next, PassStep, ChangeStep, HoldsEnd, Requests, BeginPass, ReadPort, ReadUse, EndSteps,
       FirstDone, EnsureDefinition, Restore, Reconnect, EndPass, First, Second, Make, Store, Ours,
       Erase, Create, Delete, HoldOver, Arrive, Restart, nics
  <2> QED  BY <2>1, <2>2, <2>3, <2>4, <2>6, <2>7, <2>8
<1> QED  BY <1>1, Starts, StepsKeep, PTL DEF Spec, HostKept
=============================================================================
