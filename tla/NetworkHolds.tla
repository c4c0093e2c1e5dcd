---------------------------- MODULE NetworkHolds ----------------------------
(***************************************************************************)
(* Networks and their addresses against the VMs that are put on them:      *)
(* networks made and deleted one change at a time, requests that make a    *)
(* VM, derive one from a backup or add a NIC, what takes them away again,  *)
(* and restarts (services/networkService.ts, routes/vms.ts,                *)
(* services/vmDeriveService.ts).                                           *)
(*                                                                         *)
(* A request brings one NIC, so the request is also its MAC; a request     *)
(* that makes a VM is also its UUID.  Neither is used twice.               *)
(***************************************************************************)
EXTENDS Integers, FiniteSets

CONSTANTS
    Makers,         \* requests to make a VM, and the VMs they make
    Attachers,      \* requests to add a NIC to one
    Removers,       \* requests to take a NIC or a VM away
    Ids,            \* network IDs
    First,          \* the network there is at the start
    Ips,            \* addresses of a pool
    Os,             \* a bridge the operating system keeps
    Nothing,
    MaxFaults       \* bound: failing calls and restarts

ASSUME NetworkAssumption ==
    /\ Makers \cap Attachers = {} /\ Removers \cap (Makers \cup Attachers) = {}
    /\ IsFiniteSet(Ids) /\ First \in Ids
    /\ Os \notin Int \cup Ids /\ Ids \cap Int = {}
    /\ Nothing \notin Makers \cup Attachers \cup Ips
    /\ MaxFaults \in Nat

VARIABLES
    nets,           \* networks.json
    past,           \* history: every network there has been; backups name them
    links,          \* bridges VirtPilot's networks have on the host
    qpc,            \* what the change of networks under way does next
    snap,           \* the records that change has read
    cur,            \* the network it makes or deletes
    arriving,       \* requests that hold their network
    leaving,        \* the network a delete has marked
    pc,             \* pc[r]: what request r does next
    want,           \* want[r]: the network r is about
    derived,        \* derived[r]: r copies a definition, which has the bridge's name
    vmOf,           \* vmOf[r]: the VM r's NIC is for
    ip,             \* ip[r]: the address r takes from the pool
    live,           \* live[r]: r found its network there
    rows,           \* ip-allocations.json: the NICs that have a row
    before,         \* rows from before the backend's start
    defined,        \* VMs libvirt knows
    nics,           \* NICs in their definitions
    target,         \* target[w]: the NIC or VM that w takes away
    boot,           \* what the check of the rows after a start does next
    missing,        \* VMs that check did not find
    faults,
    blind           \* history: a network was made from records that could not be read

change == <<qpc, snap, cur>>
nic == <<want, vmOf, ip, live>>
request == <<nic, derived>>
vms == <<defined, nics>>
start == <<before, boot, missing>>
vars == <<nets, past, links, qpc, snap, cur, arriving, leaving, pc, want, derived, vmOf,
          ip, live, rows, before, defined, nics, target, boot, missing, faults, blind>>

Macs == Makers \cup Attachers
Indices == 0 .. Cardinality(Ids)
Networks == [id : Ids, bridge : Indices \cup {Os}]

Init ==
    /\ nets = {[id |-> First, bridge |-> 0]}
    /\ past = nets
    /\ links = {0}
    /\ qpc = "idle" /\ snap = {} /\ cur = {}
    /\ arriving = {} /\ leaving = {}
    /\ pc = [r \in Macs \cup Removers |-> "idle"]
    /\ want = [r \in Macs |-> Nothing]
    /\ derived = [r \in Macs |-> FALSE]
    /\ vmOf = [r \in Macs |-> IF r \in Makers THEN r ELSE Nothing]
    /\ ip = [r \in Macs |-> Nothing]
    /\ live = [r \in Macs |-> FALSE]
    /\ rows = {} /\ before = {}
    /\ defined = {} /\ nics = {}
    /\ target = [w \in Removers |-> Nothing]
    /\ boot = "over" /\ missing = {}
    /\ faults = 0 /\ blind = FALSE

Fault == faults < MaxFaults /\ faults' = faults + 1
Goto(r, a) == pc' = [pc EXCEPT ![r] = a]

Managed(n) == n.bridge # Os
NamesOf(n) == {n.id, n.bridge}
\* What a request knows its network by: an ID, or the bridge in a definition it copies.
Named(n, copy) == IF copy THEN n.bridge ELSE n.id
Key(r) == Named(want[r], derived[r])
Leaving(key) == \E n \in leaving : key \in NamesOf(n)
RowsOn(n) == {x \in rows : want[x].id = n.id}
NicsOf(v) == {x \in Macs : vmOf[x] = v}

(***************************************************************************)
(* Changes of the networks, one at a time (serialized).                    *)
(***************************************************************************)

\* The change is over, whichever way: the next one may begin.
Over == qpc' = "idle" /\ snap' = {} /\ cur' = {} /\ leaving' = {}
Refuse == /\ Over
          /\ UNCHANGED <<nets, past, links, arriving, pc, request, rows, vms, target, start, blind>>

\* nextBridgeIndex: one above the highest.
NextIndex(ns) ==
    LET used == {n.bridge : n \in {m \in ns : Managed(m)}}
    IN  CHOOSE i \in Indices : /\ \A j \in used : j < i
                               /\ i = 0 \/ i - 1 \in used

\* readNetworks, where a file that cannot be read is a list with nothing in it.
CreateRead(i, own) ==
    /\ qpc = "idle"
    /\ i \notin {n.id : n \in past}
    /\ \/ snap' = nets /\ UNCHANGED <<faults, blind>>
       \/ snap' = {} /\ blind' = TRUE /\ Fault
    /\ cur' = {[id |-> i, bridge |-> IF own THEN NextIndex(snap') ELSE Os]}
    /\ qpc' = "link"
    /\ UNCHANGED <<nets, past, links, arriving, leaving, pc, request, rows, vms, target, start>>

\* Seeded fault: an OS bridge is taken for one of VirtPilot's.
LinkAny ==
    /\ qpc = "link"
    /\ IF {n.bridge : n \in cur} \cap links # {}
         THEN Refuse
         ELSE /\ links' = links \cup {n.bridge : n \in cur}
              /\ qpc' = "record"
              /\ UNCHANGED <<nets, past, snap, cur, arriving, leaving, pc, request, rows, vms, target,
                             start, blind>>
    /\ UNCHANGED faults

\* The bridge, never one that is already there; an OS bridge is left alone.
CreateLink ==
    /\ qpc = "link"
    /\ IF {n.bridge : n \in cur} \cap links # {}
         THEN Refuse
         ELSE /\ links' = links \cup ({n.bridge : n \in cur} \ {Os})
              /\ qpc' = "record"
              /\ UNCHANGED <<nets, past, snap, cur, arriving, leaving, pc, request, rows, vms, target,
                             start, blind>>
    /\ UNCHANGED faults

CreateRecord ==
    /\ qpc = "record"
    /\ nets' = snap \cup cur
    /\ past' = past \cup cur
    /\ Over
    /\ UNCHANGED <<links, arriving, pc, request, rows, vms, target, start, faults, blind>>

\* A bridge or a VXLAN is taken down again; a NAT network is left as it is.
CreateFail ==
    /\ qpc \in {"link", "record"}
    /\ Fault
    /\ \/ links' = links
       \/ qpc = "record" /\ links' = links \ {n.bridge : n \in cur}
    /\ Over
    /\ UNCHANGED <<nets, past, arriving, pc, request, rows, vms, target, start, blind>>

\* deleteNetworkHolding.
DeleteRead(n) ==
    /\ qpc = "idle"
    /\ n \in nets
    /\ snap' = nets
    /\ cur' = {n}
    /\ leaving' = {n}
    /\ qpc' = "check"
    /\ UNCHANGED <<nets, past, links, arriving, pc, request, rows, vms, target, start, faults, blind>>

QGoto(a) == /\ qpc' = a
            /\ UNCHANGED <<nets, past, links, snap, cur, arriving, leaving, pc, request, rows, vms,
                           target, start, blind>>

\* Seeded fault: a refused delete stays marked.
CheckForgets ==
    /\ qpc = "check"
    /\ \E n \in cur :
         IF Managed(n)
         THEN IF \E r \in arriving : Key(r) \in NamesOf(n)
              THEN /\ qpc' = "idle" /\ snap' = {} /\ cur' = {}
                   /\ UNCHANGED <<nets, past, links, arriving, leaving, pc, request, rows, vms,
                                  target, start, blind>>
              ELSE QGoto("list")
         ELSE IF RowsOn(n) # {} THEN Refuse ELSE QGoto("unlink")
    /\ UNCHANGED faults

\* vmsArriving for VirtPilot's own kinds, the pool's rows for an OS bridge.
DeleteCheck ==
    /\ qpc = "check"
    /\ \E n \in cur :
         IF Managed(n)
         THEN IF \E r \in arriving : Key(r) \in NamesOf(n) THEN Refuse ELSE QGoto("list")
         ELSE IF RowsOn(n) # {} THEN Refuse ELSE QGoto("unlink")
    /\ UNCHANGED faults

\* listVmsWithNics.
DeleteList ==
    /\ qpc = "list"
    /\ IF \E n \in cur, x \in nics : want[x].bridge = n.bridge THEN Refuse ELSE QGoto("drop")
    /\ UNCHANGED faults

\* No VM is on it: the rows older than five minutes go, and any other keeps it here.
DeleteDrop ==
    /\ qpc = "drop"
    /\ \E n \in cur : \E gone \in SUBSET RowsOn(n) :
         /\ rows' = rows \ gone
         /\ IF gone = RowsOn(n)
              THEN qpc' = "unlink" /\ UNCHANGED <<snap, cur, leaving>>
              ELSE Over
    /\ UNCHANGED <<nets, past, links, arriving, pc, request, vms, target, start, faults, blind>>

DeleteUnlink ==
    /\ qpc = "unlink"
    /\ links' = links \ {n.bridge : n \in cur}
    /\ qpc' = "erase"
    /\ UNCHANGED <<nets, past, snap, cur, arriving, leaving, pc, request, rows, vms, target, start,
                   faults, blind>>

DeleteErase ==
    /\ qpc = "erase"
    /\ nets' = snap \ cur
    /\ Over
    /\ UNCHANGED <<past, links, arriving, pc, request, rows, vms, target, start, faults, blind>>

DeleteFail == qpc \in {"check", "list", "drop", "unlink", "erase"} /\ Fault /\ Refuse

ChangeStep ==
    \/ CreateLink \/ CreateRecord \/ CreateFail
    \/ DeleteCheck \/ DeleteList \/ DeleteDrop \/ DeleteUnlink \/ DeleteErase \/ DeleteFail

(***************************************************************************)
(* Making a VM, deriving one, adding a NIC.                                *)
(***************************************************************************)

\* holdNetworks, which only waits for a delete of this network, by whatever name.
Enter(r, key) == IF Leaving(key) THEN Goto(r, "hold") /\ UNCHANGED arriving
                                 ELSE Goto(r, "look") /\ arriving' = arriving \cup {r}

\* POST /vms names a network by its ID; a definition to copy, by its bridge.
AskVm(r, n, copy) ==
    /\ pc[r] = "idle"
    /\ want' = [want EXCEPT ![r] = n]
    /\ derived' = [derived EXCEPT ![r] = copy]
    /\ Enter(r, Named(n, copy))
    /\ UNCHANGED <<nets, past, links, change, leaving, vmOf, ip, live, rows, vms, target, start,
                   faults, blind>>

AskNic(r, n, v) ==
    /\ pc[r] = "idle"
    /\ v \in defined
    /\ want' = [want EXCEPT ![r] = n]
    /\ vmOf' = [vmOf EXCEPT ![r] = v]
    /\ Enter(r, n.id)
    /\ UNCHANGED <<nets, past, links, change, leaving, derived, ip, live, rows, vms, target, start,
                   faults, blind>>

\* Seeded fault: a hold does not wait for a delete under way.
HoldAtOnce(r) ==
    /\ pc[r] = "hold"
    /\ arriving' = arriving \cup {r}
    /\ Goto(r, "look")
    /\ UNCHANGED <<nets, past, links, change, leaving, request, rows, vms, target, start, faults, blind>>

\* The delete it waited for is over, and no other is marked.
Hold(r) ==
    /\ pc[r] = "hold"
    /\ ~Leaving(Key(r))
    /\ arriving' = arriving \cup {r}
    /\ Goto(r, "look")
    /\ UNCHANGED <<nets, past, links, change, leaving, request, rows, vms, target, start, faults, blind>>

\* The answer, and the finally clause.
Answer(r, how) == /\ Goto(r, how)
                  /\ arriving' = arriving \ {r}
                  /\ derived' = [derived EXCEPT ![r] = FALSE]

\* A request that leaves nothing behind is as if it had not been made.
NoTrace(r) == /\ Answer(r, "idle")
              /\ want' = [want EXCEPT ![r] = Nothing]
              /\ vmOf' = [vmOf EXCEPT ![r] = IF r \in Makers THEN r ELSE Nothing]
              /\ ip' = [ip EXCEPT ![r] = Nothing]
              /\ live' = [live EXCEPT ![r] = FALSE]

\* Where a request that fails goes: what it has made so far is taken back.
Back(r) == IF derived[r] THEN "undo" ELSE "back"

\* The record, and whether its addresses come from a pool.  A copy goes on
\* without, as its NIC can be replaced.
Look(r) ==
    /\ pc[r] = "look"
    /\ IF want[r] \in nets \/ derived[r]
         THEN /\ live' = [live EXCEPT ![r] = want[r] \in nets]
              /\ \E a \in {"define"} \cup (IF want[r] \in nets THEN {"alloc"} ELSE {}) : Goto(r, a)
              /\ UNCHANGED <<arriving, want, derived, vmOf, ip>>
         ELSE NoTrace(r)
    /\ UNCHANGED <<nets, past, links, change, leaving, rows, vms, target, start, faults, blind>>

\* Seeded fault: an address this VM has already is no conflict.
AllocOwn(r) ==
    /\ pc[r] = "alloc"
    /\ \E i \in Ips :
         IF \E x \in rows : want[x].id = want[r].id /\ ip[x] = i /\ vmOf[x] # vmOf[r]
         THEN Goto(r, Back(r)) /\ UNCHANGED <<ip, rows>>
         ELSE /\ ip' = [ip EXCEPT ![r] = i]
              /\ rows' = rows \cup {r}
              /\ Goto(r, "define")
    /\ UNCHANGED <<nets, past, links, change, arriving, leaving, want, derived, vmOf, live, vms, target,
                   start, faults, blind>>

\* allocateSpecificIp: read, looked at and written as one change.
Alloc(r) ==
    /\ pc[r] = "alloc"
    /\ \E i \in Ips :
         IF \E x \in rows : want[x].id = want[r].id /\ ip[x] = i
         THEN Goto(r, Back(r)) /\ UNCHANGED <<ip, rows>>
         ELSE /\ ip' = [ip EXCEPT ![r] = i]
              /\ rows' = rows \cup {r}
              /\ Goto(r, "define")
    /\ UNCHANGED <<nets, past, links, change, arriving, leaving, want, derived, vmOf, live, vms, target,
                   start, faults, blind>>

\* defineVm or attachNic, after all the disks are there.
Define(r) ==
    /\ pc[r] = "define"
    /\ IF r \in Makers \/ vmOf[r] \in defined
         THEN /\ defined' = defined \cup {vmOf[r]}
              /\ nics' = nics \cup {r}
              /\ Goto(r, "meta")
         ELSE Goto(r, "back") /\ UNCHANGED vms
    /\ UNCHANGED <<nets, past, links, change, arriving, leaving, request, rows, target, start, faults,
                   blind>>

\* The metadata is saved.
Meta(r) ==
    /\ pc[r] = "meta"
    /\ Answer(r, "done")
    /\ UNCHANGED <<nets, past, links, change, leaving, nic, rows, vms, target, start, faults, blind>>

\* A NIC that is on stays on; a VM that is there is answered with an error.
Fail(r) ==
    /\ pc[r] \in {"look", "alloc", "define", "meta"}
    /\ Fault
    /\ IF r \in Attachers /\ pc[r] = "meta"
         THEN Answer(r, "failed")
         ELSE Goto(r, Back(r)) /\ UNCHANGED <<arriving, derived>>
    /\ UNCHANGED <<nets, past, links, change, leaving, nic, rows, vms, target, start, blind>>

\* rollbackPartialVm begins with the VM, if it can.
Undo(r) ==
    /\ pc[r] = "undo"
    /\ \/ /\ defined' = defined \ {r}
          /\ nics' = nics \ NicsOf(r)
          /\ UNCHANGED faults
       \/ Fault /\ UNCHANGED vms
    /\ Goto(r, "back")
    /\ UNCHANGED <<nets, past, links, change, arriving, leaving, request, rows, target, start, blind>>

\* deallocateVmIps or deallocateByMac, whose failure is nobody's.
GiveBack(r) ==
    /\ pc[r] = "back"
    /\ \/ /\ rows' = rows \ (IF r \in Makers THEN NicsOf(r) ELSE {r})
          /\ UNCHANGED faults
       \/ Fault /\ UNCHANGED rows
    /\ IF \/ r \in rows' \cup nics \cup defined
          \/ r \in {target[w] : w \in Removers} \cup {vmOf[a] : a \in Attachers}
         THEN Answer(r, "failed") /\ UNCHANGED nic
         ELSE NoTrace(r)
    /\ UNCHANGED <<nets, past, links, change, leaving, vms, target, start, blind>>

RequestStep(r) ==
    Hold(r) \/ Look(r) \/ Alloc(r) \/ Define(r) \/ Meta(r) \/ Fail(r) \/ Undo(r) \/ GiveBack(r)

(***************************************************************************)
(* Taking a NIC or a VM away.                                              *)
(***************************************************************************)

Removed(w) == Goto(w, "idle") /\ target' = [target EXCEPT ![w] = Nothing]

Detach(w, x) ==
    /\ pc[w] = "idle"
    /\ nics' = nics \ {x}
    /\ target' = [target EXCEPT ![w] = x]
    /\ Goto(w, "forget")
    /\ UNCHANGED <<nets, past, links, change, arriving, leaving, request, rows, defined, start, faults,
                   blind>>

\* forgetNic frees the address the metadata has for this NIC, if it still has it:
\* an attach or a detach that overlapped may have written over it.
Forget(w) ==
    /\ pc[w] = "forget"
    /\ rows' \in {rows, rows \ {target[w]}}
    /\ Removed(w)
    /\ UNCHANGED <<nets, past, links, change, arriving, leaving, request, vms, start, faults, blind>>

\* deleteVm; libvirt refuses it, and nothing happens, for a VM it does not know.
Undefine(w, v) ==
    /\ pc[w] = "idle"
    /\ defined' = defined \ {v}
    /\ nics' = nics \ NicsOf(v)
    /\ target' = [target EXCEPT ![w] = v]
    /\ Goto(w, "free")
    /\ UNCHANGED <<nets, past, links, change, arriving, leaving, request, rows, start, faults, blind>>

Free(w) ==
    /\ pc[w] = "free"
    /\ rows' = rows \ NicsOf(target[w])
    /\ Removed(w)
    /\ UNCHANGED <<nets, past, links, change, arriving, leaving, request, vms, start, faults, blind>>

RemoveFail(w) ==
    /\ pc[w] # "idle"
    /\ Fault
    /\ Removed(w)
    /\ UNCHANGED <<nets, past, links, change, arriving, leaving, request, rows, vms, start, blind>>

RemoveStep(w) == Forget(w) \/ Free(w) \/ RemoveFail(w)

(***************************************************************************)
(* Restarts, and the check of the rows that follows one.                   *)
(***************************************************************************)

Answered == {"done", "failed", "cut"}

Restart ==
    /\ Fault
    /\ pc' = [r \in DOMAIN pc |->
                 IF r \in Removers \/ pc[r] = "idle" THEN "idle"
                 ELSE IF pc[r] \in Answered THEN pc[r] ELSE "cut"]
    /\ target' = [w \in Removers |-> Nothing]
    /\ arriving' = {}
    /\ Over
    /\ before' = rows
    /\ boot' = "read"
    /\ missing' = {}
    /\ derived' = [r \in Macs |-> FALSE]
    /\ UNCHANGED <<nets, past, links, nic, rows, vms, blind>>

\* Seeded fault: a VM libvirt could not be asked about is taken for missing.
BootReadUnsure ==
    /\ boot = "read"
    /\ missing' \in SUBSET {vmOf[x] : x \in before \cap rows}
    /\ boot' = "drop"
    /\ UNCHANGED <<nets, past, links, change, arriving, leaving, pc, request, rows, before, vms, target,
                   faults, blind>>

\* dropAllocationsOfMissingVms: the VMs libvirt says it does not have.
BootRead ==
    /\ boot = "read"
    /\ missing' \in SUBSET {vmOf[x] : x \in {y \in before \cap rows : vmOf[y] \notin defined}}
    /\ boot' = "drop"
    /\ UNCHANGED <<nets, past, links, change, arriving, leaving, pc, request, rows, before, vms, target,
                   faults, blind>>

BootDrop ==
    /\ boot = "drop"
    /\ \/ /\ rows' = {x \in rows : ~(vmOf[x] \in missing /\ x \in before)}
          /\ UNCHANGED faults
       \/ Fault /\ UNCHANGED rows
    /\ boot' = "over"
    /\ before' = {} /\ missing' = {}
    /\ UNCHANGED <<nets, past, links, change, arriving, leaving, pc, request, vms, target, blind>>

Next ==
    \/ \E i \in Ids, own \in BOOLEAN : CreateRead(i, own)
    \/ \E n \in nets : DeleteRead(n)
    \/ ChangeStep
    \/ \E r \in Makers, n \in past, copy \in BOOLEAN : AskVm(r, n, copy)
    \/ \E r \in Attachers, n \in past, v \in Makers : AskNic(r, n, v)
    \/ \E r \in Macs : RequestStep(r)
    \/ \E w \in Removers : \/ \E x \in nics : Detach(w, x)
                           \/ \E v \in defined : Undefine(w, v)
                           \/ RemoveStep(w)
    \/ Restart \/ BootRead \/ BootDrop

Spec == Init /\ [][Next]_vars

\* The calls a change makes are answered; a request that a delete kept waiting
\* goes on before the next delete can be marked, which takes reading a file.
FairSpec == Spec /\ WF_vars(ChangeStep) /\ \A r \in Macs : SF_vars(Hold(r))

(***************************************************************************)
(* Properties.                                                             *)
(***************************************************************************)

RequestPC == {"idle", "hold", "look", "alloc", "define", "meta", "undo", "back"} \cup Answered
RemovePC == {"idle", "forget", "free"}

\* Every variable has its type.
TypeOK ==
    /\ nets \subseteq past /\ past \subseteq Networks
    /\ links \subseteq Indices
    /\ qpc \in {"idle", "link", "record", "check", "list", "drop", "unlink", "erase"}
    /\ snap \subseteq Networks /\ cur \subseteq Networks /\ leaving \subseteq Networks
    /\ arriving \subseteq Macs
    /\ \A r \in Macs : pc[r] \in RequestPC
    /\ \A w \in Removers : pc[w] \in RemovePC
    /\ want \in [Macs -> past \cup {Nothing}]
    /\ derived \in [Macs -> BOOLEAN] /\ live \in [Macs -> BOOLEAN]
    /\ vmOf \in [Macs -> Makers \cup {Nothing}]
    /\ ip \in [Macs -> Ips \cup {Nothing}]
    /\ rows \subseteq Macs /\ before \subseteq Macs
    /\ defined \subseteq Makers /\ nics \subseteq Macs
    /\ target \in [Removers -> Macs \cup {Nothing}]
    /\ boot \in {"read", "drop", "over"} /\ missing \subseteq Makers
    /\ faults \in 0 .. MaxFaults /\ blind \in BOOLEAN

\* A VM's NIC is on the network it was put on when that was looked up, however long
\* making the VM took and whoever deletes networks meanwhile: what arriving and
\* leaving are for.  OS bridges stay when their record goes.
OnNetwork ==
    ~blind => \A x \in nics : live[x] /\ Managed(want[x]) => want[x] \in nets

\* An address from a pool stays the NIC's own for as long as it is on a VM, if
\* making the VM and adding the NIC were answered with success or cut short by a
\* restart: through deletes of other VMs and of networks, requests that fail, and the
\* check after a start.  So no two such NICs have one address.
Reserved ==
    \A x \in nics :
        /\ ip[x] # Nothing
        /\ pc[x] \in {"done", "cut"} /\ pc[vmOf[x]] \in {"done", "cut"}
        => x \in rows

\* Rows are unique: an address of a network is one NIC's, whatever overlaps.
OneHolder ==
    \A x, y \in rows : x # y => want[x].id # want[y].id \/ ip[x] # ip[y]

\* A request that waits for a delete goes on: a delete that is refused or fails lets
\* go of its mark too.
HoldsEnd == \A r \in Macs : pc[r] = "hold" ~> pc[r] # "hold"

=============================================================================
