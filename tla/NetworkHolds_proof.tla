------------------------- MODULE NetworkHolds_proof -------------------------
(***************************************************************************)
(* For any number of requests, networks and faults: the holds keep a VM on *)
(* its network (OnNetwork), no two NICs share an address (OneHolder), an   *)
(* address stays its NIC's (Reserved), and every variable has its type.    *)
(*                                                                         *)
(* OnNetwork: whoever is past its hold is in arriving, and a delete     *)
(* past its check has nobody in arriving that wants the network it is for, *)
(* because the check looked at those before the mark and the mark stops    *)
(* those after it.  So nothing more can be put on the network, and past    *)
(* the list of VMs nothing is on it.  The record it is then erased from    *)
(* is the one it has read, as no other change ran meanwhile.               *)
(***************************************************************************)
EXTENDS NetworkHolds, FiniteSetTheorems, WellFoundedInduction, TLAPS

\* Past its hold and not answered yet.
Held == {"look", "alloc", "define", "meta", "undo", "back"}
\* A delete from its mark on, from its check of arriving on, from its list of VMs on.
Deleting == {"check", "list", "drop", "unlink", "erase"}
Checked == {"list", "drop", "unlink", "erase"}
Listed == {"drop", "unlink", "erase"}

\* What an update of one request's entry needs to know.
Shape ==
    /\ DOMAIN pc = Macs \cup Removers
    /\ DOMAIN want = Macs /\ DOMAIN derived = Macs /\ DOMAIN live = Macs
    /\ arriving \subseteq Macs /\ nics \subseteq Macs

\* A NIC that is not on yet is on no VM, and those who hold are in arriving.
Requests ==
    \A r \in Macs :
        /\ pc[r] \in {"idle", "hold", "look", "alloc", "define"} => r \notin nics
        /\ r \in arriving <=> pc[r] \in Held

\* A change writes back what is there, unless it could not read it.
ReadIsCurrent == qpc # "idle" => blind \/ snap = nets

\* A delete is for one network, and has marked it.
Marked == qpc \in Deleting => \E n \in cur : cur = {n} /\ leaving = {n}

\* Nobody is on the way onto what a delete that has checked is for,
NoneComing ==
    qpc \in Checked => \A n \in cur : Managed(n) => \A r \in arriving : want[r] # n

\* and nobody is on it once the VMs have been listed.
NoneOn ==
    qpc \in Listed => \A n \in cur : Managed(n) => \A x \in nics : want[x] # n

\* OnNetwork, and the same of those about to be on it.
StillThere ==
    ~blind => \A x \in Macs :
        /\ x \in nics \/ pc[x] \in {"alloc", "define", "meta"}
        /\ live[x] /\ Managed(want[x])
        => want[x] \in nets

IInv == Shape /\ Requests /\ ReadIsCurrent /\ Marked /\ NoneComing /\ NoneOn /\ StillThere

\* What IInv is about.
seen == <<nets, qpc, snap, cur, arriving, leaving, pc, want, derived, live, nics, blind>>

\* At the start nobody is on a network.
LEMMA InitOK == Init => IInv
  BY DEF Init, IInv, Shape, Requests, ReadIsCurrent, Marked, NoneComing, NoneOn, StillThere,
         Held, Deleting, Checked, Listed, Macs

\* IInv is about the variables of seen only.
LEMMA Stutter == IInv /\ UNCHANGED seen => IInv'
  BY DEF IInv, Shape, Requests, ReadIsCurrent, Marked, NoneComing, NoneOn, StillThere,
         Held, Deleting, Checked, Listed, seen, Managed

\* A change of networks leaves the requests and VMs alone.
LEMMA ChangeOK == ASSUME IInv, ChangeStep \/ (\E n \in nets : DeleteRead(n))
                              \/ (\E i \in Ids, own \in BOOLEAN : CreateRead(i, own))
                  PROVE  IInv'
  <1> USE DEF Held, Deleting, Checked, Listed, Managed
  <1>1. Shape' /\ Requests'
    BY DEF IInv, Shape, Requests, ChangeStep, DeleteRead, CreateRead, CreateLink, CreateRecord,
           CreateFail, DeleteCheck, DeleteList, DeleteDrop, DeleteUnlink, DeleteErase, DeleteFail,
           Refuse, QGoto, nic, request, vms
  <1>2. /\ ReadIsCurrent' /\ Marked' /\ NoneComing' /\ NoneOn' /\ StillThere'
    <2> USE DEF IInv, nic, request, vms, ReadIsCurrent, Marked, NoneComing, NoneOn, StillThere
    <2>1. CASE \E n \in nets : DeleteRead(n)
      BY <2>1 DEF DeleteRead
    <2>2. CASE \E i \in Ids, own \in BOOLEAN : CreateRead(i, own)
      BY <2>2 DEF CreateRead, Fault
    <2>3. CASE CreateLink
      BY <2>3 DEF CreateLink, Refuse, Over
    <2>4. CASE CreateRecord
      BY <2>4 DEF CreateRecord, Over
    <2>5. CASE CreateFail
      BY <2>5 DEF CreateFail, Over
    <2>6. CASE DeleteCheck
      <3>1. PICK n \in cur : cur = {n} /\ leaving = {n}
        BY <2>6 DEF DeleteCheck
      <3>2. CASE Refuse
        BY <2>6, <3>2 DEF Refuse, Over
      <3>3. CASE QGoto("list") /\ ~ \E r \in arriving : Key(r) \in NamesOf(n)
        <4>1. \A r \in arriving : want[r] # n
          BY <3>3 DEF Key, Named, NamesOf
        <4> QED
          BY <2>6, <3>1, <3>3, <4>1 DEF DeleteCheck, QGoto
      <3>4. CASE QGoto("unlink") /\ ~Managed(n)
        BY <2>6, <3>1, <3>4 DEF DeleteCheck, QGoto
      <3> QED
        BY <2>6, <3>1, <3>2, <3>3, <3>4 DEF DeleteCheck
    <2>7. CASE DeleteList
      <3>1. CASE Refuse
        BY <2>7, <3>1 DEF Refuse, Over
      <3>2. CASE QGoto("drop") /\ \A n \in cur, x \in nics : want[x] # n
        BY <2>7, <3>2 DEF DeleteList, QGoto
      <3> QED
        BY <2>7, <3>1, <3>2 DEF DeleteList
    <2>8. CASE DeleteDrop
      BY <2>8 DEF DeleteDrop, Over
    <2>9. CASE DeleteUnlink
      BY <2>9 DEF DeleteUnlink
    <2>10. CASE DeleteErase
      <3>1. PICK n \in cur : cur = {n}
        BY <2>10 DEF DeleteErase
      <3>2. ~blind => nets' = nets \ {n}
        BY <2>10, <3>1 DEF DeleteErase
      <3>3. ASSUME NEW x \in Macs, x \in nics \/ pc[x] \in {"alloc", "define", "meta"}, Managed(n)
            PROVE  want[x] # n
        BY <2>10, <3>1, <3>3 DEF DeleteErase, Requests
      <3>4. StillThere'
        BY <2>10, <3>2, <3>3 DEF DeleteErase
      <3> QED
        BY <2>10, <3>4 DEF DeleteErase, Over
    <2>11. CASE DeleteFail
      BY <2>11 DEF DeleteFail, Refuse, Over
    <2> QED
      BY <2>1, <2>2, <2>3, <2>4, <2>5, <2>6, <2>7, <2>8, <2>9, <2>10, <2>11 DEF ChangeStep
  <1> QED
    BY <1>1, <1>2 DEF IInv

\* A request: who holds is known, and no NIC goes onto a network that is leaving.
LEMMA RequestOK == ASSUME IInv, NEW r \in Macs,
                          \/ RequestStep(r)
                          \/ \E n \in past, copy \in BOOLEAN : AskVm(r, n, copy)
                          \/ \E n \in past, v \in Makers : AskNic(r, n, v)
                   PROVE  IInv'
  <1> USE DEF Held, Deleting, Checked, Listed, Managed, Goto, change, vms, nic, request
  <1> USE DEF IInv, Shape, Requests, ReadIsCurrent, Marked, NoneComing, NoneOn, StillThere
  <1>0. r \in DOMAIN pc /\ r \in DOMAIN want /\ r \in DOMAIN live
    OBVIOUS
  <1>1. ASSUME NEW n \in past, NEW copy \in BOOLEAN, AskVm(r, n, copy)
        PROVE  IInv'
    <2>1. \A m \in leaving : ~Leaving(Named(n, copy)) => n # m
      BY DEF Leaving, Named, NamesOf
    <2> QED
      BY <1>0, <1>1, <2>1 DEF AskVm, Enter
  <1>2. ASSUME NEW n \in past, NEW v \in Makers, AskNic(r, n, v)
        PROVE  IInv'
    <2>1. \A m \in leaving : ~Leaving(n.id) => n # m
      BY DEF Leaving, NamesOf
    <2> QED
      BY <1>0, <1>2, <2>1 DEF AskNic, Enter
  <1>3. CASE Hold(r)
    <2>1. \A m \in leaving : want[r] # m
      BY <1>3 DEF Hold, Key, Leaving, Named, NamesOf
    <2> QED
      BY <1>0, <1>3, <2>1 DEF Hold
  <1>4. CASE Look(r)
    <2>1. /\ pc[r] = "look"
          /\ UNCHANGED <<nets, leaving, qpc, snap, cur, nics, blind>>
      BY <1>4 DEF Look
    <2>2. CASE want[r] \in nets \/ derived[r]
      <3>1. PICK a \in {"define", "alloc"} :
                /\ a = "alloc" => want[r] \in nets
                /\ pc' = [pc EXCEPT ![r] = a]
                /\ live' = [live EXCEPT ![r] = want[r] \in nets]
                /\ UNCHANGED <<arriving, want, derived>>
        BY <1>4, <2>2 DEF Look
      <3> QED
        BY <1>0, <2>1, <2>2, <3>1
    <2>3. CASE ~(want[r] \in nets \/ derived[r])
      <3>1. NoTrace(r)
        BY <1>4, <2>3 DEF Look
      <3>2. /\ pc' = [pc EXCEPT ![r] = "idle"] /\ arriving' = arriving \ {r}
            /\ derived' = [derived EXCEPT ![r] = FALSE] /\ want' = [want EXCEPT ![r] = Nothing]
            /\ live' = [live EXCEPT ![r] = FALSE]
        BY <3>1 DEF NoTrace, Answer
      <3> QED
        BY <1>0, <2>1, <3>2
    <2> QED
      BY <2>2, <2>3
  <1>5. CASE Alloc(r)
    BY <1>0, <1>5 DEF Alloc, Back
  <1>6. CASE Define(r)
    BY <1>0, <1>6 DEF Define
  <1>7. CASE Meta(r)
    BY <1>0, <1>7 DEF Meta, Answer
  <1>8. CASE Fail(r)
    BY <1>0, <1>8 DEF Fail, Answer, Back
  <1>9. CASE Undo(r)
    BY <1>0, <1>9 DEF Undo
  <1>10. CASE GiveBack(r)
    BY <1>0, <1>10 DEF GiveBack, NoTrace, Answer
  <1> QED
    BY <1>1, <1>2, <1>3, <1>4, <1>5, <1>6, <1>7, <1>8, <1>9, <1>10 DEF RequestStep

\* NICs only go.
LEMMA RemoveOK == ASSUME IInv, NEW w \in Removers,
                         \/ RemoveStep(w)
                         \/ \E x \in nics : Detach(w, x)
                         \/ \E v \in defined : Undefine(w, v)
                  PROVE  IInv'
  <1>1. /\ nics' \subseteq nics
        /\ DOMAIN pc' = DOMAIN pc /\ \A r \in Macs : pc'[r] = pc[r]
        /\ UNCHANGED <<nets, qpc, snap, cur, arriving, leaving, want, derived, live, blind>>
    BY NetworkAssumption DEF IInv, Shape, Macs, RemoveStep, Forget, Free, RemoveFail, Detach,
       Undefine, Removed, Goto, change, request, nic, vms
  <1> QED
    BY <1>1 DEF IInv, Shape, Requests, ReadIsCurrent, Marked, NoneComing, NoneOn, StillThere,
                Held, Deleting, Checked, Listed, Managed

\* A restart ends requests and changes alike.
LEMMA RestartOK == IInv /\ Restart => IInv'
  BY NetworkAssumption DEF IInv, Shape, Requests, ReadIsCurrent, Marked, NoneComing, NoneOn, StillThere,
     Held, Deleting, Checked, Listed, Managed, Macs, Restart, Answered, Over, nic, vms

\* The check of the rows touches nothing of this.
LEMMA BootOK == IInv /\ (BootRead \/ BootDrop) => IInv'
  BY Stutter DEF BootRead, BootDrop, seen, change, vms, nic, request

\* Every step keeps IInv.
LEMMA NextOK == IInv /\ [Next]_vars => IInv'
  <1> SUFFICES ASSUME IInv, [Next]_vars PROVE IInv'
    OBVIOUS
  <1>1. CASE UNCHANGED vars
    BY <1>1, Stutter DEF vars, seen
  <1>2. CASE Next
    BY <1>2, ChangeOK, RequestOK, RemoveOK, RestartOK, BootOK DEF Next, Macs
  <1> QED
    BY <1>1, <1>2

\* So it holds throughout.
LEMMA Inductive == Spec => []IInv
  BY InitOK, NextOK, PTL DEF Spec

\* A VM's NIC stays on the network it was put on, whatever is made, deleted, derived,
\* attached, fails or restarts meanwhile: OnNetwork, of any number of each.
THEOREM StaysOnItsNetwork == Spec => []OnNetwork
  <1>1. IInv => OnNetwork
    BY DEF IInv, Shape, StillThere, OnNetwork
  <1> QED
    BY <1>1, Inductive, PTL

(***************************************************************************)
(* OneHolder: a row is only added for a NIC that has none, in one step     *)
(* with the look at the others, and what the rows say of a NIC is settled  *)
(* before it gets one and stays as long as it has it.                      *)
(***************************************************************************)

RowsInv ==
    /\ DOMAIN pc = Macs \cup Removers /\ DOMAIN want = Macs /\ DOMAIN ip = Macs
    /\ rows \subseteq Macs
    /\ \A r \in Macs : pc[r] \in {"idle", "hold", "look", "alloc"} => r \notin rows
    /\ OneHolder

\* A step that adds no row, and changes nothing of a NIC that has one.
LEMMA NoNewRow ==
    ASSUME RowsInv, rows' \subseteq rows,
           DOMAIN pc' = DOMAIN pc, DOMAIN want' = DOMAIN want, DOMAIN ip' = DOMAIN ip,
           \A r \in rows' : want'[r] = want[r] /\ ip'[r] = ip[r],
           \A r \in Macs : pc'[r] \in {"idle", "hold", "look", "alloc"}
                               => pc[r] \in {"idle", "hold", "look", "alloc"} \/ r \notin rows'
    PROVE  RowsInv'
  BY DEF RowsInv, OneHolder

\* The one step that adds a row looks first.
LEMMA RequestRows == ASSUME RowsInv, NEW r \in Macs,
                            \/ RequestStep(r)
                            \/ \E n \in past, copy \in BOOLEAN : AskVm(r, n, copy)
                            \/ \E n \in past, v \in Makers : AskNic(r, n, v)
                     PROVE  RowsInv'
  <1>0. r \in DOMAIN pc /\ r \in DOMAIN want /\ r \in DOMAIN ip
    BY DEF RowsInv
  <1>1. CASE Alloc(r)
    BY <1>0, <1>1 DEF Alloc, Back, Goto, RowsInv, OneHolder
  <1>2. CASE GiveBack(r)
    BY <1>0, <1>2, NoNewRow DEF GiveBack, NoTrace, Answer, Goto, nic, RowsInv
  <1>3. CASE Look(r)
    BY <1>0, <1>3, NoNewRow DEF Look, NoTrace, Answer, Goto, RowsInv
  <1>4. CASE Define(r) \/ Meta(r) \/ Fail(r) \/ Undo(r) \/ Hold(r)
    BY <1>0, <1>4, NoNewRow DEF Define, Meta, Fail, Undo, Hold, Answer, Back, Goto, nic, request,
       RowsInv
  <1>5. CASE \/ \E n \in past, copy \in BOOLEAN : AskVm(r, n, copy)
             \/ \E n \in past, v \in Makers : AskNic(r, n, v)
    BY <1>0, <1>5, NoNewRow DEF AskVm, AskNic, Enter, Goto, RowsInv
  <1> QED
    BY <1>1, <1>2, <1>3, <1>4, <1>5 DEF RequestStep

\* Who takes NICs and VMs away takes rows away.
LEMMA RemoveRows == ASSUME RowsInv, NEW w \in Removers,
                           \/ RemoveStep(w)
                           \/ \E x \in nics : Detach(w, x)
                           \/ \E v \in defined : Undefine(w, v)
                    PROVE  RowsInv'
  <1>1. /\ rows' \subseteq rows /\ UNCHANGED <<want, ip>>
        /\ DOMAIN pc' = DOMAIN pc /\ \A r \in Macs : pc'[r] = pc[r]
    BY NetworkAssumption DEF RemoveStep, Forget, Free, RemoveFail, Detach, Undefine, Removed, Goto,
       request, nic, RowsInv, Macs
  <1> QED
    BY <1>1, NoNewRow DEF RowsInv

\* So does a change of networks, if anything.
LEMMA ChangeRows == ASSUME RowsInv, ChangeStep \/ (\E n \in nets : DeleteRead(n))
                                 \/ (\E i \in Ids, own \in BOOLEAN : CreateRead(i, own))
                    PROVE  RowsInv'
  BY NoNewRow DEF DeleteRead, CreateRead, ChangeStep, CreateLink, CreateRecord, CreateFail, DeleteCheck,
     DeleteList, DeleteDrop, DeleteUnlink, DeleteErase, DeleteFail, Refuse, QGoto, request, nic

\* And so does the check after a start.
LEMMA RestartRows == RowsInv /\ (Restart \/ BootRead \/ BootDrop) => RowsInv'
  BY NoNewRow, NetworkAssumption DEF Restart, BootRead, BootDrop, Answered, request, nic, RowsInv, Macs

\* So it holds throughout.
LEMMA RowsInductive == Spec => []RowsInv
  <1>1. Init => RowsInv
    BY DEF Init, RowsInv, OneHolder, Macs
  <1>2. RowsInv /\ [Next]_vars => RowsInv'
    <2> SUFFICES ASSUME RowsInv, [Next]_vars PROVE RowsInv'
      OBVIOUS
    <2>1. CASE UNCHANGED vars
      BY <2>1, NoNewRow DEF vars
    <2>2. CASE Next
      BY <2>2, RequestRows, RemoveRows, ChangeRows, RestartRows DEF Next, Macs
    <2> QED
      BY <2>1, <2>2
  <1> QED
    BY <1>1, <1>2, PTL DEF Spec

\* No two NICs have one address of a network, of any number of requests: OneHolder.
THEOREM AddressesAreUnique == Spec => []OneHolder
  <1>1. RowsInv => OneHolder
    BY DEF RowsInv
  <1> QED
    BY <1>1, RowsInductive, PTL

(***************************************************************************)
(* Reserved.  Three things take a row away from a NIC that is on a VM: the *)
(* roll back of its own request or of its VM's, which leaves that failed;  *)
(* the check after a start, of rows whose VM libvirt does not know; and    *)
(* the deletion of a network nobody is on.  So the invariant says which    *)
(* VMs can still come to be defined, and which NICs to be on one: those of *)
(* requests before their definition, that nothing else refers to yet.      *)
(***************************************************************************)

\* Requests that have no address yet.
Early == {"idle", "hold", "look", "alloc"}
\* Requests that may still define their VM, or put their NIC on it.
Before == Early \cup {"define"}


\* What an update of one entry needs to know.
Domains ==
    /\ DOMAIN pc = Macs \cup Removers /\ DOMAIN want = Macs /\ DOMAIN vmOf = Macs
    /\ DOMAIN ip = Macs /\ DOMAIN target = Removers

\* No two networks have had one ID, so a row tells which network it is of.
UniqueIds ==
    /\ nets \subseteq past /\ snap \subseteq past
    /\ \A m, n \in past : m.id = n.id => m = n
    /\ qpc \in {"link", "record"} => \E n \in cur : cur = {n} /\ \A m \in past : m.id # n.id
    /\ qpc \in Deleting => cur \subseteq past
    /\ qpc \in {"list", "drop"} => \A n \in cur : Managed(n)

\* What a request asked for.  The VM a NIC is for is past its definition.
Asked ==
    \A r \in Macs :
        /\ pc[r] # "idle" => want[r] \in past
        /\ pc[r] \in Early => ip[r] = Nothing
        /\ r \in Makers => vmOf[r] = r
        /\ r \in Attachers /\ pc[r] = "idle" => vmOf[r] = Nothing
        /\ r \in Attachers /\ pc[r] # "idle" => vmOf[r] \in Makers /\ pc[vmOf[r]] \notin Before

\* What is on the host is past its definition.
OnVms == /\ \A v \in defined : v \in Makers /\ pc[v] \notin Before
         /\ \A x \in nics : x \in Macs /\ vmOf[x] \in defined /\ pc[x] \notin Before

\* What is being taken away is gone, and its request over.
Targets ==
    \A w \in Removers :
        /\ pc[w] = "forget" => target[w] \in Macs \ nics /\ pc[target[w]] \notin Before
        /\ pc[w] = "free" => target[w] \in Makers \ defined /\ pc[target[w]] \notin Before

\* Rows from before the start are of requests that were over by then.
Swept ==
    \A x \in before :
        /\ x \in Macs /\ pc[x] \in Answered
        /\ vmOf[x] \in missing => vmOf[x] \notin defined

\* Reserved, and the same of those about to be on a VM.
RowKept ==
    \A x \in Macs :
        /\ x \in nics \/ (pc[x] = "define" /\ (x \in Makers \/ vmOf[x] \in defined))
        /\ ip[x] # Nothing /\ pc[x] # "failed" /\ pc[vmOf[x]] # "failed"
        => x \in rows

RInv == Domains /\ UniqueIds /\ Asked /\ OnVms /\ Targets /\ Swept /\ RowKept

\* A change of networks is not seen by the requests, except for the rows it drops.
LEMMA SameRequests ==
    ASSUME RInv, UniqueIds', RowKept', past \subseteq past',
           UNCHANGED <<pc, want, vmOf, ip, defined, nics, target, before, missing>>
    PROVE  RInv'
  BY DEF RInv, Domains, Asked, OnVms, Targets, Swept

\* A delete past its list of VMs drops no row of a NIC that is on, or comes.
LEMMA ChangeKeepsRows ==
    ASSUME RInv, IInv, ChangeStep \/ (\E n \in nets : DeleteRead(n))
                         \/ (\E i \in Ids, own \in BOOLEAN : CreateRead(i, own))
    PROVE  RInv'
  <1> USE DEF Deleting, Managed
  <1>1. /\ past \subseteq past'
        /\ UNCHANGED <<pc, want, vmOf, ip, defined, nics, target, before, missing>>
    BY DEF ChangeStep, DeleteRead, CreateRead, CreateLink, CreateRecord,
           CreateFail, DeleteCheck, DeleteList, DeleteDrop, DeleteUnlink, DeleteErase, DeleteFail,
           Refuse, QGoto, nic, request, vms, start
  <1>2. RowKept'
    <2>1. CASE DeleteDrop
      <3>1. PICK n \in cur : rows \ RowsOn(n) \subseteq rows'
        BY <2>1 DEF DeleteDrop
      <3>2. n \in past /\ Managed(n) /\ qpc = "drop"
        BY <2>1 DEF DeleteDrop, RInv, UniqueIds
      <3>3. ASSUME NEW x \in Macs, x \in nics \/ pc[x] = "define" PROVE x \notin RowsOn(n)
        <4>1. want[x] \in past /\ want[x] # n
          BY <3>2, <3>3 DEF RInv, Asked, OnVms, Before, Early, IInv, NoneOn, Listed, Requests, NoneComing, Checked, Held
        <4> QED
          BY <3>2, <4>1 DEF RInv, UniqueIds, RowsOn
      <3> QED
        BY <1>1, <3>1, <3>3 DEF RInv, RowKept
    <2>2. CASE rows' = rows
      BY <1>1, <2>2 DEF RInv, RowKept
    <2> QED
      BY <2>1, <2>2 DEF ChangeStep, DeleteRead, CreateRead, CreateLink, CreateRecord,
           CreateFail, DeleteCheck, DeleteList, DeleteUnlink, DeleteErase, DeleteFail, Refuse, QGoto
  <1>3. UniqueIds'
    <2> USE DEF RInv, UniqueIds, Over, Refuse
    <2>1. CASE \E n \in nets : DeleteRead(n)
      BY <2>1 DEF DeleteRead
    <2>2. ASSUME NEW i \in Ids, NEW own \in BOOLEAN, CreateRead(i, own) PROVE UniqueIds'
      BY <2>2 DEF CreateRead
    <2>3. CASE CreateLink
      BY <2>3 DEF CreateLink
    <2>4. CASE CreateRecord
      BY <2>4 DEF CreateRecord
    <2>5. CASE CreateFail
      BY <2>5 DEF CreateFail
    <2>6. CASE DeleteCheck
      <3>1. PICK n \in cur : cur = {n}
        BY <2>6 DEF DeleteCheck, IInv, Marked
      <3> QED
        BY <2>6, <3>1 DEF DeleteCheck, QGoto
    <2>7. CASE DeleteList \/ DeleteDrop
      BY <2>7 DEF DeleteList, QGoto, DeleteDrop
    <2>9. CASE DeleteUnlink
      BY <2>9 DEF DeleteUnlink
    <2>10. CASE DeleteErase
      BY <2>10 DEF DeleteErase
    <2>11. CASE DeleteFail
      BY <2>11 DEF DeleteFail
    <2> QED
      BY <2>1, <2>2, <2>3, <2>4, <2>5, <2>6, <2>7, <2>9, <2>10, <2>11 DEF ChangeStep
  <1> QED
    BY <1>1, <1>2, <1>3, SameRequests

\* What a request changes, the rest of the rows and VMs as they were.
LEMMA AskKeepsRows ==
    ASSUME RInv, NEW r \in Macs,
           \/ r \in Makers /\ \E n \in past, copy \in BOOLEAN : AskVm(r, n, copy)
           \/ r \in Attachers /\ \E n \in past, v \in Makers : AskNic(r, n, v)
           \/ Hold(r)
    PROVE  RInv'
  <1> USE NetworkAssumption DEF RInv, Macs, change, vms, start, request, nic, Early, Before, Domains
  <1>1. /\ pc'[r] \in {"hold", "look"} /\ pc[r] \in {"idle", "hold"} /\ ip' = ip
        /\ \A q \in (Macs \cup Removers) \ {r} : pc'[q] = pc[q]
        /\ \A q \in Macs \ {r} : vmOf'[q] = vmOf[q] /\ want'[q] = want[q]
        /\ want'[r] \in past
        /\ UNCHANGED <<rows, defined, nics, target, before, missing, past, nets, snap, cur, qpc>>
    BY DEF AskVm, AskNic, Hold, Enter, Goto, Asked
  <1>2. Domains'
    BY DEF AskVm, AskNic, Hold, Enter, Goto
  <1>3. \/ vmOf'[r] = vmOf[r] /\ (r \in Makers \/ pc[r] = "hold")
        \/ r \in Attachers /\ vmOf'[r] \in defined
    BY DEF AskVm, AskNic, Hold, Enter, Goto
  <1>4. UniqueIds'
    BY <1>1 DEF UniqueIds, Deleting, Managed
  <1>5. OnVms' /\ Targets'
    BY <1>1 DEF OnVms, Targets
  <1>6. Swept'
    BY <1>1 DEF Swept, Answered
  <1>7. Asked'
    BY <1>1, <1>3, <1>5 DEF Asked, OnVms
  <1>8. RowKept'
    BY <1>1, <1>7 DEF RowKept, OnVms, Asked
  <1> QED
    BY <1>2, <1>4, <1>5, <1>6, <1>7, <1>8

\* A request that goes on with what it asked for and where.
LEMMA GoesOn ==
    ASSUME RInv, NEW r \in Macs, NEW a, Goto(r, a), pc[r] # "idle", a # "idle",
           a \in Early => pc[r] \in Early, a \in Before => pc[r] \in Before,
           pc[r] \notin Answered,
           UNCHANGED <<nets, past, qpc, snap, cur, want, vmOf, target, before, missing>>,
           DOMAIN ip' = Macs, \A q \in Macs \ {r} : ip'[q] = ip[q],
           ip'[r] = ip[r] \/ a \notin Early,
           OnVms', \A w \in Removers : pc[w] = "forget" => target[w] \notin nics' \ nics,
           defined' \subseteq defined \/ (r \in Makers /\ pc[r] \in Before /\ defined' \subseteq defined \cup {r}),
           RowKept'
    PROVE  RInv'
  <1> USE NetworkAssumption DEF RInv, Macs, Early, Before, Domains
  <1>1. /\ pc'[r] = a /\ \A q \in (Macs \cup Removers) \ {r} : pc'[q] = pc[q]
        /\ DOMAIN pc' = Macs \cup Removers
    BY DEF Goto
  <1>2. Domains'
    BY <1>1
  <1>4. UniqueIds'
    BY <1>1 DEF UniqueIds, Deleting, Managed
  <1>5. Targets'
    BY <1>1 DEF Targets
  <1>6. Swept'
    BY <1>1 DEF Swept, Answered, Asked
  <1>7. Asked'
    BY <1>1 DEF Asked
  <1> QED
    BY <1>2, <1>4, <1>5, <1>6, <1>7

\* The request r is at a, the others where they were.
LEMMA StepGoes ==
    ASSUME RInv, NEW r \in Macs, NEW a, Goto(r, a)
    PROVE  pc'[r] = a /\ \A q \in (Macs \cup Removers) \ {r} : pc'[q] = pc[q]
  BY DEF RInv, Domains, Goto

\* A request that leaves no trace, and nobody has a use for.
LEMMA LeavesNone ==
    ASSUME RInv, NEW r \in Macs, NoTrace(r), r \notin nics, r \notin defined, pc[r] \notin Answered,
           \A w \in Removers : pc[w] \in {"forget", "free"} => target[w] # r,
           \A q \in Attachers : vmOf[q] # r,
           rows \ {r} \subseteq rows',
           UNCHANGED <<nets, past, qpc, snap, cur, target, before, missing, nics, defined>>
    PROVE  RInv'
  <1> USE NetworkAssumption DEF RInv, Macs, Early, Before, Domains
  <1>1. /\ pc'[r] = "idle" /\ \A q \in (Macs \cup Removers) \ {r} : pc'[q] = pc[q]
        /\ DOMAIN pc' = Macs \cup Removers
        /\ ip'[r] = Nothing /\ vmOf'[r] = IF r \in Makers THEN r ELSE Nothing
        /\ \A q \in Macs \ {r} : vmOf'[q] = vmOf[q] /\ want'[q] = want[q] /\ ip'[q] = ip[q]
    BY DEF NoTrace, Answer, Goto
  <1>2. Domains'
    BY <1>1 DEF NoTrace
  <1>4. UniqueIds'
    BY <1>1 DEF UniqueIds, Deleting, Managed
  <1>5. Targets' /\ OnVms'
    BY <1>1 DEF Targets, OnVms
  <1>6. Swept'
    BY <1>1 DEF Swept, Answered, Asked
  <1>7. Asked'
    BY <1>1 DEF Asked
  <1>8. RowKept'
    BY <1>1, <1>5, <1>7 DEF RowKept, Asked, OnVms
  <1> QED
    BY <1>2, <1>4, <1>5, <1>6, <1>7, <1>8

\* Every step of a request.
LEMMA RequestKeepsRows ==
    ASSUME RInv, NEW r \in Macs, RequestStep(r)
    PROVE  RInv'
  <1> USE DEF change, vms, start, request, nic, Early, Before, Answered
  <1>1. CASE Hold(r)
    BY <1>1, AskKeepsRows
  <1>2. CASE Look(r)
    <2>1. CASE NoTrace(r)
      <3>1. r \notin nics /\ r \notin defined /\ pc[r] = "look"
        BY <1>2 DEF Look, RInv, OnVms
      <3>2. /\ \A w \in Removers : pc[w] \in {"forget", "free"} => target[w] # r
            /\ \A q \in Attachers : vmOf[q] # r
        BY <3>1, NetworkAssumption DEF RInv, Targets, Asked, Macs
      <3>3. UNCHANGED <<nets, past, qpc, snap, cur, target, before, missing, nics, defined, rows>>
        BY <1>2 DEF Look
      <3> QED
        BY <2>1, <3>1, <3>2, <3>3, LeavesNone
    <2>2. CASE ~NoTrace(r)
      <3>1. PICK a \in {"define", "alloc"} : Goto(r, a)
        BY <1>2, <2>2 DEF Look
      <3>2. OnVms' /\ RowKept'
        BY <1>2, <2>2, <3>1, StepGoes DEF Look, RInv, OnVms, RowKept, Macs, Asked
      <3> QED
        BY <1>2, <2>2, <3>1, <3>2, GoesOn DEF Look, RInv, Domains
    <2> QED
      BY <2>1, <2>2
  <1>3. CASE Alloc(r)
    <2>1. PICK a \in {"define", "undo", "back"} :
            /\ Goto(r, a)
            /\ a = "define" => r \in rows' /\ rows \subseteq rows'
            /\ a # "define" => rows' = rows /\ ip' = ip
      BY <1>3 DEF Alloc, Back
    <2>2. /\ DOMAIN ip' = Macs /\ \A q \in Macs \ {r} : ip'[q] = ip[q]
          /\ pc[r] = "alloc"
      BY <1>3 DEF Alloc, RInv, Domains
    <2>3. OnVms' /\ RowKept'
      BY <1>3, <2>1, <2>2, StepGoes DEF Alloc, RInv, OnVms, RowKept, Macs, Asked
    <2> QED
      BY <1>3, <2>1, <2>2, <2>3, GoesOn DEF Alloc
  <1>4. CASE Define(r)
    <2>1. pc[r] = "define" /\ r \notin nics /\ r \notin defined
      BY <1>4 DEF Define, RInv, OnVms
    <2>2. CASE UNCHANGED vms
      <3>1. Goto(r, "back") \/ Goto(r, "meta")
        BY <1>4 DEF Define
      <3>2. PICK a \in {"back", "meta"} : Goto(r, a)
        BY <3>1
      <3>3. OnVms' /\ RowKept'
        BY <1>4, <2>1, <2>2, <3>2, StepGoes DEF Define, RInv, OnVms, RowKept, Macs, Asked
      <3> QED
        BY <1>4, <2>1, <2>2, <3>2, <3>3, GoesOn DEF Define, RInv, Domains
    <2>3. CASE ~UNCHANGED vms
      <3>1. /\ Goto(r, "meta") /\ nics' = nics \cup {r} /\ defined' = defined \cup {vmOf[r]}
            /\ r \in Makers \/ vmOf[r] \in defined
        BY <1>4, <2>3 DEF Define
      <3>2. OnVms'
        BY <1>4, <2>1, <3>1, StepGoes DEF Define, RInv, OnVms, Macs, Asked
      <3>4. RowKept'
        BY <1>4, <2>1, <3>1, StepGoes DEF Define, RInv, RowKept, Macs, Asked
      <3>5. \A w \in Removers : pc[w] = "forget" => target[w] # r
        BY <2>1 DEF RInv, Targets
      <3> QED
        BY <1>4, <2>1, <3>1, <3>2, <3>4, <3>5, GoesOn, NetworkAssumption DEF Define, RInv, Domains, Asked, Macs
    <2> QED
      BY <2>2, <2>3
  <1>5. CASE Meta(r)
    <2>1. Goto(r, "done") /\ pc[r] = "meta"
      BY <1>5 DEF Meta, Answer
    <2>2. OnVms' /\ RowKept'
      BY <1>5, <2>1, StepGoes DEF Meta, RInv, OnVms, RowKept, Macs, Asked
    <2> QED
      BY <1>5, <2>1, <2>2, GoesOn DEF Meta, RInv, Domains
  <1>6. CASE Fail(r)
    <2>1. PICK a \in {"failed", "undo", "back"} : Goto(r, a)
      BY <1>6 DEF Fail, Answer, Back
    <2>2. OnVms' /\ RowKept'
      BY <1>6, <2>1, StepGoes DEF Fail, RInv, OnVms, RowKept, Macs, Asked
    <2> QED
      BY <1>6, <2>1, <2>2, GoesOn DEF Fail, RInv, Domains
  <1>7. CASE Undo(r)
    <2>1. Goto(r, "back") /\ pc[r] = "undo"
      BY <1>7 DEF Undo
    <2>2. OnVms' /\ RowKept' /\ nics' \subseteq nics /\ defined' \subseteq defined
      BY <1>7, <2>1, StepGoes DEF Undo, RInv, OnVms, RowKept, Macs, Asked, NicsOf
    <2> QED
      BY <1>7, <2>1, <2>2, GoesOn DEF Undo, RInv, Domains
  <1>8. CASE GiveBack(r)
    <2>0. pc[r] = "back" /\ UNCHANGED <<nets, past, qpc, snap, cur, target, before, missing, nics, defined>>
      BY <1>8 DEF GiveBack
    <2>1. CASE NoTrace(r)
      <3>1. CASE Goto(r, "failed")
        BY <2>1, <3>1, StepGoes DEF NoTrace, Answer
      <3>2. CASE ~Goto(r, "failed")
        <4>1. /\ r \notin nics /\ r \notin defined /\ pc[r] \notin Answered
              /\ \A w \in Removers : target[w] # r
              /\ \A q \in Attachers : vmOf[q] # r
          BY <1>8, <3>2 DEF GiveBack, Answer
        <4>2. rows \ {r} \subseteq rows'
          <5>1. NicsOf(r) \subseteq {r}
            BY <4>1 DEF NicsOf, Macs, RInv, Asked
          <5> QED
            BY <1>8, <5>1 DEF GiveBack
        <4> QED
          BY <2>0, <2>1, <4>1, <4>2, LeavesNone
      <3> QED
        BY <3>1, <3>2
    <2>2. CASE ~NoTrace(r)
      <3>1. Goto(r, "failed") /\ UNCHANGED nic
        BY <1>8, <2>2 DEF GiveBack, Answer
      <3>2. \A x \in Macs : x # r /\ vmOf[x] # r /\ x \in rows => x \in rows'
        BY <1>8 DEF GiveBack, NicsOf
      <3>3. OnVms' /\ RowKept'
        BY <2>0, <3>1, <3>2, StepGoes DEF RInv, OnVms, RowKept, Macs, Asked
      <3> QED
        BY <2>0, <3>1, <3>3, GoesOn DEF RInv, Domains
    <2> QED
      BY <2>1, <2>2
  <1> QED
    BY <1>1, <1>2, <1>3, <1>4, <1>5, <1>6, <1>7, <1>8 DEF RequestStep

\* Every step of what takes NICs and VMs away.
LEMMA RemoveKeepsRows ==
    ASSUME RInv, NEW w \in Removers,
           \/ RemoveStep(w)
           \/ \E x \in nics : Detach(w, x)
           \/ \E v \in defined : Undefine(w, v)
    PROVE  RInv'
  <1> USE NetworkAssumption DEF RInv, Macs, Early, Before, Domains, change, request, nic, vms, start
  <1>1. /\ w \notin Macs /\ \A q \in (Macs \cup Removers) \ {w} : pc'[q] = pc[q]
        /\ DOMAIN pc' = Macs \cup Removers
        /\ DOMAIN target' = Removers /\ \A u \in Removers \ {w} : target'[u] = target[u]
        /\ UNCHANGED <<nets, past, qpc, snap, cur, want, vmOf, ip, before, missing>>
    BY DEF RemoveStep, Forget, Free, RemoveFail, Detach, Undefine, Removed, Goto
  <1>2. UniqueIds' /\ Asked' /\ Domains'
    BY <1>1 DEF UniqueIds, Deleting, Managed, Asked
  <1>3. CASE Forget(w)
    <2>1. pc'[w] = "idle" /\ UNCHANGED vms /\ target[w] \in Macs \ nics /\ pc[target[w]] # "define"
      BY <1>3 DEF Forget, Removed, Goto, Targets
    <2>2. OnVms' /\ Targets' /\ Swept'
      BY <1>1, <2>1 DEF OnVms, Targets, Swept, Answered
    <2>3. RowKept'
      BY <1>1, <1>3, <2>1 DEF Forget, RowKept, Asked
    <2> QED
      BY <1>2, <2>2, <2>3
  <1>4. CASE Free(w)
    <2>1. pc'[w] = "idle" /\ UNCHANGED vms /\ target[w] \in Makers \ defined /\ pc[target[w]] # "define"
      BY <1>4 DEF Free, Removed, Goto, Targets
    <2>2. OnVms' /\ Targets' /\ Swept'
      BY <1>1, <2>1 DEF OnVms, Targets, Swept, Answered
    <2>3. RowKept'
      BY <1>1, <1>4, <2>1 DEF Free, RowKept, Asked, NicsOf, OnVms
    <2> QED
      BY <1>2, <2>2, <2>3
  <1>5. CASE RemoveFail(w)
    <2>1. pc'[w] = "idle" /\ UNCHANGED <<rows, defined, nics>>
      BY <1>5 DEF RemoveFail, Removed, Goto
    <2>2. OnVms' /\ Targets' /\ Swept' /\ RowKept'
      BY <1>1, <2>1 DEF OnVms, Targets, Swept, Answered, RowKept, Asked
    <2> QED
      BY <1>2, <2>2
  <1>6. ASSUME NEW x \in nics, Detach(w, x) PROVE RInv'
    <2>1. pc'[w] = "forget" /\ target'[w] = x /\ nics' = nics \ {x} /\ UNCHANGED <<rows, defined>>
      BY <1>6 DEF Detach, Goto
    <2>2. OnVms' /\ Targets' /\ Swept' /\ RowKept'
      BY <1>1, <2>1 DEF OnVms, Targets, Swept, Answered, RowKept, Asked
    <2> QED
      BY <1>2, <2>2
  <1>7. ASSUME NEW v \in defined, Undefine(w, v) PROVE RInv'
    <2>1. /\ pc'[w] = "free" /\ target'[w] = v /\ nics' = nics \ NicsOf(v) /\ defined' = defined \ {v}
          /\ rows' = rows
      BY <1>7 DEF Undefine, Goto
    <2>2. OnVms' /\ Targets' /\ Swept' /\ RowKept'
      BY <1>1, <2>1 DEF OnVms, Targets, Swept, Answered, RowKept, Asked, NicsOf
    <2> QED
      BY <1>2, <2>2
  <1> QED
    BY <1>3, <1>4, <1>5, <1>6, <1>7 DEF RemoveStep

\* A restart, and the check of the rows after it.
LEMMA StartKeepsRows ==
    ASSUME RInv, RowsInv, Restart \/ BootRead \/ BootDrop
    PROVE  RInv'
  <1> USE NetworkAssumption DEF RInv, Macs, Early, Before, Domains, change, request, nic, vms, start, Answered
  <1>1. CASE Restart
    <2>1. /\ \A r \in Macs : pc'[r] = IF pc[r] = "idle" THEN "idle"
                                      ELSE IF pc[r] \in Answered THEN pc[r] ELSE "cut"
          /\ \A w \in Removers : pc'[w] = "idle"
          /\ DOMAIN pc' = Macs \cup Removers /\ DOMAIN target' = Removers
      BY <1>1 DEF Restart
    <2>2. UNCHANGED <<nets, past, want, vmOf, ip, rows, defined, nics>> /\ before' = rows /\ missing' = {}
      BY <1>1 DEF Restart
    <2>3. UniqueIds' /\ Domains'
      BY <1>1, <2>1 DEF Restart, Over, UniqueIds, Deleting
    <2>4. Asked' /\ OnVms' /\ Targets'
      BY <2>1, <2>2 DEF Asked, OnVms, Targets
    <2>5. Swept'
      BY <2>1, <2>2 DEF Swept, RowsInv
    <2>6. RowKept'
      BY <2>1, <2>2 DEF RowKept, Asked
    <2> QED
      BY <2>3, <2>4, <2>5, <2>6
  <1>2. CASE BootRead
    <2>1. \A x \in before : vmOf[x] \in missing' => vmOf[x] \notin defined
      BY <1>2 DEF BootRead
    <2>2. Swept'
      BY <1>2, <2>1 DEF BootRead, Swept
    <2> QED
      BY <1>2, <2>2 DEF BootRead, UniqueIds, Deleting, Managed, Asked, OnVms, Targets, RowKept
  <1>3. CASE BootDrop
    <2>1. RowKept'
      BY <1>3 DEF BootDrop, RowKept, Swept, OnVms
    <2> QED
      BY <1>3, <2>1 DEF BootDrop, UniqueIds, Deleting, Managed, Asked, OnVms, Targets, Swept
  <1> QED
    BY <1>1, <1>2, <1>3

\* So it holds throughout.
LEMMA RowsAreKept == Spec => []RInv
  <1>1. Init => RInv
    BY NetworkAssumption DEF Init, RInv, Domains, UniqueIds, Asked, OnVms, Targets, Swept, RowKept,
                             Early, Before, Macs, Deleting
  <1>2. RInv /\ IInv /\ RowsInv /\ [Next]_vars => RInv'
    <2> SUFFICES ASSUME RInv, IInv, RowsInv, [Next]_vars PROVE RInv'
      OBVIOUS
    <2>1. CASE UNCHANGED vars
      BY <2>1 DEF vars, RInv, Domains, UniqueIds, Asked, OnVms, Targets, Swept, RowKept, Managed, Deleting
    <2> QED
      BY <2>1, ChangeKeepsRows, AskKeepsRows, RequestKeepsRows, RemoveKeepsRows, StartKeepsRows
         DEF Next, Macs
  <1> QED
    BY <1>1, <1>2, Inductive, RowsInductive, PTL DEF Spec

\* An address from a pool stays the NIC's own as long as it is on a VM, whatever
\* is deleted, fails or restarts meanwhile: Reserved, of any number of requests.
THEOREM AddressesStay == Spec => []Reserved
  <1>1. RInv => Reserved
    BY DEF RInv, RowKept, Reserved, OnVms
  <1> QED
    BY <1>1, RowsAreKept, PTL

(***************************************************************************)
(* Types.  The one that is not plain is that of the bridges: an index is   *)
(* one above the highest in use, and stays below the number of IDs because *)
(* each network there has been, which has an ID of its own, accounts for   *)
(* one at most.                                                            *)
(***************************************************************************)

\* A set of naturals has a least element.
LEMMA LeastNatural ==
    ASSUME NEW T \in SUBSET Nat, T # {}
    PROVE  \E i \in T : \A j \in T : i <= j
  <1>1. \E x \in T : \A y \in T : ~ (<<y, x>> \in OpToRel(<, Nat))
    BY NatLessThanWellFounded, WFMin, Zenon
  <1> QED
    <2>1. OpToRel(<, Nat) = {ss \in Nat \X Nat : ss[1] < ss[2]}
      BY Zenon DEF OpToRel
    <2>2. PICK x \in T : \A y \in T : <<y, x>> \notin {ss \in Nat \X Nat : ss[1] < ss[2]}
      BY <1>1, <2>1, Zenon
    <2>3. ASSUME NEW y \in T PROVE x <= y
      <3>1. <<y, x>> \in Nat \X Nat /\ <<y, x>>[1] = y /\ <<y, x>>[2] = x
        OBVIOUS
      <3>2. ~(<<y, x>>[1] < <<y, x>>[2])
        BY <2>2, <3>1, Zenon
      <3> QED
        BY <3>1, <3>2
    <2> QED
      BY <2>3

IdsOf(ns) == {n.id : n \in ns}

\* nextBridgeIndex, of networks whose indices are below k.
LEMMA NextIndexFits ==
    ASSUME NEW ns, NEW k \in Nat, k <= Cardinality(Ids),
           \A n \in ns : Managed(n) => n.bridge \in 0 .. k - 1
    PROVE  NextIndex(ns) \in 0 .. k
  <1> DEFINE used == {n.bridge : n \in {m \in ns : Managed(m)}}
             fits == {i \in Nat : \A j \in used : j < i}
  <1>0. Cardinality(Ids) \in Nat
    BY FS_CardinalityType, NetworkAssumption
  <1>1. used \subseteq 0 .. k - 1 /\ k \in fits
    OBVIOUS
  <1>2. PICK i \in fits : \A j \in fits : i <= j
    BY <1>1, LeastNatural
  <1>3. i \in Indices /\ (i = 0 \/ i - 1 \in used)
    <2>1. i <= k
      BY <1>1, <1>2
    <2>2. ASSUME i # 0, i - 1 \notin used PROVE FALSE
      <3>1. i - 1 \in fits
        BY <1>1, <2>2, <1>2
      <3> QED
        BY <1>2, <3>1
    <2> QED
      BY <1>0, <2>1, <2>2 DEF Indices
  <1>4. \E n \in Indices : (\A j \in used : j < n) /\ (n = 0 \/ n - 1 \in used)
    BY <1>2, <1>3
  <1>5. /\ NextIndex(ns) \in Indices /\ \A j \in used : j < NextIndex(ns)
        /\ NextIndex(ns) = 0 \/ NextIndex(ns) - 1 \in used
    BY <1>4 DEF NextIndex
  <1> QED
    BY <1>0, <1>1, <1>5 DEF Indices

NetTypes ==
    /\ past \subseteq Networks /\ links \subseteq Indices
    /\ cur \subseteq Networks /\ leaving \subseteq Networks
    /\ qpc \in {"idle", "link", "record", "check", "list", "drop", "unlink", "erase"}
    /\ \A n \in past : Managed(n) => n.bridge < Cardinality(IdsOf(past))
    /\ qpc \in {"link", "record"} =>
         /\ Cardinality(IdsOf(past)) < Cardinality(Ids)
         /\ \A n \in cur : Managed(n) => n.bridge <= Cardinality(IdsOf(past))

RequestTypes ==
    /\ arriving \subseteq Macs
    /\ \A r \in Macs : pc[r] \in RequestPC
    /\ \A w \in Removers : pc[w] \in RemovePC
    /\ want \in [Macs -> past \cup {Nothing}]
    /\ derived \in [Macs -> BOOLEAN] /\ live \in [Macs -> BOOLEAN]
    /\ vmOf \in [Macs -> Makers \cup {Nothing}]
    /\ ip \in [Macs -> Ips \cup {Nothing}]

HostTypes ==
    /\ rows \subseteq Macs /\ before \subseteq Macs
    /\ defined \subseteq Makers /\ nics \subseteq Macs
    /\ target \in [Removers -> Macs \cup {Nothing}]
    /\ boot \in {"read", "drop", "over"} /\ missing \subseteq Makers
    /\ faults \in 0 .. MaxFaults /\ blind \in BOOLEAN

TInv == NetTypes /\ RequestTypes /\ HostTypes

\* Counting the IDs there have been.
LEMMA SomeIds ==
    ASSUME NEW ns \in SUBSET Networks
    PROVE  /\ Cardinality(IdsOf(ns)) \in Nat /\ Cardinality(Ids) \in Nat
           /\ Cardinality(IdsOf(ns)) <= Cardinality(Ids)
           /\ (\E i \in Ids : i \notin IdsOf(ns)) => Cardinality(IdsOf(ns)) < Cardinality(Ids)
           /\ \A n \in Networks : n.id \notin IdsOf(ns) =>
                Cardinality(IdsOf(ns \cup {n})) = Cardinality(IdsOf(ns)) + 1
  <1>1. IdsOf(ns) \subseteq Ids
    BY DEF IdsOf, Networks
  <1>2. IsFiniteSet(Ids) /\ IsFiniteSet(IdsOf(ns))
    BY <1>1, FS_Subset, NetworkAssumption
  <1>3. Cardinality(IdsOf(ns)) \in Nat /\ Cardinality(Ids) \in Nat
    BY <1>2, FS_CardinalityType
  <1>4. /\ Cardinality(IdsOf(ns)) <= Cardinality(Ids)
        /\ (\E i \in Ids : i \notin IdsOf(ns)) => Cardinality(IdsOf(ns)) < Cardinality(Ids)
    <2>1. Cardinality(IdsOf(ns)) <= Cardinality(Ids) /\ (Cardinality(IdsOf(ns)) = Cardinality(Ids) => IdsOf(ns) = Ids)
      BY <1>1, <1>2, FS_Subset
    <2> QED
      BY <1>3, <2>1
  <1>5. ASSUME NEW n \in Networks, n.id \notin IdsOf(ns)
        PROVE  Cardinality(IdsOf(ns \cup {n})) = Cardinality(IdsOf(ns)) + 1
    <2>1. IdsOf(ns \cup {n}) = IdsOf(ns) \cup {n.id}
      BY DEF IdsOf
    <2> QED
      BY <1>2, <1>5, <2>1, FS_AddElement
  <1> QED
    BY <1>3, <1>4, <1>5

\* Every bridge in use is below the number of networks there have been.
LEMMA ChangeTyped ==
    ASSUME TInv, RInv, ChangeStep \/ (\E n \in nets : DeleteRead(n))
                       \/ (\E i \in Ids, own \in BOOLEAN : CreateRead(i, own))
    PROVE  TInv'
  <1> USE DEF TInv, NetTypes, Managed, Over
  <1>0. /\ nets \subseteq past /\ snap \subseteq past
        /\ Cardinality(IdsOf(past)) \in Nat /\ Cardinality(Ids) \in Nat
    BY SomeIds DEF RInv, UniqueIds
  <1>1. CASE \E n \in nets : DeleteRead(n)
    BY <1>0, <1>1 DEF DeleteRead, RequestTypes, HostTypes, request, nic, vms, start
  <1>2. ASSUME NEW i \in Ids, NEW own \in BOOLEAN, CreateRead(i, own) PROVE TInv'
    <2>1. snap' \subseteq past /\ i \notin IdsOf(past) /\ past' = past
      BY <1>0, <1>2 DEF CreateRead, IdsOf
    <2>2. Cardinality(IdsOf(past)) < Cardinality(Ids)
      BY <2>1, SomeIds
    <2>3. NextIndex(snap') \in 0 .. Cardinality(IdsOf(past))
      <3>1. \A n \in snap' : Managed(n) => n.bridge \in 0 .. Cardinality(IdsOf(past)) - 1
        BY <1>0, <2>1 DEF Networks, Indices
      <3> QED
        BY <1>0, <2>2, <3>1, NextIndexFits
    <2>4. NextIndex(snap') \in Indices
      BY <1>0, <2>2, <2>3 DEF Indices
    <2>5. \A n \in cur' : n \in Networks /\ (Managed(n) => n.bridge = NextIndex(snap'))
      BY <1>2, <2>4 DEF CreateRead, Networks
    <2>6. qpc' = "link" /\ UNCHANGED <<links, leaving>>
      BY <1>2 DEF CreateRead
    <2>7. NetTypes'
      BY <1>0, <2>1, <2>2, <2>3, <2>5, <2>6
    <2>8. faults' \in 0 .. MaxFaults /\ blind' \in BOOLEAN
      <3>1. blind' = blind \/ blind' = TRUE
        BY <1>2, Zenon DEF CreateRead
      <3>2. faults' \in 0 .. MaxFaults
        BY <1>2, NetworkAssumption DEF CreateRead, Fault, HostTypes
      <3> QED
        BY <3>1, <3>2 DEF HostTypes
    <2> QED
      BY <1>2, <2>1, <2>7, <2>8 DEF CreateRead, RequestTypes, HostTypes, request, nic, vms, start
  <1>3. CASE CreateLink
    BY <1>3 DEF CreateLink, Refuse, RequestTypes, HostTypes, request, nic, vms, start, Networks
  <1>4. CASE CreateRecord
    <2>1. PICK n \in cur : cur = {n} /\ n.id \notin IdsOf(past)
      BY <1>4 DEF CreateRecord, RInv, UniqueIds, IdsOf
    <2>2. Cardinality(IdsOf(past')) = Cardinality(IdsOf(past)) + 1
      BY <1>4, <2>1, SomeIds DEF CreateRecord
    <2>3. NetTypes'
      BY <1>0, <1>4, <2>1, <2>2 DEF CreateRecord, Networks, Indices
    <2> QED
      BY <1>4, <2>3 DEF CreateRecord, RequestTypes, HostTypes, request, nic, vms, start
  <1>5. CASE CreateFail
    BY <1>5, NetworkAssumption DEF CreateFail, Fault, RequestTypes, HostTypes, request, nic, vms, start
  <1>6. CASE DeleteCheck
    <2>1. CASE Refuse
      BY <1>6, <2>1 DEF DeleteCheck, Refuse, RequestTypes, HostTypes, request, nic, vms, start
    <2>2. CASE QGoto("list") \/ QGoto("unlink")
      BY <1>6, <2>2 DEF DeleteCheck, QGoto, RequestTypes, HostTypes, request, nic, vms, start
    <2> QED
      BY <1>6, <2>1, <2>2 DEF DeleteCheck
  <1>7. CASE DeleteList
    BY <1>7 DEF DeleteList, Refuse, QGoto, RequestTypes, HostTypes, request, nic, vms, start
  <1>8. CASE DeleteDrop
    BY <1>8 DEF DeleteDrop, RequestTypes, HostTypes, request, nic, vms, start
  <1>9. CASE DeleteUnlink
    BY <1>9 DEF DeleteUnlink, RequestTypes, HostTypes, request, nic, vms, start
  <1>10. CASE DeleteErase
    BY <1>10 DEF DeleteErase, RequestTypes, HostTypes, request, nic, vms, start
  <1>11. CASE DeleteFail
    BY <1>11, NetworkAssumption DEF DeleteFail, Fault, Refuse, RequestTypes, HostTypes, request, nic, vms, start
  <1> QED
    BY <1>1, <1>2, <1>3, <1>4, <1>5, <1>6, <1>7, <1>8, <1>9, <1>10, <1>11 DEF ChangeStep

\* A request or a removal leaves the networks alone.
LEMMA SameNets ==
    ASSUME TInv, UNCHANGED <<nets, past, links, change, leaving>>
    PROVE  NetTypes'
  BY DEF TInv, NetTypes, change, Managed

\* The parts of a request's step.
LEMMA GotoTyped ==
    ASSUME RInv, TInv, NEW r \in Macs, NEW a \in RequestPC, Goto(r, a)
    PROVE  /\ \A q \in Macs : pc'[q] \in RequestPC
           /\ \A w \in Removers : pc'[w] \in RemovePC
  BY NetworkAssumption DEF RInv, Domains, TInv, RequestTypes, Goto, Macs

LEMMA AnswerTyped ==
    ASSUME RInv, TInv, NEW r \in Macs, NEW a \in RequestPC, Answer(r, a)
    PROVE  /\ \A q \in Macs : pc'[q] \in RequestPC
           /\ \A w \in Removers : pc'[w] \in RemovePC
           /\ arriving' \subseteq Macs /\ derived' \in [Macs -> BOOLEAN]
  <1>1. arriving' \subseteq Macs /\ Goto(r, a)
    BY DEF Answer, TInv, RequestTypes
  <1>2. derived' \in [Macs -> BOOLEAN]
    BY DEF Answer, TInv, RequestTypes
  <1> QED
    BY <1>1, <1>2, GotoTyped

LEMMA NoTraceTyped ==
    ASSUME RInv, TInv, NEW r \in Macs, NoTrace(r), past' = past
    PROVE  RequestTypes'
  <1>1. Answer(r, "idle") /\ "idle" \in RequestPC
    BY DEF NoTrace, RequestPC
  <1>2. /\ want' \in [Macs -> past \cup {Nothing}] /\ vmOf' \in [Macs -> Makers \cup {Nothing}]
        /\ ip' \in [Macs -> Ips \cup {Nothing}]
    BY DEF NoTrace, TInv, RequestTypes
  <1>3. live' \in [Macs -> BOOLEAN]
    BY DEF NoTrace, TInv, RequestTypes
  <1> QED
    BY <1>1, <1>2, <1>3, AnswerTyped DEF RequestTypes

LEMMA EnterTyped ==
    ASSUME RInv, TInv, NEW r \in Macs, NEW key, Enter(r, key)
    PROVE  /\ \A q \in Macs : pc'[q] \in RequestPC
           /\ \A w \in Removers : pc'[w] \in RemovePC
           /\ arriving' \subseteq Macs
  BY GotoTyped DEF Enter, RequestPC, TInv, RequestTypes

LEMMA RequestTyped ==
    ASSUME RInv, TInv, NEW r \in Macs,
           \/ r \in Makers /\ \E n \in past, copy \in BOOLEAN : AskVm(r, n, copy)
           \/ r \in Attachers /\ \E n \in past, v \in Makers : AskNic(r, n, v)
           \/ RequestStep(r)
    PROVE  TInv'
  <1> USE DEF vms, start, request, nic, RequestPC, Answered
  <1>0. NetTypes'
    BY SameNets DEF AskVm, AskNic, RequestStep, Hold, Look, Alloc, Define, Meta, Fail, Undo, GiveBack
  <1>1. ASSUME NEW n \in past, NEW copy \in BOOLEAN, AskVm(r, n, copy) PROVE TInv'
    <2>1. want' \in [Macs -> past \cup {Nothing}]
      BY <1>1 DEF AskVm, TInv, RequestTypes
    <2>2. derived' \in [Macs -> BOOLEAN]
      BY <1>1 DEF AskVm, TInv, RequestTypes
    <2> QED
      BY <1>0, <1>1, <2>1, <2>2, EnterTyped DEF AskVm, TInv, RequestTypes, HostTypes
  <1>2. ASSUME NEW n \in past, NEW v \in Makers, AskNic(r, n, v) PROVE TInv'
    <2>1. want' \in [Macs -> past \cup {Nothing}] /\ vmOf' \in [Macs -> Makers \cup {Nothing}]
      BY <1>2 DEF AskNic, TInv, RequestTypes
    <2> QED
      BY <1>0, <1>2, <2>1, EnterTyped DEF AskNic, TInv, RequestTypes, HostTypes
  <1>3. CASE Hold(r)
    BY <1>0, <1>3, GotoTyped DEF Hold, TInv, RequestTypes, HostTypes
  <1>4. CASE Look(r)
    <2>1. HostTypes'
      BY <1>4 DEF Look, TInv, HostTypes
    <2>2. CASE NoTrace(r)
      BY <1>0, <1>4, <2>1, <2>2, NoTraceTyped DEF Look, TInv
    <2>3. CASE ~NoTrace(r)
      <3>1. live' \in [Macs -> BOOLEAN]
        <4>1. live' = [live EXCEPT ![r] = want[r] \in nets]
          BY <1>4, <2>3 DEF Look
        <4>2. CASE want[r] \in nets
          <5>1. (want[r] \in nets) = TRUE
            BY <4>2
          <5>2. live' = [live EXCEPT ![r] = TRUE]
            BY <4>1, <5>1, Zenon
          <5> QED
            BY <5>2 DEF TInv, RequestTypes
        <4>3. CASE want[r] \notin nets
          <5>1. (want[r] \in nets) = FALSE
            BY <4>3
          <5>2. live' = [live EXCEPT ![r] = FALSE]
            BY <4>1, <5>1, Zenon
          <5> QED
            BY <5>2 DEF TInv, RequestTypes
        <4> QED
          BY <4>2, <4>3
      <3>2. PICK a \in {"define", "alloc"} : Goto(r, a)
        BY <1>4, <2>3 DEF Look
      <3> QED
        BY <1>0, <1>4, <2>1, <2>3, <3>1, <3>2, GotoTyped DEF Look, TInv, RequestTypes
    <2> QED
      BY <2>2, <2>3
  <1>5. CASE Alloc(r)
    <2>1. PICK a \in {"define", "undo", "back"} : Goto(r, a)
      BY <1>5 DEF Alloc, Back
    <2>2. ip' \in [Macs -> Ips \cup {Nothing}] /\ rows' \subseteq Macs
      BY <1>5 DEF Alloc, TInv, RequestTypes, HostTypes
    <2> QED
      BY <1>0, <1>5, <2>1, <2>2, GotoTyped DEF Alloc, TInv, RequestTypes, HostTypes
  <1>6. CASE Define(r)
    <2>1. PICK a \in {"meta", "back"} : Goto(r, a)
      BY <1>6 DEF Define
    <2>2. defined' \subseteq Makers /\ nics' \subseteq Macs
      BY <1>6 DEF Define, TInv, HostTypes, RInv, Asked, OnVms
    <2> QED
      BY <1>0, <1>6, <2>1, <2>2, GotoTyped DEF Define, TInv, RequestTypes, HostTypes
  <1>7. CASE Meta(r)
    BY <1>0, <1>7, AnswerTyped DEF Meta, TInv, RequestTypes, HostTypes
  <1>8. CASE Fail(r)
    <2>1. \/ Answer(r, "failed")
          \/ (Goto(r, "undo") \/ Goto(r, "back")) /\ UNCHANGED <<arriving, derived>>
      BY <1>8 DEF Fail, Back
    <2>2. RequestTypes'
      BY <1>8, <2>1, AnswerTyped, GotoTyped DEF Fail, TInv, RequestTypes
    <2> QED
      BY <1>0, <1>8, <2>2, NetworkAssumption DEF Fail, Fault, TInv, HostTypes
  <1>9. CASE Undo(r)
    BY <1>0, <1>9, GotoTyped, NetworkAssumption DEF Undo, Fault, TInv, RequestTypes, HostTypes
  <1>10. CASE GiveBack(r)
    <2>1. HostTypes'
      BY <1>10, NetworkAssumption DEF GiveBack, Fault, TInv, HostTypes
    <2>2. CASE NoTrace(r)
      BY <1>0, <1>10, <2>1, <2>2, NoTraceTyped DEF GiveBack, TInv
    <2>3. CASE ~NoTrace(r)
      BY <1>0, <1>10, <2>1, <2>3, AnswerTyped DEF GiveBack, TInv, RequestTypes
    <2> QED
      BY <2>2, <2>3
  <1> QED
    BY <1>1, <1>2, <1>3, <1>4, <1>5, <1>6, <1>7, <1>8, <1>9, <1>10 DEF RequestStep

LEMMA RemoveTyped ==
    ASSUME RInv, TInv, NEW w \in Removers,
           \/ RemoveStep(w)
           \/ \E x \in nics : Detach(w, x)
           \/ \E v \in defined : Undefine(w, v)
    PROVE  TInv'
  <1> USE NetworkAssumption DEF vms, start, request, nic
  <1>0. NetTypes'
    BY SameNets DEF RemoveStep, Forget, Free, RemoveFail, Detach, Undefine
  <1>1. /\ \A q \in Macs : pc'[q] = pc[q]
        /\ \A u \in Removers : pc'[u] \in RemovePC
        /\ UNCHANGED <<past, arriving, want, derived, live, vmOf, ip>>
    BY DEF RemoveStep, Forget, Free, RemoveFail, Detach, Undefine, Removed, Goto, RemovePC, Macs,
           TInv, RequestTypes, RInv, Domains
  <1>2. RequestTypes'
    BY <1>1 DEF TInv, RequestTypes
  <1>3. target' \in [Removers -> Macs \cup {Nothing}]
    BY DEF RemoveStep, Forget, Free, RemoveFail, Detach, Undefine, Removed, TInv, HostTypes, Macs
  <1>4. /\ rows' \subseteq rows /\ defined' \subseteq defined /\ nics' \subseteq nics
        /\ UNCHANGED <<before, boot, missing, blind>> /\ faults' \in 0 .. MaxFaults
    BY DEF RemoveStep, Forget, Free, RemoveFail, Detach, Undefine, Fault, TInv, HostTypes
  <1> QED
    BY <1>0, <1>2, <1>3, <1>4 DEF TInv, HostTypes

LEMMA StartTyped ==
    ASSUME RInv, TInv, Restart \/ BootRead \/ BootDrop
    PROVE  TInv'
  <1> USE NetworkAssumption DEF vms, start, request, nic
  <1>1. CASE Restart
    <2>1. NetTypes'
      BY <1>1 DEF Restart, Over, TInv, NetTypes, Managed
    <2>2. RequestTypes'
      BY <1>1 DEF Restart, TInv, RequestTypes, RequestPC, RemovePC, Answered, RInv, Domains, Macs
    <2> QED
      BY <1>1, <2>1, <2>2 DEF Restart, Fault, TInv, HostTypes
  <1>2. CASE BootRead
    <2>1. missing' \subseteq Makers
      BY <1>2 DEF BootRead, RInv, Swept, Asked, Answered, Macs
    <2> QED
      BY <1>2, <2>1, SameNets DEF BootRead, TInv, RequestTypes, HostTypes
  <1>3. CASE BootDrop
    BY <1>3, SameNets DEF BootDrop, Fault, TInv, RequestTypes, HostTypes
  <1> QED
    BY <1>1, <1>2, <1>3

\* Every variable has its type, bridge indices included: nextBridgeIndex never runs
\* out, whatever is made, fails and is deleted.
THEOREM TypeCorrect == Spec => []TypeOK
  <1>1. Init => TInv
    <2> SUFFICES ASSUME Init PROVE TInv
      OBVIOUS
    <2>1. Cardinality(Ids) \in Nat
      BY FS_CardinalityType, NetworkAssumption
    <2>2. IdsOf(past) = {First}
      BY DEF Init, IdsOf
    <2>3. Cardinality(IdsOf(past)) = 1
      BY <2>2, FS_Singleton
    <2>4. NetTypes
      BY <2>1, <2>3, NetworkAssumption DEF Init, NetTypes, Networks, Indices
    <2>5. RequestTypes
      BY NetworkAssumption DEF Init, RequestTypes, RequestPC, RemovePC, Macs
    <2>6. HostTypes
      <3>1. faults \in 0 .. MaxFaults
        BY NetworkAssumption DEF Init
      <3>2. target \in [Removers -> Macs \cup {Nothing}]
        BY DEF Init
      <3> QED
        BY <3>1, <3>2 DEF Init, HostTypes
    <2> QED
      BY <2>4, <2>5, <2>6 DEF TInv
  <1>2. TInv /\ RInv /\ [Next]_vars => TInv'
    <2> SUFFICES ASSUME TInv, RInv, [Next]_vars PROVE TInv'
      OBVIOUS
    <2>1. CASE UNCHANGED vars
      BY <2>1 DEF vars, TInv, NetTypes, RequestTypes, HostTypes, Managed
    <2> QED
      BY <2>1, ChangeTyped, RequestTyped, RemoveTyped, StartTyped DEF Next, Macs
  <1>3. TInv /\ RInv => TypeOK
    BY DEF TInv, RInv, UniqueIds, NetTypes, RequestTypes, HostTypes, TypeOK
  <1> QED
    BY <1>1, <1>2, <1>3, RowsAreKept, PTL DEF Spec

=============================================================================
