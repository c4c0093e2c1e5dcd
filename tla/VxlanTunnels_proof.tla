------------------------- MODULE VxlanTunnels_proof -------------------------
(***************************************************************************)
(* Theorems about VxlanTunnels, for any VXLAN IDs, remote hosts and number *)
(* of requests and of things that go wrong.                                *)
(***************************************************************************)
EXTENDS VxlanTunnels, TLAPS

USE VxlanAssumption

\* The parts of TypeOK.
FilesTyped == file \in Records /\ bridge \in [Ids -> Bridges]
KernelTyped ==
    /\ up \subseteq devs /\ alien \subseteq devs /\ ported \subseteq devs /\ devs \subseteq Ids
    /\ fdb \in [Ids -> SUBSET Peers]
RulesTyped == chain \in Records /\ jump \in BOOLEAN
RequestTyped ==
    /\ pc \in {"boot", "idle", "links", "close", "rules", "jump", "each", "plan", "steps",
               "define", "write", "device", "network", "erase"}
    /\ kind \in {"pass", "create", "update", "delete", "undo"}
    /\ target \in Ids \cup {None} /\ asked \in SUBSET Peers
RecordsTyped == old \in Records /\ want \in Records
PassTyped ==
    /\ links \in Links /\ stuck \subseteq Ids /\ todo \subseteq Ids /\ cur \in Ids \cup {None}
    /\ plan \subseteq Ops
FlagsTyped == ok \in BOOLEAN /\ bad \in BOOLEAN /\ faith \in Faith /\ told \in Records
Bounded == asks \in 0 .. MaxAsks /\ events \in 0 .. MaxEvents
Typed == /\ FilesTyped /\ KernelTyped /\ RulesTyped /\ RequestTyped
         /\ RecordsTyped /\ PassTyped /\ FlagsTyped /\ Bounded

Mine == up \ alien
Behind == {"each", "plan", "steps"}

\* What is up is what the pass has seen up, unless something outside came between.
Seen ==
    pc \in {"close", "rules"} /\ faith # "no" => Mine \subseteq links.up \ links.alien

\* What should not be up is closed before the rules change, or gets its DROP.
Shut == pc = "rules" => links.up \cap Idle(want) \subseteq stuck

\* Between the chain and its jump.
Ruled ==
    pc = "jump" /\ faith # "no" =>
        /\ chain = RulesFor(want, stuck)
        /\ Mine \subseteq Listening(want) \cup (stuck \ links.alien)

\* A network is brought up only behind rules of its own.
Held ==
    /\ pc \in Behind => faith # "reading"
    /\ pc \in Behind /\ faith = "yes" /\ ok
       => \A i \in Listening(want) : jump /\ chain[i] # Unset
    /\ pc \in Behind => todo \subseteq RecordsIn(want)
    /\ pc \in {"plan", "steps"} => cur \in RecordsIn(want)
    /\ pc = "steps" /\ "up" \in plan => ok /\ cur \in Listening(want)

Phases == Guarded /\ Seen /\ Shut /\ Ruled /\ Held
IInv == Typed /\ Phases

LEMMA Blank == [i \in Ids |-> Unset] \in Records
  BY DEF Records

LEMMA Edited ==
    ASSUME NEW f \in Records, NEW i, NEW ps \in (SUBSET Peers) \cup {Unset}
    PROVE  [f EXCEPT ![i] = ps] \in Records
  BY DEF Records

LEMMA RulesForTyped ==
    ASSUME NEW f \in Records, NEW open
    PROVE  RulesFor(f, open) \in Records
  BY DEF Records, RulesFor, Listening

LEMMA NoLinksTyped == NoLinks \in Links
  BY DEF NoLinks, Links

LEMMA BeginPassKeeps ==
    ASSUME IInv, BeginPass
    PROVE  IInv'
<1>1. FilesTyped'
  BY Blank, Edited DEF IInv, Typed, FilesTyped, RecordsTyped, kernel, rules, request, pass,
     Event, Works, BeginPass, ReadFile, Sync
<1>2. KernelTyped'
  BY DEF IInv, Typed, KernelTyped, Records, RecordsTyped, RequestTyped, kernel, rules,
     request, pass, Event, Works, BeginPass, ReadFile, Sync
<1>3. RulesTyped'
  BY Blank, Edited DEF IInv, Typed, RulesTyped, RecordsTyped, kernel, rules, request, pass,
     Event, Works, BeginPass, ReadFile, Sync
<1>4. RequestTyped'
  BY DEF IInv, Typed, RequestTyped, kernel, rules, request, pass, Event, Works, BeginPass,
     ReadFile, Sync
<1>5. RecordsTyped'
  BY Blank, Edited DEF IInv, Typed, RecordsTyped, FilesTyped, RequestTyped, kernel, rules,
     request, pass, Event, Works, BeginPass, ReadFile, Sync
<1>6. PassTyped'
  BY NoLinksTyped DEF IInv, Typed, PassTyped, KernelTyped, RecordsTyped, Links, Ops, kernel,
     rules, request, pass, Event, Works, BeginPass, ReadFile, Sync
<1>7. FlagsTyped'
  BY Blank, Edited DEF IInv, Typed, FlagsTyped, Faith, RequestTyped, FilesTyped, kernel,
     rules, request, pass, Event, Works, BeginPass, ReadFile, Sync
<1>8. Bounded'
  BY DEF IInv, Typed, Bounded, Event, Works, VxlanAssumption, kernel, rules, request, pass,
     BeginPass, ReadFile, Sync
<1>9. Phases'
  BY DEF IInv, Typed, FilesTyped, KernelTyped, RulesTyped, RequestTyped, RecordsTyped,
     PassTyped, FlagsTyped, Records, Unset, Phases, Guarded, Seen, Shut, Ruled, Held, Mine,
     Behind, RecordsIn, Listening, Idle, RulesFor, Links, NoLinks, kernel, rules, request,
     pass, BeginPass, ReadFile, Sync
<1> QED  BY <1>1, <1>2, <1>3, <1>4, <1>5, <1>6, <1>7, <1>8, <1>9 DEF IInv, Typed

LEMMA ReadLinksKeeps ==
    ASSUME IInv, ReadLinks, UNCHANGED asks
    PROVE  IInv'
<1>1. FilesTyped'
  BY Blank, Edited DEF IInv, Typed, FilesTyped, RecordsTyped, kernel, rules, request, pass,
     Event, Works, ReadLinks, Links, NoLinks
<1>2. KernelTyped'
  BY DEF IInv, Typed, KernelTyped, Records, RecordsTyped, RequestTyped, kernel, rules,
     request, pass, Event, Works, ReadLinks, Links, NoLinks
<1>3. RulesTyped'
  BY Blank, Edited DEF IInv, Typed, RulesTyped, RecordsTyped, kernel, rules, request, pass,
     Event, Works, ReadLinks, Links, NoLinks
<1>4. RequestTyped'
  BY DEF IInv, Typed, RequestTyped, kernel, rules, request, pass, Event, Works, ReadLinks,
     Links, NoLinks
<1>5. RecordsTyped'
  BY Blank, Edited DEF IInv, Typed, RecordsTyped, FilesTyped, RequestTyped, kernel, rules,
     request, pass, Event, Works, ReadLinks, Links, NoLinks
<1>6. PassTyped'
  BY NoLinksTyped DEF IInv, Typed, PassTyped, KernelTyped, RecordsTyped, Links, Ops, kernel,
     rules, request, pass, Event, Works, ReadLinks
<1>7. FlagsTyped'
  BY Blank, Edited DEF IInv, Typed, FlagsTyped, Faith, RequestTyped, FilesTyped, kernel,
     rules, request, pass, Event, Works, ReadLinks, Links, NoLinks
<1>8. Bounded'
  BY DEF IInv, Typed, Bounded, Event, Works, VxlanAssumption, kernel, rules, request, pass,
     ReadLinks, Links, NoLinks
<1>9. Phases'
  BY DEF IInv, Typed, FilesTyped, KernelTyped, RulesTyped, RequestTyped, RecordsTyped,
     PassTyped, FlagsTyped, Records, Unset, Phases, Guarded, Seen, Shut, Ruled, Held, Mine,
     Behind, RecordsIn, Listening, Idle, RulesFor, Links, NoLinks, kernel, rules, request,
     pass, ReadLinks
<1> QED  BY <1>1, <1>2, <1>3, <1>4, <1>5, <1>6, <1>7, <1>8, <1>9 DEF IInv, Typed

LEMMA CloseKeeps ==
    ASSUME IInv, NEW i \in Ids, Close(i), UNCHANGED asks
    PROVE  IInv'
<1>1. FilesTyped'
  BY Blank, Edited DEF IInv, Typed, FilesTyped, RecordsTyped, kernel, rules, request, pass,
     Event, Works, Close, Links
<1>2. KernelTyped'
  BY DEF IInv, Typed, KernelTyped, Records, RecordsTyped, RequestTyped, kernel, rules,
     request, pass, Event, Works, Close, Links
<1>3. RulesTyped'
  BY Blank, Edited DEF IInv, Typed, RulesTyped, RecordsTyped, kernel, rules, request, pass,
     Event, Works, Close, Links
<1>4. RequestTyped'
  BY DEF IInv, Typed, RequestTyped, kernel, rules, request, pass, Event, Works, Close, Links
<1>5. RecordsTyped'
  BY Blank, Edited DEF IInv, Typed, RecordsTyped, FilesTyped, RequestTyped, kernel, rules,
     request, pass, Event, Works, Close, Links
<1>6. PassTyped'
  BY NoLinksTyped DEF IInv, Typed, PassTyped, KernelTyped, RecordsTyped, Links, Ops, kernel,
     rules, request, pass, Event, Works, Close
<1>7. FlagsTyped'
  BY Blank, Edited DEF IInv, Typed, FlagsTyped, Faith, RequestTyped, FilesTyped, kernel,
     rules, request, pass, Event, Works, Close, Links
<1>8. Bounded'
  BY DEF IInv, Typed, Bounded, Event, Works, VxlanAssumption, kernel, rules, request, pass,
     Close, Links
<1>9. Phases'
  BY DEF IInv, Typed, FilesTyped, KernelTyped, RulesTyped, RequestTyped, RecordsTyped,
     PassTyped, FlagsTyped, Records, Unset, Phases, Guarded, Seen, Shut, Ruled, Held, Mine,
     Behind, RecordsIn, Listening, Idle, RulesFor, Links, NoLinks, kernel, rules, request,
     pass, Close
<1> QED  BY <1>1, <1>2, <1>3, <1>4, <1>5, <1>6, <1>7, <1>8, <1>9 DEF IInv, Typed

LEMMA ClosedKeeps ==
    ASSUME IInv, Closed, UNCHANGED asks
    PROVE  IInv'
<1>1. FilesTyped'
  BY Blank, Edited DEF IInv, Typed, FilesTyped, RecordsTyped, kernel, rules, request, pass,
     Event, Works, Closed
<1>2. KernelTyped'
  BY DEF IInv, Typed, KernelTyped, Records, RecordsTyped, RequestTyped, kernel, rules,
     request, pass, Event, Works, Closed
<1>3. RulesTyped'
  BY Blank, Edited DEF IInv, Typed, RulesTyped, RecordsTyped, kernel, rules, request, pass,
     Event, Works, Closed
<1>4. RequestTyped'
  BY DEF IInv, Typed, RequestTyped, kernel, rules, request, pass, Event, Works, Closed
<1>5. RecordsTyped'
  BY Blank, Edited DEF IInv, Typed, RecordsTyped, FilesTyped, RequestTyped, kernel, rules,
     request, pass, Event, Works, Closed
<1>6. PassTyped'
  BY NoLinksTyped DEF IInv, Typed, PassTyped, KernelTyped, RecordsTyped, Links, Ops, kernel,
     rules, request, pass, Event, Works, Closed
<1>7. FlagsTyped'
  BY Blank, Edited DEF IInv, Typed, FlagsTyped, Faith, RequestTyped, FilesTyped, kernel,
     rules, request, pass, Event, Works, Closed
<1>8. Bounded'
  BY DEF IInv, Typed, Bounded, Event, Works, VxlanAssumption, kernel, rules, request, pass,
     Closed
<1>9. Phases'
  BY DEF IInv, Typed, FilesTyped, KernelTyped, RulesTyped, RequestTyped, RecordsTyped,
     PassTyped, FlagsTyped, Records, Unset, Phases, Guarded, Seen, Shut, Ruled, Held, Mine,
     Behind, RecordsIn, Listening, Idle, RulesFor, Links, NoLinks, kernel, rules, request,
     pass, Closed
<1> QED  BY <1>1, <1>2, <1>3, <1>4, <1>5, <1>6, <1>7, <1>8, <1>9 DEF IInv, Typed

LEMMA RemoveRulesKeeps ==
    ASSUME IInv, RemoveRules, UNCHANGED asks
    PROVE  IInv'
<1>1. FilesTyped'
  BY Blank, Edited DEF IInv, Typed, FilesTyped, RecordsTyped, kernel, rules, request, pass,
     Event, Works, RemoveRules, Settled, RecordsIn
<1>2. KernelTyped'
  BY DEF IInv, Typed, KernelTyped, Records, RecordsTyped, RequestTyped, kernel, rules,
     request, pass, Event, Works, RemoveRules, Settled, RecordsIn
<1>3. RulesTyped'
  BY Blank, Edited DEF IInv, Typed, RulesTyped, RecordsTyped, kernel, rules, request, pass,
     Event, Works, RemoveRules, Settled, RecordsIn
<1>4. RequestTyped'
  BY DEF IInv, Typed, RequestTyped, kernel, rules, request, pass, Event, Works, RemoveRules,
     Settled, RecordsIn
<1>5. RecordsTyped'
  BY Blank, Edited DEF IInv, Typed, RecordsTyped, FilesTyped, RequestTyped, kernel, rules,
     request, pass, Event, Works, RemoveRules, Settled, RecordsIn
<1>6. PassTyped'
  BY NoLinksTyped DEF IInv, Typed, PassTyped, KernelTyped, RecordsTyped, Links, Ops, kernel,
     rules, request, pass, Event, Works, RemoveRules, Settled, RecordsIn
<1>7. FlagsTyped'
  BY Blank, Edited DEF IInv, Typed, FlagsTyped, Faith, RequestTyped, FilesTyped, kernel,
     rules, request, pass, Event, Works, RemoveRules, Settled, RecordsIn
<1>8. Bounded'
  BY DEF IInv, Typed, Bounded, Event, Works, VxlanAssumption, kernel, rules, request, pass,
     RemoveRules, Settled, RecordsIn
<1>9. Phases'
  BY DEF IInv, Typed, FilesTyped, KernelTyped, RulesTyped, RequestTyped, RecordsTyped,
     PassTyped, FlagsTyped, Records, Unset, Phases, Guarded, Seen, Shut, Ruled, Held, Mine,
     Behind, RecordsIn, Listening, Idle, RulesFor, Links, NoLinks, kernel, rules, request,
     pass, RemoveRules, Settled
<1> QED  BY <1>1, <1>2, <1>3, <1>4, <1>5, <1>6, <1>7, <1>8, <1>9 DEF IInv, Typed

LEMMA RestoreChainKeeps ==
    ASSUME IInv, RestoreChain, UNCHANGED asks
    PROVE  IInv'
<1>1. FilesTyped'
  BY Blank, Edited DEF IInv, Typed, FilesTyped, RecordsTyped, kernel, rules, request, pass,
     Event, Works, RestoreChain, Settled, RecordsIn, RulesFor
<1>2. KernelTyped'
  BY DEF IInv, Typed, KernelTyped, Records, RecordsTyped, RequestTyped, kernel, rules,
     request, pass, Event, Works, RestoreChain, Settled, RecordsIn, RulesFor
<1>3. RulesTyped'
  BY RulesForTyped DEF IInv, Typed, RulesTyped, RecordsTyped, RestoreChain
<1>4. RequestTyped'
  BY DEF IInv, Typed, RequestTyped, kernel, rules, request, pass, Event, Works,
     RestoreChain, Settled, RecordsIn, RulesFor
<1>5. RecordsTyped'
  BY Blank, Edited DEF IInv, Typed, RecordsTyped, FilesTyped, RequestTyped, kernel, rules,
     request, pass, Event, Works, RestoreChain, Settled, RecordsIn, RulesFor
<1>6. PassTyped'
  BY NoLinksTyped DEF IInv, Typed, PassTyped, KernelTyped, RecordsTyped, Links, Ops, kernel,
     rules, request, pass, Event, Works, RestoreChain, Settled, RecordsIn, RulesFor
<1>7. FlagsTyped'
  BY Blank, Edited DEF IInv, Typed, FlagsTyped, Faith, RequestTyped, FilesTyped, kernel,
     rules, request, pass, Event, Works, RestoreChain, Settled, RecordsIn, RulesFor
<1>8. Bounded'
  BY DEF IInv, Typed, Bounded, Event, Works, VxlanAssumption, kernel, rules, request, pass,
     RestoreChain, Settled, RecordsIn, RulesFor
<1>9. Phases'
  BY DEF IInv, Typed, FilesTyped, KernelTyped, RulesTyped, RequestTyped, RecordsTyped,
     PassTyped, FlagsTyped, Records, Unset, Phases, Guarded, Seen, Shut, Ruled, Held, Mine,
     Behind, RecordsIn, Listening, Idle, RulesFor, Links, NoLinks, kernel, rules, request,
     pass, RestoreChain, Settled
<1> QED  BY <1>1, <1>2, <1>3, <1>4, <1>5, <1>6, <1>7, <1>8, <1>9 DEF IInv, Typed

LEMMA PutJumpKeeps ==
    ASSUME IInv, PutJump, UNCHANGED asks
    PROVE  IInv'
<1>1. FilesTyped'
  BY Blank, Edited DEF IInv, Typed, FilesTyped, RecordsTyped, kernel, rules, request, pass,
     Event, Works, PutJump, Settled, RecordsIn
<1>2. KernelTyped'
  BY DEF IInv, Typed, KernelTyped, Records, RecordsTyped, RequestTyped, kernel, rules,
     request, pass, Event, Works, PutJump, Settled, RecordsIn
<1>3. RulesTyped'
  BY Blank, Edited DEF IInv, Typed, RulesTyped, RecordsTyped, kernel, rules, request, pass,
     Event, Works, PutJump, Settled, RecordsIn
<1>4. RequestTyped'
  BY DEF IInv, Typed, RequestTyped, kernel, rules, request, pass, Event, Works, PutJump,
     Settled, RecordsIn
<1>5. RecordsTyped'
  BY Blank, Edited DEF IInv, Typed, RecordsTyped, FilesTyped, RequestTyped, kernel, rules,
     request, pass, Event, Works, PutJump, Settled, RecordsIn
<1>6. PassTyped'
  BY NoLinksTyped DEF IInv, Typed, PassTyped, KernelTyped, RecordsTyped, Links, Ops, kernel,
     rules, request, pass, Event, Works, PutJump, Settled, RecordsIn
<1>7. FlagsTyped'
  BY Blank, Edited DEF IInv, Typed, FlagsTyped, Faith, RequestTyped, FilesTyped, kernel,
     rules, request, pass, Event, Works, PutJump, Settled, RecordsIn
<1>8. Bounded'
  BY DEF IInv, Typed, Bounded, Event, Works, VxlanAssumption, kernel, rules, request, pass,
     PutJump, Settled, RecordsIn
<1>9. Phases'
  BY DEF IInv, Typed, FilesTyped, KernelTyped, RulesTyped, RequestTyped, RecordsTyped,
     PassTyped, FlagsTyped, Records, Unset, Phases, Guarded, Seen, Shut, Ruled, Held, Mine,
     Behind, RecordsIn, Listening, Idle, RulesFor, Links, NoLinks, kernel, rules, request,
     pass, PutJump, Settled
<1> QED  BY <1>1, <1>2, <1>3, <1>4, <1>5, <1>6, <1>7, <1>8, <1>9 DEF IInv, Typed

LEMMA BeginNetworkKeeps ==
    ASSUME IInv, NEW i \in Ids, BeginNetwork(i), UNCHANGED asks
    PROVE  IInv'
<1>1. FilesTyped'
  BY Blank, Edited DEF IInv, Typed, FilesTyped, RecordsTyped, kernel, rules, request, pass,
     Event, Works, BeginNetwork, RestoreBridge, Bridges
<1>2. KernelTyped'
  BY DEF IInv, Typed, KernelTyped, Records, RecordsTyped, RequestTyped, kernel, rules,
     request, pass, Event, Works, BeginNetwork, RestoreBridge, Bridges
<1>3. RulesTyped'
  BY Blank, Edited DEF IInv, Typed, RulesTyped, RecordsTyped, kernel, rules, request, pass,
     Event, Works, BeginNetwork, RestoreBridge, Bridges
<1>4. RequestTyped'
  BY DEF IInv, Typed, RequestTyped, kernel, rules, request, pass, Event, Works,
     BeginNetwork, RestoreBridge, Bridges
<1>5. RecordsTyped'
  BY Blank, Edited DEF IInv, Typed, RecordsTyped, FilesTyped, RequestTyped, kernel, rules,
     request, pass, Event, Works, BeginNetwork, RestoreBridge, Bridges
<1>6. PassTyped'
  BY NoLinksTyped DEF IInv, Typed, PassTyped, KernelTyped, RecordsTyped, Links, Ops, kernel,
     rules, request, pass, Event, Works, BeginNetwork, RestoreBridge, Bridges
<1>7. FlagsTyped'
  BY Blank, Edited DEF IInv, Typed, FlagsTyped, Faith, RequestTyped, FilesTyped, kernel,
     rules, request, pass, Event, Works, BeginNetwork, RestoreBridge, Bridges
<1>8. Bounded'
  BY DEF IInv, Typed, Bounded, Event, Works, VxlanAssumption, kernel, rules, request, pass,
     BeginNetwork, RestoreBridge, Bridges
<1>9. Phases'
  BY DEF IInv, Typed, FilesTyped, KernelTyped, RulesTyped, RequestTyped, RecordsTyped,
     PassTyped, FlagsTyped, Records, Unset, Phases, Guarded, Seen, Shut, Ruled, Held, Mine,
     Behind, RecordsIn, Listening, Idle, RulesFor, Links, NoLinks, kernel, rules, request,
     pass, BeginNetwork, RestoreBridge, Bridges
<1> QED  BY <1>1, <1>2, <1>3, <1>4, <1>5, <1>6, <1>7, <1>8, <1>9 DEF IInv, Typed

LEMMA PlanKeeps ==
    ASSUME IInv, Plan, UNCHANGED asks
    PROVE  IInv'
<1>1. FilesTyped'
  BY Blank, Edited DEF IInv, Typed, FilesTyped, RecordsTyped, kernel, rules, request, pass,
     Event, Works, Plan, Needed, ShouldBeUp, Ops
<1>2. KernelTyped'
  BY DEF IInv, Typed, KernelTyped, Records, RecordsTyped, RequestTyped, kernel, rules,
     request, pass, Event, Works, Plan, Needed, ShouldBeUp, Ops
<1>3. RulesTyped'
  BY Blank, Edited DEF IInv, Typed, RulesTyped, RecordsTyped, kernel, rules, request, pass,
     Event, Works, Plan, Needed, ShouldBeUp, Ops
<1>4. RequestTyped'
  BY DEF IInv, Typed, RequestTyped, kernel, rules, request, pass, Event, Works, Plan,
     Needed, ShouldBeUp, Ops
<1>5. RecordsTyped'
  BY Blank, Edited DEF IInv, Typed, RecordsTyped, FilesTyped, RequestTyped, kernel, rules,
     request, pass, Event, Works, Plan, Needed, ShouldBeUp, Ops
<1>6. PassTyped'
  BY NoLinksTyped DEF IInv, Typed, PassTyped, KernelTyped, RecordsTyped, Links, Ops, kernel,
     rules, request, pass, Event, Works, Plan, Needed, ShouldBeUp
<1>7. FlagsTyped'
  BY Blank, Edited DEF IInv, Typed, FlagsTyped, Faith, RequestTyped, FilesTyped, kernel,
     rules, request, pass, Event, Works, Plan, Needed, ShouldBeUp, Ops
<1>8. Bounded'
  BY DEF IInv, Typed, Bounded, Event, Works, VxlanAssumption, kernel, rules, request, pass,
     Plan, Needed, ShouldBeUp, Ops
<1>9. Phases'
  BY DEF IInv, Typed, FilesTyped, KernelTyped, RulesTyped, RequestTyped, RecordsTyped,
     PassTyped, FlagsTyped, Records, Unset, Phases, Guarded, Seen, Shut, Ruled, Held, Mine,
     Behind, RecordsIn, Listening, Idle, RulesFor, Links, NoLinks, kernel, rules, request,
     pass, Plan, Needed, ShouldBeUp, Ops
<1> QED  BY <1>1, <1>2, <1>3, <1>4, <1>5, <1>6, <1>7, <1>8, <1>9 DEF IInv, Typed

LEMMA StepKeeps ==
    ASSUME IInv, Step, UNCHANGED asks
    PROVE  IInv'
<1>1. FilesTyped'
  BY Blank, Edited DEF IInv, Typed, FilesTyped, RecordsTyped, kernel, rules, request, pass,
     Event, Works, Step, Down, Add, Master, Flood, Raise, Fails, Done, Stop, NextOp
<1>2. KernelTyped'
<2> USE DEF IInv, Typed, KernelTyped, RecordsTyped, PassTyped, Records, Unset, Step
<2>1. CASE Down
  BY <2>1 DEF Down
<2>2. CASE Add
  <3>1. fdb' = fdb \/ fdb' = [fdb EXCEPT ![cur] = {}]
    BY <2>2 DEF Add
  <3>2. fdb' \in [Ids -> SUBSET Peers]
    BY <3>1
  <3>3. cur \in Ids
    BY DEF Phases, Held, RecordsIn
  <3> QED  BY <2>2, <3>2, <3>3 DEF Add
<2>3. CASE Master
  BY <2>3 DEF Master
<2>4. CASE Flood
  <3>1. fdb' \in [Ids -> SUBSET Peers]
    <4>1. CASE cur \in devs /\ fdb' = [fdb EXCEPT ![cur] = want[cur]]
      <5>1. cur \in Ids
        BY <4>1
      <5>2. want[cur] \in SUBSET Peers
        BY <5>1 DEF Phases, Held, RecordsIn
      <5> QED  BY <4>1, <5>2
    <4>2. CASE fdb' = [fdb EXCEPT ![cur] = @ \cap want[cur]] /\ cur \in devs
      BY <4>2
    <4> QED  BY <2>4, <4>1, <4>2 DEF Flood
  <3> QED  BY <2>4, <3>1 DEF Flood
<2>5. CASE Raise
  BY <2>5 DEF Raise
<2>6. CASE Fails
  BY <2>6 DEF Fails, kernel
<2> QED  BY <2>1, <2>2, <2>3, <2>4, <2>5, <2>6
<1>3. RulesTyped'
  BY Blank, Edited DEF IInv, Typed, RulesTyped, RecordsTyped, kernel, rules, request, pass,
     Event, Works, Step, Down, Add, Master, Flood, Raise, Fails, Done, Stop, NextOp
<1>4. RequestTyped'
  BY DEF IInv, Typed, RequestTyped, kernel, rules, request, pass, Event, Works, Step, Down,
     Add, Master, Flood, Raise, Fails, Done, Stop, NextOp
<1>5. RecordsTyped'
  BY Blank, Edited DEF IInv, Typed, RecordsTyped, FilesTyped, RequestTyped, kernel, rules,
     request, pass, Event, Works, Step, Down, Add, Master, Flood, Raise, Fails, Done, Stop,
     NextOp
<1>6. PassTyped'
  BY NoLinksTyped DEF IInv, Typed, PassTyped, KernelTyped, RecordsTyped, Links, Ops, kernel,
     rules, request, pass, Event, Works, Step, Down, Add, Master, Flood, Raise, Fails, Done,
     Stop, NextOp
<1>7. FlagsTyped'
  BY Blank, Edited DEF IInv, Typed, FlagsTyped, Faith, RequestTyped, FilesTyped, kernel,
     rules, request, pass, Event, Works, Step, Down, Add, Master, Flood, Raise, Fails, Done,
     Stop, NextOp
<1>8. Bounded'
  BY DEF IInv, Typed, Bounded, Event, Works, VxlanAssumption, kernel, rules, request, pass,
     Step, Down, Add, Master, Flood, Raise, Fails, Done, Stop, NextOp
<1>9. Phases'
  BY DEF IInv, Typed, FilesTyped, KernelTyped, RulesTyped, RequestTyped, RecordsTyped,
     PassTyped, FlagsTyped, Records, Unset, Phases, Guarded, Seen, Shut, Ruled, Held, Mine,
     Behind, RecordsIn, Listening, Idle, RulesFor, Links, NoLinks, kernel, rules, request,
     pass, Step, Down, Add, Master, Flood, Raise, Fails, Done, Stop, NextOp
<1> QED  BY <1>1, <1>2, <1>3, <1>4, <1>5, <1>6, <1>7, <1>8, <1>9 DEF IInv, Typed

LEMMA EndNetworkKeeps ==
    ASSUME IInv, EndNetwork, UNCHANGED asks
    PROVE  IInv'
<1>1. FilesTyped'
  BY Blank, Edited DEF IInv, Typed, FilesTyped, RecordsTyped, kernel, rules, request, pass,
     Event, Works, EndNetwork
<1>2. KernelTyped'
  BY DEF IInv, Typed, KernelTyped, Records, RecordsTyped, RequestTyped, kernel, rules,
     request, pass, Event, Works, EndNetwork
<1>3. RulesTyped'
  BY Blank, Edited DEF IInv, Typed, RulesTyped, RecordsTyped, kernel, rules, request, pass,
     Event, Works, EndNetwork
<1>4. RequestTyped'
  BY DEF IInv, Typed, RequestTyped, kernel, rules, request, pass, Event, Works, EndNetwork
<1>5. RecordsTyped'
  BY Blank, Edited DEF IInv, Typed, RecordsTyped, FilesTyped, RequestTyped, kernel, rules,
     request, pass, Event, Works, EndNetwork
<1>6. PassTyped'
  BY NoLinksTyped DEF IInv, Typed, PassTyped, KernelTyped, RecordsTyped, Links, Ops, kernel,
     rules, request, pass, Event, Works, EndNetwork
<1>7. FlagsTyped'
  BY Blank, Edited DEF IInv, Typed, FlagsTyped, Faith, RequestTyped, FilesTyped, kernel,
     rules, request, pass, Event, Works, EndNetwork
<1>8. Bounded'
  BY DEF IInv, Typed, Bounded, Event, Works, VxlanAssumption, kernel, rules, request, pass,
     EndNetwork
<1>9. Phases'
  BY DEF IInv, Typed, FilesTyped, KernelTyped, RulesTyped, RequestTyped, RecordsTyped,
     PassTyped, FlagsTyped, Records, Unset, Phases, Guarded, Seen, Shut, Ruled, Held, Mine,
     Behind, RecordsIn, Listening, Idle, RulesFor, Links, NoLinks, kernel, rules, request,
     pass, EndNetwork
<1> QED  BY <1>1, <1>2, <1>3, <1>4, <1>5, <1>6, <1>7, <1>8, <1>9 DEF IInv, Typed

LEMMA DefineKeeps ==
    ASSUME IInv, Define
    PROVE  IInv'
<1>1. FilesTyped'
  BY Blank, Edited DEF IInv, Typed, FilesTyped, RecordsTyped, kernel, rules, request, pass,
     Event, Works, Define, Sync, Over, Bridges, NoLinks
<1>2. KernelTyped'
  BY DEF IInv, Typed, KernelTyped, Records, RecordsTyped, RequestTyped, kernel, rules,
     request, pass, Event, Works, Define, Sync, Over, Bridges, NoLinks
<1>3. RulesTyped'
  BY Blank, Edited DEF IInv, Typed, RulesTyped, RecordsTyped, kernel, rules, request, pass,
     Event, Works, Define, Sync, Over, Bridges, NoLinks
<1>4. RequestTyped'
  BY DEF IInv, Typed, RequestTyped, kernel, rules, request, pass, Event, Works, Define,
     Sync, Over, Bridges, NoLinks
<1>5. RecordsTyped'
  BY Blank, Edited DEF IInv, Typed, RecordsTyped, FilesTyped, RequestTyped, kernel, rules,
     request, pass, Event, Works, Define, Sync, Over, Bridges, NoLinks
<1>6. PassTyped'
  BY NoLinksTyped DEF IInv, Typed, PassTyped, KernelTyped, RecordsTyped, Links, Ops, kernel,
     rules, request, pass, Event, Works, Define, Sync, Over, Bridges
<1>7. FlagsTyped'
  BY Blank, Edited DEF IInv, Typed, FlagsTyped, Faith, RequestTyped, FilesTyped, kernel,
     rules, request, pass, Event, Works, Define, Sync, Over, Bridges, NoLinks
<1>8. Bounded'
  BY DEF IInv, Typed, Bounded, Event, Works, VxlanAssumption, kernel, rules, request, pass,
     Define, Sync, Over, Bridges, NoLinks
<1>9. Phases'
  BY DEF IInv, Typed, FilesTyped, KernelTyped, RulesTyped, RequestTyped, RecordsTyped,
     PassTyped, FlagsTyped, Records, Unset, Phases, Guarded, Seen, Shut, Ruled, Held, Mine,
     Behind, RecordsIn, Listening, Idle, RulesFor, Links, NoLinks, kernel, rules, request,
     pass, Define, Sync, Over, Bridges
<1> QED  BY <1>1, <1>2, <1>3, <1>4, <1>5, <1>6, <1>7, <1>8, <1>9 DEF IInv, Typed

LEMMA EndSyncKeeps ==
    ASSUME IInv, EndSync
    PROVE  IInv'
<1>1. FilesTyped'
  BY Blank, Edited DEF IInv, Typed, FilesTyped, RecordsTyped, kernel, rules, request, pass,
     Event, Works, EndSync, Sync, Over, Answered, NoLinks
<1>2. KernelTyped'
  BY DEF IInv, Typed, KernelTyped, Records, RecordsTyped, RequestTyped, kernel, rules,
     request, pass, Event, Works, EndSync, Sync, Over, Answered, NoLinks
<1>3. RulesTyped'
  BY Blank, Edited DEF IInv, Typed, RulesTyped, RecordsTyped, kernel, rules, request, pass,
     Event, Works, EndSync, Sync, Over, Answered, NoLinks
<1>4. RequestTyped'
  BY DEF IInv, Typed, RequestTyped, kernel, rules, request, pass, Event, Works, EndSync,
     Sync, Over, Answered, NoLinks
<1>5. RecordsTyped'
  BY Blank, Edited DEF IInv, Typed, RecordsTyped, FilesTyped, RequestTyped, kernel, rules,
     request, pass, Event, Works, EndSync, Sync, Over, Answered, NoLinks
<1>6. PassTyped'
  BY NoLinksTyped DEF IInv, Typed, PassTyped, KernelTyped, RecordsTyped, Links, Ops, kernel,
     rules, request, pass, Event, Works, EndSync, Sync, Over, Answered
<1>7. FlagsTyped'
<2>1. told' = told \/ told' = [told EXCEPT ![target] = IF ok THEN {} ELSE Unset]
  BY DEF EndSync, Answered
<2>2. told' \in Records
  BY <2>1, Edited DEF IInv, Typed, FlagsTyped
<2> QED  BY <2>2 DEF IInv, Typed, FlagsTyped, pass, EndSync, Over
<1>8. Bounded'
  BY DEF IInv, Typed, Bounded, Event, Works, VxlanAssumption, kernel, rules, request, pass,
     EndSync, Sync, Over, Answered, NoLinks
<1>9. Phases'
  BY DEF IInv, Typed, FilesTyped, KernelTyped, RulesTyped, RequestTyped, RecordsTyped,
     PassTyped, FlagsTyped, Records, Unset, Phases, Guarded, Seen, Shut, Ruled, Held, Mine,
     Behind, RecordsIn, Listening, Idle, RulesFor, Links, NoLinks, kernel, rules, request,
     pass, EndSync, Sync, Over, Answered
<1> QED  BY <1>1, <1>2, <1>3, <1>4, <1>5, <1>6, <1>7, <1>8, <1>9 DEF IInv, Typed

LEMMA WriteKeeps ==
    ASSUME IInv, Write
    PROVE  IInv'
<1>1. FilesTyped'
  BY Blank, Edited DEF IInv, Typed, FilesTyped, RecordsTyped, kernel, rules, request, pass,
     Event, Works, Write, Over, Answered, NoLinks
<1>2. KernelTyped'
  BY DEF IInv, Typed, KernelTyped, Records, RecordsTyped, RequestTyped, kernel, rules,
     request, pass, Event, Works, Write, Over, Answered, NoLinks
<1>3. RulesTyped'
  BY Blank, Edited DEF IInv, Typed, RulesTyped, RecordsTyped, kernel, rules, request, pass,
     Event, Works, Write, Over, Answered, NoLinks
<1>4. RequestTyped'
  BY DEF IInv, Typed, RequestTyped, kernel, rules, request, pass, Event, Works, Write, Over,
     Answered, NoLinks
<1>5. RecordsTyped'
  BY Blank, Edited DEF IInv, Typed, RecordsTyped, FilesTyped, RequestTyped, kernel, rules,
     request, pass, Event, Works, Write, Over, Answered, NoLinks
<1>6. PassTyped'
  BY NoLinksTyped DEF IInv, Typed, PassTyped, KernelTyped, RecordsTyped, Links, Ops, kernel,
     rules, request, pass, Event, Works, Write, Over, Answered
<1>7. FlagsTyped'
<2>1. told' = told \/ told' = [told EXCEPT ![target] = asked]
  BY DEF Write, Answered
<2>2. told' \in Records
  BY <2>1, Edited DEF IInv, Typed, FlagsTyped, RequestTyped
<2> QED  BY <2>2 DEF IInv, Typed, FlagsTyped, pass, Write, Over
<1>8. Bounded'
  BY DEF IInv, Typed, Bounded, Event, Works, VxlanAssumption, kernel, rules, request, pass,
     Write, Over, Answered, NoLinks
<1>9. Phases'
  BY DEF IInv, Typed, FilesTyped, KernelTyped, RulesTyped, RequestTyped, RecordsTyped,
     PassTyped, FlagsTyped, Records, Unset, Phases, Guarded, Seen, Shut, Ruled, Held, Mine,
     Behind, RecordsIn, Listening, Idle, RulesFor, Links, NoLinks, kernel, rules, request,
     pass, Write, Over, Answered
<1> QED  BY <1>1, <1>2, <1>3, <1>4, <1>5, <1>6, <1>7, <1>8, <1>9 DEF IInv, Typed

LEMMA RemoveDeviceKeeps ==
    ASSUME IInv, RemoveDevice
    PROVE  IInv'
<1>1. FilesTyped'
  BY Blank, Edited DEF IInv, Typed, FilesTyped, RecordsTyped, kernel, rules, request, pass,
     Event, Works, RemoveDevice, Without
<1>2. KernelTyped'
  BY DEF IInv, Typed, KernelTyped, Records, RecordsTyped, RequestTyped, kernel, rules,
     request, pass, Event, Works, RemoveDevice, Without
<1>3. RulesTyped'
  BY Blank, Edited DEF IInv, Typed, RulesTyped, RecordsTyped, kernel, rules, request, pass,
     Event, Works, RemoveDevice, Without
<1>4. RequestTyped'
  BY DEF IInv, Typed, RequestTyped, kernel, rules, request, pass, Event, Works,
     RemoveDevice, Without
<1>5. RecordsTyped'
  BY Blank, Edited DEF IInv, Typed, RecordsTyped, FilesTyped, RequestTyped, kernel, rules,
     request, pass, Event, Works, RemoveDevice, Without
<1>6. PassTyped'
  BY NoLinksTyped DEF IInv, Typed, PassTyped, KernelTyped, RecordsTyped, Links, Ops, kernel,
     rules, request, pass, Event, Works, RemoveDevice, Without
<1>7. FlagsTyped'
  BY Blank, Edited DEF IInv, Typed, FlagsTyped, Faith, RequestTyped, FilesTyped, kernel,
     rules, request, pass, Event, Works, RemoveDevice, Without
<1>8. Bounded'
  BY DEF IInv, Typed, Bounded, Event, Works, VxlanAssumption, kernel, rules, request, pass,
     RemoveDevice, Without
<1>9. Phases'
  BY DEF IInv, Typed, FilesTyped, KernelTyped, RulesTyped, RequestTyped, RecordsTyped,
     PassTyped, FlagsTyped, Records, Unset, Phases, Guarded, Seen, Shut, Ruled, Held, Mine,
     Behind, RecordsIn, Listening, Idle, RulesFor, Links, NoLinks, kernel, rules, request,
     pass, RemoveDevice, Without
<1> QED  BY <1>1, <1>2, <1>3, <1>4, <1>5, <1>6, <1>7, <1>8, <1>9 DEF IInv, Typed

LEMMA RemoveNetworkKeeps ==
    ASSUME IInv, RemoveNetwork
    PROVE  IInv'
<1>1. FilesTyped'
  BY Blank, Edited DEF IInv, Typed, FilesTyped, RecordsTyped, kernel, rules, request, pass,
     Event, Works, RemoveNetwork, Sync, Bridges
<1>2. KernelTyped'
  BY DEF IInv, Typed, KernelTyped, Records, RecordsTyped, RequestTyped, kernel, rules,
     request, pass, Event, Works, RemoveNetwork, Sync, Bridges
<1>3. RulesTyped'
  BY Blank, Edited DEF IInv, Typed, RulesTyped, RecordsTyped, kernel, rules, request, pass,
     Event, Works, RemoveNetwork, Sync, Bridges
<1>4. RequestTyped'
  BY DEF IInv, Typed, RequestTyped, kernel, rules, request, pass, Event, Works,
     RemoveNetwork, Sync, Bridges
<1>5. RecordsTyped'
  BY Blank, Edited DEF IInv, Typed, RecordsTyped, FilesTyped, RequestTyped, kernel, rules,
     request, pass, Event, Works, RemoveNetwork, Sync, Bridges
<1>6. PassTyped'
  BY NoLinksTyped DEF IInv, Typed, PassTyped, KernelTyped, RecordsTyped, Links, Ops, kernel,
     rules, request, pass, Event, Works, RemoveNetwork, Sync, Bridges
<1>7. FlagsTyped'
  BY Blank, Edited DEF IInv, Typed, FlagsTyped, Faith, RequestTyped, FilesTyped, kernel,
     rules, request, pass, Event, Works, RemoveNetwork, Sync, Bridges
<1>8. Bounded'
  BY DEF IInv, Typed, Bounded, Event, Works, VxlanAssumption, kernel, rules, request, pass,
     RemoveNetwork, Sync, Bridges
<1>9. Phases'
  BY DEF IInv, Typed, FilesTyped, KernelTyped, RulesTyped, RequestTyped, RecordsTyped,
     PassTyped, FlagsTyped, Records, Unset, Phases, Guarded, Seen, Shut, Ruled, Held, Mine,
     Behind, RecordsIn, Listening, Idle, RulesFor, Links, NoLinks, kernel, rules, request,
     pass, RemoveNetwork, Sync, Bridges
<1> QED  BY <1>1, <1>2, <1>3, <1>4, <1>5, <1>6, <1>7, <1>8, <1>9 DEF IInv, Typed

LEMMA EraseKeeps ==
    ASSUME IInv, Erase
    PROVE  IInv'
<1>1. FilesTyped'
  BY Blank, Edited DEF IInv, Typed, FilesTyped, RecordsTyped, kernel, rules, request, pass,
     Event, Works, Erase, Over, Sync, NoLinks
<1>2. KernelTyped'
  BY DEF IInv, Typed, KernelTyped, Records, RecordsTyped, RequestTyped, kernel, rules,
     request, pass, Event, Works, Erase, Over, Sync, NoLinks
<1>3. RulesTyped'
  BY Blank, Edited DEF IInv, Typed, RulesTyped, RecordsTyped, kernel, rules, request, pass,
     Event, Works, Erase, Over, Sync, NoLinks
<1>4. RequestTyped'
  BY DEF IInv, Typed, RequestTyped, kernel, rules, request, pass, Event, Works, Erase, Over,
     Sync, NoLinks
<1>5. RecordsTyped'
  BY Blank, Edited DEF IInv, Typed, RecordsTyped, FilesTyped, RequestTyped, kernel, rules,
     request, pass, Event, Works, Erase, Over, Sync, NoLinks
<1>6. PassTyped'
  BY NoLinksTyped DEF IInv, Typed, PassTyped, KernelTyped, RecordsTyped, Links, Ops, kernel,
     rules, request, pass, Event, Works, Erase, Over, Sync
<1>7. FlagsTyped'
  BY Blank, Edited DEF IInv, Typed, FlagsTyped, Faith, RequestTyped, FilesTyped, kernel,
     rules, request, pass, Event, Works, Erase, Over, Sync, NoLinks
<1>8. Bounded'
  BY DEF IInv, Typed, Bounded, Event, Works, VxlanAssumption, kernel, rules, request, pass,
     Erase, Over, Sync, NoLinks
<1>9. Phases'
  BY DEF IInv, Typed, FilesTyped, KernelTyped, RulesTyped, RequestTyped, RecordsTyped,
     PassTyped, FlagsTyped, Records, Unset, Phases, Guarded, Seen, Shut, Ruled, Held, Mine,
     Behind, RecordsIn, Listening, Idle, RulesFor, Links, NoLinks, kernel, rules, request,
     pass, Erase, Over, Sync
<1> QED  BY <1>1, <1>2, <1>3, <1>4, <1>5, <1>6, <1>7, <1>8, <1>9 DEF IInv, Typed

LEMMA RequestsKeeps ==
    ASSUME IInv, Requests
    PROVE  IInv'
<1>1. FilesTyped'
  BY Blank, Edited DEF IInv, Typed, FilesTyped, RecordsTyped, kernel, rules, request, pass,
     Event, Works, Requests, Create, UpdatePeers, Delete, Begin, ReadFile, Sync
<1>2. KernelTyped'
  BY DEF IInv, Typed, KernelTyped, Records, RecordsTyped, RequestTyped, kernel, rules,
     request, pass, Event, Works, Requests, Create, UpdatePeers, Delete, Begin, ReadFile,
     Sync
<1>3. RulesTyped'
  BY Blank, Edited DEF IInv, Typed, RulesTyped, RecordsTyped, kernel, rules, request, pass,
     Event, Works, Requests, Create, UpdatePeers, Delete, Begin, ReadFile, Sync
<1>4. RequestTyped'
  BY DEF IInv, Typed, RequestTyped, kernel, rules, request, pass, Event, Works, Requests,
     Create, UpdatePeers, Delete, Begin, ReadFile, Sync
<1>5. RecordsTyped'
  BY Blank, Edited DEF IInv, Typed, RecordsTyped, FilesTyped, RequestTyped, kernel, rules,
     request, pass, Event, Works, Requests, Create, UpdatePeers, Delete, Begin, ReadFile,
     Sync
<1>6. PassTyped'
<2>1. PICK k, i, ps, f : Begin(k, i, ps, f)
  BY DEF Requests, Create, UpdatePeers, Delete
<2>2. UNCHANGED <<links, stuck, todo, cur, plan>>
  BY <2>1 DEF Begin
<2> QED  BY <2>2 DEF IInv, Typed, PassTyped
<1>7. FlagsTyped'
  BY Blank, Edited DEF IInv, Typed, FlagsTyped, Faith, RequestTyped, FilesTyped, kernel,
     rules, request, pass, Event, Works, Requests, Create, UpdatePeers, Delete, Begin,
     ReadFile, Sync
<1>8. Bounded'
  BY DEF IInv, Typed, Bounded, Event, Works, VxlanAssumption, kernel, rules, request, pass,
     Requests, Create, UpdatePeers, Delete, Begin, ReadFile, Sync
<1>9. Phases'
  BY DEF IInv, Typed, FilesTyped, KernelTyped, RulesTyped, RequestTyped, RecordsTyped,
     PassTyped, FlagsTyped, Records, Unset, Phases, Guarded, Seen, Shut, Ruled, Held, Mine,
     Behind, RecordsIn, Listening, Idle, RulesFor, Links, NoLinks, kernel, rules, request,
     pass, Requests, Create, UpdatePeers, Delete, Begin, ReadFile, Sync
<1> QED  BY <1>1, <1>2, <1>3, <1>4, <1>5, <1>6, <1>7, <1>8, <1>9 DEF IInv, Typed

LEMMA OutsideKeeps ==
    ASSUME IInv, Outside
    PROVE  IInv'
<1>1. FilesTyped'
  BY Blank, Edited DEF IInv, Typed, FilesTyped, RecordsTyped, kernel, rules, request, pass,
     Event, Works, Outside, ChangeRules, ChangeDevice, LoseBridge, Without, Bridges
<1>2. KernelTyped'
  BY DEF IInv, Typed, KernelTyped, Records, RecordsTyped, RequestTyped, kernel, rules,
     request, pass, Event, Works, Outside, ChangeRules, ChangeDevice, LoseBridge, Without,
     Bridges
<1>3. RulesTyped'
<2>1. chain' \in {chain, [i \in Ids |-> Unset]}
      \/ \E i \in Ids, ps \in SUBSET Peers : chain' = [chain EXCEPT ![i] = ps]
  BY DEF Outside, ChangeRules, ChangeDevice, LoseBridge, rules
<2>2. chain' \in Records
  BY <2>1, Blank, Edited DEF IInv, Typed, RulesTyped
<2> QED  BY <2>2 DEF IInv, Typed, RulesTyped, Outside, ChangeRules, ChangeDevice, LoseBridge, rules
<1>4. RequestTyped'
  BY DEF IInv, Typed, RequestTyped, kernel, rules, request, pass, Event, Works, Outside,
     ChangeRules, ChangeDevice, LoseBridge, Without, Bridges
<1>5. RecordsTyped'
  BY Blank, Edited DEF IInv, Typed, RecordsTyped, FilesTyped, RequestTyped, kernel, rules,
     request, pass, Event, Works, Outside, ChangeRules, ChangeDevice, LoseBridge, Without,
     Bridges
<1>6. PassTyped'
  BY NoLinksTyped DEF IInv, Typed, PassTyped, KernelTyped, RecordsTyped, Links, Ops, kernel,
     rules, request, pass, Event, Works, Outside, ChangeRules, ChangeDevice, LoseBridge,
     Without, Bridges
<1>7. FlagsTyped'
  BY Blank, Edited DEF IInv, Typed, FlagsTyped, Faith, RequestTyped, FilesTyped, kernel,
     rules, request, pass, Event, Works, Outside, ChangeRules, ChangeDevice, LoseBridge,
     Without, Bridges
<1>8. Bounded'
  BY DEF IInv, Typed, Bounded, Event, Works, VxlanAssumption, kernel, rules, request, pass,
     Outside, ChangeRules, ChangeDevice, LoseBridge, Without, Bridges
<1>9. Phases'
  BY DEF IInv, Typed, FilesTyped, KernelTyped, RulesTyped, RequestTyped, RecordsTyped,
     PassTyped, FlagsTyped, Records, Unset, Phases, Guarded, Seen, Shut, Ruled, Held, Mine,
     Behind, RecordsIn, Listening, Idle, RulesFor, Links, NoLinks, kernel, rules, request,
     pass, Outside, ChangeRules, ChangeDevice, LoseBridge, Without, Bridges
<1> QED  BY <1>1, <1>2, <1>3, <1>4, <1>5, <1>6, <1>7, <1>8, <1>9 DEF IInv, Typed

LEMMA RestartKeeps ==
    ASSUME IInv, Restart
    PROVE  IInv'
<1>1. FilesTyped'
  BY Blank, Edited DEF IInv, Typed, FilesTyped, RecordsTyped, kernel, rules, request, pass,
     Event, Works, Restart, Died, NoLinks
<1>2. KernelTyped'
  BY DEF IInv, Typed, KernelTyped, Records, RecordsTyped, RequestTyped, kernel, rules,
     request, pass, Event, Works, Restart, Died, NoLinks
<1>3. RulesTyped'
  BY Blank, Edited DEF IInv, Typed, RulesTyped, RecordsTyped, kernel, rules, request, pass,
     Event, Works, Restart, Died, NoLinks
<1>4. RequestTyped'
  BY DEF IInv, Typed, RequestTyped, kernel, rules, request, pass, Event, Works, Restart,
     Died, NoLinks
<1>5. RecordsTyped'
  BY Blank, Edited DEF IInv, Typed, RecordsTyped, FilesTyped, RequestTyped, kernel, rules,
     request, pass, Event, Works, Restart, Died, NoLinks
<1>6. PassTyped'
  BY NoLinksTyped DEF IInv, Typed, PassTyped, KernelTyped, RecordsTyped, Links, Ops, kernel,
     rules, request, pass, Event, Works, Restart, Died
<1>7. FlagsTyped'
  BY Blank, Edited DEF IInv, Typed, FlagsTyped, Faith, RequestTyped, FilesTyped, kernel,
     rules, request, pass, Event, Works, Restart, Died, NoLinks
<1>8. Bounded'
  BY DEF IInv, Typed, Bounded, Event, Works, VxlanAssumption, kernel, rules, request, pass,
     Restart, Died, NoLinks
<1>9. Phases'
  BY DEF IInv, Typed, FilesTyped, KernelTyped, RulesTyped, RequestTyped, RecordsTyped,
     PassTyped, FlagsTyped, Records, Unset, Phases, Guarded, Seen, Shut, Ruled, Held, Mine,
     Behind, RecordsIn, Listening, Idle, RulesFor, Links, NoLinks, kernel, rules, request,
     pass, Restart, Died
<1> QED  BY <1>1, <1>2, <1>3, <1>4, <1>5, <1>6, <1>7, <1>8, <1>9 DEF IInv, Typed

LEMMA RebootKeeps ==
    ASSUME IInv, Reboot
    PROVE  IInv'
<1>1. FilesTyped'
  BY Blank, Edited DEF IInv, Typed, FilesTyped, RecordsTyped, kernel, rules, request, pass,
     Event, Works, Reboot, Died, Bridges, NoLinks
<1>2. KernelTyped'
  BY DEF IInv, Typed, KernelTyped, Records, RecordsTyped, RequestTyped, kernel, rules,
     request, pass, Event, Works, Reboot, Died, Bridges, NoLinks
<1>3. RulesTyped'
  BY Blank, Edited DEF IInv, Typed, RulesTyped, RecordsTyped, kernel, rules, request, pass,
     Event, Works, Reboot, Died, Bridges, NoLinks
<1>4. RequestTyped'
  BY DEF IInv, Typed, RequestTyped, kernel, rules, request, pass, Event, Works, Reboot,
     Died, Bridges, NoLinks
<1>5. RecordsTyped'
  BY Blank, Edited DEF IInv, Typed, RecordsTyped, FilesTyped, RequestTyped, kernel, rules,
     request, pass, Event, Works, Reboot, Died, Bridges, NoLinks
<1>6. PassTyped'
  BY NoLinksTyped DEF IInv, Typed, PassTyped, KernelTyped, RecordsTyped, Links, Ops, kernel,
     rules, request, pass, Event, Works, Reboot, Died, Bridges
<1>7. FlagsTyped'
  BY Blank, Edited DEF IInv, Typed, FlagsTyped, Faith, RequestTyped, FilesTyped, kernel,
     rules, request, pass, Event, Works, Reboot, Died, Bridges, NoLinks
<1>8. Bounded'
  BY DEF IInv, Typed, Bounded, Event, Works, VxlanAssumption, kernel, rules, request, pass,
     Reboot, Died, Bridges, NoLinks
<1>9. Phases'
  BY DEF IInv, Typed, FilesTyped, KernelTyped, RulesTyped, RequestTyped, RecordsTyped,
     PassTyped, FlagsTyped, Records, Unset, Phases, Guarded, Seen, Shut, Ruled, Held, Mine,
     Behind, RecordsIn, Listening, Idle, RulesFor, Links, NoLinks, kernel, rules, request,
     pass, Reboot, Died, Bridges
<1> QED  BY <1>1, <1>2, <1>3, <1>4, <1>5, <1>6, <1>7, <1>8, <1>9 DEF IInv, Typed

LEMMA Starts == Init => IInv
<1> SUFFICES ASSUME Init PROVE IInv
  OBVIOUS
<1>1. FilesTyped /\ RulesTyped /\ RecordsTyped /\ FlagsTyped
  BY Blank DEF Init, FilesTyped, RulesTyped, RecordsTyped, FlagsTyped, Bridges, Faith
<1>2. KernelTyped /\ RequestTyped
  BY DEF Init, KernelTyped, RequestTyped
<1>3. PassTyped /\ Bounded
  BY NoLinksTyped DEF VxlanAssumption, Init, PassTyped, Bounded, Ops
<1>4. Phases
  BY DEF Init, Phases, Guarded, Seen, Shut, Ruled, Held, Mine, Behind
<1> QED  BY <1>1, <1>2, <1>3, <1>4 DEF IInv, Typed

LEMMA StepsKeep == IInv /\ [Next]_vars => IInv'
<1> SUFFICES ASSUME IInv, [Next]_vars PROVE IInv'
  OBVIOUS
<1>1. CASE SyncStep
  <2>1. UNCHANGED asks
    BY <1>1 DEF SyncStep
  <2> QED  BY <1>1, <2>1, ReadLinksKeeps, CloseKeeps, ClosedKeeps, RemoveRulesKeeps,
              RestoreChainKeeps, PutJumpKeeps, BeginNetworkKeeps, PlanKeeps, StepKeeps,
              EndNetworkKeeps DEF SyncStep
<1>2. CASE ChangeStep
  BY <1>2, DefineKeeps, EndSyncKeeps, WriteKeeps, RemoveDeviceKeeps, RemoveNetworkKeeps,
     EraseKeeps DEF ChangeStep
<1>3. CASE UNCHANGED vars
  BY <1>3 DEF IInv, Typed, FilesTyped, KernelTyped, RulesTyped, RequestTyped, RecordsTyped,
     PassTyped, FlagsTyped, Bounded, Phases, Guarded, Seen, Shut, Ruled, Held, Mine,
     RecordsIn, Listening, Idle, RulesFor, vars, kernel, rules, request, pass
<1> QED  BY <1>1, <1>2, <1>3, BeginPassKeeps, RequestsKeeps, OutsideKeeps, RestartKeeps,
            RebootKeeps DEF Next

(***************************************************************************)
(* Every variable keeps its type (TypeOK), whatever fails and whoever else *)
(* changes the host: services/vxlanService.ts, services/networkService.ts. *)
(***************************************************************************)
THEOREM TypeCorrect == Spec => []TypeOK
<1>1. IInv => TypeOK
  BY DEF IInv, Typed, FilesTyped, KernelTyped, RulesTyped, RequestTyped, RecordsTyped,
         PassTyped, FlagsTyped, Bounded, TypeOK
<1> QED  BY <1>1, Starts, StepsKeep, PTL DEF Spec

(***************************************************************************)
(* A tunnel is never up without its rules (Guarded): for any number of     *)
(* networks, hosts, requests, failures and restarts, as long as nothing    *)
(* outside took the rules away or raised a device, and no pass failed to   *)
(* list the devices, since a pass went through (vxlanService.ts:138-180).  *)
(***************************************************************************)
THEOREM NeverOpen == Spec => []Guarded
<1>1. IInv => Guarded
  BY DEF IInv, Phases
<1> QED  BY <1>1, Starts, StepsKeep, PTL DEF Spec

(***************************************************************************)
(* An answered edit or delete stands: what is kept of it while later       *)
(* passes and changes of other networks go on.                             *)
(***************************************************************************)

\* What has been answered is what the file says, and what a pass goes by; a change
\* that is under way has been answered nothing yet.
Promised ==
    /\ \A i \in Ids : told[i] # Unset =>
           /\ file[i] \in {told[i], Unset}
           /\ old[i] \in {told[i], Unset}
           /\ want[i] \in {told[i], Unset}
    /\ kind # "pass" => target \in Ids /\ told[target] = Unset

\* Which changes are at which step, and what they make of their own network.
Syncing == {"links", "close", "rules", "jump", "each", "plan", "steps"}
Changing ==
    /\ pc \in {"boot", "idle"} => kind = "pass"
    /\ pc = "define" => kind = "create"
    /\ pc = "write" => kind \in {"create", "update"} /\ ~bad
    /\ pc \in {"device", "network"} => kind \in {"create", "delete"}
    /\ pc = "erase" => kind = "delete"
    /\ pc \in Syncing \cup {"write"} /\ kind \in {"create", "update"} => want[target] = asked
    /\ pc \in Syncing /\ kind = "delete" => want[target] = Unset /\ file[target] = Unset

\* With the rules in force, nobody is let in but the hosts of the records.
Applied ==
    /\ pc \in Behind \cup {"write"} /\ faith = "yes" /\ ok
       => \A i \in Mine : chain[i] \in {{}, want[i]}
    /\ pc \in Behind /\ faith = "yes" /\ ok
       => \A i \in Listening(want) : chain[i] = want[i]

\* Without them, an edited network that is up is brought down before the edit is
\* answered, or the edit fails.
Lowered ==
    /\ pc = "jump" /\ faith # "no" => Mine \subseteq links.up
    /\ pc \in Behind /\ faith = "yes" /\ ~ok => Mine \subseteq links.up
    /\ pc \in Behind \cup {"write"} /\ kind \in {"create", "update"} /\ faith = "yes"
       /\ ~ok /\ ~bad /\ target \in Mine
       => \/ pc # "write" /\ target \in todo
          \/ cur = target /\ (pc = "plan" \/ (pc = "steps" /\ "down" \in plan))

AInv == Promised /\ Changing /\ Applied /\ Lowered /\ AnswerStands

LEMMA BeginPassStands ==
    ASSUME IInv, IInv', AInv, BeginPass
    PROVE  AInv'
<1>1. Promised'
  BY DEF IInv, AInv, Promised, Changing, Typed, RequestTyped, FilesTyped, RecordsTyped,
     FlagsTyped, Records, Unset, kernel, rules, request, pass, BeginPass, ReadFile, Sync
<1>2. Changing'
  BY DEF IInv, AInv, Changing, Promised, Syncing, Typed, RequestTyped, FilesTyped,
     RecordsTyped, Records, kernel, rules, request, pass, BeginPass, ReadFile, Sync
<1>3. Applied'
  BY DEF IInv, AInv, Applied, Mine, Behind, Listening, Phases, Seen, Shut, Ruled, Held,
     Guarded, Idle, RulesFor, RecordsIn, Typed, KernelTyped, RulesTyped, PassTyped, Records,
     Unset, kernel, rules, request, pass, BeginPass, ReadFile, Sync
<1>4. Lowered'
  BY DEF IInv, AInv, Lowered, Changing, Syncing, Applied, Promised, Mine, Behind, Listening,
     Phases, Seen, Shut, Held, RecordsIn, Typed, RequestTyped, KernelTyped, PassTyped,
     RecordsTyped, Records, Links, Unset, kernel, rules, request, pass, BeginPass, ReadFile,
     Sync
<1>5. AnswerStands'
  BY DEF IInv, AInv, AnswerStands, Promised, Changing, Applied, Lowered, Mine, Behind,
     Listening, Phases, Seen, Shut, Ruled, Held, Guarded, Idle, RulesFor, RecordsIn, Typed,
     KernelTyped, RulesTyped, FlagsTyped, Records, Unset, kernel, rules, request, pass,
     BeginPass, ReadFile, Sync
<1> QED  BY <1>1, <1>2, <1>3, <1>4, <1>5 DEF AInv

LEMMA ReadLinksStands ==
    ASSUME IInv, IInv', AInv, ReadLinks, UNCHANGED asks
    PROVE  AInv'
<1>1. Promised'
  BY DEF IInv, AInv, Promised, Changing, Typed, RequestTyped, FilesTyped, RecordsTyped,
     FlagsTyped, Records, Unset, kernel, rules, request, pass, ReadLinks, NoLinks
<1>2. Changing'
  BY DEF IInv, AInv, Changing, Promised, Syncing, Typed, RequestTyped, FilesTyped,
     RecordsTyped, Records, kernel, rules, request, pass, ReadLinks, NoLinks
<1>3. Applied'
  BY DEF IInv, AInv, Applied, Mine, Behind, Listening, Phases, Seen, Shut, Ruled, Held,
     Guarded, Idle, RulesFor, RecordsIn, Typed, KernelTyped, RulesTyped, PassTyped, Records,
     Unset, kernel, rules, request, pass, ReadLinks, NoLinks
<1>4. Lowered'
  BY DEF IInv, AInv, Lowered, Changing, Syncing, Applied, Promised, Mine, Behind, Listening,
     Phases, Seen, Shut, Held, RecordsIn, Typed, RequestTyped, KernelTyped, PassTyped,
     RecordsTyped, Records, Links, Unset, kernel, rules, request, pass, ReadLinks, NoLinks
<1>5. AnswerStands'
  BY DEF IInv, AInv, AnswerStands, Promised, Changing, Applied, Lowered, Mine, Behind,
     Listening, Phases, Seen, Shut, Ruled, Held, Guarded, Idle, RulesFor, RecordsIn, Typed,
     KernelTyped, RulesTyped, FlagsTyped, Records, Unset, kernel, rules, request, pass,
     ReadLinks, NoLinks
<1> QED  BY <1>1, <1>2, <1>3, <1>4, <1>5 DEF AInv

LEMMA CloseStands ==
    ASSUME IInv, IInv', AInv, NEW i \in Ids, Close(i), UNCHANGED asks
    PROVE  AInv'
<1>1. Promised'
  BY DEF IInv, AInv, Promised, Changing, Typed, RequestTyped, FilesTyped, RecordsTyped,
     FlagsTyped, Records, Unset, kernel, rules, request, pass, Close, Links
<1>2. Changing'
  BY DEF IInv, AInv, Changing, Promised, Syncing, Typed, RequestTyped, FilesTyped,
     RecordsTyped, Records, kernel, rules, request, pass, Close, Links
<1>3. Applied'
  BY DEF IInv, AInv, Applied, Mine, Behind, Listening, Phases, Seen, Shut, Ruled, Held,
     Guarded, Idle, RulesFor, RecordsIn, Typed, KernelTyped, RulesTyped, PassTyped, Records,
     Unset, kernel, rules, request, pass, Close, Links
<1>4. Lowered'
  BY DEF IInv, AInv, Lowered, Changing, Syncing, Applied, Promised, Mine, Behind, Listening,
     Phases, Seen, Shut, Held, RecordsIn, Typed, RequestTyped, KernelTyped, PassTyped,
     RecordsTyped, Records, Links, Unset, kernel, rules, request, pass, Close, Links
<1>5. AnswerStands'
  BY DEF IInv, AInv, AnswerStands, Promised, Changing, Applied, Lowered, Mine, Behind,
     Listening, Phases, Seen, Shut, Ruled, Held, Guarded, Idle, RulesFor, RecordsIn, Typed,
     KernelTyped, RulesTyped, FlagsTyped, Records, Unset, kernel, rules, request, pass, Close,
     Links
<1> QED  BY <1>1, <1>2, <1>3, <1>4, <1>5 DEF AInv

LEMMA ClosedStands ==
    ASSUME IInv, IInv', AInv, Closed, UNCHANGED asks
    PROVE  AInv'
<1>1. Promised'
  BY DEF IInv, AInv, Promised, Changing, Typed, RequestTyped, FilesTyped, RecordsTyped,
     FlagsTyped, Records, Unset, kernel, rules, request, pass, Closed
<1>2. Changing'
  BY DEF IInv, AInv, Changing, Promised, Syncing, Typed, RequestTyped, FilesTyped,
     RecordsTyped, Records, kernel, rules, request, pass, Closed
<1>3. Applied'
  BY DEF IInv, AInv, Applied, Mine, Behind, Listening, Phases, Seen, Shut, Ruled, Held,
     Guarded, Idle, RulesFor, RecordsIn, Typed, KernelTyped, RulesTyped, PassTyped, Records,
     Unset, kernel, rules, request, pass, Closed
<1>4. Lowered'
  BY DEF IInv, AInv, Lowered, Changing, Syncing, Applied, Promised, Mine, Behind, Listening,
     Phases, Seen, Shut, Held, RecordsIn, Typed, RequestTyped, KernelTyped, PassTyped,
     RecordsTyped, Records, Links, Unset, kernel, rules, request, pass, Closed
<1>5. AnswerStands'
  BY DEF IInv, AInv, AnswerStands, Promised, Changing, Applied, Lowered, Mine, Behind,
     Listening, Phases, Seen, Shut, Ruled, Held, Guarded, Idle, RulesFor, RecordsIn, Typed,
     KernelTyped, RulesTyped, FlagsTyped, Records, Unset, kernel, rules, request, pass, Closed
<1> QED  BY <1>1, <1>2, <1>3, <1>4, <1>5 DEF AInv

LEMMA RemoveRulesStands ==
    ASSUME IInv, IInv', AInv, RemoveRules, UNCHANGED asks
    PROVE  AInv'
<1>1. Promised'
  BY DEF IInv, AInv, Promised, Changing, Typed, RequestTyped, FilesTyped, RecordsTyped,
     FlagsTyped, Records, Unset, kernel, rules, request, pass, RemoveRules, Settled
<1>2. Changing'
  BY DEF IInv, AInv, Changing, Promised, Syncing, Typed, RequestTyped, FilesTyped,
     RecordsTyped, Records, kernel, rules, request, pass, RemoveRules, Settled
<1>3. Applied'
  BY DEF IInv, AInv, Applied, Mine, Behind, Listening, Phases, Seen, Shut, Ruled, Held,
     Guarded, Idle, RulesFor, RecordsIn, Typed, KernelTyped, RulesTyped, PassTyped, Records,
     Unset, kernel, rules, request, pass, RemoveRules, Settled
<1>4. Lowered'
  BY DEF IInv, AInv, Lowered, Changing, Syncing, Applied, Promised, Mine, Behind, Listening,
     Phases, Seen, Shut, Held, RecordsIn, Typed, RequestTyped, KernelTyped, PassTyped,
     RecordsTyped, Records, Links, Unset, kernel, rules, request, pass, RemoveRules, Settled
<1>5. AnswerStands'
  BY DEF IInv, AInv, AnswerStands, Promised, Changing, Applied, Lowered, Mine, Behind,
     Listening, Phases, Seen, Shut, Ruled, Held, Guarded, Idle, RulesFor, RecordsIn, Typed,
     KernelTyped, RulesTyped, FlagsTyped, Records, Unset, kernel, rules, request, pass,
     RemoveRules, Settled
<1> QED  BY <1>1, <1>2, <1>3, <1>4, <1>5 DEF AInv

LEMMA RestoreChainStands ==
    ASSUME IInv, IInv', AInv, RestoreChain, UNCHANGED asks
    PROVE  AInv'
<1>1. Promised'
  BY DEF IInv, AInv, Promised, Changing, Typed, RequestTyped, FilesTyped, RecordsTyped,
     FlagsTyped, Records, Unset, kernel, rules, request, pass, RestoreChain, Settled
<1>2. Changing'
  BY DEF IInv, AInv, Changing, Promised, Syncing, Typed, RequestTyped, FilesTyped,
     RecordsTyped, Records, kernel, rules, request, pass, RestoreChain, Settled
<1>3. Applied'
  BY DEF IInv, AInv, Applied, Mine, Behind, Listening, Phases, Seen, Shut, Ruled, Held,
     Guarded, Idle, RulesFor, RecordsIn, Typed, KernelTyped, RulesTyped, PassTyped, Records,
     Unset, kernel, rules, request, pass, RestoreChain, Settled
<1>4. Lowered'
  BY DEF IInv, AInv, Lowered, Changing, Syncing, Applied, Promised, Mine, Behind, Listening,
     Phases, Seen, Shut, Held, RecordsIn, Typed, RequestTyped, KernelTyped, PassTyped,
     RecordsTyped, Records, Links, Unset, kernel, rules, request, pass, RestoreChain, Settled
<1>5. AnswerStands'
  BY DEF IInv, AInv, AnswerStands, Promised, Changing, Applied, Lowered, Mine, Behind,
     Listening, Phases, Seen, Shut, Ruled, Held, Guarded, Idle, RulesFor, RecordsIn, Typed,
     KernelTyped, RulesTyped, FlagsTyped, Records, Unset, kernel, rules, request, pass,
     RestoreChain, Settled
<1> QED  BY <1>1, <1>2, <1>3, <1>4, <1>5 DEF AInv

LEMMA PutJumpStands ==
    ASSUME IInv, IInv', AInv, PutJump, UNCHANGED asks
    PROVE  AInv'
<1>1. Promised'
  BY DEF IInv, AInv, Promised, Changing, Typed, RequestTyped, FilesTyped, RecordsTyped,
     FlagsTyped, Records, Unset, kernel, rules, request, pass, PutJump, Settled
<1>2. Changing'
  BY DEF IInv, AInv, Changing, Promised, Syncing, Typed, RequestTyped, FilesTyped,
     RecordsTyped, Records, kernel, rules, request, pass, PutJump, Settled
<1>3. Applied'
  BY DEF IInv, AInv, Applied, Mine, Behind, Listening, Phases, Seen, Shut, Ruled, Held,
     Guarded, Idle, RulesFor, RecordsIn, Typed, KernelTyped, RulesTyped, PassTyped, Records,
     Unset, kernel, rules, request, pass, PutJump, Settled
<1>4. Lowered'
  BY DEF IInv, AInv, Lowered, Changing, Syncing, Applied, Promised, Mine, Behind, Listening,
     Phases, Seen, Shut, Held, RecordsIn, Typed, RequestTyped, KernelTyped, PassTyped,
     RecordsTyped, Records, Links, Unset, kernel, rules, request, pass, PutJump, Settled
<1>5. AnswerStands'
  BY DEF IInv, AInv, AnswerStands, Promised, Changing, Applied, Lowered, Mine, Behind,
     Listening, Phases, Seen, Shut, Ruled, Held, Guarded, Idle, RulesFor, RecordsIn, Typed,
     KernelTyped, RulesTyped, FlagsTyped, Records, Unset, kernel, rules, request, pass,
     PutJump, Settled
<1> QED  BY <1>1, <1>2, <1>3, <1>4, <1>5 DEF AInv

LEMMA BeginNetworkStands ==
    ASSUME IInv, IInv', AInv, NEW i \in Ids, BeginNetwork(i), UNCHANGED asks
    PROVE  AInv'
<1>1. Promised'
  BY DEF IInv, AInv, Promised, Changing, Typed, RequestTyped, FilesTyped, RecordsTyped,
     FlagsTyped, Records, Unset, kernel, rules, request, pass, BeginNetwork, RestoreBridge
<1>2. Changing'
  BY DEF IInv, AInv, Changing, Promised, Syncing, Typed, RequestTyped, FilesTyped,
     RecordsTyped, Records, kernel, rules, request, pass, BeginNetwork, RestoreBridge
<1>3. Applied'
  BY DEF IInv, AInv, Applied, Mine, Behind, Listening, Phases, Seen, Shut, Ruled, Held,
     Guarded, Idle, RulesFor, RecordsIn, Typed, KernelTyped, RulesTyped, PassTyped, Records,
     Unset, kernel, rules, request, pass, BeginNetwork, RestoreBridge
<1>4. Lowered'
<2>1. ASSUME ~bad', target \in Mine
      PROVE  ~bad
  BY <2>1 DEF BeginNetwork, RestoreBridge
<2>2. ASSUME kind' \in {"create", "update"}, faith' = "yes", ~ok', ~bad', target' \in Mine'
      PROVE  target' \in todo' \/ cur' = target'
  BY <2>1, <2>2 DEF IInv, AInv, Lowered, Mine, Behind, kernel, rules, request, pass, BeginNetwork
<2> QED  BY <2>2 DEF IInv, AInv, Lowered, Mine, Behind, kernel, rules, request, pass, BeginNetwork
<1>5. AnswerStands'
  BY DEF IInv, AInv, AnswerStands, Promised, Changing, Applied, Lowered, Mine, Behind,
     Listening, Phases, Seen, Shut, Ruled, Held, Guarded, Idle, RulesFor, RecordsIn, Typed,
     KernelTyped, RulesTyped, FlagsTyped, Records, Unset, kernel, rules, request, pass,
     BeginNetwork, RestoreBridge
<1> QED  BY <1>1, <1>2, <1>3, <1>4, <1>5 DEF AInv

LEMMA PlanStands ==
    ASSUME IInv, IInv', AInv, Plan, UNCHANGED asks
    PROVE  AInv'
<1>1. Promised'
  BY DEF IInv, AInv, Promised, Changing, Typed, RequestTyped, FilesTyped, RecordsTyped,
     FlagsTyped, Records, Unset, kernel, rules, request, pass, Plan, Needed, ShouldBeUp
<1>2. Changing'
  BY DEF IInv, AInv, Changing, Promised, Syncing, Typed, RequestTyped, FilesTyped,
     RecordsTyped, Records, kernel, rules, request, pass, Plan, Needed, ShouldBeUp
<1>3. Applied'
  BY DEF IInv, AInv, Applied, Mine, Behind, Listening, Phases, Seen, Shut, Ruled, Held,
     Guarded, Idle, RulesFor, RecordsIn, Typed, KernelTyped, RulesTyped, PassTyped, Records,
     Unset, kernel, rules, request, pass, Plan, Needed, ShouldBeUp
<1>4. Lowered'
<2>1. ASSUME kind' \in {"create", "update"}, faith' = "yes", ~ok', ~bad', target' \in Mine'
      PROVE  target' \in todo' \/ (cur' = target' /\ "down" \in plan')
  <3>1. kind \in {"create", "update"} /\ faith = "yes" /\ ~ok /\ target \in Mine /\ ~bad
    BY <2>1 DEF Mine, kernel, rules, request, pass, Plan
  <3>2. target \in todo \/ cur = target
    BY <3>1 DEF AInv, Lowered, Behind, Plan
  <3>3. target \in links.up
    BY <3>1 DEF AInv, Lowered, Behind, Plan
  <3>4. ASSUME cur = target
        PROVE  "down" \in plan'
    <4>1. cur \notin links.devs \cap links.alien
      BY <2>1, <3>4 DEF Plan
    <4>2. \E have : plan' = Needed(cur, have)
      BY <4>1 DEF Plan
    <4> QED  BY <3>1, <3>3, <3>4, <4>2 DEF Needed, ShouldBeUp, Ops
  <3> QED  BY <3>2, <3>4 DEF request, Plan
<2> QED  BY <2>1 DEF IInv, AInv, Lowered, Mine, Behind, kernel, rules, request, pass, Plan
<1>5. AnswerStands'
  BY DEF IInv, AInv, AnswerStands, Promised, Changing, Applied, Lowered, Mine, Behind,
     Listening, Phases, Seen, Shut, Ruled, Held, Guarded, Idle, RulesFor, RecordsIn, Typed,
     KernelTyped, RulesTyped, FlagsTyped, Records, Unset, kernel, rules, request, pass, Plan,
     Needed, ShouldBeUp
<1> QED  BY <1>1, <1>2, <1>3, <1>4, <1>5 DEF AInv

LEMMA StepStands ==
    ASSUME IInv, IInv', AInv, Step, UNCHANGED asks
    PROVE  AInv'
<1>1. Promised'
  BY DEF IInv, AInv, Promised, Changing, Typed, RequestTyped, FilesTyped, RecordsTyped,
     FlagsTyped, Records, Unset, kernel, rules, request, pass, Step, NextOp, Rank, Ops, Done,
     Stop, Down, Add, Master, Flood, Raise, Fails
<1>2. Changing'
  BY DEF IInv, AInv, Changing, Promised, Syncing, Typed, RequestTyped, FilesTyped,
     RecordsTyped, Records, kernel, rules, request, pass, Step, NextOp, Rank, Ops, Done, Stop,
     Down, Add, Master, Flood, Raise, Fails
<1>3. Applied'
  BY DEF IInv, AInv, Applied, Mine, Behind, Listening, Phases, Seen, Shut, Ruled, Held,
     Guarded, Idle, RulesFor, RecordsIn, Typed, KernelTyped, RulesTyped, PassTyped, Records,
     Unset, kernel, rules, request, pass, Step, NextOp, Rank, Ops, Done, Stop, Down, Add,
     Master, Flood, Raise, Fails
<1>4. Lowered'
  BY DEF IInv, AInv, Lowered, Changing, Syncing, Applied, Promised, Mine, Behind, Listening,
     Phases, Seen, Shut, Held, RecordsIn, Typed, RequestTyped, KernelTyped, PassTyped,
     RecordsTyped, Records, Links, Unset, kernel, rules, request, pass, Step, NextOp, Rank,
     Ops, Done, Stop, Down, Add, Master, Flood, Raise, Fails
<1>5. AnswerStands'
  BY DEF IInv, AInv, AnswerStands, Promised, Changing, Applied, Lowered, Mine, Behind,
     Listening, Phases, Seen, Shut, Ruled, Held, Guarded, Idle, RulesFor, RecordsIn, Typed,
     KernelTyped, RulesTyped, FlagsTyped, Records, Unset, kernel, rules, request, pass, Step,
     NextOp, Rank, Ops, Done, Stop, Down, Add, Master, Flood, Raise, Fails
<1> QED  BY <1>1, <1>2, <1>3, <1>4, <1>5 DEF AInv

LEMMA EndNetworkStands ==
    ASSUME IInv, IInv', AInv, EndNetwork, UNCHANGED asks
    PROVE  AInv'
<1>1. Promised'
  BY DEF IInv, AInv, Promised, Changing, Typed, RequestTyped, FilesTyped, RecordsTyped,
     FlagsTyped, Records, Unset, kernel, rules, request, pass, EndNetwork
<1>2. Changing'
  BY DEF IInv, AInv, Changing, Promised, Syncing, Typed, RequestTyped, FilesTyped,
     RecordsTyped, Records, kernel, rules, request, pass, EndNetwork
<1>3. Applied'
  BY DEF IInv, AInv, Applied, Mine, Behind, Listening, Phases, Seen, Shut, Ruled, Held,
     Guarded, Idle, RulesFor, RecordsIn, Typed, KernelTyped, RulesTyped, PassTyped, Records,
     Unset, kernel, rules, request, pass, EndNetwork
<1>4. Lowered'
  BY DEF IInv, AInv, Lowered, Changing, Syncing, Applied, Promised, Mine, Behind, Listening,
     Phases, Seen, Shut, Held, RecordsIn, Typed, RequestTyped, KernelTyped, PassTyped,
     RecordsTyped, Records, Links, Unset, kernel, rules, request, pass, EndNetwork
<1>5. AnswerStands'
  BY DEF IInv, AInv, AnswerStands, Promised, Changing, Applied, Lowered, Mine, Behind,
     Listening, Phases, Seen, Shut, Ruled, Held, Guarded, Idle, RulesFor, RecordsIn, Typed,
     KernelTyped, RulesTyped, FlagsTyped, Records, Unset, kernel, rules, request, pass,
     EndNetwork
<1> QED  BY <1>1, <1>2, <1>3, <1>4, <1>5 DEF AInv

LEMMA DefineStands ==
    ASSUME IInv, IInv', AInv, Define
    PROVE  AInv'
<1>1. Promised'
  BY DEF IInv, AInv, Promised, Changing, Typed, RequestTyped, FilesTyped, RecordsTyped,
     FlagsTyped, Records, Unset, kernel, rules, request, pass, Define, Over, Sync, NoLinks
<1>2. Changing'
  BY DEF IInv, AInv, Changing, Promised, Syncing, Typed, RequestTyped, FilesTyped,
     RecordsTyped, Records, kernel, rules, request, pass, Define, Over, Sync, NoLinks
<1>3. Applied'
  BY DEF IInv, AInv, Applied, Mine, Behind, Listening, Phases, Seen, Shut, Ruled, Held,
     Guarded, Idle, RulesFor, RecordsIn, Typed, KernelTyped, RulesTyped, PassTyped, Records,
     Unset, kernel, rules, request, pass, Define, Over, Sync, NoLinks
<1>4. Lowered'
  BY DEF IInv, AInv, Lowered, Changing, Syncing, Applied, Promised, Mine, Behind, Listening,
     Phases, Seen, Shut, Held, RecordsIn, Typed, RequestTyped, KernelTyped, PassTyped,
     RecordsTyped, Records, Links, Unset, kernel, rules, request, pass, Define, Over, Sync,
     NoLinks
<1>5. AnswerStands'
  BY DEF IInv, AInv, AnswerStands, Promised, Changing, Applied, Lowered, Mine, Behind,
     Listening, Phases, Seen, Shut, Ruled, Held, Guarded, Idle, RulesFor, RecordsIn, Typed,
     KernelTyped, RulesTyped, FlagsTyped, Records, Unset, kernel, rules, request, pass,
     Define, Over, Sync, NoLinks
<1> QED  BY <1>1, <1>2, <1>3, <1>4, <1>5 DEF AInv

LEMMA EndSyncStands ==
    ASSUME IInv, IInv', AInv, EndSync
    PROVE  AInv'
<1>1. Promised'
<2>1. CASE UNCHANGED told
  BY <2>1 DEF IInv, AInv, Promised, Changing, Typed, RequestTyped, RecordsTyped, Records, request,
     pass, EndSync, Over, Sync
<2>2. CASE kind = "delete" /\ Over /\ Answered(IF ok THEN {} ELSE Unset)
  <3>1. target \in Ids /\ told \in Records /\ file[target] = Unset
    BY <2>2 DEF IInv, AInv, Promised, Changing, Syncing, Typed, FlagsTyped, EndSync
  <3>2. told'[target] \in {{}, Unset} /\ \A i \in Ids \ {target} : told'[i] = told[i]
    BY <2>2, <3>1 DEF Answered, Records
  <3>3. file' = file /\ kind' = "pass" /\ \A i \in Ids : old'[i] = Unset /\ want'[i] = Unset
    BY <2>2 DEF EndSync, Over
  <3> QED  BY <3>1, <3>2, <3>3 DEF AInv, Promised
<2> QED  BY <2>1, <2>2 DEF EndSync, request, pass
<1>2. Changing'
  BY DEF IInv, AInv, Changing, Promised, Syncing, Typed, RequestTyped, FilesTyped,
     RecordsTyped, Records, kernel, rules, request, pass, EndSync, Over, Answered, Sync,
     NoLinks
<1>3. Applied'
  BY DEF IInv, AInv, Applied, Mine, Behind, Listening, Phases, Seen, Shut, Ruled, Held,
     Guarded, Idle, RulesFor, RecordsIn, Typed, KernelTyped, RulesTyped, PassTyped, Records,
     Unset, kernel, rules, request, pass, EndSync, Over, Answered, Sync, NoLinks
<1>4. Lowered'
  BY DEF IInv, AInv, Lowered, Changing, Syncing, Applied, Promised, Mine, Behind, Listening,
     Phases, Seen, Shut, Held, RecordsIn, Typed, RequestTyped, KernelTyped, PassTyped,
     RecordsTyped, Records, Links, Unset, kernel, rules, request, pass, EndSync, Over,
     Answered, Sync, NoLinks
<1>5. AnswerStands'
<2> DEFINE Standing(i) == told'[i] # Unset => chain'[i] \subseteq told'[i]
<2>1. UNCHANGED <<up, alien, chain, jump, faith>>
  BY DEF EndSync, kernel, rules
<2>2. CASE UNCHANGED told
  BY <2>1, <2>2 DEF AInv, AnswerStands
<2>3. CASE kind = "delete" /\ Answered(IF ok THEN {} ELSE Unset)
  <3>1. target \in Ids /\ told \in Records /\ chain \in Records
    BY <2>3 DEF IInv, AInv, Promised, Typed, FlagsTyped, RulesTyped
  <3>2. \A i \in Ids \ {target} : told'[i] = told[i]
    BY <2>3, <3>1 DEF Answered, Records
  <3>3. ASSUME faith = "yes", target \in Mine, ok
        PROVE  chain[target] = {}
    <4>1. chain[target] # Unset
      BY <3>3 DEF IInv, Phases, Guarded, Mine
    <4>2. chain[target] \in {{}, want[target]}
      BY <3>3 DEF AInv, Applied, Behind, EndSync
    <4>3. want[target] = Unset
      BY <2>3 DEF AInv, Changing, Syncing, EndSync
    <4> QED  BY <4>1, <4>2, <4>3
  <3>4. ASSUME ~ok PROVE told'[target] = Unset
    BY <2>3, <3>1, <3>4 DEF Answered, Records
  <3>5. ASSUME NEW i \in Mine, faith = "yes" PROVE Standing(i)
    <4>1. i \in Ids
      BY <3>5 DEF Mine, IInv, Typed, KernelTyped
    <4>2. CASE i # target
      BY <2>1, <3>2, <3>5, <4>1, <4>2 DEF AInv, AnswerStands, Mine
    <4>3. CASE i = target
      BY <2>1, <3>3, <3>4, <3>5, <4>3
    <4> QED  BY <4>2, <4>3
  <3> QED  BY <2>1, <3>5 DEF AnswerStands, Mine
<2> QED  BY <2>2, <2>3 DEF EndSync
<1> QED  BY <1>1, <1>2, <1>3, <1>4, <1>5 DEF AInv

LEMMA WriteStands ==
    ASSUME IInv, IInv', AInv, Write
    PROVE  AInv'
<1>1. Promised'
  BY DEF IInv, AInv, Promised, Changing, Typed, RequestTyped, FilesTyped, RecordsTyped,
     FlagsTyped, Records, Unset, kernel, rules, request, pass, Write, Over, Answered, NoLinks
<1>2. Changing'
  BY DEF IInv, AInv, Changing, Promised, Syncing, Typed, RequestTyped, FilesTyped,
     RecordsTyped, Records, kernel, rules, request, pass, Write, Over, Answered, NoLinks
<1>3. Applied'
  BY DEF IInv, AInv, Applied, Mine, Behind, Listening, Phases, Seen, Shut, Ruled, Held,
     Guarded, Idle, RulesFor, RecordsIn, Typed, KernelTyped, RulesTyped, PassTyped, Records,
     Unset, kernel, rules, request, pass, Write, Over, Answered, NoLinks
<1>4. Lowered'
  BY DEF IInv, AInv, Lowered, Changing, Syncing, Applied, Promised, Mine, Behind, Listening,
     Phases, Seen, Shut, Held, RecordsIn, Typed, RequestTyped, KernelTyped, PassTyped,
     RecordsTyped, Records, Links, Unset, kernel, rules, request, pass, Write, Over, Answered,
     NoLinks
<1>5. AnswerStands'
<2> DEFINE Standing(i) == told'[i] # Unset => chain'[i] \subseteq told'[i]
<2>1. UNCHANGED <<up, alien, chain, jump, faith>>
  BY DEF Write, kernel, rules
<2>2. CASE UNCHANGED told
  BY <2>1, <2>2 DEF AInv, AnswerStands
<2>3. CASE Answered(asked)
  <3>1. kind \in {"create", "update"} /\ pc = "write"
    BY DEF AInv, Changing, Write
  <3>2. target \in Ids /\ told \in Records /\ chain \in Records
    BY <3>1 DEF IInv, AInv, Promised, Typed, FlagsTyped, RulesTyped
  <3>3. told'[target] = asked /\ \A i \in Ids \ {target} : told'[i] = told[i]
    BY <2>3, <3>2 DEF Answered, Records
  <3>4. ASSUME faith = "yes", target \in Mine
        PROVE  chain[target] \subseteq asked
    <4>1. chain[target] # Unset
      BY <3>4 DEF IInv, Phases, Guarded, Mine
    <4>2. want[target] = asked
      BY <3>1 DEF AInv, Changing
    <4>3. CASE ok
      BY <3>1, <3>4, <4>2, <4>3 DEF AInv, Applied
    <4>4. CASE ~ok
      <5>1. ~bad
        BY <3>1 DEF AInv, Changing
      <5> QED  BY <3>1, <3>4, <4>4, <5>1 DEF AInv, Lowered
    <4> QED  BY <4>3, <4>4
  <3>5. ASSUME NEW i \in Mine, faith = "yes" PROVE Standing(i)
    <4>1. i \in Ids
      BY <3>5 DEF Mine, IInv, Typed, KernelTyped
    <4>2. CASE i # target
      BY <2>1, <3>3, <3>5, <4>1, <4>2 DEF AInv, AnswerStands, Mine
    <4>3. CASE i = target
      BY <2>1, <3>3, <3>4, <3>5, <4>3
    <4> QED  BY <4>2, <4>3
  <3> QED  BY <2>1, <3>5 DEF AnswerStands, Mine
<2> QED  BY <2>2, <2>3 DEF Write
<1> QED  BY <1>1, <1>2, <1>3, <1>4, <1>5 DEF AInv

LEMMA RemoveDeviceStands ==
    ASSUME IInv, IInv', AInv, RemoveDevice
    PROVE  AInv'
<1>1. Promised'
  BY DEF IInv, AInv, Promised, Changing, Typed, RequestTyped, FilesTyped, RecordsTyped,
     FlagsTyped, Records, Unset, kernel, rules, request, pass, RemoveDevice, Without
<1>2. Changing'
  BY DEF IInv, AInv, Changing, Promised, Syncing, Typed, RequestTyped, FilesTyped,
     RecordsTyped, Records, kernel, rules, request, pass, RemoveDevice, Without
<1>3. Applied'
  BY DEF IInv, AInv, Applied, Mine, Behind, Listening, Phases, Seen, Shut, Ruled, Held,
     Guarded, Idle, RulesFor, RecordsIn, Typed, KernelTyped, RulesTyped, PassTyped, Records,
     Unset, kernel, rules, request, pass, RemoveDevice, Without
<1>4. Lowered'
  BY DEF IInv, AInv, Lowered, Changing, Syncing, Applied, Promised, Mine, Behind, Listening,
     Phases, Seen, Shut, Held, RecordsIn, Typed, RequestTyped, KernelTyped, PassTyped,
     RecordsTyped, Records, Links, Unset, kernel, rules, request, pass, RemoveDevice, Without
<1>5. AnswerStands'
  BY DEF IInv, AInv, AnswerStands, Promised, Changing, Applied, Lowered, Mine, Behind,
     Listening, Phases, Seen, Shut, Ruled, Held, Guarded, Idle, RulesFor, RecordsIn, Typed,
     KernelTyped, RulesTyped, FlagsTyped, Records, Unset, kernel, rules, request, pass,
     RemoveDevice, Without
<1> QED  BY <1>1, <1>2, <1>3, <1>4, <1>5 DEF AInv

LEMMA RemoveNetworkStands ==
    ASSUME IInv, IInv', AInv, RemoveNetwork
    PROVE  AInv'
<1>1. Promised'
  BY DEF IInv, AInv, Promised, Changing, Typed, RequestTyped, FilesTyped, RecordsTyped,
     FlagsTyped, Records, Unset, kernel, rules, request, pass, RemoveNetwork, Sync
<1>2. Changing'
  BY DEF IInv, AInv, Changing, Promised, Syncing, Typed, RequestTyped, FilesTyped,
     RecordsTyped, Records, kernel, rules, request, pass, RemoveNetwork, Sync
<1>3. Applied'
  BY DEF IInv, AInv, Applied, Mine, Behind, Listening, Phases, Seen, Shut, Ruled, Held,
     Guarded, Idle, RulesFor, RecordsIn, Typed, KernelTyped, RulesTyped, PassTyped, Records,
     Unset, kernel, rules, request, pass, RemoveNetwork, Sync
<1>4. Lowered'
  BY DEF IInv, AInv, Lowered, Changing, Syncing, Applied, Promised, Mine, Behind, Listening,
     Phases, Seen, Shut, Held, RecordsIn, Typed, RequestTyped, KernelTyped, PassTyped,
     RecordsTyped, Records, Links, Unset, kernel, rules, request, pass, RemoveNetwork, Sync
<1>5. AnswerStands'
  BY DEF IInv, AInv, AnswerStands, Promised, Changing, Applied, Lowered, Mine, Behind,
     Listening, Phases, Seen, Shut, Ruled, Held, Guarded, Idle, RulesFor, RecordsIn, Typed,
     KernelTyped, RulesTyped, FlagsTyped, Records, Unset, kernel, rules, request, pass,
     RemoveNetwork, Sync
<1> QED  BY <1>1, <1>2, <1>3, <1>4, <1>5 DEF AInv

LEMMA EraseStands ==
    ASSUME IInv, IInv', AInv, Erase
    PROVE  AInv'
<1>1. Promised'
  BY DEF IInv, AInv, Promised, Changing, Typed, RequestTyped, FilesTyped, RecordsTyped,
     FlagsTyped, Records, Unset, kernel, rules, request, pass, Erase, Over, Sync, NoLinks
<1>2. Changing'
  BY DEF IInv, AInv, Changing, Promised, Syncing, Typed, RequestTyped, FilesTyped,
     RecordsTyped, Records, kernel, rules, request, pass, Erase, Over, Sync, NoLinks
<1>3. Applied'
  BY DEF IInv, AInv, Applied, Mine, Behind, Listening, Phases, Seen, Shut, Ruled, Held,
     Guarded, Idle, RulesFor, RecordsIn, Typed, KernelTyped, RulesTyped, PassTyped, Records,
     Unset, kernel, rules, request, pass, Erase, Over, Sync, NoLinks
<1>4. Lowered'
  BY DEF IInv, AInv, Lowered, Changing, Syncing, Applied, Promised, Mine, Behind, Listening,
     Phases, Seen, Shut, Held, RecordsIn, Typed, RequestTyped, KernelTyped, PassTyped,
     RecordsTyped, Records, Links, Unset, kernel, rules, request, pass, Erase, Over, Sync,
     NoLinks
<1>5. AnswerStands'
  BY DEF IInv, AInv, AnswerStands, Promised, Changing, Applied, Lowered, Mine, Behind,
     Listening, Phases, Seen, Shut, Ruled, Held, Guarded, Idle, RulesFor, RecordsIn, Typed,
     KernelTyped, RulesTyped, FlagsTyped, Records, Unset, kernel, rules, request, pass, Erase,
     Over, Sync, NoLinks
<1> QED  BY <1>1, <1>2, <1>3, <1>4, <1>5 DEF AInv

LEMMA RequestsStands ==
    ASSUME IInv, IInv', AInv, Requests
    PROVE  AInv'
<1>1. Promised'
  BY DEF IInv, AInv, Promised, Changing, Typed, RequestTyped, FilesTyped, RecordsTyped,
     FlagsTyped, Records, Unset, kernel, rules, request, pass, Requests, Create, UpdatePeers,
     Delete, Begin, ReadFile, Sync
<1>2. Changing'
  BY DEF IInv, AInv, Changing, Promised, Syncing, Typed, RequestTyped, FilesTyped,
     RecordsTyped, Records, kernel, rules, request, pass, Requests, Create, UpdatePeers,
     Delete, Begin, ReadFile, Sync
<1>3. Applied'
  BY DEF IInv, AInv, Applied, Mine, Behind, Listening, Phases, Seen, Shut, Ruled, Held,
     Guarded, Idle, RulesFor, RecordsIn, Typed, KernelTyped, RulesTyped, PassTyped, Records,
     Unset, kernel, rules, request, pass, Requests, Create, UpdatePeers, Delete, Begin,
     ReadFile, Sync
<1>4. Lowered'
  BY DEF IInv, AInv, Lowered, Changing, Syncing, Applied, Promised, Mine, Behind, Listening,
     Phases, Seen, Shut, Held, RecordsIn, Typed, RequestTyped, KernelTyped, PassTyped,
     RecordsTyped, Records, Links, Unset, kernel, rules, request, pass, Requests, Create,
     UpdatePeers, Delete, Begin, ReadFile, Sync
<1>5. AnswerStands'
  BY DEF IInv, AInv, AnswerStands, Promised, Changing, Applied, Lowered, Mine, Behind,
     Listening, Phases, Seen, Shut, Ruled, Held, Guarded, Idle, RulesFor, RecordsIn, Typed,
     KernelTyped, RulesTyped, FlagsTyped, Records, Unset, kernel, rules, request, pass,
     Requests, Create, UpdatePeers, Delete, Begin, ReadFile, Sync
<1> QED  BY <1>1, <1>2, <1>3, <1>4, <1>5 DEF AInv

LEMMA OutsideStands ==
    ASSUME IInv, IInv', AInv, Outside
    PROVE  AInv'
<1>1. Promised'
  BY DEF IInv, AInv, Promised, Changing, Typed, RequestTyped, FilesTyped, RecordsTyped,
     FlagsTyped, Records, Unset, kernel, rules, request, pass, Outside, ChangeRules,
     ChangeDevice, LoseBridge, Without
<1>2. Changing'
  BY DEF IInv, AInv, Changing, Promised, Syncing, Typed, RequestTyped, FilesTyped,
     RecordsTyped, Records, kernel, rules, request, pass, Outside, ChangeRules, ChangeDevice,
     LoseBridge, Without
<1>3. Applied'
  BY DEF IInv, AInv, Applied, Mine, Behind, Listening, Phases, Seen, Shut, Ruled, Held,
     Guarded, Idle, RulesFor, RecordsIn, Typed, KernelTyped, RulesTyped, PassTyped, Records,
     Unset, kernel, rules, request, pass, Outside, ChangeRules, ChangeDevice, LoseBridge,
     Without
<1>4. Lowered'
  BY DEF IInv, AInv, Lowered, Changing, Syncing, Applied, Promised, Mine, Behind, Listening,
     Phases, Seen, Shut, Held, RecordsIn, Typed, RequestTyped, KernelTyped, PassTyped,
     RecordsTyped, Records, Links, Unset, kernel, rules, request, pass, Outside, ChangeRules,
     ChangeDevice, LoseBridge, Without
<1>5. AnswerStands'
  BY DEF IInv, AInv, AnswerStands, Promised, Changing, Applied, Lowered, Mine, Behind,
     Listening, Phases, Seen, Shut, Ruled, Held, Guarded, Idle, RulesFor, RecordsIn, Typed,
     KernelTyped, RulesTyped, FlagsTyped, Records, Unset, kernel, rules, request, pass,
     Outside, ChangeRules, ChangeDevice, LoseBridge, Without
<1> QED  BY <1>1, <1>2, <1>3, <1>4, <1>5 DEF AInv

LEMMA RestartStands ==
    ASSUME IInv, IInv', AInv, Restart
    PROVE  AInv'
<1>1. Promised'
  BY DEF IInv, AInv, Promised, Changing, Typed, RequestTyped, FilesTyped, RecordsTyped,
     FlagsTyped, Records, Unset, kernel, rules, request, pass, Restart, Died, NoLinks
<1>2. Changing'
  BY DEF IInv, AInv, Changing, Promised, Syncing, Typed, RequestTyped, FilesTyped,
     RecordsTyped, Records, kernel, rules, request, pass, Restart, Died, NoLinks
<1>3. Applied'
  BY DEF IInv, AInv, Applied, Mine, Behind, Listening, Phases, Seen, Shut, Ruled, Held,
     Guarded, Idle, RulesFor, RecordsIn, Typed, KernelTyped, RulesTyped, PassTyped, Records,
     Unset, kernel, rules, request, pass, Restart, Died, NoLinks
<1>4. Lowered'
  BY DEF IInv, AInv, Lowered, Changing, Syncing, Applied, Promised, Mine, Behind, Listening,
     Phases, Seen, Shut, Held, RecordsIn, Typed, RequestTyped, KernelTyped, PassTyped,
     RecordsTyped, Records, Links, Unset, kernel, rules, request, pass, Restart, Died, NoLinks
<1>5. AnswerStands'
  BY DEF IInv, AInv, AnswerStands, Promised, Changing, Applied, Lowered, Mine, Behind,
     Listening, Phases, Seen, Shut, Ruled, Held, Guarded, Idle, RulesFor, RecordsIn, Typed,
     KernelTyped, RulesTyped, FlagsTyped, Records, Unset, kernel, rules, request, pass,
     Restart, Died, NoLinks
<1> QED  BY <1>1, <1>2, <1>3, <1>4, <1>5 DEF AInv

LEMMA RebootStands ==
    ASSUME IInv, IInv', AInv, Reboot
    PROVE  AInv'
<1>1. Promised'
  BY DEF IInv, AInv, Promised, Changing, Typed, RequestTyped, FilesTyped, RecordsTyped,
     FlagsTyped, Records, Unset, kernel, rules, request, pass, Reboot, Died, NoLinks
<1>2. Changing'
  BY DEF IInv, AInv, Changing, Promised, Syncing, Typed, RequestTyped, FilesTyped,
     RecordsTyped, Records, kernel, rules, request, pass, Reboot, Died, NoLinks
<1>3. Applied'
  BY DEF IInv, AInv, Applied, Mine, Behind, Listening, Phases, Seen, Shut, Ruled, Held,
     Guarded, Idle, RulesFor, RecordsIn, Typed, KernelTyped, RulesTyped, PassTyped, Records,
     Unset, kernel, rules, request, pass, Reboot, Died, NoLinks
<1>4. Lowered'
  BY DEF IInv, AInv, Lowered, Changing, Syncing, Applied, Promised, Mine, Behind, Listening,
     Phases, Seen, Shut, Held, RecordsIn, Typed, RequestTyped, KernelTyped, PassTyped,
     RecordsTyped, Records, Links, Unset, kernel, rules, request, pass, Reboot, Died, NoLinks
<1>5. AnswerStands'
  BY DEF IInv, AInv, AnswerStands, Promised, Changing, Applied, Lowered, Mine, Behind,
     Listening, Phases, Seen, Shut, Ruled, Held, Guarded, Idle, RulesFor, RecordsIn, Typed,
     KernelTyped, RulesTyped, FlagsTyped, Records, Unset, kernel, rules, request, pass,
     Reboot, Died, NoLinks
<1> QED  BY <1>1, <1>2, <1>3, <1>4, <1>5 DEF AInv

LEMMA StandsAtStart == Init => AInv
<1> SUFFICES ASSUME Init PROVE AInv
  OBVIOUS
<1>1. Promised /\ Changing
  BY DEF Init, Promised, Changing, Syncing
<1>2. Applied /\ Lowered /\ AnswerStands
  BY DEF Init, Applied, Lowered, AnswerStands, Mine, Behind
<1> QED  BY <1>1, <1>2 DEF AInv

LEMMA StepsStand == IInv /\ AInv /\ [Next]_vars => AInv'
<1> SUFFICES ASSUME IInv, AInv, [Next]_vars PROVE AInv'
  OBVIOUS
<1>0. IInv'
  BY StepsKeep
<1>1. CASE SyncStep
  <2>1. UNCHANGED asks
    BY <1>1 DEF SyncStep
  <2> QED  BY <1>0, <1>1, <2>1, ReadLinksStands, CloseStands, ClosedStands, RemoveRulesStands,
              RestoreChainStands, PutJumpStands, BeginNetworkStands, PlanStands, StepStands,
              EndNetworkStands DEF SyncStep
<1>2. CASE ChangeStep
  BY <1>0, <1>2, DefineStands, EndSyncStands, WriteStands, RemoveDeviceStands,
     RemoveNetworkStands, EraseStands DEF ChangeStep
<1>3. CASE UNCHANGED vars
  BY <1>3 DEF AInv, Promised, Changing, Applied, Lowered, AnswerStands, Mine, Listening,
     vars, kernel, rules, request, pass
<1> QED  BY <1>0, <1>1, <1>2, <1>3, BeginPassStands, RequestsStands, OutsideStands,
            RestartStands, RebootStands DEF Next

(***************************************************************************)
(* A host that an answered edit or delete took off a network is let in no  *)
(* more (AnswerStands), whatever passes, failures and changes of other     *)
(* networks follow: networkService.ts writes the record and answers only   *)
(* after the pass, vxlanService.ts brings a tunnel down whose rules it     *)
(* could not put in.                                                       *)
(***************************************************************************)
THEOREM AnswersStand == Spec => []AnswerStands
<1>1. AInv => AnswerStands
  BY DEF AInv
<1> QED  BY <1>1, Starts, StepsKeep, StandsAtStart, StepsStand, PTL DEF Spec
=============================================================================
