--------------------------- MODULE DiskCopy_proof ---------------------------
(***************************************************************************)
(* Types of the copies' model and how overlays lie on one another, for any *)
(* copiers; and that what a copy answers is true of its images, for one    *)
(* copy at a time and statistics that are not lost: for any disks and      *)
(* bounds.                                                                 *)
(***************************************************************************)
EXTENDS DiskCopy, TLAPS

USE CopyAssumption

(***************************************************************************)
(* Types.                                                                  *)
(***************************************************************************)

\* The overlays of a disk lie on one another in one line, with the image in use on top.
Chain ==
    \A d \in Disks, c \in Copiers : under[d][c] # None =>
        /\ under[d][c] # top[d]
        /\ under[d][c] # Base => under[d][under[d][c]] # None
        /\ \A o \in Copiers : under[d][o] = under[d][c] => o = c

Pushing == {"probe", "create", "freeze", "begin", "thaw", "wait", "check", "caught", "retry",
            "snap"}

\* A copy has overlays from its snapshot to their commit.
Own(c) ==
    /\ pc[c] \in Pushing => how[c] = "push" /\ \A d \in Disks : under[d][c] = None
    /\ pc[c] \in {"look", "commit"} => how[c] = "snap"
    /\ (pc[c] = "convert" /\ how[c] = "snap") \/ pc[c] = "look"
         => \A d \in Disks : under[d][c] # None
    /\ pc[c] = "commit" => \A d \in left[c] : under[d][c] # None
    /\ pc[c] = "convert" => how[c] # "push"
Owned == \A c \in Copiers : Own(c)

Shape == TypeOK /\ Chain /\ Owned

(***************************************************************************)
(* What the helpers do to the types.                                       *)
(***************************************************************************)

\* What the guest sees is content.
LEMMA NowTyped ==
    ASSUME Shape PROVE Now \in [Disks -> Contents]
BY DEF Shape, TypeOK, DisksTyped, Now

\* A copy that may take a snapshot has no overlay yet.
LEMMA FreshOverlay ==
    ASSUME Shape, NEW c \in Copiers, Snap(c) PROVE \A d \in Disks : under[d][c] = None
BY DEF Shape, Owned, Own, Pushing, Snap, At

\* A copy that is to commit a disk's overlay has it.
LEMMA HasOverlay ==
    ASSUME Shape, NEW c \in Copiers, NEW d \in Disks, Commit(c, d)
    PROVE  under[d][c] \in Images
BY DEF Shape, TypeOK, DisksTyped, Owned, Own, Commit, At

LEMMA PivotTyped ==
    ASSUME Shape, NEW c \in Copiers, Pivot(c) PROVE DisksTyped'
<1>1. top' \in [Disks -> Images]
  BY DEF Pivot, Images
<1>2. \A d \in Disks : top[d] \in Images /\ data[d][top[d]] \in Contents
  BY DEF Shape, TypeOK, DisksTyped
<1>3. \A d \in Disks : [under[d] EXCEPT ![c] = top[d]] \in [Copiers -> Images \cup {None}]
  BY <1>2 DEF Shape, TypeOK, DisksTyped
<1>4. \A d \in Disks : [data[d] EXCEPT ![c] = data[d][top[d]]] \in [Images -> Contents]
  BY <1>2 DEF Shape, TypeOK, DisksTyped, Images
<1> QED
  BY <1>1, <1>3, <1>4 DEF Pivot, DisksTyped

\* A new overlay lies on the image that was in use.
LEMMA PivotChains ==
    ASSUME Shape, NEW c \in Copiers, Pivot(c), \A d \in Disks : under[d][c] = None
    PROVE  Chain'
<1> SUFFICES ASSUME NEW d \in Disks, NEW o \in Copiers, under'[d][o] # None
             PROVE  /\ under'[d][o] # top'[d]
                    /\ under'[d][o] # Base => under'[d][under'[d][o]] # None
                    /\ \A p \in Copiers : under'[d][p] = under'[d][o] => p = o
  BY DEF Chain
<1>1. /\ top'[d] = c /\ under'[d][c] = top[d]
      /\ \A p \in Copiers : p # c => under'[d][p] = under[d][p]
  BY DEF Pivot, Shape, TypeOK, DisksTyped
<1>2. top[d] # c /\ top[d] \in Images /\ (top[d] # Base => under[d][top[d]] # None)
  BY DEF Shape, TypeOK, DisksTyped, Mounted, Images
<1>3. \A p \in Copiers : under[d][p] # None =>
         /\ under[d][p] \in Images /\ under[d][p] # top[d] /\ under[d][p] # c
         /\ under[d][p] # Base => under[d][under[d][p]] # None
         /\ \A q \in Copiers : under[d][q] = under[d][p] => q = p
  BY DEF Shape, TypeOK, DisksTyped, Chain
<1>4. CASE o = c
  BY <1>1, <1>2, <1>3, <1>4 DEF Images
<1>5. CASE o # c
  BY <1>1, <1>2, <1>3, <1>5 DEF Images
<1> QED
  BY <1>4, <1>5

LEMMA MergedTyped ==
    ASSUME Shape, NEW c \in Copiers, NEW d \in Disks, Merged(c, d), under[d][c] \in Images
    PROVE  DisksTyped'
<1> DEFINE disk == [data[d] EXCEPT ![under[d][c]] = data[d][c], ![c] = 0]
<1>1. data' = [data EXCEPT ![d] = disk]
  BY DEF Merged, Shape, TypeOK, DisksTyped
<1>2. 0 \in Contents /\ data[d][c] \in Contents
  BY DEF Shape, TypeOK, DisksTyped, Images, Contents
<1>3. disk \in [Images -> Contents]
  BY <1>2 DEF Shape, TypeOK, DisksTyped
<1>4. [under[d] EXCEPT ![c] = None] \in [Copiers -> Images \cup {None}]
  BY DEF Shape, TypeOK, DisksTyped
<1>5. under' = [under EXCEPT ![d] = [under[d] EXCEPT ![c] = None]]
  BY DEF Merged, Shape, TypeOK, DisksTyped
<1>6. top' \in [Disks -> Images]
  BY DEF Merged, Shape, TypeOK, DisksTyped
<1> HIDE DEF disk
<1>7. data' \in [Disks -> [Images -> Contents]]
  BY <1>1, <1>3 DEF Shape, TypeOK, DisksTyped
<1>8. under' \in [Disks -> [Copiers -> Images \cup {None}]]
  BY <1>4, <1>5 DEF Shape, TypeOK, DisksTyped
<1> QED
  BY <1>6, <1>7, <1>8 DEF DisksTyped

\* The image in use is committed into the one it lies on, which is in use from then.
LEMMA MergedChains ==
    ASSUME Shape, NEW c \in Copiers, NEW d \in Disks, Merged(c, d), under[d][c] \in Images,
           top[d] = c
    PROVE  Chain'
<1> SUFFICES ASSUME NEW e \in Disks, NEW o \in Copiers, under'[e][o] # None
             PROVE  /\ under'[e][o] # top'[e]
                    /\ under'[e][o] # Base => under'[e][under'[e][o]] # None
                    /\ \A p \in Copiers : under'[e][p] = under'[e][o] => p = o
  BY DEF Chain
<1>1. /\ e # d => top'[e] = top[e] /\ under'[e] = under[e]
      /\ e = d => /\ top'[e] = under[e][c] /\ under'[e][c] = None
                  /\ \A p \in Copiers : p # c => under'[e][p] = under[e][p]
  BY DEF Merged, Shape, TypeOK, DisksTyped
<1>2. \A p \in Copiers : under[e][p] # None =>
         /\ under[e][p] \in Images /\ under[e][p] # top[e]
         /\ under[e][p] # Base => under[e][under[e][p]] # None
         /\ \A q \in Copiers : under[e][q] = under[e][p] => q = p
  BY DEF Shape, TypeOK, DisksTyped, Chain
<1>3. CASE e # d
  BY <1>1, <1>2, <1>3
<1>4. CASE e = d
  <2>1. under[e][c] # None
    BY <1>4 DEF Images
  <2> QED
    BY <1>1, <1>2, <1>4, <2>1 DEF Images
<1> QED
  BY <1>3, <1>4

\* A copy that goes on to the live disks has no duty to an overlay.
LEMMA FallOwned ==
    ASSUME Shape, NEW c \in Copiers, Fall(c), UNCHANGED disks PROVE Owned'
<1>1. pc'[c] = "convert" /\ how'[c] = "direct"
  BY DEF Fall, Go, Shape, TypeOK, CopiersTyped
<1>2. \A o \in Copiers : o # c => pc'[o] = pc[o] /\ how'[o] = how[o] /\ left'[o] = left[o]
  BY DEF Fall, Go, Shape, TypeOK, CopiersTyped, LoopTyped
<1>3. under' = under
  BY DEF disks
<1>4. Own(c)'
  BY <1>1 DEF Own, Pushing
<1>5. \A o \in Copiers : o # c => Own(o)'
  BY <1>2, <1>3 DEF Shape, Owned, Own
<1> QED
  BY <1>4, <1>5 DEF Owned

(***************************************************************************)
(* Each step keeps them.                                                   *)
(***************************************************************************)

LEMMA AskKeepsShape ==
    ASSUME Shape, NEW c \in Copiers, NEW k \in Kinds, Ask(c, k)
    PROVE  Shape'
<1>1. GuestTyped'
  BY DEF Shape, TypeOK, GuestTyped, guest, libvirt, Ask, NoFiles, Go, Fine
<1>2. HostTyped'
  BY DEF Shape, TypeOK, HostTyped, libvirt, Ask, NoFiles, Go, Fine
<1>3. DisksTyped'
  BY DEF Shape, TypeOK, DisksTyped, HostTyped, Images, Contents, disks, CopiersTyped,
     Mounted, Ask, NoFiles, Go, Fine
<1>4. Mounted'
  BY DEF Shape, TypeOK, Mounted, DisksTyped, Images, Chain, disks, Ask, NoFiles, Go, Fine
<1>5. CopiersTyped'
  BY DEF Shape, TypeOK, CopiersTyped, DisksTyped, GuestTyped, Phases, Kinds, Tiers, asked,
     Ask, NoFiles, Go, Fine
<1>6. LoopTyped'
  BY DEF Shape, TypeOK, LoopTyped, DisksTyped, CopiersTyped, Contents, Images, loop, Owned,
     Own, Ask, NoFiles, Go, Fine
<1>7. Reading'
  <2> SUFFICES ASSUME NEW o \in Copiers, cur'[o] # None
               PROVE  At(o, "convert")' /\ cur'[o] \in left'[o]
    BY DEF Reading
  <2>1. cur[o] # None /\ pc[o] = "convert" /\ cur[o] \in left[o]
    BY DEF Shape, TypeOK, Reading, At, Ask, loop
  <2>2. o # c
    BY <2>1 DEF Ask
  <2>3. pc'[o] = pc[o] /\ left'[o] = left[o] /\ cur'[o] = cur[o]
    BY <2>2 DEF Shape, TypeOK, CopiersTyped, LoopTyped, Ask, Go
  <2> QED
    BY <2>1, <2>3 DEF At
<1>8. FilesTyped'
  BY DEF Shape, TypeOK, FilesTyped, DisksTyped, HostTyped, GuestTyped, LoopTyped, Contents,
     Images, moment, Ask, NoFiles, Go, Fine
<1>9. Chain'
  BY DEF Shape, TypeOK, Chain, DisksTyped, Images, disks, Owned, Own, Pushing, CopiersTyped,
     Mounted, Ask, NoFiles, Go, Fine
<1>10. Owned'
  BY DEF Shape, TypeOK, Owned, Own, Pushing, DisksTyped, CopiersTyped, Phases, disks, asked,
     loop, LoopTyped, Chain, Images, Ask, NoFiles, Go, Fine
<1> QED
  BY <1>1, <1>2, <1>3, <1>4, <1>5, <1>6, <1>7, <1>8, <1>9, <1>10 DEF Shape, TypeOK

LEMMA ProbeKeepsShape ==
    ASSUME Shape, NEW c \in Copiers, Probe(c)
    PROVE  Shape'
<1>1. GuestTyped'
  BY DEF Shape, TypeOK, GuestTyped, guest, libvirt, Probe, At, Go, Fine
<1>2. HostTyped'
  BY DEF Shape, TypeOK, HostTyped, libvirt, Probe, At, Go, Fine
<1>3. DisksTyped'
  BY DEF Shape, TypeOK, DisksTyped, HostTyped, Images, Contents, disks, CopiersTyped,
     Mounted, Probe, At, Go, Fine
<1>4. Mounted'
  BY DEF Shape, TypeOK, Mounted, DisksTyped, Images, Chain, disks, Probe, At, Go, Fine
<1>5. CopiersTyped'
  BY DEF Shape, TypeOK, CopiersTyped, DisksTyped, GuestTyped, Phases, Kinds, Tiers, asked,
     Probe, At, Go, Fine
<1>6. LoopTyped'
  BY DEF Shape, TypeOK, LoopTyped, DisksTyped, CopiersTyped, Contents, Images, loop, Owned,
     Own, Probe, At, Go, Fine
<1>7. Reading'
  BY DEF Shape, TypeOK, Reading, LoopTyped, CopiersTyped, loop, Phases, Probe, At, Go, Fine
<1>8. FilesTyped'
  BY DEF Shape, TypeOK, FilesTyped, DisksTyped, HostTyped, GuestTyped, LoopTyped, Contents,
     Images, moment, Probe, At, Go, Fine
<1>9. Chain'
  BY DEF Shape, TypeOK, Chain, DisksTyped, Images, disks, Owned, Own, Pushing, CopiersTyped,
     Mounted, Probe, At, Go, Fine
<1>10. Owned'
  BY DEF Shape, TypeOK, Owned, Own, Pushing, DisksTyped, CopiersTyped, Phases, disks, asked,
     loop, LoopTyped, Chain, Images, Probe, At, Go, Fine
<1> QED
  BY <1>1, <1>2, <1>3, <1>4, <1>5, <1>6, <1>7, <1>8, <1>9, <1>10 DEF Shape, TypeOK

LEMMA CreateKeepsShape ==
    ASSUME Shape, NEW c \in Copiers, Create(c)
    PROVE  Shape'
<1>1. GuestTyped'
  BY DEF Shape, TypeOK, GuestTyped, guest, libvirt, Create, At, Go, Fine
<1>2. HostTyped'
  BY DEF Shape, TypeOK, HostTyped, libvirt, Create, At, Go, Fine
<1>3. DisksTyped'
  BY DEF Shape, TypeOK, DisksTyped, HostTyped, Images, Contents, disks, CopiersTyped,
     Mounted, Create, At, Go, Fine
<1>4. Mounted'
  BY DEF Shape, TypeOK, Mounted, DisksTyped, Images, Chain, disks, Create, At, Go, Fine
<1>5. CopiersTyped'
  BY DEF Shape, TypeOK, CopiersTyped, DisksTyped, GuestTyped, Phases, Kinds, Tiers, asked,
     Create, At, Go, Fine
<1>6. LoopTyped'
  BY DEF Shape, TypeOK, LoopTyped, DisksTyped, CopiersTyped, Contents, Images, loop, Owned,
     Own, Create, At, Go, Fine
<1>7. Reading'
  BY DEF Shape, TypeOK, Reading, LoopTyped, CopiersTyped, loop, Phases, Create, At, Go, Fine
<1>8. FilesTyped'
  BY DEF Shape, TypeOK, FilesTyped, DisksTyped, HostTyped, GuestTyped, LoopTyped, Contents,
     Images, moment, Create, At, Go, Fine
<1>9. Chain'
  BY DEF Shape, TypeOK, Chain, DisksTyped, Images, disks, Owned, Own, Pushing, CopiersTyped,
     Mounted, Create, At, Go, Fine
<1>10. Owned'
  BY DEF Shape, TypeOK, Owned, Own, Pushing, DisksTyped, CopiersTyped, Phases, disks, asked,
     loop, LoopTyped, Chain, Images, Create, At, Go, Fine
<1> QED
  BY <1>1, <1>2, <1>3, <1>4, <1>5, <1>6, <1>7, <1>8, <1>9, <1>10 DEF Shape, TypeOK

LEMMA FreezeKeepsShape ==
    ASSUME Shape, NEW c \in Copiers, Freeze(c)
    PROVE  Shape'
<1>1. GuestTyped'
  <2>1. UNCHANGED <<power, checkpoint, push>>
    BY DEF Freeze, libvirt
  <2>2. /\ (frozen' = frozen \/ (frozen' = TRUE /\ power))
        /\ excused' = excused \/ excused' = TRUE
    BY DEF Freeze, Fine, Slip
  <2>3. /\ power \in BOOLEAN /\ frozen \in BOOLEAN /\ (frozen => power)
        /\ checkpoint \in BOOLEAN /\ push \in BOOLEAN /\ excused \in BOOLEAN
    BY DEF Shape, TypeOK, GuestTyped
  <2>4. frozen' \in BOOLEAN /\ (frozen' => power) /\ excused' \in BOOLEAN
    <3>1. excused' \in BOOLEAN
      BY <2>2, <2>3, Zenon
    <3>2. CASE frozen' = frozen
      BY <2>3, <3>1, <3>2
    <3>3. CASE frozen' = TRUE /\ power
      BY <3>1, <3>3
    <3> QED
      BY <2>2, <3>2, <3>3
  <2> QED
    BY <2>1, <2>3, <2>4, Zenon DEF GuestTyped
<1>2. HostTyped'
  BY DEF Shape, TypeOK, HostTyped, libvirt, Freeze, At, Go, Fine, Slip
<1>3. DisksTyped'
  BY DEF Shape, TypeOK, DisksTyped, HostTyped, Images, Contents, disks, CopiersTyped,
     Mounted, Freeze, At, Go, Fine, Slip
<1>4. Mounted'
  BY DEF Shape, TypeOK, Mounted, DisksTyped, Images, Chain, disks, Freeze, At, Go, Fine,
     Slip
<1>5. CopiersTyped'
  BY DEF Shape, TypeOK, CopiersTyped, DisksTyped, GuestTyped, Phases, Kinds, Tiers, asked,
     Freeze, At, Go, Fine, Slip
<1>6. LoopTyped'
  BY DEF Shape, TypeOK, LoopTyped, DisksTyped, CopiersTyped, Contents, Images, loop, Owned,
     Own, Freeze, At, Go, Fine, Slip
<1>7. Reading'
  BY DEF Shape, TypeOK, Reading, LoopTyped, CopiersTyped, loop, Phases, Freeze, At, Go,
     Fine, Slip
<1>8. FilesTyped'
  BY DEF Shape, TypeOK, FilesTyped, DisksTyped, HostTyped, GuestTyped, LoopTyped, Contents,
     Images, moment, Freeze, At, Go, Fine, Slip
<1>9. Chain'
  BY DEF Shape, TypeOK, Chain, DisksTyped, Images, disks, Owned, Own, Pushing, CopiersTyped,
     Mounted, Freeze, At, Go, Fine, Slip
<1>10. Owned'
  BY DEF Shape, TypeOK, Owned, Own, Pushing, DisksTyped, CopiersTyped, Phases, disks, asked,
     loop, LoopTyped, Chain, Images, Freeze, At, Go, Fine, Slip
<1> QED
  BY <1>1, <1>2, <1>3, <1>4, <1>5, <1>6, <1>7, <1>8, <1>9, <1>10 DEF Shape, TypeOK

LEMMA BeginKeepsShape ==
    ASSUME Shape, NEW c \in Copiers, Begin(c)
    PROVE  Shape'
<1>1. GuestTyped'
  BY DEF Shape, TypeOK, GuestTyped, guest, libvirt, Begin, At, Go, Begun, Now
<1>2. HostTyped'
  BY DEF Shape, TypeOK, HostTyped, libvirt, Begin, At, Go, Begun, Now
<1>3. DisksTyped'
  BY DEF Shape, TypeOK, DisksTyped, HostTyped, Images, Contents, disks, CopiersTyped,
     Mounted, Begin, At, Go, Begun, Now
<1>4. Mounted'
  BY DEF Shape, TypeOK, Mounted, DisksTyped, Images, Chain, disks, Begin, At, Go, Begun, Now
<1>5. CopiersTyped'
  BY DEF Shape, TypeOK, CopiersTyped, DisksTyped, GuestTyped, Phases, Kinds, Tiers, asked,
     Begin, At, Go, Begun, Now
<1>6. LoopTyped'
  BY DEF Shape, TypeOK, LoopTyped, DisksTyped, CopiersTyped, Contents, Images, loop, Owned,
     Own, Begin, At, Go, Begun, Now
<1>7. Reading'
  BY DEF Shape, TypeOK, Reading, LoopTyped, CopiersTyped, loop, Phases, Begin, At, Go,
     Begun, Now
<1>8. FilesTyped'
  <2>1. /\ image' = image
        /\ \/ point' = [point EXCEPT ![c] = Now] /\ calm' = [calm EXCEPT ![c] = frozen]
           \/ point' = point /\ calm' = calm
    BY DEF Begin, Begun, moment
  <2>2. Now \in [Disks -> Contents] /\ frozen \in BOOLEAN
    BY NowTyped DEF Shape, TypeOK, GuestTyped
  <2>3. point' \in [Copiers -> [Disks -> Contents]]
    BY <2>1, <2>2 DEF Shape, TypeOK, FilesTyped
  <2>4. calm' \in [Copiers -> BOOLEAN]
    BY <2>1, <2>2, Zenon DEF Shape, TypeOK, FilesTyped
  <2> QED
    BY <2>1, <2>3, <2>4 DEF Shape, TypeOK, FilesTyped
<1>9. Chain'
  BY DEF Shape, TypeOK, Chain, DisksTyped, Images, disks, Owned, Own, Pushing, CopiersTyped,
     Mounted, Begin, At, Go, Begun, Now
<1>10. Owned'
  BY DEF Shape, TypeOK, Owned, Own, Pushing, DisksTyped, CopiersTyped, Phases, disks, asked,
     loop, LoopTyped, Chain, Images, Begin, At, Go, Begun, Now
<1> QED
  BY <1>1, <1>2, <1>3, <1>4, <1>5, <1>6, <1>7, <1>8, <1>9, <1>10 DEF Shape, TypeOK

LEMMA ThawKeepsShape ==
    ASSUME Shape, NEW c \in Copiers, Thaw(c)
    PROVE  Shape'
<1>1. GuestTyped'
  BY DEF Shape, TypeOK, GuestTyped, guest, libvirt, Thaw, At, Go, Fine, Slip
<1>2. HostTyped'
  BY DEF Shape, TypeOK, HostTyped, libvirt, Thaw, At, Go, Fine, Slip
<1>3. DisksTyped'
  BY DEF Shape, TypeOK, DisksTyped, HostTyped, Images, Contents, disks, CopiersTyped,
     Mounted, Thaw, At, Go, Fine, Slip
<1>4. Mounted'
  BY DEF Shape, TypeOK, Mounted, DisksTyped, Images, Chain, disks, Thaw, At, Go, Fine, Slip
<1>5. CopiersTyped'
  BY DEF Shape, TypeOK, CopiersTyped, DisksTyped, GuestTyped, Phases, Kinds, Tiers, asked,
     Thaw, At, Go, Fine, Slip
<1>6. LoopTyped'
  BY DEF Shape, TypeOK, LoopTyped, DisksTyped, CopiersTyped, Contents, Images, loop, Owned,
     Own, Thaw, At, Go, Fine, Slip
<1>7. Reading'
  BY DEF Shape, TypeOK, Reading, LoopTyped, CopiersTyped, loop, Phases, Thaw, At, Go, Fine,
     Slip
<1>8. FilesTyped'
  BY DEF Shape, TypeOK, FilesTyped, DisksTyped, HostTyped, GuestTyped, LoopTyped, Contents,
     Images, moment, Thaw, At, Go, Fine, Slip
<1>9. Chain'
  BY DEF Shape, TypeOK, Chain, DisksTyped, Images, disks, Owned, Own, Pushing, CopiersTyped,
     Mounted, Thaw, At, Go, Fine, Slip
<1>10. Owned'
  BY DEF Shape, TypeOK, Owned, Own, Pushing, DisksTyped, CopiersTyped, Phases, disks, asked,
     loop, LoopTyped, Chain, Images, Thaw, At, Go, Fine, Slip
<1> QED
  BY <1>1, <1>2, <1>3, <1>4, <1>5, <1>6, <1>7, <1>8, <1>9, <1>10 DEF Shape, TypeOK

LEMMA WaitKeepsShape ==
    ASSUME Shape, NEW c \in Copiers, Wait(c)
    PROVE  Shape'
<1>1. GuestTyped'
  BY DEF Shape, TypeOK, GuestTyped, guest, libvirt, Wait, At, Go, Fine, Abandon
<1>2. HostTyped'
  BY DEF Shape, TypeOK, HostTyped, libvirt, Wait, At, Go, Fine, Abandon
<1>3. DisksTyped'
  BY DEF Shape, TypeOK, DisksTyped, HostTyped, Images, Contents, disks, CopiersTyped,
     Mounted, Wait, At, Go, Fine, Abandon
<1>4. Mounted'
  BY DEF Shape, TypeOK, Mounted, DisksTyped, Images, Chain, disks, Wait, At, Go, Fine,
     Abandon
<1>5. CopiersTyped'
  BY DEF Shape, TypeOK, CopiersTyped, DisksTyped, GuestTyped, Phases, Kinds, Tiers, asked,
     Wait, At, Go, Fine, Abandon
<1>6. LoopTyped'
  BY DEF Shape, TypeOK, LoopTyped, DisksTyped, CopiersTyped, Contents, Images, loop, Owned,
     Own, Wait, At, Go, Fine, Abandon
<1>7. Reading'
  BY DEF Shape, TypeOK, Reading, LoopTyped, CopiersTyped, loop, Phases, Wait, At, Go, Fine,
     Abandon
<1>8. FilesTyped'
  BY DEF Shape, TypeOK, FilesTyped, DisksTyped, HostTyped, GuestTyped, LoopTyped, Contents,
     Images, moment, Wait, At, Go, Fine, Abandon
<1>9. Chain'
  BY DEF Shape, TypeOK, Chain, DisksTyped, Images, disks, Owned, Own, Pushing, CopiersTyped,
     Mounted, Wait, At, Go, Fine, Abandon
<1>10. Owned'
  BY DEF Shape, TypeOK, Owned, Own, Pushing, DisksTyped, CopiersTyped, Phases, disks, asked,
     loop, LoopTyped, Chain, Images, Wait, At, Go, Fine, Abandon
<1> QED
  BY <1>1, <1>2, <1>3, <1>4, <1>5, <1>6, <1>7, <1>8, <1>9, <1>10 DEF Shape, TypeOK

LEMMA CheckKeepsShape ==
    ASSUME Shape, NEW c \in Copiers, Check(c)
    PROVE  Shape'
<1>1. GuestTyped'
  BY DEF Shape, TypeOK, GuestTyped, guest, libvirt, Check, At, Go, Fine
<1>2. HostTyped'
  BY DEF Shape, TypeOK, HostTyped, libvirt, Check, At, Go, Fine
<1>3. DisksTyped'
  BY DEF Shape, TypeOK, DisksTyped, HostTyped, Images, Contents, disks, CopiersTyped,
     Mounted, Check, At, Go, Fine
<1>4. Mounted'
  BY DEF Shape, TypeOK, Mounted, DisksTyped, Images, Chain, disks, Check, At, Go, Fine
<1>5. CopiersTyped'
  BY DEF Shape, TypeOK, CopiersTyped, DisksTyped, GuestTyped, Phases, Kinds, Tiers, asked,
     Check, At, Go, Fine
<1>6. LoopTyped'
  BY DEF Shape, TypeOK, LoopTyped, DisksTyped, CopiersTyped, Contents, Images, loop, Owned,
     Own, Check, At, Go, Fine
<1>7. Reading'
  BY DEF Shape, TypeOK, Reading, LoopTyped, CopiersTyped, loop, Phases, Check, At, Go, Fine
<1>8. FilesTyped'
  BY DEF Shape, TypeOK, FilesTyped, DisksTyped, HostTyped, GuestTyped, LoopTyped, Contents,
     Images, moment, Check, At, Go, Fine
<1>9. Chain'
  BY DEF Shape, TypeOK, Chain, DisksTyped, Images, disks, Owned, Own, Pushing, CopiersTyped,
     Mounted, Check, At, Go, Fine
<1>10. Owned'
  BY DEF Shape, TypeOK, Owned, Own, Pushing, DisksTyped, CopiersTyped, Phases, disks, asked,
     loop, LoopTyped, Chain, Images, Check, At, Go, Fine
<1> QED
  BY <1>1, <1>2, <1>3, <1>4, <1>5, <1>6, <1>7, <1>8, <1>9, <1>10 DEF Shape, TypeOK

LEMMA CaughtKeepsShape ==
    ASSUME Shape, NEW c \in Copiers, Caught(c)
    PROVE  Shape'
<1>1. GuestTyped'
  BY DEF Shape, TypeOK, GuestTyped, guest, libvirt, Caught, At, Go, Fine, NoFiles
<1>2. HostTyped'
  BY DEF Shape, TypeOK, HostTyped, libvirt, Caught, At, Go, Fine, NoFiles
<1>3. DisksTyped'
  BY DEF Shape, TypeOK, DisksTyped, HostTyped, Images, Contents, disks, CopiersTyped,
     Mounted, Caught, At, Go, Fine, NoFiles
<1>4. Mounted'
  BY DEF Shape, TypeOK, Mounted, DisksTyped, Images, Chain, disks, Caught, At, Go, Fine,
     NoFiles
<1>5. CopiersTyped'
  BY DEF Shape, TypeOK, CopiersTyped, DisksTyped, GuestTyped, Phases, Kinds, Tiers, asked,
     Caught, At, Go, Fine, NoFiles
<1>6. LoopTyped'
  BY DEF Shape, TypeOK, LoopTyped, DisksTyped, CopiersTyped, Contents, Images, loop, Owned,
     Own, Caught, At, Go, Fine, NoFiles
<1>7. Reading'
  BY DEF Shape, TypeOK, Reading, LoopTyped, CopiersTyped, loop, Phases, Caught, At, Go,
     Fine, NoFiles
<1>8. FilesTyped'
  BY DEF Shape, TypeOK, FilesTyped, DisksTyped, HostTyped, GuestTyped, LoopTyped, Contents,
     Images, moment, Caught, At, Go, Fine, NoFiles
<1>9. Chain'
  BY DEF Shape, TypeOK, Chain, DisksTyped, Images, disks, Owned, Own, Pushing, CopiersTyped,
     Mounted, Caught, At, Go, Fine, NoFiles
<1>10. Owned'
  BY DEF Shape, TypeOK, Owned, Own, Pushing, DisksTyped, CopiersTyped, Phases, disks, asked,
     loop, LoopTyped, Chain, Images, Caught, At, Go, Fine, NoFiles
<1> QED
  BY <1>1, <1>2, <1>3, <1>4, <1>5, <1>6, <1>7, <1>8, <1>9, <1>10 DEF Shape, TypeOK

LEMMA RetryKeepsShape ==
    ASSUME Shape, NEW c \in Copiers, Retry(c)
    PROVE  Shape'
<1>1. GuestTyped'
  BY DEF Shape, TypeOK, GuestTyped, guest, libvirt, Retry, At, Go, Fine, NoFiles
<1>2. HostTyped'
  BY DEF Shape, TypeOK, HostTyped, libvirt, Retry, At, Go, Fine, NoFiles
<1>3. DisksTyped'
  BY DEF Shape, TypeOK, DisksTyped, HostTyped, Images, Contents, disks, CopiersTyped,
     Mounted, Retry, At, Go, Fine, NoFiles
<1>4. Mounted'
  BY DEF Shape, TypeOK, Mounted, DisksTyped, Images, Chain, disks, Retry, At, Go, Fine,
     NoFiles
<1>5. CopiersTyped'
  BY DEF Shape, TypeOK, CopiersTyped, DisksTyped, GuestTyped, Phases, Kinds, Tiers, asked,
     Retry, At, Go, Fine, NoFiles
<1>6. LoopTyped'
  BY DEF Shape, TypeOK, LoopTyped, DisksTyped, CopiersTyped, Contents, Images, loop, Owned,
     Own, Retry, At, Go, Fine, NoFiles
<1>7. Reading'
  BY DEF Shape, TypeOK, Reading, LoopTyped, CopiersTyped, loop, Phases, Retry, At, Go, Fine,
     NoFiles
<1>8. FilesTyped'
  BY DEF Shape, TypeOK, FilesTyped, DisksTyped, HostTyped, GuestTyped, LoopTyped, Contents,
     Images, moment, Retry, At, Go, Fine, NoFiles
<1>9. Chain'
  BY DEF Shape, TypeOK, Chain, DisksTyped, Images, disks, Owned, Own, Pushing, CopiersTyped,
     Mounted, Retry, At, Go, Fine, NoFiles
<1>10. Owned'
  BY DEF Shape, TypeOK, Owned, Own, Pushing, DisksTyped, CopiersTyped, Phases, disks, asked,
     loop, LoopTyped, Chain, Images, Retry, At, Go, Fine, NoFiles
<1> QED
  BY <1>1, <1>2, <1>3, <1>4, <1>5, <1>6, <1>7, <1>8, <1>9, <1>10 DEF Shape, TypeOK

LEMMA SnapKeepsShape ==
    ASSUME Shape, NEW c \in Copiers, Snap(c)
    PROVE  Shape'
<1>1. GuestTyped'
  BY DEF Shape, TypeOK, GuestTyped, guest, libvirt, Snap, At, Go, Fine, Slip, NoFiles,
     Pivot, Fall, Now
<1>2. HostTyped'
  BY DEF Shape, TypeOK, HostTyped, libvirt, Snap, At, Go, Fine, Slip, NoFiles, Pivot, Fall,
     Now
<1>3. DisksTyped'
  BY PivotTyped, FreshOverlay DEF Shape, TypeOK, DisksTyped, disks, Snap
<1>4. Mounted'
  BY DEF Shape, TypeOK, Mounted, DisksTyped, Images, Chain, disks, Snap, At, Go, Fine, Slip,
     NoFiles, Pivot, Fall, Now
<1>5. CopiersTyped'
  <2>1. /\ pc' = [pc EXCEPT ![c] = "convert"]
        /\ how' = [how EXCEPT ![c] = "snap"] \/ how' = [how EXCEPT ![c] = "direct"]
        /\ UNCHANGED <<kind, on, src>>
    BY DEF Snap, Go, Fall, asked
  <2>2. /\ \E q \in BOOLEAN : quiet' = [quiet EXCEPT ![c] = q] \/ quiet' = quiet
        /\ err' = [err EXCEPT ![c] = FALSE] \/ err' = err
    BY DEF Snap
  <2>3. pc' \in [Copiers -> Phases] /\ how' \in [Copiers -> Tiers]
    BY <2>1 DEF Shape, TypeOK, CopiersTyped, Phases, Tiers
  <2>4. quiet' \in [Copiers -> BOOLEAN] /\ err' \in [Copiers -> BOOLEAN]
    BY <2>2, Zenon DEF Shape, TypeOK, CopiersTyped
  <2> QED
    BY <2>1, <2>3, <2>4 DEF Shape, TypeOK, CopiersTyped
<1>6. LoopTyped'
  <2>1. left' = [left EXCEPT ![c] = Disks] /\ UNCHANGED <<cur, got>>
    BY DEF Snap, Fall
  <2> QED
    BY <2>1 DEF Shape, TypeOK, LoopTyped
<1>7. Reading'
  BY DEF Shape, TypeOK, Reading, LoopTyped, CopiersTyped, loop, Phases, Snap, At, Go, Fine,
     Slip, NoFiles, Pivot, Fall, Now
<1>8. FilesTyped'
  <2>1. /\ image' = image \/ NoFiles(c)
        /\ \/ /\ point' = [point EXCEPT ![c] = Now]
              /\ \E b \in BOOLEAN : calm' = [calm EXCEPT ![c] = b]
           \/ point' = point /\ calm' = calm
    <3>1. CASE UNCHANGED moment
      BY <3>1 DEF Snap, Fall, moment
    <3>2. CASE /\ image' = image /\ point' = [point EXCEPT ![c] = Now]
               /\ \E q \in BOOLEAN : calm' = [calm EXCEPT ![c] = q \/ frozen \/ ~power]
      <4> PICK q \in BOOLEAN : calm' = [calm EXCEPT ![c] = q \/ frozen \/ ~power]
        BY <3>2
      <4> (q \/ frozen \/ ~power) \in BOOLEAN
        BY Zenon DEF Shape, TypeOK, GuestTyped
      <4> QED
        BY <3>2
    <3> QED
      BY <3>1, <3>2 DEF Snap
  <2>2. Now \in [Disks -> Contents]
    BY NowTyped
  <2>3. point' \in [Copiers -> [Disks -> Contents]]
    BY <2>1, <2>2 DEF Shape, TypeOK, FilesTyped
  <2>4. calm' \in [Copiers -> BOOLEAN]
    BY <2>1, Zenon DEF Shape, TypeOK, FilesTyped
  <2>5. image' \in [Copiers -> [Disks -> Contents \cup {None, Torn}]]
    BY <2>1 DEF Shape, TypeOK, FilesTyped, NoFiles
  <2> QED
    BY <2>3, <2>4, <2>5 DEF FilesTyped
<1>9. Chain'
  <2>1. CASE Pivot(c)
    BY <2>1, PivotChains, FreshOverlay
  <2>2. CASE UNCHANGED disks
    BY <2>2 DEF Shape, Chain, disks
  <2> QED
    BY <2>1, <2>2 DEF Snap
<1>10. Owned'
  BY DEF Shape, TypeOK, Owned, Own, Pushing, DisksTyped, CopiersTyped, Phases, disks, asked,
     loop, LoopTyped, Chain, Images, Snap, At, Go, Fine, Slip, NoFiles, Pivot, Fall, Now
<1> QED
  BY <1>1, <1>2, <1>3, <1>4, <1>5, <1>6, <1>7, <1>8, <1>9, <1>10 DEF Shape, TypeOK

LEMMA StartConvertKeepsShape ==
    ASSUME Shape, NEW c \in Copiers, NEW d \in Disks, StartConvert(c, d)
    PROVE  Shape'
<1>1. GuestTyped'
  BY DEF Shape, TypeOK, GuestTyped, guest, libvirt, StartConvert, At, Fine, Now, Source,
     There
<1>2. HostTyped'
  BY DEF Shape, TypeOK, HostTyped, libvirt, StartConvert, At, Fine, Now, Source, There
<1>3. DisksTyped'
  BY DEF Shape, TypeOK, DisksTyped, HostTyped, Images, Contents, disks, CopiersTyped,
     Mounted, StartConvert, At, Fine, Now, Source, There
<1>4. Mounted'
  BY DEF Shape, TypeOK, Mounted, DisksTyped, Images, Chain, disks, StartConvert, At, Fine,
     Now, Source, There
<1>5. CopiersTyped'
  BY DEF Shape, TypeOK, CopiersTyped, DisksTyped, GuestTyped, Phases, Kinds, Tiers, asked,
     StartConvert, At, Fine, Now, Source, There
<1>6. LoopTyped'
  BY DEF Shape, TypeOK, LoopTyped, DisksTyped, CopiersTyped, Contents, Images, loop, Owned,
     Own, StartConvert, At, Fine, Now, Source, There
<1>7. Reading'
  BY DEF Shape, TypeOK, Reading, LoopTyped, CopiersTyped, loop, Phases, StartConvert, At,
     Fine, Now, Source, There
<1>8. FilesTyped'
  <2>1. image' = [image EXCEPT ![c] = [image[c] EXCEPT ![d] = Torn]]
    BY DEF StartConvert, Shape, TypeOK, FilesTyped
  <2>2. [image[c] EXCEPT ![d] = Torn] \in [Disks -> Contents \cup {None, Torn}]
    BY DEF Shape, TypeOK, FilesTyped
  <2>3. image' \in [Copiers -> [Disks -> Contents \cup {None, Torn}]]
    BY <2>1, <2>2 DEF Shape, TypeOK, FilesTyped
  <2>4. \/ point' = [point EXCEPT ![c] = Now] /\ calm' = [calm EXCEPT ![c] = ~power]
        \/ point' = point /\ calm' = calm
    BY DEF StartConvert, moment
  <2>5. Now \in [Disks -> Contents] /\ (~power) \in BOOLEAN
    BY NowTyped DEF Shape, TypeOK, GuestTyped
  <2>6. point' \in [Copiers -> [Disks -> Contents]]
    BY <2>4, <2>5 DEF Shape, TypeOK, FilesTyped
  <2>7. calm' \in [Copiers -> BOOLEAN]
    BY <2>4, <2>5, Zenon DEF Shape, TypeOK, FilesTyped
  <2> QED
    BY <2>3, <2>6, <2>7 DEF FilesTyped
<1>9. Chain'
  BY DEF Shape, TypeOK, Chain, DisksTyped, Images, disks, Owned, Own, Pushing, CopiersTyped,
     Mounted, StartConvert, At, Fine, Now, Source, There
<1>10. Owned'
  BY DEF Shape, TypeOK, Owned, Own, Pushing, DisksTyped, CopiersTyped, Phases, disks, asked,
     loop, LoopTyped, Chain, Images, StartConvert, At, Fine, Now, Source, There
<1> QED
  BY <1>1, <1>2, <1>3, <1>4, <1>5, <1>6, <1>7, <1>8, <1>9, <1>10 DEF Shape, TypeOK

LEMMA EndConvertKeepsShape ==
    ASSUME Shape, NEW c \in Copiers, EndConvert(c)
    PROVE  Shape'
<1>1. GuestTyped'
  BY DEF Shape, TypeOK, GuestTyped, guest, libvirt, EndConvert, At, Fine, Source, There
<1>2. HostTyped'
  BY DEF Shape, TypeOK, HostTyped, libvirt, EndConvert, At, Fine, Source, There
<1>3. DisksTyped'
  BY DEF Shape, TypeOK, DisksTyped, HostTyped, Images, Contents, disks, CopiersTyped,
     Mounted, EndConvert, At, Fine, Source, There
<1>4. Mounted'
  BY DEF Shape, TypeOK, Mounted, DisksTyped, Images, Chain, disks, EndConvert, At, Fine,
     Source, There
<1>5. CopiersTyped'
  BY DEF Shape, TypeOK, CopiersTyped, DisksTyped, GuestTyped, Phases, Kinds, Tiers, asked,
     EndConvert, At, Fine, Source, There
<1>6. LoopTyped'
  BY DEF Shape, TypeOK, LoopTyped, DisksTyped, CopiersTyped, Contents, Images, loop, Owned,
     Own, EndConvert, At, Fine, Source, There
<1>7. Reading'
  BY DEF Shape, TypeOK, Reading, LoopTyped, CopiersTyped, loop, Phases, EndConvert, At,
     Fine, Source, There
<1>8. FilesTyped'
  BY DEF Shape, TypeOK, FilesTyped, DisksTyped, HostTyped, GuestTyped, LoopTyped, Contents,
     Images, moment, EndConvert, At, Fine, Source, There
<1>9. Chain'
  BY DEF Shape, TypeOK, Chain, DisksTyped, Images, disks, Owned, Own, Pushing, CopiersTyped,
     Mounted, EndConvert, At, Fine, Source, There
<1>10. Owned'
  BY DEF Shape, TypeOK, Owned, Own, Pushing, DisksTyped, CopiersTyped, Phases, disks, asked,
     loop, LoopTyped, Chain, Images, EndConvert, At, Fine, Source, There
<1> QED
  BY <1>1, <1>2, <1>3, <1>4, <1>5, <1>6, <1>7, <1>8, <1>9, <1>10 DEF Shape, TypeOK

LEMMA ConvertFailsKeepsShape ==
    ASSUME Shape, NEW c \in Copiers, ConvertFails(c)
    PROVE  Shape'
<1>1. GuestTyped'
  BY DEF Shape, TypeOK, GuestTyped, guest, libvirt, ConvertFails, At, Go, Fine, NoFiles
<1>2. HostTyped'
  BY DEF Shape, TypeOK, HostTyped, libvirt, ConvertFails, At, Go, Fine, NoFiles
<1>3. DisksTyped'
  BY DEF Shape, TypeOK, DisksTyped, HostTyped, Images, Contents, disks, CopiersTyped,
     Mounted, ConvertFails, At, Go, Fine, NoFiles
<1>4. Mounted'
  BY DEF Shape, TypeOK, Mounted, DisksTyped, Images, Chain, disks, ConvertFails, At, Go,
     Fine, NoFiles
<1>5. CopiersTyped'
  BY DEF Shape, TypeOK, CopiersTyped, DisksTyped, GuestTyped, Phases, Kinds, Tiers, asked,
     ConvertFails, At, Go, Fine, NoFiles
<1>6. LoopTyped'
  <2>1. /\ cur' = [cur EXCEPT ![c] = None] /\ got' = [got EXCEPT ![c] = 0]
        /\ left' = left \/ left' = [left EXCEPT ![c] = {}]
    BY DEF ConvertFails
  <2> QED
    BY <2>1 DEF Shape, TypeOK, LoopTyped, Contents
<1>7. Reading'
  BY DEF Shape, TypeOK, Reading, LoopTyped, CopiersTyped, loop, Phases, ConvertFails, At,
     Go, Fine, NoFiles
<1>8. FilesTyped'
  <2>1. (image' = image \/ NoFiles(c)) /\ UNCHANGED <<point, calm>>
    BY DEF ConvertFails, moment
  <2> QED
    BY <2>1 DEF Shape, TypeOK, FilesTyped, NoFiles
<1>9. Chain'
  BY DEF Shape, TypeOK, Chain, DisksTyped, Images, disks, Owned, Own, Pushing, CopiersTyped,
     Mounted, ConvertFails, At, Go, Fine, NoFiles
<1>10. Owned'
  BY DEF Shape, TypeOK, Owned, Own, Pushing, DisksTyped, CopiersTyped, Phases, disks, asked,
     loop, LoopTyped, Chain, Images, ConvertFails, At, Go, Fine, NoFiles
<1> QED
  BY <1>1, <1>2, <1>3, <1>4, <1>5, <1>6, <1>7, <1>8, <1>9, <1>10 DEF Shape, TypeOK

LEMMA ConvertedKeepsShape ==
    ASSUME Shape, NEW c \in Copiers, Converted(c)
    PROVE  Shape'
<1>1. GuestTyped'
  BY DEF Shape, TypeOK, GuestTyped, guest, libvirt, Converted, At, Go, Fine
<1>2. HostTyped'
  BY DEF Shape, TypeOK, HostTyped, libvirt, Converted, At, Go, Fine
<1>3. DisksTyped'
  BY DEF Shape, TypeOK, DisksTyped, HostTyped, Images, Contents, disks, CopiersTyped,
     Mounted, Converted, At, Go, Fine
<1>4. Mounted'
  BY DEF Shape, TypeOK, Mounted, DisksTyped, Images, Chain, disks, Converted, At, Go, Fine
<1>5. CopiersTyped'
  BY DEF Shape, TypeOK, CopiersTyped, DisksTyped, GuestTyped, Phases, Kinds, Tiers, asked,
     Converted, At, Go, Fine
<1>6. LoopTyped'
  BY DEF Shape, TypeOK, LoopTyped, DisksTyped, CopiersTyped, Contents, Images, loop, Owned,
     Own, Converted, At, Go, Fine
<1>7. Reading'
  BY DEF Shape, TypeOK, Reading, LoopTyped, CopiersTyped, loop, Phases, Converted, At, Go,
     Fine
<1>8. FilesTyped'
  BY DEF Shape, TypeOK, FilesTyped, DisksTyped, HostTyped, GuestTyped, LoopTyped, Contents,
     Images, moment, Converted, At, Go, Fine
<1>9. Chain'
  BY DEF Shape, TypeOK, Chain, DisksTyped, Images, disks, Owned, Own, Pushing, CopiersTyped,
     Mounted, Converted, At, Go, Fine
<1>10. Owned'
  BY DEF Shape, TypeOK, Owned, Own, Pushing, DisksTyped, CopiersTyped, Phases, disks, asked,
     loop, LoopTyped, Chain, Images, Converted, At, Go, Fine
<1> QED
  BY <1>1, <1>2, <1>3, <1>4, <1>5, <1>6, <1>7, <1>8, <1>9, <1>10 DEF Shape, TypeOK

LEMMA LookKeepsShape ==
    ASSUME Shape, NEW c \in Copiers, Look(c)
    PROVE  Shape'
<1>1. GuestTyped'
  BY DEF Shape, TypeOK, GuestTyped, guest, libvirt, Look, At, Go, Fine, Slip, Fall, NoFiles
<1>2. HostTyped'
  BY DEF Shape, TypeOK, HostTyped, libvirt, Look, At, Go, Fine, Slip, Fall, NoFiles
<1>3. DisksTyped'
  BY DEF Shape, TypeOK, DisksTyped, HostTyped, Images, Contents, disks, CopiersTyped,
     Mounted, Look, At, Go, Fine, Slip, Fall, NoFiles
<1>4. Mounted'
  BY DEF Shape, TypeOK, Mounted, DisksTyped, Images, Chain, disks, Look, At, Go, Fine, Slip,
     Fall, NoFiles
<1>5. CopiersTyped'
  <2>1. /\ pc' = [pc EXCEPT ![c] = "commit"] \/ pc' = [pc EXCEPT ![c] = "convert"]
        /\ how' = how \/ how' = [how EXCEPT ![c] = "direct"]
        /\ on' = on \/ on' = [on EXCEPT ![c] = power]
        /\ UNCHANGED <<kind, src, quiet, err>>
    BY DEF Look, Go, Fall
  <2>2. pc' \in [Copiers -> Phases] /\ how' \in [Copiers -> Tiers]
    BY <2>1 DEF Shape, TypeOK, CopiersTyped, Phases, Tiers
  <2>3. on' \in [Copiers -> BOOLEAN]
    BY <2>1, Zenon DEF Shape, TypeOK, CopiersTyped, GuestTyped
  <2> QED
    BY <2>1, <2>2, <2>3 DEF Shape, TypeOK, CopiersTyped
<1>6. LoopTyped'
  <2>1. left' = [left EXCEPT ![c] = Disks] /\ UNCHANGED <<cur, got>>
    BY DEF Look, Fall
  <2> QED
    BY <2>1 DEF Shape, TypeOK, LoopTyped
<1>7. Reading'
  BY DEF Shape, TypeOK, Reading, LoopTyped, CopiersTyped, loop, Phases, Look, At, Go, Fine,
     Slip, Fall, NoFiles
<1>8. FilesTyped'
  <2>1. (image' = image \/ NoFiles(c)) /\ UNCHANGED <<point, calm>>
    BY DEF Look, Fall, moment
  <2> QED
    BY <2>1 DEF Shape, TypeOK, FilesTyped, NoFiles
<1>9. Chain'
  BY DEF Shape, TypeOK, Chain, DisksTyped, Images, disks, Owned, Own, Pushing, CopiersTyped,
     Mounted, Look, At, Go, Fine, Slip, Fall, NoFiles
<1>10. Owned'
  BY DEF Shape, TypeOK, Owned, Own, Pushing, DisksTyped, CopiersTyped, Phases, disks, asked,
     loop, LoopTyped, Chain, Images, Look, At, Go, Fine, Slip, Fall, NoFiles
<1> QED
  BY <1>1, <1>2, <1>3, <1>4, <1>5, <1>6, <1>7, <1>8, <1>9, <1>10 DEF Shape, TypeOK

LEMMA CommitKeepsShape ==
    ASSUME Shape, NEW c \in Copiers, NEW d \in Disks, Commit(c, d)
    PROVE  Shape'
<1>1. GuestTyped'
  BY DEF Shape, TypeOK, GuestTyped, guest, libvirt, Commit, At, Go, Fine, Slip, Fall,
     NoFiles, Possible, Merged
<1>2. HostTyped'
  BY DEF Shape, TypeOK, HostTyped, libvirt, Commit, At, Go, Fine, Slip, Fall, NoFiles,
     Possible, Merged
<1>3. DisksTyped'
  <2>1. CASE Merged(c, d)
    BY <2>1, HasOverlay, MergedTyped
  <2>2. CASE UNCHANGED disks
    BY <2>2 DEF Shape, TypeOK, DisksTyped, disks
  <2> QED
    BY <2>1, <2>2 DEF Commit
<1>4. Mounted'
  BY DEF Shape, TypeOK, Mounted, DisksTyped, Images, Chain, disks, Commit, At, Go, Fine,
     Slip, Fall, NoFiles, Possible, Merged
<1>5. CopiersTyped'
  BY DEF Shape, TypeOK, CopiersTyped, DisksTyped, GuestTyped, Phases, Kinds, Tiers, asked,
     Commit, At, Go, Fine, Slip, Fall, NoFiles, Possible, Merged
<1>6. LoopTyped'
  <2>1. /\ left' = [left EXCEPT ![c] = left[c] \ {d}] \/ left' = [left EXCEPT ![c] = Disks]
        /\ UNCHANGED <<cur, got>>
    BY DEF Commit, Fall
  <2> QED
    BY <2>1 DEF Shape, TypeOK, LoopTyped
<1>7. Reading'
  BY DEF Shape, TypeOK, Reading, LoopTyped, CopiersTyped, loop, Phases, Commit, At, Go,
     Fine, Slip, Fall, NoFiles, Possible, Merged
<1>8. FilesTyped'
  BY DEF Shape, TypeOK, FilesTyped, DisksTyped, HostTyped, GuestTyped, LoopTyped, Contents,
     Images, moment, Commit, At, Go, Fine, Slip, Fall, NoFiles, Possible, Merged
<1>9. Chain'
  <2>1. CASE Possible(c, d) /\ Merged(c, d)
    BY <2>1, HasOverlay, MergedChains DEF Possible
  <2>2. CASE UNCHANGED disks
    BY <2>2 DEF Shape, Chain, disks
  <2> QED
    BY <2>1, <2>2 DEF Commit
<1>10. Owned'
  <2>1. CASE Merged(c, d) /\ UNCHANGED <<pc, how>> /\ left' = [left EXCEPT ![c] = left[c] \ {d}]
    <3>1. /\ under'[d] = [under[d] EXCEPT ![c] = None]
          /\ \A e \in Disks : e # d => under'[e] = under[e]
      BY <2>1 DEF Merged, Shape, TypeOK, DisksTyped
    <3>2. Own(c)'
      BY <2>1, <3>1 DEF Own, Commit, At, Shape, Owned, TypeOK, LoopTyped, DisksTyped, Pushing
    <3>3. ASSUME NEW o \in Copiers, o # c PROVE Own(o)'
      <4>1. \A e \in Disks : under'[e][o] = under[e][o]
        BY <3>1, <3>3 DEF Shape, TypeOK, DisksTyped
      <4>2. pc'[o] = pc[o] /\ how'[o] = how[o] /\ left'[o] = left[o] /\ left[o] \subseteq Disks
        BY <2>1, <3>3 DEF Shape, TypeOK, LoopTyped
      <4>3. Own(o)
        BY DEF Shape, Owned
      <4> QED
        BY <4>1, <4>2, <4>3 DEF Own
    <3> QED
      BY <3>2, <3>3 DEF Owned
  <2>2. CASE Fall(c) /\ UNCHANGED disks
    BY <2>2, FallOwned
  <2> QED
    BY <2>1, <2>2 DEF Commit
<1> QED
  BY <1>1, <1>2, <1>3, <1>4, <1>5, <1>6, <1>7, <1>8, <1>9, <1>10 DEF Shape, TypeOK

LEMMA CommittedKeepsShape ==
    ASSUME Shape, NEW c \in Copiers, Committed(c)
    PROVE  Shape'
<1>1. GuestTyped'
  BY DEF Shape, TypeOK, GuestTyped, guest, libvirt, Committed, At, Go, Fine, Fall, NoFiles
<1>2. HostTyped'
  BY DEF Shape, TypeOK, HostTyped, libvirt, Committed, At, Go, Fine, Fall, NoFiles
<1>3. DisksTyped'
  BY DEF Shape, TypeOK, DisksTyped, HostTyped, Images, Contents, disks, CopiersTyped,
     Mounted, Committed, At, Go, Fine, Fall, NoFiles
<1>4. Mounted'
  BY DEF Shape, TypeOK, Mounted, DisksTyped, Images, Chain, disks, Committed, At, Go, Fine,
     Fall, NoFiles
<1>5. CopiersTyped'
  BY DEF Shape, TypeOK, CopiersTyped, DisksTyped, GuestTyped, Phases, Kinds, Tiers, asked,
     Committed, At, Go, Fine, Fall, NoFiles
<1>6. LoopTyped'
  <2>1. /\ left' = left \/ left' = [left EXCEPT ![c] = Disks]
        /\ UNCHANGED <<cur, got>>
    BY DEF Committed, Fall, loop
  <2> QED
    BY <2>1 DEF Shape, TypeOK, LoopTyped
<1>7. Reading'
  BY DEF Shape, TypeOK, Reading, LoopTyped, CopiersTyped, loop, Phases, Committed, At, Go,
     Fine, Fall, NoFiles
<1>8. FilesTyped'
  BY DEF Shape, TypeOK, FilesTyped, DisksTyped, HostTyped, GuestTyped, LoopTyped, Contents,
     Images, moment, Committed, At, Go, Fine, Fall, NoFiles
<1>9. Chain'
  BY DEF Shape, TypeOK, Chain, DisksTyped, Images, disks, Owned, Own, Pushing, CopiersTyped,
     Mounted, Committed, At, Go, Fine, Fall, NoFiles
<1>10. Owned'
  BY DEF Shape, TypeOK, Owned, Own, Pushing, DisksTyped, CopiersTyped, Phases, disks, asked,
     loop, LoopTyped, Chain, Images, Committed, At, Go, Fine, Fall, NoFiles
<1> QED
  BY <1>1, <1>2, <1>3, <1>4, <1>5, <1>6, <1>7, <1>8, <1>9, <1>10 DEF Shape, TypeOK

LEMMA WriteKeepsShape ==
    ASSUME Shape, NEW d \in Disks, Write(d)
    PROVE  Shape'
<1>1. GuestTyped'
  BY DEF Shape, TypeOK, GuestTyped, guest, libvirt, Write, Rest, Fine, At
<1>2. HostTyped'
  BY DEF Shape, TypeOK, HostTyped, libvirt, Write, Rest, Fine, At
<1>3. DisksTyped'
  <2> DEFINE disk == [data[d] EXCEPT ![top[d]] = writes + 1]
  <2>1. data' = [data EXCEPT ![d] = disk] /\ UNCHANGED <<top, under>>
    BY DEF Write, Shape, TypeOK, DisksTyped
  <2>2. top[d] \in Images /\ writes + 1 \in Contents
    BY DEF Write, Shape, TypeOK, DisksTyped, HostTyped, Contents
  <2>3. disk \in [Images -> Contents]
    BY <2>2 DEF Shape, TypeOK, DisksTyped
  <2> HIDE DEF disk
  <2> QED
    BY <2>1, <2>3 DEF Shape, TypeOK, DisksTyped
<1>4. Mounted'
  BY DEF Shape, TypeOK, Mounted, DisksTyped, Images, Chain, disks, Write, Rest, Fine, At
<1>5. CopiersTyped'
  BY DEF Shape, TypeOK, CopiersTyped, DisksTyped, GuestTyped, Phases, Kinds, Tiers, asked,
     Write, Rest, Fine, At
<1>6. LoopTyped'
  BY DEF Shape, TypeOK, LoopTyped, DisksTyped, CopiersTyped, Contents, Images, loop, Owned,
     Own, Write, Rest, Fine, At
<1>7. Reading'
  BY DEF Shape, TypeOK, Reading, LoopTyped, CopiersTyped, loop, Phases, Write, Rest, Fine,
     At
<1>8. FilesTyped'
  BY DEF Shape, TypeOK, FilesTyped, DisksTyped, HostTyped, GuestTyped, LoopTyped, Contents,
     Images, moment, Write, Rest, Fine, At
<1>9. Chain'
  BY DEF Shape, TypeOK, Chain, DisksTyped, Images, disks, Owned, Own, Pushing, CopiersTyped,
     Mounted, Write, Rest, Fine, At
<1>10. Owned'
  BY DEF Shape, TypeOK, Owned, Own, Pushing, DisksTyped, CopiersTyped, Phases, disks, asked,
     loop, LoopTyped, Chain, Images, Write, Rest, Fine, At
<1> QED
  BY <1>1, <1>2, <1>3, <1>4, <1>5, <1>6, <1>7, <1>8, <1>9, <1>10 DEF Shape, TypeOK

LEMMA JobEndKeepsShape ==
    ASSUME Shape, JobEnd
    PROVE  Shape'
<1>1. GuestTyped'
  BY DEF Shape, TypeOK, GuestTyped, guest, libvirt, JobEnd, Rest, Fine, At
<1>2. HostTyped'
  BY DEF Shape, TypeOK, HostTyped, libvirt, JobEnd, Rest, Fine, At
<1>3. DisksTyped'
  BY DEF Shape, TypeOK, DisksTyped, HostTyped, Images, Contents, disks, CopiersTyped,
     Mounted, JobEnd, Rest, Fine, At
<1>4. Mounted'
  BY DEF Shape, TypeOK, Mounted, DisksTyped, Images, Chain, disks, JobEnd, Rest, Fine, At
<1>5. CopiersTyped'
  BY DEF Shape, TypeOK, CopiersTyped, DisksTyped, GuestTyped, Phases, Kinds, Tiers, asked,
     JobEnd, Rest, Fine, At
<1>6. LoopTyped'
  BY DEF Shape, TypeOK, LoopTyped, DisksTyped, CopiersTyped, Contents, Images, loop, Owned,
     Own, JobEnd, Rest, Fine, At
<1>7. Reading'
  BY DEF Shape, TypeOK, Reading, LoopTyped, CopiersTyped, loop, Phases, JobEnd, Rest, Fine,
     At
<1>8. FilesTyped'
  <2>1. UNCHANGED <<point, calm>>
    BY DEF JobEnd, Rest, moment
  <2>2. CASE image' = image
    BY <2>1, <2>2 DEF Shape, TypeOK, FilesTyped
  <2>3. CASE job # Stray /\ image' = [image EXCEPT ![job] = point[job]]
    <3>1. job \in Copiers
      BY <2>3 DEF JobEnd, Shape, TypeOK, HostTyped
    <3>2. point[job] \in [Disks -> Contents \cup {None, Torn}]
      BY <3>1 DEF Shape, TypeOK, FilesTyped
    <3> QED
      BY <2>1, <2>3, <3>1, <3>2 DEF Shape, TypeOK, FilesTyped
  <2> QED
    BY <2>2, <2>3 DEF JobEnd
<1>9. Chain'
  BY DEF Shape, TypeOK, Chain, DisksTyped, Images, disks, Owned, Own, Pushing, CopiersTyped,
     Mounted, JobEnd, Rest, Fine, At
<1>10. Owned'
  BY DEF Shape, TypeOK, Owned, Own, Pushing, DisksTyped, CopiersTyped, Phases, disks, asked,
     loop, LoopTyped, Chain, Images, JobEnd, Rest, Fine, At
<1> QED
  BY <1>1, <1>2, <1>3, <1>4, <1>5, <1>6, <1>7, <1>8, <1>9, <1>10 DEF Shape, TypeOK

LEMMA PowerOffKeepsShape ==
    ASSUME Shape, PowerOff
    PROVE  Shape'
<1>1. GuestTyped'
  BY DEF Shape, TypeOK, GuestTyped, guest, libvirt, PowerOff, Rest, Fine, At
<1>2. HostTyped'
  BY DEF Shape, TypeOK, HostTyped, libvirt, PowerOff, Rest, Fine, At
<1>3. DisksTyped'
  BY DEF Shape, TypeOK, DisksTyped, HostTyped, Images, Contents, disks, CopiersTyped,
     Mounted, PowerOff, Rest, Fine, At
<1>4. Mounted'
  BY DEF Shape, TypeOK, Mounted, DisksTyped, Images, Chain, disks, PowerOff, Rest, Fine, At
<1>5. CopiersTyped'
  BY DEF Shape, TypeOK, CopiersTyped, DisksTyped, GuestTyped, Phases, Kinds, Tiers, asked,
     PowerOff, Rest, Fine, At
<1>6. LoopTyped'
  BY DEF Shape, TypeOK, LoopTyped, DisksTyped, CopiersTyped, Contents, Images, loop, Owned,
     Own, PowerOff, Rest, Fine, At
<1>7. Reading'
  BY DEF Shape, TypeOK, Reading, LoopTyped, CopiersTyped, loop, Phases, PowerOff, Rest,
     Fine, At
<1>8. FilesTyped'
  BY DEF Shape, TypeOK, FilesTyped, DisksTyped, HostTyped, GuestTyped, LoopTyped, Contents,
     Images, moment, PowerOff, Rest, Fine, At
<1>9. Chain'
  BY DEF Shape, TypeOK, Chain, DisksTyped, Images, disks, Owned, Own, Pushing, CopiersTyped,
     Mounted, PowerOff, Rest, Fine, At
<1>10. Owned'
  BY DEF Shape, TypeOK, Owned, Own, Pushing, DisksTyped, CopiersTyped, Phases, disks, asked,
     loop, LoopTyped, Chain, Images, PowerOff, Rest, Fine, At
<1> QED
  BY <1>1, <1>2, <1>3, <1>4, <1>5, <1>6, <1>7, <1>8, <1>9, <1>10 DEF Shape, TypeOK

LEMMA PowerOnKeepsShape ==
    ASSUME Shape, PowerOn
    PROVE  Shape'
<1>1. GuestTyped'
  BY DEF Shape, TypeOK, GuestTyped, guest, libvirt, PowerOn, Rest, Fine, At
<1>2. HostTyped'
  BY DEF Shape, TypeOK, HostTyped, libvirt, PowerOn, Rest, Fine, At
<1>3. DisksTyped'
  BY DEF Shape, TypeOK, DisksTyped, HostTyped, Images, Contents, disks, CopiersTyped,
     Mounted, PowerOn, Rest, Fine, At
<1>4. Mounted'
  BY DEF Shape, TypeOK, Mounted, DisksTyped, Images, Chain, disks, PowerOn, Rest, Fine, At
<1>5. CopiersTyped'
  BY DEF Shape, TypeOK, CopiersTyped, DisksTyped, GuestTyped, Phases, Kinds, Tiers, asked,
     PowerOn, Rest, Fine, At
<1>6. LoopTyped'
  BY DEF Shape, TypeOK, LoopTyped, DisksTyped, CopiersTyped, Contents, Images, loop, Owned,
     Own, PowerOn, Rest, Fine, At
<1>7. Reading'
  BY DEF Shape, TypeOK, Reading, LoopTyped, CopiersTyped, loop, Phases, PowerOn, Rest, Fine,
     At
<1>8. FilesTyped'
  BY DEF Shape, TypeOK, FilesTyped, DisksTyped, HostTyped, GuestTyped, LoopTyped, Contents,
     Images, moment, PowerOn, Rest, Fine, At
<1>9. Chain'
  BY DEF Shape, TypeOK, Chain, DisksTyped, Images, disks, Owned, Own, Pushing, CopiersTyped,
     Mounted, PowerOn, Rest, Fine, At
<1>10. Owned'
  BY DEF Shape, TypeOK, Owned, Own, Pushing, DisksTyped, CopiersTyped, Phases, disks, asked,
     loop, LoopTyped, Chain, Images, PowerOn, Rest, Fine, At
<1> QED
  BY <1>1, <1>2, <1>3, <1>4, <1>5, <1>6, <1>7, <1>8, <1>9, <1>10 DEF Shape, TypeOK

LEMMA DropCheckpointKeepsShape ==
    ASSUME Shape, DropCheckpoint
    PROVE  Shape'
<1>1. GuestTyped'
  BY DEF Shape, TypeOK, GuestTyped, guest, libvirt, DropCheckpoint, Rest, Fine, At
<1>2. HostTyped'
  BY DEF Shape, TypeOK, HostTyped, libvirt, DropCheckpoint, Rest, Fine, At
<1>3. DisksTyped'
  BY DEF Shape, TypeOK, DisksTyped, HostTyped, Images, Contents, disks, CopiersTyped,
     Mounted, DropCheckpoint, Rest, Fine, At
<1>4. Mounted'
  BY DEF Shape, TypeOK, Mounted, DisksTyped, Images, Chain, disks, DropCheckpoint, Rest,
     Fine, At
<1>5. CopiersTyped'
  BY DEF Shape, TypeOK, CopiersTyped, DisksTyped, GuestTyped, Phases, Kinds, Tiers, asked,
     DropCheckpoint, Rest, Fine, At
<1>6. LoopTyped'
  BY DEF Shape, TypeOK, LoopTyped, DisksTyped, CopiersTyped, Contents, Images, loop, Owned,
     Own, DropCheckpoint, Rest, Fine, At
<1>7. Reading'
  BY DEF Shape, TypeOK, Reading, LoopTyped, CopiersTyped, loop, Phases, DropCheckpoint,
     Rest, Fine, At
<1>8. FilesTyped'
  BY DEF Shape, TypeOK, FilesTyped, DisksTyped, HostTyped, GuestTyped, LoopTyped, Contents,
     Images, moment, DropCheckpoint, Rest, Fine, At
<1>9. Chain'
  BY DEF Shape, TypeOK, Chain, DisksTyped, Images, disks, Owned, Own, Pushing, CopiersTyped,
     Mounted, DropCheckpoint, Rest, Fine, At
<1>10. Owned'
  BY DEF Shape, TypeOK, Owned, Own, Pushing, DisksTyped, CopiersTyped, Phases, disks, asked,
     loop, LoopTyped, Chain, Images, DropCheckpoint, Rest, Fine, At
<1> QED
  BY <1>1, <1>2, <1>3, <1>4, <1>5, <1>6, <1>7, <1>8, <1>9, <1>10 DEF Shape, TypeOK

LEMMA RestartKeepsShape ==
    ASSUME Shape, Restart
    PROVE  Shape'
<1>1. GuestTyped'
  BY DEF Shape, TypeOK, GuestTyped, guest, libvirt, Restart, At
<1>2. HostTyped'
  BY DEF Shape, TypeOK, HostTyped, libvirt, Restart, At
<1>3. DisksTyped'
  BY DEF Shape, TypeOK, DisksTyped, HostTyped, Images, Contents, disks, CopiersTyped,
     Mounted, Restart, At
<1>4. Mounted'
  BY DEF Shape, TypeOK, Mounted, DisksTyped, Images, Chain, disks, Restart, At
<1>5. CopiersTyped'
  BY DEF Shape, TypeOK, CopiersTyped, DisksTyped, GuestTyped, Phases, Kinds, Tiers, asked,
     Restart, At
<1>6. LoopTyped'
  BY DEF Shape, TypeOK, LoopTyped, DisksTyped, CopiersTyped, Contents, Images, loop, Owned,
     Own, Restart, At
<1>7. Reading'
  BY DEF Shape, TypeOK, Reading, LoopTyped, CopiersTyped, loop, Phases, Restart, At
<1>8. FilesTyped'
  BY DEF Shape, TypeOK, FilesTyped, DisksTyped, HostTyped, GuestTyped, LoopTyped, Contents,
     Images, moment, Restart, At
<1>9. Chain'
  BY DEF Shape, TypeOK, Chain, DisksTyped, Images, disks, Owned, Own, Pushing, CopiersTyped,
     Mounted, Restart, At
<1>10. Owned'
  BY DEF Shape, TypeOK, Owned, Own, Pushing, DisksTyped, CopiersTyped, Phases, disks, asked,
     loop, LoopTyped, Chain, Images, Restart, At
<1> QED
  BY <1>1, <1>2, <1>3, <1>4, <1>5, <1>6, <1>7, <1>8, <1>9, <1>10 DEF Shape, TypeOK

LEMMA InitShape == Init => Shape
<1> SUFFICES ASSUME Init PROVE Shape
  OBVIOUS
<1>1. GuestTyped /\ HostTyped
  <2>1. /\ power \in BOOLEAN /\ checkpoint \in BOOLEAN
        /\ frozen = FALSE /\ push = FALSE /\ excused = FALSE
    BY DEF Init
  <2>2. GuestTyped
    BY <2>1, Zenon DEF GuestTyped
  <2> QED
    BY <2>2 DEF Init, HostTyped
<1>2. DisksTyped
  BY DEF Init, DisksTyped, Images, Contents
<1>3. Mounted /\ Chain
  BY DEF Init, Mounted, Chain
<1>4. CopiersTyped
  BY DEF Init, CopiersTyped, Phases, Kinds, Tiers, Images
<1>5. LoopTyped /\ FilesTyped
  BY DEF Init, LoopTyped, FilesTyped, Contents
<1>6. Reading
  BY DEF Init, Reading
<1>7. Owned
  BY DEF Init, Owned, Own, Pushing
<1> QED
  BY <1>1, <1>2, <1>3, <1>4, <1>5, <1>6, <1>7 DEF Shape, TypeOK

LEMMA ShapeKept == Shape /\ [Next]_vars => Shape'
<1> SUFFICES ASSUME Shape, [Next]_vars PROVE Shape'
  OBVIOUS
<1>1. CASE \E c \in Copiers, k \in Kinds : Ask(c, k)
  BY <1>1, AskKeepsShape
<1>2. CASE \E c \in Copiers : PushStep(c)
  BY <1>2, ProbeKeepsShape, CreateKeepsShape, FreezeKeepsShape, BeginKeepsShape, ThawKeepsShape,
     WaitKeepsShape, CheckKeepsShape, CaughtKeepsShape, RetryKeepsShape DEF PushStep
<1>3. CASE \E c \in Copiers : OverlayStep(c)
  BY <1>3, SnapKeepsShape, EndConvertKeepsShape, ConvertFailsKeepsShape, ConvertedKeepsShape,
     LookKeepsShape, CommittedKeepsShape, StartConvertKeepsShape, CommitKeepsShape
     DEF OverlayStep
<1>4. CASE Outside
  BY <1>4, JobEndKeepsShape, PowerOffKeepsShape, PowerOnKeepsShape, DropCheckpointKeepsShape,
     RestartKeepsShape, WriteKeepsShape DEF Outside
<1>5. CASE UNCHANGED vars
  <2>1. TypeOK'
    BY <1>5 DEF Shape, TypeOK, vars, guest, disks, libvirt, asked, loop, moment, GuestTyped,
       HostTyped, DisksTyped, Mounted, CopiersTyped, LoopTyped, Reading, FilesTyped, At
  <2>2. Chain' /\ Owned'
    BY <1>5 DEF Shape, vars, disks, asked, loop, Chain, Owned, Own
  <2> QED
    BY <2>1, <2>2 DEF Shape
<1> QED
  BY <1>1, <1>2, <1>3, <1>4, <1>5 DEF Next, CopyStep

\* However the copies, the guest, libvirt and restarts interleave, everything keeps its
\* type: every overlay in use lies on an image, a disk that is read is one still to do.
THEOREM TypeCorrect == Spec => []TypeOK
<1>1. Shape => TypeOK
  BY DEF Shape
<1> QED
  BY <1>1, InitShape, ShapeKept, PTL DEF Spec

(***************************************************************************)
(* One copy at a time, and libvirt's statistics are those of its job.      *)
(***************************************************************************)

\* The disks that are done hold what they held at the copy's moment.
Done(c) == \A d \in Disks \ left[c] : image[c][d] = point[c][d]
AllDone(c) == \A d \in Disks : image[c][d] = point[c][d]

\* What Honest says of one copy.
Told(c) ==
    pc[c] = "told" =>
        /\ \A d \in Disks : image[c][d] # None
        /\ how[c] # "direct" => AllDone(c)
        /\ Consistent(c) => calm[c]

\* A disk is on its own image, or on this copy's overlay of it.
Stack(c) ==
    \A d \in Disks : /\ under[d][c] \in {None, Base}
                     /\ top[d] = c <=> under[d][c] = Base

\* A job that is waited for runs, or has left the images it was begun for, or is known
\* not to have; and it was begun in a frozen guest if the copy froze it.
JobInv(c) ==
    /\ job = c => pc[c] \in {"thaw", "wait"} /\ ~err[c]
    /\ pc[c] = "begin" /\ quiet[c] => frozen \/ ~power
    /\ pc[c] = "wait" => ~err[c]
    /\ pc[c] \in {"thaw", "wait"} /\ ~err[c] =>
          /\ quiet[c] => calm[c]
          /\ job = c \/ (job = None /\ (AllDone(c) \/ stats = "failed" \/ ~power))
    /\ pc[c] = "check" => AllDone(c) /\ (quiet[c] => calm[c])

\* Under an overlay nothing moves.
SnapInv(c) ==
    /\ pc[c] = "convert" /\ how[c] = "snap" =>
          /\ quiet[c] => calm[c]
          /\ Done(c) /\ ~err[c]
          /\ \A d \in Disks : data[d][Base] = point[c][d]
          /\ cur[c] # None => got[c] = point[c][cur[c]]
    /\ pc[c] \in {"look", "commit"} /\ ~err[c] => AllDone(c) /\ (quiet[c] => calm[c])

\* A guest that is off stays off while a disk of it is read.
OfflineInv(c) ==
    pc[c] = "convert" /\ how[c] = "offline" =>
        /\ \A d \in Disks : src[c][d] = Base /\ under[d][c] = None
        /\ cur[c] # None => ~power
        /\ left[c] # Disks \/ cur[c] # None =>
              /\ calm[c] /\ Done(c)
              /\ ~power => \A d \in Disks : data[d][Base] = point[c][d]
              /\ cur[c] # None => got[c] = point[c][cur[c]]

DirectInv(c) ==
    pc[c] = "convert" /\ how[c] = "direct" => \A d \in Disks \ left[c] : image[c][d] # None

IInv(c) ==
    /\ Shape /\ Told(c) /\ Stack(c) /\ JobInv(c) /\ SnapInv(c) /\ OfflineInv(c) /\ DirectInv(c)

LEMMA AskKeeps ==
    ASSUME NEW c, Copiers = {c}, ~Lossy, IInv(c), NEW k \in Kinds, Ask(c, k), Shape'
    PROVE  IInv(c)'
<1>1. Told(c)'
  BY DEF IInv, Shape, TypeOK, Told, AllDone, Done, Consistent, JobInv, SnapInv, OfflineInv,
     DirectInv, CopiersTyped, LoopTyped, FilesTyped, Contents, Owned, Own, Pushing, moment,
     Ask, NoFiles, Go, Fine
<1>2. Stack(c)'
  BY DEF IInv, Shape, TypeOK, Stack, DisksTyped, disks, Owned, Own, Images, Ask, NoFiles,
     Go, Fine
<1>3. JobInv(c)'
  BY DEF IInv, Shape, TypeOK, JobInv, AllDone, CopiersTyped, HostTyped, FilesTyped,
     GuestTyped, libvirt, moment, guest, Ask, NoFiles, Go, Fine
<1>4. SnapInv(c)'
  BY DEF IInv, Shape, TypeOK, SnapInv, Stack, AllDone, Done, CopiersTyped, LoopTyped,
     FilesTyped, DisksTyped, Reading, At, moment, loop, disks, JobInv, Owned, Own, Pushing,
     Ask, NoFiles, Go, Fine
<1>5. OfflineInv(c)'
  <2> SUFFICES ASSUME pc'[c] = "convert", how'[c] = "offline"
               PROVE  /\ \A d \in Disks : src'[c][d] = Base /\ under'[d][c] = None
                      /\ left'[c] = Disks /\ cur'[c] = None
    BY DEF OfflineInv
  <2>1. /\ src'[c] = top /\ left'[c] = Disks /\ UNCHANGED <<under, cur>>
        /\ \A d \in Disks : under[d][c] = None
    BY DEF Ask, disks, IInv, Shape, TypeOK, CopiersTyped, LoopTyped
  <2>2. cur[c] = None
    BY DEF Ask, IInv, Shape, TypeOK, Reading, At
  <2>3. \A d \in Disks : top[d] = Base
    BY <2>1 DEF IInv, Stack, Shape, TypeOK, DisksTyped, Images
  <2> QED
    BY <2>1, <2>2, <2>3
<1>6. DirectInv(c)'
  BY DEF IInv, Shape, TypeOK, DirectInv, CopiersTyped, LoopTyped, FilesTyped, Contents,
     Reading, At, loop, JobInv, Owned, Own, Pushing, Ask, NoFiles, Go, Fine
<1> QED
  BY <1>1, <1>2, <1>3, <1>4, <1>5, <1>6 DEF IInv

LEMMA ProbeKeeps ==
    ASSUME NEW c, Copiers = {c}, ~Lossy, IInv(c), Probe(c), Shape'
    PROVE  IInv(c)'
<1>1. Told(c)'
  BY DEF IInv, Shape, TypeOK, Told, AllDone, Done, Consistent, JobInv, SnapInv, OfflineInv,
     DirectInv, CopiersTyped, LoopTyped, FilesTyped, Contents, Owned, Own, Pushing, moment,
     Probe, At, Go, Fine
<1>2. Stack(c)'
  BY DEF IInv, Shape, TypeOK, Stack, DisksTyped, disks, Owned, Own, Images, Probe, At, Go,
     Fine
<1>3. JobInv(c)'
  BY DEF IInv, Shape, TypeOK, JobInv, AllDone, CopiersTyped, HostTyped, FilesTyped,
     GuestTyped, libvirt, moment, guest, Probe, At, Go, Fine
<1>4. SnapInv(c)'
  BY DEF IInv, Shape, TypeOK, SnapInv, Stack, AllDone, Done, CopiersTyped, LoopTyped,
     FilesTyped, DisksTyped, Reading, At, moment, loop, disks, JobInv, Owned, Own, Pushing,
     Probe, Go, Fine
<1>5. OfflineInv(c)'
  BY DEF IInv, Shape, TypeOK, OfflineInv, Stack, Done, CopiersTyped, LoopTyped, FilesTyped,
     DisksTyped, Reading, At, moment, loop, disks, guest, asked, JobInv, Owned, Own,
     Pushing, Probe, Go, Fine
<1>6. DirectInv(c)'
  BY DEF IInv, Shape, TypeOK, DirectInv, CopiersTyped, LoopTyped, FilesTyped, Contents,
     Reading, At, loop, JobInv, Owned, Own, Pushing, Probe, Go, Fine
<1> QED
  BY <1>1, <1>2, <1>3, <1>4, <1>5, <1>6 DEF IInv

LEMMA CreateKeeps ==
    ASSUME NEW c, Copiers = {c}, ~Lossy, IInv(c), Create(c), Shape'
    PROVE  IInv(c)'
<1>1. Told(c)'
  BY DEF IInv, Shape, TypeOK, Told, AllDone, Done, Consistent, JobInv, SnapInv, OfflineInv,
     DirectInv, CopiersTyped, LoopTyped, FilesTyped, Contents, Owned, Own, Pushing, moment,
     Create, At, Go, Fine
<1>2. Stack(c)'
  BY DEF IInv, Shape, TypeOK, Stack, DisksTyped, disks, Owned, Own, Images, Create, At, Go,
     Fine
<1>3. JobInv(c)'
  BY DEF IInv, Shape, TypeOK, JobInv, AllDone, CopiersTyped, HostTyped, FilesTyped,
     GuestTyped, libvirt, moment, guest, Create, At, Go, Fine
<1>4. SnapInv(c)'
  BY DEF IInv, Shape, TypeOK, SnapInv, Stack, AllDone, Done, CopiersTyped, LoopTyped,
     FilesTyped, DisksTyped, Reading, At, moment, loop, disks, JobInv, Owned, Own, Pushing,
     Create, Go, Fine
<1>5. OfflineInv(c)'
  BY DEF IInv, Shape, TypeOK, OfflineInv, Stack, Done, CopiersTyped, LoopTyped, FilesTyped,
     DisksTyped, Reading, At, moment, loop, disks, guest, asked, JobInv, Owned, Own,
     Pushing, Create, Go, Fine
<1>6. DirectInv(c)'
  BY DEF IInv, Shape, TypeOK, DirectInv, CopiersTyped, LoopTyped, FilesTyped, Contents,
     Reading, At, loop, JobInv, Owned, Own, Pushing, Create, Go, Fine
<1> QED
  BY <1>1, <1>2, <1>3, <1>4, <1>5, <1>6 DEF IInv

LEMMA FreezeKeeps ==
    ASSUME NEW c, Copiers = {c}, ~Lossy, IInv(c), Freeze(c), Shape'
    PROVE  IInv(c)'
<1>1. Told(c)'
  BY DEF IInv, Shape, TypeOK, Told, AllDone, Done, Consistent, JobInv, SnapInv, OfflineInv,
     DirectInv, CopiersTyped, LoopTyped, FilesTyped, Contents, Owned, Own, Pushing, moment,
     Freeze, At, Go, Fine, Slip
<1>2. Stack(c)'
  BY DEF IInv, Shape, TypeOK, Stack, DisksTyped, disks, Owned, Own, Images, Freeze, At, Go,
     Fine, Slip
<1>3. JobInv(c)'
  BY DEF IInv, Shape, TypeOK, JobInv, AllDone, CopiersTyped, HostTyped, FilesTyped,
     GuestTyped, libvirt, moment, guest, Freeze, At, Go, Fine, Slip
<1>4. SnapInv(c)'
  BY DEF IInv, Shape, TypeOK, SnapInv, Stack, AllDone, Done, CopiersTyped, LoopTyped,
     FilesTyped, DisksTyped, Reading, At, moment, loop, disks, JobInv, Owned, Own, Pushing,
     Freeze, Go, Fine, Slip
<1>5. OfflineInv(c)'
  BY DEF IInv, Shape, TypeOK, OfflineInv, Stack, Done, CopiersTyped, LoopTyped, FilesTyped,
     DisksTyped, Reading, At, moment, loop, disks, guest, asked, JobInv, Owned, Own,
     Pushing, Freeze, Go, Fine, Slip
<1>6. DirectInv(c)'
  BY DEF IInv, Shape, TypeOK, DirectInv, CopiersTyped, LoopTyped, FilesTyped, Contents,
     Reading, At, loop, JobInv, Owned, Own, Pushing, Freeze, Go, Fine, Slip
<1> QED
  BY <1>1, <1>2, <1>3, <1>4, <1>5, <1>6 DEF IInv

LEMMA BeginKeeps ==
    ASSUME NEW c, Copiers = {c}, ~Lossy, IInv(c), Begin(c), Shape'
    PROVE  IInv(c)'
<1>1. Told(c)'
  BY DEF IInv, Shape, TypeOK, Told, AllDone, Done, Consistent, JobInv, SnapInv, OfflineInv,
     DirectInv, CopiersTyped, LoopTyped, FilesTyped, Contents, Owned, Own, Pushing, moment,
     Begin, At, Go, Begun, Now
<1>2. Stack(c)'
  BY DEF IInv, Shape, TypeOK, Stack, DisksTyped, disks, Owned, Own, Images, Begin, At, Go,
     Begun, Now
<1>3. JobInv(c)'
  BY DEF IInv, Shape, TypeOK, JobInv, AllDone, CopiersTyped, HostTyped, FilesTyped,
     GuestTyped, libvirt, moment, guest, Begin, At, Go, Begun, Now
<1>4. SnapInv(c)'
  BY DEF IInv, Shape, TypeOK, SnapInv, Stack, AllDone, Done, CopiersTyped, LoopTyped,
     FilesTyped, DisksTyped, Reading, At, moment, loop, disks, JobInv, Owned, Own, Pushing,
     Begin, Go, Begun, Now
<1>5. OfflineInv(c)'
  BY DEF IInv, Shape, TypeOK, OfflineInv, Stack, Done, CopiersTyped, LoopTyped, FilesTyped,
     DisksTyped, Reading, At, moment, loop, disks, guest, asked, JobInv, Owned, Own,
     Pushing, Begin, Go, Begun, Now
<1>6. DirectInv(c)'
  BY DEF IInv, Shape, TypeOK, DirectInv, CopiersTyped, LoopTyped, FilesTyped, Contents,
     Reading, At, loop, JobInv, Owned, Own, Pushing, Begin, Go, Begun, Now
<1> QED
  BY <1>1, <1>2, <1>3, <1>4, <1>5, <1>6 DEF IInv

LEMMA ThawKeeps ==
    ASSUME NEW c, Copiers = {c}, ~Lossy, IInv(c), Thaw(c), Shape'
    PROVE  IInv(c)'
<1>1. Told(c)'
  BY DEF IInv, Shape, TypeOK, Told, AllDone, Done, Consistent, JobInv, SnapInv, OfflineInv,
     DirectInv, CopiersTyped, LoopTyped, FilesTyped, Contents, Owned, Own, Pushing, moment,
     Thaw, At, Go, Fine, Slip
<1>2. Stack(c)'
  BY DEF IInv, Shape, TypeOK, Stack, DisksTyped, disks, Owned, Own, Images, Thaw, At, Go,
     Fine, Slip
<1>3. JobInv(c)'
  BY DEF IInv, Shape, TypeOK, JobInv, AllDone, CopiersTyped, HostTyped, FilesTyped,
     GuestTyped, libvirt, moment, guest, Thaw, At, Go, Fine, Slip
<1>4. SnapInv(c)'
  BY DEF IInv, Shape, TypeOK, SnapInv, Stack, AllDone, Done, CopiersTyped, LoopTyped,
     FilesTyped, DisksTyped, Reading, At, moment, loop, disks, JobInv, Owned, Own, Pushing,
     Thaw, Go, Fine, Slip
<1>5. OfflineInv(c)'
  BY DEF IInv, Shape, TypeOK, OfflineInv, Stack, Done, CopiersTyped, LoopTyped, FilesTyped,
     DisksTyped, Reading, At, moment, loop, disks, guest, asked, JobInv, Owned, Own,
     Pushing, Thaw, Go, Fine, Slip
<1>6. DirectInv(c)'
  BY DEF IInv, Shape, TypeOK, DirectInv, CopiersTyped, LoopTyped, FilesTyped, Contents,
     Reading, At, loop, JobInv, Owned, Own, Pushing, Thaw, Go, Fine, Slip
<1> QED
  BY <1>1, <1>2, <1>3, <1>4, <1>5, <1>6 DEF IInv

LEMMA WaitKeeps ==
    ASSUME NEW c, Copiers = {c}, ~Lossy, IInv(c), Wait(c), Shape'
    PROVE  IInv(c)'
<1>1. Told(c)'
  BY DEF IInv, Shape, TypeOK, Told, AllDone, Done, Consistent, JobInv, SnapInv, OfflineInv,
     DirectInv, CopiersTyped, LoopTyped, FilesTyped, Contents, Owned, Own, Pushing, moment,
     Wait, At, Go, Fine, Abandon
<1>2. Stack(c)'
  BY DEF IInv, Shape, TypeOK, Stack, DisksTyped, disks, Owned, Own, Images, Wait, At, Go,
     Fine, Abandon
<1>3. JobInv(c)'
  BY DEF IInv, Shape, TypeOK, JobInv, AllDone, CopiersTyped, HostTyped, FilesTyped,
     GuestTyped, libvirt, moment, guest, Wait, At, Go, Fine, Abandon
<1>4. SnapInv(c)'
  BY DEF IInv, Shape, TypeOK, SnapInv, Stack, AllDone, Done, CopiersTyped, LoopTyped,
     FilesTyped, DisksTyped, Reading, At, moment, loop, disks, JobInv, Owned, Own, Pushing,
     Wait, Go, Fine, Abandon
<1>5. OfflineInv(c)'
  BY DEF IInv, Shape, TypeOK, OfflineInv, Stack, Done, CopiersTyped, LoopTyped, FilesTyped,
     DisksTyped, Reading, At, moment, loop, disks, guest, asked, JobInv, Owned, Own,
     Pushing, Wait, Go, Fine, Abandon
<1>6. DirectInv(c)'
  BY DEF IInv, Shape, TypeOK, DirectInv, CopiersTyped, LoopTyped, FilesTyped, Contents,
     Reading, At, loop, JobInv, Owned, Own, Pushing, Wait, Go, Fine, Abandon
<1> QED
  BY <1>1, <1>2, <1>3, <1>4, <1>5, <1>6 DEF IInv

LEMMA CheckKeeps ==
    ASSUME NEW c, Copiers = {c}, ~Lossy, IInv(c), Check(c), Shape'
    PROVE  IInv(c)'
<1>1. Told(c)'
  BY DEF IInv, Shape, TypeOK, Told, AllDone, Done, Consistent, JobInv, SnapInv, OfflineInv,
     DirectInv, CopiersTyped, LoopTyped, FilesTyped, Contents, Owned, Own, Pushing, moment,
     Check, At, Go, Fine
<1>2. Stack(c)'
  BY DEF IInv, Shape, TypeOK, Stack, DisksTyped, disks, Owned, Own, Images, Check, At, Go,
     Fine
<1>3. JobInv(c)'
  BY DEF IInv, Shape, TypeOK, JobInv, AllDone, CopiersTyped, HostTyped, FilesTyped,
     GuestTyped, libvirt, moment, guest, Check, At, Go, Fine
<1>4. SnapInv(c)'
  BY DEF IInv, Shape, TypeOK, SnapInv, Stack, AllDone, Done, CopiersTyped, LoopTyped,
     FilesTyped, DisksTyped, Reading, At, moment, loop, disks, JobInv, Owned, Own, Pushing,
     Check, Go, Fine
<1>5. OfflineInv(c)'
  BY DEF IInv, Shape, TypeOK, OfflineInv, Stack, Done, CopiersTyped, LoopTyped, FilesTyped,
     DisksTyped, Reading, At, moment, loop, disks, guest, asked, JobInv, Owned, Own,
     Pushing, Check, Go, Fine
<1>6. DirectInv(c)'
  BY DEF IInv, Shape, TypeOK, DirectInv, CopiersTyped, LoopTyped, FilesTyped, Contents,
     Reading, At, loop, JobInv, Owned, Own, Pushing, Check, Go, Fine
<1> QED
  BY <1>1, <1>2, <1>3, <1>4, <1>5, <1>6 DEF IInv

LEMMA CaughtKeeps ==
    ASSUME NEW c, Copiers = {c}, ~Lossy, IInv(c), Caught(c), Shape'
    PROVE  IInv(c)'
<1>1. Told(c)'
  BY DEF IInv, Shape, TypeOK, Told, AllDone, Done, Consistent, JobInv, SnapInv, OfflineInv,
     DirectInv, CopiersTyped, LoopTyped, FilesTyped, Contents, Owned, Own, Pushing, moment,
     Caught, At, Go, Fine, NoFiles
<1>2. Stack(c)'
  BY DEF IInv, Shape, TypeOK, Stack, DisksTyped, disks, Owned, Own, Images, Caught, At, Go,
     Fine, NoFiles
<1>3. JobInv(c)'
  BY DEF IInv, Shape, TypeOK, JobInv, AllDone, CopiersTyped, HostTyped, FilesTyped,
     GuestTyped, libvirt, moment, guest, Caught, At, Go, Fine, NoFiles
<1>4. SnapInv(c)'
  BY DEF IInv, Shape, TypeOK, SnapInv, Stack, AllDone, Done, CopiersTyped, LoopTyped,
     FilesTyped, DisksTyped, Reading, At, moment, loop, disks, JobInv, Owned, Own, Pushing,
     Caught, Go, Fine, NoFiles
<1>5. OfflineInv(c)'
  BY DEF IInv, Shape, TypeOK, OfflineInv, Stack, Done, CopiersTyped, LoopTyped, FilesTyped,
     DisksTyped, Reading, At, moment, loop, disks, guest, asked, JobInv, Owned, Own,
     Pushing, Caught, Go, Fine, NoFiles
<1>6. DirectInv(c)'
  BY DEF IInv, Shape, TypeOK, DirectInv, CopiersTyped, LoopTyped, FilesTyped, Contents,
     Reading, At, loop, JobInv, Owned, Own, Pushing, Caught, Go, Fine, NoFiles
<1> QED
  BY <1>1, <1>2, <1>3, <1>4, <1>5, <1>6 DEF IInv

LEMMA RetryKeeps ==
    ASSUME NEW c, Copiers = {c}, ~Lossy, IInv(c), Retry(c), Shape'
    PROVE  IInv(c)'
<1>1. Told(c)'
  BY DEF IInv, Shape, TypeOK, Told, AllDone, Done, Consistent, JobInv, SnapInv, OfflineInv,
     DirectInv, CopiersTyped, LoopTyped, FilesTyped, Contents, Owned, Own, Pushing, moment,
     Retry, At, Go, Fine, NoFiles
<1>2. Stack(c)'
  BY DEF IInv, Shape, TypeOK, Stack, DisksTyped, disks, Owned, Own, Images, Retry, At, Go,
     Fine, NoFiles
<1>3. JobInv(c)'
  BY DEF IInv, Shape, TypeOK, JobInv, AllDone, CopiersTyped, HostTyped, FilesTyped,
     GuestTyped, libvirt, moment, guest, Retry, At, Go, Fine, NoFiles
<1>4. SnapInv(c)'
  BY DEF IInv, Shape, TypeOK, SnapInv, Stack, AllDone, Done, CopiersTyped, LoopTyped,
     FilesTyped, DisksTyped, Reading, At, moment, loop, disks, JobInv, Owned, Own, Pushing,
     Retry, Go, Fine, NoFiles
<1>5. OfflineInv(c)'
  BY DEF IInv, Shape, TypeOK, OfflineInv, Stack, Done, CopiersTyped, LoopTyped, FilesTyped,
     DisksTyped, Reading, At, moment, loop, disks, guest, asked, JobInv, Owned, Own,
     Pushing, Retry, Go, Fine, NoFiles
<1>6. DirectInv(c)'
  BY DEF IInv, Shape, TypeOK, DirectInv, CopiersTyped, LoopTyped, FilesTyped, Contents,
     Reading, At, loop, JobInv, Owned, Own, Pushing, Retry, Go, Fine, NoFiles
<1> QED
  BY <1>1, <1>2, <1>3, <1>4, <1>5, <1>6 DEF IInv

LEMMA SnapKeeps ==
    ASSUME NEW c, Copiers = {c}, ~Lossy, IInv(c), Snap(c), Shape'
    PROVE  IInv(c)'
<1>1. Told(c)'
  BY DEF IInv, Shape, TypeOK, Told, AllDone, Done, Consistent, JobInv, SnapInv, OfflineInv,
     DirectInv, CopiersTyped, LoopTyped, FilesTyped, Contents, Owned, Own, Pushing, moment,
     Snap, At, Go, Fine, Slip, NoFiles, Pivot, Fall, Now
<1>2. Stack(c)'
  <2>1. CASE UNCHANGED disks
    BY <2>1 DEF IInv, Stack, disks
  <2>2. CASE Pivot(c)
    <3>1. \A d \in Disks : under[d][c] = None /\ top[d] \in {Base, c} /\ top[d] # c
      BY FreshOverlay DEF IInv, Stack, Shape, TypeOK, DisksTyped, Images
    <3>2. \A d \in Disks : under'[d][c] = top[d] /\ top'[d] = c
      BY <2>2 DEF Pivot, IInv, Shape, TypeOK, DisksTyped
    <3> QED
      BY <3>1, <3>2 DEF Stack
  <2> QED
    BY <2>1, <2>2 DEF Snap
<1>3. JobInv(c)'
  BY DEF IInv, Shape, TypeOK, JobInv, AllDone, CopiersTyped, HostTyped, FilesTyped,
     GuestTyped, libvirt, moment, guest, Snap, At, Go, Fine, Slip, NoFiles, Pivot, Fall, Now
<1>4. SnapInv(c)'
  <2>1. CASE Fall(c)
    BY <2>1 DEF Fall, Go, SnapInv, IInv, Shape, TypeOK, CopiersTyped
  <2>2. CASE /\ Pivot(c) /\ point' = [point EXCEPT ![c] = Now]
             /\ left' = [left EXCEPT ![c] = Disks] /\ err' = [err EXCEPT ![c] = FALSE]
             /\ Go(c, "convert")
             /\ \E q \in BOOLEAN : /\ quiet' = [quiet EXCEPT ![c] = q]
                                  /\ calm' = [calm EXCEPT ![c] = q \/ frozen \/ ~power]
    <3>1. pc'[c] = "convert" /\ left'[c] = Disks /\ point'[c] = Now /\ err'[c] = FALSE
      BY <2>2 DEF Go, IInv, Shape, TypeOK, CopiersTyped, LoopTyped, FilesTyped
    <3>2. quiet'[c] => calm'[c]
      BY <2>2 DEF IInv, Shape, TypeOK, CopiersTyped, FilesTyped
    <3>3. \A d \in Disks : top[d] = Base /\ data'[d][Base] = data[d][top[d]]
      <4>1. \A d \in Disks : top[d] = Base
        BY FreshOverlay DEF IInv, Stack, Shape, TypeOK, DisksTyped, Images
      <4>2. \A d \in Disks : data'[d] = [data[d] EXCEPT ![c] = data[d][top[d]]]
        BY <2>2 DEF Pivot
      <4>3. Base # c /\ Base \in Images /\ \A d \in Disks : data[d] \in [Images -> Contents]
        BY DEF IInv, Shape, TypeOK, DisksTyped, Images
      <4>4. ASSUME NEW d \in Disks PROVE data'[d][Base] = data[d][Base]
        <5>1. data'[d] = [i \in Images |-> IF i = c THEN data[d][top[d]] ELSE data[d][i]]
          BY <4>2, <4>3
        <5> QED
          BY <4>3, <5>1
      <4> QED
        BY <4>1, <4>4
    <3>4. cur'[c] = None
      BY DEF Snap, IInv, Shape, TypeOK, Reading, At
    <3> QED
      BY <3>1, <3>2, <3>3, <3>4 DEF SnapInv, Done, Now
  <2> QED
    BY <2>1, <2>2 DEF Snap
<1>5. OfflineInv(c)'
  BY DEF IInv, Shape, TypeOK, OfflineInv, Stack, Done, CopiersTyped, LoopTyped, FilesTyped,
     DisksTyped, Reading, At, moment, loop, disks, guest, asked, JobInv, Owned, Own,
     Pushing, Snap, Go, Fine, Slip, NoFiles, Pivot, Fall, Now
<1>6. DirectInv(c)'
  BY DEF IInv, Shape, TypeOK, DirectInv, CopiersTyped, LoopTyped, FilesTyped, Contents,
     Reading, At, loop, JobInv, Owned, Own, Pushing, Snap, Go, Fine, Slip, NoFiles, Pivot,
     Fall, Now
<1> QED
  BY <1>1, <1>2, <1>3, <1>4, <1>5, <1>6 DEF IInv

LEMMA StartConvertKeeps ==
    ASSUME NEW c, Copiers = {c}, ~Lossy, IInv(c), NEW d \in Disks, StartConvert(c, d), Shape'
    PROVE  IInv(c)'
<1>1. Told(c)'
  BY DEF IInv, Shape, TypeOK, Told, AllDone, Done, Consistent, JobInv, SnapInv, OfflineInv,
     DirectInv, CopiersTyped, LoopTyped, FilesTyped, Contents, Owned, Own, Pushing, moment,
     StartConvert, At, Fine, Now, Source, There
<1>2. Stack(c)'
  BY DEF IInv, Shape, TypeOK, Stack, DisksTyped, disks, Owned, Own, Images, StartConvert,
     At, Fine, Now, Source, There
<1>3. JobInv(c)'
  BY DEF IInv, Shape, TypeOK, JobInv, AllDone, CopiersTyped, HostTyped, FilesTyped,
     GuestTyped, libvirt, moment, guest, StartConvert, At, Fine, Now, Source, There
<1>4. SnapInv(c)'
  BY DEF IInv, Shape, TypeOK, SnapInv, Stack, AllDone, Done, CopiersTyped, LoopTyped,
     FilesTyped, DisksTyped, Reading, At, moment, loop, disks, JobInv, Owned, Own, Pushing,
     StartConvert, Fine, Now, Source, There
<1>5. OfflineInv(c)'
  <2> SUFFICES ASSUME pc[c] = "convert", how[c] = "offline"
               PROVE  OfflineInv(c)'
    BY DEF OfflineInv, StartConvert
  <2>1. /\ UNCHANGED <<pc, how, src, under, top, data, left, power>>
        /\ cur' = [cur EXCEPT ![c] = d] /\ got' = [got EXCEPT ![c] = data[d][src[c][d]]]
        /\ d \in left[c] /\ cur[c] = None
        /\ ~(power /\ src[c][d] = top[d])
    BY DEF StartConvert, Source, asked, disks, guest
  <2>2. \A e \in Disks : src[c][e] = Base /\ under[e][c] = None /\ top[e] = Base
    BY DEF IInv, OfflineInv, Stack, Shape, TypeOK, DisksTyped, Images
  <2>3. ~power /\ cur'[c] = d /\ got'[c] = data[d][Base]
    BY <2>1, <2>2 DEF IInv, Shape, TypeOK, LoopTyped
  <2>4. calm'[c] /\ (\A e \in Disks : data[e][Base] = point'[c][e]) /\ Done(c)'
    <3>1. CASE left[c] = Disks
      <4>1. point' = [point EXCEPT ![c] = Now] /\ calm' = [calm EXCEPT ![c] = ~power]
        BY <3>1 DEF StartConvert
      <4>2. point'[c] = Now /\ calm'[c]
        BY <4>1, <2>3 DEF IInv, Shape, TypeOK, FilesTyped
      <4> QED
        BY <2>1, <2>2, <3>1, <4>2 DEF Now, Done
    <3>2. CASE left[c] # Disks
      <4>1. UNCHANGED <<point, calm>>
        BY <3>2 DEF StartConvert, moment
      <4>2. calm[c] /\ Done(c) /\ \A e \in Disks : data[e][Base] = point[c][e]
        BY <2>3, <3>2 DEF IInv, OfflineInv
      <4>3. \A e \in Disks \ left[c] : image'[c][e] = image[c][e]
        BY <2>1 DEF StartConvert, IInv, Shape, TypeOK, FilesTyped
      <4> QED
        BY <2>1, <4>1, <4>2, <4>3 DEF Done
    <3> QED
      BY <3>1, <3>2
  <2> QED
    BY <2>1, <2>2, <2>3, <2>4 DEF OfflineInv
<1>6. DirectInv(c)'
  BY DEF IInv, Shape, TypeOK, DirectInv, CopiersTyped, LoopTyped, FilesTyped, Contents,
     Reading, At, loop, JobInv, Owned, Own, Pushing, StartConvert, Fine, Now, Source, There
<1> QED
  BY <1>1, <1>2, <1>3, <1>4, <1>5, <1>6 DEF IInv

LEMMA EndConvertKeeps ==
    ASSUME NEW c, Copiers = {c}, ~Lossy, IInv(c), EndConvert(c), Shape'
    PROVE  IInv(c)'
<1>1. Told(c)'
  BY DEF IInv, Shape, TypeOK, Told, AllDone, Done, Consistent, JobInv, SnapInv, OfflineInv,
     DirectInv, CopiersTyped, LoopTyped, FilesTyped, Contents, Owned, Own, Pushing, moment,
     EndConvert, At, Fine, Source, There
<1>2. Stack(c)'
  BY DEF IInv, Shape, TypeOK, Stack, DisksTyped, disks, Owned, Own, Images, EndConvert, At,
     Fine, Source, There
<1>3. JobInv(c)'
  BY DEF IInv, Shape, TypeOK, JobInv, AllDone, CopiersTyped, HostTyped, FilesTyped,
     GuestTyped, libvirt, moment, guest, EndConvert, At, Fine, Source, There
<1>4. SnapInv(c)'
  <2>1. /\ UNCHANGED <<pc, how, quiet, err, point, calm, data, under>>
        /\ pc[c] = "convert" /\ cur'[c] = None
    BY DEF EndConvert, At, disks, moment, IInv, Shape, TypeOK, LoopTyped
  <2>2. ASSUME how[c] = "snap" PROVE Done(c)'
    <3>1. cur[c] \in Disks
      BY DEF EndConvert, IInv, Shape, TypeOK, LoopTyped
    <3>2. /\ got[c] = point[c][cur[c]] /\ Done(c)
          /\ data[cur[c]][Base] = got[c] /\ under[cur[c]][c] = Base
      BY <2>1, <2>2, <3>1 DEF EndConvert, IInv, SnapInv, Stack, Shape, Owned, Own
    <3>3. image' = [image EXCEPT ![c][cur[c]] = got[c]] /\ left'[c] = left[c] \ {cur[c]}
      BY <2>2, <3>2 DEF EndConvert, Source, There, IInv, Shape, TypeOK, LoopTyped
    <3>4. \A d \in Disks : image'[c][d] = IF d = cur[c] THEN got[c] ELSE image[c][d]
      BY <3>1, <3>3 DEF IInv, Shape, TypeOK, FilesTyped
    <3> QED
      BY <2>1, <3>2, <3>3, <3>4 DEF Done
  <2> QED
    BY <2>1, <2>2 DEF SnapInv, IInv
<1>5. OfflineInv(c)'
  BY DEF IInv, Shape, TypeOK, OfflineInv, Stack, Done, CopiersTyped, LoopTyped, FilesTyped,
     DisksTyped, Reading, At, moment, loop, disks, guest, asked, JobInv, Owned, Own,
     Pushing, EndConvert, Fine, Source, There
<1>6. DirectInv(c)'
  BY DEF IInv, Shape, TypeOK, DirectInv, CopiersTyped, LoopTyped, FilesTyped, Contents,
     Reading, At, loop, JobInv, Owned, Own, Pushing, EndConvert, Fine, Source, There
<1> QED
  BY <1>1, <1>2, <1>3, <1>4, <1>5, <1>6 DEF IInv

LEMMA ConvertFailsKeeps ==
    ASSUME NEW c, Copiers = {c}, ~Lossy, IInv(c), ConvertFails(c), Shape'
    PROVE  IInv(c)'
<1>1. Told(c)'
  BY DEF IInv, Shape, TypeOK, Told, AllDone, Done, Consistent, JobInv, SnapInv, OfflineInv,
     DirectInv, CopiersTyped, LoopTyped, FilesTyped, Contents, Owned, Own, Pushing, moment,
     ConvertFails, At, Go, Fine, NoFiles
<1>2. Stack(c)'
  BY DEF IInv, Shape, TypeOK, Stack, DisksTyped, disks, Owned, Own, Images, ConvertFails,
     At, Go, Fine, NoFiles
<1>3. JobInv(c)'
  BY DEF IInv, Shape, TypeOK, JobInv, AllDone, CopiersTyped, HostTyped, FilesTyped,
     GuestTyped, libvirt, moment, guest, ConvertFails, At, Go, Fine, NoFiles
<1>4. SnapInv(c)'
  BY DEF IInv, Shape, TypeOK, SnapInv, Stack, AllDone, Done, CopiersTyped, LoopTyped,
     FilesTyped, DisksTyped, Reading, At, moment, loop, disks, JobInv, Owned, Own, Pushing,
     ConvertFails, Go, Fine, NoFiles
<1>5. OfflineInv(c)'
  BY DEF IInv, Shape, TypeOK, OfflineInv, Stack, Done, CopiersTyped, LoopTyped, FilesTyped,
     DisksTyped, Reading, At, moment, loop, disks, guest, asked, JobInv, Owned, Own,
     Pushing, ConvertFails, Go, Fine, NoFiles
<1>6. DirectInv(c)'
  BY DEF IInv, Shape, TypeOK, DirectInv, CopiersTyped, LoopTyped, FilesTyped, Contents,
     Reading, At, loop, JobInv, Owned, Own, Pushing, ConvertFails, Go, Fine, NoFiles
<1> QED
  BY <1>1, <1>2, <1>3, <1>4, <1>5, <1>6 DEF IInv

LEMMA ConvertedKeeps ==
    ASSUME NEW c, Copiers = {c}, ~Lossy, IInv(c), Converted(c), Shape'
    PROVE  IInv(c)'
<1>1. Told(c)'
  <2> SUFFICES ASSUME pc'[c] = "told" PROVE Told(c)'
    BY DEF Told
  <2>1. /\ pc[c] = "convert" /\ left[c] = {} /\ how[c] # "snap"
        /\ UNCHANGED <<how, quiet, image, point, calm>>
    BY DEF Converted, At, Go, moment, IInv, Shape, TypeOK, CopiersTyped
  <2>2. how[c] \in {"direct", "offline"}
    BY <2>1 DEF IInv, Shape, Owned, Own, TypeOK, CopiersTyped, Tiers
  <2>3. CASE how[c] = "direct"
    BY <2>1, <2>3 DEF IInv, DirectInv, Told, Consistent
  <2>4. CASE how[c] = "offline"
    <3>1. calm[c] /\ AllDone(c)
      BY <2>1, <2>4 DEF IInv, OfflineInv, Done, AllDone
    <3>2. \A d \in Disks : point[c][d] # None
      BY DEF IInv, Shape, TypeOK, FilesTyped, Contents
    <3> QED
      BY <2>1, <2>4, <3>1, <3>2 DEF Told, AllDone, Consistent
  <2> QED
    BY <2>2, <2>3, <2>4
<1>2. Stack(c)'
  BY DEF IInv, Shape, TypeOK, Stack, DisksTyped, disks, Owned, Own, Images, Converted, At,
     Go, Fine
<1>3. JobInv(c)'
  BY DEF IInv, Shape, TypeOK, JobInv, AllDone, CopiersTyped, HostTyped, FilesTyped,
     GuestTyped, libvirt, moment, guest, Converted, At, Go, Fine
<1>4. SnapInv(c)'
  BY DEF IInv, Shape, TypeOK, SnapInv, Stack, AllDone, Done, CopiersTyped, LoopTyped,
     FilesTyped, DisksTyped, Reading, At, moment, loop, disks, JobInv, Owned, Own, Pushing,
     Converted, Go, Fine
<1>5. OfflineInv(c)'
  BY DEF IInv, Shape, TypeOK, OfflineInv, Stack, Done, CopiersTyped, LoopTyped, FilesTyped,
     DisksTyped, Reading, At, moment, loop, disks, guest, asked, JobInv, Owned, Own,
     Pushing, Converted, Go, Fine
<1>6. DirectInv(c)'
  BY DEF IInv, Shape, TypeOK, DirectInv, CopiersTyped, LoopTyped, FilesTyped, Contents,
     Reading, At, loop, JobInv, Owned, Own, Pushing, Converted, Go, Fine
<1> QED
  BY <1>1, <1>2, <1>3, <1>4, <1>5, <1>6 DEF IInv

LEMMA LookKeeps ==
    ASSUME NEW c, Copiers = {c}, ~Lossy, IInv(c), Look(c), Shape'
    PROVE  IInv(c)'
<1>1. Told(c)'
  BY DEF IInv, Shape, TypeOK, Told, AllDone, Done, Consistent, JobInv, SnapInv, OfflineInv,
     DirectInv, CopiersTyped, LoopTyped, FilesTyped, Contents, Owned, Own, Pushing, moment,
     Look, At, Go, Fine, Slip, Fall, NoFiles
<1>2. Stack(c)'
  BY DEF IInv, Shape, TypeOK, Stack, DisksTyped, disks, Owned, Own, Images, Look, At, Go,
     Fine, Slip, Fall, NoFiles
<1>3. JobInv(c)'
  BY DEF IInv, Shape, TypeOK, JobInv, AllDone, CopiersTyped, HostTyped, FilesTyped,
     GuestTyped, libvirt, moment, guest, Look, At, Go, Fine, Slip, Fall, NoFiles
<1>4. SnapInv(c)'
  BY DEF IInv, Shape, TypeOK, SnapInv, Stack, AllDone, Done, CopiersTyped, LoopTyped,
     FilesTyped, DisksTyped, Reading, At, moment, loop, disks, JobInv, Owned, Own, Pushing,
     Look, Go, Fine, Slip, Fall, NoFiles
<1>5. OfflineInv(c)'
  BY DEF IInv, Shape, TypeOK, OfflineInv, Stack, Done, CopiersTyped, LoopTyped, FilesTyped,
     DisksTyped, Reading, At, moment, loop, disks, guest, asked, JobInv, Owned, Own,
     Pushing, Look, Go, Fine, Slip, Fall, NoFiles
<1>6. DirectInv(c)'
  BY DEF IInv, Shape, TypeOK, DirectInv, CopiersTyped, LoopTyped, FilesTyped, Contents,
     Reading, At, loop, JobInv, Owned, Own, Pushing, Look, Go, Fine, Slip, Fall, NoFiles
<1> QED
  BY <1>1, <1>2, <1>3, <1>4, <1>5, <1>6 DEF IInv

LEMMA CommitKeeps ==
    ASSUME NEW c, Copiers = {c}, ~Lossy, IInv(c), NEW d \in Disks, Commit(c, d), Shape'
    PROVE  IInv(c)'
<1>1. Told(c)'
  BY DEF IInv, Shape, TypeOK, Told, AllDone, Done, Consistent, JobInv, SnapInv, OfflineInv,
     DirectInv, CopiersTyped, LoopTyped, FilesTyped, Contents, Owned, Own, Pushing, moment,
     Commit, At, Go, Fine, Slip, Fall, NoFiles, Possible, Merged
<1>2. Stack(c)'
  BY DEF IInv, Shape, TypeOK, Stack, DisksTyped, disks, Owned, Own, Images, Commit, At, Go,
     Fine, Slip, Fall, NoFiles, Possible, Merged
<1>3. JobInv(c)'
  BY DEF IInv, Shape, TypeOK, JobInv, AllDone, CopiersTyped, HostTyped, FilesTyped,
     GuestTyped, libvirt, moment, guest, Commit, At, Go, Fine, Slip, Fall, NoFiles,
     Possible, Merged
<1>4. SnapInv(c)'
  BY DEF IInv, Shape, TypeOK, SnapInv, Stack, AllDone, Done, CopiersTyped, LoopTyped,
     FilesTyped, DisksTyped, Reading, At, moment, loop, disks, JobInv, Owned, Own, Pushing,
     Commit, Go, Fine, Slip, Fall, NoFiles, Possible, Merged
<1>5. OfflineInv(c)'
  BY DEF IInv, Shape, TypeOK, OfflineInv, Stack, Done, CopiersTyped, LoopTyped, FilesTyped,
     DisksTyped, Reading, At, moment, loop, disks, guest, asked, JobInv, Owned, Own,
     Pushing, Commit, Go, Fine, Slip, Fall, NoFiles, Possible, Merged
<1>6. DirectInv(c)'
  BY DEF IInv, Shape, TypeOK, DirectInv, CopiersTyped, LoopTyped, FilesTyped, Contents,
     Reading, At, loop, JobInv, Owned, Own, Pushing, Commit, Go, Fine, Slip, Fall, NoFiles,
     Possible, Merged
<1> QED
  BY <1>1, <1>2, <1>3, <1>4, <1>5, <1>6 DEF IInv

LEMMA CommittedKeeps ==
    ASSUME NEW c, Copiers = {c}, ~Lossy, IInv(c), Committed(c), Shape'
    PROVE  IInv(c)'
<1>1. Told(c)'
  BY DEF IInv, Shape, TypeOK, Told, AllDone, Done, Consistent, JobInv, SnapInv, OfflineInv,
     DirectInv, CopiersTyped, LoopTyped, FilesTyped, Contents, Owned, Own, Pushing, moment,
     Committed, At, Go, Fine, Fall, NoFiles
<1>2. Stack(c)'
  BY DEF IInv, Shape, TypeOK, Stack, DisksTyped, disks, Owned, Own, Images, Committed, At,
     Go, Fine, Fall, NoFiles
<1>3. JobInv(c)'
  BY DEF IInv, Shape, TypeOK, JobInv, AllDone, CopiersTyped, HostTyped, FilesTyped,
     GuestTyped, libvirt, moment, guest, Committed, At, Go, Fine, Fall, NoFiles
<1>4. SnapInv(c)'
  BY DEF IInv, Shape, TypeOK, SnapInv, Stack, AllDone, Done, CopiersTyped, LoopTyped,
     FilesTyped, DisksTyped, Reading, At, moment, loop, disks, JobInv, Owned, Own, Pushing,
     Committed, Go, Fine, Fall, NoFiles
<1>5. OfflineInv(c)'
  BY DEF IInv, Shape, TypeOK, OfflineInv, Stack, Done, CopiersTyped, LoopTyped, FilesTyped,
     DisksTyped, Reading, At, moment, loop, disks, guest, asked, JobInv, Owned, Own,
     Pushing, Committed, Go, Fine, Fall, NoFiles
<1>6. DirectInv(c)'
  BY DEF IInv, Shape, TypeOK, DirectInv, CopiersTyped, LoopTyped, FilesTyped, Contents,
     Reading, At, loop, JobInv, Owned, Own, Pushing, Committed, Go, Fine, Fall, NoFiles
<1> QED
  BY <1>1, <1>2, <1>3, <1>4, <1>5, <1>6 DEF IInv

LEMMA WriteKeeps ==
    ASSUME NEW c, Copiers = {c}, ~Lossy, IInv(c), NEW d \in Disks, Write(d), Shape'
    PROVE  IInv(c)'
<1>1. Told(c)'
  BY DEF IInv, Shape, TypeOK, Told, AllDone, Done, Consistent, JobInv, SnapInv, OfflineInv,
     DirectInv, CopiersTyped, LoopTyped, FilesTyped, Contents, Owned, Own, Pushing, moment,
     Write, Rest, Fine, At
<1>2. Stack(c)'
  BY DEF IInv, Shape, TypeOK, Stack, DisksTyped, disks, Owned, Own, Images, Write, Rest,
     Fine, At
<1>3. JobInv(c)'
  BY DEF IInv, Shape, TypeOK, JobInv, AllDone, CopiersTyped, HostTyped, FilesTyped,
     GuestTyped, libvirt, moment, guest, Write, Rest, Fine, At
<1>4. SnapInv(c)'
  BY DEF IInv, Shape, TypeOK, SnapInv, Stack, AllDone, Done, CopiersTyped, LoopTyped,
     FilesTyped, DisksTyped, Reading, At, moment, loop, disks, JobInv, Owned, Own, Pushing,
     Write, Rest, Fine
<1>5. OfflineInv(c)'
  BY DEF IInv, Shape, TypeOK, OfflineInv, Stack, Done, CopiersTyped, LoopTyped, FilesTyped,
     DisksTyped, Reading, At, moment, loop, disks, guest, asked, JobInv, Owned, Own,
     Pushing, Write, Rest, Fine
<1>6. DirectInv(c)'
  BY DEF IInv, Shape, TypeOK, DirectInv, CopiersTyped, LoopTyped, FilesTyped, Contents,
     Reading, At, loop, JobInv, Owned, Own, Pushing, Write, Rest, Fine
<1> QED
  BY <1>1, <1>2, <1>3, <1>4, <1>5, <1>6 DEF IInv

LEMMA JobEndKeeps ==
    ASSUME NEW c, Copiers = {c}, ~Lossy, IInv(c), JobEnd, Shape'
    PROVE  IInv(c)'
<1>1. Told(c)'
  BY DEF IInv, Shape, TypeOK, Told, AllDone, Done, Consistent, JobInv, SnapInv, OfflineInv,
     DirectInv, CopiersTyped, LoopTyped, FilesTyped, Contents, Owned, Own, Pushing, moment,
     JobEnd, Rest, Fine, At
<1>2. Stack(c)'
  BY DEF IInv, Shape, TypeOK, Stack, DisksTyped, disks, Owned, Own, Images, JobEnd, Rest,
     Fine, At
<1>3. JobInv(c)'
  BY DEF IInv, Shape, TypeOK, JobInv, AllDone, CopiersTyped, HostTyped, FilesTyped,
     GuestTyped, libvirt, moment, guest, JobEnd, Rest, Fine, At
<1>4. SnapInv(c)'
  BY DEF IInv, Shape, TypeOK, SnapInv, Stack, AllDone, Done, CopiersTyped, LoopTyped,
     FilesTyped, DisksTyped, Reading, At, moment, loop, disks, JobInv, Owned, Own, Pushing,
     JobEnd, Rest, Fine
<1>5. OfflineInv(c)'
  BY DEF IInv, Shape, TypeOK, OfflineInv, Stack, Done, CopiersTyped, LoopTyped, FilesTyped,
     DisksTyped, Reading, At, moment, loop, disks, guest, asked, JobInv, Owned, Own,
     Pushing, JobEnd, Rest, Fine
<1>6. DirectInv(c)'
  BY DEF IInv, Shape, TypeOK, DirectInv, CopiersTyped, LoopTyped, FilesTyped, Contents,
     Reading, At, loop, JobInv, Owned, Own, Pushing, JobEnd, Rest, Fine
<1> QED
  BY <1>1, <1>2, <1>3, <1>4, <1>5, <1>6 DEF IInv

LEMMA PowerOffKeeps ==
    ASSUME NEW c, Copiers = {c}, ~Lossy, IInv(c), PowerOff, Shape'
    PROVE  IInv(c)'
<1>1. Told(c)'
  BY DEF IInv, Shape, TypeOK, Told, AllDone, Done, Consistent, JobInv, SnapInv, OfflineInv,
     DirectInv, CopiersTyped, LoopTyped, FilesTyped, Contents, Owned, Own, Pushing, moment,
     PowerOff, Rest, Fine, At
<1>2. Stack(c)'
  BY DEF IInv, Shape, TypeOK, Stack, DisksTyped, disks, Owned, Own, Images, PowerOff, Rest,
     Fine, At
<1>3. JobInv(c)'
  BY DEF IInv, Shape, TypeOK, JobInv, AllDone, CopiersTyped, HostTyped, FilesTyped,
     GuestTyped, libvirt, moment, guest, PowerOff, Rest, Fine, At
<1>4. SnapInv(c)'
  BY DEF IInv, Shape, TypeOK, SnapInv, Stack, AllDone, Done, CopiersTyped, LoopTyped,
     FilesTyped, DisksTyped, Reading, At, moment, loop, disks, JobInv, Owned, Own, Pushing,
     PowerOff, Rest, Fine
<1>5. OfflineInv(c)'
  BY DEF IInv, Shape, TypeOK, OfflineInv, Stack, Done, CopiersTyped, LoopTyped, FilesTyped,
     DisksTyped, Reading, At, moment, loop, disks, guest, asked, JobInv, Owned, Own,
     Pushing, PowerOff, Rest, Fine
<1>6. DirectInv(c)'
  BY DEF IInv, Shape, TypeOK, DirectInv, CopiersTyped, LoopTyped, FilesTyped, Contents,
     Reading, At, loop, JobInv, Owned, Own, Pushing, PowerOff, Rest, Fine
<1> QED
  BY <1>1, <1>2, <1>3, <1>4, <1>5, <1>6 DEF IInv

LEMMA PowerOnKeeps ==
    ASSUME NEW c, Copiers = {c}, ~Lossy, IInv(c), PowerOn, Shape'
    PROVE  IInv(c)'
<1>1. Told(c)'
  BY DEF IInv, Shape, TypeOK, Told, AllDone, Done, Consistent, JobInv, SnapInv, OfflineInv,
     DirectInv, CopiersTyped, LoopTyped, FilesTyped, Contents, Owned, Own, Pushing, moment,
     PowerOn, Rest, Fine, At
<1>2. Stack(c)'
  BY DEF IInv, Shape, TypeOK, Stack, DisksTyped, disks, Owned, Own, Images, PowerOn, Rest,
     Fine, At
<1>3. JobInv(c)'
  BY DEF IInv, Shape, TypeOK, JobInv, AllDone, CopiersTyped, HostTyped, FilesTyped,
     GuestTyped, libvirt, moment, guest, PowerOn, Rest, Fine, At
<1>4. SnapInv(c)'
  BY DEF IInv, Shape, TypeOK, SnapInv, Stack, AllDone, Done, CopiersTyped, LoopTyped,
     FilesTyped, DisksTyped, Reading, At, moment, loop, disks, JobInv, Owned, Own, Pushing,
     PowerOn, Rest, Fine
<1>5. OfflineInv(c)'
  <2>1. UNCHANGED <<pc, how, src, under, top, data, left, cur, got, image, point, calm>>
    BY DEF PowerOn, Rest, asked, loop, moment, disks
  <2>2. pc[c] = "convert" /\ how[c] = "offline" => cur[c] = None
    <3> SUFFICES ASSUME pc[c] = "convert", how[c] = "offline", cur[c] # None PROVE FALSE
      OBVIOUS
    <3>1. cur[c] \in Disks /\ src[c][cur[c]] = Base /\ under[cur[c]][c] = None
      BY DEF IInv, OfflineInv, Shape, TypeOK, LoopTyped
    <3>2. top[cur[c]] = Base
      BY <3>1 DEF IInv, Stack, Shape, TypeOK, DisksTyped, Images
    <3> QED
      BY <3>1, <3>2 DEF PowerOn, Source, At
  <2>3. power'
    BY DEF PowerOn
  <2> QED
    BY <2>1, <2>2, <2>3 DEF IInv, OfflineInv, Done
<1>6. DirectInv(c)'
  BY DEF IInv, Shape, TypeOK, DirectInv, CopiersTyped, LoopTyped, FilesTyped, Contents,
     Reading, At, loop, JobInv, Owned, Own, Pushing, PowerOn, Rest, Fine
<1> QED
  BY <1>1, <1>2, <1>3, <1>4, <1>5, <1>6 DEF IInv

LEMMA DropCheckpointKeeps ==
    ASSUME NEW c, Copiers = {c}, ~Lossy, IInv(c), DropCheckpoint, Shape'
    PROVE  IInv(c)'
<1>1. Told(c)'
  BY DEF IInv, Shape, TypeOK, Told, AllDone, Done, Consistent, JobInv, SnapInv, OfflineInv,
     DirectInv, CopiersTyped, LoopTyped, FilesTyped, Contents, Owned, Own, Pushing, moment,
     DropCheckpoint, Rest, Fine, At
<1>2. Stack(c)'
  BY DEF IInv, Shape, TypeOK, Stack, DisksTyped, disks, Owned, Own, Images, DropCheckpoint,
     Rest, Fine, At
<1>3. JobInv(c)'
  BY DEF IInv, Shape, TypeOK, JobInv, AllDone, CopiersTyped, HostTyped, FilesTyped,
     GuestTyped, libvirt, moment, guest, DropCheckpoint, Rest, Fine, At
<1>4. SnapInv(c)'
  BY DEF IInv, Shape, TypeOK, SnapInv, Stack, AllDone, Done, CopiersTyped, LoopTyped,
     FilesTyped, DisksTyped, Reading, At, moment, loop, disks, JobInv, Owned, Own, Pushing,
     DropCheckpoint, Rest, Fine
<1>5. OfflineInv(c)'
  BY DEF IInv, Shape, TypeOK, OfflineInv, Stack, Done, CopiersTyped, LoopTyped, FilesTyped,
     DisksTyped, Reading, At, moment, loop, disks, guest, asked, JobInv, Owned, Own,
     Pushing, DropCheckpoint, Rest, Fine
<1>6. DirectInv(c)'
  BY DEF IInv, Shape, TypeOK, DirectInv, CopiersTyped, LoopTyped, FilesTyped, Contents,
     Reading, At, loop, JobInv, Owned, Own, Pushing, DropCheckpoint, Rest, Fine
<1> QED
  BY <1>1, <1>2, <1>3, <1>4, <1>5, <1>6 DEF IInv

LEMMA RestartKeeps ==
    ASSUME NEW c, Copiers = {c}, ~Lossy, IInv(c), Restart, Shape'
    PROVE  IInv(c)'
<1>1. Told(c)'
  BY DEF IInv, Shape, TypeOK, Told, AllDone, Done, Consistent, JobInv, SnapInv, OfflineInv,
     DirectInv, CopiersTyped, LoopTyped, FilesTyped, Contents, Owned, Own, Pushing, moment,
     Restart, At
<1>2. Stack(c)'
  BY DEF IInv, Shape, TypeOK, Stack, DisksTyped, disks, Owned, Own, Images, Restart, At
<1>3. JobInv(c)'
  BY DEF IInv, Shape, TypeOK, JobInv, AllDone, CopiersTyped, HostTyped, FilesTyped,
     GuestTyped, libvirt, moment, guest, Restart, At
<1>4. SnapInv(c)'
  BY DEF IInv, Shape, TypeOK, SnapInv, Stack, AllDone, Done, CopiersTyped, LoopTyped,
     FilesTyped, DisksTyped, Reading, At, moment, loop, disks, JobInv, Owned, Own, Pushing,
     Restart
<1>5. OfflineInv(c)'
  BY DEF IInv, Shape, TypeOK, OfflineInv, Stack, Done, CopiersTyped, LoopTyped, FilesTyped,
     DisksTyped, Reading, At, moment, loop, disks, guest, asked, JobInv, Owned, Own,
     Pushing, Restart
<1>6. DirectInv(c)'
  BY DEF IInv, Shape, TypeOK, DirectInv, CopiersTyped, LoopTyped, FilesTyped, Contents,
     Reading, At, loop, JobInv, Owned, Own, Pushing, Restart
<1> QED
  BY <1>1, <1>2, <1>3, <1>4, <1>5, <1>6 DEF IInv

LEMMA InitTrue ==
    ASSUME NEW c, Copiers = {c}, ~Lossy PROVE Init => IInv(c)
<1> SUFFICES ASSUME Init PROVE IInv(c)
  OBVIOUS
<1>1. pc[c] = "idle" /\ job = None /\ c # None /\ c # Base
  BY DEF Init
<1>2. Told(c) /\ JobInv(c) /\ SnapInv(c) /\ OfflineInv(c) /\ DirectInv(c)
  BY <1>1 DEF Told, JobInv, SnapInv, OfflineInv, DirectInv
<1>3. Stack(c)
  BY <1>1 DEF Init, Stack
<1> QED
  BY <1>2, <1>3, InitShape DEF IInv

LEMMA Kept ==
    ASSUME NEW c, Copiers = {c}, ~Lossy PROVE IInv(c) /\ [Next]_vars => IInv(c)'
<1> SUFFICES ASSUME IInv(c), [Next]_vars PROVE IInv(c)'
  OBVIOUS
<1>0. Shape'
  BY ShapeKept DEF IInv
<1>1. CASE \E k \in Kinds : Ask(c, k)
  BY <1>0, <1>1, AskKeeps
<1>2. CASE PushStep(c)
  BY <1>0, <1>2, ProbeKeeps, CreateKeeps, FreezeKeeps, BeginKeeps, ThawKeeps, WaitKeeps,
     CheckKeeps, CaughtKeeps, RetryKeeps DEF PushStep
<1>3. CASE OverlayStep(c)
  BY <1>0, <1>3, SnapKeeps, EndConvertKeeps, ConvertFailsKeeps, ConvertedKeeps, LookKeeps,
     CommittedKeeps, StartConvertKeeps, CommitKeeps DEF OverlayStep
<1>4. CASE Outside
  BY <1>0, <1>4, JobEndKeeps, PowerOffKeeps, PowerOnKeeps, DropCheckpointKeeps, RestartKeeps,
     WriteKeeps DEF Outside
<1>5. CASE UNCHANGED vars
  <2>1. Told(c)' /\ Stack(c)' /\ JobInv(c)'
    BY <1>5 DEF IInv, vars, guest, disks, libvirt, asked, loop, moment, Told, Stack, JobInv,
       AllDone, Consistent
  <2>2. SnapInv(c)' /\ OfflineInv(c)' /\ DirectInv(c)'
    BY <1>5 DEF IInv, vars, guest, disks, libvirt, asked, loop, moment, SnapInv, OfflineInv,
       DirectInv, AllDone, Done
  <2> QED
    BY <1>0, <2>1, <2>2 DEF IInv
<1> QED
  BY <1>1, <1>2, <1>3, <1>4, <1>5 DEF Next, CopyStep

LEMMA InvHonest ==
    ASSUME NEW c, Copiers = {c}, IInv(c) PROVE Honest
<1> SUFFICES ASSUME pc[c] = "told"
             PROVE  /\ \A d \in Disks : image[c][d] # None
                    /\ how[c] # "direct" => image[c] = point[c]
                    /\ Consistent(c) => calm[c]
  BY DEF Honest, At
<1>1. AllDone(c) => image[c] = point[c]
  BY DEF AllDone, IInv, Shape, TypeOK, FilesTyped
<1> QED
  BY <1>1 DEF IInv, Told

\* A copy that is answered for is there; unless it was made of the live disks each of its
\* images is what the disk held at one moment; and if it is called consistent the guest was
\* off or frozen then: for one copy at a time whose job's statistics libvirt keeps.
THEOREM AnswersAreTrue ==
    ASSUME NEW c, Copiers = {c}, ~Lossy PROVE Spec => []Honest
<1>1. Init => IInv(c)
  BY InitTrue
<1>2. IInv(c) /\ [Next]_vars => IInv(c)'
  BY Kept
<1>3. IInv(c) => Honest
  BY InvHonest
<1> QED
  BY <1>1, <1>2, <1>3, PTL DEF Spec

\* No half-written image of the push-mode job is taken for a good one, as long as the copy
\* is alone and libvirt keeps the statistics of its job.
THEOREM WholeIfKnown ==
    ASSUME NEW c, Copiers = {c}, ~Lossy PROVE Spec => []NeverHalfWritten
<1>1. Init => IInv(c)
  BY InitTrue
<1>2. IInv(c) /\ [Next]_vars => IInv(c)'
  BY Kept
<1>3. IInv(c) => NeverHalfWritten
  <2>1. IInv(c) => \A d \in Disks : point[c][d] # Torn
    BY DEF IInv, Shape, TypeOK, FilesTyped, Contents
  <2> QED
    BY <2>1 DEF IInv, Told, AllDone, NeverHalfWritten, At
<1> QED
  BY <1>1, <1>2, <1>3, PTL DEF Spec
=============================================================================
