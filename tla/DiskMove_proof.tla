--------------------------- MODULE DiskMove_proof ---------------------------
(***************************************************************************)
(* For any directories, requests and bounds: the types of the disk's       *)
(* model, that a move is under way exactly while its request holds the VM, *)
(* that what was last written is kept, that the records agree once nothing *)
(* is under way, and that a guest boots what was written last.             *)
(***************************************************************************)
EXTENDS DiskMove, TLAPS

USE DiskAssumption

\* What the calls a move is made of have in common.
LEMMA DoneTyped ==
    ASSUME TypeOK, NEW m \in Movers, Done(m)
    PROVE  /\ pc' \in [Workers -> MovePC \cup CallPC]
           /\ \A n \in Movers : pc'[n] \in MovePC
           /\ \A c \in Callers : pc'[c] \in CallPC
           /\ hold' \in Movers \cup {Nobody}
           /\ from' \in [Movers -> Dirs] /\ to' \in [Movers -> Dirs]
           /\ way' \in [Movers -> {"there", "undo", "rollback"}]
           /\ defined' \in [Movers -> BOOLEAN]
           /\ seen' \in [Movers -> 0 .. MaxVersion]
  BY DEF TypeOK, Done, Workers, MovePC

LEMMA GotoTyped ==
    ASSUME TypeOK, NEW m \in Movers, NEW a \in MovePC, Goto(m, a)
    PROVE  /\ pc' \in [Workers -> MovePC \cup CallPC]
           /\ \A n \in Movers : pc'[n] \in MovePC
           /\ \A c \in Callers : pc'[c] \in CallPC
  BY DEF TypeOK, Goto, Workers

LEMMA CallGotoTyped ==
    ASSUME TypeOK, NEW c \in Callers, NEW a \in CallPC, Goto(c, a)
    PROVE  /\ pc' \in [Workers -> MovePC \cup CallPC]
           /\ \A n \in Movers : pc'[n] \in MovePC
           /\ \A d \in Callers : pc'[d] \in CallPC
  BY DEF TypeOK, Goto, Workers
LEMMA Ends ==
    ASSUME TypeOK, NEW m \in Movers
    PROVE  Src(m) \in Dirs /\ Dst(m) \in Dirs
  BY DEF TypeOK, Src, Dst

LEMMA MovedTyped ==
    ASSUME TypeOK, NEW m \in Movers, Moved(m)
    PROVE  /\ pc' \in [Workers -> MovePC \cup CallPC]
           /\ \A n \in Movers : pc'[n] \in MovePC
           /\ \A c \in Callers : pc'[c] \in CallPC
           /\ hold' \in Movers \cup {Nobody}
           /\ from' \in [Movers -> Dirs] /\ to' \in [Movers -> Dirs]
           /\ way' \in [Movers -> {"there", "undo", "rollback"}]
           /\ defined' \in [Movers -> BOOLEAN]
           /\ seen' \in [Movers -> 0 .. MaxVersion]
  <1>1. CASE Done(m)
    BY <1>1, DoneTyped
  <1>2. CASE (Goto(m, "record") \/ Goto(m, "rerecord")) /\ UNCHANGED <<hold, plan>>
    BY <1>2, GotoTyped DEF MovePC, TypeOK, plan
  <1> QED
    BY <1>1, <1>2 DEF Moved, TypeOK

LEMMA ThrowAwayTyped ==
    ASSUME TypeOK, NEW m \in Movers, ThrowAway(m), faults' \in 0 .. MaxFaults
    PROVE  TypeOK'
  <1>1. disk' \in [Dirs -> 0 .. MaxVersion] /\ half' \subseteq Dirs
    BY Ends DEF ThrowAway, TypeOK, host
  <1>2. guest' \in Places \cup {Gone}
    BY Ends DEF ThrowAway, TypeOK, host, Unnamed
  <1>3. Done(m) /\ torn' \in BOOLEAN /\ UNCHANGED <<latest, wanted, crossed>>
    BY DEF ThrowAway, NotMoved, TypeOK
  <1> QED
    BY <1>1, <1>2, <1>3, DoneTyped DEF ThrowAway, TypeOK, records, restoring, Places

LEMMA MoveTyped ==
    ASSUME TypeOK, NEW m \in Movers, MoveStep(m)
    PROVE  TypeOK'
  <1> USE DEF TypeOK, plan, host, records, restoring, history, Places
  <1>1. CASE Look(m)
    BY <1>1, DoneTyped, GotoTyped DEF Look, Refuse, MovePC
  <1>2. CASE Plan(m)
    BY <1>2, DoneTyped, GotoTyped DEF Plan, Refuse, MovePC
  <1>3. CASE DryRun(m)
    BY <1>3, DoneTyped, GotoTyped DEF DryRun, Refuse, MovePC
  <1>4. CASE EarlyFail(m)
    BY <1>4, DoneTyped, GotoTyped DEF EarlyFail, Refuse, Fault, MovePC
  <1>5. CASE Rename(m)
    <2>1. disk' \in [Dirs -> 0 .. MaxVersion] /\ half' \subseteq Dirs
      BY <1>5, Ends DEF Rename
    <2>2. guest' \in Dirs \cup {Nowhere, Gone}
      BY <1>5, Ends DEF Rename, Unnamed
    <2> QED
      BY <1>5, <2>1, <2>2, MovedTyped DEF Rename
  <1>6. CASE CannotMove(m)
    BY <1>6, DoneTyped, GotoTyped DEF CannotMove, NotMoved, MovePC
  <1>7. CASE Copy(m)
    BY <1>7, DoneTyped, GotoTyped DEF Copy, Src, Dst, MovePC
  <1>8. CASE Copied(m)
    <2>1. CASE disk[Src(m)] = seen[m]
      BY <1>8, <2>1, GotoTyped DEF Copied, MovePC
    <2>2. CASE disk[Src(m)] # seen[m]
      BY <1>8, <2>2, ThrowAwayTyped DEF Copied
    <2> QED
      BY <2>1, <2>2
  <1>9. CASE LastLook(m)
    <2>1. CASE guest = Nowhere
      BY <1>9, <2>1, GotoTyped DEF LastLook, MovePC
    <2>2. CASE guest # Nowhere
      BY <1>9, <2>2, ThrowAwayTyped DEF LastLook
    <2> QED
      BY <2>1, <2>2
  <1>10. CASE CopyFail(m)
    BY <1>10, ThrowAwayTyped DEF CopyFail, Fault
  <1>11. CASE Unlink(m)
    <2>1. disk' \in [Dirs -> 0 .. MaxVersion] /\ guest' \in Dirs \cup {Nowhere, Gone}
      BY <1>11, Ends DEF Unlink, Unnamed
    <2> QED
      BY <1>11, <2>1, MovedTyped DEF Unlink
  <1>12. CASE UnlinkFail(m)
    BY <1>12, DoneTyped, GotoTyped DEF UnlinkFail, NotMoved, Fault, MovePC
  <1>13. CASE Record(m)
    BY <1>13, DoneTyped, GotoTyped DEF Record, MovePC
  <1>14. CASE RecordFail(m)
    BY <1>14, DoneTyped, GotoTyped DEF RecordFail, Fault, Back, MovePC
  <1>15. CASE DumpXml(m)
    BY <1>15, DoneTyped, GotoTyped DEF DumpXml, Back, MovePC
  <1>16. CASE Define(m)
    BY <1>16, DoneTyped, GotoTyped DEF Define, MovePC
  <1>17. CASE DefineFail(m)
    BY <1>17, DoneTyped, GotoTyped DEF DefineFail, Fault, Back, MovePC
  <1>18. CASE Rerecord(m)
    <2>1. row' \in Dirs \cup {Nowhere}
      BY <1>18 DEF Rerecord
    <2>2. faults' \in 0 .. MaxFaults
      BY <1>18 DEF Rerecord, Fault
    <2>3. torn' \in BOOLEAN
      BY <1>18, Zenon DEF Rerecord
    <2> QED
      BY <1>18, <2>1, <2>2, <2>3, DoneTyped DEF Rerecord
  <1> QED
    BY <1>1, <1>2, <1>3, <1>4, <1>5, <1>6, <1>7, <1>8, <1>9, <1>10, <1>11, <1>12,
       <1>13, <1>14, <1>15, <1>16, <1>17, <1>18 DEF MoveStep

LEMMA CallTyped ==
    ASSUME TypeOK, NEW c \in Callers,
           CallStep(c) \/ \E job \in Jobs : Begin(c, job)
    PROVE  TypeOK'
  <1> USE DEF TypeOK, plan, host, records, restoring, history, Places
  <1>1. CASE Start(c)
    BY <1>1, CallGotoTyped DEF Start, Bootable, CallPC
  <1>2. CASE RestoreLook(c)
    BY <1>2, CallGotoTyped DEF RestoreLook, CallPC
  <1>3. CASE RestorePlace(c)
    BY <1>3, CallGotoTyped DEF RestorePlace, CallPC
  <1>4. CASE Convert(c)
    BY <1>4, CallGotoTyped DEF Convert, CallPC
  <1>5. CASE Put(c)
    <2>1. where[c] \in Dirs /\ latest' \in 0 .. MaxVersion
      BY <1>5 DEF Put
    <2>2. wanted' \in BOOLEAN /\ crossed' \in BOOLEAN /\ torn' \in BOOLEAN
      <3>1. (UNCHANGED history) \/ (wanted' = TRUE /\ UNCHANGED <<crossed, torn>>)
        BY <1>5, Zenon DEF Put
      <3> QED
        BY <3>1
    <2>3. /\ pc' \in [Workers -> MovePC \cup CallPC]
          /\ \A n \in Movers : pc'[n] \in MovePC
          /\ \A d \in Callers : pc'[d] \in CallPC
          /\ where' \in [Callers -> Dirs]
      BY <1>5, <2>1, CallGotoTyped DEF Put, Over, CallPC, Workers
    <2>4. disk' \in [Dirs -> 0 .. MaxVersion] /\ half' \subseteq Dirs
      BY <1>5, <2>1 DEF Put
    <2>5. guest' \in Places \cup {Gone} /\ tmp' \in [Dirs -> Callers \cup {Nobody}]
      BY <1>5, <2>1 DEF Put, Unnamed
    <2> QED
      BY <1>5, <2>1, <2>2, <2>3, <2>4, <2>5 DEF Put
  <1>6. CASE PutRow(c)
    BY <1>6, CallGotoTyped DEF PutRow, Over, CallPC, Workers
  <1>7. CASE Undefine(c)
    BY <1>7, CallGotoTyped DEF Undefine, CallPC
  <1>8. CASE OrphanLook(c)
    BY <1>8, CallGotoTyped DEF OrphanLook, CallPC
  <1>9. CASE DeleteFiles(c)
    <2>1. disk' \in [Dirs -> 0 .. MaxVersion] /\ half' \subseteq Dirs /\ row' \in Places
      BY <1>9 DEF DeleteFiles
    <2>2. guest' \in Places \cup {Gone} /\ wanted' \in BOOLEAN
      BY <1>9 DEF DeleteFiles, Unnamed
    <2> QED
      BY <1>9, <2>1, <2>2, CallGotoTyped DEF DeleteFiles, CallPC
  <1>10. CASE CallFail(c)
    BY <1>10, CallGotoTyped DEF CallFail, Over, Fault, CallPC, Workers
  <1>11. ASSUME NEW job \in Jobs, Begin(c, job) PROVE TypeOK'
    <2>1. crossed' \in BOOLEAN
      BY <1>11 DEF Begin, Crossing
    <2> QED
      BY <1>11, <2>1, CallGotoTyped DEF Begin, Crossing, CallPC
  <1> QED
    BY <1>1, <1>2, <1>3, <1>4, <1>5, <1>6, <1>7, <1>8, <1>9, <1>10, <1>11 DEF CallStep

LEMMA HostTyped ==
    ASSUME TypeOK, OutsideStart \/ OutsideUndefine \/ Stop \/ Write \/ Restart
    PROVE  TypeOK'
  <1> USE DEF TypeOK, plan, host, records, restoring, history, Places
  <1>1. CASE OutsideStart
    BY <1>1 DEF OutsideStart, Bootable
  <1>2. CASE OutsideUndefine
    BY <1>2 DEF OutsideUndefine
  <1>3. CASE Stop
    BY <1>3 DEF Stop
  <1>4. CASE Write
    BY <1>4 DEF Write
  <1>5. CASE Restart
    BY <1>5 DEF Restart, Fault, Workers, MovePC, CallPC
  <1> QED
    BY <1>1, <1>2, <1>3, <1>4, <1>5

\* Every variable has its type in every reachable state, whatever the
\* directories, the requests and the bounds.
THEOREM TypeCorrect == Spec => []TypeOK
  <1>1. Init => TypeOK
    <2> SUFFICES ASSUME Init PROVE TypeOK
      OBVIOUS
    <2>1. disk \in [Dirs -> 0 .. MaxVersion] /\ half \subseteq Dirs /\ latest \in 0 .. MaxVersion
      BY DEF Init
    <2>2. row \in Places /\ xml \in Places /\ guest \in Places \cup {Gone}
      BY DEF Init, Places
    <2>3. /\ pc \in [Workers -> MovePC \cup CallPC]
          /\ \A m \in Movers : pc[m] \in MovePC
          /\ \A c \in Callers : pc[c] \in CallPC
      BY DEF Init, Workers, MovePC, CallPC
    <2>4. /\ seen \in [Movers -> 0 .. MaxVersion]
          /\ faults \in 0 .. MaxFaults
          /\ tmp \in [Dirs -> Callers \cup {Nobody}]
      BY DEF Init
    <2> QED
      BY <2>1, <2>2, <2>3, <2>4 DEF Init, TypeOK
  <1>2. TypeOK /\ [Next]_vars => TypeOK'
    <2> SUFFICES ASSUME TypeOK, [Next]_vars PROVE TypeOK'
      OBVIOUS
    <2>1. ASSUME NEW m \in Movers, NEW e \in Dirs, Ask(m, e) PROVE TypeOK'
      <3>1. crossed' \in BOOLEAN
        BY <2>1 DEF Ask, Crossing
      <3> QED
        BY <2>1, <3>1, GotoTyped DEF Ask, Crossing, TypeOK, MovePC, Places, host, records,
                                     restoring
    <2>2. CASE UNCHANGED vars
      BY <2>2 DEF vars, TypeOK, Places
    <2> QED
      BY <2>1, <2>2, MoveTyped, CallTyped, HostTyped DEF Next
  <1> QED
    BY <1>1, <1>2, PTL DEF Spec

(***************************************************************************)
(* The hold.                                                               *)
(***************************************************************************)

LEMMA DoneLetsGo ==
    ASSUME TypeOK, HolderMoves, NEW m \in Movers, pc[m] # "idle", Done(m)
    PROVE  HolderMoves'
  BY DEF TypeOK, HolderMoves, Done, Workers

LEMMA GotoKeeps ==
    ASSUME TypeOK, HolderMoves, NEW m \in Movers, pc[m] # "idle",
           NEW a \in MovePC \ {"idle"}, Goto(m, a), hold' = hold
    PROVE  HolderMoves'
  BY DEF TypeOK, HolderMoves, Goto, Workers

LEMMA MoveHolds ==
    ASSUME TypeOK, HolderMoves, NEW m \in Movers, MoveStep(m)
    PROVE  HolderMoves'
  <1>1. ASSUME Moved(m), pc[m] # "idle" PROVE HolderMoves'
    BY <1>1, DoneLetsGo, GotoKeeps DEF Moved, TypeOK, MovePC
  <1>2. CASE Look(m)
    BY <1>2, DoneLetsGo, GotoKeeps DEF Look, Refuse, MovePC
  <1>3. CASE Plan(m)
    BY <1>3, DoneLetsGo, GotoKeeps DEF Plan, Refuse, MovePC
  <1>4. CASE DryRun(m)
    BY <1>4, DoneLetsGo, GotoKeeps DEF DryRun, Refuse, MovePC
  <1>5. CASE EarlyFail(m)
    BY <1>5, DoneLetsGo DEF EarlyFail, Refuse
  <1>6. CASE Rename(m)
    BY <1>6, <1>1 DEF Rename
  <1>7. CASE CannotMove(m)
    BY <1>7, DoneLetsGo DEF CannotMove, NotMoved
  <1>8. CASE Copy(m)
    BY <1>8, GotoKeeps DEF Copy, MovePC
  <1>9. CASE Copied(m)
    BY <1>9, DoneLetsGo, GotoKeeps DEF Copied, ThrowAway, NotMoved, MovePC
  <1>10. CASE LastLook(m)
    BY <1>10, DoneLetsGo, GotoKeeps DEF LastLook, ThrowAway, NotMoved, MovePC
  <1>11. CASE CopyFail(m)
    BY <1>11, DoneLetsGo DEF CopyFail, ThrowAway, NotMoved
  <1>12. CASE Unlink(m)
    BY <1>12, <1>1 DEF Unlink
  <1>13. CASE UnlinkFail(m)
    BY <1>13, DoneLetsGo DEF UnlinkFail, NotMoved
  <1>14. CASE Record(m)
    BY <1>14, DoneLetsGo, GotoKeeps DEF Record, MovePC
  <1>15. CASE RecordFail(m)
    BY <1>15, GotoKeeps DEF RecordFail, Back, MovePC
  <1>16. CASE DumpXml(m)
    BY <1>16, DoneLetsGo, GotoKeeps DEF DumpXml, Back, MovePC
  <1>17. CASE Define(m)
    BY <1>17, DoneLetsGo DEF Define
  <1>18. CASE DefineFail(m)
    BY <1>18, GotoKeeps DEF DefineFail, Back, MovePC
  <1>19. CASE Rerecord(m)
    BY <1>19, DoneLetsGo DEF Rerecord
  <1> QED
    BY <1>2, <1>3, <1>4, <1>5, <1>6, <1>7, <1>8, <1>9, <1>10, <1>11, <1>12, <1>13,
       <1>14, <1>15, <1>16, <1>17, <1>18, <1>19 DEF MoveStep

\* Callers never take the hold nor let it go, and are not movers.
LEMMA CallHolds ==
    ASSUME TypeOK, HolderMoves, NEW c \in Callers,
           CallStep(c) \/ \E job \in Jobs : Begin(c, job)
    PROVE  HolderMoves'
  <1>1. hold' = hold
    BY DEF CallStep, Start, RestoreLook, RestorePlace, Convert, Put, PutRow, Undefine, OrphanLook,
           DeleteFiles, CallFail, Begin
  <1>2. \E a : Goto(c, a)
    BY DEF CallStep, Start, RestoreLook, RestorePlace, Convert, Put, PutRow, Undefine, OrphanLook,
           DeleteFiles, CallFail, Begin, Goto, Over
  <1> QED
    BY <1>1, <1>2 DEF HolderMoves, TypeOK, Goto, Workers

\* A move is under way exactly while its request holds the VM: every return of
\* the route lets the hold go, and only what lets it go ends a move.
THEOREM OnlyTheHolderMoves == Spec => []HolderMoves
  <1>1. Init => HolderMoves
    BY DEF Init, HolderMoves, Workers
  <1>2. TypeOK /\ HolderMoves /\ [Next]_vars => HolderMoves'
    <2> SUFFICES ASSUME TypeOK, HolderMoves, [Next]_vars PROVE HolderMoves'
      OBVIOUS
    <2>1. ASSUME NEW m \in Movers, NEW e \in Dirs, Ask(m, e) PROVE HolderMoves'
      BY <2>1 DEF Ask, Goto, HolderMoves, TypeOK, Workers
    <2>2. CASE Restart
      BY <2>2 DEF Restart, HolderMoves, Workers
    <2>3. CASE OutsideStart \/ OutsideUndefine \/ Stop \/ Write
      BY <2>3 DEF OutsideStart, OutsideUndefine, Stop, Write, HolderMoves
    <2>4. CASE UNCHANGED vars
      BY <2>4 DEF vars, HolderMoves
    <2> QED
      BY <2>1, <2>2, <2>3, <2>4, MoveHolds, CallHolds DEF Next
  <1> QED
    BY <1>1, <1>2, TypeCorrect, PTL DEF Spec

(***************************************************************************)
(* What was last written is kept, the records settle, and what boots is    *)
(* the newest.  As long as nothing let through earlier acts under a        *)
(* request, requests come one at a time: either nothing holds the VM and   *)
(* callers are at work on settled records, or one move is, and the         *)
(* invariant says for each of its steps where the file is, which copies    *)
(* are whole, which guest may be running and what the records say.         *)
(***************************************************************************)

\* Requests come one at a time.
Alone == \A c \in Callers : pc[c] # "idle" =>
            /\ hold = Nobody
            /\ \A b \in Callers : pc[b] # "idle" => b = c

\* The guest's file is there, and nothing newer than the newest is anywhere.
Sane == /\ latest > 0 /\ guest # Gone
        /\ guest \in Dirs => disk[guest] # 0
        /\ \A d \in Dirs : disk[d] <= latest

\* The file in d is whole and the newest.
Held(d) == d \notin half /\ disk[d] = latest

Kept == wanted => \E d \in Dirs : Held(d)

\* The file of the move is at its destination.
Arrived(m) == \/ pc[m] \in {"record", "dumpxml", "define"}
              \/ way[m] # "there" /\ pc[m] # "rerecord"
Planned(m) == pc[m] \notin {"idle", "look", "plan"}

\* How far a move can be, and which way.
Course(m) ==
    /\ pc[m] \in {"idle", "look", "plan", "dryrun", "lastlook", "record", "dumpxml", "define"}
         => way[m] = "there"
    /\ pc[m] = "rerecord" => way[m] = "rollback"
    /\ pc[m] \in {"copying", "lastlook", "unlink"} => far
    /\ pc[m] \in {"dryrun", "dumpxml", "define"} => defined[m]
    /\ Planned(m) => from[m] # to[m]

\* What may run meanwhile: a guest on the file being moved, or none.
Guest(m) ==
    /\ pc[m] \notin {"idle", "look"} /\ ~defined[m] => guest = Nowhere /\ xml = Nowhere
    /\ pc[m] \in {"plan", "dryrun"} => guest = Nowhere \/ xml = Nowhere \/ guest = xml
    /\ Planned(m) /\ pc[m] # "dryrun" =>
         /\ xml \in {from[m], Nowhere}
         /\ guest \in {IF Arrived(m) THEN to[m] ELSE from[m], Nowhere}
    /\ far /\ (pc[m] = "unlink" \/ Split(m)) => guest = Nowhere

\* The two files: a copy is unfinished until it is compared, and after that it
\* is as good as the source unless a guest is running on the source.
Files(m) ==
    /\ pc[m] \in {"dryrun", "move"} => disk[Dst(m)] = 0
    /\ pc[m] \in {"record", "dumpxml", "define"} => disk[from[m]] = 0
    /\ pc[m] = "copying" => Dst(m) \in half /\ disk[Dst(m)] = seen[m]
    /\ pc[m] \in {"lastlook", "unlink"} =>
         /\ Src(m) \in half <=> Dst(m) \in half
         /\ guest = Nowhere => disk[Src(m)] = disk[Dst(m)]
         /\ disk[Dst(m)] = latest => disk[Src(m)] = latest

\* The records agree, and a guest runs on the file they name or not at all.
Settling == Agree /\ guest \in {row, Nowhere}
ToldBy(m) ==
    /\ ~Split(m) => Settling
    /\ Planned(m) => row = IF pc[m] \in {"dumpxml", "define"} \/ way[m] = "rollback"
                             THEN to[m] ELSE from[m]
    /\ Arrived(m) => Held(to[m])
    /\ pc[m] = "rerecord" => Held(from[m])

\* A restore writes where the row says, to its own file, with the guest off.
Restoring(c) ==
    /\ pc[c] \in {"place", "convert", "put", "row", "files"} => guest = Nowhere
    /\ pc[c] = "files" => xml = Nowhere
    /\ pc[c] = "put" => tmp[where[c]] = c
    /\ pc[c] \in {"convert", "put", "row"} /\ row # Nowhere => where[c] = row
    /\ pc[c] = "row" => Held(where[c])

\* All of it, for the request that holds the VM.
Working(m) == /\ Sane /\ Kept /\ Course(m) /\ Guest(m) /\ Files(m)
              /\ ~torn => ToldBy(m)

\* A move that is over is covered by what holds without one.
LEMMA DoneWorks ==
    ASSUME TypeOK, NEW m \in Movers, Done(m), Sane', Kept', ~torn' => Settling'
    PROVE  Working(m)'
  <1>1. pc'[m] = "idle" /\ way'[m] = "there"
    BY DEF TypeOK, Done, Workers
  <1> QED
    BY <1>1 DEF Working, Course, Guest, Files, ToldBy, Split, Planned, Arrived

\* What a step that only goes on leaves as it was.
LEMMA GoesOn ==
    ASSUME TypeOK, NEW m \in Movers, NEW a, Goto(m, a)
    PROVE  pc'[m] = a
  BY DEF TypeOK, Goto, Workers

\* Every step of a move keeps it.
LEMMA WorkLook ==
    ASSUME TypeOK, NEW m \in Movers, Working(m), Look(m)
    PROVE  Working(m)'
  <1> USE DEF host, records, restoring, history
  <1>1. Sane' /\ Kept'
    BY DEF Look, Refuse, Working, Sane, Kept, Held
  <1>2. CASE guest # Nowhere
    BY <1>1, <1>2, DoneWorks DEF Look, Refuse, Working, ToldBy, Split, Settling, Agree, Held, Course
  <1>3. CASE guest = Nowhere
    <2>1. pc'[m] = "plan" /\ defined'[m] = (xml # Nowhere) /\ way'[m] = "there" /\ way[m] = "there"
      BY <1>3, GoesOn DEF Look, TypeOK, Working, Course
    <2>2. ~torn' => Settling'
      BY <1>3, <2>1 DEF Look, Working, ToldBy, Split, Settling, Agree
    <2> QED
      BY <1>1, <1>3, <2>1, <2>2 DEF Look, Working, Course, Guest, Files, ToldBy, Split, Planned, Arrived
  <1> QED
    BY <1>2, <1>3

LEMMA WorkPlan ==
    ASSUME TypeOK, NEW m \in Movers, Working(m), Plan(m)
    PROVE  Working(m)'
  <1> USE DEF host, records, restoring, history
  <1>1. Sane' /\ Kept'
    BY DEF Plan, Refuse, Working, Sane, Kept, Held
  <1>0. pc[m] = "plan" /\ way[m] = "there" /\ (~torn => Settling)
    BY DEF Plan, Working, Course, ToldBy, Split
  <1>2. ~torn' => Settling'
    BY <1>0 DEF Plan, Refuse, Settling, Agree
  <1>3. CASE Refuse(m)
    BY <1>1, <1>2, <1>3, DoneWorks DEF Refuse
  <1>4. CASE ~ Refuse(m)
    <2>1. pc'[m] = (IF defined[m] THEN "dryrun" ELSE "move") /\ from'[m] = row
      BY <1>4, GoesOn DEF Plan, TypeOK
    <2>2. /\ to'[m] # row /\ disk'[to'[m]] = 0 /\ row # Nowhere /\ way'[m] = "there"
          /\ defined'[m] = defined[m] /\ UNCHANGED <<guest, xml, row, far, disk, half>>
      BY <1>0, <1>4 DEF Plan
    <2>3. Course(m)' /\ Guest(m)'
      BY <1>0, <2>1, <2>2 DEF Working, Course, Guest, Planned, Arrived, Split
    <2>4. Files(m)'
      BY <2>1, <2>2 DEF Files, Dst
    <2> QED
      BY <1>1, <1>2, <2>1, <2>2, <2>3, <2>4 DEF Working, ToldBy, Split, Planned, Arrived
  <1> QED
    BY <1>3, <1>4

LEMMA WorkDryRun ==
    ASSUME TypeOK, NEW m \in Movers, Working(m), DryRun(m)
    PROVE  Working(m)'
  <1> USE DEF host, records, restoring, history
  <1>1. Sane' /\ Kept'
    BY DEF DryRun, Refuse, Working, Sane, Kept, Held
  <1>0. pc[m] = "dryrun" /\ way[m] = "there" /\ (~torn => Settling)
    BY DEF DryRun, Working, Course, ToldBy, Split
  <1>2. ~torn' => Settling'
    BY <1>0 DEF DryRun, Refuse, Settling, Agree
  <1>3. CASE Refuse(m)
    BY <1>1, <1>2, <1>3, DoneWorks DEF Refuse
  <1>4. CASE ~ Refuse(m)
    <2>1. pc'[m] = "move" /\ UNCHANGED plan /\ xml = from[m]
      BY <1>4, GoesOn DEF DryRun, TypeOK
    <2>2. /\ way'[m] = "there" /\ UNCHANGED <<guest, xml, row, far, disk, half>>
      BY <1>0, <1>4 DEF DryRun, plan
    <2>3. Course(m)' /\ Guest(m)'
      BY <1>0, <2>1, <2>2 DEF Working, Course, Guest, Planned, Arrived, Split, TypeOK, plan
    <2>4. Files(m)'
      BY <1>0, <2>1, <2>2 DEF Working, Files, Dst, plan
    <2> QED
      BY <1>0, <1>1, <1>2, <1>4, <2>1, <2>2, <2>3, <2>4 DEF Working, ToldBy, Split, Planned, Arrived, plan, DryRun
  <1> QED
    BY <1>3, <1>4

LEMMA WorkEarlyFail ==
    ASSUME TypeOK, NEW m \in Movers, Working(m), EarlyFail(m)
    PROVE  Working(m)'
  <1> USE DEF host, records, restoring, history
  <1>1. Sane' /\ Kept'
    BY DEF EarlyFail, Refuse, Working, Sane, Kept, Held
  <1>2. ~torn' => Settling'
    BY DEF EarlyFail, Refuse, Settling, Agree, Working, ToldBy, Split
  <1> QED
    BY <1>1, <1>2, DoneWorks DEF EarlyFail, Refuse

LEMMA WorkCannotMove ==
    ASSUME TypeOK, NEW m \in Movers, Working(m), CannotMove(m)
    PROVE  Working(m)'
  <1> USE DEF host, records, restoring, history
  <1>1. Sane' /\ Kept'
    BY DEF CannotMove, NotMoved, Working, Sane, Kept, Held
  <1>2. ~torn' => Settling'
    BY DEF CannotMove, NotMoved, Settling, Agree, Working, ToldBy, Split
  <1> QED
    BY <1>1, <1>2, DoneWorks DEF CannotMove, NotMoved

LEMMA WorkUnlinkFail ==
    ASSUME TypeOK, NEW m \in Movers, Working(m), UnlinkFail(m)
    PROVE  Working(m)'
  <1> USE DEF host, records, restoring, history
  <1>1. Sane' /\ Kept'
    BY DEF UnlinkFail, NotMoved, Working, Sane, Kept, Held
  <1>2. ~torn' => Settling'
    BY DEF UnlinkFail, NotMoved, Settling, Agree, Working, ToldBy, Split
  <1> QED
    BY <1>1, <1>2, DoneWorks DEF UnlinkFail, NotMoved

\* The copy is not the only file with what was last written.
LEMMA WorkThrowAway ==
    ASSUME TypeOK, NEW m \in Movers, Working(m), ThrowAway(m),
           pc[m] \in {"copying", "lastlook"}
    PROVE  Working(m)'
  <1> USE DEF host, records, restoring, history
  <1>0. /\ from[m] # to[m] /\ Src(m) # Dst(m) /\ guest # Dst(m)
        /\ Src(m) \in Dirs /\ Dst(m) \in Dirs
    BY Ends, Zenon DEF Working, Course, Guest, Planned, Arrived, Split, TypeOK, Src, Dst
  <1>1. Held(Dst(m)) => Held(Src(m))
    BY <1>0 DEF Working, Files, Held
  <1>2. guest' = guest /\ UNCHANGED latest
    BY <1>0 DEF ThrowAway, NotMoved, Unnamed
  <1>3. \A d \in Dirs : d # Dst(m) => disk'[d] = disk[d] /\ (d \in half' <=> d \in half)
    BY <1>0 DEF ThrowAway, TypeOK
  <1>4. disk'[Dst(m)] \in {0, disk[Dst(m)]} 
    BY <1>0 DEF ThrowAway, TypeOK
  <1>5. Sane'
    BY <1>0, <1>2, <1>3, <1>4 DEF Working, Sane, TypeOK
  <1>6. Kept'
    BY <1>0, <1>1, <1>2, <1>3 DEF Working, Kept, Held, ThrowAway, NotMoved
  <1>7. ASSUME ~torn' PROVE Settling'
    <2>1. way[m] = "there" /\ ~torn
      BY <1>7 DEF ThrowAway, NotMoved
    <2>2. Settling /\ row # Dst(m)
      BY <1>0, <2>1 DEF Working, ToldBy, Split, Planned, Src, Dst
    <2> QED
      BY <1>0, <1>2, <1>3, <2>2 DEF Settling, Agree, ThrowAway, TypeOK, Places
  <1> QED
    BY <1>5, <1>6, <1>7, DoneWorks DEF ThrowAway, NotMoved

LEMMA WorkRename ==
    ASSUME TypeOK, NEW m \in Movers, Working(m), Rename(m)
    PROVE  Working(m)'
  <1> USE DEF host, records, restoring, history
  <1>0. /\ from[m] # to[m] /\ Src(m) # Dst(m) /\ guest # Dst(m) /\ disk[Dst(m)] = 0
        /\ Src(m) \in Dirs /\ Dst(m) \in Dirs /\ pc[m] = "move"
    BY Ends DEF Working, Sane, Files, Course, Guest, Planned, Arrived, Split, TypeOK, Src, Dst, Rename
  <1>1. /\ disk'[Dst(m)] = disk[Src(m)] /\ disk'[Src(m)] = 0
        /\ \A d \in Dirs \ {Src(m), Dst(m)} : disk'[d] = disk[d]
    BY <1>0 DEF Rename, TypeOK
  <1>2. /\ Dst(m) \in half' <=> Src(m) \in half
        /\ \A d \in Dirs \ {Src(m), Dst(m)} : d \in half' <=> d \in half
    BY <1>0 DEF Rename, TypeOK
  <1>3. /\ guest' = IF guest = Src(m) THEN Dst(m) ELSE guest
        /\ UNCHANGED <<latest, wanted, torn, row, xml, far>>
    BY <1>0 DEF Rename, Unnamed
  <1>4. Sane'
    BY <1>0, <1>1, <1>3 DEF Working, Sane, TypeOK
  <1>5. Held(Src(m)) => Dst(m) \notin half' /\ disk'[Dst(m)] = latest'
    BY <1>0, <1>1, <1>2, <1>3 DEF Held
  <1>6. Kept'
    BY <1>0, <1>1, <1>2, <1>3, <1>5 DEF Working, Kept, Held, Sane
  <1>7. CASE way[m] = "there"
    <2>1. pc'[m] = "record" /\ UNCHANGED plan
      BY <1>7, GoesOn DEF Rename, Moved
    <2>2. Course(m)' /\ Files(m)'
      BY <1>0, <1>1, <1>7, <2>1 DEF Working, Course, Files, Planned, plan, Src, Guest
    <2>3. Guest(m)'
      BY <1>0, <1>1, <1>3, <1>7, <2>1 DEF Working, Guest, Planned, Arrived, Split, plan, Src, Dst, Rename
    <2>4. ~torn' => ToldBy(m)'
      BY <1>0, <1>3, <1>5, <1>7, <2>1 DEF Working, ToldBy, Split, Planned, Arrived, plan, Src, Dst, Settling, Agree, Held
    <2> QED
      BY <1>4, <1>6, <2>2, <2>3, <2>4 DEF Working
  <1>8. CASE way[m] = "undo"
    <2>1. ~torn' => Settling'
      BY <1>0, <1>3, <1>5, <1>8 DEF Working, ToldBy, Split, Planned, Arrived, Src, Dst, Settling, Agree, Held, Guest
    <2> QED
      BY <1>4, <1>6, <1>8, <2>1, DoneWorks DEF Rename, Moved
  <1>9. CASE way[m] = "rollback"
    <2>1. pc'[m] = "rerecord" /\ UNCHANGED plan
      BY <1>9, GoesOn DEF Rename, Moved
    <2>2. Course(m)' /\ Files(m)'
      BY <1>0, <1>1, <1>9, <2>1 DEF Working, Course, Files, Planned, plan, Src
    <2>3. Guest(m)'
      BY <1>0, <1>1, <1>3, <1>9, <2>1 DEF Working, Guest, Planned, Arrived, Split, plan, Src, Dst, Rename
    <2>4. ~torn' => ToldBy(m)'
      BY <1>0, <1>3, <1>5, <1>9, <2>1 DEF Working, ToldBy, Split, Planned, Arrived, plan, Src, Dst, Settling, Agree, Held
    <2> QED
      BY <1>4, <1>6, <2>2, <2>3, <2>4 DEF Working
  <1> QED
    BY <1>7, <1>8, <1>9 DEF TypeOK

LEMMA WorkCopy ==
    ASSUME TypeOK, NEW m \in Movers, Working(m), Copy(m)
    PROVE  Working(m)'
  <1> USE DEF host, records, restoring, history
  <1>0. /\ Src(m) # Dst(m) /\ guest # Dst(m) /\ disk[Dst(m)] = 0
        /\ Src(m) \in Dirs /\ Dst(m) \in Dirs /\ pc[m] = "move"
    BY Ends DEF Working, Sane, Files, Course, Guest, Planned, Arrived, Split, TypeOK, Src, Dst, Copy
  <1>1. /\ disk'[Dst(m)] = disk[Src(m)]
        /\ \A d \in Dirs \ {Dst(m)} : disk'[d] = disk[d] /\ (d \in half' <=> d \in half)
        /\ Dst(m) \in half'
    BY <1>0 DEF Copy, TypeOK
  <1>2. /\ pc'[m] = "copying" /\ seen'[m] = disk[Src(m)]
        /\ UNCHANGED <<from, to, way, defined, guest, row, xml, latest, wanted, torn, far>>
    BY GoesOn DEF Copy, TypeOK
  <1>3. Sane'
    BY <1>0, <1>1, <1>2 DEF Working, Sane, TypeOK
  <1>4. Kept'
    BY <1>0, <1>1, <1>2 DEF Working, Kept, Held, Sane
  <1>5. Course(m)' /\ Files(m)'
    BY <1>0, <1>1, <1>2 DEF Working, Course, Files, Planned, Src, Dst, Copy
  <1>6. Guest(m)'
    BY <1>0, <1>2 DEF Working, Guest, Planned, Arrived, Split
  <1>7. ASSUME ~torn PROVE ToldBy(m)'
    <2>1. ~Split(m) => row # Dst(m)
      BY <1>0, <1>7 DEF Working, ToldBy, Split, Planned, Src, Dst
    <2>2. ~Split(m) => Settling'
      BY <1>0, <1>1, <1>2, <1>7, <2>1 DEF Working, ToldBy, Settling, Agree, TypeOK, Places
    <2>3. Arrived(m) => to[m] # Dst(m)
      BY <1>0 DEF Arrived, Src, Dst
    <2>4. Arrived(m) => Held(to[m])'
      BY <1>1, <1>2, <1>7, <2>3 DEF Working, ToldBy, Held, TypeOK
    <2> QED
      BY <1>0, <1>2, <1>7, <2>2, <2>4 DEF Working, ToldBy, Split, Planned, Arrived
  <1> QED
    BY <1>2, <1>3, <1>4, <1>5, <1>6, <1>7 DEF Working

LEMMA WorkCopied ==
    ASSUME TypeOK, NEW m \in Movers, Working(m), Copied(m)
    PROVE  Working(m)'
  <1> USE DEF host, records, restoring, history
  <1>1. CASE disk[Src(m)] # seen[m]
    BY <1>1, WorkThrowAway DEF Copied
  <1>2. CASE disk[Src(m)] = seen[m]
    <2>0. /\ Src(m) # Dst(m) /\ Src(m) \in Dirs /\ Dst(m) \in Dirs /\ pc[m] = "copying"
          /\ Dst(m) \in half /\ disk[Src(m)] = disk[Dst(m)]
      BY <1>2, Ends DEF Working, Files, Course, Planned, TypeOK, Src, Dst, Copied
    <2>1. /\ pc'[m] = IF way[m] = "there" THEN "lastlook" ELSE "unlink"
          /\ UNCHANGED <<from, to, way, defined, seen, guest, row, xml, disk, latest, wanted, torn, far>>
      BY <1>2, GoesOn DEF Copied, TypeOK, plan
    <2>2. /\ Src(m) \in half' <=> Dst(m) \in half'
          /\ \A d \in Dirs : d \notin half => d \notin half'
      BY <1>2, <2>0 DEF Copied, TypeOK
    <2>3. Sane' /\ Kept'
      BY <2>1, <2>2 DEF Working, Sane, Kept, Held
    <2>4. Course(m)' /\ Files(m)'
      BY <2>0, <2>1, <2>2 DEF Working, Course, Files, Planned, Src, Dst
    <2>5. Guest(m)'
      BY <2>0, <2>1 DEF Working, Course, Guest, Planned, Arrived, Split
    <2>6. ~torn => ToldBy(m)'
      BY <2>0, <2>1, <2>2 DEF Working, ToldBy, Split, Planned, Arrived, Held, Settling, Agree, TypeOK, Places
    <2> QED
      BY <2>1, <2>3, <2>4, <2>5, <2>6 DEF Working
  <1> QED
    BY <1>1, <1>2

LEMMA WorkLastLook ==
    ASSUME TypeOK, NEW m \in Movers, Working(m), LastLook(m)
    PROVE  Working(m)'
  <1> USE DEF host, records, restoring, history
  <1>1. CASE guest # Nowhere
    BY <1>1, WorkThrowAway DEF LastLook
  <1>2. CASE guest = Nowhere
    <2>1. /\ pc[m] = "lastlook" /\ pc'[m] = "unlink"
          /\ UNCHANGED <<from, to, way, defined, seen, guest, row, xml, disk, half, latest, wanted, torn, far>>
      BY <1>2, GoesOn DEF LastLook, TypeOK, plan
    <2>3. Sane' /\ Kept' /\ Course(m)' /\ Files(m)'
      BY <2>1 DEF Working, Sane, Kept, Held, Course, Files, Planned, Src, Dst
    <2>5. Guest(m)'
      BY <1>2, <2>1 DEF Working, Course, Guest, Planned, Arrived, Split
    <2>6. ~torn => ToldBy(m)'
      BY <2>1 DEF Working, Course, ToldBy, Split, Planned, Arrived, Held, Settling, Agree
    <2> QED
      BY <2>1, <2>3, <2>5, <2>6 DEF Working
  <1> QED
    BY <1>1, <1>2

LEMMA WorkUnlink ==
    ASSUME TypeOK, NEW m \in Movers, Working(m), Unlink(m)
    PROVE  Working(m)'
  <1> USE DEF host, records, restoring, history
  <1>0. /\ Src(m) # Dst(m) /\ Src(m) \in Dirs /\ Dst(m) \in Dirs /\ pc[m] = "unlink"
        /\ guest = Nowhere /\ disk[Src(m)] = disk[Dst(m)] /\ (Src(m) \in half <=> Dst(m) \in half)
        /\ far
    BY Ends DEF Working, Files, Course, Guest, Planned, TypeOK, Src, Dst, Unlink
  <1>1. /\ disk'[Src(m)] = 0 /\ half' = half
        /\ \A d \in Dirs \ {Src(m)} : disk'[d] = disk[d]
    BY <1>0 DEF Unlink, TypeOK
  <1>3. guest' = Nowhere /\ UNCHANGED <<latest, wanted, torn, row, xml, far>>
    BY <1>0 DEF Unlink, Unnamed
  <1>4. Sane'
    BY <1>0, <1>1, <1>3 DEF Working, Sane, TypeOK
  <1>5. Held(Src(m)) => Held(Dst(m))
    BY <1>0 DEF Held
  <1>6. Kept'
    BY <1>0, <1>1, <1>3, <1>5 DEF Working, Kept, Held
  <1>7. CASE way[m] = "there"
    <2>1. pc'[m] = "record" /\ UNCHANGED plan
      BY <1>7, GoesOn DEF Unlink, Moved
    <2>2. Course(m)' /\ Files(m)'
      BY <1>0, <1>1, <1>7, <2>1 DEF Working, Course, Files, Planned, plan, Src, Guest
    <2>3. Guest(m)'
      BY <1>0, <1>3, <1>7, <2>1 DEF Working, Guest, Planned, Arrived, Split, plan
    <2>4. ~torn' => ToldBy(m)'
      BY <1>0, <1>1, <1>3, <1>5, <1>7, <2>1 DEF Working, ToldBy, Split, Planned, Arrived, plan, Src, Dst, Settling, Agree, Held
    <2> QED
      BY <1>4, <1>6, <2>2, <2>3, <2>4 DEF Working
  <1>8. CASE way[m] = "undo"
    <2>1. ~torn' => Settling'
      BY <1>0, <1>1, <1>3, <1>5, <1>8 DEF Working, ToldBy, Split, Planned, Arrived, Src, Dst, Settling, Agree, Held, Guest
    <2> QED
      BY <1>4, <1>6, <1>8, <2>1, DoneWorks DEF Unlink, Moved
  <1>9. CASE way[m] = "rollback"
    <2>1. pc'[m] = "rerecord" /\ UNCHANGED plan
      BY <1>9, GoesOn DEF Unlink, Moved
    <2>2. Course(m)' /\ Files(m)'
      BY <1>0, <1>9, <2>1 DEF Working, Course, Files, Planned, plan
    <2>3. Guest(m)'
      BY <1>0, <1>3, <1>9, <2>1 DEF Working, Guest, Planned, Arrived, Split, plan
    <2>4. ~torn' => ToldBy(m)'
      BY <1>0, <1>1, <1>3, <1>5, <1>9, <2>1 DEF Working, ToldBy, Split, Planned, Arrived, plan, Src, Dst, Settling, Agree, Held
    <2> QED
      BY <1>4, <1>6, <2>2, <2>3, <2>4 DEF Working
  <1> QED
    BY <1>7, <1>8, <1>9 DEF TypeOK

LEMMA WorkRecord ==
    ASSUME TypeOK, NEW m \in Movers, Working(m), Record(m)
    PROVE  Working(m)'
  <1> USE DEF host, records, restoring, history
  <1>1. Sane' /\ Kept'
    BY DEF Record, Working, Sane, Kept, Held
  <1>2. /\ pc[m] = "record" /\ way[m] = "there" /\ row' = to[m] /\ from[m] # to[m]
        /\ UNCHANGED <<guest, xml, far, disk, half, latest, torn>>
    BY DEF Record, Working, Course, Planned
  <1>3. CASE defined[m]
    <2>1. pc'[m] = "dumpxml" /\ UNCHANGED plan
      BY <1>3, GoesOn DEF Record
    <2>2. Course(m)' /\ Guest(m)' /\ Files(m)'
      BY <1>2, <1>3, <2>1 DEF Working, Course, Guest, Files, Planned, Arrived, Split, plan
    <2>3. ~torn => ToldBy(m)'
      BY <1>2, <2>1 DEF Working, ToldBy, Split, Planned, Arrived, Held, plan
    <2> QED
      BY <1>1, <1>2, <2>2, <2>3 DEF Working
  <1>4. CASE ~defined[m]
    <2>1. guest = Nowhere /\ xml = Nowhere
      BY <1>2, <1>4 DEF Working, Guest
    <2>2. ~torn => Settling'
      BY <1>2, <2>1 DEF Working, ToldBy, Arrived, Held, Settling, Agree
    <2> QED
      BY <1>1, <1>2, <1>4, <2>2, DoneWorks DEF Record
  <1> QED
    BY <1>3, <1>4

LEMMA WorkBack ==
    ASSUME TypeOK, NEW m \in Movers, Working(m), NEW why \in {"undo", "rollback"}, Back(m, why),
           pc[m] \in IF why = "undo" THEN {"record"} ELSE {"dumpxml", "define"}
    PROVE  Working(m)'
  <1> USE DEF host, records, restoring, history
  <1>1. Sane' /\ Kept'
    BY DEF Back, Working, Sane, Kept, Held
  <1>2. /\ pc'[m] = "move" /\ way'[m] = why
        /\ UNCHANGED <<guest, row, xml, far, disk, half, latest, torn, from, to, defined>>
    BY GoesOn DEF Back, TypeOK
  <1>3. Course(m)' /\ Guest(m)' /\ Files(m)'
    BY <1>2 DEF Working, Course, Guest, Files, Planned, Arrived, Split, Dst
  <1>4. ~torn => ToldBy(m)'
    BY <1>2 DEF Working, ToldBy, Split, Planned, Arrived, Held, Course
  <1> QED
    BY <1>1, <1>2, <1>3, <1>4 DEF Working

LEMMA WorkDumpXml ==
    ASSUME TypeOK, NEW m \in Movers, Working(m), DumpXml(m)
    PROVE  Working(m)'
  <1> USE DEF host, records, restoring, history
  <1>1. CASE xml # from[m]
    BY <1>1, WorkBack DEF DumpXml
  <1>2. CASE xml = from[m]
    <2>1. /\ pc[m] = "dumpxml" /\ pc'[m] = "define"
          /\ UNCHANGED <<from, to, way, defined, seen, guest, row, xml, disk, half, latest, wanted, torn, far>>
      BY <1>2, GoesOn DEF DumpXml, TypeOK, plan
    <2>2. Sane' /\ Kept' /\ Course(m)' /\ Files(m)' /\ Guest(m)'
      BY <2>1 DEF Working, Sane, Kept, Held, Course, Files, Planned, Guest, Arrived, Split
    <2>3. ~torn => ToldBy(m)'
      BY <2>1 DEF Working, Course, ToldBy, Split, Planned, Arrived, Held
    <2> QED
      BY <2>1, <2>2, <2>3 DEF Working
  <1> QED
    BY <1>1, <1>2

LEMMA WorkDefine ==
    ASSUME TypeOK, NEW m \in Movers, Working(m), Define(m)
    PROVE  Working(m)'
  <1> USE DEF host, records, restoring, history
  <1>1. Sane' /\ Kept'
    BY DEF Define, Working, Sane, Kept, Held
  <1>2. ~torn' => Settling'
    BY DEF Define, Working, ToldBy, Guest, Course, Planned, Arrived, Held, Settling, Agree
  <1> QED
    BY <1>1, <1>2, DoneWorks DEF Define

LEMMA WorkRerecord ==
    ASSUME TypeOK, NEW m \in Movers, Working(m), Rerecord(m)
    PROVE  Working(m)'
  <1> USE DEF host, records, restoring, history
  <1>1. Sane' /\ Kept'
    BY DEF Rerecord, Working, Sane, Kept, Held
  <1>2. ASSUME ~torn' PROVE Settling'
    <2>1. row' = from[m] /\ ~torn /\ pc[m] = "rerecord"
      BY <1>2 DEF Rerecord
    <2> QED
      BY <2>1 DEF Rerecord, Working, ToldBy, Guest, Course, Planned, Arrived, Held, Settling, Agree
  <1> QED
    BY <1>1, <1>2, DoneWorks DEF Rerecord

LEMMA MoveWorks ==
    ASSUME TypeOK, NEW m \in Movers, Working(m), MoveStep(m)
    PROVE  Working(m)'
  <1>1. CASE CopyFail(m) \/ RecordFail(m) \/ DefineFail(m)
    BY <1>1, WorkThrowAway, WorkBack DEF CopyFail, RecordFail, DefineFail
  <1> QED
    BY <1>1, WorkLook, WorkPlan, WorkDryRun, WorkEarlyFail, WorkRename, WorkCannotMove, WorkCopy,
       WorkCopied, WorkLastLook, WorkUnlink, WorkUnlinkFail, WorkRecord, WorkDumpXml, WorkDefine,
       WorkRerecord DEF MoveStep

\* What holds while no request holds the VM.
Quiet == /\ \A c \in Callers : Restoring(c)
         /\ ~torn => Settling

Story == /\ Alone /\ Sane /\ Kept
         /\ \A m \in Movers : pc[m] = "idle" => way[m] = "there"
         /\ hold = Nobody => Quiet
         /\ \A m \in Movers : hold = m => Working(m)
DiskInv == ~crossed => Story

\* A step of a move is its own: it touches no other request.
LEMMA MoveFrame ==
    ASSUME TypeOK, NEW m \in Movers, MoveStep(m)
    PROVE  /\ crossed' = crossed /\ pc[m] # "idle"
           /\ \A w \in Workers \ {m} : pc'[w] = pc[w]
           /\ \A n \in Movers \ {m} : way'[n] = way[n]
  <1> USE DEF Done, Goto, Back, TypeOK, Workers, plan, host, records, restoring, history
  <1>1. CASE Look(m) \/ Plan(m) \/ DryRun(m) \/ EarlyFail(m)
    BY <1>1 DEF Look, Plan, DryRun, EarlyFail, Refuse
  <1>2. CASE Rename(m) \/ Unlink(m)
    BY <1>2 DEF Rename, Unlink, Moved
  <1>3. CASE CannotMove(m) \/ UnlinkFail(m)
    BY <1>3 DEF CannotMove, UnlinkFail, NotMoved
  <1>4. CASE Copy(m) \/ Copied(m) \/ LastLook(m) \/ CopyFail(m)
    BY <1>4 DEF Copy, Copied, LastLook, CopyFail, ThrowAway, NotMoved
  <1>5. CASE Record(m) \/ RecordFail(m) \/ DumpXml(m) \/ Define(m) \/ DefineFail(m) \/ Rerecord(m)
    BY <1>5 DEF Record, RecordFail, DumpXml, Define, DefineFail, Rerecord
  <1> QED
    BY <1>1, <1>2, <1>3, <1>4, <1>5 DEF MoveStep

LEMMA MoveStory ==
    ASSUME TypeOK, HolderMoves, Story, TypeOK', HolderMoves', NEW m \in Movers, MoveStep(m)
    PROVE  Story'
  <1>1. hold = m /\ Working(m)' /\ pc[m] # "idle"
    BY MoveFrame, MoveWorks DEF HolderMoves, Story
  <1>2. Alone'
    BY <1>1, MoveFrame DEF Alone, Story, Workers
  <1>3. /\ Sane' /\ Kept'
        /\ \A n \in Movers : pc'[n] = "idle" => way'[n] = "there"
    BY <1>1, MoveFrame DEF Working, Course, Story, Workers
  <1>4. ASSUME NEW n \in Movers, hold' = n PROVE n = m
    BY <1>1, <1>4, MoveFrame DEF HolderMoves, Workers
  <1>5. ASSUME hold' = Nobody PROVE Quiet'
    <2>1. pc'[m] = "idle"
      BY <1>5 DEF HolderMoves
    <2>2. ~torn' => Settling'
      BY <1>1, <2>1 DEF Working, Course, ToldBy, Split
    <2>3. \A c \in Callers : pc'[c] = "idle"
      BY <1>1, MoveFrame DEF Story, Alone, Workers
    <2> QED
      BY <2>2, <2>3 DEF Quiet, Restoring
  <1> QED
    BY <1>1, <1>2, <1>3, <1>4, <1>5 DEF Story

LEMMA AskStory ==
    ASSUME TypeOK, HolderMoves, Story, NEW m \in Movers, NEW e \in Dirs, Ask(m, e), ~crossed'
    PROVE  Story'
  <1>1. \A c \in Callers : pc[c] = "idle" /\ pc'[c] = "idle"
    BY DEF Ask, Crossing, Goto, TypeOK, Workers
  <1>2. /\ pc'[m] = "look" /\ hold' = m /\ hold = Nobody /\ way'[m] = "there" /\ way' = way
        /\ \A n \in Movers \ {m} : pc'[n] = pc[n]
        /\ UNCHANGED <<guest, row, xml, disk, half, latest, wanted, torn, far>>
    BY DEF Ask, Crossing, Goto, TypeOK, Workers, Story, host, records
  <1>3. Sane' /\ Kept'
    BY <1>2 DEF Story, Sane, Kept, Held
  <1>4. Working(m)'
    BY <1>2, <1>3 DEF Working, Course, Guest, Files, ToldBy, Split, Planned, Arrived, Story, Quiet,
                      Settling, Agree
  <1> QED
    BY <1>1, <1>2, <1>3, <1>4 DEF Story, Alone

LEMMA CallFrame ==
    ASSUME TypeOK, NEW c \in Callers, CallStep(c)
    PROVE  /\ pc[c] # "idle" /\ UNCHANGED <<far, hold, way, crossed, torn>>
           /\ \A w \in Workers \ {c} : pc'[w] = pc[w]
  <1> USE DEF Over, Goto, TypeOK, Workers, plan, host, records, restoring, history
  <1>1. CASE Start(c) \/ RestoreLook(c) \/ RestorePlace(c) \/ Convert(c) \/ PutRow(c) \/ CallFail(c)
    BY <1>1 DEF Start, RestoreLook, RestorePlace, Convert, PutRow, CallFail
  <1>2. CASE Put(c)
    BY <1>2 DEF Put
  <1>3. CASE Undefine(c) \/ OrphanLook(c) \/ DeleteFiles(c)
    BY <1>3 DEF Undefine, OrphanLook, DeleteFiles
  <1> QED
    BY <1>1, <1>2, <1>3 DEF CallStep

LEMMA CallGoes ==
    ASSUME TypeOK, NEW c \in Callers, NEW a, Goto(c, a)
    PROVE  pc'[c] = a
  BY DEF TypeOK, Goto, Workers

LEMMA OverGoes ==
    ASSUME TypeOK, NEW c \in Callers, Over(c)
    PROVE  pc'[c] = "idle"
  BY DEF TypeOK, Over, Workers

\* What holds of the disk while a caller is at work.
Serving(c) == /\ Sane /\ Kept /\ Restoring(c)
              /\ ~torn => Settling

LEMMA CallWorks ==
    ASSUME TypeOK, NEW c \in Callers, Serving(c), CallStep(c)
    PROVE  Serving(c)'
  <1> USE DEF host, records, restoring, history
  <1>1. CASE Start(c)
    <2>1. pc'[c] = "idle" /\ UNCHANGED <<disk, half, row, xml, latest, wanted, torn>>
      BY <1>1, CallGoes DEF Start
    <2>2. guest' = IF Bootable THEN xml ELSE guest
      BY <1>1 DEF Start
    <2>3. Sane' /\ Kept'
      BY <2>1, <2>2 DEF Serving, Sane, Kept, Held, Bootable, TypeOK, Places
    <2>4. ~torn => Settling'
      BY <2>1, <2>2 DEF Serving, Settling, Agree, Bootable
    <2> QED
      BY <2>1, <2>3, <2>4 DEF Serving, Restoring
  <1>2. CASE RestoreLook(c)
    <2>1. pc'[c] = IF guest = Nowhere THEN "place" ELSE "idle"
      BY <1>2, CallGoes DEF RestoreLook
    <2> QED
      BY <1>2, <2>1 DEF RestoreLook, Serving, Restoring, Sane, Kept, Held, Settling, Agree
  <1>3. CASE RestorePlace(c)
    <2>1. pc'[c] = "convert" /\ pc[c] = "place" /\ (row # Nowhere => where'[c] = row)
      BY <1>3, CallGoes DEF RestorePlace, TypeOK
    <2> QED
      BY <1>3, <2>1 DEF RestorePlace, Serving, Restoring, Sane, Kept, Held, Settling, Agree
  <1>4. CASE Convert(c)
    <2>1. pc'[c] = "put" /\ pc[c] = "convert" /\ tmp'[where[c]] = c /\ where' = where
      BY <1>4, CallGoes DEF Convert, TypeOK
    <2> QED
      BY <1>4, <2>1 DEF Convert, Serving, Restoring, Sane, Kept, Held, Settling, Agree
  <1>5. CASE Put(c)
    <2> DEFINE d == where[c]
    <2>1. /\ pc[c] = "put" /\ tmp[d] = c /\ c # Nobody /\ d \in Dirs /\ guest = Nowhere
          /\ row # Nowhere => d = row
      BY <1>5 DEF Put, Serving, Restoring, TypeOK
    <2>2. /\ pc'[c] = "row" /\ where' = where /\ half' = half \ {d} /\ guest' = Nowhere
          /\ disk'[d] = latest + 1 /\ latest' = latest + 1
          /\ \A e \in Dirs \ {d} : disk'[e] = disk[e]
          /\ UNCHANGED <<row, xml, torn>>
      BY <1>5, <2>1, CallGoes DEF Put, TypeOK, Unnamed
    <2>3. Held(d)'
      BY <2>2 DEF Held
    <2>4. Sane' /\ Kept'
      BY <2>1, <2>2, <2>3 DEF Serving, Sane, Kept, TypeOK, Held
    <2>5. ~torn => Settling'
      BY <2>1, <2>2 DEF Serving, Settling, Agree
    <2> QED
      BY <2>1, <2>2, <2>3, <2>4, <2>5 DEF Serving, Restoring
  <1>6. CASE PutRow(c)
    <2>1. pc'[c] = "idle" /\ row' = where[c] /\ Held(where[c]) /\ pc[c] = "row"
      BY <1>6, OverGoes DEF PutRow, Serving, Restoring
    <2> QED
      BY <1>6, <2>1 DEF PutRow, Serving, Restoring, Sane, Kept, Held, Settling, Agree
  <1>7. CASE Undefine(c)
    <2>1. pc'[c] \in {"files", "idle"}
      BY <1>7, CallGoes DEF Undefine
    <2> QED
      BY <1>7, <2>1 DEF Undefine, Serving, Restoring, Sane, Kept, Held, Settling, Agree, TypeOK, Places
  <1>8. CASE OrphanLook(c)
    <2>1. pc'[c] = IF xml = Nowhere /\ guest = Nowhere THEN "files" ELSE "idle"
      BY <1>8, CallGoes DEF OrphanLook
    <2> QED
      BY <1>8, <2>1 DEF OrphanLook, Serving, Restoring, Sane, Kept, Held, Settling, Agree
  <1>9. CASE DeleteFiles(c)
    <2>1. pc'[c] = "idle" /\ guest = Nowhere /\ xml = Nowhere
      BY <1>9, CallGoes DEF DeleteFiles, Serving, Restoring
    <2>2. CASE row = Nowhere
      BY <1>9, <2>1, <2>2 DEF DeleteFiles, Serving, Restoring, Sane, Kept, Held, Settling, Agree
    <2>3. CASE row # Nowhere
      <3>1. /\ guest' = Nowhere /\ xml' = Nowhere /\ row' = Nowhere /\ latest' = latest /\ ~wanted'
            /\ \A e \in Dirs : disk'[e] \in {0, disk[e]}
        BY <1>9, <2>1, <2>3 DEF DeleteFiles, Unnamed, TypeOK, Places
      <3> QED
        BY <2>1, <3>1 DEF Serving, Restoring, Sane, Kept, Settling, Agree, TypeOK
    <2> QED
      BY <2>2, <2>3
  <1>10. CASE CallFail(c)
    <2>1. pc'[c] = "idle"
      BY <1>10, OverGoes DEF CallFail
    <2> QED
      BY <1>10, <2>1 DEF CallFail, Serving, Restoring, Sane, Kept, Held, Settling, Agree
  <1> QED
    BY <1>1, <1>2, <1>3, <1>4, <1>5, <1>6, <1>7, <1>8, <1>9, <1>10 DEF CallStep

LEMMA CallStory ==
    ASSUME TypeOK, HolderMoves, Story, NEW c \in Callers, CallStep(c)
    PROVE  Story'
  <1>1. /\ hold = Nobody /\ hold' = Nobody /\ way' = way /\ torn' = torn
        /\ \A w \in Workers \ {c} : pc[w] = "idle" /\ pc'[w] = "idle"
    BY CallFrame DEF Story, Alone, HolderMoves, Workers
  <1>2. Serving(c)'
    BY <1>1, CallFrame, CallWorks DEF Story, Quiet, Serving
  <1>3. \A b \in Callers \ {c} : Restoring(b)'
    BY <1>1 DEF Restoring, Workers
  <1> QED
    BY <1>1, <1>2, <1>3 DEF Story, Alone, Quiet, Serving, Workers

LEMMA BeginStory ==
    ASSUME TypeOK, HolderMoves, Story, NEW c \in Callers, NEW job \in Jobs, Begin(c, job),
           ~crossed'
    PROVE  Story'
  <1> USE DEF host, records, restoring, history
  <1>1. /\ hold = Nobody /\ hold' = Nobody /\ way' = way
        /\ \A w \in Callers : pc[w] = "idle"
        /\ \A w \in Workers \ {c} : pc'[w] = pc[w]
        /\ pc'[c] = job
    BY DEF Begin, Crossing, TypeOK, Workers, plan, Goto
  <1>2. UNCHANGED <<guest, row, xml, disk, half, latest, wanted, torn>>
    BY DEF Begin, Crossing
  <1>3. Sane' /\ Kept' /\ (~torn' => Settling')
    BY <1>1, <1>2 DEF Story, Quiet, Sane, Kept, Held, Settling, Agree
  <1>4. \A b \in Callers : Restoring(b)'
    BY <1>1, <1>2 DEF Restoring, Workers, Jobs
  <1> QED
    BY <1>1, <1>3, <1>4 DEF Story, Alone, Quiet, Workers

\* A step of the host leaves the requests where they are.
LEMMA HostStory ==
    ASSUME TypeOK, HolderMoves, Story, UNCHANGED <<pc, hold, plan, restoring, torn>>,
           Sane', Kept', hold = Nobody => Quiet',
           \A m \in Movers : hold = m => Working(m)'
    PROVE  Story'
  BY DEF Story, Alone, plan

LEMMA OutsideStartStory ==
    ASSUME TypeOK, HolderMoves, Story, OutsideStart, ~crossed'
    PROVE  Story'
  <1> USE DEF records
  <1>1. /\ \A c \in Callers : pc[c] = "idle"
        /\ \A m \in Movers : pc[m] # "unlink" /\ way[m] = "there"
    BY DEF OutsideStart, Exposed
  <1>2. /\ guest = Nowhere /\ guest' = xml /\ xml \in Dirs /\ disk[xml] # 0
        /\ UNCHANGED <<far, disk, half, row, xml, hold, pc, plan, restoring, latest, wanted, torn>>
    BY DEF OutsideStart, Bootable, TypeOK, Places
  <1>3. Sane' /\ Kept'
    BY <1>2 DEF Story, Sane, Kept, Held
  <1>4. ASSUME hold = Nobody PROVE Quiet'
    BY <1>1, <1>2, <1>4 DEF Story, Quiet, Restoring, Settling, Agree
  <1>5. ASSUME NEW m \in Movers, hold = m PROVE Working(m)'
    <2>1. Working(m) /\ pc[m] # "idle"
      BY <1>5 DEF Story, HolderMoves
    <2>2. pc[m] \notin {"record", "dumpxml", "define", "rerecord"}
      BY <1>1, <1>2, <2>1 DEF Working, Course, Guest, Files, Planned
    <2>3. Course(m)' /\ Files(m)'
      BY <1>1, <1>2, <2>1 DEF Working, Course, Files, Planned, plan, Src, Dst
    <2>4. Guest(m)'
      BY <1>1, <1>2, <2>1, <2>2 DEF Working, Guest, Planned, Arrived, Split, plan
    <2>5. ~torn => ToldBy(m)'
      BY <1>1, <1>2, <2>1, <2>2 DEF Working, ToldBy, Planned, Arrived, Split, plan, Settling, Agree, Held
    <2> QED
      BY <1>2, <1>3, <2>3, <2>4, <2>5 DEF Working
  <1> QED
    BY <1>2, <1>3, <1>4, <1>5, HostStory

LEMMA OutsideUndefineStory ==
    ASSUME TypeOK, HolderMoves, Story, OutsideUndefine
    PROVE  Story'
  <1> USE DEF host, restoring, history
  <1>2. /\ xml' = Nowhere
        /\ UNCHANGED <<far, disk, half, row, guest, hold, pc, plan, restoring, latest, wanted, torn>>
    BY DEF OutsideUndefine
  <1>3. Sane' /\ Kept'
    BY <1>2 DEF Story, Sane, Kept, Held
  <1>4. ASSUME hold = Nobody PROVE Quiet'
    BY <1>2, <1>4 DEF Story, Quiet, Restoring, Settling, Agree, Held
  <1>5. ASSUME NEW m \in Movers, hold = m PROVE Working(m)'
    <2>1. Working(m)
      BY <1>5 DEF Story
    <2>3. Course(m)' /\ Files(m)'
      BY <1>2, <2>1 DEF Working, Course, Files, Planned, plan, Src, Dst
    <2>4. Guest(m)'
      BY <1>2, <2>1 DEF Working, Guest, Planned, Arrived, Split, plan
    <2>5. ~torn => ToldBy(m)'
      BY <1>2, <2>1 DEF Working, ToldBy, Planned, Arrived, Split, plan, Settling, Agree, Held
    <2> QED
      BY <1>2, <1>3, <2>3, <2>4, <2>5 DEF Working
  <1> QED
    BY <1>2, <1>3, <1>4, <1>5, HostStory

LEMMA StopStory ==
    ASSUME TypeOK, HolderMoves, Story, Stop, ~crossed'
    PROVE  Story'
  <1> USE DEF records
  <1>1. \A m \in Movers : pc[m] # "lastlook"
    BY DEF Stop
  <1>2. /\ guest # Nowhere /\ guest' = Nowhere
        /\ UNCHANGED <<far, disk, half, row, xml, hold, pc, plan, restoring, latest, wanted, torn>>
    BY DEF Stop
  <1>3. Sane' /\ Kept'
    BY <1>2 DEF Story, Sane, Kept, Held
  <1>4. ASSUME hold = Nobody PROVE Quiet'
    BY <1>2, <1>4 DEF Story, Quiet, Restoring, Settling, Agree, Held, restoring
  <1>5. ASSUME NEW m \in Movers, hold = m PROVE Working(m)'
    <2>1. Working(m)
      BY <1>5 DEF Story
    <2>3. Course(m)' /\ Files(m)'
      BY <1>1, <1>2, <2>1 DEF Working, Course, Files, Guest, Planned, plan, Src, Dst
    <2>4. Guest(m)'
      BY <1>2, <2>1 DEF Working, Guest, Planned, Arrived, Split, plan
    <2>5. ~torn => ToldBy(m)'
      BY <1>2, <2>1 DEF Working, ToldBy, Planned, Arrived, Split, plan, Settling, Agree, Held
    <2> QED
      BY <1>2, <1>3, <2>3, <2>4, <2>5 DEF Working
  <1> QED
    BY <1>2, <1>3, <1>4, <1>5, HostStory

LEMMA WriteStory ==
    ASSUME TypeOK, HolderMoves, Story, Write
    PROVE  Story'
  <1> USE DEF records
  <1>2. /\ guest \in Dirs /\ guest \notin half /\ disk'[guest] = latest + 1 /\ latest' = latest + 1
        /\ \A d \in Dirs \ {guest} : disk'[d] = disk[d]
        /\ UNCHANGED <<far, half, guest, row, xml, hold, pc, plan, restoring, wanted, torn>>
    BY DEF Write, TypeOK, Story, Sane, Places
  <1>3. Sane' /\ Kept'
    BY <1>2 DEF Story, Sane, Kept, Held, TypeOK
  <1>4. ASSUME hold = Nobody PROVE Quiet'
    BY <1>2, <1>4 DEF Story, Quiet, Restoring, Settling, Agree, restoring, TypeOK, Places
  <1>5. ASSUME NEW m \in Movers, hold = m PROVE Working(m)'
    <2>1. Working(m)
      BY <1>5 DEF Story
    <2>2. Src(m) \in Dirs /\ Dst(m) \in Dirs
      BY Ends
    <2>3. Course(m)'
      BY <1>2, <2>1 DEF Working, Course, Planned, plan
    <2>6. Files(m)'
      BY <1>2, <2>1, <2>2 DEF Working, Sane, Course, Guest, Files, Planned, Arrived, plan, Src, Dst, TypeOK, Split
    <2>4. Guest(m)'
      BY <1>2, <2>1 DEF Working, Guest, Planned, Arrived, Split, plan
    <2>5. ~torn => ToldBy(m)'
      BY <1>2, <2>1 DEF Working, ToldBy, Course, Guest, Planned, Arrived, Split, plan, Settling, Agree, Held, TypeOK, Places
    <2> QED
      BY <1>2, <1>3, <2>3, <2>4, <2>5, <2>6 DEF Working
  <1> QED
    BY <1>2, <1>3, <1>4, <1>5, HostStory

LEMMA RestartStory ==
    ASSUME TypeOK, HolderMoves, Story, Restart
    PROVE  Story'
  <1> USE DEF host, records
  <1>1. /\ hold' = Nobody /\ \A w \in Workers : pc'[w] = "idle"
        /\ \A m \in Movers : way'[m] = "there"
        /\ UNCHANGED <<disk, half, guest, row, xml, latest, wanted>>
    BY DEF Restart, Workers
  <1>2. Sane' /\ Kept'
    BY <1>1 DEF Story, Sane, Kept, Held
  <1>3. ASSUME ~torn' PROVE Settling'
    <2>1. ~torn /\ \A m \in Movers : ~Split(m)
      BY <1>3 DEF Restart
    <2>2. Settling
      BY <2>1 DEF Story, Quiet, Working, ToldBy, TypeOK
    <2> QED
      BY <1>1, <2>2 DEF Settling, Agree
  <1> QED
    BY <1>1, <1>2, <1>3 DEF Story, Alone, Quiet, Restoring, Workers

\* The invariant is inductive, given the types and the hold.
LEMMA DiskInvHolds == Spec => []DiskInv
  <1>1. Init => DiskInv
    <2> SUFFICES ASSUME Init PROVE Story
      BY DEF DiskInv
    <2>1. /\ \A w \in Workers : pc[w] = "idle"
          /\ \A m \in Movers : way[m] = "there"
      BY DEF Init, Workers
    <2>2. Held(Home) /\ guest \in {Home, Nowhere} /\ disk[Home] = 1 /\ latest = 1 /\ hold = Nobody
          /\ row = Home /\ xml = Home /\ half = {}
      BY DEF Init, Held
    <2>3. Sane
      BY <2>2 DEF Init, Sane
    <2> QED
      BY <2>1, <2>2, <2>3 DEF Story, Alone, Kept, Quiet, Restoring, Settling, Agree, Held, Workers
  <1>2. TypeOK /\ HolderMoves /\ TypeOK' /\ HolderMoves' /\ DiskInv /\ [Next]_vars => DiskInv'
    <2> SUFFICES ASSUME TypeOK, HolderMoves, TypeOK', HolderMoves', DiskInv, [Next]_vars, ~crossed'
                 PROVE  Story'
      BY DEF DiskInv
    <2>1. ~crossed
      <3>1. CASE \E m \in Movers : MoveStep(m)
        BY <3>1, MoveFrame
      <3>2. CASE \E c \in Callers : CallStep(c)
        BY <3>2, CallFrame
      <3>3. CASE UNCHANGED vars \/ OutsideUndefine \/ Write \/ Restart
        BY <3>3 DEF vars, OutsideUndefine, Write, Restart, history
      <3> QED
        BY <3>1, <3>2, <3>3 DEF Next, Ask, Begin, Crossing, OutsideStart, Stop
    <2>2. Story
      BY <2>1 DEF DiskInv
    <2>3. CASE UNCHANGED vars
      <3>1. Sane' /\ Kept'
        BY <2>2, <2>3 DEF vars, Story, Sane, Kept, Held
      <3>2. hold = Nobody => Quiet'
        BY <2>2, <2>3 DEF vars, Story, Quiet, Restoring, Settling, Agree, Held
      <3>3. ASSUME NEW m \in Movers, hold = m PROVE Working(m)'
        BY <2>2, <2>3, <3>1, <3>3 DEF vars, Story, Working, Course, Guest, Files, ToldBy, Planned,
             Arrived, Split, Settling, Agree, Held, Src, Dst
      <3> QED
        BY <2>2, <2>3, <3>1, <3>2, <3>3, HostStory DEF vars, plan, restoring
    <2> QED
      BY <2>2, <2>3, MoveStory, AskStory, CallStory, BeginStory, OutsideStartStory,
         OutsideUndefineStory, StopStory, WriteStory, RestartStory DEF Next
  <1> QED
    BY <1>1, <1>2, TypeCorrect, OnlyTheHolderMoves, PTL DEF Spec

\* What was last written to the disk is in a finished file of some directory,
\* whatever fails, restarts or starts from outside: routes/vms.ts checks the
\* hold before it acts, moveCrossFs compares before the original goes.
THEOREM LatestIsKept == Spec => []LatestKept
  <1>1. DiskInv => LatestKept
    BY DEF DiskInv, Story, Kept, Held, LatestKept
  <1> QED
    BY <1>1, DiskInvHolds, PTL

\* With nothing under way the definition, the row and the file agree: each phase
\* of the move route undoes what the phases before it did.
THEOREM RecordsSettle == Spec => []Settled
  <1>1. TypeOK /\ HolderMoves /\ DiskInv => Settled
    BY DEF DiskInv, Story, Quiet, Settling, Settled, HolderMoves, TypeOK, Workers
  <1> QED
    BY <1>1, DiskInvHolds, TypeCorrect, OnlyTheHolderMoves, PTL

\* A guest that is off stays off in every other step.
LEMMA StaysOff ==
    ASSUME TypeOK, Next, guest = Nowhere, ~OutsideStart, ~\E c \in Callers : Start(c)
    PROVE  guest' = Nowhere
  <1> USE DEF host, Unnamed, TypeOK, Places
  <1>1. ASSUME NEW m \in Movers, MoveStep(m) PROVE guest' = Nowhere
    <2>1. Src(m) # Nowhere /\ Dst(m) # Nowhere
      BY Ends
    <2>2. CASE Look(m) \/ Plan(m) \/ DryRun(m) \/ EarlyFail(m)
      BY <2>2 DEF Look, Plan, DryRun, EarlyFail, Refuse
    <2>3. CASE Rename(m) \/ Unlink(m) \/ Copy(m)
      BY <2>1, <2>3 DEF Rename, Unlink, Copy
    <2>4. CASE CannotMove(m) \/ UnlinkFail(m)
      BY <2>4 DEF CannotMove, UnlinkFail
    <2>5. CASE Copied(m) \/ LastLook(m) \/ CopyFail(m)
      BY <2>1, <2>5 DEF Copied, LastLook, CopyFail, ThrowAway
    <2>6. CASE Record(m) \/ RecordFail(m) \/ DumpXml(m) \/ Define(m) \/ DefineFail(m) \/ Rerecord(m)
      BY <2>6 DEF Record, RecordFail, DumpXml, Define, DefineFail, Rerecord, Back
    <2> QED
      BY <1>1, <2>2, <2>3, <2>4, <2>5, <2>6 DEF MoveStep
  <1>2. ASSUME NEW c \in Callers, CallStep(c) PROVE guest' = Nowhere
    <2>1. CASE RestoreLook(c) \/ RestorePlace(c) \/ Convert(c) \/ PutRow(c) \/ CallFail(c)
      BY <2>1 DEF RestoreLook, RestorePlace, Convert, PutRow, CallFail
    <2>2. CASE Put(c) \/ Undefine(c) \/ OrphanLook(c) \/ DeleteFiles(c)
      BY <2>2 DEF Put, Undefine, OrphanLook, DeleteFiles
    <2> QED
      BY <1>2, <2>1, <2>2 DEF CallStep
  <1> QED
    BY <1>1, <1>2 DEF Next, Ask, Begin, OutsideUndefine, Stop, Write, Restart

\* Whatever starts the guest, it opens the newest content and no unfinished copy.
THEOREM StartsBootLatest == Spec => BootsLatest
  <1>1. TypeOK /\ HolderMoves /\ DiskInv /\ [Next]_vars
          => [guest = Nowhere /\ guest' # Nowhere /\ ~crossed' /\ ~torn
                => guest' \notin half /\ disk[guest'] = latest]_vars
    <2> SUFFICES ASSUME TypeOK, HolderMoves, DiskInv, Next,
                        guest = Nowhere, guest' # Nowhere, ~crossed', ~torn
                 PROVE  Held(guest')
      BY DEF Held, vars
    <2>1. CASE \E c \in Callers : Start(c)
      <3>1. PICK c \in Callers : Start(c)
        BY <2>1
      <3>2. Story /\ pc[c] # "idle" /\ Bootable /\ guest' = xml
        BY <3>1 DEF Start, history, DiskInv
      <3>3. Settling
        BY <3>2 DEF Story, Alone, Quiet
      <3> QED
        BY <3>2, <3>3 DEF Settling, Agree, Bootable, Held
    <2>2. CASE OutsideStart
      <3>1. /\ Story /\ Bootable /\ guest' = xml
            /\ \A m \in Movers : pc[m] # "unlink" /\ way[m] = "there"
        BY <2>2 DEF OutsideStart, Exposed, DiskInv
      <3>2. CASE hold = Nobody
        BY <3>1, <3>2 DEF Story, Quiet, Settling, Agree, Bootable, Held
      <3>3. ASSUME NEW m \in Movers, hold = m PROVE Held(guest')
        <4>1. Working(m)
          BY <3>1, <3>3 DEF Story
        <4>2. ~Split(m)
          BY <3>1, <4>1 DEF Split, Bootable, Working, Course, Guest, Files, Planned
        <4> QED
          BY <3>1, <4>1, <4>2 DEF Working, ToldBy, Settling, Agree, Bootable, Held
      <3> QED
        BY <3>2, <3>3 DEF TypeOK
    <2> QED
      BY <2>1, <2>2, StaysOff
  <1> QED
    BY <1>1, DiskInvHolds, TypeCorrect, OnlyTheHolderMoves, PTL DEF Spec, BootsLatest

=============================================================================
