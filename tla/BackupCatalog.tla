--------------------------- MODULE BackupCatalog ---------------------------
(***************************************************************************)
(* What the backup engine promises about one VM's backups, with every      *)
(* mechanism left out: a set of restorable backups, each either standalone *)
(* or a delta over one that is in the set too.  A backup arrives on top of *)
(* a kept one, or on top of nothing, and leaves only when nothing that is  *)
(* kept builds on it.  BackupEngine is shown to implement this.            *)
(***************************************************************************)
EXTENDS Integers

CONSTANT MaxBackups                 \* backups are numbered 1 .. MaxBackups

VARIABLES kept,                     \* the backups that can be restored
          base                      \* what a kept backup is a delta over, 0 = nothing

vars == <<kept, base>>

Backups == 1 .. MaxBackups

Init == /\ kept = {}
        /\ base = [b \in Backups |-> 0]

Add(b, p) == /\ b \notin kept
             /\ p \in kept \cup {0}
             /\ kept' = kept \cup {b}
             /\ base' = [base EXCEPT ![b] = p]

Remove(b) == /\ b \in kept
             /\ \A c \in kept : base[c] # b
             /\ kept' = kept \ {b}
             /\ base' = [base EXCEPT ![b] = 0]

Next == \E b \in Backups : \/ \E p \in kept \cup {0} : Add(b, p)
                           \/ Remove(b)

Spec == Init /\ [][Next]_vars

=============================================================================
