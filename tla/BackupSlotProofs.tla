-------------------------- MODULE BackupSlotProofs --------------------------
(* The promise of BackupSlot, for any schedules and any backups.           *)
EXTENDS BackupSlot, TLAPS

\* A slot that is free or only claimed has no work, so a backup that starts in
\* it is alone there.
SlotInv ==
    /\ slot \in [Schedules -> {"none", "free", "claimed", "started", "busy", "gone"}]
    /\ work \in [Schedules -> SUBSET Backups]
    /\ \A s \in Schedules : slot[s] \in {"none", "free", "claimed"} => work[s] = {}
    /\ OneBackupPerSlot

LEMMA SlotStep == SlotInv /\ [SlotNext]_vars => SlotInv'
<1> SUFFICES ASSUME SlotInv, [SlotNext]_vars PROVE SlotInv'
    OBVIOUS
<1> USE DEF SlotInv, OneBackupPerSlot, Move
<1>1. ASSUME NEW s \in Schedules, Add(s) PROVE SlotInv'
    BY <1>1 DEF Add
<1>2. ASSUME NEW s \in Schedules, Remove(s) PROVE SlotInv'
    BY <1>2 DEF Remove
<1>3. ASSUME NEW s \in Schedules, TakeSlot(s) PROVE SlotInv'
    BY <1>3 DEF TakeSlot
<1>4. ASSUME NEW s \in Schedules, Confirm(s) PROVE SlotInv'
    BY <1>4 DEF Confirm
<1>5. ASSUME NEW s \in Schedules, Free(s) PROVE SlotInv'
    BY <1>5 DEF Free
<1>6. ASSUME NEW s \in Schedules, NEW b \in Backups, Start(s, b) PROVE SlotInv'
    BY <1>6 DEF Start
<1>7. ASSUME NEW s \in Schedules, NEW b \in Backups, End(s, b) PROVE SlotInv'
    BY <1>7 DEF End
<1>8. CASE Restart
    BY <1>8 DEF Restart
<1>9. CASE UNCHANGED vars
    BY <1>9 DEF vars
<1> QED
    BY <1>1, <1>2, <1>3, <1>4, <1>5, <1>6, <1>7, <1>8, <1>9 DEF SlotNext

\* However schedules are added, removed and restarted, the slot of an existing
\* schedule never holds two backups.
THEOREM OneBackup == SlotSpec => []OneBackupPerSlot
<1>1. SlotInit => SlotInv
    BY DEF SlotInit, SlotInv, OneBackupPerSlot
<1>2. SlotInv => OneBackupPerSlot
    BY DEF SlotInv
<1> QED
    BY <1>1, <1>2, SlotStep, PTL DEF SlotSpec

=============================================================================
