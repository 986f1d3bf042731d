----------------------------- MODULE BackupSlot -----------------------------
(***************************************************************************)
(* What the scheduled backups promise, without threads, locks or tables:   *)
(* every schedule is one slot for one backup.  A slot is claimed before a  *)
(* backup starts in it and stays taken until that backup is over; only the *)
(* removal of the schedule or a restart of the portal ends that early.     *)
(***************************************************************************)
EXTENDS FiniteSets

CONSTANTS Schedules, Backups

VARIABLES
    slot,   \* none, free, claimed, started, busy, gone
    work    \* the backups of each schedule that are running

vars == <<slot, work>>

SlotInit ==
    /\ slot = [s \in Schedules |-> "none"]
    /\ work = [s \in Schedules |-> {}]

Move(s, to) == slot' = [slot EXCEPT ![s] = to]

Add(s) ==
    /\ slot[s] = "none"
    /\ Move(s, "free")
    /\ UNCHANGED work

Remove(s) ==
    /\ slot[s] \notin {"none", "gone"}
    /\ Move(s, "gone")
    /\ UNCHANGED work

\* A slot whose backup is over may be claimed at once.
TakeSlot(s) ==
    /\ slot[s] = "free" \/ (slot[s] = "busy" /\ work[s] = {})
    /\ Move(s, "claimed")
    /\ UNCHANGED work

\* The backup starts; its schedule may have been removed in the meantime.
Start(s, b) ==
    /\ \A t \in Schedules : b \notin work[t]
    /\ work' = [work EXCEPT ![s] = @ \cup {b}]
    /\ \/ slot[s] = "claimed" /\ Move(s, "started")
       \/ slot[s] = "gone" /\ UNCHANGED slot

\* The id of the backup is written down; an exception can keep it from ever
\* happening.
Confirm(s) ==
    /\ slot[s] = "started"
    /\ Move(s, "busy")
    /\ UNCHANGED work

\* A claim is given back unused, or the end of the backup is noticed.
Free(s) ==
    /\ slot[s] = "claimed" \/ (slot[s] = "busy" /\ work[s] = {})
    /\ Move(s, "free")
    /\ UNCHANGED work

End(s, b) ==
    /\ b \in work[s]
    /\ work' = [work EXCEPT ![s] = @ \ {b}]
    /\ UNCHANGED slot

\* A restart ends all backups; one that was not confirmed leaves its claim.
Restart ==
    /\ work' = [s \in Schedules |-> {}]
    /\ slot' = [s \in Schedules |-> IF slot[s] = "started" THEN "claimed" ELSE slot[s]]

SlotNext ==
    \/ \E s \in Schedules : \/ Add(s) \/ Remove(s) \/ TakeSlot(s)
                            \/ Confirm(s) \/ Free(s)
    \/ \E s \in Schedules, b \in Backups : Start(s, b) \/ End(s, b)
    \/ Restart

SlotSpec == SlotInit /\ [][SlotNext]_vars

\* The promise: at most one backup in the slot of an existing schedule.
OneBackupPerSlot ==
    \A s \in Schedules : slot[s] # "gone" =>
        \A a, b \in work[s] : a = b

=============================================================================
