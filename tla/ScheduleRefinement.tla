------------------------- MODULE ScheduleRefinement -------------------------
(***************************************************************************)
(* The executor of schedules implements BackupSlot.  The slot of a         *)
(* schedule is read off its row and, while the row says __starting__, off  *)
(* the executor that may hold its new job or may have lost it to an        *)
(* exception; the running backups are the worker threads.  The locks, the  *)
(* runs and the dict _jobs are hidden.                                     *)
(***************************************************************************)
EXTENDS ScheduleExecutor

\* A backup of s was started whose id is not in the row of s.
Holds(s) == \/ \E e \in Executors : cur[e] = s /\ held[e] # NoJob
            \/ \E j \in untold : jobs[j].owner = s

SlotOf(s) ==
    CASE sched[s].st = "unborn" -> "none"
      [] sched[s].st = "gone"   -> "gone"
      [] OTHER -> IF sched[s].running = NoJob THEN "free"
                  ELSE IF sched[s].running # Starting THEN "busy"
                  ELSE IF Holds(s) THEN "started" ELSE "claimed"

WorkOf(s) == {j \in JobIds : jobs[j].state = "active" /\ jobs[j].owner = s}

Slots == INSTANCE BackupSlot
             WITH Backups <- JobIds,
                  slot <- [s \in Schedules |-> SlotOf(s)],
                  work <- [s \in Schedules |-> WorkOf(s)]

\* Every step of the executors, the web handlers, the jobs, every exception and
\* a restart is a step of the slots or leaves them alone.
ImplementsSlots == Slots!SlotSpec

=============================================================================
