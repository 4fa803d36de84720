------------------------- MODULE TaskSchedulerTicks -------------------------
(***************************************************************************)
(* TaskScheduler with a history variable: the ticks that SysTick counted   *)
(* and that the main loop has not taken.  In the code that number is       *)
(* sch_time_changed, which both contexts update without protection         *)
(* (task_scheduler.c, sch_task_watcher and sch_on_time_change).            *)
(***************************************************************************)
EXTENDS TaskScheduler

CONSTANT MaxDue     \* bound: stands for this many ticks due, or more

ASSUME DueAssumption == MaxDue \in Nat

VARIABLE due

TicksInit == Init /\ due = 0

TickCounted == pc["systick"] = "scan" /\ pc'["systick"] = "off"
TickTaken   == pc["main"] = "dec" /\ pc'["main"] = "scan"

TicksNext ==
    /\ Next
    /\ \/ due = MaxDue /\ UNCHANGED due
       \/ due < MaxDue /\ TickCounted /\ due' = due + 1
       \/ due < MaxDue /\ TickTaken /\ due' = due - 1
       \/ due < MaxDue /\ ~TickCounted /\ ~TickTaken /\ UNCHANGED due

TicksSpec == TicksInit /\ [][TicksNext]_<<vars, due>>

FairTicksSpec == TicksSpec /\ Fairness

(* main never runs its tasks for a tick that did not happen, however SysTick *)
(* interleaves with the decrement (the counter does not wrap here).           *)
NoPhantomTick == sch_time_changed <= due

(* "Task will be called in defined period" (TASKTYPE_PERIODIC,               *)
(* task_scheduler.h): when neither context is inside its update, every tick  *)
(* that is due is in sch_time_changed.                                       *)
TicksAccounted ==
    (pc["main"] = "loop" /\ pc["systick"] = "off") => sch_time_changed = due
=============================================================================
