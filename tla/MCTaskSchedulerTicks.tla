------------------------ MODULE MCTaskSchedulerTicks ------------------------
(***************************************************************************)
(* Instances of TaskSchedulerTicks for TLC.                                *)
(***************************************************************************)
EXTENDS MCTaskScheduler, TaskSchedulerTicks

\* One periodic LOW task; nothing else touches the table.
TicksConfigs == {Cfg("LOW", 20, "RUNNING", "PERIODIC"), Cfg("HIGH", 10, "RUNNING", "PERIODIC")}

TicksCalls ==
    [k \in Callers |-> IF k = "loop" THEN {"subscribe_and_set"} \X MCTasks ELSE {}]
=============================================================================
