-------------------------- MODULE MCTaskScheduler --------------------------
(***************************************************************************)
(* Instances of TaskScheduler for TLC.                                     *)
(***************************************************************************)
EXTENDS TaskScheduler, TLC

CONSTANTS t1, t2

MCTasks == {t1, t2}
MCSymmetry == Permutations(MCTasks)

\* Periods in milliseconds: refused, one tick, two ticks.
MCPeriods == {5, 10, 20}
MCStates  == {"RUNNING", "STOPPED", "UNKNOWN"}

Cfg(prio, period, state, type) ==
    [priority |-> prio, period |-> period, state |-> state, type |-> type]

-----------------------------------------------------------------------------
(* Table: the main loop and the callbacks manage a table that grows. *)

TableConfigs ==
    {Cfg("LOW", 20, "RUNNING", "PERIODIC"), Cfg("HIGH", 10, "RUNNING", "TRIGGER"),
     Cfg("LOW", 10, "RUNNING", "ONCE"), Cfg("LOW", 5, "RUNNING", "TRIGGER"),
     Cfg("LOW", 10, "STOPPED", "UNKNOWN")}

TableCalls ==
    [k \in Callers |->
        CASE k = "loop" -> {"subscribe_and_set", "schedule", "unsubscribe"} \X MCTasks
          [] k = "low"  -> {"unsubscribe", "trigger", "set_period", "set_state"} \X MCTasks
          [] k = "high" -> {"trigger"} \X MCTasks
          [] k = "exti" -> {}]

-----------------------------------------------------------------------------
(* Trigger: the tasks the firmware has.  t1 is inp_on_timeout (LOW, armed by *)
(* an interrupt) or slm_on_timeout (LOW, re-arms itself), t2 is              *)
(* dht_on_timeout (HIGH, re-arms itself, stopped by an interrupt).           *)

TriggerConfigs ==
    {Cfg("LOW", 20, "RUNNING", "TRIGGER"), Cfg("LOW", 10, "RUNNING", "PERIODIC"),
     Cfg("HIGH", 10, "STOPPED", "TRIGGER")}

TriggerCalls ==
    [k \in Callers |->
        CASE k = "loop" -> {"subscribe_and_set", "trigger"} \X MCTasks
          [] k = "low"  -> {<<"trigger", t1>>, <<"set_period", t1>>, <<"trigger", t2>>}
          [] k = "high" -> {<<"trigger", t2>>, <<"set_period", t2>>}
          [] k = "exti" -> {<<"trigger", t1>>, <<"set_state", t2>>}]
=============================================================================
