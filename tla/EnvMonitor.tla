----------------------------- MODULE EnvMonitor -----------------------------
(***************************************************************************)
(* The environment monitor (sw/env_monitor/source/env_monitor.c) on top of *)
(* the DHT driver: a periodic task reads the selected sensor, and the      *)
(* answer selects the next one.  Users read sensors of their own, with the *)
(* blocking read, between any two calls of the main loop.                  *)
(*                                                                         *)
(* The match of ENV ids to DHT ids is static and is left out; error        *)
(* statistics and listeners are too.  The data of a sensor is the sensor   *)
(* that it was measured by.                                                *)
(***************************************************************************)
EXTENDS DhtDriver

CONSTANTS env_on_dht_data, Nobody

ASSUME EnvAssumption ==
    /\ Callbacks = {env_on_dht_data}
    /\ Nobody \notin Sensors

VARIABLES
    selected,       \* env_module.selected_sensor
    data            \* env_module.sensors[].data: whose data it is

env  == <<selected, data>>
vars == <<dht, env>>

Init ==
    /\ DhtInit
    /\ selected = 1
    /\ data = [s \in Sensors |-> Nobody]

\* Faulty variant: the selection runs past the last sensor.
env_get_next_sensor_past == selected' = IF selected > SensorsCount THEN 1 ELSE selected + 1

env_get_next_sensor == selected' = IF selected = SensorsCount THEN 1 ELSE selected + 1

env_on_timeout ==
    /\ Request(selected, env_on_dht_data)
    /\ UNCHANGED env

\* env_read_sensor and the command dht read_sensor.
dht_read(id) ==
    /\ Request(id, NULL)
    /\ UNCHANGED env

\* Faulty variant: a sensor that fails is tried again.
DataAnswerRetries(status) ==
    /\ Answer /\ callback = env_on_dht_data
    /\ IF status = "OK"
       THEN data' = [data EXCEPT ![selected] = sensor] /\ env_get_next_sensor
       ELSE UNCHANGED <<data, selected>>

\* The answer to env: only good data is stored, and the next sensor selected.
DataAnswer(status) ==
    /\ Answer /\ callback = env_on_dht_data
    /\ data' = IF status = "OK" THEN [data EXCEPT ![selected] = sensor] ELSE data
    /\ env_get_next_sensor

\* The callback was taken away by a refused read.
NoAnswer == Answer /\ callback = NULL /\ UNCHANGED env

Answers == NoAnswer \/ \E status \in dht_get_result : DataAnswer(status)

Next ==
    \/ env_on_timeout
    \/ \E id \in Ids : dht_read(id)
    \/ Answers
    \/ Working /\ UNCHANGED env

Spec == Init /\ [][Next]_vars

(* The main loop and SysTick run on.  The scheduler calls the periodic task  *)
(* env_on_timeout again and again (RunningTaskCalled of TaskScheduler),      *)
(* between reads of users that keep the main loop waiting.                   *)
Fairness ==
    /\ WF_vars((ClearReady \/ Accept \/ Refuse \/ StopWaiting \/ Collect) /\ UNCHANGED env)
    /\ WF_vars(Answers)
    /\ WF_vars(dht_data_watcher /\ UNCHANGED env)
    /\ WF_vars(Elapse /\ UNCHANGED env)
    /\ WF_vars(dht_on_timeout /\ UNCHANGED env)
    /\ SF_vars(env_on_timeout)

FairSpec == Spec /\ Fairness

-----------------------------------------------------------------------------
(* Properties. *)

\* Every variable has its type (ENV_MODULE, env_monitor.c).
TypeOK ==
    /\ DhtTypeOK
    /\ selected \in Sensors
    /\ data \in [Sensors -> Sensors \cup {Nobody}]

(* The data kept for a sensor was measured by it: env stores an answer for   *)
(* the selected sensor and does not look at the one in the answer, so the    *)
(* selection and the driver's sensor must agree when env is called back,     *)
(* whatever users read and were refused in between.                          *)
OwnData == \A s \in Sensors : data[s] \in {Nobody, s}

(* Every sensor has its turn again and again, also when some of them never   *)
(* answer or always fail, unless reads keep being refused.                   *)
SensorsTakeTurns ==
    <>[](disturbed = "no") => \A s \in Sensors : []<>(selected = s)
=============================================================================
