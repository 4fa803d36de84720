-------------------------- MODULE BathroomFanProofs --------------------------
(***************************************************************************)
(* Theorems about BathroomFan, for every range of working times, every set *)
(* of thresholds and humidities.                                           *)
(***************************************************************************)
EXTENDS BathroomFan, TLAPS

-----------------------------------------------------------------------------
(* Type correctness: an inductive invariant as it stands. *)

\* The initial state is well typed.
LEMMA InitTypeOK == Init => TypeOK
<1> SUFFICES ASSUME Init PROVE TypeOK
    OBVIOUS
<1>1. listening \in BOOLEAN
    BY Zenon DEF Init
<1>2. QED
    BY <1>1, FanAssumption DEF Init, TypeOK, FanStates

\* Every step of the fan keeps the types; the limit on working_time is the one
\* that fan_on_timeout compares it with.
LEMMA NextTypeOK == TypeOK /\ [Next]_vars => TypeOK'
<1> SUFFICES ASSUME TypeOK, [Next]_vars PROVE TypeOK'
    OBVIOUS
<1> USE FanAssumption DEF power, TypeOK, Config, FanStates
<1>1. ASSUME NEW ok \in BOOLEAN, NEW subscribed \in BOOLEAN,
             fan_initialize(ok, subscribed)
      PROVE  TypeOK'
  <2>1. listening' \in BOOLEAN
      BY <1>1, Zenon DEF fan_initialize
  <2> HIDE DEF Config
  <2>2. QED BY <1>1, <2>1 DEF fan_initialize, rel_set
<1>2. ASSUME NEW ok \in BOOLEAN, NEW s \in {"OFF", "SUSPEND"}, fan_stop_state(s, ok)
      PROVE  TypeOK'
    BY <1>2 DEF fan_stop_state, rel_set, TimerSet
<1>3. ASSUME NEW ok \in BOOLEAN, StartAuto(ok) PROVE TypeOK'
    BY <1>3 DEF StartAuto, SwitchOn, rel_set, TimerSet
<1>4. ASSUME NEW ok \in BOOLEAN, StartManual(ok) PROVE TypeOK'
    BY <1>4 DEF StartManual, SwitchOn, rel_set
<1>5. ASSUME NEW ok \in BOOLEAN, fan_on_timeout(ok) PROVE TypeOK'
  <2>1. CASE state = "ON" /\ working_time + 1 < cfg.max
      BY <1>5, <2>1 DEF fan_on_timeout
  <2>2. CASE ~(state = "ON" /\ working_time + 1 < cfg.max)
      BY <1>2, <1>5, <2>2 DEF fan_on_timeout
  <2>3. QED BY <2>1, <2>2
<1>6. CASE Setters
    BY <1>6 DEF Setters, fan_set_working_time, fan_validate_working_time,
                fan_set_humidity_threshold, fan_set_threshold_hysteresis
<1>7. CASE fan_deinitialize
    BY <1>7 DEF fan_deinitialize
<1>8. CASE UNCHANGED vars
    BY <1>8 DEF vars
<1>9. CASE OthersSwitch
    BY <1>9 DEF OthersSwitch
<1>10. QED
    BY <1>1, <1>2, <1>3, <1>4, <1>5, <1>6, <1>7, <1>8, <1>9
    DEF Next, fan_on_env_data, fan_start, fan_stop

(* Every variable keeps its type; in particular working_time never passes    *)
(* FAN_MAX_WORKING_TIME_S, though the limit may be lowered below it.         *)
THEOREM TypeCorrect == Spec => []TypeOK
<1>1. QED BY InitTypeOK, NextTypeOK, PTL DEF Spec

-----------------------------------------------------------------------------
(* What the fan guarantees whatever the relay does. *)

\* The start and the stop of the fan take its task along.
LEMMA NextTimed == TypeOK /\ AutoRunTimed /\ [Next]_vars => AutoRunTimed'
<1> SUFFICES ASSUME TypeOK, AutoRunTimed, [Next]_vars PROVE AutoRunTimed'
    OBVIOUS
<1> USE FanAssumption DEF power, TypeOK, AutoRunTimed, AutoRun
<1>1. ASSUME NEW ok \in BOOLEAN, NEW subscribed \in BOOLEAN,
             fan_initialize(ok, subscribed)
      PROVE  AutoRunTimed'
    BY <1>1 DEF fan_initialize
<1>2. ASSUME NEW ok \in BOOLEAN, NEW s \in {"OFF", "SUSPEND"}, fan_stop_state(s, ok)
      PROVE  AutoRunTimed'
    BY <1>2 DEF fan_stop_state
<1>3. ASSUME NEW ok \in BOOLEAN, StartAuto(ok) PROVE AutoRunTimed'
    BY <1>3 DEF StartAuto, SwitchOn, rel_set, TimerSet
<1>4. ASSUME NEW ok \in BOOLEAN, StartManual(ok) PROVE AutoRunTimed'
    BY <1>4 DEF StartManual, SwitchOn, rel_set
<1>5. ASSUME NEW ok \in BOOLEAN, fan_on_timeout(ok) PROVE AutoRunTimed'
    BY <1>2, <1>5 DEF fan_on_timeout
<1>6. CASE Setters
    BY <1>6 DEF Setters, fan_set_working_time,
                fan_set_humidity_threshold, fan_set_threshold_hysteresis
<1>7. CASE fan_deinitialize
    BY <1>7 DEF fan_deinitialize
<1>8. CASE UNCHANGED vars
    BY <1>8 DEF vars
<1>9. CASE OthersSwitch
    BY <1>9 DEF OthersSwitch
<1>10. QED
    BY <1>1, <1>2, <1>3, <1>4, <1>5, <1>6, <1>7, <1>8, <1>9
    DEF Next, fan_on_env_data, fan_start, fan_stop

(* An automatic run is timed, whatever starts failed before it.              *)
THEOREM AutoRunsAreTimed == Spec => []AutoRunTimed
<1>1. Init => AutoRunTimed
    BY DEF Init, AutoRunTimed, AutoRun
<1>2. QED BY <1>1, TypeCorrect, NextTimed, PTL DEF Spec

(* A suspended fan is started by the user only.                              *)
THEOREM SuspendIsRespected == Spec => SuspendRespected
<1>1. TypeOK /\ [Next]_vars =>
        [(state = "SUSPEND" /\ state' = "ON") => trigger' = "MANUAL"]_vars
  <2> SUFFICES ASSUME TypeOK, Next, state = "SUSPEND", state' = "ON"
               PROVE  trigger' = "MANUAL"
      OBVIOUS
  <2>1. ~Setters /\ ~fan_deinitialize /\ ~OthersSwitch
      BY DEF OthersSwitch, Setters, fan_set_working_time, fan_set_humidity_threshold,
             fan_set_threshold_hysteresis, fan_deinitialize
  <2>2. ASSUME NEW ok \in BOOLEAN, NEW s \in {"OFF", "SUSPEND"} PROVE ~fan_stop_state(s, ok)
      BY DEF fan_stop_state
  <2>3. PICK ok \in BOOLEAN : fan_start(ok)
      BY <2>1, <2>2 DEF Next, fan_initialize, fan_on_env_data, fan_on_timeout, fan_stop
  <2>4. QED BY <2>3 DEF fan_start, StartManual
<1>2. QED BY <1>1, TypeCorrect, PTL DEF Spec, SuspendRespected

-----------------------------------------------------------------------------
(* What the fan knows of its relay and of its task.  The state ON comes with *)
(* a write that succeeded, and every way out of ON switched the relay; a     *)
(* manual start finds the task stopped because every way out of ON stopped   *)
(* it, until a write fails.                                                  *)
Agreement ==
    /\ FanMatchesRelay
    /\ writes = "fine" => /\ state # "ON" => timer # "RUNNING"
                          /\ ~listening => timer = "NONE"
    /\ ManualRunUntimed

\* Agreement of the fan, its relay and its task is inductive.
LEMMA NextAgreement == TypeOK /\ Agreement /\ [Next]_vars => Agreement'
<1> SUFFICES ASSUME TypeOK, Agreement, [Next]_vars PROVE Agreement'
    OBVIOUS
<1> USE DEF power, TypeOK, Agreement, FanMatchesRelay, ManualRunUntimed
<1>1. ASSUME NEW ok \in BOOLEAN, NEW subscribed \in BOOLEAN, fan_initialize(ok, subscribed)
      PROVE  Agreement'
  <2>1. CASE listening'
    <3>1. /\ state' = "OFF" /\ trigger' = "AUTO" /\ timer' \in {"STOPPED", "NONE"}
          /\ rel_set("OFF", ok)
        BY <1>1, <2>1, Zenon DEF fan_initialize
    <3>2. QED BY <2>1, <3>1 DEF rel_set
  <2>2. CASE ~listening'
    <3>1. /\ ~listening /\ state' = "UNKNOWN"
          /\ UNCHANGED <<trigger, timer, power>>
        BY <1>1, <2>2, Zenon DEF fan_initialize
    <3>2. QED BY <3>1
  <2>3. QED BY <2>1, <2>2
<1>2. ASSUME NEW ok \in BOOLEAN, NEW s \in {"OFF", "SUSPEND"}, state # "UNKNOWN",
             fan_stop_state(s, ok)
      PROVE  Agreement'
    BY <1>2 DEF fan_stop_state, rel_set, TimerSet
<1>3. ASSUME NEW ok \in BOOLEAN, listening, StartAuto(ok) PROVE Agreement'
    BY <1>3 DEF StartAuto, SwitchOn, rel_set, TimerSet
<1>4. ASSUME NEW ok \in BOOLEAN, StartManual(ok) PROVE Agreement'
    BY <1>4 DEF StartManual, SwitchOn, rel_set
<1>5. ASSUME NEW ok \in BOOLEAN, fan_on_timeout(ok) PROVE Agreement'
    BY <1>2, <1>5 DEF fan_on_timeout
<1>6. CASE Setters
    BY <1>6 DEF Setters, fan_set_working_time,
                fan_set_humidity_threshold, fan_set_threshold_hysteresis
<1>7. CASE fan_deinitialize
    BY <1>7 DEF fan_deinitialize
<1>8. CASE UNCHANGED vars
    BY <1>8 DEF vars
<1>9. CASE OthersSwitch
    BY <1>9 DEF OthersSwitch
<1>10. QED
    BY <1>1, <1>2, <1>3, <1>4, <1>5, <1>6, <1>7, <1>8, <1>9
    DEF Next, fan_on_env_data, fan_start, fan_stop

(* The fan's state follows its last relay write until somebody else undoes   *)
(* that write, and ON never rests on a write that failed: the ways into and  *)
(* out of SUSPEND that skip the relay (fan_stop_state) never leave it on.    *)
THEOREM RelayAgreement == Spec => []FanMatchesRelay
<1>1. Init => Agreement
    BY DEF Init, Agreement, FanMatchesRelay, ManualRunUntimed
<1>2. Agreement => FanMatchesRelay
    BY Zenon DEF Agreement, FanMatchesRelay
<1>3. QED BY <1>1, <1>2, TypeCorrect, NextAgreement, PTL DEF Spec

(* Until a relay write fails, the working time of a manual run is not        *)
(* counted: the task of an earlier automatic run was stopped with it.        *)
THEOREM ManualRunsAreUntimed == Spec => []ManualRunUntimed
<1>1. Init => Agreement
    BY DEF Init, Agreement, FanMatchesRelay, ManualRunUntimed
<1>2. Agreement => ManualRunUntimed
    BY Zenon DEF Agreement, ManualRunUntimed
<1>3. QED BY <1>1, <1>2, TypeCorrect, NextAgreement, PTL DEF Spec
=============================================================================
