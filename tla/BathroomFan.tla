----------------------------- MODULE BathroomFan -----------------------------
(***************************************************************************)
(* The bathroom fan (sw/env_monitor/source/bathroom_fan.c): started and    *)
(* stopped by the humidity that env_monitor reports, by the user, and by a *)
(* one-second scheduler task that limits the working time of an automatic  *)
(* run.  Every entry point runs in the main loop, so each is one action.   *)
(*                                                                         *)
(* External: the relay that powers the fan (rel_set of relays_board, which *)
(* fails when the I2C write does), the others who switch it (phones, the   *)
(* terminal, a board that loses its power) and the state of the scheduler  *)
(* task.                                                                   *)
(***************************************************************************)
EXTENDS Integers

CONSTANTS
    MinTime,        \* FAN_MIN_WORKING_TIME_S
    MaxTime,        \* FAN_MAX_WORKING_TIME_S
    Times,          \* working times that callers ask for
    Thresholds,     \* humidity thresholds (FAN_MIN_.. to FAN_MAX_HUMIDITY_THR)
    Hystereses,     \* threshold hystereses (FAN_MIN_.. to FAN_MAX_HUM_HYSTER)
    Humidities      \* values of sensor->data.hum_h

FanStates == {"UNKNOWN", "OFF", "ON", "SUSPEND"}
Config    == [max : MinTime..MaxTime, min : MinTime..MaxTime,
              threshold : Thresholds, hysteresis : Hystereses]

ASSUME FanAssumption ==
    /\ MinTime \in Nat \ {0} /\ MaxTime \in Nat /\ MinTime <= MaxTime
    /\ MinTime..MaxTime \subseteq Times /\ Times \subseteq Nat
    /\ Thresholds \subseteq Nat /\ Hystereses \subseteq Nat /\ Humidities \subseteq Nat

VARIABLES
    state,          \* fan_module.state
    trigger,        \* fan_module.trigger
    working_time,   \* fan_module.working_time
    cfg,            \* fan_module.cfg
    timer,          \* scheduler state of fan_on_timeout; NONE: not subscribed
    listening,      \* fan_on_env_data is registered with env_monitor
    relay,          \* the relay RELAY_BATHROOM_FAN
    writes,         \* history: "fine" until a relay write of the fan fails
    last            \* history: what became of the fan's last relay write,
                    \* "set", "failed" or "undone" by somebody else

power == <<relay, writes, last>>
vars  == <<state, trigger, working_time, cfg, timer, listening, power>>

Init ==
    /\ state = "UNKNOWN" /\ trigger = "AUTO" /\ working_time = 0
    /\ cfg \in Config
    /\ timer = "NONE" /\ listening = FALSE
    /\ relay \in {"ON", "OFF"} /\ writes = "fine" /\ last = "undone"

-----------------------------------------------------------------------------
\* rel_set(RELAY_BATHROOM_FAN, s): on failure the relay keeps its state or,
\* when only the acknowledge was lost, took the new one.
rel_set(s, ok) ==
    IF ok THEN relay' = s /\ last' = "set" /\ UNCHANGED writes
          ELSE relay' \in {relay, s} /\ last' = "failed" /\ writes' = "failed"

\* sch_set_task_state(&fan_on_timeout, s) does nothing without the task.
TimerSet(s) == IF timer = "NONE" THEN "NONE" ELSE s

\* Faulty variant: the scheduler task is left running.
fan_stop_state_keeps_timer(s, ok) ==
    /\ IF state # "SUSPEND"
       THEN /\ UNCHANGED timer
            /\ trigger' = "AUTO"
            /\ rel_set("OFF", ok)
       ELSE UNCHANGED <<timer, trigger, power>>
    /\ state' = s /\ working_time' = 0
    /\ UNCHANGED <<cfg, listening>>

\* Faulty variant: the relay is left alone when the fan is being suspended.
fan_stop_state_keeps_relay(s, ok) ==
    /\ IF state # "SUSPEND" /\ s # "SUSPEND"
       THEN /\ timer' = TimerSet("STOPPED")
            /\ trigger' = "AUTO"
            /\ rel_set("OFF", ok)
       ELSE UNCHANGED <<timer, trigger, power>>
    /\ state' = s /\ working_time' = 0
    /\ UNCHANGED <<cfg, listening>>

\* A suspended fan is off already.  The result of rel_set is not looked at.
fan_stop_state(s, ok) ==
    /\ IF state # "SUSPEND"
       THEN /\ timer' = TimerSet("STOPPED")
            /\ trigger' = "AUTO"
            /\ rel_set("OFF", ok)
       ELSE UNCHANGED <<timer, trigger, power>>
    /\ state' = s /\ working_time' = 0
    /\ UNCHANGED <<cfg, listening>>

\* Faulty variant: the fan is ON whatever rel_set returned.
SwitchOnUnchecked(ok) ==
    /\ rel_set("ON", ok)
    /\ state' = "ON"
    /\ UNCHANGED <<cfg, listening>>

\* rel_set and what follows it in fan_start_with_type.
SwitchOn(ok) ==
    /\ rel_set("ON", ok)
    /\ IF ok THEN state' = "ON" ELSE UNCHANGED state
    /\ UNCHANGED <<cfg, listening>>

\* Without its scheduler task an automatic start stops short of the relay.
StartAuto(ok) ==
    /\ state # "ON"
    /\ trigger' = "AUTO" /\ working_time' = 0
    /\ timer' = TimerSet("RUNNING")
    /\ IF timer # "NONE" THEN SwitchOn(ok) ELSE UNCHANGED <<state, power, cfg, listening>>

StartManual(ok) ==
    /\ state # "ON"
    /\ trigger' = "MANUAL"
    /\ UNCHANGED <<working_time, timer>>
    /\ SwitchOn(ok)

-----------------------------------------------------------------------------
(* Entry points. *)

\* Only when env_monitor accepts the listener is the task subscribed (which
\* may fail too) and the fan switched off.
fan_initialize(ok, subscribed) ==
    /\ ~listening
    /\ cfg' \in Config
    /\ \/ /\ listening' = TRUE
          /\ timer' = IF subscribed THEN "STOPPED" ELSE "NONE"
          /\ state' = "OFF" /\ trigger' = "AUTO" /\ working_time' = 0
          /\ rel_set("OFF", ok)
       \/ /\ state' = "UNKNOWN"
          /\ UNCHANGED <<trigger, working_time, timer, listening, power>>

fan_deinitialize ==
    /\ listening
    /\ listening' = FALSE /\ timer' = "NONE"
    /\ UNCHANGED <<state, trigger, working_time, cfg, power>>

Dry(h) == h <= cfg.threshold - cfg.hysteresis

\* Faulty variant: a suspended fan restarts on humid air.
fan_on_env_data_restarts(h, ok) ==
    /\ listening /\ trigger = "AUTO"
    /\ \/ state \in {"OFF", "SUSPEND"} /\ h >= cfg.threshold /\ StartAuto(ok)
       \/ state = "ON" /\ Dry(h) /\ working_time >= cfg.min /\ fan_stop_state("OFF", ok)
       \/ state = "SUSPEND" /\ Dry(h) /\ fan_stop_state("OFF", ok)

\* ENV_EV_NEW_DATA; error events and a manual run are ignored.
fan_on_env_data(h, ok) ==
    /\ listening /\ trigger = "AUTO"
    /\ \/ state = "OFF" /\ h >= cfg.threshold /\ StartAuto(ok)
       \/ state = "ON" /\ Dry(h) /\ working_time >= cfg.min /\ fan_stop_state("OFF", ok)
       \/ state = "SUSPEND" /\ Dry(h) /\ fan_stop_state("OFF", ok)

\* Faulty variant: reaching the limit is noticed by equality only.
fan_on_timeout_exact(ok) ==
    /\ timer = "RUNNING"
    /\ \/ /\ state = "ON" /\ working_time + 1 # cfg.max
          /\ working_time' = working_time + 1
          /\ UNCHANGED <<state, trigger, cfg, timer, listening, power>>
       \/ state = "ON" /\ working_time + 1 = cfg.max /\ fan_stop_state("SUSPEND", ok)
       \/ /\ state # "ON" /\ timer' = "STOPPED"
          /\ UNCHANGED <<state, trigger, working_time, cfg, listening, power>>

fan_on_timeout(ok) ==
    /\ timer = "RUNNING"
    /\ \/ /\ state = "ON" /\ working_time + 1 < cfg.max
          /\ working_time' = working_time + 1
          /\ UNCHANGED <<state, trigger, cfg, timer, listening, power>>
       \/ state = "ON" /\ working_time + 1 >= cfg.max /\ fan_stop_state("SUSPEND", ok)
       \/ /\ state # "ON" /\ timer' = "STOPPED"
          /\ UNCHANGED <<state, trigger, working_time, cfg, listening, power>>

fan_start(ok) == StartManual(ok)

fan_stop(ok) == state = "ON" /\ fan_stop_state("OFF", ok)

\* The setters; the working times are validated by fan_validate_working_time.
fan_validate_working_time(t) == t >= MinTime /\ t <= MaxTime

\* Faulty variant: a new limit restarts the measurement.
fan_set_working_time_restarts(t) ==
    /\ fan_validate_working_time(t)
    /\ cfg' \in {[cfg EXCEPT !.max = t], [cfg EXCEPT !.min = t]}
    /\ working_time' = 0
    /\ UNCHANGED <<state, trigger, timer, listening, power>>

fan_set_working_time(t) ==
    /\ fan_validate_working_time(t)
    /\ cfg' \in {[cfg EXCEPT !.max = t], [cfg EXCEPT !.min = t]}
    /\ UNCHANGED <<state, trigger, working_time, timer, listening, power>>

fan_set_humidity_threshold(v) ==
    /\ cfg' = [cfg EXCEPT !.threshold = v]
    /\ UNCHANGED <<state, trigger, working_time, timer, listening, power>>

fan_set_threshold_hysteresis(v) ==
    /\ cfg' = [cfg EXCEPT !.hysteresis = v]
    /\ UNCHANGED <<state, trigger, working_time, timer, listening, power>>

Setters ==
    \/ \E t \in Times : fan_set_working_time(t)
    \/ \E v \in Thresholds : fan_set_humidity_threshold(v)
    \/ \E v \in Hystereses : fan_set_threshold_hysteresis(v)

\* A phone or the terminal sets the relay, a write of another relay takes it
\* along, or the board loses its power: the fan is told nothing.
OthersSwitch ==
    /\ relay' \in {"ON", "OFF"} \ {relay} /\ last' = "undone"
    /\ UNCHANGED <<state, trigger, working_time, cfg, timer, listening, writes>>

Next ==
    \/ \E ok \in BOOLEAN :
          \/ \E subscribed \in BOOLEAN : fan_initialize(ok, subscribed)
          \/ \E h \in Humidities : fan_on_env_data(h, ok)
          \/ fan_on_timeout(ok)
          \/ fan_start(ok)
          \/ fan_stop(ok)
    \/ fan_deinitialize
    \/ Setters
    \/ OthersSwitch

Spec == Init /\ [][Next]_vars

\* The scheduler calls a running PERIODIC task again and again
\* (RunningTaskCalled of TaskScheduler).
Fairness == WF_vars(\E ok \in BOOLEAN : fan_on_timeout(ok))

FairSpec == Spec /\ Fairness

-----------------------------------------------------------------------------
(* Properties. *)

\* Every variable has its type (FAN_MODULE, bathroom_fan.c).
TypeOK ==
    /\ state \in FanStates /\ trigger \in {"AUTO", "MANUAL"}
    /\ working_time \in 0..MaxTime
    /\ cfg \in Config
    /\ timer \in {"NONE", "STOPPED", "RUNNING"}
    /\ listening \in BOOLEAN
    /\ relay \in {"ON", "OFF"} /\ writes \in {"fine", "failed"}
    /\ last \in {"set", "failed", "undone"}

AutoRun == state = "ON" /\ trigger = "AUTO"

(* The working time of an automatic run is being counted: whatever order of  *)
(* failed starts, manual starts and stops led to it, its task is running.    *)
AutoRunTimed == (AutoRun /\ timer # "NONE") => timer = "RUNNING"

(* Once suspended, the fan is not started by humidity again before it went   *)
(* through OFF: only the user starts a suspended fan.                        *)
SuspendRespected ==
    [][(state = "SUSPEND" /\ state' = "ON") => trigger' = "MANUAL"]_vars

(* An automatic run ends, even while the user keeps changing the limits.     *)
AutoRunEnds == (AutoRun /\ timer # "NONE") ~> (~AutoRun \/ timer = "NONE")

(* The fan and its relay agree as far as the fan can tell.  Its state follows*)
(* its last write while nobody undoes that: state changes that skip rel_set  *)
(* (out of SUSPEND) rely on an earlier one.  And the state ON never rests on *)
(* a write that failed, in whatever order failed starts and stops came.      *)
FanMatchesRelay ==
    /\ last = "set" /\ state # "UNKNOWN" => (state = "ON" <=> relay = "ON")
    /\ state = "ON" => last # "failed"

(* "Working time is not controlled after manual start" (fan_start,           *)
(* bathroom_fan.h).  A failed automatic start breaks it: it leaves the timer *)
(* running.                                                                  *)
ManualRunUntimed ==
    writes = "fine" /\ state = "ON" /\ trigger = "MANUAL" => timer # "RUNNING"

(* "Fan is turned on when received humidity is above                         *)
(* fan_humidity_threashold" (bathroom_fan.h): while the fan is off, humidity *)
(* is not ignored (fan_on_env_data acts in automatic mode only).             *)
HumidityWatchedWhenOff == (listening /\ state # "ON") => trigger = "AUTO"
=============================================================================
