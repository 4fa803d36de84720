------------------------------ MODULE StairsLed ------------------------------
(***************************************************************************)
(* The stairs light (sw/stairs_module/source/stairs_led_module.c): a       *)
(* program of LED patterns played by a TRIGGER task of the scheduler that  *)
(* re-arms itself with the period of every step it sends, started by the   *)
(* movement sensor or by the user.  Every entry point runs in the main     *)
(* loop, so each is one action.                                            *)
(*                                                                         *)
(* A program is its two numbers of steps: patterns and periods are data.   *)
(* External: the relay that powers the LEDs and the others who switch it   *)
(* (phones, the terminal, a board that loses its power), the sensor's state*)
(* as inputs_board keeps it, and the scheduler's state of slm_on_timeout.  *)
(***************************************************************************)
EXTENDS Integers

CONSTANTS
    Programs,       \* SLM_PROGRAM1..3
    Defaults,       \* the step counts that slm_prepare_default_programs sets
    Replacements    \* the step counts of programs given to slm_replace_program

ByteMod  == 256     \* step_id is uint8_t
Counts   == [n : 0..(ByteMod - 1), m : 0..(ByteMod - 1)]
States   == {"OFF", "ONGOING_ON", "ON", "OFF_EFFECT", "OFF_EFFECT_READY", "ONGOING_OFF"}

(* n is program_steps_count, m is off_effect_steps_count: 9 or 5, and 10, in *)
(* the default programs.                                                     *)
ASSUME ProgramAssumption ==
    /\ Defaults \in [Programs -> Counts]
    /\ \A p \in Programs : Defaults[p].n >= 3 /\ Defaults[p].m >= 2
    /\ Replacements \subseteq Counts

VARIABLES
    state,          \* led_module.state
    type,           \* led_module.type
    step_id,        \* led_module.step_id
    program,        \* led_module.program: the id of the program in use
    cfg,            \* led_module.cfg: program_id, off_effect_mode
    programs,       \* LED_PROGRAMS: the step counts of every program
    timer,          \* scheduler state of slm_on_timeout
    sensor,         \* inp_get(INPUT_STAIRS_SENSOR)
    relay,          \* the relay RELAY_STAIRCASE_LED
    heard           \* history: the light's last relay write took effect and
                    \* nobody else has switched the relay since

vars == <<state, type, step_id, program, cfg, programs, timer, sensor, relay, heard>>

n == programs[program].n
m == programs[program].m

Init ==
    /\ state = "OFF" /\ type = "NORMAL" /\ step_id = 0
    /\ cfg \in [program_id : Programs, effect : BOOLEAN]
    /\ program = cfg.program_id
    /\ programs = Defaults
    /\ timer = "STOPPED"
    /\ sensor \in {"ACTIVE", "INACTIVE"}
    /\ relay \in {"ON", "OFF"} /\ heard = FALSE

-----------------------------------------------------------------------------
\* On failure the relay keeps its state, or took the new one unacknowledged.
rel_set(s, ok) ==
    /\ heard' = ok
    /\ relay' \in IF ok THEN {s} ELSE {relay, s}

\* Faulty variant: a step is sent and the timer is not armed for the next.
SendStepUnarmed(s, id) ==
    /\ state' = s /\ step_id' = id % ByteMod
    /\ timer' = IF s = "OFF_EFFECT" THEN "STOPPED" ELSE "RUNNING"

\* The new state, and slm_send_step of its step: the timer is armed.
SendStep(s, id) ==
    /\ state' = s /\ step_id' = id % ByteMod
    /\ timer' = "RUNNING"

\* Faulty variant: the fade starts from the program's last step.
StartDisablingLate ==
    IF cfg.effect THEN SendStep("OFF_EFFECT", 0) ELSE SendStep("ONGOING_OFF", n - 1)

\* The light starts to go out, through the OFF effect when it is enabled.
StartDisabling ==
    IF cfg.effect THEN SendStep("OFF_EFFECT", 0) ELSE SendStep("ONGOING_OFF", n - 2)

\* slm_on_timeout by state.  The scheduler stopped the task before the call.
TimeoutOff ==
    /\ state = "OFF"
    /\ timer' = "STOPPED"
    /\ UNCHANGED <<state, step_id, relay, heard>>

\* Faulty variant: an occupied staircase does not re-arm the timer.
TimeoutOnForgets ==
    /\ state = "ON"
    /\ IF sensor = "INACTIVE"
       THEN StartDisabling
       ELSE timer' = "STOPPED" /\ UNCHANGED <<state, step_id>>
    /\ UNCHANGED <<relay, heard>>

TimeoutOn ==
    /\ state = "ON"
    /\ IF sensor = "INACTIVE"
       THEN StartDisabling
       ELSE timer' = "RUNNING" /\ UNCHANGED <<state, step_id>>
    /\ UNCHANGED <<relay, heard>>

TimeoutOffEffect ==
    /\ state = "OFF_EFFECT"
    /\ LET id == (step_id + 1) % ByteMod
       IN  SendStep(IF id = m - 1 THEN "OFF_EFFECT_READY" ELSE state, id)
    /\ UNCHANGED <<relay, heard>>

\* Faulty variant: the step of the effect is kept.
TimeoutEffectReadyKeepsStep ==
    /\ state = "OFF_EFFECT_READY"
    /\ SendStep("ONGOING_OFF", step_id)
    /\ UNCHANGED <<relay, heard>>

TimeoutEffectReady ==
    /\ state = "OFF_EFFECT_READY"
    /\ SendStep("ONGOING_OFF", n - 2)
    /\ UNCHANGED <<relay, heard>>

TimeoutOngoingOff(ok) ==
    /\ state = "ONGOING_OFF"
    /\ LET id == (step_id - 1) % ByteMod
       IN  IF id = 0
           THEN SendStep("OFF", 0) /\ rel_set("OFF", ok)
           ELSE SendStep(state, id) /\ UNCHANGED <<relay, heard>>

\* An always-on program does not time out once it is lit.
TimeoutOngoingOn ==
    /\ state = "ONGOING_ON"
    /\ LET id == (step_id + 1) % ByteMod
       IN  IF id = n - 1
           THEN /\ state' = "ON" /\ step_id' = id
                /\ timer' = IF type = "ALW_ON" THEN "STOPPED" ELSE "RUNNING"
           ELSE SendStep(state, id)
    /\ UNCHANGED <<relay, heard>>

slm_on_timeout(ok) ==
    /\ timer = "RUNNING"
    /\ \/ TimeoutOff \/ TimeoutOn \/ TimeoutOffEffect \/ TimeoutEffectReady
       \/ TimeoutOngoingOff(ok) \/ TimeoutOngoingOn
    /\ UNCHANGED <<type, program, cfg, programs, sensor>>

-----------------------------------------------------------------------------
(* Entry points. *)

slm_run_program(t, ok) ==
    /\ type' = t
    /\ program' = cfg.program_id
    /\ SendStep("ONGOING_ON", 1)
    /\ rel_set("ON", ok)

\* The sensor reports movement.  The states of the effect go back to full
\* light, a fade turns round where it is.
slm_on_sensor_active(ok) ==
    /\ sensor = "INACTIVE" /\ sensor' = "ACTIVE"
    /\ \/ state = "OFF" /\ slm_run_program("NORMAL", ok)
       \/ /\ \/ state = "ONGOING_OFF" /\ SendStep("ONGOING_ON", step_id)
             \/ state \in {"OFF_EFFECT", "OFF_EFFECT_READY"} /\ SendStep("ON", n - 1)
             \/ state \in {"ON", "ONGOING_ON"} /\ UNCHANGED <<state, step_id, timer>>
          /\ UNCHANGED <<type, program, relay, heard>>
    /\ UNCHANGED <<cfg, programs>>

\* No movement any more: slm_on_sensor_state_change ignores it.
slm_on_sensor_inactive ==
    /\ sensor = "ACTIVE" /\ sensor' = "INACTIVE"
    /\ UNCHANGED <<state, type, step_id, program, cfg, programs, timer, relay, heard>>

\* slm_start_program and slm_start_program_alw_on.
slm_start_program(t, ok) ==
    /\ state = "OFF"
    /\ slm_run_program(t, ok)
    /\ UNCHANGED <<cfg, programs, sensor>>

slm_stop_program ==
    /\ state = "ON"
    /\ StartDisabling
    /\ UNCHANGED <<type, program, cfg, programs, sensor, relay, heard>>

\* Faulty variant: the id is not compared with the last one.
slm_set_any_program_id(id) ==
    /\ state = "OFF"
    /\ \E i \in {id, "past the last"} : cfg' = [cfg EXCEPT !.program_id = i]
    /\ UNCHANGED <<state, type, step_id, program, programs, timer, sensor, relay, heard>>

slm_set_current_program_id(id) ==
    /\ state = "OFF"
    /\ cfg' = [cfg EXCEPT !.program_id = id]
    /\ UNCHANGED <<state, type, step_id, program, programs, timer, sensor, relay, heard>>

\* Faulty variant: the program in use may be replaced.
slm_replace_any_program(id, counts) ==
    /\ programs' = [programs EXCEPT ![id] = counts]
    /\ UNCHANGED <<state, type, step_id, program, cfg, timer, sensor, relay, heard>>

\* slm_is_program_valid looks at periods, not at the numbers of steps.
slm_replace_program(id, counts) ==
    /\ id # cfg.program_id \/ state = "OFF"
    /\ programs' = [programs EXCEPT ![id] = counts]
    /\ UNCHANGED <<state, type, step_id, program, cfg, timer, sensor, relay, heard>>

\* A phone or the terminal sets the relay, a write of another relay takes it
\* along, or the board loses its power: the light is told nothing.
OthersSwitch ==
    /\ relay' \in {"ON", "OFF"} \ {relay} /\ heard' = FALSE
    /\ UNCHANGED <<state, type, step_id, program, cfg, programs, timer, sensor>>

Next ==
    \/ \E ok \in BOOLEAN :
          \/ slm_on_timeout(ok)
          \/ slm_on_sensor_active(ok)
          \/ \E t \in {"NORMAL", "ALW_ON"} : slm_start_program(t, ok)
    \/ slm_on_sensor_inactive
    \/ slm_stop_program
    \/ OthersSwitch
    \/ \E id \in Programs :
          \/ slm_set_current_program_id(id)
          \/ \E counts \in Replacements : slm_replace_program(id, counts)

Spec == Init /\ [][Next]_vars

\* The scheduler calls a running TRIGGER task (RunningTaskCalled of
\* TaskScheduler) that is not restarted again and again: every restart here
\* comes with a step of the program, and LightGoesOut rules out the sensor.
Fairness == WF_vars(\E ok \in BOOLEAN : slm_on_timeout(ok))

FairSpec == Spec /\ Fairness

-----------------------------------------------------------------------------
(* Properties. *)

\* Every variable has its type (SLM_MODULE, stairs_led_module.c).
TypeOK ==
    /\ state \in States /\ type \in {"NORMAL", "ALW_ON"}
    /\ step_id \in 0..(ByteMod - 1)
    /\ program \in Programs
    /\ cfg \in [program_id : Programs, effect : BOOLEAN]
    /\ programs \in [Programs -> Counts]
    /\ timer \in {"RUNNING", "STOPPED"}
    /\ sensor \in {"ACTIVE", "INACTIVE"}
    /\ relay \in {"ON", "OFF"} /\ heard \in BOOLEAN

(* step_id is a step of the list that the state plays, and the one where the *)
(* state belongs: the three ways into a fade, two ways out of the effect and *)
(* the counting up and down agree about it (program_steps_count: "Number of  *)
(* programs steps", stairs_led_module.h).                                    *)
StepInProgram ==
    /\ state = "OFF"              => step_id = 0
    /\ state = "ON"               => step_id = n - 1
    /\ state \in {"ONGOING_ON", "ONGOING_OFF"} => step_id \in 1..(n - 2)
    /\ state = "OFF_EFFECT"       => step_id \in 0..(m - 2)
    /\ state = "OFF_EFFECT_READY" => step_id = m - 1

(* A light that is not dark has its timer armed, so it does not freeze in    *)
(* the middle of a program; only the always-on light rests.                  *)
TimerArmed ==
    (state # "OFF" /\ timer = "STOPPED") => (state = "ON" /\ type = "ALW_ON")

(* The program in use is the configured one and its steps do not change      *)
(* under the light: step_id stays an index of the list that it was taken of. *)
ProgramStable ==
    [][(state # "OFF" /\ state' # "OFF") => (n' = n /\ m' = m)]_vars

(* "Program is stopped automatically" (slm_start_program): with the stairs   *)
(* deserted and no always-on request, the light goes out again and again,    *)
(* whatever the users start, stop and select.                                *)
LightGoesOut ==
    <>[](sensor = "INACTIVE" /\ type = "NORMAL") => []<>(state = "OFF")

\* The brightness, and where it is heading: the OFF effect is full light.
Level == IF state \in {"OFF_EFFECT", "OFF_EFFECT_READY"} THEN n - 1 ELSE step_id

Goal ==
    CASE state = "OFF"         -> "dark"
      [] state = "ONGOING_ON"  -> "up"
      [] state = "ONGOING_OFF" -> "down"
      [] OTHER                 -> "full"

Fade == INSTANCE LightFade WITH
    Tops  <- {Defaults[p].n - 1 : p \in Programs} \cup {c.n - 1 : c \in Replacements},
    level <- Level, top <- n - 1, goal <- Goal, power <- relay, heard <- heard

(* The light fades as LightFade says: a level at a time between dark and     *)
(* full, turning round only on the way down; the relay is switched with the  *)
(* first level and with the last, never in between, and follows the light    *)
(* from a write that took effect until somebody else switches it.  A program *)
(* of n steps has the top n - 1.                                             *)
ImplementsFade == Fade!FadeSpec
=============================================================================
