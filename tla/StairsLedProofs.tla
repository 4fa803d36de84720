--------------------------- MODULE StairsLedProofs ---------------------------
(***************************************************************************)
(* Theorems about StairsLed, for any number of programs of any length that *)
(* leaves every state of the light a step of its own.                      *)
(***************************************************************************)
EXTENDS StairsLed, TLAPS

(* Programs that replace another have three steps and an effect of two, at   *)
(* least, as the default programs do; slm_is_program_valid does not check it.*)
LongEnough == \A c \in Replacements : c.n >= 3 /\ c.m >= 2

-----------------------------------------------------------------------------
(* The inductive invariant.  StepInProgram needs the lengths of all          *)
(* programs, and ProgramStable that a lit light plays the configured one.    *)

ProgramsLong == \A p \in Programs : programs[p].n >= 3 /\ programs[p].m >= 2

ConfiguredInUse == state # "OFF" => program = cfg.program_id

StairsInv ==
    TypeOK /\ ProgramsLong /\ ConfiguredInUse /\ StepInProgram /\ TimerArmed

\* The numbers of steps of the program in use.
LEMMA CountsInUse ==
    ASSUME TypeOK, ProgramsLong
    PROVE  n \in 3..(ByteMod - 1) /\ m \in 2..(ByteMod - 1)
BY DEF TypeOK, ProgramsLong, Counts, n, m, ByteMod

\* The light starts dark, with the default programs.
LEMMA InitStairsInv == Init => StairsInv
<1> SUFFICES ASSUME Init PROVE StairsInv
    OBVIOUS
<1>1. TypeOK
  <2>1. heard \in BOOLEAN
      BY Zenon DEF Init
  <2>2. QED BY <2>1, ProgramAssumption DEF Init, TypeOK, States, ByteMod
<1>2. ProgramsLong
    BY ProgramAssumption DEF Init, ProgramsLong
<1>3. ConfiguredInUse /\ StepInProgram /\ TimerArmed
    BY DEF Init, ConfiguredInUse, StepInProgram, TimerArmed
<1>4. QED BY <1>1, <1>2, <1>3 DEF StairsInv

\* What a step of the program does to state, step and timer: every timeout and
\* every stop keeps StepInProgram and TimerArmed.
LEMMA SentStep ==
    ASSUME StairsInv, UNCHANGED <<program, programs>>, type' \in {"NORMAL", "ALW_ON"},
           NEW s \in States, NEW id \in Int, SendStep(s, id),
           s = "OFF" => id = 0,
           s = "ON" => id = n - 1,
           s \in {"ONGOING_ON", "ONGOING_OFF"} => id \in 1..(n - 2),
           s = "OFF_EFFECT" => id \in 0..(m - 2),
           s = "OFF_EFFECT_READY" => id = m - 1
    PROVE  /\ state' \in States /\ step_id' \in 0..(ByteMod - 1) /\ step_id' = id
           /\ timer' = "RUNNING"
           /\ StepInProgram' /\ TimerArmed'
<1>1. n' = n /\ m' = m /\ n \in 3..(ByteMod - 1) /\ m \in 2..(ByteMod - 1)
    BY CountsInUse DEF StairsInv, n, m
<1>2. id \in 0..(ByteMod - 1)
    BY <1>1 DEF States, ByteMod
<1>3. step_id' = id /\ state' = s /\ timer' = "RUNNING"
    BY <1>2 DEF SendStep, ByteMod
<1>4. QED BY <1>1, <1>2, <1>3 DEF StepInProgram, TimerArmed

\* The step of the scheduler's callback keeps the invariant.
LEMMA TimeoutStairsInv ==
    ASSUME StairsInv, NEW ok \in BOOLEAN, slm_on_timeout(ok)
    PROVE  StairsInv'
<1> USE DEF ByteMod
<1>1. /\ n \in 3..(ByteMod - 1) /\ m \in 2..(ByteMod - 1)
      /\ TypeOK /\ StepInProgram
    BY CountsInUse DEF StairsInv
<1>2. /\ UNCHANGED <<type, program, cfg, programs, sensor>>
      /\ timer = "RUNNING"
    BY DEF slm_on_timeout
<1>3. n' = n /\ m' = m
    BY <1>2 DEF n, m
<1> DEFINE Stepped ==
        /\ state' \in States /\ step_id' \in 0..(ByteMod - 1)
        /\ timer' \in {"RUNNING", "STOPPED"}
        /\ relay' \in {"ON", "OFF"} /\ heard' \in BOOLEAN
        /\ state = "OFF" => state' = "OFF"
        /\ StepInProgram' /\ TimerArmed'
<1>4. Stepped
  <2>1. CASE TimeoutOff
      BY <1>1, <1>2, <1>3, <2>1 DEF TimeoutOff, TypeOK, StepInProgram, TimerArmed
  <2>2. CASE TimeoutOn
    <3>1. CASE sensor = "INACTIVE"
        BY SentStep, <1>1, <1>2, <2>2, <3>1
        DEF TimeoutOn, StartDisabling, TypeOK, States
    <3>2. CASE sensor # "INACTIVE"
        BY <1>1, <1>2, <1>3, <2>2, <3>2 DEF TimeoutOn, TypeOK, StepInProgram, TimerArmed
    <3>3. QED BY <3>1, <3>2
  <2>3. CASE TimeoutOffEffect
    <3>1. (step_id + 1) % ByteMod = step_id + 1 /\ step_id + 1 \in 1..(m - 1)
        BY <1>1, <2>3 DEF TimeoutOffEffect, StepInProgram
    <3>2. QED
        BY SentStep, <1>1, <1>2, <2>3, <3>1 DEF TimeoutOffEffect, TypeOK, States
  <2>4. CASE TimeoutEffectReady
      BY SentStep, <1>1, <1>2, <2>4 DEF TimeoutEffectReady, TypeOK, States
  <2>5. CASE TimeoutOngoingOff(ok)
    <3>1. (step_id - 1) % ByteMod = step_id - 1 /\ step_id - 1 \in 0..(n - 3)
        BY <1>1, <2>5 DEF TimeoutOngoingOff, StepInProgram
    <3>2. CASE step_id = 1
        BY SentStep, <1>1, <1>2, <2>5, <3>1, <3>2
        DEF TimeoutOngoingOff, TypeOK, States, rel_set
    <3>3. CASE step_id # 1
        BY SentStep, <1>1, <1>2, <2>5, <3>1, <3>3 DEF TimeoutOngoingOff, TypeOK, States
    <3>4. QED BY <3>2, <3>3
  <2>6. CASE TimeoutOngoingOn
    <3>1. (step_id + 1) % ByteMod = step_id + 1 /\ step_id + 1 \in 2..(n - 1)
        BY <1>1, <2>6 DEF TimeoutOngoingOn, StepInProgram
    <3>2. CASE step_id + 1 = n - 1
        BY <1>1, <1>2, <1>3, <2>6, <3>1, <3>2
        DEF TimeoutOngoingOn, TypeOK, States, StepInProgram, TimerArmed
    <3>3. CASE step_id + 1 # n - 1
        BY SentStep, <1>1, <1>2, <2>6, <3>1, <3>3 DEF TimeoutOngoingOn, TypeOK, States
    <3>4. QED BY <3>2, <3>3
  <2>7. QED
      BY <2>1, <2>2, <2>3, <2>4, <2>5, <2>6 DEF slm_on_timeout
<1>5. QED
    BY <1>2, <1>4 DEF StairsInv, TypeOK, ProgramsLong, ConfiguredInUse

\* Starting a program, for the user or for the sensor.
LEMMA RunStairsInv ==
    ASSUME StairsInv, NEW ok \in BOOLEAN, NEW t \in {"NORMAL", "ALW_ON"},
           slm_run_program(t, ok), UNCHANGED <<cfg, programs>>,
           sensor' \in {"ACTIVE", "INACTIVE"}
    PROVE  StairsInv'
<1> USE DEF ByteMod
<1>1. program' \in Programs /\ programs' = programs /\ TypeOK /\ ProgramsLong
    BY DEF StairsInv, TypeOK, slm_run_program
<1>2. TypeOK'
    BY <1>1 DEF slm_run_program, SendStep, rel_set, TypeOK, States
<1>3. n' \in 3..(ByteMod - 1) /\ m' \in 2..(ByteMod - 1)
    BY <1>1 DEF TypeOK, ProgramsLong, Counts, n, m
<1>4. StepInProgram' /\ TimerArmed'
  <2>1. state' = "ONGOING_ON" /\ step_id' = 1 /\ timer' = "RUNNING"
      BY DEF slm_run_program, SendStep
  <2>2. 1 \in 1..(n' - 2)
      BY <1>3 DEF n
  <2>3. QED BY <2>1, <2>2 DEF StepInProgram, TimerArmed
<1>5. ProgramsLong' /\ ConfiguredInUse'
    BY <1>1 DEF ProgramsLong, ConfiguredInUse, slm_run_program
<1>6. QED BY <1>2, <1>4, <1>5 DEF StairsInv

\* The sensor keeps the invariant.
LEMMA SensorStairsInv ==
    ASSUME StairsInv, NEW ok \in BOOLEAN, slm_on_sensor_active(ok)
    PROVE  StairsInv'
<1>1. CASE state = "OFF"
    BY <1>1, RunStairsInv DEF slm_on_sensor_active
<1>2. CASE state # "OFF"
  <2>1. UNCHANGED <<type, program, relay, heard, cfg, programs>> /\ sensor' = "ACTIVE"
      BY <1>2 DEF slm_on_sensor_active
  <2>2. n \in 3..(ByteMod - 1) /\ m \in 2..(ByteMod - 1) /\ n' = n /\ m' = m
      BY CountsInUse, <2>1 DEF StairsInv, n, m
  <2>3. CASE state \in {"ON", "ONGOING_ON"}
      BY <2>1, <2>2, <2>3
      DEF slm_on_sensor_active, StairsInv, TypeOK, States, ProgramsLong, ConfiguredInUse,
          StepInProgram, TimerArmed
  <2>4. CASE state = "ONGOING_OFF"
      BY SentStep, <2>1, <2>2, <2>4
      DEF slm_on_sensor_active, StairsInv, TypeOK, States, ProgramsLong, ConfiguredInUse,
          StepInProgram, ByteMod
  <2>5. CASE state \in {"OFF_EFFECT", "OFF_EFFECT_READY"}
      BY SentStep, <2>1, <2>2, <2>5
      DEF slm_on_sensor_active, StairsInv, TypeOK, States, ProgramsLong, ConfiguredInUse, ByteMod
  <2>6. QED
      BY <1>2, <2>3, <2>4, <2>5 DEF StairsInv, TypeOK, States
<1>3. QED BY <1>1, <1>2

\* A dark light may change its program, and any program that is not in use may
\* be replaced.
LEMMA ReplaceStairsInv ==
    ASSUME LongEnough, StairsInv, NEW id \in Programs, NEW counts \in Replacements,
           slm_replace_program(id, counts)
    PROVE  StairsInv'
<1>1. counts \in Counts /\ counts.n >= 3 /\ counts.m >= 2
    BY ProgramAssumption DEF LongEnough
<1>2. TypeOK' /\ ProgramsLong' /\ ConfiguredInUse' /\ TimerArmed'
    BY <1>1 DEF slm_replace_program, StairsInv, TypeOK, ProgramsLong, ConfiguredInUse, TimerArmed
<1>3. state # "OFF" => (n' = n /\ m' = m)
    BY DEF slm_replace_program, StairsInv, ConfiguredInUse, TypeOK, n, m
<1>4. StepInProgram'
    BY <1>3 DEF slm_replace_program, StairsInv, TypeOK, StepInProgram
<1>5. QED BY <1>2, <1>4 DEF StairsInv

\* The invariant is inductive.
LEMMA NextStairsInv ==
    ASSUME LongEnough
    PROVE  StairsInv /\ [Next]_vars => StairsInv'
<1> SUFFICES ASSUME StairsInv, [Next]_vars PROVE StairsInv'
    OBVIOUS
<1>1. ASSUME NEW ok \in BOOLEAN, NEW t \in {"NORMAL", "ALW_ON"}, slm_start_program(t, ok)
      PROVE  StairsInv'
    BY RunStairsInv, <1>1 DEF slm_start_program, StairsInv, TypeOK
<1>2. CASE slm_on_sensor_inactive \/ OthersSwitch \/ UNCHANGED vars
    BY <1>2 DEF slm_on_sensor_inactive, OthersSwitch, vars, StairsInv, TypeOK, ProgramsLong,
                ConfiguredInUse, StepInProgram, TimerArmed, n, m
<1>3. CASE slm_stop_program
  <2>1. n \in 3..(ByteMod - 1) /\ m \in 2..(ByteMod - 1)
      BY CountsInUse DEF StairsInv
  <2>2. QED
      BY SentStep, <1>3, <2>1
      DEF slm_stop_program, StartDisabling, StairsInv, TypeOK, States, ProgramsLong,
          ConfiguredInUse, ByteMod
<1>4. ASSUME NEW id \in Programs, slm_set_current_program_id(id)
      PROVE  StairsInv'
    BY <1>4 DEF slm_set_current_program_id, StairsInv, TypeOK, ProgramsLong,
                ConfiguredInUse, StepInProgram, TimerArmed, n, m
<1>5. QED
    BY <1>1, <1>2, <1>3, <1>4, TimeoutStairsInv, SensorStairsInv, ReplaceStairsInv DEF Next

\* The invariant holds of every reachable state.
LEMMA StairsInvariant ==
    ASSUME LongEnough
    PROVE  Spec => []StairsInv
<1>1. QED BY InitStairsInv, NextStairsInv, PTL DEF Spec

(* Every variable keeps its type: the count of a light that is going out, of *)
(* an effect that plays and of a sensor that interrupts either stay in the   *)
(* byte that the code has for them.                                          *)
THEOREM TypeCorrect ==
    ASSUME LongEnough
    PROVE  Spec => []TypeOK
<1>1. StairsInv => TypeOK
    BY DEF StairsInv
<1>2. QED BY <1>1, StairsInvariant, PTL

(* step_id is the step that the state plays, for programs of any lengths:    *)
(* the count down from the last step, the effect's own count and the turns   *)
(* that the sensor takes between them never leave the list in use.           *)
THEOREM StepsInProgram ==
    ASSUME LongEnough
    PROVE  Spec => []StepInProgram
<1>1. StairsInv => StepInProgram
    BY DEF StairsInv
<1>2. QED BY <1>1, StairsInvariant, PTL

(* No light freezes: only the always-on light rests without a timer.         *)
THEOREM LitLightsAreTimed ==
    ASSUME LongEnough
    PROVE  Spec => []TimerArmed
<1>1. StairsInv => TimerArmed
    BY DEF StairsInv
<1>2. QED BY <1>1, StairsInvariant, PTL

-----------------------------------------------------------------------------
(* Action properties, from the same invariant. *)

\* No step changes the numbers of steps of a program that stays lit.
LEMMA StableStep ==
    StairsInv /\ [Next]_vars => [(state # "OFF" /\ state' # "OFF") => (n' = n /\ m' = m)]_vars
<1> SUFFICES ASSUME StairsInv, Next, state # "OFF"
             PROVE  n' = n /\ m' = m
    OBVIOUS
<1>1. CASE UNCHANGED <<program, programs>>
    BY <1>1 DEF n, m
<1>2. ASSUME NEW id \in Programs, NEW counts \in Replacements, slm_replace_program(id, counts)
      PROVE  n' = n /\ m' = m
    BY <1>2 DEF slm_replace_program, StairsInv, ConfiguredInUse, TypeOK, n, m
<1>3. QED
    BY <1>1, <1>2 DEF Next, slm_on_timeout, slm_on_sensor_active, slm_start_program,
       slm_on_sensor_inactive, slm_stop_program, slm_set_current_program_id, OthersSwitch

(* A lit light keeps its program's steps, whatever is selected or replaced.  *)
THEOREM LitProgramsAreStable ==
    ASSUME LongEnough
    PROVE  Spec => ProgramStable
<1>1. QED BY StableStep, StairsInvariant, PTL DEF Spec, ProgramStable

-----------------------------------------------------------------------------
(* The light implements LightFade. *)

FadeTops == {Defaults[p].n - 1 : p \in Programs} \cup {c.n - 1 : c \in Replacements}

\* The programs are default ones or replacements.
ProgramsKnown ==
    programs \in [Programs -> {Defaults[p] : p \in Programs} \cup Replacements]

FadeInv == StairsInv /\ ProgramsKnown

\* The invariant of the refinement holds of every reachable state.
LEMMA FadeInvariant ==
    ASSUME LongEnough
    PROVE  Spec => []FadeInv
<1>1. Init => ProgramsKnown
    BY ProgramAssumption DEF Init, ProgramsKnown
<1>2. ProgramsKnown /\ [Next]_vars => ProgramsKnown'
  <2> SUFFICES ASSUME ProgramsKnown, [Next]_vars PROVE ProgramsKnown'
      OBVIOUS
  <2>1. ASSUME NEW id \in Programs, NEW counts \in Replacements,
               slm_replace_program(id, counts)
        PROVE  ProgramsKnown'
      BY <2>1 DEF slm_replace_program, ProgramsKnown
  <2>2. CASE UNCHANGED programs
      BY <2>2 DEF ProgramsKnown
  <2>3. QED
      BY <2>1, <2>2 DEF Next, vars, slm_on_timeout, slm_on_sensor_active, slm_start_program,
         slm_on_sensor_inactive, slm_stop_program, slm_set_current_program_id, OthersSwitch
<1>3. QED BY <1>1, <1>2, StairsInvariant, PTL DEF Spec, FadeInv

\* The full brightness of the program in use is one of the abstract tops.
LEMMA TopIsKnown == FadeInv => n - 1 \in FadeTops
BY ProgramAssumption DEF FadeInv, StairsInv, TypeOK, ProgramsKnown, FadeTops, n

\* A relay write asks for power, or gives it up.
LEMMA WriteAsks ==
    ASSUME NEW s \in {"ON", "OFF"}, NEW ok \in BOOLEAN, rel_set(s, ok)
    PROVE  Fade!Ask(s)
<1>1. CASE ok
    BY <1>1 DEF rel_set, Fade!Ask
<1>2. CASE ~ok
    BY <1>2 DEF rel_set, Fade!Ask
<1>3. QED BY <1>1, <1>2

\* Every timeout is a step of the fade or leaves the brightness alone.
LEMMA TimeoutFades ==
    ASSUME FadeInv, NEW ok \in BOOLEAN, slm_on_timeout(ok)
    PROVE  [Fade!FadeNext]_(Fade!fade)
<1> USE DEF Fade!fade, Fade!FadeNext
<1>1. /\ n \in 3..(ByteMod - 1) /\ m \in 2..(ByteMod - 1)
      /\ TypeOK /\ StepInProgram
    BY CountsInUse DEF FadeInv, StairsInv
<1>2. n' = n /\ m' = m
    BY DEF slm_on_timeout, n, m
<1>3. CASE TimeoutOff \/ TimeoutOffEffect
    BY <1>1, <1>2, <1>3
    DEF TimeoutOff, TimeoutOffEffect, SendStep, Level, Goal, ByteMod, StepInProgram
<1>4. CASE TimeoutOn
    BY <1>1, <1>2, <1>4
    DEF TimeoutOn, StartDisabling, SendStep, Level, Goal, ByteMod, StepInProgram,
        Fade!StartDimming
<1>5. CASE TimeoutEffectReady
    BY <1>1, <1>2, <1>5
    DEF TimeoutEffectReady, SendStep, Level, Goal, ByteMod, Fade!StartDimming
<1>6. CASE TimeoutOngoingOff(ok)
  <2>1. (step_id - 1) % ByteMod = step_id - 1 /\ step_id \in 1..(n - 2)
      BY <1>1, <1>6 DEF TimeoutOngoingOff, StepInProgram, ByteMod
  <2>2. CASE step_id = 1
    <3>1. state' = "OFF" /\ step_id' = 0 /\ rel_set("OFF", ok)
        BY <1>6, <2>1, <2>2 DEF TimeoutOngoingOff, SendStep, ByteMod
    <3>2. Fade!Ask("OFF")
        BY <3>1, WriteAsks
    <3>3. QED
        BY <1>2, <1>6, <2>2, <3>1, <3>2 DEF TimeoutOngoingOff, Level, Goal, Fade!SwitchOff
  <2>3. CASE step_id # 1
    <3>1. state' = "ONGOING_OFF" /\ step_id' = step_id - 1 /\ UNCHANGED <<relay, heard>>
        BY <1>1, <1>6, <2>1, <2>3 DEF TimeoutOngoingOff, SendStep, ByteMod
    <3>2. QED
        BY <1>2, <1>6, <2>1, <2>3, <3>1 DEF TimeoutOngoingOff, Level, Goal, Fade!Dim
  <2>4. QED BY <2>2, <2>3
<1>7. CASE TimeoutOngoingOn
    BY <1>1, <1>2, <1>7
    DEF TimeoutOngoingOn, SendStep, Level, Goal, ByteMod, StepInProgram,
        Fade!Brighten, Fade!Towards
<1>8. QED
    BY <1>3, <1>4, <1>5, <1>6, <1>7 DEF slm_on_timeout

\* A started program is a light switched on.
LEMMA RunFades ==
    ASSUME FadeInv, FadeInv', state = "OFF",
           NEW ok \in BOOLEAN, NEW t \in {"NORMAL", "ALW_ON"}, slm_run_program(t, ok)
    PROVE  Fade!FadeNext
<1>1. (n - 1)' \in FadeTops
    BY ProgramAssumption DEF FadeInv, StairsInv, TypeOK, ProgramsKnown, FadeTops, n
<1>2. Fade!Ask("ON")
    BY WriteAsks DEF slm_run_program
<1>3. QED
    BY <1>1, <1>2 DEF slm_run_program, SendStep, Level, Goal, ByteMod, FadeTops,
                Fade!FadeNext, Fade!SwitchOn

\* Movement switches the light on, turns its fade round, or ends the OFF effect.
LEMMA SensorFades ==
    ASSUME FadeInv, FadeInv', NEW ok \in BOOLEAN, slm_on_sensor_active(ok)
    PROVE  [Fade!FadeNext]_(Fade!fade)
<1>1. CASE state = "OFF"
    BY <1>1, RunFades DEF slm_on_sensor_active
<1>2. CASE state # "OFF"
  <2>1. n \in 3..(ByteMod - 1) /\ TypeOK /\ StepInProgram
      BY CountsInUse DEF FadeInv, StairsInv
  <2>2. UNCHANGED <<program, programs, relay, heard>> /\ n' = n
      BY <1>2 DEF slm_on_sensor_active, n
  <2>3. CASE state = "ONGOING_OFF"
      BY <2>1, <2>2, <2>3
      DEF slm_on_sensor_active, SendStep, Level, Goal, ByteMod, StepInProgram,
          Fade!FadeNext, Fade!TurnRound
  <2>4. CASE state \in {"OFF_EFFECT", "OFF_EFFECT_READY"}
    <3>1. SendStep("ON", n - 1)
        BY <2>4 DEF slm_on_sensor_active
    <3>2. (n - 1) % ByteMod = n - 1
        BY <2>1 DEF ByteMod
    <3>3. state' = "ON" /\ step_id' = n - 1
        BY <3>1, <3>2 DEF SendStep
    <3>4. QED BY <2>2, <2>4, <3>3 DEF Level, Goal, Fade!fade
  <2>5. CASE state \in {"ON", "ONGOING_ON"}
      BY <2>2, <2>5 DEF slm_on_sensor_active, Level, Goal, Fade!fade
  <2>6. QED
      BY <1>2, <2>1, <2>3, <2>4, <2>5 DEF TypeOK, States
<1>3. QED BY <1>1, <1>2

\* Every step of the light is one of the fade or leaves it alone.
LEMMA NextFades ==
    FadeInv /\ FadeInv' /\ [Next]_vars => [Fade!FadeNext]_(Fade!fade)
<1> SUFFICES ASSUME FadeInv, FadeInv', [Next]_vars
             PROVE  [Fade!FadeNext]_(Fade!fade)
    OBVIOUS
<1>1. ASSUME NEW ok \in BOOLEAN, NEW t \in {"NORMAL", "ALW_ON"}, slm_start_program(t, ok)
      PROVE  Fade!FadeNext
    BY <1>1, RunFades DEF slm_start_program
<1>2. CASE slm_stop_program
  <2>1. n \in 3..(ByteMod - 1) /\ TypeOK /\ StepInProgram
      BY CountsInUse DEF FadeInv, StairsInv
  <2>2. n' = n
      BY <1>2 DEF slm_stop_program, n
  <2>3. QED
      BY <1>2, <2>1, <2>2
      DEF slm_stop_program, StartDisabling, SendStep, Level, Goal, ByteMod, StepInProgram,
          Fade!fade, Fade!FadeNext, Fade!StartDimming
<1>3. CASE state = "OFF" /\ UNCHANGED <<state, step_id, relay, heard>>
  <2>1. (n - 1)' \in FadeTops
      BY ProgramAssumption DEF FadeInv, StairsInv, TypeOK, ProgramsKnown, FadeTops, n
  <2>2. QED
      BY <1>3, <2>1 DEF Level, Goal, FadeTops, Fade!FadeNext, Fade!SelectTop
<1>4. CASE state # "OFF" /\ UNCHANGED <<state, step_id, relay, heard, program>> /\ n' = n
    BY <1>4 DEF Level, Goal, Fade!fade
<1>5. ASSUME NEW id \in Programs, NEW counts \in Replacements, slm_replace_program(id, counts),
             state # "OFF"
      PROVE  n' = n
    BY <1>5 DEF slm_replace_program, FadeInv, StairsInv, ConfiguredInUse, TypeOK, n
<1>6. CASE slm_on_sensor_inactive \/ UNCHANGED vars
    BY <1>6 DEF slm_on_sensor_inactive, vars, Level, Goal, n, Fade!fade
<1>7. CASE OthersSwitch
    BY <1>7 DEF OthersSwitch, Level, Goal, n, Fade!FadeNext, Fade!OthersSwitchPower
<1>8. QED
    BY <1>1, <1>2, <1>3, <1>4, <1>5, <1>6, <1>7, TimeoutFades, SensorFades
    DEF Next, slm_set_current_program_id, slm_replace_program

(* The light implements LightFade, for any number of programs of any         *)
(* lengths: seen from the stairs, all the ways through the states are one    *)
(* fade at a time, which switches the relay at its two ends only, whatever   *)
(* becomes of those writes and whoever else switches it (slm_on_timeout,     *)
(* slm_run_program, slm_on_sensor_state_change).                             *)
THEOREM LightFades ==
    ASSUME LongEnough
    PROVE  Spec => ImplementsFade
<1>1. Init /\ FadeInv => Fade!FadeInit
    BY TopIsKnown DEF Init, Level, Goal, FadeTops, Fade!FadeInit
<1>2. QED
    BY <1>1, FadeInvariant, NextFades, PTL DEF Spec, ImplementsFade, Fade!FadeSpec

\* The power that the light got and nobody took is the one it needs.
PowerFollows == heard => (relay = "ON" <=> state # "OFF")

(* From a relay write that took effect until somebody else switches the      *)
(* relay, the LEDs have power exactly while the light is not dark: no way    *)
(* through the states needs a write that it does not make.                   *)
THEOREM PowerFollowsLight ==
    ASSUME LongEnough
    PROVE  Spec => []PowerFollows
<1>1. Init => PowerFollows
    BY DEF Init, PowerFollows
<1>2. StairsInv /\ PowerFollows /\ [Next]_vars => PowerFollows'
  <2> SUFFICES ASSUME StairsInv, PowerFollows, [Next]_vars PROVE PowerFollows'
      OBVIOUS
  <2>1. ASSUME NEW ok \in BOOLEAN, NEW s \in {"ON", "OFF"}, rel_set(s, ok),
               s = "ON" <=> state' # "OFF"
        PROVE  PowerFollows'
      BY <2>1 DEF rel_set, PowerFollows
  <2>2. CASE UNCHANGED <<relay, heard>> /\ (state' = "OFF" <=> state = "OFF")
      BY <2>2 DEF PowerFollows
  <2>3. CASE OthersSwitch
      BY <2>3 DEF OthersSwitch, PowerFollows
  <2>4. ASSUME NEW ok \in BOOLEAN, slm_on_timeout(ok) PROVE PowerFollows'
    <3>1. CASE TimeoutOngoingOff(ok)
        BY <2>1, <2>2, <3>1 DEF TimeoutOngoingOff, SendStep
    <3>2. CASE ~TimeoutOngoingOff(ok)
        BY <2>2, <2>4, <3>2
        DEF slm_on_timeout, TimeoutOff, TimeoutOn, StartDisabling, TimeoutOffEffect,
            TimeoutEffectReady, TimeoutOngoingOn, SendStep
    <3>3. QED BY <3>1, <3>2
  <2>5. ASSUME NEW ok \in BOOLEAN, NEW t \in {"NORMAL", "ALW_ON"}, slm_run_program(t, ok)
        PROVE  PowerFollows'
      BY <2>1, <2>5 DEF slm_run_program, SendStep
  <2>6. ASSUME NEW ok \in BOOLEAN, slm_on_sensor_active(ok) PROVE PowerFollows'
      BY <2>2, <2>5, <2>6 DEF slm_on_sensor_active, SendStep
  <2>7. CASE slm_stop_program
      BY <2>2, <2>7 DEF slm_stop_program, StartDisabling, SendStep
  <2>8. QED
      BY <2>2, <2>3, <2>4, <2>5, <2>6, <2>7
      DEF Next, vars, slm_start_program, slm_on_sensor_inactive, slm_set_current_program_id,
          slm_replace_program
<1>3. QED BY <1>1, <1>2, StairsInvariant, PTL DEF Spec
=============================================================================
