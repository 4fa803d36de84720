------------------------------ MODULE LightFade ------------------------------
(***************************************************************************)
(* What the stairs light promises: it fades.  The light is a brightness    *)
(* between dark (0) and full, the top of the program in use, and it gets   *)
(* from one to the other a level at a time.  Only a fade that has begun    *)
(* may be turned round; only a dark light changes its program.             *)
(*                                                                         *)
(* It asks for power with its first level and gives it up with its last.   *)
(* The relay may not hear it, and others switch the relay as they like:    *)
(* the light promises nothing of the power then, and to ask again with the *)
(* next fade.                                                              *)
(***************************************************************************)
EXTENDS Naturals

CONSTANT Tops       \* the full brightnesses of the programs, 2 or more

VARIABLES
    level,          \* the brightness
    top,            \* the full brightness of the program in use
    goal,           \* where the fade is heading
    power,          \* the relay of the LEDs
    heard           \* the power is what the light asked for last

fade == <<level, top, goal, power, heard>>

FadeInit ==
    /\ level = 0 /\ goal = "dark"
    /\ top \in Tops
    /\ power \in {"ON", "OFF"} /\ heard = FALSE

Ask(p) ==
    \/ power' = p /\ heard' = TRUE
    \/ power' \in {power, p} /\ heard' = FALSE

SelectTop ==
    /\ goal = "dark"
    /\ top' \in Tops
    /\ UNCHANGED <<level, goal, power, heard>>

\* Reaching the top ends the fade.
Towards(l) == IF l = top' THEN "full" ELSE "up"

SwitchOn ==
    /\ goal = "dark"
    /\ top' \in Tops
    /\ level' = 1 /\ goal' = "up" /\ Ask("ON")

Brighten ==
    /\ goal = "up"
    /\ level' = level + 1
    /\ goal' = Towards(level + 1)
    /\ UNCHANGED <<top, power, heard>>

StartDimming ==
    /\ goal = "full"
    /\ level' = top - 1 /\ goal' = "down"
    /\ UNCHANGED <<top, power, heard>>

Dim ==
    /\ goal = "down" /\ level > 1
    /\ level' = level - 1
    /\ UNCHANGED <<top, goal, power, heard>>

SwitchOff ==
    /\ goal = "down" /\ level = 1
    /\ level' = 0 /\ goal' = "dark" /\ Ask("OFF")
    /\ UNCHANGED top

TurnRound ==
    /\ goal = "down" /\ goal' = "up"
    /\ UNCHANGED <<level, top, power, heard>>

OthersSwitchPower ==
    /\ power' \in {"ON", "OFF"} /\ heard' = FALSE
    /\ UNCHANGED <<level, top, goal>>

FadeNext ==
    \/ SelectTop \/ SwitchOn \/ Brighten \/ StartDimming \/ Dim \/ SwitchOff \/ TurnRound
    \/ OthersSwitchPower

FadeSpec == FadeInit /\ [][FadeNext]_fade
=============================================================================
