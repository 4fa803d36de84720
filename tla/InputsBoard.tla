------------------------------ MODULE InputsBoard ------------------------------
(***************************************************************************)
(* The inputs board (sw/boards/source/inputs_board.c and                   *)
(* inputs_interrupt_handler.c): a LOW PERIODIC task reads the port, and a  *)
(* falling edge of the board's INT wire triggers a debounce task that reads*)
(* it too.                                                                 *)
(*                                                                         *)
(* The expander holds INT low while a line differs from what the expander  *)
(* gave last for it, as expanders of this kind do; only the edge makes an  *)
(* interrupt.  The EXTI interrupt comes at any time, also during a read.   *)
(***************************************************************************)
EXTENDS BoardBus

CONSTANTS
    Inputs,         \* the configured input lines
    InputByte       \* the byte of the port that a line is in

ASSUME InputsAssumption == InputByte \in [Inputs -> 1..2]

VARIABLES
    current_states,         \* the lines that the module takes for active
    autoupdate_enabled,
    interrupt_enabled,
    armed,                  \* the debounce task runs
    lines,                  \* the board: the lines that are active
    given,                  \* the board: each line as it was last given
    missed                  \* history: a change went by, see ChangePursued

inputsVars == <<current_states, autoupdate_enabled, interrupt_enabled, armed, lines, given, missed>>
settings   == <<autoupdate_enabled, interrupt_enabled>>

IntLow == lines # given

\* inp_initialize starts both tasks.
InputsInit ==
    /\ current_states = {} /\ autoupdate_enabled = TRUE /\ interrupt_enabled = TRUE
    /\ armed = TRUE
    /\ lines \in SUBSET Inputs /\ given \in SUBSET Inputs
    /\ missed = FALSE

\* The periodic task.
inp_read_inputs ==
    /\ autoupdate_enabled
    /\ BeginsRead("inp_read_inputs")
    /\ UNCHANGED inputsVars

\* The debounce task: the scheduler stops it and calls inp_on_timeout.
inp_on_timeout ==
    /\ armed /\ armed' = FALSE
    /\ BeginsRead("inp_read_inputs")
    /\ UNCHANGED <<current_states, settings, lines, given, missed>>

\* Faulty variant: a reading that was taken stops the debounce task.
ReadInputsOkDisarms ==
    /\ EndsOk("inp_read_inputs")
    /\ current_states' = Lines(moved)
    /\ armed' = FALSE
    /\ missed' = (missed /\ current_states' # lines)
    /\ UNCHANGED <<settings, lines, given>>

\* The states that changed are stored and the listeners told.
ReadInputsOk ==
    /\ EndsOk("inp_read_inputs")
    /\ current_states' = Lines(moved)
    /\ missed' = (missed /\ current_states' # lines)
    /\ UNCHANGED <<settings, armed, lines, given>>

ReadInputsFails ==
    /\ EndsError("inp_read_inputs")
    /\ missed' = TRUE
    /\ UNCHANGED <<current_states, settings, armed, lines, given>>

\* Reads the board for its caller only; the board lets go of INT all the same.
inp_read_all ==
    /\ BeginsRead("inp_read_all")
    /\ UNCHANGED inputsVars

ReadAllEnds ==
    /\ EndsOk("inp_read_all") \/ EndsError("inp_read_all")
    /\ UNCHANGED inputsVars

SetInterrupt(on) ==
    /\ Idle /\ interrupt_enabled' = on
    /\ UNCHANGED <<current_states, autoupdate_enabled, armed, lines, given, missed>>

inp_enable_interrupt  == ~interrupt_enabled /\ SetInterrupt(TRUE)
inp_disable_interrupt == interrupt_enabled /\ SetInterrupt(FALSE)

SetPeriodicUpdate(on) ==
    /\ Idle /\ autoupdate_enabled' = on
    /\ UNCHANGED <<current_states, interrupt_enabled, armed, lines, given, missed>>

inp_enable_periodic_update  == ~autoupdate_enabled /\ SetPeriodicUpdate(TRUE)
inp_disable_periodic_update == autoupdate_enabled /\ SetPeriodicUpdate(FALSE)

-----------------------------------------------------------------------------
(* The board. *)

InputGivesByte ==
    /\ client \in {"inp_read_inputs", "inp_read_all"}
    /\ Next1 <= 2
    /\ Move(Port(InputByte, lines)[Next1])
    /\ given' = {l \in given : InputByte[l] # Next1} \cup Port(InputByte, lines)[Next1]
    /\ missed' = (missed \/ (client = "inp_read_all" /\ given' # given /\ ~armed))
    /\ UNCHANGED <<client, current_states, settings, armed, lines>>

\* inp_on_interrupt_recevied
OnInterrupt ==
    /\ armed' = (armed \/ interrupt_enabled)
    /\ missed' = (missed \/ ~interrupt_enabled)

\* A line changes.  INT falls if it was high; if it is still low there is no
\* edge, and the change goes by unless a reading is yet to come.
LineChanges(l) ==
    /\ lines' = IF l \in lines THEN lines \ {l} ELSE lines \cup {l}
    /\ IF IntLow
       THEN missed' = (missed \/ ~armed) /\ UNCHANGED armed
       ELSE OnInterrupt
    /\ UNCHANGED <<current_states, settings, given>>

-----------------------------------------------------------------------------
(* Properties. *)

(* The variables keep their types (INPUT_MODULE, inputs_board.c:40). *)
InputsTypeOK ==
    /\ current_states \subseteq Inputs /\ lines \subseteq Inputs /\ given \subseteq Inputs
    /\ autoupdate_enabled \in BOOLEAN /\ interrupt_enabled \in BOOLEAN
    /\ armed \in BOOLEAN /\ missed \in BOOLEAN

(* A state that is out of date is being pursued: the debounce task runs or   *)
(* the port is being read, unless a change went by: its edge was ignored, its*)
(* reading failed or went to another caller, or INT was still low from an    *)
(* earlier change, so there was no edge.  Then only a periodic read helps.   *)
(* In particular a line that changes while the port is read, after its byte, *)
(* is read again.                                                            *)
ChangePursued ==
    current_states # lines => armed \/ client = "inp_read_inputs" \/ missed
=============================================================================
