------------------------------ MODULE RelaysBoard ------------------------------
(***************************************************************************)
(* The relays board (sw/boards/source/relays_board.c): every rel_set sends *)
(* the whole port as the module remembers it with one relay changed; a LOW *)
(* PERIODIC task reads the board back and takes over what it finds.        *)
(*                                                                         *)
(* current_status is the image of current_relays under the configuration,  *)
(* and the listeners are told of each change of it: both are left out.     *)
(***************************************************************************)
EXTENDS BoardBus

CONSTANTS
    Relays,         \* the configured relays
    RelayByte,      \* the byte of the port that a relay is in
    BadIds          \* ids that are not below RELAY_ID_ENUM_MAX

ASSUME RelaysAssumption == RelayByte \in [Relays -> 1..2] /\ BadIds \cap Relays = {}

VARIABLES
    current_relays,         \* the relays that the module takes for on
    verification_enabled,
    wired,                  \* the board itself: the relays that are on
    disturbed               \* history, see BoardAgrees

relaysVars == <<current_relays, verification_enabled, wired, disturbed>>

\* rel_initialize ends with the first reading of the board.
RelaysInit ==
    /\ current_relays = {} /\ verification_enabled = TRUE
    /\ wired \in SUBSET Relays
    /\ disturbed = "pending"

\* A transfer of the whole port is under way that will settle the difference.
Settling == disturbed' = IF disturbed = "yes" THEN "pending" ELSE disturbed
Settled  == disturbed' = IF disturbed = "pending" THEN "no" ELSE disturbed

rel_id_accepted(id) == id \in Relays

new_relays(id, state) ==
    IF state = "ON" THEN current_relays \cup {id} ELSE current_relays \ {id}

rel_set(id, state) ==
    /\ rel_id_accepted(id)
    /\ BeginsWrite("rel_set", Port(RelayByte, new_relays(id, state)))
    /\ Settling
    /\ UNCHANGED <<current_relays, verification_enabled, wired>>

RelSetOk ==
    /\ EndsOk("rel_set")
    /\ current_relays' = Lines(call.data)
    /\ Settled
    /\ UNCHANGED <<verification_enabled, wired>>

RelSetFails ==
    /\ EndsError("rel_set")
    /\ disturbed' = "yes"
    /\ UNCHANGED <<current_relays, verification_enabled, wired>>

\* The periodic verification and its end.
rel_read_state ==
    /\ verification_enabled
    /\ BeginsRead("rel_read_state")
    /\ Settling
    /\ UNCHANGED <<current_relays, verification_enabled, wired>>

\* Faulty variant: a mismatch is detected and not taken over.
RelReadStateOkLogs ==
    /\ EndsOk("rel_read_state")
    /\ Settled
    /\ UNCHANGED <<current_relays, verification_enabled, wired>>

RelReadStateOk ==
    /\ EndsOk("rel_read_state")
    /\ current_relays' = Lines(moved)
    /\ Settled
    /\ UNCHANGED <<verification_enabled, wired>>

RelReadStateFails ==
    /\ EndsError("rel_read_state")
    /\ disturbed' = IF disturbed = "pending" THEN "yes" ELSE disturbed
    /\ UNCHANGED <<current_relays, verification_enabled, wired>>

\* Reads the board for its caller only.
rel_read_all ==
    /\ BeginsRead("rel_read_all")
    /\ UNCHANGED relaysVars

RelReadAllEnds ==
    /\ EndsOk("rel_read_all") \/ EndsError("rel_read_all")
    /\ UNCHANGED relaysVars

rel_enable_verification ==
    /\ Idle /\ ~verification_enabled
    /\ verification_enabled' = TRUE
    /\ UNCHANGED <<current_relays, wired, disturbed>>

rel_disable_verification ==
    /\ Idle /\ verification_enabled
    /\ verification_enabled' = FALSE
    /\ UNCHANGED <<current_relays, wired, disturbed>>

-----------------------------------------------------------------------------
(* The board. *)

RelayTakesByte ==
    /\ client = "rel_set"
    /\ Next1 <= 2
    /\ Move(call.data[Next1])
    /\ wired' = {r \in wired : RelayByte[r] # Next1} \cup call.data[Next1]
    /\ UNCHANGED <<client, current_relays, verification_enabled, disturbed>>

RelayGivesByte ==
    /\ client \in {"rel_read_state", "rel_read_all"}
    /\ Next1 <= 2
    /\ Move(Port(RelayByte, wired)[Next1])
    /\ UNCHANGED <<client, current_relays, verification_enabled, wired, disturbed>>

\* The board loses its power for a moment.
BoardResets ==
    /\ wired' = {}
    /\ disturbed' = "yes"
    /\ UNCHANGED <<current_relays, verification_enabled>>

-----------------------------------------------------------------------------
(* Properties. *)

(* The variables keep their types (RELAY_MODULE, relays_board.c:36). *)
RelaysTypeOK ==
    /\ current_relays \subseteq Relays /\ wired \subseteq Relays
    /\ verification_enabled \in BOOLEAN
    /\ disturbed \in {"no", "pending", "yes"}

(* What the module believes is what the board does, whatever was written and *)
(* read in whatever order, unless since the last transfer of the whole port  *)
(* that began and succeeded later a write failed half way or the board lost  *)
(* its power (rel_set, rel_read_state).                                      *)
BoardAgrees == Idle /\ disturbed = "no" => wired = current_relays
=============================================================================
