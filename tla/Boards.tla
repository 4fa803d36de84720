-------------------------------- MODULE Boards --------------------------------
(***************************************************************************)
(* Both boards on one bus, and the relay requests of the notification      *)
(* manager (sw/notification_manager/source/notification_manager.c): a      *)
(* request is carried out in the main loop, relay by relay, and stops at   *)
(* the first failure; the reply is sent when it is over.  Other modules set*)
(* relays too (the command parser, the fan), never during a request.       *)
(***************************************************************************)
EXTENDS RelaysBoard, InputsBoard

CONSTANTS Requests      \* the requests that clients send: sequences of [id, state]

ASSUME RequestsAssumption ==
    \A list \in Requests : list \in Seq([id : Relays \cup BadIds, state : {"ON", "OFF"}])

VARIABLES
    asked,      \* the request that was parsed last
    todo,       \* what is left of it
    reply       \* "none", "pending", or the reply that was sent

ntf  == <<asked, todo, reply>>
vars == <<transfer, client, relaysVars, inputsVars, ntf>>

Init ==
    /\ client = "rel_read_state"
    /\ call = [type |-> "READ", size |-> 2, data |-> <<>>]
    /\ moved = <<>> /\ outcome = "UNKNOWN"
    /\ RelaysInit /\ InputsInit
    /\ asked = <<>> /\ todo = <<>> /\ reply = "none"

MainFree == Idle /\ reply # "pending"

-----------------------------------------------------------------------------
(* The relay requests. *)

\* ntfmgr_handle_set_relays_state_cmd and ..._set_all_relays_state_cmd for a
\* well-formed request; one without any relay is answered OK.
SetRelays(list) ==
    /\ MainFree
    /\ asked' = list /\ todo' = list
    /\ reply' = IF list = <<>> THEN "OK" ELSE "pending"
    /\ UNCHANGED <<transfer, client, relaysVars, inputsVars>>

\* A request to set all with an odd number of bytes: the result is OK and no
\* reply was prepared, so an empty one is sent.
SetRelaysOdd ==
    /\ MainFree
    /\ asked' = <<>> /\ todo' = <<>> /\ reply' = "EMPTY"
    /\ UNCHANGED <<transfer, client, relaysVars, inputsVars>>

\* The next relay of the request.
Serve ==
    /\ Idle /\ reply = "pending"
    /\ rel_set(todo[1].id, todo[1].state)
    /\ todo' = Tail(todo)
    /\ UNCHANGED <<inputsVars, asked, reply>>

Refuse ==
    /\ Idle /\ reply = "pending"
    /\ ~rel_id_accepted(todo[1].id)
    /\ todo' = <<>> /\ reply' = "NOK"
    /\ UNCHANGED <<transfer, client, relaysVars, inputsVars, asked>>

\* Faulty variant: the loop goes on after a failure and the reply tells of the
\* last relay.
ServedGoesOn ==
    IF reply = "pending" /\ todo = <<>>
    THEN reply' = (IF outcome' = "OK" THEN "OK" ELSE "NOK") /\ UNCHANGED <<asked, todo>>
    ELSE UNCHANGED ntf

\* Faulty variant: only a failure ends a request.
ServedSilently ==
    IF reply = "pending" /\ outcome' # "OK"
    THEN todo' = <<>> /\ reply' = "NOK" /\ UNCHANGED asked
    ELSE UNCHANGED ntf

\* What a request does with the result of its rel_set.
Served ==
    \/ reply = "pending" /\ outcome' # "OK" /\ todo' = <<>> /\ reply' = "NOK" /\ UNCHANGED asked
    \/ reply = "pending" /\ outcome' = "OK" /\ todo = <<>> /\ reply' = "OK" /\ UNCHANGED <<asked, todo>>
    \/ (reply = "pending" => outcome' = "OK" /\ todo # <<>>) /\ UNCHANGED ntf

-----------------------------------------------------------------------------
(* The main loop, the boards and their lines. *)

\* The next thing that the main loop does; the reply is gone.
Other == MainFree /\ asked' = <<>> /\ todo' = <<>> /\ reply' = "none"

RelaysStart ==
    /\ Other /\ UNCHANGED inputsVars
    /\ \/ \E r \in Relays, s \in {"ON", "OFF"} : rel_set(r, s)
       \/ rel_read_state
       \/ rel_read_all

RelaysSettings ==
    /\ Other /\ UNCHANGED <<inputsVars, transfer, client>>
    /\ rel_enable_verification \/ rel_disable_verification

InputsStart ==
    /\ Other /\ UNCHANGED relaysVars
    /\ inp_read_inputs \/ inp_on_timeout \/ inp_read_all

InputsSettings ==
    /\ Other /\ UNCHANGED <<relaysVars, transfer, client>>
    /\ \/ inp_enable_interrupt \/ inp_disable_interrupt
       \/ inp_enable_periodic_update \/ inp_disable_periodic_update

SetEnds == (RelSetOk \/ RelSetFails) /\ Served /\ UNCHANGED inputsVars

CallEnds ==
    \/ SetEnds
    \/ (RelReadStateOk \/ RelReadStateFails \/ RelReadAllEnds) /\ UNCHANGED <<inputsVars, ntf>>
    \/ (ReadInputsOk \/ ReadInputsFails \/ ReadAllEnds) /\ UNCHANGED <<relaysVars, ntf>>

BytesMove ==
    \/ (RelayTakesByte \/ RelayGivesByte) /\ UNCHANGED <<inputsVars, ntf>>
    \/ InputGivesByte /\ UNCHANGED <<relaysVars, ntf>>

World ==
    \/ BoardResets /\ UNCHANGED <<transfer, client, inputsVars, ntf>>
    \/ \E l \in Inputs : LineChanges(l) /\ UNCHANGED <<transfer, client, relaysVars, ntf>>

Next ==
    \/ \E list \in Requests : SetRelays(list)
    \/ SetRelaysOdd
    \/ Serve \/ Refuse
    \/ RelaysStart \/ RelaysSettings \/ InputsStart \/ InputsSettings
    \/ CallEnds \/ BytesMove
    \/ World

Spec == Init /\ [][Next]_vars

-----------------------------------------------------------------------------
(* Properties. *)

(* Every variable has its type, and a request in progress has a relay left or *)
(* a write under way.                                                         *)
TypeOK ==
    /\ RelaysTypeOK /\ InputsTypeOK
    /\ reply \in {"none", "pending", "OK", "NOK", "EMPTY"}
    /\ reply = "pending" => asked \in Requests /\ (todo # <<>> \/ client = "rel_set")

Last(id) == {s \in {"ON", "OFF"} :
    \E i \in 1..Len(asked) :
        /\ asked[i].id = id /\ asked[i].state = s
        /\ \A j \in i+1..Len(asked) : asked[j].id # id}

(* A client that is told OK finds every relay of its request as the request  *)
(* left it last, the first as well as the last one of a long request.        *)
RepliesTrue ==
    reply = "OK" => \A id \in Relays : \A s \in Last(id) : (id \in current_relays <=> s = "ON")
=============================================================================
