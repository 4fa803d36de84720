------------------------------ MODULE WifiManager ------------------------------
(***************************************************************************)
(* The WiFi manager (sw/drivers/source/wifi_manager.c): it brings the      *)
(* module up, keeps the table of its clients from the lines that tell of   *)
(* them, sends to them, and fetches the time, for which the server has to  *)
(* be closed for a while.                                                  *)
(*                                                                         *)
(* An operation is a plan of commands that the main loop goes through while*)
(* it is blocked; lines that tell of clients are looked at between the     *)
(* operations only.  The commands that test the module, set its address and*)
(* join the network are one, "SETUP", and so are the two that send the     *)
(* request for the time, "NTP SEND".                                       *)
(***************************************************************************)
EXTENDS WifiDriver

CONSTANTS
    MaxClients,             \* WIFIMGR_MAX_CLIENTS
    CountMod                \* clients_cnt wraps here: 256

ASSUME WifiAssumption ==
    /\ MaxClients \in Nat \ {0} /\ Ids \subseteq Nat
    /\ CountMod \in Nat /\ CountMod > MaxClients

Slots == {i \in Ids : i < MaxClients}

VARIABLES
    clients_cnt,
    connected,              \* the slots whose client is connected
    allocated,              \* the table is there and events are handled
    server_running,
    op,                     \* the operation in progress
    plan,                   \* its commands that are still to be sent
    followed                \* history: no line about a client went by, no client
                            \* was beyond the table, and the table was emptied
                            \* only when the dialogue was in step

manager == <<clients_cnt, connected, allocated, server_running, op, plan>>
vars == <<driver, manager, followed>>

Ntp       == <<Cmd("CIPSTART"), Cmd("NTP SEND"), Cmd("NTP"), Cmd("CIPCLOSE")>>
Opening   == <<Cmd("CIPMUX=1"), Cmd("CIPSERVER=1")>>
BringUp   == <<Cmd("SETUP"), Cmd("CIPMUX=0")>> \o Ntp \o Opening
FetchTime ==
    (IF server_running THEN <<Cmd("CIPSERVER=0")>> ELSE <<>>)
        \o <<Cmd("CIPMUX=0")>> \o Ntp \o Opening

\* wifi_send_bytes, and the same for every client of the table in its order.
SendTo(i)  == <<CmdTo("CIPSEND", i), CmdTo("DATA", i)>>
InOrder(S) == {f \in [1..Cardinality(S) -> S] : \A a, b \in DOMAIN f : a < b => f[a] < f[b]}
SendToAll(f) ==
    [n \in 1..2 * Len(f) |-> CmdTo(IF n % 2 = 1 THEN "CIPSEND" ELSE "DATA", f[(n + 1) \div 2])]

\* wifi_get_time has connected to the time server when these fail.
AfterConnect(c) == c.name \in {"NTP SEND", "NTP"}

Init ==
    /\ DriverInit
    /\ clients_cnt = 0 /\ connected = {} /\ allocated = FALSE /\ server_running = FALSE
    /\ op = "init" /\ plan = BringUp
    /\ followed = TRUE

AtRest == op = "none" /\ reading = "no"

-----------------------------------------------------------------------------
(* The lines that tell of clients (uartengine_string_watcher, *)
(* wifi_on_uart_data, wifimgr_on_client_event).               *)

Watch ==
    /\ AtRest
    /\ uartengine_can_read_string
    /\ UNCHANGED <<cmd, module, late, manager, followed>>

OnLine(l) ==
    /\ op = "none" /\ StoreCount /\ line = l
    /\ UNCHANGED <<cmd, module, late, allocated, server_running>>

Serve(p) == op' = "serve" /\ plan' = p

\* A write beyond the table is somewhere else in the heap.
OnConnected(i) ==
    /\ OnLine(Event("CONNECT", i))
    /\ IF allocated /\ clients_cnt < MaxClients
       THEN /\ clients_cnt' = clients_cnt + 1
            /\ connected' = connected \cup ({i} \cap Slots)
            /\ Serve(<<Cmd("CIPSTATUS")>>)
            /\ followed' = (followed /\ i \in Slots)
       ELSE /\ followed' = FALSE
            /\ UNCHANGED <<clients_cnt, connected, op, plan>>

\* Faulty variant: the client is not counted down.
OnClosedKeepsCount(i) ==
    /\ OnLine(Event("CLOSED", i))
    /\ connected' = IF allocated THEN connected \ {i} ELSE connected
    /\ UNCHANGED <<clients_cnt, op, plan, followed>>

OnClosed(i) ==
    /\ OnLine(Event("CLOSED", i))
    /\ IF allocated
       THEN clients_cnt' = (clients_cnt + CountMod - 1) % CountMod /\ connected' = connected \ {i}
       ELSE UNCHANGED <<clients_cnt, connected>>
    /\ UNCHANGED <<op, plan, followed>>

\* The request is answered; a request that changes something tells the others
\* first.  What lies beyond the table may be taken for a connected client.
OnData(i) ==
    /\ OnLine(Event("DATA", i))
    /\ \/ /\ allocated /\ (i \in connected \/ i \notin Slots)
          /\ \E told \in {{}, connected} : \E f \in InOrder(told) : Serve(SendToAll(f) \o SendTo(i))
       \/ /\ ~allocated \/ i \notin connected
          /\ UNCHANGED <<op, plan>>
    /\ UNCHANGED <<clients_cnt, connected, followed>>

\* An answer that came too late.
OnOther ==
    /\ \E a \in Answers : OnLine(Answer(a))
    /\ UNCHANGED <<clients_cnt, connected, op, plan, followed>>

-----------------------------------------------------------------------------
(* The operations. *)

Starts(o, p) ==
    /\ AtRest
    /\ op' = o /\ plan' = p
    /\ UNCHANGED <<driver, clients_cnt, connected, allocated, server_running, followed>>

\* Another module's state has changed.
wifimgr_broadcast_bytes ==
    allocated /\ connected # {} /\ \E f \in InOrder(connected) : Starts("serve", SendToAll(f))

wifimgr_get_time == allocated /\ Starts("get_time", FetchTime)

\* wifimgr_deinitialize and the start of wifimgr_initialize.
wifimgr_reset ==
    /\ \/ AtRest
       \/ op = "get_time_nok" /\ plan = <<>>
    /\ wifi_reset
    /\ clients_cnt' = 0 /\ connected' = {} /\ allocated' = FALSE /\ server_running' = FALSE
    /\ op' = "init" /\ plan' = BringUp
    /\ followed' = TRUE

SendNext ==
    /\ op # "none" /\ plan # <<>>
    /\ wifi_send_command(Head(plan))
    /\ plan' = Tail(plan)
    /\ UNCHANGED <<clients_cnt, connected, allocated, server_running, op, followed>>

Answered ==
    /\ wifi_answered \/ NtpAnswered
    /\ server_running' = (server_running /\ cmd # Cmd("CIPSERVER=0"))
    /\ UNCHANGED <<clients_cnt, connected, allocated, op, plan, followed>>

Waiting ==
    \/ TakeLine /\ UNCHANGED <<manager, followed>>
    \/ RxCleared /\ UNCHANGED <<manager, followed>>
    \/ Discard /\ UNCHANGED manager /\ followed' = (followed /\ line.type \notin {"CONNECT", "CLOSED"})

\* Faulty variant: the rest of the plan is left.
GiveUpKeepsPlan == op' = "none" /\ UNCHANGED plan

\* wifimgr_initialize breaks off.
GiveUp == op' = "none" /\ plan' = <<>>

\* What the operation does when a command fails.
OnFailure(c) ==
    \/ /\ op = "serve" /\ UNCHANGED op
       /\ plan' = IF c.name = "CIPSEND" THEN Tail(plan) ELSE plan
    \/ /\ op # "serve" /\ c.name = "CIPCLOSE"
       /\ UNCHANGED <<op, plan>>
    \/ /\ op = "get_time" /\ c.name # "CIPCLOSE"
       /\ op' = "get_time_nok"
       /\ plan' = IF AfterConnect(c) THEN <<Cmd("CIPCLOSE")>> ELSE <<>>
    \/ /\ op \in {"init", "init_again"} /\ (AfterConnect(c) \/ c.name = "CIPSTART")
       /\ op' = "init_again"
       /\ plan' = (IF AfterConnect(c) THEN <<Cmd("CIPCLOSE")>> ELSE <<>>)
                       \o (IF op = "init" THEN Ntp ELSE <<>>) \o Opening
    \/ /\ op \in {"init", "init_again"} /\ ~AfterConnect(c) /\ c.name \notin {"CIPSTART", "CIPCLOSE"}
       /\ GiveUp

EventsWait == \E i \in 1..Len(rx) : rx[i].type \in {"CONNECT", "CLOSED"}

Fails ==
    /\ \/ wifi_timeout /\ UNCHANGED followed
       \/ NtpTimeout /\ followed' = (followed /\ ~EventsWait)
    /\ OnFailure(cmd)
    /\ UNCHANGED <<clients_cnt, connected, allocated, server_running>>

Ends ==
    /\ op \notin {"none", "get_time_nok"} /\ plan = <<>> /\ cmd = NoCmd /\ reading = "no"
    /\ op' = "none"
    /\ IF op = "serve"
       THEN UNCHANGED <<clients_cnt, connected, allocated, server_running, followed>>
       ELSE /\ server_running' = TRUE /\ allocated' = TRUE
            /\ clients_cnt' = 0 /\ connected' = {}
            /\ followed' = (followed /\ ~late)
    /\ UNCHANGED <<driver, plan>>

-----------------------------------------------------------------------------

Module == (ModuleAnswers \/ ModuleEvent) /\ UNCHANGED <<manager, followed>>

OnClient == \E i \in Ids : OnConnected(i) \/ OnClosed(i) \/ OnData(i)

Main == Watch \/ OnClient \/ OnOther \/ SendNext \/ Answered \/ Waiting \/ Ends

Next ==
    \/ Main \/ Fails
    \/ wifimgr_broadcast_bytes \/ wifimgr_get_time \/ wifimgr_reset
    \/ Module

\* The main loop runs.  A wait for a defined answer ends at its timeout however
\* many lines come; the wait for the details of a client starts anew with each.
Fairness ==
    /\ WF_vars(Main \/ Fails \/ (op = "get_time_nok" /\ wifimgr_reset))
    /\ SF_vars(cmd # Cmd("CIPSTATUS") /\ Fails)

Spec == Init /\ [][Next]_vars /\ Fairness

-----------------------------------------------------------------------------
(* Properties. *)

Ops == {"none", "serve", "get_time", "get_time_nok", "init", "init_again"}

(* Every variable has its type, and nothing is left of an operation that is  *)
(* over.                                                                     *)
TypeOK ==
    /\ Len(rx) <= RxSize /\ string_cnt \in 0..2 * RxSize /\ loaded \in 0..RxSize
    /\ reading \in {"no", "count", "clear"}
    /\ Len(owed) <= MaxOwed /\ conns \subseteq Ids
    /\ {open, mux, late, allocated, server_running, followed} \subseteq BOOLEAN
    /\ clients_cnt \in 0..CountMod - 1 /\ connected \subseteq Slots
    /\ op \in Ops
    /\ op = "none" => plan = <<>> /\ cmd = NoCmd

\* Client i is in the table once the lines that wait have been looked at.
WillBeConnected(i) ==
    LET told == {n \in 1..Len(rx) : rx[n] \in {Event("CONNECT", i), Event("CLOSED", i)}}
    IN  IF told = {} THEN i \in connected
        ELSE \E n \in told : (\A m \in told : m <= n) /\ rx[n].type = "CONNECT"

(* The table follows the clients of the module through the lines that wait,  *)
(* and clients_cnt counts it, until a line about a client goes by (thrown    *)
(* away by a command that waits for its answer, or about a client beyond the *)
(* table) or a fetch of the time empties the table out of step.              *)
TableFollows ==
    allocated /\ followed /\ reading = "no" =>
        /\ {i \in Ids : WillBeConnected(i)} = conns
        /\ clients_cnt = Cardinality(connected)

(* Outside an operation on it a server that is taken for running is open,    *)
(* unless the dialogue is out of step: answers carry no name of what they    *)
(* answer, and one that came too late is taken for the next.                 *)
RunningMeansOpen ==
    server_running /\ op \in {"none", "serve"} /\ ~late => open

(* The main loop gets out of every operation: commands end at their timeouts,*)
(* a failed one resets the module once and does not try for ever - provided  *)
(* that the module stops telling of clients while one asks for the details.  *)
OperationsEnd ==
    <>[][cmd = Cmd("CIPSTATUS") => ~ModuleEvent]_vars => (op # "none" ~> op = "none")
=============================================================================
