------------------------------ MODULE WifiDriver ------------------------------
(***************************************************************************)
(* The driver of the WiFi module (sw/drivers/source/wifi_driver.c): the    *)
(* main loop sends a command and waits for the answer it expects or for    *)
(* the timeout, and throws away every other line it meets on the way.      *)
(*                                                                         *)
(* The WiFi module is external: it answers commands in their order, when it*)
(* likes or never, and tells of its clients at any time.  A command that   *)
(* reaches it while it is busy may be ignored.                             *)
(***************************************************************************)
EXTENDS UartEngine, FiniteSets

CONSTANTS
    Ids,            \* the client ids that the module gives, from 0 on
    MaxOwed         \* bound on commands that the module has not answered

ASSUME DriverAssumption == MaxOwed \in Nat \ {0}

Cmd(name)     == [name |-> name, id |-> 0]
CmdTo(name, i) == [name |-> name, id |-> i]
NoCmd         == Cmd("none")

Answer(what)  == [type |-> what, id |-> 0]
Event(ev, i)  == [type |-> ev, id |-> i]
Answers       == {"OK", "SEND OK", "ERROR", "IPD"}

VARIABLES
    cmd,            \* the command that the main loop waits for
    owed,           \* module: commands that it has not answered
    conns,          \* module: its clients
    open, mux,      \* module: its server is open, it takes more than one client
    late            \* history: a command gave up on an answer that came or may
                    \* come, and the module was not reset since

module == <<owed, conns, open, mux>>
driver == <<uart, cmd, module, late>>

DriverInit ==
    /\ UartInit /\ cmd = NoCmd
    /\ owed = <<>> /\ conns = {} /\ open = FALSE /\ mux = FALSE
    /\ late = FALSE

\* The answer that wifi_wait_for_defined_response looks for.
Expected(c) ==
    IF c.name \in {"DATA", "NTP SEND"} THEN "SEND OK" ELSE IF c.name = "NTP" THEN "IPD" ELSE "OK"

\* Nothing is sent for "NTP", the answer of the time server follows the data.
wifi_send_command(c) ==
    /\ cmd = NoCmd /\ reading = "no"
    /\ cmd' = c
    /\ \/ Len(owed) < MaxOwed /\ owed' = Append(owed, c)
       \/ owed # <<>> /\ UNCHANGED owed
    /\ UNCHANGED <<uart, conns, open, mux, late>>

\* wifi_wait_for_defined_response takes the next line ...
TakeLine ==
    /\ cmd \notin {NoCmd, Cmd("NTP")}
    /\ uartengine_can_read_string
    /\ UNCHANGED <<cmd, module, late>>

\* Faulty variant: the first line is the answer.
FirstLineAnswers ==
    /\ cmd # NoCmd /\ StoreCount
    /\ cmd' = NoCmd
    /\ UNCHANGED <<module, late>>

\* ... which is the one it waits for ...
wifi_answered ==
    /\ cmd # NoCmd /\ StoreCount
    /\ line.type = Expected(cmd)
    /\ cmd' = NoCmd
    /\ UNCHANGED <<module, late>>

\* ... or is thrown away.
Discard ==
    /\ cmd # NoCmd /\ StoreCount
    /\ line.type # Expected(cmd)
    /\ UNCHANGED <<cmd, module, late>>

AnswersWait == \E i \in 1..Len(rx) : rx[i].type \in Answers

\* Faulty variant: the timeout is looked at when no line waits.
TimeoutWhenQuiet ==
    /\ cmd \notin {NoCmd, Cmd("NTP")} /\ reading = "no" /\ string_cnt = 0
    /\ cmd' = NoCmd
    /\ late' = (late \/ owed # <<>> \/ AnswersWait)
    /\ UNCHANGED <<uart, module>>

\* ts_get_diff has reached the timeout.
wifi_timeout ==
    /\ cmd \notin {NoCmd, Cmd("NTP")} /\ reading = "no"
    /\ cmd' = NoCmd
    /\ late' = (late \/ owed # <<>> \/ AnswersWait)
    /\ UNCHANGED <<uart, module>>

\* wifi_wait_for_bytes: the bytes of the answer and no others are in the ring.
\* wifi_get_time clears the ring after it, also when they did not come.
NtpAnswered ==
    /\ cmd = Cmd("NTP") /\ cmd' = NoCmd
    /\ rx = <<Answer("IPD")>>
    /\ uartengine_clear_rx
    /\ UNCHANGED <<module, late>>

NtpTimeout ==
    /\ cmd = Cmd("NTP") /\ cmd' = NoCmd
    /\ uartengine_clear_rx
    /\ late' = (late \/ owed # <<>>)
    /\ UNCHANGED module

\* wifi_reset: the module starts again within the 500 ms, and what it sent
\* before is cleared.
wifi_reset ==
    /\ cmd = NoCmd
    /\ uartengine_clear_rx
    /\ owed' = <<>> /\ conns' = {} /\ open' = FALSE /\ mux' = FALSE
    /\ late' = FALSE
    /\ UNCHANGED cmd

RxCleared ==
    /\ ClearCount
    /\ UNCHANGED <<cmd, module, late>>

-----------------------------------------------------------------------------
(* The module. *)

\* Whether it can do what the command says.
Possible(c) ==
    /\ c.name = "CIPSEND"     => c.id \in conns
    /\ c.name = "CIPMUX=0"    => conns = {} /\ ~open
    /\ c.name = "CIPMUX=1"    => conns = {}
    /\ c.name = "CIPSERVER=1" => mux

Does(c) ==
    /\ open' = (c.name = "CIPSERVER=1" \/ (open /\ c.name # "CIPSERVER=0"))
    /\ mux'  = (c.name = "CIPMUX=1" \/ (mux /\ c.name # "CIPMUX=0"))
    /\ UNCHANGED conns

ModuleAnswers ==
    /\ owed # <<>> /\ owed' = Tail(owed)
    /\ LET c == Head(owed) IN
       \/ Possible(c) /\ Does(c) /\ Receive(Answer(Expected(c)))
       \/ UNCHANGED <<conns, open, mux>> /\ Receive(Answer("ERROR"))
    /\ UNCHANGED <<cmd, late>>

\* A client gets the first id that is free.
ClientConnects(i) ==
    /\ open /\ i \notin conns /\ \A j \in Ids \ conns : i <= j
    /\ conns' = conns \cup {i}
    /\ Receive(Event("CONNECT", i))
    /\ UNCHANGED <<cmd, owed, open, mux, late>>

ClientCloses(i) ==
    /\ i \in conns /\ conns' = conns \ {i}
    /\ Receive(Event("CLOSED", i))
    /\ UNCHANGED <<cmd, owed, open, mux, late>>

ClientSends(i) ==
    /\ i \in conns
    /\ Receive(Event("DATA", i))
    /\ UNCHANGED <<cmd, module, late>>

ModuleEvent == \E i \in Ids : ClientConnects(i) \/ ClientCloses(i) \/ ClientSends(i)
=============================================================================
