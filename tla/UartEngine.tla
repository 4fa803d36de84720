------------------------------ MODULE UartEngine ------------------------------
(***************************************************************************)
(* The receiving half of the UART of the WiFi module                       *)
(* (sw/drivers/source/uart_engine.c): USART2's interrupt fills a ring and  *)
(* counts its lines, the main loop takes lines out and counts them down.   *)
(* The interrupt may come between any two accesses of the main loop.       *)
(*                                                                         *)
(* A cell of the ring is a whole line.  Empty lines are left out: they are *)
(* read and ignored.  RxSize bounds the lines that wait; the code does not *)
(* notice when its ring overflows.                                         *)
(***************************************************************************)
EXTENDS Integers, Sequences

CONSTANTS RxSize

ASSUME UartAssumption == RxSize \in Nat

VARIABLES
    rx,             \* the lines between tail and head
    string_cnt,
    line,           \* uart_rx_string
    loaded,         \* string_cnt as the main loop has loaded it
    reading         \* where the main loop is: "no", "count" or "clear"

uart == <<rx, string_cnt, line, loaded, reading>>

NoLine == [type |-> "none", id |-> 0]

UartInit ==
    /\ rx = <<>> /\ string_cnt = 0 /\ line = NoLine
    /\ loaded = 0 /\ reading = "no"

\* USART2_IRQHandler at the end of a line.
Receive(l) ==
    /\ Len(rx) < RxSize
    /\ rx' = Append(rx, l)
    /\ string_cnt' = string_cnt + 1
    /\ UNCHANGED <<line, loaded, reading>>

\* uartengine_get_string_from_buffer takes a line and loads the count ...
uartengine_can_read_string ==
    /\ reading = "no" /\ reading' = "count"
    /\ string_cnt > 0 /\ loaded' = string_cnt
    /\ line' = Head(rx) /\ rx' = Tail(rx)
    /\ UNCHANGED string_cnt

\* ... and stores it.
StoreCount ==
    /\ reading = "count" /\ reading' = "no"
    /\ string_cnt' = loaded - 1
    /\ loaded' = 0 /\ line' = NoLine
    /\ UNCHANGED rx

\* uartengine_clear_rx: tail = head ...
uartengine_clear_rx ==
    /\ reading = "no" /\ reading' = "clear"
    /\ rx' = <<>>
    /\ UNCHANGED <<string_cnt, line, loaded>>

\* Faulty variant: the count is kept.
ClearCountKeeps ==
    /\ reading = "clear" /\ reading' = "no"
    /\ UNCHANGED <<rx, string_cnt, line, loaded>>

\* ... and then string_cnt = 0.
ClearCount ==
    /\ reading = "clear" /\ reading' = "no"
    /\ string_cnt' = 0
    /\ UNCHANGED <<rx, line, loaded>>

-----------------------------------------------------------------------------

(* The main loop never reads past the last line that was received: whatever  *)
(* the interrupt does between the load and the store of the count, between   *)
(* the two stores of a clear, or with the bytes of a time answer, the count  *)
(* stays behind what is in the ring (uartengine_get_string_from_buffer stops *)
(* at a newline only).                                                       *)
StringsAreThere ==
    /\ reading = "no"    => string_cnt <= Len(rx)
    /\ reading = "count" => loaded - 1 <= Len(rx)
=============================================================================
