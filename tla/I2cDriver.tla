------------------------------ MODULE I2cDriver ------------------------------
(***************************************************************************)
(* The driver of the I2C bus (sw/drivers/source/i2c_driver.c): one blocking*)
(* transfer at a time, carried by the interrupts of the peripheral, bounded*)
(* by a HIGH TRIGGER task of the scheduler (in SysTick) and ended by       *)
(* i2c_watcher.                                                            *)
(*                                                                         *)
(* The bus interrupt preempts SysTick, SysTick preempts the main loop.  The*)
(* steps of the two lower contexts are their accesses to what the higher   *)
(* ones write.  Time is counted in ticks of SysTick.  A device may stall at*)
(* any byte, and a byte that was late may still come until the peripheral  *)
(* is reset.  An interrupt is served before the next byte is complete.     *)
(*                                                                         *)
(* The calls with a callback have no caller in the firmware: the callback  *)
(* is always NULL.  The address is left out, and the buffer holds only the *)
(* bytes of the transfer.                                                  *)
(*                                                                         *)
(* A transfer of no bytes, which the terminal can ask for, ends when the   *)
(* counter has wrapped.  Most of its bytes lie outside the buffer: those of*)
(* a write may be anything, those of a read are followed as if they        *)
(* overwrote nothing of the program's, and the device that such a read     *)
(* leaves without a stop as if it then stayed silent.                      *)
(***************************************************************************)
EXTENDS Integers, Sequences

CONSTANTS
    Values,         \* what a byte may be
    BufferSize,     \* I2C_DRV_BUFFER_SIZE
    ByteMod,        \* sizes and counts are uint8_t: they wrap at 256
    Timeouts        \* what i2c_validate_timeout accepts, in ticks: 1..50

ASSUME I2cAssumption ==
    /\ BufferSize \in Nat \ {0} /\ ByteMod \in Nat /\ BufferSize < ByteMod
    /\ Timeouts \subseteq Nat \ {0}

States  == {"IDLE", "STARTED", "ADDRESS_WRITE", "DATA_EXCHANGE", "END_OK", "ERROR"}
Results == {"UNKNOWN", "OK", "ERROR"}
Calls   == [type : {"WRITE", "READ"}, size : 0..BufferSize]

NoRequest == [type |-> "UNKNOWN", size |-> 0]

VARIABLES
    state,          \* i2c_driver.state
    request,        \* i2c_driver.type and bytes_requested
    handled,        \* i2c_driver.bytes_handled
    buf,            \* I2C_DRV_BUF
    ready,          \* i2c_driver.transaction_ready
    timeout,        \* i2c_driver.timeout, in ticks
    timer,          \* ticks before i2c_on_timeout, 0: the task is STOPPED
    bus,            \* what the peripheral is busy with
    main,           \* where the main loop is in the driver
    systick,        \* where SysTick is in i2c_on_timeout
    ticked,         \* a tick came while the transfer was being started
    result,         \* what i2c_write or i2c_read returns
    taken           \* history: bytes that the device took

i2c == <<state, request, handled, buf, ready, timeout, timer, bus, main, systick, ticked, result, taken>>

I2cInit ==
    /\ state = "IDLE" /\ request = NoRequest /\ handled = 0 /\ buf = <<>>
    /\ ready = 0 /\ timeout \in Timeouts /\ timer = 0 /\ bus = "free"
    /\ main = "loop" /\ systick = "off" /\ ticked = 0
    /\ result = "UNKNOWN" /\ taken = <<>>

-----------------------------------------------------------------------------
(* The main loop: it is suspended while SysTick is in its handler. *)

At(p) == main = p /\ systick = "off"

Accepted(size) == state = "IDLE" /\ size <= BufferSize

\* What i2c_write_async and i2c_read_async do up to the start condition.
Begin(type, size, bytes) ==
    /\ At("loop") /\ main' = "begun"
    /\ Accepted(size)
    /\ request' = [type |-> type, size |-> size]
    /\ handled' = 0 /\ buf' = bytes
    /\ bus' = "start"
    /\ ticked' = 0 /\ result' = "UNKNOWN" /\ taken' = <<>>
    /\ UNCHANGED <<state, ready, timeout, timer, systick>>

Refuse(size) ==
    /\ At("loop") /\ ~Accepted(size)
    /\ result' = "UNKNOWN"
    /\ UNCHANGED <<state, request, handled, buf, ready, timeout, timer, bus, main, systick, ticked, taken>>

i2c_write(bytes) == Begin("WRITE", Len(bytes), bytes)
i2c_read(size)   == Begin("READ", size, <<>>)

\* A write arms the timeout and then stores the state, a read does it the
\* other way round.
ArmTimeout ==
    /\ timer' = timeout
    /\ UNCHANGED state

MarkStarted ==
    /\ state' = "STARTED"
    /\ UNCHANGED timer

Started ==
    \/ /\ At("begun") /\ main' = "half"
       /\ IF request.type = "WRITE" THEN ArmTimeout ELSE MarkStarted
       /\ UNCHANGED <<request, handled, buf, ready, timeout, bus, systick, ticked, result, taken>>
    \/ /\ At("half") /\ main' = "wait"
       /\ IF request.type = "WRITE" THEN MarkStarted ELSE ArmTimeout
       /\ UNCHANGED <<request, handled, buf, ready, timeout, bus, systick, ticked, result, taken>>

\* The loop on transaction_ready ends.
StopWaiting ==
    /\ At("wait") /\ main' = "status"
    /\ ready = 1
    /\ UNCHANGED <<state, request, handled, buf, ready, timeout, timer, bus, systick, ticked, result, taken>>

i2c_get_status == IF state = "END_OK" THEN "OK" ELSE "ERROR"

\* The result, and the bytes of a read, go to the caller.
TakeStatus ==
    /\ At("status") /\ main' = "watcher"
    /\ result' = i2c_get_status
    /\ UNCHANGED <<state, request, handled, buf, ready, timeout, timer, bus, systick, ticked, taken>>

\* i2c_watcher clears the flag and looks at the state again.
ClearReady ==
    /\ At("watcher") /\ main' = "judge"
    /\ ready' = 0
    /\ UNCHANGED <<state, request, handled, buf, timeout, timer, bus, systick, ticked, result, taken>>

\* Faulty variant: a transfer that failed is left to the peripheral.
JudgeAllGood ==
    /\ At("judge") /\ main' = "release"
    /\ UNCHANGED <<state, request, handled, buf, ready, timeout, timer, bus, systick, ticked, result, taken>>

Judge ==
    /\ At("judge")
    /\ main' = IF i2c_get_status = "OK" THEN "release" ELSE "reset"
    /\ UNCHANGED <<state, request, handled, buf, ready, timeout, timer, bus, systick, ticked, result, taken>>

i2c_reset ==
    /\ \/ At("reset") /\ main' = "release"
       \/ At("loop") /\ UNCHANGED main     \* "i2c reset" of the terminal
    /\ bus' = "free" /\ state' = "IDLE"
    /\ UNCHANGED <<request, handled, buf, ready, timeout, timer, systick, ticked, result, taken>>

\* The call returns.
Release ==
    /\ At("release") /\ main' = "loop"
    /\ state' = "IDLE"
    /\ UNCHANGED <<request, handled, buf, ready, timeout, timer, bus, systick, ticked, result, taken>>

\* The terminal sets the timeout; a new period restarts the count of the task.
i2c_set_timeout(p) ==
    /\ At("loop")
    /\ timeout' = p
    /\ timer' = IF timer > 0 THEN p ELSE 0
    /\ UNCHANGED <<state, request, handled, buf, ready, bus, main, systick, ticked, result, taken>>

\* i2c_watcher in the main loop: a flag that outlived its transfer resets the
\* peripheral.  The bus is free and the state IDLE, so no handler does anything
\* between its statements.
i2c_watcher ==
    /\ At("loop")
    /\ ready = 1 /\ ready' = 0
    /\ bus' = IF i2c_get_status = "OK" THEN bus ELSE "free"
    /\ state' = "IDLE"
    /\ UNCHANGED <<request, handled, buf, timeout, timer, main, systick, ticked, result, taken>>

-----------------------------------------------------------------------------
(* SysTick: the scheduler counts, stops the task and calls it.  At most one *)
(* tick comes in the few instructions that start a transfer.                *)

Starting == main \in {"begun", "half"}

\* Faulty variant: a task that is STOPPED is counted too.
TickCountsStopped ==
    /\ systick = "off"
    /\ timer' = timer - 1
    /\ systick' = IF timer' = 0 THEN "call" ELSE "off"
    /\ Starting => ticked = 0
    /\ ticked' = IF Starting THEN 1 ELSE ticked
    /\ UNCHANGED <<state, request, handled, buf, ready, timeout, bus, main, result, taken>>

Tick ==
    /\ systick = "off"
    /\ timer > 0 /\ timer' = timer - 1
    /\ systick' = IF timer' = 0 THEN "call" ELSE "off"
    /\ Starting => ticked = 0
    /\ ticked' = IF Starting THEN 1 ELSE ticked
    /\ UNCHANGED <<state, request, handled, buf, ready, timeout, bus, main, result, taken>>

\* Faulty variant: the timeout counts only once data is exchanged.
TimeoutOfData ==
    /\ systick = "call"
    /\ systick' = IF state = "DATA_EXCHANGE" THEN "error" ELSE "off"
    /\ UNCHANGED <<state, request, handled, buf, ready, timeout, timer, bus, main, ticked, result, taken>>

\* i2c_on_timeout: an interrupt may come between its look at the state and
\* its two stores.
LookAtState ==
    /\ systick = "call"
    /\ systick' = IF state # "IDLE" THEN "error" ELSE "off"
    /\ UNCHANGED <<state, request, handled, buf, ready, timeout, timer, bus, main, ticked, result, taken>>

StoreError ==
    /\ systick = "error" /\ systick' = "ready"
    /\ state' = "ERROR"
    /\ UNCHANGED <<request, handled, buf, ready, timeout, timer, bus, main, ticked, result, taken>>

StoreReady ==
    /\ systick = "ready" /\ systick' = "off"
    /\ ready' = 1
    /\ UNCHANGED <<state, request, handled, buf, timeout, timer, bus, main, ticked, result, taken>>

i2c_on_timeout == LookAtState \/ StoreError \/ StoreReady

-----------------------------------------------------------------------------
(* I2C1_EV_IRQHandler, one step for each event of the peripheral. *)

\* SB: the address is written.
StartSent ==
    /\ bus = "start" /\ bus' = "address"
    /\ state' = "ADDRESS_WRITE"
    /\ UNCHANGED <<request, handled, buf, ready, timeout, timer, main, systick, ticked, result, taken>>

\* ADDR: the device is there; a write sends its first byte.
AddressTaken ==
    /\ bus = "address" /\ bus' = "data"
    /\ state' = "DATA_EXCHANGE"
    /\ handled' = IF request.type = "WRITE" THEN (handled + 1) % ByteMod ELSE handled
    /\ UNCHANGED <<request, buf, ready, timeout, timer, main, systick, ticked, result, taken>>

EndTransferWith(b) ==
    /\ state' = "END_OK" /\ ready' = 1 /\ timer' = 0
    /\ bus' = b

EndTransfer == EndTransferWith("free")

\* The byte that a write sent last is the next one of the buffer.
SentLast(byte) ==
    LET last == IF handled = 0 THEN ByteMod ELSE handled
    IN  last \in DOMAIN buf => byte = buf[last]

\* Faulty variant: the stop follows the last byte but one.
ByteSentEndsEarly(byte) ==
    /\ bus = "data" /\ request.type = "WRITE" /\ SentLast(byte)
    /\ taken' = Append(taken, byte)
    /\ IF handled + 1 < request.size
       THEN handled' = handled + 1 /\ UNCHANGED <<state, ready, timer, bus>>
       ELSE EndTransfer /\ UNCHANGED handled
    /\ UNCHANGED <<request, buf, timeout, main, systick, ticked, result>>

\* Faulty variant: one byte more is sent than was asked for.
ByteSentOneMore(byte) ==
    /\ bus = "data" /\ request.type = "WRITE" /\ SentLast(byte)
    /\ taken' = Append(taken, byte)
    /\ IF handled <= request.size
       THEN handled' = (handled + 1) % ByteMod /\ UNCHANGED <<state, ready, timer, bus>>
       ELSE EndTransfer /\ UNCHANGED handled
    /\ UNCHANGED <<request, buf, timeout, main, systick, ticked, result>>

\* BTF: the device took the byte that was sent last.
ByteSent(byte) ==
    /\ bus = "data" /\ request.type = "WRITE" /\ SentLast(byte)
    /\ taken' = Append(taken, byte)
    /\ IF handled # request.size
       THEN handled' = (handled + 1) % ByteMod /\ UNCHANGED <<state, ready, timer, bus>>
       ELSE EndTransfer /\ UNCHANGED handled
    /\ UNCHANGED <<request, buf, timeout, main, systick, ticked, result>>

\* RXNE: a byte of the device; the stop was sent before the last one.  A read
\* of no bytes sends none: it ends with the device still held.
ByteReceived(byte) ==
    /\ bus = "data" /\ request.type = "READ"
    /\ buf' = Append(buf, byte)
    /\ handled' = (handled + 1) % ByteMod
    /\ IF handled' = request.size
       THEN EndTransferWith(IF request.size = 0 THEN "held" ELSE "free")
       ELSE UNCHANGED <<state, ready, timer, bus>>
    /\ UNCHANGED <<request, timeout, main, systick, ticked, result, taken>>

MainStep ==
    \/ Started \/ StopWaiting \/ TakeStatus \/ ClearReady \/ Judge \/ i2c_reset \/ Release
    \/ i2c_watcher

I2cNext ==
    \/ \E n \in 0..BufferSize : \E bytes \in [1..n -> Values] : i2c_write(bytes)
    \/ \E n \in 0..BufferSize : i2c_read(n)
    \/ \E n \in 0..(ByteMod - 1) : Refuse(n)
    \/ \E p \in Timeouts : i2c_set_timeout(p)
    \/ MainStep
    \/ Tick \/ i2c_on_timeout
    \/ StartSent \/ AddressTaken
    \/ \E b \in Values : ByteSent(b) \/ ByteReceived(b)

I2cSpec == I2cInit /\ [][I2cNext]_i2c

\* The main loop runs and time passes; a device may stop answering.
FairI2cSpec ==
    /\ I2cSpec
    /\ WF_i2c(MainStep)
    /\ WF_i2c(Tick \/ i2c_on_timeout)

-----------------------------------------------------------------------------
(* Properties. *)

\* Every variable has its type (I2C_DRIVER_TYPE, i2c_driver.c).
I2cTypeOK ==
    /\ state \in States /\ request \in Calls \cup {NoRequest}
    /\ handled \in 0..(ByteMod - 1)
    /\ buf \in Seq(Values) /\ Len(buf) <= ByteMod
    /\ taken \in Seq(Values) /\ Len(taken) <= ByteMod
    /\ ready \in {0, 1} /\ timeout \in Timeouts /\ timer \in Nat
    /\ bus \in {"free", "start", "address", "data", "held"}
    /\ main \in {"loop", "begun", "half", "wait", "status", "watcher", "judge", "reset", "release"}
    /\ systick \in {"off", "call", "error", "ready"} /\ ticked \in {0, 1}
    /\ result \in Results

(* The interrupt stays inside the buffer and inside what was asked for, also *)
(* when bytes come late, unless the transfer is one of no bytes: that one    *)
(* the code accepts, and it leaves the buffer.                               *)
InsideBuffer == request.size # 0 => handled <= request.size

(* Between two calls the driver accepts a call and the peripheral is idle,   *)
(* however the timeout raced the last byte of the call before: a transfer    *)
(* that ended otherwise than well is followed by a reset.  Only a read of no *)
(* bytes, which ends well without a stop, leaves the device held.            *)
BusIsLeft == bus = "free" \/ (bus = "held" /\ request.type = "READ" /\ request.size = 0)

FreeBetweenCalls == main = "loop" => state = "IDLE" /\ BusIsLeft

(* A call returns although the device stalls at any byte, if the timeout is  *)
(* longer than a tick: it must not come while the state is still IDLE.       *)
CallReturns == (main # "loop" /\ timeout >= 2) ~> (main = "loop")

(* "This call is blocking for maximum of timeout value" (i2c_driver.h), for  *)
(* every timeout that i2c_set_timeout accepts.                               *)
CallBlocksForTimeout == (main # "loop") ~> (main = "loop")

-----------------------------------------------------------------------------
(* A blocking call is a transfer: the driver implements Transfer. *)

\* The bytes that have moved in the call in progress.
MovedBytes == IF request.type = "WRITE" THEN taken ELSE buf

InProgress ==
    [type |-> request.type, size |-> request.size,
     data |-> IF request.type = "WRITE" THEN buf ELSE <<>>]

T == INSTANCE Transfer
     WITH call    <- IF main = "loop" THEN [type |-> "NONE", size |-> 0, data |-> <<>>]
                                      ELSE InProgress,
          moved   <- IF main = "loop" THEN <<>> ELSE MovedBytes,
          outcome <- IF main = "loop" THEN result ELSE "UNKNOWN"

(* A call that returns OK has moved every byte of its own, once and in order,*)
(* and no byte moves after the call: neither a timeout that came late, nor   *)
(* what is left of the call before, nor a byte that was late breaks this.    *)
ImplementsTransfer == T!TransferSpec
=============================================================================
