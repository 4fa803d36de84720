------------------------------ MODULE DhtDriver ------------------------------
(***************************************************************************)
(* The driver of the DHT sensors (sw/drivers/source/dht_driver.c): one     *)
(* read at a time, driven by a HIGH TRIGGER task of the scheduler (in      *)
(* SysTick) that ends the start pulse and then bounds the answer, and by   *)
(* the EXTI interrupt of every edge of the answer.                         *)
(*                                                                         *)
(* Three contexts share the driver.  EXTI preempts both others and is one  *)
(* step; SysTick preempts the main loop, whose accesses to what interrupts *)
(* write are steps of their own.  The time that a period takes is left     *)
(* open: a timer that runs may elapse at any time.  The scheduler's calls  *)
(* succeed, because dht_on_timeout is a TRIGGER task that stays in the     *)
(* table: DHT_STATE_ERROR is not reached.                                  *)
(***************************************************************************)
EXTENDS Integers

CONSTANTS
    SensorsCount,   \* DHT_ENUM_MAX, the number of sensors
    Timestamps,     \* DHT_TIMESTAMPS_BUFFER_SIZE
    Callbacks,      \* the DHT_CALLBACKs of dht_read_async
    NULL            \* no callback: the read is a blocking one

ASSUME DhtAssumption ==
    /\ SensorsCount \in Nat \ {0} /\ Timestamps \in Nat \ {0}
    /\ NULL \notin Callbacks

Sensors  == 1..SensorsCount
Ids      == 1..(SensorsCount + 1)   \* a user may ask for a sensor that is not there
States   == {"IDLE", "START", "READING", "DATA_DECODING", "TIMEOUT"}
Ended    == {"DATA_DECODING", "TIMEOUT"}

VARIABLES
    state,          \* dht_driver.state
    sensor,         \* dht_driver.sensor.id
    idx,            \* dht_timestamp_idx
    ready,          \* dht_measurement_ready
    callback,       \* dht_callback
    timer,          \* scheduler state of dht_on_timeout
    main,           \* where the main loop is in the driver
    systick,        \* where SysTick is in dht_on_timeout
    ask,            \* arguments of the dht_read_async that main is inside of
    owner,          \* history: the callback given with the read in progress
    disturbed       \* history: a read was refused during the one in progress

dht == <<state, sensor, idx, ready, callback, timer, main, systick, ask, owner, disturbed>>

DhtInit ==
    /\ state = "IDLE" /\ sensor = 1 /\ idx = 0 /\ ready = 0
    /\ callback = NULL /\ timer = "STOPPED"
    /\ main = "loop" /\ systick = "off"
    /\ ask = [id |-> 1, clb |-> NULL]
    /\ owner = NULL /\ disturbed = "no"

-----------------------------------------------------------------------------
(* The main loop: it is suspended while SysTick is in its handler. *)

At(p) == main = p /\ systick = "off"

\* Faulty variant: the timestamps of the last read are not forgotten.
RequestKeepsIndex(id, clb) ==
    /\ At("loop") /\ main' = "clear"
    /\ ask' = [id |-> id, clb |-> clb]
    /\ UNCHANGED <<state, sensor, idx, ready, callback, timer, systick, owner, disturbed>>

\* dht_read_async is called, and resets the read before it looks at the state.
Request(id, clb) ==
    /\ At("loop") /\ main' = "clear"
    /\ idx' = 0
    /\ ask' = [id |-> id, clb |-> clb]
    /\ UNCHANGED <<state, sensor, ready, callback, timer, systick, owner, disturbed>>

ClearReady ==
    /\ At("clear") /\ main' = "check"
    /\ ready' = 0
    /\ UNCHANGED <<state, sensor, idx, callback, timer, systick, ask, owner, disturbed>>

\* dht_send_start, a few instructions against a period of 20 ms.  Then a
\* blocking read waits for the flag.
Accept ==
    /\ At("check") /\ main' = IF ask.clb = NULL THEN "wait" ELSE "loop"
    /\ state = "IDLE" /\ ask.id \in Sensors
    /\ sensor' = ask.id /\ callback' = ask.clb
    /\ state' = "START" /\ timer' = "RUNNING"
    /\ owner' = ask.clb /\ disturbed' = "no"
    /\ UNCHANGED <<idx, ready, systick, ask>>

\* Faulty variant: the sensor is stored before the state is looked at, and
\* the callback only after it.
RefuseStoresId ==
    /\ At("check") /\ main' = "loop"
    /\ ~(state = "IDLE" /\ ask.id \in Sensors)
    /\ sensor' = IF ask.id \in Sensors THEN ask.id ELSE sensor
    /\ disturbed' = IF state = "IDLE" THEN disturbed ELSE "yes"
    /\ UNCHANGED <<state, idx, ready, callback, timer, systick, ask, owner>>

Refuse ==
    /\ At("check") /\ main' = "loop"
    /\ ~(state = "IDLE" /\ ask.id \in Sensors)
    /\ callback' = ask.clb
    /\ disturbed' = IF state = "IDLE" THEN disturbed ELSE "yes"
    /\ UNCHANGED <<state, sensor, idx, ready, timer, systick, ask, owner>>

\* A blocking read sees the flag; its result goes to its caller.
StopWaiting ==
    /\ At("wait") /\ main' = "collect"
    /\ ready = 1 /\ ready' = 0
    /\ UNCHANGED <<state, sensor, idx, callback, timer, systick, ask, owner, disturbed>>

Collect ==
    /\ At("collect") /\ main' = "loop"
    /\ state' = "IDLE"
    /\ UNCHANGED <<sensor, idx, ready, callback, timer, systick, ask, owner, disturbed>>

\* dht_data_watcher sees the flag, and then calls the callback.
dht_data_watcher ==
    /\ At("loop") /\ main' = "answer"
    /\ ready = 1 /\ ready' = 0
    /\ UNCHANGED <<state, sensor, idx, callback, timer, systick, ask, owner, disturbed>>

\* What dht_get_result may find; the checksum decides about a decoded frame.
dht_get_result ==
    CASE state = "DATA_DECODING" -> {"OK", "CHECKSUM_ERROR"}
      [] state = "TIMEOUT"       -> {"NO_RESPONSE"}
      [] OTHER                   -> {"UNKNOWN"}

\* The answer's result is given to the callback, unless it is NULL.
Answer ==
    /\ At("answer") /\ main' = "loop"
    /\ state' = "IDLE"
    /\ UNCHANGED <<sensor, idx, ready, callback, timer, systick, ask, owner, disturbed>>

-----------------------------------------------------------------------------
(* SysTick: the scheduler stops the task whose period elapsed and calls it. *)

Elapse ==
    /\ systick = "off" /\ systick' = "call"
    /\ timer = "RUNNING" /\ timer' = "STOPPED"
    /\ UNCHANGED <<state, sensor, idx, ready, callback, main, ask, owner, disturbed>>

\* Faulty variant: the timeout of the answer is not started.
EndStartUntimed ==
    /\ systick = "call" /\ systick' = "off"
    /\ state = "START" /\ state' = "READING"
    /\ UNCHANGED <<timer, sensor, idx, ready, callback, main, ask, owner, disturbed>>

\* dht_on_timeout in DHT_STATE_START.
EndStart ==
    /\ systick = "call" /\ systick' = "off"
    /\ state = "START" /\ state' = "READING"
    /\ timer' = "RUNNING"
    /\ UNCHANGED <<sensor, idx, ready, callback, main, ask, owner, disturbed>>

\* dht_on_timeout in DHT_STATE_READING: an edge may still come between the
\* switch over the state, the store of the state and the store of the flag.
SeeReading ==
    /\ systick = "call" /\ systick' = "timeout"
    /\ state = "READING"
    /\ UNCHANGED <<state, sensor, idx, ready, callback, timer, main, ask, owner, disturbed>>

\* Faulty variant: the flag is raised and the state left alone.
StoreTimeoutForgets ==
    /\ systick = "timeout" /\ systick' = "ready"
    /\ UNCHANGED <<state, sensor, idx, ready, callback, timer, main, ask, owner, disturbed>>

StoreTimeout ==
    /\ systick = "timeout" /\ systick' = "ready"
    /\ state' = "TIMEOUT"
    /\ UNCHANGED <<sensor, idx, ready, callback, timer, main, ask, owner, disturbed>>

StoreReady ==
    /\ systick = "ready" /\ systick' = "off"
    /\ ready' = 1
    /\ UNCHANGED <<state, sensor, idx, callback, timer, main, ask, owner, disturbed>>

\* A period that elapsed when the answer was complete already.
TooLate ==
    /\ systick = "call" /\ systick' = "off"
    /\ state \notin {"START", "READING"}
    /\ UNCHANGED <<state, sensor, idx, ready, callback, timer, main, ask, owner, disturbed>>

dht_on_timeout == EndStart \/ SeeReading \/ StoreTimeout \/ StoreReady \/ TooLate

-----------------------------------------------------------------------------
\* Faulty variant: the last edge does not raise the flag.
EdgeUnready ==
    /\ state = "READING"
    /\ idx' = idx + 1
    /\ IF idx' = Timestamps
       THEN timer' = "STOPPED" /\ state' = "DATA_DECODING"
       ELSE UNCHANGED <<timer, state>>
    /\ UNCHANGED <<sensor, ready, callback, main, systick, ask, owner, disturbed>>

\* EXTI: an edge of the sensor that is read, at any number; the handlers ignore
\* other sensors and other states.
Edge ==
    /\ state = "READING"
    /\ idx' = idx + 1
    /\ IF idx' = Timestamps
       THEN timer' = "STOPPED" /\ ready' = 1 /\ state' = "DATA_DECODING"
       ELSE UNCHANGED <<timer, ready, state>>
    /\ UNCHANGED <<sensor, callback, main, systick, ask, owner, disturbed>>

\* The driver's own steps; a client adds its requests and the answers.
Working ==
    \/ ClearReady \/ Accept \/ Refuse \/ StopWaiting \/ Collect \/ dht_data_watcher
    \/ Elapse \/ dht_on_timeout \/ Edge

DhtNext ==
    \/ \E id \in Ids, clb \in Callbacks \cup {NULL} : Request(id, clb)
    \/ Answer
    \/ Working

DhtSpec == DhtInit /\ [][DhtNext]_dht

-----------------------------------------------------------------------------
(* Properties. *)

\* Every variable has its type (DHT_DRIVER, dht_driver.c).
DhtTypeOK ==
    /\ state \in States /\ sensor \in Sensors
    /\ idx \in 0..Timestamps /\ ready \in {0, 1}
    /\ callback \in Callbacks \cup {NULL}
    /\ timer \in {"RUNNING", "STOPPED"}
    /\ main \in {"loop", "clear", "check", "wait", "collect", "answer"}
    /\ systick \in {"off", "call", "timeout", "ready"}
    /\ ask \in [id : Ids, clb : Callbacks \cup {NULL}]
    /\ owner \in Callbacks \cup {NULL} /\ disturbed \in {"no", "yes"}

(* An edge finds room in DHT_MEASURE_TIMESTAMPS, whatever reads were refused *)
(* and whenever the last edge raced the timeout: READING is left with the    *)
(* last timestamp and entered only after the index was reset.                *)
IndexInBuffer == state = "READING" => idx < Timestamps

(* A read in progress has a timeout before it: an edge that stops the task   *)
(* has ended the read, and a refused read does not touch the task.           *)
ReadIsTimed ==
    state \in {"START", "READING"} => timer = "RUNNING" \/ systick # "off"

(* The main loop takes an answer only of a read that ended: the flag never   *)
(* outlives its read, and the timeout raises it after the state is stored.   *)
AnswersEndedRead == main \in {"answer", "collect"} => state \in Ended

(* A read ends, by its last edge or by its timeout, and the driver is free   *)
(* again.  Unless another read is asked for while it is in progress: that    *)
(* read is refused, and may clear the flag of the one that has just ended.   *)
ReadEnds == state # "IDLE" ~> (state = "IDLE" \/ disturbed = "yes")

(* "This callback will be called after read ends (either success or error)"  *)
(* (dht_read_async, dht_driver.h): the callback that is called is the one    *)
(* that the read was started with.                                           *)
CallbackOfRead == main = "answer" => callback = owner
=============================================================================
