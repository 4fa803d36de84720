# SmartHome_CoreApplication: formal models

TLA+ models of the SmartHome core application, the bare-metal C firmware of an
STM32F411 that runs a house: it reads humidity sensors, drives relays, a stairs
light and a bathroom fan, and talks to phones over Bluetooth and WiFi. The
models are translated from the C sources under `src/sw`; every definition and
the lines it stands for are listed under `map` in `PROJECT.json`.

## 1. The system

There is no operating system. `src/main.c` initialises the modules and then
calls five watchers for ever:

    i2c_watcher; dht_data_watcher; sch_task_watcher; btengine_string_watcher; wifi_data_watcher

Interrupts preempt this loop and each other: SysTick (the 10 ms time base, which
also runs the HIGH priority tasks) preempts the loop, TIM4 and USART1 preempt
SysTick, and the EXTI, I2C, USART2 and TIM2 interrupts preempt everything.
Modules talk by direct calls, by callbacks that they register with each other,
and by variables that an interrupt writes and the loop reads. Nothing is
persisted, so a restart is a fresh start.

| Component | State | Operations | Interacts with |
|---|---|---|---|
| task scheduler | table of tasks, backlog of ticks | subscribe, schedule, unsubscribe, set period/state, trigger; walk for LOW (loop) and HIGH (SysTick) | called by every module, from the loop, from callbacks and from interrupts |
| bathroom fan | state, trigger, working time, limits | start, stop, setters; humidity event; one-second task | env monitor (listener), scheduler (task), relays board |
| stairs LED module | state, step, program, configuration | start, stop, always-on, select and replace programs; sensor event; step task | inputs board (listener), scheduler (task), relays board, I2C |
| DHT driver | state, buffer of 42 timestamps, ready flag, callback | blocking and callback read; timeout task (SysTick); edge interrupt | scheduler, env monitor |
| environment monitor | selected sensor, error maps, listeners | periodic read of the next sensor, answer, listeners | DHT driver, scheduler, fan, notification manager |
| I2C driver | transaction, timeout counter, callbacks | blocking and callback read and write; interrupt; watcher; timeout | boards, scheduler |
| relays board | wanted and read-back relay states | set with verification, periodic read | I2C driver, notification manager |
| inputs board | input states, listeners | EXTI debounce through a TRIGGER task, read, notify | I2C driver, scheduler, stairs, notification manager |
| UART and Bluetooth engines | receive and transmit rings | send, ISR per byte, watcher per string | WiFi driver, command parser, logger |
| WiFi driver and manager | command reply buffer, client table | blocking commands, asynchronous client events | UART engine, notification manager |
| notification manager | none of its own but the reply buffers | requests of a phone, broadcasts of events | every module |
| time counter, timestamps | calendar, callbacks | SysTick increment, set, difference | scheduler |

What is hard here, and what makes each part correct:

* *scheduler*: two walks and a preempting API share one table without a lock, and
  the backlog of ticks is decremented without one. A task must not be dropped,
  called late by a period, or left behind after a trigger.
* *fan*: four sources of events (humidity, user, timer, configuration) and relay
  writes that may fail. Automatic runs must be limited, a suspended fan must wait.
* *stairs*: one step counter indexes two lists and counts both ways, re-arming its
  own timer, while the sensor and the user turn it round.
* *DHT, env*: an answer races its own timeout, and a second read in progress
  clears the flag and the callback of the first.
* *I2C*: the timeout interrupt races the last transfer interrupt.
* *inputs, relays*: the debounce is re-armed by each bounce; a write is verified by
  a read that may fail.
* *UART, Bluetooth*: counters incremented in an interrupt and decremented in the loop.
* *WiFi*: a blocking command throws away the events that arrive meanwhile.
* *notifications*: a request over many relays that fails half way.
* *time*: calendar rules, timestamps that wrap.

`PROJECT.json` lists these places as `hazards`, each at its line, with the
properties that cover it or the reason why none does.

## 2. Modules

| Module | Models | Checked with |
|---|---|---|
| `TaskScheduler` | `task_scheduler.c` | `MCTaskScheduler` |
| `TaskSchedulerTicks` | `TaskScheduler` and a history of the ticks that are due | `MCTaskSchedulerTicks` |
| `TaskSchedulerProofs` | theorems about both | tlapm |
| `BathroomFan` | `bathroom_fan.c` | `MCBathroomFan` |
| `BathroomFanProofs` | theorems about `BathroomFan` | tlapm |
| `StairsLed` | `stairs_led_module.c` | `MCStairsLed` |
| `LightFade` | what the stairs light promises, the abstract specification | `StairsLed!ImplementsFade` |
| `StairsLedProofs` | theorems about `StairsLed`, and that it implements `LightFade` | tlapm |
| `DhtDriver` | `dht_driver.c`, for any client | `MCEnvMonitor` |
| `EnvMonitor` | `env_monitor.c` and its users on top of `DhtDriver` | `MCEnvMonitor` |
| `EnvMonitorProofs` | theorems about both | tlapm |
| `I2cDriver` | `i2c_driver.c`: blocking transfers | `MCI2cDriver` |
| `Transfer` | what a blocking transfer promises, the abstract specification | `I2cDriver!ImplementsTransfer` |
| `I2cDriverProofs` | theorems about `I2cDriver`, and that it implements `Transfer` | tlapm |
| `BoardBus` | how the boards use `Transfer`; ports and their bytes | `MCBoards` |
| `RelaysBoard` | `relays_board.c` and the board | `MCBoards` |
| `InputsBoard` | `inputs_board.c`, `inputs_interrupt_handler.c` and the board | `MCBoards` |
| `Boards` | both boards on one bus, and the relay requests of `notification_manager.c` | `MCBoards` |
| `BoardsProofs` | theorems about the boards and the requests | tlapm |
| `UartEngine` | `uart_engine.c`: the receiving half | `MCWifiManager` |
| `WifiDriver` | `wifi_driver.c` on `UartEngine`, and the WiFi module | `MCWifiManager` |
| `WifiManager` | `wifi_manager.c` on `WifiDriver` | `MCWifiManager` |
| `WifiManagerProofs` | theorems about the whole WiFi stack | tlapm |
| `TimeCounter` | `time_counter.c` and `system_timestamp.c`: calendar and differences | tlapm only |
| `TimeCounterProofs` | theorems about `TimeCounter` | tlapm |

Three stacks are compositions: `EnvMonitor` on `DhtDriver`; `Boards` on
`RelaysBoard` and `InputsBoard`, both on `BoardBus` and so on `Transfer`; and
`WifiManager` on `WifiDriver` on `UartEngine`.

Names are those of the code. An operator whose comment begins with "Faulty
variant" stands next to the definition that it corrupts and is used by no
specification: it is what a plausible mistake in that code would look like, and
replacing the definition by it makes TLC refute one property (`mutants`).

### TaskScheduler

State: `items` and `size` are `items_list`; `sch_time_changed` is the backlog;
`pc`, `idx`, `reg` and `active` say where in `sch_call_tasks` the loop (`main`)
and SysTick (`systick`) are; `call` is the composite API call that `main` is
inside of. The unit of interleaving is one access to shared memory where the
code has a race: the load and the store of `sch_time_changed--`, the load and
the store of `item->count += basetime`, the fields that
`sch_subscribe_and_set` and `sch_schedule_task` set one after the other, and
each slot of a walk. SysTick preempts `main` between any two of its steps and
runs to the end; the other interrupts call a setter in one step between any two
steps of either. Which caller calls what is a constant (`Calls`), because it is
a fact about the rest of the firmware: only the loop subscribes.

`size++` and `size--` are one step each, although they are a load and a store.
That is right because `size` has one writer at a time: SysTick removes a task
only when a HIGH task is of type ONCE, which no caller sets up. The rule is
`HighTaskAssumption`, and what it buys is a property of its own,
`SizeHasOneWriter`: SysTick changes `size` only while `main` is between the
setters of a HIGH task (whose slot still has the type of an empty one), and
`main` never changes it there. With a HIGH ONCE task `main` would store a size
that SysTick had changed meanwhile; the scheduler does nothing against it.

Left out: `sch_deinitialize` (nobody calls it), the getters, and the copy of the
table while it grows, which SysTick could see half done (the firmware's eight
tasks fit the table of twenty).

### BathroomFan

All entry points run in the main loop, one action each. The relay is external:
`rel_set` may fail, and then the relay kept its state or took the new one and
lost only the acknowledge. `timer` is the scheduler's state of `fan_on_timeout`.
Others switch the relay too: phones (`notification_manager.c:410,425`), the
terminal (`rel set`, `command_parser.c:232`) and a board that loses its power.
They are `OthersSwitch`, which may come at any time and tells the fan nothing, as
in the code: a fan that is ON may stand without power until its time is over,
and one that is OFF may run without a limit.

History variables: `writes` tells whether any write of the fan has failed, for
the property that holds only until then; `last` tells what became of its last
write (`set`, `failed`, or `undone` by somebody else). `FanMatchesRelay` says
what the module can answer for: its state is the relay's from a write that
succeeded until somebody undoes it, and ON never rests on a write that failed.
That the relay agrees with the fan at all times is false.

### StairsLed and LightFade

A program is its two numbers of steps (`n` and `m`); the LED patterns and the
periods are data. `slm_on_timeout` is one action per state of the light. The
fade seen from the stairs is a brightness and a direction (`Level`, `Goal`):
`StairsLed` implements `LightFade` under that mapping, in which the OFF effect
and the waiting at full light are stutters. The power is not the light's alone:
`RELAY_STAIRCASE_LED` is switched by phones, the terminal and a board without
power as well (`OthersSwitch`), and a write of the light may fail. The history
variable `heard` tells that the light's last write took effect and nobody has
switched since. `LightFade` has both: the light asks for power with the first
level of a fade and gives it up with the last, never in between; others switch
when they like; and while `heard` holds, the power is what was asked for last
(`PowerFollowsLight`).

### DhtDriver and EnvMonitor

`DhtDriver` is the driver under any client that calls `Request` and takes
`Answer`; `EnvMonitor` extends it with its own state and restricts the client to
what the firmware has: one periodic task with a callback, and users (Bluetooth
commands) with blocking reads. `main` and `systick` are where the two lower
contexts are; the edge interrupt preempts both and is one step. The steps of the
main loop are its accesses to what the interrupts write: `dht_read_async` resets
the index, then the flag, then stores the callback and looks at the state, which
no interrupt takes out of IDLE. The periods are left open, a running timer may
elapse at any time: the task that ends a 20 ms pulse can be late behind other
tasks, and a blocked main loop catches up on several ticks, so that
`env_on_timeout` may find its own last read unfinished. A frame has `Timestamps`
edges, but a line may have any number of them.

Two history variables: `owner` is the callback that the read in progress was
started with, `disturbed` tells whether a read was refused since. The code treats
a refused read as if it had been accepted until it looks at the state, and so
loses the callback (`env_unanswered`) or the raised flag of the other one. The
second leaves the driver in TIMEOUT or DATA_DECODING with nothing that would take
it out again: every later read is refused. `ReadEnds` and `SensorsTakeTurns`
exclude exactly that.

Left out: the error statistics and the table of listeners, the decoding of a
frame, and failing scheduler calls: `dht_on_timeout` is a TRIGGER task that stays
in the table, for which `TaskScheduler` shows that they succeed.

### I2cDriver and Transfer

`state`, `request`, `handled`, `buf` and `ready` are `i2c_driver` and its
buffer, `timer` is what the scheduler counts for `i2c_on_timeout`, `bus` what the
peripheral is busy with. `main` and `systick` are where the two lower contexts
are; the bus interrupt preempts both and is one step per event. The steps of the
lower contexts are their accesses to what the interrupts write: a call stores
STARTED and arms the timeout (a read in this order, a write in the other), waits
for the flag, takes the status, and goes through `i2c_watcher` before it returns;
the timeout looks at the state, stores ERROR and raises the flag, with the
interrupt of the last byte possible between any two of these. A device may stall
anywhere for ever, and a byte that was late may come until the peripheral is
reset.

The terminal can reset the driver, set its timeout (`i2c_set_timeout`, from one
tick up) and ask for transfers of any size. Sizes above the buffer are refused
(`Refuse`). Size 0 is accepted, and then `bytes_handled` equals
`bytes_requested` only when the `uint8_t` has wrapped: `ByteMod` bytes move
(256 in the code), most of them from or to memory behind the buffer. The model
has such transfers; what lies behind the buffer is any byte for a write, and
nothing of the program's for a read. A read of size 0 ends without a stop and
leaves the device held (`bus = "held"`).

`Transfer` says what callers rely on: the bytes of a call move once and in their
order while it lasts, none moves after it, and it returns OK only when all have
moved; `Amount` is how many, `ByteMod` for a size of 0. ERROR is allowed also
when all have moved, because a timeout may win over the last byte. A call that is
too long is refused. `I2cDriver` implements it under the mapping of `T`, in which
all bookkeeping stutters.

Left out: the calls with a callback, which nobody makes; `i2c_deinitialize`; and
what a device that a read of size 0 left held does afterwards: it may raise the
BTF interrupt, whose handler does not clear it, so that the program may stand
still there.

### BoardBus, RelaysBoard, InputsBoard and Boards

The boards are modelled on `Transfer` and not on `I2cDriver`: every call is
`Call`, a `Move` for each of its two bytes, and `ReturnOk` or `ReturnError`, and
lines, power and the EXTI interrupt do what they like between these. This is
sound because the driver implements `Transfer`, which `CallsAreTransfers` proves
for calls of every size. The terminal's own transfers (`i2c write_data`,
`i2c read_data`, `i2c reset`) are no calls of the boards: they can switch relays
behind the module, and are left out here. All calls block the main loop, so `client` says which function waits, and what it does
after the call is one step with the return.

A port is two bytes and a byte the set of its lines that are on. `current_relays`
is what the module believes and `wired` what the board does; `current_states`,
`lines` and `given` are the same for the inputs, where `given` is each line as
the expander gave it last: INT is low while they differ, and only its falling
edge interrupts. `Boards` adds the requests of phones to set relays: `asked`,
what is left of it (`todo`), and the `reply`.

History variables: `disturbed` tells that a write failed half way or that the
board lost its power, until a transfer of the whole port that began later has
succeeded; `missed` tells that a change of a line went by without an edge or
that its reading failed. Left out: listeners, the image `current_status`, and the
setters of periods.

### UartEngine, WifiDriver and WifiManager

`UartEngine` is the receive ring in units of lines. `string_cnt--` of the main
loop is a load and a store, and `uartengine_clear_rx` two stores, with the
interrupt possible in between. `WifiDriver` adds the command the main loop waits
for (`cmd`), what the loop does with each line, the timeout, and the module: it
answers what it `owes` in order, when it likes, well or with an error, ignores
commands while it is busy, and tells of its clients at any time (`conns`,
`open`, `mux` are its own state). `WifiManager` adds the table of clients
(`connected`, `clients_cnt`), and the operation in progress as a `plan` of
commands: initialisation, fetching the time, which closes the server and opens
it again, sending and broadcasting. What follows a command that fails is
`OnFailure`.

`late` tells that a command gave up on an answer that may still come. Answers do
not carry the name of what they answer, so such an answer is taken for that of
the next command and the dialogue stays out of step until the module is reset.
`followed` tells that no line about a client went by: a command that waits for
its answer throws away every other line. Both are what the code does, and
`TableFollows` and `RunningMeansOpen` say what holds as long as it does not.

Left out: `wifimgr_get_ip_address` and `wifimgr_get_network_name`, which the
terminal calls (`ip get` and `network get`, `command_parser.c:353,372`). Both
take lines off the ring until they find the one they want (`wifi_driver.c:377,
440`), throw away a line about a client that comes before it, and leave the OK
that the module sends behind it unread, which the next command then takes for
its own. No property here covers a program in which they are called: after one
of them `TableFollows` and `RunningMeansOpen` may fail until a reset.
`wifimgr_get_time` is modelled, although nothing in the firmware calls it.

Abstractions: the commands that test and configure the module are one (`SETUP`);
the bytes of the time server's answer are one line, while in the code they hold
no newline and, when late, run into the line after them; a full ring holds the
module back, while in the code it is overwritten unnoticed: it is assumed that the
ring holds what the module sends between two reads of the main loop. A send while the
table is not allocated (after a reset that failed) is left out: the code would
follow a NULL pointer.

### TimeCounter

The timestamp's fields, the calendar of `month_day_cnt`, the increment of SysTick
with all its carries, the setting of a UTC time as local time, and the 16 bit
tenths of seconds. `time_is_time_ok` refuses 29 February, and it accepts a day
zero, with any month or with month zero (`month_day_cnt[0]` is 0): a phone may
send them (`notification_manager.c:289-306`), and `SetTime` does.

## 3. Runs

| Run | Shows |
|---|---|
| `scheduler_table` | the table stays consistent, counts stay below periods and subscriptions are stored, also when the table grows; `size` has one writer at a time |
| `scheduler_trigger` | triggers are not lost, running tasks are called, no walk without a tick |
| `scheduler_lost_tick` | *violated*: a tick that SysTick counts inside `sch_time_changed--` is lost |
| `fan` | the fan's state machine with relay writes that fail and others who switch the relay |
| `fan_ignored` | *violated*: after a failed manual start humidity is ignored while the fan is off |
| `stairs` | the light's state machine, and the refinement of `LightFade`, while others switch its relay |
| `env` | the driver and the monitor under refused reads, noise and silent sensors |
| `env_unanswered` | *violated*: a refused blocking read takes the callback of the read in progress |
| `i2c` | only a transfer of no bytes leaves the buffer; a call leaves the driver free and is a `Transfer`, whatever the device and the timeout do, and it returns when the timeout is two ticks |
| `i2c_one_tick` | *violated*: with a timeout of one tick a write to a stalled device never returns |
| `boards` | the module agrees with the relays, no change of an input is forgotten silently, replies tell the truth |
| `wifi` | lines are there when they are read, the table follows the clients, a server taken for running is open, operations end |

The four violated properties quote the headers and are listed under `findings`
with the lines that break them. In `i2c_one_tick` the tick comes between the
arming of the timeout and the store of STARTED (`i2c_driver.c:104,105`):
`i2c_on_timeout` finds an IDLE driver and does nothing, and no other tick follows.
With two ticks or more (the default is ten) that cannot happen, because at most
one tick falls into the few instructions there; `CallReturns` says so.

**Bounds.** The scheduler runs have two tasks and a table of one or two slots:
one slot makes it grow, two make a walk have a slot before and after the one a
race is about. Periods are 5 ms (refused), one tick and two ticks: with two
ticks a count is nonzero between walks, which the races on it need. `MaxBacklog`
stops SysTick at a backlog of two (three in `scheduler_lost_tick`), enough for a
tick that arrives while another is being taken; the counter's wrap at 256 is
out of reach and `TickMod` only keeps it finite. `MaxDue` bounds the history of
ticks and stands for "this many or more". `Calls` in `scheduler_trigger` are the
firmware's TRIGGER tasks: `inp_on_timeout`, armed by an interrupt,
`slm_on_timeout`, re-armed by itself, `dht_on_timeout`, HIGH, re-armed by itself
and stopped by an interrupt. The tasks are symmetric in `scheduler_table`, which
checks no liveness. The fan's working times are 1 to 3 s, so a limit can be
passed, met and lowered below the time already worked; thresholds, hystereses
and humidities include the extremes of the code (95 and 20, 20 and 0) and every
comparison's both sides. The stairs have two programs, one of the shortest
length for which every state has a step of its own, and replacements that are
longer and shorter than both; one relay write failure or many make no difference
to the code, which never retries. The monitor has three sensors, so that a
selection can be off by one without being right again, and frames of three
timestamps: a first, a last and one between.

Transfers have none to three bytes of two values: a first, a middle and a last
one, and values that tell them apart. `ByteMod` is 5 in place of 256: a transfer
of no bytes moves two bytes more than the buffer has, and sizes that are refused
are left (4). The timeout is one tick or two and changes between calls; in
`i2c_one_tick` it is one. The boards have one relay and one input in each byte of their ports, so
that half a transfer is visible; the requests are empty, single, over both
bytes, contradicting themselves, and with an id that is refused half way. The
values of bytes do not matter there (a port is a set of lines). The WiFi run has
a table of one client and two ids, so that one client is beyond the table; two
lines that wait; one command that is not answered; `CountMod` is 2 in place of
256: below zero `clients_cnt` wraps to 1 in place of 255, and the code's one
comparison (`clients_cnt < WIFIMGR_MAX_CLIENTS`) refuses either. The run shows
nothing of what two waiting answers could do together.

**Fairness.** `TaskScheduler` is fair to SysTick (a hardware timer fires and its
handler ends) and strongly fair to `main`, which is disabled again and again
while SysTick runs but keeps running between ticks. The fan and the stairs are
weakly fair to their timeout task alone: that is what `RunningTaskCalled` shows
of the scheduler. Users, sensors and humidity are never assumed to do anything.
The monitor is weakly fair to the main loop and SysTick, which a read preempts
three times at most, and strongly to `env_on_timeout`, which the scheduler calls
in the end but which waits behind the blocking reads of users; no sensor is
assumed to answer and no user to stop asking. The I2C driver is weakly fair to
the main loop and to SysTick, never to the device: a call returns because of its
timeout alone. The WiFi manager is weakly fair to the main loop, and strongly to
the end of a wait for a defined answer, which `ts_get_diff` reaches however many
lines come; the wait for the details of a client (`CIPSTATUS`) starts anew with
each line, so `OperationsEnd` asks that the module does not tell of clients then
for ever. The boards are checked for safety only. `RunningTaskCalled` excludes a task whose period is restarted for ever, and
`LightGoesOut` asks that the stairs are deserted and the always-on request gone.

## 4. Proofs

All theorems hold for every value of the constants that the `ASSUME`s allow:
tables of any size up to 255, any number of tasks, any periods, any programs,
transfers of any length, any layout of a port, requests of any length, rings,
client tables and backlogs of answers of any size. The assumptions say what the
code's `#define`s and types say (sizes are naturals, a line of a port is in byte
1 or 2, a request is a list of an id and a state, `clients_cnt` is wide enough
for the table). The ones that say more are `LongEnough`, the two caller rules of
the scheduler and its rule for HIGH tasks (`HighTaskAssumption`), and `NoWrap`,
all explained below or in section 2. TLC evaluates the assumptions of the modules in every run.

* `TaskSchedulerProofs`. `TypeCorrect` needs `WalkInBounds`: a walk that is
  between the load of a count and its store stands on a slot of the table, which
  holds because no caller grows or shrinks the table then. `TableIsConsistent`
  and `SubscriptionsStore` rest on `SchInv`: beside the two stated facts no task
  is in two slots (`TasksDiffer`), and a walk that is at a slot finds its task there until it
  leaves (`Holds`: the task that SysTick may remove is HIGH, the one that the main
  loop stands on is LOW). This is inductive only under two rules
  for the callers, named in the theorems: no ONCE task unsubscribes itself in its
  callback (the scheduler would then vacate a free slot again and count `size`
  down once more) and no task that is in the table is subscribed again. All
  callers in the firmware keep both. That the model's single steps `size++` and
  `size--` are the code's is `SizeIsNotTorn`: under the same rules and the one for
  HIGH tasks SysTick and `main` never both write `size` (`HighInv`: a HIGH task of
  type ONCE is in the table only while `main` is between its setters).
  `CountsStayBelow` and `TriggersAreKept` need
  no such rule: the second goes through every access of every context and shows
  that none but a call, a stop or a removal takes RUNNING from a TRIGGER task.
  `NoTickIsInvented` is about the walk of LOW tasks and the history `due`. Its
  invariant `DueInv` says what main relies on between its test, its load and its
  store: only main takes ticks, so the one that it saw is still there and SysTick
  can only have added some. It assumes that the backlog stays below the wrap of
  the counter (`NoWrap`), as no counter that has wrapped tells how many ticks
  are due, and as the hazard at `task_scheduler.c:301` says.
* `BathroomFanProofs`. `AutoRunsAreTimed`, `SuspendIsRespected` and
  `RelayAgreement` hold whatever relay writes fail and whoever else switches the
  relay; `ManualRunsAreUntimed` holds until a write fails. The last two need the
  task's state in one invariant (`Agreement`): a manual start is untimed because
  every way out of ON stopped the task. `AutoRunsAreTimed` is the safety part of
  `AutoRunEnds`; the run checks the latter.
* `StairsLedProofs`. `StairsInv` adds to the properties that all programs in the
  table are long enough and that a lit light plays the configured program; its
  types are `TypeCorrect`. `LightFades` is the refinement, with the light's own
  writes of the relay as `Ask` and those of the others as `OthersSwitchPower`;
  `PowerFollowsLight` is what it means for the power. The assumption `LongEnough` is about
  `slm_replace_program`: `slm_is_program_valid` looks at no step count, and with
  a replacement of two steps `step_id` runs past the program's end.
* `EnvMonitorProofs`. `DhtInv` is inductive for the driver under any client
  (`NextDhtInv`), and every step of `EnvMonitor` is a step of the driver
  (`NextUsesDriver`), so the driver's theorems hold in the composition.
  `DataIsOwn` needs `ReadsSelected`: a read with a callback is one of the selected
  sensor, and a read without one keeps the main loop, where the selection changes.
* `I2cDriverProofs`. `DriverIsFree` is inductive with what makes the race of the
  timeout harmless (`FreeInv`): a transfer that ended well has let the bus go
  before the flag is raised, and the timeout is never half way between its look
  at the state and its stores when a new call begins. `CallsAreTransfers` shows
  step by step that every action is a step of `Transfer` or a stutter under the
  mapping of `T`. It needs how far the peripheral is (`DataInv`: a write has sent
  one byte more than the device has taken, a read none, and `bytes_handled` is
  that number in a byte, `Wrapped`) and what a status that was taken is worth
  (`ResultInv`: with OK all bytes moved). All sizes and all timeouts are in it:
  for size 0 `ToMove` is `ByteMod`, and `TransfersStayInside` says that only then
  the index leaves what was asked for. No theorem says that a call returns.
* `BoardsProofs`. One invariant, `BoardsInv`, with a part per component, for the
  composition as it runs; `BoardsInvariant` is that it always holds.
  `BoardIsBelieved` holds between calls only, so `RelaysInv` extends it into
  them: byte by byte, what was sent or read since the board was disturbed last is
  what the board shows, and nothing else is in these bytes (`InPlace`).
  `ChangesArePursued` needs the same of the inputs, where what was read of a line
  that changed since is read again because its edge armed the debounce. `RepliesAreTrue`
  needs what a request has achieved so far (`RequestInv`): for the last order
  of each relay among those that were carried out, the relay is in that state; a
  later order of the same relay may still undo it. The requests name relays any
  number of times, in any order.
* `WifiManagerProofs`. One invariant again (`WifiInv`, `WifiInvariant`), in five
  parts. `UartInv`: the count of lines is behind the ring in each of the races of
  `string_cnt--` and `uartengine_clear_rx`. `PlanInv`: what plans are made of; a
  send is whole, the long operations end with opening the server. `DialogueInv`:
  while no command gave up on an answer (`~late`), the answers go with the
  commands: nothing is owed and nothing waits, or one answer is owed, or one waits
  alone and tells the truth of the module (`Truth`). `RunInv`: what the module
  does when a plan is at its end. `TableInv`: for each client the lines that wait,
  read in order, lead from what the table says to what the module knows
  (`Leads`): they tell of it by turns, beginning with the opposite of the table,
  and the last one is true. `CountStaysBehind`, `TableIsTheModules` and
  `ServerIsOpen` follow from these. The end of the
  fetch of the time empties the table (`wifi_manager.c:357`). That no client is
  lost by that needs one more fact: the table is empty already, because the
  module accepts `CIPMUX=0` only without clients and after it has told of all who
  left; until then that command is still to come (`MuxToCome`).
* `TimeCounterProofs`. `DatesExist` says that the clock shows a date that exists
  or a day zero (`ClockReads`), and that a date that exists stays one while SysTick
  counts and whenever a day other than zero is set, while a day zero becomes one at
  its midnight (`DatesLast`). It rests on the length of each month
  (`Months`, `MonthOfZero`); `SetDateExists` and `SetDateOfZero` serve the midnight
  of SysTick and that of the local time. `LastDaysSkipped` shows that counting agrees with the
  calendar except before the last day of a month, which it never reaches: on 30
  January midnight leads to 1 February. `time_counter.c:190` compares the day that
  was counted up already, with `>=`; the unit tests pass midnight on last days
  only, for which the result is right. `TimeoutsEnd` bounds what a wait of the WiFi
  driver may lose at the wrap of the counter. `TimeCounter` has no run: the months
  that TLC would have to count through are millions of ticks long.

Every safety invariant and every action property that a passing run checks is proved,
and so are both refinements. Only model-checked are the liveness properties
(`RunningTaskCalled`, `AutoRunEnds`, `LightGoesOut`, `ReadEnds`,
`SensorsTakeTurns`, `CallReturns`, `OperationsEnd`): they rest on fairness, which
needs ENABLED, and that is beyond the prover. The four properties that runs
refute are of course not proved.

## 5. Not modelled, and the plan

Not modelled: the logger (output only), the command parser (dispatch without
state), utilities, the host-side simulation, the example module, and the vendor
library, which is by far the largest part of the repository.

Left out of the modelled components, beside what section 2 names: the tables of
listeners of the environment monitor, the inputs board and the relays board, the
error statistics of the environment monitor (a ring of the last hundred
answers), the transmit ring of the UART engine, the Bluetooth engine (the same
code for the other UART), the callbacks of the I2C driver and of the clock.

Places that are exposed and that no property covers: `rel_read_all` compares
the port with the uninitialised array of its caller in the command parser, and
tells the listeners of the differences;
relays that are not configured shift by a negative count; `inp_initialize` copies
the ids before it looks at the configuration; `uartengine_deinitialize` frees the
buffers with the interrupt enabled; readers of `time_get` may see a time that
SysTick has changed half way.

Planned next, in this order:

1. the error statistics and the tables of listeners, with the theorem that
   `env_register_listener` keeps a listener in one place;
2. the transmit rings, with a theorem like `CountStaysBehind` for their heads;
3. that `EnvMonitor` implements a round robin of its sensors as an abstract
   specification, the safety half of which can be proved.
