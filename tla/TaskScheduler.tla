--------------------------- MODULE TaskScheduler ---------------------------
(***************************************************************************)
(* The task scheduler (sw/task_scheduler/source/task_scheduler.c): a table *)
(* of tasks that the main loop and the SysTick interrupt walk, ticking the *)
(* counters of the running tasks and calling those whose period elapsed.   *)
(*                                                                         *)
(* Two contexts execute sch_call_tasks.  "main" runs the LOW tasks, one    *)
(* walk per tick taken from sch_time_changed; "systick" preempts main      *)
(* between any two of its steps, runs the HIGH tasks and then counts the   *)
(* tick.  A third kind of context, the EXTI/I2C interrupts, has no state   *)
(* here: it preempts both others and calls the API in one step.            *)
(***************************************************************************)
EXTENDS Integers, FiniteSets

CONSTANTS
    Tasks,          \* callbacks that may be subscribed
    NULL,           \* the null function pointer
    Basetime,       \* time_get_basetime(): milliseconds per tick
    InitCapacity,   \* DEFAULT_TASKLIST_SIZE
    Increment,      \* DEFAULT_TASK_INCR
    MaxCapacity,    \* bound: the heap holds no larger table
    TickMod,        \* sch_time_changed wraps at this value (256 in the code)
    MaxBacklog,     \* bound: SysTick does not fire on a backlog this large
    Periods,        \* periods that callers pass
    States,         \* task states that callers pass
    Configs,        \* argument records of sch_subscribe_and_set
    Calls,          \* Calls[k]: the <<operation, task>> pairs that k may call
    SelfRemoval,    \* may a ONCE task unsubscribe itself in its callback?
    Resubscribe     \* may a task that is in the table be subscribed again?

Contexts    == {"main", "systick"}
Callers     == {"loop", "low", "high", "exti"}
TaskTypes   == {"TRIGGER", "PERIODIC", "ONCE"}
TaskStates  == {"EMPTY", "RUNNING", "STOPPED"}
Priorities  == {"LOW", "HIGH"}
PeriodMod   == 65536        \* TASK_PERIOD is uint16_t
ByteMod     == 256          \* SchList.size is uint8_t

Setters     == {"set_period", "set_state", "trigger"}
Operations  == Setters \cup {"unsubscribe", "schedule", "subscribe_and_set"}

\* The arguments of sch_subscribe_and_set; UNKNOWN is an enumeration's end mark.
Config ==
    [priority : Priorities \cup {"UNKNOWN"}, period : 0..(PeriodMod - 1),
     state : {"RUNNING", "STOPPED", "UNKNOWN"}, type : TaskTypes \cup {"UNKNOWN"}]

(* The table's dimensions, and which caller uses which part of the API: no *)
(* callback subscribes a task and no interrupt removes one.                *)
ASSUME ParameterAssumption ==
    /\ NULL \notin Tasks
    /\ Basetime \in Nat \ {0} /\ Basetime < PeriodMod
    /\ InitCapacity \in Nat \ {0} /\ Increment \in Nat \ {0}
    /\ MaxCapacity \in InitCapacity..(ByteMod - 1)
    /\ TickMod \in Nat \ {0} /\ MaxBacklog \in Nat
    /\ Periods \subseteq 0..(PeriodMod - 1)
    /\ States \subseteq {"RUNNING", "STOPPED", "UNKNOWN"}
    /\ Configs \subseteq Config
    /\ SelfRemoval \in BOOLEAN /\ Resubscribe \in BOOLEAN

ASSUME CallAssumption ==
    /\ Calls \in [Callers -> SUBSET (Operations \X Tasks)]
    /\ Calls["low"] \subseteq (Setters \cup {"unsubscribe"}) \X Tasks
    /\ Calls["high"] \subseteq Setters \X Tasks
    /\ Calls["exti"] \subseteq Setters \X Tasks

(* The callers' rule for HIGH tasks: none of type ONCE, none whose setters   *)
(* refuse an argument, none beside a second subscription of the same task.   *)
(* The firmware's two HIGH tasks, dht_on_timeout and i2c_on_timeout, keep    *)
(* it.  size++ and size-- are steps of their own here, while each is a load  *)
(* and a store; the rule is what makes that the same thing: SysTick then     *)
(* changes size only where main does not (SizeHasOneWriter).                 *)
ASSUME HighTaskAssumption ==
    \A cfg \in Configs : cfg.priority = "HIGH" =>
        /\ ~Resubscribe
        /\ cfg.period >= Basetime
        /\ cfg.state # "UNKNOWN" /\ cfg.type \notin {"ONCE", "UNKNOWN"}

VARIABLES
    items,              \* items_list.list, indexed 1..capacity
    size,               \* items_list.size
    sch_time_changed,   \* ticks that the main loop has not taken yet
    pc,                 \* where each context is
    idx,                \* the loop index of each sch_call_tasks
    reg,                \* a value loaded and not yet stored back
    active,             \* the callback that each context executes
    call                \* the composite API call that main is inside of

vars == <<items, size, sch_time_changed, pc, idx, reg, active, call>>

Item ==
    [callback : Tasks \cup {NULL}, state : TaskStates, type : TaskTypes,
     priority : Priorities, period : 0..(PeriodMod - 1), count : 0..(PeriodMod - 1)]

\* A zeroed SchItem, as calloc leaves it.
EmptyItem ==
    [callback |-> NULL, state |-> "EMPTY", type |-> "TRIGGER",
     priority |-> "LOW", period |-> 0, count |-> 0]

NoCall == [fn |-> "none"]

\* A composite call in progress: it is about to set the field.
CompositeCall ==
    [fn : {"subscribe_and_set", "schedule"}, task : Tasks, cfg : Config,
     field : {"priority", "period", "state", "type"}]

-----------------------------------------------------------------------------
(* The table. *)

Slots    == DOMAIN items
Used     == {i \in Slots : items[i].state # "EMPTY"}
capacity == Cardinality(Slots)

HasTask(t) == \E i \in Slots : items[i].callback = t

\* The first slot whose callback is t; callers check HasTask(t).
sch_get_item(t) ==
    CHOOSE i \in Slots :
        items[i].callback = t /\ \A j \in Slots : j < i => items[j].callback # t

sch_is_period_correct(p) == p >= Basetime

\* Faulty variant: a new period does not restart the count.
WithFieldKeepsCount(i, field, value) ==
    CASE field = "priority" -> [items EXCEPT ![i].priority = value]
      [] field = "period"   -> [items EXCEPT ![i].period = value]
      [] field = "state"    -> [items EXCEPT ![i].state = value]
      [] field = "type"     -> [items EXCEPT ![i].type = value]

\* The table with slot i's fields set; period also restarts the count.
WithField(i, field, value) ==
    CASE field = "priority" -> [items EXCEPT ![i].priority = value]
      [] field = "period"   -> [items EXCEPT ![i].period = value, ![i].count = 0]
      [] field = "state"    -> [items EXCEPT ![i].state = value]
      [] field = "type"     -> [items EXCEPT ![i].type = value]

\* Faulty variant: the setters store the enumerations' UNKNOWN.
AcceptsUnknown(field, value) ==
    IF field = "period" THEN sch_is_period_correct(value) ELSE TRUE

\* Whether the setter of a field accepts the value.
Accepts(field, value) ==
    IF field = "period" THEN sch_is_period_correct(value) ELSE value # "UNKNOWN"

-----------------------------------------------------------------------------
Init ==
    /\ items = [i \in 1..InitCapacity |-> EmptyItem]
    /\ size = 0
    /\ sch_time_changed = 0
    /\ pc = [main |-> "loop", systick |-> "off"]
    /\ idx = [c \in Contexts |-> 0]
    /\ reg = [c \in Contexts |-> 0]
    /\ active = [c \in Contexts |-> NULL]
    /\ call = NoCall

\* main is suspended while the SysTick handler runs.
Executing(c) == c = "systick" \/ pc["systick"] = "off"

MainFree == Executing("main") /\ call = NoCall

\* Some context is at a point where it may call the operation on the task.
MayCall(op, t) ==
    \/ MainFree /\ pc["main"] = "loop" /\ <<op, t>> \in Calls["loop"]
    \/ MainFree /\ pc["main"] = "run" /\ <<op, t>> \in Calls["low"]
    \/ pc["systick"] = "run" /\ <<op, t>> \in Calls["high"]
    \/ <<op, t>> \in Calls["exti"]

-----------------------------------------------------------------------------
(* The API. *)

\* A setter on a task that is not in the table changes nothing.
Set(t, field, value) ==
    /\ HasTask(t) /\ Accepts(field, value)
    /\ items' = WithField(sch_get_item(t), field, value)

sch_set_task_period(t, p) ==
    /\ MayCall("set_period", t)
    /\ Set(t, "period", p)
    /\ UNCHANGED <<size, sch_time_changed, pc, idx, reg, active, call>>

sch_set_task_state(t, s) ==
    /\ MayCall("set_state", t)
    /\ Set(t, "state", s)
    /\ UNCHANGED <<size, sch_time_changed, pc, idx, reg, active, call>>

sch_trigger_task(t) ==
    /\ MayCall("trigger", t)
    /\ HasTask(t) /\ items[sch_get_item(t)].type = "TRIGGER"
    /\ items' = [items EXCEPT ![sch_get_item(t)].count = 0,
                              ![sch_get_item(t)].state = "RUNNING"]
    /\ UNCHANGED <<size, sch_time_changed, pc, idx, reg, active, call>>

\* Faulty variant: the slot is vacated and size is not.
VacateKeepsSize(t) ==
    IF HasTask(t)
    THEN /\ items' = [items EXCEPT ![sch_get_item(t)].state = "EMPTY",
                                   ![sch_get_item(t)].callback = NULL]
         /\ UNCHANGED size
    ELSE UNCHANGED <<items, size>>

\* The slot is vacated; its type, period and priority stay behind.  size-- in
\* one step: see HighTaskAssumption.
Vacate(t) ==
    IF HasTask(t)
    THEN /\ items' = [items EXCEPT ![sch_get_item(t)].state = "EMPTY",
                                   ![sch_get_item(t)].callback = NULL]
         /\ size' = (size - 1) % ByteMod
    ELSE UNCHANGED <<items, size>>

\* The callback of a ONCE task unsubscribing itself: a caller's choice.
RemovesItself(t) ==
    /\ pc["main"] = "run" /\ items[idx["main"]].type = "ONCE"
    /\ items[idx["main"]].callback = t

sch_unsubscribe(t) ==
    /\ MayCall("unsubscribe", t)
    /\ SelfRemoval \/ ~RemovesItself(t)
    /\ HasTask(t)
    /\ Vacate(t)
    /\ UNCHANGED <<sch_time_changed, pc, idx, reg, active, call>>

\* Faulty variant: the copy loop stops one slot early.
GrownLosesLast ==
    [i \in 1..(size + Increment) |-> IF i \in Slots /\ i < size THEN items[i] ELSE EmptyItem]

\* The table after making room: a full table is copied to a larger one.
Grown ==
    [i \in 1..(size + Increment) |-> IF i \in Slots THEN items[i] ELSE EmptyItem]

\* Faulty variant: the slot's new task inherits the priority of the old one.
StoredKeepsPriority(table, t) ==
    LET free == {i \in DOMAIN table : table[i].state = "EMPTY"}
        i    == CHOOSE k \in free : \A j \in free : k <= j
    IN  IF free = {} THEN table
        ELSE [table EXCEPT ![i] = [@ EXCEPT !.callback = t, !.count = 0, !.period = 0,
                                            !.state = "STOPPED"]]

\* t takes the first free slot of the table, whose type stays what it was;
\* with no free slot, nothing.
Stored(table, t) ==
    LET free == {i \in DOMAIN table : table[i].state = "EMPTY"}
        i    == CHOOSE k \in free : \A j \in free : k <= j
    IN  IF free = {} THEN table
        ELSE [table EXCEPT ![i] = [@ EXCEPT !.callback = t, !.count = 0, !.period = 0,
                                            !.priority = "LOW", !.state = "STOPPED"]]

\* A successful sch_subscribe.  It fails, and changes nothing, when the table
\* has to grow and calloc returns NULL.  size++ in one step: see
\* HighTaskAssumption.
sch_subscribe(t) ==
    /\ Resubscribe \/ ~HasTask(t)
    /\ size = capacity => size + Increment <= MaxCapacity
    /\ LET table == IF size = capacity THEN Grown ELSE items
       IN  /\ items' = Stored(table, t)
           /\ size' = IF \E i \in DOMAIN table : table[i].state = "EMPTY"
                      THEN (size + 1) % ByteMod ELSE size

\* The two composite calls store the task, then set its fields one by one;
\* SysTick may run in between.
sch_subscribe_and_set(t, cfg) ==
    /\ MayCall("subscribe_and_set", t)
    /\ sch_subscribe(t)
    /\ call' = [fn |-> "subscribe_and_set", task |-> t, cfg |-> cfg, field |-> "priority"]
    /\ UNCHANGED <<sch_time_changed, pc, idx, reg, active>>

OnceConfig(p) == [priority |-> "LOW", period |-> p, state |-> "RUNNING", type |-> "ONCE"]

sch_schedule_task(t, p) ==
    /\ MayCall("schedule", t)
    /\ sch_subscribe(t)
    /\ call' = [fn |-> "schedule", task |-> t, cfg |-> OnceConfig(p), field |-> "period"]
    /\ UNCHANGED <<sch_time_changed, pc, idx, reg, active>>

\* The field that the composite call sets after the current one.
NextField ==
    CASE call.fn = "subscribe_and_set" /\ call.field = "priority" -> "period"
      [] call.fn = "subscribe_and_set" /\ call.field = "period"   -> "state"
      [] call.fn = "subscribe_and_set" /\ call.field = "state"    -> "type"
      [] call.fn = "schedule" /\ call.field = "period"            -> "type"
      [] call.fn = "schedule" /\ call.field = "type"              -> "state"
      [] OTHER                                                    -> "done"

SetNextField ==
    /\ call # NoCall /\ Executing("main")
    /\ Set(call.task, call.field, call.cfg[call.field])
    /\ call' = IF NextField = "done" THEN NoCall ELSE [call EXCEPT !.field = NextField]
    /\ UNCHANGED <<size, sch_time_changed, pc, idx, reg, active>>

\* A setter failed: the call is abandoned.  sch_schedule_task removes the task
\* whose period it could not set, sch_subscribe_and_set leaves it subscribed.
AbandonCall ==
    /\ call # NoCall /\ Executing("main")
    /\ ~ (HasTask(call.task) /\ Accepts(call.field, call.cfg[call.field]))
    /\ call' = NoCall
    /\ IF call.fn = "schedule" /\ call.field = "period"
       THEN Vacate(call.task)
       ELSE UNCHANGED <<items, size>>
    /\ UNCHANGED <<sch_time_changed, pc, idx, reg, active>>

-----------------------------------------------------------------------------
(* sch_task_watcher in the main loop, sch_on_time_change in SysTick. *)

\* Faulty variant: the tick is not taken off the counter.
StoreTicksKeepsTick ==
    /\ MainFree /\ pc["main"] = "dec"
    /\ sch_time_changed' = reg["main"]
    /\ pc' = [pc EXCEPT !["main"] = "scan"]
    /\ idx' = [idx EXCEPT !["main"] = 1]
    /\ reg' = [reg EXCEPT !["main"] = 0]
    /\ UNCHANGED <<items, size, active, call>>

\* The test of sch_time_changed, and the load and the store of its decrement.
TestTicks ==
    /\ MainFree /\ pc["main"] = "loop" /\ sch_time_changed # 0
    /\ pc' = [pc EXCEPT !["main"] = "load"]
    /\ UNCHANGED <<items, size, sch_time_changed, idx, reg, active, call>>

LoadTicks ==
    /\ MainFree /\ pc["main"] = "load"
    /\ pc' = [pc EXCEPT !["main"] = "dec"]
    /\ reg' = [reg EXCEPT !["main"] = sch_time_changed]
    /\ UNCHANGED <<items, size, sch_time_changed, idx, active, call>>

StoreTicks ==
    /\ MainFree /\ pc["main"] = "dec"
    /\ sch_time_changed' = (reg["main"] - 1) % TickMod
    /\ pc' = [pc EXCEPT !["main"] = "scan"]
    /\ idx' = [idx EXCEPT !["main"] = 1]
    /\ reg' = [reg EXCEPT !["main"] = 0]
    /\ UNCHANGED <<items, size, active, call>>

sch_on_time_change ==
    /\ pc["systick"] = "off" /\ sch_time_changed < MaxBacklog
    /\ pc' = [pc EXCEPT !["systick"] = "scan"]
    /\ idx' = [idx EXCEPT !["systick"] = 1]
    /\ UNCHANGED <<items, size, sch_time_changed, reg, active, call>>

\* Faulty variant: SysTick does not count the tick for main.
EndWalkNoTick(c) ==
    /\ pc[c] = "scan" /\ Executing(c)
    /\ idx[c] \notin Slots
    /\ idx' = [idx EXCEPT ![c] = 0]
    /\ pc' = [pc EXCEPT ![c] = IF c = "systick" THEN "off" ELSE "loop"]
    /\ UNCHANGED <<items, size, sch_time_changed, reg, active, call>>

\* The end of a walk: SysTick counts the tick.
EndWalk(c) ==
    /\ pc[c] = "scan" /\ Executing(c)
    /\ idx[c] \notin Slots
    /\ idx' = [idx EXCEPT ![c] = 0]
    /\ IF c = "systick"
       THEN /\ sch_time_changed' = (sch_time_changed + 1) % TickMod
            /\ pc' = [pc EXCEPT ![c] = "off"]
       ELSE /\ pc' = [pc EXCEPT ![c] = "loop"]
            /\ UNCHANGED sch_time_changed
    /\ UNCHANGED <<items, size, reg, active, call>>

-----------------------------------------------------------------------------
(* One slot of sch_call_tasks. *)

PriorityOf(c) == IF c = "main" THEN "LOW" ELSE "HIGH"

Selected(c) ==
    items[idx[c]].state = "RUNNING" /\ items[idx[c]].priority = PriorityOf(c)

SkipSlot(c) ==
    /\ pc[c] = "scan" /\ Executing(c)
    /\ idx[c] \in Slots /\ ~Selected(c)
    /\ idx' = [idx EXCEPT ![c] = @ + 1]
    /\ UNCHANGED <<items, size, sch_time_changed, pc, reg, active, call>>

\* The load of item->count.
LoadCount(c) ==
    /\ pc[c] = "scan" /\ Executing(c)
    /\ idx[c] \in Slots /\ Selected(c)
    /\ reg' = [reg EXCEPT ![c] = items[idx[c]].count]
    /\ pc' = [pc EXCEPT ![c] = "add"]
    /\ UNCHANGED <<items, size, sch_time_changed, idx, active, call>>

NewCount(c) == (reg[c] + Basetime) % PeriodMod

CountTick(c) ==
    /\ pc[c] = "add" /\ Executing(c)
    /\ NewCount(c) < items[idx[c]].period
    /\ items' = [items EXCEPT ![idx[c]].count = NewCount(c)]
    /\ pc' = [pc EXCEPT ![c] = "scan"]
    /\ idx' = [idx EXCEPT ![c] = @ + 1]
    /\ reg' = [reg EXCEPT ![c] = 0]
    /\ UNCHANGED <<size, sch_time_changed, active, call>>

\* The period elapsed: a TRIGGER task is stopped before its callback runs.
StartTask(c) ==
    /\ pc[c] = "add" /\ Executing(c)
    /\ NewCount(c) >= items[idx[c]].period
    /\ items' = [items EXCEPT ![idx[c]].count = 0,
                              ![idx[c]].state = IF items[idx[c]].type = "TRIGGER"
                                                THEN "STOPPED" ELSE @]
    /\ pc' = [pc EXCEPT ![c] = "run"]
    /\ active' = [active EXCEPT ![c] = items[idx[c]].callback]
    /\ reg' = [reg EXCEPT ![c] = 0]
    /\ UNCHANGED <<size, sch_time_changed, idx, call>>

\* Faulty variant: a TRIGGER task is stopped after its callback as well.
FinishTaskStops(c) ==
    /\ pc[c] = "run" /\ Executing(c)
    /\ IF items[idx[c]].type = "ONCE"
       THEN Vacate(items[idx[c]].callback)
       ELSE /\ items' = [items EXCEPT ![idx[c]].state =
                            IF items[idx[c]].type = "TRIGGER" THEN "STOPPED" ELSE @]
            /\ UNCHANGED size
    /\ pc' = [pc EXCEPT ![c] = "scan"]
    /\ idx' = [idx EXCEPT ![c] = @ + 1]
    /\ active' = [active EXCEPT ![c] = NULL]
    /\ UNCHANGED <<sch_time_changed, reg, call>>

\* The callback returned: a ONCE task leaves the table.
FinishTask(c) ==
    /\ pc[c] = "run" /\ Executing(c)
    /\ IF items[idx[c]].type = "ONCE"
       THEN Vacate(items[idx[c]].callback)
       ELSE UNCHANGED <<items, size>>
    /\ pc' = [pc EXCEPT ![c] = "scan"]
    /\ idx' = [idx EXCEPT ![c] = @ + 1]
    /\ active' = [active EXCEPT ![c] = NULL]
    /\ UNCHANGED <<sch_time_changed, reg, call>>

-----------------------------------------------------------------------------
sch_call_tasks(c) ==
    \/ SkipSlot(c) \/ LoadCount(c) \/ CountTick(c) \/ StartTask(c)
    \/ FinishTask(c) \/ EndWalk(c)

sch_task_watcher == TestTicks \/ LoadTicks \/ StoreTicks

ApiCall ==
    \E t \in Tasks :
        \/ \E p \in Periods : sch_set_task_period(t, p) \/ sch_schedule_task(t, p)
        \/ \E s \in States : sch_set_task_state(t, s)
        \/ \E cfg \in Configs : sch_subscribe_and_set(t, cfg)
        \/ sch_trigger_task(t)
        \/ sch_unsubscribe(t)

ContinueCall == SetNextField \/ AbandonCall

Next ==
    \/ sch_on_time_change
    \/ sch_task_watcher
    \/ \E c \in Contexts : sch_call_tasks(c)
    \/ ApiCall
    \/ ContinueCall

Spec == Init /\ [][Next]_vars

\* SysTick keeps firing and its handler runs to completion; between two ticks
\* main gets to run, so no step of main is put off for ever.
Fairness ==
    /\ WF_vars(sch_on_time_change)
    /\ WF_vars(sch_call_tasks("systick"))
    /\ SF_vars(sch_call_tasks("main"))
    /\ SF_vars(sch_task_watcher)
    /\ SF_vars(ContinueCall)

FairSpec == Spec /\ Fairness

-----------------------------------------------------------------------------
(* Properties. *)

\* Every variable has its type (SchItem and SchList, task_scheduler.c).
TypeOK ==
    /\ \E n \in 1..MaxCapacity : items \in [1..n -> Item]
    /\ size \in 0..(ByteMod - 1)
    /\ sch_time_changed \in 0..(TickMod - 1)
    /\ pc \in [Contexts -> {"loop", "load", "dec", "off", "scan", "add", "run"}]
    /\ idx \in [Contexts -> 0..(MaxCapacity + 1)]
    /\ reg \in [Contexts -> Nat]
    /\ active \in [Contexts -> Tasks \cup {NULL}]
    /\ call \in {NoCall} \cup CompositeCall

(* size counts the occupied slots, and a slot has a callback exactly when it *)
(* is occupied.  sch_subscribe decides from size alone whether the table is  *)
(* full, so a size that drifts makes it drop a task and still return OK.     *)
TableConsistent ==
    /\ size = Cardinality(Used)
    /\ \A i \in Slots : items[i].state = "EMPTY" <=> items[i].callback = NULL

\* main gives a task the priority HIGH, before its type is set.
SettingHigh ==
    /\ call.fn = "subscribe_and_set" /\ call.cfg.priority = "HIGH"
    /\ call.field # "priority"

(* SysTick removes a task only between the setters of a HIGH task, when it   *)
(* runs that task with the type ONCE that its slot still has, and main takes *)
(* no task into or out of the table there.  So no size++ or size-- of main   *)
(* is ever torn by one of SysTick, and size counts right.                    *)
SizeHasOneWriter ==
    [][size' # size => (pc["systick"] # "off" <=> SettingHigh)]_vars

(* The count of a task whose period was set stays below that period, also    *)
(* across a preemption of the walk that adds to it: no callback is late by a *)
(* whole period.                                                             *)
CountBelowPeriod ==
    \A i \in Slots : items[i].period >= Basetime => items[i].count < items[i].period

(* A successful sch_subscribe puts the task into the table and leaves every  *)
(* task that is already there untouched, also when the table grows.          *)
SubscribeStores ==
    [][\A t \in Tasks :
         (call = NoCall /\ call' # NoCall /\ call'.task = t) =>
            /\ \E i \in DOMAIN items' : items'[i].callback = t
            /\ \A i \in Used : items'[i] = items[i]]_vars

(* A triggered task is not forgotten: a running TRIGGER task stops only by   *)
(* the walk that is about to call it, or because somebody stops or removes   *)
(* it.  Callbacks that trigger themselves (dht_on_timeout, slm_on_timeout)   *)
(* and interrupts that trigger a task while main walks over it rely on it.   *)
TriggerNotDropped ==
    [][\A i \in Slots :
         (items[i].type = "TRIGGER" /\ items[i].state = "RUNNING"
            /\ items'[i].state # "RUNNING") =>
              \/ \E c \in Contexts : pc'[c] = "run" /\ pc[c] = "add" /\ idx[c] = i
              \/ sch_set_task_state(items[i].callback, "STOPPED") \/ SetNextField
              \/ items'[i].state = "EMPTY"]_vars

(* A running task's callback is eventually called, unless somebody stops the *)
(* task or restarts its period again and again.                              *)
IsRunning(t)  == HasTask(t) /\ items[sch_get_item(t)].state = "RUNNING"
IsCalled(t)   == \E c \in Contexts : active[c] = t
IsRestarted(t) ==
    sch_trigger_task(t) \/ \E p \in Periods : sch_set_task_period(t, p)

RunningTaskCalled ==
    \A t \in Tasks :
        \/ IsRunning(t) ~> (IsCalled(t) \/ ~IsRunning(t))
        \/ []<><<IsRestarted(t)>>_vars
=============================================================================
