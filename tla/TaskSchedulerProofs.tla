------------------------- MODULE TaskSchedulerProofs -------------------------
(***************************************************************************)
(* Theorems about TaskScheduler, for every table size, growth, wrap of the *)
(* tick counter, set of tasks and use of the API that the assumptions of   *)
(* TaskScheduler allow.                                                    *)
(***************************************************************************)
EXTENDS TaskSchedulerTicks, FiniteSetTheorems, WellFoundedInduction, TLAPS

Millis == 0..(PeriodMod - 1)

\* The fields of a composite call, and the values it has for them.
Fields == {"priority", "period", "state", "type"}

\* The tables that the API maps to one another.
Tables == UNION {[1..k -> Item] : k \in 1..MaxCapacity}

-----------------------------------------------------------------------------
(* Lemmas about the operators. *)

LEMMA Remainder ==
    ASSUME NEW n \in Nat \ {0}, NEW x \in Int
    PROVE  x % n \in 0..n-1
OBVIOUS

\* The counts and the periods are 16 bits wide.
LEMMA MillisRange == 0 \in Millis /\ \A x \in Int : x % PeriodMod \in Millis
<1>1. 0 \in Millis /\ PeriodMod \in Nat \ {0}
    BY DEF Millis, PeriodMod
<1>2. ASSUME NEW x \in Int PROVE x % PeriodMod \in Millis
    BY <1>1, Remainder DEF Millis
<1>3. QED BY <1>1, <1>2

\* What the fields of a slot are.
LEMMA ItemParts ==
    ASSUME NEW it \in Item
    PROVE  /\ it.callback \in Tasks \cup {NULL} /\ it.priority \in Priorities
           /\ it.state \in TaskStates /\ it.type \in TaskTypes
           /\ it.period \in Millis /\ it.count \in Millis
BY DEF Item, Millis

\* A slot whose field is set to a value of its type.
LEMMA ItemFields ==
    ASSUME NEW it \in Item
    PROVE  /\ \A v \in Tasks \cup {NULL} : [it EXCEPT !.callback = v] \in Item
           /\ \A v \in Priorities : [it EXCEPT !.priority = v] \in Item
           /\ \A v \in TaskStates : [it EXCEPT !.state = v] \in Item
           /\ \A v \in TaskTypes : [it EXCEPT !.type = v] \in Item
           /\ \A v \in Millis : [it EXCEPT !.period = v] \in Item
           /\ \A v \in Millis : [it EXCEPT !.count = v] \in Item
BY DEF Item, Millis

\* A table with a field of a slot set; nothing changes without that slot.
LEMMA TableFields ==
    ASSUME NEW k \in Nat, NEW table \in [1..k -> Item], NEW i
    PROVE  /\ \A v \in Tasks \cup {NULL} : [table EXCEPT ![i].callback = v] \in [1..k -> Item]
           /\ \A v \in Priorities : [table EXCEPT ![i].priority = v] \in [1..k -> Item]
           /\ \A v \in TaskStates : [table EXCEPT ![i].state = v] \in [1..k -> Item]
           /\ \A v \in TaskTypes : [table EXCEPT ![i].type = v] \in [1..k -> Item]
           /\ \A v \in Millis : [table EXCEPT ![i].period = v] \in [1..k -> Item]
           /\ \A v \in Millis : [table EXCEPT ![i].count = v] \in [1..k -> Item]
BY ItemFields

\* A slot of a zeroed table.
LEMMA EmptyItemType == EmptyItem \in Item
BY DEF EmptyItem, Item, TaskStates, TaskTypes, Priorities, PeriodMod

\* A setter keeps the table a table and its size, whatever slot it finds.
LEMMA WithFieldTable ==
    ASSUME NEW k \in Nat, items \in [1..k -> Item], NEW i,
           NEW cfg \in Config, NEW field \in Fields, Accepts(field, cfg[field])
    PROVE  WithField(i, field, cfg[field]) \in [1..k -> Item]
<1>1. CASE field = "priority"
  <2>1. cfg.priority \in Priorities
      BY <1>1 DEF Config, Accepts
  <2>2. WithField(i, field, cfg[field]) = [items EXCEPT ![i].priority = cfg.priority]
      BY <1>1 DEF WithField
  <2>3. QED BY <2>1, <2>2, TableFields
<1>2. CASE field = "period"
  <2>1. cfg.period \in Millis /\ 0 \in Millis
    <3>1. cfg.period \in Millis
        BY DEF Config, Millis
    <3>2. 0 \in Millis
        BY MillisRange
    <3>3. QED BY <3>1, <3>2
  <2>2. WithField(i, field, cfg[field]) =
          [items EXCEPT ![i].period = cfg.period, ![i].count = 0]
      BY <1>2 DEF WithField
  <2>3. QED BY <2>1, <2>2, TableFields
<1>3. CASE field = "state"
  <2>1. cfg.state \in TaskStates
      BY <1>3 DEF Config, Accepts, TaskStates
  <2>2. WithField(i, field, cfg[field]) = [items EXCEPT ![i].state = cfg.state]
      BY <1>3 DEF WithField
  <2>3. QED BY <2>1, <2>2, TableFields
<1>4. CASE field = "type"
  <2>1. cfg.type \in TaskTypes
      BY <1>4 DEF Config, Accepts
  <2>2. WithField(i, field, cfg[field]) = [items EXCEPT ![i].type = cfg.type]
      BY <1>4 DEF WithField
  <2>3. QED BY <2>1, <2>2, TableFields
<1>5. QED BY <1>1, <1>2, <1>3, <1>4 DEF Fields

\* A vacated slot keeps the table a table and its size.
LEMMA VacateTable ==
    ASSUME NEW k \in Nat, items \in [1..k -> Item], size \in 0..(ByteMod - 1),
           NEW t, Vacate(t)
    PROVE  items' \in [1..k -> Item] /\ size' \in 0..(ByteMod - 1)
<1>1. NULL \in Tasks \cup {NULL} /\ "EMPTY" \in TaskStates
    BY DEF TaskStates
<1>2. CASE HasTask(t)
  <2>1. PICK i : items' = [items EXCEPT ![i].state = "EMPTY", ![i].callback = NULL]
      BY <1>2 DEF Vacate
  <2>2. [items EXCEPT ![i].state = "EMPTY"] \in [1..k -> Item]
      BY <1>1, TableFields
  <2>3. items' \in [1..k -> Item]
      BY <1>1, <2>1, <2>2, TableFields
  <2>4. size' = (size - 1) % ByteMod
      BY <1>2 DEF Vacate
  <2>5. size' \in 0..(ByteMod - 1)
      BY <2>4 DEF ByteMod
  <2>6. QED BY <2>3, <2>5
<1>3. QED BY <1>2 DEF Vacate

\* The grown table has Increment more slots.
LEMMA GrownTable ==
    ASSUME NEW k \in Nat, items \in [1..k -> Item], size \in Nat
    PROVE  Grown \in [1..(size + Increment) -> Item]
BY EmptyItemType DEF Grown, Slots

\* Storing a task keeps the table a table.
LEMMA StoredTable ==
    ASSUME NEW k \in Nat, NEW table \in [1..k -> Item], NEW t \in Tasks
    PROVE  Stored(table, t) \in [1..k -> Item]
<1>1. 0 \in Millis /\ "LOW" \in Priorities /\ "STOPPED" \in TaskStates
    BY MillisRange DEF Priorities, TaskStates
<1>2. \A it \in Item :
        [it EXCEPT !.callback = t, !.count = 0, !.period = 0,
                   !.priority = "LOW", !.state = "STOPPED"] \in Item
    BY <1>1, ItemFields
<1>3. QED BY <1>2 DEF Stored

\* A subscription that finds the table full has room for the larger one.
LEMMA SubscribeTable ==
    ASSUME NEW k \in 1..MaxCapacity, items \in [1..k -> Item],
           size \in 0..(ByteMod - 1), NEW t \in Tasks, sch_subscribe(t)
    PROVE  /\ \E l \in k..MaxCapacity : items' \in [1..l -> Item]
           /\ size' \in 0..(ByteMod - 1)
<1>1. capacity = k
    BY FS_Interval DEF capacity, Slots
<1>2. size' \in 0..(ByteMod - 1)
    BY DEF sch_subscribe, ByteMod
<1>3. CASE size = capacity
  <2>1. items' = Stored(Grown, t) /\ size + Increment \in k..MaxCapacity
      BY <1>1, <1>3, ParameterAssumption DEF sch_subscribe
  <2>2. QED BY <1>2, <2>1, GrownTable, StoredTable
<1>4. CASE size # capacity
  <2>1. items' = Stored(items, t) /\ k \in k..MaxCapacity
      BY <1>4, ParameterAssumption DEF sch_subscribe
  <2>2. QED BY <1>2, <2>1, StoredTable
<1>5. QED BY <1>3, <1>4

\* A counter that wraps stays below its modulus.
LEMMA TickRange ==
    ASSUME NEW x \in Int
    PROVE  x % TickMod \in 0..(TickMod - 1)
BY ParameterAssumption, Remainder

-----------------------------------------------------------------------------
(* Type correctness.  A walk that holds a slot relies on the table never     *)
(* losing slots: the realloc that SysTick may preempt only adds some.        *)

WalkInBounds == \A c \in Contexts : pc[c] \in {"add", "run"} => idx[c] \in Slots

TypeInv == TypeOK /\ WalkInBounds

\* The variables that an API call leaves alone.
WalkVars == <<sch_time_changed, pc, idx, reg, active>>

\* A table with as many slots or more, and a call in progress, are all that an
\* API call changes.
LEMMA ApiTypeInv ==
    ASSUME TypeInv, UNCHANGED WalkVars,
           NEW k \in 1..MaxCapacity, items \in [1..k -> Item],
           NEW l \in k..MaxCapacity, items' \in [1..l -> Item],
           size' \in 0..(ByteMod - 1), call' \in {NoCall} \cup CompositeCall
    PROVE  TypeInv'
<1>1. Slots = 1..k /\ Slots' = 1..l /\ 1..k \subseteq 1..l /\ l \in 1..MaxCapacity
    BY DEF Slots
<1>2. WalkInBounds'
    BY <1>1 DEF TypeInv, WalkInBounds, WalkVars
<1>3. TypeOK'
    BY <1>1 DEF TypeInv, TypeOK, WalkVars
<1>4. QED BY <1>2, <1>3 DEF TypeInv

\* Each operation of the API, and every step of a composite call, keeps the types.
LEMMA ApiCallTypeInv == TypeInv /\ (ApiCall \/ ContinueCall) => TypeInv'
<1> SUFFICES ASSUME TypeInv, ApiCall \/ ContinueCall PROVE TypeInv'
    OBVIOUS
<1>1. PICK k \in 1..MaxCapacity : items \in [1..k -> Item]
    BY DEF TypeInv, TypeOK
<1>2. /\ size \in 0..(ByteMod - 1) /\ call \in {NoCall} \cup CompositeCall
      /\ k \in k..MaxCapacity /\ k \in Nat
    BY DEF TypeInv, TypeOK
<1>3. ASSUME NEW t \in Tasks, NEW p \in Periods, sch_set_task_period(t, p)
      PROVE  TypeInv'
  <2> DEFINE cfg == OnceConfig(p)
  <2>1. cfg \in Config /\ cfg["period"] = p
      BY ParameterAssumption DEF OnceConfig, Config, Priorities, TaskTypes
  <2>2. items' = WithField(sch_get_item(t), "period", cfg["period"])
        /\ Accepts("period", cfg["period"])
      BY <1>3, <2>1 DEF sch_set_task_period, Set
  <2> HIDE DEF cfg
  <2>3. items' \in [1..k -> Item]
      BY <1>1, <1>2, <2>1, <2>2, WithFieldTable DEF Fields
  <2>4. QED
      BY <1>1, <1>2, <1>3, <2>3, ApiTypeInv DEF sch_set_task_period, WalkVars
<1>4. ASSUME NEW t \in Tasks, NEW s \in States, sch_set_task_state(t, s)
      PROVE  TypeInv'
  <2>1. s \in TaskStates
      BY <1>4, ParameterAssumption DEF sch_set_task_state, Set, Accepts, TaskStates
  <2>2. PICK i : items' = [items EXCEPT ![i].state = s]
      BY <1>4 DEF sch_set_task_state, Set, WithField
  <2>3. items' \in [1..k -> Item]
      BY <1>1, <2>1, <2>2, TableFields
  <2>4. QED
      BY <1>1, <1>2, <1>4, <2>3, ApiTypeInv DEF sch_set_task_state, WalkVars
<1>5. ASSUME NEW t \in Tasks, sch_trigger_task(t)
      PROVE  TypeInv'
  <2>1. PICK i : items' = [items EXCEPT ![i].count = 0, ![i].state = "RUNNING"]
      BY <1>5 DEF sch_trigger_task
  <2>2. 0 \in Millis /\ "RUNNING" \in TaskStates
      BY MillisRange DEF TaskStates
  <2>3. [items EXCEPT ![i].count = 0] \in [1..k -> Item]
      BY <1>1, <2>2, TableFields
  <2>4. items' \in [1..k -> Item]
      BY <1>1, <1>2, <2>1, <2>2, <2>3, TableFields
  <2>5. QED
      BY <1>1, <1>2, <1>5, <2>4, ApiTypeInv DEF sch_trigger_task, WalkVars
<1>6. ASSUME NEW t \in Tasks, sch_unsubscribe(t)
      PROVE  TypeInv'
    BY <1>1, <1>2, <1>6, VacateTable, ApiTypeInv DEF sch_unsubscribe, WalkVars
<1>7. ASSUME NEW t \in Tasks, NEW p \in Periods, sch_schedule_task(t, p)
      PROVE  TypeInv'
  <2>1. call' \in CompositeCall
      BY <1>7, ParameterAssumption
      DEF sch_schedule_task, OnceConfig, CompositeCall, Config, Priorities, TaskTypes
  <2>2. QED
      BY <1>1, <1>2, <1>7, <2>1, SubscribeTable, ApiTypeInv DEF sch_schedule_task, WalkVars
<1>8. ASSUME NEW t \in Tasks, NEW cfg \in Configs, sch_subscribe_and_set(t, cfg)
      PROVE  TypeInv'
  <2>1. call' \in CompositeCall
      BY <1>8, ParameterAssumption DEF sch_subscribe_and_set, CompositeCall
  <2>2. QED
      BY <1>1, <1>2, <1>8, <2>1, SubscribeTable, ApiTypeInv DEF sch_subscribe_and_set, WalkVars
<1>9. CASE SetNextField
  <2>1. call \in CompositeCall
      BY <1>2, <1>9 DEF SetNextField
  <2>2. call.cfg \in Config /\ call.field \in Fields
      BY <2>1 DEF CompositeCall, Fields
  <2>3. items' \in [1..k -> Item]
      BY <1>1, <1>2, <1>9, <2>2, WithFieldTable DEF SetNextField, Set
  <2>4. call' \in {NoCall} \cup CompositeCall
      BY <1>9, <2>1 DEF SetNextField, NextField, CompositeCall
  <2>5. QED
      BY <1>1, <1>2, <1>9, <2>3, <2>4, ApiTypeInv DEF SetNextField, WalkVars
<1>10. CASE AbandonCall
  <2>1. items' \in [1..k -> Item] /\ size' \in 0..(ByteMod - 1)
      BY <1>1, <1>2, <1>10, VacateTable DEF AbandonCall
  <2>2. QED
      BY <1>1, <1>2, <1>10, <2>1, ApiTypeInv DEF AbandonCall, WalkVars
<1>11. QED
    BY <1>3, <1>4, <1>5, <1>6, <1>7, <1>8, <1>9, <1>10 DEF ApiCall, ContinueCall

\* Every step of a walk over the table keeps the types.
LEMMA WalkTypeInv ==
    ASSUME TypeInv, NEW c \in Contexts, sch_call_tasks(c)
    PROVE  TypeInv'
<1>1. PICK k \in 1..MaxCapacity : items \in [1..k -> Item]
    BY DEF TypeInv, TypeOK
<1>2. Slots = 1..k /\ k \in Nat /\ MaxCapacity \in Nat
    BY <1>1, ParameterAssumption DEF Slots, ByteMod
<1>3. /\ size \in 0..(ByteMod - 1) /\ sch_time_changed \in 0..(TickMod - 1)
      /\ pc \in [Contexts -> {"loop", "load", "dec", "off", "scan", "add", "run"}]
      /\ idx \in [Contexts -> 0..(MaxCapacity + 1)] /\ reg \in [Contexts -> Nat]
      /\ active \in [Contexts -> Tasks \cup {NULL}] /\ call \in {NoCall} \cup CompositeCall
      /\ WalkInBounds
    BY DEF TypeInv, TypeOK
<1>4. ASSUME idx[c] \in Slots PROVE idx[c] + 1 \in 0..(MaxCapacity + 1)
    BY <1>2, <1>4
<1>5. ASSUME pc[c] \in {"add", "run"}, items' \in [1..k -> Item]
      PROVE  idx[c] \in Slots /\ Slots' = Slots
    BY <1>1, <1>3, <1>5 DEF WalkInBounds, Slots
<1>6. CASE SkipSlot(c)
    BY <1>1, <1>3, <1>4, <1>6 DEF SkipSlot, TypeInv, TypeOK, WalkInBounds, Slots
<1>7. CASE LoadCount(c)
  <2>1. items[idx[c]].count \in Nat
      BY <1>1, <1>2, <1>7, ItemParts DEF LoadCount, Millis
  <2>2. QED
      BY <1>1, <1>3, <1>7, <2>1 DEF LoadCount, TypeInv, TypeOK, WalkInBounds, Slots
<1>8. CASE CountTick(c)
  <2>1. NewCount(c) \in Millis
    <3>1. reg[c] + Basetime \in Int
        BY <1>3, ParameterAssumption
    <3>2. QED BY <3>1, MillisRange DEF NewCount
  <2>2. items' \in [1..k -> Item]
      BY <1>1, <1>2, <1>8, <2>1, TableFields DEF CountTick
  <2>3. idx[c] + 1 \in 0..(MaxCapacity + 1) /\ Slots' = Slots
      BY <1>4, <1>5, <1>8, <2>2 DEF CountTick
  <2>4. TypeOK'
      BY <1>3, <1>8, <2>2, <2>3 DEF CountTick, TypeOK
  <2>5. WalkInBounds'
      BY <1>3, <1>8, <2>3 DEF CountTick, WalkInBounds
  <2>6. QED BY <2>4, <2>5 DEF TypeInv
<1>9. CASE StartTask(c)
  <2>1. idx[c] \in Slots
      BY <1>3, <1>9 DEF StartTask, WalkInBounds
  <2>2. 0 \in Millis /\ items[idx[c]].callback \in Tasks \cup {NULL}
      BY <1>1, <1>2, <2>1, ItemParts, MillisRange
  <2>3. PICK s \in TaskStates : items' = [items EXCEPT ![idx[c]].count = 0, ![idx[c]].state = s]
    <3>1. "STOPPED" \in TaskStates /\ items[idx[c]].state \in TaskStates
        BY <1>1, <1>2, <2>1, ItemParts DEF TaskStates
    <3>2. CASE items[idx[c]].type = "TRIGGER"
        BY <1>9, <3>1, <3>2 DEF StartTask
    <3>3. CASE items[idx[c]].type # "TRIGGER"
        BY <1>1, <1>2, <1>9, <2>1, <3>1, <3>3 DEF StartTask
    <3>4. QED BY <3>2, <3>3
  <2>4. items' \in [1..k -> Item]
    <3>1. [items EXCEPT ![idx[c]].count = 0] \in [1..k -> Item]
        BY <1>1, <1>2, <2>2, TableFields
    <3>2. QED BY <1>2, <2>3, <3>1, TableFields
  <2>5. Slots' = Slots
      BY <1>5, <1>9, <2>4 DEF StartTask
  <2>6. TypeOK'
      BY <1>3, <1>9, <2>2, <2>4 DEF StartTask, TypeOK
  <2>7. WalkInBounds'
      BY <1>3, <1>9, <2>1, <2>5 DEF StartTask, WalkInBounds
  <2>8. QED BY <2>6, <2>7 DEF TypeInv
<1>10. CASE FinishTask(c)
  <2>1. items' \in [1..k -> Item] /\ size' \in 0..(ByteMod - 1)
      BY <1>1, <1>2, <1>3, <1>10, VacateTable DEF FinishTask
  <2>2. idx[c] + 1 \in 0..(MaxCapacity + 1) /\ Slots' = Slots
      BY <1>4, <1>5, <1>10, <2>1 DEF FinishTask
  <2>3. TypeOK'
      BY <1>3, <1>10, <2>1, <2>2 DEF FinishTask, TypeOK
  <2>4. WalkInBounds'
      BY <1>3, <1>10, <2>2 DEF FinishTask, WalkInBounds
  <2>5. QED BY <2>3, <2>4 DEF TypeInv
<1>11. CASE EndWalk(c)
  <2>1. sch_time_changed' \in 0..(TickMod - 1)
      BY <1>3, <1>11, TickRange DEF EndWalk
  <2>2. TypeOK'
    <3>1. UNCHANGED <<items, size, reg, active, call>>
        BY <1>11 DEF EndWalk
    <3>2. 0 \in 0..(MaxCapacity + 1)
        BY <1>2
    <3>3. idx' \in [Contexts -> 0..(MaxCapacity + 1)]
        BY <1>3, <1>11, <3>2 DEF EndWalk
    <3>4. pc' \in [Contexts -> {"loop", "load", "dec", "off", "scan", "add", "run"}]
        BY <1>3, <1>11 DEF EndWalk
    <3>5. QED BY <1>1, <1>3, <2>1, <3>1, <3>3, <3>4 DEF TypeOK
  <2>3. WalkInBounds'
      BY <1>3, <1>11 DEF EndWalk, WalkInBounds, Slots
  <2>4. QED BY <2>2, <2>3 DEF TypeInv
<1>12. QED
    BY <1>6, <1>7, <1>8, <1>9, <1>10, <1>11 DEF sch_call_tasks

\* Taking a tick, and the tick itself, keep the types.
LEMMA TickTypeInv == TypeInv /\ (sch_task_watcher \/ sch_on_time_change) => TypeInv'
<1> SUFFICES ASSUME TypeInv, sch_task_watcher \/ sch_on_time_change PROVE TypeInv'
    OBVIOUS
<1> USE DEF TypeInv, TypeOK, WalkInBounds, Slots
<1>1. 1 \in 0..(MaxCapacity + 1) /\ sch_time_changed \in Nat
    BY ParameterAssumption DEF ByteMod
<1>2. CASE TestTicks
    BY <1>2 DEF TestTicks
<1>3. CASE LoadTicks
    BY <1>1, <1>3 DEF LoadTicks
<1>4. CASE StoreTicks
  <2>1. sch_time_changed' \in 0..(TickMod - 1)
    <3>1. reg["main"] - 1 \in Int
        BY DEF Contexts
    <3>2. QED BY <1>4, <3>1, TickRange DEF StoreTicks
  <2>2. QED BY <1>1, <1>4, <2>1 DEF StoreTicks
<1>5. CASE sch_on_time_change
    BY <1>1, <1>5 DEF sch_on_time_change
<1>6. QED BY <1>2, <1>3, <1>4, <1>5 DEF sch_task_watcher

\* The table is empty and nobody walks.
LEMMA InitTypeInv == Init => TypeInv
<1> SUFFICES ASSUME Init PROVE TypeInv
    OBVIOUS
<1>1. InitCapacity \in 1..MaxCapacity /\ items \in [1..InitCapacity -> Item]
    BY EmptyItemType, ParameterAssumption DEF Init, ByteMod
<1>2. TypeOK
    BY <1>1, ParameterAssumption DEF Init, TypeOK, Contexts, ByteMod
<1>3. WalkInBounds
    BY DEF Init, WalkInBounds, Contexts
<1>4. QED BY <1>2, <1>3 DEF TypeInv

\* Every step keeps the types.
LEMMA NextTypeInv == TypeInv /\ [Next]_vars => TypeInv'
<1>1. TypeInv /\ UNCHANGED vars => TypeInv'
    BY DEF vars, TypeInv, TypeOK, WalkInBounds, Slots
<1>2. QED
    BY <1>1, ApiCallTypeInv, WalkTypeInv, TickTypeInv DEF Next

\* The type invariant, with the bounds of the walks, holds of every state.
LEMMA TypeInvariant == Spec => []TypeInv
<1>1. QED BY InitTypeInv, NextTypeInv, PTL DEF Spec

(* Every variable keeps its type: the counters wrap where they should, a     *)
(* composite call in progress has arguments it accepted, and no walk reads   *)
(* or writes a slot outside the table, however it was grown under it.        *)
THEOREM TypeCorrect == Spec => []TypeOK
<1>1. TypeInv => TypeOK
    BY DEF TypeInv
<1>2. QED BY <1>1, TypeInvariant, PTL

-----------------------------------------------------------------------------
(* The table is consistent, under the two rules that the callers keep: a     *)
(* task is not subscribed twice, and a ONCE task does not unsubscribe itself *)
(* (its callback is already to be removed when it returns).                  *)
(*                                                                           *)
(* TableConsistent alone is not inductive.  That vacating a task frees one   *)
(* slot, the right one, needs that no two slots hold the same task; that the *)
(* removal of a ONCE task finds it needs that the slot a walk holds is not   *)
(* vacated under the walk; and that, in turn, needs the priorities: the task *)
(* that SysTick removes is HIGH and the one that main holds is LOW.          *)

TaskAt(i) == items[i].callback

OccupiedByTask == \A i \in Slots : items[i].state = "EMPTY" <=> TaskAt(i) = NULL

TasksDiffer == \A i, j \in Slots : (TaskAt(i) = TaskAt(j) /\ TaskAt(i) # NULL) => i = j

TableInv == size = Cardinality(Used) /\ OccupiedByTask /\ TasksDiffer

\* What a walk that is at a slot may rely on until it leaves it.
Holds(c) ==
    pc[c] \in {"add", "run"} =>
        /\ items[idx[c]].priority = PriorityOf(c)
        /\ pc[c] = "add" \/ items[idx[c]].type = "ONCE" => TaskAt(idx[c]) # NULL

WalkInv ==
    /\ \A c \in Contexts : Holds(c)
    /\ call # NoCall => pc["main"] = "loop"

SchInv == TypeInv /\ TableInv /\ WalkInv

\* The callbacks and the occupied slots are the same before and after.
SameTasks ==
    /\ Slots' = Slots
    /\ \A i \in Slots : /\ TaskAt(i)' = TaskAt(i)
                        /\ (items[i].state = "EMPTY")' <=> items[i].state = "EMPTY"

\* Every nonempty set of slots has a first one.
LEMMA FirstSlot ==
    ASSUME NEW S \in SUBSET Nat, S # {}
    PROVE  \E k \in S : \A j \in S : k <= j
<1> DEFINE R == {ss \in Nat \X Nat : ss[1] < ss[2]}
<1>1. R = OpToRel(<, Nat)
    BY DEF OpToRel
<1>2. IsWellFoundedOn(R, Nat)
    BY <1>1, NatLessThanWellFounded
<1> HIDE DEF R
<1>3. PICK k \in S : \A j \in S : <<j, k>> \notin R
    BY <1>2, WFMin
<1>4. \A j \in S : ~ (j < k)
    BY <1>3 DEF R
<1>5. QED BY <1>4

\* The table's slots are finitely many, and so are the occupied ones.
LEMMA UsedSlots ==
    ASSUME TypeInv
    PROVE  /\ IsFiniteSet(Slots) /\ capacity \in 1..MaxCapacity /\ Slots = 1..capacity
           /\ IsFiniteSet(Used) /\ Cardinality(Used) \in 0..capacity
           /\ \A i \in Slots : items[i] \in Item
<1>1. PICK k \in 1..MaxCapacity : items \in [1..k -> Item]
    BY DEF TypeInv, TypeOK
<1>2. Slots = 1..k /\ k \in Nat
    BY <1>1 DEF Slots
<1>3. IsFiniteSet(Slots) /\ capacity = k
    BY <1>2, FS_Interval DEF capacity
<1>4. Used \in SUBSET Slots
    BY DEF Used
<1>5. IsFiniteSet(Used) /\ Cardinality(Used) <= capacity
    BY <1>3, <1>4, FS_Subset DEF capacity
<1>6. Cardinality(Used) \in Nat
    BY <1>5, FS_CardinalityType
<1>7. QED BY <1>1, <1>2, <1>3, <1>5, <1>6

\* sch_get_item finds the slot of the task.
LEMMA ItemFound ==
    ASSUME TypeInv, TasksDiffer, NEW t, t # NULL, HasTask(t)
    PROVE  sch_get_item(t) \in Slots /\ TaskAt(sch_get_item(t)) = t
<1>1. PICK i \in Slots : items[i].callback = t
    BY DEF HasTask
<1>2. \A j \in Slots : j < i => items[j].callback # t
    <2>1. SUFFICES ASSUME NEW j \in Slots, j < i, items[j].callback = t PROVE FALSE
        OBVIOUS
    <2>2. j = i
        BY <1>1, <2>1 DEF TasksDiffer, TaskAt
    <2>3. QED
        BY <2>1, <2>2, UsedSlots
<1>3. QED BY <1>1, <1>2 DEF sch_get_item, TaskAt

\* The table is as consistent as before when tasks and slots are the same.
LEMMA SameTasksInv ==
    ASSUME TableInv, SameTasks, size' = size
    PROVE  TableInv'
<1>1. Used' = Used
    BY DEF Used, SameTasks
<1>2. QED BY <1>1 DEF TableInv, OccupiedByTask, TasksDiffer, SameTasks

\* A setter, whatever it sets, leaves the tasks where they are; the setters of
\* period and state leave priority and type alone.
LEMMA SetSameTasks ==
    ASSUME TypeInv, TableInv, NEW t \in Tasks, NEW field \in Fields, NEW value,
           field = "state" => value # "EMPTY", Set(t, field, value)
    PROVE  /\ SameTasks
           /\ field \in {"period", "state"} =>
                \A i \in Slots : /\ items[i].priority' = items[i].priority
                                 /\ items[i].type' = items[i].type
<1> DEFINE i == sch_get_item(t)
<1>1. i \in Slots /\ TaskAt(i) = t /\ items[i].state # "EMPTY"
    BY ItemFound, ParameterAssumption DEF Set, TableInv, OccupiedByTask
<1>2. items' = WithField(i, field, value)
    BY DEF Set
<1> HIDE DEF i
<1>3. \A j \in Slots : items[j] \in Item
    BY UsedSlots
<1>4. CASE field = "priority"
  <2>1. items' = [items EXCEPT ![i].priority = value]
      BY <1>2, <1>4 DEF WithField
  <2>2. QED BY <1>1, <1>3, <1>4, <2>1 DEF SameTasks, Slots, TaskAt, Item
<1>5. CASE field = "period"
  <2>1. items' = [items EXCEPT ![i].period = value, ![i].count = 0]
      BY <1>2, <1>5 DEF WithField
  <2>2. QED BY <1>1, <1>3, <2>1 DEF SameTasks, Slots, TaskAt, Item
<1>6. CASE field = "state"
  <2>1. items' = [items EXCEPT ![i].state = value]
      BY <1>2, <1>6 DEF WithField
  <2>2. QED BY <1>1, <1>3, <1>6, <2>1 DEF SameTasks, Slots, TaskAt, Item
<1>7. CASE field = "type"
  <2>1. items' = [items EXCEPT ![i].type = value]
      BY <1>2, <1>7 DEF WithField
  <2>2. QED BY <1>1, <1>3, <1>7, <2>1 DEF SameTasks, Slots, TaskAt, Item
<1>8. QED BY <1>4, <1>5, <1>6, <1>7 DEF Fields

\* Vacating a task frees its slot and no other.
LEMMA VacateInv ==
    ASSUME TypeInv, TableInv, NEW t, t # NULL, Vacate(t)
    PROVE  /\ TableInv' /\ Slots' = Slots
           /\ \A j \in Slots : /\ TaskAt(j) # t => TaskAt(j)' = TaskAt(j)
                               /\ items[j].priority' = items[j].priority
                               /\ items[j].type' = items[j].type
<1>1. CASE ~HasTask(t)
  <2>1. UNCHANGED <<items, size>>
      BY <1>1 DEF Vacate
  <2>2. SameTasks
      BY <2>1 DEF SameTasks, Slots, TaskAt
  <2>3. QED BY <2>1, <2>2, SameTasksInv DEF Slots, TaskAt
<1>2. CASE HasTask(t)
  <2> DEFINE i == sch_get_item(t)
  <2>1. i \in Slots /\ TaskAt(i) = t /\ items[i].state # "EMPTY"
      BY <1>2, ItemFound DEF TableInv, OccupiedByTask
  <2>2. /\ items' = [items EXCEPT ![i].state = "EMPTY", ![i].callback = NULL]
        /\ size' = (size - 1) % ByteMod
      BY <1>2 DEF Vacate
  <2> HIDE DEF i
  <2>3. \A j \in Slots : items[j] \in Item
      BY UsedSlots
  <2>4. /\ Slots' = Slots
        /\ \A j \in Slots : j # i => items'[j] = items[j]
        /\ items'[i] = [items[i] EXCEPT !.state = "EMPTY", !.callback = NULL]
      BY <2>1, <2>2 DEF Slots
  <2>5. /\ items'[i].state = "EMPTY" /\ items'[i].callback = NULL
        /\ items'[i].priority = items[i].priority /\ items'[i].type = items[i].type
      BY <2>1, <2>3, <2>4 DEF Item
  <2>6. Used' = Used \ {i} /\ i \in Used
      BY <2>1, <2>4, <2>5 DEF Used
  <2>7. size' = Cardinality(Used')
    <3>1. size = Cardinality(Used) /\ size \in 1..255 /\ Cardinality(Used') = size - 1
      <4>1. Cardinality(Used \ {i}) = Cardinality(Used) - 1 /\ Cardinality(Used) # 0
          BY <2>6, UsedSlots, FS_RemoveElement, FS_EmptySet
      <4>2. Cardinality(Used) \in Nat /\ size \in 0..255 /\ size = Cardinality(Used)
          BY UsedSlots DEF TypeInv, TypeOK, TableInv, ByteMod
      <4>3. QED BY <2>6, <4>1, <4>2
    <3>2. (size - 1) % ByteMod = size - 1
        BY <3>1 DEF ByteMod
    <3>3. QED BY <2>2, <3>1, <3>2
  <2>8. OccupiedByTask' /\ TasksDiffer'
    <3>1. \A j \in Slots : TaskAt(j)' = IF j = i THEN NULL ELSE TaskAt(j)
        BY <2>4, <2>5 DEF TaskAt
    <3>2. TasksDiffer'
        BY <2>4, <3>1 DEF TableInv, TasksDiffer
    <3>3. \A j \in Slots : items'[j].state = IF j = i THEN "EMPTY" ELSE items[j].state
        BY <2>4, <2>5
    <3>4. OccupiedByTask'
        BY <2>4, <3>1, <3>3 DEF TableInv, OccupiedByTask
    <3>5. QED BY <3>2, <3>4
  <2>9. \A j \in Slots : TaskAt(j) # t => TaskAt(j)' = TaskAt(j)
      BY <2>1, <2>4 DEF TaskAt
  <2>10. \A j \in Slots : /\ items[j].priority' = items[j].priority
                          /\ items[j].type' = items[j].type
      BY <2>1, <2>4, <2>5
  <2>11. QED BY <2>4, <2>7, <2>8, <2>9, <2>10 DEF TableInv
<1>3. QED BY <1>1, <1>2

\* What the new item of a subscribed task is.
NewItem(it, t) ==
    [it EXCEPT !.callback = t, !.count = 0, !.period = 0, !.priority = "LOW", !.state = "STOPPED"]

\* A subscription puts the task into a slot that was free, in a table that it
\* found with room for it or made larger, and touches no other slot.
LEMMA SubscribePlace ==
    ASSUME TypeInv, TableInv, NEW t \in Tasks, sch_subscribe(t)
    PROVE  \E i \in Nat \ Used, l \in capacity..MaxCapacity :
             /\ Slots' = 1..l /\ i \in Slots' /\ size' = (size + 1) % ByteMod
             /\ items'[i].callback = t /\ items'[i].state = "STOPPED" /\ items'[i].priority = "LOW"
             /\ \A j \in Slots \ {i} : items'[j] = items[j]
             /\ \A j \in Slots' \ (Slots \cup {i}) : items'[j] = EmptyItem
<1> DEFINE table == IF size = capacity THEN Grown ELSE items
           free  == {i \in DOMAIN table : table[i].state = "EMPTY"}
<1>1. /\ Slots = 1..capacity /\ capacity \in 1..MaxCapacity /\ size \in Nat
      /\ Increment \in Nat \ {0} /\ MaxCapacity \in Nat
    BY UsedSlots, ParameterAssumption DEF TypeInv, TypeOK, ByteMod
<1>2. PICK l \in capacity..MaxCapacity :
        /\ DOMAIN table = 1..l
        /\ \A j \in Slots : table[j] = items[j]
        /\ \A j \in (1..l) \ Slots : table[j] = EmptyItem
        /\ size = capacity => l > capacity
  <2>1. CASE size = capacity
    <3>1. size + Increment \in capacity..MaxCapacity /\ size + Increment > capacity
        BY <1>1, <2>1 DEF sch_subscribe
    <3>2. table = [i \in 1..(size + Increment) |-> IF i \in Slots THEN items[i] ELSE EmptyItem]
        BY <2>1 DEF Grown
    <3>3. QED BY <1>1, <2>1, <3>1, <3>2
  <2>2. CASE size # capacity
      BY <1>1, <2>2 DEF Slots
  <2>3. QED BY <2>1, <2>2
<1>3. /\ items' = Stored(table, t)
      /\ size' = IF free # {} THEN (size + 1) % ByteMod ELSE size
  <2>1. (\E i \in DOMAIN table : table[i].state = "EMPTY") <=> free # {}
      OBVIOUS
  <2>2. QED BY <2>1, Zenon DEF sch_subscribe
<1> HIDE DEF table
<1>4. free # {}
  <2>1. CASE size = capacity
    <3>1. l \in (1..l) \ Slots
        BY <1>1, <1>2, <2>1
    <3>2. QED BY <1>2, <3>1 DEF EmptyItem
  <2>2. CASE size # capacity
    <3>1. Used # Slots
        BY <2>2 DEF TableInv, capacity
    <3>2. PICK j \in Slots : items[j].state = "EMPTY"
        BY <3>1 DEF Used
    <3>3. j \in 1..l
        BY <1>1, <1>2
    <3>4. QED BY <1>2, <3>2, <3>3
  <2>3. QED BY <2>1, <2>2
<1>5. PICK i \in free : items' = [table EXCEPT ![i] = NewItem(@, t)]
  <2>1. free \in SUBSET Nat
      BY <1>1, <1>2
  <2>2. PICK i \in free : \A j \in free : i <= j
      BY <1>4, <2>1, FirstSlot
  <2> DEFINE first == CHOOSE k \in free : \A j \in free : k <= j
  <2>3. first \in free
      BY <2>2
  <2>4. items' = [table EXCEPT ![first] = NewItem(@, t)]
      BY <1>3, <1>4, Zenon DEF Stored, NewItem
  <2>5. QED BY <2>3, <2>4
<1>6. table[i] \in Item /\ table[i].state = "EMPTY" /\ i \in 1..l
    BY <1>2, UsedSlots, EmptyItemType
<1>7. /\ Slots' = 1..l /\ i \in 1..l
      /\ items'[i] = NewItem(table[i], t)
      /\ \A j \in (1..l) \ {i} : items'[j] = table[j]
    BY <1>2, <1>5, <1>6 DEF Slots
<1>8. items'[i].callback = t /\ items'[i].state = "STOPPED" /\ items'[i].priority = "LOW"
    BY <1>6, <1>7 DEF NewItem, Item
<1>9. i \in Nat \ Used
    BY <1>1, <1>2, <1>6 DEF Used
<1>10. Slots \subseteq 1..l
    BY <1>1, <1>2
<1>11. QED BY <1>2, <1>3, <1>4, <1>7, <1>8, <1>9, <1>10

\* A subscription of a task that is not in the table keeps the table consistent.
LEMMA SubscribeInv ==
    ASSUME TypeInv, TypeInv', TableInv, NEW t \in Tasks, ~HasTask(t), sch_subscribe(t)
    PROVE  TableInv'
<1>1. PICK i \in Nat \ Used, l \in capacity..MaxCapacity :
             /\ Slots' = 1..l /\ i \in Slots' /\ size' = (size + 1) % ByteMod
             /\ items'[i].callback = t /\ items'[i].state = "STOPPED" /\ items'[i].priority = "LOW"
             /\ \A j \in Slots \ {i} : items'[j] = items[j]
             /\ \A j \in Slots' \ (Slots \cup {i}) : items'[j] = EmptyItem
    BY SubscribePlace
<1>2. Slots \subseteq Slots' /\ t # NULL
    BY <1>1, UsedSlots, ParameterAssumption
<1>3. EmptyItem.state = "EMPTY" /\ EmptyItem.callback = NULL
    BY DEF EmptyItem
<1>4. Used' = Used \cup {i}
    BY <1>1, <1>2, <1>3 DEF Used
<1>5. size' = Cardinality(Used')
  <2>1. Cardinality(Used') = Cardinality(Used) + 1 /\ Cardinality(Used) \in Nat
    <3>1. IsFiniteSet(Used) /\ Cardinality(Used) \in Nat
        BY UsedSlots, FS_CardinalityType
    <3>2. Cardinality(Used \cup {i}) = Cardinality(Used) + 1
        BY <1>1, <3>1, FS_AddElement
    <3>3. QED BY <1>4, <3>1, <3>2
  <2>2. Cardinality(Used') <= 255
    <3>1. l \in 1..255
        BY <1>1, UsedSlots, ParameterAssumption DEF ByteMod
    <3>2. IsFiniteSet(1..l) /\ Cardinality(1..l) = l
      <4>1. 1 \in Int /\ l \in Int /\ ~(1 > l) /\ l - 1 + 1 = l
          BY <3>1
      <4>2. QED BY <4>1, FS_Interval
    <3>3. Used' \in SUBSET (1..l)
        BY <1>1 DEF Used
    <3>4. Cardinality(Used') <= l /\ Cardinality(Used') \in Nat
        BY <3>2, <3>3, FS_Subset, FS_CardinalityType
    <3>5. QED BY <3>1, <3>4
  <2>3. size = Cardinality(Used) /\ size + 1 \in 0..255
      BY <2>1, <2>2 DEF TableInv
  <2>4. (size + 1) % ByteMod = size + 1
      BY <2>3 DEF ByteMod
  <2>5. QED BY <1>1, <2>1, <2>3, <2>4
<1>6. \A j \in Slots' : \/ j = i /\ TaskAt(j)' = t
                        \/ j # i /\ j \in Slots /\ TaskAt(j)' = TaskAt(j)
                        \/ j # i /\ TaskAt(j)' = NULL
    BY <1>1, <1>3 DEF TaskAt
<1>7. \A j \in Slots : TaskAt(j) # t
    BY DEF HasTask, TaskAt
<1>8. TasksDiffer'
    BY <1>6, <1>7 DEF TableInv, TasksDiffer
<1>9. OccupiedByTask'
  <2>1. SUFFICES ASSUME NEW j \in Slots'
                 PROVE  items'[j].state = "EMPTY" <=> items'[j].callback = NULL
      BY DEF OccupiedByTask, TaskAt
  <2>2. CASE j = i
      BY <1>1, <1>2, <2>2
  <2>3. CASE j # i /\ j \in Slots
      BY <1>1, <2>3 DEF TableInv, OccupiedByTask, TaskAt
  <2>4. CASE j # i /\ j \notin Slots
      BY <1>1, <1>3, <2>1, <2>4
  <2>5. QED BY <2>2, <2>3, <2>4
<1>10. QED BY <1>5, <1>8, <1>9 DEF TableInv

-----------------------------------------------------------------------------
(* The steps. *)

\* No walk is at a slot while main is free in its loop.
NoWalk == \A c \in Contexts : pc[c] \notin {"add", "run"}

\* A step that leaves tasks, priorities and types, and the walks, as they are.
LEMMA QuietStep ==
    ASSUME SchInv, TypeInv', SameTasks, UNCHANGED <<size, pc, idx, call>>,
           \A i \in Slots : /\ items[i].priority' = items[i].priority
                            /\ items[i].type' = items[i].type
    PROVE  SchInv'
<1>1. TableInv'
    BY SameTasksInv DEF SchInv
<1>2. ASSUME NEW c \in Contexts PROVE Holds(c)'
  <2>1. CASE pc[c] \in {"add", "run"}
    <3>1. idx[c] \in Slots
        BY <2>1 DEF SchInv, TypeInv, WalkInBounds
    <3>2. QED BY <2>1, <3>1 DEF SchInv, WalkInv, Holds, SameTasks, PriorityOf, TaskAt
  <2>2. CASE pc[c] \notin {"add", "run"}
      BY <2>2 DEF Holds
  <2>3. QED BY <2>1, <2>2
<1>3. WalkInv'
    BY <1>2 DEF SchInv, WalkInv
<1>4. QED BY <1>1, <1>3 DEF SchInv

\* A step of the main loop, with no walk at a slot.
LEMMA LoopStep ==
    ASSUME TypeInv', TableInv', NoWalk, pc' = pc, pc["main"] = "loop"
    PROVE  SchInv'
BY DEF SchInv, WalkInv, Holds, NoWalk

\* The setters may be called by anybody.
LEMMA SetterInv ==
    ASSUME SchInv, TypeInv', NEW t \in Tasks, NEW v,
           sch_set_task_period(t, v) \/ (v \in States /\ sch_set_task_state(t, v))
    PROVE  SchInv'
<1>1. CASE sch_set_task_period(t, v)
  <2>1. Set(t, "period", v) /\ UNCHANGED <<size, pc, idx, call>>
      BY <1>1 DEF sch_set_task_period
  <2>2. QED BY <2>1, SetSameTasks, QuietStep DEF SchInv, Fields
<1>2. CASE v \in States /\ sch_set_task_state(t, v)
  <2>1. Set(t, "state", v) /\ v # "EMPTY" /\ UNCHANGED <<size, pc, idx, call>>
      BY <1>2, ParameterAssumption DEF sch_set_task_state
  <2>2. QED BY <2>1, SetSameTasks, QuietStep DEF SchInv, Fields
<1>3. QED BY <1>1, <1>2

\* So may sch_trigger_task.
LEMMA TriggerInv ==
    ASSUME SchInv, TypeInv', NEW t \in Tasks, sch_trigger_task(t)
    PROVE  SchInv'
<1> DEFINE i == sch_get_item(t)
<1>1. i \in Slots /\ items[i].state # "EMPTY"
    BY ItemFound, ParameterAssumption DEF sch_trigger_task, SchInv, TableInv, OccupiedByTask
<1>2. items' = [items EXCEPT ![i].count = 0, ![i].state = "RUNNING"]
    BY DEF sch_trigger_task
<1> HIDE DEF i
<1>3. \A j \in Slots : items[j] \in Item
    BY UsedSlots DEF SchInv
<1>4. /\ SameTasks
      /\ \A j \in Slots : /\ items[j].priority' = items[j].priority
                          /\ items[j].type' = items[j].type
    BY <1>1, <1>2, <1>3 DEF SameTasks, Slots, TaskAt, Item
<1>5. QED BY <1>4, QuietStep DEF sch_trigger_task

\* Who may call what, from where.
LEMMA CallerContexts ==
    ASSUME NEW t \in Tasks, NEW op
    PROVE  /\ MayCall(op, t) /\ op \in {"schedule", "subscribe_and_set"} =>
                MainFree /\ pc["main"] = "loop"
           /\ MayCall("unsubscribe", t) => MainFree /\ pc["main"] \in {"loop", "run"}
<1>1. ASSUME NEW o \in {"schedule", "subscribe_and_set"}
      PROVE  <<o, t>> \notin Calls["low"] /\ <<o, t>> \notin Calls["high"] /\ <<o, t>> \notin Calls["exti"]
    BY CallAssumption DEF Setters
<1>2. <<"unsubscribe", t>> \notin Calls["high"] /\ <<"unsubscribe", t>> \notin Calls["exti"]
    BY CallAssumption DEF Setters
<1>3. QED BY <1>1, <1>2 DEF MayCall

\* While main is in its loop and SysTick is not running, nobody is at a slot.
LEMMA MainLoopNoWalk ==
    ASSUME Executing("main"), pc["main"] = "loop"
    PROVE  NoWalk
BY DEF Executing, NoWalk, Contexts

\* sch_unsubscribe, from the loop or from a callback of the main loop: not from
\* the callback of a ONCE task for that task itself.
LEMMA UnsubscribeInv ==
    ASSUME SchInv, TypeInv', ~SelfRemoval, NEW t \in Tasks, sch_unsubscribe(t)
    PROVE  SchInv'
<1>1. MainFree /\ pc["main"] \in {"loop", "run"}
    BY CallerContexts DEF sch_unsubscribe
<1>2. /\ TableInv' /\ Slots' = Slots
      /\ \A j \in Slots : /\ TaskAt(j) # t => TaskAt(j)' = TaskAt(j)
                          /\ items[j].priority' = items[j].priority
                          /\ items[j].type' = items[j].type
    BY VacateInv, ParameterAssumption DEF sch_unsubscribe, SchInv
<1>3. UNCHANGED <<pc, idx, call>> /\ ~RemovesItself(t)
    BY DEF sch_unsubscribe
<1>4. ASSUME NEW c \in Contexts, pc[c] \in {"add", "run"} PROVE Holds(c)'
  <2>1. c = "main" /\ pc[c] = "run"
      BY <1>1, <1>4 DEF MainFree, Executing, Contexts
  <2>2. idx[c] \in Slots
      BY <1>4 DEF SchInv, TypeInv, WalkInBounds
  <2>3. Holds(c)
      BY DEF SchInv, WalkInv
  <2>4. items[idx[c]].type = "ONCE" => TaskAt(idx[c]) # t
      BY <1>3, <2>1 DEF RemovesItself, TaskAt
  <2>5. PICK j \in Slots : j = idx[c] /\ j = idx'[c]
      BY <1>3, <2>2
  <2>6. /\ items'[j].priority = items[j].priority /\ items'[j].type = items[j].type
        /\ TaskAt(j) # t => items'[j].callback = TaskAt(j)
      BY <1>2 DEF TaskAt
  <2>7. QED
      BY <1>3, <2>1, <2>3, <2>4, <2>5, <2>6 DEF Holds, PriorityOf, TaskAt
<1>5. ASSUME NEW c \in Contexts, pc[c] \notin {"add", "run"} PROVE Holds(c)'
    BY <1>3, <1>5 DEF Holds
<1>6. WalkInv'
    BY <1>3, <1>4, <1>5 DEF SchInv, WalkInv
<1>7. QED BY <1>2, <1>6 DEF SchInv

\* The composite calls are made from the main loop only.
LEMMA CompositeInv ==
    ASSUME SchInv, TypeInv', ~Resubscribe, NEW t \in Tasks, NEW p, NEW cfg,
           sch_schedule_task(t, p) \/ sch_subscribe_and_set(t, cfg)
    PROVE  SchInv'
<1>1. MainFree /\ pc["main"] = "loop" /\ pc' = pc /\ sch_subscribe(t)
    BY CallerContexts DEF sch_schedule_task, sch_subscribe_and_set
<1>2. TableInv'
    BY <1>1, SubscribeInv DEF sch_subscribe, SchInv
<1>3. QED BY <1>1, <1>2, MainLoopNoWalk, LoopStep DEF MainFree

\* They set the fields, or give up, in the main loop.
LEMMA ContinueInv ==
    ASSUME SchInv, TypeInv', ContinueCall
    PROVE  SchInv'
<1>1. call \in CompositeCall /\ pc["main"] = "loop" /\ Executing("main") /\ pc' = pc
    BY DEF ContinueCall, SetNextField, AbandonCall, SchInv, TypeInv, TypeOK, WalkInv
<1>2. call.task \in Tasks /\ call.task # NULL /\ call.field \in Fields /\ call.cfg \in Config
    BY <1>1, ParameterAssumption DEF CompositeCall, Fields
<1>3. TableInv'
  <2>1. CASE SetNextField
    <3>1. call.field = "state" => call.cfg[call.field] # "EMPTY"
        BY <1>2 DEF Config
    <3>2. SameTasks /\ size' = size
        BY <1>2, <2>1, <3>1, SetSameTasks DEF SetNextField, SchInv
    <3>3. QED BY <3>2, SameTasksInv DEF SchInv
  <2>2. CASE AbandonCall
    <3>1. CASE Vacate(call.task)
        BY <1>2, <3>1, VacateInv DEF SchInv
    <3>2. CASE UNCHANGED <<items, size>>
        BY <3>2, SameTasksInv DEF SameTasks, Slots, TaskAt, SchInv
    <3>3. QED BY <2>2, <3>1, <3>2 DEF AbandonCall
  <2>3. QED BY <2>1, <2>2 DEF ContinueCall
<1>4. QED BY <1>1, <1>3, MainLoopNoWalk, LoopStep

\* A step that is about the loop or a tick keeps the walks that are at a slot.
LEMMA TickInv ==
    ASSUME SchInv, TypeInv', sch_task_watcher \/ sch_on_time_change
    PROVE  SchInv'
<1>1. /\ UNCHANGED <<items, size, call>>
      /\ call = NoCall \/ pc'["main"] = pc["main"]
      /\ \A c \in Contexts : pc'[c] \in {"add", "run"} => pc'[c] = pc[c] /\ idx'[c] = idx[c]
    BY DEF sch_task_watcher, TestTicks, LoadTicks, StoreTicks, sch_on_time_change,
           MainFree, SchInv, TypeInv, TypeOK, Contexts
<1>2. TableInv'
    BY <1>1, SameTasksInv DEF SameTasks, Slots, TaskAt, SchInv
<1>3. WalkInv'
    BY <1>1 DEF SchInv, WalkInv, Holds, TaskAt, PriorityOf
<1>4. QED BY <1>2, <1>3 DEF SchInv

\* The other walk keeps what it relies on when this one neither vacates a slot
\* nor changes a priority or a type.
LEMMA OtherWalk ==
    ASSUME SchInv, NEW c \in Contexts, NEW d \in Contexts \ {c}, sch_call_tasks(c),
           \A i \in Slots : /\ items'[i].priority = items[i].priority
                            /\ items'[i].type = items[i].type
                            /\ idx[d] = i /\ TaskAt(i) # NULL => items'[i].callback = TaskAt(i)
    PROVE  Holds(d)'
<1>1. pc'[d] = pc[d] /\ idx'[d] = idx[d]
    BY DEF sch_call_tasks, SkipSlot, LoadCount, CountTick, StartTask, FinishTask, EndWalk,
           SchInv, TypeInv, TypeOK
<1>2. CASE pc[d] \in {"add", "run"}
  <2>1. PICK i \in Slots : i = idx[d] /\ i = idx'[d]
      BY <1>1, <1>2 DEF SchInv, TypeInv, WalkInBounds
  <2>2. /\ items[i].priority = PriorityOf(d)
        /\ pc[d] = "add" \/ items[i].type = "ONCE" => TaskAt(i) # NULL
      BY <1>2, <2>1 DEF SchInv, WalkInv, Holds
  <2>3. /\ items'[i].priority = PriorityOf(d)
        /\ pc[d] = "add" \/ items'[i].type = "ONCE" => items'[i].callback # NULL
    <3>1. /\ items'[i].priority = items[i].priority /\ items'[i].type = items[i].type
          /\ TaskAt(i) # NULL => items'[i].callback = TaskAt(i)
        BY <2>1
    <3>2. QED BY <2>2, <3>1
  <2>4. QED BY <1>1, <2>1, <2>3 DEF Holds, PriorityOf, TaskAt
<1>3. CASE pc[d] \notin {"add", "run"}
    BY <1>1, <1>3 DEF Holds
<1>4. QED BY <1>2, <1>3

\* A composite call is in progress only when main is in its loop, and then the
\* walk is SysTick's.
LEMMA WalkCall ==
    ASSUME SchInv, NEW c \in Contexts, sch_call_tasks(c)
    PROVE  call' # NoCall => pc'["main"] = "loop"
<1>1. call' = call
    BY DEF sch_call_tasks, SkipSlot, LoadCount, CountTick, StartTask, FinishTask, EndWalk
<1>2. ASSUME call # NoCall PROVE pc["main"] = "loop"
    BY <1>2 DEF SchInv, WalkInv
<1>3. pc["main"] = "loop" => pc'["main"] = "loop"
  <2>1. CASE c = "main"
      BY <2>1 DEF sch_call_tasks, SkipSlot, LoadCount, CountTick, StartTask, FinishTask,
                  EndWalk, Contexts
  <2>2. CASE c = "systick"
      BY <2>2 DEF sch_call_tasks, SkipSlot, LoadCount, CountTick, StartTask, FinishTask,
                  EndWalk, SchInv, TypeInv, TypeOK, Contexts
  <2>3. QED BY <2>1, <2>2 DEF Contexts
<1>4. QED BY <1>1, <1>2, <1>3

\* The steps that read a slot.
LEMMA ReadStepInv ==
    ASSUME SchInv, TypeInv', NEW c \in Contexts, SkipSlot(c) \/ LoadCount(c) \/ EndWalk(c)
    PROVE  SchInv'
<1>1. UNCHANGED <<items, size>> /\ sch_call_tasks(c)
    BY DEF SkipSlot, LoadCount, EndWalk, sch_call_tasks
<1>2. TableInv'
    BY <1>1, SameTasksInv DEF SameTasks, Slots, TaskAt, SchInv
<1>3. Holds(c)'
  <2>1. CASE SkipSlot(c) \/ EndWalk(c)
    <3>1. pc'[c] \notin {"add", "run"}
        BY <2>1 DEF SkipSlot, EndWalk, SchInv, TypeInv, TypeOK
    <3>2. QED BY <3>1 DEF Holds
  <2>2. CASE LoadCount(c)
    <3>1. PICK i \in Slots : i = idx[c] /\ i = idx'[c]
        BY <2>2 DEF LoadCount
    <3>2. items[i].priority = PriorityOf(c) /\ TaskAt(i) # NULL
        BY <2>2, <3>1 DEF LoadCount, Selected, SchInv, TableInv, OccupiedByTask
    <3>3. QED BY <1>1, <3>1, <3>2 DEF Holds, TaskAt, PriorityOf
  <2>3. QED BY <2>1, <2>2
<1>4. \A d \in Contexts \ {c} : Holds(d)'
    BY <1>1, OtherWalk DEF TaskAt
<1>5. QED BY <1>1, <1>2, <1>3, <1>4, WalkCall DEF SchInv, WalkInv

\* The steps that write the slot they are at: the task stays in it.
LEMMA WriteStepInv ==
    ASSUME SchInv, TypeInv', NEW c \in Contexts, CountTick(c) \/ StartTask(c)
    PROVE  SchInv'
<1>1. PICK i \in Slots : i = idx[c]
    BY DEF CountTick, StartTask, SchInv, TypeInv, WalkInBounds
<1>2. items[i].priority = PriorityOf(c) /\ TaskAt(i) # NULL /\ items[i].state # "EMPTY"
    BY <1>1 DEF CountTick, StartTask, SchInv, WalkInv, Holds, TableInv, OccupiedByTask
<1>3. \A j \in Slots : items[j] \in Item
    BY UsedSlots DEF SchInv
<1>4. /\ Slots' = Slots
      /\ \A j \in Slots : /\ items'[j].callback = items[j].callback
                          /\ items'[j].priority = items[j].priority
                          /\ items'[j].type = items[j].type
                          /\ items'[j].state = "EMPTY" <=> items[j].state = "EMPTY"
  <2>1. CASE CountTick(c)
    <3>1. items' = [items EXCEPT ![i].count = NewCount(c)]
        BY <1>1, <2>1 DEF CountTick
    <3>2. QED BY <1>3, <3>1 DEF Slots, Item
  <2>2. CASE StartTask(c)
    <3>1. PICK s : s # "EMPTY" /\ items' = [items EXCEPT ![i].count = 0, ![i].state = s]
      <4>1. CASE items[i].type = "TRIGGER"
          BY <1>1, <2>2, <4>1 DEF StartTask
      <4>2. CASE items[i].type # "TRIGGER"
          BY <1>1, <1>2, <1>3, <2>2, <4>2 DEF StartTask, Slots, Item
      <4>3. QED BY <4>1, <4>2
    <3>2. QED BY <1>2, <1>3, <3>1 DEF Slots, Item
  <2>3. QED BY <2>1, <2>2
<1>5. SameTasks /\ size' = size /\ sch_call_tasks(c)
    BY <1>4 DEF SameTasks, TaskAt, CountTick, StartTask, sch_call_tasks
<1>6. TableInv'
    BY <1>5, SameTasksInv DEF SchInv
<1>7. Holds(c)'
  <2>1. CASE CountTick(c)
    <3>1. pc'[c] = "scan"
        BY <2>1 DEF CountTick, SchInv, TypeInv, TypeOK
    <3>2. QED BY <3>1 DEF Holds
  <2>2. CASE StartTask(c)
    <3>1. idx' = idx
        BY <2>2 DEF StartTask
    <3>2. QED BY <1>1, <1>2, <1>4, <3>1 DEF Holds, TaskAt, PriorityOf
  <2>3. QED BY <2>1, <2>2
<1>8. \A d \in Contexts \ {c} : Holds(d)'
    BY <1>4, <1>5, OtherWalk DEF TaskAt
<1>9. QED BY <1>5, <1>6, <1>7, <1>8, WalkCall DEF SchInv, WalkInv

\* The removal of a ONCE task frees the slot that the walk is at.  When main is
\* at a slot under SysTick's walk, that slot has another task.
LEMMA FinishInv ==
    ASSUME SchInv, TypeInv', NEW c \in Contexts, FinishTask(c)
    PROVE  SchInv'
<1>1. PICK i \in Slots : i = idx[c]
    BY DEF FinishTask, SchInv, TypeInv, WalkInBounds
<1>2. Holds(c) /\ pc[c] = "run" /\ pc'[c] = "scan" /\ sch_call_tasks(c)
    BY DEF FinishTask, SchInv, WalkInv, TypeInv, TypeOK, sch_call_tasks
<1>3. Holds(c)'
    BY <1>2 DEF Holds
<1>4. CASE items[i].type # "ONCE"
  <2>1. UNCHANGED <<items, size>>
      BY <1>1, <1>4 DEF FinishTask
  <2>2. TableInv'
      BY <2>1, SameTasksInv DEF SameTasks, Slots, TaskAt, SchInv
  <2>3. \A d \in Contexts \ {c} : Holds(d)'
      BY <1>2, <2>1, OtherWalk DEF TaskAt
  <2>4. QED BY <1>2, <1>3, <2>2, <2>3, WalkCall DEF SchInv, WalkInv
<1>5. CASE items[i].type = "ONCE"
  <2>1. PICK t : t = TaskAt(i) /\ t # NULL
      BY <1>1, <1>2, <1>5 DEF Holds
  <2>2. Vacate(t)
      BY <1>1, <1>5, <2>1 DEF FinishTask, TaskAt
  <2>3. /\ TableInv' /\ Slots' = Slots
        /\ \A j \in Slots : /\ TaskAt(j) # t => TaskAt(j)' = TaskAt(j)
                            /\ items[j].priority' = items[j].priority
                            /\ items[j].type' = items[j].type
      BY <2>1, <2>2, VacateInv DEF SchInv
  <2>4. ASSUME NEW d \in Contexts \ {c} PROVE Holds(d)'
    <3>1. CASE pc[d] \in {"add", "run"}
      <4>1. c = "systick" /\ d = "main"
          BY <3>1 DEF FinishTask, Executing, Contexts
      <4>2. PICK j \in Slots : j = idx[d]
          BY <3>1 DEF SchInv, TypeInv, WalkInBounds
      <4>3. items[i].priority = "HIGH" /\ items[j].priority = "LOW"
          BY <1>1, <1>2, <3>1, <4>1, <4>2 DEF SchInv, WalkInv, Holds, PriorityOf
      <4>4. TaskAt(j) # t
          BY <2>1, <4>3 DEF SchInv, TableInv, TasksDiffer
      <4>5. /\ items'[j].priority = items[j].priority /\ items'[j].type = items[j].type
            /\ items'[j].callback = TaskAt(j)
          BY <2>3, <4>4 DEF TaskAt
      <4>6. pc'[d] = pc[d] /\ idx'[d] = idx[d] /\ Holds(d)
          BY DEF FinishTask, SchInv, WalkInv, TypeInv, TypeOK
      <4>7. QED BY <4>2, <4>5, <4>6 DEF Holds, PriorityOf, TaskAt
    <3>2. CASE pc[d] \notin {"add", "run"}
      <4>1. pc'[d] = pc[d]
          BY DEF FinishTask, SchInv, TypeInv, TypeOK
      <4>2. QED BY <3>2, <4>1 DEF Holds
    <3>3. QED BY <3>1, <3>2
  <2>5. QED BY <1>2, <1>3, <2>3, <2>4, WalkCall DEF SchInv, WalkInv
<1>6. QED BY <1>4, <1>5

\* The table is empty.
LEMMA InitSchInv == Init => SchInv
<1> SUFFICES ASSUME Init PROVE SchInv
    OBVIOUS
<1>1. Used = {}
    BY DEF Init, Used, Slots, EmptyItem
<1>2. \A i \in Slots : items[i].state = "EMPTY" /\ TaskAt(i) = NULL
    BY DEF Init, Slots, EmptyItem, TaskAt
<1>3. TableInv
    BY <1>1, <1>2, FS_EmptySet DEF Init, TableInv, OccupiedByTask, TasksDiffer
<1>4. WalkInv
    BY DEF Init, WalkInv, Holds, Contexts
<1>5. QED BY <1>3, <1>4, InitTypeInv DEF SchInv

\* Every step keeps the table consistent.
LEMMA NextSchInv ==
    ASSUME ~SelfRemoval, ~Resubscribe
    PROVE  SchInv /\ [Next]_vars => SchInv'
<1> SUFFICES ASSUME SchInv, [Next]_vars PROVE SchInv'
    OBVIOUS
<1>1. TypeInv'
    BY NextTypeInv DEF SchInv
<1>2. CASE UNCHANGED vars
    BY <1>2 DEF vars, SchInv, TypeInv, TypeOK, WalkInBounds, Slots, Used, TableInv,
                OccupiedByTask, TasksDiffer, TaskAt, WalkInv, Holds, PriorityOf
<1>3. CASE sch_on_time_change \/ sch_task_watcher
    BY <1>1, <1>3, TickInv
<1>4. ASSUME NEW c \in Contexts, sch_call_tasks(c) PROVE SchInv'
    BY <1>1, <1>4, ReadStepInv, WriteStepInv, FinishInv DEF sch_call_tasks
<1>5. CASE ApiCall
  <2>1. PICK t \in Tasks :
          \/ \E p \in Periods : sch_set_task_period(t, p) \/ sch_schedule_task(t, p)
          \/ \E s \in States : sch_set_task_state(t, s)
          \/ \E cfg \in Configs : sch_subscribe_and_set(t, cfg)
          \/ sch_trigger_task(t)
          \/ sch_unsubscribe(t)
      BY <1>5 DEF ApiCall
  <2>2. ASSUME NEW p \in Periods, sch_set_task_period(t, p) PROVE SchInv'
      BY <1>1, <2>2, SetterInv
  <2>3. ASSUME NEW s \in States, sch_set_task_state(t, s) PROVE SchInv'
      BY <1>1, <2>3, SetterInv
  <2>4. ASSUME NEW p \in Periods, sch_schedule_task(t, p) PROVE SchInv'
      BY <1>1, <2>4, CompositeInv
  <2>5. ASSUME NEW cfg \in Configs, sch_subscribe_and_set(t, cfg) PROVE SchInv'
      BY <1>1, <2>5, CompositeInv
  <2>6. QED
      BY <1>1, <2>1, <2>2, <2>3, <2>4, <2>5, TriggerInv, UnsubscribeInv
<1>6. CASE ContinueCall
    BY <1>1, <1>6, ContinueInv
<1>7. QED BY <1>2, <1>3, <1>4, <1>5, <1>6 DEF Next


-----------------------------------------------------------------------------
(* Who changes size.  A slot is HIGH and of type ONCE only while main sets   *)
(* the fields of a HIGH task in a slot that a ONCE task left.                *)

HighOnce(i) == items[i].priority = "HIGH" /\ items[i].type = "ONCE"

HighInv ==
    /\ \A i \in Used : HighOnce(i) => SettingHigh /\ TaskAt(i) = call.task
    /\ call # NoCall /\ ~SettingHigh =>
         \A i \in Slots : TaskAt(i) = call.task => items[i].priority # "HIGH"
    /\ call # NoCall /\ call.cfg.priority = "HIGH" =>
         call.fn = "subscribe_and_set" /\ call.cfg \in Configs

\* A step that adds no task and sets no priority and no type.
LEMMA HighKept ==
    ASSUME HighInv, Slots' = Slots, call' = call,
           \A i \in Slots : /\ items'[i].priority = items[i].priority
                            /\ items'[i].type = items[i].type
                            /\ items'[i].callback # NULL => items'[i].callback = items[i].callback,
           Used' \subseteq Used, TableInv, TableInv', SchInv
    PROVE  HighInv'
<1>1. SettingHigh' <=> SettingHigh
    BY DEF SettingHigh
<1>2. ASSUME NEW i \in Slots PROVE HighOnce(i)' <=> HighOnce(i)
    BY DEF HighOnce
<1>3. \A i \in Used' : TaskAt(i)' = TaskAt(i)
    BY DEF Used, TaskAt, TableInv, OccupiedByTask
<1>4. call # NoCall => call.task # NULL
    BY ParameterAssumption DEF SchInv, TypeInv, TypeOK, CompositeCall
<1>5. \A i \in Slots : call # NoCall /\ TaskAt(i)' = call.task => TaskAt(i) = call.task
    BY <1>4 DEF TaskAt
<1>6. Used \subseteq Slots /\ Used' \subseteq Slots
    BY DEF Used
<1>7. QED BY <1>1, <1>2, <1>3, <1>5, <1>6 DEF HighInv

\* A removal takes a task out of the table and sets nothing else.
LEMMA HighVacate ==
    ASSUME SchInv, TableInv', HighInv, NEW t, t # NULL, Vacate(t), call' = call
    PROVE  HighInv'
<1>1. TypeInv /\ TableInv
    BY DEF SchInv
<1>2. /\ Slots' = Slots
      /\ \A j \in Slots : /\ TaskAt(j) # t => TaskAt(j)' = TaskAt(j)
                          /\ items[j].priority' = items[j].priority
                          /\ items[j].type' = items[j].type
    BY <1>1, VacateInv
<1>3. \A j \in Slots : items'[j].callback # NULL => items'[j].callback = items[j].callback
  <2>1. CASE HasTask(t)
    <3>1. PICK i : items' = [items EXCEPT ![i].state = "EMPTY", ![i].callback = NULL]
        BY <2>1 DEF Vacate
    <3>2. \A j \in Slots : items[j] \in Item
        BY <1>1, UsedSlots
    <3>3. QED BY <3>1, <3>2 DEF Slots, Item
  <2>2. QED BY <2>1 DEF Vacate
<1>4. Used' \subseteq Used
    BY <1>1, <1>2, <1>3 DEF Used, TableInv, OccupiedByTask, TaskAt
<1>5. QED BY <1>1, <1>2, <1>3, <1>4, HighKept

\* Setters, triggers and removals in the table.
LEMMA HighApi ==
    ASSUME SchInv, SchInv', HighInv, NEW t \in Tasks, NEW v,
           \/ sch_set_task_period(t, v)
           \/ v \in States /\ sch_set_task_state(t, v)
           \/ sch_trigger_task(t) \/ sch_unsubscribe(t)
    PROVE  HighInv'
<1>1. TypeInv /\ TableInv /\ TableInv'
    BY DEF SchInv
<1>2. CASE sch_set_task_period(t, v) \/ (v \in States /\ sch_set_task_state(t, v))
  <2>1. PICK f \in {"period", "state"} : Set(t, f, v) /\ (f = "state" => v # "EMPTY")
    <3>1. CASE sch_set_task_period(t, v)
        BY <3>1 DEF sch_set_task_period
    <3>2. CASE v \in States /\ sch_set_task_state(t, v)
        BY <3>2, ParameterAssumption DEF sch_set_task_state
    <3>3. QED BY <1>2, <3>1, <3>2
  <2>2. /\ SameTasks
        /\ \A i \in Slots : /\ items[i].priority' = items[i].priority
                            /\ items[i].type' = items[i].type
      BY <1>1, <2>1, SetSameTasks DEF Fields
  <2>3. call' = call
      BY <1>2 DEF sch_set_task_period, sch_set_task_state
  <2>4. QED BY <1>1, <2>2, <2>3, HighKept DEF SameTasks, Used, TaskAt
<1>3. CASE sch_trigger_task(t)
  <2> DEFINE i == sch_get_item(t)
  <2>1. i \in Slots /\ items[i].state # "EMPTY"
      BY <1>1, <1>3, ItemFound, ParameterAssumption DEF sch_trigger_task, TableInv, OccupiedByTask
  <2>2. items' = [items EXCEPT ![i].count = 0, ![i].state = "RUNNING"] /\ call' = call
      BY <1>3 DEF sch_trigger_task
  <2> HIDE DEF i
  <2>3. \A j \in Slots : items[j] \in Item
      BY <1>1, UsedSlots
  <2>4. /\ SameTasks
        /\ \A j \in Slots : /\ items[j].priority' = items[j].priority
                            /\ items[j].type' = items[j].type
      BY <2>1, <2>2, <2>3 DEF SameTasks, Slots, TaskAt, Item
  <2>5. QED BY <1>1, <2>2, <2>4, HighKept DEF SameTasks, Used, TaskAt
<1>4. CASE sch_unsubscribe(t)
    BY <1>1, <1>4, HighVacate, ParameterAssumption DEF sch_unsubscribe
<1>5. QED BY <1>2, <1>3, <1>4

\* A new task is LOW, whatever its slot was used for.
LEMMA HighComposite ==
    ASSUME SchInv, SchInv', HighInv, ~Resubscribe, NEW t \in Tasks, NEW v,
           \/ v \in Periods /\ sch_schedule_task(t, v)
           \/ v \in Configs /\ sch_subscribe_and_set(t, v)
    PROVE  HighInv'
<1>1. /\ TypeInv /\ TableInv /\ call = NoCall /\ sch_subscribe(t) /\ t # NULL
      /\ \A i \in Slots : TaskAt(i) # t
    BY CallerContexts, ParameterAssumption
    DEF sch_schedule_task, sch_subscribe_and_set, MainFree, SchInv, sch_subscribe, HasTask, TaskAt
<1>2. PICK i \in Nat \ Used, l \in capacity..MaxCapacity :
             /\ Slots' = 1..l /\ i \in Slots' /\ size' = (size + 1) % ByteMod
             /\ items'[i].callback = t /\ items'[i].state = "STOPPED" /\ items'[i].priority = "LOW"
             /\ \A j \in Slots \ {i} : items'[j] = items[j]
             /\ \A j \in Slots' \ (Slots \cup {i}) : items'[j] = EmptyItem
    BY <1>1, SubscribePlace
<1>3. EmptyItem.state = "EMPTY" /\ EmptyItem.callback = NULL
    BY DEF EmptyItem
<1>4. \A j \in Used : ~HighOnce(j)
    BY <1>1 DEF HighInv, SettingHigh, NoCall
<1>5. \A j \in Used' : ~HighOnce(j)'
  <2>1. SUFFICES ASSUME NEW j \in Used' PROVE items'[j].priority # "HIGH" \/ items'[j].type # "ONCE"
      BY DEF HighOnce
  <2>2. j = i \/ (j # i /\ j \in Slots)
      BY <1>2, <1>3 DEF Used
  <2>3. CASE j = i
      BY <1>2, <2>3
  <2>4. CASE j # i /\ j \in Slots
      BY <1>2, <1>4, <2>4 DEF Used, HighOnce
  <2>5. QED BY <2>2, <2>3, <2>4
<1>6. \A j \in Slots' : items'[j].callback = t => items'[j].priority # "HIGH"
  <2>1. SUFFICES ASSUME NEW j \in Slots', items'[j].callback = t PROVE j = i
      BY <1>2
  <2>2. QED BY <1>1, <1>2, <1>3, <2>1 DEF TaskAt
<1>7. call'.task = t /\ call'.field # "state" /\ ~SettingHigh'
    BY DEF sch_schedule_task, sch_subscribe_and_set, SettingHigh
<1>8. call'.cfg.priority = "HIGH" => call'.fn = "subscribe_and_set" /\ call'.cfg \in Configs
    BY DEF sch_schedule_task, sch_subscribe_and_set, OnceConfig
<1>9. QED BY <1>5, <1>6, <1>7, <1>8 DEF HighInv, TaskAt

\* main sets the next field of its task; the type of a HIGH task comes last.
LEMMA HighSet ==
    ASSUME SchInv, SchInv', HighInv, SetNextField
    PROVE  HighInv'
<1> DEFINE i == sch_get_item(call.task)
           v == call.cfg[call.field]
<1>1. /\ TypeInv /\ TableInv /\ call \in CompositeCall /\ call # NoCall /\ HasTask(call.task)
      /\ call.task \in Tasks /\ call.task # NULL /\ call.field \in Fields /\ call.cfg \in Config
    BY ParameterAssumption DEF SetNextField, Set, SchInv, TypeInv, TypeOK, CompositeCall, Fields
<1>2. i \in Slots /\ TaskAt(i) = call.task /\ items[i].state # "EMPTY"
    BY <1>1, ItemFound DEF TableInv, OccupiedByTask
<1>3. Accepts(call.field, v) /\ items' = WithField(i, call.field, v)
    BY DEF SetNextField, Set
<1>4. call' = IF NextField = "done" THEN NoCall ELSE [call EXCEPT !.field = NextField]
    BY DEF SetNextField
<1>5. SameTasks
  <2>1. call.field = "state" => v # "EMPTY"
      BY <1>1 DEF Config
  <2>2. QED BY <1>1, <2>1, SetSameTasks DEF SetNextField
<1> HIDE DEF i
<1>6. \A j \in Slots : items[j] \in Item
    BY <1>1, UsedSlots
<1>7. /\ Used' = Used /\ Slots' = Slots
      /\ \A j \in Slots : TaskAt(j)' = TaskAt(j) /\ (TaskAt(j) = call.task => j = i)
    BY <1>1, <1>2, <1>5 DEF SameTasks, Used, TableInv, TasksDiffer
<1>8. \A j \in Slots : /\ j # i => items'[j] = items[j]
                       /\ j = i /\ call.field # "priority" => items'[j].priority = items[j].priority
                       /\ j = i /\ call.field # "type" => items'[j].type = items[j].type
                       /\ j = i /\ call.field = "priority" => items'[j].priority = v
                       /\ j = i /\ call.field = "type" => items'[j].type = v
  <2>1. CASE call.field = "priority"
    <3>1. items' = [items EXCEPT ![i].priority = v]
        BY <1>3, <2>1 DEF WithField
    <3>2. QED BY <1>2, <1>6, <2>1, <3>1 DEF Slots, Item
  <2>2. CASE call.field = "period"
    <3>1. items' = [items EXCEPT ![i].period = v, ![i].count = 0]
        BY <1>3, <2>2 DEF WithField
    <3>2. QED BY <1>2, <1>6, <2>2, <3>1 DEF Slots, Item
  <2>3. CASE call.field = "state"
    <3>1. items' = [items EXCEPT ![i].state = v]
        BY <1>3, <2>3 DEF WithField
    <3>2. QED BY <1>2, <1>6, <2>3, <3>1 DEF Slots, Item
  <2>4. CASE call.field = "type"
    <3>1. items' = [items EXCEPT ![i].type = v]
        BY <1>3, <2>4 DEF WithField
    <3>2. QED BY <1>2, <1>6, <2>4, <3>1 DEF Slots, Item
  <2>5. QED BY <1>1, <2>1, <2>2, <2>3, <2>4 DEF Fields
<1>9. call.cfg.priority = "HIGH" => call.fn = "subscribe_and_set" /\ call.cfg \in Configs
    BY <1>1 DEF HighInv
<1>10. \A j \in Used : j # i => ~HighOnce(j)'
  <2>1. SUFFICES ASSUME NEW j \in Used, j # i, HighOnce(j)' PROVE FALSE
      OBVIOUS
  <2>2. j \in Slots /\ items'[j] = items[j]
      BY <1>8, <2>1 DEF Used
  <2>3. HighOnce(j)
      BY <2>1, <2>2 DEF HighOnce
  <2>4. QED BY <1>7, <2>1, <2>2, <2>3 DEF HighInv
<1>11. /\ NextField = "done" => call' = NoCall
       /\ NextField # "done" => /\ call'.fn = call.fn /\ call'.task = call.task /\ call'.cfg = call.cfg
                                /\ call'.field = NextField
    BY <1>1, <1>4 DEF CompositeCall
<1>12. CASE call.cfg.priority = "HIGH"
  <2>1. call.fn = "subscribe_and_set" /\ call.cfg.type # "ONCE" /\ NoCall.fn # "subscribe_and_set"
      BY <1>9, <1>12, HighTaskAssumption DEF NoCall
  <2>2. CASE call.field = "type"
    <3>1. call' = NoCall
        BY <1>11, <2>1, <2>2 DEF NextField
    <3>2. \A j \in Used : ~HighOnce(j)'
        BY <1>2, <1>8, <1>10, <2>1, <2>2 DEF HighOnce
    <3>3. QED BY <1>7, <3>1, <3>2 DEF HighInv
  <2>3. CASE call.field # "type"
    <3>1. NextField \in {"period", "state", "type"}
        BY <1>1, <2>1, <2>3 DEF NextField, Fields
    <3>2. /\ call'.fn = call.fn /\ call'.task = call.task /\ call'.cfg = call.cfg
          /\ call'.field = NextField
        BY <1>11, <3>1
    <3>3. SettingHigh'
        BY <1>12, <2>1, <3>1, <3>2 DEF SettingHigh
    <3>4. \A j \in Used' : HighOnce(j)' => TaskAt(j)' = call'.task
        BY <1>2, <1>7, <1>10, <3>2 DEF Used
    <3>5. QED BY <1>9, <1>12, <3>2, <3>3, <3>4 DEF HighInv
  <2>4. QED BY <2>2, <2>3
<1>13. CASE call.cfg.priority # "HIGH"
  <2>1. ~SettingHigh /\ items[i].priority # "HIGH"
      BY <1>1, <1>2, <1>13 DEF SettingHigh, HighInv
  <2>2. items'[i].priority # "HIGH"
      BY <1>2, <1>8, <1>13, <2>1
  <2>3. \A j \in Used' : ~HighOnce(j)'
      BY <1>7, <1>10, <2>2 DEF HighOnce
  <2>4. \A j \in Slots' : TaskAt(j)' = call.task => items'[j].priority # "HIGH"
      BY <1>7, <2>2
  <2>5. QED BY <1>11, <1>13, <2>3, <2>4 DEF HighInv
<1>14. QED BY <1>12, <1>13

\* A HIGH task's setters do not refuse: main gives up only when SysTick removed it.
LEMMA HighAbandon ==
    ASSUME SchInv, SchInv', HighInv, AbandonCall
    PROVE  HighInv'
<1>1. /\ TypeInv /\ TableInv /\ TableInv' /\ call \in CompositeCall /\ call # NoCall
      /\ call.task # NULL /\ call.field \in Fields
    BY ParameterAssumption DEF AbandonCall, SchInv, TypeInv, TypeOK, CompositeCall, Fields
<1>2. call' = NoCall
    BY DEF AbandonCall
<1>3. \A i \in Used : ~HighOnce(i)
  <2>1. CASE ~SettingHigh
      BY <2>1 DEF HighInv
  <2>2. CASE SettingHigh
    <3>1. call.cfg \in Configs /\ call.cfg.priority = "HIGH" /\ call.field # "priority"
        BY <1>1, <2>2 DEF HighInv, SettingHigh
    <3>2. Accepts(call.field, call.cfg[call.field])
        BY <1>1, <3>1, HighTaskAssumption DEF Accepts, sch_is_period_correct, Fields
    <3>3. ~HasTask(call.task)
        BY <3>2 DEF AbandonCall
    <3>4. QED BY <3>3 DEF HighInv, HasTask, TaskAt, Used
  <2>3. QED BY <2>1, <2>2
<1>4. \A i \in Used' : ~HighOnce(i)'
  <2>1. CASE UNCHANGED <<items, size>>
      BY <1>3, <2>1 DEF Used, Slots, HighOnce
  <2>2. CASE Vacate(call.task)
    <3>1. /\ Slots' = Slots
          /\ \A j \in Slots : /\ items[j].priority' = items[j].priority
                              /\ items[j].type' = items[j].type
                              /\ TaskAt(j) # call.task => TaskAt(j)' = TaskAt(j)
        BY <1>1, <2>2, VacateInv
    <3>2. Used' \subseteq Used
      <4>1. \A j \in Slots : items'[j].state = items[j].state \/ items'[j].state = "EMPTY"
        <5>1. CASE HasTask(call.task)
          <6>1. PICK k : items' = [items EXCEPT ![k].state = "EMPTY", ![k].callback = NULL]
              BY <2>2, <5>1 DEF Vacate
          <6>2. \A j \in Slots : items[j] \in Item
              BY <1>1, UsedSlots
          <6>3. QED BY <6>1, <6>2 DEF Slots, Item
        <5>2. QED BY <2>2, <5>1 DEF Vacate
      <4>2. QED BY <3>1, <4>1 DEF Used
    <3>3. QED BY <1>3, <3>1, <3>2 DEF Used, HighOnce
  <2>3. QED BY <2>1, <2>2 DEF AbandonCall
<1>5. QED BY <1>2, <1>4 DEF HighInv, NoCall

\* A walk sets no priority and no type; it vacates the slot of a ONCE task.
LEMMA HighWalk ==
    ASSUME SchInv, SchInv', HighInv, NEW c \in Contexts, sch_call_tasks(c)
    PROVE  HighInv'
<1>1. TypeInv /\ TableInv /\ TableInv' /\ call' = call /\ \A j \in Slots : items[j] \in Item
    BY UsedSlots DEF SchInv, sch_call_tasks, SkipSlot, LoadCount, CountTick, StartTask, FinishTask, EndWalk
<1>2. CASE UNCHANGED items
    BY <1>1, <1>2, HighKept DEF Slots, Used
<1>3. ASSUME FinishTask(c), items[idx[c]].type = "ONCE" PROVE HighInv'
  <2>1. idx[c] \in Slots /\ TaskAt(idx[c]) # NULL
      BY <1>3 DEF FinishTask, SchInv, TypeInv, WalkInBounds, WalkInv, Holds
  <2>2. Vacate(TaskAt(idx[c]))
      BY <1>3 DEF FinishTask, TaskAt
  <2>3. QED BY <1>1, <2>1, <2>2, HighVacate
<1>4. CASE CountTick(c) \/ StartTask(c)
  <2>1. idx[c] \in Slots /\ items[idx[c]].state # "EMPTY"
      BY <1>4 DEF CountTick, StartTask, SchInv, TypeInv, WalkInBounds, WalkInv, Holds, TableInv, OccupiedByTask
  <2>2. PICK x, y : \/ items' = [items EXCEPT ![idx[c]].count = x]
                    \/ items' = [items EXCEPT ![idx[c]].count = x, ![idx[c]].state = y]
    <3>1. CASE CountTick(c)
        BY <3>1 DEF CountTick
    <3>2. CASE StartTask(c)
      <4>1. CASE items[idx[c]].type = "TRIGGER"
          BY <3>2, <4>1 DEF StartTask
      <4>2. CASE items[idx[c]].type # "TRIGGER"
          BY <1>1, <2>1, <3>2, <4>2 DEF StartTask, Slots, Item
      <4>3. QED BY <4>1, <4>2
    <3>3. QED BY <1>4, <3>1, <3>2
  <2>3. /\ Slots' = Slots
        /\ \A j \in Slots : /\ items'[j].priority = items[j].priority
                            /\ items'[j].type = items[j].type
                            /\ items'[j].callback = items[j].callback
                            /\ j # idx[c] => items'[j].state = items[j].state
      BY <1>1, <2>2 DEF Slots, Item
  <2>4. Used' \subseteq Used
      BY <2>1, <2>3 DEF Used
  <2>5. QED BY <1>1, <2>3, <2>4, HighKept
<1>5. QED BY <1>2, <1>3, <1>4 DEF sch_call_tasks, SkipSlot, LoadCount, FinishTask, EndWalk

LEMMA NextHighInv ==
    ASSUME SchInv, SchInv', HighInv, ~Resubscribe, [Next]_vars
    PROVE  HighInv'
<1>1. CASE UNCHANGED vars
    BY <1>1, HighKept DEF vars, Slots, Used, SchInv
<1>2. CASE sch_on_time_change \/ sch_task_watcher
  <2>1. UNCHANGED <<items, call>>
      BY <1>2 DEF sch_on_time_change, sch_task_watcher, TestTicks, LoadTicks, StoreTicks
  <2>2. QED BY <2>1, HighKept DEF Slots, Used, SchInv
<1>3. ASSUME NEW c \in Contexts, sch_call_tasks(c) PROVE HighInv'
    BY <1>3, HighWalk
<1>4. CASE ApiCall
    BY <1>4, HighApi, HighComposite DEF ApiCall
<1>5. CASE ContinueCall
    BY <1>5, HighSet, HighAbandon DEF ContinueCall
<1>6. QED BY <1>1, <1>2, <1>3, <1>4, <1>5 DEF Next

\* Which steps change size.
LEMMA SizeStep ==
    ASSUME SchInv, HighInv, Next, size' # size
    PROVE  pc["systick"] # "off" <=> SettingHigh
<1>1. CASE ApiCall
  <2>1. PICK t \in Tasks, op \in {"schedule", "subscribe_and_set", "unsubscribe"} : MayCall(op, t)
      BY <1>1 DEF ApiCall, sch_set_task_period, sch_set_task_state, sch_trigger_task,
                  sch_schedule_task, sch_subscribe_and_set, sch_unsubscribe
  <2>2. MainFree
      BY <2>1, CallerContexts
  <2>3. QED BY <2>2 DEF MainFree, Executing, SettingHigh, NoCall
<1>2. CASE ContinueCall
  <2>1. pc["systick"] = "off" /\ call.fn = "schedule"
      BY <1>2 DEF ContinueCall, SetNextField, AbandonCall, Executing
  <2>2. QED BY <2>1 DEF SettingHigh
<1>3. ASSUME NEW c \in Contexts, sch_call_tasks(c) PROVE pc["systick"] # "off" <=> SettingHigh
  <2>1. FinishTask(c) /\ items[idx[c]].type = "ONCE"
      BY <1>3 DEF sch_call_tasks, SkipSlot, LoadCount, CountTick, StartTask, FinishTask, EndWalk
  <2>2. /\ pc[c] = "run" /\ Executing(c) /\ idx[c] \in Slots /\ items[idx[c]].priority = PriorityOf(c)
        /\ TaskAt(idx[c]) # NULL
      BY <2>1 DEF FinishTask, SchInv, TypeInv, WalkInBounds, WalkInv, Holds
  <2>3. CASE c = "main"
    <3>1. call = NoCall /\ pc["systick"] = "off"
        BY <2>2, <2>3 DEF SchInv, WalkInv, Executing
    <3>2. QED BY <3>1 DEF SettingHigh, NoCall
  <2>4. CASE c = "systick"
    <3>1. idx[c] \in Used /\ HighOnce(idx[c])
        BY <2>1, <2>2, <2>4 DEF Used, HighOnce, PriorityOf, SchInv, TableInv, OccupiedByTask
    <3>2. QED BY <2>2, <2>4, <3>1 DEF HighInv
  <2>5. QED BY <2>3, <2>4 DEF Contexts
<1>4. CASE sch_on_time_change \/ sch_task_watcher
    BY <1>4 DEF sch_on_time_change, sch_task_watcher, TestTicks, LoadTicks, StoreTicks
<1>5. QED BY <1>1, <1>2, <1>3, <1>4 DEF Next

(* SysTick changes size only while main sets the fields of a HIGH task, and  *)
(* main changes it only when it does not: the size++ of sch_subscribe and    *)
(* the size-- of sch_unsubscribe are never interleaved with another one, so  *)
(* that TableIsConsistent, where each is one step, is about the code.        *)
THEOREM SizeIsNotTorn ==
    ASSUME ~SelfRemoval, ~Resubscribe
    PROVE  Spec => SizeHasOneWriter
<1> DEFINE Own == size' # size => (pc["systick"] # "off" <=> SettingHigh)
<1>1. Init => HighInv
  <2>1. Init => Used = {} /\ call = NoCall
      BY DEF Init, Used, Slots, EmptyItem
  <2>2. QED BY <2>1 DEF HighInv
<1>2. SchInv /\ [Next]_vars => SchInv'
    BY NextSchInv
<1>3. SchInv /\ SchInv' /\ HighInv /\ [Next]_vars => HighInv'
    BY NextHighInv
<1>4. ASSUME SchInv, HighInv, [Next]_vars PROVE [Own]_vars
    BY <1>4, SizeStep
<1> HIDE DEF Own
<1>5. Spec => [][Own]_vars
    BY <1>1, <1>2, <1>3, <1>4, InitSchInv, PTL DEF Spec
<1>6. QED BY <1>5 DEF Own, SizeHasOneWriter

-----------------------------------------------------------------------------
(* The theorems about the table. *)

(* size counts the occupied slots and a slot has a callback exactly when it  *)
(* is occupied, in every state and so between any two steps of a walk that   *)
(* SysTick preempts, when no caller subscribes a task twice or unsubscribes  *)
(* a ONCE task in its own callback.  size++ and size-- are steps of their    *)
(* own in the model: for the configurations of HighTaskAssumption, which are *)
(* all that this holds for, SizeIsNotTorn is why they are so in the code.    *)
THEOREM TableIsConsistent ==
    ASSUME ~SelfRemoval, ~Resubscribe
    PROVE  Spec => []TableConsistent
<1>1. SchInv => TableConsistent
    BY DEF SchInv, TableInv, OccupiedByTask, TaskAt, TableConsistent
<1>2. SchInv /\ [Next]_vars => SchInv'
    BY NextSchInv
<1>3. QED BY <1>1, <1>2, InitSchInv, PTL DEF Spec

(* A subscription that the caller is told succeeded has its task in the      *)
(* table, whether it took a free slot or the table was grown for it, and no  *)
(* task that was there is touched.  It needs the consistency of the table: a *)
(* size above the number of occupied slots would grow the table early, one   *)
(* below it would find no free slot and drop the task.                       *)
THEOREM SubscriptionsStore ==
    ASSUME ~SelfRemoval, ~Resubscribe
    PROVE  Spec => SubscribeStores
<1> DEFINE Stores ==
        \A t \in Tasks :
            (call = NoCall /\ call' # NoCall /\ call'.task = t) =>
                /\ \E i \in DOMAIN items' : items'[i].callback = t
                /\ \A i \in Used : items'[i] = items[i]
<1>1. ASSUME SchInv, Next PROVE Stores
  <2>1. SUFFICES ASSUME NEW t \in Tasks, call = NoCall, call' # NoCall, call'.task = t
                 PROVE  /\ \E i \in DOMAIN items' : items'[i].callback = t
                        /\ \A i \in Used : items'[i] = items[i]
      BY Zenon
  <2>2. sch_subscribe(t)
    <3>1. ASSUME NEW u \in Tasks, NEW p, sch_schedule_task(u, p) PROVE u = t /\ sch_subscribe(u)
        BY <2>1, <3>1 DEF sch_schedule_task
    <3>2. ASSUME NEW u \in Tasks, NEW cfg, sch_subscribe_and_set(u, cfg)
          PROVE  u = t /\ sch_subscribe(u)
        BY <2>1, <3>2 DEF sch_subscribe_and_set
    <3>3. ~ContinueCall /\ call' # call
        BY <2>1 DEF ContinueCall, SetNextField, AbandonCall
    <3>4. /\ ~sch_on_time_change /\ ~sch_task_watcher
          /\ \A c \in Contexts : ~sch_call_tasks(c)
        BY <3>3 DEF sch_on_time_change, sch_task_watcher, TestTicks, LoadTicks, StoreTicks,
                    sch_call_tasks, SkipSlot, LoadCount, CountTick, StartTask, FinishTask, EndWalk
    <3>5. \A u \in Tasks : \A v : /\ ~sch_set_task_period(u, v) /\ ~sch_set_task_state(u, v)
                                  /\ ~sch_trigger_task(u) /\ ~sch_unsubscribe(u)
        BY <3>3 DEF sch_set_task_period, sch_set_task_state, sch_trigger_task, sch_unsubscribe
    <3>6. QED BY <1>1, <3>1, <3>2, <3>3, <3>4, <3>5 DEF Next, ApiCall
  <2>3. PICK i \in Nat \ Used :
             /\ i \in Slots' /\ items'[i].callback = t
             /\ \A j \in Slots \ {i} : items'[j] = items[j]
      BY <1>1, <2>2, SubscribePlace DEF SchInv
  <2>4. Used \subseteq Slots \ {i}
      BY DEF Used
  <2>5. QED BY <2>3, <2>4 DEF Slots
<1>2. ASSUME SchInv, [Next]_vars PROVE [Stores]_vars
    BY <1>1, <1>2
<1>3. SchInv /\ [Next]_vars => SchInv'
    BY NextSchInv
<1> HIDE DEF Stores
<1>4. Spec => [][Stores]_vars
    BY <1>2, <1>3, InitSchInv, PTL DEF Spec
<1>5. QED BY <1>4 DEF Stores, SubscribeStores

-----------------------------------------------------------------------------
(* The counts.  CountBelowPeriod needs no strengthening but the types: every *)
(* step that sets a count tests it against the period it finds then, and     *)
(* every step that sets a period zeroes the count.                           *)

\* A table in which one slot's count is zeroed, is tested, or stays with its period.
LEMMA CountsKept ==
    ASSUME TypeInv, TypeInv', CountBelowPeriod, Slots' = Slots, NEW i,
           \A j \in Slots \ {i} : items'[j].period = items[j].period /\ items'[j].count = items[j].count,
           i \in Slots =>
              \/ items'[i].count = 0
              \/ items'[i].count < items'[i].period
              \/ items'[i].period = items[i].period /\ items'[i].count = items[i].count
    PROVE  CountBelowPeriod'
<1>1. Basetime > 0 /\ Basetime \in Nat
    BY ParameterAssumption
<1>2. SUFFICES ASSUME NEW j \in Slots, items'[j].period >= Basetime
               PROVE  items'[j].count < items'[j].period
    BY DEF CountBelowPeriod
<1>3. items'[j].period \in Nat
  <2>1. PICK k \in 1..MaxCapacity : items' \in [1..k -> Item]
      BY DEF TypeInv, TypeOK
  <2>2. items'[j] \in Item
      BY <2>1 DEF Slots
  <2>3. QED BY <2>2, ItemParts DEF Millis
<1>4. QED BY <1>1, <1>2, <1>3 DEF CountBelowPeriod

\* The setters.
LEMMA SetCounts ==
    ASSUME TypeInv, TypeInv', CountBelowPeriod, NEW t, NEW field \in Fields, NEW value,
           Set(t, field, value)
    PROVE  CountBelowPeriod'
<1> DEFINE i == sch_get_item(t)
<1>1. items' = WithField(i, field, value)
    BY DEF Set
<1> HIDE DEF i
<1>2. \A j \in Slots : items[j] \in Item
    BY UsedSlots
<1>3. /\ Slots' = Slots
      /\ \A j \in Slots \ {i} : items'[j] = items[j]
      /\ i \in Slots =>
            \/ items'[i].count = 0
            \/ items'[i].period = items[i].period /\ items'[i].count = items[i].count
  <2>1. CASE field = "priority"
      BY <1>1, <1>2, <2>1 DEF WithField, Slots, Item
  <2>2. CASE field = "period"
      BY <1>1, <1>2, <2>2 DEF WithField, Slots, Item
  <2>3. CASE field = "state"
      BY <1>1, <1>2, <2>3 DEF WithField, Slots, Item
  <2>4. CASE field = "type"
      BY <1>1, <1>2, <2>4 DEF WithField, Slots, Item
  <2>5. QED BY <2>1, <2>2, <2>3, <2>4 DEF Fields
<1>4. QED BY <1>3, CountsKept

\* Vacating a slot leaves its count and period behind.
LEMMA VacateCounts ==
    ASSUME TypeInv, TypeInv', CountBelowPeriod, NEW t, Vacate(t)
    PROVE  CountBelowPeriod'
<1>1. CASE UNCHANGED items
    BY <1>1 DEF CountBelowPeriod, Slots
<1>2. CASE HasTask(t)
  <2>1. PICK i : items' = [items EXCEPT ![i].state = "EMPTY", ![i].callback = NULL]
      BY <1>2 DEF Vacate
  <2>2. \A j \in Slots : items[j] \in Item
      BY UsedSlots
  <2>3. /\ Slots' = Slots
        /\ \A j \in Slots : items'[j].period = items[j].period /\ items'[j].count = items[j].count
      BY <2>1, <2>2 DEF Slots, Item
  <2>4. QED BY <2>3, CountsKept
<1>3. QED BY <1>1, <1>2 DEF Vacate

\* A subscribed task and the slots of a larger table have no period yet.
LEMMA SubscribeCounts ==
    ASSUME TypeInv, CountBelowPeriod, NEW t \in Tasks, sch_subscribe(t)
    PROVE  CountBelowPeriod'
<1> DEFINE table == IF size = capacity THEN Grown ELSE items
<1>1. Basetime > 0 /\ Basetime \in Nat
    BY ParameterAssumption
<1>2. \A j \in DOMAIN table :
        table[j] \in Item /\ (table[j].period >= Basetime => table[j].count < table[j].period)
  <2>1. \A j \in Slots : items[j] \in Item
      BY UsedSlots
  <2>2. EmptyItem.period = 0 /\ EmptyItem \in Item
      BY EmptyItemType DEF EmptyItem
  <2>3. \A j \in Slots : items[j].period >= Basetime => items[j].count < items[j].period
      BY DEF CountBelowPeriod
  <2>4. \A j \in DOMAIN Grown : Grown[j] = EmptyItem \/ (j \in Slots /\ Grown[j] = items[j])
      BY DEF Grown
  <2>5. CASE size = capacity
      BY <1>1, <2>1, <2>2, <2>3, <2>4, <2>5
  <2>6. CASE size # capacity
      BY <2>1, <2>3, <2>6 DEF Slots
  <2>7. QED BY <2>5, <2>6
<1>3. items' = Stored(table, t)
    BY Zenon DEF sch_subscribe
<1> HIDE DEF table
<1>4. PICK i : items' = table \/ items' = [table EXCEPT ![i] = NewItem(@, t)]
    BY <1>3, Zenon DEF Stored, NewItem
<1>5. \A it \in Item : NewItem(it, t).period = 0
    BY DEF NewItem, Item
<1>6. SUFFICES ASSUME NEW j \in DOMAIN items', items'[j].period >= Basetime
               PROVE  items'[j].count < items'[j].period
    BY DEF CountBelowPeriod, Slots
<1>7. CASE items' = table
    BY <1>2, <1>6, <1>7
<1>8. CASE items' = [table EXCEPT ![i] = NewItem(@, t)]
  <2>1. j \in DOMAIN table /\ (items'[j] = table[j] \/ items'[j] = NewItem(table[j], t))
      BY <1>6, <1>8
  <2>2. items'[j] = table[j]
      BY <1>1, <1>2, <1>5, <1>6, <2>1
  <2>3. QED BY <1>2, <1>6, <2>1, <2>2
<1>9. QED BY <1>4, <1>7, <1>8

\* The walks test the count that they store.
LEMMA WalkCounts ==
    ASSUME TypeInv, TypeInv', CountBelowPeriod, NEW c \in Contexts, sch_call_tasks(c)
    PROVE  CountBelowPeriod'
<1>1. \A j \in Slots : items[j] \in Item
    BY UsedSlots
<1>2. CASE UNCHANGED items
    BY <1>2 DEF CountBelowPeriod, Slots
<1>3. CASE CountTick(c)
  <2>1. PICK i, n : /\ items' = [items EXCEPT ![i].count = n]
                    /\ n < items[i].period
      BY <1>3 DEF CountTick
  <2>2. /\ Slots' = Slots
        /\ \A j \in Slots \ {i} : items'[j] = items[j]
        /\ i \in Slots => items'[i].count < items'[i].period
      BY <1>1, <2>1 DEF Slots, Item
  <2>3. QED BY <2>2, CountsKept
<1>4. CASE StartTask(c)
  <2>1. PICK i, s : items' = [items EXCEPT ![i].count = 0, ![i].state = s]
    <3>1. CASE items[idx[c]].type = "TRIGGER"
        BY <1>4, <3>1 DEF StartTask
    <3>2. CASE items[idx[c]].type # "TRIGGER"
      <4>1. idx[c] \in Slots
          BY <1>4 DEF StartTask, TypeInv, WalkInBounds
      <4>2. items' = [items EXCEPT ![idx[c]].count = 0, ![idx[c]].state = items[idx[c]].state]
          BY <1>1, <1>4, <3>2, <4>1 DEF StartTask, Slots, Item
      <4>3. QED BY <4>2
    <3>3. QED BY <3>1, <3>2
  <2>2. /\ Slots' = Slots
        /\ \A j \in Slots \ {i} : items'[j] = items[j]
        /\ i \in Slots => items'[i].count = 0
      BY <1>1, <2>1 DEF Slots, Item
  <2>3. QED BY <2>2, CountsKept
<1>5. CASE FinishTask(c)
    BY <1>2, <1>5, VacateCounts DEF FinishTask
<1>6. QED
    BY <1>2, <1>3, <1>4, <1>5 DEF sch_call_tasks, SkipSlot, LoadCount, EndWalk

\* Every step keeps the counts below the periods.
LEMMA NextCounts == TypeInv /\ CountBelowPeriod /\ [Next]_vars => CountBelowPeriod'
<1> SUFFICES ASSUME TypeInv, CountBelowPeriod, [Next]_vars PROVE CountBelowPeriod'
    OBVIOUS
<1>1. TypeInv'
    BY NextTypeInv
<1>2. CASE UNCHANGED items
    BY <1>2 DEF CountBelowPeriod, Slots
<1>3. CASE ApiCall
  <2>1. ASSUME NEW t \in Tasks, NEW v, sch_set_task_period(t, v) PROVE CountBelowPeriod'
      BY <1>1, <2>1, SetCounts DEF sch_set_task_period, Fields
  <2>2. ASSUME NEW t \in Tasks, NEW v, sch_set_task_state(t, v) PROVE CountBelowPeriod'
      BY <1>1, <2>2, SetCounts DEF sch_set_task_state, Fields
  <2>3. ASSUME NEW t \in Tasks, sch_trigger_task(t) PROVE CountBelowPeriod'
    <3>1. PICK i : items' = [items EXCEPT ![i].count = 0, ![i].state = "RUNNING"]
        BY <2>3 DEF sch_trigger_task
    <3>2. \A j \in Slots : items[j] \in Item
        BY UsedSlots
    <3>3. /\ Slots' = Slots
          /\ \A j \in Slots \ {i} : items'[j] = items[j]
          /\ i \in Slots => items'[i].count = 0
        BY <3>1, <3>2 DEF Slots, Item
    <3>4. QED BY <1>1, <3>3, CountsKept
  <2>4. ASSUME NEW t \in Tasks, sch_unsubscribe(t) PROVE CountBelowPeriod'
      BY <1>1, <2>4, VacateCounts DEF sch_unsubscribe
  <2>5. ASSUME NEW t \in Tasks, NEW v, sch_schedule_task(t, v) PROVE CountBelowPeriod'
      BY <2>5, SubscribeCounts DEF sch_schedule_task
  <2>6. ASSUME NEW t \in Tasks, NEW v, sch_subscribe_and_set(t, v) PROVE CountBelowPeriod'
      BY <2>6, SubscribeCounts DEF sch_subscribe_and_set
  <2>7. QED BY <1>3, <2>1, <2>2, <2>3, <2>4, <2>5, <2>6 DEF ApiCall
<1>4. CASE SetNextField
  <2>1. call \in CompositeCall
      BY <1>4 DEF SetNextField, TypeInv, TypeOK
  <2>2. call.field \in Fields /\ Set(call.task, call.field, call.cfg[call.field])
      BY <1>4, <2>1 DEF SetNextField, CompositeCall, Fields
  <2>3. QED BY <1>1, <2>2, SetCounts
<1>5. CASE AbandonCall
    BY <1>1, <1>2, <1>5, VacateCounts DEF AbandonCall
<1>6. ASSUME NEW c \in Contexts, sch_call_tasks(c) PROVE CountBelowPeriod'
    BY <1>1, <1>6, WalkCounts
<1>7. CASE sch_task_watcher \/ sch_on_time_change
    BY <1>2, <1>7 DEF sch_task_watcher, TestTicks, LoadTicks, StoreTicks, sch_on_time_change
<1>8. QED BY <1>2, <1>3, <1>4, <1>5, <1>6, <1>7 DEF Next, ContinueCall, vars

(* No task's count reaches a period that was set for it, whoever preempts    *)
(* the walk between the load and the store of the count: a callback is never *)
(* late by a whole period.                                                   *)
THEOREM CountsStayBelow == Spec => []CountBelowPeriod
<1>1. Init => CountBelowPeriod
    BY ParameterAssumption DEF Init, CountBelowPeriod, Slots, EmptyItem
<1>2. QED BY <1>1, InitTypeInv, NextTypeInv, NextCounts, PTL DEF Spec

-----------------------------------------------------------------------------
(* Triggered tasks. *)

\* sch_get_item finds a slot of the task, also when it has two of them.
LEMMA SearchFinds ==
    ASSUME TypeInv, NEW t, HasTask(t)
    PROVE  sch_get_item(t) \in Slots /\ TaskAt(sch_get_item(t)) = t
<1> DEFINE S == {i \in Slots : items[i].callback = t}
<1>1. S \in SUBSET Nat /\ S # {} /\ Slots \in SUBSET Nat
    BY UsedSlots DEF HasTask
<1>2. PICK k \in S : \A j \in S : k <= j
    BY <1>1, FirstSlot
<1>3. k \in Slots /\ items[k].callback = t /\ \A j \in Slots : j < k => items[j].callback # t
    BY <1>1, <1>2
<1>4. QED BY <1>3 DEF sch_get_item, TaskAt

\* Vacating a task leaves the states of the other slots.
LEMMA VacateStates ==
    ASSUME TypeInv, NEW t, Vacate(t), NEW i \in Slots
    PROVE  items'[i].state = items[i].state \/ items'[i].state = "EMPTY"
<1>1. items[i] \in Item
    BY UsedSlots
<1>2. CASE HasTask(t)
  <2>1. PICK k : items' = [items EXCEPT ![k].state = "EMPTY", ![k].callback = NULL]
      BY <1>2 DEF Vacate
  <2>2. QED BY <1>1, <2>1 DEF Slots, Item
<1>3. QED BY <1>2 DEF Vacate

\* A subscription takes a slot that is free.
LEMMA SubscribeStates ==
    ASSUME TypeInv, NEW t \in Tasks, sch_subscribe(t), NEW i \in Slots, items[i].state = "RUNNING"
    PROVE  items'[i].state = "RUNNING"
<1> DEFINE table == IF size = capacity THEN Grown ELSE items
           free  == {k \in DOMAIN table : table[k].state = "EMPTY"}
           first == CHOOSE k \in free : \A j \in free : k <= j
<1>1. PICK k \in 1..MaxCapacity : items \in [1..k -> Item]
    BY DEF TypeInv, TypeOK
<1>2. Slots = 1..k /\ capacity = k /\ size \in Nat /\ Increment \in Nat \ {0} /\ MaxCapacity \in Nat
    BY <1>1, FS_Interval, ParameterAssumption DEF Slots, capacity, TypeInv, TypeOK, ByteMod
<1>3. DOMAIN table \in SUBSET Nat /\ i \in DOMAIN table /\ table[i] = items[i]
  <2>1. CASE size = capacity
    <3>1. table = [j \in 1..(size + Increment) |-> IF j \in Slots THEN items[j] ELSE EmptyItem]
        BY <2>1 DEF Grown
    <3>2. i \in 1..(size + Increment)
        BY <1>2, <2>1
    <3>3. QED BY <1>2, <3>1, <3>2
  <2>2. CASE size # capacity
      BY <1>1, <1>2, <2>2
  <2>3. QED BY <2>1, <2>2
<1>4. items' = Stored(table, t)
    BY Zenon DEF sch_subscribe
<1> HIDE DEF table
<1>5. CASE free = {}
    BY <1>3, <1>4, <1>5, Zenon DEF Stored
<1>6. CASE free # {}
  <2>1. free \in SUBSET Nat
      BY <1>3
  <2>2. first \in free
      BY <1>6, <2>1, FirstSlot
  <2>3. items' = [table EXCEPT ![first] = NewItem(@, t)]
      BY <1>4, <1>6, Zenon DEF Stored, NewItem
  <2>4. i # first
      BY <1>3, <2>2
  <2> HIDE DEF first
  <2>5. QED BY <1>3, <2>3, <2>4
<1>7. QED BY <1>5, <1>6

LEMMA TriggerStep ==
    ASSUME TypeInv, Next, NEW i \in Slots, items[i].type = "TRIGGER", items[i].state = "RUNNING",
           items'[i].state # "RUNNING"
    PROVE  \/ \E c \in Contexts : pc'[c] = "run" /\ pc[c] = "add" /\ idx[c] = i
           \/ sch_set_task_state(items[i].callback, "STOPPED") \/ SetNextField
           \/ items'[i].state = "EMPTY"
<1> DEFINE Kept == \/ \E c \in Contexts : pc'[c] = "run" /\ pc[c] = "add" /\ idx[c] = i
                   \/ sch_set_task_state(items[i].callback, "STOPPED") \/ SetNextField
                   \/ items'[i].state = "EMPTY"
<1>1. items[i] \in Item /\ \A j \in Slots : items[j] \in Item
    BY UsedSlots
<1>2. items' # items
    OBVIOUS
<1>3. CASE ApiCall
  <2>1. ASSUME NEW t \in Tasks, NEW p, sch_set_task_period(t, p) PROVE FALSE
    <3>1. PICK k : items' = [items EXCEPT ![k].period = p, ![k].count = 0]
        BY <2>1 DEF sch_set_task_period, Set, WithField
    <3>2. QED BY <1>1, <3>1 DEF Slots, Item
  <2>2. ASSUME NEW t \in Tasks, NEW s \in States, sch_set_task_state(t, s) PROVE Kept
    <3>1. /\ HasTask(t) /\ s # "UNKNOWN"
          /\ items' = [items EXCEPT ![sch_get_item(t)].state = s]
        BY <2>2 DEF sch_set_task_state, Set, WithField, Accepts
    <3>2. sch_get_item(t) \in Slots /\ TaskAt(sch_get_item(t)) = t
        BY <3>1, SearchFinds
    <3>3. i = sch_get_item(t) /\ s # "RUNNING"
        BY <1>1, <3>1 DEF Slots, Item
    <3>4. s = "STOPPED" /\ items[i].callback = t
        BY <3>1, <3>2, <3>3, ParameterAssumption DEF TaskAt
    <3>5. QED BY <2>2, <3>4
  <2>3. ASSUME NEW t \in Tasks, sch_trigger_task(t) PROVE FALSE
    <3>1. PICK k : items' = [items EXCEPT ![k].count = 0, ![k].state = "RUNNING"]
        BY <2>3 DEF sch_trigger_task
    <3>2. QED BY <1>1, <3>1 DEF Slots, Item
  <2>4. ASSUME NEW t \in Tasks, sch_unsubscribe(t) PROVE Kept
      BY <2>4, VacateStates DEF sch_unsubscribe
  <2>5. ASSUME NEW t \in Tasks, NEW v, sch_schedule_task(t, v) \/ sch_subscribe_and_set(t, v) PROVE FALSE
      BY <2>5, SubscribeStates DEF sch_schedule_task, sch_subscribe_and_set
  <2>6. QED BY <1>3, <2>1, <2>2, <2>3, <2>4, <2>5, Zenon DEF ApiCall
<1>4. CASE AbandonCall
    BY <1>2, <1>4, VacateStates DEF AbandonCall
<1>5. ASSUME NEW c \in Contexts, sch_call_tasks(c) PROVE Kept
  <2>1. CASE CountTick(c)
    <3>1. PICK k, x : items' = [items EXCEPT ![k].count = x]
        BY <2>1 DEF CountTick
    <3>2. QED BY <1>1, <3>1 DEF Slots, Item
  <2>2. CASE StartTask(c)
    <3>1. PICK s : items' = [items EXCEPT ![idx[c]].count = 0, ![idx[c]].state = s]
      <4>1. CASE items[idx[c]].type = "TRIGGER"
          BY <2>2, <4>1 DEF StartTask
      <4>2. CASE items[idx[c]].type # "TRIGGER"
        <5>1. idx[c] \in Slots
            BY <2>2 DEF StartTask, TypeInv, WalkInBounds
        <5>2. items' = [items EXCEPT ![idx[c]].count = 0, ![idx[c]].state = items[idx[c]].state]
            BY <1>1, <2>2, <4>2, <5>1 DEF StartTask, Slots, Item
        <5>3. QED BY <5>2
      <4>3. QED BY <4>1, <4>2
    <3>2. idx[c] = i
        BY <1>1, <3>1 DEF Slots, Item
    <3>3. pc[c] = "add" /\ pc' = [pc EXCEPT ![c] = "run"] /\ c \in DOMAIN pc
        BY <2>2 DEF StartTask, TypeInv, TypeOK
    <3>4. QED BY <3>2, <3>3
  <2>3. CASE FinishTask(c)
      BY <1>2, <2>3, VacateStates DEF FinishTask
  <2>4. CASE SkipSlot(c) \/ LoadCount(c) \/ EndWalk(c)
      BY <1>2, <2>4 DEF SkipSlot, LoadCount, EndWalk
  <2>5. QED BY <1>5, <2>1, <2>2, <2>3, <2>4 DEF sch_call_tasks
<1>6. CASE sch_task_watcher \/ sch_on_time_change
    BY <1>2, <1>6 DEF sch_task_watcher, TestTicks, LoadTicks, StoreTicks, sch_on_time_change
<1>7. CASE SetNextField
    BY <1>7
<1>8. QED BY <1>3, <1>4, <1>5, <1>6, <1>7, Zenon DEF Next, ContinueCall

(* A triggered task is not forgotten: whoever preempts whom, a running       *)
(* TRIGGER task stops only to be called, or when it is stopped or removed.   *)
THEOREM TriggersAreKept == Spec => TriggerNotDropped
<1> DEFINE Kept ==
      \A i \in Slots :
         (items[i].type = "TRIGGER" /\ items[i].state = "RUNNING"
            /\ items'[i].state # "RUNNING") =>
              \/ \E c \in Contexts : pc'[c] = "run" /\ pc[c] = "add" /\ idx[c] = i
              \/ sch_set_task_state(items[i].callback, "STOPPED") \/ SetNextField
              \/ items'[i].state = "EMPTY"
<1>1. ASSUME TypeInv, [Next]_vars PROVE [Kept]_vars
    BY <1>1, TriggerStep
<1> HIDE DEF Kept
<1>2. Spec => [][Kept]_vars
    BY <1>1, TypeInvariant, PTL DEF Spec
<1>3. QED BY <1>2 DEF Kept, TriggerNotDropped

-----------------------------------------------------------------------------
(* The ticks, as long as the counter does not wrap: SysTick never finds more *)
(* than MaxBacklog ticks waiting.                                            *)
(*                                                                           *)
(* NoPhantomTick needs what main relies on between its test, its load and    *)
(* its store: only main takes ticks, so the one that it saw is still there,  *)
(* and SysTick may only have added some.                                     *)

DueInv ==
    /\ due \in 0..MaxDue /\ sch_time_changed <= due
    /\ sch_time_changed <= MaxBacklog
    /\ pc["systick"] # "off" => sch_time_changed < MaxBacklog
    /\ pc["main"] = "load" => sch_time_changed # 0
    /\ pc["main"] = "dec" => reg["main"] \in 1..sch_time_changed

NoWrap == MaxBacklog < TickMod /\ MaxBacklog <= MaxDue

\* A step that leaves the counter and what main has loaded of it alone.
LEMMA CounterKept ==
    ASSUME NoWrap, TypeInv, DueInv, TicksNext, ~TickTaken, UNCHANGED sch_time_changed,
           pc'["systick"] # "off" => pc["systick"] # "off" \/ sch_time_changed < MaxBacklog,
           pc'["main"] \in {"load", "dec"} =>
               pc'["main"] = pc["main"] /\ reg'["main"] = reg["main"]
    PROVE  DueInv'
<1>1. due' \in 0..MaxDue /\ due <= due'
    BY DueAssumption DEF DueInv, TicksNext
<1>2. sch_time_changed \in Nat
    BY DEF TypeInv, TypeOK
<1>3. QED BY <1>1, <1>2 DEF DueInv

LEMMA TicksStep ==
    ASSUME NoWrap, TypeInv, DueInv, TicksNext
    PROVE  DueInv'
<1>0. /\ sch_time_changed \in Nat /\ due \in Nat /\ MaxDue \in Nat /\ MaxBacklog \in Nat
      /\ TickMod \in Nat /\ MaxBacklog < TickMod /\ MaxBacklog <= MaxDue
      /\ pc \in [Contexts -> {"loop", "load", "dec", "off", "scan", "add", "run"}]
      /\ reg \in [Contexts -> Nat] /\ "main" \in Contexts /\ "systick" \in Contexts
    BY ParameterAssumption, DueAssumption DEF TypeInv, TypeOK, DueInv, NoWrap, Contexts
<1>1. CASE StoreTicks
  <2>1. /\ pc["main"] = "dec" /\ pc["systick"] = "off" /\ sch_time_changed' = (reg["main"] - 1) % TickMod
        /\ pc'["main"] = "scan" /\ pc'["systick"] = "off"
      BY <1>0, <1>1 DEF StoreTicks, MainFree, Executing
  <2>2. reg["main"] \in 1..sch_time_changed /\ sch_time_changed <= due /\ sch_time_changed <= MaxBacklog
      BY <2>1 DEF DueInv
  <2>3. sch_time_changed' = reg["main"] - 1
    <3>1. \A x \in 0..TickMod - 1 : x % TickMod = x
        BY <1>0
    <3>2. reg["main"] - 1 \in 0..TickMod - 1
        BY <1>0, <2>2
    <3>3. QED BY <2>1, <3>1, <3>2
  <2>4. due' \in {due, due - 1} \/ due' = MaxDue
      BY <2>1 DEF TicksNext, TickCounted, TickTaken
  <2>5. due' \in 0..MaxDue /\ due' >= due - 1
      BY <1>0, <2>2, <2>4 DEF DueInv
  <2>6. QED BY <1>0, <2>1, <2>2, <2>3, <2>5 DEF DueInv
<1>2. CASE EndWalk("systick")
  <2>1. /\ pc["systick"] = "scan" /\ sch_time_changed' = (sch_time_changed + 1) % TickMod
        /\ pc'["systick"] = "off" /\ pc'["main"] = pc["main"] /\ reg' = reg
      BY <1>0, <1>2 DEF EndWalk
  <2>2. sch_time_changed < MaxBacklog
      BY <2>1 DEF DueInv
  <2>3. sch_time_changed' = sch_time_changed + 1
    <3>1. \A x \in 0..TickMod - 1 : x % TickMod = x
        BY <1>0
    <3>2. sch_time_changed + 1 \in 0..TickMod - 1
        BY <1>0, <2>2
    <3>3. QED BY <2>1, <3>1, <3>2
  <2>4. due' = MaxDue \/ (due < MaxDue /\ due' = due + 1)
      BY <2>1 DEF TicksNext, TickCounted, TickTaken
  <2>5. due' \in 0..MaxDue /\ sch_time_changed' <= due'
      BY <1>0, <2>2, <2>3, <2>4 DEF DueInv
  <2>6. QED BY <1>0, <2>1, <2>2, <2>3, <2>5 DEF DueInv
<1>3. CASE LoadTicks
  <2>1. /\ pc["main"] = "load" /\ pc'["main"] = "dec" /\ reg'["main"] = sch_time_changed
        /\ sch_time_changed' = sch_time_changed /\ pc'["systick"] = pc["systick"]
      BY <1>0, <1>3 DEF LoadTicks
  <2>2. ~TickTaken
      BY <2>1 DEF TickTaken
  <2>3. due' \in 0..MaxDue /\ due <= due'
      BY <2>2, DueAssumption DEF DueInv, TicksNext
  <2>4. sch_time_changed \in 1..sch_time_changed
      BY <1>0, <2>1 DEF DueInv
  <2>5. QED BY <1>0, <2>1, <2>3, <2>4 DEF DueInv
<1>4. CASE TestTicks
  <2>1. /\ pc["main"] = "loop" /\ pc'["main"] = "load" /\ sch_time_changed # 0
        /\ sch_time_changed' = sch_time_changed /\ pc'["systick"] = pc["systick"]
      BY <1>0, <1>4 DEF TestTicks
  <2>2. ~TickTaken
      BY <2>1 DEF TickTaken
  <2>3. due' \in 0..MaxDue /\ due <= due'
      BY <2>2, DueAssumption DEF DueInv, TicksNext
  <2>4. QED BY <1>0, <2>1, <2>3 DEF DueInv
<1>5. CASE sch_on_time_change
  <2>1. /\ sch_time_changed < MaxBacklog /\ sch_time_changed' = sch_time_changed
        /\ pc'["main"] = pc["main"] /\ reg' = reg
      BY <1>0, <1>5 DEF sch_on_time_change
  <2>2. ~TickTaken
      BY <2>1 DEF TickTaken
  <2>3. QED BY <2>1, <2>2, CounterKept
<1>6. CASE ApiCall \/ ContinueCall
  <2>1. UNCHANGED <<sch_time_changed, pc, reg>>
    <3>1. ASSUME NEW t \in Tasks, NEW v,
                 \/ sch_set_task_period(t, v) \/ sch_schedule_task(t, v) \/ sch_set_task_state(t, v)
                 \/ sch_subscribe_and_set(t, v) \/ sch_trigger_task(t) \/ sch_unsubscribe(t)
          PROVE  UNCHANGED <<sch_time_changed, pc, reg>>
        BY <3>1 DEF sch_set_task_period, sch_schedule_task, sch_set_task_state, sch_subscribe_and_set,
                    sch_trigger_task, sch_unsubscribe
    <3>2. CASE ContinueCall
        BY <3>2 DEF ContinueCall, SetNextField, AbandonCall
    <3>3. QED BY <1>6, <3>1, <3>2, Zenon DEF ApiCall
  <2>2. ~TickTaken
      BY <2>1 DEF TickTaken
  <2>3. QED BY <2>1, <2>2, CounterKept
<1>7. ASSUME NEW c \in Contexts, sch_call_tasks(c), ~(c = "systick" /\ EndWalk(c))
      PROVE  DueInv'
  <2>1. /\ sch_time_changed' = sch_time_changed
        /\ pc[c] \in {"scan", "add", "run"} /\ pc'[c] \in {"scan", "add", "run", "loop"}
        /\ c = "systick" => pc'[c] # "off"
        /\ \A d \in Contexts \ {c} : pc'[d] = pc[d] /\ reg'[d] = reg[d]
      BY <1>0, <1>7 DEF sch_call_tasks, SkipSlot, LoadCount, CountTick, StartTask, FinishTask, EndWalk
  <2>2. ~TickTaken
      BY <1>0, <2>1 DEF TickTaken, Contexts
  <2>3. QED BY <1>0, <2>1, <2>2, CounterKept DEF Contexts
<1>8. QED
  <2>1. Next
      BY DEF TicksNext
  <2>2. QED
      BY <1>1, <1>2, <1>3, <1>4, <1>5, <1>6, <1>7, <2>1, Zenon DEF Next, sch_task_watcher, sch_call_tasks

(* main never runs its tasks for a tick that did not happen, however SysTick *)
(* interleaves with its test and decrement of sch_time_changed, for every    *)
(* length of the backlog below the wrap of the counter.                      *)
THEOREM NoTickIsInvented ==
    ASSUME NoWrap
    PROVE  TicksSpec => []NoPhantomTick
<1>1. TicksInit => TypeInv /\ DueInv
  <2>1. Init => TypeInv
      BY InitTypeInv
  <2>2. TicksInit => DueInv
      BY ParameterAssumption, DueAssumption DEF TicksInit, Init, DueInv, Contexts
  <2>3. QED BY <2>1, <2>2 DEF TicksInit
<1>2. TypeInv /\ DueInv /\ [TicksNext]_<<vars, due>> => TypeInv' /\ DueInv'
  <2>1. TypeInv /\ TicksNext => TypeInv'
      BY NextTypeInv DEF TicksNext
  <2>2. TypeInv /\ UNCHANGED vars => TypeInv'
      BY NextTypeInv
  <2>3. DueInv /\ UNCHANGED <<vars, due>> => DueInv'
      BY DEF DueInv, vars
  <2>4. QED BY <2>1, <2>2, <2>3, TicksStep
<1>3. DueInv => NoPhantomTick
    BY DEF DueInv, NoPhantomTick
<1>4. QED BY <1>1, <1>2, <1>3, PTL DEF TicksSpec
=============================================================================
