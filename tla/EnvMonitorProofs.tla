-------------------------- MODULE EnvMonitorProofs --------------------------
(***************************************************************************)
(* Theorems about DhtDriver and EnvMonitor, for any number of sensors and  *)
(* any length of a frame.                                                  *)
(***************************************************************************)
EXTENDS EnvMonitor, TLAPS

-----------------------------------------------------------------------------
(* The driver, under any client.  The flag is raised for reads that ended    *)
(* only, which needs that the timeout task runs for nothing else, and that   *)
(* SysTick is in the middle of its handler only for a read that it may end.  *)

ReadyWhenEnded ==
    /\ ready = 1 => state \in Ended
    /\ main \in {"answer", "collect"} => state \in Ended /\ ready = 0 /\ systick = "off"

TimerOfRead ==
    /\ timer = "RUNNING" => state \in {"START", "READING"} /\ systick = "off"
    /\ systick = "call" => state # "IDLE"
    /\ systick = "timeout" => state \in {"READING", "DATA_DECODING"}
    /\ systick = "ready" => state = "TIMEOUT"

RoomForEdges ==
    /\ state \in {"START", "READING"} => idx < Timestamps
    /\ main \in {"clear", "check"} /\ state = "IDLE" => idx = 0

DhtInv == DhtTypeOK /\ ReadIsTimed /\ ReadyWhenEnded /\ TimerOfRead /\ RoomForEdges

\* The driver starts idle.
LEMMA InitDhtInv == DhtInit => DhtInv
BY DhtAssumption
DEF DhtInit, DhtInv, DhtTypeOK, ReadIsTimed, ReadyWhenEnded, TimerOfRead, RoomForEdges,
    States, Ended, Sensors, Ids

\* The invariant is inductive, whatever clients ask for.
LEMMA NextDhtInv == DhtInv /\ [DhtNext]_dht => DhtInv'
<1> SUFFICES ASSUME DhtInv, [DhtNext]_dht PROVE DhtInv'
    OBVIOUS
<1> USE DhtAssumption
    DEF DhtInv, DhtTypeOK, ReadIsTimed, ReadyWhenEnded, TimerOfRead, RoomForEdges,
        States, Ended, At
<1>1. ASSUME NEW id \in Ids, NEW clb \in Callbacks \cup {NULL}, Request(id, clb)
      PROVE  DhtInv'
    BY <1>1 DEF Request
<1>2. CASE ClearReady
    BY <1>2 DEF ClearReady
<1>3. CASE Accept
    BY <1>3 DEF Accept
<1>4. CASE Refuse
    BY <1>4 DEF Refuse
<1>5. CASE StopWaiting \/ dht_data_watcher
    BY <1>5 DEF StopWaiting, dht_data_watcher
<1>6. CASE Collect \/ Answer
    BY <1>6 DEF Collect, Answer
<1>7. CASE Elapse
    BY <1>7 DEF Elapse
<1>8. CASE EndStart
    BY <1>8 DEF EndStart
<1>9. CASE SeeReading \/ TooLate
    BY <1>9 DEF SeeReading, TooLate
<1>10. CASE StoreTimeout \/ StoreReady
    BY <1>10 DEF StoreTimeout, StoreReady
<1>11. CASE Edge
    BY <1>11 DEF Edge
<1>12. CASE UNCHANGED dht
    BY <1>12 DEF dht
<1>13. QED
    BY <1>1, <1>2, <1>3, <1>4, <1>5, <1>6, <1>7, <1>8, <1>9, <1>10, <1>11, <1>12
    DEF DhtNext, Working, dht_on_timeout

\* The invariant holds of every state of the driver.
LEMMA DhtInvariant == DhtSpec => []DhtInv
<1>1. QED BY InitDhtInv, NextDhtInv, PTL DEF DhtSpec

-----------------------------------------------------------------------------
(* EnvMonitor is a client of the driver: what the driver guarantees to any   *)
(* client holds here.                                                        *)

SelectedInRange == selected \in Sensors

\* Every step of env and its users is one of the driver or leaves it alone.
LEMMA NextUsesDriver == SelectedInRange /\ [Next]_vars => [DhtNext]_dht
<1> SUFFICES ASSUME SelectedInRange, [Next]_vars PROVE [DhtNext]_dht
    OBVIOUS
<1>1. CASE env_on_timeout
  <2>1. selected \in Ids /\ env_on_dht_data \in Callbacks \cup {NULL}
      BY EnvAssumption, DhtAssumption DEF SelectedInRange, Sensors, Ids
  <2>2. Request(selected, env_on_dht_data)
      BY <1>1 DEF env_on_timeout
  <2>3. QED BY <2>1, <2>2, Zenon DEF DhtNext
<1>2. ASSUME NEW id \in Ids, dht_read(id) PROVE DhtNext
    BY <1>2, Zenon DEF dht_read, DhtNext
<1>3. CASE Answers
    BY <1>3, Zenon DEF Answers, NoAnswer, DataAnswer, DhtNext
<1>4. CASE Working
    BY <1>4, Zenon DEF DhtNext
<1>5. CASE UNCHANGED vars
    BY <1>5, Zenon DEF vars
<1>6. QED BY <1>1, <1>2, <1>3, <1>4, <1>5, Zenon DEF Next

\* The selection is a sensor: it wraps at the last one.
LEMMA NextSelected == SelectedInRange /\ [Next]_vars => SelectedInRange'
<1> SUFFICES ASSUME SelectedInRange, [Next]_vars PROVE SelectedInRange'
    OBVIOUS
<1>1. CASE env_get_next_sensor
    BY <1>1, DhtAssumption DEF env_get_next_sensor, SelectedInRange, Sensors
<1>2. CASE UNCHANGED selected
    BY <1>2 DEF SelectedInRange
<1>3. env_get_next_sensor \/ UNCHANGED selected
    BY Zenon DEF Next, env_on_timeout, dht_read, Answers, NoAnswer, DataAnswer, env, vars
<1>4. QED BY <1>1, <1>2, <1>3

\* The driver's invariant holds under env and its users.
LEMMA EnvUsesDriver == Spec => []SelectedInRange /\ []DhtInv
<1>1. Init => SelectedInRange /\ DhtInv
    BY InitDhtInv, DhtAssumption DEF Init, SelectedInRange, Sensors
<1>2. QED
    BY <1>1, NextSelected, NextUsesDriver, NextDhtInv, PTL DEF Spec

(* Every edge finds room in the buffer of timestamps.                        *)
THEOREM EdgesFindRoom == Spec => []IndexInBuffer
<1>1. DhtInv => IndexInBuffer
    BY DEF DhtInv, RoomForEdges, IndexInBuffer
<1>2. QED BY <1>1, EnvUsesDriver, PTL

(* A read in progress always has its timeout before it, so no sensor that    *)
(* stays silent can hold the driver.                                         *)
THEOREM ReadsAreTimed == Spec => []ReadIsTimed
<1>1. DhtInv => ReadIsTimed
    BY DEF DhtInv
<1>2. QED BY <1>1, EnvUsesDriver, PTL

(* The main loop takes answers of ended reads only, however the last edge,   *)
(* the timeout and refused reads interleave.                                 *)
THEOREM AnswersAreOfEndedReads == Spec => []AnswersEndedRead
<1>1. DhtInv => AnswersEndedRead
    BY DEF DhtInv, ReadyWhenEnded, AnswersEndedRead
<1>2. QED BY <1>1, EnvUsesDriver, PTL

-----------------------------------------------------------------------------
(* The data of a sensor is its own.  A read with a callback is always one of *)
(* the selected sensor, and a read without keeps the main loop, where the    *)
(* selection changes, until it is over.                                      *)

AskedForSelected ==
    main \in {"clear", "check"} => ask.clb = NULL \/ ask.id = selected

ReadsSelected ==
    state # "IDLE" => IF owner = NULL THEN main \in {"wait", "collect"} ELSE sensor = selected

EnvInv ==
    /\ TypeOK /\ OwnData /\ AskedForSelected /\ ReadsSelected
    /\ main \in {"wait", "collect"} => owner = NULL

\* Nothing was measured and nothing is asked for.
LEMMA InitEnvInv == Init => EnvInv
<1> SUFFICES ASSUME Init PROVE EnvInv
    OBVIOUS
<1>1. TypeOK
    BY InitDhtInv, DhtAssumption DEF Init, TypeOK, DhtInv, Sensors
<1>2. QED
    BY <1>1 DEF Init, DhtInit, EnvInv, OwnData, AskedForSelected, ReadsSelected

\* The driver's own steps and the requests leave env's data alone.
LEMMA DriverStepEnvInv ==
    ASSUME EnvInv, DhtInv, DhtTypeOK', Working, UNCHANGED env
    PROVE  EnvInv'
<1> USE DEF EnvInv, TypeOK, OwnData, AskedForSelected, ReadsSelected, env, At
<1>1. CASE Accept
    BY <1>1 DEF Accept, DhtInv, DhtTypeOK
<1>2. CASE ClearReady \/ Refuse
    BY <1>2 DEF ClearReady, Refuse, DhtInv, DhtTypeOK
<1>3. CASE StopWaiting \/ dht_data_watcher \/ Collect
    BY <1>3 DEF StopWaiting, dht_data_watcher, Collect, DhtInv, ReadyWhenEnded, Ended
<1>4. CASE Elapse \/ Edge
    BY <1>4 DEF Elapse, Edge
<1>5. CASE dht_on_timeout
    BY <1>5 DEF dht_on_timeout, EndStart, SeeReading, StoreTimeout, StoreReady, TooLate,
                DhtInv, TimerOfRead
<1>6. QED BY <1>1, <1>2, <1>3, <1>4, <1>5 DEF Working

\* The invariant is inductive.
LEMMA NextEnvInv == EnvInv /\ DhtInv /\ DhtInv' /\ [Next]_vars => EnvInv'
<1> SUFFICES ASSUME EnvInv, DhtInv, DhtInv', [Next]_vars PROVE EnvInv'
    OBVIOUS
<1>1. DhtTypeOK'
    BY DEF DhtInv
<1> USE DhtAssumption, EnvAssumption, <1>1
    DEF EnvInv, TypeOK, OwnData, AskedForSelected, ReadsSelected, At
<1>2. CASE env_on_timeout
    BY <1>2 DEF env_on_timeout, Request, env
<1>3. ASSUME NEW id \in Ids, dht_read(id) PROVE EnvInv'
    BY <1>3 DEF dht_read, Request, env
<1>4. ASSUME NEW status, DataAnswer(status) PROVE EnvInv'
  <2>1. /\ main = "answer" /\ main' = "loop" /\ state' = "IDLE"
        /\ selected' \in Sensors
      BY <1>4 DEF DataAnswer, Answer, env_get_next_sensor, Sensors
  <2>2. sensor = selected
      BY <2>1 DEF DhtInv, ReadyWhenEnded, Ended
  <2>3. data' \in [Sensors -> Sensors \cup {Nobody}] /\ OwnData'
      BY <1>4, <2>2 DEF DataAnswer
  <2>4. QED BY <2>1, <2>3
<1>5. CASE NoAnswer
    BY <1>5 DEF NoAnswer, Answer, env
<1>6. CASE Working /\ UNCHANGED env
    BY <1>6, DriverStepEnvInv
<1>7. CASE UNCHANGED vars
    BY <1>7 DEF vars, dht, env
<1>8. QED
    BY <1>2, <1>3, <1>4, <1>5, <1>6, <1>7 DEF Next, Answers

\* The invariant holds of every reachable state.
LEMMA EnvInvariant == Spec => []EnvInv
<1>1. QED BY InitEnvInv, NextEnvInv, EnvUsesDriver, PTL DEF Spec

(* Every variable of the driver and of env has its type.                     *)
THEOREM TypeCorrect == Spec => []TypeOK
<1>1. EnvInv => TypeOK
    BY DEF EnvInv
<1>2. QED BY <1>1, EnvInvariant, PTL

(* The data that env keeps for a sensor was measured by that sensor,         *)
(* whatever reads of users were served, refused or raced by a timeout.       *)
THEOREM DataIsOwn == Spec => []OwnData
<1>1. EnvInv => OwnData
    BY DEF EnvInv
<1>2. QED BY <1>1, EnvInvariant, PTL
=============================================================================
