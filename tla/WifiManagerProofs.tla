--------------------------- MODULE WifiManagerProofs ---------------------------
(***************************************************************************)
(* Theorems about the WiFi manager, its driver and its UART, for any size  *)
(* of the ring, of the table and of the module's backlog, and any ids.     *)
(***************************************************************************)
EXTENDS WifiManager, SequenceTheorems, FiniteSetTheorems, TLAPS

-----------------------------------------------------------------------------
(* The inductive invariants. *)

AnyId     == Ids \cup {0}
ClientTold == {"CONNECT", "CLOSED"}
Lines     == [type : Answers \cup ClientTold \cup {"DATA"}, id : AnyId]
ServeCmds == [name : {"CIPSTATUS", "CIPSEND", "DATA"}, id : AnyId]
LongNames == {"SETUP", "CIPMUX=0", "CIPMUX=1", "CIPSERVER=0", "CIPSERVER=1", "CIPSTART",
              "NTP SEND", "NTP", "CIPCLOSE"}
LongCmds  == [name : LongNames, id : {0}]
Commands  == ServeCmds \cup LongCmds
LongOps   == {"get_time", "init", "init_again"}

\* The count of lines stays behind the lines that wait.
UartInv ==
    /\ rx \in Seq(Lines) /\ Len(rx) <= RxSize
    /\ reading \in {"no", "count", "clear"}
    /\ string_cnt \in Nat /\ loaded \in Nat
    /\ reading = "no" => string_cnt <= Len(rx) /\ loaded = 0
    /\ reading = "count" => /\ loaded \in 1..RxSize /\ loaded - 1 <= Len(rx)
                            /\ string_cnt <= Len(rx) + 1 /\ line \in Lines
    /\ reading = "clear" => string_cnt <= Len(rx) + RxSize /\ loaded = 0

\* A send is two commands.
WholeSends(p, c) ==
    IF p = <<>> THEN c.name # "CIPSEND" ELSE p[Len(p)].name # "CIPSEND"

\* The commands of an operation.
PlanInv ==
    /\ op \in Ops
    /\ op = "none" => plan = <<>> /\ cmd = NoCmd
    /\ op = "serve" => plan \in Seq(ServeCmds) /\ cmd \in ServeCmds \cup {NoCmd}
                       /\ WholeSends(plan, cmd)
    /\ op = "get_time_nok" => /\ plan \in {<<>>, <<Cmd("CIPCLOSE")>>}
                              /\ cmd \in {NoCmd, Cmd("CIPCLOSE")}
    /\ op \in LongOps => /\ plan \in Seq(LongCmds) /\ cmd \in LongCmds \cup {NoCmd}
                         /\ plan = <<>> => cmd \in {NoCmd, Cmd("CIPSERVER=1")}
                         /\ plan # <<>> => plan[Len(plan)] = Cmd("CIPSERVER=1")
    /\ op \in {"init", "init_again"} => ~allocated /\ ~server_running

\* The lines that the main loop has not dealt with.
Queue == IF reading = "count" THEN <<line>> \o rx ELSE rx

NoAnswer(q) == \A n \in 1..Len(q) : q[n].type \notin Answers

Alone(q) == \A n, m \in 1..Len(q) : q[n].type \in Answers /\ q[m].type \in Answers => n = m

\* An answer tells the truth about the command.
Truth(q) ==
    \A n \in 1..Len(q) : q[n].type = Expected(cmd) =>
        /\ cmd = Cmd("CIPSERVER=1") => open
        /\ cmd = Cmd("CIPMUX=0") => /\ conns = {} /\ ~open
                                    /\ \A m \in n+1..Len(q) : q[m].type \notin ClientTold

\* While the dialogue is in step, an answer is the answer of the command.
InStep ==
    \/ cmd = NoCmd /\ owed = <<>> /\ NoAnswer(Queue)
    \/ cmd # NoCmd /\ owed = <<cmd>> /\ NoAnswer(Queue)
    \/ cmd # NoCmd /\ owed = <<>> /\ Alone(Queue) /\ Truth(Queue)

DialogueInv ==
    /\ owed \in Seq(Commands) /\ Len(owed) <= MaxOwed
    /\ ~late => InStep

RunInv ==
    /\ ~late /\ server_running /\ op \in {"none", "serve"} => open
    /\ ~late /\ op \in LongOps /\ plan = <<>> /\ cmd = NoCmd => open

About(l, i) == l.type \in ClientTold /\ l.id = i

Quiet(q, a, b, i) == \A m \in a..b : ~About(q[m], i)

\* The lines of q lead client i from its state in one set to that in another:
\* they tell of it by turns, and the last one tells the truth.
Begins(q, from, i) ==
    \A n \in 1..Len(q) : About(q[n], i) /\ Quiet(q, 1, n - 1, i) => (q[n].type = "CONNECT" <=> i \notin from)

Alternates(q, i) ==
    \A n, k \in 1..Len(q) :
        n < k /\ About(q[n], i) /\ About(q[k], i) /\ Quiet(q, n + 1, k - 1, i)
            => (q[n].type = "CONNECT" <=> q[k].type = "CLOSED")

Leaves(q, from, to, i) ==
    \/ Quiet(q, 1, Len(q), i) /\ (i \in from <=> i \in to)
    \/ \E n \in 1..Len(q) :
            /\ About(q[n], i) /\ Quiet(q, n + 1, Len(q), i)
            /\ q[n].type = "CONNECT" <=> i \in to

Leads(q, from, to, i) == Begins(q, from, i) /\ Alternates(q, i) /\ Leaves(q, from, to, i)

MuxToCome == cmd = Cmd("CIPMUX=0") \/ \E n \in 1..Len(plan) : plan[n] = Cmd("CIPMUX=0")

\* The lines that wait lead from the table to the clients of the module.
TableInv ==
    /\ conns \subseteq Ids /\ connected \subseteq Slots
    /\ clients_cnt \in 0..CountMod - 1
    /\ ~allocated => connected = {} /\ clients_cnt = 0
    /\ followed => /\ \A i \in Ids : Leads(Queue, connected, conns, i)
                   /\ clients_cnt = Cardinality(connected)
    /\ followed /\ ~late /\ op = "get_time" => connected = {} \/ MuxToCome

Flags == {open, mux, late, allocated, server_running, followed} \subseteq BOOLEAN

WifiInv == UartInv /\ PlanInv /\ DialogueInv /\ RunInv /\ TableInv /\ Flags

-----------------------------------------------------------------------------
(* The lines. *)

LEMMA LineTypes ==
    /\ NoLine.type = "none"
    /\ \A c : Answer(Expected(c)) \in Lines /\ Expected(c) \in Answers \ {"ERROR"}
    /\ Answer("ERROR") \in Lines
    /\ \A ev \in ClientTold \cup {"DATA"}, i \in Ids : Event(ev, i) \in Lines
BY DEF NoLine, Answer, Expected, Answers, Lines, Event, ClientTold, AnyId

\* What a step does to the lines.
LEMMA UartSteps ==
    ASSUME [Next]_vars
    PROVE  \/ \E l \in Lines : Receive(l)
           \/ uartengine_can_read_string \/ StoreCount
           \/ uartengine_clear_rx \/ ClearCount
           \/ UNCHANGED uart
<1>1. CASE ModuleAnswers
    BY <1>1, LineTypes DEF ModuleAnswers
<1>2. CASE ModuleEvent
    BY <1>2, LineTypes DEF ModuleEvent, ClientConnects, ClientCloses, ClientSends, ClientTold
<1>3. CASE Watch \/ TakeLine
    BY <1>3 DEF Watch, TakeLine
<1>4. CASE OnClient \/ OnOther \/ wifi_answered \/ Discard
    BY <1>4 DEF OnClient, OnConnected, OnClosed, OnData, OnOther, OnLine, wifi_answered, Discard
<1>5. CASE NtpAnswered \/ NtpTimeout \/ wifimgr_reset
    BY <1>5 DEF NtpAnswered, NtpTimeout, wifimgr_reset, wifi_reset
<1>6. CASE RxCleared
    BY <1>6 DEF RxCleared
<1>7. CASE SendNext \/ wifi_timeout \/ Ends \/ wifimgr_broadcast_bytes \/ wifimgr_get_time \/ UNCHANGED vars
    BY <1>7 DEF SendNext, wifi_send_command, wifi_timeout, Ends, wifimgr_broadcast_bytes, wifimgr_get_time,
                Starts, driver, vars
<1>8. QED
    BY <1>1, <1>2, <1>3, <1>4, <1>5, <1>6, <1>7, Zenon DEF Next, Main, Answered, Waiting, Fails, Module

LEMMA UartStep ==
    ASSUME UartInv, [Next]_vars
    PROVE  UartInv'
<1>1. rx \in Seq(Lines) /\ Len(rx) \in Nat /\ RxSize \in Nat
    BY UartAssumption, LenProperties DEF UartInv
<1>2. ASSUME NEW l \in Lines, Receive(l)
      PROVE  UartInv'
    <2>1. rx' \in Seq(Lines) /\ Len(rx') = Len(rx) + 1
        BY <1>1, <1>2, AppendProperties DEF Receive
    <2>2. QED BY <1>1, <1>2, <2>1 DEF Receive, UartInv
<1>3. CASE uartengine_can_read_string
    <2>1. rx # <<>>
        BY <1>3, EmptySeq DEF uartengine_can_read_string, UartInv
    <2>2. line' \in Lines /\ rx' \in Seq(Lines) /\ Len(rx') = Len(rx) - 1
        BY <1>1, <1>3, <2>1, HeadTailProperties DEF uartengine_can_read_string
    <2>3. QED BY <1>1, <1>3, <2>2 DEF uartengine_can_read_string, UartInv
<1>4. CASE StoreCount
    BY <1>1, <1>4 DEF StoreCount, UartInv
<1>5. CASE uartengine_clear_rx
    <2>1. rx' \in Seq(Lines) /\ Len(rx') = 0
        BY <1>5, EmptySeq DEF uartengine_clear_rx
    <2>2. QED BY <1>1, <1>5, <2>1 DEF uartengine_clear_rx, UartInv
<1>6. CASE ClearCount
    BY <1>1, <1>6 DEF ClearCount, UartInv
<1>7. CASE UNCHANGED uart
    BY <1>7 DEF uart, UartInv
<1>8. QED BY <1>2, <1>3, <1>4, <1>5, <1>6, <1>7, UartSteps

-----------------------------------------------------------------------------
(* The queue of lines. *)

LEMMA QueueIs ==
    ASSUME UartInv
    PROVE  /\ Queue \in Seq(Lines) /\ Len(Queue) \in Nat
           /\ reading # "count" => Queue = rx
           /\ reading = "count" => Queue = <<line>> \o rx /\ Queue # <<>> /\ Head(Queue) = line /\ Tail(Queue) = rx
<1>1. rx \in Seq(Lines) /\ (reading = "count" => line \in Lines)
    BY DEF UartInv
<1>2. CASE reading = "count"
    <2>1. Queue = <<line>> \o rx /\ <<line>> \in Seq(Lines) /\ Len(<<line>>) = 1 /\ <<line>>[1] = line
        BY <1>1, <1>2 DEF Queue
    <2>2. /\ Queue \in Seq(Lines) /\ Len(Queue) = 1 + Len(rx) /\ Len(rx) \in Nat
          /\ \A i \in 1..1 + Len(rx) : Queue[i] = IF i <= 1 THEN line ELSE rx[i - 1]
        BY <1>1, <2>1, ConcatProperties, LenProperties
    <2>3. Queue # <<>> /\ Head(Queue) = Queue[1] /\ Queue[1] = line
        BY <2>2
    <2>4. Tail(Queue) \in Seq(Lines) /\ Len(Tail(Queue)) = Len(rx) /\ \A i \in 1..Len(rx) : Tail(Queue)[i] = rx[i]
        BY <2>2, <2>3, HeadTailProperties
    <2>5. Tail(Queue) = rx
        BY <1>1, <2>4, SeqEqual
    <2>6. QED BY <1>2, <2>1, <2>2, <2>3, <2>5
<1>3. CASE reading # "count"
    BY <1>1, <1>3, LenProperties DEF Queue
<1>4. QED BY <1>2, <1>3

LEMMA QueueReceives ==
    ASSUME UartInv, NEW l \in Lines, Receive(l)
    PROVE  Queue' = Append(Queue, l)
<1>1. rx \in Seq(Lines) /\ rx' = Append(rx, l) /\ line' = line /\ reading' = reading
    BY DEF UartInv, Receive
<1>2. CASE reading = "count"
    <2>1. <<line>> \o Append(rx, l) = Append(<<line>> \o rx, l)
        <3>1. <<line>> \in Seq(Lines) /\ <<l>> \in Seq(Lines)
            BY <1>2 DEF UartInv
        <3>2. <<line>> \o rx \in Seq(Lines)
            BY <1>1, <3>1, ConcatProperties
        <3>3. Append(rx, l) = rx \o <<l>> /\ Append(<<line>> \o rx, l) = (<<line>> \o rx) \o <<l>>
            BY <1>1, <3>2, AppendIsConcat
        <3>4. QED BY <1>1, <3>1, <3>3, ConcatAssociative
    <2>2. QED BY <1>1, <1>2, <2>1 DEF Queue
<1>3. CASE reading # "count"
    BY <1>1, <1>3 DEF Queue
<1>4. QED BY <1>2, <1>3

\* Taking the first line leaves it in the queue until the count is stored.
LEMMA QueueKept ==
    ASSUME UartInv, uartengine_can_read_string \/ ClearCount \/ UNCHANGED uart
    PROVE  Queue' = Queue
<1>1. CASE uartengine_can_read_string
    <2>1. rx \in Seq(Lines) /\ rx # <<>>
        BY <1>1, EmptySeq DEF uartengine_can_read_string, UartInv
    <2>2. Head(rx) \in Lines /\ Tail(rx) \in Seq(Lines) /\ Len(Tail(rx)) = Len(rx) - 1 /\ Head(rx) = rx[1]
          /\ Len(rx) \in Nat /\ \A i \in 1..Len(Tail(rx)) : Tail(rx)[i] = rx[i + 1]
        BY <2>1, HeadTailProperties, LenProperties
    <2>3. <<Head(rx)>> \in Seq(Lines) /\ Len(<<Head(rx)>>) = 1 /\ <<Head(rx)>>[1] = Head(rx)
        BY <2>2
    <2> DEFINE q == <<Head(rx)>> \o Tail(rx)
    <2>4. /\ q \in Seq(Lines) /\ Len(q) = 1 + Len(Tail(rx))
          /\ \A i \in 1..1 + Len(Tail(rx)) : q[i] = IF i <= 1 THEN <<Head(rx)>>[i] ELSE Tail(rx)[i - 1]
        BY <2>2, <2>3, ConcatProperties
    <2>5. Len(q) = Len(rx) /\ \A i \in 1..Len(rx) : q[i] = rx[i]
        <3> HIDE DEF q
        <3>1. Len(q) = Len(rx)
            BY <2>2, <2>4
        <3>2. ASSUME NEW i \in 1..Len(rx)
              PROVE  q[i] = rx[i]
            <4>1. CASE i = 1
                BY <2>2, <2>3, <2>4, <3>2, <4>1
            <4>2. CASE i # 1
                <5>1. i - 1 \in 1..Len(Tail(rx)) /\ (i - 1) + 1 = i
                    BY <2>2, <3>2, <4>2
                <5>2. Tail(rx)[i - 1] = rx[i]
                    BY <2>2, <5>1
                <5>3. QED BY <2>2, <2>4, <3>2, <4>2, <5>2
            <4>3. QED BY <4>1, <4>2
        <3>3. QED BY <3>1, <3>2
    <2>6. q = rx
        <3> HIDE DEF q
        <3>1. QED BY <2>1, <2>4, <2>5, SeqEqual
    <2>7. QED BY <1>1, <2>6 DEF uartengine_can_read_string, Queue
<1>2. CASE ClearCount \/ UNCHANGED uart
    BY <1>2 DEF ClearCount, uart, Queue
<1>3. QED BY <1>1, <1>2

LEMMA QueueShrinks ==
    ASSUME UartInv
    PROVE  /\ StoreCount => /\ Queue # <<>> /\ line = Head(Queue) /\ Queue' = Tail(Queue)
           /\ uartengine_clear_rx => Queue = rx /\ Queue' = <<>>
BY QueueIs DEF StoreCount, uartengine_clear_rx, Queue

-----------------------------------------------------------------------------
(* The plans. *)

LEMMA CmdTypes ==
    /\ NoCmd.name = "none" /\ NoCmd \notin ServeCmds /\ NoCmd \notin LongCmds
    /\ \A n \in LongNames : Cmd(n) \in LongCmds
    /\ \A n : Cmd(n).name = n
    /\ Cmd("CIPSTATUS") \in ServeCmds
    /\ \A n \in {"CIPSEND", "DATA"}, i \in Ids : CmdTo(n, i) \in ServeCmds
    /\ \A c \in LongCmds : c = Cmd(c.name)
    /\ \A c \in ServeCmds : c.name \in {"CIPSTATUS", "CIPSEND", "DATA"}
<1>1. NoCmd.name = "none" /\ \A n : Cmd(n).name = n
    BY DEF NoCmd, Cmd
<1>2. NoCmd \notin ServeCmds /\ NoCmd \notin LongCmds
    BY <1>1 DEF ServeCmds, LongCmds, LongNames
<1>3. \A n \in LongNames : Cmd(n) \in LongCmds
    BY DEF Cmd, LongCmds
<1>4. Cmd("CIPSTATUS") \in ServeCmds
    BY DEF Cmd, ServeCmds, AnyId
<1>5. \A n \in {"CIPSEND", "DATA"}, i \in Ids : CmdTo(n, i) \in ServeCmds
    BY DEF CmdTo, ServeCmds, AnyId
<1>6. \A c \in LongCmds : c = Cmd(c.name)
    BY DEF LongCmds, Cmd
<1>7. \A c \in ServeCmds : c.name \in {"CIPSTATUS", "CIPSEND", "DATA"}
    BY DEF ServeCmds
<1>8. QED BY <1>1, <1>2, <1>3, <1>4, <1>5, <1>6, <1>7

\* Short sequences.
LEMMA Tuples ==
    ASSUME NEW S
    PROVE  /\ \A a \in S : <<a>> \in Seq(S) /\ Len(<<a>>) = 1 /\ <<a>>[1] = a
           /\ \A a, b \in S : <<a, b>> \in Seq(S) /\ Len(<<a, b>>) = 2 /\ <<a, b>>[1] = a /\ <<a, b>>[2] = b
           /\ \A a, b, c, d \in S : <<a, b, c, d>> \in Seq(S) /\ Len(<<a, b, c, d>>) = 4
OBVIOUS

LEMMA SlotsAreFinite ==
    ASSUME NEW S, S \subseteq Slots
    PROVE  IsFiniteSet(S) /\ Cardinality(S) \in Nat
<1>1. S \subseteq 0..MaxClients - 1
    BY WifiAssumption DEF Slots
<1>2. IsFiniteSet(0..MaxClients - 1)
    BY FS_Interval, WifiAssumption
<1>3. IsFiniteSet(S)
    BY <1>1, <1>2, FS_Subset
<1>4. QED BY <1>3, FS_CardinalityType

LEMMA SendPlans ==
    ASSUME NEW i \in Ids, NEW S, S \subseteq Slots, NEW f \in InOrder(S)
    PROVE  /\ SendToAll(f) \in Seq(ServeCmds) /\ SendToAll(f) \o SendTo(i) \in Seq(ServeCmds)
           /\ WholeSends(SendToAll(f), NoCmd) /\ WholeSends(SendToAll(f) \o SendTo(i), NoCmd)
<1> DEFINE k == Cardinality(S)
           p == SendToAll(f)
           q == SendTo(i)
<1>1. k \in Nat /\ f \in [1..k -> S] /\ S \subseteq Ids
    BY SlotsAreFinite DEF InOrder, Slots
<1>2. /\ p \in [1..2 * k -> ServeCmds]
      /\ \A n \in 1..2 * k : n % 2 = 0 => p[n].name = "DATA"
    <2> HIDE DEF k
    <2>1. Len(f) = k /\ \A n \in 1..2 * k : (n + 1) \div 2 \in 1..k
        BY <1>1
    <2>2. \A n \in 1..2 * k : f[(n + 1) \div 2] \in Ids
        BY <1>1, <2>1
    <2>3. \A n \in 1..2 * k :
              CmdTo(IF n % 2 = 1 THEN "CIPSEND" ELSE "DATA", f[(n + 1) \div 2]) \in ServeCmds
        BY <2>2, CmdTypes
    <2>4. p = [n \in 1..2 * k |-> CmdTo(IF n % 2 = 1 THEN "CIPSEND" ELSE "DATA", f[(n + 1) \div 2])]
        BY <2>1 DEF SendToAll
    <2>5. \A n, j : CmdTo(n, j).name = n
        BY DEF CmdTo
    <2> HIDE DEF p
    <2>6. p \in [1..2 * k -> ServeCmds]
        BY <2>3, <2>4
    <2>7. ASSUME NEW n \in 1..2 * k, n % 2 = 0
          PROVE  p[n].name = "DATA"
        <3>1. p[n] = CmdTo("DATA", f[(n + 1) \div 2])
            BY <2>4, <2>7
        <3>2. QED BY <2>5, <3>1
    <2>8. QED BY <2>6, <2>7
<1>3. 2 * k \in Nat /\ (2 * k) % 2 = 0
    BY <1>1
<1>4. q \in Seq(ServeCmds) /\ Len(q) = 2 /\ q[2].name = "DATA"
    <2>1. CmdTo("CIPSEND", i) \in ServeCmds /\ CmdTo("DATA", i) \in ServeCmds
        BY CmdTypes
    <2>2. CmdTo("DATA", i).name = "DATA"
        BY DEF CmdTo
    <2>3. QED BY <2>1, <2>2, Tuples DEF SendTo
<1> HIDE DEF k, p, q
<1>5. p \in Seq(ServeCmds) /\ Len(p) = 2 * k
    BY <1>2, <1>3
<1>6. WholeSends(p, NoCmd)
    <2>1. NoCmd.name # "CIPSEND"
        BY CmdTypes
    <2>2. p # <<>> => 2 * k \in 1..2 * k
        BY <1>3, <1>5, EmptySeq
    <2>3. p # <<>> => p[Len(p)].name = "DATA"
        BY <1>2, <1>3, <1>5, <2>2
    <2>4. QED BY <2>1, <2>3 DEF WholeSends
<1>7. /\ p \o q \in Seq(ServeCmds) /\ Len(p \o q) = Len(p) + Len(q)
      /\ \A n \in 1..Len(p) + Len(q) : (p \o q)[n] = IF n <= Len(p) THEN p[n] ELSE q[n - Len(p)]
    BY <1>4, <1>5, ConcatProperties
<1>8. (p \o q)[Len(p \o q)].name = "DATA"
    BY <1>3, <1>4, <1>5, <1>7
<1>9. WholeSends(p \o q, NoCmd)
    <2>1. p \o q # <<>>
        BY <1>3, <1>4, <1>5, <1>7, EmptySeq
    <2>2. QED BY <1>8, <2>1 DEF WholeSends
<1>10. QED BY <1>5, <1>6, <1>7, <1>9 DEF p, q

\* The plans of the long operations end with the opening of the server.
LEMMA EndsOpening ==
    ASSUME NEW p \in Seq(LongCmds)
    PROVE  /\ p \o Opening \in Seq(LongCmds) /\ p \o Opening # <<>>
           /\ (p \o Opening)[Len(p \o Opening)] = Cmd("CIPSERVER=1")
           /\ Len(p) \in Nat /\ Len(p \o Opening) = Len(p) + 2
           /\ \A n \in 1..Len(p) : (p \o Opening)[n] = p[n]
<1>1. /\ Opening \in Seq(LongCmds) /\ Len(Opening) = 2 /\ Opening[2] = Cmd("CIPSERVER=1")
    <2>1. Cmd("CIPMUX=1") \in LongCmds /\ Cmd("CIPSERVER=1") \in LongCmds
        BY CmdTypes DEF LongNames
    <2>2. QED BY <2>1, Tuples DEF Opening
<1>2. Len(p) \in Nat
    BY LenProperties
<1>3. /\ p \o Opening \in Seq(LongCmds) /\ Len(p \o Opening) = Len(p) + 2
      /\ \A i \in 1..Len(p) + 2 : (p \o Opening)[i] = IF i <= Len(p) THEN p[i] ELSE Opening[i - Len(p)]
    <2> DEFINE q == Opening
    <2>1. q \in Seq(LongCmds) /\ Len(q) = 2
        BY <1>1
    <2> HIDE DEF q
    <2>2. /\ p \o q \in Seq(LongCmds) /\ Len(p \o q) = Len(p) + Len(q)
          /\ \A i \in 1..Len(p) + Len(q) : (p \o q)[i] = IF i <= Len(p) THEN p[i] ELSE q[i - Len(p)]
        BY <2>1, ConcatProperties
    <2>3. QED BY <2>1, <2>2 DEF q
<1>4. p \o Opening # <<>>
    BY <1>2, <1>3, EmptySeq
<1>5. (p \o Opening)[Len(p) + 2] = Cmd("CIPSERVER=1")
    BY <1>1, <1>2, <1>3
<1>6. QED BY <1>2, <1>3, <1>4, <1>5

LEMMA LongPlans ==
    /\ Ntp \in Seq(LongCmds) /\ Len(Ntp) = 4
    /\ BringUp \in Seq(LongCmds) /\ BringUp # <<>> /\ BringUp[Len(BringUp)] = Cmd("CIPSERVER=1")
    /\ FetchTime \in Seq(LongCmds) /\ FetchTime # <<>> /\ FetchTime[Len(FetchTime)] = Cmd("CIPSERVER=1")
    /\ \E n \in 1..Len(FetchTime) : FetchTime[n] = Cmd("CIPMUX=0")
<1>1. Ntp \in Seq(LongCmds) /\ Len(Ntp) = 4
    <2>1. /\ Cmd("CIPSTART") \in LongCmds /\ Cmd("NTP SEND") \in LongCmds /\ Cmd("NTP") \in LongCmds
          /\ Cmd("CIPCLOSE") \in LongCmds
        BY CmdTypes DEF LongNames
    <2>2. QED BY <2>1, Tuples DEF Ntp
<1>2. BringUp \in Seq(LongCmds) /\ BringUp # <<>> /\ BringUp[Len(BringUp)] = Cmd("CIPSERVER=1")
    <2> DEFINE p == <<Cmd("SETUP"), Cmd("CIPMUX=0")>>
    <2>1. p \in Seq(LongCmds)
        <3>1. Cmd("SETUP") \in LongCmds /\ Cmd("CIPMUX=0") \in LongCmds
            BY CmdTypes DEF LongNames
        <3>2. QED BY <3>1, Tuples
    <2>2. BringUp = (p \o Ntp) \o Opening
        BY DEF BringUp
    <2> HIDE DEF p
    <2>3. p \o Ntp \in Seq(LongCmds)
        BY <1>1, <2>1, ConcatProperties
    <2>4. QED BY <2>2, <2>3, EndsOpening
<1>3. /\ FetchTime \in Seq(LongCmds) /\ FetchTime # <<>> /\ FetchTime[Len(FetchTime)] = Cmd("CIPSERVER=1")
      /\ \E n \in 1..Len(FetchTime) : FetchTime[n] = Cmd("CIPMUX=0")
    <2> DEFINE a == IF server_running THEN <<Cmd("CIPSERVER=0")>> ELSE <<>>
               b == <<Cmd("CIPMUX=0")>>
    <2>1. a \in Seq(LongCmds) /\ b \in Seq(LongCmds) /\ Len(b) = 1 /\ b[1] = Cmd("CIPMUX=0")
        <3>1. Cmd("CIPSERVER=0") \in LongCmds /\ Cmd("CIPMUX=0") \in LongCmds
            BY CmdTypes DEF LongNames
        <3>2. <<Cmd("CIPSERVER=0")>> \in Seq(LongCmds) /\ <<>> \in Seq(LongCmds)
            BY <3>1, Tuples, EmptySeq
        <3>3. QED BY <3>1, <3>2, Tuples
    <2>2. FetchTime = ((a \o b) \o Ntp) \o Opening
        BY DEF FetchTime
    <2> HIDE DEF a, b
    <2>3. /\ Len(a) \in Nat /\ a \o b \in Seq(LongCmds) /\ Len(a \o b) = Len(a) + 1
          /\ (a \o b)[Len(a) + 1] = Cmd("CIPMUX=0")
        <3>1. Len(a) \in Nat
            BY <2>1, LenProperties
        <3>2. /\ a \o b \in Seq(LongCmds) /\ Len(a \o b) = Len(a) + Len(b)
              /\ \A i \in 1..Len(a) + Len(b) : (a \o b)[i] = IF i <= Len(a) THEN a[i] ELSE b[i - Len(a)]
            BY <2>1, ConcatProperties
        <3>3. QED BY <2>1, <3>1, <3>2
    <2> DEFINE ab == a \o b
    <2>4. ab \in Seq(LongCmds)
        BY <2>3
    <2> HIDE DEF ab
    <2>5. /\ ab \o Ntp \in Seq(LongCmds) /\ Len(ab \o Ntp) = Len(ab) + Len(Ntp)
          /\ \A n \in 1..Len(ab) + Len(Ntp) : (ab \o Ntp)[n] = IF n <= Len(ab) THEN ab[n] ELSE Ntp[n - Len(ab)]
        BY <1>1, <2>4, ConcatProperties
    <2>6. Len(ab) \in Nat \ {0} /\ ab[Len(ab)] = Cmd("CIPMUX=0")
        BY <2>3 DEF ab
    <2>7. (ab \o Ntp)[Len(ab)] = Cmd("CIPMUX=0") /\ Len(ab) \in 1..Len(ab \o Ntp)
        BY <1>1, <2>5, <2>6
    <2> DEFINE abn == ab \o Ntp
    <2>8. FetchTime = abn \o Opening /\ abn \in Seq(LongCmds)
        BY <2>2, <2>5 DEF ab
    <2>9. abn[Len(ab)] = Cmd("CIPMUX=0") /\ Len(ab) \in 1..Len(abn)
        BY <2>7
    <2> HIDE DEF abn
    <2>10. /\ FetchTime \in Seq(LongCmds) /\ FetchTime # <<>>
          /\ FetchTime[Len(FetchTime)] = Cmd("CIPSERVER=1")
          /\ Len(abn) \in Nat /\ Len(FetchTime) = Len(abn) + 2 /\ FetchTime[Len(ab)] = Cmd("CIPMUX=0")
        BY <2>8, <2>9, EndsOpening
    <2>11. Len(ab) \in 1..Len(FetchTime)
        BY <2>6, <2>9, <2>10
    <2>12. QED BY <2>10, <2>11
<1>4. QED BY <1>1, <1>2, <1>3

\* The next command of a long operation.
LEMMA NextOfPlan ==
    ASSUME NEW p \in Seq(LongCmds), p # <<>>, p[Len(p)] = Cmd("CIPSERVER=1")
    PROVE  /\ Head(p) \in LongCmds /\ Tail(p) \in Seq(LongCmds)
           /\ Tail(p) = <<>> => Head(p) = Cmd("CIPSERVER=1")
           /\ Tail(p) # <<>> => Tail(p)[Len(Tail(p))] = Cmd("CIPSERVER=1")
<1>1. /\ Head(p) \in LongCmds /\ Tail(p) \in Seq(LongCmds) /\ Len(Tail(p)) = Len(p) - 1
      /\ \A i \in 1..Len(Tail(p)) : Tail(p)[i] = p[i + 1]
      /\ Len(p) \in Nat \ {0} /\ Head(p) = p[1]
    BY HeadTailProperties, EmptySeq
<1>2. Tail(p) = <<>> => Len(p) = 1
    BY <1>1, EmptySeq
<1>3. Tail(p) # <<>> => Len(Tail(p)) \in Nat \ {0}
    BY <1>1, EmptySeq
<1>4. QED BY <1>1, <1>2, <1>3

\* The plan of an initialisation that starts again.
Again(c, o) ==
    (IF AfterConnect(c) THEN <<Cmd("CIPCLOSE")>> ELSE <<>>) \o (IF o = "init" THEN Ntp ELSE <<>>) \o Opening

LEMMA PlanAgain ==
    ASSUME NEW c, NEW o
    PROVE  /\ Again(c, o) \in Seq(LongCmds) /\ Again(c, o) # <<>>
           /\ Again(c, o)[Len(Again(c, o))] = Cmd("CIPSERVER=1")
<1> DEFINE a == IF AfterConnect(c) THEN <<Cmd("CIPCLOSE")>> ELSE <<>>
           b == IF o = "init" THEN Ntp ELSE <<>>
<1>1. a \in Seq(LongCmds) /\ b \in Seq(LongCmds)
    <2>1. Cmd("CIPCLOSE") \in LongCmds
        BY CmdTypes DEF LongNames
    <2>2. <<Cmd("CIPCLOSE")>> \in Seq(LongCmds) /\ <<>> \in Seq(LongCmds) /\ Ntp \in Seq(LongCmds)
        BY <2>1, Tuples, EmptySeq, LongPlans
    <2>3. QED BY <2>2
<1>2. Again(c, o) = (a \o b) \o Opening
    BY DEF Again
<1> HIDE DEF a, b
<1>3. a \o b \in Seq(LongCmds)
    BY <1>1, ConcatProperties
<1>4. QED BY <1>2, <1>3, EndsOpening

LEMMA TailOfSends ==
    ASSUME NEW p \in Seq(ServeCmds), p # <<>>, p[Len(p)].name # "CIPSEND"
    PROVE  Head(p) \in ServeCmds /\ Tail(p) \in Seq(ServeCmds) /\ WholeSends(Tail(p), Head(p))
<1>1. /\ Head(p) \in ServeCmds /\ Tail(p) \in Seq(ServeCmds) /\ Len(Tail(p)) = Len(p) - 1
      /\ \A i \in 1..Len(Tail(p)) : Tail(p)[i] = p[i + 1]
      /\ Len(p) \in Nat \ {0} /\ Head(p) = p[1]
    BY HeadTailProperties, EmptySeq
<1>2. Len(<<>>) = 0
    BY EmptySeq
<1>3. ASSUME Tail(p) = <<>>
      PROVE  Len(p) = 1
    <2>1. Len(Tail(p)) = 0
        BY <1>2, <1>3
    <2>2. \A n \in Nat : n - 1 = 0 => n = 1
        OBVIOUS
    <2>3. QED BY <1>1, <2>1, <2>2
<1>4. Tail(p) # <<>> => Len(Tail(p)) \in Nat \ {0}
    BY <1>1, EmptySeq
<1>5. QED BY <1>1, <1>3, <1>4 DEF WholeSends

LEMMA PlanKept ==
    ASSUME PlanInv, UNCHANGED <<op, plan, cmd, allocated, server_running>>
    PROVE  PlanInv'
BY DEF PlanInv, WholeSends

LEMMA PlanServes ==
    ASSUME PlanInv, op = "none", op' = "serve", plan' \in Seq(ServeCmds), cmd' = cmd,
           WholeSends(plan', NoCmd)
    PROVE  PlanInv'
BY DEF PlanInv, Ops, LongOps, WholeSends

LEMMA PlanStep ==
    ASSUME TableInv, PlanInv, [Next]_vars
    PROVE  PlanInv'
<1>1. ASSUME NEW i \in Ids, OnConnected(i)
      PROVE  PlanInv'
    <2>1. op = "none" /\ UNCHANGED <<cmd, allocated, server_running>>
        BY <1>1 DEF OnConnected, OnLine
    <2>2. CASE UNCHANGED <<op, plan>>
        BY <2>1, <2>2, PlanKept
    <2>3. CASE Serve(<<Cmd("CIPSTATUS")>>)
        <3>1. op' = "serve" /\ plan' = <<Cmd("CIPSTATUS")>>
            BY <2>3 DEF Serve
        <3>2. plan' \in Seq(ServeCmds) /\ Len(plan') = 1 /\ plan'[1].name = "CIPSTATUS"
            BY <3>1, CmdTypes, Tuples
        <3>3. plan' # <<>>
            BY <3>1
        <3>4. WholeSends(plan', NoCmd)
            BY <3>2, <3>3 DEF WholeSends
        <3>5. QED BY <2>1, <3>1, <3>2, <3>4, PlanServes
    <2>4. QED BY <1>1, <2>2, <2>3, Zenon DEF OnConnected
<1>2. ASSUME NEW i \in Ids, OnData(i)
      PROVE  PlanInv'
    <2>1. op = "none" /\ UNCHANGED <<cmd, allocated, server_running>>
        BY <1>2 DEF OnData, OnLine
    <2>2. CASE UNCHANGED <<op, plan>>
        BY <2>1, <2>2, PlanKept
    <2>3. ASSUME NEW told \in {{}, connected}, NEW f \in InOrder(told), Serve(SendToAll(f) \o SendTo(i))
          PROVE  PlanInv'
        <3>1. told \subseteq Slots
            BY <2>3 DEF TableInv
        <3>2. SendToAll(f) \o SendTo(i) \in Seq(ServeCmds) /\ WholeSends(SendToAll(f) \o SendTo(i), NoCmd)
            BY <1>2, <2>3, <3>1, SendPlans
        <3>3. op' = "serve" /\ plan' \in Seq(ServeCmds) /\ WholeSends(plan', NoCmd)
            BY <2>3, <3>2 DEF Serve
        <3>4. QED BY <2>1, <3>3, PlanServes
    <2>4. QED BY <1>2, <2>2, <2>3, Zenon DEF OnData
<1>3. CASE wifimgr_broadcast_bytes
    <2>1. PICK f \in InOrder(connected) : Starts("serve", SendToAll(f))
        BY <1>3, Zenon DEF wifimgr_broadcast_bytes
    <2>2. connected \subseteq Slots /\ connected # {}
        BY <1>3 DEF TableInv, wifimgr_broadcast_bytes
    <2>3. PICK i : i \in connected
        BY <2>2
    <2>4. i \in Ids
        BY <2>2, <2>3 DEF Slots
    <2>5. SendToAll(f) \in Seq(ServeCmds) /\ WholeSends(SendToAll(f), NoCmd)
        BY <2>2, <2>4, SendPlans
    <2>6. op = "none" /\ op' = "serve" /\ plan' = SendToAll(f) /\ cmd' = cmd
        BY <2>1 DEF Starts, AtRest, driver
    <2>7. QED BY <2>5, <2>6, PlanServes
<1>4. CASE wifimgr_get_time
    <2>1. op = "none" /\ op' = "get_time" /\ plan' = FetchTime /\ cmd' = cmd
        BY <1>4 DEF wifimgr_get_time, Starts, AtRest, driver
    <2>2. QED BY <2>1, LongPlans DEF PlanInv, Ops, LongOps
<1>5. CASE wifimgr_reset
    <2>1. op' = "init" /\ plan' = BringUp /\ cmd' = NoCmd
        BY <1>5 DEF wifimgr_reset, wifi_reset
    <2>2. ~allocated' /\ ~server_running'
        BY <1>5, Zenon DEF wifimgr_reset
    <2>3. QED BY <2>1, <2>2, LongPlans DEF PlanInv, Ops, LongOps
<1>6. CASE SendNext
    <2>1. /\ op # "none" /\ plan # <<>> /\ cmd' = Head(plan) /\ plan' = Tail(plan)
          /\ UNCHANGED <<op, allocated, server_running>>
        BY <1>6 DEF SendNext, wifi_send_command
    <2>2. CASE op = "serve"
        <3>1. plan \in Seq(ServeCmds) /\ plan[Len(plan)].name # "CIPSEND"
            BY <2>1, <2>2 DEF PlanInv, WholeSends
        <3>2. Head(plan) \in ServeCmds /\ Tail(plan) \in Seq(ServeCmds) /\ WholeSends(Tail(plan), Head(plan))
            BY <2>1, <3>1, TailOfSends
        <3>3. QED BY <2>1, <2>2, <3>2 DEF PlanInv, LongOps, WholeSends
    <2>3. CASE op = "get_time_nok"
        <3>1. plan = <<Cmd("CIPCLOSE")>>
            BY <2>1, <2>3 DEF PlanInv
        <3>2. Head(plan) = Cmd("CIPCLOSE") /\ Tail(plan) = <<>>
            BY <3>1
        <3>3. QED BY <2>1, <2>3, <3>2 DEF PlanInv, LongOps
    <2>4. CASE op \in LongOps
        <3>1. plan \in Seq(LongCmds) /\ plan[Len(plan)] = Cmd("CIPSERVER=1")
            BY <2>1, <2>4 DEF PlanInv
        <3>2. /\ Head(plan) \in LongCmds /\ Tail(plan) \in Seq(LongCmds)
              /\ Tail(plan) = <<>> => Head(plan) = Cmd("CIPSERVER=1")
              /\ Tail(plan) # <<>> => Tail(plan)[Len(Tail(plan))] = Cmd("CIPSERVER=1")
            BY <2>1, <3>1, NextOfPlan
        <3>3. QED BY <2>1, <2>4, <3>2 DEF PlanInv, LongOps
    <2>5. QED BY <2>1, <2>2, <2>3, <2>4 DEF PlanInv, Ops, LongOps
<1>7. CASE Answered
    <2>1. cmd' = NoCmd /\ UNCHANGED <<op, plan, allocated>>
        BY <1>7 DEF Answered, wifi_answered, NtpAnswered
    <2>2. server_running' => server_running
        BY <1>7, Zenon DEF Answered
    <2>3. WholeSends(plan, cmd) => WholeSends(plan', cmd')
        BY <2>1, CmdTypes DEF WholeSends
    <2>4. QED BY <2>1, <2>2, <2>3 DEF PlanInv
<1>8. CASE Fails
    <2>1. cmd # NoCmd /\ cmd' = NoCmd /\ OnFailure(cmd) /\ UNCHANGED <<allocated, server_running>>
        BY <1>8, CmdTypes DEF Fails, wifi_timeout, NtpTimeout
    <2>2. CASE op = "serve" /\ op' = op /\ plan' = IF cmd.name = "CIPSEND" THEN Tail(plan) ELSE plan
        \* A send has two commands: the second is left out when the first fails.
        <3>1. plan \in Seq(ServeCmds) /\ WholeSends(plan, cmd)
            BY <2>2 DEF PlanInv
        <3>2. CASE cmd.name # "CIPSEND"
            <4>1. WholeSends(plan, NoCmd)
                BY <3>1, CmdTypes DEF WholeSends
            <4>2. QED BY <2>1, <2>2, <3>1, <3>2, <4>1 DEF PlanInv, LongOps, WholeSends
        <3>3. CASE cmd.name = "CIPSEND"
            <4>1. plan # <<>> /\ plan[Len(plan)].name # "CIPSEND"
                BY <3>1, <3>3 DEF WholeSends
            <4>2. Tail(plan) \in Seq(ServeCmds) /\ WholeSends(Tail(plan), Head(plan))
                BY <3>1, <4>1, TailOfSends
            <4>3. WholeSends(Tail(plan), NoCmd)
                BY <4>2, CmdTypes DEF WholeSends
            <4>4. QED BY <2>1, <2>2, <3>3, <4>2, <4>3 DEF PlanInv, LongOps, WholeSends
        <3>4. QED BY <3>2, <3>3
    <2>3. CASE op # "serve" /\ cmd.name = "CIPCLOSE" /\ UNCHANGED <<op, plan>>
        <3>1. op # "none"
            BY <2>1 DEF PlanInv
        <3>2. QED BY <2>1, <2>3, <3>1 DEF PlanInv, LongOps
    <2>4. CASE /\ op = "get_time" /\ op' = "get_time_nok"
               /\ plan' = IF AfterConnect(cmd) THEN <<Cmd("CIPCLOSE")>> ELSE <<>>
        BY <2>1, <2>4 DEF PlanInv, Ops, LongOps
    <2>5. CASE /\ op \in {"init", "init_again"} /\ op' = "init_again"
               /\ plan' = (IF AfterConnect(cmd) THEN <<Cmd("CIPCLOSE")>> ELSE <<>>)
                              \o (IF op = "init" THEN Ntp ELSE <<>>) \o Opening
        <3>1. plan' \in Seq(LongCmds) /\ plan' # <<>> /\ plan'[Len(plan')] = Cmd("CIPSERVER=1")
            BY <2>5, PlanAgain DEF Again
        <3>2. QED BY <2>1, <2>5, <3>1 DEF PlanInv, Ops, LongOps
    <2>6. CASE op \in {"init", "init_again"} /\ GiveUp
        BY <2>1, <2>6 DEF GiveUp, PlanInv, Ops, LongOps
    <2>7. QED BY <2>1, <2>2, <2>3, <2>4, <2>5, <2>6, Zenon DEF OnFailure
<1>9. CASE Ends
    BY <1>9 DEF Ends, PlanInv, driver, Ops, LongOps
<1>10. CASE \/ Watch \/ (\E i \in Ids : OnClosed(i)) \/ OnOther \/ Waiting \/ Module
            \/ UNCHANGED vars
    <2>1. UNCHANGED <<op, plan, cmd, allocated, server_running>>
        BY <1>10 DEF Watch, OnClosed, OnOther, OnLine, Waiting, TakeLine, RxCleared, Discard, Module,
                     ModuleAnswers, ModuleEvent, ClientConnects, ClientCloses, ClientSends, manager, driver, vars
    <2>2. QED BY <2>1, PlanKept
<1>11. QED
    BY <1>1, <1>2, <1>3, <1>4, <1>5, <1>6, <1>7, <1>8, <1>9, <1>10, Zenon DEF Next, Main, OnClient

-----------------------------------------------------------------------------
(* The dialogue with the module. *)

LEMMA AppendLines ==
    ASSUME NEW q \in Seq(Lines), NEW l \in Lines, NEW r, r = Append(q, l)
    PROVE  /\ Len(q) \in Nat /\ Len(r) = Len(q) + 1 /\ r[Len(q) + 1] = l
           /\ \A n \in 1..Len(q) : n \in 1..Len(r) /\ r[n] = q[n]
           /\ \A n \in 1..Len(r) : n \in 1..Len(q) \/ n = Len(q) + 1
<1>1. Len(q) \in Nat
    BY LenProperties
<1>2. Len(r) = Len(q) + 1 /\ r[Len(q) + 1] = l /\ \A n \in 1..Len(q) : r[n] = q[n]
    BY AppendProperties
<1>3. QED BY <1>1, <1>2

LEMMA TailLines ==
    ASSUME NEW q \in Seq(Lines), q # <<>>, NEW r, r = Tail(q)
    PROVE  /\ Len(q) \in Nat \ {0} /\ Len(r) = Len(q) - 1 /\ Head(q) = q[1]
           /\ \A n \in 1..Len(r) : n + 1 \in 1..Len(q) /\ r[n] = q[n + 1]
<1>1. Len(q) \in Nat \ {0}
    BY EmptySeq
<1>2. Len(r) = Len(q) - 1 /\ \A n \in 1..Len(r) : r[n] = q[n + 1]
    BY HeadTailProperties
<1>3. \A k \in Nat \ {0} : \A n \in 1..k - 1 : n + 1 \in 1..k
    OBVIOUS
<1>4. \A n \in 1..Len(r) : n + 1 \in 1..Len(q)
    BY <1>1, <1>2, <1>3
<1>5. Head(q) = q[1]
    OBVIOUS
<1>6. QED BY <1>1, <1>2, <1>4, <1>5

LEMMA TypesOfLines ==
    /\ \A w : Answer(w).type = w
    /\ \A ev, i : Event(ev, i).type = ev /\ Event(ev, i).id = i
    /\ Answers \cap (ClientTold \cup {"DATA"}) = {}
BY DEF Answer, Event, Answers, ClientTold

LEMMA HeadOfPlan ==
    ASSUME PlanInv, op # "none", plan # <<>>
    PROVE  Head(plan) \in Commands /\ Head(plan) # NoCmd
<1>1. CASE op = "serve"
    <2>1. plan \in Seq(ServeCmds)
        BY <1>1 DEF PlanInv
    <2>2. QED BY <2>1, HeadTailProperties, CmdTypes DEF Commands
<1>2. CASE op = "get_time_nok"
    <2>1. plan = <<Cmd("CIPCLOSE")>>
        BY <1>2 DEF PlanInv
    <2>2. Head(plan) = Cmd("CIPCLOSE")
        BY <2>1
    <2>3. Cmd("CIPCLOSE") \in LongCmds
        BY CmdTypes DEF LongNames
    <2>4. QED BY <2>2, <2>3, CmdTypes DEF Commands
<1>3. CASE op \in LongOps
    <2>1. plan \in Seq(LongCmds)
        BY <1>3 DEF PlanInv
    <2>2. QED BY <2>1, HeadTailProperties, CmdTypes DEF Commands
<1>4. QED BY <1>1, <1>2, <1>3 DEF PlanInv, Ops, LongOps

LEMMA InStepKept ==
    ASSUME InStep, UNCHANGED <<owed, cmd, conns, open>>, Queue' = Queue
    PROVE  InStep'
BY DEF InStep, NoAnswer, Alone, Truth

\* The dialogue is at rest.
LEMMA Rests ==
    ASSUME cmd' = NoCmd, owed' = <<>>, NoAnswer(Queue')
    PROVE  InStep'
BY DEF InStep, NoAnswer

\* The module answers.
LEMMA StepAnswers ==
    ASSUME UartInv, InStep, ModuleAnswers
    PROVE  InStep'
<1>1. owed # <<>> /\ owed' = Tail(owed) /\ cmd' = cmd
    BY DEF ModuleAnswers
<1>2. cmd # NoCmd /\ owed = <<cmd>> /\ NoAnswer(Queue)
    BY <1>1 DEF InStep
<1>3. owed' = <<>> /\ Head(owed) = cmd
    BY <1>1, <1>2
<1>4. PICK l \in Lines :
        /\ Receive(l)
        /\ \/ Possible(cmd) /\ Does(cmd)
           \/ l.type = "ERROR"
    BY <1>3, LineTypes, TypesOfLines DEF ModuleAnswers
<1> DEFINE q == Queue
           r == Append(q, l)
<1>5. q \in Seq(Lines) /\ Queue' = r
    BY <1>4, QueueIs, QueueReceives
<1> HIDE DEF q, r
<1>6. /\ Len(q) \in Nat /\ Len(r) = Len(q) + 1 /\ r[Len(q) + 1] = l
      /\ \A n \in 1..Len(q) : r[n] = q[n]
      /\ \A n \in 1..Len(r) : n \in 1..Len(q) \/ n = Len(q) + 1
    BY <1>5, AppendLines DEF r
<1>7. \A n \in 1..Len(r) : r[n].type \in Answers => n = Len(q) + 1
    BY <1>2, <1>6 DEF NoAnswer, q
<1>8. Alone(Queue)'
    BY <1>5, <1>7 DEF Alone
<1>9. ASSUME NEW n \in 1..Len(r), r[n].type = Expected(cmd)
      PROVE  /\ cmd = Cmd("CIPSERVER=1") => open'
             /\ cmd = Cmd("CIPMUX=0") => conns' = {} /\ ~open' /\ n = Len(r)
    <2>1. n = Len(r) /\ r[n] = l
        BY <1>6, <1>7, <1>9, LineTypes
    <2>2. Possible(cmd) /\ Does(cmd)
        BY <1>4, <1>9, <2>1, LineTypes
    <2>3. cmd = Cmd("CIPSERVER=1") => open'
        BY <2>2, CmdTypes, Zenon DEF Does
    <2>4. ASSUME cmd = Cmd("CIPMUX=0")
          PROVE  conns' = {} /\ ~open'
        <3>1. cmd.name = "CIPMUX=0"
            BY <2>4, CmdTypes
        <3>2. conns = {} /\ ~open /\ conns' = conns
            BY <2>2, <3>1 DEF Possible, Does
        <3>3. cmd.name # "CIPSERVER=1"
            BY <3>1
        <3>4. ~open'
            BY <2>2, <3>2, <3>3, Zenon DEF Does
        <3>5. QED BY <3>2, <3>4
    <2>5. QED BY <2>1, <2>3, <2>4
<1>10. Truth(Queue)'
    <2>1. \A n : n = Len(r) => \A m \in n+1..Len(r) : FALSE
        BY <1>6
    <2>2. QED BY <1>1, <1>5, <1>9, <2>1 DEF Truth, Expected
<1>11. QED BY <1>1, <1>2, <1>3, <1>8, <1>10 DEF InStep

\* The module tells of a client.
LEMMA StepEvent ==
    ASSUME UartInv, InStep, ModuleEvent
    PROVE  InStep'
<1>1. PICK i \in Ids : ClientConnects(i) \/ ClientCloses(i) \/ ClientSends(i)
    BY DEF ModuleEvent
<1>2. UNCHANGED <<owed, cmd, open>>
    BY <1>1 DEF ClientConnects, ClientCloses, ClientSends, module
<1>3. PICK ev \in ClientTold \cup {"DATA"} : Receive(Event(ev, i))
    BY <1>1 DEF ClientConnects, ClientCloses, ClientSends, ClientTold
<1> DEFINE l == Event(ev, i)
           q == Queue
           r == Append(q, l)
<1>4. l \in Lines /\ l.type \notin Answers
    BY <1>3, LineTypes, TypesOfLines
<1> HIDE DEF l
<1>5. q \in Seq(Lines) /\ Queue' = r
    BY <1>3, <1>4, QueueIs, QueueReceives DEF l
<1> HIDE DEF q, r
<1>6. /\ Len(q) \in Nat /\ Len(r) = Len(q) + 1 /\ r[Len(q) + 1] = l
      /\ \A n \in 1..Len(q) : r[n] = q[n]
      /\ \A n \in 1..Len(r) : n \in 1..Len(q) \/ n = Len(q) + 1
    BY <1>4, <1>5, AppendLines DEF r
<1>7. \A n \in 1..Len(r) : r[n].type \in Answers => n \in 1..Len(q) /\ q[n].type = r[n].type
    BY <1>4, <1>6
<1>8. NoAnswer(q) => NoAnswer(Queue)'
    BY <1>5, <1>7 DEF NoAnswer
<1>9. Alone(q) => Alone(Queue)'
    BY <1>5, <1>7 DEF Alone
<1>10. ASSUME Truth(q)
       PROVE  Truth(Queue)'
    <2>1. SUFFICES ASSUME NEW n \in 1..Len(r), r[n].type = Expected(cmd)
                   PROVE  /\ cmd = Cmd("CIPSERVER=1") => open
                          /\ cmd # Cmd("CIPMUX=0")
        BY <1>2, <1>5 DEF Truth, Expected
    <2>2. n \in 1..Len(q) /\ q[n].type = Expected(cmd)
        BY <1>7, <2>1, LineTypes
    <2>3. ~(conns = {} /\ ~open)
        BY <1>1 DEF ClientConnects, ClientCloses, ClientSends
    <2>4. QED BY <1>10, <2>2, <2>3 DEF Truth
<1>11. QED BY <1>2, <1>8, <1>9, <1>10 DEF InStep, q

\* The main loop has dealt with a line, which is not the answer it waits for.
LEMMA StepPasses ==
    ASSUME UartInv, InStep, StoreCount, UNCHANGED <<owed, cmd, conns, open>>
    PROVE  InStep'
<1> DEFINE q == Queue
           r == Tail(q)
<1>1. q \in Seq(Lines) /\ q # <<>> /\ Queue' = r
    BY QueueIs, QueueShrinks
<1> HIDE DEF q, r
<1>2. /\ Len(q) \in Nat \ {0} /\ Len(r) = Len(q) - 1
      /\ \A n \in 1..Len(r) : n + 1 \in 1..Len(q) /\ r[n] = q[n + 1]
    BY <1>1, TailLines DEF r
<1>3. NoAnswer(q) => NoAnswer(r)
    BY <1>2 DEF NoAnswer
<1>4. Alone(q) => Alone(r)
    <2>1. SUFFICES ASSUME Alone(q), NEW n \in 1..Len(r), NEW m \in 1..Len(r),
                          r[n].type \in Answers, r[m].type \in Answers
                   PROVE  n = m
        BY DEF Alone
    <2>2. n + 1 \in 1..Len(q) /\ m + 1 \in 1..Len(q) /\ r[n] = q[n + 1] /\ r[m] = q[m + 1]
        BY <1>2
    <2>3. n + 1 = m + 1
        BY <2>1, <2>2 DEF Alone
    <2>4. QED BY <2>3
<1>5. Truth(q) => Truth(r)
    <2>1. SUFFICES ASSUME Truth(q), NEW n \in 1..Len(r), r[n].type = Expected(cmd)
                   PROVE  /\ cmd = Cmd("CIPSERVER=1") => open
                          /\ cmd = Cmd("CIPMUX=0") => /\ conns = {} /\ ~open
                                                      /\ \A m \in n+1..Len(r) : r[m].type \notin ClientTold
        BY DEF Truth
    <2>2. n + 1 \in 1..Len(q) /\ q[n + 1].type = Expected(cmd)
        BY <1>2, <2>1
    <2>3. \A m \in n+1..Len(r) : m \in 1..Len(r) /\ m + 1 \in n+1+1..Len(q)
        BY <1>2
    <2>4. \A m \in n+1..Len(r) : r[m] = q[m + 1] /\ m + 1 \in (n+1)+1..Len(q)
        BY <1>2, <2>3
    <2>5. QED BY <2>1, <2>2, <2>4 DEF Truth
<1>6. NoAnswer(Queue)' = NoAnswer(r) /\ Alone(Queue)' = Alone(r) /\ Truth(Queue)' = Truth(r)
    BY <1>1 DEF NoAnswer, Alone, Truth, Expected
<1>7. QED BY <1>3, <1>4, <1>5, <1>6 DEF InStep, q

\* The answer has come.
LEMMA StepAnswered ==
    ASSUME UartInv, InStep, wifi_answered
    PROVE  InStep' /\ Queue # <<>> /\ Queue[1].type = Expected(cmd) /\ Alone(Queue) /\ Truth(Queue)
<1>1. cmd # NoCmd /\ cmd' = NoCmd /\ owed' = owed /\ StoreCount /\ line.type = Expected(cmd)
    BY DEF wifi_answered, module
<1> DEFINE q == Queue
           r == Tail(q)
<1>2. q \in Seq(Lines) /\ q # <<>> /\ Queue' = r /\ line = Head(q)
    BY <1>1, QueueIs, QueueShrinks
<1> HIDE DEF q, r
<1>3. /\ Len(q) \in Nat \ {0} /\ Len(r) = Len(q) - 1 /\ Head(q) = q[1]
      /\ \A n \in 1..Len(r) : n + 1 \in 1..Len(q) /\ r[n] = q[n + 1]
    BY <1>2, TailLines DEF r
<1>4. 1 \in 1..Len(q) /\ q[1].type = Expected(cmd) /\ q[1].type \in Answers
    BY <1>1, <1>2, <1>3, LineTypes
<1>5. ~NoAnswer(q)
    BY <1>4 DEF NoAnswer
<1>6. owed = <<>> /\ Alone(q) /\ Truth(q)
    BY <1>1, <1>5 DEF InStep, q
<1>7. NoAnswer(r)
    <2>1. SUFFICES ASSUME NEW n \in 1..Len(r), r[n].type \in Answers
                   PROVE  FALSE
        BY DEF NoAnswer
    <2>2. n + 1 \in 1..Len(q) /\ q[n + 1].type \in Answers
        BY <1>3, <2>1
    <2>3. n + 1 = 1
        BY <1>4, <1>6, <2>2 DEF Alone
    <2>4. QED BY <2>3
<1>8. QED BY <1>1, <1>2, <1>4, <1>6, <1>7, Rests DEF q

LEMMA StepKeepsType ==
    ASSUME PlanInv, owed \in Seq(Commands), Len(owed) <= MaxOwed, [Next]_vars
    PROVE  owed' \in Seq(Commands) /\ Len(owed') <= MaxOwed
<1>1. Len(owed) \in Nat /\ MaxOwed \in Nat
    BY LenProperties, DriverAssumption
<1>2. CASE SendNext
    <2>1. /\ \/ Len(owed) < MaxOwed /\ owed' = Append(owed, Head(plan))
             \/ owed' = owed
          /\ op # "none" /\ plan # <<>>
        BY <1>2 DEF SendNext, wifi_send_command
    <2>2. Head(plan) \in Commands
        BY <2>1, HeadOfPlan
    <2>3. QED BY <1>1, <2>1, <2>2, AppendProperties
<1>3. CASE ModuleAnswers
    BY <1>1, <1>3, HeadTailProperties DEF ModuleAnswers
<1>4. CASE wifimgr_reset
    <2>1. owed' = <<>>
        BY <1>4 DEF wifimgr_reset, wifi_reset
    <2>2. QED BY <1>1, <2>1, EmptySeq
<1>5. CASE \/ Watch \/ OnClient \/ OnOther \/ Answered \/ Waiting \/ Ends \/ Fails
           \/ wifimgr_broadcast_bytes \/ wifimgr_get_time \/ ModuleEvent \/ UNCHANGED vars
    <2>1. owed' = owed
        BY <1>5 DEF Watch, OnClient, OnConnected, OnClosed, OnData, OnOther, OnLine, Answered, wifi_answered,
                    NtpAnswered, Waiting, TakeLine, RxCleared, Discard, Ends, Fails, wifi_timeout, NtpTimeout,
                    wifimgr_broadcast_bytes, wifimgr_get_time, Starts, ModuleEvent, ClientConnects,
                    ClientCloses, ClientSends, module, driver, vars
    <2>2. QED BY <2>1
<1>6. QED
    BY <1>2, <1>3, <1>4, <1>5, Zenon DEF Next, Main, Module

LEMMA DialogueStep ==
    ASSUME UartInv, PlanInv, DialogueInv, [Next]_vars
    PROVE  DialogueInv'
<1>1. SUFFICES ASSUME ~late'
               PROVE  InStep'
    BY StepKeepsType DEF DialogueInv
<1>2. CASE ModuleAnswers
    BY <1>1, <1>2, StepAnswers DEF ModuleAnswers, DialogueInv
<1>3. CASE ModuleEvent
    BY <1>1, <1>3, StepEvent DEF ModuleEvent, ClientConnects, ClientCloses, ClientSends, DialogueInv
<1>4. CASE OnClient \/ OnOther \/ Discard
    <2>1. StoreCount /\ UNCHANGED <<owed, cmd, conns, open, late>>
        BY <1>4 DEF OnClient, OnConnected, OnClosed, OnData, OnOther, OnLine, Discard, module
    <2>2. QED BY <1>1, <2>1, StepPasses DEF DialogueInv
<1>5. CASE wifi_answered
    BY <1>1, <1>5, StepAnswered DEF wifi_answered, DialogueInv
<1>6. CASE NtpAnswered
    <2>1. /\ cmd # NoCmd /\ cmd' = NoCmd /\ owed' = owed /\ late' = late /\ rx = <<Answer("IPD")>>
          /\ uartengine_clear_rx
        BY <1>6, CmdTypes DEF NtpAnswered, module
    <2>2. Queue = rx /\ Queue' = <<>>
        BY <2>1, QueueShrinks
    <2>3. rx[1].type \in Answers /\ 1 \in 1..Len(rx)
        <3>1. rx[1] = Answer("IPD") /\ Len(rx) = 1
            BY <2>1
        <3>2. rx[1].type \in Answers
            BY <3>1, TypesOfLines DEF Answers
        <3>3. 1 \in 1..1
            OBVIOUS
        <3>4. QED BY <3>1, <3>2, <3>3
    <2>4. ~NoAnswer(Queue)
        BY <2>2, <2>3 DEF NoAnswer
    <2>5. owed = <<>>
        BY <1>1, <2>1, <2>4 DEF DialogueInv, InStep
    <2>6. NoAnswer(<<>>)
        BY EmptySeq DEF NoAnswer
    <2>7. QED BY <2>1, <2>2, <2>5, <2>6, Rests
<1>7. CASE NtpTimeout \/ wifimgr_reset
    <2>1. cmd' = NoCmd /\ uartengine_clear_rx
        BY <1>7 DEF NtpTimeout, wifimgr_reset, wifi_reset
    <2>2. owed' = <<>>
        <3>1. CASE NtpTimeout
            <4>1. owed' = owed
                BY <3>1 DEF NtpTimeout, module
            <4>2. owed = <<>>
                BY <1>1, <3>1, Zenon DEF NtpTimeout
            <4>3. QED BY <4>1, <4>2
        <3>2. CASE wifimgr_reset
            BY <3>2 DEF wifimgr_reset, wifi_reset
        <3>3. QED BY <1>7, <3>1, <3>2
    <2>3. Queue' = <<>> /\ NoAnswer(<<>>)
        BY <2>1, QueueShrinks, EmptySeq DEF NoAnswer
    <2>4. QED BY <2>1, <2>2, <2>3, Rests
<1>8. CASE wifi_timeout
    <2>1. cmd' = NoCmd /\ reading = "no" /\ UNCHANGED <<uart, owed>>
        BY <1>8 DEF wifi_timeout, module
    <2>2. owed = <<>> /\ ~AnswersWait
        BY <1>1, <1>8, Zenon DEF wifi_timeout
    <2>3. Queue = rx /\ Queue' = Queue
        BY <2>1, QueueIs, QueueKept
    <2>4. NoAnswer(Queue)
        BY <2>2, <2>3 DEF NoAnswer, AnswersWait
    <2>5. QED BY <2>1, <2>2, <2>3, <2>4, Rests
<1>9. CASE SendNext
    <2>1. /\ op # "none" /\ plan # <<>> /\ cmd = NoCmd /\ cmd' = Head(plan)
          /\ UNCHANGED <<uart, late>>
          /\ owed' = Append(owed, Head(plan)) \/ owed # <<>>
        BY <1>9 DEF SendNext, wifi_send_command
    <2>2. owed = <<>> /\ NoAnswer(Queue)
        BY <1>1, <2>1 DEF DialogueInv, InStep
    <2>3. cmd' # NoCmd
        BY <2>1, HeadOfPlan
    <2>4. owed' = <<cmd'>>
        BY <2>1, <2>2
    <2>5. NoAnswer(Queue)'
        BY <2>1, <2>2, QueueKept DEF NoAnswer
    <2>6. QED BY <2>3, <2>4, <2>5 DEF InStep
<1>10. CASE \/ Watch \/ TakeLine \/ RxCleared \/ Ends
            \/ wifimgr_broadcast_bytes \/ wifimgr_get_time \/ UNCHANGED vars
    <2>1. UNCHANGED <<owed, cmd, conns, open, late>>
        BY <1>10 DEF Watch, TakeLine, RxCleared, Ends, wifimgr_broadcast_bytes, wifimgr_get_time, Starts,
                     module, driver, vars
    <2>2. uartengine_can_read_string \/ ClearCount \/ UNCHANGED uart
        BY <1>10 DEF Watch, TakeLine, RxCleared, Ends, wifimgr_broadcast_bytes, wifimgr_get_time, Starts,
                     driver, vars
    <2>3. QED BY <1>1, <2>1, <2>2, QueueKept, InStepKept DEF DialogueInv
<1>11. QED
    BY <1>2, <1>3, <1>4, <1>5, <1>6, <1>7, <1>8, <1>9, <1>10, Zenon
       DEF Next, Main, Answered, Waiting, Fails, Module

-----------------------------------------------------------------------------
(* The server. *)

LEMMA RunStep ==
    ASSUME UartInv, PlanInv, DialogueInv, RunInv, [Next]_vars
    PROVE  RunInv'
<1>1. CASE ModuleAnswers /\ UNCHANGED <<manager, followed>>
    <2>1. UNCHANGED <<op, plan, cmd, late, server_running>>
        BY <1>1 DEF ModuleAnswers, manager
    <2>2. ASSUME ~late, open, op \in {"none", "serve"} \/ cmd = NoCmd
          PROVE  open'
        <3>1. owed # <<>> /\ InStep
            BY <1>1, <2>2 DEF ModuleAnswers, DialogueInv
        <3>2. cmd # NoCmd /\ owed = <<cmd>>
            BY <3>1 DEF InStep
        <3>3. Head(owed) = cmd
            BY <3>2
        <3>4. op = "serve"
            BY <2>2, <3>2 DEF PlanInv
        <3>5. cmd.name # "CIPSERVER=0"
            BY <3>2, <3>4, CmdTypes DEF PlanInv
        <3>6. Does(cmd) \/ open' = open
            BY <1>1, <3>3 DEF ModuleAnswers
        <3>7. QED BY <2>2, <3>5, <3>6, Zenon DEF Does
    <2>3. QED BY <2>1, <2>2 DEF RunInv
<1>2. CASE Ends
    <2>1. /\ op # "none" /\ op # "get_time_nok" /\ plan = <<>> /\ cmd = NoCmd /\ op' = "none"
          /\ UNCHANGED <<open, late>>
          /\ op = "serve" => server_running' = server_running
        BY <1>2 DEF Ends, driver, module
    <2>2. QED BY <2>1 DEF RunInv, PlanInv, Ops, LongOps
<1>3. CASE Answered
    <2>1. /\ cmd # NoCmd /\ cmd' = NoCmd /\ UNCHANGED <<op, plan, open, late>>
        BY <1>3, CmdTypes DEF Answered, wifi_answered, NtpAnswered, module
    <2>2. server_running' => server_running
        BY <1>3, Zenon DEF Answered
    <2>3. ASSUME op \in LongOps, plan = <<>>, ~late
          PROVE  open
        <3>1. cmd = Cmd("CIPSERVER=1")
            BY <2>1, <2>3 DEF PlanInv
        <3>2. cmd.name = "CIPSERVER=1"
            BY <3>1, CmdTypes
        <3>3. wifi_answered
            BY <1>3, <3>2, CmdTypes DEF Answered, NtpAnswered
        <3>4. Queue # <<>> /\ Queue[1].type = Expected(cmd) /\ Truth(Queue)
            BY <2>3, <3>3, StepAnswered DEF DialogueInv
        <3>5. Queue \in Seq(Lines)
            BY QueueIs
        <3>6. Len(Queue) \in Nat \ {0}
            BY <3>4, <3>5, EmptySeq
        <3>7. 1 \in 1..Len(Queue)
            BY <3>6
        <3>8. QED BY <3>1, <3>4, <3>7 DEF Truth
    <2>4. QED BY <2>1, <2>2, <2>3 DEF RunInv
<1>4. CASE Fails
    <2>1. /\ cmd # NoCmd /\ cmd' = NoCmd /\ UNCHANGED <<open, server_running>> /\ OnFailure(cmd)
        BY <1>4, CmdTypes DEF Fails, wifi_timeout, NtpTimeout, module
    <2>2. ~late' => ~late
        BY <1>4, Zenon DEF Fails, wifi_timeout, NtpTimeout
    <2>3. CASE op = "serve" /\ op' = op
        BY <2>1, <2>2, <2>3 DEF RunInv, LongOps
    <2>4. CASE cmd.name = "CIPCLOSE" /\ UNCHANGED <<op, plan>>
        <3>1. cmd # Cmd("CIPSERVER=1")
            BY <2>4, CmdTypes
        <3>2. op \notin LongOps \/ plan # <<>>
            BY <2>1, <3>1 DEF PlanInv
        <3>3. QED BY <2>1, <2>2, <2>4, <3>2 DEF RunInv
    <2>5. CASE op' = "get_time_nok"
        BY <2>5 DEF RunInv, LongOps
    <2>6. CASE op' = "init_again" /\ plan' = Again(cmd, op)
        <3>1. plan' # <<>>
            BY <2>6, PlanAgain
        <3>2. QED BY <2>6, <3>1 DEF RunInv
    <2>7. CASE op \in {"init", "init_again"} /\ GiveUp
        BY <2>1, <2>7 DEF GiveUp, RunInv, PlanInv, LongOps
    <2>8. QED BY <2>1, <2>3, <2>4, <2>5, <2>6, <2>7, Zenon DEF OnFailure, Again
<1>5. CASE SendNext
    <2>1. cmd' # NoCmd
        BY <1>5, HeadOfPlan DEF SendNext, wifi_send_command
    <2>2. UNCHANGED <<op, open, late, server_running>>
        BY <1>5 DEF SendNext, wifi_send_command
    <2>3. QED BY <2>1, <2>2 DEF RunInv
<1>6. CASE wifimgr_reset \/ wifimgr_get_time
    <2>1. op' \in {"init", "get_time"} /\ plan' # <<>>
        BY <1>6, LongPlans DEF wifimgr_reset, wifimgr_get_time, Starts
    <2>2. QED BY <2>1 DEF RunInv
<1>7. CASE OnClient \/ wifimgr_broadcast_bytes
    <2>1. op = "none" /\ op' \in {"none", "serve"} /\ UNCHANGED <<open, late, server_running>>
        BY <1>7 DEF OnClient, OnConnected, OnClosed, OnData, OnLine, Serve, module, wifimgr_broadcast_bytes,
                    Starts, AtRest, driver
    <2>2. QED BY <2>1 DEF RunInv, LongOps
<1>8. CASE \/ Watch \/ OnOther \/ Waiting \/ UNCHANGED vars
           \/ ModuleEvent /\ UNCHANGED <<manager, followed>>
    <2>1. UNCHANGED <<op, plan, cmd, open, late, server_running>>
        BY <1>8 DEF Watch, OnOther, OnLine, Waiting, TakeLine, RxCleared, Discard, ModuleEvent, ClientConnects,
                    ClientCloses, ClientSends, module, manager, driver, vars
    <2>2. QED BY <2>1 DEF RunInv
<1>9. QED
    BY <1>1, <1>2, <1>3, <1>4, <1>5, <1>6, <1>7, <1>8, Zenon DEF Next, Main, Module

-----------------------------------------------------------------------------
(* The table and the lines that tell of clients. *)

\* One line more.
LEMMA LeadsOn ==
    ASSUME NEW q \in Seq(Lines), NEW l \in Lines, NEW r, r = Append(q, l), NEW i,
           NEW from, NEW to, NEW after, Leads(q, from, to, i),
           About(l, i) => (l.type = "CONNECT" <=> i \notin to) /\ (l.type = "CONNECT" <=> i \in after),
           ~About(l, i) => (i \in to <=> i \in after)
    PROVE  Leads(r, from, after, i)
<1> DEFINE z == Len(q) + 1
<1>1. /\ Len(q) \in Nat /\ Len(r) = z /\ r[z] = l
      /\ \A n \in 1..Len(q) : n \in 1..Len(r) /\ r[n] = q[n]
      /\ \A n \in 1..Len(r) : n \in 1..Len(q) \/ n = z
    BY AppendLines
<1>2. \A a, b : a \in 1..z /\ b \in 0..Len(q) => (Quiet(r, a, b, i) <=> Quiet(q, a, b, i))
    <2>1. SUFFICES ASSUME NEW a \in 1..z, NEW b \in 0..Len(q), NEW m \in a..b
                   PROVE  r[m] = q[m]
        BY DEF Quiet
    <2>2. m \in 1..Len(q)
        BY <1>1
    <2>3. QED BY <1>1, <2>2
<1>3. \A n \in 1..z : Quiet(r, n, z, i) => Quiet(q, n, Len(q), i) /\ ~About(l, i)
    BY <1>1 DEF Quiet
<1>4. \A n \in 1..z : Quiet(q, n, Len(q), i) /\ ~About(l, i) => Quiet(r, n, z, i)
    BY <1>1 DEF Quiet
<1>5. Begins(r, from, i)
    <2>1. SUFFICES ASSUME NEW n \in 1..z, About(r[n], i), Quiet(r, 1, n - 1, i)
                   PROVE  r[n].type = "CONNECT" <=> i \notin from
        BY <1>1 DEF Begins
    <2>2. Quiet(q, 1, n - 1, i)
        BY <1>1, <1>2, <2>1
    <2>3. CASE n \in 1..Len(q)
        BY <1>1, <2>1, <2>2, <2>3 DEF Leads, Begins
    <2>4. CASE n = z
        <3>1. Quiet(q, 1, Len(q), i)
            BY <1>1, <2>2, <2>4
        <3>2. i \in from <=> i \in to
            BY <3>1 DEF Leads, Leaves, Quiet
        <3>3. QED BY <1>1, <2>1, <2>4, <3>2
    <2>5. QED BY <1>1, <2>3, <2>4
<1>6. Alternates(r, i)
    <2>1. SUFFICES ASSUME NEW n \in 1..z, NEW k \in 1..z, n < k, About(r[n], i), About(r[k], i),
                          Quiet(r, n + 1, k - 1, i)
                   PROVE  r[n].type = "CONNECT" <=> r[k].type = "CLOSED"
        BY <1>1 DEF Alternates
    <2>2. n \in 1..Len(q) /\ About(q[n], i) /\ Quiet(q, n + 1, k - 1, i)
        BY <1>1, <1>2, <2>1
    <2>3. CASE k \in 1..Len(q)
        BY <1>1, <2>1, <2>2, <2>3 DEF Leads, Alternates
    <2>4. CASE k = z
        <3>1. Quiet(q, n + 1, Len(q), i)
            BY <1>1, <2>2, <2>4
        <3>2. PICK w \in 1..Len(q) : /\ About(q[w], i) /\ Quiet(q, w + 1, Len(q), i)
                                     /\ q[w].type = "CONNECT" <=> i \in to
            BY <2>2 DEF Leads, Leaves, Quiet
        <3>3. ~(w < n) /\ ~(n < w)
            BY <2>2, <3>1, <3>2 DEF Quiet
        <3>4. q[n].type = "CONNECT" <=> i \in to
            BY <3>2, <3>3
        <3>5. l.type = "CONNECT" <=> i \notin to
            BY <1>1, <2>1, <2>4
        <3>6. l.type = "CLOSED" <=> l.type # "CONNECT"
            BY <1>1, <2>1, <2>4 DEF About, ClientTold
        <3>7. QED BY <1>1, <2>2, <2>4, <3>4, <3>5, <3>6
    <2>5. QED BY <1>1, <2>3, <2>4
<1>7. Leaves(r, from, after, i)
    <2>1. CASE About(l, i)
        <3>1. Quiet(r, z + 1, z, i) /\ z \in 1..z
            BY <1>1 DEF Quiet
        <3>2. About(r[z], i) /\ (r[z].type = "CONNECT" <=> i \in after)
            BY <1>1, <2>1
        <3>3. QED BY <1>1, <3>1, <3>2 DEF Leaves
    <2>2. CASE ~About(l, i)
        <3>1. CASE Quiet(q, 1, Len(q), i) /\ (i \in from <=> i \in to)
            <4>1. 1 \in 1..z
                BY <1>1
            <4>2. Quiet(r, 1, z, i)
                BY <1>4, <2>2, <3>1, <4>1
            <4>3. QED BY <1>1, <2>2, <3>1, <4>2 DEF Leaves
        <3>2. ASSUME NEW n \in 1..Len(q), About(q[n], i), Quiet(q, n + 1, Len(q), i),
                     q[n].type = "CONNECT" <=> i \in to
              PROVE  Leaves(r, from, after, i)
            <4>1. n + 1 \in 1..z /\ n \in 1..z /\ r[n] = q[n]
                BY <1>1
            <4>2. Quiet(r, n + 1, z, i)
                BY <1>4, <2>2, <3>2, <4>1
            <4>3. QED BY <1>1, <2>2, <3>2, <4>1, <4>2 DEF Leaves
        <3>3. QED BY <3>1, <3>2 DEF Leads, Leaves
    <2>3. QED BY <2>1, <2>2
<1>8. QED BY <1>5, <1>6, <1>7 DEF Leads

\* One line less.
LEMMA LeadsOff ==
    ASSUME NEW q \in Seq(Lines), q # <<>>, NEW r, r = Tail(q), NEW i,
           NEW from, NEW to, NEW before, Leads(q, from, to, i),
           About(q[1], i) => (q[1].type = "CONNECT" <=> i \in before),
           ~About(q[1], i) => (i \in from <=> i \in before)
    PROVE  Leads(r, before, to, i)
<1>1. /\ Len(q) \in Nat \ {0} /\ Len(r) = Len(q) - 1
      /\ \A n \in 1..Len(r) : n + 1 \in 1..Len(q) /\ r[n] = q[n + 1]
    BY TailLines
<1>2. \A n \in 2..Len(q) : n - 1 \in 1..Len(r) /\ r[n - 1] = q[n]
    <2>1. \A n \in 2..Len(q) : n - 1 \in 1..Len(r) /\ (n - 1) + 1 = n
        BY <1>1
    <2>2. QED BY <1>1, <2>1
<1>3. ASSUME NEW a \in 1..Len(q), NEW b \in 0..Len(r)
      PROVE  Quiet(r, a, b, i) <=> Quiet(q, a + 1, b + 1, i)
    <2>1. ASSUME Quiet(r, a, b, i), NEW m \in a + 1..b + 1
          PROVE  ~About(q[m], i)
        <3>1. m \in 2..Len(q) /\ m - 1 \in a..b
            BY <1>1, <2>1
        <3>2. r[m - 1] = q[m]
            BY <1>2, <3>1
        <3>3. QED BY <2>1, <3>1, <3>2 DEF Quiet
    <2>2. ASSUME Quiet(q, a + 1, b + 1, i), NEW m \in a..b
          PROVE  ~About(r[m], i)
        <3>1. m \in 1..Len(r) /\ m + 1 \in a + 1..b + 1
            BY <1>1, <2>2
        <3>2. r[m] = q[m + 1]
            BY <1>1, <3>1
        <3>3. QED BY <2>2, <3>1, <3>2 DEF Quiet
    <2>3. QED BY <2>1, <2>2 DEF Quiet
<1>4. \A b \in 0..Len(q) : Quiet(q, 2, b, i) /\ ~About(q[1], i) => Quiet(q, 1, b, i)
    <2>1. \A b \in 0..Len(q) : \A m \in 1..b : m = 1 \/ m \in 2..b
        BY <1>1
    <2>2. QED BY <2>1 DEF Quiet
<1>5. Begins(r, before, i)
    <2>1. SUFFICES ASSUME NEW n \in 1..Len(r), About(r[n], i), Quiet(r, 1, n - 1, i)
                   PROVE  r[n].type = "CONNECT" <=> i \notin before
        BY DEF Begins
    <2>2. n + 1 \in 1..Len(q) /\ r[n] = q[n + 1] /\ n \in 0..Len(q) /\ 1 < n + 1 /\ 1 \in 1..Len(q)
        BY <1>1
    <2>3. Quiet(q, 2, n, i)
        <3>1. 1 \in 1..Len(q) /\ n - 1 \in 0..Len(r) /\ (n - 1) + 1 = n /\ 1 + 1 = 2
            BY <1>1
        <3>2. Quiet(q, 1 + 1, (n - 1) + 1, i)
            BY <1>3, <2>1, <3>1
        <3>3. QED BY <3>1, <3>2
    <2>4. CASE ~About(q[1], i)
        <3>1. Quiet(q, 1, n, i) /\ (n + 1) - 1 = n
            BY <1>4, <2>2, <2>3, <2>4
        <3>2. q[n + 1].type = "CONNECT" <=> i \notin from
            BY <2>1, <2>2, <3>1 DEF Leads, Begins
        <3>3. QED BY <2>2, <2>4, <3>2
    <2>5. CASE About(q[1], i)
        <3>1. Quiet(q, 1 + 1, (n + 1) - 1, i)
            BY <2>2, <2>3
        <3>2. q[1].type = "CONNECT" <=> q[n + 1].type = "CLOSED"
            BY <2>1, <2>2, <2>5, <3>1 DEF Leads, Alternates
        <3>3. q[n + 1].type = "CLOSED" <=> q[n + 1].type # "CONNECT"
            BY <2>1, <2>2 DEF About, ClientTold
        <3>4. QED BY <2>2, <2>5, <3>2, <3>3
    <2>6. QED BY <2>4, <2>5
<1>6. Alternates(r, i)
    <2>1. SUFFICES ASSUME NEW n \in 1..Len(r), NEW k \in 1..Len(r), n < k, About(r[n], i), About(r[k], i),
                          Quiet(r, n + 1, k - 1, i)
                   PROVE  r[n].type = "CONNECT" <=> r[k].type = "CLOSED"
        BY DEF Alternates
    <2>2. /\ n + 1 \in 1..Len(q) /\ k + 1 \in 1..Len(q) /\ r[n] = q[n + 1] /\ r[k] = q[k + 1]
        BY <1>1
    <2>3. n + 1 < k + 1 /\ k - 1 \in 0..Len(r) /\ (k - 1) + 1 = (k + 1) - 1
        BY <1>1, <2>1
    <2>4. Quiet(q, (n + 1) + 1, (k + 1) - 1, i)
        BY <1>3, <2>1, <2>2, <2>3
    <2>5. QED BY <2>1, <2>2, <2>3, <2>4 DEF Leads, Alternates
<1>7. Leaves(r, before, to, i)
    <2>1. 1 \in 1..Len(q) /\ Len(r) \in 0..Len(r) /\ Len(r) + 1 = Len(q) /\ Len(q) \in 0..Len(q)
        BY <1>1
    <2>2. CASE Quiet(q, 1, Len(q), i) /\ (i \in from <=> i \in to)
        <3>1. ~About(q[1], i) /\ Quiet(q, 1 + 1, Len(q), i)
            BY <2>1, <2>2 DEF Quiet
        <3>2. Quiet(r, 1, Len(r), i)
            BY <1>3, <2>1, <3>1
        <3>3. QED BY <2>2, <3>1, <3>2 DEF Leaves
    <2>3. ASSUME NEW n \in 1..Len(q), About(q[n], i), Quiet(q, n + 1, Len(q), i),
                 q[n].type = "CONNECT" <=> i \in to
          PROVE  Leaves(r, before, to, i)
        <3>1. CASE n = 1
            <4>1. Quiet(r, 1, Len(r), i)
                BY <1>3, <2>1, <2>3, <3>1
            <4>2. QED BY <2>3, <3>1, <4>1 DEF Leaves
        <3>2. CASE n # 1
            <4>1. n \in 2..Len(q) /\ n - 1 \in 1..Len(r) /\ (n - 1) + 1 \in 1..Len(q)
                BY <1>1, <2>3, <3>2
            <4>2. r[n - 1] = q[n] /\ ((n - 1) + 1) + 1 = n + 1
                BY <1>2, <4>1
            <4>3. Quiet(r, (n - 1) + 1, Len(r), i)
                BY <1>3, <2>1, <2>3, <4>1, <4>2
            <4>4. QED BY <2>3, <4>1, <4>2, <4>3 DEF Leaves
        <3>3. QED BY <3>1, <3>2
    <2>4. QED BY <2>2, <2>3 DEF Leads, Leaves
<1>8. QED BY <1>5, <1>6, <1>7 DEF Leads

\* No line tells of a client.
Silent(q) == \A n \in 1..Len(q) : q[n].type \notin ClientTold

LEMMA LeadsNowhere ==
    ASSUME NEW q \in Seq(Lines), NEW i, NEW from, NEW to, Leads(q, from, to, i), Silent(q)
    PROVE  (i \in from <=> i \in to) /\ Leads(<<>>, from, to, i)
<1>1. Quiet(q, 1, Len(q), i)
    BY DEF Silent, Quiet, About
<1>2. i \in from <=> i \in to
    BY <1>1 DEF Leads, Leaves, Quiet
<1>3. Len(<<>>) = 0
    BY EmptySeq
<1>4. QED BY <1>2, <1>3 DEF Leads, Begins, Alternates, Leaves, Quiet

LEMMA LeadsThere ==
    ASSUME NEW i, NEW from, NEW to, i \in from <=> i \in to
    PROVE  Leads(<<>>, from, to, i)
BY EmptySeq DEF Leads, Begins, Alternates, Leaves, Quiet

\* The first line.
LEMMA FirstLine ==
    ASSUME UartInv, StoreCount
    PROVE  /\ Queue \in Seq(Lines) /\ Queue # <<>> /\ line = Queue[1] /\ line \in Lines
           /\ Queue' = Tail(Queue) /\ 1 \in 1..Len(Queue)
<1>1. Queue \in Seq(Lines) /\ Queue # <<>> /\ line = Head(Queue) /\ Queue' = Tail(Queue)
    BY QueueIs, QueueShrinks
<1>2. Len(Queue) \in Nat \ {0} /\ Head(Queue) = Queue[1]
    BY <1>1, TailLines
<1>3. line \in Lines
    BY DEF StoreCount, UartInv
<1>4. 1 \in 1..Len(Queue)
    BY <1>2
<1>5. QED BY <1>1, <1>2, <1>3, <1>4

Told == \A i \in Ids : Leads(Queue, connected, conns, i)

LEMMA ToldNow ==
    ASSUME NEW q, NEW from, NEW to, Queue' = q, connected' = from, conns' = to,
           \A i \in Ids : Leads(q, from, to, i)
    PROVE  Told'
BY DEF Told, Leads, Begins, Alternates, Leaves, Quiet

LEMMA ToldKept ==
    ASSUME Told, Queue' = Queue, UNCHANGED <<connected, conns>>
    PROVE  Told'
BY ToldNow DEF Told

\* A line that tells of no client is dealt with.
LEMMA ToldPasses ==
    ASSUME UartInv, Told, StoreCount, line.type \notin ClientTold, UNCHANGED <<connected, conns>>
    PROVE  Told'
<1>1. SUFFICES ASSUME NEW i \in Ids
               PROVE  Leads(Tail(Queue), connected, conns, i)
    BY FirstLine, ToldNow
<1>2. Leads(Queue, connected, conns, i)
    BY DEF Told
<1>3. ~About(Queue[1], i)
    BY FirstLine DEF About
<1>4. Queue \in Seq(Lines) /\ Queue # <<>>
    BY FirstLine
<1>5. QED BY <1>2, <1>3, <1>4, LeadsOff

\* The lines are cleared when none of them tells of a client.
LEMMA ToldCleared ==
    ASSUME UartInv, Told, uartengine_clear_rx, Silent(rx), UNCHANGED <<connected, conns>>
    PROVE  Told'
<1>1. Queue = rx /\ Queue' = <<>> /\ Queue \in Seq(Lines)
    BY QueueIs, QueueShrinks
<1>2. \A i \in Ids : Leads(<<>>, connected, conns, i)
    BY <1>1, LeadsNowhere DEF Told
<1>3. QED BY <1>1, <1>2, ToldNow

\* The module tells of a client or answers.
LEMMA ToldReceives ==
    ASSUME UartInv, Told, ModuleAnswers \/ ModuleEvent, UNCHANGED connected
    PROVE  Told'
<1>1. CASE ModuleAnswers
    <2>1. PICK l \in Lines : Receive(l) /\ l.type \notin ClientTold
        <3>1. \A w \in Answers : Answer(w).type \notin ClientTold
            BY TypesOfLines
        <3>2. "ERROR" \in Answers /\ \A c : Expected(c) \in Answers
            BY LineTypes DEF Answers
        <3>3. QED BY <1>1, <3>1, <3>2, LineTypes DEF ModuleAnswers
    <2>2. conns' = conns
        BY <1>1 DEF ModuleAnswers, Does
    <2>3. Queue' = Append(Queue, l) /\ Queue \in Seq(Lines)
        BY <2>1, QueueIs, QueueReceives
    <2>4. \A i \in Ids : Leads(Queue, connected, conns, i) /\ ~About(l, i)
        BY <2>1 DEF Told, About
    <2>5. \A i \in Ids : Leads(Append(Queue, l), connected, conns, i)
        BY <2>3, <2>4, LeadsOn
    <2>6. QED BY <2>2, <2>3, <2>5, ToldNow
<1>2. ASSUME NEW i \in Ids, ClientConnects(i) \/ ClientCloses(i) \/ ClientSends(i)
      PROVE  Told'
    <2>1. PICK l \in Lines :
            /\ Receive(l) /\ l.id = i
            /\ \/ l.type = "CONNECT" /\ i \notin conns /\ conns' = conns \cup {i}
               \/ l.type = "CLOSED" /\ i \in conns /\ conns' = conns \ {i}
               \/ l.type = "DATA" /\ conns' = conns
        <3>1. \A ev \in {"CONNECT", "CLOSED", "DATA"} : Event(ev, i) \in Lines
            BY LineTypes DEF ClientTold
        <3>2. CASE ClientConnects(i)
            BY <3>1, <3>2, TypesOfLines DEF ClientConnects
        <3>3. CASE ClientCloses(i)
            BY <3>1, <3>3, TypesOfLines DEF ClientCloses
        <3>4. CASE ClientSends(i)
            BY <3>1, <3>4, TypesOfLines DEF ClientSends, module
        <3>5. QED BY <1>2, <3>2, <3>3, <3>4
    <2>2. Queue' = Append(Queue, l) /\ Queue \in Seq(Lines)
        BY <2>1, QueueIs, QueueReceives
    <2>3. ASSUME NEW j \in Ids
          PROVE  Leads(Append(Queue, l), connected, conns', j)
        <3>1. Leads(Queue, connected, conns, j)
            BY DEF Told
        <3>2. About(l, j) => (l.type = "CONNECT" <=> j \notin conns) /\ (l.type = "CONNECT" <=> j \in conns')
            BY <2>1 DEF About, ClientTold
        <3>3. ~About(l, j) => (j \in conns <=> j \in conns')
            BY <2>1 DEF About, ClientTold
        <3>4. QED BY <2>2, <3>1, <3>2, <3>3, LeadsOn
    <2>4. QED BY <2>2, <2>3, ToldNow
<1>3. QED BY <1>1, <1>2 DEF ModuleEvent

LEMMA ToldConnected ==
    ASSUME UartInv, TableInv, NEW i \in Ids, OnConnected(i), followed'
    PROVE  Told' /\ clients_cnt' = Cardinality(connected')
<1>1. /\ allocated /\ clients_cnt < MaxClients /\ clients_cnt' = clients_cnt + 1
      /\ connected' = connected \cup ({i} \cap Slots) /\ followed /\ i \in Slots
    BY Zenon DEF OnConnected
<1>2. StoreCount /\ line = Event("CONNECT", i) /\ conns' = conns
    BY DEF OnConnected, OnLine, module
<1>3. line.type = "CONNECT" /\ line.id = i
    BY <1>2, TypesOfLines
<1>4. /\ Queue \in Seq(Lines) /\ Queue # <<>> /\ line = Queue[1]
      /\ Queue' = Tail(Queue) /\ 1 \in 1..Len(Queue)
    BY <1>2, FirstLine
<1>5. Told /\ clients_cnt = Cardinality(connected)
    BY <1>1 DEF TableInv, Told
<1>6. About(Queue[1], i) /\ Quiet(Queue, 1, 1 - 1, i)
    BY <1>3, <1>4 DEF About, ClientTold, Quiet
<1>7. i \notin connected
    BY <1>3, <1>4, <1>5, <1>6 DEF Told, Leads, Begins
<1>8. connected' = connected \cup {i}
    BY <1>1
<1>9. ASSUME NEW j \in Ids
      PROVE  Leads(Tail(Queue), connected', conns, j)
    <2>1. Leads(Queue, connected, conns, j)
        BY <1>5 DEF Told
    <2>2. About(Queue[1], j) => (Queue[1].type = "CONNECT" <=> j \in connected')
        BY <1>3, <1>4, <1>8 DEF About
    <2>3. ~About(Queue[1], j) => (j \in connected <=> j \in connected')
        BY <1>3, <1>4, <1>8 DEF About, ClientTold
    <2>4. QED BY <1>4, <2>1, <2>2, <2>3, LeadsOff
<1>10. Told'
    BY <1>2, <1>4, <1>9, ToldNow
<1>11. Cardinality(connected \cup {i}) = Cardinality(connected) + 1
    BY <1>7, SlotsAreFinite, FS_AddElement DEF TableInv
<1>12. QED BY <1>1, <1>5, <1>8, <1>10, <1>11

LEMMA CountsDown ==
    ASSUME NEW c \in Nat \ {0}, c <= CountMod - 1
    PROVE  (c + CountMod - 1) % CountMod = c - 1
BY WifiAssumption

LEMMA ToldClosed ==
    ASSUME UartInv, TableInv, NEW i \in Ids, OnClosed(i), followed'
    PROVE  Told' /\ clients_cnt' = Cardinality(connected')
<1>1. StoreCount /\ line = Event("CLOSED", i) /\ conns' = conns /\ followed
    BY Zenon DEF OnClosed, OnLine, module
<1>2. line.type = "CLOSED" /\ line.id = i
    BY <1>1, TypesOfLines
<1>3. /\ Queue \in Seq(Lines) /\ Queue # <<>> /\ line = Queue[1]
      /\ Queue' = Tail(Queue) /\ 1 \in 1..Len(Queue)
    BY <1>1, FirstLine
<1>4. Told /\ clients_cnt = Cardinality(connected)
    BY <1>1 DEF TableInv, Told
<1>5. About(Queue[1], i) /\ Quiet(Queue, 1, 1 - 1, i)
    BY <1>2, <1>3 DEF About, ClientTold, Quiet
<1>6. i \in connected
    BY <1>2, <1>3, <1>4, <1>5 DEF Told, Leads, Begins
<1>7. allocated
    BY <1>6 DEF TableInv
<1>8. clients_cnt' = (clients_cnt + CountMod - 1) % CountMod /\ connected' = connected \ {i}
    BY <1>7 DEF OnClosed
<1>9. ASSUME NEW j \in Ids
      PROVE  Leads(Tail(Queue), connected', conns, j)
    <2>1. Leads(Queue, connected, conns, j)
        BY <1>4 DEF Told
    <2>2. About(Queue[1], j) => (Queue[1].type = "CONNECT" <=> j \in connected')
        BY <1>2, <1>3, <1>8 DEF About
    <2>3. ~About(Queue[1], j) => (j \in connected <=> j \in connected')
        BY <1>2, <1>3, <1>8 DEF About, ClientTold
    <2>4. QED BY <1>3, <2>1, <2>2, <2>3, LeadsOff
<1>10. Told'
    BY <1>1, <1>3, <1>9, ToldNow
<1>11. /\ Cardinality(connected \ {i}) = Cardinality(connected) - 1
       /\ Cardinality(connected) \in Nat \ {0}
    <2>1. IsFiniteSet(connected) /\ IsFiniteSet(connected \ {i})
        BY SlotsAreFinite DEF TableInv
    <2>2. Cardinality(connected \ {i}) = Cardinality(connected) - 1
        BY <1>6, <2>1, FS_RemoveElement
    <2>3. Cardinality(connected) \in Nat /\ Cardinality(connected \ {i}) \in Nat
        BY <2>1, FS_CardinalityType
    <2>4. \A n \in Nat : n - 1 \in Nat => n # 0
        OBVIOUS
    <2>5. QED BY <2>2, <2>3, <2>4
<1>12. clients_cnt \in Nat \ {0} /\ clients_cnt <= CountMod - 1
    BY <1>4, <1>11, WifiAssumption DEF TableInv
<1>13. clients_cnt' = clients_cnt - 1
    BY <1>8, <1>12, CountsDown
<1>14. QED BY <1>4, <1>8, <1>10, <1>11, <1>13

\* The lines that wait lead to the clients of the module.
LEMMA FollowStep ==
    ASSUME UartInv, PlanInv, TableInv, [Next]_vars, followed'
    PROVE  Told' /\ clients_cnt' = Cardinality(connected')
<1>0. followed => Told /\ clients_cnt = Cardinality(connected)
    BY DEF TableInv, Told
<1>1. ASSUME NEW i \in Ids, OnConnected(i)
      PROVE  Told' /\ clients_cnt' = Cardinality(connected')
    BY <1>1, ToldConnected
<1>2. ASSUME NEW i \in Ids, OnClosed(i)
      PROVE  Told' /\ clients_cnt' = Cardinality(connected')
    BY <1>2, ToldClosed
<1>3. CASE (\E i \in Ids : OnData(i)) \/ OnOther
    <2>1. /\ StoreCount /\ UNCHANGED <<clients_cnt, connected, conns, followed>>
          /\ (\E i \in Ids : line = Event("DATA", i)) \/ (\E a \in Answers : line = Answer(a))
        BY <1>3 DEF OnData, OnOther, OnLine, module
    <2>2. line.type \notin ClientTold
        BY <2>1, TypesOfLines DEF ClientTold
    <2>3. followed
        BY <2>1
    <2>4. QED BY <1>0, <2>1, <2>2, <2>3, ToldPasses
<1>4. CASE wifi_answered /\ Answered
    <2>1. /\ StoreCount /\ UNCHANGED <<clients_cnt, connected, conns, followed>> /\ line.type = Expected(cmd)
        BY <1>4 DEF Answered, wifi_answered, module
    <2>2. line.type \notin ClientTold
        BY <2>1, LineTypes, TypesOfLines
    <2>3. followed
        BY <2>1
    <2>4. QED BY <1>0, <2>1, <2>2, <2>3, ToldPasses
<1>5. CASE NtpAnswered /\ Answered
    <2>1. /\ uartengine_clear_rx /\ UNCHANGED <<clients_cnt, connected, conns, followed>>
          /\ rx = <<Answer("IPD")>>
        BY <1>5 DEF Answered, NtpAnswered, module
    <2>2. Answer("IPD").type \notin ClientTold
        BY TypesOfLines DEF Answers
    <2>3. Silent(rx)
        BY <2>1, <2>2 DEF Silent
    <2>4. followed
        BY <2>1
    <2>5. QED BY <1>0, <2>1, <2>3, <2>4, ToldCleared
<1>6. CASE Discard /\ Waiting
    <2>1. StoreCount /\ UNCHANGED <<clients_cnt, connected, conns>>
        BY <1>6 DEF Waiting, Discard, TakeLine, RxCleared, manager, module
    <2>2. \/ UNCHANGED followed /\ (TakeLine \/ RxCleared)
          \/ followed' = (followed /\ line.type \notin ClientTold)
        BY <1>6 DEF Waiting, ClientTold
    <2>3. ~(TakeLine \/ RxCleared)
        BY <2>1 DEF TakeLine, RxCleared, StoreCount, ClearCount, uartengine_can_read_string
    <2>4. followed /\ line.type \notin ClientTold
        BY <2>2, <2>3, Zenon
    <2>5. QED BY <1>0, <2>1, <2>4, ToldPasses
<1>7. CASE NtpTimeout /\ Fails
    <2>1. uartengine_clear_rx /\ UNCHANGED <<clients_cnt, connected, conns>>
        BY <1>7 DEF Fails, NtpTimeout, module
    <2>2. followed /\ ~EventsWait
        <3>1. ~wifi_timeout
            BY <1>7 DEF NtpTimeout, wifi_timeout
        <3>2. QED BY <1>7, <3>1, Zenon DEF Fails
    <2>3. Silent(rx)
        BY <2>2 DEF Silent, EventsWait, ClientTold
    <2>4. QED BY <1>0, <2>1, <2>2, <2>3, ToldCleared
<1>8. CASE wifimgr_reset
    <2>1. connected' = {} /\ conns' = {} /\ clients_cnt' = 0 /\ Queue' = <<>>
        BY <1>8, QueueShrinks DEF wifimgr_reset, wifi_reset
    <2>2. \A i \in Ids : Leads(<<>>, {}, {}, i)
        BY LeadsThere
    <2>3. Cardinality({}) = 0
        BY FS_EmptySet
    <2>4. QED BY <2>1, <2>2, <2>3, ToldNow
<1>9. CASE Ends
    <2>1. UNCHANGED <<uart, conns>>
        BY <1>9 DEF Ends, driver, module
    <2>2. CASE op = "serve"
        <3>1. UNCHANGED <<clients_cnt, connected, followed>>
            BY <1>9, <2>2 DEF Ends
        <3>2. QED BY <1>0, <2>1, <3>1, QueueKept, ToldKept
    <2>3. CASE op # "serve"
        <3>1. followed /\ ~late
            BY <1>9, <2>3, Zenon DEF Ends
        <3>2. clients_cnt' = 0 /\ connected' = {} /\ plan = <<>> /\ cmd = NoCmd
              /\ op \notin {"none", "get_time_nok"}
            BY <1>9, <2>3 DEF Ends
        <3>3. ~MuxToCome
            BY <3>2, CmdTypes, EmptySeq DEF MuxToCome
        <3>4. connected = {}
            BY <2>3, <3>1, <3>2, <3>3 DEF TableInv, PlanInv, Ops
        <3>5. Cardinality({}) = 0
            BY FS_EmptySet
        <3>6. connected' = connected
            BY <3>2, <3>4
        <3>7. QED BY <1>0, <2>1, <3>1, <3>2, <3>5, <3>6, QueueKept, ToldKept
    <2>4. QED BY <2>2, <2>3
<1>10. CASE Module
    <2>1. UNCHANGED <<clients_cnt, connected, followed>> /\ (ModuleAnswers \/ ModuleEvent)
        BY <1>10 DEF Module, manager
    <2>2. QED BY <1>0, <2>1, ToldReceives
<1>11. CASE \/ Watch \/ SendNext
            \/ (TakeLine \/ RxCleared) /\ Waiting
            \/ wifi_timeout /\ Fails
            \/ wifimgr_broadcast_bytes \/ wifimgr_get_time \/ UNCHANGED vars
    <2>1. UNCHANGED <<clients_cnt, connected, conns>>
        BY <1>11 DEF Watch, SendNext, wifi_send_command, TakeLine, RxCleared, Waiting, Discard, Fails,
                     wifi_timeout, wifimgr_broadcast_bytes, wifimgr_get_time, Starts, manager, module, driver,
                     vars
    <2>2. uartengine_can_read_string \/ ClearCount \/ UNCHANGED uart
        BY <1>11 DEF Watch, SendNext, wifi_send_command, TakeLine, RxCleared, wifi_timeout,
                     wifimgr_broadcast_bytes, wifimgr_get_time, Starts, driver, vars
    <2>3. followed
        <3>1. CASE \/ Watch \/ SendNext \/ wifimgr_broadcast_bytes \/ wifimgr_get_time \/ UNCHANGED vars
            BY <3>1 DEF Watch, SendNext, wifimgr_broadcast_bytes, wifimgr_get_time, Starts, vars
        <3>2. CASE Waiting
            BY <3>2, Zenon DEF Waiting
        <3>3. CASE wifi_timeout /\ Fails
            BY <3>3, Zenon DEF Fails
        <3>4. QED BY <1>11, <3>1, <3>2, <3>3
    <2>4. QED BY <1>0, <2>1, <2>2, <2>3, QueueKept, ToldKept
<1>12. CASE Answered
    <2>1. wifi_answered \/ NtpAnswered
        BY <1>12, Zenon DEF Answered
    <2>2. QED BY <1>4, <1>5, <1>12, <2>1
<1>13. CASE Waiting
    <2>1. TakeLine \/ RxCleared \/ Discard
        BY <1>13, Zenon DEF Waiting
    <2>2. QED BY <1>6, <1>11, <1>13, <2>1
<1>14. CASE Fails
    <2>1. wifi_timeout \/ NtpTimeout
        BY <1>14, Zenon DEF Fails
    <2>2. QED BY <1>7, <1>11, <1>14, <2>1
<1>15. CASE OnClient
    BY <1>1, <1>2, <1>3, <1>15, Zenon DEF OnClient
<1>16. QED
    BY <1>3, <1>8, <1>9, <1>10, <1>11, <1>12, <1>13, <1>14, <1>15, Zenon DEF Next, Main

LEMMA TableTypes ==
    ASSUME TableInv, [Next]_vars
    PROVE  /\ conns' \subseteq Ids /\ connected' \subseteq Slots /\ clients_cnt' \in 0..CountMod - 1
           /\ ~allocated' => connected' = {} /\ clients_cnt' = 0
<1>0. /\ conns \subseteq Ids /\ connected \subseteq Slots /\ clients_cnt \in 0..CountMod - 1
      /\ ~allocated => connected = {} /\ clients_cnt = 0
      /\ CountMod \in Nat /\ MaxClients < CountMod /\ MaxClients \in Nat
    BY WifiAssumption DEF TableInv
<1>1. ASSUME NEW i \in Ids, OnConnected(i)
      PROVE  /\ conns' \subseteq Ids /\ connected' \subseteq Slots /\ clients_cnt' \in 0..CountMod - 1
             /\ ~allocated' => connected' = {} /\ clients_cnt' = 0
    BY <1>0, <1>1 DEF OnConnected, OnLine, module
<1>2. ASSUME NEW i \in Ids, OnClosed(i)
      PROVE  /\ conns' \subseteq Ids /\ connected' \subseteq Slots /\ clients_cnt' \in 0..CountMod - 1
             /\ ~allocated' => connected' = {} /\ clients_cnt' = 0
    <2>1. conns' = conns /\ allocated' = allocated
        BY <1>2 DEF OnClosed, OnLine, module
    <2>2. CASE allocated
        <3>1. clients_cnt' = (clients_cnt + CountMod - 1) % CountMod /\ connected' = connected \ {i}
            BY <1>2, <2>2 DEF OnClosed
        <3>2. \A n, m \in Nat : m > 0 => (n + m - 1) % m \in 0..m - 1
            OBVIOUS
        <3>3. clients_cnt' \in 0..CountMod - 1
            BY <1>0, <3>1, <3>2
        <3>4. QED BY <1>0, <2>1, <2>2, <3>1, <3>3
    <2>3. CASE ~allocated
        BY <1>0, <1>2, <2>1, <2>3 DEF OnClosed
    <2>4. QED BY <2>2, <2>3
<1>3. CASE ModuleEvent /\ UNCHANGED <<manager, followed>>
    BY <1>0, <1>3 DEF ModuleEvent, ClientConnects, ClientCloses, ClientSends, module, manager
<1>4. CASE wifimgr_reset \/ (Ends /\ op # "serve")
    <2>1. connected' = {} /\ clients_cnt' = 0 /\ (conns' = {} \/ conns' = conns)
        BY <1>4 DEF wifimgr_reset, wifi_reset, Ends, driver, module
    <2>2. QED BY <1>0, <2>1
<1>5. CASE \/ Watch \/ (\E i \in Ids : OnData(i)) \/ OnOther \/ SendNext \/ Answered \/ Waiting
           \/ Ends /\ op = "serve"
           \/ Fails \/ wifimgr_broadcast_bytes \/ wifimgr_get_time
           \/ ModuleAnswers /\ UNCHANGED <<manager, followed>>
           \/ UNCHANGED vars
    <2>1. UNCHANGED <<conns, connected, clients_cnt, allocated>>
        BY <1>5 DEF Watch, OnData, OnOther, OnLine, SendNext, wifi_send_command, Answered, wifi_answered,
                    NtpAnswered, Waiting, TakeLine, RxCleared, Discard, Ends, Fails, wifi_timeout, NtpTimeout,
                    wifimgr_broadcast_bytes, wifimgr_get_time, Starts, ModuleAnswers, Does, module, manager,
                    driver, vars
    <2>2. QED BY <1>0, <2>1
<1>6. QED
    BY <1>1, <1>2, <1>3, <1>4, <1>5, Zenon DEF Next, Main, OnClient, Module

\* When the time is fetched, the module takes CIPMUX=0 without clients only.
LEMMA FetchStep ==
    ASSUME UartInv, PlanInv, DialogueInv, TableInv, [Next]_vars,
           followed', ~late', op' = "get_time"
    PROVE  connected' = {} \/ MuxToCome'
<1>1. CASE wifimgr_get_time
    <2>1. plan' = FetchTime
        BY <1>1 DEF wifimgr_get_time, Starts
    <2>2. QED BY <2>1, LongPlans DEF MuxToCome
<1>2. CASE SendNext
    <2>1. /\ op = "get_time" /\ ~late /\ followed /\ connected' = connected
          /\ cmd = NoCmd /\ plan # <<>> /\ cmd' = Head(plan) /\ plan' = Tail(plan)
        BY <1>2 DEF SendNext, wifi_send_command
    <2>2. plan \in Seq(LongCmds)
        BY <2>1 DEF PlanInv, LongOps
    <2>3. /\ Len(plan) \in Nat \ {0} /\ Head(plan) = plan[1] /\ Len(Tail(plan)) = Len(plan) - 1
          /\ \A n \in 1..Len(Tail(plan)) : Tail(plan)[n] = plan[n + 1]
        BY <2>1, <2>2, HeadTailProperties, EmptySeq
    <2>4. ASSUME MuxToCome
          PROVE  MuxToCome'
        <3>1. cmd # Cmd("CIPMUX=0")
            BY <2>1, CmdTypes
        <3>2. PICK n \in 1..Len(plan) : plan[n] = Cmd("CIPMUX=0")
            BY <2>4, <3>1 DEF MuxToCome
        <3>3. CASE n = 1
            BY <2>1, <2>3, <3>2, <3>3 DEF MuxToCome
        <3>4. CASE n # 1
            <4>1. n - 1 \in 1..Len(Tail(plan)) /\ (n - 1) + 1 = n
                BY <2>3, <3>4
            <4>2. Tail(plan)[n - 1] = Cmd("CIPMUX=0")
                BY <2>3, <3>2, <4>1
            <4>3. QED BY <2>1, <4>1, <4>2 DEF MuxToCome
        <3>5. QED BY <3>3, <3>4
    <2>5. QED BY <2>1, <2>4 DEF TableInv
<1>3. CASE Answered
    <2>1. /\ op = "get_time" /\ ~late /\ followed /\ connected' = connected /\ plan' = plan
        BY <1>3 DEF Answered, wifi_answered, NtpAnswered
    <2>2. CASE cmd = Cmd("CIPMUX=0")
        \* Its answer is true: the module has no clients and told of them all.
        <3>1. cmd.name = "CIPMUX=0"
            BY <2>2, CmdTypes
        <3>2. wifi_answered
            BY <1>3, <3>1, CmdTypes DEF Answered, NtpAnswered
        <3>3. /\ Queue \in Seq(Lines) /\ Queue # <<>> /\ 1 \in 1..Len(Queue)
            BY <3>2, FirstLine DEF wifi_answered
        <3>4. Queue[1].type = Expected(cmd) /\ Truth(Queue)
            BY <2>1, <3>2, StepAnswered DEF DialogueInv
        <3>5. conns = {} /\ \A m \in 2..Len(Queue) : Queue[m].type \notin ClientTold
            BY <2>2, <3>3, <3>4 DEF Truth
        <3>6. Queue[1].type \notin ClientTold
            BY <3>4, LineTypes, TypesOfLines
        <3>7. Silent(Queue)
            <4>1. Len(Queue) \in Nat
                BY QueueIs
            <4>2. \A m \in 1..Len(Queue) : m = 1 \/ m \in 2..Len(Queue)
                BY <4>1
            <4>3. QED BY <3>5, <3>6, <4>2 DEF Silent
        <3>8. \A i \in Ids : i \in connected <=> i \in conns
            BY <2>1, <3>3, <3>7, LeadsNowhere DEF TableInv
        <3>9. connected \subseteq Ids
            BY DEF TableInv, Slots
        <3>10. QED BY <2>1, <3>5, <3>8, <3>9
    <2>3. CASE cmd # Cmd("CIPMUX=0")
        BY <2>1, <2>3 DEF TableInv, MuxToCome
    <2>4. QED BY <2>2, <2>3
<1>4. CASE Fails
    <2>1. OnFailure(cmd) /\ connected' = connected
        BY <1>4 DEF Fails
    <2>2. ~late /\ followed
        BY <1>4, Zenon DEF Fails, wifi_timeout, NtpTimeout
    <2>3. op = "get_time" /\ cmd.name = "CIPCLOSE" /\ plan' = plan
        BY <2>1 DEF OnFailure, GiveUp
    <2>4. cmd # Cmd("CIPMUX=0")
        BY <2>3, CmdTypes
    <2>5. QED BY <2>1, <2>2, <2>3, <2>4 DEF TableInv, MuxToCome
<1>5. CASE OnClient \/ OnOther \/ Ends \/ wifimgr_reset \/ wifimgr_broadcast_bytes
    <2>1. op' \in {"none", "serve", "init"}
        BY <1>5 DEF OnClient, OnConnected, OnClosed, OnData, OnOther, OnLine, Serve, Ends, wifimgr_reset,
                    wifimgr_broadcast_bytes, Starts
    <2>2. QED BY <2>1
<1>6. CASE Watch \/ Waiting \/ Module \/ UNCHANGED vars
    <2>1. UNCHANGED <<op, plan, cmd, late, connected>>
        BY <1>6 DEF Watch, Waiting, TakeLine, RxCleared, Discard, Module, ModuleAnswers, ModuleEvent,
                    ClientConnects, ClientCloses, ClientSends, manager, driver, vars
    <2>2. followed
        <3>1. CASE Watch \/ Module \/ UNCHANGED vars
            BY <3>1 DEF Watch, Module, vars
        <3>2. CASE Waiting
            BY <3>2, Zenon DEF Waiting
        <3>3. QED BY <1>6, <3>1, <3>2
    <2>3. QED BY <2>1, <2>2 DEF TableInv, MuxToCome
<1>7. QED
    BY <1>1, <1>2, <1>3, <1>4, <1>5, <1>6, Zenon DEF Next, Main

LEMMA TableStep ==
    ASSUME UartInv, PlanInv, DialogueInv, TableInv, [Next]_vars
    PROVE  TableInv'
<1>1. /\ conns' \subseteq Ids /\ connected' \subseteq Slots /\ clients_cnt' \in 0..CountMod - 1
      /\ ~allocated' => connected' = {} /\ clients_cnt' = 0
    BY TableTypes
<1>2. followed' => Told' /\ clients_cnt' = Cardinality(connected')
    BY FollowStep
<1>3. followed' /\ ~late' /\ op' = "get_time" => connected' = {} \/ MuxToCome'
    BY FetchStep
<1>4. Told' <=> (\A i \in Ids : Leads(Queue, connected, conns, i))'
    BY DEF Told
<1>5. QED BY <1>1, <1>2, <1>3, <1>4, Zenon DEF TableInv

LEMMA FlagsStep ==
    ASSUME Flags, [Next]_vars
    PROVE  Flags'
<1>0. /\ open \in BOOLEAN /\ mux \in BOOLEAN /\ late \in BOOLEAN
      /\ allocated \in BOOLEAN /\ server_running \in BOOLEAN /\ followed \in BOOLEAN
    BY DEF Flags
<1>1. ASSUME NEW i \in Ids, OnConnected(i)
      PROVE  Flags'
    <2>1. UNCHANGED <<open, mux, late, allocated, server_running>>
        BY <1>1 DEF OnConnected, OnLine, module
    <2>2. followed' = (followed /\ i \in Slots) \/ followed' = FALSE
        BY <1>1 DEF OnConnected
    <2>3. followed' \in BOOLEAN
        BY <2>2, Zenon
    <2>4. QED BY <1>0, <2>1, <2>3 DEF Flags
<1>2. CASE Ends
    <2>1. UNCHANGED <<open, mux, late>>
        BY <1>2 DEF Ends, driver, module
    <2>3. allocated' \in BOOLEAN /\ server_running' \in BOOLEAN
        BY <1>0, <1>2 DEF Ends
    <2>4. followed' = followed \/ followed' = (followed /\ ~late)
        BY <1>2, Zenon DEF Ends
    <2>5. followed' \in BOOLEAN
        BY <1>0, <2>4, Zenon
    <2>6. QED BY <1>0, <2>1, <2>3, <2>5 DEF Flags
<1>3. CASE Answered
    <2>1. UNCHANGED <<open, mux, late, allocated, followed>>
        BY <1>3 DEF Answered, wifi_answered, NtpAnswered, module
    <2>2. server_running' = (server_running /\ cmd # Cmd("CIPSERVER=0"))
        BY <1>3, Zenon DEF Answered
    <2>3. server_running' \in BOOLEAN
        BY <2>2, Zenon
    <2>4. QED BY <1>0, <2>1, <2>3 DEF Flags
<1>4. CASE Waiting
    <2>1. UNCHANGED <<open, mux, late, allocated, server_running>>
        BY <1>4 DEF Waiting, TakeLine, RxCleared, Discard, module, manager
    <2>2. followed' = followed \/ followed' = (followed /\ line.type \notin {"CONNECT", "CLOSED"})
        BY <1>4, Zenon DEF Waiting
    <2>3. followed' \in BOOLEAN
        BY <1>0, <2>2, Zenon
    <2>4. QED BY <1>0, <2>1, <2>3 DEF Flags
<1>5. CASE Fails
    <2>1. UNCHANGED <<open, mux, allocated, server_running>>
        BY <1>5 DEF Fails, wifi_timeout, NtpTimeout, module
    <2>2. followed' = followed \/ followed' = (followed /\ ~EventsWait)
        BY <1>5, Zenon DEF Fails
    <2>3. late' = (late \/ owed # <<>> \/ AnswersWait) \/ late' = (late \/ owed # <<>>)
        BY <1>5, Zenon DEF Fails, wifi_timeout, NtpTimeout
    <2>4. followed' \in BOOLEAN
        BY <1>0, <2>2, Zenon
    <2>5. late' \in BOOLEAN
        BY <2>3, Zenon
    <2>6. QED BY <1>0, <2>1, <2>4, <2>5 DEF Flags
<1>6. CASE wifimgr_reset
    BY <1>6, Zenon DEF wifimgr_reset, wifi_reset, Flags
<1>7. CASE Module
    <2>1. UNCHANGED <<late, allocated, server_running, followed>>
        BY <1>7 DEF Module, ModuleAnswers, ModuleEvent, ClientConnects, ClientCloses, ClientSends, manager
    <2>2. \/ UNCHANGED <<open, mux>>
          \/ \E c : /\ open' = (c.name = "CIPSERVER=1" \/ (open /\ c.name # "CIPSERVER=0"))
                    /\ mux' = (c.name = "CIPMUX=1" \/ (mux /\ c.name # "CIPMUX=0"))
        BY <1>7 DEF Module, ModuleAnswers, Does, ModuleEvent, ClientConnects, ClientCloses, ClientSends, module
    <2>3. open' \in BOOLEAN
        BY <1>0, <2>2, Zenon
    <2>4. mux' \in BOOLEAN
        BY <1>0, <2>2, Zenon
    <2>5. QED BY <1>0, <2>1, <2>3, <2>4 DEF Flags
<1>8. CASE \/ Watch \/ (\E i \in Ids : OnClosed(i) \/ OnData(i)) \/ OnOther \/ SendNext
           \/ wifimgr_broadcast_bytes \/ wifimgr_get_time \/ UNCHANGED vars
    <2>1. UNCHANGED <<open, mux, late, allocated, server_running, followed>>
        BY <1>8 DEF Watch, OnClosed, OnData, OnOther, OnLine, SendNext, wifi_send_command,
                    wifimgr_broadcast_bytes, wifimgr_get_time, Starts, module, manager, driver, vars
    <2>2. QED BY <1>0, <2>1 DEF Flags
<1>9. QED
    BY <1>1, <1>2, <1>3, <1>4, <1>5, <1>6, <1>7, <1>8, Zenon DEF Next, Main, OnClient

-----------------------------------------------------------------------------
(* The theorems. *)

LEMMA InvStarts == Init => WifiInv
<1> SUFFICES ASSUME Init
             PROVE  WifiInv
    OBVIOUS
<1>1. /\ rx = <<>> /\ string_cnt = 0 /\ loaded = 0 /\ reading = "no" /\ cmd = NoCmd /\ owed = <<>>
      /\ conns = {} /\ open = FALSE /\ mux = FALSE /\ late = FALSE
      /\ clients_cnt = 0 /\ connected = {} /\ allocated = FALSE /\ server_running = FALSE
      /\ op = "init" /\ plan = BringUp /\ followed = TRUE
    BY DEF Init, DriverInit, UartInit
<1>2. UartInv
    BY <1>1, EmptySeq, UartAssumption DEF UartInv
<1>3. PlanInv
    BY <1>1, LongPlans DEF PlanInv, Ops, LongOps
<1>4. Queue = <<>> /\ NoAnswer(<<>>)
    BY <1>1, EmptySeq DEF Queue, NoAnswer
<1>5. DialogueInv
    BY <1>1, <1>4, EmptySeq, DriverAssumption DEF DialogueInv, InStep
<1>6. RunInv
    BY <1>1, LongPlans DEF RunInv
<1>7. \A i \in Ids : Leads(<<>>, {}, {}, i)
    BY LeadsThere
<1>8. Cardinality({}) = 0
    BY FS_EmptySet
<1>9. TableInv
    BY <1>1, <1>4, <1>7, <1>8, WifiAssumption DEF TableInv
<1>10. Flags
    BY <1>1 DEF Flags
<1>11. QED BY <1>2, <1>3, <1>5, <1>6, <1>9, <1>10 DEF WifiInv

LEMMA InvKept == WifiInv /\ [Next]_vars => WifiInv'
BY UartStep, PlanStep, DialogueStep, RunStep, TableStep, FlagsStep DEF WifiInv

\* The inductive invariant of the WiFi manager: what its plans are made of, how
\* the answers of the module go with its commands, and how the lines that wait
\* lead from the table of clients to the clients of the module.
THEOREM WifiInvariant == Spec => []WifiInv
<1>1. QED BY InvStarts, InvKept, PTL DEF Spec

\* Every variable has its type and nothing is left of an operation that is over.
THEOREM WifiTypes == Spec => []TypeOK
<1>1. WifiInv => TypeOK
    <2> SUFFICES ASSUME WifiInv
                 PROVE  TypeOK
        OBVIOUS
    <2>1. rx \in Seq(Lines) /\ Len(rx) \in Nat /\ Len(rx) <= RxSize /\ RxSize \in Nat
        BY UartAssumption, LenProperties DEF WifiInv, UartInv
    <2>2. string_cnt \in 0..2 * RxSize /\ loaded \in 0..RxSize /\ reading \in {"no", "count", "clear"}
        BY <2>1 DEF WifiInv, UartInv
    <2>3. /\ Len(owed) <= MaxOwed /\ conns \subseteq Ids
          /\ clients_cnt \in 0..CountMod - 1 /\ connected \subseteq Slots
        BY DEF WifiInv, DialogueInv, TableInv
    <2>4. op \in Ops /\ (op = "none" => plan = <<>> /\ cmd = NoCmd)
        BY DEF WifiInv, PlanInv
    <2>5. Flags
        BY DEF WifiInv
    <2>6. QED BY <2>1, <2>2, <2>3, <2>4, <2>5 DEF TypeOK, Flags
<1>2. QED BY <1>1, WifiInvariant, PTL

\* The main loop never reads past the last line that was received, wherever the
\* interrupt comes between its accesses to string_cnt.
THEOREM CountStaysBehind == Spec => []StringsAreThere
<1>1. WifiInv => StringsAreThere
    BY DEF WifiInv, UartInv, StringsAreThere
<1>2. QED BY <1>1, WifiInvariant, PTL

LEMMA FollowsLines ==
    ASSUME NEW i \in Ids, rx \in Seq(Lines), Leads(rx, connected, conns, i)
    PROVE  WillBeConnected(i) <=> i \in conns
<1> DEFINE told == {n \in 1..Len(rx) : rx[n] \in {Event("CONNECT", i), Event("CLOSED", i)}}
<1>1. Len(rx) \in Nat /\ \A n \in 1..Len(rx) : rx[n] \in Lines
    BY LenProperties
<1>2. \A l \in Lines : About(l, i) <=> l \in {Event("CONNECT", i), Event("CLOSED", i)}
    BY DEF Lines, About, Event, ClientTold
<1>3. told = {n \in 1..Len(rx) : About(rx[n], i)}
    BY <1>1, <1>2
<1>4. WillBeConnected(i) <=> IF told = {} THEN i \in connected
                             ELSE \E n \in told : (\A m \in told : m <= n) /\ rx[n].type = "CONNECT"
    BY DEF WillBeConnected
<1> HIDE DEF told
<1>5. CASE Quiet(rx, 1, Len(rx), i) /\ (i \in connected <=> i \in conns)
    <2>1. told = {}
        BY <1>3, <1>5 DEF Quiet
    <2>2. QED BY <1>4, <1>5, <2>1
<1>6. ASSUME NEW n \in 1..Len(rx), About(rx[n], i), Quiet(rx, n + 1, Len(rx), i),
             rx[n].type = "CONNECT" <=> i \in conns
      PROVE  WillBeConnected(i) <=> i \in conns
    <2>1. n \in told /\ told # {}
        BY <1>3, <1>6
    <2>2. ASSUME NEW m \in told
          PROVE  m <= n
        <3>1. m \in 1..Len(rx) /\ About(rx[m], i)
            BY <1>3
        <3>2. m \notin n + 1..Len(rx)
            BY <1>6, <3>1 DEF Quiet
        <3>3. QED BY <1>1, <3>1, <3>2
    <2>3. \A k \in told : (\A m \in told : m <= k) => k = n
        BY <1>3, <2>1, <2>2
    <2>4. QED BY <1>4, <1>6, <2>1, <2>2, <2>3
<1>7. QED BY <1>5, <1>6 DEF Leads, Leaves

\* The table of clients, with the lines that wait, says which clients the module
\* has, and clients_cnt counts it.
THEOREM TableIsTheModules == Spec => []TableFollows
<1>1. WifiInv => TableFollows
    <2> SUFFICES ASSUME WifiInv, allocated, followed, reading = "no"
                 PROVE  {i \in Ids : WillBeConnected(i)} = conns /\ clients_cnt = Cardinality(connected)
        BY DEF TableFollows
    <2>1. Queue = rx /\ rx \in Seq(Lines)
        BY QueueIs DEF WifiInv, UartInv
    <2>2. \A i \in Ids : Leads(rx, connected, conns, i)
        BY <2>1 DEF WifiInv, TableInv
    <2>3. \A i \in Ids : WillBeConnected(i) <=> i \in conns
        BY <2>1, <2>2, FollowsLines
    <2>4. conns \subseteq Ids /\ clients_cnt = Cardinality(connected)
        BY DEF WifiInv, TableInv
    <2>5. QED BY <2>3, <2>4
<1>2. QED BY <1>1, WifiInvariant, PTL

\* A server that is taken for running is open outside the operations on it, while
\* the dialogue with the module is in step.
THEOREM ServerIsOpen == Spec => []RunningMeansOpen
<1>1. WifiInv => RunningMeansOpen
    BY DEF WifiInv, RunInv, RunningMeansOpen
<1>2. QED BY <1>1, WifiInvariant, PTL
=============================================================================
