----------------------------- MODULE BoardsProofs -----------------------------
(***************************************************************************)
(* Theorems about the boards and the relay requests, for any relays and    *)
(* inputs, any assignment of them to the bytes of their ports, and any     *)
(* requests.                                                               *)
(***************************************************************************)
EXTENDS Boards, SequenceTheorems, TLAPS

-----------------------------------------------------------------------------
(* The inductive invariants. *)

Readers == {"rel_read_state", "rel_read_all", "inp_read_inputs", "inp_read_all"}

\* The function that waits tells what call is in progress.
BusInv ==
    /\ client \in Readers \cup {"none", "rel_set"}
    /\ moved \in Seq(SUBSET (Relays \cup Inputs)) /\ Len(moved) <= 2
    /\ client = "none" => call = NoCall /\ moved = <<>>
    /\ client # "none" => call.size = 2
    /\ client \in Readers => call.type = "READ"

\* The lines of a port are in their bytes, up to byte n.
InPlace(ByteOf, all, port, n) == \A b \in 1..n : port[b] \subseteq {l \in all : ByteOf[l] = b}

\* The first n bytes of a port are those of the lines that are on.
Shows(ByteOf, all, port, n, on) ==
    \A l \in all : ByteOf[l] <= n => (l \in on <=> l \in port[ByteOf[l]])

\* What has been sent or read of a port since the board was disturbed last is
\* what the board shows.
RelaysInv ==
    /\ client = "rel_set" => InPlace(RelayByte, Relays, call.data, 2)
    /\ client = "rel_set" /\ disturbed # "yes" => Shows(RelayByte, Relays, call.data, Len(moved), wired)
    /\ client = "rel_read_state" => InPlace(RelayByte, Relays, moved, Len(moved))
    /\ client = "rel_read_state" /\ disturbed # "yes" => Shows(RelayByte, Relays, moved, Len(moved), wired)
    /\ client # "rel_set" /\ disturbed = "no" => wired = current_relays

\* What has been read of the inputs is still true, or will be read again.
InputsInv ==
    /\ client = "inp_read_inputs" => InPlace(InputByte, Inputs, moved, Len(moved))
    /\ client = "inp_read_inputs" =>
            armed \/ missed \/ Shows(InputByte, Inputs, moved, Len(moved), lines)
    /\ ChangePursued

Orders == [id : Relays \cup BadIds, state : {"ON", "OFF"}]

\* The first k relays of the request are as it left them last, in a port.
Carried(k, on) ==
    \A i \in 1..k :
        asked[i].id \in Relays /\ (\A j \in i+1..k : asked[j].id # asked[i].id)
            => (asked[i].id \in on <=> asked[i].state = "ON")

\* todo is the end of asked.
Carrying == Len(asked) - Len(todo)

RequestInv ==
    /\ reply = "pending" =>
            /\ client \in {"none", "rel_set"}
            /\ asked \in Requests /\ todo \in Seq(Orders)
            /\ Len(todo) <= Len(asked)
            /\ \A i \in 1..Len(todo) : todo[i] = asked[Carrying + i]
            /\ client = "none" => todo # <<>> /\ Carried(Carrying, current_relays)
            /\ client = "rel_set" => Carried(Carrying, Lines(call.data))
    /\ reply = "OK" => client = "none" /\ Carried(Len(asked), current_relays)

BoardsInv == TypeOK /\ BusInv /\ RelaysInv /\ InputsInv /\ RequestInv

-----------------------------------------------------------------------------
(* Ports and their bytes. *)

\* A port that is made of lines.
LEMMA PortShows ==
    ASSUME NEW all, NEW ByteOf \in [all -> 1..2], NEW on \in SUBSET all
    PROVE  /\ InPlace(ByteOf, all, Port(ByteOf, on), 2)
           /\ Lines(Port(ByteOf, on)) = on
           /\ \A b \in 1..2 : Port(ByteOf, on)[b] = {l \in on : ByteOf[l] = b}
<1>1. \A b \in 1..2 : Port(ByteOf, on)[b] = {l \in on : ByteOf[l] = b}
    BY DEF Port
<1>2. InPlace(ByteOf, all, Port(ByteOf, on), 2)
    BY <1>1 DEF InPlace
<1>3. \A l \in on : ByteOf[l] = 1 \/ ByteOf[l] = 2
    OBVIOUS
<1>4. Port(ByteOf, on)[1] = {l \in on : ByteOf[l] = 1} /\ Port(ByteOf, on)[2] = {l \in on : ByteOf[l] = 2}
    BY <1>1
<1>5. QED BY <1>1, <1>2, <1>3, <1>4 DEF Lines

\* Lines that a whole port shows.
LEMMA WholePort ==
    ASSUME NEW all, NEW ByteOf \in [all -> 1..2], NEW on \in SUBSET all, NEW port,
           InPlace(ByteOf, all, port, 2), Shows(ByteOf, all, port, 2, on)
    PROVE  Lines(port) = on
<1>1. port[1] \subseteq {l \in all : ByteOf[l] = 1} /\ port[2] \subseteq {l \in all : ByteOf[l] = 2}
    BY DEF InPlace
<1>2. \A l \in all : (ByteOf[l] = 1 \/ ByteOf[l] = 2) /\ (l \in on <=> l \in port[ByteOf[l]])
    BY DEF Shows
<1>3. QED BY <1>1, <1>2 DEF Lines

\* The next byte of what is read.
LEMMA NextByteRead ==
    ASSUME NEW all, NEW ByteOf \in [all -> 1..2], NEW on \in SUBSET all,
           NEW S, NEW read \in Seq(S), Len(read) < 2, NEW byte, byte = {l \in on : ByteOf[l] = Len(read) + 1},
           byte \in S, InPlace(ByteOf, all, read, Len(read))
    PROVE  /\ InPlace(ByteOf, all, Append(read, byte), Len(read) + 1)
           /\ Shows(ByteOf, all, read, Len(read), on)
                  => Shows(ByteOf, all, Append(read, byte), Len(read) + 1, on)
<1>1. /\ Len(read) \in Nat
      /\ Append(read, byte)[Len(read) + 1] = byte
      /\ \A b \in 1..Len(read) : Append(read, byte)[b] = read[b]
    BY AppendProperties
<1>2. \A b \in 1..Len(read) + 1 : b \in 1..Len(read) \/ b = Len(read) + 1
    BY <1>1
<1>3. InPlace(ByteOf, all, Append(read, byte), Len(read) + 1)
    BY <1>1, <1>2 DEF InPlace
<1>4. ASSUME Shows(ByteOf, all, read, Len(read), on)
      PROVE  Shows(ByteOf, all, Append(read, byte), Len(read) + 1, on)
    <2>1. SUFFICES ASSUME NEW l \in all, ByteOf[l] <= Len(read) + 1
                   PROVE  l \in on <=> l \in Append(read, byte)[ByteOf[l]]
        BY DEF Shows
    <2>2. CASE ByteOf[l] = Len(read) + 1
        BY <1>1, <2>2
    <2>3. CASE ByteOf[l] <= Len(read)
        <3>1. ByteOf[l] \in 1..Len(read)
            BY <1>1, <2>3
        <3>2. QED BY <1>1, <1>4, <2>3, <3>1 DEF Shows
    <2>4. QED BY <1>1, <2>1, <2>2, <2>3
<1>5. QED BY <1>3, <1>4

-----------------------------------------------------------------------------
(* The bus. *)

LEMMA LenInBounds ==
    ASSUME BusInv
    PROVE  Len(moved) \in 0..2
<1> DEFINE S == SUBSET (Relays \cup Inputs)
<1>1. moved \in Seq(S)
    BY DEF BusInv
<1>2. Len(moved) <= 2
    BY DEF BusInv
<1> HIDE DEF S
<1>3. Len(moved) \in Nat
    BY <1>1, LenProperties
<1>4. \A n \in Nat : n <= 2 => n \in 0..2
    OBVIOUS
<1>5. QED BY <1>2, <1>3, <1>4

\* What a step does to the bus.
LEMMA BusSteps ==
    ASSUME TypeOK, BusInv, RelaysInv, [Next]_vars
    PROVE  \/ \E c \in Readers : BeginsRead(c)
           \/ \E d : BeginsWrite("rel_set", d)
           \/ \E c : EndsOk(c) \/ EndsError(c)
           \/ /\ client # "none" /\ client' = client
              /\ \E b \in SUBSET (Relays \cup Inputs) : Move(b)
           \/ UNCHANGED <<transfer, client>>
<1>1. CASE \E list \in Requests : SetRelays(list)
    BY <1>1, Zenon DEF SetRelays
<1>2. CASE SetRelaysOdd \/ Refuse \/ RelaysSettings \/ InputsSettings \/ World
    BY <1>2 DEF SetRelaysOdd, Refuse, RelaysSettings, InputsSettings, World
<1>3. CASE Serve
    BY <1>3, Zenon DEF Serve, rel_set
<1>4. CASE RelaysStart
    BY <1>4, Zenon DEF RelaysStart, rel_set, rel_read_state, rel_read_all, Readers
<1>5. CASE InputsStart
    BY <1>5, Zenon DEF InputsStart, inp_read_inputs, inp_on_timeout, inp_read_all, Readers
<1>6. CASE CallEnds
    BY <1>6, Zenon DEF CallEnds, SetEnds, RelSetOk, RelSetFails, RelReadStateOk, RelReadStateFails,
                       RelReadAllEnds, ReadInputsOk, ReadInputsFails, ReadAllEnds
<1>7. CASE RelayTakesByte
    <2>1. client = "rel_set" /\ Next1 <= 2 /\ Move(call.data[Next1]) /\ client' = client
        BY <1>7, Zenon DEF RelayTakesByte
    <2>2. Next1 \in 1..2
        BY <2>1 DEF Next1, BusInv
    <2>3. call.data[Next1] \in SUBSET (Relays \cup Inputs)
        BY <2>1, <2>2 DEF RelaysInv, InPlace
    <2>4. QED BY <2>1, <2>3, Zenon
<1>8. CASE RelayGivesByte
    <2>1. client \in Readers /\ Next1 <= 2 /\ Move(Port(RelayByte, wired)[Next1]) /\ client' = client
        BY <1>8, Zenon DEF RelayGivesByte, Readers
    <2>2. Next1 \in 1..2 /\ wired \in SUBSET Relays /\ RelayByte \in [Relays -> 1..2]
        BY <2>1, RelaysAssumption DEF Next1, BusInv, TypeOK, RelaysTypeOK
    <2>3. Port(RelayByte, wired)[Next1] \in SUBSET (Relays \cup Inputs)
        BY <2>2, PortShows
    <2>4. client # "none"
        BY <2>1 DEF Readers
    <2>5. QED BY <2>1, <2>3, <2>4, Zenon
<1>9. CASE InputGivesByte
    <2>1. client \in Readers /\ Next1 <= 2 /\ Move(Port(InputByte, lines)[Next1]) /\ client' = client
        BY <1>9, Zenon DEF InputGivesByte, Readers
    <2>2. Next1 \in 1..2 /\ lines \in SUBSET Inputs /\ InputByte \in [Inputs -> 1..2]
        BY <2>1, InputsAssumption DEF Next1, BusInv, TypeOK, InputsTypeOK
    <2>3. Port(InputByte, lines)[Next1] \in SUBSET (Relays \cup Inputs)
        BY <2>2, PortShows
    <2>4. client # "none"
        BY <2>1 DEF Readers
    <2>5. QED BY <2>1, <2>3, <2>4, Zenon
<1>10. CASE UNCHANGED vars
    BY <1>10 DEF vars
<1>11. QED
    BY <1>1, <1>2, <1>3, <1>4, <1>5, <1>6, <1>7, <1>8, <1>9, <1>10, Zenon DEF Next, BytesMove

LEMMA BusStep ==
    ASSUME TypeOK, BusInv, RelaysInv, [Next]_vars
    PROVE  BusInv'
<1> DEFINE S == SUBSET (Relays \cup Inputs)
<1>1. ASSUME NEW c \in Readers, BeginsRead(c)
      PROVE  BusInv'
    BY <1>1 DEF BeginsRead, Begins, Call, Idle, BusInv, Readers
<1>2. ASSUME NEW d, BeginsWrite("rel_set", d)
      PROVE  BusInv'
    BY <1>2 DEF BeginsWrite, Begins, Call, Idle, BusInv, Readers
<1>3. ASSUME NEW c, EndsOk(c) \/ EndsError(c)
      PROVE  BusInv'
    <2>1. client' = "none" /\ call' = NoCall /\ moved' = <<>>
        BY <1>3 DEF EndsOk, EndsError, ReturnOk, ReturnError
    <2>2. <<>> \in Seq(S) /\ Len(<<>>) = 0
        BY EmptySeq
    <2>3. QED BY <2>1, <2>2 DEF BusInv, Readers
<1>4. ASSUME client # "none", client' = client, NEW b \in S, Move(b)
      PROVE  BusInv'
    <2>1. /\ moved' = Append(moved, b) /\ call' = call /\ Len(moved) < call.size /\ call.size = 2
          /\ moved \in Seq(S)
        BY <1>4 DEF Move, Amount, BusInv
    <2>2. moved' \in Seq(S) /\ Len(moved') = Len(moved) + 1 /\ Len(moved) \in Nat
        BY <2>1, AppendProperties
    <2>3. QED BY <1>4, <2>1, <2>2 DEF BusInv
<1>5. CASE UNCHANGED <<transfer, client>>
    BY <1>5 DEF transfer, BusInv
<1>6. QED
    BY <1>1, <1>2, <1>3, <1>4, <1>5, BusSteps, Zenon

-----------------------------------------------------------------------------
(* The relays board. *)

RelayCalls == {"rel_set", "rel_read_state"}

\* What a step that is none of the board's own, and not one of a call that
\* sends or verifies, does to it.
LEMMA OtherRelaySteps ==
    ASSUME RelaysInv, UNCHANGED <<current_relays, wired, disturbed>>,
           \/ UNCHANGED <<transfer, client>>
           \/ client \notin RelayCalls /\ client' \notin RelayCalls
    PROVE  RelaysInv'
BY DEF RelaysInv, InPlace, Shows, transfer, RelayCalls

\* A new port is sent from its first byte on.
LEMMA SetBegins ==
    ASSUME TypeOK, BusInv, NEW id, NEW s, rel_set(id, s)
    PROVE  /\ client' = "rel_set" /\ client = "none" /\ current_relays' = current_relays
           /\ InPlace(RelayByte, Relays, call'.data, 2) /\ Lines(call'.data) = new_relays(id, s)
           /\ new_relays(id, s) \in SUBSET Relays /\ RelaysInv'
<1>1. new_relays(id, s) \in SUBSET Relays /\ RelayByte \in [Relays -> 1..2]
    BY RelaysAssumption DEF rel_set, rel_id_accepted, new_relays, TypeOK, RelaysTypeOK
<1>2. /\ client' = "rel_set" /\ client = "none" /\ current_relays' = current_relays /\ moved' = moved
      /\ call' = [type |-> "WRITE", size |-> 2, data |-> Port(RelayByte, new_relays(id, s))]
    BY DEF rel_set, BeginsWrite, Begins, Idle, Call
<1>3. call'.data = Port(RelayByte, new_relays(id, s))
    BY <1>2
<1>4. InPlace(RelayByte, Relays, call'.data, 2) /\ Lines(call'.data) = new_relays(id, s)
    BY <1>1, <1>3, PortShows
<1>5. Len(moved') = 0
    BY <1>2 DEF BusInv
<1>6. Shows(RelayByte, Relays, call'.data, Len(moved'), wired')
    <2>1. \A l \in Relays : ~(RelayByte[l] <= 0)
        BY <1>1
    <2>2. QED BY <1>5, <2>1 DEF Shows
<1>7. RelaysInv'
    <2>1. InPlace(RelayByte, Relays, call.data, 2)'
        BY <1>4 DEF InPlace
    <2>2. Shows(RelayByte, Relays, call.data, Len(moved), wired)'
        BY <1>6 DEF Shows
    <2>3. QED BY <1>2, <2>1, <2>2 DEF RelaysInv
<1>8. QED BY <1>1, <1>2, <1>4, <1>7

\* A port that was sent whole.
LEMMA SetEndsWell ==
    ASSUME TypeOK, BusInv, RelaysInv, RelSetOk
    PROVE  /\ client = "rel_set" /\ client' = "none" /\ outcome' = "OK" /\ RelaysInv'
           /\ current_relays' = Lines(call.data)
<1>1. /\ client = "rel_set" /\ client' = "none" /\ outcome' = "OK" /\ wired' = wired
      /\ current_relays' = Lines(call.data) /\ Len(moved) = 2
      /\ disturbed' = IF disturbed = "pending" THEN "no" ELSE disturbed
    BY DEF RelSetOk, EndsOk, ReturnOk, Amount, Settled, BusInv
<1>2. wired \in SUBSET Relays /\ RelayByte \in [Relays -> 1..2]
    BY RelaysAssumption DEF TypeOK, RelaysTypeOK
<1>3. disturbed # "yes" => wired = Lines(call.data)
    BY <1>1, <1>2, WholePort DEF RelaysInv
<1>4. RelaysInv'
    BY <1>1, <1>3 DEF RelaysInv
<1>5. QED BY <1>1, <1>4

LEMMA RelaysStep ==
    ASSUME TypeOK, BusInv, RelaysInv, [Next]_vars
    PROVE  RelaysInv'
<1>1. RelayByte \in [Relays -> 1..2] /\ wired \in SUBSET Relays /\ Len(moved) \in 0..2
    <2>1. RelayByte \in [Relays -> 1..2] /\ wired \in SUBSET Relays
        BY RelaysAssumption DEF TypeOK, RelaysTypeOK
    <2>2. Len(moved) \in 0..2
        BY LenInBounds
    <2>3. QED BY <2>1, <2>2
<1>2. CASE \E id, s : rel_set(id, s)
    BY <1>2, SetBegins
<1>3. CASE rel_read_state
    <2>1. client' = "rel_read_state" /\ moved' = <<>> /\ current_relays' = current_relays /\ wired' = wired
          /\ client = "none" /\ disturbed' = IF disturbed = "yes" THEN "pending" ELSE disturbed
        BY <1>3 DEF rel_read_state, BeginsRead, Begins, Idle, Call, BusInv, Settling
    <2>2. Len(moved') = 0
        BY <2>1
    <2>3. InPlace(RelayByte, Relays, moved, Len(moved))'
        BY <2>2 DEF InPlace
    <2>4. Shows(RelayByte, Relays, moved, Len(moved), wired)'
        BY <1>1, <2>2 DEF Shows
    <2>5. QED BY <2>1, <2>3, <2>4 DEF RelaysInv
<1>4. CASE RelSetOk
    BY <1>4, SetEndsWell
<1>5. CASE RelSetFails
    <2>1. client' = "none" /\ disturbed' = "yes"
        BY <1>5 DEF RelSetFails, EndsError
    <2>2. QED BY <2>1 DEF RelaysInv
<1>6. CASE RelReadStateOk
    <2>1. /\ client = "rel_read_state" /\ client' = "none" /\ wired' = wired
          /\ current_relays' = Lines(moved) /\ Len(moved) = 2
          /\ disturbed' = IF disturbed = "pending" THEN "no" ELSE disturbed
        BY <1>6 DEF RelReadStateOk, EndsOk, ReturnOk, Amount, Settled, BusInv
    <2>2. disturbed # "yes" => wired = Lines(moved)
        BY <1>1, <2>1, WholePort DEF RelaysInv
    <2>3. QED BY <2>1, <2>2 DEF RelaysInv
<1>7. CASE RelReadStateFails
    <2>1. /\ client = "rel_read_state" /\ client' = "none" /\ wired' = wired /\ current_relays' = current_relays
          /\ disturbed' = "no" => disturbed = "no"
        BY <1>7 DEF RelReadStateFails, EndsError
    <2>2. QED BY <2>1 DEF RelaysInv
<1>8. CASE RelayTakesByte
    <2> DEFINE n == Len(moved)
    <2>1. /\ client = "rel_set" /\ client' = client /\ call' = call /\ Len(moved') = n + 1 /\ n + 1 \in 1..2
          /\ wired' = {r \in wired : RelayByte[r] # n + 1} \cup call.data[n + 1]
          /\ UNCHANGED <<current_relays, disturbed>>
        BY <1>1, <1>8, AppendProperties DEF RelayTakesByte, Next1, Move, BusInv
    <2>2. InPlace(RelayByte, Relays, call.data, 2) /\ call.data[n + 1] \subseteq {r \in Relays : RelayByte[r] = n + 1}
        BY <2>1 DEF RelaysInv, InPlace
    <2>3. ASSUME Shows(RelayByte, Relays, call.data, n, wired)
          PROVE  Shows(RelayByte, Relays, call.data, n + 1, wired')
        <3>1. SUFFICES ASSUME NEW l \in Relays, RelayByte[l] <= n + 1
                       PROVE  l \in wired' <=> l \in call.data[RelayByte[l]]
            BY DEF Shows
        <3>2. CASE RelayByte[l] = n + 1
            BY <2>1, <3>2
        <3>3. CASE RelayByte[l] # n + 1
            <4>1. RelayByte[l] <= n
                BY <1>1, <3>1, <3>3
            <4>2. l \in wired <=> l \in call.data[RelayByte[l]]
                BY <2>3, <4>1 DEF Shows
            <4>3. l \in wired' <=> l \in wired
                BY <2>1, <2>2, <3>3
            <4>4. QED BY <4>2, <4>3
        <3>4. QED BY <3>2, <3>3
    <2>4. InPlace(RelayByte, Relays, call.data, 2)'
        BY <2>1, <2>2 DEF InPlace
    <2>5. disturbed # "yes" => Shows(RelayByte, Relays, call.data, Len(moved), wired)'
        BY <2>1, <2>3 DEF RelaysInv, Shows
    <2>6. QED BY <2>1, <2>4, <2>5 DEF RelaysInv
<1>9. CASE RelayGivesByte
    <2> DEFINE byte == Port(RelayByte, wired)[Len(moved) + 1]
    <2>1. /\ client \in {"rel_read_state", "rel_read_all"} /\ client' = client
          /\ moved' = Append(moved, byte) /\ Len(moved') = Len(moved) + 1 /\ Len(moved) < 2
          /\ UNCHANGED <<current_relays, wired, disturbed>>
        BY <1>1, <1>9, AppendProperties DEF RelayGivesByte, Next1, Move, BusInv
    <2>2. byte = {r \in wired : RelayByte[r] = Len(moved) + 1} /\ byte \in SUBSET (Relays \cup Inputs)
        BY <1>1, <2>1, PortShows
    <2>3. ASSUME InPlace(RelayByte, Relays, moved, Len(moved))
          PROVE  /\ InPlace(RelayByte, Relays, moved', Len(moved'))
                 /\ Shows(RelayByte, Relays, moved, Len(moved), wired)
                        => Shows(RelayByte, Relays, moved', Len(moved'), wired')
        <3> DEFINE S == SUBSET (Relays \cup Inputs)
        <3>1. moved \in Seq(S)
            BY DEF BusInv
        <3>2. byte \in S /\ Len(moved) < 2
            BY <2>1, <2>2
        <3> HIDE DEF byte, S
        <3>3. /\ InPlace(RelayByte, Relays, Append(moved, byte), Len(moved) + 1)
              /\ Shows(RelayByte, Relays, moved, Len(moved), wired)
                     => Shows(RelayByte, Relays, Append(moved, byte), Len(moved) + 1, wired)
            BY <1>1, <2>2, <2>3, <3>1, <3>2, NextByteRead
        <3>4. QED BY <2>1, <3>3
    <2>4. CASE client = "rel_read_state"
        <3>1. InPlace(RelayByte, Relays, moved, Len(moved))'
            BY <2>3, <2>4 DEF RelaysInv, InPlace
        <3>2. disturbed # "yes" => Shows(RelayByte, Relays, moved, Len(moved), wired)'
            BY <2>3, <2>4 DEF RelaysInv, Shows
        <3>3. QED BY <2>1, <2>4, <3>1, <3>2 DEF RelaysInv
    <2>5. CASE client = "rel_read_all"
        BY <2>1, <2>5, OtherRelaySteps DEF RelayCalls
    <2>6. QED BY <2>1, <2>4, <2>5
<1>10. CASE BoardResets /\ UNCHANGED <<transfer, client>>
    <2>1. disturbed' = "yes" /\ UNCHANGED <<client, call, moved>>
        BY <1>10 DEF BoardResets, transfer
    <2>2. QED BY <2>1 DEF RelaysInv, InPlace
<1>11. CASE \/ \E list \in Requests : SetRelays(list)
            \/ SetRelaysOdd \/ Refuse \/ RelaysSettings \/ InputsSettings
            \/ \E l \in Inputs : LineChanges(l) /\ UNCHANGED <<transfer, client, relaysVars, ntf>>
            \/ UNCHANGED vars
    <2>1. UNCHANGED <<transfer, client, current_relays, wired, disturbed>>
        BY <1>11 DEF SetRelays, SetRelaysOdd, Refuse, RelaysSettings, InputsSettings, relaysVars, vars,
                     rel_enable_verification, rel_disable_verification
    <2>2. QED BY <2>1, OtherRelaySteps
<1>12. CASE \/ rel_read_all
            \/ RelReadAllEnds
            \/ (inp_read_inputs \/ inp_on_timeout \/ inp_read_all) /\ UNCHANGED relaysVars
            \/ (ReadInputsOk \/ ReadInputsFails \/ ReadAllEnds) /\ UNCHANGED relaysVars
            \/ InputGivesByte /\ UNCHANGED relaysVars
    <2>1. client \notin RelayCalls /\ client' \notin RelayCalls
        BY <1>12 DEF rel_read_all, RelReadAllEnds, inp_read_inputs, inp_on_timeout, inp_read_all, BeginsRead,
                     Begins, Idle, ReadInputsOk, ReadInputsFails, ReadAllEnds, EndsOk, EndsError,
                     InputGivesByte, RelayCalls
    <2>2. UNCHANGED <<current_relays, wired, disturbed>>
        BY <1>12 DEF rel_read_all, RelReadAllEnds, relaysVars
    <2>3. QED BY <2>1, <2>2, OtherRelaySteps
<1>13. QED
    BY <1>2, <1>3, <1>4, <1>5, <1>6, <1>7, <1>8, <1>9, <1>10, <1>11, <1>12, Zenon
       DEF Next, Serve, RelaysStart, InputsStart, CallEnds, SetEnds, BytesMove, World

-----------------------------------------------------------------------------
(* The inputs board. *)

\* What a step that is not of the board or of a reading of it does to it.
LEMMA OtherInputSteps ==
    ASSUME InputsInv, UNCHANGED <<current_states, armed, lines, missed>>,
           \/ UNCHANGED <<transfer, client>>
           \/ client # "inp_read_inputs" /\ client' # "inp_read_inputs"
    PROVE  InputsInv'
BY DEF InputsInv, ChangePursued, InPlace, Shows, transfer

LEMMA InputsStep ==
    ASSUME TypeOK, BusInv, InputsInv, [Next]_vars
    PROVE  InputsInv'
<1>1. InputByte \in [Inputs -> 1..2] /\ lines \in SUBSET Inputs /\ Len(moved) \in 0..2
    <2>1. InputByte \in [Inputs -> 1..2] /\ lines \in SUBSET Inputs
        BY InputsAssumption DEF TypeOK, InputsTypeOK
    <2>2. QED BY <2>1, LenInBounds
<1>2. CASE inp_read_inputs \/ inp_on_timeout
    <2>1. client' = "inp_read_inputs" /\ moved' = <<>> /\ lines' = lines
        BY <1>2 DEF inp_read_inputs, inp_on_timeout, BeginsRead, Begins, Idle, Call, BusInv, inputsVars
    <2>2. Len(moved') = 0
        BY <2>1
    <2>3. InPlace(InputByte, Inputs, moved, Len(moved))'
        BY <2>2 DEF InPlace
    <2>4. Shows(InputByte, Inputs, moved, Len(moved), lines)'
        BY <1>1, <2>2 DEF Shows
    <2>5. QED BY <2>1, <2>3, <2>4 DEF InputsInv, ChangePursued
<1>3. CASE ReadInputsOk
    <2>1. /\ client = "inp_read_inputs" /\ client' = "none" /\ lines' = lines
          /\ current_states' = Lines(moved) /\ Len(moved) = 2
        BY <1>3 DEF ReadInputsOk, EndsOk, ReturnOk, Amount, BusInv
    <2>2. (armed => armed') /\ (missed /\ current_states' # lines => missed')
        BY <1>3, Zenon DEF ReadInputsOk
    <2>3. armed \/ missed \/ current_states' = lines
        BY <1>1, <2>1, WholePort DEF InputsInv
    <2>4. QED BY <2>1, <2>2, <2>3 DEF InputsInv, ChangePursued
<1>4. CASE ReadInputsFails
    <2>1. client' = "none" /\ missed'
        BY <1>4 DEF ReadInputsFails, EndsError
    <2>2. QED BY <2>1 DEF InputsInv, ChangePursued
<1>5. CASE InputGivesByte
    <2> DEFINE byte == Port(InputByte, lines)[Len(moved) + 1]
    <2>1. /\ client \in {"inp_read_inputs", "inp_read_all"} /\ client' = client
          /\ moved' = Append(moved, byte) /\ Len(moved') = Len(moved) + 1 /\ Len(moved) < 2
          /\ UNCHANGED <<current_states, lines>>
        BY <1>1, <1>5, AppendProperties DEF InputGivesByte, Next1, Move, BusInv
    <2>2. (armed => armed') /\ (missed => missed')
        BY <1>5, Zenon DEF InputGivesByte
    <2>3. byte = {l \in lines : InputByte[l] = Len(moved) + 1} /\ byte \in SUBSET (Relays \cup Inputs)
        BY <1>1, <2>1, PortShows
    <2>4. ASSUME InPlace(InputByte, Inputs, moved, Len(moved))
          PROVE  /\ InPlace(InputByte, Inputs, moved', Len(moved'))
                 /\ Shows(InputByte, Inputs, moved, Len(moved), lines)
                        => Shows(InputByte, Inputs, moved', Len(moved'), lines')
        <3> DEFINE S == SUBSET (Relays \cup Inputs)
        <3>1. moved \in Seq(S)
            BY DEF BusInv
        <3>2. byte \in S /\ Len(moved) < 2
            BY <2>1, <2>3
        <3> HIDE DEF byte, S
        <3>3. /\ InPlace(InputByte, Inputs, Append(moved, byte), Len(moved) + 1)
              /\ Shows(InputByte, Inputs, moved, Len(moved), lines)
                     => Shows(InputByte, Inputs, Append(moved, byte), Len(moved) + 1, lines)
            BY <1>1, <2>3, <2>4, <3>1, <3>2, NextByteRead
        <3>4. QED BY <2>1, <3>3
    <2>5. CASE client = "inp_read_inputs"
        <3>1. InPlace(InputByte, Inputs, moved, Len(moved))'
            BY <2>4, <2>5 DEF InputsInv, InPlace
        <3>2. armed \/ missed \/ Shows(InputByte, Inputs, moved, Len(moved), lines)'
            BY <2>4, <2>5 DEF InputsInv, Shows
        <3>3. QED BY <2>1, <2>2, <2>5, <3>1, <3>2 DEF InputsInv, ChangePursued
    <2>6. CASE client = "inp_read_all"
        BY <2>1, <2>2, <2>6 DEF InputsInv, ChangePursued
    <2>7. QED BY <2>1, <2>5, <2>6
<1>6. CASE \E l \in Inputs : LineChanges(l) /\ UNCHANGED <<transfer, client, relaysVars, ntf>>
    <2>1. armed' \/ missed'
        BY <1>6, Zenon DEF LineChanges, OnInterrupt, InputsTypeOK, TypeOK
    <2>2. UNCHANGED <<client, moved>>
        BY <1>6 DEF transfer
    <2>3. QED BY <2>1, <2>2 DEF InputsInv, ChangePursued, InPlace
<1>7. CASE \/ \E list \in Requests : SetRelays(list)
           \/ SetRelaysOdd \/ Refuse \/ RelaysSettings \/ InputsSettings
           \/ BoardResets /\ UNCHANGED <<transfer, client, inputsVars, ntf>>
           \/ UNCHANGED vars
    <2>1. UNCHANGED <<transfer, client, current_states, armed, lines, missed>>
        BY <1>7 DEF SetRelays, SetRelaysOdd, Refuse, RelaysSettings, InputsSettings, inputsVars, vars,
                    inp_enable_interrupt, inp_disable_interrupt, SetInterrupt,
                    inp_enable_periodic_update, inp_disable_periodic_update, SetPeriodicUpdate
    <2>2. QED BY <2>1, OtherInputSteps
<1>8. CASE \/ Serve \/ RelaysStart
           \/ SetEnds
           \/ (RelReadStateOk \/ RelReadStateFails \/ RelReadAllEnds) /\ UNCHANGED <<inputsVars, ntf>>
           \/ inp_read_all \/ ReadAllEnds
           \/ (RelayTakesByte \/ RelayGivesByte) /\ UNCHANGED <<inputsVars, ntf>>
    <2>1. client # "inp_read_inputs" /\ client' # "inp_read_inputs"
        BY <1>8 DEF Serve, RelaysStart, SetEnds, rel_set, rel_read_state, rel_read_all, inp_read_all,
                    BeginsRead, BeginsWrite, Begins, Idle, RelSetOk, RelSetFails, RelReadStateOk,
                    RelReadStateFails, RelReadAllEnds, ReadAllEnds, EndsOk, EndsError,
                    RelayTakesByte, RelayGivesByte
    <2>2. UNCHANGED inputsVars
        BY <1>8 DEF Serve, RelaysStart, SetEnds, inp_read_all, ReadAllEnds
    <2>3. UNCHANGED <<current_states, armed, lines, missed>>
        BY <2>2 DEF inputsVars
    <2>4. QED BY <2>1, <2>3, OtherInputSteps
<1>9. QED
    BY <1>2, <1>3, <1>4, <1>5, <1>6, <1>7, <1>8, Zenon
       DEF Next, InputsStart, CallEnds, BytesMove, World

-----------------------------------------------------------------------------
(* The requests. *)

\* One relay more of a request.
LEMMA OneMore ==
    ASSUME NEW k \in Nat, NEW on, NEW id, NEW s, Carried(k, on),
           asked[k + 1].id = id, asked[k + 1].state = s, NEW after,
           after = IF s = "ON" THEN on \cup {id} ELSE on \ {id}
    PROVE  Carried(k + 1, after)
<1>1. SUFFICES ASSUME NEW i \in 1..k + 1, asked[i].id \in Relays,
                      \A j \in i+1..k + 1 : asked[j].id # asked[i].id
               PROVE  asked[i].id \in after <=> asked[i].state = "ON"
    BY DEF Carried
<1>2. CASE i = k + 1
    BY <1>2
<1>3. CASE i \in 1..k
    <2>1. k + 1 \in i+1..k + 1 /\ \A j \in i+1..k : j \in i+1..k + 1
        BY <1>3
    <2>2. asked[i].id # id /\ \A j \in i+1..k : asked[j].id # asked[i].id
        BY <1>1, <2>1
    <2>3. asked[i].id \in on <=> asked[i].state = "ON"
        BY <1>1, <1>3, <2>2 DEF Carried
    <2>4. QED BY <2>2, <2>3
<1>4. QED BY <1>1, <1>2, <1>3

\* What is left of a request after its next relay.
LEMMA RestOfRequest ==
    ASSUME RequestInv, reply = "pending", todo # <<>>
    PROVE  /\ Tail(todo) \in Seq(Orders) /\ Len(Tail(todo)) = Len(todo) - 1
           /\ Len(todo) \in Nat \ {0} /\ Len(asked) \in Nat /\ Carrying \in Nat
           /\ todo[1] = asked[Carrying + 1]
           /\ \A i \in 1..Len(Tail(todo)) : Tail(todo)[i] = asked[Carrying + 1 + i]
<1>1. todo \in Seq(Orders) /\ asked \in Seq(Orders)
    BY RequestsAssumption DEF RequestInv, Orders
<1>2. Len(todo) <= Len(asked) /\ \A i \in 1..Len(todo) : todo[i] = asked[Carrying + i]
    BY DEF RequestInv
<1>3. Len(asked) \in Nat /\ Len(todo) \in Nat
    BY <1>1, LenProperties
<1>4. /\ Tail(todo) \in Seq(Orders) /\ Len(Tail(todo)) = Len(todo) - 1 /\ Len(todo) # 0
      /\ \A i \in 1..Len(todo) - 1 : Tail(todo)[i] = todo[i + 1]
    BY <1>1, HeadTailProperties, EmptySeq
<1>5. Carrying \in Nat
    BY <1>2, <1>3 DEF Carrying
<1>6. 1 \in 1..Len(todo) /\ \A i \in 1..Len(todo) - 1 : i + 1 \in 1..Len(todo)
    BY <1>3, <1>4
<1>7. \A i \in 1..Len(todo) - 1 : Carrying + (i + 1) = Carrying + 1 + i
    BY <1>3, <1>5
<1>8. \A i \in 1..Len(Tail(todo)) : Tail(todo)[i] = asked[Carrying + 1 + i]
    BY <1>2, <1>4, <1>6, <1>7
<1>9. QED BY <1>2, <1>3, <1>4, <1>5, <1>6, <1>8

LEMMA RequestStep ==
    ASSUME TypeOK, BusInv, RelaysInv, RequestInv, [Next]_vars
    PROVE  RequestInv'
<1>1. ASSUME NEW list \in Requests, SetRelays(list)
      PROVE  RequestInv'
    <2>1. /\ client' = "none" /\ asked' = list /\ todo' = list
          /\ reply' = IF list = <<>> THEN "OK" ELSE "pending"
        BY <1>1 DEF SetRelays, MainFree, Idle
    <2>2. list \in Seq(Orders)
        BY RequestsAssumption DEF Orders
    <2>3. Len(list) \in Nat /\ (list = <<>> => Len(list) = 0)
        BY <2>2, LenProperties, EmptySeq
    <2>4. Carrying' = 0
        BY <2>1, <2>3 DEF Carrying
    <2>5. Carried(0, current_relays)'
        BY DEF Carried
    <2>6. \A i \in 1..Len(list) : list[i] = list[0 + i]
        BY <2>3
    <2>7. CASE list = <<>>
        BY <2>1, <2>3, <2>5, <2>7 DEF RequestInv
    <2>8. CASE list # <<>>
        BY <2>1, <2>2, <2>3, <2>4, <2>5, <2>6, <2>8 DEF RequestInv
    <2>9. QED BY <2>7, <2>8
<1>2. CASE SetRelaysOdd \/ Refuse \/ RelaysStart \/ RelaysSettings \/ InputsStart \/ InputsSettings
    <2>1. reply' \in {"EMPTY", "NOK", "none"}
        BY <1>2 DEF SetRelaysOdd, Refuse, RelaysStart, RelaysSettings, InputsStart, InputsSettings, Other
    <2>2. QED BY <2>1 DEF RequestInv
<1>3. CASE Serve
    <2>1. /\ reply = "pending" /\ reply' = "pending" /\ asked' = asked /\ todo' = Tail(todo)
          /\ rel_set(todo[1].id, todo[1].state)
        BY <1>3 DEF Serve
    <2>2. /\ client' = "rel_set" /\ client = "none"
          /\ Lines(call'.data) = new_relays(todo[1].id, todo[1].state)
        BY <2>1, SetBegins
    <2>3. todo # <<>> /\ Carried(Carrying, current_relays) /\ asked \in Requests
        BY <2>1, <2>2 DEF RequestInv
    <2>4. /\ Tail(todo) \in Seq(Orders) /\ Len(Tail(todo)) = Len(todo) - 1
          /\ Len(todo) \in Nat \ {0} /\ Len(asked) \in Nat /\ Carrying \in Nat
          /\ todo[1] = asked[Carrying + 1]
          /\ \A i \in 1..Len(Tail(todo)) : Tail(todo)[i] = asked[Carrying + 1 + i]
        BY <2>1, <2>3, RestOfRequest
    <2>5. Carrying' = Carrying + 1
        BY <2>1, <2>4 DEF Carrying
    <2>6. Carried(Carrying + 1, Lines(call'.data))
        BY <2>2, <2>3, <2>4, OneMore DEF new_relays
    <2>7. Carried(Carrying, Lines(call.data))'
        BY <2>1, <2>5, <2>6 DEF Carried
    <2>8. Len(Tail(todo)) <= Len(asked)
        BY <2>4 DEF Carrying
    <2>9. \A i \in 1..Len(todo') : todo'[i] = asked'[Carrying' + i]
        BY <2>1, <2>4, <2>5
    <2>10. QED BY <2>1, <2>2, <2>3, <2>4, <2>7, <2>8, <2>9 DEF RequestInv
<1>4. CASE SetEnds
    <2>1. client = "rel_set" /\ client' = "none" /\ Served
        BY <1>4 DEF SetEnds, RelSetOk, RelSetFails, EndsOk, EndsError
    <2>2. CASE reply # "pending"
        BY <2>1, <2>2 DEF Served, ntf, RequestInv
    <2>3. CASE reply = "pending" /\ RelSetFails
        <3>1. outcome' # "OK"
            BY <2>3 DEF RelSetFails, EndsError, ReturnError
        <3>2. reply' = "NOK"
            BY <2>1, <2>3, <3>1 DEF Served
        <3>3. QED BY <3>2 DEF RequestInv
    <2>4. CASE reply = "pending" /\ RelSetOk
        <3>1. outcome' = "OK" /\ current_relays' = Lines(call.data)
            BY <2>4, SetEndsWell
        <3>2. Carried(Carrying, current_relays')
            BY <2>1, <2>4, <3>1 DEF RequestInv
        <3>3. asked' = asked /\ todo' = todo
            BY <2>1, <3>1 DEF Served, ntf
        <3>4. Carried(Carrying, current_relays)'
            BY <3>2, <3>3 DEF Carried, Carrying
        <3>5. CASE todo = <<>>
            <4>1. reply' = "OK"
                BY <2>1, <2>4, <3>1, <3>5 DEF Served
            <4>2. asked \in Seq(Orders)
                BY <2>4, RequestsAssumption DEF RequestInv, Orders
            <4>3. Len(asked) \in Nat /\ Len(todo) = 0
                BY <3>5, <4>2, LenProperties, EmptySeq
            <4>4. Carrying' = Len(asked')
                BY <3>3, <4>3 DEF Carrying
            <4>5. Carried(Len(asked), current_relays)'
                BY <3>4, <4>4 DEF Carried
            <4>6. QED BY <2>1, <4>1, <4>5 DEF RequestInv
        <3>6. CASE todo # <<>>
            <4>1. reply' = reply
                BY <2>1, <2>4, <3>1, <3>6 DEF Served, ntf
            <4>2. QED BY <2>1, <2>4, <3>3, <3>4, <3>6, <4>1 DEF RequestInv, Carrying
        <3>7. QED BY <3>5, <3>6
    <2>5. QED BY <1>4, <2>2, <2>3, <2>4 DEF SetEnds
<1>5. CASE \/ (RelReadStateOk \/ RelReadStateFails \/ RelReadAllEnds) /\ UNCHANGED <<inputsVars, ntf>>
           \/ (ReadInputsOk \/ ReadInputsFails \/ ReadAllEnds) /\ UNCHANGED <<relaysVars, ntf>>
    <2>1. client \in Readers
        BY <1>5 DEF RelReadStateOk, RelReadStateFails, RelReadAllEnds, ReadInputsOk, ReadInputsFails,
                    ReadAllEnds, EndsOk, EndsError, Readers
    <2>2. reply \notin {"pending", "OK"} /\ reply' = reply
        BY <1>5, <2>1 DEF Readers, ntf, RequestInv
    <2>3. QED BY <2>2 DEF RequestInv
<1>6. CASE \/ BytesMove \/ World \/ UNCHANGED vars
    <2>1. UNCHANGED <<client, call, current_relays, asked, todo, reply>>
        BY <1>6 DEF BytesMove, World, RelayTakesByte, RelayGivesByte, InputGivesByte, BoardResets, Move,
                    transfer, ntf, relaysVars, vars
    <2>2. QED BY <2>1 DEF RequestInv, Carried, Carrying
<1>7. QED
    BY <1>1, <1>2, <1>3, <1>4, <1>5, <1>6, Zenon DEF Next, CallEnds

-----------------------------------------------------------------------------
(* The types. *)

\* The lines of a whole port.
LEMMA LinesOf ==
    ASSUME NEW all, NEW ByteOf, NEW port, InPlace(ByteOf, all, port, 2)
    PROVE  Lines(port) \subseteq all
BY DEF InPlace, Lines

LEMMA RelaysTypes ==
    ASSUME TypeOK, BusInv, RelaysInv, [Next]_vars
    PROVE  RelaysTypeOK'
<1>1. CASE \E id, s : rel_set(id, s)
    BY <1>1 DEF rel_set, Settling, TypeOK, RelaysTypeOK
<1>2. CASE rel_read_state
    BY <1>2 DEF rel_read_state, Settling, TypeOK, RelaysTypeOK
<1>3. CASE RelSetOk
    <2>1. client = "rel_set" /\ current_relays' = Lines(call.data)
        BY <1>3 DEF RelSetOk, EndsOk
    <2>2. current_relays' \subseteq Relays
        BY <2>1, LinesOf DEF RelaysInv
    <2>3. QED BY <1>3, <2>2 DEF RelSetOk, Settled, TypeOK, RelaysTypeOK
<1>4. CASE RelReadStateOk
    <2>1. client = "rel_read_state" /\ Len(moved) = 2 /\ current_relays' = Lines(moved)
        BY <1>4 DEF RelReadStateOk, EndsOk, ReturnOk, Amount, BusInv
    <2>2. current_relays' \subseteq Relays
        BY <2>1, LinesOf DEF RelaysInv
    <2>3. QED BY <1>4, <2>2 DEF RelReadStateOk, Settled, TypeOK, RelaysTypeOK
<1>5. CASE RelSetFails \/ RelReadStateFails
    BY <1>5 DEF RelSetFails, RelReadStateFails, TypeOK, RelaysTypeOK
<1>6. CASE rel_enable_verification \/ rel_disable_verification
    BY <1>6 DEF rel_enable_verification, rel_disable_verification, TypeOK, RelaysTypeOK
<1>7. CASE RelayTakesByte
    <2>1. client = "rel_set" /\ Next1 <= 2 /\ wired' \subseteq wired \cup call.data[Next1]
        BY <1>7 DEF RelayTakesByte
    <2>2. Next1 \in 1..2
        BY <2>1, LenInBounds DEF Next1
    <2>3. wired' \subseteq Relays
        BY <2>1, <2>2 DEF RelaysInv, InPlace, TypeOK, RelaysTypeOK
    <2>4. QED BY <1>7, <2>3 DEF RelayTakesByte, TypeOK, RelaysTypeOK
<1>8. CASE BoardResets
    BY <1>8 DEF BoardResets, TypeOK, RelaysTypeOK
<1>9. CASE \/ \E list \in Requests : SetRelays(list)
           \/ SetRelaysOdd \/ Refuse \/ InputsStart \/ InputsSettings
           \/ rel_read_all \/ RelReadAllEnds \/ RelayGivesByte
           \/ (ReadInputsOk \/ ReadInputsFails \/ ReadAllEnds) /\ UNCHANGED <<relaysVars, ntf>>
           \/ InputGivesByte /\ UNCHANGED <<relaysVars, ntf>>
           \/ \E l \in Inputs : LineChanges(l) /\ UNCHANGED <<transfer, client, relaysVars, ntf>>
           \/ UNCHANGED vars
    <2>1. UNCHANGED relaysVars
        BY <1>9 DEF SetRelays, SetRelaysOdd, Refuse, InputsStart, InputsSettings, rel_read_all,
                    RelReadAllEnds, RelayGivesByte, relaysVars, vars
    <2>2. QED BY <2>1 DEF relaysVars, TypeOK, RelaysTypeOK
<1>10. QED
    BY <1>1, <1>2, <1>3, <1>4, <1>5, <1>6, <1>7, <1>8, <1>9, Zenon
       DEF Next, Serve, RelaysStart, RelaysSettings, CallEnds, SetEnds, BytesMove, World

LEMMA InputsTypes ==
    ASSUME TypeOK, BusInv, InputsInv, [Next]_vars
    PROVE  InputsTypeOK'
<1> DEFINE Flags == /\ autoupdate_enabled \in BOOLEAN /\ interrupt_enabled \in BOOLEAN
                    /\ armed \in BOOLEAN /\ missed \in BOOLEAN
           Sets  == current_states \subseteq Inputs /\ lines \subseteq Inputs /\ given \subseteq Inputs
<1>1. Flags /\ Sets
    BY Zenon DEF TypeOK, InputsTypeOK
<1>2. SUFFICES Flags' /\ Sets'
    BY Zenon DEF InputsTypeOK
<1>3. CASE inp_on_timeout
    BY <1>1, <1>3, Zenon DEF inp_on_timeout, settings
<1>4. CASE ReadInputsOk
    <2>1. client = "inp_read_inputs" /\ Len(moved) = 2 /\ current_states' = Lines(moved)
        BY <1>4 DEF ReadInputsOk, EndsOk, ReturnOk, Amount, BusInv
    <2>2. current_states' \subseteq Inputs
        BY <2>1, LinesOf DEF InputsInv
    <2>3. (missed /\ current_states' # lines) \in BOOLEAN
        BY Zenon
    <2>4. QED BY <1>1, <1>4, <2>2, <2>3, Zenon DEF ReadInputsOk, settings
<1>5. CASE ReadInputsFails
    BY <1>1, <1>5, Zenon DEF ReadInputsFails, settings
<1>6. CASE \/ inp_enable_interrupt \/ inp_disable_interrupt
           \/ inp_enable_periodic_update \/ inp_disable_periodic_update
    BY <1>1, <1>6, Zenon DEF inp_enable_interrupt, inp_disable_interrupt, SetInterrupt,
                             inp_enable_periodic_update, inp_disable_periodic_update, SetPeriodicUpdate
<1>7. CASE InputGivesByte
    <2>1. Next1 \in 1..2
        BY <1>7, LenInBounds DEF InputGivesByte, Next1
    <2>2. Port(InputByte, lines)[Next1] \subseteq Inputs
        BY <1>1, <2>1, InputsAssumption, PortShows
    <2>3. given' \subseteq Inputs
        BY <1>1, <1>7, <2>2 DEF InputGivesByte
    <2>4. (missed \/ (client = "inp_read_all" /\ given' # given /\ ~armed)) \in BOOLEAN
        BY Zenon
    <2>5. QED BY <1>1, <1>7, <2>3, <2>4, Zenon DEF InputGivesByte, settings
<1>8. ASSUME NEW l \in Inputs, LineChanges(l)
      PROVE  Flags' /\ Sets'
    <2>1. lines' \subseteq Inputs
        BY <1>1, <1>8 DEF LineChanges
    <2>2. /\ (missed \/ ~armed) \in BOOLEAN
          /\ (armed \/ interrupt_enabled) \in BOOLEAN /\ (missed \/ ~interrupt_enabled) \in BOOLEAN
        BY Zenon
    <2>3. QED BY <1>1, <1>8, <2>1, <2>2, Zenon DEF LineChanges, OnInterrupt, settings
<1>9. CASE \/ \E list \in Requests : SetRelays(list)
           \/ SetRelaysOdd \/ Serve \/ Refuse \/ RelaysStart \/ RelaysSettings
           \/ inp_read_inputs \/ inp_read_all \/ SetEnds
           \/ (RelReadStateOk \/ RelReadStateFails \/ RelReadAllEnds) /\ UNCHANGED <<inputsVars, ntf>>
           \/ ReadAllEnds
           \/ (RelayTakesByte \/ RelayGivesByte) /\ UNCHANGED <<inputsVars, ntf>>
           \/ BoardResets /\ UNCHANGED <<transfer, client, inputsVars, ntf>>
           \/ UNCHANGED vars
    <2>1. UNCHANGED inputsVars
        BY <1>9 DEF SetRelays, SetRelaysOdd, Serve, Refuse, RelaysStart, RelaysSettings, inp_read_inputs,
                    inp_read_all, SetEnds, ReadAllEnds, vars
    <2>2. UNCHANGED <<current_states, autoupdate_enabled, interrupt_enabled, armed, lines, given, missed>>
        BY <2>1, Zenon DEF inputsVars
    <2>3. QED BY <1>1, <2>2, Zenon
<1>10. QED
    BY <1>3, <1>4, <1>5, <1>6, <1>7, <1>8, <1>9, Zenon
       DEF Next, InputsStart, InputsSettings, CallEnds, BytesMove, World

LEMMA ReplyTypes ==
    ASSUME TypeOK, [Next]_vars
    PROVE  reply' \in {"none", "pending", "OK", "NOK", "EMPTY"}
<1>1. CASE \/ \E list \in Requests : SetRelays(list)
           \/ SetRelaysOdd \/ Refuse \/ RelaysStart \/ RelaysSettings \/ InputsStart \/ InputsSettings
    BY <1>1 DEF SetRelays, SetRelaysOdd, Refuse, RelaysStart, RelaysSettings, InputsStart, InputsSettings,
                Other
<1>2. CASE SetEnds
    BY <1>2 DEF SetEnds, Served, ntf, TypeOK
<1>3. CASE \/ Serve \/ BytesMove \/ World \/ UNCHANGED vars
           \/ (RelReadStateOk \/ RelReadStateFails \/ RelReadAllEnds) /\ UNCHANGED <<inputsVars, ntf>>
           \/ (ReadInputsOk \/ ReadInputsFails \/ ReadAllEnds) /\ UNCHANGED <<relaysVars, ntf>>
    <2>1. reply' = reply
        BY <1>3 DEF Serve, BytesMove, World, ntf, vars
    <2>2. QED BY <2>1 DEF TypeOK
<1>4. QED
    BY <1>1, <1>2, <1>3, Zenon DEF Next, CallEnds

-----------------------------------------------------------------------------
(* The invariant and what follows from it. *)

LEMMA BoardsStep ==
    ASSUME BoardsInv, [Next]_vars
    PROVE  BoardsInv'
<1>1. BusInv' /\ RelaysInv' /\ InputsInv' /\ RequestInv'
    BY BusStep, RelaysStep, InputsStep, RequestStep DEF BoardsInv
<1>2. RelaysTypeOK' /\ InputsTypeOK' /\ reply' \in {"none", "pending", "OK", "NOK", "EMPTY"}
    BY RelaysTypes, InputsTypes, ReplyTypes DEF BoardsInv
<1>3. TypeOK'
    BY <1>1, <1>2 DEF TypeOK, RequestInv
<1>4. QED BY <1>1, <1>3 DEF BoardsInv

LEMMA BoardsInit == Init => BoardsInv
<1> SUFFICES ASSUME Init
             PROVE  BoardsInv
    OBVIOUS
<1>1. /\ client = "rel_read_state" /\ call.size = 2 /\ call.type = "READ" /\ moved = <<>>
      /\ Len(moved) = 0 /\ moved \in Seq(SUBSET (Relays \cup Inputs))
      /\ disturbed = "pending" /\ reply = "none" /\ wired \in SUBSET Relays
    BY EmptySeq DEF Init, RelaysInit
<1>2. BusInv
    BY <1>1 DEF BusInv, Readers
<1>3. RelaysInv
    <2>1. \A r \in Relays : ~(RelayByte[r] <= 0)
        BY RelaysAssumption
    <2>2. QED BY <1>1, <2>1 DEF RelaysInv, InPlace, Shows
<1>4. armed
    BY Zenon DEF Init, InputsInit
<1>5. InputsInv /\ RequestInv
    BY <1>1, <1>4 DEF InputsInv, RequestInv, ChangePursued
<1>6. RelaysTypeOK
    BY DEF Init, RelaysInit, RelaysTypeOK
<1>7. InputsTypeOK
    <2>1. current_states \subseteq Inputs /\ lines \subseteq Inputs /\ given \subseteq Inputs
        BY DEF Init, InputsInit
    <2>2. /\ autoupdate_enabled \in BOOLEAN /\ interrupt_enabled \in BOOLEAN
          /\ armed \in BOOLEAN /\ missed \in BOOLEAN
        BY Zenon DEF Init, InputsInit
    <2>3. QED BY <2>1, <2>2, Zenon DEF InputsTypeOK
<1>8. QED BY <1>1, <1>2, <1>3, <1>5, <1>6, <1>7 DEF BoardsInv, TypeOK

(* The inductive invariant of both boards. *)
THEOREM BoardsInvariant == Spec => []BoardsInv
<1>1. BoardsInv /\ [Next]_vars => BoardsInv'
    BY BoardsStep
<1>2. QED BY BoardsInit, <1>1, PTL DEF Spec

(* Every variable of the boards and of the requests has its type, and a      *)
(* request in progress has a relay left or a write under way.                *)
THEOREM BoardsTypes == Spec => []TypeOK
<1>1. BoardsInv => TypeOK
    BY DEF BoardsInv
<1>2. QED BY <1>1, BoardsInvariant, PTL

(* Between calls the module believes what the board does, whatever calls came *)
(* in whatever order, unless a failure or a reset is not made up for yet.    *)
THEOREM BoardIsBelieved == Spec => []BoardAgrees
<1>1. BoardsInv => BoardAgrees
    BY DEF BoardsInv, RelaysInv, BoardAgrees, Idle
<1>2. QED BY <1>1, BoardsInvariant, PTL

(* A line that is out of date is being read, or its debounce task runs, or a *)
(* change of it went by.                                                     *)
THEOREM ChangesArePursued == Spec => []ChangePursued
<1>1. BoardsInv => ChangePursued
    BY DEF BoardsInv, InputsInv
<1>2. QED BY <1>1, BoardsInvariant, PTL

(* A client that is told OK finds the relays as its request left them, for   *)
(* requests of any length that name a relay any number of times.             *)
THEOREM RepliesAreTrue == Spec => []RepliesTrue
<1>1. BoardsInv => RepliesTrue
    <2>1. SUFFICES ASSUME BoardsInv, reply = "OK", NEW id \in Relays, NEW s \in Last(id)
                   PROVE  id \in current_relays <=> s = "ON"
        BY DEF RepliesTrue
    <2>2. PICK i \in 1..Len(asked) :
                /\ asked[i].id = id /\ asked[i].state = s
                /\ \A j \in i+1..Len(asked) : asked[j].id # id
        BY <2>1 DEF Last
    <2>3. Carried(Len(asked), current_relays)
        BY <2>1 DEF BoardsInv, RequestInv
    <2>4. QED BY <2>1, <2>2, <2>3 DEF Carried
<1>2. QED BY <1>1, BoardsInvariant, PTL
=============================================================================
