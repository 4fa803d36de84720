--------------------------- MODULE I2cDriverProofs ---------------------------
(***************************************************************************)
(* Theorems about the I2C driver, for every size that a call may ask for,  *)
(* every timeout that may be set and any bytes: only a transfer of no bytes*)
(* leaves the buffer, the driver is free between two calls, and every call *)
(* is a Transfer.                                                          *)
(***************************************************************************)
EXTENDS I2cDriver, SequenceTheorems, TLAPS

-----------------------------------------------------------------------------
(* The inductive invariants. *)

\* FreeBetweenCalls needs that a transfer that ended well has let the bus go,
\* that the release of the driver comes with a free bus, and that no timeout
\* is half way between two calls.
FreeInv ==
    /\ FreeBetweenCalls
    /\ state = "END_OK" => BusIsLeft
    /\ main = "release" => BusIsLeft
    /\ main = "loop" => systick \in {"off", "call"}

\* How many bytes the call in progress moves, and a count of theirs in a byte.
ToMove     == IF request.size = 0 THEN ByteMod ELSE request.size
Wrapped(n) == IF n = ByteMod THEN 0 ELSE n

\* How far the peripheral is: a write has sent one byte more than the device
\* has taken.
DataInv ==
    /\ InsideBuffer
    /\ main # "loop" => request \in Calls
    /\ main # "loop" /\ request.type = "WRITE" => Len(buf) = request.size
    /\ bus \in {"start", "address"} => handled = 0 /\ MovedBytes = <<>>
    /\ bus = "data" => Len(MovedBytes) < ToMove
    /\ bus = "data" => handled = Wrapped(Len(MovedBytes) + (IF request.type = "WRITE" THEN 1 ELSE 0))

\* What is known of a call whose status was taken, and of a transfer that ended
\* well.
ResultInv ==
    /\ main \in {"watcher", "judge", "reset", "release"} => result # "UNKNOWN"
    /\ state = "END_OK" => Len(MovedBytes) = ToMove
    /\ main # "loop" /\ result = "OK" => BusIsLeft /\ Len(MovedBytes) = ToMove

I2cInv == I2cTypeOK /\ FreeInv /\ DataInv /\ ResultInv

-----------------------------------------------------------------------------
(* The driver is free between two calls. *)

\* Only a call that starts takes the bus, and only the release ends a call.
LEMMA FreeStep ==
    ASSUME FreeInv, [I2cNext]_i2c
    PROVE  FreeInv'
<1>1. ASSUME NEW n \in 0..BufferSize, NEW bytes \in [1..n -> Values], i2c_write(bytes)
      PROVE  FreeInv'
    BY <1>1 DEF i2c_write, Begin, At, FreeInv, FreeBetweenCalls, BusIsLeft
<1>2. ASSUME NEW n \in 0..BufferSize, i2c_read(n)
      PROVE  FreeInv'
    BY <1>2 DEF i2c_read, Begin, At, FreeInv, FreeBetweenCalls, BusIsLeft
<1>3. CASE Started
    BY <1>3 DEF Started, At, ArmTimeout, MarkStarted, FreeInv, FreeBetweenCalls, BusIsLeft
<1>4. CASE StopWaiting
    BY <1>4 DEF StopWaiting, At, FreeInv, FreeBetweenCalls, BusIsLeft
<1>5. CASE TakeStatus
    BY <1>5 DEF TakeStatus, At, i2c_get_status, FreeInv, FreeBetweenCalls, BusIsLeft
<1>6. CASE ClearReady
    BY <1>6 DEF ClearReady, At, FreeInv, FreeBetweenCalls, BusIsLeft
<1>7. CASE Judge
    BY <1>7 DEF Judge, At, i2c_get_status, FreeInv, FreeBetweenCalls, BusIsLeft
<1>8. CASE i2c_reset
    BY <1>8 DEF i2c_reset, At, FreeInv, FreeBetweenCalls, BusIsLeft
<1>9. CASE Release
    BY <1>9 DEF Release, At, FreeInv, FreeBetweenCalls, BusIsLeft
<1>10. CASE i2c_watcher
    BY <1>10 DEF i2c_watcher, At, i2c_get_status, FreeInv, FreeBetweenCalls, BusIsLeft
<1>11. CASE Tick
    BY <1>11 DEF Tick, Starting, FreeInv, FreeBetweenCalls, BusIsLeft
<1>12. CASE LookAtState
    BY <1>12 DEF LookAtState, FreeInv, FreeBetweenCalls, BusIsLeft
<1>13. CASE StoreError
    BY <1>13 DEF StoreError, FreeInv, FreeBetweenCalls, BusIsLeft
<1>14. CASE StoreReady
    BY <1>14 DEF StoreReady, FreeInv, FreeBetweenCalls, BusIsLeft
<1>15. CASE StartSent
    BY <1>15 DEF StartSent, FreeInv, FreeBetweenCalls, BusIsLeft
<1>16. CASE AddressTaken
    BY <1>16 DEF AddressTaken, FreeInv, FreeBetweenCalls, BusIsLeft
<1>17. ASSUME NEW b \in Values, ByteSent(b)
       PROVE  FreeInv'
    BY <1>17 DEF ByteSent, EndTransfer, EndTransferWith, FreeInv, FreeBetweenCalls, BusIsLeft
<1>18. ASSUME NEW b \in Values, ByteReceived(b)
      PROVE  FreeInv'
    BY <1>18 DEF ByteReceived, EndTransferWith, FreeInv, FreeBetweenCalls, BusIsLeft
<1>19. CASE UNCHANGED i2c
    BY <1>19 DEF i2c, FreeInv, FreeBetweenCalls, BusIsLeft
<1>20. ASSUME NEW n \in 0..(ByteMod - 1), Refuse(n)
       PROVE  FreeInv'
    BY <1>20 DEF Refuse, FreeInv, FreeBetweenCalls, BusIsLeft
<1>21. ASSUME NEW p \in Timeouts, i2c_set_timeout(p)
       PROVE  FreeInv'
    BY <1>21 DEF i2c_set_timeout, FreeInv, FreeBetweenCalls, BusIsLeft
<1>22. QED
    BY <1>20, <1>21, <1>1, <1>2, <1>3, <1>4, <1>5, <1>6, <1>7, <1>8, <1>9, <1>10, <1>11, <1>12, <1>13, <1>14, <1>15, <1>16, <1>17, <1>18, <1>19, Zenon DEF I2cNext, MainStep, i2c_on_timeout

-----------------------------------------------------------------------------
(* The bytes of a transfer. *)

\* The bytes that a write is called with.
LEMMA BytesOfWrite ==
    ASSUME NEW n \in 0..BufferSize, NEW bytes \in [1..n -> Values]
    PROVE  bytes \in Seq(Values) /\ Len(bytes) = n
<1>1. n \in Nat
    BY I2cAssumption
<1>2. QED BY <1>1

\* A count in a byte that grows by one.
LEMMA CountWraps ==
    ASSUME NEW h \in 0..(ByteMod - 1)
    PROVE  (h + 1) % ByteMod = Wrapped(h + 1)
<1>1. ByteMod \in Nat \ {0, 1}
    BY I2cAssumption
<1>2. CASE h + 1 = ByteMod
    BY <1>1, <1>2 DEF Wrapped
<1>3. CASE h + 1 # ByteMod
    <2>1. h + 1 \in 0..(ByteMod - 1)
        BY <1>1, <1>3
    <2>2. \A x \in 0..(ByteMod - 1) : x % ByteMod = x
        BY <1>1
    <2>3. QED BY <2>1, <2>2, <1>3 DEF Wrapped
<1>4. QED BY <1>2, <1>3

\* A call moves no more bytes than a byte counts.
LEMMA MovesAreCounted ==
    ASSUME request \in Calls
    PROVE  /\ request.size \in 0..BufferSize /\ request.type \in {"WRITE", "READ"}
           /\ ToMove \in 1..ByteMod
           /\ request.size # 0 => ToMove = request.size /\ request.size < ByteMod
BY I2cAssumption DEF Calls, ToMove

\* Neither the main loop in a call nor SysTick touches the bytes, and neither
\* takes the bus or ends a transfer well.
LEMMA Bookkeeping ==
    ASSUME MainStep \/ Tick \/ i2c_on_timeout
    PROVE  /\ UNCHANGED <<request, handled, buf, taken>>
           /\ bus' \in {bus, "free"}
           /\ main = "loop" => main' = "loop"
           /\ state' = "END_OK" => state = "END_OK"
<1>1. CASE MainStep
    BY <1>1 DEF MainStep, Started, ArmTimeout, MarkStarted, StopWaiting, TakeStatus, ClearReady,
                Judge, i2c_reset, Release, i2c_watcher, At
<1>2. CASE Tick \/ i2c_on_timeout
    BY <1>2 DEF Tick, i2c_on_timeout, LookAtState, StoreError, StoreReady
<1>3. QED BY <1>1, <1>2

\* The result of a call.
LEMMA StatusIsTrue ==
    ASSUME MainStep \/ Tick \/ i2c_on_timeout, FreeInv, ResultInv
    PROVE  ResultInv'
<1>1. /\ UNCHANGED <<request, handled, buf, taken>> /\ bus' \in {bus, "free"}
      /\ main = "loop" => main' = "loop"
      /\ state' = "END_OK" => state = "END_OK"
    BY Bookkeeping
<1>2. MovedBytes' = MovedBytes /\ ToMove' = ToMove /\ (BusIsLeft => BusIsLeft')
    BY <1>1 DEF MovedBytes, ToMove, BusIsLeft
<1>3. CASE TakeStatus
    BY <1>1, <1>2, <1>3 DEF TakeStatus, i2c_get_status, ResultInv, FreeInv
<1>4. CASE (MainStep /\ ~TakeStatus) \/ Tick \/ i2c_on_timeout
    <2>1. result' = result
        BY <1>4 DEF MainStep, Started, StopWaiting, ClearReady, Judge, i2c_reset, Release, i2c_watcher,
                    Tick, i2c_on_timeout, LookAtState, StoreError, StoreReady
    <2>2. main' \in {"watcher", "judge", "reset", "release"}
              => main \in {"watcher", "judge", "reset", "release"}
        BY <1>4 DEF MainStep, Started, StopWaiting, ClearReady, Judge, i2c_reset, Release, i2c_watcher, At,
                    Tick, i2c_on_timeout, LookAtState, StoreError, StoreReady
    <2>3. QED BY <1>1, <1>2, <2>1, <2>2 DEF ResultInv
<1>5. QED BY <1>3, <1>4

\* What is known when the device took a byte, and when it gave one.
LEMMA OfByteSent ==
    ASSUME I2cTypeOK, FreeInv, DataInv, NEW b \in Values, ByteSent(b)
    PROVE  /\ main # "loop" /\ request \in Calls /\ request.type = "WRITE" /\ bus = "data"
           /\ Len(taken) \in Nat /\ Len(taken) < ToMove /\ handled = Wrapped(Len(taken) + 1)
           /\ taken' \in Seq(Values) /\ Len(taken') = Len(taken) + 1
           /\ MovedBytes = taken /\ MovedBytes' = taken' /\ ToMove' = ToMove
<1>1. main # "loop" /\ bus = "data" /\ request.type = "WRITE" /\ taken' = Append(taken, b) /\ request' = request
    BY DEF ByteSent, FreeInv, FreeBetweenCalls, BusIsLeft
<1>2. request \in Calls
    BY <1>1 DEF DataInv
<1>3. taken \in Seq(Values) /\ Len(taken) \in Nat
    BY DEF I2cTypeOK
<1>4. MovedBytes = taken /\ MovedBytes' = taken' /\ ToMove' = ToMove
    BY <1>1 DEF MovedBytes, ToMove
<1>5. Len(taken) < ToMove /\ handled = Wrapped(Len(taken) + 1)
    BY <1>1, <1>4 DEF DataInv
<1>6. taken' \in Seq(Values) /\ Len(taken') = Len(taken) + 1
    BY <1>1, <1>3, AppendProperties
<1>7. QED BY <1>1, <1>2, <1>3, <1>4, <1>5, <1>6

LEMMA OfByteReceived ==
    ASSUME I2cTypeOK, FreeInv, DataInv, NEW b \in Values, ByteReceived(b)
    PROVE  /\ main # "loop" /\ request \in Calls /\ request.type = "READ" /\ bus = "data"
           /\ Len(buf) \in Nat /\ Len(buf) < ToMove /\ handled = Len(buf)
           /\ handled' = Wrapped(Len(buf) + 1)
           /\ buf' \in Seq(Values) /\ Len(buf') = Len(buf) + 1
           /\ MovedBytes = buf /\ MovedBytes' = buf' /\ ToMove' = ToMove
<1>1. /\ main # "loop" /\ bus = "data" /\ request.type = "READ" /\ buf' = Append(buf, b) /\ request' = request
      /\ handled' = (handled + 1) % ByteMod
    BY DEF ByteReceived, FreeInv, FreeBetweenCalls, BusIsLeft
<1>2. request \in Calls
    BY <1>1 DEF DataInv
<1>3. buf \in Seq(Values) /\ Len(buf) \in Nat /\ handled \in 0..(ByteMod - 1)
    BY DEF I2cTypeOK
<1>4. MovedBytes = buf /\ MovedBytes' = buf' /\ ToMove' = ToMove
    BY <1>1 DEF MovedBytes, ToMove
<1>5. Len(buf) < ToMove /\ handled = Wrapped(Len(buf))
    BY <1>1, <1>3, <1>4 DEF DataInv
<1>6. handled = Len(buf)
    BY <1>2, <1>3, <1>5, MovesAreCounted, I2cAssumption DEF Wrapped
<1>7. handled' = Wrapped(Len(buf) + 1)
    BY <1>1, <1>3, <1>6, CountWraps
<1>8. buf' \in Seq(Values) /\ Len(buf') = Len(buf) + 1
    BY <1>1, <1>3, AppendProperties
<1>9. QED BY <1>1, <1>2, <1>3, <1>4, <1>5, <1>6, <1>7, <1>8

\* Every step keeps the account of the bytes.
LEMMA BytesStep ==
    ASSUME I2cTypeOK, FreeInv, DataInv, ResultInv, [I2cNext]_i2c
    PROVE  DataInv' /\ ResultInv'
<1>1. ASSUME NEW n \in 0..BufferSize, NEW bytes \in [1..n -> Values], i2c_write(bytes)
      PROVE  DataInv' /\ ResultInv'
    <2>1. Len(bytes) = n
        BY BytesOfWrite
    <2>2. /\ request' = [type |-> "WRITE", size |-> n] /\ handled' = 0 /\ buf' = bytes /\ taken' = <<>>
          /\ bus' = "start" /\ main' = "begun" /\ result' = "UNKNOWN" /\ state' = "IDLE"
        BY <1>1, <2>1 DEF i2c_write, Begin, At, Accepted
    <2>3. request' \in Calls
        BY <2>2 DEF Calls
    <2>4. MovedBytes' = <<>> /\ InsideBuffer'
        BY <2>2, I2cAssumption DEF MovedBytes, InsideBuffer
    <2>5. QED BY <2>1, <2>2, <2>3, <2>4 DEF DataInv, ResultInv
<1>2. ASSUME NEW n \in 0..BufferSize, i2c_read(n)
      PROVE  DataInv' /\ ResultInv'
    <2>1. /\ request' = [type |-> "READ", size |-> n] /\ handled' = 0 /\ buf' = <<>> /\ taken' = <<>>
          /\ bus' = "start" /\ main' = "begun" /\ result' = "UNKNOWN" /\ state' = "IDLE"
        BY <1>2 DEF i2c_read, Begin, At, Accepted
    <2>2. request' \in Calls
        BY <2>1 DEF Calls
    <2>3. MovedBytes' = <<>> /\ InsideBuffer'
        BY <2>1, I2cAssumption DEF MovedBytes, InsideBuffer
    <2>4. QED BY <2>1, <2>2, <2>3 DEF DataInv, ResultInv
<1>3. ASSUME NEW n \in 0..(ByteMod - 1), Refuse(n)
      PROVE  DataInv' /\ ResultInv'
    <2>1. main = "loop" /\ result' = "UNKNOWN" /\ UNCHANGED <<state, request, handled, buf, bus, main, taken>>
        BY <1>3 DEF Refuse, At
    <2>2. MovedBytes' = MovedBytes /\ ToMove' = ToMove /\ (InsideBuffer => InsideBuffer')
        BY <2>1 DEF MovedBytes, ToMove, InsideBuffer
    <2>3. QED BY <2>1, <2>2 DEF DataInv, ResultInv
<1>4. ASSUME NEW p \in Timeouts, i2c_set_timeout(p)
      PROVE  DataInv' /\ ResultInv'
    <2>1. UNCHANGED <<state, request, handled, buf, bus, main, taken, result>>
        BY <1>4 DEF i2c_set_timeout
    <2>2. MovedBytes' = MovedBytes /\ ToMove' = ToMove /\ (BusIsLeft => BusIsLeft') /\ (InsideBuffer => InsideBuffer')
        BY <2>1 DEF MovedBytes, ToMove, BusIsLeft, InsideBuffer
    <2>3. QED BY <2>1, <2>2 DEF DataInv, ResultInv
<1>5. CASE MainStep \/ Tick \/ i2c_on_timeout
    <2>1. ResultInv'
        BY <1>5, StatusIsTrue
    <2>2. DataInv'
        <3>1. /\ UNCHANGED <<request, handled, buf, taken>> /\ bus' \in {bus, "free"}
              /\ main = "loop" => main' = "loop"
            BY <1>5, Bookkeeping
        <3>2. MovedBytes' = MovedBytes /\ ToMove' = ToMove /\ (InsideBuffer => InsideBuffer')
            BY <3>1 DEF MovedBytes, ToMove, InsideBuffer
        <3>3. QED BY <3>1, <3>2 DEF DataInv
    <2>3. QED BY <2>1, <2>2
<1>6. CASE StartSent
    BY <1>6 DEF StartSent, DataInv, ResultInv, MovedBytes, ToMove, InsideBuffer, BusIsLeft
<1>7. CASE AddressTaken
    <2>1. main # "loop" /\ request \in Calls
        BY <1>7 DEF AddressTaken, FreeInv, FreeBetweenCalls, BusIsLeft, DataInv
    <2>2. MovedBytes = <<>> /\ MovedBytes' = MovedBytes /\ handled = 0 /\ ToMove' = ToMove
        BY <1>7 DEF AddressTaken, DataInv, MovedBytes, ToMove
    <2>3. /\ request' = request /\ bus' = "data" /\ state' = "DATA_EXCHANGE" /\ result' = result
          /\ main' = main /\ buf' = buf
        BY <1>7 DEF AddressTaken
    <2>4. handled' = IF request.type = "WRITE" THEN 1 ELSE 0
        <3>1. handled' = IF request.type = "WRITE" THEN (handled + 1) % ByteMod ELSE handled
            BY <1>7 DEF AddressTaken
        <3>2. (0 + 1) % ByteMod = Wrapped(0 + 1)
            BY CountWraps, I2cAssumption
        <3>3. Wrapped(0 + 1) = 1
            BY I2cAssumption DEF Wrapped
        <3>4. QED BY <2>2, <3>1, <3>2, <3>3
    <2>5. result # "OK" \/ main = "loop"
        BY <1>7 DEF AddressTaken, ResultInv, BusIsLeft
    <2>6. Wrapped(0 + 1) = 1 /\ Wrapped(0 + 0) = 0 /\ Len(<<>>) = 0
        BY I2cAssumption DEF Wrapped
    <2>7. InsideBuffer'
        BY <2>1, <2>3, <2>4, MovesAreCounted, I2cAssumption DEF InsideBuffer
    <2>8. DataInv'
        <3>1. 0 < ToMove
            BY <2>1, MovesAreCounted, I2cAssumption
        <3>2. QED BY <2>1, <2>2, <2>3, <2>4, <2>6, <2>7, <3>1 DEF DataInv
    <2>9. ResultInv'
        BY <2>1, <2>3, <2>5 DEF ResultInv
    <2>10. QED BY <2>8, <2>9
<1>8. ASSUME NEW b \in Values, ByteSent(b)
      PROVE  DataInv' /\ ResultInv'
    <2>1. /\ main # "loop" /\ request \in Calls /\ request.type = "WRITE" /\ bus = "data"
          /\ Len(taken) \in Nat /\ Len(taken) < ToMove /\ handled = Wrapped(Len(taken) + 1)
          /\ Len(taken') = Len(taken) + 1 /\ MovedBytes' = taken' /\ ToMove' = ToMove
        BY <1>8, OfByteSent
    <2>2. UNCHANGED <<request, buf, main, result>>
        BY <1>8 DEF ByteSent
    <2>3. /\ request.size \in 0..BufferSize /\ ToMove \in 1..ByteMod
          /\ request.size # 0 => ToMove = request.size /\ request.size < ByteMod
        BY <2>1, MovesAreCounted
    <2>4. CASE handled # request.size
        <3>1. handled' = (handled + 1) % ByteMod /\ UNCHANGED <<state, bus>>
            BY <1>8, <2>4 DEF ByteSent
        <3>2. state # "END_OK" /\ result # "OK"
            BY <2>1, <3>1 DEF FreeInv, ResultInv, BusIsLeft
        <3>3. Len(taken) + 1 < ToMove /\ handled = Len(taken) + 1
            BY <2>1, <2>3, <2>4, I2cAssumption DEF Wrapped, ToMove
        <3>4. handled' = Wrapped(Len(taken) + 1 + 1)
            <4>1. handled \in 0..(ByteMod - 1)
                BY DEF I2cTypeOK
            <4>2. QED BY <3>1, <3>3, <4>1, CountWraps
        <3>5. InsideBuffer'
            BY <2>1, <2>2, <2>3, <3>3, <3>4, I2cAssumption DEF InsideBuffer, Wrapped
        <3>6. QED BY <2>1, <2>2, <3>1, <3>2, <3>3, <3>4, <3>5 DEF DataInv, ResultInv
    <2>5. CASE handled = request.size
        <3>1. handled' = handled /\ bus' = "free" /\ state' = "END_OK"
            BY <1>8, <2>5 DEF ByteSent, EndTransfer, EndTransferWith
        <3>2. Len(taken) + 1 = ToMove
            BY <2>1, <2>3, <2>5, I2cAssumption DEF Wrapped, ToMove
        <3>3. InsideBuffer' /\ BusIsLeft'
            BY <2>2, <3>1 DEF DataInv, InsideBuffer, BusIsLeft
        <3>4. QED BY <2>1, <2>2, <3>1, <3>2, <3>3 DEF DataInv, ResultInv
    <2>6. QED BY <2>4, <2>5
<1>9. ASSUME NEW b \in Values, ByteReceived(b)
      PROVE  DataInv' /\ ResultInv'
    <2>1. /\ main # "loop" /\ request \in Calls /\ request.type = "READ" /\ bus = "data"
          /\ Len(buf) \in Nat /\ Len(buf) < ToMove /\ handled = Len(buf) /\ handled' = Wrapped(Len(buf) + 1)
          /\ Len(buf') = Len(buf) + 1 /\ MovedBytes' = buf' /\ ToMove' = ToMove
        BY <1>9, OfByteReceived
    <2>2. UNCHANGED <<request, main, result>>
        BY <1>9 DEF ByteReceived
    <2>3. /\ request.size \in 0..BufferSize /\ ToMove \in 1..ByteMod
          /\ request.size # 0 => ToMove = request.size /\ request.size < ByteMod
        BY <2>1, MovesAreCounted
    <2>4. InsideBuffer'
        BY <2>1, <2>2, <2>3, I2cAssumption DEF InsideBuffer, Wrapped
    <2>5. CASE handled' # request.size
        <3>1. UNCHANGED <<state, bus>>
            BY <1>9, <2>5 DEF ByteReceived
        <3>2. state # "END_OK" /\ result # "OK"
            BY <2>1, <3>1 DEF FreeInv, ResultInv, BusIsLeft
        <3>3. Len(buf) + 1 < ToMove
            BY <2>1, <2>3, <2>5, I2cAssumption DEF Wrapped, ToMove
        <3>4. QED BY <2>1, <2>2, <2>4, <3>1, <3>2, <3>3 DEF DataInv, ResultInv
    <2>6. CASE handled' = request.size
        <3>1. bus' = (IF request.size = 0 THEN "held" ELSE "free") /\ state' = "END_OK"
            BY <1>9, <2>6 DEF ByteReceived, EndTransferWith
        <3>2. Len(buf) + 1 = ToMove
            BY <2>1, <2>3, <2>6, I2cAssumption DEF Wrapped, ToMove
        <3>3. BusIsLeft'
            BY <2>1, <2>2, <3>1 DEF BusIsLeft
        <3>4. QED BY <2>1, <2>2, <2>4, <3>1, <3>2, <3>3 DEF DataInv, ResultInv
    <2>7. QED BY <2>5, <2>6
<1>10. CASE UNCHANGED i2c
    BY <1>10 DEF i2c, DataInv, ResultInv, MovedBytes, ToMove, InsideBuffer, BusIsLeft
<1>11. QED
    BY <1>1, <1>2, <1>3, <1>4, <1>5, <1>6, <1>7, <1>8, <1>9, <1>10, Zenon DEF I2cNext

-----------------------------------------------------------------------------
(* Types. *)

LEMMA TypeStep ==
    ASSUME I2cTypeOK, FreeInv, DataInv, [I2cNext]_i2c
    PROVE  I2cTypeOK'
<1> USE I2cAssumption
<1>1. ASSUME NEW n \in 0..BufferSize, NEW bytes \in [1..n -> Values], i2c_write(bytes)
      PROVE  I2cTypeOK'
    <2>1. bytes \in Seq(Values) /\ Len(bytes) = n
        BY BytesOfWrite
    <2>2. QED BY <1>1, <2>1 DEF i2c_write, Begin, At, Accepted, I2cTypeOK, Calls, States, Results
<1>2. ASSUME NEW n \in 0..BufferSize, i2c_read(n)
      PROVE  I2cTypeOK'
    BY <1>2 DEF i2c_read, Begin, At, Accepted, I2cTypeOK, Calls, States, Results
<1>3. ASSUME NEW n \in 0..(ByteMod - 1), Refuse(n)
      PROVE  I2cTypeOK'
    BY <1>3 DEF Refuse, I2cTypeOK, Results
<1>4. ASSUME NEW p \in Timeouts, i2c_set_timeout(p)
      PROVE  I2cTypeOK'
    BY <1>4 DEF i2c_set_timeout, I2cTypeOK
<1>5. CASE MainStep
    <2>1. UNCHANGED <<request, handled, buf, taken, systick, ticked, timeout>>
        BY <1>5, Bookkeeping DEF MainStep, Started, StopWaiting, TakeStatus, ClearReady, Judge, i2c_reset,
                                 Release, i2c_watcher
    <2>2. ready' \in {0, 1} /\ timer' \in Nat /\ bus' \in {"free", "start", "address", "data", "held"}
        BY <1>5 DEF MainStep, Started, ArmTimeout, MarkStarted, StopWaiting, TakeStatus, ClearReady, Judge,
                    i2c_reset, Release, i2c_watcher, I2cTypeOK
    <2>3. /\ state' \in States /\ result' \in Results
          /\ main' \in {"loop", "begun", "half", "wait", "status", "watcher", "judge", "reset", "release"}
        BY <1>5 DEF MainStep, Started, ArmTimeout, MarkStarted, StopWaiting, TakeStatus, ClearReady, Judge,
                    i2c_reset, Release, i2c_watcher, i2c_get_status, States, Results, I2cTypeOK
    <2>4. QED BY <2>1, <2>2, <2>3 DEF I2cTypeOK
<1>6. CASE Tick \/ i2c_on_timeout
    BY <1>6 DEF Tick, i2c_on_timeout, LookAtState, StoreError, StoreReady, I2cTypeOK, States
<1>7. CASE StartSent
    BY <1>7 DEF StartSent, I2cTypeOK, States
<1>8. CASE AddressTaken
    <2>1. handled' \in 0..(ByteMod - 1)
        BY <1>8 DEF AddressTaken, I2cTypeOK
    <2>2. QED BY <1>8, <2>1 DEF AddressTaken, I2cTypeOK, States
<1>9. ASSUME NEW b \in Values, ByteSent(b)
      PROVE  I2cTypeOK'
    <2>1. /\ request \in Calls /\ Len(taken) \in Nat /\ Len(taken) < ToMove
          /\ taken' \in Seq(Values) /\ Len(taken') = Len(taken) + 1
        BY <1>9, OfByteSent
    <2>2. Len(taken') <= ByteMod
        BY <2>1, MovesAreCounted
    <2>3. handled' \in 0..(ByteMod - 1)
        BY <1>9 DEF ByteSent, I2cTypeOK
    <2>4. timer' \in Nat /\ ready' \in {0, 1} /\ state' \in States
          /\ bus' \in {"free", "start", "address", "data", "held"}
        BY <1>9 DEF ByteSent, EndTransfer, EndTransferWith, I2cTypeOK, States
    <2>5. UNCHANGED <<request, buf, timeout, main, systick, ticked, result>>
        BY <1>9 DEF ByteSent
    <2>6. QED BY <2>1, <2>2, <2>3, <2>4, <2>5 DEF I2cTypeOK
<1>10. ASSUME NEW b \in Values, ByteReceived(b)
       PROVE  I2cTypeOK'
    <2>1. /\ request \in Calls /\ Len(buf) \in Nat /\ Len(buf) < ToMove
          /\ buf' \in Seq(Values) /\ Len(buf') = Len(buf) + 1
        BY <1>10, OfByteReceived
    <2>2. Len(buf') <= ByteMod
        BY <2>1, MovesAreCounted
    <2>3. handled' \in 0..(ByteMod - 1)
        BY <1>10 DEF ByteReceived, I2cTypeOK
    <2>4. timer' \in Nat /\ ready' \in {0, 1} /\ state' \in States
          /\ bus' \in {"free", "start", "address", "data", "held"}
        BY <1>10 DEF ByteReceived, EndTransferWith, I2cTypeOK, States
    <2>5. UNCHANGED <<request, taken, timeout, main, systick, ticked, result>>
        BY <1>10 DEF ByteReceived
    <2>6. QED BY <2>1, <2>2, <2>3, <2>4, <2>5 DEF I2cTypeOK
<1>11. CASE UNCHANGED i2c
    BY <1>11 DEF i2c, I2cTypeOK
<1>12. QED
    BY <1>1, <1>2, <1>3, <1>4, <1>5, <1>6, <1>7, <1>8, <1>9, <1>10, <1>11, Zenon DEF I2cNext

LEMMA I2cInvariant == I2cSpec => []I2cInv
<1>1. I2cInit => I2cInv
    BY I2cAssumption, EmptySeq
       DEF I2cInit, I2cInv, I2cTypeOK, FreeInv, FreeBetweenCalls, BusIsLeft, DataInv, InsideBuffer,
           ResultInv, MovedBytes, States, Results, NoRequest
<1>2. I2cInv /\ [I2cNext]_i2c => I2cInv'
    BY FreeStep, BytesStep, TypeStep DEF I2cInv
<1>3. QED BY <1>1, <1>2, PTL DEF I2cSpec

(* Every variable of the driver keeps its type (I2C_DRIVER_TYPE), and no call*)
(* moves more bytes than the uint8_t of i2c_driver.bytes_handled counts.     *)
THEOREM I2cTypes == I2cSpec => []I2cTypeOK
<1>1. I2cInv => I2cTypeOK
    BY DEF I2cInv
<1>2. QED BY <1>1, I2cInvariant, PTL

(* No byte is handled beyond what a transfer of at least one byte asked for, *)
(* which is inside I2C_DRV_BUF, also when bytes come after the timeout       *)
(* (I2C1_EV_IRQHandler).  A transfer of no bytes, which i2c_write_async and  *)
(* i2c_read_async accept, is the exception: it does leave the buffer.        *)
THEOREM TransfersStayInside == I2cSpec => []InsideBuffer
<1>1. I2cInv => InsideBuffer
    BY DEF I2cInv, DataInv
<1>2. QED BY <1>1, I2cInvariant, PTL

(* Between two calls the driver accepts a call and the peripheral is idle,   *)
(* however the timeout raced the last byte of the call before (i2c_watcher), *)
(* whatever the timeout is set to.  Only a read of no bytes, which sends no  *)
(* stop, leaves the device held.                                             *)
THEOREM DriverIsFree == I2cSpec => []FreeBetweenCalls
<1>1. I2cInv => FreeBetweenCalls
    BY DEF I2cInv, FreeInv
<1>2. QED BY <1>1, I2cInvariant, PTL

-----------------------------------------------------------------------------
(* The driver implements Transfer. *)

\* The variables of Transfer under the mapping.
MappedCall    == IF main = "loop" THEN [type |-> "NONE", size |-> 0, data |-> <<>>] ELSE InProgress
MappedMoved   == IF main = "loop" THEN <<>> ELSE MovedBytes
MappedOutcome == IF main = "loop" THEN result ELSE "UNKNOWN"

\* The mapped call is read as such.
LEMMA CallsDiffer ==
    main # "loop" /\ request \in Calls => MappedCall # T!NoCall
BY DEF MappedCall, InProgress, T!NoCall, Calls

\* A call of the driver is one of Transfer.
LEMMA WriteIsCall ==
    ASSUME I2cInv, NEW n \in 0..BufferSize, NEW bytes \in [1..n -> Values], i2c_write(bytes)
    PROVE  \E c \in T!Writes \cup T!Reads : T!Call(c)
<1> DEFINE c == [type |-> "WRITE", size |-> n, data |-> bytes]
<1>1. Len(bytes) = n
    BY BytesOfWrite
<1>2. /\ request' = [type |-> "WRITE", size |-> n] /\ buf' = bytes /\ taken' = <<>>
      /\ main = "loop" /\ main' = "begun"
    BY <1>1 DEF i2c_write, Begin, At
<1>3. c \in T!Writes
    BY DEF T!Writes
<1>4. MappedCall = T!NoCall /\ MappedCall' = c
    BY <1>2 DEF MappedCall, InProgress, T!NoCall
<1>5. MappedMoved' = MappedMoved /\ MappedOutcome' = "UNKNOWN"
    BY <1>2 DEF MappedMoved, MovedBytes, MappedOutcome
<1>6. T!Call(c)
    BY <1>4, <1>5 DEF T!Call, MappedCall, MappedMoved, MovedBytes, MappedOutcome
<1>7. QED BY <1>3, <1>6

LEMMA ReadIsCall ==
    ASSUME I2cInv, NEW n \in 0..BufferSize, i2c_read(n)
    PROVE  \E c \in T!Writes \cup T!Reads : T!Call(c)
<1> DEFINE c == [type |-> "READ", size |-> n, data |-> <<>>]
<1>1. /\ request' = [type |-> "READ", size |-> n] /\ buf' = <<>>
      /\ main = "loop" /\ main' = "begun"
    BY DEF i2c_read, Begin, At
<1>2. c \in T!Reads
    BY DEF T!Reads
<1>3. MappedCall = T!NoCall /\ MappedCall' = c
    BY <1>1 DEF MappedCall, InProgress, T!NoCall
<1>4. MappedMoved' = MappedMoved /\ MappedOutcome' = "UNKNOWN"
    BY <1>1 DEF MappedMoved, MovedBytes, MappedOutcome
<1>5. T!Call(c)
    BY <1>3, <1>4 DEF T!Call, MappedCall, MappedMoved, MovedBytes, MappedOutcome
<1>6. QED BY <1>2, <1>5

\* A call that the driver refuses asks for too much: it is not busy.
LEMMA RefusalIsRefusal ==
    ASSUME I2cInv, NEW n \in 0..(ByteMod - 1), Refuse(n)
    PROVE  T!RefuseCall(n)
<1>1. main = "loop" /\ main' = "loop" /\ result' = "UNKNOWN" /\ ~Accepted(n)
    BY DEF Refuse, At
<1>2. n > BufferSize
    BY <1>1, I2cAssumption DEF I2cInv, FreeInv, FreeBetweenCalls, Accepted
<1>3. /\ MappedCall = T!NoCall /\ MappedCall' = MappedCall /\ MappedMoved' = MappedMoved
      /\ MappedOutcome' = "UNKNOWN"
    BY <1>1 DEF MappedCall, MappedMoved, MappedOutcome, T!NoCall
<1>4. QED BY <1>2, <1>3 DEF T!RefuseCall, MappedCall, MappedMoved, MappedOutcome

\* A byte that the device takes or gives is a Move.
LEMMA SentByteMoves ==
    ASSUME I2cInv, NEW b \in Values, ByteSent(b)
    PROVE  T!Move(b)
<1>1. /\ main # "loop" /\ request \in Calls /\ request.type = "WRITE"
      /\ Len(taken) \in Nat /\ Len(taken) < ToMove /\ handled = Wrapped(Len(taken) + 1)
      /\ MovedBytes = taken /\ MovedBytes' = taken'
    BY OfByteSent DEF I2cInv
<1>2. SentLast(b) /\ taken' = Append(taken, b) /\ UNCHANGED <<request, buf, main, result>>
    BY DEF ByteSent
<1>3. /\ MappedCall = InProgress /\ MappedCall' = InProgress /\ MappedMoved = taken
      /\ MappedMoved' = Append(taken, b) /\ MappedOutcome' = MappedOutcome
      /\ InProgress.size = request.size /\ InProgress.data = buf
    BY <1>1, <1>2 DEF MappedCall, MappedMoved, MappedOutcome, InProgress
<1>4. MappedCall # T!NoCall
    BY <1>1, CallsDiffer
<1>5. Len(taken) < T!Amount(MappedCall)
    BY <1>1, <1>3 DEF T!Amount, ToMove
<1>6. request.size # 0 => b = buf[Len(taken) + 1]
    <2>1. SUFFICES ASSUME request.size # 0 PROVE b = buf[Len(taken) + 1]
        OBVIOUS
    <2>2. request.size \in 0..BufferSize /\ request.size < ByteMod /\ ToMove = request.size
        BY <1>1, <2>1, MovesAreCounted
    <2>3. handled = Len(taken) + 1 /\ handled # 0 /\ handled \in 1..request.size
        BY <1>1, <2>2, I2cAssumption DEF Wrapped
    <2>4. buf \in Seq(Values) /\ Len(buf) = request.size
        BY <1>1 DEF I2cInv, DataInv, I2cTypeOK
    <2>5. handled \in DOMAIN buf
        BY <2>3, <2>4
    <2>6. QED BY <1>2, <2>3, <2>5 DEF SentLast
<1>7. QED BY <1>3, <1>4, <1>5, <1>6 DEF T!Move, MappedCall, MappedMoved, MappedOutcome

LEMMA ReceivedByteMoves ==
    ASSUME I2cInv, NEW b \in Values, ByteReceived(b)
    PROVE  T!Move(b)
<1>1. /\ main # "loop" /\ request \in Calls /\ request.type = "READ" /\ Len(buf) < ToMove
      /\ MovedBytes = buf /\ MovedBytes' = buf'
    BY OfByteReceived DEF I2cInv
<1>2. buf' = Append(buf, b) /\ UNCHANGED <<request, main, result>>
    BY DEF ByteReceived
<1>3. /\ MappedCall = InProgress /\ MappedCall' = InProgress /\ MappedMoved = buf
      /\ MappedMoved' = Append(buf, b) /\ MappedOutcome' = MappedOutcome
      /\ InProgress.size = request.size /\ InProgress.type = "READ"
    BY <1>1, <1>2 DEF MappedCall, MappedMoved, MappedOutcome, InProgress
<1>4. MappedCall # T!NoCall
    BY <1>1, CallsDiffer
<1>5. Len(buf) < T!Amount(MappedCall)
    BY <1>1, <1>3 DEF T!Amount, ToMove
<1>6. QED BY <1>3, <1>4, <1>5 DEF T!Move, MappedCall, MappedMoved, MappedOutcome

\* A call that returns has the result that its status was.
LEMMA ReleaseReturns ==
    ASSUME I2cInv, Release
    PROVE  T!ReturnOk \/ T!ReturnError
<1>1. main = "release" /\ main' = "loop" /\ UNCHANGED <<request, buf, taken, result>>
    BY DEF Release, At
<1>2. request \in Calls /\ result \in {"OK", "ERROR"}
    BY <1>1 DEF I2cInv, I2cTypeOK, DataInv, ResultInv, Results
<1>3. /\ MappedCall # T!NoCall /\ MappedCall = InProgress /\ InProgress.size = request.size
      /\ MappedMoved = MovedBytes
    BY <1>1, <1>2, CallsDiffer DEF MappedCall, MappedMoved, InProgress
<1>4. MappedCall' = T!NoCall /\ MappedMoved' = <<>> /\ MappedOutcome' = result
    BY <1>1 DEF MappedCall, MappedMoved, MappedOutcome, T!NoCall
<1>5. CASE result = "OK"
    <2>1. Len(MovedBytes) = ToMove
        BY <1>1, <1>5 DEF I2cInv, ResultInv
    <2>2. Len(MappedMoved) = T!Amount(MappedCall)
        BY <1>3, <2>1 DEF T!Amount, ToMove
    <2>3. T!ReturnOk
        BY <1>3, <1>4, <1>5, <2>2 DEF T!ReturnOk, MappedCall, MappedMoved, MappedOutcome
    <2>4. QED BY <2>3
<1>6. CASE result = "ERROR"
    <2>1. T!ReturnError
        BY <1>3, <1>4, <1>6 DEF T!ReturnError, MappedCall, MappedMoved, MappedOutcome
    <2>2. QED BY <2>1
<1>7. QED BY <1>2, <1>5, <1>6

\* Every other step changes nothing that Transfer knows of.
LEMMA OthersStutter ==
    ASSUME I2cInv, \/ MainStep /\ ~Release
                   \/ Tick \/ i2c_on_timeout \/ StartSent \/ AddressTaken
                   \/ \E p \in Timeouts : i2c_set_timeout(p)
                   \/ UNCHANGED i2c
    PROVE  UNCHANGED T!transfer
<1>1. UNCHANGED <<request, buf, taken>>
    BY Bookkeeping DEF StartSent, AddressTaken, i2c_set_timeout, i2c
<1>2. main' = "loop" <=> main = "loop"
    BY DEF MainStep, Started, StopWaiting, TakeStatus, ClearReady, Judge, i2c_reset, i2c_watcher, At,
           Tick, i2c_on_timeout, LookAtState, StoreError, StoreReady, StartSent, AddressTaken,
           i2c_set_timeout, i2c
<1>3. main = "loop" => result' = result
    BY DEF MainStep, Started, StopWaiting, TakeStatus, ClearReady, Judge, i2c_reset, i2c_watcher, At,
           Tick, i2c_on_timeout, LookAtState, StoreError, StoreReady, StartSent, AddressTaken,
           i2c_set_timeout, i2c
<1>4. InProgress' = InProgress /\ MovedBytes' = MovedBytes
    BY <1>1 DEF InProgress, MovedBytes
<1>5. QED BY <1>2, <1>3, <1>4 DEF T!transfer

\* Every step of the driver is one of Transfer, or none.
LEMMA StepIsTransfer ==
    ASSUME I2cInv, [I2cNext]_i2c
    PROVE  [T!TransferNext]_(T!transfer)
<1>1. ASSUME NEW n \in 0..BufferSize, NEW bytes \in [1..n -> Values], i2c_write(bytes)
      PROVE  T!TransferNext
    BY <1>1, WriteIsCall, Zenon DEF T!TransferNext
<1>2. ASSUME NEW n \in 0..BufferSize, i2c_read(n)
      PROVE  T!TransferNext
    BY <1>2, ReadIsCall, Zenon DEF T!TransferNext
<1>3. ASSUME NEW n \in 0..(ByteMod - 1), Refuse(n)
      PROVE  T!TransferNext
    BY <1>3, RefusalIsRefusal, Zenon DEF T!TransferNext
<1>4. ASSUME NEW b \in Values, ByteSent(b)
      PROVE  T!TransferNext
    BY <1>4, SentByteMoves, Zenon DEF T!TransferNext
<1>5. ASSUME NEW b \in Values, ByteReceived(b)
      PROVE  T!TransferNext
    BY <1>5, ReceivedByteMoves, Zenon DEF T!TransferNext
<1>6. CASE Release
    BY <1>6, ReleaseReturns, Zenon DEF T!TransferNext
<1>7. CASE \/ MainStep /\ ~Release
           \/ Tick \/ i2c_on_timeout \/ StartSent \/ AddressTaken
           \/ \E p \in Timeouts : i2c_set_timeout(p)
           \/ UNCHANGED i2c
    BY <1>7, OthersStutter, Zenon
<1>8. QED
    BY <1>1, <1>2, <1>3, <1>4, <1>5, <1>6, <1>7, Zenon DEF I2cNext

(* A call that returns OK has moved every byte of its own, once and in       *)
(* order, and no byte moves after the call: neither a timeout that came late,*)
(* nor what is left of the call before, nor a late byte breaks this          *)
(* (i2c_write, i2c_read, i2c_watcher, i2c_on_timeout, I2C1_EV_IRQHandler).   *)
(* Every size is in it: one above I2C_DRV_BUFFER_SIZE is refused, and size 0 *)
(* moves as many bytes as a uint8_t counts, whose content is not the call's. *)
THEOREM CallsAreTransfers == I2cSpec => ImplementsTransfer
<1>1. I2cInit => T!TransferInit
    BY DEF I2cInit, T!TransferInit, T!NoCall
<1>2. I2cInv /\ [I2cNext]_i2c => [T!TransferNext]_(T!transfer)
    BY StepIsTransfer
<1>3. QED BY <1>1, <1>2, I2cInvariant, PTL DEF I2cSpec, ImplementsTransfer, T!TransferSpec
=============================================================================
