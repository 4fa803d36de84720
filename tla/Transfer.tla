------------------------------- MODULE Transfer -------------------------------
(***************************************************************************)
(* What a blocking call of the I2C driver promises its caller: its bytes   *)
(* move one by one and in their order while it lasts, none of them moves   *)
(* after it, and it returns OK only when all of them have moved.  A call   *)
(* that asks for more bytes than the buffer has is refused; one that asks  *)
(* for none moves as many as a byte can count, whatever they are.          *)
(***************************************************************************)
EXTENDS Integers, Sequences

CONSTANTS
    BufferSize,     \* the longest transfer
    ByteMod,        \* the counters of the driver wrap here (256)
    Values          \* what a byte may be

Writes == UNION {[type : {"WRITE"}, size : {n}, data : [1..n -> Values]] : n \in 0..BufferSize}
Reads  == [type : {"READ"}, size : 0..BufferSize, data : {<<>>}]
NoCall == [type |-> "NONE", size |-> 0, data |-> <<>>]

\* The bytes that a call moves.
Amount(c) == IF c.size = 0 THEN ByteMod ELSE c.size

VARIABLES
    call,       \* the call in progress
    moved,      \* bytes that the device took or gave in it so far
    outcome     \* of the last call that returned

transfer == <<call, moved, outcome>>

TransferInit == call = NoCall /\ moved = <<>> /\ outcome = "UNKNOWN"

Call(c) ==
    /\ call = NoCall /\ call' = c
    /\ outcome' = "UNKNOWN"
    /\ UNCHANGED moved

RefuseCall(size) ==
    /\ call = NoCall /\ size > BufferSize
    /\ outcome' = "UNKNOWN"
    /\ UNCHANGED <<call, moved>>

Move(byte) ==
    /\ call # NoCall /\ Len(moved) < Amount(call)
    /\ call.type = "WRITE" /\ call.size # 0 => byte = call.data[Len(moved) + 1]
    /\ moved' = Append(moved, byte)
    /\ UNCHANGED <<call, outcome>>

ReturnOk ==
    /\ call # NoCall /\ call' = NoCall
    /\ Len(moved) = Amount(call)
    /\ outcome' = "OK" /\ moved' = <<>>

\* Also when all bytes have moved: the answer may have come too late.
ReturnError ==
    /\ call # NoCall /\ call' = NoCall
    /\ outcome' = "ERROR" /\ moved' = <<>>

TransferNext ==
    \/ \E c \in Writes \cup Reads : Call(c)
    \/ \E n \in 0..(ByteMod - 1) : RefuseCall(n)
    \/ \E b \in Values : Move(b)
    \/ ReturnOk \/ ReturnError

TransferSpec == TransferInit /\ [][TransferNext]_transfer
=============================================================================
