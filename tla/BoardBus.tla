------------------------------- MODULE BoardBus -------------------------------
(***************************************************************************)
(* The main loop's calls of the I2C driver on behalf of the boards.  The   *)
(* driver is taken by its specification, Transfer, which I2cDriver is      *)
(* shown to implement.  All the calls block the main loop, so the rest of  *)
(* the caller's function is one step with the return of the call.          *)
(*                                                                         *)
(* A port of a board is sixteen lines, given and taken as two bytes; a byte*)
(* is the set of its lines that are on.  The wires are active low: both    *)
(* boards invert what they send and what they receive.                     *)
(***************************************************************************)
EXTENDS Transfer

VARIABLES client        \* the function that waits for the driver

Idle == client = "none"

Begins(c, request) ==
    /\ Idle /\ client' = c
    /\ Call(request)

BeginsRead(c)     == Begins(c, [type |-> "READ", size |-> 2, data |-> <<>>])
BeginsWrite(c, d) == Begins(c, [type |-> "WRITE", size |-> 2, data |-> d])

EndsOk(c)    == client = c /\ client' = "none" /\ ReturnOk
EndsError(c) == client = c /\ client' = "none" /\ ReturnError

\* The byte that is on the bus next.
Next1 == Len(moved) + 1

\* The two bytes of the lines that are on, and back.
Port(ByteOf, on) == [b \in 1..2 |-> {l \in on : ByteOf[l] = b}]
Lines(port)      == port[1] \cup port[2]
=============================================================================
