------------------------------- MODULE MCBoards -------------------------------
(* The boards for TLC: a relay and an input line in each byte of their ports. *)
EXTENDS Boards, TLC

CONSTANTS fan, bell, kitchen, attic

MCRelayByte == fan :> 1 @@ bell :> 2
MCInputByte == kitchen :> 1 @@ attic :> 2

Set(id, s) == [id |-> id, state |-> s]

MCRequests ==
    { <<>>, <<Set(fan, "ON")>>, <<Set(fan, "ON"), Set(bell, "ON")>>,
      <<Set(fan, "ON"), Set(fan, "OFF")>>, <<Set(bell, "ON"), Set("bad", "ON")>> }
=============================================================================
