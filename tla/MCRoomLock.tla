----------------------------- MODULE MCRoomLock -----------------------------
(***************************************************************************)
(* Two engines and one room, with the code's TTL and interval in seconds:  *)
(* the calls of w1 answer or fail within a second, those of w2 take up to  *)
(* the socket timeout the client is configured with.                       *)
(***************************************************************************)
EXTENDS RoomLock, TLC

CONSTANTS w1, w2

Timeouts == (w1 :> 1) @@ (w2 :> 10)
=============================================================================
