------------------------------- MODULE MCKeno -------------------------------
(***************************************************************************)
(* One engine, a player whose ticket wins a prize and the jackpot, and an   *)
(* autoplay session whose tickets lose.                                    *)
(***************************************************************************)
EXTENDS KenoRound, TLC

CONSTANTS e1, win, auto

Prizes == (win :> 30) @@ (auto :> 0)
Totals == auto :> 2
=============================================================================
