------------------------------ MODULE MCBingo ------------------------------
(***************************************************************************)
(* Small rooms for TLC.  Player a may take card 1, player b card 2 or, in  *)
(* the larger room, fight a for card 1.                                    *)
(***************************************************************************)
EXTENDS BingoRound

CONSTANTS a, b,   \* the players
          e1, e2  \* the engines

OneSeat == {<<a, 1>>}
ThreeSeats == {<<a, 1>>, <<b, 2>>, <<b, 1>>}
FundsTwo == [u \in {a, b} |-> 20]

\* Card 1 wins on the first call; card 2 has a line then, and wins on the second.
LineAtCards == <<1, 1>>
WinAtCards == <<1, 2>>

\* Both cards win on the only call.
OneCall == <<1, 1>>
=============================================================================
