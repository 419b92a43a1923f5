----------------------------- MODULE Settlement -----------------------------
(***************************************************************************)
(* services/engine/settlement.py: the arithmetic of a pot.  Amounts are    *)
(* integers in cents, so quantize(CENT, ROUND_DOWN) is integer division.   *)
(***************************************************************************)
EXTENDS Integers

\* Faulty variant: the share is rounded half up instead of down.
RoundedShare(derash, n) == (2 * derash + n) \div (2 * n)

\* compute_derash(): what the winners share.
Derash(pot, bps) == (pot * (10000 - bps)) \div 10000

\* compute_derash(): what the house keeps, rounding remainder included.
HouseCut(pot, bps) == pot - Derash(pot, bps)

\* split_derash(): one co-winner's share.
Share(derash, n) == derash \div n

\* split_derash(): the part of a cent nobody can be given goes to the house.
Leftover(derash, n) == derash - Share(derash, n) * n

\* What _settle_with_winners() posts to house_revenue.
HouseTotal(pot, bps, n) == HouseCut(pot, bps) + Leftover(Derash(pot, bps), n)

\* share is the largest number of whole cents that n winners can each be given
\* out of what a cut of bps leaves of the pot.
IsFairShare(share, pot, bps, n) ==
    /\ share * n * 10000 <= pot * (10000 - bps)
    /\ pot * (10000 - bps) < (share + 1) * n * 10000

\* The house has at least its cut, and nothing of the pot is lost or made up.
IsFullyPaid(share, house, pot, bps, n) ==
    /\ pot = n * share + house
    /\ house * 10000 >= pot * bps
=============================================================================
