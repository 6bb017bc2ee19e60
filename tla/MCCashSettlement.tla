-------------------------- MODULE MCCashSettlement --------------------------
(* Instances of CashSettlement for TLC.                                     *)
EXTENDS CashSettlement, TLC

CONSTANTS d1, o1, o2, c1

MCOrder == {o1, o2}
MCDriverOf == o1 :> d1 @@ o2 :> d1
MCTopupDriver == c1 :> d1
MCDeltas == {2}
Symmetry == Permutations(Worker) \cup Permutations(Order) \cup Permutations(Trip)
=============================================================================
