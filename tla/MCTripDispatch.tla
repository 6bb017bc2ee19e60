-------------------------- MODULE MCTripDispatch ---------------------------
(* Instances of TripDispatch for TLC: sets of model values and their symmetry. *)
\* Assignments are not permuted: Offer chooses the new row.
EXTENDS TripDispatch, TLC

Symmetry ==
  UNION {Permutations(S) : S \in {Trip, Driver, Worker}}
=============================================================================
