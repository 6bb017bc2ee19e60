------------------------ MODULE MCTripNotifications ------------------------
(* The instance of TripNotifications for TLC: drivers may be permuted. *)
EXTENDS TripNotifications, TLC

Symmetry == Permutations(Driver)
=============================================================================
