--------------------------- MODULE MCTripRequests ---------------------------
(* Instances of TripRequests for TLC: keys, passengers, trips and workers are *)
(* interchangeable.                                                           *)
EXTENDS TripRequests, TLC

Symmetry ==
  Permutations(Key) \cup Permutations(Passenger) \cup Permutations(Trip) \cup Permutations(Worker)
=============================================================================
