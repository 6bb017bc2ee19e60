----------------------- MODULE MCDriverAvailability -----------------------
(***************************************************************************)
(* A small instance of DriverAvailability for TLC.                         *)
(***************************************************************************)
EXTENDS DriverAvailability

CONSTANTS d1, d2, v1

=============================================================================
