--------------------------- MODULE TripLifecycle ---------------------------
(***************************************************************************)
(* What the dispatch of a trip promises, without handlers, timers or the   *)
(* assignments table.  A trip is requested, is offered to one driver at a  *)
(* time, and either the driver who holds the offer takes it or the trip is *)
(* closed without a driver.  A taken trip keeps its driver and only moves  *)
(* forward.  TripDispatch implements this specification.                   *)
(***************************************************************************)
CONSTANTS Trip, Driver, NoDriver

VARIABLES
  status,   \* status[t]: the trip's current_status, or "none" before the request
  driver,   \* driver[t]: the driver the trip is assigned to, or NoDriver
  holder    \* holder[t]: the driver the trip is being offered to, or NoDriver

lvars == <<status, driver, holder>>

Init ==
  /\ status = [t \in Trip |-> "none"]
  /\ driver = [t \in Trip |-> NoDriver]
  /\ holder = [t \in Trip |-> NoDriver]

Move(t, from, to) ==
  /\ status[t] \in from
  /\ status' = [status EXCEPT ![t] = to]

Request(t) == Move(t, {"none"}, "pending") /\ UNCHANGED <<driver, holder>>

Assigning(t) == Move(t, {"pending"}, "assigning") /\ UNCHANGED <<driver, holder>>

Offer(t, d) ==
  /\ status[t] = "assigning"
  /\ holder[t] = NoDriver
  /\ holder' = [holder EXCEPT ![t] = d]
  /\ UNCHANGED <<status, driver>>

Withdraw(t) ==
  /\ holder' = [holder EXCEPT ![t] = NoDriver]
  /\ UNCHANGED <<status, driver>>

Take(t) ==
  /\ holder[t] \in Driver
  /\ Move(t, {"assigning"}, "accepted")
  /\ driver' = [driver EXCEPT ![t] = holder[t]]
  /\ holder' = [holder EXCEPT ![t] = NoDriver]

Close(t) ==
  /\ Move(t, {"pending", "assigning"}, "no_drivers_found")
  /\ holder' = [holder EXCEPT ![t] = NoDriver]
  /\ UNCHANGED driver

Advance(t) ==
  /\ \/ Move(t, {"accepted"}, "arriving")
     \/ Move(t, {"accepted", "arriving"}, "in_progress")
     \/ Move(t, {"in_progress"}, "completed")
  /\ UNCHANGED <<driver, holder>>

Next == \E t \in Trip :
  \/ Request(t) \/ Assigning(t) \/ Withdraw(t) \/ Take(t) \/ Close(t) \/ Advance(t)
  \/ \E d \in Driver : Offer(t, d)

Spec == Init /\ [][Next]_lvars
=============================================================================
