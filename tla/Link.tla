-------------------------------- MODULE Link --------------------------------
(***************************************************************************)
(* What a rig link promises to the actor that holds its byte stream: the   *)
(* LinkStatus watch (serial.rs), which the serial, network and USB links   *)
(* publish and RigActor's link_status_changed relies on.                   *)
(*                                                                         *)
(* A link connects any number of times, each time with the next            *)
(* generation, counts the failures between two connections, never gives up *)
(* once it was connected, and closes for good, without undue delay, when   *)
(* its caller has dropped the stream.                                      *)
(***************************************************************************)
EXTENDS Naturals

VARIABLES
    held,        \* the caller holds its end of the byte stream
    status,      \* the variant of LinkStatus last published
    generation,  \* Connected.generation: times the link was opened; 0 for never
    attempt      \* Reconnecting.attempt

vars == <<held, status, generation, attempt>>

Statuses == {"Connected", "Reconnecting", "Closed"}

Init == held = TRUE /\ status = "Reconnecting" /\ generation = 0 /\ attempt = 0

Drop ==
    /\ held /\ held' = FALSE
    /\ UNCHANGED <<status, generation, attempt>>

Open ==
    /\ status = "Reconnecting"
    /\ status' = "Connected" /\ generation' = generation + 1 /\ attempt' = 0
    /\ UNCHANGED held

Lose ==
    /\ status = "Connected"
    /\ status' = "Reconnecting" /\ attempt' = 1
    /\ UNCHANGED <<held, generation>>

Retry ==
    /\ status = "Reconnecting"
    /\ attempt' = attempt + 1
    /\ UNCHANGED <<held, status, generation>>

\* Once connected, only the caller ends the link.
Close ==
    /\ status # "Closed" /\ (held => generation = 0)
    /\ status' = "Closed"
    /\ UNCHANGED <<held, generation, attempt>>

Next == Drop \/ Open \/ Lose \/ Retry \/ Close

Spec == Init /\ [][Next]_vars

\* A link whose caller has gone does not stay open.
Closes == ~held ~> status = "Closed"

FairSpec == Spec /\ Closes
=============================================================================
