-------------------------- MODULE TransportContract --------------------------
(***************************************************************************)
(* What the print queue may rely on when it calls transport.print_plan:     *)
(* raster bytes reach the printer while the call runs, and the call returns *)
(* at most once.  A normal return means that the whole transfer raster      *)
(* arrived; a PrintTransportError carries a count that never exceeds what   *)
(* arrived; any other exception says nothing about what arrived.            *)
(***************************************************************************)
EXTENDS Integers

CONSTANT TotalBytes   \* the transfer raster's size

VARIABLES printed,    \* raster bytes the printer has received
          outcome,    \* "running", "ok", "error" or "raised"
          reported    \* raster_bytes_sent of the result or of the error

contractVars == <<printed, outcome, reported>>

Init ==
    /\ printed = 0
    /\ outcome = "running"
    /\ reported = 0

Transfer ==
    /\ outcome = "running"
    /\ printed' \in (printed + 1)..TotalBytes
    /\ UNCHANGED <<outcome, reported>>

Return ==
    /\ outcome = "running"
    /\ \/ outcome' = "ok"     /\ printed = TotalBytes /\ reported' = TotalBytes
       \/ outcome' = "error"  /\ reported' \in 0..printed
       \/ outcome' = "raised" /\ reported' = 0
    /\ UNCHANGED printed

Next == Transfer \/ Return

Spec == Init /\ [][Next]_contractVars
=============================================================================
