--------------------------- MODULE MCReservation ---------------------------
(* Reservation on small instances: two court times whose windows open at two *)
(* different instants, and a reservation date that passes after both.        *)
EXTENDS Reservation, TLC

CONSTANTS s1, s2

MCSlots == {s1, s2}
MCOpenAt == s1 :> 1 @@ s2 :> 2
=============================================================================
