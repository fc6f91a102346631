--------------------------- MODULE MCReserveV2 ---------------------------
(* ReserveV2 on a small instance: two executions after the same court time. *)
EXTENDS ReserveV2

CONSTANTS c1, c2, s1

MCSlotOf == [c \in Calls |-> s1]
=============================================================================
