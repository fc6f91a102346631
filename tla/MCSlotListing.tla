--------------------------- MODULE MCSlotListing ---------------------------
(* An instance of SlotListing: tomorrow, open, and a later date, which opens *)
(* at instant 1.                                                             *)
EXTENDS SlotListing

CONSTANTS c1, c2, c3, tomorrow, later

MCOpensAt == [d \in {tomorrow, later} |-> IF d = tomorrow THEN 0 ELSE 1]

=============================================================================
