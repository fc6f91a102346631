-------------------------- MODULE MCSlotSelection --------------------------
(***************************************************************************)
(* Five sites.  gym and tower have names of their own and open at 12 and   *)
(* 9; hall is told by the same names as tennis, and its name is contained  *)
(* in that of east.  The spaces of tower stand below an area.              *)
(***************************************************************************)
EXTENDS SlotSelection

MCWords == {"badminton", "tennis", "yuquan", "zijingang", "xixi", "gym", "hall", "east", "tower"}
MCSites == {"gym", "hall", "tennis", "east", "tower"}
MCSportOf == [s \in MCSites |-> IF s = "tennis" THEN {"tennis"} ELSE {"badminton"}]
MCCampusOf ==
  [s \in MCSites |-> CASE s = "gym" -> {"yuquan"} [] s = "tower" -> {"xixi"} [] OTHER -> {"zijingang"}]
MCVenueOf ==
  [s \in MCSites |-> CASE s = "tennis" -> {"hall"} [] s = "east" -> {"hall", "east"} [] OTHER -> {s}]
MCSpaces == {"g1", "h1", "t1", "e1", "w1"}
MCSiteOf ==
  [x \in MCSpaces |-> CASE x = "g1" -> "gym" [] x = "h1" -> "hall" [] x = "t1" -> "tennis"
                        [] x = "e1" -> "east" [] OTHER -> "tower"]
MCKids ==
  [n \in MCSites \cup {"floor"} \cup MCSpaces |->
     CASE n = "tower" -> {"floor"} [] n = "floor" -> {"w1"}
       [] n \in MCSites -> {x \in MCSpaces : MCSiteOf[x] = n} [] OTHER -> {}]
=============================================================================
