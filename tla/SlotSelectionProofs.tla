------------------------ MODULE SlotSelectionProofs ------------------------
(***************************************************************************)
(* What the candidates of a plan have to do with the slots that were       *)
(* picked, for every set of venues whose names may contain one another.    *)
(***************************************************************************)
EXTENDS SlotSelection, TLAPS

NamesOf(ct) ==
  [campus |-> CampusOf[SiteOf[ct.space]], venue |-> VenueOf[SiteOf[ct.space]]]

\* Listings name the site that was resolved, so every slot carries the names of
\* the site its space belongs to.
NamesInv == \A i \in DOMAIN picks : Key(picks[i]) = NamesOf(picks[i])

SportInv == picks # <<>> => \E s \in Sites : sport = SportOf[s]

PlanInv ==
  /\ phase = "picking" => todo = {} /\ \A ct \in Courts : found[ct] = 0
  /\ phase # "picking" => picks # <<>> /\ openAt = PlanOpenAt(picks)
  /\ phase \in {"planned", "resolved"} => todo = {}
  /\ todo \subseteq {Key(p) : p \in Picked}

\* A court was found by the group of its own names, which is done.
FoundInv ==
  \A ct \in Courts : found[ct] > 0 =>
    /\ found[ct] = 1 /\ NamesOf(ct) \notin todo
    /\ ReallyOpen(ct)
    /\ \E i \in DOMAIN picks : Wants(picks[i], ct)

SteadyInv == \A ct \in steady : Listed(ct) /\ Free(ct) /\ ReallyOpen(ct)

\* FoundWhenFree, group by group.
DoneInv ==
  phase \in {"resolving", "resolved"} =>
    \A i \in DOMAIN picks : \A ct \in steady :
      /\ Wants(picks[i], ct) /\ Sole(picks[i]) /\ Key(picks[i]) \notin todo \cup failed
      => found[ct] > 0

SInv == TypeOK /\ NamesInv /\ SportInv /\ PlanInv /\ FoundInv /\ SteadyInv /\ DoneInv

-----------------------------------------------------------------------------
(* Lemmas about the definitions. *)

OpenHours == {8, 9, 12, 18}

\* venueOpenHour knows four hours.
LEMMA HourKnown == \A campus, kind : VenueOpenHour(campus, kind) \in OpenHours
  BY DEF VenueOpenHour, OpenHours

\* A set of opening hours has an earliest one.
LEMMA Earliest ==
  ASSUME NEW S \in SUBSET OpenHours, S # {}
  PROVE  \E h \in S : \A g \in S : h <= g
<1>1. CASE 8 \in S
  BY <1>1 DEF OpenHours
<1>2. CASE 8 \notin S /\ 9 \in S
  BY <1>2 DEF OpenHours
<1>3. CASE 8 \notin S /\ 9 \notin S /\ 12 \in S
  BY <1>3 DEF OpenHours
<1>4. CASE S \subseteq {18}
  <2>1. 18 \in S
    BY <1>4
  <2> QED
    BY <1>4, <2>1
<1> QED
  BY <1>1, <1>2, <1>3, <1>4 DEF OpenHours

\* What CreatePlan stores is the least opening hour of the plan's slots.
LEMMA OpenAtIsLeast ==
  ASSUME picks # <<>>, picks \in Seq(Items)
  PROVE  /\ PlanOpenAt(picks) \in OpenHours
         /\ \A p \in Picked : PlanOpenAt(picks) <= OpensAt(p)
<1> DEFINE hours == {OpensAt(picks[i]) : i \in DOMAIN picks}
<1>1. hours \in SUBSET OpenHours
  BY HourKnown DEF OpensAt
<1>2. hours # {}
  <2>1. 1 \in DOMAIN picks
    OBVIOUS
  <2> QED
    BY <2>1
<1>3. \E h \in hours : \A g \in hours : h <= g
  <2> HIDE DEF hours
  <2> QED
    BY <1>1, <1>2, Earliest
<1>4. PlanOpenAt(picks) \in hours /\ \A g \in hours : PlanOpenAt(picks) <= g
  <2>1. PlanOpenAt(picks) = CHOOSE h \in hours : \A g \in hours : h <= g
    BY DEF PlanOpenAt
  <2> HIDE DEF hours
  <2> QED
    BY <1>3, <2>1
<1> QED
  BY <1>1, <1>4 DEF Picked

\* A window that is open stays open.
LEMMA StaysOpen ==
  ASSUME now \in Nat, now' \in Nat, now <= now',
         NEW campus, NEW kind, Open(campus, kind)
  PROVE  Open(campus, kind)'
  BY HourKnown DEF Open, OpenHours

\* Names by which a site can be asked for tell its opening hour.
LEMMA AskedHour ==
  ASSUME NEW s \in Sites, NEW k, k.campus = CampusOf[s], NEW u \in Sites, sport = SportOf[u],
         s \in Matching(sport, k.campus, k.venue)
  PROVE  VenueOpenHour(k.campus, sport) = VenueOpenHour(CampusOf[s], SportOf[s])
<1>1. TextMatches(SportOf[s], SportOf[u]) /\ TextMatches(CampusOf[s], CampusOf[s])
  BY DEF Matching, TextMatches
<1> QED
  BY <1>1, HoursOfNamesAssumption

\* A slot a user picks from a listing.
LEMMA PickedItem ==
  ASSUME NEW s \in Sites, NEW item \in ListSlots(SportOf[s], CampusOf[s], VenueOf[s])
  PROVE  /\ item.space \in Spaces
         /\ item = [campus |-> CampusOf[SiteOf[item.space]], venue |-> VenueOf[SiteOf[item.space]],
                    space |-> item.space, start |-> item.start]
         /\ item.start \in [clock : Clocks \cup {Blank}, dated : BOOLEAN]
<1>1. PICK t \in Sites, d \in BOOLEAN : item \in Shown(t, d)
  <2>1. PICK m \in Sites : item \in Shown(m, TRUE) \cup Template(m)
    BY DEF ListSlots, Matching
  <2>2. CASE item \in Shown(m, TRUE)
    BY <2>2
  <2>3. CASE item \in Template(m)
    BY <2>3 DEF Template, Matching
  <2> QED
    BY <2>1, <2>2, <2>3
<1>2. PICK ct \in Visited[t] : item = [campus |-> CampusOf[t], venue |-> VenueOf[t],
                                      space |-> ct.space, start |-> Text(ct.clock, d)]
  BY <1>1 DEF Shown
<1>3. ct \in Courts /\ SiteOf[ct.space] = t
  BY DayAssumption
<1>4. ct.space \in Spaces /\ ct.clock \in Clocks
  BY <1>3 DEF Courts
<1> QED
  BY <1>2, <1>3, <1>4 DEF Text

-----------------------------------------------------------------------------
(* Steps. *)

LEMMA InitSInv == Init => SInv
<1> SUFFICES ASSUME Init PROVE SInv
  OBVIOUS
<1> USE DEF Init
<1>1. TypeOK
  BY HoursAssumption DEF TypeOK, Names
<1>2. NamesInv /\ SportInv /\ PlanInv /\ FoundInv /\ SteadyInv /\ DoneInv
  BY DEF NamesInv, SportInv, PlanInv, FoundInv, SteadyInv, DoneInv
<1> QED
  BY <1>1, <1>2 DEF SInv

LEMMA PickKeeps == SInv /\ Pick => SInv'
<1> SUFFICES ASSUME SInv, Pick PROVE SInv'
  OBVIOUS
<1> USE DEF SInv
<1>1. PICK s \in Sites : \E item \in ListSlots(SportOf[s], CampusOf[s], VenueOf[s]) :
      \E start \in {item.start, Text(Blank, FALSE)} :
        sport' = SportOf[s] /\ picks' = Append(picks, [item EXCEPT !.start = start])
  BY DEF Pick
<1>2. PICK item \in ListSlots(SportOf[s], CampusOf[s], VenueOf[s]) :
      \E start \in {item.start, Text(Blank, FALSE)} :
        sport' = SportOf[s] /\ picks' = Append(picks, [item EXCEPT !.start = start])
  BY <1>1
<1>3. PICK start \in {item.start, Text(Blank, FALSE)} :
        sport' = SportOf[s] /\ picks' = Append(picks, [item EXCEPT !.start = start])
  BY <1>2
<1> DEFINE p == [item EXCEPT !.start = start]
<1>4. /\ item.space \in Spaces
      /\ item = [campus |-> CampusOf[SiteOf[item.space]], venue |-> VenueOf[SiteOf[item.space]],
                 space |-> item.space, start |-> item.start]
      /\ item.start \in [clock : Clocks \cup {Blank}, dated : BOOLEAN]
  BY PickedItem
<1>5. start \in [clock : Clocks \cup {Blank}, dated : BOOLEAN]
  <2>1. Text(Blank, FALSE) \in [clock : Clocks \cup {Blank}, dated : BOOLEAN]
    BY DEF Text
  <2> QED
    BY <1>4, <1>3, <2>1
<1>6. p = [campus |-> CampusOf[SiteOf[item.space]], venue |-> VenueOf[SiteOf[item.space]],
           space |-> item.space, start |-> start]
  BY <1>4
<1>7. p \in Items /\ Key(p) = NamesOf(p)
  BY <1>4, <1>5, <1>6, NamesAssumption, SpacesAssumption DEF Items, Key, NamesOf
<1>8. picks \in Seq(Items) /\ picks' = Append(picks, p)
  BY <1>3 DEF TypeOK
<1> HIDE DEF p
<1>9. /\ picks' \in Seq(Items) /\ picks' # <<>>
      /\ \A i \in DOMAIN picks' : picks'[i] = p \/ (i \in DOMAIN picks /\ picks'[i] = picks[i])
  BY <1>7, <1>8
<1>10. UNCHANGED <<now, phase, openAt, taken, todo, found, steady, failed>> /\ phase = "picking"
  BY DEF Pick
<1>11. TypeOK'
  BY <1>3, <1>9, <1>10, NamesAssumption DEF TypeOK
<1>12. NamesInv'
  BY <1>7, <1>9 DEF NamesInv, Key, NamesOf
<1>13. SportInv'
  BY <1>3 DEF SportInv
<1>14. PlanInv' /\ FoundInv'
  BY <1>10 DEF PlanInv, FoundInv
<1>15. SteadyInv' /\ DoneInv'
  BY <1>10 DEF SteadyInv, DoneInv, Listed, Free, ReallyOpen, Open
<1> QED
  BY <1>11, <1>12, <1>13, <1>14, <1>15

LEMMA CreatePlanKeeps == SInv /\ CreatePlan => SInv'
<1> SUFFICES ASSUME SInv, CreatePlan PROVE SInv'
  OBVIOUS
<1> USE DEF SInv, CreatePlan
<1>1. PlanOpenAt(picks) \in OpenHours
  BY OpenAtIsLeast DEF TypeOK
<1>2. TypeOK'
  BY <1>1 DEF TypeOK, OpenHours
<1>3. NamesInv' /\ SportInv'
  BY DEF NamesInv, SportInv
<1>4. PlanInv'
  BY DEF PlanInv, PlanOpenAt, OpensAt, Picked
<1>5. FoundInv' /\ SteadyInv' /\ DoneInv'
  BY DEF FoundInv, SteadyInv, DoneInv, Listed, Free, ReallyOpen, Open, PlanInv
<1> QED
  BY <1>2, <1>3, <1>4, <1>5

LEMMA ResolveKeeps == SInv /\ Resolve => SInv'
<1> SUFFICES ASSUME SInv, Resolve PROVE SInv'
  OBVIOUS
<1> USE DEF SInv, Resolve
<1>1. \A p \in Picked : Key(p) \in [campus : Names, venue : Names]
  <2> SUFFICES ASSUME NEW i \in DOMAIN picks
               PROVE  Key(picks[i]) \in [campus : Names, venue : Names]
    BY DEF Picked
  <2>1. picks[i] \in Items
    BY DEF TypeOK
  <2> QED
    BY <2>1 DEF Key, Items
<1>2. TypeOK'
  BY <1>1 DEF TypeOK
<1>3. NamesInv' /\ SportInv'
  BY DEF NamesInv, SportInv
<1>4. PlanInv'
  BY DEF PlanInv, PlanOpenAt, OpensAt, Picked
<1>5. FoundInv' /\ SteadyInv'
  BY DEF FoundInv, SteadyInv, Listed, Free, ReallyOpen, Open
<1>6. DoneInv'
  BY DEF DoneInv, Picked
<1> QED
  BY <1>2, <1>3, <1>4, <1>5, <1>6

\* The group k has been listed, and its names were answered by the site s.
LEMMA GroupFound ==
  ASSUME SInv, NEW k \in todo, NEW s \in Matching(sport, k.campus, k.venue),
         ResolveGroup(k), failed' = failed,
         found' = [ct \in Courts |->
                     found[ct] + IF Open(k.campus, sport) /\ ct \in Offers(s) THEN Copies(k, ct) ELSE 0]
  PROVE  SInv'
<1> USE DEF SInv
<1>1. /\ todo' = todo \ {k} /\ phase = "resolving"
      /\ UNCHANGED <<now, sport, picks, phase, openAt, taken, steady>>
  BY DEF ResolveGroup
<1>2. s \in Sites
  BY DEF Matching
<1>3. PICK u \in Sites : sport = SportOf[u]
  BY <1>1 DEF PlanInv, SportInv
<1>4. TypeOK'
  <2>1. \A ct \in Courts : Copies(k, ct) \in Nat
    BY DEF Copies
  <2> QED
    BY <1>1, <2>1 DEF TypeOK
<1>5. NamesInv' /\ SportInv'
  BY <1>1 DEF NamesInv, SportInv
<1>6. PlanInv'
  BY <1>1 DEF PlanInv, PlanOpenAt, OpensAt, Picked
<1>7. FoundInv'
  <2> SUFFICES ASSUME NEW ct \in Courts, found'[ct] > 0
               PROVE  /\ found'[ct] = 1 /\ NamesOf(ct) \notin todo'
                      /\ ReallyOpen(ct)
                      /\ \E i \in DOMAIN picks : Wants(picks[i], ct)
    BY <1>1 DEF FoundInv, ReallyOpen, Open
  <2>1. found[ct] \in Nat
    BY DEF TypeOK
  <2>2. CASE Open(k.campus, sport) /\ ct \in Offers(s) /\ Wishes(k, ct) # {}
    <3>1. Copies(k, ct) = 1 /\ found'[ct] = found[ct] + 1
      BY <2>2 DEF Copies
    <3>2. PICK i \in DOMAIN picks : Key(picks[i]) = k /\ Wants(picks[i], ct)
      BY <2>2 DEF Wishes
    <3>3. SiteOf[ct.space] = s
      BY <1>2, <2>2, DayAssumption DEF Offers
    <3>4. NamesOf(ct) = k
      BY <3>2 DEF NamesInv, NamesOf, Wants
    <3>5. found[ct] = 0
      BY <2>1, <3>4 DEF FoundInv
    <3>6. k.campus = CampusOf[s]
      BY <3>3, <3>4 DEF NamesOf
    <3>7. ReallyOpen(ct)
      <4>1. VenueOpenHour(k.campus, sport) = VenueOpenHour(CampusOf[s], SportOf[s])
        BY <1>2, <1>3, <3>6, AskedHour
      <4> QED
        BY <2>2, <3>3, <4>1 DEF ReallyOpen, Open
    <3> QED
      BY <1>1, <3>1, <3>2, <3>4, <3>5, <3>7
  <2>3. CASE ~(Open(k.campus, sport) /\ ct \in Offers(s) /\ Wishes(k, ct) # {})
    <3>1. found'[ct] = found[ct]
      BY <2>1, <2>3 DEF Copies
    <3> QED
      BY <1>1, <3>1 DEF FoundInv
  <2> QED
    BY <2>2, <2>3
<1>8. SteadyInv'
  BY <1>1 DEF SteadyInv, Listed, Free, ReallyOpen, Open
<1>9. DoneInv'
  <2> SUFFICES ASSUME NEW i \in DOMAIN picks, NEW ct \in steady,
                      Wants(picks[i], ct), Sole(picks[i]),
                      Key(picks[i]) \notin todo' \cup failed
               PROVE  found'[ct] > 0
    BY <1>1 DEF DoneInv, Sole, Wants, Key
  <2>1. ct \in Courts /\ found[ct] \in Nat
    BY DEF TypeOK
  <2>2. CASE Key(picks[i]) # k
    <3>1. found[ct] > 0
      BY <1>1, <2>2 DEF DoneInv
    <3>2. Copies(k, ct) \in Nat
      BY DEF Copies
    <3> QED
      BY <2>1, <3>1, <3>2
  <2>3. CASE Key(picks[i]) = k
    <3>1. k.campus = picks[i].campus /\ k.venue = picks[i].venue
      BY <2>3 DEF Key
    <3>2. s = SiteOf[picks[i].space] /\ picks[i].space = ct.space
      BY <1>2, <3>1 DEF Sole, Matching, TextMatches, Wants
    <3>3. k.campus = CampusOf[s]
      BY <2>3, <3>2 DEF NamesInv, NamesOf
    <3>4. VenueOpenHour(k.campus, sport) = VenueOpenHour(CampusOf[s], SportOf[s])
      BY <1>2, <1>3, <3>3, AskedHour
    <3>5. Listed(ct) /\ Free(ct) /\ ReallyOpen(ct)
      BY DEF SteadyInv
    <3>6. Open(k.campus, sport) /\ ct \in Offers(s)
      BY <3>2, <3>4, <3>5 DEF ReallyOpen, Open, Listed, Offers
    <3>7. Copies(k, ct) = 1
      BY <2>3 DEF Copies, Wishes
    <3> QED
      BY <2>1, <3>6, <3>7
  <2> QED
    BY <2>2, <2>3
<1> QED
  BY <1>4, <1>5, <1>6, <1>7, <1>8, <1>9

LEMMA ResolveGroupKeeps ==
  ASSUME SInv, NEW k \in todo, ResolveGroup(k) PROVE SInv'
<1>1. CASE \E s \in Matching(sport, k.campus, k.venue) :
             /\ found' = [ct \in Courts |->
                            found[ct] + IF Open(k.campus, sport) /\ ct \in Offers(s)
                                        THEN Copies(k, ct) ELSE 0]
             /\ UNCHANGED failed
  BY <1>1, GroupFound
<1>2. CASE failed' = failed \cup {k} /\ UNCHANGED found
  <2> USE DEF SInv
  <2>1. /\ todo' = todo \ {k} /\ phase = "resolving"
        /\ UNCHANGED <<now, sport, picks, phase, openAt, taken, steady>>
    BY DEF ResolveGroup
  <2>2. TypeOK'
    BY <1>2, <2>1 DEF TypeOK
  <2>3. NamesInv' /\ SportInv'
    BY <2>1 DEF NamesInv, SportInv
  <2>4. PlanInv'
    BY <1>2, <2>1 DEF PlanInv, PlanOpenAt, OpensAt, Picked
  <2>5. FoundInv'
    BY <1>2, <2>1 DEF FoundInv, ReallyOpen, Open
  <2>6. SteadyInv'
    BY <2>1 DEF SteadyInv, Listed, Free, ReallyOpen, Open
  <2>7. DoneInv'
    <3> SUFFICES ASSUME NEW i \in DOMAIN picks, NEW ct \in steady,
                        Wants(picks[i], ct), Sole(picks[i]),
                        Key(picks[i]) \notin todo' \cup failed'
                 PROVE  found[ct] > 0
      BY <1>2, <2>1 DEF DoneInv
    <3> QED
      BY <1>2, <2>1 DEF DoneInv
  <2> QED
    BY <2>2, <2>3, <2>4, <2>5, <2>6, <2>7
<1> QED
  BY <1>1, <1>2 DEF ResolveGroup

LEMMA PhaseKeeps == SInv /\ (Resolved \/ Retry) => SInv'
<1> SUFFICES ASSUME SInv, Resolved \/ Retry PROVE SInv'
  OBVIOUS
<1> USE DEF SInv
<1>1. /\ UNCHANGED <<now, sport, picks, openAt, taken, todo, found, steady, failed>>
      /\ phase \in {"resolving", "resolved"} /\ phase' \in {"planned", "resolved"}
      /\ todo = {}
  BY DEF Resolved, Retry, PlanInv
<1>2. TypeOK'
  BY <1>1 DEF TypeOK
<1>3. NamesInv' /\ SportInv'
  BY <1>1 DEF NamesInv, SportInv
<1>4. PlanInv'
  BY <1>1 DEF PlanInv, PlanOpenAt, OpensAt, Picked
<1>5. FoundInv' /\ SteadyInv'
  BY <1>1 DEF FoundInv, SteadyInv, Listed, Free, ReallyOpen, Open
<1>6. DoneInv'
  BY <1>1 DEF DoneInv
<1> QED
  BY <1>2, <1>3, <1>4, <1>5, <1>6

LEMMA TickKeeps == SInv /\ Tick => SInv'
<1> SUFFICES ASSUME SInv, Tick PROVE SInv'
  OBVIOUS
<1> USE DEF SInv
<1>1. /\ now' \in Hours /\ now' > now /\ now \in Hours
      /\ UNCHANGED <<sport, picks, phase, openAt, taken, todo, found, steady, failed>>
  BY DEF Tick, TypeOK
<1>2. now \in Nat /\ now' \in Nat /\ now <= now'
  BY <1>1, HoursAssumption
<1>3. \A ct : ReallyOpen(ct) => ReallyOpen(ct)'
  BY <1>2, HourKnown DEF ReallyOpen, Open, OpenHours
<1>4. TypeOK'
  BY <1>1 DEF TypeOK
<1>5. NamesInv' /\ SportInv'
  BY <1>1 DEF NamesInv, SportInv
<1>6. PlanInv'
  BY <1>1 DEF PlanInv, PlanOpenAt, OpensAt, Picked
<1>7. FoundInv'
  BY <1>1, <1>3 DEF FoundInv
<1>8. SteadyInv'
  BY <1>1, <1>3 DEF SteadyInv, Listed, Free
<1>9. DoneInv'
  BY <1>1 DEF DoneInv
<1> QED
  BY <1>4, <1>5, <1>6, <1>7, <1>8, <1>9

LEMMA OthersKeeps ==
  ASSUME SInv, NEW ct \in Courts, Others(ct) PROVE SInv'
<1> USE DEF SInv
<1>1. /\ UNCHANGED <<now, sport, picks, phase, openAt, todo, found, failed>>
      /\ \/ taken' = taken \cup {ct} /\ steady' = steady \ {ct}
         \/ taken' = taken \ {ct} /\ steady' = steady
  BY DEF Others
<1>2. TypeOK'
  BY <1>1 DEF TypeOK
<1>3. NamesInv' /\ SportInv'
  BY <1>1 DEF NamesInv, SportInv
<1>4. PlanInv'
  BY <1>1 DEF PlanInv, PlanOpenAt, OpensAt, Picked
<1>5. FoundInv'
  BY <1>1 DEF FoundInv, ReallyOpen, Open
<1>6. SteadyInv'
  BY <1>1 DEF SteadyInv, Listed, Free, ReallyOpen, Open
<1>7. DoneInv'
  <2>1. steady' \subseteq steady
    BY <1>1
  <2> QED
    BY <1>1, <2>1 DEF DoneInv
<1> QED
  BY <1>2, <1>3, <1>4, <1>5, <1>6, <1>7

LEMMA StepKeeps == SInv /\ [Next]_vars => SInv'
<1> SUFFICES ASSUME SInv, [Next]_vars PROVE SInv'
  OBVIOUS
<1>1. CASE Pick
  BY <1>1, PickKeeps
<1>2. CASE CreatePlan
  BY <1>2, CreatePlanKeeps
<1>3. CASE Resolve
  BY <1>3, ResolveKeeps
<1>4. CASE Resolved \/ Retry
  BY <1>4, PhaseKeeps
<1>5. CASE Tick
  BY <1>5, TickKeeps
<1>6. ASSUME NEW k \in todo, ResolveGroup(k) PROVE SInv'
  BY <1>6, ResolveGroupKeeps
<1>7. ASSUME NEW ct \in Courts, Others(ct) PROVE SInv'
  BY <1>7, OthersKeeps
<1>8. CASE UNCHANGED vars
  <2> USE <1>8 DEF SInv, vars
  <2>1. TypeOK' /\ NamesInv' /\ SportInv'
    BY DEF TypeOK, NamesInv, SportInv
  <2>2. PlanInv'
    BY DEF PlanInv, PlanOpenAt, OpensAt, Picked
  <2>3. FoundInv' /\ SteadyInv' /\ DoneInv'
    BY DEF FoundInv, SteadyInv, DoneInv, Listed, Free, ReallyOpen, Open
  <2> QED
    BY <2>1, <2>2, <2>3
<1> QED
  BY <1>1, <1>2, <1>3, <1>4, <1>5, <1>6, <1>7, <1>8 DEF Next

LEMMA Invariant == Spec => []SInv
  BY InitSInv, StepKeeps, PTL DEF Spec

-----------------------------------------------------------------------------
(* The theorems. *)

\* Selections are well formed, and a plan has the opening hour of a venue.
THEOREM SelectionTypeCorrect == Spec => []TypeOK
<1>1. SInv => TypeOK
  BY DEF SInv
<1> QED
  BY <1>1, Invariant, PTL

\* No court is a candidate twice, though groups may be answered by one venue.
THEOREM CandidatesAreDistinct == Spec => []Distinct
<1>1. SInv => Distinct
  BY DEF SInv, TypeOK, FoundInv, Distinct
<1> QED
  BY <1>1, Invariant, PTL

\* Every candidate is a slot somebody planned, in a window that has opened.
THEOREM CandidatesWereAsked == Spec => []OnlyAsked
<1>1. ASSUME SInv PROVE OnlyAsked
  <2> SUFFICES ASSUME NEW ct \in Courts, found[ct] > 0
               PROVE  /\ ReallyOpen(ct)
                      /\ \E p \in Picked : p.space = ct.space /\ p.start.clock \in {Blank, ct.clock}
    BY DEF OnlyAsked
  <2>1. PICK i \in DOMAIN picks : Wants(picks[i], ct)
    BY <1>1 DEF SInv, FoundInv
  <2>2. picks[i] \in Picked
    BY DEF Picked
  <2>3. picks[i].space = ct.space /\ picks[i].start.clock \in {Blank, ct.clock}
    BY <2>1 DEF Wants, FormatTimeOnly, Text
  <2> QED
    BY <1>1, <2>2, <2>3 DEF SInv, FoundInv
<1> QED
  BY <1>1, Invariant, PTL

\* A planned court that can be had is found, if no other venue answers to its names.
THEOREM FreeCourtsAreFound == Spec => []FoundWhenFree
<1>1. ASSUME SInv PROVE FoundWhenFree
  <2> SUFFICES ASSUME phase = "resolved", NEW i \in DOMAIN picks, NEW ct \in steady,
                      ct.space = picks[i].space, picks[i].start.clock \in {Blank, ct.clock},
                      Sole(picks[i]), Key(picks[i]) \notin failed
               PROVE  found[ct] > 0
    BY DEF FoundWhenFree
  <2>1. Wants(picks[i], ct)
    BY DEF Wants, FormatTimeOnly, Text
  <2> QED
    BY <1>1, <2>1 DEF SInv, DoneInv, PlanInv
<1> QED
  BY <1>1, Invariant, PTL

\* A plan is due once the window of any of its courts has opened.
THEOREM PlansAreDue == Spec => []DueWhenOpen
<1>1. ASSUME SInv PROVE DueWhenOpen
  <2> SUFFICES ASSUME phase = "planned", NEW p \in Picked, SportOf[SiteOf[p.space]] = sport,
                      NEW ct \in Courts, ct.space = p.space, ReallyOpen(ct)
               PROVE  openAt <= now
    BY DEF DueWhenOpen
  <2>1. Key(p) = NamesOf(p)
    BY <1>1 DEF SInv, NamesInv, Picked
  <2>2. p.campus = CampusOf[SiteOf[p.space]]
    BY <2>1 DEF Key, NamesOf
  <2>3. OpensAt(p) <= now
    BY <2>2 DEF OpensAt, ReallyOpen, Open
  <2>4. openAt \in OpenHours /\ openAt <= OpensAt(p) /\ now \in Nat
    BY <1>1, OpenAtIsLeast, HoursAssumption DEF SInv, PlanInv, TypeOK
  <2>5. OpensAt(p) \in OpenHours
    BY HourKnown DEF OpensAt
  <2> QED
    BY <2>3, <2>4, <2>5 DEF OpenHours
<1> QED
  BY <1>1, Invariant, PTL

=============================================================================
