--------------------------- MODULE SlotSelection ---------------------------
(***************************************************************************)
(* From the courts a user picks in a listing to the candidates of the plan *)
(* made of them: ListVenues, ListSlots and ListTemplates seen as a search  *)
(* by names, venueOpenHour and reserveOpenAt, CreatePlan, and              *)
(* resolvePreferredSlots (internal/service/reservation_service.go).        *)
(*                                                                         *)
(* Between the listing and the plan's turn hours pass; while the plan is   *)
(* resolved, venue by venue, others book.                                  *)
(*                                                                         *)
(* A name is the set of its words: "contains" is inclusion, a blank name is*)
(* {}.  A time is told by its clock and by whether it has a date in front. *)
(* Instants are hours of the day two days before the reservation date.     *)
(***************************************************************************)
EXTENDS Naturals, Sequences

CONSTANTS
  Words,     \* the words names are made of
  Sites,     \* the venue objects of TYYS, one per sport of a venue
  SportOf, CampusOf, VenueOf,   \* site -> name
  Spaces,    \* the courts of all sites, told apart by spaceId
  SiteOf,    \* space -> its site
  Areas,     \* objects of a day's data that hold spaces
  Kids,      \* the tree of a day's data: site or area -> areas and spaces
  Clocks,    \* the times of day at which slots start
  Blank,     \* no time given: any will do
  Hours,     \* the hours at which something happens
  MaxPicks,  \* bound on the slots of a plan
  Faults     \* "venue", "day": the call that may fail

Names == SUBSET Words
Nodes == Sites \cup Areas \cup Spaces
Courts == [space : Spaces, clock : Clocks]

ASSUME NamesAssumption == \A f \in {SportOf, CampusOf, VenueOf} : f \in [Sites -> Names \ {{}}]
ASSUME SpacesAssumption == SiteOf \in [Spaces -> Sites] /\ Kids \in [Nodes -> SUBSET Nodes]
ASSUME HoursAssumption == Hours \subseteq Nat /\ 0 \in Hours /\ MaxPicks \in Nat
ASSUME BlankAssumption == Blank \notin Clocks
ASSUME FaultsAssumption == Faults \subseteq {"venue", "day"}

VARIABLES
  now,      \* the hour
  sport,    \* the sport the user asks for
  picks,    \* the slots picked, later those of the plan
  phase,    \* "picking", "planned", "resolving", "resolved"
  openAt,   \* the plan's reserve_open_at
  taken,    \* the courts TYYS shows as taken
  todo,     \* groups of the plan still to be listed, by their names
  found,    \* court -> how often it is among the candidates
  steady,   \* courts listed, open and free since the plan's turn began
  failed    \* groups whose listing failed

vars == <<now, sport, picks, phase, openAt, taken, todo, found, steady, failed>>

-----------------------------------------------------------------------------
(* Names, times and opening hours. *)

TextMatches(got, want) == want \subseteq got \/ got \subseteq want

\* "YYYY-MM-DD HH:mm" and "HH:mm" name the same time.
\* Wrong variant: the date is kept.
FormatTimeOnly_Kept(text) == text
FormatTimeOnly(text) == text.clock

VenueOpenHour(campus, kind) ==
  IF "zijingang" \in campus /\ "tennis" \in kind THEN 8
  ELSE IF "yuquan" \in campus /\ "badminton" \in kind THEN 12
  ELSE IF "huajiachi" \in campus /\ kind \cap {"badminton", "tennis"} # {} THEN 18
  ELSE 9

\* Whether the window of a campus and a sport has opened.
Open(campus, kind) == VenueOpenHour(campus, kind) <= now

-----------------------------------------------------------------------------
(* Listings. *)

\* ListVenues compares exactly.
ListVenues(kind) == {s \in Sites : SportOf[s] = kind}

\* The sites ListSlots takes for the names it is given.  It keeps the first in
\* the order of the walk, which for the members of an object is random.
Matching(kind, campus, venue) ==
  {s \in Sites : TextMatches(SportOf[s], kind) /\ TextMatches(CampusOf[s], campus)
                                               /\ TextMatches(VenueOf[s], venue)}

\* walkSlots: an object with an id and slots of its own is a space; the walk goes
\* on below any other, an area with an id included.
Ends(n) == n \in Spaces
Visited[n \in Nodes] ==
  IF Ends(n) THEN {ct \in Courts : ct.space = n} ELSE UNION {Visited[k] : k \in Kids[n]}

\* A day lists courts of its own site, and names that contain one another belong
\* to sites that open at the same hour.
ASSUME DayAssumption ==
  \A s \in Sites : Visited[s] \subseteq {ct \in Courts : SiteOf[ct.space] = s}
ASSUME HoursOfNamesAssumption ==
  \A s, t, u \in Sites :
    TextMatches(CampusOf[s], CampusOf[t]) /\ TextMatches(SportOf[s], SportOf[u])
    => VenueOpenHour(CampusOf[t], SportOf[u]) = VenueOpenHour(CampusOf[s], SportOf[s])

Text(clock, dated) == [clock |-> clock, dated |-> dated]

\* The slots of a site as a listing shows them, with the names that were resolved.
Shown(site, dated) ==
  {[campus |-> CampusOf[site], venue |-> VenueOf[site], space |-> ct.space,
    start |-> Text(ct.clock, dated)] : ct \in Visited[site]}

\* ListTemplates drops the sport: the template may be that of the venue's other sport.
Template(site) ==
  UNION {Shown(t, FALSE) : t \in Matching({}, CampusOf[site], VenueOf[site])}

\* The slots a request may be shown: the day's once the window is open and the
\* day can be read, a template else.
ListSlots(kind, campus, venue) ==
  UNION {IF Open(campus, kind) THEN Shown(s, TRUE) \cup Template(s) ELSE Template(s)
         : s \in Matching(kind, campus, venue)}

Init ==
  /\ now = 0 /\ sport = {} /\ picks = <<>> /\ phase = "picking" /\ openAt = 0
  /\ taken = {} /\ todo = {} /\ found = [ct \in Courts |-> 0]
  /\ steady = {} /\ failed = {}

Picked == {picks[i] : i \in DOMAIN picks}

\* A user asks for a sport and a venue ListVenues named and picks a slot, maybe
\* without insisting on the time.
Pick ==
  /\ phase = "picking" /\ Len(picks) < MaxPicks
  /\ \E s \in Sites :
       /\ sport \in {{}, SportOf[s]} /\ s \in ListVenues(SportOf[s])
       /\ sport' = SportOf[s]
       /\ \E item \in ListSlots(SportOf[s], CampusOf[s], VenueOf[s]) :
            \E start \in {item.start, Text(Blank, FALSE)} :
              picks' = Append(picks, [item EXCEPT !.start = start])
  /\ UNCHANGED <<now, phase, openAt, taken, todo, found, steady, failed>>

-----------------------------------------------------------------------------
(* CreatePlan, also for what SubmitOrPlan leaves: the picks whose window is closed. *)

OpensAt(p) == VenueOpenHour(p.campus, sport)

\* The earliest opening hour of the plan's slots.
\* Wrong variant: that of the first slot, as the comment on CreatePlan has it.
PlanOpenAt_First(slots) == OpensAt(slots[1])
\* Wrong variant: the zero time the search begins with is compared too.
PlanOpenAt_Zero(slots) == 0
PlanOpenAt(slots) ==
  LET hours == {OpensAt(slots[i]) : i \in DOMAIN slots}
  IN CHOOSE h \in hours : \A g \in hours : h <= g

CreatePlan ==
  /\ phase = "picking" /\ picks # <<>>
  /\ phase' = "planned" /\ openAt' = PlanOpenAt(picks)
  /\ UNCHANGED <<now, sport, picks, taken, todo, found, steady, failed>>

-----------------------------------------------------------------------------
(* materializeOne's call of resolvePreferredSlots. *)

Key(p) == [campus |-> p.campus, venue |-> p.venue]
Free(ct) == ct \notin taken
Listed(ct) == ct \in Visited[SiteOf[ct.space]]
ReallyOpen(ct) == Open(CampusOf[SiteOf[ct.space]], SportOf[SiteOf[ct.space]])

Resolve ==
  /\ phase = "planned" /\ openAt <= now
  /\ phase' = "resolving"
  /\ todo' = {Key(p) : p \in Picked}
  /\ found' = [ct \in Courts |-> 0]
  /\ steady' = {ct \in Courts : Listed(ct) /\ Free(ct) /\ ReallyOpen(ct)}
  /\ failed' = {}
  /\ UNCHANGED <<now, sport, picks, openAt, taken>>

\* Whether a live slot is one the planned slot p asks for: its space, its time.
\* Wrong variant: times do not matter, as the comment on resolvePreferredSlots has it.
Wants_AnyTime(p, ct) == p.space = ct.space
Wants(p, ct) ==
  /\ p.space = ct.space
  /\ \/ p.start.clock = Blank
     \/ FormatTimeOnly(p.start) = FormatTimeOnly(Text(ct.clock, TRUE))

\* How often a live slot becomes a candidate of the group k: once if any planned
\* slot asks for it.
Wishes(k, ct) == {i \in DOMAIN picks : Key(picks[i]) = k /\ Wants(picks[i], ct)}
\* Wrong variant: once per planned slot that asks for it (no break).
Copies_PerWish(k, ct) ==
  IF Wishes(k, ct) = {} THEN 0 ELSE IF \E i, j \in Wishes(k, ct) : i # j THEN 2 ELSE 1
Copies(k, ct) == IF Wishes(k, ct) = {} THEN 0 ELSE 1

\* One group: its names are looked up again and its day is read, if it is open.
Offers(site) == {ct \in Visited[site] : Free(ct)}

ResolveGroup(k) ==
  /\ phase = "resolving" /\ k \in todo
  /\ todo' = todo \ {k}
  /\ \/ \E s \in Matching(sport, k.campus, k.venue) :
          /\ found' = [ct \in Courts |->
                         found[ct] + IF Open(k.campus, sport) /\ ct \in Offers(s)
                                     THEN Copies(k, ct) ELSE 0]
          /\ UNCHANGED failed
     \* No such venue any more, no venues at all, or a day that cannot be read.
     \/ Faults # {} /\ failed' = failed \cup {k} /\ UNCHANGED found
  /\ UNCHANGED <<now, sport, picks, phase, openAt, taken, steady>>

Resolved ==
  /\ phase = "resolving" /\ todo = {}
  /\ phase' = "resolved"
  /\ UNCHANGED <<now, sport, picks, openAt, taken, todo, found, steady, failed>>

\* The candidates are tried; a plan that failed is taken up again by the next batch.
Retry ==
  /\ phase = "resolved"
  /\ phase' = "planned"
  /\ UNCHANGED <<now, sport, picks, openAt, taken, todo, found, steady, failed>>

-----------------------------------------------------------------------------
(* Time, and the other users of TYYS. *)

Tick ==
  /\ \E h \in Hours : h > now /\ now' = h
  /\ UNCHANGED <<sport, picks, phase, openAt, taken, todo, found, steady, failed>>

\* A court is taken, or given back.  Courts nobody planned do not matter.
Others(ct) ==
  /\ phase \in {"planned", "resolving"} /\ \E p \in Picked : p.space = ct.space
  /\ \/ Free(ct) /\ taken' = taken \cup {ct} /\ steady' = steady \ {ct}
     \/ ~Free(ct) /\ taken' = taken \ {ct} /\ UNCHANGED steady
  /\ UNCHANGED <<now, sport, picks, phase, openAt, todo, found, failed>>

Next ==
  \/ Pick \/ CreatePlan \/ Resolve \/ Resolved \/ Retry \/ Tick
  \/ \E k \in todo : ResolveGroup(k)
  \/ \E ct \in Courts : Others(ct)

Spec == Init /\ [][Next]_vars

-----------------------------------------------------------------------------
Items ==
  [campus : Names, venue : Names, space : Spaces,
   start : [clock : Clocks \cup {Blank}, dated : BOOLEAN]]

TypeOK ==
  /\ now \in Hours /\ sport \in Names
  /\ picks \in Seq(Items)
  /\ phase \in {"picking", "planned", "resolving", "resolved"}
  /\ phase # "picking" => openAt \in {8, 9, 12, 18} /\ picks # <<>>
  /\ taken \subseteq Courts /\ steady \subseteq Courts
  /\ found \in [Courts -> Nat]
  /\ todo \cup failed \subseteq [campus : Names, venue : Names]

\* A live slot is a candidate once at most, though several planned slots may ask
\* for it and several groups may be answered by one venue: nothing is ordered
\* twice in one pass over the candidates.
Distinct == \A ct \in Courts : found[ct] <= 1

\* What a plan orders is what was picked: every candidate is a space some planned
\* slot names, at its time if it gives one, in a window that has opened.  Names
\* that contain one another lead to other venues, never to other courts.
OnlyAsked ==
  \A ct \in Courts : found[ct] > 0 =>
    /\ ReallyOpen(ct)
    /\ \E p \in Picked : p.space = ct.space /\ p.start.clock \in {Blank, ct.clock}

\* No other site, of whatever sport, answers to the names of p.
Sole(p) ==
  LET Related(a, b) == a \subseteq b \/ b \subseteq a
  IN  \A s \in Sites :
        Related(CampusOf[s], p.campus) /\ Related(VenueOf[s], p.venue) => s = SiteOf[p.space]

\* A planned court that is listed, open and free all the time its plan is resolved is
\* found, whatever listing it was picked from (a template or the day) and wherever
\* it stands in the day's data, if its venue's names are its own.
FoundWhenFree ==
  phase = "resolved" =>
    \A i \in DOMAIN picks : \A ct \in steady :
      /\ ct.space = picks[i].space /\ picks[i].start.clock \in {Blank, ct.clock}
      /\ Sole(picks[i]) /\ Key(picks[i]) \notin failed
      => found[ct] > 0

\* A plan is due as soon as any of its courts may be booked: over several venues
\* it does not wait for the latest, whichever was picked first.
DueWhenOpen ==
  phase = "planned" /\ (\E p \in Picked : SportOf[SiteOf[p.space]] = sport
                                        /\ \E ct \in Courts : ct.space = p.space /\ ReallyOpen(ct))
  => openAt <= now

=============================================================================
