SPECIFICATION Spec
CONSTANTS
  Words <- MCWords
  Sites <- MCSites
  SportOf <- MCSportOf
  CampusOf <- MCCampusOf
  VenueOf <- MCVenueOf
  Spaces <- MCSpaces
  SiteOf <- MCSiteOf
  Areas = {"floor"}
  Kids <- MCKids
  Clocks = {10, 11}
  Blank = 0
  Hours = {0, 9, 12}
  MaxPicks = 2
  Faults = {"day"}
INVARIANT TypeOK
INVARIANT Distinct
INVARIANT OnlyAsked
INVARIANT FoundWhenFree
INVARIANT DueWhenOpen
CHECK_DEADLOCK FALSE
