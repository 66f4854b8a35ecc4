SPECIFICATION Spec
CONSTANTS
  DayEnd = 120
  Shift <- MCShift
  Skills <- MCSkills
  Overlappers = {1}
  Load <- MCLoad
  DailyCap = 3
  Service <- MCService
  Station <- MCStation
  DemandMix <- MCMix
  Visits = {v1, v2, v3}
  Clerks = {c1, c2}
  Baskets <- MCBaskets
  Starts = {10, 45, 80}
  Outcomes <- MCOutcomes
  MaxShifts = 1
  Lengths = {25, 70}
  Requests = {q1}
  Menus <- MCMenus
  Customers <- MCCustomers
  Carts <- MCCarts
  VisitStarts = {600, 1080}
  Intents = {"DRAFT", "PAY_AFTER_CHECK_IN", "PARTIALLY"}
  Members <- MCMembers
  MaxMembers = 4
  PartyMenus <- MCPartyMenus
  DepositPercents = {0, 33, 100}
SYMMETRY Symmetry
INVARIANTS
  
  OffersAreHonoured
  PlanIsSound
  
  DepositStands
  BillsAddUp
CHECK_DEADLOCK FALSE
