SPECIFICATION Spec
CONSTANTS
  DaysPerWeek = 2
  MonthLengths <- MCMonths
  MaxCandidates = 10
  ShiftSteps <- MCSteps
  DisruptionSteps <- MCSteps
  Spacing = 1
  MaxAlternatives = 2
  PartOf <- MCPartOf
  SeriesHorizon = 2
  BookingHorizon = 3
  Protection = 1
  WriteAttempts = 2
  Pros = {1, 2}
  SeriesStarts = {1, 2}
  Works <- MCWorks
  SeriesDefs <- MCDefs
  SeriesPatterns <- MCPatterns
  ShutDays = {3}
  Runs = {"night", "button"}
  LastDay = 3
  MaxOccurrences = 4
  MaxSeriesVisits = 3
  MaxRivals = 1
  MaxEdits = 2
  Apps = {a1}
  a1 = a1
  Jobs = {j1, j2}
  j1 = j1
  j2 = j2
  Cadences = {"DAILY", "WEEKLY"}
  SessionCounts = {2, 3}
  Firsts = {1}
  RoutineHorizon = 3
  MAX_FUTURE_SESSIONS = 3
  PAUSE_MAX_DAYS = 2
  MISSES_TO_PAUSE = 2
  OpenDaysOf <- MCOpen
  RoutineEnd = 4
  MaxAsks = 3
  MaxVisits = 4
  MaxTaken = 1
  Guests = {1, 2}
  DayStaff = {1, 2}
  DayStarts = {1, 2}
  GuestStates = {"confirmed", "pending_confirmation", "cancelled"}
  Managers = {m1, m2}
  m1 = m1
  m2 = m2
  MaxOthers = 1
  None = None
  Groups = {g1, g2}
  g1 = g1
  g2 = g2
  App = {g2}
  Members = {1, 2}
  s1 = s1
  s2 = s2
  s3 = s3
  Roster <- MCRoster
  Need <- MCNeed
  Shape <- MCShape
  Units <- MCUnits
  Singles <- MCSingles
  Clerks = {k1}
  MaxShifts = 1
  MaxFaults = 1
  Scenarios <- OneParty
INVARIANT DeskLanesOwnTheirStaff
CHECK_DEADLOCK FALSE
