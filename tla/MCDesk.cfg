SPECIFICATION Spec
CONSTANTS
  Bookings = {b1, b2}
  Workers = {w1, w2}
  Slots = {early, late}
  early = early
  late = late
  StartOf <- MCStartOf
  Length = 1
  Price = 2
  Deposits = {1}
  LinkWindow = 1
  LinkCutoff = 1
  MaxTime = 3
  MaxCredits = 2
  None = None
  Scenarios <- MCScenarios
  FreeCancel = 2
  LateCancel = 1
  CheckInOpens = 1
  Graces = {0}
  AutoNoShow = 0
  UndoWindow = 0
  Bills = {1}
  Loyalty = {0}
  SweepLimit = 1
  Chairs = {c1}
  MaxRaises = 2
  Keys = {k1}
  References = {r1}
  Credits = {1}
  Intents = {i1}
  Events = {"captured", "capture_failed"}
  AskWindow = 1
  SerialMoves = 2
  MaxMoves = 1
SYMMETRY Symmetry
INVARIANTS
  RowsFollowStatus
  ApprovedChairsAreExclusive
PROPERTIES
  ClaimedNeverAutoNoShow
  
  NoMoneyTwice
CHECK_DEADLOCK FALSE
