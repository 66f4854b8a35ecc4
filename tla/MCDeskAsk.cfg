SPECIFICATION Spec
CONSTANTS
  Bookings = {b1}
  Workers = {w1, w2}
  Slots = {early, late}
  early = early
  late = late
  StartOf <- MCStartOf
  Length = 1
  Price = 2
  Deposits = {1}
  LinkWindow = 1
  LinkCutoff = 1
  MaxTime = 3
  MaxCredits = 3
  None = None
  Scenarios <- MCAsked
  FreeCancel = 2
  LateCancel = 1
  CheckInOpens = 1
  Graces = {0}
  AutoNoShow = 1
  UndoWindow = 0
  Bills = {1}
  Loyalty = {0}
  SweepLimit = 1
  Chairs = {}
  MaxRaises = 1
  Keys = {k1}
  References = {}
  Credits = {1}
  Intents = {i1}
  Events = {"captured", "capture_failed"}
  AskWindow = 1
  SerialMoves = 2
  MaxMoves = 1
INVARIANT ReleasedMeansFree
CHECK_DEADLOCK FALSE
