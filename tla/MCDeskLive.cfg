SPECIFICATION FairSpec
CONSTANTS
  Bookings = {b1, b2}
  Workers = {w1}
  Slots = {early, late}
  early = early
  late = late
  StartOf <- MCStartOf
  Length = 1
  Price = 2
  Deposits = {1}
  LinkWindow = 1
  LinkCutoff = 1
  MaxTime = 4
  MaxCredits = 3
  None = None
  Scenarios <- MCJobs
  FreeCancel = 2
  LateCancel = 1
  CheckInOpens = 1
  Graces = {0, 1}
  AutoNoShow = 1
  UndoWindow = 0
  Bills = {1, 2}
  Loyalty = {0}
  SweepLimit = 1
  Chairs = {}
  MaxRaises = 1
  Keys = {}
  References = {}
  Credits = {1}
  Intents = {}
  Events = {"captured"}
  AskWindow = 1
  SerialMoves = 9
  MaxMoves = 1
PROPERTIES
  LateBookingsAreDecided
  UnpaidLinksClose
CHECK_DEADLOCK FALSE
