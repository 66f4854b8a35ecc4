SPECIFICATION ScreenSpec
CONSTANTS
  Bookings = {1, 2}
  Workers = {w1}
  Slots = {"reem1", "maya1", "maya2"}
  StartOf <- MCStartOf
  StaffOf <- MCStaffOf
  Shift <- MCShift
  Length = 1
  Price = 2
  Deposits = {1}
  LinkWindow = 1
  LinkCutoff = 1
  MaxTime = 4
  MaxCredits = 3
  None = None
  Scenarios <- MCScenarios
  FreeCancel = 2
  LateCancel = 1
  CheckInOpens = 1
  Graces = {0}
  AutoNoShow = 1
  UndoWindow = 0
  Bills = {1}
  Loyalty = {0}
  SweepLimit = 1
  Chairs = {}
  MaxRaises = 0
  Keys = {k1}
  References = {}
  Credits = {}
  Intents = {}
  Events = {}
  AskWindow = 1
  SerialMoves = 9
  MaxMoves = 1
  DayLength = 2
  Horizon = 5
  PageSize = 1
  Ranges = {1, 3}
  MaxMarks = 1
INVARIANTS
  ShelvesFollowTheDiary
  ScreensAgree
  
  BandMatchesRefund
CHECK_DEADLOCK FALSE
