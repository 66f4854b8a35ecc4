SPECIFICATION LiveSpec
CONSTANTS
  Clients = {c1, c2}
  HoldIds = {h1, h2}
  BookingIds = {b1, b2}
  Keys = {}
  Rails = {"cash"}
  Refs = {}
  maya = maya
  noor = noor
  wash = wash
  colour = colour
  Baskets <- CrossedChairs
  Types <- MCTypes
  Units <- MCUnits
  SortKey <- MCSortKey
  TTL = 1
  MaxTime = 1
  None = None
PROPERTIES
  ExpiredHoldsAreSwept
  EveryRequestEnds
