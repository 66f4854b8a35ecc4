SPECIFICATION Spec
CONSTANTS
  Clients = {c1, c2}
  HoldIds = {h1, h2}
  BookingIds = {b1, b2}
  Keys = {k1}
  Rails = {"link"}
  Refs = {ref1}
  maya = maya
  noor = noor
  wash = wash
  colour = colour
  Baskets <- MCBaskets
  Types <- MCTypes
  Units <- MCUnits
  SortKey <- MCSortKey
  TTL = 1
  MaxTime = 1
  None = None
SYMMETRY Symmetry
INVARIANTS
  TypeOK
  NoDoubleBooking
  ChairCapacity
  CapacityFollowsOwner
  OneBookingPerHold
PROPERTY ImplementsCalendar
