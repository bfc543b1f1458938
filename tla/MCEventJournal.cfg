SPECIFICATION JournalSpec
CONSTANTS
  me = me
  None = None
  Clients = {ui}
  Items = {ask1, ask2}
  Actors = {me, them}
  Actor <- MCActor
  Retention = 2
  Buffer = 1
  PageLimit = 1
  MaxEvents = 4
  MaxBreaks = 1
CHECK_DEADLOCK FALSE
INVARIANTS
    JournalInv
    CallsEndOnce
PROPERTIES
    StreamSteps
    EveryEventArrives
    PagesSafe
