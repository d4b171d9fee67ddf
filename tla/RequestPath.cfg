\* A chat client: texts of one, two and three pieces, up to three records in flight.
CONSTANTS
  ui = ui
  recv = recv
  update = update
  Threads <- AllThreads
  Quota <- SmallQuota
  Pieces = 3
  TextLen <- TextLengths
  Blank = Blank
  MaxInFlight = 3
SPECIFICATION FairSpec
CHECK_DEADLOCK FALSE
INVARIANTS TypeOK IntactUnlessOverlapped ThreadOrder
PROPERTIES LossNeedsSplit AllHandled ImplementsRecordStream
