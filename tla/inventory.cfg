SPECIFICATION FairSpec
CONSTANTS
  ws = ws
  srv = srv
  node = node
  none = none
  Listeners = {netflow, ipfix}
  Addresses = {ws, srv, node}
  Unset = {none}
  Role <- MCRole
  Records <- MCRecords
  Limits <- MCLimits
  NoRow = NoRow
  MaxObserved = 3
  MaxFailures = 1
  MaxRestarts = 1
INVARIANTS TypeOK RegisteredOnce KnownIsRegistered EveryFlowAccounted ScoreFitsRow CategoryFitsRow SeenWithinOverlap
PROPERTY AppearedIsRegistered
CHECK_DEADLOCK FALSE
