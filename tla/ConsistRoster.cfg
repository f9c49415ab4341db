SPECIFICATION ConsistSpec
CONSTANTS
  a = a
  b = b
  c = c
  Locos = {a, b}
  BootOutlivesNet = TRUE
  Pairs <- OnePair
  Leads <- Either
INVARIANTS
  ConsistTypeOK
  RosterSurvives
PROPERTIES
  LeadPullsRoster
  OutcastsLeave
CHECK_DEADLOCK FALSE
