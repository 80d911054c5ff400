\* Three requests to one witness of two logs, across a restart with any
\* configuration.
CONSTANTS
  w1 = w1  o1 = o1  o2 = o2  k1 = k1  k2 = k2  a = a  b = b
  q1 = q1  q2 = q2  q3 = q3
  Witnesses = {w1}
  Origins = {o1, o2}
  LogKeys = {k1, k2}
  Blocks = {a, b}
  Trees <- SmallTrees
  Configs <- SmallConfigs
  Requests <- SmallRequests
  Handlers = {q1, q2, q3}
  Times = {1, 2}
  MaxLives = 2
  NoKey = NoKey  NoNote = NoNote  NoProof = NoProof  NoRequest = NoRequest
SPECIFICATION WitnessSpec
SYMMETRY Symmetry
INVARIANTS
  MemoryIsNewest
  PublishedIsOfItsKey
  ConflictsCanBeFollowed
  TimestampsFollowIssue
PROPERTIES
  KeepsThePromise
  RetiredIsFrozen
\* The last request may have been answered and no other need come.
CHECK_DEADLOCK FALSE
