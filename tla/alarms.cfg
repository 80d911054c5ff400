\* A judge and one other command at a time over a file of no block or
\* one, over three instants.
CONSTANTS
  j = j  s = s  y = y  k = k
  Judges = {j}
  Sealers = {s}
  Syncs = {y}
  Ackers = {k}
  StaleAfter = 1
  MaxEdadCosignature = 0
  MaxBlocks = 1
  MaxTime = 3
  MaxSkew = 1
  MaxIssued = 2
  MaxOpen = 1
SPECIFICATION FairSpec
PROPERTIES
  ClosedByContact
  StaleIsAlarmed
  FreshIsCalm
CHECK_DEADLOCK FALSE
