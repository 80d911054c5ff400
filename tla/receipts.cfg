\* Two witnesses, files of up to two blocks that are put back and grow otherwise, two
\* cosignatures, and notes of whatever lines there are.
CONSTANTS
  s = s  x = x  n1 = n1  n2 = n2  k1 = k1  k2 = k2
  Blocks <- SmallBlocks
  Signers = {s, x}
  Names = {n1, n2}
  Keys = {k1, k2}
  OwnName <- SmallNames
  Policies <- SmallPolicies
  LogName = log
  Times = {1, 2}
  MaxBlocks = 2
  MaxIssued = 2
  None = None
SPECIFICATION Spec
INVARIANTS
  AcceptedIsAttested
  OneBlockPerIndex
  CoveredIsIssued
