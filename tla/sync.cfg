\* Two sync commands of two witnesses over a file of at most two blocks, sealed
\* meanwhile, copied and put back; the network answers one command in a witness's place.
CONSTANTS
  w1 = w1  w2 = w2  o = o  k = k  a = a  b = b  s1 = s1  s2 = s2
  Witnesses = {w1, w2}
  Origins = {o}
  LogKeys = {k}
  Blocks = {a, b}
  MaxBlocks = 2
  MaxOpen = 2
  MaxMisled = 1
  Trees <- SmallTrees
  Configs <- OneConfig
  Requests = {}
  Handlers = {s1, s2}
  Times = {1}
  MaxLives = 1
  Log = o
  LogKey = k
  NoKey = NoKey  NoNote = NoNote  NoProof = NoProof  NoRequest = NoRequest
  NoRecord = NoRecord
SPECIFICATION SyncSpec
SYMMETRY Symmetry
VIEW View
INVARIANTS
  AttestedCoversTheWitness
  EvidenceIsIssued
  RollbackRecordIsTrue
  RefusalMeansFork
PROPERTIES
  CheckpointsAreAppendOnly
\* The commands may all have ended, and the file be full.
CHECK_DEADLOCK FALSE
