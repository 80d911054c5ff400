\* Three blocks of two contents, events of any authorisation, and exports of two lines.
CONSTANTS
  ca = ca  cb = cb  status = status  ack = ack
  Contents = {ca, cb}
  Custody = custody
  Foreign = foreign
  Commands = {status, ack}
  Ackers = {ack}
  Rows <- SmallRows
  Lines <- SmallLines
  MaxBlocks = 3
  MaxLines = 2
  None = None
SPECIFICATION Spec
SYMMETRY Symmetry
INVARIANTS
  ErasedIsAuthorised
  CleanMeansIntact
  NoneOpenIsTrue
