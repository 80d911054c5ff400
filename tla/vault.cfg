\* One init of the directory, a restore on a terminal and one with --json, and one
\* slot for the commands that unlock; two passphrases.
CONSTANTS
  i1 = i1  i2 = i2  r1 = r1  r2 = r2  u = u  x = x  y = y  none = none
  Inits = {i1}
  Restores = {r1, r2}
  Quiet = {r2}
  Users = {u}
  Passphrases = {x, y}
  None = none
SPECIFICATION Spec
INVARIANTS
  WholeVault
  NobodyIsLockedOut
  AnswersAreTrue
PROPERTY OnlyHoldersRekey
SYMMETRY Symmetry
\* An init that died before the vault was written leaves a file nobody can open.
CHECK_DEADLOCK FALSE
