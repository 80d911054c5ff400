\* One opening of every file of up to two rows put together from two histories of a
\* log, first blocks missing among them, next to the seals and syncs of a command that
\* could open it.
CONSTANTS
  p = p  a = a  b = b  k = k  x = x  l = l  m = m  w = w
  forged = forged  nopolicy = nopolicy  none = none
  Openers = {p}
  Bodies = {a, b}
  Signers = {k, x}
  Logs = {l, m}
  Witnesses = {w}
  Forged = forged
  Policies <- SmallPolicies
  NoPolicy = nopolicy
  Files <- SmallFiles
  None = none
  MaxBlocks = 3
  MaxNotes = 2
SPECIFICATION Spec
INVARIANTS
  AcceptedIsSound
  AcceptedIsWhole
  RefusedOnlyInARace
