\* Every log of up to six leaves of two contents next to every tree a witness may
\* remember of it, with proofs made from both and spoilt at one node.
CONSTANTS
  a = a  b = b
  Data = {a, b}
  MaxLeaves = 6
SPECIFICATION Spec
SYMMETRY Symmetry
INVARIANTS
  InclusionDecides
  ConsistencyDecides
