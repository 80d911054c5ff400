------------------------------- MODULE Merkle -------------------------------
(***************************************************************************)
(* The Merkle tree of the log (internal/ledger/merkle.go): roots, inclusion   *)
(* and consistency proofs, and the verifiers, which never see the leaves: they *)
(* climb from one hash to the root by the bits of an index and of a size.      *)
(*                                                                         *)
(* A hash is the term it was computed from: hashes of different things differ, *)
(* and the prefixes 0x00 and 0x01 keep leaves apart from nodes.  The other       *)
(* modules take a root to be the sequence of its leaves; the properties of this *)
(* one say that a verifier may.                                             *)
(*                                                                         *)
(* Around the functions, the log and a witness as they use them: the log grows *)
(* and may be put back from a copy and grow otherwise, and the witness            *)
(* remembers one size and one root and replaces them by a larger tree whose     *)
(* consistency it has verified (internal/witness/witness.go).                 *)
(***************************************************************************)
EXTENDS Integers, Sequences, SequencesExt

CONSTANTS
  Data,      \* what leaves are made of
  MaxLeaves  \* bound: leaves of a tree

ASSUME MaxLeavesAssumption == MaxLeaves \in Nat \ {0}

LeafHash(d) == <<"leaf", d>>
NodeHash(left, right) == <<"node", left, right>>
EmptyRoot == <<"empty">>

\* Bytes that are not a hash: a root that was not parsed.
NoHash == <<"no hash">>

IsPowerOfTwo[k \in Nat] == k = 1 \/ (k > 1 /\ k % 2 = 0 /\ IsPowerOfTwo[k \div 2])

\* Where a tree of n leaves splits, for n > 1.
LargestPowerOfTwoBelow(n) ==
  CHOOSE k \in 1..n : IsPowerOfTwo[k] /\ k < n /\ n <= 2 * k

LeftOf(s)  == SubSeq(s, 1, LargestPowerOfTwoBelow(Len(s)))
RightOf(s) == SubSeq(s, LargestPowerOfTwoBelow(Len(s)) + 1, Len(s))

Root[s \in Seq(Data)] ==
  IF Len(s) = 0 THEN EmptyRoot
  ELSE IF Len(s) = 1 THEN LeafHash(s[1])
  ELSE NodeHash(Root[LeftOf(s)], Root[RightOf(s)])

ProofPath[s \in Seq(Data)] ==
  [m \in Nat |->
    LET k == LargestPowerOfTwoBelow(Len(s))
    IN  IF Len(s) <= 1 THEN << >>
        ELSE IF m < k THEN Append(ProofPath[LeftOf(s)][m], Root[RightOf(s)])
        ELSE Append(ProofPath[RightOf(s)][m - k], Root[LeftOf(s)])]

\* For 0 <= m < Len(s).
InclusionProof(s, m) == ProofPath[s][m]

\* For 0 < m <= Len(s); complete: the old tree is all of the tree so far on its left.
ConsistencyPath[s \in Seq(Data)] ==
  [m \in Nat \ {0} |-> [complete \in BOOLEAN |->
    LET k == LargestPowerOfTwoBelow(Len(s))
    IN  IF m >= Len(s) THEN IF complete THEN << >> ELSE <<Root[s]>>
        ELSE IF m <= k THEN Append(ConsistencyPath[LeftOf(s)][m][complete], Root[RightOf(s)])
        ELSE Append(ConsistencyPath[RightOf(s)][m - k][FALSE], Root[LeftOf(s)])]]

\* For 0 < oldSize <= Len(s).
ConsistencyProof(s, oldSize) == ConsistencyPath[s][oldSize][TRUE]

-----------------------------------------------------------------------------
(* The verifiers *)

\* The position of a hash and of the last hash on its level, and of their parents.
Position == [fn : Nat, sn : Nat]
Parents(at) == [fn |-> at.fn \div 2, sn |-> at.sn \div 2]

\* Up the levels where a hash is a right sibling, or an only child.
SkipOnes[at \in Position] ==
  IF at.fn % 2 = 1 THEN SkipOnes[Parents(at)] ELSE at
SkipZeros[at \in Position] ==
  IF at.fn % 2 = 0 /\ at.fn # 0 THEN SkipZeros[Parents(at)] ELSE at

\* Mutant of Climb: the last node of a level without a sibling is not recognised.
ClimbAsInAFullTree(c, node) ==
  IF c.at.sn = 0 THEN [c EXCEPT !.past = TRUE]
  ELSE IF c.at.fn % 2 = 1
         THEN [at |-> Parents(c.at), past |-> FALSE,
               old |-> NodeHash(node, c.old), new |-> NodeHash(node, c.new)]
         ELSE [at |-> Parents(c.at), past |-> FALSE, old |-> c.old, new |-> NodeHash(c.new, node)]

\* One node of a proof; old and new are the roots rebuilt so far.
Climb(c, node) ==
  IF c.at.sn = 0 THEN [c EXCEPT !.past = TRUE]
  ELSE IF c.at.fn % 2 = 1 \/ c.at.fn = c.at.sn
         THEN [at |-> Parents(SkipZeros[c.at]), past |-> FALSE,
               old |-> NodeHash(node, c.old), new |-> NodeHash(node, c.new)]
         ELSE [at |-> Parents(c.at), past |-> FALSE, old |-> c.old, new |-> NodeHash(c.new, node)]

Climbed(at, hash, proof) ==
  LET up[i \in 0..Len(proof)] ==
        IF i = 0 THEN [at |-> at, past |-> FALSE, old |-> hash, new |-> hash]
        ELSE Climb(up[i - 1], proof[i])
  IN  up[Len(proof)]

AtTop(c) == ~c.past /\ c.at.sn = 0

VerifyInclusion(d, m, n, proof, root) ==
  /\ 0 <= m /\ m < n
  /\ LET c == Climbed([fn |-> m, sn |-> n - 1], LeafHash(d), proof)
     IN  AtTop(c) /\ c.new = root

\* Mutant of VerifyConsistency: the old root is not rebuilt.
VerifyConsistencyOfTheNew(oldSize, newSize, oldRoot, newRoot, proof) ==
  /\ 0 < oldSize /\ oldSize <= newSize
  /\ NoHash \notin {oldRoot, newRoot}
  /\ IF oldSize = newSize THEN proof = << >> /\ oldRoot = newRoot
     ELSE LET start == SkipOnes[[fn |-> oldSize - 1, sn |-> newSize - 1]]
              nodes == IF start.fn = 0 THEN <<oldRoot>> \o proof ELSE proof
          IN  /\ nodes # << >>
              /\ LET c == Climbed(start, Head(nodes), Tail(nodes))
                 IN  AtTop(c) /\ c.new = newRoot

\* The first hash is that of a whole subtree that ends where the old tree ends: a
\* node of the proof, or the old root itself if its size is a power of two.
VerifyConsistency(oldSize, newSize, oldRoot, newRoot, proof) ==
  /\ 0 < oldSize /\ oldSize <= newSize
  /\ NoHash \notin {oldRoot, newRoot}
  /\ IF oldSize = newSize THEN proof = << >> /\ oldRoot = newRoot
     ELSE LET start == SkipOnes[[fn |-> oldSize - 1, sn |-> newSize - 1]]
              nodes == IF start.fn = 0 THEN <<oldRoot>> \o proof ELSE proof
          IN  /\ nodes # << >>
              /\ LET c == Climbed(start, Head(nodes), Tail(nodes))
                 IN  AtTop(c) /\ c.old = oldRoot /\ c.new = newRoot

-----------------------------------------------------------------------------
(* The log and a witness *)

VARIABLES
  leaves,  \* the leaves of the log
  size,    \* the size the witness remembers
  root,    \* and the root
  seen     \* history: the leaves of the tree it remembers

vars == <<leaves, size, root, seen>>

Init == leaves = << >> /\ size = 0 /\ root = EmptyRoot /\ seen = << >>

Grow(d) ==
  /\ Len(leaves) < MaxLeaves
  /\ leaves' = Append(leaves, d)
  /\ UNCHANGED <<size, root, seen>>

\* The file is put back from a copy with n leaves.
PutBack(n) ==
  /\ leaves' = SubSeq(leaves, 1, n)
  /\ UNCHANGED <<size, root, seen>>

\* What may be sent as a proof: one made from the tree of the log or from the tree
\* the witness knows, for whatever leaf or size, as it is or spoilt at one node.
Spoilt(p) ==
  {RemoveAt(p, i) : i \in DOMAIN p}
  \cup {ReplaceAt(p, i, root) : i \in DOMAIN p}
  \cup {InsertAt(p, i, root) : i \in 1..Len(p) + 1}
  \cup {Reverse(p), p \o p}
AndSpoilt(made) == made \cup UNION {Spoilt(p) : p \in made}

InclusionProofs == AndSpoilt({InclusionProof(leaves, m) : m \in 0..Len(leaves) - 1})
ConsistencyProofs ==
  AndSpoilt({<< >>} \cup UNION {{ConsistencyProof(s, m) : m \in 1..Len(s)} : s \in {leaves, seen}})

\* checkExtension, between the size of the request and its proof: without history
\* any tree will do, and an equal size asks for the same root.
Advances(proof) ==
  CASE size = 0           -> proof = << >>
    [] size = Len(leaves) -> Root[leaves] = root
    [] OTHER              -> VerifyConsistency(size, Len(leaves), root, Root[leaves], proof)

\* The witness is sent the size and the root of the log, and a proof.
Advance(proof) ==
  /\ size <= Len(leaves) /\ Advances(proof)
  /\ size' = Len(leaves)
  /\ root' = Root[leaves]
  /\ seen' = leaves
  /\ UNCHANGED leaves

Next ==
  \/ \E d \in Data : Grow(d)
  \/ \E n \in 0..Len(leaves) : PutBack(n)
  \/ \E proof \in ConsistencyProofs : Advance(proof)

Spec == Init /\ [][Next]_vars

-----------------------------------------------------------------------------
(* Properties *)

\* An inclusion proof is accepted for a leaf at a position exactly if that leaf is
\* at that position and the proof is the one InclusionProof makes: no proof of
\* another leaf, or position passes, with any node left out, added or moved.
InclusionDecides ==
  \A m \in 0..Len(leaves), d \in Data, proof \in InclusionProofs :
    VerifyInclusion(d, m, Len(leaves), proof, Root[leaves])
      <=> /\ m < Len(leaves)
          /\ d = leaves[m + 1]
          /\ proof = InclusionProof(leaves, m)

\* A consistency proof is accepted exactly if the tree the witness remembers is a
\* prefix of the tree of the log and the proof is the one ConsistencyProof makes: a
\* log that was put back and grew otherwise finds no proof, an honest one always
\* does.  A root that was not read matches nothing, not even another such root.
ConsistencyDecides ==
  /\ root = Root[seen] /\ size = Len(seen)
  /\ \A proof \in ConsistencyProofs :
       /\ VerifyConsistency(size, Len(leaves), root, Root[leaves], proof)
            <=> /\ size > 0
                /\ IsPrefix(seen, leaves)
                /\ proof = ConsistencyProof(leaves, size)
       /\ ~VerifyConsistency(size, size, NoHash, NoHash, proof)
=============================================================================
