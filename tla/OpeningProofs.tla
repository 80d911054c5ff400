----------------------------- MODULE OpeningProofs -----------------------------
(***************************************************************************)
(* Proofs about module Opening, for any file, policies and commands.         *)
(***************************************************************************)
EXTENDS Opening, WellFoundedInduction, FiniteSetTheorems, TLAPS

-----------------------------------------------------------------------------
(* Rows, leaves and prefixes *)

\* A table has as many leaves as rows.
LEMMA LeavesOfRows ==
  ASSUME NEW rs \in Seq(Row)
  PROVE  /\ Leaves(rs) \in Seq(Leaf) /\ Len(Leaves(rs)) = Len(rs)
         /\ \A i \in 1..Len(rs) : Leaves(rs)[i] = LeafOf(rs[i])
<1>1. \A i \in 1..Len(rs) : LeafOf(rs[i]) \in Leaf
  <2> SUFFICES ASSUME NEW i \in 1..Len(rs) PROVE LeafOf(rs[i]) \in Leaf
    OBVIOUS
  <2>1. rs[i] \in Row
    OBVIOUS
  <2>2. rs[i].hash \in Header /\ rs[i].sig \in Signature
    BY <2>1 DEF Row
  <2> QED BY <2>2 DEF Leaf, LeafOf
<1>2. Leaves(rs) \in [1..Len(rs) -> Leaf]
  BY <1>1 DEF Leaves
<1> QED BY <1>2 DEF Leaves

\* A prefix has the same elements.
LEMMA PrefixAgrees ==
  ASSUME NEW S, NEW s \in Seq(S), NEW t \in Seq(S), IsPrefix(s, t)
  PROVE  Len(s) <= Len(t) /\ \A i \in 1..Len(s) : s[i] = t[i]
<1>1. Len(s) <= Len(t) /\ s = SubSeq(t, 1, Len(s))
  BY DEF IsPrefix
<1>2. \A i \in 1..Len(s) : SubSeq(t, 1, Len(s))[i] = t[i]
  BY <1>1
<1> QED BY <1>1, <1>2

\* A sequence with the elements of the beginning of another is a prefix of it.
LEMMA SameElements ==
  ASSUME NEW S, NEW s \in Seq(S), NEW t \in Seq(S), Len(s) <= Len(t),
         \A i \in 1..Len(s) : s[i] = t[i]
  PROVE  IsPrefix(s, t)
<1> PICK k \in Nat : k = Len(s)
  OBVIOUS
<1>1. SubSeq(t, 1, k) \in Seq(S) /\ Len(SubSeq(t, 1, k)) = k
      /\ \A i \in 1..k : SubSeq(t, 1, k)[i] = t[i]
  OBVIOUS
<1>2. s = SubSeq(t, 1, k)
  BY <1>1
<1> QED BY <1>2 DEF IsPrefix

\* Prefixes of prefixes are prefixes.
LEMMA PrefixesChain ==
  ASSUME NEW S, NEW a \in Seq(S), NEW b \in Seq(S), NEW c \in Seq(S),
         IsPrefix(a, b), IsPrefix(b, c)
  PROVE  IsPrefix(a, c)
<1>1. Len(a) <= Len(b) /\ \A i \in 1..Len(a) : a[i] = b[i]
  BY PrefixAgrees
<1>2. Len(b) <= Len(c) /\ \A i \in 1..Len(b) : b[i] = c[i]
  BY PrefixAgrees
<1>3. Len(a) <= Len(c) /\ \A i \in 1..Len(a) : a[i] = c[i]
  BY <1>1, <1>2
<1> QED BY <1>3, SameElements

\* Of two prefixes of a sequence the shorter is a prefix of the longer.
LEMMA PrefixesNest ==
  ASSUME NEW S, NEW a \in Seq(S), NEW b \in Seq(S), NEW c \in Seq(S),
         IsPrefix(a, c), IsPrefix(b, c), Len(a) <= Len(b)
  PROVE  IsPrefix(a, b)
<1>1. Len(a) <= Len(c) /\ \A i \in 1..Len(a) : a[i] = c[i]
  BY PrefixAgrees
<1>2. Len(b) <= Len(c) /\ \A i \in 1..Len(b) : b[i] = c[i]
  BY PrefixAgrees
<1>3. \A i \in 1..Len(a) : a[i] = b[i]
  BY <1>1, <1>2
<1> QED BY <1>3, SameElements

\* The leaves of the first rows are the first leaves.
LEMMA LeavesOfPrefix ==
  ASSUME NEW rs \in Seq(Row), NEW ts \in Seq(Row), IsPrefix(rs, ts)
  PROVE  IsPrefix(Leaves(rs), Leaves(ts))
<1>1. Len(rs) <= Len(ts) /\ \A i \in 1..Len(rs) : rs[i] = ts[i]
  BY PrefixAgrees
<1>2. /\ Leaves(rs) \in Seq(Leaf) /\ Len(Leaves(rs)) = Len(rs)
      /\ \A i \in 1..Len(rs) : Leaves(rs)[i] = LeafOf(rs[i])
  BY LeavesOfRows
<1>3. /\ Leaves(ts) \in Seq(Leaf) /\ Len(Leaves(ts)) = Len(ts)
      /\ \A i \in 1..Len(ts) : Leaves(ts)[i] = LeafOf(ts[i])
  BY LeavesOfRows
<1>4. \A i \in 1..Len(rs) : Leaves(rs)[i] = Leaves(ts)[i]
  BY <1>1, <1>2, <1>3
<1> HIDE DEF Leaves
<1> QED BY <1>1, <1>2, <1>3, <1>4, SameElements

\* The signer of a header is a key.
LEMMA SignerIsKey ==
  ASSUME NEW h \in Header
  PROVE  SignerOf(h) \in Signers /\ Sealed(h) \in Row
<1>1. h \in Seq(Entry) /\ Len(h) \in 1..Len(h)
  BY DEF Header
<1>2. h[Len(h)] \in Entry
  BY <1>1
<1> QED BY <1>2 DEF SignerOf, Entry, Sealed, Row, Signature

\* A row that verifies is the one that was sealed for its header.
LEMMA VerifiedIsSealed ==
  ASSUME NEW r \in Row, BlockVerifies(r)
  PROVE  r = Sealed(r.header)
BY DEF Row, BlockVerifies, Sealed

\* Of some notes of bounded size, one is the largest.
LEMMA LargestIsThere ==
  ASSUME TypeOK, NEW S, S \subseteq notes, S # {}
  PROVE  Largest(S) \in S /\ \A note \in S : SizeOf(note) <= SizeOf(Largest(S))
<1> DEFINE Room == {m \in Nat : \E note \in S : m = MaxBlocks - SizeOf(note)}
<1>1. \A note \in S : SizeOf(note) \in Nat /\ SizeOf(note) <= MaxBlocks
  <2> SUFFICES ASSUME NEW note \in S PROVE SizeOf(note) \in Nat /\ SizeOf(note) <= MaxBlocks
    OBVIOUS
  <2>1. note \in Note /\ SizeOf(note) <= MaxBlocks
    BY DEF TypeOK
  <2>2. note.tree \in Seq(Leaf)
    BY <2>1 DEF Note
  <2> QED BY <2>1, <2>2 DEF SizeOf
<1>2. \A note \in S : MaxBlocks - SizeOf(note) \in Room
  <2> SUFFICES ASSUME NEW note \in S PROVE MaxBlocks - SizeOf(note) \in Room
    OBVIOUS
  <2> DEFINE room == MaxBlocks - SizeOf(note)
  <2>1. room \in Nat
    BY <1>1, OpeningBoundsAssumption
  <2>2. \E other \in S : room = MaxBlocks - SizeOf(other)
    OBVIOUS
  <2> HIDE DEF room
  <2>3. room \in Room
    BY <2>1, <2>2
  <2> QED BY <2>3 DEF room
<1>3. Room \subseteq Nat /\ Room # {}
  BY <1>2
<1>4. PICK m \in Room : \A k \in Room : ~ (<<k, m>> \in OpToRel(<, Nat))
  <2> HIDE DEF Room
  <2> QED BY <1>3, NatLessThanWellFounded, WFMin
<1>5. \A k \in Room : m <= k
  <2> SUFFICES ASSUME NEW k \in Room, k < m PROVE FALSE
    BY <1>3, SMT
  <2>1. <<k, m>> \in OpToRel(<, Nat)
    BY DEF OpToRel
  <2> QED BY <1>4, <2>1
<1>6. PICK note \in S : m = MaxBlocks - SizeOf(note)
  OBVIOUS
<1>7. \A other \in S : SizeOf(other) <= SizeOf(note)
  BY <1>1, <1>2, <1>5, <1>6, OpeningBoundsAssumption
<1> HIDE DEF Room
<1> QED BY <1>7 DEF Largest

-----------------------------------------------------------------------------
(* What a walk shows *)

\* Rows whose hashes are those of their headers, that verify above a prefix that
\* was sealed so, were sealed so.
LEMMA WalkShowsAHistory ==
  ASSUME NEW w \in Seq(Row), NEW tree \in Seq(Leaf),
         IsPrefix(tree, Leaves(w)), Linked(RowsOf(tree)),
         \A i \in 1..Len(w) :
           /\ w[i].hash = w[i].header /\ SignerOf(w[i].header) = SignerOf(w[1].header)
           /\ i > Len(tree) => BlockVerifies(w[i]) /\ (i > 1 => VerifyLink(w[i - 1], w[i]))
  PROVE  Linked(w)
<1>1. ASSUME NEW i \in 1..Len(w), i <= Len(tree)
      PROVE  /\ RowsOf(tree)[i] = w[i]
             /\ w[i] = Sealed(w[i].header)
             /\ i > 1 => Before(w[i].header) = w[i - 1].header
  <2>1. Len(tree) \in Nat /\ Len(tree) <= Len(w)
    BY LeavesOfRows DEF IsPrefix
  <2>2. ASSUME NEW j \in 1..Len(tree)
        PROVE  RowsOf(tree)[j] = w[j]
    <3>1. j \in 1..Len(w)
      BY <2>1
    <3>2. tree[j] = LeafOf(w[j])
      BY <1>1, <2>1, <3>1, LeavesOfRows, PrefixAgrees
    <3>3. RowsOf(tree)[j] = [header |-> w[j].hash, hash |-> w[j].hash, sig |-> w[j].sig]
      BY <3>2 DEF RowsOf, LeafOf
    <3>4. w[j] \in Row /\ w[j].hash = w[j].header
      BY <3>1
    <3> QED BY <3>3, <3>4 DEF Row
  <2>3. Len(RowsOf(tree)) = Len(tree) /\ i \in 1..Len(tree)
    BY <1>1, <2>1 DEF RowsOf
  <2>4. RowsOf(tree)[i] = Sealed(RowsOf(tree)[i].header)
        /\ (i > 1 => Before(RowsOf(tree)[i].header) = RowsOf(tree)[i - 1].header)
    BY <2>1, <2>3 DEF Linked
  <2>5. i > 1 => RowsOf(tree)[i - 1] = w[i - 1]
    <3>1. i > 1 => i - 1 \in 1..Len(tree)
      BY <2>1, <2>3
    <3> QED BY <2>2, <3>1
  <2> QED BY <2>2, <2>3, <2>4, <2>5
<1>2. ASSUME NEW i \in 1..Len(w), i > Len(tree)
      PROVE  /\ w[i] = Sealed(w[i].header)
             /\ i > 1 => Before(w[i].header) = w[i - 1].header
  <2>1. w[i] \in Row /\ BlockVerifies(w[i]) /\ (i > 1 => VerifyLink(w[i - 1], w[i]))
    BY <1>2
  <2>2. i > 1 => w[i - 1].hash = w[i - 1].header
    OBVIOUS
  <2> QED BY <2>1, <2>2, VerifiedIsSealed DEF VerifyLink
<1> QED BY <1>1, <1>2 DEF Linked

-----------------------------------------------------------------------------
(* The invariant *)

\* The key the walk expected.
Expected(p) ==
  IF policy[p] # NoPolicy /\ policy[p].signer # None THEN policy[p].signer
  ELSE SignerOf(walked[p][1].header)

\* The walk has read what it was to read.
Walked(p) ==
  \A i \in 1..Len(walked[p]) :
    /\ walked[p][i].hash = walked[p][i].header
    /\ SignerOf(walked[p][i].header) = Expected(p)
    /\ i > SignedFrom(p) => /\ BlockVerifies(walked[p][i])
                            /\ i > 1 => VerifyLink(walked[p][i - 1], walked[p][i])

\* AcceptedIsSound and AcceptedIsWhole, of one opening.
Sound(p) ==
  Passed(p) =>
    /\ Linked(walked[p])
    /\ (policy[p] # NoPolicy /\ policy[p].signer # None /\ walked[p] # << >>)
         => SignerOf(walked[p][1].header) = policy[p].signer

Complete(p) ==
  Passed(p) =>
    /\ \A size \in promised[p] : size <= Len(walked[p])
    /\ verdict[p] = "attested" =>
         /\ IsPrefix(attested[p].tree, Leaves(walked[p]))
         /\ \E Q \in SUBSET policy[p].witnesses :
              Cardinality(Q) = policy[p].quorum /\ Q \subseteq attested[p].cosigners

\* What an opening has read was in the file, and notes are never taken out of it.
CommandInv(p) ==
  /\ Validate(policy[p])
  /\ attested[p] # None => attested[p] \in notes
  /\ \A size \in promised[p] : \E note \in notes : SizeOf(note) = size
  /\ pc[p] # "idle" => verdict[p] = "none"
  /\ pc[p] = "roots" => Walked(p)
  /\ Sound(p) /\ Complete(p)

\* A file that another command has opened has linked rows and a mark, counts its
\* rows from 0 if they begin at genesis, and has what its notes promise.
AdmittedInv ==
  admitted => /\ Linked(rows) /\ mark
              /\ FromGenesis(rows) => numbered
              /\ \A note \in notes : SizeOf(note) <= Len(rows)

OpeningInv ==
  /\ \A note \in notes : Genuine(note)
  /\ AdmittedInv
  /\ \A p \in Openers : CommandInv(p)

\* An opening that does not move keeps what it has, whatever is written.
LEMMA OthersKeep ==
  ASSUME NEW p \in Openers, CommandInv(p), notes \subseteq notes', declared' = declared,
         pc'[p] = pc[p], policy'[p] = policy[p], full'[p] = full[p],
         attested'[p] = attested[p], walked'[p] = walked[p], verdict'[p] = verdict[p],
         promised'[p] = promised[p]
  PROVE  CommandInv(p)'
<1>1. SignedFrom(p)' = SignedFrom(p) /\ Expected(p)' = Expected(p)
  BY DEF SignedFrom, Verified, CheckLogKey, Expected
<1>2. Walked(p)' <=> Walked(p)
  BY <1>1 DEF Walked
<1>3. (Sound(p)' <=> Sound(p)) /\ (Complete(p)' <=> Complete(p))
  BY DEF Sound, Complete, Passed
<1> QED BY <1>2, <1>3 DEF CommandInv

\* A set has subsets of each smaller size.
LEMMA Enough ==
  ASSUME NEW S, IsFiniteSet(S), NEW k \in Nat, k <= Cardinality(S)
  PROVE  \E Q \in SUBSET S : Cardinality(Q) = k
<1>1. PICK f \in Bijection(1..Cardinality(S), S) : TRUE
  BY FS_CardinalityType DEF ExistsBijection
<1>2. Cardinality(S) \in Nat /\ 1..k \subseteq 1..Cardinality(S)
  BY FS_CardinalityType
<1> DEFINE g == [i \in 1..k |-> f[i]]
           Q == {f[i] : i \in 1..k}
<1>3. g \in Bijection(1..k, Q)
  <2>1. f \in [1..Cardinality(S) -> S] /\ IsInjective(f)
    BY <1>1 DEF Bijection, Injection
  <2>2. \A i, j \in 1..k : f[i] = f[j] => i = j
    BY <1>2, <2>1 DEF IsInjective
  <2>3. g \in [1..k -> Q] /\ \A t \in Q : \E i \in 1..k : g[i] = t
    OBVIOUS
  <2>4. IsInjective(g)
    BY <2>2 DEF IsInjective
  <2> HIDE DEF g, Q
  <2> QED BY <2>3, <2>4 DEF Bijection, Injection, Surjection
<1>4. Q \in SUBSET S
  BY <1>1, <1>2 DEF Bijection, Injection, Surjection
<1>5. Cardinality(Q) = k
  BY <1>3, FS_CountingElements DEF ExistsBijection
<1> QED BY <1>4, <1>5

\* A quorum of the policy is some witnesses.
LEMMA QuorumCosigned ==
  ASSUME TypeOK, NEW p \in Openers, CommandInv(p), Verified(p)
  PROVE  /\ attested[p].cosigners \cap Witnesses # {}
         /\ \E Q \in SUBSET policy[p].witnesses :
              Cardinality(Q) = policy[p].quorum /\ Q \subseteq attested[p].cosigners
<1> DEFINE both == attested[p].cosigners \cap policy[p].witnesses
<1>1. policy[p] \in Policy /\ policy[p] \in Policies /\ policy[p] # NoPolicy
  <2>1. policy[p] \in Policies
    BY DEF TypeOK
  <2>2. policy[p] # NoPolicy
    BY DEF Verified
  <2> QED BY <2>1, <2>2, PoliciesAssumption
<1>2. policy[p].witnesses \subseteq Witnesses /\ policy[p].quorum \in Nat
  <2> DEFINE pol == policy[p]
  <2>1. pol \in Policy
    BY <1>1
  <2> HIDE DEF pol, both
  <2>2. pol.witnesses \in SUBSET Witnesses /\ pol.quorum \in Nat
    BY <2>1 DEF Policy
  <2> QED BY <2>2 DEF pol
<1>3. IsFiniteSet(both)
  <2>1. IsFiniteSet(policy[p].witnesses)
    BY <1>1, PoliciesAssumption
  <2>2. both \in SUBSET policy[p].witnesses
    OBVIOUS
  <2> HIDE DEF both
  <2> QED BY <2>1, <2>2, FS_Subset
<1>4. policy[p].quorum >= 1 /\ policy[p].quorum <= Cardinality(both)
  <2>1. Cardinality(both) \in Nat
    BY <1>3, FS_CardinalityType
  <2>2. policy[p].quorum \in 1..Cardinality(policy[p].witnesses)
    BY <1>1 DEF CommandInv, Validate
  <2>3. Cardinality(both) >= policy[p].quorum
    BY DEF Verified
  <2> HIDE DEF both
  <2> QED BY <1>2, <2>1, <2>2, <2>3
<1>5. both # {}
  <2>1. Cardinality({}) = 0
    BY FS_EmptySet
  <2>2. Cardinality(both) # 0
    <3>1. Cardinality(both) \in Nat
      BY <1>3, FS_CardinalityType
    <3> HIDE DEF both
    <3> QED BY <1>2, <1>4, <3>1
  <2> QED BY <2>1, <2>2
<1>6. PICK Q \in SUBSET both : Cardinality(Q) = policy[p].quorum
  <2> HIDE DEF both
  <2> QED BY <1>2, <1>3, <1>4, Enough
<1> QED BY <1>2, <1>5, <1>6

-----------------------------------------------------------------------------
(* The step that accepts *)

\* The last note of a file that has notes.
LEMMA LastIsLargest ==
  ASSUME TypeOK, notes # {}
  PROVE  /\ LastCheckpoint \in notes /\ LastCheckpoint # None
         /\ \A note \in notes : SizeOf(note) <= SizeOf(LastCheckpoint)
<1>1. LastCheckpoint = Largest(notes)
  BY DEF LastCheckpoint
<1>2. Largest(notes) \in notes /\ \A note \in notes : SizeOf(note) <= SizeOf(Largest(notes))
  BY LargestIsThere
<1>3. notes \subseteq Note /\ None \notin Note
  BY OpeningNoneAssumption DEF TypeOK
<1> QED BY <1>1, <1>2, <1>3

\* Whoever passes the roots has the attested note, and all others, before it.
LEMMA RootsCover ==
  ASSUME TypeOK, NEW p \in Openers, CommandInv(p), RootsPass(p)
  PROVE  /\ attested[p] # None => IsPrefix(attested[p].tree, Leaves(walked[p]))
         /\ \A size \in promised[p] : size <= Len(walked[p])
<1>1. walked[p] \in Seq(Row)
  BY DEF TypeOK
<1>2. attested[p] # None => attested[p] \in notes
  BY DEF CommandInv
<1>3. attested[p] # None => IsPrefix(attested[p].tree, Leaves(walked[p]))
  BY <1>2, LastIsLargest DEF RootsPass, VerifyRootAt
<1>4. ASSUME NEW size \in promised[p]
      PROVE  size <= Len(walked[p])
  <2>1. PICK note \in notes : SizeOf(note) = size
    BY DEF CommandInv
  <2>2. SizeOf(note) <= SizeOf(LastCheckpoint) /\ LastCheckpoint # None /\ LastCheckpoint \in notes
    BY <2>1, LastIsLargest
  <2>3. IsPrefix(LastCheckpoint.tree, Leaves(walked[p]))
    BY <2>2 DEF RootsPass, VerifyRootAt
  <2>4. SizeOf(LastCheckpoint) <= Len(walked[p])
    BY <1>1, <2>3, LeavesOfRows DEF IsPrefix, SizeOf
  <2>5. \A other \in notes : SizeOf(other) \in Nat
    <3>1. \A other \in notes : other.tree \in Seq(Leaf)
      BY DEF TypeOK, Note
    <3> QED BY <3>1 DEF SizeOf
  <2> QED BY <1>1, <2>1, <2>2, <2>4, <2>5
<1> QED BY <1>3, <1>4

\* What was walked and covered is a history.
LEMMA RootsAreSound ==
  ASSUME TypeOK, OpeningInv, NEW p \in Openers, Walked(p), RootsPass(p)
  PROVE  Linked(walked[p])
<1> DEFINE w == walked[p]
           tree == attested[p].tree
<1>1. w \in Seq(Row) /\ CommandInv(p)
  BY DEF TypeOK, OpeningInv
<1>2. ASSUME Verified(p)
      PROVE  /\ tree \in Seq(Leaf) /\ IsPrefix(tree, Leaves(w))
             /\ Linked(RowsOf(tree))
  <2>1. attested[p] # None /\ attested[p] \in notes
    BY <1>1, <1>2 DEF Verified, CommandInv
  <2>2. tree \in Seq(Leaf)
    BY <2>1 DEF TypeOK, Note
  <2>3. attested[p].cosigners \cap Witnesses # {}
    BY <1>1, <1>2, QuorumCosigned
  <2> QED BY <1>1, <2>1, <2>2, <2>3, RootsCover DEF OpeningInv, Genuine
<1>3. \A i \in 1..Len(w) : w[i].hash = w[i].header /\ SignerOf(w[i].header) = SignerOf(w[1].header)
  BY DEF Walked
<1>4. ASSUME NEW t \in Seq(Leaf), IsPrefix(t, Leaves(w)), Linked(RowsOf(t)),
             SignedFrom(p) = Len(t)
      PROVE  Linked(w)
  <2>1. \A i \in 1..Len(w) :
          /\ w[i].hash = w[i].header /\ SignerOf(w[i].header) = SignerOf(w[1].header)
          /\ i > Len(t) => BlockVerifies(w[i]) /\ (i > 1 => VerifyLink(w[i - 1], w[i]))
    BY <1>3, <1>4 DEF Walked
  <2> HIDE DEF w
  <2> QED BY <1>1, <1>4, <2>1, WalkShowsAHistory
<1>5. Linked(w)
  <2>1. CASE SignedFrom(p) = 0
    <3>1. << >> \in Seq(Leaf) /\ Len(<< >>) = 0 /\ Linked(RowsOf(<< >>))
      BY DEF Linked, RowsOf
    <3>2. IsPrefix(<< >>, Leaves(w))
      BY <1>1, LeavesOfRows DEF IsPrefix
    <3> HIDE DEF w
    <3> QED BY <1>4, <2>1, <3>1, <3>2
  <2>2. CASE SignedFrom(p) # 0
    <3>1. Verified(p) /\ SignedFrom(p) = Len(tree)
      BY <2>2 DEF SignedFrom, SizeOf
    <3> QED BY <1>2, <1>4, <3>1
  <2> QED BY <2>1, <2>2
<1> QED BY <1>5

\* The verdict is of what was walked.
LEMMA AcceptKeeps ==
  ASSUME TypeOK, OpeningInv, NEW p \in Openers, VerifyAgainstCheckpoints(p)
  PROVE  CommandInv(p)'
<1>1. CommandInv(p) /\ pc[p] = "roots" /\ Walked(p)
  BY DEF OpeningInv, CommandInv, VerifyAgainstCheckpoints
<1>2. /\ UNCHANGED <<notes, declared, policy, attested, walked, promised>>
      /\ pc'[p] \in {"idle", "count"}
      /\ \/ verdict'[p] = "refused"
         \/ RootsPass(p) /\ verdict'[p] = "accepted" /\ pc'[p] = "idle"
         \/ RootsPass(p) /\ Verified(p) /\ verdict'[p] = "attested" /\ pc'[p] = "idle"
         \/ verdict'[p] = "none"
      /\ pc'[p] # "idle" => verdict'[p] = "none"
  <2>1. verdict[p] = "none"
    BY <1>1 DEF CommandInv
  <2>2. pc \in [Openers -> {"idle", "unmarked", "mark", "count", "attested", "walk", "roots"}]
    BY DEF TypeOK
  <2>3. DOMAIN verdict = Openers
    BY DEF TypeOK
  <2>4. UNCHANGED <<notes, declared, policy, attested, walked, promised>>
    BY DEF VerifyAgainstCheckpoints, file, history
  <2>5. \/ ~RootsPass(p) /\ pc'[p] = "idle" /\ verdict'[p] = "refused"
        \/ /\ RootsPass(p) /\ pc'[p] = "idle"
           /\ verdict'[p] = IF Verified(p) THEN "attested" ELSE "accepted"
        \/ RootsPass(p) /\ pc'[p] = "count" /\ verdict'[p] = verdict[p]
    BY <2>2, <2>3 DEF VerifyAgainstCheckpoints, End, Goto
  <2> QED BY <2>1, <2>4, <2>5
<1>3. RootsPass(p) => Linked(walked[p])
  BY <1>1, RootsAreSound
<1>4. (policy[p] # NoPolicy /\ policy[p].signer # None /\ walked[p] # << >>)
         => SignerOf(walked[p][1].header) = policy[p].signer
  <2>1. walked[p] \in Seq(Row)
    BY DEF TypeOK
  <2>2. walked[p] # << >> => 1 \in 1..Len(walked[p])
    BY <2>1
  <2> QED BY <1>1, <2>2 DEF Walked, Expected
<1>5. Sound(p)'
  BY <1>2, <1>3, <1>4 DEF Sound, Passed
<1>6. Complete(p)'
  <2>1. RootsPass(p) => /\ attested[p] # None => IsPrefix(attested[p].tree, Leaves(walked[p]))
                        /\ \A size \in promised[p] : size <= Len(walked[p])
    BY <1>1, RootsCover
  <2>2. Verified(p) =>
          /\ attested[p] # None
          /\ \E Q \in SUBSET policy[p].witnesses :
               Cardinality(Q) = policy[p].quorum /\ Q \subseteq attested[p].cosigners
    BY <1>1, QuorumCosigned DEF Verified
  <2> QED BY <1>2, <2>1, <2>2 DEF Complete, Passed
<1>7. /\ Validate(policy'[p]) /\ (attested'[p] # None => attested'[p] \in notes')
      /\ \A size \in promised'[p] : \E note \in notes' : SizeOf(note) = size
  BY <1>1, <1>2 DEF CommandInv
<1> QED BY <1>2, <1>5, <1>6, <1>7 DEF CommandInv

-----------------------------------------------------------------------------
(* The other steps *)

\* Until the roots have passed, an opening says nothing that is to be sound.
LEMMA OpeningKeeps ==
  ASSUME TypeOK, OpeningInv, NEW p \in Openers,
         \/ \E pol \in Policies : Open(p, pol)
         \/ CheckLeafRule(p) \/ PutLeafRule(p) \/ Count(p) \/ AttestedCheckpoint(p) \/ Walk(p)
  PROVE  CommandInv(p)'
<1>1. CommandInv(p) /\ p \in DOMAIN pc /\ p \in DOMAIN verdict
  BY DEF OpeningInv, TypeOK
<1>2. ASSUME NEW pol \in Policies, Open(p, pol)
      PROVE  CommandInv(p)'
  <2>1. /\ policy'[p] = pol /\ Validate(pol) /\ verdict'[p] = "none" /\ notes' = notes
        /\ promised'[p] = {SizeOf(note) : note \in notes} /\ attested'[p] = None
        /\ pc'[p] \in {"count", "unmarked"}
    BY <1>1, <1>2 DEF Open, Goto, file, TypeOK
  <2> QED BY <2>1 DEF CommandInv, Sound, Complete, Passed
<1>3. CASE CheckLeafRule(p) \/ PutLeafRule(p) \/ Count(p)
  <2>1. /\ UNCHANGED <<notes, policy, attested, promised>>
        /\ pc[p] # "idle"
        /\ \/ pc'[p] \in {"mark", "count", "attested"} /\ verdict'[p] = verdict[p]
           \/ pc'[p] = "idle" /\ verdict'[p] \in {"leaf rule", "refused"}
    BY <1>1, <1>3 DEF CheckLeafRule, PutLeafRule, Count, End, Goto, file, reads, history
  <2> QED BY <1>1, <2>1 DEF CommandInv, Sound, Complete, Passed
<1>4. CASE AttestedCheckpoint(p)
  <2>1. LastCosignedCheckpoint = None \/ LastCosignedCheckpoint \in notes
    <3>1. {note \in notes : IsCosigned(note)} \subseteq notes
      OBVIOUS
    <3> QED BY <3>1, LargestIsThere DEF LastCosignedCheckpoint
  <2>2. /\ UNCHANGED <<notes, policy, promised>>
        /\ attested'[p] = LastCosignedCheckpoint /\ pc[p] # "idle"
        /\ \/ pc'[p] = "walk" /\ verdict'[p] = verdict[p]
           \/ pc'[p] = "idle" /\ verdict'[p] = "refused"
    BY <1>1, <1>4 DEF AttestedCheckpoint, End, Goto, file, history, TypeOK
  <2> QED BY <1>1, <2>1, <2>2 DEF CommandInv, Sound, Complete, Passed
<1>5. CASE Walk(p)
  <2>1. /\ UNCHANGED <<notes, declared, policy, full, attested, promised>>
        /\ walked'[p] = rows /\ pc[p] # "idle"
        /\ \/ WalkPasses(p) /\ pc'[p] = "roots" /\ verdict'[p] = verdict[p]
           \/ pc'[p] = "idle" /\ verdict'[p] = "refused"
    BY <1>1, <1>5 DEF Walk, End, Goto, file, history, TypeOK
  <2>2. SignedFrom(p)' = SignedFrom(p) /\ Expected(p)' = ExpectedSigner(p)
    BY <2>1 DEF SignedFrom, Verified, CheckLogKey, Expected, ExpectedSigner
  <2>3. WalkPasses(p) => Walked(p)'
    BY <2>1, <2>2 DEF WalkPasses, Walked
  <2> QED BY <1>1, <2>1, <2>3 DEF CommandInv, Sound, Complete, Passed
<1> QED BY <1>2, <1>3, <1>4, <1>5

-----------------------------------------------------------------------------
(* Types *)

\* The row Seal appends.
LEMMA NextRow ==
  ASSUME TypeOK, NEW e \in Entry
  PROVE  Append(IF rows = << >> THEN << >> ELSE rows[Len(rows)].header, e) \in Header
<1>1. rows # << >> => rows[Len(rows)].header \in Seq(Entry)
  <2>1. rows \in Seq(Row)
    BY DEF TypeOK
  <2>2. rows # << >> => rows[Len(rows)] \in Row
    BY <2>1
  <2> QED BY <2>2 DEF Row, Header
<1> DEFINE before == IF rows = << >> THEN << >> ELSE rows[Len(rows)].header
<1>2. before \in Seq(Entry)
  BY <1>1
<1> HIDE DEF before
<1>3. Append(before, e) \in Seq(Entry) /\ Append(before, e) # << >>
  <2>1. Append(before, e) \in Seq(Entry) /\ Len(Append(before, e)) = Len(before) + 1
    BY <1>2
  <2>2. Len(before) \in Nat /\ Len(<< >>) = 0
    BY <1>2
  <2> QED BY <2>1, <2>2
<1>4. Append(before, e) \in Header
  BY <1>3 DEF Header
<1> QED BY <1>4 DEF before

\* What commands that opened before write has its types.
LEMMA WritersKeepTypes ==
  ASSUME TypeOK,
         \/ OpenElsewhere
         \/ \E e \in Entry : Seal(e)
         \/ \E size \in 0..Len(rows), w \in Witnesses : PutCheckpoint(size, w)
  PROVE  TypeOK'
<1>1. CASE OpenElsewhere
  BY <1>1 DEF OpenElsewhere, TypeOK, reads
<1>2. ASSUME NEW e \in Entry, Seal(e)
      PROVE  TypeOK'
  <2> DEFINE h == Append(IF rows = << >> THEN << >> ELSE rows[Len(rows)].header, e)
  <2>1. h \in Header /\ Sealed(h) \in Row
    BY NextRow, SignerIsKey
  <2>2. rows' = Append(rows, Sealed(h)) /\ Len(rows) < MaxBlocks
    BY <1>2 DEF Seal
  <2>3. rows \in Seq(Row)
    BY DEF TypeOK
  <2> HIDE DEF h
  <2>4. rows' \in Seq(Row) /\ Len(rows') <= MaxBlocks
    BY <2>1, <2>2, <2>3, OpeningBoundsAssumption
  <2>5. sealed' \in [Openers -> BOOLEAN] /\ numbered' \in BOOLEAN
    BY <1>2 DEF Seal, FromGenesis
  <2>6. UNCHANGED <<notes, mark, declared, pc, reads, verdict, admitted, promised, synced>>
    BY <1>2 DEF Seal
  <2> QED BY <2>4, <2>5, <2>6 DEF TypeOK, reads
<1>3. ASSUME NEW size \in 0..Len(rows), NEW w \in Witnesses, PutCheckpoint(size, w)
      PROVE  TypeOK'
  <2> DEFINE tree == SubSeq(Leaves(rows), 1, size)
             note == [tree |-> tree, cosigners |-> {w}, log |-> declared]
  <2>1. rows \in Seq(Row) /\ Len(rows) <= MaxBlocks
    BY DEF TypeOK
  <2>2. tree \in Seq(Leaf) /\ Len(tree) = size
    BY <2>1, LeavesOfRows
  <2>3. declared \in Logs
    BY <1>3 DEF PutCheckpoint, TypeOK
  <2>4. notes' = notes \cup {note}
    BY <1>3 DEF PutCheckpoint
  <2>5. UNCHANGED <<rows, numbered, mark, declared, pc, reads, verdict, admitted, promised,
                    sealed>>
        /\ synced' \in [Openers -> BOOLEAN]
    BY <1>3 DEF PutCheckpoint
  <2>6. note \in Note /\ SizeOf(note) <= MaxBlocks
    <3> HIDE DEF tree
    <3>1. size <= MaxBlocks
      BY <2>1, OpeningBoundsAssumption
    <3> QED BY <2>2, <2>3, <3>1 DEF Note, SizeOf
  <2> HIDE DEF note
  <2> QED BY <2>4, <2>5, <2>6 DEF TypeOK, reads
<1> QED BY <1>1, <1>2, <1>3

\* So has what an opening reads.
LEMMA OpenersKeepTypes ==
  ASSUME TypeOK, NEW p \in Openers, Opens(p)
  PROVE  TypeOK'
<1>1. ASSUME NEW pol \in Policies, Open(p, pol)
      PROVE  TypeOK'
  <2> DEFINE sizes == {SizeOf(note) : note \in notes}
  <2>1. sizes \subseteq Nat
    <3>1. \A note \in notes : note.tree \in Seq(Leaf)
      BY DEF TypeOK, Note
    <3> QED BY <3>1 DEF SizeOf
  <2>2. promised' = [promised EXCEPT ![p] = sizes]
    BY <1>1 DEF Open
  <2> HIDE DEF sizes
  <2>3. promised' \in [Openers -> SUBSET Nat]
    BY <2>1, <2>2 DEF TypeOK
  <2>4. attested' \in [Openers -> Note \cup {None}] /\ walked' \in [Openers -> Seq(Row)]
    <3>1. attested \in [Openers -> Note \cup {None}] /\ walked \in [Openers -> Seq(Row)]
      BY DEF TypeOK
    <3>2. attested' \in [Openers -> Note \cup {None}]
      BY <1>1, <3>1 DEF Open
    <3>3. walked' = [walked EXCEPT ![p] = << >>] /\ << >> \in Seq(Row)
      BY <1>1 DEF Open
    <3>4. walked' \in [Openers -> Seq(Row)]
      BY <3>1, <3>3
    <3> QED BY <3>2, <3>4
  <2>5. /\ policy' \in [Openers -> Policies] /\ full' \in [Openers -> BOOLEAN]
        /\ n' \in [Openers -> Nat]
        /\ sealed' \in [Openers -> BOOLEAN] /\ synced' \in [Openers -> BOOLEAN]
    <3>1. /\ policy \in [Openers -> Policies] /\ full \in [Openers -> BOOLEAN]
          /\ n \in [Openers -> Nat]
          /\ sealed \in [Openers -> BOOLEAN] /\ synced \in [Openers -> BOOLEAN]
      BY DEF TypeOK
    <3> QED BY <1>1, <3>1 DEF Open
  <2>6. /\ pc' \in [Openers -> {"idle", "unmarked", "mark", "count", "attested", "walk", "roots"}]
        /\ verdict' \in [Openers -> {"none", "leaf rule", "refused", "accepted", "attested"}]
    BY <1>1 DEF Open, Goto, TypeOK
  <2>7. UNCHANGED <<rows, numbered, notes, mark, declared, admitted>>
    BY <1>1 DEF Open, file
  <2> QED BY <2>3, <2>4, <2>5, <2>6, <2>7 DEF TypeOK
<1>2. CASE CheckLeafRule(p)
  BY <1>2 DEF CheckLeafRule, Goto, End, TypeOK, file, reads, history
<1>3. CASE PutLeafRule(p)
  BY <1>3 DEF PutLeafRule, Goto, TypeOK, reads, history
<1>4. CASE Count(p)
  <2>1. n' \in [Openers -> Nat]
    <3>1. rows \in Seq(Row) /\ n \in [Openers -> Nat]
      BY DEF TypeOK
    <3>2. Len(rows) \in Nat
      BY <3>1
    <3> QED BY <1>4, <3>1, <3>2 DEF Count
  <2>2. /\ pc' \in [Openers -> {"idle", "unmarked", "mark", "count", "attested", "walk", "roots"}]
        /\ verdict' \in [Openers -> {"none", "leaf rule", "refused", "accepted", "attested"}]
    BY <1>4 DEF Count, Goto, End, TypeOK
  <2>3. UNCHANGED <<file, policy, full, attested, walked, history>>
    BY <1>4 DEF Count
  <2> QED BY <2>1, <2>2, <2>3 DEF TypeOK, file, history
<1>5. CASE AttestedCheckpoint(p)
  <2>1. LastCosignedCheckpoint \in Note \cup {None}
    <3>1. {note \in notes : IsCosigned(note)} \subseteq notes
      OBVIOUS
    <3>2. LastCosignedCheckpoint = None \/ LastCosignedCheckpoint \in notes
      BY <3>1, LargestIsThere DEF LastCosignedCheckpoint
    <3> QED BY <3>2 DEF TypeOK
  <2>2. attested' \in [Openers -> Note \cup {None}]
    BY <1>5, <2>1 DEF AttestedCheckpoint, TypeOK
  <2>3. /\ pc' \in [Openers -> {"idle", "unmarked", "mark", "count", "attested", "walk", "roots"}]
        /\ verdict' \in [Openers -> {"none", "leaf rule", "refused", "accepted", "attested"}]
    BY <1>5 DEF AttestedCheckpoint, Goto, End, TypeOK
  <2>4. UNCHANGED <<file, policy, full, n, walked, history>>
    BY <1>5 DEF AttestedCheckpoint
  <2> QED BY <2>2, <2>3, <2>4 DEF TypeOK, file, history
<1>6. CASE Walk(p)
  <2>1. walked' \in [Openers -> Seq(Row)]
    BY <1>6 DEF Walk, TypeOK
  <2>2. /\ pc' \in [Openers -> {"idle", "unmarked", "mark", "count", "attested", "walk", "roots"}]
        /\ verdict' \in [Openers -> {"none", "leaf rule", "refused", "accepted", "attested"}]
    BY <1>6 DEF Walk, Goto, End, TypeOK
  <2>3. UNCHANGED <<file, policy, full, n, attested, history>>
    BY <1>6 DEF Walk
  <2> QED BY <2>1, <2>2, <2>3 DEF TypeOK, file, history
<1>7. CASE VerifyAgainstCheckpoints(p)
  <2>1. /\ pc' \in [Openers -> {"idle", "unmarked", "mark", "count", "attested", "walk", "roots"}]
        /\ verdict' \in [Openers -> {"none", "leaf rule", "refused", "accepted", "attested"}]
        /\ full' \in [Openers -> BOOLEAN]
    BY <1>7 DEF VerifyAgainstCheckpoints, Goto, End, TypeOK
  <2>2. UNCHANGED <<file, policy, n, attested, walked, history>>
    BY <1>7 DEF VerifyAgainstCheckpoints
  <2> QED BY <2>1, <2>2 DEF TypeOK, file, history
<1> QED BY <1>1, <1>2, <1>3, <1>4, <1>5, <1>6, <1>7 DEF Opens

\* Every file an opening can meet has its types.
LEMMA InitTypes ==
  ASSUME Init
  PROVE  TypeOK
<1>1. PICK f \in Files : /\ rows = f.rows /\ numbered = f.numbered /\ notes = f.notes
                         /\ mark = f.mark /\ declared = f.log
  BY DEF Init
<1>2. /\ f \in File /\ Len(f.rows) <= MaxBlocks
      /\ \A note \in f.notes : Len(note.tree) <= MaxBlocks
  BY FilesAssumption
<1>3. /\ f.rows \in Seq(Row) /\ f.notes \in SUBSET Note /\ f.numbered \in BOOLEAN
      /\ f.mark \in BOOLEAN /\ f.log \in Logs \cup {None}
  BY <1>2 DEF File
<1>4. /\ rows \in Seq(Row) /\ Len(rows) <= MaxBlocks
      /\ notes \subseteq {note \in Note : SizeOf(note) <= MaxBlocks}
      /\ mark \in BOOLEAN /\ declared \in Logs \cup {None} /\ numbered \in BOOLEAN
  BY <1>1, <1>2, <1>3 DEF SizeOf
<1>5. NoPolicy \in Policies
  BY PoliciesAssumption
<1>6. /\ pc \in [Openers -> {"idle", "unmarked", "mark", "count", "attested", "walk", "roots"}]
      /\ policy \in [Openers -> Policies] /\ full \in [Openers -> BOOLEAN]
      /\ n \in [Openers -> Nat] /\ attested \in [Openers -> Note \cup {None}]
      /\ walked \in [Openers -> Seq(Row)]
      /\ verdict \in [Openers -> {"none", "leaf rule", "refused", "accepted", "attested"}]
      /\ promised \in [Openers -> SUBSET Nat]
      /\ sealed \in [Openers -> BOOLEAN] /\ synced \in [Openers -> BOOLEAN]
  BY <1>5 DEF Init
<1>7. admitted \in BOOLEAN
  BY DEF Init
<1> QED BY <1>4, <1>6, <1>7 DEF TypeOK

\* Every variable has its type, for any files and policies.
THEOREM OpeningTypeCorrect == Spec => []TypeOK
<1>1. Init => TypeOK
  BY InitTypes
<1>2. TypeOK /\ [Next]_vars => TypeOK'
  <2> SUFFICES ASSUME TypeOK, [Next]_vars PROVE TypeOK'
    OBVIOUS
  <2>1. CASE Next
    BY <2>1, WritersKeepTypes, OpenersKeepTypes DEF Next
  <2>2. CASE UNCHANGED vars
    BY <2>2 DEF vars, file, reads, history, TypeOK
  <2> QED BY <2>1, <2>2
<1> QED BY <1>1, <1>2, PTL DEF Spec

-----------------------------------------------------------------------------
(* The invariant is inductive *)

\* A note that is kept of linked rows is of a history.
LEMMA GenuineKept ==
  ASSUME TypeOK, NEW size \in 0..Len(rows), NEW w \in Witnesses, PutCheckpoint(size, w),
         AdmittedInv, \A note \in notes : Genuine(note)
  PROVE  \A note \in notes' : Genuine(note)
<1> DEFINE tree == SubSeq(Leaves(rows), 1, size)
           kept == [tree |-> tree, cosigners |-> {w}, log |-> declared]
<1>1. Linked(rows) /\ notes' = notes \cup {kept}
  BY DEF PutCheckpoint, AdmittedInv
<1>2. rows \in Seq(Row)
  BY DEF TypeOK
<1>3. /\ tree \in Seq(Leaf) /\ Len(tree) = size
      /\ \A i \in 1..size : tree[i] = LeafOf(rows[i])
  BY <1>2, LeavesOfRows
<1>4. ASSUME NEW i \in 1..size
      PROVE  RowsOf(tree)[i] = rows[i]
  <2> HIDE DEF tree
  <2>1. rows[i] = Sealed(rows[i].header)
    BY <1>1 DEF Linked
  <2>2. RowsOf(tree)[i] = [header |-> rows[i].hash, hash |-> rows[i].hash, sig |-> rows[i].sig]
    BY <1>3 DEF RowsOf, LeafOf
  <2>3. rows[i] \in Row /\ rows[i].hash = rows[i].header
    BY <1>2, <2>1 DEF Sealed
  <2> QED BY <2>2, <2>3 DEF Row
<1>5. Len(RowsOf(tree)) = size
  <2> HIDE DEF tree
  <2> QED BY <1>3 DEF RowsOf
<1>6. Linked(RowsOf(tree))
  <2> DEFINE t == RowsOf(tree)
  <2>1. Len(t) = size /\ \A i \in 1..size : t[i] = rows[i]
    BY <1>4, <1>5
  <2> HIDE DEF t, tree
  <2>2. ASSUME NEW i \in 1..Len(t)
        PROVE  /\ t[i] = Sealed(t[i].header)
               /\ i > 1 => Before(t[i].header) = t[i - 1].header
               /\ SignerOf(t[i].header) = SignerOf(t[1].header)
    <3>1. i \in 1..size /\ 1 \in 1..size /\ (i > 1 => i - 1 \in 1..size) /\ i \in 1..Len(rows)
      BY <2>1
    <3>2. t[i] = rows[i] /\ t[1] = rows[1] /\ (i > 1 => t[i - 1] = rows[i - 1])
      BY <2>1, <3>1
    <3>3. /\ rows[i] = Sealed(rows[i].header)
          /\ i > 1 => Before(rows[i].header) = rows[i - 1].header
          /\ SignerOf(rows[i].header) = SignerOf(rows[1].header)
      BY <1>1, <3>1 DEF Linked
    <3> QED BY <3>2, <3>3
  <2>3. Linked(t)
    BY <2>2 DEF Linked
  <2> QED BY <2>3 DEF t
<1>7. Genuine(kept)
  BY <1>6 DEF Genuine
<1> QED BY <1>1, <1>7

\* Linked rows with one row more are linked, and begin as they did.
LEMMA SealExtends ==
  ASSUME TypeOK, Linked(rows), NEW e \in Entry, Seal(e)
  PROVE  /\ Linked(rows') /\ (FromGenesis(rows') <=> FromGenesis(rows))
         /\ rows' \in Seq(Row) /\ IsPrefix(rows, rows') /\ Len(rows') = Len(rows) + 1
<1> DEFINE before == IF rows = << >> THEN << >> ELSE rows[Len(rows)].header
           h == Append(before, e)
<1>1. h \in Header /\ Sealed(h) \in Row /\ SignerOf(h) \in Signers
  BY NextRow, SignerIsKey
<1>2. rows \in Seq(Row)
  BY DEF TypeOK
<1>3. rows' = Append(rows, Sealed(h))
  BY DEF Seal
<1>4. rows # << >> => e.signer = SignerOf(rows[1].header)
  BY DEF Seal
<1>5. before \in Seq(Entry)
  <2>1. rows # << >> => rows[Len(rows)] \in Row
    BY <1>2
  <2> QED BY <2>1 DEF Row, Header
<1>6. SignerOf(h) = e.signer /\ Before(h) = before /\ h[Len(h)] = e
  <2> HIDE DEF before
  <2>1. Len(h) = Len(before) + 1 /\ h[Len(h)] = e
    BY <1>5
  <2>2. PICK k \in Nat : k = Len(before)
    BY <1>5
  <2>3. SubSeq(h, 1, k) = before
    BY <1>5, <2>2
  <2> QED BY <2>1, <2>2, <2>3 DEF SignerOf, Before
<1>7. Sealed(h).header = h
  BY DEF Sealed
<1> PICK row \in Row : row = Sealed(h)
  BY <1>1
<1>14. Append(rows, row) \in Seq(Row)
  BY <1>2
<1> PICK rs \in Seq(Row) : rs = Append(rows, row)
  BY <1>14
<1>8. /\ rows' = rs /\ Len(rs) = Len(rows) + 1 /\ rs[Len(rows) + 1] = row
      /\ \A i \in 1..Len(rows) : rs[i] = rows[i]
  BY <1>2, <1>3
<1>9. row.header = h /\ row = Sealed(row.header) /\ SignerOf(row.header) = e.signer
      /\ Before(row.header) = before
  BY <1>6, <1>7
<1> HIDE DEF h
<1>10. Linked(rs)
  <2> SUFFICES ASSUME NEW i \in 1..Len(rs)
               PROVE  /\ rs[i] = Sealed(rs[i].header)
                      /\ i > 1 => Before(rs[i].header) = rs[i - 1].header
                      /\ SignerOf(rs[i].header) = SignerOf(rs[1].header)
    BY DEF Linked
  <2>1. CASE i \in 1..Len(rows)
    <3>1. /\ rows[i] = Sealed(rows[i].header)
          /\ i > 1 => Before(rows[i].header) = rows[i - 1].header
          /\ SignerOf(rows[i].header) = SignerOf(rows[1].header)
      BY <2>1 DEF Linked
    <3>2. rs[i] = rows[i] /\ rs[1] = rows[1] /\ (i > 1 => rs[i - 1] = rows[i - 1])
      BY <1>2, <1>8, <2>1
    <3> QED BY <3>1, <3>2
  <2>2. CASE i = Len(rows) + 1
    <3>1. rs[i] = row
      BY <1>8, <2>2
    <3>2. CASE rows = << >>
      <4>1. i = 1
        BY <2>2, <3>2
      <4> QED BY <1>9, <3>1, <4>1
    <3>3. CASE rows # << >>
      <4>1. Len(rows) \in 1..Len(rows) /\ 1 \in 1..Len(rows)
        BY <1>2, <3>3
      <4>2. rs[i - 1] = rows[Len(rows)] /\ rs[1] = rows[1]
        BY <1>2, <1>8, <2>2, <4>1
      <4>3. before = rows[Len(rows)].header
        BY <3>3
      <4> QED BY <1>4, <1>9, <3>1, <3>3, <4>2, <4>3
    <3> QED BY <3>2, <3>3
  <2> QED BY <1>2, <1>8, <2>1, <2>2
<1>11. FromGenesis(rs) <=> FromGenesis(rows)
  <2>1. CASE rows = << >>
    <3>1. rs[1] = row /\ before = << >>
      BY <1>8, <2>1
    <3>2. Len(h) = 1
      BY <1>5, <3>1 DEF h
    <3> QED BY <1>9, <2>1, <3>1, <3>2 DEF FromGenesis
  <2>2. CASE rows # << >>
    <3>1. rs[1] = rows[1]
      BY <1>2, <1>8, <2>2
    <3>2. rs # << >>
      BY <1>2, <1>8
    <3> QED BY <2>2, <3>1, <3>2 DEF FromGenesis
  <2> QED BY <2>1, <2>2
<1>12. IsPrefix(rows, rs)
  <2>1. Len(rows) <= Len(rs)
    BY <1>2, <1>8
  <2>2. \A i \in 1..Len(rows) : rows[i] = rs[i]
    BY <1>8
  <2> QED BY <1>2, <2>1, <2>2, SameElements
<1> QED BY <1>8, <1>10, <1>11, <1>12

\* Whoever has let a file pass has found in it what its notes promise.
LEMMA OpenablePromises ==
  ASSUME TypeOK, Openable, NEW note \in notes
  PROVE  SizeOf(note) <= Len(rows)
<1>1. /\ LastCheckpoint # None /\ LastCheckpoint \in notes
      /\ SizeOf(note) <= SizeOf(LastCheckpoint)
  BY LastIsLargest
<1>2. IsPrefix(LastCheckpoint.tree, Leaves(rows))
  BY <1>1 DEF Openable
<1>3. rows \in Seq(Row)
  BY DEF TypeOK
<1>4. SizeOf(LastCheckpoint) <= Len(rows)
  BY <1>2, <1>3, LeavesOfRows DEF IsPrefix, SizeOf
<1>5. SizeOf(note) \in Nat /\ SizeOf(LastCheckpoint) \in Nat
  <2>1. \A other \in notes : other.tree \in Seq(Leaf)
    BY DEF TypeOK, Note
  <2> QED BY <1>1, <2>1 DEF SizeOf
<1> QED BY <1>1, <1>3, <1>4, <1>5

\* The size of a note that is kept.
LEMMA PutSize ==
  ASSUME TypeOK, NEW size \in 0..Len(rows), NEW w \in Witnesses, PutCheckpoint(size, w)
  PROVE  \A note \in notes' : note \in notes \/ SizeOf(note) = size
<1> DEFINE tree == SubSeq(Leaves(rows), 1, size)
           kept == [tree |-> tree, cosigners |-> {w}, log |-> declared]
<1>1. notes' = notes \cup {kept} /\ kept.tree = tree
  BY DEF PutCheckpoint
<1>2. rows \in Seq(Row)
  BY DEF TypeOK
<1>3. Len(tree) = size
  BY <1>2, LeavesOfRows
<1> HIDE DEF tree, kept
<1> QED BY <1>1, <1>3 DEF SizeOf

\* What a command has admitted stays as it found it, but for what is written after.
LEMMA AdmittedStep ==
  ASSUME TypeOK, AdmittedInv, [Next]_vars
  PROVE  AdmittedInv'
<1>0. rows \in Seq(Row)
  BY DEF TypeOK
<1>1. ASSUME UNCHANGED <<rows, numbered, notes, admitted>>, mark => mark'
      PROVE  AdmittedInv'
  BY <1>1 DEF AdmittedInv
<1>2. ASSUME NEW p \in Openers, Opens(p)
      PROVE  AdmittedInv'
  BY <1>1, <1>2 DEF Opens, Open, CheckLeafRule, PutLeafRule, Count, AttestedCheckpoint, Walk,
                    VerifyAgainstCheckpoints, file, history
<1>3. CASE OpenElsewhere
  <2>1. Linked(rows) /\ numbered /\ mark' /\ UNCHANGED <<rows, numbered, notes>>
    BY <1>3 DEF OpenElsewhere, Openable
  <2>2. \A note \in notes : SizeOf(note) <= Len(rows)
    BY <1>3, OpenablePromises DEF OpenElsewhere
  <2> QED BY <2>1, <2>2 DEF AdmittedInv
<1>4. ASSUME NEW e \in Entry, Seal(e)
      PROVE  AdmittedInv'
  <2>1. /\ Linked(rows) /\ mark /\ \A note \in notes : SizeOf(note) <= Len(rows)
        /\ numbered' = FromGenesis(rows) /\ UNCHANGED <<notes, mark>>
    BY <1>4 DEF Seal, AdmittedInv
  <2>2. /\ Linked(rows') /\ (FromGenesis(rows') <=> FromGenesis(rows))
        /\ Len(rows') = Len(rows) + 1
    BY <1>4, <2>1, SealExtends
  <2>3. \A note \in notes : SizeOf(note) <= Len(rows')
    <3>1. \A note \in notes : SizeOf(note) \in Nat
      <4>1. \A note \in notes : note.tree \in Seq(Leaf)
        BY DEF TypeOK, Note
      <4> QED BY <4>1 DEF SizeOf
    <3> QED BY <1>0, <2>1, <2>2, <3>1
  <2> QED BY <2>1, <2>2, <2>3 DEF AdmittedInv
<1>5. ASSUME NEW size \in 0..Len(rows), NEW w \in Witnesses, PutCheckpoint(size, w)
      PROVE  AdmittedInv'
  <2>1. /\ Linked(rows) /\ mark /\ (FromGenesis(rows) => numbered)
        /\ \A note \in notes : SizeOf(note) <= Len(rows)
        /\ UNCHANGED <<rows, numbered, mark>>
    BY <1>5 DEF PutCheckpoint, AdmittedInv
  <2>2. \A note \in notes' : SizeOf(note) <= Len(rows)
    BY <1>0, <1>5, <2>1, PutSize
  <2> QED BY <2>1, <2>2 DEF AdmittedInv
<1>6. CASE UNCHANGED vars
  BY <1>1, <1>6 DEF vars, file, history
<1> QED BY <1>2, <1>3, <1>4, <1>5, <1>6 DEF Next

\* Every step keeps the invariant.
LEMMA OpeningStep ==
  ASSUME TypeOK, OpeningInv, [Next]_vars
  PROVE  OpeningInv'
<1>1. ASSUME NEW p \in Openers, Opens(p)
      PROVE  OpeningInv'
  <2>1. UNCHANGED <<notes, declared>>
    BY <1>1 DEF Opens, Open, CheckLeafRule, PutLeafRule, Count, AttestedCheckpoint, Walk,
                VerifyAgainstCheckpoints, file
  <2>2. CommandInv(p)'
    BY <1>1, AcceptKeeps, OpeningKeeps DEF Opens
  <2>3. ASSUME NEW q \in Openers, q # p
        PROVE  CommandInv(q)'
    <3>1. /\ pc'[q] = pc[q] /\ policy'[q] = policy[q] /\ full'[q] = full[q]
          /\ attested'[q] = attested[q] /\ walked'[q] = walked[q] /\ verdict'[q] = verdict[q]
          /\ promised'[q] = promised[q]
      <4>0. /\ q \in DOMAIN pc /\ q \in DOMAIN policy /\ q \in DOMAIN full /\ q \in DOMAIN attested
            /\ q \in DOMAIN walked /\ q \in DOMAIN verdict /\ q \in DOMAIN promised
        BY DEF TypeOK
      <4>1. ASSUME NEW pol \in Policies, Open(p, pol)
            PROVE  <3>1
        BY <2>3, <4>0, <4>1 DEF Open, Goto, file
      <4>2. CASE CheckLeafRule(p) \/ PutLeafRule(p)
        BY <2>3, <4>0, <4>2 DEF CheckLeafRule, PutLeafRule, End, Goto, reads, history
      <4>3. CASE Count(p)
        BY <2>3, <4>0, <4>3 DEF Count, End, Goto, history
      <4>4. CASE AttestedCheckpoint(p)
        BY <2>3, <4>0, <4>4 DEF AttestedCheckpoint, End, Goto, history
      <4>5. CASE Walk(p)
        BY <2>3, <4>0, <4>5 DEF Walk, End, Goto, history
      <4>6. CASE VerifyAgainstCheckpoints(p)
        BY <2>3, <4>0, <4>6 DEF VerifyAgainstCheckpoints, End, Goto, history
      <4> QED BY <1>1, <4>1, <4>2, <4>3, <4>4, <4>5, <4>6 DEF Opens
    <3> QED BY <2>1, <3>1, OthersKeep DEF OpeningInv
  <2>4. \A note \in notes' : Genuine(note)
    BY <2>1 DEF OpeningInv
  <2>5. AdmittedInv'
    BY <1>1, AdmittedStep DEF OpeningInv, Next
  <2> QED BY <2>2, <2>3, <2>4, <2>5 DEF OpeningInv
<1>2. ASSUME notes \subseteq notes', declared' = declared, \A note \in notes' : Genuine(note),
             AdmittedInv',
             UNCHANGED <<pc, policy, full, attested, walked, verdict, promised>>
      PROVE  OpeningInv'
  BY <1>2, OthersKeep DEF OpeningInv
<1>0. AdmittedInv'
  BY AdmittedStep DEF OpeningInv
<1>3. CASE OpenElsewhere
  BY <1>0, <1>2, <1>3 DEF OpenElsewhere, reads, OpeningInv
<1>4. ASSUME NEW e \in Entry, Seal(e)
      PROVE  OpeningInv'
  BY <1>0, <1>2, <1>4 DEF Seal, reads, OpeningInv
<1>5. ASSUME NEW size \in 0..Len(rows), NEW w \in Witnesses, PutCheckpoint(size, w)
      PROVE  OpeningInv'
  <2>1. \A note \in notes' : Genuine(note)
    BY <1>5, GenuineKept DEF OpeningInv
  <2>2. /\ notes \subseteq notes' /\ declared' = declared
        /\ UNCHANGED <<pc, policy, full, attested, walked, verdict, promised>>
    BY <1>5 DEF PutCheckpoint, reads
  <2> QED BY <1>0, <1>2, <2>1, <2>2
<1>6. CASE UNCHANGED vars
  BY <1>0, <1>2, <1>6 DEF vars, file, reads, history, OpeningInv
<1> QED BY <1>1, <1>3, <1>4, <1>5, <1>6 DEF Next

\* Nothing has been said at the start, and the notes are of histories.
LEMMA OpeningInit ==
  ASSUME Init
  PROVE  OpeningInv
<1>1. \A note \in notes : Genuine(note)
  <2>1. PICK f \in Files : notes = f.notes
    BY DEF Init
  <2> QED BY <2>1, GenuineAssumption
<1>2. ASSUME NEW p \in Openers
      PROVE  CommandInv(p)
  <2>1. /\ policy[p] = NoPolicy /\ attested[p] = None /\ promised[p] = {}
        /\ pc[p] = "idle" /\ verdict[p] = "none"
    BY DEF Init
  <2> QED BY <2>1 DEF CommandInv, Validate, Sound, Complete, Passed
<1>3. AdmittedInv
  BY DEF Init, AdmittedInv
<1> QED BY <1>1, <1>2, <1>3 DEF OpeningInv

-----------------------------------------------------------------------------
(* Theorems *)

\* The invariant holds of every behaviour.
THEOREM OpeningInvariant == Spec => []OpeningInv
<1>1. Init => OpeningInv
  BY OpeningInit
<1>2. TypeOK /\ OpeningInv /\ [Next]_vars => OpeningInv'
  BY OpeningStep
<1> QED BY <1>1, <1>2, OpeningTypeCorrect, PTL DEF Spec

\* Whatever the file was put together from, what verify accepts is a history that
\* one key sealed, also the rows whose signatures were left unread because a
\* quorum of the policy had cosigned their root.
THEOREM OpeningIsSound == Spec => []AcceptedIsSound
<1>1. OpeningInv => AcceptedIsSound
  BY DEF OpeningInv, CommandInv, Sound, AcceptedIsSound
<1> QED BY <1>1, OpeningInvariant, PTL

\* Whatever is written while it reads, what verify accepts has at least the blocks
\* every note promised when it began, and what it calls attested a quorum of the
\* policy cosigned.
THEOREM OpeningIsWhole == Spec => []AcceptedIsWhole
<1>1. OpeningInv => AcceptedIsWhole
  BY DEF OpeningInv, CommandInv, Complete, AcceptedIsWhole
<1> QED BY <1>1, OpeningInvariant, PTL

-----------------------------------------------------------------------------
(* Races: what is refused of a sound file *)

\* A file is marked before it has blocks, also when the command that marks it has
\* looked long ago.
MarkInv == \A p \in Openers : pc[p] = "mark" => mark \/ rows = << >>

\* No note promises more than m blocks.
Promised(m) == \A note \in notes : SizeOf(note) <= m

\* A block was sealed and a note was kept since the opening began.
Raced(p) == sealed[p] /\ synced[p]

\* What an opening has read of a sound file is what there is, but for what was
\* sealed and kept since it began; what it said of one was said in a race.
RaceInv(p) ==
  SoundFile =>
    /\ pc[p] = "unmarked" => promised[p] \subseteq {0} /\ (~sealed[p] => rows = << >>)
    /\ pc[p] = "attested" => /\ ~sealed[p] => Len(rows) = n[p]
                             /\ ~Raced(p) => Promised(n[p])
    /\ pc[p] = "roots" => /\ IsPrefix(walked[p], rows)
                          /\ ~sealed[p] => Len(rows) = Len(walked[p])
                          /\ ~Raced(p) => Promised(Len(walked[p]))
    /\ verdict[p] = "refused" => Raced(p) \/ ~OwnPolicy(p)
    /\ verdict[p] = "leaf rule" => sealed[p] /\ promised[p] \subseteq {0}

\* The notes of a sound file promise what it has.
LEMMA SoundPromises ==
  ASSUME TypeOK, SoundFile
  PROVE  /\ Promised(Len(rows))
         /\ \A note \in notes : note.tree \in Seq(Leaf) /\ SizeOf(note) \in Nat
<1>1. \A note \in notes : note.tree \in Seq(Leaf)
  BY DEF TypeOK, Note
<1>2. rows \in Seq(Row)
  BY DEF TypeOK
<1>3. \A note \in notes : Len(note.tree) <= Len(rows)
  BY <1>2, LeavesOfRows DEF SoundFile, IsPrefix
<1> QED BY <1>1, <1>3 DEF Promised, SizeOf

\* One block more makes no file sound or unsound.
LEMMA SealKeepsSound ==
  ASSUME TypeOK, AdmittedInv, NEW e \in Entry, Seal(e)
  PROVE  /\ SoundFile' <=> SoundFile
         /\ rows' \in Seq(Row) /\ IsPrefix(rows, rows') /\ Len(rows') = Len(rows) + 1
<1>1. /\ Linked(rows) /\ mark /\ (FromGenesis(rows) => numbered)
      /\ \A note \in notes : SizeOf(note) <= Len(rows)
      /\ numbered' = FromGenesis(rows) /\ UNCHANGED <<notes, mark, declared>>
  BY DEF Seal, AdmittedInv
<1>2. /\ Linked(rows') /\ (FromGenesis(rows') <=> FromGenesis(rows))
      /\ rows' \in Seq(Row) /\ IsPrefix(rows, rows') /\ Len(rows') = Len(rows) + 1
  BY <1>1, SealExtends
<1>3. rows \in Seq(Row)
  BY DEF TypeOK
<1> PICK rs \in Seq(Row) : rs = rows'
  BY <1>2
<1>4. ASSUME NEW note \in notes
      PROVE  IsPrefix(note.tree, Leaves(rs)) <=> IsPrefix(note.tree, Leaves(rows))
  <2>1. note.tree \in Seq(Leaf)
    BY DEF TypeOK, Note
  <2>2. IsPrefix(Leaves(rows), Leaves(rs))
    BY <1>2, <1>3, LeavesOfPrefix
  <2>3. /\ Leaves(rows) \in Seq(Leaf) /\ Leaves(rs) \in Seq(Leaf)
        /\ Len(Leaves(rows)) = Len(rows)
    BY <1>3, LeavesOfRows
  <2>4. Len(note.tree) <= Len(Leaves(rows))
    BY <1>1, <2>3 DEF SizeOf
  <2> QED BY <2>1, <2>2, <2>3, <2>4, PrefixesChain, PrefixesNest
<1>5. \A note \in notes' : IsPrefix(note.tree, Leaves(rows')) <=> IsPrefix(note.tree, Leaves(rows))
  BY <1>1, <1>4
<1>6. SoundFile' <=> /\ FromGenesis(rows) /\ declared # None
                     /\ \A note \in notes : IsPrefix(note.tree, Leaves(rows)) /\ note.log = declared
  BY <1>1, <1>2, <1>5 DEF SoundFile
<1>7. SoundFile <=> /\ FromGenesis(rows) /\ declared # None
                    /\ \A note \in notes : IsPrefix(note.tree, Leaves(rows)) /\ note.log = declared
  BY <1>1 DEF SoundFile
<1> QED BY <1>2, <1>6, <1>7

\* Nor does one note more of its own blocks.
LEMMA PutKeepsSound ==
  ASSUME TypeOK, NEW size \in 0..Len(rows), NEW w \in Witnesses, PutCheckpoint(size, w)
  PROVE  SoundFile' <=> SoundFile
<1> DEFINE tree == SubSeq(Leaves(rows), 1, size)
           kept == [tree |-> tree, cosigners |-> {w}, log |-> declared]
<1>1. notes' = notes \cup {kept} /\ UNCHANGED <<rows, numbered, mark, declared>>
  BY DEF PutCheckpoint
<1>2. rows \in Seq(Row)
  BY DEF TypeOK
<1>3. Leaves(rows) \in Seq(Leaf) /\ Len(Leaves(rows)) = Len(rows)
  BY <1>2, LeavesOfRows
<1>4. Len(tree) = size /\ size <= Len(rows)
  BY <1>2, <1>3
<1>5. IsPrefix(tree, Leaves(rows))
  BY <1>3, <1>4 DEF IsPrefix
<1>6. kept.tree = tree /\ kept.log = declared
  OBVIOUS
<1> HIDE DEF tree
<1>7. IsPrefix(kept.tree, Leaves(rows))
  BY <1>5, <1>6
<1> HIDE DEF kept
<1> QED BY <1>1, <1>6, <1>7 DEF SoundFile

\* No step makes a sound file unsound, or an unsound one sound.
LEMMA SoundStays ==
  ASSUME TypeOK, OpeningInv, MarkInv, [Next]_vars
  PROVE  SoundFile' <=> SoundFile
<1>1. ASSUME UNCHANGED <<rows, numbered, notes, declared>>,
             mark' = mark \/ (mark' /\ (mark \/ rows = << >>))
      PROVE  SoundFile' <=> SoundFile
  BY <1>1 DEF SoundFile
<1>2. ASSUME NEW p \in Openers, Opens(p)
      PROVE  SoundFile' <=> SoundFile
  <2>1. CASE PutLeafRule(p)
    BY <1>1, <2>1 DEF PutLeafRule, MarkInv
  <2>2. CASE ~PutLeafRule(p)
    <3>1. UNCHANGED file
      BY <1>2, <2>2 DEF Opens, Open, CheckLeafRule, Count, AttestedCheckpoint, Walk,
                        VerifyAgainstCheckpoints
    <3> QED BY <1>1, <3>1 DEF file
  <2> QED BY <2>1, <2>2
<1>3. CASE OpenElsewhere
  BY <1>1, <1>3 DEF OpenElsewhere, Openable
<1>4. ASSUME NEW e \in Entry, Seal(e)
      PROVE  SoundFile' <=> SoundFile
  BY <1>4, SealKeepsSound DEF OpeningInv
<1>5. ASSUME NEW size \in 0..Len(rows), NEW w \in Witnesses, PutCheckpoint(size, w)
      PROVE  SoundFile' <=> SoundFile
  BY <1>5, PutKeepsSound
<1>6. CASE UNCHANGED vars
  BY <1>1, <1>6 DEF vars, file
<1> QED BY <1>2, <1>3, <1>4, <1>5, <1>6 DEF Next

\* A policy that is not of a log and its key will not be.
LEMMA OwnPolicyStays ==
  ASSUME NEW p \in Openers, rows \in Seq(Row), rows' \in Seq(Row), IsPrefix(rows, rows'),
         declared' = declared, policy'[p] = policy[p], OwnPolicy(p)'
  PROVE  OwnPolicy(p)
<1> PICK rs \in Seq(Row) : rs = rows'
  OBVIOUS
<1>1. rows # << >> => rs # << >> /\ rs[1] = rows[1]
  <2>1. IsPrefix(rows, rs)
    OBVIOUS
  <2>2. Len(rows) <= Len(rs) /\ \A i \in 1..Len(rows) : rows[i] = rs[i]
    BY <2>1, PrefixAgrees
  <2> QED BY <2>2
<1> QED BY <1>1 DEF OwnPolicy, CheckLogKey

\* An opening that does not move keeps what it has, when nothing is written but
\* the mark.
LEMMA RaceKept ==
  ASSUME TypeOK, NEW p \in Openers, RaceInv(p), SoundFile' => SoundFile,
         UNCHANGED <<rows, notes, declared>>,
         pc'[p] = pc[p], policy'[p] = policy[p], n'[p] = n[p], walked'[p] = walked[p],
         verdict'[p] = verdict[p], promised'[p] = promised[p], sealed'[p] = sealed[p],
         synced'[p] = synced[p]
  PROVE  RaceInv(p)'
<1>1. (OwnPolicy(p)' <=> OwnPolicy(p)) /\ (Raced(p)' <=> Raced(p))
  BY DEF OwnPolicy, CheckLogKey, Raced
<1>2. \A m : Promised(m)' <=> Promised(m)
  BY DEF Promised
<1> QED BY <1>1, <1>2 DEF RaceInv

\* A block that is sealed is a half of a race.
LEMMA SealRaces ==
  ASSUME TypeOK, AdmittedInv, NEW e \in Entry, Seal(e), NEW p \in Openers, RaceInv(p)
  PROVE  RaceInv(p)'
<1> SUFFICES ASSUME SoundFile' PROVE RaceInv(p)'
  BY DEF RaceInv
<1>0. SoundFile
  BY SealKeepsSound
<1>1. sealed'[p] /\ UNCHANGED <<notes, declared, pc, policy, n, walked, verdict, promised,
                                synced>>
  BY DEF Seal, reads
<1>2. rows \in Seq(Row) /\ walked[p] \in Seq(Row)
  BY DEF TypeOK
<1> PICK rs \in Seq(Row) : rs = rows' /\ IsPrefix(rows, rs)
  BY SealKeepsSound
<1>3. OwnPolicy(p)' => OwnPolicy(p)
  BY <1>1, <1>2, SealKeepsSound, OwnPolicyStays
<1>4. IsPrefix(walked[p], rows) => IsPrefix(walked[p], rs)
  BY <1>2, PrefixesChain
<1>5. Raced(p)' <=> synced[p]
  BY <1>1 DEF Raced
<1>6. \A m : Promised(m)' <=> Promised(m)
  BY <1>1 DEF Promised
<1>7. /\ pc[p] = "unmarked" => promised[p] \subseteq {0}
      /\ pc[p] = "attested" => (~Raced(p) => Promised(n[p]))
      /\ pc[p] = "roots" => IsPrefix(walked[p], rows) /\ (~Raced(p) => Promised(Len(walked[p])))
      /\ verdict[p] = "refused" => Raced(p) \/ ~OwnPolicy(p)
      /\ verdict[p] = "leaf rule" => sealed[p] /\ promised[p] \subseteq {0}
  BY <1>0 DEF RaceInv
<1>8. Raced(p) => synced[p]
  BY DEF Raced
<1> QED BY <1>1, <1>3, <1>4, <1>5, <1>6, <1>7, <1>8 DEF RaceInv

\* A note that is kept is the other half.
LEMMA PutRaces ==
  ASSUME TypeOK, NEW size \in 0..Len(rows), NEW w \in Witnesses, PutCheckpoint(size, w),
         NEW p \in Openers, RaceInv(p)
  PROVE  RaceInv(p)'
<1> SUFFICES ASSUME SoundFile' PROVE RaceInv(p)'
  BY DEF RaceInv
<1>0. SoundFile
  BY PutKeepsSound
<1>1. synced'[p] /\ UNCHANGED <<rows, declared, pc, policy, n, walked, verdict, promised,
                                sealed>>
  BY DEF PutCheckpoint, reads
<1>2. \A note \in notes' : note \in notes \/ SizeOf(note) = size
  BY PutSize
<1>3. OwnPolicy(p)' <=> OwnPolicy(p)
  BY <1>1 DEF OwnPolicy, CheckLogKey
<1>4. Raced(p)' <=> sealed[p]
  BY <1>1 DEF Raced
<1>5. ASSUME NEW m \in Nat, Promised(m), Len(rows) = m
      PROVE  Promised(m)'
  <2>1. size <= m
    BY <1>5
  <2>2. \A note \in notes' : SizeOf(note) <= m
    BY <1>2, <1>5, <2>1 DEF Promised
  <2> QED BY <2>2 DEF Promised
<1>6. n[p] \in Nat /\ Len(walked[p]) \in Nat
  <2>1. n \in [Openers -> Nat] /\ walked \in [Openers -> Seq(Row)]
    BY DEF TypeOK
  <2>2. walked[p] \in Seq(Row)
    BY <2>1
  <2> QED BY <2>1, <2>2
<1>7. ~sealed[p] => ~Raced(p)
  BY DEF Raced
<1>8. /\ pc[p] = "unmarked" => promised[p] \subseteq {0} /\ (~sealed[p] => rows = << >>)
      /\ pc[p] = "attested" => /\ ~sealed[p] => Len(rows) = n[p]
                               /\ ~Raced(p) => Promised(n[p])
      /\ pc[p] = "roots" => /\ IsPrefix(walked[p], rows)
                            /\ ~sealed[p] => Len(rows) = Len(walked[p])
                            /\ ~Raced(p) => Promised(Len(walked[p]))
      /\ verdict[p] = "refused" => Raced(p) \/ ~OwnPolicy(p)
      /\ verdict[p] = "leaf rule" => sealed[p] /\ promised[p] \subseteq {0}
  BY <1>0 DEF RaceInv
<1>9. pc[p] = "attested" /\ ~sealed[p] => Promised(n[p])'
  <2>1. SUFFICES ASSUME pc[p] = "attested", ~sealed[p] PROVE Promised(n[p])'
    OBVIOUS
  <2> PICK k \in Nat : k = n[p]
    BY <1>6
  <2>2. Promised(k)'
    BY <1>5, <1>7, <1>8, <2>1
  <2>3. n' = n
    BY <1>1
  <2> QED BY <2>2, <2>3
<1>10. pc[p] = "roots" /\ ~sealed[p] => Promised(Len(walked[p]))'
  <2>1. SUFFICES ASSUME pc[p] = "roots", ~sealed[p] PROVE Promised(Len(walked[p]))'
    OBVIOUS
  <2> PICK k \in Nat : k = Len(walked[p])
    BY <1>6
  <2>2. Promised(k)'
    BY <1>5, <1>7, <1>8, <2>1
  <2>3. walked' = walked
    BY <1>1
  <2> QED BY <2>2, <2>3
<1>11. Raced(p) => sealed[p]
  BY DEF Raced
<1> QED BY <1>1, <1>3, <1>4, <1>8, <1>9, <1>10, <1>11 DEF RaceInv

\* The rows of a sound file pass the walk of whoever expects their key.
LEMMA SoundWalkPasses ==
  ASSUME TypeOK, SoundFile, NEW p \in Openers, OwnPolicy(p)
  PROVE  WalkPasses(p)
<1>1. rows \in Seq(Row)
  BY DEF TypeOK
<1>2. \A i \in 1..Len(rows) :
        /\ rows[i] = Sealed(rows[i].header)
        /\ i > 1 => Before(rows[i].header) = rows[i - 1].header
        /\ SignerOf(rows[i].header) = SignerOf(rows[1].header)
  BY DEF SoundFile, Linked
<1>3. rows # << >> => ExpectedSigner(p) = SignerOf(rows[1].header)
  BY DEF OwnPolicy, ExpectedSigner
<1>4. ASSUME NEW i \in 1..Len(rows)
      PROVE  /\ rows[i].hash = rows[i].header
             /\ SignerOf(rows[i].header) = ExpectedSigner(p)
             /\ BlockVerifies(rows[i])
             /\ i > 1 => VerifyLink(rows[i - 1], rows[i])
  <2>1. rows # << >>
    BY <1>1
  <2>2. PICK h : h = rows[i].header
    OBVIOUS
  <2>3. rows[i] = Sealed(h)
    BY <1>2, <2>2
  <2>4. rows[i].hash = h /\ rows[i].sig = [by |-> SignerOf(h), over |-> h]
    BY <2>3 DEF Sealed
  <2>5. i > 1 => rows[i - 1].hash = rows[i - 1].header
    <3>1. SUFFICES ASSUME i > 1 PROVE rows[i - 1].hash = rows[i - 1].header
      OBVIOUS
    <3>2. i - 1 \in 1..Len(rows)
      BY <1>1, <3>1
    <3>3. rows[i - 1] = Sealed(rows[i - 1].header)
      BY <1>2, <3>2
    <3> QED BY <3>3 DEF Sealed
  <2> QED BY <1>2, <1>3, <2>1, <2>2, <2>4, <2>5 DEF BlockVerifies, VerifyLink
<1>5. numbered
  BY DEF SoundFile
<1> QED BY <1>4, <1>5 DEF WalkPasses

\* The roots of the notes of a sound file are those of the rows walked, unless a
\* note promises more.
LEMMA SoundRootsPass ==
  ASSUME TypeOK, OpeningInv, SoundFile, NEW p \in Openers,
         IsPrefix(walked[p], rows), Promised(Len(walked[p]))
  PROVE  RootsPass(p)
<1>1. rows \in Seq(Row) /\ walked[p] \in Seq(Row)
  BY DEF TypeOK
<1>2. Leaves(rows) \in Seq(Leaf) /\ Leaves(walked[p]) \in Seq(Leaf)
      /\ Len(Leaves(walked[p])) = Len(walked[p])
  BY <1>1, LeavesOfRows
<1>3. IsPrefix(Leaves(walked[p]), Leaves(rows))
  BY <1>1, LeavesOfPrefix
<1>4. ASSUME NEW note \in notes
      PROVE  VerifyRootAt(p, note) /\ SignedByThisLog(note)
  <2>1. note.tree \in Seq(Leaf) /\ IsPrefix(note.tree, Leaves(rows))
    BY SoundPromises DEF SoundFile
  <2>2. Len(note.tree) <= Len(Leaves(walked[p]))
    BY <1>2 DEF Promised, SizeOf
  <2>3. VerifyRootAt(p, note)
    BY <1>2, <1>3, <2>1, <2>2, PrefixesNest DEF VerifyRootAt
  <2> QED BY <2>3 DEF SoundFile, SignedByThisLog
<1>5. LastCheckpoint # None => LastCheckpoint \in notes
  <2>1. notes # {} => LastCheckpoint \in notes
    BY LastIsLargest
  <2> QED BY <2>1 DEF LastCheckpoint
<1>6. attested[p] # None => attested[p] \in notes
  BY DEF OpeningInv, CommandInv
<1> QED BY <1>4, <1>5, <1>6 DEF RootsPass

\* What an opening says of a sound file it says in a race.
LEMMA StepRaces ==
  ASSUME TypeOK, OpeningInv, NEW p \in Openers, Opens(p), RaceInv(p),
         SoundFile' => SoundFile
  PROVE  RaceInv(p)'
<1> SUFFICES ASSUME SoundFile', SoundFile
             PROVE  RaceInv(p)'
  BY DEF RaceInv
<1>1. CommandInv(p) /\ p \in DOMAIN pc /\ p \in DOMAIN verdict
  BY DEF OpeningInv, TypeOK
<1>2. pc[p] # "idle" => verdict[p] = "none"
  BY <1>1 DEF CommandInv
<1>3. rows \in Seq(Row) /\ Promised(Len(rows))
  BY SoundPromises DEF TypeOK
<1>4. ASSUME NEW pol \in Policies, Open(p, pol)
      PROVE  RaceInv(p)'
  <2>1. /\ rows' = rows /\ pc'[p] \in {"count", "unmarked"} /\ verdict'[p] = "none"
        /\ pc'[p] = "unmarked" => ~mark
    BY <1>1, <1>4 DEF Open, Goto, file
  <2>2. promised'[p] = {SizeOf(note) : note \in notes}
    BY <1>4 DEF Open, TypeOK
  <2>3. ~mark => rows = << >>
    BY DEF SoundFile
  <2>4. rows = << >> => promised'[p] \subseteq {0}
    <3>1. \A note \in notes : SizeOf(note) \in Nat
      BY SoundPromises
    <3>2. rows = << >> => \A note \in notes : SizeOf(note) <= 0
      BY <1>3 DEF Promised
    <3> QED BY <2>2, <3>1, <3>2
  <2> QED BY <2>1, <2>3, <2>4 DEF RaceInv
<1>5. CASE CheckLeafRule(p)
  <2>1. /\ rows' = rows /\ UNCHANGED <<promised, sealed>> /\ pc[p] = "unmarked"
        /\ \/ pc'[p] = "mark" /\ verdict'[p] = verdict[p]
           \/ rows # << >> /\ pc'[p] = "idle" /\ verdict'[p] = "leaf rule"
    BY <1>1, <1>5 DEF CheckLeafRule, End, Goto, file, history
  <2>2. promised[p] \subseteq {0} /\ (~sealed[p] => rows = << >>)
    BY <2>1 DEF RaceInv
  <2> QED BY <1>2, <2>1, <2>2 DEF RaceInv
<1>6. CASE PutLeafRule(p)
  <2>1. pc[p] = "mark" /\ pc'[p] = "count" /\ verdict'[p] = verdict[p]
    BY <1>1, <1>6 DEF PutLeafRule, Goto
  <2> QED BY <1>2, <2>1 DEF RaceInv
<1>7. CASE Count(p)
  <2>1. /\ UNCHANGED <<rows, notes, declared, policy, sealed, synced>>
        /\ n'[p] = Len(rows) /\ pc[p] = "count"
        /\ \/ pc'[p] = "attested" /\ verdict'[p] = verdict[p]
           \/ ~CheckLogKey(policy[p]) /\ pc'[p] = "idle" /\ verdict'[p] = "refused"
    BY <1>1, <1>7 DEF Count, End, Goto, file, history, TypeOK
  <2>2. ~CheckLogKey(policy[p]) => ~OwnPolicy(p)'
    BY <2>1 DEF OwnPolicy, CheckLogKey
  <2>3. Promised(n[p])'
    BY <1>3, <2>1 DEF Promised
  <2> QED BY <1>2, <2>1, <2>2, <2>3 DEF RaceInv
<1>8. CASE AttestedCheckpoint(p)
  <2> DEFINE c == LastCosignedCheckpoint
  <2>1. c # None => c \in notes
    <3>1. {note \in notes : IsCosigned(note)} \subseteq notes
      OBVIOUS
    <3> QED BY <3>1, LargestIsThere DEF LastCosignedCheckpoint
  <2>2. c # None => SignedByThisLog(c)
    BY <2>1 DEF SoundFile, SignedByThisLog
  <2> HIDE DEF c
  <2>3. /\ UNCHANGED <<sealed, synced>> /\ pc[p] = "attested"
        /\ \/ pc'[p] = "walk" /\ verdict'[p] = verdict[p]
           \/ ~(c = None \/ (SizeOf(c) <= n[p] /\ SignedByThisLog(c)))
              /\ pc'[p] = "idle" /\ verdict'[p] = "refused"
    BY <1>1, <1>8 DEF AttestedCheckpoint, End, Goto, history, c
  <2>4. ~Raced(p) => Promised(n[p])
    BY <2>3 DEF RaceInv
  <2>5. Raced(p)' <=> Raced(p)
    BY <2>3 DEF Raced
  <2>6. verdict'[p] = "refused" => Raced(p)
    BY <1>2, <2>1, <2>2, <2>3, <2>4 DEF Promised
  <2> QED BY <1>2, <2>3, <2>5, <2>6 DEF RaceInv
<1>9. CASE Walk(p)
  <2>1. /\ UNCHANGED <<rows, notes, declared, policy, sealed, synced>>
        /\ walked'[p] = rows /\ pc[p] = "walk"
        /\ \/ pc'[p] = "roots" /\ verdict'[p] = verdict[p]
           \/ ~WalkPasses(p) /\ pc'[p] = "idle" /\ verdict'[p] = "refused"
    BY <1>1, <1>9 DEF Walk, End, Goto, file, history, TypeOK
  <2>2. ~WalkPasses(p) => ~OwnPolicy(p)
    BY SoundWalkPasses
  <2>3. OwnPolicy(p)' <=> OwnPolicy(p)
    BY <2>1 DEF OwnPolicy, CheckLogKey
  <2>4. Promised(Len(walked[p]))'
    BY <1>3, <2>1 DEF Promised
  <2>5. IsPrefix(walked[p], rows)'
    <3>1. IsPrefix(rows, rows)
      BY <1>3, SameElements
    <3> QED BY <2>1, <3>1
  <2> QED BY <1>2, <2>1, <2>2, <2>3, <2>4, <2>5 DEF RaceInv
<1>10. CASE VerifyAgainstCheckpoints(p)
  <2>1. /\ UNCHANGED <<sealed, synced>> /\ pc[p] = "roots"
        /\ \/ ~RootsPass(p) /\ pc'[p] = "idle" /\ verdict'[p] = "refused"
           \/ pc'[p] = "idle" /\ verdict'[p] \in {"accepted", "attested"}
           \/ pc'[p] = "count" /\ verdict'[p] = verdict[p]
    <3>1. /\ UNCHANGED <<sealed, synced>> /\ pc[p] = "roots"
      BY <1>10 DEF VerifyAgainstCheckpoints, history
    <3>2. \/ ~RootsPass(p) /\ End(p, "refused")
          \/ End(p, IF Verified(p) THEN "attested" ELSE "accepted")
          \/ Goto(p, "count") /\ UNCHANGED verdict
      BY <1>10 DEF VerifyAgainstCheckpoints
    <3> QED BY <1>1, <3>1, <3>2 DEF End, Goto
  <2>2. IsPrefix(walked[p], rows) /\ (~Raced(p) => Promised(Len(walked[p])))
    BY <2>1 DEF RaceInv
  <2>3. ~RootsPass(p) => Raced(p)
    BY <2>2, SoundRootsPass
  <2>4. Raced(p)' <=> Raced(p)
    BY <2>1 DEF Raced
  <2> QED BY <1>2, <2>1, <2>3, <2>4 DEF RaceInv
<1> QED BY <1>4, <1>5, <1>6, <1>7, <1>8, <1>9, <1>10 DEF Opens

\* Every step keeps the files that are to be marked without blocks.
LEMMA MarkStep ==
  ASSUME TypeOK, AdmittedInv, MarkInv, [Next]_vars
  PROVE  MarkInv'
<1>0. mark \in BOOLEAN /\ DOMAIN pc = Openers
  BY DEF TypeOK
<1>1. ASSUME NEW p \in Openers, Opens(p)
      PROVE  MarkInv'
  <2>1. CASE PutLeafRule(p)
    BY <2>1 DEF PutLeafRule, MarkInv
  <2>2. CASE ~PutLeafRule(p)
    <3>1. /\ UNCHANGED file
          /\ \E label : /\ pc' = [pc EXCEPT ![p] = label]
                        /\ label = "mark" => rows = << >>
      BY <1>1, <2>2 DEF Opens, Open, CheckLeafRule, Count, AttestedCheckpoint, Walk,
                        VerifyAgainstCheckpoints, End, Goto
    <3> QED BY <1>0, <3>1 DEF MarkInv, file
  <2> QED BY <2>1, <2>2
<1>2. CASE OpenElsewhere
  BY <1>2 DEF OpenElsewhere, MarkInv
<1>3. ASSUME NEW e \in Entry, Seal(e)
      PROVE  MarkInv'
  BY <1>3 DEF Seal, AdmittedInv, MarkInv
<1>4. ASSUME NEW size \in 0..Len(rows), NEW w \in Witnesses, PutCheckpoint(size, w)
      PROVE  MarkInv'
  BY <1>4 DEF PutCheckpoint, MarkInv
<1>5. CASE UNCHANGED vars
  BY <1>5 DEF vars, file, MarkInv
<1> QED BY <1>1, <1>2, <1>3, <1>4, <1>5 DEF Next

\* An opening that does not move keeps what it has read.
LEMMA OthersRace ==
  ASSUME TypeOK, NEW p \in Openers, Opens(p), NEW q \in Openers, q # p, RaceInv(q),
         SoundFile' => SoundFile
  PROVE  RaceInv(q)'
<1>1. /\ q \in DOMAIN pc /\ q \in DOMAIN policy /\ q \in DOMAIN n /\ q \in DOMAIN walked
      /\ q \in DOMAIN verdict /\ q \in DOMAIN promised /\ q \in DOMAIN sealed
      /\ q \in DOMAIN synced
  BY DEF TypeOK
<1>2. ASSUME UNCHANGED <<rows, notes, declared>>,
             pc'[q] = pc[q], policy'[q] = policy[q], n'[q] = n[q], walked'[q] = walked[q],
             verdict'[q] = verdict[q], promised'[q] = promised[q], sealed'[q] = sealed[q],
             synced'[q] = synced[q]
      PROVE  RaceInv(q)'
  BY <1>2, RaceKept
<1>3. ASSUME NEW pol \in Policies, Open(p, pol)
      PROVE  RaceInv(q)'
  BY <1>1, <1>2, <1>3 DEF Open, Goto, file
<1>4. CASE CheckLeafRule(p) \/ PutLeafRule(p)
  BY <1>1, <1>2, <1>4 DEF CheckLeafRule, PutLeafRule, End, Goto, file, reads, history
<1>5. CASE Count(p)
  BY <1>1, <1>2, <1>5 DEF Count, End, Goto, file, history
<1>6. CASE AttestedCheckpoint(p)
  BY <1>1, <1>2, <1>6 DEF AttestedCheckpoint, End, Goto, file, history
<1>7. CASE Walk(p)
  BY <1>1, <1>2, <1>7 DEF Walk, End, Goto, file, history
<1>8. CASE VerifyAgainstCheckpoints(p)
  BY <1>1, <1>2, <1>8 DEF VerifyAgainstCheckpoints, End, Goto, file, history
<1> QED BY <1>3, <1>4, <1>5, <1>6, <1>7, <1>8 DEF Opens

\* Every step keeps what every opening knows of a sound file.
LEMMA RaceStep ==
  ASSUME TypeOK, OpeningInv, MarkInv, \A p \in Openers : RaceInv(p), [Next]_vars
  PROVE  \A p \in Openers : RaceInv(p)'
<1> SUFFICES ASSUME NEW q \in Openers PROVE RaceInv(q)'
  OBVIOUS
<1>1. SoundFile' => SoundFile
  BY SoundStays
<1>2. ASSUME NEW p \in Openers, Opens(p)
      PROVE  RaceInv(q)'
  BY <1>1, <1>2, StepRaces, OthersRace
<1>3. CASE OpenElsewhere
  BY <1>1, <1>3, RaceKept DEF OpenElsewhere, reads
<1>4. ASSUME NEW e \in Entry, Seal(e)
      PROVE  RaceInv(q)'
  BY <1>4, SealRaces DEF OpeningInv
<1>5. ASSUME NEW size \in 0..Len(rows), NEW w \in Witnesses, PutCheckpoint(size, w)
      PROVE  RaceInv(q)'
  BY <1>5, PutRaces
<1>6. CASE UNCHANGED vars
  BY <1>1, <1>6, RaceKept DEF vars, file, reads, history
<1> QED BY <1>2, <1>3, <1>4, <1>5, <1>6 DEF Next

\* The races of every behaviour are those of the invariant.
THEOREM OpeningRaces == Spec => [](MarkInv /\ \A p \in Openers : RaceInv(p))
<1>1. Init => MarkInv /\ \A p \in Openers : RaceInv(p)
  BY DEF Init, MarkInv, RaceInv
<1>2. TypeOK /\ OpeningInv /\ (MarkInv /\ \A p \in Openers : RaceInv(p)) /\ [Next]_vars
        => (MarkInv /\ \A p \in Openers : RaceInv(p))'
  BY MarkStep, RaceStep DEF OpeningInv
<1> QED BY <1>1, <1>2, OpeningTypeCorrect, OpeningInvariant, PTL DEF Spec

\* A sound file is refused, by whoever brings a policy of its log and key, only if
\* a block was sealed and a note was kept between its statements; and it is taken
\* for a file of an older leaf rule only if it was empty and a block was sealed.
THEOREM SoundIsRefusedOnlyInARace == Spec => []RefusedOnlyInARace
<1>1. (MarkInv /\ \A p \in Openers : RaceInv(p)) => RefusedOnlyInARace
  BY DEF RaceInv, Raced, RefusedOnlyInARace
<1> QED BY <1>1, OpeningRaces, PTL

\* No step makes a sound file unsound, or a mixed one sound: what a command may
\* write, and what it may mark long after it looked, is decided by the file it met.
THEOREM SoundFilesStaySound == Spec => [][SoundFile' <=> SoundFile]_vars
<1>1. TypeOK /\ OpeningInv /\ (MarkInv /\ \A p \in Openers : RaceInv(p)) /\ [Next]_vars
        => [SoundFile' <=> SoundFile]_vars
  BY SoundStays
<1> QED BY <1>1, OpeningTypeCorrect, OpeningInvariant, OpeningRaces, PTL DEF Spec

===============================================================================
