---------------------------- MODULE ReceiptsProofs ----------------------------
(***************************************************************************)
(* Proofs about module Receipts, for any blocks, witnesses, policies, lines   *)
(* and cosignatures.                                                       *)
(***************************************************************************)
EXTENDS Receipts, FiniteSetTheorems, TLAPS

-----------------------------------------------------------------------------
(* Prefixes and the earlier of two times *)

\* A prefix is as long at most and has the same blocks.
LEMMA PrefixMeans ==
  ASSUME NEW s \in Tree, NEW t \in Tree
  PROVE  IsPrefix(s, t) <=> Len(s) <= Len(t) /\ \A i \in 1..Len(s) : s[i] = t[i]
<1>1. s \in Seq(Blocks) /\ t \in Seq(Blocks) /\ Len(s) \in Nat /\ Len(t) \in Nat
  BY DEF Tree
<1>2. SubSeq(s, 1, Len(s)) = s
  BY <1>1
<1>3. CASE Len(s) <= Len(t)
  <2>1. /\ SubSeq(t, 1, Len(s)) \in Seq(Blocks)
        /\ Len(SubSeq(t, 1, Len(s))) = Len(s)
        /\ \A i \in 1..Len(s) : SubSeq(t, 1, Len(s))[i] = t[i]
    BY <1>1, <1>3
  <2>2. s = SubSeq(t, 1, Len(s)) <=> \A i \in 1..Len(s) : s[i] = t[i]
    BY <1>1, <2>1
  <2> QED BY <1>2, <1>3, <2>2 DEF IsPrefix
<1>4. CASE ~(Len(s) <= Len(t))
  BY <1>4 DEF IsPrefix
<1> QED BY <1>3, <1>4

\* Whatever is a prefix is one of what goes on.
LEMMA PrefixOfMore ==
  ASSUME NEW s \in Tree, NEW t \in Tree, NEW b \in Blocks, IsPrefix(s, t)
  PROVE  IsPrefix(s, Append(t, b))
<1>1. Len(s) \in Nat /\ Len(t) \in Nat /\ Len(s) <= Len(t) /\ \A i \in 1..Len(s) : s[i] = t[i]
  BY PrefixMeans DEF Tree
<1>2. /\ Append(t, b) \in Tree /\ Len(Append(t, b)) = Len(t) + 1
      /\ \A i \in 1..Len(t) : Append(t, b)[i] = t[i]
  BY DEF Tree
<1>3. Len(s) <= Len(Append(t, b)) /\ \A i \in 1..Len(s) : s[i] = Append(t, b)[i]
  BY <1>1, <1>2
<1> QED BY <1>2, <1>3, PrefixMeans

\* And of what is put back, if it is no longer than that.
LEMMA PrefixOfLess ==
  ASSUME NEW s \in Tree, NEW t \in Tree, NEW n \in Nat, n <= Len(t), Len(s) <= n, IsPrefix(s, t)
  PROVE  IsPrefix(s, SubSeq(t, 1, n))
<1>1. Len(s) \in Nat /\ \A i \in 1..Len(s) : s[i] = t[i]
  BY PrefixMeans DEF Tree
<1>2. /\ SubSeq(t, 1, n) \in Tree /\ Len(SubSeq(t, 1, n)) = n
      /\ \A i \in 1..n : SubSeq(t, 1, n)[i] = t[i]
  BY DEF Tree
<1>3. Len(s) <= Len(SubSeq(t, 1, n)) /\ \A i \in 1..Len(s) : s[i] = SubSeq(t, 1, n)[i]
  BY <1>1, <1>2
<1> QED BY <1>2, <1>3, PrefixMeans

\* Of two times one is the earlier.
LEMMA MinOfTwo ==
  ASSUME NEW a \in Nat, NEW b \in Nat
  PROVE  Min({a, b}) \in {a, b} /\ Min({a, b}) <= a /\ Min({a, b}) <= b
<1>1. \E m \in {a, b} : \A y \in {a, b} : m <= y
  <2>1. CASE a <= b
    BY <2>1
  <2>2. CASE b <= a
    BY <2>2
  <2> QED BY <2>1, <2>2
<1> QED BY <1>1 DEF Min

-----------------------------------------------------------------------------
(* Types *)

\* What a line says, once it is counted, has its type.
LEMMA CountTypes ==
  ASSUME TypeOK, NEW line, line.name \in Names, line.at \in Times
  PROVE  Count(line) \in [logSigned : BOOLEAN, cosigners : SUBSET Names,
                          earliest : Times \cup {None}, good : SUBSET Times]
<1>1. /\ v.logSigned \in BOOLEAN /\ v.cosigners \subseteq Names
      /\ v.earliest \in Times \cup {None} /\ v.good \subseteq Times
  BY DEF TypeOK
<1>2. v.earliest # None => Min({v.earliest, line.at}) \in Times
  BY <1>1, MinOfTwo, ReceiptsNamesAssumption
<1> QED BY <1>1, <1>2 DEF Count

\* The lines of a note are the log's, those of cosignatures of its tree, and bad ones.
LEMMA LineIs ==
  ASSUME TypeOK, NEW tree, NEW line \in LinesFor(tree)
  PROVE  \/ line.name = LogName
         \/ ~line.good
         \/ \E c \in issued : c.tree = tree /\ line.name \in Names /\ line.key = c.key /\ line.at = c.at
<1> DEFINE good == {WitnessLine(name, c) : name \in Names, c \in {d \in issued : d.tree = tree}}
           bad  == {[name |-> name, key |-> key, good |-> FALSE, at |-> Min(Times)] :
                      name \in Names, key \in Keys}
<1>0. LinesFor(tree) = {LogLine(TRUE), LogLine(FALSE)} \cup good \cup bad
  BY DEF LinesFor
<1>1. CASE line \in {LogLine(TRUE), LogLine(FALSE)}
  BY <1>1 DEF LogLine
<1>2. CASE \E name \in Names, c \in {d \in issued : d.tree = tree} : line = WitnessLine(name, c)
  BY <1>2 DEF WitnessLine
<1>3. CASE \E name \in Names, key \in Keys :
             line = [name |-> name, key |-> key, good |-> FALSE, at |-> Min(Times)]
  BY <1>3
<1>4. line \in good => \E name \in Names, c \in {d \in issued : d.tree = tree} : line = WitnessLine(name, c)
  OBVIOUS
<1>5. line \in bad => \E name \in Names, key \in Keys :
                        line = [name |-> name, key |-> key, good |-> FALSE, at |-> Min(Times)]
  OBVIOUS
<1> HIDE DEF good, bad
<1> QED BY <1>0, <1>1, <1>2, <1>3, <1>4, <1>5

\* Every step keeps the types.
LEMMA TypesKept ==
  ASSUME TypeOK, [Next]_vars
  PROVE  TypeOK'
<1>1. rows \in Seq(Blocks)
  BY DEF TypeOK, Tree
<1>2. ASSUME NEW b \in Blocks, Write(b)
      PROVE  TypeOK'
  <2>1. rows' \in Tree
    BY <1>1, <1>2 DEF Write, Tree
  <2>2. UNCHANGED <<notes, issued, policy, receipt, v, accepted>>
    BY <1>2 DEF Write, verifier
  <2> QED BY <2>1, <2>2 DEF TypeOK
<1>3. ASSUME NEW n \in 0..MaxBlocks - 1, PutBack(n)
      PROVE  TypeOK'
  <2>1. n \in Nat /\ n < Len(rows)
    BY <1>3, ReceiptsBoundsAssumption DEF PutBack
  <2>2. rows' \in Tree
    BY <1>1, <1>3, <2>1 DEF PutBack, Tree
  <2>3. notes' \subseteq Cosignature
    BY <1>3 DEF PutBack, TypeOK
  <2>4. UNCHANGED <<issued, policy, receipt, v, accepted>>
    BY <1>3 DEF PutBack, verifier
  <2> QED BY <2>2, <2>3, <2>4 DEF TypeOK
<1>4. ASSUME NEW key \in Keys, NEW t \in Times, RecordCosigned(key, t)
      PROVE  TypeOK'
  <2> DEFINE c == [tree |-> rows, key |-> key, at |-> t]
  <2>1. c \in Cosignature
    BY DEF Cosignature, TypeOK
  <2>2. issued' = issued \cup {c} /\ notes' \in {notes, notes \cup {c}}
    BY <1>4 DEF RecordCosigned
  <2>3. UNCHANGED <<rows, policy, receipt, v, accepted>>
    BY <1>4 DEF RecordCosigned, verifier
  <2> HIDE DEF c
  <2> QED BY <2>1, <2>2, <2>3 DEF TypeOK
<1>5. ASSUME NEW pol \in Policies, NEW b \in Blocks, NEW m \in 0..MaxBlocks - 1,
             NEW tree \in {c.tree : c \in issued}, Present(pol, Receipt(b, m, tree))
      PROVE  TypeOK'
  <2>1. tree \in Tree /\ m \in Nat
    BY ReceiptsBoundsAssumption DEF TypeOK, Cosignature
  <2>2. Receipt(b, m, tree) \in ReceiptType
    BY <2>1 DEF Receipt, InclusionProof, ReceiptType
  <2>3. policy' = pol /\ receipt' = Receipt(b, m, tree)
        /\ UNCHANGED <<rows, notes, issued, v, accepted>>
    BY <1>5 DEF Present, file
  <2> QED BY <2>2, <2>3 DEF TypeOK
<1>6. ASSUME Done PROVE TypeOK'
  <2>1. UNCHANGED <<rows, notes, issued>>
    BY <1>6 DEF Done, file
  <2> QED BY <1>6, <2>1 DEF Done, NothingRead, TypeOK
<1>7. ASSUME NEW line \in LinesFor(IF receipt = None THEN << >> ELSE receipt.tree), ReadLine(line)
      PROVE  TypeOK'
  <2>1. CASE OfTheLog(line) /\ line.good /\ v' = [v EXCEPT !.logSigned = TRUE]
             /\ UNCHANGED <<file, policy, receipt, accepted>>
    BY <2>1 DEF file, TypeOK
  <2>2. CASE OfAWitness(line, policy) /\ line.good /\ v' = Count(line)
             /\ UNCHANGED <<file, policy, receipt, accepted>>
    <3>1. policy \in Policy
      BY <1>7, ReceiptsPoliciesAssumption DEF ReadLine, TypeOK
    <3>2. DOMAIN policy.witnesses \subseteq Names
      BY <3>1 DEF Policy
    <3>3. line.name \in Names /\ line.name # LogName
      BY <2>2, <3>2, ReceiptsNamesAssumption DEF OfAWitness
    <3>4. PICK c \in issued : line.at = c.at
      BY <2>2, <3>3, LineIs
    <3>5. line.at \in Times
      BY <3>4 DEF TypeOK, Cosignature
    <3>6. v' \in [logSigned : BOOLEAN, cosigners : SUBSET Names,
                  earliest : Times \cup {None}, good : SUBSET Times]
      BY <2>2, <3>3, <3>5, CountTypes
    <3>7. UNCHANGED <<rows, notes, issued, policy, receipt, accepted>>
      BY <2>2 DEF file
    <3> QED BY <3>6, <3>7 DEF TypeOK
  <2> QED BY <1>6, <1>7, <2>1, <2>2 DEF ReadLine
<1>8. CASE Accept
  BY <1>8 DEF Accept, file, TypeOK
<1>9. CASE UNCHANGED vars
  BY <1>9 DEF vars, file, verifier, TypeOK
<1> QED BY <1>2, <1>3, <1>4, <1>5, <1>6, <1>7, <1>8, <1>9 DEF Next, Forget

\* Every variable keeps its type.
THEOREM ReceiptsTypeCorrect == Spec => []TypeOK
<1>1. Init => TypeOK
  BY DEF Init, TypeOK, NothingRead, Tree
<1> QED BY <1>1, TypesKept, PTL DEF Spec

-----------------------------------------------------------------------------
(* The log and its witnesses *)

\* What the file keeps is of its blocks, and each witness has cosigned one history.
LogInv ==
  /\ \A c \in notes : IsPrefix(c.tree, rows)
  /\ \A c, d \in issued : c.key = d.key => IsPrefix(c.tree, d.tree) \/ IsPrefix(d.tree, c.tree)

\* Every step keeps that.
LEMMA LogStep ==
  ASSUME TypeOK, LogInv, [Next]_vars
  PROVE  LogInv'
<1>1. rows \in Tree /\ rows \in Seq(Blocks) /\ \A c \in notes : c.tree \in Tree
  BY DEF TypeOK, Tree, Cosignature
<1>2. ASSUME NEW b \in Blocks, Write(b)
      PROVE  LogInv'
  <2>1. rows' = Append(rows, b) /\ UNCHANGED <<notes, issued>>
    BY <1>2 DEF Write
  <2>2. \A c \in notes : IsPrefix(c.tree, rows')
    BY <1>1, <2>1, PrefixOfMore DEF LogInv
  <2> QED BY <2>1, <2>2 DEF LogInv
<1>3. ASSUME NEW n \in 0..MaxBlocks - 1, PutBack(n)
      PROVE  LogInv'
  <2>1. /\ n \in Nat /\ n < Len(rows) /\ rows' = SubSeq(rows, 1, n)
        /\ notes' = {c \in notes : Len(c.tree) <= n} /\ issued' = issued
    BY <1>3, ReceiptsBoundsAssumption DEF PutBack
  <2>2. n <= Len(rows)
    BY <1>1, <2>1
  <2>3. ASSUME NEW c \in notes' PROVE IsPrefix(c.tree, rows')
    BY <1>1, <2>1, <2>2, PrefixOfLess DEF LogInv
  <2> QED BY <2>1, <2>3 DEF LogInv
<1>4. ASSUME NEW key \in Keys, NEW t \in Times, RecordCosigned(key, t)
      PROVE  LogInv'
  <2> DEFINE c == [tree |-> rows, key |-> key, at |-> t]
  <2>1. /\ \A d \in issued : d.key = key => IsPrefix(d.tree, rows)
        /\ issued' = issued \cup {c} /\ notes' \in {notes, notes \cup {c}} /\ rows' = rows
    BY <1>4 DEF RecordCosigned
  <2>2. IsPrefix(rows, rows)
    BY <1>1, PrefixMeans
  <2>3. c.tree = rows /\ c.key = key
    OBVIOUS
  <2> HIDE DEF c
  <2> QED BY <2>1, <2>2, <2>3 DEF LogInv
<1>5. UNCHANGED <<rows, notes, issued>> => LogInv'
  BY DEF LogInv
<1>6. ASSUME NEW pol \in Policies, NEW b \in Blocks, NEW m \in 0..MaxBlocks - 1,
             NEW tree \in {c.tree : c \in issued}, Present(pol, Receipt(b, m, tree))
      PROVE  LogInv'
  BY <1>5, <1>6 DEF Present, file
<1>7. ASSUME NEW line, ReadLine(line)
      PROVE  LogInv'
  BY <1>5, <1>7 DEF ReadLine, Done, file
<1>8. CASE Accept \/ Forget
  BY <1>5, <1>8 DEF Accept, Forget, Done, file
<1>9. CASE UNCHANGED vars
  BY <1>5, <1>9 DEF vars, file
<1> QED BY <1>2, <1>3, <1>4, <1>6, <1>7, <1>8, <1>9 DEF Next

-----------------------------------------------------------------------------
(* The verifier *)

\* A cosignature of the tree of the receipt, by a witness the policy names.
Cosigned(c) ==
  c.tree = receipt.tree /\ \E n \in DOMAIN policy.witnesses : policy.witnesses[n] = c.key

\* What has been counted was cosigned, and the earliest of it is known.
Counted ==
  /\ v.cosigners \subseteq DOMAIN policy.witnesses
  /\ \A n \in v.cosigners : \E c \in issued : c.tree = receipt.tree /\ c.key = policy.witnesses[n]
  /\ v.cosigners # {} => v.earliest # None
  /\ v.earliest # None => \E c \in issued : Cosigned(c) /\ c.at = v.earliest
  /\ v.earliest = None => v.good = {}
  /\ \A t \in v.good : v.earliest <= t

VerifierInv ==
  /\ policy = None => v = NothingRead /\ accepted = None
  /\ policy # None => /\ receipt # None /\ Validate(policy) /\ VerifyBlock(receipt, policy)
                      /\ Counted
  /\ accepted # None => /\ policy # None /\ accepted = v.earliest
                        /\ Cardinality(v.cosigners) >= policy.quorum

\* One more cosignature is counted.
LEMMA CountKeeps ==
  ASSUME TypeOK, VerifierInv, policy # None,
         NEW line \in LinesFor(receipt.tree),
         OfAWitness(line, policy), line.good, v' = Count(line),
         UNCHANGED <<file, policy, receipt>>
  PROVE  Counted'
<1>1. policy \in Policy
  BY ReceiptsPoliciesAssumption DEF TypeOK
<1>2. line.name \in DOMAIN policy.witnesses /\ policy.witnesses[line.name] = line.key
  BY DEF OfAWitness
<1>3. line.name # LogName
  <2>1. DOMAIN policy.witnesses \subseteq Names
    BY <1>1 DEF Policy
  <2> QED BY <1>2, <2>1, ReceiptsNamesAssumption
<1>4. PICK c \in issued : c.tree = receipt.tree /\ line.key = c.key /\ line.at = c.at
  BY <1>3, LineIs
<1>5. Cosigned(c) /\ line.at \in Nat /\ line.at \in Times
  BY <1>2, <1>4, ReceiptsNamesAssumption DEF Cosigned, TypeOK, Cosignature
<1>6. /\ v'.cosigners = v.cosigners \cup {line.name}
      /\ v'.good = v.good \cup {line.at}
      /\ v'.earliest = IF v.earliest = None THEN line.at ELSE Min({v.earliest, line.at})
  BY DEF Count
<1>7. Counted
  BY DEF VerifierInv
<1>8. v.earliest # None => v.earliest \in Nat
  BY ReceiptsNamesAssumption DEF TypeOK
<1>9. v.good \subseteq Nat
  BY ReceiptsNamesAssumption DEF TypeOK
<1>10. UNCHANGED <<issued, policy, receipt>>
  BY DEF file
<1>11. /\ v'.earliest \in {v.earliest, line.at} /\ v'.earliest # None
       /\ v'.earliest <= line.at
       /\ v.earliest # None => v'.earliest <= v.earliest
       /\ v'.earliest \in Nat
  <2>1. None \notin Times
    BY ReceiptsNoneAssumption
  <2>2. CASE v.earliest = None
    BY <1>5, <1>6, <2>1, <2>2
  <2>3. CASE v.earliest # None
    <3>1. v.earliest \in Times
      BY <2>3 DEF TypeOK
    <3> QED BY <1>5, <1>6, <1>8, <2>1, <2>3, <3>1, MinOfTwo
  <2> QED BY <2>2, <2>3
<1>12. \A t \in v'.good : v'.earliest <= t
  BY <1>5, <1>6, <1>7, <1>8, <1>9, <1>11 DEF Counted
<1>13. \A n \in v'.cosigners : \E d \in issued : d.tree = receipt.tree /\ d.key = policy.witnesses[n]
  BY <1>2, <1>4, <1>6, <1>7 DEF Counted
<1>14. \E d \in issued : Cosigned(d) /\ d.at = v'.earliest
  BY <1>4, <1>5, <1>6, <1>7, <1>11 DEF Counted
<1>15. \E d \in issued' : Cosigned(d)' /\ d.at = v'.earliest
  BY <1>10, <1>14 DEF Cosigned
<1>16. v'.cosigners \subseteq DOMAIN policy'.witnesses
  BY <1>2, <1>6, <1>7, <1>10 DEF Counted
<1>17. \A n \in v'.cosigners : \E d \in issued' : d.tree = receipt'.tree /\ d.key = policy'.witnesses[n]
  BY <1>10, <1>13
<1> QED BY <1>11, <1>12, <1>15, <1>16, <1>17 DEF Counted

\* Every step keeps the invariant.
LEMMA VerifierStep ==
  ASSUME TypeOK, VerifierInv, [Next]_vars
  PROVE  VerifierInv'
<1>1. ASSUME UNCHANGED verifier, issued \subseteq issued'
      PROVE  VerifierInv'
  <2>1. UNCHANGED <<policy, receipt, v, accepted>>
    BY <1>1 DEF verifier
  <2>2. \A c : Cosigned(c)' <=> Cosigned(c)
    BY <2>1 DEF Cosigned
  <2>3. Counted => Counted'
    BY <1>1, <2>1, <2>2 DEF Counted
  <2> QED BY <2>1, <2>3 DEF VerifierInv
<1>2. ASSUME NEW b \in Blocks, Write(b)
      PROVE  VerifierInv'
  BY <1>1, <1>2 DEF Write
<1>3. ASSUME NEW n \in 0..MaxBlocks - 1, PutBack(n)
      PROVE  VerifierInv'
  BY <1>1, <1>3 DEF PutBack
<1>4. ASSUME NEW key \in Keys, NEW t \in Times, RecordCosigned(key, t)
      PROVE  VerifierInv'
  BY <1>1, <1>4 DEF RecordCosigned
<1>5. ASSUME NEW pol \in Policies, NEW b \in Blocks, NEW m \in 0..MaxBlocks - 1,
             NEW tree \in {c.tree : c \in issued}, Present(pol, Receipt(b, m, tree))
      PROVE  VerifierInv'
  <2>1. /\ policy' = pol /\ receipt' = Receipt(b, m, tree) /\ v' = v /\ accepted' = accepted
        /\ policy = None /\ Validate(pol) /\ VerifyBlock(Receipt(b, m, tree), pol)
    BY <1>5 DEF Present
  <2>2. v' = NothingRead /\ accepted' = None
    BY <2>1 DEF VerifierInv
  <2>3. receipt' # None
    <3>1. tree \in Tree /\ m \in Nat
      BY ReceiptsBoundsAssumption DEF TypeOK, Cosignature
    <3>2. Receipt(b, m, tree) \in ReceiptType
      BY <3>1 DEF Receipt, InclusionProof, ReceiptType
    <3> QED BY <2>1, <3>2, ReceiptsNoneAssumption
  <2>4. Counted'
    BY <2>2 DEF Counted, NothingRead
  <2>5. pol # None
    BY ReceiptsNoneAssumption
  <2> QED BY <2>1, <2>2, <2>3, <2>4, <2>5 DEF VerifierInv
<1>6. ASSUME Done PROVE VerifierInv'
  BY <1>6 DEF Done, VerifierInv
<1>7. ASSUME NEW line \in LinesFor(IF receipt = None THEN << >> ELSE receipt.tree), ReadLine(line)
      PROVE  VerifierInv'
  <2>1. policy # None /\ accepted = None /\ receipt # None /\ line \in LinesFor(receipt.tree)
    BY <1>7 DEF ReadLine, VerifierInv
  <2>2. CASE OfTheLog(line) /\ line.good /\ v' = [v EXCEPT !.logSigned = TRUE]
             /\ UNCHANGED <<file, policy, receipt, accepted>>
    <3>1. v \in [logSigned : BOOLEAN, cosigners : SUBSET Names,
                 earliest : Times \cup {None}, good : SUBSET Times]
      BY DEF TypeOK
    <3>2. v'.cosigners = v.cosigners /\ v'.earliest = v.earliest /\ v'.good = v.good
      BY <2>2, <3>1
    <3>3. UNCHANGED <<issued, policy, receipt, accepted>>
      BY <2>2 DEF file
    <3>4. \A c : Cosigned(c)' <=> Cosigned(c)
      BY <3>3 DEF Cosigned
    <3>5. Counted'
      BY <2>1, <3>2, <3>3, <3>4 DEF VerifierInv, Counted
    <3> QED BY <2>1, <3>3, <3>5 DEF VerifierInv
  <2>3. CASE OfAWitness(line, policy) /\ line.good /\ v' = Count(line)
             /\ UNCHANGED <<file, policy, receipt, accepted>>
    <3>1. Counted'
      BY <2>1, <2>3, CountKeeps
    <3> QED BY <2>1, <2>3, <3>1 DEF VerifierInv
  <2> QED BY <1>6, <1>7, <2>2, <2>3 DEF ReadLine
<1>8. CASE Accept
  <2>1. /\ policy # None /\ accepted = None /\ accepted' = v.earliest
        /\ Cardinality(v.cosigners) >= policy.quorum
        /\ UNCHANGED <<issued, policy, receipt, v>>
    BY <1>8 DEF Accept, file
  <2>2. \A c : Cosigned(c)' <=> Cosigned(c)
    BY <2>1 DEF Cosigned
  <2>3. Counted'
    BY <2>1, <2>2 DEF VerifierInv, Counted
  <2> QED BY <2>1, <2>3 DEF VerifierInv
<1>9. CASE UNCHANGED vars
  BY <1>1, <1>9 DEF vars, file
<1> QED BY <1>2, <1>3, <1>4, <1>5, <1>6, <1>7, <1>8, <1>9 DEF Next, Forget

\* The invariants hold of every behaviour.
THEOREM ReceiptsInvariant == Spec => [](LogInv /\ VerifierInv)
<1>1. Init => LogInv /\ VerifierInv
  BY DEF Init, LogInv, VerifierInv
<1>2. TypeOK /\ LogInv /\ VerifierInv /\ [Next]_vars => (LogInv /\ VerifierInv)'
  BY LogStep, VerifierStep
<1> QED BY <1>1, <1>2, ReceiptsTypeCorrect, PTL DEF Spec

-----------------------------------------------------------------------------
(* Quorums *)

\* The keys a policy names.
KeysOf(pol) == {pol.witnesses[n] : n \in DOMAIN pol.witnesses}

\* A policy has no more keys than names, and only those count.
LEMMA KeysAreFew ==
  ASSUME NEW pol \in Policies
  PROVE  /\ IsFiniteSet(KeysOf(pol))
         /\ Cardinality(KeysOf(pol)) <= Cardinality(DOMAIN pol.witnesses)
         /\ \A tree : CosignedBy(tree, pol) \subseteq KeysOf(pol)
<1>1. PICK S \in SUBSET Names : pol.witnesses \in [S -> Keys]
  BY ReceiptsPoliciesAssumption DEF Policy
<1>2. pol.witnesses \in Surjection(DOMAIN pol.witnesses, KeysOf(pol))
  <2>1. DOMAIN pol.witnesses = S
    BY <1>1
  <2>2. pol.witnesses \in [S -> KeysOf(pol)]
    BY <1>1, <2>1 DEF KeysOf
  <2>3. \A k \in KeysOf(pol) : \E n \in S : pol.witnesses[n] = k
    BY <2>1 DEF KeysOf
  <2> QED BY <2>1, <2>2, <2>3 DEF Surjection
<1>3. IsFiniteSet(DOMAIN pol.witnesses)
  BY ReceiptsPoliciesAssumption
<1>4. \A tree : CosignedBy(tree, pol) \subseteq KeysOf(pol)
  BY DEF CosignedBy, KeysOf
<1> QED BY <1>2, <1>3, <1>4, FS_Surjection

\* As many keys cosigned the tree of an accepted receipt as its policy asks for:
\* names of witnesses stand for different keys.
LEMMA QuorumOfKeys ==
  ASSUME TypeOK, VerifierInv, accepted # None
  PROVE  Cardinality(CosignedBy(receipt.tree, policy)) >= policy.quorum
<1> DEFINE K == CosignedBy(receipt.tree, policy)
           f == [n \in v.cosigners |-> policy.witnesses[n]]
<1>1. /\ policy # None /\ Validate(policy) /\ Counted
      /\ Cardinality(v.cosigners) >= policy.quorum
  BY DEF VerifierInv
<1>2. policy \in Policies /\ policy \in Policy
  BY <1>1, ReceiptsPoliciesAssumption DEF TypeOK
<1>3. IsFiniteSet(K)
  <2>1. IsFiniteSet(KeysOf(policy)) /\ K \in SUBSET KeysOf(policy)
    BY <1>2, KeysAreFew
  <2> HIDE DEF K
  <2> QED BY <2>1, FS_Subset
<1>4. \A n \in v.cosigners : policy.witnesses[n] \in K
  <2> SUFFICES ASSUME NEW n \in v.cosigners PROVE policy.witnesses[n] \in K
    OBVIOUS
  <2>1. PICK c \in issued : c.tree = receipt.tree /\ c.key = policy.witnesses[n]
    BY <1>1 DEF Counted
  <2>2. n \in DOMAIN policy.witnesses
    BY <1>1 DEF Counted
  <2> QED BY <2>1, <2>2 DEF CosignedBy
<1>5. f \in Injection(v.cosigners, K)
  <2>1. \A m, n \in v.cosigners : policy.witnesses[m] = policy.witnesses[n] => m = n
    BY <1>1 DEF Validate, Counted
  <2>2. f \in [v.cosigners -> K]
    BY <1>4
  <2>3. IsInjective(f)
    BY <2>1 DEF IsInjective
  <2> HIDE DEF f, K
  <2> QED BY <2>2, <2>3 DEF Injection
<1>6. IsFiniteSet(v.cosigners) /\ Cardinality(v.cosigners) <= Cardinality(K)
  <2> HIDE DEF f, K
  <2> QED BY <1>3, <1>5, FS_Injection
<1>7. Cardinality(v.cosigners) \in Nat /\ Cardinality(K) \in Nat
  <2> HIDE DEF K
  <2> QED BY <1>3, <1>6, FS_CardinalityType
<1>8. policy.quorum \in Nat
  BY <1>2 DEF Policy
<1> HIDE DEF K
<1>9. Cardinality(K) >= policy.quorum
  BY <1>1, <1>6, <1>7, <1>8
<1> QED BY <1>9 DEF K

\* An accepted receipt has a time, since its quorum is not empty.
LEMMA AcceptedHasTime ==
  ASSUME TypeOK, VerifierInv, accepted # None
  PROVE  accepted = v.earliest /\ Counted
BY DEF VerifierInv

\* Any line, in any order: a quorum of different keys cosigned the tree of what is
\* accepted, at the time it shows and not earlier by any line it carries.
THEOREM ReceiptsAreAttested == Spec => []AcceptedIsAttested
<1>1. TypeOK /\ VerifierInv => AcceptedIsAttested
  <2> SUFFICES ASSUME TypeOK, VerifierInv, accepted # None
               PROVE  /\ Cardinality(CosignedBy(receipt.tree, policy)) >= policy.quorum
                      /\ \E c \in issued : /\ c.tree = receipt.tree /\ c.at = accepted
                                            /\ \E n \in DOMAIN policy.witnesses :
                                                 policy.witnesses[n] = c.key
                      /\ \A t \in v.good : accepted <= t
    BY DEF AcceptedIsAttested
  <2>1. accepted = v.earliest /\ Counted
    BY AcceptedHasTime
  <2>2. \E c \in issued : Cosigned(c) /\ c.at = accepted
    BY <2>1 DEF Counted
  <2> QED BY <2>1, <2>2, QuorumOfKeys DEF Counted, Cosigned
<1> QED BY <1>1, ReceiptsTypeCorrect, ReceiptsInvariant, PTL

\* Two quorums share a witness, and it cosigned one history.
LEMMA QuorumsAgree ==
  ASSUME TypeOK, LogInv, VerifierInv, accepted # None,
         2 * policy.quorum > Cardinality(DOMAIN policy.witnesses),
         NEW c \in issued, Cardinality(CosignedBy(c.tree, policy)) >= policy.quorum
  PROVE  IsPrefix(receipt.tree, c.tree) \/ IsPrefix(c.tree, receipt.tree)
<1> DEFINE K == CosignedBy(receipt.tree, policy)
           L == CosignedBy(c.tree, policy)
           U == KeysOf(policy)
<1>1. policy \in Policies /\ policy \in Policy
  BY ReceiptsPoliciesAssumption DEF VerifierInv, TypeOK
<1>2. /\ IsFiniteSet(U) /\ Cardinality(U) <= Cardinality(DOMAIN policy.witnesses)
      /\ K \subseteq U /\ L \subseteq U
  BY <1>1, KeysAreFew
<1>3. Cardinality(K) >= policy.quorum
  BY QuorumOfKeys
<1>4. Cardinality(U) \in Nat /\ Cardinality(K) \in Nat /\ Cardinality(L) \in Nat
      /\ Cardinality(DOMAIN policy.witnesses) \in Nat /\ policy.quorum \in Nat
  <2>1. IsFiniteSet(DOMAIN policy.witnesses)
    BY <1>1, ReceiptsPoliciesAssumption
  <2>2. Cardinality(DOMAIN policy.witnesses) \in Nat /\ policy.quorum \in Nat
    BY <1>1, <2>1, FS_CardinalityType DEF Policy
  <2> HIDE DEF K, L, U
  <2>3. IsFiniteSet(K) /\ IsFiniteSet(L)
    BY <1>2, FS_Subset
  <2> QED BY <1>2, <2>2, <2>3, FS_CardinalityType
<1>5. Cardinality(L) >= policy.quorum
  OBVIOUS
<1>6. K \cap L # {}
  <2> HIDE DEF K, L, U
  <2>1. Cardinality(K) + Cardinality(L) > Cardinality(U)
    BY <1>2, <1>3, <1>4, <1>5
  <2> QED BY <1>2, <2>1, FS_MajoritiesIntersect
<1>7. PICK key \in K \cap L : TRUE
  BY <1>6
<1>8. \E d \in issued : d.tree = receipt.tree /\ d.key = key
  BY <1>7 DEF CosignedBy
<1>9. \E e \in issued : e.tree = c.tree /\ e.key = key
  BY <1>7 DEF CosignedBy
<1> QED BY <1>8, <1>9 DEF LogInv

\* However often the file is put back and grows otherwise, a policy whose quorums
\* meet never accepts two blocks of one index.
THEOREM OneIndexOneBlock == Spec => []OneBlockPerIndex
<1>1. TypeOK /\ LogInv /\ VerifierInv => OneBlockPerIndex
  <2> SUFFICES ASSUME TypeOK, LogInv, VerifierInv, accepted # None,
                      2 * policy.quorum > Cardinality(DOMAIN policy.witnesses),
                      NEW c \in issued, Cardinality(CosignedBy(c.tree, policy)) >= policy.quorum,
                      Len(c.tree) > receipt.block.index
               PROVE  c.tree[receipt.block.index + 1] = receipt.block
    BY DEF OneBlockPerIndex
  <2> DEFINE i == receipt.block.index
  <2>1. receipt # None /\ VerifyBlock(receipt, policy)
    BY DEF VerifierInv
  <2>2. receipt.tree \in Tree /\ receipt.block \in Blocks /\ c.tree \in Tree
    BY <2>1 DEF TypeOK, ReceiptType, Cosignature
  <2>3. i \in Nat
    BY <2>2, ReceiptsBlocksAssumption DEF Block
  <2>4. i < Len(receipt.tree) /\ receipt.block = receipt.tree[i + 1]
    BY <2>1 DEF VerifyBlock, VerifyInclusion
  <2>5. IsPrefix(receipt.tree, c.tree) \/ IsPrefix(c.tree, receipt.tree)
    BY QuorumsAgree
  <2>6. i + 1 \in 1..Len(c.tree) /\ i + 1 \in 1..Len(receipt.tree)
    BY <2>2, <2>3, <2>4 DEF Tree
  <2>7. c.tree[i + 1] = receipt.tree[i + 1]
    BY <2>2, <2>5, <2>6, PrefixMeans
  <2> QED BY <2>4, <2>7
<1> QED BY <1>1, ReceiptsTypeCorrect, ReceiptsInvariant, PTL

-----------------------------------------------------------------------------
(* Issuing *)

\* What Issue puts together for a block that a kept note covers is proved for the tree
\* of that note, whatever has been sealed since.
LEMMA CoveredIsProved ==
  ASSUME TypeOK, LogInv, NEW pol \in Policies, SoundRows(pol.signer),
         NEW c \in notes, NEW m \in 0..Len(c.tree) - 1
  PROVE  m < Len(c.tree) /\ VerifyBlock(Assembled(c, m), pol)
<1> DEFINE tree == c.tree
<1>1. tree \in Tree /\ rows \in Tree /\ IsPrefix(tree, rows)
  BY DEF TypeOK, LogInv, Cosignature
<1> HIDE DEF tree
<1>2. Len(tree) \in Nat /\ Len(rows) \in Nat /\ Len(tree) <= Len(rows)
      /\ \A i \in 1..Len(tree) : tree[i] = rows[i]
  BY <1>1, PrefixMeans DEF Tree
<1>3. SubSeq(rows, 1, Len(tree)) = tree
  <2>1. SubSeq(tree, 1, Len(tree)) = tree
    BY <1>1 DEF Tree
  <2> QED BY <1>1, <2>1 DEF IsPrefix
<1>4. m + 1 \in 1..Len(tree) /\ m + 1 \in 1..Len(rows) /\ m < Len(tree)
  BY <1>2 DEF tree
<1>5. rows[m + 1].good /\ rows[m + 1].by = pol.signer /\ rows[m + 1].index = m
  BY <1>4 DEF SoundRows
<1>6. tree[m + 1] = rows[m + 1]
  BY <1>2, <1>4
<1>7. Assembled(c, m) = [block |-> rows[m + 1], index |-> m,
                         proof |-> InclusionProof(tree, m), tree |-> tree]
  BY <1>3 DEF Assembled, tree
<1> QED BY <1>4, <1>5, <1>6, <1>7 DEF VerifyBlock, VerifyInclusion, tree

\* A kept note has one cosignature, so it is enough for a policy that asks for one and
\* names the witness that made it, and for no other.
LEMMA OneLineCounts ==
  ASSUME NEW pol \in Policies, Validate(pol), NEW c, c.key \in Keys
  PROVE  VerifyNote(LinesOf(c), pol) <=>
           /\ pol.quorum = 1
           /\ OwnName[c.key] \in DOMAIN pol.witnesses /\ pol.witnesses[OwnName[c.key]] = c.key
<1> DEFINE w == WitnessLine(OwnName[c.key], c)
           log == LogLine(TRUE)
           counted == {line \in LinesOf(c) : OfAWitness(line, pol)}
           names == {line.name : line \in counted}
<1>1. DOMAIN pol.witnesses \subseteq Names /\ pol.quorum \in Nat /\ pol.quorum > 0
  BY ReceiptsPoliciesAssumption DEF Policy, Validate
<1>2. w.name = OwnName[c.key] /\ w.key = c.key /\ w.good = TRUE
  BY DEF WitnessLine
<1>3. log.name = LogName /\ log.key = LogName /\ log.good = TRUE
  BY DEF LogLine
<1>4. LinesOf(c) = {log, w}
  BY DEF LinesOf
<1> HIDE DEF w, log
<1>5. ~OfAWitness(log, pol) /\ OfTheLog(log)
  BY <1>1, <1>3, ReceiptsNamesAssumption DEF OfAWitness, OfTheLog
<1>6. names = IF OfAWitness(w, pol) THEN {w.name} ELSE {}
  <2>1. CASE OfAWitness(w, pol)
    <3>1. counted = {w}
      BY <1>4, <1>5, <2>1
    <3> QED BY <2>1, <3>1
  <2>2. CASE ~OfAWitness(w, pol)
    <3>1. counted = {}
      BY <1>4, <1>5, <2>2
    <3> QED BY <2>2, <3>1
  <2> QED BY <2>1, <2>2
<1>7. Cardinality(names) = IF OfAWitness(w, pol) THEN 1 ELSE 0
  <2>1. Cardinality({w.name}) = 1 /\ Cardinality({}) = 0
    BY FS_Singleton, FS_EmptySet
  <2> HIDE DEF names
  <2> QED BY <1>6, <2>1
<1>8. VerifyNote(LinesOf(c), pol) <=> Cardinality(names) >= pol.quorum
  <2>1. \A line \in LinesOf(c) : line.good
    BY <1>2, <1>3, <1>4
  <2>2. \E line \in LinesOf(c) : OfTheLog(line)
    BY <1>4, <1>5
  <2> QED BY <2>1, <2>2 DEF VerifyNote
<1>9. OfAWitness(w, pol) <=> /\ OwnName[c.key] \in DOMAIN pol.witnesses
                             /\ pol.witnesses[OwnName[c.key]] = c.key
  BY <1>2 DEF OfAWitness
<1> HIDE DEF names
<1>10. Cardinality(names) >= pol.quorum <=> pol.quorum = 1 /\ OfAWitness(w, pol)
  BY <1>1, <1>7
<1> QED BY <1>8, <1>9, <1>10

\* A block that a kept note covers gets its receipt, whatever has been sealed since,
\* under the policies that ask for one witness and name the one of that note, and
\* under those only.
THEOREM CoveredStaysIssued == Spec => []CoveredIsIssued
<1>1. TypeOK /\ LogInv => CoveredIsIssued
  <2> SUFFICES ASSUME TypeOK, LogInv, NEW pol \in Policies, SoundRows(pol.signer),
                      Validate(pol), NEW c \in notes, NEW m \in 0..Len(c.tree) - 1
               PROVE  Issue(c, m, pol) <=>
                        /\ pol.quorum = 1
                        /\ OwnName[c.key] \in DOMAIN pol.witnesses
                        /\ pol.witnesses[OwnName[c.key]] = c.key
    BY DEF CoveredIsIssued
  <2>1. c.key \in Keys
    BY DEF TypeOK, Cosignature
  <2>2. Issue(c, m, pol) <=> VerifyNote(LinesOf(c), pol)
    BY CoveredIsProved DEF Issue
  <2> QED BY <2>1, <2>2, OneLineCounts
<1> QED BY <1>1, ReceiptsTypeCorrect, ReceiptsInvariant, PTL
================================================================================
