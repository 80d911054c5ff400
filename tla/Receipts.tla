------------------------------ MODULE Receipts ------------------------------
(***************************************************************************)
(* Receipts and what a third party may conclude from them                   *)
(* (internal/proof/proof.go, internal/receipt, `nucleo receipt` in            *)
(* cmd/nucleo/seal.go).  A receipt carries a block, its inclusion proof and a  *)
(* note: the tree it is in, with lines of signatures in whatever order and      *)
(* number its issuer chose.  The verifier has no file: only a policy, which     *)
(* names the log's key, the key that signs blocks, some witnesses and how many   *)
(* of them have to have signed.                                             *)
(*                                                                         *)
(* Around it, the log and its witnesses: the file grows, is put back from a      *)
(* copy and grows otherwise; whoever can write it may put anything in it; each   *)
(* witness cosigns one growing history (module Witness).  Roots are sequences    *)
(* of leaves and the inclusion proof of a leaf is its tree and position (module  *)
(* Merkle).  A signature is good if it was made over what it is shown with; one  *)
(* of a witness exists only if it was made.  Formats are left out, and so are the *)
(* recipient and the signature of the issuer over the whole text.            *)
(***************************************************************************)
EXTENDS Integers, Sequences, FiniteSets, SequencesExt, FiniteSetsExt

CONSTANTS
  Blocks,    \* what the file may hold: headers with a signature, good or not
  Signers,   \* keys that sign blocks
  Names,     \* names of witnesses
  Keys,      \* keys of witnesses
  OwnName,   \* the name a witness signs with, by its key
  Policies,
  LogName,   \* the origin: the name on the log's line
  Times,
  MaxBlocks, \* bound: blocks in the file
  MaxIssued, \* bound: cosignatures ever made
  None

Block == [index : Nat, body : STRING, by : Signers, good : BOOLEAN]

\* A policy gives each witness it names a key.
Policy == [witnesses : UNION {[S -> Keys] : S \in SUBSET Names}, quorum : Nat, signer : Signers]

ASSUME ReceiptsBlocksAssumption == Blocks \subseteq Block
ASSUME ReceiptsPoliciesAssumption ==
  \A pol \in Policies : pol \in Policy /\ IsFiniteSet(DOMAIN pol.witnesses)
ASSUME ReceiptsNamesAssumption ==
  LogName \notin Names /\ OwnName \in [Keys -> Names] /\ Times \subseteq Nat
ASSUME ReceiptsBoundsAssumption == {MaxBlocks, MaxIssued} \subseteq Nat

Tree == Seq(Blocks)
Cosignature == [tree : Tree, key : Keys, at : Times]
ReceiptType == [block : Blocks, index : Nat, proof : [tree : Tree, at : Nat], tree : Tree]

ASSUME ReceiptsNoneAssumption ==
  None \notin Times /\ None \notin Policies /\ None \notin ReceiptType

VARIABLES
  rows,    \* table blocks of the file
  notes,   \* table checkpoints: the first cosignature of a tree of each size
  issued,  \* history: every cosignature a witness made
  (* a verifier *)
  policy,  \* the policy it verifies with, or None
  receipt, \* the receipt it was given
  v,       \* what the lines it has read say
  accepted \* the time its text shows, once it is accepted, or None

file     == <<rows, notes, issued>>
verifier == <<policy, receipt, v, accepted>>
vars     == <<file, verifier>>

LogLine(good) == [name |-> LogName, key |-> LogName, good |-> good, at |-> Min(Times)]
WitnessLine(name, c) == [name |-> name, key |-> c.key, good |-> TRUE, at |-> c.at]

NothingRead == [logSigned |-> FALSE, cosigners |-> {}, earliest |-> None, good |-> {}]

Init ==
  /\ rows = << >> /\ notes = {} /\ issued = {}
  /\ policy = None /\ receipt = None /\ v = NothingRead /\ accepted = None

\* A block is sealed, or written into the file by somebody else.
Write(b) ==
  /\ Len(rows) < MaxBlocks
  /\ rows' = Append(rows, b)
  /\ UNCHANGED <<notes, issued, verifier>>

\* The file is put back from a copy it had n blocks in.
PutBack(n) ==
  /\ n < Len(rows)
  /\ rows' = SubSeq(rows, 1, n)
  /\ notes' = {c \in notes : Len(c.tree) <= n}
  /\ UNCHANGED <<issued, verifier>>

\* A sync with one witness: it cosigns what continues all it ever cosigned, at the time
\* its clock shows, which may be earlier than before if it restarted; the file keeps
\* the note unless it has one of this size.
RecordCosigned(key, t) ==
  LET c == [tree |-> rows, key |-> key, at |-> t]
  IN  /\ rows # << >> /\ Cardinality(issued) < MaxIssued
      /\ \A d \in issued : d.key = key => IsPrefix(d.tree, rows)
      /\ issued' = issued \cup {c}
      /\ notes' = IF \E d \in notes : Len(d.tree) = Len(rows) THEN notes ELSE notes \cup {c}
      /\ UNCHANGED <<rows, verifier>>

-----------------------------------------------------------------------------
(* Verifying a receipt *)

\* validate, and RequireWitnesses, which a receipt is verified with.
Validate(pol) ==
  /\ 0 < pol.quorum /\ pol.quorum <= Cardinality(DOMAIN pol.witnesses)
  /\ \A m, n \in DOMAIN pol.witnesses : pol.witnesses[m] = pol.witnesses[n] => m = n

\* The proof InclusionProof makes for a leaf of a tree, and its verification.
InclusionProof(tree, m) == [tree |-> tree, at |-> m]
VerifyInclusion(b, m, proof, tree) ==
  m < Len(tree) /\ b = tree[m + 1] /\ proof = InclusionProof(tree, m)

\* Mutant of VerifyBlock: the proof may be of another position.
VerifyBlockAnywhere(r, pol) ==
  r.block.by = pol.signer /\ r.block.good /\ VerifyInclusion(r.block, r.index, r.proof, r.tree)

\* The checks of Receipt.verify that need no note.  In what order all checks are made
\* chooses only the error.
VerifyBlock(r, pol) ==
  /\ r.block.by = pol.signer          \* the key the policy expects, not the receipt
  /\ r.index = r.block.index
  /\ r.block.good
  /\ VerifyInclusion(r.block, r.index, r.proof, r.tree)

\* A receipt is put together from any block, with any tree as its note.
Present(pol, r) ==
  /\ policy = None /\ Validate(pol) /\ VerifyBlock(r, pol)
  /\ policy' = pol
  /\ receipt' = r
  /\ UNCHANGED <<file, v, accepted>>

OfTheLog(line) == line.name = LogName /\ line.key = LogName
OfAWitness(line, pol) == line.name \in DOMAIN pol.witnesses /\ pol.witnesses[line.name] = line.key

Done == /\ policy' = None /\ receipt' = None /\ v' = NothingRead /\ accepted' = None
        /\ UNCHANGED file

\* Mutant of Count: the time of the last line is kept.
CountKeepsLast(line) ==
  [logSigned |-> v.logSigned, cosigners |-> v.cosigners \cup {line.name},
   good |-> v.good \cup {line.at}, earliest |-> line.at]

\* A witness counts once, by its name, and its earliest cosignature dates the receipt.
Count(line) ==
  [logSigned |-> v.logSigned, cosigners |-> v.cosigners \cup {line.name},
   good |-> v.good \cup {line.at},
   earliest |-> IF v.earliest = None THEN line.at ELSE Min({v.earliest, line.at})]

\* One more line of the note: a bad one of a known key ends it, one of an unknown key
\* is ignored.
ReadLine(line) ==
  /\ policy # None /\ accepted = None
  /\ \/ /\ OfTheLog(line) /\ line.good
        /\ v' = [v EXCEPT !.logSigned = TRUE]
        /\ UNCHANGED <<file, policy, receipt, accepted>>
     \/ /\ OfAWitness(line, policy) /\ line.good
        /\ v' = Count(line)
        /\ UNCHANGED <<file, policy, receipt, accepted>>
     \/ /\ OfTheLog(line) \/ OfAWitness(line, policy)
        /\ ~line.good
        /\ Done

\* There are no more lines: verify has its verdict, and Parse compares the text of the
\* receipt with the one made from it, which shows the earliest time.
Accept ==
  /\ policy # None /\ accepted = None
  /\ v.logSigned /\ Cardinality(v.cosigners) >= policy.quorum
  /\ accepted' = v.earliest
  /\ UNCHANGED <<file, policy, receipt, v>>

Forget == policy # None /\ Done

-----------------------------------------------------------------------------
(* What anybody can put together *)

\* The lines under a note of a tree: the log's, what was cosigned, also under another
\* name, and bad ones.
LinesFor(tree) ==
  {LogLine(TRUE), LogLine(FALSE)}
  \cup {WitnessLine(name, c) : name \in Names, c \in {d \in issued : d.tree = tree}}
  \cup {[name |-> name, key |-> key, good |-> FALSE, at |-> Min(Times)] : name \in Names, key \in Keys}

Receipt(b, m, tree) ==
  [block |-> b, index |-> m, proof |-> InclusionProof(tree, m), tree |-> tree]

Next ==
  \/ \E b \in Blocks : Write(b)
  \/ \E n \in 0..MaxBlocks - 1 : PutBack(n)
  \/ \E key \in Keys, t \in Times : RecordCosigned(key, t)
  \/ \E pol \in Policies, b \in Blocks, m \in 0..MaxBlocks - 1, tree \in {c.tree : c \in issued} :
       Present(pol, Receipt(b, m, tree))
  \/ \E line \in LinesFor(IF receipt = None THEN << >> ELSE receipt.tree) : ReadLine(line)
  \/ Accept
  \/ Forget

Spec == Init /\ [][Next]_vars

-----------------------------------------------------------------------------
(* Issuing a receipt *)

\* A note as the file keeps it: the line of the log and the one cosignature it came with.
LinesOf(c) == {LogLine(TRUE), WitnessLine(OwnName[c.key], c)}

\* VerifyNote, of the lines of a note together.
VerifyNote(lines, pol) ==
  LET counted == {line \in lines : OfAWitness(line, pol)}
  IN  /\ \A line \in lines : OfTheLog(line) \/ OfAWitness(line, pol) => line.good
      /\ \E line \in lines : OfTheLog(line)
      /\ Cardinality({line.name : line \in counted}) >= pol.quorum

\* Mutant of Assembled: the proof is made in the tree there is now.
AssembledFromAllLeaves(c, m) ==
  [block |-> rows[m + 1], index |-> m, proof |-> InclusionProof(rows, m), tree |-> c.tree]

\* Issue reads the note, then the block, then the leaves of as many blocks as the
\* note has, while others seal.
Assembled(c, m) ==
  [block |-> rows[m + 1], index |-> m,
   proof |-> InclusionProof(SubSeq(rows, 1, Len(c.tree)), m), tree |-> c.tree]

\* Issue fails for a block the note does not cover, and where Sign does: the text it
\* signs shows the time of the note under the policy of the issuer, so it verifies
\* the block and the note first, as who gets the receipt will.
Issue(c, m, pol) ==
  m < Len(c.tree) /\ Validate(pol) /\ VerifyBlock(Assembled(c, m), pol) /\ VerifyNote(LinesOf(c), pol)

-----------------------------------------------------------------------------
(* Properties *)

TypeOK ==
  /\ rows \in Tree /\ notes \subseteq Cosignature /\ issued \subseteq Cosignature
  /\ policy \in Policies \cup {None} /\ receipt \in ReceiptType \cup {None}
  /\ v \in [logSigned : BOOLEAN, cosigners : SUBSET Names,
             earliest : Times \cup {None}, good : SUBSET Times]
  /\ accepted \in Times \cup {None}

CosignedBy(tree, pol) ==
  {c.key : c \in {d \in issued : d.tree = tree /\ \E n \in DOMAIN pol.witnesses : pol.witnesses[n] = d.key}}

\* A receipt is accepted only if as many different keys as the policy asks for have
\* cosigned the tree its block is in, whatever lines it was shown with and in
\* whatever order: no line repeated or copied under another name counts twice.  The
\* time it shows is one at which a witness of the policy had cosigned that tree, and
\* none of the lines it was shown with proves an earlier one.
AcceptedIsAttested ==
  accepted # None =>
    /\ Cardinality(CosignedBy(receipt.tree, policy)) >= policy.quorum
    /\ \E c \in issued : /\ c.tree = receipt.tree /\ c.at = accepted
                          /\ \E n \in DOMAIN policy.witnesses : policy.witnesses[n] = c.key
    /\ \A t \in v.good : accepted <= t

\* If any two quorums of a policy meet, no two receipts show different blocks of one
\* index, although the file was put back and grew otherwise: any tree another receipt
\* could be accepted with has at that index the block of this one, of the key the
\* policy expects.
OneBlockPerIndex ==
  (accepted # None /\ 2 * policy.quorum > Cardinality(DOMAIN policy.witnesses)) =>
    \A c \in issued :
      (Cardinality(CosignedBy(c.tree, policy)) >= policy.quorum /\ Len(c.tree) > receipt.block.index)
        => c.tree[receipt.block.index + 1] = receipt.block

\* What sealing and opening the file keep: blocks in their places, signed by one key.
SoundRows(signer) ==
  \A i \in 1..Len(rows) : rows[i].good /\ rows[i].by = signer /\ rows[i].index = i - 1

\* A block that a kept note covers gets its receipt, whatever was sealed between the
\* note and the leaves were read, under a policy that asks for one witness and knows,
\* by its own name and key, the one that cosigned that note; and under no other, since
\* the file keeps one cosignature a tree whoever else has made one.
CoveredIsIssued ==
  \A pol \in Policies : (SoundRows(pol.signer) /\ Validate(pol)) =>
    \A c \in notes : \A m \in 0..Len(c.tree) - 1 :
      Issue(c, m, pol) <=>
        /\ pol.quorum = 1
        /\ OwnName[c.key] \in DOMAIN pol.witnesses /\ pol.witnesses[OwnName[c.key]] = c.key
=============================================================================
