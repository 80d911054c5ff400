------------------------------- MODULE Opening -------------------------------
(***************************************************************************)
(* Opening and verifying a ledger file (internal/store/integrity.go, open in *)
(* store.go, LastCheckpoint and LastCosignedCheckpoint in checkpoints.go,    *)
(* `nucleo verify` in cmd/nucleo/verify.go).                                *)
(*                                                                         *)
(* Every command opens the file first, and the opening is five statements:   *)
(* the leaf rule, the number of blocks, the largest cosigned note, the walk  *)
(* over the rows, the last note.  Commands that opened before seal blocks and *)
(* keep notes between any two of them.  With a policy that verifies the        *)
(* cosigned note, signatures and links below it are not recomputed.          *)
(*                                                                         *)
(* The file an opening meets may be a sound one, or one put together from      *)
(* parts of several copies or damaged in some column: Files says which.  It    *)
(* may also have lost its first blocks: the walk compares the column of indices *)
(* with the place of a row and each header with the one before, and never the   *)
(* first header with the genesis.                                            *)
(*                                                                         *)
(* A hash stands for the header it was computed from, and a header holds the  *)
(* hash of the one before, so both are the sequence of entries up to the      *)
(* block.  A Merkle root stands for the sequence of its leaves (module        *)
(* Merkle).  Times and the form of a header are in Sealing.                  *)
(***************************************************************************)
EXTENDS Integers, Sequences, FiniteSets

CONSTANTS
  Openers,    \* slots for commands that open the file
  Bodies,     \* what a header says, but for its signer and the hash before it
  Signers,    \* keys that sign blocks
  Logs,       \* identities of logs: an origin and its key
  Witnesses,  \* witnesses that exist
  Forged,     \* what has only the form of a cosignature
  Policies,   \* what openers bring from outside, NoPolicy among them
  NoPolicy,
  Files,      \* what the file may hold at the start
  None,
  MaxBlocks,  \* bound: blocks in the file, and in what its notes promise
  MaxNotes    \* bound: notes in the file

Entry == [body : Bodies, signer : Signers]
Header == Seq(Entry) \ {<< >>}
SignerOf(h) == h[Len(h)].signer
Before(h) == SubSeq(h, 1, Len(h) - 1)

Signature == [by : Signers, over : Header]
Leaf == [hash : Header, sig : Signature]
Row == [header : Header, hash : Header, sig : Signature]

\* LeafData: the hash and the signature of a row.
LeafOf(r) == [hash |-> r.hash, sig |-> r.sig]
Leaves(rs) == [i \in 1..Len(rs) |-> LeafOf(rs[i])]

\* The row AppendRecord writes for a header.
Sealed(h) == [header |-> h, hash |-> h, sig |-> [by |-> SignerOf(h), over |-> h]]

Note == [tree : Seq(Leaf), cosigners : SUBSET (Witnesses \cup {Forged}), log : Logs]

\* Every row is the one that was sealed for its header, it continues the row
\* before it, and one key signs them all.
Linked(rs) ==
  \A i \in 1..Len(rs) :
    /\ rs[i] = Sealed(rs[i].header)
    /\ i > 1 => Before(rs[i].header) = rs[i - 1].header
    /\ SignerOf(rs[i].header) = SignerOf(rs[1].header)

FromGenesis(rs) == rs # << >> => Len(rs[1].header) = 1

\* What a witness has cosigned is the tree of some file that an opening let pass,
\* as a sync opens it first: rows that were sealed so, from whatever block on.
RowsOf(tree) ==
  [i \in 1..Len(tree) |-> [header |-> tree[i].hash, hash |-> tree[i].hash, sig |-> tree[i].sig]]
Genuine(note) == note.cosigners \cap Witnesses # {} => Linked(RowsOf(note.tree))

File == [rows : Seq(Row), numbered : BOOLEAN, notes : SUBSET Note, mark : BOOLEAN,
         log : Logs \cup {None}]
Policy == [witnesses : SUBSET Witnesses, quorum : Nat,
           signer : Signers \cup {None}, log : Logs \cup {None}]

ASSUME FilesAssumption ==
  \A f \in Files : /\ f \in File /\ Len(f.rows) <= MaxBlocks
                   /\ f.rows = << >> => f.numbered
                   /\ \A note \in f.notes : Len(note.tree) <= MaxBlocks
ASSUME GenuineAssumption == \A f \in Files : \A note \in f.notes : Genuine(note)
ASSUME PoliciesAssumption ==
  /\ NoPolicy \in Policies /\ Policies \subseteq Policy \cup {NoPolicy}
  /\ \A pol \in Policies \ {NoPolicy} : IsFiniteSet(pol.witnesses)
ASSUME OpeningNoneAssumption ==
  None \notin Signers \cup Logs \cup Note /\ NoPolicy \notin Policy /\ Forged \notin Witnesses
ASSUME OpeningBoundsAssumption == MaxBlocks \in Nat /\ MaxNotes \in Nat

VARIABLES
  (* the ledger file *)
  rows,      \* table blocks, in the order of its column idx
  numbered,  \* that column counts the rows from 0
  notes,     \* table checkpoints, one note for a size
  mark,      \* vault_meta[log/leaf-rule/v1] is there
  declared,  \* vault_meta[log/pubkey, log/origin]: the log the file is of
  (* each opening *)
  pc,
  policy,    \* the policy it brought
  full,      \* this is the second pass of `verify --full`
  n,         \* how many rows there were
  attested,  \* the largest cosigned note, or None
  walked,    \* the rows it walked
  verdict,   \* what it said
  (* history *)
  admitted,  \* another command has opened the file, and may still be at work
  promised,  \* the sizes of the notes when it started
  sealed,    \* a block was sealed since it started
  synced     \* a note was kept since it started

file    == <<rows, numbered, notes, mark, declared>>
reads   == <<policy, full, n, attested, walked>>
history == <<admitted, promised, sealed, synced>>
vars    == <<file, pc, reads, verdict, history>>

Init ==
  /\ \E f \in Files : /\ rows = f.rows /\ numbered = f.numbered /\ notes = f.notes
                      /\ mark = f.mark /\ declared = f.log
  /\ pc = [p \in Openers |-> "idle"]
  /\ policy = [p \in Openers |-> NoPolicy]
  /\ full = [p \in Openers |-> FALSE]
  /\ n = [p \in Openers |-> 0]
  /\ attested = [p \in Openers |-> None]
  /\ walked = [p \in Openers |-> << >>]
  /\ verdict = [p \in Openers |-> "none"]
  /\ admitted = FALSE
  /\ promised = [p \in Openers |-> {}]
  /\ sealed = [p \in Openers |-> FALSE]
  /\ synced = [p \in Openers |-> FALSE]

-----------------------------------------------------------------------------
(* The notes of the file *)

SizeOf(note) == Len(note.tree)
IsPrefix(s, t) == Len(s) <= Len(t) /\ s = SubSeq(t, 1, Len(s))

\* IsCosigned looks at the form of a note, verifyLogSignature at who signed it.
IsCosigned(note) == note.cosigners # {}
SignedByThisLog(note) == declared # None /\ note.log = declared

Largest(S) == CHOOSE note \in S : \A other \in S : SizeOf(other) <= SizeOf(note)

LastCosignedCheckpoint ==
  LET S == {note \in notes : IsCosigned(note)} IN IF S = {} THEN None ELSE Largest(S)
LastCheckpoint == IF notes = {} THEN None ELSE Largest(notes)

-----------------------------------------------------------------------------
(* Other commands *)

\* What an opening lets pass, with nobody writing meanwhile: each statement of the
\* opening below, on the same file.
Openable ==
  /\ mark \/ rows = << >>
  /\ numbered /\ Linked(rows)
  /\ \A c \in {LastCosignedCheckpoint, LastCheckpoint} :
       c # None => SignedByThisLog(c) /\ IsPrefix(c.tree, Leaves(rows))

\* Another command opens the file, and leaves the mark in a new one.
OpenElsewhere ==
  /\ Openable /\ ~admitted
  /\ mark' = TRUE /\ admitted' = TRUE
  /\ UNCHANGED <<rows, numbered, notes, declared, pc, reads, verdict, promised, sealed, synced>>

\* AppendRecord: one more row that continues the last, by the same key.  Its idx is
\* the index in its header, one more than in the last: where the first blocks are
\* missing, not its place.
Seal(e) ==
  /\ admitted /\ Len(rows) < MaxBlocks
  /\ rows # << >> => e.signer = SignerOf(rows[1].header)
  /\ rows' = Append(rows, Sealed(Append(IF rows = << >> THEN << >> ELSE rows[Len(rows)].header, e)))
  /\ numbered' = FromGenesis(rows)
  /\ sealed' = [p \in Openers |-> TRUE]
  /\ UNCHANGED <<notes, mark, declared, pc, reads, verdict, admitted, promised, synced>>

\* PutCheckpoint: the cosigned note of a tree that a sync read, unless there is
\* one of its size.  A witness new to the log cosigns whatever root it is shown.
PutCheckpoint(size, w) ==
  /\ admitted /\ declared # None /\ Cardinality(notes) < MaxNotes
  /\ \A note \in notes : SizeOf(note) # size
  /\ notes' = notes \cup {[tree |-> SubSeq(Leaves(rows), 1, size), cosigners |-> {w},
                           log |-> declared]}
  /\ synced' = [p \in Openers |-> TRUE]
  /\ UNCHANGED <<rows, numbered, mark, declared, pc, reads, verdict, admitted, promised, sealed>>

-----------------------------------------------------------------------------
(* Opening *)

Goto(p, label) == pc' = [pc EXCEPT ![p] = label]

End(p, said) ==
  /\ Goto(p, "idle")
  /\ verdict' = [verdict EXCEPT ![p] = said]

\* WitnessPolicy.validate: at least one cosignature, at most what there is.
Validate(pol) == pol # NoPolicy => pol.quorum \in 1..Cardinality(pol.witnesses)

\* The policy is validated before the file is touched; then the leaf rule.
Open(p, pol) ==
  /\ pc[p] = "idle" /\ Validate(pol)
  /\ policy' = [policy EXCEPT ![p] = pol]
  /\ full' = [full EXCEPT ![p] = FALSE]
  /\ promised' = [promised EXCEPT ![p] = {SizeOf(note) : note \in notes}]
  /\ sealed' = [sealed EXCEPT ![p] = FALSE]
  /\ synced' = [synced EXCEPT ![p] = FALSE]
  /\ verdict' = [verdict EXCEPT ![p] = "none"]
  /\ n' = [n EXCEPT ![p] = 0]
  /\ attested' = [attested EXCEPT ![p] = None]
  /\ walked' = [walked EXCEPT ![p] = << >>]
  /\ Goto(p, IF mark THEN "count" ELSE "unmarked")
  /\ UNCHANGED <<file, admitted>>

\* Without a mark: a new file, or one from before there was a mark.
CheckLeafRule(p) ==
  /\ pc[p] = "unmarked"
  /\ IF rows = << >> THEN Goto(p, "mark") /\ UNCHANGED verdict ELSE End(p, "leaf rule")
  /\ UNCHANGED <<file, reads, history>>

PutLeafRule(p) ==
  /\ pc[p] = "mark"
  /\ mark' = TRUE
  /\ Goto(p, "count")
  /\ UNCHANGED <<rows, numbered, notes, declared, reads, verdict, history>>

\* checkLogKey: a policy that names a log is compared with what the file declares.
CheckLogKey(pol) == pol # NoPolicy => pol.log \in {None, declared}

Count(p) ==
  /\ pc[p] = "count"
  /\ n' = [n EXCEPT ![p] = Len(rows)]
  /\ IF CheckLogKey(policy[p]) THEN Goto(p, "attested") /\ UNCHANGED verdict
                               ELSE End(p, "refused")
  /\ UNCHANGED <<file, policy, full, attested, walked, history>>

\* Mutant of AttestedCheckpoint: a note of all the blocks there are is refused.
AttestedCheckpointBelow(p) ==
  LET c == LastCosignedCheckpoint
  IN  /\ pc[p] = "attested"
      /\ attested' = [attested EXCEPT ![p] = c]
      /\ IF c = None \/ (SizeOf(c) < n[p] /\ SignedByThisLog(c))
           THEN Goto(p, "walk") /\ UNCHANGED verdict
           ELSE End(p, "refused")
      /\ UNCHANGED <<file, policy, full, n, walked, history>>

AttestedCheckpoint(p) ==
  LET c == LastCosignedCheckpoint
  IN  /\ pc[p] = "attested"
      /\ attested' = [attested EXCEPT ![p] = c]
      /\ IF c = None \/ (SizeOf(c) <= n[p] /\ SignedByThisLog(c))
           THEN Goto(p, "walk") /\ UNCHANGED verdict
           ELSE End(p, "refused")
      /\ UNCHANGED <<file, policy, full, n, walked, history>>

\* attestationState: a quorum of the witnesses of the policy cosigned the note.
Verified(p) ==
  /\ attested[p] # None /\ policy[p] # NoPolicy
  /\ CheckLogKey(policy[p])
  /\ Cardinality(attested[p].cosigners \cap policy[p].witnesses) >= policy[p].quorum

\* Mutant of SignedFrom: the first block above the note is left unread too.
SignedFromTheNext(p) == IF Verified(p) /\ ~full[p] THEN SizeOf(attested[p]) + 1 ELSE 0

\* The shortcut: how many blocks keep their signatures unread.
SignedFrom(p) == IF Verified(p) /\ ~full[p] THEN SizeOf(attested[p]) ELSE 0

\* Block.Verify and VerifyLink.
BlockVerifies(r) == r.hash = r.header /\ r.sig = [by |-> SignerOf(r.header), over |-> r.hash]
VerifyLink(prev, r) == Before(r.header) = prev.hash

ExpectedSigner(p) ==
  IF policy[p] # NoPolicy /\ policy[p].signer # None THEN policy[p].signer
  ELSE SignerOf(rows[1].header)

\* The walk over the rows is one statement.
WalkPasses(p) ==
  /\ numbered
  /\ \A i \in 1..Len(rows) :
       /\ rows[i].hash = rows[i].header
       /\ SignerOf(rows[i].header) = ExpectedSigner(p)
       /\ i > SignedFrom(p) => /\ BlockVerifies(rows[i])
                               /\ i > 1 => VerifyLink(rows[i - 1], rows[i])

Walk(p) ==
  /\ pc[p] = "walk"
  /\ walked' = [walked EXCEPT ![p] = rows]
  /\ IF WalkPasses(p) THEN Goto(p, "roots") /\ UNCHANGED verdict ELSE End(p, "refused")
  /\ UNCHANGED <<file, policy, full, n, attested, history>>

\* Mutant of VerifyRootAt: a note that promises more blocks is passed over.
VerifyRootAtWhatThereIs(p, note) ==
  SizeOf(note) <= Len(walked[p]) => IsPrefix(note.tree, Leaves(walked[p]))

VerifyRootAt(p, note) == IsPrefix(note.tree, Leaves(walked[p]))

\* The last note is read again; its root and the attested one must be those of
\* the rows walked.
RootsPass(p) ==
  LastCheckpoint # None =>
    /\ SignedByThisLog(LastCheckpoint) /\ VerifyRootAt(p, LastCheckpoint)
    /\ attested[p] # None => VerifyRootAt(p, attested[p])

\* verify --full does it all again without the shortcut.
VerifyAgainstCheckpoints(p) ==
  /\ pc[p] = "roots"
  /\ \/ ~RootsPass(p) /\ End(p, "refused") /\ UNCHANGED full
     \/ RootsPass(p) /\ End(p, IF Verified(p) THEN "attested" ELSE "accepted") /\ UNCHANGED full
     \/ /\ RootsPass(p) /\ ~full[p]
        /\ full' = [full EXCEPT ![p] = TRUE]
        /\ Goto(p, "count") /\ UNCHANGED verdict
  /\ UNCHANGED <<file, policy, n, attested, walked, history>>

-----------------------------------------------------------------------------
Opens(p) ==
  \/ \E pol \in Policies : Open(p, pol)
  \/ CheckLeafRule(p) \/ PutLeafRule(p) \/ Count(p) \/ AttestedCheckpoint(p)
  \/ Walk(p) \/ VerifyAgainstCheckpoints(p)

Next ==
  \/ \E p \in Openers : Opens(p)
  \/ OpenElsewhere
  \/ \E e \in Entry : Seal(e)
  \/ \E size \in 0..Len(rows), w \in Witnesses : PutCheckpoint(size, w)

Spec == Init /\ [][Next]_vars

-----------------------------------------------------------------------------
(* Properties *)

TypeOK ==
  /\ rows \in Seq(Row) /\ Len(rows) <= MaxBlocks
  /\ notes \subseteq {note \in Note : SizeOf(note) <= MaxBlocks}
  /\ numbered \in BOOLEAN /\ admitted \in BOOLEAN
  /\ mark \in BOOLEAN /\ declared \in Logs \cup {None}
  /\ pc \in [Openers -> {"idle", "unmarked", "mark", "count", "attested", "walk", "roots"}]
  /\ policy \in [Openers -> Policies] /\ full \in [Openers -> BOOLEAN]
  /\ n \in [Openers -> Nat] /\ attested \in [Openers -> Note \cup {None}]
  /\ walked \in [Openers -> Seq(Row)]
  /\ verdict \in [Openers -> {"none", "leaf rule", "refused", "accepted", "attested"}]
  /\ promised \in [Openers -> SUBSET Nat]
  /\ sealed \in [Openers -> BOOLEAN] /\ synced \in [Openers -> BOOLEAN]

Passed(p) == verdict[p] \in {"accepted", "attested"}

\* What an opening accepts is a history somebody sealed, or the end of one, also
\* below the cosigned note, where no signature was read: each row is the one sealed
\* for its header and continues the row before, one key signed them all, and it is
\* the key the policy expects.
AcceptedIsSound ==
  \A p \in Openers : Passed(p) =>
    /\ Linked(walked[p])
    /\ (policy[p] # NoPolicy /\ policy[p].signer # None /\ walked[p] # << >>)
         => SignerOf(walked[p][1].header) = policy[p].signer

\* What an opening accepts is whole: no note that was in the file when it began
\* promises more blocks than it walked, and what it calls attested is a prefix of
\* them that a quorum of the policy cosigned.
AcceptedIsWhole ==
  \A p \in Openers : Passed(p) =>
    /\ \A size \in promised[p] : size <= Len(walked[p])
    /\ verdict[p] = "attested" =>
         /\ IsPrefix(attested[p].tree, Leaves(walked[p]))
         /\ \E Q \in SUBSET policy[p].witnesses :
              Cardinality(Q) = policy[p].quorum /\ Q \subseteq attested[p].cosigners

\* A file that no copy was mixed into and that has lost nothing.
SoundFile ==
  /\ Linked(rows) /\ FromGenesis(rows) /\ numbered
  /\ \A note \in notes : IsPrefix(note.tree, Leaves(rows)) /\ note.log = declared
  /\ declared # None
  /\ mark \/ rows = << >>

\* The policy is of this log and of the key that signs its blocks.
OwnPolicy(p) ==
  /\ CheckLogKey(policy[p])
  /\ (policy[p] # NoPolicy /\ policy[p].signer # None /\ rows # << >>)
       => SignerOf(rows[1].header) = policy[p].signer

\* A sound file is refused only if blocks were sealed and a note was kept while it
\* was being opened, and taken for one of an older leaf rule only if no block was
\* promised when that began and one was sealed since.
RefusedOnlyInARace ==
  \A p \in Openers :
    /\ (verdict[p] = "refused" /\ SoundFile /\ OwnPolicy(p)) => sealed[p] /\ synced[p]
    /\ (verdict[p] = "leaf rule" /\ SoundFile) => sealed[p] /\ promised[p] \subseteq {0}

=============================================================================
