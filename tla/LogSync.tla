------------------------------- MODULE LogSync -------------------------------
(***************************************************************************)
(* `nucleo sync` (cmd/nucleo/sync.go, internal/logsync, the signing log of   *)
(* internal/checkpoint): several commands over one ledger file ask several   *)
(* witnesses, over a network, for a cosignature of the tree on disk, while   *)
(* other commands seal.  The file may be put back from a copy.               *)
(*                                                                         *)
(* Composes Witness: the request of sync p is the witness's request p.  A    *)
(* command reads the file one query at a time, and each of its writes to     *)
(* log_state and checkpoints is a statement of its own.                      *)
(***************************************************************************)
EXTENDS Witness

CONSTANTS
  Log, LogKey,   \* the origin of this ledger and the key that signs for it
  MaxBlocks,     \* bound: blocks in the file at once
  MaxOpen,       \* bound: commands running at once
  MaxMisled,     \* bound: commands the network answers in a witness's place
  NoRecord

ASSUME LogAssumption == Log \in Origins /\ LogKey \in LogKeys
ASSUME BoundsAssumption ==
  /\ MaxBlocks \in Nat /\ MaxOpen \in Nat /\ MaxMisled \in Nat
  /\ \A n \in 0..MaxBlocks : [1..n -> Blocks] \subseteq Trees

Syncs == Handlers

\* The leaves a ledger file may hold.
Histories == {tree \in Seq(Blocks) : Len(tree) <= MaxBlocks}

\* A cosigned note of this log as it is kept.
Cosigned == [witness: Witnesses, tree: Histories, time: Nat]

\* The sizes anyone may name: one that no file can have stands for all larger ones.
Sizes == 0..(MaxBlocks + 1)

VARIABLES
  (* the ledger file *)
  chain,            \* table blocks: the leaves
  lastSigned,       \* log/last-signed/v1: the last tree the log signed
  checkpoints,      \* table checkpoints: a cosigned note for each size
  rollback,         \* log/rollback-detected/v1
  lastCosignature,  \* the last cosigned note
  lastAttested,     \* the last attestation: witness, size and time
  copy,             \* a copy of the file, kept elsewhere
  restored,         \* history: the file was put back from the copy
  misled,           \* history: the commands the network answered itself
  (* the commands *)
  pc, witness, last, local, remote,
  at,               \* the time in the cosignature each command obtained
  out,              \* history: how each command ended
  seen              \* history: what its witness had cosigned when it started

evidence   == <<checkpoints, lastCosignature, lastAttested>>
ledger     == <<chain, lastSigned, rollback, evidence>>
command    == <<witness, last, local, remote, at, seen>>
history    == <<copy, restored, misled>>
syncVars   == <<ledger, history, pc, command, out>>
vars       == <<witnessVars, syncVars>>

SyncInit ==
  /\ WitnessInit
  /\ chain = << >>
  /\ lastSigned = NoNote
  /\ checkpoints = [n \in 0..MaxBlocks |-> NoNote]
  /\ rollback = NoRecord
  /\ lastCosignature = NoNote
  /\ lastAttested = NoRecord
  /\ copy = NoRecord
  /\ restored = FALSE
  /\ misled = {}
  /\ pc = [p \in Syncs |-> "new"]
  /\ witness \in [Syncs -> Witnesses]
  /\ last = [p \in Syncs |-> NoNote]
  /\ local = [p \in Syncs |-> << >>]
  /\ remote = [p \in Syncs |-> 0]
  /\ at = [p \in Syncs |-> 0]
  /\ out = [p \in Syncs |-> "none"]
  /\ seen = [p \in Syncs |-> << >>]

-----------------------------------------------------------------------------
(* The file *)

\* Another command's seal: one block more (module Sealing has the detail).
Seal(block) ==
  /\ Len(chain) < MaxBlocks
  /\ chain' = Append(chain, block)
  /\ UNCHANGED <<witnessVars, lastSigned, rollback, evidence, history, pc, command, out>>

Live(p) == pc[p] \notin {"new", "ended"}

\* All that is in the file.
File == [chain |-> chain, lastSigned |-> lastSigned, checkpoints |-> checkpoints,
         rollback |-> rollback, lastCosignature |-> lastCosignature,
         lastAttested |-> lastAttested]

\* The operator copies the file, once.
Copy ==
  /\ copy = NoRecord
  /\ copy' = File
  /\ UNCHANGED <<witnessVars, ledger, restored, misled, pc, command, out>>

\* The operator puts the copy back, once, while no command has the file open.
Restore ==
  /\ ~restored /\ copy # NoRecord
  /\ \A p \in Syncs : ~Live(p)
  /\ chain' = copy.chain
  /\ lastSigned' = copy.lastSigned
  /\ checkpoints' = copy.checkpoints
  /\ rollback' = copy.rollback
  /\ lastCosignature' = copy.lastCosignature
  /\ lastAttested' = copy.lastAttested
  /\ restored' = TRUE
  /\ UNCHANGED <<witnessVars, copy, misled, pc, command, out>>

-----------------------------------------------------------------------------
(* sync *)

Goto(p, label) == pc' = [pc EXCEPT ![p] = label]
End(p, result) == Goto(p, "ended") /\ out' = [out EXCEPT ![p] = result]

EndorsedBy(w) == Endorsed(<<w, Log>>)
MemoryOf(w) == LET m == memory[<<w, Log>>] IN IF m = NoNote THEN << >> ELSE m.tree

\* NewStoreLog: the log starts from what the file says it signed last.
OpenSync(p) ==
  /\ pc[p] = "new"
  /\ Cardinality({q \in Syncs : Live(q)}) < MaxOpen
  /\ last' = [last EXCEPT ![p] = lastSigned]
  /\ seen' = [seen EXCEPT ![p] = MemoryOf(witness[p])]
  /\ Goto(p, "size")
  /\ UNCHANGED <<witnessVars, ledger, history, witness, local, remote, at, out>>

\* TreeSize and Root of that size.
ReadLocal(p) ==
  /\ pc[p] = "size"
  /\ local' = [local EXCEPT ![p] = chain]
  /\ Goto(p, "monitor")
  /\ UNCHANGED <<witnessVars, ledger, history, witness, last, remote, at, seen, out>>

\* The network or the witness fails, the deadline passes or the process dies.
GiveUp(p) ==
  /\ Live(p)
  /\ End(p, "failed")
  /\ UNCHANGED <<witnessVars, ledger, history, command>>

\* A mutant: every size the witness names is taken for an accusation.
AccuseAlways(p, size) ==
  /\ remote' = [remote EXCEPT ![p] = size]
  /\ Goto(p, "accuse")

\* RollbackError: the witness speaks of size blocks, more than there are on disk.
\* remote holds the size for the record that is written next.
Accuse(p, size) ==
  /\ size > Len(local[p])
  /\ remote' = [remote EXCEPT ![p] = size]
  /\ Goto(p, "accuse")

\* A mutant: an old note is believed to be what the witness remembers now, and
\* a witness that is level with the disk is not asked.
RemoteSizeTrusted(p, size) ==
  /\ size <= Len(local[p])
  /\ remote' = [remote EXCEPT ![p] = size]
  /\ Goto(p, IF size = Len(local[p]) /\ size > 0 THEN "attest" ELSE "sign")

\* What remoteSize learnt is only where the extension starts.
RemoteSize(p, size) ==
  /\ size <= Len(local[p])
  /\ remote' = [remote EXCEPT ![p] = size]
  /\ Goto(p, "sign")

\* remoteSize: the verified note of the monitoring prefix.  It may be cached:
\* any note the witness ever cosigned, or the answer that there is none.
AskMonitor(p) ==
  /\ pc[p] = "monitor"
  /\ \E size \in {0} \cup {Len(tree) : tree \in EndorsedBy(witness[p])} :
       RemoteSize(p, size) \/ Accuse(p, size)
  /\ UNCHANGED <<witnessVars, ledger, history, witness, last, local, at, seen, out>>

\* checkMonotonic: the tree contradicts what this process knows it signed.
Contradicts(signed, tree) ==
  /\ signed # NoNote
  /\ Len(tree) <= Len(signed)
  /\ tree # signed

\* Log.Sign: a refusal, or the note is signed and kept before it is returned.
SignCheckpoint(p) ==
  /\ pc[p] = "sign"
  /\ IF Contradicts(last[p], local[p])
     THEN End(p, "failed") /\ UNCHANGED <<lastSigned, last>>
     ELSE /\ lastSigned' = local[p]
          /\ last' = [last EXCEPT ![p] = local[p]]
          /\ Goto(p, "post") /\ UNCHANGED out
  /\ UNCHANGED <<witnessVars, chain, rollback, evidence, history,
                 witness, local, remote, at, seen>>

\* A mutant: the proof goes from the tree before the one the witness has.
ProofFromBefore(p) ==
  IF 0 < remote[p] /\ remote[p] < Len(local[p])
  THEN SubSeq(local[p], 1, remote[p] - 1) ELSE NoProof

\* ConsistencyProof, when there is an extension to prove.
Proof(p) ==
  IF 0 < remote[p] /\ remote[p] < Len(local[p])
  THEN SubSeq(local[p], 1, remote[p]) ELSE NoProof

\* Client.AddCheckpoint sends the note, the proof and the old size.
Post(p) ==
  /\ pc[p] = "post"
  /\ Send(p, [to |-> witness[p], old |-> remote[p], proof |-> Proof(p),
              note |-> [origin |-> Log, key |-> LogKey, tree |-> local[p]]])
  /\ Goto(p, "wait")
  /\ UNCHANGED <<ledger, history, command, out>>

\* The answer of the witness: a cosignature, a 409 that speaks of more blocks than
\* there are, or any other refusal.
ReadAnswer(p) ==
  /\ pc[p] = "wait" /\ hpc[p] = "answered"
  /\ \/ /\ answer[p].kind = "cosigned"
        /\ at' = [at EXCEPT ![p] = answer[p].time]
        /\ Goto(p, "record") /\ UNCHANGED <<remote, out>>
     \/ answer[p].kind = "conflict" /\ Accuse(p, answer[p].size) /\ UNCHANGED <<at, out>>
     \/ /\ answer[p].kind # "cosigned"
        /\ answer[p].kind = "conflict" => answer[p].size <= Len(local[p])
        /\ End(p, "failed") /\ UNCHANGED <<remote, at>>
  /\ UNCHANGED <<witnessVars, ledger, history, witness, last, local, seen>>

\* What the network answers in the witness's place, whatever becomes of the
\* request: a 409 of any size, which nothing signs, or a cosignature of this very
\* tree that the witness gave before.  (Any refusal it makes up is GiveUp.)
ReadFalseAnswer(p) ==
  /\ pc[p] = "wait"
  /\ Cardinality(misled) < MaxMisled
  /\ \/ \E size \in Sizes : Accuse(p, size) /\ UNCHANGED at
     \/ /\ \E i \in DOMAIN issued[witness[p]] :
             LET old == issued[witness[p]][i]
             IN  /\ old.note = [origin |-> Log, key |-> LogKey, tree |-> local[p]]
                 /\ at' = [at EXCEPT ![p] = old.time]
        /\ Goto(p, "record") /\ UNCHANGED remote
  /\ misled' = misled \cup {p}
  /\ UNCHANGED <<witnessVars, ledger, copy, restored, witness, last, local, seen, out>>

\* PutRollback: one record, whatever there was.
PutRollback(p) ==
  /\ pc[p] = "accuse"
  /\ rollback' = [witness |-> witness[p], local |-> Len(local[p]), size |-> remote[p]]
  /\ End(p, "rollback")
  /\ UNCHANGED <<witnessVars, chain, lastSigned, evidence, history, command>>

\* A mutant: the note is taken to cover what is on disk by now.
ObtainedNow(p) == [witness |-> witness[p], tree |-> chain, time |-> at[p]]

\* The cosigned note of p.
Obtained(p) == [witness |-> witness[p], tree |-> local[p], time |-> at[p]]

\* RecordCosigned: the first cosigned note of a size stays.
RecordCosigned(p) ==
  /\ pc[p] = "record"
  /\ Goto(p, IF checkpoints[Len(local[p])] = NoNote THEN "put" ELSE "resolve")
  /\ UNCHANGED <<witnessVars, ledger, history, command, out>>

\* A mutant: the last cosigned note of a size stays.
PutCheckpointReplaces(p) ==
  /\ pc[p] = "put"
  /\ checkpoints' = [checkpoints EXCEPT ![Len(local[p])] = Obtained(p)]
  /\ Goto(p, "resolve") /\ UNCHANGED out
  /\ UNCHANGED <<witnessVars, chain, lastSigned, rollback, lastCosignature, lastAttested,
                 history, command>>

\* PutCheckpoint: append-only, whoever came first since RecordCosigned looked.
PutCheckpoint(p) ==
  /\ pc[p] = "put"
  /\ LET kept == checkpoints[Len(local[p])]
     IN  IF kept \in {NoNote, Obtained(p)}
         THEN /\ checkpoints' = [checkpoints EXCEPT ![Len(local[p])] = Obtained(p)]
              /\ Goto(p, "resolve") /\ UNCHANGED out
         ELSE End(p, "failed") /\ UNCHANGED checkpoints
  /\ UNCHANGED <<witnessVars, chain, lastSigned, rollback, lastCosignature, lastAttested,
                 history, command>>

\* Rollback: does a record stand that this size covers?
ReadRollback(p) ==
  /\ pc[p] = "resolve"
  /\ Goto(p, IF rollback # NoRecord /\ Len(local[p]) >= rollback.size
             THEN "clear" ELSE "cosignature")
  /\ UNCHANGED <<witnessVars, ledger, history, command, out>>

\* ClearRollback: whatever the record says by now.
ClearRollback(p) ==
  /\ pc[p] = "clear"
  /\ rollback' = NoRecord
  /\ Goto(p, "cosignature")
  /\ UNCHANGED <<witnessVars, chain, lastSigned, evidence, history, command, out>>

PutLastCosignature(p) ==
  /\ pc[p] = "cosignature"
  /\ lastCosignature' = Obtained(p)
  /\ Goto(p, "attest")
  /\ UNCHANGED <<witnessVars, chain, lastSigned, rollback, checkpoints, lastAttested,
                 history, command, out>>

PutLastAttested(p) ==
  /\ pc[p] = "attest"
  /\ lastAttested' = [witness |-> witness[p], size |-> Len(local[p]),
                      time |-> at[p]]
  /\ End(p, "attested")
  /\ UNCHANGED <<witnessVars, chain, lastSigned, rollback, checkpoints, lastCosignature,
                 history, command>>

SyncStep(p) ==
  \/ OpenSync(p) \/ ReadLocal(p) \/ AskMonitor(p) \/ SignCheckpoint(p) \/ Post(p)
  \/ ReadAnswer(p) \/ ReadFalseAnswer(p) \/ PutRollback(p)
  \/ RecordCosigned(p) \/ PutCheckpoint(p) \/ ReadRollback(p) \/ ClearRollback(p) \/ PutLastCosignature(p) \/ PutLastAttested(p)

SyncNext ==
  \/ \E p \in Syncs : SyncStep(p) \/ GiveUp(p)
  \/ \E block \in Blocks : Seal(block)
  \/ Copy \/ Restore
  \/ WitnessStep /\ UNCHANGED syncVars

SyncSpec == SyncInit /\ [][SyncNext]_vars

-----------------------------------------------------------------------------
(* Properties *)

Steps == {"new", "size", "monitor", "sign", "post", "wait", "accuse", "record",
          "put", "resolve", "clear", "cosignature", "attest", "ended"}
RollbackRecord == [witness: Witnesses, local: 0..MaxBlocks, size: Sizes]
Attestation == [witness: Witnesses, size: 0..MaxBlocks, time: Nat]

LedgerFile == [chain: Histories, lastSigned: Histories \cup {NoNote},
               checkpoints: [0..MaxBlocks -> Cosigned \cup {NoNote}],
               rollback: RollbackRecord \cup {NoRecord},
               lastCosignature: Cosigned \cup {NoNote},
               lastAttested: Attestation \cup {NoRecord}]

SyncTypeOK ==
  /\ WitnessTypeOK
  /\ File \in LedgerFile
  /\ copy = NoRecord \/ copy \in LedgerFile
  /\ restored \in BOOLEAN /\ misled \subseteq Syncs
  /\ pc \in [Syncs -> Steps]
  /\ witness \in [Syncs -> Witnesses]
  /\ last \in [Syncs -> Histories \cup {NoNote}]
  /\ local \in [Syncs -> Histories]
  /\ remote \in [Syncs -> Sizes]
  /\ at \in [Syncs -> Nat]
  /\ out \in [Syncs -> {"none", "failed", "rollback", "attested"}]
  /\ seen \in [Syncs -> Trees]

\* Success means a cosignature of the tree as it was on disk, a prefix of all that
\* this witness remembers.  When the network did not replay the answer, that tree
\* also has all that the witness had cosigned when the command started: a file put
\* back from an old copy, or sealed apart from what was attested, never ends in
\* success, whatever old note the monitoring prefix serves and however late a
\* request arrives (logsync.go, SyncWithWitness: "No hay atajos"; sync.go says a
\* replayed answer to the POST is one, which only its old time tells).
AttestedCoversTheWitness ==
  \A p \in Syncs : out[p] = "attested" =>
    /\ p \notin misled => IsPrefix(seen[p], local[p])
    /\ local[p] \in EndorsedBy(witness[p])
    /\ IsPrefix(local[p], MemoryOf(witness[p]))

\* Every attestation kept in the file was issued, by the witness it names and at
\* the time it says, for a prefix of the blocks on disk, also after the file is
\* put back (adapter.go, RecordCosigned; sync.go, the end of cmdSync).
IssuedBy(w, tree, time) ==
  \E i \in DOMAIN issued[w] : /\ issued[w][i].note.tree = tree
                              /\ issued[w][i].time = time
EvidenceIsIssued ==
  LET kept == {checkpoints[n] : n \in 0..MaxBlocks} \cup {lastCosignature}
  IN  /\ \A n \in 0..MaxBlocks :
           checkpoints[n] # NoNote => Len(checkpoints[n].tree) = n
      /\ \A c \in kept \ {NoNote} :
           IssuedBy(c.witness, c.tree, c.time) /\ IsPrefix(c.tree, chain)
      /\ lastAttested # NoRecord =>
           /\ lastAttested.size <= Len(chain)
           /\ IssuedBy(lastAttested.witness, SubSeq(chain, 1, lastAttested.size),
                       lastAttested.time)

\* A rollback record that names a witness in whose place the network accused
\* nobody is no invention: the witness did cosign that many blocks of this log, more than the
\* command had read; and while the file was never put back it has those blocks by
\* now, so that the accusation, a race with another sync, is one that a sync of the
\* whole file settles.  A network that made up a 409 can leave a record of any size,
\* also one that no sync settles (logsync.go, the two ways of detection: the size of
\* the 409 is not authenticated).
SpokenFor == {witness[p] : p \in {q \in misled : out[q] = "rollback"}}
RollbackRecordIsTrue ==
  rollback # NoRecord =>
    /\ rollback.local < rollback.size
    /\ rollback.witness \notin SpokenFor =>
         /\ \E tree \in EndorsedBy(rollback.witness) : Len(tree) = rollback.size
         /\ ~restored => rollback.size <= Len(chain)

\* A file that was never put back is never told that its history is not an
\* extension: with late requests, old notes, lost answers and commands that
\* overlap, what it meets is a conflict, never a 422 (witness.go, checkExtension).
\* Nor is any file refused by its own lock against going back: of two syncs the
\* slower one may leave the smaller tree as the last signed (log.go, Sign), but
\* what is left is a prefix of the blocks beside it, and no command meets a last
\* signed tree that contradicts what it read.
RefusalMeansFork ==
  /\ \A p \in Syncs : answer[p].kind = "unprocessable" => restored
  /\ lastSigned # NoNote => IsPrefix(lastSigned, chain)
  /\ \A p \in Syncs : pc[p] = "sign" => ~Contradicts(last[p], local[p])

\* The cosigned note of a size is never replaced: the first one is the best proof
\* of time (adapter.go, RecordCosigned).
CheckpointsAreAppendOnly ==
  [][restored' = restored =>
       \A n \in 0..MaxBlocks :
         checkpoints[n] # NoNote => checkpoints'[n] = checkpoints[n]]_vars

=============================================================================
