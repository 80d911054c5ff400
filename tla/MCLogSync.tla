------------------------------ MODULE MCLogSync ------------------------------
(* Small instances of LogSync for TLC. *)
EXTENDS LogSync, TLC

CONSTANTS w1, w2, o, k, a, b, s1, s2

Symmetry == Permutations(Syncs) \cup Permutations(Witnesses) \cup Permutations(Blocks)

SmallTrees == UNION {[1..n -> Blocks] : n \in 0..MaxBlocks}

OneConfig == {[logs |-> o :> k, retired |-> o :> NoKey]}

\* What nothing reads any more is not told apart: what a command has not read yet,
\* or has no more use for (of what it found at the start, whether what it read next
\* agrees with it); a request once it was answered, and the answer once it was
\* read; by how much a record accuses; a copy that was already put back; who the
\* network answered for, when no record names that witness nor ever will; with one
\* time of day, the last timestamp and the order of the cosignatures.
Memory(p) ==
  LET covers == p \in misled \/ IsPrefix(seen[p], local[p])
  IN  CASE pc[p] = "size" -> <<witness[p], seen[p], last[p]>>
        [] pc[p] \in {"monitor", "sign", "post"} ->
             <<witness[p], local[p], covers, remote[p],
               pc[p] # "post" /\ Contradicts(last[p], local[p])>>
        [] pc[p] = "accuse" -> <<witness[p], Len(local[p]), remote[p], p \in misled>>
        [] pc[p] \in {"wait", "record", "put", "resolve", "clear", "cosignature", "attest"}
             \/ out[p] = "attested" -> <<witness[p], local[p], covers>>
        [] pc[p] = "new" -> <<witness[p]>>
        [] OTHER -> << >>
Asked(p) ==
  IF hpc[p] \in {"sent", "checked"} THEN <<hpc[p], req[p]>>
  ELSE IF pc[p] = "wait" THEN <<hpc[p], answer[p]>>
  ELSE <<answer[p].kind = "unprocessable">>
Short(record) ==
  IF record = NoRecord THEN NoRecord
  ELSE <<record.witness, record.size, record.local < record.size>>
Backup == IF restored THEN NoRecord ELSE copy
Named ==
  {witness[p] : p \in {q \in Syncs : pc[q] # "ended"}}
    \cup {record.witness : record \in {rollback, IF Backup = NoRecord THEN NoRecord
                                                 ELSE copy.rollback} \ {NoRecord}}
View == <<memory, process, [w \in Witnesses |-> ToSet(issued[w])], chain, lastSigned,
          evidence, Short(rollback), Backup, restored, pc, SpokenFor \cap Named,
          [p \in Syncs |-> <<Memory(p), Asked(p)>>]>>
=============================================================================
