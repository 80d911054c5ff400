------------------------------- MODULE Witness -------------------------------
(***************************************************************************)
(* The witness: `nucleo witness serve` (cmd/nucleo/sync.go) over            *)
(* internal/witness.  It answers POST add-checkpoint and GET <log>/checkpoint *)
(* with one goroutine per request.  What it remembers of each log is a row   *)
(* of its own SQLite file, read, checked, signed and written in one          *)
(* transaction; everything else (the configured logs, the last timestamp)    *)
(* is the memory of a process that may die at any point and start again,     *)
(* with another configuration or another time of day.                        *)
(*                                                                         *)
(* A checkpoint is a size and a Merkle root.  The root commits to the leaves *)
(* and their number, so the model takes it to BE the sequence of leaves:     *)
(* only roots that commit to their size are considered.  A consistency proof *)
(* is named by the tree it proves to be a prefix of the checkpoint's.        *)
(***************************************************************************)
EXTENDS Integers, FiniteSets, SequencesExt

CONSTANTS
  Witnesses, Origins,
  LogKeys,      \* public keys a log may sign with
  Blocks,
  Trees,        \* the histories any log may sign: sequences of blocks
  Configs,      \* the configuration files the operator may start with
  Requests,     \* the requests that reach a witness left to itself
  Handlers,     \* one for each add-checkpoint request ever sent
  Times,        \* what time.Now may answer, in seconds
  MaxLives,     \* bound: how many times each witness process starts
  NoKey, NoNote, NoProof, NoRequest

\* A note the key of a log has signed.
Note == [origin: Origins, key: LogKeys, tree: Trees]

\* ParseConfig: origin -> key, for the logs it cosigns and for the retired ones.
Config == {c \in [logs: [Origins -> LogKeys \cup {NoKey}],
                  retired: [Origins -> LogKeys \cup {NoKey}]] :
             /\ \E o \in Origins : c.logs[o] # NoKey
             /\ \A o \in Origins : NoKey \in {c.logs[o], c.retired[o]}}

\* The body of add-checkpoint: the declared old size, the proof and the note.
Request == [to: Witnesses, note: Note, old: Nat, proof: Trees \cup {NoProof}]

ASSUME TreesAssumption == Trees \subseteq Seq(Blocks)
ASSUME RequestsAssumption == Requests \subseteq Request
ASSUME ConfigsAssumption == Configs \subseteq Config
ASSUME NoValuesAssumption ==
  NoKey \notin LogKeys /\ NoNote \notin Note /\ NoProof \notin Trees
  /\ NoRequest \notin Request
ASSUME WitnessTimesAssumption == Times \subseteq Nat \ {0}
ASSUME MaxLivesAssumption == MaxLives \in Nat

VARIABLES
  memory,    \* witness_logs: the last note cosigned for each log, on disk
  lives,     \* history: how many times each witness has started
  up,        \* the witnesses that are running
  active,    \* Witness.logs: the key of each log it cosigns
  retired,   \* Witness.retired, with the key the configuration gave
  lastTime,  \* Signer.lastTime
  hpc,       \* where each request is
  req,       \* what it asks
  answer,    \* what it was answered
  issued     \* history: the cosignatures of each witness, in the order signed

process     == <<up, lives, active, retired>>
requests    == <<hpc, req, answer>>
witnessVars == <<memory, process, lastTime, requests, issued>>

Logs == Witnesses \X Origins

Answer(kind, size, time) == [kind |-> kind, size |-> size, time |-> time]
NoAnswer == Answer("none", 0, 0)

WitnessInit ==
  /\ memory = [r \in Logs |-> NoNote]
  /\ lives = [w \in Witnesses |-> 0]
  /\ up = {}
  /\ active = [r \in Logs |-> NoKey]
  /\ retired = [r \in Logs |-> NoKey]
  /\ lastTime = [w \in Witnesses |-> 0]
  /\ hpc = [h \in Handlers |-> "idle"]
  /\ req = [h \in Handlers |-> NoRequest]
  /\ answer = [h \in Handlers |-> NoAnswer]
  /\ issued = [w \in Witnesses |-> << >>]

-----------------------------------------------------------------------------
(* The process *)

\* A mutant: the key given for a retired log is validated and never used.
RetireLogAnyKey(w, c) == TRUE

\* RetireLog, for every retired log of c: what is remembered of it must be
\* signed by the key given.
RetireLog(w, c) ==
  \A o \in Origins : c.retired[o] # NoKey /\ memory[<<w, o>>] # NoNote
                       => memory[<<w, o>>].key = c.retired[o]

\* cmdWitness: start with configuration c.  A configuration that RetireLog
\* refuses ends the process before it listens and changes nothing.
StartWitness(w, c) ==
  /\ w \notin up
  /\ lives[w] < MaxLives
  /\ RetireLog(w, c)
  /\ up' = up \cup {w}
  /\ lives' = [lives EXCEPT ![w] = @ + 1]
  /\ active' = [r \in Logs |-> IF r[1] = w THEN c.logs[r[2]] ELSE active[r]]
  /\ retired' = [r \in Logs |-> IF r[1] = w THEN c.retired[r[2]] ELSE retired[r]]
  /\ lastTime' = [lastTime EXCEPT ![w] = 0]
  /\ UNCHANGED <<memory, requests, issued>>

\* A mutant: the memory is MemState, which a restart empties.
MemoryAfterStopLost(w) == [r \in Logs |-> IF r[1] = w THEN NoNote ELSE memory[r]]

\* PersistentState outlives the process.
MemoryAfterStop(w) == memory

\* The process is stopped or dies: the requests it was serving are cut off.
StopWitness(w) ==
  /\ w \in up
  /\ up' = up \ {w}
  /\ memory' = MemoryAfterStop(w)
  /\ hpc' = [h \in Handlers |-> IF hpc[h] = "checked" /\ req[h].to = w
                                THEN "lost" ELSE hpc[h]]
  /\ UNCHANGED <<lives, active, retired, lastTime, req, answer, issued>>

-----------------------------------------------------------------------------
(* add-checkpoint *)

Reply(h, a) ==
  /\ hpc' = [hpc EXCEPT ![h] = "answered"]
  /\ answer' = [answer EXCEPT ![h] = a]

\* Client.AddCheckpoint: a request goes out; nothing says when it arrives.
Send(h, q) ==
  /\ hpc[h] = "idle"
  /\ hpc' = [hpc EXCEPT ![h] = "sent"]
  /\ req' = [req EXCEPT ![h] = q]
  /\ UNCHANGED <<memory, process, lastTime, answer, issued>>

\* A mutant: a retired log that is not forgotten is cosigned.
ScreenRetiredToo(q) ==
  LET r == <<q.to, q.note.origin>>
      key == IF retired[r] # NoKey THEN retired[r] ELSE active[r]
  IN  IF key = NoKey THEN "unknown"
      ELSE IF q.note.key # key THEN "signature"
      ELSE IF q.old > Len(q.note.tree) THEN "old size"
      ELSE "ok"

\* cosign, steps 1 to 3: the log, its key, and the sizes of the request itself.
Screen(q) ==
  LET r == <<q.to, q.note.origin>>
  IN  IF retired[r] # NoKey THEN "retired"
      ELSE IF active[r] = NoKey THEN "unknown"
      ELSE IF q.note.key # active[r] THEN "signature"
      ELSE IF q.old > Len(q.note.tree) THEN "old size"
      ELSE "ok"

\* A running witness reads the request and the logs, under its mutex.
Receive(h) ==
  /\ hpc[h] = "sent"
  /\ req[h].to \in up
  /\ LET verdict == Screen(req[h])
     IN  IF verdict = "ok"
         THEN hpc' = [hpc EXCEPT ![h] = "checked"] /\ UNCHANGED answer
         ELSE Reply(h, Answer(verdict, 0, 0))
  /\ UNCHANGED <<memory, process, lastTime, req, issued>>

\* The size the witness remembers; 0 when it never cosigned.
Remembered(last) == IF last = NoNote THEN 0 ELSE Len(last.tree)

\* A mutant: an old size the client got wrong is taken as it comes.
CheckExtensionTrustsOld(last, q) ==
  IF q.old = 0 THEN IF q.proof = NoProof THEN "ok" ELSE "unprocessable"
  ELSE IF q.old = Len(q.note.tree) /\ Remembered(last) = q.old
       THEN IF q.note.tree = last.tree THEN "ok" ELSE "unprocessable"
  ELSE IF last # NoNote /\ q.proof = last.tree /\ IsPrefix(last.tree, q.note.tree)
       THEN "ok" ELSE "unprocessable"

\* The checks inside the transaction: the declared old size is the remembered
\* one; from size 0 the proof is empty; at the same size the roots are equal;
\* otherwise VerifyConsistency accepts the proof.
CheckExtension(last, q) ==
  IF q.old # Remembered(last) THEN "conflict"
  ELSE IF q.old = 0 THEN IF q.proof = NoProof THEN "ok" ELSE "unprocessable"
  ELSE IF q.old = Len(q.note.tree)
       THEN IF q.note.tree = last.tree THEN "ok" ELSE "unprocessable"
  ELSE IF q.proof = last.tree /\ IsPrefix(last.tree, q.note.tree)
       THEN "ok" ELSE "unprocessable"

\* A mutant: the 409 carries the size after the remembered one.
RefusalGuesses(verdict, last) ==
  Answer(verdict, IF verdict = "conflict" THEN Remembered(last) + 1 ELSE 0, 0)

\* The body of a 409 is the remembered size; no other refusal carries one.
Refusal(verdict, last) ==
  Answer(verdict, IF verdict = "conflict" THEN Remembered(last) ELSE 0, 0)

\* A mutant: the signer does not look at its last timestamp.
MaySignAnyTime(w, time) == TRUE

\* Signer.Sign: the clock is not behind the last timestamp of this process.
MaySign(w, time) == time >= lastTime[w]

\* The transaction is refused: nothing is signed, nothing is written.
Refuse(h) ==
  /\ hpc[h] = "checked"
  /\ LET q == req[h]
         last == memory[<<q.to, q.note.origin>>]
         verdict == CheckExtension(last, q)
     IN  \/ verdict # "ok" /\ Reply(h, Refusal(verdict, last))
         \/ /\ verdict = "ok"
            /\ \E time \in Times : ~MaySign(q.to, time)
            /\ Reply(h, Answer("clock", 0, 0))
  /\ UNCHANGED <<memory, process, lastTime, req, issued>>

\* It is signed and then the write or the commit fails: the signature is
\* dropped, its timestamp stays taken.
FailToCommit(h, time) ==
  /\ hpc[h] = "checked"
  /\ LET q == req[h]
     IN  /\ CheckExtension(memory[<<q.to, q.note.origin>>], q) = "ok"
         /\ MaySign(q.to, time)
         /\ lastTime' = [lastTime EXCEPT ![q.to] = time]
         /\ Reply(h, Answer("failed", 0, 0))
  /\ UNCHANGED <<memory, process, req, issued>>

\* State.Advance: check, sign and write in one transaction.
Advance(h, time) ==
  /\ hpc[h] = "checked"
  /\ LET q == req[h]
         w == q.to
         r == <<w, q.note.origin>>
     IN  /\ CheckExtension(memory[r], q) = "ok"
         /\ MaySign(w, time)
         /\ lastTime' = [lastTime EXCEPT ![w] = time]
         /\ memory' = [memory EXCEPT ![r] = q.note]
         /\ issued' = [issued EXCEPT ![w] =
                         Append(@, [note |-> q.note, time |-> time, life |-> lives[w]])]
         /\ Reply(h, Answer("cosigned", Len(q.note.tree), time))
  /\ UNCHANGED <<process, req>>

\* GET <origin hash>/checkpoint: the remembered note of a configured log.
Published(w, o) ==
  IF w \in up /\ (active[<<w, o>>] # NoKey \/ retired[<<w, o>>] # NoKey)
  THEN memory[<<w, o>>] ELSE NoNote

-----------------------------------------------------------------------------
WitnessStep ==
  \/ \E w \in Witnesses : StopWitness(w) \/ \E c \in Configs : StartWitness(w, c)
  \/ \E h \in Handlers : Receive(h) \/ Refuse(h)
  \/ \E h \in Handlers, time \in Times : Advance(h, time) \/ FailToCommit(h, time)

\* Left to itself a witness may be sent any request at all.
WitnessNext == WitnessStep \/ \E h \in Handlers, q \in Requests : Send(h, q)

WitnessSpec == WitnessInit /\ [][WitnessNext]_witnessVars

-----------------------------------------------------------------------------
(* Properties *)

Kinds == {"none", "retired", "unknown", "signature", "old size", "conflict",
          "unprocessable", "clock", "failed", "cosigned"}
Issue == [note: Note, time: Nat, life: Nat]

WitnessTypeOK ==
  /\ memory \in [Logs -> Note \cup {NoNote}]
  /\ lives \in [Witnesses -> Nat]
  /\ up \subseteq Witnesses
  /\ active \in [Logs -> LogKeys \cup {NoKey}]
  /\ retired \in [Logs -> LogKeys \cup {NoKey}]
  /\ lastTime \in [Witnesses -> Nat]
  /\ hpc \in [Handlers -> {"idle", "sent", "checked", "answered", "lost"}]
  /\ req \in [Handlers -> Request \cup {NoRequest}]
  /\ \A h \in Handlers : hpc[h] # "idle" => req[h] \in Request
  /\ answer \in [Handlers -> [kind: Kinds, size: Nat, time: Nat]]
  /\ issued \in [Witnesses -> Seq(Issue)]

\* The trees witness r[1] has cosigned for log r[2].
Endorsed(r) ==
  {issued[r[1]][i].note.tree :
     i \in {j \in DOMAIN issued[r[1]] : issued[r[1]][j].note.origin = r[2]}}

\* What is on disk is the last word on each log: every cosignature ever issued,
\* in this life of the process or an earlier one, is of a prefix of the
\* remembered tree, which was itself cosigned (witness.go, cosign: the check and
\* the write in one transaction).
MemoryIsNewest ==
  \A r \in Logs :
    IF memory[r] = NoNote THEN Endorsed(r) = {}
    ELSE /\ memory[r].origin = r[2]
         /\ memory[r].tree \in Endorsed(r)
         /\ \A tree \in Endorsed(r) : IsPrefix(tree, memory[r].tree)

\* What the world sees of a witness is one growing history for each log, with
\* whatever it was sent, by however many requests at once, and across restarts
\* and changes of configuration and of the log's key (ADR-011, ADR-030).
Promise == INSTANCE WitnessPromise WITH endorsed <- [r \in Logs |-> Endorsed(r)]
KeepsThePromise == Promise!Spec

\* The note a witness publishes of a retired log is signed by the key the
\* operator retired it with (witness.go, RetireLog): the key is compared once,
\* at the start, and nothing the process does afterwards may change the note.
PublishedIsOfItsKey ==
  \A w \in up, o \in Origins :
    retired[<<w, o>>] # NoKey /\ Published(w, o) # NoNote
      => Published(w, o).key = retired[<<w, o>>]

\* While a log is retired nothing moves what is remembered of it, not even a
\* request that was under way when the witness restarted (witness.go, RetireLog).
RetiredIsFrozen ==
  [][\A r \in Logs : r[1] \in up /\ r[1] \in up' /\ retired[r] # NoKey
       => memory'[r] = memory[r]]_witnessVars

\* A 409 can be acted on: the size in its body is 0 or that of a cosigned
\* checkpoint of the log, and is not the one the client declared (server.go,
\* failCosign: it lets an honest log that lost the thread build the right proof).
ConflictsCanBeFollowed ==
  \A h \in Handlers : answer[h].kind = "conflict" =>
    /\ answer[h].size # req[h].old
    /\ \/ answer[h].size = 0
       \/ \E tree \in Endorsed(<<req[h].to, req[h].note.origin>>) :
            Len(tree) = answer[h].size

\* Within one life of the process the timestamps of its cosignatures, of all its
\* logs, follow the order in which it issued them (cosignature.go, Sign).
TimestampsFollowIssue ==
  \A w \in Witnesses : \A i, j \in DOMAIN issued[w] :
    i < j /\ issued[w][i].life = issued[w][j].life
      => issued[w][i].time <= issued[w][j].time

=============================================================================
