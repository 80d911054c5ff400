# A TLA+ model of nucleo

nucleo is an append-only ledger for business documents. A command line
(`nucleo`) seals documents into a chain of signed blocks kept in one SQLite
file, erases content under a custodian's authorisation, and asks independent
witnesses to cosign the Merkle tree of the blocks. A witness is a small HTTP
server with a file of its own.

This directory holds TLA+ modules that model that program, TLC configurations
that check them on small instances, and proofs that TLAPS checks for every
value of the constants. Every definition is translated from `src/`;
`PROJECT.json` maps each one to the lines it stands for.

    tlc -workers 2 -config sealing.cfg MCSealing.tla    # one run
    tlapm SealingProofs.tla                             # one set of proofs

## 1. Inventory

### What runs

There is no daemon but the witness. Each `nucleo` command is a short-lived
operating-system process that opens the ledger file, works, and ends.
Commands overlap freely: **there is no lock between them**. A read is one SQL
statement, and only `store.AppendRecord` and the witness's `State.Advance`
are transactions that check and write. Everything a command reads outside of
them may be stale when it is used. That, together with the retry loop that
repairs it, the crash between any two steps, the network between `sync` and
the witness, and a file that an operator may put back from a copy, is where
the hard behaviour of this program lies.

| component | state | operations | behaviour that is hard | what makes it correct |
|---|---|---|---|---|
| seal and erase commands (`cmd/nucleo/seal.go`, `erase.go`, `reintento.go`, `reloj.go`, `idempotency.go`) | memory of one process: the key looked up, the last block, the duplicates, the signed block of the last attempt | seal, seal with an idempotency key, erase | reads before the transaction; attempts that leave values behind; a crash after the commit; a clock that goes back | a key seals once; an answer names a block that is written; no content is lost without authorisation; every command ends |
| store (`internal/store`) | tables blocks, blobs, vault_meta, log_state, checkpoints | AppendRecord (one transaction), single reads, single puts | a block signed outside the transaction that appends it | the chain stays linked; block, copy, commitments and idempotency record are written together |
| witness (`internal/witness`) | on disk, a row for each log; in memory, the configured logs and the last timestamp | start with a configuration, add-checkpoint, publish the remembered note, stop | one goroutine for each request; signature before the commit; restart with another configuration or clock | one growing history for each log, whatever it is sent |
| sync and logsync (`cmd/nucleo/sync.go`, `internal/logsync`) | what it read of the file; last-signed, checkpoints, rollback record, last cosignature, last attestation | read, ask, sign, post, record | late, lost and cached messages; two syncs and a seal at once; a file put back from a copy | success covers what the witness had; kept evidence was issued; a rollback record is true unless the network made it up |
| checkpoint log (`internal/checkpoint/log.go`) | the last tree signed, in memory and in the file | Bind, Sign | two processes with one durable record | never sign two trees of one size in a process |
| opening and verifying (`internal/store/integrity.go`) | none of its own: a few values read one after another | verify, verify --full, open | several statements while others write; the shortcut below a cosigned checkpoint | what is accepted is one history and whole; a sound file is refused only in a race |
| alarms (`cmd/nucleo/stale.go`, `alarma*.go`, `alert.go`) | the freshness alarm and the acknowledgements of erasures in log_state | raise, acknowledge, close | read then write, in every command | an alarm closes only when its cause is gone; no erasure is acknowledged unseen |
| vault (`internal/vault`) | the salt, the wrapped key and the identity, in rows of vault_meta | init, unlock, backup, restore with a new passphrase | each row is a statement; crash between any two; two restores at once | the rows belong together, and somebody holds cards that open them unless a restore with `--json` has not given out its own |
| Merkle tree (`internal/ledger/merkle.go`) | none | Root, InclusionProof, ConsistencyProof, verifiers | sizes that are not powers of two | exactly the right proofs are accepted |
| reconciliation (`internal/reconcile`, `internal/erasure`) | what it counted, the lines it has read | classify lines, records and erasure events | order of events and of seals of one content; seals while it reads | nothing that vanished passes for erased; no findings means intact |
| receipts, quorum, provable time (`internal/receipt`, `internal/proof`) | none | issue, verify offline | which witness counts, which time; a log put back and grown otherwise | a quorum signed what is accepted; two receipts do not contradict each other; the time is the earliest provable one |
| policy, strict JSON, canonical JSON, commitments, keys, identity | none | parsers and encodings | inputs | covered by the repository's vectors |
| SDKs for PHP and TypeScript, the web verifier, profiles, examples, deployment | none | | | compared with the Go code by the repository's vectors |

### How they interact

`seal` and `erase` write the blocks through AppendRecord. `sync` reads them,
keeps a signed note of the tree, sends it to a witness over HTTP, and keeps the
cosigned note, the last attestation and, if the witness remembers more than
there is on disk, a rollback record. The commands that judge freshness read
those and raise or close alarms. `verify` walks the file and uses the last
cosigned note as a shortcut. Receipts carry a block, an inclusion proof and a
cosigned note to whoever verifies offline.

`PROJECT.json` lists every component with its status and every hazard found
in this reading, at the line where it bites, with the properties that cover it, or the reason none does.

## 2. Modules

| module | what it is |
|---|---|
| `SealedLog` | what seal and erase promise: a log, a content table, keys that are spent once |
| `Sealing` | the seal and erase commands over one ledger file; implements `SealedLog` |
| `SealingProofs` | theorems of `Sealing` |
| `WitnessPromise` | what a witness promises, over its cosignatures only |
| `Witness` | the witness process and its file; implements `WitnessPromise` |
| `LogSync` | sync commands over the ledger file, composed with `Witness` |
| `LogSyncProofs` | theorems of `Witness`, and of its composition with `LogSync`, which use them |
| `Alarms` | the freshness alarm and every command that judges, closes or acknowledges it |
| `AlarmsProofs` | theorems of `Alarms` |
| `Vault`, `VaultProofs` | the rows of the vault through init, unlock, backup and restore; its theorems |
| `Opening`, `OpeningProofs` | opening and verifying a file, sound or mixed, while others write; its theorems |
| `Merkle`, `MerkleProofs` | roots, proofs and verifiers, and the witness's use of them; its theorems, for trees of every size |
| `Receipts`, `ReceiptsProofs` | receipts, quorums and provable time, over a log that forks |
| `Erasures`, `ErasuresProofs` | reconciliation, authorised erasures and the alarm of erasures; its theorems |
| `MC*` | small instances of each, symmetry and views |

### Sealing

`Procs` are all the commands ever launched: each is `"new"`, then runs one
command, then is `"ended"`. A caller who retries is another process. The
state of the file is `chain` (blocks), `blobs`, `commitments` and `idem`; the
rest is the memory of each process, indexed by it. `author` and `out` are
history: who wrote each block, and what each caller was told.

* **One action per read.** `SealKey`, `SealLook`, `SealLast`, `SealBuild`,
  `SealContent` are the queries of `seal` in the order of the code, and
  `EraseReadBlob`, `EraseReadMeta`, `EraseReadBlocks`, `EraseReadEvents`,
  `EraseAuthorise`, `EraseLast` those of `erase`. Between any two, any other
  process may do anything.
* **One action per transaction.** `SealCommit` and `EraseCommit` are
  `AppendRecord` as a whole, with `checkLink` (`CheckLink`), the primary key
  of the stored copy, and every table it writes. `SealAbort` and `EraseAbort`
  are its failures: a broken link or a busy file is retried, up to
  `MaxAttempts`; the other errors end the command.
* **Crash.** `Exit` ends a process at any step, also between the commit and
  the answer.
* **Hash of a block.** A hash commits to the header and, through `prev_hash`,
  to every header before it, so a signed block is modelled as the sequence of
  headers that ends in it. Comparing `prev_hash` with the last hash is
  comparing two sequences. Hashes are taken to have no collisions.
* **Time** is what `Times` offers at each step; nothing makes it advance.
* A key is *patient* when its caller launches a retry only after the earlier
  process ended. The code cannot tell; the documentation's callers differ.
  The promises that hold only for those are stated for `PatientKeys`.

### Witness

`memory` is the table `witness_logs`; it outlives the process. `active`,
`retired` and `lastTime` are fields of a process and are set anew by
`StartWitness`. A request of handler `h` is `Send`, `Receive` (the log, its
key and the sizes of the request, under the mutex) and one of `Advance`,
`Refuse`, `FailToCommit`: the transaction of `State.Advance`, which checks,
signs and writes. In `FailToCommit` the signature was made and the write
failed, so its timestamp stays taken. `StopWitness` may come at any point and
cuts off the requests under way. A request that is never received is a lost
one, and one received after others is a late one.

A Merkle root is taken to be the sequence of leaves it commits to, and a
consistency proof is named by the tree it proves to be a prefix. So
`VerifyConsistency` is prefix comparison; that the algorithm of the code decides
just that is what `Merkle` is about, and what `MerkleProofs` proves. Roots that no tree produces are left out.

### LogSync

Each sync command `p` is also the witness's request `p`: `Post(p)` is the
witness's `Send(p, ...)`, and `ReadAnswer(p)` reads `answer[p]`. The steps
follow `cmdSync`, `SyncWithWitness` and the adapter statement by statement:
open (`last` is read), tree size and root, monitoring prefix, signature and its
durable record, request, answer, `RecordCosigned` (look, then put), the
rollback record (read, then clear), the last cosignature and the last
attestation. `AskMonitor` may be answered with *any* note the witness ever
cosigned, because the monitoring prefix may be cached. `GiveUp` is a network
failure, an expired deadline or the death of the command at any step; the
request it had sent may still arrive. `Seal` is another command adding a
block, `Copy` and `Restore` are the operator keeping a copy of the file and
putting it back, which the code does not forbid and does set out to detect.

What crosses the network is authenticated only in part. A cosigned note proves who
signed it, not when: `ReadFalseAnswer` is the network answering a POST itself,
with a cosignature of this very tree that the witness gave before, or with a 409,
whose size nothing signs (`logsync.go:155`) and which may therefore be any.
Whatever it answers, the request may reach the witness or not. `MaxMisled` bounds
the commands it does this to; they are `misled`, which is history, as `seen` is.

### Alarms

The alarm is one row of `log_state`: `alarm` is `"none"`, `"open"` or
`"acked"`. Every judging command opens the ledger and keeps what it found
attested (`OpenLedger`, `Opened`), judges its age later (`Judge`, `FailOnStale`,
`Age`), reads the alarm (`ReadAlarm`) and writes it (`WriteAlarm`,
`CloseAlarm`, `AckAlarm`), in as many steps; another command fits between any
two. `Judges` are status, verify, reconcile, `alert status` and a seal that is
a repeated one; `Sealers` are seal and erase, which judge the tree with their
block by the attestation of their opening; `Syncs` judge what the witness
answered, or, if it does not answer, what they opened; `Ackers` judge nothing. A
name in those sets is a *slot*: when its command ends (`End`, `GiveUp`) the
next one may start in it, with nothing remembered.

What the witness answers is `Cosignatures`: a new signature at its own time
(`now + skew`: its clock may be ahead), or one it gave before, which is what a
replay by the network looks like. `withPolicy` is fixed in a behaviour: a
deployment passes its policy in every command or in none. With it the freshness
is that of the verified checkpoint or of the last contact (`UltimoContacto`);
without it, that of the local record. `issued` and `backed` are history.
Opening is one step here (`Opening` takes it apart), the rollback alarm is in
`LogSync` and the alarm of erasures in `Erasures`.

### Vault

The rows of `vault_meta` are `params` (a salt), `wrapped` (the data key and the
key that wraps it), `identity` and `signer`. A key of keys is the pair of a
passphrase and a salt, and a set of cards gives back the one it was made from.
Salts and data keys are random and are named after the command that drew them.

* `init` is `StatFile`, `CreateFile`, `PutParams`, `PutDEK`, `SaveIdentity`,
  `PutPublicKeys` and then `PrintCards`: a statement each. It asks whether the
  file is there *before* it asks for the passphrase.
* The commands that unlock read the parameters (`UnlockParams`) and then the
  wrapped key (`UnlockDEK`); `backup` reads the parameters a second time to
  derive what it prints (`PrintCards`); seal, erase and sync load the identity.
* `restore` checks the cards, prepares the new key (`ReadParams`,
  `PrepareRekey`), commits both rows in the one transaction of the vault
  (`CommitRekey`, `MetaChanged`), and unlocks again with the new passphrase to be
  sure. On a terminal it shows the new cards and asks for a word of them before it
  commits (`ShowCards`, `Confirm`). A restore in `Quiet` runs with `--json
  --assume-confirmed`: it does neither, and gives out its cards when all the
  rest is done (`PrintLast`, in `UnlockDEK`).
* `Die` ends any command at any step.

`founders` is history: the inits that found no file. Two of them mix their
vaults (see *Observations*), so the properties are about a file with one
founder. The identifier of the vault, written between the parameters and the
wrapped key, never changes and is left out.

### Opening

Five statements: the mark of the leaf rule (`Open`, `CheckLeafRule`,
`PutLeafRule`), the number of blocks (`Count`), the largest note that has the
form of a cosigned one (`AttestedCheckpoint`), the walk over the rows (`Walk`),
and the last note with the roots (`VerifyAgainstCheckpoints`); `verify --full`
does all but the first again without the shortcut. `Seal` and `PutCheckpoint` are
other commands. They open the file first, by the same checks (`OpenElsewhere`,
`Openable`), and are `admitted` to whatever passes them, sound or not.

`Files` is what may be found on disk, and it may be anything of the right form:
rows of two histories, rows whose first blocks are missing, a column of another row,
notes of another history or log, cosignatures that are only form. A row keeps
`header`, `hash` and `sig` apart, because the shortcut reads some and not the others.
The column `idx` is kept as one value, `numbered`: whether it counts the rows from
0, which is all the walk asks of it; it never compares it with the index in a
header. What a witness cosigned are rows that were sealed so, each continuing
the one before, from whatever block on (`Genuine`): the sync that asked for the
cosignature had opened the file, and no more than that was checked.
`admitted`, `promised`, `sealed` and `synced` are history.

### Merkle

Here hashes are terms, so nothing is assumed of roots and proofs. `Root`,
`ProofPath` and `ConsistencyPath` are the recursive functions of `merkle.go`. The
verifiers climb one node of a proof after another (`Climb`, `Climbed`). The code's
two counters `fn` and `sn` are a `Position`, shifting both is `Parents`, and its
inner loops over the low bits are `SkipOnes` and `SkipZeros`. Around them the log grows, is put
back and grows otherwise, and a witness keeps a size and a root and replaces
them when `VerifyConsistency` says so. Proofs are made from the log's tree and
from the one the witness knows, for any leaf or size, and spoilt by leaving out,
adding, replacing or moving nodes.

### Receipts

A verifier has a policy and no file. `Present` is a receipt put together from any
block, any position and any cosigned tree, with the checks of `Receipt.verify` that
need no note (`VerifyBlock`); `ReadLine` reads one line of signature after
another, in any order and number, and `Accept` is the verdict. The issuer's side
is `Issue`, an operator because its reads are of rows that do not change. It
assembles the receipt of a block from a note the file keeps, which has the line of the
log and that of the one witness it came from (`Assembled`, `LinesOf`), and then, as
`Sign` does, verifies the block and the note under the policy of the issuer
(`VerifyNote`); if either fails, there is no receipt.
Around it the file grows, also by rows that were not sealed by the program, is
put back, and is cosigned by each witness as `WitnessPromise` says, at any time: the
clock of a witness may go back when it restarts.

### Erasures

`rows` are records and events of erasure; an event carries an authorisation or
something else. `Authorization` has the key that signed, the content and the last
block covered. `reconcile` counts and reads the blocks (`Count`), compares the
export line by line (`ReadLine`) and classifies what is missing at the end
(`Finish`). A line that shows an event's own payload at the index of that event would
match it in the code; `Lines` has only contents of records, and any line at such an
index is a discrepancy. `alert status` and `alert ack` are `Commands`: the list of events
(`BlocksOfType`), the acknowledgement of each (`State`), what is written for each
that was open (`PutState`), and, for ack, all of it again. What was sealed
meanwhile and where the command dies is free. The two halves share the rows and
run one after the other in the instance, since neither reads what the other writes.

## 3. Runs

| run | instance | question |
|---|---|---|
| `sealing` | 3 commands, 2 tenants, 1 content, 2 keys, 4 kinds of seal, 1 second, 2 attempts | is what is written and what is answered right under every interleaving, and is `SealedLog` implemented |
| `sealing_clock` | 2 commands, 2 times in any order, the 5 attempts of the code, fairness | time order, which errors a race may show, and that every command ends |
| `sealing_duplicate` | 2 commands with one key | **violated**: `KeysSealOnce` |
| `sealing_phantom` | 2 commands with one key | **violated**: `SealedIsWritten` |
| `witness` | 1 witness, 2 logs, 2 keys, trees of at most 2 blocks, 3 requests out of 14, 4 configurations, 2 lives, 2 times | one history for each log; usable conflicts; frozen retired logs; `WitnessPromise` implemented |
| `sync` | 2 commands, one of them perhaps answered by the network, 2 witnesses, at most 2 blocks of 2 kinds, one copy put back once | what success, the kept evidence and the rollback record say |
| `alarms` | a judge and one other command at a time, at most 1 block, 3 instants, 2 cosignatures, with and without policy, fairness | what may close the alarm; that in the end it stands if and only if the log is stale |
| `vault` | 1 init, 2 restores, one of them with `--json`, 1 slot for unlocking commands, 2 passphrases | do the rows belong together after any crash, who can always open, and is what the commands say true |
| `opening` | every file of up to 2 rows and 2 notes mixed from 2 histories, also without the first block or with other numbers, 3 policies, 1 opening next to the seals and syncs of a command that could open it | is what is accepted one history, as long as was promised, and when is a sound file refused |
| `merkle` | logs of up to 6 leaves of 2 kinds, next to every tree a witness may remember | is exactly the right proof accepted |
| `receipts` | 2 blocks of 5 kinds, 2 witnesses, 2 cosignatures, 4 policies | who has signed what is accepted, what two receipts may say of one index, and which covered blocks get a receipt |
| `erasures` | 3 blocks of 2 contents with 10 kinds of event, exports of 2 lines, 1 status, 1 ack | what is reported erased or intact, and what is acknowledged |

### What the passing runs show

*Sealing.* The chain has no gap and its times never go back, although blocks
are signed outside the transaction (`ChainIsLinked`). A patient key seals once,
through crashes after the commit, lost answers and retries. The idempotency record exists exactly
when a block was sealed under the key, and is true of it. A seal that reuses a
stored copy never commits after an erase took that copy away
(`ContentOrErasure`): the copy is looked up outside the transaction, but an
erase also appends a block, so the seal's link breaks. For the same reason
the list of duplicates that a written seal reports is complete
(`DuplicatesAreNamed`). A lost race never shows as one of the errors that a
retry would not fix (`RacesAreRetriable`). Together with the two violations and the first
observation these say exactly how far the chain link, which was not designed as
a lock, works as one: it protects everything that is read *after* the last
block, and nothing that is read before it.

*Witness.* What is on disk is the last word on each log through concurrent
requests, failed commits and restarts (`MemoryIsNewest`), so the witness
implements `WitnessPromise`. A 409 carries a size an honest log can continue
from. No request changes a retired log, not even one that was under way when
the witness restarted.

*Sync.* A success covers everything its witness had cosigned when the command
started (`AttestedCoversTheWitness`), with cached notes, late requests and
overlapping commands: a file put back from an old copy never ends in success,
unless the network replays the cosignature of that old copy, which is still a prefix
of what the witness remembers and carries its old time.
Every cosigned note, the last cosignature and the last attestation in the file
were issued for a prefix of what is on disk. A rollback record that names a
witness in whose place the network accused nobody is true of it
(`RollbackRecordIsTrue`); a network that makes up a 409 can have one written of
any size. A file that was never put back is never refused as a fork (422): the
most it meets is a conflict. Nor is any file refused by its own lock against
going back, although two syncs overwrite it without comparing
(`RefusalMeansFork`).

*Alarms.* Whatever closes an alarm had judged, at an instant of its run, a
cosignature of this log within the threshold (`ClosedByContact`): a replayed
old answer, an ack or a late judgement never does. The one exception is a
command that opened a ledger without blocks, for which nothing is stale: if
another command seals and raises an alarm before it ends, it closes that alarm.
Both directions of the alarm hold in the end: a log that stays stale ends with
an alarm, and one that stays attested ends without. In between neither does,
because of the two statements, so both are liveness properties: an old judgement
may overwrite a newer one, also an acknowledgement, and the next command that
judges repairs the alarm but not the acknowledgement. Writing `FreshIsCalm`
showed what fresh has to mean: under a policy the last contact counts only if
it covers exactly the tree on disk. When a block is sealed after a quiet period in which
sync ran regularly, freshness falls back to the *first* cosignature of the
last attested size, and a log whose last contact is minutes old looks stale
until the next sync. `docs/CLI-JSON.md:205` asks that the contact cover the
current tree, so this is as documented.

*Vault.* Wherever init or restore dies, the wrapped key opens with the salt
that is stored next to it, the data key is the one it has always been, and the
identity is closed with it (`WholeVault`). Once init printed its cards, somebody holds cards
of the key that opens the vault at every instant, but for one case
(`NobodyIsLockedOut`): a restore on a terminal shows the new cards before it writes the
new key, and one with `--json` after, so that until then, or for ever if it dies, only the
passphrase its caller chose opens the vault. Of two restores
from the same cards one commits (`OnlyHoldersRekey`). A wrong passphrase, cards
that do not fit and cards that do are what the command says they are, until a
restore commits meanwhile (`AnswersAreTrue`).

*Opening.* Whatever copies a file was put together from, what an opening accepts
is a history one key sealed, or the end of one, also the rows below a verified note,
whose signatures and links were not read (`AcceptedIsSound`): the root of the note
fixes hashes and signatures, the walk compares every hash with its header, and a
header holds the hash before it. It has every block the notes in the file
promised when the opening began (`AcceptedIsWhole`). `RefusedOnlyInARace` says
how a sound file can be refused (see *Observations*): only if a block *and* a note
were added meanwhile, never by one of the two. A file without a mark is taken for
one of an older rule only if it was empty and a block was sealed meanwhile; it may
have a note of its empty tree, which a sync keeps of a log without blocks.

*Merkle.* For every log of up to six leaves, every index and every pair of sizes,
a proof is accepted exactly if it is the one the log makes of a leaf in its
place, or of a tree the new one extends (`InclusionDecides`, `ConsistencyDecides`).
Six leaves are an odd last leaf on the first level (3, 5), on the second (6), and
a split at 2 and at 4. `MerkleProofs` proves both for every size. Together with a
witness that only moves when a proof is accepted, this is what lets the other
modules take a root for its leaves.

*Receipts.* A receipt is accepted only if as many different keys as the policy
asks for cosigned the tree of its block, whatever the lines, and the time it
shows is that of the earliest good cosignature it carries (`AcceptedIsAttested`).
If any two quorums of the policy meet, no log, however often it was put back,
gets two different blocks of one index accepted (`OneBlockPerIndex`); with
quorums that need not meet it does. A block that a kept note covers gets its receipt,
although blocks are sealed between the reads, under exactly the policies that ask for
one witness and know, by its own name and key, the one whose note was kept
(`CoveredIsIssued`): under any other `Sign` refuses, also if a witness the policy
does know has cosigned that tree.

*Erasures.* Whoever holds the key of the tenant, and even events it seals by
itself, passes nothing for erased that the custody of the erasure key did not
sign away for that very block: an authorisation is not good for a copy sealed
after it (`ErasedIsAuthorised`). A report without findings is given exactly when
the live system is intact but for that (`CleanMeansIntact`). When a command says
that no erasure is open, an ack has shown each one sealed before it began
(`NoneOpenIsTrue`).

### What the violations show

1. **A key is not exclusive** (`sealing_duplicate`). Each attempt looks the key
   up before it reads the last block, and the transaction does not compare.
   A competitor that commits between the two reads becomes the predecessor,
   the link holds, and a second block is sealed under the key.
   `reintento.go:29` says two retries with one key do not duplicate.
2. **A block that was never written is reported as sealed**
   (`sealing_phantom`). The first attempt leaves its block in `b`; if it loses
   the race to a command with the same key, the second attempt answers
   "idempotent" and `cmdSeal` then also reports `b`.

### Observations

Behaviour of the code that was met while modelling and that no passing run calls an
error. It is written down here, in the terms of the modules, for whoever
maintains the program.

1. **A copy sealed after the authorisation is erased with it.** `erase` checks
   that the authorisation covers the last block of the content before the typed
   confirmation (`erase.go:162`); the attempts of the retry loop do not read the
   blocks again, and delete whatever copy is stored (`erase.go:223`). The event says
   up to which block the erasure was authorised, and `Erasures` shows that
   reconciliation does not count the later block as erased.
2. **The timestamp of a witness goes back across a restart.** The last timestamp
   is a field of the process (`cosignature.go:123`), and a restart begins with
   none. Within a life it never does (`TimestampsFollowIssue`).
3. **A rollback is recorded of a file nobody touched.** The local size is read
   before the witness is asked (`logsync.go:131`); a seal and another sync fit in
   between, and then the witness has more than was read. Such a record is true,
   and a sync of the whole file settles it. The network can also make one up: the size
   of a 409 is not authenticated, as the comment at `logsync.go:155` says, and that
   record may name any size, in the name of a witness that never said so, and stay
   until the file has as many blocks. `RollbackRecordIsTrue` holds of the witnesses in whose
   place it accused nobody.
4. **One witness clears the alarm another raised.** Clearing compares the size of
   the synced tree with the recorded one (`sync.go:182`) and not the witness that
   had it; a file that was put back, sealed apart to that length and synced with
   another witness passes.
5. **An alarm that is over returns, acknowledged.** `alert ack` writes back the
   record it read (`alert.go:129`). If a sync attested the log and closed the alarm in
   between, the old record stands again, and should the log grow old before a
   command finds it fresh, nobody is alerted of the new episode. ADR-028 has each
   episode open a new alarm.
6. **A sound file may look truncated.** The count, the cosigned note and the last
   note are read by separate statements: if a block is sealed and its note kept
   between the count and the note, the note has more blocks than were counted
   (`integrity.go:739`) and the command ends with an integrity error.
   `RefusedOnlyInARace` bounds it.
7. **Backup may print cards that open nothing.** It checks the passphrase and then
   reads the parameters again to derive the key (`backup.go:37`); if a restore commits in
   between, the cards are of the typed passphrase under the new salt.
   `AnswersAreTrue` holds as long as no restore commits.
8. **Two inits mix their vaults.** Whether the file exists is asked before the
   passphrase (`init.go:52`), so two inits may both go on and write their rows
   over each other's. `OneFounder` sets this apart.
9. **Only the first cosigned note of a size is kept**, with the cosignature of its
   one witness. No receipt is therefore issued from the file under a policy that asks
   for two witnesses, nor under one that knows only a witness that cosigned that tree
   later; a receipt put together from two notes satisfies both.
10. **The first row need not be a genesis, and no note changes that.** The walk compares
    the column `idx` with the place of a row (`integrity.go:577`) and each header with the
    one before, never the first header with index 0. A file without its first blocks,
    with that column counted again and no older note in it, opens; a witness new to the
    log cosigns its root, and the next opening with that witness in its policy says
    attested. `AcceptedIsSound` therefore says of what is accepted that it is a history
    or the end of one. The next seal on such a file writes the index of its header
    into `idx` (`record.go:143`), which leaves a gap, and from then on no command opens
    the file.
11. **The last signed tree goes back.** Of two overlapping syncs the slower leaves
    the smaller tree in the file (`log.go:150`), which `schema.go:32` says advances.
    It stays a prefix of the blocks, so no later command is refused for it, and what
    a process signs it signs in order.
12. **Two acks at once** write the same acknowledgements; the name in
    `acked_by` is that of the later.
13. **`restore --json` gives out the new cards last**, after the commit and the check of what was
    written (`backup.go:214`). If the process dies before that, the old cards open
    nothing and no new ones exist: only the new passphrase opens the vault, and `nucleo
    backup` with it makes cards again. ADR-029:94 documents this. `NobodyIsLockedOut`
    shows that there is no other way to it.

### Bounds, and why they are enough

* `Procs`: a race needs a victim and a competitor; the third process is the
  one whose effect the other two disagree on (a seal between two steps of
  an erase that itself races a seal; a retry after a crash next to a
  competitor). `MaxAttempts` is 2 in `sealing`, where the question is what a
  second attempt does with what the first left behind, and 5, as in the code,
  in `sealing_clock`, where the question is whether attempts end.
* `Times`: one second in `sealing`, so that time order is not what stops a
  race; two in any order in `sealing_clock`.
* Trees of at most two blocks have every case of `checkExtension`: from
  nothing, the same size with equal and different roots, an extension, a fork
  at the first block and one that is longer. Each request of `SmallRequests` is
  one of its branches or of `Screen`'s. Two lives are a restart.
* `MaxBlocks`: two, so that a tree may have an intermediate size that
  another command attests. `MaxOpen` bounds the commands open at once: two in
  `sync`.
* In `sync` the witness has one configuration, one life and one time: what
  restarts and clocks do to it is the subject of `witness`. It may stop. The network
  answers one command at most (`MaxMisled`): one made-up record, or one replayed
  cosignature, next to a command that is answered by its witness.
* In `alarms` the threshold is 1 of 3 instants, so that a cosignature is fresh,
  then at the threshold, then old; the threshold for replays is 0, the smaller
  one. One block and two cosignatures distinguish a first contact from a last
  one and a replay from both. `MaxOpen` is one besides the judge, which is in
  addition to it: the properties are about a judgement next to any other
  command.
* `vault`: two restores race for one vault next to any number of commands that
  unlock, one at a time, which is what a slot is. One of the two is run with `--json`,
  so that each order of cards and commit meets the other. Two inits, or a second slot, were
  checked apart with one restore; together they exceed what is worth a run, and
  the proofs have no such bound. Two passphrases are a right and a wrong one.
* `opening`: two rows have a first row, a link, and a note that covers none, one or
  both; the third block is the one sealed meanwhile. One opening: openings
  disturb each other only through the mark. `SmallRows` has each column of a row
  taken from another one. A second block alone, and a note of it alone, are a file that has lost
  its first.
* `merkle`: as said above. `receipts`: two blocks are an index on which two
  histories differ and one after it; two witnesses make quorums that meet (2 of 2) and
  that do not (1 of 2); another policy names one witness alone, under the name of the
  other, and another names one key twice.
* `erasures`: a record, an event and a second copy after it; the authorisations
  cover each block, the other content, or are of another key. Two lines are a record
  twice, or two records, in either order.

`SYMMETRY` is used for processes, requests, witnesses and blocks, which no
property tells apart, and never in the run with a liveness property. `VIEW`
drops memory that no later step and no property reads; each view says what, in
`MC*.tla`.

### Deadlock and fairness

`CHECK_DEADLOCK FALSE` in the runs whose commands end and no other need come, so
that the program may stop; in `vault`, also because an init that died before it
wrote the vault leaves a file nobody opens. `opening`, `merkle`, `receipts` and
`erasures` check for deadlock: their slots may always start again. That a command
does not get *stuck* is `CommandsEnd`, under `FairSpec`: weak fairness of the steps of each live command, because the
operating system schedules every process. `Start` and `Exit` are not fair:
nobody has to launch a command, and no crash is forced. `CommandsEnd` also
rests on the bounded attempts. The witness and sync runs check safety only:
the code does not promise that the network answers. So do the runs of the other
modules, whose commands read a fixed number of things and wait for nobody. In `alarms` only the
judging commands are fair: a deployment runs status from cron, or an
integration that seals and repeats seals. `StartJudge` is weakly fair because a
cron entry runs again; the steps after it are strongly fair because a command
may be killed at any point (`GiveUp`) but is not always killed at the same one.
Nothing is assumed of sync, ack, seal or the clock.

## 4. Proofs

TLAPS proves these for every value of the constants: any number of processes,
tenants, keys, witnesses, logs, blocks, times, restarts.

| module | theorem | property |
|---|---|---|
| `SealingProofs` | `TypeCorrect` | |
| | `ChainStaysLinked` | `ChainIsLinked` |
| | `PatientKeysNeverDuplicate` | `PatientKeysSealOnce` |
| | `RecordsStayTrue` | `IdempotencyRecordIsTrue` |
| | `ContentStaysOrIsErased` | `ContentOrErasure` |
| | `DuplicatesStayNamed` | `DuplicatesAreNamed` |
| | `AnswersStayWritten` | `AnsweredIsWritten` |
| | `RepeatedKeysStayTrue` | `IdempotentAnswerIsTrue` |
| | `RacesStayRetriable` | `RacesAreRetriable` |
| | `SealedLogIsKept` | `ImplementsSealedLog`, the refinement of `SealedLog` |
| `LogSyncProofs`, of `Witness` | `WitnessTypeCorrect` | |
| | `MemoryStaysNewest` | `MemoryIsNewest` |
| | `PromiseIsKept` | `KeepsThePromise`, the refinement of `WitnessPromise` |
| | `RetiredAsPublished` | `PublishedIsOfItsKey` |
| | `RetiredStaysFrozen` | `RetiredIsFrozen` (an action property) |
| | `TimestampsKeepFollowing` | `TimestampsFollowIssue` |
| | `ConflictsStayFollowable` | `ConflictsCanBeFollowed` |
| `LogSyncProofs`, of `LogSync` | `SyncTypeCorrect` | |
| | `AttestedStaysCovering` | `AttestedCoversTheWitness` |
| | `EvidenceStaysIssued` | `EvidenceIsIssued` |
| | `RollbackRecordStaysTrue` | `RollbackRecordIsTrue` |
| | `RefusalsMeanForks` | `RefusalMeansFork` |
| | `CheckpointsStayAppendOnly` | `CheckpointsAreAppendOnly` (an action property) |
| `AlarmsProofs` | `AlarmsTypeCorrect` | |
| | `AlarmClosesByContact` | `ClosedByContact` (an action property) |
| `VaultProofs` | `VaultTypeCorrect` | |
| | `VaultStaysWhole` | `WholeVault` |
| | `NobodyIsEverLockedOut` | `NobodyIsLockedOut` |
| | `AnswersStayTrue` | `AnswersAreTrue` |
| | `OnlyHoldersEverRekey` | `OnlyHoldersRekey` (an action property) |
| `OpeningProofs` | `OpeningTypeCorrect` | |
| | `OpeningIsSound` | `AcceptedIsSound` |
| | `OpeningIsWhole` | `AcceptedIsWhole` |
| | `SoundIsRefusedOnlyInARace` | `RefusedOnlyInARace` |
| | `SoundFilesStaySound` | |
| `ReceiptsProofs` | `ReceiptsTypeCorrect` | |
| | `ReceiptsAreAttested` | `AcceptedIsAttested` |
| | `OneIndexOneBlock` | `OneBlockPerIndex` |
| | `CoveredStaysIssued` | `CoveredIsIssued` |
| `ErasuresProofs` | `ErasuresTypeCorrect` | |
| | `NoneIsAcknowledgedUnseen` | `NoneOpenIsTrue` |
| | `ErasedStaysAuthorised` | `ErasedIsAuthorised` |
| | `CleanStaysIntact` | `CleanMeansIntact` |
| `MerkleProofs` | `VerifyInclusionDecides` | the verifier, for any tree and any proof |
| | `VerifyConsistencyDecides` | the same, for any two trees |
| | `AcceptedInclusionIsTrue` | `InclusionDecides` |
| | `AcceptedConsistencyIsTrue` | `ConsistencyDecides` |
| | `SeenIsExtended` | the witness's tree is only ever extended (an action property) |

Where a row names no property the theorem is not a run's, like the type invariants:
the proof says more than a small instance would.

**Assumptions.** Only the named `ASSUME`s of the modules, which TLC evaluates
in every run: what is a request, a configuration, a row, a line of an export;
that the values that stand for "none" are not values; that times and bounds are
numbers and `MaxAttempts` is positive; in `Opening`, that a file has at most
`MaxBlocks` rows and promises no more, that an empty one is numbered, and that what a
witness cosigned before were rows that an opening let pass, linked from whatever block on; there and in
`Receipts`, that a policy names finitely many witnesses; in `Receipts`, that each
key signs under one name; in `LogSync`, that the log is one the witness may be configured for and that
`Trees` has all of its histories.

**Sealing.** None of the properties is inductive: `ChainIsLinked` says nothing
of a block that was signed and not yet written. `KeyInv`, with `TypeOK`, strengthens them with
what each process remembers (`Memory`: what it read is a linked history and its
signed block continues it), with what each author of a block was asked
(`Written`), and, for patient keys, with who may still write (`KeysHeld`: a
process of a patient key that has looked and found nothing is the only one of
its key, and no block of the key exists). Lemmas for each action say that it
keeps the types and its own process's memory; `StepWritten` and `StepKeys` do
the rest. The appended block is linked because `CheckLink`
compares its whole history with the chain inside the transaction.

`RaceInv` adds what makes stale reads harmless. `Reads`: as long as the chain is
still the `prev` that a command read, the copy it means to reuse or to store and
the duplicates it listed are as it saw them; once another transaction has moved the
chain on, it is longer than `prev` for ever, and the command can only abort.
`Words`: a command about to report wrote its block, and one that looks its patient
key up a second time still holds it, so it cannot report a block that was never
written, which is what an impatient caller can see (finding of
`sealing_phantom`). `AnswerIsTrue` then says of everything that callers were told what
the properties ask, and it lasts because blocks stay where they are.
`SealedLogIsKept` maps each transaction to a `Put` or a `Suppress` from the same
invariant.

**Witness.** `MemoryIsNewest` is inductive over `WitnessTypeOK`: `Advance` is
the only step that signs, and it writes what it signed in the same step, after
checking that it continues what is remembered; prefix is transitive.
`PromiseIsKept` maps each step to an `Endorse` or a stutter from that
invariant. `RetiredInv` adds that a log is never active and retired at once,
`TimesInv` that `lastTime` bounds the timestamps of this life and `lives` the
life of every cosignature, `ConflictInv` that the size in a 409 was cosigned by
the time it was sent.

**LogSync.** The lemmas of the witness speak of a witness that is sent any
request (`AnyNext`), so they hold of the one inside the composition once
`PostIsRequest` shows that what a command posts is a request. `SyncInv` adds to
their invariants what ties the two files together: a cosigned tree was in the
file, and still is unless an older copy was put back (`GivenInv`); what the file keeps
is true beside its own blocks (`IsTrue`), and so is what its copy keeps, which is
why a restore changes nothing; a command asks for what it read, and a
cosignature its witness gives it continues what it had seen (`Asked`); the sizes it
accuses by were cosigned, unless the network accused in the witness's place
(`Knows`). A replayed cosignature is one the witness issued for the tree that was read, so what
is kept of it is as true as that of any other. `RefusalMeansFork` then rests on
`NothingContradicts`: two prefixes of one chain agree.

**Alarms.** `ClosedByContact` speaks of the step that closes, whose judgement
was made steps before. `AlarmInv` carries it: `Grounded` says that a command
between its judgement and its write that found no staleness was backed when it
judged, and `Sourced` that the attestation a command judges by was issued by
the witness, which is what makes an attestation that is not old a cosignature
within the threshold (`VerdictIsGrounded`). No command disturbs the memory of
another (`OneCommandMoves`), and no cosignature is unissued, so each action is
checked for its own command only.

**Vault.** `VaultInv` follows a founder through its statements (`Made`), says
that the rows present belong together at each of them (`Whole`), and of every
command that what it read is what is there until another restore commits
(`Current`). The cards part is why the order matters. A key is `Held` if it is
among the cards or is that of a restore with `--json` that has not printed its own. The
key a restore is to write is held from the step that prepares or shows it on, and a
held key stays held (`HeldStays`), because printing is what ends the second case
(`PrintLast`); so the commit cannot lose the last cards in any other way. `Makers`, the founders past the creation of the file, take
the place of `founders` in the induction, because an init that dies before that
never founded anything.

**Opening.** `OpeningInv` keeps, for each opening, that what it read was in the file
and that notes are never taken out of it (`CommandInv`), that a file some other
command was admitted to has linked rows and notes of no more (`AdmittedInv`), which
`OpenElsewhere` establishes from its own checks and every seal keeps, and hence that
every note with a witness's cosignature is of linked rows. The heart is `WalkShowsAHistory`:
rows whose hashes are those of their headers, that begin with the leaves of such
a note and verify above it, are the rows that were sealed. `RootsCover` has the
last note before the walked rows, and the last note is the largest
(`LargestIsThere`), so it covers what every note promised.

`RaceInv` is the other half, of sound files. Whether a file is sound never changes
(`SoundFilesStaySound`): a command that marks a file long after it looked marks
one that is marked or still empty (`MarkInv`). So a number of rows that was counted is
still theirs unless a block was sealed, no note promises more than it unless a
note of more was kept too, and the rows walked begin the rows there are. Each of
the reads can then refuse only after both halves of the race (`SealRaces`,
`PutRaces`), or because the policy is of another log or key, which no later step
changes (`OwnPolicyStays`).

**Receipts.** `LogInv` says of the file that its notes are of prefixes of its
rows and that the trees one key cosigned continue each other;
`VerifierInv` says of the reader that every name it counted comes with a
cosignature of that tree by that key. Distinct names are distinct keys
(`QuorumOfKeys`), so a count is a quorum, and two quorums that must overlap share
a witness (`QuorumsAgree`), whose one history fixes the block of an index. Of the issuer,
`CoveredIsProved` says that what it assembles for a covered block of sound rows passes every
check that needs no note, and `OneLineCounts` that of the lines of a kept note at most one counts, for
the witness the policy knows by that name and key.

**Erasures.** `AlertInv` says that each event a command has to know of is still
unread, open or acknowledged, and that what is acknowledged was shown.
`ReadSoFar` says what the report means after each line; `Finish` then adds what
is missing, by `CoveredIsAuthorised` and its converse.

**Merkle.** A proof is accepted by an algorithm that sees two numbers and a list of
hashes, and that has to agree with a recursive definition over trees. Three things
make this provable for every size.

* *Induction and recursion.* `Induction` is stated for sets of numbers: a set that has
  each number whose predecessors it has is that of all numbers (the least number
  outside it would be in it). `RecursionExists` says that a definition whose value
  depends on values of a smaller measure (`Recursive`) has a solution; from it come
  `RootIs`, `ProofPathIs`, `ConsistencyPathIs`, `SkipOnesIs` and `SkipZerosIs`, which
  say that each recursive function satisfies its equation. `TreeInduction` is
  induction on the size of a tree.
* *Hashes.* `Hash` is the set of all terms (`HashIs` shows that there is one), and a
  term can be read in one way (`HashesDiffer`), so trees of one size with one root are
  one tree (`RootDecides`).
* *A climb in a subtree is a climb in the tree.* A tree of `n` leaves has a full tree
  on its left. A climb that starts in it and the same climb in that subtree alone stay
  at the same index while the levels above differ only in how many hashes there are
  (`Under`), up to the top of the subtree; there the next node is the right sibling
  (`UnderStep`). A climb that starts on the right is, in the right subtree alone, as
  many hashes further left as the left subtree has on that level (`Beside`), and the
  node after its top is the left sibling (`BesideStep`). The shifts past equal bits
  keep both relations (`SkipOnesUnder`, `SkipOnesBeside`, `SkipZerosBeside`,
  `SkipZerosFromPower`). So what a verifier accepts for a tree is the proof it
  accepts for a half, and the root of the other half (`InclusionOfMore`,
  `ConsistencyOnLeft`, `ConsistencyOnRight`).

`LeavesOutRootOfAll` is the case the code treats apart: the old root is missing from
the proof exactly if the old size is a power of two, which is when the first
shifts end at index 0 (`SkipOnesToFirst`). `VerifyConsistencyDecides` then holds of
any proof made of hashes, and `SeenIsExtended` of the witness that relies on it.

**Model-checked only.** Liveness (`CommandsEnd`, `StaleIsAlarmed`, `FreshIsCalm`) under
fairness and anything with ENABLED are beyond the prover and stay with TLC, and so do
the two properties that are violated. `MerkleProofs` does its induction with the lemmas
above, since the induction theorems of the library take an operator as a parameter,
which none of the provers can instantiate.

## 5. What is not modelled

Cryptography and encodings are taken to be injective, and ciphers to be
authenticated. Parsing, flags, messages, permissions and limits on inputs are
left out. In the witness, a second signature line and the limit on the size of a
body are data. In receipts the text, the recipient and the issuer's signature
over both are left out: they bind a receipt to a reader, and no other part
depends on them. In the vault the encryption of contents is left out; whether a
stored copy is there is in `Sealing`. A file SQLite itself cannot read is not
a state of `Opening`. Policies, strict and canonical JSON, commitments and keys
are stateless parsers and encodings, which the repository tests with its vectors; so
are the SDKs and the verification page, which repeat the Go verifiers. Profiles,
examples, the two proofs of concept and deployment scripts are not part of the
program whose promises these modules state.

## 6. Plan

1. Sealing, Witness, LogSync, Alarms, Opening, Vault, Merkle, Receipts,
   Erasures: done, as above.
2. Every safety property of a passing run is proved. What could still be proved is
   beyond the runs: that an alarm which is raised was due (`Alarms`), and a promise
   of what a file accepts that `Opening` implements.
3. `SealedLog` and `WitnessPromise` are refined; the other modules have no abstract
   specification yet. What `Receipts` lets a witness do is `Endorse` of
   `WitnessPromise`, restated; the two could share one definition.
