------------------------------- MODULE Sealing -------------------------------
(***************************************************************************)
(* `nucleo seal` and `nucleo erase` run by several operating-system         *)
(* processes over one ledger file (cmd/nucleo/seal.go, erase.go, reseal.go, *)
(* reintento.go, idempotency.go; internal/store/record.go, blocks.go).      *)
(*                                                                         *)
(* There is no lock between commands.  Each read is a query of its own and  *)
(* only store.AppendRecord is a transaction, so every read is an action and *)
(* the transaction is one action.  A process runs one command and ends; a   *)
(* caller that retries launches another process.                            *)
(*                                                                         *)
(* A block's hash commits to its header and, through prev_hash, to every    *)
(* header before it.  The model takes the hash of a block to BE that        *)
(* history: the sequence of headers that ends in the block.  So b[p], the   *)
(* block a process has signed, is a sequence, and comparing prev_hash with  *)
(* the last block's hash is comparing two sequences.                        *)
(***************************************************************************)
EXTENDS Integers, FiniteSets, SequencesExt

CONSTANTS
  Procs,        \* every command ever launched
  Tenants,
  Payloads,     \* a content and its payload_hash
  Types,        \* record types a caller may ask for (never reserved ones)
  Keys,         \* --idempotency-key values
  PatientKeys,  \* keys whose caller retries only after the process has ended
  SealJobs,     \* the `seal` invocations callers may make
  Times,        \* what time.Now may answer, truncated to the second
  MaxAttempts,  \* intentosDeSellado
  NoKey, NoTenant, NoRecord

\* A request: what seal receives on its command line.  sensitive: the profile
\* finds fields whose commitments are stored beside the block.
SealJob == [tenant: Tenants, payload: Payloads, typ: Types,
            key: Keys \cup {NoKey}, enc: BOOLEAN, sensitive: BOOLEAN]

ASSUME JobsAssumption == SealJobs \subseteq SealJob
ASSUME KeysAssumption == NoKey \notin Keys /\ PatientKeys \subseteq Keys
ASSUME NoTenantAssumption == NoTenant \notin Tenants
ASSUME TimesAssumption == Times \subseteq Nat
ASSUME MaxAttemptsAssumption == MaxAttempts \in Nat \ {0}

VARIABLES
  (* the ledger file *)
  chain,        \* table blocks: the headers, in order
  blobs,        \* table blobs: the tenant in the AAD of each stored content
  commitments,  \* vault_meta: the contents that have stored commitments
  idem,         \* log_state seal/idempotency/v1/<hash of tenant and key>
  author,       \* history: the process that wrote each block
  (* the commands *)
  pc,           \* where each process is
  job,          \* what it was asked to do
  tries,        \* finished attempts of sellarConReintentos
  prev,         \* the history that ends in the block LastBlock returned
  duplicados,   \* blocks that already sealed this payload
  b,            \* the signed block of the last attempt that built one
  putBlob,      \* whether the record carries a new encrypted copy
  hayBlob, hayCompromisos,  \* what erase found stored
  through,      \* the last block the erasure authorisation covers
  out           \* history: the answers the caller has received

store      == <<chain, blobs, commitments, idem, author>>
sealVars   == <<duplicados, putBlob>>
eraseVars  == <<hayBlob, hayCompromisos, through>>
vars       == <<store, pc, job, tries, prev, b, sealVars, eraseVars, out>>

-----------------------------------------------------------------------------
(* Blocks *)

\* cid: "blob" an encrypted copy, "none" no copy, "auth" the erasure
\* authorisation of an event, whose signed through is the field through.  The
\* payload of an event is the content it suppresses (EventPayloadHash, one to one).
Header == [index: Nat, time: Times, tenant: Tenants, payload: Payloads,
           typ: Types \cup {"nucleo.erasure.v1"}, cid: {"blob", "none", "auth"},
           through: Nat]

IsEvent(h) == h.cid = "auth"

\* ledger.NewHeader: the next index after the block that was read.
NewHeader(before, time, tenant, typ, payload, cid, thr) ==
  [index |-> IF before = << >> THEN 0 ELSE Last(before).index + 1,
   time |-> time, tenant |-> tenant, payload |-> payload, typ |-> typ,
   cid |-> cid, through |-> thr]

\* A mutant: the clock is never compared with the last block.
RelojIgnorado(before, time) == TRUE

\* relojCoherente: the clock is not behind the block that was read.
RelojCoherente(before, time) == before # << >> => time >= Last(before).time

\* A mutant: the transaction trusts the block that was signed outside it.
CheckLinkSkipped(c, blk) == "ok"

\* checkLink, inside the transaction: the verdict on appending blk to c.
CheckLink(c, blk) ==
  LET expected == IF c = << >> THEN 0 ELSE Last(c).index + 1
  IN  IF Last(blk).index # expected THEN "ErrIndexSequence"
      ELSE IF Front(blk) # c THEN "ErrPrevHashMismatch"
      ELSE IF c # << >> /\ Last(blk).time < Last(c).time THEN "ErrTimestampOrder"
      ELSE "ok"

\* A mutant: a half-open range that loses the last block.
BlocksWithPayloadShort(c, h) ==
  {c[i].index : i \in {j \in 1..Len(c) - 1 : ~IsEvent(c[j]) /\ c[j].payload = h}}

\* BlocksWithPayload: the document blocks that declare payload h.
BlocksWithPayload(c, h) ==
  {c[i].index : i \in {j \in DOMAIN c : ~IsEvent(c[j]) /\ c[j].payload = h}}

\* eventosDe: the suppression events of h after block desde.
EventosDe(c, h, desde) ==
  {c[i] : i \in {j \in DOMAIN c : IsEvent(c[j]) /\ c[j].payload = h
                                  /\ c[j].index > desde}}

\* Authority.Check and eventoDeSupresion: ev is authorised and reaches block n.
Cubre(ev, n) == ev.through < ev.index /\ ev.through >= n

-----------------------------------------------------------------------------
(* Processes *)

IdemRecord == [tenant: Tenants, typ: Types, payload: Payloads, block: Nat]

ASSUME NoRecordAssumption == NoRecord \notin IdemRecord

SealStates  == {"seal:key", "seal:look", "seal:last", "seal:build",
                "seal:content", "seal:commit", "seal:report"}
EraseStates == {"erase:blob", "erase:meta", "erase:blocks", "erase:events",
                "erase:authorise", "erase:last", "erase:commit", "erase:report"}
Active(p)   == pc[p] \in SealStates \cup EraseStates

\* hash is the named block's history; << >> when the answer names no block.
Answer(kind, hash, dup) == [kind |-> kind, hash |-> hash, dup |-> dup]
Failure(kind) == Answer(kind, << >>, {})

Goto(p, label) == pc' = [pc EXCEPT ![p] = label]
Say(p, answer) == out' = [out EXCEPT ![p] = Append(@, answer)]
End(p, answer) == Goto(p, "ended") /\ Say(p, answer)

Init ==
  /\ chain = << >>
  /\ blobs = [h \in Payloads |-> NoTenant]
  /\ commitments = {}
  /\ idem = [tk \in Tenants \X Keys |-> NoRecord]
  /\ author = << >>
  /\ pc = [p \in Procs |-> "new"]
  /\ job = [p \in Procs |-> NoRecord]
  /\ tries = [p \in Procs |-> 0]
  /\ prev = [p \in Procs |-> << >>]
  /\ duplicados = [p \in Procs |-> {}]
  /\ b = [p \in Procs |-> << >>]
  /\ putBlob = [p \in Procs |-> FALSE]
  /\ hayBlob = [p \in Procs |-> FALSE]
  /\ hayCompromisos = [p \in Procs |-> FALSE]
  /\ through = [p \in Procs |-> 0]
  /\ out = [p \in Procs |-> << >>]

\* The command dies, is killed, or stops on an error of its environment
\* (passphrase, disk, permissions) that changes nothing in the file.
Exit(p) ==
  /\ Active(p)
  /\ Goto(p, "ended")
  /\ UNCHANGED <<store, job, tries, prev, b, sealVars, eraseVars, out>>

\* Mutants: attempts that are not counted; the last lost race taken for a success.
RetryUncounted(p, label) == tries' = tries /\ Goto(p, label) /\ out' = out
RetryGivesUpQuietly(p, label) ==
  /\ tries' = [tries EXCEPT ![p] = @ + 1] /\ out' = out
  /\ Goto(p, IF tries[p] + 1 < MaxAttempts THEN label
             ELSE IF label = "seal:look" THEN "seal:report" ELSE "erase:report")

\* sellarConReintentos after a lost race: another attempt, or the error.
Retry(p, label) ==
  /\ tries' = [tries EXCEPT ![p] = @ + 1]
  /\ IF tries[p] + 1 < MaxAttempts
     THEN Goto(p, label) /\ out' = out
     ELSE End(p, Failure("lost race"))

-----------------------------------------------------------------------------
(* Idempotency keys *)

\* A mutant: the key is not scoped to its tenant.
KeyOfAnyTenant(p) == <<CHOOSE t \in Tenants : TRUE, job[p].key>>

\* claveIdem: the log_state entry of a key, scoped to its tenant.
KeyOf(p) == <<job[p].tenant, job[p].key>>
HasKey(p) == job[p].key # NoKey
Recorded(p) == HasKey(p) /\ idem[KeyOf(p)] # NoRecord

-----------------------------------------------------------------------------
(* store.AppendRecord, the only transaction *)

\* A mutant: the record's block is numbered from one.
EntradaIdemFromOne(p) ==
  [tenant |-> job[p].tenant, typ |-> job[p].typ, payload |-> job[p].payload,
   block |-> Last(b[p]).index + 1]

\* entradaIdem: what is stored under the key.
EntradaIdem(p) ==
  [tenant |-> job[p].tenant, typ |-> job[p].typ, payload |-> job[p].payload,
   block |-> Last(b[p]).index]

\* A mutant: log_state is left for a later write.
StateAfterForgotten(p, rec) == idem

StateAfter(p, rec) == IF rec.putState THEN [idem EXCEPT ![KeyOf(p)] = EntradaIdem(p)] ELSE idem

\* The transaction commits: the link holds, the copy's primary key is free,
\* and everything in the record is written.
AppendRecord(p, rec) ==
  LET h == job[p].payload IN
  /\ CheckLink(chain, b[p]) = "ok"
  /\ rec.putBlob => blobs[h] = NoTenant
  /\ chain' = Append(chain, Last(b[p]))
  /\ author' = Append(author, p)
  /\ blobs' = IF rec.putBlob THEN [blobs EXCEPT ![h] = job[p].tenant]
              ELSE IF rec.eraseBlob THEN [blobs EXCEPT ![h] = NoTenant] ELSE blobs
  /\ commitments' = (commitments \ (IF rec.deleteMeta THEN {h} ELSE {}))
                    \cup (IF rec.putMeta THEN {h} ELSE {})
  /\ idem' = StateAfter(p, rec)

-----------------------------------------------------------------------------
(* seal *)

\* A caller of a patient key does not retry while its last try still runs.
StartSeal(p, j) ==
  /\ pc[p] = "new"
  /\ j.key \in PatientKeys =>
       \A q \in Procs : pc[q] \in SealStates =>
         <<job[q].tenant, job[q].key>> # <<j.tenant, j.key>>
  /\ job' = [job EXCEPT ![p] = j]
  /\ Goto(p, "seal:key")
  /\ UNCHANGED <<store, tries, prev, b, sealVars, eraseVars, out>>

\* sealIdempotente: the answer to a key that already has a record.
SealIdempotente(p) ==
  LET r == idem[KeyOf(p)]
      found == r.block < Len(chain)
  IN  IF r.payload # job[p].payload \/ r.typ # job[p].typ
      THEN Failure("key of another document")
      ELSE IF ~found \/ chain[r.block + 1].payload # r.payload
                     \/ chain[r.block + 1].tenant # r.tenant
      THEN Failure("record without its block")
      ELSE Answer("idempotent", SubSeq(chain, 1, r.block + 1), {})

\* The key is looked up before anything is built.
SealKey(p) ==
  /\ pc[p] = "seal:key"
  /\ IF Recorded(p) THEN End(p, SealIdempotente(p))
                    ELSE Goto(p, "seal:look") /\ out' = out
  /\ UNCHANGED <<store, job, tries, prev, b, sealVars, eraseVars>>

\* Each attempt looks the key up again.  An attempt that finds it answers and
\* returns no error; cmdSeal then reports b, unless no attempt has built one.
SealLook(p) ==
  /\ pc[p] = "seal:look"
  /\ IF ~Recorded(p) THEN Goto(p, "seal:last") /\ out' = out
     ELSE /\ Say(p, SealIdempotente(p))
          /\ IF SealIdempotente(p).kind = "idempotent" /\ b[p] # << >>
             THEN Goto(p, "seal:report") ELSE Goto(p, "ended")
  /\ UNCHANGED <<store, job, tries, prev, b, sealVars, eraseVars>>

\* LastBlock.
SealLast(p) ==
  /\ pc[p] = "seal:last"
  /\ prev' = [prev EXCEPT ![p] = chain]
  /\ Goto(p, "seal:build")
  /\ UNCHANGED <<store, job, tries, b, sealVars, eraseVars, out>>

\* BlocksWithPayload, then NewHeader, relojCoherente and ledger.Seal.
SealBuild(p, now) ==
  LET j == job[p] IN
  /\ pc[p] = "seal:build"
  /\ duplicados' = [duplicados EXCEPT ![p] = BlocksWithPayload(chain, j.payload)]
  /\ putBlob' = [putBlob EXCEPT ![p] = FALSE]
  /\ IF RelojCoherente(prev[p], now)
     THEN /\ b' = [b EXCEPT ![p] =
                Append(prev[p], NewHeader(prev[p], now, j.tenant, j.typ, j.payload,
                                          IF j.enc THEN "blob" ELSE "none", 0))]
          /\ Goto(p, IF j.enc THEN "seal:content" ELSE "seal:commit")
          /\ out' = out
     ELSE End(p, Failure("clock behind")) /\ b' = b
  /\ UNCHANGED <<store, job, tries, prev, eraseVars>>

\* contenidoParaSellar: encrypt a copy, reuse the tenant's own, or refuse.
SealContent(p) ==
  LET owner == blobs[job[p].payload] IN
  /\ pc[p] = "seal:content"
  /\ IF owner \in {NoTenant, job[p].tenant}
     THEN /\ putBlob' = [putBlob EXCEPT ![p] = owner = NoTenant]
          /\ Goto(p, "seal:commit") /\ out' = out
     ELSE End(p, Failure("content of another tenant")) /\ putBlob' = putBlob
  /\ UNCHANGED <<store, job, tries, prev, b, duplicados, eraseVars>>

SealRecord(p) == [putBlob |-> putBlob[p], eraseBlob |-> FALSE, putState |-> HasKey(p),
                  putMeta |-> job[p].sensitive, deleteMeta |-> FALSE]

\* Block, encrypted copy, commitments and idempotency record are written.
SealCommit(p) ==
  /\ pc[p] = "seal:commit"
  /\ AppendRecord(p, SealRecord(p))
  /\ Goto(p, "seal:report")
  /\ UNCHANGED <<job, tries, prev, b, sealVars, eraseVars, out>>

\* The transaction fails: the link broke, a copy of the content is already
\* there, or the file stayed busy.  Only the errors of esCarreraPerdida retry.
SealAbort(p) ==
  LET verdict == CheckLink(chain, b[p]) IN
  /\ pc[p] = "seal:commit"
  /\ IF verdict = "ErrTimestampOrder" THEN End(p, Failure(verdict)) /\ tries' = tries
     ELSE IF verdict = "ok" /\ putBlob[p] /\ blobs[job[p].payload] # NoTenant
     THEN End(p, Failure("ErrDuplicateBlob")) /\ tries' = tries
     ELSE Retry(p, "seal:look")      \* a broken link, or ErrBusy
  /\ UNCHANGED <<store, job, prev, b, sealVars, eraseVars>>

SealReport(p) ==
  /\ pc[p] = "seal:report"
  /\ End(p, Answer("sealed", b[p], duplicados[p]))
  /\ UNCHANGED <<store, job, tries, prev, b, sealVars, eraseVars>>

-----------------------------------------------------------------------------
(* erase *)

\* The block to erase exists and is not itself a suppression event.
StartErase(p, n) ==
  /\ pc[p] = "new"
  /\ n < Len(chain) /\ ~IsEvent(chain[n + 1])
  /\ job' = [job EXCEPT ![p] = [payload |-> chain[n + 1].payload, block |-> n,
                                tenant |-> chain[n + 1].tenant]]
  /\ Goto(p, "erase:blob")
  /\ UNCHANGED <<store, tries, prev, b, sealVars, eraseVars, out>>

EraseReadBlob(p) ==
  /\ pc[p] = "erase:blob"
  /\ hayBlob' = [hayBlob EXCEPT ![p] = blobs[job[p].payload] # NoTenant]
  /\ Goto(p, "erase:meta")
  /\ UNCHANGED <<store, job, tries, prev, b, sealVars, hayCompromisos, through, out>>

EraseReadMeta(p) ==
  /\ pc[p] = "erase:meta"
  /\ hayCompromisos' = [hayCompromisos EXCEPT ![p] = job[p].payload \in commitments]
  /\ Goto(p, "erase:blocks")
  /\ UNCHANGED <<store, job, tries, prev, b, sealVars, hayBlob, through, out>>

\* through is the last of the affected blocks; it is not read again.
EraseReadBlocks(p) ==
  LET afectados == BlocksWithPayload(chain, job[p].payload) IN
  /\ pc[p] = "erase:blocks"
  /\ \E n \in afectados : /\ \A m \in afectados : m <= n
                         /\ through' = [through EXCEPT ![p] = n]
  /\ Goto(p, IF hayBlob[p] \/ hayCompromisos[p] THEN "erase:authorise" ELSE "erase:events")
  /\ UNCHANGED <<store, job, tries, prev, b, sealVars, hayBlob, hayCompromisos, out>>

\* Nothing is stored: already erased, never stored, or an event that does not
\* reach this block and has to be followed by one that does.
EraseReadEvents(p) ==
  LET eventos == EventosDe(chain, job[p].payload, job[p].block) IN
  /\ pc[p] = "erase:events"
  /\ IF \E ev \in eventos : Cubre(ev, job[p].block)
     THEN End(p, Failure("already erased"))
     ELSE IF eventos = {} THEN End(p, Failure("nothing stored"))
     ELSE Goto(p, "erase:authorise") /\ out' = out
  /\ UNCHANGED <<store, job, tries, prev, b, sealVars, eraseVars>>

\* VerifyCID: the custodian's authorisation is for block cubre and is accepted
\* only when that is the last affected block.  Passphrase and typed
\* confirmation follow, with no further read.
EraseAuthorise(p, cubre) ==
  /\ pc[p] = "erase:authorise"
  /\ IF cubre = through[p] THEN Goto(p, "erase:last") /\ out' = out
                           ELSE End(p, Failure("not authorised"))
  /\ UNCHANGED <<store, job, tries, prev, b, sealVars, eraseVars>>

\* LastBlock, NewHeader, relojCoherente and ledger.Seal of the event.
EraseLast(p, now) ==
  /\ pc[p] = "erase:last"
  /\ prev' = [prev EXCEPT ![p] = chain]
  /\ IF RelojCoherente(chain, now)
     THEN /\ b' = [b EXCEPT ![p] =
                Append(chain, NewHeader(chain, now, job[p].tenant, "nucleo.erasure.v1",
                                        job[p].payload, "auth", through[p]))]
          /\ Goto(p, "erase:commit") /\ out' = out
     ELSE End(p, Failure("clock behind")) /\ b' = b
  /\ UNCHANGED <<store, job, tries, sealVars, eraseVars>>

EraseRecord(p) == [putBlob |-> FALSE, eraseBlob |-> hayBlob[p], putState |-> FALSE,
                   putMeta |-> FALSE, deleteMeta |-> TRUE]

\* The event and, in the same transaction, the deletions.
EraseCommit(p) ==
  /\ pc[p] = "erase:commit"
  /\ AppendRecord(p, EraseRecord(p))
  /\ Goto(p, "erase:report")
  /\ UNCHANGED <<job, tries, prev, b, sealVars, eraseVars, out>>

EraseAbort(p) ==
  LET verdict == CheckLink(chain, b[p]) IN
  /\ pc[p] = "erase:commit"
  /\ IF verdict = "ErrTimestampOrder" THEN End(p, Failure(verdict)) /\ tries' = tries
     ELSE Retry(p, "erase:last")
  /\ UNCHANGED <<store, job, prev, b, sealVars, eraseVars>>

EraseReport(p) ==
  /\ pc[p] = "erase:report"
  /\ End(p, Answer("erased", b[p], {}))
  /\ UNCHANGED <<store, job, tries, prev, b, sealVars, eraseVars>>

-----------------------------------------------------------------------------
SealStep(p) ==
  \/ SealKey(p) \/ SealLook(p) \/ SealLast(p)
  \/ \E now \in Times : SealBuild(p, now)
  \/ SealContent(p) \/ SealCommit(p) \/ SealAbort(p) \/ SealReport(p)

EraseStep(p) ==
  \/ EraseReadBlob(p) \/ EraseReadMeta(p) \/ EraseReadBlocks(p) \/ EraseReadEvents(p)
  \/ \E cubre \in 0..Len(chain) : EraseAuthorise(p, cubre)
  \/ \E now \in Times : EraseLast(p, now)
  \/ EraseCommit(p) \/ EraseAbort(p) \/ EraseReport(p)

Start(p) == \/ \E j \in SealJobs : StartSeal(p, j)
            \/ \E n \in 0..Len(chain) : StartErase(p, n)

Next == \E p \in Procs : Start(p) \/ SealStep(p) \/ EraseStep(p) \/ Exit(p)

Spec == Init /\ [][Next]_vars
\* The scheduler runs every live command; Exit is never forced.
FairSpec == Spec /\ \A p \in Procs : WF_vars(SealStep(p) \/ EraseStep(p))

-----------------------------------------------------------------------------
(* Properties *)

EraseJob == [payload: Payloads, block: Nat, tenant: Tenants]
AnswerKind == {"sealed", "erased", "idempotent", "lost race", "clock behind",
  "content of another tenant", "key of another document", "record without its block",
  "already erased", "nothing stored", "not authorised",
  "ErrDuplicateBlob", "ErrTimestampOrder"}

\* Types of the file and of every command's memory.
TypeOK ==
  /\ chain \in Seq(Header)
  /\ blobs \in [Payloads -> Tenants \cup {NoTenant}]
  /\ commitments \in SUBSET Payloads
  /\ idem \in [Tenants \X Keys -> IdemRecord \cup {NoRecord}]
  /\ author \in Seq(Procs)
  /\ pc \in [Procs -> {"new", "ended"} \cup SealStates \cup EraseStates]
  /\ job \in [Procs -> SealJobs \cup EraseJob \cup {NoRecord}]
  /\ tries \in [Procs -> 0..MaxAttempts]
  /\ prev \in [Procs -> Seq(Header)]
  /\ duplicados \in [Procs -> SUBSET Nat]
  /\ b \in [Procs -> Seq(Header)]
  /\ putBlob \in [Procs -> BOOLEAN]
  /\ hayBlob \in [Procs -> BOOLEAN]
  /\ hayCompromisos \in [Procs -> BOOLEAN]
  /\ through \in [Procs -> Nat]
  /\ out \in [Procs -> Seq([kind: AnswerKind, hash: Seq(Header), dup: SUBSET Nat])]

Given(p) == {out[p][i] : i \in DOMAIN out[p]}

\* The stored chain stays linked whatever the processes interleave: indexes
\* have no gap or repeat and declared times never go back (VerifyLink, run
\* inside the transaction because the block was signed outside it).
ChainIsLinked ==
  \A i \in DOMAIN chain :
    /\ chain[i].index = i - 1
    /\ i > 1 => chain[i].time >= chain[i - 1].time

KeyedBlocks(tk) == {i \in DOMAIN chain : ~IsEvent(chain[i]) /\ KeyOf(author[i]) = tk}

\* With one process per key at a time, a key seals once for ever: across
\* crashes after the commit, lost answers and retries (ADR-020 D).
PatientKeysSealOnce ==
  \A tk \in Tenants \X PatientKeys : \A i, k \in KeyedBlocks(tk) : i = k

\* The promise of reintento.go:29 and of guarantee G17, for every key: two
\* retries with one key do not duplicate the record, even at the same time.
KeysSealOnce ==
  \A tk \in Tenants \X Keys : \A i, k \in KeyedBlocks(tk) : i = k

\* The idempotency record and its block are written together: a key has a
\* record exactly when a block was sealed under it, and the record names such
\* a block, of the recorded document.
IdempotencyRecordIsTrue ==
  \A tk \in Tenants \X Keys :
    IF idem[tk] = NoRecord THEN KeyedBlocks(tk) = {}
    ELSE /\ idem[tk].block + 1 \in KeyedBlocks(tk)
         /\ chain[idem[tk].block + 1].payload = idem[tk].payload
         /\ chain[idem[tk].block + 1].tenant = tk[1]
         /\ chain[idem[tk].block + 1].typ = idem[tk].typ

\* Content sealed with a copy is readable by its tenant until a later event
\* suppresses it: a seal that reuses a stored copy never commits after an
\* erase took that copy away (prev is read before the copy is looked up).
ContentOrErasure ==
  \A i \in DOMAIN chain : chain[i].cid = "blob" =>
    \/ blobs[chain[i].payload] = chain[i].tenant
    \/ \E k \in DOMAIN chain : k > i /\ IsEvent(chain[k]) /\ chain[k].payload = chain[i].payload

\* A seal that was written named every earlier block of the same content, so
\* no accidental duplicate goes by in silence (ADR-020 A), although the list
\* is read outside the transaction.
DuplicatesAreNamed ==
  \A i \in DOMAIN chain : \A a \in Given(author[i]) : a.kind = "sealed" =>
    a.dup = {k - 1 : k \in {k \in 1..i - 1 : ~IsEvent(chain[k])
                                         /\ chain[k].payload = chain[i].payload}}

\* "sealed" and "erased" name a block the ledger holds: for callers without a
\* key, with a patient key, and for erase.
AnsweredIsWritten ==
  \A p \in Procs : \A a \in Given(p) :
    \/ a.kind = "erased" \/ (a.kind = "sealed" /\ job[p].key \in PatientKeys \cup {NoKey})
    => IsPrefix(a.hash, chain) /\ author[Len(a.hash)] = p

\* The comment at seal.go:254: once sealIdempotente has answered nothing was
\* written and nothing is reported as sealed.  For every caller.
SealedIsWritten ==
  \A p \in Procs : \A a \in Given(p) : a.kind = "sealed" => IsPrefix(a.hash, chain)

\* An idempotent answer names a block of the caller's own document, sealed
\* under the caller's key.
IdempotentAnswerIsTrue ==
  \A p \in Procs : \A a \in Given(p) : a.kind = "idempotent" =>
    /\ IsPrefix(a.hash, chain)
    /\ Len(a.hash) \in KeyedBlocks(KeyOf(p))
    /\ Last(a.hash).tenant = job[p].tenant
    /\ Last(a.hash).payload = job[p].payload /\ Last(a.hash).typ = job[p].typ

\* Losing a race only ever shows as an error that a retry fixes: no command
\* fails on a copy that a competitor stored, on time order, or on a record
\* whose block is missing.
RacesAreRetriable ==
  \A p \in Procs : \A a \in Given(p) :
    a.kind \notin {"ErrDuplicateBlob", "ErrTimestampOrder", "record without its block"}

\* Every command comes to an end: retries are bounded whatever the others do.
CommandsEnd == \A p \in Procs : Active(p) ~> pc[p] = "ended"

-----------------------------------------------------------------------------
(* Refinement *)

EntryOf(i) ==
  [kind |-> IF IsEvent(chain[i]) THEN "suppression" ELSE "document",
   tenant |-> chain[i].tenant, payload |-> chain[i].payload,
   key |-> IF IsEvent(chain[i]) THEN NoKey ELSE job[author[i]].key]

Abstract == INSTANCE SealedLog WITH
  OnceKeys <- PatientKeys, AnyKey <- Keys \cup {NoKey},
  log <- [i \in DOMAIN chain |-> EntryOf(i)], content <- blobs

\* The commands implement the promise of SealedLog.
ImplementsSealedLog == Abstract!Spec
=============================================================================
