---------------------------- MODULE SealingProofs ----------------------------
(***************************************************************************)
(* Proofs about module Sealing, for any number of commands, tenants,        *)
(* contents, keys, clock readings and attempts.                             *)
(***************************************************************************)
EXTENDS Sealing, TLAPS

Labels  == {"new", "ended"} \cup SealStates \cup EraseStates
Answers == [kind: AnswerKind, hash: Seq(Header), dup: SUBSET Nat]

\* What a process has in memory at each label: the request of its command, an
\* attempt left, and a block that was built over prev for that request.
Signed(p, typ, cid, thr) ==
  /\ b[p] # << >>
  /\ Front(b[p]) = prev[p]
  /\ Last(b[p]).tenant = job[p].tenant
  /\ Last(b[p]).payload = job[p].payload
  /\ Last(b[p]).typ = typ
  /\ Last(b[p]).cid = cid
  /\ Last(b[p]).through = thr

MemoryOf(p) ==
  /\ pc[p] \in SealStates => job[p] \in SealJobs
  /\ pc[p] \in EraseStates => job[p] \in EraseJob
  /\ pc[p] = "new" => tries[p] = 0
  /\ Active(p) => tries[p] < MaxAttempts
  /\ pc[p] \in {"seal:content", "seal:commit"} =>
       Signed(p, job[p].typ, IF job[p].enc THEN "blob" ELSE "none", 0)
  /\ pc[p] = "erase:commit" => Signed(p, "nucleo.erasure.v1", "auth", through[p])

Memory == \A p \in Procs : MemoryOf(p)

-----------------------------------------------------------------------------
(* Sequences *)

\* Appending keeps the elements' type.
LEMMA AppendType ==
  ASSUME NEW S, NEW s \in Seq(S), NEW e \in S
  PROVE  Append(s, e) \in Seq(S)
  OBVIOUS

\* The last and the first elements of what Append returns.
LEMMA AppendParts ==
  ASSUME NEW S, NEW s \in Seq(S), NEW e \in S
  PROVE  /\ Append(s, e) # << >>
         /\ Last(Append(s, e)) = e
         /\ Front(Append(s, e)) = s
         /\ Len(Append(s, e)) = Len(s) + 1
<1>1. Last(Append(s, e)) = e /\ Append(s, e) # << >> /\ Len(Append(s, e)) = Len(s) + 1
  BY DEF Last
<1>2. Front(Append(s, e)) = s
  BY DEF Front
<1> QED BY <1>1, <1>2

\* The last element of a nonempty sequence.
LEMMA LastType ==
  ASSUME NEW S, NEW s \in Seq(S), s # << >>
  PROVE  Last(s) \in S /\ Len(s) \in Nat \ {0}
  BY DEF Last

\* NewHeader makes a header from the values a command may have.
LEMMA NewHeaderType ==
  ASSUME NEW before \in Seq(Header), NEW t \in Times, NEW tn \in Tenants,
         NEW ty \in Types \cup {"nucleo.erasure.v1"}, NEW h \in Payloads,
         NEW c \in {"blob", "none", "auth"}, NEW thr \in Nat
  PROVE  NewHeader(before, t, tn, ty, h, c, thr) \in Header
<1>1. CASE before = << >>
  BY <1>1 DEF NewHeader, Header
<1>2. CASE before # << >>
  <2>1. Last(before) \in Header
    BY <1>2, LastType
  <2> QED BY <2>1, <1>2 DEF NewHeader, Header
<1> QED BY <1>1, <1>2

-----------------------------------------------------------------------------
(* Type correctness *)

\* The types of the variables that every step touches.
LEMMA MoveVariables ==
  ASSUME TypeOK
  PROVE  /\ pc \in [Procs -> Labels]
         /\ out \in [Procs -> Seq(Answers)]
         /\ tries \in [Procs -> 0..MaxAttempts]
  BY DEF TypeOK, Labels, Answers

\* Moving to a label and saying an answer keep the types of pc and out.
LEMMA MoveTypes ==
  ASSUME pc \in [Procs -> Labels], out \in [Procs -> Seq(Answers)], NEW p \in Procs
  PROVE  /\ \A l \in Labels : Goto(p, l) => pc' \in [Procs -> Labels]
         /\ \A a \in Answers : Say(p, a) => out' \in [Procs -> Seq(Answers)]
         /\ \A a \in Answers : End(p, a) =>
              pc' \in [Procs -> Labels] /\ out' \in [Procs -> Seq(Answers)]
<1>1. \A l \in Labels : Goto(p, l) => pc' \in [Procs -> Labels]
  BY DEF Goto
<1>2. \A a \in Answers : Say(p, a) => out' \in [Procs -> Seq(Answers)]
  <2> SUFFICES ASSUME NEW a \in Answers, Say(p, a)
               PROVE  out' \in [Procs -> Seq(Answers)]
    OBVIOUS
  <2>1. out[p] \in Seq(Answers)
    OBVIOUS
  <2>2. Append(out[p], a) \in Seq(Answers)
    BY <2>1, AppendType
  <2> QED BY <2>2 DEF Say
<1>3. "ended" \in Labels
  BY DEF Labels
<1> QED BY <1>1, <1>2, <1>3 DEF End

\* The answers that name no block are answers.
LEMMA FailureType ==
  ASSUME NEW k \in AnswerKind
  PROVE  Failure(k) \in Answers
  BY DEF Failure, Answer, Answers

\* A retry keeps the types.
LEMMA RetryTypes ==
  ASSUME TypeOK, NEW p \in Procs, NEW l \in Labels, tries[p] < MaxAttempts,
         Retry(p, l)
  PROVE  /\ tries' \in [Procs -> 0..MaxAttempts]
         /\ pc' \in [Procs -> Labels] /\ out' \in [Procs -> Seq(Answers)]
<1>0. /\ pc \in [Procs -> Labels] /\ out \in [Procs -> Seq(Answers)]
      /\ tries \in [Procs -> 0..MaxAttempts]
  BY MoveVariables
<1>1. tries[p] + 1 \in 0..MaxAttempts
  BY <1>0, MaxAttemptsAssumption
<1>2. tries' \in [Procs -> 0..MaxAttempts]
  BY <1>0, <1>1 DEF Retry
<1>3. Failure("lost race") \in Answers
  BY FailureType DEF AnswerKind
<1>4. CASE tries[p] + 1 < MaxAttempts
  <2>1. Goto(p, l) /\ out' = out
    BY <1>4 DEF Retry
  <2> QED BY <1>0, <1>2, <2>1, MoveTypes
<1>5. CASE ~(tries[p] + 1 < MaxAttempts)
  <2>1. End(p, Failure("lost race"))
    BY <1>5 DEF Retry
  <2> QED BY <1>0, <1>2, <1>3, <2>1, MoveTypes
<1> QED BY <1>4, <1>5

\* A request has the fields the steps of seal read.
LEMMA SealJobType ==
  ASSUME NEW p \in Procs, job[p] \in SealJobs
  PROVE  /\ job[p].tenant \in Tenants /\ job[p].payload \in Payloads
         /\ job[p].typ \in Types /\ job[p].key \in Keys \cup {NoKey}
         /\ job[p].enc \in BOOLEAN /\ job[p].sensitive \in BOOLEAN
         /\ HasKey(p) => KeyOf(p) \in Tenants \X Keys
<1>1. job[p] \in SealJob
  BY JobsAssumption
<1> QED BY <1>1 DEF SealJob, HasKey, KeyOf

\* What the lists of blocks a command makes are made of.
LEMMA BlocksMember ==
  ASSUME NEW c \in Seq(Header), NEW h, NEW n
  PROVE  n \in BlocksWithPayload(c, h) <=>
           \E i \in DOMAIN c : ~IsEvent(c[i]) /\ c[i].payload = h /\ c[i].index = n
  BY DEF BlocksWithPayload

LEMMA BlocksType ==
  ASSUME NEW c \in Seq(Header), NEW h
  PROVE  BlocksWithPayload(c, h) \in SUBSET Nat
<1> SUFFICES ASSUME NEW n \in BlocksWithPayload(c, h) PROVE n \in Nat
  OBVIOUS
<1>1. PICK i \in DOMAIN c : c[i].index = n
  BY BlocksMember
<1>2. c[i] \in Header
  BY <1>1
<1> QED BY <1>1, <1>2 DEF Header

\* What CheckLink lets through is a block that was built over the whole chain.
LEMMA CheckLinkOk ==
  ASSUME NEW c \in Seq(Header), NEW blk \in Seq(Header), CheckLink(c, blk) = "ok"
  PROVE  /\ Front(blk) = c
         /\ Last(blk).index = IF c = << >> THEN 0 ELSE Last(c).index + 1
         /\ c # << >> => ~(Last(blk).time < Last(c).time)
  BY DEF CheckLink

-----------------------------------------------------------------------------
(* Each action keeps the types *)

TypesOfStore ==
  /\ chain \in Seq(Header)
  /\ blobs \in [Payloads -> Tenants \cup {NoTenant}]
  /\ commitments \in SUBSET Payloads
  /\ idem \in [Tenants \X Keys -> IdemRecord \cup {NoRecord}]
  /\ author \in Seq(Procs)

\* The transaction keeps the types of the file.
LEMMA AppendRecordTypes ==
  ASSUME TypeOK, NEW p \in Procs, NEW rec, AppendRecord(p, rec),
         b[p] # << >>, job[p].payload \in Payloads, job[p].tenant \in Tenants,
         rec.putState => job[p] \in SealJobs /\ HasKey(p)
  PROVE  TypesOfStore'
<1>1. b[p] \in Seq(Header) /\ Last(b[p]) \in Header
  BY LastType DEF TypeOK
<1>2. chain' \in Seq(Header)
  BY <1>1, AppendType DEF TypeOK, AppendRecord
<1>3. author' \in Seq(Procs)
  BY AppendType DEF TypeOK, AppendRecord
<1>4. blobs' \in [Payloads -> Tenants \cup {NoTenant}]
  BY DEF TypeOK, AppendRecord
<1>5. commitments' \in SUBSET Payloads
  BY DEF TypeOK, AppendRecord
<1>6. idem' \in [Tenants \X Keys -> IdemRecord \cup {NoRecord}]
  <2>1. CASE rec.putState
    <3>1. EntradaIdem(p) \in IdemRecord
      BY <1>1, <2>1, SealJobType DEF EntradaIdem, IdemRecord, Header
    <3>2. idem' = [idem EXCEPT ![KeyOf(p)] = EntradaIdem(p)]
      BY <2>1 DEF AppendRecord, StateAfter
    <3> QED BY <3>1, <3>2 DEF TypeOK
  <2>2. CASE ~rec.putState
    BY <2>2 DEF TypeOK, AppendRecord, StateAfter
  <2> QED BY <2>1, <2>2
<1> QED BY <1>2, <1>3, <1>4, <1>5, <1>6 DEF TypesOfStore

\* A block built for a request over a chain that was read is a block.
LEMMA BuiltType ==
  ASSUME NEW before \in Seq(Header), NEW t \in Times, NEW tn \in Tenants,
         NEW ty \in Types \cup {"nucleo.erasure.v1"}, NEW h \in Payloads,
         NEW c \in {"blob", "none", "auth"}, NEW thr \in Nat
  PROVE  Append(before, NewHeader(before, t, tn, ty, h, c, thr)) \in Seq(Header)
  BY NewHeaderType, AppendType

LEMMA StartSealTypes ==
  ASSUME TypeOK, NEW p \in Procs, NEW j \in SealJobs, StartSeal(p, j)
  PROVE  TypeOK'
<1>1. pc' \in [Procs -> Labels]
  BY MoveVariables, MoveTypes DEF StartSeal, Labels, SealStates
<1>2. job' \in [Procs -> SealJobs \cup EraseJob \cup {NoRecord}]
  BY DEF TypeOK, StartSeal
<1> QED BY <1>1, <1>2 DEF TypeOK, StartSeal, Labels, store, sealVars, eraseVars

LEMMA SealIdempotenteType ==
  ASSUME TypeOK, NEW p \in Procs, job[p] \in SealJobs, Recorded(p)
  PROVE  SealIdempotente(p) \in Answers
<1>1. idem[KeyOf(p)] \in IdemRecord
  BY SealJobType DEF TypeOK, Recorded
<1>2. idem[KeyOf(p)].block \in Nat
  BY <1>1 DEF IdemRecord
<1>3. ASSUME idem[KeyOf(p)].block < Len(chain)
      PROVE  SubSeq(chain, 1, idem[KeyOf(p)].block + 1) \in Seq(Header)
  BY <1>2, <1>3 DEF TypeOK
<1>4. /\ Failure("key of another document") \in Answers
      /\ Failure("record without its block") \in Answers
  BY FailureType DEF AnswerKind
<1>5. ASSUME idem[KeyOf(p)].block < Len(chain)
      PROVE  Answer("idempotent", SubSeq(chain, 1, idem[KeyOf(p)].block + 1), {}) \in Answers
  BY <1>3, <1>5 DEF Answer, Answers, AnswerKind
<1> QED BY <1>4, <1>5 DEF SealIdempotente

LEMMA SealKeyTypes ==
  ASSUME TypeOK, Memory, NEW p \in Procs, SealKey(p)
  PROVE  TypeOK'
<1>1. job[p] \in SealJobs
  BY DEF Memory, MemoryOf, SealKey, SealStates
<1>2. pc' \in [Procs -> Labels] /\ out' \in [Procs -> Seq(Answers)]
  <2>1. CASE Recorded(p)
    BY <1>1, <2>1, SealIdempotenteType, MoveVariables, MoveTypes DEF SealKey
  <2>2. CASE ~Recorded(p)
    BY <2>2, MoveVariables, MoveTypes DEF SealKey, Labels, SealStates
  <2> QED BY <2>1, <2>2
<1> QED BY <1>2 DEF TypeOK, SealKey, Labels, Answers, store, sealVars, eraseVars

LEMMA SealLookTypes ==
  ASSUME TypeOK, Memory, NEW p \in Procs, SealLook(p)
  PROVE  TypeOK'
<1>1. job[p] \in SealJobs
  BY DEF Memory, MemoryOf, SealLook, SealStates
<1>2. pc' \in [Procs -> Labels] /\ out' \in [Procs -> Seq(Answers)]
  <2>1. "seal:report" \in Labels /\ "ended" \in Labels /\ "seal:last" \in Labels
    BY DEF Labels, SealStates
  <2>2. CASE Recorded(p)
    BY <1>1, <2>1, <2>2, SealIdempotenteType, MoveVariables, MoveTypes DEF SealLook
  <2>3. CASE ~Recorded(p)
    BY <2>1, <2>3, MoveVariables, MoveTypes DEF SealLook
  <2> QED BY <2>2, <2>3
<1> QED BY <1>2 DEF TypeOK, SealLook, Labels, Answers, store, sealVars, eraseVars

LEMMA SealLastTypes ==
  ASSUME TypeOK, NEW p \in Procs, SealLast(p)
  PROVE  TypeOK'
<1>1. pc' \in [Procs -> Labels]
  BY MoveVariables, MoveTypes DEF SealLast, Labels, SealStates
<1>2. prev' \in [Procs -> Seq(Header)]
  BY DEF TypeOK, SealLast
<1> QED BY <1>1, <1>2 DEF TypeOK, SealLast, Labels, store, sealVars, eraseVars

LEMMA SealBuildTypes ==
  ASSUME TypeOK, Memory, NEW p \in Procs, NEW now \in Times, SealBuild(p, now)
  PROVE  TypeOK'
<1>1. job[p] \in SealJobs
  BY DEF Memory, MemoryOf, SealBuild, SealStates
<1>2. duplicados' \in [Procs -> SUBSET Nat]
  <2>1. BlocksWithPayload(chain, job[p].payload) \in SUBSET Nat
    BY BlocksType DEF TypeOK
  <2> QED BY <2>1 DEF TypeOK, SealBuild
<1>3. putBlob' \in [Procs -> BOOLEAN]
  BY DEF TypeOK, SealBuild
<1>4. /\ b' \in [Procs -> Seq(Header)]
      /\ pc' \in [Procs -> Labels] /\ out' \in [Procs -> Seq(Answers)]
  <2>1. CASE RelojCoherente(prev[p], now)
    <3> DEFINE cid == IF job[p].enc THEN "blob" ELSE "none"
               blk == Append(prev[p], NewHeader(prev[p], now, job[p].tenant, job[p].typ,
                                                job[p].payload, cid, 0))
    <3>1. prev[p] \in Seq(Header)
      BY DEF TypeOK
    <3>2. cid \in {"blob", "none", "auth"}
      OBVIOUS
    <3> HIDE DEF cid
    <3>3. blk \in Seq(Header)
      BY <1>1, <3>1, <3>2, SealJobType, BuiltType
    <3>4. b' = [b EXCEPT ![p] = blk]
      BY <2>1 DEF SealBuild, cid
    <3>5. b' \in [Procs -> Seq(Header)]
      BY <3>3, <3>4 DEF TypeOK
    <3>6. pc' \in [Procs -> Labels] /\ out' = out
      BY <2>1, MoveVariables, MoveTypes DEF SealBuild, Labels, SealStates
    <3> QED BY <3>5, <3>6, MoveVariables
  <2>2. CASE ~RelojCoherente(prev[p], now)
    <3>1. Failure("clock behind") \in Answers
      BY FailureType DEF AnswerKind
    <3>2. End(p, Failure("clock behind")) /\ b' = b
      BY <2>2 DEF SealBuild
    <3> QED BY <3>1, <3>2, MoveVariables, MoveTypes DEF TypeOK
  <2> QED BY <2>1, <2>2
<1> QED BY <1>2, <1>3, <1>4 DEF TypeOK, SealBuild, Labels, Answers, store, eraseVars

LEMMA SealContentTypes ==
  ASSUME TypeOK, NEW p \in Procs, SealContent(p)
  PROVE  TypeOK'
<1>1. putBlob' \in [Procs -> BOOLEAN]
  BY DEF TypeOK, SealContent
<1>2. pc' \in [Procs -> Labels] /\ out' \in [Procs -> Seq(Answers)]
  <2>1. Failure("content of another tenant") \in Answers
    BY FailureType DEF AnswerKind
  <2>2. "seal:commit" \in Labels
    BY DEF Labels, SealStates
  <2> QED BY <2>1, <2>2, MoveVariables, MoveTypes DEF SealContent
<1> QED BY <1>1, <1>2 DEF TypeOK, SealContent, Labels, Answers, store, eraseVars

LEMMA SealCommitTypes ==
  ASSUME TypeOK, Memory, NEW p \in Procs, SealCommit(p)
  PROVE  TypeOK'
<1>1. job[p] \in SealJobs /\ b[p] # << >>
  BY DEF Memory, MemoryOf, Signed, SealCommit, SealStates
<1>2. TypesOfStore'
  BY <1>1, SealJobType, AppendRecordTypes DEF SealCommit, SealRecord
<1>3. pc' \in [Procs -> Labels]
  BY MoveVariables, MoveTypes DEF SealCommit, Labels, SealStates
<1> QED BY <1>2, <1>3 DEF TypeOK, TypesOfStore, SealCommit, Labels, sealVars, eraseVars

LEMMA SealAbortTypes ==
  ASSUME TypeOK, Memory, NEW p \in Procs, SealAbort(p)
  PROVE  TypeOK'
<1>1. tries[p] < MaxAttempts
  BY DEF Memory, MemoryOf, Active, SealAbort, SealStates
<1>2. /\ Failure("ErrTimestampOrder") \in Answers /\ Failure("ErrDuplicateBlob") \in Answers
      /\ "seal:look" \in Labels
  BY FailureType DEF AnswerKind, Labels, SealStates
<1>3. /\ tries' \in [Procs -> 0..MaxAttempts]
      /\ pc' \in [Procs -> Labels] /\ out' \in [Procs -> Seq(Answers)]
  <2>1. CASE CheckLink(chain, b[p]) = "ErrTimestampOrder"
    BY <1>2, <2>1, MoveVariables, MoveTypes DEF SealAbort
  <2>2. CASE End(p, Failure("ErrDuplicateBlob")) /\ tries' = tries
    BY <1>2, <2>2, MoveVariables, MoveTypes
  <2>3. CASE Retry(p, "seal:look")
    BY <1>1, <1>2, <2>3, RetryTypes
  <2> QED BY <2>1, <2>2, <2>3 DEF SealAbort
<1> QED BY <1>3 DEF TypeOK, SealAbort, Labels, Answers, store, sealVars, eraseVars

LEMMA SealReportTypes ==
  ASSUME TypeOK, NEW p \in Procs, SealReport(p)
  PROVE  TypeOK'
<1>1. Answer("sealed", b[p], duplicados[p]) \in Answers
  BY DEF TypeOK, Answer, Answers, AnswerKind
<1>2. pc' \in [Procs -> Labels] /\ out' \in [Procs -> Seq(Answers)]
  BY <1>1, MoveVariables, MoveTypes DEF SealReport
<1> QED BY <1>2 DEF TypeOK, SealReport, Labels, Answers, store, sealVars, eraseVars

LEMMA StartEraseTypes ==
  ASSUME TypeOK, NEW p \in Procs, NEW n \in 0..Len(chain), StartErase(p, n)
  PROVE  TypeOK' /\ job'[p] \in EraseJob
<1>1. chain[n + 1] \in Header /\ n \in Nat
  BY DEF TypeOK, StartErase
<1>2. [payload |-> chain[n + 1].payload, block |-> n, tenant |-> chain[n + 1].tenant] \in EraseJob
  BY <1>1 DEF Header, EraseJob
<1>3. job' \in [Procs -> SealJobs \cup EraseJob \cup {NoRecord}] /\ job'[p] \in EraseJob
  BY <1>2 DEF TypeOK, StartErase
<1>4. pc' \in [Procs -> Labels]
  BY MoveVariables, MoveTypes DEF StartErase, Labels, EraseStates
<1> QED BY <1>3, <1>4 DEF TypeOK, StartErase, Labels, store, sealVars, eraseVars

LEMMA EraseReadsTypes ==
  ASSUME TypeOK, NEW p \in Procs,
         EraseReadBlob(p) \/ EraseReadMeta(p) \/ EraseReadBlocks(p)
  PROVE  TypeOK'
<1>1. CASE EraseReadBlob(p)
  <2>1. hayBlob' \in [Procs -> BOOLEAN]
    BY <1>1 DEF TypeOK, EraseReadBlob
  <2>2. pc' \in [Procs -> Labels]
    BY <1>1, MoveVariables, MoveTypes DEF EraseReadBlob, Labels, EraseStates
  <2> QED BY <1>1, <2>1, <2>2 DEF TypeOK, EraseReadBlob, Labels, store, sealVars
<1>2. CASE EraseReadMeta(p)
  <2>1. hayCompromisos' \in [Procs -> BOOLEAN]
    BY <1>2 DEF TypeOK, EraseReadMeta
  <2>2. pc' \in [Procs -> Labels]
    BY <1>2, MoveVariables, MoveTypes DEF EraseReadMeta, Labels, EraseStates
  <2> QED BY <1>2, <2>1, <2>2 DEF TypeOK, EraseReadMeta, Labels, store, sealVars
<1>3. CASE EraseReadBlocks(p)
  <2>1. BlocksWithPayload(chain, job[p].payload) \in SUBSET Nat
    BY BlocksType DEF TypeOK
  <2>2. through' \in [Procs -> Nat]
    BY <1>3, <2>1 DEF TypeOK, EraseReadBlocks
  <2>3. pc' \in [Procs -> Labels]
    <3>1. "erase:authorise" \in Labels /\ "erase:events" \in Labels
      BY DEF Labels, EraseStates
    <3> QED BY <1>3, <3>1, MoveVariables, MoveTypes DEF EraseReadBlocks
  <2> QED BY <1>3, <2>2, <2>3 DEF TypeOK, EraseReadBlocks, Labels, store, sealVars
<1> QED BY <1>1, <1>2, <1>3

LEMMA EraseDecisionsTypes ==
  ASSUME TypeOK, NEW p \in Procs,
         \/ EraseReadEvents(p)
         \/ \E cubre \in 0..Len(chain) : EraseAuthorise(p, cubre)
         \/ EraseReport(p)
  PROVE  TypeOK'
<1>1. /\ Failure("already erased") \in Answers /\ Failure("nothing stored") \in Answers
      /\ Failure("not authorised") \in Answers
      /\ "erase:authorise" \in Labels /\ "erase:last" \in Labels
  BY FailureType DEF AnswerKind, Labels, EraseStates
<1>2. Answer("erased", b[p], {}) \in Answers
  BY DEF TypeOK, Answer, Answers, AnswerKind
<1>3. pc' \in [Procs -> Labels] /\ out' \in [Procs -> Seq(Answers)]
  <2>1. CASE EraseReadEvents(p)
    BY <1>1, <2>1, MoveVariables, MoveTypes DEF EraseReadEvents
  <2>2. CASE \E cubre \in 0..Len(chain) : EraseAuthorise(p, cubre)
    BY <1>1, <2>2, MoveVariables, MoveTypes DEF EraseAuthorise
  <2>3. CASE EraseReport(p)
    BY <1>2, <2>3, MoveVariables, MoveTypes DEF EraseReport
  <2> QED BY <2>1, <2>2, <2>3
<1>4. UNCHANGED <<store, job, tries, prev, b, sealVars, eraseVars>>
  BY DEF EraseReadEvents, EraseAuthorise, EraseReport
<1> QED BY <1>3, <1>4 DEF TypeOK, Labels, Answers, store, sealVars, eraseVars

LEMMA EraseLastTypes ==
  ASSUME TypeOK, Memory, NEW p \in Procs, NEW now \in Times, EraseLast(p, now)
  PROVE  TypeOK'
<1>1. job[p].tenant \in Tenants /\ job[p].payload \in Payloads
  <2>1. job[p] \in EraseJob
    BY DEF Memory, MemoryOf, EraseLast, EraseStates
  <2> QED BY <2>1 DEF EraseJob
<1>2. prev' \in [Procs -> Seq(Header)]
  BY DEF TypeOK, EraseLast
<1>3. /\ b' \in [Procs -> Seq(Header)]
      /\ pc' \in [Procs -> Labels] /\ out' \in [Procs -> Seq(Answers)]
  <2>1. CASE RelojCoherente(chain, now)
    <3> DEFINE blk == Append(chain, NewHeader(chain, now, job[p].tenant, "nucleo.erasure.v1",
                                              job[p].payload, "auth", through[p]))
    <3>1. chain \in Seq(Header) /\ through[p] \in Nat
      BY DEF TypeOK
    <3>2. blk \in Seq(Header)
      BY <1>1, <3>1, BuiltType
    <3>3. b' = [b EXCEPT ![p] = blk]
      BY <2>1 DEF EraseLast
    <3>4. b' \in [Procs -> Seq(Header)]
      BY <3>2, <3>3 DEF TypeOK
    <3>5. pc' \in [Procs -> Labels] /\ out' = out
      BY <2>1, MoveVariables, MoveTypes DEF EraseLast, Labels, EraseStates
    <3> QED BY <3>4, <3>5, MoveVariables
  <2>2. CASE ~RelojCoherente(chain, now)
    <3>1. Failure("clock behind") \in Answers
      BY FailureType DEF AnswerKind
    <3>2. End(p, Failure("clock behind")) /\ b' = b
      BY <2>2 DEF EraseLast
    <3> QED BY <3>1, <3>2, MoveVariables, MoveTypes DEF TypeOK
  <2> QED BY <2>1, <2>2
<1> QED BY <1>2, <1>3 DEF TypeOK, EraseLast, Labels, Answers, store, sealVars, eraseVars

LEMMA EraseCommitTypes ==
  ASSUME TypeOK, Memory, NEW p \in Procs, EraseCommit(p)
  PROVE  TypeOK'
<1>1. job[p] \in EraseJob /\ b[p] # << >>
  BY DEF Memory, MemoryOf, Signed, EraseCommit, EraseStates
<1>2. job[p].tenant \in Tenants /\ job[p].payload \in Payloads
  BY <1>1 DEF EraseJob
<1>3. TypesOfStore'
  BY <1>1, <1>2, AppendRecordTypes DEF EraseCommit, EraseRecord
<1>4. pc' \in [Procs -> Labels]
  BY MoveVariables, MoveTypes DEF EraseCommit, Labels, EraseStates
<1> QED BY <1>3, <1>4 DEF TypeOK, TypesOfStore, EraseCommit, Labels, sealVars, eraseVars

LEMMA EraseAbortTypes ==
  ASSUME TypeOK, Memory, NEW p \in Procs, EraseAbort(p)
  PROVE  TypeOK'
<1>1. tries[p] < MaxAttempts
  BY DEF Memory, MemoryOf, Active, EraseAbort, EraseStates
<1>2. Failure("ErrTimestampOrder") \in Answers /\ "erase:last" \in Labels
  BY FailureType DEF AnswerKind, Labels, EraseStates
<1>3. /\ tries' \in [Procs -> 0..MaxAttempts]
      /\ pc' \in [Procs -> Labels] /\ out' \in [Procs -> Seq(Answers)]
  <2>1. CASE CheckLink(chain, b[p]) = "ErrTimestampOrder"
    BY <1>2, <2>1, MoveVariables, MoveTypes DEF EraseAbort
  <2>2. CASE Retry(p, "erase:last")
    BY <1>1, <1>2, <2>2, RetryTypes
  <2> QED BY <2>1, <2>2 DEF EraseAbort
<1> QED BY <1>3 DEF TypeOK, EraseAbort, Labels, Answers, store, sealVars, eraseVars

LEMMA ExitTypes ==
  ASSUME TypeOK, NEW p \in Procs, Exit(p)
  PROVE  TypeOK'
<1>1. pc' \in [Procs -> Labels]
  BY MoveVariables, MoveTypes DEF Exit, Labels
<1> QED BY <1>1 DEF TypeOK, Exit, Labels, store, sealVars, eraseVars

-----------------------------------------------------------------------------
(* What each command keeps in memory *)

\* Every step of a process changes the memory of that process alone.
LEMMA OthersMemory ==
  ASSUME TypeOK, NEW p \in Procs, NEW q \in Procs, q # p,
         Start(p) \/ SealStep(p) \/ EraseStep(p) \/ Exit(p)
  PROVE  /\ pc'[q] = pc[q] /\ job'[q] = job[q] /\ tries'[q] = tries[q]
         /\ prev'[q] = prev[q] /\ b'[q] = b[q] /\ through'[q] = through[q]
         /\ duplicados'[q] = duplicados[q] /\ putBlob'[q] = putBlob[q]
         /\ hayBlob'[q] = hayBlob[q] /\ out'[q] = out[q]
<1> DEFINE Same == /\ pc'[q] = pc[q] /\ job'[q] = job[q] /\ tries'[q] = tries[q]
                   /\ prev'[q] = prev[q] /\ b'[q] = b[q] /\ through'[q] = through[q]
                   /\ duplicados'[q] = duplicados[q] /\ putBlob'[q] = putBlob[q]
                   /\ hayBlob'[q] = hayBlob[q] /\ out'[q] = out[q]
<1>1. /\ \A l : Goto(p, l) => pc'[q] = pc[q]
      /\ \A a : Say(p, a) => out'[q] = out[q]
      /\ \A a : End(p, a) => pc'[q] = pc[q] /\ out'[q] = out[q]
      /\ \A l : Retry(p, l) => pc'[q] = pc[q] /\ out'[q] = out[q] /\ tries'[q] = tries[q]
  BY DEF TypeOK, Goto, Say, End, Retry
<1>2. CASE Start(p)
  BY <1>1, <1>2 DEF TypeOK, Start, StartSeal, StartErase, sealVars, eraseVars
<1>3. CASE SealKey(p) \/ SealLook(p)
  BY <1>1, <1>3 DEF SealKey, SealLook, sealVars, eraseVars
<1>4. CASE SealLast(p)
  BY <1>1, <1>4 DEF TypeOK, SealLast, sealVars, eraseVars
<1>5. CASE \E now \in Times : SealBuild(p, now)
  BY <1>1, <1>5 DEF TypeOK, SealBuild, eraseVars
<1>6. CASE SealContent(p)
  BY <1>1, <1>6 DEF TypeOK, SealContent, eraseVars
<1>7. CASE SealCommit(p) \/ SealReport(p)
  BY <1>1, <1>7 DEF SealCommit, SealReport, sealVars, eraseVars
<1>8. CASE SealAbort(p)
  BY <1>1, <1>8 DEF SealAbort, sealVars, eraseVars
<1>9. CASE EraseReadBlob(p) \/ EraseReadMeta(p) \/ EraseReadBlocks(p)
  BY <1>1, <1>9 DEF TypeOK, EraseReadBlob, EraseReadMeta, EraseReadBlocks, sealVars
<1>10. CASE EraseReadEvents(p) \/ \E cubre \in 0..Len(chain) : EraseAuthorise(p, cubre)
  BY <1>1, <1>10 DEF EraseReadEvents, EraseAuthorise, sealVars, eraseVars
<1>11. CASE \E now \in Times : EraseLast(p, now)
  BY <1>1, <1>11 DEF TypeOK, EraseLast, sealVars, eraseVars
<1>12. CASE EraseCommit(p) \/ EraseAbort(p) \/ EraseReport(p)
  BY <1>1, <1>12 DEF EraseCommit, EraseAbort, EraseReport, sealVars, eraseVars
<1>13. CASE Exit(p)
  BY <1>1, <1>13 DEF Exit, sealVars, eraseVars
<1> QED BY <1>2, <1>3, <1>4, <1>5, <1>6, <1>7, <1>8, <1>9, <1>10, <1>11, <1>12, <1>13
        DEF SealStep, EraseStep

\* What p keeps in memory after a step of its own.
LEMMA OwnMemory ==
  ASSUME TypeOK, NEW p \in Procs, MemoryOf(p),
         Start(p) \/ SealStep(p) \/ EraseStep(p) \/ Exit(p)
  PROVE  MemoryOf(p)'
<1>0. /\ \A l : Goto(p, l) => pc'[p] = l
      /\ \A a : End(p, a) => pc'[p] = "ended"
      /\ \A l : Retry(p, l) =>
           \/ pc'[p] = "ended"
           \/ pc'[p] = l /\ tries'[p] = tries[p] + 1 /\ tries'[p] < MaxAttempts
  BY MaxAttemptsAssumption DEF TypeOK, Goto, End, Retry
<1>1. CASE \E j \in SealJobs : StartSeal(p, j)
  BY <1>0, <1>1, MaxAttemptsAssumption
     DEF TypeOK, StartSeal, MemoryOf, Active, SealStates, EraseStates
<1>2. CASE \E n \in 0..Len(chain) : StartErase(p, n)
  <2>1. job'[p] \in EraseJob
    BY <1>2, StartEraseTypes
  <2>2. pc'[p] = "erase:blob" /\ tries'[p] = 0
    BY <1>0, <1>2 DEF StartErase, MemoryOf
  <2> QED BY <2>1, <2>2, MaxAttemptsAssumption DEF MemoryOf, Active, SealStates, EraseStates
<1>3. CASE SealKey(p) \/ SealLook(p)
  BY <1>0, <1>3 DEF SealKey, SealLook, MemoryOf, Active, SealStates, EraseStates
<1>4. CASE SealLast(p)
  BY <1>0, <1>4 DEF SealLast, MemoryOf, Active, SealStates, EraseStates
<1>5. CASE \E now \in Times : SealBuild(p, now)
  <2> PICK now \in Times : SealBuild(p, now)
    BY <1>5
  <2>1. CASE RelojCoherente(prev[p], now)
    <3> DEFINE h == NewHeader(prev[p], now, job[p].tenant, job[p].typ, job[p].payload,
                              IF job[p].enc THEN "blob" ELSE "none", 0)
    <3>1. b'[p] = Append(prev[p], h)
      BY <2>1 DEF TypeOK, SealBuild
    <3>2. /\ b'[p] # << >> /\ Front(b'[p]) = prev[p] /\ Last(b'[p]) = h
      <4>1. prev[p] \in Seq(Header)
        BY DEF TypeOK
      <4>2. job[p] \in SealJobs
        BY DEF MemoryOf, SealBuild, SealStates
      <4>3. h \in Header
        BY <4>1, <4>2, SealJobType, NewHeaderType
      <4> QED BY <3>1, <4>1, <4>3, AppendParts
    <3>3. /\ h.tenant = job[p].tenant /\ h.payload = job[p].payload /\ h.typ = job[p].typ
          /\ h.cid = (IF job[p].enc THEN "blob" ELSE "none") /\ h.through = 0
      BY DEF NewHeader
    <3>4. /\ pc'[p] \in {"seal:content", "seal:commit"} /\ pc[p] = "seal:build"
          /\ job' = job /\ tries' = tries /\ prev' = prev
      BY <1>0, <2>1 DEF SealBuild
    <3> QED BY <3>2, <3>3, <3>4 DEF MemoryOf, Signed, Active, SealStates, EraseStates
  <2>2. CASE ~RelojCoherente(prev[p], now)
    BY <1>0, <2>2 DEF SealBuild, MemoryOf, Active, SealStates, EraseStates
  <2> QED BY <2>1, <2>2
<1>6. CASE SealContent(p)
  BY <1>0, <1>6 DEF SealContent, MemoryOf, Signed, Active, SealStates, EraseStates
<1>7. CASE SealCommit(p) \/ SealReport(p)
  BY <1>0, <1>7 DEF SealCommit, SealReport, MemoryOf, Active, SealStates, EraseStates
<1>8. CASE SealAbort(p)
  BY <1>0, <1>8 DEF SealAbort, MemoryOf, Active, SealStates, EraseStates
<1>9. CASE EraseReadBlob(p) \/ EraseReadMeta(p) \/ EraseReadBlocks(p)
  BY <1>0, <1>9 DEF EraseReadBlob, EraseReadMeta, EraseReadBlocks, MemoryOf, Active,
     SealStates, EraseStates
<1>10. CASE EraseReadEvents(p) \/ \E cubre \in 0..Len(chain) : EraseAuthorise(p, cubre)
  BY <1>0, <1>10 DEF EraseReadEvents, EraseAuthorise, MemoryOf, Active, SealStates, EraseStates
<1>11. CASE \E now \in Times : EraseLast(p, now)
  <2> PICK now \in Times : EraseLast(p, now)
    BY <1>11
  <2>1. CASE RelojCoherente(chain, now)
    <3> DEFINE h == NewHeader(chain, now, job[p].tenant, "nucleo.erasure.v1",
                              job[p].payload, "auth", through[p])
    <3>1. b'[p] = Append(chain, h) /\ prev'[p] = chain
      BY <2>1 DEF TypeOK, EraseLast
    <3>2. /\ b'[p] # << >> /\ Front(b'[p]) = prev'[p] /\ Last(b'[p]) = h
      <4>1. chain \in Seq(Header) /\ through[p] \in Nat
        BY DEF TypeOK
      <4>2. job[p].tenant \in Tenants /\ job[p].payload \in Payloads
        BY DEF MemoryOf, EraseLast, EraseStates, EraseJob
      <4>3. h \in Header
        BY <4>1, <4>2, NewHeaderType
      <4> QED BY <3>1, <4>1, <4>3, AppendParts
    <3>3. /\ h.tenant = job[p].tenant /\ h.payload = job[p].payload
          /\ h.typ = "nucleo.erasure.v1" /\ h.cid = "auth" /\ h.through = through[p]
      BY DEF NewHeader
    <3>4. /\ pc'[p] = "erase:commit" /\ pc[p] = "erase:last"
          /\ job' = job /\ tries' = tries /\ through' = through
      BY <1>0, <2>1 DEF EraseLast, eraseVars
    <3> QED BY <3>2, <3>3, <3>4 DEF MemoryOf, Signed, Active, SealStates, EraseStates
  <2>2. CASE ~RelojCoherente(chain, now)
    BY <1>0, <2>2 DEF EraseLast, MemoryOf, Active, SealStates, EraseStates
  <2> QED BY <2>1, <2>2
<1>12. CASE EraseCommit(p) \/ EraseAbort(p) \/ EraseReport(p)
  BY <1>0, <1>12 DEF EraseCommit, EraseAbort, EraseReport, MemoryOf, Active,
     SealStates, EraseStates
<1>13. CASE Exit(p)
  BY <1>0, <1>13 DEF Exit, MemoryOf, Active, SealStates, EraseStates
<1> QED BY <1>1, <1>2, <1>3, <1>4, <1>5, <1>6, <1>7, <1>8, <1>9, <1>10, <1>11, <1>12, <1>13
        DEF Start, SealStep, EraseStep

-----------------------------------------------------------------------------
(* The two together are inductive *)

LEMMA StepTypes ==
  ASSUME TypeOK, Memory, NEW p \in Procs, Start(p) \/ SealStep(p) \/ EraseStep(p) \/ Exit(p)
  PROVE  TypeOK'
<1>1. CASE Start(p)
  BY <1>1, StartSealTypes, StartEraseTypes DEF Start
<1>2. CASE SealStep(p)
  BY <1>2, SealKeyTypes, SealLookTypes, SealLastTypes, SealBuildTypes, SealContentTypes,
     SealCommitTypes, SealAbortTypes, SealReportTypes DEF SealStep
<1>3. CASE EraseStep(p)
  BY <1>3, EraseReadsTypes, EraseDecisionsTypes, EraseLastTypes, EraseCommitTypes,
     EraseAbortTypes DEF EraseStep
<1>4. CASE Exit(p)
  BY <1>4, ExitTypes
<1> QED BY <1>1, <1>2, <1>3, <1>4

LEMMA StepMemory ==
  ASSUME TypeOK, Memory, NEW p \in Procs, Start(p) \/ SealStep(p) \/ EraseStep(p) \/ Exit(p)
  PROVE  Memory'
<1> SUFFICES ASSUME NEW q \in Procs PROVE MemoryOf(q)'
  BY DEF Memory
<1>1. CASE q = p
  BY <1>1, OwnMemory DEF Memory
<1>2. CASE q # p
  BY <1>2, OthersMemory DEF Memory, MemoryOf, Signed, Active
<1> QED BY <1>1, <1>2

LEMMA InitTypes ==
  ASSUME Init
  PROVE  TypeOK /\ Memory
<1>1. << >> \in Seq(Header) /\ << >> \in Seq(Procs) /\ << >> \in Seq(Answers)
  OBVIOUS
<1>2. TypeOK
  BY <1>1, MaxAttemptsAssumption DEF Init, TypeOK, Answers
<1>3. Memory
  BY DEF Init, Memory, MemoryOf, Active, SealStates, EraseStates
<1> QED BY <1>2, <1>3

\* Every variable of the file and of every command keeps its type, for any
\* number of commands and attempts: in particular no step reads the request of
\* another kind of command, and no command makes more than intentosDeSellado
\* attempts.
THEOREM TypeCorrect == Spec => []TypeOK
<1>1. Init => TypeOK /\ Memory
  BY InitTypes
<1>2. TypeOK /\ Memory /\ [Next]_vars => (TypeOK /\ Memory)'
  <2> SUFFICES ASSUME TypeOK, Memory, [Next]_vars
               PROVE  (TypeOK /\ Memory)'
    OBVIOUS
  <2>1. CASE Next
    BY <2>1, StepTypes, StepMemory DEF Next
  <2>2. CASE UNCHANGED vars
    BY <2>2 DEF vars, store, sealVars, eraseVars, TypeOK, Memory, MemoryOf, Signed, Active
  <2> QED BY <2>1, <2>2
<1> QED BY <1>1, <1>2, PTL DEF Spec

-----------------------------------------------------------------------------
(* The chain *)

\* Only the two transactions write the file.
LEMMA StoreSteps ==
  ASSUME NEW p \in Procs, Start(p) \/ SealStep(p) \/ EraseStep(p) \/ Exit(p)
  PROVE  SealCommit(p) \/ EraseCommit(p) \/ UNCHANGED store
  BY DEF Start, SealStep, EraseStep, StartSeal, SealKey, SealLook, SealLast, SealBuild,
     SealContent, SealAbort, SealReport, StartErase, EraseReadBlob, EraseReadMeta,
     EraseReadBlocks, EraseReadEvents, EraseAuthorise, EraseLast, EraseAbort, EraseReport, Exit

\* What a transaction leaves in the chain: the old blocks and one more.
LEMMA AppendedChain ==
  ASSUME TypeOK, NEW p \in Procs, NEW rec, AppendRecord(p, rec), b[p] # << >>
  PROVE  /\ Last(b[p]) \in Header
         /\ Len(chain) \in Nat /\ Len(chain') = Len(chain) + 1
         /\ \A i \in 1..Len(chain) : chain'[i] = chain[i]
         /\ chain'[Len(chain) + 1] = Last(b[p])
         /\ chain' \in Seq(Header)
<1>1. chain \in Seq(Header) /\ Last(b[p]) \in Header /\ chain' = Append(chain, Last(b[p]))
  BY LastType DEF TypeOK, AppendRecord
<1> HIDE DEF AppendRecord
<1> QED BY <1>1

LEMMA AppendLinked ==
  ASSUME TypeOK, ChainIsLinked, NEW p \in Procs, NEW rec, AppendRecord(p, rec), b[p] # << >>
  PROVE  ChainIsLinked'
<1> DEFINE n == Len(chain)
<1>1. /\ n \in Nat /\ Len(chain') = n + 1 /\ chain' \in Seq(Header) /\ chain \in Seq(Header)
      /\ \A i \in 1..n : chain'[i] = chain[i]
      /\ chain'[n + 1] = Last(b[p]) /\ Last(b[p]) \in Header
  BY AppendedChain DEF TypeOK
<1>2. /\ Last(b[p]).index = IF chain = << >> THEN 0 ELSE Last(chain).index + 1
      /\ chain # << >> => ~(Last(b[p]).time < Last(chain).time)
  BY CheckLinkOk DEF TypeOK, AppendRecord
<1>3. /\ Last(b[p]).index = n
      /\ n > 0 => Last(b[p]).time >= chain[n].time
  <2>1. CASE chain = << >>
    BY <1>1, <1>2, <2>1
  <2>2. CASE chain # << >>
    <3>1. n > 0 /\ Last(chain) = chain[n] /\ chain[n] \in Header /\ n \in DOMAIN chain
      BY <1>1, <2>2 DEF Last
    <3>2. chain[n].index = n - 1
      BY <3>1 DEF ChainIsLinked
    <3>3. chain[n].time \in Nat /\ Last(b[p]).time \in Nat
      BY <1>1, <3>1, TimesAssumption DEF Header
    <3> QED BY <1>1, <1>2, <2>2, <3>1, <3>2, <3>3
  <2> QED BY <2>1, <2>2
<1> SUFFICES ASSUME NEW i \in 1..n + 1
             PROVE  /\ chain'[i].index = i - 1
                    /\ i > 1 => chain'[i].time >= chain'[i - 1].time
  BY <1>1 DEF ChainIsLinked
<1>4. CASE i = n + 1
  BY <1>1, <1>3, <1>4
<1>5. CASE i \in 1..n
  <2>1. /\ chain[i].index = i - 1
        /\ i > 1 => chain[i].time >= chain[i - 1].time
    BY <1>1, <1>5 DEF ChainIsLinked
  <2> QED BY <1>1, <1>5, <2>1
<1> QED BY <1>1, <1>4, <1>5

\* The chain stays linked whatever the commands interleave: a block signed over
\* a chain that has moved on never gets in, although it was built, timed and
\* signed before the transaction.
THEOREM ChainStaysLinked == Spec => []ChainIsLinked
<1>1. Init => TypeOK /\ Memory /\ ChainIsLinked
  <2>1. Init => ChainIsLinked
    BY DEF Init, ChainIsLinked
  <2> QED BY <2>1, InitTypes
<1>2. TypeOK /\ Memory /\ ChainIsLinked /\ [Next]_vars => (TypeOK /\ Memory /\ ChainIsLinked)'
  <2> SUFFICES ASSUME TypeOK, Memory, ChainIsLinked, [Next]_vars
               PROVE  (TypeOK /\ Memory /\ ChainIsLinked)'
    OBVIOUS
  <2>1. CASE Next
    <3> PICK p \in Procs : Start(p) \/ SealStep(p) \/ EraseStep(p) \/ Exit(p)
      BY <2>1 DEF Next
    <3>1. CASE SealCommit(p)
      <4>1. AppendRecord(p, SealRecord(p)) /\ b[p] # << >>
        BY <3>1 DEF SealCommit, Memory, MemoryOf, Signed
      <4>2. ChainIsLinked'
        BY <4>1, AppendLinked
      <4> QED BY <4>2, StepTypes, StepMemory
    <3>2. CASE EraseCommit(p)
      <4>1. AppendRecord(p, EraseRecord(p)) /\ b[p] # << >>
        BY <3>2 DEF EraseCommit, Memory, MemoryOf, Signed
      <4>2. ChainIsLinked'
        BY <4>1, AppendLinked
      <4> QED BY <4>2, StepTypes, StepMemory
    <3>3. CASE UNCHANGED store
      <4>1. ChainIsLinked'
        BY <3>3 DEF store, ChainIsLinked
      <4> QED BY <4>1, StepTypes, StepMemory
    <3> QED BY <3>1, <3>2, <3>3, StoreSteps
  <2>2. CASE UNCHANGED vars
    BY <2>2 DEF vars, store, sealVars, eraseVars, TypeOK, Memory, MemoryOf, Signed, Active,
       ChainIsLinked
  <2> QED BY <2>1, <2>2
<1> QED BY <1>1, <1>2, PTL DEF Spec

-----------------------------------------------------------------------------
(* Who wrote each block *)

\* The author of a block is a command that has finished writing, and a document
\* block carries the request of its author.
Written ==
  /\ Len(author) = Len(chain)
  /\ \A i \in 1..Len(chain) :
       /\ pc[author[i]] \in {"seal:report", "erase:report", "ended"}
       /\ ~IsEvent(chain[i]) => /\ job[author[i]] \in SealJobs
                                /\ chain[i].tenant = job[author[i]].tenant
                                /\ chain[i].payload = job[author[i]].payload
                                /\ chain[i].typ = job[author[i]].typ
       /\ IsEvent(chain[i]) => job[author[i]] \in EraseJob

\* A command that has started keeps its request, and one that has ended stays so.
LEMMA Steady ==
  ASSUME TypeOK, NEW p \in Procs, NEW q \in Procs,
         Start(p) \/ SealStep(p) \/ EraseStep(p) \/ Exit(p)
  PROVE  /\ pc[q] # "new" => job'[q] = job[q] /\ pc'[q] # "new"
         /\ pc[q] \in {"seal:report", "erase:report", "ended"} =>
              pc'[q] \in {"seal:report", "erase:report", "ended"}
<1>1. CASE q # p
  BY <1>1, OthersMemory
<1>2. CASE q = p
  <2>0. /\ \A l : Goto(p, l) => pc'[p] = l
        /\ \A a : End(p, a) => pc'[p] = "ended"
        /\ \A l : Retry(p, l) => pc'[p] = "ended" \/ pc'[p] = l
    BY DEF TypeOK, Goto, End, Retry
  <2>1. CASE Start(p)
    BY <1>2, <2>1 DEF Start, StartSeal, StartErase
  <2>2. CASE SealStep(p)
    BY <1>2, <2>0, <2>2 DEF SealStep, SealKey, SealLook, SealLast, SealBuild, SealContent,
       SealCommit, SealAbort, SealReport
  <2>3. CASE EraseStep(p)
    BY <1>2, <2>0, <2>3 DEF EraseStep, EraseReadBlob, EraseReadMeta, EraseReadBlocks,
       EraseReadEvents, EraseAuthorise, EraseLast, EraseCommit, EraseAbort, EraseReport
  <2>4. CASE Exit(p)
    BY <1>2, <2>0, <2>4 DEF Exit
  <2> QED BY <2>1, <2>2, <2>3, <2>4
<1> QED BY <1>1, <1>2

\* What a transaction leaves in author.
LEMMA AppendedAuthor ==
  ASSUME TypeOK, Len(author) = Len(chain), NEW p \in Procs, NEW rec, AppendRecord(p, rec)
  PROVE  /\ Len(author') = Len(chain) + 1
         /\ \A i \in 1..Len(chain) : author'[i] = author[i] /\ author[i] \in Procs
         /\ author'[Len(chain) + 1] = p
<1>1. author \in Seq(Procs) /\ author' = Append(author, p)
  BY DEF TypeOK, AppendRecord
<1> HIDE DEF AppendRecord
<1> QED BY <1>1

LEMMA StepWritten ==
  ASSUME TypeOK, Memory, Written, NEW p \in Procs,
         Start(p) \/ SealStep(p) \/ EraseStep(p) \/ Exit(p)
  PROVE  Written'
<1> DEFINE n == Len(chain)
           Done == {"seal:report", "erase:report", "ended"}
           Mine(blk, q, jobs) ==
             /\ ~IsEvent(blk) => /\ jobs[q] \in SealJobs
                                 /\ blk.tenant = jobs[q].tenant
                                 /\ blk.payload = jobs[q].payload
                                 /\ blk.typ = jobs[q].typ
             /\ IsEvent(blk) => jobs[q] \in EraseJob
<1>1. n \in Nat /\ \A i \in 1..n : author[i] \in Procs
  BY DEF TypeOK, Written
<1>2. \A i \in 1..n : pc'[author[i]] \in Done /\ Mine(chain[i], author[i], job')
  <2> TAKE i \in 1..n
  <2>1. pc[author[i]] \in Done /\ author[i] \in Procs /\ Mine(chain[i], author[i], job)
    BY <1>1 DEF Written
  <2>2. pc'[author[i]] \in Done /\ job'[author[i]] = job[author[i]]
    BY <2>1, Steady
  <2> QED BY <2>1, <2>2
<1>3. ASSUME NEW rec, AppendRecord(p, rec), b[p] # << >>,
             pc'[p] \in Done, Mine(Last(b[p]), p, job')
      PROVE  Written'
  <2>1. /\ Len(chain') = n + 1 /\ \A i \in 1..n : chain'[i] = chain[i]
        /\ chain'[n + 1] = Last(b[p])
    BY <1>3, AppendedChain
  <2>2. /\ Len(author') = n + 1 /\ \A i \in 1..n : author'[i] = author[i]
        /\ author'[n + 1] = p
    BY <1>3, AppendedAuthor DEF Written
  <2>3. \A i \in 1..n + 1 : i \in 1..n \/ i = n + 1
    BY <1>1
  <2> QED BY <1>1, <1>2, <1>3, <2>1, <2>2, <2>3 DEF Written, IsEvent
<1>4. CASE SealCommit(p)
  <2>1. /\ AppendRecord(p, SealRecord(p)) /\ b[p] # << >>
        /\ pc'[p] = "seal:report" /\ job' = job
    BY <1>4 DEF SealCommit, Memory, MemoryOf, Signed, Goto, TypeOK
  <2>2. Mine(Last(b[p]), p, job)
    BY <1>4 DEF SealCommit, Memory, MemoryOf, Signed, SealStates, IsEvent
  <2> QED BY <1>3, <2>1, <2>2
<1>5. CASE EraseCommit(p)
  <2>1. /\ AppendRecord(p, EraseRecord(p)) /\ b[p] # << >>
        /\ pc'[p] = "erase:report" /\ job' = job
    BY <1>5 DEF EraseCommit, Memory, MemoryOf, Signed, Goto, TypeOK
  <2>2. Mine(Last(b[p]), p, job)
    BY <1>5 DEF EraseCommit, Memory, MemoryOf, Signed, EraseStates, IsEvent
  <2> QED BY <1>3, <2>1, <2>2
<1>6. CASE UNCHANGED store
  BY <1>2, <1>6 DEF store, Written, IsEvent
<1> QED BY <1>4, <1>5, <1>6, StoreSteps

-----------------------------------------------------------------------------
(* Idempotency keys *)

\* Between its look at a patient key and its transaction, a command owns the
\* key: nothing has been sealed under it, and no other seal holds it.
KeysHeld ==
  /\ \A p \in Procs :
       pc[p] \in {"seal:last", "seal:build", "seal:content", "seal:commit"}
       /\ job[p].key \in PatientKeys => KeyedBlocks(KeyOf(p)) = {}
  /\ \A p, q \in Procs :
       /\ pc[p] \in SealStates /\ pc[q] \in SealStates
       /\ job[p].key \in PatientKeys /\ KeyOf(p) = KeyOf(q)
       => p = q

KeyInv == TypeOK /\ Memory /\ ChainIsLinked /\ Written
          /\ IdempotencyRecordIsTrue /\ PatientKeysSealOnce /\ KeysHeld

\* A step that writes no block changes no key's blocks.
LEMMA KeyedUnchanged ==
  ASSUME TypeOK, Written, NEW p \in Procs, UNCHANGED store,
         Start(p) \/ SealStep(p) \/ EraseStep(p) \/ Exit(p), NEW tk
  PROVE  KeyedBlocks(tk)' = KeyedBlocks(tk)
<1>1. \A i \in 1..Len(chain) : job'[author[i]] = job[author[i]]
  <2> TAKE i \in 1..Len(chain)
  <2>1. author[i] \in Procs
    BY DEF TypeOK, Written
  <2>2. pc[author[i]] # "new"
    BY DEF Written
  <2> QED BY <2>1, <2>2, Steady
<1>2. chain' = chain /\ author' = author /\ DOMAIN chain = 1..Len(chain)
  BY DEF store, TypeOK
<1> QED BY <1>1, <1>2 DEF KeyedBlocks, KeyOf, IsEvent

\* A transaction adds its block to the blocks of its author's key, when it is a
\* document.
LEMMA KeyedAfter ==
  ASSUME TypeOK, Written, NEW p \in Procs, NEW rec, AppendRecord(p, rec), b[p] # << >>,
         job' = job, NEW tk
  PROVE  KeyedBlocks(tk)' = KeyedBlocks(tk) \cup
           {i \in {Len(chain) + 1} : ~IsEvent(Last(b[p])) /\ KeyOf(p) = tk}
<1> DEFINE n == Len(chain)
<1>1. /\ n \in Nat /\ Len(chain') = n + 1 /\ \A i \in 1..n : chain'[i] = chain[i]
      /\ chain'[n + 1] = Last(b[p]) /\ chain' \in Seq(Header) /\ chain \in Seq(Header)
  BY AppendedChain DEF TypeOK
<1>2. /\ \A i \in 1..n : author'[i] = author[i]
      /\ author'[n + 1] = p
  BY AppendedAuthor DEF Written
<1>3. DOMAIN chain = 1..n /\ DOMAIN chain' = 1..n + 1
  BY <1>1
<1>4. \A i \in 1..n : i \in KeyedBlocks(tk)' <=> i \in KeyedBlocks(tk)
  BY <1>1, <1>2, <1>3 DEF KeyedBlocks, KeyOf, IsEvent
<1>5. n + 1 \in KeyedBlocks(tk)' <=> ~IsEvent(Last(b[p])) /\ KeyOf(p) = tk
  BY <1>1, <1>2, <1>3 DEF KeyedBlocks, KeyOf, IsEvent
<1>6. KeyedBlocks(tk)' \subseteq 1..n + 1 /\ KeyedBlocks(tk) \subseteq 1..n
  BY <1>3 DEF KeyedBlocks
<1>7. \A i \in 1..n + 1 : i \in 1..n \/ i = n + 1
  BY <1>1
<1> QED BY <1>4, <1>5, <1>6, <1>7

\* The block that a transaction writes is numbered with the chain's length.
LEMMA NextIndex ==
  ASSUME TypeOK, ChainIsLinked, NEW p \in Procs, NEW rec, AppendRecord(p, rec), b[p] # << >>
  PROVE  Last(b[p]).index = Len(chain)
<1>1. Last(b[p]).index = IF chain = << >> THEN 0 ELSE Last(chain).index + 1
  BY CheckLinkOk DEF TypeOK, AppendRecord
<1>2. CASE chain = << >>
  BY <1>1, <1>2
<1>3. CASE chain # << >>
  <2>1. Len(chain) \in DOMAIN chain /\ Last(chain) = chain[Len(chain)]
    BY <1>3 DEF Last, TypeOK
  <2>2. Last(chain).index = Len(chain) - 1
    BY <2>1 DEF ChainIsLinked
  <2> QED BY <1>1, <1>3, <2>2 DEF TypeOK
<1> QED BY <1>2, <1>3

LEMMA SealCommitKeys ==
  ASSUME KeyInv, NEW p \in Procs, SealCommit(p)
  PROVE  IdempotencyRecordIsTrue' /\ PatientKeysSealOnce'
<1> DEFINE n == Len(chain)
           e == EntradaIdem(p)
<1>1. /\ job[p] \in SealJobs /\ AppendRecord(p, SealRecord(p)) /\ b[p] # << >> /\ job' = job
      /\ Last(b[p]).payload = job[p].payload /\ Last(b[p]).tenant = job[p].tenant
      /\ Last(b[p]).typ = job[p].typ /\ ~IsEvent(Last(b[p]))
  BY DEF KeyInv, SealCommit, Memory, MemoryOf, Signed, SealStates, IsEvent
<1>2. /\ n \in Nat /\ Len(chain') = n + 1 /\ \A i \in 1..n : chain'[i] = chain[i]
      /\ chain'[n + 1] = Last(b[p]) /\ Last(b[p]) \in Header
  BY <1>1, AppendedChain DEF KeyInv
<1>3. Last(b[p]).index = n
  BY <1>1, NextIndex DEF KeyInv
<1>4. \A tk : KeyedBlocks(tk)' = KeyedBlocks(tk) \cup {i \in {n + 1} : KeyOf(p) = tk}
  BY <1>1, KeyedAfter DEF KeyInv
<1>5. \A tk : KeyedBlocks(tk) \subseteq 1..n
  <2>1. DOMAIN chain = 1..n
    BY DEF KeyInv, TypeOK
  <2> QED BY <2>1 DEF KeyedBlocks
<1>6. idem' = IF HasKey(p) THEN [idem EXCEPT ![KeyOf(p)] = e] ELSE idem
  BY <1>1 DEF AppendRecord, StateAfter, SealRecord
<1>7. \A tk \in Tenants \X Keys : tk = KeyOf(p) => HasKey(p)
  BY KeysAssumption DEF KeyOf, HasKey
<1>8. IdempotencyRecordIsTrue'
  <2> SUFFICES ASSUME NEW tk \in Tenants \X Keys
               PROVE  IF idem'[tk] = NoRecord THEN KeyedBlocks(tk)' = {}
                      ELSE /\ idem'[tk].block + 1 \in KeyedBlocks(tk)'
                           /\ chain'[idem'[tk].block + 1].payload = idem'[tk].payload
                           /\ chain'[idem'[tk].block + 1].tenant = tk[1]
                           /\ chain'[idem'[tk].block + 1].typ = idem'[tk].typ
    BY DEF IdempotencyRecordIsTrue
  <2>1. CASE tk = KeyOf(p)
    <3>1. idem'[tk] = e
      BY <1>6, <1>7, <2>1 DEF KeyInv, TypeOK
    <3>2. e \in IdemRecord /\ e.block = n /\ e.payload = job[p].payload /\ e.typ = job[p].typ
      BY <1>1, <1>2, <1>3, SealJobType DEF EntradaIdem, IdemRecord
    <3>3. e # NoRecord
      BY <3>2, NoRecordAssumption
    <3>4. tk[1] = job[p].tenant
      BY <2>1 DEF KeyOf
    <3>5. n + 1 \in KeyedBlocks(tk)'
      BY <1>4, <2>1
    <3> QED BY <1>1, <1>2, <3>1, <3>2, <3>3, <3>4, <3>5
  <2>2. CASE tk # KeyOf(p)
    <3>1. idem'[tk] = idem[tk]
      BY <1>6, <2>2 DEF KeyInv, TypeOK
    <3>2. KeyedBlocks(tk)' = KeyedBlocks(tk)
      BY <1>4, <2>2
    <3>3. CASE idem[tk] = NoRecord
      BY <3>1, <3>2, <3>3 DEF KeyInv, IdempotencyRecordIsTrue
    <3>4. CASE idem[tk] # NoRecord
      <4>1. /\ idem[tk].block + 1 \in KeyedBlocks(tk)
            /\ chain[idem[tk].block + 1].payload = idem[tk].payload
            /\ chain[idem[tk].block + 1].tenant = tk[1]
            /\ chain[idem[tk].block + 1].typ = idem[tk].typ
        BY <3>4 DEF KeyInv, IdempotencyRecordIsTrue
      <4> QED BY <1>2, <1>5, <3>1, <3>2, <3>4, <4>1
    <3> QED BY <3>3, <3>4
  <2> QED BY <2>1, <2>2
<1>9. PatientKeysSealOnce'
  <2> SUFFICES ASSUME NEW tk \in Tenants \X PatientKeys,
                      NEW i \in KeyedBlocks(tk)', NEW k \in KeyedBlocks(tk)'
               PROVE  i = k
    BY DEF PatientKeysSealOnce
  <2>1. CASE tk = KeyOf(p)
    <3>1. job[p].key \in PatientKeys
      BY <2>1 DEF KeyOf
    <3>2. KeyedBlocks(tk) = {}
      BY <2>1, <3>1 DEF KeyInv, KeysHeld, SealCommit
    <3> QED BY <1>4, <3>2
  <2>2. CASE tk # KeyOf(p)
    BY <1>4, <2>2 DEF KeyInv, PatientKeysSealOnce
  <2> QED BY <2>1, <2>2
<1> QED BY <1>8, <1>9

\* A step that writes no block keeps the keys held.
LEMMA QuietKeysHeld ==
  ASSUME KeyInv, NEW p \in Procs, Start(p) \/ SealStep(p) \/ EraseStep(p) \/ Exit(p),
         UNCHANGED store
  PROVE  KeysHeld'
<1> DEFINE Holding == {"seal:last", "seal:build", "seal:content", "seal:commit"}
<1>1. \A tk : KeyedBlocks(tk)' = KeyedBlocks(tk)
  BY KeyedUnchanged DEF KeyInv
<1>2. \A q \in Procs : q # p => pc'[q] = pc[q] /\ job'[q] = job[q]
  BY OthersMemory DEF KeyInv
<1>3. CASE \E j \in SealJobs : StartSeal(p, j)
  <2> PICK j \in SealJobs : StartSeal(p, j)
    BY <1>3
  <2>1. pc'[p] = "seal:key" /\ job'[p] = j
    BY DEF StartSeal, Goto, KeyInv, TypeOK
  <2>2. j.key \in PatientKeys =>
          \A q \in Procs : pc[q] \in SealStates =>
            <<job[q].tenant, job[q].key>> # <<j.tenant, j.key>>
    BY DEF StartSeal
  <2>3. ASSUME NEW q \in Procs, pc'[q] \in Holding, job'[q].key \in PatientKeys
        PROVE  KeyedBlocks(KeyOf(q))' = {}
    <3>1. q # p
      BY <2>1, <2>3
    <3>2. pc[q] \in Holding /\ job[q].key \in PatientKeys /\ KeyOf(q)' = KeyOf(q)
      BY <1>2, <2>3, <3>1 DEF KeyOf
    <3>3. KeyedBlocks(KeyOf(q)) = {}
      BY <3>2 DEF KeyInv, KeysHeld
    <3> QED BY <3>2, <3>3, KeyedUnchanged DEF KeyInv, KeyedBlocks
  <2>4. ASSUME NEW q \in Procs, NEW r \in Procs, pc'[q] \in SealStates, pc'[r] \in SealStates,
               job'[q].key \in PatientKeys, KeyOf(q)' = KeyOf(r)'
        PROVE  q = r
    <3>1. CASE q # p /\ r # p
      BY <1>2, <2>4, <3>1 DEF KeyInv, KeysHeld, KeyOf
    <3>2. CASE q = p /\ r # p
      BY <1>2, <2>1, <2>2, <2>4, <3>2 DEF KeyOf
    <3>3. CASE q # p /\ r = p
      BY <1>2, <2>1, <2>2, <2>4, <3>3 DEF KeyOf
    <3> QED BY <3>1, <3>2, <3>3
  <2> QED BY <2>3, <2>4 DEF KeysHeld
<1>4. CASE ~ \E j \in SealJobs : StartSeal(p, j)
  <2>1. pc'[p] \in SealStates => pc[p] \in SealStates /\ job'[p] = job[p]
    <3>0. /\ \A l : Goto(p, l) => pc'[p] = l
          /\ \A a : End(p, a) => pc'[p] = "ended"
          /\ \A l : Retry(p, l) => pc'[p] = "ended" \/ pc'[p] = l
      BY DEF KeyInv, TypeOK, Goto, End, Retry
    <3>1. CASE Start(p)
      BY <1>4, <3>0, <3>1 DEF Start, StartErase, SealStates
    <3>2. CASE SealStep(p)
      BY <3>2 DEF SealStep, SealKey, SealLook, SealLast, SealBuild, SealContent, SealCommit,
         SealAbort, SealReport, SealStates
    <3>3. CASE EraseStep(p)
      BY <3>0, <3>3 DEF EraseStep, EraseReadBlob, EraseReadMeta, EraseReadBlocks,
         EraseReadEvents, EraseAuthorise, EraseLast, EraseCommit, EraseAbort, EraseReport,
         SealStates
    <3>4. CASE Exit(p)
      BY <3>0, <3>4 DEF Exit, SealStates
    <3> QED BY <3>1, <3>2, <3>3, <3>4
  <2>2. ASSUME pc'[p] \in Holding, job[p].key \in PatientKeys
        PROVE  KeyedBlocks(KeyOf(p)) = {}
    <3>1. CASE pc[p] \in Holding
      BY <2>2, <3>1 DEF KeyInv, KeysHeld
    <3>2. CASE pc[p] \notin Holding
      <4>1. SealLook(p) /\ ~Recorded(p)
        BY <1>4, <2>2, <3>2 DEF Start, SealStep, EraseStep, StartErase, SealKey, SealLook,
           SealLast, SealBuild, SealContent, SealCommit, SealAbort, SealReport,
           EraseReadBlob, EraseReadMeta, EraseReadBlocks, EraseReadEvents, EraseAuthorise,
           EraseLast, EraseCommit, EraseAbort, EraseReport, Exit, End, Retry, Goto, KeyInv, TypeOK
      <4>2. HasKey(p) /\ job[p] \in SealJobs
        BY <2>2, <4>1, KeysAssumption DEF HasKey, SealLook, SealStates, KeyInv, Memory, MemoryOf
      <4>3. KeyOf(p) \in Tenants \X Keys
        BY <4>2, SealJobType
      <4>4. idem[KeyOf(p)] = NoRecord
        BY <4>1, <4>2 DEF Recorded
      <4> QED BY <4>3, <4>4 DEF KeyInv, IdempotencyRecordIsTrue
    <3> QED BY <3>1, <3>2
  <2>3. ASSUME NEW q \in Procs, pc'[q] \in Holding, job'[q].key \in PatientKeys
        PROVE  KeyedBlocks(KeyOf(q))' = {}
    <3>1. job'[q] = job[q]
      BY <1>2, <2>1, <2>3 DEF SealStates
    <3>2. KeyedBlocks(KeyOf(q)) = {}
      BY <1>2, <2>2, <2>3, <3>1 DEF KeyInv, KeysHeld
    <3>3. KeyOf(q)' = KeyOf(q)
      BY <3>1 DEF KeyOf
    <3> QED BY <3>2, <3>3, KeyedUnchanged DEF KeyInv, KeyedBlocks
  <2>4. ASSUME NEW q \in Procs, NEW r \in Procs, pc'[q] \in SealStates, pc'[r] \in SealStates,
               job'[q].key \in PatientKeys, KeyOf(q)' = KeyOf(r)'
        PROVE  q = r
    <3>1. /\ pc[q] \in SealStates /\ job'[q] = job[q]
          /\ pc[r] \in SealStates /\ job'[r] = job[r]
      BY <1>2, <2>1, <2>4
    <3> QED BY <2>4, <3>1 DEF KeyInv, KeysHeld, KeyOf
  <2> QED BY <2>3, <2>4 DEF KeysHeld
<1> QED BY <1>3, <1>4

\* A transaction keeps the keys held: no other command holds the author's key.
LEMMA CommitKeysHeld ==
  ASSUME KeyInv, NEW p \in Procs, SealCommit(p) \/ EraseCommit(p)
  PROVE  KeysHeld'
<1> DEFINE Holding == {"seal:last", "seal:build", "seal:content", "seal:commit"}
<1>1. /\ job' = job /\ b[p] # << >> /\ \E rec : AppendRecord(p, rec)
      /\ SealCommit(p) => pc'[p] = "seal:report" /\ pc[p] = "seal:commit"
      /\ EraseCommit(p) => pc'[p] = "erase:report" /\ pc[p] = "erase:commit"
                           /\ IsEvent(Last(b[p]))
  BY DEF SealCommit, EraseCommit, Goto, KeyInv, TypeOK, Memory, MemoryOf, Signed, IsEvent
<1>2. \A q \in Procs : q # p => pc'[q] = pc[q]
  BY OthersMemory DEF KeyInv, SealStep, EraseStep
<1>3. ASSUME NEW q \in Procs, pc'[q] \in Holding, job[q].key \in PatientKeys
      PROVE  KeyedBlocks(KeyOf(q))' = {}
  <2>1. q # p /\ pc[q] \in Holding
    BY <1>1, <1>2, <1>3
  <2>2. KeyedBlocks(KeyOf(q)) = {}
    BY <1>3, <2>1 DEF KeyInv, KeysHeld
  <2>3. IsEvent(Last(b[p])) \/ KeyOf(p) # KeyOf(q)
    <3>1. CASE SealCommit(p)
      <4>1. pc[p] \in SealStates /\ pc[q] \in SealStates
        BY <1>1, <2>1, <3>1 DEF SealStates
      <4> QED BY <1>3, <2>1, <4>1 DEF KeyInv, KeysHeld
    <3>2. CASE EraseCommit(p)
      BY <1>1, <3>2
    <3> QED BY <3>1, <3>2
  <2>4. \A tk : KeyedBlocks(tk)' = KeyedBlocks(tk) \cup
               {i \in {Len(chain) + 1} : ~IsEvent(Last(b[p])) /\ KeyOf(p) = tk}
    BY <1>1, KeyedAfter DEF KeyInv
  <2>5. KeyOf(q)' = KeyOf(q)
    BY <1>1 DEF KeyOf
  <2>6. PICK tk : tk = KeyOf(q)
    OBVIOUS
  <2>7. KeyedBlocks(tk)' = {}
    BY <2>2, <2>3, <2>4, <2>6
  <2> QED BY <2>5, <2>6, <2>7 DEF KeyedBlocks
<1>4. ASSUME NEW q \in Procs, NEW r \in Procs, pc'[q] \in SealStates, pc'[r] \in SealStates,
             job[q].key \in PatientKeys, KeyOf(q)' = KeyOf(r)'
      PROVE  q = r
  <2>1. \A s \in Procs : pc'[s] \in SealStates => pc[s] \in SealStates
    BY <1>1, <1>2 DEF SealStates
  <2> QED BY <1>1, <1>4, <2>1 DEF KeyInv, KeysHeld, KeyOf
<1> QED BY <1>1, <1>3, <1>4 DEF KeysHeld

\* An event is sealed under no key.
LEMMA EraseCommitKeys ==
  ASSUME KeyInv, NEW p \in Procs, EraseCommit(p)
  PROVE  IdempotencyRecordIsTrue' /\ PatientKeysSealOnce'
<1>1. /\ AppendRecord(p, EraseRecord(p)) /\ b[p] # << >> /\ job' = job
      /\ IsEvent(Last(b[p]))
  BY DEF KeyInv, EraseCommit, Memory, MemoryOf, Signed, IsEvent
<1>2. \A i \in 1..Len(chain) : chain'[i] = chain[i]
  BY <1>1, AppendedChain DEF KeyInv
<1>3. \A tk : KeyedBlocks(tk)' = KeyedBlocks(tk)
  BY <1>1, KeyedAfter DEF KeyInv
<1>4. \A tk : KeyedBlocks(tk) \subseteq 1..Len(chain)
  <2>1. DOMAIN chain = 1..Len(chain)
    BY DEF KeyInv, TypeOK
  <2> QED BY <2>1 DEF KeyedBlocks
<1>5. idem' = idem
  BY <1>1 DEF AppendRecord, StateAfter, EraseRecord
<1>6. PatientKeysSealOnce'
  BY <1>3 DEF KeyInv, PatientKeysSealOnce
<1>7. IdempotencyRecordIsTrue'
  <2> SUFFICES ASSUME NEW tk \in Tenants \X Keys
               PROVE  IF idem[tk] = NoRecord THEN KeyedBlocks(tk)' = {}
                      ELSE /\ idem[tk].block + 1 \in KeyedBlocks(tk)'
                           /\ chain'[idem[tk].block + 1].payload = idem[tk].payload
                           /\ chain'[idem[tk].block + 1].tenant = tk[1]
                           /\ chain'[idem[tk].block + 1].typ = idem[tk].typ
    BY <1>5 DEF IdempotencyRecordIsTrue
  <2>1. CASE idem[tk] = NoRecord
    BY <1>3, <2>1 DEF KeyInv, IdempotencyRecordIsTrue
  <2>2. CASE idem[tk] # NoRecord
    BY <1>2, <1>3, <1>4, <2>2 DEF KeyInv, IdempotencyRecordIsTrue
  <2> QED BY <2>1, <2>2
<1> QED BY <1>6, <1>7

LEMMA StepKeys ==
  ASSUME KeyInv, NEW p \in Procs, Start(p) \/ SealStep(p) \/ EraseStep(p) \/ Exit(p)
  PROVE  KeyInv'
<1>1. TypeOK' /\ Memory' /\ Written'
  BY StepTypes, StepMemory, StepWritten DEF KeyInv
<1>2. CASE SealCommit(p) \/ EraseCommit(p)
  <2>1. ChainIsLinked'
    <3>1. b[p] # << >> /\ \E rec : AppendRecord(p, rec)
      BY <1>2 DEF SealCommit, EraseCommit, KeyInv, Memory, MemoryOf, Signed
    <3> QED BY <3>1, AppendLinked DEF KeyInv
  <2> QED BY <1>1, <1>2, <2>1, SealCommitKeys, EraseCommitKeys, CommitKeysHeld DEF KeyInv
<1>3. CASE UNCHANGED store
  <2>1. \A tk : KeyedBlocks(tk)' = KeyedBlocks(tk)
    BY <1>3, KeyedUnchanged DEF KeyInv
  <2>2. ChainIsLinked' /\ PatientKeysSealOnce'
    BY <1>3, <2>1 DEF KeyInv, store, ChainIsLinked, PatientKeysSealOnce
  <2>3. IdempotencyRecordIsTrue'
    BY <1>3, <2>1 DEF KeyInv, store, IdempotencyRecordIsTrue
  <2> QED BY <1>1, <1>3, <2>2, <2>3, QuietKeysHeld DEF KeyInv
<1> QED BY <1>2, <1>3, StoreSteps

\* An empty file and commands that have not started.
LEMMA InitKeys ==
  ASSUME Init
  PROVE  KeyInv
<1>1. TypeOK /\ Memory
  BY InitTypes
<1>2. chain = << >> /\ author = << >> /\ DOMAIN chain = {}
  BY DEF Init
<1>3. \A tk : KeyedBlocks(tk) = {}
  BY <1>2 DEF KeyedBlocks
<1>4. IdempotencyRecordIsTrue /\ PatientKeysSealOnce
  BY <1>3 DEF Init, IdempotencyRecordIsTrue, PatientKeysSealOnce
<1>5. ChainIsLinked /\ Written
  BY <1>2 DEF ChainIsLinked, Written
<1>6. KeysHeld
  BY DEF Init, KeysHeld, SealStates
<1> QED BY <1>1, <1>4, <1>5, <1>6 DEF KeyInv

\* A step that changes nothing.
LEMMA KeysStutter ==
  ASSUME KeyInv, UNCHANGED vars
  PROVE  KeyInv'
<1>1. TypeOK' /\ Memory' /\ ChainIsLinked'
  BY DEF KeyInv, vars, store, sealVars, eraseVars, TypeOK, Memory, MemoryOf, Signed,
     Active, ChainIsLinked
<1>2. UNCHANGED <<chain, author, idem, pc, job>>
  BY DEF vars, store
<1>3. Written'
  BY <1>2 DEF KeyInv, Written, IsEvent
<1>4. \A tk : KeyedBlocks(tk)' = KeyedBlocks(tk)
  BY <1>2 DEF KeyedBlocks, KeyOf, IsEvent
<1>5. IdempotencyRecordIsTrue' /\ PatientKeysSealOnce'
  BY <1>2, <1>4 DEF KeyInv, IdempotencyRecordIsTrue, PatientKeysSealOnce
<1>6. KeysHeld'
  BY <1>2 DEF KeyInv, KeysHeld, KeyedBlocks, KeyOf, IsEvent
<1> QED BY <1>1, <1>3, <1>5, <1>6 DEF KeyInv

\* The invariant of the keys holds in every state.
LEMMA KeyInvInvariant == Spec => []KeyInv
<1>1. KeyInv /\ [Next]_vars => KeyInv'
  BY StepKeys, KeysStutter DEF Next
<1> QED BY <1>1, InitKeys, PTL DEF Spec

\* A key whose caller waits for its process to end seals one block for ever, for
\* any number of commands, crashes after the transaction, lost answers and
\* retries with it, and whatever the commands under other keys do.
THEOREM PatientKeysNeverDuplicate == Spec => []PatientKeysSealOnce
<1>1. KeyInv => PatientKeysSealOnce
  BY DEF KeyInv
<1> QED BY <1>1, KeyInvInvariant, PTL

\* The idempotency record and its block are never apart: a key has a record
\* exactly when a block was sealed under it, and the record names such a block,
\* with the document that was sealed.
THEOREM RecordsStayTrue == Spec => []IdempotencyRecordIsTrue
<1>1. KeyInv => IdempotencyRecordIsTrue
  BY DEF KeyInv
<1> QED BY <1>1, KeyInvInvariant, PTL

-----------------------------------------------------------------------------
(* Races *)

\* The block a command is to report is in the chain, and it wrote it.
Reported(p) == b[p] # << >> /\ IsPrefix(b[p], chain) /\ author[Len(b[p])] = p

\* What a command read, while the chain has not moved on: then its transaction
\* finds the copies and the duplicates as it saw them.  Once the chain has moved
\* on, it is longer than prev for ever, and the transaction aborts.
Reads(p) ==
  /\ pc[p] \in {"seal:build", "seal:content", "seal:commit", "erase:commit"} =>
       Len(prev[p]) <= Len(chain)
  /\ pc[p] \in {"seal:content", "seal:commit", "erase:commit"} =>
       RelojCoherente(prev[p], Last(b[p]).time)
  /\ pc[p] \in {"seal:content", "seal:commit"} /\ chain = prev[p] =>
       duplicados[p] = BlocksWithPayload(chain, job[p].payload)
  /\ pc[p] = "seal:commit" /\ chain = prev[p] =>
       /\ putBlob[p] => blobs[job[p].payload] = NoTenant
       /\ job[p].enc /\ ~putBlob[p] => blobs[job[p].payload] = job[p].tenant
  /\ pc[p] \in EraseStates =>
       \E i \in DOMAIN chain : ~IsEvent(chain[i]) /\ chain[i].payload = job[p].payload

\* What a command is about to say.  One that looks a patient key up again has
\* held it since its first look.
Words(p) ==
  /\ pc[p] \notin {"seal:report", "ended"} => out[p] = << >>
  /\ pc[p] \in {"new", "seal:key"} => b[p] = << >>
  /\ pc[p] = "seal:look" /\ b[p] # << >> /\ job[p].key \in PatientKeys =>
       KeyedBlocks(KeyOf(p)) = {}
  /\ pc[p] = "erase:report" => Reported(p)
  /\ pc[p] = "seal:report" /\ job[p].key \in PatientKeys \cup {NoKey} => Reported(p)

\* What a caller was told is true of the file.
AnswerIsTrue(p, a) ==
  /\ a.kind = "idempotent" =>
       /\ IsPrefix(a.hash, chain)
       /\ Len(a.hash) \in KeyedBlocks(KeyOf(p))
       /\ Last(a.hash).tenant = job[p].tenant
       /\ Last(a.hash).payload = job[p].payload /\ Last(a.hash).typ = job[p].typ
  /\ a.kind = "sealed" => job[p] \in SealJobs /\ a.dup = duplicados[p] /\ pc[p] = "ended"
  /\ a.kind = "erased" \/ (a.kind = "sealed" /\ job[p].key \in PatientKeys \cup {NoKey}) =>
       a.hash # << >> /\ IsPrefix(a.hash, chain) /\ author[Len(a.hash)] = p
  /\ a.kind \notin {"ErrDuplicateBlob", "ErrTimestampOrder", "record without its block"}

\* The blocks before block i that seal the same content.
Earlier(i) ==
  {k - 1 : k \in {k \in 1..i - 1 : ~IsEvent(chain[k]) /\ chain[k].payload = chain[i].payload}}

\* The author of a document named its duplicates, and a record is its tenant's.
Named ==
  /\ \A i \in 1..Len(chain) : ~IsEvent(chain[i]) => duplicados[author[i]] = Earlier(i)
  /\ \A tk \in Tenants \X Keys : idem[tk] # NoRecord => idem[tk].tenant = tk[1]

RaceInv ==
  /\ KeyInv /\ Named /\ ContentOrErasure
  /\ \A p \in Procs : Reads(p) /\ Words(p) /\ \A a \in Given(p) : AnswerIsTrue(p, a)

\* A sequence is a prefix of itself, and of what is appended to one it is a
\* prefix of.
LEMMA PrefixGrows ==
  ASSUME NEW S, NEW s \in Seq(S), NEW t \in Seq(S), NEW e \in S
  PROVE  /\ IsPrefix(t, t)
         /\ IsPrefix(s, t) => IsPrefix(s, Append(t, e))
<1>1. IsPrefix(t, t)
  BY DEF IsPrefix
<1>2. ASSUME IsPrefix(s, t) PROVE IsPrefix(s, Append(t, e))
  <2>1. Len(s) <= Len(t) /\ SubSeq(s, 1, Len(s)) = SubSeq(t, 1, Len(s))
    BY <1>2 DEF IsPrefix
  <2>2. SubSeq(Append(t, e), 1, Len(s)) = SubSeq(t, 1, Len(s))
    BY <2>1
  <2>3. Len(s) <= Len(Append(t, e))
    BY <2>1
  <2> QED BY <2>1, <2>2, <2>3 DEF IsPrefix
<1> QED BY <1>1, <1>2

\* The blocks of the answer to a key: a prefix of the chain that ends in block n.
LEMMA PrefixOfChain ==
  ASSUME NEW S, NEW s \in Seq(S), NEW n \in 1..Len(s)
  PROVE  /\ IsPrefix(SubSeq(s, 1, n), s) /\ SubSeq(s, 1, n) \in Seq(S)
         /\ Len(SubSeq(s, 1, n)) = n /\ Last(SubSeq(s, 1, n)) = s[n]
<1>1. SubSeq(s, 1, n) \in Seq(S) /\ Len(SubSeq(s, 1, n)) = n
  OBVIOUS
<1>2. Last(SubSeq(s, 1, n)) = s[n]
  BY <1>1 DEF Last
<1>3. SubSeq(SubSeq(s, 1, n), 1, n) = SubSeq(s, 1, n)
  BY <1>1
<1> QED BY <1>1, <1>2, <1>3 DEF IsPrefix

\* A block that was built over the chain is the chain that its transaction leaves.
LEMMA FrontAppend ==
  ASSUME NEW S, NEW s \in Seq(S), s # << >>
  PROVE  Append(Front(s), Last(s)) = s /\ Len(Front(s)) = Len(s) - 1
<1> DEFINE f == Front(s)
           t == Append(f, Last(s))
<1>1. Len(s) \in Nat \ {0} /\ Last(s) = s[Len(s)] /\ Last(s) \in S
  BY DEF Last
<1>2. f \in Seq(S) /\ Len(f) = Len(s) - 1 /\ \A i \in 1..Len(s) - 1 : f[i] = s[i]
  <2>1. PICK n \in Nat : n = Len(s) - 1
    BY <1>1
  <2>2. n <= Len(s) /\ f = SubSeq(s, 1, n)
    BY <1>1, <2>1 DEF Front
  <2>3. SubSeq(s, 1, n) \in Seq(S) /\ Len(SubSeq(s, 1, n)) = n
    BY <2>2
  <2>4. \A i \in 1..n : SubSeq(s, 1, n)[i] = s[i]
    BY <2>2
  <2> QED BY <2>1, <2>2, <2>3, <2>4
<1> HIDE DEF f
<1>3. /\ t \in Seq(S) /\ Len(t) = Len(s) /\ t[Len(s)] = s[Len(s)]
      /\ \A i \in 1..Len(s) - 1 : t[i] = s[i]
  BY <1>1, <1>2
<1> HIDE DEF t
<1>4. \A i \in 1..Len(s) : t[i] = s[i]
  <2> TAKE i \in 1..Len(s)
  <2>1. i = Len(s) \/ i \in 1..Len(s) - 1
    BY <1>1
  <2> QED BY <1>3, <2>1
<1>5. t = s
  BY <1>3, <1>4
<1> QED BY <1>2, <1>5 DEF t, f

\* A step of a command leaves the file alone, or it is its transaction.
LEMMA FileSteps ==
  ASSUME KeyInv, NEW p \in Procs, Start(p) \/ SealStep(p) \/ EraseStep(p) \/ Exit(p)
  PROVE  \/ UNCHANGED store
         \/ /\ SealCommit(p) \/ EraseCommit(p)
            /\ job' = job /\ duplicados' = duplicados /\ out' = out /\ b' = b
            /\ b[p] # << >> /\ prev[p] = chain /\ chain' = b[p]
            /\ Len(chain') = Len(chain) + 1
            /\ \E rec : AppendRecord(p, rec)
<1>1. CASE SealCommit(p) \/ EraseCommit(p)
  <2>1. b[p] # << >> /\ Front(b[p]) = prev[p] /\ b[p] \in Seq(Header)
    BY <1>1 DEF KeyInv, TypeOK, Memory, MemoryOf, Signed, SealCommit, EraseCommit
  <2>2. \E rec : AppendRecord(p, rec)
    BY <1>1 DEF SealCommit, EraseCommit
  <2>3. Front(b[p]) = chain /\ chain' = Append(chain, Last(b[p]))
    BY <2>1, <2>2, CheckLinkOk DEF AppendRecord, KeyInv, TypeOK
  <2>4. chain' = b[p] /\ Len(chain') = Len(chain) + 1
    BY <2>1, <2>2, <2>3, FrontAppend, AppendedChain DEF KeyInv
  <2>5. job' = job /\ duplicados' = duplicados /\ out' = out /\ b' = b
    BY <1>1 DEF SealCommit, EraseCommit, sealVars
  <2> QED BY <1>1, <2>1, <2>2, <2>3, <2>4, <2>5
<1> QED BY <1>1, StoreSteps

\* What is in the file stays there, in its place.
LEMMA FileGrows ==
  ASSUME KeyInv, NEW p \in Procs, Start(p) \/ SealStep(p) \/ EraseStep(p) \/ Exit(p)
  PROVE  /\ Len(chain) \in Nat /\ Len(chain') \in Nat /\ Len(chain) <= Len(chain')
         /\ chain' \in Seq(Header) /\ chain \in Seq(Header)
         /\ \A i \in 1..Len(chain) : chain'[i] = chain[i] /\ author'[i] = author[i]
                                     /\ author[i] \in Procs
         /\ \A s \in Seq(Header) : IsPrefix(s, chain) => IsPrefix(s, chain')
         /\ \A tk : KeyedBlocks(tk) \subseteq KeyedBlocks(tk)'
<1>0. Len(chain) \in Nat /\ chain \in Seq(Header) /\ \A i \in 1..Len(chain) : author[i] \in Procs
  BY DEF KeyInv, TypeOK, Written
<1>1. CASE UNCHANGED store
  <2>1. \A tk : KeyedBlocks(tk)' = KeyedBlocks(tk)
    BY <1>1, KeyedUnchanged DEF KeyInv
  <2> QED BY <1>0, <1>1, <2>1 DEF store
<1>2. ASSUME NEW rec, AppendRecord(p, rec), b[p] # << >>, job' = job
      PROVE  /\ Len(chain') = Len(chain) + 1 /\ chain' \in Seq(Header)
             /\ \A i \in 1..Len(chain) : chain'[i] = chain[i] /\ author'[i] = author[i]
             /\ \A s \in Seq(Header) : IsPrefix(s, chain) => IsPrefix(s, chain')
             /\ \A tk : KeyedBlocks(tk) \subseteq KeyedBlocks(tk)'
  <2>1. /\ Len(chain') = Len(chain) + 1 /\ chain' \in Seq(Header)
        /\ \A i \in 1..Len(chain) : chain'[i] = chain[i]
        /\ Last(b[p]) \in Header
    BY <1>2, AppendedChain DEF KeyInv
  <2>2. \A i \in 1..Len(chain) : author'[i] = author[i]
    BY <1>2, AppendedAuthor DEF KeyInv, Written
  <2>3. \A s \in Seq(Header) : IsPrefix(s, chain) => IsPrefix(s, chain')
    <3>1. chain' = Append(chain, Last(b[p]))
      BY <1>2 DEF AppendRecord
    <3> QED BY <1>0, <2>1, <3>1, PrefixGrows
  <2>4. \A tk : KeyedBlocks(tk) \subseteq KeyedBlocks(tk)'
    BY <1>2, KeyedAfter DEF KeyInv
  <2> QED BY <2>1, <2>2, <2>3, <2>4
<1>3. CASE ~UNCHANGED store
  <2>1. PICK rec : AppendRecord(p, rec) /\ b[p] # << >> /\ job' = job
    BY <1>3, FileSteps
  <2> QED BY <1>0, <1>2, <2>1
<1> QED BY <1>1, <1>3

\* A failure that a race may end in claims nothing of the file.
LEMMA FailureIsTrue ==
  ASSUME NEW p \in Procs, NEW k \in AnswerKind \ {"idempotent", "sealed", "erased",
           "ErrDuplicateBlob", "ErrTimestampOrder", "record without its block"}
  PROVE  AnswerIsTrue(p, Failure(k))
  BY DEF Failure, Answer, AnswerIsTrue

\* A command with a record under its key finds the record's block, so the answer
\* to a repeated key names a block of the document asked for, or says that the
\* key is another document's.
LEMMA RepeatedKeyIsTrue ==
  ASSUME RaceInv, NEW p \in Procs, job[p] \in SealJobs, Recorded(p)
  PROVE  AnswerIsTrue(p, SealIdempotente(p))
<1> DEFINE r == idem[KeyOf(p)]
           n == r.block + 1
           s == SubSeq(chain, 1, n)
<1>1. KeyOf(p) \in Tenants \X Keys /\ KeyOf(p)[1] = job[p].tenant /\ r # NoRecord
  BY SealJobType DEF Recorded, KeyOf
<1>2. r \in IdemRecord
  BY <1>1 DEF RaceInv, KeyInv, TypeOK
<1>3. r.block \in Nat
  BY <1>2 DEF IdemRecord
<1>4. /\ n \in KeyedBlocks(KeyOf(p)) /\ chain[n].payload = r.payload
      /\ chain[n].tenant = job[p].tenant /\ chain[n].typ = r.typ
      /\ r.tenant = job[p].tenant
  BY <1>1 DEF RaceInv, KeyInv, IdempotencyRecordIsTrue, Named
<1>5. n \in 1..Len(chain) /\ chain \in Seq(Header) /\ r.block < Len(chain)
  <2>1. chain \in Seq(Header) /\ DOMAIN chain = 1..Len(chain)
    BY DEF RaceInv, KeyInv, TypeOK
  <2>2. n \in DOMAIN chain
    BY <1>4 DEF KeyedBlocks
  <2> QED BY <1>3, <2>1, <2>2
<1>6. IsPrefix(s, chain) /\ Len(s) = n /\ Last(s) = chain[n]
  BY <1>5, PrefixOfChain
<1> HIDE DEF s, n
<1>7. CASE r.payload # job[p].payload \/ r.typ # job[p].typ
  <2>1. SealIdempotente(p) = Failure("key of another document")
    BY <1>7 DEF SealIdempotente
  <2> QED BY <2>1, FailureIsTrue DEF AnswerKind
<1>8. CASE r.payload = job[p].payload /\ r.typ = job[p].typ
  <2>1. SealIdempotente(p) = Answer("idempotent", s, {})
    BY <1>4, <1>5, <1>8 DEF SealIdempotente, s, n
  <2>2. /\ IsPrefix(s, chain) /\ Len(s) \in KeyedBlocks(KeyOf(p))
        /\ Last(s).tenant = job[p].tenant
        /\ Last(s).payload = job[p].payload /\ Last(s).typ = job[p].typ
    BY <1>4, <1>6, <1>8
  <2> QED BY <2>1, <2>2 DEF Answer, AnswerIsTrue
<1> QED BY <1>7, <1>8

\* The transaction of a seal never finds time going back, nor a copy that was
\* not there: it fails on neither.
LEMMA AbortsAreRaces ==
  ASSUME RaceInv, NEW p \in Procs
  PROVE  /\ pc[p] \in {"seal:commit", "erase:commit"} =>
              CheckLink(chain, b[p]) # "ErrTimestampOrder"
         /\ pc[p] = "seal:commit" /\ CheckLink(chain, b[p]) = "ok" =>
              chain = prev[p] /\ ~(putBlob[p] /\ blobs[job[p].payload] # NoTenant)
<1>1. ASSUME pc[p] \in {"seal:commit", "erase:commit"}
      PROVE  CheckLink(chain, b[p]) # "ErrTimestampOrder"
  <2> SUFFICES ASSUME CheckLink(chain, b[p]) = "ErrTimestampOrder" PROVE FALSE
    OBVIOUS
  <2>1. Front(b[p]) = chain /\ chain # << >> /\ Last(b[p]).time < Last(chain).time
    BY DEF CheckLink
  <2>2. Front(b[p]) = prev[p] /\ RelojCoherente(prev[p], Last(b[p]).time) /\ b[p] # << >>
    BY <1>1 DEF RaceInv, Reads, KeyInv, Memory, MemoryOf, Signed
  <2>3. Last(b[p]) \in Header /\ Last(chain) \in Header
    BY <2>1, <2>2, LastType DEF RaceInv, KeyInv, TypeOK
  <2>4. Last(b[p]).time \in Nat /\ Last(chain).time \in Nat
    BY <2>3, TimesAssumption DEF Header
  <2> QED BY <2>1, <2>2, <2>4 DEF RelojCoherente
<1>2. ASSUME pc[p] = "seal:commit", CheckLink(chain, b[p]) = "ok"
      PROVE  chain = prev[p] /\ ~(putBlob[p] /\ blobs[job[p].payload] # NoTenant)
  <2>1. Front(b[p]) = prev[p]
    BY <1>2 DEF RaceInv, KeyInv, Memory, MemoryOf, Signed
  <2>2. Front(b[p]) = chain
    BY <1>2, CheckLinkOk DEF RaceInv, KeyInv, TypeOK
  <2> QED BY <1>2, <2>1, <2>2 DEF RaceInv, Reads
<1> QED BY <1>1, <1>2

\* What is said in a step: nothing, or one true answer, by the command that moves.
LEMMA SaidIsTrue ==
  ASSUME RaceInv, NEW p \in Procs, Start(p) \/ SealStep(p) \/ EraseStep(p) \/ Exit(p)
  PROVE  \/ out'[p] = out[p]
         \/ \E a : /\ out'[p] = Append(out[p], a) /\ AnswerIsTrue(p, a) /\ a.kind \notin {"sealed", "erased"}
                   /\ UNCHANGED store /\ job' = job
         \/ \E a : /\ out'[p] = Append(out[p], a) /\ UNCHANGED <<store, job, b, duplicados>>
                   /\ \/ a = Answer("sealed", b[p], duplicados[p]) /\ pc[p] = "seal:report"
                      \/ a = Answer("erased", b[p], {}) /\ pc[p] = "erase:report"
                   /\ pc'[p] = "ended"
<1> DEFINE Quiet == out'[p] = out[p]
           Told(a) == /\ out'[p] = Append(out[p], a) /\ AnswerIsTrue(p, a)
                      /\ a.kind \notin {"sealed", "erased"}
                      /\ UNCHANGED store /\ job' = job
           Done(a) == /\ out'[p] = Append(out[p], a) /\ UNCHANGED <<store, job, b, duplicados>>
                      /\ \/ a = Answer("sealed", b[p], duplicados[p]) /\ pc[p] = "seal:report"
                         \/ a = Answer("erased", b[p], {}) /\ pc[p] = "erase:report"
                      /\ pc'[p] = "ended"
<1>0. /\ \A a : Say(p, a) => out'[p] = Append(out[p], a)
      /\ \A a : End(p, a) => out'[p] = Append(out[p], a) /\ pc'[p] = "ended"
      /\ \A l : Retry(p, l) => out' = out \/ out'[p] = Append(out[p], Failure("lost race"))
  BY DEF RaceInv, KeyInv, TypeOK, Goto, Say, End, Retry
<1>1. /\ \A k \in {"lost race", "clock behind", "content of another tenant", "already erased",
                  "nothing stored", "not authorised"} :
           AnswerIsTrue(p, Failure(k)) /\ Failure(k).kind \notin {"sealed", "erased"}
  BY FailureIsTrue DEF AnswerKind, Failure, Answer
<1>2. CASE Start(p) \/ Exit(p)
  BY <1>2 DEF Start, Exit, StartSeal, StartErase
<1>3. CASE SealKey(p) \/ SealLook(p)
  <2>1. job[p] \in SealJobs
    BY <1>3 DEF RaceInv, KeyInv, Memory, MemoryOf, SealKey, SealLook, SealStates
  <2>2. Recorded(p) => AnswerIsTrue(p, SealIdempotente(p))
                       /\ SealIdempotente(p).kind \notin {"sealed", "erased"}
    BY <2>1, RepeatedKeyIsTrue DEF SealIdempotente, Failure, Answer
  <2>3. Quiet \/ (Recorded(p) /\ out'[p] = Append(out[p], SealIdempotente(p)))
    BY <1>0, <1>3 DEF SealKey, SealLook
  <2>4. UNCHANGED store /\ job' = job
    BY <1>3 DEF SealKey, SealLook
  <2>5. Quiet \/ Told(SealIdempotente(p))
    BY <2>2, <2>3, <2>4
  <2> QED BY <2>5
<1>4. CASE SealLast(p) \/ SealCommit(p) \/ EraseCommit(p) \/ EraseReadBlob(p) \/ EraseReadMeta(p)
           \/ EraseReadBlocks(p)
  BY <1>4 DEF SealLast, SealCommit, EraseCommit, EraseReadBlob, EraseReadMeta, EraseReadBlocks
<1>5. CASE \E now \in Times : SealBuild(p, now)
  BY <1>0, <1>1, <1>5 DEF SealBuild
<1>6. CASE SealContent(p) \/ EraseReadEvents(p) \/ \E cubre \in 0..Len(chain) : EraseAuthorise(p, cubre)
  BY <1>0, <1>1, <1>6 DEF SealContent, EraseReadEvents, EraseAuthorise
<1>7. CASE SealAbort(p) \/ EraseAbort(p)
  <2>1. UNCHANGED store /\ job' = job
    BY <1>7 DEF SealAbort, EraseAbort
  <2>2. Quiet \/ out'[p] = Append(out[p], Failure("lost race"))
    BY <1>0, <1>7, AbortsAreRaces DEF SealAbort, EraseAbort
  <2> QED BY <1>1, <2>1, <2>2
<1>8. CASE SealReport(p) \/ EraseReport(p)
  <2>1. \E a : Done(a)
    BY <1>0, <1>8 DEF SealReport, EraseReport, sealVars
  <2> QED BY <2>1
<1>9. CASE \E now \in Times : EraseLast(p, now)
  BY <1>0, <1>1, <1>9 DEF EraseLast
<1> QED BY <1>2, <1>3, <1>4, <1>5, <1>6, <1>7, <1>8, <1>9 DEF SealStep, EraseStep

\* What was said stays true: blocks stay where they are, and whoever was told
\* something has nothing left to do but to report.
LEMMA SaidStaysTrue ==
  ASSUME RaceInv, NEW p \in Procs, Start(p) \/ SealStep(p) \/ EraseStep(p) \/ Exit(p),
         NEW q \in Procs, NEW a \in Given(q)
  PROVE  AnswerIsTrue(q, a)'
<1>1. AnswerIsTrue(q, a) /\ a \in Answers
  <2>1. out[q] \in Seq(Answers)
    BY MoveVariables DEF RaceInv, KeyInv
  <2> QED BY <2>1 DEF RaceInv, Given
<1>2. pc[q] \in {"seal:report", "ended"}
  <2>1. out[q] # << >>
    BY DEF Given
  <2> QED BY <2>1 DEF RaceInv, Words
<1>3. job'[q] = job[q]
  BY <1>2, Steady DEF RaceInv, KeyInv
<1>4. a.kind = "sealed" => pc'[q] = "ended" /\ duplicados'[q] = duplicados[q]
  <2>1. CASE q = p
    <3>1. a.kind # "sealed"
      BY <1>1, <2>1 DEF AnswerIsTrue, Start, StartSeal, StartErase, SealStep, EraseStep, SealKey,
         SealLook, SealLast, SealBuild, SealContent, SealCommit, SealAbort, SealReport,
         EraseReadBlob, EraseReadMeta, EraseReadBlocks, EraseReadEvents, EraseAuthorise,
         EraseLast, EraseCommit, EraseAbort, EraseReport, Exit, Active, SealStates, EraseStates
    <3> QED BY <3>1
  <2>2. CASE q # p
    <3>1. pc'[q] = pc[q] /\ duplicados'[q] = duplicados[q]
      BY <2>2, OthersMemory DEF RaceInv, KeyInv
    <3> QED BY <1>1, <3>1 DEF AnswerIsTrue
  <2> QED BY <2>1, <2>2
<1>5. a.hash \in Seq(Header) /\ (IsPrefix(a.hash, chain) => IsPrefix(a.hash, chain'))
  BY <1>1, FileGrows DEF Answers, RaceInv
<1>6. \A tk : KeyedBlocks(tk) \subseteq KeyedBlocks(tk)'
  BY FileGrows DEF RaceInv
<1>7. KeyOf(q)' = KeyOf(q)
  BY <1>3 DEF KeyOf
<1>8. Len(a.hash) \in KeyedBlocks(KeyOf(q)) => Len(a.hash) \in KeyedBlocks(KeyOf(q))'
  <2>1. PICK tk : tk = KeyOf(q)
    OBVIOUS
  <2>2. KeyedBlocks(tk)' = KeyedBlocks(KeyOf(q))'
    BY <1>7, <2>1 DEF KeyedBlocks
  <2> QED BY <1>6, <2>1, <2>2
<1>9. a.kind = "erased" \/ (a.kind = "sealed" /\ job[q].key \in PatientKeys \cup {NoKey}) =>
        author'[Len(a.hash)] = q
  <2> SUFFICES ASSUME a.kind = "erased" \/ (a.kind = "sealed" /\ job[q].key \in PatientKeys \cup {NoKey})
               PROVE  author'[Len(a.hash)] = q
    OBVIOUS
  <2>1. a.hash # << >> /\ IsPrefix(a.hash, chain) /\ author[Len(a.hash)] = q
    BY <1>1 DEF AnswerIsTrue
  <2>2. Len(a.hash) \in 1..Len(chain)
    <3>1. a.hash \in Seq(Header) /\ Len(chain) \in Nat
      BY <1>5, FileGrows DEF RaceInv
    <3>2. Len(a.hash) <= Len(chain)
      BY <2>1 DEF IsPrefix
    <3> QED BY <2>1, <3>1, <3>2
  <2> QED BY <2>1, <2>2, FileGrows DEF RaceInv
<1> QED BY <1>1, <1>3, <1>4, <1>5, <1>8, <1>9 DEF AnswerIsTrue

\* What a sequence holds after an append.
LEMMA Appended ==
  ASSUME NEW S, NEW s \in Seq(S), NEW x
  PROVE  \A i \in DOMAIN Append(s, x) :
           Append(s, x)[i] = x \/ \E k \in DOMAIN s : Append(s, x)[i] = s[k]
<1> DEFINE T == S \cup {x}
<1>1. s \in Seq(T) /\ x \in T
  OBVIOUS
<1> HIDE DEF T
<1> QED BY <1>1

\* Every answer given by the end of a step is true.
LEMMA StepAnswers ==
  ASSUME RaceInv, NEW p \in Procs, Start(p) \/ SealStep(p) \/ EraseStep(p) \/ Exit(p),
         NEW q \in Procs
  PROVE  \A a \in Given(q)' : AnswerIsTrue(q, a)'
<1>0. TypeOK /\ \A r \in Procs : out[r] \in Seq(Answers)
  BY MoveVariables DEF RaceInv, KeyInv
<1>1. ASSUME out'[q] = out[q]
      PROVE  \A a \in Given(q)' : AnswerIsTrue(q, a)'
  <2>1. Given(q)' = Given(q)
    BY <1>1 DEF Given
  <2> QED BY <2>1, SaidStaysTrue
<1>2. ASSUME NEW x, q = p, out'[p] = Append(out[p], x), AnswerIsTrue(p, x)'
      PROVE  \A a \in Given(q)' : AnswerIsTrue(q, a)'
  <2> SUFFICES ASSUME NEW a \in Given(p)' PROVE AnswerIsTrue(p, a)'
    BY <1>2
  <2>1. PICK i \in DOMAIN out'[p] : a = out'[p][i]
    BY DEF Given
  <2>2. a = x \/ \E k \in DOMAIN out[p] : a = out[p][k]
    BY <1>0, <1>2, <2>1, Appended
  <2>3. CASE a = x
    BY <1>2, <2>3
  <2>4. CASE a # x
    <3>1. a \in Given(p)
      BY <2>2, <2>4 DEF Given
    <3> QED BY <3>1, SaidStaysTrue
  <2> QED BY <2>3, <2>4
<1>3. CASE q # p
  BY <1>0, <1>1, <1>3, OthersMemory
<1>4. CASE q = p
  <2>1. CASE out'[p] = out[p]
    BY <1>1, <1>4, <2>1
  <2>2. ASSUME NEW a, out'[p] = Append(out[p], a), AnswerIsTrue(p, a),
               a.kind \notin {"sealed", "erased"}, UNCHANGED store, job' = job
        PROVE  \A x \in Given(q)' : AnswerIsTrue(q, x)'
    <3>1. KeyedBlocks(KeyOf(p))' = KeyedBlocks(KeyOf(p)) /\ chain' = chain
      BY <2>2 DEF store, KeyedBlocks, KeyOf, IsEvent
    <3>2. AnswerIsTrue(p, a)'
      BY <2>2, <3>1 DEF AnswerIsTrue
    <3> QED BY <1>2, <1>4, <2>2, <3>2
  <2>3. ASSUME NEW a, out'[p] = Append(out[p], a), UNCHANGED <<store, job, b, duplicados>>,
               \/ a = Answer("sealed", b[p], duplicados[p]) /\ pc[p] = "seal:report"
               \/ a = Answer("erased", b[p], {}) /\ pc[p] = "erase:report",
               pc'[p] = "ended"
        PROVE  \A x \in Given(q)' : AnswerIsTrue(q, x)'
    <3>1. \/ a.kind = "sealed" /\ a.dup = duplicados[p] /\ pc[p] = "seal:report" /\ a.hash = b[p]
          \/ a.kind = "erased" /\ pc[p] = "erase:report" /\ a.hash = b[p]
      BY <2>3 DEF Answer
    <3>2. pc[p] = "seal:report" => job[p] \in SealJobs
      BY DEF RaceInv, KeyInv, Memory, MemoryOf, SealStates
    <3>3. \/ pc[p] = "erase:report"
          \/ pc[p] = "seal:report" /\ job[p].key \in PatientKeys \cup {NoKey}
          => Reported(p)
      BY DEF RaceInv, Words
    <3>4. AnswerIsTrue(p, a)'
      BY <2>3, <3>1, <3>2, <3>3 DEF AnswerIsTrue, Reported, store
    <3> QED BY <1>2, <1>4, <2>3, <3>4
  <2> QED BY <2>1, <2>2, <2>3, SaidIsTrue
<1> QED BY <1>3, <1>4

\* A block that a command is to report stays in the chain.
LEMMA ReportedStays ==
  ASSUME RaceInv, NEW p \in Procs, Start(p) \/ SealStep(p) \/ EraseStep(p) \/ Exit(p),
         NEW q \in Procs, q # p, Reported(q)
  PROVE  Reported(q)'
<1>1. b'[q] = b[q] /\ b[q] \in Seq(Header)
  BY OthersMemory DEF RaceInv, KeyInv, TypeOK
<1>2. b[q] # << >> /\ IsPrefix(b[q], chain) /\ author[Len(b[q])] = q
  BY DEF Reported
<1>3. Len(chain) \in Nat /\ Len(b[q]) <= Len(chain)
  BY <1>2, FileGrows DEF IsPrefix, RaceInv
<1>4. Len(b[q]) \in 1..Len(chain)
  BY <1>1, <1>2, <1>3
<1>5. IsPrefix(b[q], chain') /\ author'[Len(b[q])] = q
  BY <1>1, <1>2, <1>4, FileGrows DEF RaceInv
<1> QED BY <1>1, <1>2, <1>5 DEF Reported

\* No other command's step takes anything back from what q is to say.
LEMMA OthersWords ==
  ASSUME RaceInv, NEW p \in Procs, Start(p) \/ SealStep(p) \/ EraseStep(p) \/ Exit(p),
         NEW q \in Procs, q # p
  PROVE  Words(q)'
<1>0. KeyInv /\ TypeOK /\ Words(q)
  BY DEF RaceInv, KeyInv
<1>1. pc'[q] = pc[q] /\ job'[q] = job[q] /\ b'[q] = b[q] /\ out'[q] = out[q]
  BY <1>0, OthersMemory
<1>2. KeyOf(q)' = KeyOf(q)
  BY <1>1 DEF KeyOf
<1>3. ASSUME pc[q] = "seal:look", job[q].key \in PatientKeys, KeyedBlocks(KeyOf(q)) = {}
      PROVE  KeyedBlocks(KeyOf(q))' = {}
  <2> PICK tk : tk = KeyOf(q)
    OBVIOUS
  <2>1. KeyedBlocks(KeyOf(q))' = KeyedBlocks(tk)'
    BY <1>2 DEF KeyedBlocks
  <2>2. CASE UNCHANGED store
    BY <1>0, <1>3, <2>1, <2>2, KeyedUnchanged DEF KeyInv
  <2>3. CASE ~UNCHANGED store
    <3>1. PICK rec : AppendRecord(p, rec) /\ b[p] # << >> /\ job' = job
      BY <1>0, <2>3, FileSteps
    <3>2. IsEvent(Last(b[p])) \/ KeyOf(p) # KeyOf(q)
      <4>1. CASE SealCommit(p)
        <5>1. pc[p] \in SealStates /\ pc[q] \in SealStates
          BY <1>3, <4>1 DEF SealCommit, SealStates
        <5> QED BY <1>0, <1>3, <5>1 DEF KeyInv, KeysHeld
      <4>2. CASE EraseCommit(p)
        BY <1>0, <4>2 DEF KeyInv, EraseCommit, Memory, MemoryOf, Signed, IsEvent
      <4> QED BY <1>0, <2>3, <4>1, <4>2, FileSteps
    <3>3. KeyedBlocks(tk)' = KeyedBlocks(tk) \cup
            {i \in {Len(chain) + 1} : ~IsEvent(Last(b[p])) /\ KeyOf(p) = tk}
      BY <1>0, <3>1, KeyedAfter DEF KeyInv
    <3> QED BY <1>3, <2>1, <3>2, <3>3
  <2> QED BY <2>2, <2>3
<1>4. Reported(q) => Reported(q)'
  BY ReportedStays
<1> QED BY <1>0, <1>1, <1>3, <1>4 DEF Words

\* What a command is to say after a step of its own.
LEMMA OwnWords ==
  ASSUME RaceInv, NEW p \in Procs, Start(p) \/ SealStep(p) \/ EraseStep(p) \/ Exit(p)
  PROVE  Words(p)'
<1>0. /\ KeyInv /\ TypeOK /\ Words(p)
      /\ \A l : Goto(p, l) => pc'[p] = l
      /\ \A a : End(p, a) => pc'[p] = "ended"
      /\ \A l : Retry(p, l) => pc'[p] = "ended" \/ (pc'[p] = l /\ out' = out)
  BY DEF RaceInv, KeyInv, TypeOK, Goto, End, Retry
<1>1. CASE Start(p)
  BY <1>0, <1>1 DEF Start, StartSeal, StartErase, Words
<1>2. CASE SealKey(p)
  BY <1>0, <1>2 DEF SealKey, Words
<1>3. CASE SealLook(p)
  <2>1. CASE pc'[p] = "seal:report"
    <3>1. Recorded(p) /\ b[p] # << >> /\ job' = job /\ pc[p] = "seal:look"
      BY <1>0, <1>3, <2>1 DEF SealLook
    <3>2. job[p] \in SealJobs /\ HasKey(p) /\ idem[KeyOf(p)] # NoRecord
      BY <1>0, <3>1 DEF KeyInv, Memory, MemoryOf, SealStates, Recorded
    <3>3. KeyOf(p) \in Tenants \X Keys
      BY <3>2, SealJobType
    <3>4. KeyedBlocks(KeyOf(p)) # {}
      BY <1>0, <3>2, <3>3 DEF KeyInv, IdempotencyRecordIsTrue
    <3>5. job[p].key \notin PatientKeys \cup {NoKey}
      BY <1>0, <3>1, <3>2, <3>4 DEF Words, HasKey
    <3> QED BY <2>1, <3>1, <3>5 DEF Words
  <2>2. CASE pc'[p] # "seal:report"
    BY <1>0, <1>3, <2>2 DEF SealLook, Words
  <2> QED BY <2>1, <2>2
<1>4. CASE SealLast(p) \/ SealContent(p)
  BY <1>0, <1>4 DEF SealLast, SealContent, Words
<1>5. CASE \E now \in Times : SealBuild(p, now)
  BY <1>0, <1>5 DEF SealBuild, Words
<1>6. CASE SealCommit(p) \/ EraseCommit(p)
  <2>1. /\ pc'[p] \in {"seal:report", "erase:report"} /\ out' = out
        /\ pc[p] \in {"seal:commit", "erase:commit"}
    BY <1>0, <1>6 DEF SealCommit, EraseCommit
  <2>2. PICK rec : AppendRecord(p, rec)
    BY <1>6 DEF SealCommit, EraseCommit
  <2>3. chain' # chain
    <3>1. Len(chain') = Len(chain) + 1 /\ Len(chain) \in Nat
      BY <1>0, <1>6, <2>2, AppendedChain DEF KeyInv, Memory, MemoryOf, Signed, SealCommit, EraseCommit
    <3> QED BY <3>1
  <2>4. b' = b /\ b[p] # << >> /\ chain' = b[p] /\ Len(chain') = Len(chain) + 1
    BY <1>0, <2>3, FileSteps DEF store
  <2>5. author'[Len(chain) + 1] = p
    BY <1>0, <2>2, AppendedAuthor DEF KeyInv, Written
  <2>6. b[p] \in Seq(Header) /\ IsPrefix(b[p], b[p])
    <3>1. b[p] \in Seq(Header)
      BY <1>0 DEF TypeOK
    <3> QED BY <3>1 DEF IsPrefix
  <2>7. Reported(p)'
    BY <2>4, <2>5, <2>6 DEF Reported
  <2> QED BY <1>0, <2>1, <2>7 DEF Words
<1>7. CASE SealAbort(p) \/ EraseAbort(p)
  <2>1. UNCHANGED store /\ job' = job /\ b' = b
    BY <1>7 DEF SealAbort, EraseAbort
  <2>2. KeyedBlocks(KeyOf(p))' = KeyedBlocks(KeyOf(p))
    BY <2>1 DEF store, KeyedBlocks, KeyOf, IsEvent
  <2>3. pc[p] = "seal:commit" /\ job[p].key \in PatientKeys => KeyedBlocks(KeyOf(p)) = {}
    BY <1>0 DEF KeyInv, KeysHeld
  <2>4. \/ pc'[p] = "ended"
        \/ pc'[p] = "seal:look" /\ pc[p] = "seal:commit" /\ out' = out
        \/ pc'[p] = "erase:last" /\ pc[p] = "erase:commit" /\ out' = out
    BY <1>0, <1>7 DEF SealAbort, EraseAbort
  <2> QED BY <1>0, <2>1, <2>2, <2>3, <2>4 DEF Words
<1>8. CASE SealReport(p) \/ EraseReport(p) \/ Exit(p)
  BY <1>0, <1>8 DEF SealReport, EraseReport, Exit, Words
<1>9. CASE EraseReadBlob(p) \/ EraseReadMeta(p) \/ EraseReadBlocks(p) \/ EraseReadEvents(p)
  BY <1>0, <1>9 DEF EraseReadBlob, EraseReadMeta, EraseReadBlocks, EraseReadEvents, Words
<1>10. CASE \E cubre \in 0..Len(chain) : EraseAuthorise(p, cubre)
  BY <1>0, <1>10 DEF EraseAuthorise, Words
<1>11. CASE \E now \in Times : EraseLast(p, now)
  BY <1>0, <1>11 DEF EraseLast, Words
<1> QED BY <1>1, <1>2, <1>3, <1>4, <1>5, <1>6, <1>7, <1>8, <1>9, <1>10, <1>11
        DEF SealStep, EraseStep

\* When another command's transaction moves the chain on, what q read is of a
\* shorter chain for ever.
LEMMA OthersReads ==
  ASSUME RaceInv, NEW p \in Procs, Start(p) \/ SealStep(p) \/ EraseStep(p) \/ Exit(p),
         NEW q \in Procs, q # p
  PROVE  Reads(q)'
<1>0. KeyInv /\ TypeOK /\ Reads(q)
  BY DEF RaceInv, KeyInv
<1>1. /\ pc'[q] = pc[q] /\ job'[q] = job[q] /\ b'[q] = b[q] /\ prev'[q] = prev[q]
      /\ putBlob'[q] = putBlob[q] /\ duplicados'[q] = duplicados[q]
  BY <1>0, OthersMemory
<1>2. /\ Len(chain) \in Nat /\ Len(chain') \in Nat /\ Len(chain) <= Len(chain')
      /\ DOMAIN chain = 1..Len(chain) /\ DOMAIN chain' = 1..Len(chain')
      /\ \A i \in 1..Len(chain) : chain'[i] = chain[i]
  BY <1>0, FileGrows
<1>3. prev[q] \in Seq(Header) /\ Len(prev[q]) \in Nat
  BY <1>0 DEF TypeOK
<1>4. pc[q] \in EraseStates =>
        \E i \in DOMAIN chain' : ~IsEvent(chain'[i]) /\ chain'[i].payload = job[q].payload
  BY <1>0, <1>2 DEF Reads
<1>5. CASE UNCHANGED store
  BY <1>0, <1>1, <1>5 DEF Reads, store, IsEvent
<1>6. CASE Len(chain') = Len(chain) + 1
  <2>1. pc[q] \in {"seal:build", "seal:content", "seal:commit", "erase:commit"} =>
          Len(prev[q]) <= Len(chain') /\ chain' # prev[q]
    BY <1>0, <1>2, <1>3, <1>6 DEF Reads
  <2> QED BY <1>0, <1>1, <1>4, <2>1 DEF Reads, IsEvent
<1> QED BY <1>0, <1>5, <1>6, FileSteps

\* What a command has read after a step of its own.
LEMMA OwnReads ==
  ASSUME RaceInv, NEW p \in Procs, Start(p) \/ SealStep(p) \/ EraseStep(p) \/ Exit(p)
  PROVE  Reads(p)'
<1>0. /\ KeyInv /\ TypeOK /\ Reads(p) /\ chain \in Seq(Header) /\ Len(chain) \in Nat
      /\ \A l : Goto(p, l) => pc'[p] = l
      /\ \A a : End(p, a) => pc'[p] = "ended"
      /\ \A l : Retry(p, l) => pc'[p] = "ended" \/ pc'[p] = l
  <2>1. KeyInv /\ TypeOK /\ Reads(p)
    BY DEF RaceInv, KeyInv
  <2>2. chain \in Seq(Header) /\ pc \in [Procs -> Labels]
    BY <2>1, MoveVariables DEF TypeOK
  <2>3. /\ \A l : Goto(p, l) => pc'[p] = l
        /\ \A a : End(p, a) => pc'[p] = "ended"
    BY <2>2 DEF Goto, End
  <2>4. \A l : Retry(p, l) => pc'[p] = "ended" \/ pc'[p] = l
    BY <2>3 DEF Retry
  <2>5. Len(chain) \in Nat
    BY <2>2
  <2> QED BY <2>1, <2>2, <2>3, <2>4, <2>5
<1>1. CASE \E j \in SealJobs : StartSeal(p, j)
  BY <1>0, <1>1 DEF StartSeal, Reads, EraseStates
<1>2. CASE \E n \in 0..Len(chain) : StartErase(p, n)
  <2> PICK n \in 0..Len(chain) : StartErase(p, n)
    BY <1>2
  <2>1. /\ pc'[p] = "erase:blob" /\ job'[p].payload = chain[n + 1].payload
        /\ n < Len(chain) /\ ~IsEvent(chain[n + 1]) /\ chain' = chain
    BY <1>0 DEF StartErase, store, TypeOK
  <2>2. n + 1 \in DOMAIN chain
    BY <1>0, <2>1
  <2> QED BY <2>1, <2>2 DEF Reads, IsEvent
<1>3. CASE SealKey(p) \/ SealLook(p)
  BY <1>0, <1>3 DEF SealKey, SealLook, Reads, EraseStates
<1>4. CASE SealLast(p)
  <2>1. pc'[p] = "seal:build" /\ prev'[p] = chain /\ chain' = chain
    BY <1>0, <1>4 DEF SealLast, store, TypeOK
  <2> QED BY <1>0, <2>1 DEF Reads, EraseStates
<1>5. CASE \E now \in Times : SealBuild(p, now)
  <2> PICK now \in Times : SealBuild(p, now)
    BY <1>5
  <2>1. CASE RelojCoherente(prev[p], now)
    <3> DEFINE h == NewHeader(prev[p], now, job[p].tenant, job[p].typ, job[p].payload,
                              IF job[p].enc THEN "blob" ELSE "none", 0)
    <3>1. b'[p] = Append(prev[p], h) /\ pc[p] = "seal:build"
      BY <1>0, <2>1 DEF TypeOK, SealBuild
    <3>2. Last(b'[p]) = h
      <4>1. prev[p] \in Seq(Header)
        BY <1>0 DEF TypeOK
      <4>2. job[p] \in SealJobs
        BY <1>0, <3>1 DEF KeyInv, Memory, MemoryOf, SealStates
      <4>3. h \in Header
        BY <4>1, <4>2, SealJobType, NewHeaderType
      <4> QED BY <3>1, <4>1, <4>3, AppendParts
    <3>3. RelojCoherente(prev[p], Last(b'[p]).time)
      BY <2>1, <3>2 DEF NewHeader
    <3>4. /\ prev' = prev /\ job' = job /\ chain' = chain /\ putBlob'[p] = FALSE
          /\ duplicados'[p] = BlocksWithPayload(chain, job[p].payload)
          /\ pc'[p] = IF job[p].enc THEN "seal:content" ELSE "seal:commit"
      BY <1>0, <2>1 DEF SealBuild, TypeOK, store
    <3>5. Len(prev[p]) <= Len(chain)
      BY <1>0, <3>1 DEF Reads
    <3> QED BY <3>3, <3>4, <3>5 DEF Reads, RelojCoherente, EraseStates, BlocksWithPayload, IsEvent
  <2>2. CASE ~RelojCoherente(prev[p], now)
    BY <1>0, <2>2 DEF SealBuild, Reads, EraseStates
  <2> QED BY <2>1, <2>2
<1>6. CASE SealContent(p)
  <2>1. CASE blobs[job[p].payload] \in {NoTenant, job[p].tenant}
    <3>1. /\ pc[p] = "seal:content" /\ pc'[p] = "seal:commit" /\ UNCHANGED <<store, job, prev, b, duplicados>>
          /\ putBlob'[p] = (blobs[job[p].payload] = NoTenant)
      BY <1>0, <1>6, <2>1 DEF SealContent, TypeOK
    <3>2. chain' = chain /\ blobs' = blobs /\ BlocksWithPayload(chain, job[p].payload)' =
                                             BlocksWithPayload(chain, job[p].payload)
      BY <3>1 DEF store, BlocksWithPayload, IsEvent
    <3>3. /\ Len(prev[p]) <= Len(chain) /\ RelojCoherente(prev[p], Last(b[p]).time)
          /\ chain = prev[p] => duplicados[p] = BlocksWithPayload(chain, job[p].payload)
      BY <1>0, <3>1 DEF Reads
    <3>4. /\ putBlob'[p] => blobs[job[p].payload] = NoTenant
          /\ ~putBlob'[p] => blobs[job[p].payload] = job[p].tenant
      BY <2>1, <3>1
    <3>5. RelojCoherente(prev[p], Last(b[p]).time)'
      BY <3>1, <3>3 DEF RelojCoherente
    <3> QED BY <3>1, <3>2, <3>3, <3>4, <3>5 DEF Reads, EraseStates
  <2>2. CASE blobs[job[p].payload] \notin {NoTenant, job[p].tenant}
    BY <1>0, <1>6, <2>2 DEF SealContent, Reads, EraseStates
  <2> QED BY <2>1, <2>2
<1>7. CASE SealCommit(p) \/ SealReport(p) \/ EraseReport(p) \/ Exit(p)
  BY <1>0, <1>7 DEF SealCommit, SealReport, EraseReport, Exit, Reads, EraseStates
<1>8. CASE SealAbort(p)
  BY <1>0, <1>8 DEF SealAbort, Reads, EraseStates
<1>9. ASSUME pc[p] \in EraseStates, job' = job,
             pc'[p] \notin {"seal:build", "seal:content", "seal:commit", "erase:commit"}
      PROVE  Reads(p)'
  <2>1. \E i \in DOMAIN chain' : ~IsEvent(chain'[i]) /\ chain'[i].payload = job[p].payload
    <3>1. PICK i \in DOMAIN chain : ~IsEvent(chain[i]) /\ chain[i].payload = job[p].payload
      BY <1>0, <1>9 DEF Reads
    <3>2. i \in DOMAIN chain' /\ chain'[i] = chain[i]
      <4>1. chain' \in Seq(Header) /\ Len(chain) <= Len(chain') /\ i \in 1..Len(chain)
        BY <1>0, FileGrows
      <4>2. chain'[i] = chain[i]
        BY <1>0, <4>1, FileGrows
      <4> QED BY <1>0, <4>1, <4>2
    <3> QED BY <3>1, <3>2
  <2> QED BY <1>9, <2>1 DEF Reads, IsEvent
<1>10. CASE EraseReadBlob(p) \/ EraseReadMeta(p) \/ EraseReadBlocks(p) \/ EraseReadEvents(p)
  <2>1. /\ pc[p] \in EraseStates /\ job' = job
        /\ pc'[p] \notin {"seal:build", "seal:content", "seal:commit", "erase:commit"}
    BY <1>0, <1>10 DEF EraseReadBlob, EraseReadMeta, EraseReadBlocks, EraseReadEvents, EraseStates
  <2> QED BY <1>9, <2>1
<1>11. CASE EraseCommit(p) \/ EraseAbort(p) \/ \E cubre \in 0..Len(chain) : EraseAuthorise(p, cubre)
  <2>1. /\ pc[p] \in EraseStates /\ job' = job
        /\ pc'[p] \notin {"seal:build", "seal:content", "seal:commit", "erase:commit"}
    BY <1>0, <1>11 DEF EraseCommit, EraseAbort, EraseAuthorise, EraseStates
  <2> QED BY <1>9, <2>1
<1>12. CASE \E now \in Times : EraseLast(p, now)
  <2> PICK now \in Times : EraseLast(p, now)
    BY <1>12
  <2>1. CASE RelojCoherente(chain, now)
    <3> DEFINE h == NewHeader(chain, now, job[p].tenant, "nucleo.erasure.v1",
                              job[p].payload, "auth", through[p])
    <3>1. b'[p] = Append(chain, h) /\ pc[p] = "erase:last"
      BY <1>0, <2>1 DEF TypeOK, EraseLast
    <3>2. Last(b'[p]) = h
      <4>1. job[p] \in EraseJob
        BY <1>0, <3>1 DEF KeyInv, Memory, MemoryOf, EraseStates
      <4>2. job[p].tenant \in Tenants /\ job[p].payload \in Payloads /\ through[p] \in Nat
        BY <1>0, <4>1 DEF TypeOK, EraseJob
      <4>3. h \in Header
        BY <1>0, <4>2, NewHeaderType
      <4> QED BY <1>0, <3>1, <4>3, AppendParts
    <3>3. RelojCoherente(chain, Last(b'[p]).time)
      BY <2>1, <3>2 DEF NewHeader
    <3>4. /\ prev'[p] = chain /\ job' = job /\ chain' = chain /\ pc'[p] = "erase:commit"
      BY <1>0, <2>1 DEF EraseLast, TypeOK, store
    <3>5. \E i \in DOMAIN chain : ~IsEvent(chain[i]) /\ chain[i].payload = job[p].payload
      BY <1>0, <3>1 DEF Reads, EraseStates
    <3> QED BY <1>0, <3>3, <3>4, <3>5 DEF Reads, RelojCoherente, IsEvent
  <2>2. CASE ~RelojCoherente(chain, now)
    BY <1>0, <2>2 DEF EraseLast, Reads, EraseStates
  <2> QED BY <2>1, <2>2
<1> QED BY <1>1, <1>2, <1>3, <1>4, <1>5, <1>6, <1>7, <1>8, <1>10, <1>11, <1>12
        DEF Start, SealStep, EraseStep

\* The duplicates a transaction's author listed are the earlier blocks of its content.
LEMMA ListedAreEarlier ==
  ASSUME TypeOK, ChainIsLinked, NEW h
  PROVE  BlocksWithPayload(chain, h) =
           {k - 1 : k \in {k \in 1..Len(chain) : ~IsEvent(chain[k]) /\ chain[k].payload = h}}
<1> DEFINE K == {k \in 1..Len(chain) : ~IsEvent(chain[k]) /\ chain[k].payload = h}
<1>1. DOMAIN chain = 1..Len(chain)
  BY DEF TypeOK
<1>2. {j \in DOMAIN chain : ~IsEvent(chain[j]) /\ chain[j].payload = h} = K
  BY <1>1
<1>3. \A k \in K : chain[k].index = k - 1
  BY <1>1 DEF ChainIsLinked
<1>4. BlocksWithPayload(chain, h) = {chain[k].index : k \in K}
  BY <1>2 DEF BlocksWithPayload
<1> HIDE DEF K
<1>5. {chain[k].index : k \in K} = {k - 1 : k \in K}
  BY <1>3
<1> QED BY <1>4, <1>5 DEF K

\* Whoever has written a block builds no other.
LEMMA AuthorsStop ==
  ASSUME TypeOK, NEW p \in Procs, Start(p) \/ SealStep(p) \/ EraseStep(p) \/ Exit(p),
         NEW q \in Procs, pc[q] \in {"seal:report", "erase:report", "ended"}
  PROVE  duplicados'[q] = duplicados[q]
<1>1. CASE q = p
  <2>1. SealReport(p) \/ EraseReport(p) \/ Exit(p)
    BY <1>1 DEF Start, StartSeal, StartErase, SealStep, EraseStep, SealKey,
       SealLook, SealLast, SealBuild, SealContent, SealCommit, SealAbort,
       EraseReadBlob, EraseReadMeta, EraseReadBlocks, EraseReadEvents, EraseAuthorise,
       EraseLast, EraseCommit, EraseAbort
  <2> QED BY <2>1 DEF SealReport, EraseReport, Exit, sealVars
<1>2. CASE q # p
  BY <1>2, OthersMemory
<1> QED BY <1>1, <1>2

\* A transaction lists what is in the chain, and records its own tenant.
LEMMA StepNamed ==
  ASSUME RaceInv, NEW p \in Procs, Start(p) \/ SealStep(p) \/ EraseStep(p) \/ Exit(p)
  PROVE  Named'
<1> DEFINE n == Len(chain)
<1>0. KeyInv /\ TypeOK /\ Named
  BY DEF RaceInv, KeyInv
<1>1. /\ n \in Nat /\ Len(chain') \in Nat
      /\ \A i \in 1..n : chain'[i] = chain[i] /\ author'[i] = author[i] /\ author[i] \in Procs
  BY <1>0, FileGrows
<1>2. \A i \in 1..n : ~IsEvent(chain'[i]) => duplicados'[author'[i]] = Earlier(i)'
  <2> SUFFICES ASSUME NEW i \in 1..n, ~IsEvent(chain[i])
               PROVE  duplicados'[author[i]] = Earlier(i)'
    BY <1>1
  <2>1. duplicados'[author[i]] = duplicados[author[i]]
    <3>1. author[i] \in Procs /\ pc[author[i]] \in {"seal:report", "erase:report", "ended"}
      BY <1>0, <1>1 DEF KeyInv, Written
    <3> QED BY <1>0, <3>1, AuthorsStop
  <2>2. \A k \in 1..i - 1 : chain'[k] = chain[k]
    BY <1>1
  <2>3. Earlier(i)' = Earlier(i)
    BY <1>1, <2>2 DEF Earlier, IsEvent
  <2>4. duplicados[author[i]] = Earlier(i)
    BY <1>0 DEF Named
  <2> QED BY <2>1, <2>3, <2>4
<1>3. CASE UNCHANGED store
  <2>1. Len(chain') = n /\ idem' = idem
    BY <1>3 DEF store
  <2> QED BY <1>0, <1>2, <2>1 DEF Named
<1>4. CASE ~UNCHANGED store
  <2> PICK m \in Nat : m = n
    BY <1>1
  <2>1. /\ SealCommit(p) \/ EraseCommit(p)
        /\ job' = job /\ duplicados' = duplicados
        /\ b[p] # << >> /\ prev[p] = chain /\ Len(chain') = n + 1
    BY <1>0, <1>4, FileSteps
  <2>2. PICK rec : AppendRecord(p, rec)
    BY <2>1 DEF SealCommit, EraseCommit
  <2>3. chain'[m + 1] = Last(b[p]) /\ author'[m + 1] = p
    BY <1>0, <2>1, <2>2, AppendedChain, AppendedAuthor DEF KeyInv, Written
  <2>4. ASSUME ~IsEvent(chain'[m + 1])
        PROVE  duplicados'[p] = Earlier(m + 1)'
    <3>1. SealCommit(p)
      BY <1>0, <2>1, <2>3, <2>4 DEF EraseCommit, KeyInv, Memory, MemoryOf, Signed, IsEvent
    <3>2. pc[p] = "seal:commit"
      BY <3>1 DEF SealCommit
    <3>3. chain'[m + 1].payload = job[p].payload
      BY <1>0, <2>3, <3>2 DEF KeyInv, Memory, MemoryOf, Signed
    <3>4. duplicados[p] = BlocksWithPayload(chain, job[p].payload)
      BY <2>1, <3>2 DEF RaceInv, Reads
    <3>5. BlocksWithPayload(chain, job[p].payload) =
            {k - 1 : k \in {k \in 1..m : ~IsEvent(chain[k]) /\ chain[k].payload = job[p].payload}}
      BY <1>0, ListedAreEarlier DEF KeyInv
    <3>6. Earlier(m + 1)' =
            {k - 1 : k \in {k \in 1..m : ~IsEvent(chain'[k]) /\ chain'[k].payload = job[p].payload}}
      BY <1>1, <3>3 DEF Earlier, IsEvent
    <3>7. {k \in 1..m : ~IsEvent(chain'[k]) /\ chain'[k].payload = job[p].payload} =
          {k \in 1..m : ~IsEvent(chain[k]) /\ chain[k].payload = job[p].payload}
      BY <1>1
    <3> QED BY <2>1, <3>4, <3>5, <3>6, <3>7
  <2>5. \A i \in 1..Len(chain') : i \in 1..n \/ i = m + 1
    BY <1>1, <2>1
  <2>6. \A i \in 1..Len(chain') : ~IsEvent(chain'[i]) => duplicados'[author'[i]] = Earlier(i)'
    <3> TAKE i \in 1..Len(chain')
    <3>1. CASE i \in 1..n
      BY <1>2, <3>1
    <3>2. CASE i = m + 1
      BY <2>3, <2>4, <3>2
    <3> QED BY <2>5, <3>1, <3>2
  <2>7. \A tk \in Tenants \X Keys : idem'[tk] # NoRecord => idem'[tk].tenant = tk[1]
    <3>1. CASE EraseCommit(p)
      <4>1. idem' = idem
        BY <3>1 DEF EraseCommit, AppendRecord, StateAfter, EraseRecord
      <4> QED BY <1>0, <4>1 DEF Named
    <3>2. CASE SealCommit(p)
      <4>1. idem' = IF HasKey(p) THEN [idem EXCEPT ![KeyOf(p)] = EntradaIdem(p)] ELSE idem
        BY <3>2 DEF SealCommit, AppendRecord, StateAfter, SealRecord
      <4>2. EntradaIdem(p).tenant = job[p].tenant /\ KeyOf(p)[1] = job[p].tenant
        BY DEF EntradaIdem, KeyOf
      <4>3. idem \in [Tenants \X Keys -> IdemRecord \cup {NoRecord}]
        BY <1>0 DEF TypeOK
      <4> SUFFICES ASSUME NEW tk \in Tenants \X Keys, idem'[tk] # NoRecord
                   PROVE  idem'[tk].tenant = tk[1]
        OBVIOUS
      <4>4. CASE idem'[tk] = idem[tk]
        BY <1>0, <4>4 DEF Named
      <4>5. CASE idem'[tk] # idem[tk]
        <5>1. tk = KeyOf(p) /\ idem'[tk] = EntradaIdem(p)
          BY <4>1, <4>3, <4>5
        <5> QED BY <4>2, <5>1
      <4> QED BY <4>4, <4>5
    <3> QED BY <2>1, <3>1, <3>2
  <2> QED BY <2>6, <2>7 DEF Named
<1> QED BY <1>3, <1>4

\* A transaction takes a copy away only with the event that suppresses it, and a
\* block that counts on a copy finds it.
LEMMA StepContent ==
  ASSUME RaceInv, NEW p \in Procs, Start(p) \/ SealStep(p) \/ EraseStep(p) \/ Exit(p)
  PROVE  ContentOrErasure'
<1> DEFINE n == Len(chain)
           h == job[p].payload
<1>0. KeyInv /\ TypeOK /\ ContentOrErasure
  BY DEF RaceInv, KeyInv
<1>1. CASE UNCHANGED store
  BY <1>0, <1>1 DEF store, ContentOrErasure, IsEvent
<1>2. CASE ~UNCHANGED store
  <2>1. /\ SealCommit(p) \/ EraseCommit(p)
        /\ b[p] # << >> /\ prev[p] = chain
    BY <1>0, <1>2, FileSteps
  <2>2. PICK rec : AppendRecord(p, rec)
    BY <2>1 DEF SealCommit, EraseCommit
  <2>3. /\ n \in Nat /\ Len(chain') = n + 1 /\ \A i \in 1..n : chain'[i] = chain[i]
        /\ chain'[n + 1] = Last(b[p]) /\ DOMAIN chain = 1..n /\ DOMAIN chain' = 1..n + 1
    <3>1. /\ n \in Nat /\ Len(chain') = n + 1 /\ \A i \in 1..n : chain'[i] = chain[i]
          /\ chain'[n + 1] = Last(b[p]) /\ chain' \in Seq(Header)
      BY <1>0, <2>1, <2>2, AppendedChain
    <3>2. chain \in Seq(Header)
      BY <1>0 DEF TypeOK
    <3> QED BY <3>1, <3>2
  <2>4. Last(b[p]).payload = h /\ Last(b[p]).tenant = job[p].tenant
    BY <1>0, <2>1 DEF SealCommit, EraseCommit, KeyInv, Memory, MemoryOf, Signed
  <2>5. h \in Payloads /\ job[p].tenant \in Tenants
    <3>1. CASE SealCommit(p)
      BY <1>0, <3>1, SealJobType DEF SealCommit, KeyInv, Memory, MemoryOf, SealStates
    <3>2. CASE EraseCommit(p)
      BY <1>0, <3>2 DEF EraseCommit, KeyInv, Memory, MemoryOf, EraseStates, EraseJob
    <3> QED BY <2>1, <3>1, <3>2
  <2>6. ASSUME NEW i \in 1..n, chain[i].cid = "blob"
        PROVE  \/ blobs'[chain[i].payload] = chain[i].tenant
               \/ \E k \in 1..n + 1 : k > i /\ IsEvent(chain'[k]) /\ chain'[k].payload = chain[i].payload
    <3>1. CASE \E k \in DOMAIN chain : k > i /\ IsEvent(chain[k]) /\ chain[k].payload = chain[i].payload
      BY <2>3, <3>1
    <3>2. CASE blobs[chain[i].payload] = chain[i].tenant
      <4>1. chain[i] \in Header
        BY <1>0, <2>3 DEF TypeOK
      <4>2. chain[i].tenant \in Tenants /\ chain[i].tenant # NoTenant /\ chain[i].payload \in Payloads
        BY <4>1, NoTenantAssumption DEF Header
      <4>3. CASE blobs'[chain[i].payload] = blobs[chain[i].payload]
        BY <3>2, <4>3
      <4>4. CASE blobs'[chain[i].payload] # blobs[chain[i].payload]
        <5>1. blobs \in [Payloads -> Tenants \cup {NoTenant}]
          BY <1>0 DEF TypeOK
        <5>2. CASE SealCommit(p)
          <6>1. /\ putBlob[p] => blobs[h] = NoTenant
                /\ blobs' = IF putBlob[p] THEN [blobs EXCEPT ![h] = job[p].tenant] ELSE blobs
            BY <5>2 DEF SealCommit, AppendRecord, SealRecord
          <6> QED BY <3>2, <4>2, <4>4, <5>1, <6>1
        <5>3. CASE EraseCommit(p)
          <6>1. blobs' = IF hayBlob[p] THEN [blobs EXCEPT ![h] = NoTenant] ELSE blobs
            BY <5>3 DEF EraseCommit, AppendRecord, EraseRecord
          <6>2. chain[i].payload = h
            BY <4>2, <4>4, <5>1, <6>1
          <6>3. IsEvent(Last(b[p]))
            BY <1>0, <5>3 DEF EraseCommit, KeyInv, Memory, MemoryOf, Signed, IsEvent
          <6> QED BY <2>3, <2>4, <6>2, <6>3
        <5> QED BY <2>1, <5>2, <5>3
      <4> QED BY <4>3, <4>4
    <3> QED BY <1>0, <2>3, <2>6, <3>1, <3>2 DEF ContentOrErasure
  <2>7. ASSUME Last(b[p]).cid = "blob"
        PROVE  blobs'[h] = job[p].tenant
    <3>1. SealCommit(p)
      BY <1>0, <2>1, <2>7 DEF EraseCommit, KeyInv, Memory, MemoryOf, Signed
    <3>2. pc[p] = "seal:commit" /\ job[p].enc
      BY <1>0, <2>7, <3>1 DEF SealCommit, KeyInv, Memory, MemoryOf, Signed
    <3>3. ~putBlob[p] => blobs[h] = job[p].tenant
      BY <2>1, <3>2 DEF RaceInv, Reads
    <3>4. blobs' = IF putBlob[p] THEN [blobs EXCEPT ![h] = job[p].tenant] ELSE blobs
      BY <3>1 DEF SealCommit, AppendRecord, SealRecord
    <3>5. blobs \in [Payloads -> Tenants \cup {NoTenant}]
      BY <1>0 DEF TypeOK
    <3> QED BY <2>5, <3>3, <3>4, <3>5
  <2> SUFFICES ASSUME NEW i \in 1..n + 1, chain'[i].cid = "blob"
               PROVE  \/ blobs'[chain'[i].payload] = chain'[i].tenant
                      \/ \E k \in 1..n + 1 : k > i /\ IsEvent(chain'[k])
                                             /\ chain'[k].payload = chain'[i].payload
    BY <2>3 DEF ContentOrErasure, IsEvent
  <2>8. i \in 1..n \/ i = n + 1
    BY <2>3
  <2> QED BY <2>3, <2>4, <2>6, <2>7, <2>8
<1> QED BY <1>1, <1>2

\* The invariant of the races holds in every state.
LEMMA RaceInvInvariant == Spec => []RaceInv
<1>1. Init => RaceInv
  <2> SUFFICES ASSUME Init PROVE RaceInv
    OBVIOUS
  <2>1. KeyInv
    BY InitKeys
  <2>2. chain = << >> /\ DOMAIN chain = {} /\ Len(chain) = 0
    BY DEF Init
  <2>3. Named /\ ContentOrErasure
    BY <2>2 DEF Init, Named, ContentOrErasure
  <2>4. \A p \in Procs : Reads(p) /\ Words(p)
    BY DEF Init, Reads, Words, EraseStates
  <2>5. \A p \in Procs : Given(p) = {}
    BY DEF Init, Given
  <2> QED BY <2>1, <2>3, <2>4, <2>5 DEF RaceInv
<1>2. RaceInv /\ [Next]_vars => RaceInv'
  <2> SUFFICES ASSUME RaceInv, [Next]_vars PROVE RaceInv'
    OBVIOUS
  <2>1. CASE Next
    <3> PICK p \in Procs : Start(p) \/ SealStep(p) \/ EraseStep(p) \/ Exit(p)
      BY <2>1 DEF Next
    <3>1. KeyInv'
      BY StepKeys DEF RaceInv
    <3>2. Named' /\ ContentOrErasure'
      BY StepNamed, StepContent
    <3>3. \A q \in Procs : Reads(q)' /\ Words(q)' /\ \A a \in Given(q)' : AnswerIsTrue(q, a)'
      <4> TAKE q \in Procs
      <4>1. Reads(q)'
        BY OthersReads, OwnReads
      <4>2. Words(q)'
        BY OthersWords, OwnWords
      <4> QED BY <4>1, <4>2, StepAnswers
    <3> QED BY <3>1, <3>2, <3>3 DEF RaceInv
  <2>2. CASE UNCHANGED vars
    <3>1. KeyInv'
      BY <2>2, KeysStutter DEF RaceInv
    <3>2. UNCHANGED <<chain, blobs, idem, author, pc, job, prev, b, duplicados, putBlob, out>>
      BY <2>2 DEF vars, store, sealVars
    <3>3. Named' /\ ContentOrErasure'
      BY <3>2 DEF RaceInv, Named, Earlier, ContentOrErasure, IsEvent
    <3>4. \A q \in Procs : Reads(q)'
      BY <3>2 DEF RaceInv, Reads, RelojCoherente, BlocksWithPayload, IsEvent
    <3>5. \A q \in Procs : Words(q)'
      BY <3>2 DEF RaceInv, Words, Reported, KeyedBlocks, KeyOf, IsEvent
    <3>6. \A q \in Procs : \A a \in Given(q)' : AnswerIsTrue(q, a)'
      <4> SUFFICES ASSUME NEW q \in Procs, NEW a \in Given(q) PROVE AnswerIsTrue(q, a)'
        BY <3>2 DEF Given
      <4>1. AnswerIsTrue(q, a)
        BY DEF RaceInv
      <4>2. KeyedBlocks(KeyOf(q))' = KeyedBlocks(KeyOf(q))
        BY <3>2 DEF KeyedBlocks, KeyOf, IsEvent
      <4> QED BY <3>2, <4>1, <4>2 DEF AnswerIsTrue
    <3> QED BY <3>1, <3>3, <3>4, <3>5, <3>6 DEF RaceInv
  <2> QED BY <2>1, <2>2
<1> QED BY <1>1, <1>2, PTL DEF Spec

\* A content sealed with a copy stays readable by its tenant until a later event
\* suppresses it: no seal that reuses a copy commits after an erase that took it
\* away, and no erase takes away a copy that a seal relies on without an event
\* after it, however the two interleave.
THEOREM ContentStaysOrIsErased == Spec => []ContentOrErasure
<1>1. RaceInv => ContentOrErasure
  BY DEF RaceInv
<1> QED BY <1>1, RaceInvInvariant, PTL

\* What was said is true, in the states of the invariant.
LEMMA TrueAnswers ==
  ASSUME RaceInv
  PROVE  \A p \in Procs : \A a \in Given(p) : AnswerIsTrue(p, a)
  BY DEF RaceInv

\* A request to seal is not a request to erase.
LEMMA JobKinds ==
  ASSUME NEW j \in SealJobs
  PROVE  j \notin EraseJob
<1>1. j \in SealJob
  BY JobsAssumption
<1> QED BY <1>1 DEF SealJob, EraseJob

\* A seal that was written has named every earlier block of its content to its
\* caller, although it listed them before its transaction.
THEOREM DuplicatesStayNamed == Spec => []DuplicatesAreNamed
<1>1. RaceInv => DuplicatesAreNamed
  <2> SUFFICES ASSUME RaceInv, NEW i \in DOMAIN chain, NEW a \in Given(author[i]),
                      a.kind = "sealed"
               PROVE  a.dup = Earlier(i)
    BY DEF DuplicatesAreNamed, Earlier
  <2>1. i \in 1..Len(chain) /\ author[i] \in Procs
    BY DEF RaceInv, KeyInv, TypeOK, Written
  <2>2. a.dup = duplicados[author[i]] /\ job[author[i]] \in SealJobs
    <3>1. AnswerIsTrue(author[i], a)
      BY <2>1, TrueAnswers
    <3> QED BY <3>1 DEF AnswerIsTrue
  <2>3. ~IsEvent(chain[i])
    BY <2>1, <2>2, JobKinds DEF RaceInv, KeyInv, Written
  <2> QED BY <2>1, <2>2, <2>3 DEF RaceInv, Named
<1> QED BY <1>1, RaceInvInvariant, PTL

\* An answer that says sealed or erased names a block that its command wrote,
\* for callers without a key or with a patient one: across lost races, retries
\* and the second look at the key.
THEOREM AnswersStayWritten == Spec => []AnsweredIsWritten
<1>1. RaceInv => AnsweredIsWritten
  <2> SUFFICES ASSUME RaceInv, NEW p \in Procs, NEW a \in Given(p), AnswerIsTrue(p, a)
               PROVE  a.kind = "erased" \/ (a.kind = "sealed" /\ job[p].key \in PatientKeys \cup {NoKey})
                        => IsPrefix(a.hash, chain) /\ author[Len(a.hash)] = p
    BY TrueAnswers DEF AnsweredIsWritten
  <2> QED BY DEF AnswerIsTrue
<1> QED BY <1>1, RaceInvInvariant, PTL

\* An idempotent answer names a block of the caller's own document, sealed under
\* the caller's own key.
THEOREM RepeatedKeysStayTrue == Spec => []IdempotentAnswerIsTrue
<1>1. RaceInv => IdempotentAnswerIsTrue
  <2> SUFFICES ASSUME RaceInv, NEW p \in Procs, NEW a \in Given(p), AnswerIsTrue(p, a)
               PROVE  a.kind = "idempotent" =>
                        /\ IsPrefix(a.hash, chain)
                        /\ Len(a.hash) \in KeyedBlocks(KeyOf(p))
                        /\ Last(a.hash).tenant = job[p].tenant
                        /\ Last(a.hash).payload = job[p].payload /\ Last(a.hash).typ = job[p].typ
    BY TrueAnswers DEF IdempotentAnswerIsTrue
  <2> QED BY DEF AnswerIsTrue
<1> QED BY <1>1, RaceInvInvariant, PTL

\* A lost race shows only as an error that a retry repairs: never as a copy that
\* a competitor stored, as time that went back, or as a record without its block.
THEOREM RacesStayRetriable == Spec => []RacesAreRetriable
<1>1. RaceInv => RacesAreRetriable
  <2> SUFFICES ASSUME RaceInv, NEW p \in Procs, NEW a \in Given(p), AnswerIsTrue(p, a)
               PROVE  a.kind \notin {"ErrDuplicateBlob", "ErrTimestampOrder",
                                    "record without its block"}
    BY TrueAnswers DEF RacesAreRetriable
  <2> QED BY DEF AnswerIsTrue
<1> QED BY <1>1, RaceInvInvariant, PTL

-----------------------------------------------------------------------------
(* The commands keep the promise of SealedLog *)

AbstractLog == [i \in DOMAIN chain |-> EntryOf(i)]

\* Every block is an entry of the promised log.
LEMMA EntriesType ==
  ASSUME KeyInv
  PROVE  \A i \in 1..Len(chain) : EntryOf(i) \in Abstract!Entry
<1> SUFFICES ASSUME NEW i \in 1..Len(chain) PROVE EntryOf(i) \in Abstract!Entry
  OBVIOUS
<1>1. chain[i] \in Header
  BY DEF KeyInv, TypeOK
<1>2. ~IsEvent(chain[i]) => job[author[i]].key \in Keys \cup {NoKey}
  <2>1. ~IsEvent(chain[i]) => job[author[i]] \in SealJob
    BY JobsAssumption DEF KeyInv, Written
  <2> QED BY <2>1 DEF SealJob
<1>3. chain[i].tenant \in Tenants /\ chain[i].payload \in Payloads
  BY <1>1 DEF Header
<1> QED BY <1>2, <1>3 DEF EntryOf, Abstract!Entry

\* A step that leaves the file alone leaves the promised log alone.
LEMMA QuietStep ==
  ASSUME KeyInv, UNCHANGED store,
         \A i \in 1..Len(chain) : job'[author[i]] = job[author[i]]
  PROVE  UNCHANGED <<AbstractLog, blobs>>
<1>1. DOMAIN chain = 1..Len(chain) /\ chain' = chain /\ author' = author /\ blobs' = blobs
  BY DEF KeyInv, TypeOK, store
<1>2. \A i \in 1..Len(chain) : EntryOf(i)' = EntryOf(i)
  BY <1>1 DEF EntryOf, IsEvent
<1> QED BY <1>1, <1>2 DEF AbstractLog

\* A transaction appends the entry of its block.
LEMMA AppendedEntry ==
  ASSUME KeyInv, NEW p \in Procs, NEW rec, AppendRecord(p, rec), b[p] # << >>, job' = job,
         NEW e, e = [kind |-> IF IsEvent(Last(b[p])) THEN "suppression" ELSE "document",
                     tenant |-> Last(b[p]).tenant, payload |-> Last(b[p]).payload,
                     key |-> IF IsEvent(Last(b[p])) THEN NoKey ELSE job[p].key]
  PROVE  /\ AbstractLog \in Seq(Abstract!Entry) /\ AbstractLog' = Append(AbstractLog, e)
         /\ DOMAIN AbstractLog = 1..Len(chain)
         /\ \A i \in 1..Len(chain) : AbstractLog[i] = EntryOf(i)
<1> PICK n \in Nat : n = Len(chain)
  BY DEF KeyInv, TypeOK
<1>1. /\ \A i \in 1..n : chain'[i] = chain[i] /\ author'[i] = author[i]
      /\ chain'[n + 1] = Last(b[p]) /\ author'[n + 1] = p
      /\ chain \in Seq(Header) /\ chain' \in Seq(Header) /\ Len(chain') = n + 1
  BY AppendedChain, AppendedAuthor DEF KeyInv, Written, TypeOK
<1>2. DOMAIN chain = 1..n /\ DOMAIN chain' = 1..n + 1
  BY <1>1
<1>3. \A i \in 1..n : EntryOf(i)' = EntryOf(i)
  BY <1>1 DEF EntryOf, IsEvent
<1>4. EntryOf(n + 1)' = e
  BY <1>1 DEF EntryOf, IsEvent
<1>5. AbstractLog = [i \in 1..n |-> EntryOf(i)] /\ AbstractLog \in Seq(Abstract!Entry)
  <2>1. AbstractLog = [i \in 1..n |-> EntryOf(i)]
    BY <1>2 DEF AbstractLog
  <2>2. \A i \in 1..n : EntryOf(i) \in Abstract!Entry
    BY EntriesType
  <2> QED BY <2>1, <2>2
<1>6. AbstractLog' = [i \in 1..n + 1 |-> EntryOf(i)']
  BY <1>2 DEF AbstractLog
<1>7. \A i \in 1..n + 1 : EntryOf(i)' = IF i = n + 1 THEN e ELSE EntryOf(i)
  BY <1>3, <1>4
<1>8. AbstractLog' = [i \in 1..n + 1 |-> IF i = n + 1 THEN e ELSE EntryOf(i)]
  BY <1>6, <1>7
<1>9. Append(AbstractLog, e) = [i \in 1..n + 1 |-> IF i = n + 1 THEN e ELSE AbstractLog[i]]
  BY <1>5
<1>10. \A i \in 1..n : AbstractLog[i] = EntryOf(i)
  BY <1>5
<1>11. AbstractLog' = Append(AbstractLog, e)
  BY <1>8, <1>9, <1>10
<1> QED BY <1>2, <1>5, <1>10, <1>11

\* The transaction of a seal puts one document: its key is unspent if its caller
\* waits, and its copy takes the place of none.
LEMMA SealPuts ==
  ASSUME RaceInv, NEW p \in Procs, SealCommit(p)
  PROVE  \E e \in Abstract!Entry : Abstract!Put(e)
<1> DEFINE e == [kind |-> "document", tenant |-> job[p].tenant, payload |-> job[p].payload,
                 key |-> job[p].key]
<1>0. /\ KeyInv /\ TypeOK /\ pc[p] = "seal:commit" /\ job[p] \in SealJobs
      /\ AppendRecord(p, SealRecord(p)) /\ job' = job
  BY DEF RaceInv, KeyInv, SealCommit, Memory, MemoryOf, SealStates
<1>1. /\ b[p] # << >> /\ Last(b[p]).tenant = job[p].tenant /\ Last(b[p]).payload = job[p].payload
      /\ ~IsEvent(Last(b[p]))
  BY <1>0 DEF KeyInv, Memory, MemoryOf, Signed, IsEvent
<1>2. e \in Abstract!Entry
  BY <1>0, SealJobType DEF Abstract!Entry
<1>3. /\ AbstractLog' = Append(AbstractLog, e)
      /\ DOMAIN AbstractLog = 1..Len(chain)
      /\ \A i \in 1..Len(chain) : AbstractLog[i] = EntryOf(i)
  BY <1>0, <1>1, AppendedEntry
<1>4. job[p].key \in PatientKeys => ~Abstract!Spent(e)
  <2> SUFFICES ASSUME job[p].key \in PatientKeys, Abstract!Spent(e) PROVE FALSE
    OBVIOUS
  <2>1. PICK i \in 1..Len(chain) : /\ EntryOf(i).kind = "document" /\ EntryOf(i).tenant = job[p].tenant
                                   /\ EntryOf(i).key = job[p].key
    BY <1>3 DEF Abstract!Spent, AbstractLog
  <2>2. ~IsEvent(chain[i]) /\ chain[i].tenant = job[p].tenant /\ job[author[i]].key = job[p].key
    BY <2>1 DEF EntryOf
  <2>3. KeyOf(author[i]) = KeyOf(p) /\ i \in DOMAIN chain
    <3>1. i \in DOMAIN chain
      BY <1>0 DEF TypeOK
    <3>2. job[author[i]].tenant = job[p].tenant
      BY <1>0, <2>2 DEF KeyInv, Written
    <3> QED BY <2>2, <3>1, <3>2 DEF KeyOf
  <2>4. i \in KeyedBlocks(KeyOf(p))
    BY <2>2, <2>3 DEF KeyedBlocks
  <2> QED BY <1>0, <2>4 DEF KeyInv, KeysHeld
<1>5. /\ putBlob[p] => blobs[job[p].payload] = NoTenant
      /\ blobs' = IF putBlob[p] THEN [blobs EXCEPT ![job[p].payload] = job[p].tenant] ELSE blobs
  BY <1>0 DEF AppendRecord, SealRecord
<1>6. Abstract!Put(e)
  BY <1>3, <1>4, <1>5 DEF Abstract!Put, AbstractLog
<1> QED BY <1>2, <1>6

\* The transaction of an erase suppresses a content that a document sealed.
LEMMA EraseSuppresses ==
  ASSUME RaceInv, NEW p \in Procs, EraseCommit(p)
  PROVE  \E e \in Abstract!Entry : Abstract!Suppress(e)
<1> DEFINE e == [kind |-> "suppression", tenant |-> job[p].tenant, payload |-> job[p].payload,
                 key |-> NoKey]
<1>0. /\ KeyInv /\ TypeOK /\ pc[p] = "erase:commit" /\ job[p] \in EraseJob
      /\ AppendRecord(p, EraseRecord(p)) /\ job' = job
  BY DEF RaceInv, KeyInv, EraseCommit, Memory, MemoryOf, EraseStates
<1>1. /\ b[p] # << >> /\ Last(b[p]).tenant = job[p].tenant /\ Last(b[p]).payload = job[p].payload
      /\ IsEvent(Last(b[p]))
  BY <1>0 DEF KeyInv, Memory, MemoryOf, Signed, IsEvent
<1>2. e \in Abstract!Entry
  BY <1>0 DEF Abstract!Entry, EraseJob
<1>3. /\ AbstractLog' = Append(AbstractLog, e)
      /\ DOMAIN AbstractLog = 1..Len(chain) /\ DOMAIN chain = 1..Len(chain)
      /\ \A i \in 1..Len(chain) : AbstractLog[i] = EntryOf(i)
  BY <1>0, <1>1, AppendedEntry DEF TypeOK
<1>4. \E i \in DOMAIN AbstractLog : AbstractLog[i].kind = "document"
                                    /\ AbstractLog[i].payload = job[p].payload
  <2>1. PICK i \in 1..Len(chain) : ~IsEvent(chain[i]) /\ chain[i].payload = job[p].payload
    BY <1>0, <1>3 DEF RaceInv, Reads, EraseStates
  <2> QED BY <1>3, <2>1 DEF EntryOf
<1>5. blobs' = IF hayBlob[p] THEN [blobs EXCEPT ![job[p].payload] = NoTenant] ELSE blobs
  BY <1>0 DEF AppendRecord, EraseRecord
<1>6. Abstract!Suppress(e)
  BY <1>3, <1>4, <1>5 DEF Abstract!Suppress, AbstractLog
<1> QED BY <1>2, <1>6

\* Every step of a command is a step of the promised log, or nothing that its
\* callers see.
LEMMA StepOfLog ==
  ASSUME RaceInv, [Next]_vars
  PROVE  [Abstract!Next]_<<AbstractLog, blobs>>
<1>0. KeyInv /\ TypeOK
  BY DEF RaceInv, KeyInv
<1>1. CASE UNCHANGED vars
  BY <1>0, <1>1, QuietStep DEF vars, store
<1>2. CASE Next
  <2> PICK p \in Procs : Start(p) \/ SealStep(p) \/ EraseStep(p) \/ Exit(p)
    BY <1>2 DEF Next
  <2>1. CASE SealCommit(p) \/ EraseCommit(p)
    BY <2>1, SealPuts, EraseSuppresses DEF Abstract!Next
  <2>2. CASE UNCHANGED store
    <3>1. \A i \in 1..Len(chain) : job'[author[i]] = job[author[i]]
      <4> TAKE i \in 1..Len(chain)
      <4>1. author[i] \in Procs
        BY <1>0 DEF TypeOK, KeyInv, Written
      <4>2. pc[author[i]] # "new"
        BY <1>0 DEF KeyInv, Written
      <4> QED BY <1>0, <4>1, <4>2, Steady
    <3> QED BY <1>0, <2>2, <3>1, QuietStep
  <2> QED BY <2>1, <2>2, StoreSteps
<1> QED BY <1>1, <1>2

\* The commands keep the promise of SealedLog: whatever they read before their
\* transactions, and however they race, crash and retry, each step appends one
\* entry with its content, suppresses one, or changes nothing that a caller sees.
THEOREM SealedLogIsKept == Spec => ImplementsSealedLog
<1>1. Init => Abstract!Init
  <2> SUFFICES ASSUME Init PROVE AbstractLog = << >> /\ blobs = [h \in Payloads |-> NoTenant]
    BY DEF Abstract!Init, AbstractLog
  <2>1. chain = << >> /\ DOMAIN chain = {}
    BY DEF Init
  <2> QED BY <2>1 DEF Init, AbstractLog
<1>2. RaceInv /\ [Next]_vars => [Abstract!Next]_<<AbstractLog, blobs>>
  BY StepOfLog
<1> QED BY <1>1, <1>2, RaceInvInvariant, PTL
     DEF Spec, ImplementsSealedLog, Abstract!Spec, Abstract!vars, AbstractLog
=============================================================================
