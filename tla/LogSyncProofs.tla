---------------------------- MODULE LogSyncProofs ----------------------------
(***************************************************************************)
(* Proofs about modules Witness and LogSync.  First the witness: for any       *)
(* number of witnesses, logs, requests, configurations, keys, restarts and     *)
(* clock readings.  Then the composition with the sync commands: for any       *)
(* number of them and of blocks, with the lemmas of the witness they speak to. *)
(***************************************************************************)
EXTENDS LogSync, TLAPS

-----------------------------------------------------------------------------
(* Prefixes *)

\* A prefix, element by element.
LEMMA PrefixMeans ==
  ASSUME NEW S, NEW s \in Seq(S), NEW t \in Seq(S)
  PROVE  IsPrefix(s, t) <=> Len(s) <= Len(t) /\ \A i \in 1..Len(s) : s[i] = t[i]
<1>1. Len(s) \in Nat /\ Len(t) \in Nat
  OBVIOUS
<1>2. CASE Len(s) <= Len(t)
  <2>1. SubSeq(s, 1, Len(s)) = [i \in 1..Len(s) |-> s[i]]
    BY <1>1
  <2>2. SubSeq(t, 1, Len(s)) = [i \in 1..Len(s) |-> t[i]]
    BY <1>1, <1>2
  <2>3. ASSUME SubSeq(s, 1, Len(s)) = SubSeq(t, 1, Len(s)), NEW i \in 1..Len(s)
        PROVE  s[i] = t[i]
    <3>1. [j \in 1..Len(s) |-> s[j]][i] = [j \in 1..Len(s) |-> t[j]][i]
      BY <2>1, <2>2, <2>3
    <3> QED BY <3>1
  <2>4. ASSUME \A i \in 1..Len(s) : s[i] = t[i]
        PROVE  SubSeq(s, 1, Len(s)) = SubSeq(t, 1, Len(s))
    <3>1. [i \in 1..Len(s) |-> s[i]] = [i \in 1..Len(s) |-> t[i]]
      BY <2>4
    <3> QED BY <3>1, <2>1, <2>2
  <2> QED BY <1>2, <2>3, <2>4 DEF IsPrefix
<1>3. CASE ~(Len(s) <= Len(t))
  BY <1>3 DEF IsPrefix
<1> QED BY <1>2, <1>3

\* Every sequence continues itself, and the empty one.
LEMMA PrefixReflexive ==
  ASSUME NEW S, NEW t \in Seq(S)
  PROVE  /\ IsPrefix(t, t)
         /\ \A s \in Seq(S) : Len(s) = 0 => IsPrefix(s, t)
<1>1. IsPrefix(t, t)
  BY DEF IsPrefix
<1>2. ASSUME NEW s \in Seq(S), Len(s) = 0
      PROVE  IsPrefix(s, t)
  <2>1. Len(s) <= Len(t) /\ \A i \in 1..Len(s) : s[i] = t[i]
    BY <1>2
  <2> QED BY <2>1, PrefixMeans
<1> QED BY <1>1, <1>2

\* What continues a continuation continues the original.
LEMMA PrefixTransitive ==
  ASSUME NEW S, NEW r \in Seq(S), NEW s \in Seq(S), NEW t \in Seq(S),
         IsPrefix(r, s), IsPrefix(s, t)
  PROVE  IsPrefix(r, t)
<1>1. Len(r) <= Len(s) /\ \A i \in 1..Len(r) : r[i] = s[i]
  BY PrefixMeans
<1>2. Len(s) <= Len(t) /\ \A i \in 1..Len(s) : s[i] = t[i]
  BY PrefixMeans
<1>3. Len(r) \in Nat /\ Len(s) \in Nat /\ Len(t) \in Nat
  OBVIOUS
<1>4. Len(r) <= Len(t) /\ \A i \in 1..Len(r) : r[i] = t[i]
  BY <1>1, <1>2, <1>3
<1> QED BY <1>4, PrefixMeans

-----------------------------------------------------------------------------
(* The checks of the transaction *)

\* A tree is a sequence of blocks.
LEMMA TreeIsSequence ==
  ASSUME NEW tree \in Trees
  PROVE  tree \in Seq(Blocks) /\ Len(tree) \in Nat
BY TreesAssumption

\* What the transaction accepts continues what is remembered.
LEMMA AcceptedExtends ==
  ASSUME NEW kept \in Note \cup {NoNote}, NEW q \in Request,
         CheckExtension(kept, q) = "ok", kept # NoNote
  PROVE  IsPrefix(kept.tree, q.note.tree)
<1>1. kept.tree \in Trees /\ q.note.tree \in Trees
  BY DEF Request, Note
<1>2. kept.tree \in Seq(Blocks) /\ q.note.tree \in Seq(Blocks)
  BY <1>1, TreeIsSequence
<1>3. q.old = Len(kept.tree)
  BY DEF CheckExtension, Remembered
<1>4. CASE q.old = 0
  BY <1>2, <1>3, <1>4, PrefixReflexive
<1>5. CASE q.old # 0 /\ q.old = Len(q.note.tree)
  <2>1. q.note.tree = kept.tree
    BY <1>3, <1>5 DEF CheckExtension, Remembered
  <2> QED BY <2>1, <1>2, PrefixReflexive
<1>6. CASE q.old # 0 /\ q.old # Len(q.note.tree)
  BY <1>3, <1>6 DEF CheckExtension, Remembered
<1> QED BY <1>4, <1>5, <1>6

\* The size a witness gives of a log is a number, 0 or that of its memory.
LEMMA RememberedType ==
  ASSUME NEW kept \in Note \cup {NoNote}
  PROVE  /\ Remembered(kept) \in Nat
         /\ Remembered(kept) # 0 => kept # NoNote /\ Remembered(kept) = Len(kept.tree)
<1>1. CASE kept = NoNote
  BY <1>1 DEF Remembered
<1>2. CASE kept # NoNote
  <2>1. kept.tree \in Trees
    BY <1>2 DEF Note
  <2> QED BY <2>1, <1>2, TreeIsSequence DEF Remembered
<1> QED BY <1>1, <1>2

\* The verdicts of the two stages, and the answers that carry them.
LEMMA VerdictTypes ==
  /\ \A q \in Request : Screen(q) \in {"retired", "unknown", "signature", "old size", "ok"}
  /\ \A kept \in Note \cup {NoNote}, q \in Request :
       CheckExtension(kept, q) \in {"conflict", "unprocessable", "ok"}
<1>1. \A q \in Request : Screen(q) \in {"retired", "unknown", "signature", "old size", "ok"}
  BY DEF Screen
<1>2. \A kept \in Note \cup {NoNote}, q \in Request :
       CheckExtension(kept, q) \in {"conflict", "unprocessable", "ok"}
  BY DEF CheckExtension
<1> QED BY <1>1, <1>2

Answers == [kind: Kinds, size: Nat, time: Nat]

\* An answer with a kind, a size and a time is an answer.
LEMMA AnswerType ==
  ASSUME NEW kind \in Kinds, NEW size \in Nat, NEW time \in Nat
  PROVE  Answer(kind, size, time) \in Answers
BY DEF Answer, Answers

-----------------------------------------------------------------------------
(* The steps *)

\* A witness sent any request at all, as module LogSync sends them; left to
\* itself it is sent some of them.
AnyNext == WitnessStep \/ \E h \in Handlers, q \in Request : Send(h, q)

\* Its own steps are among those.
LEMMA StepOfAny == [WitnessNext]_witnessVars => [AnyNext]_witnessVars
BY RequestsAssumption DEF WitnessNext, AnyNext

-----------------------------------------------------------------------------
(* Type correctness *)

\* Replying keeps the types of the requests.
LEMMA ReplyTypes ==
  ASSUME WitnessTypeOK, NEW h \in Handlers, NEW a \in Answers, Reply(h, a),
         hpc[h] # "idle", UNCHANGED req
  PROVE  /\ hpc' \in [Handlers -> {"idle", "sent", "checked", "answered", "lost"}]
         /\ answer' \in [Handlers -> Answers]
         /\ \A g \in Handlers : hpc'[g] # "idle" => req'[g] \in Request
         /\ req' \in [Handlers -> Request \cup {NoRequest}]
BY DEF WitnessTypeOK, Reply, Answers

\* The types of the request a step is about.
LEMMA RequestTypes ==
  ASSUME WitnessTypeOK, NEW h \in Handlers, hpc[h] # "idle"
  PROVE  /\ req[h] \in Request
         /\ req[h].to \in Witnesses /\ req[h].note \in Note
         /\ req[h].note.origin \in Origins /\ req[h].note.key \in LogKeys
         /\ req[h].note.tree \in Trees /\ req[h].old \in Nat
         /\ <<req[h].to, req[h].note.origin>> \in Logs
         /\ memory[<<req[h].to, req[h].note.origin>>] \in Note \cup {NoNote}
<1>1. req[h] \in Request
  BY DEF WitnessTypeOK
<1>2. /\ req[h].to \in Witnesses /\ req[h].note \in Note /\ req[h].old \in Nat
      /\ req[h].note.origin \in Origins /\ req[h].note.key \in LogKeys
      /\ req[h].note.tree \in Trees
  BY <1>1 DEF Request, Note
<1>3. <<req[h].to, req[h].note.origin>> \in Logs
  BY <1>2 DEF Logs
<1>4. memory \in [Logs -> Note \cup {NoNote}]
  BY DEF WitnessTypeOK
<1> QED BY <1>1, <1>2, <1>3, <1>4

\* Each step keeps the types: what the environment sends, what a witness checks
\* and answers, what it writes, and how its process starts and stops.
LEMMA TypeStep ==
  ASSUME WitnessTypeOK, [AnyNext]_witnessVars
  PROVE  WitnessTypeOK'
<1>1. ASSUME NEW w \in Witnesses, NEW c \in Configs, StartWitness(w, c)
      PROVE  WitnessTypeOK'
  <2>1. c.logs \in [Origins -> LogKeys \cup {NoKey}]
        /\ c.retired \in [Origins -> LogKeys \cup {NoKey}]
    BY ConfigsAssumption DEF Config
  <2>2. active' \in [Logs -> LogKeys \cup {NoKey}] /\ retired' \in [Logs -> LogKeys \cup {NoKey}]
    BY <1>1, <2>1 DEF StartWitness, WitnessTypeOK, Logs
  <2>3. up' \subseteq Witnesses /\ lives' \in [Witnesses -> Nat] /\ lastTime' \in [Witnesses -> Nat]
    BY <1>1 DEF StartWitness, WitnessTypeOK
  <2> QED BY <1>1, <2>2, <2>3 DEF StartWitness, WitnessTypeOK, requests
<1>2. ASSUME NEW w \in Witnesses, StopWitness(w)
      PROVE  WitnessTypeOK'
  <2>1. hpc' \in [Handlers -> {"idle", "sent", "checked", "answered", "lost"}]
        /\ \A h \in Handlers : hpc'[h] # "idle" => req'[h] \in Request
    BY <1>2 DEF StopWitness, WitnessTypeOK
  <2> QED BY <1>2, <2>1 DEF StopWitness, WitnessTypeOK, MemoryAfterStop
<1>3. ASSUME NEW h \in Handlers, NEW q \in Request, Send(h, q)
      PROVE  WitnessTypeOK'
  <2>1. hpc' \in [Handlers -> {"idle", "sent", "checked", "answered", "lost"}]
        /\ req' \in [Handlers -> Request \cup {NoRequest}]
        /\ \A g \in Handlers : hpc'[g] # "idle" => req'[g] \in Request
    BY <1>3 DEF Send, WitnessTypeOK
  <2> QED BY <1>3, <2>1 DEF Send, WitnessTypeOK, process
<1>4. ASSUME NEW h \in Handlers, Receive(h)
      PROVE  WitnessTypeOK'
  <2>1. req[h] \in Request /\ hpc[h] # "idle"
    BY <1>4, RequestTypes DEF Receive
  <2>2. CASE Screen(req[h]) = "ok"
    <3>1. hpc' = [hpc EXCEPT ![h] = "checked"] /\ UNCHANGED <<answer, memory, process, lastTime, req, issued>>
      BY <1>4, <2>2 DEF Receive
    <3> QED BY <2>1, <3>1 DEF WitnessTypeOK, process
  <2>3. CASE Screen(req[h]) # "ok"
    <3>1. Screen(req[h]) \in Kinds
      BY <2>1, <2>3, VerdictTypes DEF Kinds
    <3>2. Answer(Screen(req[h]), 0, 0) \in Answers
      BY <3>1, AnswerType
    <3>3. Reply(h, Answer(Screen(req[h]), 0, 0)) /\ UNCHANGED <<memory, process, lastTime, req, issued>>
      BY <1>4, <2>3 DEF Receive
    <3> HIDE DEF Reply, Answer
    <3> QED BY <2>1, <3>2, <3>3, ReplyTypes DEF WitnessTypeOK, process, Answers
  <2> QED BY <2>2, <2>3
<1>5. ASSUME NEW h \in Handlers, Refuse(h)
      PROVE  WitnessTypeOK'
  <2> DEFINE kept == memory[<<req[h].to, req[h].note.origin>>]
             verdict == CheckExtension(kept, req[h])
  <2>1. req[h] \in Request /\ hpc[h] # "idle" /\ kept \in Note \cup {NoNote}
    BY <1>5, RequestTypes DEF Refuse
  <2>2. \E a \in Answers : Reply(h, a)
    <3>1. CASE verdict # "ok" /\ Reply(h, Refusal(verdict, kept))
      <4>1. verdict \in Kinds
        BY <2>1, <3>1, VerdictTypes DEF Kinds
      <4>2. Remembered(kept) \in Nat
        BY <2>1, RememberedType
      <4>3. Refusal(verdict, kept) \in Answers
        BY <4>1, <4>2, AnswerType DEF Refusal
      <4> QED BY <3>1, <4>3
    <3>2. CASE Reply(h, Answer("clock", 0, 0))
      BY <3>2, AnswerType DEF Kinds
    <3> QED BY <1>5, <3>1, <3>2 DEF Refuse
  <2>3. UNCHANGED <<memory, process, lastTime, req, issued>>
    BY <1>5 DEF Refuse
  <2> HIDE DEF kept, verdict
  <2> QED BY <2>1, <2>2, <2>3, ReplyTypes DEF WitnessTypeOK, process, Answers
<1>6. ASSUME NEW h \in Handlers, NEW time \in Times, FailToCommit(h, time)
      PROVE  WitnessTypeOK'
  <2>1. hpc[h] # "idle" /\ req[h].to \in Witnesses /\ time \in Nat
    BY <1>6, RequestTypes, WitnessTimesAssumption DEF FailToCommit
  <2>2. Answer("failed", 0, 0) \in Answers
    BY AnswerType DEF Kinds
  <2>3. /\ lastTime' = [lastTime EXCEPT ![req[h].to] = time]
        /\ Reply(h, Answer("failed", 0, 0)) /\ UNCHANGED <<memory, process, req, issued>>
    BY <1>6 DEF FailToCommit
  <2>4. lastTime' \in [Witnesses -> Nat]
    BY <2>1, <2>3 DEF WitnessTypeOK
  <2> QED BY <2>1, <2>2, <2>3, <2>4, ReplyTypes DEF WitnessTypeOK, process, Answers
<1>7. ASSUME NEW h \in Handlers, NEW time \in Times, Advance(h, time)
      PROVE  WitnessTypeOK'
  <2> DEFINE w == req[h].to
             r == <<w, req[h].note.origin>>
             e == [note |-> req[h].note, time |-> time, life |-> lives[w]]
             a == Answer("cosigned", Len(req[h].note.tree), time)
  <2>1. /\ hpc[h] # "idle" /\ w \in Witnesses /\ r \in Logs /\ time \in Nat
        /\ req[h].note \in Note /\ req[h].note.tree \in Trees
    BY <1>7, RequestTypes, WitnessTimesAssumption DEF Advance
  <2>2. a \in Answers
    BY <2>1, TreeIsSequence, AnswerType DEF Kinds
  <2>3. /\ lastTime' = [lastTime EXCEPT ![w] = time]
        /\ memory' = [memory EXCEPT ![r] = req[h].note]
        /\ issued' = [issued EXCEPT ![w] = Append(@, e)]
        /\ Reply(h, a) /\ UNCHANGED <<process, req>>
    BY <1>7 DEF Advance
  <2>4. lastTime' \in [Witnesses -> Nat] /\ memory' \in [Logs -> Note \cup {NoNote}]
    BY <2>1, <2>3 DEF WitnessTypeOK
  <2>5. e \in Issue
    BY <2>1 DEF Issue, WitnessTypeOK
  <2>6. issued \in [Witnesses -> Seq(Issue)]
    BY DEF WitnessTypeOK
  <2> HIDE DEF e
  <2>7. Append(issued[w], e) \in Seq(Issue)
    BY <2>1, <2>5, <2>6
  <2>8. issued' \in [Witnesses -> Seq(Issue)]
    BY <2>1, <2>3, <2>6, <2>7
  <2> HIDE DEF a, r, w
  <2> QED BY <2>1, <2>2, <2>3, <2>4, <2>8, ReplyTypes DEF WitnessTypeOK, process, Answers
<1>8. CASE UNCHANGED witnessVars
  BY <1>8 DEF witnessVars, process, requests, WitnessTypeOK
<1> QED BY <1>1, <1>2, <1>3, <1>4, <1>5, <1>6, <1>7, <1>8 DEF AnyNext, WitnessStep

\* WitnessTypeOK for every value of the constants.
THEOREM WitnessTypeCorrect == WitnessSpec => []WitnessTypeOK
<1>1. WitnessInit => WitnessTypeOK
  BY DEF WitnessInit, WitnessTypeOK, NoAnswer, Answer, Kinds
<1>2. WitnessTypeOK /\ [WitnessNext]_witnessVars => WitnessTypeOK'
  BY TypeStep, StepOfAny
<1> QED BY <1>1, <1>2, PTL DEF WitnessSpec

-----------------------------------------------------------------------------
(* What has been cosigned *)

\* The trees of the cosignatures in s for origin o.
TreesOf(s, o) == {s[i].note.tree : i \in {j \in DOMAIN s : s[j].note.origin = o}}

\* One cosignature more is one tree more, of its log alone.
LEMMA TreesOfAppend ==
  ASSUME NEW s \in Seq(Issue), NEW e \in Issue, NEW o
  PROVE  TreesOf(Append(s, e), o) =
           TreesOf(s, o) \cup (IF e.note.origin = o THEN {e.note.tree} ELSE {})
<1> DEFINE a == Append(s, e)
           n == Len(s)
<1>1. /\ n \in Nat /\ DOMAIN s = 1..n /\ DOMAIN a = 1..(n + 1)
      /\ a[n + 1] = e /\ \A i \in 1..n : a[i] = s[i]
  OBVIOUS
<1> HIDE DEF a, n
<1>2. ASSUME NEW t \in TreesOf(a, o)
      PROVE  t \in TreesOf(s, o) \cup (IF e.note.origin = o THEN {e.note.tree} ELSE {})
  <2>1. PICK i \in 1..(n + 1) : a[i].note.origin = o /\ t = a[i].note.tree
    BY <1>1, <1>2 DEF TreesOf
  <2>2. CASE i = n + 1
    BY <2>1, <2>2, <1>1
  <2>3. CASE i \in 1..n
    BY <2>1, <2>3, <1>1 DEF TreesOf
  <2> QED BY <2>1, <2>2, <2>3, <1>1
<1>3. ASSUME NEW t \in TreesOf(s, o)
      PROVE  t \in TreesOf(a, o)
  <2>1. PICK i \in 1..n : s[i].note.origin = o /\ t = s[i].note.tree
    BY <1>1, <1>3 DEF TreesOf
  <2>2. i \in 1..(n + 1) /\ a[i] = s[i]
    BY <1>1
  <2> QED BY <2>1, <2>2, <1>1 DEF TreesOf
<1>4. ASSUME e.note.origin = o
      PROVE  e.note.tree \in TreesOf(a, o)
  <2>1. n + 1 \in 1..(n + 1)
    BY <1>1
  <2> QED BY <2>1, <1>1, <1>4 DEF TreesOf
<1> QED BY <1>2, <1>3, <1>4 DEF a

\* What a transaction that commits does: it wrote and cosigned one tree, that
\* the checks accepted, for the log of the request.
LEMMA AdvanceEndorses ==
  ASSUME WitnessTypeOK, NEW h \in Handlers, NEW time \in Times, Advance(h, time)
  PROVE  LET r == <<req[h].to, req[h].note.origin>>
         IN  /\ r \in Logs /\ req[h].note.tree \in Trees
             /\ CheckExtension(memory[r], req[h]) = "ok"
             /\ memory' = [memory EXCEPT ![r] = req[h].note]
             /\ \A l \in Logs : Endorsed(l)' =
                  IF l = r THEN Endorsed(l) \cup {req[h].note.tree} ELSE Endorsed(l)
<1> DEFINE w == req[h].to
           r == <<w, req[h].note.origin>>
           e == [note |-> req[h].note, time |-> time, life |-> lives[w]]
<1>1. /\ w \in Witnesses /\ r \in Logs /\ time \in Nat
      /\ req[h].note \in Note /\ req[h].note.tree \in Trees
  BY RequestTypes, WitnessTimesAssumption DEF Advance
<1>2. /\ CheckExtension(memory[r], req[h]) = "ok"
      /\ memory' = [memory EXCEPT ![r] = req[h].note]
      /\ issued' = [issued EXCEPT ![w] = Append(@, e)]
  BY DEF Advance
<1>3. e \in Issue /\ issued \in [Witnesses -> Seq(Issue)]
  BY <1>1 DEF Issue, WitnessTypeOK
<1>4. ASSUME NEW l \in Logs
      PROVE  Endorsed(l)' =
               IF l = r THEN Endorsed(l) \cup {req[h].note.tree} ELSE Endorsed(l)
  <2>1. l[1] \in Witnesses /\ l = <<l[1], l[2]>>
    BY DEF Logs
  <2>2. Endorsed(l) = TreesOf(issued[l[1]], l[2])
        /\ Endorsed(l)' = TreesOf(issued'[l[1]], l[2])
    BY DEF Endorsed, TreesOf
  <2>3. CASE l[1] # w
    <3>1. issued'[l[1]] = issued[l[1]] /\ l # r
      BY <1>2, <1>3, <2>1, <2>3
    <3> QED BY <3>1, <2>2
  <2>4. CASE l[1] = w
    <3>1. issued'[w] = Append(issued[w], e) /\ issued[w] \in Seq(Issue)
      BY <1>1, <1>2, <1>3
    <3>2. TreesOf(issued'[w], l[2]) = TreesOf(issued[w], l[2])
            \cup (IF e.note.origin = l[2] THEN {e.note.tree} ELSE {})
      BY <3>1, <1>3, TreesOfAppend
    <3>3. e.note = req[h].note
      OBVIOUS
    <3>4. l = r <=> e.note.origin = l[2]
      BY <2>1, <2>4, <3>3
    <3> HIDE DEF e, r
    <3> QED BY <3>2, <3>3, <3>4, <2>2, <2>4
  <2> QED BY <2>3, <2>4
<1> QED BY <1>1, <1>2, <1>4

\* Nothing else moves the memory or the cosignatures, not even a restart.
LEMMA OnlyAdvanceWrites ==
  ASSUME [AnyNext]_witnessVars
  PROVE  \/ \E h \in Handlers, time \in Times : Advance(h, time)
         \/ UNCHANGED <<memory, issued>>
<1>1. \A w \in Witnesses : StopWitness(w) => UNCHANGED <<memory, issued>>
  BY DEF StopWitness, MemoryAfterStop
<1>2. \A w \in Witnesses, c \in Configs : StartWitness(w, c) => UNCHANGED <<memory, issued>>
  BY DEF StartWitness
<1>3. \A h \in Handlers : Receive(h) \/ Refuse(h) => UNCHANGED <<memory, issued>>
  BY DEF Receive, Refuse
<1>4. \A h \in Handlers, time \in Times : FailToCommit(h, time) => UNCHANGED <<memory, issued>>
  BY DEF FailToCommit
<1>5. \A h \in Handlers, q \in Request : Send(h, q) => UNCHANGED <<memory, issued>>
  BY DEF Send
<1>6. UNCHANGED witnessVars => UNCHANGED <<memory, issued>>
  BY DEF witnessVars
<1> QED BY <1>1, <1>2, <1>3, <1>4, <1>5, <1>6 DEF AnyNext, WitnessStep

\* The trees that have been cosigned are trees.
LEMMA EndorsedAreTrees ==
  ASSUME WitnessTypeOK, NEW r \in Logs
  PROVE  Endorsed(r) \subseteq Trees
<1>1. r[1] \in Witnesses
  BY DEF Logs
<1>2. issued[r[1]] \in Seq(Issue)
  BY <1>1 DEF WitnessTypeOK
<1>3. \A i \in DOMAIN issued[r[1]] : issued[r[1]][i] \in Issue
  BY <1>2
<1> QED BY <1>3 DEF Endorsed, Issue, Note

\* A tree the transaction accepts continues all that was cosigned of its log.
LEMMA AcceptedContinuesAll ==
  ASSUME WitnessTypeOK, MemoryIsNewest, NEW r \in Logs, NEW q \in Request,
         CheckExtension(memory[r], q) = "ok"
  PROVE  \A earlier \in Endorsed(r) : IsPrefix(earlier, q.note.tree)
<1> SUFFICES ASSUME NEW earlier \in Endorsed(r)
             PROVE  IsPrefix(earlier, q.note.tree)
  OBVIOUS
<1>1. memory[r] \in Note \cup {NoNote} /\ memory[r] # NoNote
      /\ IsPrefix(earlier, memory[r].tree)
  BY DEF MemoryIsNewest, WitnessTypeOK
<1>2. IsPrefix(memory[r].tree, q.note.tree)
  BY <1>1, AcceptedExtends
<1>3. earlier \in Seq(Blocks) /\ memory[r].tree \in Seq(Blocks) /\ q.note.tree \in Seq(Blocks)
  <2>1. earlier \in Trees
    BY EndorsedAreTrees
  <2>2. memory[r].tree \in Trees
    BY <1>1 DEF Note
  <2>3. q.note.tree \in Trees
    BY DEF Request, Note
  <2> QED BY <2>1, <2>2, <2>3, TreeIsSequence
<1> QED BY <1>1, <1>2, <1>3, PrefixTransitive

\* Each step keeps MemoryIsNewest.
LEMMA NewestStep ==
  ASSUME WitnessTypeOK, MemoryIsNewest, [AnyNext]_witnessVars
  PROVE  MemoryIsNewest'
<1>1. ASSUME NEW h \in Handlers, NEW time \in Times, Advance(h, time)
      PROVE  MemoryIsNewest'
  <2> DEFINE r == <<req[h].to, req[h].note.origin>>
             tree == req[h].note.tree
  <2>1. /\ r \in Logs /\ tree \in Trees /\ CheckExtension(memory[r], req[h]) = "ok"
        /\ memory' = [memory EXCEPT ![r] = req[h].note]
        /\ \A l \in Logs : Endorsed(l)' =
             IF l = r THEN Endorsed(l) \cup {tree} ELSE Endorsed(l)
    BY <1>1, AdvanceEndorses
  <2>2. req[h] \in Request /\ req[h].note \in Note
    BY <1>1, RequestTypes DEF Advance
  <2>3. memory \in [Logs -> Note \cup {NoNote}]
    BY DEF WitnessTypeOK
  <2>4. \A earlier \in Endorsed(r) : IsPrefix(earlier, tree)
    BY <2>1, <2>2, AcceptedContinuesAll
  <2>5. IsPrefix(tree, tree)
    BY <2>1, TreeIsSequence, PrefixReflexive
  <2>6. r[2] = req[h].note.origin
    OBVIOUS
  <2>7. ASSUME NEW l \in Logs
        PROVE  IF memory'[l] = NoNote THEN Endorsed(l)' = {}
               ELSE /\ memory'[l].origin = l[2]
                    /\ memory'[l].tree \in Endorsed(l)'
                    /\ \A t \in Endorsed(l)' : IsPrefix(t, memory'[l].tree)
    <3>1. CASE l = r
      <4>1. memory'[l] = req[h].note /\ req[h].note # NoNote
        BY <3>1, <2>1, <2>2, <2>3, NoValuesAssumption
      <4>2. Endorsed(l)' = Endorsed(r) \cup {tree}
        BY <3>1, <2>1
      <4> HIDE DEF r
      <4> QED BY <3>1, <4>1, <4>2, <2>4, <2>5, <2>6
    <3>2. CASE l # r
      <4>1. memory'[l] = memory[l] /\ Endorsed(l)' = Endorsed(l)
        BY <3>2, <2>1, <2>3
      <4> QED BY <4>1 DEF MemoryIsNewest
    <3> QED BY <3>1, <3>2
  <2> HIDE DEF r, tree
  <2> QED BY <2>7 DEF MemoryIsNewest, Endorsed
<1>2. CASE UNCHANGED <<memory, issued>>
  <2>1. \A r \in Logs : Endorsed(r)' = Endorsed(r)
    BY <1>2 DEF Endorsed
  <2> QED BY <1>2, <2>1 DEF MemoryIsNewest
<1> QED BY <1>1, <1>2, OnlyAdvanceWrites

\* MemoryIsNewest for every value of the constants: the memory that a restart
\* finds is the last word on each log.
THEOREM MemoryStaysNewest == WitnessSpec => []MemoryIsNewest
<1>1. WitnessInit => MemoryIsNewest
  BY DEF WitnessInit, MemoryIsNewest, Endorsed, Logs
<1>2. WitnessTypeOK /\ MemoryIsNewest /\ [WitnessNext]_witnessVars => MemoryIsNewest'
  BY NewestStep, StepOfAny
<1> QED BY <1>1, <1>2, WitnessTypeCorrect, PTL DEF WitnessSpec

\* The endorsements the world sees.
SeenOfAll == [r \in Logs |-> Endorsed(r)]

\* Each step of a witness is an endorsement of WitnessPromise, or nothing that the
\* world sees.
LEMMA PromiseStep ==
  ASSUME WitnessTypeOK, MemoryIsNewest, [AnyNext]_witnessVars
  PROVE  [Promise!Next]_SeenOfAll
<1> DEFINE had == SeenOfAll
<1> USE DEF SeenOfAll
<1>1. ASSUME NEW h \in Handlers, NEW time \in Times, Advance(h, time)
      PROVE  Promise!Next
  <2> DEFINE r == <<req[h].to, req[h].note.origin>>
             tree == req[h].note.tree
  <2>1. /\ r \in Logs /\ tree \in Trees /\ CheckExtension(memory[r], req[h]) = "ok"
        /\ \A l \in Logs : Endorsed(l)' =
             IF l = r THEN Endorsed(l) \cup {tree} ELSE Endorsed(l)
    BY <1>1, AdvanceEndorses
  <2>2. \A earlier \in Endorsed(r) : IsPrefix(earlier, tree)
    BY <1>1, <2>1, RequestTypes, AcceptedContinuesAll DEF Advance
  <2> HIDE DEF r, tree
  <2>3. \A earlier \in had[r] : IsPrefix(earlier, tree)
    BY <2>1, <2>2
  <2>4. had' = [had EXCEPT ![r] = @ \cup {tree}]
    <3>1. \A l \in Logs : had'[l] = [had EXCEPT ![r] = @ \cup {tree}][l]
      BY <2>1
    <3> QED BY <3>1
  <2>5. \A earlier \in had[r] : Promise!IsPrefix(earlier, tree)
    BY <2>3 DEF IsPrefix, Promise!IsPrefix
  <2>6. Promise!Endorse(r, tree)
    BY <2>4, <2>5 DEF Promise!Endorse
  <2> QED BY <2>1, <2>6 DEF Promise!Next
<1>2. CASE UNCHANGED <<memory, issued>>
  <2>1. \A r \in Logs : Endorsed(r)' = Endorsed(r)
    BY <1>2 DEF Endorsed
  <2>2. had' = had
    BY <2>1
  <2> QED BY <2>2
<1> QED BY <1>1, <1>2, OnlyAdvanceWrites

\* KeepsThePromise for every value of the constants, when it starts.
LEMMA PromiseStart ==
  ASSUME WitnessInit
  PROVE  Promise!Init
<1>1. \A r \in Logs : Endorsed(r) = {}
  BY DEF WitnessInit, Endorsed, Logs
<1> QED BY <1>1 DEF Promise!Init

\* KeepsThePromise for every value of the constants: each step of a witness is
\* an endorsement of WitnessPromise, or nothing that the world sees.
THEOREM PromiseIsKept == WitnessSpec => KeepsThePromise
<1>1. WitnessInit => Promise!Init
  BY PromiseStart
<1>2. WitnessTypeOK /\ MemoryIsNewest /\ [WitnessNext]_witnessVars
        => [Promise!Next]_SeenOfAll
  BY PromiseStep, StepOfAny
<1> QED BY <1>1, <1>2, WitnessTypeCorrect, MemoryStaysNewest, PTL
         DEF WitnessSpec, KeepsThePromise, Promise!Spec, SeenOfAll

-----------------------------------------------------------------------------
(* Retired logs *)

\* Why a retired log keeps the note it was retired with: no log is both active
\* and retired, a request that passed the first checks is of an active log of a
\* running witness, and the key was compared when the process started.
RetiredInv ==
  /\ \A r \in Logs : retired[r] # NoKey => active[r] = NoKey
  /\ \A h \in Handlers : hpc[h] = "checked" =>
       /\ req[h].to \in up
       /\ retired[<<req[h].to, req[h].note.origin>>] = NoKey
  /\ \A r \in Logs : r[1] \in up /\ retired[r] # NoKey /\ memory[r] # NoNote
       => memory[r].key = retired[r]

\* A log and its two parts.
LEMMA LogParts ==
  ASSUME NEW r \in Logs
  PROVE  r[1] \in Witnesses /\ r[2] \in Origins /\ r = <<r[1], r[2]>>
BY DEF Logs

\* A step that leaves the memory and the process alone, and lets no request pass
\* the first checks, keeps RetiredInv.
LEMMA RetiredUntouched ==
  ASSUME RetiredInv, UNCHANGED <<memory, up, active, retired>>,
         \A h \in Handlers : hpc'[h] = "checked" =>
           hpc[h] = "checked" /\ req'[h] = req[h]
  PROVE  RetiredInv'
BY DEF RetiredInv

\* Each step keeps RetiredInv.
LEMMA RetiredStep ==
  ASSUME WitnessTypeOK, RetiredInv, [AnyNext]_witnessVars
  PROVE  RetiredInv'
<1>0. hpc \in [Handlers -> {"idle", "sent", "checked", "answered", "lost"}]
      /\ req \in [Handlers -> Request \cup {NoRequest}]
  BY DEF WitnessTypeOK
<1>1. ASSUME NEW w \in Witnesses, NEW c \in Configs, StartWitness(w, c)
      PROVE  RetiredInv'
  <2>1. \A o \in Origins : c.retired[o] # NoKey => c.logs[o] = NoKey
    BY ConfigsAssumption DEF Config
  <2>2. /\ \A r \in Logs : active'[r] = IF r[1] = w THEN c.logs[r[2]] ELSE active[r]
        /\ \A r \in Logs : retired'[r] = IF r[1] = w THEN c.retired[r[2]] ELSE retired[r]
        /\ memory' = memory /\ up' = up \cup {w} /\ w \notin up
        /\ UNCHANGED <<hpc, req>> /\ RetireLog(w, c)
    BY <1>1 DEF StartWitness, requests
  <2>3. \A r \in Logs : retired'[r] # NoKey => active'[r] = NoKey
    BY <2>1, <2>2, LogParts DEF RetiredInv
  <2>4. ASSUME NEW h \in Handlers, hpc'[h] = "checked"
        PROVE  /\ req'[h].to \in up'
               /\ retired'[<<req'[h].to, req'[h].note.origin>>] = NoKey
    <3>1. /\ req[h].to \in up /\ req[h].to # w
          /\ retired[<<req[h].to, req[h].note.origin>>] = NoKey
      BY <2>2, <2>4 DEF RetiredInv
    <3>2. <<req[h].to, req[h].note.origin>> \in Logs
      BY <2>2, <2>4, RequestTypes
    <3> QED BY <2>2, <3>1, <3>2
  <2>5. ASSUME NEW r \in Logs, r[1] \in up', retired'[r] # NoKey, memory'[r] # NoNote
        PROVE  memory'[r].key = retired'[r]
    <3>1. CASE r[1] = w
      <4>1. memory[<<w, r[2]>>].key = c.retired[r[2]]
        BY <2>2, <2>5, <3>1, LogParts DEF RetireLog
      <4> QED BY <4>1, <2>2, <3>1, LogParts
    <3>2. CASE r[1] # w
      BY <2>2, <2>5, <3>2 DEF RetiredInv
    <3> QED BY <3>1, <3>2
  <2> QED BY <2>3, <2>4, <2>5 DEF RetiredInv
<1>2. ASSUME NEW w \in Witnesses, StopWitness(w)
      PROVE  RetiredInv'
  <2>1. /\ up' = up \ {w} /\ UNCHANGED <<memory, active, retired, req>>
        /\ \A h \in Handlers : hpc'[h] = "checked" => hpc[h] = "checked" /\ req[h].to # w
    BY <1>2 DEF StopWitness, MemoryAfterStop
  <2> QED BY <2>1 DEF RetiredInv
<1>3. ASSUME NEW h \in Handlers, NEW q \in Request, Send(h, q)
      PROVE  RetiredInv'
  <2>1. UNCHANGED <<memory, up, active, retired>>
    BY <1>3 DEF Send, process
  <2>2. \A g \in Handlers : hpc'[g] = "checked" => hpc[g] = "checked" /\ req'[g] = req[g]
    BY <1>0, <1>3 DEF Send
  <2> QED BY <2>1, <2>2, RetiredUntouched
<1>4. ASSUME NEW h \in Handlers, Receive(h)
      PROVE  RetiredInv'
  <2>1. UNCHANGED <<memory, up, active, retired, req>>
    BY <1>4 DEF Receive, process
  <2>2. CASE Screen(req[h]) = "ok"
    <3>1. hpc' = [hpc EXCEPT ![h] = "checked"] /\ req[h].to \in up
      BY <1>4, <2>2 DEF Receive
    <3>2. retired[<<req[h].to, req[h].note.origin>>] = NoKey
      BY <2>2 DEF Screen
    <3> QED BY <1>0, <2>1, <3>1, <3>2 DEF RetiredInv
  <2>3. CASE Screen(req[h]) # "ok"
    <3>1. hpc' = [hpc EXCEPT ![h] = "answered"]
      BY <1>4, <2>3 DEF Receive, Reply
    <3> QED BY <1>0, <2>1, <3>1, RetiredUntouched
  <2> QED BY <2>2, <2>3
<1>5. ASSUME NEW h \in Handlers,
             Refuse(h) \/ \E time \in Times : FailToCommit(h, time)
      PROVE  RetiredInv'
  <2>1. UNCHANGED <<memory, up, active, retired, req>> /\ hpc' = [hpc EXCEPT ![h] = "answered"]
    BY <1>5 DEF Refuse, FailToCommit, Reply, process
  <2> QED BY <1>0, <2>1, RetiredUntouched
<1>6. ASSUME NEW h \in Handlers, NEW time \in Times, Advance(h, time)
      PROVE  RetiredInv'
  <2> DEFINE r == <<req[h].to, req[h].note.origin>>
  <2>1. /\ UNCHANGED <<up, active, retired, req>> /\ hpc' = [hpc EXCEPT ![h] = "answered"]
        /\ memory' = [memory EXCEPT ![r] = req[h].note] /\ hpc[h] = "checked"
    BY <1>6 DEF Advance, Reply, process
  <2>2. retired[r] = NoKey
    BY <2>1 DEF RetiredInv
  <2>3. memory \in [Logs -> Note \cup {NoNote}]
    BY DEF WitnessTypeOK
  <2> HIDE DEF r
  <2>4. \A l \in Logs : retired[l] # NoKey => memory'[l] = memory[l]
    BY <2>1, <2>2, <2>3
  <2>5. \A g \in Handlers : hpc'[g] = "checked" => hpc[g] = "checked"
    BY <1>0, <2>1
  <2> QED BY <2>1, <2>4, <2>5 DEF RetiredInv
<1>7. CASE UNCHANGED witnessVars
  BY <1>7 DEF witnessVars, process, requests, RetiredInv
<1> QED BY <1>1, <1>2, <1>3, <1>4, <1>5, <1>6, <1>7 DEF AnyNext, WitnessStep

\* RetiredInv for every value of the constants.
LEMMA RetiredHolds == WitnessSpec => []RetiredInv
<1>1. WitnessInit => RetiredInv
  BY DEF WitnessInit, RetiredInv, Logs
<1>2. WitnessTypeOK /\ RetiredInv /\ [WitnessNext]_witnessVars => RetiredInv'
  BY RetiredStep, StepOfAny
<1> QED BY <1>1, <1>2, WitnessTypeCorrect, PTL DEF WitnessSpec

\* PublishedIsOfItsKey for every value of the constants: what a witness shows of
\* a retired log is signed by the key it was retired with.
THEOREM RetiredAsPublished == WitnessSpec => []PublishedIsOfItsKey
<1>1. WitnessTypeOK /\ RetiredInv => PublishedIsOfItsKey
  <2> SUFFICES ASSUME WitnessTypeOK, RetiredInv, NEW w \in up, NEW o \in Origins,
                      retired[<<w, o>>] # NoKey, Published(w, o) # NoNote
               PROVE  Published(w, o).key = retired[<<w, o>>]
    BY DEF PublishedIsOfItsKey
  <2>1. w \in Witnesses
    BY DEF WitnessTypeOK
  <2>2. <<w, o>> \in Logs /\ <<w, o>>[1] = w
    BY <2>1 DEF Logs
  <2> QED BY <2>2 DEF RetiredInv, Published
<1> QED BY <1>1, WitnessTypeCorrect, RetiredHolds, PTL

\* RetiredIsFrozen for every value of the constants: nothing a running witness
\* does moves what it remembers of a retired log.
THEOREM RetiredStaysFrozen == WitnessSpec => RetiredIsFrozen
<1>1. WitnessTypeOK /\ RetiredInv /\ [WitnessNext]_witnessVars
        => [\A r \in Logs : r[1] \in up /\ r[1] \in up' /\ retired[r] # NoKey
              => memory'[r] = memory[r]]_witnessVars
  <2> SUFFICES ASSUME WitnessTypeOK, RetiredInv, [WitnessNext]_witnessVars
               PROVE  \A r \in Logs : retired[r] # NoKey => memory'[r] = memory[r]
    OBVIOUS
  <2>1. ASSUME NEW h \in Handlers, NEW time \in Times, Advance(h, time)
        PROVE  \A r \in Logs : retired[r] # NoKey => memory'[r] = memory[r]
    <3> DEFINE l == <<req[h].to, req[h].note.origin>>
    <3>1. memory' = [memory EXCEPT ![l] = req[h].note] /\ retired[l] = NoKey
      BY <2>1 DEF Advance, RetiredInv
    <3>2. memory \in [Logs -> Note \cup {NoNote}]
      BY DEF WitnessTypeOK
    <3> HIDE DEF l
    <3> QED BY <3>1, <3>2
  <2>2. CASE UNCHANGED <<memory, issued>>
    BY <2>2
  <2> QED BY <2>1, <2>2, OnlyAdvanceWrites, StepOfAny
<1> QED BY <1>1, WitnessTypeCorrect, RetiredHolds, PTL DEF WitnessSpec, RetiredIsFrozen

-----------------------------------------------------------------------------
(* The timestamps *)

\* Why they follow the order of issue: the last timestamp of the process bounds
\* those it issued since it started, and no cosignature is of a life to come.
TimesInv ==
  \A w \in Witnesses : \A i \in DOMAIN issued[w] :
    /\ issued[w][i].life <= lives[w]
    /\ issued[w][i].life = lives[w] => issued[w][i].time <= lastTime[w]

\* A step that signs nothing keeps both, if it moves the clock of no life back.
LEMMA TimesUnsigned ==
  ASSUME WitnessTypeOK, TimesInv, TimestampsFollowIssue, issued' = issued,
         \A w \in Witnesses :
           \/ lives'[w] = lives[w] /\ lastTime[w] <= lastTime'[w] /\ lastTime'[w] \in Nat
           \/ lives'[w] = lives[w] + 1
  PROVE  TimesInv' /\ TimestampsFollowIssue'
<1>1. ASSUME NEW w \in Witnesses, NEW i \in DOMAIN issued[w]
      PROVE  /\ issued[w][i].life <= lives'[w]
             /\ issued[w][i].life = lives'[w] => issued[w][i].time <= lastTime'[w]
  <2>1. issued[w] \in Seq(Issue) /\ lives[w] \in Nat /\ lastTime[w] \in Nat
    BY DEF WitnessTypeOK
  <2>2. issued[w][i].life \in Nat /\ issued[w][i].time \in Nat
    <3>1. issued[w][i] \in Issue
      BY <2>1
    <3> QED BY <3>1 DEF Issue
  <2>3. /\ issued[w][i].life <= lives[w]
        /\ issued[w][i].life = lives[w] => issued[w][i].time <= lastTime[w]
    BY DEF TimesInv
  <2>4. CASE lives'[w] = lives[w] /\ lastTime[w] <= lastTime'[w] /\ lastTime'[w] \in Nat
    BY <2>1, <2>2, <2>3, <2>4
  <2>5. CASE lives'[w] = lives[w] + 1
    BY <2>1, <2>2, <2>3, <2>5
  <2> QED BY <2>4, <2>5
<1> QED BY <1>1 DEF TimesInv, TimestampsFollowIssue

\* Each step keeps both.
LEMMA TimesStep ==
  ASSUME WitnessTypeOK, TimesInv, TimestampsFollowIssue, [AnyNext]_witnessVars
  PROVE  TimesInv' /\ TimestampsFollowIssue'
<1>0. lives \in [Witnesses -> Nat] /\ lastTime \in [Witnesses -> Nat]
      /\ issued \in [Witnesses -> Seq(Issue)]
  BY DEF WitnessTypeOK
<1>1. ASSUME NEW h \in Handlers, NEW time \in Times, Advance(h, time)
      PROVE  TimesInv' /\ TimestampsFollowIssue'
  <2> DEFINE w == req[h].to
             e == [note |-> req[h].note, time |-> time, life |-> lives[w]]
             n == Len(issued[w])
  <2>1. w \in Witnesses /\ req[h].note \in Note /\ time \in Nat
    BY <1>1, RequestTypes, WitnessTimesAssumption DEF Advance
  <2>2. /\ issued' = [issued EXCEPT ![w] = Append(@, e)]
        /\ lastTime' = [lastTime EXCEPT ![w] = time]
        /\ lives' = lives /\ time >= lastTime[w]
    BY <1>1 DEF Advance, MaySign, process
  <2>3. e \in Issue /\ e.time = time /\ e.life = lives[w]
    BY <1>0, <2>1 DEF Issue
  <2>4. \A v \in Witnesses : v # w => issued'[v] = issued[v] /\ lastTime'[v] = lastTime[v]
    BY <1>0, <2>2
  <2>5. issued'[w] = Append(issued[w], e) /\ lastTime'[w] = time /\ issued[w] \in Seq(Issue)
    BY <1>0, <2>1, <2>2
  <2> HIDE DEF e, w
  <2>6. /\ n \in Nat /\ DOMAIN issued[w] = 1..n /\ DOMAIN issued'[w] = 1..(n + 1)
        /\ issued'[w][n + 1] = e /\ \A i \in 1..n : issued'[w][i] = issued[w][i]
    BY <2>3, <2>5
  <2> HIDE DEF n
  <2>7. \A i \in 1..n : /\ issued[w][i].life <= lives[w]
                        /\ issued[w][i].life = lives[w] => issued[w][i].time <= lastTime[w]
    BY <2>1, <2>6 DEF TimesInv
  <2>8. \A i \in 1..n : issued[w][i].life \in Nat /\ issued[w][i].time \in Nat
    <3>1. \A i \in 1..n : issued[w][i] \in Issue
      BY <2>5, <2>6
    <3> QED BY <3>1 DEF Issue
  <2>9. lives[w] \in Nat /\ lastTime[w] \in Nat
    BY <1>0, <2>1
  <2>10. \A i \in 1..(n + 1) :
           /\ issued'[w][i].life <= lives[w]
           /\ issued'[w][i].life = lives[w] => issued'[w][i].time <= time
    <3> SUFFICES ASSUME NEW i \in 1..(n + 1)
                 PROVE  /\ issued'[w][i].life <= lives[w]
                        /\ issued'[w][i].life = lives[w] => issued'[w][i].time <= time
      OBVIOUS
    <3>1. CASE i = n + 1
      BY <3>1, <2>1, <2>3, <2>6, <2>9
    <3>2. CASE i \in 1..n
      BY <3>2, <2>1, <2>2, <2>6, <2>7, <2>8, <2>9
    <3> QED BY <3>1, <3>2, <2>6
  <2>11. TimesInv'
    <3> SUFFICES ASSUME NEW v \in Witnesses, NEW i \in DOMAIN issued'[v]
                 PROVE  /\ issued'[v][i].life <= lives'[v]
                        /\ issued'[v][i].life = lives'[v] => issued'[v][i].time <= lastTime'[v]
      BY DEF TimesInv
    <3>1. CASE v = w
      BY <3>1, <2>2, <2>5, <2>6, <2>10
    <3>2. CASE v # w
      BY <3>2, <2>2, <2>4 DEF TimesInv
    <3> QED BY <3>1, <3>2
  <2>12. TimestampsFollowIssue'
    <3> SUFFICES ASSUME NEW v \in Witnesses, NEW i \in DOMAIN issued'[v],
                        NEW j \in DOMAIN issued'[v], i < j,
                        issued'[v][i].life = issued'[v][j].life
                 PROVE  issued'[v][i].time <= issued'[v][j].time
      BY DEF TimestampsFollowIssue
    <3>1. CASE v # w
      BY <3>1, <2>4 DEF TimestampsFollowIssue
    <3>2. CASE v = w /\ j = n + 1
      BY <3>2, <2>3, <2>6, <2>10
    <3>3. CASE v = w /\ j \in 1..n
      <4>1. i \in 1..n
        BY <3>3, <2>6
      <4> QED BY <3>3, <4>1, <2>6 DEF TimestampsFollowIssue
    <3> QED BY <3>1, <3>2, <3>3, <2>6
  <2> QED BY <2>11, <2>12
<1>2. ASSUME NEW w \in Witnesses, NEW c \in Configs, StartWitness(w, c)
      PROVE  TimesInv' /\ TimestampsFollowIssue'
  <2>1. /\ issued' = issued /\ lives' = [lives EXCEPT ![w] = @ + 1]
        /\ lastTime' = [lastTime EXCEPT ![w] = 0]
    BY <1>2 DEF StartWitness
  <2>2. \A v \in Witnesses :
          \/ lives'[v] = lives[v] /\ lastTime[v] <= lastTime'[v] /\ lastTime'[v] \in Nat
          \/ lives'[v] = lives[v] + 1
    BY <1>0, <2>1
  <2> QED BY <2>1, <2>2, TimesUnsigned
<1>3. ASSUME NEW h \in Handlers, NEW time \in Times, FailToCommit(h, time)
      PROVE  TimesInv' /\ TimestampsFollowIssue'
  <2>1. /\ issued' = issued /\ lives' = lives /\ time >= lastTime[req[h].to]
        /\ lastTime' = [lastTime EXCEPT ![req[h].to] = time] /\ time \in Nat
    BY <1>3, WitnessTimesAssumption DEF FailToCommit, MaySign, process
  <2>2. \A v \in Witnesses :
          \/ lives'[v] = lives[v] /\ lastTime[v] <= lastTime'[v] /\ lastTime'[v] \in Nat
          \/ lives'[v] = lives[v] + 1
    BY <1>0, <2>1
  <2> QED BY <2>1, <2>2, TimesUnsigned
<1>4. CASE UNCHANGED <<issued, lives, lastTime>>
  <2>1. \A v \in Witnesses :
          lives'[v] = lives[v] /\ lastTime[v] <= lastTime'[v] /\ lastTime'[v] \in Nat
    BY <1>0, <1>4
  <2> QED BY <1>4, <2>1, TimesUnsigned
<1>5. \/ \E h \in Handlers, time \in Times : Advance(h, time) \/ FailToCommit(h, time)
      \/ \E w \in Witnesses, c \in Configs : StartWitness(w, c)
      \/ UNCHANGED <<issued, lives, lastTime>>
  BY DEF AnyNext, WitnessStep, witnessVars, process, StopWitness, Receive, Refuse, Send
<1> QED BY <1>1, <1>2, <1>3, <1>4, <1>5

\* TimestampsFollowIssue for every value of the constants.
THEOREM TimestampsKeepFollowing == WitnessSpec => []TimestampsFollowIssue
<1>1. WitnessInit => TimesInv /\ TimestampsFollowIssue
  BY DEF WitnessInit, TimesInv, TimestampsFollowIssue
<1>2. WitnessTypeOK /\ TimesInv /\ TimestampsFollowIssue /\ [WitnessNext]_witnessVars
        => TimesInv' /\ TimestampsFollowIssue'
  BY TimesStep, StepOfAny
<1> QED BY <1>1, <1>2, WitnessTypeCorrect, PTL DEF WitnessSpec

-----------------------------------------------------------------------------
(* The conflicts *)

\* A conflict is only ever an answer given: a request that has none yet, or was
\* cut off, holds nothing that a later request could be mistaken for.
ConflictInv ==
  \A h \in Handlers : answer[h].kind = "conflict" => hpc[h] = "answered"

\* What a conflict says is enough for the client.
Followable(h) ==
  /\ answer[h].size # req[h].old
  /\ \/ answer[h].size = 0
     \/ \E tree \in Endorsed(<<req[h].to, req[h].note.origin>>) :
          Len(tree) = answer[h].size

\* A cosignature once issued stays.
LEMMA EndorsedGrows ==
  ASSUME WitnessTypeOK, [AnyNext]_witnessVars, NEW r \in Logs
  PROVE  Endorsed(r) \subseteq Endorsed(r)'
<1>1. ASSUME NEW h \in Handlers, NEW time \in Times, Advance(h, time)
      PROVE  Endorsed(r) \subseteq Endorsed(r)'
  BY <1>1, AdvanceEndorses
<1>2. CASE UNCHANGED <<memory, issued>>
  BY <1>2 DEF Endorsed
<1> QED BY <1>1, <1>2, OnlyAdvanceWrites

\* The size of a 409 is 0 or that of the remembered tree, which was cosigned, and
\* is not what the client declared.
LEMMA ConflictIsFollowable ==
  ASSUME WitnessTypeOK, MemoryIsNewest, NEW h \in Handlers, hpc[h] # "idle",
         NEW kept, kept = memory[<<req[h].to, req[h].note.origin>>],
         CheckExtension(kept, req[h]) = "conflict"
  PROVE  /\ Remembered(kept) # req[h].old
         /\ \/ Remembered(kept) = 0
            \/ \E tree \in Endorsed(<<req[h].to, req[h].note.origin>>) :
                 Len(tree) = Remembered(kept)
<1>1. <<req[h].to, req[h].note.origin>> \in Logs
  BY RequestTypes
<1>2. Remembered(kept) # req[h].old
  BY DEF CheckExtension
<1>3. kept # NoNote => kept.tree \in Endorsed(<<req[h].to, req[h].note.origin>>)
  BY <1>1 DEF MemoryIsNewest
<1> QED BY <1>2, <1>3 DEF Remembered

\* Each step keeps both.
LEMMA ConflictStep ==
  ASSUME WitnessTypeOK, MemoryIsNewest, ConflictInv, ConflictsCanBeFollowed,
         [AnyNext]_witnessVars
  PROVE  ConflictInv' /\ ConflictsCanBeFollowed'
<1>0. /\ hpc \in [Handlers -> {"idle", "sent", "checked", "answered", "lost"}]
      /\ req \in [Handlers -> Request \cup {NoRequest}]
      /\ answer \in [Handlers -> Answers]
      /\ \A h \in Handlers : hpc[h] # "idle" => <<req[h].to, req[h].note.origin>> \in Logs
  BY RequestTypes DEF WitnessTypeOK, Answers
<1>1. ASSUME NEW g \in Handlers, answer'[g] = answer[g], answer'[g].kind = "conflict",
             hpc[g] = "answered" => hpc'[g] = "answered" /\ req'[g] = req[g]
      PROVE  hpc'[g] = "answered" /\ Followable(g)'
  <2>1. hpc[g] = "answered" /\ hpc'[g] = "answered" /\ req'[g] = req[g] /\ Followable(g)
    BY <1>1 DEF ConflictInv, ConflictsCanBeFollowed, Followable
  <2>2. PICK r \in Logs : r = <<req[g].to, req[g].note.origin>>
    BY <1>0, <2>1
  <2>3. Endorsed(r) \subseteq Endorsed(r)'
    BY EndorsedGrows
  <2>4. r = <<req'[g].to, req'[g].note.origin>>
    BY <2>1, <2>2
  <2>5. /\ answer'[g].size # req'[g].old
        /\ \/ answer'[g].size = 0
           \/ \E tree \in Endorsed(r)' : Len(tree) = answer'[g].size
    BY <1>1, <2>1, <2>2, <2>3 DEF Followable
  <2> QED BY <2>1, <2>4, <2>5 DEF Followable, Endorsed
<1>2. SUFFICES \A g \in Handlers :
                 answer'[g].kind = "conflict" => hpc'[g] = "answered" /\ Followable(g)'
  BY DEF ConflictInv, ConflictsCanBeFollowed, Followable
<1>3. ASSUME UNCHANGED answer,
             \A g \in Handlers : hpc[g] = "answered" => hpc'[g] = "answered" /\ req'[g] = req[g]
      PROVE  \A g \in Handlers :
               answer'[g].kind = "conflict" => hpc'[g] = "answered" /\ Followable(g)'
  BY <1>1, <1>3
<1>4. ASSUME NEW h \in Handlers, NEW a \in Answers, Reply(h, a), UNCHANGED req,
             a.kind = "conflict" => Followable(h)'
      PROVE  \A g \in Handlers :
               answer'[g].kind = "conflict" => hpc'[g] = "answered" /\ Followable(g)'
  <2>1. hpc' = [hpc EXCEPT ![h] = "answered"] /\ answer' = [answer EXCEPT ![h] = a]
    BY <1>4 DEF Reply
  <2>2. answer'[h] = a /\ hpc'[h] = "answered"
    BY <1>0, <2>1
  <2>3. \A g \in Handlers : g # h => answer'[g] = answer[g] /\ hpc'[g] = hpc[g]
    BY <1>0, <2>1
  <2> QED BY <1>1, <1>4, <2>2, <2>3
<1>5. ASSUME NEW h \in Handlers, Refuse(h)
      PROVE  \E a \in Answers : Reply(h, a) /\ UNCHANGED req
                                /\ (a.kind = "conflict" => Followable(h)')
  <2> DEFINE kept == memory[<<req[h].to, req[h].note.origin>>]
             verdict == CheckExtension(kept, req[h])
  <2>1. req[h] \in Request /\ hpc[h] # "idle" /\ kept \in Note \cup {NoNote} /\ UNCHANGED req
    BY <1>5, RequestTypes DEF Refuse
  <2>2. verdict \in {"conflict", "unprocessable", "ok"} /\ Remembered(kept) \in Nat
    BY <2>1, VerdictTypes, RememberedType
  <2>3. CASE verdict # "ok" /\ Reply(h, Refusal(verdict, kept))
    <3>1. Refusal(verdict, kept) \in Answers
      <4>1. verdict \in Kinds
        BY <2>2, <2>3 DEF Kinds
      <4> QED BY <2>2, <4>1, AnswerType DEF Refusal
    <3>2. ASSUME Refusal(verdict, kept).kind = "conflict"
          PROVE  Followable(h)'
      <4>1. verdict = "conflict" /\ Refusal(verdict, kept).size = Remembered(kept)
        BY <3>2 DEF Refusal, Answer
      <4>2. /\ Remembered(kept) # req[h].old
            /\ \/ Remembered(kept) = 0
               \/ \E tree \in Endorsed(<<req[h].to, req[h].note.origin>>) :
                    Len(tree) = Remembered(kept)
        BY <2>1, <4>1, ConflictIsFollowable
      <4>3. answer'[h].size = Remembered(kept)
        BY <1>0, <2>3, <4>1 DEF Reply
      <4>4. UNCHANGED <<issued, req>>
        BY <1>5 DEF Refuse
      <4> QED BY <4>2, <4>3, <4>4 DEF Followable, Endorsed
    <3> QED BY <2>1, <2>3, <3>1, <3>2
  <2>4. CASE Reply(h, Answer("clock", 0, 0))
    <3>1. Answer("clock", 0, 0) \in Answers
      BY AnswerType DEF Kinds
    <3>2. Answer("clock", 0, 0).kind # "conflict"
      BY DEF Answer
    <3> QED BY <2>1, <2>4, <3>1, <3>2
  <2> QED BY <1>5, <2>3, <2>4 DEF Refuse
<1>6. ASSUME NEW h \in Handlers, NEW time \in Times, Advance(h, time) \/ FailToCommit(h, time)
      PROVE  \E a \in Answers : Reply(h, a) /\ UNCHANGED req /\ a.kind # "conflict"
  <2>1. hpc[h] # "idle" /\ req[h].note.tree \in Seq(Blocks) /\ time \in Nat
    BY <1>6, RequestTypes, TreeIsSequence, WitnessTimesAssumption DEF Advance, FailToCommit
  <2>2. "failed" \in Kinds /\ "cosigned" \in Kinds /\ Len(req[h].note.tree) \in Nat
    BY <2>1 DEF Kinds
  <2>3. Answer("failed", 0, 0) \in Answers
        /\ Answer("cosigned", Len(req[h].note.tree), time) \in Answers
    BY <2>1, <2>2, AnswerType
  <2> QED BY <1>6, <2>3 DEF Advance, FailToCommit, Answer, process
<1>7. ASSUME NEW h \in Handlers, Receive(h), Screen(req[h]) # "ok"
      PROVE  \E a \in Answers : Reply(h, a) /\ UNCHANGED req /\ a.kind # "conflict"
  <2>1. Screen(req[h]) \in Kinds /\ Screen(req[h]) # "conflict"
    BY <1>7 DEF Screen, Kinds
  <2>2. Answer(Screen(req[h]), 0, 0) \in Answers
    BY <2>1, AnswerType
  <2>3. Reply(h, Answer(Screen(req[h]), 0, 0)) /\ UNCHANGED req
    BY <1>7 DEF Receive
  <2>4. Answer(Screen(req[h]), 0, 0).kind = Screen(req[h])
    BY DEF Answer
  <2> HIDE DEF Answer, Reply, Screen
  <2> QED BY <2>1, <2>2, <2>3, <2>4
<1>8. \/ \E h \in Handlers, time \in Times : Advance(h, time) \/ FailToCommit(h, time)
      \/ \E h \in Handlers : Refuse(h) \/ (Receive(h) /\ Screen(req[h]) # "ok")
      \/ /\ UNCHANGED answer
         /\ \A g \in Handlers :
              hpc[g] = "answered" => hpc'[g] = "answered" /\ req'[g] = req[g]
  <2>1. ASSUME NEW w \in Witnesses, NEW c \in Configs, StartWitness(w, c)
        PROVE  UNCHANGED <<hpc, req, answer>>
    BY <2>1 DEF StartWitness, requests
  <2>2. ASSUME NEW w \in Witnesses, StopWitness(w)
        PROVE  /\ UNCHANGED <<req, answer>>
               /\ \A g \in Handlers : hpc[g] = "answered" => hpc'[g] = "answered"
    BY <2>2 DEF StopWitness
  <2>3. ASSUME NEW h \in Handlers, Receive(h), Screen(req[h]) = "ok"
        PROVE  /\ UNCHANGED <<req, answer>>
               /\ \A g \in Handlers : hpc[g] = "answered" => hpc'[g] = "answered"
    BY <1>0, <2>3 DEF Receive
  <2>4. ASSUME NEW h \in Handlers, NEW q \in Request, Send(h, q)
        PROVE  /\ UNCHANGED answer
               /\ \A g \in Handlers :
                    hpc[g] = "answered" => hpc'[g] = "answered" /\ req'[g] = req[g]
    BY <1>0, <2>4 DEF Send
  <2>5. CASE UNCHANGED witnessVars
    BY <2>5 DEF witnessVars, requests
  <2> QED BY <2>1, <2>2, <2>3, <2>4, <2>5 DEF AnyNext, WitnessStep
<1> QED BY <1>3, <1>4, <1>5, <1>6, <1>7, <1>8

\* ConflictsCanBeFollowed for every value of the constants.
THEOREM ConflictsStayFollowable == WitnessSpec => []ConflictsCanBeFollowed
<1>1. WitnessInit => ConflictInv /\ ConflictsCanBeFollowed
  BY DEF WitnessInit, ConflictInv, ConflictsCanBeFollowed, NoAnswer, Answer
<1>2. WitnessTypeOK /\ MemoryIsNewest /\ ConflictInv /\ ConflictsCanBeFollowed
        /\ [WitnessNext]_witnessVars => ConflictInv' /\ ConflictsCanBeFollowed'
  BY ConflictStep, StepOfAny
<1> QED BY <1>1, <1>2, WitnessTypeCorrect, MemoryStaysNewest, PTL DEF WitnessSpec

-----------------------------------------------------------------------------
(* The sync commands *)

-----------------------------------------------------------------------------
(* Histories *)

\* What a ledger file may hold, a log may sign.
LEMMA HistoryIsTree ==
  ASSUME NEW tree \in Histories
  PROVE  tree \in Trees /\ tree \in Seq(Blocks) /\ Len(tree) \in Nat /\ Len(tree) \in 0..MaxBlocks
<1>1. tree \in Seq(Blocks) /\ Len(tree) \in Nat /\ Len(tree) \in 0..MaxBlocks
  BY BoundsAssumption DEF Histories
<1>2. tree \in [1..Len(tree) -> Blocks]
  BY <1>1
<1> QED BY <1>1, <1>2, BoundsAssumption

\* The beginning of a history is a history, and a prefix of it.
LEMMA CutIsHistory ==
  ASSUME NEW tree \in Histories, NEW n \in Nat, n <= Len(tree)
  PROVE  /\ SubSeq(tree, 1, n) \in Histories /\ Len(SubSeq(tree, 1, n)) = n
         /\ IsPrefix(SubSeq(tree, 1, n), tree)
<1>1. tree \in Seq(Blocks) /\ Len(tree) \in 0..MaxBlocks /\ MaxBlocks \in Nat
  BY HistoryIsTree, BoundsAssumption
<1>2. /\ SubSeq(tree, 1, n) \in Seq(Blocks) /\ Len(SubSeq(tree, 1, n)) = n
      /\ \A i \in 1..n : SubSeq(tree, 1, n)[i] = tree[i]
  BY <1>1
<1>3. IsPrefix(SubSeq(tree, 1, n), tree)
  BY <1>1, <1>2, PrefixMeans
<1> QED BY <1>1, <1>2, <1>3 DEF Histories

\* A prefix is what the longer one begins with.
LEMMA PrefixIsCut ==
  ASSUME NEW s \in Seq(Blocks), NEW t \in Seq(Blocks), IsPrefix(s, t)
  PROVE  Len(s) <= Len(t) /\ s = SubSeq(t, 1, Len(s))
<1>1. SubSeq(s, 1, Len(s)) = s
  OBVIOUS
<1> QED BY <1>1 DEF IsPrefix

\* Of two prefixes of one history the shorter is a prefix of the longer, and those
\* of one length are the same.
LEMMA PrefixesAgree ==
  ASSUME NEW s \in Seq(Blocks), NEW r \in Seq(Blocks), NEW t \in Seq(Blocks),
         IsPrefix(s, t), IsPrefix(r, t), Len(s) <= Len(r)
  PROVE  IsPrefix(s, r) /\ (Len(s) = Len(r) => s = r)
<1>1. /\ Len(s) <= Len(t) /\ \A i \in 1..Len(s) : s[i] = t[i]
      /\ Len(r) <= Len(t) /\ \A i \in 1..Len(r) : r[i] = t[i]
  BY PrefixMeans
<1>2. \A i \in 1..Len(s) : s[i] = r[i]
  BY <1>1
<1>3. IsPrefix(s, r)
  BY <1>2, PrefixMeans
<1>4. Len(s) = Len(r) => s = r
  <2>1. s = SubSeq(t, 1, Len(s)) /\ r = SubSeq(t, 1, Len(r))
    BY PrefixIsCut
  <2> QED BY <2>1
<1> QED BY <1>3, <1>4

\* One block more keeps the prefixes.
LEMMA SealKeepsPrefixes ==
  ASSUME NEW t \in Histories, NEW b \in Blocks, Len(t) < MaxBlocks
  PROVE  /\ Append(t, b) \in Histories /\ Len(Append(t, b)) = Len(t) + 1
         /\ IsPrefix(t, Append(t, b))
         /\ \A s \in Seq(Blocks) : IsPrefix(s, t) => IsPrefix(s, Append(t, b))
         /\ \A n \in 0..Len(t) : SubSeq(Append(t, b), 1, n) = SubSeq(t, 1, n)
<1>1. t \in Seq(Blocks) /\ Len(t) \in Nat /\ MaxBlocks \in Nat
  BY HistoryIsTree, BoundsAssumption
<1>2. /\ Append(t, b) \in Seq(Blocks) /\ Len(Append(t, b)) = Len(t) + 1
      /\ \A i \in 1..Len(t) : Append(t, b)[i] = t[i]
  BY <1>1
<1>3. IsPrefix(t, Append(t, b))
  <2>1. Len(t) <= Len(Append(t, b)) /\ \A i \in 1..Len(t) : t[i] = Append(t, b)[i]
    BY <1>1, <1>2
  <2> QED BY <1>1, <1>2, <2>1, PrefixMeans
<1>4. \A s \in Seq(Blocks) : IsPrefix(s, t) => IsPrefix(s, Append(t, b))
  BY <1>1, <1>2, <1>3, PrefixTransitive
<1>5. ASSUME NEW n \in 0..Len(t)
      PROVE  SubSeq(Append(t, b), 1, n) = SubSeq(t, 1, n)
  <2>1. SubSeq(t, 1, n) \in Seq(Blocks) /\ Len(SubSeq(t, 1, n)) = n /\ IsPrefix(SubSeq(t, 1, n), t)
    BY <1>1, CutIsHistory DEF Histories
  <2>2. IsPrefix(SubSeq(t, 1, n), Append(t, b))
    BY <1>1, <1>2, <1>3, <2>1, PrefixTransitive
  <2> QED BY <1>2, <2>1, <2>2, PrefixIsCut
<1>6. Append(t, b) \in Histories
  BY <1>1, <1>2 DEF Histories
<1> QED BY <1>2, <1>3, <1>4, <1>5, <1>6

-----------------------------------------------------------------------------
(* The cosignatures of this log *)

\* All there are: who gave it, of which tree and when.
Given == {g \in Witnesses \X Trees \X Nat :
            \E i \in DOMAIN issued[g[1]] : /\ issued[g[1]][i].note.origin = Log
                                           /\ issued[g[1]][i].note.tree = g[2]
                                           /\ issued[g[1]][i].time = g[3]}

\* They are what the properties speak of.
LEMMA GivenMeans ==
  ASSUME WitnessTypeOK, NEW w \in Witnesses
  PROVE  /\ \A tree \in EndorsedBy(w) : \E time \in Nat : <<w, tree, time>> \in Given
         /\ \A tree, time : <<w, tree, time>> \in Given =>
              tree \in EndorsedBy(w) /\ IssuedBy(w, tree, time) /\ tree \in Trees /\ time \in Nat
<1>1. /\ <<w, Log>>[1] = w /\ <<w, Log>>[2] = Log
      /\ \A i \in DOMAIN issued[w] : issued[w][i] \in Issue
  BY DEF WitnessTypeOK
<1>2. ASSUME NEW tree \in EndorsedBy(w)
      PROVE  \E time \in Nat : <<w, tree, time>> \in Given
  <2>1. PICK i \in DOMAIN issued[w] : issued[w][i].note.origin = Log /\ issued[w][i].note.tree = tree
    BY <1>1, <1>2 DEF EndorsedBy, Endorsed
  <2>2. tree \in Trees /\ issued[w][i].time \in Nat
    BY <1>1, <2>1 DEF Issue, Note
  <2> DEFINE g == <<w, tree, issued[w][i].time>>
  <2>3. g \in Witnesses \X Trees \X Nat /\ g[1] = w /\ g[2] = tree /\ g[3] = issued[w][i].time
    BY <2>2
  <2>4. g \in Given
    BY <2>1, <2>3 DEF Given
  <2> QED BY <2>2, <2>4
<1>3. ASSUME NEW tree, NEW time, <<w, tree, time>> \in Given
      PROVE  tree \in EndorsedBy(w) /\ IssuedBy(w, tree, time) /\ tree \in Trees /\ time \in Nat
  <2> DEFINE g == <<w, tree, time>>
  <2>1. g[1] = w /\ g[2] = tree /\ g[3] = time
    OBVIOUS
  <2>2. PICK i \in DOMAIN issued[w] : /\ issued[w][i].note.origin = Log
                                      /\ issued[w][i].note.tree = tree
                                      /\ issued[w][i].time = time
    BY <1>3, <2>1 DEF Given
  <2>3. tree \in EndorsedBy(w)
    BY <1>1, <2>2 DEF EndorsedBy, Endorsed
  <2>4. IssuedBy(w, tree, time)
    BY <2>2 DEF IssuedBy
  <2>5. tree \in Trees /\ time \in Nat
    BY <1>1, <2>2 DEF Issue, Note
  <2> QED BY <2>3, <2>4, <2>5
<1> QED BY <1>2, <1>3

\* A commit for this log gives one more.
LEMMA AdvanceGives ==
  ASSUME WitnessTypeOK, NEW h \in Handlers, NEW time \in Times, Advance(h, time),
         req[h].note.origin = Log
  PROVE  Given' = Given \cup {<<req[h].to, req[h].note.tree, time>>}
<1> DEFINE w == req[h].to
           e == [note |-> req[h].note, time |-> time, life |-> lives[w]]
<1>1. w \in Witnesses /\ req[h].note \in Note /\ req[h].note.tree \in Trees /\ time \in Nat
  BY RequestTypes, WitnessTimesAssumption DEF Advance
<1>2. issued' = [issued EXCEPT ![w] = Append(@, e)]
  BY DEF Advance
<1>3. issued \in [Witnesses -> Seq(Issue)] /\ lives \in [Witnesses -> Nat]
  BY DEF WitnessTypeOK
<1>4. e \in Issue /\ e.note.origin = Log /\ e.note.tree = req[h].note.tree /\ e.time = time
  BY <1>1, <1>3 DEF Issue
<1> HIDE DEF e
<1>5. issued'[w] = Append(issued[w], e) /\ \A v \in Witnesses : v # w => issued'[v] = issued[v]
  BY <1>1, <1>2, <1>3
<1> DEFINE n == Len(issued[w])
<1>6. /\ n \in Nat /\ DOMAIN issued[w] = 1..n /\ DOMAIN issued'[w] = 1..(n + 1)
      /\ issued'[w][n + 1] = e /\ \A i \in 1..n : issued'[w][i] = issued[w][i]
  BY <1>1, <1>3, <1>4, <1>5
<1> HIDE DEF n, w
<1>7. ASSUME NEW g \in Witnesses \X Trees \X Nat
      PROVE  g \in Given' <=> g \in Given \/ g = <<w, req[h].note.tree, time>>
  <2>1. g[1] \in Witnesses /\ g = <<g[1], g[2], g[3]>>
    OBVIOUS
  <2>2. CASE g[1] # w
    <3>1. issued'[g[1]] = issued[g[1]]
      BY <1>5, <2>1, <2>2
    <3>2. g \in Given' <=> g \in Given
      BY <3>1 DEF Given
    <3> QED BY <2>1, <2>2, <3>2
  <2>3. CASE g[1] = w
    <3> DEFINE Is(i, s) == s[i].note.origin = Log /\ s[i].note.tree = g[2] /\ s[i].time = g[3]
    <3>1. g \in Given <=> \E i \in 1..n : Is(i, issued[w])
      BY <1>6, <2>3 DEF Given
    <3>2. g \in Given' <=> \E i \in 1..(n + 1) : Is(i, issued'[w])
      BY <1>6, <2>3 DEF Given
    <3>3. \A i \in 1..n : Is(i, issued'[w]) <=> Is(i, issued[w])
      BY <1>6
    <3>4. Is(n + 1, issued'[w]) <=> g[2] = req[h].note.tree /\ g[3] = time
      BY <1>4, <1>6
    <3>5. g = <<w, req[h].note.tree, time>> <=> g[2] = req[h].note.tree /\ g[3] = time
      BY <2>1, <2>3
    <3>6. n \in Nat
      BY <1>6
    <3> HIDE DEF Is
    <3>7. (\E i \in 1..(n + 1) : Is(i, issued'[w]))
            <=> (\E i \in 1..n : Is(i, issued'[w])) \/ Is(n + 1, issued'[w])
      BY <3>6
    <3> QED BY <3>1, <3>2, <3>3, <3>4, <3>5, <3>7
  <2> QED BY <2>2, <2>3
<1>8. <<w, req[h].note.tree, time>> \in Witnesses \X Trees \X Nat
  BY <1>1 DEF w
<1>9. Given \subseteq Witnesses \X Trees \X Nat /\ Given' \subseteq Witnesses \X Trees \X Nat
  BY DEF Given
<1>10. Given' = Given \cup {<<w, req[h].note.tree, time>>}
  BY <1>7, <1>8, <1>9
<1> QED BY <1>10 DEF w

-----------------------------------------------------------------------------
(* The invariant *)

\* Witness w gave a cosignature of n blocks, in G.
HasSize(w, n, G) == \E g \in G : g[1] = w /\ Len(g[2]) = n

\* Cosigned note c is in G and of the beginning of ch.
Backed(c, ch, G) == <<c.witness, c.tree, c.time>> \in G /\ IsPrefix(c.tree, ch)

\* What each piece of a file says, beside its blocks ch, the cosignatures G and the
\* witnesses M the network spoke for.
SignedIsTrue(t, ch) == t # NoNote => IsPrefix(t, ch)
RecordIsTrue(r, G, M) ==
  r # NoRecord => r.local < r.size /\ (r.witness \notin M => HasSize(r.witness, r.size, G))
NotesAreTrue(cs, ch, G) ==
  \A n \in 0..MaxBlocks : cs[n] # NoNote => Len(cs[n].tree) = n /\ Backed(cs[n], ch, G)
NoteIsTrue(c, ch, G) == c # NoNote => Backed(c, ch, G)
AttestationIsTrue(a, ch, G) ==
  a # NoRecord => a.size <= Len(ch) /\ <<a.witness, SubSeq(ch, 1, a.size), a.time>> \in G

\* What file f says is true beside the cosignatures G, but for what the network
\* made up of the witnesses M.
IsTrue(f, G, M) ==
  /\ SignedIsTrue(f.lastSigned, f.chain)
  /\ RecordIsTrue(f.rollback, G, M)
  /\ NotesAreTrue(f.checkpoints, f.chain, G)
  /\ NoteIsTrue(f.lastCosignature, f.chain, G)
  /\ AttestationIsTrue(f.lastAttested, f.chain, G)

\* Command p asks for what it read, once; a cosignature it was answered is given,
\* of a tree that continues what its witness had; and without a restore nothing
\* it asks is refused as no extension.
Asked(p) ==
  /\ pc[p] \in {"new", "size", "monitor", "sign", "post"} => hpc[p] = "idle"
  /\ hpc[p] # "idle" =>
       /\ req[p].to = witness[p]
       /\ req[p].note = [origin |-> Log, key |-> LogKey, tree |-> local[p]]
       /\ req[p].old <= Len(local[p])
       /\ req[p].proof = IF 0 < req[p].old /\ req[p].old < Len(local[p])
                         THEN SubSeq(local[p], 1, req[p].old) ELSE NoProof
  /\ answer[p].kind = "cosigned" =>
       /\ hpc[p] = "answered"
       /\ <<witness[p], local[p], answer[p].time>> \in Given
       /\ IsPrefix(seen[p], local[p])
  /\ ~restored => answer[p].kind # "unprocessable"

\* What command p remembers is of the file while it runs, and of its witness.
Knows(p) ==
  /\ seen[p] \in EndorsedBy(witness[p]) \cup {<< >>}
  /\ ~restored => IsPrefix(local[p], chain)
  /\ Live(p) => (last[p] # NoNote => IsPrefix(last[p], chain))
  /\ Live(p) /\ pc[p] # "size" =>
       IsPrefix(local[p], chain) /\ (last[p] # NoNote => IsPrefix(last[p], local[p]))
  /\ pc[p] \in {"sign", "post"} => remote[p] <= Len(local[p])
  /\ pc[p] = "accuse" =>
       /\ Len(local[p]) < remote[p]
       /\ p \notin misled => HasSize(witness[p], remote[p], Given)
  /\ pc[p] \in {"record", "put", "resolve", "clear", "cosignature", "attest"}
       \/ out[p] = "attested" =>
       /\ <<witness[p], local[p], at[p]>> \in Given
       /\ p \notin misled => IsPrefix(seen[p], local[p])
  /\ out[p] # "none" => pc[p] = "ended"

\* What is cosigned was in the file, and still is unless it was put back.
GivenInv ==
  \A g \in Given : g[2] \in Histories /\ (~restored => IsPrefix(g[2], chain))

SyncInv ==
  /\ MemoryIsNewest /\ ConflictInv /\ ConflictsCanBeFollowed
  /\ GivenInv
  /\ IsTrue(File, Given, SpokenFor)
  /\ copy # NoRecord => IsTrue(copy, Given, SpokenFor)
  /\ \A p \in Syncs : Asked(p) /\ Knows(p)

\* More cosignatures make nothing less true.
LEMMA TrueStays ==
  ASSUME NEW f, NEW G, NEW H, G \subseteq H, NEW M, NEW N, M \subseteq N, IsTrue(f, G, M)
  PROVE  IsTrue(f, H, N)
<1>1. \A w, n : HasSize(w, n, G) => HasSize(w, n, H)
  BY DEF HasSize
<1>2. \A c, ch : Backed(c, ch, G) => Backed(c, ch, H)
  BY DEF Backed
<1>3. /\ RecordIsTrue(f.rollback, G, M) => RecordIsTrue(f.rollback, H, N)
      /\ NotesAreTrue(f.checkpoints, f.chain, G) => NotesAreTrue(f.checkpoints, f.chain, H)
      /\ NoteIsTrue(f.lastCosignature, f.chain, G) => NoteIsTrue(f.lastCosignature, f.chain, H)
      /\ AttestationIsTrue(f.lastAttested, f.chain, G)
           => AttestationIsTrue(f.lastAttested, f.chain, H)
  BY <1>1, <1>2 DEF RecordIsTrue, NotesAreTrue, NoteIsTrue, AttestationIsTrue
<1> QED BY <1>3 DEF IsTrue

\* The fields of the file and their types.
LEMMA FileFields ==
  ASSUME File \in LedgerFile
  PROVE  /\ chain \in Histories /\ lastSigned \in Histories \cup {NoNote}
         /\ checkpoints \in [0..MaxBlocks -> Cosigned \cup {NoNote}]
         /\ rollback \in RollbackRecord \cup {NoRecord}
         /\ lastCosignature \in Cosigned \cup {NoNote}
         /\ lastAttested \in Attestation \cup {NoRecord}
BY DEF File, LedgerFile

\* And of what they are after a step.
LEMMA FileTypesAfter ==
  ASSUME chain' \in Histories, lastSigned' \in Histories \cup {NoNote},
         checkpoints' \in [0..MaxBlocks -> Cosigned \cup {NoNote}],
         rollback' \in RollbackRecord \cup {NoRecord},
         lastCosignature' \in Cosigned \cup {NoNote},
         lastAttested' \in Attestation \cup {NoRecord}
  PROVE  File' \in LedgerFile
BY DEF File, LedgerFile

\* The types of what command p remembers.
LEMMA CommandTypes ==
  ASSUME SyncTypeOK, NEW p \in Syncs
  PROVE  /\ witness[p] \in Witnesses /\ local[p] \in Histories /\ remote[p] \in Sizes /\ at[p] \in Nat
         /\ last[p] \in Histories \cup {NoNote} /\ seen[p] \in Trees
         /\ pc[p] \in Steps /\ <<witness[p], Log>> \in Logs
         /\ answer[p] \in Answers /\ p \in Handlers
         /\ remote[p] \in Nat /\ local[p] \in Trees /\ local[p] \in Seq(Blocks)
         /\ Len(local[p]) \in Nat /\ Len(local[p]) \in 0..MaxBlocks
<1>1. /\ witness[p] \in Witnesses /\ local[p] \in Histories /\ remote[p] \in Sizes
      /\ last[p] \in Histories \cup {NoNote} /\ seen[p] \in Trees /\ at[p] \in Nat
      /\ pc[p] \in Steps /\ answer[p] \in Answers /\ p \in Handlers
  BY DEF SyncTypeOK, WitnessTypeOK, Syncs, Answers
<1>2. <<witness[p], Log>> \in Logs
  BY <1>1, LogAssumption DEF Logs
<1>3. remote[p] \in Nat
  BY <1>1, BoundsAssumption DEF Sizes
<1> QED BY <1>1, <1>2, <1>3, HistoryIsTree

\* What a witness has cosigned of this log are histories, of MaxBlocks at most.
LEMMA EndorsedAreHistories ==
  ASSUME WitnessTypeOK, GivenInv, NEW w \in Witnesses, NEW tree \in EndorsedBy(w)
  PROVE  /\ tree \in Histories /\ Len(tree) \in 0..MaxBlocks /\ HasSize(w, Len(tree), Given)
         /\ ~restored => IsPrefix(tree, chain)
<1>1. PICK time \in Nat : <<w, tree, time>> \in Given
  BY GivenMeans
<1>2. <<w, tree, time>>[1] = w /\ <<w, tree, time>>[2] = tree
  OBVIOUS
<1>3. tree \in Histories /\ (~restored => IsPrefix(tree, chain))
  BY <1>1, <1>2 DEF GivenInv
<1>4. HasSize(w, Len(tree), Given)
  BY <1>1, <1>2 DEF HasSize
<1> QED BY <1>3, <1>4, HistoryIsTree

\* What a command posts is a request.
LEMMA PostIsRequest ==
  ASSUME SyncTypeOK, NEW p \in Syncs, Knows(p), pc[p] = "post"
  PROVE  [to |-> witness[p], old |-> remote[p], proof |-> Proof(p),
          note |-> [origin |-> Log, key |-> LogKey, tree |-> local[p]]] \in Request
<1>1. /\ witness[p] \in Witnesses /\ local[p] \in Histories /\ remote[p] \in Nat
      /\ local[p] \in Trees /\ Len(local[p]) \in Nat
  BY CommandTypes
<1>2. Proof(p) \in Trees \cup {NoProof}
  <2>1. CASE 0 < remote[p] /\ remote[p] < Len(local[p])
    <3>1. SubSeq(local[p], 1, remote[p]) \in Histories
      BY <1>1, <2>1, CutIsHistory
    <3> QED BY <2>1, <3>1, HistoryIsTree DEF Proof
  <2>2. CASE ~(0 < remote[p] /\ remote[p] < Len(local[p]))
    BY <2>2 DEF Proof
  <2> QED BY <2>1, <2>2
<1>3. [origin |-> Log, key |-> LogKey, tree |-> local[p]] \in Note
  BY <1>1, LogAssumption DEF Note
<1> QED BY <1>1, <1>2, <1>3 DEF Request

\* Every step of this module is one of the witnesses, or nothing they notice.
LEMMA WitnessesAreSent ==
  ASSUME SyncTypeOK, SyncInv, [SyncNext]_vars
  PROVE  [AnyNext]_witnessVars
<1>1. ASSUME NEW p \in Syncs, Post(p)
      PROVE  AnyNext
  <2>1. Knows(p) /\ pc[p] = "post" /\ p \in Handlers
    BY <1>1 DEF SyncInv, Post, Syncs
  <2> QED BY <1>1, <2>1, PostIsRequest DEF Post, AnyNext
<1>2. ASSUME NEW p \in Syncs, SyncStep(p) \/ GiveUp(p), ~Post(p)
      PROVE  UNCHANGED witnessVars
  BY <1>2 DEF SyncStep, GiveUp, OpenSync, ReadLocal, AskMonitor, SignCheckpoint, ReadAnswer,
              ReadFalseAnswer, PutRollback, RecordCosigned, PutCheckpoint, ReadRollback, ClearRollback,
              PutLastCosignature, PutLastAttested
<1>3. \A block \in Blocks : Seal(block) => UNCHANGED witnessVars
  BY DEF Seal
<1>4. Copy \/ Restore => UNCHANGED witnessVars
  BY DEF Copy, Restore
<1>5. WitnessStep => AnyNext
  BY DEF AnyNext
<1>6. UNCHANGED vars => UNCHANGED witnessVars
  BY DEF vars
<1> QED BY <1>1, <1>2, <1>3, <1>4, <1>5, <1>6 DEF SyncNext

-----------------------------------------------------------------------------
(* The witnesses the network speaks for *)

\* An accusation it made up stays made up: a command ends once.
LEMMA SpokenForGrows ==
  ASSUME SyncTypeOK, SyncInv, [SyncNext]_vars
  PROVE  SpokenFor \subseteq SpokenFor'
<1>0. /\ out \in [Syncs -> {"none", "failed", "rollback", "attested"}] /\ misled \subseteq Syncs
      /\ \A p \in Syncs : out[p] # "none" => pc[p] = "ended"
  BY DEF SyncTypeOK, SyncInv, Knows
<1>1. SUFFICES ASSUME NEW q \in misled, out[q] = "rollback"
               PROVE  q \in misled' /\ out'[q] = "rollback" /\ witness' = witness
  BY DEF SpokenFor
<1>2. q \in Syncs /\ pc[q] = "ended"
  BY <1>0, <1>1
<1>3. ASSUME NEW p \in Syncs, SyncStep(p) \/ GiveUp(p)
      PROVE  q \in misled' /\ out'[q] = "rollback" /\ witness' = witness
  <2>1. /\ pc[p] # "ended" /\ witness' = witness
        /\ misled' = misled \/ misled' = misled \cup {p}
    BY <1>3 DEF SyncStep, GiveUp, Live, OpenSync, ReadLocal, AskMonitor, SignCheckpoint, Post,
                ReadAnswer, ReadFalseAnswer, PutRollback, RecordCosigned, PutCheckpoint,
                ReadRollback, ClearRollback, PutLastCosignature, PutLastAttested, history, command
  <2>2. out' = out \/ \E result : out' = [out EXCEPT ![p] = result]
    BY <1>3 DEF SyncStep, GiveUp, OpenSync, ReadLocal, AskMonitor, SignCheckpoint, Post,
                ReadAnswer, ReadFalseAnswer, PutRollback, RecordCosigned, PutCheckpoint,
                ReadRollback, ClearRollback, PutLastCosignature, PutLastAttested, End
  <2> QED BY <1>0, <1>1, <1>2, <2>1, <2>2
<1>4. Copy \/ Restore \/ UNCHANGED vars \/ UNCHANGED syncVars
        \/ (\E block \in Blocks : Seal(block)) => UNCHANGED <<misled, out, witness>>
  BY DEF Copy, Restore, Seal, vars, syncVars, history, command
<1> QED BY <1>1, <1>3, <1>4 DEF SyncNext

-----------------------------------------------------------------------------
(* The file *)

\* A command that obtained a cosignature knows a true note of the file.
LEMMA ObtainedIsTrue ==
  ASSUME SyncTypeOK, NEW p \in Syncs, Knows(p),
         pc[p] \in {"record", "put", "resolve", "clear", "cosignature", "attest"}
  PROVE  /\ Obtained(p) \in Cosigned /\ Backed(Obtained(p), chain, Given)
         /\ Obtained(p).tree = local[p] /\ IsPrefix(local[p], chain)
         /\ <<witness[p], local[p], at[p]>> \in Given
<1>1. Live(p)
  BY DEF Live
<1>2. /\ <<witness[p], local[p], at[p]>> \in Given /\ IsPrefix(local[p], chain)
  BY <1>1 DEF Knows
<1>3. witness[p] \in Witnesses /\ local[p] \in Histories /\ at[p] \in Nat
  BY CommandTypes
<1> QED BY <1>2, <1>3 DEF Obtained, Cosigned, Backed

\* The steps that write to the file while commands run.
Writes(p) == SignCheckpoint(p) \/ PutRollback(p) \/ PutCheckpoint(p) \/ ClearRollback(p)
             \/ PutLastCosignature(p) \/ PutLastAttested(p)

\* Each leaves a file that is true.
LEMMA WriteStep ==
  ASSUME SyncTypeOK, SyncInv, NEW p \in Syncs, Writes(p)
  PROVE  File' \in LedgerFile /\ IsTrue(File', Given, SpokenFor') /\ chain' = chain
<1>0. /\ Asked(p) /\ Knows(p) /\ IsTrue(File, Given, SpokenFor') /\ SpokenFor \subseteq SpokenFor'
      /\ chain \in Histories /\ lastSigned \in Histories \cup {NoNote}
      /\ checkpoints \in [0..MaxBlocks -> Cosigned \cup {NoNote}]
      /\ rollback \in RollbackRecord \cup {NoRecord}
      /\ lastCosignature \in Cosigned \cup {NoNote}
      /\ lastAttested \in Attestation \cup {NoRecord}
  <2>1. SpokenFor \subseteq SpokenFor'
    BY SpokenForGrows DEF Writes, SyncNext, SyncStep
  <2>2. IsTrue(File, Given, SpokenFor')
    BY <2>1, TrueStays DEF SyncInv
  <2> QED BY <2>1, <2>2, FileFields DEF SyncInv, SyncTypeOK
<1>01. /\ SignedIsTrue(lastSigned, chain) /\ RecordIsTrue(rollback, Given, SpokenFor')
       /\ NotesAreTrue(checkpoints, chain, Given) /\ NoteIsTrue(lastCosignature, chain, Given)
       /\ AttestationIsTrue(lastAttested, chain, Given)
  BY <1>0 DEF IsTrue, File
<1>02. /\ witness[p] \in Witnesses /\ local[p] \in Histories /\ local[p] \in Seq(Blocks)
       /\ remote[p] \in Sizes /\ Len(local[p]) \in 0..MaxBlocks /\ at[p] \in Nat
       /\ chain \in Seq(Blocks)
  BY <1>0, CommandTypes, HistoryIsTree
<1>03. SUFFICES ASSUME chain' = chain
                PROVE  /\ lastSigned' \in Histories \cup {NoNote}
                       /\ checkpoints' \in [0..MaxBlocks -> Cosigned \cup {NoNote}]
                       /\ rollback' \in RollbackRecord \cup {NoRecord}
                       /\ lastCosignature' \in Cosigned \cup {NoNote}
                       /\ lastAttested' \in Attestation \cup {NoRecord}
                       /\ SignedIsTrue(lastSigned', chain)
                       /\ RecordIsTrue(rollback', Given, SpokenFor')
                       /\ NotesAreTrue(checkpoints', chain, Given)
                       /\ NoteIsTrue(lastCosignature', chain, Given)
                       /\ AttestationIsTrue(lastAttested', chain, Given)
  <2>1. chain' = chain
    BY DEF Writes, SignCheckpoint, PutRollback, PutCheckpoint, ClearRollback,
           PutLastCosignature, PutLastAttested
  <2> QED BY <1>0, <2>1, FileTypesAfter DEF IsTrue, File
<1>1. CASE SignCheckpoint(p)
  <2>1. /\ lastSigned' \in {lastSigned, local[p]}
        /\ UNCHANGED <<rollback, checkpoints, lastCosignature, lastAttested>>
    BY <1>1 DEF SignCheckpoint, evidence
  <2>2. SignedIsTrue(local[p], chain)
    BY <1>0, <1>1 DEF SignedIsTrue, SignCheckpoint, Knows, Live
  <2> QED BY <1>0, <1>01, <1>02, <2>1, <2>2
<1>2. CASE PutRollback(p)
  <2>1. /\ rollback' = [witness |-> witness[p], local |-> Len(local[p]), size |-> remote[p]]
        /\ UNCHANGED <<lastSigned, checkpoints, lastCosignature, lastAttested>>
    BY <1>2 DEF PutRollback, evidence
  <2>2. rollback' \in RollbackRecord
    BY <1>02, <2>1 DEF RollbackRecord
  <2>3. p \in misled => witness[p] \in SpokenFor'
    <3>1. out' = [out EXCEPT ![p] = "rollback"] /\ misled' = misled /\ witness' = witness
      BY <1>2 DEF PutRollback, End, history, command
    <3>2. out \in [Syncs -> {"none", "failed", "rollback", "attested"}]
      BY DEF SyncTypeOK
    <3>3. out'[p] = "rollback"
      BY <3>1, <3>2
    <3> QED BY <3>1, <3>3 DEF SpokenFor
  <2>4. RecordIsTrue(rollback', Given, SpokenFor')
    BY <1>0, <1>2, <2>1, <2>3 DEF RecordIsTrue, PutRollback, Knows
  <2> QED BY <1>0, <1>01, <2>1, <2>2, <2>4
<1>3. CASE PutCheckpoint(p)
  <2>1. /\ checkpoints' = checkpoints
             \/ checkpoints' = [checkpoints EXCEPT ![Len(local[p])] = Obtained(p)]
        /\ UNCHANGED <<lastSigned, rollback, lastCosignature, lastAttested>>
    BY <1>3 DEF PutCheckpoint
  <2>2. Obtained(p) \in Cosigned /\ Backed(Obtained(p), chain, Given) /\ Obtained(p).tree = local[p]
    BY <1>0, <1>3, ObtainedIsTrue DEF PutCheckpoint
  <2>3. checkpoints' \in [0..MaxBlocks -> Cosigned \cup {NoNote}]
    BY <1>0, <1>02, <2>1, <2>2
  <2>4. NotesAreTrue(checkpoints', chain, Given)
    <3> SUFFICES ASSUME NEW n \in 0..MaxBlocks, checkpoints'[n] # NoNote
                 PROVE  Len(checkpoints'[n].tree) = n /\ Backed(checkpoints'[n], chain, Given)
      BY DEF NotesAreTrue
    <3>1. checkpoints'[n] = checkpoints[n] \/ (n = Len(local[p]) /\ checkpoints'[n] = Obtained(p))
      BY <1>0, <1>02, <2>1
    <3> QED BY <1>01, <2>2, <3>1 DEF NotesAreTrue
  <2> QED BY <1>0, <1>01, <2>1, <2>3, <2>4
<1>4. CASE ClearRollback(p)
  <2>1. rollback' = NoRecord /\ UNCHANGED <<lastSigned, checkpoints, lastCosignature, lastAttested>>
    BY <1>4 DEF ClearRollback, evidence
  <2> QED BY <1>0, <1>01, <2>1 DEF RecordIsTrue
<1>5. CASE PutLastCosignature(p)
  <2>1. /\ lastCosignature' = Obtained(p)
        /\ UNCHANGED <<lastSigned, checkpoints, rollback, lastAttested>>
    BY <1>5 DEF PutLastCosignature
  <2>2. Obtained(p) \in Cosigned /\ Backed(Obtained(p), chain, Given)
    BY <1>0, <1>5, ObtainedIsTrue DEF PutLastCosignature
  <2> QED BY <1>0, <1>01, <2>1, <2>2 DEF NoteIsTrue
<1>6. CASE PutLastAttested(p)
  <2>1. /\ lastAttested' = [witness |-> witness[p], size |-> Len(local[p]),
                            time |-> at[p]]
        /\ UNCHANGED <<lastSigned, checkpoints, rollback, lastCosignature>>
    BY <1>6 DEF PutLastAttested
  <2>2. lastAttested' \in Attestation
    BY <1>02, <2>1 DEF Attestation
  <2>3. IsPrefix(local[p], chain) /\ <<witness[p], local[p], at[p]>> \in Given
    BY <1>0, <1>6, ObtainedIsTrue DEF PutLastAttested
  <2>4. Len(local[p]) <= Len(chain) /\ local[p] = SubSeq(chain, 1, Len(local[p]))
    BY <1>02, <2>3, PrefixIsCut
  <2>5. AttestationIsTrue(lastAttested', chain, Given)
    BY <2>1, <2>3, <2>4 DEF AttestationIsTrue
  <2> QED BY <1>0, <1>01, <2>1, <2>2, <2>5
<1> QED BY <1>1, <1>2, <1>3, <1>4, <1>5, <1>6 DEF Writes

\* Without a commit nothing more is given.
LEMMA StillGiven ==
  ASSUME UNCHANGED issued
  PROVE  /\ Given' = Given
         /\ \A w \in Witnesses : EndorsedBy(w)' = EndorsedBy(w)
BY DEF Given, EndorsedBy, Endorsed

\* The commit of a request gives what the command read.
LEMMA CommitGives ==
  ASSUME SyncTypeOK, NEW p \in Syncs, Asked(p), NEW time \in Times, Advance(p, time)
  PROVE  /\ Given' = Given \cup {<<witness[p], local[p], time>>}
         /\ req[p].to = witness[p] /\ req[p].note.tree = local[p] /\ req[p].note.origin = Log
         /\ hpc[p] = "checked"
<1>1. /\ hpc[p] = "checked" /\ p \in Handlers /\ WitnessTypeOK
  BY DEF Advance, Syncs, SyncTypeOK
<1>2. /\ req[p].to = witness[p] /\ req[p].note.tree = local[p] /\ req[p].note.origin = Log
  BY <1>1 DEF Asked
<1> QED BY <1>1, <1>2, AdvanceGives

\* What is given stays so.
LEMMA GivenGrows ==
  ASSUME SyncTypeOK, SyncInv, [SyncNext]_vars
  PROVE  Given \subseteq Given'
<1>1. [AnyNext]_witnessVars
  BY WitnessesAreSent
<1>2. ASSUME NEW h \in Handlers, NEW time \in Times, Advance(h, time)
      PROVE  Given \subseteq Given'
  BY <1>2, CommitGives DEF SyncInv, Syncs
<1> QED BY <1>1, <1>2, OnlyAdvanceWrites, StillGiven

\* The file and its copy stay true whatever happens.
LEMMA FileStep ==
  ASSUME SyncTypeOK, SyncInv, [SyncNext]_vars
  PROVE  /\ File' \in LedgerFile /\ IsTrue(File', Given', SpokenFor')
         /\ copy' = NoRecord \/ copy' \in LedgerFile
         /\ copy' # NoRecord => IsTrue(copy', Given', SpokenFor')
         /\ restored' \in BOOLEAN
<1>0. /\ File \in LedgerFile /\ IsTrue(File, Given, SpokenFor') /\ restored \in BOOLEAN
      /\ copy = NoRecord \/ copy \in LedgerFile
      /\ copy # NoRecord => IsTrue(copy, Given, SpokenFor')
      /\ Given \subseteq Given'
  <2>1. SpokenFor \subseteq SpokenFor'
    BY SpokenForGrows
  <2> QED BY <2>1, GivenGrows, TrueStays DEF SyncTypeOK, SyncInv
<1>1. SUFFICES /\ File' \in LedgerFile /\ IsTrue(File', Given, SpokenFor')
               /\ copy' \in {copy, File} /\ restored' \in BOOLEAN
  BY <1>0, TrueStays
<1>2. ASSUME UNCHANGED <<ledger, restored>>, copy' \in {copy, File}
      PROVE  /\ File' \in LedgerFile /\ IsTrue(File', Given, SpokenFor')
             /\ copy' \in {copy, File} /\ restored' \in BOOLEAN
  <2>1. File' = File
    BY <1>2 DEF ledger, evidence, File
  <2> QED BY <1>0, <1>2, <2>1
<1>3. ASSUME NEW p \in Syncs, Writes(p)
      PROVE  /\ File' \in LedgerFile /\ IsTrue(File', Given, SpokenFor')
             /\ copy' \in {copy, File} /\ restored' \in BOOLEAN
  <2>1. UNCHANGED <<copy, restored>>
    BY <1>3 DEF Writes, SignCheckpoint, PutRollback, PutCheckpoint, ClearRollback,
                PutLastCosignature, PutLastAttested, history
  <2> QED BY <1>0, <1>3, <2>1, WriteStep
<1>4. ASSUME NEW p \in Syncs, SyncStep(p) \/ GiveUp(p), ~Writes(p)
      PROVE  UNCHANGED <<ledger, restored, copy>>
  BY <1>4 DEF Writes, SyncStep, GiveUp, OpenSync, ReadLocal, AskMonitor, Post, ReadAnswer,
              ReadFalseAnswer, RecordCosigned, ReadRollback, history
<1>5. ASSUME NEW block \in Blocks, Seal(block)
      PROVE  /\ File' \in LedgerFile /\ IsTrue(File', Given, SpokenFor')
             /\ copy' \in {copy, File} /\ restored' \in BOOLEAN
  <2>1. /\ Len(chain) < MaxBlocks /\ chain' = Append(chain, block)
        /\ UNCHANGED <<lastSigned, rollback, checkpoints, lastCosignature, lastAttested,
                       copy, restored>>
    BY <1>5 DEF Seal, evidence, history
  <2>2. /\ chain \in Histories /\ lastSigned \in Histories \cup {NoNote}
        /\ checkpoints \in [0..MaxBlocks -> Cosigned \cup {NoNote}]
        /\ rollback \in RollbackRecord \cup {NoRecord}
        /\ lastCosignature \in Cosigned \cup {NoNote}
        /\ lastAttested \in Attestation \cup {NoRecord}
    BY <1>0, FileFields
  <2>3. /\ chain' \in Histories /\ Len(chain') = Len(chain) + 1
        /\ \A s \in Seq(Blocks) : IsPrefix(s, chain) => IsPrefix(s, chain')
        /\ \A n \in 0..Len(chain) : SubSeq(chain', 1, n) = SubSeq(chain, 1, n)
    BY <2>1, <2>2, SealKeepsPrefixes
  <2>4. /\ \A t \in Histories : t \in Seq(Blocks)
        /\ \A c \in Cosigned : c.tree \in Seq(Blocks)
        /\ \A a \in Attestation : a.size \in Nat
        /\ Len(chain) \in Nat
    BY <2>2, HistoryIsTree, BoundsAssumption DEF Cosigned, Attestation
  <2>5. /\ SignedIsTrue(lastSigned, chain) /\ RecordIsTrue(rollback, Given, SpokenFor')
        /\ NotesAreTrue(checkpoints, chain, Given) /\ NoteIsTrue(lastCosignature, chain, Given)
        /\ AttestationIsTrue(lastAttested, chain, Given)
    BY <1>0 DEF IsTrue, File
  <2>6. \A c \in Cosigned : Backed(c, chain, Given) => Backed(c, chain', Given)
    BY <2>3, <2>4 DEF Backed
  <2>7. SignedIsTrue(lastSigned, chain')
    BY <2>2, <2>3, <2>4, <2>5 DEF SignedIsTrue
  <2>8. NotesAreTrue(checkpoints, chain', Given)
    BY <2>2, <2>5, <2>6 DEF NotesAreTrue
  <2>9. NoteIsTrue(lastCosignature, chain', Given)
    BY <2>2, <2>5, <2>6 DEF NoteIsTrue
  <2>10. AttestationIsTrue(lastAttested, chain', Given)
    <3>1. ASSUME lastAttested # NoRecord
          PROVE  /\ lastAttested.size <= Len(chain') /\ lastAttested.size \in 0..Len(chain)
      BY <2>2, <2>3, <2>4, <2>5, <3>1 DEF AttestationIsTrue
    <3>2. ASSUME lastAttested # NoRecord
          PROVE  SubSeq(chain', 1, lastAttested.size) = SubSeq(chain, 1, lastAttested.size)
      BY <3>1, <3>2, <2>3
    <3> QED BY <3>1, <3>2, <2>5 DEF AttestationIsTrue
  <2>11. File' \in LedgerFile
    BY <2>1, <2>2, <2>3, FileTypesAfter
  <2>12. IsTrue(File', Given, SpokenFor')
    BY <2>1, <2>5, <2>7, <2>8, <2>9, <2>10 DEF IsTrue, File
  <2> QED BY <1>0, <2>1, <2>11, <2>12
<1>6. CASE Copy
  BY <1>2, <1>6 DEF Copy
<1>7. CASE Restore
  <2>1. copy # NoRecord /\ copy \in LedgerFile /\ restored' = TRUE /\ copy' = copy
    BY <1>0, <1>7 DEF Restore
  <2>2. File' = [chain |-> copy.chain, lastSigned |-> copy.lastSigned,
                 checkpoints |-> copy.checkpoints, rollback |-> copy.rollback,
                 lastCosignature |-> copy.lastCosignature, lastAttested |-> copy.lastAttested]
    BY <1>7 DEF Restore, File
  <2>3. File' = copy
    BY <2>1, <2>2 DEF LedgerFile
  <2> QED BY <1>0, <2>1, <2>3
<1>8. CASE UNCHANGED syncVars
  BY <1>2, <1>8 DEF syncVars, history
<1>9. UNCHANGED vars => UNCHANGED syncVars
  BY DEF vars
<1> QED BY <1>2, <1>3, <1>4, <1>5, <1>6, <1>7, <1>8, <1>9 DEF SyncNext

-----------------------------------------------------------------------------
(* The sizes witnesses name *)

\* A note of the monitoring prefix is of no size, or of one that was cosigned.
LEMMA MonitorNamesGiven ==
  ASSUME SyncTypeOK, SyncInv, NEW p \in Syncs, AskMonitor(p)
  PROVE  \E size \in 0..MaxBlocks :
           RemoteSize(p, size) \/ (Accuse(p, size) /\ HasSize(witness[p], size, Given))
<1>1. PICK size \in {0} \cup {Len(tree) : tree \in EndorsedBy(witness[p])} :
        RemoteSize(p, size) \/ Accuse(p, size)
  BY DEF AskMonitor
<1>2. witness[p] \in Witnesses /\ Len(local[p]) \in Nat /\ MaxBlocks \in Nat /\ WitnessTypeOK
      /\ GivenInv
  BY CommandTypes, BoundsAssumption DEF SyncTypeOK, SyncInv
<1>3. CASE size = 0
  <2>1. ~Accuse(p, size)
    BY <1>2, <1>3 DEF Accuse
  <2> QED BY <1>1, <1>2, <1>3, <2>1
<1>4. CASE size \in {Len(tree) : tree \in EndorsedBy(witness[p])}
  <2>1. PICK tree \in EndorsedBy(witness[p]) : size = Len(tree)
    BY <1>4
  <2>2. size \in 0..MaxBlocks /\ HasSize(witness[p], size, Given)
    BY <1>2, <2>1, EndorsedAreHistories
  <2> QED BY <1>1, <2>2
<1> QED BY <1>1, <1>3, <1>4

\* A 409 of more blocks than were read is of a size that was cosigned.
LEMMA ConflictNamesGiven ==
  ASSUME SyncTypeOK, SyncInv, NEW p \in Syncs,
         hpc[p] = "answered", answer[p].kind = "conflict", answer[p].size > Len(local[p])
  PROVE  answer[p].size \in 0..MaxBlocks /\ HasSize(witness[p], answer[p].size, Given)
<1>1. /\ witness[p] \in Witnesses /\ Len(local[p]) \in Nat /\ WitnessTypeOK /\ GivenInv
      /\ Asked(p) /\ p \in Handlers
  BY CommandTypes DEF SyncTypeOK, SyncInv
<1>2. req[p].to = witness[p] /\ req[p].note.origin = Log
  BY <1>1 DEF Asked
<1>3. answer[p].size # 0
  BY <1>1
<1>4. PICK tree \in EndorsedBy(witness[p]) : Len(tree) = answer[p].size
  BY <1>1, <1>2, <1>3 DEF SyncInv, ConflictsCanBeFollowed, EndorsedBy
<1> QED BY <1>1, <1>4, EndorsedAreHistories

\* What the network replays was given, for the tree the command read.
LEMMA ReplayIsGiven ==
  ASSUME SyncTypeOK, NEW p \in Syncs, ReadFalseAnswer(p)
  PROVE  \/ at' = at /\ (\E size \in Sizes : Accuse(p, size))
         \/ /\ Goto(p, "record") /\ UNCHANGED remote
            /\ \E time \in Nat : /\ at' = [at EXCEPT ![p] = time]
                                 /\ <<witness[p], local[p], time>> \in Given
<1>1. CASE \E i \in DOMAIN issued[witness[p]] :
             LET old == issued[witness[p]][i]
             IN  /\ old.note = [origin |-> Log, key |-> LogKey, tree |-> local[p]]
                 /\ at' = [at EXCEPT ![p] = old.time]
  <2>1. PICK i \in DOMAIN issued[witness[p]] :
               /\ issued[witness[p]][i].note = [origin |-> Log, key |-> LogKey, tree |-> local[p]]
               /\ at' = [at EXCEPT ![p] = issued[witness[p]][i].time]
    BY <1>1
  <2>2. witness[p] \in Witnesses /\ local[p] \in Trees /\ issued[witness[p]][i] \in Issue
    <3>1. witness[p] \in Witnesses /\ local[p] \in Trees
      BY CommandTypes
    <3>2. issued[witness[p]] \in Seq(Issue)
      BY <3>1 DEF SyncTypeOK, WitnessTypeOK
    <3> QED BY <3>1, <3>2
  <2> DEFINE time == issued[witness[p]][i].time
             g == <<witness[p], local[p], time>>
  <2>3. time \in Nat
    BY <2>2 DEF Issue
  <2>4. g[1] = witness[p] /\ g[2] = local[p] /\ g[3] = time /\ g \in Witnesses \X Trees \X Nat
    BY <2>2, <2>3
  <2>5. /\ issued[g[1]][i].note.origin = Log /\ issued[g[1]][i].note.tree = g[2]
        /\ issued[g[1]][i].time = g[3] /\ i \in DOMAIN issued[g[1]]
    BY <2>1, <2>4
  <2> HIDE DEF g
  <2>6. g \in Given
    BY <2>4, <2>5 DEF Given
  <2> USE DEF g
  <2> QED BY <1>1, <2>1, <2>3, <2>6 DEF ReadFalseAnswer, Goto
<1>2. CASE \E size \in Sizes : Accuse(p, size) /\ UNCHANGED at
  BY <1>2
<1> QED BY <1>1, <1>2 DEF ReadFalseAnswer

-----------------------------------------------------------------------------
(* Type correctness *)

\* Each step keeps the types of what commands remember.
LEMMA CommandTypesStep ==
  ASSUME SyncTypeOK, SyncInv, [SyncNext]_vars
  PROVE  /\ pc' \in [Syncs -> Steps] /\ witness' \in [Syncs -> Witnesses]
         /\ last' \in [Syncs -> Histories \cup {NoNote}] /\ local' \in [Syncs -> Histories]
         /\ remote' \in [Syncs -> Sizes] /\ at' \in [Syncs -> Nat] /\ seen' \in [Syncs -> Trees]
         /\ out' \in [Syncs -> {"none", "failed", "rollback", "attested"}] /\ misled' \subseteq Syncs
<1> DEFINE Typed ==
      /\ pc' \in [Syncs -> Steps] /\ witness' \in [Syncs -> Witnesses]
      /\ last' \in [Syncs -> Histories \cup {NoNote}] /\ local' \in [Syncs -> Histories]
      /\ remote' \in [Syncs -> Sizes] /\ at' \in [Syncs -> Nat] /\ seen' \in [Syncs -> Trees]
      /\ out' \in [Syncs -> {"none", "failed", "rollback", "attested"}] /\ misled' \subseteq Syncs
<1>0. /\ pc \in [Syncs -> Steps] /\ witness \in [Syncs -> Witnesses]
      /\ last \in [Syncs -> Histories \cup {NoNote}] /\ local \in [Syncs -> Histories]
      /\ remote \in [Syncs -> Sizes] /\ at \in [Syncs -> Nat] /\ seen \in [Syncs -> Trees]
      /\ out \in [Syncs -> {"none", "failed", "rollback", "attested"}] /\ misled \subseteq Syncs
      /\ 0..MaxBlocks \subseteq Sizes
      /\ chain \in Histories /\ lastSigned \in Histories \cup {NoNote}
  BY FileFields, BoundsAssumption DEF SyncTypeOK, Sizes
<1>1. ASSUME NEW p \in Syncs, OpenSync(p)
      PROVE  Typed
  <2>1. MemoryOf(witness[p]) \in Trees
    <3>1. memory[<<witness[p], Log>>] \in Note \cup {NoNote}
      BY CommandTypes DEF SyncTypeOK, WitnessTypeOK
    <3>2. << >> \in Histories
      BY BoundsAssumption DEF Histories
    <3>3. << >> \in Trees
      BY <3>2, HistoryIsTree
    <3> QED BY <3>1, <3>3 DEF MemoryOf, Note
  <2> QED BY <1>0, <1>1, <2>1 DEF OpenSync, Goto, Steps, history
<1>2. ASSUME NEW p \in Syncs, ReadLocal(p)
      PROVE  Typed
  BY <1>0, <1>2 DEF ReadLocal, Goto, Steps, history
<1>3. ASSUME NEW p \in Syncs, AskMonitor(p)
      PROVE  Typed
  <2>1. PICK size \in 0..MaxBlocks : RemoteSize(p, size) \/ Accuse(p, size)
    BY <1>3, MonitorNamesGiven
  <2>2. /\ remote' = [remote EXCEPT ![p] = size]
        /\ pc' = [pc EXCEPT ![p] = "accuse"] \/ pc' = [pc EXCEPT ![p] = "sign"]
        /\ UNCHANGED <<witness, last, local, at, seen, out, misled>>
    BY <1>3, <2>1 DEF AskMonitor, RemoteSize, Accuse, Goto, history
  <2> QED BY <1>0, <2>2 DEF Steps
<1>4. ASSUME NEW p \in Syncs, SignCheckpoint(p)
      PROVE  Typed
  <2>1. /\ last' = last \/ last' = [last EXCEPT ![p] = local[p]]
        /\ pc' = [pc EXCEPT ![p] = "ended"] \/ pc' = [pc EXCEPT ![p] = "post"]
        /\ out' = out \/ out' = [out EXCEPT ![p] = "failed"]
        /\ UNCHANGED <<witness, local, remote, at, seen, misled>>
    BY <1>4 DEF SignCheckpoint, Goto, End, history
  <2> QED BY <1>0, <2>1 DEF Steps
<1>5. ASSUME NEW p \in Syncs, ReadAnswer(p)
      PROVE  Typed
  <2>1. \/ remote' = remote
        \/ remote' = [remote EXCEPT ![p] = answer[p].size] /\ answer[p].size \in 0..MaxBlocks
    BY <1>5, ConflictNamesGiven DEF ReadAnswer, Accuse
  <2>2. answer[p].time \in Nat /\ (at' = at \/ at' = [at EXCEPT ![p] = answer[p].time])
    BY <1>5, CommandTypes DEF ReadAnswer, Answers
  <2>3. /\ \E label \in {"record", "accuse", "ended"} : pc' = [pc EXCEPT ![p] = label]
        /\ out' = out \/ out' = [out EXCEPT ![p] = "failed"]
        /\ UNCHANGED <<witness, last, local, seen, misled>>
    BY <1>5 DEF ReadAnswer, Accuse, Goto, End, history
  <2> QED BY <1>0, <2>1, <2>2, <2>3 DEF Steps
<1>51. ASSUME NEW p \in Syncs, ReadFalseAnswer(p)
       PROVE  Typed
  <2>1. remote' = remote \/ \E size \in Sizes : remote' = [remote EXCEPT ![p] = size]
    BY <1>51 DEF ReadFalseAnswer, Accuse
  <2>2. at' = at \/ \E time \in Nat : at' = [at EXCEPT ![p] = time]
    BY <1>51, ReplayIsGiven
  <2>3. /\ \E label \in {"record", "accuse"} : pc' = [pc EXCEPT ![p] = label]
        /\ UNCHANGED <<witness, last, local, seen, out>>
        /\ misled' = misled \cup {p}
    BY <1>51 DEF ReadFalseAnswer, Accuse, Goto
  <2> QED BY <1>0, <2>1, <2>2, <2>3 DEF Steps
<1>6. ASSUME NEW p \in Syncs, NEW label \in Steps,
             NEW result \in {"none", "failed", "rollback", "attested"},
             pc' = [pc EXCEPT ![p] = label],
             out' = out \/ out' = [out EXCEPT ![p] = result], UNCHANGED <<command, misled>>
      PROVE  Typed
  BY <1>0, <1>6 DEF command
<1>7. ASSUME NEW p \in Syncs,
             Post(p) \/ PutRollback(p) \/ RecordCosigned(p) \/ PutCheckpoint(p) \/ ReadRollback(p)
               \/ ClearRollback(p) \/ PutLastCosignature(p) \/ PutLastAttested(p) \/ GiveUp(p)
      PROVE  Typed
  <2>1. /\ \E label \in {"wait", "ended", "put", "resolve", "clear", "cosignature", "attest"} :
             pc' = [pc EXCEPT ![p] = label]
        /\ \E result \in {"failed", "rollback", "attested"} :
             out' = out \/ out' = [out EXCEPT ![p] = result]
        /\ UNCHANGED <<command, misled>>
    BY <1>7 DEF Post, PutRollback, RecordCosigned, PutCheckpoint, ReadRollback, ClearRollback,
                PutLastCosignature, PutLastAttested, GiveUp, Goto, End, history
  <2> QED BY <1>6, <2>1 DEF Steps
<1>8. CASE UNCHANGED <<pc, command, out, misled>>
  BY <1>0, <1>8 DEF command
<1>9. Copy \/ Restore \/ UNCHANGED vars \/ UNCHANGED syncVars
        \/ (\E block \in Blocks : Seal(block)) => UNCHANGED <<pc, command, out, misled>>
  BY DEF Copy, Restore, vars, syncVars, Seal, history
<1> QED BY <1>1, <1>2, <1>3, <1>4, <1>5, <1>51, <1>7, <1>8, <1>9 DEF SyncNext, SyncStep

\* Each step keeps the types.
LEMMA SyncTypeStep ==
  ASSUME SyncTypeOK, SyncInv, [SyncNext]_vars
  PROVE  SyncTypeOK'
<1>1. WitnessTypeOK'
  BY WitnessesAreSent, TypeStep DEF SyncTypeOK
<1> QED BY <1>1, FileStep, CommandTypesStep DEF SyncTypeOK

-----------------------------------------------------------------------------
(* The commands *)

\* A command that does nothing keeps what it asked and knows, while what is given
\* and the file only grow, or the file is put back and it does not run.
LEMMA CommandStays ==
  ASSUME SyncTypeOK, NEW q \in Syncs, Asked(q), Knows(q),
         UNCHANGED <<pc[q], witness[q], last[q], local[q], remote[q], at[q], seen[q], out[q]>>,
         q \in misled' <=> q \in misled,
         UNCHANGED <<hpc[q], req[q], answer[q]>>,
         Given \subseteq Given', EndorsedBy(witness[q]) \subseteq EndorsedBy(witness[q])',
         ~restored' => ~restored,
         Live(q) \/ ~restored' => \A s \in Seq(Blocks) : IsPrefix(s, chain) => IsPrefix(s, chain')
  PROVE  Asked(q)' /\ Knows(q)'
<1>1. local[q] \in Seq(Blocks) /\ (last[q] # NoNote => last[q] \in Seq(Blocks))
  BY CommandTypes, HistoryIsTree
<1>2. Live(q)' = Live(q)
  BY DEF Live
<1>3. \A w, n : HasSize(w, n, Given) => HasSize(w, n, Given')
  BY DEF HasSize
<1>4. Asked(q)'
  BY DEF Asked
<1>5. ~restored' => IsPrefix(local[q], chain')
  BY <1>1 DEF Knows
<1>6. /\ Live(q) /\ last[q] # NoNote => IsPrefix(last[q], chain')
      /\ Live(q) /\ pc[q] # "size" => IsPrefix(local[q], chain')
  BY <1>1 DEF Knows
<1>7. /\ seen[q] \in EndorsedBy(witness[q])' \cup {<< >>}
      /\ Live(q) /\ pc[q] # "size" /\ last[q] # NoNote => IsPrefix(last[q], local[q])
      /\ pc[q] \in {"sign", "post"} => remote[q] <= Len(local[q])
      /\ pc[q] = "accuse" =>
           /\ Len(local[q]) < remote[q]
           /\ q \notin misled => HasSize(witness[q], remote[q], Given')
      /\ pc[q] \in {"record", "put", "resolve", "clear", "cosignature", "attest"}
           \/ out[q] = "attested" =>
           /\ <<witness[q], local[q], at[q]>> \in Given'
           /\ q \notin misled => IsPrefix(seen[q], local[q])
      /\ out[q] # "none" => pc[q] = "ended"
  BY <1>3 DEF Knows
<1>8. Knows(q)'
  BY <1>2, <1>5, <1>6, <1>7 DEF Knows
<1> QED BY <1>4, <1>8

\* The steps that only go on from one write to the next.
LEMMA GoingOn ==
  ASSUME SyncTypeOK, NEW p \in Syncs, Asked(p), Knows(p),
         UNCHANGED <<witnessVars, chain, restored, misled, witness, last, local, remote, at, seen>>,
         \/ /\ pc[p] \in {"record", "put", "resolve", "clear", "cosignature"} /\ UNCHANGED out
            /\ pc'[p] \in {"put", "resolve", "clear", "cosignature", "attest"}
         \/ /\ pc[p] # "new" /\ pc'[p] = "ended"
            /\ out'[p] = "attested" => pc[p] = "attest"
  PROVE  Asked(p)' /\ Knows(p)'
<1>1. Given' = Given /\ \A w \in Witnesses : EndorsedBy(w)' = EndorsedBy(w)
  BY StillGiven DEF witnessVars
<1>2. witness[p] \in Witnesses
  BY CommandTypes
<1>3. EndorsedBy(witness[p])' = EndorsedBy(witness[p])
  BY <1>1, <1>2
<1>4. Asked(p)'
  BY <1>1 DEF Asked, witnessVars, requests
<1>5. Knows(p)'
  BY <1>1, <1>3 DEF Knows, Live, witnessVars, requests
<1> QED BY <1>4, <1>5

\* What the witness remembers was cosigned, unless it is nothing.
LEMMA MemoryIsGiven ==
  ASSUME SyncTypeOK, MemoryIsNewest, NEW w \in Witnesses
  PROVE  /\ MemoryOf(w) \in EndorsedBy(w) \cup {<< >>}
         /\ \A tree \in EndorsedBy(w) : IsPrefix(tree, MemoryOf(w))
<1>1. <<w, Log>> \in Logs
  BY LogAssumption DEF Logs
<1> QED BY <1>1 DEF MemoryIsNewest, MemoryOf, EndorsedBy

\* A command keeps its own part of the invariant: what it reads it reads from a
\* file and of witnesses for which the invariant holds.
LEMMA OwnStep ==
  ASSUME SyncTypeOK, SyncInv, NEW p \in Syncs, SyncStep(p) \/ GiveUp(p)
  PROVE  Asked(p)' /\ Knows(p)'
<1>0. /\ Asked(p) /\ Knows(p) /\ MemoryIsNewest /\ GivenInv /\ IsTrue(File, Given, SpokenFor)
      /\ chain \in Seq(Blocks) /\ WitnessTypeOK
  BY FileFields, HistoryIsTree DEF SyncInv, SyncTypeOK
<1>01. /\ witness[p] \in Witnesses /\ local[p] \in Seq(Blocks) /\ Len(local[p]) \in Nat
       /\ remote[p] \in Nat /\ last[p] \in Histories \cup {NoNote} /\ p \in Handlers
       /\ last[p] # NoNote => last[p] \in Seq(Blocks)
  BY CommandTypes, HistoryIsTree
<1>02. /\ pc \in [Syncs -> Steps] /\ last \in [Syncs -> Histories \cup {NoNote}]
       /\ local \in [Syncs -> Histories] /\ remote \in [Syncs -> Sizes] /\ at \in [Syncs -> Nat]
       /\ seen \in [Syncs -> Trees] /\ out \in [Syncs -> {"none", "failed", "rollback", "attested"}]
       /\ hpc \in [Handlers -> {"idle", "sent", "checked", "answered", "lost"}]
       /\ req \in [Handlers -> Request \cup {NoRequest}]
  BY DEF SyncTypeOK, WitnessTypeOK
<1>1. CASE OpenSync(p)
  <2>1. /\ pc[p] = "new" /\ pc'[p] = "size" /\ last'[p] = lastSigned
        /\ seen'[p] = MemoryOf(witness[p])
        /\ UNCHANGED <<witnessVars, chain, restored, misled, witness, local, remote, at, out>>
    BY <1>1, <1>02 DEF OpenSync, Goto, ledger, history
  <2>2. Given' = Given /\ EndorsedBy(witness[p])' = EndorsedBy(witness[p])
    BY <1>01, <2>1, StillGiven DEF witnessVars
  <2>3. hpc[p] = "idle" /\ UNCHANGED <<hpc[p], answer[p]>>
    BY <1>0, <2>1 DEF Asked, witnessVars, requests
  <2>4. answer[p].kind # "cosigned"
    BY <1>0, <2>3 DEF Asked
  <2>5. Asked(p)'
    BY <1>0, <2>1, <2>3, <2>4 DEF Asked
  <2>6. seen'[p] \in EndorsedBy(witness[p])' \cup {<< >>}
    BY <1>0, <1>01, <2>1, <2>2, MemoryIsGiven
  <2>7. last'[p] # NoNote => IsPrefix(last'[p], chain)
    BY <1>0, <2>1 DEF IsTrue, SignedIsTrue, File
  <2>8. out[p] = "none"
    BY <1>0, <2>1 DEF Knows
  <2>9. Knows(p)'
    BY <1>0, <2>1, <2>2, <2>6, <2>7, <2>8 DEF Knows, Live
  <2> QED BY <2>5, <2>9
<1>2. CASE ReadLocal(p)
  <2>1. /\ pc[p] = "size" /\ pc'[p] = "monitor" /\ local'[p] = chain
        /\ UNCHANGED <<witnessVars, chain, restored, misled, witness, last, remote, at, seen, out>>
    BY <1>2, <1>02 DEF ReadLocal, Goto, ledger, history
  <2>2. Given' = Given /\ EndorsedBy(witness[p])' = EndorsedBy(witness[p])
    BY <1>01, <2>1, StillGiven DEF witnessVars
  <2>3. hpc[p] = "idle" /\ UNCHANGED <<hpc[p], answer[p]>>
    BY <1>0, <2>1 DEF Asked, witnessVars, requests
  <2>4. answer[p].kind # "cosigned"
    BY <1>0, <2>3 DEF Asked
  <2>5. Asked(p)'
    BY <1>0, <2>1, <2>3, <2>4 DEF Asked
  <2>6. IsPrefix(chain, chain) /\ (last[p] # NoNote => IsPrefix(last[p], chain))
    BY <1>0, <2>1, PrefixReflexive DEF Knows, Live
  <2>7. Knows(p)'
    BY <1>0, <2>1, <2>2, <2>3, <2>4, <2>6 DEF Knows, Live
  <2> QED BY <2>5, <2>7
<1>3. CASE AskMonitor(p)
  <2>1. /\ pc[p] = "monitor"
        /\ UNCHANGED <<witnessVars, chain, restored, misled, witness, last, local, at, seen, out>>
        /\ \/ pc'[p] = "sign" /\ remote'[p] <= Len(local[p])
           \/ /\ pc'[p] = "accuse" /\ Len(local[p]) < remote'[p]
              /\ HasSize(witness[p], remote'[p], Given)
    <3>1. PICK size \in 0..MaxBlocks :
            RemoteSize(p, size) \/ (Accuse(p, size) /\ HasSize(witness[p], size, Given))
      BY <1>3, MonitorNamesGiven
    <3>2. size \in Nat
      BY <3>1
    <3>3. RemoteSize(p, size) => pc'[p] = "sign" /\ remote'[p] = size /\ size <= Len(local[p])
      BY <1>02 DEF RemoteSize, Goto
    <3>4. Accuse(p, size) => pc'[p] = "accuse" /\ remote'[p] = size /\ Len(local[p]) < size
      BY <1>01, <1>02, <3>2 DEF Accuse, Goto
    <3> QED BY <1>3, <3>1, <3>3, <3>4 DEF AskMonitor, ledger, history
  <2>2. Given' = Given /\ EndorsedBy(witness[p])' = EndorsedBy(witness[p])
    BY <1>01, <2>1, StillGiven DEF witnessVars
  <2>3. hpc[p] = "idle" /\ UNCHANGED <<hpc[p], answer[p], req[p]>>
    BY <1>0, <2>1 DEF Asked, witnessVars, requests
  <2>4. Asked(p)'
    BY <1>0, <2>1, <2>2, <2>3 DEF Asked
  <2>5. Knows(p)'
    BY <1>0, <2>1, <2>2, <2>3 DEF Knows, Live
  <2> QED BY <2>4, <2>5
<1>4. CASE SignCheckpoint(p)
  <2>1. /\ pc[p] = "sign"
        /\ UNCHANGED <<witnessVars, chain, restored, misled, witness, local, remote, at, seen>>
        /\ \/ pc'[p] = "ended" /\ out'[p] = "failed"
           \/ pc'[p] = "post" /\ last'[p] = local[p] /\ UNCHANGED out
    BY <1>4, <1>02 DEF SignCheckpoint, Goto, End, history
  <2>2. Given' = Given /\ EndorsedBy(witness[p])' = EndorsedBy(witness[p])
    BY <1>01, <2>1, StillGiven DEF witnessVars
  <2>3. hpc[p] = "idle" /\ UNCHANGED <<hpc[p], answer[p], req[p]>>
    BY <1>0, <2>1 DEF Asked, witnessVars, requests
  <2>4. Asked(p)'
    BY <1>0, <2>1, <2>2, <2>3 DEF Asked
  <2>5. IsPrefix(local[p], local[p]) /\ IsPrefix(local[p], chain)
    BY <1>0, <1>01, <2>1, PrefixReflexive DEF Knows, Live
  <2>6. Knows(p)'
    BY <1>0, <2>1, <2>2, <2>3, <2>5 DEF Knows, Live
  <2> QED BY <2>4, <2>6
<1>5. CASE Post(p)
  <2> DEFINE q == [to |-> witness[p], old |-> remote[p], proof |-> Proof(p),
                   note |-> [origin |-> Log, key |-> LogKey, tree |-> local[p]]]
  <2>1. /\ pc[p] = "post" /\ pc'[p] = "wait" /\ hpc[p] = "idle"
        /\ req' = [req EXCEPT ![p] = q]
        /\ UNCHANGED <<issued, answer, chain, restored, misled, witness, last, local,
                       remote, at, seen, out>>
    BY <1>5, <1>02 DEF Post, Send, Goto, ledger, history, command
  <2>2. Given' = Given /\ EndorsedBy(witness[p])' = EndorsedBy(witness[p])
    BY <1>01, <2>1, StillGiven
  <2>3. req'[p] = q
    BY <1>01, <1>02, <2>1
  <2>4. /\ req'[p].to = witness[p] /\ req'[p].old = remote[p] /\ req'[p].proof = Proof(p)
        /\ req'[p].note = [origin |-> Log, key |-> LogKey, tree |-> local[p]]
    BY <2>3
  <2>5. remote[p] <= Len(local[p]) /\ answer[p].kind # "cosigned"
    BY <1>0, <2>1 DEF Knows, Asked
  <2>6. Asked(p)'
    BY <1>0, <2>1, <2>4, <2>5 DEF Asked, Proof
  <2>7. Knows(p)'
    BY <1>0, <2>1, <2>2, <2>5 DEF Knows, Live
  <2> QED BY <2>6, <2>7
<1>6. CASE ReadAnswer(p)
  <2>1. /\ pc[p] = "wait" /\ hpc[p] = "answered"
        /\ UNCHANGED <<witnessVars, chain, restored, misled, witness, last, local, seen>>
    BY <1>6 DEF ReadAnswer, ledger, history
  <2>2. /\ Given' = Given /\ EndorsedBy(witness[p])' = EndorsedBy(witness[p])
        /\ UNCHANGED <<hpc[p], req[p], answer[p]>> /\ out[p] = "none"
    BY <1>0, <1>01, <2>1, StillGiven DEF witnessVars, requests, Knows
  <2>3. CASE /\ answer[p].kind = "cosigned"
             /\ at' = [at EXCEPT ![p] = answer[p].time]
             /\ Goto(p, "record") /\ UNCHANGED <<remote, out>>
    <3>1. pc'[p] = "record" /\ at'[p] = answer[p].time
      BY <1>02, <2>3 DEF Goto
    <3>2. Asked(p)'
      BY <1>0, <2>1, <2>2, <3>1 DEF Asked
    <3>3. <<witness[p], local[p], answer[p].time>> \in Given /\ IsPrefix(seen[p], local[p])
      BY <1>0, <2>3 DEF Asked
    <3>4. Knows(p)'
      BY <1>0, <2>1, <2>2, <2>3, <3>1, <3>3 DEF Knows, Live
    <3> QED BY <3>2, <3>4
  <2>4. CASE answer[p].kind # "cosigned" /\ End(p, "failed") /\ UNCHANGED <<remote, at>>
    <3>1. pc'[p] = "ended" /\ out'[p] = "failed"
      BY <1>02, <2>4 DEF End, Goto
    <3> QED BY <1>0, <2>1, <2>4, <3>1, GoingOn
  <2>5. CASE answer[p].kind = "conflict" /\ Accuse(p, answer[p].size) /\ UNCHANGED <<at, out>>
    <3>1. pc'[p] = "accuse" /\ remote'[p] = answer[p].size /\ answer[p].size > Len(local[p])
      BY <1>02, <2>5 DEF Accuse, Goto
    <3>2. HasSize(witness[p], answer[p].size, Given) /\ answer[p].size \in 0..MaxBlocks
      BY <2>1, <2>5, <3>1, ConflictNamesGiven
    <3>3. Len(local[p]) < remote'[p]
      BY <1>01, <3>1, <3>2
    <3>4. Asked(p)'
      BY <1>0, <2>1, <2>2, <3>1 DEF Asked
    <3>5. Knows(p)'
      BY <1>0, <2>1, <2>2, <2>5, <3>1, <3>2, <3>3 DEF Knows, Live
    <3> QED BY <3>4, <3>5
  <2> QED BY <1>6, <2>3, <2>4, <2>5 DEF ReadAnswer
<1>61. CASE ReadFalseAnswer(p)
  <2>1. /\ pc[p] = "wait" /\ misled' = misled \cup {p}
        /\ UNCHANGED <<witnessVars, chain, restored, witness, last, local, seen, out>>
    BY <1>61 DEF ReadFalseAnswer, ledger
  <2>2. /\ Given' = Given /\ EndorsedBy(witness[p])' = EndorsedBy(witness[p])
        /\ UNCHANGED <<hpc[p], req[p], answer[p]>> /\ out[p] = "none" /\ p \in misled'
    BY <1>0, <1>01, <2>1, StillGiven DEF witnessVars, requests, Knows
  <2>3. \/ pc'[p] = "accuse" /\ Len(local[p]) < remote'[p]
        \/ pc'[p] = "record" /\ <<witness[p], local[p], at'[p]>> \in Given
    <3>1. CASE \E size \in Sizes : Accuse(p, size)
      <4>1. PICK size \in Sizes : Accuse(p, size)
        BY <3>1
      <4>2. size \in Nat
        BY BoundsAssumption DEF Sizes
      <4>3. pc'[p] = "accuse" /\ remote'[p] = size /\ Len(local[p]) < size
        BY <1>01, <1>02, <4>1, <4>2 DEF Accuse, Goto
      <4> QED BY <4>3
    <3>2. CASE /\ Goto(p, "record")
               /\ \E time \in Nat : /\ at' = [at EXCEPT ![p] = time]
                                    /\ <<witness[p], local[p], time>> \in Given
      BY <1>02, <3>2 DEF Goto
    <3> QED BY <1>61, <3>1, <3>2, ReplayIsGiven
  <2>4. Asked(p)'
    BY <1>0, <2>1, <2>2, <2>3 DEF Asked
  <2>5. Knows(p)'
    BY <1>0, <2>1, <2>2, <2>3 DEF Knows, Live
  <2> QED BY <2>4, <2>5
<1>7. CASE PutRollback(p)
  <2>1. /\ pc[p] = "accuse" /\ pc'[p] = "ended" /\ out'[p] = "rollback"
        /\ UNCHANGED <<witnessVars, chain, restored, misled, witness, last, local, remote, at, seen>>
    BY <1>7, <1>02 DEF PutRollback, End, Goto, history, command
  <2> QED BY <1>0, <2>1, GoingOn
<1>8. CASE RecordCosigned(p) \/ PutCheckpoint(p) \/ ReadRollback(p) \/ ClearRollback(p)
             \/ PutLastCosignature(p) \/ PutLastAttested(p)
  <2>1. /\ pc[p] \in {"record", "put", "resolve", "clear", "cosignature", "attest"}
        /\ UNCHANGED <<witnessVars, chain, restored, misled, witness, last, local, remote, at, seen>>
    BY <1>8 DEF RecordCosigned, PutCheckpoint, ReadRollback, ClearRollback, PutLastCosignature,
                PutLastAttested, ledger, history, command
  <2>2. \/ /\ pc[p] \in {"record", "put", "resolve", "clear", "cosignature"} /\ UNCHANGED out
           /\ pc'[p] \in {"put", "resolve", "clear", "cosignature", "attest"}
        \/ pc'[p] = "ended" /\ (out'[p] = "attested" => pc[p] = "attest")
    BY <1>02, <1>8 DEF RecordCosigned, PutCheckpoint, ReadRollback, ClearRollback,
                       PutLastCosignature, PutLastAttested, Goto, End
  <2> QED BY <1>0, <2>1, <2>2, GoingOn
<1>9. CASE GiveUp(p)
  <2>1. /\ pc[p] # "new" /\ pc'[p] = "ended" /\ out'[p] = "failed"
        /\ UNCHANGED <<witnessVars, chain, restored, misled, witness, last, local, remote, at, seen>>
    BY <1>9, <1>02 DEF GiveUp, End, Goto, Live, ledger, history, command
  <2> QED BY <1>0, <2>1, GoingOn
<1> QED BY <1>1, <1>2, <1>3, <1>4, <1>5, <1>6, <1>61, <1>7, <1>8, <1>9 DEF SyncStep

-----------------------------------------------------------------------------
(* The answers of the witnesses *)

\* While the file was never put back, what a witness remembers is a prefix of it,
\* and so is what it is asked to cosign: with the proof the command built, no
\* request is refused as no extension.
LEMMA NothingContradicts ==
  ASSUME SyncTypeOK, SyncInv, NEW p \in Syncs, hpc[p] = "checked", ~restored,
         NEW kept, kept = memory[<<req[p].to, req[p].note.origin>>]
  PROVE  CheckExtension(kept, req[p]) # "unprocessable"
<1> DEFINE q == req[p]
<1>1. /\ Asked(p) /\ Knows(p) /\ MemoryIsNewest /\ GivenInv /\ WitnessTypeOK
      /\ p \in Handlers /\ chain \in Seq(Blocks)
  BY FileFields, HistoryIsTree DEF SyncInv, SyncTypeOK, Syncs
<1>2. /\ witness[p] \in Witnesses /\ local[p] \in Seq(Blocks) /\ Len(local[p]) \in Nat
      /\ <<witness[p], Log>> \in Logs
  BY CommandTypes
<1>3. /\ q.to = witness[p] /\ q.note.origin = Log /\ q.note.tree = local[p]
      /\ q.old <= Len(local[p]) /\ q.old \in Nat
      /\ q.proof = IF 0 < q.old /\ q.old < Len(local[p]) THEN SubSeq(local[p], 1, q.old) ELSE NoProof
  BY <1>1, RequestTypes DEF Asked
<1>4. kept = memory[<<witness[p], Log>>] /\ IsPrefix(local[p], chain)
  BY <1>1, <1>3 DEF Knows
<1> HIDE DEF q
<1>5. CASE q.old = 0
  BY <1>3, <1>5 DEF CheckExtension, q
<1>6. CASE q.old # 0 /\ q.old # Remembered(kept)
  BY <1>6 DEF CheckExtension, q
<1>7. CASE q.old # 0 /\ q.old = Remembered(kept)
  <2>1. kept # NoNote /\ q.old = Len(kept.tree)
    BY <1>7 DEF Remembered
  <2>2. kept.tree \in EndorsedBy(witness[p])
    BY <1>1, <1>2, <1>4, <2>1 DEF MemoryIsNewest, EndorsedBy
  <2>3. kept.tree \in Seq(Blocks) /\ IsPrefix(kept.tree, chain)
    BY <1>1, <1>2, <2>2, EndorsedAreHistories, HistoryIsTree
  <2>4. IsPrefix(kept.tree, local[p]) /\ (q.old = Len(local[p]) => kept.tree = local[p])
    BY <1>1, <1>2, <1>3, <1>4, <2>1, <2>3, PrefixesAgree
  <2>5. kept.tree = SubSeq(local[p], 1, q.old)
    BY <1>2, <2>1, <2>3, <2>4, PrefixIsCut
  <2>6. CASE q.old = Len(local[p])
    BY <1>3, <1>7, <2>4, <2>6 DEF CheckExtension, q
  <2>7. CASE q.old # Len(local[p])
    <3>0. 0 < q.old /\ q.old < Len(local[p])
      <4>1. q.old \in Nat /\ q.old <= Len(local[p]) /\ Len(local[p]) \in Nat
        BY <1>2, <1>3
      <4>2. q.old # 0
        BY <1>7
      <4> QED BY <4>1, <4>2, <2>7
    <3>1. q.proof = kept.tree
      BY <1>3, <2>5, <3>0
    <3> QED BY <1>3, <1>7, <2>4, <2>7, <3>1 DEF CheckExtension, q
  <2> QED BY <2>6, <2>7
<1> QED BY <1>5, <1>6, <1>7

\* A reply is to one request.
LEMMA ReplyMeans ==
  ASSUME WitnessTypeOK, NEW h \in Handlers, NEW a, Reply(h, a)
  PROVE  /\ hpc'[h] = "answered" /\ answer'[h] = a
         /\ \A g \in Handlers : g # h => hpc'[g] = hpc[g] /\ answer'[g] = answer[g]
BY DEF WitnessTypeOK, Reply

\* What a new answer to command p may say.
Says(p, a) ==
  /\ a.kind = "cosigned" =>
       <<witness[p], local[p], a.time>> \in Given' /\ IsPrefix(seen[p], local[p])
  /\ a.kind = "unprocessable" => restored

\* What the witnesses do changes what was asked only by an answer to what was
\* never answered.
LEMMA WitnessAnswers ==
  ASSUME SyncTypeOK, SyncInv, WitnessStep, NEW p \in Syncs
  PROVE  /\ req'[p] = req[p]
         /\ hpc[p] = "idle" <=> hpc'[p] = "idle"
         /\ \/ answer'[p] = answer[p] /\ (hpc[p] = "answered" => hpc'[p] = "answered")
            \/ hpc[p] # "answered" /\ hpc'[p] = "answered" /\ Says(p, answer'[p])
<1> DEFINE Good ==
      /\ req'[p] = req[p]
      /\ hpc[p] = "idle" <=> hpc'[p] = "idle"
      /\ \/ answer'[p] = answer[p] /\ (hpc[p] = "answered" => hpc'[p] = "answered")
         \/ hpc[p] # "answered" /\ hpc'[p] = "answered" /\ Says(p, answer'[p])
<1>0. /\ Asked(p) /\ Knows(p) /\ MemoryIsNewest /\ WitnessTypeOK /\ p \in Handlers
      /\ hpc \in [Handlers -> {"idle", "sent", "checked", "answered", "lost"}]
  BY DEF SyncInv, SyncTypeOK, WitnessTypeOK, Syncs
<1>1. ASSUME NEW w \in Witnesses, NEW c \in Configs, StartWitness(w, c)
      PROVE  Good
  BY <1>1 DEF StartWitness, requests
<1>2. ASSUME NEW w \in Witnesses, StopWitness(w)
      PROVE  Good
  BY <1>0, <1>2 DEF StopWitness
<1>3. ASSUME NEW h \in Handlers, NEW a, Reply(h, a), UNCHANGED req,
             hpc[h] \in {"sent", "checked"}, h = p => Says(p, a)
      PROVE  Good
  BY <1>0, <1>3, ReplyMeans
<1>4. ASSUME NEW h \in Handlers, Receive(h)
      PROVE  Good
  <2>1. hpc[h] = "sent" /\ UNCHANGED req
    BY <1>4 DEF Receive
  <2>2. CASE hpc' = [hpc EXCEPT ![h] = "checked"] /\ UNCHANGED answer
    BY <1>0, <2>1, <2>2
  <2>3. CASE Reply(h, Answer(Screen(req[h]), 0, 0))
    <3>1. Says(p, Answer(Screen(req[h]), 0, 0))
      BY DEF Says, Answer, Screen
    <3> QED BY <1>3, <2>1, <2>3, <3>1
  <2> QED BY <1>4, <2>2, <2>3 DEF Receive
<1>5. ASSUME NEW h \in Handlers, Refuse(h)
      PROVE  Good
  <2> DEFINE kept == memory[<<req[h].to, req[h].note.origin>>]
             verdict == CheckExtension(kept, req[h])
  <2>1. hpc[h] = "checked" /\ UNCHANGED req
    BY <1>5 DEF Refuse
  <2>2. CASE Reply(h, Refusal(verdict, kept))
    <3>1. Refusal(verdict, kept).kind = verdict /\ verdict # "cosigned"
      BY DEF Refusal, Answer, CheckExtension
    <3>2. ASSUME h = p, verdict = "unprocessable"
          PROVE  restored
      BY <2>1, <3>2, NothingContradicts
    <3>3. h = p => Says(p, Refusal(verdict, kept))
      BY <3>1, <3>2 DEF Says
    <3> HIDE DEF verdict, kept
    <3> QED BY <1>3, <2>1, <2>2, <3>3
  <2>3. CASE Reply(h, Answer("clock", 0, 0))
    <3>1. Says(p, Answer("clock", 0, 0))
      BY DEF Says, Answer
    <3> QED BY <1>3, <2>1, <2>3, <3>1
  <2> QED BY <1>5, <2>2, <2>3 DEF Refuse
<1>6. ASSUME NEW h \in Handlers, NEW time \in Times, FailToCommit(h, time)
      PROVE  Good
  <2>1. hpc[h] = "checked" /\ UNCHANGED req /\ Reply(h, Answer("failed", 0, 0))
    BY <1>6 DEF FailToCommit
  <2>2. Says(p, Answer("failed", 0, 0))
    BY DEF Says, Answer
  <2> QED BY <1>3, <2>1, <2>2
<1>7. ASSUME NEW h \in Handlers, NEW time \in Times, Advance(h, time)
      PROVE  Good
  <2> DEFINE a == Answer("cosigned", Len(req[h].note.tree), time)
             r == <<req[h].to, req[h].note.origin>>
  <2>1. hpc[h] = "checked" /\ UNCHANGED req /\ Reply(h, a)
    BY <1>7 DEF Advance
  <2>2. ASSUME h = p
        PROVE  Says(p, a)
    <3>1. /\ Given' = Given \cup {<<witness[p], local[p], time>>}
          /\ req[p].to = witness[p] /\ req[p].note.tree = local[p] /\ req[p].note.origin = Log
      BY <1>0, <1>7, <2>2, CommitGives
    <3>2. /\ CheckExtension(memory[r], req[h]) = "ok" /\ r \in Logs /\ req[h] \in Request
          /\ r = <<witness[p], Log>>
      BY <1>0, <1>7, <2>1, <2>2, <3>1, RequestTypes DEF Advance
    <3>3. \A earlier \in EndorsedBy(witness[p]) : IsPrefix(earlier, local[p])
      BY <1>0, <2>2, <3>1, <3>2, AcceptedContinuesAll DEF EndorsedBy
    <3>4. IsPrefix(<< >>, local[p])
      <4>1. local[p] \in Seq(Blocks)
        BY CommandTypes
      <4>2. << >> \in Seq(Blocks) /\ Len(<< >>) = 0
        OBVIOUS
      <4> QED BY <4>1, <4>2, PrefixReflexive
    <3>5. IsPrefix(seen[p], local[p])
      BY <1>0, <3>3, <3>4 DEF Knows
    <3> QED BY <3>1, <3>5 DEF Says, Answer
  <2> HIDE DEF a
  <2> QED BY <1>3, <2>1, <2>2
<1> QED BY <1>1, <1>2, <1>4, <1>5, <1>6, <1>7 DEF WitnessStep

-----------------------------------------------------------------------------
(* The invariant is kept *)

\* A step of the witnesses keeps what a command asked and knows.
LEMMA HeardStep ==
  ASSUME SyncTypeOK, SyncInv, [SyncNext]_vars, WitnessStep, UNCHANGED syncVars, NEW p \in Syncs
  PROVE  Asked(p)' /\ Knows(p)'
<1>0. /\ Asked(p) /\ Knows(p) /\ Given \subseteq Given'
      /\ witness[p] \in Witnesses /\ <<witness[p], Log>> \in Logs
  BY GivenGrows, CommandTypes DEF SyncInv
<1>1. UNCHANGED <<chain, restored, misled, pc, witness, last, local, remote, at, seen, out>>
  BY DEF syncVars, ledger, history, command
<1>2. /\ req'[p] = req[p]
      /\ hpc[p] = "idle" <=> hpc'[p] = "idle"
      /\ \/ answer'[p] = answer[p] /\ (hpc[p] = "answered" => hpc'[p] = "answered")
         \/ hpc[p] # "answered" /\ hpc'[p] = "answered" /\ Says(p, answer'[p])
  BY WitnessAnswers
<1>3. EndorsedBy(witness[p]) \subseteq EndorsedBy(witness[p])'
  <2>1. [AnyNext]_witnessVars /\ WitnessTypeOK
    BY WitnessesAreSent DEF SyncTypeOK
  <2>2. ASSUME NEW w \in Witnesses
        PROVE  EndorsedBy(w) \subseteq EndorsedBy(w)'
    <3>1. <<w, Log>> \in Logs
      BY LogAssumption DEF Logs
    <3> QED BY <2>1, <3>1, EndorsedGrows DEF EndorsedBy
  <2> QED BY <1>0, <1>1, <2>2
<1>4. \A w, n : HasSize(w, n, Given) => HasSize(w, n, Given')
  BY <1>0 DEF HasSize
<1>5. answer[p].kind = "cosigned" => hpc[p] = "answered"
  BY <1>0 DEF Asked
<1>6. Asked(p)'
  BY <1>0, <1>1, <1>2 DEF Asked, Says
<1>7. Knows(p)'
  BY <1>0, <1>1, <1>2, <1>3, <1>4, <1>5 DEF Knows, Live
<1> QED BY <1>6, <1>7

\* A step of a command touches nothing of another, nor the blocks.
LEMMA OneCommandSteps ==
  ASSUME SyncTypeOK, NEW p \in Syncs, SyncStep(p) \/ GiveUp(p), NEW q \in Syncs, q # p
  PROVE  /\ UNCHANGED <<pc[q], witness[q], last[q], local[q], remote[q], at[q], seen[q], out[q]>>
         /\ q \in misled' <=> q \in misled
         /\ UNCHANGED <<hpc[q], req[q], answer[q]>>
         /\ UNCHANGED <<issued, chain, restored>>
<1>0. /\ pc \in [Syncs -> Steps] /\ last \in [Syncs -> Histories \cup {NoNote}]
      /\ local \in [Syncs -> Histories] /\ remote \in [Syncs -> Sizes] /\ at \in [Syncs -> Nat]
      /\ seen \in [Syncs -> Trees] /\ out \in [Syncs -> {"none", "failed", "rollback", "attested"}]
      /\ hpc \in [Handlers -> {"idle", "sent", "checked", "answered", "lost"}]
      /\ req \in [Handlers -> Request \cup {NoRequest}]
      /\ q \in Handlers /\ p \in Handlers
  BY DEF SyncTypeOK, WitnessTypeOK, Syncs
<1>1. CASE OpenSync(p) \/ ReadLocal(p)
  BY <1>0, <1>1 DEF OpenSync, ReadLocal, Goto, ledger, history, witnessVars, requests
<1>2. CASE AskMonitor(p)
  <2>1. PICK size : RemoteSize(p, size) \/ Accuse(p, size)
    BY <1>2 DEF AskMonitor
  <2>2. remote'[q] = remote[q] /\ pc'[q] = pc[q]
    BY <1>0, <2>1 DEF RemoteSize, Accuse, Goto
  <2> QED BY <1>2, <2>2 DEF AskMonitor, ledger, history, witnessVars, requests
<1>3. CASE SignCheckpoint(p) \/ ReadAnswer(p)
  BY <1>0, <1>3 DEF SignCheckpoint, ReadAnswer, Accuse, Goto, End, ledger, history, witnessVars,
                    requests
<1>31. CASE ReadFalseAnswer(p)
  <2>1. pc'[q] = pc[q] /\ remote'[q] = remote[q] /\ at'[q] = at[q]
    <3>1. CASE \E size \in Sizes : Accuse(p, size) /\ UNCHANGED at
      BY <1>0, <3>1 DEF Accuse, Goto
    <3>2. CASE /\ \E i \in DOMAIN issued[witness[p]] :
                    LET old == issued[witness[p]][i]
                    IN  /\ old.note = [origin |-> Log, key |-> LogKey, tree |-> local[p]]
                        /\ at' = [at EXCEPT ![p] = old.time]
               /\ Goto(p, "record") /\ UNCHANGED remote
      BY <1>0, <3>2 DEF Goto
    <3> QED BY <1>31, <3>1, <3>2 DEF ReadFalseAnswer
  <2> QED BY <1>31, <2>1 DEF ReadFalseAnswer, ledger, witnessVars, requests
<1>4. CASE Post(p)
  BY <1>0, <1>4 DEF Post, Send, Goto, ledger, history, command
<1>5. CASE PutRollback(p) \/ RecordCosigned(p) \/ PutCheckpoint(p) \/ ReadRollback(p)
             \/ ClearRollback(p) \/ PutLastCosignature(p) \/ PutLastAttested(p) \/ GiveUp(p)
  <2>1. UNCHANGED <<witnessVars, chain, restored, misled, command>>
    BY <1>5 DEF PutRollback, RecordCosigned, PutCheckpoint, ReadRollback, ClearRollback,
                PutLastCosignature, PutLastAttested, GiveUp, ledger, history
  <2>2. pc'[q] = pc[q] /\ out'[q] = out[q]
    BY <1>0, <1>5 DEF PutRollback, RecordCosigned, PutCheckpoint, ReadRollback, ClearRollback,
                      PutLastCosignature, PutLastAttested, GiveUp, Goto, End
  <2> QED BY <2>1, <2>2 DEF witnessVars, requests, command
<1> QED BY <1>1, <1>2, <1>3, <1>31, <1>4, <1>5 DEF SyncStep

\* Every command keeps its part, whoever moves.
LEMMA CommandsStep ==
  ASSUME SyncTypeOK, SyncInv, [SyncNext]_vars, NEW q \in Syncs
  PROVE  Asked(q)' /\ Knows(q)'
<1>0. /\ Asked(q) /\ Knows(q) /\ witness[q] \in Witnesses
      /\ chain \in Histories /\ restored \in BOOLEAN
  BY CommandTypes, FileFields DEF SyncInv, SyncTypeOK
<1>1. ASSUME NEW p \in Syncs, SyncStep(p) \/ GiveUp(p)
      PROVE  Asked(q)' /\ Knows(q)'
  <2>1. CASE p = q
    BY <1>1, <2>1, OwnStep
  <2>2. CASE p # q
    <3>1. /\ UNCHANGED <<pc[q], witness[q], last[q], local[q], remote[q], at[q], seen[q], out[q]>>
          /\ q \in misled' <=> q \in misled
          /\ UNCHANGED <<hpc[q], req[q], answer[q]>>
          /\ UNCHANGED <<issued, chain, restored>>
      BY <1>1, <2>2, OneCommandSteps
    <3>2. Given' = Given /\ EndorsedBy(witness[q])' = EndorsedBy(witness[q])
      BY <1>0, <3>1, StillGiven DEF EndorsedBy, Endorsed
    <3> QED BY <1>0, <3>1, <3>2, CommandStays
  <2> QED BY <2>1, <2>2
<1>2. ASSUME UNCHANGED <<witnessVars, pc, command, out, misled>>, ~restored' => ~restored,
             Live(q) \/ ~restored' =>
               \A s \in Seq(Blocks) : IsPrefix(s, chain) => IsPrefix(s, chain')
      PROVE  Asked(q)' /\ Knows(q)'
  <2>1. /\ UNCHANGED <<pc[q], witness[q], last[q], local[q], remote[q], at[q], seen[q], out[q]>>
        /\ q \in misled' <=> q \in misled
        /\ UNCHANGED <<hpc[q], req[q], answer[q]>>
    BY <1>2 DEF witnessVars, requests, command
  <2>2. Given' = Given /\ EndorsedBy(witness[q])' = EndorsedBy(witness[q])
    BY <1>0, <1>2, StillGiven DEF witnessVars, EndorsedBy, Endorsed, command
  <2> QED BY <1>0, <1>2, <2>1, <2>2, CommandStays
<1>3. ASSUME NEW block \in Blocks, Seal(block)
      PROVE  Asked(q)' /\ Knows(q)'
  <2>1. \A s \in Seq(Blocks) : IsPrefix(s, chain) => IsPrefix(s, chain')
    BY <1>0, <1>3, SealKeepsPrefixes DEF Seal
  <2>2. UNCHANGED <<witnessVars, pc, command, out, restored, misled>>
    BY <1>3 DEF Seal, history
  <2> QED BY <1>2, <2>1, <2>2
<1>4. CASE Copy
  BY <1>2, <1>4 DEF Copy, ledger
<1>5. CASE Restore
  <2>1. UNCHANGED <<witnessVars, pc, command, out, misled>> /\ restored' = TRUE /\ ~Live(q)
    BY <1>5 DEF Restore
  <2> QED BY <1>2, <2>1
<1>6. CASE WitnessStep /\ UNCHANGED syncVars
  BY <1>6, HeardStep
<1>7. CASE UNCHANGED vars
  BY <1>2, <1>7 DEF vars, syncVars, ledger, history
<1> QED BY <1>1, <1>3, <1>4, <1>5, <1>6, <1>7 DEF SyncNext

\* What is cosigned was in the file.
LEMMA GivenStep ==
  ASSUME SyncTypeOK, SyncInv, [SyncNext]_vars
  PROVE  GivenInv'
<1>0. /\ GivenInv /\ chain \in Histories /\ restored \in BOOLEAN
  BY FileFields DEF SyncInv, SyncTypeOK
<1>1. \A g \in Given : g[2] \in Seq(Blocks)
  BY <1>0, HistoryIsTree DEF GivenInv
<1>2. ASSUME UNCHANGED issued, ~restored' => ~restored,
             ~restored' => \A s \in Seq(Blocks) : IsPrefix(s, chain) => IsPrefix(s, chain')
      PROVE  GivenInv'
  <2>1. Given' = Given
    BY <1>2, StillGiven
  <2> QED BY <1>0, <1>1, <1>2, <2>1 DEF GivenInv
<1>3. ASSUME NEW p \in Syncs, NEW time \in Times, Advance(p, time), UNCHANGED syncVars
      PROVE  GivenInv'
  <2>1. Asked(p) /\ Knows(p) /\ local[p] \in Histories
    BY CommandTypes DEF SyncInv
  <2>2. Given' = Given \cup {<<witness[p], local[p], time>>}
    BY <1>3, <2>1, CommitGives
  <2>3. ~restored => IsPrefix(local[p], chain)
    BY <2>1 DEF Knows
  <2>4. UNCHANGED <<restored, chain>>
    BY <1>3 DEF syncVars, history, ledger
  <2> QED BY <1>0, <2>1, <2>2, <2>3, <2>4 DEF GivenInv
<1>4. CASE WitnessStep /\ UNCHANGED syncVars
  <2>1. [AnyNext]_witnessVars
    BY <1>4 DEF AnyNext
  <2>2. UNCHANGED <<restored, chain>>
    BY <1>4 DEF syncVars, history, ledger
  <2> QED BY <1>2, <1>3, <1>4, <2>1, <2>2, OnlyAdvanceWrites DEF Syncs
<1>5. ASSUME NEW p \in Syncs, SyncStep(p) \/ GiveUp(p)
      PROVE  GivenInv'
  <2>1. UNCHANGED <<issued, chain, restored>>
    <3>1. CASE Post(p)
      BY <3>1 DEF Post, Send, ledger, history
    <3>2. CASE Writes(p)
      BY <3>2, WriteStep DEF Writes, SignCheckpoint, PutRollback, PutCheckpoint, ClearRollback,
                  PutLastCosignature, PutLastAttested, witnessVars, history
    <3>3. CASE ~Writes(p) /\ ~Post(p)
      BY <1>5, <3>3 DEF Writes, SyncStep, GiveUp, OpenSync, ReadLocal, AskMonitor, ReadAnswer,
              ReadFalseAnswer,
              RecordCosigned, ReadRollback, witnessVars, ledger, history
    <3> QED BY <3>1, <3>2, <3>3
  <2> QED BY <1>2, <2>1
<1>6. ASSUME NEW block \in Blocks, Seal(block)
      PROVE  GivenInv'
  <2>1. \A s \in Seq(Blocks) : IsPrefix(s, chain) => IsPrefix(s, chain')
    BY <1>0, <1>6, SealKeepsPrefixes DEF Seal
  <2> QED BY <1>2, <1>6, <2>1 DEF Seal, history, witnessVars
<1>7. CASE Copy
  BY <1>2, <1>7 DEF Copy, ledger, witnessVars
<1>8. CASE Restore
  BY <1>2, <1>8 DEF Restore, witnessVars
<1>9. CASE UNCHANGED vars
  BY <1>2, <1>9 DEF vars, syncVars, ledger, history, witnessVars
<1> QED BY <1>4, <1>5, <1>6, <1>7, <1>8, <1>9 DEF SyncNext

\* The invariant is inductive.
LEMMA SyncInvStep ==
  ASSUME SyncTypeOK, SyncInv, [SyncNext]_vars
  PROVE  SyncInv'
<1>1. [AnyNext]_witnessVars /\ WitnessTypeOK /\ MemoryIsNewest /\ ConflictInv
      /\ ConflictsCanBeFollowed
  BY WitnessesAreSent DEF SyncInv, SyncTypeOK
<1>2. MemoryIsNewest' /\ ConflictInv' /\ ConflictsCanBeFollowed'
  BY <1>1, NewestStep, ConflictStep
<1>3. /\ IsTrue(File', Given', SpokenFor')
      /\ copy' # NoRecord => IsTrue(copy', Given', SpokenFor')
  BY FileStep
<1> QED BY <1>2, <1>3, GivenStep, CommandsStep DEF SyncInv

-----------------------------------------------------------------------------
(* The theorems *)

\* At the start nothing was said and nothing is kept.
LEMMA SyncStart ==
  ASSUME SyncInit
  PROVE  SyncTypeOK /\ SyncInv
<1>1. WitnessTypeOK
  BY DEF SyncInit, WitnessInit, WitnessTypeOK, NoAnswer, Answer, Kinds
<1>2. << >> \in Histories /\ << >> \in Trees
  <2>1. << >> \in Histories
    BY BoundsAssumption DEF Histories
  <2> QED BY <2>1, HistoryIsTree
<1>3. File \in LedgerFile
  BY <1>2 DEF SyncInit, File, LedgerFile
<1>4. SyncTypeOK
  <2>2. remote \in [Syncs -> Sizes] /\ at \in [Syncs -> Nat]
    BY BoundsAssumption DEF SyncInit, Sizes
  <2>3. local \in [Syncs -> Histories] /\ seen \in [Syncs -> Trees]
        /\ last \in [Syncs -> Histories \cup {NoNote}]
    BY <1>2 DEF SyncInit
  <2>4. /\ pc \in [Syncs -> Steps] /\ witness \in [Syncs -> Witnesses]
        /\ out \in [Syncs -> {"none", "failed", "rollback", "attested"}]
        /\ restored \in BOOLEAN /\ misled \subseteq Syncs /\ copy = NoRecord
    BY DEF SyncInit, Steps
  <2> QED BY <1>1, <1>3, <2>2, <2>3, <2>4 DEF SyncTypeOK
<1>5. Given = {}
  BY DEF SyncInit, WitnessInit, Given
<1>6. MemoryIsNewest /\ ConflictInv /\ ConflictsCanBeFollowed
  BY DEF SyncInit, WitnessInit, MemoryIsNewest, Endorsed, Logs, ConflictInv,
         ConflictsCanBeFollowed, NoAnswer, Answer
<1>7. IsTrue(File, Given, SpokenFor)
  BY DEF SyncInit, IsTrue, File, SignedIsTrue, RecordIsTrue, NotesAreTrue, NoteIsTrue,
         AttestationIsTrue
<1>8. ASSUME NEW p \in Syncs
      PROVE  Asked(p) /\ Knows(p)
  <2>1. /\ pc[p] = "new" /\ hpc[p] = "idle" /\ answer[p].kind = "none" /\ local[p] = << >>
        /\ seen[p] = << >> /\ out[p] = "none" /\ chain = << >>
    BY <1>8 DEF SyncInit, WitnessInit, NoAnswer, Answer, Syncs
  <2>2. IsPrefix(local[p], chain)
    BY <1>2, <2>1, HistoryIsTree, PrefixReflexive
  <2> QED BY <2>1, <2>2 DEF Asked, Knows, Live
<1>9. copy = NoRecord
  BY DEF SyncInit
<1> QED BY <1>4, <1>5, <1>6, <1>7, <1>8, <1>9 DEF SyncInv, GivenInv

\* The types and the invariant hold throughout, for every value of the constants.
THEOREM SyncInvariant == SyncSpec => [](SyncTypeOK /\ SyncInv)
<1>1. SyncInit => SyncTypeOK /\ SyncInv
  BY SyncStart
<1>2. SyncTypeOK /\ SyncInv /\ [SyncNext]_vars => (SyncTypeOK /\ SyncInv)'
  BY SyncTypeStep, SyncInvStep
<1> QED BY <1>1, <1>2, PTL DEF SyncSpec

\* SyncTypeOK for every value of the constants.
THEOREM SyncTypeCorrect == SyncSpec => []SyncTypeOK
BY SyncInvariant, PTL

\* AttestedCoversTheWitness for every value of the constants: whatever the
\* monitoring prefix replays, a tree is attested only by a cosignature of it, and by
\* one that was checked against all that the witness remembers unless the network
\* replayed the answer.
THEOREM AttestedStaysCovering == SyncSpec => []AttestedCoversTheWitness
<1>1. SyncTypeOK /\ SyncInv => AttestedCoversTheWitness
  <2> SUFFICES ASSUME SyncTypeOK, SyncInv, NEW p \in Syncs, out[p] = "attested"
               PROVE  /\ p \notin misled => IsPrefix(seen[p], local[p])
                      /\ local[p] \in EndorsedBy(witness[p])
                      /\ IsPrefix(local[p], MemoryOf(witness[p]))
    BY DEF AttestedCoversTheWitness
  <2>1. Knows(p) /\ MemoryIsNewest /\ WitnessTypeOK /\ witness[p] \in Witnesses
    BY CommandTypes DEF SyncInv, SyncTypeOK
  <2>2. /\ p \notin misled => IsPrefix(seen[p], local[p])
        /\ <<witness[p], local[p], at[p]>> \in Given
    BY <2>1 DEF Knows
  <2>3. local[p] \in EndorsedBy(witness[p])
    BY <2>1, <2>2, GivenMeans
  <2> QED BY <2>1, <2>2, <2>3, MemoryIsGiven
<1> QED BY <1>1, SyncInvariant, PTL

\* EvidenceIsIssued for every value of the constants: wherever a command dies, and
\* whatever copy is put back, what is left was issued for the blocks beside it.
THEOREM EvidenceStaysIssued == SyncSpec => []EvidenceIsIssued
<1>1. SyncTypeOK /\ SyncInv => EvidenceIsIssued
  <2> SUFFICES ASSUME SyncTypeOK, SyncInv
               PROVE  EvidenceIsIssued
    OBVIOUS
  <2>1. /\ WitnessTypeOK
        /\ checkpoints \in [0..MaxBlocks -> Cosigned \cup {NoNote}]
        /\ lastCosignature \in Cosigned \cup {NoNote}
        /\ lastAttested \in Attestation \cup {NoRecord}
        /\ NotesAreTrue(checkpoints, chain, Given) /\ NoteIsTrue(lastCosignature, chain, Given)
        /\ AttestationIsTrue(lastAttested, chain, Given)
    BY FileFields DEF SyncTypeOK, SyncInv, IsTrue, File
  <2>2. ASSUME NEW c \in Cosigned, Backed(c, chain, Given)
        PROVE  IssuedBy(c.witness, c.tree, c.time) /\ IsPrefix(c.tree, chain)
    <3>1. c.witness \in Witnesses
      BY DEF Cosigned
    <3> QED BY <2>1, <2>2, <3>1, GivenMeans DEF Backed
  <2>3. \A n \in 0..MaxBlocks : checkpoints[n] # NoNote =>
          /\ checkpoints[n] \in Cosigned /\ Backed(checkpoints[n], chain, Given)
          /\ Len(checkpoints[n].tree) = n
    BY <2>1 DEF NotesAreTrue
  <2>4. lastCosignature # NoNote =>
          lastCosignature \in Cosigned /\ Backed(lastCosignature, chain, Given)
    BY <2>1 DEF NoteIsTrue
  <2>5. ASSUME NEW c \in ({checkpoints[n] : n \in 0..MaxBlocks} \cup {lastCosignature}) \ {NoNote}
        PROVE  IssuedBy(c.witness, c.tree, c.time) /\ IsPrefix(c.tree, chain)
    <3>1. c \in Cosigned /\ Backed(c, chain, Given)
      BY <2>3, <2>4, <2>5
    <3> QED BY <2>2, <3>1
  <2>6. ASSUME lastAttested # NoRecord
        PROVE  /\ lastAttested.size <= Len(chain)
               /\ IssuedBy(lastAttested.witness, SubSeq(chain, 1, lastAttested.size),
                           lastAttested.time)
    <3>1. lastAttested.witness \in Witnesses
      BY <2>1, <2>6 DEF Attestation
    <3> QED BY <2>1, <2>6, <3>1, GivenMeans DEF AttestationIsTrue
  <2> QED BY <2>3, <2>5, <2>6 DEF EvidenceIsIssued
<1> QED BY <1>1, SyncInvariant, PTL

\* RollbackRecordIsTrue for every value of the constants: what a witness is said to
\* have seen it did cosign, unless the network spoke for it, and a file that was
\* never put back has all those blocks.
THEOREM RollbackRecordStaysTrue == SyncSpec => []RollbackRecordIsTrue
<1>1. SyncTypeOK /\ SyncInv => RollbackRecordIsTrue
  <2> SUFFICES ASSUME SyncTypeOK, SyncInv, rollback # NoRecord
               PROVE  /\ rollback.local < rollback.size
                      /\ rollback.witness \notin SpokenFor =>
                           /\ \E tree \in EndorsedBy(rollback.witness) : Len(tree) = rollback.size
                           /\ ~restored => rollback.size <= Len(chain)
    BY DEF RollbackRecordIsTrue
  <2>1. /\ WitnessTypeOK /\ GivenInv /\ rollback \in RollbackRecord
        /\ RecordIsTrue(rollback, Given, SpokenFor) /\ chain \in Seq(Blocks)
    BY FileFields, HistoryIsTree DEF SyncTypeOK, SyncInv, IsTrue, File
  <2>2. rollback.local < rollback.size
    BY <2>1 DEF RecordIsTrue
  <2>3. ASSUME rollback.witness \notin SpokenFor
        PROVE  /\ \E tree \in EndorsedBy(rollback.witness) : Len(tree) = rollback.size
               /\ ~restored => rollback.size <= Len(chain)
    <3>1. PICK g \in Given : g[1] = rollback.witness /\ Len(g[2]) = rollback.size
      BY <2>1, <2>3 DEF RecordIsTrue, HasSize
    <3>2. g = <<rollback.witness, g[2], g[3]>> /\ rollback.witness \in Witnesses
      BY <2>1, <3>1 DEF Given, RollbackRecord
    <3>3. g[2] \in EndorsedBy(rollback.witness)
      BY <2>1, <3>1, <3>2, GivenMeans
    <3>4. g[2] \in Seq(Blocks) /\ (~restored => IsPrefix(g[2], chain))
      BY <2>1, <3>1, HistoryIsTree DEF GivenInv
    <3>5. ~restored => Len(g[2]) <= Len(chain)
      BY <2>1, <3>4, PrefixIsCut
    <3> QED BY <3>1, <3>3, <3>5
  <2> QED BY <2>2, <2>3
<1> QED BY <1>1, SyncInvariant, PTL

\* RefusalMeansFork for every value of the constants: an honest file meets no 422
\* and is never refused by its own lock.
THEOREM RefusalsMeanForks == SyncSpec => []RefusalMeansFork
<1>1. SyncTypeOK /\ SyncInv => RefusalMeansFork
  <2> SUFFICES ASSUME SyncTypeOK, SyncInv
               PROVE  RefusalMeansFork
    OBVIOUS
  <2>1. \A p \in Syncs : answer[p].kind = "unprocessable" => restored
    BY DEF SyncInv, Asked
  <2>2. lastSigned # NoNote => IsPrefix(lastSigned, chain)
    BY DEF SyncInv, IsTrue, SignedIsTrue, File
  <2>3. ASSUME NEW p \in Syncs, pc[p] = "sign", Contradicts(last[p], local[p])
        PROVE  FALSE
    <3>1. /\ last[p] # NoNote /\ Len(local[p]) <= Len(last[p]) /\ local[p] # last[p]
      BY <2>3 DEF Contradicts
    <3>2. IsPrefix(last[p], local[p])
      BY <2>3, <3>1 DEF SyncInv, Knows, Live
    <3>3. local[p] \in Seq(Blocks) /\ last[p] \in Seq(Blocks)
      BY <3>1, CommandTypes, HistoryIsTree
    <3>4. Len(last[p]) = Len(local[p]) /\ last[p] = SubSeq(local[p], 1, Len(last[p]))
      BY <3>1, <3>2, <3>3, PrefixIsCut
    <3>5. SubSeq(local[p], 1, Len(local[p])) = local[p]
      BY <3>3
    <3> QED BY <3>1, <3>4, <3>5
  <2> QED BY <2>1, <2>2, <2>3 DEF RefusalMeansFork
<1> QED BY <1>1, SyncInvariant, PTL

\* CheckpointsAreAppendOnly for every value of the constants: of two commands that
\* both found no note of a size, the second does not replace the first.
THEOREM CheckpointsStayAppendOnly == SyncSpec => CheckpointsAreAppendOnly
<1>1. SyncTypeOK /\ [SyncNext]_vars =>
        [restored' = restored => \A n \in 0..MaxBlocks :
           checkpoints[n] # NoNote => checkpoints'[n] = checkpoints[n]]_vars
  <2> SUFFICES ASSUME SyncTypeOK, [SyncNext]_vars, restored' = restored,
                      NEW n \in 0..MaxBlocks, checkpoints[n] # NoNote
               PROVE  checkpoints'[n] = checkpoints[n]
    OBVIOUS
  <2>1. CASE UNCHANGED checkpoints
    BY <2>1
  <2>2. ASSUME NEW p \in Syncs, PutCheckpoint(p)
        PROVE  checkpoints'[n] = checkpoints[n]
    <3>1. checkpoints \in [0..MaxBlocks -> Cosigned \cup {NoNote}] /\ Len(local[p]) \in 0..MaxBlocks
      BY FileFields, CommandTypes DEF SyncTypeOK
    <3>2. \/ checkpoints' = checkpoints
          \/ /\ checkpoints[Len(local[p])] \in {NoNote, Obtained(p)}
             /\ checkpoints' = [checkpoints EXCEPT ![Len(local[p])] = Obtained(p)]
      BY <2>2 DEF PutCheckpoint
    <3> QED BY <3>1, <3>2
  <2>3. ~Restore
    BY DEF Restore
  <2>4. ASSUME NEW p \in Syncs, SyncStep(p) \/ GiveUp(p), ~PutCheckpoint(p)
        PROVE  UNCHANGED checkpoints
    BY <2>4 DEF SyncStep, GiveUp, OpenSync, ReadLocal, AskMonitor, SignCheckpoint, Post, ReadAnswer,
                ReadFalseAnswer, PutRollback, RecordCosigned, ReadRollback, ClearRollback, PutLastCosignature,
                PutLastAttested, ledger, evidence
  <2>5. Copy \/ UNCHANGED vars \/ UNCHANGED syncVars \/ (\E block \in Blocks : Seal(block))
          => UNCHANGED checkpoints
    BY DEF Copy, Seal, vars, syncVars, ledger, evidence
  <2> QED BY <2>1, <2>2, <2>3, <2>4, <2>5 DEF SyncNext
<1> QED BY <1>1, SyncTypeCorrect, PTL DEF SyncSpec, CheckpointsAreAppendOnly

=============================================================================
