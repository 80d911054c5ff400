----------------------------- MODULE AlarmsProofs -----------------------------
(***************************************************************************)
(* Proofs about module Alarms, for any number of commands at once, blocks,   *)
(* thresholds and clock readings.                                           *)
(***************************************************************************)
EXTENDS Alarms, TLAPS

-----------------------------------------------------------------------------
(* The invariant *)

IssuedTimes == {c.at : c \in issued}
Verdicts == [vieja: BOOLEAN, future: BOOLEAN]

\* What a command believes attested was issued.
Sourced ==
  \A p \in Procs :
    /\ res[p].at \in IssuedTimes \cup {Never}
    /\ pc[p] \in {"age", "cosignature", "attested"} => res[p] \in issued

HasJudged(p, step) ==
  \/ step \in {"alarm", "write", "cosignature", "attested", "close"}
  \/ step = "lee" /\ p \in Syncs

\* Who may close the alarm has judged a cosignature within the threshold.
Grounded == \A p \in Procs : HasJudged(p, pc[p]) /\ ~st[p].vieja => backed[p]

AlarmInv == TypeOK /\ Sourced /\ Grounded

-----------------------------------------------------------------------------
(* Freshness *)

\* A cosignature has a size and a time.
LEMMA IssuedIsSized ==
  ASSUME TypeOK, NEW c \in issued
  PROVE  c \in Sized /\ c.at \in IssuedTimes /\ c.at \in {Never} \cup Times
<1>1. c \in Sized
  BY DEF TypeOK
<1> QED BY <1>1 DEF Sized, IssuedTimes

\* What the opening says was attested was issued.
LEMMA OpenedIsSourced ==
  ASSUME TypeOK
  PROVE  Opened \in Sized /\ Opened.at \in IssuedTimes \cup {Never}
<1>1. UltimoContacto \in IssuedTimes \cup {Never}
  BY IssuedIsSized DEF TypeOK, UltimoContacto, Nothing
<1>2. ASSUME NEW n \in 0..MaxBlocks, LastCosigned(n)
      PROVE  checkpoints[n] \in IssuedTimes
  <2>1. [size |-> n, at |-> checkpoints[n]] \in issued
    BY <1>2 DEF TypeOK, LastCosigned
  <2> QED BY <2>1 DEF IssuedTimes
<1>3. Opened.at \in IssuedTimes \cup {Never}
  <2>1. CASE withPolicy /\ \E n \in 0..MaxBlocks : LastCosigned(n)
    <3> DEFINE n == CHOOSE m \in 0..MaxBlocks : LastCosigned(m)
    <3>1. n \in 0..MaxBlocks /\ LastCosigned(n)
      BY <2>1
    <3>2. checkpoints[n] \in IssuedTimes
      BY <3>1, <1>2
    <3>3. Opened.at = Later(checkpoints[n], UltimoContacto)
      BY <2>1 DEF Opened
    <3> QED BY <3>2, <3>3, <1>1 DEF Later
  <2>2. CASE ~(withPolicy /\ \E n \in 0..MaxBlocks : LastCosigned(n))
    BY <2>2 DEF Opened
  <2> QED BY <2>1, <2>2
<1>4. Opened.at \in {Never} \cup Times
  BY <1>3, IssuedIsSized DEF IssuedTimes
<1>5. Opened = [size |-> blocks, at |-> Opened.at] /\ blocks \in 0..MaxBlocks
  BY DEF Opened, TypeOK
<1> QED BY <1>3, <1>4, <1>5 DEF Sized

\* An attestation that is not stale is a cosignature within the threshold.
LEMMA VerdictIsGrounded ==
  ASSUME TypeOK, Sourced, NEW p \in Procs
  PROVE  /\ CheckStaleness(res[p]) \in Verdicts
         /\ ~CheckStaleness(res[p]).vieja => Backed(res[p].size)
<1> DEFINE at == AttestedAt(res[p])
<1>1. at \in IssuedTimes \cup {Never}
  <2>1. res[p].at \in IssuedTimes \cup {Never}
    BY DEF Sourced
  <2>2. lastAttested \in IssuedTimes \cup {Never}
    BY DEF TypeOK, IssuedTimes
  <2> QED BY <2>1, <2>2 DEF AttestedAt
<1>2. CheckStaleness(res[p]) =
        [vieja |-> res[p].size # 0 /\ (at = Never \/ now - at > StaleAfter),
         future |-> at > now]
  BY DEF CheckStaleness
<1>3. ASSUME ~(res[p].size # 0 /\ (at = Never \/ now - at > StaleAfter))
      PROVE  Backed(res[p].size)
  <2>1. CASE res[p].size = 0
    BY <2>1 DEF Backed
  <2>2. CASE at # Never /\ ~(now - at > StaleAfter)
    <3>1. PICK c \in issued : c.at = at
      BY <2>2, <1>1 DEF IssuedTimes
    <3>2. at \in Int /\ now \in Int /\ StaleAfter \in Int
      BY <3>1, IssuedIsSized, StaleAfterAssumption, AlarmBoundsAssumption
      DEF TypeOK, Times, Never
    <3>3. now - c.at <= StaleAfter
      BY <3>1, <3>2, <2>2
    <3> QED BY <3>3 DEF Backed
  <2> QED BY <1>3, <2>1, <2>2
<1>4. CheckStaleness(res[p]) \in Verdicts
  <2>1. (res[p].size # 0 /\ (at = Never \/ now - at > StaleAfter)) \in BOOLEAN
        /\ (at > now) \in BOOLEAN
    OBVIOUS
  <2> HIDE DEF at
  <2> QED BY <2>1, <1>2 DEF Verdicts
<1>5. CheckStaleness(res[p]).vieja
        = (res[p].size # 0 /\ (at = Never \/ now - at > StaleAfter))
  BY <1>2
<1> QED BY <1>3, <1>4, <1>5

-----------------------------------------------------------------------------
(* Types, by parts *)

WorldOK ==
  /\ blocks \in 0..MaxBlocks
  /\ checkpoints \in [0..MaxBlocks -> {Never} \cup Times]
  /\ \A n \in 0..MaxBlocks :
       checkpoints[n] = Never \/ [size |-> n, at |-> checkpoints[n]] \in issued
  /\ lastCosignature \in issued \cup {Nothing}
  /\ lastAttested \in IssuedTimes \cup {Never}
  /\ alarm \in Alarm
  /\ now \in 1..MaxTime
  /\ issued \subseteq Sized
  /\ skew \in 0..MaxSkew
  /\ withPolicy \in BOOLEAN

CommandsOK ==
  /\ pc \in [Procs -> Steps]
  /\ res \in [Procs -> Sized]
  /\ st \in [Procs -> Verdicts]
  /\ previa \in [Procs -> Alarm]
  /\ backed \in [Procs -> BOOLEAN]

\* The types of the world and those of the commands.
LEMMA TypeParts == TypeOK <=> WorldOK /\ CommandsOK
BY DEF TypeOK, WorldOK, CommandsOK, IssuedTimes, Verdicts

\* Only command p moves.
Moves(p) ==
  /\ pc' = [pc EXCEPT ![p] = pc'[p]]
  /\ res' = [res EXCEPT ![p] = res'[p]]
  /\ st' = [st EXCEPT ![p] = st'[p]]
  /\ previa' = [previa EXCEPT ![p] = previa'[p]]
  /\ backed' = [backed EXCEPT ![p] = backed'[p]]

\* The memory of command p is as it has to be.
CommandOK(p) ==
  /\ pc[p] \in Steps /\ res[p] \in Sized /\ st[p] \in Verdicts
  /\ previa[p] \in Alarm /\ backed[p] \in BOOLEAN
  /\ res[p].at \in IssuedTimes \cup {Never}
  /\ pc[p] \in {"age", "cosignature", "attested"} => res[p] \in issued
  /\ HasJudged(p, pc[p]) /\ ~st[p].vieja => backed[p]

\* The invariant speaks of one command at a time.
LEMMA CommandByCommand ==
  ASSUME AlarmInv
  PROVE  WorldOK /\ CommandsOK /\ \A p \in Procs : CommandOK(p)
<1>1. WorldOK /\ CommandsOK
  BY TypeParts DEF AlarmInv
<1>2. ASSUME NEW p \in Procs
      PROVE  CommandOK(p)
  BY <1>1 DEF AlarmInv, CommandsOK, Sourced, Grounded, CommandOK
<1> QED BY <1>1, <1>2

\* One command moves, to values that are right, and nothing issued is lost.
LEMMA OneCommandMoves ==
  ASSUME AlarmInv, NEW p \in Procs, Moves(p), WorldOK', CommandOK(p)',
         issued \subseteq issued'
  PROVE  AlarmInv'
<1>1. CommandsOK /\ \A q \in Procs : CommandOK(q)
  BY CommandByCommand
<1>2. CommandsOK'
  BY <1>1 DEF Moves, CommandsOK, CommandOK
<1>3. IssuedTimes \subseteq IssuedTimes'
  BY DEF IssuedTimes
<1>4. ASSUME NEW q \in Procs
      PROVE  CommandOK(q)'
  <2>1. CASE q = p
    BY <2>1
  <2>2. CASE q # p
    <3>1. /\ pc'[q] = pc[q] /\ res'[q] = res[q] /\ st'[q] = st[q]
          /\ previa'[q] = previa[q] /\ backed'[q] = backed[q]
      BY <2>2, <1>1 DEF Moves, CommandsOK
    <3>2. CommandOK(q)
      BY <1>1
    <3> QED BY <3>1, <3>2, <1>3 DEF CommandOK, HasJudged
  <2> QED BY <2>1, <2>2
<1>5. Sourced' /\ Grounded'
  BY <1>4 DEF CommandOK, Sourced, Grounded
<1>6. TypeOK'
  BY <1>2, TypeParts, PTL
<1> QED BY <1>5, <1>6 DEF AlarmInv

-----------------------------------------------------------------------------
(* The steps *)

\* A step that leaves the file, the clock and the witness alone.
LEMMA WorldStays ==
  ASSUME WorldOK, UNCHANGED <<file, world>>
  PROVE  WorldOK' /\ IssuedTimes' = IssuedTimes /\ issued' = issued
BY DEF WorldOK, IssuedTimes, file, world

\* A step of the alarm alone.
LEMMA OnlyAlarmMoves ==
  ASSUME WorldOK, alarm' \in Alarm,
         UNCHANGED <<blocks, checkpoints, lastCosignature, lastAttested, world>>
  PROVE  WorldOK' /\ IssuedTimes' = IssuedTimes /\ issued' = issued
BY DEF WorldOK, IssuedTimes, world

\* The values every command starts from.
LEMMA Blanks ==
  Nothing \in Sized /\ Nothing.at = Never /\ Unjudged \in Verdicts /\ "none" \in Alarm
<1>1. 0 \in 0..MaxBlocks
  BY AlarmBoundsAssumption
<1> QED BY <1>1 DEF Nothing, Unjudged, Sized, Verdicts, Alarm

\* A command opens the ledger.
LEMMA StartKeeps ==
  ASSUME AlarmInv, NEW p \in Procs, NEW label, OpenLedger(p, label),
         \/ label \in {"judge", "strict", "append", "contact"}
         \/ label = "lee" /\ p \in Ackers
  PROVE  AlarmInv'
<1>1. WorldOK /\ CommandsOK /\ CommandOK(p) /\ TypeOK
  BY CommandByCommand DEF AlarmInv
<1>2. Opened \in Sized /\ Opened.at \in IssuedTimes \cup {Never}
  BY <1>1, OpenedIsSourced
<1>3. UNCHANGED <<file, world, st, previa, backed>>
  BY DEF OpenLedger
<1>4. WorldOK' /\ IssuedTimes' = IssuedTimes /\ issued' = issued
  BY <1>1, <1>3, WorldStays
<1>5. /\ pc' = [pc EXCEPT ![p] = label] /\ pc'[p] = label
      /\ res' = [res EXCEPT ![p] = res'[p]]
      /\ res'[p] \in {Nothing, Opened}
  BY <1>1 DEF OpenLedger, Goto, CommandsOK
<1>6. Moves(p)
  BY <1>1, <1>3, <1>5 DEF Moves, CommandsOK
<1>7. label \in Steps /\ ~HasJudged(p, label)
      /\ label \notin {"age", "cosignature", "attested"}
  BY SlotsAssumption DEF Steps, HasJudged
<1>8. CommandOK(p)'
  BY <1>1, <1>2, <1>3, <1>4, <1>5, <1>7, Blanks DEF CommandOK
<1> QED BY <1>4, <1>6, <1>8, OneCommandMoves

\* checkStaleness, at the end of a command.
LEMMA JudgeKeeps ==
  ASSUME AlarmInv, NEW p \in Procs, Judge(p)
  PROVE  AlarmInv'
<1>1. WorldOK /\ CommandsOK /\ CommandOK(p) /\ TypeOK /\ Sourced
  BY CommandByCommand DEF AlarmInv
<1> DEFINE v == CheckStaleness(res[p])
<1>2. v \in Verdicts /\ (~v.vieja => Backed(res[p].size))
  BY <1>1, VerdictIsGrounded
<1>3. UNCHANGED <<file, world, previa>>
  BY DEF Judge
<1>4. WorldOK' /\ IssuedTimes' = IssuedTimes /\ issued' = issued
  BY <1>1, <1>3, WorldStays
<1> HIDE DEF v
<1>5. /\ pc' = [pc EXCEPT ![p] = "alarm"]
      /\ res' = [res EXCEPT ![p] = Nothing]
      /\ st' = [st EXCEPT ![p] = v]
      /\ backed' = [backed EXCEPT ![p] = Backed(res[p].size)]
  BY DEF Judge, Judged, Goto, v
<1>6. pc'[p] = "alarm" /\ res'[p] = Nothing /\ st'[p] = v
      /\ backed'[p] = Backed(res[p].size)
  BY <1>1, <1>5 DEF CommandsOK
<1>7. Moves(p)
  BY <1>1, <1>3, <1>5, <1>6 DEF Moves, CommandsOK
<1>8. Backed(res[p].size) \in BOOLEAN
  BY DEF Backed
<1>9. CommandOK(p)'
  BY <1>1, <1>2, <1>3, <1>4, <1>6, <1>8, Blanks DEF CommandOK, Steps
<1> QED BY <1>4, <1>7, <1>9, OneCommandMoves

\* checkStaleness, before --fail-on-stale lets anything be written.
LEMMA FailOnStaleKeeps ==
  ASSUME AlarmInv, NEW p \in Procs, FailOnStale(p)
  PROVE  AlarmInv'
<1>1. WorldOK /\ CommandsOK /\ CommandOK(p) /\ TypeOK /\ Sourced
  BY CommandByCommand DEF AlarmInv
<1> DEFINE v == CheckStaleness(res[p])
<1>2. v \in Verdicts /\ (~v.vieja => Backed(res[p].size))
  BY <1>1, VerdictIsGrounded
<1>3. UNCHANGED <<file, world, res, previa>>
  BY DEF FailOnStale
<1>4. WorldOK' /\ IssuedTimes' = IssuedTimes /\ issued' = issued
  BY <1>1, <1>3, WorldStays
<1>5. Backed(res[p].size) \in BOOLEAN
  BY DEF Backed
<1>6. \/ /\ pc' = [pc EXCEPT ![p] = "alarm"] /\ v.vieja
         /\ st' = [st EXCEPT ![p] = v]
         /\ backed' = [backed EXCEPT ![p] = Backed(res[p].size)]
      \/ pc' = [pc EXCEPT ![p] = "append"] /\ UNCHANGED <<st, backed>>
  BY DEF FailOnStale, Judged, Goto
<1> HIDE DEF v
<1>7. /\ Moves(p)
      /\ \/ pc'[p] = "alarm" /\ st'[p] = v /\ v.vieja /\ backed'[p] \in BOOLEAN
         \/ pc'[p] = "append" /\ st'[p] = st[p] /\ backed'[p] = backed[p]
  BY <1>1, <1>3, <1>5, <1>6 DEF Moves, CommandsOK
<1>8. CommandOK(p)'
  BY <1>1, <1>2, <1>3, <1>4, <1>7 DEF CommandOK, Steps, HasJudged
<1> QED BY <1>4, <1>7, <1>8, OneCommandMoves

\* The three that read the alarm before they write it.
LEMMA ReadAlarmKeeps ==
  ASSUME AlarmInv, NEW p \in Procs,
         \/ ReadAlarm(p, "alarm", "write")
         \/ p \in Syncs /\ ReadAlarm(p, "lee", "close")
         \/ p \in Ackers /\ ReadAlarm(p, "lee", "ack")
  PROVE  AlarmInv'
<1>1. WorldOK /\ CommandsOK /\ CommandOK(p)
  BY CommandByCommand
<1>2. UNCHANGED <<file, world, res, st, backed>>
  BY DEF ReadAlarm
<1>3. WorldOK' /\ IssuedTimes' = IssuedTimes /\ issued' = issued
  BY <1>1, <1>2, WorldStays
<1>4. /\ previa' = [previa EXCEPT ![p] = alarm]
      /\ \/ pc' = [pc EXCEPT ![p] = "write"] /\ HasJudged(p, pc[p])
         \/ pc' = [pc EXCEPT ![p] = "close"] /\ HasJudged(p, pc[p])
         \/ pc' = [pc EXCEPT ![p] = "ack"]
  BY DEF ReadAlarm, Goto, HasJudged
<1>5. /\ Moves(p) /\ previa'[p] = alarm
      /\ \/ pc'[p] \in {"write", "close"} /\ HasJudged(p, pc[p])
         \/ pc'[p] = "ack"
  BY <1>1, <1>2, <1>4 DEF Moves, CommandsOK
<1>6. CommandOK(p)'
  BY <1>1, <1>2, <1>3, <1>5 DEF CommandOK, WorldOK, Steps, HasJudged
<1> QED BY <1>3, <1>5, <1>6, OneCommandMoves

\* A command that ends leaves nothing behind.
LEMMA EndIsClean ==
  ASSUME CommandsOK, NEW p \in Procs, End(p)
  PROVE  Moves(p) /\ CommandOK(p)'
<1>1. /\ pc'[p] = "idle" /\ res'[p] = Nothing /\ st'[p] = Unjudged
      /\ previa'[p] = "none" /\ backed'[p] = FALSE
  BY DEF End, Goto, CommandsOK
<1>2. Moves(p)
  BY <1>1 DEF Moves, End, Goto
<1> QED BY <1>1, <1>2, Blanks DEF CommandOK, Steps, HasJudged

\* A command ends, with a write to the alarm or without one.
LEMMA EndKeeps ==
  ASSUME AlarmInv, NEW p \in Procs, End(p),
         \/ UNCHANGED <<file, world>>
         \/ /\ alarm' \in Alarm
            /\ UNCHANGED <<blocks, checkpoints, lastCosignature, lastAttested, world>>
  PROVE  AlarmInv'
<1>1. WorldOK /\ CommandsOK
  BY CommandByCommand
<1>2. WorldOK' /\ issued' = issued
  BY <1>1, WorldStays, OnlyAlarmMoves
<1>3. Moves(p) /\ CommandOK(p)'
  BY <1>1, EndIsClean
<1> QED BY <1>2, <1>3, OneCommandMoves

\* What a command writes to the alarm.
LEMMA AlarmWritten ==
  ASSUME AlarmInv, NEW p \in Procs, WriteAlarm(p) \/ CloseAlarm(p) \/ AckAlarm(p)
  PROVE  alarm' \in Alarm
<1>1. alarm \in Alarm
  BY DEF AlarmInv, TypeOK
<1>2. CASE WriteAlarm(p)
  BY <1>1, <1>2 DEF WriteAlarm, SetAlarm, AlarmAfter, Alarm
<1>3. CASE CloseAlarm(p) \/ AckAlarm(p)
  BY <1>1, <1>3 DEF CloseAlarm, AckAlarm, SetAlarm, Alarm
<1> QED BY <1>2, <1>3

\* The last writes of the commands, and their deaths.
LEMMA AlarmStepsKeep ==
  ASSUME AlarmInv, NEW p \in Procs,
         WriteAlarm(p) \/ CloseAlarm(p) \/ AckAlarm(p) \/ GiveUp(p)
  PROVE  AlarmInv'
<1>1. CASE GiveUp(p)
  BY <1>1, EndKeeps DEF GiveUp
<1>2. CASE WriteAlarm(p) \/ CloseAlarm(p) \/ AckAlarm(p)
  <2>1. alarm' \in Alarm
    BY <1>2, AlarmWritten
  <2>2. End(p) /\ UNCHANGED <<blocks, checkpoints, lastCosignature, lastAttested, world>>
    BY <1>2 DEF WriteAlarm, CloseAlarm, AckAlarm, SetAlarm
  <2> QED BY <2>1, <2>2, EndKeeps
<1> QED BY <1>1, <1>2

\* AppendRecord: one more block, and the verdict is about the longer tree.
LEMMA AppendKeeps ==
  ASSUME AlarmInv, NEW p \in Procs, AppendRecord(p)
  PROVE  AlarmInv'
<1>1. WorldOK /\ CommandsOK /\ CommandOK(p)
  BY CommandByCommand
<1>2. /\ blocks' = blocks + 1 /\ blocks < MaxBlocks
      /\ UNCHANGED <<checkpoints, lastCosignature, lastAttested, alarm, world,
                     st, previa, backed>>
  BY DEF AppendRecord
<1>3. blocks + 1 \in 0..MaxBlocks
  BY <1>1, <1>2, AlarmBoundsAssumption DEF WorldOK
<1>4. WorldOK' /\ IssuedTimes' = IssuedTimes /\ issued' = issued
  BY <1>1, <1>2, <1>3 DEF WorldOK, IssuedTimes, world
<1>5. /\ pc' = [pc EXCEPT ![p] = "judge"] /\ pc'[p] = "judge"
      /\ res' = [res EXCEPT ![p] = res'[p]]
      /\ res'[p] = [res[p] EXCEPT !.size = blocks + 1]
  BY <1>1 DEF AppendRecord, Goto, CommandsOK
<1>6. res'[p] \in Sized /\ res'[p].at = res[p].at
  BY <1>1, <1>3, <1>5 DEF CommandOK, Sized
<1>7. Moves(p)
  BY <1>1, <1>2, <1>5 DEF Moves, CommandsOK
<1>8. CommandOK(p)'
  BY <1>1, <1>2, <1>4, <1>5, <1>6 DEF CommandOK, Steps, HasJudged
<1> QED BY <1>4, <1>7, <1>8, OneCommandMoves

\* What the witness answers is a cosignature of a size and at a time.
LEMMA AnswerIsSized ==
  ASSUME WorldOK, NEW c \in Cosignatures
  PROVE  c \in Sized /\ c.at \in Times \cup {Never}
<1>1. CASE c \in issued
  BY <1>1 DEF WorldOK, Sized
<1>2. CASE c = [size |-> blocks, at |-> now + skew]
  <2>1. now + skew \in Times /\ blocks \in 0..MaxBlocks
    BY AlarmBoundsAssumption DEF WorldOK, Times
  <2> QED BY <1>2, <2>1 DEF Sized
<1> QED BY <1>1, <1>2 DEF Cosignatures

\* SyncWithWitness: the answer is issued, and its note is kept if it is the first.
LEMMA ContactKeeps ==
  ASSUME AlarmInv, NEW p \in Procs, Contact(p)
  PROVE  AlarmInv'
<1>1. WorldOK /\ CommandsOK /\ CommandOK(p)
  BY CommandByCommand
<1>2. PICK c \in Cosignatures :
        /\ issued' = issued \cup {c}
        /\ checkpoints' = [checkpoints EXCEPT ![c.size] = IF @ = Never THEN c.at ELSE @]
        /\ res' = [res EXCEPT ![p] = c]
  BY DEF Contact
<1>3. c \in Sized /\ c.size \in 0..MaxBlocks /\ c.at \in Times \cup {Never}
      /\ c = [size |-> c.size, at |-> c.at]
  BY <1>1, AnswerIsSized DEF Sized
<1>4. pc' = [pc EXCEPT ![p] = "age"]
      /\ UNCHANGED <<blocks, lastCosignature, lastAttested, alarm, now, skew,
                     withPolicy, st, previa, backed>>
  BY DEF Contact, Goto
<1>5. issued \subseteq issued' /\ issued' \subseteq Sized /\ c \in issued'
  BY <1>1, <1>2, <1>3 DEF WorldOK
<1>6. checkpoints' \in [0..MaxBlocks -> {Never} \cup Times]
  BY <1>1, <1>2, <1>3 DEF WorldOK
<1>7. ASSUME NEW n \in 0..MaxBlocks, checkpoints'[n] # Never
      PROVE  [size |-> n, at |-> checkpoints'[n]] \in issued'
  <2>1. CASE checkpoints'[n] = checkpoints[n]
    BY <1>1, <1>5, <1>7, <2>1 DEF WorldOK
  <2>2. CASE checkpoints'[n] # checkpoints[n]
    <3>1. n = c.size /\ checkpoints'[n] = c.at
      BY <1>1, <1>2, <1>3, <2>2 DEF WorldOK
    <3> QED BY <1>3, <1>5, <3>1
  <2> QED BY <2>1, <2>2
<1>8. IssuedTimes \subseteq IssuedTimes' /\ c.at \in IssuedTimes'
  BY <1>5 DEF IssuedTimes
<1>9. WorldOK'
  BY <1>1, <1>4, <1>5, <1>6, <1>7, <1>8 DEF WorldOK
<1>10. pc'[p] = "age" /\ res'[p] = c
  BY <1>1, <1>2, <1>4 DEF CommandsOK
<1>11. Moves(p)
  BY <1>1, <1>2, <1>4, <1>10 DEF Moves, CommandsOK
<1>12. CommandOK(p)'
  BY <1>1, <1>3, <1>4, <1>5, <1>8, <1>10 DEF CommandOK, Steps, HasJudged
<1> QED BY <1>5, <1>9, <1>11, <1>12, OneCommandMoves

\* The witness does not answer.
LEMMA ContactFailsKeeps ==
  ASSUME AlarmInv, NEW p \in Procs, ContactFails(p)
  PROVE  AlarmInv'
<1>1. WorldOK /\ CommandsOK /\ CommandOK(p)
  BY CommandByCommand
<1>2. pc' = [pc EXCEPT ![p] = "judge"] /\ UNCHANGED <<file, world, command>>
  BY DEF ContactFails, Goto
<1>3. WorldOK' /\ IssuedTimes' = IssuedTimes /\ issued' = issued
  BY <1>1, <1>2, WorldStays
<1>4. pc'[p] = "judge" /\ UNCHANGED <<res, st, previa, backed>>
  BY <1>1, <1>2 DEF CommandsOK, command
<1>5. Moves(p)
  BY <1>1, <1>2, <1>4 DEF Moves, CommandsOK
<1>6. CommandOK(p)'
  BY <1>1, <1>3, <1>4 DEF CommandOK, Steps, HasJudged
<1> QED BY <1>3, <1>5, <1>6, OneCommandMoves

\* A cosignature that is not born old is within the threshold.
LEMMA AgeIsGrounded ==
  ASSUME TypeOK, NEW c \in issued, ~(now - c.at > UmbralDeReplay), NEW size
  PROVE  Backed(size)
<1>1. c.at \in Int /\ now \in Int /\ StaleAfter \in Int /\ MaxEdadCosignature \in Int
  BY IssuedIsSized, StaleAfterAssumption, AlarmBoundsAssumption DEF TypeOK, Times, Never
<1>2. UmbralDeReplay \in Int /\ UmbralDeReplay <= StaleAfter
  BY <1>1 DEF UmbralDeReplay
<1>3. now - c.at <= StaleAfter
  BY <1>1, <1>2
<1> QED BY <1>3 DEF Backed

\* sync judges the cosignature it was given.
LEMMA AgeKeeps ==
  ASSUME AlarmInv, NEW p \in Procs, Age(p)
  PROVE  AlarmInv'
<1>1. WorldOK /\ CommandsOK /\ CommandOK(p) /\ TypeOK
  BY CommandByCommand DEF AlarmInv
<1> DEFINE old == now - res[p].at > UmbralDeReplay
           b == Backed(res[p].size)
<1>2. res[p] \in issued
  BY <1>1 DEF Age, CommandOK
<1>3. ~old => b
  BY <1>1, <1>2, AgeIsGrounded
<1>4. old \in BOOLEAN /\ b \in BOOLEAN
  BY DEF Backed
<1>5. /\ pc' = [pc EXCEPT ![p] = "cosignature"]
      /\ st' = [st EXCEPT ![p] = [vieja |-> old, future |-> FALSE]]
      /\ backed' = [backed EXCEPT ![p] = b]
      /\ UNCHANGED <<file, world, res, previa>>
  BY DEF Age, Judged, Goto
<1> HIDE DEF old, b
<1>6. WorldOK' /\ IssuedTimes' = IssuedTimes /\ issued' = issued
  BY <1>1, <1>5, WorldStays
<1>7. /\ pc'[p] = "cosignature" /\ backed'[p] = b
      /\ st'[p] = [vieja |-> old, future |-> FALSE]
  BY <1>1, <1>5 DEF CommandsOK
<1>8. Moves(p)
  BY <1>1, <1>5, <1>7 DEF Moves, CommandsOK
<1>9. st'[p] \in Verdicts /\ (~st'[p].vieja => backed'[p])
  BY <1>3, <1>4, <1>7 DEF Verdicts
<1>10. CommandOK(p)'
  BY <1>1, <1>2, <1>4, <1>5, <1>6, <1>7, <1>9 DEF CommandOK, Steps
<1> QED BY <1>6, <1>8, <1>10, OneCommandMoves

\* PutLastCosignature records what the witness answered.
LEMMA PutLastCosignatureKeeps ==
  ASSUME AlarmInv, NEW p \in Procs, PutLastCosignature(p)
  PROVE  AlarmInv'
<1>1. WorldOK /\ CommandsOK /\ CommandOK(p)
  BY CommandByCommand
<1>2. res[p] \in issued /\ HasJudged(p, pc[p])
  BY <1>1 DEF PutLastCosignature, CommandOK, HasJudged
<1>3. /\ pc' = [pc EXCEPT ![p] = "attested"] /\ lastCosignature' = res[p]
      /\ UNCHANGED <<blocks, checkpoints, lastAttested, alarm, world>>
      /\ UNCHANGED <<res, st, previa, backed>>
  BY DEF PutLastCosignature, Goto, command
<1>4. WorldOK' /\ IssuedTimes' = IssuedTimes /\ issued' = issued
  BY <1>1, <1>2, <1>3 DEF WorldOK, IssuedTimes, world
<1>5. pc'[p] = "attested"
  BY <1>1, <1>3 DEF CommandsOK
<1>6. Moves(p)
  BY <1>1, <1>3, <1>5 DEF Moves, CommandsOK
<1>7. CommandOK(p)'
  BY <1>1, <1>2, <1>3, <1>4, <1>5 DEF CommandOK, Steps
<1> QED BY <1>4, <1>6, <1>7, OneCommandMoves

\* PutLastAttested records when.
LEMMA PutLastAttestedKeeps ==
  ASSUME AlarmInv, NEW p \in Procs, PutLastAttested(p)
  PROVE  AlarmInv'
<1>1. WorldOK /\ CommandsOK /\ CommandOK(p)
  BY CommandByCommand
<1>2. res[p].at \in IssuedTimes /\ HasJudged(p, pc[p])
  BY <1>1 DEF PutLastAttested, CommandOK, HasJudged, IssuedTimes
<1>3. /\ pc' = [pc EXCEPT ![p] = "lee"] /\ lastAttested' = res[p].at
      /\ res' = [res EXCEPT ![p] = Nothing]
      /\ UNCHANGED <<blocks, checkpoints, lastCosignature, alarm, world>>
      /\ UNCHANGED <<st, previa, backed>>
  BY DEF PutLastAttested, Goto
<1>4. WorldOK' /\ IssuedTimes' = IssuedTimes /\ issued' = issued
  BY <1>1, <1>2, <1>3 DEF WorldOK, IssuedTimes, world
<1>5. pc'[p] = "lee" /\ res'[p] = Nothing
  BY <1>1, <1>3 DEF CommandsOK
<1>6. Moves(p)
  BY <1>1, <1>3, <1>5 DEF Moves, CommandsOK
<1>7. CommandOK(p)'
  BY <1>1, <1>2, <1>3, <1>4, <1>5, Blanks DEF CommandOK, Steps
<1> QED BY <1>4, <1>6, <1>7, OneCommandMoves

\* Time passes, or nothing happens.
LEMMA TickKeeps ==
  ASSUME AlarmInv, Tick \/ UNCHANGED vars
  PROVE  AlarmInv'
<1>1. WorldOK /\ CommandsOK /\ \A p \in Procs : CommandOK(p)
  BY CommandByCommand
<1>2. /\ UNCHANGED <<file, issued, skew, withPolicy, pc, command>>
      /\ now' \in 1..MaxTime
  BY <1>1, AlarmBoundsAssumption DEF Tick, vars, world, WorldOK
<1>3. UNCHANGED <<pc, res, st, previa, backed>>
  BY <1>2 DEF command
<1>4. WorldOK' /\ IssuedTimes' = IssuedTimes /\ issued' = issued
  BY <1>1, <1>2 DEF WorldOK, IssuedTimes, file
<1>5. CommandsOK'
  BY <1>1, <1>3 DEF CommandsOK
<1>6. TypeOK'
  BY <1>4, <1>5, TypeParts, PTL
<1>7. Sourced'
  BY <1>3, <1>4 DEF AlarmInv, Sourced
<1>8. Grounded'
  BY <1>3 DEF AlarmInv, Grounded, HasJudged
<1> QED BY <1>6, <1>7, <1>8 DEF AlarmInv

-----------------------------------------------------------------------------
(* The theorems *)

\* The invariant holds in a ledger that is being born.
LEMMA AlarmInvInit == Init => AlarmInv
<1> SUFFICES ASSUME Init PROVE AlarmInv
  OBVIOUS
<1>1. 0 \in 0..MaxBlocks /\ 0 \in 0..MaxSkew
  BY AlarmBoundsAssumption
<1>2. WorldOK
  BY <1>1, AlarmBoundsAssumption DEF Init, WorldOK, Never, Times, Alarm
<1>3. CommandsOK
  BY Blanks DEF Init, CommandsOK, Steps
<1>4. Sourced
  BY Blanks DEF Init, Sourced
<1>5. Grounded
  BY DEF Init, Grounded, HasJudged
<1> QED BY <1>2, <1>3, <1>4, <1>5, TypeParts DEF AlarmInv

\* Every step preserves it.
LEMMA AlarmInvStep == AlarmInv /\ [Next]_vars => AlarmInv'
<1> SUFFICES ASSUME AlarmInv, [Next]_vars PROVE AlarmInv'
  OBVIOUS
<1>1. CASE Tick \/ UNCHANGED vars
  BY <1>1, TickKeeps
<1>2. ASSUME NEW p \in Procs, StartJudge(p) \/ StartSeal(p) \/ StartSync(p) \/ StartAck(p)
      PROVE  AlarmInv'
  <2>1. CASE StartJudge(p) \/ StartSeal(p) \/ StartSync(p)
    <3>1. PICK label \in {"judge", "strict", "append", "contact"} : OpenLedger(p, label)
      BY <2>1 DEF StartJudge, StartSeal, StartSync
    <3> QED BY <3>1, StartKeeps
  <2>2. CASE StartAck(p)
    BY <2>2, StartKeeps DEF StartAck
  <2> QED BY <1>2, <2>1, <2>2
<1>3. ASSUME NEW p \in Procs, Judge(p) \/ FailOnStale(p) \/ AppendRecord(p)
      PROVE  AlarmInv'
  BY <1>3, JudgeKeeps, FailOnStaleKeeps, AppendKeeps
<1>4. ASSUME NEW p \in Procs, Contact(p) \/ ContactFails(p) \/ Age(p)
      PROVE  AlarmInv'
  BY <1>4, ContactKeeps, ContactFailsKeeps, AgeKeeps
<1>5. ASSUME NEW p \in Procs, PutLastCosignature(p) \/ PutLastAttested(p)
      PROVE  AlarmInv'
  BY <1>5, PutLastCosignatureKeeps, PutLastAttestedKeeps
<1>6. ASSUME NEW p \in Procs,
             WriteAlarm(p) \/ CloseAlarm(p) \/ AckAlarm(p) \/ GiveUp(p)
      PROVE  AlarmInv'
  BY <1>6, AlarmStepsKeep
<1>7. ASSUME NEW p \in Procs,
             \/ ReadAlarm(p, "alarm", "write")
             \/ p \in Syncs /\ ReadAlarm(p, "lee", "close")
             \/ p \in Ackers /\ ReadAlarm(p, "lee", "ack")
      PROVE  AlarmInv'
  BY <1>7, ReadAlarmKeeps
<1> QED BY <1>1, <1>2, <1>3, <1>4, <1>5, <1>6, <1>7 DEF Next

\* The invariant holds always.
LEMMA AlarmInvAlways == Spec => []AlarmInv
BY AlarmInvInit, AlarmInvStep, PTL DEF Spec

\* Type correctness; and whatever the file says was attested, the witness signed,
\* at that time and for that size (checkpoints.go, PutLastAttested).
THEOREM AlarmsTypeCorrect == Spec => []TypeOK
<1>1. AlarmInv => TypeOK
  BY DEF AlarmInv
<1> QED BY <1>1, AlarmInvAlways, PTL

\* The three that write the alarm, and no other step, move it.
LEMMA WhoMovesTheAlarm ==
  ASSUME [Next]_vars, alarm' # alarm
  PROVE  \E p \in Procs : WriteAlarm(p) \/ CloseAlarm(p) \/ AckAlarm(p)
BY DEF Next, vars, file, world, command, Tick, Judge, ReadAlarm, GiveUp, StartJudge,
       StartSeal, StartSync, StartAck, OpenLedger, FailOnStale, AppendRecord, Contact,
       ContactFails, Age, PutLastCosignature, PutLastAttested

\* The alarm goes out only by a command that had judged the log attested.
LEMMA ClosingIsGrounded ==
  ASSUME AlarmInv, NEW p \in Procs, WriteAlarm(p) \/ CloseAlarm(p) \/ AckAlarm(p),
         alarm # "none", alarm' = "none"
  PROVE  pc[p] \in {"write", "close"} /\ pc'[p] = "idle" /\ backed[p]
<1>1. CommandsOK /\ CommandOK(p)
  BY CommandByCommand
<1>2. pc'[p] = "idle"
  BY <1>1 DEF WriteAlarm, CloseAlarm, AckAlarm, SetAlarm, End, Goto, CommandsOK
<1>3. CASE WriteAlarm(p)
  <2>1. ~st[p].vieja /\ pc[p] = "write"
    BY <1>3 DEF WriteAlarm, SetAlarm, AlarmAfter
  <2> QED BY <1>1, <1>2, <2>1 DEF CommandOK, HasJudged
<1>4. CASE CloseAlarm(p)
  <2>1. ~st[p].vieja /\ pc[p] = "close"
    BY <1>4 DEF CloseAlarm, SetAlarm
  <2> QED BY <1>1, <1>2, <2>1 DEF CommandOK, HasJudged
<1>5. ~AckAlarm(p)
  BY DEF AckAlarm, SetAlarm
<1> QED BY <1>3, <1>4, <1>5

\* ClosedByContact, for any number of commands at once: what closes an alarm had
\* judged, at an instant of its run, a cosignature within the threshold (alarma.go,
\* registraAlarma and cierraAlarma; sync.go, the age of the cosignature).
THEOREM AlarmClosesByContact == Spec => ClosedByContact
<1> DEFINE A == alarm # "none" /\ alarm' = "none" =>
                  \E p \in Procs :
                    pc[p] \in {"write", "close"} /\ pc'[p] = "idle" /\ backed[p]
<1>1. AlarmInv /\ [Next]_vars => A
  <2> SUFFICES ASSUME AlarmInv, [Next]_vars, alarm # "none", alarm' = "none"
               PROVE  \E p \in Procs :
                        pc[p] \in {"write", "close"} /\ pc'[p] = "idle" /\ backed[p]
    OBVIOUS
  <2>1. PICK p \in Procs : WriteAlarm(p) \/ CloseAlarm(p) \/ AckAlarm(p)
    BY WhoMovesTheAlarm
  <2>2. pc[p] \in {"write", "close"} /\ pc'[p] = "idle" /\ backed[p]
    BY <2>1, ClosingIsGrounded
  <2> QED BY <2>2
<1>2. AlarmInv /\ [Next]_vars => [A]_vars
  BY <1>1
<1> QED BY <1>1, <1>2, AlarmInvAlways, PTL DEF Spec, ClosedByContact
=============================================================================
