-------------------------------- MODULE Alarms --------------------------------
(***************************************************************************)
(* The stale alarm of a ledger (cmd/nucleo/stale.go, alarma.go, alert.go,    *)
(* and the ends of seal, erase and sync).                                   *)
(*                                                                         *)
(* Every command that judges how old the last attestation is reads the       *)
(* alarm of log_state and then opens it, closes it or leaves it, in two      *)
(* statements; `alert ack` reads it and then writes it back acknowledged.    *)
(* A command reads its attestation when it opens the ledger and judges it    *)
(* at its end.                                                              *)
(*                                                                         *)
(* The opening is one step here, and so is the keeping of a cosigned note    *)
(* (module LogSync has the detail of sync, and the rollback alarm).  A name  *)
(* in the sets of commands is a slot: one command after another.             *)
(***************************************************************************)
EXTENDS Integers, FiniteSets

CONSTANTS
  Judges,     \* status, verify, reconcile, alert status, a repeated seal
  Sealers,    \* seal and erase
  Syncs,      \* sync
  Ackers,     \* alert ack
  StaleAfter, \* --stale-after
  MaxEdadCosignature,
  MaxBlocks,  \* bound: blocks in the file
  MaxTime,    \* bound: the clock
  MaxSkew,    \* bound: how far the clock of the witness may be ahead
  MaxIssued,  \* bound: cosignatures the witness issues
  MaxOpen     \* bound: commands running at once that are not judges

Procs == Judges \cup Sealers \cup Syncs \cup Ackers

ASSUME StaleAfterAssumption == StaleAfter \in Nat /\ MaxEdadCosignature \in Nat
ASSUME AlarmBoundsAssumption ==
  {MaxBlocks, MaxTime, MaxSkew, MaxIssued, MaxOpen} \subseteq Nat /\ MaxTime > 0
ASSUME SlotsAssumption ==
  /\ Judges \cap (Sealers \cup Syncs \cup Ackers) = {}
  /\ Sealers \cap (Syncs \cup Ackers) = {}
  /\ Syncs \cap Ackers = {}

VARIABLES
  (* the ledger file *)
  blocks,           \* table blocks: how many
  checkpoints,      \* the time of the first cosigned note of each size, or Never
  lastCosignature,  \* size and time of the last cosigned note
  lastAttested,     \* the time of the last attestation, or Never
  alarm,            \* log/stale-alarm/v1: "none", "open" or "acked"
  (* outside the file *)
  now,              \* the clock of this machine
  issued,           \* size and time of every cosignature of the witness
  skew,             \* how far the clock of the witness is ahead
  withPolicy,       \* the deployment opens with a policy, always or never
  (* the commands *)
  pc,
  res,              \* the size to judge by and what was attested, until judged
  st,               \* the verdict on freshness
  previa,           \* the alarm it read
  backed            \* history: when it judged, a cosignature was within the
                    \* threshold, or it had opened a ledger without blocks

file    == <<blocks, checkpoints, lastCosignature, lastAttested, alarm>>
world   == <<now, issued, skew, withPolicy>>
command == <<res, st, previa, backed>>
vars    == <<file, world, pc, command>>

Never == 0
Times == 1..MaxTime + MaxSkew
Nothing == [size |-> 0, at |-> Never]
Unjudged == [vieja |-> FALSE, future |-> FALSE]

Init ==
  /\ blocks = 0
  /\ checkpoints = [n \in 0..MaxBlocks |-> Never]
  /\ lastCosignature = Nothing
  /\ lastAttested = Never
  /\ alarm = "none"
  /\ now = 1
  /\ issued = {}
  /\ skew \in 0..MaxSkew
  /\ withPolicy \in BOOLEAN
  /\ pc = [p \in Procs |-> "idle"]
  /\ res = [p \in Procs |-> Nothing]
  /\ st = [p \in Procs |-> Unjudged]
  /\ previa = [p \in Procs |-> "none"]
  /\ backed = [p \in Procs |-> FALSE]

-----------------------------------------------------------------------------
(* Freshness *)

\* ultimoContacto: the last cosignature, if it covers exactly the tree on disk.
UltimoContacto == IF lastCosignature.size = blocks THEN lastCosignature.at ELSE Never

\* LastCosignedCheckpoint: the size of the largest cosigned note kept.
LastCosigned(n) ==
  /\ checkpoints[n] # Never
  /\ \A m \in 0..MaxBlocks : m > n => checkpoints[m] = Never

Later(t, u) == IF t < u THEN u ELSE t

\* verify: without a policy nothing is attested.  With one, the largest cosigned
\* checkpoint is, and the later of its time and the last contact counts.
Opened ==
  [size |-> blocks,
   at |-> IF withPolicy /\ \E n \in 0..MaxBlocks : LastCosigned(n)
          THEN Later(checkpoints[CHOOSE n \in 0..MaxBlocks : LastCosigned(n)],
                     UltimoContacto)
          ELSE Never]

\* Without a policy the local record counts; with one, only what was verified.
AttestedAt(r) == IF withPolicy THEN r.at ELSE lastAttested

\* checkStaleness, and vieja as registraAlarma draws it: stale, and not empty.
CheckStaleness(r) ==
  LET at == AttestedAt(r)
  IN  [vieja |-> r.size # 0 /\ (at = Never \/ now - at > StaleAfter),
       future |-> at > now]

UmbralDeReplay == IF StaleAfter < MaxEdadCosignature THEN StaleAfter ELSE MaxEdadCosignature

-----------------------------------------------------------------------------
(* What the commands share *)

Goto(p, label) == pc' = [pc EXCEPT ![p] = label]

\* A command starts by opening the ledger; ack uses nothing of what that says.
OpenLedger(p, label) ==
  /\ pc[p] = "idle"
  /\ p \in Judges \/ Cardinality({q \in Procs \ Judges : pc[q] # "idle"}) < MaxOpen
  /\ res' = [res EXCEPT ![p] = IF p \in Ackers THEN Nothing ELSE Opened]
  /\ Goto(p, label)
  /\ UNCHANGED <<file, world, st, previa, backed>>

Backed(size) == size = 0 \/ \E c \in issued : now - c.at <= StaleAfter

Judged(p, verdict) ==
  /\ st' = [st EXCEPT ![p] = verdict]
  /\ backed' = [backed EXCEPT ![p] = Backed(res[p].size)]

Judge(p) ==
  /\ pc[p] = "judge"
  /\ Judged(p, CheckStaleness(res[p]))
  /\ res' = [res EXCEPT ![p] = Nothing]
  /\ Goto(p, "alarm")
  /\ UNCHANGED <<file, world, previa>>

\* StaleAlarm, for registraAlarma, for leeAlarma in sync and for alert ack.
ReadAlarm(p, before, after) ==
  /\ pc[p] = before
  /\ previa' = [previa EXCEPT ![p] = alarm]
  /\ Goto(p, after)
  /\ UNCHANGED <<file, world, res, st, backed>>

\* The command ends, with its answer, with an error or because it is killed; so
\* does the sync that finds a rollback, which judges nothing.
End(p) ==
  /\ Goto(p, "idle")
  /\ res' = [res EXCEPT ![p] = Nothing]
  /\ st' = [st EXCEPT ![p] = Unjudged]
  /\ previa' = [previa EXCEPT ![p] = "none"]
  /\ backed' = [backed EXCEPT ![p] = FALSE]

GiveUp(p) == pc[p] # "idle" /\ End(p) /\ UNCHANGED <<file, world>>

\* The last write of a command to the alarm.
SetAlarm(p, value) ==
  /\ alarm' = value
  /\ End(p)
  /\ UNCHANGED <<blocks, checkpoints, lastCosignature, lastAttested, world>>

\* Mutants: an alarm that stands is closed whatever the verdict; one that was
\* acknowledged is never closed.
AlarmAfterAlwaysCloses(v, before) ==
  CASE v.vieja /\ before = "none" -> "open" [] before # "none" -> "none" [] OTHER -> alarm
AlarmAfterKeepsAcked(v, before) ==
  CASE v.vieja /\ before = "none" -> "open"
    [] ~v.vieja /\ ~v.future /\ before = "open" -> "none"
    [] OTHER -> alarm

\* registraAlarma, after its read: opened if there was none, kept with its
\* acknowledgement if there was one, closed once the attestation is fresh again,
\* and left alone by a clock that is behind the witness's.
AlarmAfter(v, before) ==
  CASE v.vieja /\ before = "none" -> "open"
    [] ~v.vieja /\ ~v.future /\ before # "none" -> "none"
    [] OTHER -> alarm

WriteAlarm(p) == pc[p] = "write" /\ SetAlarm(p, AlarmAfter(st[p], previa[p]))

-----------------------------------------------------------------------------
(* status, verify, reconcile, alert status *)

StartJudge(p) == p \in Judges /\ OpenLedger(p, "judge")

(* seal and erase *)

StartSeal(p) == p \in Sealers /\ \E label \in {"strict", "append"} : OpenLedger(p, label)

\* --fail-on-stale: refused if stale, before anything is written, alarm and all.
FailOnStale(p) ==
  /\ pc[p] = "strict"
  /\ LET v == CheckStaleness(res[p])
     IN  IF v.vieja THEN Judged(p, v) /\ Goto(p, "alarm")
                    ELSE Goto(p, "append") /\ UNCHANGED <<st, backed>>
  /\ UNCHANGED <<file, world, res, previa>>

\* AppendRecord (module Sealing has the detail).  sealTail judges by the tree with
\* the new block, and by the attestation of the opening.
AppendRecord(p) ==
  /\ pc[p] = "append" /\ blocks < MaxBlocks
  /\ blocks' = blocks + 1
  /\ res' = [res EXCEPT ![p].size = blocks + 1]
  /\ Goto(p, "judge")
  /\ UNCHANGED <<checkpoints, lastCosignature, lastAttested, alarm, world, st, previa, backed>>

(* sync *)

StartSync(p) == p \in Syncs /\ OpenLedger(p, "contact")

\* The witness signs the tree on disk, with its own clock, unless it has seen a
\* larger one; or an answer it gave for a tree of this size is replayed.
Cosignatures ==
  {c \in issued : c.size = blocks} \cup
  IF Cardinality(issued) < MaxIssued /\ \A c \in issued : c.size <= blocks
  THEN {[size |-> blocks, at |-> now + skew]} ELSE {}

\* SyncWithWitness: the cosigned note is kept if it is the first of its size.
Contact(p) ==
  /\ pc[p] = "contact"
  /\ \E c \in Cosignatures :
       /\ issued' = issued \cup {c}
       /\ checkpoints' = [checkpoints EXCEPT ![c.size] = IF @ = Never THEN c.at ELSE @]
       /\ res' = [res EXCEPT ![p] = c]
  /\ Goto(p, "age")
  /\ UNCHANGED <<blocks, lastCosignature, lastAttested, alarm, now, skew, withPolicy, st, previa, backed>>

\* The witness does not answer: judged by what was opened before it was asked.
ContactFails(p) ==
  /\ pc[p] = "contact"
  /\ Goto(p, "judge")
  /\ UNCHANGED <<file, world, command>>

\* A cosignature that is born old proves no contact now.
Age(p) ==
  /\ pc[p] = "age"
  /\ Judged(p, [vieja |-> now - res[p].at > UmbralDeReplay, future |-> FALSE])
  /\ Goto(p, "cosignature")
  /\ UNCHANGED <<file, world, res, previa>>

PutLastCosignature(p) ==
  /\ pc[p] = "cosignature"
  /\ lastCosignature' = res[p]
  /\ Goto(p, "attested")
  /\ UNCHANGED <<blocks, checkpoints, lastAttested, alarm, world, command>>

PutLastAttested(p) ==
  /\ pc[p] = "attested"
  /\ lastAttested' = res[p].at
  /\ res' = [res EXCEPT ![p] = Nothing]
  /\ Goto(p, "lee")
  /\ UNCHANGED <<blocks, checkpoints, lastCosignature, alarm, world, st, previa, backed>>

\* A mutant: an old cosignature closes the alarm too.
CloseAlarmAnyway(p) == pc[p] = "close" /\ SetAlarm(p, "none")

\* cierraAlarma, unless there was none or the cosignature was born old.
CloseAlarm(p) ==
  /\ pc[p] = "close"
  /\ SetAlarm(p, IF previa[p] # "none" /\ ~st[p].vieja THEN "none" ELSE alarm)

(* alert ack *)

StartAck(p) == p \in Ackers /\ OpenLedger(p, "lee")

\* PutStaleAlarm: the record that was read, acknowledged.  No alarm is not an
\* error, and the first acknowledgement is the one that counts.
AckAlarm(p) ==
  /\ pc[p] = "ack"
  /\ SetAlarm(p, IF previa[p] = "open" THEN "acked" ELSE alarm)

-----------------------------------------------------------------------------

Tick ==
  /\ now < MaxTime
  /\ now' = now + 1
  /\ UNCHANGED <<file, issued, skew, withPolicy, pc, command>>

Next ==
  \/ Tick
  \/ \E p \in Procs :
       \/ Judge(p) \/ ReadAlarm(p, "alarm", "write") \/ WriteAlarm(p) \/ GiveUp(p)
       \/ StartJudge(p)
       \/ StartSeal(p) \/ FailOnStale(p) \/ AppendRecord(p)
       \/ StartSync(p) \/ Contact(p) \/ ContactFails(p) \/ Age(p)
       \/ PutLastCosignature(p) \/ PutLastAttested(p) \/ CloseAlarm(p)
       \/ StartAck(p) \/ AckAlarm(p)
       \/ p \in Syncs /\ ReadAlarm(p, "lee", "close")
       \/ p \in Ackers /\ ReadAlarm(p, "lee", "ack")

Spec == Init /\ [][Next]_vars

\* Someone runs status, or the integration calls a command that judges, again and
\* again, and it is not always killed at the same point.  Nothing is assumed of
\* seal, sync, ack or the clock.
FairSpec ==
  /\ Spec
  /\ \A p \in Judges :
       /\ WF_vars(StartJudge(p)) /\ SF_vars(Judge(p))
       /\ SF_vars(ReadAlarm(p, "alarm", "write")) /\ SF_vars(WriteAlarm(p))

-----------------------------------------------------------------------------
(* Properties *)

Steps == {"idle", "strict", "append", "contact", "age", "cosignature", "attested",
          "judge", "alarm", "write", "lee", "close", "ack"}
Alarm == {"none", "open", "acked"}
Sized == [size: 0..MaxBlocks, at: {Never} \cup Times]

TypeOK ==
  /\ blocks \in 0..MaxBlocks
  /\ checkpoints \in [0..MaxBlocks -> {Never} \cup Times]
  /\ \A n \in 0..MaxBlocks :
       checkpoints[n] = Never \/ [size |-> n, at |-> checkpoints[n]] \in issued
  /\ lastCosignature \in issued \cup {Nothing}
  /\ lastAttested \in {c.at : c \in issued} \cup {Never}
  /\ alarm \in Alarm
  /\ now \in 1..MaxTime
  /\ issued \subseteq Sized
  /\ skew \in 0..MaxSkew
  /\ withPolicy \in BOOLEAN
  /\ pc \in [Procs -> Steps]
  /\ res \in [Procs -> Sized]
  /\ st \in [Procs -> [vieja: BOOLEAN, future: BOOLEAN]]
  /\ previa \in [Procs -> Alarm]
  /\ backed \in [Procs -> BOOLEAN]

\* Only contact closes an alarm: whatever closes it judged, at an instant of its
\* run, a cosignature of this log within the threshold, never an old one that was
\* replayed (sync.go: "Una que ya nacía vieja no cierra nada").  The exception is
\* a command that opened a ledger without blocks, for which nothing is stale.
ClosedByContact ==
  [][alarm # "none" /\ alarm' = "none" =>
       \E p \in Procs :
         pc[p] \in {"write", "close"} /\ pc'[p] = "idle" /\ backed[p]]_vars

\* If from some moment on no cosignature of the witness is within the threshold,
\* there is an alarm from some moment on, whatever acks, syncs, replays and late
\* judgements went before (checkpoints.go, StaleAlarmKey: "el siguiente la reabre").
Unattended == blocks # 0 /\ \A c \in issued : now - c.at > StaleAfter
StaleIsAlarmed == <>[]Unattended => <>[](alarm # "none")

\* If from some moment on the last contact covers the tree and is within the
\* threshold, and no time is in the future, the alarm ends closed: no old judgement
\* and no late ack leaves it standing (alarma.go, registraAlarma).
Attended ==
  /\ lastCosignature.size = blocks /\ lastAttested = lastCosignature.at
  /\ lastCosignature.at # Never /\ now - lastCosignature.at <= StaleAfter
  /\ \A c \in issued : c.at <= now
FreshIsCalm == <>[]Attended => <>[](alarm = "none")

=============================================================================
