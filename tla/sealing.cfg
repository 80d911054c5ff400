\* Three commands, overlapping as they like, in one second, over one ledger file.
CONSTANTS
  p1 = p1  p2 = p2  p3 = p3
  t1 = t1  t2 = t2  h1 = h1  h2 = h2  kP = kP  kO = kO
  Procs = {p1, p2, p3}
  Tenants = {t1, t2}
  Payloads = {h1}
  Types = {"factura"}
  Keys = {kP, kO}
  PatientKeys = {kP}
  SealJobs <- MixedJobs
  Times = {1}
  MaxAttempts = 2
  NoKey = NoKey  NoTenant = NoTenant  NoRecord = NoRecord
SPECIFICATION Spec
SYMMETRY Symmetry
VIEW View
INVARIANTS
  PatientKeysSealOnce
  IdempotencyRecordIsTrue
  ContentOrErasure
  DuplicatesAreNamed
  AnsweredIsWritten
  IdempotentAnswerIsTrue
PROPERTIES
  ImplementsSealedLog
\* Every command ends and no new one need come.
CHECK_DEADLOCK FALSE
