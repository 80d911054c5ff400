\* Two callers retry with one key at the same time.
CONSTANTS
  p1 = p1  p2 = p2  p3 = p3
  t1 = t1  t2 = t2  h1 = h1  h2 = h2  kP = kP  kO = kO
  Procs = {p1, p2}
  Tenants = {t1}
  Payloads = {h1}
  Types = {"factura"}
  Keys = {kP, kO}
  PatientKeys = {kP}
  SealJobs <- OverlapJobs
  Times = {1}
  MaxAttempts = 2
  NoKey = NoKey  NoTenant = NoTenant  NoRecord = NoRecord
SPECIFICATION Spec
INVARIANT KeysSealOnce
CHECK_DEADLOCK FALSE
