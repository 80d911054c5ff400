------------------------------ MODULE MCSealing ------------------------------
(* Small instances of Sealing for TLC. *)
EXTENDS Sealing, TLC

CONSTANTS p1, p2, p3, t1, t2, h1, h2, kP, kO

Symmetry == Permutations(Procs)

\* What a command no longer reads is not told apart: the memory of a process
\* that has ended, and prev and putBlob outside the steps that use them.
Live(p) ==
  IF ~Active(p) THEN << >>
  ELSE <<tries[p], b[p], duplicados[p], hayBlob[p], hayCompromisos[p], through[p],
         IF pc[p] = "seal:build" THEN prev[p] ELSE << >>,
         pc[p] = "seal:commit" /\ putBlob[p]>>
View == <<store, pc, job, out, [p \in Procs |-> Live(p)]>>

Job(t, h, k, e, s) ==
  [tenant |-> t, payload |-> h, typ |-> "factura", key |-> k, enc |-> e, sensitive |-> s]

\* An encrypted document under a patient key (kP), the same document under a
\* key whose caller does not wait (kO), the same without a copy but with
\* commitments, and another tenant's copy of the same document, under a key of
\* the same name.
MixedJobs == {Job(t1, h1, kP, TRUE, FALSE), Job(t1, h1, kO, TRUE, FALSE),
              Job(t1, h1, NoKey, FALSE, TRUE), Job(t2, h1, kO, TRUE, FALSE)}

\* One encrypted document under a key whose caller does not wait.
OverlapJobs == {Job(t1, h1, kO, TRUE, FALSE)}

\* A patient key and no key, to race and to meet a clock that goes back.
ClockJobs == {Job(t1, h1, kP, TRUE, FALSE), Job(t1, h1, NoKey, TRUE, FALSE)}

\* The same document sealed with no key.
PlainJobs == {Job(t1, h1, NoKey, TRUE, FALSE)}
=============================================================================
