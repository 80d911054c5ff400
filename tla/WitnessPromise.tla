---------------------------- MODULE WitnessPromise ----------------------------
(***************************************************************************)
(* What a witness promises to whoever trusts its cosignatures, stated only  *)
(* over the cosignatures it has issued: for each log it has endorsed one     *)
(* history, each endorsement a continuation of all the earlier ones.  There *)
(* is no memory, no restart and no clock here.                              *)
(***************************************************************************)
EXTENDS SequencesExt

CONSTANTS
  Logs,   \* the logs of each witness: pairs of a witness and an origin
  Trees   \* the histories a log may show: sequences of blocks

VARIABLE endorsed   \* for each log, the trees cosigned so far

Init == endorsed = [r \in Logs |-> {}]

\* The witness cosigns tree for r: it continues everything endorsed for r.
Endorse(r, tree) ==
  /\ \A earlier \in endorsed[r] : IsPrefix(earlier, tree)
  /\ endorsed' = [endorsed EXCEPT ![r] = @ \cup {tree}]

Next == \E r \in Logs, tree \in Trees : Endorse(r, tree)

Spec == Init /\ [][Next]_endorsed
=============================================================================
