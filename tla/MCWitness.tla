------------------------------ MODULE MCWitness ------------------------------
(* Small instances of Witness for TLC. *)
EXTENDS Witness, TLC

CONSTANTS w1, o1, o2, k1, k2, a, b, q1, q2, q3

Symmetry == Permutations(Handlers)

\* One log that grows from << >> to two blocks, and two forks of it.
SmallTrees == {<< >>, <<a>>, <<b>>, <<a, b>>}

Keyed(x, y) == o1 :> x @@ o2 :> y
Serving(x, y) == [logs |-> Keyed(x, y), retired |-> Keyed(NoKey, NoKey)]

\* Both logs active; the first one with another key; the first one retired,
\* with its first key or with the other.
SmallConfigs ==
  {Serving(k1, k1), Serving(k2, k1),
   [logs |-> Keyed(NoKey, k1), retired |-> Keyed(k1, NoKey)],
   [logs |-> Keyed(NoKey, k1), retired |-> Keyed(k2, NoKey)]}

\* The first log under its key: every first checkpoint, one with a proof it must
\* not carry, right and wrong extensions of <<a>>, an old size nobody cosigned;
\* the first log under another key; the second log, with a right and a wrong size.
Ask(o, k, t, old, proof) ==
  [to |-> w1, note |-> [origin |-> o, key |-> k, tree |-> t], old |-> old, proof |-> proof]
SmallRequests ==
  {Ask(o1, k1, t, 0, NoProof) : t \in SmallTrees}
  \cup {Ask(o1, k1, <<a>>, 0, <<a>>), Ask(o1, k1, <<a>>, 2, NoProof)}
  \cup {Ask(o1, k1, t, 1, <<a>>) : t \in {<<a>>, <<b>>, <<a, b>>}}
  \cup {Ask(o1, k1, <<a, b>>, 2, NoProof), Ask(o1, k2, <<a>>, 0, NoProof),
        Ask(o1, k2, <<a, b>>, 1, <<a>>)}
  \cup {Ask(o2, k1, <<a>>, old, NoProof) : old \in {0, 1}}
=============================================================================
