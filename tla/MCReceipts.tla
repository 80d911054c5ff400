----------------------------- MODULE MCReceipts -----------------------------
(* Small instances of Receipts for TLC. *)
EXTENDS Receipts, TLC

CONSTANTS s, x, n1, n2, k1, k2

\* The first block of two histories, the second of one, one of another key and one
\* whose signature is bad.
SmallBlocks ==
  {[index |-> 0, body |-> "a", by |-> s, good |-> TRUE],
   [index |-> 0, body |-> "b", by |-> s, good |-> TRUE],
   [index |-> 1, body |-> "a", by |-> s, good |-> TRUE],
   [index |-> 0, body |-> "a", by |-> x, good |-> TRUE],
   [index |-> 1, body |-> "b", by |-> s, good |-> FALSE]}

SmallNames == (k1 :> n1 @@ k2 :> n2)

\* Two witnesses of which one or both have to sign, one alone, under the name of the
\* other, and one key under two names.
SmallPolicies ==
  {[witnesses |-> (n1 :> k1 @@ n2 :> k2), quorum |-> 1, signer |-> s],
   [witnesses |-> (n1 :> k1 @@ n2 :> k2), quorum |-> 2, signer |-> s],
   [witnesses |-> (n2 :> k1), quorum |-> 1, signer |-> s],
   [witnesses |-> (n1 :> k1 @@ n2 :> k1), quorum |-> 2, signer |-> s]}
=============================================================================
