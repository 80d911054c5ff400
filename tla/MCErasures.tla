----------------------------- MODULE MCErasures -----------------------------
(* Small instances of Erasures for TLC. *)
EXTENDS Erasures, TLC

CONSTANTS ca, cb, status, ack

\* Records, and events with no authorisation, with one up to each block, with one of the
\* other content and with one of another key.
SmallRows ==
  {Record(c) : c \in Contents}
  \cup {Event(c, None) : c \in Contents}
  \cup {Event(c, [key |-> Custody, content |-> c, through |-> i]) : c \in Contents, i \in Indices}
  \cup {Event(c, [key |-> Custody, content |-> d, through |-> 0]) : c, d \in Contents}
  \cup {Event(c, [key |-> Foreign, content |-> c, through |-> 0]) : c \in Contents}

\* A line of any block, one past the end, and one marked as never sealed.
SmallLines ==
  [index : 0..MaxBlocks, content : Contents, extra : {FALSE}]
  \cup [index : {0}, content : Contents, extra : {TRUE}]

Symmetry == Permutations(Contents)
=============================================================================
