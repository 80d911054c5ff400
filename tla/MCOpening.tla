------------------------------ MODULE MCOpening ------------------------------
(* Small instances of Opening for TLC. *)
EXTENDS Opening, TLC

CONSTANTS p, a, b, k, x, l, m, w, forged, nopolicy, none

By(key, body) == [body |-> body, signer |-> key]

\* Headers of two histories of the log, and of one that goes on under another key.
SmallHeaders == {<<By(k, a)>>, <<By(k, a), By(k, a)>>, <<By(k, b)>>,
                 <<By(k, b), By(k, a)>>, <<By(k, a), By(x, a)>>}

\* Rows as they were sealed, and rows with one column of another row.
SoundRows == {Sealed(h) : h \in SmallHeaders}
SmallRows ==
  SoundRows \cup {[Sealed(<<By(k, a)>>) EXCEPT !.header = <<By(k, b)>>],
                [Sealed(<<By(k, a)>>) EXCEPT !.sig.over = <<By(k, b)>>],
                [Sealed(<<By(k, a)>>) EXCEPT !.sig.by = x],
                [Sealed(<<By(k, a), By(k, a)>>) EXCEPT !.hash = <<By(k, a)>>],
                [Sealed(<<By(k, a), By(k, a)>>) EXCEPT !.sig.over = <<By(k, a)>>]}
SmallTables == {<< >>} \cup [1..1 -> SmallRows] \cup [1..2 -> SmallRows]

\* Notes of the first history, cosigned by the witness; notes of both, signed by
\* the log only or with a line that has the form of a cosignature; one of another
\* log; and one the witness cosigned of the second block alone.
HistoryOf(body, size) ==
  [i \in 1..size |-> Sealed(IF i = 1 THEN <<By(k, body)>> ELSE <<By(k, body), By(k, a)>>)]
NoteOf(body, size, cosigners, log) ==
  [tree |-> Leaves(HistoryOf(body, size)), cosigners |-> cosigners, log |-> log]
NotesOfSize(size) ==
  {NoteOf(a, size, {w}, l), NoteOf(b, size, {}, l), NoteOf(b, size, {forged}, l),
   NoteOf(a, size, {w}, m)}
Headless == [tree |-> Leaves(<<Sealed(<<By(k, a), By(k, a)>>)>>), cosigners |-> {w}, log |-> l]
SmallNotes ==
  {{}} \cup {{c} : c \in {Headless} \cup NotesOfSize(1) \cup NotesOfSize(2)}
       \cup {{c, d} : c \in {Headless} \cup NotesOfSize(1), d \in NotesOfSize(2)}

SmallFiles ==
  [rows : SmallTables, numbered : {TRUE}, notes : SmallNotes, mark : {TRUE}, log : {l, none}]
  \cup [rows : {t \in SmallTables : Len(t) < 2}, numbered : {TRUE}, notes : {{}},
        mark : {FALSE}, log : {l}]
  \cup [rows : {<< >>}, numbered : {TRUE}, notes : {{NoteOf(a, 0, {w}, l)}},
        mark : BOOLEAN, log : {l}]
  \cup [rows : [1..1 -> SoundRows] \cup [1..2 -> SoundRows], numbered : {FALSE}, notes : {{}},
        mark : {TRUE}, log : {l}]

Demanding(key, log) == [witnesses |-> {w}, quorum |-> 1, signer |-> key, log |-> log]
SmallPolicies == {nopolicy, Demanding(none, none), Demanding(k, l)}
=============================================================================
