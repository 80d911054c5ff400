------------------------------ MODULE Erasures ------------------------------
(***************************************************************************)
(* What the ledger says of contents that are gone: the reconciliation of the  *)
(* live system with what was sealed (internal/reconcile, cmd/nucleo/          *)
(* reconcile.go), which events of erasure count (internal/erasure/            *)
(* autorizacion.go) and the alarm every event opens until somebody            *)
(* acknowledges it (cmd/nucleo/alarma_supresion.go, alert.go).                *)
(*                                                                         *)
(* Whoever has the key of the tenant seals records and events, also events     *)
(* with no authorisation, with one of another key or log, and with one that     *)
(* was used before (module Sealing has the guards of `nucleo erase`).  Only      *)
(* the custody of the erasure key of the policy makes its signatures.  The live  *)
(* system is outside: its export has any records in any order, and is read line  *)
(* by line while others seal.                                               *)
(***************************************************************************)
EXTENDS Integers, Sequences, FiniteSets, FiniteSetsExt

CONSTANTS
  Contents,   \* what records say; a hash is its content
  Custody,    \* the erasure key, of this log, that the deployment's policy has
  Foreign,    \* any other key, or the same over another log
  Rows,       \* what may be sealed
  Lines,      \* what the lines of an export may say
  Commands,   \* alert status and alert ack
  Ackers,     \* those of them that acknowledge
  MaxBlocks,  \* bound: blocks in the file
  MaxLines,   \* bound: lines of an export
  None

ASSUME ErasuresCommandsAssumption == Ackers \subseteq Commands
ASSUME ErasuresKeysAssumption == Custody # Foreign /\ None \notin {Custody, Foreign} \cup Contents
ASSUME ErasuresBoundsAssumption == {MaxBlocks, MaxLines} \subseteq Nat

Indices == 0..MaxBlocks - 1

\* A signature over a content and the last block it covers.
Authorization == [key : {Custody, Foreign}, content : Contents, through : Indices]

\* An event has the hash of its content put into an event, and in its payload_cid an
\* authorisation or something else.
Record(c) == [event |-> FALSE, content |-> c, cid |-> None]
Event(c, cid) == [event |-> TRUE, content |-> c, cid |-> cid]

ASSUME ErasuresRowsAssumption ==
  \A row \in Rows : \E c \in Contents, cid \in {None} \cup Authorization : row \in {Record(c), Event(c, cid)}
ASSUME ErasuresLinesAssumption == Lines \subseteq [index : 0..MaxBlocks, content : Contents, extra : BOOLEAN]

VARIABLES
  rows,    \* table blocks
  acks,    \* log/erasure-ack/v1/: the events acknowledged
  (* reconcile *)
  key,     \* the erasure key of the policy it was given, or None
  tree,    \* the blocks it counted and read, or None
  lines,   \* history: the lines it has read
  seen,    \* the blocks those lines were compared with
  report,  \* what it has found; erased is known at the end
  done,
  (* alert status and alert ack *)
  pc,
  since,   \* history: how many blocks there were when it began
  unread,  \* the events it has still to look up
  open,    \* those it found without an acknowledgement
  (* history *)
  shown    \* the events some ack has read as open

reconcile == <<key, tree, lines, seen, report, done>>
alerts    == <<pc, since, unread, open, shown>>
vars      == <<rows, acks, reconcile, alerts>>

NoReport == [findings |-> {}, erased |-> {}]

Init ==
  /\ rows = << >> /\ acks = {}
  /\ key = None /\ tree = None /\ lines = {} /\ seen = {} /\ report = NoReport /\ done = FALSE
  /\ pc = [p \in Commands |-> "idle"] /\ since = [p \in Commands |-> 0]
  /\ unread = [p \in Commands |-> {}] /\ open = [p \in Commands |-> {}]
  /\ shown = {}

-----------------------------------------------------------------------------
(* The ledger *)

\* A record or an event of whoever seals.
Seal(row) ==
  /\ Len(rows) < MaxBlocks
  /\ rows' = Append(rows, row)
  /\ UNCHANGED <<acks, reconcile, alerts>>

EventsIn(tr) == {i \in 0..Len(tr) - 1 : tr[i + 1].event}

-----------------------------------------------------------------------------
(* Reconciliation *)

\* Mutant of Check: an authorisation may cover what follows the event.
CheckAnyThrough(k, e, tr) ==
  LET a == tr[e + 1].cid IN a # None /\ k # None /\ a.key = k /\ a.content = tr[e + 1].content

\* Check and VerifyCID: the key of the policy signed this content, on this log, up to
\* a block before the event.
Check(k, e, tr) ==
  LET a == tr[e + 1].cid
  IN  a # None /\ k # None /\ a.key = k /\ a.content = tr[e + 1].content /\ a.through < e

\* clasificaEventos: the content of an event is found among the blocks before it, or
\* it erases nothing.
ClasificaEventos(k, tr) ==
  {e \in EventsIn(tr) :
     /\ \E i \in 0..e - 1 : ~tr[i + 1].event /\ tr[i + 1].content = tr[e + 1].content
     /\ Check(k, e, tr)}

\* Mutant of EventoQueSuprime: an authorisation covers every copy before the event.
EventoQueSuprimeAntes(i, k, tr) ==
  {e \in ClasificaEventos(k, tr) : tr[e + 1].content = tr[i + 1].content /\ i < e}

\* eventoQueSuprime: the events that cover a block, of which the first is named.
EventoQueSuprime(i, k, tr) ==
  {e \in ClasificaEventos(k, tr) : tr[e + 1].content = tr[i + 1].content /\ tr[e + 1].cid.through >= i}

Finding(status, i) == [status |-> status, index |-> i]

\* reconcile starts, with a policy or without, and counts the blocks; it then reads
\* those, which no one changes.
Count(k) ==
  /\ tree = None
  /\ shown = {} /\ \A p \in Commands : pc[p] = "idle"   \* bound: it reads nothing of theirs
  /\ key' = k
  /\ tree' = rows
  /\ UNCHANGED <<rows, acks, lines, seen, report, done, alerts>>

\* One more line of the export, against the block of its index.
ReadLine(line) ==
  /\ tree # None /\ ~done /\ Cardinality(lines) < MaxLines
  /\ lines' = lines \cup {line}
  /\ \/ /\ line.extra \/ line.index >= Len(tree)
        /\ report' = [report EXCEPT !.findings = @ \cup {Finding("no sellado", line.index)}]
        /\ UNCHANGED seen
     \/ /\ ~line.extra /\ line.index < Len(tree)
        /\ seen' = seen \cup {line.index}
        /\ report' =
             \* a record never has the hash of an event; Lines leaves out one that repeats
             \* the payload of an event, which the code would take for a match
             IF ~tree[line.index + 1].event /\ tree[line.index + 1].content = line.content THEN report
             ELSE [report EXCEPT !.findings = @ \cup {Finding("discrepancia", line.index)}]
  /\ UNCHANGED <<rows, acks, key, tree, done, alerts>>

\* The export is at its end: what no line showed, and the events that do not count.
Finish ==
  /\ tree # None /\ ~done
  /\ done' = TRUE
  /\ LET gone   == {i \in 0..Len(tree) - 1 : i \notin seen /\ ~tree[i + 1].event}
         erased == {i \in gone : EventoQueSuprime(i, key, tree) # {}}
     IN  report' =
           [findings |-> report.findings
              \cup {Finding("faltante", i) : i \in gone \ erased}
              \cup {Finding("no autorizada", e) : e \in EventsIn(tree) \ ClasificaEventos(key, tree)},
            erased |-> {[index |-> i, by |-> Min(EventoQueSuprime(i, key, tree))] : i \in erased}]
  /\ UNCHANGED <<rows, acks, key, tree, lines, seen, alerts>>

\* The report is printed, or the export cannot be read to its end, and the process is gone.
Forget ==
  /\ tree # None
  /\ key' = None /\ tree' = None /\ lines' = {} /\ seen' = {} /\ report' = NoReport /\ done' = FALSE
  /\ UNCHANGED <<rows, acks, alerts>>

-----------------------------------------------------------------------------
(* The alarm *)

Goto(p, label) == pc' = [pc EXCEPT ![p] = label]

\* alarmaDeSupresion starts with the events there are.
BlocksOfType(p) ==
  /\ tree = None /\ pc[p] = "idle"
  /\ since' = [since EXCEPT ![p] = Len(rows)]
  /\ unread' = [unread EXCEPT ![p] = EventsIn(rows)]
  /\ open' = [open EXCEPT ![p] = {}]
  /\ Goto(p, "reading")
  /\ UNCHANGED <<rows, acks, reconcile, shown>>

\* It looks up the acknowledgement of the next of them.
State(p) ==
  /\ pc[p] \in {"reading", "after"} /\ unread[p] # {}
  /\ LET e == Min(unread[p])
     IN  /\ unread' = [unread EXCEPT ![p] = @ \ {e}]
         /\ open' = [open EXCEPT ![p] = IF e \in acks THEN @ ELSE @ \cup {e}]
  /\ UNCHANGED <<rows, acks, reconcile, pc, since, shown>>

\* An ack shows what it found and acknowledges it; the others have their answer.
AllRead(p) ==
  /\ pc[p] = "reading" /\ unread[p] = {}
  /\ Goto(p, IF p \in Ackers THEN "writing" ELSE "answered")
  /\ shown' = IF p \in Ackers THEN shown \cup open[p] ELSE shown
  /\ UNCHANGED <<rows, acks, reconcile, since, unread, open>>

\* Mutant of ReconoceSupresiones: it acknowledges whatever events there are by now.
ReconoceTodas(p) == EventsIn(rows)

\* reconoceSupresiones: those that were open when it read.
ReconoceSupresiones(p) == open[p]

\* PutState, one event after another.
PutState(p) ==
  /\ pc[p] = "writing" /\ ReconoceSupresiones(p) \ acks # {}
  /\ acks' = acks \cup {Min(ReconoceSupresiones(p) \ acks)}
  /\ UNCHANGED <<rows, reconcile, alerts>>

\* All are written: ack reads again, to say what is open now.
ReadAgain(p) ==
  /\ pc[p] = "writing" /\ ReconoceSupresiones(p) \subseteq acks
  /\ unread' = [unread EXCEPT ![p] = EventsIn(rows)]
  /\ open' = [open EXCEPT ![p] = {}]
  /\ Goto(p, "after")
  /\ UNCHANGED <<rows, acks, reconcile, since, shown>>

Answer(p) ==
  /\ pc[p] = "after" /\ unread[p] = {}
  /\ Goto(p, "answered")
  /\ UNCHANGED <<rows, acks, reconcile, since, unread, open, shown>>

\* The command ends, or dies or fails at any point.
End(p) ==
  /\ pc[p] # "idle"
  /\ Goto(p, "idle")
  /\ since' = [since EXCEPT ![p] = 0] /\ unread' = [unread EXCEPT ![p] = {}]
  /\ open' = [open EXCEPT ![p] = {}]
  /\ UNCHANGED <<rows, acks, reconcile, shown>>

Alert(p) ==
  \/ BlocksOfType(p) \/ State(p) \/ AllRead(p)
  \/ PutState(p) \/ ReadAgain(p) \/ Answer(p) \/ End(p)

Next ==
  \/ \E row \in Rows : Seal(row)
  \/ \E k \in {Custody, None} : Count(k)
  \/ \E line \in Lines : ReadLine(line)
  \/ Finish
  \/ Forget
  \/ \E p \in Commands : Alert(p)

Spec == Init /\ [][Next]_vars

-----------------------------------------------------------------------------
(* Properties *)

Histories == {s \in Seq(Rows) : Len(s) <= MaxBlocks}
Statuses  == {"no sellado", "discrepancia", "faltante", "no autorizada"}

TypeOK ==
  /\ rows \in Histories /\ tree \in Histories \cup {None}
  /\ acks \subseteq Indices /\ shown \subseteq Indices
  /\ key \in {Custody, None} /\ lines \subseteq Lines /\ seen \subseteq Indices
  /\ report \in [findings : SUBSET [status : Statuses, index : 0..MaxBlocks],
                 erased : SUBSET [index : Indices, by : Indices]]
  /\ done \in BOOLEAN
  /\ pc \in [Commands -> {"idle", "reading", "writing", "after", "answered"}]
  /\ since \in [Commands -> 0..MaxBlocks]
  /\ unread \in [Commands -> SUBSET Indices] /\ open \in [Commands -> SUBSET Indices]

\* The custody signed, for this log, that a block's content may go.
Authorised(i) ==
  \E e \in EventsIn(tree) : /\ tree[e + 1].cid \in Authorization
                            /\ tree[e + 1].cid.key = Custody
                            /\ tree[e + 1].cid.content = tree[i + 1].content
                            /\ i <= tree[e + 1].cid.through /\ i < e

\* A block is reported erased only if the custody of the erasure key allowed it for that
\* block: whoever has the key of the tenant passes nothing that vanished for erased,
\* with no event of his own, with no authorisation used again for a copy sealed after
\* it, and with none of another content, log or key.
ErasedIsAuthorised == \A x \in report.erased : x.index < x.by /\ Authorised(x.index)

\* An event counts if its own authorisation does.
Counts(e) ==
  LET a == tree[e + 1].cid
  IN  /\ a # None /\ a.key = Custody /\ a.content = tree[e + 1].content /\ a.through < e
      /\ \E i \in 0..e - 1 : ~tree[i + 1].event /\ tree[i + 1].content = a.content

\* A report without findings means, and is given exactly when, the live system showed
\* every record that was sealed as it was and nothing else, but for those whose
\* erasure was authorised, and no event is unauthorised.  Without an erasure key there is
\* no such report over a ledger with an event.
CleanMeansIntact ==
  done =>
    (report.findings = {} <=>
       /\ \A line \in lines : /\ ~line.extra /\ line.index < Len(tree)
                              /\ tree[line.index + 1] = Record(line.content)
       /\ \A i \in 0..Len(tree) - 1 \ EventsIn(tree) :
            (\E line \in lines : line.index = i) \/ (key = Custody /\ Authorised(i))
       /\ \A e \in EventsIn(tree) : key = Custody /\ Counts(e))

\* When a command says that no erasure is open, every event sealed before it began has
\* been shown to somebody by an ack: none is acknowledged unseen, although events are
\* sealed between the reads of an ack and its writes, and acks die halfway.
NoneOpenIsTrue ==
  \A p \in Commands :
    (pc[p] = "answered" /\ open[p] = {}) =>
      \A e \in EventsIn(rows) : e < since[p] => e \in acks \cap shown
=============================================================================
