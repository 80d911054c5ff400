---------------------------- MODULE ErasuresProofs ----------------------------
(***************************************************************************)
(* Proofs about module Erasures, for any contents, events, exports and        *)
(* commands.                                                               *)
(***************************************************************************)
EXTENDS Erasures, WellFoundedInduction, TLAPS

-----------------------------------------------------------------------------
(* The smallest of some numbers *)

\* Min takes an element of the set, and the smallest.
LEMMA MinIsLeast ==
  ASSUME NEW S, S \subseteq Nat, S # {}
  PROVE  Min(S) \in S /\ \A y \in S : Min(S) <= y
<1>1. PICK x \in S : \A y \in S : ~ (<<y, x>> \in OpToRel(<, Nat))
  BY NatLessThanWellFounded, WFMin
<1>2. \A y \in S : x <= y
  <2> SUFFICES ASSUME NEW y \in S, y < x PROVE FALSE
    BY SMT
  <2>1. <<y, x>> \in OpToRel(<, Nat)
    BY DEF OpToRel
  <2> QED BY <1>1, <2>1
<1> QED BY <1>2 DEF Min

-----------------------------------------------------------------------------
(* The alarm *)

\* What an alert command has not yet read, it still has to; what is acknowledged
\* was shown; what an ack is about to write was shown.
AlertInv ==
  /\ acks \subseteq shown
  /\ \A p \in Commands :
       /\ since[p] <= Len(rows)
       /\ pc[p] # "idle" =>
            \A e \in EventsIn(rows) : e < since[p] => e \in unread[p] \cup open[p] \cup acks
       /\ pc[p] \in {"writing", "answered"} => unread[p] = {}
       /\ pc[p] = "writing" => open[p] \subseteq shown

\* The events of a ledger are some of its indices.
LEMMA EventsAreIndices ==
  ASSUME NEW tr \in Histories
  PROVE  EventsIn(tr) \subseteq Indices /\ EventsIn(tr) \subseteq 0..Len(tr) - 1
BY ErasuresBoundsAssumption DEF Histories, EventsIn, Indices

\* A block that is sealed changes none of those before it.
LEMMA SealAppends ==
  ASSUME TypeOK, NEW row \in Rows, Seal(row)
  PROVE  /\ rows' \in Histories /\ Len(rows') = Len(rows) + 1
         /\ \A e \in EventsIn(rows') : e < Len(rows) => e \in EventsIn(rows)
<1>1. rows \in Seq(Rows) /\ rows' = Append(rows, row) /\ Len(rows) < MaxBlocks
  BY DEF TypeOK, Histories, Seal
<1>2. Len(rows') = Len(rows) + 1 /\ rows' \in Seq(Rows)
  BY <1>1
<1>3. \A e \in 0..Len(rows) - 1 : rows'[e + 1] = rows[e + 1]
  BY <1>1
<1> QED BY <1>1, <1>2, <1>3, ErasuresBoundsAssumption DEF Histories, EventsIn

-----------------------------------------------------------------------------
(* Types *)

\* The steps of the reconciliation keep the types.
LEMMA ReconcileTypes ==
  ASSUME TypeOK,
         \/ \E k \in {Custody, None} : Count(k)
         \/ \E line \in Lines : ReadLine(line)
         \/ Finish
         \/ Forget
  PROVE  TypeOK'
<1> DEFINE Found == SUBSET [status : Statuses, index : 0..MaxBlocks]
           Erased == SUBSET [index : Indices, by : Indices]
<1>1. UNCHANGED <<rows, acks, pc, since, unread, open, shown>>
  BY DEF Count, ReadLine, Finish, Forget, alerts
<1>2. CASE \E k \in {Custody, None} : Count(k)
  BY <1>1, <1>2 DEF TypeOK, Count
<1>3. ASSUME NEW line \in Lines, ReadLine(line)
      PROVE  TypeOK'
  <2>1. line.index \in 0..MaxBlocks /\ tree \in Histories
    BY <1>3, ErasuresLinesAssumption DEF ReadLine, TypeOK
  <2>2. \A s \in Statuses : Finding(s, line.index) \in [status : Statuses, index : 0..MaxBlocks]
    BY <2>1 DEF Finding
  <2>3. report.findings \in Found /\ report.erased \in Erased
    BY DEF TypeOK
  <2>4. \/ report' = report
        \/ \E s \in Statuses :
             report' = [findings |-> report.findings \cup {Finding(s, line.index)},
                        erased |-> report.erased]
    BY <1>3 DEF ReadLine, Statuses, TypeOK
  <2>5. report' \in [findings : Found, erased : Erased]
    BY <2>2, <2>3, <2>4 DEF TypeOK
  <2>6. seen' \subseteq Indices
    <3>1. seen' = seen \/ (seen' = seen \cup {line.index} /\ line.index < Len(tree))
      BY <1>3 DEF ReadLine
    <3>2. line.index < Len(tree) => line.index \in Indices
      BY <2>1, ErasuresBoundsAssumption DEF Histories, Indices
    <3> QED BY <3>1, <3>2 DEF TypeOK
  <2> QED BY <1>1, <1>3, <2>5, <2>6 DEF TypeOK, ReadLine
<1>4. CASE Finish
  <2> DEFINE gone == {i \in 0..Len(tree) - 1 : i \notin seen /\ ~tree[i + 1].event}
             erased == {i \in gone : EventoQueSuprime(i, key, tree) # {}}
  <2>1. tree \in Histories
    BY <1>4 DEF Finish, TypeOK
  <2>2. gone \subseteq Indices /\ Indices \subseteq 0..MaxBlocks /\ Indices \subseteq Nat
    BY <2>1, ErasuresBoundsAssumption DEF Histories, Indices
  <2>3. \A i : EventoQueSuprime(i, key, tree) \subseteq Indices
    BY <2>1, EventsAreIndices DEF EventoQueSuprime, ClasificaEventos
  <2>4. \A i \in erased : Min(EventoQueSuprime(i, key, tree)) \in Indices
    <3> SUFFICES ASSUME NEW i \in erased
                 PROVE  Min(EventoQueSuprime(i, key, tree)) \in Indices
      OBVIOUS
    <3>1. EventoQueSuprime(i, key, tree) # {}
      OBVIOUS
    <3> HIDE DEF gone, erased
    <3>2. EventoQueSuprime(i, key, tree) \subseteq Nat
      BY <2>2, <2>3
    <3> QED BY <2>3, <3>1, <3>2, MinIsLeast
  <2>5. report'.erased \in Erased
    <3>1. report'.erased = {[index |-> i, by |-> Min(EventoQueSuprime(i, key, tree))] : i \in erased}
      BY <1>4 DEF Finish
    <3>2. erased \subseteq Indices
      BY <2>2
    <3> HIDE DEF erased
    <3> QED BY <2>4, <3>1, <3>2
  <2>6. report'.findings \in Found
    <3>1. EventsIn(tree) \subseteq 0..MaxBlocks
      BY <2>1, <2>2, EventsAreIndices
    <3>2. report.findings \in Found
      BY DEF TypeOK
    <3>3. report'.findings = report.findings
             \cup {Finding("faltante", i) : i \in gone \ erased}
             \cup {Finding("no autorizada", e) : e \in EventsIn(tree) \ ClasificaEventos(key, tree)}
      BY <1>4 DEF Finish
    <3>4. gone \subseteq 0..MaxBlocks
      BY <2>2
    <3> HIDE DEF gone, erased
    <3>5. /\ \A i \in gone \ erased : Finding("faltante", i) \in [status : Statuses, index : 0..MaxBlocks]
          /\ \A e \in EventsIn(tree) \ ClasificaEventos(key, tree) :
               Finding("no autorizada", e) \in [status : Statuses, index : 0..MaxBlocks]
      BY <3>1, <3>4 DEF Finding, Statuses
    <3> QED BY <3>2, <3>3, <3>5
  <2>7. report' \in [findings : Found, erased : Erased]
    BY <1>4, <2>5, <2>6 DEF Finish
  <2> QED BY <1>1, <1>4, <2>7 DEF TypeOK, Finish
<1>5. CASE Forget
  BY <1>1, <1>5 DEF TypeOK, Forget, NoReport
<1> QED BY <1>2, <1>3, <1>4, <1>5

\* And so do the steps of the alert commands.
LEMMA AlertTypes ==
  ASSUME TypeOK, NEW p \in Commands, Alert(p)
  PROVE  TypeOK'
<1>1. UNCHANGED <<rows, key, tree, lines, seen, report, done>>
  BY DEF Alert, BlocksOfType, State, AllRead, PutState, ReadAgain, Answer, End, reconcile
<1>2. EventsIn(rows) \subseteq Indices /\ Len(rows) \in 0..MaxBlocks
  BY EventsAreIndices DEF TypeOK, Histories
<1>3. CASE PutState(p)
  <2>1. acks \subseteq Indices /\ ReconoceSupresiones(p) \subseteq Indices /\ Indices \subseteq Nat
    BY ErasuresBoundsAssumption DEF TypeOK, ReconoceSupresiones, Indices
  <2>2. Min(ReconoceSupresiones(p) \ acks) \in Indices
    BY <1>3, <2>1, MinIsLeast DEF PutState
  <2> QED BY <1>1, <1>3, <2>1, <2>2 DEF TypeOK, PutState, alerts
<1>4. CASE State(p)
  <2>1. unread[p] \subseteq Indices /\ open[p] \subseteq Indices /\ Indices \subseteq Nat
    BY ErasuresBoundsAssumption DEF TypeOK, Indices
  <2>2. Min(unread[p]) \in Indices
    BY <1>4, <2>1, MinIsLeast DEF State
  <2> QED BY <1>1, <1>4, <2>1, <2>2 DEF TypeOK, State
<1>5. CASE BlocksOfType(p)
  BY <1>1, <1>2, <1>5 DEF TypeOK, BlocksOfType, Goto
<1>6. CASE AllRead(p)
  BY <1>1, <1>6 DEF TypeOK, AllRead, Goto
<1>7. CASE ReadAgain(p)
  BY <1>1, <1>2, <1>7 DEF TypeOK, ReadAgain, Goto
<1>8. CASE Answer(p)
  BY <1>1, <1>8 DEF TypeOK, Answer, Goto
<1>9. CASE End(p)
  BY <1>1, <1>9, ErasuresBoundsAssumption DEF TypeOK, End, Goto
<1> QED BY <1>3, <1>4, <1>5, <1>6, <1>7, <1>8, <1>9 DEF Alert

\* Every step keeps the types.
LEMMA TypesKept ==
  ASSUME TypeOK, [Next]_vars
  PROVE  TypeOK'
<1>1. ASSUME NEW row \in Rows, Seal(row)
      PROVE  TypeOK'
  BY <1>1, SealAppends DEF TypeOK, Seal, reconcile, alerts
<1>2. CASE UNCHANGED vars
  BY <1>2 DEF vars, reconcile, alerts, TypeOK
<1> QED BY <1>1, <1>2, ReconcileTypes, AlertTypes DEF Next

\* Every variable keeps its type.
THEOREM ErasuresTypeCorrect == Spec => []TypeOK
<1>1. Init => TypeOK
  <2> SUFFICES ASSUME Init PROVE TypeOK
    OBVIOUS
  <2>1. << >> \in Histories
    BY ErasuresBoundsAssumption DEF Histories
  <2>2. NoReport \in [findings : SUBSET [status : Statuses, index : 0..MaxBlocks],
                      erased : SUBSET [index : Indices, by : Indices]]
    BY DEF NoReport
  <2>3. /\ since \in [Commands -> 0..MaxBlocks] /\ unread \in [Commands -> SUBSET Indices]
        /\ open \in [Commands -> SUBSET Indices]
        /\ pc \in [Commands -> {"idle", "reading", "writing", "after", "answered"}]
    BY ErasuresBoundsAssumption DEF Init
  <2>4. /\ acks \subseteq Indices /\ shown \subseteq Indices /\ lines \subseteq Lines
        /\ seen \subseteq Indices /\ done \in BOOLEAN /\ key \in {Custody, None}
        /\ tree \in Histories \cup {None} /\ rows = << >> /\ report = NoReport
    BY DEF Init
  <2> QED BY <2>1, <2>2, <2>3, <2>4 DEF TypeOK
<1>2. TypeOK /\ [Next]_vars => TypeOK'
  BY TypesKept
<1> QED BY <1>1, <1>2, PTL DEF Spec

-----------------------------------------------------------------------------
(* No event is acknowledged unseen *)

\* A step of one command keeps what the others have still to read.
LEMMA AlertInvStep ==
  ASSUME TypeOK, AlertInv, [Next]_vars
  PROVE  AlertInv'
<1>1. ASSUME NEW row \in Rows, Seal(row)
      PROVE  AlertInv'
  <2>1. \A e \in EventsIn(rows') : e < Len(rows) => e \in EventsIn(rows)
    BY <1>1, SealAppends
  <2>2. UNCHANGED <<acks, pc, since, unread, open, shown>> /\ Len(rows') = Len(rows) + 1
    BY <1>1, SealAppends DEF Seal, alerts
  <2>3. \A p \in Commands : since[p] \in Nat /\ since[p] <= Len(rows) /\ Len(rows) \in Nat
    BY DEF TypeOK, AlertInv, Histories
  <2>4. \A p \in Commands, e \in EventsIn(rows') : e < since[p] => e \in EventsIn(rows)
    <3> SUFFICES ASSUME NEW p \in Commands, NEW e \in EventsIn(rows'), e < since[p]
                 PROVE  e \in EventsIn(rows)
      OBVIOUS
    <3>1. e \in Int
      BY DEF EventsIn
    <3> QED BY <2>1, <2>3, <3>1
  <2>5. \A p \in Commands : since'[p] <= Len(rows')
    BY <2>2, <2>3
  <2> QED BY <2>2, <2>4, <2>5 DEF AlertInv
<1>2. ASSUME NEW p \in Commands, Alert(p)
      PROVE  AlertInv'
  <2>1. rows' = rows
    BY <1>2 DEF Alert, BlocksOfType, State, AllRead, PutState, ReadAgain, Answer, End
  <2>2. CASE BlocksOfType(p)
    BY <2>1, <2>2 DEF TypeOK, AlertInv, BlocksOfType, Goto, EventsIn, Histories
  <2>3. CASE State(p)
    BY <2>1, <2>3 DEF TypeOK, AlertInv, State
  <2>4. CASE AllRead(p)
    BY <2>1, <2>4 DEF TypeOK, AlertInv, AllRead, Goto
  <2>5. CASE PutState(p)
    <3>1. Min(ReconoceSupresiones(p) \ acks) \in open[p]
      <4>1. ReconoceSupresiones(p) \ acks \subseteq Nat
        BY ErasuresBoundsAssumption DEF TypeOK, ReconoceSupresiones, Indices
      <4> QED BY <2>5, <4>1, MinIsLeast DEF PutState, ReconoceSupresiones
    <3>2. acks' \subseteq shown /\ acks \subseteq acks'
      BY <2>5, <3>1 DEF AlertInv, PutState
    <3> QED BY <2>1, <2>5, <3>2 DEF AlertInv, PutState, alerts
  <2>6. CASE ReadAgain(p)
    BY <2>1, <2>6 DEF TypeOK, AlertInv, ReadAgain, Goto
  <2>7. CASE Answer(p)
    BY <2>1, <2>7 DEF TypeOK, AlertInv, Answer, Goto
  <2>8. CASE End(p)
    BY <2>1, <2>8 DEF TypeOK, AlertInv, End, Goto, Histories
  <2> QED BY <1>2, <2>2, <2>3, <2>4, <2>5, <2>6, <2>7, <2>8 DEF Alert
<1>3. CASE UNCHANGED <<rows, acks, alerts>>
  BY <1>3 DEF alerts, AlertInv
<1>4. \/ UNCHANGED <<rows, acks, alerts>>
      \/ \E row \in Rows : Seal(row)
      \/ \E p \in Commands : Alert(p)
  BY DEF Next, vars, Count, ReadLine, Finish, Forget
<1> QED BY <1>1, <1>2, <1>3, <1>4

\* When a command says that no erasure is open, each event it could know of was
\* shown by an ack, through events sealed meanwhile and acks that die halfway.
THEOREM NoneIsAcknowledgedUnseen == Spec => []NoneOpenIsTrue
<1>1. Init => AlertInv
  BY DEF Init, AlertInv
<1>2. TypeOK /\ AlertInv /\ [Next]_vars => AlertInv'
  BY AlertInvStep
<1>3. AlertInv => NoneOpenIsTrue
  BY DEF AlertInv, NoneOpenIsTrue
<1> QED BY <1>1, <1>2, <1>3, ErasuresTypeCorrect, PTL DEF Spec

-----------------------------------------------------------------------------
(* The report *)

\* The live system showed a record as it was sealed.
AsSealed(line) == ~line.extra /\ line.index < Len(tree) /\ tree[line.index + 1] = Record(line.content)

\* Until the export ends, the report says of the lines read so far what they say,
\* and nothing of what is gone.
ReadSoFar ==
  /\ report.erased = {}
  /\ seen = {line.index : line \in {l \in lines : ~l.extra /\ l.index < Len(tree)}}
  /\ report.findings = {} <=> \A line \in lines : AsSealed(line)

ReconcileInv ==
  /\ tree = None => lines = {} /\ seen = {} /\ report = NoReport /\ ~done
  /\ ~done => ReadSoFar
  /\ ErasedIsAuthorised
  /\ CleanMeansIntact

\* A row that is no event is the record of its content, and an event holds an
\* authorisation or nothing of the kind.
LEMMA RowsAreRecordsOrEvents ==
  ASSUME NEW row \in Rows
  PROVE  /\ row.event => row.cid \in {None} \cup Authorization
         /\ \A c : (~row.event /\ row.content = c) <=> row = Record(c)
<1>1. PICK c \in Contents, cid \in {None} \cup Authorization : row \in {Record(c), Event(c, cid)}
  BY ErasuresRowsAssumption
<1>2. CASE row = Record(c)
  BY <1>2 DEF Record
<1>3. CASE row = Event(c, cid)
  BY <1>3 DEF Record, Event
<1> QED BY <1>1, <1>2, <1>3

\* The events that are classified as erasures are those that count, if the policy
\* has the custody's key.
LEMMA ClassifiedCounts ==
  ASSUME TypeOK, NEW e \in EventsIn(tree)
  PROVE  e \in ClasificaEventos(key, tree) <=> key = Custody /\ Counts(e)
<1>1. key \in {Custody, None} /\ Custody # None
  BY ErasuresKeysAssumption DEF TypeOK
<1> QED BY <1>1 DEF ClasificaEventos, Check, Counts

\* An event that covers a block has its authorisation.
LEMMA CoveredIsAuthorised ==
  ASSUME TypeOK, tree # None, NEW i \in 0..Len(tree) - 1, NEW e \in EventoQueSuprime(i, key, tree)
  PROVE  i < e /\ key = Custody /\ Authorised(i)
<1>1. /\ e \in EventsIn(tree) /\ e \in ClasificaEventos(key, tree)
      /\ tree[e + 1].content = tree[i + 1].content /\ tree[e + 1].cid.through >= i
  BY DEF EventoQueSuprime, ClasificaEventos
<1>2. key = Custody /\ Counts(e)
  BY <1>1, ClassifiedCounts
<1>3. tree \in Seq(Rows)
  BY DEF TypeOK, Histories
<1>4. tree[e + 1] \in Rows /\ tree[e + 1].event /\ e \in Nat
  BY <1>1, <1>3 DEF EventsIn
<1>5. tree[e + 1].cid \in Authorization
  BY <1>2, <1>4, RowsAreRecordsOrEvents DEF Counts
<1>6. tree[e + 1].cid.through \in Nat /\ tree[e + 1].cid.through < e
  BY <1>2, <1>5, ErasuresBoundsAssumption DEF Counts, Authorization, Indices
<1>7. i < e
  BY <1>1, <1>4, <1>6
<1> QED BY <1>1, <1>2, <1>5, <1>7 DEF Authorised, Counts

\* If every event counts, an authorised block is covered by one.
LEMMA AuthorisedIsCovered ==
  ASSUME TypeOK, tree # None, NEW i \in 0..Len(tree) - 1, Authorised(i),
         EventsIn(tree) \subseteq ClasificaEventos(key, tree)
  PROVE  EventoQueSuprime(i, key, tree) # {}
<1>1. PICK e \in EventsIn(tree) :
        /\ tree[e + 1].cid.content = tree[i + 1].content /\ i <= tree[e + 1].cid.through
        /\ tree[e + 1].cid \in Authorization
  BY DEF Authorised
<1>2. e \in ClasificaEventos(key, tree) /\ tree[e + 1].cid.content = tree[e + 1].content
  BY ClassifiedCounts DEF Counts
<1>3. tree[e + 1].cid.through \in Int
  BY <1>1, ErasuresBoundsAssumption DEF Authorization, Indices
<1>4. tree[e + 1].cid.through >= i
  BY <1>1, <1>3
<1> QED BY <1>1, <1>2, <1>4 DEF EventoQueSuprime

\* A line is compared with the block of its index.
LEMMA ReadLineKeeps ==
  ASSUME TypeOK, ReconcileInv, NEW line \in Lines, ReadLine(line)
  PROVE  ReconcileInv'
<1>1. tree # None /\ tree' = tree /\ ~done' /\ ~done /\ lines' = lines \cup {line}
  BY DEF ReadLine, TypeOK
<1>2. tree \in Seq(Rows) /\ line.index \in Nat /\ line.extra \in BOOLEAN
  BY <1>1, ErasuresLinesAssumption, ErasuresBoundsAssumption DEF TypeOK, Histories
<1>3. ReadSoFar
  BY <1>1 DEF ReconcileInv
<1>4. \/ AsSealed(line) /\ report' = report
      \/ /\ ~AsSealed(line)
         /\ \E s : report' = [findings |-> report.findings \cup {Finding(s, line.index)},
                              erased |-> report.erased]
  <2>1. line.index < Len(tree) => tree[line.index + 1] \in Rows
    BY <1>2
  <2>2. line.index < Len(tree) =>
          (AsSealed(line) <=> /\ ~line.extra /\ ~tree[line.index + 1].event
                              /\ tree[line.index + 1].content = line.content)
    BY <2>1, RowsAreRecordsOrEvents DEF AsSealed
  <2>3. ~(line.index < Len(tree)) \/ line.extra => ~AsSealed(line)
    BY DEF AsSealed
  <2>4. Len(tree) \in Nat /\ report = [findings |-> report.findings, erased |-> report.erased]
    BY <1>2 DEF TypeOK
  <2> DEFINE With(s) == [findings |-> report.findings \cup {Finding(s, line.index)},
                         erased |-> report.erased]
  <2>5. \/ (line.extra \/ line.index >= Len(tree)) /\ report' = With("no sellado")
        \/ /\ ~line.extra /\ line.index < Len(tree)
           /\ ~tree[line.index + 1].event /\ tree[line.index + 1].content = line.content
           /\ report' = report
        \/ /\ ~line.extra /\ line.index < Len(tree)
           /\ ~(~tree[line.index + 1].event /\ tree[line.index + 1].content = line.content)
           /\ report' = With("discrepancia")
    BY DEF ReadLine, TypeOK
  <2> HIDE DEF With
  <2>6. CASE line.extra \/ line.index >= Len(tree)
    <3>1. ~AsSealed(line)
      BY <1>2, <2>3, <2>4, <2>6
    <3>2. report' = With("no sellado")
      <4>1. ~(~line.extra /\ line.index < Len(tree))
        BY <1>2, <2>4, <2>6
      <4> QED BY <2>5, <4>1
    <3>3. \E s : report' = With(s)
      BY <3>2
    <3> QED BY <3>1, <3>3 DEF With
  <2>7. CASE ~line.extra /\ line.index < Len(tree)
    <3>1. \/ AsSealed(line) /\ report' = report
          \/ ~AsSealed(line) /\ report' = With("discrepancia")
      <4>1. ~(line.extra \/ line.index >= Len(tree))
        BY <1>2, <2>4, <2>7
      <4> QED BY <2>2, <2>5, <2>7, <4>1
    <3>2. \/ AsSealed(line) /\ report' = report
          \/ ~AsSealed(line) /\ \E s : report' = With(s)
      BY <3>1
    <3> QED BY <3>2 DEF With
  <2> QED BY <1>2, <2>4, <2>6, <2>7
<1>5. seen' = {l.index : l \in {ll \in lines' : ~ll.extra /\ ll.index < Len(tree)}}
  <2>1. \/ seen' = seen /\ ~(~line.extra /\ line.index < Len(tree))
        \/ seen' = seen \cup {line.index} /\ ~line.extra /\ line.index < Len(tree)
    <3>1. Len(tree) \in Nat
      BY <1>2
    <3>2. \/ (line.extra \/ line.index >= Len(tree)) /\ seen' = seen
          \/ ~line.extra /\ line.index < Len(tree) /\ seen' = seen \cup {line.index}
      BY DEF ReadLine
    <3> QED BY <1>2, <3>1, <3>2
  <2> QED BY <1>1, <1>3, <2>1 DEF ReadSoFar
<1>6. report'.erased = {} /\ (report'.findings = {} <=> \A l \in lines' : AsSealed(l))
  BY <1>1, <1>3, <1>4 DEF ReadSoFar
<1>7. ReadSoFar'
  BY <1>1, <1>5, <1>6 DEF ReadSoFar, AsSealed
<1>8. ErasedIsAuthorised' /\ CleanMeansIntact'
  BY <1>1, <1>6 DEF ErasedIsAuthorised, CleanMeansIntact
<1> QED BY <1>1, <1>7, <1>8 DEF ReconcileInv

\* At the end, what no line showed is erased or missing.
LEMMA FinishKeeps ==
  ASSUME TypeOK, ReconcileInv, Finish
  PROVE  ReconcileInv'
<1> DEFINE gone == {i \in 0..Len(tree) - 1 : i \notin seen /\ ~tree[i + 1].event}
           erased == {i \in gone : EventoQueSuprime(i, key, tree) # {}}
           Good == \A line \in lines : AsSealed(line)
           Accounted == \A i \in 0..Len(tree) - 1 \ EventsIn(tree) :
                          (\E line \in lines : line.index = i) \/ (key = Custody /\ Authorised(i))
           Counting == \A e \in EventsIn(tree) : key = Custody /\ Counts(e)
<1>1. tree # None /\ done' /\ ReadSoFar /\ UNCHANGED <<tree, key, lines, seen>>
  BY DEF Finish, ReconcileInv, TypeOK
<1>2. /\ report'.findings = report.findings
             \cup {Finding("faltante", i) : i \in gone \ erased}
             \cup {Finding("no autorizada", e) : e \in EventsIn(tree) \ ClasificaEventos(key, tree)}
      /\ report'.erased = {[index |-> i, by |-> Min(EventoQueSuprime(i, key, tree))] : i \in erased}
  BY DEF Finish
<1>3. tree \in Histories /\ tree \in Seq(Rows)
  BY <1>1 DEF TypeOK, Histories
<1>4. \A i : EventoQueSuprime(i, key, tree) \subseteq Nat
  <2>1. Indices \subseteq Nat
    BY ErasuresBoundsAssumption DEF Indices
  <2> QED BY <1>3, <2>1, EventsAreIndices DEF EventoQueSuprime, ClasificaEventos
<1>5. ErasedIsAuthorised'
  <2>1. ASSUME NEW i \in erased
        PROVE  i < Min(EventoQueSuprime(i, key, tree)) /\ Authorised(i)
    <3>1. i \in 0..Len(tree) - 1 /\ EventoQueSuprime(i, key, tree) # {}
      OBVIOUS
    <3>2. Min(EventoQueSuprime(i, key, tree)) \in EventoQueSuprime(i, key, tree)
      BY <1>4, <3>1, MinIsLeast
    <3> QED BY <1>1, <3>1, <3>2, CoveredIsAuthorised
  <2>2. \A i : Authorised(i)' <=> Authorised(i)
    BY <1>1 DEF Authorised
  <2>3. \A x \in report'.erased :
          \E i \in erased : x = [index |-> i, by |-> Min(EventoQueSuprime(i, key, tree))]
    BY <1>2
  <2>4. ASSUME NEW x \in report'.erased
        PROVE  x.index < x.by /\ Authorised(x.index)
    <3>1. PICK i \in erased : x = [index |-> i, by |-> Min(EventoQueSuprime(i, key, tree))]
      BY <2>3
    <3>2. x.index = i /\ x.by = Min(EventoQueSuprime(i, key, tree))
      BY <3>1
    <3> HIDE DEF erased
    <3> QED BY <2>1, <3>2
  <2> QED BY <2>2, <2>4 DEF ErasedIsAuthorised
<1>6. report'.findings = {} <=>
        report.findings = {} /\ gone \subseteq erased /\ EventsIn(tree) \subseteq ClasificaEventos(key, tree)
  <2> HIDE DEF gone, erased
  <2> DEFINE missing == {Finding("faltante", i) : i \in gone \ erased}
             forbidden == {Finding("no autorizada", e) :
                             e \in EventsIn(tree) \ ClasificaEventos(key, tree)}
  <2>1. missing = {} <=> gone \subseteq erased
    OBVIOUS
  <2>2. forbidden = {} <=> EventsIn(tree) \subseteq ClasificaEventos(key, tree)
    OBVIOUS
  <2>3. report'.findings = report.findings \cup missing \cup forbidden
    BY <1>2
  <2> HIDE DEF missing, forbidden
  <2> QED BY <2>1, <2>2, <2>3
<1>7. report.findings = {} <=> Good
  BY <1>1 DEF ReadSoFar
<1>8. EventsIn(tree) \subseteq ClasificaEventos(key, tree) <=> Counting
  BY ClassifiedCounts
<1>9. ASSUME Good, Counting
      PROVE  gone \subseteq erased <=> Accounted
  <2>1. seen = {line.index : line \in lines}
    BY <1>1, <1>9 DEF ReadSoFar, AsSealed
  <2>2. gone = {i \in 0..Len(tree) - 1 \ EventsIn(tree) : ~\E line \in lines : line.index = i}
    BY <2>1 DEF EventsIn
  <2>3. \A i \in 0..Len(tree) - 1 :
          EventoQueSuprime(i, key, tree) # {} <=> key = Custody /\ Authorised(i)
    <3> SUFFICES ASSUME NEW i \in 0..Len(tree) - 1
                 PROVE  EventoQueSuprime(i, key, tree) # {} <=> key = Custody /\ Authorised(i)
      OBVIOUS
    <3>1. EventoQueSuprime(i, key, tree) # {} => key = Custody /\ Authorised(i)
      BY <1>1, CoveredIsAuthorised
    <3>2. Authorised(i) => EventoQueSuprime(i, key, tree) # {}
      BY <1>1, <1>8, <1>9, AuthorisedIsCovered
    <3> QED BY <3>1, <3>2
  <2>4. gone \subseteq 0..Len(tree) - 1
    OBVIOUS
  <2>5. gone \subseteq erased <=> \A i \in gone : key = Custody /\ Authorised(i)
    BY <2>3, <2>4
  <2> HIDE DEF gone, erased
  <2> QED BY <2>2, <2>5
<1>10. report'.findings = {} <=> Good /\ Accounted /\ Counting
  <2> HIDE DEF gone, erased, Good, Accounted, Counting
  <2> QED BY <1>6, <1>7, <1>8, <1>9
<1>11. CleanMeansIntact'
  <2>1. Good' <=> Good
    BY <1>1 DEF AsSealed
  <2>2. \A i : Authorised(i)' <=> Authorised(i)
    BY <1>1 DEF Authorised
  <2>3. \A e : Counts(e)' <=> Counts(e)
    BY <1>1 DEF Counts
  <2>4. EventsIn(tree)' = EventsIn(tree)
    BY <1>1
  <2>5. CleanMeansIntact' <=> (done' => (report'.findings = {} <=> Good /\ Accounted /\ Counting))
    BY <1>1, <2>2, <2>3, <2>4 DEF CleanMeansIntact, AsSealed
  <2> QED BY <1>10, <2>5
<1> QED BY <1>1, <1>5, <1>11 DEF ReconcileInv

\* Every step keeps what the report says.
LEMMA ReconcileInvStep ==
  ASSUME TypeOK, ReconcileInv, [Next]_vars
  PROVE  ReconcileInv'
<1>1. ASSUME NEW k, Count(k)
      PROVE  ReconcileInv'
  <2>1. /\ lines' = {} /\ seen' = {} /\ ~done' /\ report'.findings = {} /\ report'.erased = {}
        /\ lines' = lines /\ seen' = seen /\ report' = report /\ done' = done /\ report = NoReport
    BY <1>1 DEF Count, ReconcileInv, NoReport
  <2> QED BY <2>1 DEF ReconcileInv, ReadSoFar, ErasedIsAuthorised, CleanMeansIntact
<1>2. CASE Forget
  <2>1. /\ lines' = {} /\ seen' = {} /\ ~done' /\ report' = NoReport
        /\ report'.findings = {} /\ report'.erased = {}
    BY <1>2 DEF Forget, NoReport
  <2> QED BY <2>1 DEF ReconcileInv, ReadSoFar, ErasedIsAuthorised, CleanMeansIntact
<1>3. CASE UNCHANGED reconcile
  <2>1. UNCHANGED <<key, tree, lines, seen, report, done>>
    BY <1>3 DEF reconcile
  <2>2. ReadSoFar' <=> ReadSoFar
    BY <2>1 DEF ReadSoFar, AsSealed
  <2>3. ErasedIsAuthorised' <=> ErasedIsAuthorised
    BY <2>1 DEF ErasedIsAuthorised, Authorised
  <2>4. CleanMeansIntact' <=> CleanMeansIntact
    BY <2>1 DEF CleanMeansIntact, Authorised, Counts
  <2> QED BY <2>1, <2>2, <2>3, <2>4 DEF ReconcileInv
<1>4. \/ UNCHANGED reconcile
      \/ \E k \in {Custody, None} : Count(k)
      \/ \E line \in Lines : ReadLine(line)
      \/ Finish
      \/ Forget
  BY DEF Next, vars, Seal, Alert, BlocksOfType, State, AllRead, PutState, ReadAgain, Answer, End
<1> QED BY <1>1, <1>2, <1>3, <1>4, ReadLineKeeps, FinishKeeps

\* The invariant holds of every behaviour.
LEMMA ReconcileInvariant == Spec => []ReconcileInv
<1>1. Init => ReconcileInv
  BY DEF Init, ReconcileInv, ReadSoFar, NoReport, ErasedIsAuthorised, CleanMeansIntact
<1>2. TypeOK /\ ReconcileInv /\ [Next]_vars => ReconcileInv'
  BY ReconcileInvStep
<1> QED BY <1>1, <1>2, ErasuresTypeCorrect, PTL DEF Spec

\* Nothing is reported erased that the custody did not allow to go, whatever whoever
\* has the key of the tenant seals.
THEOREM ErasedStaysAuthorised == Spec => []ErasedIsAuthorised
BY ReconcileInvariant, PTL DEF ReconcileInv

\* A report without findings is given exactly when nothing is missing, changed or
\* added but what was erased with authorisation.
THEOREM CleanStaysIntact == Spec => []CleanMeansIntact
BY ReconcileInvariant, PTL DEF ReconcileInv
=============================================================================
