----------------------------- MODULE VaultProofs -----------------------------
(***************************************************************************)
(* Proofs about module Vault, for any number of commands and passphrases.    *)
(***************************************************************************)
EXTENDS Vault, TLAPS

-----------------------------------------------------------------------------
(* The invariant *)

InitSteps    == {"create", "params", "dek", "identity", "public"}
RestoreSteps == {"prepare", "unwrap", "show", "confirm", "commit", "check"}

\* The inits that made the file, or took the one that was there.
Makers   == {p \in founders : pc[p] # "create"}
OneMaker == \A p, q \in Makers : p = q

FileOK ==
  /\ exists \in BOOLEAN
  /\ params \in Row(Salts)
  /\ wrapped \in Row([kek : KEKs, dek : DEKs])
  /\ identity \in Row([of : Inits, dek : DEKs])
  /\ signer \in Row(Inits)
  /\ cards \subseteq KEKs
  /\ founders \subseteq Inits
  /\ wrapped # None => params # None

CommandsOK ==
  /\ pc \in [Procs -> Steps]
  /\ pass \in [Procs -> Row(Passphrases)]
  /\ saw \in [Procs -> Rows]
  /\ kek \in [Procs -> KEKs \cup {NoKEK}]
  /\ answer \in [Procs -> Answers]
  /\ rekeyed \in [Procs -> BOOLEAN]

\* Which command may be at which step, and that it says nothing before it ends.
Stage(p) ==
  /\ pc[p] \in InitSteps => p \in founders
  /\ pc[p] \in RestoreSteps => p \in Restores
  /\ pc[p] = "unlock" => p \notin Inits
  /\ pc[p] = "load" => p \in Users
  /\ pc[p] = "derive" => p \in founders \/ p \in Users
  /\ (pc[p] \notin {"idle", "ended"} \/ (p \notin Users /\ pc[p] = "idle"))
       => answer[p] = "none"
  /\ p \in Inits /\ answer[p] = "cards" => p \in Makers
  /\ p \in Users => pc[p] # "ended"
  /\ p \in founders => pc[p] # "idle"

\* What a command remembers at each step.
Memory(p) ==
  /\ pc[p] \notin {"idle", "ended", "prepare"} => pass[p] \in Passphrases
  /\ pc[p] \in RestoreSteps => kek[p] \in KEKs
  /\ pc[p] \notin {"idle", "ended", "create", "params"} => params # None
  /\ pc[p] \in {"prepare", "unwrap"} => wrapped # None
  /\ pc[p] \in {"show", "confirm", "commit", "check"} \/ (pc[p] = "unlock" /\ p \in Restores)
       => kek[p] = DeriveKEK(pass[p], p)
  /\ pc[p] \in {"show", "confirm", "commit"} => saw[p].wrapped # None
  /\ pc[p] \in {"confirm", "commit"} /\ p \notin Quiet => kek[p] \in cards
  /\ p \in Restores /\ pc[p] \in {"idle", "prepare"} => pass[p] = None
  /\ p \in Quiet /\ answer[p] = "fixed" => DeriveKEK(pass[p], p) \in cards

\* The rows belong together, and are written in order.
Whole ==
  /\ Makers = {} => params = None /\ wrapped = None /\ identity = None /\ signer = None
  /\ wrapped # None => wrapped.kek.salt = params /\ wrapped.dek \in Makers
  /\ identity # None => wrapped # None /\ identity.dek = wrapped.dek
                        /\ identity.of = wrapped.dek
  /\ signer # None => identity # None /\ identity.of = signer

\* A key of which there are cards, or of which a quiet restore has still to print
\* them.
Held(key) == key \in cards \/ Unprinted(key)

\* How far the init has come, and whether the cards it will print open the vault.
Made(p) ==
  /\ pc[p] = "params" => params = None
  /\ pc[p] = "dek" => params = p
  /\ pc[p] \in {"params", "dek"} => wrapped = None
  /\ pc[p] \in {"params", "dek", "identity"} => identity = None
  /\ pc[p] = "public" => identity # None
  /\ pc[p] \in {"identity", "public", "derive"} =>
       /\ wrapped # None
       /\ Held(wrapped.kek) \/ wrapped.kek = DeriveKEK(pass[p], p)
       /\ ~rekeyed[p] => wrapped.kek = DeriveKEK(pass[p], p)
  /\ answer[p] = "cards" => wrapped # None /\ Held(wrapped.kek)

\* What a command has read is what is there, until another restore commits.
Current(p) ==
  /\ pc[p] \in {"unlock", "unwrap", "show", "confirm", "commit"} => saw[p].salt = params
  /\ pc[p] \in {"show", "confirm", "commit"} => saw[p].wrapped = wrapped
  /\ p \in Restores /\ pc[p] \in {"check", "unlock"} => Unwraps(kek[p], wrapped)
  /\ p \in Users /\ pc[p] = "derive" => Unwraps(DeriveKEK(pass[p], params), wrapped)

\* And what it has said is true.
Truthful(p) ==
  /\ answer[p] = "wrong passphrase" => wrapped # None /\ wrapped.kek.pass # pass[p]
  /\ answer[p] \in {"cards", "fixed", "of this vault"} => Unwraps(kek[p], wrapped)
  /\ answer[p] = "not of this vault" => wrapped # None /\ ~Unwraps(kek[p], wrapped)
  /\ answer[p] # "changed meanwhile"

UpToDate(p) == ~rekeyed[p] => Current(p) /\ Truthful(p)

Founded ==
  OneMaker => /\ Whole
              /\ \A p \in Makers : Made(p)
              /\ \A p \in Procs : UpToDate(p)

CommandOK(p) == Stage(p) /\ Memory(p)

Ground == FileOK /\ CommandsOK /\ \A p \in Procs : CommandOK(p)

VaultInv == Ground /\ Founded

-----------------------------------------------------------------------------
(* One command at a time *)

\* Only command p moves.
Moves(p) ==
  /\ pc' = [pc EXCEPT ![p] = pc'[p]]
  /\ pass' = [pass EXCEPT ![p] = pass'[p]]
  /\ saw' = [saw EXCEPT ![p] = saw'[p]]
  /\ kek' = [kek EXCEPT ![p] = kek'[p]]
  /\ answer' = [answer EXCEPT ![p] = answer'[p]]

\* The others know no less of the restores that committed, what is written stays
\* written, cards are not lost and a restore keeps the passphrase it was given.
Grows(p) ==
  /\ rekeyed' \in [Procs -> BOOLEAN]
  /\ \A q \in Procs : q # p /\ rekeyed[q] => rekeyed'[q]
  /\ params # None => params' # None
  /\ wrapped # None => wrapped' # None
  /\ cards \subseteq cards'
  /\ p \in Restores /\ pass[p] # None => pass'[p] = pass[p]
  /\ \A q \in Inits : q # p => (q \in founders' <=> q \in founders)

\* The memory of command p is of its types.
LocalOK(p) ==
  /\ pc[p] \in Steps /\ pass[p] \in Row(Passphrases) /\ saw[p] \in Rows
  /\ kek[p] \in KEKs \cup {NoKEK} /\ answer[p] \in Answers

\* Another command stays as it was.
LEMMA OthersStay ==
  ASSUME CommandsOK, NEW p \in Procs, Moves(p), NEW q \in Procs, q # p
  PROVE  /\ pc'[q] = pc[q] /\ pass'[q] = pass[q] /\ saw'[q] = saw[q]
         /\ kek'[q] = kek[q] /\ answer'[q] = answer[q]
BY DEF CommandsOK, Moves

\* A step of one command keeps what every command relies on.
LEMMA GroundStays ==
  ASSUME Ground, NEW p \in Procs, Moves(p), Grows(p), FileOK', LocalOK(p)', CommandOK(p)'
  PROVE  Ground'
<1>1. CommandsOK /\ FileOK /\ \A q \in Procs : CommandOK(q)
  BY DEF Ground
<1>2. CommandsOK'
  BY <1>1 DEF CommandsOK, Moves, LocalOK, Grows
<1>3. ASSUME NEW q \in Procs, q # p
      PROVE  CommandOK(q)'
  <2>1. /\ pc'[q] = pc[q] /\ pass'[q] = pass[q] /\ saw'[q] = saw[q]
        /\ kek'[q] = kek[q] /\ answer'[q] = answer[q]
    BY <1>1, <1>3, OthersStay
  <2>2. q \in founders' <=> q \in founders
    BY <1>1, <1>3 DEF Grows, FileOK, Procs
  <2>3. Stage(q)'
    BY <2>1, <2>2, <1>1 DEF CommandOK, Stage, Makers
  <2>4. Memory(q)'
    BY <2>1, <1>1 DEF CommandOK, Memory, Grows
  <2> QED BY <2>3, <2>4 DEF CommandOK
<1> QED BY <1>1, <1>2, <1>3 DEF Ground

\* A key that is held stays so: cards are not lost, and those a quiet restore has
\* still to print are of the passphrase it keeps.
LEMMA HeldStays ==
  ASSUME CommandsOK, NEW p \in Procs, Moves(p), Grows(p), CommandOK(p)',
         NEW key \in KEKs, Held(key)
  PROVE  Held(key)'
<1>1. CASE key \in cards
  BY <1>1 DEF Held, Grows
<1>2. CASE Unprinted(key)
  <2> PICK r \in Quiet : answer[r] # "fixed" /\ key = DeriveKEK(pass[r], r)
    BY <1>2 DEF Unprinted
  <2>1. r \in Restores /\ r \in Procs
    BY CommandsAssumption DEF Procs
  <2>2. pass[r] # None
    BY NoneAssumption DEF DeriveKEK, KEKs
  <2>3. pass'[r] = pass[r]
    BY <2>1, <2>2, OthersStay DEF Grows
  <2>4. key = DeriveKEK(pass'[r], r)
    BY <2>3
  <2>5. CASE answer'[r] # "fixed"
    BY <2>4, <2>5 DEF Held, Unprinted
  <2>6. CASE answer'[r] = "fixed"
    <3>1. r = p
      BY <2>1, <2>6, OthersStay
    <3> QED BY <2>4, <2>6, <3>1 DEF CommandOK, Memory, Held
  <2> QED BY <2>5, <2>6
<1> QED BY <1>1, <1>2 DEF Held

\* So does the key that opens the vault, in a step that does not write it.
LEMMA KeptKey ==
  ASSUME FileOK, CommandsOK, NEW p \in Procs, Moves(p), Grows(p), CommandOK(p)',
         wrapped # None, wrapped' = wrapped, Held(wrapped.kek)
  PROVE  Held(wrapped.kek)'
<1>1. wrapped.kek \in KEKs
  BY DEF FileOK, Row
<1> DEFINE key == wrapped.kek
<1> HIDE DEF key
<1>2. Held(key)'
  BY <1>1, HeldStays DEF key
<1> QED BY <1>2 DEF key

\* The same for what the rows say, of a step that writes none and makes no file.
LEMMA FoundedStays ==
  ASSUME VaultInv, NEW p \in Procs, Moves(p), Grows(p),
         CommandOK(p)', UNCHANGED <<params, wrapped, identity, signer>>, Makers' = Makers,
         OneMaker => (p \in Makers => Made(p)') /\ UpToDate(p)'
  PROVE  Founded'
<1> SUFFICES ASSUME OneMaker'
             PROVE  Whole' /\ (\A q \in Makers' : Made(q)') /\ \A q \in Procs : UpToDate(q)'
  BY DEF Founded
<1>1. OneMaker
  BY DEF OneMaker
<1>2. Whole /\ (\A q \in Makers : Made(q)) /\ \A q \in Procs : UpToDate(q)
  BY <1>1 DEF VaultInv, Founded
<1>3. CommandsOK /\ FileOK
  BY DEF VaultInv, Ground
<1>4. Whole'
  BY <1>2 DEF Whole
<1>5. ASSUME NEW q \in Procs, q # p
      PROVE  (q \in Makers => Made(q)') /\ UpToDate(q)'
  <2>1. /\ pc'[q] = pc[q] /\ pass'[q] = pass[q] /\ saw'[q] = saw[q]
        /\ kek'[q] = kek[q] /\ answer'[q] = answer[q]
    BY <1>3, <1>5, OthersStay
  <2>2. rekeyed[q] => rekeyed'[q]
    BY <1>5 DEF Grows
  <2>3. q \in Makers => Made(q)'
    <3>1. wrapped # None /\ Held(wrapped.kek) => Held(wrapped.kek)'
      BY <1>3, KeptKey
    <3> QED BY <2>1, <2>2, <3>1, <1>2 DEF Made
  <2>4. UpToDate(q)'
    BY <2>1, <2>2, <1>2 DEF UpToDate, Current, Truthful
  <2> QED BY <2>3, <2>4
<1>6. Makers \subseteq Procs
  BY <1>3 DEF Makers, FileOK, Procs
<1> QED BY <1>1, <1>4, <1>5, <1>6

\* What a step of p may start from.
LEMMA Here ==
  ASSUME VaultInv, NEW p \in Procs
  PROVE  FileOK /\ CommandsOK /\ LocalOK(p) /\ CommandOK(p)
BY DEF VaultInv, Ground, CommandsOK, LocalOK

\* A step that keeps the founders makes nobody a maker unless p leaves "create".
LEMMA MakersStay ==
  ASSUME FileOK, CommandsOK, NEW p \in Procs, Moves(p), founders' = founders,
         pc'[p] # "create" <=> pc[p] # "create"
  PROVE  Makers' = Makers
BY DEF FileOK, CommandsOK, Moves, Makers, Procs

\* A step that leaves the rows and keeps the invariant for its own command.
LEMMA QuietStep ==
  ASSUME VaultInv, NEW p \in Procs, Moves(p), Grows(p), FileOK', LocalOK(p)', CommandOK(p)',
         UNCHANGED <<params, wrapped, identity, signer>>, Makers' = Makers,
         OneMaker => (p \in Makers => Made(p)') /\ UpToDate(p)'
  PROVE  VaultInv'
<1>1. Ground'
  BY GroundStays DEF VaultInv
<1>2. Founded'
  BY FoundedStays
<1> QED BY <1>1, <1>2 DEF VaultInv

\* What is true of p with one maker.
LEMMA HereFounded ==
  ASSUME VaultInv, NEW p \in Procs, OneMaker
  PROVE  Whole /\ (p \in Makers => Made(p)) /\ UpToDate(p)
BY DEF VaultInv, Founded

\* A command that ends relies on nothing any more.
LEMMA EndedIsOK ==
  ASSUME FileOK', NEW p \in Procs, pc'[p] = (IF p \in Users THEN "idle" ELSE "ended"),
         p \in Inits /\ answer'[p] = "cards" => p \in Makers',
         p \in Quiet /\ answer'[p] = "fixed" => DeriveKEK(pass'[p], p) \in cards'
  PROVE  CommandOK(p)'
<1>1. p \in Users => p \notin Inits /\ p \notin founders'
  BY CommandsAssumption DEF FileOK
<1>2. Stage(p)'
  BY <1>1 DEF Stage, InitSteps, RestoreSteps
<1>3. Memory(p)'
  BY <1>1, CommandsAssumption DEF Memory, RestoreSteps
<1> QED BY <1>2, <1>3 DEF CommandOK

-----------------------------------------------------------------------------
(* The steps that write no row *)

\* A command that dies leaves the rows as they are.
LEMMA DieKeeps ==
  ASSUME VaultInv, NEW p \in Procs, Die(p)
  PROVE  VaultInv'
<1>1. FileOK /\ CommandsOK /\ LocalOK(p) /\ CommandOK(p)
  BY Here
<1>2. Moves(p) /\ pc'[p] = (IF p \in Users THEN "idle" ELSE "ended") /\ answer'[p] = "none"
  BY <1>1 DEF Die, End, Goto, Moves, CommandsOK, memory
<1>3. Grows(p)
  BY <1>1, <1>2 DEF Die, Grows, CommandsOK, file, memory, FileOK
<1>4. FileOK'
  BY <1>1 DEF Die, FileOK, file
<1>5. LocalOK(p)'
  BY <1>1, <1>2 DEF Die, LocalOK, memory, Steps, Answers
<1>6. Makers' = Makers
  BY <1>1, <1>2 DEF Die, Makers, CommandsOK, Moves, CommandOK, Stage, FileOK, Procs, InitSteps
<1>7. CommandOK(p)'
  BY <1>1, <1>2, CommandsAssumption
  DEF Die, CommandOK, Stage, Memory, InitSteps, RestoreSteps, memory, file, FileOK, Procs
<1>8. OneMaker => (p \in Makers => Made(p)') /\ UpToDate(p)'
  BY <1>2 DEF Made, UpToDate, Current, Truthful
<1> QED BY <1>2, <1>3, <1>4, <1>5, <1>6, <1>7, <1>8, QuietStep DEF Die, file

\* An init that finds no file has written nothing yet.
LEMMA StatFileKeeps ==
  ASSUME VaultInv, NEW p \in Procs, NEW phrase \in Passphrases, StatFile(p, phrase)
  PROVE  VaultInv'
<1>1. FileOK /\ CommandsOK /\ LocalOK(p) /\ CommandOK(p)
  BY Here
<1>2. /\ Moves(p) /\ p \in Inits /\ pc[p] = "idle"
      /\ pc'[p] = "create" /\ answer'[p] = "none" /\ pass'[p] = phrase
  BY <1>1 DEF StatFile, Start, Goto, Moves, CommandsOK
<1>3. Grows(p)
  BY <1>1, CommandsAssumption DEF StatFile, Start, Grows, CommandsOK, file
<1>4. FileOK'
  BY <1>1, <1>2 DEF StatFile, FileOK, file
<1>5. LocalOK(p)'
  BY <1>1, <1>2 DEF StatFile, LocalOK, Row, Steps, Answers
<1>6. Makers' = Makers
  BY <1>1, <1>2 DEF StatFile, Makers, CommandsOK, Moves, CommandOK, Stage, FileOK, Procs
<1>7. CommandOK(p)'
  BY <1>1, <1>2, CommandsAssumption
  DEF StatFile, CommandOK, Stage, Memory, InitSteps, RestoreSteps, file, Procs
<1>8. OneMaker => (p \in Makers => Made(p)') /\ UpToDate(p)'
  BY <1>2 DEF Made, UpToDate, Current, Truthful
<1> QED BY <1>2, <1>3, <1>4, <1>5, <1>6, <1>7, <1>8, QuietStep DEF StatFile, file

\* The salt that unlocking reads is the one that is there.
LEMMA UnlockParamsKeeps ==
  ASSUME VaultInv, NEW p \in Procs, NEW phrase \in Passphrases, UnlockParams(p, phrase)
  PROVE  VaultInv'
<1>1. FileOK /\ CommandsOK /\ LocalOK(p) /\ CommandOK(p)
  BY Here
<1>2. /\ Moves(p) /\ pc'[p] = "unlock" /\ pass'[p] = phrase
      /\ saw'[p] = [salt |-> params, wrapped |-> saw[p].wrapped]
      /\ kek'[p] = kek[p] /\ params # None
      /\ \/ p \in Users /\ pc[p] = "idle" /\ answer'[p] = "none"
         \/ /\ pc[p] = "check" /\ phrase = pass[p] /\ answer'[p] = answer[p]
            /\ rekeyed'[p] = rekeyed[p]
  BY <1>1 DEF UnlockParams, Start, Goto, Moves, CommandsOK, LocalOK, Rows
<1>3. Grows(p)
  BY <1>1, <1>2, CommandsAssumption DEF UnlockParams, Start, Grows, CommandsOK, file
<1>4. FileOK'
  BY <1>1 DEF UnlockParams, FileOK, file
<1>5. LocalOK(p)'
  <2>1. saw'[p] \in Rows
    BY <1>1, <1>2 DEF LocalOK, Rows, FileOK
  <2>2. answer'[p] \in Answers
    BY <1>1, <1>2 DEF LocalOK, Answers
  <2> QED BY <1>1, <1>2, <2>1, <2>2 DEF LocalOK, Row, Steps
<1>6. Makers' = Makers
  BY <1>1, <1>2, MakersStay DEF UnlockParams
<1>7. CommandOK(p)'
  BY <1>1, <1>2, CommandsAssumption
  DEF UnlockParams, CommandOK, Stage, Memory, InitSteps, RestoreSteps, file, Procs
<1>8. OneMaker => (p \in Makers => Made(p)') /\ UpToDate(p)'
  <2>1. p \notin Makers
    BY <1>1, <1>2, CommandsAssumption
    DEF CommandOK, Stage, RestoreSteps, Makers, FileOK
  <2>2. SUFFICES ASSUME OneMaker, ~rekeyed'[p]
                 PROVE  Current(p)' /\ Truthful(p)'
    BY <2>1 DEF UpToDate
  <2>3. wrapped' = wrapped /\ params' = params
    BY DEF UnlockParams, file
  <2>4. answer'[p] = "none"
    BY <1>1, <1>2 DEF CommandOK, Stage
  <2>5. p \in Restores => Unwraps(kek'[p], wrapped')
    BY <1>2, <2>2, <2>3, HereFounded, CommandsAssumption DEF UpToDate, Current
  <2> QED BY <1>2, <2>3, <2>4, <2>5 DEF Current, Truthful
<1> QED BY <1>2, <1>3, <1>4, <1>5, <1>6, <1>7, <1>8, QuietStep DEF UnlockParams, file

\* A passphrase that does not unwrap the key is wrong, one that does opens.
LEMMA UnlockDEKKeeps ==
  ASSUME VaultInv, NEW p \in Procs, UnlockDEK(p)
  PROVE  VaultInv'
<1> DEFINE key == DeriveKEK(pass[p], saw[p].salt)
<1>1. FileOK /\ CommandsOK /\ LocalOK(p) /\ CommandOK(p)
  BY Here
<1>2. /\ Moves(p) /\ pc[p] = "unlock" /\ pass'[p] = pass[p] /\ kek'[p] = kek[p]
      /\ saw'[p] = [salt |-> saw[p].salt, wrapped |-> wrapped]
      /\ rekeyed'[p] = rekeyed[p]
  BY <1>1 DEF UnlockDEK, End, Goto, Moves, CommandsOK, LocalOK, Rows, history
<1>3. \/ /\ wrapped = None /\ answer'[p] = "no vault"
         /\ pc'[p] = IF p \in Users THEN "idle" ELSE "ended"
      \/ /\ wrapped # None /\ ~Unwraps(key, wrapped) /\ answer'[p] = "wrong passphrase"
         /\ pc'[p] = IF p \in Users THEN "idle" ELSE "ended"
      \/ /\ Unwraps(key, wrapped) /\ p \in Restores /\ answer'[p] = "fixed"
         /\ pc'[p] = IF p \in Users THEN "idle" ELSE "ended"
         /\ p \in Quiet => kek[p] \in cards'
      \/ /\ Unwraps(key, wrapped) /\ p \in Users /\ answer'[p] = answer[p]
         /\ pc'[p] \in {"derive", "load"}
  BY <1>1 DEF UnlockDEK, PrintLast, BackupKEK, End, Goto, CommandsOK
<1>4. /\ cards \subseteq cards'
      /\ cards' \subseteq cards \cup {kek[p]}
      /\ p \notin Restores => cards' = cards
  BY CommandsAssumption DEF UnlockDEK, PrintLast, BackupKEK
<1>5. p \in Restores => kek[p] \in KEKs /\ kek[p] = DeriveKEK(pass[p], p)
  BY <1>1, <1>2 DEF CommandOK, Memory, DeriveKEK, KEKs, Salts
<1>6. UNCHANGED <<exists, params, wrapped, identity, signer, founders, rekeyed>>
  BY DEF UnlockDEK, file, history
<1>7. Grows(p)
  BY <1>1, <1>2, <1>4, <1>6 DEF Grows, CommandsOK
<1>8. FileOK'
  BY <1>1, <1>4, <1>5, <1>6 DEF FileOK
<1>9. LocalOK(p)'
  <2>1. saw'[p] \in Rows
    BY <1>1, <1>2 DEF LocalOK, Rows, FileOK
  <2>2. pc'[p] \in Steps
    BY <1>3 DEF Steps
  <2>3. answer'[p] \in Answers
    BY <1>1, <1>3 DEF LocalOK, Answers
  <2> QED BY <1>1, <1>2, <2>1, <2>2, <2>3 DEF LocalOK
<1>10. Makers' = Makers
  BY <1>1, <1>2, <1>3, MakersStay DEF UnlockDEK, history
<1>11. CommandOK(p)'
  <2>1. CASE pc'[p] = IF p \in Users THEN "idle" ELSE "ended"
    <3>1. p \in Inits => answer'[p] # "cards"
      BY <1>1, <1>2 DEF CommandOK, Stage
    <3>2. p \in Quiet /\ answer'[p] = "fixed" => DeriveKEK(pass'[p], p) \in cards'
      BY <1>1, <1>2, <1>3, <1>5, CommandsAssumption DEF CommandOK, Stage
    <3> QED BY <2>1, <3>1, <3>2, <1>8, EndedIsOK
  <2>2. CASE pc'[p] \in {"derive", "load"} /\ p \in Users /\ answer'[p] = answer[p]
    <3>1. Stage(p)'
      BY <1>1, <1>2, <2>2, CommandsAssumption
      DEF CommandOK, Stage, InitSteps, RestoreSteps, FileOK, UnlockDEK, history
    <3>2. Memory(p)'
      BY <1>1, <1>2, <2>2, CommandsAssumption DEF CommandOK, Memory, RestoreSteps, UnlockDEK, file
    <3> QED BY <3>1, <3>2 DEF CommandOK
  <2> QED BY <1>3, <2>1, <2>2
<1>12. OneMaker => (p \in Makers => Made(p)') /\ UpToDate(p)'
  <2>1. p \notin Makers
    BY <1>1, <1>2 DEF CommandOK, Stage, Makers, FileOK
  <2>2. SUFFICES ASSUME OneMaker, ~rekeyed'[p]
                 PROVE  Current(p)' /\ Truthful(p)'
    BY <2>1 DEF UpToDate
  <2>3. wrapped' = wrapped /\ params' = params
    BY DEF UnlockDEK, file
  <2>4. Whole /\ Current(p) /\ Truthful(p)
    BY <1>2, <2>2, HereFounded DEF UpToDate
  <2>5. saw[p].salt = params
    BY <1>2, <2>4 DEF Current
  <2>6. wrapped # None => wrapped.kek = DeriveKEK(wrapped.kek.pass, params)
    BY <1>1, <2>4 DEF Whole, FileOK, Row, KEKs, DeriveKEK
  <2>7. Current(p)'
    BY <1>2, <1>3, <2>3, <2>5, CommandsAssumption DEF Current
  <2>8. Truthful(p)'
    BY <1>2, <1>3, <2>3, <2>4, <2>5, <2>6 DEF Truthful, Unwraps, Current
  <2> QED BY <2>7, <2>8
<1> QED BY <1>2, <1>7, <1>8, <1>9, <1>10, <1>11, <1>12, QuietStep DEF UnlockDEK, file

\* Loading the identity writes nothing.
LEMMA LoadIdentityKeeps ==
  ASSUME VaultInv, NEW p \in Procs, LoadIdentity(p)
  PROVE  VaultInv'
<1>1. FileOK /\ CommandsOK /\ LocalOK(p) /\ CommandOK(p)
  BY Here
<1>2. /\ Moves(p) /\ pc[p] = "load" /\ pc'[p] = (IF p \in Users THEN "idle" ELSE "ended")
      /\ answer'[p] \in {"opened", "no identity"}
  BY <1>1 DEF LoadIdentity, End, Goto, Moves, CommandsOK, memory
<1>3. Grows(p)
  BY <1>1, <1>2 DEF LoadIdentity, Grows, CommandsOK, file, memory, history
<1>4. FileOK'
  BY <1>1 DEF LoadIdentity, FileOK, file, history
<1>5. LocalOK(p)'
  BY <1>1, <1>2 DEF LoadIdentity, LocalOK, memory, Steps, Answers
<1>6. Makers' = Makers
  BY <1>1, <1>2, MakersStay DEF LoadIdentity, history
<1>7. CommandOK(p)'
  BY <1>2, <1>4, EndedIsOK
<1>8. OneMaker => (p \in Makers => Made(p)') /\ UpToDate(p)'
  BY <1>2 DEF Made, UpToDate, Current, Truthful
<1> QED BY <1>2, <1>3, <1>4, <1>5, <1>6, <1>7, <1>8, QuietStep DEF LoadIdentity, file

\* The cards init prints, and those of backup, open the vault.
LEMMA PrintCardsKeeps ==
  ASSUME VaultInv, NEW p \in Procs, PrintCards(p)
  PROVE  VaultInv'
<1> DEFINE key == DeriveKEK(pass[p], params)
<1>1. FileOK /\ CommandsOK /\ LocalOK(p) /\ CommandOK(p)
  BY Here
<1>2. /\ Moves(p) /\ pc[p] = "derive" /\ pass'[p] = pass[p] /\ saw'[p] = saw[p]
      /\ kek'[p] = key /\ answer'[p] = "cards" /\ rekeyed'[p] = rekeyed[p]
      /\ pc'[p] = IF p \in Users THEN "idle" ELSE "ended"
  BY <1>1 DEF PrintCards, End, Goto, Moves, CommandsOK, history
<1>3. cards' = cards \cup {key}
  BY <1>1, <1>2 DEF PrintCards, BackupKEK
<1>4. key \in KEKs
  <2>1. pass[p] \in Passphrases /\ params \in Salts
    BY <1>1, <1>2 DEF CommandOK, Memory, FileOK, Row
  <2> QED BY <2>1 DEF KEKs, DeriveKEK
<1>5. Grows(p)
  BY <1>1, <1>3 DEF PrintCards, Grows, CommandsOK, file, history
<1>6. FileOK'
  BY <1>1, <1>3, <1>4 DEF PrintCards, FileOK, file, history
<1>7. LocalOK(p)'
  BY <1>1, <1>2, <1>4 DEF LocalOK, Steps, Answers
<1>8. Makers' = Makers
  BY <1>1, <1>2, MakersStay DEF PrintCards, history
<1>9. p \in Inits => p \in Makers
  BY <1>1, <1>2, CommandsAssumption DEF CommandOK, Stage, Makers
<1>10. CommandOK(p)'
  BY <1>2, <1>6, <1>8, <1>9, EndedIsOK
<1>11. OneMaker => (p \in Makers => Made(p)') /\ UpToDate(p)'
  <2> SUFFICES ASSUME OneMaker
               PROVE  (p \in Makers => Made(p)') /\ UpToDate(p)'
    OBVIOUS
  <2>1. Whole /\ (p \in Makers => Made(p)) /\ UpToDate(p)
    BY HereFounded
  <2>2. wrapped' = wrapped /\ params' = params
    BY DEF PrintCards, file
  <2>3. ASSUME p \in Makers
        PROVE  /\ wrapped # None /\ (Held(wrapped.kek) \/ wrapped.kek = key)
               /\ ~rekeyed[p] => wrapped.kek = key
    <3>1. wrapped.kek = DeriveKEK(pass[p], p) => wrapped.kek = key
      BY <1>2, <2>1, <2>3 DEF Whole, Made, DeriveKEK
    <3> QED BY <1>2, <2>1, <2>3, <3>1 DEF Made
  <2>4. p \in Makers => Made(p)'
    <3> SUFFICES ASSUME p \in Makers PROVE Made(p)'
      OBVIOUS
    <3>1. Held(wrapped.kek)'
      <4>1. CASE Held(wrapped.kek)
        BY <1>1, <1>2, <1>5, <1>10, <2>2, <2>3, <4>1, KeptKey
      <4>2. CASE wrapped.kek = key
        BY <1>3, <2>2, <4>2 DEF Held
      <4> QED BY <2>3, <4>1, <4>2
    <3> QED BY <1>2, <2>2, <2>3, <3>1 DEF Made
  <2>5. ~rekeyed[p] => Unwraps(key, wrapped)
    BY <1>1, <1>2, <1>9, <2>1, <2>3 DEF UpToDate, Current, CommandOK, Stage, Unwraps, Makers
  <2>6. UpToDate(p)'
    BY <1>2, <2>2, <2>5 DEF UpToDate, Current, Truthful
  <2> QED BY <2>4, <2>6
<1> QED BY <1>2, <1>5, <1>6, <1>7, <1>8, <1>10, <1>11, QuietStep DEF PrintCards, file

\* What restore says of the cards it was given is what the wrapped key says.
LEMMA CheckCardsKeeps ==
  ASSUME VaultInv, NEW p \in Procs, NEW key \in cards, CheckCards(p, key)
  PROVE  VaultInv'
<1>1. FileOK /\ CommandsOK /\ LocalOK(p) /\ CommandOK(p)
  BY Here
<1>2. /\ Moves(p) /\ pc[p] = "idle" /\ p \in Restores /\ pass'[p] = pass[p]
      /\ saw'[p] = saw[p] /\ kek'[p] = key /\ wrapped # None
  BY <1>1 DEF CheckCards, End, Goto, Moves, CommandsOK
<1>3. p \notin Inits /\ p \notin Users
  BY <1>2, CommandsAssumption
<1>4. \/ ~Unwraps(key, wrapped) /\ pc'[p] = "ended" /\ answer'[p] = "not of this vault"
      \/ Unwraps(key, wrapped) /\ pc'[p] = "ended" /\ answer'[p] = "of this vault"
      \/ Unwraps(key, wrapped) /\ pc'[p] = "prepare" /\ answer'[p] = answer[p]
  BY <1>1, <1>3 DEF CheckCards, End, Goto, CommandsOK
<1>5. Grows(p)
  BY <1>1 DEF CheckCards, Grows, CommandsOK, file
<1>6. FileOK'
  BY <1>1 DEF CheckCards, FileOK, file
<1>7. LocalOK(p)'
  <2>1. pc'[p] \in Steps /\ answer'[p] \in Answers
    BY <1>1, <1>4 DEF LocalOK, Steps, Answers
  <2>2. key \in KEKs
    BY <1>1 DEF FileOK
  <2> QED BY <1>1, <1>2, <2>1, <2>2 DEF LocalOK
<1>8. Makers' = Makers
  BY <1>1, <1>2, <1>4, MakersStay DEF CheckCards
<1>9. p \notin Makers /\ p \notin founders' /\ answer[p] = "none" /\ params' # None
  BY <1>1, <1>2, <1>3, <1>6 DEF Makers, FileOK, CommandOK, Stage, CheckCards, file
<1>10. CommandOK(p)'
  <2>1. Stage(p)'
    BY <1>2, <1>3, <1>4, <1>9 DEF Stage, InitSteps, RestoreSteps
  <2>2. Memory(p)'
    BY <1>1, <1>2, <1>4, <1>9 DEF CommandOK, Memory, RestoreSteps, CheckCards, file, FileOK
  <2> QED BY <2>1, <2>2 DEF CommandOK
<1>11. OneMaker => (p \in Makers => Made(p)') /\ UpToDate(p)'
  <2>1. wrapped' = wrapped
    BY DEF CheckCards, file
  <2> QED BY <1>2, <1>3, <1>4, <1>9, <2>1 DEF UpToDate, Current, Truthful
<1> QED BY <1>2, <1>5, <1>6, <1>7, <1>8, <1>10, <1>11, QuietStep DEF CheckCards, file

\* A restore remembers the salt that is there.
LEMMA ReadParamsKeeps ==
  ASSUME VaultInv, NEW p \in Procs, NEW phrase \in Passphrases, ReadParams(p, phrase)
  PROVE  VaultInv'
<1>1. FileOK /\ CommandsOK /\ LocalOK(p) /\ CommandOK(p)
  BY Here
<1>2. /\ Moves(p) /\ pc[p] = "prepare" /\ pc'[p] = "unwrap" /\ pass'[p] = phrase
      /\ saw'[p] = [salt |-> params, wrapped |-> saw[p].wrapped]
      /\ kek'[p] = kek[p] /\ answer'[p] = answer[p]
  BY <1>1 DEF ReadParams, Goto, Moves, CommandsOK, LocalOK, Rows
<1>3. p \in Restores /\ p \notin Inits /\ p \notin Users /\ p \notin Makers
  BY <1>1, <1>2, CommandsAssumption DEF CommandOK, Stage, RestoreSteps, Makers, FileOK
<1>4. Grows(p)
  BY <1>1, <1>2, <1>3 DEF ReadParams, Grows, CommandsOK, file, history, CommandOK, Memory
<1>5. FileOK'
  BY <1>1 DEF ReadParams, FileOK, file, history
<1>6. LocalOK(p)'
  <2>1. saw'[p] \in Rows
    BY <1>1, <1>2 DEF LocalOK, Rows, FileOK
  <2> QED BY <1>1, <1>2, <2>1 DEF LocalOK, Row, Steps
<1>7. Makers' = Makers
  BY <1>1, <1>2, MakersStay DEF ReadParams, history
<1>8. CommandOK(p)'
  <2>1. Stage(p)'
    BY <1>1, <1>2, <1>3, <1>5 DEF CommandOK, Stage, InitSteps, RestoreSteps, FileOK
  <2>2. Memory(p)'
    BY <1>1, <1>2, <1>3 DEF CommandOK, Stage, Memory, RestoreSteps, ReadParams, file
  <2> QED BY <2>1, <2>2 DEF CommandOK
<1>9. OneMaker => (p \in Makers => Made(p)') /\ UpToDate(p)'
  <2>1. params' = params /\ answer'[p] = "none"
    BY <1>1, <1>2 DEF ReadParams, file, CommandOK, Stage
  <2> QED BY <1>2, <1>3, <2>1 DEF UpToDate, Current, Truthful
<1> QED BY <1>2, <1>4, <1>5, <1>6, <1>7, <1>8, <1>9, QuietStep DEF ReadParams, file

\* A restore remembers the wrapped key that is there.
LEMMA PrepareRekeyKeeps ==
  ASSUME VaultInv, NEW p \in Procs, PrepareRekey(p)
  PROVE  VaultInv'
<1>1. FileOK /\ CommandsOK /\ LocalOK(p) /\ CommandOK(p)
  BY Here
<1>2. /\ Moves(p) /\ pc[p] = "unwrap" /\ pass'[p] = pass[p]
      /\ saw'[p] = [salt |-> saw[p].salt, wrapped |-> wrapped] /\ rekeyed'[p] = rekeyed[p]
  BY <1>1 DEF PrepareRekey, End, Goto, Moves, CommandsOK, LocalOK, Rows, history
<1>3. /\ p \in Restores /\ p \notin Inits /\ p \notin Users /\ p \notin Makers
      /\ wrapped # None /\ params # None /\ pass[p] \in Passphrases /\ answer[p] = "none"
  BY <1>1, <1>2, CommandsAssumption DEF CommandOK, Stage, Memory, RestoreSteps, Makers, FileOK
<1>4. \/ /\ Unwraps(kek[p], wrapped) /\ kek'[p] = DeriveKEK(pass[p], p)
         /\ pc'[p] = (IF p \in Quiet THEN "commit" ELSE "show") /\ answer'[p] = "none"
      \/ /\ ~Unwraps(kek[p], wrapped) /\ kek'[p] = kek[p]
         /\ pc'[p] = "ended" /\ answer'[p] = "not of this vault"
  BY <1>1, <1>3 DEF PrepareRekey, End, Goto, CommandsOK
<1>5. Grows(p)
  BY <1>1, <1>2 DEF PrepareRekey, Grows, CommandsOK, file, history
<1>6. FileOK'
  BY <1>1 DEF PrepareRekey, FileOK, file, history
<1>7. DeriveKEK(pass[p], p) \in KEKs
  BY <1>3 DEF DeriveKEK, KEKs, Salts
<1>8. LocalOK(p)'
  <2>1. saw'[p] \in Rows
    BY <1>1, <1>2 DEF LocalOK, Rows, FileOK
  <2>2. pc'[p] \in Steps /\ answer'[p] \in Answers
    BY <1>4 DEF Steps, Answers
  <2> QED BY <1>1, <1>2, <1>4, <1>7, <2>1, <2>2 DEF LocalOK
<1>9. Makers' = Makers
  BY <1>1, <1>2, <1>4, MakersStay DEF PrepareRekey, history
<1>10. CommandOK(p)'
  <2>1. Stage(p)'
    BY <1>3, <1>4, <1>6 DEF Stage, InitSteps, RestoreSteps, FileOK
  <2>2. params' = params /\ wrapped' = wrapped
    BY DEF PrepareRekey, file
  <2>3. saw'[p].wrapped # None
    BY <1>2, <1>3
  <2>4. Memory(p)'
    BY <1>2, <1>3, <1>4, <1>7, <2>2, <2>3 DEF Memory, RestoreSteps
  <2> QED BY <2>1, <2>4 DEF CommandOK
<1>11. OneMaker => (p \in Makers => Made(p)') /\ UpToDate(p)'
  <2>1. params' = params /\ wrapped' = wrapped
    BY DEF PrepareRekey, file
  <2>2. OneMaker /\ ~rekeyed[p] => saw[p].salt = params
    BY <1>2, HereFounded DEF UpToDate, Current
  <2>3. saw'[p].wrapped = wrapped /\ saw'[p].salt = saw[p].salt
    BY <1>2
  <2>4. OneMaker /\ ~rekeyed[p] => Current(p)'
    BY <1>3, <1>4, <2>1, <2>2, <2>3 DEF Current
  <2>5. Truthful(p)'
    BY <1>3, <1>4, <2>1 DEF Truthful
  <2> QED BY <1>2, <1>3, <2>4, <2>5 DEF UpToDate
<1> QED BY <1>2, <1>5, <1>6, <1>8, <1>9, <1>10, <1>11, QuietStep DEF PrepareRekey, file

\* The new cards are held before the new key is written.
LEMMA ShowCardsKeeps ==
  ASSUME VaultInv, NEW p \in Procs, ShowCards(p)
  PROVE  VaultInv'
<1>1. FileOK /\ CommandsOK /\ LocalOK(p) /\ CommandOK(p)
  BY Here
<1>2. /\ Moves(p) /\ pc[p] = "show" /\ pc'[p] = "confirm" /\ pass'[p] = pass[p]
      /\ saw'[p] = saw[p] /\ kek'[p] = kek[p] /\ answer'[p] = answer[p]
      /\ rekeyed'[p] = rekeyed[p] /\ cards' = cards \cup {kek[p]}
  BY <1>1 DEF ShowCards, BackupKEK, Goto, Moves, CommandsOK, memory, history
<1>3. /\ p \in Restores /\ p \notin Inits /\ p \notin Users /\ p \notin Makers
      /\ kek[p] \in KEKs
  BY <1>1, <1>2, CommandsAssumption DEF CommandOK, Stage, Memory, RestoreSteps, Makers, FileOK
<1>4. Grows(p)
  BY <1>1, <1>2 DEF ShowCards, Grows, CommandsOK, file, history
<1>5. FileOK'
  BY <1>1, <1>2, <1>3 DEF ShowCards, FileOK, file, history
<1>6. LocalOK(p)'
  BY <1>1, <1>2 DEF LocalOK, Steps
<1>7. Makers' = Makers
  BY <1>1, <1>2, MakersStay DEF ShowCards, history
<1>8. CommandOK(p)'
  <2>1. Stage(p)'
    BY <1>1, <1>2, <1>3, <1>5 DEF CommandOK, Stage, InitSteps, RestoreSteps, FileOK
  <2>2. Memory(p)'
    BY <1>1, <1>2 DEF CommandOK, Memory, RestoreSteps, ShowCards, file
  <2> QED BY <2>1, <2>2 DEF CommandOK
<1>9. OneMaker => (p \in Makers => Made(p)') /\ UpToDate(p)'
  <2>1. params' = params /\ wrapped' = wrapped
    BY DEF ShowCards, file
  <2> QED BY <1>2, <1>3, <2>1, HereFounded DEF UpToDate, Current, Truthful
<1> QED BY <1>2, <1>4, <1>5, <1>6, <1>7, <1>8, <1>9, QuietStep DEF ShowCards, file

\* Confirming writes nothing.
LEMMA ConfirmKeeps ==
  ASSUME VaultInv, NEW p \in Procs, Confirm(p)
  PROVE  VaultInv'
<1>1. FileOK /\ CommandsOK /\ LocalOK(p) /\ CommandOK(p)
  BY Here
<1>2. /\ Moves(p) /\ pc[p] = "confirm" /\ pass'[p] = pass[p]
      /\ saw'[p] = saw[p] /\ kek'[p] = kek[p] /\ rekeyed'[p] = rekeyed[p]
  BY <1>1 DEF Confirm, End, Goto, Moves, CommandsOK, memory, history
<1>3. /\ p \in Restores /\ p \notin Inits /\ p \notin Users /\ p \notin Makers
      /\ answer[p] = "none"
  BY <1>1, <1>2, CommandsAssumption DEF CommandOK, Stage, RestoreSteps, Makers, FileOK
<1>4. \/ pc'[p] = "commit" /\ answer'[p] = "none"
      \/ pc'[p] = "ended" /\ answer'[p] = "unconfirmed"
  BY <1>1, <1>3 DEF Confirm, End, Goto, CommandsOK
<1>5. Grows(p)
  BY <1>1, <1>2 DEF Confirm, Grows, CommandsOK, file, history
<1>6. FileOK'
  BY <1>1 DEF Confirm, FileOK, file, history
<1>7. LocalOK(p)'
  BY <1>1, <1>2, <1>4 DEF LocalOK, Steps, Answers
<1>8. Makers' = Makers
  BY <1>1, <1>2, <1>4, MakersStay DEF Confirm, history
<1>9. CommandOK(p)'
  <2>1. Stage(p)'
    BY <1>3, <1>4, <1>6 DEF Stage, InitSteps, RestoreSteps, FileOK
  <2>2. Memory(p)'
    BY <1>1, <1>2, <1>4 DEF CommandOK, Memory, RestoreSteps, Confirm, file
  <2> QED BY <2>1, <2>2 DEF CommandOK
<1>10. OneMaker => (p \in Makers => Made(p)') /\ UpToDate(p)'
  <2>1. params' = params /\ wrapped' = wrapped
    BY DEF Confirm, file
  <2> QED BY <1>2, <1>3, <1>4, <2>1, HereFounded DEF UpToDate, Current, Truthful
<1> QED BY <1>2, <1>5, <1>6, <1>7, <1>8, <1>9, <1>10, QuietStep DEF Confirm, file

\* A restore is told that the rows changed only if another one committed.
LEMMA MetaChangedKeeps ==
  ASSUME VaultInv, NEW p \in Procs, MetaChanged(p)
  PROVE  VaultInv'
<1>1. FileOK /\ CommandsOK /\ LocalOK(p) /\ CommandOK(p)
  BY Here
<1>2. /\ Moves(p) /\ pc[p] = "commit" /\ pc'[p] = (IF p \in Users THEN "idle" ELSE "ended")
      /\ answer'[p] = "changed meanwhile" /\ rekeyed'[p] = rekeyed[p]
  BY <1>1 DEF MetaChanged, End, Goto, Moves, CommandsOK, memory, history
<1>3. p \notin Makers
  BY <1>1, <1>2, CommandsAssumption DEF CommandOK, Stage, RestoreSteps, Makers, FileOK
<1>4. Grows(p)
  BY <1>1, <1>2 DEF MetaChanged, Grows, CommandsOK, file, memory, history
<1>5. FileOK'
  BY <1>1 DEF MetaChanged, FileOK, file, history
<1>6. LocalOK(p)'
  BY <1>1, <1>2 DEF MetaChanged, LocalOK, memory, Steps, Answers
<1>7. Makers' = Makers
  BY <1>1, <1>2, MakersStay DEF MetaChanged, history
<1>8. CommandOK(p)'
  BY <1>2, <1>5, EndedIsOK
<1>9. OneMaker => (p \in Makers => Made(p)') /\ UpToDate(p)'
  <2>1. OneMaker => rekeyed[p]
    BY <1>2, HereFounded DEF UpToDate, Current, MetaChanged, StillTheSame
  <2> QED BY <1>2, <1>3, <2>1 DEF UpToDate
<1> QED BY <1>2, <1>4, <1>5, <1>6, <1>7, <1>8, <1>9, QuietStep DEF MetaChanged, file

-----------------------------------------------------------------------------
(* The steps that write the file *)

\* An init that makes the file is the only maker, or there are two.
LEMMA CreateFileKeeps ==
  ASSUME VaultInv, NEW p \in Procs, CreateFile(p)
  PROVE  VaultInv'
<1>1. FileOK /\ CommandsOK /\ LocalOK(p) /\ CommandOK(p)
  BY Here
<1>2. /\ Moves(p) /\ pc[p] = "create" /\ pc'[p] = "params" /\ pass'[p] = pass[p]
      /\ kek'[p] = kek[p] /\ answer'[p] = answer[p]
  BY <1>1 DEF CreateFile, Goto, Moves, CommandsOK, memory
<1>3. p \in founders /\ p \in Inits /\ p \notin Users /\ p \notin Restores /\ answer[p] = "none"
  BY <1>1, <1>2, CommandsAssumption DEF CommandOK, Stage, InitSteps, FileOK
<1>4. Grows(p)
  BY <1>1, <1>2 DEF CreateFile, Grows, CommandsOK, history
<1>5. FileOK'
  BY <1>1 DEF CreateFile, FileOK, history
<1>6. LocalOK(p)'
  BY <1>1, <1>2 DEF CreateFile, LocalOK, memory, Steps
<1>7. CommandOK(p)'
  <2>1. Stage(p)'
    BY <1>2, <1>3 DEF Stage, InitSteps, RestoreSteps, CreateFile, history
  <2>2. Memory(p)'
    BY <1>1, <1>2 DEF CommandOK, Memory, RestoreSteps, CreateFile
  <2> QED BY <2>1, <2>2 DEF CommandOK
<1>8. Ground'
  BY <1>2, <1>4, <1>5, <1>6, <1>7, GroundStays DEF VaultInv
<1>9. Founded'
  <2> SUFFICES ASSUME OneMaker'
               PROVE  Whole' /\ (\A q \in Makers' : Made(q)') /\ \A q \in Procs : UpToDate(q)'
    BY DEF Founded
  <2>1. p \in Makers' /\ p \notin Makers
    BY <1>2, <1>3 DEF Makers, CreateFile, history
  <2>2. Makers = {}
    <3> SUFFICES ASSUME NEW q \in Makers PROVE FALSE
      OBVIOUS
    <3>1. q \in Makers' /\ q # p
      BY <1>1, <1>2, <2>1, OthersStay DEF Makers, CreateFile, history, FileOK, Procs
    <3> QED BY <2>1, <3>1 DEF OneMaker
  <2>3. Makers' = {p}
    BY <2>1 DEF OneMaker
  <2>4. OneMaker
    BY <2>2 DEF OneMaker
  <2>5. params = None /\ wrapped = None /\ identity = None /\ signer = None
    BY <2>2, <2>4, HereFounded DEF Whole
  <2>6. UNCHANGED <<params, wrapped, identity, signer>>
    BY DEF CreateFile
  <2>7. Whole'
    BY <2>3, <2>5, <2>6 DEF Whole
  <2>8. Made(p)'
    BY <1>2, <1>3, <2>5, <2>6 DEF Made
  <2>9. ASSUME NEW q \in Procs
        PROVE  UpToDate(q)'
    <3>1. CASE q = p
      BY <3>1, <1>2, <1>3 DEF UpToDate, Current, Truthful
    <3>2. CASE q # p
      <4>1. /\ pc'[q] = pc[q] /\ pass'[q] = pass[q] /\ saw'[q] = saw[q]
            /\ kek'[q] = kek[q] /\ answer'[q] = answer[q]
        BY <1>1, <1>2, <3>2, OthersStay
      <4>2. rekeyed[q] => rekeyed'[q]
        BY <1>4, <3>2 DEF Grows
      <4>3. UpToDate(q)
        BY <2>4, HereFounded
      <4> QED BY <4>1, <4>2, <4>3, <2>6 DEF UpToDate, Current, Truthful
    <3> QED BY <3>1, <3>2
  <2> QED BY <2>3, <2>7, <2>8, <2>9
<1> QED BY <1>8, <1>9 DEF VaultInv

\* Of the steps of a maker that writes a row: what is to be shown of its own rows.
LEMMA MakerWrites ==
  ASSUME VaultInv, NEW p \in Procs, p \in Makers, Moves(p), Grows(p), FileOK', LocalOK(p)',
         CommandOK(p)', Makers' = Makers,
         OneMaker /\ Makers = {p} => Whole' /\ Made(p)' /\ \A q \in Procs : UpToDate(q)'
  PROVE  VaultInv'
<1>1. Ground'
  BY GroundStays DEF VaultInv
<1>2. Founded'
  <2> SUFFICES ASSUME OneMaker'
               PROVE  Whole' /\ (\A q \in Makers' : Made(q)') /\ \A q \in Procs : UpToDate(q)'
    BY DEF Founded
  <2>1. OneMaker /\ Makers = {p}
    BY DEF OneMaker
  <2> QED BY <2>1
<1> QED BY <1>1, <1>2 DEF VaultInv

\* Nobody has read the salt before the parameters are written.
LEMMA PutParamsKeeps ==
  ASSUME VaultInv, NEW p \in Procs, PutParams(p)
  PROVE  VaultInv'
<1>1. FileOK /\ CommandsOK /\ LocalOK(p) /\ CommandOK(p)
  BY Here
<1>2. /\ Moves(p) /\ pc[p] = "params" /\ pc'[p] = "dek" /\ pass'[p] = pass[p]
      /\ saw'[p] = saw[p] /\ kek'[p] = kek[p] /\ answer'[p] = answer[p]
  BY <1>1 DEF PutParams, Goto, Moves, CommandsOK, memory
<1>3. /\ p \in Makers /\ p \in Inits /\ p \notin Users /\ p \notin Restores
      /\ answer[p] = "none" /\ p # None
  BY <1>1, <1>2, CommandsAssumption, NoneAssumption
  DEF CommandOK, Stage, InitSteps, FileOK, Makers
<1>4. Grows(p)
  BY <1>1, <1>3 DEF PutParams, Grows, CommandsOK, history
<1>5. FileOK'
  BY <1>1, <1>3 DEF PutParams, FileOK, history, Row, Salts
<1>6. LocalOK(p)'
  BY <1>1, <1>2 DEF LocalOK, Steps
<1>7. Makers' = Makers
  BY <1>1, <1>2, MakersStay DEF PutParams, history
<1>8. CommandOK(p)'
  <2>1. Stage(p)'
    BY <1>2, <1>3, <1>7 DEF Stage, InitSteps, RestoreSteps, Makers
  <2>2. params' # None
    BY <1>3 DEF PutParams
  <2>3. Memory(p)'
    BY <1>1, <1>2, <1>3, <2>2 DEF CommandOK, Memory, RestoreSteps
  <2> QED BY <2>1, <2>3 DEF CommandOK
<1>9. ASSUME OneMaker
      PROVE  Whole' /\ Made(p)' /\ \A q \in Procs : UpToDate(q)'
  <2>1. Whole /\ Made(p) /\ \A q \in Procs : UpToDate(q)
    BY <1>3, <1>9, HereFounded
  <2>2. params = None /\ wrapped = None /\ identity = None /\ signer = None
    BY <1>2, <2>1 DEF Made, Whole
  <2>3. params' = p /\ UNCHANGED <<wrapped, identity, signer>>
    BY DEF PutParams
  <2>4. Whole' /\ Made(p)'
    BY <1>2, <1>3, <1>7, <2>2, <2>3 DEF Whole, Made
  <2>5. ASSUME NEW q \in Procs, q # p
        PROVE  UpToDate(q)'
    <3>1. /\ pc'[q] = pc[q] /\ pass'[q] = pass[q] /\ saw'[q] = saw[q]
          /\ kek'[q] = kek[q] /\ answer'[q] = answer[q]
      BY <1>1, <1>2, <2>5, OthersStay
    <3>2. pc[q] \in {"idle", "ended", "create", "params"}
      BY <2>2 DEF VaultInv, Ground, CommandOK, Memory
    <3>3. rekeyed'[q] = rekeyed[q]
      BY DEF PutParams, history
    <3> QED BY <2>1, <2>3, <3>1, <3>2, <3>3 DEF UpToDate, Current, Truthful
  <2>6. UpToDate(p)'
    BY <1>2, <1>3 DEF UpToDate, Current, Truthful
  <2> QED BY <2>4, <2>5, <2>6
<1> QED BY <1>2, <1>3, <1>4, <1>5, <1>6, <1>7, <1>8, <1>9, MakerWrites

\* Nobody has read the wrapped key before it is written, or said anything of it.
LEMMA PutDEKKeeps ==
  ASSUME VaultInv, NEW p \in Procs, PutDEK(p)
  PROVE  VaultInv'
<1>1. FileOK /\ CommandsOK /\ LocalOK(p) /\ CommandOK(p)
  BY Here
<1>2. /\ Moves(p) /\ pc[p] = "dek" /\ pc'[p] = "identity" /\ pass'[p] = pass[p]
      /\ saw'[p] = saw[p] /\ kek'[p] = kek[p] /\ answer'[p] = answer[p]
  BY <1>1 DEF PutDEK, Goto, Moves, CommandsOK, memory
<1>3. /\ p \in Makers /\ p \in Inits /\ p \notin Users /\ p \notin Restores
      /\ answer[p] = "none" /\ pass[p] \in Passphrases /\ params # None
  BY <1>1, <1>2, CommandsAssumption
  DEF CommandOK, Stage, Memory, InitSteps, FileOK, Makers
<1>4. /\ wrapped' = WrapDEK(DeriveKEK(pass[p], p), p)
      /\ wrapped'.kek = DeriveKEK(pass[p], p) /\ wrapped'.kek.salt = p /\ wrapped'.dek = p
      /\ wrapped' \in [kek : KEKs, dek : DEKs] /\ wrapped' # None
  <2>1. DeriveKEK(pass[p], p) \in KEKs
    BY <1>3 DEF DeriveKEK, KEKs, Salts
  <2>2. WrapDEK(DeriveKEK(pass[p], p), p) \in [kek : KEKs, dek : DEKs]
    BY <1>3, <2>1 DEF WrapDEK, DEKs
  <2>3. wrapped' # None
    BY <2>2, NoneAssumption DEF PutDEK
  <2> QED BY <2>2, <2>3 DEF PutDEK, WrapDEK, DeriveKEK
<1>5. Grows(p)
  BY <1>1, <1>2, <1>4 DEF PutDEK, Grows, CommandsOK
<1>6. FileOK'
  BY <1>1, <1>3, <1>4 DEF PutDEK, FileOK, Row
<1>7. LocalOK(p)'
  BY <1>1, <1>2 DEF LocalOK, Steps
<1>8. Makers' = Makers
  BY <1>1, <1>2, MakersStay DEF PutDEK
<1>9. CommandOK(p)'
  <2>1. Stage(p)'
    BY <1>2, <1>3, <1>8 DEF Stage, InitSteps, RestoreSteps, Makers
  <2>2. params' # None
    BY <1>3 DEF PutDEK
  <2>3. Memory(p)'
    BY <1>1, <1>2, <1>3, <2>2 DEF CommandOK, Memory, RestoreSteps
  <2> QED BY <2>1, <2>3 DEF CommandOK
<1>10. ASSUME OneMaker
       PROVE  Whole' /\ Made(p)' /\ \A q \in Procs : UpToDate(q)'
  <2>1. Whole /\ Made(p) /\ \A q \in Procs : UpToDate(q)
    BY <1>3, <1>10, HereFounded
  <2>2. params = p /\ wrapped = None /\ identity = None /\ signer = None
    BY <1>2, <2>1 DEF Made, Whole
  <2>3. UNCHANGED <<params, identity, signer>>
    BY DEF PutDEK
  <2>4. Whole'
    BY <1>3, <1>4, <1>8, <2>2, <2>3 DEF Whole
  <2>5. Made(p)'
    BY <1>2, <1>3, <1>4, <2>2, <2>3 DEF Made
  <2>6. ASSUME NEW q \in Procs, q # p
        PROVE  UpToDate(q)'
    <3>1. /\ pc'[q] = pc[q] /\ pass'[q] = pass[q] /\ saw'[q] = saw[q]
          /\ kek'[q] = kek[q] /\ answer'[q] = answer[q]
      BY <1>1, <1>2, <2>6, OthersStay
    <3>2. rekeyed'[q] = rekeyed[q]
      BY DEF PutDEK
    <3> SUFFICES ASSUME ~rekeyed[q]
                 PROVE  Current(q)' /\ Truthful(q)'
      BY <3>2 DEF UpToDate
    <3>3. Current(q) /\ Truthful(q)
      BY <2>1 DEF UpToDate
    <3>4. pc[q] \notin {"show", "confirm", "commit"}
      BY <2>2, <3>3 DEF VaultInv, Ground, CommandOK, Memory, Current
    <3>5. Current(q)'
      BY <2>2, <2>3, <3>1, <3>3, <3>4 DEF Current, Unwraps
    <3>6. Truthful(q)'
      BY <2>2, <3>1, <3>3 DEF Truthful, Unwraps
    <3> QED BY <3>5, <3>6
  <2>7. UpToDate(p)'
    BY <1>2, <1>3 DEF UpToDate, Current, Truthful
  <2> QED BY <2>4, <2>5, <2>6, <2>7
<1> QED BY <1>2, <1>3, <1>5, <1>6, <1>7, <1>8, <1>9, <1>10, MakerWrites

\* The identity is closed with the data key that is wrapped, and is its maker's.
LEMMA SaveIdentityKeeps ==
  ASSUME VaultInv, NEW p \in Procs, SaveIdentity(p)
  PROVE  VaultInv'
<1>1. FileOK /\ CommandsOK /\ LocalOK(p) /\ CommandOK(p)
  BY Here
<1>2. /\ Moves(p) /\ pc[p] = "identity" /\ pc'[p] = "public" /\ pass'[p] = pass[p]
      /\ saw'[p] = saw[p] /\ kek'[p] = kek[p] /\ answer'[p] = answer[p]
  BY <1>1 DEF SaveIdentity, Goto, Moves, CommandsOK, memory
<1>3. /\ p \in Makers /\ p \in Inits /\ p \notin Users /\ p \notin Restores /\ answer[p] = "none"
  BY <1>1, <1>2, CommandsAssumption DEF CommandOK, Stage, InitSteps, FileOK, Makers
<1>4. /\ identity'.of = p /\ identity'.dek = p
      /\ identity' \in [of : Inits, dek : DEKs] /\ identity' # None
  BY <1>3, NoneAssumption DEF SaveIdentity, DEKs
<1>5. Grows(p)
  BY <1>1, <1>2 DEF SaveIdentity, Grows, CommandsOK, history
<1>6. FileOK'
  BY <1>1, <1>4 DEF SaveIdentity, FileOK, Row, history
<1>7. LocalOK(p)'
  BY <1>1, <1>2 DEF LocalOK, Steps
<1>8. Makers' = Makers
  BY <1>1, <1>2, MakersStay DEF SaveIdentity, history
<1>9. CommandOK(p)'
  <2>1. Stage(p)'
    BY <1>2, <1>3, <1>8 DEF Stage, InitSteps, RestoreSteps, Makers
  <2>2. Memory(p)'
    BY <1>1, <1>2, <1>3 DEF CommandOK, Memory, RestoreSteps, SaveIdentity
  <2> QED BY <2>1, <2>2 DEF CommandOK
<1>10. ASSUME OneMaker, Makers = {p}
       PROVE  Whole' /\ Made(p)' /\ \A q \in Procs : UpToDate(q)'
  <2>1. Whole /\ Made(p) /\ \A q \in Procs : UpToDate(q)
    BY <1>3, <1>10, HereFounded
  <2>2. UNCHANGED <<params, wrapped, signer, cards>> /\ rekeyed' = rekeyed
    BY DEF SaveIdentity, history
  <2>3. identity = None /\ signer = None /\ wrapped # None /\ wrapped.dek = p
    BY <1>2, <1>10, <2>1 DEF Made, Whole
  <2>4. Whole'
    BY <1>4, <1>8, <2>1, <2>2, <2>3 DEF Whole
  <2>5. Made(p)'
    <3>1. wrapped # None /\ Held(wrapped.kek) => Held(wrapped.kek)'
      BY <1>1, <1>2, <1>5, <1>9, <2>2, KeptKey
    <3> QED BY <1>2, <1>4, <2>1, <2>2, <3>1 DEF Made
  <2>6. ASSUME NEW q \in Procs
        PROVE  UpToDate(q)'
    <3>1. CASE q = p
      BY <3>1, <1>2, <1>3 DEF UpToDate, Current, Truthful
    <3>2. CASE q # p
      <4>1. /\ pc'[q] = pc[q] /\ pass'[q] = pass[q] /\ saw'[q] = saw[q]
            /\ kek'[q] = kek[q] /\ answer'[q] = answer[q]
        BY <1>1, <1>2, <3>2, OthersStay
      <4> QED BY <2>1, <2>2, <4>1 DEF UpToDate, Current, Truthful
    <3> QED BY <3>1, <3>2
  <2> QED BY <2>4, <2>5, <2>6
<1> QED BY <1>2, <1>3, <1>5, <1>6, <1>7, <1>8, <1>9, <1>10, MakerWrites

\* The public keys are those of the identity.
LEMMA PutPublicKeysKeeps ==
  ASSUME VaultInv, NEW p \in Procs, PutPublicKeys(p)
  PROVE  VaultInv'
<1>1. FileOK /\ CommandsOK /\ LocalOK(p) /\ CommandOK(p)
  BY Here
<1>2. /\ Moves(p) /\ pc[p] = "public" /\ pc'[p] = "derive" /\ pass'[p] = pass[p]
      /\ saw'[p] = saw[p] /\ kek'[p] = kek[p] /\ answer'[p] = answer[p]
  BY <1>1 DEF PutPublicKeys, Goto, Moves, CommandsOK, memory
<1>3. /\ p \in Makers /\ p \in Inits /\ p \notin Users /\ p \notin Restores
      /\ answer[p] = "none" /\ p # None
  BY <1>1, <1>2, CommandsAssumption, NoneAssumption
  DEF CommandOK, Stage, InitSteps, FileOK, Makers
<1>4. Grows(p)
  BY <1>1, <1>2 DEF PutPublicKeys, Grows, CommandsOK, history
<1>5. FileOK'
  BY <1>1, <1>3 DEF PutPublicKeys, FileOK, Row, history
<1>6. LocalOK(p)'
  BY <1>1, <1>2 DEF LocalOK, Steps
<1>7. Makers' = Makers
  BY <1>1, <1>2, MakersStay DEF PutPublicKeys, history
<1>8. CommandOK(p)'
  <2>1. Stage(p)'
    BY <1>2, <1>3, <1>7 DEF Stage, InitSteps, RestoreSteps, Makers
  <2>2. Memory(p)'
    BY <1>1, <1>2, <1>3 DEF CommandOK, Memory, RestoreSteps, PutPublicKeys
  <2> QED BY <2>1, <2>2 DEF CommandOK
<1>9. ASSUME OneMaker, Makers = {p}
      PROVE  Whole' /\ Made(p)' /\ \A q \in Procs : UpToDate(q)'
  <2>1. Whole /\ Made(p) /\ \A q \in Procs : UpToDate(q)
    BY <1>3, <1>9, HereFounded
  <2>2. UNCHANGED <<params, wrapped, identity, cards>> /\ rekeyed' = rekeyed /\ signer' = p
    BY DEF PutPublicKeys, history
  <2>3. identity # None /\ identity.of = p
    BY <1>2, <1>9, <2>1 DEF Made, Whole
  <2>4. Whole'
    BY <1>7, <2>1, <2>2, <2>3 DEF Whole
  <2>5. Made(p)'
    <3>1. wrapped # None /\ Held(wrapped.kek) => Held(wrapped.kek)'
      BY <1>1, <1>2, <1>4, <1>8, <2>2, KeptKey
    <3> QED BY <1>2, <2>1, <2>2, <3>1 DEF Made
  <2>6. ASSUME NEW q \in Procs
        PROVE  UpToDate(q)'
    <3>1. CASE q = p
      BY <3>1, <1>2, <1>3 DEF UpToDate, Current, Truthful
    <3>2. CASE q # p
      <4>1. /\ pc'[q] = pc[q] /\ pass'[q] = pass[q] /\ saw'[q] = saw[q]
            /\ kek'[q] = kek[q] /\ answer'[q] = answer[q]
        BY <1>1, <1>2, <3>2, OthersStay
      <4> QED BY <2>1, <2>2, <4>1 DEF UpToDate, Current, Truthful
    <3> QED BY <3>1, <3>2
  <2> QED BY <2>4, <2>5, <2>6
<1> QED BY <1>2, <1>3, <1>4, <1>5, <1>6, <1>7, <1>8, <1>9, MakerWrites

\* A restore commits over the rows it read, with a key whose cards somebody holds or
\* a quiet restore is to print, and from then on every other command knows less
\* than it did.
LEMMA CommitRekeyKeeps ==
  ASSUME VaultInv, NEW p \in Procs, CommitRekey(p)
  PROVE  VaultInv'
<1>1. FileOK /\ CommandsOK /\ LocalOK(p) /\ CommandOK(p)
  BY Here
<1>2. /\ Moves(p) /\ pc[p] = "commit" /\ pc'[p] = "check" /\ pass'[p] = pass[p]
      /\ saw'[p] = saw[p] /\ kek'[p] = kek[p] /\ answer'[p] = answer[p]
  BY <1>1 DEF CommitRekey, Goto, Moves, CommandsOK, memory
<1>3. /\ p \in Restores /\ p \notin Users /\ p \notin Inits /\ p \notin founders
      /\ answer[p] = "none" /\ pass[p] \in Passphrases /\ p # None
  BY <1>1, <1>2, CommandsAssumption, NoneAssumption
  DEF CommandOK, Stage, Memory, RestoreSteps, FileOK
<1>4. /\ kek[p] \in KEKs /\ kek[p] = DeriveKEK(pass[p], p)
      /\ p \notin Quiet => kek[p] \in cards
      /\ saw[p].wrapped = wrapped /\ wrapped # None
  BY <1>1, <1>2 DEF CommandOK, Memory, RestoreSteps, CommitRekey, StillTheSame
<1>5. wrapped.dek \in DEKs
  BY <1>1, <1>4 DEF FileOK, Row
<1>6. /\ wrapped'.kek = kek[p] /\ wrapped'.kek.salt = p /\ wrapped'.dek = wrapped.dek
      /\ wrapped' \in [kek : KEKs, dek : DEKs] /\ wrapped' # None
  <2>1. WrapDEK(kek[p], wrapped.dek) \in [kek : KEKs, dek : DEKs]
    BY <1>4, <1>5 DEF WrapDEK
  <2>2. wrapped' = WrapDEK(kek[p], wrapped.dek)
    BY <1>4 DEF CommitRekey
  <2>3. wrapped' # None
    BY <2>1, <2>2, NoneAssumption
  <2> QED BY <1>4, <2>1, <2>2, <2>3 DEF WrapDEK, DeriveKEK
<1>7. /\ params' = p /\ UNCHANGED <<identity, signer, cards, founders>>
      /\ rekeyed' = [q \in Procs |-> q # p \/ rekeyed[q]]
  BY DEF CommitRekey
<1>8. Grows(p)
  <2>1. rekeyed' \in [Procs -> BOOLEAN]
    BY <1>7
  <2>2. \A q \in Procs : q # p => rekeyed'[q]
    BY <1>7
  <2> QED BY <1>2, <1>3, <1>6, <1>7, <2>1, <2>2 DEF Grows
<1>9. FileOK'
  BY <1>1, <1>3, <1>6, <1>7 DEF CommitRekey, FileOK, Row, Salts
<1>10. LocalOK(p)'
  BY <1>1, <1>2 DEF LocalOK, Steps
<1>11. Makers' = Makers
  BY <1>1, <1>2, <1>7, MakersStay
<1>12. CommandOK(p)'
  <2>1. Stage(p)'
    BY <1>2, <1>3, <1>7 DEF Stage, InitSteps, RestoreSteps
  <2>2. params' # None
    BY <1>3, <1>7
  <2>3. Memory(p)'
    BY <1>2, <1>3, <1>4, <2>2 DEF Memory, RestoreSteps
  <2> QED BY <2>1, <2>3 DEF CommandOK
<1>13. Ground'
  BY <1>2, <1>8, <1>9, <1>10, <1>12, GroundStays DEF VaultInv
<1>14. ASSUME OneMaker
       PROVE  Whole' /\ (\A q \in Makers : Made(q)') /\ \A q \in Procs : UpToDate(q)'
  <2>1. Whole /\ (\A q \in Makers : Made(q)) /\ \A q \in Procs : UpToDate(q)
    BY <1>14 DEF VaultInv, Founded
  <2>2. Whole'
    BY <1>4, <1>6, <1>7, <1>11, <2>1 DEF Whole
  <2>3. ASSUME NEW q \in Makers
        PROVE  Made(q)'
    <3>1. q \in Procs /\ q # p
      BY <1>1, <1>3, <2>3 DEF Makers, FileOK, Procs
    <3>2. pc'[q] = pc[q] /\ answer'[q] = answer[q] /\ pass'[q] = pass[q]
      BY <1>1, <1>2, <3>1, OthersStay
    <3>3. rekeyed'[q]
      BY <1>7, <3>1
    <3>4. Made(q)
      BY <2>1
    <3>5. Held(wrapped.kek)'
      <4>1. CASE p \in Quiet
        BY <1>2, <1>3, <1>4, <1>6, <4>1 DEF Held, Unprinted
      <4>2. CASE p \notin Quiet
        BY <1>4, <1>6, <1>7, <4>2 DEF Held
      <4> QED BY <4>1, <4>2
    <3> QED BY <1>4, <1>6, <1>7, <3>2, <3>3, <3>4, <3>5 DEF Made
  <2>4. ASSUME NEW q \in Procs, q # p
        PROVE  UpToDate(q)'
    BY <1>7, <2>4 DEF UpToDate
  <2>5. UpToDate(p)'
    BY <1>2, <1>3, <1>4, <1>6 DEF UpToDate, Current, Truthful, Unwraps
  <2> QED BY <2>2, <2>3, <2>4, <2>5
<1>15. Founded'
  BY <1>11, <1>14 DEF Founded, OneMaker
<1> QED BY <1>13, <1>15 DEF VaultInv

-----------------------------------------------------------------------------
(* The theorems *)

\* Before anything runs there is no file and no command is under way.
LEMMA InitKeeps ==
  ASSUME Init
  PROVE  VaultInv
<1>1. FileOK
  BY DEF Init, FileOK, Row
<1>2. CommandsOK
  BY DEF Init, CommandsOK, Row, Steps, Answers, Rows, Unread
<1>3. Makers = {}
  BY DEF Init, Makers
<1>4. ASSUME NEW p \in Procs
      PROVE  CommandOK(p)
  BY DEF Init, CommandOK, Stage, Memory, InitSteps, RestoreSteps
<1>5. Ground
  BY <1>1, <1>2, <1>4 DEF Ground
<1>6. Whole
  BY DEF Init, Whole
<1>7. ASSUME NEW p \in Procs
      PROVE  UpToDate(p)
  BY DEF Init, UpToDate, Current, Truthful
<1>8. Founded
  BY <1>3, <1>6, <1>7 DEF Founded
<1> QED BY <1>5, <1>8 DEF VaultInv

\* Every step of every command keeps the invariant.
LEMMA NextKeeps ==
  ASSUME VaultInv, [Next]_vars
  PROVE  VaultInv'
<1>1. CASE Next
  <2> PICK p \in Procs : InitCommand(p) \/ Unlocking(p) \/ RestoreCommand(p) \/ Die(p)
    BY <1>1 DEF Next
  <2>1. CASE InitCommand(p)
    BY <2>1, StatFileKeeps, CreateFileKeeps, PutParamsKeeps, PutDEKKeeps, SaveIdentityKeeps,
       PutPublicKeysKeeps DEF InitCommand
  <2>2. CASE Unlocking(p)
    BY <2>2, UnlockParamsKeeps, UnlockDEKKeeps, PrintCardsKeeps, LoadIdentityKeeps DEF Unlocking
  <2>3. CASE RestoreCommand(p)
    BY <2>3, CheckCardsKeeps, ReadParamsKeeps, PrepareRekeyKeeps, ShowCardsKeeps, ConfirmKeeps,
       CommitRekeyKeeps, MetaChangedKeeps DEF RestoreCommand
  <2>4. CASE Die(p)
    BY <2>4, DieKeeps
  <2> QED BY <2>1, <2>2, <2>3, <2>4
<1>2. CASE UNCHANGED vars
  <2>1. UNCHANGED <<exists, params, wrapped, identity, signer, cards, pc, pass, saw, kek,
                    answer, founders, rekeyed>>
    BY <1>2 DEF vars, file, memory, history
  <2>2. (FileOK /\ CommandsOK)' <=> FileOK /\ CommandsOK
    BY <2>1 DEF FileOK, CommandsOK
  <2>3. \A p \in Procs : CommandOK(p)' <=> CommandOK(p)
    BY <2>1 DEF CommandOK, Stage, Memory, Makers
  <2>4. Makers' = Makers /\ (Whole' <=> Whole)
    BY <2>1 DEF Makers, Whole
  <2>5. \A p : Made(p)' <=> Made(p)
    BY <2>1 DEF Made, Held, Unprinted
  <2>6. \A p : UpToDate(p)' <=> UpToDate(p)
    BY <2>1 DEF UpToDate, Current, Truthful
  <2>7. Ground'
    BY <2>2, <2>3 DEF VaultInv, Ground
  <2>8. Founded'
    BY <2>4, <2>5, <2>6 DEF VaultInv, Founded, OneMaker
  <2> QED BY <2>7, <2>8 DEF VaultInv
<1> QED BY <1>1, <1>2

\* The invariant holds of every behaviour of the commands.
THEOREM VaultInvariant == Spec => []VaultInv
<1>1. Init => VaultInv
  BY InitKeeps
<1>2. VaultInv /\ [Next]_vars => VaultInv'
  BY NextKeeps
<1> QED BY <1>1, <1>2, PTL DEF Spec

\* Every variable of the vault keeps its type, for any commands and passphrases.
THEOREM VaultTypeCorrect == Spec => []TypeOK
<1>1. VaultInv => TypeOK
  BY DEF VaultInv, Ground, FileOK, CommandsOK, TypeOK
<1> QED BY <1>1, VaultInvariant, PTL

\* One founder is one maker at most.
LEMMA OneFounderOneMaker ==
  ASSUME OneFounder
  PROVE  OneMaker
BY DEF OneFounder, OneMaker, Makers

\* Whatever crash comes between two statements, the rows of the vault belong
\* together as long as one init made the file.
THEOREM VaultStaysWhole == Spec => []WholeVault
<1>1. VaultInv => WholeVault
  BY OneFounderOneMaker DEF VaultInv, Founded, Whole, WholeVault, Makers
<1> QED BY <1>1, VaultInvariant, PTL

\* Once the cards of init were printed, somebody holds cards of the key that opens
\* the vault, wherever a restore was interrupted; but for the key of a restore with
\* --json whose cards have not come out, which its passphrase opens.
THEOREM NobodyIsEverLockedOut == Spec => []NobodyIsLockedOut
<1>1. VaultInv => NobodyIsLockedOut
  <2> SUFFICES ASSUME VaultInv, OneFounder, NEW p \in Inits, answer[p] = "cards"
               PROVE  wrapped.kek \in cards \/ Unprinted(wrapped.kek)
    BY DEF NobodyIsLockedOut
  <2>1. p \in Procs
    BY DEF Procs
  <2>2. p \in Makers
    BY <2>1 DEF VaultInv, Ground, CommandOK, Stage
  <2> QED BY <2>1, <2>2, OneFounderOneMaker DEF VaultInv, Founded, Made, Held
<1> QED BY <1>1, VaultInvariant, PTL

\* What a command said of a passphrase or of cards stays true until another
\* restore commits.
THEOREM AnswersStayTrue == Spec => []AnswersAreTrue
<1>1. VaultInv => AnswersAreTrue
  BY OneFounderOneMaker DEF VaultInv, Founded, UpToDate, Truthful, AnswersAreTrue
<1> QED BY <1>1, VaultInvariant, PTL

\* Only a restore that read the wrapped key as it is replaces it, and it keeps the
\* data key.
THEOREM OnlyHoldersEverRekey == Spec => OnlyHoldersRekey
<1> DEFINE Rekeyed ==
      wrapped' # wrapped /\ wrapped # None /\ OneFounder
        => \E p \in Restores : /\ pc[p] = "commit" /\ saw[p].wrapped = wrapped
                              /\ wrapped' = [kek |-> kek[p], dek |-> wrapped.dek]
<1>1. VaultInv /\ [Next]_vars => [Rekeyed]_vars
  <2> SUFFICES ASSUME VaultInv, Next, wrapped' # wrapped, wrapped # None, OneFounder
               PROVE  Rekeyed
    OBVIOUS
  <2>1. PICK p \in Procs : InitCommand(p) \/ Unlocking(p) \/ RestoreCommand(p) \/ Die(p)
    BY DEF Next
  <2>2. ~PutDEK(p)
    <3> SUFFICES ASSUME PutDEK(p) PROVE FALSE
      OBVIOUS
    <3>1. p \in Makers
      BY DEF VaultInv, Ground, CommandOK, Stage, InitSteps, Makers, PutDEK
    <3>2. wrapped = None
      BY <3>1, OneFounderOneMaker DEF VaultInv, Founded, Made, PutDEK
    <3> QED BY <3>2
  <2>3. CommitRekey(p)
    BY <2>1, <2>2 DEF InitCommand, Unlocking, RestoreCommand, Die, StatFile, CreateFile,
       PutParams, SaveIdentity, PutPublicKeys, UnlockParams, UnlockDEK, PrintCards, LoadIdentity,
       CheckCards, ReadParams, PrepareRekey, ShowCards, Confirm, MetaChanged, PrintLast, file
  <2>4. p \in Restores
    BY <2>3 DEF VaultInv, Ground, CommandOK, Stage, RestoreSteps, CommitRekey
  <2> QED BY <2>3, <2>4 DEF CommitRekey, StillTheSame, WrapDEK
<1> QED BY <1>1, VaultInvariant, PTL DEF Spec, OnlyHoldersRekey
=============================================================================
