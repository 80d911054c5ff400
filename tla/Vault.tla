-------------------------------- MODULE Vault --------------------------------
(***************************************************************************)
(* The vault of a ledger file: the rows of vault_meta that say which          *)
(* passphrase and which cards open it, through init, backup, restore and the *)
(* commands that only unlock (internal/vault/keys.go, rekey.go, backup.go,   *)
(* cmd/nucleo/init.go, backup.go, env.go, internal/identity).                *)
(*                                                                         *)
(* A key of keys (KEK) is what Argon2id derives from a passphrase and a salt. *)
(* It wraps the data key (DEK), which encrypts the identity and the contents. *)
(* Ciphers are authenticated: what one key closed, no other opens.  A set of *)
(* cards gives back the KEK it was made from.  Salts and data keys are        *)
(* random and are named after the command that drew them.                   *)
(*                                                                         *)
(* The rows of the vault are read and written one statement at a time; only  *)
(* ReplaceMeta is a transaction.  The identifier of the vault is written      *)
(* between the parameters and the wrapped key and never changes: its reads    *)
(* say nothing more and are left out.                                        *)
(***************************************************************************)
CONSTANTS
  Inits,        \* runs of `nucleo init` on this directory
  Restores,     \* runs of `nucleo restore`
  Quiet,        \* those of them with --json, which print only at the end
  Users,        \* slots for commands that unlock: backup, seal, erase, sync
  Passphrases,
  None          \* no row, no value

ASSUME CommandsAssumption ==
  /\ Inits \cap Restores = {}
  /\ (Inits \cup Restores) \cap Users = {}
  /\ Quiet \subseteq Restores
Procs == Inits \cup Restores \cup Users
Salts == Inits \cup Restores
KEKs  == [pass : Passphrases, salt : Salts]
DEKs  == Inits

ASSUME NoneAssumption ==
  /\ None \notin Inits \cup Restores \cup Users \cup Passphrases
  /\ None \notin [kek : KEKs, dek : DEKs] \cup [of : Inits, dek : DEKs]

VARIABLES
  (* the ledger file *)
  exists,     \* the file is there
  params,     \* vault_meta[params]: the salt
  wrapped,    \* vault_meta[dek]: the data key and the KEK that wraps it
  identity,   \* vault_meta[identity]: whose it is, and the DEK that closes it
  signer,     \* the public keys, in clear: whose they are
  (* outside the file *)
  cards,      \* the KEKs somebody holds a set of cards of
  (* the commands *)
  pc,
  pass,       \* the passphrase typed
  saw,        \* the rows it read: salt, and wrapped key
  kek,        \* the KEK it works with
  answer,     \* what it told the caller
  (* history *)
  founders,   \* the inits that found no file, less those that died before making it
  rekeyed     \* another restore committed since the command started

file    == <<exists, params, wrapped, identity, signer>>
memory  == <<pass, saw, kek>>
history == <<founders, rekeyed>>
vars    == <<file, cards, pc, memory, answer, history>>

Unread == [salt |-> None, wrapped |-> None]
NoKEK  == [pass |-> None, salt |-> None]

Init ==
  /\ exists = FALSE
  /\ params = None /\ wrapped = None /\ identity = None /\ signer = None
  /\ cards = {}
  /\ pc = [p \in Procs |-> "idle"]
  /\ pass = [p \in Procs |-> None]
  /\ saw = [p \in Procs |-> Unread]
  /\ kek = [p \in Procs |-> NoKEK]
  /\ answer = [p \in Procs |-> "none"]
  /\ founders = {}
  /\ rekeyed = [p \in Procs |-> FALSE]

-----------------------------------------------------------------------------
(* What the commands share *)

Goto(p, label) == pc' = [pc EXCEPT ![p] = label]

\* A command ends with an answer; a user's slot may start another one.
End(p, said) ==
  /\ Goto(p, IF p \in Users THEN "idle" ELSE "ended")
  /\ answer' = [answer EXCEPT ![p] = said]

Start(p, label) ==
  /\ pc[p] = "idle"
  /\ Goto(p, label)
  /\ answer' = [answer EXCEPT ![p] = "none"]
  /\ rekeyed' = [rekeyed EXCEPT ![p] = FALSE]

DeriveKEK(phrase, salt) == [pass |-> phrase, salt |-> salt]

\* BackupKEK gives out only sets of cards that were seen to give the key back.
BackupKEK(key) == {key}

\* A quiet restore prints the cards of its new key when all the rest is done.
PrintLast(p) == cards' = IF p \in Quiet THEN cards \cup BackupKEK(kek[p]) ELSE cards

WrapDEK(key, dek) == [kek |-> key, dek |-> dek]

\* Only the KEK that wrapped it unwraps a data key.
Unwraps(key, row) == row # None /\ row.kek = key

\* The process dies, or its caller stops it.
Die(p) ==
  /\ pc[p] \notin {"idle", "ended"}
  /\ End(p, "none")
  /\ founders' = IF pc[p] = "create" THEN founders \ {p} ELSE founders
  /\ UNCHANGED <<file, cards, memory, rekeyed>>

-----------------------------------------------------------------------------
(* init *)

\* It refuses a file that is there, and only then asks for the passphrase.
StatFile(p, phrase) ==
  /\ p \in Inits /\ ~exists
  /\ Start(p, "create")
  /\ pass' = [pass EXCEPT ![p] = phrase]
  /\ founders' = founders \cup {p}
  /\ UNCHANGED <<file, cards, saw, kek>>

\* store.Open makes the file, or opens the one that is there by now.
CreateFile(p) ==
  /\ pc[p] = "create"
  /\ exists' = TRUE
  /\ Goto(p, "params")
  /\ UNCHANGED <<params, wrapped, identity, signer, cards, memory, answer, history>>

PutParams(p) ==
  /\ pc[p] = "params"
  /\ params' = p
  /\ Goto(p, "dek")
  /\ UNCHANGED <<exists, wrapped, identity, signer, cards, memory, answer, history>>

PutDEK(p) ==
  /\ pc[p] = "dek"
  /\ wrapped' = WrapDEK(DeriveKEK(pass[p], p), p)
  /\ Goto(p, "identity")
  /\ UNCHANGED <<exists, params, identity, signer, cards, memory, answer, founders, rekeyed>>

SaveIdentity(p) ==
  /\ pc[p] = "identity" /\ p \in Inits
  /\ identity' = [of |-> p, dek |-> p]
  /\ Goto(p, "public")
  /\ UNCHANGED <<exists, params, wrapped, signer, cards, memory, answer, history>>

\* The key of the log, the origin and the key of the signer, for status and
\* verify: three rows that only those read.
PutPublicKeys(p) ==
  /\ pc[p] = "public"
  /\ signer' = p
  /\ Goto(p, "derive")
  /\ UNCHANGED <<exists, params, wrapped, identity, cards, memory, answer, history>>

-----------------------------------------------------------------------------
(* Unlocking, and the cards of init and backup *)

\* Unlock, with the passphrase the user types, or with the one restore has just
\* written.  The parameters come first.
UnlockParams(p, phrase) ==
  /\ \/ p \in Users /\ exists /\ Start(p, "unlock")
     \/ /\ pc[p] = "check" /\ phrase = pass[p]
        /\ Goto(p, "unlock")
        /\ UNCHANGED <<answer, rekeyed>>
  /\ params # None
  /\ pass' = [pass EXCEPT ![p] = phrase]
  /\ saw' = [saw EXCEPT ![p].salt = params]
  /\ UNCHANGED <<file, cards, kek, founders>>

\* Mutant of UnlockDEK: any passphrase goes on.
UnlockDEKUnchecked(p) ==
  /\ pc[p] = "unlock" /\ wrapped # None
  /\ saw' = [saw EXCEPT ![p].wrapped = wrapped]
  /\ \/ p \in Restores /\ PrintLast(p) /\ End(p, "fixed")
     \/ /\ p \in Users
        /\ \E label \in {"derive", "load"} : Goto(p, label)
        /\ UNCHANGED <<cards, answer>>
  /\ UNCHANGED <<file, pass, kek, history>>

\* Then the wrapped key.  A restore that opens what it wrote has done, and only now
\* does a quiet one give out its cards.
UnlockDEK(p) ==
  LET key == DeriveKEK(pass[p], saw[p].salt)
  IN  /\ pc[p] = "unlock"
      /\ saw' = [saw EXCEPT ![p].wrapped = wrapped]
      /\ \/ wrapped = None /\ End(p, "no vault") /\ UNCHANGED cards
         \/ /\ wrapped # None /\ ~Unwraps(key, wrapped)
            /\ End(p, "wrong passphrase") /\ UNCHANGED cards
         \/ Unwraps(key, wrapped) /\ p \in Restores /\ PrintLast(p) /\ End(p, "fixed")
         \/ /\ Unwraps(key, wrapped) /\ p \in Users
            /\ \E label \in {"derive", "load"} : Goto(p, label)
            /\ UNCHANGED <<cards, answer>>
      /\ UNCHANGED <<file, pass, kek, history>>

\* deriveKEKFor reads the parameters again, BackupKEK makes cards of that key
\* and they are printed.
PrintCards(p) ==
  /\ pc[p] = "derive"
  /\ kek' = [kek EXCEPT ![p] = DeriveKEK(pass[p], params)]
  /\ cards' = cards \cup BackupKEK(kek'[p])
  /\ End(p, "cards")
  /\ UNCHANGED <<file, pass, saw, history>>

\* env.unlock, in the commands that seal and sync: the identity.
LoadIdentity(p) ==
  /\ pc[p] = "load"
  /\ End(p, IF identity # None /\ identity.dek = saw[p].wrapped.dek
            THEN "opened" ELSE "no identity")
  /\ UNCHANGED <<file, cards, memory, history>>

-----------------------------------------------------------------------------
(* restore *)

\* The cards must be of this vault: their key unwraps the data key.
CheckCards(p, key) ==
  /\ p \in Restores /\ exists /\ wrapped # None /\ key \in cards
  /\ pc[p] = "idle"
  /\ kek' = [kek EXCEPT ![p] = key]
  /\ rekeyed' = [rekeyed EXCEPT ![p] = FALSE]
  /\ \/ ~Unwraps(key, wrapped) /\ End(p, "not of this vault")
     \/ Unwraps(key, wrapped) /\ End(p, "of this vault")
     \/ Unwraps(key, wrapped) /\ Goto(p, "prepare") /\ UNCHANGED answer
  /\ UNCHANGED <<file, cards, pass, saw, founders>>

\* PrepareRekey: the parameters,
ReadParams(p, phrase) ==
  /\ pc[p] = "prepare"
  /\ pass' = [pass EXCEPT ![p] = phrase]
  /\ saw' = [saw EXCEPT ![p].salt = params]
  /\ Goto(p, "unwrap")
  /\ UNCHANGED <<file, cards, kek, answer, history>>

\* Mutant of PrepareRekey: the new key is written before its cards are shown, and
\* they are not shown later.
PrepareRekeyUnseen(p) ==
  /\ pc[p] = "unwrap" /\ Unwraps(kek[p], wrapped)
  /\ saw' = [saw EXCEPT ![p].wrapped = wrapped]
  /\ kek' = [kek EXCEPT ![p] = DeriveKEK(pass[p], p)]
  /\ Goto(p, "commit")
  /\ UNCHANGED <<file, cards, pass, answer, history>>

\* and the wrapped key, which the key of the cards must still unwrap.  With --json
\* there is nobody to show cards to, nor to confirm them.
PrepareRekey(p) ==
  /\ pc[p] = "unwrap"
  /\ saw' = [saw EXCEPT ![p].wrapped = wrapped]
  /\ IF Unwraps(kek[p], wrapped)
       THEN /\ kek' = [kek EXCEPT ![p] = DeriveKEK(pass[p], p)]
            /\ Goto(p, IF p \in Quiet THEN "commit" ELSE "show") /\ UNCHANGED answer
       ELSE End(p, "not of this vault") /\ UNCHANGED kek
  /\ UNCHANGED <<file, cards, pass, history>>

\* The new cards are shown on the terminal before anything is written.
ShowCards(p) ==
  /\ pc[p] = "show"
  /\ cards' = cards \cup BackupKEK(kek[p])
  /\ Goto(p, "confirm")
  /\ UNCHANGED <<file, memory, answer, history>>

\* Without the word of the first card nothing changes.
Confirm(p) ==
  /\ pc[p] = "confirm"
  /\ \/ Goto(p, "commit") /\ UNCHANGED answer
     \/ End(p, "unconfirmed")
  /\ UNCHANGED <<file, cards, memory, history>>

\* Mutant of StillTheSame: the rows are written over whatever is there.
StillTheSameUnasked(p) == wrapped # None

\* ReplaceMeta: both rows are still those that were read.
StillTheSame(p) == params = saw[p].salt /\ wrapped = saw[p].wrapped

\* Mutant of CommitRekey: two statements, and the process may die between them.
CommitRekeyInHalves(p) ==
  /\ pc[p] = "commit" /\ StillTheSame(p)
  /\ params' = p
  /\ wrapped' \in {wrapped, WrapDEK(kek[p], saw[p].wrapped.dek)}
  /\ rekeyed' = [q \in Procs |-> q # p \/ rekeyed[q]]
  /\ Goto(p, "check")
  /\ UNCHANGED <<exists, identity, signer, cards, memory, answer, founders>>

CommitRekey(p) ==
  /\ pc[p] = "commit" /\ StillTheSame(p)
  /\ params' = p
  /\ wrapped' = WrapDEK(kek[p], saw[p].wrapped.dek)
  /\ rekeyed' = [q \in Procs |-> q # p \/ rekeyed[q]]
  /\ Goto(p, "check")
  /\ UNCHANGED <<exists, identity, signer, cards, memory, answer, founders>>

MetaChanged(p) ==
  /\ pc[p] = "commit" /\ ~StillTheSame(p)
  /\ End(p, "changed meanwhile")
  /\ UNCHANGED <<file, cards, memory, history>>

-----------------------------------------------------------------------------
InitCommand(p) ==
  \/ \E phrase \in Passphrases : StatFile(p, phrase)
  \/ CreateFile(p) \/ PutParams(p) \/ PutDEK(p) \/ SaveIdentity(p) \/ PutPublicKeys(p)

Unlocking(p) ==
  \/ \E phrase \in Passphrases : UnlockParams(p, phrase)
  \/ UnlockDEK(p) \/ PrintCards(p) \/ LoadIdentity(p)

RestoreCommand(p) ==
  \/ \E key \in cards : CheckCards(p, key)
  \/ \E phrase \in Passphrases : ReadParams(p, phrase)
  \/ PrepareRekey(p) \/ ShowCards(p) \/ Confirm(p) \/ CommitRekey(p) \/ MetaChanged(p)

Next == \E p \in Procs : InitCommand(p) \/ Unlocking(p) \/ RestoreCommand(p) \/ Die(p)

Spec == Init /\ [][Next]_vars

-----------------------------------------------------------------------------
(* Properties *)

Row(S) == S \cup {None}
Rows   == [salt : Row(Salts), wrapped : Row([kek : KEKs, dek : DEKs])]
Steps  == {"idle", "create", "params", "dek", "identity", "public", "derive", "unlock", "load",
           "prepare", "unwrap", "show", "confirm", "commit", "check", "ended"}
Answers == {"none", "no vault", "wrong passphrase", "cards", "opened", "no identity",
            "of this vault", "not of this vault", "unconfirmed", "changed meanwhile", "fixed"}

TypeOK ==
  /\ exists \in BOOLEAN
  /\ params \in Row(Salts)
  /\ wrapped \in Row([kek : KEKs, dek : DEKs])
  /\ identity \in Row([of : Inits, dek : DEKs])
  /\ signer \in Row(Inits)
  /\ cards \subseteq KEKs /\ founders \subseteq Inits
  /\ pc \in [Procs -> Steps]
  /\ pass \in [Procs -> Row(Passphrases)]
  /\ saw \in [Procs -> Rows]
  /\ kek \in [Procs -> KEKs \cup {NoKEK}]
  /\ answer \in [Procs -> Answers]
  /\ rekeyed \in [Procs -> BOOLEAN]

\* Two inits that both found no file mix their vaults: what follows is about a
\* file that one init made.
OneFounder == \A p, q \in founders : p = q

\* After any crash, in the middle of init or around a new passphrase, the rows
\* of vault_meta belong together: the wrapped key opens with the salt that is
\* stored, the data key is the one it has always been, and the identity is
\* closed with it (CreateWithProfile, Save and ReplaceMeta write them in
\* several statements).
WholeVault ==
  OneFounder =>
    /\ wrapped # None => wrapped.kek.salt = params /\ wrapped.dek \in founders
    /\ identity # None => wrapped # None /\ identity.dek = wrapped.dek
    /\ signer # None => identity # None /\ identity.of = signer

\* The key that a quiet restore made of the passphrase its caller chose, while its
\* cards are not printed: the process is still at work, or died and they never
\* will be.
Unprinted(key) == \E r \in Quiet : answer[r] # "fixed" /\ key = DeriveKEK(pass[r], r)

\* Once init has printed its cards, wherever any restore was interrupted, somebody
\* holds cards of the key that opens the vault: a restore on a terminal shows the
\* new ones before it writes the new key.  A restore with --json writes it first;
\* until its cards come out, and for ever if it died, what opens the vault is the
\* passphrase its caller chose, and no cards do.
NobodyIsLockedOut ==
  (OneFounder /\ \E p \in Inits : answer[p] = "cards")
    => wrapped.kek \in cards \/ Unprinted(wrapped.kek)

\* A new passphrase replaces exactly the key whose cards its restore checked, and
\* keeps the data key: of two restores that began with the same cards, one
\* commits (ReplaceMeta compares what PrepareRekey read).
OnlyHoldersRekey ==
  [][wrapped' # wrapped /\ wrapped # None /\ OneFounder
     => \E p \in Restores : /\ pc[p] = "commit" /\ saw[p].wrapped = wrapped
                           /\ wrapped' = [kek |-> kek[p], dek |-> wrapped.dek]]_vars

\* What a command says of a passphrase or of cards is true when it says it and
\* stays true until a restore commits: a wrong passphrase is wrong, printed cards
\* open the vault, refused cards do not, and nobody else is told that the vault
\* changed meanwhile.
AnswersAreTrue ==
  OneFounder => \A p \in Procs :
    ~rekeyed[p] =>
      /\ answer[p] = "wrong passphrase" => wrapped.kek.pass # pass[p]
      /\ answer[p] \in {"cards", "fixed", "of this vault"} => Unwraps(kek[p], wrapped)
      /\ answer[p] = "not of this vault" => ~Unwraps(kek[p], wrapped)
      /\ answer[p] # "changed meanwhile"
=============================================================================
