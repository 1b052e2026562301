----------------------------- MODULE StateStore -----------------------------
(* The identity file of the Tailscale client: StateStore::save and load,   *)
(* and the part of TailscaleCore::workerMain that loads, generates and     *)
(* saves the identity before it is used.  Every file operation is a step,  *)
(* may fail, and the process may die between any two of them.  Two         *)
(* failures the code cannot see: the stream that writes the temporary      *)
(* flushes in its destructor, and a file that is there but cannot be       *)
(* opened counts as missing.                                               *)
(*                                                                         *)
(* A file holds a node identity and the passphrase that seals it; Plain    *)
(* means it is only protected by a checksum.  The encoding, the key        *)
(* derivation and the cipher are abstracted to "the right passphrase opens *)
(* a complete file"; a file the process died in writing is Torn.           *)

CONSTANTS Ids,     \* node identities the generator can draw
          Weak,    \* those an older build drew from a broken random source
          Keys,    \* passphrases, Plain being the empty one
          Plain, None, Torn

ASSUME StoreAssumption ==
  /\ Weak \subseteq Ids
  /\ Plain \in Keys
  /\ {None, Torn} \cap Ids = {} /\ None # Torn

VARIABLES primary, backup, temporary,  \* the files path, path.bak, path.tmp
          pc,          \* where the worker is
          passphrase,  \* the passphrase of this start
          identity,    \* the worker's identity, while it has one
          registered,  \* the identity last shown to the control server
          unseen       \* a flush or an open has failed unseen

fileVars == <<primary, backup, temporary>>
vars == <<fileVars, pc, passphrase, identity, registered, unseen>>

Sealed == [id : Ids, key : Keys]
Missing == [id |-> None, key |-> None]
TornFile == [id |-> Torn, key |-> None]
Files == Sealed \cup {Missing, TornFile}
SavePcs == {"write", "clear", "stash", "install", "undo", "drop"}

Init ==
  /\ primary \in Sealed \cup {Missing}
  /\ backup = Missing /\ temporary = Missing
  /\ pc = "off" /\ passphrase = Plain /\ identity = None
  /\ registered = primary.id /\ unseen = FALSE

Exists(f) == f # Missing

\* loadFile: a complete file opens without a passphrase, or with its own.
Opens(f, key) == f \in Sealed /\ f.key \in {Plain, key}

\* StateStore::load: the primary if it can be read, else a backup that opens.
Load(key, readable) == IF readable /\ Opens(primary, key) THEN primary
                       ELSE IF Opens(backup, key) THEN backup ELSE Missing

-----------------------------------------------------------------------------
(* workerMain up to the first control session.                             *)

\* The backup becomes the primary again when the primary is gone; the rename
\* may fail, which load ignores.
RestoreBackup ==
  \/ /\ ~Exists(primary) /\ Exists(backup)
     /\ primary' = backup /\ backup' = Missing
  \/ UNCHANGED <<primary, backup>>

\* An identity that loads and is not weak is used as it is.
StartWithSaved(key, readable) ==
  LET f == Load(key, readable) IN
  /\ pc = "off" /\ f # Missing /\ f.id \notin Weak
  /\ RestoreBackup
  /\ pc' = "running" /\ passphrase' = key /\ identity' = f.id
  /\ registered' = f.id /\ unseen' = (unseen \/ ~readable)
  /\ UNCHANGED temporary

\* Mutant: any load that fails leads to a new identity
GenerateWheneverUnreadable(key, readable) ==
  Load(key, readable) = Missing \/ Load(key, readable).id \in Weak

\* Only "state does not exist" and a weak identity lead to a new one; a file
\* that is there and does not open is an error the worker ends with.
MayGenerate(key, readable) ==
  \/ Load(key, readable) = Missing /\ ~(readable /\ Exists(primary)) /\ ~Exists(backup)
  \/ Load(key, readable) # Missing /\ Load(key, readable).id \in Weak

StartRefused(key, readable) ==
  /\ pc = "off" /\ Load(key, readable) = Missing /\ ~MayGenerate(key, readable)
  /\ pc' = "error" /\ passphrase' = key
  /\ UNCHANGED <<fileVars, identity, registered, unseen>>

\* The generator draws a fresh identity.
Generate(key, readable, id) ==
  /\ pc = "off" /\ MayGenerate(key, readable)
  /\ id \in Ids \ (Weak \cup {primary.id, backup.id, temporary.id, registered})
  /\ IF Load(key, readable) # Missing THEN RestoreBackup ELSE UNCHANGED <<primary, backup>>
  /\ pc' = "write" /\ passphrase' = key /\ identity' = id
  /\ unseen' = (unseen \/ ~readable)
  /\ UNCHANGED <<temporary, registered>>

-----------------------------------------------------------------------------
(* StateStore::save(identity).  Any failure ends the worker in an error.   *)

Fail == pc' = "error" /\ identity' = None

\* Mutant: the result of the write is not checked
WriteUnchecked ==
  /\ pc = "write"
  /\ temporary' \in {[id |-> identity, key |-> passphrase], TornFile}
  /\ pc' = IF Exists(primary) THEN "clear" ELSE "install"
  /\ UNCHANGED <<primary, backup, passphrase, identity, registered, unseen>>

\* The few bytes stay in the buffer of the stream, so it is mostly the unseen
\* flush that fails when the disk is full.
WriteTemporary ==
  /\ pc = "write"
  /\ \/ /\ \/ temporary' = [id |-> identity, key |-> passphrase] /\ UNCHANGED unseen
           \/ temporary' = TornFile /\ unseen' = TRUE
        /\ pc' = IF Exists(primary) THEN "clear" ELSE "install"
        /\ UNCHANGED identity
     \/ /\ temporary' \in {temporary, TornFile}
        /\ Fail /\ UNCHANGED unseen
  /\ UNCHANGED <<primary, backup, passphrase, registered>>

\* remove(backup); its failure is ignored.
ClearBackup ==
  /\ pc = "clear"
  /\ backup' \in {Missing, backup}
  /\ pc' = "stash"
  /\ UNCHANGED <<primary, temporary, passphrase, identity, registered, unseen>>

\* Mutant: the old state is removed instead of renamed to the backup
StashByRemoving ==
  /\ pc = "stash"
  /\ primary' = Missing
  /\ pc' = "install"
  /\ UNCHANGED <<backup, temporary, passphrase, identity, registered, unseen>>

\* rename(path, backup)
StashPrimary ==
  /\ pc = "stash"
  /\ \/ /\ backup' = primary /\ primary' = Missing /\ pc' = "install"
        /\ UNCHANGED identity
     \/ UNCHANGED <<primary, backup>> /\ Fail
  /\ UNCHANGED <<temporary, passphrase, registered, unseen>>

\* Mutant: a failed rename goes unnoticed
InstallUnchecked ==
  /\ pc = "install"
  /\ \/ primary' = temporary /\ temporary' = Missing
     \/ UNCHANGED <<primary, temporary>>
  /\ pc' = "drop"
  /\ UNCHANGED <<backup, passphrase, identity, registered, unseen>>

\* rename(temporary, path)
InstallTemporary ==
  /\ pc = "install"
  /\ \/ /\ primary' = temporary /\ temporary' = Missing /\ pc' = "drop"
     \/ UNCHANGED <<primary, temporary>> /\ pc' = "undo"
  /\ UNCHANGED <<backup, passphrase, identity, registered, unseen>>

\* The failed install puts the backup back, if it can.
UndoStash ==
  /\ pc = "undo"
  /\ \/ Exists(backup) /\ primary' = backup /\ backup' = Missing
     \/ UNCHANGED <<primary, backup>>
  /\ Fail
  /\ UNCHANGED <<temporary, passphrase, registered, unseen>>

\* remove(backup), and the worker goes on to register the identity.
DropBackup ==
  /\ pc = "drop"
  /\ backup' \in {Missing, backup}
  /\ pc' = "running" /\ registered' = identity
  /\ UNCHANGED <<primary, temporary, passphrase, identity, unseen>>

-----------------------------------------------------------------------------

\* TailscaleCore::stop joins the worker.
StopWorker ==
  /\ pc \in {"running", "error"}
  /\ pc' = "off" /\ identity' = None
  /\ UNCHANGED <<fileVars, passphrase, registered, unseen>>

\* The process dies; a file being written is left torn.
Crash ==
  /\ pc # "off"
  /\ temporary' \in IF pc = "write" THEN {temporary, TornFile} ELSE {temporary}
  /\ pc' = "off" /\ identity' = None
  /\ UNCHANGED <<primary, backup, passphrase, registered, unseen>>

\* readable: the primary can be opened, if it is there
Start == \E key \in Keys, readable \in BOOLEAN :
           /\ readable \/ Exists(primary)
           /\ \/ StartWithSaved(key, readable) \/ StartRefused(key, readable)
              \/ \E id \in Ids : Generate(key, readable, id)

Save == \/ WriteTemporary \/ ClearBackup \/ StashPrimary \/ InstallTemporary
        \/ UndoStash \/ DropBackup

Next == Start \/ Save \/ StopWorker \/ Crash

Spec == Init /\ [][Next]_vars

-----------------------------------------------------------------------------

\* Every file is missing, torn or sealed, and only the temporary can be torn:
\* what save renames over the state is complete, unless a flush failed unseen.
TypeOK ==
  /\ {primary, backup, temporary} \subseteq Files
  /\ ~unseen => {primary, backup} \subseteq Sealed \cup {Missing}
  /\ unseen \in BOOLEAN
  /\ pc \in {"off", "running", "error"} \cup SavePcs
  /\ passphrase \in Keys /\ identity \in Ids \cup {None}
  /\ registered \in Ids \cup {None}

Sound == Ids \ Weak

\* A sound identity that the device has registered is on disk, whatever file
\* operation failed or crash came in between, so that a later start can find
\* it again: the code registers after the save, never before.
RegisteredIsSaved ==
  (registered \in Sound /\ ~unseen) => \E f \in {primary, backup} : f.id = registered

\* A device that has registered a sound identity never draws another one
\* because its file is unreadable, half replaced or sealed with another
\* passphrase.  The one exception is in the code: a backup of the weak
\* identity that a crash left behind, opened when the primary does not open.
SoundIdentityKept ==
  [][pc = "off" /\ pc' = "write" /\ registered \in Sound /\ ~unseen'
       => backup.id \in Weak]_vars

\* What a load with the right passphrase returns.
Loadable == IF Exists(primary) THEN primary.id ELSE backup.id
Saving == IF pc \in SavePcs THEN identity ELSE None

Cell == INSTANCE DurableCell
  WITH Values <- Ids, Lost <- Torn, value <- Loadable, wanted <- Saving

\* The files implement a durable cell: a save in progress takes effect in
\* one step, and no crash or failed operation changes what is loaded.
ImplementsCell == Cell!CellSpec
=============================================================================
