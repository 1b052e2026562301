-------------------------- MODULE StateStoreProofs --------------------------
(***************************************************************************)
(* Proofs about StateStore, for any identities and passphrases: only the   *)
(* temporary file can be torn, a registered sound identity stays on disk,  *)
(* and the three files implement a durable cell.                           *)
(***************************************************************************)
EXTENDS StateStore, TLAPS

\* The temporary holds the new identity, or what the disk kept of it, from the
\* end of its write until it is installed.
NewIdentityReady ==
  /\ pc \in SavePcs => identity \in Sound
  /\ pc \in {"clear", "stash", "install", "undo"}
       => \/ temporary = [id |-> identity, key |-> passphrase]
          \/ unseen /\ temporary = TornFile
  /\ pc = "drop" => Exists(primary) /\ (unseen \/ primary.id = identity)
  /\ pc \in {"clear", "stash"} => Exists(primary)
  /\ pc \in {"install", "undo"} => ~Exists(primary)

\* A backup beside a primary is what a sound identity has replaced.
BackupIsOlder ==
  (~unseen /\ Exists(primary) /\ Exists(backup)) => primary.id \in Sound

\* Where a registered sound identity is, from step to step of a save.
RegisteredPlace ==
  (registered \in Sound /\ ~unseen) =>
    /\ \/ primary.id = registered
       \/ backup.id = registered /\ (Exists(primary) => primary.id \in Sound)
    /\ pc \in {"write", "clear", "stash"} => primary.id = registered
    /\ pc \in {"install", "undo"} => backup.id = registered

StoreInv == TypeOK /\ NewIdentityReady /\ BackupIsOlder /\ RegisteredPlace

-----------------------------------------------------------------------------

\* Missing is no sealed file, and its identity is None.
LEMMA MissingFacts ==
  /\ Missing \notin Sealed /\ Missing.id = None
  /\ \A f \in Sealed : f.id \in Ids /\ f.id # None /\ f # Missing
BY StoreAssumption DEF Missing, Sealed

\* The fields of a file that is sealed or missing.
LEMMA FileFacts ==
  ASSUME NEW f \in Sealed \cup {Missing}
  PROVE  /\ f.id \in Ids \cup {None}
         /\ f # Missing <=> f.id \in Ids
BY MissingFacts, StoreAssumption

\* The first start finds no file, or a complete primary.
LEMMA InitStoreInv == Init => StoreInv
<1> SUFFICES ASSUME Init PROVE StoreInv
  OBVIOUS
<1> USE DEF Init
<1>1. TypeOK
  BY FileFacts, StoreAssumption DEF TypeOK, Files
<1>2. NewIdentityReady
  BY DEF NewIdentityReady, SavePcs
<1>3. BackupIsOlder
  BY DEF BackupIsOlder, Exists
<1>4. RegisteredPlace
  BY DEF RegisteredPlace
<1>5. QED BY <1>1, <1>2, <1>3, <1>4 DEF StoreInv

\* Restoring the backup keeps both files in their types and moves an identity
\* from the backup to the empty primary, or nothing.
LEMMA RestoreFacts ==
  ASSUME TypeOK, RestoreBackup
  PROVE  /\ primary' \in Files /\ backup' \in Files
         /\ ~unseen => {primary', backup'} \subseteq Sealed \cup {Missing}
         /\ \/ primary' = primary /\ backup' = backup
            \/ /\ primary = Missing /\ backup # Missing
               /\ primary' = backup /\ backup' = Missing
BY DEF RestoreBackup, TypeOK, Exists

\* What a load returns is one of the two files.
LEMMA LoadFacts ==
  ASSUME NEW key, NEW readable \in BOOLEAN, Load(key, readable) # Missing
  PROVE  /\ Load(key, readable) \in Sealed
         /\ \/ Load(key, readable) = primary /\ primary # Missing
            \/ Load(key, readable) = backup /\ backup # Missing
BY DEF Load, Opens

\* A start with a saved identity keeps the invariant.
LEMMA StartWithSavedStep ==
  ASSUME StoreInv, NEW key \in Keys, NEW readable \in BOOLEAN, StartWithSaved(key, readable)
  PROVE  StoreInv'
<1> USE DEF StoreInv
<1> DEFINE f == Load(key, readable)
<1>1. /\ pc = "off" /\ f # Missing /\ f.id \notin Weak /\ RestoreBackup
      /\ pc' = "running" /\ passphrase' = key /\ identity' = f.id
      /\ registered' = f.id /\ temporary' = temporary
      /\ unseen' = (unseen \/ ~readable)
  BY DEF StartWithSaved
<1>2. f \in Sealed /\ ((f = primary /\ primary # Missing) \/ (f = backup /\ backup # Missing))
  BY <1>1, LoadFacts
<1>3. f.id \in Sound /\ f.id \in Ids
  BY <1>1, <1>2, FileFacts DEF Sound
<1> HIDE DEF f
<1>4. unseen' \in BOOLEAN /\ (~unseen' => ~unseen)
  BY <1>1 DEF TypeOK
<1>5. TypeOK'
  BY <1>1, <1>3, <1>4, RestoreFacts DEF TypeOK
<1>6. NewIdentityReady'
  BY <1>1 DEF NewIdentityReady, SavePcs
<1>7. BackupIsOlder'
  BY <1>1, <1>4, RestoreFacts DEF BackupIsOlder, Exists
<1>8. RegisteredPlace'
  <2>1. ~unseen => \/ primary'.id = f.id
                   \/ backup'.id = f.id /\ (Exists(primary') => primary'.id \in Sound)
    BY <1>1, <1>2, RestoreFacts DEF BackupIsOlder, Exists
  <2>2. QED BY <2>1, <1>1, <1>4 DEF RegisteredPlace, Exists
<1>9. QED BY <1>5, <1>6, <1>7, <1>8

\* When a new identity is drawn after a load that saw every file, a registered
\* sound one is in the primary.
LEMMA GenerateFinds ==
  ASSUME StoreInv, NEW key \in Keys, MayGenerate(key, TRUE), registered \in Sound, ~unseen
  PROVE  primary.id = registered /\ primary # Missing
<1> DEFINE f == Load(key, TRUE)
<1>1. registered \in Ids /\ registered \notin Weak /\ registered # None
  BY StoreAssumption DEF Sound
<1>2. CASE f = Missing /\ ~Exists(primary) /\ ~Exists(backup)
  BY <1>1, <1>2, MissingFacts DEF StoreInv, RegisteredPlace, Exists
<1>3. CASE f # Missing /\ f.id \in Weak
  <2>1. CASE f = primary /\ primary # Missing
    BY <1>1, <1>3, <2>1 DEF StoreInv, RegisteredPlace, Exists, Sound
  <2>2. CASE f = backup /\ backup # Missing
    <3>1. backup.id # registered
      BY <1>1, <1>3, <2>2
    <3>2. QED BY <1>1, <3>1, MissingFacts DEF StoreInv, RegisteredPlace
  <2>3. QED BY <1>3, <2>1, <2>2, LoadFacts
<1>4. QED BY <1>2, <1>3 DEF MayGenerate

\* A new identity is generated only where nothing sound can be lost.
LEMMA GenerateStep ==
  ASSUME StoreInv, NEW key \in Keys, NEW readable \in BOOLEAN, NEW id \in Ids,
         Generate(key, readable, id)
  PROVE  StoreInv'
<1>1. /\ pc = "off" /\ MayGenerate(key, readable) /\ id \in Sound
      /\ pc' = "write" /\ passphrase' = key /\ identity' = id
      /\ temporary' = temporary /\ registered' = registered
      /\ unseen' = (unseen \/ ~readable)
  BY DEF Generate, Sound
<1>2. /\ primary' \in Files /\ backup' \in Files
      /\ ~unseen => {primary', backup'} \subseteq Sealed \cup {Missing}
      /\ \/ primary' = primary /\ backup' = backup
         \/ /\ primary = Missing /\ backup # Missing
            /\ primary' = backup /\ backup' = Missing
  <2>1. RestoreBackup \/ UNCHANGED <<primary, backup>>
    BY DEF Generate
  <2>2. QED BY <2>1, RestoreFacts DEF StoreInv, TypeOK
<1>3. unseen' \in BOOLEAN /\ (~unseen' => ~unseen /\ readable = TRUE)
  BY <1>1 DEF TypeOK, StoreInv
<1>4. TypeOK'
  BY <1>1, <1>2, <1>3 DEF TypeOK, StoreInv, SavePcs
<1>5. NewIdentityReady'
  BY <1>1 DEF NewIdentityReady, SavePcs
<1>6. BackupIsOlder'
  BY <1>2, <1>3 DEF BackupIsOlder, Exists, StoreInv
<1>7. RegisteredPlace'
  BY <1>1, <1>2, <1>3, GenerateFinds DEF RegisteredPlace
<1>8. QED BY <1>4, <1>5, <1>6, <1>7 DEF StoreInv

\* The steps of a save keep the invariant.
LEMMA SaveStep ==
  ASSUME StoreInv, Save
  PROVE  StoreInv'
<1> USE DEF StoreInv
<1>1. CASE WriteTemporary
  <2> DEFINE new == [id |-> identity, key |-> passphrase]
  <2>1. pc = "write" /\ identity \in Sound /\ primary' = primary /\ backup' = backup
        /\ passphrase' = passphrase /\ registered' = registered
    BY <1>1 DEF WriteTemporary, NewIdentityReady, SavePcs
  <2>2. CASE /\ \/ temporary' = new /\ unseen' = unseen
                \/ temporary' = TornFile /\ unseen' = TRUE
             /\ pc' = IF Exists(primary) THEN "clear" ELSE "install"
             /\ identity' = identity
    <3>0. unseen' \in BOOLEAN /\ (~unseen' => ~unseen)
      BY <2>2 DEF TypeOK
    <3>1. new \in Files /\ TypeOK'
      BY <2>1, <2>2, <3>0 DEF TypeOK, Files, Sealed, Sound, SavePcs
    <3>2. NewIdentityReady'
      BY <2>1, <2>2 DEF NewIdentityReady, SavePcs, Exists
    <3>3. BackupIsOlder'
      BY <2>1, <3>0 DEF BackupIsOlder, Exists
    <3>4. RegisteredPlace'
      <4>1. registered \in Sound /\ ~unseen => primary.id = registered /\ Exists(primary)
        BY <2>1, FileFacts, MissingFacts, StoreAssumption
        DEF RegisteredPlace, TypeOK, Exists, Sound
      <4>2. QED BY <2>1, <2>2, <3>0, <4>1 DEF RegisteredPlace, Exists
    <3>5. QED BY <3>1, <3>2, <3>3, <3>4
  <2>3. CASE temporary' \in {temporary, TornFile} /\ Fail /\ unseen' = unseen
    <3>1. TypeOK'
      BY <2>1, <2>3 DEF Fail, TypeOK, Files
    <3>2. NewIdentityReady' /\ BackupIsOlder' /\ RegisteredPlace'
      BY <2>1, <2>3 DEF Fail, NewIdentityReady, SavePcs, BackupIsOlder, RegisteredPlace, Exists
    <3>3. QED BY <3>1, <3>2
  <2>4. QED BY <1>1, <2>2, <2>3 DEF WriteTemporary
<1>2. CASE ClearBackup
  <2>1. /\ pc = "clear" /\ pc' = "stash" /\ primary' = primary /\ backup' \in {Missing, backup}
        /\ UNCHANGED <<temporary, passphrase, identity, registered, unseen>>
    BY <1>2 DEF ClearBackup
  <2>2. TypeOK'
    BY <2>1 DEF TypeOK, SavePcs, Files
  <2>3. NewIdentityReady' /\ BackupIsOlder' /\ RegisteredPlace'
    BY <2>1 DEF NewIdentityReady, SavePcs, BackupIsOlder, RegisteredPlace, Exists
  <2>4. QED BY <2>2, <2>3
<1>3. CASE StashPrimary
  <2>1. pc = "stash" /\ UNCHANGED <<temporary, passphrase, registered, unseen>>
    BY <1>3 DEF StashPrimary
  <2>2. CASE backup' = primary /\ primary' = Missing /\ pc' = "install" /\ identity' = identity
    <3>1. TypeOK'
      BY <2>1, <2>2 DEF TypeOK, SavePcs, Files
    <3>2. NewIdentityReady' /\ BackupIsOlder' /\ RegisteredPlace'
      BY <2>1, <2>2 DEF NewIdentityReady, SavePcs, BackupIsOlder, RegisteredPlace, Exists
    <3>3. QED BY <3>1, <3>2
  <2>3. CASE UNCHANGED <<primary, backup>> /\ Fail
    BY <2>1, <2>3
    DEF Fail, TypeOK, NewIdentityReady, SavePcs, BackupIsOlder, RegisteredPlace, Exists
  <2>4. QED BY <1>3, <2>2, <2>3 DEF StashPrimary
<1>4. CASE InstallTemporary
  <2>1. /\ pc = "install" /\ UNCHANGED <<backup, passphrase, identity, registered, unseen>>
        /\ identity \in Sound /\ ~Exists(primary)
        /\ \/ temporary = [id |-> identity, key |-> passphrase]
           \/ unseen /\ temporary = TornFile
    BY <1>4 DEF InstallTemporary, NewIdentityReady, SavePcs
  <2>2. CASE primary' = temporary /\ temporary' = Missing /\ pc' = "drop"
    <3>1. temporary # Missing /\ (~unseen => temporary \in Sealed /\ temporary.id = identity)
      BY <2>1, StoreAssumption DEF TypeOK, Sealed, Sound, Missing, TornFile
    <3>2. TypeOK'
      BY <2>1, <2>2, <3>1 DEF TypeOK, Files, SavePcs
    <3>3. NewIdentityReady' /\ BackupIsOlder'
      BY <2>1, <2>2, <3>1, MissingFacts DEF NewIdentityReady, SavePcs, BackupIsOlder, Exists
    <3>4. RegisteredPlace'
      BY <2>1, <2>2, <3>1 DEF RegisteredPlace, Exists
    <3>5. QED BY <3>2, <3>3, <3>4
  <2>3. CASE UNCHANGED <<primary, temporary>> /\ pc' = "undo"
    BY <2>1, <2>3
    DEF TypeOK, NewIdentityReady, SavePcs, BackupIsOlder, RegisteredPlace, Exists
  <2>4. QED BY <1>4, <2>2, <2>3 DEF InstallTemporary
<1>5. CASE UndoStash
  <2>1. pc = "undo" /\ Fail /\ UNCHANGED <<temporary, passphrase, registered, unseen>>
        /\ ~Exists(primary)
    BY <1>5 DEF UndoStash, NewIdentityReady
  <2>2. \/ primary' = backup /\ backup' = Missing
        \/ UNCHANGED <<primary, backup>>
    BY <1>5 DEF UndoStash
  <2>3. TypeOK'
    BY <2>1, <2>2 DEF TypeOK, Fail, Files
  <2>4. NewIdentityReady' /\ BackupIsOlder' /\ RegisteredPlace'
    BY <2>1, <2>2 DEF Fail, NewIdentityReady, SavePcs, BackupIsOlder, RegisteredPlace, Exists
  <2>5. QED BY <2>3, <2>4
<1>6. CASE DropBackup
  <2>1. /\ pc = "drop" /\ pc' = "running" /\ registered' = identity
        /\ backup' \in {Missing, backup} /\ identity \in Sound
        /\ UNCHANGED <<primary, temporary, passphrase, identity, unseen>>
        /\ ~unseen => primary.id = identity
    BY <1>6 DEF DropBackup, NewIdentityReady, SavePcs
  <2>2. TypeOK'
    BY <2>1 DEF TypeOK, Sound, Files
  <2>3. NewIdentityReady' /\ BackupIsOlder' /\ RegisteredPlace'
    BY <2>1 DEF NewIdentityReady, SavePcs, BackupIsOlder, RegisteredPlace, Exists
  <2>4. QED BY <2>2, <2>3
<1>7. QED BY <1>1, <1>2, <1>3, <1>4, <1>5, <1>6 DEF Save

\* Every step of the worker, of a save or load, and every crash keeps it.
LEMMA NextStoreInv == StoreInv /\ [Next]_vars => StoreInv'
<1> SUFFICES ASSUME StoreInv, [Next]_vars PROVE StoreInv'
  OBVIOUS
<1>1. CASE Start
  <2>1. ASSUME NEW key \in Keys, NEW readable \in BOOLEAN, StartRefused(key, readable)
        PROVE  StoreInv'
    BY <2>1 DEF StartRefused, fileVars, StoreInv, TypeOK, NewIdentityReady, SavePcs,
                BackupIsOlder, RegisteredPlace, Exists
  <2>2. QED BY <1>1, <2>1, StartWithSavedStep, GenerateStep DEF Start
<1>2. CASE Save
  BY <1>2, SaveStep
<1>3. CASE StopWorker
  BY <1>3 DEF StopWorker, fileVars, StoreInv, TypeOK, NewIdentityReady, SavePcs,
              BackupIsOlder, RegisteredPlace, Exists
<1>4. CASE Crash
  <2>1. /\ pc' = "off" /\ identity' = None /\ temporary' \in {temporary, TornFile}
        /\ UNCHANGED <<primary, backup, passphrase, registered, unseen>>
    BY <1>4 DEF Crash
  <2>2. TypeOK'
    BY <2>1 DEF StoreInv, TypeOK, Files
  <2>3. NewIdentityReady' /\ BackupIsOlder' /\ RegisteredPlace'
    BY <2>1 DEF StoreInv, NewIdentityReady, SavePcs, BackupIsOlder, RegisteredPlace, Exists
  <2>4. QED BY <2>2, <2>3 DEF StoreInv
<1>5. CASE UNCHANGED vars
  BY <1>5 DEF vars, fileVars, StoreInv, TypeOK, NewIdentityReady, SavePcs, BackupIsOlder,
              RegisteredPlace, Exists
<1>6. QED BY <1>1, <1>2, <1>3, <1>4, <1>5 DEF Next

\* The inductive invariant of the three files holds throughout.
LEMMA StoreInvariant == Spec => []StoreInv
<1>1. QED BY InitStoreInv, NextStoreInv, PTL DEF Spec

\* Only the temporary file is ever torn: whatever operation of save fails and
\* wherever the process dies, primary and backup are complete or missing, as
\* long as no flush has failed unseen.
THEOREM FilesComplete == Spec => []TypeOK
<1>1. StoreInv => TypeOK
  BY DEF StoreInv
<1>2. QED BY <1>1, StoreInvariant, PTL

\* A sound identity the control server has seen is in the primary or in the
\* backup at every moment, for any identities and passphrases and any failure
\* the code can see.
THEOREM RegisteredStaysSaved == Spec => []RegisteredIsSaved
<1>1. StoreInv => RegisteredIsSaved
  BY DEF StoreInv, RegisteredPlace, RegisteredIsSaved
<1>2. QED BY <1>1, StoreInvariant, PTL

-----------------------------------------------------------------------------
(* The refinement *)

\* A registered sound identity is replaced only through the one exception.
THEOREM SoundIdentityIsKept == Spec => SoundIdentityKept
<1>1. ASSUME StoreInv, [Next]_vars
      PROVE  [pc = "off" /\ pc' = "write" /\ registered \in Sound /\ ~unseen'
                => backup.id \in Weak]_vars
  <2> SUFFICES ASSUME Next, pc = "off", pc' = "write", registered \in Sound, ~unseen'
               PROVE  backup.id \in Weak
    BY <1>1
  <2>1. PICK key \in Keys, readable \in BOOLEAN :
          MayGenerate(key, readable) /\ unseen' = (unseen \/ ~readable)
    BY DEF Next, Start, StartWithSaved, StartRefused, Generate, Save, WriteTemporary,
           ClearBackup, StashPrimary, InstallTemporary, UndoStash, DropBackup,
           StopWorker, Crash
  <2>2. ~unseen /\ readable = TRUE
    BY <1>1, <2>1 DEF StoreInv, TypeOK
  <2>3. primary.id = registered /\ primary # Missing
    BY <1>1, <2>1, <2>2, GenerateFinds
  <2>4. Load(key, TRUE) # Missing /\ Load(key, TRUE).id \in Weak
    BY <2>1, <2>2, <2>3 DEF MayGenerate, Exists
  <2>5. Load(key, TRUE) # primary
    BY <2>3, <2>4 DEF Sound
  <2>6. QED BY <2>4, <2>5, LoadFacts
<1>2. QED BY <1>1, StoreInvariant, PTL DEF Spec, SoundIdentityKept

\* Every step of the files is a step of the cell, or changes nothing of it.
LEMMA CellStep ==
  ASSUME StoreInv, [Next]_vars
  PROVE  [Cell!CellNext]_(Cell!cellVars)
<1> USE DEF Cell!CellNext, Cell!cellVars
<1>1. CASE Start
  <2>1. pc = "off" /\ Saving = None
    BY <1>1 DEF Start, StartWithSaved, StartRefused, Generate, Saving, SavePcs
  <2>2. Loadable' = Loadable
    <3>1. \/ RestoreBackup \/ UNCHANGED <<primary, backup>>
      BY <1>1 DEF Start, StartWithSaved, StartRefused, Generate, fileVars
    <3>2. QED BY <3>1, RestoreFacts, MissingFacts DEF StoreInv, TypeOK, Loadable, Exists
  <2>3. ASSUME NEW key \in Keys, NEW readable \in BOOLEAN, NEW id \in Ids,
               Generate(key, readable, id)
        PROVE  Cell!BeginSave(id)
    BY <2>1, <2>2, <2>3 DEF Generate, Saving, SavePcs, Cell!BeginSave
  <2>4. ASSUME NEW key \in Keys, NEW readable \in BOOLEAN,
               StartWithSaved(key, readable) \/ StartRefused(key, readable)
        PROVE  Saving' = Saving
    BY <2>1, <2>4 DEF StartWithSaved, StartRefused, Saving, SavePcs
  <2>5. QED BY <1>1, <2>2, <2>3, <2>4 DEF Start
<1>2. CASE WriteTemporary \/ ClearBackup \/ StashPrimary
  <2>1. Loadable' = Loadable
    BY <1>2 DEF WriteTemporary, ClearBackup, StashPrimary, Loadable, Exists, StoreInv,
                NewIdentityReady
  <2>2. Saving # None
    BY <1>2, StoreAssumption DEF WriteTemporary, ClearBackup, StashPrimary, Saving, SavePcs,
                StoreInv, NewIdentityReady, Sound
  <2>3. Saving' = Saving \/ Saving' = None
    BY <1>2 DEF WriteTemporary, ClearBackup, StashPrimary, Fail, Saving, SavePcs
  <2>4. QED BY <2>1, <2>2, <2>3 DEF Cell!EndSave
<1>3. CASE InstallTemporary
  <2>1. Saving # None /\ Saving' = Saving /\ Saving = identity
    BY <1>3, StoreAssumption DEF InstallTemporary, Saving, SavePcs, StoreInv,
                NewIdentityReady, Sound
  <2>2. CASE primary' = temporary
    <3>1. temporary # Missing /\ temporary.id \in {identity, Torn}
      BY <1>3, StoreAssumption DEF InstallTemporary, StoreInv, NewIdentityReady, SavePcs,
                TypeOK, Sealed, Sound, Missing, TornFile
    <3>2. Loadable' \in {identity, Torn}
      BY <2>2, <3>1, MissingFacts DEF Loadable, Exists
    <3>3. QED BY <2>1, <3>2 DEF Cell!TakeEffect
  <2>3. CASE UNCHANGED <<primary, temporary>>
    BY <1>3, <2>1, <2>3 DEF InstallTemporary, Loadable, Exists
  <2>4. QED BY <1>3, <2>2, <2>3 DEF InstallTemporary
<1>4. CASE UndoStash \/ DropBackup
  <2>1. Loadable' = Loadable
    BY <1>4, MissingFacts DEF UndoStash, DropBackup, Loadable, Exists, StoreInv,
                NewIdentityReady, TypeOK
  <2>2. Saving # None /\ Saving' = None
    BY <1>4, StoreAssumption DEF UndoStash, DropBackup, Fail, Saving, SavePcs, StoreInv,
                NewIdentityReady, Sound
  <2>3. QED BY <2>1, <2>2 DEF Cell!EndSave
<1>5. CASE StopWorker \/ Crash
  <2>1. Loadable' = Loadable /\ Saving' = None
    BY <1>5 DEF StopWorker, Crash, fileVars, Loadable, Exists, Saving, SavePcs
  <2>2. QED BY <2>1 DEF Cell!EndSave
<1>6. CASE UNCHANGED vars
  BY <1>6 DEF vars, fileVars, Loadable, Exists, Saving
<1>7. QED BY <1>1, <1>2, <1>3, <1>4, <1>5, <1>6 DEF Next, Save

\* The primary, its backup and the temporary implement a durable cell: a save
\* takes effect in one step, and no failed operation, crash or restart between
\* two of them changes what a load with the right passphrase returns.
THEOREM FilesImplementCell == Spec => ImplementsCell
<1>1. Init => Cell!CellInit
  BY MissingFacts, FileFacts DEF Init, Cell!CellInit, Loadable, Saving, SavePcs, Exists
<1>2. QED BY <1>1, StoreInvariant, CellStep, PTL DEF Spec, Cell!CellSpec, ImplementsCell
=============================================================================
