------------------------ MODULE ProfileSessionProofs ------------------------
(***************************************************************************)
(* Proofs about ProfileSession, for any files, profiles and hosts and for  *)
(* any number of kills: a stream gives the settings files back, what the   *)
(* user set is on the disk at every moment, and no reference to a profile  *)
(* outlives it.                                                            *)
(***************************************************************************)
EXTENDS ProfileSession, TLAPS

HostsTyped == hostProfile \in [Hosts -> Profiles \cup {None}]

\* Where the view and the loops over the files can be; only a view that has
\* connected has a profile applied, and it has a host.
ViewShape ==
  /\ phase = "none" => ~applied
  /\ connecting => phase # "none" /\ ~applied /\ host \in Hosts
  /\ pc = "backup" => /\ phase # "none" /\ ~applied /\ ~connecting
                      /\ host \in Hosts /\ SelectedForHost # None
  /\ pc = "restore" => ~applied
  /\ pc = "idle" => todo = {}

\* After a kill no backup has been taken yet, or the disk counts as exposed.
AfterKill ==
  (crashes > 0 /\ ~exposed) =>
    ~applied /\ pc # "restore" /\ (pc = "backup" => todo = Files)

\* While the profile's values may be in the files, the backups hold what the
\* user set; while they are taken or put back, each file on its own.
BackedUp ==
  ~exposed => \A f \in Files : global[f] # Missing =>
    /\ applied => bak[f] = global[f]
    /\ (pc = "backup" /\ f \notin todo) => bak[f] = global[f]
    /\ pc = "restore" => IF f \in todo THEN bak[f] = global[f] ELSE file[f] = global[f]

\* Outside of that, and before the first kill, the files are as the user left
\* them and the stores in memory follow.
InStep ==
  (~exposed /\ crashes = 0 /\ ~applied /\ pc # "restore") =>
    \A f \in Files : /\ memory[f] = Read(file[f])
                     /\ global[f] # Missing => file[f] = global[f]

\* settings.json was written when the first host was added.
SettingsExist == global[SettingsFile] # Missing

SessionInv ==
  /\ FilesTypeOK /\ ViewTypeOK /\ HostsTyped /\ ViewShape /\ AfterKill
  /\ BackedUp /\ InStep /\ SettingsExist /\ UserValueOnDisk

-----------------------------------------------------------------------------

\* What the assumptions on the constants say of the contents of a file.
LEMMA ConstantFacts ==
  /\ SettingsFile \in Files /\ MaxCrashes \in Nat
  /\ UserValues \subseteq Values /\ Profiles \subseteq Values /\ Values \subseteq Contents
  /\ Missing \in Contents /\ Torn \in Contents /\ Default \in Values
  /\ Missing \notin Values /\ Torn \notin Values /\ None \notin Profiles
BY SessionAssumption DEF Values, Contents

\* A reload gives a value, and leaves a readable file's alone.
LEMMA ReadFacts ==
  ASSUME NEW c \in Contents
  PROVE  /\ Read(c) \in Values
         /\ c \in Values => Read(c) = c
         /\ \A v \in Values : LoadSettings(v, c) \in Values
         /\ \A v : c \in Values => LoadSettings(v, c) = Read(c)
BY ConstantFacts DEF Read, LoadSettings, Contents

\* The application starts with the files as the user left them.
LEMMA InitSessionInv == Init => SessionInv
<1> SUFFICES ASSUME Init PROVE SessionInv
  OBVIOUS
<1> USE ConstantFacts DEF Init, Idle
<1>1. FilesTypeOK
  <2>1. file \in [Files -> Contents] /\ global \in [Files -> Values \cup {Missing}]
    OBVIOUS
  <2>2. bak \in [Files -> Contents]
    OBVIOUS
  <2>3. memory \in [Files -> Values]
    BY <2>1, ReadFacts
  <2>4. QED BY <2>1, <2>2, <2>3 DEF FilesTypeOK
<1>2. ViewTypeOK /\ HostsTyped
  <2>1. connecting \in BOOLEAN /\ applied \in BOOLEAN /\ exposed \in BOOLEAN
    OBVIOUS
  <2>2. crashes \in 0..MaxCrashes /\ todo \in SUBSET Files /\ host \in Hosts \cup {None}
    OBVIOUS
  <2>3. QED BY <2>1, <2>2 DEF ViewTypeOK, HostsTyped
<1>3. ViewShape
  BY DEF ViewShape
<1>4. AfterKill
  BY DEF AfterKill
<1>5. BackedUp /\ InStep /\ SettingsExist /\ UserValueOnDisk
  BY DEF BackedUp, InStep, SettingsExist, UserValueOnDisk
<1>6. QED BY <1>1, <1>2, <1>3, <1>4, <1>5 DEF SessionInv

-----------------------------------------------------------------------------
(* One lemma per group of actions, one step per conjunct.                  *)

\* The profile store changes only while no view is there.
LEMMA StoreSteps ==
  ASSUME SessionInv, StoreStep
  PROVE  SessionInv'
<1> USE ConstantFacts DEF SessionInv, Idle, storeVars, viewVars
<1> USE DEF StoreStep, CreateProfile, Duplicate, ImportJson, RemoveProfile, SelectForHost
<1>1. /\ pc = "idle" /\ phase = "none"
      /\ UNCHANGED <<file, bak, memory, global, viewVars, pc, todo, crashes, exposed>>
  OBVIOUS
<1>2. hostProfile' \in [Hosts -> Profiles \cup {None}]
  BY DEF HostsTyped
<1>3. FilesTypeOK'
  BY <1>1, <1>2 DEF FilesTypeOK
<1>4. ViewTypeOK'
  BY <1>1, <1>2 DEF ViewTypeOK
<1>5. HostsTyped'
  BY <1>1, <1>2 DEF HostsTyped
<1>6. ViewShape'
  BY <1>1, <1>2 DEF ViewShape
<1>7. AfterKill'
  BY <1>1, <1>2 DEF AfterKill
<1>8. BackedUp'
  BY <1>1, <1>2 DEF BackedUp
<1>9. InStep'
  BY <1>1, <1>2 DEF InStep
<1>10. SettingsExist'
  BY <1>1, <1>2 DEF SettingsExist
<1>11. UserValueOnDisk'
  BY <1>1, <1>2 DEF UserValueOnDisk
<1>12. QED BY <1>3, <1>4, <1>5, <1>6, <1>7, <1>8, <1>9, <1>10, <1>11

\* A change on a settings page is in memory, in the file and the user's.
LEMMA UserSaveStep ==
  ASSUME SessionInv, NEW f \in Files, NEW v \in UserValues, UserSave(f, v)
  PROVE  SessionInv'
<1> USE ConstantFacts DEF SessionInv, Idle, storeVars, viewVars
<1> USE DEF UserSave
<1>1. /\ file' \in [Files -> Contents] /\ memory' \in [Files -> Values]
      /\ global' \in [Files -> Values \cup {Missing}]
  BY DEF FilesTypeOK
<1>2. Read(v) = v
  BY ReadFacts
<1>3. v \in Values /\ v # Missing
  OBVIOUS
<1>4. FilesTypeOK'
  BY <1>1, <1>2, <1>3 DEF FilesTypeOK
<1>5. ViewTypeOK'
  BY <1>1, <1>2, <1>3 DEF ViewTypeOK
<1>6. HostsTyped'
  BY <1>1, <1>2, <1>3 DEF HostsTyped
<1>7. ViewShape'
  BY <1>1, <1>2, <1>3 DEF ViewShape
<1>8. AfterKill'
  BY <1>1, <1>2, <1>3 DEF AfterKill
<1>9. BackedUp'
  BY <1>1, <1>2, <1>3 DEF BackedUp, FilesTypeOK, ViewShape, ViewTypeOK, AfterKill, InStep
<1>10. InStep'
  BY <1>1, <1>2, <1>3 DEF InStep
<1>11. SettingsExist'
  BY <1>1, <1>2, <1>3 DEF SettingsExist
<1>12. UserValueOnDisk'
  BY <1>1, <1>2, <1>3 DEF UserValueOnDisk
<1>13. QED BY <1>4, <1>5, <1>6, <1>7, <1>8, <1>9, <1>10, <1>11, <1>12

\* The overlay saves what is in memory; with a profile applied the backups keep
\* what the user set.
LEMMA OverlaySaveStep ==
  ASSUME SessionInv, NEW f \in Files, NEW v \in Values, OverlaySave(f, v)
  PROVE  SessionInv'
<1> USE ConstantFacts DEF SessionInv, Idle, storeVars, viewVars
<1> USE DEF OverlaySave
<1>1. /\ file' \in [Files -> Contents] /\ memory' \in [Files -> Values]
      /\ global' \in [Files -> Values \cup {Missing}]
  BY DEF FilesTypeOK
<1>2. Read(v) = v
  BY ReadFacts
<1>3. v # Missing
  OBVIOUS
<1>4. FilesTypeOK'
  BY <1>1, <1>2, <1>3 DEF FilesTypeOK
<1>5. ViewTypeOK'
  BY <1>1, <1>2, <1>3 DEF ViewTypeOK
<1>6. HostsTyped'
  BY <1>1, <1>2, <1>3 DEF HostsTyped
<1>7. ViewShape'
  BY <1>1, <1>2, <1>3 DEF ViewShape
<1>8. AfterKill'
  BY <1>1, <1>2, <1>3 DEF AfterKill
<1>9. BackedUp'
  BY <1>1, <1>2, <1>3 DEF BackedUp
<1>10. InStep'
  BY <1>1, <1>2, <1>3 DEF InStep
<1>11. SettingsExist'
  BY <1>1, <1>2, <1>3 DEF SettingsExist
<1>12. UserValueOnDisk'
  BY <1>1, <1>2, <1>3 DEF UserValueOnDisk, FilesTypeOK, ViewShape, ViewTypeOK,
     BackedUp, InStep, AfterKill
<1>13. QED BY <1>4, <1>5, <1>6, <1>7, <1>8, <1>9, <1>10, <1>11, <1>12

\* A view opens for a host.
LEMMA OpenViewStep ==
  ASSUME SessionInv, NEW h \in Hosts, OpenView(h)
  PROVE  SessionInv'
<1> USE ConstantFacts DEF SessionInv, Idle, storeVars, viewVars
<1> USE DEF OpenView
<1>1. FilesTypeOK'
  BY DEF FilesTypeOK
<1>2. ViewTypeOK'
  BY DEF ViewTypeOK
<1>3. HostsTyped'
  BY DEF HostsTyped
<1>4. ViewShape'
  BY DEF ViewShape
<1>5. AfterKill'
  BY DEF AfterKill
<1>6. BackedUp'
  BY DEF BackedUp
<1>7. InStep'
  BY DEF InStep
<1>8. SettingsExist'
  BY DEF SettingsExist
<1>9. UserValueOnDisk'
  BY DEF UserValueOnDisk
<1>10. QED BY <1>1, <1>2, <1>3, <1>4, <1>5, <1>6, <1>7, <1>8, <1>9

\* The connect of the view completes.
LEMMA ConnectStep ==
  ASSUME SessionInv, ConnectPlain \/ ConnectWithProfile
  PROVE  SessionInv'
<1> USE ConstantFacts DEF SessionInv, Idle, storeVars, viewVars
<1> USE DEF ConnectPlain, ConnectWithProfile
<1>1. FilesTypeOK'
  BY DEF FilesTypeOK
<1>2. ViewTypeOK'
  BY DEF ViewTypeOK
<1>3. HostsTyped'
  BY DEF HostsTyped
<1>4. ViewShape'
  BY DEF ViewShape, ViewTypeOK, SelectedForHost, Known
<1>5. AfterKill'
  BY DEF AfterKill
<1>6. BackedUp'
  BY DEF BackedUp
<1>7. InStep'
  BY DEF InStep
<1>8. SettingsExist'
  BY DEF SettingsExist
<1>9. UserValueOnDisk'
  BY DEF UserValueOnDisk
<1>10. QED BY <1>1, <1>2, <1>3, <1>4, <1>5, <1>6, <1>7, <1>8, <1>9

\* A file is copied aside, in step with what the user set; otherwise the disk
\* counts as exposed.
LEMMA BackupFileStep ==
  ASSUME SessionInv, NEW f \in Files, BackupFile(f)
  PROVE  SessionInv'
<1> USE ConstantFacts DEF SessionInv, Idle, storeVars, viewVars
<1> USE DEF BackupFile
<1>1. bak' \in [Files -> Contents]
  BY DEF FilesTypeOK
<1>2. exposed' \in BOOLEAN /\ (~exposed' => ~exposed /\ bak' = [bak EXCEPT ![f] = file[f]])
  BY DEF ViewTypeOK
<1>3. ~exposed' => ~(crashes > 0)
  OBVIOUS
<1>4. ~exposed' => crashes = 0
  BY <1>3 DEF ViewTypeOK
<1>5. SelectedForHost' = SelectedForHost
  BY DEF SelectedForHost, Known
<1>6. FilesTypeOK'
  BY <1>1, <1>2, <1>3, <1>4, <1>5 DEF FilesTypeOK
<1>7. ViewTypeOK'
  BY <1>1, <1>2, <1>3, <1>4, <1>5 DEF ViewTypeOK
<1>8. HostsTyped'
  BY <1>1, <1>2, <1>3, <1>4, <1>5 DEF HostsTyped
<1>9. ViewShape'
  BY <1>1, <1>2, <1>3, <1>4, <1>5 DEF ViewShape
<1>10. AfterKill'
  BY <1>1, <1>2, <1>3, <1>4, <1>5 DEF AfterKill
<1>11. BackedUp'
  BY <1>1, <1>2, <1>3, <1>4, <1>5 DEF BackedUp, FilesTypeOK, ViewShape, ViewTypeOK,
     AfterKill, InStep
<1>12. InStep'
  BY <1>1, <1>2, <1>3, <1>4, <1>5 DEF InStep
<1>13. SettingsExist'
  BY <1>1, <1>2, <1>3, <1>4, <1>5 DEF SettingsExist
<1>14. UserValueOnDisk'
  BY <1>1, <1>2, <1>3, <1>4, <1>5 DEF UserValueOnDisk, FilesTypeOK, ViewShape,
     ViewTypeOK, BackedUp, InStep, AfterKill
<1>15. QED BY <1>6, <1>7, <1>8, <1>9, <1>10, <1>11, <1>12, <1>13, <1>14

\* The profile goes to memory when every backup is taken.
LEMMA ApplyProfileStep ==
  ASSUME SessionInv, ApplyProfile
  PROVE  SessionInv'
<1> USE ConstantFacts DEF SessionInv, Idle, storeVars, viewVars
<1> USE DEF ApplyProfile
<1>1. SelectedForHost \in Profiles
  BY DEF ViewShape, SelectedForHost, HostsTyped
<1>2. memory' \in [Files -> Values]
  BY <1>1
<1>3. FilesTypeOK'
  BY <1>1, <1>2 DEF FilesTypeOK
<1>4. ViewTypeOK'
  BY <1>1, <1>2 DEF ViewTypeOK
<1>5. HostsTyped'
  BY <1>1, <1>2 DEF HostsTyped
<1>6. ViewShape'
  BY <1>1, <1>2 DEF ViewShape
<1>7. AfterKill'
  BY <1>1, <1>2 DEF AfterKill
<1>8. BackedUp'
  BY <1>1, <1>2 DEF BackedUp
<1>9. InStep'
  BY <1>1, <1>2 DEF InStep
<1>10. SettingsExist'
  BY <1>1, <1>2 DEF SettingsExist
<1>11. UserValueOnDisk'
  BY <1>1, <1>2 DEF UserValueOnDisk
<1>12. QED BY <1>3, <1>4, <1>5, <1>6, <1>7, <1>8, <1>9, <1>10, <1>11

\* The view is torn down or goes; a profile that was applied starts the restore.
LEMMA TeardownStep ==
  ASSUME SessionInv, FinishTeardown \/ DestroyView
  PROVE  SessionInv'
<1> USE ConstantFacts DEF SessionInv, Idle, storeVars, viewVars
<1> USE DEF FinishTeardown, DestroyView
<1>1. FilesTypeOK'
  BY DEF FilesTypeOK
<1>2. ViewTypeOK'
  BY DEF ViewTypeOK
<1>3. HostsTyped'
  BY DEF HostsTyped
<1>4. ViewShape'
  BY DEF ViewShape
<1>5. AfterKill'
  BY DEF AfterKill
<1>6. BackedUp'
  BY DEF BackedUp
<1>7. InStep'
  BY DEF InStep
<1>8. SettingsExist'
  BY DEF SettingsExist
<1>9. UserValueOnDisk'
  BY DEF UserValueOnDisk
<1>10. QED BY <1>1, <1>2, <1>3, <1>4, <1>5, <1>6, <1>7, <1>8, <1>9

\* A file gets its backup back, or has none.
LEMMA RestoreFileStep ==
  ASSUME SessionInv, NEW f \in Files, RestoreFile(f) \/ SkipFile(f)
  PROVE  SessionInv'
<1> USE ConstantFacts DEF SessionInv, Idle, storeVars, viewVars
<1> USE DEF RestoreFile, SkipFile
<1>1. file' \in [Files -> Contents] /\ bak' \in [Files -> Contents]
  BY DEF FilesTypeOK
<1>2. exposed' \in BOOLEAN
  BY DEF ViewTypeOK
<1>3. /\ todo' = todo \ {f} /\ f \in todo
      /\ \A e \in Files : e # f => file'[e] = file[e] \/ exposed'
      /\ \A e \in Files : e # f => bak'[e] = bak[e]
  BY DEF FilesTypeOK
<1>4. ~exposed' => /\ ~exposed
                   /\ global[f] # Missing => bak[f] = global[f]
                   /\ global[f] # Missing => file'[f] = global[f]
  BY DEF FilesTypeOK, ViewTypeOK, BackedUp
<1>5. FilesTypeOK'
  BY <1>1, <1>2, <1>3, <1>4 DEF FilesTypeOK
<1>6. ViewTypeOK'
  BY <1>1, <1>2, <1>3, <1>4 DEF ViewTypeOK
<1>7. HostsTyped'
  BY <1>1, <1>2, <1>3, <1>4 DEF HostsTyped
<1>8. ViewShape'
  BY <1>1, <1>2, <1>3, <1>4 DEF ViewShape
<1>9. AfterKill'
  BY <1>1, <1>2, <1>3, <1>4 DEF AfterKill
<1>10. BackedUp'
  BY <1>1, <1>2, <1>3, <1>4 DEF BackedUp, FilesTypeOK, ViewShape, ViewTypeOK,
     AfterKill, InStep
<1>11. InStep'
  BY <1>1, <1>2, <1>3, <1>4 DEF InStep
<1>12. SettingsExist'
  BY <1>1, <1>2, <1>3, <1>4 DEF SettingsExist
<1>13. UserValueOnDisk'
  BY <1>1, <1>2, <1>3, <1>4 DEF UserValueOnDisk, FilesTypeOK, ViewShape, ViewTypeOK,
     BackedUp, InStep, AfterKill
<1>14. QED BY <1>5, <1>6, <1>7, <1>8, <1>9, <1>10, <1>11, <1>12, <1>13

\* Settings::load and the reload of the stores: settings.json exists, so that
\* memory follows the files.
LEMMA ReloadStoresStep ==
  ASSUME SessionInv, ReloadStores
  PROVE  SessionInv'
<1> USE ConstantFacts DEF SessionInv, Idle, storeVars, viewVars
<1> USE DEF ReloadStores
<1>1. memory' \in [Files -> Values]
  BY ReadFacts DEF FilesTypeOK
<1>2. (~exposed /\ crashes = 0) => \A f \in Files : memory'[f] = Read(file[f])
  BY ReadFacts DEF FilesTypeOK, BackedUp, SettingsExist
<1>3. (~exposed /\ crashes = 0) => \A f \in Files : global[f] # Missing => file[f] = global[f]
  BY DEF BackedUp, ViewTypeOK
<1>4. FilesTypeOK'
  BY <1>1, <1>2, <1>3 DEF FilesTypeOK
<1>5. ViewTypeOK'
  BY <1>1, <1>2, <1>3 DEF ViewTypeOK
<1>6. HostsTyped'
  BY <1>1, <1>2, <1>3 DEF HostsTyped
<1>7. ViewShape'
  BY <1>1, <1>2, <1>3 DEF ViewShape
<1>8. AfterKill'
  BY <1>1, <1>2, <1>3 DEF AfterKill
<1>9. BackedUp'
  BY <1>1, <1>2, <1>3 DEF BackedUp
<1>10. InStep'
  BY <1>1, <1>2, <1>3 DEF InStep
<1>11. SettingsExist'
  BY <1>1, <1>2, <1>3 DEF SettingsExist
<1>12. UserValueOnDisk'
  BY <1>1, <1>2, <1>3 DEF UserValueOnDisk
<1>13. QED BY <1>4, <1>5, <1>6, <1>7, <1>8, <1>9, <1>10, <1>11, <1>12

\* A kill loses one of the two copies at most, or the disk counts as exposed.
LEMMA CrashStep ==
  ASSUME SessionInv, Crash
  PROVE  SessionInv'
<1> USE ConstantFacts DEF SessionInv, Idle, storeVars, viewVars
<1> USE DEF Crash, TearBackup, TearFile
<1>1. file' \in [Files -> Contents] /\ bak' \in [Files -> Contents]
  BY DEF FilesTypeOK
<1>2. memory' \in [Files -> Values]
  BY <1>1, ReadFacts
<1>3. exposed' \in BOOLEAN
  BY DEF ViewTypeOK
<1>4. crashes' \in 1..MaxCrashes /\ crashes' \in 0..MaxCrashes
  BY DEF ViewTypeOK
<1>5. connecting' \in BOOLEAN /\ applied' \in BOOLEAN
  OBVIOUS
<1>6. /\ phase' = "none" /\ pc' = "idle" /\ todo' = {} /\ ~applied' /\ ~connecting'
      /\ host' = None /\ UNCHANGED <<global, hostProfile>>
  OBVIOUS
<1>7. ~exposed' => \A f \in Files : global[f] # Missing =>
                     global[f] \in {file'[f], bak'[f]}
  <2> SUFFICES ASSUME ~exposed', NEW f \in Files, global[f] # Missing
               PROVE  global[f] \in {file'[f], bak'[f]}
    OBVIOUS
  <2>1. CASE UNCHANGED <<file, bak, exposed>>
    BY <2>1 DEF UserValueOnDisk
  <2>2. ASSUME NEW e \in Files, TearBackup(e)
        PROVE  global[f] \in {file'[f], bak'[f]}
    <3>0. ~exposed /\ ~(crashes > 0) /\ file' = file /\ pc = "backup"
      BY <2>2
    <3>1. ~exposed /\ crashes = 0 /\ file' = file
      BY <3>0 DEF ViewTypeOK
    <3>2. global[f] = file[f]
      BY <3>0, <3>1 DEF InStep, ViewShape
    <3>3. QED BY <3>1, <3>2
  <2>3. ASSUME NEW e \in Files, TearFile(e)
        PROVE  global[f] \in {file'[f], bak'[f]}
    <3>1. ~exposed /\ bak' = bak /\ file'[f] \in {file[f], Torn} /\ (f # e => file'[f] = file[f])
      BY <2>3 DEF FilesTypeOK
    <3>2. CASE f # e
      BY <3>1, <3>2 DEF UserValueOnDisk
    <3>3. CASE f = e
      BY <2>3, <3>1, <3>3 DEF BackedUp, ViewTypeOK
    <3>4. QED BY <3>2, <3>3
  <2>4. QED BY <2>1, <2>2, <2>3
<1>8. FilesTypeOK'
  BY <1>1, <1>2, <1>3, <1>4, <1>5, <1>6, <1>7 DEF FilesTypeOK
<1>9. ViewTypeOK'
  BY <1>1, <1>2, <1>3, <1>4, <1>5, <1>6, <1>7 DEF ViewTypeOK
<1>10. HostsTyped'
  BY <1>1, <1>2, <1>3, <1>4, <1>5, <1>6, <1>7 DEF HostsTyped
<1>11. ViewShape'
  BY <1>1, <1>2, <1>3, <1>4, <1>5, <1>6, <1>7 DEF ViewShape
<1>12. AfterKill'
  BY <1>1, <1>2, <1>3, <1>4, <1>5, <1>6, <1>7 DEF AfterKill
<1>13. BackedUp'
  BY <1>1, <1>2, <1>3, <1>4, <1>5, <1>6, <1>7 DEF BackedUp
<1>14. InStep'
  BY <1>1, <1>2, <1>3, <1>4, <1>5, <1>6, <1>7 DEF InStep
<1>15. SettingsExist'
  BY <1>1, <1>2, <1>3, <1>4, <1>5, <1>6, <1>7 DEF SettingsExist
<1>16. UserValueOnDisk'
  BY <1>1, <1>2, <1>3, <1>4, <1>5, <1>6, <1>7 DEF UserValueOnDisk
<1>17. QED BY <1>8, <1>9, <1>10, <1>11, <1>12, <1>13, <1>14, <1>15, <1>16

\* A stuttering step changes nothing.
LEMMA StutterSession ==
  ASSUME SessionInv, UNCHANGED vars
  PROVE  SessionInv'
<1> USE DEF SessionInv, vars, storeVars, viewVars, Idle
<1>1. FilesTypeOK'
  BY DEF FilesTypeOK
<1>2. ViewTypeOK'
  BY DEF ViewTypeOK
<1>3. HostsTyped'
  BY DEF HostsTyped
<1>4. ViewShape'
  BY DEF ViewShape, SelectedForHost, Known
<1>5. AfterKill'
  BY DEF AfterKill
<1>6. BackedUp'
  BY DEF BackedUp
<1>7. InStep'
  BY DEF InStep
<1>8. SettingsExist'
  BY DEF SettingsExist
<1>9. UserValueOnDisk'
  BY DEF UserValueOnDisk
<1>10. QED BY <1>1, <1>2, <1>3, <1>4, <1>5, <1>6, <1>7, <1>8, <1>9

-----------------------------------------------------------------------------

\* Every step of the application keeps the invariant.
LEMMA NextSessionInv ==
  ASSUME SessionInv, [Next]_vars
  PROVE  SessionInv'
<1>1. CASE StoreStep
  BY <1>1, StoreSteps
<1>2. CASE FileStep
  BY <1>2, BackupFileStep, RestoreFileStep, OverlaySaveStep, UserSaveStep DEF FileStep
<1>3. CASE ViewStep
  BY <1>3, OpenViewStep, ConnectStep, ApplyProfileStep, TeardownStep,
     ReloadStoresStep DEF ViewStep
<1>4. CASE Crash
  BY <1>4, CrashStep
<1>5. CASE UNCHANGED vars
  BY <1>5, StutterSession
<1>6. QED BY <1>1, <1>2, <1>3, <1>4, <1>5 DEF Next

\* The settings files, their backups, the stores and what the user set are in
\* step as SessionInv says, over any number of streams and kills.
THEOREM SessionInvariant == Spec => []SessionInv
BY InitSessionInv, NextSessionInv, PTL DEF Spec

\* The variables of the files and of the view stay in their types, for any
\* files, profiles, hosts and number of kills.
THEOREM SessionTypes == Spec => [](FilesTypeOK /\ ViewTypeOK)
<1>1. SessionInv => FilesTypeOK /\ ViewTypeOK
  BY DEF SessionInv
<1>2. QED BY <1>1, SessionInvariant, PTL

\* Without a kill or a failed copy the end of every stream gives each settings
\* file back and the stores in memory follow.
THEOREM StreamGivesSettingsBack == Spec => []SessionRestores
<1>1. SessionInv => SessionRestores
  BY DEF SessionInv, ViewShape, ViewTypeOK, InStep, SessionRestores, Idle
<1>2. QED BY <1>1, SessionInvariant, PTL

\* What the user set is in the file or in its backup at every moment, a kill
\* included, until a stream takes its backups again after one.
THEOREM UserValueSurvives == Spec => []UserValueOnDisk
<1>1. SessionInv => UserValueOnDisk
  BY DEF SessionInv
<1>2. QED BY <1>1, SessionInvariant, PTL
-----------------------------------------------------------------------------
(* The profile store: its references and the identifiers of its profiles.  *)

StoreInv == StoreTypeOK /\ ReferencesExist

\* A new profile at the end of the list is known, as are all the others, and
\* the identifiers stay unique.
LEMMA AppendFacts ==
  ASSUME NEW s \in Seq(Profiles), NEW p \in Profiles
  PROVE  /\ Append(s, p) \in Seq(Profiles)
         /\ p \in ToSet(Append(s, p))
         /\ \A q \in ToSet(s) : q \in ToSet(Append(s, p))
         /\ (IsInjective(s) /\ p \notin ToSet(s)) => IsInjective(Append(s, p))
<1> DEFINE t == Append(s, p)
<1>1. /\ t \in Seq(Profiles) /\ Len(t) = Len(s) + 1 /\ DOMAIN t = 1..(Len(s) + 1)
      /\ DOMAIN s = 1..Len(s) /\ Len(s) \in Nat
      /\ t[Len(s) + 1] = p /\ \A i \in 1..Len(s) : t[i] = s[i]
  OBVIOUS
<1> HIDE DEF t
<1>2. p \in ToSet(t) /\ \A q \in ToSet(s) : q \in ToSet(t)
  BY <1>1 DEF ToSet
<1>3. ASSUME IsInjective(s), p \notin ToSet(s) PROVE IsInjective(t)
  BY <1>1, <1>3 DEF IsInjective, ToSet
<1>4. QED BY <1>1, <1>2, <1>3 DEF t

\* Removing one entry of a list without duplicates leaves exactly the others.
LEMMA RemoveFacts ==
  ASSUME NEW s \in Seq(Profiles), NEW i \in DOMAIN s, IsInjective(s)
  PROVE  /\ RemoveAt(s, i) \in Seq(Profiles)
         /\ IsInjective(RemoveAt(s, i))
         /\ \A q \in ToSet(s) : q # s[i] => q \in ToSet(RemoveAt(s, i))
<1> DEFINE a == SubSeq(s, 1, i - 1)
<1> DEFINE b == SubSeq(s, i + 1, Len(s))
<1> DEFINE t == a \o b
<1>1. DOMAIN s = 1..Len(s) /\ Len(s) \in Nat /\ i \in 1..Len(s)
  OBVIOUS
<1>2. /\ a \in Seq(Profiles) /\ Len(a) = i - 1
      /\ \A j \in 1..(i - 1) : a[j] = s[j]
  BY <1>1
<1>3. /\ b \in Seq(Profiles) /\ Len(b) = Len(s) - i
      /\ \A j \in 1..(Len(s) - i) : b[j] = s[i + j]
  BY <1>1
<1> HIDE DEF a, b
<1>4. t \in Seq(Profiles) /\ DOMAIN t = 1..(Len(s) - 1)
  <2>1. a \in Seq(Profiles) /\ b \in Seq(Profiles)
    BY <1>2, <1>3
  <2>2. t \in Seq(Profiles) /\ Len(t) = Len(a) + Len(b)
    BY <2>1
  <2>3. DOMAIN t = 1..Len(t)
    BY <2>2
  <2>4. Len(a) + Len(b) = Len(s) - 1
    BY <1>1, <1>2, <1>3
  <2>5. QED BY <2>2, <2>3, <2>4
<1>5. ASSUME NEW j \in 1..(Len(s) - 1)
      PROVE  t[j] = IF j < i THEN s[j] ELSE s[j + 1]
  <2>1. CASE j < i
    <3>1. j \in 1..Len(a) /\ t[j] = a[j]
      BY <1>1, <1>2, <1>3, <2>1
    <3>2. QED BY <1>2, <2>1, <3>1
  <2>2. CASE ~(j < i)
    <3>1. j - Len(a) \in 1..Len(b) /\ ~(j <= Len(a)) /\ i + (j - Len(a)) = j + 1
      BY <1>1, <1>2, <1>3, <2>2
    <3>2. j \in 1..(Len(a) + Len(b))
      BY <1>1, <1>2, <1>3
    <3>3. t[j] = b[j - Len(a)]
      BY <1>2, <1>3, <3>1, <3>2
    <3>4. QED BY <1>3, <2>2, <3>1, <3>3
  <2>3. QED BY <2>1, <2>2
<1> HIDE DEF t
<1>6. IsInjective(t)
  <2>1. ASSUME NEW j \in 1..(Len(s) - 1), NEW k \in 1..(Len(s) - 1), t[j] = t[k]
        PROVE  j = k
    <3> DEFINE from(n) == IF n < i THEN n ELSE n + 1
    <3>1. from(j) \in DOMAIN s /\ from(k) \in DOMAIN s
      BY <1>1
    <3>2. s[from(j)] = t[j] /\ s[from(k)] = t[k]
      BY <1>5
    <3>3. from(j) = from(k)
      BY <2>1, <3>1, <3>2 DEF IsInjective
    <3>4. QED BY <1>1, <3>3
  <2>2. QED BY <1>4, <2>1 DEF IsInjective
<1>7. ASSUME NEW q \in ToSet(s), q # s[i] PROVE q \in ToSet(t)
  <2>1. PICK k \in 1..Len(s) : s[k] = q /\ k # i
    BY <1>1, <1>7 DEF ToSet
  <2>2. CASE k < i
    BY <1>1, <1>4, <1>5, <2>1, <2>2 DEF ToSet
  <2>3. CASE k > i
    <3>1. k - 1 \in 1..(Len(s) - 1) /\ ~(k - 1 < i) /\ (k - 1) + 1 = k
      BY <1>1, <2>1, <2>3
    <3>2. t[k - 1] = q
      BY <1>5, <2>1, <3>1
    <3>3. QED BY <1>4, <3>1, <3>2 DEF ToSet
  <2>4. QED BY <1>1, <2>1, <2>2, <2>3
<1>8. t = RemoveAt(s, i)
  BY DEF t, a, b, RemoveAt
<1>9. QED BY <1>4, <1>6, <1>7, <1>8

\* Who becomes active when the active profile goes is known, if anybody is.
LEMMA FirstFacts ==
  ASSUME NEW s \in Seq(Profiles), s # <<>>
  PROVE  FirstProfile(s) \in ToSet(s)
BY DEF FirstProfile, ToSet

\* What is known is a profile.
LEMMA KnownProfiles ==
  ASSUME NEW s \in Seq(Profiles)
  PROVE  ToSet(s) \subseteq Profiles
BY DEF ToSet

\* The store starts empty.
LEMMA InitStoreInv == Init => StoreInv
<1> SUFFICES ASSUME Init PROVE StoreInv
  OBVIOUS
<1>1. StoreTypeOK
  BY DEF Init, StoreTypeOK
<1>2. IsInjective(<<>>)
  BY DEF IsInjective
<1>3. ReferencesExist
  BY <1>2 DEF Init, ReferencesExist
<1>4. QED BY <1>1, <1>3 DEF StoreInv

\* Adding a profile, by create, duplicate or an import, keeps every reference.
LEMMA AddSteps ==
  ASSUME StoreInv, NEW p \in Profiles, CreateProfile(p) \/ Duplicate(p)
  PROVE  StoreInv'
<1> USE DEF StoreInv, StoreTypeOK, ReferencesExist, Known
<1>1. /\ profiles' = Append(profiles, p) /\ p \notin ToSet(profiles)
      /\ hostProfile' = hostProfile
      /\ activeProfileId' \in {activeProfileId, p}
  BY DEF CreateProfile, Duplicate
<1>2. QED BY <1>1, AppendFacts

\* An import takes over references to profiles that exist afterwards only.
LEMMA ImportStep ==
  ASSUME StoreInv, NEW h \in Hosts, NEW p \in Profiles \cup {None},
         NEW q \in Profiles, ImportJson(p, h, q)
  PROVE  StoreInv'
<1> USE DEF StoreInv, StoreTypeOK, ReferencesExist, Known
<1>1. /\ profiles' \in Seq(Profiles) /\ IsInjective(profiles')
      /\ \A r \in ToSet(profiles) : r \in ToSet(profiles')
  BY AppendFacts DEF ImportJson
<1>2. ToSet(profiles') \subseteq Profiles
  BY <1>1, KnownProfiles
<1>3. activeProfileId' \in Profiles \cup {None} /\ (activeProfileId' # None => Known(activeProfileId)')
  BY <1>1, <1>2 DEF ImportJson
<1>4. hostProfile' \in [Hosts -> Profiles \cup {None}]
  BY DEF ImportJson
<1>5. \A g \in Hosts : hostProfile'[g] # None => hostProfile'[g] \in ToSet(profiles')
  BY <1>1 DEF ImportJson
<1>6. QED BY <1>1, <1>3, <1>4, <1>5

\* A removal takes the references of the hosts along, and the active profile
\* moves to the first one left.
LEMMA RemoveStep ==
  ASSUME StoreInv, NEW p \in Profiles, RemoveProfile(p)
  PROVE  StoreInv'
<1> USE DEF StoreInv, StoreTypeOK, ReferencesExist, Known
<1>1. PICK i \in DOMAIN profiles : profiles[i] = p /\ profiles' = RemoveAt(profiles, i)
  BY DEF RemoveProfile
<1>2. /\ profiles' \in Seq(Profiles) /\ IsInjective(profiles')
      /\ \A r \in ToSet(profiles) : r # p => r \in ToSet(profiles')
  BY <1>1, RemoveFacts
<1>3. /\ hostProfile' \in [Hosts -> Profiles \cup {None}]
      /\ \A g \in Hosts : hostProfile'[g] # None =>
            hostProfile'[g] = hostProfile[g] /\ hostProfile[g] # p
  BY DEF RemoveProfile
<1>4. \A g \in Hosts : hostProfile'[g] # None => hostProfile'[g] \in ToSet(profiles')
  BY <1>2, <1>3
<1>5. /\ activeProfileId' \in Profiles \cup {None}
      /\ activeProfileId' # None => activeProfileId' \in ToSet(profiles')
  <2>1. CASE activeProfileId # p
    BY <1>2, <2>1 DEF RemoveProfile
  <2>2. CASE activeProfileId = p /\ profiles' = <<>>
    BY <2>2 DEF RemoveProfile, FirstProfile
  <2>3. CASE activeProfileId = p /\ profiles' # <<>>
    <3>1. activeProfileId' = FirstProfile(profiles')
      BY <2>3 DEF RemoveProfile
    <3>2. QED BY <1>2, <2>3, <3>1, FirstFacts, KnownProfiles
  <2>4. QED BY <2>1, <2>2, <2>3
<1>6. QED BY <1>2, <1>3, <1>4, <1>5

\* Every step keeps the store's references; outside of the store only the
\* profile a stream applies becomes the active one.
LEMMA NextStoreInv ==
  ASSUME SessionInv, StoreInv, [Next]_vars
  PROVE  StoreInv'
<1>1. CASE StoreStep
  <2>1. ASSUME NEW h \in Hosts, NEW p \in Profiles \cup {None}, SelectForHost(h, p)
        PROVE  StoreInv'
    <3> USE DEF StoreInv, StoreTypeOK, ReferencesExist, Known
    <3>1. profiles' = profiles /\ activeProfileId' = activeProfileId
      BY <2>1 DEF SelectForHost
    <3>2. /\ hostProfile' \in [Hosts -> Profiles \cup {None}]
          /\ \A g \in Hosts : hostProfile'[g] # None => hostProfile'[g] \in ToSet(profiles)
      BY <2>1 DEF SelectForHost
    <3>3. QED BY <3>1, <3>2
  <2>2. QED BY <1>1, <2>1, AddSteps, ImportStep, RemoveStep DEF StoreStep
<1>2. CASE ApplyProfile
  <2> USE DEF StoreInv, StoreTypeOK, ReferencesExist, Known
  <2>1. host \in Hosts
    BY <1>2 DEF SessionInv, ViewShape, ApplyProfile
  <2>2. profiles' = profiles /\ hostProfile' = hostProfile
        /\ activeProfileId' = SelectedForHost
    BY <1>2 DEF ApplyProfile
  <2>3. SelectedForHost = None \/ SelectedForHost \in ToSet(profiles)
    BY <2>1 DEF SelectedForHost
  <2>4. QED BY <2>2, <2>3, KnownProfiles
<1>3. CASE UNCHANGED storeVars
  BY <1>3 DEF storeVars, StoreInv, StoreTypeOK, ReferencesExist, Known
<1>4. StoreStep \/ ApplyProfile \/ UNCHANGED storeVars
  BY DEF Next, FileStep, ViewStep, Crash, BackupFile, RestoreFile, SkipFile, OverlaySave,
     UserSave, OpenView, ConnectPlain, ConnectWithProfile, FinishTeardown, DestroyView,
     ReloadStores, vars
<1>5. QED BY <1>1, <1>2, <1>3, <1>4

\* A profile a host or the store refers to exists, and identifiers are unique,
\* for any profiles and hosts and over any number of streams and kills.
THEOREM ReferencesStayValid == Spec => [](StoreTypeOK /\ ReferencesExist)
<1>1. Init => SessionInv /\ StoreInv
  BY InitSessionInv, InitStoreInv
<1>2. SessionInv /\ StoreInv /\ [Next]_vars => (SessionInv /\ StoreInv)'
  BY NextSessionInv, NextStoreInv
<1>3. StoreInv => StoreTypeOK /\ ReferencesExist
  BY DEF StoreInv
<1>4. QED BY <1>1, <1>2, <1>3, PTL DEF Spec
=============================================================================
