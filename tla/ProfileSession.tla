--------------------------- MODULE ProfileSession ---------------------------
(* Stream profiles and the global settings files.  A view whose host has a *)
(* profile copies the settings files aside, applies the profile in memory  *)
(* and puts the files back when the stream ends; in between, the overlay   *)
(* saves what is in memory.  The profile store keeps the profiles, the     *)
(* profile of each host and the active one.                                *)
(*                                                                         *)
(* All steps are of the UI thread, one file operation at a time; a copy may *)
(* fail, which the code ignores, and the process may be killed between any *)
(* two operations or inside a write.                                       *)

EXTENDS Naturals, Sequences, SequencesExt

CONSTANTS Files,      \* the settings files
          SettingsFile, \* settings.json among them; the others have stores
          Profiles,   \* identifiers of profiles; each is also its values
          Hosts,      \* host keys
          UserValues, \* values a user gives a file on the settings pages
          Default,    \* what a store holds when its file cannot be read
          Missing, Torn,   \* contents of a file that is not there / cut off
          None,
          MaxCrashes       \* bound on the number of kills

ASSUME SessionAssumption ==
  /\ {Default, Missing, Torn, None} \cap (Profiles \cup UserValues) = {}
  /\ Default \notin {Missing, Torn}
  /\ SettingsFile \in Files
  /\ MaxCrashes \in Nat

VARIABLES file, bak,    \* contents of each settings file and its backup
          memory,       \* what the stores in memory hold for each file
          global,       \* the contents the user left each file with
          profiles, hostProfile, activeProfileId,   \* the profile store
          phase,        \* the streaming view: none, open or torn down
          connecting,   \* its connect has not completed yet
          applied,      \* appliedProfileToRuntime
          host,         \* the host of the view
          pc, todo,     \* the file loop the UI thread is in, and what is left
          crashes,      \* number of kills so far
          exposed       \* a copy failed, the settings page's own write was cut
                        \* off, or backups were taken again after a kill

storeVars == <<profiles, hostProfile, activeProfileId>>
viewVars == <<phase, connecting, applied, host>>
vars == <<file, bak, memory, global, storeVars, viewVars, pc, todo, crashes,
          exposed>>

Values == Profiles \cup UserValues \cup {Default}
Contents == Values \cup {Missing, Torn}
Idle == pc = "idle"

\* reload of a store, and every load at the start of the application: an
\* unreadable file leaves the defaults.
Read(c) == IF c \in {Missing, Torn} THEN Default ELSE c

\* Settings::load, in a running application: what an unreadable file does
\* not give stays as it is.
LoadSettings(old, c) == IF c \in {Missing, Torn} THEN old ELSE c

\* The settings exist, since adding the first host saved them.

Init ==
  /\ file \in [Files -> UserValues \cup {Missing}] /\ file[SettingsFile] # Missing
  /\ bak = [f \in Files |-> Missing]
  /\ memory = [f \in Files |-> Read(file[f])]
  /\ global = file
  /\ profiles = <<>> /\ activeProfileId = None
  /\ hostProfile = [h \in Hosts |-> None]
  /\ phase = "none" /\ connecting = FALSE /\ applied = FALSE /\ host = None
  /\ pc = "idle" /\ todo = {} /\ crashes = 0 /\ exposed = FALSE

-----------------------------------------------------------------------------
(* StreamConfigProfileStore: every change is saved to profile.json.        *)

Known(p) == p \in ToSet(profiles)

FirstProfile(s) == IF s = <<>> THEN None ELSE s[1]

\* create, and duplicate of a profile that is gone, which creates one
CreateProfile(p) ==
  /\ Idle /\ phase = "none" /\ ~Known(p)
  /\ profiles' = Append(profiles, p)
  /\ activeProfileId' = IF activeProfileId = None THEN p ELSE activeProfileId
  /\ UNCHANGED <<file, bak, memory, global, hostProfile, viewVars, pc, todo,
                 crashes, exposed>>

\* duplicate adds a profile without making it active.
Duplicate(p) ==
  /\ Idle /\ phase = "none" /\ ~Known(p) /\ profiles # <<>>
  /\ profiles' = Append(profiles, p)
  /\ UNCHANGED <<file, bak, memory, global, hostProfile, activeProfileId,
                 viewVars, pc, todo, crashes, exposed>>

\* importJson, of a file with the new profile p, or with known ones only: its
\* reference of a host and its active profile are taken over if they exist.
ImportJson(p, h, q) ==
  /\ Idle /\ phase = "none" /\ (p = None \/ ~Known(p))
  /\ profiles' = IF p = None THEN profiles ELSE Append(profiles, p)
  /\ hostProfile' = IF q \in ToSet(profiles') THEN [hostProfile EXCEPT ![h] = q]
                    ELSE hostProfile
  /\ activeProfileId' \in {activeProfileId} \cup ToSet(profiles')
  /\ UNCHANGED <<file, bak, memory, global, viewVars, pc, todo, crashes, exposed>>

\* Mutant: the hosts keep their reference to the removed profile
RemoveKeepingHosts(p) ==
  /\ Idle /\ phase = "none"
  /\ \E i \in DOMAIN profiles : profiles[i] = p /\ profiles' = RemoveAt(profiles, i)
  /\ activeProfileId' = IF activeProfileId = p THEN FirstProfile(profiles')
                        ELSE activeProfileId
  /\ UNCHANGED <<file, bak, memory, global, hostProfile, viewVars, pc, todo,
                 crashes, exposed>>

\* remove: every entry with the identifier goes, which is one (they are
\* unique, see ReferencesExist); hosts that used it lose it, and the first
\* profile left becomes active.
RemoveProfile(p) ==
  /\ Idle /\ phase = "none"
  /\ \E i \in DOMAIN profiles : profiles[i] = p /\ profiles' = RemoveAt(profiles, i)
  /\ hostProfile' = [h \in Hosts |-> IF hostProfile[h] = p THEN None
                                     ELSE hostProfile[h]]
  /\ activeProfileId' = IF activeProfileId = p THEN FirstProfile(profiles')
                        ELSE activeProfileId
  /\ UNCHANGED <<file, bak, memory, global, viewVars, pc, todo, crashes,
                 exposed>>

\* setSelectedForHost and clearSelectedForHost
SelectForHost(h, p) ==
  /\ Idle /\ phase = "none" /\ hostProfile[h] # p
  /\ hostProfile' = [hostProfile EXCEPT ![h] = IF Known(p) THEN p ELSE None]
  /\ UNCHANGED <<file, bak, memory, global, profiles, activeProfileId,
                 viewVars, pc, todo, crashes, exposed>>

-----------------------------------------------------------------------------
(* Settings and the stores: a change on the settings pages is saved at     *)
(* once, and the overlay saves whatever is in memory during a stream.      *)

UserSave(f, v) ==
  /\ Idle /\ phase = "none" /\ v # file[f]
  /\ memory' = [memory EXCEPT ![f] = v]
  /\ file' = [file EXCEPT ![f] = v]
  /\ global' = [global EXCEPT ![f] = v]
  /\ UNCHANGED <<bak, storeVars, viewVars, pc, todo, crashes, exposed>>

\* OptionsTab::~OptionsTab and the switches of the overlay save what is in
\* memory, with or without a new value; without a profile that is a change
\* of the user's settings.
OverlaySave(f, v) ==
  /\ Idle /\ phase # "none" /\ v \in UserValues \cup {memory[f]}
  /\ memory' = [memory EXCEPT ![f] = v]
  /\ file' = [file EXCEPT ![f] = v]
  /\ global' = IF applied THEN global ELSE [global EXCEPT ![f] = v]
  /\ UNCHANGED <<bak, storeVars, viewVars, pc, todo, crashes, exposed>>

-----------------------------------------------------------------------------
(* StreamingView.                                                          *)

OpenView(h) ==
  /\ Idle /\ phase = "none"
  /\ phase' = "open" /\ connecting' = TRUE /\ host' = h
  /\ UNCHANGED <<file, bak, memory, global, storeVars, applied, pc, todo,
                 crashes, exposed>>

SelectedForHost == IF Known(hostProfile[host]) THEN hostProfile[host] ELSE None

\* The connect of the view fails, or succeeds for a host without a profile.
ConnectPlain ==
  /\ Idle /\ connecting
  /\ connecting' = FALSE
  /\ \/ SelectedForHost = None /\ UNCHANGED phase
     \/ phase' = "torn"
  /\ UNCHANGED <<file, bak, memory, global, storeVars, applied, host, pc,
                 todo, crashes, exposed>>

\* The connect of a view whose host has a profile succeeds.
ConnectWithProfile ==
  /\ Idle /\ connecting /\ SelectedForHost # None
  /\ connecting' = FALSE
  /\ pc' = "backup" /\ todo' = Files
  /\ UNCHANGED <<file, bak, memory, global, storeVars, phase, applied, host,
                 crashes, exposed>>

\* Mutant: the loop ends after the first file
BackupFirstOnly(f) ==
  /\ pc = "backup" /\ f \in todo
  /\ bak' = IF todo = Files THEN [bak EXCEPT ![f] = file[f]] ELSE bak
  /\ todo' = todo \ {f}
  /\ exposed' = (exposed \/ crashes > 0)
  /\ UNCHANGED <<file, memory, global, storeVars, viewVars, pc, crashes>>

\* backupGlobalSettingsFiles, for one file: the old backup goes, a file that
\* exists is copied; the error of a failed copy is ignored.
BackupFile(f) ==
  /\ pc = "backup" /\ f \in todo
  /\ \/ bak' = [bak EXCEPT ![f] = file[f]] /\ exposed' = (exposed \/ crashes > 0)
     \/ bak' = [bak EXCEPT ![f] = Missing] /\ exposed' = TRUE
  /\ todo' = todo \ {f}
  /\ UNCHANGED <<file, memory, global, storeVars, viewVars, pc, crashes>>

\* applyToSettings(id, persist = false): memory only, but the profile
\* becomes the active one in profile.json.
ApplyProfile ==
  /\ pc = "backup" /\ todo = {}
  /\ memory' = [f \in Files |-> SelectedForHost]
  /\ activeProfileId' = SelectedForHost
  /\ applied' = TRUE /\ pc' = "idle"
  /\ UNCHANGED <<file, bak, global, profiles, hostProfile, phase, connecting,
                 host, todo, crashes, exposed>>

\* terminate and finishTeardown: the settings come back if they were changed.
FinishTeardown ==
  /\ Idle /\ phase = "open"
  /\ phase' = "torn" /\ applied' = FALSE
  /\ IF applied THEN pc' = "restore" /\ todo' = Files ELSE UNCHANGED <<pc, todo>>
  /\ UNCHANGED <<file, bak, memory, global, storeVars, connecting, host,
                 crashes, exposed>>

\* ~StreamingView, after a teardown or at the exit of the application; a
\* connect that completed after the teardown has applied its profile again.
DestroyView ==
  /\ Idle /\ phase # "none"
  /\ phase' = "none" /\ connecting' = FALSE /\ applied' = FALSE
  /\ IF applied THEN pc' = "restore" /\ todo' = Files ELSE UNCHANGED <<pc, todo>>
  /\ UNCHANGED <<file, bak, memory, global, storeVars, host, crashes,
                 exposed>>

\* restoreGlobalSettingsFiles, for one file that was backed up: the backup is
\* copied over the file, and removed whether or not the copy succeeded.
RestoreFile(f) ==
  /\ pc = "restore" /\ f \in todo /\ bak[f] # Missing
  /\ \/ file' = [file EXCEPT ![f] = bak[f]] /\ UNCHANGED exposed
     \/ exposed' = TRUE /\ file' \in {file, [file EXCEPT ![f] = Torn]}
  /\ todo' = todo \ {f}
  /\ bak' = [bak EXCEPT ![f] = Missing]
  /\ UNCHANGED <<memory, global, storeVars, viewVars, pc, crashes>>

\* A file without a backup stays as it is.
SkipFile(f) ==
  /\ pc = "restore" /\ f \in todo /\ bak[f] = Missing
  /\ todo' = todo \ {f}
  /\ UNCHANGED <<file, bak, memory, global, storeVars, viewVars, pc, crashes,
                 exposed>>

\* Mutant: the files come back, the stores in memory keep the profile
RestoreFilesOnly ==
  /\ pc = "restore" /\ todo = {}
  /\ pc' = "idle"
  /\ UNCHANGED <<file, bak, memory, global, storeVars, viewVars, todo, crashes,
                 exposed>>

\* Settings::load and the reload of every store.
ReloadStores ==
  /\ pc = "restore" /\ todo = {}
  /\ memory' = [f \in Files |-> IF f = SettingsFile THEN LoadSettings(memory[f], file[f])
                                ELSE Read(file[f])]
  /\ pc' = "idle"
  /\ UNCHANGED <<file, bak, global, storeVars, viewVars, todo, crashes, exposed>>

-----------------------------------------------------------------------------

\* What a kill leaves of the file being written: a backup being taken, a
\* file being restored, a file the overlay or a settings page is saving.
\* The stores write in place, so the old contents are gone.
TearBackup(f) ==
  /\ pc = "backup" /\ f \in todo
  /\ bak' = [bak EXCEPT ![f] = Torn] /\ UNCHANGED file
  /\ exposed' = (exposed \/ crashes > 0)

TearFile(f) ==
  /\ \/ pc = "restore" /\ f \in todo /\ bak[f] # Missing
     \/ Idle
  /\ file' = [file EXCEPT ![f] = Torn] /\ UNCHANGED bak
  /\ exposed' = (exposed \/ (Idle /\ ~applied))

\* The process is killed and started again; nobody looks at the backups.
Crash ==
  /\ crashes < MaxCrashes
  /\ crashes' = crashes + 1
  /\ \/ UNCHANGED <<file, bak, exposed>>
     \/ \E f \in Files : TearBackup(f) \/ TearFile(f)
  /\ memory' = [f \in Files |-> Read(file'[f])]
  /\ phase' = "none" /\ connecting' = FALSE /\ applied' = FALSE
  /\ host' = None /\ pc' = "idle" /\ todo' = {}
  /\ UNCHANGED <<global, storeVars>>

StoreStep ==
  \/ \E p \in Profiles : \/ CreateProfile(p) \/ Duplicate(p) \/ RemoveProfile(p)
  \/ \E h \in Hosts, p \in Profiles \cup {None} :
       SelectForHost(h, p) \/ \E q \in Profiles : ImportJson(p, h, q)

FileStep == \E f \in Files : \/ BackupFile(f) \/ RestoreFile(f) \/ SkipFile(f)
                             \/ \E v \in Values : OverlaySave(f, v)
                             \/ \E v \in UserValues : UserSave(f, v)

ViewStep == \/ \E h \in Hosts : OpenView(h)
            \/ ConnectPlain \/ ConnectWithProfile \/ ApplyProfile
            \/ FinishTeardown \/ DestroyView \/ ReloadStores

Next == StoreStep \/ FileStep \/ ViewStep \/ Crash

Spec == Init /\ [][Next]_vars

-----------------------------------------------------------------------------

FilesTypeOK ==
  /\ file \in [Files -> Contents] /\ bak \in [Files -> Contents]
  /\ memory \in [Files -> Values] /\ global \in [Files -> Values \cup {Missing}]
ViewTypeOK ==
  /\ phase \in {"none", "open", "torn"} /\ connecting \in BOOLEAN
  /\ applied \in BOOLEAN /\ host \in Hosts \cup {None}
  /\ pc \in {"idle", "backup", "restore"} /\ todo \in SUBSET Files
  /\ crashes \in 0..MaxCrashes /\ exposed \in BOOLEAN
StoreTypeOK ==
  /\ profiles \in Seq(Profiles) /\ activeProfileId \in Profiles \cup {None}
  /\ hostProfile \in [Hosts -> Profiles \cup {None}]

TypeOK == FilesTypeOK /\ ViewTypeOK /\ StoreTypeOK

\* A profile a host or the store refers to exists, so that a stream never
\* starts with a profile that was deleted.
ReferencesExist ==
  /\ \A h \in Hosts : hostProfile[h] # None => Known(hostProfile[h])
  /\ activeProfileId # None => Known(activeProfileId)
  /\ IsInjective(profiles)

\* Without a kill or a failed copy the end of every stream gives each file
\* that existed its contents back and the stores in memory follow, also when
\* the overlay saved the profile's values or the connect completed late.
SessionRestores ==
  (Idle /\ phase = "none" /\ crashes = 0 /\ ~exposed) =>
    \A f \in Files : /\ memory[f] = Read(file[f])
                     /\ global[f] # Missing => file[f] = global[f]

\* What the user set is in the file or in its backup at every moment of a
\* stream, whatever the overlay saves, and after a kill at any moment of it,
\* until another stream with a profile takes its backups.
UserValueOnDisk ==
  ~exposed => \A f \in Files :
                global[f] # Missing => global[f] \in {file[f], bak[f]}
=============================================================================
