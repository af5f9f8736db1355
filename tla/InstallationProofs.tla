-------------------------- MODULE InstallationProofs --------------------------
(***************************************************************************)
(* Proofs about what the program changes on the user's machine.            *)
(*  - The cutover, for any set of sources: wherever a command fails and    *)
(*    the procedure dies, a cutover can be taken back.                     *)
(*  - Codex's own files, for any number of edits, operations and           *)
(*    installations: Codex always finds the provider its route names, what *)
(*    the user set up and the login survive every operation, and taking    *)
(*    Codex off the Router leaves no route to it behind.                   *)
(*  - The Router's processes, for any number of copies, UserData           *)
(*    directories, ports and Hosts: no Host runs that nobody knows of.     *)
(*  - The updater, for any user data, any number of transactions and any   *)
(*    number of faults and deaths: no path of the user is lost, and an     *)
(*    installation on which nothing went wrong for good is whole.          *)
(***************************************************************************)
EXTENDS MCInstallation, Sequences, FiniteSetTheorems, TLAPS

-----------------------------------------------------------------------------
(* The cutover. *)

\* What the three parts of the property need is the same fact, said once per stage of
\* the journal: which places the procedure can be at, how far the two stacks have got
\* there, and whose data is where.
SourcesAreOld == \A s \in Sources : source[s] = "old"
SnapshotIsOld == \A s \in Sources : snapshot[s] = "old"

\* Nothing has happened to the old stack, and the copy is at most begun.
BeforeSnapshot ==
  journal \in {"none", "rollback_healthy"} =>
    /\ at \in {"idle", "snapshot"}
    /\ old /\ new = "off" /\ SourcesAreOld
    /\ \A s \in Sources : snapshot[s] \in {"none", "old"}

\* Up to cutover_begin the old stack serves, whatever the shadow does.
BeforeCutover ==
  journal \in {"snapshot_complete", "shadow_ready", "pre_cutover_smoke_passed"} =>
    /\ old /\ new # "live" /\ SnapshotIsOld
    /\ at \in CASE journal = "snapshot_complete" -> {"idle", "shadow"}
                [] journal = "shadow_ready" -> {"idle", "pre_smoke"}
                [] OTHER -> {"idle", "begin"}

\* The new stack is started where the old one has been stopped, and nowhere else.
DuringCutover ==
  journal \in {"cutover_begin", "post_cutover_smoke_passed"} =>
    /\ SnapshotIsOld
    /\ at \in IF journal = "cutover_begin"
              THEN {"idle", "old_stop", "new_start", "post_smoke"}
              ELSE {"idle", "commit"}
    /\ at = "old_stop" => new # "live"
    /\ at \in {"new_start", "post_smoke", "commit"} => ~old

\* The old stack is started again where the new one has been stopped and every
\* source restored.
DuringRollback ==
  journal = "rollback_begin" =>
    /\ SnapshotIsOld
    /\ at \in {"idle", "new_stop", "restore", "old_start", "rollback_health"}
    /\ at \in {"restore", "old_start", "rollback_health"} => new = "off"
    /\ at \in {"old_start", "rollback_health"} => SourcesAreOld
    /\ at = "rollback_health" => old

AfterCommit == journal = "committed" => at = "idle"

AtItsStage == BeforeSnapshot /\ BeforeCutover /\ DuringCutover /\ DuringRollback /\ AfterCommit

CutoverInv == C!TypeOK /\ C!OneStackIsLive /\ AtItsStage

-----------------------------------------------------------------------------
LEMMA TypeIsKept ==
  ASSUME C!TypeOK, C!Next
  PROVE  C!TypeOK'
<1> USE DEF C!TypeOK, C!Stages, C!Places, C!SetStage, C!Rollback
<1>1. CASE C!Run \/ C!CopySource \/ C!SnapshotComplete
  BY <1>1 DEF C!Run, C!CopySource, C!SnapshotComplete
<1>2. CASE C!StartShadow \/ C!PreCutoverSmoke \/ C!CutoverBegin \/ C!StopOld
  BY <1>2 DEF C!StartShadow, C!PreCutoverSmoke, C!CutoverBegin, C!StopOld
<1>3. CASE C!StartNew \/ C!PostCutoverSmoke \/ C!Commit \/ C!StopNew
  BY <1>3 DEF C!StartNew, C!PostCutoverSmoke, C!Commit, C!StopNew
<1>4. CASE C!RestoreSource \/ C!Restored \/ C!StartOld \/ C!RollbackHealthy
  BY <1>4 DEF C!RestoreSource, C!Restored, C!StartOld, C!RollbackHealthy
<1>5. CASE C!Crash \/ C!OldWrites \/ C!NewWrites
  BY <1>5 DEF C!Crash, C!OldWrites, C!NewWrites
<1> QED
  BY <1>1, <1>2, <1>3, <1>4, <1>5 DEF C!Next

\* The way up to the commit.
LEMMA SnapshotSteps ==
  ASSUME CutoverInv, C!Run \/ C!CopySource \/ C!SnapshotComplete
  PROVE  AtItsStage'
<1> USE DEF CutoverInv, AtItsStage, BeforeSnapshot, BeforeCutover, DuringCutover, DuringRollback,
            AfterCommit, SourcesAreOld, SnapshotIsOld, C!OneStackIsLive, C!TypeOK, C!Stages
<1>1. CASE C!Run
  BY <1>1 DEF C!Run, C!Rollback, C!SetStage, C!requires_recovery
<1>2. CASE C!CopySource
  <2>1. journal \in {"none", "rollback_healthy"}
    BY <1>2 DEF C!CopySource
  <2>2. PICK s \in Sources :
          \/ source[s] # "none" /\ snapshot' = [snapshot EXCEPT ![s] = source[s]] /\ at' = at
          \/ at' = "idle" /\ snapshot' = snapshot
    BY <1>2 DEF C!CopySource
  <2>3. \A t \in Sources : snapshot'[t] \in {"none", "old"}
    BY <2>1, <2>2
  <2> QED
    BY <1>2, <2>1, <2>2, <2>3 DEF C!CopySource
<1>3. CASE C!SnapshotComplete
  BY <1>3 DEF C!SnapshotComplete, C!SetStage
<1> QED
  BY <1>1, <1>2, <1>3

LEMMA CutoverSteps ==
  ASSUME CutoverInv,
         \/ C!StartShadow \/ C!PreCutoverSmoke \/ C!CutoverBegin \/ C!StopOld
         \/ C!StartNew \/ C!PostCutoverSmoke \/ C!Commit
  PROVE  AtItsStage'
<1> USE DEF CutoverInv, AtItsStage, BeforeSnapshot, BeforeCutover, DuringCutover, DuringRollback,
            AfterCommit, SourcesAreOld, SnapshotIsOld, C!OneStackIsLive, C!TypeOK, C!Stages,
            C!Rollback, C!SetStage
<1>1. CASE C!StartShadow
  BY <1>1 DEF C!StartShadow
<1>2. CASE C!PreCutoverSmoke \/ C!CutoverBegin
  BY <1>2 DEF C!PreCutoverSmoke, C!CutoverBegin
<1>3. CASE C!StopOld
  BY <1>3 DEF C!StopOld
<1>4. CASE C!StartNew
  BY <1>4 DEF C!StartNew
<1>5. CASE C!PostCutoverSmoke \/ C!Commit
  BY <1>5 DEF C!PostCutoverSmoke, C!Commit
<1> QED
  BY <1>1, <1>2, <1>3, <1>4, <1>5

\* The way back.
LEMMA RollbackSteps ==
  ASSUME CutoverInv,
         C!StopNew \/ C!RestoreSource \/ C!Restored \/ C!StartOld \/ C!RollbackHealthy
  PROVE  AtItsStage'
<1> USE DEF CutoverInv, AtItsStage, BeforeSnapshot, BeforeCutover, DuringCutover, DuringRollback,
            AfterCommit, SourcesAreOld, SnapshotIsOld, C!OneStackIsLive, C!TypeOK, C!Stages
<1>1. CASE C!StopNew
  BY <1>1 DEF C!StopNew
<1>2. CASE C!RestoreSource
  BY <1>2 DEF C!RestoreSource
<1>3. CASE C!Restored
  BY <1>3 DEF C!Restored
<1>4. CASE C!StartOld
  BY <1>4 DEF C!StartOld
<1>5. CASE C!RollbackHealthy
  BY <1>5 DEF C!RollbackHealthy
<1> QED
  BY <1>1, <1>2, <1>3, <1>4, <1>5

\* What may happen at any time: the procedure dies, and the live stacks write.
LEMMA OtherSteps ==
  ASSUME CutoverInv, C!Crash \/ C!OldWrites \/ C!NewWrites
  PROVE  AtItsStage'
<1> USE DEF CutoverInv, AtItsStage, BeforeSnapshot, BeforeCutover, DuringCutover, DuringRollback,
            AfterCommit, SourcesAreOld, SnapshotIsOld, C!OneStackIsLive, C!TypeOK, C!Stages
<1>1. CASE C!Crash
  BY <1>1 DEF C!Crash
<1>2. CASE C!OldWrites
  BY <1>2 DEF C!OldWrites
<1>3. CASE C!NewWrites
  BY <1>3 DEF C!NewWrites
<1> QED
  BY <1>1, <1>2, <1>3

\* Only StartNew makes the new stack live, and only StartOld the old one.
LEMMA OneStackStaysLive ==
  ASSUME CutoverInv, C!Next
  PROVE  C!OneStackIsLive'
<1>1. CASE C!StartNew
  BY <1>1 DEF C!StartNew, CutoverInv, AtItsStage, BeforeSnapshot, BeforeCutover, DuringCutover,
     DuringRollback, AfterCommit, C!TypeOK, C!Stages, C!OneStackIsLive
<1>2. CASE C!StartOld
  BY <1>2 DEF C!StartOld, CutoverInv, AtItsStage, BeforeSnapshot, BeforeCutover, DuringCutover,
     DuringRollback, AfterCommit, C!TypeOK, C!Stages, C!OneStackIsLive
<1>3. CASE C!StartShadow \/ C!StopOld \/ C!StopNew
  BY <1>3 DEF C!StartShadow, C!StopOld, C!StopNew, CutoverInv, C!OneStackIsLive
<1>4. CASE C!Next /\ UNCHANGED <<old, new>>
  BY <1>4 DEF CutoverInv, C!OneStackIsLive
<1> QED
  BY <1>1, <1>2, <1>3, <1>4
  DEF C!Next, C!Run, C!CopySource, C!SnapshotComplete, C!PreCutoverSmoke, C!CutoverBegin,
      C!PostCutoverSmoke, C!Commit, C!RestoreSource, C!Restored, C!RollbackHealthy, C!Crash,
      C!OldWrites, C!NewWrites

LEMMA NextKeepsCutoverInv ==
  ASSUME CutoverInv, C!Next
  PROVE  CutoverInv'
<1>1. AtItsStage'
  BY SnapshotSteps, CutoverSteps, RollbackSteps, OtherSteps DEF C!Next
<1> QED
  BY <1>1, TypeIsKept, OneStackStaysLive DEF CutoverInv

-----------------------------------------------------------------------------
\* The inductive invariant of the cutover: the journal's stage fixes which stack may be
\* live and which copy of the data is the old one, for any set of sources.
THEOREM CutoverInvariant == C!Spec => []CutoverInv
<1>1. C!Init => CutoverInv
  BY DEF C!Init, CutoverInv, AtItsStage, BeforeSnapshot, BeforeCutover, DuringCutover,
     DuringRollback, AfterCommit, SourcesAreOld, C!TypeOK, C!OneStackIsLive, C!Stages, C!Places
<1>2. CutoverInv /\ [C!Next]_<<journal, at, source, snapshot, old, new>> => CutoverInv'
  <2>1. ASSUME CutoverInv, UNCHANGED <<journal, at, source, snapshot, old, new>>
        PROVE  CutoverInv'
    BY <2>1 DEF CutoverInv, AtItsStage, BeforeSnapshot, BeforeCutover, DuringCutover,
       DuringRollback, AfterCommit, SourcesAreOld, SnapshotIsOld, C!TypeOK, C!OneStackIsLive
  <2> QED
    BY <2>1, NextKeepsCutoverInv
<1> QED
  BY <1>1, <1>2, PTL DEF C!Spec

\* A cutover is reversible (run Installation): two stacks are never live, a stage a run
\* would roll back has a complete copy of the old stack's data and of nothing else, and
\* a stack reported healthy after a rollback runs on its own data.
THEOREM Reversible == C!Spec => []CutoverIsReversible
<1>1. CutoverInv => CutoverIsReversible
  BY DEF CutoverInv, AtItsStage, BeforeSnapshot, BeforeCutover, DuringCutover, DuringRollback,
     SourcesAreOld, SnapshotIsOld, CutoverIsReversible, C!CutoverIsReversible,
     C!SnapshotIsTheOldData, C!RolledBackIsTheOldData, C!requires_recovery
<1> QED
  BY <1>1, CutoverInvariant, PTL

-----------------------------------------------------------------------------
(* Codex's files. *)

\* A configuration Codex can start with: the provider its route names is defined.
Config == [route : {"none", "router", "other"}, block : BOOLEAN, own : BOOLEAN, settings : Nat]
Sound(c) == (c.route = "router" => c.block) /\ (c.route = "other" => c.own)
SoundConfigs == {c \in Config : Sound(c)}
Auths == [kind : {"none", "key", "chatgpt"}, token : Nat]
Snapshots == [from : {"nothing", "backup", "current", "point", "profile"},
              config : SoundConfigs, auth : Auths]
DataRoots == [catalog : BOOLEAN, original : Snapshots, points : Seq(Snapshots),
              profile : Snapshots]

\* The snapshots are as sound as the file, because each of them was the file once and
\* each of them may become it again.
FilesAreSound ==
  /\ file \in SoundConfigs
  /\ auth \in Auths /\ issued \in Nat
  /\ bak \in Snapshots
  /\ root \in DataRoots
  /\ off \in BOOLEAN

\* What Codex goes back to does not name the Router, unless it is a backup.
OriginalIsUnbound == root.original.from # "backup" => root.original.config.route # "router"

FilesInv == FilesAreSound /\ OriginalIsUnbound /\ F!OffIsOff

-----------------------------------------------------------------------------
(* The operators on configurations. *)

LEMMA InitialValues ==
  /\ F!Empty \in SoundConfigs
  /\ F!NoAuth \in Auths
  /\ F!NoSnapshot \in Snapshots
  /\ F!FreshRoot \in DataRoots
BY DEF F!Empty, F!NoAuth, F!NoSnapshot, F!FreshRoot, SoundConfigs, Config, Sound, Auths,
       Snapshots, DataRoots

\* Binding the file: the provider comes with the route, and the rest stays.
LEMMA GenerateBinds ==
  ASSUME NEW c \in SoundConfigs
  PROVE  /\ F!Generate(c) \in SoundConfigs
         /\ F!Generate(c) # F!Empty
         /\ F!Generate(c).settings = c.settings
         /\ F!Generate(c).own = c.own
BY DEF F!Generate, F!Empty, SoundConfigs, Config, Sound

\* Taking the Router out of a file.
LEMMA SanitizeUnbinds ==
  ASSUME NEW c \in SoundConfigs
  PROVE  /\ F!Sanitize(c) \in SoundConfigs
         /\ F!Sanitize(c).route # "router"
         /\ F!Sanitize(c).settings = c.settings
         /\ F!Sanitize(c).own = c.own
BY DEF F!Sanitize, SoundConfigs, Config, Sound

LEMMA PreserveDefines ==
  ASSUME NEW r \in DataRoots, NEW c \in SoundConfigs
  PROVE  /\ F!Preserve(r, c) \in SoundConfigs
         /\ F!Preserve(r, c).route = c.route
         /\ F!Preserve(r, c).settings = c.settings
         /\ F!Preserve(r, c).own = c.own
         /\ r.catalog => F!Preserve(r, c).block
BY DEF F!Preserve, SoundConfigs, Config, Sound

\* Restoring a snapshot: its route with the provider of it, and on top of that
\* everything of the file that is there.
LEMMA RestoredConfigIsSound ==
  ASSUME NEW r \in DataRoots, NEW s \in Snapshots, NEW c \in SoundConfigs
  PROVE  /\ F!RestoredConfig(r, s, c) \in SoundConfigs
         /\ F!RestoredConfig(r, s, c).route = s.config.route
         /\ r.catalog => F!RestoredConfig(r, s, c).block
         /\ c # F!Empty => /\ F!RestoredConfig(r, s, c).settings = c.settings
                           /\ c.own => F!RestoredConfig(r, s, c).own
<1> DEFINE t == IF c = F!Empty THEN s.config ELSE F!Merge(c, s.config)
<1>1. s.config \in SoundConfigs
  BY DEF Snapshots
<1>2. F!Merge(c, s.config) \in SoundConfigs
  BY <1>1 DEF F!Merge, SoundConfigs, Config, Sound
<1>3. /\ t \in SoundConfigs
      /\ t.route = s.config.route
      /\ c # F!Empty => t.settings = c.settings /\ (c.own => t.own)
  BY <1>1, <1>2 DEF F!Merge
<1>4. F!RestoredConfig(r, s, c) = F!Preserve(r, t)
  BY DEF F!RestoredConfig
<1> HIDE DEF t
<1> QED
  BY <1>3, <1>4, PreserveDefines

\* A login that is there is never replaced.
LEMMA RestoredAuthKeepsALogin ==
  ASSUME NEW s \in Snapshots, NEW share, NEW recover, NEW a \in Auths
  PROVE  /\ F!RestoredAuth(s, share, recover, a) \in Auths
         /\ F!ValidChatGpt(a) => F!RestoredAuth(s, share, recover, a) = a
BY DEF F!RestoredAuth, F!ValidChatGpt, F!NoAuth, Snapshots, Auths

-----------------------------------------------------------------------------
(* The operators on the data root. *)

LEMMA OriginalIsTaken ==
  ASSUME FilesAreSound, NEW r \in DataRoots
  PROVE  /\ F!WithOriginal(r) \in DataRoots
         /\ F!WithOriginal(r).catalog = r.catalog
         /\ (r.original.from # "backup" => r.original.config.route # "router")
              => (F!WithOriginal(r).original.from # "backup"
                    => F!WithOriginal(r).original.config.route # "router")
<1>1. F!Snapshot("backup", bak.config, auth) \in Snapshots
  BY DEF F!Snapshot, FilesAreSound, Snapshots
<1>2. F!Snapshot("current", F!Sanitize(file), auth) \in Snapshots
  BY SanitizeUnbinds DEF F!Snapshot, FilesAreSound, Snapshots
<1> QED
  BY <1>1, <1>2, SanitizeUnbinds DEF F!WithOriginal, F!Snapshot, FilesAreSound, DataRoots

LEMMA PointIsAdded ==
  ASSUME FilesAreSound, NEW r \in DataRoots
  PROVE  /\ F!WithPoint(r) \in DataRoots
         /\ F!WithPoint(r).catalog = r.catalog
         /\ F!WithPoint(r).original = r.original
         /\ F!WithPoint(r).profile = r.profile
         /\ F!WithPoint(r).points # <<>>
<1> DEFINE all == Append(r.points, F!Snapshot("point", file, auth))
           kept == SubSeq(all, IF Len(all) > F!KeptPoints THEN 2 ELSE 1, Len(all))
<1>1. F!Snapshot("point", file, auth) \in Snapshots
  BY DEF F!Snapshot, FilesAreSound, Snapshots
<1>2. all \in Seq(Snapshots) /\ Len(all) >= 1
  BY <1>1 DEF DataRoots
<1>3. kept \in Seq(Snapshots) /\ Len(kept) >= 1
  BY <1>2 DEF F!KeptPoints
<1>4. F!WithPoint(r) = [r EXCEPT !.points = kept]
  BY DEF F!WithPoint
<1> HIDE DEF kept
<1> QED
  BY <1>3, <1>4 DEF DataRoots

LEMMA LastIsASnapshot ==
  ASSUME NEW r \in DataRoots, r.points # <<>>
  PROVE  F!Last(r.points) \in Snapshots
BY DEF DataRoots, F!Last

-----------------------------------------------------------------------------
(* The operations of the program. *)

\* What an operation owes: the invariant, and the three promises about the step itself.
Promise ==
  /\ FilesInv'
  /\ F!SettingsKept
  /\ F!ProviderDefined
  /\ F!ValidChatGpt(auth) => auth' = auth

LEMMA ApplyKeepsThePromise ==
  ASSUME FilesInv, F!Apply
  PROVE  Promise
<1> DEFINE r == [F!WithPoint(F!WithOriginal(root)) EXCEPT !.catalog = TRUE]
           s == F!Last(r.points)
<1>1. /\ r \in DataRoots
      /\ r.catalog
      /\ r.original.from # "backup" => r.original.config.route # "router"
      /\ r.points # <<>>
  <2>1. F!WithOriginal(root) \in DataRoots
    BY OriginalIsTaken DEF FilesInv, FilesAreSound
  <2>2. F!WithOriginal(root).original.from # "backup"
          => F!WithOriginal(root).original.config.route # "router"
    BY OriginalIsTaken DEF FilesInv, FilesAreSound, OriginalIsUnbound
  <2> QED
    BY <2>1, <2>2, PointIsAdded DEF FilesInv, DataRoots
<1>2. s \in Snapshots
  BY <1>1, LastIsASnapshot
<1>3. bak' \in Snapshots
  BY DEF F!Apply, F!KeepBackup, F!Snapshot, F!NoAuth, FilesInv, FilesAreSound, Snapshots, Auths
<1>4. root' = r /\ ~off' /\ off' \in BOOLEAN /\ issued' = issued
  BY DEF F!Apply, F!Operation
<1>5. \/ file' = F!Generate(file) /\ auth' = auth
      \/ \E share \in BOOLEAN :
           /\ file' = F!RestoredConfig(r, s, F!Generate(file))
           /\ auth' = F!RestoredAuth(s, share, FALSE, auth)
  BY DEF F!Apply
<1> HIDE DEF r, s
<1>6. CASE file' = F!Generate(file) /\ auth' = auth
  BY <1>1, <1>3, <1>4, <1>6, GenerateBinds
  DEF Promise, FilesInv, FilesAreSound, OriginalIsUnbound, F!OffIsOff, F!SettingsKept,
      F!ProviderDefined, F!Generate, SoundConfigs, Sound
<1>7. ASSUME NEW share \in BOOLEAN,
             file' = F!RestoredConfig(r, s, F!Generate(file)),
             auth' = F!RestoredAuth(s, share, FALSE, auth)
      PROVE  Promise
  <2>1. /\ F!Generate(file) \in SoundConfigs
        /\ F!Generate(file) # F!Empty
        /\ F!Generate(file).settings = file.settings
        /\ F!Generate(file).own = file.own
    BY GenerateBinds DEF FilesInv, FilesAreSound
  <2>2. /\ file' \in SoundConfigs
        /\ F!SettingsKept /\ F!ProviderDefined
    BY <1>1, <1>2, <1>7, <2>1, RestoredConfigIsSound
    DEF F!SettingsKept, F!ProviderDefined, SoundConfigs, Sound
  <2>3. auth' \in Auths /\ (F!ValidChatGpt(auth) => auth' = auth)
    BY <1>2, <1>7, RestoredAuthKeepsALogin DEF FilesInv, FilesAreSound
  <2> QED
    BY <1>1, <1>3, <1>4, <2>2, <2>3
    DEF Promise, FilesInv, FilesAreSound, OriginalIsUnbound, F!OffIsOff
<1> QED
  BY <1>5, <1>6, <1>7

LEMMA SwitchProfileKeepsThePromise ==
  ASSUME FilesInv, F!SwitchProfile
  PROVE  Promise
<1> DEFINE r == F!WithPoint(root)
           c == F!RestoredConfig(r, r.profile, file)
<1>1. PICK share \in BOOLEAN :
        LET a == F!RestoredAuth(r.profile, share, FALSE, auth)
        IN  /\ F!KeepBackup(c)
            /\ file' = F!Generate(c) /\ auth' = a
            /\ root' = [r EXCEPT !.catalog = TRUE, !.original =
                 IF @ # F!NoSnapshot THEN @
                 ELSE IF bak # F!NoSnapshot THEN F!Snapshot("backup", bak.config, a)
                 ELSE F!Snapshot("current", F!Sanitize(c), a)]
  BY DEF F!SwitchProfile
<1> DEFINE a == F!RestoredAuth(r.profile, share, FALSE, auth)
           o == IF r.original # F!NoSnapshot THEN r.original
                ELSE IF bak # F!NoSnapshot THEN F!Snapshot("backup", bak.config, a)
                ELSE F!Snapshot("current", F!Sanitize(c), a)
<1>2. r \in DataRoots /\ r.original = root.original
  BY PointIsAdded DEF FilesInv, FilesAreSound
<1>3. /\ c \in SoundConfigs
      /\ file # F!Empty => c.settings = file.settings /\ (file.own => c.own)
  BY <1>2, RestoredConfigIsSound DEF FilesInv, FilesAreSound, DataRoots
<1>4. a \in Auths /\ (F!ValidChatGpt(auth) => a = auth)
  BY <1>2, RestoredAuthKeepsALogin DEF FilesInv, FilesAreSound, DataRoots
<1>5. /\ file' = F!Generate(c) /\ auth' = a /\ F!KeepBackup(c)
      /\ root' = [r EXCEPT !.catalog = TRUE, !.original = o]
  BY <1>1, <1>2 DEF DataRoots
<1>6. ~off' /\ off' \in BOOLEAN /\ issued' = issued
  BY DEF F!SwitchProfile, F!Operation
<1> HIDE DEF r, c, a
<1>7. o \in Snapshots /\ (o.from # "backup" => o.config.route # "router")
  BY <1>2, <1>3, <1>4, SanitizeUnbinds
  DEF FilesInv, FilesAreSound, OriginalIsUnbound, F!Snapshot, Snapshots, DataRoots
<1> HIDE DEF o
<1>8. bak' \in Snapshots
  BY <1>3, <1>5 DEF F!KeepBackup, F!Snapshot, F!NoAuth, FilesInv, FilesAreSound, Snapshots, Auths
<1>9. root' \in DataRoots /\ root'.original = o
  BY <1>2, <1>5, <1>7 DEF DataRoots
<1>10. file' \in SoundConfigs /\ F!SettingsKept /\ F!ProviderDefined
  BY <1>3, <1>5, <1>6, GenerateBinds
  DEF F!SettingsKept, F!ProviderDefined, SoundConfigs, Sound, F!Generate
<1> QED
  BY <1>4, <1>5, <1>6, <1>7, <1>8, <1>9, <1>10
  DEF Promise, FilesInv, FilesAreSound, OriginalIsUnbound, F!OffIsOff

LEMMA RestorePreviousKeepsThePromise ==
  ASSUME FilesInv, F!RestorePrevious
  PROVE  Promise
<1> DEFINE s == F!Last(root.points)
           r == F!WithPoint(root)
           c == F!RestoredConfig(r, s, file)
<1>1. PICK share \in BOOLEAN, models \in BOOLEAN :
        /\ root' = IF models THEN [r EXCEPT !.catalog = TRUE] ELSE r
        /\ auth' = F!RestoredAuth(s, share, FALSE, auth)
        /\ IF models THEN F!KeepBackup(c) /\ file' = F!Generate(c)
           ELSE file' = c /\ UNCHANGED bak
  BY DEF F!RestorePrevious
<1>2. s \in Snapshots
  BY LastIsASnapshot DEF F!RestorePrevious, FilesInv, FilesAreSound
<1>3. r \in DataRoots /\ r.original = root.original
  BY PointIsAdded DEF FilesInv, FilesAreSound
<1>4. /\ c \in SoundConfigs
      /\ file # F!Empty => c.settings = file.settings /\ (file.own => c.own)
  BY <1>2, <1>3, RestoredConfigIsSound DEF FilesInv, FilesAreSound
<1>5. auth' \in Auths /\ (F!ValidChatGpt(auth) => auth' = auth)
  BY <1>1, <1>2, RestoredAuthKeepsALogin DEF FilesInv, FilesAreSound
<1>6. ~off' /\ off' \in BOOLEAN /\ issued' = issued
  BY DEF F!RestorePrevious, F!Operation
<1> HIDE DEF s, r, c
<1>7. root' \in DataRoots /\ root'.original = root.original
  BY <1>1, <1>3 DEF DataRoots
<1>8. bak' \in Snapshots
  BY <1>1, <1>4 DEF F!KeepBackup, F!Snapshot, F!NoAuth, FilesInv, FilesAreSound, Snapshots, Auths
<1>9. file' \in SoundConfigs /\ F!SettingsKept /\ F!ProviderDefined
  BY <1>1, <1>4, <1>6, GenerateBinds
  DEF F!SettingsKept, F!ProviderDefined, SoundConfigs, Sound, F!Generate
<1> QED
  BY <1>5, <1>6, <1>7, <1>8, <1>9
  DEF Promise, FilesInv, FilesAreSound, OriginalIsUnbound, F!OffIsOff

\* Going back to the original, from whatever data root it was bound in: the file ends
\* without a route to the Router, unless the original is a backup.
LEMMA GoingBackKeepsThePromise ==
  ASSUME FilesInv, F!Operation, off' = TRUE, UNCHANGED bak,
         NEW r \in DataRoots, root' = F!WithOriginal(r),
         r.original = root.original,
         NEW share, F!Restore(root', root'.original, share, TRUE)
  PROVE  Promise
<1>1. /\ root' \in DataRoots
      /\ root'.original.from # "backup" => root'.original.config.route # "router"
  BY OriginalIsTaken DEF FilesInv, FilesAreSound, OriginalIsUnbound
<1>2. /\ file' = F!RestoredConfig(root', root'.original, file)
      /\ auth' = F!RestoredAuth(root'.original, share, TRUE, auth)
  BY DEF F!Restore
<1>3. root'.original \in Snapshots
  BY <1>1 DEF DataRoots
<1>4. /\ file' \in SoundConfigs
      /\ file'.route = root'.original.config.route
      /\ F!SettingsKept /\ F!ProviderDefined
  BY <1>1, <1>2, <1>3, RestoredConfigIsSound
  DEF FilesInv, FilesAreSound, F!SettingsKept, F!ProviderDefined, SoundConfigs, Sound
<1>5. auth' \in Auths /\ (F!ValidChatGpt(auth) => auth' = auth)
  BY <1>2, <1>3, RestoredAuthKeepsALogin DEF FilesInv, FilesAreSound
<1>6. bak' = bak /\ issued' = issued /\ off' \in BOOLEAN
  BY DEF F!Operation
<1> QED
  BY <1>1, <1>4, <1>5, <1>6
  DEF Promise, FilesInv, FilesAreSound, OriginalIsUnbound, F!OffIsOff, F!UsesRouter

LEMMA OffStepsKeepThePromise ==
  ASSUME FilesInv, F!DisableRouterMode \/ F!RestoreOriginal \/ F!Exit \/ F!RestoreFactory
  PROVE  Promise
<1>0. root \in DataRoots /\ file \in SoundConfigs
  BY DEF FilesInv, FilesAreSound
<1>1. CASE F!DisableRouterMode
  BY <1>0, <1>1, GoingBackKeepsThePromise DEF F!DisableRouterMode
<1>2. CASE F!RestoreOriginal
  <2>1. F!WithPoint(root) \in DataRoots /\ F!WithPoint(root).original = root.original
    BY <1>0, PointIsAdded DEF FilesInv
  <2> QED
    BY <1>2, <2>1, GoingBackKeepsThePromise DEF F!RestoreOriginal
<1>3. CASE F!Exit /\ F!UsesRouter(file)
  BY <1>0, <1>3, GoingBackKeepsThePromise DEF F!Exit
<1>4. CASE F!Exit /\ ~F!UsesRouter(file)
  BY <1>0, <1>4
  DEF F!Exit, F!Operation, Promise, FilesInv, FilesAreSound, OriginalIsUnbound, F!OffIsOff,
      F!SettingsKept, F!ProviderDefined, SoundConfigs, Sound
<1>5. CASE F!RestoreFactory
  <2>1. /\ F!Sanitize(file) \in SoundConfigs
        /\ F!Sanitize(file).route # "router"
        /\ F!Sanitize(file).settings = file.settings
        /\ F!Sanitize(file).own = file.own
    BY <1>0, SanitizeUnbinds
  <2>2. /\ root' \in DataRoots
        /\ root'.catalog = root.catalog
        /\ root'.original = root.original
    BY <1>0, <1>5, PointIsAdded DEF F!RestoreFactory, FilesInv
  <2>3. /\ file' \in SoundConfigs /\ file'.route # "router"
        /\ F!SettingsKept /\ F!ProviderDefined
    BY <1>0, <1>5, <2>1, <2>2, PreserveDefines
    DEF F!RestoreFactory, F!SettingsKept, F!ProviderDefined, SoundConfigs, Sound
  <2>4. UNCHANGED <<auth, bak, issued>> /\ off' \in BOOLEAN
    BY <1>5 DEF F!RestoreFactory, F!Operation
  <2> QED
    BY <2>2, <2>3, <2>4
    DEF Promise, FilesInv, FilesAreSound, OriginalIsUnbound, F!OffIsOff, F!UsesRouter
<1> QED
  BY <1>1, <1>2, <1>3, <1>4, <1>5

LEMMA OtherOperationsKeepThePromise ==
  ASSUME FilesInv, F!RepairBinding \/ F!SaveProfile \/ F!DeleteProfile
  PROVE  Promise
<1>0. root \in DataRoots /\ file \in SoundConfigs
  BY DEF FilesInv, FilesAreSound
<1>1. CASE F!RepairBinding
  <2>1. /\ root' = [root EXCEPT !.catalog = TRUE] /\ F!KeepBackup(file)
        /\ file' = F!Generate(file) /\ ~off' /\ off' \in BOOLEAN
        /\ UNCHANGED <<auth, issued>>
    BY <1>1 DEF F!RepairBinding, F!Operation
  <2>2. bak' \in Snapshots
    BY <2>1 DEF F!KeepBackup, F!Snapshot, F!NoAuth, FilesInv, FilesAreSound, Snapshots, Auths
  <2>3. root' \in DataRoots /\ root'.original = root.original
    BY <1>0, <2>1 DEF DataRoots
  <2>4. file' \in SoundConfigs /\ F!SettingsKept /\ F!ProviderDefined
    BY <1>0, <2>1, GenerateBinds
    DEF F!SettingsKept, F!ProviderDefined, SoundConfigs, Sound, F!Generate
  <2> QED
    BY <2>1, <2>2, <2>3, <2>4
    DEF Promise, FilesInv, FilesAreSound, OriginalIsUnbound, F!OffIsOff
<1>2. CASE F!SaveProfile \/ F!DeleteProfile
  <2>1. \E p \in Snapshots : root' = [root EXCEPT !.profile = p]
    BY <1>2, InitialValues
    DEF F!SaveProfile, F!DeleteProfile, F!Snapshot, FilesInv, FilesAreSound, Snapshots
  <2>2. /\ root' \in DataRoots
        /\ root'.original = root.original
    BY <1>0, <2>1 DEF DataRoots
  <2>3. UNCHANGED <<file, auth, bak, off, issued>>
    BY <1>2 DEF F!SaveProfile, F!DeleteProfile, F!Operation
  <2> QED
    BY <1>0, <2>2, <2>3
    DEF Promise, FilesInv, FilesAreSound, OriginalIsUnbound, F!OffIsOff, F!SettingsKept,
        F!ProviderDefined, SoundConfigs, Sound
<1> QED
  BY <1>1, <1>2

-----------------------------------------------------------------------------
(* What the user, Codex and an installation do. *)

LEMMA UserStepsKeepFilesInv ==
  ASSUME FilesInv,
         \/ F!NewDataRoot \/ F!ChangeSettings \/ F!ChooseOwnProvider \/ F!DesktopStrips
         \/ F!LogIn \/ F!LogOut
  PROVE  FilesInv' /\ ops' = ops
<1>0. root \in DataRoots /\ file \in SoundConfigs /\ auth \in Auths /\ issued \in Nat
  BY DEF FilesInv, FilesAreSound
<1>1. CASE F!NewDataRoot
  BY <1>1, InitialValues
  DEF F!NewDataRoot, FilesInv, FilesAreSound, OriginalIsUnbound, F!OffIsOff, F!FreshRoot,
      F!NoSnapshot, F!Empty
<1>2. CASE F!ChangeSettings \/ F!ChooseOwnProvider \/ F!DesktopStrips
  <2>1. file' \in SoundConfigs
    <3>1. CASE F!ChangeSettings
      BY <1>0, <3>1 DEF F!ChangeSettings, SoundConfigs, Config, Sound
    <3>2. CASE F!ChooseOwnProvider
      BY <1>0, <3>2 DEF F!ChooseOwnProvider, SoundConfigs, Config, Sound
    <3>3. CASE F!DesktopStrips
      BY <1>0, <3>3 DEF F!DesktopStrips, SoundConfigs, Config, Sound
    <3> QED
      BY <1>2, <3>1, <3>2, <3>3
  <2>2. ~off' /\ off' \in BOOLEAN /\ UNCHANGED <<auth, issued, bak, root, ops>>
    BY <1>2 DEF F!ChangeSettings, F!ChooseOwnProvider, F!DesktopStrips, F!Edit
  <2> QED
    BY <2>1, <2>2 DEF FilesInv, FilesAreSound, OriginalIsUnbound, F!OffIsOff
<1>3. CASE F!LogIn \/ F!LogOut
  <2>1. auth' \in Auths /\ issued' \in Nat
    BY <1>0, <1>3 DEF F!LogIn, F!LogOut, F!Login, F!NoAuth, F!Key, Auths
  <2>2. ~off' /\ off' \in BOOLEAN /\ UNCHANGED <<file, bak, root, ops>>
    BY <1>3 DEF F!LogIn, F!LogOut, F!Edit
  <2> QED
    BY <2>1, <2>2 DEF FilesInv, FilesAreSound, OriginalIsUnbound, F!OffIsOff
<1> QED
  BY <1>1, <1>2, <1>3

LEMMA NextKeepsThePromise ==
  ASSUME FilesInv, F!Next
  PROVE  FilesInv' /\ (ops' # ops => Promise)
BY ApplyKeepsThePromise, SwitchProfileKeepsThePromise, RestorePreviousKeepsThePromise,
   OffStepsKeepThePromise, OtherOperationsKeepThePromise, UserStepsKeepFilesInv
DEF F!Next, Promise

-----------------------------------------------------------------------------
LEMMA StutteringKeepsFilesInv ==
  ASSUME FilesInv, UNCHANGED F!vars
  PROVE  FilesInv'
BY DEF FilesInv, FilesAreSound, OriginalIsUnbound, F!OffIsOff, F!vars

\* The inductive invariant of Codex's files: every snapshot is as sound as the file, for
\* any number of edits, operations and installations.
THEOREM FilesInvariant == F!Spec => []FilesInv
<1>1. F!Init => FilesInv
  <2> SUFFICES ASSUME F!Init PROVE FilesInv
    OBVIOUS
  <2>1. file \in SoundConfigs
    <3>1. /\ [F!Empty EXCEPT !.settings = 1] \in SoundConfigs
          /\ [route |-> "other", block |-> FALSE, own |-> TRUE, settings |-> 1] \in SoundConfigs
      BY DEF F!Empty, SoundConfigs, Config, Sound
    <3> QED
      BY <3>1, InitialValues DEF F!Init
  <2>2. auth \in Auths /\ issued \in Nat
    BY InitialValues DEF F!Init, F!Key, F!Login, Auths
  <2>3. OriginalIsUnbound
    BY DEF F!Init, OriginalIsUnbound, F!FreshRoot, F!NoSnapshot, F!Empty
  <2> QED
    BY <2>1, <2>2, <2>3, InitialValues DEF F!Init, FilesInv, FilesAreSound, F!OffIsOff
<1>2. FilesInv /\ [F!Next]_F!vars => FilesInv'
  BY NextKeepsThePromise, StutteringKeepsFilesInv
<1> QED
  BY <1>1, <1>2, PTL DEF F!Spec

\* Once Codex has been taken off the Router, and until something puts it back, its own
\* file has no route to it, unless the original was the backup of an earlier
\* installation (run Installation).
THEOREM OffMeansOff == F!Spec => []OffIsOff
<1>1. FilesInv => OffIsOff
  BY DEF FilesInv, OffIsOff
<1> QED
  BY <1>1, FilesInvariant, PTL

\* No operation takes away what the user has set, and whichever operation came last,
\* the provider that the route names, and the one that the Router's conversations name,
\* is defined (run Installation).
THEOREM CodexStaysWhole == F!Spec => CodexKeepsWorking
<1>1. FilesInv /\ [F!Next]_F!vars => [ops' # ops => F!SettingsKept /\ F!ProviderDefined]_F!vars
  BY NextKeepsThePromise DEF Promise
<1> QED
  BY <1>1, FilesInvariant, PTL DEF F!Spec, CodexKeepsWorking, F!CodexKeepsWorking

\* No operation replaces a login that is there with that of a snapshot, which has been
\* rotated out since (run Installation).
THEOREM LoginStays == F!Spec => LoginSurvives
<1>1. FilesInv /\ [F!Next]_F!vars => [ops' # ops /\ F!ValidChatGpt(auth) => auth' = auth]_F!vars
  BY NextKeepsThePromise DEF Promise
<1> QED
  BY <1>1, FilesInvariant, PTL DEF F!Spec, LoginSurvives, F!LoginSurvives

-----------------------------------------------------------------------------
(* The Router's processes. *)

\* The places of a runner that holds the lifecycle lock of its UserData.
Holding == {"inspect", "judge", "sweep", "spawn", "record", "wait", "gateway", "halt", "clear",
            "confirm"}
Born(p) == p # 0 => hosts[p].life # "none"

HostFields == {"life", "copy", "root", "port", "ill", "cli", "job"}
RunFields == {"at", "copy", "op", "gently", "port", "own", "pid"}
Shaped ==
  /\ data \in [Portables -> Roots]
  /\ DOMAIN hosts = S!Pids /\ \A p \in S!Pids : DOMAIN hosts[p] = HostFields
  /\ \A p \in S!Pids : hosts[p].life # "none" => hosts[p].root \in Roots
  /\ pidFile \in [Roots -> S!Pids \cup {0}] /\ DOMAIN lock = Roots
  /\ DOMAIN run = S!Runners /\ \A r \in S!Runners : DOMAIN run[r] = RunFields

\* What a runner knows where it is.  The lock keeps everybody else from the pid file of its
\* UserData, so what it read there, or wrote, still stands.
Knows(r) ==
  /\ run[r].pid \in S!Pids \cup {0} /\ Born(run[r].pid)
  /\ run[r].at \in Holding \cup {"lock"} => run[r].copy \in Portables
  /\ run[r].at \in Holding => lock[S!Root(r)] = r
  /\ run[r].at \in {"judge", "wait"} => run[r].pid # 0 /\ pidFile[S!Root(r)] = run[r].pid
  /\ run[r].at = "sweep" /\ run[r].pid = 0 => pidFile[S!Root(r)] = 0
  /\ run[r].at \in {"spawn", "record"} => pidFile[S!Root(r)] = 0
  /\ run[r].at = "record" => run[r].pid # 0 /\ hosts[run[r].pid].root = S!Root(r)
  /\ run[r].at \in {"clear", "confirm"} => ~S!Alive(pidFile[S!Root(r)])

ProcessesInv ==
  /\ Shaped /\ \A d \in Roots : Born(pidFile[d])
  /\ \A r \in S!Runners : Knows(r)
  /\ S!HostsAreKnown

\* A step starts Hosts and ends them, and no Host comes back to life.
HostsGo ==
  /\ DOMAIN hosts' = S!Pids
  /\ \A p \in S!Pids : hosts[p].life # "none" =>
       /\ hosts'[p].root = hosts[p].root /\ hosts'[p].life # "none"
       /\ hosts'[p].life \in {"starting", "listening"} =>
            hosts[p].life \in {"starting", "listening"}
\* ... and here it starts none.
NoneStarts ==
  /\ HostsGo
  /\ \A p \in S!Pids : /\ DOMAIN hosts'[p] = HostFields
                       /\ hosts[p].life = "none" => hosts'[p].life = "none"

LEMMA Zero == 0 \notin S!Pids
BY DEF S!Pids

LEMMA TerminatedFades ==
  ASSUME Shaped, NEW X, NEW Y, hosts' = S!Terminated(X, Y),
         \A p \in X : p \in S!Pids => hosts[p].life # "none"
  PROVE  /\ NoneStarts
         /\ \A p \in X : p \in S!Pids => hosts'[p].life = "dead"
<1>1. \A p \in S!Pids :
        /\ DOMAIN hosts'[p] = HostFields /\ hosts'[p].root = hosts[p].root
        /\ hosts'[p].life = IF p \in X THEN "dead" ELSE hosts[p].life
  BY DEF Shaped, S!Terminated, HostFields
<1>2. DOMAIN hosts' = S!Pids
  BY DEF S!Terminated
<1> QED
  BY <1>1, <1>2 DEF NoneStarts, HostsGo

LEMMA UnchangedHosts ==
  ASSUME Shaped, hosts' = hosts
  PROVE  NoneStarts
BY DEF Shaped, NoneStarts, HostsGo

LEMMA GoesShape ==
  ASSUME Shaped, NEW r \in S!Runners, NEW place, NEW p, S!Goes(r, place, p)
  PROVE  /\ DOMAIN run' = S!Runners /\ \A q \in S!Runners : DOMAIN run'[q] = RunFields
         /\ run'[r].at = place /\ run'[r].pid = p /\ run'[r].copy = run[r].copy
         /\ \A q \in S!Runners : q # r => run'[q] = run[q]
         /\ lock' = lock
BY DEF Shaped, RunFields, S!Goes

LEMMA ReturnsShape ==
  ASSUME Shaped, NEW r \in S!Runners, S!Returns(r)
  PROVE  /\ DOMAIN run' = S!Runners /\ \A q \in S!Runners : DOMAIN run'[q] = RunFields
         /\ run'[r].at \in {"idle", "gone"} /\ run'[r].pid = 0
         /\ \A q \in S!Runners : q # r => run'[q] = run[q]
         /\ DOMAIN lock' = Roots
         /\ \A d \in Roots : d # S!Root(r) => lock'[d] = lock[d]
<1>1. /\ DOMAIN run' = S!Runners /\ \A q \in S!Runners : DOMAIN run'[q] = RunFields
      /\ run'[r].at \in {"idle", "gone"} /\ run'[r].pid = 0
      /\ \A q \in S!Runners : q # r => run'[q] = run[q]
  BY DEF Shaped, RunFields, S!Returns
<1>2. /\ DOMAIN lock' = Roots
      /\ \A d \in Roots : d # S!Root(r) => lock'[d] = lock[d]
  BY DEF Shaped, S!Returns
<1> QED
  BY <1>1, <1>2

\* Where a runner does not take part, it goes on knowing what it knew.
LEMMA OtherKnows ==
  ASSUME ProcessesInv, NEW q \in S!Runners, data' = data, run'[q] = run[q], HostsGo,
         \A d \in Roots : lock[d] = q => lock'[d] = lock[d] /\ pidFile'[d] = pidFile[d]
  PROVE  Knows(q)'
<1>1. Knows(q) /\ 0 \notin S!Pids
  BY Zero DEF ProcessesInv
<1>2. S!Root(q)' = S!Root(q)
  BY DEF S!Root
<1>3. Born(run[q].pid)'
  BY <1>1 DEF HostsGo, Knows, Born
<1>4. CASE run[q].at \notin Holding
  BY <1>1, <1>3, <1>4 DEF Knows, Holding
<1>5. CASE run[q].at \in Holding
  <2>1. S!Root(q) \in Roots /\ lock[S!Root(q)] = q
    BY <1>1, <1>5 DEF Knows, S!Root, ProcessesInv, Shaped
  <2>2. lock'[S!Root(q)] = q /\ pidFile'[S!Root(q)] = pidFile[S!Root(q)]
    BY <2>1
  <2>3. run[q].at = "record" => hosts'[run[q].pid].root = hosts[run[q].pid].root
    BY <1>1 DEF Knows, Born, HostsGo
  <2>4. ~S!Alive(pidFile[S!Root(q)]) => ~(S!Alive(pidFile[S!Root(q)])')
    BY <2>1, <2>2, <1>2 DEF S!Alive, HostsGo, ProcessesInv, Shaped, Born
  <2> QED
    BY <1>1, <1>2, <1>3, <2>1, <2>2, <2>3, <2>4 DEF Knows, Holding
<1> QED
  BY <1>4, <1>5

\* How a step of the runner r keeps the invariant.
LEMMA RunnerStep ==
  ASSUME ProcessesInv, Shaped', NEW r \in S!Runners, data' = data, HostsGo,
         \A q \in S!Runners : q # r => run'[q] = run[q],
         \A d \in Roots : lock[d] \notin {r, "free"} => lock'[d] = lock[d],
         \A d \in Roots : \/ pidFile'[d] = pidFile[d]
                          \/ lock[d] = r /\ ~(S!Alive(pidFile[d])) /\ Born(pidFile[d])'
                          \/ lock[d] = r /\ pidFile'[d] = 0 /\
                             (pidFile[d] # 0 =>
                                hosts'[pidFile[d]].life \notin {"starting", "listening"}),
         lost \subseteq lost',
         Knows(r)',
         run[r].at = "record" =>
           \/ run[r].pid \in lost'
           \/ pidFile'[S!Root(r)] = run[r].pid
           \/ run'[r].at = "record" /\ run'[r].pid = run[r].pid,
         \A p \in S!Pids : hosts[p].life = "none" /\ hosts'[p].life # "none" =>
           run'[r].at = "record" /\ run'[r].pid = p
  PROVE  ProcessesInv'
<1>0. 0 \notin S!Pids
  BY Zero
<1>1. ASSUME NEW q \in S!Runners PROVE Knows(q)'
  <2>1. CASE q = r
    BY <2>1
  <2>2. CASE q # r
    <3>1. q # "free"
      BY DEF S!Runners
    <3>2. run'[q] = run[q]
      BY <2>2
    <3>3. \A d \in Roots : lock[d] = q => lock'[d] = lock[d] /\ pidFile'[d] = pidFile[d]
      BY <2>2, <3>1
    <3> QED
      BY <3>2, <3>3, OtherKnows
  <2> QED
    BY <2>1, <2>2
<1>2. ASSUME NEW d \in Roots PROVE Born(pidFile[d])'
  <2>1. pidFile[d] \in S!Pids \cup {0} /\ Born(pidFile[d])
    BY DEF ProcessesInv, Shaped
  <2>2. CASE pidFile'[d] = pidFile[d]
    BY <2>1, <2>2 DEF Born, HostsGo
  <2>3. CASE pidFile'[d] = 0
    BY <2>3 DEF Born
  <2> QED
    BY <2>2, <2>3
<1>3. S!HostsAreKnown'
  <2> SUFFICES ASSUME NEW p \in S!Pids, S!Alive(p)'
               PROVE  \/ pidFile'[hosts'[p].root] = p
                      \/ p \in lost'
                      \/ \E q \in S!Runners : run'[q].at = "record" /\ run'[q].pid = p
    BY DEF S!HostsAreKnown
  <2>0. hosts'[p].life \in {"starting", "listening"} /\ p # 0
    BY DEF S!Alive
  <2>1. CASE hosts[p].life = "none"
    BY <2>0, <2>1
  <2>2. CASE hosts[p].life # "none"
    <3>1. hosts'[p].root = hosts[p].root /\ hosts[p].root \in Roots /\ S!Alive(p)
      BY <2>0, <2>2 DEF HostsGo, ProcessesInv, Shaped, S!Alive
    <3>2. \/ pidFile[hosts[p].root] = p
          \/ p \in lost
          \/ \E q \in S!Runners : run[q].at = "record" /\ run[q].pid = p
      BY <3>1 DEF ProcessesInv, S!HostsAreKnown
    <3>3. CASE pidFile[hosts[p].root] = p
      BY <2>0, <3>1, <3>3
    <3>4. CASE p \in lost
      BY <3>4
    <3>5. ASSUME NEW q \in S!Runners, run[q].at = "record", run[q].pid = p
          PROVE  \/ pidFile'[hosts'[p].root] = p
                 \/ p \in lost'
                 \/ \E u \in S!Runners : run'[u].at = "record" /\ run'[u].pid = p
      <4>1. CASE q # r
        BY <3>5, <4>1
      <4>2. CASE q = r
        <5>1. hosts[p].root = S!Root(r)
          BY <3>5, <4>2 DEF ProcessesInv, Knows
        <5> QED
          BY <3>1, <3>5, <4>2, <5>1
      <4> QED
        BY <4>1, <4>2
    <3> QED
      BY <3>2, <3>3, <3>4, <3>5
  <2> QED
    BY <2>1, <2>2
<1> QED
  BY <1>1, <1>2, <1>3 DEF ProcessesInv

LEMMA ListenerIs ==
  ASSUME NEW port
  PROVE  /\ S!Listener(port) \in S!Pids \cup {0}
         /\ S!Listener(port) # 0 => hosts[S!Listener(port)].life = "listening"
BY DEF S!Listener, S!One

LEMMA SavedIs ==
  ASSUME Shaped, NEW d \in Roots
  PROVE  /\ S!Saved(d) \in {0, pidFile[d]}
         /\ S!Saved(d) # 0 <=> S!Alive(pidFile[d])
         /\ S!Saved(d) # 0 => /\ S!Saved(d) \in S!Pids
                              /\ hosts[S!Saved(d)].life \in {"starting", "listening"}
BY Zero DEF S!Saved, S!Alive, Shaped

LEMMA ShapedNext ==
  ASSUME Shaped, data' = data, NoneStarts, pidFile' \in [Roots -> S!Pids \cup {0}],
         DOMAIN lock' = Roots,
         DOMAIN run' = S!Runners, \A q \in S!Runners : DOMAIN run'[q] = RunFields
  PROVE  Shaped'
BY DEF Shaped, NoneStarts, HostsGo

LEMMA PidFilePut ==
  ASSUME Shaped, NEW d \in Roots, NEW p \in S!Pids \cup {0}, pidFile' = [pidFile EXCEPT ![d] = p]
  PROVE  /\ pidFile' \in [Roots -> S!Pids \cup {0}] /\ pidFile'[d] = p
         /\ \A e \in Roots : e # d => pidFile'[e] = pidFile[e]
BY DEF Shaped

\* A runner that holds the lock of its UserData.
LEMMA Holder ==
  ASSUME ProcessesInv, NEW r \in S!Runners, run[r].at \in Holding
  PROVE  /\ Shaped /\ Knows(r) /\ S!Root(r) \in Roots /\ lock[S!Root(r)] = r
         /\ run[r].copy \in Portables
BY DEF ProcessesInv, Knows, Shaped, S!Root

\* The step ends the runner's operation, and it leaves the pid file or clears it of a
\* Host that is no more.
LEMMA ReturnStep ==
  ASSUME ProcessesInv, NEW r \in S!Runners, run[r].at \in Holding \ {"record"},
         S!Returns(r), data' = data, lost' = lost, NoneStarts,
         \/ pidFile' = pidFile
         \/ /\ pidFile' = [pidFile EXCEPT ![S!Root(r)] = 0]
            /\ pidFile[S!Root(r)] # 0 =>
                 hosts'[pidFile[S!Root(r)]].life \notin {"starting", "listening"}
  PROVE  ProcessesInv'
<1>1. Shaped /\ S!Root(r) \in Roots /\ lock[S!Root(r)] = r
  BY Holder
<1>2. /\ DOMAIN run' = S!Runners /\ \A q \in S!Runners : DOMAIN run'[q] = RunFields
      /\ run'[r].at \in {"idle", "gone"} /\ run'[r].pid = 0
      /\ \A q \in S!Runners : q # r => run'[q] = run[q]
      /\ DOMAIN lock' = Roots
      /\ \A d \in Roots : d # S!Root(r) => lock'[d] = lock[d]
  BY <1>1, ReturnsShape
<1>3. /\ pidFile' \in [Roots -> S!Pids \cup {0}]
      /\ \A d \in Roots : \/ pidFile'[d] = pidFile[d]
                          \/ lock[d] = r /\ pidFile'[d] = 0 /\
                             (pidFile[d] # 0 =>
                                hosts'[pidFile[d]].life \notin {"starting", "listening"})
  <2>1. CASE pidFile' = pidFile
    BY <1>1, <2>1 DEF Shaped
  <2>2. CASE /\ pidFile' = [pidFile EXCEPT ![S!Root(r)] = 0]
             /\ pidFile[S!Root(r)] # 0 =>
                  hosts'[pidFile[S!Root(r)]].life \notin {"starting", "listening"}
    BY <1>1, <2>2, PidFilePut
  <2> QED
    BY <2>1, <2>2
<1>4. Shaped'
  BY <1>1, <1>2, <1>3, ShapedNext
<1>5. Knows(r)'
  BY <1>2 DEF Knows, Born, Holding
<1>6. HostsGo /\ \A p \in S!Pids : hosts[p].life = "none" => hosts'[p].life = "none"
  BY DEF NoneStarts
<1>7. \A d \in Roots : lock[d] \notin {r, "free"} => lock'[d] = lock[d]
  BY <1>1, <1>2
<1>8. \A d \in Roots : \/ pidFile'[d] = pidFile[d]
                       \/ lock[d] = r /\ ~(S!Alive(pidFile[d])) /\ Born(pidFile[d])'
                       \/ lock[d] = r /\ pidFile'[d] = 0 /\
                             (pidFile[d] # 0 =>
                                hosts'[pidFile[d]].life \notin {"starting", "listening"})
  BY <1>3
<1>9. /\ \A q \in S!Runners : q # r => run'[q] = run[q]
      /\ \A p \in S!Pids : hosts[p].life = "none" /\ hosts'[p].life # "none" =>
           run'[r].at = "record" /\ run'[r].pid = p
      /\ run[r].at # "record"
  BY <1>2, <1>6
<1> QED
  BY <1>4, <1>5, <1>6, <1>7, <1>8, <1>9, RunnerStep

\* The step takes the runner to another place, under the lock.
LEMMA GoStep ==
  ASSUME ProcessesInv, NEW r \in S!Runners, run[r].at \in Holding \ {"record"},
         NEW place \in Holding \ {"record"}, NEW p \in S!Pids \cup {0}, Born(p)',
         S!Goes(r, place, p), data' = data, lost' = lost, NoneStarts,
         NEW s \in S!Pids \cup {0}, pidFile' = [pidFile EXCEPT ![S!Root(r)] = s],
         \/ s = pidFile[S!Root(r)]
         \/ ~(S!Alive(pidFile[S!Root(r)])) /\ Born(s)'
         \/ /\ s = 0
            /\ pidFile[S!Root(r)] # 0 =>
                 hosts'[pidFile[S!Root(r)]].life \notin {"starting", "listening"},
         place \in {"judge", "wait"} => p # 0 /\ s = p,
         place = "sweep" /\ p = 0 => s = 0,
         place = "spawn" => s = 0,
         place \in {"clear", "confirm"} =>
           ~(s # 0 /\ hosts'[s].life \in {"starting", "listening"})
  PROVE  ProcessesInv'
<1>1. Shaped /\ S!Root(r) \in Roots /\ lock[S!Root(r)] = r /\ run[r].copy \in Portables
  BY Holder
<1>2. /\ DOMAIN run' = S!Runners /\ \A q \in S!Runners : DOMAIN run'[q] = RunFields
      /\ run'[r].at = place /\ run'[r].pid = p /\ run'[r].copy = run[r].copy
      /\ \A q \in S!Runners : q # r => run'[q] = run[q]
      /\ lock' = lock
  BY <1>1, GoesShape
<1>3. /\ pidFile' \in [Roots -> S!Pids \cup {0}] /\ pidFile'[S!Root(r)] = s
      /\ \A e \in Roots : e # S!Root(r) => pidFile'[e] = pidFile[e]
  BY <1>1, PidFilePut
<1>4. Shaped'
  BY <1>1, <1>2, <1>3, ShapedNext DEF Shaped
<1>a. S!Root(r)' = S!Root(r)
  BY <1>2 DEF S!Root
<1>5. Knows(r)'
  BY <1>1, <1>2, <1>3, <1>a DEF Knows, Holding, S!Alive
<1>6. HostsGo /\ \A q \in S!Pids : hosts[q].life = "none" => hosts'[q].life = "none"
  BY DEF NoneStarts
<1>7. \A d \in Roots : lock[d] \notin {r, "free"} => lock'[d] = lock[d]
  BY <1>2
<1>8. \A d \in Roots : \/ pidFile'[d] = pidFile[d]
                       \/ lock[d] = r /\ ~(S!Alive(pidFile[d])) /\ Born(pidFile[d])'
                       \/ lock[d] = r /\ pidFile'[d] = 0 /\
                             (pidFile[d] # 0 =>
                                hosts'[pidFile[d]].life \notin {"starting", "listening"})
  BY <1>1, <1>3 DEF Born
<1>9. /\ \A q \in S!Runners : q # r => run'[q] = run[q]
      /\ \A q \in S!Pids : hosts[q].life = "none" /\ hosts'[q].life # "none" =>
           run'[r].at = "record" /\ run'[r].pid = q
      /\ run[r].at # "record"
  BY <1>2, <1>6
<1> QED
  BY <1>4, <1>5, <1>6, <1>7, <1>8, <1>9, RunnerStep

LEMMA SamePidFile ==
  ASSUME Shaped, NEW d \in Roots, pidFile' = pidFile
  PROVE  pidFile' = [pidFile EXCEPT ![d] = pidFile[d]] /\ pidFile[d] \in S!Pids \cup {0}
BY DEF Shaped

\* ...and the pid file says what it said.
LEMMA GoOn ==
  ASSUME ProcessesInv, NEW r \in S!Runners, run[r].at \in Holding \ {"record"},
         NEW place \in {"gateway", "clear", "confirm"}, NEW p \in S!Pids \cup {0}, Born(p)',
         S!Goes(r, place, p), data' = data, lost' = lost, NoneStarts, pidFile' = pidFile,
         place # "gateway" =>
           \/ pidFile[S!Root(r)] = 0
           \/ hosts'[pidFile[S!Root(r)]].life \notin {"starting", "listening"}
  PROVE  ProcessesInv'
<1>1. Shaped /\ S!Root(r) \in Roots
  BY Holder
<1>2. PICK s \in S!Pids \cup {0} : s = pidFile[S!Root(r)]
  BY <1>1 DEF Shaped
<1>3. pidFile' = [pidFile EXCEPT ![S!Root(r)] = s]
  BY <1>1, <1>2, SamePidFile
<1>4. place \in Holding \ {"record"} /\ place \notin {"judge", "wait", "sweep", "spawn"}
  BY DEF Holding
<1>5. place \in {"clear", "confirm"} =>
        ~(s # 0 /\ hosts'[s].life \in {"starting", "listening"})
  BY <1>2
<1> QED
  BY <1>2, <1>3, <1>4, <1>5, GoStep

LEMMA InspectKeeps ==
  ASSUME ProcessesInv, NEW r \in S!Runners, S!Inspect(r)
  PROVE  ProcessesInv'
<1>0. run[r].at \in Holding \ {"record"} /\ data' = data /\ lost' = lost
  BY DEF S!Inspect, Holding
<1>1. Shaped /\ S!Root(r) \in Roots /\ 0 \in S!Pids \cup {0} /\ pidFile[S!Root(r)] \in S!Pids \cup {0}
  BY <1>0, Holder DEF Shaped
<1> DEFINE saved == S!Saved(S!Root(r))
           found == S!Listener(run[r].port)
<1>2. /\ saved \in {0, pidFile[S!Root(r)]} /\ (saved # 0 <=> S!Alive(pidFile[S!Root(r)]))
      /\ saved # 0 => saved \in S!Pids /\ hosts[saved].life \in {"starting", "listening"}
  BY <1>1, SavedIs
<1>3. found \in S!Pids \cup {0} /\ (found # 0 => hosts[found].life = "listening")
  BY ListenerIs
<1>4. CASE /\ S!Returns(r) /\ pidFile' = [pidFile EXCEPT ![S!Root(r)] = saved] /\ UNCHANGED hosts
  <2>1. NoneStarts
    BY <1>1, <1>4, UnchangedHosts
  <2>2. CASE saved = 0
    <3>1. pidFile[S!Root(r)] # 0 =>
            hosts'[pidFile[S!Root(r)]].life \notin {"starting", "listening"}
      BY <1>2, <1>4, <2>2 DEF S!Alive
    <3>2. pidFile' = [pidFile EXCEPT ![S!Root(r)] = 0]
      BY <1>4, <2>2
    <3> QED
      BY <1>0, <1>4, <2>1, <3>1, <3>2, ReturnStep
  <2>3. CASE saved # 0
    <3>1. pidFile' = pidFile
      BY <1>1, <1>2, <1>4, <2>3 DEF Shaped
    <3> QED
      BY <1>0, <1>4, <2>1, <3>1, ReturnStep
  <2> QED
    BY <2>2, <2>3
<1>5. CASE /\ saved # 0 /\ hosts' = S!Terminated({saved}, {})
           /\ pidFile' = [pidFile EXCEPT ![S!Root(r)] = 0] /\ S!Goes(r, "sweep", 0)
  <2>1. NoneStarts /\ hosts'[saved].life = "dead"
    BY <1>1, <1>2, <1>5, TerminatedFades
  <2>2. /\ saved = pidFile[S!Root(r)] /\ "sweep" \in Holding \ {"record"} /\ Born(0)'
    BY <1>2, <1>5 DEF Holding, Born
  <2> QED
    BY <1>0, <1>1, <1>5, <2>1, <2>2, GoStep
<1>6. CASE /\ saved = 0 /\ S!Goes(r, "sweep", 0) /\ UNCHANGED hosts
           /\ pidFile' = [pidFile EXCEPT ![S!Root(r)] = saved]
  <2>1. NoneStarts
    BY <1>1, <1>6, UnchangedHosts
  <2>2. "sweep" \in Holding \ {"record"} /\ Born(0)'
    BY DEF Holding, Born
  <2>3. ~(S!Alive(pidFile[S!Root(r)])) /\ pidFile' = [pidFile EXCEPT ![S!Root(r)] = 0]
    BY <1>2, <1>6
  <2> QED
    BY <1>0, <1>1, <1>6, <2>1, <2>2, <2>3, GoStep
<1>7. CASE /\ found # 0 /\ saved \in {0, found} /\ S!Goes(r, "judge", found)
           /\ pidFile' = [pidFile EXCEPT ![S!Root(r)] = found] /\ UNCHANGED hosts
  <2>1. NoneStarts
    BY <1>1, <1>7, UnchangedHosts
  <2>2. PICK p \in S!Pids \cup {0} : p = found
    BY <1>3
  <2>3. "judge" \in Holding \ {"record"} /\ Born(p)' /\ p # 0
    BY <1>3, <1>7, <2>2 DEF Holding, Born
  <2>4. p = pidFile[S!Root(r)] \/ ~(S!Alive(pidFile[S!Root(r)]))
    BY <1>2, <1>7, <2>2
  <2>5. S!Goes(r, "judge", p) /\ pidFile' = [pidFile EXCEPT ![S!Root(r)] = p]
    BY <1>7, <2>2
  <2> QED
    BY <1>0, <1>1, <2>1, <2>3, <2>4, <2>5, GoStep
<1> QED
  BY <1>4, <1>5, <1>6, <1>7 DEF S!Inspect

LEMMA JudgeKeeps ==
  ASSUME ProcessesInv, NEW r \in S!Runners, S!Judge(r)
  PROVE  ProcessesInv'
<1>0. run[r].at = "judge" /\ run[r].at \in Holding \ {"record"} /\ data' = data /\ lost' = lost
  BY DEF S!Judge, Holding
<1>1. PICK p \in S!Pids : p = run[r].pid
  BY <1>0, Holder DEF Knows
<1>2. Shaped /\ S!Root(r) \in Roots /\ pidFile[S!Root(r)] = p /\ hosts[p].life # "none" /\ p # 0
  BY <1>0, <1>1, Holder, Zero DEF Knows, Born
<1>3. CASE /\ hosts' = S!Terminated({p}, {})
           /\ pidFile' = [pidFile EXCEPT ![S!Root(r)] = 0] /\ S!Goes(r, "sweep", 0)
  <2>1. NoneStarts /\ hosts'[p].life = "dead"
    BY <1>2, <1>3, TerminatedFades
  <2>2. "sweep" \in Holding \ {"record"} /\ Born(0)' /\ 0 \in S!Pids \cup {0}
    BY DEF Holding, Born
  <2> QED
    BY <1>0, <1>2, <1>3, <2>1, <2>2, GoStep
<1>4. CASE S!Returns(r) /\ UNCHANGED <<hosts, pidFile>>
  BY <1>0, <1>2, <1>4, UnchangedHosts, ReturnStep
<1>5. CASE S!Goes(r, "sweep", p) /\ UNCHANGED <<hosts, pidFile>>
  <2>1. NoneStarts /\ pidFile' = [pidFile EXCEPT ![S!Root(r)] = p]
    BY <1>2, <1>5, UnchangedHosts, SamePidFile
  <2>2. "sweep" \in Holding \ {"record"} /\ Born(p)' /\ p \in S!Pids \cup {0}
    BY <1>2, <1>5 DEF Holding, Born
  <2>3. S!Goes(r, "sweep", p) /\ p = pidFile[S!Root(r)] /\ p # 0
    BY <1>2, <1>5
  <2> QED
    BY <1>0, <2>1, <2>2, <2>3, GoStep
<1> QED
  BY <1>1, <1>3, <1>4, <1>5 DEF S!Judge

\* Sweeping ends Hosts and nothing else.
LEMMA SweptFades ==
  ASSUME Shaped, NEW keep, NEW port, hosts' = S!Swept(keep, port)
  PROVE  NoneStarts
<1>1. PICK X, Y : /\ hosts' = S!Terminated(X, Y)
                  /\ X = {p \in S!Pids : hosts[p].life = "listening" /\ p # keep}
  BY DEF S!Swept
<1> QED
  BY <1>1, TerminatedFades

LEMMA SweepKeeps ==
  ASSUME ProcessesInv, NEW r \in S!Runners, S!Sweep(r) \/ S!Clear(r)
  PROVE  ProcessesInv'
<1>0. run[r].at \in {"sweep", "clear"} /\ run[r].at \in Holding \ {"record"}
      /\ data' = data /\ lost' = lost /\ pidFile' = pidFile
  BY DEF S!Sweep, S!Clear, Holding
<1>1. PICK p \in S!Pids \cup {0} : p = run[r].pid
  BY <1>0, Holder DEF Knows
<1>2. PICK s \in S!Pids \cup {0} : s = pidFile[S!Root(r)]
  BY <1>0, Holder DEF Shaped
<1>3. Shaped /\ S!Root(r) \in Roots /\ Knows(r) /\ NoneStarts
  BY <1>0, Holder, SweptFades DEF S!Sweep, S!Clear
<1>4. pidFile' = [pidFile EXCEPT ![S!Root(r)] = s] /\ Born(p)'
  BY <1>0, <1>1, <1>2, <1>3, SamePidFile DEF Knows, Born, NoneStarts, HostsGo
<1>5. CASE S!Sweep(r)
  <2>1. run[r].at = "sweep"
    BY <1>5 DEF S!Sweep
  <2>2. CASE p = 0
    <3>1. s = 0 /\ "spawn" \in Holding \ {"record"} /\ S!Goes(r, "spawn", p)
      BY <1>1, <1>2, <1>3, <1>5, <2>1, <2>2 DEF Knows, Holding, S!Sweep
    <3> QED
      BY <1>0, <1>2, <1>3, <1>4, <3>1, GoStep
  <2>3. CASE p # 0
    <3>1. "gateway" \in Holding \ {"record"} /\ S!Goes(r, "gateway", p)
      BY <1>1, <1>5, <2>3 DEF Holding, S!Sweep
    <3> QED
      BY <1>0, <1>2, <1>3, <1>4, <3>1, GoStep
  <2> QED
    BY <2>2, <2>3
<1>6. CASE S!Clear(r)
  <2>1. S!Goes(r, "confirm", p)
    BY <1>1, <1>6 DEF S!Clear
  <2>2. ~(S!Alive(pidFile[S!Root(r)]))
    BY <1>3, <1>6 DEF Knows, S!Clear
  <2>3. ~(s # 0 /\ hosts'[s].life \in {"starting", "listening"})
    <3>1. s # 0 => hosts[s].life \notin {"starting", "listening"} /\ hosts[s].life # "none"
      BY <1>2, <1>3, <2>2 DEF S!Alive, ProcessesInv, Born
    <3> QED
      BY <3>1, <1>2, <1>3 DEF NoneStarts, HostsGo
  <2> QED
    BY <1>0, <1>2, <1>3, <1>4, <2>1, <2>3, GoOn
<1> QED
  BY <1>5, <1>6

LEMMA SpawnKeeps ==
  ASSUME ProcessesInv, NEW r \in S!Runners, S!Spawn(r)
  PROVE  ProcessesInv'
<1>0. run[r].at = "spawn" /\ run[r].at \in Holding
      /\ data' = data /\ lost' = lost /\ pidFile' = pidFile
  BY DEF S!Spawn, Holding
<1>1. Shaped /\ S!Root(r) \in Roots /\ Knows(r) /\ run[r].copy \in Portables
      /\ lock[S!Root(r)] = r
  BY <1>0, Holder
<1>2. PICK p \in S!Pids, job \in BOOLEAN :
        /\ hosts[p].life = "none" /\ S!Goes(r, "record", p)
        /\ hosts' = [hosts EXCEPT ![p] = [S!NoHost EXCEPT !.life = "starting", !.job = job,
                        !.copy = run[r].copy, !.root = S!Root(r), !.port = run[r].port]]
  BY DEF S!Spawn
<1>3. /\ DOMAIN hosts' = S!Pids
      /\ hosts'[p].life = "starting" /\ hosts'[p].root = S!Root(r)
      /\ DOMAIN hosts'[p] = HostFields
      /\ \A q \in S!Pids : q # p => hosts'[q] = hosts[q]
  BY <1>1, <1>2 DEF Shaped, S!NoHost, HostFields
<1>4. HostsGo
  BY <1>2, <1>3 DEF HostsGo
<1>5. /\ DOMAIN run' = S!Runners /\ \A q \in S!Runners : DOMAIN run'[q] = RunFields
      /\ run'[r].at = "record" /\ run'[r].pid = p /\ run'[r].copy = run[r].copy
      /\ \A q \in S!Runners : q # r => run'[q] = run[q]
      /\ lock' = lock
  BY <1>1, <1>2, GoesShape
<1>6. Shaped'
  BY <1>0, <1>1, <1>3, <1>5 DEF Shaped
<1>7. Knows(r)'
  <2>1. S!Root(r)' = S!Root(r)
    BY <1>0, <1>5 DEF S!Root
  <2>2. p # 0 /\ pidFile[S!Root(r)] = 0
    BY <1>0, <1>1, Zero DEF Knows
  <2> QED
    BY <1>0, <1>1, <1>2, <1>3, <1>5, <2>1, <2>2 DEF Knows, Holding, Born
<1>8. \A q \in S!Pids : hosts[q].life = "none" /\ hosts'[q].life # "none" =>
           run'[r].at = "record" /\ run'[r].pid = q
  BY <1>3, <1>5
<1>9. run[r].at # "record"
  BY <1>0
<1> QED
  BY <1>0, <1>4, <1>5, <1>6, <1>7, <1>8, <1>9, RunnerStep

\* The pid file comes second: it was empty, and names the Host that the runner has started.
LEMMA RecordKeeps ==
  ASSUME ProcessesInv, NEW r \in S!Runners, S!Record(r)
  PROVE  ProcessesInv'
<1>0. run[r].at = "record" /\ run[r].at \in Holding
      /\ data' = data /\ lost' = lost /\ hosts' = hosts
  BY DEF S!Record, Holding
<1>1. Shaped /\ S!Root(r) \in Roots /\ Knows(r) /\ run[r].copy \in Portables
      /\ lock[S!Root(r)] = r
  BY <1>0, Holder
<1>2. PICK p \in S!Pids : p = run[r].pid /\ p # 0 /\ hosts[p].life # "none"
  BY <1>0, <1>1 DEF Knows, Born
<1>3. S!Goes(r, "wait", p) /\ pidFile' = [pidFile EXCEPT ![S!Root(r)] = p]
  BY <1>2 DEF S!Record
<1>4. /\ DOMAIN run' = S!Runners /\ \A q \in S!Runners : DOMAIN run'[q] = RunFields
      /\ run'[r].at = "wait" /\ run'[r].pid = p /\ run'[r].copy = run[r].copy
      /\ \A q \in S!Runners : q # r => run'[q] = run[q]
      /\ lock' = lock
  BY <1>1, <1>3, GoesShape
<1>5. /\ pidFile' \in [Roots -> S!Pids \cup {0}] /\ pidFile'[S!Root(r)] = p
      /\ \A e \in Roots : e # S!Root(r) => pidFile'[e] = pidFile[e]
  BY <1>1, <1>3, PidFilePut
<1>6. NoneStarts
  BY <1>0, <1>1, UnchangedHosts
<1>7. Shaped'
  BY <1>0, <1>1, <1>4, <1>5, <1>6, ShapedNext DEF Shaped
<1>8. S!Root(r)' = S!Root(r) /\ pidFile[S!Root(r)] = 0
  BY <1>0, <1>1, <1>4 DEF S!Root, Knows
<1>9. Knows(r)'
  BY <1>0, <1>1, <1>2, <1>4, <1>5, <1>8 DEF Knows, Holding, Born
<1>10. \A d \in Roots : \/ pidFile'[d] = pidFile[d]
                        \/ lock[d] = r /\ ~(S!Alive(pidFile[d])) /\ Born(pidFile[d])'
  BY <1>0, <1>1, <1>2, <1>5, <1>8 DEF S!Alive, Born
<1>11. HostsGo /\ \A q \in S!Pids : hosts[q].life = "none" => hosts'[q].life = "none"
  BY <1>6 DEF NoneStarts
<1>12. pidFile'[S!Root(r)] = run[r].pid
  BY <1>2, <1>5
<1>13. \A q \in S!Pids : hosts[q].life = "none" /\ hosts'[q].life # "none" =>
           run'[r].at = "record" /\ run'[r].pid = q
  BY <1>11
<1>14. lost \subseteq lost' /\ \A d \in Roots : lock[d] \notin {r, "free"} => lock'[d] = lock[d]
  BY <1>0, <1>4
<1> QED
  BY <1>0, <1>4, <1>7, <1>9, <1>10, <1>11, <1>12, <1>13, <1>14, RunnerStep

LEMMA ReadyKeeps ==
  ASSUME ProcessesInv, NEW r \in S!Runners, S!Ready(r)
  PROVE  ProcessesInv'
<1>0. run[r].at = "wait" /\ run[r].at \in Holding \ {"record"}
      /\ data' = data /\ lost' = lost /\ hosts' = hosts /\ pidFile' = pidFile
  BY DEF S!Ready, Holding
<1>1. PICK p \in S!Pids \cup {0} : p = run[r].pid
  BY <1>0, Holder DEF Knows
<1>2. Shaped /\ S!Root(r) \in Roots /\ pidFile[S!Root(r)] = p /\ Born(p)'
  BY <1>0, <1>1, Holder DEF Knows, Born
<1>3. NoneStarts /\ S!Goes(r, "gateway", p)
  BY <1>0, <1>1, <1>2, UnchangedHosts DEF S!Ready
<1> QED
  BY <1>0, <1>2, <1>3, GoOn

LEMMA NotReadyKeeps ==
  ASSUME ProcessesInv, NEW r \in S!Runners, S!NotReady(r)
  PROVE  ProcessesInv'
<1>0. run[r].at = "wait" /\ run[r].at \in Holding \ {"record"}
      /\ data' = data /\ lost' = lost /\ S!Returns(r)
      /\ pidFile' = [pidFile EXCEPT ![S!Root(r)] = 0]
  BY DEF S!NotReady, Holding
<1>1. PICK p \in S!Pids : p = run[r].pid
  BY <1>0, Holder DEF Knows
<1>2. Shaped /\ pidFile[S!Root(r)] = p /\ hosts[p].life # "none"
  BY <1>0, <1>1, Holder, Zero DEF Knows, Born
<1>3. PICK Y : hosts' = S!Terminated({p}, Y)
  BY <1>1 DEF S!NotReady
<1>4. NoneStarts /\ hosts'[p].life = "dead"
  BY <1>2, <1>3, TerminatedFades
<1> QED
  BY <1>0, <1>2, <1>4, ReturnStep

LEMMA GatewayKeeps ==
  ASSUME ProcessesInv, NEW r \in S!Runners, S!Gateway(r)
  PROVE  ProcessesInv'
<1>0. run[r].at \in Holding \ {"record"} /\ data' = data /\ lost' = lost /\ S!Returns(r)
      /\ hosts' = hosts /\ pidFile' = pidFile
  BY DEF S!Gateway, Holding
<1> QED
  BY <1>0, Holder, UnchangedHosts, ReturnStep

LEMMA HaltKeeps ==
  ASSUME ProcessesInv, NEW r \in S!Runners, S!Halt(r)
  PROVE  ProcessesInv'
<1>0. run[r].at \in Holding \ {"record"} /\ data' = data /\ lost' = lost /\ pidFile' = pidFile
  BY DEF S!Halt, Holding
<1>1. Shaped /\ S!Root(r) \in Roots /\ pidFile[S!Root(r)] \in S!Pids \cup {0}
  BY <1>0, Holder DEF Shaped
<1> DEFINE found == S!Listener(run[r].port)
<1>2. PICK saved \in S!Pids \cup {0} : saved = S!Saved(S!Root(r))
  BY <1>1, SavedIs
<1>3. /\ saved \in {0, pidFile[S!Root(r)]} /\ (saved # 0 <=> S!Alive(pidFile[S!Root(r)]))
      /\ saved # 0 => hosts[saved].life \in {"starting", "listening"}
  BY <1>1, <1>2, SavedIs
<1>4. found \in S!Pids \cup {0} /\ (found # 0 => hosts[found].life = "listening")
  BY ListenerIs
<1>5. CASE S!Returns(r) /\ UNCHANGED hosts
  BY <1>0, <1>1, <1>5, UnchangedHosts, ReturnStep
<1>6. CASE /\ hosts' = S!Terminated({IF saved # 0 THEN saved ELSE found}, {S!Cli(run[r].port)})
           /\ S!Goes(r, "clear", saved)
  <2>1. /\ NoneStarts
        /\ saved # 0 => hosts'[saved].life = "dead"
    <3>1. PICK v, Y : /\ v = (IF saved # 0 THEN saved ELSE found)
                      /\ hosts' = S!Terminated({v}, Y)
      BY <1>6
    <3>2. v \in S!Pids => hosts[v].life # "none"
      BY <1>3, <1>4, <3>1, Zero
    <3>3. NoneStarts /\ (v \in S!Pids => hosts'[v].life = "dead")
      BY <1>1, <3>1, <3>2, TerminatedFades
    <3> QED
      BY <1>2, <3>1, <3>3
  <2>2. PICK s \in S!Pids \cup {0} : s = pidFile[S!Root(r)]
    BY <1>1
  <2>3. ~(s # 0 /\ hosts'[s].life \in {"starting", "listening"})
    <3>1. CASE saved # 0
      BY <1>3, <2>1, <2>2, <3>1
    <3>2. CASE saved = 0
      <4>1. s # 0 => hosts[s].life \notin {"starting", "listening"} /\ hosts[s].life # "none"
        BY <1>1, <1>3, <2>2, <3>2 DEF S!Alive, ProcessesInv, Born
      <4> QED
        BY <2>1, <2>2, <4>1 DEF NoneStarts, HostsGo
    <3> QED
      BY <3>1, <3>2
  <2>4. Born(saved)'
    BY <2>1 DEF Born
  <2> QED
    BY <1>0, <1>6, <2>1, <2>2, <2>3, <2>4, GoOn
<1> QED
  BY <1>2, <1>5, <1>6 DEF S!Halt

LEMMA ConfirmKeeps ==
  ASSUME ProcessesInv, NEW r \in S!Runners, S!Confirm(r)
  PROVE  ProcessesInv'
<1>0. run[r].at = "confirm" /\ run[r].at \in Holding \ {"record"} /\ data' = data /\ lost' = lost
      /\ S!Returns(r) /\ hosts' = hosts
      /\ (pidFile' = pidFile \/ pidFile' = [pidFile EXCEPT ![S!Root(r)] = 0])
  BY DEF S!Confirm, Holding
<1>1. Shaped /\ ~(S!Alive(pidFile[S!Root(r)]))
  BY <1>0, Holder DEF Knows
<1>2. pidFile[S!Root(r)] # 0 => hosts'[pidFile[S!Root(r)]].life \notin {"starting", "listening"}
  BY <1>0, <1>1 DEF S!Alive
<1> QED
  BY <1>0, <1>1, <1>2, UnchangedHosts, ReturnStep

\* A step that touches neither Hosts nor pid files, at the beginning or the end of an
\* operation: the runner gets the lock, or is at no place that needs it.
LEMMA OutsideStep ==
  ASSUME ProcessesInv, NEW r \in S!Runners, data' = data, hosts' = hosts, pidFile' = pidFile,
         lost \subseteq lost', run[r].at = "record" => run[r].pid \in lost',
         DOMAIN run' = S!Runners, \A q \in S!Runners : DOMAIN run'[q] = RunFields,
         \A q \in S!Runners : q # r => run'[q] = run[q],
         DOMAIN lock' = Roots, \A d \in Roots : lock[d] \notin {r, "free"} => lock'[d] = lock[d],
         run'[r].pid \in {0, run[r].pid},
         run'[r].at \in {"gone", "idle", "lock", "inspect", "halt"},
         run'[r].at \in {"lock", "inspect", "halt"} => run'[r].copy \in Portables,
         run'[r].at \in {"inspect", "halt"} => lock'[data[run'[r].copy]] = r
  PROVE  ProcessesInv'
<1>1. Shaped /\ Knows(r)
  BY DEF ProcessesInv
<1>2. NoneStarts
  BY <1>1, UnchangedHosts
<1>3. Shaped'
  BY <1>1, <1>2, ShapedNext DEF Shaped
<1>4. Knows(r)'
  BY <1>1 DEF Knows, Holding, Born, S!Root
<1>5. /\ \A q \in S!Pids : hosts[q].life = "none" /\ hosts'[q].life # "none" =>
           run'[r].at = "record" /\ run'[r].pid = q
      /\ HostsGo
  BY <1>2 DEF NoneStarts
<1> QED
  BY <1>3, <1>4, <1>5, RunnerStep

LEMMA LockKeeps ==
  ASSUME ProcessesInv, NEW r \in S!Runners, S!Lock(r)
  PROVE  ProcessesInv'
<1>1. Shaped /\ Knows(r) /\ run[r].at = "lock" /\ run[r].copy \in Portables
      /\ S!Root(r) \in Roots
  BY DEF ProcessesInv, Knows, S!Lock, S!Root, Shaped
<1>2. /\ DOMAIN run' = S!Runners /\ \A q \in S!Runners : DOMAIN run'[q] = RunFields
      /\ \A q \in S!Runners : q # r => run'[q] = run[q]
      /\ run'[r].pid = run[r].pid /\ run'[r].copy = run[r].copy
      /\ run'[r].at \in {"inspect", "halt"}
  BY <1>1 DEF Shaped, RunFields, S!Lock
<1>3. /\ DOMAIN lock' = Roots /\ lock'[S!Root(r)] = r
      /\ \A d \in Roots : lock[d] \notin {r, "free"} => lock'[d] = lock[d]
  BY <1>1 DEF Shaped, S!Lock
<1>4. lock'[data[run'[r].copy]] = r
  BY <1>2, <1>3 DEF S!Root
<1> QED
  BY <1>1, <1>2, <1>3, <1>4, OutsideStep DEF S!Lock

LEMMA BusyKeeps ==
  ASSUME ProcessesInv, NEW r \in S!Runners, S!Busy(r)
  PROVE  ProcessesInv'
<1>1. Shaped /\ run[r].at = "lock"
  BY DEF ProcessesInv, S!Busy
<1>2. /\ DOMAIN run' = S!Runners /\ \A q \in S!Runners : DOMAIN run'[q] = RunFields
      /\ \A q \in S!Runners : q # r => run'[q] = run[q]
      /\ run'[r].pid = run[r].pid /\ run'[r].at \in {"gone", "idle"}
  BY <1>1 DEF Shaped, RunFields, S!Busy
<1> QED
  BY <1>1, <1>2, OutsideStep DEF S!Busy, Shaped

LEMMA BeginKeeps ==
  ASSUME ProcessesInv, NEW r \in S!Runners, NEW c \in Portables, NEW op, NEW gently,
         S!Begin(r, c, op, gently)
  PROVE  ProcessesInv'
<1>1. Shaped /\ run[r].at # "record"
  BY DEF ProcessesInv, S!Begin
<1>2. PICK port : run' = [run EXCEPT ![r] = [@ EXCEPT !.at = "lock", !.copy = c, !.op = op,
                                                     !.gently = gently, !.port = port]]
  BY DEF S!Begin
<1>3. /\ DOMAIN run' = S!Runners /\ \A q \in S!Runners : DOMAIN run'[q] = RunFields
      /\ \A q \in S!Runners : q # r => run'[q] = run[q]
      /\ run'[r].pid = run[r].pid /\ run'[r].at = "lock" /\ run'[r].copy = c
  BY <1>1, <1>2 DEF Shaped, RunFields
<1>4. UNCHANGED <<data, hosts, pidFile, lock, lost>>
  BY DEF S!Begin
<1> QED
  BY <1>1, <1>3, <1>4, OutsideStep DEF Shaped

LEMMA WindowKeeps ==
  ASSUME ProcessesInv, S!OpenWindow \/ S!CloseWindow
  PROVE  ProcessesInv'
<1>0. "window" \in S!Runners
  BY DEF S!Runners
<1>1. Shaped /\ run["window"].at # "record" /\ UNCHANGED <<data, hosts, pidFile, lock, lost>>
  BY DEF ProcessesInv, S!OpenWindow, S!CloseWindow
<1>2. PICK x : /\ run' = [run EXCEPT !["window"] = x]
               /\ DOMAIN x = RunFields /\ x.pid = 0 /\ x.at \in {"gone", "idle"}
  BY DEF S!OpenWindow, S!CloseWindow, S!Idle, RunFields
<1>3. /\ DOMAIN run' = S!Runners /\ \A q \in S!Runners : DOMAIN run'[q] = RunFields
      /\ \A q \in S!Runners : q # "window" => run'[q] = run[q]
      /\ run'["window"].pid = 0 /\ run'["window"].at \in {"gone", "idle"}
  BY <1>0, <1>1, <1>2 DEF Shaped
<1> QED
  BY <1>0, <1>1, <1>3, OutsideStep DEF Shaped

\* Whoever dies between starting a Host and writing its pid leaves a Host that is lost.
LEMMA CrashOfRunnerKeeps ==
  ASSUME ProcessesInv, NEW r \in S!Runners, S!Crash(r)
  PROVE  ProcessesInv'
<1>1. Shaped /\ UNCHANGED <<data, hosts, pidFile>> /\ lost \subseteq lost'
      /\ (run[r].at = "record" => run[r].pid \in lost')
  BY DEF ProcessesInv, S!Crash
<1>2. /\ DOMAIN run' = S!Runners /\ \A q \in S!Runners : DOMAIN run'[q] = RunFields
      /\ \A q \in S!Runners : q # r => run'[q] = run[q]
      /\ run'[r].pid = 0 /\ run'[r].at = "gone"
  BY <1>1 DEF Shaped, RunFields, S!Crash, S!Idle
<1>3. DOMAIN lock' = Roots /\ \A d \in Roots : lock[d] \notin {r, "free"} => lock'[d] = lock[d]
  BY <1>1 DEF Shaped, S!Crash
<1> QED
  BY <1>1, <1>2, <1>3, OutsideStep

\* What happens to Hosts by themselves.
LEMMA HostStepsKeep ==
  ASSUME ProcessesInv,
         S!Alien \/ \E p \in S!Pids : S!HostBinds(p) \/ S!HostDies(p) \/ S!HostFallsIll(p)
  PROVE  ProcessesInv'
<1>1. Shaped /\ UNCHANGED <<data, pidFile, lock, run, lost>>
  BY DEF ProcessesInv, S!Alien, S!HostBinds, S!HostDies, S!HostFallsIll
<1>2. NoneStarts
  <2>1. CASE S!Alien
    BY <1>1, <2>1, UnchangedHosts DEF S!Alien
  <2>2. ASSUME NEW p \in S!Pids, S!HostBinds(p) PROVE NoneStarts
    <3>1. /\ hosts[p].life = "starting" /\ DOMAIN hosts' = S!Pids
          /\ DOMAIN hosts'[p] = HostFields /\ hosts'[p].root = hosts[p].root
          /\ hosts'[p].life \in {"listening", "dead"}
          /\ \A q \in S!Pids : q # p => hosts'[q] = hosts[q]
      BY <1>1, <2>2 DEF S!HostBinds, Shaped, HostFields
    <3> QED
      BY <1>1, <3>1 DEF NoneStarts, HostsGo, Shaped
  <2>3. ASSUME NEW p \in S!Pids, S!HostDies(p) PROVE NoneStarts
    BY <1>1, <2>3, TerminatedFades DEF S!HostDies, S!Alive
  <2>4. ASSUME NEW p \in S!Pids, S!HostFallsIll(p) PROVE NoneStarts
    <3>1. /\ DOMAIN hosts' = S!Pids
          /\ DOMAIN hosts'[p] = HostFields /\ hosts'[p].root = hosts[p].root
          /\ hosts'[p].life = hosts[p].life
          /\ \A q \in S!Pids : q # p => hosts'[q] = hosts[q]
      BY <1>1, <2>4 DEF S!HostFallsIll, Shaped, HostFields
    <3> QED
      BY <1>1, <3>1 DEF NoneStarts, HostsGo, Shaped
  <2> QED
    BY <2>1, <2>2, <2>3, <2>4
<1>3. Shaped'
  BY <1>1, <1>2, ShapedNext DEF Shaped
<1>4. "window" \in S!Runners /\ HostsGo
  BY <1>2 DEF S!Runners, NoneStarts
<1>5. Knows("window")'
  BY <1>1, <1>4, OtherKnows
<1>6. \A q \in S!Pids : hosts[q].life = "none" /\ hosts'[q].life # "none" =>
           run'["window"].at = "record" /\ run'["window"].pid = q
  BY <1>2 DEF NoneStarts
<1> QED
  BY <1>1, <1>3, <1>4, <1>5, <1>6, RunnerStep

\* The inductive invariant of the processes: the lock makes its holder the only writer of
\* the pid file, and at each of its places the holder knows what the file says.
THEOREM ProcessesInvariant == S!Spec => []ProcessesInv
<1>1. S!Init => ProcessesInv
  <2> SUFFICES ASSUME S!Init PROVE ProcessesInv
    OBVIOUS
  <2>1. Shaped
    BY DEF S!Init, S!NoHost, S!Idle, Shaped, HostFields, RunFields
  <2>2. \A r \in S!Runners : run[r].at = "gone" /\ run[r].pid = 0
    BY DEF S!Init, S!Idle
  <2>3. \A p \in S!Pids : hosts[p].life = "none"
    BY DEF S!Init, S!NoHost
  <2>4. \A d \in Roots : Born(pidFile[d])
    BY DEF S!Init, Born
  <2>5. \A r \in S!Runners : Knows(r)
    BY <2>2 DEF Knows, Holding, Born
  <2>6. S!HostsAreKnown
    BY <2>3 DEF S!HostsAreKnown, S!Alive
  <2> QED
    BY <2>1, <2>4, <2>5, <2>6 DEF ProcessesInv
<1>2. ProcessesInv /\ [S!Next]_(S!vars) => ProcessesInv'
  <2> SUFFICES ASSUME ProcessesInv, [S!Next]_(S!vars) PROVE ProcessesInv'
    OBVIOUS
  <2>1. ASSUME NEW r \in S!Runners, S!Step(r) \/ S!Crash(r) PROVE ProcessesInv'
    BY <2>1, LockKeeps, BusyKeeps, InspectKeeps, JudgeKeeps, SweepKeeps, SpawnKeeps, RecordKeeps,
       ReadyKeeps, NotReadyKeeps, GatewayKeeps, HaltKeeps, ConfirmKeeps, CrashOfRunnerKeeps
    DEF S!Step
  <2>2. ASSUME NEW r \in S!Runners, NEW c \in Portables, NEW op \in {"start", "stop"},
               NEW gently \in BOOLEAN, S!Begin(r, c, op, gently)
        PROVE  ProcessesInv'
    BY <2>2, BeginKeeps
  <2>3. CASE S!OpenWindow \/ S!CloseWindow \/ S!Alien
             \/ \E p \in S!Pids : S!HostBinds(p) \/ S!HostDies(p) \/ S!HostFallsIll(p)
    BY <2>3, WindowKeeps, HostStepsKeep
  <2>4. CASE UNCHANGED S!vars
    BY <2>4 DEF S!vars, ProcessesInv, Shaped, Knows, Born, S!Root, S!Alive, S!HostsAreKnown
  <2> QED
    BY <2>1, <2>2, <2>3, <2>4 DEF S!Next
<1> QED
  BY <1>1, <1>2, PTL DEF S!Spec

\* No Host runs that nobody knows of (run Installation): however many copies, windows and
\* commands start, adopt, repair and stop, a Host that is alive is the one of its UserData's
\* pid file, or about to be, or its starter died before it could write that down.
THEOREM NoUnknownHost == S!Spec => []HostsAreKnown
<1>1. ProcessesInv => HostsAreKnown
  BY DEF ProcessesInv, HostsAreKnown
<1> QED
  BY <1>1, ProcessesInvariant, PTL

-----------------------------------------------------------------------------
(* The updater.                                                              *)

New == [rel |-> "new", data |-> {}]

\* While no two transactions have been under way at a time, there is at most one.
OneActive == ~overlapped => \A v, w \in Active : v = w

\* What the worker of a transaction has before it, at each point of it.
AtItsPoint(w) ==
    /\ staged[w].data = {}
    /\ worker[w].at \in {"verify", "wait", "begin", "move", "activate"} => staged[w] = New
    /\ worker[w].at \in {"idle", "verify", "wait", "begin", "move", "activate"} =>
         worker[w].kept = {}
    /\ worker[w].at = "move" => Verified(router) /\ router.data = worker[w].todo
    /\ worker[w].at = "activate" => router.data = {} /\ backup[w].data = worker[w].todo
    /\ worker[w].at = "keep" =>
         router.rel = "new" /\ router.data = worker[w].kept /\ backup[w].data = worker[w].todo
    /\ worker[w].at \in {"launch", "commit"} =>
         router.rel = "new" /\ router.data = worker[w].kept /\ backup[w].data = {}
    /\ worker[w].at = "undo_data" => router.rel = "new" /\ router.data = worker[w].kept
    /\ worker[w].at = "undo_old" => router.data = {}

Points == ~overlapped => \A w \in Workers : AtItsPoint(w)

\* Staged releases apart, each path is in some directory.
Held == ~overlapped => \A p \in UserData : p \in router.data \/ \E w \in Workers : p \in backup[w].data

\* No transaction died, failed to undo what it did, or lost its way.
Clean == ~overlapped /\ \A w \in Workers : worker[w].at \notin {"dead", "stuck", "stranded"}

\* The release that the last transaction that came to an end has left.
Current == IF \E w \in Workers : worker[w].at \in {"updated", "leftover"} THEN "new" ELSE "old"

\* Between transactions the installation is whole; in a transaction, all that is needed
\* to put it back is in the rollback directory, or still where it was.
WholeFor(w) ==
    /\ worker[w].at = "move" => router.data = UserData /\ router.rel = Current
    /\ worker[w].at \in {"activate", "undo_old"} =>
         backup[w].data = UserData /\ (router = Missing => backup[w].rel = Current)
    /\ worker[w].at \in {"keep", "launch", "undo_data"} =>
         router.data \cup backup[w].data = UserData /\ backup[w].rel = Current
    /\ worker[w].at = "commit" => router.data = UserData

Whole ==
    Clean =>
      /\ Active = {} => router.data = UserData /\ router.rel = Current
      /\ \A w \in Workers : WholeFor(w)

IInv == TypeOK /\ OneActive /\ Points /\ Held /\ Whole

-----------------------------------------------------------------------------
(* The types. *)

Workings ==
    [kind : Kinds, at : Places, todo : SUBSET UserData, kept : SUBSET UserData]
Guis == [proc : {"open", "exiting", "gone"}, busy : {"no", "checking", "downloading"},
         job : {"none", "check", "found", "download", "extract", "ready", "error"}]

LEMMA Types ==
  /\ TypeOK => /\ gui \in Guis /\ router \in Dir
               /\ staged \in [Workers -> Dir] /\ backup \in [Workers -> Dir]
               /\ worker \in [Workers -> Workings]
               /\ faults \in 0 .. MaxFaults /\ crashes \in 0 .. MaxCrashes
               /\ overlapped \in BOOLEAN
  /\ (/\ gui' \in Guis /\ router' \in Dir
      /\ staged' \in [Workers -> Dir] /\ backup' \in [Workers -> Dir]
      /\ worker' \in [Workers -> Workings]
      /\ faults' \in 0 .. MaxFaults /\ crashes' \in 0 .. MaxCrashes
      /\ overlapped' \in BOOLEAN) => TypeOK'
BY DEF TypeOK, Guis, Workings

\* What no step of another worker touches.
Untouched(w) ==
    \A v \in Workers : v # w =>
      worker'[v] = worker[v] /\ staged'[v] = staged[v] /\ backup'[v] = backup[v]

LEMMA DirectoriesTyped ==
  /\ Missing \in Dir /\ Bare \in Dir /\ New \in Dir
  /\ \A d \in Dir : /\ d.data \subseteq UserData
                    /\ Exists(d) <=> d.rel # "missing" \/ d.data # {}
                    /\ d = [rel |-> d.rel, data |-> d.data]
BY DEF Missing, Bare, New, Dir, Exists

LEMMA GoShape ==
  ASSUME TypeOK, NEW w \in Workers, NEW place \in Places, Go(w, place)
  PROVE  /\ worker' \in [Workers -> Workings]
         /\ worker'[w].at = place /\ worker'[w].kind = worker[w].kind
         /\ worker'[w].todo = worker[w].todo /\ worker'[w].kept = worker[w].kept
         /\ \A v \in Workers : v # w => worker'[v] = worker[v]
<1>1. worker \in [Workers -> Workings]
  BY Types
<1> QED
  BY <1>1 DEF Go, Workings

LEMMA EndShape ==
  ASSUME TypeOK, NEW w \in Workers, NEW place \in Ended, NEW s \in [Workers -> Dir], End(w, place, s)
  PROVE  /\ worker' \in [Workers -> Workings]
         /\ worker'[w].at = place /\ worker'[w].kind = worker[w].kind
         /\ worker'[w].todo = worker[w].todo /\ worker'[w].kept = worker[w].kept
         /\ staged' \in [Workers -> Dir] /\ staged'[w] \in {s[w], Missing}
         /\ place = "updated" => staged'[w] = s[w]
         /\ \A v \in Workers : v # w => worker'[v] = worker[v] /\ staged'[v] = s[v]
<1>1. place \in Places /\ Go(w, place)
  BY DEF Places, End
<1>2. Missing \in Dir
  BY DirectoriesTyped
<1>3. staged' = s \/ staged' = [s EXCEPT ![w] = Missing]
  BY DEF End
<1>4. place = "updated" => staged' = s
  BY DEF End
<1> QED
  BY <1>1, <1>2, <1>3, <1>4, GoShape

LEMMA FaultTyped ==
  ASSUME TypeOK, Fault \/ NoFault
  PROVE  faults' \in 0 .. MaxFaults
BY UpdaterAssumption DEF TypeOK, Fault, NoFault

LEMMA DirTyped ==
  ASSUME NEW d \in Dir, NEW p \in UserData
  PROVE  /\ [d EXCEPT !.data = @ \cup {p}] \in Dir
         /\ [d EXCEPT !.data = @ \ {p}] \in Dir
         /\ [d EXCEPT !.data = @ \cup {p}, !.rel = IF @ = "missing" THEN "none" ELSE @] \in Dir
BY DEF Dir

\* Everything but the overlap, which Next adds.
TypedNext ==
  /\ gui' \in Guis /\ router' \in Dir
  /\ staged' \in [Workers -> Dir] /\ backup' \in [Workers -> Dir]
  /\ worker' \in [Workers -> Workings]
  /\ faults' \in 0 .. MaxFaults /\ crashes' \in 0 .. MaxCrashes

LEMMA GuiStepsTyped ==
  ASSUME TypeOK,
         \/ CheckForUpdates \/ CheckEnds \/ DownloadEnds \/ ExtractEnds \/ RequestExit
         \/ ExitEnds \/ StartGui
         \/ UpdateEvent /\ UNCHANGED worker
  PROVE  TypedNext /\ UNCHANGED <<router, staged, backup, worker>>
<1>0. gui \in Guis
  BY Types
<1>1. faults' \in 0 .. MaxFaults
  BY FaultTyped DEF CheckForUpdates, CheckEnds, DownloadEnds, ExtractEnds, RequestExit,
     ExitEnds, StartGui, UpdateEvent
<1>2. PICK r : r \in Guis /\ Gui(r)
  <2>1. CASE CheckForUpdates
    <3>1. [gui EXCEPT !.busy = "checking", !.job = "check"] \in Guis
      BY <1>0 DEF Guis
    <3> QED
      BY <2>1, <3>1 DEF CheckForUpdates
  <2>2. CASE CheckEnds \/ DownloadEnds \/ ExtractEnds
    <3>1. \A j \in {"found", "extract", "ready", "error"} : [gui EXCEPT !.job = j] \in Guis
      BY <1>0 DEF Guis
    <3> QED
      BY <2>2, <3>1 DEF CheckEnds, DownloadEnds, ExtractEnds
  <2>3. CASE RequestExit \/ ExitEnds \/ StartGui
    <3>1. /\ \A x \in {"open", "exiting"} : [gui EXCEPT !.proc = x] \in Guis
          /\ \A x \in {"open", "gone"} : [proc |-> x, busy |-> "no", job |-> "none"] \in Guis
      BY <1>0 DEF Guis
    <3> QED
      BY <2>3, <3>1 DEF RequestExit, ExitEnds, StartGui
  <2>4. CASE UpdateEvent /\ UNCHANGED worker
    <3>1. /\ [gui EXCEPT !.job = "none"] \in Guis
          /\ [gui EXCEPT !.busy = "downloading", !.job = "download"] \in Guis
          /\ [gui EXCEPT !.busy = "no", !.job = "none"] \in Guis
      BY <1>0 DEF Guis
    <3>2. ASSUME NEW w \in Workers, Free(w),
                 worker' = [worker EXCEPT ![w].kind = "update", ![w].at = "verify"]
          PROVE  FALSE
      <4>1. worker[w].at = "idle" /\ worker \in [Workers -> Workings]
        BY <3>2, Types DEF Free
      <4>2. worker'[w].at = "verify"
        BY <3>2, <4>1 DEF Workings
      <4> QED
        BY <2>4, <4>1, <4>2
    <3>3. \/ Gui([gui EXCEPT !.job = "none"])
          \/ Gui([gui EXCEPT !.busy = "downloading", !.job = "download"])
          \/ Gui([gui EXCEPT !.busy = "no", !.job = "none"])
          \/ \E w \in Workers : /\ Free(w)
                /\ worker' = [worker EXCEPT ![w].kind = "update", ![w].at = "verify"]
      BY <2>4 DEF UpdateEvent
    <3> QED
      BY <3>1, <3>2, <3>3
  <2> QED
    BY <2>1, <2>2, <2>3, <2>4
<1> QED
  BY <1>1, <1>2, Types DEF Gui, TypedNext

\* A transaction begins: the GUI's helper or the portable installer.
Begins(w) ==
  /\ worker[w].at = "idle" /\ worker'[w].at \in {"verify", "begin"}
  /\ worker'[w].kept = worker[w].kept
  /\ staged'[w] = New /\ UNCHANGED <<router, backup>> /\ Untouched(w)

LEMMA BeginsTyped ==
  ASSUME TypeOK, NEW w \in Workers, NEW kind \in {"update", "install"},
         NEW place \in {"verify", "begin"}, Free(w),
         staged' = [staged EXCEPT ![w] = [rel |-> "new", data |-> {}]],
         worker' = [worker EXCEPT ![w].kind = kind, ![w].at = place],
         UNCHANGED <<router, backup, crashes>>, NoFault, gui' \in Guis
  PROVE  TypedNext /\ Begins(w)
<1>1. worker \in [Workers -> Workings] /\ staged \in [Workers -> Dir]
  BY Types
<1>2. /\ worker' \in [Workers -> Workings]
      /\ worker'[w].at = place /\ worker'[w].kept = worker[w].kept
      /\ \A v \in Workers : v # w => worker'[v] = worker[v]
  BY <1>1 DEF Workings, Kinds, Places
<1>3. /\ staged' \in [Workers -> Dir] /\ staged'[w] = New
      /\ \A v \in Workers : v # w => staged'[v] = staged[v]
  BY <1>1, DirectoriesTyped DEF New
<1> QED
  BY <1>2, <1>3, Types, FaultTyped DEF TypedNext, Begins, Untouched, Free

LEMMA UpdateBegins ==
  ASSUME TypeOK, UpdateEvent, worker' # worker
  PROVE  \E w \in Workers : TypedNext /\ Begins(w)
<1>1. PICK w \in Workers :
        /\ Free(w) /\ NoFault
        /\ gui' = [proc |-> "exiting", busy |-> "no", job |-> "none"]
        /\ staged' = [staged EXCEPT ![w] = [rel |-> "new", data |-> {}]]
        /\ worker' = [worker EXCEPT ![w].kind = "update", ![w].at = "verify"]
        /\ UNCHANGED <<router, backup, crashes>>
  BY DEF UpdateEvent, Gui
<1>2. gui' \in Guis
  BY <1>1 DEF Guis
<1> QED
  BY <1>1, <1>2, BeginsTyped

LEMMA InstallerBegins ==
  ASSUME TypeOK, NEW w \in Workers, StartInstaller(w)
  PROVE  TypedNext /\ Begins(w)
<1>1. gui' \in Guis
  BY Types DEF StartInstaller
<1> QED
  BY <1>1, BeginsTyped DEF StartInstaller

-----------------------------------------------------------------------------
(* How a step keeps the invariant. *)

\* A transaction that is under way does a step.
LEMMA ActiveStep ==
  ASSUME TypeOK, OneActive, Points, Held, Whole, OneActive', ~overlapped, ~overlapped',
         NEW w \in Workers, w \in Active, Untouched(w), AtItsPoint(w)',
         \A p \in UserData : p \in router.data \/ p \in backup[w].data =>
                            p \in router'.data \/ p \in backup'[w].data,
         Clean' => WholeFor(w)',
         Clean' /\ w \notin Active' => router'.data = UserData /\ router'.rel = Current'
  PROVE  Points' /\ Held' /\ Whole'
<1>1. \A v \in Workers : v # w => v \notin Active /\ v \notin Active'
  BY DEF OneActive, Active, Untouched
<1>2. Points'
  <2> SUFFICES ASSUME NEW v \in Workers, v # w PROVE AtItsPoint(v)'
    BY DEF Points
  <2>1. AtItsPoint(v)
    BY DEF Points
  <2>2. worker'[v] = worker[v] /\ staged'[v] = staged[v] /\ backup'[v] = backup[v]
    BY DEF Untouched
  <2>3. worker[v].at \in Ended \cup {"idle", "verify", "wait", "begin"}
    BY <1>1 DEF Active
  <2> QED
    BY <2>1, <2>2, <2>3 DEF AtItsPoint, Ended, Refused
<1>3. Held'
  <2> SUFFICES ASSUME NEW p \in UserData
               PROVE  p \in router'.data \/ \E v \in Workers : p \in backup'[v].data
    BY DEF Held
  <2>1. p \in router.data \/ \E v \in Workers : p \in backup[v].data
    BY DEF Held
  <2> QED
    BY <2>1 DEF Untouched
<1>4. Whole'
  <2> SUFFICES ASSUME Clean' PROVE (Active = {} => router.data = UserData /\ router.rel = Current)'
                                   /\ \A v \in Workers : WholeFor(v)'
    BY DEF Whole
  <2>1. ASSUME NEW v \in Workers PROVE WholeFor(v)'
    <3>1. CASE v = w
      BY <3>1
    <3>2. CASE v # w
      <4>1. worker'[v].at \in Ended \cup {"idle", "verify", "wait", "begin"}
        BY <1>1, <3>2 DEF Active
      <4> QED
        BY <4>1 DEF WholeFor, Ended, Refused
    <3> QED
      BY <3>1, <3>2
  <2> QED
    BY <2>1
<1> QED
  BY <1>2, <1>3, <1>4

\* A worker that is not yet at work does a step, which leaves the installation alone or
\* puts a new release where there is none.
LEMMA EarlyStep ==
  ASSUME TypeOK, OneActive, Points, Held, Whole, OneActive', ~overlapped, ~overlapped',
         NEW w \in Workers, worker[w].at \in {"idle", "verify", "wait", "begin"},
         Untouched(w), AtItsPoint(w)', backup'[w] = backup[w],
         \/ /\ router' = router
            /\ worker'[w].at \in {"verify", "wait", "begin", "move", Refused}
         \/ /\ router = Missing /\ router' = New /\ worker'[w].at = "updated"
  PROVE  Points' /\ Held' /\ Whole'
<1>0. Missing.data = {} /\ Missing.rel = "missing" /\ New.data = {} /\ New.rel = "new"
      /\ New # Missing
  BY DEF Missing, New
<1>1. Points'
  <2> SUFFICES ASSUME NEW v \in Workers, v # w PROVE AtItsPoint(v)'
    BY DEF Points
  <2>1. AtItsPoint(v)
    BY DEF Points
  <2>2. worker'[v] = worker[v] /\ staged'[v] = staged[v] /\ backup'[v] = backup[v]
    BY DEF Untouched
  <2>3. CASE router' = router
    BY <2>1, <2>2, <2>3 DEF AtItsPoint
  <2>4. CASE router = Missing /\ router' = New
    BY <1>0, <2>1, <2>2, <2>4 DEF AtItsPoint, Verified
  <2> QED
    BY <2>3, <2>4
<1>2. Held'
  <2> SUFFICES ASSUME NEW p \in UserData
               PROVE  p \in router'.data \/ \E v \in Workers : p \in backup'[v].data
    BY DEF Held
  <2>1. p \in router.data \/ \E v \in Workers : p \in backup[v].data
    BY DEF Held
  <2>2. \A v \in Workers : backup'[v] = backup[v]
    BY DEF Untouched
  <2> QED
    BY <1>0, <2>1, <2>2
<1>3. Whole'
  <2> SUFFICES ASSUME Clean' PROVE (Active = {} => router.data = UserData /\ router.rel = Current)'
                                   /\ \A v \in Workers : WholeFor(v)'
    BY DEF Whole
  <2>1. Clean
    BY DEF Clean, Untouched
  <2>2. /\ Active = {} => router.data = UserData /\ router.rel = Current
        /\ \A v \in Workers : WholeFor(v)
    BY <2>1 DEF Whole
  <2>3. \A v \in Workers : v # w => (v \in Active' <=> v \in Active)
    BY DEF Active, Untouched
  <2>4. CASE router' = router /\ worker'[w].at \in {"verify", "wait", "begin", "move", Refused}
    <3>1. Current' = Current
      BY <2>4 DEF Current, Untouched, Refused
    <3>2. w \notin Active
      BY DEF Active
    <3>3. Active' = {} => Active = {}
      BY <2>3, <3>2 DEF Active
    <3>4. ASSUME NEW v \in Workers, v # w PROVE WholeFor(v)'
      <4>1. WholeFor(v) /\ worker'[v] = worker[v] /\ backup'[v] = backup[v]
        BY <2>2, <3>4 DEF Untouched
      <4> QED
        BY <2>4, <3>1, <4>1 DEF WholeFor
    <3>5. WholeFor(w)'
      <4>1. CASE worker'[w].at = "move"
        <5>1. w \in Active'
          BY <4>1 DEF Active, Ended, Refused
        <5>2. Active = {}
          BY <2>3, <3>2, <5>1 DEF OneActive, Active
        <5> QED
          BY <2>2, <2>4, <3>1, <4>1, <5>2 DEF WholeFor
      <4>2. CASE worker'[w].at # "move"
        BY <2>4, <4>2 DEF WholeFor, Refused
      <4> QED
        BY <4>1, <4>2
    <3> QED
      BY <2>2, <2>4, <3>1, <3>3, <3>4, <3>5
  <2>5. CASE router = Missing /\ router' = New /\ worker'[w].at = "updated"
    <3>1. Active # {}
      BY <1>0, <2>2, <2>5 DEF Current
    <3>2. PICK v \in Active : TRUE
      BY <3>1
    <3>3. v # w /\ v \in Workers /\ v \in Active'
      BY <2>3 DEF Active
    <3>4. ASSUME NEW u \in Workers PROVE WholeFor(u)'
      <4>1. CASE u = w
        BY <2>5, <4>1 DEF WholeFor
      <4>2. CASE u # w
        <5>1. WholeFor(u) /\ AtItsPoint(u) /\ worker'[u] = worker[u] /\ backup'[u] = backup[u]
          BY <2>2, <4>2 DEF Untouched, Points
        <5>2. worker[u].at \notin {"move", "keep", "launch", "undo_data", "commit"}
          BY <1>0, <2>5, <5>1 DEF AtItsPoint, Verified
        <5> QED
          BY <1>0, <2>5, <5>1, <5>2 DEF WholeFor
      <4> QED
        BY <4>1, <4>2
    <3> QED
      BY <3>3, <3>4
  <2> QED
    BY <2>4, <2>5
<1> QED
  BY <1>1, <1>2, <1>3

-----------------------------------------------------------------------------
(* The steps of a transaction. *)

\* No other transaction is under way, before and after the step.
Alone == /\ OneActive /\ Points /\ Held /\ Whole
         /\ OneActive' /\ ~overlapped /\ ~overlapped'
Kept  == Points' /\ Held' /\ Whole'

LEMMA BeforeStep ==
  ASSUME Alone, NEW w \in Workers, Untouched(w), worker[w].at \notin Ended
  PROVE  /\ AtItsPoint(w)
         /\ Clean' => WholeFor(w) /\ worker'[w].at \notin {"dead", "stuck", "stranded"}
         /\ Current' = IF worker'[w].at \in {"updated", "leftover"} THEN "new" ELSE Current
<1>1. AtItsPoint(w)
  BY DEF Alone, Points
<1>2. Clean' => Clean /\ worker'[w].at \notin {"dead", "stuck", "stranded"}
  BY DEF Alone, Clean, Untouched, Ended
<1>3. Clean => WholeFor(w)
  BY DEF Alone, Whole
<1>4. Current' = IF worker'[w].at \in {"updated", "leftover"} THEN "new" ELSE Current
  BY DEF Current, Untouched, Ended
<1> QED
  BY <1>1, <1>2, <1>3, <1>4

\* The conditions of ActiveStep, on what the step's worker and the installation become.
LEMMA ActiveStepKeeps ==
  ASSUME TypeOK, Alone, NEW w \in Workers, w \in Active, Untouched(w),
         AtItsPoint(w)',
         \A p \in UserData : p \in router.data \/ p \in backup[w].data =>
                            p \in router'.data \/ p \in backup'[w].data,
         Clean' => WholeFor(w)',
         Clean' /\ worker'[w].at \in Ended => router'.data = UserData /\ router'.rel = Current',
         worker'[w].at \notin {"idle", "verify", "wait", "begin"}
  PROVE  Kept
<1>1. w \notin Active' => worker'[w].at \in Ended
  BY DEF Active
<1> QED
  BY <1>1, ActiveStep DEF Alone, Kept

LEMMA VerifyStagedKeeps ==
  ASSUME TypeOK, NEW w \in Workers, VerifyStaged(w)
  PROVE  TypedNext /\ (Alone => Kept)
<1>1. CASE Go(w, "wait") /\ UNCHANGED staged /\ NoFault
  <2>1. /\ worker' \in [Workers -> Workings] /\ Untouched(w)
        /\ worker'[w].at = "wait" /\ worker'[w].kept = worker[w].kept
    BY <1>1, GoShape DEF Places, Untouched, VerifyStaged
  <2>2. ASSUME Alone PROVE AtItsPoint(w)'
    BY <1>1, <2>1, <2>2 DEF Alone, Points, AtItsPoint, VerifyStaged
  <2> QED
    BY <1>1, <2>1, <2>2, EarlyStep, Types, FaultTyped DEF Alone, Kept, TypedNext, VerifyStaged
<1>2. CASE End(w, Refused, staged) /\ Fault
  <2>1. /\ worker' \in [Workers -> Workings] /\ Untouched(w) /\ worker'[w].at = Refused
        /\ staged' \in [Workers -> Dir] /\ staged'[w] \in {staged[w], Missing}
    BY <1>2, EndShape, Types DEF Ended, Untouched, VerifyStaged
  <2>2. ASSUME Alone PROVE AtItsPoint(w)'
    BY <2>1, <2>2 DEF Alone, Points, AtItsPoint, Refused, Missing
  <2> QED
    BY <1>2, <2>1, <2>2, EarlyStep, Types, FaultTyped DEF Alone, Kept, TypedNext, VerifyStaged
<1> QED
  BY <1>1, <1>2 DEF VerifyStaged

LEMMA WaitForParentKeeps ==
  ASSUME TypeOK, NEW w \in Workers, WaitForParent(w)
  PROVE  TypedNext /\ (Alone => Kept)
<1>1. CASE Go(w, "begin") /\ UNCHANGED staged
  <2>1. /\ worker' \in [Workers -> Workings] /\ Untouched(w)
        /\ worker'[w].at = "begin" /\ worker'[w].kept = worker[w].kept
    BY <1>1, GoShape DEF Places, Untouched, WaitForParent
  <2>2. ASSUME Alone PROVE AtItsPoint(w)'
    BY <1>1, <2>1, <2>2 DEF Alone, Points, AtItsPoint, WaitForParent
  <2> QED
    BY <1>1, <2>1, <2>2, EarlyStep, Types, FaultTyped DEF Alone, Kept, TypedNext, WaitForParent
<1>2. CASE End(w, Refused, staged)
  <2>1. /\ worker' \in [Workers -> Workings] /\ Untouched(w) /\ worker'[w].at = Refused
        /\ staged' \in [Workers -> Dir] /\ staged'[w] \in {staged[w], Missing}
    BY <1>2, EndShape, Types DEF Ended, Untouched, WaitForParent
  <2>2. ASSUME Alone PROVE AtItsPoint(w)'
    BY <2>1, <2>2 DEF Alone, Points, AtItsPoint, Refused, Missing
  <2> QED
    BY <1>2, <2>1, <2>2, EarlyStep, Types, FaultTyped DEF Alone, Kept, TypedNext, WaitForParent
<1> QED
  BY <1>1, <1>2 DEF WaitForParent

LEMMA ListUserDataKeeps ==
  ASSUME TypeOK, NEW w \in Workers, ListUserData(w)
  PROVE  TypedNext /\ (Alone => Kept)
<1>1. CASE /\ Verified(router) /\ UNCHANGED staged /\ NoFault
           /\ worker' = [worker EXCEPT ![w].at = "move", ![w].todo = router.data]
  <2>1. worker \in [Workers -> Workings] /\ router.data \subseteq UserData
    BY Types, DirectoriesTyped
  <2>2. /\ worker' \in [Workers -> Workings] /\ Untouched(w)
        /\ worker'[w].at = "move" /\ worker'[w].todo = router.data
        /\ worker'[w].kept = worker[w].kept
    BY <1>1, <2>1 DEF ListUserData, Untouched, Workings, Places
  <2>3. ASSUME Alone PROVE AtItsPoint(w)'
    BY <1>1, <2>2, <2>3 DEF Alone, Points, AtItsPoint, ListUserData, Verified
  <2> QED
    BY <1>1, <2>2, <2>3, EarlyStep, Types, FaultTyped DEF Alone, Kept, TypedNext, ListUserData
<1>2. CASE End(w, Refused, staged) /\ (Fault \/ NoFault)
  <2>1. /\ worker' \in [Workers -> Workings] /\ Untouched(w) /\ worker'[w].at = Refused
        /\ staged' \in [Workers -> Dir] /\ staged'[w] \in {staged[w], Missing}
    BY <1>2, EndShape, Types DEF Ended, Untouched, ListUserData
  <2>2. ASSUME Alone PROVE AtItsPoint(w)'
    BY <2>1, <2>2 DEF Alone, Points, AtItsPoint, Refused, Missing
  <2> QED
    BY <1>2, <2>1, <2>2, EarlyStep, Types, FaultTyped DEF Alone, Kept, TypedNext, ListUserData
<1> QED
  BY <1>1, <1>2 DEF ListUserData

LEMMA InstallFreshKeeps ==
  ASSUME TypeOK, NEW w \in Workers, InstallFresh(w)
  PROVE  TypedNext /\ (Alone => Kept)
<1>0. PICK s \in [Workers -> Dir] :
        /\ s = [staged EXCEPT ![w] = Missing]
        /\ s[w] = Missing /\ \A v \in Workers : v # w => s[v] = staged[v]
  <2>1. staged \in [Workers -> Dir] /\ Missing \in Dir
    BY Types, DirectoriesTyped
  <2>2. [staged EXCEPT ![w] = Missing] \in [Workers -> Dir]
    BY <2>1
  <2> QED
    BY <2>1, <2>2
<1>1. CASE router' = staged[w] /\ NoFault /\ End(w, "updated", s)
  <2>0. "updated" \in Ended
    BY DEF Ended
  <2>1. /\ worker' \in [Workers -> Workings] /\ Untouched(w) /\ worker'[w].at = "updated"
        /\ staged' \in [Workers -> Dir] /\ staged'[w] = Missing
    <3>1. /\ worker' \in [Workers -> Workings] /\ worker'[w].at = "updated"
          /\ staged' \in [Workers -> Dir] /\ staged'[w] = s[w]
          /\ \A v \in Workers : v # w => worker'[v] = worker[v] /\ staged'[v] = s[v]
      BY <1>1, <2>0, EndShape
    <3>2. backup' = backup
      BY DEF InstallFresh
    <3> QED
      BY <1>0, <3>1, <3>2 DEF Untouched
  <2>2. ASSUME Alone PROVE AtItsPoint(w)' /\ router = Missing /\ router' = New
    BY <1>1, <2>1, <2>2 DEF Alone, Points, AtItsPoint, Missing, InstallFresh, Exists
  <2> QED
    BY <1>0, <1>1, <2>1, <2>2, EarlyStep, Types, FaultTyped
    DEF Alone, Kept, TypedNext, InstallFresh
<1>2. CASE Fault /\ End(w, Refused, staged) /\ UNCHANGED router
  <2>1. /\ worker' \in [Workers -> Workings] /\ Untouched(w) /\ worker'[w].at = Refused
        /\ staged' \in [Workers -> Dir] /\ staged'[w] \in {staged[w], Missing}
    BY <1>2, EndShape, Types DEF Ended, Untouched, InstallFresh
  <2>2. ASSUME Alone PROVE AtItsPoint(w)'
    BY <2>1, <2>2 DEF Alone, Points, AtItsPoint, Refused, Missing
  <2> QED
    BY <1>2, <2>1, <2>2, EarlyStep, Types, FaultTyped DEF Alone, Kept, TypedNext, InstallFresh
<1> QED
  BY <1>0, <1>1, <1>2 DEF InstallFresh
\* A worker dies.
LEMMA CrashKeeps ==
  ASSUME TypeOK, NEW w \in Workers, Crash(w)
  PROVE  TypedNext /\ (Alone => Kept)
<1>1. /\ worker' \in [Workers -> Workings] /\ Untouched(w) /\ worker'[w].at = "dead"
      /\ UNCHANGED <<router, staged, backup>>
  BY GoShape DEF Crash, Untouched, Places, Ended
<1>2. crashes' \in 0 .. MaxCrashes
  BY UpdaterAssumption DEF TypeOK, Crash
<1>3. TypedNext
  BY <1>1, <1>2, Types DEF TypedNext, Crash
<1>4. ASSUME Alone PROVE Kept
  <2>1. \A v \in Workers : AtItsPoint(v)
    BY <1>4 DEF Alone, Points
  <2>2. ASSUME NEW v \in Workers PROVE AtItsPoint(v)'
    <3>1. CASE v = w
      BY <1>1, <2>1, <3>1 DEF AtItsPoint
    <3>2. CASE v # w
      BY <1>1, <2>1, <3>2 DEF AtItsPoint, Untouched
    <3> QED
      BY <3>1, <3>2
  <2>3. ~Clean'
    BY <1>1 DEF Clean
  <2> QED
    BY <1>1, <1>4, <2>2, <2>3 DEF Alone, Kept, Points, Held, Whole
<1> QED
  BY <1>3, <1>4

\* An active transaction gives up: whatever the place, nothing else changes.
LEMMA GivesUp ==
  ASSUME TypeOK, NEW w \in Workers, w \in Active, NEW place \in {"stuck", "stranded"},
         End(w, place, staged), UNCHANGED <<router, backup, crashes>>,
         gui' \in Guis, Fault \/ NoFault
  PROVE  TypedNext /\ (Alone => Kept)
<1>1. /\ worker' \in [Workers -> Workings] /\ Untouched(w) /\ worker'[w].at = place
      /\ staged' \in [Workers -> Dir] /\ staged'[w] \in {staged[w], Missing}
  BY EndShape, Types DEF Ended, Untouched
<1>2. TypedNext
  BY <1>1, Types, FaultTyped DEF TypedNext
<1>3. ASSUME Alone PROVE Kept
  <2>1. AtItsPoint(w)'
    BY <1>1, <1>3 DEF Alone, Points, AtItsPoint, Missing
  <2>2. ~Clean'
    BY <1>1 DEF Clean
  <2> QED
    BY <1>1, <1>3, <2>1, <2>2, ActiveStepKeeps DEF Ended
<1> QED
  BY <1>2, <1>3

\* Putting a directory in the place of another.
LEMMA PutTyped ==
  ASSUME NEW f \in [Workers -> Dir], NEW w \in Workers, NEW d \in Dir
  PROVE  /\ [f EXCEPT ![w] = d] \in [Workers -> Dir] /\ [f EXCEPT ![w] = d][w] = d
         /\ \A v \in Workers : v # w => [f EXCEPT ![w] = d][v] = f[v]
OBVIOUS

LEMMA MoveOldKeeps ==
  ASSUME TypeOK, NEW w \in Workers, MoveOld(w)
  PROVE  TypedNext /\ (Alone => Kept)
<1>0. /\ worker[w].at = "move" /\ w \in Active /\ worker[w].at \notin Ended
      /\ router \in Dir /\ backup \in [Workers -> Dir] /\ Missing \in Dir
  BY Types, DirectoriesTyped DEF MoveOld, Active, Ended, Refused
<1>1. CASE /\ CanMove(router, backup[w]) /\ NoFault
           /\ backup' = [backup EXCEPT ![w] = router] /\ router' = Missing
           /\ Go(w, "activate") /\ UNCHANGED staged
  <2>1. /\ worker' \in [Workers -> Workings] /\ Untouched(w)
        /\ worker'[w].at = "activate" /\ worker'[w].todo = worker[w].todo
        /\ worker'[w].kept = worker[w].kept
        /\ backup' \in [Workers -> Dir] /\ backup'[w] = router /\ backup[w] = Missing
    BY <1>0, <1>1, GoShape, PutTyped DEF Places, Untouched, CanMove, Exists
  <2>2. TypedNext
    BY <1>0, <1>1, <2>1, Types, FaultTyped DEF TypedNext, MoveOld
  <2>3. ASSUME Alone PROVE Kept
    <3>1. /\ AtItsPoint(w)
          /\ Clean' => WholeFor(w)
          /\ Current' = Current
      BY <1>0, <2>1, <2>3, BeforeStep
    <3>2. AtItsPoint(w)'
      BY <1>0, <1>1, <2>1, <3>1 DEF AtItsPoint, Missing
    <3>3. Clean' => WholeFor(w)'
      BY <1>0, <2>1, <3>1 DEF WholeFor
    <3> QED
      BY <1>0, <1>1, <2>1, <2>3, <3>2, <3>3, ActiveStepKeeps DEF Missing, Ended, Refused
  <2> QED
    BY <2>2, <2>3
<1>2. CASE (Fault \/ NoFault) /\ End(w, Refused, staged) /\ UNCHANGED <<router, backup>>
  <2>1. /\ worker' \in [Workers -> Workings] /\ Untouched(w) /\ worker'[w].at = Refused
        /\ staged' \in [Workers -> Dir] /\ staged'[w] \in {staged[w], Missing}
    BY <1>2, EndShape, Types DEF Ended, Untouched
  <2>2. TypedNext
    BY <1>0, <1>2, <2>1, Types, FaultTyped DEF TypedNext, MoveOld
  <2>3. ASSUME Alone PROVE Kept
    <3>1. /\ AtItsPoint(w)
          /\ Clean' => WholeFor(w)
          /\ Current' = Current
      BY <1>0, <2>1, <2>3, BeforeStep DEF Refused
    <3>2. AtItsPoint(w)'
      BY <1>0, <1>2, <2>1, <3>1 DEF AtItsPoint, Missing, Refused
    <3>3. Clean' => WholeFor(w)' /\ router'.data = UserData /\ router'.rel = Current'
      BY <1>0, <1>2, <2>1, <3>1 DEF WholeFor, Refused
    <3> QED
      BY <1>0, <1>2, <2>1, <2>3, <3>2, <3>3, ActiveStepKeeps DEF Refused
  <2> QED
    BY <2>2, <2>3
<1> QED
  BY <1>1, <1>2 DEF MoveOld

LEMMA ActivateKeeps ==
  ASSUME TypeOK, NEW w \in Workers, Activate(w)
  PROVE  TypedNext /\ (Alone => Kept)
<1>0. /\ worker[w].at = "activate" /\ w \in Active /\ worker[w].at \notin Ended
      /\ router \in Dir /\ backup \in [Workers -> Dir] /\ Missing \in Dir
      /\ staged \in [Workers -> Dir]
      /\ Missing.data = {}
  BY Types, DirectoriesTyped DEF Activate, Active, Ended, Refused, Missing
<1>1. CASE /\ CanMove(staged[w], router) /\ NoFault
           /\ router' = staged[w] /\ staged' = [staged EXCEPT ![w] = Missing]
           /\ Go(w, "keep") /\ UNCHANGED backup
  <2>1. /\ worker' \in [Workers -> Workings] /\ Untouched(w)
        /\ worker'[w].at = "keep" /\ worker'[w].todo = worker[w].todo
        /\ worker'[w].kept = worker[w].kept
        /\ staged' \in [Workers -> Dir] /\ staged'[w] = Missing /\ router = Missing
        /\ router' \in Dir
    BY <1>0, <1>1, GoShape, PutTyped DEF Places, Untouched, CanMove, Exists
  <2>2. TypedNext
    BY <1>0, <1>1, <2>1, Types, FaultTyped DEF TypedNext, Activate
  <2>3. ASSUME Alone PROVE Kept
    <3>1. /\ AtItsPoint(w)
          /\ Clean' => WholeFor(w)
          /\ Current' = Current
      BY <1>0, <2>1, <2>3, BeforeStep
    <3>2. AtItsPoint(w)' /\ router'.data = {}
      BY <1>0, <1>1, <2>1, <3>1 DEF AtItsPoint, New
    <3>3. Clean' => WholeFor(w)'
      BY <1>0, <1>1, <2>1, <3>1, <3>2 DEF WholeFor
    <3> QED
      BY <1>0, <1>1, <2>1, <2>3, <3>2, <3>3, ActiveStepKeeps DEF Ended, Refused
  <2> QED
    BY <2>2, <2>3
<1>2. CASE /\ Fault \/ NoFault
           /\ CanMove(backup[w], router)
           /\ router' = backup[w] /\ backup' = [backup EXCEPT ![w] = Missing]
           /\ End(w, "restored", staged)
  <2>1. /\ worker' \in [Workers -> Workings] /\ Untouched(w) /\ worker'[w].at = "restored"
        /\ staged' \in [Workers -> Dir] /\ staged'[w] \in {staged[w], Missing}
        /\ backup' \in [Workers -> Dir] /\ backup'[w] = Missing /\ router = Missing
        /\ router' \in Dir
    BY <1>0, <1>2, EndShape, PutTyped DEF Ended, Untouched, CanMove, Exists
  <2>2. TypedNext
    BY <1>0, <1>2, <2>1, Types, FaultTyped DEF TypedNext, Activate
  <2>3. ASSUME Alone PROVE Kept
    <3>1. /\ AtItsPoint(w)
          /\ Clean' => WholeFor(w)
          /\ Current' = Current
      BY <1>0, <2>1, <2>3, BeforeStep
    <3>2. AtItsPoint(w)'
      BY <1>0, <2>1, <3>1 DEF AtItsPoint
    <3>3. Clean' => WholeFor(w)' /\ router'.data = UserData /\ router'.rel = Current'
      BY <1>0, <1>2, <2>1, <3>1 DEF WholeFor
    <3> QED
      BY <1>0, <1>2, <2>1, <2>3, <3>2, <3>3, ActiveStepKeeps
  <2> QED
    BY <2>2, <2>3
<1>3. CASE (Fault \/ NoFault) /\ End(w, "stuck", staged) /\ UNCHANGED <<router, backup>>
  BY <1>0, <1>3, GivesUp, Types DEF Activate
<1> QED
  BY <1>1, <1>2, <1>3 DEF Activate
\* A transaction that has user data to bring over, or brings it back.
LEMMA KeepUserDataKeeps ==
  ASSUME TypeOK, NEW w \in Workers, KeepUserData(w)
  PROVE  TypedNext /\ (Alone => Kept)
<1>0. /\ worker[w].at = "keep" /\ w \in Active /\ worker[w].at \notin Ended
      /\ router \in Dir /\ backup \in [Workers -> Dir] /\ Bare \in Dir
      /\ worker \in [Workers -> Workings]
  BY Types, DirectoriesTyped DEF KeepUserData, Active, Ended, Refused
<1>a. PICK p \in worker[w].todo :
        \/ /\ p \in backup[w].data /\ NoFault /\ UNCHANGED staged
           /\ router' = [(IF Exists(router) THEN router ELSE Bare) EXCEPT !.data = @ \cup {p}]
           /\ backup' = [backup EXCEPT ![w].data = @ \ {p}]
           /\ worker' = [worker EXCEPT ![w].todo = @ \ {p}, ![w].kept = @ \cup {p}]
        \/ /\ Fault \/ NoFault
           /\ Go(w, "undo_data") /\ UNCHANGED <<router, staged, backup>>
        \/ Fault /\ End(w, "stranded", staged) /\ UNCHANGED <<router, backup>>
  BY DEF KeepUserData
<1>b. p \in UserData
  BY <1>0, <1>a DEF Workings
<1>1. CASE /\ p \in backup[w].data /\ NoFault /\ UNCHANGED staged
           /\ router' = [(IF Exists(router) THEN router ELSE Bare) EXCEPT !.data = @ \cup {p}]
           /\ backup' = [backup EXCEPT ![w].data = @ \ {p}]
           /\ worker' = [worker EXCEPT ![w].todo = @ \ {p}, ![w].kept = @ \cup {p}]
  <2>1. /\ worker' \in [Workers -> Workings]
        /\ worker'[w].at = "keep" /\ worker'[w].todo = worker[w].todo \ {p}
        /\ worker'[w].kept = worker[w].kept \cup {p}
        /\ \A v \in Workers : v # w => worker'[v] = worker[v]
    BY <1>0, <1>1, <1>b DEF Workings
  <2>2. /\ backup' \in [Workers -> Dir] /\ backup'[w].data = backup[w].data \ {p}
        /\ backup'[w].rel = backup[w].rel
        /\ \A v \in Workers : v # w => backup'[v] = backup[v]
    BY <1>0, <1>1, <1>b DEF Dir
  <2>3. router' \in Dir
    BY <1>0, <1>1, <1>b, DirTyped
  <2>4. Exists(router) => router'.data = router.data \cup {p} /\ router'.rel = router.rel
    BY <1>0, <1>1 DEF Dir
  <2>5. Untouched(w)
    BY <1>1, <2>1, <2>2 DEF Untouched
  <2>6. TypedNext
    BY <1>0, <1>1, <2>1, <2>2, <2>3, Types, FaultTyped DEF TypedNext, KeepUserData
  <2>7. ASSUME Alone PROVE Kept
    <3>1. /\ AtItsPoint(w)
          /\ Clean' => WholeFor(w)
          /\ Current' = Current
      BY <1>0, <2>1, <2>5, <2>7, BeforeStep
    <3>2. Exists(router)
      BY <1>0, <3>1, DirectoriesTyped DEF AtItsPoint
    <3>3. AtItsPoint(w)'
      BY <1>0, <1>1, <2>1, <2>2, <2>4, <3>1, <3>2 DEF AtItsPoint
    <3>4. Clean' => WholeFor(w)'
      BY <1>0, <1>1, <1>b, <2>1, <2>2, <2>4, <3>1, <3>2 DEF WholeFor
    <3> QED
      BY <1>0, <1>1, <2>1, <2>2, <2>4, <2>5, <2>7, <3>2, <3>3, <3>4, ActiveStepKeeps
      DEF Ended, Refused
  <2> QED
    BY <2>6, <2>7
<1>2. CASE /\ Fault \/ NoFault
           /\ Go(w, "undo_data") /\ UNCHANGED <<router, staged, backup>>
  <2>1. /\ worker' \in [Workers -> Workings] /\ Untouched(w)
        /\ worker'[w].at = "undo_data" /\ worker'[w].kept = worker[w].kept
    BY <1>2, GoShape DEF Places, Untouched
  <2>2. TypedNext
    BY <1>0, <1>2, <2>1, Types, FaultTyped DEF TypedNext, KeepUserData
  <2>3. ASSUME Alone PROVE Kept
    <3>1. /\ AtItsPoint(w)
          /\ Clean' => WholeFor(w)
          /\ Current' = Current
      BY <1>0, <2>1, <2>3, BeforeStep
    <3>2. AtItsPoint(w)'
      BY <1>0, <1>2, <2>1, <3>1 DEF AtItsPoint
    <3>3. Clean' => WholeFor(w)'
      BY <1>0, <1>2, <2>1, <3>1 DEF WholeFor
    <3> QED
      BY <1>0, <1>2, <2>1, <2>3, <3>2, <3>3, ActiveStepKeeps DEF Ended, Refused
  <2> QED
    BY <2>2, <2>3
<1>3. CASE Fault /\ End(w, "stranded", staged) /\ UNCHANGED <<router, backup>>
  BY <1>0, <1>3, GivesUp, Types DEF KeepUserData
<1> QED
  BY <1>a, <1>1, <1>2, <1>3

\* From "keep" on, the transaction goes on or begins its rollback.
LEMMA MovesOn ==
  ASSUME TypeOK, NEW w \in Workers,
         \/ worker[w].at = "keep" /\ worker[w].todo = {} /\ Go(w, "launch")
         \/ worker[w].at = "launch" /\ Go(w, "commit")
         \/ worker[w].at \in {"keep", "launch"} /\ Go(w, "undo_data"),
         UNCHANGED <<router, staged, backup, crashes>>, gui' \in Guis, Fault \/ NoFault
  PROVE  TypedNext /\ (Alone => Kept)
<1>0. w \in Active /\ worker[w].at \notin Ended
  BY DEF Active, Ended, Refused
<1>1. /\ worker' \in [Workers -> Workings] /\ Untouched(w)
      /\ worker'[w].kept = worker[w].kept
      /\ \/ worker[w].at = "keep" /\ worker[w].todo = {} /\ worker'[w].at = "launch"
         \/ worker[w].at = "launch" /\ worker'[w].at = "commit"
         \/ worker[w].at \in {"keep", "launch"} /\ worker'[w].at = "undo_data"
  BY GoShape DEF Places, Untouched
<1>2. TypedNext
  BY <1>1, Types, FaultTyped DEF TypedNext
<1>3. ASSUME Alone PROVE Kept
  <2>1. /\ AtItsPoint(w)
        /\ Clean' => WholeFor(w)
        /\ Current' = Current
    BY <1>0, <1>1, <1>3, BeforeStep
  <2>2. AtItsPoint(w)'
    BY <1>1, <2>1 DEF AtItsPoint
  <2>3. Clean' => WholeFor(w)'
    BY <1>1, <2>1 DEF WholeFor, AtItsPoint
  <2> QED
    BY <1>0, <1>1, <1>3, <2>2, <2>3, ActiveStepKeeps DEF Ended, Refused
<1> QED
  BY <1>2, <1>3

LEMMA CheckActivatedKeeps ==
  ASSUME TypeOK, NEW w \in Workers, CheckActivated(w)
  PROVE  TypedNext /\ (Alone => Kept)
BY MovesOn, Types DEF CheckActivated

LEMMA LaunchKeeps ==
  ASSUME TypeOK, NEW w \in Workers, Launch(w)
  PROVE  TypedNext /\ (Alone => Kept)
<1>1. gui' \in Guis
  BY Types DEF Launch, Guis
<1> QED
  BY <1>1, MovesOn DEF Launch

LEMMA CommitKeeps ==
  ASSUME TypeOK, NEW w \in Workers, Commit(w)
  PROVE  TypedNext /\ (Alone => Kept)
<1>0. /\ worker[w].at = "commit" /\ w \in Active /\ worker[w].at \notin Ended
      /\ backup \in [Workers -> Dir] /\ Missing \in Dir /\ Missing.data = {}
  BY Types, DirectoriesTyped DEF Commit, Active, Ended, Refused, Missing
<1>1. PICK place \in {"updated", "leftover"} : End(w, place, staged) /\ (Fault \/ NoFault)
  BY DEF Commit
<1>2. /\ worker' \in [Workers -> Workings] /\ Untouched(w) /\ worker'[w].at = place
      /\ staged' \in [Workers -> Dir] /\ staged'[w] \in {staged[w], Missing}
      /\ backup' \in [Workers -> Dir] /\ backup'[w] = Missing /\ router' = router
  BY <1>0, <1>1, EndShape, PutTyped, Types DEF Ended, Untouched, Commit
<1>3. TypedNext
  BY <1>1, <1>2, Types, FaultTyped DEF TypedNext, Commit
<1>4. ASSUME Alone PROVE Kept
  <2>1. /\ AtItsPoint(w)
        /\ Clean' => WholeFor(w)
        /\ Current' = "new"
    BY <1>0, <1>2, <1>4, BeforeStep
  <2>2. AtItsPoint(w)' /\ backup[w].data = {}
    BY <1>0, <1>2, <2>1 DEF AtItsPoint
  <2>3. Clean' => WholeFor(w)' /\ router'.data = UserData /\ router'.rel = Current'
    BY <1>0, <1>2, <2>1 DEF WholeFor, AtItsPoint
  <2> QED
    BY <1>0, <1>2, <1>4, <2>2, <2>3, ActiveStepKeeps
<1> QED
  BY <1>3, <1>4

LEMMA UndoDataKeeps ==
  ASSUME TypeOK, NEW w \in Workers, UndoData(w)
  PROVE  TypedNext /\ (Alone => Kept)
<1>0. /\ worker[w].at = "undo_data" /\ w \in Active /\ worker[w].at \notin Ended
      /\ router \in Dir /\ backup \in [Workers -> Dir]
      /\ worker \in [Workers -> Workings]
  BY Types DEF UndoData, Active, Ended, Refused
<1>a. PICK p \in worker[w].kept :
        \/ /\ NoFault /\ UNCHANGED staged
           /\ worker' = [worker EXCEPT ![w].kept = @ \ {p}]
           /\ IF p \in router.data
              THEN /\ router' = [router EXCEPT !.data = @ \ {p}]
                   /\ backup' = [backup EXCEPT ![w].data = @ \cup {p},
                                               ![w].rel = IF @ = "missing" THEN "none" ELSE @]
              ELSE UNCHANGED <<router, backup>>
        \/ Fault /\ End(w, "stuck", staged) /\ UNCHANGED <<router, backup>>
  BY DEF UndoData
<1>b. p \in UserData
  BY <1>0, <1>a DEF Workings
<1>1. CASE /\ NoFault /\ UNCHANGED staged
           /\ worker' = [worker EXCEPT ![w].kept = @ \ {p}]
           /\ IF p \in router.data
              THEN /\ router' = [router EXCEPT !.data = @ \ {p}]
                   /\ backup' = [backup EXCEPT ![w].data = @ \cup {p},
                                               ![w].rel = IF @ = "missing" THEN "none" ELSE @]
              ELSE UNCHANGED <<router, backup>>
  <2>1. /\ worker' \in [Workers -> Workings]
        /\ worker'[w].at = "undo_data" /\ worker'[w].kept = worker[w].kept \ {p}
        /\ \A v \in Workers : v # w => worker'[v] = worker[v]
    BY <1>0, <1>1 DEF Workings
  <2>2. CASE p \in router.data
    <3>1. /\ router' \in Dir /\ router'.data = router.data \ {p} /\ router'.rel = router.rel
      BY <1>0, <1>1, <2>2 DEF Dir
    <3>2. /\ backup' \in [Workers -> Dir] /\ backup'[w].data = backup[w].data \cup {p}
          /\ backup[w].rel # "missing" => backup'[w].rel = backup[w].rel
          /\ \A v \in Workers : v # w => backup'[v] = backup[v]
      BY <1>0, <1>1, <1>b, <2>2 DEF Dir
    <3>3. Untouched(w)
      BY <1>1, <2>1, <3>2 DEF Untouched
    <3>4. TypedNext
      BY <1>1, <2>1, <3>1, <3>2, Types, FaultTyped DEF TypedNext, UndoData
    <3>5. ASSUME Alone PROVE Kept
      <4>1. /\ AtItsPoint(w)
            /\ Clean' => WholeFor(w)
            /\ Current' = Current
        BY <1>0, <2>1, <3>3, <3>5, BeforeStep
      <4>2. AtItsPoint(w)'
        BY <1>0, <1>1, <2>1, <3>1, <4>1 DEF AtItsPoint
      <4>3. Current # "missing"
        BY DEF Current
      <4>4. Clean' => WholeFor(w)'
        BY <1>0, <1>b, <2>1, <3>1, <3>2, <4>1, <4>3 DEF WholeFor
      <4> QED
        BY <1>0, <2>1, <3>1, <3>2, <3>3, <3>5, <4>2, <4>4, ActiveStepKeeps DEF Ended, Refused
    <3> QED
      BY <3>4, <3>5
  <2>3. CASE p \notin router.data
    <3>1. UNCHANGED <<router, backup>> /\ Untouched(w)
      BY <1>1, <2>1, <2>3 DEF Untouched
    <3>2. TypedNext
      BY <1>1, <2>1, <3>1, Types, FaultTyped DEF TypedNext, UndoData
    <3>3. ASSUME Alone PROVE FALSE
      BY <1>0, <1>a, <2>3, <3>3 DEF Alone, Points, AtItsPoint
    <3> QED
      BY <3>2, <3>3
  <2> QED
    BY <2>2, <2>3
<1>2. CASE Fault /\ End(w, "stuck", staged) /\ UNCHANGED <<router, backup>>
  BY <1>0, <1>2, GivesUp, Types DEF UndoData
<1> QED
  BY <1>a, <1>1, <1>2

LEMMA UndoNewKeeps ==
  ASSUME TypeOK, NEW w \in Workers, UndoNew(w)
  PROVE  TypedNext /\ (Alone => Kept)
<1>0. /\ worker[w].at = "undo_data" /\ worker[w].kept = {} /\ w \in Active
      /\ worker[w].at \notin Ended /\ router \in Dir /\ staged \in [Workers -> Dir]
      /\ Missing \in Dir /\ Missing.data = {}
  BY Types, DirectoriesTyped DEF UndoNew, Active, Ended, Refused, Missing
<1>1. CASE /\ NoFault
           /\ staged' = [staged EXCEPT ![w] = router] /\ router' = Missing
           /\ Go(w, "undo_old")
  <2>1. /\ worker' \in [Workers -> Workings] /\ Untouched(w) /\ worker'[w].at = "undo_old"
        /\ staged' \in [Workers -> Dir] /\ staged'[w] = router /\ backup' = backup
    BY <1>0, <1>1, GoShape, PutTyped DEF Places, Untouched, UndoNew
  <2>2. TypedNext
    BY <1>0, <1>1, <2>1, Types, FaultTyped DEF TypedNext, UndoNew
  <2>3. ASSUME Alone PROVE Kept
    <3>1. /\ AtItsPoint(w)
          /\ Clean' => WholeFor(w)
          /\ Current' = Current
      BY <1>0, <2>1, <2>3, BeforeStep
    <3>2. AtItsPoint(w)' /\ router.data = {}
      BY <1>0, <1>1, <2>1, <3>1 DEF AtItsPoint
    <3>3. Clean' => WholeFor(w)'
      BY <1>0, <1>1, <2>1, <3>1, <3>2 DEF WholeFor
    <3> QED
      BY <1>0, <1>1, <2>1, <2>3, <3>2, <3>3, ActiveStepKeeps DEF Ended, Refused
  <2> QED
    BY <2>2, <2>3
<1>2. CASE (Fault \/ NoFault) /\ End(w, "stuck", staged) /\ UNCHANGED router
  BY <1>0, <1>2, GivesUp, Types DEF UndoNew
<1> QED
  BY <1>1, <1>2 DEF UndoNew

LEMMA UndoOldKeeps ==
  ASSUME TypeOK, NEW w \in Workers, UndoOld(w)
  PROVE  TypedNext /\ (Alone => Kept)
<1>0. /\ worker[w].at = "undo_old" /\ w \in Active /\ worker[w].at \notin Ended
      /\ backup \in [Workers -> Dir] /\ staged \in [Workers -> Dir]
      /\ Missing \in Dir /\ Missing.data = {}
  BY Types, DirectoriesTyped DEF UndoOld, Active, Ended, Refused, Missing
<1>1. CASE /\ CanMove(backup[w], router) /\ NoFault
           /\ router' = backup[w] /\ backup' = [backup EXCEPT ![w] = Missing]
           /\ End(w, "restored", staged)
  <2>1. /\ worker' \in [Workers -> Workings] /\ Untouched(w) /\ worker'[w].at = "restored"
        /\ staged' \in [Workers -> Dir] /\ staged'[w] \in {staged[w], Missing}
        /\ backup' \in [Workers -> Dir] /\ backup'[w] = Missing /\ router = Missing
        /\ router' \in Dir
    BY <1>0, <1>1, EndShape, PutTyped DEF Ended, Untouched, CanMove, Exists
  <2>2. TypedNext
    BY <1>0, <1>1, <2>1, Types, FaultTyped DEF TypedNext, UndoOld
  <2>3. ASSUME Alone PROVE Kept
    <3>1. /\ AtItsPoint(w)
          /\ Clean' => WholeFor(w)
          /\ Current' = Current
      BY <1>0, <2>1, <2>3, BeforeStep
    <3>2. AtItsPoint(w)'
      BY <1>0, <2>1, <3>1 DEF AtItsPoint
    <3>3. Clean' => WholeFor(w)' /\ router'.data = UserData /\ router'.rel = Current'
      BY <1>0, <1>1, <2>1, <3>1 DEF WholeFor
    <3> QED
      BY <1>0, <1>1, <2>1, <2>3, <3>2, <3>3, ActiveStepKeeps
  <2> QED
    BY <2>2, <2>3
<1>2. CASE (Fault \/ NoFault) /\ End(w, "stuck", staged) /\ UNCHANGED <<router, backup>>
  BY <1>0, <1>2, GivesUp, Types DEF UndoOld
<1> QED
  BY <1>1, <1>2 DEF UndoOld

-----------------------------------------------------------------------------
(* All steps, and the theorems. *)

LEMMA BeginsKeeps ==
  ASSUME TypeOK, NEW w \in Workers, Begins(w), Alone
  PROVE  Kept
<1>1. AtItsPoint(w)'
  BY DEF Alone, Points, AtItsPoint, Begins, New
<1> QED
  BY <1>1, EarlyStep DEF Alone, Kept, Begins

LEMMA QuietKeeps ==
  ASSUME UNCHANGED <<router, staged, backup, worker>>, Alone
  PROVE  Kept
<1>1. Points'
  BY DEF Alone, Points, AtItsPoint, Verified
<1>2. Held'
  BY DEF Alone, Held
<1>3. Clean' = Clean /\ Current' = Current /\ Active' = Active
  BY DEF Alone, Clean, Current, Active
<1>4. Whole'
  BY <1>3 DEF Alone, Whole, WholeFor
<1> QED
  BY <1>1, <1>2, <1>4 DEF Kept

LEMMA StepKeeps ==
  ASSUME TypeOK, Step
  PROVE  TypedNext /\ (Alone => Kept)
<1>1. CASE \/ CheckForUpdates \/ CheckEnds \/ DownloadEnds \/ ExtractEnds \/ RequestExit
           \/ ExitEnds \/ StartGui
           \/ UpdateEvent /\ UNCHANGED worker
  BY <1>1, GuiStepsTyped, QuietKeeps
<1>2. CASE UpdateEvent /\ worker' # worker
  BY <1>2, UpdateBegins, BeginsKeeps
<1>3. ASSUME NEW w \in Workers, StartInstaller(w)
      PROVE  TypedNext /\ (Alone => Kept)
  BY <1>3, InstallerBegins, BeginsKeeps
<1>4. ASSUME NEW w \in Workers, Transaction(w)
      PROVE  TypedNext /\ (Alone => Kept)
  BY <1>4, VerifyStagedKeeps, WaitForParentKeeps, ListUserDataKeeps, InstallFreshKeeps,
     MoveOldKeeps, ActivateKeeps, KeepUserDataKeeps, CheckActivatedKeeps, LaunchKeeps,
     CommitKeeps, UndoDataKeeps, UndoNewKeeps, UndoOldKeeps DEF Transaction
<1>5. ASSUME NEW w \in Workers, Crash(w)
      PROVE  TypedNext /\ (Alone => Kept)
  BY <1>5, CrashKeeps
<1> QED
  BY <1>1, <1>2, <1>3, <1>4, <1>5, Zenon DEF Step

\* Two transactions that are under way make the observation.
LEMMA TwoAreSeen ==
  ASSUME NEW D, IsFiniteSet(D), NEW v \in D, NEW w \in D, v # w
  PROVE  Cardinality(D) > 1
<1>1. IsFiniteSet({v}) /\ Cardinality({v}) = 1
  BY FS_Singleton
<1>2. IsFiniteSet({v} \cup {w}) /\ Cardinality({v} \cup {w}) = 2
  BY <1>1, FS_AddElement
<1>3. Cardinality({v} \cup {w}) <= Cardinality(D)
  BY FS_Subset
<1>4. Cardinality(D) \in Nat
  BY FS_CardinalityType
<1> QED
  BY <1>2, <1>3, <1>4

\* The inductive invariant: the types, and, while no two transactions have been under way
\* at a time, what each worker has before it and where the user's data is; updater.rs
\* keeps no record of its own, so the directories are all that a rollback can go by.
THEOREM UpdaterInvariant == Spec => []IInv
<1>1. Init => IInv
  <2> SUFFICES ASSUME Init PROVE IInv
    OBVIOUS
  <2>1. TypeOK
    <3>1. gui \in Guis
      BY DEF Init, Guis
    <3>2. router \in Dir
      BY DEF Init, Dir
    <3>3. staged \in [Workers -> Dir] /\ backup \in [Workers -> Dir]
      BY DirectoriesTyped DEF Init
    <3>4. worker \in [Workers -> Workings]
      BY DEF Init, Workings, Kinds, Places
    <3>5. faults \in 0 .. MaxFaults /\ crashes \in 0 .. MaxCrashes
      BY UpdaterAssumption DEF Init
    <3>6. overlapped \in BOOLEAN
      BY DEF Init
    <3> QED
      BY <3>1, <3>2, <3>3, <3>4, <3>5, <3>6 DEF TypeOK, Guis, Workings
  <2>2. /\ router.rel = "old" /\ router.data = UserData
        /\ \A w \in Workers : /\ worker[w].at = "idle" /\ worker[w].kept = {}
                              /\ staged[w].data = {}
    BY DEF Init, Missing
  <2>3. Active = {}
    BY <2>2 DEF Active
  <2>4. Points
    BY <2>2 DEF Points, AtItsPoint
  <2>5. Held
    BY <2>2 DEF Held
  <2>6. Whole
    BY <2>2 DEF Whole, WholeFor, Current
  <2> QED
    BY <2>1, <2>3, <2>4, <2>5, <2>6 DEF IInv, OneActive
<1>2. IInv /\ [Next]_vars => IInv'
  <2> SUFFICES ASSUME IInv, [Next]_vars PROVE IInv'
    OBVIOUS
  <2>0. TypeOK
    BY DEF IInv
  <2>1. CASE Next
    <3>1. TypedNext /\ (Alone => Kept) /\ overlapped' = (overlapped \/ Cardinality(Active') > 1)
      BY <2>0, <2>1, StepKeeps DEF Next
    <3>2. overlapped' \in BOOLEAN
      BY <3>1
    <3>3. TypeOK'
      BY <3>1, <3>2, Types DEF TypedNext
    <3>4. OneActive'
      <4>1. IsFiniteSet(Active')
        BY UpdaterAssumption, FS_Subset DEF Active
      <4> QED
        BY <3>1, <4>1, TwoAreSeen DEF OneActive
    <3>5. CASE overlapped'
      BY <3>3, <3>4, <3>5 DEF IInv, Points, Held, Whole, Clean
    <3>6. CASE ~overlapped'
      <4>1. ~overlapped
        BY <3>1, <3>6
      <4> QED
        BY <3>1, <3>3, <3>4, <3>6, <4>1 DEF IInv, Alone, Kept
    <3> QED
      BY <3>5, <3>6
  <2>2. CASE UNCHANGED vars
    BY <2>2 DEF vars, IInv, TypeOK, OneActive, Points, Held, Whole, Clean, Current, Active,
       AtItsPoint, WholeFor, Verified
  <2> QED
    BY <2>1, <2>2
<1> QED
  BY <1>1, <1>2, PTL DEF Spec

\* UserDataIsSomewhere for every installation: whatever file operation fails and whoever
\* dies, no path of the user leaves the directories, unless two transactions overlapped.
THEOREM DataIsSomewhere == Spec => []UserDataIsSomewhere
<1>1. IInv => UserDataIsSomewhere
  <2> SUFFICES ASSUME IInv, ~overlapped, NEW p \in UserData
               PROVE  \E d \in Copies : p \in d.data
    BY DEF UserDataIsSomewhere
  <2>1. p \in router.data \/ \E w \in Workers : p \in backup[w].data
    BY DEF IInv, Held
  <2>2. router \in Copies /\ \A w \in Workers : backup[w] \in Copies
    BY DEF Copies
  <2> QED
    BY <2>1, <2>2
<1> QED
  BY <1>1, UpdaterInvariant, PTL

\* SettledIsWhole for every installation: when all transactions have ended, and none died,
\* got stuck or lost its way, there is one verified release with all the user's data.
THEOREM Settled == Spec => []SettledIsWhole
<1>1. IInv => SettledIsWhole
  <2> SUFFICES ASSUME IInv, ~overlapped,
                      \A w \in Workers : worker[w].at \in
                        {"idle", "updated", "leftover", "restored", Refused}
               PROVE  router.data = UserData /\ router.rel = Current
    BY DEF SettledIsWhole, Current
  <2>1. Active = {} /\ Clean
    BY DEF Active, Clean, Ended, Refused
  <2> QED
    BY <2>1 DEF IInv, Whole
<1> QED
  BY <1>1, UpdaterInvariant, PTL
=============================================================================
