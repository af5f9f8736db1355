------------------------------ MODULE Updater ------------------------------
(***************************************************************************)
(* updater.rs: how a new release gets into the installation directory.     *)
(* The GUI checks, downloads and stages; a detached helper (or the         *)
(* portable installer) then swaps directories by renaming them.  Nothing   *)
(* locks the installation, every file operation may fail, and whoever      *)
(* works on it may die between two of them.                                *)
(***************************************************************************)
EXTENDS Naturals, FiniteSets

CONSTANTS
    UserData,      \* top-level paths of the installation no manifest names
    Workers,       \* transactions that may be started: 1..n
    MaxFaults,     \* bound: file operations that fail for no structural reason
    MaxCrashes     \* bound: deaths of a worker in mid-transaction

ASSUME UpdaterAssumption ==
    /\ Workers \subseteq Nat /\ IsFiniteSet(Workers)
    /\ MaxFaults \in Nat /\ MaxCrashes \in Nat

VARIABLES
    gui,           \* the GUI: process, busy flag, what its thread does or has sent
    router,        \* the installation directory
    staged,        \* each worker's staged release
    backup,        \* each worker's rollback directory
    worker,        \* each worker's kind, place, and paths to keep and kept
    faults, crashes,
    overlapped     \* observation: two transactions were under way at a time

vars == <<gui, router, staged, backup, worker, faults, crashes, overlapped>>

\* A directory: which release's managed files it holds, and which user data.
Missing == [rel |-> "missing", data |-> {}]
Bare    == [rel |-> "none", data |-> {}]
Dir     == [rel : {"missing", "none", "old", "new"}, data : SUBSET UserData]
Exists(d)   == d # Missing
Verified(d) == d.rel \in {"old", "new"}     \* verify_release_root

Kinds   == {"none", "update", "install"}
Refused == "refused"
Ended   == {"updated", "restored", "leftover", "stranded", "stuck", "dead", Refused}
Places  == Ended \cup {"idle", "verify", "wait", "begin", "move", "activate", "keep",
                       "check", "launch", "commit", "undo_data", "undo_new", "undo_old"}

TypeOK ==
    /\ gui \in [proc : {"open", "exiting", "gone"}, busy : {"no", "checking", "downloading"},
                job : {"none", "check", "found", "download", "extract", "ready", "error"}]
    /\ router \in Dir /\ staged \in [Workers -> Dir] /\ backup \in [Workers -> Dir]
    /\ worker \in [Workers -> [kind : Kinds, at : Places, todo : SUBSET UserData,
                               kept : SUBSET UserData]]
    /\ faults \in 0 .. MaxFaults /\ crashes \in 0 .. MaxCrashes /\ overlapped \in BOOLEAN

Init ==
    /\ gui = [proc |-> "open", busy |-> "no", job |-> "none"]
    /\ router = [rel |-> "old", data |-> UserData]
    /\ staged = [w \in Workers |-> Missing]
    /\ backup = [w \in Workers |-> Missing]
    /\ worker = [w \in Workers |-> [kind |-> "none", at |-> "idle", todo |-> {}, kept |-> {}]]
    /\ faults = 0 /\ crashes = 0 /\ overlapped = FALSE

Go(w, at) == worker' = [worker EXCEPT ![w].at = at]
Free(w)   == worker[w].at = "idle" /\ \A v \in Workers : v < w => worker[v].at # "idle"
Fault     == faults < MaxFaults /\ faults' = faults + 1
NoFault   == UNCHANGED faults
Gui(r)    == gui' = r /\ UNCHANGED <<router, staged, backup, worker, crashes>>

-----------------------------------------------------------------------------
(* The GUI: one check or download at a time, and then a helper and an exit. *)

CheckForUpdates ==
    /\ gui.proc = "open" /\ gui.busy = "no" /\ gui.job = "none"
    /\ Gui([gui EXCEPT !.busy = "checking", !.job = "check"]) /\ NoFault

CheckEnds ==
    /\ gui.job = "check"
    /\ \/ Gui([gui EXCEPT !.job = "found"]) /\ NoFault
       \/ Gui([gui EXCEPT !.job = "error"]) /\ Fault

\* download_and_stage_update tries every mirror in turn, until a payload has the
\* declared size and digest.
DownloadEnds ==
    /\ gui.job = "download"
    /\ \/ Gui([gui EXCEPT !.job = "extract"]) /\ NoFault
       \/ Gui([gui EXCEPT !.job = "error"]) /\ Fault

\* extract_and_verify_archive unpacks beside the installation and verifies the tree.
ExtractEnds ==
    /\ gui.job = "extract"
    /\ \/ Gui([gui EXCEPT !.job = "ready"]) /\ NoFault
       \/ Gui([gui EXCEPT !.job = "error"]) /\ Fault

\* AppEvent::UpdateResult and UpdateError; while an exit is under way events are
\* thrown away, and the busy flag stays as it is.
UpdateEvent ==
    /\ gui.job \in {"found", "ready", "error"} /\ gui.proc # "gone" /\ NoFault
    /\ CASE gui.proc = "exiting" -> Gui([gui EXCEPT !.job = "none"])
         [] gui.proc = "open" /\ gui.job = "found" ->
                Gui([gui EXCEPT !.busy = "downloading", !.job = "download"])
         [] gui.proc = "open" /\ gui.job = "error" ->
                Gui([gui EXCEPT !.busy = "no", !.job = "none"])
         [] OTHER -> \E w \in Workers :
                /\ Free(w)
                /\ gui' = [proc |-> "exiting", busy |-> "no", job |-> "none"]
                /\ staged' = [staged EXCEPT ![w] = [rel |-> "new", data |-> {}]]
                /\ worker' = [worker EXCEPT ![w].kind = "update", ![w].at = "verify"]
                /\ UNCHANGED <<router, backup, crashes>>

RequestExit == gui.proc = "open" /\ Gui([gui EXCEPT !.proc = "exiting"]) /\ NoFault

\* ExitShutdownFinished: the process ends, or stays when the services would not stop.
ExitEnds ==
    /\ gui.proc = "exiting"
    /\ \/ Gui([proc |-> "gone", busy |-> "no", job |-> "none"]) /\ NoFault
       \/ Gui([gui EXCEPT !.proc = "open"]) /\ Fault

\* The user starts the installed program.
StartGui ==
    /\ gui.proc = "gone" /\ Verified(router)
    /\ Gui([proc |-> "open", busy |-> "no", job |-> "none"]) /\ NoFault

-----------------------------------------------------------------------------
(* The transaction, by the helper and by the portable installer.            *)

\* install_portable_archive has extracted and verified its own ZIP.
StartInstaller(w) ==
    /\ Free(w) /\ NoFault
    /\ staged' = [staged EXCEPT ![w] = [rel |-> "new", data |-> {}]]
    /\ worker' = [worker EXCEPT ![w].kind = "install", ![w].at = "begin"]
    /\ UNCHANGED <<gui, router, backup, crashes>>

\* The installer removes what it staged when it failed; the helper leaves it.
End(w, at, s) ==
    /\ Go(w, at)
    /\ staged' = IF worker[w].kind = "install" /\ at # "updated"
                 THEN [s EXCEPT ![w] = Missing] ELSE s

VerifyStaged(w) ==
    /\ worker[w].at = "verify"
    /\ \/ Go(w, "wait") /\ UNCHANGED staged /\ NoFault
       \/ End(w, Refused, staged) /\ Fault
    /\ UNCHANGED <<gui, router, backup, crashes>>

\* wait_for_process_exit: the parent is gone, or five minutes have passed.
WaitForParent(w) ==
    /\ worker[w].at = "wait" /\ NoFault
    /\ \/ gui.proc = "gone" /\ Go(w, "begin") /\ UNCHANGED staged
       \/ gui.proc # "gone" /\ End(w, Refused, staged)
    /\ UNCHANGED <<gui, router, backup, crashes>>

\* begin_update_transaction verifies both trees and lists what no manifest names; it
\* refuses (a fault) also when the new release would manage one of those paths.
ListUserData(w) ==
    /\ worker[w].at = "begin"
    /\ \/ /\ Verified(router) /\ Verified(staged[w])
          /\ worker' = [worker EXCEPT ![w].at = "move", ![w].todo = router.data]
          /\ UNCHANGED staged /\ NoFault
       \/ /\ Exists(router) \/ worker[w].kind = "update"
          /\ ~Verified(router) /\ End(w, Refused, staged) /\ NoFault
       \/ Exists(router) /\ End(w, Refused, staged) /\ Fault
    /\ UNCHANGED <<gui, router, backup, crashes>>

\* A fresh installation: one rename and the shortcuts, undone if they fail.
InstallFresh(w) ==
    /\ worker[w].at = "begin" /\ worker[w].kind = "install" /\ ~Exists(router)
    /\ \/ /\ router' = staged[w] /\ NoFault
          /\ End(w, "updated", [staged EXCEPT ![w] = Missing])
       \/ Fault /\ End(w, Refused, staged) /\ UNCHANGED router
    /\ UNCHANGED <<gui, backup, crashes>>

\* Windows does not rename a directory that a program runs from, nor onto another.
CanMove(src, dst) == Exists(src) /\ ~Exists(dst)

MoveOld(w) ==
    /\ worker[w].at = "move"
    /\ \/ /\ gui.proc = "gone" /\ CanMove(router, backup[w]) /\ NoFault
          /\ backup' = [backup EXCEPT ![w] = router] /\ router' = Missing
          /\ Go(w, "activate") /\ UNCHANGED staged
       \/ /\ IF gui.proc = "gone" /\ CanMove(router, backup[w]) THEN Fault ELSE NoFault
          /\ End(w, Refused, staged) /\ UNCHANGED <<router, backup>>
    /\ UNCHANGED <<gui, crashes>>

\* When the new release cannot be moved in, the old one is moved back, if it can be.
Activate(w) ==
    /\ worker[w].at = "activate"
    /\ \/ /\ CanMove(staged[w], router) /\ NoFault
          /\ router' = staged[w] /\ staged' = [staged EXCEPT ![w] = Missing]
          /\ Go(w, "keep") /\ UNCHANGED backup
       \/ /\ IF CanMove(staged[w], router) THEN Fault ELSE NoFault
          /\ IF CanMove(backup[w], router)
             THEN /\ router' = backup[w] /\ backup' = [backup EXCEPT ![w] = Missing]
                  /\ End(w, "restored", staged)
             ELSE End(w, "stuck", staged) /\ UNCHANGED <<router, backup>>
    /\ UNCHANGED <<gui, crashes>>

\* One preserved path moves over.  Its parent directory is created first; when
\* that fails the transaction is left as it is, when the rename fails it is undone.
KeepUserData(w) ==
    /\ worker[w].at = "keep"
    /\ \E p \in worker[w].todo :
        \/ /\ p \in backup[w].data /\ NoFault /\ UNCHANGED staged
           /\ LET r == IF Exists(router) THEN router ELSE Bare
              IN  router' = [r EXCEPT !.data = @ \cup {p}]
           /\ backup' = [backup EXCEPT ![w].data = @ \ {p}]
           /\ worker' = [worker EXCEPT ![w].todo = @ \ {p}, ![w].kept = @ \cup {p}]
        \/ /\ IF p \in backup[w].data THEN Fault ELSE NoFault
           /\ Go(w, "undo_data") /\ UNCHANGED <<router, staged, backup>>
        \/ Fault /\ End(w, "stranded", staged) /\ UNCHANGED <<router, backup>>
    /\ UNCHANGED <<gui, crashes>>

\* A slip for the sensitivity check: it goes on before every path has been moved.
CheckTooEarly(w) ==
    /\ worker[w].at = "keep" /\ Verified(router) /\ Go(w, "launch") /\ NoFault
    /\ UNCHANGED <<gui, router, staged, backup, crashes>>

CheckActivated(w) ==
    /\ worker[w].at = "keep" /\ worker[w].todo = {}
    /\ \/ Verified(router) /\ Go(w, "launch") /\ NoFault
       \/ ~Verified(router) /\ Go(w, "undo_data") /\ NoFault
       \/ Fault /\ Go(w, "undo_data")
    /\ UNCHANGED <<gui, router, staged, backup, crashes>>

\* launch_updated_app (the helper) or create_shortcuts (the installer).
Launch(w) ==
    /\ worker[w].at = "launch"
    /\ \/ /\ Verified(router) /\ Go(w, "commit") /\ NoFault
          /\ gui' = IF worker[w].kind = "install" THEN gui
                    ELSE [proc |-> "open", busy |-> "no", job |-> "none"]
       \/ /\ IF Verified(router) THEN Fault ELSE NoFault
          /\ Go(w, "undo_data") /\ UNCHANGED gui
    /\ UNCHANGED <<router, staged, backup, crashes>>

\* commit deletes the rollback directory, with whatever is still in it.
Commit(w) ==
    /\ worker[w].at = "commit"
    /\ backup' = [backup EXCEPT ![w] = Missing]
    /\ \/ End(w, "updated", staged) /\ NoFault
       \/ End(w, "leftover", staged) /\ Fault
    /\ UNCHANGED <<gui, router, crashes>>

-----------------------------------------------------------------------------
(* AppliedUpdate::rollback.                                                 *)

\* A slip for the sensitivity check: the new release goes back with the user's data.
UndoDataLater(w) ==
    /\ worker[w].at = "undo_data" /\ worker[w].kept # {} /\ gui.proc = "gone" /\ NoFault
    /\ worker' = [worker EXCEPT ![w].kept = {}]
    /\ UNCHANGED <<gui, router, staged, backup, crashes>>

UndoData(w) ==
    /\ worker[w].at = "undo_data" /\ worker[w].kept # {}
    /\ \E p \in worker[w].kept :
        \/ /\ NoFault /\ UNCHANGED staged
           /\ worker' = [worker EXCEPT ![w].kept = @ \ {p}]
           /\ IF p \in router.data
              THEN /\ router' = [router EXCEPT !.data = @ \ {p}]
                   /\ backup' = [backup EXCEPT ![w].data = @ \cup {p},
                                               ![w].rel = IF @ = "missing" THEN "none" ELSE @]
              ELSE UNCHANGED <<router, backup>>
        \/ Fault /\ End(w, "stuck", staged) /\ UNCHANGED <<router, backup>>
    /\ UNCHANGED <<gui, crashes>>

UndoNew(w) ==
    /\ worker[w].at = "undo_data" /\ worker[w].kept = {}
    /\ \/ /\ gui.proc = "gone" /\ CanMove(router, staged[w]) /\ NoFault
          /\ staged' = [staged EXCEPT ![w] = router] /\ router' = Missing
          /\ Go(w, "undo_old")
       \/ /\ IF gui.proc = "gone" /\ CanMove(router, staged[w]) THEN Fault ELSE NoFault
          /\ End(w, "stuck", staged) /\ UNCHANGED router
    /\ UNCHANGED <<gui, backup, crashes>>

UndoOld(w) ==
    /\ worker[w].at = "undo_old"
    /\ \/ /\ CanMove(backup[w], router) /\ NoFault
          /\ router' = backup[w] /\ backup' = [backup EXCEPT ![w] = Missing]
          /\ End(w, "restored", staged)
       \/ /\ IF CanMove(backup[w], router) THEN Fault ELSE NoFault
          /\ End(w, "stuck", staged) /\ UNCHANGED <<router, backup>>
    /\ UNCHANGED <<gui, crashes>>

Crash(w) ==
    /\ worker[w].at \notin Ended \cup {"idle"}
    /\ crashes < MaxCrashes /\ crashes' = crashes + 1
    /\ Go(w, "dead") /\ UNCHANGED <<gui, router, staged, backup, faults>>

Transaction(w) ==
    \/ VerifyStaged(w) \/ WaitForParent(w) \/ ListUserData(w) \/ InstallFresh(w)
    \/ MoveOld(w) \/ Activate(w) \/ KeepUserData(w) \/ CheckActivated(w) \/ Launch(w)
    \/ Commit(w) \/ UndoData(w) \/ UndoNew(w) \/ UndoOld(w)

Step ==
    \/ CheckForUpdates \/ CheckEnds \/ DownloadEnds \/ ExtractEnds \/ UpdateEvent
    \/ RequestExit \/ ExitEnds \/ StartGui
    \/ \E w \in Workers : StartInstaller(w) \/ Transaction(w) \/ Crash(w)

Active == {w \in Workers : worker[w].at \notin Ended \cup {"idle", "verify", "wait", "begin"}}
Next == Step /\ overlapped' = (overlapped \/ Cardinality(Active') > 1)

Spec == Init /\ [][Next]_vars

-----------------------------------------------------------------------------
Copies == {router} \cup {backup[w] : w \in Workers} \cup {staged[w] : w \in Workers}

\* User data is moved, never copied, and commit deletes a whole directory: whatever
\* fails or dies, each path is still in some directory, unless two transactions,
\* which nothing keeps apart, have worked on the installation at the same time.
UserDataIsSomewhere ==
    overlapped \/ \A p \in UserData : \E d \in Copies : p \in d.data

\* When every transaction has ended, none of them died, reported that its rollback
\* failed or lost its way between two paths, the installation is whole: one verified
\* release, the new one exactly if a transaction said so, with all the user's data.
SettledIsWhole ==
    /\ ~overlapped
    /\ \A w \in Workers : worker[w].at \in {"idle", "updated", "leftover", "restored", Refused}
    => /\ router.data = UserData
       /\ router.rel = IF \E w \in Workers : worker[w].at \in {"updated", "leftover"}
                       THEN "new" ELSE "old"
=============================================================================
