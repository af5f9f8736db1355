----------------------------- MODULE CodexConfig -----------------------------
(***************************************************************************)
(* What the program does to Codex's own files: config.toml of the user, the  *)
(* system layer beneath it and auth.json.  Every change starts from the file  *)
(* as it is, so that what the user set survives; routes are taken from a      *)
(* snapshot (the original, a restore point, a profile) or generated.          *)
(*                                                                          *)
(* A configuration is reduced to what the operations treat differently: the   *)
(* route keys, the Router's provider block, the user's own provider block,    *)
(* and a version of everything else.  An absent file is the empty one.  A     *)
(* login of ChatGPT is its refresh token, numbered in the order of rotation.  *)
(* An operation is one step: Codex does not write its files in the middle.    *)
(***************************************************************************)
EXTENDS Naturals, Sequences, SequencesExt

CONSTANTS MaxEdits,   \* what the user and Codex change
          MaxOps,     \* operations of the program
          MaxRoots    \* installations with a data root of their own

VARIABLES file,      \* config.toml of the user
          system,    \* the system layer: none, router, foreign
          auth,      \* auth.json
          issued,    \* the newest refresh token
          bak,       \* the oldest config.toml.codex-router-*.bak
          root,      \* the data root: catalog, original, restore points, profile
          off,       \* the last operation was to take Codex off the Router
          edits, ops, roots
vars == <<file, system, auth, issued, bak, root, off, edits, ops, roots>>

Empty == [route |-> "none", block |-> FALSE, own |-> FALSE, settings |-> 0]
NoAuth == [kind |-> "none", token |-> 0]
Key == [kind |-> "key", token |-> 0]
Login(n) == [kind |-> "chatgpt", token |-> n]
ValidChatGpt(a) == a.kind = "chatgpt"
NoSnapshot == [from |-> "nothing", config |-> Empty, auth |-> NoAuth]
FreshRoot == [catalog |-> FALSE, original |-> NoSnapshot, points |-> <<>>, profile |-> NoSnapshot]
KeptPoints == 3

Init ==
    /\ file \in {Empty, [Empty EXCEPT !.settings = 1],
                 [route |-> "other", block |-> FALSE, own |-> TRUE, settings |-> 1]}
    /\ system \in {"none", "foreign"} /\ auth \in {NoAuth, Key, Login(1)}
    /\ issued = 1 /\ bak = NoSnapshot /\ root = FreshRoot /\ off = FALSE
    /\ edits = 0 /\ ops = 0 /\ roots = 0

-----------------------------------------------------------------------------
(* Operators on configurations. *)

\* codex_config_uses_router.
UsesRouter(c) == c.route = "router" /\ c.block

Generate(c) == [c EXCEPT !.route = "router", !.block = TRUE]

\* A slip for the sensitivity check: everything is taken from the snapshot.
MergeAll(current, target) == target

\* merge_codex_route_config: the route of the target with its provider, on top of
\* what the user has now.  A block that no route of the current file names stays.
Merge(current, target) ==
    [ route |-> target.route,
      block |-> \/ current.block /\ current.route # "router"
                \/ target.route = "router" /\ target.block,
      own |-> current.own \/ (target.route = "other" /\ target.own),
      settings |-> current.settings ]

\* sanitize_router_config; with a dormant block it takes a route of the user's own too.
Sanitize(c) == IF c.route = "router" \/ c.block THEN [c EXCEPT !.route = "none", !.block = FALSE] ELSE c

\* preserve_router_provider_for_history: conversations held through the Router name
\* its provider and open only where it is defined.
Preserve(r, c) == IF r.catalog /\ c.route # "router" /\ ~c.block THEN [c EXCEPT !.block = TRUE] ELSE c

Snapshot(from, c, a) == [from |-> from, config |-> c, auth |-> a]

\* A slip for the sensitivity check: the file is taken as it is.
WithBoundOriginal(r) ==
    IF r.original # NoSnapshot THEN r ELSE [r EXCEPT !.original = Snapshot("current", file, auth)]

\* ensure_original_codex_snapshot, once per data root: the oldest backup, as it is,
\* or the current file without the Router.
WithOriginal(r) ==
    IF r.original # NoSnapshot THEN r
    ELSE [r EXCEPT !.original = IF bak # NoSnapshot THEN Snapshot("backup", bak.config, auth)
                                ELSE Snapshot("current", Sanitize(file), auth)]

\* capture_restore_point and prune_restore_points.
WithPoint(r) ==
    [r EXCEPT !.points = LET all == Append(@, Snapshot("point", file, auth))
                         IN SubSeq(all, IF Len(all) > KeptPoints THEN 2 ELSE 1, Len(all))]

-----------------------------------------------------------------------------
(* Restoring a snapshot. *)

RestoredConfig(r, s, c) == Preserve(r, IF c = Empty THEN s.config ELSE Merge(c, s.config))

\* A slip for the sensitivity check: the snapshot's login replaces the current one.
RestoredLogin(s, share, recover, a) == IF share THEN a ELSE s.auth

\* restore_full_state keeps a valid login and otherwise takes the snapshot's, be it
\* none; restore_state with a shared state fills in a missing one.
RestoredAuth(s, share, recover, a) ==
    IF share THEN IF recover /\ a = NoAuth /\ ValidChatGpt(s.auth) THEN s.auth ELSE a
    ELSE IF ValidChatGpt(a) THEN a ELSE s.auth

\* A failing second write takes the first one back, so a failure changes nothing.
Restore(r, s, share, recover) ==
    /\ file' = RestoredConfig(r, s, file)
    /\ auth' = RestoredAuth(s, share, recover, auth)

\* write_codex_router_config keeps what it replaces, when there is anything to
\* replace and the new text differs (of two bound files it may).
KeepBackup(c) ==
    \/ bak = NoSnapshot /\ c # Empty /\ bak' = Snapshot("backup", c, NoAuth)
    \/ (bak # NoSnapshot \/ c = Empty \/ UsesRouter(c)) /\ UNCHANGED bak

Operation == ops < MaxOps /\ ops' = ops + 1 /\ UNCHANGED <<issued, edits, roots>>

\* deploy_router_config: the catalog first, then both layers; a system layer that
\* belongs to someone else ends it after the user layer was written, and the apply
\* goes back to its restore point.
Apply ==
    /\ Operation /\ off' = FALSE
    /\ LET r == [WithPoint(WithOriginal(root)) EXCEPT !.catalog = TRUE] IN
       /\ KeepBackup(file)
       /\ \/ /\ system # "foreign" /\ system' = "router" /\ root' = r
             /\ file' = Generate(file) /\ UNCHANGED auth
          \/ /\ UNCHANGED system /\ root' = r
             /\ \E share \in BOOLEAN :
                 /\ file' = RestoredConfig(r, Last(r.points), Generate(file))
                 /\ auth' = RestoredAuth(Last(r.points), share, FALSE, auth)

\* apply_isolation_profile: the profile's route, then the deployment binds it.
SwitchProfile ==
    /\ Operation /\ off' = FALSE /\ root.profile # NoSnapshot /\ system # "foreign"
    /\ \E share \in BOOLEAN :
        LET r == WithPoint(root)
            c == RestoredConfig(r, r.profile, file)
            a == RestoredAuth(r.profile, share, FALSE, auth) IN
        /\ KeepBackup(c)
        /\ file' = Generate(c) /\ auth' = a /\ system' = "router"
        /\ root' = [r EXCEPT !.catalog = TRUE, !.original =
             IF @ # NoSnapshot THEN @
             ELSE IF bak # NoSnapshot THEN Snapshot("backup", bak.config, a)
             ELSE Snapshot("current", Sanitize(c), a)]

\* restore_previous_codex: the newest point; its configuration is deployed again
\* when it has models.
RestorePrevious ==
    /\ Operation /\ off' = FALSE /\ root.points # <<>>
    /\ \E share \in BOOLEAN, models \in BOOLEAN :
        LET s == Last(root.points)
            r == WithPoint(root)
            c == RestoredConfig(r, s, file) IN
        /\ models => system # "foreign"
        /\ root' = IF models THEN [r EXCEPT !.catalog = TRUE] ELSE r
        /\ auth' = RestoredAuth(s, share, FALSE, auth)
        /\ IF models THEN KeepBackup(c) /\ file' = Generate(c) /\ system' = "router"
           ELSE file' = c /\ UNCHANGED <<bak, system>>

\* disable_router_mode: the original, and no system layer.
DisableRouterMode ==
    /\ Operation /\ off' = TRUE
    /\ LET r == WithOriginal(root) IN
       /\ root' = r
       /\ \E share \in BOOLEAN : Restore(r, r.original, share, TRUE)
    /\ system' = IF system = "router" THEN "none" ELSE system
    /\ UNCHANGED bak

\* restore_original_codex with the control of the advanced page: a point before.
RestoreOriginal ==
    /\ Operation /\ off' = TRUE
    /\ LET r == WithOriginal(WithPoint(root)) IN
       /\ root' = r
       /\ \E share \in BOOLEAN : Restore(r, r.original, share, TRUE)
    /\ system' = IF system = "router" THEN "none" ELSE system
    /\ UNCHANGED bak

\* The exit restores only what is bound, and leaves or writes the system layer.
Exit ==
    /\ Operation /\ root.catalog /\ off' = TRUE
    /\ IF UsesRouter(file)
       THEN LET r == WithOriginal(root) IN
            /\ root' = r
            /\ \E share \in BOOLEAN : Restore(r, r.original, share, TRUE)
       ELSE UNCHANGED <<root, file, auth>>
    /\ system' \in IF system = "foreign" THEN {"foreign"} ELSE {system, "router"}
    /\ UNCHANGED bak

\* initialize_codex_defaults: what the Router added goes, the login stays.
RestoreFactory ==
    /\ Operation /\ off' = TRUE
    /\ root' = WithPoint(root)
    /\ file' = Preserve(root, Sanitize(file))
    /\ system' = IF system = "router" THEN "none" ELSE system
    /\ UNCHANGED <<auth, bak>>

\* repair_codex_router_binding, asked for on the command line: no snapshot and no
\* lock; the system layer only if it can be had.
RepairBinding ==
    /\ Operation /\ off' = FALSE
    /\ root' = [root EXCEPT !.catalog = TRUE] /\ KeepBackup(file) /\ file' = Generate(file)
    /\ system' = IF system = "foreign" THEN system ELSE "router"
    /\ UNCHANGED auth

\* create_profile and update_profile_state capture the current state.
SaveProfile ==
    /\ Operation /\ root' = [root EXCEPT !.profile = Snapshot("profile", file, auth)]
    /\ UNCHANGED <<file, system, auth, bak, off>>
DeleteProfile ==
    /\ Operation /\ root.profile # NoSnapshot /\ root' = [root EXCEPT !.profile = NoSnapshot]
    /\ UNCHANGED <<file, system, auth, bak, off>>

\* The program is installed anew, elsewhere or without its data.
NewDataRoot ==
    /\ roots < MaxRoots /\ roots' = roots + 1 /\ root' = FreshRoot /\ off' = FALSE
    /\ UNCHANGED <<file, system, auth, issued, bak, edits, ops>>

-----------------------------------------------------------------------------
(* The user and Codex. *)

Edit == edits < MaxEdits /\ edits' = edits + 1 /\ off' = FALSE /\ UNCHANGED <<system, bak, root, ops, roots>>

ChangeSettings ==
    Edit /\ file' = [file EXCEPT !.settings = @ + 1] /\ UNCHANGED <<auth, issued>>
ChooseOwnProvider ==
    Edit /\ file' = [file EXCEPT !.route = "other", !.own = TRUE] /\ UNCHANGED <<auth, issued>>
\* Codex Desktop rewrites the file without the keys of the Router.
DesktopStrips ==
    /\ Edit /\ UsesRouter(file) /\ file' = [file EXCEPT !.route = "none", !.block = FALSE]
    /\ UNCHANGED <<auth, issued>>
LogIn ==
    Edit /\ auth' = Login(issued + 1) /\ issued' = issued + 1 /\ UNCHANGED file
LogOut ==
    Edit /\ auth' \in {NoAuth, Key} \ {auth} /\ UNCHANGED <<file, issued>>

Next ==
    \/ Apply \/ SwitchProfile \/ RestorePrevious \/ DisableRouterMode \/ RestoreOriginal \/ Exit
    \/ RestoreFactory \/ RepairBinding \/ SaveProfile \/ DeleteProfile \/ NewDataRoot
    \/ ChangeSettings \/ ChooseOwnProvider \/ DesktopStrips \/ LogIn \/ LogOut
Spec == Init /\ [][Next]_vars

-----------------------------------------------------------------------------
\* What is restored is the route: no operation takes the user's settings or own
\* provider away.  (An absent file is filled from the snapshot.)
SettingsKept ==
    file # Empty => file'.settings = file.settings /\ (file.own => file'.own)

\* Codex finds the provider its route names, and the one its conversations name once
\* the Router has served (or Codex has taken it out itself).
ProviderDefined ==
    /\ file'.route = "router" => file'.block
    /\ file'.route = "other" => file'.own
    /\ off' /\ root'.catalog /\ file' # file => file'.block

\* Whatever operation came last, Codex starts as its user has set it up and opens
\* the conversations that it has held through the Router.
CodexKeepsWorking == [][ ops' # ops => SettingsKept /\ ProviderDefined ]_vars

\* No operation replaces a login that is there, as the comment in restore_full_state
\* demands: a token of a snapshot has been rotated out since.
LoginSurvives == [][ ops' # ops /\ ValidChatGpt(auth) => auth' = auth ]_vars

\* Taken off the Router, Codex's own file is not bound to it, unless the original is
\* the backup of an earlier installation, which may have been.
OffIsOff == off /\ root.original.from # "backup" => ~UsesRouter(file)

\* Codex is never handed a refresh token that has been rotated out since (stated by
\* the comment in recover_missing_chatgpt_auth).
NoStaleLogin == ValidChatGpt(auth) => auth.token = issued
=============================================================================
