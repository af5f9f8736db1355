------------------------------- MODULE Logins -------------------------------
(***************************************************************************)
(* Logins of OAuth accounts: the desktop's flow (logic/oauth.rs), the Host's *)
(* half of it (control_plane/http_compat.rs), and the accounts and credential *)
(* files they leave.  CLIProxyAPI signs in to OpenAI, Anthropic and Gemini    *)
(* and writes the file; for Grok and Antigravity the Host exchanges the code  *)
(* itself.  Files without an account are imported when accounts are listed.   *)
(*                                                                          *)
(* A file is named after the identity in it and a variant (a plan, a         *)
(* project); its time stands for its modification time.                      *)
(***************************************************************************)
EXTENDS Naturals, Sequences, FiniteSets, FiniteSetsExt, TLC

CONSTANTS Identities, Variants, Slots,  \* Slots: logins and imports at a time
          MaxSignIns, MaxDeletes, MaxFaults, Nobody

VARIABLES platform,  \* "cli": identities are not seen by the desktop (OpenAI);
                     \* "seen": they are (Gemini); "direct": Grok, Antigravity
          rows,      \* the accounts table, tombstones included
          files,     \* the credential files and their times
          logins,    \* one per slot
          deletes,   \* delete requests under way
          clock, deleted, faults,
          known,     \* signed in since the identity's account was last deleted
          excused    \* identities of which two operations overlapped, or one was
                     \* not finished
vars == <<platform, rows, files, logins, deletes, clock, deleted, faults, known, excused>>

File == Identities \X Variants
NoFile == <<Nobody, 0>>
WhoOf(f) == f[1]
Idle == [at |-> "idle", client |-> "none", existing |-> <<>>, who |-> Nobody, began |-> 0,
         cli |-> "wait", pick |-> NoFile, row |-> 0, old |-> NoFile]

Init ==
    /\ platform \in {"cli", "seen", "direct"}
    /\ rows = <<>> /\ files = [f \in {} |-> 0] /\ logins = [s \in Slots |-> Idle]
    /\ deletes = {} /\ clock = 0 /\ deleted = 0 /\ faults = 0 /\ known = {} /\ excused = {}

Live == {id \in DOMAIN rows : rows[id].live}
Of(i) == {id \in Live : rows[id].identity = i}
Busy == {"picked", "matched", "written", "unshared"}
\* Identities that s does not change alone: signed in to, or about to change.
Underway(s) ==
    {logins[t].who : t \in {u \in Slots \ {s} : logins[u].at = "waiting"}}
        \cup {WhoOf(logins[t].pick) : t \in {u \in Slots \ {s} : logins[u].at \in Busy}}
        \cup {d.who : d \in deletes}
Touch(s, i) == excused' = excused \cup ({i} \cap Underway(s))
Set(s, l) == logins' = [logins EXCEPT ![s] = l]
Go(s, at) == logins' = [logins EXCEPT ![s].at = at]
Write(i, v) ==
    /\ clock < MaxSignIns /\ clock' = clock + 1
    /\ files' = [f \in DOMAIN files \cup {<<i, v>>} |-> IF f = <<i, v>> THEN clock + 1 ELSE files[f]]
    /\ known' = known \cup {i}
Rest == UNCHANGED <<platform, deletes, deleted, faults>>

-----------------------------------------------------------------------------
(* The login. *)

\* oauth::run up to the opened page, under the lifecycle lock; or another client.
Start(s, client) ==
    /\ logins[s].at = "idle"
    /\ client = "gui" => \A t \in Slots : logins[t].client # "gui"
    /\ Set(s, [Idle EXCEPT !.at = "waiting", !.client = client, !.began = clock,
               !.existing = IF client = "gui" /\ platform # "cli"
                               THEN [id \in Live |-> rows[id].identity] ELSE <<>>])
    /\ UNCHANGED <<rows, files, clock, known, excused>> /\ Rest

\* The person signs in; CLIProxyAPI may answer "error" to a state it has used up.
SignIn(s) ==
    /\ logins[s].at = "waiting" /\ logins[s].who = Nobody /\ logins[s].cli = "wait"
    /\ \E i \in Identities :
        \/ /\ platform # "direct"
           /\ \E v \in Variants : Write(i, v)
           /\ \E cli \in {"ok", "error"} : Set(s, [logins[s] EXCEPT !.who = i, !.cli = cli])
           /\ Touch(s, i) /\ UNCHANGED rows
        \/ /\ platform = "direct" /\ Set(s, [logins[s] EXCEPT !.who = i])
           /\ UNCHANGED <<rows, files, clock, known, excused>>
    /\ Rest

Deny(s) ==
    /\ logins[s].at = "waiting" /\ logins[s].who = Nobody
    /\ Set(s, [logins[s] EXCEPT !.cli = "error"])
    /\ UNCHANGED <<rows, files, clock, known, excused>> /\ Rest

Fresh(s) == {f \in DOMAIN files : files[f] > logins[s].began}
Taking(s, f) ==
    [Idle EXCEPT !.at = "picked", !.client = logins[s].client, !.existing = logins[s].existing, !.pick = f]
Newest(S) == CHOOSE f \in S : \A g \in S : files[g] <= files[f]

\* finish_oauth_session: the newest file since the session began, whoever wrote it.
Pick(s) ==
    /\ logins[s].at = "waiting" /\ platform # "direct" /\ logins[s].cli # "wait"
    /\ Fresh(s) # {}
    /\ LET i == WhoOf(Newest(Fresh(s))) IN
       excused' = excused \cup ({i} \cap Underway(s)) \cup ({logins[s].who} \ {i, Nobody})
    /\ Set(s, Taking(s, Newest(Fresh(s))))
    /\ UNCHANGED <<rows, files, clock, known>> /\ Rest

\* Its deadlines, a denial, a code that is refused.
GiveUp(s) ==
    /\ logins[s].at = "waiting" /\ (logins[s].cli = "wait" \/ Fresh(s) = {})
    /\ Set(s, Idle) /\ excused' = excused \cup ({logins[s].who} \ {Nobody})
    /\ UNCHANGED <<rows, files, clock, known>> /\ Rest

\* complete_grok_oauth, complete_antigravity_oauth.
Exchange(s) ==
    /\ logins[s].at = "waiting" /\ platform = "direct" /\ logins[s].who # Nobody
    /\ \E v \in Variants :
        /\ v = Min(Variants) /\ Write(logins[s].who, v)
        /\ Set(s, Taking(s, <<logins[s].who, v>>))
    /\ Touch(s, logins[s].who) /\ UNCHANGED rows /\ Rest

\* While it waits for the browser, the desktop takes any new account for its own.
Appears(s) ==
    /\ logins[s].at = "waiting" /\ logins[s].client = "gui" /\ platform = "direct"
    /\ \E id \in Live \ DOMAIN logins[s].existing : Set(s, [Idle EXCEPT !.at = "told", !.row = id])
    /\ UNCHANGED <<rows, files, clock, known, excused>> /\ Rest

\* sync_existing_oauth_accounts: a file that no account has.
Import(s) ==
    /\ logins[s].at = "idle"
    /\ \E f \in DOMAIN files :
        /\ \A id \in Live : rows[id].identity # WhoOf(f) /\ rows[id].file # f
        /\ Set(s, [Idle EXCEPT !.at = "picked", !.client = "import", !.pick = f])
        /\ Touch(s, WhoOf(f))
    /\ UNCHANGED <<rows, files, clock, known>> /\ Rest

-----------------------------------------------------------------------------
(* materialize_oauth_account: the row, then the file it replaces. *)

Lookup(s) ==
    /\ logins[s].at = "picked"
    /\ LET found == Of(WhoOf(logins[s].pick))
           id == IF found = {} THEN 0 ELSE Min(found) IN
       Set(s, [logins[s] EXCEPT !.at = "matched", !.row = id,
                                !.old = IF id = 0 THEN NoFile ELSE rows[id].file])
    /\ UNCHANGED <<rows, files, clock, known, excused>> /\ Rest

\* The identity is unique over the whole table, and the update does not ask
\* whether the row is deleted by now.
Taken(s) == \E id \in DOMAIN rows : id # logins[s].row /\ rows[id].identity = WhoOf(logins[s].pick)
\* A slip for the sensitivity check: the same file counts as another one.
ReplacesAny(l) == l.row # 0
Replaces(l) == l.old # l.pick
Store(s) ==
    /\ logins[s].at = "matched"
    /\ LET l == logins[s]
           row == [identity |-> WhoOf(l.pick), file |-> l.pick, live |-> TRUE] IN
       IF Taken(s) THEN Set(s, Idle) /\ UNCHANGED rows
       ELSE IF l.row = 0
       THEN rows' = Append(rows, row) /\ Set(s, [l EXCEPT !.at = "done", !.row = Len(rows) + 1])
       ELSE /\ rows' = [rows EXCEPT ![l.row] = [row EXCEPT !.live = rows[l.row].live]]
            /\ Go(s, IF Replaces(l) THEN "written" ELSE "done")
    /\ UNCHANGED <<files, clock, known, excused>> /\ Rest

Shared(s) ==
    /\ logins[s].at = "written"
    /\ Go(s, IF \E id \in Live \ {logins[s].row} : rows[id].file = logins[s].old THEN "done" ELSE "unshared")
    /\ UNCHANGED <<rows, files, clock, known, excused>> /\ Rest

\* A removal that fails ends the login; its account is set to 'error'.
RemoveOld(s) ==
    /\ logins[s].at = "unshared"
    /\ \/ /\ files' = [f \in DOMAIN files \ {logins[s].old} |-> files[f]]
          /\ Go(s, "done") /\ UNCHANGED <<excused, faults>>
       \/ /\ faults < MaxFaults /\ faults' = faults + 1 /\ Set(s, Idle)
          /\ excused' = excused \cup {WhoOf(logins[s].old)} /\ UNCHANGED files
    /\ UNCHANGED <<platform, rows, deletes, clock, deleted, known>>

-----------------------------------------------------------------------------
(* The answer. *)

Delete(id, by) == [id |-> id, who |-> rows[id].identity, file |-> rows[id].file, at |-> "read", by |-> by]

\* The desktop's reconcile_new_account: an account it knew with the identity of the
\* one it was given is kept, and the one it was given is deleted.
Known(s) == {id \in DOMAIN logins[s].existing : logins[s].existing[id] = rows[logins[s].row].identity}
Answer(s) ==
    /\ logins[s].at = "done"
    /\ LET l == logins[s] IN
       IF l.client # "gui" \/ l.row \notin Live
       THEN Set(s, Idle) /\ UNCHANGED <<deletes, excused>>
       ELSE IF Known(s) # {}
       THEN /\ deletes' = deletes \cup {Delete(l.row, s)} /\ Go(s, "undoing")
            /\ Touch(s, rows[l.row].identity)
       ELSE Go(s, "told") /\ UNCHANGED <<deletes, excused>>
    /\ UNCHANGED <<platform, rows, files, clock, deleted, faults, known>>

Undone(s) ==
    /\ logins[s].at = "undoing" /\ \A d \in deletes : d.by # s
    /\ Go(s, "told") /\ UNCHANGED <<rows, files, clock, known, excused>> /\ Rest

Told(s) ==
    /\ logins[s].at = "told" /\ Set(s, Idle)
    /\ UNCHANGED <<rows, files, clock, known, excused>> /\ Rest

\* The desktop waits 90 s; the Host goes on.
Detach(s) ==
    /\ logins[s].client = "gui" /\ logins[s].at = "waiting"
    /\ Set(s, [logins[s] EXCEPT !.client = "none"])
    /\ UNCHANGED <<rows, files, clock, known, excused>> /\ Rest

-----------------------------------------------------------------------------
(* delete_account, in three steps; the file's removal may fail unnoticed. *)

AskDelete ==
    /\ deleted < MaxDeletes /\ deleted' = deleted + 1
    /\ \E id \in Live : deletes' = deletes \cup {Delete(id, "admin")} /\ Touch("admin", rows[id].identity)
    /\ UNCHANGED <<platform, rows, files, logins, clock, faults, known>>

\* A slip for the sensitivity check: the identity of a deleted account is kept.
TombstoneKeepsFile(d) ==
    /\ d.at = "read" /\ d.id \in Live
    /\ rows' = [rows EXCEPT ![d.id].live = FALSE, ![d.id].identity = Nobody]
    /\ known' = known \ {rows[d.id].identity} /\ deletes' = deletes \ {d}
    /\ UNCHANGED <<platform, files, logins, clock, deleted, faults, excused>>

Tombstone(d) ==
    /\ d.at = "read"
    /\ IF d.id \in Live
       THEN /\ rows' = [rows EXCEPT ![d.id].live = FALSE, ![d.id].identity = Nobody]
            /\ known' = known \ {rows[d.id].identity}
            /\ deletes' = (deletes \ {d}) \cup {[d EXCEPT !.at = "gone"]}
       ELSE deletes' = deletes \ {d} /\ UNCHANGED <<rows, known>>
    /\ UNCHANGED <<platform, files, logins, clock, deleted, faults, excused>>

Unlink(d) ==
    /\ d.at = "gone" /\ deletes' = deletes \ {d}
    /\ \/ files' = [f \in DOMAIN files \ {d.file} |-> files[f]] /\ UNCHANGED <<faults, excused>>
       \/ faults < MaxFaults /\ faults' = faults + 1 /\ excused' = excused \cup {d.who} /\ UNCHANGED files
    /\ UNCHANGED <<platform, rows, logins, clock, deleted, known>>

\* The Host dies with everything under way.
Restart ==
    /\ faults < MaxFaults /\ faults' = faults + 1
    /\ excused' = excused \cup (Underway("host") \ {Nobody})
    /\ logins' = [s \in Slots |-> Idle] /\ deletes' = {}
    /\ UNCHANGED <<platform, rows, files, clock, deleted, known>>

Next ==
    \/ \E s \in Slots :
        \/ \E c \in {"gui", "other"} : Start(s, c)
        \/ SignIn(s) \/ Deny(s) \/ Pick(s) \/ GiveUp(s) \/ Exchange(s) \/ Appears(s) \/ Import(s)
        \/ Lookup(s) \/ Store(s) \/ Shared(s) \/ RemoveOld(s)
        \/ Answer(s) \/ Undone(s) \/ Told(s) \/ Detach(s)
    \/ AskDelete \/ \E d \in deletes : Tombstone(d) \/ Unlink(d)
    \/ Restart
Spec == Init /\ [][Next]_vars

Symmetric == Permutations(Identities) \cup Permutations(Slots)

-----------------------------------------------------------------------------
\* A deleted account does not come back by itself: every account has been signed in
\* to since, although listing the accounts imports whatever files it finds.
DeletedStaysDeleted ==
    \A id \in Live : rows[id].identity \in known \cup excused

\* An account that can be used has its credential, through logins that replace the
\* file, imports and deletions.
AccountsHaveTheirFiles ==
    \A id \in Live : rows[id].identity \in excused \/ rows[id].file \in DOMAIN files

\* CHANGELOG.md:582: a login again takes up and restores the account it belongs to.
\* So who is told that it worked has the account, while nobody asked for a deletion.
LoginKeepsTheAccount ==
    deleted = 0 => \A s \in Slots : logins[s].at = "told" => logins[s].row \in Live
=============================================================================
