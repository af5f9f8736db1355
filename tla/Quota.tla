-------------------------------- MODULE Quota --------------------------------
(***************************************************************************)
(* How the desktop takes an OAuth account whose quota is used up out of the  *)
(* rotation and puts it back: the usage refresh and the recovery probe       *)
(* (logic/usage.rs, logic.rs), the file of observations they share, and the  *)
(* sync of the live routing that follows (logic/deployment.rs), scheduled by *)
(* the GUI (windows_main.rs).  They run on threads of their own; the file    *)
(* has no lock, and a request of theirs is one step of the Host.             *)
(***************************************************************************)
EXTENDS Naturals, FiniteSets

CONSTANTS Accounts,
          MaxWindows,    \* quota windows of an account
          MaxTroubles    \* configurations applied, requests to the Host that fail, and
                         \* errors and unreadable quotas that come from elsewhere

VARIABLES kind,          \* "desktop": ChatGPT, whose recovery is local; "probed"
          upstream,      \* the provider: the window and whether its quota is used up
          readable,      \* whether a query of the quota is answered with fresh numbers
          row,           \* the Host's rows
          routed,        \* accounts that a composite route of the last sync stands for
          config,        \* "fallback": selected, with an API channel of the same model
          obs,           \* oauth-recovery-observations.json
          task,          \* the threads
          pending,       \* routing_sync_pending
          troubles,
          adrift         \* observation: accounts whose routing nobody has promised to
                         \* sync again (a sync failed, was of an older configuration, ...)
vars == <<kind, upstream, readable, row, routed, config, obs, task, pending,
          troubles, adrift>>

Threads == {"refresh", "probe", "sync", "apply"}
None == [seen |-> FALSE, full |-> FALSE, age |-> 0, reset |-> 0]
Unread == [status |-> "unread", schedulable |-> FALSE]
Idle == [at |-> "idle", cfg |-> [a \in Accounts |-> "off"], row |-> [a \in Accounts |-> Unread],
         evidence |-> [a \in Accounts |-> "none"],
         window |-> [a \in Accounts |-> 0], obs |-> [a \in Accounts |-> None],
         isolated |-> {}, changed |-> FALSE]

Healthy(r) == r.status = "active" /\ r.schedulable
\* oauth_should_isolate; also what "disabled" means to the two queries.
Off(r) == r.status = "error" \/ ~r.schedulable
Selected(cfg) == {a \in Accounts : cfg[a] # "off"}
Supervised(cfg, rows) == {a \in Accounts : cfg[a] = "fallback" /\ rows[a].status # "disabled"}

Init ==
    /\ kind \in [Accounts -> {"desktop", "probed"}]
    /\ upstream = [a \in Accounts |-> [window |-> 1, full |-> FALSE]] /\ readable = TRUE
    /\ row = [a \in Accounts |-> [status |-> "active", schedulable |-> TRUE]]
    /\ routed = Accounts /\ config = [a \in Accounts |-> "fallback"]
    /\ obs = [a \in Accounts |-> None] /\ task = [w \in Threads |-> Idle] /\ pending = FALSE
    /\ troubles = 0 /\ adrift = {}

Busy(w) == task[w].at # "idle"
At(w, place) == task[w].at = place
\* What the thread has read is of no more use.
Keep(w, place) ==
    task' = [task EXCEPT ![w] = [Idle EXCEPT !.at = place, !.cfg = task[w].cfg, !.changed = task[w].changed]]
World == UNCHANGED <<kind, upstream, readable, config>>
Trouble == troubles < MaxTroubles /\ troubles' = troubles + 1

-----------------------------------------------------------------------------
(* A pass of query_usage: the accounts, the quota of each, the observations. *)

\* process_scheduled_usage_refresh; a recovery probe waits for the others to end,
\* a refresh does not wait for a recovery probe.
Begin(w) ==
    /\ ~Busy(w) /\ ~Busy("apply")
    /\ w = "probe" => ~Busy("refresh") /\ ~Busy("sync")
    /\ task' = [task EXCEPT ![w] = [Idle EXCEPT !.at = "query", !.cfg = config, !.row = row]]
    /\ World /\ UNCHANGED <<row, routed, obs, pending, troubles, adrift>>

Evidence(a) == IF ~readable THEN "unknown" ELSE IF upstream[a].full THEN "full" ELSE "usable"
Switch(a, on) == row' = [row EXCEPT ![a].schedulable = on]
Revive(a) == row' = [row EXCEPT ![a] = [status |-> "active", schedulable |-> TRUE]]

\* query_account.  Only the probe acts on what it finds: it revives an account that
\* is off but answers (maybe_recover_misdisabled_account) and takes out one that is
\* used up (maybe_isolate_exhausted_oauth_account), going by the row of the list.
Query(w, a) ==
    /\ At(w, "query") /\ a \in Selected(task[w].cfg) /\ task[w].evidence[a] = "none"
    /\ LET l == task[w]
           r == l.row[a]
           e == Evidence(a)
           revives == /\ w = "probe" /\ kind[a] = "probed" /\ r.status # "disabled" /\ Off(r)
                      /\ e # "full" /\ row[a].status # "disabled" /\ ~upstream[a].full
           isolates == w = "probe" /\ l.cfg[a] = "fallback" /\ r.status # "disabled" /\ e = "full" IN
       \/ /\ revives /\ Revive(a)
          /\ task' = [task EXCEPT ![w].evidence[a] = "usable", ![w].window[a] = upstream[a].window,
                                  ![w].changed = TRUE,
                                  ![w].row[a] = [status |-> "active", schedulable |-> TRUE]]
          /\ UNCHANGED troubles
       \/ /\ isolates /\ ~Off(r) /\ Switch(a, FALSE)
          /\ task' = [task EXCEPT ![w].evidence[a] = e, ![w].window[a] = upstream[a].window,
                                  ![w].isolated = @ \cup {a}, ![w].changed = TRUE,
                                  ![w].row[a].schedulable = FALSE]
          /\ UNCHANGED troubles
       \/ /\ IF revives \/ (isolates /\ ~Off(r)) THEN Trouble ELSE UNCHANGED troubles
          /\ task' = [task EXCEPT ![w].evidence[a] = e,
                                  ![w].window[a] = IF readable THEN upstream[a].window ELSE 0,
                                  ![w].isolated = IF isolates /\ Off(r) THEN @ \cup {a} ELSE @]
          /\ UNCHANGED row
    /\ World /\ UNCHANGED <<routed, obs, pending, adrift>>

\* reconcile_oauth_recovery_observations reads the file...
ReadObservations(w) ==
    /\ At(w, "query") /\ \A a \in Selected(task[w].cfg) : task[w].evidence[a] # "none"
    /\ task' = [task EXCEPT ![w].at = "reconcile",
           ![w].obs = [a \in Accounts |-> IF a \in Supervised(task[w].cfg, task[w].row)
                                          THEN obs[a] ELSE None]]
    /\ World /\ UNCHANGED <<row, routed, obs, pending, troubles, adrift>>

\* oauth_recovery_directive: ten minutes and a reset for an account that is usable,
\* five hours for one that nothing is known of.
Directive(evidence, isolated, entry, reset) ==
    CASE evidence = "usable" /\ isolated ->
            IF entry.seen /\ entry.age >= 1 /\ reset THEN "recover" ELSE "isolate"
      [] evidence = "usable" -> "none"
      [] evidence = "full" -> "isolate"
      [] OTHER -> IF ~entry.seen THEN "none" ELSE IF entry.age >= 2 THEN "recover" ELSE "isolate"

\* The clock is past the reset that was noted, or the numbers just read name another.
ResetConfirmed(a, entry, read) ==
    entry.reset # 0 /\ (upstream[a].window > entry.reset \/ read \notin {0, entry.reset})

\* A slip for the sensitivity check: the reset of any window counts.
NotedAny(entry, evidence, read) ==
    [seen |-> TRUE, full |-> evidence = "full", age |-> entry.age,
     reset |-> IF read # 0 THEN read ELSE entry.reset]
\* The time of the first observation is kept, and the reset of the last full window.
Noted(entry, evidence, read) ==
    [seen |-> TRUE, full |-> evidence = "full", age |-> entry.age,
     reset |-> IF evidence = "full" THEN read ELSE entry.reset]

\* ...and acts on each account: after it, the entry and whether the routing changed.
Reconcile(w, a) ==
    /\ At(w, "reconcile") /\ a \in Supervised(task[w].cfg, task[w].row)
    /\ task[w].evidence[a] # "done"
    /\ LET l == task[w]
           entry == l.obs[a]
           isolated == Off(l.row[a]) \/ entry.seen
           do == Directive(l.evidence[a], isolated, entry, ResetConfirmed(a, entry, l.window[a]))
           \* status_detail names the fallback only when this pass isolated it.
           inPool == l.row[a].status # "error" /\ a \notin l.isolated IN
       CASE do = "none" ->
              /\ task' = [task EXCEPT ![w].evidence[a] = "done", ![w].obs[a] = None]
              /\ UNCHANGED <<row, routed, troubles, adrift>>
         [] do = "isolate" ->
              /\ \/ /\ inPool /\ Switch(a, FALSE) /\ UNCHANGED troubles
                    /\ task' = [task EXCEPT ![w].evidence[a] = "done", ![w].changed = TRUE,
                                            ![w].obs[a] = Noted(entry, l.evidence[a], l.window[a])]
                 \/ /\ IF inPool THEN Trouble ELSE UNCHANGED troubles
                    /\ UNCHANGED row
                    /\ task' = [task EXCEPT ![w].evidence[a] = "done",
                                            ![w].obs[a] = Noted(entry, l.evidence[a], l.window[a])]
              /\ UNCHANGED <<routed, adrift>>
         [] OTHER ->
              \* recover_oauth_account; its second request, or the Host's own sync,
              \* may fail when the row is already changed.
              \/ /\ row[a].status # "disabled" /\ (kind[a] = "desktop" \/ ~upstream[a].full)
                 /\ Revive(a) /\ UNCHANGED <<routed, troubles, adrift>>
                 /\ task' = [task EXCEPT ![w].evidence[a] = "done", ![w].obs[a] = None, ![w].changed = TRUE]
              \/ /\ kind[a] = "desktop" /\ row[a].status # "disabled" /\ Trouble
                 /\ Revive(a) /\ adrift' = adrift \cup {a} /\ UNCHANGED routed
                 /\ task' = [task EXCEPT ![w].evidence[a] = "done"]
              \/ /\ IF row[a].status # "disabled" /\ (kind[a] = "desktop" \/ ~upstream[a].full)
                    THEN Trouble ELSE UNCHANGED troubles
                 /\ task' = [task EXCEPT ![w].evidence[a] = "done"] /\ UNCHANGED <<row, routed, adrift>>
    /\ World /\ UNCHANGED <<obs, pending>>

\* The whole file is written back; the probe then syncs the routing itself.
WriteObservations(w) ==
    /\ At(w, "reconcile")
    /\ \A a \in Supervised(task[w].cfg, task[w].row) : task[w].evidence[a] = "done"
    /\ obs' = task[w].obs
    /\ Keep(w, IF w = "probe" /\ task[w].changed THEN "sync" ELSE "done")
    /\ World /\ UNCHANGED <<row, routed, pending, troubles, adrift>>

-----------------------------------------------------------------------------
(* sync_routing_only, and the same part of sync_router_state. *)

Overtaken(w) == task[w].cfg # config \/ \E v \in Threads \ {w} : At(v, "put")
SyncRead(w) ==
    /\ At(w, "sync")
    /\ task' = [task EXCEPT ![w].at = "put", ![w].isolated = {a \in Accounts : Off(row[a])}]
    \* What is read now is what counts, unless it is of an older configuration or
    \* another sync may still write.
    /\ adrift' = IF Overtaken(w) THEN adrift ELSE {}
    /\ World /\ UNCHANGED <<row, routed, obs, pending, troubles>>

\* The accounts that are not selected any more are switched off, the routes rebuilt for
\* the others; the membership of the group does not shrink (see Deployment).  With no model
\* left that can be served, of these or of the rest of the configuration, it fails.
SyncPut(w) ==
    /\ At(w, "put")
    /\ LET l == task[w]
           selected == Selected(l.cfg)
           off == [a \in Accounts |-> IF a \in selected THEN row[a]
                                     ELSE [row[a] EXCEPT !.schedulable = FALSE]]
           servable == \E a \in selected : l.cfg[a] = "fallback" \/ a \notin l.isolated IN
       \/ /\ row' = off /\ routed' = selected \ l.isolated
          /\ Keep(w, "done") /\ UNCHANGED troubles
          /\ adrift' = IF Overtaken(w) THEN Accounts ELSE adrift
       \/ /\ IF servable THEN Trouble ELSE UNCHANGED troubles
          /\ row' \in {row, off} /\ Keep(w, "failed") /\ adrift' = Accounts /\ UNCHANGED routed
    /\ World /\ UNCHANGED <<obs, pending>>

\* request_routing_sync.
Request(t) ==
    IF t["apply"].at # "idle" \/ t["sync"].at # "idle"
    THEN pending' = TRUE /\ task' = t
    ELSE pending' = FALSE /\ task' = [t EXCEPT !["sync"] = [Idle EXCEPT !.at = "sync", !.cfg = config]]

-----------------------------------------------------------------------------
(* The results, handled by the GUI. *)

\* A slip for the sensitivity check: what a refresh has changed is not followed up.
LoadedQuietly ==
    /\ At("refresh", "done") /\ task' = [task EXCEPT !["refresh"] = Idle]
    /\ World /\ UNCHANGED <<row, routed, obs, pending, troubles, adrift>>

\* UsageLoaded: of another profile or configuration by now, it is dropped.
Loaded ==
    /\ At("refresh", "done")
    /\ LET t == [task EXCEPT !["refresh"] = Idle] IN
       IF task["refresh"].cfg # config
       THEN task' = t /\ UNCHANGED pending
            /\ adrift' = IF task["refresh"].changed THEN Accounts ELSE adrift
       ELSE (IF task["refresh"].changed THEN Request(t) ELSE task' = t /\ UNCHANGED pending)
            /\ UNCHANGED adrift
    /\ World /\ UNCHANGED <<row, routed, obs, troubles>>

Probed ==
    /\ task["probe"].at \in {"done", "failed"} /\ task' = [task EXCEPT !["probe"] = Idle]
    /\ World /\ UNCHANGED <<row, routed, obs, pending, troubles, adrift>>

\* RoutingSyncFinished: one that failed waits for the next self-check.
Synced ==
    /\ task["sync"].at \in {"done", "failed"}
    /\ LET t == [task EXCEPT !["sync"] = Idle] IN
       IF At("sync", "done") /\ pending THEN Request(t)
       ELSE task' = t /\ pending' = (pending \/ At("sync", "failed"))
    /\ World /\ UNCHANGED <<row, routed, obs, troubles, adrift>>

\* trigger_self_check, before a refresh.
SelfCheck ==
    /\ pending /\ ~Busy("apply") /\ ~Busy("sync") /\ Request(task)
    /\ World /\ UNCHANGED <<row, routed, obs, troubles, adrift>>

\* A configuration is applied: sync_router_state reads and writes as a sync does, and
\* ApplyFinished forgets what was asked for meanwhile.
Apply ==
    /\ Trouble /\ ~Busy("apply")
    /\ \E a \in Accounts, c \in {"fallback", "plain", "off"} :
        /\ c # config[a] /\ config' = [config EXCEPT ![a] = c]
        /\ task' = [task EXCEPT !["apply"] = [Idle EXCEPT !.at = "sync", !.cfg = [config EXCEPT ![a] = c]]]
    /\ adrift' = Accounts
    /\ UNCHANGED <<kind, upstream, readable, row, routed, obs, pending>>

Applied ==
    /\ task["apply"].at \in {"done", "failed"} /\ task' = [task EXCEPT !["apply"] = Idle]
    /\ pending' = (pending /\ At("apply", "failed"))
    /\ adrift' = IF pending /\ At("apply", "done") THEN Accounts ELSE adrift
    /\ World /\ UNCHANGED <<row, routed, obs, troubles>>

-----------------------------------------------------------------------------
(* The world. *)

\* The provider: the quota is used up, a window ends.
Drain(a) ==
    /\ ~upstream[a].full /\ upstream' = [upstream EXCEPT ![a].full = TRUE]
    /\ UNCHANGED <<kind, readable, row, routed, config, obs, task, pending, troubles, adrift>>
Renew(a) ==
    /\ upstream[a].window < MaxWindows
    /\ upstream' = [upstream EXCEPT ![a] = [window |-> @.window + 1, full |-> FALSE]]
    /\ UNCHANGED <<kind, readable, row, routed, config, obs, task, pending, troubles, adrift>>
Obscure ==
    /\ readable' = ~readable /\ IF readable THEN Trouble ELSE UNCHANGED troubles
    /\ UNCHANGED <<kind, upstream, row, routed, config, obs, task, pending, adrift>>

\* The Host, or somebody else, sets the row.
Break(a) ==
    /\ Trouble
    /\ \E s \in {"error", "disabled"} : row' = [row EXCEPT ![a].status = s]
    /\ adrift' = adrift \cup {a}
    /\ UNCHANGED <<kind, upstream, readable, routed, config, obs, task, pending>>

\* Time: from less than ten minutes to less than five hours to more; a pass takes less.
Wait(a) ==
    /\ obs[a].seen /\ obs[a].age < 2 /\ ~Busy("refresh") /\ ~Busy("probe")
    /\ obs' = [obs EXCEPT ![a].age = @ + 1]
    /\ World /\ UNCHANGED <<row, routed, task, pending, troubles, adrift>>

\* What a thread does until it sends its result, and the handling of the results.
Thread(w) ==
    \/ \E a \in Accounts : Query(w, a) \/ Reconcile(w, a)
    \/ ReadObservations(w) \/ WriteObservations(w) \/ SyncRead(w) \/ SyncPut(w)
Next ==
    \/ \E w \in {"refresh", "probe"} : Begin(w)
    \/ \E w \in Threads : Thread(w)
    \/ Loaded \/ Probed \/ Synced \/ Applied \/ SelfCheck \/ Apply \/ Obscure
    \/ \E a \in Accounts : Drain(a) \/ Renew(a) \/ Break(a) \/ Wait(a)
Spec == Init /\ [][Next]_vars

\* A thread goes on until the GUI has its result; refreshes come every few minutes,
\* and time passes.
Goes(w) ==
    \/ Thread(w)
    \/ w = "refresh" /\ (Begin(w) \/ Loaded)
    \/ w = "probe" /\ Probed
    \/ w = "sync" /\ Synced
    \/ w = "apply" /\ Applied
Fairness == (\A w \in Threads : WF_vars(Goes(w))) /\ \A a \in Accounts : SF_vars(Wait(a))
FairSpec == Spec /\ Fairness

-----------------------------------------------------------------------------
\* With nothing under way or asked for, the live routing has the accounts that are
\* selected and can be used: each thread that changed a row has had it followed.
RoutingFollows ==
    (\A w \in Threads : ~Busy(w)) /\ ~pending
        => \A a \in Accounts \ adrift : a \in routed <=> a \in Selected(config) /\ ~Off(row[a])

Usable(a) == ~upstream[a].full /\ readable /\ config[a] = "fallback" /\ row[a].status # "disabled"
Serving(a) == Healthy(row[a]) /\ ~obs[a].seen

\* An account whose reset was noted comes back when its quota is usable for long enough,
\* whichever threads overlap; unless one of them overwrites the note (the file has no
\* lock, and a pass that found the account usable writes an entry without a reset).
\* A noted reset leads to one of the other two; so, again and again, one of the three holds.
ResetAccountsReturn ==
    \A a \in Accounts : []<>(Serving(a) \/ ~Usable(a) \/ obs[a].reset = 0)

\* CHANGELOG.md:1130-1131: when the quota has recovered, OAuth is switched back to.
UsableAccountsReturn ==
    \A a \in Accounts : ~Serving(a) ~> Serving(a) \/ ~Usable(a)
=============================================================================
