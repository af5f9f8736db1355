------------------------------ MODULE Recovery ------------------------------
(***************************************************************************)
(* The health of the accounts and what the Host publishes of it.  Control  *)
(* requests, the scheduler and OAuth logins change the rows of SQLite and  *)
(* then run sync_backend, which reads all rows and publishes them as the   *)
(* files of CLIProxyAPI and as the route table; they run as concurrent     *)
(* tasks and no lock covers a change and its sync.  A recovery probes the  *)
(* account upstream between its checks and its change.                     *)
(***************************************************************************)
EXTENDS Naturals, FiniteSets

CONSTANTS
  Accounts,
  Tasks,       \* handlers and scheduled runs at work at the same time
  MaxFailures  \* bound: syncs and file operations that fail

ASSUME RecoveryAssumption == Accounts # {} /\ MaxFailures \in Nat

VARIABLES
  rows,      \* accounts
  cooling,   \* oauth_reauth_cooldown_until.<id> lies in the future
  table,     \* accounts whose pool is available in ControlState.routes
  cli,       \* accounts that CLIProxyAPI has: API keys in its configuration file,
             \* OAuth accounts as replicas of their auth files
  task,
  failures,
  settled    \* observation: published documents that nothing has overtaken

vars == <<rows, cooling, table, cli, task, failures, settled>>

\* Kinds: an OpenAI login owned by Codex Desktop, another OAuth login, an API key.
Row == [ kind : {"desktop", "oauth", "key"}, life : {"absent", "live", "deleted"},
         status : {"active", "error", "disabled"}, schedulable : BOOLEAN ]

Task ==
  [ pc      : {"idle", "probing", "login", "sync", "files", "push",
              "publish"},
    kind    : {"edit", "recover", "scheduled"},
    account : Accounts,
    before  : Row,      \* previous_status, previous_schedulable
    push    : BOOLEAN,  \* CliPublish::Push
    snap    : SUBSET Accounts,   \* the eligible accounts among the rows read
    \* Observations, read by properties only:
    alone   : BOOLEAN,  \* no other task changed a row or synced meanwhile
    undone  : BOOLEAN ] \* and before is the row that its change replaced

Documents == {"table", "cli"}

TypeOK ==
  /\ rows \in [Accounts -> Row]
  /\ cooling \subseteq {a \in Accounts : rows[a].kind # "key"}
  /\ table \subseteq Accounts /\ cli \subseteq Accounts
  /\ task \in [Tasks -> Task]
  /\ failures \in 0 .. MaxFailures
  /\ settled \subseteq Documents

-----------------------------------------------------------------------------
Live(a) == rows[a].life = "live"

\* account_is_cli_eligible, of the rows that sync_backend reads.
Eligible ==
  {a \in Accounts : /\ Live(a) /\ rows[a].schedulable
                    /\ rows[a].status \notin {"error", "disabled"}}

Syncing(u) == task[u].pc \in {"sync", "files", "push", "publish"}

Absent(kind) ==
  [kind |-> kind, life |-> "absent", status |-> "active", schedulable |-> FALSE]

Idle ==
  [ pc |-> "idle", kind |-> "edit", account |-> CHOOSE a \in Accounts : TRUE,
    before |-> Absent("key"),
    push |-> FALSE, snap |-> {}, alone |-> TRUE, undone |-> FALSE ]

Init ==
  /\ rows \in [Accounts -> {r \in Row : r.life = "live" \/ r = Absent(r.kind)}]
  /\ cooling = {}
  /\ table = Eligible
  /\ cli = Eligible
  /\ task = [t \in Tasks |-> Idle]
  /\ failures = 0
  /\ settled = Documents

\* The other tasks learn (as observers) that a row has changed under them.
Overtaken(u) ==
  IF Syncing(u) THEN [task[u] EXCEPT !.alone = FALSE, !.undone = FALSE]
  ELSE task[u]

\* Task t, in state q, changes the row of account a and goes on to sync.
Change(t, a, q, row, push) ==
  /\ rows' = [rows EXCEPT ![a] = row]
  /\ LET alone == \A v \in Tasks \ {t} : ~Syncing(v)
     IN  task' = [u \in Tasks |->
           IF u # t THEN Overtaken(u)
           ELSE [q EXCEPT !.pc = "sync", !.account = a, !.push = push, !.alone = alone,
                          !.undone = alone /\ q.before = rows[a]]]

Done(t) == task' = [task EXCEPT ![t] = Idle]

Failure == failures < MaxFailures /\ failures' = failures + 1

-----------------------------------------------------------------------------
\* create_account with any status; or a login that finds no account for itself,
\* which is pushed to CLIProxyAPI as well.
Create(t, a) ==
  /\ task[t].pc = "idle"
  /\ rows[a].life = "absent"
  /\ \E status \in {"active", "error", "disabled"}, login \in BOOLEAN :
       /\ login => rows[a].kind # "key" /\ status = "active"
       /\ Change(t, a, Idle, [rows[a] EXCEPT !.life = "live", !.status = status,
                                             !.schedulable = TRUE], login)
  /\ UNCHANGED <<cooling, table, cli, failures, settled>>

\* update_account, with a new status, a new schedulable or both; clear-error and
\* schedulable of account_action.  The configuration file is not pushed.
Edit(t, a) ==
  /\ task[t].pc = "idle"
  /\ Live(a)
  /\ \E status \in {"active", "error", "disabled"}, schedulable \in BOOLEAN :
       Change(t, a, Idle, [rows[a] EXCEPT !.status = status,
                                          !.schedulable = schedulable], FALSE)
  /\ UNCHANGED <<cooling, table, cli, failures, settled>>

Delete(t, a) ==
  /\ task[t].pc = "idle"
  /\ Live(a)
  /\ Change(t, a, Idle,
            [rows[a] EXCEPT !.life = "deleted", !.schedulable = FALSE], TRUE)
  /\ UNCHANGED <<cooling, table, cli, failures, settled>>

\* materialize_oauth_account for an account that it finds: the row is looked up,
\* and later updated by its id, deleted or not.
LoginLookup(t, a) ==
  /\ task[t].pc = "idle"
  /\ Live(a) /\ rows[a].kind # "key"
  /\ task' = [task EXCEPT ![t] = [Idle EXCEPT !.pc = "login", !.account = a]]
  /\ UNCHANGED <<rows, cooling, table, cli, failures, settled>>

LoggedIn(a) == [rows[a] EXCEPT !.status = "active", !.schedulable = TRUE]

LoginWrite(t) ==
  LET a == task[t].account
  IN  /\ task[t].pc = "login"
      /\ Change(t, a, Idle, LoggedIn(a), TRUE)
      /\ cooling' = cooling \ {a}
      /\ UNCHANGED <<table, cli, failures, settled>>

NoteReauthFailure(a) ==
  cooling' = IF Live(a) /\ rows[a].kind # "key" THEN cooling \cup {a} ELSE cooling

\* The replaced auth file cannot be removed: the account is set to "error", and
\* the request fails without a sync.
LoginFails(t) ==
  LET a == task[t].account
  IN  /\ task[t].pc = "login"
      /\ Failure
      /\ rows' = [rows EXCEPT ![a].status = "error", ![a].schedulable = FALSE]
      /\ NoteReauthFailure(a)
      /\ task' = [u \in Tasks |-> IF u = t THEN Idle ELSE Overtaken(u)]
      /\ settled' = {}
      /\ UNCHANGED <<table, cli>>

-----------------------------------------------------------------------------
\* recover-state of an account of Codex Desktop: there is no probe.
RecoverLocally(t, a) ==
  /\ task[t].pc = "idle"
  /\ Live(a) /\ rows[a].kind = "desktop"
  /\ rows[a].status # "disabled"
  /\ Change(t, a, Idle, LoggedIn(a), TRUE)
  /\ UNCHANGED <<cooling, table, cli, failures, settled>>

\* recover_account_after_probe and execute_claimed: what is checked, and noted,
\* before the probe.
StartProbe(t, a) ==
  /\ task[t].pc = "idle"
  /\ Live(a) /\ rows[a].kind # "desktop"
  /\ rows[a].status # "disabled"
  /\ a \notin cooling
  /\ \E kind \in {"recover", "scheduled"} :
       task' = [task EXCEPT ![t] =
         [Idle EXCEPT !.pc = "probing", !.kind = kind, !.account = a,
                      !.before = IF kind = "recover" THEN rows[a] ELSE @]]
  /\ UNCHANGED <<rows, cooling, table, cli, failures, settled>>

\* A 401 starts the cooldown.
ProbeFails(t) ==
  /\ task[t].pc = "probing"
  /\ \/ NoteReauthFailure(task[t].account)
     \/ UNCHANGED cooling
  /\ Done(t)
  /\ UNCHANGED <<rows, table, cli, failures, settled>>

\* recover_account_after_probe ends the cooldown and sets the row whatever it is
\* by now; auto_recover sets it if it is not that already, and never restores it.
ProbeSucceeds(t) ==
  LET a == task[t].account
      recover == task[t].kind = "recover"
  IN  /\ task[t].pc = "probing"
      /\ cooling' = IF recover THEN cooling \ {a} ELSE cooling
      /\ IF Live(a) /\ (recover \/ rows[a] # LoggedIn(a))
         THEN Change(t, a, IF recover THEN task[t] ELSE Idle, LoggedIn(a), TRUE)
         ELSE Done(t) /\ UNCHANGED rows
      /\ UNCHANGED <<table, cli, failures, settled>>

-----------------------------------------------------------------------------
\* sync_backend_ex.
ReadRows(t) ==
  /\ task[t].pc = "sync"
  /\ task' = [task EXCEPT ![t].pc = "files", ![t].snap = Eligible]
  /\ UNCHANGED <<rows, cooling, table, cli, failures, settled>>

ApiKeys == {a \in Accounts : rows[a].kind = "key"}

\* The replicas of OAuth accounts are written and removed whether or not the
\* configuration file will be pushed.
WriteReplicas(t) ==
  /\ task[t].pc = "files"
  /\ cli' = (cli \cap ApiKeys) \cup (task[t].snap \ ApiKeys)
  /\ task' = [task EXCEPT ![t].pc = "push"]
  /\ UNCHANGED <<rows, cooling, table, failures, settled>>

PushCli(t) ==
  /\ task[t].pc = "push"
  /\ cli' = IF task[t].push
            THEN (cli \ ApiKeys) \cup (task[t].snap \cap ApiKeys) ELSE cli
  /\ task' = [task EXCEPT ![t].pc = "publish"]
  /\ UNCHANGED <<rows, cooling, table, failures, settled>>

Publish(t) ==
  /\ task[t].pc = "publish"
  /\ table' = task[t].snap
  /\ settled' =
       IF ~task[t].alone THEN {}
       ELSE IF task[t].push THEN Documents
       ELSE {"table"} \cup (IF task[t].account \in ApiKeys THEN {} ELSE settled)
  /\ Done(t)
  /\ UNCHANGED <<rows, cooling, cli, failures>>

\* A slip for the sensitivity check: the row stays recovered.
KeepRecovered(t) == UNCHANGED rows

\* Only the recover-state request takes its change back.
Restore(t) ==
  LET a == task[t].account
  IN  rows' = IF task[t].kind = "recover" /\ Live(a)
              THEN [rows EXCEPT ![a].status = task[t].before.status,
                                ![a].schedulable = task[t].before.schedulable]
              ELSE rows

\* The rows cannot be read or compiled, or the configuration file cannot be
\* written.  (The requests other than a recovery report success all the same.)  A
\* recovery that is taken back leaves the replica of its account behind.
SyncFails(t) ==
  /\ task[t].pc \in {"sync", "files", "push"}
  /\ Failure
  /\ Restore(t)
  /\ settled' =
       IF ~(task[t].undone /\ task[t].kind = "recover") THEN {}
       ELSE IF task[t].pc = "push" /\ task[t].account \notin ApiKeys
            THEN settled \ {"cli"} ELSE settled
  /\ Done(t)
  /\ UNCHANGED <<cooling, table, cli>>

-----------------------------------------------------------------------------
\* query_account_usage is answered 401.
UsagePoll401(a) ==
  /\ a \notin cooling
  /\ NoteReauthFailure(a)
  /\ UNCHANGED <<rows, table, cli, task, failures, settled>>

\* REAUTH_COOLDOWN has passed.
CooldownEnds(a) ==
  /\ a \in cooling
  /\ cooling' = cooling \ {a}
  /\ UNCHANGED <<rows, table, cli, task, failures, settled>>

\* The Host dies and starts again; it syncs before it accepts requests, and goes
\* on with an empty table when that fails.
Restart ==
  /\ task' = [t \in Tasks |-> Idle]
  /\ \/ /\ table' = Eligible /\ cli' = Eligible
        /\ settled' = Documents
        /\ UNCHANGED failures
     \/ /\ Failure
        /\ table' = {} /\ settled' = {}
        /\ UNCHANGED cli
  /\ UNCHANGED <<rows, cooling>>

Request(t, a) ==
  \/ Create(t, a) \/ Edit(t, a) \/ Delete(t, a) \/ LoginLookup(t, a)
  \/ RecoverLocally(t, a) \/ StartProbe(t, a)

TaskStep(t) ==
  \/ LoginWrite(t) \/ LoginFails(t) \/ ProbeFails(t) \/ ProbeSucceeds(t)
  \/ ReadRows(t) \/ WriteReplicas(t) \/ PushCli(t) \/ Publish(t) \/ SyncFails(t)

Next ==
  \/ \E t \in Tasks : TaskStep(t) \/ \E a \in Accounts : Request(t, a)
  \/ \E a \in Accounts : UsagePoll401(a) \/ CooldownEnds(a)
  \/ Restart

Spec == Init /\ [][Next]_vars

-----------------------------------------------------------------------------
AtRest == \A t \in Tasks : ~Syncing(t)

\* When no sync is under way, the route table tells the accounts that may be
\* used, and so does what CLIProxyAPI has once that was pushed: unless two syncs
\* have overlapped, or one has failed that was not a recovery undone in time.
PublishedFollowsTheRows ==
  AtRest => /\ "table" \in settled => table = Eligible
            /\ "cli" \in settled => cli = Eligible

\* "Disabled / error / unschedulable accounts never reach the CLI candidate set;
\* the Router availability gate reports CR-RTE-0002": whatever overlaps.
IneligibleIsGated == AtRest => table \subseteq Eligible

\* "Never let either path puncture a 401 cooldown or an explicit operator
\* disable": recovery leaves a disabled account disabled.
RecoveryRespectsDisable ==
  [][\A t \in Tasks :
       LET a == task[t].account
       IN  (ProbeSucceeds(t) \/ SyncFails(t)) /\ Live(a) /\ rows[a].status = "disabled"
           => rows'[a].status = "disabled"]_vars
==============================================================================
