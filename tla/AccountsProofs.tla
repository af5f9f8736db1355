---------------------------- MODULE AccountsProofs ----------------------------
(***************************************************************************)
(* Proofs about the accounts of the Host, for any number of accounts,       *)
(* tasks, identities and logins, and any bound on their operations.         *)
(*  - What is published follows the rows, although no lock covers a change *)
(*    and its sync.                                                        *)
(*  - The routing follows the account through the desktop's handling of its *)
(*    quota.                                                               *)
(*  - Accounts and credential files agree through logins, imports and       *)
(*    deletions of any interleaving.                                       *)
(***************************************************************************)
EXTENDS MCAccounts, WellFoundedInduction, TLAPS

-----------------------------------------------------------------------------
(* What is published (Recovery). *)

\* The accounts that could be used before the change of the task t, were it undone.
Prior(t) ==
  {a \in Accounts :
     /\ rows[a].life = "live"
     /\ IF a = task[t].account
        THEN task[t].before.schedulable /\ task[t].before.status \notin {"error", "disabled"}
        ELSE rows[a].schedulable /\ rows[a].status \notin {"error", "disabled"}}

Undoable(t) == task[t].undone /\ task[t].kind = "recover"

\* Of a sync that nothing has overtaken: how far it is, and what that says about the two
\* documents; and what a recovery that fails would go back to.
AloneAtWork(t) ==
  /\ \A u \in Tasks : u # t => ~Syncing(u)
  /\ task[t].pc # "sync" => task[t].snap = Eligible
  /\ Undoable(t) /\ "table" \in settled => table = Prior(t)
  /\ Undoable(t) /\ "cli" \in settled /\ task[t].pc \in {"sync", "files"} => cli = Prior(t)
  /\ Undoable(t) /\ "cli" \in settled /\ task[t].pc = "push" /\ task[t].account \in ApiKeys =>
       cli = Prior(t)
  /\ "cli" \in settled /\ task[t].account \notin ApiKeys => cli \cap ApiKeys = Eligible \cap ApiKeys
  /\ task[t].pc \in {"push", "publish"} => cli \ ApiKeys = Eligible \ ApiKeys
  /\ task[t].pc = "publish" /\ task[t].push => cli = Eligible

InFlight(t) == Syncing(t) => IF task[t].alone THEN AloneAtWork(t) ELSE ~task[t].undone

RecoveryInv == TypeOK /\ (\A t \in Tasks : InFlight(t)) /\ PublishedFollowsTheRows

LEMMA IdleIsATask == Idle \in Task /\ ~Idle.undone /\ Idle.kind = "edit" /\ Idle.pc = "idle"
<1>1. (CHOOSE a \in Accounts : TRUE) \in Accounts
  BY RecoveryAssumption
<1>2. Absent("key") \in Row
  BY DEF Absent, Row
<1> QED
  BY <1>1, <1>2 DEF Idle, Task

LEMMA OvertakenTyped ==
  ASSUME TypeOK, NEW u \in Tasks
  PROVE  /\ Overtaken(u) \in Task
         /\ Overtaken(u).pc = task[u].pc
         /\ Syncing(u) => ~Overtaken(u).alone /\ ~Overtaken(u).undone
<1>1. task[u] \in Task
  BY DEF TypeOK
<1>2. [task[u] EXCEPT !.alone = FALSE, !.undone = FALSE] \in Task
  BY <1>1 DEF Task
<1>3. /\ [task[u] EXCEPT !.alone = FALSE, !.undone = FALSE].pc = task[u].pc
      /\ ~[task[u] EXCEPT !.alone = FALSE, !.undone = FALSE].alone
      /\ ~[task[u] EXCEPT !.alone = FALSE, !.undone = FALSE].undone
  BY <1>1 DEF Task
<1> QED
  BY <1>1, <1>2, <1>3 DEF Overtaken

\* The row of one account changes, and its kind stays.
LEMMA RowPut ==
  ASSUME TypeOK, NEW a \in Accounts, NEW r \in Row, r.kind = rows[a].kind,
         rows' = [rows EXCEPT ![a] = r]
  PROVE  /\ rows' \in [Accounts -> Row] /\ rows'[a] = r
         /\ \A b \in Accounts : b # a => rows'[b] = rows[b]
         /\ \A b \in Accounts : rows'[b].kind = rows[b].kind
BY DEF TypeOK

LEMMA ChangeShape ==
  ASSUME TypeOK, NEW t \in Tasks, NEW a \in Accounts, NEW q \in Task, NEW r \in Row,
         NEW push \in BOOLEAN, r.kind = rows[a].kind, Change(t, a, q, r, push)
  PROVE  /\ rows' \in [Accounts -> Row] /\ rows'[a] = r
         /\ \A b \in Accounts : b # a => rows'[b] = rows[b]
         /\ \A b \in Accounts : rows'[b].kind = rows[b].kind
         /\ task' \in [Tasks -> Task]
         /\ task'[t].pc = "sync" /\ task'[t].kind = q.kind /\ task'[t].account = a
         /\ task'[t].before = q.before
         /\ task'[t].alone <=> (\A v \in Tasks \ {t} : ~Syncing(v))
         /\ task'[t].undone => task'[t].alone /\ q.before = rows[a]
         /\ \A u \in Tasks : u # t => task'[u] = Overtaken(u)
<1>1. rows' = [rows EXCEPT ![a] = r]
  BY DEF Change
<1>2. /\ rows' \in [Accounts -> Row] /\ rows'[a] = r
      /\ \A b \in Accounts : b # a => rows'[b] = rows[b]
      /\ \A b \in Accounts : rows'[b].kind = rows[b].kind
  BY <1>1, RowPut
<1>3. PICK alone \in BOOLEAN : alone = (\A v \in Tasks \ {t} : ~Syncing(v))
  OBVIOUS
<1>4. PICK undone \in BOOLEAN : undone = (alone /\ q.before = rows[a])
  BY Zenon
<1>5. task' = [u \in Tasks |->
           IF u # t THEN Overtaken(u)
           ELSE [q EXCEPT !.pc = "sync", !.account = a, !.push = push, !.alone = alone,
                          !.undone = undone]]
  BY <1>3, <1>4 DEF Change
<1>6. PICK new : new = [q EXCEPT !.pc = "sync", !.account = a, !.push = push, !.alone = alone,
                          !.undone = undone]
  OBVIOUS
<1>7. /\ new \in Task /\ new.pc = "sync" /\ new.kind = q.kind /\ new.account = a
      /\ new.before = q.before /\ new.alone = alone /\ new.undone = undone
  BY <1>6 DEF Task
<1>8. task'[t] = new /\ \A u \in Tasks : u # t => task'[u] = Overtaken(u)
  BY <1>5, <1>6
<1>9. task' \in [Tasks -> Task]
  BY <1>5, <1>6, <1>7, OvertakenTyped
<1> QED
  BY <1>2, <1>3, <1>4, <1>7, <1>8, <1>9

\* The kinds of accounts never change, so neither do the API keys.
LEMMA KindsStay ==
  ASSUME \A b \in Accounts : rows'[b].kind = rows[b].kind
  PROVE  ApiKeys' = ApiKeys
BY DEF ApiKeys

\* A change of a row: it begins a sync, and overtakes the others.
LEMMA ChangeKeeps ==
  ASSUME RecoveryInv, NEW t \in Tasks, NEW a \in Accounts, NEW q \in Task, NEW r \in Row,
         NEW push \in BOOLEAN, r.kind = rows[a].kind, Change(t, a, q, r, push),
         ~Syncing(t), q.kind = "recover" => r.life = rows[a].life,
         UNCHANGED <<table, cli, settled, failures>>,
         cooling' \subseteq cooling
  PROVE  RecoveryInv'
<1>0. TypeOK
  BY DEF RecoveryInv
<1>1. /\ rows' \in [Accounts -> Row] /\ rows'[a] = r
      /\ \A b \in Accounts : b # a => rows'[b] = rows[b]
      /\ \A b \in Accounts : rows'[b].kind = rows[b].kind
      /\ task' \in [Tasks -> Task]
      /\ task'[t].pc = "sync" /\ task'[t].kind = q.kind /\ task'[t].account = a
      /\ task'[t].before = q.before
      /\ task'[t].alone <=> (\A v \in Tasks \ {t} : ~Syncing(v))
      /\ task'[t].undone => task'[t].alone /\ q.before = rows[a]
      /\ \A u \in Tasks : u # t => task'[u] = Overtaken(u)
  BY <1>0, ChangeShape
<1>2. TypeOK'
  <2>1. cooling' \subseteq {b \in Accounts : rows'[b].kind # "key"}
    BY <1>0, <1>1 DEF TypeOK
  <2> QED
    BY <1>0, <1>1, <2>1 DEF TypeOK
<1>3. ApiKeys' = ApiKeys
  BY <1>1, KindsStay
<1>4. \A u \in Tasks : u # t => /\ Syncing(u)' <=> Syncing(u)
                                /\ Syncing(u) => ~task'[u].alone /\ ~task'[u].undone
  BY <1>0, <1>1, OvertakenTyped DEF Syncing
<1>5. InFlight(t)'
  <2>1. CASE ~task'[t].alone
    BY <1>1, <2>1 DEF InFlight
  <2>2. CASE task'[t].alone
    <3>1. AtRest
      BY <1>1, <2>2 DEF AtRest
    <3>2. ("table" \in settled => table = Eligible) /\ ("cli" \in settled => cli = Eligible)
      BY <3>1 DEF RecoveryInv, PublishedFollowsTheRows
    <3>3. Undoable(t)' => Prior(t)' = Eligible
      <4> SUFFICES ASSUME Undoable(t)' PROVE Prior(t)' = Eligible
        OBVIOUS
      <4>1. q.before = rows[a] /\ r.life = rows[a].life
        BY <1>1 DEF Undoable
      <4> QED
        BY <1>1, <4>1 DEF Prior, Eligible, Live
    <3>4. a \notin ApiKeys => Eligible' \cap ApiKeys = Eligible \cap ApiKeys
      BY <1>1 DEF Eligible, Live
    <3>5. \A u \in Tasks : u # t => ~Syncing(u)'
      BY <1>1, <1>4, <2>2
    <3> QED
      BY <1>1, <1>3, <3>2, <3>3, <3>4, <3>5 DEF InFlight, AloneAtWork
  <2> QED
    BY <2>1, <2>2
<1>6. \A u \in Tasks : u # t => InFlight(u)'
  BY <1>4 DEF InFlight
<1>7. ~AtRest'
  BY <1>1 DEF AtRest, Syncing
<1> QED
  BY <1>2, <1>5, <1>6, <1>7 DEF RecoveryInv, PublishedFollowsTheRows

\* A step of a task that does not sync, and changes no row.
LEMMA QuietTaskKeeps ==
  ASSUME RecoveryInv, TypeOK', UNCHANGED <<rows, table, cli, settled>>,
         \A u \in Tasks : task'[u] = task[u] \/ (~Syncing(u) /\ ~Syncing(u)')
  PROVE  RecoveryInv'
<1>1. ApiKeys' = ApiKeys /\ Eligible' = Eligible
  BY DEF ApiKeys, Eligible, Live
<1>2. \A u \in Tasks : Syncing(u)' <=> Syncing(u)
  BY DEF Syncing
<1>3. ASSUME NEW u \in Tasks PROVE InFlight(u)'
  <2>1. CASE ~Syncing(u)
    BY <1>2, <2>1 DEF InFlight
  <2>2. CASE Syncing(u)
    <3>1. task'[u] = task[u] /\ InFlight(u)
      BY <2>2 DEF RecoveryInv
    <3>2. Prior(u)' = Prior(u) /\ (Undoable(u)' <=> Undoable(u))
      BY <3>1 DEF Prior, Undoable
    <3> QED
      BY <1>1, <1>2, <2>2, <3>1, <3>2 DEF InFlight, AloneAtWork
  <2> QED
    BY <2>1, <2>2
<1>4. PublishedFollowsTheRows'
  BY <1>1, <1>2 DEF RecoveryInv, PublishedFollowsTheRows, AtRest
<1> QED
  BY <1>3, <1>4 DEF RecoveryInv

\* A step of a sync: where it was alone it has to be looked at, and it is the only one then;
\* where it was not, its end leaves nothing settled.
LEMMA SyncStepKeeps ==
  ASSUME RecoveryInv, TypeOK', NEW t \in Tasks, Syncing(t),
         \A u \in Tasks : u # t => task'[u] = task[u],
         Syncing(t)' => task'[t].alone = task[t].alone /\ task'[t].undone = task[t].undone,
         ~Syncing(t)' /\ ~task[t].alone => settled' = {},
         task[t].alone /\ Syncing(t)' => AloneAtWork(t)',
         task[t].alone /\ ~Syncing(t)' =>
           ("table" \in settled' => table' = Eligible') /\ ("cli" \in settled' => cli' = Eligible')
  PROVE  RecoveryInv'
<1>0. \A u \in Tasks : InFlight(u)
  BY DEF RecoveryInv
<1>1. \A u \in Tasks : u # t => (Syncing(u)' <=> Syncing(u))
  BY DEF Syncing
<1>2. \A u \in Tasks : u # t /\ Syncing(u) => ~task[u].alone
  BY <1>0 DEF InFlight, AloneAtWork
<1>3. \A u \in Tasks : u # t => InFlight(u)'
  BY <1>0, <1>1, <1>2 DEF InFlight
<1>4. InFlight(t)'
  BY <1>0 DEF InFlight
<1>5. PublishedFollowsTheRows'
  <2> SUFFICES ASSUME AtRest'
               PROVE  /\ "table" \in settled' => table' = Eligible'
                      /\ "cli" \in settled' => cli' = Eligible'
    BY DEF PublishedFollowsTheRows
  <2>1. ~Syncing(t)'
    BY DEF AtRest
  <2> QED
    BY <2>1
<1> QED
  BY <1>3, <1>4, <1>5 DEF RecoveryInv

LEMMA ReadRowsKeeps ==
  ASSUME RecoveryInv, NEW t \in Tasks, ReadRows(t)
  PROVE  RecoveryInv'
<1>0. TypeOK /\ InFlight(t) /\ Syncing(t) /\ task[t] \in Task
  BY DEF RecoveryInv, ReadRows, Syncing, TypeOK
<1>1. UNCHANGED <<rows, cooling, table, cli, failures, settled>>
  BY DEF ReadRows
<1>2. Eligible \in SUBSET Accounts /\ Eligible' = Eligible /\ ApiKeys' = ApiKeys
  BY <1>1 DEF Eligible, ApiKeys, Live
<1>3. /\ task' = [task EXCEPT ![t].pc = "files", ![t].snap = Eligible]
      /\ task[t].pc = "sync"
  BY DEF ReadRows
<1>4. /\ task' \in [Tasks -> Task] /\ \A u \in Tasks : u # t => task'[u] = task[u]
      /\ task'[t].pc = "files" /\ task'[t].snap = Eligible
      /\ task'[t].alone = task[t].alone /\ task'[t].undone = task[t].undone
      /\ task'[t].kind = task[t].kind /\ task'[t].account = task[t].account
      /\ task'[t].before = task[t].before
  BY <1>0, <1>2, <1>3 DEF TypeOK, Task
<1>5. TypeOK'
  BY <1>0, <1>1, <1>4 DEF TypeOK
<1>6. Prior(t)' = Prior(t) /\ (Undoable(t)' <=> Undoable(t))
  BY <1>1, <1>4 DEF Prior, Undoable
<1>7. \A u \in Tasks : u # t => (Syncing(u)' <=> Syncing(u))
  BY <1>4 DEF Syncing
<1>8. task[t].alone => AloneAtWork(t)'
  BY <1>0, <1>1, <1>2, <1>3, <1>4, <1>6, <1>7 DEF InFlight, AloneAtWork
<1>9. Syncing(t)'
  BY <1>4 DEF Syncing
<1> QED
  BY <1>0, <1>4, <1>5, <1>8, <1>9, SyncStepKeeps

LEMMA WriteKeeps ==
  ASSUME RecoveryInv, NEW t \in Tasks, WriteReplicas(t) \/ PushCli(t)
  PROVE  RecoveryInv'
<1>0. TypeOK /\ InFlight(t) /\ Syncing(t) /\ task[t] \in Task
  BY DEF RecoveryInv, WriteReplicas, PushCli, Syncing, TypeOK
<1>1. UNCHANGED <<rows, cooling, table, failures, settled>>
  BY DEF WriteReplicas, PushCli
<1>2. Eligible' = Eligible /\ ApiKeys' = ApiKeys
  BY <1>1 DEF Eligible, ApiKeys, Live
<1>3. PICK pc \in {"push", "publish"} : task' = [task EXCEPT ![t].pc = pc]
  BY DEF WriteReplicas, PushCli
<1>4. /\ task' \in [Tasks -> Task] /\ \A u \in Tasks : u # t => task'[u] = task[u]
      /\ task'[t].pc = pc /\ task'[t].snap = task[t].snap /\ task'[t].push = task[t].push
      /\ task'[t].alone = task[t].alone /\ task'[t].undone = task[t].undone
      /\ task'[t].kind = task[t].kind /\ task'[t].account = task[t].account
      /\ task'[t].before = task[t].before
  BY <1>0, <1>3 DEF TypeOK, Task
<1>5. TypeOK'
  <2>1. cli' \subseteq Accounts
    BY <1>0 DEF WriteReplicas, PushCli, TypeOK, Task
  <2> QED
    BY <1>0, <1>1, <1>4, <2>1 DEF TypeOK
<1>6. Prior(t)' = Prior(t) /\ (Undoable(t)' <=> Undoable(t))
  BY <1>1, <1>4 DEF Prior, Undoable
<1>7. \A u \in Tasks : u # t => (Syncing(u)' <=> Syncing(u))
  BY <1>4 DEF Syncing
<1>8. ASSUME task[t].alone PROVE AloneAtWork(t)'
  <2>0. AloneAtWork(t)
    BY <1>0, <1>8 DEF InFlight
  <2>1. CASE WriteReplicas(t)
    <3>1. /\ task[t].pc = "files" /\ task'[t].pc = "push"
          /\ cli' = (cli \cap ApiKeys) \cup (Eligible \ ApiKeys)
      BY <1>0, <2>0, <2>1 DEF WriteReplicas, AloneAtWork, TypeOK, Task
    <3>2. task[t].account \in ApiKeys => Prior(t) \ ApiKeys = Eligible \ ApiKeys
      BY DEF Prior, Eligible, Live
    <3>3. ASSUME Undoable(t), "cli" \in settled, task[t].account \in ApiKeys
          PROVE  cli' = Prior(t)
      <4>1. cli = Prior(t)
        BY <2>0, <3>1, <3>3 DEF AloneAtWork
      <4> QED
        BY <3>1, <3>2, <3>3, <4>1
    <3> QED
      BY <1>1, <1>2, <1>4, <1>6, <1>7, <2>0, <3>1, <3>3 DEF AloneAtWork
  <2>2. CASE PushCli(t)
    <3>1. /\ task[t].pc = "push" /\ task'[t].pc = "publish" /\ task[t].snap = Eligible
          /\ cli' = IF task[t].push THEN (cli \ ApiKeys) \cup (Eligible \cap ApiKeys) ELSE cli
      BY <1>0, <2>0, <2>2 DEF PushCli, AloneAtWork, TypeOK, Task
    <3>2. cli \ ApiKeys = Eligible \ ApiKeys
      BY <2>0, <3>1 DEF AloneAtWork
    <3> QED
      BY <1>1, <1>2, <1>4, <1>6, <1>7, <2>0, <3>1, <3>2 DEF AloneAtWork
  <2> QED
    BY <2>1, <2>2
<1>9. Syncing(t)'
  BY <1>4 DEF Syncing
<1> QED
  BY <1>0, <1>4, <1>5, <1>8, <1>9, SyncStepKeeps

\* A task that is done is idle, and the others are as they were.
LEMMA DoneShape ==
  ASSUME TypeOK, NEW t \in Tasks, Done(t)
  PROVE  /\ task' \in [Tasks -> Task] /\ task'[t] = Idle
         /\ \A u \in Tasks : u # t => task'[u] = task[u]
         /\ ~Syncing(t)'
<1>1. /\ task' \in [Tasks -> Task] /\ task'[t] = Idle
      /\ \A u \in Tasks : u # t => task'[u] = task[u]
  BY IdleIsATask DEF Done, TypeOK
<1> QED
  BY <1>1, IdleIsATask DEF Syncing

LEMMA PublishKeeps ==
  ASSUME RecoveryInv, NEW t \in Tasks, Publish(t)
  PROVE  RecoveryInv'
<1>0. TypeOK /\ InFlight(t) /\ Syncing(t) /\ task[t] \in Task
  BY DEF RecoveryInv, Publish, Syncing, TypeOK
<1>1. UNCHANGED <<rows, cooling, cli, failures>> /\ Done(t) /\ table' = task[t].snap
  BY DEF Publish
<1>2. Eligible' = Eligible
  BY <1>1 DEF Eligible, Live
<1>3. /\ task' \in [Tasks -> Task] /\ \A u \in Tasks : u # t => task'[u] = task[u]
      /\ ~Syncing(t)'
  BY <1>0, <1>1, DoneShape
<1>4. TypeOK'
  <2>1. settled' \subseteq Documents
    BY <1>0 DEF Publish, TypeOK, Documents
  <2>2. table' \subseteq Accounts
    BY <1>0, <1>1 DEF Task
  <2> QED
    BY <1>0, <1>1, <1>3, <2>1, <2>2 DEF TypeOK
<1>5. ~task[t].alone => settled' = {}
  BY DEF Publish
<1>6. ASSUME task[t].alone
      PROVE  ("table" \in settled' => table' = Eligible') /\ ("cli" \in settled' => cli' = Eligible')
  <2>1. AloneAtWork(t) /\ task[t].pc = "publish"
    BY <1>0, <1>6 DEF InFlight, Publish
  <2>2. task[t].snap = Eligible /\ cli \ ApiKeys = Eligible \ ApiKeys
    BY <2>1 DEF AloneAtWork
  <2>3. CASE task[t].push
    BY <1>1, <1>2, <2>1, <2>2, <2>3 DEF AloneAtWork
  <2>4. CASE ~task[t].push
    <3>1. "cli" \in settled' => "cli" \in settled /\ task[t].account \notin ApiKeys
      BY <1>6, <2>4 DEF Publish
    <3>2. "cli" \in settled' => cli \cap ApiKeys = Eligible \cap ApiKeys
      BY <2>1, <3>1 DEF AloneAtWork
    <3>3. "cli" \in settled' => cli = Eligible
      BY <2>2, <3>2
    <3> QED
      BY <1>1, <1>2, <2>2, <3>3
  <2> QED
    BY <2>3, <2>4
<1> QED
  BY <1>0, <1>3, <1>4, <1>5, <1>6, SyncStepKeeps

LEMMA SyncFailsKeeps ==
  ASSUME RecoveryInv, NEW t \in Tasks, SyncFails(t)
  PROVE  RecoveryInv'
<1>0. TypeOK /\ InFlight(t) /\ Syncing(t) /\ task[t] \in Task
  BY DEF RecoveryInv, SyncFails, Syncing, TypeOK
<1>1. UNCHANGED <<cooling, table, cli>> /\ Done(t) /\ Restore(t) /\ Failure
  BY DEF SyncFails
<1>2. PICK a \in Accounts : a = task[t].account
  BY <1>0 DEF Task
<1>3. PICK b \in Row : b = task[t].before
  BY <1>0 DEF Task
<1>4. PICK r \in Row : r = [rows[a] EXCEPT !.status = b.status, !.schedulable = b.schedulable]
  BY <1>0 DEF TypeOK, Row
<1>5. /\ r.kind = rows[a].kind /\ r.life = rows[a].life /\ r.status = b.status
      /\ r.schedulable = b.schedulable
  BY <1>0, <1>4 DEF TypeOK, Row
<1>6. \/ rows' = [rows EXCEPT ![a] = r] /\ Live(a) /\ task[t].kind = "recover"
      \/ rows' = rows /\ ~(Live(a) /\ task[t].kind = "recover")
  BY <1>0, <1>1, <1>2, <1>3, <1>4 DEF Restore, TypeOK
<1>7. /\ rows' \in [Accounts -> Row]
      /\ \A c \in Accounts : c # a => rows'[c] = rows[c]
      /\ \A c \in Accounts : rows'[c].kind = rows[c].kind
  <2>1. CASE rows' = [rows EXCEPT ![a] = r]
    BY <1>0, <1>5, <2>1, RowPut
  <2>2. CASE rows' = rows
    BY <1>0, <2>2 DEF TypeOK
  <2> QED
    BY <1>6, <2>1, <2>2
<1>8. /\ task' \in [Tasks -> Task] /\ \A u \in Tasks : u # t => task'[u] = task[u]
      /\ ~Syncing(t)'
  BY <1>0, <1>1, DoneShape
<1>9. TypeOK'
  <2>1. cooling' \subseteq {c \in Accounts : rows'[c].kind # "key"}
    BY <1>0, <1>1, <1>7 DEF TypeOK
  <2>2. failures' \in 0 .. MaxFailures
    BY <1>0, <1>1, RecoveryAssumption DEF TypeOK, Failure
  <2>3. settled' \subseteq Documents
    BY <1>0 DEF SyncFails, TypeOK
  <2> QED
    BY <1>0, <1>1, <1>7, <1>8, <2>1, <2>2, <2>3 DEF TypeOK
<1>10. ~task[t].alone => settled' = {}
  BY <1>0 DEF InFlight, SyncFails
<1>11. ASSUME task[t].alone
       PROVE  ("table" \in settled' => table' = Eligible') /\ ("cli" \in settled' => cli' = Eligible')
  <2>1. AloneAtWork(t)
    BY <1>0, <1>11 DEF InFlight
  <2>2. CASE ~Undoable(t)
    BY <2>2 DEF SyncFails, Undoable
  <2>3. CASE Undoable(t)
    <3>1. Eligible' = Prior(t)
      <4>1. CASE Live(a)
        <5>1. rows'[a] = r
          BY <1>0, <1>6, <2>3, <4>1 DEF Undoable, TypeOK
        <5> QED
          BY <1>2, <1>3, <1>5, <1>7, <4>1, <5>1 DEF Eligible, Prior, Live
      <4>2. CASE ~Live(a)
        <5>1. rows' = rows
          BY <1>6, <4>2
        <5> QED
          BY <1>2, <4>2, <5>1 DEF Eligible, Prior, Live
      <4> QED
        BY <4>1, <4>2
    <3>2. "table" \in settled' => table = Prior(t)
      BY <2>1, <2>3 DEF SyncFails, AloneAtWork
    <3>3. "cli" \in settled' => cli = Prior(t)
      BY <2>1, <2>3 DEF SyncFails, AloneAtWork, Undoable
    <3> QED
      BY <1>1, <3>1, <3>2, <3>3
  <2> QED
    BY <2>2, <2>3
<1> QED
  BY <1>0, <1>8, <1>9, <1>10, <1>11, SyncStepKeeps

\* The cooldown begins for a login that can be used again, never for an API key.
LEMMA CoolingTyped ==
  ASSUME TypeOK, NEW a \in Accounts, NoteReauthFailure(a)
  PROVE  cooling' \subseteq {b \in Accounts : rows[b].kind # "key"}
BY DEF TypeOK, NoteReauthFailure

LEMMA LoginFailsKeeps ==
  ASSUME RecoveryInv, NEW t \in Tasks, LoginFails(t)
  PROVE  RecoveryInv'
<1>0. TypeOK /\ task[t] \in Task
  BY DEF RecoveryInv, TypeOK
<1>1. PICK a \in Accounts : a = task[t].account
  BY <1>0 DEF Task
<1>2. /\ UNCHANGED <<table, cli>> /\ settled' = {} /\ Failure /\ NoteReauthFailure(a)
      /\ task' = [u \in Tasks |-> IF u = t THEN Idle ELSE Overtaken(u)]
      /\ rows' = [rows EXCEPT ![a].status = "error", ![a].schedulable = FALSE]
  BY <1>1 DEF LoginFails
<1>3. PICK r \in Row : r = [rows[a] EXCEPT !.status = "error", !.schedulable = FALSE]
  BY <1>0 DEF TypeOK, Row
<1>4. r.kind = rows[a].kind /\ rows' = [rows EXCEPT ![a] = r]
  BY <1>0, <1>2, <1>3 DEF TypeOK, Row
<1>5. /\ rows' \in [Accounts -> Row]
      /\ \A c \in Accounts : rows'[c].kind = rows[c].kind
  BY <1>0, <1>4, RowPut
<1>6. /\ task' \in [Tasks -> Task] /\ task'[t] = Idle
      /\ \A u \in Tasks : u # t => task'[u] = Overtaken(u)
  BY <1>0, <1>2, IdleIsATask, OvertakenTyped
<1>7. TypeOK'
  <2>1. cooling' \subseteq {c \in Accounts : rows'[c].kind # "key"}
    BY <1>0, <1>2, <1>5, CoolingTyped
  <2>2. failures' \in 0 .. MaxFailures
    BY <1>0, <1>2, RecoveryAssumption DEF TypeOK, Failure
  <2> QED
    BY <1>0, <1>2, <1>5, <1>6, <2>1, <2>2 DEF TypeOK
<1>8. \A u \in Tasks : Syncing(u)' => ~task'[u].alone /\ ~task'[u].undone
  <2>1. ~Syncing(t)'
    BY <1>6, IdleIsATask DEF Syncing
  <2>2. ASSUME NEW u \in Tasks, u # t PROVE Syncing(u)' => ~task'[u].alone /\ ~task'[u].undone
    BY <1>0, <1>6, <2>2, OvertakenTyped DEF Syncing
  <2> QED
    BY <2>1, <2>2
<1> QED
  BY <1>2, <1>7, <1>8 DEF RecoveryInv, InFlight, PublishedFollowsTheRows

\* A request that changes the row of an account, from a task that is idle.
LEMMA RequestKeeps ==
  ASSUME RecoveryInv, NEW t \in Tasks, NEW a \in Accounts,
         Create(t, a) \/ Edit(t, a) \/ Delete(t, a) \/ RecoverLocally(t, a)
  PROVE  RecoveryInv'
<1>0. TypeOK /\ rows[a] \in Row
  BY DEF RecoveryInv, TypeOK
<1>1. /\ ~Syncing(t) /\ UNCHANGED <<table, cli, settled, failures>> /\ cooling' \subseteq cooling
      /\ Idle \in Task /\ Idle.kind = "edit"
  BY IdleIsATask DEF Syncing, Create, Edit, Delete, RecoverLocally
<1>2. \E r \in Row, push \in BOOLEAN : r.kind = rows[a].kind /\ Change(t, a, Idle, r, push)
  <2>1. CASE Create(t, a)
    <3>1. PICK status \in {"active", "error", "disabled"}, login \in BOOLEAN :
            Change(t, a, Idle, [rows[a] EXCEPT !.life = "live", !.status = status,
                                               !.schedulable = TRUE], login)
      BY <2>1 DEF Create
    <3>2. PICK r \in Row : r = [rows[a] EXCEPT !.life = "live", !.status = status,
                                               !.schedulable = TRUE]
      BY <1>0 DEF Row
    <3>3. r.kind = rows[a].kind
      BY <1>0, <3>2 DEF Row
    <3>4. Change(t, a, Idle, r, login)
      BY <3>1, <3>2
    <3> QED
      BY <3>3, <3>4
  <2>2. CASE Edit(t, a)
    <3>1. PICK status \in {"active", "error", "disabled"}, schedulable \in BOOLEAN :
            Change(t, a, Idle, [rows[a] EXCEPT !.status = status,
                                               !.schedulable = schedulable], FALSE)
      BY <2>2 DEF Edit
    <3>2. PICK r \in Row : r = [rows[a] EXCEPT !.status = status, !.schedulable = schedulable]
      BY <1>0 DEF Row
    <3>3. r.kind = rows[a].kind
      BY <1>0, <3>2 DEF Row
    <3>4. Change(t, a, Idle, r, FALSE)
      BY <3>1, <3>2
    <3> QED
      BY <3>3, <3>4
  <2>3. CASE Delete(t, a)
    <3>1. PICK r \in Row : r = [rows[a] EXCEPT !.life = "deleted", !.schedulable = FALSE]
      BY <1>0 DEF Row
    <3>2. r.kind = rows[a].kind
      BY <1>0, <3>1 DEF Row
    <3>3. Change(t, a, Idle, r, TRUE)
      BY <2>3, <3>1 DEF Delete
    <3> QED
      BY <3>2, <3>3
  <2>4. CASE RecoverLocally(t, a)
    <3>1. PICK r \in Row : r = LoggedIn(a)
      BY <1>0 DEF Row, LoggedIn
    <3>2. r.kind = rows[a].kind
      BY <1>0, <3>1 DEF Row, LoggedIn
    <3>3. Change(t, a, Idle, r, TRUE)
      BY <2>4, <3>1 DEF RecoverLocally
    <3> QED
      BY <3>2, <3>3
  <2> QED
    BY <2>1, <2>2, <2>3, <2>4
<1>3. PICK r \in Row, push \in BOOLEAN : r.kind = rows[a].kind /\ Change(t, a, Idle, r, push)
  BY <1>2
<1> QED
  BY <1>1, <1>3, ChangeKeeps

\* What a login and a probe set the row to: it is as alive as it was, and of the same kind.
LEMMA LoggedInRow ==
  ASSUME TypeOK, NEW a \in Accounts
  PROVE  LoggedIn(a) \in Row /\ LoggedIn(a).kind = rows[a].kind /\ LoggedIn(a).life = rows[a].life
<1>1. rows[a] \in Row
  BY DEF TypeOK
<1> QED
  BY <1>1 DEF LoggedIn, Row

LEMMA LoginWriteKeeps ==
  ASSUME RecoveryInv, NEW t \in Tasks, LoginWrite(t)
  PROVE  RecoveryInv'
<1>0. TypeOK /\ task[t] \in Task
  BY DEF RecoveryInv, TypeOK
<1>1. PICK a \in Accounts : a = task[t].account
  BY <1>0 DEF Task
<1>2. PICK r \in Row : r = LoggedIn(a) /\ r.kind = rows[a].kind
  BY <1>0, LoggedInRow
<1>3. /\ Change(t, a, Idle, r, TRUE) /\ UNCHANGED <<table, cli, settled, failures>>
      /\ cooling' \subseteq cooling /\ ~Syncing(t) /\ Idle \in Task /\ Idle.kind = "edit"
  BY <1>1, <1>2, IdleIsATask DEF LoginWrite, Syncing
<1> QED
  BY <1>2, <1>3, ChangeKeeps

LEMMA ProbeSucceedsKeeps ==
  ASSUME RecoveryInv, NEW t \in Tasks, ProbeSucceeds(t)
  PROVE  RecoveryInv'
<1>0. TypeOK /\ task[t] \in Task
  BY DEF RecoveryInv, TypeOK
<1>1. PICK a \in Accounts : a = task[t].account
  BY <1>0 DEF Task
<1>2. /\ UNCHANGED <<table, cli, settled, failures>>
      /\ cooling' \subseteq cooling /\ ~Syncing(t) /\ Idle \in Task /\ Idle.kind = "edit"
  BY IdleIsATask DEF ProbeSucceeds, Syncing
<1>3. CASE Live(a) /\ (task[t].kind = "recover" \/ rows[a] # LoggedIn(a))
  <2>1. PICK r \in Row : r = LoggedIn(a) /\ r.kind = rows[a].kind /\ r.life = rows[a].life
    BY <1>0, LoggedInRow
  <2>2. PICK q \in Task : q = IF task[t].kind = "recover" THEN task[t] ELSE Idle
    BY <1>0, <1>2
  <2>3. Change(t, a, q, r, TRUE)
    BY <1>1, <1>3, <2>1, <2>2 DEF ProbeSucceeds
  <2> QED
    BY <1>2, <2>1, <2>3, ChangeKeeps
<1>4. CASE ~(Live(a) /\ (task[t].kind = "recover" \/ rows[a] # LoggedIn(a)))
  <2>1. Done(t) /\ UNCHANGED rows
    BY <1>1, <1>4 DEF ProbeSucceeds
  <2>2. /\ task' \in [Tasks -> Task] /\ \A u \in Tasks : u # t => task'[u] = task[u]
        /\ ~Syncing(t)'
    BY <1>0, <2>1, DoneShape
  <2>3. TypeOK'
    BY <1>0, <1>2, <2>1, <2>2 DEF TypeOK
  <2> QED
    BY <1>2, <2>1, <2>2, <2>3, QuietTaskKeeps
<1> QED
  BY <1>3, <1>4

LEMMA ProbeFailsKeeps ==
  ASSUME RecoveryInv, NEW t \in Tasks, ProbeFails(t)
  PROVE  RecoveryInv'
<1>0. TypeOK /\ task[t] \in Task
  BY DEF RecoveryInv, TypeOK
<1>1. PICK a \in Accounts : a = task[t].account
  BY <1>0 DEF Task
<1>2. UNCHANGED <<rows, table, cli, settled, failures>> /\ Done(t) /\ ~Syncing(t)
  BY DEF ProbeFails, Syncing
<1>3. /\ task' \in [Tasks -> Task] /\ \A u \in Tasks : u # t => task'[u] = task[u]
      /\ ~Syncing(t)'
  BY <1>0, <1>2, DoneShape
<1>4. cooling' \subseteq {b \in Accounts : rows[b].kind # "key"}
  <2>1. NoteReauthFailure(a) \/ cooling' = cooling
    BY <1>1 DEF ProbeFails
  <2> QED
    BY <1>0, <2>1, CoolingTyped DEF TypeOK
<1>5. TypeOK'
  BY <1>0, <1>2, <1>3, <1>4 DEF TypeOK
<1> QED
  BY <1>2, <1>3, <1>5, QuietTaskKeeps

\* A login that has looked up its account, and a probe that starts.
LEMMA StartKeeps ==
  ASSUME RecoveryInv, NEW t \in Tasks, NEW a \in Accounts, LoginLookup(t, a) \/ StartProbe(t, a)
  PROVE  RecoveryInv'
<1>0. TypeOK /\ rows[a] \in Row /\ Idle \in Task
  BY IdleIsATask DEF RecoveryInv, TypeOK
<1>1. UNCHANGED <<rows, cooling, table, cli, settled, failures>> /\ ~Syncing(t)
  BY DEF LoginLookup, StartProbe, Syncing
<1>2. \E q \in Task : task' = [task EXCEPT ![t] = q] /\ q.pc \in {"login", "probing"}
  <2>1. CASE LoginLookup(t, a)
    <3>1. [Idle EXCEPT !.pc = "login", !.account = a] \in Task
      BY <1>0 DEF Task
    <3>2. [Idle EXCEPT !.pc = "login", !.account = a].pc = "login"
      BY <1>0 DEF Task
    <3> QED
      BY <2>1, <3>1, <3>2 DEF LoginLookup
  <2>2. CASE StartProbe(t, a)
    <3>1. PICK k \in {"recover", "scheduled"} :
            task' = [task EXCEPT ![t] =
              [Idle EXCEPT !.pc = "probing", !.kind = k, !.account = a,
                           !.before = IF k = "recover" THEN rows[a] ELSE @]]
      BY <2>2 DEF StartProbe
    <3>2. PICK b \in Row : b = IF k = "recover" THEN rows[a] ELSE Idle.before
      BY <1>0 DEF Task
    <3>3. PICK q : q = [Idle EXCEPT !.pc = "probing", !.kind = k, !.account = a, !.before = b]
      OBVIOUS
    <3>4. q \in Task /\ q.pc = "probing"
      BY <1>0, <3>3 DEF Task
    <3>5. task' = [task EXCEPT ![t] = q]
      BY <1>0, <3>1, <3>2, <3>3 DEF Task
    <3> QED
      BY <3>4, <3>5
  <2> QED
    BY <2>1, <2>2
<1>3. /\ task' \in [Tasks -> Task] /\ \A u \in Tasks : u # t => task'[u] = task[u]
      /\ ~Syncing(t)'
  BY <1>0, <1>2 DEF TypeOK, Syncing
<1>4. TypeOK'
  BY <1>0, <1>1, <1>3 DEF TypeOK
<1> QED
  BY <1>1, <1>3, <1>4, QuietTaskKeeps

LEMMA CooldownKeeps ==
  ASSUME RecoveryInv, NEW a \in Accounts, UsagePoll401(a) \/ CooldownEnds(a)
  PROVE  RecoveryInv'
<1>0. TypeOK /\ UNCHANGED <<rows, table, cli, task, failures, settled>>
  BY DEF RecoveryInv, UsagePoll401, CooldownEnds
<1>1. cooling' \subseteq {b \in Accounts : rows[b].kind # "key"}
  <2>1. NoteReauthFailure(a) \/ cooling' \subseteq cooling
    BY DEF UsagePoll401, CooldownEnds
  <2> QED
    BY <1>0, <2>1, CoolingTyped DEF TypeOK
<1>2. TypeOK'
  BY <1>0, <1>1 DEF TypeOK
<1> QED
  BY <1>0, <1>2, QuietTaskKeeps

LEMMA RestartKeeps ==
  ASSUME RecoveryInv, Restart
  PROVE  RecoveryInv'
<1>0. TypeOK /\ UNCHANGED <<rows, cooling>> /\ task' = [t \in Tasks |-> Idle]
  BY DEF RecoveryInv, Restart
<1>1. Eligible' = Eligible /\ Eligible \subseteq Accounts
  BY <1>0 DEF Eligible, Live
<1>2. task' \in [Tasks -> Task] /\ \A u \in Tasks : ~Syncing(u)'
  BY <1>0, IdleIsATask DEF Syncing
<1>3. TypeOK'
  <2>1. failures' \in 0 .. MaxFailures
    BY <1>0, RecoveryAssumption DEF Restart, TypeOK, Failure
  <2>2. table' \subseteq Accounts /\ cli' \subseteq Accounts /\ settled' \subseteq Documents
    BY <1>0, <1>1 DEF Restart, TypeOK
  <2> QED
    BY <1>0, <1>2, <2>1, <2>2 DEF TypeOK
<1>4. PublishedFollowsTheRows'
  BY <1>1 DEF Restart, PublishedFollowsTheRows
<1> QED
  BY <1>2, <1>3, <1>4 DEF RecoveryInv, InFlight

LEMMA RecoveryInit == Init => RecoveryInv
<1> SUFFICES ASSUME Init PROVE RecoveryInv
  OBVIOUS
<1>1. task \in [Tasks -> Task] /\ \A u \in Tasks : ~Syncing(u)
  BY IdleIsATask DEF Init, Syncing
<1>2. Eligible \subseteq Accounts
  BY DEF Eligible
<1>3. TypeOK
  BY <1>1, <1>2, RecoveryAssumption DEF Init, TypeOK
<1> QED
  BY <1>1, <1>3 DEF Init, RecoveryInv, InFlight, PublishedFollowsTheRows

LEMMA RecoveryStep == RecoveryInv /\ [Next]_vars => RecoveryInv'
<1> SUFFICES ASSUME RecoveryInv, [Next]_vars PROVE RecoveryInv'
  OBVIOUS
<1>1. ASSUME NEW t \in Tasks, TaskStep(t) PROVE RecoveryInv'
  BY <1>1, LoginWriteKeeps, LoginFailsKeeps, ProbeFailsKeeps, ProbeSucceedsKeeps, ReadRowsKeeps,
     WriteKeeps, PublishKeeps, SyncFailsKeeps DEF TaskStep
<1>2. ASSUME NEW t \in Tasks, NEW a \in Accounts, Request(t, a) PROVE RecoveryInv'
  BY <1>2, RequestKeeps, StartKeeps DEF Request
<1>3. ASSUME NEW a \in Accounts, UsagePoll401(a) \/ CooldownEnds(a) PROVE RecoveryInv'
  BY <1>3, CooldownKeeps
<1>4. CASE Restart
  BY <1>4, RestartKeeps
<1>5. CASE UNCHANGED vars
  <2>1. UNCHANGED <<rows, cooling, table, cli, task, failures, settled>>
    BY <1>5 DEF vars
  <2>2. TypeOK'
    BY <2>1 DEF RecoveryInv, TypeOK
  <2> QED
    BY <2>1, <2>2, QuietTaskKeeps
<1> QED
  BY <1>1, <1>2, <1>3, <1>4, <1>5 DEF Next

\* While the Host runs, each task that syncs alone is as far as its phase says: it has read the
\* rows as they are, the replicas and the configuration file hold what it has written of them,
\* and a recovery still knows the state that its failure would restore; and a task that others
\* have overtaken restores nothing that anyone counts on.
THEOREM RecoveryInvariant == Spec => []RecoveryInv
BY RecoveryInit, RecoveryStep, PTL DEF Spec

\* However requests, logins, probes and syncs interleave, and wherever one fails or the Host
\* restarts: when no sync is under way, the route table and what CLIProxyAPI has tell the
\* accounts that may be used, unless two syncs have overlapped or one has failed for good.
THEOREM PublishedFollows == Spec => []PublishedFollowsTheRows
<1>1. RecoveryInv => PublishedFollowsTheRows
  BY DEF RecoveryInv
<1> QED
  BY <1>1, RecoveryInvariant, PTL

-----------------------------------------------------------------------------
(* The live routing and the quota (Quota). *)

ThreadFields == {"at", "cfg", "row", "evidence", "window", "obs", "isolated", "changed"}

\* What each thread can be doing.  (Of the data that a thread reads nothing is needed here.)
Places ==
  /\ DOMAIN thread = Q!Threads /\ \A w \in Q!Threads : DOMAIN thread[w] = ThreadFields
  /\ DOMAIN row = Accounts
  /\ thread["refresh"].at \in {"idle", "query", "reconcile", "done"}
  /\ thread["probe"].at \in {"idle", "query", "reconcile", "sync", "put", "done", "failed"}
  /\ thread["sync"].at \in {"idle", "sync", "put", "done", "failed"}
  /\ thread["apply"].at \in {"idle", "sync", "put", "done", "failed"}
  /\ thread["refresh"].at = "idle" => ~thread["refresh"].changed

\* Somebody will yet sync the routing, or find that it has been overtaken.
Promised ==
  \/ pending
  \/ thread["refresh"].changed
  \/ thread["probe"].changed /\ thread["probe"].at \in {"query", "reconcile"}
  \/ \E w \in Q!Threads : thread[w].at = "sync"
  \/ \E w \in Q!Threads : thread[w].at = "put" /\ Q!Overtaken(w)

\* Nobody will, and nobody has to: a sync that is about to write has read the row as it is,
\* and with none the routing is right.
Kept(a) ==
  /\ \A w \in Q!Threads : thread[w].at = "put" => (a \in thread[w].isolated <=> Q!Off(row[a]))
  /\ \/ \E w \in Q!Threads : thread[w].at = "put"
     \/ a \in routed <=> a \in Q!Selected(config) /\ ~Q!Off(row[a])

QuotaInv == Places /\ \A a \in Accounts \ adrift : Promised \/ Kept(a)

\* A step that neither reads for a sync nor writes one: the promise stays, or there was none
\* and the rows that count are as they were.
LEMMA NoSyncKeeps ==
  ASSUME QuotaInv, Places', adrift \subseteq adrift', UNCHANGED <<config, routed>>,
         Promised => Promised',
         \A w \in Q!Threads : thread'[w].at = "put" <=> thread[w].at = "put",
         \A w \in Q!Threads : thread[w].at = "put" => thread'[w].isolated = thread[w].isolated,
         Promised' \/ \A a \in Accounts \ adrift' : row'[a] = row[a]
  PROVE  QuotaInv'
<1> SUFFICES ASSUME ~Promised', NEW a \in Accounts \ adrift' PROVE Kept(a)'
  BY DEF QuotaInv
<1>1. Kept(a) /\ row'[a] = row[a]
  BY DEF QuotaInv
<1> QED
  BY <1>1 DEF Kept, Q!Off, Q!Selected

\* A step of one thread that is not at a sync keeps what the others have promised.
LEMMA PromiseStays ==
  ASSUME NEW w \in Q!Threads, \A v \in Q!Threads : v # w => thread'[v] = thread[v],
         thread[w].at \notin {"sync", "put"}, thread'[w].at # "put", UNCHANGED config,
         pending => pending', thread[w].changed => thread'[w].changed,
         w = "probe" /\ thread[w].changed /\ thread[w].at \in {"query", "reconcile"} =>
           thread'[w].at \in {"query", "reconcile", "sync"}
  PROVE  Promised => Promised'
<1> SUFFICES ASSUME Promised PROVE Promised'
  OBVIOUS
<1>0. {"refresh", "probe"} \subseteq Q!Threads
  BY DEF Q!Threads
<1>1. CASE pending
  BY <1>1 DEF Promised
<1>2. CASE thread["refresh"].changed
  BY <1>0, <1>2 DEF Promised
<1>3. CASE thread["probe"].changed /\ thread["probe"].at \in {"query", "reconcile"}
  BY <1>0, <1>3 DEF Promised
<1>4. ASSUME NEW u \in Q!Threads, thread[u].at = "sync" PROVE Promised'
  BY <1>4 DEF Promised
<1>5. ASSUME NEW u \in Q!Threads, thread[u].at = "put", Q!Overtaken(u) PROVE Promised'
  <2>1. u # w /\ thread'[u] = thread[u]
    BY <1>5
  <2>2. Q!Overtaken(u)'
    BY <1>5, <2>1 DEF Q!Overtaken, Q!At
  <2> QED
    BY <1>5, <2>1, <2>2 DEF Promised
<1> QED
  BY <1>1, <1>2, <1>3, <1>4, <1>5 DEF Promised

\* One thread moves, and with it nothing that the sync of another depends on.
LEMMA ThreadKeeps ==
  ASSUME QuotaInv, Places', NEW w \in Q!Threads, adrift \subseteq adrift',
         UNCHANGED <<config, routed>>, \A v \in Q!Threads : v # w => thread'[v] = thread[v],
         thread[w].at \notin {"sync", "put"}, thread'[w].at # "put",
         pending => pending', thread[w].changed => thread'[w].changed,
         w = "probe" /\ thread[w].changed /\ thread[w].at \in {"query", "reconcile"} =>
           thread'[w].at \in {"query", "reconcile", "sync"},
         Promised' \/ \A a \in Accounts \ adrift' : row'[a] = row[a]
  PROVE  QuotaInv'
<1>1. Promised => Promised'
  BY PromiseStays
<1> QED
  BY <1>1, NoSyncKeeps

LEMMA IdleThread ==
  /\ DOMAIN Q!Idle = ThreadFields /\ Q!Idle.at = "idle" /\ ~Q!Idle.changed
  /\ \A place, cfg, rs : LET q == [Q!Idle EXCEPT !.at = place, !.cfg = cfg, !.row = rs]
                         IN  DOMAIN q = ThreadFields /\ q.at = place /\ ~q.changed
  /\ \A place, cfg : LET q == [Q!Idle EXCEPT !.at = place, !.cfg = cfg]
                     IN  DOMAIN q = ThreadFields /\ q.at = place /\ ~q.changed
  /\ \A place, cfg, c : LET q == [Q!Idle EXCEPT !.at = place, !.cfg = cfg, !.changed = c]
                        IN  DOMAIN q = ThreadFields /\ q.at = place /\ q.changed = c
BY DEF Q!Idle, ThreadFields

\* The threads with one of them put in another state.
LEMMA ThreadPut ==
  ASSUME Places, NEW w \in Q!Threads, NEW q, DOMAIN q = ThreadFields,
         thread' = [thread EXCEPT ![w] = q]
  PROVE  /\ DOMAIN thread' = Q!Threads /\ \A v \in Q!Threads : DOMAIN thread'[v] = ThreadFields
         /\ thread'[w] = q /\ \A v \in Q!Threads : v # w => thread'[v] = thread[v]
BY DEF Places

LEMMA BeginKeeps ==
  ASSUME QuotaInv, NEW w \in {"refresh", "probe"}, Q!Begin(w)
  PROVE  QuotaInv'
<1>0. Places /\ w \in Q!Threads /\ ThreadFields = ThreadFields
  BY DEF QuotaInv, Q!Threads
<1>1. PICK q : q = [Q!Idle EXCEPT !.at = "query", !.cfg = config, !.row = row]
  OBVIOUS
<1>2. DOMAIN q = ThreadFields /\ q.at = "query" /\ ~q.changed
  BY <1>1, IdleThread
<1>3. /\ thread' = [thread EXCEPT ![w] = q] /\ thread[w].at = "idle"
      /\ UNCHANGED <<config, row, routed, pending, adrift>>
  BY <1>1 DEF Q!Begin, Q!World, Q!Busy
<1>4. /\ DOMAIN thread' = Q!Threads /\ \A v \in Q!Threads : DOMAIN thread'[v] = ThreadFields
      /\ thread'[w] = q /\ \A v \in Q!Threads : v # w => thread'[v] = thread[v]
  BY <1>0, <1>2, <1>3, ThreadPut
<1>5. Places'
  BY <1>0, <1>2, <1>3, <1>4 DEF Places, Q!Threads
<1>6. w = "refresh" => ~thread[w].changed
  BY <1>0, <1>3 DEF Places
<1>7. CASE w = "refresh"
  BY <1>0, <1>2, <1>3, <1>4, <1>5, <1>6, <1>7, ThreadKeeps
<1>8. CASE w = "probe"
  <2>1. Promised => Promised'
    BY <1>0, <1>2, <1>3, <1>4, <1>8 DEF Promised, Q!Overtaken, Q!At, Q!Threads
  <2>2. \A v \in Q!Threads : thread'[v].at = "put" <=> thread[v].at = "put"
    BY <1>2, <1>3, <1>4
  <2>3. \A v \in Q!Threads : thread[v].at = "put" => thread'[v].isolated = thread[v].isolated
    BY <1>2, <1>3, <1>4
  <2> QED
    BY <1>3, <1>5, <2>1, <2>2, <2>3, NoSyncKeeps
<1> QED
  BY <1>7, <1>8

\* In a pass of query_usage a thread stays at its place, or goes on from the queries to the
\* observations, and does not forget that it changed a row.
InPass(w) ==
  /\ DOMAIN thread' = Q!Threads /\ \A v \in Q!Threads : DOMAIN thread'[v] = ThreadFields
  /\ \A v \in Q!Threads : v # w => thread'[v] = thread[v]
  /\ thread[w].at \in {"query", "reconcile"} /\ thread'[w].at \in {"query", "reconcile"}
  /\ thread[w].changed => thread'[w].changed

LEMMA PassKeeps ==
  ASSUME QuotaInv, NEW w \in Q!Threads, InPass(w), DOMAIN row' = Accounts,
         adrift \subseteq adrift', UNCHANGED <<config, routed, pending>>,
         thread'[w].changed \/ \A a \in Accounts \ adrift' : row'[a] = row[a]
  PROVE  QuotaInv'
<1>0. Places /\ w \in {"refresh", "probe"}
  BY DEF QuotaInv, Places, Q!Threads, InPass
<1>1. Places'
  BY <1>0 DEF Places, InPass, Q!Threads
<1>2. thread'[w].changed => Promised'
  BY <1>0 DEF Promised, InPass
<1> QED
  BY <1>0, <1>1, <1>2, ThreadKeeps DEF InPass

LEMMA QueryKeeps ==
  ASSUME QuotaInv, NEW w \in Q!Threads, NEW a \in Accounts, Q!Query(w, a)
  PROVE  QuotaInv'
<1>0. Places
  BY DEF QuotaInv
<1>1. thread[w].at = "query" /\ UNCHANGED <<config, routed, pending, adrift>>
  BY DEF Q!Query, Q!At, Q!World
<1>2. /\ DOMAIN thread' = Q!Threads /\ \A v \in Q!Threads : DOMAIN thread'[v] = ThreadFields
      /\ \A v \in Q!Threads : v # w => thread'[v] = thread[v]
  BY <1>0 DEF Q!Query, Places
<1>3. thread'[w].at = thread[w].at /\ (thread[w].changed => thread'[w].changed)
      /\ (thread'[w].changed \/ row' = row)
  <2>1. CASE /\ thread' = [thread EXCEPT ![w].evidence[a] = "usable",
                                         ![w].window[a] = upstream[a].window, ![w].changed = TRUE,
                                         ![w].row[a] = [status |-> "active", schedulable |-> TRUE]]
    BY <1>0, <2>1 DEF Places, ThreadFields
  <2>2. CASE /\ thread' = [thread EXCEPT ![w].evidence[a] = Q!Evidence(a),
                                         ![w].window[a] = upstream[a].window,
                                         ![w].isolated = @ \cup {a}, ![w].changed = TRUE,
                                         ![w].row[a].schedulable = FALSE]
    BY <1>0, <2>2 DEF Places, ThreadFields
  <2>3. ASSUME NEW isolates,
               thread' = [thread EXCEPT ![w].evidence[a] = Q!Evidence(a),
                            ![w].window[a] = IF readable THEN upstream[a].window ELSE 0,
                            ![w].isolated = IF isolates THEN @ \cup {a} ELSE @],
               row' = row
        PROVE  /\ thread'[w].at = thread[w].at /\ (thread[w].changed => thread'[w].changed)
               /\ (thread'[w].changed \/ row' = row)
    BY <1>0, <2>3 DEF Places, ThreadFields
  <2> QED
    BY <2>1, <2>2, <2>3 DEF Q!Query
<1>5. DOMAIN row' = Accounts
  BY <1>0 DEF Q!Query, Places, Q!Revive, Q!Switch
<1> QED
  BY <1>1, <1>2, <1>3, <1>5, PassKeeps DEF InPass

LEMMA ReadObservationsKeeps ==
  ASSUME QuotaInv, NEW w \in Q!Threads, Q!ReadObservations(w)
  PROVE  QuotaInv'
<1>0. Places
  BY DEF QuotaInv
<1>1. thread[w].at = "query" /\ UNCHANGED <<config, routed, pending, adrift, row>>
  BY DEF Q!ReadObservations, Q!At, Q!World
<1>2. /\ DOMAIN thread' = Q!Threads /\ \A v \in Q!Threads : DOMAIN thread'[v] = ThreadFields
      /\ \A v \in Q!Threads : v # w => thread'[v] = thread[v]
  BY <1>0 DEF Q!ReadObservations, Places
<1>3. thread'[w].at = "reconcile" /\ (thread[w].changed => thread'[w].changed)
  BY <1>0 DEF Q!ReadObservations, Places, ThreadFields
<1>4. DOMAIN row' = Accounts /\ (thread'[w].changed \/ row' = row)
  BY <1>0, <1>1 DEF Places
<1> QED
  BY <1>1, <1>2, <1>3, <1>4, PassKeeps DEF InPass

LEMMA ReconcileKeeps ==
  ASSUME QuotaInv, NEW w \in Q!Threads, NEW a \in Accounts, Q!Reconcile(w, a)
  PROVE  QuotaInv'
<1>0. Places
  BY DEF QuotaInv
<1>1. thread[w].at = "reconcile" /\ UNCHANGED <<config, pending>>
  BY DEF Q!Reconcile, Q!At, Q!World
<1>2. /\ DOMAIN thread' = Q!Threads /\ \A v \in Q!Threads : DOMAIN thread'[v] = ThreadFields
      /\ \A v \in Q!Threads : v # w => thread'[v] = thread[v]
  BY <1>0 DEF Q!Reconcile, Places
<1> DEFINE Noted == Q!Noted(thread[w].obs[a], thread[w].evidence[a], thread[w].window[a])
<1>3. \/ /\ \/ thread' = [thread EXCEPT ![w].evidence[a] = "done", ![w].changed = TRUE,
                                       ![w].obs[a] = Noted]
            \/ thread' = [thread EXCEPT ![w].evidence[a] = "done", ![w].obs[a] = Q!None,
                                       ![w].changed = TRUE]
         /\ adrift' = adrift
      \/ /\ \/ thread' = [thread EXCEPT ![w].evidence[a] = "done", ![w].obs[a] = Q!None]
            \/ thread' = [thread EXCEPT ![w].evidence[a] = "done", ![w].obs[a] = Noted]
            \/ thread' = [thread EXCEPT ![w].evidence[a] = "done"]
         /\ \/ row' = row /\ adrift' = adrift
            \/ Q!Revive(a) /\ adrift' = adrift \cup {a}
  BY Zenon DEF Q!Reconcile
<1>4. /\ thread'[w].at = thread[w].at /\ (thread[w].changed => thread'[w].changed)
      /\ \/ thread'[w].changed /\ adrift' = adrift
         \/ row' = row /\ adrift' = adrift
         \/ Q!Revive(a) /\ adrift' = adrift \cup {a}
  <2> HIDE DEF Noted
  <2> QED
    BY <1>0, <1>3 DEF Places, ThreadFields
<1>5. DOMAIN row' = Accounts /\ routed' = routed
  BY <1>0 DEF Q!Reconcile, Places, Q!Revive, Q!Switch
<1>6. adrift \subseteq adrift' /\ (thread'[w].changed \/ \A b \in Accounts \ adrift' : row'[b] = row[b])
  BY <1>0, <1>4 DEF Q!Revive, Places
<1> QED
  BY <1>1, <1>2, <1>4, <1>5, <1>6, PassKeeps DEF InPass

\* What a thread keeps when it has done one part of its work.
LEMMA KeepShape ==
  ASSUME Places, NEW w \in Q!Threads, NEW place, Q!Keep(w, place)
  PROVE  /\ DOMAIN thread' = Q!Threads /\ \A v \in Q!Threads : DOMAIN thread'[v] = ThreadFields
         /\ \A v \in Q!Threads : v # w => thread'[v] = thread[v]
         /\ thread'[w].at = place /\ thread'[w].changed = thread[w].changed
<1>1. PICK q : q = [Q!Idle EXCEPT !.at = place, !.cfg = thread[w].cfg, !.changed = thread[w].changed]
  OBVIOUS
<1>2. DOMAIN q = ThreadFields /\ q.at = place /\ q.changed = thread[w].changed
  BY <1>1, IdleThread
<1>3. thread' = [thread EXCEPT ![w] = q]
  BY <1>1 DEF Q!Keep
<1> QED
  BY <1>2, <1>3, ThreadPut

LEMMA WriteObservationsKeeps ==
  ASSUME QuotaInv, NEW w \in Q!Threads, Q!WriteObservations(w)
  PROVE  QuotaInv'
<1>0. Places /\ thread[w].at = "reconcile" /\ w \in {"refresh", "probe"}
  BY DEF QuotaInv, Q!WriteObservations, Q!At, Places, Q!Threads
<1>1. PICK place \in {"sync", "done"} :
        Q!Keep(w, place) /\ (place = "sync" <=> w = "probe" /\ thread[w].changed)
  BY DEF Q!WriteObservations
<1>2. UNCHANGED <<config, row, routed, pending, adrift>>
  BY DEF Q!WriteObservations, Q!World
<1>3. /\ DOMAIN thread' = Q!Threads /\ \A v \in Q!Threads : DOMAIN thread'[v] = ThreadFields
      /\ \A v \in Q!Threads : v # w => thread'[v] = thread[v]
      /\ thread'[w].at = place /\ thread'[w].changed = thread[w].changed
  BY <1>0, <1>1, KeepShape
<1>4. Places'
  BY <1>0, <1>1, <1>2, <1>3 DEF Places, Q!Threads
<1> QED
  BY <1>0, <1>1, <1>2, <1>3, <1>4, ThreadKeeps

\* A sync reads the rows: with no other that may still write, they are what it will write.
LEMMA SyncReadKeeps ==
  ASSUME QuotaInv, NEW w \in Q!Threads, Q!SyncRead(w)
  PROVE  QuotaInv'
<1>0. Places /\ thread[w].at = "sync" /\ w \in {"probe", "sync", "apply"}
  BY DEF QuotaInv, Q!SyncRead, Q!At, Places, Q!Threads
<1>1. UNCHANGED <<config, row, routed, pending>>
  BY DEF Q!SyncRead, Q!World
<1>2. /\ DOMAIN thread' = Q!Threads /\ \A v \in Q!Threads : DOMAIN thread'[v] = ThreadFields
      /\ \A v \in Q!Threads : v # w => thread'[v] = thread[v]
  BY <1>0 DEF Q!SyncRead, Places
<1>3. /\ thread'[w].at = "put" /\ thread'[w].isolated = {a \in Accounts : Q!Off(row[a])}
      /\ thread'[w].cfg = thread[w].cfg
  BY <1>0 DEF Q!SyncRead, Places, ThreadFields
<1>4. Places'
  BY <1>0, <1>1, <1>2, <1>3 DEF Places, Q!Threads
<1>5. CASE Q!Overtaken(w)
  <2>1. Q!Overtaken(w)'
    BY <1>1, <1>2, <1>3, <1>5 DEF Q!Overtaken, Q!At
  <2>2. Promised'
    BY <1>3, <2>1 DEF Promised
  <2> QED
    BY <1>4, <2>2 DEF QuotaInv
<1>6. CASE ~Q!Overtaken(w)
  <2>1. \A v \in Q!Threads : v # w => thread'[v].at # "put"
    BY <1>2, <1>6 DEF Q!Overtaken, Q!At
  <2>2. \A a \in Accounts : Kept(a)'
    BY <1>1, <1>3, <2>1 DEF Kept, Q!Off
  <2> QED
    BY <1>4, <2>2 DEF QuotaInv
<1> QED
  BY <1>5, <1>6

\* A sync that writes what another has not overtaken leaves the routing right.
LEMMA SyncPutKeeps ==
  ASSUME QuotaInv, NEW w \in Q!Threads, Q!SyncPut(w)
  PROVE  QuotaInv'
<1>0. Places /\ thread[w].at = "put" /\ w \in {"probe", "sync", "apply"}
  BY DEF QuotaInv, Q!SyncPut, Q!At, Places, Q!Threads
<1>1. UNCHANGED <<config, pending>>
  BY DEF Q!SyncPut, Q!World
<1>2. PICK place \in {"done", "failed"} : Q!Keep(w, place)
  BY DEF Q!SyncPut
<1>3. /\ DOMAIN thread' = Q!Threads /\ \A v \in Q!Threads : DOMAIN thread'[v] = ThreadFields
      /\ \A v \in Q!Threads : v # w => thread'[v] = thread[v]
      /\ thread'[w].at = place /\ thread'[w].changed = thread[w].changed
  BY <1>0, <1>2, KeepShape
<1> DEFINE off == [a \in Accounts |-> IF a \in Q!Selected(thread[w].cfg) THEN row[a]
                                     ELSE [row[a] EXCEPT !.schedulable = FALSE]]
<1>4. row' \in {row, off}
  BY DEF Q!SyncPut
<1>5. DOMAIN row' = Accounts
  BY <1>0, <1>4 DEF Places
<1>6. Places'
  BY <1>0, <1>3, <1>5 DEF Places, Q!Threads
<1>7. \/ adrift' = Accounts
      \/ /\ ~Q!Overtaken(w) /\ adrift' = adrift /\ row' = off
         /\ routed' = Q!Selected(thread[w].cfg) \ thread[w].isolated
  BY DEF Q!SyncPut
<1>8. CASE adrift' = Accounts
  BY <1>6, <1>8 DEF QuotaInv
<1>9. CASE /\ ~Q!Overtaken(w) /\ adrift' = adrift /\ row' = off
           /\ routed' = Q!Selected(thread[w].cfg) \ thread[w].isolated
  <2>1. thread[w].cfg = config /\ \A v \in Q!Threads \ {w} : thread[v].at # "put"
    BY <1>9 DEF Q!Overtaken, Q!At
  <2>2. Promised => Promised'
    <3>1. {"refresh", "probe"} \subseteq Q!Threads /\ w # "refresh"
      BY <1>0 DEF Q!Threads
    <3> QED
      BY <1>0, <1>1, <1>3, <1>9, <2>1, <3>1 DEF Promised
  <2>3. ASSUME NEW a \in Accounts, Kept(a) PROVE Kept(a)'
    <3>1. a \in thread[w].isolated <=> Q!Off(row[a])
      BY <1>0, <2>3 DEF Kept
    <3>2. a \in Q!Selected(config) => row'[a] = row[a]
      BY <1>9, <2>1
    <3>3. a \in routed' <=> a \in Q!Selected(config) /\ ~Q!Off(row'[a])
      BY <1>9, <2>1, <3>1, <3>2 DEF Q!Off
    <3>4. \A v \in Q!Threads : thread'[v].at # "put"
      BY <1>3, <2>1
    <3> QED
      BY <1>1, <3>3, <3>4 DEF Kept, Q!Off, Q!Selected
  <2> QED
    BY <1>6, <1>9, <2>2, <2>3 DEF QuotaInv
<1> QED
  BY <1>7, <1>8, <1>9

\* A thread that has ended.
LEMMA EndShape ==
  ASSUME Places, NEW w \in Q!Threads, NEW t, t = [thread EXCEPT ![w] = Q!Idle]
  PROVE  /\ DOMAIN t = Q!Threads /\ \A v \in Q!Threads : DOMAIN t[v] = ThreadFields
         /\ \A v \in Q!Threads : v # w => t[v] = thread[v]
         /\ t[w].at = "idle" /\ ~t[w].changed
BY IdleThread DEF Places

\* request_routing_sync: there is a promise after it.
LEMMA RequestShape ==
  ASSUME NEW t, DOMAIN t = Q!Threads, \A v \in Q!Threads : DOMAIN t[v] = ThreadFields,
         Q!Request(t)
  PROVE  /\ DOMAIN thread' = Q!Threads /\ \A v \in Q!Threads : DOMAIN thread'[v] = ThreadFields
         /\ \A v \in Q!Threads : v # "sync" => thread'[v] = t[v]
         /\ \/ pending' /\ thread' = t
            \/ t["sync"].at = "idle" /\ thread'["sync"].at = "sync"
<1>1. PICK q : q = [Q!Idle EXCEPT !.at = "sync", !.cfg = config]
  OBVIOUS
<1>2. DOMAIN q = ThreadFields /\ q.at = "sync"
  BY <1>1, IdleThread
<1>3. "sync" \in Q!Threads
  BY DEF Q!Threads
<1>4. \/ pending' /\ thread' = t
      \/ t["sync"].at = "idle" /\ thread' = [t EXCEPT !["sync"] = q]
  BY <1>1 DEF Q!Request
<1> QED
  BY <1>2, <1>3, <1>4

\* A request promises a sync, whatever it is made after.
LEMMA RequestPromises ==
  ASSUME QuotaInv, NEW t, DOMAIN t = Q!Threads, \A v \in Q!Threads : DOMAIN t[v] = ThreadFields,
         Q!Request(t), UNCHANGED <<config, row, routed, adrift>>,
         t["refresh"].at \in {"idle", "query", "reconcile", "done"},
         t["refresh"].at = "idle" => ~t["refresh"].changed,
         t["probe"] = thread["probe"], t["apply"] = thread["apply"],
         t["sync"] = thread["sync"] \/ t["sync"].at = "idle"
  PROVE  QuotaInv'
<1>0. Places
  BY DEF QuotaInv
<1>1. /\ DOMAIN thread' = Q!Threads /\ \A v \in Q!Threads : DOMAIN thread'[v] = ThreadFields
      /\ \A v \in Q!Threads : v # "sync" => thread'[v] = t[v]
      /\ \/ pending' /\ thread' = t
         \/ t["sync"].at = "idle" /\ thread'["sync"].at = "sync"
  BY RequestShape
<1>2. Places'
  BY <1>0, <1>1 DEF Places, Q!Threads
<1>3. Promised'
  BY <1>1 DEF Promised, Q!Threads
<1> QED
  BY <1>2, <1>3 DEF QuotaInv

LEMMA LoadedKeeps ==
  ASSUME QuotaInv, Q!Loaded
  PROVE  QuotaInv'
<1>0. Places /\ thread["refresh"].at = "done" /\ "refresh" \in Q!Threads
  BY DEF QuotaInv, Q!Loaded, Q!At, Q!Threads
<1>1. UNCHANGED <<config, row, routed>>
  BY DEF Q!Loaded, Q!World
<1>2. PICK t : t = [thread EXCEPT !["refresh"] = Q!Idle]
  OBVIOUS
<1>3. /\ DOMAIN t = Q!Threads /\ \A v \in Q!Threads : DOMAIN t[v] = ThreadFields
      /\ \A v \in Q!Threads : v # "refresh" => t[v] = thread[v]
      /\ t["refresh"].at = "idle" /\ ~t["refresh"].changed
  BY <1>0, <1>2, EndShape
<1>4. \/ Q!Request(t) /\ adrift' = adrift
      \/ thread' = t /\ pending' = pending /\ adrift' = Accounts
      \/ thread' = t /\ pending' = pending /\ adrift' = adrift /\ ~thread["refresh"].changed
  BY <1>2 DEF Q!Loaded
<1>5. CASE Q!Request(t) /\ adrift' = adrift
  BY <1>1, <1>3, <1>5, RequestPromises DEF Q!Threads
<1>6. ASSUME thread' = t PROVE Places'
  BY <1>0, <1>1, <1>3, <1>6 DEF Places, Q!Threads
<1>7. CASE thread' = t /\ pending' = pending /\ adrift' = Accounts
  BY <1>6, <1>7 DEF QuotaInv
<1>8. CASE thread' = t /\ pending' = pending /\ adrift' = adrift /\ ~thread["refresh"].changed
  BY <1>0, <1>1, <1>3, <1>6, <1>8, ThreadKeeps
<1> QED
  BY <1>4, <1>5, <1>7, <1>8

LEMMA SyncedKeeps ==
  ASSUME QuotaInv, Q!Synced
  PROVE  QuotaInv'
<1>0. Places /\ thread["sync"].at \in {"done", "failed"} /\ "sync" \in Q!Threads
  BY DEF QuotaInv, Q!Synced, Q!Threads
<1>1. UNCHANGED <<config, row, routed, adrift>>
  BY DEF Q!Synced, Q!World
<1>2. PICK t : t = [thread EXCEPT !["sync"] = Q!Idle]
  OBVIOUS
<1>3. /\ DOMAIN t = Q!Threads /\ \A v \in Q!Threads : DOMAIN t[v] = ThreadFields
      /\ \A v \in Q!Threads : v # "sync" => t[v] = thread[v]
      /\ t["sync"].at = "idle" /\ ~t["sync"].changed
  BY <1>0, <1>2, EndShape
<1>4. Q!Request(t) \/ (thread' = t /\ (pending => pending'))
  BY <1>2 DEF Q!Synced
<1>5. CASE Q!Request(t)
  BY <1>0, <1>1, <1>3, <1>5, RequestPromises DEF Places, Q!Threads
<1>6. CASE thread' = t /\ (pending => pending')
  <2>1. Places'
    BY <1>0, <1>1, <1>3, <1>6 DEF Places, Q!Threads
  <2>2. Promised => Promised'
    BY <1>0, <1>1, <1>3, <1>6 DEF Promised, Q!Overtaken, Q!At, Q!Threads
  <2>3. /\ \A w \in Q!Threads : thread'[w].at = "put" <=> thread[w].at = "put"
        /\ \A w \in Q!Threads : thread[w].at = "put" => thread'[w].isolated = thread[w].isolated
    BY <1>0, <1>3, <1>6
  <2> QED
    BY <1>1, <2>1, <2>2, <2>3, NoSyncKeeps
<1> QED
  BY <1>4, <1>5, <1>6

LEMMA SelfCheckKeeps ==
  ASSUME QuotaInv, Q!SelfCheck
  PROVE  QuotaInv'
<1>1. Places /\ Q!Request(thread) /\ UNCHANGED <<config, row, routed, adrift>>
  BY DEF QuotaInv, Q!SelfCheck, Q!World
<1> QED
  BY <1>1, RequestPromises DEF Places

\* The probe or the apply ends: its promise, if any, was kept before.
LEMMA EndKeeps ==
  ASSUME QuotaInv, NEW w \in {"probe", "apply"}, thread[w].at \in {"done", "failed"},
         thread' = [thread EXCEPT ![w] = Q!Idle], UNCHANGED <<config, row, routed>>,
         ((pending => pending') /\ adrift' = adrift) \/ adrift' = Accounts
  PROVE  QuotaInv'
<1>0. Places /\ w \in Q!Threads
  BY DEF QuotaInv, Q!Threads
<1>1. /\ DOMAIN thread' = Q!Threads /\ \A v \in Q!Threads : DOMAIN thread'[v] = ThreadFields
      /\ \A v \in Q!Threads : v # w => thread'[v] = thread[v]
      /\ thread'[w].at = "idle" /\ ~thread'[w].changed
  <2>1. PICK t : t = thread'
    OBVIOUS
  <2>2. t = [thread EXCEPT ![w] = Q!Idle]
    BY <2>1
  <2>3. /\ DOMAIN t = Q!Threads /\ \A v \in Q!Threads : DOMAIN t[v] = ThreadFields
        /\ \A v \in Q!Threads : v # w => t[v] = thread[v]
        /\ t[w].at = "idle" /\ ~t[w].changed
    BY <1>0, <2>2, EndShape
  <2> QED
    BY <2>1, <2>3
<1>2. Places'
  BY <1>0, <1>1 DEF Places, Q!Threads
<1>3. CASE adrift' = Accounts
  BY <1>2, <1>3 DEF QuotaInv
<1>4. CASE (pending => pending') /\ adrift' = adrift
  <2>1. Promised => Promised'
    BY <1>0, <1>1, <1>4 DEF Promised, Q!Overtaken, Q!At, Q!Threads
  <2>2. /\ \A v \in Q!Threads : thread'[v].at = "put" <=> thread[v].at = "put"
        /\ \A v \in Q!Threads : thread[v].at = "put" => thread'[v].isolated = thread[v].isolated
    BY <1>0, <1>1
  <2> QED
    BY <1>2, <1>4, <2>1, <2>2, NoSyncKeeps
<1> QED
  BY <1>3, <1>4

LEMMA ApplyKeeps ==
  ASSUME QuotaInv, Q!Apply
  PROVE  QuotaInv'
<1>0. Places /\ adrift' = Accounts /\ UNCHANGED row /\ "apply" \in Q!Threads
  BY DEF QuotaInv, Q!Apply, Q!Threads
<1>1. PICK cfg : thread' = [thread EXCEPT !["apply"] = [Q!Idle EXCEPT !.at = "sync", !.cfg = cfg]]
  BY DEF Q!Apply
<1>2. PICK q : q = [Q!Idle EXCEPT !.at = "sync", !.cfg = cfg]
  OBVIOUS
<1>3. DOMAIN q = ThreadFields /\ q.at = "sync"
  BY <1>2, IdleThread
<1>4. /\ DOMAIN thread' = Q!Threads /\ \A v \in Q!Threads : DOMAIN thread'[v] = ThreadFields
      /\ thread'["apply"] = q /\ \A v \in Q!Threads : v # "apply" => thread'[v] = thread[v]
  BY <1>0, <1>1, <1>2, <1>3, ThreadPut
<1>5. Places'
  BY <1>0, <1>3, <1>4 DEF Places, Q!Threads
<1> QED
  BY <1>0, <1>5 DEF QuotaInv

\* A step that the threads have no part in.
LEMMA WorldKeeps ==
  ASSUME QuotaInv, UNCHANGED <<routed, config, thread, pending>>, adrift \subseteq adrift',
         DOMAIN row' = Accounts, \A a \in Accounts \ adrift' : row'[a] = row[a]
  PROVE  QuotaInv'
<1>1. Places'
  BY DEF QuotaInv, Places
<1>2. Promised => Promised'
  BY DEF Promised, Q!Overtaken, Q!At
<1> QED
  BY <1>1, <1>2, NoSyncKeeps

LEMMA QuotaStep == QuotaInv /\ [Q!Next]_(Q!vars) => QuotaInv'
<1> SUFFICES ASSUME QuotaInv, [Q!Next]_(Q!vars) PROVE QuotaInv'
  OBVIOUS
<1>0. DOMAIN row = Accounts
  BY DEF QuotaInv, Places
<1>1. ASSUME NEW w \in Q!Threads, Q!Thread(w) PROVE QuotaInv'
  BY <1>1, QueryKeeps, ReconcileKeeps, ReadObservationsKeeps, WriteObservationsKeeps,
     SyncReadKeeps, SyncPutKeeps DEF Q!Thread
<1>2. ASSUME NEW w \in {"refresh", "probe"}, Q!Begin(w) PROVE QuotaInv'
  BY <1>2, BeginKeeps
<1>3. CASE Q!Loaded
  BY <1>3, LoadedKeeps
<1>4. CASE Q!Synced
  BY <1>4, SyncedKeeps
<1>5. CASE Q!SelfCheck
  BY <1>5, SelfCheckKeeps
<1>6. CASE Q!Probed
  BY <1>6, EndKeeps DEF Q!Probed, Q!World
<1>7. CASE Q!Applied
  <2>1. ((pending => pending') /\ adrift' = adrift) \/ adrift' = Accounts
    BY <1>7 DEF Q!Applied, Q!At
  <2>2. /\ thread["apply"].at \in {"done", "failed"} /\ UNCHANGED <<config, row, routed>>
        /\ thread' = [thread EXCEPT !["apply"] = Q!Idle]
    BY <1>7 DEF Q!Applied, Q!World
  <2> QED
    BY <2>1, <2>2, EndKeeps
<1>8. CASE Q!Apply
  BY <1>8, ApplyKeeps
<1>9. CASE Q!Obscure \/ UNCHANGED Q!vars \/ \E a \in Accounts : Q!Drain(a) \/ Q!Renew(a) \/ Q!Wait(a)
  <2>1. UNCHANGED <<routed, config, thread, pending, row, adrift>>
    BY <1>9 DEF Q!Obscure, Q!vars, Q!Drain, Q!Renew, Q!Wait, Q!World
  <2> QED
    BY <1>0, <2>1, WorldKeeps
<1>10. ASSUME NEW a \in Accounts, Q!Break(a) PROVE QuotaInv'
  <2>1. UNCHANGED <<routed, config, thread, pending>> /\ adrift' = adrift \cup {a}
    BY <1>10 DEF Q!Break
  <2>2. PICK s \in {"error", "disabled"} : row' = [row EXCEPT ![a].status = s]
    BY <1>10 DEF Q!Break
  <2>3. DOMAIN row' = Accounts /\ \A b \in Accounts \ adrift' : row'[b] = row[b]
    BY <1>0, <2>1, <2>2
  <2> QED
    BY <2>1, <2>3, WorldKeeps
<1> QED
  BY <1>1, <1>2, <1>3, <1>4, <1>5, <1>6, <1>7, <1>8, <1>9, <1>10 DEF Q!Next

LEMMA QuotaInit == Q!Init => QuotaInv
<1> SUFFICES ASSUME Q!Init PROVE QuotaInv
  OBVIOUS
<1>1. thread = [w \in Q!Threads |-> Q!Idle] /\ DOMAIN row = Accounts
  BY DEF Q!Init
<1>2. Places
  BY <1>1, IdleThread DEF Places, Q!Threads
<1>3. \A w \in Q!Threads : thread[w].at # "put"
  BY <1>1, IdleThread
<1>4. \A a \in Accounts : Kept(a)
  BY <1>3 DEF Kept, Q!Init, Q!Off, Q!Selected
<1> QED
  BY <1>2, <1>4 DEF QuotaInv

\* Of each account whose row counts, at every moment: somebody has promised to sync the routing
\* (a request that waits, a pass that changed a row, a sync that has not read), or the sync about
\* to write has read the row as it is, or the routing is right.
THEOREM QuotaInvariant == Q!Spec => []QuotaInv
BY QuotaInit, QuotaStep, PTL DEF Q!Spec

\* However refreshes, probes, syncs and applied configurations overlap: with nothing under way or
\* asked for, the live routing has the accounts that are selected and can be used.
THEOREM RoutingIsFollowed == Q!Spec => []RoutingFollows
<1>1. QuotaInv => RoutingFollows
  <2> SUFFICES ASSUME QuotaInv, \A w \in Q!Threads : thread[w].at = "idle", ~pending,
                      NEW a \in Accounts \ adrift
               PROVE  a \in routed <=> a \in Q!Selected(config) /\ ~Q!Off(row[a])
    BY DEF RoutingFollows, Q!RoutingFollows, Q!Busy
  <2>1. ~Promised
    BY DEF QuotaInv, Places, Promised, Q!Threads
  <2>2. Kept(a)
    BY <2>1 DEF QuotaInv
  <2> QED
    BY <2>2 DEF Kept
<1> QED
  BY <1>1, QuotaInvariant, PTL

-----------------------------------------------------------------------------
(* Accounts and their credentials (Logins). *)

\* What is under way for an identity: a sign-in that has written a file and was not picked up, a
\* login or an import that changes the account, a deletion.
Waits(s, i) == logins[s].at = "waiting" /\ platform # "direct" /\ logins[s].who = i
Works(s, i) == logins[s].at \in L!Busy /\ L!WhoOf(logins[s].pick) = i
Engaged(s, i) == Waits(s, i) \/ Works(s, i)

\* The files of an identity that no account has: what an import would find.
Extra(i) == {f \in DOMAIN files : L!WhoOf(f) = i /\ \A id \in L!Live : listed[id].file # f}

LoginFields == {"at", "client", "existing", "who", "began", "cli", "pick", "row", "old"}
AccountRow == [identity : Identities \cup {Nobody}, file : L!File, live : BOOLEAN]

\* A row is of one identity for ever, which its file names, and has it or (deleted) none;
\* no two rows have the same.
RowsTyped ==
  /\ listed \in Seq(AccountRow)
  /\ \A id \in DOMAIN listed :
       /\ listed[id].identity \in {Nobody, L!WhoOf(listed[id].file)}
       /\ listed[id].live => listed[id].identity = L!WhoOf(listed[id].file)
  /\ \A id, jd \in DOMAIN listed :
       listed[id].identity = listed[jd].identity /\ id # jd => listed[id].identity = Nobody

FilesTyped ==
  clock \in Nat /\ DOMAIN files \subseteq L!File /\ \A f \in DOMAIN files : files[f] \in 0 .. clock

SlotTyped(s) ==
  LET l == logins[s]
  IN  /\ DOMAIN l = LoginFields /\ l.who \in Identities \cup {Nobody}
      /\ l.at = "waiting" => l.began \in 0 .. clock
      /\ l.at \in L!Busy => l.pick \in L!File
      /\ l.at \in {"matched", "written", "unshared"} /\ l.row # 0 =>
           /\ l.row \in DOMAIN listed /\ L!WhoOf(listed[l.row].file) = L!WhoOf(l.pick)
           /\ l.old \in L!File /\ L!WhoOf(l.old) = L!WhoOf(l.pick)
      /\ l.at \in {"written", "unshared"} => l.row # 0 /\ l.old # l.pick

DeleteTyped(d) ==
  /\ DOMAIN d = {"id", "who", "file", "at", "by"} /\ d.at \in {"read", "gone"}
  /\ d.id \in DOMAIN listed /\ d.who = L!WhoOf(listed[d.id].file)
  /\ d.file \in L!File /\ L!WhoOf(d.file) = d.who

LoginsTyped ==
  /\ RowsTyped /\ FilesTyped
  /\ DOMAIN logins = Slots /\ \A s \in Slots : SlotTyped(s)
  /\ \A d \in deletes : DeleteTyped(d)

\* Of an identity that is not excused at most one operation is under way...
Exclusive(i) ==
  /\ \A s, t \in Slots : Engaged(s, i) /\ Engaged(t, i) => s = t
  /\ \A s \in Slots, d \in deletes : ~(Engaged(s, i) /\ d.who = i)
  /\ \A d, e \in deletes : d.who = i /\ e.who = i => d = e

\* ...its account is alive, known and has its file...
RowsKept(i) ==
  \A id \in DOMAIN listed :
    listed[id].identity = i => listed[id].live /\ i \in known /\ listed[id].file \in DOMAIN files

\* ...and there is no file of it but the account's and the one that the operation accounts for:
\* a sign-in for the newest,
WaitKept(s, i) ==
  /\ i \in known
  /\ \E f \in DOMAIN files :
       /\ L!WhoOf(f) = i /\ Extra(i) \subseteq {f} /\ files[f] > logins[s].began
       /\ \A g \in DOMAIN files : L!WhoOf(g) = i /\ g # f => files[g] < files[f]

\* a login for the file that it takes, and then for the one that it replaces,
WorkKept(s, i) ==
  LET l == logins[s]
  IN  /\ i \in known /\ l.pick \in DOMAIN files
      /\ l.at \in {"picked", "matched"} => Extra(i) \subseteq {l.pick}
      /\ l.at = "matched" /\ l.row = 0 => \A id \in DOMAIN listed : listed[id].identity # i
      /\ l.at = "matched" /\ l.row # 0 => listed[l.row].identity = i /\ listed[l.row].file = l.old
      /\ l.at \in {"written", "unshared"} =>
           listed[l.row].identity = i /\ listed[l.row].file = l.pick /\ Extra(i) \subseteq {l.old}

\* a deletion for the file of the account.
DeleteKept(d, i) ==
  /\ d.at = "read" => Extra(i) = {} /\ (d.id \in L!Live => listed[d.id].file = d.file)
  /\ d.at = "gone" => /\ \A id \in DOMAIN listed : listed[id].identity # i
                      /\ Extra(i) \subseteq {d.file}

Accounted(i) ==
  /\ RowsKept(i)
  /\ \A s \in Slots : (Waits(s, i) => WaitKept(s, i)) /\ (Works(s, i) => WorkKept(s, i))
  /\ \A d \in deletes : d.who = i => DeleteKept(d, i)
  /\ (\A s \in Slots : ~Engaged(s, i)) /\ (\A d \in deletes : d.who # i) => Extra(i) = {}

LoginsInv == LoginsTyped /\ \A i \in Identities \ excused : Exclusive(i) /\ Accounted(i)

LEMMA FileHasOwner ==
  ASSUME NEW f \in L!File
  PROVE  L!WhoOf(f) \in Identities /\ L!WhoOf(f) # Nobody
BY LoginsAssumption DEF L!File, L!WhoOf

\* What is not under way when an identity is touched and not excused for it.
LEMMA NotUnderway ==
  ASSUME NEW s, NEW i, i \notin L!Underway(s)
  PROVE  /\ \A t \in Slots : t # s => ~Engaged(t, i)
         /\ \A d \in deletes : d.who # i
BY DEF L!Underway, Engaged, Waits, Works

\* A set of files that is not empty has a newest.
LEMMA NewestIsThere ==
  ASSUME FilesTyped, NEW S \in SUBSET DOMAIN files, S # {}
  PROVE  L!Newest(S) \in S /\ \A g \in S : files[g] <= files[L!Newest(S)]
<1>1. PICK T : T = {clock - files[f] : f \in S}
  OBVIOUS
<1>2. T \subseteq Nat /\ T # {}
  BY <1>1 DEF FilesTyped
<1>3. PICK m \in T : \A n \in T : ~(n < m)
  <2>1. PICK R : R = {p \in Nat \X Nat : p[1] < p[2]}
    OBVIOUS
  <2>2. IsWellFoundedOn(R, Nat)
    BY <2>1, NatLessThanWellFounded DEF OpToRel
  <2>3. PICK m \in T : \A n \in T : ~(<<n, m>> \in R)
    BY <1>2, <2>2, WFMin
  <2>4. \A n \in T : ~(n < m)
    BY <1>2, <2>1, <2>3
  <2> QED
    BY <2>4
<1>4. PICK f \in S : m = clock - files[f]
  BY <1>1, <1>3
<1>5. ASSUME NEW g \in S PROVE files[g] <= files[f]
  <2>1. clock - files[g] \in T /\ ~(clock - files[g] < m)
    BY <1>1, <1>3
  <2>2. clock \in Nat /\ files[g] \in Nat /\ files[f] \in Nat
    BY DEF FilesTyped
  <2> QED
    BY <1>4, <2>1, <2>2
<1> QED
  BY <1>4, <1>5, Zenon DEF L!Newest

\* What a step may not change of an identity for the identity not to notice.
SlotSame(s, i) ==
  /\ (Waits(s, i)' <=> Waits(s, i)) /\ (Works(s, i)' <=> Works(s, i))
  /\ Engaged(s, i) => /\ logins'[s].at = logins[s].at /\ logins'[s].pick = logins[s].pick
                      /\ logins'[s].row = logins[s].row /\ logins'[s].old = logins[s].old
                      /\ logins'[s].began = logins[s].began
DeletesSame(i) ==
  /\ \A d \in deletes : d.who = i => d \in deletes'
  /\ \A d \in deletes' : d.who = i => d \in deletes
RowsSame(i) ==
  /\ \A id \in DOMAIN listed : L!WhoOf(listed[id].file) = i =>
       id \in DOMAIN listed' /\ listed'[id] = listed[id]
  /\ \A id \in DOMAIN listed' : L!WhoOf(listed'[id].file) = i =>
       id \in DOMAIN listed /\ listed'[id] = listed[id]
FilesSame(i) ==
  \A f \in L!File : L!WhoOf(f) = i =>
    (f \in DOMAIN files' <=> f \in DOMAIN files) /\ (f \in DOMAIN files => files'[f] = files[f])

LEMMA ExtraSame ==
  ASSUME LoginsTyped, LoginsTyped', NEW i \in Identities, RowsSame(i), FilesSame(i)
  PROVE  Extra(i)' = Extra(i)
<1>1. ASSUME NEW f, f \in Extra(i) PROVE f \in Extra(i)'
  <2>1. f \in DOMAIN files /\ f \in L!File /\ L!WhoOf(f) = i /\ \A id \in L!Live : listed[id].file # f
    BY <1>1 DEF Extra, LoginsTyped, FilesTyped
  <2>2. f \in DOMAIN files'
    BY <2>1 DEF FilesSame
  <2>3. \A id \in L!Live' : listed'[id].file # f
    BY <2>1 DEF RowsSame, L!Live
  <2> QED
    BY <2>1, <2>2, <2>3 DEF Extra
<1>2. ASSUME NEW f, f \in Extra(i)' PROVE f \in Extra(i)
  <2>1. /\ f \in DOMAIN files' /\ f \in L!File /\ L!WhoOf(f) = i
        /\ \A id \in L!Live' : listed'[id].file # f
    BY <1>2 DEF Extra, LoginsTyped, FilesTyped
  <2>2. f \in DOMAIN files
    BY <2>1 DEF FilesSame
  <2>3. \A id \in L!Live : listed[id].file # f
    BY <2>1 DEF RowsSame, L!Live
  <2> QED
    BY <2>1, <2>2, <2>3 DEF Extra
<1> QED
  BY <1>1, <1>2

\* Rows of an identity are the ones that its files name.
LEMMA IdentitySame ==
  ASSUME RowsTyped, RowsTyped', NEW i \in Identities, RowsSame(i)
  PROVE  /\ \A id \in DOMAIN listed : listed[id].identity = i =>
              id \in DOMAIN listed' /\ listed'[id] = listed[id]
         /\ \A id \in DOMAIN listed' : listed'[id].identity = i =>
              id \in DOMAIN listed /\ listed'[id] = listed[id]
BY LoginsAssumption DEF RowsTyped, RowsSame

LEMMA Untouched ==
  ASSUME LoginsTyped, LoginsTyped', NEW i \in Identities, Exclusive(i), Accounted(i),
         \A s \in Slots : SlotSame(s, i), DeletesSame(i), RowsSame(i), FilesSame(i),
         i \in known' <=> i \in known
  PROVE  Exclusive(i)' /\ Accounted(i)'
<1>1. Extra(i)' = Extra(i)
  BY ExtraSame
<1>2. /\ \A id \in DOMAIN listed : listed[id].identity = i =>
              id \in DOMAIN listed' /\ listed'[id] = listed[id]
      /\ \A id \in DOMAIN listed' : listed'[id].identity = i =>
              id \in DOMAIN listed /\ listed'[id] = listed[id]
  BY IdentitySame DEF LoginsTyped
<1>3. \A s \in Slots : Engaged(s, i)' <=> Engaged(s, i)
  BY DEF SlotSame, Engaged
<1>4. Exclusive(i)'
  BY <1>3 DEF Exclusive, DeletesSame
<1>5. RowsKept(i)'
  <2> SUFFICES ASSUME NEW id \in DOMAIN listed', listed'[id].identity = i
               PROVE  listed'[id].live /\ i \in known' /\ listed'[id].file \in DOMAIN files'
    BY DEF RowsKept
  <2>1. id \in DOMAIN listed /\ listed'[id] = listed[id]
    BY <1>2
  <2>2. listed[id].live /\ i \in known /\ listed[id].file \in DOMAIN files
    BY <2>1 DEF Accounted, RowsKept
  <2>3. listed[id].file \in L!File /\ L!WhoOf(listed[id].file) = i
    BY <2>1, <2>2 DEF LoginsTyped, RowsTyped, FilesTyped
  <2> QED
    BY <2>1, <2>2, <2>3 DEF FilesSame
<1>6. ASSUME NEW s \in Slots, Waits(s, i)' PROVE WaitKept(s, i)'
  <2>1. Waits(s, i) /\ WaitKept(s, i) /\ logins'[s].began = logins[s].began
    BY <1>6 DEF SlotSame, Engaged, Accounted
  <2>2. PICK f \in DOMAIN files :
           /\ L!WhoOf(f) = i /\ Extra(i) \subseteq {f} /\ files[f] > logins[s].began
           /\ \A g \in DOMAIN files : L!WhoOf(g) = i /\ g # f => files[g] < files[f]
    BY <2>1 DEF WaitKept
  <2>3. f \in DOMAIN files' /\ files'[f] = files[f]
    BY <2>2 DEF FilesSame, LoginsTyped, FilesTyped
  <2>4. \A g \in DOMAIN files' : L!WhoOf(g) = i => g \in DOMAIN files /\ files'[g] = files[g]
    BY DEF FilesSame, LoginsTyped, FilesTyped
  <2> QED
    BY <1>1, <2>1, <2>2, <2>3, <2>4 DEF WaitKept
<1>7. ASSUME NEW s \in Slots, Works(s, i)' PROVE WorkKept(s, i)'
  <2>1. /\ Works(s, i) /\ WorkKept(s, i) /\ SlotTyped(s)
        /\ logins'[s].at = logins[s].at /\ logins'[s].pick = logins[s].pick
        /\ logins'[s].row = logins[s].row /\ logins'[s].old = logins[s].old
    BY <1>7 DEF SlotSame, Engaged, Accounted, LoginsTyped
  <2>2. logins[s].pick \in DOMAIN files'
    BY <2>1 DEF WorkKept, Works, FilesSame, SlotTyped
  <2>3. logins[s].at \in {"matched", "written", "unshared"} /\ logins[s].row # 0 =>
          listed'[logins[s].row] = listed[logins[s].row]
    BY <2>1 DEF SlotTyped, Works, RowsSame
  <2>4. logins[s].at \in {"written", "unshared"} => logins[s].row # 0
    BY <2>1 DEF SlotTyped
  <2> QED
    BY <1>1, <1>2, <2>1, <2>2, <2>3, <2>4 DEF WorkKept
<1>8. ASSUME NEW d \in deletes', d.who = i PROVE DeleteKept(d, i)'
  <2>1. d \in deletes /\ DeleteKept(d, i) /\ DeleteTyped(d)
    BY <1>8 DEF DeletesSame, Accounted, LoginsTyped
  <2>2. d.id \in DOMAIN listed' /\ listed'[d.id] = listed[d.id]
    BY <1>8, <2>1 DEF DeleteTyped, RowsSame
  <2> QED
    BY <1>1, <1>2, <2>1, <2>2 DEF DeleteKept, L!Live, DeleteTyped
<1>9. (\A s \in Slots : ~Engaged(s, i)') /\ (\A d \in deletes' : d.who # i) => Extra(i)' = {}
  BY <1>1, <1>3 DEF Accounted, DeletesSame
<1> QED
  BY <1>4, <1>5, <1>6, <1>7, <1>8, <1>9 DEF Accounted

\* After a step, a slot or nobody is at work for an identity...
LEMMA OneSlot ==
  ASSUME NEW i, NEW s \in Slots, \A t \in Slots : t # s => ~Engaged(t, i)',
         \A d \in deletes' : d.who # i, RowsKept(i)',
         Waits(s, i)' => WaitKept(s, i)', Works(s, i)' => WorkKept(s, i)',
         ~Engaged(s, i)' => Extra(i)' = {}
  PROVE  Exclusive(i)' /\ Accounted(i)'
BY DEF Exclusive, Accounted, Engaged

\* ...or a deletion.
LEMMA OneDelete ==
  ASSUME NEW i, \A t \in Slots : ~Engaged(t, i)', RowsKept(i)',
         \A d, e \in deletes' : d.who = i /\ e.who = i => d = e,
         \A d \in deletes' : d.who = i => DeleteKept(d, i)',
         (\A d \in deletes' : d.who # i) => Extra(i)' = {}
  PROVE  Exclusive(i)' /\ Accounted(i)'
BY DEF Exclusive, Accounted, Engaged
-----------------------------------------------------------------------------
\* The types through a step: rows are never taken away or given to another identity.
RowsPersist ==
  \A id \in DOMAIN listed :
    id \in DOMAIN listed' /\ L!WhoOf(listed'[id].file) = L!WhoOf(listed[id].file)

LEMMA SlotStays ==
  ASSUME FilesTyped, FilesTyped', NEW t \in Slots, SlotTyped(t), RowsPersist,
         clock <= clock', logins'[t] = logins[t]
  PROVE  SlotTyped(t)'
<1>1. logins[t].at = "waiting" => logins[t].began \in 0 .. clock'
  BY DEF SlotTyped, FilesTyped
<1> QED
  BY <1>1 DEF SlotTyped, RowsPersist

LEMMA DeleteStays ==
  ASSUME NEW d, DeleteTyped(d), RowsPersist
  PROVE  DeleteTyped(d)'
BY DEF DeleteTyped, RowsPersist

LEMMA TypedStep ==
  ASSUME LoginsTyped, RowsTyped', FilesTyped', RowsPersist, clock <= clock',
         DOMAIN logins' = Slots,
         \A t \in Slots : logins'[t] = logins[t] \/ SlotTyped(t)',
         \A d \in deletes' : d \in deletes \/ DeleteTyped(d)'
  PROVE  LoginsTyped'
<1>1. ASSUME NEW t \in Slots PROVE SlotTyped(t)'
  BY SlotStays DEF LoginsTyped
<1>2. ASSUME NEW d \in deletes' PROVE DeleteTyped(d)'
  BY DeleteStays DEF LoginsTyped
<1> QED
  BY <1>1, <1>2 DEF LoginsTyped

LEMMA SlotPut ==
  ASSUME LoginsTyped, NEW s \in Slots, NEW q, L!Set(s, q)
  PROVE  /\ DOMAIN logins' = Slots /\ logins'[s] = q
         /\ \A t \in Slots : t # s => logins'[t] = logins[t]
BY DEF LoginsTyped, L!Set

LEMMA SlotGo ==
  ASSUME LoginsTyped, NEW s \in Slots, NEW at, L!Go(s, at)
  PROVE  /\ DOMAIN logins' = Slots
         /\ \A t \in Slots : t # s => logins'[t] = logins[t]
         /\ DOMAIN logins'[s] = LoginFields /\ logins'[s].at = at
         /\ logins'[s].who = logins[s].who /\ logins'[s].pick = logins[s].pick
         /\ logins'[s].row = logins[s].row /\ logins'[s].old = logins[s].old
         /\ logins'[s].began = logins[s].began
<1>1. DOMAIN logins = Slots /\ DOMAIN logins[s] = LoginFields
  BY DEF LoginsTyped, SlotTyped
<1>2. PICK q : q = [logins[s] EXCEPT !.at = at]
  OBVIOUS
<1>3. DOMAIN logins' = Slots /\ logins'[s] = q /\ \A t \in Slots : t # s => logins'[t] = logins[t]
  BY <1>1, <1>2 DEF L!Go
<1>4. /\ DOMAIN q = LoginFields /\ q.at = at /\ q.who = logins[s].who /\ q.pick = logins[s].pick
      /\ q.row = logins[s].row /\ q.old = logins[s].old /\ q.began = logins[s].began
  BY <1>1, <1>2 DEF LoginFields
<1> QED
  BY <1>3, <1>4

LEMMA OtherSlotSame ==
  ASSUME NEW t \in Slots, NEW i, logins'[t] = logins[t], UNCHANGED platform
  PROVE  SlotSame(t, i)
BY DEF SlotSame, Waits, Works, Engaged

\* A step that only changes one slot, and nothing that an identity notices.
LEMMA QuietSlot ==
  ASSUME LoginsInv, UNCHANGED <<platform, listed, files, deletes, clock, known>>,
         excused \subseteq excused', NEW s \in Slots, DOMAIN logins' = Slots,
         \A t \in Slots : t # s => logins'[t] = logins[t],
         SlotTyped(s)', \A i \in Identities \ excused' : SlotSame(s, i)
  PROVE  LoginsInv'
<1>1. RowsTyped' /\ FilesTyped' /\ RowsPersist /\ clock <= clock'
  BY DEF LoginsInv, LoginsTyped, RowsTyped, FilesTyped, L!Live, RowsPersist
<1>2. LoginsTyped'
  BY <1>1, TypedStep DEF LoginsInv
<1>3. ASSUME NEW i \in Identities \ excused' PROVE Exclusive(i)' /\ Accounted(i)'
  <2>1. Exclusive(i) /\ Accounted(i)
    BY DEF LoginsInv
  <2>2. \A t \in Slots : SlotSame(t, i)
    BY OtherSlotSame
  <2>3. DeletesSame(i) /\ RowsSame(i) /\ FilesSame(i)
    BY DEF DeletesSame, RowsSame, FilesSame
  <2> QED
    BY <1>2, <2>1, <2>2, <2>3, Untouched DEF LoginsInv
<1> QED
  BY <1>2, <1>3 DEF LoginsInv

LEMMA IdleLogin == DOMAIN L!Idle = LoginFields /\ L!Idle.at = "idle" /\ L!Idle.who = Nobody
BY DEF L!Idle, LoginFields

LEMMA NothingSame ==
  ASSUME NEW s \in Slots, NEW i, ~Engaged(s, i), ~Engaged(s, i)'
  PROVE  SlotSame(s, i)
BY DEF SlotSame, Engaged

\* A slot may end what nobody that counts is engaged in.
LEMMA SlotIdle ==
  ASSUME LoginsInv, UNCHANGED <<platform, listed, files, deletes, clock, known>>,
         excused \subseteq excused', NEW s \in Slots, L!Set(s, L!Idle),
         \A i \in Identities \ excused' : ~Engaged(s, i)
  PROVE  LoginsInv'
<1>1. /\ DOMAIN logins' = Slots /\ logins'[s] = L!Idle
      /\ \A t \in Slots : t # s => logins'[t] = logins[t]
  BY SlotPut DEF LoginsInv
<1>2. SlotTyped(s)' /\ \A i : ~Engaged(s, i)'
  BY <1>1, IdleLogin DEF SlotTyped, Engaged, Waits, Works, L!Busy
<1> QED
  BY <1>1, <1>2, NothingSame, QuietSlot

-----------------------------------------------------------------------------
\* The steps that no identity notices.
LEMMA StartKeepsLogins ==
  ASSUME LoginsInv, NEW s \in Slots, NEW c \in {"gui", "other"}, L!Start(s, c)
  PROVE  LoginsInv'
<1>1. PICK q : /\ L!Set(s, q) /\ DOMAIN q = LoginFields
               /\ q.at = "waiting" /\ q.who = Nobody /\ q.began = clock
  <2>1. PICK e : e = IF c = "gui" /\ platform # "cli"
                        THEN [id \in L!Live |-> listed[id].identity] ELSE <<>>
    OBVIOUS
  <2>2. PICK q : q = [L!Idle EXCEPT !.at = "waiting", !.client = c, !.began = clock, !.existing = e]
    OBVIOUS
  <2>3. L!Set(s, q)
    BY <2>1, <2>2, Zenon DEF L!Start
  <2>4. DOMAIN q = LoginFields /\ q.at = "waiting" /\ q.who = Nobody /\ q.began = clock
    BY <2>2, IdleLogin DEF LoginFields
  <2> QED
    BY <2>3, <2>4
<1>2. /\ DOMAIN logins' = Slots /\ logins'[s] = q
      /\ \A t \in Slots : t # s => logins'[t] = logins[t]
  BY <1>1, SlotPut DEF LoginsInv
<1>3. UNCHANGED <<platform, listed, files, deletes, clock, known, excused>>
  BY DEF L!Start, L!Rest
<1>4. SlotTyped(s)'
  BY <1>1, <1>2, <1>3 DEF SlotTyped, L!Busy, LoginsInv, LoginsTyped, FilesTyped
<1>5. ASSUME NEW i \in Identities PROVE SlotSame(s, i)
  <2>1. ~Engaged(s, i)
    BY DEF L!Start, Engaged, Waits, Works, L!Busy
  <2>2. ~Engaged(s, i)'
    BY <1>1, <1>2, LoginsAssumption DEF Engaged, Waits, Works, L!Busy
  <2> QED
    BY <2>1, <2>2, NothingSame
<1> QED
  BY <1>2, <1>3, <1>4, <1>5, QuietSlot

LEMMA DenyKeeps ==
  ASSUME LoginsInv, NEW s \in Slots, L!Deny(s) \/ L!Detach(s)
  PROVE  LoginsInv'
<1>1. logins[s].at = "waiting" /\ DOMAIN logins[s] = LoginFields
  BY DEF L!Deny, L!Detach, LoginsInv, LoginsTyped, SlotTyped
<1>2. PICK q : /\ L!Set(s, q) /\ DOMAIN q = LoginFields /\ q.at = "waiting"
               /\ q.who = logins[s].who /\ q.began = logins[s].began /\ q.pick = logins[s].pick
               /\ q.row = logins[s].row /\ q.old = logins[s].old
  <2>1. CASE L!Deny(s)
    <3>1. PICK q : q = [logins[s] EXCEPT !.cli = "error"]
      OBVIOUS
    <3> QED
      BY <1>1, <2>1, <3>1 DEF L!Deny, LoginFields
  <2>2. CASE L!Detach(s)
    <3>1. PICK q : q = [logins[s] EXCEPT !.client = "none"]
      OBVIOUS
    <3> QED
      BY <1>1, <2>2, <3>1 DEF L!Detach, LoginFields
  <2> QED
    BY <2>1, <2>2
<1>3. /\ DOMAIN logins' = Slots /\ logins'[s] = q
      /\ \A t \in Slots : t # s => logins'[t] = logins[t]
  BY <1>2, SlotPut DEF LoginsInv
<1>4. UNCHANGED <<platform, listed, files, deletes, clock, known, excused>>
  BY DEF L!Deny, L!Detach, L!Rest
<1>5. SlotTyped(s)'
  BY <1>1, <1>2, <1>3, <1>4 DEF SlotTyped, L!Busy, LoginsInv, LoginsTyped
<1>6. \A i \in Identities : SlotSame(s, i)
  BY <1>1, <1>2, <1>3, <1>4 DEF SlotSame, Engaged, Waits, Works
<1> QED
  BY <1>3, <1>4, <1>5, <1>6, QuietSlot

\* Nobody is engaged in a login that is about to be told, or waits for a browser's code.
LEMMA AppearsKeeps ==
  ASSUME LoginsInv, NEW s \in Slots, L!Appears(s)
  PROVE  LoginsInv'
<1>1. PICK id : L!Set(s, [L!Idle EXCEPT !.at = "told", !.row = id])
  BY DEF L!Appears
<1>2. PICK q : q = [L!Idle EXCEPT !.at = "told", !.row = id]
  OBVIOUS
<1>3. DOMAIN q = LoginFields /\ q.at = "told" /\ q.who = Nobody
  BY <1>2, IdleLogin DEF LoginFields
<1>4. /\ DOMAIN logins' = Slots /\ logins'[s] = q
      /\ \A t \in Slots : t # s => logins'[t] = logins[t]
  BY <1>1, <1>2, SlotPut DEF LoginsInv
<1>5. UNCHANGED <<platform, listed, files, deletes, clock, known, excused>>
  BY DEF L!Appears, L!Rest
<1>6. SlotTyped(s)' /\ \A i : ~Engaged(s, i)'
  BY <1>3, <1>4 DEF SlotTyped, Engaged, Waits, Works, L!Busy
<1>7. \A i : ~Engaged(s, i)
  BY DEF L!Appears, Engaged, Waits, Works, L!Busy
<1> QED
  BY <1>4, <1>5, <1>6, <1>7, NothingSame, QuietSlot

LEMMA UndoneKeeps ==
  ASSUME LoginsInv, NEW s \in Slots, logins[s].at \notin L!Busy \cup {"waiting"}, L!Go(s, "told"),
         UNCHANGED <<platform, listed, files, deletes, clock, known, excused>>
  PROVE  LoginsInv'
<1>1. /\ DOMAIN logins' = Slots
      /\ \A t \in Slots : t # s => logins'[t] = logins[t]
      /\ DOMAIN logins'[s] = LoginFields /\ logins'[s].at = "told"
      /\ logins'[s].who = logins[s].who
  BY SlotGo DEF LoginsInv
<1>2. SlotTyped(s)' /\ \A i : ~Engaged(s, i)'
  BY <1>1 DEF SlotTyped, Engaged, Waits, Works, L!Busy, LoginsInv, LoginsTyped
<1>3. \A i : ~Engaged(s, i)
  BY DEF Engaged, Waits, Works
<1> QED
  BY <1>1, <1>2, <1>3, NothingSame, QuietSlot

LEMMA SmallStepsKeep ==
  ASSUME LoginsInv, NEW s \in Slots, L!Undone(s) \/ L!Told(s) \/ L!GiveUp(s)
  PROVE  LoginsInv'
<1>1. CASE L!Undone(s)
  BY <1>1, UndoneKeeps DEF L!Undone, L!Busy, L!Rest
<1>2. CASE L!Told(s)
  <2>1. \A i : ~Engaged(s, i)
    BY <1>2 DEF L!Told, Engaged, Waits, Works, L!Busy
  <2> QED
    BY <1>2, <2>1, SlotIdle DEF L!Told, L!Rest
<1>3. CASE L!GiveUp(s)
  <2>1. ASSUME NEW i \in Identities \ excused' PROVE ~Engaged(s, i)
    BY <1>3, LoginsAssumption DEF L!GiveUp, Engaged, Waits, Works, L!Busy
  <2> QED
    BY <1>3, <2>1, SlotIdle DEF L!GiveUp, L!Rest
<1> QED
  BY <1>1, <1>2, <1>3

-----------------------------------------------------------------------------
\* A step that touches one identity: the others do not notice it.
LEMMA TouchOne ==
  ASSUME LoginsInv, LoginsTyped', NEW j, excused \subseteq excused',
         \A i \in Identities \ excused' : i # j =>
           /\ \A t \in Slots : SlotSame(t, i)
           /\ DeletesSame(i) /\ RowsSame(i) /\ FilesSame(i) /\ (i \in known' <=> i \in known),
         j \in Identities \ excused' => Exclusive(j)' /\ Accounted(j)'
  PROVE  LoginsInv'
<1>1. ASSUME NEW i \in Identities \ excused' PROVE Exclusive(i)' /\ Accounted(i)'
  <2>1. CASE i = j
    BY <2>1
  <2>2. CASE i # j
    <3>1. LoginsTyped /\ Exclusive(i) /\ Accounted(i)
      BY DEF LoginsInv
    <3> QED
      BY <2>2, <3>1, Untouched
  <2> QED
    BY <2>1, <2>2
<1> QED
  BY <1>1 DEF LoginsInv

\* A credential file that is written: it is the newest of all.
LEMMA WriteShape ==
  ASSUME LoginsTyped, NEW i \in Identities, NEW v \in Variants, L!Write(i, v), NEW f, f = <<i, v>>
  PROVE  /\ FilesTyped' /\ clock <= clock' /\ f \in L!File /\ L!WhoOf(f) = i
         /\ DOMAIN files' = DOMAIN files \cup {f} /\ files'[f] = clock + 1
         /\ \A g \in DOMAIN files : g # f => files'[g] = files[g]
         /\ \A g \in DOMAIN files' : g # f => files'[g] < clock + 1
         /\ known' = known \cup {i}
         /\ \A k \in Identities : k # i => FilesSame(k)
<1>1. f \in L!File /\ L!WhoOf(f) = i
  BY DEF L!File, L!WhoOf
<1>2. /\ clock \in Nat /\ clock' = clock + 1 /\ known' = known \cup {i}
      /\ files' = [g \in DOMAIN files \cup {f} |-> IF g = f THEN clock + 1 ELSE files[g]]
  BY DEF L!Write, LoginsTyped, FilesTyped
<1>3. \A g \in DOMAIN files : g \in L!File /\ files[g] \in 0 .. clock
  BY DEF LoginsTyped, FilesTyped
<1>4. /\ DOMAIN files' = DOMAIN files \cup {f} /\ files'[f] = clock + 1
      /\ \A g \in DOMAIN files : g # f => files'[g] = files[g]
  BY <1>2
<1>5. \A g \in DOMAIN files' : g # f => files'[g] < clock + 1
  BY <1>2, <1>3, <1>4
<1>6. FilesTyped'
  <2>1. DOMAIN files' \subseteq L!File
    BY <1>1, <1>3, <1>4
  <2>2. ASSUME NEW g \in DOMAIN files' PROVE files'[g] \in 0 .. clock'
    BY <1>2, <1>3, <1>4
  <2>3. clock' \in Nat
    BY <1>2
  <2> QED
    BY <2>1, <2>2, <2>3, Zenon DEF FilesTyped, L!File
<1>7. \A k \in Identities : k # i => FilesSame(k)
  BY <1>1, <1>4 DEF FilesSame
<1> QED
  BY <1>1, <1>2, <1>4, <1>5, <1>6, <1>7

\* It is the only one that no account of an identity with nothing under way has.
LEMMA WrittenKept ==
  ASSUME LoginsInv, NEW i \in Identities \ excused, NEW f, UNCHANGED listed,
         \A t \in Slots : ~Engaged(t, i), \A d \in deletes : d.who # i,
         DOMAIN files' = DOMAIN files \cup {f}, known' = known \cup {i}
  PROVE  Extra(i)' \subseteq {f} /\ RowsKept(i)'
<1>1. Extra(i) = {} /\ RowsKept(i)
  BY DEF LoginsInv, Accounted
<1>2. Extra(i)' \subseteq {f}
  BY <1>1 DEF Extra, L!Live
<1>3. RowsKept(i)'
  BY <1>1 DEF RowsKept
<1> QED
  BY <1>2, <1>3

\* The person signs in, and CLIProxyAPI writes the file.
LEMMA SignInKeeps ==
  ASSUME LoginsInv, NEW s \in Slots, L!SignIn(s)
  PROVE  LoginsInv'
<1>1. /\ logins[s].at = "waiting" /\ logins[s].who = Nobody /\ DOMAIN logins[s] = LoginFields
      /\ logins[s].began \in 0 .. clock /\ UNCHANGED <<platform, deletes>>
  BY DEF L!SignIn, L!Rest, LoginsInv, LoginsTyped, SlotTyped
<1>2. \A k \in Identities : ~Engaged(s, k)
  BY <1>1, LoginsAssumption DEF Engaged, Waits, Works, L!Busy
<1>3. ASSUME NEW i \in Identities, NEW q, L!Set(s, q),
             DOMAIN q = LoginFields, q.at = "waiting", q.who = i, q.began = logins[s].began,
             clock <= clock', FilesTyped'
      PROVE  /\ DOMAIN logins' = Slots /\ logins'[s] = q
             /\ \A t \in Slots : t # s => logins'[t] = logins[t]
             /\ SlotTyped(s)' /\ \A k \in Identities : k # i => ~Engaged(s, k)'
  <2>1. /\ DOMAIN logins' = Slots /\ logins'[s] = q
        /\ \A t \in Slots : t # s => logins'[t] = logins[t]
    BY <1>3, SlotPut DEF LoginsInv
  <2>2. q.began \in 0 .. clock'
    BY <1>1, <1>3 DEF FilesTyped, LoginsInv, LoginsTyped
  <2>3. SlotTyped(s)'
    BY <1>3, <2>1, <2>2 DEF SlotTyped, L!Busy
  <2>4. \A k \in Identities : k # i => ~Engaged(s, k)'
    BY <1>3, <2>1 DEF Engaged, Waits, Works, L!Busy
  <2> QED
    BY <2>1, <2>3, <2>4
<1>4. PICK i \in Identities :
        \/ /\ platform # "direct"
           /\ \E v \in Variants : L!Write(i, v)
           /\ \E answer \in {"ok", "error"} : L!Set(s, [logins[s] EXCEPT !.who = i, !.cli = answer])
           /\ L!Touch(s, i) /\ UNCHANGED listed
        \/ /\ platform = "direct" /\ L!Set(s, [logins[s] EXCEPT !.who = i])
           /\ UNCHANGED <<listed, files, clock, known, excused>>
  BY DEF L!SignIn
<1>5. CASE platform = "direct"
  <2>1. PICK q : q = [logins[s] EXCEPT !.who = i]
    OBVIOUS
  <2>2. DOMAIN q = LoginFields /\ q.at = "waiting" /\ q.who = i /\ q.began = logins[s].began
    BY <1>1, <2>1 DEF LoginFields
  <2>3. L!Set(s, q) /\ UNCHANGED <<listed, files, clock, known, excused>>
    BY <1>4, <1>5, <2>1
  <2>4. clock <= clock' /\ FilesTyped'
    BY <2>3 DEF LoginsInv, LoginsTyped, FilesTyped, L!File
  <2>5. /\ DOMAIN logins' = Slots /\ logins'[s] = q
        /\ \A t \in Slots : t # s => logins'[t] = logins[t]
        /\ SlotTyped(s)'
    BY <1>3, <2>2, <2>3, <2>4
  <2>6. \A k : ~Engaged(s, k)'
    BY <1>1, <1>5, <2>2, <2>5 DEF Engaged, Waits, Works, L!Busy
  <2>7. \A k \in Identities : SlotSame(s, k)
    BY <1>2, <2>6, NothingSame
  <2> QED
    BY <1>1, <2>3, <2>5, <2>7, QuietSlot
<1>6. CASE platform # "direct"
  <2>1. PICK v \in Variants, answer \in {"ok", "error"} :
          L!Write(i, v) /\ L!Set(s, [logins[s] EXCEPT !.who = i, !.cli = answer])
    BY <1>4, <1>6
  <2>2. UNCHANGED listed /\ L!Touch(s, i)
    BY <1>4, <1>6
  <2>3. PICK q : q = [logins[s] EXCEPT !.who = i, !.cli = answer]
    OBVIOUS
  <2>4. DOMAIN q = LoginFields /\ q.at = "waiting" /\ q.who = i /\ q.began = logins[s].began
    BY <1>1, <2>3 DEF LoginFields
  <2>5. PICK f : f = <<i, v>>
    OBVIOUS
  <2>6. /\ FilesTyped' /\ clock <= clock' /\ f \in L!File /\ L!WhoOf(f) = i
        /\ DOMAIN files' = DOMAIN files \cup {f} /\ files'[f] = clock + 1
        /\ \A g \in DOMAIN files' : g # f => files'[g] < clock + 1
        /\ known' = known \cup {i} /\ \A k \in Identities : k # i => FilesSame(k)
    BY <2>1, <2>5, WriteShape DEF LoginsInv
  <2>7. /\ DOMAIN logins' = Slots /\ logins'[s] = q
        /\ \A t \in Slots : t # s => logins'[t] = logins[t]
        /\ SlotTyped(s)' /\ \A k \in Identities : k # i => ~Engaged(s, k)'
    BY <1>3, <2>1, <2>3, <2>4, <2>6
  <2>8. LoginsTyped'
    <3>1. RowsTyped' /\ RowsPersist
      BY <2>2 DEF LoginsInv, LoginsTyped, RowsTyped, RowsPersist
    <3> QED
      BY <1>1, <2>6, <2>7, <3>1, TypedStep DEF LoginsInv
  <2>9. excused' = excused \cup ({i} \cap L!Underway(s))
    BY <2>2 DEF L!Touch
  <2>10. ASSUME NEW k \in Identities \ excused', k # i
         PROVE  /\ \A t \in Slots : SlotSame(t, k)
                /\ DeletesSame(k) /\ RowsSame(k) /\ FilesSame(k) /\ (k \in known' <=> k \in known)
    <3>1. \A t \in Slots : SlotSame(t, k)
      BY <1>1, <1>2, <2>7, <2>10, OtherSlotSame, NothingSame
    <3> QED
      BY <1>1, <2>2, <2>6, <2>10, <3>1 DEF DeletesSame, RowsSame
  <2>11. ASSUME i \in Identities \ excused' PROVE Exclusive(i)' /\ Accounted(i)'
    <3>1. i \in Identities \ excused /\ i \notin L!Underway(s)
      BY <2>9, <2>11
    <3>2. (\A t \in Slots : ~Engaged(t, i)) /\ \A d \in deletes : d.who # i
      BY <1>2, <3>1, NotUnderway
    <3>3. Extra(i)' \subseteq {f} /\ RowsKept(i)'
      BY <2>2, <2>6, <3>1, <3>2, WrittenKept
    <3>4. \A t \in Slots : t # s => ~Engaged(t, i)'
      BY <1>1, <2>7, <3>2 DEF Engaged, Waits, Works
    <3>5. Waits(s, i)' /\ ~Works(s, i)'
      BY <1>1, <1>6, <2>4, <2>7 DEF Waits, Works, L!Busy
    <3>6. WaitKept(s, i)'
      <4>1. files'[f] > logins'[s].began
        BY <1>1, <2>4, <2>6, <2>7 DEF LoginsInv, LoginsTyped, FilesTyped
      <4> QED
        BY <2>6, <3>3, <4>1 DEF WaitKept
    <3> QED
      BY <1>1, <3>2, <3>3, <3>4, <3>5, <3>6, OneSlot DEF Engaged
  <2> QED
    BY <2>8, <2>9, <2>10, <2>11, TouchOne
<1> QED
  BY <1>5, <1>6

-----------------------------------------------------------------------------
\* A login takes up a file, and works for its identity from there.
LEMMA TakingShape ==
  ASSUME LoginsTyped, NEW s \in Slots, NEW f \in L!File, NEW q, L!Set(s, q),
         \/ q = L!Taking(s, f)
         \/ q = [L!Idle EXCEPT !.at = "picked", !.client = "import", !.pick = f]
  PROVE  /\ DOMAIN logins' = Slots /\ logins'[s].at = "picked" /\ logins'[s].pick = f
         /\ \A t \in Slots : t # s => logins'[t] = logins[t]
         /\ SlotTyped(s)' /\ \A i : Engaged(s, i)' <=> i = L!WhoOf(f)
<1>1. DOMAIN q = LoginFields /\ q.at = "picked" /\ q.pick = f /\ q.who = Nobody
  <2>1. CASE q = L!Taking(s, f)
    BY <2>1, IdleLogin DEF L!Taking, LoginFields
  <2>2. CASE q = [L!Idle EXCEPT !.at = "picked", !.client = "import", !.pick = f]
    BY <2>2, IdleLogin DEF LoginFields
  <2> QED
    BY <2>1, <2>2
<1>2. /\ DOMAIN logins' = Slots /\ logins'[s] = q
      /\ \A t \in Slots : t # s => logins'[t] = logins[t]
  BY SlotPut
<1>3. SlotTyped(s)'
  BY <1>1, <1>2 DEF SlotTyped, L!Busy, L!File
<1>4. \A i : Engaged(s, i)' <=> i = L!WhoOf(f)
  BY <1>1, <1>2 DEF Engaged, Waits, Works, L!Busy
<1> QED
  BY <1>1, <1>2, <1>3, <1>4

\* The other identities do not notice, unless the login was theirs before.
LEMMA TakingSame ==
  ASSUME NEW s \in Slots, NEW j, NEW i, i # j, UNCHANGED platform,
         \A t \in Slots : t # s => logins'[t] = logins[t],
         Engaged(s, i)' <=> i = j, ~Engaged(s, i)
  PROVE  \A t \in Slots : SlotSame(t, i)
BY OtherSlotSame, NothingSame

\* The newest file since the login began: the one of its sign-in, or an account's.
LEMMA PickKeeps ==
  ASSUME LoginsInv, NEW s \in Slots, L!Pick(s)
  PROVE  LoginsInv'
<1>1. PICK n : n = L!Newest(L!Fresh(s))
  OBVIOUS
<1>2. L!Fresh(s) \subseteq DOMAIN files /\ L!Fresh(s) # {}
  BY DEF L!Pick, L!Fresh
<1>3. n \in L!Fresh(s) /\ \A g \in L!Fresh(s) : files[g] <= files[n]
  BY <1>1, <1>2, NewestIsThere DEF LoginsInv, LoginsTyped
<1>4. n \in DOMAIN files /\ n \in L!File
  BY <1>2, <1>3 DEF LoginsInv, LoginsTyped, FilesTyped
<1>5. PICK j : j = L!WhoOf(n)
  OBVIOUS
<1>6. j \in Identities /\ j # Nobody
  BY <1>4, <1>5, FileHasOwner
<1>7. /\ logins[s].at = "waiting" /\ platform # "direct"
      /\ excused' = excused \cup ({j} \cap L!Underway(s)) \cup ({logins[s].who} \ {j, Nobody})
      /\ L!Set(s, L!Taking(s, n))
      /\ UNCHANGED <<platform, listed, files, deletes, clock, known>>
  BY <1>1, <1>5 DEF L!Pick, L!Rest
<1>8. /\ DOMAIN logins' = Slots /\ logins'[s].at = "picked" /\ logins'[s].pick = n
      /\ \A t \in Slots : t # s => logins'[t] = logins[t]
      /\ SlotTyped(s)' /\ \A i : Engaged(s, i)' <=> i = j
  BY <1>4, <1>5, <1>7, TakingShape DEF LoginsInv
<1>9. LoginsTyped'
  <2>1. RowsTyped' /\ RowsPersist /\ FilesTyped' /\ clock <= clock'
    BY <1>7 DEF LoginsInv, LoginsTyped, RowsTyped, FilesTyped, RowsPersist, L!Live, L!File
  <2> QED
    BY <1>7, <1>8, <2>1, TypedStep DEF LoginsInv
<1>10. ASSUME NEW i \in Identities \ excused', i # j
       PROVE  /\ \A t \in Slots : SlotSame(t, i)
              /\ DeletesSame(i) /\ RowsSame(i) /\ FilesSame(i) /\ (i \in known' <=> i \in known)
  <2>1. ~Engaged(s, i)
    BY <1>7, <1>10, LoginsAssumption DEF Engaged, Waits, Works, L!Busy
  <2>2. \A t \in Slots : SlotSame(t, i)
    BY <1>7, <1>8, <1>10, <2>1, TakingSame
  <2> QED
    BY <1>7, <2>2 DEF DeletesSame, RowsSame, FilesSame
<1>11. ASSUME j \in Identities \ excused' PROVE Exclusive(j)' /\ Accounted(j)'
  <2>1. j \in Identities \ excused /\ j \notin L!Underway(s)
    BY <1>7, <1>11
  <2>2. (\A t \in Slots : t # s => ~Engaged(t, j)) /\ \A d \in deletes : d.who # j
    BY <2>1, NotUnderway
  <2>3. Accounted(j)
    BY <2>1 DEF LoginsInv
  <2>4. j \in known /\ Extra(j) \subseteq {n}
    <3>1. CASE Waits(s, j)
      <4>1. PICK f \in DOMAIN files :
               /\ L!WhoOf(f) = j /\ Extra(j) \subseteq {f} /\ files[f] > logins[s].began
               /\ \A g \in DOMAIN files : L!WhoOf(g) = j /\ g # f => files[g] < files[f]
        BY <2>3, <3>1 DEF Accounted, WaitKept
      <4>2. files[f] <= files[n]
        BY <1>3, <4>1 DEF L!Fresh
      <4>3. files[f] \in Nat /\ files[n] \in Nat
        BY <1>4, <4>1 DEF LoginsInv, LoginsTyped, FilesTyped
      <4>4. n = f
        BY <1>4, <1>5, <4>1, <4>2, <4>3
      <4> QED
        BY <2>3, <3>1, <4>1, <4>4 DEF Accounted, WaitKept
    <3>2. CASE ~Waits(s, j)
      <4>1. \A t \in Slots : ~Engaged(t, j)
        BY <1>7, <2>2, <3>2 DEF Engaged, Works, L!Busy
      <4>2. Extra(j) = {}
        BY <2>2, <2>3, <4>1 DEF Accounted
      <4>3. PICK id \in L!Live : listed[id].file = n
        BY <1>4, <1>5, <4>2 DEF Extra
      <4>4. id \in DOMAIN listed /\ listed[id].identity = j
        BY <1>5, <4>3 DEF LoginsInv, LoginsTyped, RowsTyped, L!Live
      <4> QED
        BY <2>3, <4>2, <4>4 DEF Accounted, RowsKept
    <3> QED
      BY <3>1, <3>2
  <2>5. Extra(j)' = Extra(j) /\ RowsKept(j)'
    BY <1>7, <2>3 DEF Extra, L!Live, RowsKept, Accounted
  <2>6. WorkKept(s, j)'
    BY <1>4, <1>7, <1>8, <2>4, <2>5 DEF WorkKept
  <2>7. ~Waits(s, j)' /\ Engaged(s, j)'
    BY <1>8 DEF Waits
  <2>8. \A t \in Slots : t # s => ~Engaged(t, j)'
    BY <1>7, <1>8, <2>2 DEF Engaged, Waits, Works
  <2> QED
    BY <1>7, <2>2, <2>5, <2>6, <2>7, <2>8, OneSlot
<1> QED
  BY <1>7, <1>9, <1>10, <1>11, TouchOne

\* The Host exchanges the code itself: the file and the login's account at once.
LEMMA ExchangeKeeps ==
  ASSUME LoginsInv, NEW s \in Slots, L!Exchange(s)
  PROVE  LoginsInv'
<1>1. PICK j : j = logins[s].who
  OBVIOUS
<1>2. /\ j \in Identities /\ logins[s].at = "waiting" /\ platform = "direct"
      /\ UNCHANGED <<platform, listed, deletes>>
      /\ excused' = excused \cup ({j} \cap L!Underway(s))
  BY <1>1 DEF L!Exchange, L!Rest, L!Touch, LoginsInv, LoginsTyped, SlotTyped
<1>3. PICK v \in Variants : L!Write(j, v) /\ L!Set(s, L!Taking(s, <<j, v>>))
  BY <1>1 DEF L!Exchange
<1>4. PICK f : f = <<j, v>>
  OBVIOUS
<1>5. /\ FilesTyped' /\ clock <= clock' /\ f \in L!File /\ L!WhoOf(f) = j
      /\ DOMAIN files' = DOMAIN files \cup {f}
      /\ known' = known \cup {j} /\ \A k \in Identities : k # j => FilesSame(k)
  BY <1>2, <1>3, <1>4, WriteShape DEF LoginsInv
<1>6. /\ DOMAIN logins' = Slots /\ logins'[s].at = "picked" /\ logins'[s].pick = f
      /\ \A t \in Slots : t # s => logins'[t] = logins[t]
      /\ SlotTyped(s)' /\ \A i : Engaged(s, i)' <=> i = j
  BY <1>3, <1>4, <1>5, TakingShape DEF LoginsInv
<1>7. \A i : ~Engaged(s, i)
  BY <1>2 DEF Engaged, Waits, Works, L!Busy
<1>8. LoginsTyped'
  <2>1. RowsTyped' /\ RowsPersist
    BY <1>2 DEF LoginsInv, LoginsTyped, RowsTyped, RowsPersist
  <2> QED
    BY <1>2, <1>5, <1>6, <2>1, TypedStep DEF LoginsInv
<1>9. ASSUME NEW i \in Identities \ excused', i # j
      PROVE  /\ \A t \in Slots : SlotSame(t, i)
             /\ DeletesSame(i) /\ RowsSame(i) /\ FilesSame(i) /\ (i \in known' <=> i \in known)
  <2>1. \A t \in Slots : SlotSame(t, i)
    BY <1>2, <1>6, <1>7, <1>9, TakingSame
  <2> QED
    BY <1>2, <1>5, <1>9, <2>1 DEF DeletesSame, RowsSame
<1>10. ASSUME j \in Identities \ excused' PROVE Exclusive(j)' /\ Accounted(j)'
  <2>1. j \in Identities \ excused /\ j \notin L!Underway(s)
    BY <1>2, <1>10
  <2>2. (\A t \in Slots : ~Engaged(t, j)) /\ \A d \in deletes : d.who # j
    BY <1>7, <2>1, NotUnderway
  <2>3. Extra(j)' \subseteq {f} /\ RowsKept(j)'
    BY <1>2, <1>5, <2>1, <2>2, WrittenKept
  <2>4. WorkKept(s, j)'
    BY <1>5, <1>6, <2>3 DEF WorkKept
  <2>5. ~Waits(s, j)' /\ Engaged(s, j)'
    BY <1>6 DEF Waits
  <2>6. \A t \in Slots : t # s => ~Engaged(t, j)'
    BY <1>2, <1>6, <2>2 DEF Engaged, Waits, Works
  <2> QED
    BY <1>2, <2>2, <2>3, <2>4, <2>5, <2>6, OneSlot
<1> QED
  BY <1>2, <1>8, <1>9, <1>10, TouchOne

\* A file that no account has is of an identity that something is under way for, or was not
\* finished for.
LEMMA ImportKeeps ==
  ASSUME LoginsInv, NEW s \in Slots, L!Import(s)
  PROVE  LoginsInv'
<1>1. PICK f \in DOMAIN files :
        /\ \A id \in L!Live : listed[id].identity # L!WhoOf(f) /\ listed[id].file # f
        /\ L!Set(s, [L!Idle EXCEPT !.at = "picked", !.client = "import", !.pick = f])
        /\ L!Touch(s, L!WhoOf(f))
  BY DEF L!Import
<1>2. PICK j : j = L!WhoOf(f)
  OBVIOUS
<1>3. /\ logins[s].at = "idle" /\ UNCHANGED <<platform, listed, files, deletes, clock, known>>
      /\ excused' = excused \cup ({j} \cap L!Underway(s))
  BY <1>1, <1>2 DEF L!Import, L!Rest, L!Touch
<1>4. f \in L!File
  BY DEF LoginsInv, LoginsTyped, FilesTyped
<1>5. /\ DOMAIN logins' = Slots
      /\ \A t \in Slots : t # s => logins'[t] = logins[t]
      /\ SlotTyped(s)' /\ \A i : Engaged(s, i)' <=> i = j
  <2>1. PICK q : q = [L!Idle EXCEPT !.at = "picked", !.client = "import", !.pick = f]
    OBVIOUS
  <2>2. LoginsTyped /\ L!Set(s, q)
    BY <1>1, <2>1 DEF LoginsInv
  <2>3. /\ DOMAIN logins' = Slots /\ logins'[s].at = "picked" /\ logins'[s].pick = f
        /\ \A t \in Slots : t # s => logins'[t] = logins[t]
        /\ SlotTyped(s)' /\ \A i : Engaged(s, i)' <=> i = L!WhoOf(f)
    <3>1. \/ q = L!Taking(s, f)
          \/ q = [L!Idle EXCEPT !.at = "picked", !.client = "import", !.pick = f]
      BY <2>1
    <3> HIDE <2>1
    <3> QED
      BY <1>4, <2>2, <3>1, TakingShape, Zenon
  <2> QED
    BY <1>2, <2>3
<1>6. \A i : ~Engaged(s, i)
  BY <1>3 DEF Engaged, Waits, Works, L!Busy
<1>7. j \notin Identities \ excused'
  <2> SUFFICES ASSUME j \in Identities \ excused' PROVE FALSE
    OBVIOUS
  <2>1. j \in Identities \ excused /\ j \notin L!Underway(s)
    BY <1>3
  <2>2. (\A t \in Slots : ~Engaged(t, j)) /\ \A d \in deletes : d.who # j
    BY <1>6, <2>1, NotUnderway
  <2>3. Extra(j) = {}
    BY <2>1, <2>2 DEF LoginsInv, Accounted
  <2> QED
    BY <1>1, <1>2, <2>3 DEF Extra
<1>8. ASSUME NEW i \in Identities \ excused' PROVE SlotSame(s, i)
  BY <1>5, <1>6, <1>7, NothingSame
<1> QED
  BY <1>3, <1>5, <1>8, QuietSlot

-----------------------------------------------------------------------------
\* The steps of a login or an import that works for an identity.
LEMMA WorkingSame ==
  ASSUME NEW s \in Slots, NEW j, NEW i, i # j, Works(s, j), UNCHANGED platform,
         \A t \in Slots : t # s => logins'[t] = logins[t],
         logins'[s].at # "waiting", logins'[s].at \in L!Busy => L!WhoOf(logins'[s].pick) = j
  PROVE  \A t \in Slots : SlotSame(t, i)
<1>1. ~Engaged(s, i)
  BY DEF Engaged, Waits, Works, L!Busy
<1>2. ~Engaged(s, i)'
  BY DEF Engaged, Waits, Works
<1> QED
  BY <1>1, <1>2, OtherSlotSame, NothingSame

LEMMA WorkingAlone ==
  ASSUME LoginsInv, NEW s \in Slots, NEW j \in Identities \ excused, Works(s, j)
  PROVE  /\ WorkKept(s, j) /\ RowsKept(j) /\ \A d \in deletes : d.who # j
         /\ \A t \in Slots : t # s => ~Engaged(t, j)
BY DEF LoginsInv, Accounted, Exclusive, Engaged

LEMMA OthersStayAway ==
  ASSUME NEW s \in Slots, NEW j, UNCHANGED platform, \A t \in Slots : t # s => ~Engaged(t, j),
         \A t \in Slots : t # s => logins'[t] = logins[t]
  PROVE  \A t \in Slots : t # s => ~Engaged(t, j)'
BY DEF Engaged, Waits, Works

LEMMA ARow ==
  ASSUME RowsTyped, NEW id \in DOMAIN listed
  PROVE  /\ listed[id] \in AccountRow /\ id \in Nat /\ id # 0
         /\ listed[id].file \in L!File /\ listed[id].identity \in Identities \cup {Nobody}
         /\ listed[id].live \in BOOLEAN
<1>1. listed \in Seq(AccountRow)
  BY DEF RowsTyped
<1>2. listed[id] \in AccountRow /\ id \in Nat /\ id # 0
  BY <1>1
<1> QED
  BY <1>2 DEF AccountRow

\* An identity has one account at most, so the lookup finds it.
LEMMA LookupFinds ==
  ASSUME RowsTyped, NEW j \in Identities, L!Of(j) # {}
  PROVE  L!Min(L!Of(j)) \in L!Of(j)
<1>1. PICK id : id \in L!Of(j)
  OBVIOUS
<1>2. \A jd \in L!Of(j) : jd = id
  BY <1>1, LoginsAssumption DEF RowsTyped, L!Of, L!Live
<1>3. id \in Nat
  BY <1>1, ARow DEF L!Of, L!Live
<1>4. \A jd \in L!Of(j) : id <= jd
  BY <1>2, <1>3
<1> QED
  BY <1>1, <1>4, Zenon DEF L!Min

LEMMA LookupKeeps ==
  ASSUME LoginsInv, NEW s \in Slots, L!Lookup(s)
  PROVE  LoginsInv'
<1>1. PICK l, j : l = logins[s] /\ j = L!WhoOf(l.pick)
  OBVIOUS
<1>2. /\ l.at = "picked" /\ DOMAIN l = LoginFields /\ l.pick \in L!File
      /\ l.who \in Identities \cup {Nobody} /\ j \in Identities /\ Works(s, j)
      /\ UNCHANGED <<platform, listed, files, deletes, clock, known, excused>>
  BY <1>1, FileHasOwner DEF L!Lookup, L!Rest, LoginsInv, LoginsTyped, SlotTyped, L!Busy, Works
<1>3. PICK id, old : /\ id = IF L!Of(j) = {} THEN 0 ELSE L!Min(L!Of(j))
                     /\ old = IF id = 0 THEN L!NoFile ELSE listed[id].file
  OBVIOUS
<1>4. L!Set(s, [l EXCEPT !.at = "matched", !.row = id, !.old = old])
  BY <1>1, <1>3, Zenon DEF L!Lookup
<1>5. PICK q : q = [l EXCEPT !.at = "matched", !.row = id, !.old = old]
  OBVIOUS
<1>6. /\ DOMAIN q = LoginFields /\ q.at = "matched" /\ q.row = id /\ q.old = old
      /\ q.pick = l.pick /\ q.who = l.who
  BY <1>2, <1>5 DEF LoginFields
<1>7. /\ DOMAIN logins' = Slots /\ logins'[s] = q
      /\ \A t \in Slots : t # s => logins'[t] = logins[t]
  BY <1>4, <1>5, SlotPut DEF LoginsInv
<1>8. (id # 0 => id \in L!Of(j)) /\ (id = 0 => L!Of(j) = {})
  <2>1. CASE L!Of(j) = {}
    BY <1>3, <2>1
  <2>2. CASE L!Of(j) # {}
    <3>1. id \in L!Of(j)
      BY <1>2, <1>3, <2>2, LookupFinds DEF LoginsInv, LoginsTyped
    <3>2. id # 0
      BY <3>1, ARow DEF LoginsInv, LoginsTyped, L!Of, L!Live
    <3> QED
      BY <3>1, <3>2
  <2> QED
    BY <2>1, <2>2
<1>9. id # 0 => /\ id \in DOMAIN listed /\ listed[id].identity = j /\ old \in L!File
                /\ L!WhoOf(old) = j /\ L!WhoOf(listed[id].file) = j /\ old = listed[id].file
  BY <1>2, <1>3, <1>8, ARow, LoginsAssumption DEF LoginsInv, LoginsTyped, RowsTyped, L!Of, L!Live
<1>10. SlotTyped(s)'
  BY <1>1, <1>2, <1>6, <1>7, <1>9 DEF SlotTyped, L!Busy
<1>11. LoginsTyped'
  <2>1. RowsTyped' /\ RowsPersist /\ FilesTyped' /\ clock <= clock'
    BY <1>2 DEF LoginsInv, LoginsTyped, RowsTyped, FilesTyped, RowsPersist, L!Live, L!File
  <2> QED
    BY <1>2, <1>7, <1>10, <2>1, TypedStep DEF LoginsInv
<1>12. ASSUME NEW i \in Identities \ excused', i # j
       PROVE  /\ \A t \in Slots : SlotSame(t, i)
              /\ DeletesSame(i) /\ RowsSame(i) /\ FilesSame(i) /\ (i \in known' <=> i \in known)
  <2>1. \A t \in Slots : SlotSame(t, i)
    BY <1>1, <1>2, <1>6, <1>7, <1>12, WorkingSame
  <2> QED
    BY <1>2, <2>1 DEF DeletesSame, RowsSame, FilesSame
<1>13. ASSUME j \in Identities \ excused' PROVE Exclusive(j)' /\ Accounted(j)'
  <2>1. /\ WorkKept(s, j) /\ RowsKept(j) /\ \A d \in deletes : d.who # j
        /\ \A t \in Slots : t # s => ~Engaged(t, j)
    BY <1>2, <1>13, WorkingAlone
  <2>2. \A t \in Slots : t # s => ~Engaged(t, j)'
    BY <1>2, <1>7, <2>1, OthersStayAway
  <2>3. Extra(j)' = Extra(j) /\ RowsKept(j)'
    BY <1>2, <2>1 DEF Extra, L!Live, RowsKept
  <2>4. id = 0 => \A k \in DOMAIN listed : listed[k].identity # j
    BY <1>8, <2>1 DEF RowsKept, L!Of, L!Live
  <2>5. WorkKept(s, j)'
    BY <1>1, <1>2, <1>6, <1>7, <1>9, <2>1, <2>3, <2>4 DEF WorkKept
  <2>6. ~Waits(s, j)' /\ Engaged(s, j)'
    BY <1>1, <1>6, <1>7 DEF Waits, Works, Engaged, L!Busy
  <2> QED
    BY <1>2, <2>1, <2>2, <2>3, <2>5, <2>6, OneSlot
<1> QED
  BY <1>2, <1>11, <1>12, <1>13, TouchOne

-----------------------------------------------------------------------------
\* The row: no row of another account has the identity by then.
LEMMA StoreTaken ==
  ASSUME LoginsInv, NEW s \in Slots, logins[s].at = "matched", L!Taken(s), L!Set(s, L!Idle),
         UNCHANGED <<platform, listed, files, deletes, clock, known, excused>>
  PROVE  LoginsInv'
<1>1. ASSUME NEW i \in Identities \ excused' PROVE ~Engaged(s, i)
  <2> SUFFICES ASSUME Works(s, i) PROVE FALSE
    BY DEF Engaged, Waits
  <2>1. WorkKept(s, i) /\ i \in Identities /\ logins[s].at = "matched" /\ L!WhoOf(logins[s].pick) = i
    BY WorkingAlone DEF Works
  <2>2. PICK id \in DOMAIN listed : id # logins[s].row /\ listed[id].identity = i
    BY <2>1 DEF L!Taken
  <2>3. SlotTyped(s) /\ RowsTyped
    BY DEF LoginsInv, LoginsTyped
  <2>4. CASE logins[s].row = 0
    BY <2>1, <2>2, <2>4 DEF WorkKept
  <2>5. CASE logins[s].row # 0
    <3>1. logins[s].row \in DOMAIN listed /\ listed[logins[s].row].identity = i
      BY <2>1, <2>3, <2>5 DEF WorkKept, SlotTyped
    <3> QED
      BY <2>1, <2>2, <2>3, <3>1, LoginsAssumption DEF RowsTyped
  <2> QED
    BY <2>4, <2>5
<1> QED
  BY <1>1, SlotIdle

LEMMA StoreNew ==
  ASSUME LoginsInv, NEW s \in Slots, logins[s].at = "matched", ~L!Taken(s), logins[s].row = 0,
         listed' = Append(listed, [identity |-> L!WhoOf(logins[s].pick), file |-> logins[s].pick,
                                   live |-> TRUE]),
         L!Set(s, [logins[s] EXCEPT !.at = "done", !.row = Len(listed) + 1]),
         UNCHANGED <<platform, files, deletes, clock, known, excused>>
  PROVE  LoginsInv'
<1>1. PICK f, j : f = logins[s].pick /\ j = L!WhoOf(f)
  OBVIOUS
<1>2. /\ f \in L!File /\ j \in Identities /\ j # Nobody /\ Works(s, j)
      /\ DOMAIN logins[s] = LoginFields /\ logins[s].who \in Identities \cup {Nobody}
  BY <1>1, FileHasOwner DEF LoginsInv, LoginsTyped, SlotTyped, L!Busy, Works
<1>3. PICK r, n : r = [identity |-> j, file |-> f, live |-> TRUE] /\ n = Len(listed) + 1
  OBVIOUS
<1>4. r \in AccountRow /\ r.identity = j /\ r.file = f /\ r.live
  BY <1>2, <1>3 DEF AccountRow
<1>5. /\ n \notin DOMAIN listed /\ DOMAIN listed' = DOMAIN listed \cup {n} /\ listed'[n] = r
      /\ \A id \in DOMAIN listed : listed'[id] = listed[id]
      /\ listed' \in Seq(AccountRow)
  BY <1>1, <1>3, <1>4 DEF LoginsInv, LoginsTyped, RowsTyped
<1>6. \A id \in DOMAIN listed : listed[id].identity # j
  BY <1>1, <1>2, ARow DEF L!Taken, LoginsInv, LoginsTyped
<1>7. RowsTyped'
  <2>1. RowsTyped
    BY DEF LoginsInv, LoginsTyped
  <2>2. \A id \in DOMAIN listed' :
          /\ listed'[id].identity \in {Nobody, L!WhoOf(listed'[id].file)}
          /\ listed'[id].live => listed'[id].identity = L!WhoOf(listed'[id].file)
    BY <1>1, <1>4, <1>5, <2>1 DEF RowsTyped
  <2>3. ASSUME NEW id \in DOMAIN listed', NEW jd \in DOMAIN listed',
               listed'[id].identity = listed'[jd].identity, id # jd
        PROVE  listed'[id].identity = Nobody
    BY <1>4, <1>5, <1>6, <2>1, <2>3 DEF RowsTyped
  <2> QED
    BY <1>5, <2>2, <2>3 DEF RowsTyped, AccountRow, L!File
<1>8. RowsPersist /\ \A i \in Identities : i # j => RowsSame(i)
  BY <1>1, <1>4, <1>5 DEF RowsPersist, RowsSame
<1>9. PICK q : q = [logins[s] EXCEPT !.at = "done", !.row = n]
  OBVIOUS
<1>10. DOMAIN q = LoginFields /\ q.at = "done" /\ q.who = logins[s].who
  BY <1>2, <1>9 DEF LoginFields
<1>11. /\ DOMAIN logins' = Slots /\ logins'[s] = q
       /\ \A t \in Slots : t # s => logins'[t] = logins[t]
  BY <1>3, <1>9, SlotPut DEF LoginsInv
<1>12. SlotTyped(s)' /\ \A i : ~Engaged(s, i)'
  BY <1>2, <1>10, <1>11 DEF SlotTyped, L!Busy, Engaged, Waits, Works
<1>13. LoginsTyped'
  <2>1. FilesTyped' /\ clock <= clock'
    BY DEF LoginsInv, LoginsTyped, FilesTyped, L!File
  <2> QED
    BY <1>7, <1>8, <1>11, <1>12, <2>1, TypedStep DEF LoginsInv
<1>14. ASSUME NEW i \in Identities \ excused', i # j
       PROVE  /\ \A t \in Slots : SlotSame(t, i)
              /\ DeletesSame(i) /\ RowsSame(i) /\ FilesSame(i) /\ (i \in known' <=> i \in known)
  <2>1. \A t \in Slots : SlotSame(t, i)
    BY <1>2, <1>10, <1>11, <1>14, WorkingSame DEF L!Busy
  <2> QED
    BY <1>8, <1>14, <2>1 DEF DeletesSame, FilesSame
<1>15. ASSUME j \in Identities \ excused' PROVE Exclusive(j)' /\ Accounted(j)'
  <2>1. /\ WorkKept(s, j) /\ RowsKept(j) /\ \A d \in deletes : d.who # j
        /\ \A t \in Slots : t # s => ~Engaged(t, j)
    BY <1>2, <1>15, WorkingAlone
  <2>2. \A t \in Slots : t # s => ~Engaged(t, j)'
    BY <1>11, <2>1, OthersStayAway
  <2>3. j \in known /\ f \in DOMAIN files /\ Extra(j) \subseteq {f}
    BY <1>1, <2>1 DEF WorkKept
  <2>4. RowsKept(j)'
    BY <1>4, <1>5, <1>6, <2>3 DEF RowsKept
  <2>5. Extra(j)' = {}
    <3> SUFFICES ASSUME NEW g \in Extra(j)' PROVE FALSE
      OBVIOUS
    <3>1. g # f
      BY <1>4, <1>5 DEF Extra, L!Live
    <3>2. g \in Extra(j)
      BY <1>5 DEF Extra, L!Live
    <3> QED
      BY <2>3, <3>1, <3>2
  <2> QED
    BY <1>12, <2>1, <2>2, <2>4, <2>5, OneSlot DEF Engaged
<1> QED
  BY <1>13, <1>14, <1>15, TouchOne

LEMMA StoreOld ==
  ASSUME LoginsInv, NEW s \in Slots, logins[s].at = "matched", ~L!Taken(s), logins[s].row # 0,
         NEW r, r.identity = L!WhoOf(logins[s].pick), r.file = logins[s].pick,
         r.live = listed[logins[s].row].live, r \in AccountRow,
         listed' = [listed EXCEPT ![logins[s].row] = r],
         L!Go(s, IF L!Replaces(logins[s]) THEN "written" ELSE "done"),
         UNCHANGED <<platform, files, deletes, clock, known, excused>>
  PROVE  LoginsInv'
<1>1. PICK f, j, n, old : /\ f = logins[s].pick /\ j = L!WhoOf(f) /\ n = logins[s].row
                          /\ old = logins[s].old
  OBVIOUS
<1>2. /\ f \in L!File /\ j \in Identities /\ j # Nobody /\ Works(s, j)
      /\ DOMAIN logins[s] = LoginFields /\ logins[s].who \in Identities \cup {Nobody}
      /\ n \in DOMAIN listed /\ L!WhoOf(listed[n].file) = j /\ old \in L!File /\ L!WhoOf(old) = j
  BY <1>1, FileHasOwner DEF LoginsInv, LoginsTyped, SlotTyped, L!Busy, Works
<1>3. RowsTyped
  BY DEF LoginsInv, LoginsTyped
<1>4. /\ DOMAIN listed' = DOMAIN listed /\ listed'[n] = r /\ listed' \in Seq(AccountRow)
      /\ \A id \in DOMAIN listed : id # n => listed'[id] = listed[id]
  BY <1>1, <1>2, <1>3 DEF RowsTyped
<1>5. \A id \in DOMAIN listed : id # n => listed[id].identity # j
  BY <1>1 DEF L!Taken
<1>6. RowsTyped'
  <2>1. \A id \in DOMAIN listed' :
          /\ listed'[id].identity \in {Nobody, L!WhoOf(listed'[id].file)}
          /\ listed'[id].live => listed'[id].identity = L!WhoOf(listed'[id].file)
    BY <1>1, <1>3, <1>4 DEF RowsTyped
  <2>2. ASSUME NEW id \in DOMAIN listed', NEW jd \in DOMAIN listed',
               listed'[id].identity = listed'[jd].identity, id # jd
        PROVE  listed'[id].identity = Nobody
    BY <1>1, <1>3, <1>4, <1>5, <2>2 DEF RowsTyped
  <2> QED
    BY <1>4, <2>1, <2>2 DEF RowsTyped, AccountRow, L!File
<1>7. RowsPersist /\ \A i \in Identities : i # j => RowsSame(i)
  BY <1>1, <1>2, <1>4 DEF RowsPersist, RowsSame
<1>8. PICK at : at = IF L!Replaces(logins[s]) THEN "written" ELSE "done"
  OBVIOUS
<1>9. at \in {"written", "done"} /\ (at = "written" <=> old # f)
  BY <1>1, <1>8 DEF L!Replaces
<1>10. /\ DOMAIN logins' = Slots /\ \A t \in Slots : t # s => logins'[t] = logins[t]
       /\ DOMAIN logins'[s] = LoginFields /\ logins'[s].at = at
       /\ logins'[s].who = logins[s].who /\ logins'[s].pick = f
       /\ logins'[s].row = n /\ logins'[s].old = old
  BY <1>1, <1>8, SlotGo DEF LoginsInv
<1>11. SlotTyped(s)'
  BY <1>1, <1>2, <1>4, <1>9, <1>10 DEF SlotTyped, L!Busy, L!File
<1>12. LoginsTyped'
  <2>1. FilesTyped' /\ clock <= clock'
    BY DEF LoginsInv, LoginsTyped, FilesTyped, L!File
  <2> QED
    BY <1>6, <1>7, <1>10, <1>11, <2>1, TypedStep DEF LoginsInv
<1>13. ASSUME NEW i \in Identities \ excused', i # j
       PROVE  /\ \A t \in Slots : SlotSame(t, i)
              /\ DeletesSame(i) /\ RowsSame(i) /\ FilesSame(i) /\ (i \in known' <=> i \in known)
  <2>1. \A t \in Slots : SlotSame(t, i)
    BY <1>1, <1>2, <1>9, <1>10, <1>13, WorkingSame
  <2> QED
    BY <1>7, <1>13, <2>1 DEF DeletesSame, FilesSame
<1>14. ASSUME j \in Identities \ excused' PROVE Exclusive(j)' /\ Accounted(j)'
  <2>1. /\ WorkKept(s, j) /\ RowsKept(j) /\ \A d \in deletes : d.who # j
        /\ \A t \in Slots : t # s => ~Engaged(t, j)
    BY <1>2, <1>14, WorkingAlone
  <2>2. \A t \in Slots : t # s => ~Engaged(t, j)'
    BY <1>10, <2>1, OthersStayAway
  <2>3. /\ j \in known /\ f \in DOMAIN files /\ Extra(j) \subseteq {f}
        /\ listed[n].identity = j /\ listed[n].file = old
    BY <1>1, <2>1 DEF WorkKept
  <2>4. listed[n].live
    BY <1>2, <2>1, <2>3 DEF RowsKept
  <2>5. RowsKept(j)'
    BY <1>1, <1>4, <1>5, <2>3, <2>4 DEF RowsKept
  <2>6. ASSUME NEW g \in Extra(j)' PROVE g = old /\ g # f
    <3>1. g \in DOMAIN files /\ L!WhoOf(g) = j /\ \A id \in L!Live' : listed'[id].file # g
      BY DEF Extra
    <3>2. g # f
      BY <1>1, <1>2, <1>4, <2>4, <3>1 DEF L!Live
    <3>3. PICK id \in L!Live : listed[id].file = g
      BY <2>3, <3>1, <3>2 DEF Extra
    <3>4. id \in DOMAIN listed /\ listed[id].identity = j
      BY <1>3, <3>1, <3>3 DEF RowsTyped, L!Live
    <3>5. id = n
      BY <1>5, <3>4
    <3> QED
      BY <2>3, <3>2, <3>3, <3>5
  <2>7. ~Waits(s, j)' /\ (Works(s, j)' <=> at = "written")
    BY <1>1, <1>9, <1>10 DEF Waits, Works, L!Busy
  <2>8. Works(s, j)' => WorkKept(s, j)'
    BY <1>1, <1>4, <1>10, <2>3, <2>6, <2>7 DEF WorkKept
  <2>9. ~Engaged(s, j)' => Extra(j)' = {}
    BY <1>9, <2>6, <2>7 DEF Engaged
  <2> QED
    BY <2>1, <2>2, <2>5, <2>7, <2>8, <2>9, OneSlot
<1> QED
  BY <1>12, <1>13, <1>14, TouchOne

LEMMA StoreKeeps ==
  ASSUME LoginsInv, NEW s \in Slots, L!Store(s)
  PROVE  LoginsInv'
<1>1. /\ logins[s].at = "matched"
      /\ UNCHANGED <<platform, files, deletes, clock, known, excused>>
  BY DEF L!Store, L!Rest
<1>2. CASE L!Taken(s)
  BY <1>1, <1>2, StoreTaken DEF L!Store
<1>3. CASE ~L!Taken(s) /\ logins[s].row = 0
  BY <1>1, <1>3, StoreNew DEF L!Store
<1>4. CASE ~L!Taken(s) /\ logins[s].row # 0
  <2>1. PICK r : r = [identity |-> L!WhoOf(logins[s].pick), file |-> logins[s].pick,
                      live |-> listed[logins[s].row].live]
    OBVIOUS
  <2>2. /\ r.identity = L!WhoOf(logins[s].pick) /\ r.file = logins[s].pick
        /\ r.live = listed[logins[s].row].live
    BY <2>1
  <2>3. r \in AccountRow
    <3>1. /\ logins[s].pick \in L!File /\ L!WhoOf(logins[s].pick) \in Identities
          /\ listed[logins[s].row].live \in BOOLEAN
      BY <1>1, <1>4, ARow, FileHasOwner DEF LoginsInv, LoginsTyped, SlotTyped, L!Busy
    <3> QED
      BY <2>1, <3>1 DEF AccountRow
  <2>4. listed' = [listed EXCEPT ![logins[s].row] = r]
    BY <1>4, <2>1 DEF L!Store
  <2>5. L!Go(s, IF L!Replaces(logins[s]) THEN "written" ELSE "done")
    BY <1>4 DEF L!Store
  <2> QED
    BY <1>1, <1>4, <2>2, <2>3, <2>4, <2>5, StoreOld
<1> QED
  BY <1>2, <1>3, <1>4

-----------------------------------------------------------------------------
\* The file that the login replaces.
LEMMA SharedKeeps ==
  ASSUME LoginsInv, NEW s \in Slots, L!Shared(s)
  PROVE  LoginsInv'
<1>1. PICK j, n, old : j = L!WhoOf(logins[s].pick) /\ n = logins[s].row /\ old = logins[s].old
  OBVIOUS
<1>2. /\ logins[s].at = "written" /\ logins[s].pick \in L!File /\ j \in Identities /\ Works(s, j)
      /\ logins[s].who \in Identities \cup {Nobody}
      /\ n \in DOMAIN listed /\ n # 0 /\ L!WhoOf(listed[n].file) = j
      /\ old \in L!File /\ L!WhoOf(old) = j /\ old # logins[s].pick
      /\ UNCHANGED <<platform, listed, files, deletes, clock, known, excused>>
  BY <1>1, FileHasOwner
  DEF L!Shared, L!Rest, LoginsInv, LoginsTyped, SlotTyped, L!Busy, Works
<1>3. PICK at : at = IF \E id \in L!Live \ {n} : listed[id].file = old THEN "done" ELSE "unshared"
  OBVIOUS
<1>4. at \in {"done", "unshared"} /\ L!Go(s, at)
  BY <1>1, <1>3 DEF L!Shared
<1>5. /\ DOMAIN logins' = Slots /\ \A t \in Slots : t # s => logins'[t] = logins[t]
      /\ DOMAIN logins'[s] = LoginFields /\ logins'[s].at = at
      /\ logins'[s].who = logins[s].who /\ logins'[s].pick = logins[s].pick
      /\ logins'[s].row = n /\ logins'[s].old = old
  BY <1>1, <1>4, SlotGo DEF LoginsInv
<1>6. SlotTyped(s)'
  BY <1>1, <1>2, <1>4, <1>5 DEF SlotTyped, L!Busy
<1>7. LoginsTyped'
  <2>1. RowsTyped' /\ RowsPersist /\ FilesTyped' /\ clock <= clock'
    BY <1>2 DEF LoginsInv, LoginsTyped, RowsTyped, FilesTyped, RowsPersist, L!Live, L!File
  <2> QED
    BY <1>2, <1>5, <1>6, <2>1, TypedStep DEF LoginsInv
<1>8. ASSUME NEW i \in Identities \ excused', i # j
      PROVE  /\ \A t \in Slots : SlotSame(t, i)
             /\ DeletesSame(i) /\ RowsSame(i) /\ FilesSame(i) /\ (i \in known' <=> i \in known)
  <2>1. \A t \in Slots : SlotSame(t, i)
    BY <1>1, <1>2, <1>4, <1>5, <1>8, WorkingSame
  <2> QED
    BY <1>2, <2>1 DEF DeletesSame, RowsSame, FilesSame
<1>9. ASSUME j \in Identities \ excused' PROVE Exclusive(j)' /\ Accounted(j)'
  <2>1. /\ WorkKept(s, j) /\ RowsKept(j) /\ \A d \in deletes : d.who # j
        /\ \A t \in Slots : t # s => ~Engaged(t, j)
    BY <1>2, <1>9, WorkingAlone
  <2>2. \A t \in Slots : t # s => ~Engaged(t, j)'
    BY <1>2, <1>5, <2>1, OthersStayAway
  <2>3. listed[n].identity = j
    BY <1>1, <1>2, <2>1 DEF WorkKept
  <2>4. \A id \in L!Live \ {n} : listed[id].file # old
    BY <1>2, <2>3, LoginsAssumption DEF LoginsInv, LoginsTyped, RowsTyped, L!Live
  <2>5. at = "unshared"
    BY <1>3, <2>4
  <2>6. Extra(j)' = Extra(j) /\ RowsKept(j)'
    BY <1>2, <2>1 DEF Extra, L!Live, RowsKept
  <2>7. WorkKept(s, j)'
    BY <1>1, <1>2, <1>5, <2>1, <2>5, <2>6 DEF WorkKept
  <2>8. ~Waits(s, j)' /\ Engaged(s, j)'
    BY <1>1, <1>5, <2>5 DEF Waits, Works, Engaged, L!Busy
  <2> QED
    BY <1>2, <2>1, <2>2, <2>6, <2>7, <2>8, OneSlot
<1> QED
  BY <1>2, <1>7, <1>8, <1>9, TouchOne

LEMMA RemoveOldKeeps ==
  ASSUME LoginsInv, NEW s \in Slots, L!RemoveOld(s)
  PROVE  LoginsInv'
<1>1. PICK j, n, old : j = L!WhoOf(logins[s].pick) /\ n = logins[s].row /\ old = logins[s].old
  OBVIOUS
<1>2. /\ logins[s].at = "unshared" /\ logins[s].pick \in L!File /\ j \in Identities /\ Works(s, j)
      /\ logins[s].who \in Identities \cup {Nobody}
      /\ n \in DOMAIN listed /\ old \in L!File /\ L!WhoOf(old) = j /\ old # logins[s].pick
      /\ UNCHANGED <<platform, listed, deletes, clock, known>>
  BY <1>1, FileHasOwner DEF L!RemoveOld, LoginsInv, LoginsTyped, SlotTyped, L!Busy, Works
<1>3. CASE L!Set(s, L!Idle) /\ excused' = excused \cup {L!WhoOf(logins[s].old)} /\ UNCHANGED files
  <2>1. ASSUME NEW i \in Identities \ excused' PROVE ~Engaged(s, i)
    BY <1>1, <1>2, <1>3 DEF Engaged, Waits, Works
  <2> QED
    BY <1>2, <1>3, <2>1, SlotIdle
<1>4. CASE files' = [f \in DOMAIN files \ {logins[s].old} |-> files[f]] /\ L!Go(s, "done")
           /\ UNCHANGED excused
  <2>1. /\ DOMAIN logins' = Slots /\ \A t \in Slots : t # s => logins'[t] = logins[t]
        /\ DOMAIN logins'[s] = LoginFields /\ logins'[s].at = "done"
        /\ logins'[s].who = logins[s].who
    BY <1>4, SlotGo DEF LoginsInv
  <2>2. SlotTyped(s)' /\ \A i : ~Engaged(s, i)'
    BY <1>2, <2>1 DEF SlotTyped, L!Busy, Engaged, Waits, Works
  <2>3. /\ DOMAIN files' = DOMAIN files \ {old}
        /\ \A f \in DOMAIN files' : files'[f] = files[f]
    BY <1>1, <1>4
  <2>4. FilesTyped' /\ clock <= clock'
    BY <1>2, <2>3 DEF LoginsInv, LoginsTyped, FilesTyped, L!File
  <2>5. LoginsTyped'
    <3>1. RowsTyped' /\ RowsPersist
      BY <1>2 DEF LoginsInv, LoginsTyped, RowsTyped, RowsPersist
    <3> QED
      BY <1>2, <2>1, <2>2, <2>4, <3>1, TypedStep DEF LoginsInv
  <2>6. ASSUME NEW i \in Identities \ excused', i # j
        PROVE  /\ \A t \in Slots : SlotSame(t, i)
               /\ DeletesSame(i) /\ RowsSame(i) /\ FilesSame(i) /\ (i \in known' <=> i \in known)
    <3>1. \A t \in Slots : SlotSame(t, i)
      BY <1>2, <2>1, <2>6, WorkingSame DEF L!Busy
    <3>2. FilesSame(i)
      BY <1>2, <2>3, <2>6 DEF FilesSame
    <3> QED
      BY <1>2, <3>1, <3>2 DEF DeletesSame, RowsSame
  <2>7. ASSUME j \in Identities \ excused' PROVE Exclusive(j)' /\ Accounted(j)'
    <3>1. /\ WorkKept(s, j) /\ RowsKept(j) /\ \A d \in deletes : d.who # j
          /\ \A t \in Slots : t # s => ~Engaged(t, j)
      BY <1>2, <1>4, <2>7, WorkingAlone
    <3>2. \A t \in Slots : t # s => ~Engaged(t, j)'
      BY <1>2, <2>1, <3>1, OthersStayAway
    <3>3. /\ listed[n].identity = j /\ listed[n].file = logins[s].pick
          /\ Extra(j) \subseteq {old}
      BY <1>1, <1>2, <3>1 DEF WorkKept
    <3>4. \A id \in DOMAIN listed : listed[id].identity = j => id = n
      BY <1>2, <3>3, LoginsAssumption DEF LoginsInv, LoginsTyped, RowsTyped
    <3>5. RowsKept(j)'
      BY <1>2, <2>3, <3>1, <3>3, <3>4 DEF RowsKept
    <3>6. Extra(j)' = {}
      BY <1>2, <2>3, <3>3 DEF Extra, L!Live
    <3> QED
      BY <1>2, <2>2, <3>1, <3>2, <3>5, <3>6, OneSlot DEF Engaged
  <2> QED
    BY <1>4, <2>5, <2>6, <2>7, TouchOne
<1> QED
  BY <1>3, <1>4 DEF L!RemoveOld

-----------------------------------------------------------------------------
\* A deletion begins: by the person, or by the desktop for the account that it was given.
LEMMA DeleteBegins ==
  ASSUME LoginsInv, NEW id \in L!Live, NEW by, NEW j, j = listed[id].identity,
         deletes' = deletes \cup {L!Delete(id, by)}, L!Touch(by, j),
         UNCHANGED <<platform, listed, files, clock, known>>, DOMAIN logins' = Slots,
         \A t \in Slots : t # by => logins'[t] = logins[t],
         by \in Slots => SlotTyped(by)' /\ (\A i : ~Engaged(by, i)) /\ \A i : ~Engaged(by, i)'
  PROVE  LoginsInv'
<1>1. PICK e : e = L!Delete(id, by)
  OBVIOUS
<1>2. /\ id \in DOMAIN listed /\ listed[id].live /\ j = L!WhoOf(listed[id].file)
      /\ listed[id].file \in L!File /\ j \in Identities
  BY ARow, FileHasOwner DEF LoginsInv, LoginsTyped, RowsTyped, L!Live
<1>3. /\ DOMAIN e = {"id", "who", "file", "at", "by"} /\ e.at = "read" /\ e.id = id /\ e.who = j
      /\ e.file = listed[id].file
  BY <1>1 DEF L!Delete
<1>4. DeleteTyped(e)'
  BY <1>2, <1>3 DEF DeleteTyped, L!File
<1>5. LoginsTyped'
  <2>1. RowsTyped' /\ RowsPersist /\ FilesTyped' /\ clock <= clock'
    BY DEF LoginsInv, LoginsTyped, RowsTyped, FilesTyped, RowsPersist, L!Live, L!File
  <2>2. \A d \in deletes' : d \in deletes \/ DeleteTyped(d)'
    BY <1>1, <1>4
  <2> QED
    BY <2>1, <2>2, TypedStep DEF LoginsInv
<1>6. excused' = excused \cup ({j} \cap L!Underway(by))
  BY DEF L!Touch
<1>7. \A t \in Slots, i \in Identities : SlotSame(t, i)
  BY OtherSlotSame, NothingSame
<1>8. ASSUME NEW i \in Identities \ excused', i # j
      PROVE  DeletesSame(i) /\ RowsSame(i) /\ FilesSame(i)
  BY <1>1, <1>3, <1>8 DEF DeletesSame, RowsSame, FilesSame
<1>9. ASSUME j \in Identities \ excused' PROVE Exclusive(j)' /\ Accounted(j)'
  <2>1. j \in Identities \ excused /\ j \notin L!Underway(by)
    BY <1>6, <1>9
  <2>2. (\A t \in Slots : ~Engaged(t, j)) /\ \A d \in deletes : d.who # j
    BY <2>1, NotUnderway
  <2>3. RowsKept(j) /\ Extra(j) = {}
    BY <2>1, <2>2 DEF LoginsInv, Accounted
  <2>4. RowsKept(j)' /\ Extra(j)' = {}
    BY <2>3 DEF RowsKept, Extra, L!Live
  <2>5. \A t \in Slots : ~Engaged(t, j)'
    BY <2>2 DEF Engaged, Waits, Works
  <2>6. \A d \in deletes' : d.who = j => d = e
    BY <1>1, <2>2
  <2>7. DeleteKept(e, j)'
    BY <1>3, <2>4 DEF DeleteKept
  <2> QED
    BY <2>4, <2>5, <2>6, <2>7, OneDelete
<1> QED
  BY <1>5, <1>6, <1>7, <1>8, <1>9, TouchOne

LEMMA AskDeleteKeeps ==
  ASSUME LoginsInv, L!AskDelete
  PROVE  LoginsInv'
<1>1. PICK id \in L!Live : /\ deletes' = deletes \cup {L!Delete(id, "admin")}
                           /\ L!Touch("admin", listed[id].identity)
  BY DEF L!AskDelete
<1>2. UNCHANGED <<platform, listed, files, logins, clock, known>> /\ "admin" \notin Slots
  BY LoginsAssumption DEF L!AskDelete
<1>3. DOMAIN logins' = Slots /\ \A t \in Slots : logins'[t] = logins[t]
  BY <1>2 DEF LoginsInv, LoginsTyped
<1> QED
  BY <1>1, <1>2, <1>3, DeleteBegins

LEMMA AnswerKeeps ==
  ASSUME LoginsInv, NEW s \in Slots, L!Answer(s)
  PROVE  LoginsInv'
<1>1. logins[s].at = "done" /\ UNCHANGED <<platform, listed, files, clock, known>>
  BY DEF L!Answer
<1>2. \A i : ~Engaged(s, i)
  BY <1>1 DEF Engaged, Waits, Works, L!Busy
<1>3. CASE L!Set(s, L!Idle) /\ UNCHANGED <<deletes, excused>>
  BY <1>1, <1>2, <1>3, SlotIdle
<1>4. CASE /\ logins[s].row \in L!Live /\ deletes' = deletes \cup {L!Delete(logins[s].row, s)}
           /\ L!Go(s, "undoing") /\ L!Touch(s, listed[logins[s].row].identity)
  <2>1. /\ DOMAIN logins' = Slots /\ \A t \in Slots : t # s => logins'[t] = logins[t]
        /\ DOMAIN logins'[s] = LoginFields /\ logins'[s].at = "undoing"
        /\ logins'[s].who = logins[s].who
    BY <1>4, SlotGo DEF LoginsInv
  <2>2. SlotTyped(s)' /\ \A i : ~Engaged(s, i)'
    BY <2>1 DEF SlotTyped, L!Busy, Engaged, Waits, Works, LoginsInv, LoginsTyped
  <2> QED
    BY <1>1, <1>2, <1>4, <2>1, <2>2, DeleteBegins
<1>5. CASE L!Go(s, "told") /\ UNCHANGED <<deletes, excused>>
  BY <1>1, <1>5, UndoneKeeps DEF L!Busy
<1> QED
  BY <1>3, <1>4, <1>5 DEF L!Answer

-----------------------------------------------------------------------------
\* The tombstone of an account: its identity is free again, its file is left to the deletion.
LEMMA TombstoneLive ==
  ASSUME LoginsInv, NEW d \in deletes, d.at = "read", d.id \in L!Live, L!Tombstone(d)
  PROVE  LoginsInv'
<1>1. PICK n, j, e : n = d.id /\ j = d.who /\ e = [d EXCEPT !.at = "gone"]
  OBVIOUS
<1>2. /\ UNCHANGED <<platform, files, logins, clock, excused>>
      /\ listed' = [listed EXCEPT ![n].live = FALSE, ![n].identity = Nobody]
      /\ known' = known \ {listed[n].identity} /\ deletes' = (deletes \ {d}) \cup {e}
  BY <1>1 DEF L!Tombstone
<1>3. RowsTyped /\ DeleteTyped(d)
  BY DEF LoginsInv, LoginsTyped
<1>4. /\ n \in DOMAIN listed /\ listed[n].live /\ listed[n].identity = j
      /\ L!WhoOf(listed[n].file) = j /\ listed[n] \in AccountRow /\ j \in Identities
      /\ d.file \in L!File /\ L!WhoOf(d.file) = j
  BY <1>1, <1>3, ARow, FileHasOwner DEF RowsTyped, DeleteTyped, L!Live
<1>5. /\ DOMAIN e = {"id", "who", "file", "at", "by"} /\ e.at = "gone" /\ e.id = n /\ e.who = j
      /\ e.file = d.file
  BY <1>1, <1>3 DEF DeleteTyped
<1>6. PICK r : r = [listed[n] EXCEPT !.live = FALSE, !.identity = Nobody]
  OBVIOUS
<1>7. r \in AccountRow /\ ~r.live /\ r.identity = Nobody /\ r.file = listed[n].file
  BY <1>4, <1>6 DEF AccountRow
<1>8. /\ DOMAIN listed' = DOMAIN listed /\ listed'[n] = r /\ listed' \in Seq(AccountRow)
      /\ \A id \in DOMAIN listed : id # n => listed'[id] = listed[id]
  <2>1. listed' = [listed EXCEPT ![n] = r]
    BY <1>2, <1>6
  <2> QED
    BY <1>3, <1>4, <1>7, <2>1 DEF RowsTyped
<1>9. RowsTyped'
  <2>1. \A id \in DOMAIN listed' :
          /\ listed'[id].identity \in {Nobody, L!WhoOf(listed'[id].file)}
          /\ listed'[id].live => listed'[id].identity = L!WhoOf(listed'[id].file)
    BY <1>3, <1>7, <1>8 DEF RowsTyped
  <2>2. ASSUME NEW id \in DOMAIN listed', NEW jd \in DOMAIN listed',
               listed'[id].identity = listed'[jd].identity, id # jd
        PROVE  listed'[id].identity = Nobody
    BY <1>3, <1>7, <1>8, <2>2 DEF RowsTyped
  <2> QED
    BY <1>8, <2>1, <2>2 DEF RowsTyped, AccountRow, L!File
<1>10. RowsPersist /\ \A i \in Identities : i # j => RowsSame(i)
  BY <1>4, <1>7, <1>8 DEF RowsPersist, RowsSame
<1>11. DeleteTyped(e)'
  BY <1>4, <1>5, <1>7, <1>8 DEF DeleteTyped, L!File
<1>12. LoginsTyped'
  <2>1. FilesTyped' /\ clock <= clock'
    BY <1>2 DEF LoginsInv, LoginsTyped, FilesTyped, L!File
  <2>2. DOMAIN logins' = Slots /\ \A t \in Slots : logins'[t] = logins[t]
    BY <1>2 DEF LoginsInv, LoginsTyped
  <2>3. \A c \in deletes' : c \in deletes \/ DeleteTyped(c)'
    BY <1>2, <1>11
  <2> QED
    BY <1>9, <1>10, <2>1, <2>2, <2>3, TypedStep DEF LoginsInv
<1>13. ASSUME NEW i \in Identities \ excused', i # j
       PROVE  /\ \A t \in Slots : SlotSame(t, i)
              /\ DeletesSame(i) /\ RowsSame(i) /\ FilesSame(i) /\ (i \in known' <=> i \in known)
  <2>1. \A t \in Slots : SlotSame(t, i)
    BY <1>2, OtherSlotSame
  <2>2. DeletesSame(i)
    BY <1>1, <1>2, <1>5, <1>13 DEF DeletesSame
  <2>3. FilesSame(i) /\ (i \in known' <=> i \in known)
    BY <1>2, <1>4, <1>13 DEF FilesSame
  <2> QED
    BY <1>10, <1>13, <2>1, <2>2, <2>3
<1>14. ASSUME j \in Identities \ excused' PROVE Exclusive(j)' /\ Accounted(j)'
  <2>1. /\ \A t \in Slots : ~Engaged(t, j)
        /\ \A c \in deletes : c.who = j => c = d
        /\ DeleteKept(d, j)
    BY <1>1, <1>2, <1>14 DEF LoginsInv, Exclusive, Accounted
  <2>2. \A t \in Slots : ~Engaged(t, j)'
    BY <1>2, <2>1 DEF Engaged, Waits, Works
  <2>3. \A id \in DOMAIN listed' : listed'[id].identity # j
    BY <1>3, <1>4, <1>7, <1>8, LoginsAssumption DEF RowsTyped
  <2>4. Extra(j)' \subseteq {d.file}
    <3> SUFFICES ASSUME NEW g \in Extra(j)' PROVE g = d.file
      OBVIOUS
    <3>1. g \in DOMAIN files /\ L!WhoOf(g) = j /\ \A id \in L!Live' : listed'[id].file # g
      BY <1>2 DEF Extra
    <3>2. PICK id \in L!Live : listed[id].file = g
      BY <2>1, <3>1 DEF Extra, DeleteKept
    <3>3. id = n
      BY <1>8, <3>1, <3>2 DEF L!Live
    <3> QED
      BY <1>1, <2>1, <3>2, <3>3 DEF DeleteKept
  <2>5. DeleteKept(e, j)'
    BY <1>5, <2>3, <2>4 DEF DeleteKept
  <2>6. RowsKept(j)'
    BY <2>3 DEF RowsKept
  <2>7. (\A c \in deletes' : c.who = j => c = e) /\ e \in deletes' /\ e.who = j
    BY <1>2, <1>5, <2>1
  <2> QED
    BY <2>2, <2>5, <2>6, <2>7, OneDelete
<1> QED
  BY <1>2, <1>12, <1>13, <1>14, TouchOne

\* A deletion that ends: its account was gone already, or its file is removed, or is left.
LEMMA DeleteEnds ==
  ASSUME LoginsInv, NEW d \in deletes, deletes' = deletes \ {d},
         UNCHANGED <<platform, listed, logins, clock, known>>, excused \subseteq excused',
         \/ d.at = "read" /\ d.id \notin L!Live /\ UNCHANGED files
         \/ d.at = "gone" /\ files' = [f \in DOMAIN files \ {d.file} |-> files[f]]
         \/ UNCHANGED files /\ d.who \in excused'
  PROVE  LoginsInv'
<1>1. PICK j : j = d.who
  OBVIOUS
<1>2. d.file \in L!File /\ L!WhoOf(d.file) = j
  BY <1>1 DEF LoginsInv, LoginsTyped, DeleteTyped
<1>3. /\ DOMAIN files' \subseteq DOMAIN files /\ \A f \in DOMAIN files' : files'[f] = files[f]
      /\ \A f \in DOMAIN files : f # d.file => f \in DOMAIN files'
  OBVIOUS
<1>4. LoginsTyped'
  <2>1. RowsTyped' /\ RowsPersist
    BY DEF LoginsInv, LoginsTyped, RowsTyped, RowsPersist
  <2>2. FilesTyped' /\ clock <= clock'
    BY <1>3 DEF LoginsInv, LoginsTyped, FilesTyped, L!File
  <2>3. DOMAIN logins' = Slots /\ \A t \in Slots : logins'[t] = logins[t]
    BY DEF LoginsInv, LoginsTyped
  <2> QED
    BY <2>1, <2>2, <2>3, TypedStep DEF LoginsInv
<1>5. ASSUME NEW i \in Identities \ excused', i # j
      PROVE  /\ \A t \in Slots : SlotSame(t, i)
             /\ DeletesSame(i) /\ RowsSame(i) /\ FilesSame(i) /\ (i \in known' <=> i \in known)
  <2>1. \A t \in Slots : SlotSame(t, i)
    BY OtherSlotSame
  <2>2. DeletesSame(i) /\ RowsSame(i)
    BY <1>1, <1>5 DEF DeletesSame, RowsSame
  <2>3. FilesSame(i)
    BY <1>2, <1>3, <1>5 DEF FilesSame
  <2> QED
    BY <2>1, <2>2, <2>3
<1>6. ASSUME j \in Identities \ excused' PROVE Exclusive(j)' /\ Accounted(j)'
  <2>1. /\ \A t \in Slots : ~Engaged(t, j)
        /\ \A c \in deletes : c.who = j => c = d
        /\ DeleteKept(d, j) /\ RowsKept(j)
    BY <1>1, <1>6 DEF LoginsInv, Exclusive, Accounted
  <2>2. \A t \in Slots : ~Engaged(t, j)'
    BY <2>1 DEF Engaged, Waits, Works
  <2>3. \A c \in deletes' : c.who # j
    BY <2>1
  <2>4. Extra(j)' = {} /\ RowsKept(j)'
    <3>1. CASE d.at = "read" /\ d.id \notin L!Live /\ UNCHANGED files
      BY <2>1, <3>1 DEF Extra, L!Live, RowsKept, DeleteKept
    <3>2. CASE d.at = "gone" /\ files' = [f \in DOMAIN files \ {d.file} |-> files[f]]
      <4>1. (\A id \in DOMAIN listed : listed[id].identity # j) /\ Extra(j) \subseteq {d.file}
        BY <2>1, <3>2 DEF DeleteKept
      <4>2. Extra(j)' = {}
        BY <3>2, <4>1 DEF Extra, L!Live
      <4> QED
        BY <4>1, <4>2 DEF RowsKept
    <3> QED
      BY <1>1, <1>6, <3>1, <3>2
  <2> QED
    BY <2>2, <2>3, <2>4, OneDelete
<1> QED
  BY <1>4, <1>5, <1>6, TouchOne

LEMMA DeletionKeeps ==
  ASSUME LoginsInv, NEW d \in deletes, L!Tombstone(d) \/ L!Unlink(d)
  PROVE  LoginsInv'
<1>1. CASE L!Tombstone(d) /\ d.id \in L!Live
  BY <1>1, TombstoneLive DEF L!Tombstone
<1>2. CASE L!Tombstone(d) /\ d.id \notin L!Live
  BY <1>2, DeleteEnds DEF L!Tombstone
<1>3. CASE L!Unlink(d)
  <2>1. /\ d.at = "gone" /\ deletes' = deletes \ {d}
        /\ UNCHANGED <<platform, listed, logins, clock, known>>
    BY <1>3 DEF L!Unlink
  <2>2. CASE files' = [f \in DOMAIN files \ {d.file} |-> files[f]] /\ UNCHANGED excused
    BY <2>1, <2>2, DeleteEnds
  <2>3. CASE excused' = excused \cup {d.who} /\ UNCHANGED files
    BY <2>1, <2>3, DeleteEnds
  <2> QED
    BY <1>3, <2>2, <2>3 DEF L!Unlink
<1> QED
  BY <1>1, <1>2, <1>3

\* The Host dies: everything that was under way is excused, and nothing is under way any more.
LEMMA HostDiesKeeps ==
  ASSUME LoginsInv, L!Restart
  PROVE  LoginsInv'
<1>1. /\ UNCHANGED <<platform, listed, files, clock, known>> /\ deletes' = {}
      /\ logins' = [s \in Slots |-> L!Idle]
      /\ excused' = excused \cup (L!Underway("host") \ {Nobody})
  BY DEF L!Restart
<1>2. DOMAIN logins' = Slots /\ \A t \in Slots : SlotTyped(t)' /\ \A i : ~Engaged(t, i)'
  BY <1>1, IdleLogin DEF SlotTyped, Engaged, Waits, Works, L!Busy
<1>3. LoginsTyped'
  <2>1. RowsTyped' /\ RowsPersist /\ FilesTyped' /\ clock <= clock'
    BY <1>1 DEF LoginsInv, LoginsTyped, RowsTyped, FilesTyped, RowsPersist, L!Live, L!File
  <2> QED
    BY <1>1, <1>2, <2>1, TypedStep DEF LoginsInv
<1>4. ASSUME NEW i \in Identities \ excused' PROVE Exclusive(i)' /\ Accounted(i)'
  <2>1. i \in Identities \ excused /\ i \notin L!Underway("host")
    BY <1>1, LoginsAssumption
  <2>2. (\A t \in Slots : ~Engaged(t, i)) /\ \A d \in deletes : d.who # i
    BY <2>1, NotUnderway, LoginsAssumption
  <2>3. LoginsTyped /\ Exclusive(i) /\ Accounted(i)
    BY <2>1 DEF LoginsInv
  <2>4. \A t \in Slots : SlotSame(t, i)
    BY <1>2, <2>2, NothingSame
  <2>5. DeletesSame(i) /\ RowsSame(i) /\ FilesSame(i) /\ (i \in known' <=> i \in known)
    BY <1>1, <2>2 DEF DeletesSame, RowsSame, FilesSame
  <2> QED
    BY <1>3, <2>1, <2>3, <2>4, <2>5, Untouched
<1> QED
  BY <1>3, <1>4 DEF LoginsInv

-----------------------------------------------------------------------------
LEMMA LoginsInit ==
  ASSUME L!Init
  PROVE  LoginsInv
<1>1. /\ listed = <<>> /\ DOMAIN files = {} /\ logins = [s \in Slots |-> L!Idle] /\ deletes = {}
      /\ clock = 0
  BY DEF L!Init
<1>2. RowsTyped /\ FilesTyped
  BY <1>1 DEF RowsTyped, FilesTyped
<1>3. DOMAIN logins = Slots /\ \A s \in Slots : SlotTyped(s) /\ \A i : ~Engaged(s, i)
  BY <1>1, IdleLogin DEF SlotTyped, Engaged, Waits, Works, L!Busy
<1>4. ASSUME NEW i \in Identities PROVE Exclusive(i) /\ Accounted(i)
  <2>1. RowsKept(i) /\ Extra(i) = {}
    BY <1>1 DEF RowsKept, Extra
  <2> QED
    BY <1>1, <1>3, <2>1 DEF Exclusive, Accounted, Engaged
<1> QED
  BY <1>1, <1>2, <1>3, <1>4 DEF LoginsInv, LoginsTyped

LEMMA LoginsStep ==
  ASSUME LoginsInv, [L!Next]_LVars
  PROVE  LoginsInv'
<1>1. CASE UNCHANGED LVars
  <2>1. UNCHANGED <<platform, listed, files, logins, deletes, clock, known, excused>>
    BY <1>1 DEF LVars
  <2>2. RowsTyped' /\ RowsPersist /\ FilesTyped' /\ clock <= clock'
    BY <2>1 DEF LoginsInv, LoginsTyped, RowsTyped, FilesTyped, RowsPersist, L!Live, L!File
  <2>3. DOMAIN logins' = Slots /\ \A t \in Slots : logins'[t] = logins[t]
    BY <2>1 DEF LoginsInv, LoginsTyped
  <2>4. LoginsTyped'
    BY <2>1, <2>2, <2>3, TypedStep DEF LoginsInv
  <2>5. \A i \in Identities : /\ \A t \in Slots : SlotSame(t, i)
                              /\ DeletesSame(i) /\ RowsSame(i) /\ FilesSame(i)
    BY <2>1, OtherSlotSame DEF DeletesSame, RowsSame, FilesSame
  <2>6. ASSUME NEW i \in Identities \ excused' PROVE Exclusive(i)' /\ Accounted(i)'
    BY <2>1, <2>4, <2>5, Untouched DEF LoginsInv
  <2> QED
    BY <2>4, <2>6 DEF LoginsInv
<1>2. ASSUME NEW s \in Slots, \E c \in {"gui", "other"} : L!Start(s, c)
      PROVE  LoginsInv'
  BY <1>2, StartKeepsLogins
<1>3. ASSUME NEW s \in Slots,
             \/ L!SignIn(s) \/ L!Deny(s) \/ L!Pick(s) \/ L!GiveUp(s) \/ L!Exchange(s)
             \/ L!Appears(s) \/ L!Import(s)
      PROVE  LoginsInv'
  BY <1>3, SignInKeeps, DenyKeeps, PickKeeps, SmallStepsKeep, ExchangeKeeps, AppearsKeeps,
     ImportKeeps
<1>4. ASSUME NEW s \in Slots, L!Lookup(s) \/ L!Store(s) \/ L!Shared(s) \/ L!RemoveOld(s)
      PROVE  LoginsInv'
  BY <1>4, LookupKeeps, StoreKeeps, SharedKeeps, RemoveOldKeeps
<1>5. ASSUME NEW s \in Slots, L!Answer(s) \/ L!Undone(s) \/ L!Told(s) \/ L!Detach(s)
      PROVE  LoginsInv'
  BY <1>5, AnswerKeeps, SmallStepsKeep, DenyKeeps
<1>6. CASE L!AskDelete
  BY <1>6, AskDeleteKeeps
<1>7. CASE L!Restart
  BY <1>7, HostDiesKeeps
<1>8. ASSUME NEW d \in deletes, L!Tombstone(d) \/ L!Unlink(d)
      PROVE  LoginsInv'
  BY <1>8, DeletionKeeps
<1> QED
  BY <1>1, <1>2, <1>3, <1>4, <1>5, <1>6, <1>7, <1>8 DEF L!Next

\* Logins, imports and deletions, interleaved as they may be, keep the books of accounts and
\* files: of every identity that no two operations were under way for at a time.
THEOREM LoginsInvariant == L!Spec => []LoginsInv
<1>1. L!Init => LoginsInv
  BY LoginsInit
<1>2. LoginsInv /\ [L!Next]_LVars => LoginsInv'
  BY LoginsStep
<1> QED
  BY <1>1, <1>2, PTL DEF L!Spec, L!vars, LVars

\* An account that was deleted does not come back by itself: whatever files an import finds, an
\* account that can be used was signed in to since (materialize_oauth_account, delete_account).
THEOREM DeletedStay == L!Spec => []DeletedStaysDeleted
<1>1. LoginsInv => DeletedStaysDeleted
  <2> SUFFICES ASSUME LoginsInv, NEW id \in L!Live
               PROVE  listed[id].identity \in known \cup excused
    BY DEF DeletedStaysDeleted, L!DeletedStaysDeleted
  <2>1. id \in DOMAIN listed /\ listed[id].identity \in Identities
    BY ARow, FileHasOwner DEF LoginsInv, LoginsTyped, RowsTyped, L!Live
  <2> QED
    BY <2>1 DEF LoginsInv, Accounted, RowsKept
<1> QED
  BY <1>1, LoginsInvariant, PTL

\* An account that can be used has its credential file, through logins that replace it, imports
\* and deletions (materialize_oauth_account, delete_account).
THEOREM FilesStay == L!Spec => []AccountsHaveTheirFiles
<1>1. LoginsInv => AccountsHaveTheirFiles
  <2> SUFFICES ASSUME LoginsInv, NEW id \in L!Live
               PROVE  listed[id].identity \in excused \/ listed[id].file \in DOMAIN files
    BY DEF AccountsHaveTheirFiles, L!AccountsHaveTheirFiles
  <2>1. id \in DOMAIN listed /\ listed[id].identity \in Identities
    BY ARow, FileHasOwner DEF LoginsInv, LoginsTyped, RowsTyped, L!Live
  <2> QED
    BY <2>1 DEF LoginsInv, Accounted, RowsKept
<1> QED
  BY <1>1, LoginsInvariant, PTL

=============================================================================
