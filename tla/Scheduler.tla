------------------------------ MODULE Scheduler ------------------------------
(***************************************************************************)
(* The scheduler of account probes: plans and result rows in SQLite, the   *)
(* loop of a Host that lists the due plans and then claims and runs them   *)
(* one after another from its list, and the administrator who meanwhile    *)
(* creates, edits and deletes plans.  A Host starts its scheduler before   *)
(* it binds its port, so for a while two may work on one database; any     *)
(* Host may die at any point.  What a probe does is left to Recovery.      *)
(***************************************************************************)
EXTENDS Integers, FiniteSets, Sequences, SequencesExt

CONSTANTS
  Plans,       \* bound: the plan ids, from 1
  AccountOf,   \* the account a plan probes
  Crons,       \* "every": each hour; "once": with a year, so at OnceAt only
  OnceAt,      \* the hour of the only occurrence of "once"
  Hosts,
  MaxResults,  \* max_results of every plan
  MaxTime,     \* bound: hours
  MaxEdits,    \* bound: requests of the administrator
  MaxCrashes   \* bound: deaths of a Host

ASSUME SchedulerAssumption ==
  /\ Plans \subseteq Nat \ {0}
  /\ Crons \subseteq {"every", "once"}
  /\ OnceAt \in Nat
  /\ MaxResults \in 1 .. 1000

VARIABLES
  clock,
  plans,    \* scheduled_test_plans: at most one row per plan id
  rows,     \* scheduled_test_results
  nextPlan, nextId,   \* their AUTOINCREMENT
  host,     \* the scheduler task of each Host
  edit,     \* an update_plan request between its read and its write
  edits, crashes,
  ran,      \* observation: the due times that each plan was claimed for
  orphaned  \* observation: a Host has died since one last started

vars ==
  << clock, plans, rows, nextPlan, nextId, host, edit, edits, crashes, ran, orphaned >>

Row == [cron : {"every", "once"}, enabled : BOOLEAN, next : SUBSET Nat]
Listed == [plan : Plans, cron : {"every", "once"}]

\* next_run is NULL when next is empty.
TypeOK ==
  /\ clock \in Nat
  /\ plans \in [Plans -> SUBSET Row] /\ \A p \in Plans : Cardinality(plans[p]) <= 1
  /\ \A r \in rows : r.id < nextId /\ r.plan \in Plans
                     /\ r.status \in {"running", "success", "failed", "skipped"}
  /\ \A h \in Hosts :
       /\ host[h].pc \in {"down", "idle", "tick", "probing"}
       /\ host[h].todo \in Seq(Listed)
       /\ host[h].started <= clock
  /\ \A e \in edit : e.plan \in Plans /\ e.row \in Row

-----------------------------------------------------------------------------
\* The next occurrence after t, if there is one.
NextRun(cron, t) ==
  IF cron = "every" THEN {t + 1} ELSE IF t < OnceAt THEN {OnceAt} ELSE {}

DueAt(row, t) == row.enabled /\ \E n \in row.next : n <= t

Due(p) == \E row \in plans[p] : DueAt(row, clock)

Down == [pc |-> "down", started |-> 0, todo |-> <<>>, seen |-> {}, row |-> 0]

Init ==
  /\ clock = 0
  /\ plans = [p \in Plans |-> {}]
  /\ rows = {}
  /\ nextPlan = 1
  /\ nextId = 1
  /\ host = [h \in Hosts |-> Down]
  /\ edit = {}
  /\ edits = 0
  /\ crashes = 0
  /\ ran = [p \in Plans |-> {}]
  /\ orphaned = FALSE

-----------------------------------------------------------------------------
\* A slip for the sensitivity check: the rows of a dead Host stay.
StartUnswept(h) ==
  /\ host[h].pc = "down"
  /\ host' = [host EXCEPT ![h] = [Down EXCEPT !.pc = "idle"]]
  /\ orphaned' = FALSE
  /\ UNCHANGED <<nextPlan, clock, plans, rows, nextId, edit, edits, crashes, ran>>

\* initialize: results that were running have failed, and enabled plans without
\* a next run get one or are disabled.
Start(h) ==
  /\ host[h].pc = "down"
  /\ host' = [host EXCEPT ![h] = [Down EXCEPT !.pc = "idle"]]
  /\ rows' = {IF r.status = "running" THEN [r EXCEPT !.status = "failed"] ELSE r :
                r \in rows}
  /\ plans' = [p \in Plans |->
                { IF row.enabled /\ row.next = {}
                  THEN LET next == NextRun(row.cron, clock)
                       IN  [row EXCEPT !.next = next, !.enabled = next # {}]
                  ELSE row : row \in plans[p] }]
  /\ orphaned' = FALSE
  /\ UNCHANGED <<nextPlan, clock, nextId, edit, edits, crashes, ran>>

Crash(h) ==
  /\ host[h].pc # "down"
  /\ crashes < MaxCrashes
  /\ crashes' = crashes + 1
  /\ host' = [host EXCEPT ![h] = Down]
  /\ orphaned' = TRUE
  /\ UNCHANGED <<nextPlan, clock, plans, rows, nextId, edit, edits, ran>>

TickTime == clock

\* due_plans: ordered by next_run, then id.
Tick(h) ==
  /\ host[h].pc = "idle"
  /\ LET due == {p \in Plans : Due(p)}
         NextOf(p) == CHOOSE n \in UNION {row.next : row \in plans[p]} : TRUE
         Before(p, q) ==
           NextOf(p) < NextOf(q) \/ (NextOf(p) = NextOf(q) /\ p <= q)
         order == SetToSortSeq(due, Before)
     IN  /\ due # {}
         /\ host' = [host EXCEPT ![h] =
              [ Down EXCEPT !.pc = "tick", !.started = TickTime,
                !.todo = [i \in DOMAIN order |->
                   [ plan |-> order[i],
                     cron |-> (CHOOSE row \in plans[order[i]] : TRUE).cron ]] ]]
  /\ UNCHANGED <<nextPlan, clock, plans, rows, nextId, edit, edits, crashes, ran, orphaned>>

Working(h) == host[h].pc = "tick" /\ host[h].todo # <<>>
Account(h) == AccountOf[Head(host[h].todo).plan]

\* One plan of an account in a tick.
SkipSeen(h) ==
  /\ Working(h)
  /\ Account(h) \in host[h].seen
  /\ host' = [host EXCEPT ![h].todo = Tail(@)]
  /\ UNCHANGED <<nextPlan, clock, plans, rows, nextId, edit, edits, crashes, ran, orphaned>>

\* next_run_text fails for a cron that has no later occurrence, and `?` ends the
\* whole tick.
AbortTick(h) ==
  /\ Working(h)
  /\ Account(h) \notin host[h].seen
  /\ NextRun(Head(host[h].todo).cron, host[h].started) = {}
  /\ host' = [host EXCEPT ![h] = [Down EXCEPT !.pc = "idle"]]
  /\ UNCHANGED <<nextPlan, clock, plans, rows, nextId, edit, edits, crashes, ran, orphaned>>

\* A slip for the sensitivity check: the next run is only set when the plan is
\* listed again.
NextUnchanged(row, next) == row

\* The rows of the plan that the UPDATE of claim_plan matches.
Claimable(h, p) == {row \in plans[p] : DueAt(row, host[h].started)}

Claimed(row, next) == [row EXCEPT !.next = next]

\* claim_plan, in one transaction: the plan as it is now must still be due at
\* the time of the tick.
Claim(h) ==
  LET p == Head(host[h].todo).plan
      next == NextRun(Head(host[h].todo).cron, host[h].started)
      rest == [host[h] EXCEPT !.todo = Tail(@), !.seen = @ \cup {Account(h)}]
  IN  /\ Working(h)
      /\ Account(h) \notin host[h].seen
      /\ next # {}
      /\ \/ /\ Claimable(h, p) = {}
            /\ host' = [host EXCEPT ![h] = rest]
            /\ UNCHANGED <<plans, rows, nextId, ran>>
         \/ \E row \in Claimable(h, p) :
              /\ plans' = [plans EXCEPT ![p] = {Claimed(row, next)}]
              /\ rows' = rows \cup {[id |-> nextId, plan |-> p, status |-> "running"]}
              /\ nextId' = nextId + 1
              /\ host' = [host EXCEPT ![h] =
                            [rest EXCEPT !.pc = "probing", !.row = nextId]]
              /\ ran' = [ran EXCEPT ![p] = @ \cup row.next]
      /\ UNCHANGED <<nextPlan, clock, edit, edits, crashes, orphaned>>

\* A slip for the sensitivity check: the loop waits for a row that is gone.
StillThere(h) == host[h].pc = "probing" /\ \E r \in rows : r.id = host[h].row

MayFinish(h) == host[h].pc = "probing"

\* finish_result: the row gets its final status, unless it went with its plan,
\* and the oldest rows of the plan beyond max_results are deleted.
Finish(h) ==
  /\ MayFinish(h)
  /\ \E status \in {"success", "failed", "skipped"} :
       LET done == {IF r.id = host[h].row THEN [r EXCEPT !.status = status] ELSE r :
                      r \in rows}
           Newer(r) == {s \in done : s.plan = r.plan /\ s.id > r.id}
           mine == {r.plan : r \in {s \in rows : s.id = host[h].row}}
       IN  rows' = {r \in done :
                      r.plan \in mine => Cardinality(Newer(r)) < MaxResults}
  /\ host' = [host EXCEPT ![h].pc = "tick", ![h].row = 0]
  /\ UNCHANGED <<nextPlan, clock, plans, nextId, edit, edits, crashes, ran, orphaned>>

TickDone(h) ==
  /\ host[h].pc = "tick"
  /\ host[h].todo = <<>>
  /\ host' = [host EXCEPT ![h] = [Down EXCEPT !.pc = "idle"]]
  /\ UNCHANGED <<nextPlan, clock, plans, rows, nextId, edit, edits, crashes, ran, orphaned>>

-----------------------------------------------------------------------------
Edit == edits < MaxEdits /\ edits' = edits + 1

NextIf(enabled, cron) == IF enabled THEN NextRun(cron, clock) ELSE {}

\* create_plan; validate_cron wants an occurrence in the future.
Create ==
  /\ Edit
  /\ nextPlan \in Plans
  /\ nextPlan' = nextPlan + 1
  /\ \E cron \in Crons, enabled \in BOOLEAN :
       /\ NextRun(cron, clock) # {}
       /\ plans' = [plans EXCEPT ![nextPlan] =
            {[cron |-> cron, enabled |-> enabled, next |-> NextIf(enabled, cron)]}]
  /\ UNCHANGED <<clock, rows, nextId, host, edit, crashes, ran, orphaned>>

\* update_plan reads the row, gives the connection back, and writes it whole.
UpdateRead(p) ==
  /\ Edit
  /\ edit = {}
  /\ \E row \in plans[p] : edit' = {[plan |-> p, row |-> row]}
  /\ UNCHANGED <<nextPlan, clock, plans, rows, nextId, host, crashes, ran, orphaned>>

UpdateWrite ==
  /\ \E e \in edit, cron \in Crons, enabled \in BOOLEAN :
       LET row == [ cron |-> cron, enabled |-> enabled,
                    next |-> NextIf(enabled, cron) ]
       IN  IF NextRun(cron, clock) = {} THEN UNCHANGED plans
           ELSE plans' = [plans EXCEPT ![e.plan] = IF @ = {} THEN {} ELSE {row}]
  /\ edit' = {}
  /\ UNCHANGED <<nextPlan, clock, rows, nextId, host, edits, crashes, ran, orphaned>>

\* delete_plan; the results go with the plan (ON DELETE CASCADE).
Delete(p) ==
  /\ Edit
  /\ plans[p] # {}
  /\ plans' = [plans EXCEPT ![p] = {}]
  /\ rows' = {r \in rows : r.plan # p}
  /\ UNCHANGED <<nextPlan, clock, nextId, host, edit, crashes, ran, orphaned>>

Advance ==
  /\ clock < MaxTime
  /\ clock' = clock + 1
  /\ UNCHANGED <<nextPlan, plans, rows, nextId, host, edit, edits, crashes, ran, orphaned>>

HostStep(h) ==
  \/ Start(h) \/ Tick(h) \/ SkipSeen(h) \/ AbortTick(h)
  \/ Claim(h) \/ Finish(h) \/ TickDone(h)

Next ==
  \/ \E h \in Hosts : HostStep(h) \/ Crash(h)
  \/ \E p \in Plans : UpdateRead(p) \/ Delete(p)
  \/ Create \/ UpdateWrite
  \/ Advance

Spec == Init /\ [][Next]_vars

\* The GUI keeps a Host running, its loop polls every five seconds, and a probe
\* ends with an answer or by its timeout.
FairSpec == Spec /\ \A h \in Hosts : WF_vars(HostStep(h))

-----------------------------------------------------------------------------
\* A due time is used up by the claim: neither a second Host, nor a restart, nor
\* an edit that was read before the claim makes the plan run for it again.
RunsOncePerDueTime ==
  \A p \in Plans : \A row \in plans[p] : row.next \cap ran[p] = {}

\* A result that says "running" is being worked on, or its Host has died and none
\* has started since.
RunningIsBeingRun ==
  \A r \in rows :
    r.status = "running" =>
      orphaned \/ \E h \in Hosts : host[h].pc = "probing" /\ host[h].row = r.id

\* A plan that is due and whose cron has no later occurrence.
Poisoned(p) == Due(p) /\ \E row \in plans[p] : NextRun(row.cron, clock) = {}

\* "Execute every currently due plan": no due plan starves behind others, whatever
\* dies, unless one is poisoned (then it and all plans behind it do).
DuePlansRunUnlessPoisoned ==
  \A p \in Plans : Due(p) ~> ~Due(p) \/ \E q \in Plans : Poisoned(q)
==============================================================================
