-------------------------- MODULE BackgroundProofs --------------------------
(***************************************************************************)
(* Proofs about the work in the background of the Host: the scheduler, for *)
(* any plans, Hosts and times, and an image batch, for any submissions and *)
(* any number of clients.                                                  *)
(***************************************************************************)
EXTENDS MCBackground, SequenceTheorems, TLAPS

(* The scheduler. *)

\* The record of a Host.  (The order of a tick's list comes from a sort; nothing of it
\* is needed here.)
HostTyped(r) ==
  /\ DOMAIN r = {"pc", "started", "todo", "seen", "row"}
  /\ r.pc \in {"down", "idle", "tick", "probing"}
  /\ r.started \in Nat /\ r.started <= clock

HostsTyped ==
  /\ host = [h \in Hosts |-> host[h]]
  /\ \A h \in Hosts : HostTyped(host[h])

\* next_run of a plan is NULL or one hour.
RowsTyped ==
  /\ plans \in [Plans -> SUBSET Row]
  /\ \A p \in Plans : \A row \in plans[p] : \A m, n \in row.next : m = n

SchedulerTyped == clock \in Nat /\ HostsTyped /\ RowsTyped

\* A plan has been claimed for hours that have come, and its next run is later than
\* all of them.
ClaimsInOrder ==
  /\ ran \in [Plans -> SUBSET Nat]
  /\ \A p \in Plans : \A m \in ran[p] :
       /\ m <= clock
       /\ \A row \in plans[p] : \A n \in row.next : m < n

SchedulerIInv == SchedulerTyped /\ ClaimsInOrder /\ RunningIsBeingRun

\* The next occurrence is later than the hour from which it is looked for.
LEMMA NextRunIsLater ==
  ASSUME NEW cron, NEW t \in Nat
  PROVE  /\ NextRun(cron, t) \in SUBSET Nat
         /\ \A n \in NextRun(cron, t) : t < n
         /\ \A m, n \in NextRun(cron, t) : m = n
BY SchedulerAssumption DEF NextRun

\* What a step of one Host leaves alone.
LEMMA HostsChange ==
  ASSUME SchedulerTyped, NEW h \in Hosts, HostStep(h) \/ Crash(h)
  PROVE  /\ HostsTyped' /\ UNCHANGED clock
         /\ \A k \in Hosts : k # h => host'[k] = host[k]
<1>0. /\ DOMAIN host = Hosts /\ clock \in Nat /\ HostTyped(host[h])
      /\ host[h].pc \in {"down", "idle", "tick", "probing"}
      /\ host[h].started \in Nat /\ host[h].started <= clock
  BY DEF SchedulerTyped, HostsTyped, HostTyped
<1>1. UNCHANGED clock
  BY DEF HostStep, Start, Tick, SkipSeen, AbortTick, Claim, Finish, TickDone, Crash
<1>2. \E r : HostTyped(r) /\ host' = [host EXCEPT ![h] = r]
  <2>1. CASE Start(h) \/ AbortTick(h) \/ TickDone(h)
    <3>1. host' = [host EXCEPT ![h] = [Down EXCEPT !.pc = "idle"]]
      BY <2>1 DEF Start, AbortTick, TickDone
    <3>2. HostTyped([Down EXCEPT !.pc = "idle"])
      BY <1>0 DEF HostTyped, Down
    <3> QED
      BY <3>1, <3>2
  <2>2. CASE Crash(h)
    <3>1. HostTyped(Down) /\ host' = [host EXCEPT ![h] = Down]
      BY <1>0, <2>2 DEF HostTyped, Down, Crash
    <3> QED
      BY <3>1
  <2>3. CASE Tick(h)
    <3>1. PICK todo : host' = [host EXCEPT ![h] =
                  [Down EXCEPT !.pc = "tick", !.started = TickTime, !.todo = todo]]
      BY <2>3, Zenon DEF Tick
    <3>2. HostTyped([Down EXCEPT !.pc = "tick", !.started = TickTime, !.todo = todo])
      BY <1>0 DEF HostTyped, Down, TickTime
    <3> QED
      BY <3>1, <3>2
  <2>4. CASE SkipSeen(h)
    <3>1. PICK todo : host' = [host EXCEPT ![h] = [host[h] EXCEPT !.todo = todo]]
      BY <2>4 DEF SkipSeen
    <3>2. HostTyped([host[h] EXCEPT !.todo = todo])
      BY <1>0 DEF HostTyped
    <3> QED
      BY <3>1, <3>2
  <2>5. CASE Claim(h)
    <3>1. PICK todo, seen :
            \/ host' = [host EXCEPT ![h] = [host[h] EXCEPT !.todo = todo, !.seen = seen]]
            \/ host' = [host EXCEPT ![h] = [[host[h] EXCEPT !.todo = todo, !.seen = seen]
                                             EXCEPT !.pc = "probing", !.row = nextId]]
      <4>1. \/ host' = [host EXCEPT ![h] = [host[h] EXCEPT
                   !.todo = Tail(@), !.seen = @ \cup {Account(h)}]]
            \/ host' = [host EXCEPT ![h] = [[host[h] EXCEPT
                   !.todo = Tail(@), !.seen = @ \cup {Account(h)}]
                   EXCEPT !.pc = "probing", !.row = nextId]]
        BY <2>5 DEF Claim
      <4> QED
        BY <4>1
    <3>2. HostTyped([host[h] EXCEPT !.todo = todo, !.seen = seen])
      BY <1>0 DEF HostTyped
    <3>3. HostTyped([[host[h] EXCEPT !.todo = todo, !.seen = seen]
                     EXCEPT !.pc = "probing", !.row = nextId])
      BY <1>0 DEF HostTyped
    <3> QED
      BY <3>1, <3>2, <3>3
  <2>6. CASE Finish(h)
    <3>1. host' = [host EXCEPT ![h] = [host[h] EXCEPT !.pc = "tick", !.row = 0]]
      BY <2>6 DEF Finish
    <3>2. HostTyped([host[h] EXCEPT !.pc = "tick", !.row = 0])
      BY <1>0 DEF HostTyped
    <3> QED
      BY <3>1, <3>2
  <2> QED
    BY <2>1, <2>2, <2>3, <2>4, <2>5, <2>6 DEF HostStep
<1>3. PICK r : HostTyped(r) /\ host' = [host EXCEPT ![h] = r]
  BY <1>2
<1>4. host'[h] = r /\ \A k \in Hosts : k # h => host'[k] = host[k]
  BY <1>0, <1>3
<1>5. host' = [k \in Hosts |-> host'[k]]
  BY <1>3 DEF SchedulerTyped, HostsTyped
<1>6. \A k \in Hosts : HostTyped(host[k])
  BY DEF SchedulerTyped, HostsTyped
<1>7. \A k \in Hosts : HostTyped(host[k])'
  BY <1>1, <1>3, <1>4, <1>6 DEF HostTyped
<1> QED
  BY <1>1, <1>4, <1>5, <1>7 DEF HostsTyped

\* The next run of a row is fresh: later than now.
Fresh(row) ==
  /\ row \in Row
  /\ \A n \in row.next : clock < n
  /\ \A m, n \in row.next : m = n

\* A row that is started again, created or edited may run next only after now.
LEMMA NewRowsKeepOrder ==
  ASSUME SchedulerTyped, ClaimsInOrder, HostsTyped', UNCHANGED <<clock, ran>>,
         plans' \in [Plans -> SUBSET Row],
         \A p \in Plans : \A row \in plans'[p] : row \in plans[p] \/ Fresh(row)
  PROVE  SchedulerTyped' /\ ClaimsInOrder'
<1>1. RowsTyped'
  BY DEF SchedulerTyped, RowsTyped, Fresh
<1>2. ClaimsInOrder'
  <2> SUFFICES ASSUME NEW p \in Plans, NEW m \in ran[p]
               PROVE  m <= clock /\ \A row \in plans'[p] : \A n \in row.next : m < n
    BY DEF ClaimsInOrder
  <2>1. m \in Nat /\ m <= clock /\ clock \in Nat
    BY DEF ClaimsInOrder, SchedulerTyped
  <2>2. ASSUME NEW row \in plans'[p], NEW n \in row.next PROVE m < n
    <3>1. CASE row \in plans[p]
      BY <2>2, <3>1 DEF ClaimsInOrder
    <3>2. CASE Fresh(row)
      <4>1. n \in Nat /\ clock < n
        BY <2>2, <3>2 DEF Fresh, Row
      <4> QED
        BY <2>1, <4>1
    <3> QED
      BY <2>2, <3>1, <3>2
  <2> QED
    BY <2>1, <2>2
<1> QED
  BY <1>1, <1>2 DEF SchedulerTyped

LEMMA StartKeepsOrder ==
  ASSUME SchedulerTyped, ClaimsInOrder, NEW h \in Hosts, Start(h)
  PROVE  SchedulerTyped' /\ ClaimsInOrder'
<1> DEFINE Again(row) ==
      IF row.enabled /\ row.next = {}
      THEN [row EXCEPT !.next = NextRun(row.cron, clock),
                       !.enabled = NextRun(row.cron, clock) # {}]
      ELSE row
<1>1. HostsTyped' /\ UNCHANGED <<clock, ran>>
  BY HostsChange DEF Start, HostStep
<1>2. plans' = [p \in Plans |-> {Again(row) : row \in plans[p]}]
  BY DEF Start
<1>3. ASSUME NEW p \in Plans, NEW row \in plans[p]
      PROVE  Again(row) \in plans[p] \/ Fresh(Again(row))
  <2>1. row \in Row
    BY DEF SchedulerTyped, RowsTyped
  <2>2. CASE row.enabled /\ row.next = {}
    <3>1. /\ NextRun(row.cron, clock) \in SUBSET Nat
          /\ \A n \in NextRun(row.cron, clock) : clock < n
          /\ \A m, n \in NextRun(row.cron, clock) : m = n
      BY NextRunIsLater DEF SchedulerTyped
    <3>2. (NextRun(row.cron, clock) # {}) \in BOOLEAN
      OBVIOUS
    <3>3. /\ Again(row) \in Row
          /\ Again(row).next = NextRun(row.cron, clock)
      BY <2>1, <2>2, <3>1, <3>2 DEF Row
    <3> HIDE DEF Again
    <3> QED
      BY <3>1, <3>3 DEF Fresh
  <2>3. CASE ~(row.enabled /\ row.next = {})
    BY <2>3
  <2> QED
    BY <2>2, <2>3
<1> HIDE DEF Again
<1>4. plans' \in [Plans -> SUBSET Row]
  BY <1>2, <1>3 DEF SchedulerTyped, RowsTyped, Fresh
<1>5. \A p \in Plans : \A row \in plans'[p] : row \in plans[p] \/ Fresh(row)
  BY <1>2, <1>3
<1> QED
  BY <1>1, <1>4, <1>5, NewRowsKeepOrder

LEMMA EditsKeepOrder ==
  ASSUME SchedulerTyped, ClaimsInOrder,
         Create \/ UpdateWrite \/ \E p \in Plans : UpdateRead(p) \/ Delete(p)
  PROVE  SchedulerTyped' /\ ClaimsInOrder'
<1>1. UNCHANGED <<clock, ran, host>>
  BY DEF Create, UpdateWrite, UpdateRead, Delete
<1>2. HostsTyped'
  BY <1>1 DEF SchedulerTyped, HostsTyped, HostTyped
<1>3. ASSUME NEW cron \in Crons, NEW enabled \in BOOLEAN
      PROVE  Fresh([cron |-> cron, enabled |-> enabled, next |-> NextIf(enabled, cron)])
  <2>1. /\ NextIf(enabled, cron) \in SUBSET Nat
        /\ \A n \in NextIf(enabled, cron) : clock < n
        /\ \A m, n \in NextIf(enabled, cron) : m = n
    BY NextRunIsLater DEF SchedulerTyped, NextIf
  <2>2. cron \in {"every", "once"}
    BY SchedulerAssumption
  <2> QED
    BY <2>1, <2>2 DEF Fresh, Row
<1>4. plans \in [Plans -> SUBSET Row]
  BY DEF SchedulerTyped, RowsTyped
<1>5. \/ UNCHANGED plans
      \/ \E q : \E cron \in Crons, enabled \in BOOLEAN : plans' = [plans EXCEPT ![q] =
            {[cron |-> cron, enabled |-> enabled, next |-> NextIf(enabled, cron)]}]
      \/ \E q : plans' = [plans EXCEPT ![q] = {}]
  <2>1. CASE Create
    <3>1. PICK cron \in Crons, enabled \in BOOLEAN : plans' = [plans EXCEPT ![nextPlan] =
            {[cron |-> cron, enabled |-> enabled, next |-> NextIf(enabled, cron)]}]
      BY <2>1 DEF Create
    <3> QED
      BY <3>1, Zenon
  <2>2. CASE UpdateWrite
    <3>1. PICK e \in edit, cron \in Crons, enabled \in BOOLEAN :
            \/ UNCHANGED plans
            \/ plans' = [plans EXCEPT ![e.plan] = IF plans[e.plan] = {} THEN {} ELSE
                 {[cron |-> cron, enabled |-> enabled, next |-> NextIf(enabled, cron)]}]
      BY <2>2 DEF UpdateWrite
    <3>2. CASE UNCHANGED plans
      BY <3>2
    <3>3. CASE plans' = [plans EXCEPT ![e.plan] = {}]
      BY <3>3, Zenon
    <3>4. CASE plans' = [plans EXCEPT ![e.plan] =
                 {[cron |-> cron, enabled |-> enabled, next |-> NextIf(enabled, cron)]}]
      BY <3>4, Zenon
    <3> QED
      BY <3>1, <3>2, <3>3, <3>4
  <2>3. CASE \E p \in Plans : UpdateRead(p) \/ Delete(p)
    BY <2>3 DEF UpdateRead, Delete
  <2> QED
    BY <2>1, <2>2, <2>3
<1>6. /\ plans' \in [Plans -> SUBSET Row]
      /\ \A p \in Plans : \A row \in plans'[p] : row \in plans[p] \/ Fresh(row)
  <2>1. CASE UNCHANGED plans
    BY <1>4, <2>1
  <2>2. ASSUME NEW q, plans' = [plans EXCEPT ![q] = {}]
        PROVE  /\ plans' \in [Plans -> SUBSET Row]
               /\ \A p \in Plans : \A row \in plans'[p] : row \in plans[p] \/ Fresh(row)
    <3>1. \A p \in Plans : plans'[p] = IF p = q THEN {} ELSE plans[p]
      BY <1>4, <2>2
    <3>2. plans' = [p \in Plans |-> plans'[p]]
      BY <1>4, <2>2
    <3> QED
      BY <1>4, <3>1, <3>2
  <2>3. ASSUME NEW q, NEW new, Fresh(new), plans' = [plans EXCEPT ![q] = {new}]
        PROVE  /\ plans' \in [Plans -> SUBSET Row]
               /\ \A p \in Plans : \A row \in plans'[p] : row \in plans[p] \/ Fresh(row)
    <3>1. \A p \in Plans : plans'[p] = IF p = q THEN {new} ELSE plans[p]
      BY <1>4, <2>3
    <3>2. plans' = [p \in Plans |-> plans'[p]]
      BY <1>4, <2>3
    <3>3. new \in Row
      BY <2>3 DEF Fresh
    <3>4. \A p \in Plans : \A row \in plans'[p] : row \in plans[p] \/ Fresh(row)
      BY <2>3, <3>1
    <3>5. \A p \in Plans : plans'[p] \in SUBSET Row
      BY <1>4, <3>1, <3>3
    <3> QED
      BY <3>2, <3>4, <3>5
  <2> QED
    BY <1>3, <1>5, <2>1, <2>2, <2>3
<1> QED
  BY <1>1, <1>2, <1>6, NewRowsKeepOrder

\* The claim uses the plan's next run up, and sets one after the hour of the tick.
LEMMA ClaimKeepsOrder ==
  ASSUME SchedulerTyped, ClaimsInOrder, NEW h \in Hosts, Claim(h)
  PROVE  SchedulerTyped' /\ ClaimsInOrder'
<1> DEFINE p == Head(host[h].todo).plan
           next == NextRun(Head(host[h].todo).cron, host[h].started)
<1>1. HostsTyped' /\ UNCHANGED clock
  BY HostsChange DEF HostStep
<1>2. /\ host[h].started \in Nat /\ host[h].started <= clock /\ clock \in Nat
      /\ plans \in [Plans -> SUBSET Row]
  BY DEF SchedulerTyped, HostsTyped, HostTyped, RowsTyped
<1>3. /\ next \in SUBSET Nat
      /\ \A n \in next : host[h].started < n
      /\ \A m, n \in next : m = n
  BY <1>2, NextRunIsLater
<1> HIDE DEF next
<1>4. CASE UNCHANGED <<plans, ran>>
  BY <1>1, <1>4 DEF SchedulerTyped, RowsTyped, ClaimsInOrder
<1>5. CASE \E row \in Claimable(h, p) :
             /\ plans' = [plans EXCEPT ![p] = {Claimed(row, next)}]
             /\ ran' = [ran EXCEPT ![p] = @ \cup row.next]
  <2>1. PICK row \in Claimable(h, p) :
          /\ plans' = [plans EXCEPT ![p] = {Claimed(row, next)}]
          /\ ran' = [ran EXCEPT ![p] = @ \cup row.next]
    BY <1>5
  <2> HIDE DEF p
  <2>2. CASE p \in Plans
    <3>1. /\ row \in plans[p] /\ row \in Row
          /\ \A n \in row.next : n \in Nat /\ n <= host[h].started
      <4>1. row \in plans[p] /\ DueAt(row, host[h].started)
        BY <2>1 DEF Claimable
      <4>2. row \in Row
        BY <1>2, <2>2, <4>1
      <4>3. \A m, n \in row.next : m = n
        BY <2>2, <4>1 DEF SchedulerTyped, RowsTyped
      <4> QED
        BY <4>1, <4>2, <4>3 DEF DueAt, Row
    <3>2. Claimed(row, next) \in Row /\ Claimed(row, next).next = next
      BY <1>3, <3>1 DEF Claimed, Row
    <3>3. RowsTyped'
      BY <1>2, <1>3, <2>1, <2>2, <3>2 DEF SchedulerTyped, RowsTyped
    <3>4. ran' \in [Plans -> SUBSET Nat]
      BY <2>1, <2>2, <3>1 DEF ClaimsInOrder
    <3>5. ASSUME NEW q \in Plans, NEW m \in ran'[q]
          PROVE  m <= clock' /\ \A r \in plans'[q] : \A n \in r.next : m < n
      <4>1. CASE q # p
        <5>1. ran'[q] = ran[q] /\ plans'[q] = plans[q]
          BY <1>2, <2>1, <4>1 DEF ClaimsInOrder
        <5> QED
          BY <1>1, <3>5, <5>1 DEF ClaimsInOrder
      <4>2. CASE q = p
        <5>1. ran'[q] = ran[q] \cup row.next /\ plans'[q] = {Claimed(row, next)}
          BY <1>2, <2>1, <2>2, <4>2 DEF ClaimsInOrder
        <5>2. m \in Nat /\ m <= host[h].started
          <6>1. CASE m \in row.next
            BY <3>1, <6>1
          <6>2. CASE m \in ran[q]
            <7>1. PICK n \in row.next : n \in Nat /\ n <= host[h].started
              BY <2>1, <3>1 DEF Claimable, DueAt
            <7>2. m \in Nat /\ m < n
              BY <2>2, <3>1, <4>2, <6>2, <7>1 DEF ClaimsInOrder
            <7> QED
              BY <1>2, <7>1, <7>2
          <6> QED
            BY <3>5, <5>1, <6>1, <6>2
        <5>3. \A n \in next : m < n
          BY <1>2, <1>3, <5>2
        <5> QED
          BY <1>1, <1>2, <3>2, <5>1, <5>2, <5>3
      <4> QED
        BY <4>1, <4>2
    <3> QED
      BY <1>1, <1>2, <3>3, <3>4, <3>5 DEF SchedulerTyped, ClaimsInOrder
  <2>3. CASE p \notin Plans
    <3>1. UNCHANGED <<plans, ran>>
      BY <1>2, <2>1, <2>3 DEF ClaimsInOrder
    <3> QED
      BY <1>4, <3>1
  <2> QED
    BY <2>2, <2>3
<1>6. UNCHANGED <<plans, ran>> \/
      \E row \in Claimable(h, p) :
         /\ plans' = [plans EXCEPT ![p] = {Claimed(row, next)}]
         /\ ran' = [ran EXCEPT ![p] = @ \cup row.next]
  BY DEF Claim, next
<1> QED
  BY <1>4, <1>5, <1>6

LEMMA NextKeepsOrder ==
  ASSUME SchedulerTyped, ClaimsInOrder, Next
  PROVE  SchedulerTyped' /\ ClaimsInOrder'
<1>1. CASE \E h \in Hosts : HostStep(h) \/ Crash(h)
  <2>1. PICK h \in Hosts : HostStep(h) \/ Crash(h)
    BY <1>1
  <2>2. CASE Start(h)
    BY <2>2, StartKeepsOrder
  <2>3. CASE Claim(h)
    BY <2>3, ClaimKeepsOrder
  <2>4. CASE Tick(h) \/ SkipSeen(h) \/ AbortTick(h) \/ Finish(h) \/ TickDone(h) \/ Crash(h)
    <3>1. UNCHANGED <<clock, plans, ran>>
      BY <2>4 DEF Tick, SkipSeen, AbortTick, Finish, TickDone, Crash
    <3> QED
      BY <2>1, <3>1, HostsChange DEF SchedulerTyped, RowsTyped, ClaimsInOrder
  <2> QED
    BY <2>1, <2>2, <2>3, <2>4 DEF HostStep
<1>2. CASE Create \/ UpdateWrite \/ \E p \in Plans : UpdateRead(p) \/ Delete(p)
  BY <1>2, EditsKeepOrder
<1>3. CASE Advance
  <2>1. /\ clock' = clock + 1 /\ clock \in Nat /\ UNCHANGED <<host, plans, ran>>
    BY <1>3 DEF Advance, SchedulerTyped
  <2>2. HostsTyped'
    BY <2>1 DEF SchedulerTyped, HostsTyped, HostTyped
  <2>3. RowsTyped'
    BY <2>1 DEF SchedulerTyped, RowsTyped
  <2>4. ClaimsInOrder'
    <3>1. \A p \in Plans : \A m \in ran[p] : m \in Nat /\ m <= clock
      BY DEF ClaimsInOrder
    <3>2. \A p \in Plans : \A m \in ran[p] : m <= clock'
      BY <2>1, <3>1
    <3> QED
      BY <2>1, <3>2 DEF ClaimsInOrder
  <2> QED
    BY <2>1, <2>2, <2>3, <2>4 DEF SchedulerTyped
<1> QED
  BY <1>1, <1>2, <1>3 DEF Next

\* A row that is still running is not the one whose Host goes on to another state.
LEMMA NextKeepsRunning ==
  ASSUME SchedulerTyped, RunningIsBeingRun, Next
  PROVE  RunningIsBeingRun'
<1>0. /\ DOMAIN host = Hosts
      /\ \A h \in Hosts : DOMAIN host[h] = {"pc", "started", "todo", "seen", "row"}
  BY DEF SchedulerTyped, HostsTyped, HostTyped
<1> SUFFICES ASSUME NEW r \in rows', r.status = "running"
             PROVE  orphaned' \/ \E h \in Hosts : host'[h].pc = "probing" /\ host'[h].row = r.id
  BY DEF RunningIsBeingRun
<1>1. ASSUME r \in rows
      PROVE  orphaned \/ \E h \in Hosts : host[h].pc = "probing" /\ host[h].row = r.id
  BY <1>1 DEF RunningIsBeingRun
<1>2. ASSUME NEW h \in Hosts, HostStep(h) \/ Crash(h)
      PROVE  orphaned' \/ \E k \in Hosts : host'[k].pc = "probing" /\ host'[k].row = r.id
  <2>0. \A k \in Hosts : k # h => host'[k] = host[k]
    BY <1>2, HostsChange
  <2>1. CASE Start(h)
    <3>1. PICK s \in rows :
            r = IF s.status = "running" THEN [s EXCEPT !.status = "failed"] ELSE s
      BY <2>1 DEF Start
    <3>2. s.status = "running" => [s EXCEPT !.status = "failed"].status # "running"
      BY SMT
    <3> QED
      BY <3>1, <3>2
  <2>2. CASE Crash(h)
    BY <2>2 DEF Crash
  <2>3. CASE Tick(h) \/ SkipSeen(h) \/ AbortTick(h) \/ TickDone(h)
    <3>1. UNCHANGED <<rows, orphaned>> /\ host[h].pc # "probing"
      BY <2>3 DEF Tick, SkipSeen, AbortTick, TickDone, Working
    <3> QED
      BY <1>1, <2>0, <3>1
  <2>4. CASE Claim(h)
    <3>1. UNCHANGED orphaned /\ host[h].pc # "probing"
      BY <2>4 DEF Claim, Working
    <3>2. CASE UNCHANGED rows
      BY <1>1, <2>0, <3>1, <3>2
    <3>3. CASE \E p : /\ rows' = rows \cup {[id |-> nextId, plan |-> p, status |-> "running"]}
                      /\ host'[h].pc = "probing" /\ host'[h].row = nextId
      BY <1>1, <2>0, <3>1, <3>3
    <3>4. UNCHANGED rows \/ 
          \E p : /\ rows' = rows \cup {[id |-> nextId, plan |-> p, status |-> "running"]}
                 /\ host'[h].pc = "probing" /\ host'[h].row = nextId
      <4>1. \/ UNCHANGED rows
            \/ \E p : /\ rows' = rows \cup {[id |-> nextId, plan |-> p, status |-> "running"]}
                      /\ host' = [host EXCEPT ![h] = [[host[h] EXCEPT
                             !.todo = Tail(@), !.seen = @ \cup {Account(h)}]
                             EXCEPT !.pc = "probing", !.row = nextId]]
        BY <2>4 DEF Claim
      <4> QED
        BY <1>0, <4>1
    <3> QED
      BY <3>2, <3>3, <3>4
  <2>5. CASE Finish(h)
    <3>1. PICK status \in {"success", "failed", "skipped"}, s \in rows :
            r = IF s.id = host[h].row THEN [s EXCEPT !.status = status] ELSE s
      BY <2>5 DEF Finish
    <3>2. s.id = host[h].row => [s EXCEPT !.status = status].status # "running"
      BY <3>1
    <3>3. r \in rows /\ r.id # host[h].row
      BY <3>1, <3>2
    <3> QED
      BY <1>1, <2>0, <2>5, <3>3 DEF Finish
  <2> QED
    BY <1>2, <2>1, <2>2, <2>3, <2>4, <2>5 DEF HostStep
<1>3. CASE \/ Create \/ UpdateWrite \/ Advance
           \/ \E p \in Plans : UpdateRead(p) \/ Delete(p)
  <2>1. rows' \subseteq rows /\ UNCHANGED <<host, orphaned>>
    BY <1>3 DEF Create, UpdateWrite, Advance, UpdateRead, Delete
  <2> QED
    BY <1>1, <2>1
<1> QED
  BY <1>2, <1>3 DEF Next

\* What the scheduler keeps true: the state of its Hosts and plans, the order of past
\* claims and next runs, and who works on a running result.
THEOREM SchedulerInvariant == Spec => []SchedulerIInv
<1>1. Init => SchedulerIInv
  <2> SUFFICES ASSUME Init PROVE SchedulerIInv
    OBVIOUS
  <2>1. HostsTyped
    BY DEF Init, Down, HostsTyped, HostTyped
  <2>2. RowsTyped /\ ClaimsInOrder /\ clock \in Nat
    BY DEF Init, RowsTyped, ClaimsInOrder
  <2>3. RunningIsBeingRun
    BY DEF Init, RunningIsBeingRun
  <2> QED
    BY <2>1, <2>2, <2>3 DEF SchedulerIInv, SchedulerTyped
<1>2. SchedulerIInv /\ [Next]_vars => SchedulerIInv'
  <2>1. ASSUME SchedulerIInv, UNCHANGED vars PROVE SchedulerIInv'
    BY <2>1 DEF vars, SchedulerIInv, SchedulerTyped, HostsTyped, HostTyped, RowsTyped,
       ClaimsInOrder, RunningIsBeingRun
  <2>2. ASSUME SchedulerIInv, Next PROVE SchedulerIInv'
    BY <2>2, NextKeepsOrder, NextKeepsRunning DEF SchedulerIInv
  <2> QED
    BY <2>1, <2>2
<1> QED
  BY <1>1, <1>2, PTL DEF Spec

\* No plan runs twice for one due time, whatever Hosts list, claim, die and restart,
\* and whatever is edited between their steps (run background).
THEOREM RunsOnce == Spec => []RunsOncePerDueTime
<1>1. SchedulerIInv => RunsOncePerDueTime
  <2> SUFFICES ASSUME SchedulerIInv, NEW p \in Plans, NEW row \in plans[p],
                      NEW n \in row.next, n \in ran[p]
               PROVE  FALSE
    BY DEF RunsOncePerDueTime
  <2>1. n \in Nat /\ n < n
    BY DEF SchedulerIInv, ClaimsInOrder
  <2> QED
    BY <2>1
<1> QED
  BY <1>1, SchedulerInvariant, PTL

\* A result that says running is being worked on, or its Host has died and none has
\* started since (run background).
THEOREM RunningIsTrue == Spec => []RunningIsBeingRun
<1>1. SchedulerIInv => RunningIsBeingRun
  BY DEF SchedulerIInv
<1> QED
  BY <1>1, SchedulerInvariant, PTL

-----------------------------------------------------------------------------
(* An image batch. *)

\* The worker has an item in hand, and nothing is under way before the submission.
ItemInHand ==
  /\ worker.pc \in {"mark", "send", "store", "record"} => worker.todo # <<>>
  /\ batch = "none" => worker.pc = "none" /\ \A c \in Clients : client[c].pc = "idle"

\* Only the worker finds that a batch has failed, and then no item of it changes any more.
Verdicts ==
  /\ \A c \in Clients : client[c].verdict # "failed"
  /\ worker.pc = "finish" /\ worker.verdict = "failed" =>
       \A i \in B!Rows : items[i] = "failed"
  /\ batch = "failed" => ~B!Working

\* While the Host lives and no output is deleted under the worker: outputs are deleted
\* when no worker is there to make more, so that none is left; and the items that the
\* worker has before it are still in the table.
Undisturbed ==
  ~crashed /\ ~overlapped =>
    /\ (\E c \in Clients : client[c].pc \in {"clear", "remove"}) => files = {} /\ ~B!Working
    /\ B!Working => \A n \in DOMAIN worker.todo : worker.todo[n] \in B!Rows
    /\ B!At("store") => B!Item \in files

BatchIInv ==
  /\ B!TypeOK /\ ItemInHand /\ Verdicts /\ Undisturbed
  /\ OutputsAreOwned /\ WorkIsRecorded

\* The item in hand.
LEMMA HeadOfTodo ==
  ASSUME B!TypeOK, worker.todo # <<>>
  PROVE  /\ B!Item \in Items /\ Tail(worker.todo) \in Seq(Items)
         /\ 1 \in DOMAIN worker.todo /\ B!Item = worker.todo[1]
         /\ \A n \in DOMAIN Tail(worker.todo) :
              n + 1 \in DOMAIN worker.todo /\ Tail(worker.todo)[n] = worker.todo[n + 1]
<1>1. worker.todo \in Seq(Items)
  BY DEF B!TypeOK
<1> QED
  BY <1>1 DEF B!Item

\* What is submitted: a list without a double has all of its items in the table.
LEMMA SubmittedItems ==
  ASSUME NEW ids \in Submissions
  PROVE  LET inserted == {ids[n] : n \in {m \in DOMAIN ids : B!IsInjective(SubSeq(ids, 1, m))}}
         IN  /\ ids \in Seq(Items) /\ ids # <<>>
             /\ inserted # {} /\ inserted \subseteq Items
             /\ B!IsInjective(ids) => \A n \in DOMAIN ids : ids[n] \in inserted
<1> DEFINE inserted == {ids[n] : n \in {m \in DOMAIN ids : B!IsInjective(SubSeq(ids, 1, m))}}
<1>1. ids \in Seq(Items) /\ ids # <<>>
  BY SubmissionsAssumption
<1>2. DOMAIN ids = 1 .. Len(ids) /\ Len(ids) \in Nat /\ 1 \in DOMAIN ids
  BY <1>1
<1>3. ASSUME NEW m \in DOMAIN ids
      PROVE  /\ DOMAIN SubSeq(ids, 1, m) = 1 .. m
             /\ \A n \in 1 .. m : n \in DOMAIN ids /\ SubSeq(ids, 1, m)[n] = ids[n]
  BY <1>1, <1>2
<1>4. B!IsInjective(SubSeq(ids, 1, 1))
  BY <1>2, <1>3 DEF B!IsInjective
<1>5. inserted # {} /\ inserted \subseteq Items
  BY <1>1, <1>2, <1>4
<1>6. ASSUME B!IsInjective(ids), NEW m \in DOMAIN ids
      PROVE  B!IsInjective(SubSeq(ids, 1, m))
  BY <1>3, <1>6 DEF B!IsInjective
<1> QED
  BY <1>1, <1>5, <1>6

\* The types.
LEMMA WorkerStepIsTyped ==
  ASSUME B!TypeOK, ItemInHand, B!WorkerStep
  PROVE  B!TypeOK'
<1>0. /\ worker \in
            [ pc : {"none", "start", "check", "mark", "send", "store", "record",
                    "finish", "done"},
              todo : Seq(Items), verdict : B!Final ]
      /\ items \in [Items -> {"none", "queued", "running"} \cup B!Final]
  BY DEF B!TypeOK
<1>1. ASSUME NEW step \in {"check", "mark", "send", "store", "record", "done"}, B!GoTo(step)
      PROVE  worker' \in
            [ pc : {"none", "start", "check", "mark", "send", "store", "record",
                    "finish", "done"},
              todo : Seq(Items), verdict : B!Final ]
  BY <1>0, <1>1 DEF B!GoTo
<1>2. ASSUME worker.todo # <<>>, B!NextItem
      PROVE  worker' \in
            [ pc : {"none", "start", "check", "mark", "send", "store", "record",
                    "finish", "done"},
              todo : Seq(Items), verdict : B!Final ]
  BY <1>0, <1>2, HeadOfTodo DEF B!NextItem
<1>3. ASSUME NEW status \in {"running", "completed", "failed"}, B!UpdateItem(status),
             worker.todo # <<>>
      PROVE  /\ items' \in [Items -> {"none", "queued", "running"} \cup B!Final]
             /\ B!Rows' = B!Rows
  BY <1>0, <1>3, HeadOfTodo DEF B!UpdateItem, B!Rows, B!Final
<1>4. CASE B!Start
  BY <1>1, <1>4 DEF B!Start, B!TypeOK, B!Exists, B!Rows, B!Final
<1>5. CASE B!Check
  BY <1>1, <1>2, <1>5 DEF B!Check, B!TypeOK, B!Exists, B!Rows
<1>6. CASE B!Mark
  BY <1>1, <1>3, <1>6 DEF B!Mark, B!At, ItemInHand, B!TypeOK, B!Exists
<1>7. CASE B!ItemFails
  BY <1>1, <1>3, <1>7 DEF B!ItemFails, B!At, ItemInHand, B!TypeOK, B!Exists
<1>8. CASE B!StoreOutput
  BY <1>1, <1>8, HeadOfTodo DEF B!StoreOutput, B!At, ItemInHand, B!TypeOK, B!Exists, B!Rows
<1>9. CASE B!ItemCompletes
  BY <1>1, <1>3, <1>9 DEF B!ItemCompletes, B!At, ItemInHand, B!TypeOK, B!Exists
<1>10. CASE B!Record
  BY <1>2, <1>10, HeadOfTodo DEF B!Record, B!At, ItemInHand, B!TypeOK, B!Exists, B!Rows
<1>11. CASE B!Decide
  <2>1. B!WorkerVerdict \in B!Final
    BY DEF B!WorkerVerdict, B!Final
  <2> QED
    BY <1>0, <1>11, <2>1 DEF B!Decide, B!TypeOK, B!Exists, B!Rows
<1>12. CASE B!Finish
  BY <1>0, <1>1, <1>12 DEF B!Finish, B!Settled, B!TypeOK, B!Exists, B!Rows, B!Final
<1> QED
  BY <1>4, <1>5, <1>6, <1>7, <1>8, <1>9, <1>10, <1>11, <1>12 DEF B!WorkerStep

LEMMA ClientStepIsTyped ==
  ASSUME B!TypeOK, NEW c \in Clients, B!ClientStep(c)
  PROVE  B!TypeOK'
<1> DEFINE Requests ==
      [Clients -> [ pc : {"idle", "cancelled", "settle", "clear", "remove"}, verdict : B!Final ]]
<1>0. client \in Requests
  BY DEF B!TypeOK
<1>1. B!Idle \in [ pc : {"idle", "cancelled", "settle", "clear", "remove"}, verdict : B!Final ]
  BY DEF B!Idle, B!Final
<1>2. CASE B!Cancel(c)
  <2>1. client' \in Requests
    BY <1>0, <1>2 DEF B!Cancel
  <2>2. /\ items' \in [Items -> {"none", "queued", "running"} \cup B!Final]
        /\ B!Rows' = B!Rows
    BY <1>2 DEF B!Cancel, B!TypeOK, B!Rows, B!Final
  <2> QED
    BY <1>2, <2>1, <2>2 DEF B!Cancel, B!TypeOK, B!Exists
<1>3. CASE B!CancelDecide(c)
  <2>1. [pc |-> "settle", verdict |-> B!CancelVerdict] \in
          [ pc : {"idle", "cancelled", "settle", "clear", "remove"}, verdict : B!Final ]
    BY DEF B!CancelVerdict, B!Final
  <2>2. client' \in Requests
    BY <1>0, <1>1, <1>3, <2>1 DEF B!CancelDecide
  <2> QED
    BY <1>3, <2>2 DEF B!CancelDecide, B!TypeOK, B!Exists, B!Rows
<1>4. CASE B!CancelSettle(c)
  <2>1. client' \in Requests /\ client[c].verdict \in B!Final
    BY <1>0, <1>1, <1>4 DEF B!CancelSettle
  <2> QED
    BY <1>4, <2>1 DEF B!CancelSettle, B!Settled, B!TypeOK, B!Exists, B!Rows, B!Final
<1>5. CASE B!DeleteFiles(c)
  <2>1. client' \in Requests
    BY <1>0, <1>5 DEF B!DeleteFiles
  <2>2. overlapped' \in BOOLEAN
    BY <1>5 DEF B!DeleteFiles, B!TypeOK, B!Working
  <2> QED
    BY <1>5, <2>1, <2>2 DEF B!DeleteFiles, B!TypeOK, B!Exists, B!Rows
<1>6. CASE B!ClearRefs(c)
  <2>1. client' \in Requests
    BY <1>0, <1>1, <1>6 DEF B!ClearRefs
  <2> QED
    BY <1>6, <2>1 DEF B!ClearRefs, B!TypeOK, B!Exists, B!Rows
<1>7. CASE B!Remove(c)
  <2>1. client' \in Requests
    BY <1>0, <1>1, <1>7 DEF B!Remove
  <2> QED
    BY <1>7, <2>1 DEF B!Remove, B!TypeOK, B!Exists, B!Rows
<1> QED
  BY <1>2, <1>3, <1>4, <1>5, <1>6, <1>7 DEF B!ClientStep

LEMMA SubmitIsTyped ==
  ASSUME B!TypeOK, B!Submit \/ B!Crash
  PROVE  B!TypeOK'
<1>1. CASE B!Submit
  <2>1. PICK ids \in Submissions :
          LET inserted == {ids[n] : n \in {m \in DOMAIN ids :
                                              B!IsInjective(SubSeq(ids, 1, m))}}
          IN  /\ batch' = "queued"
              /\ items' = [i \in Items |-> IF i \in inserted THEN "queued" ELSE "none"]
              /\ worker' = IF B!IsInjective(ids)
                           THEN [B!NoWorker EXCEPT !.pc = "start", !.todo = ids]
                           ELSE worker
    BY <1>1 DEF B!Submit
  <2> DEFINE inserted == {ids[n] : n \in {m \in DOMAIN ids :
                                              B!IsInjective(SubSeq(ids, 1, m))}}
  <2>2. ids \in Seq(Items) /\ inserted # {} /\ inserted \subseteq Items
    BY SubmittedItems
  <2>3. items' = [i \in Items |-> IF i \in inserted THEN "queued" ELSE "none"]
    BY <2>1
  <2> HIDE DEF inserted
  <2>4. B!Rows' = inserted
    BY <2>2, <2>3 DEF B!Rows
  <2>5. worker' \in
            [ pc : {"none", "start", "check", "mark", "send", "store", "record",
                    "finish", "done"},
              todo : Seq(Items), verdict : B!Final ]
    BY <2>1, <2>2 DEF B!NoWorker, B!TypeOK, B!Final
  <2>6. refs = {}
    BY <1>1 DEF B!Submit, B!TypeOK, B!Exists
  <2>7. items' \in [Items -> {"none", "queued", "running"} \cup B!Final]
    BY <2>3
  <2> QED
    BY <1>1, <2>1, <2>2, <2>4, <2>5, <2>6, <2>7 DEF B!Submit, B!TypeOK, B!Exists
<1>2. CASE B!Crash
  BY <1>2 DEF B!Crash, B!NoWorker, B!Idle, B!TypeOK, B!Exists, B!Rows, B!Final
<1> QED
  BY <1>1, <1>2

LEMMA BatchNextIsTyped ==
  ASSUME B!TypeOK, ItemInHand, B!Next
  PROVE  B!TypeOK'
BY WorkerStepIsTyped, ClientStepIsTyped, SubmitIsTyped DEF B!Next

LEMMA NextKeepsItemInHand ==
  ASSUME B!TypeOK, ItemInHand, B!Next
  PROVE  ItemInHand'
<1>0. worker.todo \in Seq(Items) /\ DOMAIN client = Clients /\ DOMAIN worker = {"pc", "todo", "verdict"}
  BY DEF B!TypeOK
<1>1. CASE B!Submit
  <2>1. batch' = "queued" /\ (worker' = worker \/ worker'.pc = "start")
    BY <1>1 DEF B!Submit, B!NoWorker
  <2> QED
    BY <1>1, <2>1 DEF B!Submit, ItemInHand
<1>2. CASE B!WorkerStep
  <2>1. batch # "none"
    BY <1>2 DEF B!WorkerStep, B!Start, B!Check, B!Mark, B!ItemFails, B!StoreOutput,
       B!ItemCompletes, B!Record, B!Decide, B!Finish, B!At, ItemInHand
  <2>2. batch' # "none"
    BY <1>2, <2>1 DEF B!WorkerStep, B!Start, B!Check, B!Mark, B!ItemFails, B!StoreOutput,
       B!ItemCompletes, B!Record, B!Decide, B!Finish, B!Settled, B!Exists, B!TypeOK, B!Final
  <2>3. worker'.pc \in {"mark", "send", "store", "record"} => worker'.todo # <<>>
    BY <1>0, <1>2 DEF B!WorkerStep, B!Start, B!Check, B!Mark, B!ItemFails, B!StoreOutput,
       B!ItemCompletes, B!Record, B!Decide, B!Finish, B!At, B!GoTo, B!NextItem, ItemInHand
  <2> QED
    BY <2>2, <2>3 DEF ItemInHand
<1>3. ASSUME NEW c \in Clients, B!ClientStep(c) PROVE ItemInHand'
  <2>1. UNCHANGED worker
    BY <1>3 DEF B!ClientStep, B!Cancel, B!CancelDecide, B!CancelSettle, B!DeleteFiles,
       B!ClearRefs, B!Remove
  <2>2. batch # "none"
    BY <1>3 DEF B!ClientStep, B!Cancel, B!CancelDecide, B!CancelSettle, B!DeleteFiles,
       B!ClearRefs, B!Remove, B!Exists, ItemInHand
  <2>3. batch' # "none"
    BY <1>3, <2>2 DEF B!ClientStep, B!Cancel, B!CancelDecide, B!CancelSettle, B!DeleteFiles,
       B!ClearRefs, B!Remove, B!Settled, B!Exists, B!TypeOK, B!Final
  <2> QED
    BY <2>1, <2>3 DEF ItemInHand
<1>4. CASE B!Crash
  BY <1>4 DEF B!Crash, B!NoWorker, B!Idle, ItemInHand
<1> QED
  BY <1>1, <1>2, <1>3, <1>4 DEF B!Next

\* Rows that have failed stay as they are while the worker has only its last word to say.
LEMMA NextKeepsVerdicts ==
  ASSUME B!TypeOK, ItemInHand, Verdicts, B!Next
  PROVE  Verdicts'
<1>0. /\ DOMAIN client = Clients /\ DOMAIN worker = {"pc", "todo", "verdict"}
      /\ \A c \in Clients : DOMAIN client[c] = {"pc", "verdict"}
  BY DEF B!TypeOK
<1>1. CASE B!Submit
  <2>1. batch' = "queued" /\ worker.pc = "none" /\ (worker' = worker \/ worker'.pc = "start")
    BY <1>1 DEF B!Submit, B!NoWorker, ItemInHand
  <2> QED
    BY <1>1, <2>1 DEF B!Submit, Verdicts
<1>2. CASE B!WorkerStep
  <2>1. B!Working /\ UNCHANGED client /\ batch # "failed"
    BY <1>2 DEF B!WorkerStep, B!Start, B!Check, B!Mark, B!ItemFails, B!StoreOutput,
       B!ItemCompletes, B!Record, B!Decide, B!Finish, B!At, B!Working, Verdicts
  <2>2. CASE B!Decide
    <3>1. worker'.pc = "finish" /\ worker'.verdict = B!WorkerVerdict /\ UNCHANGED <<batch, items>>
      BY <1>0, <2>2 DEF B!Decide
    <3>2. B!WorkerVerdict = "failed" => \A i \in B!Rows : items[i] = "failed"
      BY DEF B!WorkerVerdict, B!All
    <3> QED
      BY <2>1, <3>1, <3>2 DEF Verdicts, B!Rows
  <2>3. CASE B!Finish
    <3>1. worker'.pc = "done" /\ worker.pc = "finish"
      BY <1>0, <2>3 DEF B!Finish, B!GoTo, B!At
    <3> QED
      BY <2>1, <3>1 DEF Verdicts, B!Working
  <2>4. CASE ~B!Decide /\ ~B!Finish
    <3>1. batch' # "failed" /\ worker'.pc # "finish"
      BY <1>0, <1>2, <2>1, <2>4 DEF B!WorkerStep, B!Start, B!Check, B!Mark, B!ItemFails,
         B!StoreOutput, B!ItemCompletes, B!Record, B!At, B!GoTo, B!NextItem
    <3> QED
      BY <2>1, <3>1 DEF Verdicts
  <2> QED
    BY <2>2, <2>3, <2>4
<1>3. ASSUME NEW c \in Clients, B!ClientStep(c) PROVE Verdicts'
  <2>1. UNCHANGED worker
    BY <1>3 DEF B!ClientStep, B!Cancel, B!CancelDecide, B!CancelSettle, B!DeleteFiles,
       B!ClearRefs, B!Remove
  <2>2. \A k \in Clients : client'[k].verdict # "failed"
    <3>1. B!CancelVerdict # "failed" /\ \A k \in Clients : client[k].verdict # "failed"
      BY DEF B!CancelVerdict, Verdicts
    <3>2. client'[c].verdict # "failed" /\ \A k \in Clients : k # c => client'[k] = client[k]
      BY <1>0, <1>3, <3>1 DEF B!ClientStep, B!Cancel, B!CancelDecide, B!CancelSettle,
         B!DeleteFiles, B!ClearRefs, B!Remove, B!Idle
    <3> QED
      BY <3>1, <3>2
  <2>3. batch' = "failed" => batch = "failed"
    BY <1>3 DEF B!ClientStep, B!Cancel, B!CancelDecide, B!CancelSettle, B!DeleteFiles,
       B!ClearRefs, B!Remove, B!Settled, Verdicts
  <2>4. ASSUME \A i \in B!Rows : items[i] = "failed"
        PROVE  \A i \in B!Rows' : items'[i] = "failed"
    BY <1>3, <2>4 DEF B!ClientStep, B!Cancel, B!CancelDecide, B!CancelSettle, B!DeleteFiles,
       B!ClearRefs, B!Remove, B!Rows
  <2> QED
    BY <2>1, <2>2, <2>3, <2>4 DEF Verdicts, B!Working
<1>4. CASE B!Crash
  BY <1>4 DEF B!Crash, B!NoWorker, B!Idle, B!Working, Verdicts
<1> QED
  BY <1>1, <1>2, <1>3, <1>4 DEF B!Next

LEMMA NextKeepsRecords ==
  ASSUME B!TypeOK, ItemInHand, Verdicts, WorkIsRecorded, B!Next
  PROVE  WorkIsRecorded'
<1>0. /\ items \in [Items -> {"none", "queued", "running"} \cup B!Final]
      /\ DOMAIN worker = {"pc", "todo", "verdict"} /\ worker.todo \in Seq(Items)
  BY DEF B!TypeOK
<1>1. \A i \in Items : items[i] \in {"completed", "failed"} =>
         i \in ledger \/ crashed \/ (worker.pc = "record" /\ i = Head(worker.todo))
  BY DEF WorkIsRecorded, B!WorkIsRecorded, B!At, B!Item
<1>2. batch = "failed" => \A i \in B!Rows : items[i] = "failed"
  BY DEF WorkIsRecorded, B!WorkIsRecorded
<1>3. SUFFICES
         /\ \A i \in Items : items'[i] \in {"completed", "failed"} =>
              i \in ledger' \/ crashed' \/ (worker'.pc = "record" /\ i = Head(worker'.todo))
         /\ batch' = "failed" => \A i \in B!Rows' : items'[i] = "failed"
  BY DEF WorkIsRecorded, B!WorkIsRecorded, B!At, B!Item
<1>4. CASE B!Submit
  BY <1>4 DEF B!Submit
<1>5. CASE B!WorkerStep
  <2>1. B!Working /\ batch # "failed"
    BY <1>5 DEF B!WorkerStep, B!Start, B!Check, B!Mark, B!ItemFails, B!StoreOutput,
       B!ItemCompletes, B!Record, B!Decide, B!Finish, B!At, B!Working, Verdicts
  <2>2. batch' = "failed" => \A i \in B!Rows' : items'[i] = "failed"
    <3>1. CASE B!Finish
      BY <2>1, <3>1 DEF B!Finish, B!Settled, B!At, B!Rows, Verdicts
    <3>2. CASE ~B!Finish
      BY <1>5, <2>1, <3>2 DEF B!WorkerStep, B!Start, B!Check, B!Mark, B!ItemFails,
         B!StoreOutput, B!ItemCompletes, B!Record, B!Decide
    <3> QED
      BY <3>1, <3>2
  <2>3. CASE B!ItemFails \/ B!ItemCompletes
    <3>1. /\ worker'.pc = "record" /\ worker'.todo = worker.todo /\ worker.pc # "record"
          /\ UNCHANGED <<ledger, crashed>>
      BY <1>0, <2>3 DEF B!ItemFails, B!ItemCompletes, B!At, B!GoTo
    <3>2. \A i \in Items : i # Head(worker.todo) => items'[i] = items[i]
      BY <1>0, <2>3 DEF B!ItemFails, B!ItemCompletes, B!UpdateItem, B!Item
    <3> QED
      BY <1>1, <2>2, <3>1, <3>2
  <2>4. CASE B!Record
    <3>1. /\ worker.pc = "record" /\ ledger' = ledger \cup {Head(worker.todo)}
          /\ UNCHANGED <<items, crashed>>
      BY <2>4 DEF B!Record, B!At, B!Item
    <3> QED
      BY <1>1, <2>2, <3>1
  <2>5. CASE B!Mark
    <3>1. /\ worker.pc # "record" /\ UNCHANGED <<ledger, crashed>>
          /\ \A i \in Items : items'[i] = items[i] \/ items'[i] = "running"
      BY <1>0, <2>5 DEF B!Mark, B!At, B!UpdateItem, B!Item
    <3> QED
      BY <1>1, <2>2, <3>1
  <2>6. CASE B!Start \/ B!Check \/ B!StoreOutput \/ B!Decide \/ B!Finish
    <3>1. worker.pc # "record" /\ UNCHANGED <<items, ledger, crashed>>
      BY <2>6 DEF B!Start, B!Check, B!StoreOutput, B!Decide, B!Finish, B!At
    <3> QED
      BY <1>1, <2>2, <3>1
  <2> QED
    BY <1>5, <2>3, <2>4, <2>5, <2>6 DEF B!WorkerStep
<1>6. ASSUME NEW c \in Clients, B!ClientStep(c)
      PROVE  /\ \A i \in Items : items'[i] \in {"completed", "failed"} =>
                  i \in ledger' \/ crashed' \/ (worker'.pc = "record" /\ i = Head(worker'.todo))
             /\ batch' = "failed" => \A i \in B!Rows' : items'[i] = "failed"
  <2>1. /\ UNCHANGED <<worker, ledger, crashed>>
        /\ \A i \in Items : items'[i] = items[i] \/ items'[i] \in {"cancelled", "none"}
    BY <1>6 DEF B!ClientStep, B!Cancel, B!CancelDecide, B!CancelSettle, B!DeleteFiles,
       B!ClearRefs, B!Remove
  <2>2. batch' = "failed" => batch = "failed"
    BY <1>6 DEF B!ClientStep, B!Cancel, B!CancelDecide, B!CancelSettle, B!DeleteFiles,
       B!ClearRefs, B!Remove, B!Settled, Verdicts
  <2>3. ASSUME \A i \in B!Rows : items[i] = "failed"
        PROVE  \A i \in B!Rows' : items'[i] = "failed"
    BY <1>6, <2>3 DEF B!ClientStep, B!Cancel, B!CancelDecide, B!CancelSettle, B!DeleteFiles,
       B!ClearRefs, B!Remove, B!Rows
  <2> QED
    BY <1>1, <1>2, <2>1, <2>2, <2>3
<1>7. CASE B!Crash
  BY <1>2, <1>7 DEF B!Crash, B!Rows
<1> QED
  BY <1>4, <1>5, <1>6, <1>7 DEF B!Next

\* No output is written while others are deleted, and none is deleted that no row refers to.
LEMMA NextKeepsOutputs ==
  ASSUME B!TypeOK, ItemInHand, Undisturbed, OutputsAreOwned, B!Next
  PROVE  Undisturbed' /\ OutputsAreOwned'
<1>0. /\ items \in [Items -> {"none", "queued", "running"} \cup B!Final]
      /\ DOMAIN worker = {"pc", "todo", "verdict"} /\ worker.todo \in Seq(Items)
      /\ DOMAIN client = Clients /\ \A c \in Clients : DOMAIN client[c] = {"pc", "verdict"}
      /\ refs \subseteq B!Rows
  BY DEF B!TypeOK
<1> SUFFICES ASSUME ~crashed', ~overlapped'
             PROVE  Undisturbed' /\ OutputsAreOwned'
  BY DEF Undisturbed, OutputsAreOwned, B!OutputsAreOwned
<1>1. ~crashed /\ ~overlapped
  <2>1. CASE B!Submit \/ B!Crash
    <3>1. CASE B!Submit
      <4>1. UNCHANGED <<crashed, overlapped>>
        BY <3>1, Zenon DEF B!Submit
      <4> QED
        BY <4>1
    <3>2. CASE B!Crash
      BY <3>2 DEF B!Crash
    <3> QED
      BY <2>1, <3>1, <3>2
  <2>2. CASE B!WorkerStep
    <3>1. CASE B!Start \/ B!Check \/ B!Mark \/ B!ItemFails
      BY <3>1 DEF B!Start, B!Check, B!Mark, B!ItemFails
    <3>2. CASE B!StoreOutput \/ B!ItemCompletes \/ B!Record \/ B!Decide \/ B!Finish
      BY <3>2 DEF B!StoreOutput, B!ItemCompletes, B!Record, B!Decide, B!Finish
    <3> QED
      BY <2>2, <3>1, <3>2 DEF B!WorkerStep
  <2>3. ASSUME NEW c \in Clients, B!ClientStep(c) PROVE ~crashed /\ ~overlapped
    <3>1. CASE B!DeleteFiles(c)
      BY <3>1 DEF B!DeleteFiles
    <3>2. CASE ~B!DeleteFiles(c)
      BY <2>3, <3>2 DEF B!ClientStep, B!Cancel, B!CancelDecide, B!CancelSettle, B!ClearRefs,
         B!Remove
    <3> QED
      BY <3>1, <3>2
  <2> QED
    BY <2>1, <2>2, <2>3 DEF B!Next
<1> DEFINE Deleting == \E c \in Clients : client[c].pc \in {"clear", "remove"}
<1>2. /\ Deleting => files = {} /\ ~B!Working
      /\ B!Working => \A n \in DOMAIN worker.todo : worker.todo[n] \in B!Rows
      /\ worker.pc = "store" => B!Item \in files
      /\ files \subseteq refs \cup (IF worker.pc = "store" THEN {B!Item} ELSE {})
      /\ ~Deleting => refs \subseteq files
  BY <1>1 DEF Undisturbed, OutputsAreOwned, B!OutputsAreOwned, B!At
<1>3. SUFFICES
        /\ Deleting' => files' = {} /\ ~B!Working'
        /\ B!Working' => \A n \in DOMAIN worker'.todo : worker'.todo[n] \in B!Rows'
        /\ worker'.pc = "store" => B!Item' \in files'
        /\ files' \subseteq refs' \cup (IF worker'.pc = "store" THEN {B!Item'} ELSE {})
        /\ ~Deleting' => refs' \subseteq files'
  BY DEF Undisturbed, OutputsAreOwned, B!OutputsAreOwned, B!At
<1>4. CASE B!Submit
  <2>1. /\ worker.pc = "none" /\ ~Deleting /\ UNCHANGED <<refs, files, client>>
        /\ refs = {} /\ files = {}
    <3>1. worker.pc = "none" /\ ~Deleting /\ UNCHANGED <<refs, files, client>>
      BY <1>4 DEF B!Submit, ItemInHand
    <3>2. refs = {}
      BY <1>4 DEF B!Submit, B!TypeOK, B!Exists
    <3> QED
      BY <1>2, <3>1, <3>2
  <2>2. PICK ids \in Submissions :
          LET inserted == {ids[n] : n \in {m \in DOMAIN ids :
                                              B!IsInjective(SubSeq(ids, 1, m))}}
          IN  /\ items' = [i \in Items |-> IF i \in inserted THEN "queued" ELSE "none"]
              /\ worker' = IF B!IsInjective(ids)
                           THEN [B!NoWorker EXCEPT !.pc = "start", !.todo = ids]
                           ELSE worker
    BY <1>4 DEF B!Submit
  <2> DEFINE inserted == {ids[n] : n \in {m \in DOMAIN ids :
                                              B!IsInjective(SubSeq(ids, 1, m))}}
  <2>3. /\ inserted \subseteq Items
        /\ B!IsInjective(ids) => \A n \in DOMAIN ids : ids[n] \in inserted
    BY SubmittedItems
  <2>4. items' = [i \in Items |-> IF i \in inserted THEN "queued" ELSE "none"]
    BY <2>2
  <2> HIDE DEF inserted
  <2>5. B!Rows' = inserted
    BY <2>3, <2>4 DEF B!Rows
  <2>6. CASE B!IsInjective(ids)
    <3>1. worker'.pc = "start" /\ worker'.todo = ids
      BY <2>2, <2>6 DEF B!NoWorker
    <3> QED
      BY <2>1, <2>3, <2>5, <2>6, <3>1
  <2>7. CASE ~B!IsInjective(ids)
    BY <2>1, <2>2, <2>7 DEF B!Working
  <2> QED
    BY <2>6, <2>7
<1>5. CASE B!WorkerStep
  <2>1. B!Working /\ UNCHANGED client /\ ~Deleting /\ ~Deleting'
    <3>1. B!Working /\ UNCHANGED client
      BY <1>5 DEF B!WorkerStep, B!Start, B!Check, B!Mark, B!ItemFails, B!StoreOutput,
         B!ItemCompletes, B!Record, B!Decide, B!Finish, B!At, B!Working
    <3> QED
      BY <1>2, <3>1
  <2>2. B!Rows' = B!Rows
    <3>1. CASE UNCHANGED items
      BY <3>1 DEF B!Rows
    <3>2. ASSUME NEW status \in {"running", "completed", "failed"}, B!UpdateItem(status)
          PROVE  B!Rows' = B!Rows
      BY <1>0, <3>2 DEF B!UpdateItem, B!Rows
    <3>3. UNCHANGED items \/ \E status \in {"running", "completed", "failed"} : B!UpdateItem(status)
      BY <1>5 DEF B!WorkerStep, B!Start, B!Check, B!Mark, B!ItemFails, B!StoreOutput,
         B!ItemCompletes, B!Record, B!Decide, B!Finish
    <3> QED
      BY <3>1, <3>2, <3>3
  <2>3. \A n \in DOMAIN worker'.todo : worker'.todo[n] \in B!Rows
    <3>1. CASE worker'.todo = worker.todo
      BY <1>2, <2>1, <3>1
    <3>2. CASE worker.todo # <<>> /\ worker'.todo = Tail(worker.todo)
      BY <1>2, <2>1, <3>2, HeadOfTodo
    <3>3. worker'.todo = worker.todo \/ (worker.todo # <<>> /\ worker'.todo = Tail(worker.todo))
      BY <1>0, <1>5 DEF B!WorkerStep, B!Start, B!Check, B!Mark, B!ItemFails, B!StoreOutput,
         B!ItemCompletes, B!Record, B!Decide, B!Finish, B!GoTo, B!NextItem, B!At, ItemInHand
    <3> QED
      BY <3>1, <3>2, <3>3
  <2>4. CASE B!StoreOutput
    <3>1. /\ worker.pc = "send" /\ worker'.pc = "store" /\ B!Item' = B!Item
          /\ UNCHANGED refs /\ files' = files \cup {B!Item}
      BY <1>0, <2>4 DEF B!StoreOutput, B!GoTo, B!At, B!Item
    <3> QED
      BY <1>2, <2>1, <2>2, <2>3, <3>1
  <2>5. CASE B!ItemCompletes
    <3>1. /\ worker.pc = "store" /\ worker'.pc = "record" /\ UNCHANGED files
          /\ refs' = refs \cup ({B!Item} \cap B!Rows)
      BY <1>0, <2>5 DEF B!ItemCompletes, B!GoTo, B!At
    <3>2. B!Item \in B!Rows
      BY <1>2, <2>1, <3>1, HeadOfTodo DEF ItemInHand
    <3> QED
      BY <1>2, <2>1, <2>2, <2>3, <3>1, <3>2
  <2>6. CASE ~B!StoreOutput /\ ~B!ItemCompletes
    <3>1. worker.pc # "store" /\ worker'.pc # "store" /\ UNCHANGED <<refs, files>>
      BY <1>0, <1>5, <2>6 DEF B!WorkerStep, B!Start, B!Check, B!Mark, B!ItemFails, B!Record,
         B!Decide, B!Finish, B!GoTo, B!NextItem, B!At
    <3> QED
      BY <1>2, <2>1, <2>2, <2>3, <3>1
  <2> QED
    BY <2>4, <2>5, <2>6
<1>6. ASSUME NEW c \in Clients, B!ClientStep(c)
      PROVE  /\ Deleting' => files' = {} /\ ~B!Working'
             /\ B!Working' => \A n \in DOMAIN worker'.todo : worker'.todo[n] \in B!Rows'
             /\ worker'.pc = "store" => B!Item' \in files'
             /\ files' \subseteq refs' \cup (IF worker'.pc = "store" THEN {B!Item'} ELSE {})
             /\ ~Deleting' => refs' \subseteq files'
  <2>1. UNCHANGED worker /\ B!Item' = B!Item /\ B!Working' = B!Working
    BY <1>6 DEF B!ClientStep, B!Cancel, B!CancelDecide, B!CancelSettle, B!DeleteFiles,
       B!ClearRefs, B!Remove, B!Item, B!Working
  <2>2. CASE B!Cancel(c) \/ B!CancelDecide(c) \/ B!CancelSettle(c)
    <3>1. UNCHANGED <<refs, files>> /\ B!Rows' = B!Rows
      BY <1>0, <2>2 DEF B!Cancel, B!CancelDecide, B!CancelSettle, B!Rows
    <3>2. Deleting' <=> Deleting
      <4>1. client[c].pc \notin {"clear", "remove"} /\ client'[c].pc \notin {"clear", "remove"}
            /\ \A k \in Clients : k # c => client'[k] = client[k]
        BY <1>0, <2>2 DEF B!Cancel, B!CancelDecide, B!CancelSettle, B!Idle
      <4> QED
        BY <4>1
    <3> QED
      BY <1>2, <2>1, <3>1, <3>2
  <2>3. CASE B!DeleteFiles(c)
    <3>1. /\ ~B!Working /\ files' = files \ refs /\ Deleting' /\ UNCHANGED refs
      BY <1>0, <2>3 DEF B!DeleteFiles, B!Working
    <3>2. worker.pc # "store"
      BY <3>1 DEF B!Working
    <3> QED
      BY <1>2, <2>1, <3>1, <3>2
  <2>4. CASE B!ClearRefs(c) \/ B!Remove(c)
    <3>1. Deleting /\ refs' = {} /\ UNCHANGED files
      BY <2>4 DEF B!ClearRefs, B!Remove
    <3>2. worker.pc # "store" /\ ~B!Working /\ files = {}
      BY <1>2, <3>1 DEF B!Working
    <3> QED
      BY <2>1, <3>1, <3>2
  <2> QED
    BY <1>6, <2>2, <2>3, <2>4 DEF B!ClientStep
<1>7. CASE B!Crash
  BY <1>7 DEF B!Crash
<1> QED
  BY <1>4, <1>5, <1>6, <1>7 DEF B!Next

\* What an image batch keeps true: its types, the verdicts that may be given, the work that
\* is recorded, and whose the outputs are.
THEOREM BatchInvariant == B!Spec => []BatchIInv
<1>1. B!Init => BatchIInv
  <2> SUFFICES ASSUME B!Init PROVE BatchIInv
    OBVIOUS
  <2>1. B!TypeOK
    <3>1. B!NoWorker \in
            [ pc : {"none", "start", "check", "mark", "send", "store", "record",
                    "finish", "done"},
              todo : Seq(Items), verdict : B!Final ]
      BY DEF B!NoWorker, B!Final
    <3>2. client \in
            [ Clients -> [ pc : {"idle", "cancelled", "settle", "clear", "remove"},
                           verdict : B!Final ] ]
      BY DEF B!Init, B!Idle, B!Final
    <3>3. B!Rows = {} /\ ~B!Exists
      BY DEF B!Init, B!Rows, B!Exists
    <3> QED
      BY <3>1, <3>2, <3>3 DEF B!Init, B!TypeOK
  <2>2. ItemInHand /\ Verdicts /\ Undisturbed
    BY DEF B!Init, B!NoWorker, B!Idle, ItemInHand, Verdicts, Undisturbed, B!Working, B!At
  <2>3. OutputsAreOwned /\ WorkIsRecorded
    BY DEF B!Init, B!NoWorker, B!Idle, OutputsAreOwned, B!OutputsAreOwned, WorkIsRecorded,
       B!WorkIsRecorded, B!At
  <2> QED
    BY <2>1, <2>2, <2>3 DEF BatchIInv
<1>2. BatchIInv /\ [B!Next]_(B!vars) => BatchIInv'
  <2>1. ASSUME BatchIInv, UNCHANGED B!vars PROVE BatchIInv'
    BY <2>1 DEF B!vars, BatchIInv, B!TypeOK, B!Exists, B!Rows, ItemInHand, Verdicts,
       Undisturbed, B!Working, B!At, B!Item, OutputsAreOwned, B!OutputsAreOwned,
       WorkIsRecorded, B!WorkIsRecorded
  <2>2. ASSUME BatchIInv, B!Next PROVE BatchIInv'
    BY <2>2, BatchNextIsTyped, NextKeepsItemInHand, NextKeepsVerdicts, NextKeepsRecords,
       NextKeepsOutputs DEF BatchIInv
  <2> QED
    BY <2>1, <2>2
<1> QED
  BY <1>1, <1>2, PTL DEF B!Spec

\* Every output file is referred to by its item and every reference names a file, unless
\* the Host died or outputs were deleted under the worker (run background).
THEOREM OutputsOwned == B!Spec => []OutputsAreOwned
<1>1. BatchIInv => OutputsAreOwned
  BY DEF BatchIInv
<1> QED
  BY <1>1, BatchInvariant, PTL

\* Work that was done is in the ledger, and a batch says that it failed only when all of
\* its items have (run background).
THEOREM WorkRecorded == B!Spec => []WorkIsRecorded
<1>1. BatchIInv => WorkIsRecorded
  BY DEF BatchIInv
<1> QED
  BY <1>1, BatchInvariant, PTL
=============================================================================
