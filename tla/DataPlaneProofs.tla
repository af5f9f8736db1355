--------------------------- MODULE DataPlaneProofs ---------------------------
(***************************************************************************)
(* Proofs about the data plane, for any number of requests, pools, keys    *)
(* and published tables: type correctness, and the four safety properties  *)
(* that the run DataPlaneSafety checks on a small instance.  One inductive *)
(* invariant carries them all.  Behind them, with an invariant of its own, *)
(* the deployment of routes, for any configurations, channels, accounts,   *)
(* models, applies and failures.                                           *)
(***************************************************************************)
EXTENDS MCDataPlane, WellFoundedInduction, TLAPS

\* A request has an answer exactly when it is done.  OneTerminalSpan and
\* LedgerTellsTheAnswer are inductive only together with this.
AnsweredWhenDone ==
  \A r \in Requests : req[r].answer = "none" <=> req[r].pc # "done"

\* A request with a model that is on its way is on its way to a pool.
ModelHasPool ==
  \A r \in Requests :
    (req[r].pc \in {"selected", "sent", "streaming"} /\ req[r].model # NoModel) =>
      req[r].pool \in Pools

IInv ==
  /\ TypeOK
  /\ ModelHasPool
  /\ AnsweredWhenDone
  /\ NoPoolTriedTwice
  /\ OneTerminalSpan
  /\ LedgerTellsTheAnswer

-----------------------------------------------------------------------------
\* What select_pool returns: an available pool of the table that this request
\* has not failed on, whatever the conversation is bound to.
LEMMA SelectedIsEligible ==
  ASSUME NEW t \in RouteTables, NEW m, NEW bound, NEW exclude,
         NEW p \in SelectPool(t, m, bound, exclude)
  PROVE  /\ p \in Pools
         /\ p \in t.available
         /\ p \notin exclude
<1>1. p \in Eligible(t, m, exclude)
  BY DEF SelectPool
<1>2. Eligible(t, m, exclude) \subseteq (t.available \cap t.listed) \ exclude
  BY DEF Eligible, PoolsFor
<1>3. t.listed \subseteq Pools
  BY DEF RouteTables
<1> QED
  BY <1>1, <1>2, <1>3

\* Publishing, filtering and restarting keep the tables well formed.
LEMMA ViewIsATable ==
  ASSUME TypeOK, NEW q \in Request
  PROVE  View(q) \in RouteTables
<1>1. table \in RouteTables
  BY DEF TypeOK
<1>2. ASSUME NEW pr PROVE FilteredByProvider(table, pr) \in RouteTables
  BY <1>1 DEF FilteredByProvider, RouteTables
<1> QED
  BY <1>1, <1>2 DEF View

\* What a step of one request must do for the invariant: it keeps the other
\* requests, the bindings' type and the ledger rows of other ids, and leaves
\* the request itself in a state the invariant allows.
StepOf(r, q) ==
  /\ req' = [req EXCEPT ![r] = q]
  /\ q \in Request
  /\ q.answer = "none" <=> q.pc # "done"
  /\ q.pc \in {"selected", "sent", "streaming"} => q.pool \notin q.failed
  /\ (q.pc \in {"selected", "sent", "streaming"} /\ q.model # NoModel) =>
       q.pool \in Pools
  /\ req[r].pc # "done"
  /\ q.answer # "lost"
  /\ spans' = IF q.pc = "done" THEN [spans EXCEPT ![r] = @ + 1] ELSE spans
  /\ \/ RowFor(q.answer) = "none" /\ ledger' = ledger
     \/ RecordLedger(r, RowFor(q.answer))
  /\ bindings' \in [Keys -> Pools \cup {NoPool}]
  /\ UNCHANGED <<table, resyncs, restarts>>

\* LedgerTellsTheAnswer, row by row and without sets.
LedgerTells(i) ==
  /\ ledger[i] = "none" =>
       \A s \in Requests : IdOf[s] = i => RowFor(req[s].answer) = "none"
  /\ ledger[i] # "none" =>
       \E s \in Requests : IdOf[s] = i /\ RowFor(req[s].answer) = ledger[i]

LEMMA LedgerSplit ==
  /\ LedgerTellsTheAnswer <=> \A i \in RequestIds : LedgerTells(i)
  /\ LedgerTellsTheAnswer' <=> \A i \in RequestIds : LedgerTells(i)'
BY DEF LedgerTellsTheAnswer, LedgerTells

\* Only requests and ledger matter to it.
LEMMA LedgerFramed ==
  ASSUME LedgerTellsTheAnswer, UNCHANGED <<req, ledger>>
  PROVE  LedgerTellsTheAnswer'
BY LedgerSplit DEF LedgerTells

\* Any such step preserves the invariant.
LEMMA StepKeepsIInv ==
  ASSUME IInv, NEW r \in Requests, NEW q, StepOf(r, q)
  PROVE  IInv'
<1> USE DataPlaneAssumption
<1>1. TypeOK'
  <2>1. RowFor(q.answer) \in Rows
    BY DEF RowFor, Rows
  <2>2. ledger' \in [RequestIds -> Rows]
    BY <2>1 DEF StepOf, RecordLedger, IInv, TypeOK, Rows
  <2>3. spans' \in [Requests -> Nat]
    BY DEF StepOf, IInv, TypeOK
  <2> QED
    BY <2>2, <2>3 DEF StepOf, IInv, TypeOK
<1>2. \A s \in Requests : req'[s] = IF s = r THEN q ELSE req[s]
  BY DEF StepOf, IInv, TypeOK
<1>3. AnsweredWhenDone'
  BY <1>2 DEF StepOf, IInv, AnsweredWhenDone
<1>4. NoPoolTriedTwice'
  BY <1>2 DEF StepOf, IInv, NoPoolTriedTwice
<1>7. ModelHasPool'
  BY <1>2 DEF StepOf, IInv, ModelHasPool
<1>5. OneTerminalSpan'
  <2>1. spans[r] = 0
    BY DEF StepOf, IInv, OneTerminalSpan
  <2>2. spans'[r] = IF q.pc = "done" THEN 1 ELSE 0
    BY <2>1 DEF StepOf, IInv, TypeOK
  <2>3. \A s \in Requests \ {r} : spans'[s] = spans[s]
    BY DEF StepOf, IInv, TypeOK
  <2> QED
    BY <1>2, <2>2, <2>3 DEF StepOf, IInv, OneTerminalSpan
<1>6. LedgerTellsTheAnswer'
  <2> SUFFICES ASSUME NEW i \in RequestIds PROVE LedgerTells(i)'
    BY LedgerSplit
  <2>0. LedgerTells(i) /\ ledger \in [RequestIds -> Rows] /\ IdOf[r] \in RequestIds
    BY LedgerSplit DEF IInv, TypeOK
  <2>1. RowFor(req[r].answer) = "none"
    BY DEF StepOf, IInv, AnsweredWhenDone, RowFor
  <2>2. \A s \in Requests : s # r => req'[s] = req[s]
    BY <1>2
  <2>3. req'[r] = q
    BY <1>2
  <2>4. CASE i # IdOf[r]
    <3>1. ledger'[i] = ledger[i]
      BY <2>0, <2>4 DEF StepOf, RecordLedger
    <3>2. \A s \in Requests : IdOf[s] = i => req'[s] = req[s]
      BY <2>2, <2>4
    <3> QED
      BY <2>0, <3>1, <3>2 DEF LedgerTells
  <2>5. CASE i = IdOf[r] /\ RowFor(q.answer) = "none" /\ ledger' = ledger
    BY <2>0, <2>1, <2>2, <2>3, <2>5 DEF LedgerTells
  <2>6. CASE i = IdOf[r] /\ RecordLedger(r, RowFor(q.answer)) /\ ledger[i] = "none"
    <3>1. ledger'[i] = RowFor(q.answer)
      BY <2>0, <2>6 DEF RecordLedger
    <3> QED
      BY <2>0, <2>2, <2>3, <2>6, <3>1 DEF LedgerTells
  <2>7. CASE i = IdOf[r] /\ RecordLedger(r, RowFor(q.answer)) /\ ledger[i] # "none"
    <3>1. ledger' = ledger
      BY <2>7 DEF RecordLedger
    <3>2. PICK s \in Requests : IdOf[s] = i /\ RowFor(req[s].answer) = ledger[i]
      BY <2>0, <2>7 DEF LedgerTells
    <3>3. s # r
      BY <2>1, <2>7, <3>2
    <3> QED
      BY <2>2, <2>7, <3>1, <3>2, <3>3 DEF LedgerTells
  <2> QED
    BY <2>4, <2>5, <2>6, <2>7 DEF StepOf
<1> QED
  BY <1>1, <1>3, <1>4, <1>5, <1>6, <1>7 DEF IInv

-----------------------------------------------------------------------------
\* Every action of a request is a StepOf.

LEMMA EntrySteps ==
  ASSUME IInv, NEW r \in Requests, Arrive(r) \/ AnswerAtIngress(r) \/ PassThrough(r)
  PROVE  IInv'
<1> USE DataPlaneAssumption
<1>0. req[r] \in Request /\ req \in [Requests -> Request]
  BY DEF IInv, TypeOK
<1>1. CASE Arrive(r)
  <2>1. PICK m \in Models \cup {NoModel}, k \in Keys \cup {NoKey}, s \in Surfaces :
          req' = [req EXCEPT ![r].pc = "planning", ![r].model = m, ![r].key = k,
                             ![r].surface = s]
    BY <1>1 DEF Arrive
  <2> DEFINE q == [req[r] EXCEPT !.pc = "planning", !.model = m, !.key = k,
                                 !.surface = s]
  <2>2. StepOf(r, q)
    BY <1>0, <1>1, <2>1
       DEF Arrive, StepOf, IInv, TypeOK, AnsweredWhenDone, Request, RowFor
  <2> QED
    BY <2>2, StepKeepsIInv
<1>2. CASE AnswerAtIngress(r)
  <2> DEFINE q == [req[r] EXCEPT !.pc = "done", !.answer = "ingress"]
  <2>1. StepOf(r, q)
    BY <1>0, <1>2
       DEF AnswerAtIngress, Finish, StepOf, IInv, TypeOK, Request, Answers, RowFor
  <2> QED
    BY <2>1, StepKeepsIInv
<1>3. CASE PassThrough(r)
  <2> DEFINE q == [req[r] EXCEPT !.pc = "selected", !.pool = NoPool,
                                 !.carries = req[r].key # NoKey]
  <2>1. NoPool \notin req[r].failed
    BY <1>0, RoutingAssumption DEF Request
  <2>2. StepOf(r, q)
    BY <1>0, <1>3, <2>1
       DEF PassThrough, StepOf, IInv, TypeOK, AnsweredWhenDone, Request, RowFor
  <2> QED
    BY <2>2, StepKeepsIInv
<1> QED
  BY <1>1, <1>2, <1>3

LEMMA PlanSteps ==
  ASSUME IInv, NEW r \in Requests, PlanSelect(r) \/ PlanReject(r)
  PROVE  IInv'
<1> USE DataPlaneAssumption
<1>0. req[r] \in Request /\ req \in [Requests -> Request]
  BY DEF IInv, TypeOK
<1> DEFINE bound == Bound(req[r].key)
           view == View(req[r])
<1>1. view \in RouteTables
  BY <1>0, ViewIsATable DEF IInv
<1>2. CASE PlanSelect(r)
  <2>1. PICK p \in SelectPool(view, req[r].model, bound, req[r].failed) :
          LET drop == ShouldDropPreviousResponse(view, bound, p)
          IN  req' = [req EXCEPT
                       ![r].pc = "selected",
                       ![r].pool = p,
                       ![r].carries = req[r].key # NoKey /\ ~drop,
                       ![r].stripped = IF drop THEN @ \cup {ProviderOf[p]} ELSE @]
    BY <1>2 DEF PlanSelect
  <2>2. p \in Pools /\ p \notin req[r].failed
    BY <1>1, <2>1, SelectedIsEligible
  <2>3. ProviderOf[p] \in Providers
    BY <2>2, RoutingAssumption
  <2> DEFINE drop == ShouldDropPreviousResponse(view, bound, p)
             keeps == req[r].key # NoKey /\ ~drop
             strip == IF drop THEN req[r].stripped \cup {ProviderOf[p]}
                      ELSE req[r].stripped
             q == [req[r] EXCEPT !.pc = "selected", !.pool = p,
                                 !.carries = keeps, !.stripped = strip]
  <2>4. keeps \in BOOLEAN /\ strip \in SUBSET Providers
    BY <1>0, <2>3 DEF Request
  <2>5. req' = [req EXCEPT ![r] = q]
    BY <1>0, <2>1
  <2> HIDE DEF keeps, strip, drop
  <2>6. StepOf(r, q)
    BY <1>0, <1>2, <2>2, <2>4, <2>5
       DEF PlanSelect, StepOf, IInv, TypeOK, AnsweredWhenDone, Request, RowFor
  <2> QED
    BY <2>6, StepKeepsIInv
<1>3. CASE PlanReject(r)
  <2> DEFINE answer == IF PoolsFor(view, req[r].model) = {} THEN "no_route"
                       ELSE IF OwnerGone(view, bound, {}) THEN "owner_removed"
                       ELSE "no_credential"
             q == [req[r] EXCEPT !.pc = "done", !.answer = answer]
  <2>1. answer \in {"no_route", "owner_removed", "no_credential"}
    OBVIOUS
  <2>2. req' = [req EXCEPT ![r] = q] /\ spans' = [spans EXCEPT ![r] = @ + 1]
    BY <1>0, <1>3 DEF PlanReject, Finish
  <2> HIDE DEF answer
  <2>3. StepOf(r, q)
    BY <1>0, <1>3, <2>1, <2>2
       DEF PlanReject, StepOf, IInv, TypeOK, Request, Answers, RowFor
  <2> QED
    BY <2>3, StepKeepsIInv
<1> QED
  BY <1>2, <1>3

LEMMA BindingSteps ==
  ASSUME IInv, NEW r \in Requests, BindAndSend(r) \/ BindAndCompact(r)
  PROVE  IInv'
<1> USE DataPlaneAssumption
<1>0. req[r] \in Request /\ req \in [Requests -> Request]
  BY DEF IInv, TypeOK
<1>1. Bind(req[r]) => bindings' \in [Keys -> Pools \cup {NoPool}]
  BY <1>0 DEF Bind, IInv, TypeOK, Request
<1>2. CASE BindAndSend(r)
  <2> DEFINE q == [req[r] EXCEPT !.pc = "sent"]
  <2>1. StepOf(r, q)
    BY <1>0, <1>1, <1>2
       DEF BindAndSend, StepOf, IInv, TypeOK, AnsweredWhenDone, NoPoolTriedTwice,
           ModelHasPool, Request, RowFor
  <2> QED
    BY <2>1, StepKeepsIInv
<1>3. CASE BindAndCompact(r)
  <2> DEFINE q == [req[r] EXCEPT !.pc = "done", !.answer = "ok"]
  <2>1. RowFor("ok") = "completed"
    BY DEF RowFor
  <2>2. StepOf(r, q)
    BY <1>0, <1>1, <1>3, <2>1
       DEF BindAndCompact, Finish, StepOf, IInv, TypeOK, Request, Answers
  <2> QED
    BY <2>2, StepKeepsIInv
<1> QED
  BY <1>2, <1>3

LEMMA ReplySteps ==
  ASSUME IInv, NEW r \in Requests,
         FailOver(r) \/ AnswerReply(r) \/ StartStream(r) \/ EndStream(r)
  PROVE  IInv'
<1> USE DataPlaneAssumption
<1>0. req[r] \in Request /\ req \in [Requests -> Request]
  BY DEF IInv, TypeOK
<1>1. CASE FailOver(r)
  <2>1. PICK reply \in RepliesOf[req[r].pool] :
          /\ ShouldFailover(req[r], reply)
          /\ req' = [req EXCEPT ![r] =
                      [req[r] EXCEPT !.pc = "planning", !.failed = Excluded(req[r]),
                                     !.served = @ \/ reply = "ok_mentions"]]
    BY <1>1 DEF FailOver
  <2> DEFINE once == req[r].served \/ reply = "ok_mentions"
             q == [req[r] EXCEPT !.pc = "planning", !.failed = Excluded(req[r]),
                                 !.served = once]
  <2>2. Excluded(req[r]) \in SUBSET Pools
    BY <1>0, <1>1, <2>1
       DEF FailOver, ShouldFailover, Excluded, IInv, ModelHasPool, Request
  <2>3. once \in BOOLEAN
    BY <1>0 DEF Request
  <2>4. req' = [req EXCEPT ![r] = q]
    BY <1>0, <2>1
  <2> HIDE DEF once
  <2>5. StepOf(r, q)
    BY <1>0, <1>1, <2>2, <2>3, <2>4
       DEF FailOver, StepOf, IInv, TypeOK, AnsweredWhenDone, Request, RowFor
  <2> QED
    BY <2>5, StepKeepsIInv
<1>2. CASE AnswerReply(r)
  <2>1. PICK reply \in RepliesOf[req[r].pool] \ {"stream"} :
          LET success == reply \in {"ok", "ok_mentions"}
          IN  /\ RecordLedger(r, IF success THEN "completed" ELSE "failed")
              /\ Finish(r, [req[r] EXCEPT !.served = @ \/ success],
                        AnswerTo(req[r], reply))
    BY <1>2 DEF AnswerReply
  <2> DEFINE success == reply \in {"ok", "ok_mentions"}
             once == req[r].served \/ success
             answer == AnswerTo(req[r], reply)
             q == [req[r] EXCEPT !.served = once, !.pc = "done", !.answer = answer]
  <2>2. /\ answer \in {"ok", "cli_down", "interrupted", "exhausted",
                       "upstream_error"}
        /\ RowFor(answer) = IF success THEN "completed" ELSE "failed"
    BY DEF AnswerTo, RowFor
  <2>3. once \in BOOLEAN
    BY <1>0 DEF Request
  <2>4. /\ req' = [req EXCEPT ![r] = q]
        /\ spans' = [spans EXCEPT ![r] = @ + 1]
        /\ RecordLedger(r, RowFor(answer))
    BY <1>0, <2>1, <2>2 DEF Finish
  <2> HIDE DEF once, answer
  <2>5. q \in Request
    BY <1>0, <2>2, <2>3 DEF Request, Answers
  <2>6. StepOf(r, q)
    BY <1>0, <1>2, <2>2, <2>4, <2>5
       DEF AnswerReply, StepOf, IInv, TypeOK, Request
  <2> QED
    BY <2>6, StepKeepsIInv
<1>3. CASE StartStream(r)
  <2> DEFINE q == [req[r] EXCEPT !.pc = "streaming", !.served = TRUE]
  <2>1. StepOf(r, q)
    BY <1>0, <1>3
       DEF StartStream, StepOf, IInv, TypeOK, AnsweredWhenDone, NoPoolTriedTwice,
           ModelHasPool, Request, RowFor
  <2> QED
    BY <2>1, StepKeepsIInv
<1>4. CASE EndStream(r)
  <2>1. PICK completed \in BOOLEAN :
          /\ RecordLedger(r, IF completed THEN "completed" ELSE "failed")
          /\ Finish(r, req[r], IF completed THEN "ok" ELSE "interrupted")
    BY <1>4 DEF EndStream
  <2> DEFINE answer == IF completed THEN "ok" ELSE "interrupted"
             q == [req[r] EXCEPT !.pc = "done", !.answer = answer]
  <2>2. RowFor(answer) = IF completed THEN "completed" ELSE "failed"
    BY DEF RowFor
  <2>3. StepOf(r, q)
    BY <1>0, <1>4, <2>1, <2>2
       DEF EndStream, Finish, StepOf, IInv, TypeOK, Request, Answers
  <2> QED
    BY <2>3, StepKeepsIInv
<1> QED
  BY <1>1, <1>2, <1>3, <1>4

LEMMA AbortSteps ==
  ASSUME IInv, NEW r \in Requests, ClientAbort(r)
  PROVE  IInv'
<1> USE DataPlaneAssumption
<1>0. req[r] \in Request /\ req \in [Requests -> Request]
  BY DEF IInv, TypeOK
<1> DEFINE q == [req[r] EXCEPT !.pc = "done", !.answer = "cancelled"]
<1>1. /\ req[r].pc \in {"sent", "streaming"} /\ req' = [req EXCEPT ![r] = q]
      /\ spans' = [spans EXCEPT ![r] = @ + 1]
      /\ UNCHANGED <<table, bindings, ledger, resyncs, restarts>>
  BY DEF ClientAbort, Finish
<1>2. /\ q \in Request /\ q.pc = "done" /\ q.answer = "cancelled"
      /\ RowFor(q.answer) = "none" /\ bindings \in [Keys -> Pools \cup {NoPool}]
  BY <1>0 DEF IInv, TypeOK, Request, Answers, RowFor
<1>3. StepOf(r, q)
  BY <1>1, <1>2 DEF StepOf
<1> QED
  BY <1>3, StepKeepsIInv

\* A restart answers nobody: every task in flight is lost without a span and
\* without a row, which is what the invariant says of a lost request.
LEMMA RestartKeepsIInv ==
  ASSUME IInv, Restart
  PROVE  IInv'
<1> USE DataPlaneAssumption
<1>0. req \in [Requests -> Request]
  BY DEF IInv, TypeOK
<1> DEFINE lost(s) == [req[s] EXCEPT !.pc = "done", !.answer = "lost"]
<1>1. /\ req' = [s \in Requests |-> IF InFlight(s) THEN lost(s) ELSE req[s]]
      /\ UNCHANGED <<ledger, spans>>
  BY DEF Restart
<1>2. ASSUME NEW s \in Requests
      PROVE  /\ lost(s) \in Request
             /\ lost(s).pc = "done"
             /\ lost(s).answer = "lost"
  <2>1. req[s] \in Request
    BY <1>0
  <2> QED
    BY <2>1 DEF Request, Answers
<1> HIDE DEF lost
<1>3. TypeOK'
  <2>1. table' \in RouteTables /\ bindings' \in [Keys -> Pools \cup {NoPool}]
    BY DEF Restart
  <2> DEFINE after(s) == IF InFlight(s) THEN lost(s) ELSE req[s]
  <2>2. \A s \in Requests : after(s) \in Request
    BY <1>0, <1>2
  <2>6. req' = [s \in Requests |-> after(s)]
    BY <1>1
  <2> HIDE DEF after
  <2>5. req' \in [Requests -> Request]
    BY <2>2, <2>6
  <2>3. ledger' \in [RequestIds -> Rows] /\ spans' \in [Requests -> Nat]
    BY <1>1 DEF IInv, TypeOK
  <2>7. resyncs' = resyncs /\ restarts' = restarts + 1
    BY DEF Restart
  <2>4. resyncs' \in Nat /\ restarts' \in Nat
    BY <2>7 DEF IInv, TypeOK
  <2> QED
    BY <2>1, <2>3, <2>4, <2>5 DEF TypeOK
<1>4. ASSUME NEW s \in Requests
      PROVE  \/ req'[s] = req[s]
             \/ /\ req[s].pc # "done"
                /\ req'[s].pc = "done"
                /\ req'[s].answer = "lost"
  BY <1>1, <1>2 DEF InFlight
<1>5. AnsweredWhenDone' /\ NoPoolTriedTwice' /\ ModelHasPool'
  BY <1>4 DEF IInv, AnsweredWhenDone, NoPoolTriedTwice, ModelHasPool
<1>6. OneTerminalSpan'
  BY <1>1, <1>4 DEF IInv, OneTerminalSpan
<1>7. LedgerTellsTheAnswer'
  <2>1. \A s \in Requests : RowFor(req'[s].answer) = RowFor(req[s].answer)
    BY <1>4 DEF IInv, AnsweredWhenDone, RowFor
  <2>2. \A i \in RequestIds : LedgerTells(i)'
    BY <1>1, <2>1, LedgerSplit DEF IInv, LedgerTells
  <2> QED
    BY <2>2, LedgerSplit
<1> QED
  BY <1>3, <1>5, <1>6, <1>7 DEF IInv

-----------------------------------------------------------------------------
\* Type correctness and the safety of the data plane: a request never returns
\* to a pool that failed it, writes its terminal span exactly once, and leaves
\* the ledger row of its answer, for every instance of the constants.
THEOREM DataPlaneIsSafe == Spec => []IInv
<1> USE DataPlaneAssumption
<1>1. Init => IInv
  <2> SUFFICES ASSUME Init PROVE IInv
    OBVIOUS
  <2>1. \A i \in RequestIds : LedgerTells(i)
    BY DEF Init, LedgerTells, RowFor
  <2>2. LedgerTellsTheAnswer
    BY <2>1, LedgerSplit
  <2> QED
    BY <2>2 DEF Init, IInv, TypeOK, AnsweredWhenDone, ModelHasPool,
                NoPoolTriedTwice, OneTerminalSpan, Rows, Request, Surface, Answers
<1>2. IInv /\ [Next]_vars => IInv'
  <2> SUFFICES ASSUME IInv, [Next]_vars PROVE IInv'
    OBVIOUS
  <2>1. ASSUME NEW r \in Requests, Arrive(r) \/ AnswerAtIngress(r) PROVE IInv'
    BY <2>1, EntrySteps
  <2>2. ASSUME NEW r \in Requests, Step(r) PROVE IInv'
    BY <2>2, EntrySteps, PlanSteps, BindingSteps, ReplySteps DEF Step
  <2>3. ASSUME NEW r \in Requests, ClientAbort(r) PROVE IInv'
    BY <2>3, AbortSteps
  <2>4. ASSUME NEW k \in Keys, Expire(k) PROVE IInv'
    BY <2>4, LedgerFramed DEF Expire, IInv, TypeOK, AnsweredWhenDone, ModelHasPool,
                             NoPoolTriedTwice, OneTerminalSpan
  <2>5. CASE Resync
    BY <2>5, LedgerFramed DEF Resync, IInv, TypeOK, AnsweredWhenDone, ModelHasPool,
                             NoPoolTriedTwice, OneTerminalSpan
  <2>6. CASE Restart
    BY <2>6, RestartKeepsIInv
  <2>7. CASE UNCHANGED vars
    BY <2>7, LedgerFramed DEF vars, IInv, TypeOK, AnsweredWhenDone, ModelHasPool,
                             NoPoolTriedTwice, OneTerminalSpan
  <2> QED
    BY <2>1, <2>2, <2>3, <2>4, <2>5, <2>6, <2>7 DEF Next
<1> QED
  BY <1>1, <1>2, PTL DEF Spec

\* The state stays in its types.
THEOREM TypeCorrect == Spec => []TypeOK
<1>1. IInv => TypeOK
  BY DEF IInv
<1> QED
  BY <1>1, DataPlaneIsSafe, PTL

\* The loop of data_plane never sends a request back to a pool it has excluded.
THEOREM NeverTriedTwice == Spec => []NoPoolTriedTwice
<1>1. IInv => NoPoolTriedTwice
  BY DEF IInv
<1> QED
  BY <1>1, DataPlaneIsSafe, PTL

\* TerminalSpanGuard: one request.completed per answered request.
THEOREM SpanOnce == Spec => []OneTerminalSpan
<1>1. IInv => OneTerminalSpan
  BY DEF IInv
<1> QED
  BY <1>1, DataPlaneIsSafe, PTL

\* record_ledger: the row of an answered request tells how it was answered.
THEOREM LedgerIsRight == Spec => []LedgerTellsTheAnswer
<1>1. IInv => LedgerTellsTheAnswer
  BY DEF IInv
<1> QED
  BY <1>1, DataPlaneIsSafe, PTL

\* INSERT OR IGNORE: the first row of a request id stays, whoever else arrives
\* with that id, at any time and in any number.
THEOREM LedgerIsFinal == Spec => LedgerRowsAreFinal
<1> DEFINE Final == \A i \in RequestIds : ledger[i] # "none" => ledger'[i] = ledger[i]
<1>1. ASSUME TypeOK, NEW r \in Requests, NEW status, RecordLedger(r, status)
      PROVE  Final
  BY <1>1 DEF RecordLedger, TypeOK
<1>2. ASSUME TypeOK, [Next]_vars
      PROVE  Final
  <2>1. ASSUME NEW r \in Requests, Step(r) PROVE Final
    <3>1. CASE BindAndCompact(r)
      BY <1>1, <1>2, <3>1 DEF BindAndCompact
    <3>2. CASE AnswerReply(r)
      <4>1. PICK status : RecordLedger(r, status)
        BY <3>2 DEF AnswerReply
      <4> QED
        BY <1>1, <1>2, <4>1
    <3>3. CASE EndStream(r)
      <4>1. PICK status : RecordLedger(r, status)
        BY <3>3 DEF EndStream
      <4> QED
        BY <1>1, <1>2, <4>1
    <3>4. CASE UNCHANGED ledger
      BY <3>4
    <3> QED
      BY <2>1, <3>1, <3>2, <3>3, <3>4
         DEF Step, PlanSelect, PlanReject, PassThrough, BindAndSend, FailOver, StartStream
  <2>2. CASE UNCHANGED ledger
    BY <2>2
  <2> QED
    BY <1>2, <2>1, <2>2
       DEF Next, Arrive, AnswerAtIngress, ClientAbort, Expire, Resync, Restart, vars
<1>3. ASSUME TypeOK, [Next]_vars
      PROVE  [Final]_ledger
  BY <1>2, <1>3
<1> QED
  BY <1>3, TypeCorrect, PTL DEF Spec, LedgerRowsAreFinal

-----------------------------------------------------------------------------
(* How an applied configuration becomes routes (Deployment). *)

Row == [known : BOOLEAN, row : {"on", "error", "off", "worn"}, said : BOOLEAN, member : BOOLEAN,
        maps : SUBSET Models]
TaskFields == {"at", "kind", "todo", "rows", "isolated"}
RoutingTyped ==
  /\ config \in Configs /\ host \in [R!Owners -> Row]
  /\ applied \in BOOLEAN /\ clean \in BOOLEAN
  /\ DOMAIN task = TaskFields
  /\ task.at \in {"idle", "group", "channels", "accounts", "routes", "rest"}
  /\ task.kind \in {"none", "apply", "sync"}

\* An account is known from its login, and what it was told of the group was done.
HostIsRight ==
  /\ \A a \in Accounts : host[a].known
  /\ \A o \in R!Owners : host[o].said => host[o].member

\* Where a task may be; while an apply is under way its configuration has not been applied.
TaskIsRight ==
  /\ task.at \in {"group", "channels"} => task.kind = "apply"
  /\ task.at = "channels" => task.todo \subseteq R!Keyed(config)
  /\ task.at \in {"group", "channels"} => task.isolated = {}
  /\ task.at \in {"routes", "rest"} => task.todo = {}
  /\ task.at = "idle" => task.kind = "none"
  /\ applied => task.kind # "apply"

\* What an apply leaves in the Host for good: its channels, and the models of its accounts.
ChannelsAreUp ==
  applied \/ (task.kind = "apply" /\ task.at # "group") =>
    \A i \in R!Keyed(config) :
      R!Joins(config, i) /\ ~(task.at = "channels" /\ i \in task.todo) =>
        LET h == host[R!Owner(config, i)] IN
        h.known /\ h.member /\ R!Model(config, i) \in h.maps
AccountsAreMapped ==
  applied \/ (task.kind = "apply" /\ task.at \notin {"group", "channels"}) =>
    \A a \in Accounts :
      R!Wanted(a) /\ ~(task.kind = "apply" /\ task.at = "accounts" /\ a \in task.todo) =>
        R!Of(a) \subseteq host[a].maps

\* What the last task has made of the accounts that it has seen: members are those that are
\* chosen and in order, and it has noted those that are chosen and not.
Isolated(S) == {a \in S : R!Wanted(a) /\ host[a].row # "on"}
AccountsAreDone(S) ==
  \A a \in S : IF R!Wanted(a) THEN host[a].row = "on" => host[a].member ELSE host[a].row = "off"
Seen ==
  clean /\ task.at \in {"accounts", "routes", "rest"} =>
    LET S == Accounts \ task.todo IN AccountsAreDone(S) /\ task.isolated = Isolated(S)
Published ==
  /\ clean /\ task.at \in {"routes", "rest"} => shown = R!Shown(config, task.isolated)
  /\ task.at = "rest" => routes = R!Composite(config, task.isolated)
Finished ==
  clean /\ task.at = "idle" /\ last \in {"applied", "synced"} =>
    /\ AccountsAreDone(Accounts)
    /\ shown = R!Shown(config, Isolated(Accounts))
    /\ routes = R!Composite(config, Isolated(Accounts))

RoutingInv ==
  /\ RoutingTyped /\ HostIsRight /\ TaskIsRight
  /\ ChannelsAreUp /\ AccountsAreMapped /\ Seen /\ Published /\ Finished

-----------------------------------------------------------------------------
(* The plan of routes, for any configuration and any set of isolated accounts. *)

LEMMA LeastNumber ==
  ASSUME NEW S \in SUBSET Nat, S # {}
  PROVE  \E m \in S : \A n \in S : m <= n
<1>1. PICK R2 : R2 = {p \in Nat \X Nat : p[1] < p[2]}
  OBVIOUS
<1>2. IsWellFoundedOn(R2, Nat)
  BY <1>1, NatLessThanWellFounded DEF OpToRel
<1>3. PICK m \in S : \A n \in S : ~(<<n, m>> \in R2)
  BY <1>2, WFMin
<1>4. \A n \in S : ~(n < m)
  BY <1>1, <1>3
<1> QED
  BY <1>4

LEMMA EntriesAreNumbered ==
  ASSUME NEW c \in Configs
  PROVE  /\ R!Entry(c) \in SUBSET Nat
         /\ \A i \in R!Entry(c) : R!Owner(c, i) \in R!Owners /\ R!Model(c, i) \in Models
         /\ \A i, j \in R!Entry(c) : ~R!OAuth(c, i) /\ R!Owner(c, i) = R!Owner(c, j) => i = j
<1>1. c.entries \in Seq([owner : Channels \cup Accounts, model : Models])
  BY DeploymentAssumption
<1>2. DOMAIN c.entries = 1 .. Len(c.entries)
  BY <1>1
<1>3. \A i \in R!Entry(c) : c.entries[i] \in [owner : Channels \cup Accounts, model : Models]
  <2>1. PICK S : S = [owner : Channels \cup Accounts, model : Models]
    OBVIOUS
  <2>2. c.entries \in Seq(S)
    BY <1>1, <2>1
  <2>3. \A i \in 1 .. Len(c.entries) : c.entries[i] \in S
    BY <2>2
  <2> QED
    BY <1>2, <2>1, <2>3 DEF R!Entry
<1> QED
  BY <1>2, <1>3, DeploymentAssumption DEF R!Entry, R!Owner, R!Model, R!Owners, R!OAuth

\* The first candidate of a public name is in the catalog.
LEMMA FirstIsListed ==
  ASSUME NEW c \in Configs, NEW i \in R!Entry(c), R!Candidate(c, i)
  PROVE  \E j \in R!Entry(c) : R!Listed(c, j) /\ R!Public(c, j) = R!Public(c, i)
<1> DEFINE S == {j \in R!Entry(c) : R!Candidate(c, j) /\ R!Public(c, j) = R!Public(c, i)}
<1>1. S \in SUBSET Nat /\ S # {}
  BY EntriesAreNumbered
<1>2. PICK j \in S : \A k \in S : j <= k
  BY <1>1, LeastNumber
<1>3. \A k \in R!Entry(c) : k < j /\ R!Candidate(c, k) => R!Public(c, k) # R!Public(c, j)
  BY <1>1, <1>2
<1>4. R!Listed(c, j)
  BY <1>3 DEF R!Listed
<1> QED
  BY <1>4

\* A name that a usable account has is visible, by the catalog or by promotion.
LEMMA AccountIsVisible ==
  ASSUME NEW c \in Configs, NEW isolated, NEW i \in R!Entry(c), R!OAuth(c, i),
         R!Joins(c, i), R!Usable(c, i, isolated)
  PROVE  R!Public(c, i) \in R!Publics(c, R!Visible(c, isolated))
<1>1. CASE R!Public(c, i) \in R!Publics(c, R!Rows(c, isolated))
  BY <1>1 DEF R!Publics, R!Visible
<1>2. CASE R!Public(c, i) \notin R!Publics(c, R!Rows(c, isolated))
  <2> DEFINE free == {j \in R!Entry(c) : /\ R!OAuth(c, j) /\ ~R!Listed(c, j)
                                        /\ R!Joins(c, j) /\ R!Usable(c, j, isolated)
                                        /\ R!Public(c, j) \notin R!Publics(c, R!Rows(c, isolated))}
  <2> DEFINE S == {j \in free : R!Public(c, j) = R!Public(c, i)}
  <2>1. ~R!Listed(c, i)
    BY <1>2 DEF R!Rows, R!Publics
  <2>2. S \in SUBSET Nat /\ i \in S
    BY <1>2, <2>1, EntriesAreNumbered
  <2>3. PICK m \in S : \A n \in S : m <= n
    BY <2>2, LeastNumber
  <2>4. \A j \in free : R!Public(c, j) = R!Public(c, m) => m <= j
    BY <2>3
  <2>5. m \in R!Promoted(c, isolated)
    BY <2>3, <2>4 DEF R!Promoted
  <2>6. m \in R!Visible(c, isolated) /\ R!Public(c, m) = R!Public(c, i)
    BY <2>5, <2>3 DEF R!Visible
  <2> QED
    BY <2>6 DEF R!Publics
<1> QED
  BY <1>1, <1>2

\* So is the name of a channel: its own entry, or the one it stands behind, has a first.
LEMMA ChannelIsVisible ==
  ASSUME NEW c \in Configs, NEW isolated, NEW i \in R!Entry(c), ~R!OAuth(c, i), R!Joins(c, i)
  PROVE  R!Public(c, i) \in R!Publics(c, R!Visible(c, isolated))
<1>1. \E k \in R!Entry(c) : R!Candidate(c, k) /\ R!Public(c, k) = R!Public(c, i)
  <2>1. CASE ~R!Merged(c, i)
    BY <2>1 DEF R!Candidate, R!Chosen
  <2>2. CASE R!Merged(c, i)
    <3>1. PICK j \in R!Namesakes(c, i) : R!OAuth(c, j)
      BY <2>2 DEF R!Merged
    <3>2. R!Model(c, j) = R!Model(c, i) /\ j \in R!Entry(c) /\ R!Chosen(c, j)
      BY <3>1 DEF R!Namesakes
    <3>3. R!Candidate(c, j)
      BY <3>1, <3>2 DEF R!Candidate, R!Merged
    <3>4. R!Public(c, j) = R!Public(c, i)
      BY <2>2, <3>1, <3>2 DEF R!Public, R!Merged
    <3> QED
      BY <3>2, <3>3, <3>4
  <2> QED
    BY <2>1, <2>2
<1>2. PICK l \in R!Entry(c) : R!Listed(c, l) /\ R!Public(c, l) = R!Public(c, i)
  BY <1>1, FirstIsListed
<1>3. l \in R!Rows(c, isolated)
  BY <1>2 DEF R!Rows, R!Publics
<1> QED
  BY <1>2, <1>3 DEF R!Visible, R!Publics

\* Every source that can be used is among the routes, under a name that is shown.
LEMMA SourceIsServable ==
  ASSUME NEW c \in Configs, NEW isolated, NEW i \in R!Entry(c),
         R!Joins(c, i), R!Usable(c, i, isolated)
  PROVE  i \in R!Servable(c, isolated) /\ R!Public(c, i) \in R!Shown(c, isolated)
<1>1. R!Public(c, i) \in R!Publics(c, R!Visible(c, isolated))
  BY AccountIsVisible, ChannelIsVisible
<1>2. R!Listed(c, i) => i \in R!Rows(c, isolated)
  BY DEF R!Rows
<1> QED
  BY <1>1, <1>2 DEF R!Servable, R!Visible, R!Shown

\* And every name that is shown is that of a source that can be used.
LEMMA ShownHasASource ==
  ASSUME NEW c \in Configs, NEW isolated, NEW p \in R!Shown(c, isolated)
  PROVE  \E i \in R!Entry(c) :
           R!Joins(c, i) /\ R!Usable(c, i, isolated) /\ R!Public(c, i) = p
<1>1. PICK i \in R!Visible(c, isolated) : R!Public(c, i) = p
  BY DEF R!Shown, R!Publics
<1>2. CASE i \in R!Rows(c, isolated)
  <2>1. R!Listed(c, i) /\ i \in R!Entry(c)
    BY <1>2 DEF R!Rows
  <2>2. R!Joins(c, i)
    BY <2>1 DEF R!Listed, R!Candidate, R!Joins
  <2>3. CASE R!Usable(c, i, isolated)
    BY <1>1, <2>1, <2>2, <2>3
  <2>4. CASE ~R!Usable(c, i, isolated)
    <3>1. PICK k \in R!Entry(c) : /\ ~R!OAuth(c, k) /\ R!Joins(c, k)
                                  /\ R!Public(c, k) = R!Public(c, i)
      BY <1>2, <2>4 DEF R!Rows, R!Publics
    <3>2. R!Usable(c, k, isolated)
      BY <3>1 DEF R!Usable
    <3> QED
      BY <1>1, <3>1, <3>2
  <2> QED
    BY <2>3, <2>4
<1>3. CASE i \in R!Promoted(c, isolated)
  BY <1>1, <1>3 DEF R!Promoted
<1> QED
  BY <1>2, <1>3 DEF R!Visible

-----------------------------------------------------------------------------
(* The invariant implies the property. *)

LEMMA RoutingIsServed == ASSUME RoutingInv PROVE ServedAsApplied
<1> SUFFICES ASSUME R!Settled
             PROVE  /\ \A i \in R!Entry(config) :
                         /\ R!Joins(config, i) /\ host[R!Owner(config, i)].row = "on"
                         /\ R!Owner(config, i) \notin config.keyless
                         => /\ R!Public(config, i) \in shown
                            /\ R!Serves(R!Owner(config, i), R!Public(config, i))
                    /\ \A p \in shown : \E i \in R!Entry(config) :
                         /\ R!Joins(config, i) /\ R!Public(config, i) = p
                         /\ R!OAuth(config, i) => host[R!Owner(config, i)].row = "on"
                    /\ \A a \in Accounts \ config.chosen : ~ \E p \in shown : R!Serves(a, p)
  BY DEF ServedAsApplied, R!ServedAsApplied
<1>1. config \in Configs /\ host \in [R!Owners -> Row]
  BY DEF RoutingInv, RoutingTyped
<1>2. /\ AccountsAreDone(Accounts) /\ shown = R!Shown(config, Isolated(Accounts))
      /\ routes = R!Composite(config, Isolated(Accounts)) /\ applied
  BY DEF RoutingInv, Finished, R!Settled
<1>3. ASSUME NEW i \in R!Entry(config), R!Joins(config, i),
             host[R!Owner(config, i)].row = "on", R!Owner(config, i) \notin config.keyless
      PROVE  /\ R!Public(config, i) \in shown
             /\ R!Serves(R!Owner(config, i), R!Public(config, i))
  <2> DEFINE o == R!Owner(config, i)
             r == [public |-> R!Public(config, i),
                   platform |-> IF R!OAuth(config, i) THEN Platform[o] ELSE OpenAI]
  <2>1. R!Usable(config, i, Isolated(Accounts))
    BY <1>3 DEF R!Usable, Isolated
  <2>2. i \in R!Servable(config, Isolated(Accounts)) /\ R!Public(config, i) \in shown
    BY <1>1, <1>2, <1>3, <2>1, SourceIsServable
  <2>3. r \in routes
    BY <1>2, <2>1, <2>2 DEF R!Composite
  <2>4. r.public = R!Public(config, i) /\ r.public.model = R!Model(config, i)
    BY DEF R!Public
  <2>5. CASE R!OAuth(config, i)
    <3>1. o \in Accounts /\ R!Wanted(o)
      BY <1>3, <2>5 DEF R!OAuth, R!Wanted, R!Joins, R!Merged, R!Chosen
    <3>2. host[o].known /\ host[o].member
      BY <1>2, <1>3, <3>1 DEF AccountsAreDone, RoutingInv, HostIsRight
    <3>3. R!Model(config, i) \in R!Of(o)
      BY <1>3 DEF R!Of
    <3>4. applied => task.kind # "apply"
      BY DEF RoutingInv, TaskIsRight
    <3>5. R!Of(o) \subseteq host[o].maps
      BY <1>2, <3>1, <3>4 DEF RoutingInv, AccountsAreMapped
    <3>6. R!Attached(o, r)
      BY <1>3, <2>4, <2>5, <3>1, <3>2, <3>3, <3>5 DEF R!Attached
    <3> QED
      BY <2>2, <2>3, <2>4, <3>6 DEF R!Serves
  <2>6. CASE ~R!OAuth(config, i)
    <3>1. i \in R!Keyed(config)
      BY <1>3, <2>6 DEF R!Keyed
    <3>2. task.at # "channels"
      BY DEF R!Settled
    <3>3. host[o].known /\ host[o].member /\ R!Model(config, i) \in host[o].maps
      BY <1>2, <1>3, <3>1, <3>2 DEF RoutingInv, ChannelsAreUp
    <3>4. o \notin Accounts
      BY <2>6 DEF R!OAuth
    <3>5. R!Attached(o, r)
      BY <1>3, <2>4, <3>3, <3>4 DEF R!Attached
    <3> QED
      BY <2>2, <2>3, <2>4, <3>5 DEF R!Serves
  <2> QED
    BY <2>5, <2>6
<1>4. ASSUME NEW p \in shown
      PROVE  \E i \in R!Entry(config) :
               /\ R!Joins(config, i) /\ R!Public(config, i) = p
               /\ R!OAuth(config, i) => host[R!Owner(config, i)].row = "on"
  <2>1. PICK i \in R!Entry(config) : /\ R!Joins(config, i) /\ R!Public(config, i) = p
                                     /\ R!Usable(config, i, Isolated(Accounts))
    BY <1>1, <1>2, ShownHasASource
  <2>2. ASSUME R!OAuth(config, i) PROVE host[R!Owner(config, i)].row = "on"
    <3>1. R!Wanted(R!Owner(config, i)) /\ R!Owner(config, i) \in Accounts
      BY <2>1, <2>2 DEF R!OAuth, R!Wanted, R!Joins, R!Merged, R!Chosen
    <3> QED
      BY <2>1, <2>2, <3>1 DEF R!Usable, Isolated
  <2> QED
    BY <2>1, <2>2
<1>5. \A a \in Accounts \ config.chosen : ~ \E p \in shown : R!Serves(a, p)
  BY <1>2 DEF AccountsAreDone, R!Wanted, R!Serves, R!Attached
<1> QED
  BY <1>3, <1>4, <1>5

LEMMA RoutingBegins == R!Init => RoutingInv
<1> SUFFICES ASSUME R!Init PROVE RoutingInv
  OBVIOUS
<1>1. RoutingTyped
  <2>0. \A k \in BOOLEAN : [R!Absent EXCEPT !.known = k] \in Row
    BY DEF R!Absent, Row
  <2>1. \A o \in R!Owners : [R!Absent EXCEPT !.known = o \in Accounts] \in Row
    <3> TAKE o \in R!Owners
    <3>1. CASE o \in Accounts
      <4>1. (o \in Accounts) = TRUE
        BY <3>1
      <4> QED
        BY <2>0, <4>1
    <3>2. CASE o \notin Accounts
      <4>1. (o \in Accounts) = FALSE
        BY <3>2
      <4> QED
        BY <2>0, <4>1
    <3> QED
      BY <3>1, <3>2
  <2>2. host \in [R!Owners -> Row]
    BY <2>1 DEF R!Init
  <2>3. DOMAIN task = TaskFields
    BY DEF R!Init, R!Idle, TaskFields
  <2> QED
    BY <2>2, <2>3 DEF R!Init, R!Idle, RoutingTyped
<1>2. HostIsRight
  BY DEF R!Init, R!Absent, R!Owners, HostIsRight
<1>3. TaskIsRight
  BY DEF R!Init, R!Idle, TaskIsRight
<1> QED
  BY <1>1, <1>2, <1>3 DEF R!Init, R!Idle, RoutingInv, ChannelsAreUp, AccountsAreMapped, Seen,
     Published, Finished

-----------------------------------------------------------------------------
(* The steps of a task that leave the Host's accounts alone. *)

LEMMA IdleTask ==
  /\ DOMAIN R!Idle = TaskFields /\ R!Idle.at = "idle" /\ R!Idle.kind = "none"
  /\ R!Idle.isolated = {}
  BY DEF R!Idle, TaskFields

LEMMA FailKeepsRouting == ASSUME RoutingInv, R!Fail PROVE RoutingInv'
<1> USE DEF RoutingInv, R!Fail, R!Ends, R!Counters
<1>1. task' = R!Idle /\ last' = "failed" /\ UNCHANGED <<config, host, routes, shown, applied, clean>>
  OBVIOUS
<1>2. task'.at = "idle" /\ task'.kind = "none" /\ DOMAIN task' = TaskFields
  BY <1>1, IdleTask
<1>3. RoutingTyped'
  BY <1>1, <1>2 DEF RoutingTyped
<1>4. HostIsRight' /\ TaskIsRight'
  BY <1>1, <1>2 DEF HostIsRight, TaskIsRight
<1>5. ChannelsAreUp'
  BY <1>1, <1>2 DEF ChannelsAreUp, TaskIsRight
<1>6. AccountsAreMapped'
  BY <1>1, <1>2 DEF AccountsAreMapped, TaskIsRight, R!Wanted, R!Of
<1>7. Seen' /\ Published' /\ Finished'
  BY <1>1, <1>2 DEF Seen, Published, Finished
<1> QED
  BY <1>3, <1>4, <1>5, <1>6, <1>7

LEMMA RestKeepsRouting == ASSUME RoutingInv, R!Rest PROVE RoutingInv'
<1> USE DEF RoutingInv
<1>1. /\ task.at = "rest" /\ task' = R!Idle /\ applied' = (applied \/ task.kind = "apply")
      /\ UNCHANGED <<config, host, routes, shown, clean>>
  BY DEF R!Rest, R!Ends, R!Counters
<1>2. task'.at = "idle" /\ task'.kind = "none" /\ DOMAIN task' = TaskFields
  BY <1>1, IdleTask
<1>3. RoutingTyped'
  BY <1>1, <1>2 DEF RoutingTyped
<1>4. HostIsRight' /\ TaskIsRight'
  BY <1>1, <1>2 DEF HostIsRight, TaskIsRight
<1>5. ChannelsAreUp'
  BY <1>1, <1>2 DEF ChannelsAreUp
<1>6. AccountsAreMapped'
  BY <1>1, <1>2 DEF AccountsAreMapped, R!Wanted, R!Of
<1>7. Seen' /\ Published'
  BY <1>1, <1>2 DEF Seen, Published
<1>8. Finished'
  <2>1. Accounts \ task.todo = Accounts
    BY <1>1 DEF TaskIsRight
  <2>2. clean => /\ AccountsAreDone(Accounts) /\ shown = R!Shown(config, Isolated(Accounts))
                 /\ routes = R!Composite(config, Isolated(Accounts))
    BY <1>1, <2>1 DEF Seen, Published
  <2> QED
    BY <1>1, <2>2 DEF Finished, AccountsAreDone, Isolated, R!Wanted
<1> QED
  BY <1>3, <1>4, <1>5, <1>6, <1>7, <1>8

LEMMA GroupKeepsRouting == ASSUME RoutingInv, R!Group PROVE RoutingInv'
<1> USE DEF RoutingInv
<1>1. task.at = "group" /\ task.kind = "apply" /\ UNCHANGED <<config, host, routes, applied, clean>>
  BY DEF R!Group, R!Counters, TaskIsRight
<1>2. \/ task' = [task EXCEPT !.at = "channels", !.todo = R!Keyed(config)] /\ UNCHANGED last
      \/ task' = R!Idle /\ last' = "failed"
  BY DEF R!Group, R!Ends
<1>3. DOMAIN task' = TaskFields
  BY <1>2, IdleTask DEF RoutingTyped
<1>4. \/ /\ task'.at = "channels" /\ task'.kind = "apply" /\ task'.todo = R!Keyed(config)
         /\ task'.isolated = {}
      \/ task'.at = "idle" /\ task'.kind = "none" /\ last' = "failed"
  BY <1>1, <1>2, IdleTask DEF RoutingTyped, TaskIsRight, TaskFields
<1>5. RoutingTyped'
  BY <1>1, <1>3, <1>4 DEF RoutingTyped
<1>6. HostIsRight' /\ TaskIsRight'
  BY <1>1, <1>4 DEF HostIsRight, TaskIsRight
<1>7. ChannelsAreUp' /\ AccountsAreMapped'
  BY <1>1, <1>4 DEF ChannelsAreUp, AccountsAreMapped, TaskIsRight
<1>8. Seen' /\ Published' /\ Finished'
  BY <1>4 DEF Seen, Published, Finished
<1> QED
  BY <1>5, <1>6, <1>7, <1>8

LEMMA ListKeepsRouting == ASSUME RoutingInv, R!List PROVE RoutingInv'
<1> USE DEF RoutingInv
<1>1. /\ task.at = "channels" /\ task.todo = {} /\ task.kind = "apply" /\ ~applied
      /\ task.isolated = {}
      /\ task' = [task EXCEPT !.at = "accounts", !.todo = {o \in R!Owners : host[o].known}]
      /\ UNCHANGED <<config, host, routes, shown, applied, clean>>
  BY DEF R!List, R!Counters, TaskIsRight
<1>2. /\ DOMAIN task' = TaskFields /\ task'.at = "accounts" /\ task'.kind = "apply"
      /\ task'.todo = {o \in R!Owners : host[o].known} /\ task'.isolated = {}
  BY <1>1 DEF RoutingTyped, TaskFields
<1>3. Accounts \subseteq task'.todo
  BY <1>2 DEF HostIsRight, R!Owners
<1>4. RoutingTyped'
  BY <1>1, <1>2 DEF RoutingTyped
<1>5. HostIsRight' /\ TaskIsRight'
  BY <1>1, <1>2 DEF HostIsRight, TaskIsRight
<1>6. ChannelsAreUp'
  BY <1>1, <1>2 DEF ChannelsAreUp
<1>7. AccountsAreMapped'
  BY <1>1, <1>2, <1>3 DEF AccountsAreMapped
<1>8. Seen' /\ Published' /\ Finished'
  BY <1>2, <1>3 DEF Seen, Published, Finished, AccountsAreDone, Isolated
<1> QED
  BY <1>4, <1>5, <1>6, <1>7, <1>8

LEMMA SyncKeepsRouting == ASSUME RoutingInv, R!Sync PROVE RoutingInv'
<1> USE DEF RoutingInv
<1>1. task.at = "idle" /\ task.kind = "none" /\ clean' /\ UNCHANGED <<config, host, routes, applied>>
  BY DEF R!Sync, R!Counters, TaskIsRight
<1>2. \/ task' = [R!Idle EXCEPT !.at = "accounts", !.kind = "sync", !.todo = Accounts]
      \/ task' = R!Idle /\ last' = "failed"
  BY DEF R!Sync, R!Ends
<1>3. DOMAIN task' = TaskFields
  BY <1>2, IdleTask
<1>4. \/ /\ task'.at = "accounts" /\ task'.kind = "sync" /\ task'.todo = Accounts
         /\ task'.isolated = {}
      \/ task'.at = "idle" /\ task'.kind = "none" /\ last' = "failed"
  BY <1>2, IdleTask DEF TaskFields
<1>5. RoutingTyped'
  <2>1. clean' \in BOOLEAN
    BY DEF R!Sync
  <2> QED
    BY <1>1, <1>3, <1>4, <2>1 DEF RoutingTyped
<1>6. HostIsRight' /\ TaskIsRight'
  BY <1>1, <1>4 DEF HostIsRight, TaskIsRight
<1>7. ChannelsAreUp'
  BY <1>1, <1>4 DEF ChannelsAreUp
<1>8. AccountsAreMapped'
  BY <1>1, <1>4 DEF AccountsAreMapped, R!Wanted, R!Of
<1>9. Seen' /\ Published' /\ Finished'
  BY <1>4 DEF Seen, Published, Finished, AccountsAreDone, Isolated
<1> QED
  BY <1>5, <1>6, <1>7, <1>8, <1>9

LEMMA GroupModelsKeepsRouting == ASSUME RoutingInv, R!GroupModels PROVE RoutingInv'
<1> USE DEF RoutingInv
<1>1. /\ task.at = "accounts" /\ task.todo = {}
      /\ UNCHANGED <<config, host, routes, applied>> /\ clean' \in BOOLEAN /\ (clean' => clean)
  BY DEF R!GroupModels, R!Counters, RoutingTyped
<1>2. \/ /\ task' = [task EXCEPT !.at = "routes"] /\ UNCHANGED last
         /\ clean' => shown' = R!Shown(config, task.isolated)
      \/ task' = R!Idle /\ last' = "failed"
  BY DEF R!GroupModels, R!Ends
<1>3. DOMAIN task' = TaskFields
  BY <1>2, IdleTask DEF RoutingTyped
<1>4. \/ /\ task'.at = "routes" /\ task'.kind = task.kind /\ task'.todo = {}
         /\ task'.isolated = task.isolated
         /\ clean' => shown' = R!Shown(config, task.isolated)
      \/ task'.at = "idle" /\ task'.kind = "none" /\ last' = "failed"
  BY <1>1, <1>2, IdleTask DEF RoutingTyped, TaskFields
<1>5. RoutingTyped'
  BY <1>1, <1>3, <1>4 DEF RoutingTyped
<1>6. HostIsRight' /\ TaskIsRight'
  BY <1>1, <1>4 DEF HostIsRight, TaskIsRight
<1>7. ChannelsAreUp'
  BY <1>1, <1>4 DEF ChannelsAreUp
<1>8. AccountsAreMapped'
  BY <1>1, <1>4 DEF AccountsAreMapped, R!Wanted, R!Of
<1>9. Seen'
  BY <1>1, <1>4 DEF Seen, AccountsAreDone, Isolated, R!Wanted
<1>10. Published' /\ Finished'
  BY <1>1, <1>4 DEF Published, Finished
<1> QED
  BY <1>5, <1>6, <1>7, <1>8, <1>9, <1>10

\* However the routes are brought to the Host, a task that goes on has brought all of them.
LEMMA RoutesKeepsRouting == ASSUME RoutingInv, R!Routes PROVE RoutingInv'
<1> USE DEF RoutingInv
<1>1. task.at = "routes" /\ task.todo = {} /\ UNCHANGED <<config, host, shown, applied, clean>>
  BY DEF R!Routes, R!Counters, TaskIsRight
<1>2. \/ /\ task' = [task EXCEPT !.at = "rest"] /\ UNCHANGED last
         /\ routes' = R!Composite(config, task.isolated)
      \/ task' = R!Idle /\ last' = "failed"
  BY DEF R!Routes, R!Ends
<1>3. DOMAIN task' = TaskFields
  BY <1>2, IdleTask DEF RoutingTyped
<1>4. \/ /\ task'.at = "rest" /\ task'.kind = task.kind /\ task'.todo = {}
         /\ task'.isolated = task.isolated /\ routes' = R!Composite(config, task.isolated)
      \/ task'.at = "idle" /\ task'.kind = "none" /\ last' = "failed"
  BY <1>1, <1>2, IdleTask DEF RoutingTyped, TaskFields
<1>5. RoutingTyped'
  BY <1>1, <1>3, <1>4 DEF RoutingTyped
<1>6. HostIsRight' /\ TaskIsRight'
  BY <1>1, <1>4 DEF HostIsRight, TaskIsRight
<1>7. ChannelsAreUp'
  BY <1>1, <1>4 DEF ChannelsAreUp
<1>8. AccountsAreMapped'
  BY <1>1, <1>4 DEF AccountsAreMapped, R!Wanted, R!Of
<1>9. Seen'
  BY <1>1, <1>4 DEF Seen, AccountsAreDone, Isolated, R!Wanted
<1>10. Published' /\ Finished'
  BY <1>1, <1>4 DEF Published, Finished
<1> QED
  BY <1>5, <1>6, <1>7, <1>8, <1>9, <1>10

LEMMA ApplyKeepsRouting == ASSUME RoutingInv, R!Apply PROVE RoutingInv'
<1> USE DEF RoutingInv
<1>1. task.at = "idle" /\ config' \in Configs /\ applied' = FALSE /\ clean' = TRUE /\ UNCHANGED host
  BY DEF R!Apply
<1>2. \/ \E rows : task' = [R!Idle EXCEPT !.at = "group", !.kind = "apply", !.rows = rows]
      \/ task' = R!Idle /\ last' = "failed"
  BY DEF R!Apply, R!Ends
<1>3. DOMAIN task' = TaskFields
  BY <1>2, IdleTask
<1>4. \/ task'.at = "group" /\ task'.kind = "apply" /\ task'.isolated = {}
      \/ task'.at = "idle" /\ task'.kind = "none" /\ last' = "failed"
  BY <1>2, IdleTask DEF TaskFields
<1>5. RoutingTyped'
  BY <1>1, <1>3, <1>4 DEF RoutingTyped
<1>6. HostIsRight' /\ TaskIsRight'
  BY <1>1, <1>4 DEF HostIsRight, TaskIsRight
<1>7. ChannelsAreUp' /\ AccountsAreMapped' /\ Seen' /\ Published' /\ Finished'
  BY <1>1, <1>4 DEF ChannelsAreUp, AccountsAreMapped, Seen, Published, Finished
<1> QED
  BY <1>5, <1>6, <1>7

-----------------------------------------------------------------------------
(* The steps that change an account of the Host. *)

LEMMA PutShape ==
  ASSUME NEW h \in Row, NEW o, NEW wanted \in BOOLEAN
  PROVE  LET x == R!Put(h, o, wanted) IN
         /\ x \in Row /\ x.known = h.known /\ x.row = h.row /\ x.maps = h.maps
         /\ x.said = wanted /\ (wanted => x.member)
  BY DEF R!Put, Row

LEMMA NewChannel ==
  ASSUME NEW joins \in BOOLEAN, NEW m \in Models
  PROVE  LET x == [known |-> TRUE, row |-> "on", said |-> joins, member |-> joins, maps |-> {m}] IN
         x \in Row /\ x.known /\ m \in x.maps /\ (x.said => x.member) /\ (joins => x.member)
  BY DEF Row

LEMMA OldChannel ==
  ASSUME NEW h \in Row, h.known, NEW o, NEW joins \in BOOLEAN, NEW m \in Models
  PROVE  LET x == [R!Put(h, o, joins) EXCEPT !.maps = @ \cup {m}]
             y == [x EXCEPT !.row = "on"] IN
         /\ x \in Row /\ x.known /\ m \in x.maps /\ (x.said => x.member) /\ (joins => x.member)
         /\ y \in Row /\ y.known /\ m \in y.maps /\ (y.said => y.member) /\ (joins => y.member)
<1> DEFINE p == R!Put(h, o, joins)
<1>1. p \in Row /\ p.known /\ (p.said => p.member) /\ (joins => p.member)
  BY PutShape
<1> HIDE DEF p
<1>2. /\ [p EXCEPT !.maps = @ \cup {m}] \in Row
      /\ [p EXCEPT !.maps = @ \cup {m}].known
      /\ [p EXCEPT !.maps = @ \cup {m}].maps = p.maps \cup {m}
      /\ [p EXCEPT !.maps = @ \cup {m}].said = p.said
      /\ [p EXCEPT !.maps = @ \cup {m}].member = p.member
  BY <1>1 DEF Row
<1> DEFINE x == [p EXCEPT !.maps = @ \cup {m}]
<1>3. x \in Row /\ x.known /\ m \in x.maps /\ (x.said => x.member) /\ (joins => x.member)
  BY <1>1, <1>2
<1> HIDE DEF x
<1>4. LET y == [x EXCEPT !.row = "on"] IN
      y \in Row /\ y.known /\ m \in y.maps /\ (y.said => y.member) /\ (joins => y.member)
  BY <1>3 DEF Row
<1> QED
  BY <1>3, <1>4 DEF x, p

\* A channel that has been brought to the Host is known there and has its model; it is a
\* member where it is to serve.
LEMMA ChannelShape ==
  ASSUME RoutingInv, R!Channel
  PROVE  \E i \in task.todo, x \in Row :
           /\ R!Owner(config, i) \in R!Owners \ Accounts
           /\ task' = [task EXCEPT !.todo = @ \ {i}]
           /\ host' = [host EXCEPT ![R!Owner(config, i)] = x]
           /\ x.known /\ R!Model(config, i) \in x.maps
           /\ (x.said => x.member) /\ (R!Joins(config, i) => x.member)
<1> DEFINE i == CHOOSE i \in task.todo : \A j \in task.todo : i <= j
           o == R!Owner(config, i)
           joins == R!Joins(config, i)
           m == R!Model(config, i)
           new == [known |-> TRUE, row |-> "on", said |-> joins, member |-> joins, maps |-> {m}]
           old == [R!Put(host[o], o, joins) EXCEPT !.maps = @ \cup {m}]
<1>1. config \in Configs /\ host \in [R!Owners -> Row]
  BY DEF RoutingInv, RoutingTyped
<1>2. task.todo \subseteq R!Keyed(config) /\ task.todo # {}
  BY DEF R!Channel, RoutingInv, TaskIsRight
<1>3. i \in task.todo
  <2>1. task.todo \in SUBSET Nat
    BY <1>1, <1>2, EntriesAreNumbered DEF R!Keyed
  <2>2. \E k \in task.todo : \A j \in task.todo : k <= j
    BY <1>2, <2>1, LeastNumber
  <2> QED
    BY <2>2
<1>4. o \in R!Owners \ Accounts /\ m \in Models /\ host[o] \in Row
  BY <1>1, <1>2, <1>3, EntriesAreNumbered DEF R!Keyed, R!OAuth
<1>5. joins \in BOOLEAN
  <2>1. CASE R!Merged(config, i)
    <3>1. joins = (o \in config.fallback)
      BY <2>1 DEF R!Joins
    <3> QED
      BY <3>1
  <2>2. CASE ~R!Merged(config, i)
    <3>1. joins = R!Chosen(config, i)
      BY <2>2 DEF R!Joins
    <3>2. R!Chosen(config, i) = (R!OAuth(config, i) => o \in config.chosen)
      BY DEF R!Chosen
    <3> QED
      BY <3>1, <3>2
  <2> QED
    BY <2>1, <2>2
<1>6. /\ task' = [task EXCEPT !.todo = @ \ {i}]
      /\ \/ host' = [host EXCEPT ![o] = new]
         \/ host[o].known /\ host' = [host EXCEPT ![o] = old]
         \/ host[o].known /\ host' = [host EXCEPT ![o] = [old EXCEPT !.row = "on"]]
  BY DEF R!Channel
<1>7. new \in Row /\ new.known /\ m \in new.maps /\ (new.said => new.member) /\ (joins => new.member)
  BY <1>4, <1>5, NewChannel
<1>8. ASSUME host[o].known
      PROVE  LET y == [old EXCEPT !.row = "on"] IN
             /\ old \in Row /\ old.known /\ m \in old.maps
             /\ (old.said => old.member) /\ (joins => old.member)
             /\ y \in Row /\ y.known /\ m \in y.maps /\ (y.said => y.member) /\ (joins => y.member)
  BY <1>4, <1>5, <1>8, OldChannel
<1> HIDE DEF i, new, old
<1> QED
  BY <1>3, <1>4, <1>6, <1>7, <1>8

LEMMA ChannelKeepsRouting == ASSUME RoutingInv, R!Channel PROVE RoutingInv'
<1> USE DEF RoutingInv
<1>1. PICK i \in task.todo, x \in Row :
        /\ R!Owner(config, i) \in R!Owners \ Accounts
        /\ task' = [task EXCEPT !.todo = @ \ {i}]
        /\ host' = [host EXCEPT ![R!Owner(config, i)] = x]
        /\ x.known /\ R!Model(config, i) \in x.maps
        /\ (x.said => x.member) /\ (R!Joins(config, i) => x.member)
  BY ChannelShape
<1>2. /\ task.at = "channels" /\ task.kind = "apply" /\ ~applied
      /\ UNCHANGED <<config, routes, shown, last, applied, clean>>
  BY DEF R!Channel, R!Counters, TaskIsRight
<1>3. /\ DOMAIN task' = TaskFields /\ task'.at = "channels" /\ task'.kind = "apply"
      /\ task'.todo = task.todo \ {i} /\ task'.isolated = {}
  BY <1>1, <1>2 DEF RoutingTyped, TaskIsRight, TaskFields
<1>4. RoutingTyped'
  BY <1>1, <1>2, <1>3 DEF RoutingTyped
<1>5. HostIsRight'
  BY <1>1 DEF HostIsRight, RoutingTyped, R!Owners
<1>6. TaskIsRight'
  BY <1>2, <1>3 DEF TaskIsRight
<1>7. ChannelsAreUp'
  <2> SUFFICES ASSUME NEW j \in R!Keyed(config), R!Joins(config, j), j \notin task.todo \ {i}
               PROVE  LET h == host'[R!Owner(config, j)] IN
                      h.known /\ h.member /\ R!Model(config, j) \in h.maps
    BY <1>2, <1>3 DEF ChannelsAreUp
  <2>1. CASE j = i
    BY <1>1, <2>1 DEF RoutingTyped
  <2>2. CASE j # i
    <3>1. i \in R!Entry(config) /\ j \in R!Entry(config) /\ ~R!OAuth(config, i)
      BY <1>2 DEF TaskIsRight, R!Keyed
    <3>2. R!Owner(config, i) # R!Owner(config, j)
      BY <2>2, <3>1, EntriesAreNumbered DEF RoutingTyped
    <3>3. host'[R!Owner(config, j)] = host[R!Owner(config, j)]
      BY <1>1, <3>1, <3>2, EntriesAreNumbered DEF RoutingTyped
    <3> QED
      BY <1>2, <2>2, <3>3 DEF ChannelsAreUp
  <2> QED
    BY <2>1, <2>2
<1>8. AccountsAreMapped' /\ Seen' /\ Published' /\ Finished'
  BY <1>2, <1>3 DEF AccountsAreMapped, Seen, Published, Finished
<1> QED
  BY <1>4, <1>5, <1>6, <1>7, <1>8

\* A row that changes for an account leaves nobody to say that all is as the task saw it.
LEMMA TurnKeepsRouting ==
  ASSUME RoutingInv, NEW o \in R!Owners, NEW row \in {"on", "error", "off", "worn"}, R!Turn(o, row)
  PROVE  RoutingInv'
<1> USE DEF RoutingInv
<1>1. /\ host' = [host EXCEPT ![o].row = row] /\ clean' = (clean /\ o \in Channels)
      /\ UNCHANGED <<config, routes, shown, task, last, applied>>
  BY DEF R!Turn
<1> DEFINE x == [host[o] EXCEPT !.row = row]
<1>2. /\ x \in Row /\ x.known = host[o].known /\ x.said = host[o].said
      /\ x.member = host[o].member /\ x.maps = host[o].maps
  BY DEF RoutingTyped, Row
<1>3. host' = [host EXCEPT ![o] = x]
  BY <1>1
<1> HIDE DEF x
<1>4. \A b \in R!Owners : /\ host'[b].known = host[b].known /\ host'[b].said = host[b].said
                          /\ host'[b].member = host[b].member /\ host'[b].maps = host[b].maps
                          /\ b # o => host'[b] = host[b]
  BY <1>2, <1>3 DEF RoutingTyped
<1>5. clean' \in BOOLEAN /\ (clean' => clean /\ o \notin Accounts)
  BY <1>1, DeploymentAssumption
<1>6. RoutingTyped'
  BY <1>1, <1>2, <1>3, <1>5 DEF RoutingTyped
<1>7. HostIsRight' /\ TaskIsRight'
  BY <1>1, <1>4 DEF HostIsRight, TaskIsRight, R!Owners
<1>8. ChannelsAreUp'
  <2>1. \A i \in R!Keyed(config) : R!Owner(config, i) \in R!Owners
    BY EntriesAreNumbered DEF R!Keyed, RoutingTyped
  <2> QED
    BY <1>1, <1>4, <2>1 DEF ChannelsAreUp
<1>9. AccountsAreMapped'
  BY <1>1, <1>4 DEF AccountsAreMapped, R!Wanted, R!Of, R!Owners
<1>10. clean' => \A a \in Accounts : host'[a] = host[a]
  BY <1>4, <1>5 DEF R!Owners
<1>11. Seen'
  BY <1>1, <1>5, <1>10 DEF Seen, AccountsAreDone, Isolated, R!Wanted
<1>12. Published'
  BY <1>1, <1>5 DEF Published
<1>13. Finished'
  <2> SUFFICES ASSUME clean', task.at = "idle", last \in {"applied", "synced"}
               PROVE  /\ AccountsAreDone(Accounts)'
                      /\ shown = R!Shown(config, Isolated(Accounts)')
                      /\ routes = R!Composite(config, Isolated(Accounts)')
    BY <1>1 DEF Finished
  <2>1. Isolated(Accounts)' = Isolated(Accounts)
    BY <1>1, <1>10 DEF Isolated, R!Wanted
  <2>2. AccountsAreDone(Accounts)' = AccountsAreDone(Accounts)
    BY <1>1, <1>10 DEF AccountsAreDone, R!Wanted
  <2> QED
    BY <1>5, <2>1, <2>2 DEF Finished
<1> QED
  BY <1>6, <1>7, <1>8, <1>9, <1>11, <1>12, <1>13

\* What becomes of an account that a task looks at.
LEMMA OauthShape ==
  ASSUME RoutingInv, NEW o \in Accounts, R!OauthAccount(o)
  PROVE  \E x \in Row :
           /\ host' = [host EXCEPT ![o] = x]
           /\ task' = [task EXCEPT !.todo = @ \ {o},
                                   !.isolated = IF R!Wanted(o) /\ host[o].row # "on"
                                                THEN @ \cup {o} ELSE @]
           /\ x.known /\ (x.said => x.member) /\ host[o].maps \subseteq x.maps
           /\ IF R!Wanted(o) THEN /\ x.row = host[o].row /\ (x.row = "on" => x.member)
                                  /\ task.kind = "apply" => R!Of(o) \subseteq x.maps
              ELSE x.row = "off"
<1> DEFINE h == host[o]
           joins == R!Wanted(o) /\ ~(R!Wanted(o) /\ h.row # "on")
           put == IF task.kind = "apply" \/ h.said # joins THEN R!Put(h, o, joins) ELSE h
           x == IF ~R!Wanted(o) THEN [put EXCEPT !.row = "off"]
                ELSE IF task.kind = "apply" THEN [put EXCEPT !.maps = @ \cup R!Of(o)] ELSE put
<1>1. h \in Row /\ h.known /\ (h.said => h.member)
  BY DEF RoutingInv, RoutingTyped, HostIsRight, R!Owners
<1>2. R!Of(o) \subseteq Models
  BY EntriesAreNumbered DEF R!Of, RoutingInv, RoutingTyped
<1>3. joins \in BOOLEAN
  OBVIOUS
<1>4. /\ put \in Row /\ put.known /\ put.row = h.row /\ put.maps = h.maps
      /\ (put.said => put.member) /\ (joins => put.member)
  <2>1. CASE task.kind = "apply" \/ h.said # joins
    <3>1. put = R!Put(h, o, joins)
      BY <2>1
    <3> HIDE DEF put, joins
    <3> QED
      BY <1>1, <1>3, <3>1, PutShape
  <2>2. CASE ~(task.kind = "apply" \/ h.said # joins)
    <3>1. put = h /\ h.said = joins
      BY <2>2
    <3> HIDE DEF put, joins
    <3> QED
      BY <1>1, <3>1
  <2> QED
    BY <2>1, <2>2
<1>5. /\ host' = [host EXCEPT ![o] = x]
      /\ task' = [task EXCEPT !.todo = @ \ {o},
                              !.isolated = IF R!Wanted(o) /\ h.row # "on" THEN @ \cup {o} ELSE @]
  BY DEF R!OauthAccount
<1>6. R!Wanted(o) /\ h.row = "on" => joins
  OBVIOUS
<1> HIDE DEF put, joins
<1>7. CASE ~R!Wanted(o)
  <2>1. x = [put EXCEPT !.row = "off"]
    BY <1>7
  <2>2. x \in Row /\ x.known /\ (x.said => x.member) /\ x.maps = h.maps /\ x.row = "off"
    BY <1>4, <2>1 DEF Row
  <2> HIDE DEF x
  <2> QED
    BY <1>5, <1>7, <2>2
<1>8. CASE R!Wanted(o) /\ task.kind = "apply"
  <2>1. x = [put EXCEPT !.maps = @ \cup R!Of(o)]
    BY <1>8
  <2>2. /\ x \in Row /\ x.known /\ (x.said => x.member) /\ x.maps = h.maps \cup R!Of(o)
        /\ x.row = h.row /\ x.member = put.member
    BY <1>2, <1>4, <2>1 DEF Row
  <2> HIDE DEF x
  <2> QED
    BY <1>4, <1>5, <1>6, <1>8, <2>2
<1>9. CASE R!Wanted(o) /\ task.kind # "apply"
  <2>1. x = put
    BY <1>9
  <2> HIDE DEF x
  <2> QED
    BY <1>4, <1>5, <1>6, <1>9, <2>1
<1> QED
  BY <1>7, <1>8, <1>9

LEMMA OauthKeepsRouting ==
  ASSUME RoutingInv, NEW o \in Accounts, task.at = "accounts", o \in task.todo, R!OauthAccount(o),
         UNCHANGED <<config, routes, shown, last, applied, clean>>
  PROVE  RoutingInv'
<1> USE DEF RoutingInv
<1>1. PICK x \in Row :
        /\ host' = [host EXCEPT ![o] = x]
        /\ task' = [task EXCEPT !.todo = @ \ {o},
                                !.isolated = IF R!Wanted(o) /\ host[o].row # "on"
                                             THEN @ \cup {o} ELSE @]
        /\ x.known /\ (x.said => x.member) /\ host[o].maps \subseteq x.maps
        /\ IF R!Wanted(o) THEN /\ x.row = host[o].row /\ (x.row = "on" => x.member)
                               /\ task.kind = "apply" => R!Of(o) \subseteq x.maps
           ELSE x.row = "off"
  BY OauthShape
<1>2. /\ DOMAIN task' = TaskFields /\ task'.at = "accounts" /\ task'.kind = task.kind
      /\ task'.todo = task.todo \ {o}
      /\ task'.isolated = IF R!Wanted(o) /\ host[o].row # "on" THEN task.isolated \cup {o}
                          ELSE task.isolated
  BY <1>1 DEF RoutingTyped, TaskFields
<1>3. o \in R!Owners /\ host'[o] = x /\ \A b \in R!Owners : b # o => host'[b] = host[b]
  BY <1>1 DEF RoutingTyped, R!Owners
<1>4. RoutingTyped'
  BY <1>1, <1>2 DEF RoutingTyped
<1>5. HostIsRight' /\ TaskIsRight'
  BY <1>1, <1>2, <1>3 DEF HostIsRight, TaskIsRight, R!Owners
<1>6. ChannelsAreUp'
  <2>1. \A i \in R!Keyed(config) : R!Owner(config, i) \in R!Owners /\ R!Owner(config, i) # o
    BY EntriesAreNumbered DEF R!Keyed, R!OAuth, RoutingTyped
  <2> QED
    BY <1>2, <1>3, <2>1 DEF ChannelsAreUp
<1>7. AccountsAreMapped'
  <2> SUFFICES ASSUME applied \/ task.kind = "apply", NEW a \in Accounts, R!Wanted(a),
                      ~(task.kind = "apply" /\ a \in task.todo \ {o})
               PROVE  R!Of(a) \subseteq host'[a].maps
    BY <1>2 DEF AccountsAreMapped, R!Wanted, R!Of
  <2>1. CASE a = o
    <3>1. CASE task.kind = "apply"
      BY <1>1, <1>3, <2>1, <3>1
    <3>2. CASE task.kind # "apply"
      <4>1. R!Of(a) \subseteq host[a].maps
        BY <3>2 DEF AccountsAreMapped
      <4> QED
        BY <1>1, <1>3, <2>1, <4>1
    <3> QED
      BY <3>1, <3>2
  <2>2. CASE a # o
    <3>1. host'[a] = host[a]
      BY <1>3, <2>2 DEF R!Owners
    <3> QED
      BY <2>2, <3>1 DEF AccountsAreMapped
  <2> QED
    BY <2>1, <2>2
<1>8. Seen'
  <2> SUFFICES ASSUME clean
               PROVE  LET S == Accounts \ (task.todo \ {o}) IN
                      /\ \A a \in S : IF R!Wanted(a) THEN host'[a].row = "on" => host'[a].member
                                      ELSE host'[a].row = "off"
                      /\ task'.isolated = {a \in S : R!Wanted(a) /\ host'[a].row # "on"}
    BY <1>2 DEF Seen, AccountsAreDone, Isolated, R!Wanted
  <2> DEFINE S == Accounts \ task.todo
  <2>1. Accounts \ (task.todo \ {o}) = S \cup {o}
    OBVIOUS
  <2>2. AccountsAreDone(S) /\ task.isolated = Isolated(S) /\ o \notin S
    BY DEF Seen
  <2>3. \A a \in S : host'[a] = host[a]
    BY <1>3 DEF R!Owners
  <2>4. \A a \in S \cup {o} : IF R!Wanted(a) THEN host'[a].row = "on" => host'[a].member
                              ELSE host'[a].row = "off"
    BY <1>1, <1>3, <2>2, <2>3 DEF AccountsAreDone
  <2>5. task'.isolated = {a \in S \cup {o} : R!Wanted(a) /\ host'[a].row # "on"}
    <3> HIDE DEF S
    <3>1. CASE R!Wanted(o) /\ host[o].row # "on"
      BY <1>1, <1>2, <1>3, <2>2, <2>3, <3>1 DEF Isolated
    <3>2. CASE ~(R!Wanted(o) /\ host[o].row # "on")
      BY <1>1, <1>2, <1>3, <2>2, <2>3, <3>2 DEF Isolated
    <3> QED
      BY <3>1, <3>2
  <2> QED
    BY <2>1, <2>4, <2>5
<1>9. Published' /\ Finished'
  BY <1>2 DEF Published, Finished
<1> QED
  BY <1>4, <1>5, <1>6, <1>7, <1>8, <1>9

\* A channel of the present configuration stays as it is; another one leaves the group.
LEMMA StaleKeepsRouting ==
  ASSUME RoutingInv, NEW o \in R!Owners \ Accounts, task.at = "accounts", R!StaleChannel(o),
         UNCHANGED <<config, routes, shown, last, applied, clean>>
  PROVE  RoutingInv'
<1> USE DEF RoutingInv
<1> DEFINE x == IF host[o].said /\ o \notin R!Managed THEN R!Put(host[o], o, FALSE) ELSE host[o]
<1>1. /\ x \in Row /\ (x.said => x.member) /\ x.maps = host[o].maps
      /\ o \in R!Managed => x = host[o]
  <2>1. host[o] \in Row /\ (host[o].said => host[o].member)
    BY DEF RoutingTyped, HostIsRight
  <2>2. CASE host[o].said /\ o \notin R!Managed
    <3> DEFINE p == R!Put(host[o], o, FALSE)
    <3>1. p \in Row /\ p.maps = host[o].maps /\ p.said = FALSE
      BY <2>1, PutShape
    <3>2. x = p
      BY <2>2
    <3> HIDE DEF p, x
    <3> QED
      BY <2>2, <3>1, <3>2
  <2>3. CASE ~(host[o].said /\ o \notin R!Managed)
    <3>1. x = host[o]
      BY <2>3
    <3> HIDE DEF x
    <3> QED
      BY <2>1, <3>1
  <2> QED
    BY <2>2, <2>3
<1>2. host' = [host EXCEPT ![o] = x]
  BY DEF R!StaleChannel, RoutingTyped
<1> HIDE DEF x
<1>3. /\ DOMAIN task' = TaskFields /\ task'.at = "accounts" /\ task'.kind = task.kind
      /\ task'.todo = task.todo \ {o} /\ task'.isolated = task.isolated
  BY DEF R!StaleChannel, RoutingTyped, TaskFields
<1>4. host'[o] = x /\ \A b \in R!Owners : b # o => host'[b] = host[b]
  BY <1>2 DEF RoutingTyped
<1>5. \A a \in Accounts : a # o /\ host'[a] = host[a]
  BY <1>4 DEF R!Owners
<1>6. RoutingTyped'
  BY <1>1, <1>2, <1>3 DEF RoutingTyped
<1>7. HostIsRight' /\ TaskIsRight'
  BY <1>1, <1>3, <1>4, <1>5 DEF HostIsRight, TaskIsRight
<1>8. ChannelsAreUp'
  <2>1. \A i \in R!Keyed(config) : /\ R!Owner(config, i) \in R!Owners
                                   /\ R!Owner(config, i) \in R!Managed
    BY EntriesAreNumbered DEF R!Keyed, R!Managed, RoutingTyped
  <2>2. \A i \in R!Keyed(config) : host'[R!Owner(config, i)] = host[R!Owner(config, i)]
    BY <1>1, <1>4, <2>1
  <2> QED
    BY <1>3, <2>2 DEF ChannelsAreUp
<1>9. AccountsAreMapped'
  BY <1>3, <1>5 DEF AccountsAreMapped, R!Wanted, R!Of
<1>10. Seen'
  <2>1. Accounts \ (task.todo \ {o}) = Accounts \ task.todo
    BY <1>5
  <2> QED
    BY <1>3, <1>5, <2>1 DEF Seen, AccountsAreDone, Isolated, R!Wanted
<1>11. Published' /\ Finished'
  BY <1>3 DEF Published, Finished
<1> QED
  BY <1>6, <1>7, <1>8, <1>9, <1>10, <1>11

LEMMA RoutingStutters == ASSUME RoutingInv, UNCHANGED R!vars PROVE RoutingInv'
<1>1. UNCHANGED <<config, host, routes, shown, task, last, applied, clean>>
  BY DEF R!vars
<1> QED
  BY <1>1 DEF RoutingInv, RoutingTyped, HostIsRight, TaskIsRight, ChannelsAreUp, AccountsAreMapped,
     Seen, Published, Finished, AccountsAreDone, Isolated, R!Wanted, R!Of

LEMMA RoutingSteps == RoutingInv /\ [R!Next]_R!vars => RoutingInv'
<1> SUFFICES ASSUME RoutingInv, [R!Next]_R!vars PROVE RoutingInv'
  OBVIOUS
<1>1. CASE R!Apply
  BY <1>1, ApplyKeepsRouting
<1>2. CASE R!Group
  BY <1>2, GroupKeepsRouting
<1>3. CASE R!Channel
  BY <1>3, ChannelKeepsRouting
<1>4. CASE R!List
  BY <1>4, ListKeepsRouting
<1>5. CASE R!Sync
  BY <1>5, SyncKeepsRouting
<1>6. CASE R!GroupModels
  BY <1>6, GroupModelsKeepsRouting
<1>7. CASE R!Routes
  BY <1>7, RoutesKeepsRouting
<1>8. CASE R!Rest
  BY <1>8, RestKeepsRouting
<1>9. CASE R!Fail
  BY <1>9, FailKeepsRouting
<1>10. ASSUME NEW o \in R!Owners, R!Account(o) PROVE RoutingInv'
  <2>1. /\ task.at = "accounts" /\ o \in task.todo
        /\ UNCHANGED <<config, routes, shown, last, applied, clean>>
        /\ IF o \in Accounts THEN R!OauthAccount(o) ELSE R!StaleChannel(o)
    BY <1>10 DEF R!Account, R!Counters
  <2> QED
    BY <2>1, OauthKeepsRouting, StaleKeepsRouting
<1>11. ASSUME NEW o \in R!Owners, NEW row \in {"on", "error", "off", "worn"}, R!Turn(o, row)
       PROVE  RoutingInv'
  BY <1>11, TurnKeepsRouting
<1>12. CASE UNCHANGED R!vars
  BY <1>12, RoutingStutters
<1> QED
  BY <1>1, <1>2, <1>3, <1>4, <1>5, <1>6, <1>7, <1>8, <1>9, <1>10, <1>11, <1>12 DEF R!Next

\* Whatever is applied, synced, fails or is cancelled (sync_router_state, sync_backend), the Host
\* keeps the channels and mappings of the applied configuration, and what a task has published
\* follows from the rows that it has seen.
THEOREM RoutingInvariant == R!Spec => []RoutingInv
<1>1. R!Init => RoutingInv
  BY RoutingBegins
<1>2. RoutingInv /\ [R!Next]_R!vars => RoutingInv'
  BY RoutingSteps
<1> QED
  BY <1>1, <1>2, PTL DEF R!Spec

\* When an apply (sync_router_state) and whatever routing syncs came after it have finished,
\* every source of the configuration that is in order serves its model under the name that is
\* shown, and an account that is not chosen serves nothing, whatever was applied, failed or was
\* cancelled before and whichever rows changed before; one that changed since excuses (clean).
THEOREM SourcesServe == R!Spec => []ServedAsApplied
<1>1. RoutingInv => ServedAsApplied
  BY RoutingIsServed
<1> QED
  BY <1>1, RoutingInvariant, PTL
==============================================================================
