------------------------------ MODULE DataPlane ------------------------------
(***************************************************************************)
(* The Router Host data plane: what becomes of a request between the       *)
(* moment it arrives and its one answer.  Each request is a task of its    *)
(* own; it plans (select a pool, bind the conversation to it), sends the   *)
(* body to CLIProxyAPI, and either answers or excludes the pool and plans  *)
(* again.  Requests share the route table, which a control-plane sync      *)
(* replaces at any time, the in-memory continuation bindings and the       *)
(* request ledger.                                                         *)
(***************************************************************************)
EXTENDS Routing

CONSTANTS
  Requests,        \* the requests that may arrive
  RequestIds,      \* x-request-id values
  IdOf,            \* the id a request arrives with: clients may reuse one
  Keys, NoKey,     \* continuation keys; a request without a conversation
  NoModel,         \* the request names no model: it is passed through
  NoProvider,
  Surfaces,        \* the entry points requests use: see Surface below
  Tables,          \* the route tables a sync may publish
  RepliesOf,       \* how CLIProxyAPI may answer a request sent to a pool
  MaxResyncs,      \* bound: table replacements
  MaxRestarts      \* bound: restarts of the Host process

ReplyKinds ==
  { "ok",           \* 2xx, complete JSON body
    "ok_mentions",  \* 2xx whose text contains e.g. "no auth available"
    "quota",        \* 402, or 429/503 with a rate-limit or quota text
    "no_auth",      \* an error whose text says that no credential is usable
    "error",        \* any other status outside 2xx
    "stream",       \* 2xx text/event-stream
    "unreachable",  \* the connection to CLIProxyAPI failed
    "cut" }         \* the body broke off before its end

\* forced: the provider a forced surface (/antigravity/v1) is constrained to;
\* compact: a compact call that the Host answers itself.
Surface == [forced : Providers \cup {NoProvider}, compact : BOOLEAN]

Rows == {"none", "completed", "failed"}
Answers ==
  { "none", "ok", "upstream_error", "exhausted", "cli_down", "interrupted",
    "ingress", "no_route", "owner_removed", "no_credential", "cancelled",
    "lost" }

ASSUME DataPlaneAssumption ==
  /\ IdOf \in [Requests -> RequestIds]
  /\ NoKey \notin Keys
  /\ NoModel \notin Models
  /\ NoProvider \notin Providers
  /\ Surfaces \subseteq Surface
  /\ Tables \subseteq RouteTables
  /\ RepliesOf \in [Pools \cup {NoPool} -> SUBSET ReplyKinds]
  /\ MaxResyncs \in Nat
  /\ MaxRestarts \in Nat

VARIABLES
  table,      \* ControlState.routes
  bindings,   \* HostState.bindings: the pool a conversation is bound to
  req,        \* the task of each request
  ledger,     \* request_ledger: the status in the row of each request id
  spans,      \* request.completed events written for each request
  resyncs, restarts

vars == <<table, bindings, req, ledger, spans, resyncs, restarts>>

Request ==
  [ pc      : {"new", "planning", "selected", "sent", "streaming", "done"},
    model   : Models \cup {NoModel},
    key     : Keys \cup {NoKey},
    surface : Surface,
    pool    : Pools \cup {NoPool},  \* PlanResult.pool_id
    failed  : SUBSET Pools,         \* failed_pools
    carries : BOOLEAN,              \* the planner left the handles in the body
    answer  : Answers,
    \* Observations, read by properties only:
    stripped : SUBSET Providers,  \* where it was sent without the handles
    served : BOOLEAN ]      \* an upstream has answered it with a success

TypeOK ==
  /\ table \in RouteTables
  /\ bindings \in [Keys -> Pools \cup {NoPool}]
  /\ req \in [Requests -> Request]
  /\ ledger \in [RequestIds -> Rows]
  /\ spans \in [Requests -> Nat]
  /\ resyncs \in Nat
  /\ restarts \in Nat

-----------------------------------------------------------------------------
Bound(key) == IF key = NoKey THEN NoPool ELSE bindings[key]

\* The table as the planner of request q sees it.
View(q) ==
  IF q.surface.forced = NoProvider THEN table
  ELSE FilteredByProvider(table, q.surface.forced)

InFlight(r) == req[r].pc \notin {"new", "done"}

\* A slip for the sensitivity check: the row is replaced.
OverwriteLedger(r, status) == ledger' = [ledger EXCEPT ![IdOf[r]] = status]

\* INSERT OR IGNORE on the unique request_id: the first row stays.
RecordLedger(r, status) ==
  ledger' = IF ledger[IdOf[r]] = "none"
            THEN [ledger EXCEPT ![IdOf[r]] = status] ELSE ledger

\* The request is answered and its terminal span is written.
Finish(r, q, answer) ==
  /\ req' = [req EXCEPT ![r] = [q EXCEPT !.pc = "done", !.answer = answer]]
  /\ spans' = [spans EXCEPT ![r] = @ + 1]

Init ==
  /\ table \in Tables
  /\ bindings = [k \in Keys |-> NoPool]
  /\ req = [r \in Requests |->
             [ pc |-> "new", model |-> NoModel, key |-> NoKey,
               surface |-> [forced |-> NoProvider, compact |-> FALSE],
               pool |-> NoPool, failed |-> {}, carries |-> FALSE,
               answer |-> "none", stripped |-> {},
               served |-> FALSE ]]
  /\ ledger = [i \in RequestIds |-> "none"]
  /\ spans = [r \in Requests |-> 0]
  /\ resyncs = 0
  /\ restarts = 0

-----------------------------------------------------------------------------
Arrive(r) ==
  /\ req[r].pc = "new"
  /\ \E m \in Models \cup {NoModel}, k \in Keys \cup {NoKey}, s \in Surfaces :
       req' = [req EXCEPT ![r].pc = "planning", ![r].model = m, ![r].key = k,
                          ![r].surface = s]
  /\ UNCHANGED <<table, bindings, ledger, spans, resyncs, restarts>>

\* Answered without a plan: 401 without the Router key, 413 for a large body,
\* 400 for invalid JSON, the public model list, a relayed WebSocket.
AnswerAtIngress(r) ==
  /\ req[r].pc = "new"
  /\ Finish(r, req[r], "ingress")
  /\ UNCHANGED <<table, bindings, ledger, resyncs, restarts>>

\* plan_request up to the choice of a pool: the table and the bindings are
\* cloned under their locks, the choice is made on the clones.
PlanSelect(r) ==
  LET q == req[r]
      bound == Bound(q.key)
      view == View(q)
  IN  /\ q.pc = "planning"
      /\ q.model # NoModel
      /\ \E p \in SelectPool(view, q.model, bound, q.failed) :
           LET drop == ShouldDropPreviousResponse(view, bound, p)
           IN  req' = [req EXCEPT
                        ![r].pc = "selected",
                        ![r].pool = p,
                        ![r].carries = q.key # NoKey /\ ~drop,
                        ![r].stripped = IF drop THEN @ \cup {ProviderOf[p]} ELSE @]
      /\ UNCHANGED <<table, bindings, ledger, spans, resyncs, restarts>>

\* A request without a model is forwarded as it is and binds nothing.
PassThrough(r) ==
  /\ req[r].pc = "planning"
  /\ req[r].model = NoModel
  /\ req' = [req EXCEPT ![r].pc = "selected", ![r].pool = NoPool,
                        ![r].carries = req[r].key # NoKey]
  /\ UNCHANGED <<table, bindings, ledger, spans, resyncs, restarts>>

\* plan_request fails.  The check for a removed owner does not look at the
\* excluded pools, and looks at the same view as the selection.
PlanReject(r) ==
  LET q == req[r]
      bound == Bound(q.key)
      view == View(q)
  IN  /\ q.pc = "planning"
      /\ q.model # NoModel
      /\ SelectPool(view, q.model, bound, q.failed) = {}
      /\ Finish(r, q,
                IF PoolsFor(view, q.model) = {} THEN "no_route"
                ELSE IF OwnerGone(view, bound, {}) THEN "owner_removed"
                ELSE "no_credential")
      /\ UNCHANGED <<table, bindings, ledger, resyncs, restarts>>

\* The rest of plan_request: the conversation is bound to the chosen pool
\* before anything is sent there.
Bind(q) ==
  bindings' = IF q.key = NoKey \/ q.model = NoModel THEN bindings
              ELSE [bindings EXCEPT ![q.key] = q.pool]

BindAndSend(r) ==
  /\ req[r].pc = "selected"
  /\ ~req[r].surface.compact
  /\ Bind(req[r])
  /\ req' = [req EXCEPT ![r].pc = "sent"]
  /\ UNCHANGED <<table, ledger, spans, resyncs, restarts>>

\* A compact call for a model without a compact endpoint is answered here.
BindAndCompact(r) ==
  /\ req[r].pc = "selected"
  /\ req[r].surface.compact
  /\ Bind(req[r])
  /\ RecordLedger(r, "completed")
  /\ Finish(r, req[r], "ok")
  /\ UNCHANGED <<table, resyncs, restarts>>

-----------------------------------------------------------------------------
\* Only a reply with a model can be retried elsewhere.  A missing credential is
\* recognised by the text of the reply, whatever its status.
ShouldFailover(q, reply) ==
  q.model # NoModel /\ reply \in {"quota", "no_auth", "ok_mentions"}

\* A slip for the sensitivity check: the pool that failed is not remembered.
NothingExcluded(q) == q.failed

\* failed_pools after the reply of the current pool.
Excluded(q) == q.failed \cup {q.pool}

\* The failed pool is excluded and the current table still has another one.
FailOver(r) ==
  LET q == req[r]
  IN  /\ q.pc = "sent"
      /\ \E reply \in RepliesOf[q.pool] :
           /\ ShouldFailover(q, reply)
           /\ req' = [req EXCEPT ![r] =
                       [q EXCEPT !.pc = "planning", !.failed = Excluded(q),
                                 !.served = @ \/ reply = "ok_mentions"]]
      /\ HasFallbackPool(table, q.model, Excluded(q))
      /\ UNCHANGED <<table, bindings, ledger, spans, resyncs, restarts>>

AnswerTo(q, reply) ==
  IF reply \in {"ok", "ok_mentions"} THEN "ok"
  ELSE IF reply = "unreachable" THEN "cli_down"
  ELSE IF reply = "cut" THEN "interrupted"
  ELSE IF ShouldFailover(q, reply) THEN "exhausted" ELSE "upstream_error"

\* Any other reply that is not a stream ends the request.
AnswerReply(r) ==
  LET q == req[r]
  IN  /\ q.pc = "sent"
      /\ \E reply \in RepliesOf[q.pool] \ {"stream"} :
           /\ ShouldFailover(q, reply) =>
                ~HasFallbackPool(table, q.model, Excluded(q))
           /\ LET success == reply \in {"ok", "ok_mentions"}
              IN  /\ RecordLedger(r, IF success THEN "completed" ELSE "failed")
                  /\ Finish(r, [q EXCEPT !.served = @ \/ success],
                       AnswerTo(q, reply))
      /\ UNCHANGED <<table, bindings, resyncs, restarts>>

\* A slip for the sensitivity check: a stream is recorded when it starts.
RecordAtStreamStart(r) ==
  /\ req[r].pc = "sent"
  /\ "stream" \in RepliesOf[req[r].pool]
  /\ req' = [req EXCEPT ![r].pc = "streaming", ![r].served = TRUE]
  /\ RecordLedger(r, "completed")
  /\ UNCHANGED <<table, bindings, spans, resyncs, restarts>>

StartStream(r) ==
  /\ req[r].pc = "sent"
  /\ "stream" \in RepliesOf[req[r].pool]
  /\ req' = [req EXCEPT ![r].pc = "streaming", ![r].served = TRUE]
  /\ UNCHANGED <<table, bindings, ledger, spans, resyncs, restarts>>

\* The stream has ended, in order or not (its events are not looked into).
EndStream(r) ==
  /\ req[r].pc = "streaming"
  /\ \E completed \in BOOLEAN :
       /\ RecordLedger(r, IF completed THEN "completed" ELSE "failed")
       /\ Finish(r, req[r], IF completed THEN "ok" ELSE "interrupted")
  /\ UNCHANGED <<table, bindings, resyncs, restarts>>

\* A slip for the sensitivity check: the guard reports when it is dropped even
\* though the request has completed.
AbortReportsAgain(r) ==
  /\ req[r].pc \in {"sent", "streaming", "done"}
  /\ Finish(r, req[r], "cancelled")
  /\ UNCHANGED <<table, bindings, ledger, resyncs, restarts>>

\* The client closes the connection while the handler awaits: the task is
\* dropped, and with it the span guard, which reports the cancellation.
ClientAbort(r) ==
  /\ req[r].pc \in {"sent", "streaming"}
  /\ Finish(r, req[r], "cancelled")
  /\ UNCHANGED <<table, bindings, ledger, resyncs, restarts>>

-----------------------------------------------------------------------------
\* sync_backend replaces the table.
Resync ==
  /\ resyncs < MaxResyncs
  /\ table' \in Tables \ {table}
  /\ resyncs' = resyncs + 1
  /\ UNCHANGED <<bindings, req, ledger, spans, restarts>>

\* CONTINUATION_TTL has passed since the last bind.
Expire(k) ==
  /\ bindings[k] # NoPool
  /\ bindings' = [bindings EXCEPT ![k] = NoPool]
  /\ UNCHANGED <<table, req, ledger, spans, resyncs, restarts>>

\* The Host dies and starts again: the tasks and the bindings are gone (their
\* copy in SQLite is never read back), the ledger stays.
Restart ==
  /\ restarts < MaxRestarts
  /\ restarts' = restarts + 1
  /\ bindings' = [k \in Keys |-> NoPool]
  /\ table' \in Tables
  /\ req' = [r \in Requests |->
              IF InFlight(r)
              THEN [req[r] EXCEPT !.pc = "done", !.answer = "lost"] ELSE req[r]]
  /\ UNCHANGED <<ledger, spans, resyncs>>

\* The steps the Host takes by itself once CLIProxyAPI has answered.
Step(r) ==
  \/ PlanSelect(r) \/ PlanReject(r) \/ PassThrough(r)
  \/ BindAndSend(r) \/ BindAndCompact(r)
  \/ FailOver(r) \/ AnswerReply(r) \/ StartStream(r) \/ EndStream(r)

Next ==
  \/ \E r \in Requests :
       Arrive(r) \/ AnswerAtIngress(r) \/ Step(r) \/ ClientAbort(r)
  \/ \E k \in Keys : Expire(k)
  \/ Resync
  \/ Restart

Spec == Init /\ [][Next]_vars

\* A spawned task is polled until it ends, and CLIProxyAPI either answers a
\* request or loses its connection.
FairSpec == Spec /\ \A r \in Requests : WF_vars(Step(r))

-----------------------------------------------------------------------------
\* A request never goes twice to a pool that has failed it, whatever the other
\* requests of the conversation bind and whatever table is published meanwhile.
NoPoolTriedTwice ==
  \A r \in Requests :
    req[r].pc \in {"selected", "sent", "streaming"} =>
      req[r].pool \notin req[r].failed

\* An answered request has written one terminal span and no other request has:
\* fail-overs, streams and aborts neither lose it nor write a second one.
OneTerminalSpan ==
  \A r \in Requests :
    spans[r] = IF req[r].pc = "done" /\ req[r].answer # "lost" THEN 1 ELSE 0

RowFor(answer) ==
  IF answer = "ok" THEN "completed"
  ELSE IF answer \in {"upstream_error", "exhausted", "cli_down", "interrupted"}
       THEN "failed" ELSE "none"

\* The ledger tells how requests were answered, also when several share an
\* x-request-id: a row is there exactly when one of them has been answered in a
\* way that leaves one, and tells the answer of one of them.
LedgerTellsTheAnswer ==
  \A i \in RequestIds :
    LET answers == {RowFor(req[r].answer) : r \in {s \in Requests : IdOf[s] = i}}
    IN  IF ledger[i] = "none" THEN answers \subseteq {"none"}
        ELSE ledger[i] \in answers

\* A row of the request ledger is final: a second request with the same
\* x-request-id, concurrent or after a restart, does not rewrite it.
LedgerRowsAreFinal ==
  [][\A i \in RequestIds : ledger[i] # "none" => ledger'[i] = ledger[i]]_ledger

\* The promise of fail-over: a request ends, and is served when its model always has
\* an available pool with a usable credential, however many other pools drain and
\* whatever tables come and go.  (For runs whose tables and replies meet the premise.)
DrainedPoolsAreSkipped ==
  \A r \in Requests :
    req[r].pc = "planning" ~>
      req[r].pc = "done" /\ req[r].answer \in {"ok", "ingress", "cancelled", "lost"}

\* A request that was sent to a provider without the conversation's handles,
\* because they belong to another provider, does not take them there on a later
\* attempt: "A Codex thread id from another model is invalid."
StrippedStaysStripped ==
  \A r \in Requests :
    (req[r].pc = "sent" /\ req[r].model # NoModel /\ req[r].carries) =>
      ProviderOf[req[r].pool] \notin req[r].stripped

\* A reply is taken for a missing credential when it is the upstream's 503, so
\* a request an upstream has served is not sent to a second one.
ServedOnce ==
  \A r \in Requests : req[r].pc \in {"planning", "selected", "sent"} => ~req[r].served
==============================================================================
