-------------------------------- MODULE MCTurn --------------------------------
(***************************************************************************)
(* What a turn of Codex goes through, on small instances: the gateway       *)
(* (Gateway: two characters, in pieces of one or two of them, so that a     *)
(* repeated answer may be cut differently or say something else), and the   *)
(* fail-over of the Host (DataPlane: an OpenAI login, pool 1, ahead of two  *)
(* xAI logins of one model).  The two see only each other's replies; a      *)
(* behaviour is of one of them.                                             *)
(***************************************************************************)
EXTENDS Gateway

CONSTANTS Pools, Models, Providers, Requests, RequestIds, Keys, MaxResyncs, MaxRestarts,
          NoPool, NoKey, NoModel, NoProvider, m1, openai, xai, r1, r2, i1, i2, k1

VARIABLES part, table, bindings, req, ledger, spans, resyncs, restarts

Pieces == {<<"a">>, <<"b">>, <<"a", "b">>}

\* Pool 3 can serve in every table, and is healthy; the others may be drained at any time.
Pool3Steady == {[listed |-> Pools, available |-> S] : S \in {T \in SUBSET Pools : 3 \in T}}
Pool3Healthy ==
  [p \in Pools \cup {NoPool} |->
     IF p \in {3, NoPool} THEN {"ok"} ELSE {"ok", "quota", "no_auth"}]

D == INSTANCE DataPlane WITH
       ModelOf <- [p \in Pools |-> m1],
       ProviderOf <- [p \in Pools |-> IF p = 1 THEN openai ELSE xai],
       PriorityOf <- [p \in Pools |-> IF p = 1 THEN 1 ELSE 5],
       IdOf <- [r \in Requests |-> IF r = r1 THEN i1 ELSE i2],
       Surfaces <- {[forced |-> NoProvider, compact |-> FALSE]},
       Tables <- Pool3Steady,
       RepliesOf <- Pool3Healthy

DVars == <<table, bindings, req, ledger, spans, resyncs, restarts>>

\* The part that does not run stays in one of its initial states.
MCInit == /\ Init /\ D!Init
          /\ \/ part = "gateway" /\ table.available = Pools
             \/ part = "host" /\ ~hold

MCNext == /\ UNCHANGED part
          /\ \/ part = "gateway" /\ Next /\ UNCHANGED DVars
             \/ part = "host" /\ D!Next /\ UNCHANGED vars

\* Of each part, what its FairSpec says.
MCFairSpec ==
  /\ MCInit /\ [][MCNext]_<<part, vars, DVars>>
  /\ WF_vars(part = "gateway" /\ Opening) /\ WF_vars(part = "gateway" /\ StreamEnd)
  /\ \A r \in Requests : WF_DVars(part = "host" /\ D!Step(r))

DrainedPoolsAreSkipped == D!DrainedPoolsAreSkipped

\* No turn stays active for ever: retries, resumptions and nudges are bounded
\* (Gateway!EveryTurnEnds, of the behaviours of the gateway).
TurnsEnd == part = "gateway" => EveryTurnEnds
===============================================================================
