----------------------------- MODULE MCDataPlane -----------------------------
(***************************************************************************)
(* The routes of the Host, on small instances: how requests use them        *)
(* (DataPlane: an OpenAI login, pool 1, ahead of two xAI logins of the same  *)
(* priority, pools 2 and 3, all for model m1, and pool 4 for model m2), and  *)
(* how an applied configuration becomes routes (Deployment: two OpenAI       *)
(* logins, an xAI login and two API channels).  A behaviour is of one of     *)
(* the two.                                                                 *)
(***************************************************************************)
EXTENDS DataPlane, Sequences, TLC

CONSTANTS m1, m2, openai, xai, r1, r2, i1, i2, k1,
          Parts, Channels, Accounts, Platform, OpenAI, Elsewhere, Configs, MaxApplies, MaxFaults, MaxTurns,
          o1, o2, g1, c1, c2

VARIABLES part,
          config, host, routes, buried, shown, task, last, applied, clean,
          applies, faults, turns

MCModelOf == [p \in Pools |-> IF p = 4 THEN m2 ELSE m1]
MCProviderOf == [p \in Pools |-> IF p \in {2, 3} THEN xai ELSE openai]
MCPriorityOf == [p \in Pools |-> IF p \in {2, 3} THEN 5 ELSE 1]

SharedId == (r1 :> i1) @@ (r2 :> i1)

Public == [forced |-> NoProvider, compact |-> FALSE]
Compact == [forced |-> NoProvider, compact |-> TRUE]
ForcedXai == [forced |-> xai, compact |-> FALSE]

AllSurfaces == {Public, Compact, ForcedXai}

AllUp == [listed |-> Pools, available |-> Pools]
\* What a sync publishes when a pool pauses, recovers, or loses its account.
ChangingTables ==
  { AllUp,
    [listed |-> Pools, available |-> Pools \ {1}],
    [listed |-> Pools \ {2}, available |-> Pools \ {2}],
    [listed |-> {4}, available |-> {}] }
AnyReply == [p \in Pools \cup {NoPool} |-> ReplyKinds]

\* Everything behind one model; another model, without the fallback; other entries, with a model
\* that only a channel without a key and an account not chosen have; and one account for
\* both models, one of them with a separate entry.
Entry(o, m) == [owner |-> o, model |-> m]
AllForOne ==
  [entries |-> <<Entry(o1, m1), Entry(o2, m1), Entry(g1, m1), Entry(c1, m1)>>,
   chosen |-> {o1, o2, g1}, split |-> {}, fallback |-> {c1}, keyless |-> {}]
VariousConfigs ==
  { AllForOne,
    [AllForOne EXCEPT !.entries = Append(@, Entry(c2, m2)), !.chosen = {o1, o2},
                      !.fallback = {}],
    [AllForOne EXCEPT !.entries = <<Entry(c1, m1), Entry(o1, m1), Entry(c2, m2), Entry(g1, m2)>>,
                      !.chosen = {o1}, !.keyless = {c2}],
    [AllForOne EXCEPT !.entries = <<Entry(c2, m2), Entry(o1, m1), Entry(o1, m2)>>,
                      !.chosen = {o1}, !.split = {m2}] }
SeparateEntries ==
  {[AllForOne EXCEPT !.entries = <<Entry(o1, m1), Entry(c1, m1)>>, !.chosen = {o1}, !.split = {m1}]}

MCPlatform == [a \in Accounts |-> IF a = g1 THEN xai ELSE openai]

\* The entries of a configuration name channels and accounts, and a channel has one entry: its
\* account in the Host is named after its model (api_account_name, deployment.rs:18).
ASSUME DeploymentAssumption ==
  /\ Channels \cap Accounts = {}
  /\ \A c \in Configs :
       /\ c.entries \in Seq([owner : Channels \cup Accounts, model : Models])
       /\ \A i, j \in DOMAIN c.entries :
            c.entries[i].owner \in Channels /\ c.entries[i].owner = c.entries[j].owner => i = j

R == INSTANCE Deployment
RVars == <<config, host, routes, buried, shown, task, last, applied, clean, applies, faults, turns>>

\* The part that does not run stays in one of its initial states.
StillHost == table = AllUp
MCInit == /\ part \in Parts /\ Init /\ R!Init
          /\ part = "routing" => StillHost
          /\ config = CHOOSE c \in Configs : TRUE   \* the first apply sets it
MCNext == /\ UNCHANGED part
          /\ \/ part = "requests" /\ Next /\ UNCHANGED RVars
             \/ part = "routing" /\ R!Next /\ UNCHANGED vars
MCSpec == MCInit /\ [][MCNext]_<<part, vars, RVars>>

ServedAsApplied == R!ServedAsApplied
OnlyTheEntriesServe == R!OnlyTheEntriesServe
==============================================================================
