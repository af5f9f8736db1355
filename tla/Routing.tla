------------------------------- MODULE Routing -------------------------------
(***************************************************************************)
(* The pure part of Router scheduling: the table of pools that the Router  *)
(* Host publishes, the provider view that a forced surface sees, and the   *)
(* choice of one pool for one request.  Credential selection inside a pool *)
(* belongs to CLIProxyAPI and is not visible here.                         *)
(*                                                                         *)
(* A pool has one route (internal prefixes are unique and derive from the  *)
(* pool id), so the public model, the provider and the priority of a route *)
(* are functions of its pool.  A table says which pools are listed (the    *)
(* enabled routes) and which of those can serve at the moment.             *)
(***************************************************************************)
EXTENDS Integers

CONSTANTS
  Pools,       \* pool ids, numbered in the order of their id strings
  NoPool,      \* "no pool": an absent binding, a plan without a model
  Models,      \* public models
  Providers,   \* normalised platform names
  ModelOf,     \* the public model a pool serves
  ProviderOf,  \* the provider a pool belongs to
  PriorityOf   \* the priority of its route: a smaller number goes first

ASSUME RoutingAssumption ==
  /\ Pools \subseteq Nat
  /\ NoPool \notin Pools
  /\ ModelOf \in [Pools -> Models]
  /\ ProviderOf \in [Pools -> Providers]
  /\ PriorityOf \in [Pools -> Nat]

RouteTables ==
  {t \in [listed : SUBSET Pools, available : SUBSET Pools] :
     t.available \subseteq t.listed}

\* The order in which RouteTable::new sorts the pools of one model.
Before(p, q) ==
  \/ PriorityOf[p] < PriorityOf[q]
  \/ PriorityOf[p] = PriorityOf[q] /\ p < q

FilteredByProvider(t, provider) ==
  LET kept == {p \in t.listed : ProviderOf[p] = provider}
  IN  [listed |-> kept, available |-> t.available \cap kept]

PoolsFor(t, model) == {p \in t.listed : ModelOf[p] = model}

Eligible(t, model, exclude) == (PoolsFor(t, model) \cap t.available) \ exclude

HasFallbackPool(t, model, exclude) == Eligible(t, model, exclude) # {}

\* A binding whose pool left the table, unless this request already failed there.
OwnerGone(t, bound, exclude) == bound \notin t.listed \cup exclude \cup {NoPool}

\* A slip for the sensitivity check: the owner is kept although it has failed.
SelectFailedOwner(t, model, bound, exclude) ==
  LET eligible == Eligible(t, model, exclude)
  IN  IF bound \in Eligible(t, model, {}) THEN {bound}
      ELSE {p \in eligible : \A q \in eligible \ {p} : Before(p, q)}

\* The pool selected for a request: a singleton, or {} when selection fails.
SelectPool(t, model, bound, exclude) ==
  LET eligible == Eligible(t, model, exclude)
  IN  IF bound \in eligible THEN {bound}
      ELSE IF OwnerGone(t, bound, exclude) THEN {}
      ELSE {p \in eligible : \A q \in eligible \ {p} : Before(p, q)}

\* The continuation handles in the request body belong to another provider.
ShouldDropPreviousResponse(t, bound, selected) ==
  bound \in t.listed /\ ProviderOf[bound] # ProviderOf[selected]
==============================================================================
