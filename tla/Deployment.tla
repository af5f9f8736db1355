----------------------------- MODULE Deployment -----------------------------
(***************************************************************************)
(* How a configuration becomes the live routing of the Host: the plan of     *)
(* routes (build_route_plan in logic/catalog.rs), the requests by which an   *)
(* apply and a routing sync bring it to the Host (logic/deployment.rs), what  *)
(* the Host makes of each (control_plane/http_compat.rs), and the pools that  *)
(* its sync then attaches to the routes.  A request is one step; the list     *)
(* and the details an apply has read may be old when it writes.               *)
(***************************************************************************)
EXTENDS Naturals, Sequences, FiniteSets

CONSTANTS Channels,       \* API channels
          Accounts,       \* OAuth accounts, known to the Host from their logins
          Platform,       \* of each account
          OpenAI,         \* the platform of a channel's routes
          Elsewhere,      \* accounts and channels that are in a group of the user's too
          Configs,        \* the configurations that may be applied, see Entry
          MaxApplies, MaxFaults, MaxTurns

VARIABLES config,         \* of the last apply
          host,           \* the Host's accounts, of either kind
          routes,         \* its composite routes
          buried,         \* those it has soft-deleted, which still hold their unique key
          shown,          \* models of the managed group; none: there is no group
          task,           \* an apply or a routing sync
          last,           \* how the last one ended
          applied,        \* observation: an apply of config has finished
          clean,          \* observation: since it began the last task missed nothing
          applies, faults, turns
vars == <<config, host, routes, buried, shown, task, last, applied, clean, applies, faults,
          turns>>

Owners == Channels \cup Accounts
Idle == [at |-> "idle", kind |-> "none", todo |-> {}, rows |-> <<>>, isolated |-> {}]
Absent == [known |-> FALSE, row |-> "on", said |-> FALSE, member |-> FALSE, maps |-> {}]

\* A configuration has entries, an owner and a model each; it names the accounts that
\* are chosen, the models for which its policy or its switch allows no fallback (split),
\* the channels that are eligible as a fallback, and those without a key.
Owner(c, i) == c.entries[i].owner
Model(c, i) == c.entries[i].model
Entry(c) == DOMAIN c.entries

-----------------------------------------------------------------------------
(* build_route_plan. *)

OAuth(c, i) == Owner(c, i) \in Accounts
Chosen(c, i) == OAuth(c, i) => Owner(c, i) \in c.chosen
Namesakes(c, i) == {j \in Entry(c) : Model(c, j) = Model(c, i) /\ Chosen(c, j)}
\* An API entry that stands behind the subscriptions of its model, as one model.
Merged(c, i) ==
    ~OAuth(c, i) /\ Model(c, i) \notin c.split /\ \E j \in Namesakes(c, i) : OAuth(c, j)
\* split_public_model_id: an API entry beside others has a name of its own.
Public(c, i) ==
    [model |-> Model(c, i),
     of |-> IF ~OAuth(c, i) /\ Model(c, i) \in c.split /\ Cardinality(Namesakes(c, i)) > 1
            THEN <<Owner(c, i)>> ELSE <<>>]
Joins(c, i) == IF Merged(c, i) THEN Owner(c, i) \in c.fallback ELSE Chosen(c, i)
\* include_in_catalog: the first of each public name.
Candidate(c, i) == Chosen(c, i) /\ ~Merged(c, i)
Listed(c, i) ==
    Candidate(c, i) /\ \A j \in Entry(c) : j < i /\ Candidate(c, j) => Public(c, j) # Public(c, i)

Publics(c, S) == {Public(c, i) : i \in S}
Usable(c, i, isolated) == OAuth(c, i) => Owner(c, i) \notin isolated

\* servable_routes: rows of the catalog that are not isolated, or have a channel behind...
Rows(c, isolated) ==
    LET channels == Publics(c, {i \in Entry(c) : ~OAuth(c, i) /\ Joins(c, i)}) IN
    {i \in Entry(c) : Listed(c, i) /\ (Usable(c, i, isolated) \/ Public(c, i) \in channels)}
\* ...a healthy account in the place of an isolated one of the same name...
Promoted(c, isolated) ==
    LET free == {i \in Entry(c) : /\ OAuth(c, i) /\ ~Listed(c, i)
                                  /\ Joins(c, i) /\ Usable(c, i, isolated)
                                  /\ Public(c, i) \notin Publics(c, Rows(c, isolated))}
    IN {i \in free : \A j \in free : Public(c, j) = Public(c, i) => i <= j}
\* A slip for the sensitivity check: without it.
VisibleOfTheCatalog(c, isolated) == Rows(c, isolated)
Visible(c, isolated) == Rows(c, isolated) \cup Promoted(c, isolated)
\* ...and the others of a name that is served.
Servable(c, isolated) ==
    Visible(c, isolated) \cup
    {i \in Entry(c) : /\ ~Listed(c, i) /\ Joins(c, i) /\ Usable(c, i, isolated)
                      /\ Public(c, i) \in Publics(c, Visible(c, isolated))}
Shown(c, isolated) == Publics(c, Visible(c, isolated))
\* build_composite_routes: one for each name and platform.
Composite(c, isolated) ==
    {[public |-> Public(c, i),
      platform |-> IF OAuth(c, i) THEN Platform[Owner(c, i)] ELSE OpenAI] :
        i \in {j \in Servable(c, isolated) : Usable(c, j, isolated)}}

-----------------------------------------------------------------------------
(* The Host. *)

\* update_account: the payload says what the request does, but an empty list leaves the
\* table of memberships as it is.
Put(h, o, wanted) ==
    [h EXCEPT !.said = wanted, !.member = IF wanted \/ o \in Elsewhere THEN wanted ELSE @]

\* account_is_cli_eligible, oauth_route_provider_matches, oauth_route_model_matches and
\* api_route_model_matches: the pools that sync_backend attaches to a route.
Attached(o, r) ==
    LET h == host[o]
        model == r.public.model IN
    /\ h.known /\ h.member /\ h.row \in {"on", "worn"}
    /\ IF o \in Accounts THEN Platform[o] = r.platform /\ (h.maps = {} \/ model \in h.maps)
                         ELSE model \in h.maps
Serves(o, public) == \E r \in routes : r.public = public /\ Attached(o, r)

Init ==
    /\ config \in Configs
    /\ host = [o \in Owners |-> [Absent EXCEPT !.known = o \in Accounts]]
    /\ routes = {} /\ buried = {} /\ shown = {} /\ task = Idle
    /\ last = "none" /\ applied = FALSE /\ clean = TRUE /\ applies = 0 /\ faults = 0 /\ turns = 0

Trouble == faults < MaxFaults /\ faults' = faults + 1
Fine == UNCHANGED faults
Ends(how) == task' = Idle /\ last' = how
Counters == UNCHANGED <<applies, turns>>

-----------------------------------------------------------------------------
(* sync_router_state, the part of apply_native that is about routing. *)

Apply ==
    /\ task.at = "idle" /\ applies < MaxApplies /\ applies' = applies + 1
    /\ config' \in Configs /\ applied' = FALSE /\ clean' = TRUE
    /\ IF Shown(config', {}) = {} THEN Ends("failed")
       ELSE /\ task' = [Idle EXCEPT !.at = "group", !.kind = "apply",
                                    !.rows = [o \in Owners |-> host[o].row]]
            /\ UNCHANGED last
    /\ UNCHANGED <<host, routes, buried, shown, faults, turns>>

\* ensure_group: a group that cannot be updated is good enough, one that cannot be
\* created is not.  Channels without a key are skipped.
Keyed(c) == {i \in Entry(c) : ~OAuth(c, i) /\ Owner(c, i) \notin c.keyless}
Group ==
    /\ task.at = "group"
    /\ \/ /\ shown' = Shown(config, {}) /\ Fine /\ UNCHANGED last
          /\ task' = [task EXCEPT !.at = "channels", !.todo = Keyed(config)]
       \/ /\ shown # {} /\ Trouble /\ UNCHANGED <<shown, last>>
          /\ task' = [task EXCEPT !.at = "channels", !.todo = Keyed(config)]
       \/ shown = {} /\ Trouble /\ Ends("failed") /\ UNCHANGED shown
    /\ Counters /\ UNCHANGED <<config, host, routes, buried, applied, clean>>

\* sync_api_channels: a channel is created, or updated and put back on its feet if it was
\* off its feet when the accounts were listed; that may fail without a word.
Channel ==
    /\ task.at = "channels" /\ task.todo # {}
    /\ LET i == CHOOSE i \in task.todo : \A j \in task.todo : i <= j
           o == Owner(config, i)
           joins == Joins(config, i)
           new == [known |-> TRUE, row |-> "on", said |-> joins, member |-> joins,
                   maps |-> {Model(config, i)}]
           old == [Put(host[o], o, joins) EXCEPT !.maps = @ \cup {Model(config, i)}]
           lame == task.rows[o] \in {"error", "off"} IN
       /\ task' = [task EXCEPT !.todo = @ \ {i}]
       /\ \/ ~host[o].known /\ host' = [host EXCEPT ![o] = new] /\ Fine
          \/ host[o].known /\ ~lame /\ host' = [host EXCEPT ![o] = old] /\ Fine
          \/ host[o].known /\ lame /\ host' = [host EXCEPT ![o] = [old EXCEPT !.row = "on"]] /\ Fine
          \/ host[o].known /\ lame /\ host' = [host EXCEPT ![o] = old] /\ Trouble
    /\ Counters /\ UNCHANGED <<config, routes, buried, shown, last, applied, clean>>

\* The accounts are listed again; a routing sync begins here.
List ==
    /\ task.at = "channels" /\ task.todo = {}
    /\ task' = [task EXCEPT !.at = "accounts", !.todo = {o \in Owners : host[o].known}]
    /\ Counters /\ Fine
    /\ UNCHANGED <<config, host, routes, buried, shown, last, applied, clean>>
Sync ==
    /\ task.at = "idle" /\ applies > 0 /\ clean' = TRUE
    /\ IF shown = {} THEN Ends("failed")
       ELSE /\ task' = [Idle EXCEPT !.at = "accounts", !.kind = "sync", !.todo = Accounts]
            /\ UNCHANGED last
    /\ Counters /\ Fine /\ UNCHANGED <<config, host, routes, buried, shown, applied>>

\* sync_oauth_and_stale_accounts, and the loop of sync_routing_only.
Wanted(o) == o \in config.chosen
Of(o) == {Model(config, i) : i \in {j \in Entry(config) : Owner(config, j) = o}}
Managed == {Owner(config, i) : i \in Entry(config)} \ config.keyless
OauthAccount(o) ==
    LET h == host[o]
        isolate == Wanted(o) /\ h.row # "on"
        joins == Wanted(o) /\ ~isolate
        put == IF task.kind = "apply" \/ h.said # joins THEN Put(h, o, joins) ELSE h IN
    /\ host' = [host EXCEPT ![o] =
           IF ~Wanted(o) THEN [put EXCEPT !.row = "off"]
           ELSE IF task.kind = "apply" THEN [put EXCEPT !.maps = @ \cup Of(o)] ELSE put]
    /\ task' = [task EXCEPT !.todo = @ \ {o}, !.isolated = IF isolate THEN @ \cup {o} ELSE @]
StaleChannel(o) ==
    /\ host' = IF host[o].said /\ o \notin Managed
               THEN [host EXCEPT ![o] = Put(@, o, FALSE)] ELSE host
    /\ task' = [task EXCEPT !.todo = @ \ {o}]
Account(o) ==
    /\ task.at = "accounts" /\ o \in task.todo
    /\ IF o \in Accounts THEN OauthAccount(o) ELSE StaleChannel(o)
    /\ Counters /\ Fine /\ UNCHANGED <<config, routes, buried, shown, last, applied, clean>>

\* ensure_group again, now with what can be served.
GroupModels ==
    /\ task.at = "accounts" /\ task.todo = {}
    /\ LET servable == Shown(config, task.isolated) IN
       IF servable = {} THEN Ends("failed") /\ Fine /\ UNCHANGED <<shown, clean>>
       ELSE /\ task' = [task EXCEPT !.at = "routes"] /\ UNCHANGED last
            /\ \/ shown' = servable /\ Fine /\ UNCHANGED clean
               \/ Trouble /\ clean' = FALSE /\ UNCHANGED shown
    /\ Counters /\ UNCHANGED <<config, host, routes, buried, applied>>

\* sync_composite_routes: one transaction; when that is answered with an error, which it
\* may be after it has committed, the routes one by one, and a route whose key a deleted
\* one holds cannot be created again.
Routes ==
    /\ task.at = "routes"
    /\ LET desired == Composite(config, task.isolated)
           missing == desired \ routes
           Become(live) == routes' = live /\ buried' = (buried \cup (routes \ live)) \ live
           on == task' = [task EXCEPT !.at = "rest"] /\ UNCHANGED last IN
       \/ Become(desired) /\ on /\ Fine
       \/ Become(desired) /\ Ends("failed") /\ Trouble
       \/ missing \cap buried = {} /\ Become(desired) /\ on /\ Trouble
       \/ /\ missing \cap buried # {} /\ Ends("failed") /\ Trouble
          /\ \E some \in SUBSET (missing \ buried) : Become(routes \cup some)
    /\ Counters /\ UNCHANGED <<config, host, shown, applied, clean>>

\* An apply still has the local key and Codex's configuration to write.
Rest ==
    /\ task.at = "rest" /\ Ends(IF task.kind = "apply" THEN "applied" ELSE "synced")
    /\ applied' = (applied \/ task.kind = "apply")
    /\ Counters /\ Fine /\ UNCHANGED <<config, host, routes, buried, shown, clean>>

\* A request fails, or the user cancels.
Fail ==
    /\ task.at # "idle" /\ Trouble /\ Ends("failed")
    /\ Counters /\ UNCHANGED <<config, host, routes, buried, shown, applied, clean>>

-----------------------------------------------------------------------------
\* A health check, a probe or an administrator changes a row.  "worn": its error text
\* speaks of a quota, for which the desktop isolates an account, but the Host does not.
Turn(o, row) ==
    /\ host[o].known /\ row # host[o].row /\ (row = "worn" => o \in Accounts)
    /\ turns < MaxTurns /\ turns' = turns + 1
    /\ host' = [host EXCEPT ![o].row = row] /\ clean' = (clean /\ o \in Channels)
    /\ Fine /\ UNCHANGED <<config, routes, buried, shown, task, last, applied, applies>>

Next ==
    \/ Apply \/ Group \/ Channel \/ List \/ Sync \/ GroupModels \/ Routes \/ Rest \/ Fail
    \/ \E o \in Owners : Account(o) \/ \E row \in {"on", "error", "off", "worn"} : Turn(o, row)
Spec == Init /\ [][Next]_vars

-----------------------------------------------------------------------------
Settled == task.at = "idle" /\ last \in {"applied", "synced"} /\ applied /\ clean

\* When a configuration has been applied, whatever was applied, failed or was cancelled
\* before, every source of it that is in order serves its model, under the name that
\* Codex is shown; and an account that is not chosen serves nothing.
ServedAsApplied ==
    Settled =>
        LET healthy(i) == host[Owner(config, i)].row = "on"
            sources == {i \in Entry(config) : Joins(config, i)} IN
        /\ \A i \in sources : healthy(i) /\ Owner(config, i) \notin config.keyless =>
               Public(config, i) \in shown /\ Serves(Owner(config, i), Public(config, i))
        /\ \A p \in shown : \E i \in sources :
               Public(config, i) = p /\ (OAuth(config, i) => healthy(i))
        /\ \A a \in Accounts \ config.chosen : ~ \E p \in shown : Serves(a, p)

\* README.zh-CN.md:73: without the fallback, the separate entries of the model list decide
\* where the quota comes from.
OnlyTheEntriesServe ==
    Settled => \A o \in Owners, r \in routes :
        Attached(o, r) =>
            \E i \in Entry(config) :
                Owner(config, i) = o /\ Joins(config, i) /\ Public(config, i) = r.public
=============================================================================
