------------------------------- MODULE Services -------------------------------
(***************************************************************************)
(* The processes of the Router on the user's machine: the desktop window    *)
(* and the command line (Start-Router, Stop-Router) start, adopt, repair    *)
(* and stop the Router Host, which brings CLIProxyAPI along.  Copies of the *)
(* program may share one UserData (an upgraded portable) or have their own. *)
(* What they know of each other is the listeners on the ports, the image    *)
(* names of processes, and per UserData a pid file, a lock and the          *)
(* persisted port.  A port stands for a group: the Host's, the one of       *)
(* CLIProxyAPI (host + 1) and the one of the gateway (host + 2).            *)
(***************************************************************************)
EXTENDS Integers, FiniteSets, FiniteSetsExt

CONSTANTS
    Portables,  \* installed copies of the program
    Roots,      \* UserData directories
    Ports,      \* 1 is the default, the others are ADOPT_HOST_PORT_CANDIDATES in order
    MaxHosts,   \* bound: Hosts that are started
    MaxStarts,  \* bound: operations that are begun
    MaxHarm     \* bound: deaths, illnesses, crashes, timeouts, ports taken by others

VARIABLES
    data,       \* the UserData of each copy
    hosts,      \* the Router Hosts that were started, by process id
    config,     \* the persisted port (deploy.sub2api_host) of each UserData
    pidFile,    \* router-host.pid of each UserData; 0: there is none
    lock,       \* who holds service-lifecycle.lock; "free"
    gateway,    \* the port of the window's gateway; 0: it is not running
    aliens,     \* ports that another program listens on
    run,        \* what the window and the command line are doing
    lost,       \* Hosts whose starter died before it wrote the pid file
    starts, harm

vars == <<data, hosts, config, pidFile, lock, gateway, aliens, run, lost, starts, harm>>

Runners == {"window", "command"}
Pids == 1 .. MaxHosts
NoHost == [life |-> "none", copy |-> 1, root |-> 1, port |-> 1, ill |-> FALSE,
           cli |-> FALSE, job |-> TRUE]
Idle == [at |-> "gone", copy |-> 1, op |-> "none", gently |-> FALSE, port |-> 1,
         own |-> 1, pid |-> 0]

TypeOK ==
    /\ data \in [Portables -> Roots]
    /\ hosts \in [Pids -> [life : {"none", "starting", "listening", "dead"}, copy : Portables,
                           root : Roots, port : Ports, ill : BOOLEAN, cli : BOOLEAN,
                           job : BOOLEAN]]
    /\ config \in [Roots -> Ports] /\ pidFile \in [Roots -> 0 .. MaxHosts]
    /\ lock \in [Roots -> Runners \cup {"free"}]
    /\ gateway \in Ports \cup {0} /\ aliens \subseteq Ports
    /\ run \in [Runners -> [at : {"gone", "idle", "lock", "inspect", "judge", "sweep", "spawn",
                                  "record", "wait", "gateway", "halt", "clear", "confirm"},
                            copy : Portables, op : {"none", "start", "stop"}, gently : BOOLEAN,
                            port : Ports, own : Ports, pid : 0 .. MaxHosts]]
    /\ lost \subseteq Pids /\ starts \in 0 .. MaxStarts /\ harm \in 0 .. MaxHarm

Init ==
    /\ data \in [Portables -> Roots] /\ data[1] = 1
    /\ hosts = [p \in Pids |-> NoHost]
    /\ config = [d \in Roots |-> 1] /\ pidFile = [d \in Roots |-> 0]
    /\ lock = [d \in Roots |-> "free"]
    /\ gateway = 0 /\ aliens = {} /\ lost = {} /\ starts = 0 /\ harm = 0
    /\ run = [r \in Runners |-> Idle]

-----------------------------------------------------------------------------
\* What Windows tells about processes and ports.
Alive(p) == p # 0 /\ hosts[p].life \in {"starting", "listening"}
One(S) == IF S = {} THEN 0 ELSE CHOOSE p \in S : TRUE
Listener(port) == One({p \in Pids : hosts[p].life = "listening" /\ hosts[p].port = port})
Cli(port) == One({p \in Pids : hosts[p].cli /\ hosts[p].port = port})

\* /health of a Host includes its probe of CLIProxyAPI.
Healthy(p) == hosts[p].life = "listening" /\ ~hosts[p].ill /\ Cli(hosts[p].port) # 0

\* TerminateProcess: the Job Object takes CLIProxyAPI along, if it was assigned.
Terminated(S, clis) ==
    [p \in Pids |->
        [hosts[p] EXCEPT !.life = IF p \in S THEN "dead" ELSE @,
                         !.cli = @ /\ p \notin clis /\ (p \in S => ~hosts[p].job)]]

\* A slip for the sensitivity check: only a Host that listens already counts.
SavedListener(d) ==
    IF Alive(pidFile[d]) /\ hosts[pidFile[d]].life = "listening" THEN pidFile[d] ELSE 0

\* read_pid_file, as far as process_is_managed: the process exists.
Saved(d) == IF Alive(pidFile[d]) THEN pidFile[d] ELSE 0

Root(r) == data[run[r].copy]

\* The runner r returns to its caller and gives the lock back.
Returns(r) ==
    /\ run' = [run EXCEPT ![r].at = IF r = "window" THEN "idle" ELSE "gone",
                          ![r].pid = 0, ![r].op = "none", ![r].gently = FALSE, ![r].port = 1]
    /\ lock' = [lock EXCEPT ![Root(r)] = "free"]

Goes(r, place, p) == run' = [run EXCEPT ![r].at = place, ![r].pid = p] /\ UNCHANGED lock
Counts(b) == harm' = harm + b /\ harm' <= MaxHarm
-----------------------------------------------------------------------------
\* Before the lock is taken a start moves the persisted port to a free group when
\* a port of the configured one belongs to another process: claiming a listener
\* fails for programs only (a Host of any copy is claimed by its image name), the
\* gateway's port is usable for the process that has the gateway.
GatewayUsable(r, port) == r = "window" \/ gateway # port
Conflict(r, port) == port \in aliens \/ ~GatewayUsable(r, port)
Usable(r, c, port) ==
    /\ port \notin aliens /\ GatewayUsable(r, port)
    /\ \A p \in {Listener(port), Cli(port)} \ {0} : hosts[p].copy = c

Adopted(r, c, port) ==
    LET free == {q \in Ports \ {1, port} : Usable(r, c, q)}
    IN  IF Conflict(r, port) /\ free # {} THEN Min(free) ELSE port

Begin(r, c, op, gently) ==
    /\ starts < MaxStarts /\ starts' = starts + 1
    /\ run[r].at = IF r = "window" THEN "idle" ELSE "gone"
    /\ r = "window" => c = run[r].copy
    /\ LET port == IF op = "start" THEN Adopted(r, c, config[data[c]])
                   ELSE IF r = "window" THEN run[r].own ELSE config[data[c]]
       IN  /\ run' = [run EXCEPT ![r] = [@ EXCEPT !.at = "lock", !.copy = c, !.op = op,
                                                  !.gently = gently, !.port = port]]
           /\ config' = [config EXCEPT ![data[c]] = IF op = "start" THEN port ELSE @]
    /\ UNCHANGED <<data, hosts, pidFile, lock, gateway, aliens, lost, harm>>

Lock(r) ==
    /\ run[r].at = "lock" /\ lock[Root(r)] = "free"
    /\ lock' = [lock EXCEPT ![Root(r)] = r]
    /\ run' = [run EXCEPT ![r].at = IF run[r].op = "start" THEN "inspect" ELSE "halt"]
    /\ UNCHANGED <<data, hosts, config, pidFile, gateway, aliens, lost, starts, harm>>

\* ROUTER_LIFECYCLE_BUSY.
Busy(r) ==
    /\ run[r].at = "lock" /\ lock[Root(r)] # "free"
    /\ run' = [run EXCEPT ![r].at = IF r = "window" THEN "idle" ELSE "gone",
                          ![r].op = "none", ![r].gently = FALSE, ![r].port = 1]
    /\ UNCHANGED <<data, hosts, config, pidFile, lock, gateway, aliens, lost, starts, harm>>
-----------------------------------------------------------------------------
\* inspect_existing_host: the Host of the pid file, and the one that listens.
Inspect(r) ==
    LET d == Root(r)
        port == run[r].port
        gentle == run[r].gently
        saved == Saved(d)
        found == Listener(port)
        forgotten == [pidFile EXCEPT ![d] = saved]
    IN  /\ run[r].at = "inspect"
        /\ \/ /\ \/ port \in aliens
                 \/ saved # 0 /\ found \notin {0, saved}
                 \/ saved # 0 /\ found = 0 /\ gentle
              /\ Returns(r) /\ pidFile' = forgotten /\ UNCHANGED hosts
           \/ /\ port \notin aliens /\ saved # 0 /\ found = 0 /\ ~gentle
              /\ hosts' = Terminated({saved}, {})
              /\ pidFile' = [pidFile EXCEPT ![d] = 0] /\ Goes(r, "sweep", 0)
           \/ /\ port \notin aliens /\ saved = 0 /\ found = 0
              /\ Goes(r, "sweep", 0) /\ pidFile' = forgotten /\ UNCHANGED hosts
           \/ /\ port \notin aliens /\ found # 0 /\ saved \in {0, found}
              /\ Goes(r, "judge", found)
              /\ pidFile' = [pidFile EXCEPT ![d] = found] /\ UNCHANGED hosts
        /\ UNCHANGED <<data, config, gateway, aliens, lost, starts, harm>>

\* A Host of another copy, or one that does not answer for seconds, is replaced by a
\* repair; without one it is left alone.
Judge(r) ==
    LET p == run[r].pid
        gentle == run[r].gently
        same == Alive(p) /\ hosts[p].copy = run[r].copy
    IN  /\ run[r].at = "judge"
        /\ \/ /\ ~gentle /\ (~same \/ ~Healthy(p))
              /\ hosts' = Terminated({p}, {})
              /\ pidFile' = [pidFile EXCEPT ![Root(r)] = 0] /\ Goes(r, "sweep", 0)
           \/ /\ gentle /\ ~Healthy(p)
              /\ Returns(r) /\ UNCHANGED <<hosts, pidFile>>
           \/ /\ Healthy(p) /\ (same \/ gentle)
              /\ Goes(r, "sweep", p) /\ UNCHANGED <<hosts, pidFile>>
        /\ UNCHANGED <<data, config, gateway, aliens, lost, starts, harm>>

\* sweep_stale_router_listeners: on every port of the Router, whoever started them.
Swept(keep, port) ==
    Terminated({p \in Pids : hosts[p].life = "listening" /\ p # keep},
               {p \in Pids : keep = 0 \/ hosts[p].port # port})

Sweep(r) ==
    /\ run[r].at = "sweep"
    /\ hosts' = Swept(run[r].pid, run[r].port)
    /\ Goes(r, IF run[r].pid = 0 THEN "spawn" ELSE "gateway", run[r].pid)
    /\ UNCHANGED <<data, config, pidFile, gateway, aliens, lost, starts, harm>>

\* start_router_host, in two steps: the process, and what is known of it.
Spawn(r) ==
    /\ run[r].at = "spawn"
    /\ \E p \in Pids, job \in BOOLEAN :
        /\ hosts[p].life = "none" /\ \A q \in 1 .. p - 1 : hosts[q].life # "none"
        /\ Counts(IF job THEN 0 ELSE 1)
        /\ hosts' = [hosts EXCEPT ![p] = [NoHost EXCEPT !.life = "starting", !.job = job,
                        !.copy = run[r].copy, !.root = Root(r), !.port = run[r].port]]
        /\ Goes(r, "record", p)
    /\ UNCHANGED <<data, config, pidFile, gateway, aliens, lost, starts>>

Record(r) ==
    /\ run[r].at = "record"
    /\ pidFile' = [pidFile EXCEPT ![Root(r)] = run[r].pid]
    /\ Goes(r, "wait", run[r].pid)
    /\ UNCHANGED <<data, hosts, config, gateway, aliens, lost, starts, harm>>

\* The Host brings CLIProxyAPI up (or finds one on its port), then binds its own port,
\* which fails when another one listens on it.
HostBinds(p) ==
    LET port == hosts[p].port
        free == Listener(port) = 0 /\ port \notin aliens
    IN  /\ hosts[p].life = "starting"
        /\ hosts' = [hosts EXCEPT ![p].life = IF free THEN "listening" ELSE "dead",
                                  ![p].cli = free /\ Cli(port) = 0]
        /\ UNCHANGED <<data, config, pidFile, lock, gateway, aliens, run, lost, starts, harm>>

\* wait_host_ready, and the cleaning up after it.
Ready(r) ==
    /\ run[r].at = "wait" /\ hosts[run[r].pid].life = "listening" /\ Healthy(run[r].pid)
    /\ Goes(r, "gateway", run[r].pid)
    /\ UNCHANGED <<data, hosts, config, pidFile, gateway, aliens, lost, starts, harm>>

NotReady(r) ==
    LET p == run[r].pid
        port == run[r].port
        other == Listener(port) \notin {0, p}
        cli == Cli(port)
    IN  /\ run[r].at = "wait"
        /\ Counts(IF ~Alive(p) \/ other THEN 0 ELSE 1)     \* the others: cancelled, 120 s
        /\ hosts' = Terminated({p}, {q \in {cli} : q # 0 /\ hosts[q].copy = run[r].copy})
        /\ pidFile' = [pidFile EXCEPT ![Root(r)] = 0]
        /\ Returns(r)
        /\ UNCHANGED <<data, config, gateway, aliens, lost, starts>>

\* ensure_responses_gateway: in the window it stays, with the command it ends.
Gateway(r) ==
    /\ run[r].at = "gateway"
    /\ IF GatewayUsable(r, run[r].port)
       THEN /\ gateway' = IF r = "window" THEN run[r].port ELSE gateway
            /\ Returns(r)
       ELSE Returns(r) /\ UNCHANGED gateway
    /\ UNCHANGED <<data, hosts, config, pidFile, aliens, lost, starts, harm>>
-----------------------------------------------------------------------------
\* stop_services_with_config.  A program on the port counts as nobody.
Halt(r) ==
    LET d == Root(r)
        port == run[r].port
        saved == Saved(d)
        found == Listener(port)
        victim == IF saved # 0 THEN saved ELSE found
    IN  /\ run[r].at = "halt"
        /\ gateway' = IF r = "window" THEN 0 ELSE gateway
        /\ \/ saved # 0 /\ found \notin {0, saved} /\ Returns(r) /\ UNCHANGED hosts
           \/ /\ run[r].gently /\ Listener(port) # 0 /\ victim = found  \* requests in flight
              /\ Returns(r) /\ UNCHANGED hosts
           \/ /\ saved = 0 \/ found \in {0, saved}
              /\ hosts' = Terminated({victim}, {Cli(port)})
              /\ Goes(r, "clear", saved)
        /\ UNCHANGED <<data, config, pidFile, aliens, lost, starts, harm>>

Clear(r) ==
    /\ run[r].at = "clear"
    /\ hosts' = Swept(0, run[r].port)
    /\ Goes(r, "confirm", run[r].pid)
    /\ UNCHANGED <<data, config, pidFile, gateway, aliens, lost, starts, harm>>

\* ROUTER_SHUTDOWN_INCOMPLETE, when something of this copy still listens.
Confirm(r) ==
    LET mine(p) == p # 0 /\ hosts[p].copy = run[r].copy
    IN  /\ run[r].at = "confirm"
        /\ IF Alive(run[r].pid) \/ mine(Listener(run[r].port)) \/ mine(Cli(run[r].port))
           THEN Returns(r) /\ UNCHANGED pidFile
           ELSE Returns(r) /\ pidFile' = [pidFile EXCEPT ![Root(r)] = 0]
        /\ UNCHANGED <<data, hosts, config, gateway, aliens, lost, starts, harm>>
-----------------------------------------------------------------------------
\* One window at a time (Local\CodexRouterSingleInstanceV1); it reads the
\* configuration when it opens, and stops the port that it has read.
OpenWindow ==
    /\ run["window"].at = "gone"
    /\ \E c \in Portables :
        run' = [run EXCEPT !["window"] = [Idle EXCEPT !.at = "idle", !.copy = c,
                                                     !.own = config[data[c]]]]
    /\ UNCHANGED <<data, hosts, config, pidFile, lock, gateway, aliens, lost, starts, harm>>

CloseWindow ==
    /\ run["window"].at = "idle"
    /\ run' = [run EXCEPT !["window"] = Idle] /\ gateway' = 0
    /\ UNCHANGED <<data, hosts, config, pidFile, lock, aliens, lost, starts, harm>>

\* The window or the command dies.  Windows closes its lock file.
Crash(r) ==
    /\ run[r].at \notin {"gone", "idle"} /\ Counts(1)
    /\ run' = [run EXCEPT ![r] = Idle]
    /\ lock' = [lock EXCEPT ![Root(r)] = IF @ = r THEN "free" ELSE @]
    /\ gateway' = IF r = "window" THEN 0 ELSE gateway
    /\ lost' = IF run[r].at = "record" THEN lost \cup {run[r].pid} ELSE lost
    /\ UNCHANGED <<data, hosts, config, pidFile, aliens, starts>>

HostDies(p) ==
    /\ Alive(p) /\ Counts(1) /\ hosts' = Terminated({p}, {})
    /\ UNCHANGED <<data, config, pidFile, lock, gateway, aliens, run, lost, starts>>

HostFallsIll(p) ==
    /\ hosts[p].life = "listening" /\ ~hosts[p].ill /\ Counts(1)
    /\ hosts' = [hosts EXCEPT ![p].ill = TRUE]
    /\ UNCHANGED <<data, config, pidFile, lock, gateway, aliens, run, lost, starts>>

\* Another program takes a port, or leaves it.
Alien ==
    /\ \E q \in Ports :
        \/ q \in aliens /\ aliens' = aliens \ {q} /\ UNCHANGED harm
        \/ q \notin aliens /\ Listener(q) = 0 /\ aliens' = aliens \cup {q} /\ Counts(1)
    /\ UNCHANGED <<data, hosts, config, pidFile, lock, gateway, run, lost, starts>>

Step(r) == \/ Lock(r) \/ Busy(r) \/ Inspect(r) \/ Judge(r) \/ Sweep(r) \/ Spawn(r) \/ Record(r)
           \/ Ready(r) \/ NotReady(r) \/ Gateway(r) \/ Halt(r) \/ Clear(r) \/ Confirm(r)

\* The window repairs what it starts; only a command may start gently.
Next ==
    \/ \E r \in Runners : Step(r) \/ Crash(r)
    \/ \E r \in Runners, c \in Portables, op \in {"start", "stop"}, gently \in BOOLEAN :
        (gently => r = "command" \/ op = "stop") /\ Begin(r, c, op, gently)
    \/ \E p \in Pids : HostBinds(p) \/ HostDies(p) \/ HostFallsIll(p)
    \/ OpenWindow \/ CloseWindow \/ Alien

Spec == Init /\ [][Next]_vars
-----------------------------------------------------------------------------
\* "Two Hosts contend for one UserData (SQLite, locks, credentials)": that must not
\* happen.  Every Host that runs on a UserData is the one of its pid file, or is about
\* to be, unless its starter died before it could write that down; so there is at most
\* one, however copies, windows and commands overlap, and the next start finds it.
HostsAreKnown ==
    \A p \in Pids : Alive(p) =>
        \/ pidFile[hosts[p].root] = p
        \/ p \in lost
        \/ \E r \in Runners : run[r].at = "record" /\ run[r].pid = p

\* "Status/Stop and the next launch agree with this start": when nothing is under way,
\* the persisted port is the one that the recorded Host listens on.
StatusAgrees ==
    (\A r \in Runners : run[r].at \in {"gone", "idle"}) =>
        \A d \in Roots : LET p == pidFile[d]
                         IN  (Alive(p) /\ hosts[p].life = "listening" /\ hosts[p].root = d)
                                => config[d] = hosts[p].port
=============================================================================
