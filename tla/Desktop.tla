------------------------------- MODULE Desktop -------------------------------
(***************************************************************************)
(* The desktop program as the owner of two shared things: the configuration *)
(* of Codex and the local services.  Buttons and events run on the GUI      *)
(* thread; every long operation is a worker thread that reports with one    *)
(* event.  Workers exclude each other with two lock files: the              *)
(* configuration lock and, for starting and stopping services, the          *)
(* lifecycle lock.  Waiting for a lock ends in an error (10 s, or 1.5 s).   *)
(*                                                                          *)
(* A configuration of the Router is a number, 0 the one without models; the *)
(* configuration of Codex is what its user layer routes to, and whether the *)
(* system layer beneath it is bound to the Router.                          *)
(***************************************************************************)
EXTENDS Naturals, Sequences

CONSTANTS MaxOps,      \* operations the user starts
          MaxFaults    \* failures of files, services and the admin API
ASSUME DesktopAssumption == MaxOps \in Nat /\ MaxFaults \in Nat

VARIABLES gui,       \* the window's flags; told: of a failure, since an operation began
          disk,      \* Codex's configuration, the Router's, and its services
          workers,   \* one thread per kind of operation
          lock,      \* owner of config-apply.lock
          life,      \* owner of service-lifecycle.lock
          cancel,    \* apply_cancel and health_recovery_cancel
          events,    \* the channel to the GUI thread
          ops, faults,
          blame      \* what a reader of the properties has to know of the past
vars == <<gui, disk, workers, lock, life, cancel, events, ops, faults, blame>>

Kinds == {"apply", "previous", "disable", "factory", "keep", "exit", "recover"}
NoPoint == [route |-> "none", conf |-> 0]
Idle == [at |-> "idle", conf |-> 0, back |-> NoPoint, to |-> NoPoint, undo |-> FALSE, ok |-> FALSE]
NoUndo == [mode |-> FALSE, configured |-> FALSE, set |-> FALSE]

Started(mode, configured) ==
    [ open |-> TRUE, applying |-> FALSE, switching |-> FALSE, exiting |-> FALSE, acting |-> FALSE,
      recovering |-> FALSE, failing |-> FALSE, prompt |-> FALSE, configured |-> configured,
      mode |-> mode, undo |-> NoUndo, told |-> FALSE ]

Init ==
    /\ disk = [ route |-> "official", system |-> FALSE, conf |-> 0, deployed |-> 0,
                point |-> NoPoint, up |-> FALSE, official |-> FALSE ]
    /\ gui = Started(FALSE, FALSE)
    /\ workers = [k \in Kinds |-> Idle]
    /\ lock = "free" /\ life = "free"
    /\ cancel = [apply |-> FALSE, recover |-> FALSE]
    /\ events = <<>> /\ ops = 0 /\ faults = 0
    /\ blame = [died |-> FALSE, intruded |-> FALSE, discarded |-> FALSE, cut |-> FALSE,
              lost |-> FALSE]

\* codex_router_mode_active: the user layer is bound and the host is healthy.
Active == disk.route = "router" /\ disk.up

Act == gui.open /\ ~gui.exiting /\ ops < MaxOps /\ ops' = ops + 1
Spawn(k, x) == workers' = [workers EXCEPT ![k] = x]
Faulty == faults < MaxFaults /\ faults' = faults + 1
Go(k, at) == workers' = [workers EXCEPT ![k].at = at]
Freed(owner, k) == IF owner = k THEN "free" ELSE owner

\* An apply that rolls back has given the configuration lock away, and a restore
\* that waited for the lock of an exit takes it after the exit.
RollsBackUnlocked == workers["apply"].undo /\ workers["apply"].at # "report"
Taken(k) ==
    blame' = [blame EXCEPT !.intruded =
                @ \/ (k # "apply" /\ RollsBackUnlocked) \/ (k = "previous" /\ cancel.apply)]

-----------------------------------------------------------------------------
(* Buttons: the GUI thread. *)

\* apply_all and the overwrite prompt's first choice; enable_router_mode also
\* sets the switch.
Apply ==
    /\ Act /\ ~gui.applying
    /\ \E enable \in BOOLEAN :
        /\ enable => ~gui.switching /\ ~(gui.mode /\ Active)
        /\ gui' = [gui EXCEPT !.applying = TRUE, !.configured = FALSE, !.told = FALSE,
                              !.mode = @ \/ enable, !.switching = @ \/ enable]
    /\ cancel' = [apply |-> FALSE, recover |-> TRUE]
    /\ Spawn("apply", [Idle EXCEPT !.at = "lock", !.conf = ops + 1])
    /\ UNCHANGED <<disk, lock, life, events, faults, blame>>

\* apply_isolation_profile: the GUI thread takes the lock, restores the profile's
\* Codex state, and hands the lock to the worker that applies its configuration.
\* A state that routes to the Router was saved after an apply.
SwitchProfile ==
    /\ Act /\ ~gui.applying /\ lock = "free" /\ Taken("previous")
    /\ \E route \in {"official", "router"} :
        LET back == [route |-> disk.route, conf |-> disk.conf] IN
        /\ route = "router" => disk.conf # 0
        /\ disk' = [disk EXCEPT !.point = back, !.route = route]
        /\ Spawn("apply", [Idle EXCEPT !.at = "lock", !.conf = ops + 1, !.back = back])
    /\ lock' = "apply"
    /\ gui' = [gui EXCEPT !.applying = TRUE, !.configured = FALSE, !.told = FALSE,
                          !.undo = [mode |-> gui.mode, configured |-> gui.configured, set |-> TRUE]]
    /\ cancel' = [apply |-> FALSE, recover |-> TRUE]
    /\ UNCHANGED <<life, events, faults>>

\* restore_previous_codex; apply_cancel keeps its value.
RestorePrevious ==
    /\ Act /\ ~gui.applying /\ disk.point # NoPoint
    /\ gui' = [gui EXCEPT !.applying = TRUE, !.configured = FALSE, !.told = FALSE,
                          !.undo = [mode |-> gui.mode, configured |-> gui.configured, set |-> TRUE]]
    /\ Spawn("previous", [Idle EXCEPT !.at = "lock", !.to = disk.point])
    /\ UNCHANGED <<disk, lock, life, cancel, events, faults, blame>>

\* restore_original_codex: wholly on the GUI thread; services keep running.
RestoreOriginal ==
    /\ Act /\ ~gui.applying /\ lock = "free" /\ Taken("factory")
    /\ disk' = [disk EXCEPT !.point = [route |-> disk.route, conf |-> disk.conf],
                            !.route = "official", !.system = FALSE, !.official = TRUE]
    /\ gui' = [gui EXCEPT !.mode = FALSE]
    /\ UNCHANGED <<workers, lock, life, cancel, events, faults>>

\* At most one such thread at a time is looked at, here and below.
DisableRouterMode ==
    /\ Act /\ ~gui.switching /\ ~gui.applying /\ (gui.mode \/ Active)
    /\ workers["disable"] = Idle
    /\ gui' = [gui EXCEPT !.switching = TRUE, !.told = FALSE]
    /\ cancel' = [cancel EXCEPT !.recover = TRUE]
    /\ Spawn("disable", [Idle EXCEPT !.at = "lock"])
    /\ UNCHANGED <<disk, lock, life, events, faults, blame>>

\* The overwrite prompt's second and third choice.
KeepCurrent ==
    /\ Act /\ gui.prompt /\ ~gui.acting /\ workers["keep"] = Idle
    /\ gui' = [gui EXCEPT !.prompt = FALSE]
    /\ Spawn("keep", [Idle EXCEPT !.at = "mirror"])
    /\ UNCHANGED <<disk, lock, life, cancel, events, faults, blame>>
RestoreFactory ==
    /\ Act /\ gui.prompt /\ ~gui.acting /\ workers["factory"] = Idle
    /\ gui' = [gui EXCEPT !.acting = TRUE]
    /\ Spawn("factory", [Idle EXCEPT !.at = "lock"])
    /\ UNCHANGED <<disk, lock, life, cancel, events, faults, blame>>

RequestExit ==
    /\ Act
    /\ gui' = [gui EXCEPT !.exiting = TRUE, !.told = FALSE]
    /\ cancel' = [apply |-> TRUE, recover |-> TRUE]
    /\ Spawn("exit", [Idle EXCEPT !.at = "lock"])
    /\ UNCHANGED <<disk, lock, life, events, faults, blame>>

-----------------------------------------------------------------------------
(* Timers of the GUI thread. *)

Probing == gui.open /\ ~gui.exiting /\ gui.mode /\ gui.configured /\ ~gui.applying

\* Three health probes in a row have failed.
ProbeHealth ==
    /\ Probing /\ ~gui.switching /\ ~gui.recovering /\ ~gui.failing /\ ~disk.up
    /\ gui' = [gui EXCEPT !.failing = TRUE]
    /\ UNCHANGED <<disk, workers, lock, life, cancel, events, ops, faults, blame>>
StartRecovery ==
    /\ Probing /\ gui.failing /\ ~gui.recovering
    /\ gui' = [gui EXCEPT !.recovering = TRUE]
    /\ cancel' = [cancel EXCEPT !.recover = FALSE]
    /\ Spawn("recover", [Idle EXCEPT !.at = "services"])
    /\ UNCHANGED <<disk, lock, life, events, ops, faults, blame>>
\* The self-check looks at both layers under the lock and asks the user when
\* neither is bound.
ObserveBinding ==
    /\ Probing /\ ~gui.switching /\ lock = "free"
    /\ gui.prompt # (disk.route = "official" /\ ~disk.system)
    /\ gui' = [gui EXCEPT !.prompt = ~@]
    /\ UNCHANGED <<disk, workers, lock, life, cancel, events, ops, faults, blame>>

-----------------------------------------------------------------------------
(* Workers. *)

\* A worker gives its locks back and then sends its event.
Finish(k, ok) ==
    /\ workers' = [workers EXCEPT ![k].at = "report", ![k].ok = ok]
    /\ lock' = Freed(lock, k) /\ life' = Freed(life, k)

\* A slip for the sensitivity check: a failed deployment is reported without going back.
FailAtOnce(k) == Finish(k, FALSE) /\ UNCHANGED blame

\* An error: an apply or a restore that has a backup goes back to it, unless the
\* program is exiting.  The apply has left the scope that held the lock by then.
Fail(k) ==
    LET x == workers[k] IN
    IF x.undo \/ x.back = NoPoint \/ cancel.apply
    THEN /\ Finish(k, FALSE)
         /\ blame' = [blame EXCEPT !.lost = @ \/ (k # "recover" /\ x.at # "lock")]
    ELSE /\ UNCHANGED blame
         /\ workers' = [workers EXCEPT ![k] = [x EXCEPT !.at = "restore", !.undo = TRUE, !.to = x.back]]
         /\ lock' = IF k = "apply" THEN Freed(lock, k) ELSE lock
         /\ life' = Freed(life, k)

Cancelled(k) == IF k = "recover" THEN cancel.recover ELSE cancel.apply /\ ~workers[k].undo

TakeConfigLock(k) ==
    /\ workers[k].at = "lock"
    /\ \/ /\ k = "apply" /\ cancel.apply
          /\ Fail(k)
       \/ /\ k # "apply" \/ ~cancel.apply
          /\ lock \in {"free", k} /\ lock' = k /\ Taken(k)
          /\ Go(k, CASE k = "factory" -> "restore" [] k = "exit" -> "stop" [] OTHER -> "capture")
          /\ UNCHANGED life
       \/ /\ lock \notin {"free", k}
          /\ Finish(k, FALSE) /\ UNCHANGED blame
    /\ UNCHANGED <<gui, disk, cancel, events, ops, faults>>

\* The restore point is what was applied; where nothing was, the draft itself.
Capture(k) ==
    /\ workers[k].at = "capture"
    /\ \E conf \in IF disk.conf # 0 THEN {disk.conf} ELSE {0, workers[k].conf} :
        LET back == [route |-> disk.route, conf |-> conf] IN
        /\ k = "apply" /\ workers[k].back # NoPoint => conf = disk.conf
        /\ disk' = IF k = "apply" /\ workers[k].back # NoPoint THEN disk
                   ELSE [disk EXCEPT !.point = back]
        /\ workers' = [workers EXCEPT
             ![k].back = IF @ # NoPoint \/ k = "disable" THEN @ ELSE back,
             ![k].at = IF k = "apply" THEN "write" ELSE "restore"]
    /\ UNCHANGED <<gui, lock, life, cancel, events, ops, faults, blame>>

\* restore_point_config: Codex's route, then the deployment of the saved
\* configuration, if it has any models.
RestorePoint(k) ==
    /\ workers[k].at = "restore" /\ k \in {"apply", "previous"}
    /\ \/ /\ disk' = [disk EXCEPT !.route = workers[k].to.route]
          /\ IF workers[k].to.conf = 0 THEN Finish(k, ~workers[k].undo)
             ELSE /\ workers' = [workers EXCEPT ![k].conf = workers[k].to.conf, ![k].at = "write"]
                  /\ UNCHANGED <<lock, life>>
          /\ UNCHANGED <<faults, blame>>
       \/ Faulty /\ Fail(k) /\ UNCHANGED disk
    /\ UNCHANGED <<gui, cancel, events, ops>>

\* deploy_router_config up to write_all_files, which commits the configuration.
WriteFiles(k) ==
    /\ workers[k].at = "write"
    /\ \/ /\ Cancelled(k) /\ Fail(k) /\ UNCHANGED <<disk, faults>>
       \/ /\ ~Cancelled(k)
          /\ disk' = [disk EXCEPT !.conf = workers[k].conf] /\ Go(k, "services")
          /\ UNCHANGED <<lock, life, faults, blame>>
       \/ /\ ~Cancelled(k) /\ Faulty /\ Fail(k) /\ UNCHANGED disk
    /\ UNCHANGED <<gui, cancel, events, ops>>

TakeLifecycleLock(k) ==
    /\ workers[k].at = "services"
    /\ \/ life = "free" /\ life' = k /\ Go(k, "start") /\ UNCHANGED <<lock, blame>>
       \/ life # "free" /\ Fail(k)
    /\ UNCHANGED <<gui, disk, cancel, events, ops, faults>>

\* ensure_services: an unhealthy host is ended before its successor starts, and
\* a successor that does not become ready, or is cancelled, is ended too; a healthy
\* one is left alone, unless an apply has moved the ports.
EnsureServices(k) ==
    /\ workers[k].at = "start"
    /\ \/ /\ Cancelled(k) /\ Fail(k) /\ UNCHANGED <<disk, faults>>
       \/ /\ ~Cancelled(k)
          /\ disk' = [disk EXCEPT !.up = TRUE] /\ blame' = [blame EXCEPT !.died = FALSE]
          /\ IF k = "recover" THEN Finish(k, TRUE) ELSE Go(k, "bind") /\ UNCHANGED <<lock, life>>
          /\ UNCHANGED faults
       \/ /\ ~Cancelled(k) /\ Faulty /\ Fail(k)
          /\ \E up \in IF k = "recover" THEN {disk.up} ELSE {disk.up, FALSE} :
               disk' = [disk EXCEPT !.up = up]
    /\ UNCHANGED <<gui, cancel, events, ops>>

\* sync_router_state ends with Codex's configuration, the user layer first; the
\* registration for the start of Windows comes last.
SyncAndBind(k) ==
    /\ workers[k].at = "bind"
    /\ \/ /\ Cancelled(k) /\ Fail(k) /\ UNCHANGED <<disk, faults>>
       \/ /\ ~Cancelled(k)
          /\ disk' = [disk EXCEPT !.route = "router", !.system = TRUE, !.deployed = workers[k].conf]
          /\ Finish(k, ~workers[k].undo) /\ UNCHANGED <<faults, blame>>
       \/ /\ ~Cancelled(k) /\ Faulty /\ Fail(k)
          /\ disk' \in { disk, [disk EXCEPT !.route = "router"],
                         [disk EXCEPT !.route = "router", !.system = TRUE, !.deployed = workers[k].conf] }
    /\ UNCHANGED <<gui, cancel, events, ops>>

\* disable_router_mode and the factory reset: user layer, system layer, and for
\* the first of them the services.
RestoreCodex(k) ==
    /\ workers[k].at = "restore" /\ k \in {"disable", "factory"}
    /\ \/ disk' = [disk EXCEPT !.route = "official"] /\ Go(k, "unbind") /\ UNCHANGED <<lock, life, faults>>
       \/ Faulty /\ Finish(k, FALSE) /\ UNCHANGED disk
    /\ UNCHANGED <<gui, cancel, events, ops, blame>>
RemoveSystemBinding(k) ==
    /\ workers[k].at = "unbind"
    /\ \/ /\ disk' = [disk EXCEPT !.system = FALSE]
          /\ IF k = "factory" THEN Finish(k, TRUE) ELSE Go(k, "stop") /\ UNCHANGED <<lock, life>>
          /\ UNCHANGED faults
       \/ Faulty /\ Finish(k, FALSE) /\ UNCHANGED disk
    /\ UNCHANGED <<gui, cancel, events, ops, blame>>

\* stop_services takes and gives back the lifecycle lock; exit stops first, so
\* that Codex stays served until nothing can serve it.
StopServices(k) ==
    /\ workers[k].at = "stop"
    /\ \/ /\ life = "free" /\ disk' = [disk EXCEPT !.up = FALSE]
          /\ IF k = "exit" /\ disk.conf # 0 THEN Go(k, "leave") /\ UNCHANGED <<lock, life>>
             ELSE Finish(k, TRUE)
          /\ UNCHANGED faults
       \/ life # "free" /\ Finish(k, FALSE) /\ UNCHANGED <<disk, faults>>
       \/ Faulty /\ Finish(k, FALSE) /\ UNCHANGED disk
    /\ UNCHANGED <<gui, cancel, events, ops, blame>>

\* A slip for the sensitivity check: the user layer is given back only where the system layer
\* is bound too.
LeaveBoundCodex ==
    /\ workers["exit"].at = "leave" /\ Finish("exit", TRUE)
    /\ disk' = IF disk.system THEN [disk EXCEPT !.route = "official"] ELSE disk
    /\ UNCHANGED <<gui, cancel, events, ops, faults, blame>>

\* The restore is skipped where the user layer is not bound; the system layer is
\* left bound, or bound anew.
LeaveCodex ==
    /\ workers["exit"].at = "leave"
    /\ \/ /\ \E system \in {disk.system, TRUE} :
               disk' = [disk EXCEPT !.route = "official", !.system = system]
          /\ Finish("exit", TRUE) /\ UNCHANGED faults
       \/ /\ Faulty /\ Finish("exit", FALSE)
          /\ disk' \in {disk, [disk EXCEPT !.route = "official"]}
    /\ UNCHANGED <<gui, cancel, events, ops, blame>>

\* codex_overwrite_keep_current writes the system layer without a lock or an event.
MirrorBinding ==
    /\ workers["keep"].at = "mirror"
    /\ disk' = [disk EXCEPT !.system = TRUE] /\ Spawn("keep", Idle)
    /\ UNCHANGED <<gui, lock, life, cancel, events, ops, faults, blame>>

Report(k) ==
    /\ workers[k].at = "report"
    /\ events' = Append(events, [of |-> k, ok |-> workers[k].ok])
    /\ Spawn(k, Idle)
    /\ UNCHANGED <<gui, disk, lock, life, cancel, ops, faults, blame>>

Work(k) ==
    \/ TakeConfigLock(k) \/ Capture(k) \/ RestorePoint(k) \/ WriteFiles(k) \/ TakeLifecycleLock(k)
    \/ EnsureServices(k) \/ SyncAndBind(k) \/ RestoreCodex(k) \/ RemoveSystemBinding(k)
    \/ StopServices(k) \/ Report(k)

-----------------------------------------------------------------------------
(* process_app_events drains the channel in one go. *)

Undone(g) ==
    IF g.undo.set THEN [g EXCEPT !.mode = g.undo.mode, !.configured = g.undo.configured, !.undo = NoUndo]
    ELSE g

\* A slip for the sensitivity check: only a success gives the switch back.
ApplyEventKeepsSwitch(g, ok) ==
    IF ok THEN [g EXCEPT !.applying = FALSE, !.acting = FALSE, !.prompt = FALSE, !.configured = TRUE,
                         !.mode = TRUE, !.switching = FALSE, !.undo = NoUndo]
    ELSE [Undone(g) EXCEPT !.applying = FALSE, !.acting = FALSE, !.told = TRUE]

ApplyEvent(g, ok) ==
    LET ended == [g EXCEPT !.applying = FALSE, !.acting = FALSE] IN
    IF ok THEN [ended EXCEPT !.prompt = FALSE, !.configured = TRUE, !.mode = TRUE,
                             !.switching = FALSE, !.undo = NoUndo]
    ELSE IF ~g.applying /\ g.configured /\ g.mode THEN ended
    ELSE LET back == [Undone(ended) EXCEPT !.switching = FALSE, !.told = TRUE] IN
         IF ~g.undo.set THEN [back EXCEPT !.mode = Active]
         ELSE IF g.switching THEN [back EXCEPT !.mode = disk.route = "router"] ELSE back

HandleEvent(g, e) ==
    CASE e.of = "apply" -> ApplyEvent(g, e.ok)
      [] e.of = "previous" -> IF e.ok THEN [g EXCEPT !.applying = FALSE, !.undo = NoUndo, !.mode = Active,
                                                     !.configured = TRUE]
                              ELSE [Undone(g) EXCEPT !.applying = FALSE, !.told = TRUE]
      [] e.of = "disable" -> IF e.ok THEN [g EXCEPT !.switching = FALSE, !.mode = FALSE]
                             ELSE [g EXCEPT !.switching = FALSE, !.mode = Active, !.told = TRUE]
      [] e.of = "factory" -> IF e.ok THEN [g EXCEPT !.acting = FALSE, !.prompt = FALSE, !.mode = FALSE]
                             ELSE [g EXCEPT !.acting = FALSE, !.told = TRUE]
      [] e.of = "recover" -> [g EXCEPT !.recovering = FALSE, !.failing = FALSE]
      [] e.of = "exit" -> [g EXCEPT !.exiting = FALSE, !.open = ~e.ok, !.told = @ \/ ~e.ok,
                                    !.mode = @ /\ ~e.ok]

\* While the program is exiting every other event is thrown away, those in the
\* same batch as the end of the exit included.
Heard(e) == ~gui.exiting \/ e.of = "exit"
\* The window when the first events have been handled.
After[n \in 0 .. Len(events)] ==
    IF n = 0 THEN gui
    ELSE IF Heard(events[n]) THEN HandleEvent(After[n - 1], events[n]) ELSE After[n - 1]
ProcessAppEvents ==
    LET says(of) == \E i \in DOMAIN events : events[i] = [of |-> of, ok |-> TRUE] /\ Heard(events[i])
        after == After[Len(events)] IN
    /\ gui.open /\ events # <<>>
    /\ events' = <<>>
    /\ gui' = after
    /\ disk' = [disk EXCEPT !.official = (@ \/ says("disable") \/ says("factory")) /\ ~says("apply")]
    /\ IF after.open THEN UNCHANGED <<workers, lock, life>>
       ELSE workers' = [k \in Kinds |-> Idle] /\ lock' = "free" /\ life' = "free"
    /\ blame' = [blame EXCEPT !.discarded = @ \/ \E i \in DOMAIN events : ~Heard(events[i])]
    /\ UNCHANGED <<cancel, ops, faults>>

-----------------------------------------------------------------------------
(* What happens to the program. *)

\* A new process: the mode is the stored wish, or what the user layer says; the
\* services are started again at once.
Launch ==
    /\ ~gui.open /\ ops < MaxOps /\ ops' = ops + 1
    /\ \E wish \in BOOLEAN :
        LET mode == ~disk.official /\ (wish \/ disk.route = "router")
            serve == mode /\ disk.conf # 0 IN
        /\ gui' = [Started(mode, disk.conf # 0) EXCEPT !.recovering = serve]
        /\ IF serve THEN Spawn("recover", [Idle EXCEPT !.at = "services"]) ELSE UNCHANGED workers
    /\ cancel' = [apply |-> FALSE, recover |-> FALSE] /\ events' = <<>>
    /\ blame' = [blame EXCEPT !.discarded = FALSE]
    /\ UNCHANGED <<disk, lock, life, faults>>
Kill ==
    /\ gui.open /\ Faulty
    /\ gui' = [gui EXCEPT !.open = FALSE] /\ events' = <<>>
    /\ workers' = [k \in Kinds |-> Idle] /\ lock' = "free" /\ life' = "free"
    /\ blame' = [blame EXCEPT !.cut = TRUE]
    /\ UNCHANGED <<disk, cancel, ops>>
ServicesDie ==
    /\ disk.up /\ Faulty /\ disk' = [disk EXCEPT !.up = FALSE]
    /\ blame' = [blame EXCEPT !.died = TRUE]
    /\ UNCHANGED <<gui, workers, lock, life, cancel, events, ops>>
\* Another program rewrites Codex's files.
Overwrite ==
    /\ Faulty
    /\ \E system \in {disk.system, FALSE} : disk' = [disk EXCEPT !.route = "official", !.system = system]
    /\ UNCHANGED <<gui, workers, lock, life, cancel, events, ops, blame>>

Next ==
    \/ Apply \/ SwitchProfile \/ RestorePrevious \/ RestoreOriginal \/ DisableRouterMode
    \/ KeepCurrent \/ RestoreFactory \/ RequestExit
    \/ ProbeHealth \/ StartRecovery \/ ObserveBinding
    \/ \E k \in Kinds : Work(k)
    \/ LeaveCodex \/ MirrorBinding \/ ProcessAppEvents
    \/ Launch \/ Kill \/ ServicesDie \/ Overwrite

\* Threads run to their end, and the window polls its channel on every frame.
Spec == Init /\ [][Next]_vars
FairSpec ==
    /\ Spec
    /\ \A k \in Kinds : WF_vars(Work(k))
    /\ WF_vars(LeaveCodex) /\ WF_vars(MirrorBinding) /\ WF_vars(ProcessAppEvents)

-----------------------------------------------------------------------------
TypeOK ==
    /\ disk.route \in {"official", "router"} /\ {disk.conf, disk.deployed} \subseteq 0 .. MaxOps
    /\ {lock, life} \subseteq Kinds \cup {"free"}
    /\ \A k \in Kinds : workers[k].conf \in 0 .. MaxOps

Quiet == events = <<>> /\ \A k \in Kinds : workers[k] = Idle

\* Codex's own file does not stay bound to services that are down without the
\* user having been told of a failure: a successful exit, switch or rollback
\* never leaves it so.  Excused are services that died, a killed program, and the
\* two holes ExitLeavesNoDeadGateway shows.
NoDeadGateway ==
    Quiet /\ disk.route = "router" /\ ~disk.up
        => gui.told \/ blame.died \/ blame.cut \/ blame.intruded

\* Once anything was deployed, the configuration the Router has committed is the
\* one deployed last, through failed applies too, whose rollback redeploys the old
\* one.  Excused are an apply that could not go back (an exit cancelled it, or its
\* rollback failed), one that was killed, and one whose rollback ran into another
\* operation.
CommittedIsDeployed ==
    Quiet /\ disk.deployed # 0 /\ ~blame.lost /\ ~blame.cut /\ ~blame.intruded
        => disk.conf = disk.deployed

\* Every operation gives its button back, unless its event fell into an exit
\* that failed afterwards.
Busy == gui.applying \/ gui.switching \/ gui.acting \/ gui.recovering \/ gui.exiting
BusyEnds == []<>(~Busy \/ blame.discarded \/ ~gui.open)     \* that is, Busy leads to it

\* A program that ended by its own exit has left nothing bound to services it
\* stopped (the comment in restore_codex_and_stop_router_for_exit_with; broken by
\* a rollback without the lock and by a restore that waited for it).  Excused are
\* services that died and a program that was killed.
ExitLeavesNoDeadGateway ==
    ~gui.open /\ ~blame.cut /\ ~blame.died => ~(disk.route = "router" /\ ~disk.up)
=============================================================================
