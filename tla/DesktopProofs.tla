---------------------------- MODULE DesktopProofs ----------------------------
(***************************************************************************)
(* Proofs about the threads of the desktop program, for any number of       *)
(* operations and faults: Codex is not left bound to dead services without  *)
(* a word (NoDeadGateway), and the configuration that is committed is the   *)
(* one deployed last (CommittedIsDeployed).  One inductive invariant        *)
(* carries both: who holds the locks, which operation the window waits for, *)
(* and who still owes the user a word.                                      *)
(***************************************************************************)
EXTENDS Desktop, WellFoundedInduction, TLAPS

Writers == {"apply", "previous"}     \* the operations that deploy a configuration
Routes == {"official", "router"}
Point == {NoPoint} \cup [route : Routes, conf : 0 .. MaxOps]
Deploying == {"services", "start", "bind"}
PlacesOf(k) ==
  CASE k = "apply" -> {"idle", "lock", "capture", "write", "restore", "report"} \cup Deploying
    [] k = "previous" -> {"idle", "lock", "capture", "write", "restore", "report"} \cup Deploying
    [] k = "disable" -> {"idle", "lock", "capture", "restore", "unbind", "stop", "report"}
    [] k = "factory" -> {"idle", "lock", "restore", "unbind", "report"}
    [] k = "keep" -> {"idle", "mirror"}
    [] k = "exit" -> {"idle", "lock", "stop", "leave", "report"}
    [] OTHER -> {"idle", "services", "start", "report"}

-----------------------------------------------------------------------------
(* The inductive invariant. *)

GuiFields == {"open", "applying", "switching", "exiting", "acting", "recovering", "failing",
              "prompt", "configured", "mode", "undo", "told"}
DiskFields == {"route", "system", "conf", "deployed", "point", "up", "official"}
WorkerFields == {"at", "conf", "back", "to", "undo", "ok"}
BlameFields == {"died", "intruded", "discarded", "cut", "lost"}

\* What routes to the Router has models, as has what is committed from then on.
Backed(p) == p \in Point /\ (p.route = "router" => p.conf # 0 /\ disk.conf # 0)
WindowTyped(g) ==
  DOMAIN g = GuiFields /\ {g.open, g.applying, g.exiting, g.told} \subseteq BOOLEAN
DiskTyped ==
  /\ DOMAIN disk = DiskFields /\ disk.route \in Routes
  /\ {disk.conf, disk.deployed} \subseteq 0 .. MaxOps
  /\ disk.up \in BOOLEAN /\ Backed(disk.point) /\ (disk.route = "router" => disk.conf # 0)
\* Where a thread is, and what it must have brought there.
WorkerTyped(k) ==
  LET x == workers[k] IN
  /\ DOMAIN x = WorkerFields
  /\ x.at \in PlacesOf(k) /\ x.conf \in 0 .. MaxOps /\ {x.undo, x.ok} \subseteq BOOLEAN
  /\ Backed(x.back) /\ Backed(x.to)
  /\ x.at = "idle" => x = Idle
  /\ x.undo => k \in Writers /\ x.at \in {"restore", "write", "report"} \cup Deploying
  /\ k \in Writers =>
       /\ x.at \in {"write"} \cup Deploying => x.conf # 0
       /\ x.at \in Deploying => disk.conf # 0
       /\ x.at \in {"write", "restore"} \cup Deploying => x.back # NoPoint
       /\ x.at = "restore" => x.to # NoPoint
  /\ k = "apply" => /\ x.at \in {"lock", "capture"} => x.conf # 0
                    /\ x.at = "restore" => x.undo
  /\ k = "previous" /\ x.at \in {"lock", "capture"} => x.to # NoPoint
  /\ k \notin Writers => x.back = NoPoint
Event == [of : Kinds \ {"keep"}, ok : BOOLEAN]     \* the binding's mirror sends none
EventsTyped == events \in Seq(Event)
Typed ==
  /\ WindowTyped(gui) /\ DiskTyped /\ EventsTyped /\ ops \in 0 .. MaxOps
  /\ DOMAIN workers = Kinds /\ \A k \in Kinds : WorkerTyped(k)
  /\ {lock, life} \subseteq Kinds \cup {"free"}
  /\ DOMAIN cancel = {"apply", "recover"} /\ cancel.apply \in BOOLEAN
  /\ DOMAIN blame = BlameFields
  /\ {blame.died, blame.intruded, blame.cut, blame.lost} \subseteq BOOLEAN

Runs(k) == workers[k].at # "idle"
Sent(k) == \E i \in DOMAIN events : events[i].of = k

\* Who holds the locks.  An apply that rolls back holds none, and nobody does.
Holds(k) ==
  LET x == workers[k] IN
  /\ /\ k \notin {"keep", "recover"} /\ x.at \notin {"idle", "lock", "report"}
     /\ ~(k = "apply" /\ x.undo)
     => lock = k
  /\ x.at \in {"start", "bind"} => life = k
  /\ x.at = "bind" => disk.up \/ blame.died
Unlocked == ~blame.intruded /\ RollsBackUnlocked => lock = "free"
Locked == (\A k \in Kinds : Holds(k)) /\ Unlocked

\* The window waits for one apply or restore, and for one exit.
OneWriter ==
  /\ ~(Runs("apply") /\ Runs("previous"))
  /\ \A k \in Writers : Runs(k) => gui.applying /\ ~Sent("apply") /\ ~Sent("previous")
  /\ \A k \in Writers : Sent(k) => gui.applying
  /\ \A i, j \in DOMAIN events : events[i].of \in Writers /\ events[j].of \in Writers => i = j
OneExit ==
  /\ Runs("exit") => gui.exiting /\ ~Sent("exit")
  /\ Sent("exit") => gui.exiting
  /\ \A i, j \in DOMAIN events : events[i].of = "exit" /\ events[j].of = "exit" => i = j
  /\ gui.open /\ gui.exiting => cancel.apply /\ (Runs("exit") \/ Sent("exit"))
Closed == ~gui.open => events = <<>> /\ \A k \in Kinds : ~Runs(k)

\* Whoever leaves Codex bound to dead services still has a failure to tell, or an end to
\* reach after which that is not so; an exit that has succeeded has left nothing bound.
Excused == blame.cut \/ blame.intruded
Owing == {"apply", "previous", "disable", "exit"}
Owes(k) ==
  \/ Runs(k) /\ ~(workers[k].at = "report" /\ workers[k].ok)
  \/ \E i \in DOMAIN events : events[i].of = k /\ ~events[i].ok
HasLeft ==
  \/ workers["exit"].at = "report" /\ workers["exit"].ok
  \/ \E i \in DOMAIN events : events[i].of = "exit" /\ events[i].ok
Shallow(k) == workers[k].at \in {"idle", "lock", "report"}
Dead == disk.route = "router" /\ ~disk.up
Accounted == gui.open /\ (gui.told \/ \E k \in Owing : Owes(k))
Debt ==
  ~Excused =>
    /\ workers["disable"].at \in {"unbind", "stop"} => disk.route = "official"
    /\ HasLeft => disk.route = "official" /\ \A k \in Writers : Shallow(k)
    /\ Dead => blame.died \/ Accounted

\* What is committed is deployed, but for the deployment under way, whose way back leads there.
Settled == disk.deployed = 0 \/ disk.conf = disk.deployed
Goes(k) ==
  workers[k].at \in Deploying \/ (workers[k].undo /\ workers[k].at # "report")
Faithful(k) ==
  LET x == workers[k] IN
  /\ x.at \in Deploying => disk.conf = x.conf
  /\ ~x.undo /\ x.at # "report" /\ x.back # NoPoint /\ x.back.conf = 0 => disk.deployed = 0
  /\ x.undo /\ x.at = "restore" /\ x.to.conf = 0 => Settled
Committed ==
  ~Excused /\ ~blame.lost =>
    /\ Settled \/ Goes("apply") \/ Goes("previous")
    /\ \A k \in Writers : Faithful(k)

IInv == Typed /\ Locked /\ OneWriter /\ OneExit /\ Closed /\ Debt /\ Committed

-----------------------------------------------------------------------------
(* What a step of a worker has to do. *)

LEMMA IdleShape ==
  /\ DOMAIN Idle = WorkerFields /\ Idle.at = "idle" /\ Idle.conf = 0 /\ Idle.back = NoPoint
  /\ Idle.to = NoPoint /\ Idle.undo = FALSE /\ Idle.ok = FALSE
  /\ Backed(NoPoint) /\ NoPoint.conf = 0 /\ NoPoint.route = "none"
BY DEF Idle, WorkerFields, Backed, NoPoint, Point

Moves(k) ==
  /\ DOMAIN workers' = Kinds
  /\ \A j \in Kinds : j # k => workers'[j] = workers[j]
Calm == UNCHANGED <<gui, cancel, events, ops>>
Kept == disk.conf # 0 => disk'.conf # 0
BlameGoes ==
  /\ DOMAIN blame' = BlameFields
  /\ {blame'.died, blame'.intruded, blame'.cut, blame'.lost} \subseteq BOOLEAN
  /\ blame'.cut = blame.cut /\ (blame.intruded => blame'.intruded)
  /\ blame.lost => blame'.lost
  /\ blame.died => blame'.died \/ disk'.up

\* It takes and frees locks for itself only...
LockPart(k) ==
  /\ {lock', life'} \subseteq Kinds \cup {"free"}
  /\ \A j \in Kinds : j # k => (lock = j => lock' = j) /\ (life = j => life' = j)
  /\ Holds(k)' /\ Unlocked'
  /\ disk'.up # disk.up => life \in {"free", k}
\* ...leaves nothing bound to dead services unless it goes on or will tell...
DebtPart(k) ==
  /\ disk'.route \in {disk.route, "official"} \/ (k \in Writers /\ ~Shallow(k))
  /\ k = "disable" /\ workers'[k].at \in {"unbind", "stop"} => disk'.route = "official"
  /\ k = "exit" /\ workers'[k].at = "report" /\ workers'[k].ok =>
       disk'.route = "official" /\ \A j \in Writers : Shallow(j)
  /\ k \in Writers /\ Shallow(k) /\ HasLeft => Shallow(k)'
  /\ Dead' => \/ blame'.died
              \/ k \in Owing /\ ~(workers'[k].at = "report" /\ workers'[k].ok)
              \/ k \notin Owing /\ Dead /\ (blame.died => blame'.died)
\* ...and what is committed deployed.
CommitPart(k) ==
  /\ k \notin Writers => disk'.conf = disk.conf /\ disk'.deployed = disk.deployed
  /\ k \in Writers => Faithful(k)' /\ (Settled' \/ Goes(k)')

WorkStep(k) ==
  /\ Calm /\ Moves(k) /\ Runs(k) /\ Runs(k)' /\ WorkerTyped(k)' /\ DiskTyped' /\ Kept /\ BlameGoes
  /\ LockPart(k)
  /\ ~Excused' => DebtPart(k)
  /\ ~Excused' /\ ~blame'.lost => CommitPart(k)

LEMMA WriterShapes ==
  ASSUME Typed, NEW k \in Kinds, ~Runs(k)
  PROVE  /\ ~Goes(k) /\ Faithful(k) /\ Shallow(k) /\ workers[k] = Idle
         /\ k \in Writers => ~workers[k].undo
<1>1. workers[k] = Idle
  BY DEF Typed, WorkerTyped, Runs
<1> QED
  BY <1>1, IdleShape DEF Goes, Faithful, Shallow, Deploying

LEMMA WorkKeepsTypes ==
  ASSUME IInv, NEW k \in Kinds, WorkStep(k)
  PROVE  Typed'
<1>1. ASSUME NEW j \in Kinds PROVE WorkerTyped(j)'
  <2>1. CASE j = k
    BY <2>1 DEF WorkStep
  <2>2. CASE j # k
    BY <2>2 DEF WorkStep, Moves, IInv, Typed, WorkerTyped, Backed, Kept
  <2> QED
    BY <2>1, <2>2
<1>2. WindowTyped(gui') /\ ops' \in 0 .. MaxOps /\ EventsTyped'
  BY DEF WorkStep, Calm, IInv, Typed, EventsTyped
<1>3. DOMAIN cancel' = {"apply", "recover"} /\ cancel'.apply \in BOOLEAN
  BY DEF WorkStep, Calm, IInv, Typed
<1> QED
  BY <1>1, <1>2, <1>3 DEF WorkStep, Moves, Typed, BlameGoes, LockPart

LEMMA WorkKeepsLocks ==
  ASSUME IInv, NEW k \in Kinds, WorkStep(k)
  PROVE  Locked'
<1>1. ASSUME NEW j \in Kinds PROVE Holds(j)'
  <2>1. CASE j = k
    BY <2>1 DEF WorkStep, LockPart
  <2>2. CASE j # k
    <3>1. Holds(j) /\ workers'[j] = workers[j] /\ (lock = j => lock' = j) /\ (life = j => life' = j)
      BY <2>2 DEF IInv, Locked, WorkStep, Moves, LockPart
    <3>2. workers[j].at = "bind" => disk'.up \/ blame'.died
      <4>1. workers[j].at = "bind" => life = j /\ (disk.up \/ blame.died)
        BY <3>1 DEF Holds
      <4>2. j # "free"
        BY DEF Kinds
      <4> QED
        BY <2>2, <4>1, <4>2 DEF WorkStep, LockPart, BlameGoes
    <3> QED
      BY <3>1, <3>2 DEF Holds
  <2> QED
    BY <2>1, <2>2
<1> QED
  BY <1>1 DEF Locked, WorkStep, LockPart

LEMMA SameWindow ==
  ASSUME IInv, Calm, DOMAIN workers' = Kinds, \A j \in Kinds : Runs(j)' <=> Runs(j)
  PROVE  OneWriter' /\ OneExit' /\ Closed'
<1>1. \A k : Sent(k)' <=> Sent(k)
  BY DEF Sent, Calm
<1>2. OneWriter'
  BY <1>1 DEF IInv, OneWriter, Calm, Kinds, Writers
<1>3. OneExit'
  BY <1>1 DEF IInv, OneExit, Calm, Kinds
<1>4. Closed'
  BY DEF IInv, Closed, Calm
<1> QED
  BY <1>2, <1>3, <1>4

LEMMA WorkKeepsWindow ==
  ASSUME IInv, NEW k \in Kinds, WorkStep(k)
  PROVE  OneWriter' /\ OneExit' /\ Closed'
<1>1. \A j \in Kinds : Runs(j)' <=> Runs(j)
  BY DEF WorkStep, Moves, Runs
<1> QED
  BY <1>1, SameWindow DEF WorkStep, Moves

\* A thread runs in a window that is open.
LEMMA RunsInTheOpen ==
  ASSUME IInv, NEW k \in Kinds, Runs(k)
  PROVE  gui.open
BY DEF IInv, Closed

\* A writer that works keeps out whoever gives Codex back.
LEMMA WriterExcludes ==
  ASSUME IInv, ~Excused, NEW k \in Writers, ~Shallow(k)
  PROVE  /\ ~HasLeft /\ workers["disable"].at \notin {"unbind", "stop"}
         /\ workers["exit"].at \notin {"stop", "leave"}
<1>1. ~HasLeft
  BY DEF IInv, Debt
<1>2. lock \in {"free", k}
  <2>1. CASE k = "apply" /\ workers[k].undo
    <3>1. RollsBackUnlocked
      BY <2>1 DEF RollsBackUnlocked, Shallow
    <3> QED
      BY <3>1 DEF IInv, Locked, Unlocked, Excused
  <2>2. CASE ~(k = "apply" /\ workers[k].undo)
    BY <2>2 DEF IInv, Locked, Holds, Shallow, Writers, Kinds
  <2> QED
    BY <2>1, <2>2
<1>3. Holds("disable") /\ Holds("exit")
  BY DEF IInv, Locked, Kinds
<1> QED
  BY <1>1, <1>2, <1>3 DEF Holds, Writers

LEMMA WorkKeepsDebt ==
  ASSUME IInv, NEW k \in Kinds, WorkStep(k)
  PROVE  Debt'
<1> SUFFICES ASSUME ~Excused'
             PROVE  /\ workers'["disable"].at \in {"unbind", "stop"} => disk'.route = "official"
                    /\ HasLeft' => /\ disk'.route = "official"
                                   /\ \A j \in Writers : Shallow(j)'
                    /\ Dead' => blame'.died \/ Accounted'
  BY DEF Debt
<1>0. ~Excused /\ DebtPart(k) /\ Moves(k) /\ Calm /\ gui.open
  BY RunsInTheOpen DEF WorkStep, BlameGoes, Excused
<1>1. /\ workers["disable"].at \in {"unbind", "stop"} => disk.route = "official"
      /\ HasLeft => disk.route = "official" /\ \A j \in Writers : Shallow(j)
      /\ Dead => blame.died \/ Accounted
  BY <1>0 DEF IInv, Debt
<1>2. k \in Writers /\ ~Shallow(k) =>
        /\ ~HasLeft /\ workers["disable"].at \notin {"unbind", "stop"}
        /\ workers["exit"].at \notin {"stop", "leave"}
  BY <1>0, WriterExcludes
<1>3. {"disable", "exit"} \subseteq Kinds /\ Writers \subseteq Kinds /\ Owing \subseteq Kinds
      /\ {"disable", "exit"} \cap Writers = {}
  BY DEF Kinds, Writers, Owing
<1>4. workers'["disable"].at \in {"unbind", "stop"} => disk'.route = "official"
  <2>1. CASE k = "disable"
    BY <1>0, <2>1 DEF DebtPart
  <2>2. CASE k # "disable"
    <3>1. workers'["disable"] = workers["disable"]
      BY <1>0, <1>3, <2>2 DEF Moves
    <3> QED
      BY <1>0, <1>1, <1>2, <3>1 DEF DebtPart
  <2> QED
    BY <2>1, <2>2
<1>5. HasLeft' => \/ HasLeft
                  \/ k = "exit" /\ workers'[k].at = "report" /\ workers'[k].ok
  BY <1>0, <1>3 DEF HasLeft, Moves, Calm
<1>6. ASSUME HasLeft'
      PROVE  disk'.route = "official" /\ \A j \in Writers : Shallow(j)'
  <2>1. CASE HasLeft
    <3>1. disk'.route = "official"
      BY <1>0, <1>1, <1>2, <2>1 DEF DebtPart
    <3>2. ASSUME NEW j \in Writers PROVE Shallow(j)'
      <4>1. CASE j = k
        BY <1>0, <1>1, <2>1, <4>1 DEF DebtPart
      <4>2. CASE j # k
        BY <1>0, <1>1, <1>3, <2>1, <4>2 DEF Moves, Shallow
      <4> QED
        BY <4>1, <4>2
    <3> QED
      BY <3>1, <3>2
  <2>2. CASE k = "exit" /\ workers'[k].at = "report" /\ workers'[k].ok
    <3>1. disk'.route = "official" /\ \A j \in Writers : Shallow(j)
      BY <1>0, <2>2 DEF DebtPart
    <3>2. \A j \in Writers : Shallow(j)'
      BY <1>0, <1>3, <2>2, <3>1 DEF Moves, Shallow
    <3> QED
      BY <3>1, <3>2
  <2> QED
    BY <1>5, <1>6, <2>1, <2>2
<1>7. ASSUME Dead', ~blame'.died
      PROVE  Accounted'
  <2>1. gui' = gui /\ events' = events
    BY <1>0 DEF Calm
  <2>2. CASE k \in Owing /\ ~(workers'[k].at = "report" /\ workers'[k].ok)
    <3>1. Runs(k)'
      BY DEF WorkStep
    <3>2. Owes(k)'
      BY <2>2, <3>1 DEF Owes, Runs
    <3> QED
      BY <1>0, <2>1, <2>2, <3>2 DEF Accounted
  <2>3. CASE k \notin Owing /\ Dead /\ ~blame.died
    <3>1. Accounted
      BY <1>1, <2>3
    <3>2. \A j \in Owing : Owes(j) => Owes(j)'
      <4> TAKE j \in Owing
      <4>1. workers'[j] = workers[j]
        BY <1>0, <1>3, <2>3 DEF Moves
      <4> QED
        BY <2>1, <4>1 DEF Owes, Runs
    <3> QED
      BY <2>1, <3>1, <3>2 DEF Accounted
  <2> QED
    BY <1>0, <1>7, <2>2, <2>3 DEF DebtPart
<1> QED
  BY <1>4, <1>6, <1>7

LEMMA WorkKeepsCommitted ==
  ASSUME IInv, NEW k \in Kinds, WorkStep(k)
  PROVE  Committed'
<1> SUFFICES ASSUME ~Excused', ~blame'.lost
             PROVE  /\ Settled' \/ Goes("apply")' \/ Goes("previous")'
                    /\ \A j \in Writers : Faithful(j)'
  BY DEF Committed
<1>0. CommitPart(k) /\ Moves(k) /\ ~Excused /\ ~blame.lost
  BY DEF WorkStep, BlameGoes, Excused
<1>1. (Settled \/ Goes("apply") \/ Goes("previous")) /\ \A j \in Writers : Faithful(j)
  BY <1>0 DEF IInv, Committed
<1>2. CASE k \notin Writers
  <2>1. \A j \in Writers : workers'[j] = workers[j]
    BY <1>0, <1>2 DEF Moves, Writers, Kinds
  <2>2. disk'.conf = disk.conf /\ disk'.deployed = disk.deployed
    BY <1>0, <1>2 DEF CommitPart
  <2>3. \A j \in Writers : (Faithful(j)' <=> Faithful(j)) /\ (Goes(j)' <=> Goes(j))
    BY <2>1, <2>2 DEF Faithful, Goes, Settled
  <2>4. Settled' <=> Settled
    BY <2>2 DEF Settled
  <2> QED
    BY <1>1, <2>3, <2>4 DEF Writers
<1>3. CASE k \in Writers
  <2>1. ASSUME NEW j \in Writers, j # k PROVE Faithful(j)'
    <3>1. ~Runs(j) /\ j \in Kinds
      BY <1>3, <2>1 DEF WorkStep, IInv, OneWriter, Writers, Kinds
    <3>2. workers'[j] = Idle
      BY <1>0, <2>1, <3>1, WriterShapes DEF Moves, IInv
    <3> QED
      BY <3>2, IdleShape DEF Faithful, Deploying
  <2>2. Faithful(k)' /\ (Settled' \/ Goes(k)')
    BY <1>0, <1>3 DEF CommitPart
  <2> QED
    BY <1>3, <2>1, <2>2 DEF Writers
<1> QED
  BY <1>2, <1>3

LEMMA WorkKeeps ==
  ASSUME IInv, NEW k \in Kinds, WorkStep(k)
  PROVE  IInv'
BY WorkKeepsTypes, WorkKeepsLocks, WorkKeepsWindow, WorkKeepsDebt, WorkKeepsCommitted DEF IInv

-----------------------------------------------------------------------------
(* The ways a worker moves. *)

\* What a thread that runs is like, and what else is known when a step of it begins.
LEMMA Worker ==
  ASSUME IInv, NEW k \in Kinds
  PROVE  /\ DOMAIN workers = Kinds /\ WorkerTyped(k) /\ Holds(k) /\ DiskTyped
         /\ DOMAIN workers[k] = WorkerFields
         /\ {lock, life} \subseteq Kinds \cup {"free"} /\ "free" \notin Kinds
         /\ DOMAIN blame = BlameFields
         /\ {blame.died, blame.intruded, blame.cut, blame.lost} \subseteq BOOLEAN
BY DEF IInv, Typed, Locked, Kinds, WorkerTyped

LEMMA PutShape ==
  ASSUME DOMAIN workers = Kinds, NEW k \in Kinds, NEW y, workers' = [workers EXCEPT ![k] = y]
  PROVE  Moves(k) /\ workers'[k] = y
BY DEF Moves

LEMMA GoShape ==
  ASSUME IInv, NEW k \in Kinds, NEW at, Go(k, at)
  PROVE  /\ Moves(k) /\ DOMAIN workers'[k] = WorkerFields /\ workers'[k].at = at
         /\ workers'[k].conf = workers[k].conf /\ workers'[k].back = workers[k].back
         /\ workers'[k].to = workers[k].to /\ workers'[k].undo = workers[k].undo
         /\ workers'[k].ok = workers[k].ok
<1>1. PICK y : y = [workers[k] EXCEPT !.at = at]
  OBVIOUS
<1>2. workers' = [workers EXCEPT ![k] = y]
  BY <1>1 DEF Go
<1>3. Moves(k) /\ workers'[k] = y
  BY <1>2, Worker, PutShape
<1>4. DOMAIN workers[k] = WorkerFields
  BY Worker
<1> QED
  BY <1>1, <1>3, <1>4 DEF WorkerFields

LEMMA FinishShape ==
  ASSUME IInv, NEW k \in Kinds, NEW ok, Finish(k, ok)
  PROVE  /\ Moves(k) /\ DOMAIN workers'[k] = WorkerFields /\ workers'[k].at = "report"
         /\ workers'[k].conf = workers[k].conf /\ workers'[k].back = workers[k].back
         /\ workers'[k].to = workers[k].to /\ workers'[k].undo = workers[k].undo
         /\ workers'[k].ok = ok
         /\ lock' = (IF lock = k THEN "free" ELSE lock)
         /\ life' = (IF life = k THEN "free" ELSE life)
<1>1. PICK y : y = [workers[k] EXCEPT !.at = "report", !.ok = ok]
  OBVIOUS
<1>2. workers' = [workers EXCEPT ![k] = y]
  BY <1>1 DEF Finish
<1>3. Moves(k) /\ workers'[k] = y
  BY <1>2, Worker, PutShape
<1>4. DOMAIN workers[k] = WorkerFields
  BY Worker
<1>5. /\ lock' = (IF lock = k THEN "free" ELSE lock)
      /\ life' = (IF life = k THEN "free" ELSE life)
  BY DEF Finish, Freed
<1> QED
  BY <1>1, <1>3, <1>4, <1>5 DEF WorkerFields

LEMMA FailShape ==
  ASSUME IInv, NEW k \in Kinds, Fail(k), Runs(k), k # "keep"
  PROVE  \/ /\ Finish(k, FALSE)
            /\ blame' = [blame EXCEPT !.lost = @ \/ (k # "recover" /\ workers[k].at # "lock")]
         \/ /\ k \in Writers /\ ~workers[k].undo /\ ~cancel.apply /\ workers[k].back # NoPoint
            /\ Moves(k) /\ DOMAIN workers'[k] = WorkerFields /\ workers'[k].at = "restore"
            /\ workers'[k].conf = workers[k].conf /\ workers'[k].back = workers[k].back
            /\ workers'[k].to = workers[k].back /\ workers'[k].undo
            /\ workers'[k].ok = workers[k].ok
            /\ lock' = (IF k = "apply" /\ lock = k THEN "free" ELSE lock)
            /\ life' = (IF life = k THEN "free" ELSE life)
            /\ blame' = blame
<1>1. CASE workers[k].undo \/ workers[k].back = NoPoint \/ cancel.apply
  BY <1>1 DEF Fail
<1>2. CASE ~(workers[k].undo \/ workers[k].back = NoPoint \/ cancel.apply)
  <2>1. k \in Writers
    BY <1>2, Worker DEF WorkerTyped
  <2>2. PICK y : y = [workers[k] EXCEPT !.at = "restore", !.undo = TRUE, !.to = workers[k].back]
    OBVIOUS
  <2>3. /\ workers' = [workers EXCEPT ![k] = y] /\ blame' = blame
        /\ lock' = (IF k = "apply" /\ lock = k THEN "free" ELSE lock)
        /\ life' = (IF life = k THEN "free" ELSE life)
    BY <1>2, <2>2 DEF Fail, Freed
  <2>4. Moves(k) /\ workers'[k] = y
    BY <2>3, Worker, PutShape
  <2>5. DOMAIN workers[k] = WorkerFields
    BY Worker
  <2>6. /\ DOMAIN y = WorkerFields /\ y.at = "restore" /\ y.conf = workers[k].conf
        /\ y.back = workers[k].back /\ y.to = workers[k].back /\ y.undo /\ y.ok = workers[k].ok
    BY <2>2, <2>5 DEF WorkerFields
  <2> QED
    BY <1>2, <2>1, <2>3, <2>4, <2>6
<1> QED
  BY <1>1, <1>2

\* A thread that ends gives its locks back.  One that writes leaves what is committed
\* deployed; one that has to tell does, or leaves nothing bound to dead services.
LEMMA EndsStep ==
  ASSUME IInv, NEW k \in Kinds, k # "keep", Runs(k), NEW ok \in BOOLEAN, Finish(k, ok),
         Calm, DiskTyped', Kept, BlameGoes,
         disk'.up # disk.up => life \in {"free", k},
         ~Excused' =>
           /\ disk'.route \in {disk.route, "official"} \/ (k \in Writers /\ ~Shallow(k))
           /\ k = "exit" /\ ok => disk'.route = "official" /\ \A j \in Writers : Shallow(j)
           /\ Dead' => \/ blame'.died
                       \/ k \in Owing /\ ~ok
                       \/ k \notin Owing /\ Dead /\ (blame.died => blame'.died),
         ~Excused' /\ ~blame'.lost =>
           /\ k \notin Writers => disk'.conf = disk.conf /\ disk'.deployed = disk.deployed
           /\ k \in Writers => Settled'
  PROVE  WorkStep(k)
<1>1. /\ Moves(k) /\ DOMAIN workers'[k] = WorkerFields /\ workers'[k].at = "report"
      /\ workers'[k].conf = workers[k].conf /\ workers'[k].back = workers[k].back
      /\ workers'[k].to = workers[k].to /\ workers'[k].undo = workers[k].undo
      /\ workers'[k].ok = ok
  BY FinishShape
<1>2. /\ lock' = (IF lock = k THEN "free" ELSE lock)
      /\ life' = (IF life = k THEN "free" ELSE life)
  BY FinishShape
<1>3. WorkerTyped(k) /\ {lock, life} \subseteq Kinds \cup {"free"} /\ "free" \notin Kinds
  BY Worker
<1>4. "report" \in PlacesOf(k)
  BY DEF PlacesOf, Kinds
<1>5. WorkerTyped(k)'
  BY <1>1, <1>3, <1>4 DEF WorkerTyped, Backed, Deploying, Kept
<1>6. LockPart(k)
  <2>1. Holds(k)'
    BY <1>1 DEF Holds
  <2>2. Unlocked'
    <3>1. k # "apply" => (RollsBackUnlocked' <=> RollsBackUnlocked)
      BY <1>1 DEF RollsBackUnlocked, Moves, Kinds
    <3>2. k = "apply" => ~RollsBackUnlocked'
      BY <1>1 DEF RollsBackUnlocked
    <3> QED
      BY <1>2, <3>1, <3>2 DEF Unlocked, IInv, Locked, BlameGoes
  <2> QED
    BY <1>2, <1>3, <2>1, <2>2 DEF LockPart
<1>7. ASSUME ~Excused' PROVE DebtPart(k)
  BY <1>1, <1>7 DEF DebtPart, Shallow
<1>8. ASSUME ~Excused', ~blame'.lost PROVE CommitPart(k)
  BY <1>1, <1>8 DEF CommitPart, Faithful, Deploying
<1>9. Runs(k)'
  BY <1>1 DEF Runs
<1> QED
  BY <1>1, <1>5, <1>6, <1>7, <1>8, <1>9 DEF WorkStep

\* An error on the way: a writer goes back, or what it leaves is excused.
LEMMA FailStep ==
  ASSUME IInv, NEW k \in Kinds, k # "keep", Runs(k), ~Shallow(k), Fail(k), Calm, DiskTyped', Kept,
         disk'.up # disk.up => life \in {"free", k},
         k \in Owing \/ (k = "recover" /\ (Dead' => Dead)),
         disk'.route \in {disk.route, "official"} \/ k \in Writers,
         k \notin Writers => disk'.conf = disk.conf /\ disk'.deployed = disk.deployed,
         ~Excused /\ ~blame.lost /\ k \in Writers /\ ~workers[k].undo
           /\ workers[k].back.conf = 0 => Settled'
  PROVE  WorkStep(k)
<1>1. CASE /\ Finish(k, FALSE)
           /\ blame' = [blame EXCEPT !.lost = @ \/ (k # "recover" /\ workers[k].at # "lock")]
  <2>1. /\ BlameGoes /\ blame'.died = blame.died
        /\ k # "recover" => blame'.lost
    BY <1>1, Worker DEF BlameGoes, BlameFields, Shallow
  <2>2. Dead' => k \in Owing \/ Dead
    OBVIOUS
  <2>3. k \notin Owing => (Dead' => Dead) /\ k \notin Writers
    BY DEF Owing, Writers
  <2>4. k \in Writers => blame'.lost
    BY <2>1 DEF Writers
  <2> QED
    BY <1>1, <2>1, <2>2, <2>3, <2>4, EndsStep
<1>2. CASE /\ k \in Writers /\ ~workers[k].undo /\ ~cancel.apply /\ workers[k].back # NoPoint
           /\ Moves(k) /\ DOMAIN workers'[k] = WorkerFields /\ workers'[k].at = "restore"
           /\ workers'[k].conf = workers[k].conf /\ workers'[k].back = workers[k].back
           /\ workers'[k].to = workers[k].back /\ workers'[k].undo
           /\ workers'[k].ok = workers[k].ok
           /\ lock' = (IF k = "apply" /\ lock = k THEN "free" ELSE lock)
           /\ life' = (IF life = k THEN "free" ELSE life)
           /\ blame' = blame
  <2>1. WorkerTyped(k) /\ Holds(k) /\ {lock, life} \subseteq Kinds \cup {"free"} /\ "free" \notin Kinds
        /\ DOMAIN blame = BlameFields
        /\ {blame.died, blame.intruded, blame.cut, blame.lost} \subseteq BOOLEAN
    BY Worker
  <2>2. WorkerTyped(k)'
    <3>1. "restore" \in PlacesOf(k)
      BY <1>2 DEF PlacesOf, Writers
    <3>2. /\ workers'[k].conf \in 0 .. MaxOps /\ {workers'[k].undo, workers'[k].ok} \subseteq BOOLEAN
          /\ Backed(workers'[k].back) /\ Backed(workers'[k].to) /\ workers'[k].to # NoPoint
      BY <1>2, <2>1 DEF WorkerTyped
    <3> QED
      BY <1>2, <3>1, <3>2 DEF WorkerTyped, Backed, Deploying, Kept
  <2>3. lock = k
    BY <1>2, <2>1 DEF Holds, Writers, Shallow
  <2>4. Holds(k)'
    BY <1>2, <2>3 DEF Holds, Writers
  <2>5. Unlocked'
    <3>1. k = "previous" => (RollsBackUnlocked' <=> RollsBackUnlocked)
      BY <1>2 DEF RollsBackUnlocked, Moves, Kinds
    <3> QED
      BY <1>2, <2>3, <3>1 DEF Unlocked, IInv, Locked, Writers
  <2>6. LockPart(k)
    BY <1>2, <2>1, <2>4, <2>5 DEF LockPart
  <2>7. BlameGoes
    BY <1>2, <2>1 DEF BlameGoes
  <2>8. DebtPart(k)
    BY <1>2 DEF DebtPart, Writers, Owing
  <2>9. ASSUME ~Excused', ~blame'.lost PROVE CommitPart(k)
    BY <1>2, <2>9 DEF CommitPart, Faithful, Goes, Deploying, Excused
  <2>10. Runs(k)'
    BY <1>2 DEF Runs
  <2> QED
    BY <1>2, <2>2, <2>6, <2>7, <2>8, <2>9, <2>10 DEF WorkStep
<1> QED
  BY <1>1, <1>2, FailShape

-----------------------------------------------------------------------------
(* The steps of the workers. *)

LEMMA Places ==
  ASSUME IInv, NEW k \in Kinds
  PROVE  /\ workers[k].at \in {"capture"} => k \in {"apply", "previous", "disable"}
         /\ workers[k].at \in {"write", "bind"} => k \in Writers
         /\ workers[k].at \in {"services", "start"} => k \in Writers \cup {"recover"}
         /\ workers[k].at = "restore" => k \in Writers \cup {"disable", "factory"}
         /\ workers[k].at = "unbind" => k \in {"disable", "factory"}
         /\ workers[k].at = "stop" => k \in {"disable", "exit"}
         /\ workers[k].at = "leave" => k = "exit"
         /\ workers[k].at = "lock" => k \in {"apply", "previous", "disable", "factory", "exit"}
         /\ workers[k].at = "report" => k # "keep"
         /\ k \in {"disable", "factory", "exit", "recover"} => ~workers[k].undo
<1>1. WorkerTyped(k)
  BY Worker
<1> QED
  BY <1>1 DEF WorkerTyped, PlacesOf, Deploying, Writers, Kinds

\* A thread that moves on, with the locks it has.
LEMMA GoesOn ==
  ASSUME IInv, NEW k \in Kinds, k # "keep", Runs(k), Calm, Moves(k), WorkerTyped(k)', Runs(k)',
         DiskTyped', Kept, blame' = blame, lock' = lock, life' = life,
         workers'[k].at # "report", workers'[k].undo = workers[k].undo,
         ~Shallow(k) \/ k = "recover", workers'[k].at \notin {"start", "bind"},
         disk'.up # disk.up => life \in {"free", k},
         disk'.route \in {disk.route, "official"} \/ k \in Writers,
         ~Excused /\ k = "disable" /\ workers'[k].at \in {"unbind", "stop"} =>
           disk'.route = "official",
         k \notin Owing => (Dead' => Dead),
         ~Excused /\ ~blame.lost =>
           /\ k \notin Writers => disk'.conf = disk.conf /\ disk'.deployed = disk.deployed
           /\ k \in Writers => Faithful(k)' /\ (Settled' \/ Goes(k)')
  PROVE  WorkStep(k)
<1>1. WorkerTyped(k) /\ Holds(k) /\ {lock, life} \subseteq Kinds \cup {"free"} /\ "free" \notin Kinds
      /\ DOMAIN blame = BlameFields
      /\ {blame.died, blame.intruded, blame.cut, blame.lost} \subseteq BOOLEAN
  BY Worker
<1>2. BlameGoes
  BY <1>1 DEF BlameGoes
<1>3. Holds(k)'
  BY <1>1 DEF Holds, Shallow, Runs
<1>4. Unlocked'
  <2>1. k # "apply" => (RollsBackUnlocked' <=> RollsBackUnlocked)
    BY DEF RollsBackUnlocked, Moves, Kinds
  <2>2. k = "apply" => (RollsBackUnlocked' => RollsBackUnlocked)
    BY DEF RollsBackUnlocked, Shallow
  <2> QED
    BY <2>1, <2>2 DEF Unlocked, IInv, Locked
<1>5. LockPart(k)
  BY <1>1, <1>3, <1>4 DEF LockPart
<1>6. ASSUME ~Excused' PROVE DebtPart(k)
  BY <1>6 DEF DebtPart, Shallow, Writers, Excused
<1>7. ASSUME ~Excused', ~blame'.lost PROVE CommitPart(k)
  BY <1>7 DEF CommitPart, Excused
<1> QED
  BY <1>2, <1>5, <1>6, <1>7 DEF WorkStep

LEMMA TakeConfigLockKeeps ==
  ASSUME IInv, NEW k \in Kinds, TakeConfigLock(k)
  PROVE  WorkStep(k)
<1>1. /\ workers[k].at = "lock" /\ Runs(k) /\ k # "keep" /\ Calm /\ disk' = disk
      /\ k \in {"apply", "previous", "disable", "factory", "exit"}
  BY Places DEF TakeConfigLock, Calm, Runs
<1>2. WorkerTyped(k) /\ Holds(k) /\ DiskTyped /\ {lock, life} \subseteq Kinds \cup {"free"}
      /\ "free" \notin Kinds /\ DOMAIN blame = BlameFields
      /\ {blame.died, blame.intruded, blame.cut, blame.lost} \subseteq BOOLEAN
  BY Worker
<1>3. DiskTyped' /\ Kept /\ Dead' = Dead /\ (Settled' <=> Settled)
  BY <1>1, <1>2 DEF DiskTyped, Backed, Kept, Dead, Settled
<1>4. ~workers[k].undo /\ Shallow(k) /\ ~Goes(k)
  BY <1>1, <1>2 DEF WorkerTyped, Shallow, Goes, Deploying
<1>5. ASSUME ~Excused, ~blame.lost, k \in Writers
      PROVE  Settled /\ Faithful(k)
  <2>1. \A j \in Writers : j # k => ~Runs(j) /\ j \in Kinds
    BY <1>1, <1>5 DEF IInv, OneWriter, Writers, Kinds
  <2>2. \A j \in Writers : ~Goes(j)
    BY <1>4, <2>1, WriterShapes DEF IInv
  <2> QED
    BY <1>5, <2>2 DEF IInv, Committed, Writers
<1>6. ASSUME Finish(k, FALSE), BlameGoes
      PROVE  WorkStep(k)
  <2>1. ~Excused' => ~Excused
    BY <1>6 DEF BlameGoes, Excused
  <2>2. /\ disk'.route \in {disk.route, "official"} /\ disk'.up = disk.up
        /\ Dead' => k \in Owing \/ (k \notin Owing /\ Dead /\ (blame.died => blame'.died))
    BY <1>1, <1>3, <1>6 DEF BlameGoes, Dead
  <2>3. ~Excused' /\ ~blame'.lost =>
          /\ k \notin Writers => disk'.conf = disk.conf /\ disk'.deployed = disk.deployed
          /\ k \in Writers => Settled'
    BY <1>1, <1>3, <1>5, <1>6, <2>1 DEF BlameGoes
  <2> QED
    BY <1>1, <1>3, <1>6, <2>2, <2>3, EndsStep
<1>7. CASE k = "apply" /\ cancel.apply /\ Fail(k)
  <2>1. CASE /\ Finish(k, FALSE)
             /\ blame' = [blame EXCEPT !.lost = @ \/ (k # "recover" /\ workers[k].at # "lock")]
    <3>1. PICK b \in BOOLEAN : b <=> (blame.lost \/ (k # "recover" /\ workers[k].at # "lock"))
      OBVIOUS
    <3>2. b \in BOOLEAN /\ (blame.lost => b)
      BY <3>1
    <3>3. (blame.lost \/ (k # "recover" /\ workers[k].at # "lock")) = b
      BY <3>1
    <3>4. blame' = [blame EXCEPT !.lost = b]
      BY <2>1, <3>3
    <3>5. BlameGoes
      BY <1>2, <3>2, <3>4 DEF BlameGoes, BlameFields
    <3> QED
      BY <1>6, <2>1, <3>5
  <2>2. CASE workers'[k].at = "restore" /\ workers[k].back # NoPoint /\ ~cancel.apply
    BY <1>7, <2>2
  <2> QED
    BY <1>1, <1>7, <2>1, <2>2, FailShape
<1>8. CASE lock \notin {"free", k} /\ Finish(k, FALSE) /\ UNCHANGED blame
  <2>1. BlameGoes
    BY <1>2, <1>8 DEF BlameGoes
  <2> QED
    BY <1>6, <1>8, <2>1
<1>9. CASE /\ k # "apply" \/ ~cancel.apply
           /\ lock \in {"free", k} /\ lock' = k /\ Taken(k)
           /\ Go(k, CASE k = "factory" -> "restore" [] k = "exit" -> "stop" [] OTHER -> "capture")
           /\ UNCHANGED life
  <2>1. PICK at : at = CASE k = "factory" -> "restore" [] k = "exit" -> "stop" [] OTHER -> "capture"
    OBVIOUS
  <2>2. /\ Moves(k) /\ DOMAIN workers'[k] = WorkerFields /\ workers'[k].at = at
        /\ workers'[k].conf = workers[k].conf /\ workers'[k].back = workers[k].back
        /\ workers'[k].to = workers[k].to /\ workers'[k].undo = workers[k].undo
        /\ workers'[k].ok = workers[k].ok
    BY <1>9, <2>1, GoShape
  <2>3. /\ at \in {"restore", "stop", "capture"} /\ (k = "factory" <=> at = "restore")
        /\ k = "exit" <=> at = "stop"
    BY <1>1, <2>1
  <2>4. WorkerTyped(k)'
    <3>1. at \in PlacesOf(k)
      BY <1>1, <2>3 DEF PlacesOf
    <3> QED
      BY <1>1, <1>2, <1>4, <2>2, <2>3, <3>1 DEF WorkerTyped, Backed, Writers, Deploying
  <2>5. /\ DOMAIN blame' = BlameFields /\ blame'.died = blame.died /\ blame'.cut = blame.cut
        /\ blame'.lost = blame.lost /\ blame'.intruded \in BOOLEAN
        /\ blame'.intruded <=> \/ blame.intruded
                               \/ k # "apply" /\ RollsBackUnlocked
                               \/ k = "previous" /\ cancel.apply
    <3>1. cancel.apply \in BOOLEAN /\ RollsBackUnlocked \in BOOLEAN
      BY DEF IInv, Typed, RollsBackUnlocked
    <3> QED
      BY <1>2, <1>9, <3>1 DEF Taken, BlameFields
  <2>6. BlameGoes
    BY <1>2, <2>5 DEF BlameGoes
  <2>7. LockPart(k)
    <3>1. Holds(k)'
      BY <1>9, <2>2, <2>3 DEF Holds
    <3>2. Unlocked'
      <4>1. k # "apply" => (RollsBackUnlocked' <=> RollsBackUnlocked)
        BY <2>2 DEF RollsBackUnlocked, Moves, Kinds
      <4>2. k = "apply" => ~RollsBackUnlocked'
        BY <1>4, <2>2 DEF RollsBackUnlocked
      <4> QED
        BY <2>5, <4>1, <4>2 DEF Unlocked
    <3> QED
      BY <1>1, <1>2, <1>9, <3>1, <3>2 DEF LockPart
  <2>8. ASSUME ~Excused' PROVE DebtPart(k)
    <3>1. k \in Writers /\ HasLeft => FALSE
      <4>1. gui.open
        BY <1>1, RunsInTheOpen
      <4>2. HasLeft => gui.exiting
        BY DEF HasLeft, IInv, OneExit, Sent, Runs
      <4>3. HasLeft => cancel.apply
        BY <4>1, <4>2 DEF IInv, OneExit
      <4> QED
        BY <1>9, <2>5, <2>8, <4>3 DEF Excused, Writers
    <3>2. k = "factory" => k \notin Owing /\ k \notin Writers
      BY DEF Owing, Writers
    <3>3. k # "factory" => k \in Owing
      BY <1>1 DEF Owing
    <3> QED
      BY <1>1, <1>3, <2>2, <2>3, <2>5, <3>1, <3>2, <3>3 DEF DebtPart
  <2>9. ASSUME ~Excused', ~blame'.lost PROVE CommitPart(k)
    <3>1. ~Excused /\ ~blame.lost
      BY <2>5, <2>9 DEF Excused
    <3>2. k \in Writers => Faithful(k)'
      BY <1>1, <1>5, <2>2, <2>3, <1>4, <3>1 DEF Faithful, Deploying, Writers
    <3> QED
      BY <1>1, <1>3, <1>5, <3>1, <3>2 DEF CommitPart
  <2>10. Runs(k)'
    BY <2>2, <2>3 DEF Runs
  <2> QED
    BY <1>1, <1>3, <2>2, <2>4, <2>6, <2>7, <2>8, <2>9, <2>10 DEF WorkStep
<1> QED
  BY <1>7, <1>8, <1>9 DEF TakeConfigLock

\* A writer that has written nothing yet finds what is committed deployed.
LEMMA SettledBefore ==
  ASSUME IInv, NEW k \in Writers, Runs(k), ~Goes(k), ~Excused, ~blame.lost
  PROVE  Settled /\ Faithful(k)
<1>1. \A j \in Writers : j # k => ~Runs(j) /\ j \in Kinds
  BY DEF IInv, OneWriter, Writers, Kinds
<1>2. \A j \in Writers : ~Goes(j)
  BY <1>1, WriterShapes DEF IInv
<1> QED
  BY <1>2 DEF IInv, Committed, Writers

LEMMA CaptureKeeps ==
  ASSUME IInv, NEW k \in Kinds, Capture(k)
  PROVE  WorkStep(k)
<1>1. /\ workers[k].at = "capture" /\ Runs(k) /\ k # "keep" /\ Calm
      /\ k \in {"apply", "previous", "disable"} /\ ~Shallow(k)
      /\ blame' = blame /\ lock' = lock /\ life' = life
  BY Places DEF Capture, Calm, Runs, Shallow
<1>2. WorkerTyped(k) /\ DiskTyped /\ DOMAIN workers = Kinds /\ DOMAIN workers[k] = WorkerFields
  BY Worker
<1>3. ~workers[k].undo /\ ~Goes(k)
  BY <1>1, <1>2 DEF WorkerTyped, Goes, Deploying
<1>4. PICK conf \in IF disk.conf # 0 THEN {disk.conf} ELSE {0, workers[k].conf} :
        LET back == [route |-> disk.route, conf |-> conf] IN
        /\ k = "apply" /\ workers[k].back # NoPoint => conf = disk.conf
        /\ disk' = IF k = "apply" /\ workers[k].back # NoPoint THEN disk
                   ELSE [disk EXCEPT !.point = back]
        /\ workers' = [workers EXCEPT
             ![k].back = IF @ # NoPoint \/ k = "disable" THEN @ ELSE back,
             ![k].at = IF k = "apply" THEN "write" ELSE "restore"]
  BY DEF Capture
<1>5. PICK back : back = [route |-> disk.route, conf |-> conf]
  OBVIOUS
<1>6. Backed(back) /\ back # NoPoint /\ back.conf = conf /\ (conf = 0 => disk.conf = 0)
  <2>1. conf \in 0 .. MaxOps /\ disk.route \in Routes /\ (disk.route = "router" => conf # 0)
    BY <1>2, <1>4 DEF WorkerTyped, DiskTyped
  <2>2. back.route = disk.route /\ back.conf = conf /\ back \in [route : Routes, conf : 0 .. MaxOps]
    BY <1>5, <2>1
  <2>3. back # NoPoint
    BY <2>1, <2>2, IdleShape DEF Routes
  <2> QED
    BY <1>2, <1>4, <2>1, <2>2, <2>3 DEF DiskTyped, Backed, Point
<1>7. PICK mine : mine = IF workers[k].back # NoPoint \/ k = "disable" THEN workers[k].back ELSE back
  OBVIOUS
<1>8. PICK at : at = IF k = "apply" THEN "write" ELSE "restore"
  OBVIOUS
<1>9. PICK y : y = [workers[k] EXCEPT !.back = mine, !.at = at]
  OBVIOUS
<1>10. workers' = [workers EXCEPT ![k] = y]
  BY <1>2, <1>4, <1>5, <1>7, <1>8, <1>9 DEF WorkerFields
<1>11. Moves(k) /\ workers'[k] = y
  BY <1>2, <1>10, PutShape
<1>12. /\ DOMAIN y = WorkerFields /\ y.at = at /\ y.conf = workers[k].conf /\ y.back = mine
       /\ y.to = workers[k].to /\ y.undo = workers[k].undo /\ y.ok = workers[k].ok
  BY <1>2, <1>9 DEF WorkerFields
<1>13. /\ disk'.route = disk.route /\ disk'.up = disk.up /\ disk'.conf = disk.conf
       /\ disk'.deployed = disk.deployed /\ DiskTyped' /\ Kept
  BY <1>2, <1>4, <1>5, <1>6 DEF DiskTyped, DiskFields, Backed, Kept
<1>14. /\ Backed(mine) /\ (k \in Writers => mine # NoPoint) /\ (k \notin Writers => mine = NoPoint)
  BY <1>1, <1>2, <1>6, <1>7 DEF WorkerTyped, Writers
<1>15. WorkerTyped(k)'
  <2>1. at \in PlacesOf(k) /\ at \notin {"idle", "lock", "capture", "report"} /\ at \notin Deploying
    BY <1>1, <1>8 DEF PlacesOf, Deploying
  <2>2. /\ k = "apply" => at # "restore" /\ workers[k].conf # 0
        /\ k = "previous" => at = "restore" /\ workers[k].to # NoPoint
    BY <1>1, <1>2, <1>8 DEF WorkerTyped
  <2> QED
    BY <1>1, <1>2, <1>3, <1>11, <1>12, <1>13, <1>14, <2>1, <2>2 DEF WorkerTyped, Backed, Writers
<1>16. workers'[k].at \notin {"start", "bind", "report", "idle", "unbind", "stop"}
       /\ workers'[k].undo = workers[k].undo
  BY <1>8, <1>11, <1>12
<1>17. ASSUME ~Excused, ~blame.lost, k \in Writers PROVE Faithful(k)' /\ Settled'
  <2>1. Settled /\ Faithful(k)
    BY <1>1, <1>3, <1>17, SettledBefore
  <2>2. mine.conf = 0 => disk.deployed = 0
    BY <1>1, <1>3, <1>6, <1>7, <1>17, <2>1 DEF Faithful, Settled, Writers
  <2>3. Settled' <=> Settled
    BY <1>13 DEF Settled
  <2> QED
    BY <1>3, <1>8, <1>11, <1>12, <1>13, <2>1, <2>2, <2>3 DEF Faithful, Deploying
<1>18. Runs(k)' /\ (Dead' => Dead)
  BY <1>13, <1>16 DEF Runs, Dead
<1> QED
  BY <1>1, <1>11, <1>13, <1>15, <1>16, <1>17, <1>18, GoesOn

LEMMA RestorePointKeeps ==
  ASSUME IInv, NEW k \in Kinds, RestorePoint(k)
  PROVE  WorkStep(k)
<1>1. /\ workers[k].at = "restore" /\ Runs(k) /\ k # "keep" /\ Calm /\ k \in Writers
      /\ k \in Owing /\ ~Shallow(k) /\ k \notin {"disable", "exit"}
  BY DEF RestorePoint, Calm, Runs, Shallow, Writers, Owing
<1>2. WorkerTyped(k) /\ DiskTyped /\ DOMAIN workers = Kinds /\ DOMAIN workers[k] = WorkerFields
  BY Worker
<1>3. /\ Backed(workers[k].to) /\ workers[k].to.route \in Routes /\ workers[k].to.conf \in 0 .. MaxOps
      /\ workers[k].undo \in BOOLEAN /\ workers[k].back # NoPoint
  <2>1. /\ Backed(workers[k].to) /\ workers[k].to # NoPoint /\ workers[k].undo \in BOOLEAN
        /\ workers[k].back # NoPoint
    BY <1>1, <1>2 DEF WorkerTyped
  <2>2. workers[k].to \in [route : Routes, conf : 0 .. MaxOps]
    BY <2>1 DEF Backed, Point
  <2> QED
    BY <2>1, <2>2
<1>4. ASSUME ~Excused, ~blame.lost, ~workers[k].undo
      PROVE  Settled /\ (workers[k].back.conf = 0 => disk.deployed = 0)
  <2>1. ~Goes(k)
    BY <1>1, <1>4 DEF Goes, Deploying
  <2>2. Settled /\ Faithful(k)
    BY <1>1, <1>4, <2>1, SettledBefore
  <2> QED
    BY <1>1, <1>3, <1>4, <2>2 DEF Faithful
<1>5. ASSUME ~Excused, ~blame.lost, workers[k].undo, workers[k].to.conf = 0
      PROVE  Settled
  BY <1>1, <1>5 DEF IInv, Committed, Faithful
<1>6. CASE /\ disk' = [disk EXCEPT !.route = workers[k].to.route] /\ blame' = blame
           /\ IF workers[k].to.conf = 0 THEN Finish(k, ~workers[k].undo)
              ELSE /\ workers' = [workers EXCEPT ![k].conf = workers[k].to.conf, ![k].at = "write"]
                   /\ UNCHANGED <<lock, life>>
  <2>1. /\ disk'.route = workers[k].to.route /\ disk'.up = disk.up /\ disk'.conf = disk.conf
        /\ disk'.deployed = disk.deployed /\ disk'.point = disk.point /\ DOMAIN disk' = DiskFields
    BY <1>2, <1>6 DEF DiskTyped, DiskFields
  <2>2. DiskTyped' /\ Kept /\ (Settled' <=> Settled)
    BY <1>2, <1>3, <2>1 DEF DiskTyped, Backed, Kept, Settled
  <2>3. BlameGoes
    <3>1. DOMAIN blame = BlameFields /\ {blame.died, blame.intruded, blame.cut, blame.lost} \subseteq BOOLEAN
      BY Worker
    <3> QED
      BY <1>6, <3>1 DEF BlameGoes
  <2>4. Excused' <=> Excused
    BY <1>6 DEF Excused
  <2>5. CASE workers[k].to.conf = 0
    <3>1. Finish(k, ~workers[k].undo) /\ (~workers[k].undo) \in BOOLEAN
      BY <1>6, <2>5
    <3>2. ~Dead'
      BY <1>3, <2>1, <2>5 DEF Backed, Dead
    <3>3. ~Excused' /\ ~blame'.lost => Settled'
      BY <1>4, <1>5, <1>6, <2>2, <2>4, <2>5
    <3> QED
      BY <1>1, <2>1, <2>2, <2>3, <3>1, <3>2, <3>3, EndsStep
  <2>6. CASE workers[k].to.conf # 0
    <3>1. PICK y : y = [workers[k] EXCEPT !.conf = workers[k].to.conf, !.at = "write"]
      OBVIOUS
    <3>2. workers' = [workers EXCEPT ![k] = y]
      BY <1>2, <1>6, <2>6, <3>1 DEF WorkerFields
    <3>3. Moves(k) /\ workers'[k] = y
      BY <1>2, <3>2, PutShape
    <3>4. /\ DOMAIN y = WorkerFields /\ y.at = "write" /\ y.conf = workers[k].to.conf
          /\ y.back = workers[k].back /\ y.to = workers[k].to /\ y.undo = workers[k].undo
          /\ y.ok = workers[k].ok
      BY <1>2, <3>1 DEF WorkerFields
    <3>5. WorkerTyped(k)'
      <4>1. "write" \in PlacesOf(k)
        BY <1>1 DEF PlacesOf, Writers
      <4> QED
        BY <1>1, <1>2, <1>3, <2>1, <2>6, <3>3, <3>4, <4>1 DEF WorkerTyped, Backed, Deploying
    <3>6. ASSUME ~Excused, ~blame.lost PROVE Faithful(k)' /\ (Settled' \/ Goes(k)')
      BY <1>3, <1>4, <2>1, <2>2, <3>3, <3>4, <3>6 DEF Faithful, Goes, Deploying
    <3>7. /\ workers'[k].at \notin {"start", "bind", "report", "idle", "unbind", "stop"}
          /\ workers'[k].undo = workers[k].undo /\ lock' = lock /\ life' = life
      BY <1>6, <2>6, <3>3, <3>4
    <3>8. Runs(k)'
      BY <3>7 DEF Runs
    <3> QED
      BY <1>1, <1>6, <2>1, <2>2, <3>3, <3>5, <3>6, <3>7, <3>8, GoesOn
  <2> QED
    BY <2>5, <2>6
<1>7. CASE Fail(k) /\ disk' = disk
  <2>1. DiskTyped' /\ Kept /\ (Settled' <=> Settled) /\ disk'.up = disk.up /\ disk'.route = disk.route
    BY <1>2, <1>7 DEF DiskTyped, Backed, Kept, Settled
  <2> QED
    BY <1>1, <1>4, <1>7, <2>1, FailStep
<1> QED
  BY <1>6, <1>7 DEF RestorePoint

LEMMA WriteFilesKeeps ==
  ASSUME IInv, NEW k \in Kinds, WriteFiles(k)
  PROVE  WorkStep(k)
<1>1. /\ workers[k].at = "write" /\ Runs(k) /\ k # "keep" /\ Calm /\ k \in Writers
      /\ k \in Owing /\ ~Shallow(k) /\ k \notin {"disable", "exit"}
  BY Places DEF WriteFiles, Calm, Runs, Shallow, Writers, Owing
<1>2. WorkerTyped(k) /\ DiskTyped /\ DOMAIN workers = Kinds /\ DOMAIN workers[k] = WorkerFields
  BY Worker
<1>3. workers[k].conf \in 0 .. MaxOps /\ workers[k].conf # 0 /\ workers[k].back # NoPoint
  BY <1>1, <1>2 DEF WorkerTyped
<1>4. ASSUME ~Excused, ~blame.lost, ~workers[k].undo
      PROVE  Settled /\ (workers[k].back.conf = 0 => disk.deployed = 0)
  <2>1. ~Goes(k)
    BY <1>1, <1>4 DEF Goes, Deploying
  <2>2. Settled /\ Faithful(k)
    BY <1>1, <1>4, <2>1, SettledBefore
  <2> QED
    BY <1>1, <1>3, <1>4, <2>2 DEF Faithful
<1>5. CASE /\ disk' = [disk EXCEPT !.conf = workers[k].conf] /\ Go(k, "services")
           /\ UNCHANGED <<lock, life, faults, blame>>
  <2>1. /\ disk'.conf = workers[k].conf /\ disk'.up = disk.up /\ disk'.route = disk.route
        /\ disk'.deployed = disk.deployed /\ disk'.point = disk.point /\ DOMAIN disk' = DiskFields
    BY <1>2, <1>5 DEF DiskTyped, DiskFields
  <2>2. DiskTyped' /\ Kept
    BY <1>2, <1>3, <2>1 DEF DiskTyped, Backed, Kept
  <2>3. /\ Moves(k) /\ DOMAIN workers'[k] = WorkerFields /\ workers'[k].at = "services"
        /\ workers'[k].conf = workers[k].conf /\ workers'[k].back = workers[k].back
        /\ workers'[k].to = workers[k].to /\ workers'[k].undo = workers[k].undo
        /\ workers'[k].ok = workers[k].ok
    BY <1>5, GoShape
  <2>4. WorkerTyped(k)'
    <3>1. "services" \in PlacesOf(k)
      BY <1>1 DEF PlacesOf, Writers, Deploying
    <3> QED
      BY <1>1, <1>2, <1>3, <2>1, <2>3, <3>1 DEF WorkerTyped, Backed, Deploying
  <2>5. ASSUME ~Excused, ~blame.lost PROVE Faithful(k)' /\ Goes(k)'
    BY <1>3, <1>4, <2>1, <2>3, <2>5 DEF Faithful, Goes, Deploying
  <2>6. Runs(k)'
    BY <2>3 DEF Runs
  <2> QED
    BY <1>1, <1>5, <2>1, <2>2, <2>3, <2>4, <2>5, <2>6, GoesOn
<1>6. CASE Fail(k) /\ disk' = disk
  <2>1. DiskTyped' /\ Kept /\ (Settled' <=> Settled) /\ disk'.up = disk.up /\ disk'.route = disk.route
    BY <1>2, <1>6 DEF DiskTyped, Backed, Kept, Settled
  <2> QED
    BY <1>1, <1>4, <1>6, <2>1, FailStep
<1> QED
  BY <1>5, <1>6 DEF WriteFiles

LEMMA TakeLifecycleLockKeeps ==
  ASSUME IInv, NEW k \in Kinds, TakeLifecycleLock(k)
  PROVE  WorkStep(k)
<1>1. /\ workers[k].at = "services" /\ Runs(k) /\ k # "keep" /\ Calm /\ disk' = disk
      /\ k \in Writers \cup {"recover"} /\ ~Shallow(k) /\ k \notin {"disable", "exit"}
      /\ k \in Writers => k \in Owing
      /\ Goes(k)
  BY Places DEF TakeLifecycleLock, Calm, Runs, Shallow, Writers, Owing, Goes, Deploying
<1>2. /\ WorkerTyped(k) /\ Holds(k) /\ DiskTyped /\ {lock, life} \subseteq Kinds \cup {"free"}
      /\ "free" \notin Kinds /\ DOMAIN blame = BlameFields
      /\ {blame.died, blame.intruded, blame.cut, blame.lost} \subseteq BOOLEAN
  BY Worker
<1>3. DiskTyped' /\ Kept /\ Dead' = Dead /\ (Settled' <=> Settled)
  BY <1>1, <1>2 DEF DiskTyped, Backed, Kept, Dead, Settled
<1>4. ASSUME ~Excused, ~blame.lost, k \in Writers PROVE Faithful(k)
  BY <1>4 DEF IInv, Committed
<1>5. CASE life = "free" /\ life' = k /\ Go(k, "start") /\ UNCHANGED <<lock, blame>>
  <2>1. /\ Moves(k) /\ DOMAIN workers'[k] = WorkerFields /\ workers'[k].at = "start"
        /\ workers'[k].conf = workers[k].conf /\ workers'[k].back = workers[k].back
        /\ workers'[k].to = workers[k].to /\ workers'[k].undo = workers[k].undo
        /\ workers'[k].ok = workers[k].ok
    BY <1>5, GoShape
  <2>2. WorkerTyped(k)'
    <3>1. "start" \in PlacesOf(k)
      BY <1>1 DEF PlacesOf, Writers, Deploying
    <3> QED
      BY <1>1, <1>2, <2>1, <3>1 DEF WorkerTyped, Backed, Deploying
  <2>3. BlameGoes
    BY <1>2, <1>5 DEF BlameGoes
  <2>4. LockPart(k)
    <3>1. Holds(k)'
      BY <1>1, <1>2, <1>5, <2>1 DEF Holds
    <3>2. Unlocked'
      <4>1. k # "apply" => (RollsBackUnlocked' <=> RollsBackUnlocked)
        BY <2>1 DEF RollsBackUnlocked, Moves, Kinds
      <4>2. k = "apply" => (RollsBackUnlocked' => RollsBackUnlocked)
        BY <1>1, <2>1 DEF RollsBackUnlocked
      <4> QED
        BY <1>5, <4>1, <4>2 DEF Unlocked, IInv, Locked
    <3> QED
      BY <1>1, <1>2, <1>5, <3>1, <3>2 DEF LockPart
  <2>5. DebtPart(k)
    BY <1>1, <1>3, <1>5, <2>1 DEF DebtPart, Shallow, Writers, Owing
  <2>6. ASSUME ~Excused', ~blame'.lost PROVE CommitPart(k)
    <3>1. k \in Writers => Faithful(k)
      BY <1>4, <1>5, <2>6 DEF Excused
    <3>2. k \in Writers => Faithful(k)' /\ Goes(k)'
      BY <1>1, <2>1, <3>1 DEF Faithful, Goes, Deploying
    <3> QED
      BY <1>1, <3>2 DEF CommitPart
  <2>7. Runs(k)'
    BY <2>1 DEF Runs
  <2> QED
    BY <1>1, <1>3, <2>1, <2>2, <2>3, <2>4, <2>5, <2>6, <2>7 DEF WorkStep
<1>6. CASE Fail(k)
  <2>1. ~Excused /\ ~blame.lost /\ k \in Writers /\ ~workers[k].undo
          /\ workers[k].back.conf = 0 => Settled'
    <3>1. k \in Writers => workers[k].back # NoPoint
      BY <1>1, <1>2 DEF WorkerTyped, Deploying
    <3> QED
      BY <1>1, <1>3, <1>4, <3>1 DEF Faithful, Settled
  <2>2. disk'.up = disk.up /\ disk'.route = disk.route /\ disk'.conf = disk.conf
        /\ disk'.deployed = disk.deployed
    BY <1>1
  <2> QED
    BY <1>1, <1>3, <1>6, <2>1, <2>2, FailStep
<1> QED
  BY <1>5, <1>6 DEF TakeLifecycleLock

LEMMA EnsureServicesKeeps ==
  ASSUME IInv, NEW k \in Kinds, EnsureServices(k)
  PROVE  WorkStep(k)
<1>1. /\ workers[k].at = "start" /\ Runs(k) /\ k # "keep" /\ Calm
      /\ k \in Writers \cup {"recover"} /\ ~Shallow(k) /\ k \notin {"disable", "exit"}
      /\ k \in Writers => k \in Owing
      /\ "recover" \notin Writers /\ "recover" \notin Owing
  BY Places DEF EnsureServices, Calm, Runs, Shallow, Writers, Owing
<1>2. /\ WorkerTyped(k) /\ Holds(k) /\ DiskTyped /\ {lock, life} \subseteq Kinds \cup {"free"}
      /\ "free" \notin Kinds /\ DOMAIN blame = BlameFields
      /\ {blame.died, blame.intruded, blame.cut, blame.lost} \subseteq BOOLEAN
  BY Worker
<1>3. life = k
  BY <1>1, <1>2 DEF Holds
<1>4. ASSUME ~Excused, ~blame.lost, k \in Writers PROVE Faithful(k)
  BY <1>4 DEF IInv, Committed
<1>5. ASSUME NEW up \in BOOLEAN, disk' = [disk EXCEPT !.up = up]
      PROVE  /\ disk'.route = disk.route /\ disk'.conf = disk.conf /\ disk'.up = up
             /\ disk'.deployed = disk.deployed /\ DiskTyped' /\ Kept /\ (Settled' <=> Settled)
  <2>1. /\ disk'.route = disk.route /\ disk'.conf = disk.conf /\ disk'.up = up
        /\ disk'.deployed = disk.deployed /\ disk'.point = disk.point /\ DOMAIN disk' = DiskFields
    BY <1>2, <1>5 DEF DiskTyped, DiskFields
  <2> QED
    BY <1>2, <2>1 DEF DiskTyped, Backed, Kept, Settled
<1>6. CASE /\ disk' = [disk EXCEPT !.up = TRUE] /\ blame' = [blame EXCEPT !.died = FALSE]
           /\ IF k = "recover" THEN Finish(k, TRUE) ELSE Go(k, "bind") /\ UNCHANGED <<lock, life>>
  <2>1. /\ disk'.route = disk.route /\ disk'.conf = disk.conf /\ disk'.up = TRUE
        /\ disk'.deployed = disk.deployed /\ DiskTyped' /\ Kept /\ (Settled' <=> Settled)
    BY <1>5, <1>6
  <2>2. /\ DOMAIN blame' = BlameFields /\ blame'.died = FALSE /\ blame'.intruded = blame.intruded
        /\ blame'.cut = blame.cut /\ blame'.lost = blame.lost
    BY <1>2, <1>6 DEF BlameFields
  <2>3. BlameGoes
    BY <1>2, <2>1, <2>2 DEF BlameGoes
  <2>4. ~Dead'
    BY <2>1 DEF Dead
  <2>5. CASE k = "recover"
    <3>1. Finish(k, TRUE) /\ k \notin Writers /\ k \notin Owing
      BY <1>1, <1>6, <2>5
    <3> QED
      BY <1>1, <1>3, <2>1, <2>3, <2>4, <3>1, EndsStep
  <2>6. CASE k # "recover"
    <3>1. /\ Moves(k) /\ DOMAIN workers'[k] = WorkerFields /\ workers'[k].at = "bind"
          /\ workers'[k].conf = workers[k].conf /\ workers'[k].back = workers[k].back
          /\ workers'[k].to = workers[k].to /\ workers'[k].undo = workers[k].undo
          /\ workers'[k].ok = workers[k].ok
      BY <1>6, <2>6, GoShape
    <3>2. WorkerTyped(k)'
      <4>1. "bind" \in PlacesOf(k)
        BY <1>1, <2>6 DEF PlacesOf, Writers, Deploying
      <4> QED
        BY <1>1, <1>2, <2>1, <2>6, <3>1, <4>1 DEF WorkerTyped, Backed, Deploying
    <3>3. LockPart(k)
      <4>1. Holds(k)'
        BY <1>1, <1>2, <1>3, <1>6, <2>1, <2>6, <3>1 DEF Holds, Writers
      <4>2. Unlocked'
        <5>1. k # "apply" => (RollsBackUnlocked' <=> RollsBackUnlocked)
          BY <3>1 DEF RollsBackUnlocked, Moves, Kinds
        <5>2. k = "apply" => (RollsBackUnlocked' => RollsBackUnlocked)
          BY <1>1, <3>1 DEF RollsBackUnlocked
        <5> QED
          BY <1>6, <2>2, <2>6, <5>1, <5>2 DEF Unlocked, IInv, Locked
      <4> QED
        BY <1>1, <1>2, <1>3, <1>6, <2>6, <4>1, <4>2 DEF LockPart
    <3>4. DebtPart(k)
      BY <1>1, <2>1, <2>4, <3>1 DEF DebtPart, Shallow
    <3>5. ASSUME ~Excused', ~blame'.lost PROVE CommitPart(k)
      <4>1. Faithful(k)
        BY <1>1, <1>4, <2>2, <2>6, <3>5 DEF Excused
      <4>2. Faithful(k)' /\ Goes(k)'
        BY <1>1, <2>1, <3>1, <4>1 DEF Faithful, Goes, Deploying
      <4> QED
        BY <2>1, <4>2 DEF CommitPart
    <3>6. Runs(k)'
      BY <3>1 DEF Runs
    <3> QED
      BY <1>1, <2>1, <2>3, <3>1, <3>2, <3>3, <3>4, <3>5, <3>6 DEF WorkStep
  <2> QED
    BY <2>5, <2>6
<1>7. ASSUME Fail(k), disk'.up = disk.up \/ k # "recover", DiskTyped', Kept, Settled' <=> Settled,
             disk'.route = disk.route, disk'.conf = disk.conf, disk'.deployed = disk.deployed
      PROVE  WorkStep(k)
  <2>1. ~Excused /\ ~blame.lost /\ k \in Writers /\ ~workers[k].undo
          /\ workers[k].back.conf = 0 => Settled'
    <3>1. k \in Writers => workers[k].back # NoPoint
      BY <1>1, <1>2 DEF WorkerTyped, Deploying
    <3> QED
      BY <1>1, <1>4, <1>7, <3>1 DEF Faithful, Settled
  <2>2. k \in Owing \/ (k = "recover" /\ (Dead' => Dead))
    BY <1>1, <1>7 DEF Dead
  <2> QED
    BY <1>1, <1>3, <1>7, <2>1, <2>2, FailStep
<1>8. CASE Fail(k) /\ disk' = disk
  <2>1. DiskTyped' /\ Kept /\ (Settled' <=> Settled)
    BY <1>2, <1>8 DEF DiskTyped, Backed, Kept, Settled
  <2> QED
    BY <1>7, <1>8, <2>1
<1>9. CASE /\ Fail(k)
           /\ \E up \in IF k = "recover" THEN {disk.up} ELSE {disk.up, FALSE} :
                disk' = [disk EXCEPT !.up = up]
  <2>1. PICK up \in IF k = "recover" THEN {disk.up} ELSE {disk.up, FALSE} :
          disk' = [disk EXCEPT !.up = up]
    BY <1>9
  <2>2. up \in BOOLEAN /\ (up = disk.up \/ k # "recover")
    BY <1>2 DEF DiskTyped
  <2> QED
    BY <1>5, <1>7, <1>9, <2>1, <2>2
<1> QED
  BY <1>6, <1>8, <1>9 DEF EnsureServices

LEMMA SyncAndBindKeeps ==
  ASSUME IInv, NEW k \in Kinds, SyncAndBind(k)
  PROVE  WorkStep(k)
<1>1. /\ workers[k].at = "bind" /\ Runs(k) /\ k # "keep" /\ Calm /\ k \in Writers
      /\ k \in Owing /\ ~Shallow(k) /\ k \notin {"disable", "exit"}
  BY Places DEF SyncAndBind, Calm, Runs, Shallow, Writers, Owing
<1>2. /\ WorkerTyped(k) /\ Holds(k) /\ DiskTyped
      /\ DOMAIN blame = BlameFields
      /\ {blame.died, blame.intruded, blame.cut, blame.lost} \subseteq BOOLEAN
  BY Worker
<1>3. /\ life = k /\ (disk.up \/ blame.died) /\ disk.conf # 0 /\ workers[k].back # NoPoint
      /\ workers[k].conf \in 0 .. MaxOps /\ workers[k].undo \in BOOLEAN
  BY <1>1, <1>2 DEF Holds, WorkerTyped, Deploying
<1>4. ASSUME ~Excused, ~blame.lost PROVE Faithful(k) /\ disk.conf = workers[k].conf
  BY <1>1, <1>4 DEF IInv, Committed, Faithful, Deploying
<1>5. PICK bound : bound = [disk EXCEPT !.route = "router", !.system = TRUE,
                                        !.deployed = workers[k].conf]
  OBVIOUS
<1>6. PICK half : half = [disk EXCEPT !.route = "router"]
  OBVIOUS
<1>7. ASSUME disk' \in {disk, half, bound}
      PROVE  /\ disk'.up = disk.up /\ disk'.conf = disk.conf /\ DiskTyped' /\ Kept
             /\ disk'.deployed \in {disk.deployed, workers[k].conf}
             /\ disk' = bound => disk'.deployed = workers[k].conf
  <2>1. /\ DOMAIN disk' = DiskFields /\ disk'.route \in {disk.route, "router"}
        /\ disk'.up = disk.up /\ disk'.conf = disk.conf /\ disk'.point = disk.point
        /\ disk'.deployed \in {disk.deployed, workers[k].conf}
        /\ disk' = bound => disk'.deployed = workers[k].conf
    BY <1>2, <1>5, <1>6, <1>7 DEF DiskTyped, DiskFields
  <2> QED
    BY <1>2, <1>3, <2>1 DEF DiskTyped, Backed, Kept, Routes
<1>8. CASE /\ disk' = bound /\ Finish(k, ~workers[k].undo) /\ UNCHANGED <<faults, blame>>
  <2>1. /\ disk'.up = disk.up /\ disk'.conf = disk.conf /\ DiskTyped' /\ Kept
        /\ disk'.deployed = workers[k].conf
    BY <1>7, <1>8
  <2>2. BlameGoes
    BY <1>2, <1>8 DEF BlameGoes
  <2>3. Dead' => blame'.died
    BY <1>3, <1>8, <2>1 DEF Dead
  <2>4. ~Excused' /\ ~blame'.lost => Settled'
    BY <1>4, <1>8, <2>1 DEF Excused, Settled
  <2>5. Finish(k, ~workers[k].undo) /\ (~workers[k].undo) \in BOOLEAN
    BY <1>8
  <2> QED
    BY <1>1, <2>1, <2>2, <2>3, <2>4, <2>5, EndsStep
<1>9. CASE Fail(k) /\ disk' \in {disk, half, bound}
  <2>1. /\ disk'.up = disk.up /\ disk'.conf = disk.conf /\ DiskTyped' /\ Kept
        /\ disk'.deployed \in {disk.deployed, workers[k].conf}
    BY <1>7, <1>9
  <2>2. ~Excused /\ ~blame.lost /\ k \in Writers /\ ~workers[k].undo
          /\ workers[k].back.conf = 0 => Settled'
    BY <1>1, <1>3, <1>4, <2>1 DEF Faithful, Settled
  <2> QED
    BY <1>1, <1>9, <2>1, <2>2, FailStep
<1>10. \/ disk' = bound /\ Finish(k, ~workers[k].undo) /\ UNCHANGED <<faults, blame>>
       \/ Fail(k) /\ disk' \in {disk, half, bound}
  BY <1>5, <1>6 DEF SyncAndBind
<1> QED
  BY <1>8, <1>9, <1>10

\* What Codex's own layers become when something is given back.
LEMMA GivenBack ==
  ASSUME IInv, NEW route \in {disk.route, "official"}, NEW system, NEW up \in BOOLEAN,
         DOMAIN disk' = DiskFields, disk'.route = route, disk'.system = system, disk'.up = up,
         disk'.conf = disk.conf, disk'.deployed = disk.deployed, disk'.point = disk.point
  PROVE  DiskTyped' /\ Kept
BY DEF IInv, Typed, DiskTyped, Backed, Kept, Routes

LEMMA RestoreCodexKeeps ==
  ASSUME IInv, NEW k \in Kinds, RestoreCodex(k)
  PROVE  WorkStep(k)
<1>1. /\ workers[k].at = "restore" /\ Runs(k) /\ k # "keep" /\ Calm /\ k \in {"disable", "factory"}
      /\ k \notin Writers /\ ~Shallow(k) /\ blame' = blame /\ (k = "disable" => k \in Owing)
      /\ (k = "factory" => k \notin Owing)
  BY DEF RestoreCodex, Calm, Runs, Shallow, Writers, Owing
<1>2. /\ WorkerTyped(k) /\ DiskTyped /\ DOMAIN disk = DiskFields /\ disk.up \in BOOLEAN
      /\ DOMAIN blame = BlameFields
      /\ {blame.died, blame.intruded, blame.cut, blame.lost} \subseteq BOOLEAN
  BY Worker DEF DiskTyped
<1>3. CASE disk' = [disk EXCEPT !.route = "official"] /\ Go(k, "unbind") /\ UNCHANGED <<lock, life, faults>>
  <2>1. /\ DOMAIN disk' = DiskFields /\ disk'.route = "official" /\ disk'.up = disk.up
        /\ disk'.system = disk.system /\ disk'.conf = disk.conf /\ disk'.deployed = disk.deployed
        /\ disk'.point = disk.point
    BY <1>2, <1>3 DEF DiskFields
  <2>2. DiskTyped' /\ Kept
    BY <1>2, <2>1, GivenBack
  <2>3. /\ Moves(k) /\ DOMAIN workers'[k] = WorkerFields /\ workers'[k].at = "unbind"
        /\ workers'[k].conf = workers[k].conf /\ workers'[k].back = workers[k].back
        /\ workers'[k].to = workers[k].to /\ workers'[k].undo = workers[k].undo
        /\ workers'[k].ok = workers[k].ok
    BY <1>3, GoShape
  <2>4. WorkerTyped(k)'
    <3>1. "unbind" \in PlacesOf(k)
      BY <1>1 DEF PlacesOf
    <3> QED
      BY <1>1, <1>2, <2>1, <2>3, <3>1 DEF WorkerTyped, Backed, Deploying, Writers
  <2>5. ~Dead'
    BY <2>1 DEF Dead
  <2>6. Runs(k)'
    BY <2>3 DEF Runs
  <2> QED
    BY <1>1, <1>3, <2>1, <2>2, <2>3, <2>4, <2>5, <2>6, GoesOn
<1>4. CASE Finish(k, FALSE) /\ disk' = disk
  <2>1. DiskTyped' /\ Kept /\ disk'.up = disk.up /\ disk'.route = disk.route
        /\ disk'.conf = disk.conf /\ disk'.deployed = disk.deployed /\ Dead' = Dead
    BY <1>2, <1>4 DEF DiskTyped, Backed, Kept, Dead
  <2>2. BlameGoes /\ (blame.died => blame'.died)
    BY <1>1, <1>2 DEF BlameGoes
  <2>3. Dead' => k \in Owing \/ (k \notin Owing /\ Dead /\ (blame.died => blame'.died))
    BY <2>1, <2>2
  <2> QED
    BY <1>1, <1>4, <2>1, <2>2, <2>3, EndsStep
<1> QED
  BY <1>3, <1>4 DEF RestoreCodex

LEMMA RemoveSystemBindingKeeps ==
  ASSUME IInv, NEW k \in Kinds, RemoveSystemBinding(k)
  PROVE  WorkStep(k)
<1>1. /\ workers[k].at = "unbind" /\ Runs(k) /\ k # "keep" /\ Calm /\ k \in {"disable", "factory"}
      /\ k \notin Writers /\ ~Shallow(k) /\ blame' = blame /\ (k = "disable" => k \in Owing)
      /\ (k = "factory" => k \notin Owing)
  BY Places DEF RemoveSystemBinding, Calm, Runs, Shallow, Writers, Owing
<1>2. /\ WorkerTyped(k) /\ DiskTyped /\ DOMAIN disk = DiskFields /\ disk.up \in BOOLEAN
      /\ DOMAIN blame = BlameFields
      /\ {blame.died, blame.intruded, blame.cut, blame.lost} \subseteq BOOLEAN
  BY Worker DEF DiskTyped
<1>3. BlameGoes /\ (blame.died => blame'.died)
  BY <1>1, <1>2 DEF BlameGoes
<1>4. \/ disk' = [disk EXCEPT !.system = FALSE]
      \/ disk' = disk
  BY DEF RemoveSystemBinding
<1>5. /\ DOMAIN disk' = DiskFields /\ disk'.route = disk.route /\ disk'.up = disk.up
      /\ disk'.conf = disk.conf /\ disk'.deployed = disk.deployed /\ disk'.point = disk.point
  BY <1>2, <1>4 DEF DiskFields
<1>6. DiskTyped' /\ Kept /\ Dead' = Dead
  BY <1>2, <1>5, GivenBack DEF Dead
<1>7. ASSUME NEW ok \in BOOLEAN, Finish(k, ok), k = "disable" => ~ok
      PROVE  WorkStep(k)
  <2>1. Dead' => (k \in Owing /\ ~ok) \/ (k \notin Owing /\ Dead /\ (blame.died => blame'.died))
    BY <1>1, <1>3, <1>6, <1>7
  <2> QED
    BY <1>1, <1>3, <1>5, <1>6, <1>7, <2>1, EndsStep
<1>8. CASE k = "disable" /\ Go(k, "stop") /\ UNCHANGED <<lock, life>>
  <2>1. /\ Moves(k) /\ DOMAIN workers'[k] = WorkerFields /\ workers'[k].at = "stop"
        /\ workers'[k].conf = workers[k].conf /\ workers'[k].back = workers[k].back
        /\ workers'[k].to = workers[k].to /\ workers'[k].undo = workers[k].undo
        /\ workers'[k].ok = workers[k].ok
    BY <1>8, GoShape
  <2>2. WorkerTyped(k)'
    <3>1. "stop" \in PlacesOf(k)
      BY <1>8 DEF PlacesOf
    <3> QED
      BY <1>1, <1>2, <1>5, <2>1, <3>1 DEF WorkerTyped, Backed, Deploying, Writers
  <2>3. ~Excused => disk'.route = "official"
    BY <1>1, <1>5, <1>8 DEF IInv, Debt
  <2>4. Runs(k)'
    BY <2>1 DEF Runs
  <2> QED
    BY <1>1, <1>5, <1>6, <1>8, <2>1, <2>2, <2>3, <2>4, GoesOn
<1> QED
  BY <1>1, <1>7, <1>8 DEF RemoveSystemBinding

\* Where services are being stopped on the way out, no configuration is being deployed.
LEMMA NobodyWrites ==
  ASSUME IInv, ~Excused, workers["exit"].at \in {"stop", "leave"}
  PROVE  \A j \in Writers : Shallow(j)
BY WriterExcludes

LEMMA StopServicesKeeps ==
  ASSUME IInv, NEW k \in Kinds, StopServices(k)
  PROVE  WorkStep(k)
<1>1. /\ workers[k].at = "stop" /\ Runs(k) /\ k # "keep" /\ Calm /\ k \in {"disable", "exit"}
      /\ k \notin Writers /\ ~Shallow(k) /\ blame' = blame /\ k \in Owing
  BY Places DEF StopServices, Calm, Runs, Shallow, Writers, Owing
<1>2. /\ WorkerTyped(k) /\ DiskTyped /\ DOMAIN disk = DiskFields /\ disk.up \in BOOLEAN
      /\ DOMAIN blame = BlameFields
      /\ {blame.died, blame.intruded, blame.cut, blame.lost} \subseteq BOOLEAN
  BY Worker DEF DiskTyped
<1>3. BlameGoes /\ Excused' = Excused
  BY <1>1, <1>2 DEF BlameGoes, Excused
<1>4. CASE /\ life = "free" /\ disk' = [disk EXCEPT !.up = FALSE]
           /\ \/ k = "exit" /\ disk.conf # 0 /\ Go(k, "leave") /\ UNCHANGED <<lock, life>>
              \/ ~(k = "exit" /\ disk.conf # 0) /\ Finish(k, TRUE)
  <2>1. /\ DOMAIN disk' = DiskFields /\ disk'.route = disk.route /\ disk'.up = FALSE
        /\ disk'.system = disk.system /\ disk'.conf = disk.conf /\ disk'.deployed = disk.deployed
        /\ disk'.point = disk.point
    BY <1>2, <1>4 DEF DiskFields
  <2>2. DiskTyped' /\ Kept
    BY <2>1, GivenBack
  <2>3. CASE k = "exit" /\ disk.conf # 0 /\ Go(k, "leave") /\ UNCHANGED <<lock, life>>
    <3>1. /\ Moves(k) /\ DOMAIN workers'[k] = WorkerFields /\ workers'[k].at = "leave"
          /\ workers'[k].conf = workers[k].conf /\ workers'[k].back = workers[k].back
          /\ workers'[k].to = workers[k].to /\ workers'[k].undo = workers[k].undo
          /\ workers'[k].ok = workers[k].ok
      BY <2>3, GoShape
    <3>2. WorkerTyped(k)'
      <4>1. "leave" \in PlacesOf(k)
        BY <2>3 DEF PlacesOf
      <4> QED
        BY <1>1, <1>2, <2>1, <3>1, <4>1 DEF WorkerTyped, Backed, Deploying, Writers
    <3>3. Runs(k)'
      BY <3>1 DEF Runs
    <3> QED
      BY <1>1, <1>4, <2>1, <2>2, <2>3, <3>1, <3>2, <3>3, GoesOn
  <2>4. CASE ~(k = "exit" /\ disk.conf # 0) /\ Finish(k, TRUE)
    <3>1. ~Excused => disk.route = "official"
      <4>1. CASE k = "disable"
        BY <1>1, <4>1 DEF IInv, Debt
      <4>2. CASE disk.conf = 0
        BY <1>2, <4>2 DEF DiskTyped, Routes
      <4> QED
        BY <1>1, <2>4, <4>1, <4>2
    <3>2. ~Excused /\ k = "exit" => \A j \in Writers : Shallow(j)
      BY <1>1, NobodyWrites
    <3>3. ~Excused => ~Dead'
      BY <2>1, <3>1 DEF Dead
    <3> QED
      BY <1>1, <1>3, <1>4, <2>1, <2>2, <2>4, <3>1, <3>2, <3>3, EndsStep
  <2> QED
    BY <1>4, <2>3, <2>4
<1>5. CASE Finish(k, FALSE) /\ disk' = disk
  <2>1. DiskTyped' /\ Kept /\ disk'.up = disk.up /\ disk'.route = disk.route
        /\ disk'.conf = disk.conf /\ disk'.deployed = disk.deployed
    BY <1>2, <1>5 DEF DiskTyped, Backed, Kept
  <2> QED
    BY <1>1, <1>3, <1>5, <2>1, EndsStep
<1> QED
  BY <1>4, <1>5 DEF StopServices

LEMMA LeaveCodexKeeps ==
  ASSUME IInv, LeaveCodex
  PROVE  WorkStep("exit")
<1>1. /\ workers["exit"].at = "leave" /\ Runs("exit") /\ Calm /\ "exit" \in Kinds
      /\ "exit" \notin Writers /\ "exit" \in Owing /\ blame' = blame
  BY DEF LeaveCodex, Calm, Runs, Writers, Owing, Kinds
<1>2. /\ DiskTyped /\ DOMAIN disk = DiskFields /\ disk.up \in BOOLEAN
      /\ DOMAIN blame = BlameFields
      /\ {blame.died, blame.intruded, blame.cut, blame.lost} \subseteq BOOLEAN
  BY <1>1, Worker DEF DiskTyped
<1>3. BlameGoes /\ Excused' = Excused
  BY <1>1, <1>2 DEF BlameGoes, Excused
<1>4. CASE /\ \E system \in {disk.system, TRUE} :
                disk' = [disk EXCEPT !.route = "official", !.system = system]
           /\ Finish("exit", TRUE)
  <2>1. /\ DOMAIN disk' = DiskFields /\ disk'.route = "official" /\ disk'.up = disk.up
        /\ disk'.conf = disk.conf /\ disk'.deployed = disk.deployed
        /\ disk'.point = disk.point
    BY <1>2, <1>4 DEF DiskFields
  <2>2. DiskTyped' /\ Kept
    BY <1>2, <2>1, GivenBack
  <2>3. ~Dead'
    BY <2>1 DEF Dead
  <2>4. ~Excused => \A j \in Writers : Shallow(j)
    BY <1>1, NobodyWrites
  <2> QED
    BY <1>1, <1>3, <1>4, <2>1, <2>2, <2>3, <2>4, EndsStep
<1>5. CASE Finish("exit", FALSE) /\ disk' \in {disk, [disk EXCEPT !.route = "official"]}
  <2>1. /\ DOMAIN disk' = DiskFields /\ disk'.route \in {disk.route, "official"}
        /\ disk'.up = disk.up /\ disk'.conf = disk.conf /\ disk'.deployed = disk.deployed
        /\ disk'.point = disk.point
    BY <1>2, <1>5 DEF DiskFields
  <2>2. DiskTyped' /\ Kept
    BY <1>2, <2>1, GivenBack
  <2> QED
    BY <1>1, <1>3, <1>5, <2>1, <2>2, EndsStep
<1> QED
  BY <1>4, <1>5 DEF LeaveCodex

-----------------------------------------------------------------------------
(* The steps of the GUI thread and of the world, which start a thread of kind k or none. *)

Sleeps(k) ==
  /\ \/ workers[k].at \in {"idle", "lock"}
     \/ k = "recover" /\ workers[k].at = "services"
     \/ k = "keep" /\ workers[k].at = "mirror"
  /\ ~workers[k].undo
StartTypes(k) ==
  /\ Moves(k) /\ WorkerTyped(k)' /\ WindowTyped(gui)' /\ DiskTyped' /\ Kept
  /\ ops' \in 0 .. MaxOps /\ lock' \in Kinds \cup {"free"} /\ life' = life
  /\ DOMAIN cancel' = {"apply", "recover"} /\ cancel'.apply \in BOOLEAN
  /\ DOMAIN blame' = BlameFields
  /\ {blame'.died, blame'.intruded, blame'.cut, blame'.lost} \subseteq BOOLEAN
StartLocks(k) ==
  /\ Sleeps(k)' /\ (lock' = lock \/ (lock = "free" /\ k = "apply"))
  /\ blame.intruded => blame'.intruded
  /\ disk'.up \/ blame'.died \/ (disk'.up = disk.up /\ blame'.died = blame.died)
StartWindow(k) ==
  /\ (gui'.open <=> gui.open) /\ (Runs(k)' => gui.open)
  /\ k \in Writers => ~gui.applying /\ gui'.applying
  /\ gui.applying => gui'.applying
  /\ k = "exit" => ~gui.exiting /\ gui'.exiting /\ cancel'.apply /\ Runs(k)'
  /\ k # "exit" => (gui'.exiting <=> gui.exiting)
  /\ gui.exiting /\ cancel.apply => cancel'.apply
StartDebt(k) ==
  /\ Shallow(k)' \/ k \in {"recover", "keep"}
  /\ disk'.route \in {disk.route, "official"}
       \/ (~HasLeft /\ workers["disable"].at \notin {"unbind", "stop"} /\ k # "disable")
  /\ k \in Owing => Runs(k)'
  /\ k \notin Owing => (gui.told => gui'.told) /\ (Dead' => Dead \/ blame'.died)
  /\ blame.died => blame'.died
StartCommit(k) ==
  /\ disk'.conf = disk.conf /\ disk'.deployed = disk.deployed
  /\ k \in Writers /\ Settled => Faithful(k)'
StartStep(k) ==
  /\ events' = events /\ (Excused => Excused') /\ (blame.lost => blame'.lost)
  /\ StartTypes(k) /\ StartLocks(k) /\ StartWindow(k) /\ StartDebt(k) /\ StartCommit(k)

LEMMA StartKeeps ==
  ASSUME IInv, NEW k \in Kinds, StartStep(k)
  PROVE  IInv'
<1>1. Moves(k) /\ Kept /\ events' = events
  BY DEF StartStep, StartTypes
<1>2. \A j \in Kinds : j # k => workers'[j] = workers[j] /\ (Runs(j)' <=> Runs(j))
  BY <1>1 DEF Moves, Runs
<1>3. Typed'
  <2>1. ASSUME NEW j \in Kinds PROVE WorkerTyped(j)'
    <3>1. CASE j = k
      BY <3>1 DEF StartStep, StartTypes
    <3>2. CASE j # k
      BY <1>1, <1>2, <3>2 DEF IInv, Typed, WorkerTyped, Backed, Kept
    <3> QED
      BY <3>1, <3>2
  <2>2. EventsTyped'
    BY <1>1 DEF IInv, Typed, EventsTyped
  <2> QED
    BY <1>1, <2>1, <2>2 DEF StartStep, StartTypes, Moves, Typed, IInv
<1>4. Locked'
  <2>1. ASSUME NEW j \in Kinds PROVE Holds(j)'
    <3>1. CASE j = k
      BY <3>1 DEF StartStep, StartLocks, Sleeps, Holds
    <3>2. CASE j # k
      <4>1. Holds(j) /\ workers'[j] = workers[j] /\ life' = life /\ j # "free"
        BY <1>2, <3>2 DEF IInv, Locked, StartStep, StartTypes, Kinds
      <4>2. lock = j => lock' = j
        BY <4>1 DEF StartStep, StartLocks
      <4>3. disk.up \/ blame.died => disk'.up \/ blame'.died
        BY DEF StartStep, StartLocks
      <4> QED
        BY <4>1, <4>2, <4>3 DEF Holds
    <3> QED
      BY <3>1, <3>2
  <2>2. Unlocked'
    <3>1. CASE k = "apply"
      BY <3>1 DEF StartStep, StartLocks, Sleeps, Unlocked, RollsBackUnlocked
    <3>2. CASE k # "apply"
      <4>1. RollsBackUnlocked' <=> RollsBackUnlocked
        BY <1>2, <3>2 DEF RollsBackUnlocked, Kinds
      <4> QED
        BY <3>2, <4>1 DEF StartStep, StartLocks, Unlocked, IInv, Locked
    <3> QED
      BY <3>1, <3>2
  <2> QED
    BY <2>1, <2>2 DEF Locked
<1>5. \A j : Sent(j)' <=> Sent(j)
  BY <1>1 DEF Sent
<1>6. OneWriter'
  <2>1. CASE k \in Writers
    <3>1. ~gui.applying /\ gui'.applying
      BY <2>1 DEF StartStep, StartWindow
    <3>2. ~Runs("apply") /\ ~Runs("previous") /\ ~Sent("apply") /\ ~Sent("previous")
      BY <3>1 DEF IInv, OneWriter, Writers
    <3> QED
      BY <1>1, <1>2, <1>5, <2>1, <3>1, <3>2 DEF IInv, OneWriter, Writers, Kinds
  <2>2. CASE k \notin Writers
    <3>1. \A j \in Writers : Runs(j)' <=> Runs(j)
      BY <1>2, <2>2 DEF Writers, Kinds
    <3>2. gui.applying => gui'.applying
      BY DEF StartStep, StartWindow
    <3> QED
      BY <1>1, <1>5, <3>1, <3>2 DEF IInv, OneWriter, Writers
  <2> QED
    BY <2>1, <2>2
<1>7. OneExit'
  <2>1. CASE k = "exit"
    <3>1. ~gui.exiting /\ gui'.exiting /\ cancel'.apply /\ Runs("exit")'
      BY <2>1 DEF StartStep, StartWindow
    <3>2. ~Sent("exit")
      BY <3>1 DEF IInv, OneExit
    <3> QED
      BY <1>1, <1>5, <3>1, <3>2 DEF IInv, OneExit
  <2>2. CASE k # "exit"
    <3>1. Runs("exit")' <=> Runs("exit")
      BY <1>2, <2>2 DEF Kinds
    <3>2. (gui'.exiting <=> gui.exiting) /\ (gui'.open <=> gui.open)
          /\ (gui.exiting /\ cancel.apply => cancel'.apply)
      BY <2>2 DEF StartStep, StartWindow
    <3> QED
      BY <1>1, <1>5, <3>1, <3>2 DEF IInv, OneExit
  <2> QED
    BY <2>1, <2>2
<1>8. Closed'
  <2>1. (gui'.open <=> gui.open) /\ (Runs(k)' => gui.open)
    BY DEF StartStep, StartWindow
  <2> QED
    BY <1>1, <1>2, <2>1 DEF IInv, Closed
<1>9. Debt'
  <2> SUFFICES ASSUME ~Excused'
               PROVE  /\ workers'["disable"].at \in {"unbind", "stop"} => disk'.route = "official"
                      /\ HasLeft' => disk'.route = "official" /\ \A j \in Writers : Shallow(j)'
                      /\ Dead' => blame'.died \/ Accounted'
    BY DEF Debt
  <2>0. StartDebt(k) /\ ~Excused /\ Sleeps(k)'
    BY DEF StartStep, StartLocks
  <2>1. /\ workers["disable"].at \in {"unbind", "stop"} => disk.route = "official"
        /\ HasLeft => disk.route = "official" /\ \A j \in Writers : Shallow(j)
        /\ Dead => blame.died \/ Accounted
    BY <2>0 DEF IInv, Debt
  <2>2. workers'["disable"].at \in {"unbind", "stop"} =>
          k # "disable" /\ workers["disable"].at \in {"unbind", "stop"}
    BY <1>2, <2>0 DEF Sleeps, Kinds
  <2>3. HasLeft' => HasLeft
    BY <1>1, <1>2, <2>0 DEF HasLeft, Sleeps, Kinds
  <2>4. HasLeft' => \A j \in Writers : Shallow(j)'
    <3>1. \A j \in Writers : j # k => (Shallow(j) => Shallow(j)')
      BY <1>2 DEF Shallow, Writers, Kinds
    <3>2. k \in Writers => Shallow(k)'
      BY <2>0 DEF StartDebt, Writers
    <3> QED
      BY <2>1, <2>3, <3>1, <3>2
  <2>5. (gui'.open <=> gui.open) /\ (Runs(k)' => gui.open)
    BY DEF StartStep, StartWindow
  <2>6. ASSUME Dead', ~blame'.died PROVE Accounted'
    <3>1. CASE k \in Owing
      <4>1. Runs(k)' /\ workers'[k].at # "report"
        BY <2>0, <3>1 DEF StartDebt, Sleeps
      <4>2. Owes(k)'
        BY <4>1 DEF Owes, Runs
      <4> QED
        BY <2>5, <3>1, <4>1, <4>2 DEF Accounted
    <3>2. CASE k \notin Owing
      <4>1. Accounted /\ (gui.told => gui'.told)
        BY <2>0, <2>1, <2>6, <3>2 DEF StartDebt
      <4>2. \A j \in Owing : Owes(j) => Owes(j)'
        <5> TAKE j \in Owing
        <5>1. workers'[j] = workers[j]
          BY <1>2, <3>2 DEF Owing, Kinds
        <5> QED
          BY <1>1, <5>1 DEF Owes, Runs
      <4> QED
        BY <2>5, <4>1, <4>2 DEF Accounted
    <3> QED
      BY <3>1, <3>2
  <2> QED
    BY <2>0, <2>1, <2>2, <2>3, <2>4, <2>6 DEF StartDebt
<1>10. Committed'
  <2> SUFFICES ASSUME ~Excused', ~blame'.lost
               PROVE  /\ Settled' \/ Goes("apply")' \/ Goes("previous")'
                      /\ \A j \in Writers : Faithful(j)'
    BY DEF Committed
  <2>1. ~Excused /\ ~blame.lost /\ disk'.conf = disk.conf /\ disk'.deployed = disk.deployed
    BY DEF StartStep, StartCommit
  <2>2. (Settled \/ Goes("apply") \/ Goes("previous")) /\ \A j \in Writers : Faithful(j)
    BY <2>1 DEF IInv, Committed
  <2>3. Settled' <=> Settled
    BY <2>1 DEF Settled
  <2>4. \A j \in Writers : j # k => (Faithful(j)' <=> Faithful(j)) /\ (Goes(j)' <=> Goes(j))
    BY <1>2, <2>1, <2>3 DEF Faithful, Goes, Writers, Kinds
  <2>5. CASE k \notin Writers
    BY <2>2, <2>3, <2>4, <2>5 DEF Writers
  <2>6. CASE k \in Writers
    <3>1. ~gui.applying
      BY <2>6 DEF StartStep, StartWindow
    <3>2. \A j \in Writers : ~Runs(j) /\ j \in Kinds
      BY <3>1 DEF IInv, OneWriter, Writers, Kinds
    <3>3. \A j \in Writers : ~Goes(j)
      BY <3>2, WriterShapes DEF IInv
    <3>4. Settled
      BY <2>2, <3>3 DEF Writers
    <3>5. Faithful(k)'
      BY <2>6, <3>4 DEF StartStep, StartCommit
    <3> QED
      BY <2>2, <2>3, <2>4, <3>4, <3>5
  <2> QED
    BY <2>5, <2>6
<1> QED
  BY <1>3, <1>4, <1>6, <1>7, <1>8, <1>9, <1>10 DEF IInv

LEMMA TakenShape ==
  ASSUME IInv, NEW k \in Kinds, Taken(k)
  PROVE  /\ DOMAIN blame' = BlameFields /\ blame'.died = blame.died /\ blame'.cut = blame.cut
         /\ blame'.lost = blame.lost /\ blame'.intruded \in BOOLEAN
         /\ blame.intruded => blame'.intruded
         /\ {blame'.died, blame'.intruded, blame'.cut, blame'.lost} \subseteq BOOLEAN
         /\ (Excused => Excused') /\ (blame.lost => blame'.lost)
<1>1. cancel.apply \in BOOLEAN /\ RollsBackUnlocked \in BOOLEAN
  BY DEF IInv, Typed, RollsBackUnlocked
<1>2. DOMAIN blame = BlameFields /\ {blame.died, blame.intruded, blame.cut, blame.lost} \subseteq BOOLEAN
  BY Worker
<1>3. /\ DOMAIN blame' = BlameFields /\ blame'.died = blame.died /\ blame'.cut = blame.cut
      /\ blame'.lost = blame.lost /\ blame'.intruded \in BOOLEAN
      /\ blame.intruded => blame'.intruded
  BY <1>1, <1>2 DEF Taken, BlameFields
<1> QED
  BY <1>2, <1>3 DEF Excused

LEMMA SameBlame ==
  ASSUME IInv, blame' = blame
  PROVE  /\ DOMAIN blame' = BlameFields
         /\ {blame'.died, blame'.intruded, blame'.cut, blame'.lost} \subseteq BOOLEAN
         /\ blame'.died = blame.died /\ blame'.intruded = blame.intruded
         /\ (Excused => Excused') /\ (blame.lost => blame'.lost)
BY DEF IInv, Typed, Excused

LEMMA SameDisk ==
  ASSUME IInv, disk' = disk
  PROVE  /\ DiskTyped' /\ Kept /\ disk'.up = disk.up /\ disk'.route = disk.route
         /\ disk'.conf = disk.conf /\ disk'.deployed = disk.deployed /\ Dead' = Dead
BY DEF IInv, Typed, DiskTyped, Backed, Kept, Dead

LEMMA SpawnShape ==
  ASSUME IInv, NEW k \in Kinds, NEW y, Spawn(k, y)
  PROVE  Moves(k) /\ workers'[k] = y
BY Worker, PutShape DEF Spawn

\* Where no thread is started, the binding's mirror stands for the thread that is not.
LEMMA NoSpawn ==
  ASSUME IInv, workers' = workers, Kept
  PROVE  /\ "keep" \in Kinds /\ "keep" \notin Writers /\ "keep" \notin Owing
         /\ Moves("keep") /\ WorkerTyped("keep")' /\ Sleeps("keep")'
         /\ Runs("keep")' => gui.open
<1>1. "keep" \in Kinds /\ "keep" \notin Writers /\ "keep" \notin Owing
  BY DEF Kinds, Writers, Owing
<1>2. WorkerTyped("keep") /\ DOMAIN workers = Kinds
  BY <1>1, Worker
<1>3. Moves("keep")
  BY <1>2 DEF Moves
<1>4. WorkerTyped("keep")'
  BY <1>1, <1>2 DEF WorkerTyped, Backed, Kept
<1>5. Sleeps("keep")'
  <2>1. workers["keep"].at \in {"idle", "mirror"} /\ ~workers["keep"].undo
    BY <1>1, <1>2 DEF WorkerTyped, PlacesOf
  <2> QED
    BY <2>1 DEF Sleeps
<1>6. Runs("keep") => gui.open
  BY <1>1, RunsInTheOpen
<1> QED
  BY <1>1, <1>3, <1>4, <1>5, <1>6 DEF Runs

LEMMA ActShape ==
  ASSUME IInv, Act
  PROVE  /\ gui.open /\ ~gui.exiting /\ ~HasLeft /\ ops' = ops + 1 /\ ops' \in 0 .. MaxOps
         /\ ops + 1 # 0 /\ WindowTyped(gui) /\ lock \in Kinds \cup {"free"}
         /\ DOMAIN cancel = {"apply", "recover"} /\ cancel.apply \in BOOLEAN
<1>1. gui.open /\ ~gui.exiting /\ ops < MaxOps /\ ops' = ops + 1
  BY DEF Act
<1>2. ~HasLeft
  BY <1>1 DEF HasLeft, IInv, OneExit, Sent, Runs
<1>3. ops \in 0 .. MaxOps /\ MaxOps \in Nat
  BY DesktopAssumption DEF IInv, Typed
<1> QED
  BY <1>1, <1>2, <1>3 DEF IInv, Typed

\* A thread as it is started.
LEMMA FreshTyped ==
  ASSUME NEW k \in Kinds, DOMAIN workers'[k] = WorkerFields,
         workers'[k].at \in PlacesOf(k) \cap {"lock", "services", "mirror"},
         k \in Writers => workers'[k].at = "lock",
         workers'[k].conf \in 0 .. MaxOps, k = "apply" => workers'[k].conf # 0,
         ~workers'[k].undo, {workers'[k].undo, workers'[k].ok} \subseteq BOOLEAN,
         Backed(workers[k].back)', Backed(workers[k].to)',
         k = "previous" => workers'[k].to # NoPoint,
         k \notin Writers => workers'[k].back = NoPoint
  PROVE  WorkerTyped(k)'
BY DEF WorkerTyped, Deploying

LEMMA NoPointBacked ==
  ASSUME NEW k, workers'[k].back = NoPoint, workers'[k].to = NoPoint
  PROVE  Backed(workers[k].back)' /\ Backed(workers[k].to)'
BY IdleShape DEF Backed, Point

LEMMA IdleTyped ==
  ASSUME NEW k \in Kinds, workers'[k] = Idle
  PROVE  WorkerTyped(k)'
<1>1. "idle" \in PlacesOf(k)
  BY DEF PlacesOf, Kinds
<1>2. Backed(workers[k].back)' /\ Backed(workers[k].to)'
  BY IdleShape, NoPointBacked
<1>3. 0 \in 0 .. MaxOps
  BY DesktopAssumption
<1> QED
  BY <1>1, <1>2, <1>3, IdleShape DEF WorkerTyped, Deploying

LEMMA ApplyKeeps == ASSUME IInv, Apply PROVE IInv'
<1>1. PICK k : k = "apply"
  OBVIOUS
<1>2. k \in Kinds /\ k \in Writers /\ k \in Owing /\ k # "exit" /\ k # "disable" /\ k \notin {"recover", "keep"}
  BY <1>1 DEF Kinds, Writers, Owing
<1>3. /\ Act /\ ~gui.applying /\ UNCHANGED <<disk, lock, life, events, faults, blame>>
      /\ cancel' = [apply |-> FALSE, recover |-> TRUE]
      /\ Spawn(k, [Idle EXCEPT !.at = "lock", !.conf = ops + 1])
  BY <1>1 DEF Apply
<1>4. /\ gui.open /\ ~gui.exiting /\ ops' = ops + 1 /\ ops' \in 0 .. MaxOps
      /\ ops + 1 # 0 /\ WindowTyped(gui) /\ lock \in Kinds \cup {"free"}
  BY <1>3, ActShape
<1>5. WindowTyped(gui)' /\ gui'.open /\ gui'.applying /\ ~gui'.exiting
  <2>1. PICK enable \in BOOLEAN :
          gui' = [gui EXCEPT !.applying = TRUE, !.configured = FALSE, !.told = FALSE,
                             !.mode = @ \/ enable, !.switching = @ \/ enable]
    BY DEF Apply
  <2>2. PICK mode : mode = (gui.mode \/ enable)
    OBVIOUS
  <2>3. PICK switching : switching = (gui.switching \/ enable)
    OBVIOUS
  <2>4. gui' = [gui EXCEPT !.applying = TRUE, !.configured = FALSE, !.told = FALSE,
                           !.mode = mode, !.switching = switching]
    BY <2>1, <2>2, <2>3
  <2> QED
    BY <1>4, <2>4 DEF WindowTyped, GuiFields
<1>6. PICK y : y = [Idle EXCEPT !.at = "lock", !.conf = ops + 1]
  OBVIOUS
<1>7. Moves(k) /\ workers'[k] = y
  BY <1>2, <1>3, <1>6, SpawnShape
<1>8. /\ DOMAIN y = WorkerFields /\ y.at = "lock" /\ y.conf = ops + 1 /\ y.back = NoPoint
      /\ y.to = NoPoint /\ ~y.undo /\ y.undo \in BOOLEAN /\ y.ok \in BOOLEAN
  BY <1>6, IdleShape DEF WorkerFields
<1>9. WorkerTyped(k)'
  <2>1. "lock" \in PlacesOf(k)
    BY <1>1 DEF PlacesOf
  <2> QED
    BY <1>1, <1>2, <1>4, <1>7, <1>8, <2>1, NoPointBacked, FreshTyped
<1>10. DOMAIN cancel' = {"apply", "recover"} /\ cancel'.apply \in BOOLEAN
  BY <1>3
<1>11. StartTypes(k)
  BY <1>3, <1>4, <1>5, <1>7, <1>9, <1>10, SameDisk, SameBlame DEF StartTypes
<1>12. StartLocks(k)
  BY <1>3, <1>7, <1>8, SameDisk, SameBlame DEF StartLocks, Sleeps
<1>13. StartWindow(k)
  BY <1>2, <1>3, <1>4, <1>5 DEF StartWindow
<1>14. StartDebt(k)
  BY <1>2, <1>3, <1>7, <1>8, SameDisk DEF StartDebt, Shallow, Runs
<1>15. StartCommit(k)
  BY <1>3, <1>7, <1>8 DEF StartCommit, Faithful, Deploying
<1> QED
  BY <1>2, <1>3, <1>11, <1>12, <1>13, <1>14, <1>15, SameBlame, StartKeeps DEF StartStep

\* A thread is started and nothing else changes but the window.
LEMMA PlainStart ==
  ASSUME IInv, NEW k \in Kinds, k # "apply", NEW y, Spawn(k, y),
         UNCHANGED <<disk, lock, life, events, blame>>,
         gui.open, WindowTyped(gui)', ops' \in 0 .. MaxOps,
         DOMAIN cancel' = {"apply", "recover"}, cancel'.apply \in BOOLEAN, StartWindow(k),
         k \notin Owing => (gui.told => gui'.told),
         DOMAIN y = WorkerFields, y.conf = 0, y.back = NoPoint, Backed(y.to),
         y.undo = FALSE, y.ok = FALSE, k = "previous" => y.to # NoPoint,
         y.at = (IF k = "recover" THEN "services" ELSE IF k = "keep" THEN "mirror" ELSE "lock")
  PROVE  IInv'
<1>1. Moves(k) /\ workers'[k] = y
  BY SpawnShape
<1>2. lock \in Kinds \cup {"free"}
  BY DEF IInv, Typed
<1>3. WorkerTyped(k)'
  <2>1. y.at \in PlacesOf(k) \cap {"lock", "services", "mirror"}
    BY DEF PlacesOf, Kinds
  <2>2. Backed(workers[k].to)' /\ Backed(workers[k].back)'
    BY <1>1, IdleShape DEF Backed, Point
  <2>3. 0 \in 0 .. MaxOps
    BY DesktopAssumption
  <2>4. k \in Writers => y.at = "lock"
    BY DEF Writers
  <2> QED
    BY <1>1, <2>1, <2>2, <2>3, <2>4, FreshTyped
<1>4. StartTypes(k)
  BY <1>1, <1>2, <1>3, SameDisk, SameBlame DEF StartTypes
<1>5. StartLocks(k)
  BY <1>1, SameDisk, SameBlame DEF StartLocks, Sleeps
<1>6. StartDebt(k)
  BY <1>1, SameDisk DEF StartDebt, Shallow, Runs
<1>7. StartCommit(k)
  BY <1>1 DEF StartCommit, Faithful, Deploying, Writers
<1> QED
  BY <1>4, <1>5, <1>6, <1>7, SameBlame, StartKeeps DEF StartStep

LEMMA RestorePreviousKeeps == ASSUME IInv, RestorePrevious PROVE IInv'
<1>1. PICK k : k = "previous"
  OBVIOUS
<1>2. PICK y : y = [Idle EXCEPT !.at = "lock", !.to = disk.point]
  OBVIOUS
<1>3. /\ Act /\ ~gui.applying /\ disk.point # NoPoint /\ Spawn(k, y)
      /\ UNCHANGED <<disk, lock, life, cancel, events, faults, blame>>
  BY <1>1, <1>2 DEF RestorePrevious
<1>4. /\ gui.open /\ ~gui.exiting /\ ops' \in 0 .. MaxOps /\ WindowTyped(gui)
      /\ DOMAIN cancel = {"apply", "recover"} /\ cancel.apply \in BOOLEAN
  BY <1>3, ActShape
<1>5. WindowTyped(gui)' /\ gui'.open /\ gui'.applying /\ ~gui'.exiting
  <2>1. PICK undo : undo = [mode |-> gui.mode, configured |-> gui.configured, set |-> TRUE]
    OBVIOUS
  <2>2. gui' = [gui EXCEPT !.applying = TRUE, !.configured = FALSE, !.told = FALSE, !.undo = undo]
    BY <2>1 DEF RestorePrevious
  <2> QED
    BY <1>4, <2>2 DEF WindowTyped, GuiFields
<1>6. /\ DOMAIN y = WorkerFields /\ y.at = "lock" /\ y.conf = 0 /\ y.back = NoPoint
      /\ y.to = disk.point /\ y.undo = FALSE /\ y.ok = FALSE
  BY <1>2, IdleShape DEF WorkerFields
<1>7. Backed(disk.point)
  BY DEF IInv, Typed, DiskTyped
<1>8. k \in Kinds /\ k \in Owing
  BY <1>1 DEF Kinds, Owing
<1>9. StartWindow(k)
  BY <1>1, <1>3, <1>4, <1>5 DEF StartWindow
<1> QED
  BY <1>1, <1>3, <1>4, <1>5, <1>6, <1>7, <1>8, <1>9, PlainStart

LEMMA IdleAt ==
  ASSUME NEW at, NEW y, y = [Idle EXCEPT !.at = at]
  PROVE  /\ DOMAIN y = WorkerFields /\ y.at = at /\ y.conf = 0 /\ y.back = NoPoint
         /\ y.to = NoPoint /\ y.undo = FALSE /\ y.ok = FALSE /\ Backed(y.to)
BY IdleShape DEF WorkerFields

LEMMA DisableRouterModeKeeps == ASSUME IInv, DisableRouterMode PROVE IInv'
<1>1. PICK y : y = [Idle EXCEPT !.at = "lock"]
  OBVIOUS
<1>2. /\ Act /\ gui' = [gui EXCEPT !.switching = TRUE, !.told = FALSE] /\ Spawn("disable", y)
      /\ UNCHANGED <<disk, lock, life, events, faults, blame>>
      /\ cancel' = [cancel EXCEPT !.recover = TRUE]
  BY <1>1 DEF DisableRouterMode
<1>3. /\ gui.open /\ ops' \in 0 .. MaxOps /\ WindowTyped(gui)
      /\ DOMAIN cancel = {"apply", "recover"} /\ cancel.apply \in BOOLEAN
  BY <1>2, ActShape
<1>4. /\ WindowTyped(gui)' /\ gui'.open = gui.open /\ gui'.applying = gui.applying
      /\ gui'.exiting = gui.exiting
  BY <1>2, <1>3 DEF WindowTyped, GuiFields
<1>5. DOMAIN cancel' = {"apply", "recover"} /\ cancel'.apply = cancel.apply
  BY <1>2, <1>3
<1>6. "disable" \in Kinds /\ "disable" \in Owing /\ "disable" \notin Writers
  BY DEF Kinds, Owing, Writers
<1>7. StartWindow("disable")
  BY <1>3, <1>4, <1>5, <1>6 DEF StartWindow
<1>8. /\ DOMAIN y = WorkerFields /\ y.at = "lock" /\ y.conf = 0 /\ y.back = NoPoint
      /\ y.to = NoPoint /\ y.undo = FALSE /\ y.ok = FALSE /\ Backed(y.to)
  BY <1>1, IdleAt
<1> QED
  BY <1>2, <1>3, <1>4, <1>5, <1>6, <1>7, <1>8, PlainStart

LEMMA KeepCurrentKeeps == ASSUME IInv, KeepCurrent PROVE IInv'
<1>1. PICK y : y = [Idle EXCEPT !.at = "mirror"]
  OBVIOUS
<1>2. /\ Act /\ gui' = [gui EXCEPT !.prompt = FALSE] /\ Spawn("keep", y)
      /\ UNCHANGED <<disk, lock, life, cancel, events, faults, blame>>
  BY <1>1 DEF KeepCurrent
<1>3. /\ gui.open /\ ops' \in 0 .. MaxOps /\ WindowTyped(gui)
      /\ DOMAIN cancel = {"apply", "recover"} /\ cancel.apply \in BOOLEAN
  BY <1>2, ActShape
<1>4. /\ WindowTyped(gui)' /\ gui'.open = gui.open /\ gui'.applying = gui.applying
      /\ gui'.exiting = gui.exiting /\ gui'.told = gui.told
  BY <1>2, <1>3 DEF WindowTyped, GuiFields
<1>5. "keep" \in Kinds /\ "keep" \notin Writers
  BY DEF Kinds, Writers
<1>6. StartWindow("keep")
  BY <1>2, <1>3, <1>4, <1>5 DEF StartWindow
<1>7. /\ DOMAIN y = WorkerFields /\ y.at = "mirror" /\ y.conf = 0 /\ y.back = NoPoint
      /\ y.to = NoPoint /\ y.undo = FALSE /\ y.ok = FALSE /\ Backed(y.to)
  BY <1>1, IdleAt
<1> QED
  BY <1>2, <1>3, <1>4, <1>5, <1>6, <1>7, PlainStart

LEMMA RestoreFactoryKeeps == ASSUME IInv, RestoreFactory PROVE IInv'
<1>1. PICK y : y = [Idle EXCEPT !.at = "lock"]
  OBVIOUS
<1>2. /\ Act /\ gui' = [gui EXCEPT !.acting = TRUE] /\ Spawn("factory", y)
      /\ UNCHANGED <<disk, lock, life, cancel, events, faults, blame>>
  BY <1>1 DEF RestoreFactory
<1>3. /\ gui.open /\ ops' \in 0 .. MaxOps /\ WindowTyped(gui)
      /\ DOMAIN cancel = {"apply", "recover"} /\ cancel.apply \in BOOLEAN
  BY <1>2, ActShape
<1>4. /\ WindowTyped(gui)' /\ gui'.open = gui.open /\ gui'.applying = gui.applying
      /\ gui'.exiting = gui.exiting /\ gui'.told = gui.told
  BY <1>2, <1>3 DEF WindowTyped, GuiFields
<1>5. "factory" \in Kinds /\ "factory" \notin Writers
  BY DEF Kinds, Writers
<1>6. StartWindow("factory")
  BY <1>2, <1>3, <1>4, <1>5 DEF StartWindow
<1>7. /\ DOMAIN y = WorkerFields /\ y.at = "lock" /\ y.conf = 0 /\ y.back = NoPoint
      /\ y.to = NoPoint /\ y.undo = FALSE /\ y.ok = FALSE /\ Backed(y.to)
  BY <1>1, IdleAt
<1> QED
  BY <1>2, <1>3, <1>4, <1>5, <1>6, <1>7, PlainStart

LEMMA RequestExitKeeps == ASSUME IInv, RequestExit PROVE IInv'
<1>1. PICK y : y = [Idle EXCEPT !.at = "lock"]
  OBVIOUS
<1>2. /\ Act /\ gui' = [gui EXCEPT !.exiting = TRUE, !.told = FALSE] /\ Spawn("exit", y)
      /\ UNCHANGED <<disk, lock, life, events, faults, blame>>
      /\ cancel' = [apply |-> TRUE, recover |-> TRUE]
  BY <1>1 DEF RequestExit
<1>3. gui.open /\ ~gui.exiting /\ ops' \in 0 .. MaxOps /\ WindowTyped(gui)
  BY <1>2, ActShape
<1>4. /\ WindowTyped(gui)' /\ gui'.open = gui.open /\ gui'.applying = gui.applying
      /\ gui'.exiting
  BY <1>2, <1>3 DEF WindowTyped, GuiFields
<1>5. DOMAIN cancel' = {"apply", "recover"} /\ cancel'.apply = TRUE
  BY <1>2
<1>6. "exit" \in Kinds /\ "exit" \in Owing /\ "exit" \notin Writers
  BY DEF Kinds, Owing, Writers
<1>7. y.at = "lock" /\ workers'["exit"] = y
  BY <1>1, <1>2, <1>6, IdleAt, SpawnShape
<1>8. StartWindow("exit")
  BY <1>3, <1>4, <1>5, <1>6, <1>7 DEF StartWindow, Runs
<1>9. /\ DOMAIN y = WorkerFields /\ y.at = "lock" /\ y.conf = 0 /\ y.back = NoPoint
      /\ y.to = NoPoint /\ y.undo = FALSE /\ y.ok = FALSE /\ Backed(y.to)
  BY <1>1, IdleAt
<1> QED
  BY <1>2, <1>3, <1>4, <1>5, <1>6, <1>8, <1>9, PlainStart

LEMMA StartRecoveryKeeps == ASSUME IInv, StartRecovery PROVE IInv'
<1>1. PICK y : y = [Idle EXCEPT !.at = "services"]
  OBVIOUS
<1>2. /\ gui.open /\ gui' = [gui EXCEPT !.recovering = TRUE] /\ Spawn("recover", y)
      /\ UNCHANGED <<disk, lock, life, events, ops, faults, blame>>
      /\ cancel' = [cancel EXCEPT !.recover = FALSE]
  BY <1>1 DEF StartRecovery, Probing
<1>3. /\ ops' \in 0 .. MaxOps /\ WindowTyped(gui)
      /\ DOMAIN cancel = {"apply", "recover"} /\ cancel.apply \in BOOLEAN
  BY <1>2 DEF IInv, Typed
<1>4. /\ WindowTyped(gui)' /\ gui'.open = gui.open /\ gui'.applying = gui.applying
      /\ gui'.exiting = gui.exiting /\ gui'.told = gui.told
  BY <1>2, <1>3 DEF WindowTyped, GuiFields
<1>5. DOMAIN cancel' = {"apply", "recover"} /\ cancel'.apply = cancel.apply
  BY <1>2, <1>3
<1>6. "recover" \in Kinds /\ "recover" \notin Writers
  BY DEF Kinds, Writers
<1>7. StartWindow("recover")
  BY <1>2, <1>3, <1>4, <1>5, <1>6 DEF StartWindow
<1>8. /\ DOMAIN y = WorkerFields /\ y.at = "services" /\ y.conf = 0 /\ y.back = NoPoint
      /\ y.to = NoPoint /\ y.undo = FALSE /\ y.ok = FALSE /\ Backed(y.to)
  BY <1>1, IdleAt
<1> QED
  BY <1>2, <1>3, <1>4, <1>5, <1>6, <1>7, <1>8, PlainStart

LEMMA SwitchProfileKeeps == ASSUME IInv, SwitchProfile PROVE IInv'
<1>1. PICK k : k = "apply"
  OBVIOUS
<1>2. k \in Kinds /\ k \in Writers /\ k \in Owing /\ k # "exit" /\ k # "disable" /\ k \notin {"recover", "keep"}
      /\ "previous" \in Kinds
  BY <1>1 DEF Kinds, Writers, Owing
<1>3. PICK back : back = [route |-> disk.route, conf |-> disk.conf]
  OBVIOUS
<1>4. PICK y : y = [Idle EXCEPT !.at = "lock", !.conf = ops + 1, !.back = back]
  OBVIOUS
<1>5. /\ Act /\ ~gui.applying /\ lock = "free" /\ Taken("previous") /\ lock' = k
      /\ UNCHANGED <<life, events, faults>> /\ cancel' = [apply |-> FALSE, recover |-> TRUE]
  BY <1>1 DEF SwitchProfile
<1>6. PICK route \in {"official", "router"} :
        /\ route = "router" => disk.conf # 0
        /\ disk' = [disk EXCEPT !.point = back, !.route = route]
        /\ Spawn(k, y)
  BY <1>1, <1>3, <1>4 DEF SwitchProfile
<1>7. /\ gui.open /\ ~gui.exiting /\ ~HasLeft /\ ops' \in 0 .. MaxOps /\ ops' = ops + 1
      /\ ops + 1 # 0 /\ WindowTyped(gui)
  BY <1>5, ActShape
<1>8. WindowTyped(gui)' /\ gui'.open /\ gui'.applying /\ ~gui'.exiting
  <2>1. PICK undo : undo = [mode |-> gui.mode, configured |-> gui.configured, set |-> TRUE]
    OBVIOUS
  <2>2. gui' = [gui EXCEPT !.applying = TRUE, !.configured = FALSE, !.told = FALSE, !.undo = undo]
    BY <2>1 DEF SwitchProfile
  <2> QED
    BY <1>7, <2>2 DEF WindowTyped, GuiFields
<1>9. DiskTyped
  BY Worker, <1>2
<1>10. /\ back.route = disk.route /\ back.conf = disk.conf
       /\ back \in [route : Routes, conf : 0 .. MaxOps]
  BY <1>3, <1>9 DEF DiskTyped
<1>11. /\ DOMAIN disk' = DiskFields /\ disk'.route = route /\ disk'.up = disk.up
       /\ disk'.conf = disk.conf /\ disk'.deployed = disk.deployed /\ disk'.point = back
  BY <1>6, <1>9 DEF DiskTyped, DiskFields
<1>12. DiskTyped' /\ Kept
  BY <1>6, <1>9, <1>10, <1>11 DEF DiskTyped, Backed, Point, Kept, Routes
<1>13. Moves(k) /\ workers'[k] = y
  BY <1>2, <1>6, SpawnShape
<1>14. /\ DOMAIN y = WorkerFields /\ y.at = "lock" /\ y.conf = ops + 1 /\ y.back = back
       /\ y.to = NoPoint /\ ~y.undo /\ y.undo \in BOOLEAN /\ y.ok \in BOOLEAN
  BY <1>4, IdleShape DEF WorkerFields
<1>15. WorkerTyped(k)'
  <2>1. "lock" \in PlacesOf(k)
    BY <1>1 DEF PlacesOf
  <2>2. Backed(workers[k].back)'
    BY <1>9, <1>10, <1>11, <1>13, <1>14 DEF DiskTyped, Backed, Point
  <2>3. Backed(workers[k].to)'
    BY <1>13, <1>14, IdleShape DEF Backed, Point
  <2> QED
    BY <1>1, <1>2, <1>7, <1>13, <1>14, <2>1, <2>2, <2>3, FreshTyped
<1>16. DOMAIN cancel' = {"apply", "recover"} /\ cancel'.apply \in BOOLEAN
  BY <1>5
<1>17. StartTypes(k)
  BY <1>2, <1>5, <1>7, <1>8, <1>12, <1>13, <1>15, <1>16, TakenShape DEF StartTypes
<1>18. StartLocks(k)
  BY <1>1, <1>2, <1>5, <1>11, <1>13, <1>14, TakenShape DEF StartLocks, Sleeps
<1>19. StartWindow(k)
  BY <1>2, <1>5, <1>7, <1>8 DEF StartWindow
<1>20. StartDebt(k)
  <2>1. workers["disable"].at \notin {"unbind", "stop"}
    <3>1. "disable" \in Kinds /\ Holds("disable")
      BY DEF IInv, Locked, Kinds
    <3> QED
      BY <1>5, <3>1 DEF Holds
  <2>2. blame'.died = blame.died
    BY <1>2, <1>5, TakenShape
  <2> QED
    BY <1>2, <1>7, <1>13, <1>14, <2>1, <2>2 DEF StartDebt, Shallow, Runs
<1>21. StartCommit(k)
  BY <1>10, <1>11, <1>13, <1>14 DEF StartCommit, Faithful, Deploying, Settled
<1>22. (Excused => Excused') /\ (blame.lost => blame'.lost)
  BY <1>2, <1>5, TakenShape
<1> QED
  BY <1>2, <1>5, <1>17, <1>18, <1>19, <1>20, <1>21, <1>22, StartKeeps DEF StartStep

\* No thread is started; Codex's layers and the services change, or the window's other flags.
LEMMA PlainStep ==
  ASSUME IInv, UNCHANGED <<workers, lock, life, cancel, events>>, ops' \in 0 .. MaxOps,
         DiskTyped', Kept, disk'.conf = disk.conf, disk'.deployed = disk.deployed,
         disk'.route \in {disk.route, "official"},
         DOMAIN blame' = BlameFields,
         {blame'.died, blame'.intruded, blame'.cut, blame'.lost} \subseteq BOOLEAN,
         Excused => Excused', blame.lost => blame'.lost,
         blame.intruded => blame'.intruded, blame.died => blame'.died,
         disk'.up = disk.up \/ blame'.died,
         WindowTyped(gui)', gui'.open = gui.open, gui'.applying = gui.applying,
         gui'.exiting = gui.exiting, gui'.told = gui.told
  PROVE  IInv'
<1>1. PICK k : k = "keep"
  OBVIOUS
<1>2. /\ k \in Kinds /\ k \notin Writers /\ k \notin Owing
      /\ Moves(k) /\ WorkerTyped(k)' /\ Sleeps(k)' /\ (Runs(k)' => gui.open)
  BY <1>1, NoSpawn
<1>3. lock' \in Kinds \cup {"free"} /\ DOMAIN cancel' = {"apply", "recover"} /\ cancel'.apply \in BOOLEAN
  BY DEF IInv, Typed
<1>4. StartTypes(k)
  BY <1>2, <1>3 DEF StartTypes
<1>5. StartLocks(k)
  <2>1. blame.died \in BOOLEAN /\ blame'.died \in BOOLEAN
    BY DEF IInv, Typed
  <2> QED
    BY <1>2, <2>1 DEF StartLocks
<1>6. StartWindow(k)
  BY <1>1, <1>2 DEF StartWindow
<1>7. Dead' => Dead \/ blame'.died
  <2>1. disk'.up \in BOOLEAN /\ disk.up \in BOOLEAN
    BY DEF IInv, Typed, DiskTyped
  <2> QED
    BY <2>1 DEF Dead
<1>8. StartDebt(k)
  BY <1>1, <1>2, <1>7 DEF StartDebt
<1>9. StartCommit(k)
  BY <1>2 DEF StartCommit
<1> QED
  BY <1>2, <1>4, <1>5, <1>6, <1>8, <1>9, StartKeeps DEF StartStep

LEMMA RestoreOriginalKeeps == ASSUME IInv, RestoreOriginal PROVE IInv'
<1>1. /\ Act /\ Taken("factory") /\ gui' = [gui EXCEPT !.mode = FALSE] /\ "factory" \in Kinds
      /\ UNCHANGED <<workers, lock, life, cancel, events, faults>>
  BY DEF RestoreOriginal, Kinds
<1>2. PICK back : back = [route |-> disk.route, conf |-> disk.conf]
  OBVIOUS
<1>3. disk' = [disk EXCEPT !.point = back, !.route = "official", !.system = FALSE, !.official = TRUE]
  BY <1>2 DEF RestoreOriginal
<1>4. ops' \in 0 .. MaxOps /\ WindowTyped(gui)
  BY <1>1, ActShape
<1>5. /\ WindowTyped(gui)' /\ gui'.open = gui.open /\ gui'.applying = gui.applying
      /\ gui'.exiting = gui.exiting /\ gui'.told = gui.told
  BY <1>1, <1>4 DEF WindowTyped, GuiFields
<1>6. DiskTyped
  BY <1>1, Worker
<1>7. /\ back.route = disk.route /\ back.conf = disk.conf
      /\ back \in [route : Routes, conf : 0 .. MaxOps]
  BY <1>2, <1>6 DEF DiskTyped
<1>8. /\ DOMAIN disk' = DiskFields /\ disk'.route = "official" /\ disk'.up = disk.up
      /\ disk'.conf = disk.conf /\ disk'.deployed = disk.deployed /\ disk'.point = back
  BY <1>3, <1>6 DEF DiskTyped, DiskFields
<1>9. DiskTyped' /\ Kept
  BY <1>6, <1>7, <1>8 DEF DiskTyped, Backed, Point, Kept, Routes
<1>10. /\ DOMAIN blame' = BlameFields /\ blame'.died = blame.died
       /\ blame.intruded => blame'.intruded
       /\ {blame'.died, blame'.intruded, blame'.cut, blame'.lost} \subseteq BOOLEAN
       /\ (Excused => Excused') /\ (blame.lost => blame'.lost)
  BY <1>1, TakenShape
<1> QED
  BY <1>1, <1>4, <1>5, <1>8, <1>9, <1>10, PlainStep

\* The health probe and the look at the two layers.
LEMMA ObservationKeeps == ASSUME IInv, ProbeHealth \/ ObserveBinding PROVE IInv'
<1>1. /\ UNCHANGED <<disk, workers, lock, life, cancel, events, ops, faults, blame>>
      /\ \/ gui' = [gui EXCEPT !.failing = TRUE]
         \/ gui' = [gui EXCEPT !.prompt = ~@]
  BY DEF ProbeHealth, ObserveBinding
<1>2. WindowTyped(gui) /\ ops' \in 0 .. MaxOps
  BY <1>1 DEF IInv, Typed
<1>3. /\ WindowTyped(gui)' /\ gui'.open = gui.open /\ gui'.applying = gui.applying
      /\ gui'.exiting = gui.exiting /\ gui'.told = gui.told
  <2>1. CASE gui' = [gui EXCEPT !.failing = TRUE]
    BY <1>2, <2>1 DEF WindowTyped, GuiFields
  <2>2. CASE gui' = [gui EXCEPT !.prompt = ~@]
    <3>1. PICK prompt : prompt = ~gui.prompt
      OBVIOUS
    <3>2. gui' = [gui EXCEPT !.prompt = prompt]
      BY <2>2, <3>1
    <3> QED
      BY <1>2, <3>2 DEF WindowTyped, GuiFields
  <2> QED
    BY <1>1, <2>1, <2>2
<1> QED
  BY <1>1, <1>2, <1>3, SameDisk, SameBlame, PlainStep

LEMMA ServicesDieKeeps == ASSUME IInv, ServicesDie PROVE IInv'
<1>1. /\ disk' = [disk EXCEPT !.up = FALSE] /\ blame' = [blame EXCEPT !.died = TRUE]
      /\ UNCHANGED <<gui, workers, lock, life, cancel, events, ops>>
  BY DEF ServicesDie
<1>2. /\ WindowTyped(gui)' /\ ops' \in 0 .. MaxOps /\ DOMAIN disk = DiskFields
      /\ DOMAIN blame = BlameFields
      /\ {blame.died, blame.intruded, blame.cut, blame.lost} \subseteq BOOLEAN
  BY <1>1 DEF IInv, Typed, DiskTyped
<1>3. /\ DOMAIN disk' = DiskFields /\ disk'.route = disk.route /\ disk'.up = FALSE
      /\ disk'.system = disk.system /\ disk'.conf = disk.conf /\ disk'.deployed = disk.deployed
      /\ disk'.point = disk.point
  BY <1>1, <1>2 DEF DiskFields
<1>4. DiskTyped' /\ Kept
  BY <1>3, GivenBack
<1>5. /\ DOMAIN blame' = BlameFields /\ blame'.died = TRUE /\ blame'.intruded = blame.intruded
      /\ blame'.cut = blame.cut /\ blame'.lost = blame.lost
  BY <1>1, <1>2 DEF BlameFields
<1>6. Excused => Excused'
  BY <1>5 DEF Excused
<1> QED
  BY <1>1, <1>2, <1>3, <1>4, <1>5, <1>6, PlainStep

LEMMA OverwriteKeeps == ASSUME IInv, Overwrite PROVE IInv'
<1>1. /\ UNCHANGED <<gui, workers, lock, life, cancel, events, ops, blame>>
      /\ \E system \in {disk.system, FALSE} :
           disk' = [disk EXCEPT !.route = "official", !.system = system]
  BY DEF Overwrite
<1>2. /\ WindowTyped(gui)' /\ ops' \in 0 .. MaxOps /\ DOMAIN disk = DiskFields /\ disk.up \in BOOLEAN
  BY <1>1 DEF IInv, Typed, DiskTyped
<1>3. /\ DOMAIN disk' = DiskFields /\ disk'.route = "official" /\ disk'.up = disk.up
      /\ disk'.conf = disk.conf /\ disk'.deployed = disk.deployed
      /\ disk'.point = disk.point
  BY <1>1, <1>2 DEF DiskFields
<1>4. DiskTyped' /\ Kept
  BY <1>2, <1>3, GivenBack
<1> QED
  BY <1>1, <1>2, <1>3, <1>4, SameBlame, PlainStep

LEMMA MirrorBindingKeeps == ASSUME IInv, MirrorBinding PROVE IInv'
<1>1. PICK k : k = "keep"
  OBVIOUS
<1>2. /\ workers[k].at = "mirror" /\ disk' = [disk EXCEPT !.system = TRUE] /\ Spawn(k, Idle)
      /\ UNCHANGED <<gui, lock, life, cancel, events, ops, faults, blame>>
  BY <1>1 DEF MirrorBinding
<1>3. k \in Kinds /\ k \notin Writers /\ k \notin Owing
  BY <1>1 DEF Kinds, Writers, Owing
<1>4. Moves(k) /\ workers'[k] = Idle
  BY <1>2, <1>3, SpawnShape
<1>5. /\ WindowTyped(gui)' /\ ops' \in 0 .. MaxOps /\ DOMAIN disk = DiskFields /\ disk.up \in BOOLEAN
      /\ lock \in Kinds \cup {"free"} /\ DOMAIN cancel = {"apply", "recover"} /\ cancel.apply \in BOOLEAN
  BY <1>2 DEF IInv, Typed, DiskTyped
<1>6. /\ DOMAIN disk' = DiskFields /\ disk'.route = disk.route /\ disk'.up = disk.up
      /\ disk'.conf = disk.conf /\ disk'.deployed = disk.deployed
      /\ disk'.point = disk.point
  BY <1>2, <1>5 DEF DiskFields
<1>7. DiskTyped' /\ Kept
  BY <1>5, <1>6, GivenBack
<1>8. WorkerTyped(k)'
  BY <1>3, <1>4, IdleTyped
<1>9. StartTypes(k)
  BY <1>2, <1>4, <1>5, <1>7, <1>8, SameBlame DEF StartTypes
<1>10. StartLocks(k)
  BY <1>2, <1>4, <1>6, IdleShape, SameBlame DEF StartLocks, Sleeps
<1>11. StartWindow(k)
  BY <1>1, <1>2, <1>3, <1>4, IdleShape DEF StartWindow, Runs
<1>12. StartDebt(k)
  BY <1>1, <1>2, <1>3, <1>6 DEF StartDebt, Dead
<1>13. StartCommit(k)
  BY <1>3, <1>6 DEF StartCommit
<1> QED
  BY <1>2, <1>3, <1>9, <1>10, <1>11, <1>12, <1>13, SameBlame, StartKeeps DEF StartStep

-----------------------------------------------------------------------------
(* A worker reports, and a process begins or is ended. *)

LEMMA AppendShape ==
  ASSUME IInv, NEW e, events' = Append(events, e)
  PROVE  /\ Len(events) \in Nat /\ DOMAIN events = 1 .. Len(events)
         /\ DOMAIN events' = 1 .. Len(events) + 1
         /\ \A i \in DOMAIN events : i \in DOMAIN events' /\ events'[i] = events[i]
         /\ Len(events) + 1 \in DOMAIN events' /\ events'[Len(events) + 1] = e
         /\ \A i \in DOMAIN events' : i \in DOMAIN events \/ i = Len(events) + 1
BY DEF IInv, Typed, EventsTyped

LEMMA ReportKeeps == ASSUME IInv, NEW k \in Kinds, Report(k) PROVE IInv'
<1>1. /\ workers[k].at = "report" /\ Runs(k) /\ Shallow(k) /\ Spawn(k, Idle)
      /\ UNCHANGED <<gui, disk, lock, life, cancel, ops, faults, blame>>
  BY DEF Report, Runs, Shallow
<1>2. PICK e : e = [of |-> k, ok |-> workers[k].ok]
  OBVIOUS
<1>3. events' = Append(events, e) /\ e.of = k /\ e.ok = workers[k].ok /\ workers[k].ok \in BOOLEAN
      /\ e \in Event
  <2>1. workers[k].ok \in BOOLEAN
    BY Worker DEF WorkerTyped
  <2> QED
    BY <1>1, <1>2, <2>1, Places DEF Report, Event
<1>4. Moves(k) /\ workers'[k] = Idle /\ ~Runs(k)' /\ Shallow(k)'
  BY <1>1, SpawnShape, IdleShape DEF Runs, Shallow
<1>5. PICK n : n = Len(events) + 1
  OBVIOUS
<1>6. /\ \A i \in DOMAIN events : i \in DOMAIN events' /\ events'[i] = events[i]
      /\ n \in DOMAIN events' /\ events'[n] = e
      /\ \A i \in DOMAIN events' : i \in DOMAIN events \/ i = n
  BY <1>3, <1>5, AppendShape
<1>7. \A j \in Kinds : j # k => workers'[j] = workers[j] /\ (Runs(j)' <=> Runs(j))
  BY <1>4 DEF Moves, Runs
<1>8. gui.open
  BY <1>1, RunsInTheOpen
<1>9. Typed'
  <2>1. ASSUME NEW j \in Kinds PROVE WorkerTyped(j)'
    <3>1. CASE j = k
      BY <1>4, <3>1, IdleTyped
    <3>2. CASE j # k
      BY <1>1, <1>7, <3>2 DEF IInv, Typed, WorkerTyped, Backed
    <3> QED
      BY <3>1, <3>2
  <2>2. EventsTyped'
    BY <1>3 DEF IInv, Typed, EventsTyped
  <2>3. WindowTyped(gui)' /\ DiskTyped'
    BY <1>1, SameDisk DEF IInv, Typed
  <2> QED
    BY <1>1, <1>4, <2>1, <2>2, <2>3 DEF IInv, Typed, Moves
<1>10. Locked'
  <2>1. ASSUME NEW j \in Kinds PROVE Holds(j)'
    <3>1. CASE j = k
      BY <1>4, <3>1, IdleShape DEF Holds
    <3>2. CASE j # k
      BY <1>1, <1>7, <3>2 DEF IInv, Locked, Holds
    <3> QED
      BY <3>1, <3>2
  <2>2. RollsBackUnlocked' => RollsBackUnlocked
    BY <1>4, <1>7, IdleShape DEF RollsBackUnlocked, Kinds
  <2> QED
    BY <1>1, <2>1, <2>2 DEF IInv, Locked, Unlocked
<1>11. \A j : Sent(j)' <=> Sent(j) \/ j = k
  BY <1>3, <1>6 DEF Sent
<1>12. OneWriter'
  <2>1. CASE k \in Writers
    <3>1. gui.applying /\ ~Sent("apply") /\ ~Sent("previous")
      BY <1>1, <2>1 DEF IInv, OneWriter
    <3>2. \A j \in Writers : ~Runs(j)'
      BY <1>1, <1>4, <1>7, <2>1 DEF IInv, OneWriter, Writers, Kinds
    <3>3. \A i \in DOMAIN events' : events'[i].of \in Writers => i = n
      BY <1>6, <3>1 DEF Sent, Writers
    <3> QED
      BY <1>1, <3>1, <3>2, <3>3 DEF OneWriter, Writers
  <2>2. CASE k \notin Writers
    <3>1. \A j \in Writers : (Runs(j)' <=> Runs(j)) /\ (Sent(j)' <=> Sent(j))
      BY <1>7, <1>11, <2>2 DEF Writers, Kinds
    <3>2. \A i \in DOMAIN events' : events'[i].of \in Writers => i \in DOMAIN events /\ events'[i] = events[i]
      BY <1>3, <1>6, <2>2
    <3> QED
      BY <1>1, <3>1, <3>2 DEF IInv, OneWriter, Writers
  <2> QED
    BY <2>1, <2>2
<1>13. OneExit'
  <2>1. CASE k = "exit"
    <3>1. gui.exiting /\ ~Sent("exit")
      BY <1>1, <2>1 DEF IInv, OneExit
    <3>2. ~Runs("exit")' /\ Sent("exit")'
      BY <1>4, <1>11, <2>1
    <3>3. \A i \in DOMAIN events' : events'[i].of = "exit" => i = n
      BY <1>6, <3>1 DEF Sent
    <3> QED
      BY <1>1, <3>1, <3>2, <3>3 DEF IInv, OneExit
  <2>2. CASE k # "exit"
    <3>1. (Runs("exit")' <=> Runs("exit")) /\ (Sent("exit")' <=> Sent("exit"))
      BY <1>7, <1>11, <2>2 DEF Kinds
    <3>2. \A i \in DOMAIN events' : events'[i].of = "exit" => i \in DOMAIN events /\ events'[i] = events[i]
      BY <1>3, <1>6, <2>2
    <3> QED
      BY <1>1, <3>1, <3>2 DEF IInv, OneExit
  <2> QED
    BY <2>1, <2>2
<1>14. Closed'
  BY <1>1, <1>8 DEF Closed
<1>15. Debt'
  <2>1. HasLeft' => HasLeft
    <3>1. ASSUME workers'["exit"].at = "report", workers'["exit"].ok PROVE HasLeft
      <4>1. "exit" \in Kinds /\ k # "exit"
        BY <1>4, <3>1, IdleShape DEF Kinds
      <4> QED
        BY <1>7, <3>1, <4>1 DEF HasLeft
    <3>2. ASSUME NEW i \in DOMAIN events', events'[i].of = "exit", events'[i].ok PROVE HasLeft
      BY <1>1, <1>3, <1>6, <3>2 DEF HasLeft
    <3> QED
      BY <3>1, <3>2 DEF HasLeft
  <2>2. ASSUME NEW j \in Kinds, Owes(j) PROVE Owes(j)'
    <3>1. CASE \E i \in DOMAIN events : events[i].of = j /\ ~events[i].ok
      BY <1>6, <3>1 DEF Owes
    <3>2. CASE Runs(j) /\ ~(workers[j].at = "report" /\ workers[j].ok) /\ j = k
      BY <1>1, <1>3, <1>6, <3>2 DEF Owes
    <3>3. CASE Runs(j) /\ ~(workers[j].at = "report" /\ workers[j].ok) /\ j # k
      BY <1>7, <3>3 DEF Owes, Runs
    <3> QED
      BY <2>2, <3>1, <3>2, <3>3 DEF Owes
  <2>3. Accounted => Accounted'
    BY <1>1, <2>2 DEF Accounted, Owing, Kinds
  <2>4. \A j \in Writers : Shallow(j) => Shallow(j)'
    BY <1>4, <1>7 DEF Writers, Kinds, Shallow
  <2>5. workers'["disable"].at \in {"unbind", "stop"} => workers["disable"].at \in {"unbind", "stop"}
    BY <1>4, <1>7, IdleShape DEF Kinds
  <2>6. (Dead' <=> Dead) /\ (Excused' <=> Excused)
    BY <1>1 DEF Dead, Excused
  <2> QED
    BY <1>1, <2>1, <2>3, <2>4, <2>5, <2>6 DEF IInv, Debt
<1>16. Committed'
  <2>1. (Settled' <=> Settled) /\ (Excused' <=> Excused) /\ blame'.lost = blame.lost /\ disk' = disk
    BY <1>1 DEF Settled, Excused
  <2>2. \A j \in Writers : Goes(j) => Goes(j)'
    <3>1. ~Goes(k)
      BY <1>1 DEF Goes, Deploying
    <3> QED
      BY <1>7, <3>1 DEF Goes, Writers, Kinds
  <2>3. \A j \in Writers : Faithful(j) => Faithful(j)'
    <3>1. k \in Writers => Faithful(k)'
      BY <1>4, IdleShape DEF Faithful, Deploying
    <3>2. \A j \in Writers : j # k => (Faithful(j) => Faithful(j)')
      BY <1>7, <2>1 DEF Faithful, Writers, Kinds
    <3> QED
      BY <3>1, <3>2
  <2> QED
    BY <2>1, <2>2, <2>3 DEF IInv, Committed, Writers
<1> QED
  BY <1>9, <1>10, <1>12, <1>13, <1>14, <1>15, <1>16 DEF IInv

\* Where nothing runs, nothing holds a lock, waits or writes.
LEMMA AllQuiet ==
  ASSUME DOMAIN workers' = Kinds, \A k \in Kinds : workers'[k] = Idle
  PROVE  /\ Locked' /\ \A k \in Kinds : WorkerTyped(k)' /\ ~Runs(k)' /\ Shallow(k)' /\ ~Goes(k)' /\ Faithful(k)'
         /\ events' = <<>> => OneWriter' /\ Closed' /\ ~HasLeft' /\ \A k : ~Sent(k)'
<1>1. \A k \in Kinds : Holds(k)'
  BY IdleShape DEF Holds
<1>2. ~RollsBackUnlocked'
  BY IdleShape DEF RollsBackUnlocked, Kinds
<1>3. \A k \in Kinds : WorkerTyped(k)'
  BY IdleTyped
<1>4. \A k \in Kinds : ~Runs(k)' /\ Shallow(k)' /\ ~Goes(k)' /\ Faithful(k)'
  BY IdleShape DEF Runs, Shallow, Goes, Faithful, Deploying
<1>5. ASSUME events' = <<>> PROVE OneWriter' /\ Closed' /\ ~HasLeft' /\ \A k : ~Sent(k)'
  <2>1. \A i \in DOMAIN events' : FALSE
    BY <1>5
  <2>2. workers'["exit"].at = "idle"
    BY IdleShape DEF Kinds
  <2> QED
    BY <1>4, <1>5, <2>1, <2>2 DEF OneWriter, Closed, HasLeft, Sent, Writers, Kinds
<1> QED
  BY <1>1, <1>2, <1>3, <1>4, <1>5 DEF Locked, Unlocked

LEMMA KillKeeps == ASSUME IInv, Kill PROVE IInv'
<1>1. /\ gui' = [gui EXCEPT !.open = FALSE] /\ events' = <<>>
      /\ workers' = [k \in Kinds |-> Idle] /\ lock' = "free" /\ life' = "free"
      /\ blame' = [blame EXCEPT !.cut = TRUE]
      /\ UNCHANGED <<disk, cancel, ops>>
  BY DEF Kill
<1>2. /\ WindowTyped(gui) /\ DOMAIN blame = BlameFields
      /\ {blame.died, blame.intruded, blame.cut, blame.lost} \subseteq BOOLEAN
  BY DEF IInv, Typed
<1>3. DOMAIN workers' = Kinds /\ \A k \in Kinds : workers'[k] = Idle
  BY <1>1
<1>4. /\ Locked' /\ OneWriter' /\ Closed' /\ (\A k : ~Sent(k)')
      /\ \A k \in Kinds : WorkerTyped(k)' /\ ~Runs(k)'
  BY <1>1, <1>3, AllQuiet
<1>5. WindowTyped(gui)' /\ ~gui'.open
  BY <1>1, <1>2 DEF WindowTyped, GuiFields
<1>6. /\ DOMAIN blame' = BlameFields /\ blame'.cut
      /\ {blame'.died, blame'.intruded, blame'.cut, blame'.lost} \subseteq BOOLEAN
  BY <1>1, <1>2 DEF BlameFields
<1>7. EventsTyped'
  BY <1>1 DEF EventsTyped
<1>8. Typed'
  BY <1>1, <1>3, <1>4, <1>5, <1>6, <1>7, SameDisk DEF IInv, Typed
<1>9. OneExit'
  BY <1>1, <1>4, <1>5 DEF OneExit, Kinds, Sent
<1>10. Debt' /\ Committed'
  BY <1>6 DEF Debt, Committed, Excused
<1> QED
  BY <1>4, <1>8, <1>9, <1>10 DEF IInv

LEMMA StartedShape ==
  ASSUME NEW mode, NEW configured
  PROVE  LET g == Started(mode, configured) IN
         /\ DOMAIN g = GuiFields /\ g.open /\ ~g.applying /\ ~g.exiting /\ ~g.told
         /\ {g.open, g.applying, g.exiting, g.told} \subseteq BOOLEAN
BY DEF Started, GuiFields

LEMMA LaunchKeeps == ASSUME IInv, Launch PROVE IInv'
<1>1. /\ ~gui.open /\ ops < MaxOps /\ ops' = ops + 1 /\ cancel' = [apply |-> FALSE, recover |-> FALSE]
      /\ events' = <<>> /\ blame' = [blame EXCEPT !.discarded = FALSE]
      /\ UNCHANGED <<disk, lock, life, faults>>
  BY DEF Launch
<1>2. /\ \A k \in Kinds : ~Runs(k) /\ workers[k] = Idle
      /\ DOMAIN workers = Kinds /\ ~Accounted
  BY <1>1, WriterShapes DEF IInv, Closed, Accounted, Typed
<1>3. /\ \A k \in Kinds : k # "recover" => workers'[k] = Idle
      /\ DOMAIN workers' = Kinds
      /\ workers'["recover"] \in {Idle, [Idle EXCEPT !.at = "services"]}
  BY <1>2 DEF Launch, Spawn, Kinds
<1>4. /\ WindowTyped(gui)' /\ gui'.open /\ ~gui'.applying /\ ~gui'.exiting
  <2>1. PICK mode, configured, recovering :
          gui' = [Started(mode, configured) EXCEPT !.recovering = recovering]
    <3>1. PICK wish \in BOOLEAN :
            LET mode == ~disk.official /\ (wish \/ disk.route = "router")
                serve == mode /\ disk.conf # 0 IN
            gui' = [Started(mode, disk.conf # 0) EXCEPT !.recovering = serve]
      BY DEF Launch
    <3>2. PICK mode : mode = (~disk.official /\ (wish \/ disk.route = "router"))
      OBVIOUS
    <3>3. PICK configured : configured = (disk.conf # 0)
      OBVIOUS
    <3>4. PICK recovering : recovering = (mode /\ disk.conf # 0)
      OBVIOUS
    <3>5. gui' = [Started(mode, configured) EXCEPT !.recovering = recovering]
      BY <3>1, <3>2, <3>3, <3>4, Zenon
    <3> QED
      BY <3>5
  <2>2. PICK g : g = Started(mode, configured)
    OBVIOUS
  <2>3. /\ DOMAIN g = GuiFields /\ g.open /\ ~g.applying /\ ~g.exiting /\ ~g.told
        /\ {g.open, g.applying, g.exiting, g.told} \subseteq BOOLEAN
    BY <2>2, StartedShape
  <2>4. gui' = [g EXCEPT !.recovering = recovering]
    BY <2>1, <2>2
  <2> QED
    BY <2>3, <2>4 DEF WindowTyped, GuiFields
<1>5. PICK y : y = [Idle EXCEPT !.at = "services"]
  OBVIOUS
<1>6. /\ DOMAIN y = WorkerFields /\ y.at = "services" /\ y.conf = 0 /\ y.back = NoPoint
      /\ y.to = NoPoint /\ y.undo = FALSE /\ y.ok = FALSE
  BY <1>5, IdleAt
<1>7. ASSUME NEW k \in Kinds
      PROVE  WorkerTyped(k)' /\ Holds(k)' /\ (k \in Writers => ~Runs(k)' /\ Faithful(k)')
  <2>1. CASE workers'[k] = Idle
    BY <2>1, IdleTyped, IdleShape DEF Holds, Runs, Faithful, Deploying
  <2>2. CASE k = "recover" /\ workers'[k] = y
    <3>1. y.at \in PlacesOf(k) \cap {"lock", "services", "mirror"} /\ k \notin Writers
      BY <1>6, <2>2 DEF PlacesOf, Writers
    <3>2. 0 \in 0 .. MaxOps
      BY DesktopAssumption
    <3>3. WorkerTyped(k)'
      BY <1>6, <2>2, <3>1, <3>2, NoPointBacked, FreshTyped
    <3>4. Holds(k)'
      BY <1>6, <2>2 DEF Holds
    <3> QED
      BY <3>1, <3>3, <3>4
  <2> QED
    BY <1>3, <1>5, <2>1, <2>2
<1>8. workers'["exit"] = Idle /\ workers'["apply"] = Idle /\ workers'["disable"] = Idle
  BY <1>3 DEF Kinds
<1>9. \A i \in DOMAIN events' : FALSE
  BY <1>1
<1>10. Typed'
  <2>1. EventsTyped'
    BY <1>1 DEF EventsTyped
  <2>2. ops' \in 0 .. MaxOps
    BY <1>1, DesktopAssumption DEF IInv, Typed
  <2>3. DOMAIN cancel' = {"apply", "recover"} /\ cancel'.apply \in BOOLEAN
    BY <1>1
  <2>4. /\ DOMAIN blame' = BlameFields
        /\ {blame'.died, blame'.intruded, blame'.cut, blame'.lost} \subseteq BOOLEAN
    BY <1>1 DEF IInv, Typed, BlameFields
  <2>5. {lock', life'} \subseteq Kinds \cup {"free"}
    BY <1>1 DEF IInv, Typed
  <2> QED
    BY <1>1, <1>3, <1>4, <1>7, <2>1, <2>2, <2>3, <2>4, <2>5, SameDisk DEF Typed
<1>11. Locked'
  <2>1. ~RollsBackUnlocked'
    BY <1>8, IdleShape DEF RollsBackUnlocked
  <2> QED
    BY <1>7, <2>1 DEF Locked, Unlocked
<1>12. OneWriter'
  BY <1>7, <1>9 DEF OneWriter, Sent, Writers, Kinds
<1>13. OneExit'
  BY <1>4, <1>8, <1>9, IdleShape DEF OneExit, Sent, Runs
<1>14. Closed'
  BY <1>4 DEF Closed
<1>15. /\ blame'.died = blame.died /\ blame'.cut = blame.cut /\ blame'.intruded = blame.intruded
       /\ blame'.lost = blame.lost
  BY <1>1 DEF IInv, Typed, BlameFields
<1>16. Debt'
  <2>1. ~HasLeft'
    BY <1>8, <1>9, IdleShape DEF HasLeft
  <2>2. workers'["disable"].at \notin {"unbind", "stop"}
    BY <1>8, IdleShape
  <2>3. (Excused' <=> Excused) /\ (Dead' <=> Dead)
    BY <1>1, <1>15 DEF Excused, Dead
  <2> QED
    BY <1>2, <1>15, <2>1, <2>2, <2>3 DEF IInv, Debt
<1>17. Committed'
  <2>1. ~Goes("apply") /\ ~Goes("previous")
    BY <1>2, IdleShape DEF Goes, Kinds, Deploying
  <2>2. (Excused' <=> Excused) /\ (Settled' <=> Settled)
    BY <1>1, <1>15 DEF Excused, Settled
  <2>3. \A j \in Writers : Faithful(j)'
    BY <1>7 DEF Writers, Kinds
  <2> QED
    BY <1>15, <2>1, <2>2, <2>3 DEF IInv, Committed
<1> QED
  BY <1>10, <1>11, <1>12, <1>13, <1>14, <1>16, <1>17 DEF IInv

LEMMA InitHolds == Init => IInv
<1> SUFFICES ASSUME Init PROVE IInv
  OBVIOUS
<1>1. /\ disk = [ route |-> "official", system |-> FALSE, conf |-> 0, deployed |-> 0,
                  point |-> NoPoint, up |-> FALSE, official |-> FALSE ]
      /\ gui = Started(FALSE, FALSE) /\ workers = [k \in Kinds |-> Idle]
      /\ lock = "free" /\ life = "free" /\ cancel = [apply |-> FALSE, recover |-> FALSE]
      /\ events = <<>> /\ ops = 0
      /\ blame = [died |-> FALSE, intruded |-> FALSE, discarded |-> FALSE, cut |-> FALSE,
                  lost |-> FALSE]
  BY DEF Init
<1>2. \A k \in Kinds : workers[k] = Idle
  BY <1>1
<1>3. DiskTyped
  <2>1. 0 \in 0 .. MaxOps
    BY DesktopAssumption
  <2>2. disk.point = NoPoint /\ disk.route = "official"
    BY <1>1
  <2>3. Backed(disk.point)
    BY <2>2, IdleShape
  <2> QED
    BY <1>1, <2>1, <2>3 DEF DiskTyped, DiskFields, Routes
<1>4. ASSUME NEW k \in Kinds PROVE WorkerTyped(k) /\ ~Runs(k) /\ Holds(k) /\ Faithful(k)
  <2>1. workers[k] = Idle
    BY <1>2
  <2>2. 0 \in 0 .. MaxOps
    BY DesktopAssumption
  <2>3. "idle" \in PlacesOf(k)
    BY DEF PlacesOf, Kinds
  <2> QED
    BY <2>1, <2>2, <2>3, IdleShape DEF WorkerTyped, Runs, Holds, Faithful, Deploying
<1>5. WindowTyped(gui) /\ gui.open /\ ~gui.exiting
  BY <1>1, StartedShape DEF WindowTyped
<1>6. Typed
  <2>1. ops \in 0 .. MaxOps /\ EventsTyped
    BY <1>1, DesktopAssumption DEF EventsTyped
  <2>2. /\ DOMAIN workers = Kinds /\ DOMAIN cancel = {"apply", "recover"} /\ cancel.apply \in BOOLEAN
        /\ DOMAIN blame = BlameFields
        /\ {blame.died, blame.intruded, blame.cut, blame.lost} \subseteq BOOLEAN
    BY <1>1 DEF BlameFields
  <2> QED
    BY <1>1, <1>3, <1>4, <1>5, <2>1, <2>2 DEF Typed
<1>7. Locked
  <2>1. ~RollsBackUnlocked
    BY <1>2, IdleShape DEF RollsBackUnlocked, Kinds
  <2> QED
    BY <1>4, <2>1 DEF Locked, Unlocked
<1>8. \A i \in DOMAIN events : FALSE
  BY <1>1
<1>9. OneWriter /\ OneExit /\ Closed
  BY <1>4, <1>5, <1>8 DEF OneWriter, OneExit, Closed, Sent, Writers, Kinds
<1>10. Debt
  <2>1. disk.route = "official" /\ workers["exit"] = Idle /\ workers["disable"] = Idle
    BY <1>1, <1>2 DEF Kinds
  <2>2. ~HasLeft
    BY <1>8, <2>1, IdleShape DEF HasLeft
  <2> QED
    BY <2>1, <2>2, IdleShape DEF Debt, Dead
<1>11. Committed
  <2>1. Settled
    BY <1>1 DEF Settled
  <2> QED
    BY <1>4, <2>1 DEF Committed, Writers, Kinds
<1> QED
  BY <1>6, <1>7, <1>9, <1>10, <1>11 DEF IInv

-----------------------------------------------------------------------------
(* The window after some of its events. *)

\* A set of numbers that is not empty has a least one.
LEMMA LeastNumber ==
  ASSUME NEW S \in SUBSET Nat, S # {}
  PROVE  \E m \in S : \A n \in S : ~(n < m)
<1>1. PICK R : R = {p \in Nat \X Nat : p[1] < p[2]}
  OBVIOUS
<1>2. IsWellFoundedOn(R, Nat)
  BY <1>1, NatLessThanWellFounded DEF OpToRel
<1>3. PICK m \in S : \A n \in S : ~(<<n, m>> \in R)
  BY <1>2, WFMin
<1>4. \A n \in S : ~(n < m)
  BY <1>1, <1>3
<1> QED
  BY <1>4

Turned(g, e) == IF Heard(e) THEN HandleEvent(g, e) ELSE g
TurnsTo(f, n) == f = [m \in 0 .. n |-> IF m = 0 THEN gui ELSE Turned(f[m - 1], events[m])]

LEMMA SomethingTurns ==
  ASSUME NEW n \in Nat
  PROVE  \E f : TurnsTo(f, n)
<1> DEFINE S == {i \in Nat : ~ \E f : TurnsTo(f, i)}
<1> SUFFICES S = {}
  OBVIOUS
<1>1. SUFFICES ASSUME S # {} PROVE FALSE
  OBVIOUS
<1>2. PICK m \in S : \A i \in S : ~(i < m)
  <2>1. S \in SUBSET Nat
    OBVIOUS
  <2> HIDE DEF S
  <2> QED
    BY <1>1, <2>1, LeastNumber
<1>3. m \in Nat /\ ~ \E f : TurnsTo(f, m)
  BY <1>2
<1>4. CASE m = 0
  <2>1. PICK f : f = [i \in 0 .. 0 |-> gui]
    OBVIOUS
  <2>2. f = [i \in 0 .. 0 |-> IF i = 0 THEN gui ELSE Turned(f[i - 1], events[i])]
    BY <2>1
  <2> QED
    BY <1>3, <1>4, <2>2 DEF TurnsTo
<1>5. CASE m # 0
  <2>1. m - 1 \in Nat /\ m - 1 < m
    BY <1>3, <1>5
  <2>2. PICK f : TurnsTo(f, m - 1)
    BY <1>2, <2>1
  <2>3. PICK g : g = [i \in 0 .. m |-> IF i = m THEN Turned(f[m - 1], events[m]) ELSE f[i]]
    OBVIOUS
  <2>4. \A i \in 0 .. m - 1 : g[i] = f[i]
    BY <1>3, <2>1, <2>3
  <2>5. \A i \in 0 .. m - 1 : f[i] = IF i = 0 THEN gui ELSE Turned(f[i - 1], events[i])
    BY <2>2 DEF TurnsTo
  <2>6. ASSUME NEW i \in 0 .. m
        PROVE  g[i] = IF i = 0 THEN gui ELSE Turned(g[i - 1], events[i])
    <3>1. CASE i = m
      <4>1. g[m - 1] = f[m - 1] /\ g[m] = Turned(f[m - 1], events[m])
        BY <1>3, <2>1, <2>3, <2>4
      <4> QED
        BY <1>5, <3>1, <4>1
    <3>2. CASE i # m
      <4>1. i \in 0 .. m - 1 /\ (i # 0 => i - 1 \in 0 .. m - 1)
        BY <1>3, <3>2
      <4>2. g[i] = f[i] /\ (i # 0 => g[i - 1] = f[i - 1])
        BY <2>4, <4>1
      <4> QED
        BY <2>5, <4>1, <4>2
    <3> QED
      BY <3>1, <3>2
  <2>7. g = [i \in 0 .. m |-> IF i = 0 THEN gui ELSE Turned(g[i - 1], events[i])]
    <3>1. PICK h : h = [i \in 0 .. m |-> IF i = 0 THEN gui ELSE Turned(g[i - 1], events[i])]
      OBVIOUS
    <3>2. \A i \in 0 .. m : h[i] = g[i]
      BY <2>6, <3>1
    <3>3. g = h
      BY <2>3, <3>1, <3>2
    <3> QED
      BY <3>1, <3>3
  <2> QED
    BY <1>3, <2>7 DEF TurnsTo
<1> QED
  BY <1>4, <1>5

LEMMA AfterUnfolds ==
  ASSUME Len(events) \in Nat
  PROVE  /\ After[0] = gui
         /\ \A n \in 1 .. Len(events) : After[n] = Turned(After[n - 1], events[n])
<1>1. PICK f : TurnsTo(f, Len(events))
  BY SomethingTurns
<1>2. After = CHOOSE g : TurnsTo(g, Len(events))
  BY DEF After, TurnsTo, Turned
<1>3. TurnsTo(After, Len(events))
  BY <1>1, <1>2
<1> QED
  BY <1>3 DEF TurnsTo

LEMMA UndoneShape ==
  ASSUME NEW g, WindowTyped(g), NEW h, h = Undone(g)
  PROVE  /\ WindowTyped(h) /\ h.open = g.open /\ h.applying = g.applying
         /\ h.exiting = g.exiting /\ h.told = g.told
<1>1. CASE g.undo.set
  <2>1. PICK mode : mode = g.undo.mode
    OBVIOUS
  <2>2. PICK configured : configured = g.undo.configured
    OBVIOUS
  <2>3. h = [g EXCEPT !.mode = mode, !.configured = configured, !.undo = NoUndo]
    BY <1>1, <2>1, <2>2 DEF Undone
  <2> QED
    BY <2>3 DEF WindowTyped, GuiFields
<1>2. CASE ~g.undo.set
  BY <1>2 DEF Undone
<1> QED
  BY <1>1, <1>2

LEMMA ApplyEventShape ==
  ASSUME NEW g, WindowTyped(g), NEW ok \in BOOLEAN, NEW h, h = ApplyEvent(g, ok)
  PROVE  /\ WindowTyped(h) /\ h.open = g.open /\ h.exiting = g.exiting
         /\ g.told => h.told
         /\ ~ok /\ g.applying => h.told
<1>1. PICK ended : ended = [g EXCEPT !.applying = FALSE, !.acting = FALSE]
  OBVIOUS
<1>2. /\ WindowTyped(ended) /\ ended.open = g.open /\ ended.exiting = g.exiting
      /\ ended.told = g.told
  BY <1>1 DEF WindowTyped, GuiFields
<1>3. CASE ok
  <2>1. h = [ended EXCEPT !.prompt = FALSE, !.configured = TRUE, !.mode = TRUE,
                          !.switching = FALSE, !.undo = NoUndo]
    BY <1>1, <1>3 DEF ApplyEvent
  <2> QED
    BY <1>2, <1>3, <2>1 DEF WindowTyped, GuiFields
<1>4. CASE ~ok /\ ~g.applying /\ g.configured /\ g.mode
  <2>1. h = ended
    BY <1>1, <1>4 DEF ApplyEvent
  <2> QED
    BY <1>2, <1>4, <2>1
<1>5. CASE ~ok /\ ~(~g.applying /\ g.configured /\ g.mode)
  <2>1. PICK u : u = Undone(ended)
    OBVIOUS
  <2>2. /\ WindowTyped(u) /\ u.open = g.open /\ u.exiting = g.exiting
    BY <1>2, <2>1, UndoneShape
  <2>3. PICK back : back = [u EXCEPT !.switching = FALSE, !.told = TRUE]
    OBVIOUS
  <2>4. /\ WindowTyped(back) /\ back.open = g.open /\ back.exiting = g.exiting /\ back.told
    BY <2>2, <2>3 DEF WindowTyped, GuiFields
  <2>5. \E mode : h = back \/ h = [back EXCEPT !.mode = mode]
    <3>1. h = IF ~g.undo.set THEN [back EXCEPT !.mode = Active]
              ELSE IF g.switching THEN [back EXCEPT !.mode = disk.route = "router"] ELSE back
      BY <1>1, <1>5, <2>1, <2>3 DEF ApplyEvent
    <3> QED
      BY <3>1
  <2> QED
    BY <2>4, <2>5 DEF WindowTyped, GuiFields
<1> QED
  BY <1>3, <1>4, <1>5

\* What the handling of one event does to the flags that the invariant reads.
TurnSays(g, e, h) ==
  /\ WindowTyped(h)
  /\ g.told => h.told
  /\ ~e.ok /\ e.of \in {"previous", "disable", "exit"} => h.told
  /\ ~e.ok /\ e.of = "apply" /\ g.applying => h.told
  /\ e.of \notin Writers => h.applying = g.applying
  /\ e.of # "exit" => h.exiting = g.exiting
  /\ e.of = "exit" => ~h.exiting
  /\ g.open /\ ~(e.of = "exit" /\ e.ok) => h.open

LEMMA HandleEventShape ==
  ASSUME NEW g, WindowTyped(g), NEW e \in Event, NEW h, h = HandleEvent(g, e)
  PROVE  TurnSays(g, e, h)
<1>1. e.of \in {"apply", "previous", "disable", "factory", "recover", "exit"} /\ e.ok \in BOOLEAN
  BY DEF Event, Kinds
<1>2. PICK u : u = Undone(g)
  OBVIOUS
<1>3. /\ WindowTyped(u) /\ u.open = g.open /\ u.applying = g.applying
      /\ u.exiting = g.exiting /\ u.told = g.told
  BY <1>2, UndoneShape
<1>4. PICK active : active = Active
  OBVIOUS
<1>5. CASE e.of = "apply"
  <2>1. h = ApplyEvent(g, e.ok)
    BY <1>5 DEF HandleEvent
  <2>2. /\ WindowTyped(h) /\ h.open = g.open /\ h.exiting = g.exiting
        /\ g.told => h.told
        /\ ~e.ok /\ g.applying => h.told
    BY <1>1, <2>1, ApplyEventShape
  <2> QED
    BY <1>5, <2>2 DEF TurnSays, Writers
<1>6. CASE e.of = "previous"
  <2>1. h = IF e.ok THEN [g EXCEPT !.applying = FALSE, !.undo = NoUndo, !.mode = active,
                                   !.configured = TRUE]
            ELSE [u EXCEPT !.applying = FALSE, !.told = TRUE]
    BY <1>2, <1>4, <1>6 DEF HandleEvent
  <2>2. /\ WindowTyped(h) /\ h.open = g.open /\ h.exiting = g.exiting /\ (g.told => h.told)
        /\ ~e.ok => h.told
    <3>1. CASE e.ok
      BY <2>1, <3>1 DEF WindowTyped, GuiFields
    <3>2. CASE ~e.ok
      BY <1>3, <2>1, <3>2 DEF WindowTyped, GuiFields
    <3> QED
      BY <3>1, <3>2
  <2> QED
    BY <1>6, <2>2 DEF TurnSays, Writers
<1>7. CASE e.of = "disable"
  <2>1. h = IF e.ok THEN [g EXCEPT !.switching = FALSE, !.mode = FALSE]
            ELSE [g EXCEPT !.switching = FALSE, !.mode = active, !.told = TRUE]
    BY <1>4, <1>7 DEF HandleEvent
  <2>2. /\ WindowTyped(h) /\ h.open = g.open /\ h.exiting = g.exiting /\ (g.told => h.told)
        /\ h.applying = g.applying /\ (~e.ok => h.told)
    <3>1. CASE e.ok
      BY <2>1, <3>1 DEF WindowTyped, GuiFields
    <3>2. CASE ~e.ok
      BY <2>1, <3>2 DEF WindowTyped, GuiFields
    <3> QED
      BY <3>1, <3>2
  <2> QED
    BY <1>7, <2>2 DEF TurnSays
<1>8. CASE e.of = "factory"
  <2>1. h = IF e.ok THEN [g EXCEPT !.acting = FALSE, !.prompt = FALSE, !.mode = FALSE]
            ELSE [g EXCEPT !.acting = FALSE, !.told = TRUE]
    BY <1>8 DEF HandleEvent
  <2>2. /\ WindowTyped(h) /\ h.open = g.open /\ h.exiting = g.exiting /\ (g.told => h.told)
        /\ h.applying = g.applying
    <3>1. CASE e.ok
      BY <2>1, <3>1 DEF WindowTyped, GuiFields
    <3>2. CASE ~e.ok
      BY <2>1, <3>2 DEF WindowTyped, GuiFields
    <3> QED
      BY <3>1, <3>2
  <2> QED
    BY <1>8, <2>2 DEF TurnSays
<1>9. CASE e.of = "recover"
  <2>1. h = [g EXCEPT !.recovering = FALSE, !.failing = FALSE]
    BY <1>9 DEF HandleEvent
  <2>2. /\ WindowTyped(h) /\ h.open = g.open /\ h.exiting = g.exiting /\ h.told = g.told
        /\ h.applying = g.applying
    BY <2>1 DEF WindowTyped, GuiFields
  <2> QED
    BY <1>9, <2>2 DEF TurnSays
<1>10. CASE e.of = "exit"
  <2>1. h = [g EXCEPT !.exiting = FALSE, !.open = ~e.ok, !.told = g.told \/ ~e.ok, !.mode = g.mode /\ ~e.ok]
    BY <1>10 DEF HandleEvent
  <2>2. PICK open \in BOOLEAN : open <=> ~e.ok
    OBVIOUS
  <2>3. PICK told \in BOOLEAN : told <=> (g.told \/ ~e.ok)
    OBVIOUS
  <2>4. PICK mode : mode = (g.mode /\ ~e.ok)
    OBVIOUS
  <2>5. (~e.ok) = open /\ (g.told \/ ~e.ok) = told
    BY <2>2, <2>3
  <2>6. h = [g EXCEPT !.exiting = FALSE, !.open = open, !.told = told, !.mode = mode]
    BY <2>1, <2>4, <2>5
  <2>7. /\ WindowTyped(h) /\ ~h.exiting /\ h.open = open /\ h.told = told /\ h.applying = g.applying
    BY <2>2, <2>3, <2>6 DEF WindowTyped, GuiFields
  <2> QED
    BY <1>10, <2>2, <2>3, <2>7 DEF TurnSays
<1> QED
  BY <1>1, <1>5, <1>6, <1>7, <1>8, <1>9, <1>10

\* What the window has become of when the first n events have been handled.
Handled(n) ==
  LET g == After[n] IN
  /\ WindowTyped(g)
  /\ gui.told => g.told
  /\ \A i \in 1 .. n : Heard(events[i]) /\ ~events[i].ok /\ events[i].of \in Owing => g.told
  /\ (\A i \in 1 .. n : events[i].of \notin Writers) => g.applying = gui.applying
  /\ (\A i \in 1 .. n : events[i].of # "exit") => g.exiting = gui.exiting
  /\ (\E i \in 1 .. n : events[i].of = "exit") => ~g.exiting
  /\ ~g.open => \E i \in 1 .. n : events[i].of = "exit" /\ events[i].ok

LEMMA HandlesOne ==
  ASSUME IInv, gui.open, NEW n \in 1 .. Len(events), Len(events) \in Nat, Handled(n - 1)
  PROVE  Handled(n)
<1>1. PICK e : e = events[n]
  OBVIOUS
<1>2. PICK g : g = After[n - 1]
  OBVIOUS
<1>3. PICK h : h = After[n]
  OBVIOUS
<1>4. h = Turned(g, e)
  BY <1>1, <1>2, <1>3, AfterUnfolds
<1>5. e \in Event /\ n \in DOMAIN events /\ \A i \in 1 .. n - 1 : i \in DOMAIN events /\ i # n
  BY <1>1 DEF IInv, Typed, EventsTyped
<1>6. \A i \in 1 .. n : i \in 1 .. n - 1 \/ i = n
  OBVIOUS
<1>7. WindowTyped(g) /\ (gui.told => g.told)
  BY <1>2 DEF Handled
<1>8. CASE ~Heard(e)
  <2>1. h = g /\ e.of # "exit"
    BY <1>4, <1>8 DEF Turned, Heard
  <2> QED
    BY <1>1, <1>2, <1>3, <1>6, <1>8, <2>1 DEF Handled
<1>9. CASE Heard(e)
  <2>1. TurnSays(g, e, h)
    BY <1>4, <1>5, <1>7, <1>9, HandleEventShape DEF Turned
  <2>2. WindowTyped(h) /\ (gui.told => h.told)
    BY <1>7, <2>1 DEF TurnSays
  <2>3. ASSUME NEW i \in 1 .. n, Heard(events[i]), ~events[i].ok, events[i].of \in Owing
        PROVE  h.told
    <3>1. CASE i \in 1 .. n - 1
      BY <1>2, <2>1, <2>3, <3>1 DEF Handled, TurnSays
    <3>2. CASE i = n /\ e.of # "apply"
      BY <1>1, <2>1, <2>3, <3>2 DEF TurnSays, Owing
    <3>3. CASE i = n /\ e.of = "apply"
      <4>1. gui.applying
        BY <1>1, <1>5, <3>3 DEF IInv, OneWriter, Sent, Writers
      <4>2. \A j \in 1 .. n - 1 : events[j].of \notin Writers
        BY <1>1, <1>5, <3>3 DEF IInv, OneWriter, Writers
      <4>3. g.applying
        BY <1>2, <4>1, <4>2 DEF Handled
      <4> QED
        BY <1>1, <2>1, <2>3, <3>3, <4>3 DEF TurnSays
    <3> QED
      BY <1>6, <3>1, <3>2, <3>3
  <2>4. ASSUME \A i \in 1 .. n : events[i].of \notin Writers
        PROVE  h.applying = gui.applying
    <3>1. g.applying = gui.applying
      BY <1>2, <2>4 DEF Handled
    <3> QED
      BY <1>1, <2>1, <2>4, <3>1 DEF TurnSays
  <2>5. ASSUME \A i \in 1 .. n : events[i].of # "exit"
        PROVE  h.exiting = gui.exiting
    <3>1. g.exiting = gui.exiting
      BY <1>2, <2>5 DEF Handled
    <3> QED
      BY <1>1, <2>1, <2>5, <3>1 DEF TurnSays
  <2>6. ASSUME NEW i \in 1 .. n, events[i].of = "exit"
        PROVE  ~h.exiting
    <3>1. CASE e.of = "exit"
      BY <2>1, <3>1 DEF TurnSays
    <3>2. CASE e.of # "exit"
      <4>1. i \in 1 .. n - 1
        BY <1>1, <1>6, <2>6, <3>2
      <4>2. ~g.exiting
        BY <1>2, <2>6, <4>1 DEF Handled
      <4> QED
        BY <2>1, <3>2, <4>2 DEF TurnSays
    <3> QED
      BY <3>1, <3>2
  <2>7. ASSUME ~h.open
        PROVE  \E i \in 1 .. n : events[i].of = "exit" /\ events[i].ok
    <3>1. CASE e.of = "exit" /\ e.ok
      BY <1>1, <3>1
    <3>2. CASE ~(e.of = "exit" /\ e.ok)
      <4>1. ~g.open
        BY <2>1, <2>7, <3>2 DEF TurnSays
      <4>2. \E i \in 1 .. n - 1 : events[i].of = "exit" /\ events[i].ok
        BY <1>2, <4>1 DEF Handled
      <4> QED
        BY <4>2
    <3> QED
      BY <3>1, <3>2
  <2> QED
    BY <1>3, <2>2, <2>3, <2>4, <2>5, <2>6, <2>7 DEF Handled
<1> QED
  BY <1>8, <1>9

LEMMA HandlesAll ==
  ASSUME IInv, gui.open
  PROVE  Len(events) \in Nat /\ DOMAIN events = 1 .. Len(events) /\ Handled(Len(events))
<1>1. Len(events) \in Nat /\ DOMAIN events = 1 .. Len(events)
  BY DEF IInv, Typed, EventsTyped
<1> DEFINE S == {n \in 0 .. Len(events) : ~Handled(n)}
<1>2. SUFFICES S = {}
  BY <1>1
<1>3. SUFFICES ASSUME S # {} PROVE FALSE
  OBVIOUS
<1>4. PICK m \in S : \A i \in S : ~(i < m)
  <2>1. S \in SUBSET Nat
    BY <1>1
  <2> HIDE DEF S
  <2> QED
    BY <1>3, <2>1, LeastNumber
<1>5. m \in 0 .. Len(events) /\ ~Handled(m)
  BY <1>4
<1>6. CASE m = 0
  <2>1. After[0] = gui
    BY <1>1, AfterUnfolds
  <2>2. WindowTyped(gui)
    BY DEF IInv, Typed
  <2>3. Handled(0)
    BY <2>1, <2>2 DEF Handled
  <2> QED
    BY <1>5, <1>6, <2>3
<1>7. CASE m # 0
  <2>1. m \in 1 .. Len(events) /\ m - 1 \in 0 .. Len(events) /\ m - 1 < m
    BY <1>1, <1>5, <1>7
  <2>2. Handled(m - 1)
    BY <1>4, <2>1
  <2> QED
    BY <1>1, <1>5, <2>1, <2>2, HandlesOne
<1> QED
  BY <1>6, <1>7

LEMMA ProcessAppEventsKeeps == ASSUME IInv, ProcessAppEvents PROVE IInv'
<1>1. PICK g : g = After[Len(events)]
  OBVIOUS
<1>2. /\ gui.open /\ events' = <<>> /\ gui' = g
      /\ IF g.open THEN UNCHANGED <<workers, lock, life>>
         ELSE workers' = [k \in Kinds |-> Idle] /\ lock' = "free" /\ life' = "free"
      /\ UNCHANGED <<cancel, ops, faults>>
  BY <1>1 DEF ProcessAppEvents
<1>3. /\ DOMAIN events = 1 .. Len(events) /\ WindowTyped(g)
      /\ gui.told => g.told
      /\ \A i \in DOMAIN events :
           Heard(events[i]) /\ ~events[i].ok /\ events[i].of \in Owing => g.told
      /\ (\A i \in DOMAIN events : events[i].of \notin Writers) => g.applying = gui.applying
      /\ (\A i \in DOMAIN events : events[i].of # "exit") => g.exiting = gui.exiting
      /\ (\E i \in DOMAIN events : events[i].of = "exit") => ~g.exiting
      /\ ~g.open => \E i \in DOMAIN events : events[i].of = "exit" /\ events[i].ok
  BY <1>1, <1>2, HandlesAll DEF Handled
<1>4. /\ DOMAIN disk = DiskFields /\ DOMAIN blame = BlameFields
      /\ {blame.died, blame.intruded, blame.cut, blame.lost} \subseteq BOOLEAN
  BY DEF IInv, Typed, DiskTyped
<1>5. /\ DOMAIN disk' = DiskFields /\ disk'.route = disk.route /\ disk'.system = disk.system
      /\ disk'.up = disk.up /\ disk'.conf = disk.conf /\ disk'.deployed = disk.deployed
      /\ disk'.point = disk.point
  <2>1. PICK official : disk' = [disk EXCEPT !.official = official]
    BY DEF ProcessAppEvents
  <2> QED
    BY <1>4, <2>1 DEF DiskFields
<1>6. /\ DOMAIN blame' = BlameFields /\ blame'.died = blame.died /\ blame'.cut = blame.cut
      /\ blame'.intruded = blame.intruded /\ blame'.lost = blame.lost
  <2>1. PICK discarded : blame' = [blame EXCEPT !.discarded = discarded]
    BY DEF ProcessAppEvents
  <2> QED
    BY <1>4, <2>1 DEF BlameFields
<1>7. DiskTyped' /\ Kept
  <2>1. disk.up \in BOOLEAN
    BY DEF IInv, Typed, DiskTyped
  <2> QED
    BY <1>5, <2>1, GivenBack
<1>8. EventsTyped' /\ WindowTyped(gui)' /\ \A i \in DOMAIN events' : FALSE
  BY <1>2, <1>3 DEF EventsTyped
<1>9. (Excused' <=> Excused) /\ (Dead' <=> Dead) /\ (Settled' <=> Settled)
  BY <1>5, <1>6 DEF Excused, Dead, Settled
<1>10. CASE g.open
  <2>1. workers' = workers /\ lock' = lock /\ life' = life /\ gui'.open /\ gui' = g
    BY <1>2, <1>10
  <2>2. Typed'
    <3>1. ASSUME NEW j \in Kinds PROVE WorkerTyped(j)'
      BY <1>7, <2>1 DEF IInv, Typed, WorkerTyped, Backed, Kept
    <3> QED
      BY <1>2, <1>4, <1>6, <1>7, <1>8, <2>1, <3>1 DEF IInv, Typed
  <2>3. Locked'
    BY <1>5, <1>6, <2>1 DEF IInv, Locked, Holds, Unlocked, RollsBackUnlocked
  <2>4. OneWriter'
    <3>1. ASSUME NEW k \in Writers, Runs(k) PROVE g.applying
      <4>1. gui.applying /\ ~Sent("apply") /\ ~Sent("previous")
        BY <3>1 DEF IInv, OneWriter
      <4>2. \A i \in DOMAIN events : events[i].of \notin Writers
        BY <4>1 DEF Sent, Writers
      <4> QED
        BY <1>3, <4>1, <4>2
    <3>2. \A k : ~Sent(k)'
      BY <1>8 DEF Sent
    <3> QED
      BY <1>8, <2>1, <3>1, <3>2 DEF IInv, OneWriter, Runs
  <2>5. g.exiting => gui.exiting /\ ~Sent("exit")
    BY <1>3 DEF Sent
  <2>6. OneExit'
    <3>1. Runs("exit") => g.exiting
      BY <1>3 DEF IInv, OneExit, Sent
    <3>2. ~Sent("exit")'
      BY <1>8 DEF Sent
    <3>3. g.exiting => cancel.apply /\ Runs("exit")
      BY <1>2, <2>5 DEF IInv, OneExit
    <3> QED
      BY <1>2, <1>8, <2>1, <3>1, <3>2, <3>3 DEF OneExit, Runs
  <2>7. Closed'
    BY <2>1 DEF Closed
  <2>8. Debt'
    <3> SUFFICES ASSUME ~Excused' PROVE
          /\ workers'["disable"].at \in {"unbind", "stop"} => disk'.route = "official"
          /\ HasLeft' => disk'.route = "official" /\ \A j \in Writers : Shallow(j)'
          /\ Dead' => blame'.died \/ Accounted'
      BY DEF Debt
    <3>1. /\ workers["disable"].at \in {"unbind", "stop"} => disk.route = "official"
          /\ HasLeft => disk.route = "official" /\ \A j \in Writers : Shallow(j)
          /\ Dead => blame.died \/ Accounted
      BY <1>9 DEF IInv, Debt
    <3>2. HasLeft' => HasLeft
      BY <1>8, <2>1 DEF HasLeft
    <3>3. \A j \in Writers : Shallow(j) => Shallow(j)'
      BY <2>1 DEF Shallow
    <3>4. ASSUME Dead', ~blame'.died PROVE Accounted'
      <4>1. Dead /\ ~blame.died /\ Accounted /\ ~HasLeft
        BY <1>6, <1>9, <3>1, <3>4 DEF Dead
      <4>2. CASE gui.told
        BY <1>3, <2>1, <4>2 DEF Accounted
      <4>3. ASSUME NEW k \in Owing, Owes(k) PROVE g.told \/ \E j \in Owing : Owes(j)'
        <5>1. CASE Runs(k) /\ ~(workers[k].at = "report" /\ workers[k].ok)
          <6>1. Owes(k)'
            BY <2>1, <5>1 DEF Owes, Runs
          <6> QED
            BY <6>1
        <5>2. ASSUME NEW i \in DOMAIN events, events[i].of = k, ~events[i].ok
              PROVE  g.told \/ \E j \in Owing : Owes(j)'
          <6>1. CASE Heard(events[i])
            BY <1>3, <5>2, <6>1
          <6>2. CASE ~Heard(events[i])
            <7>1. gui.exiting
              BY <6>2 DEF Heard
            <7>2. Runs("exit") \/ Sent("exit")
              BY <1>2, <7>1 DEF IInv, OneExit
            <7>3. CASE Runs("exit")
              <8>1. ~(workers["exit"].at = "report" /\ workers["exit"].ok)
                BY <4>1 DEF HasLeft
              <8>2. Owes("exit")' /\ "exit" \in Owing
                BY <2>1, <7>3, <8>1 DEF Owes, Runs, Owing
              <8> QED
                BY <8>2
            <7>4. CASE Sent("exit")
              <8>1. PICK j \in DOMAIN events : events[j].of = "exit"
                BY <7>4 DEF Sent
              <8>2. ~events[j].ok
                BY <4>1, <8>1 DEF HasLeft
              <8>3. Heard(events[j]) /\ "exit" \in Owing
                BY <8>1 DEF Heard, Owing
              <8> QED
                BY <1>3, <8>1, <8>2, <8>3
            <7> QED
              BY <7>2, <7>3, <7>4
          <6> QED
            BY <6>1, <6>2
        <5> QED
          BY <4>3, <5>1, <5>2 DEF Owes
      <4>4. CASE \E k \in Owing : Owes(k)
        BY <2>1, <4>3, <4>4 DEF Accounted
      <4> QED
        BY <4>1, <4>2, <4>4 DEF Accounted
    <3> QED
      BY <1>5, <2>1, <3>1, <3>2, <3>3, <3>4
  <2>9. Committed'
    <3>1. \A j \in Writers : (Faithful(j)' <=> Faithful(j)) /\ (Goes(j)' <=> Goes(j))
      BY <1>5, <1>9, <2>1 DEF Faithful, Goes
    <3> QED
      BY <1>6, <1>9, <3>1 DEF IInv, Committed, Writers
  <2> QED
    BY <2>2, <2>3, <2>4, <2>6, <2>7, <2>8, <2>9 DEF IInv
<1>11. CASE ~g.open
  <2>1. /\ workers' = [k \in Kinds |-> Idle] /\ lock' = "free" /\ life' = "free"
        /\ ~gui'.open /\ gui' = g
    BY <1>2, <1>11
  <2>2. DOMAIN workers' = Kinds /\ \A k \in Kinds : workers'[k] = Idle
    BY <2>1
  <2>3. /\ Locked' /\ OneWriter' /\ Closed' /\ ~HasLeft' /\ (\A k : ~Sent(k)')
        /\ \A k \in Kinds : WorkerTyped(k)' /\ ~Runs(k)' /\ Faithful(k)'
    BY <1>2, <2>2, AllQuiet
  <2>4. HasLeft
    BY <1>3, <1>11 DEF HasLeft
  <2>5. Typed'
    BY <1>2, <1>4, <1>6, <1>7, <1>8, <2>1, <2>2, <2>3 DEF IInv, Typed
  <2>6. OneExit'
    BY <1>8, <2>1, <2>3 DEF OneExit, Kinds
  <2>7. Debt'
    <3>1. workers'["disable"].at \notin {"unbind", "stop"}
      BY <2>2, IdleShape DEF Kinds
    <3>2. ~Excused' => ~Dead'
      BY <1>9, <2>4 DEF IInv, Debt, Dead
    <3> QED
      BY <2>3, <3>1, <3>2 DEF Debt
  <2>8. Committed'
    <3> SUFFICES ASSUME ~Excused', ~blame'.lost
                 PROVE  /\ Settled' \/ Goes("apply")' \/ Goes("previous")'
                        /\ \A j \in Writers : Faithful(j)'
      BY DEF Committed
    <3>1. \A k \in Writers : Shallow(k) /\ k \in Kinds
      BY <1>9, <2>4 DEF IInv, Debt, Writers, Kinds
    <3>2. ASSUME NEW k \in Writers PROVE ~Goes(k)
      BY <3>1, Worker DEF WorkerTyped, Shallow, Goes, Deploying
    <3>3. Settled
      BY <1>6, <1>9, <3>2 DEF IInv, Committed, Writers
    <3> QED
      BY <1>9, <2>3, <3>1, <3>3
  <2> QED
    BY <2>3, <2>5, <2>6, <2>7, <2>8 DEF IInv
<1> QED
  BY <1>10, <1>11

-----------------------------------------------------------------------------
(* The theorems. *)

LEMMA StutterKeeps == ASSUME IInv, UNCHANGED vars PROVE IInv'
<1>1. /\ gui' = gui /\ disk' = disk /\ blame' = blame /\ ops' = ops
      /\ UNCHANGED <<workers, lock, life, cancel, events>>
  BY DEF vars
<1>2. WindowTyped(gui)' /\ ops' \in 0 .. MaxOps
  BY <1>1 DEF IInv, Typed
<1> QED
  BY <1>1, <1>2, SameDisk, SameBlame, PlainStep

LEMMA WorkersKeep == ASSUME IInv, NEW k \in Kinds, Work(k) PROVE IInv'
<1>1. CASE TakeConfigLock(k)
  BY <1>1, TakeConfigLockKeeps, WorkKeeps
<1>2. CASE Capture(k)
  BY <1>2, CaptureKeeps, WorkKeeps
<1>3. CASE RestorePoint(k)
  BY <1>3, RestorePointKeeps, WorkKeeps
<1>4. CASE WriteFiles(k)
  BY <1>4, WriteFilesKeeps, WorkKeeps
<1>5. CASE TakeLifecycleLock(k)
  BY <1>5, TakeLifecycleLockKeeps, WorkKeeps
<1>6. CASE EnsureServices(k)
  BY <1>6, EnsureServicesKeeps, WorkKeeps
<1>7. CASE SyncAndBind(k)
  BY <1>7, SyncAndBindKeeps, WorkKeeps
<1>8. CASE RestoreCodex(k)
  BY <1>8, RestoreCodexKeeps, WorkKeeps
<1>9. CASE RemoveSystemBinding(k)
  BY <1>9, RemoveSystemBindingKeeps, WorkKeeps
<1>10. CASE StopServices(k)
  BY <1>10, StopServicesKeeps, WorkKeeps
<1>11. CASE Report(k)
  BY <1>11, ReportKeeps
<1> QED
  BY <1>1, <1>2, <1>3, <1>4, <1>5, <1>6, <1>7, <1>8, <1>9, <1>10, <1>11 DEF Work

LEMMA StepKeeps == IInv /\ [Next]_vars => IInv'
<1> SUFFICES ASSUME IInv, [Next]_vars PROVE IInv'
  OBVIOUS
<1>1. CASE Apply
  BY <1>1, ApplyKeeps
<1>2. CASE SwitchProfile
  BY <1>2, SwitchProfileKeeps
<1>3. CASE RestorePrevious
  BY <1>3, RestorePreviousKeeps
<1>4. CASE RestoreOriginal
  BY <1>4, RestoreOriginalKeeps
<1>5. CASE DisableRouterMode
  BY <1>5, DisableRouterModeKeeps
<1>6. CASE KeepCurrent
  BY <1>6, KeepCurrentKeeps
<1>7. CASE RestoreFactory
  BY <1>7, RestoreFactoryKeeps
<1>8. CASE RequestExit
  BY <1>8, RequestExitKeeps
<1>9. CASE ProbeHealth \/ ObserveBinding
  BY <1>9, ObservationKeeps
<1>10. CASE StartRecovery
  BY <1>10, StartRecoveryKeeps
<1>11. CASE \E k \in Kinds : Work(k)
  BY <1>11, WorkersKeep
<1>12. CASE LeaveCodex
  <2>1. "exit" \in Kinds
    BY DEF Kinds
  <2> QED
    BY <1>12, <2>1, LeaveCodexKeeps, WorkKeeps
<1>13. CASE MirrorBinding
  BY <1>13, MirrorBindingKeeps
<1>14. CASE ProcessAppEvents
  BY <1>14, ProcessAppEventsKeeps
<1>15. CASE Launch
  BY <1>15, LaunchKeeps
<1>16. CASE Kill
  BY <1>16, KillKeeps
<1>17. CASE ServicesDie
  BY <1>17, ServicesDieKeeps
<1>18. CASE Overwrite
  BY <1>18, OverwriteKeeps
<1>19. CASE UNCHANGED vars
  BY <1>19, StutterKeeps
<1> QED
  BY <1>1, <1>2, <1>3, <1>4, <1>5, <1>6, <1>7, <1>8, <1>9, <1>10, <1>11, <1>12, <1>13, <1>14,
     <1>15, <1>16, <1>17, <1>18, <1>19 DEF Next

\* The inductive invariant holds in every state: the threads of windows_main.rs exclude each
\* other by config-apply.lock and service-lifecycle.lock, and whoever leaves a debt still runs.
THEOREM DesktopInvariant == Spec => []IInv
<1>1. Init => IInv
  BY InitHolds
<1>2. IInv /\ [Next]_vars => IInv'
  BY StepKeeps
<1> QED
  BY <1>1, <1>2, PTL DEF Spec

\* Types: a thread and the configurations it carries stay what they are, and a lock is free or
\* owned by one of the kinds of threads.
THEOREM DesktopTypes == Spec => []TypeOK
<1>1. IInv => TypeOK
  BY DEF IInv, Typed, DiskTyped, WorkerTyped, TypeOK, Routes
<1> QED
  BY <1>1, DesktopInvariant, PTL

\* When every operation of the window has ended and was told (process_app_events), Codex's user
\* layer is not bound to services that are down without the user having been told of a failure,
\* whatever number of applies, restores, switches and exits came in whatever order.
THEOREM NoDeadGatewayAlways == Spec => []NoDeadGateway
<1>1. IInv => NoDeadGateway
  <2> SUFFICES ASSUME IInv, Quiet, disk.route = "router", ~disk.up,
                      ~(blame.died \/ blame.cut \/ blame.intruded)
               PROVE  gui.told
    BY DEF NoDeadGateway
  <2>1. Accounted
    BY DEF IInv, Debt, Dead, Excused
  <2>2. \A k \in Kinds : ~Runs(k)
    BY IdleShape DEF Quiet, Runs
  <2>3. \A i \in DOMAIN events : FALSE
    BY DEF Quiet
  <2>4. \A k \in Owing : ~Owes(k)
    BY <2>2, <2>3 DEF Owes, Owing, Kinds
  <2> QED
    BY <2>1, <2>4 DEF Accounted
<1> QED
  BY <1>1, DesktopInvariant, PTL

\* When every operation has ended, the configuration that write_all_files committed is the one
\* that sync_router_state deployed last: a failed apply, previous or profile switch has gone
\* back to it (restore_point_config).
THEOREM CommittedIsDeployedAlways == Spec => []CommittedIsDeployed
<1>1. IInv => CommittedIsDeployed
  <2> SUFFICES ASSUME IInv, Quiet, ~blame.lost, ~blame.cut, ~blame.intruded
               PROVE  Settled
    BY DEF CommittedIsDeployed, Settled
  <2>1. ~Goes("apply") /\ ~Goes("previous")
    BY IdleShape DEF Quiet, Goes, Kinds, Deploying
  <2> QED
    BY <2>1 DEF IInv, Committed, Excused
<1> QED
  BY <1>1, DesktopInvariant, PTL
==============================================================================
