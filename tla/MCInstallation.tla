---------------------------- MODULE MCInstallation ----------------------------
(***************************************************************************)
(* What the program changes on the user's machine, on small instances: its  *)
(* own version, by the updater or by the cutover, Codex's files, and the    *)
(* processes of the Router.  A behaviour is of one of the four.             *)
(***************************************************************************)
EXTENDS Updater
CONSTANTS Sources, MaxEdits, MaxOps, MaxRoots,
          Portables, Roots, Ports, MaxHosts, MaxStarts, MaxHarm
VARIABLES procedure,
          journal, at, source, snapshot, old, new,
          file, system, auth, issued, bak, root, off, edits, ops, roots,
          data, hosts, config, pidFile, lock, gateway, aliens, run, lost, starts, harm
C == INSTANCE Cutover
F == INSTANCE CodexConfig
S == INSTANCE Services

MCWorkers == 1 .. 2
cutover == <<journal, at, source, snapshot, old, new>>
files == <<file, system, auth, issued, bak, root, off, edits, ops, roots>>
processes == <<data, hosts, config, pidFile, lock, gateway, aliens, run, lost, starts, harm>>

\* The files stay in one of their initial states while another part runs.
StillFiles ==
    /\ file = F!Empty /\ system = "none" /\ auth = F!NoAuth /\ issued = 1 /\ bak = F!NoSnapshot
    /\ root = F!FreshRoot /\ off = FALSE /\ edits = 0 /\ ops = 0 /\ roots = 0

MCInit == /\ procedure \in {"update", "cutover", "files", "processes"}
          /\ Init /\ C!Init /\ S!Init
          /\ procedure # "processes" => \A c \in Portables : data[c] = 1
          /\ IF procedure = "files" THEN F!Init ELSE StillFiles
MCNext ==
    /\ UNCHANGED procedure
    /\ \/ procedure = "update" /\ Next /\ UNCHANGED <<cutover, files, processes>>
       \/ procedure = "cutover" /\ C!Next /\ UNCHANGED <<vars, files, processes>>
       \/ procedure = "files" /\ F!Next /\ UNCHANGED <<vars, cutover, processes>>
       \/ procedure = "processes" /\ S!Next /\ UNCHANGED <<vars, cutover, files>>
MCSpec == MCInit /\ [][MCNext]_<<vars, cutover, files, processes, procedure>>

HostsAreKnown == S!HostsAreKnown
CutoverIsReversible == C!CutoverIsReversible
OffIsOff == F!OffIsOff
CodexKeepsWorking == F!CodexKeepsWorking
LoginSurvives == F!LoginSurvives
=============================================================================
