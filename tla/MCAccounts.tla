----------------------------- MODULE MCAccounts -----------------------------
(***************************************************************************)
(* The accounts of the Host, on small instances: what is published of them  *)
(* (Recovery), how a login becomes one of them (Logins), and how the desktop*)
(* takes one out of the rotation and back (Quota).  A behaviour is of one   *)
(* of the three.                                                            *)
(***************************************************************************)
EXTENDS Recovery, Sequences, TLC

CONSTANTS a1, t1, t2, x, y, s1, s2,
          Identities, Variants, Slots, MaxSignIns, MaxDeletes, MaxFaults, Nobody,
          MaxWindows, MaxTroubles

\* Nobody, and who asks for a deletion or dies, are none of those.
ASSUME LoginsAssumption == Nobody \notin Identities /\ {"admin", "host"} \cap Slots = {}

VARIABLES part,
          platform, listed, files, logins, deletes, clock, deleted, faults, known, excused,
          kind, upstream, readable, row, routed, config, obs, thread, pending, troubles, adrift

L == INSTANCE Logins WITH rows <- listed
Q == INSTANCE Quota WITH task <- thread

LVars == <<platform, listed, files, logins, deletes, clock, deleted, faults, known, excused>>
QVars == <<kind, upstream, readable, row, routed, config, obs, thread, pending, troubles, adrift>>

\* The parts that do not run stay in one of their initial states.
StillR ==
  /\ rows = [a \in Accounts |-> Absent("key")] /\ cooling = {} /\ table = {} /\ cli = {}
  /\ task = [t \in Tasks |-> Idle] /\ failures = 0 /\ settled = Documents
StillL == L!Init /\ platform = "cli"
StillQ == Q!Init /\ kind = [a \in Accounts |-> "probed"]

MCInit == \/ part = "published" /\ Init /\ StillL /\ StillQ
          \/ part = "logins" /\ L!Init /\ StillR /\ StillQ
          \/ part = "quota" /\ Q!Init /\ StillR /\ StillL

MCNext == /\ UNCHANGED part
          /\ \/ part = "published" /\ Next /\ UNCHANGED <<LVars, QVars>>
             \/ part = "logins" /\ L!Next /\ UNCHANGED <<vars, QVars>>
             \/ part = "quota" /\ Q!Next /\ UNCHANGED <<vars, LVars>>

MCSpec == MCInit /\ [][MCNext]_<<part, vars, LVars, QVars>>

DeletedStaysDeleted == L!DeletedStaysDeleted
AccountsHaveTheirFiles == L!AccountsHaveTheirFiles
RoutingFollows == Q!RoutingFollows

\* Identities and slots are alike, and no property here is a liveness one.
Alike == Permutations(Identities) \cup Permutations(Slots)
=============================================================================
