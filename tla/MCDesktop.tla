------------------------------ MODULE MCDesktop ------------------------------
(***************************************************************************)
(* The threads of the desktop program, on small instances: those that own   *)
(* Codex's configuration and the services (Desktop), and those that watch   *)
(* the quota of OAuth accounts (Quota).  A behaviour is of one of the two.  *)
(***************************************************************************)
EXTENDS Desktop

CONSTANTS Accounts, a1, MaxWindows, MaxTroubles

VARIABLES part,
          kind, upstream, readable, row, routed, config, obs, task, pending, troubles, adrift

Q == INSTANCE Quota

QVars == <<kind, upstream, readable, row, routed, config, obs, task, pending, troubles, adrift>>

\* The part that does not run stays in one of its initial states.
MCInit == \/ part = "owners" /\ Init /\ Q!Init /\ kind = [a \in Accounts |-> "probed"]
          \/ part = "quota" /\ Init /\ Q!Init

MCNext == /\ UNCHANGED part
          /\ \/ part = "owners" /\ Next /\ UNCHANGED QVars
             \/ part = "quota" /\ Q!Next /\ UNCHANGED vars

\* Of each part, what its FairSpec says.
MCFairSpec ==
  /\ MCInit /\ [][MCNext]_<<part, vars, QVars>>
  /\ \A k \in Kinds : WF_vars(part = "owners" /\ Work(k))
  /\ WF_vars(part = "owners" /\ LeaveCodex)
  /\ WF_vars(part = "owners" /\ MirrorBinding)
  /\ WF_vars(part = "owners" /\ ProcessAppEvents)
  /\ \A w \in Q!Threads : WF_QVars(part = "quota" /\ Q!Goes(w))
  /\ \A a \in Accounts : SF_QVars(part = "quota" /\ Q!Wait(a))

ResetAccountsReturn == Q!ResetAccountsReturn
=============================================================================
