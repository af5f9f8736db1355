---------------------------- MODULE MCBackground ----------------------------
(***************************************************************************)
(* The work that goes on in the background of the Host, on small instances: *)
(* scheduled probes of accounts (Scheduler: two plans of one account, two   *)
(* Hosts) and batches of images (ImageBatch: one to three items, and a      *)
(* submission that names an item twice).  A behaviour is of one of the two. *)
(***************************************************************************)
EXTENDS Scheduler

CONSTANTS h1, h2, Items, Submissions, Clients, c1, c2

ASSUME SubmissionsAssumption == Submissions \subseteq Seq(Items) \ {<<>>}

VARIABLES part,
          batch, items, refs, files, ledger, worker, client, crashed, overlapped

OneAccount == [p \in Plans |-> 0]
Lists == {<<1>>, <<1, 2>>, <<1, 2, 3>>, <<1, 2, 1>>}

B == INSTANCE ImageBatch

BVars == <<batch, items, refs, files, ledger, worker, client, crashed, overlapped>>

\* The part that does not run stays in its initial state.
MCInit == part \in {"plans", "images"} /\ Init /\ B!Init

MCNext == /\ UNCHANGED part
          /\ \/ part = "plans" /\ Next /\ UNCHANGED BVars
             \/ part = "images" /\ B!Next /\ UNCHANGED vars

\* Of each part, what its FairSpec says.
MCFairSpec ==
  /\ MCInit /\ [][MCNext]_<<part, vars, BVars>>
  /\ \A h \in Hosts : WF_vars(part = "plans" /\ HostStep(h))
  /\ WF_BVars(part = "images" /\ B!WorkerStep)

OutputsAreOwned == B!OutputsAreOwned
WorkIsRecorded == B!WorkIsRecorded
EveryBatchSettles == B!EveryBatchSettles
=============================================================================
