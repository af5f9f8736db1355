------------------------------ MODULE ImageBatch ------------------------------
(***************************************************************************)
(* One image batch of the Router Host (batches share nothing): its rows in *)
(* SQLite, its output files, the worker that generates the items one after *)
(* another, and clients that cancel it, clear its outputs or remove it     *)
(* while the worker is at work.  A call of the store is one step, since    *)
(* the Host has one connection behind a mutex; nothing covers two calls.   *)
(***************************************************************************)
EXTENDS Naturals, Sequences, Functions

CONSTANTS
  Items,        \* custom ids
  Submissions,  \* the lists of custom ids that clients submit, none of them empty
  Clients       \* bound: requests about the batch at the same time

VARIABLES
  batch,      \* status of the row in image_batches
  items,      \* status of the rows in image_batch_items
  refs,       \* items with an output_ref
  files,      \* items with an output file
  ledger,     \* items with a row in the request ledger
  worker,     \* run_image_batch: where it is, the items left, its verdict
  client,     \* requests between their first and their last call of the store
  crashed,    \* the Host has died; nothing takes the batch up again
  overlapped  \* observation: outputs were deleted while the worker was at work

vars == <<batch, items, refs, files, ledger, worker, client, crashed, overlapped>>

Final == {"completed", "failed", "cancelled"}

Exists == batch \notin {"none", "deleted"}

Rows == {i \in Items : items[i] # "none"}

\* Among the types: the rows of the items live and die with that of the batch.
TypeOK ==
  /\ batch \in {"none", "queued", "running", "deleted"} \cup Final
  /\ items \in [Items -> {"none", "queued", "running"} \cup Final]
  /\ Exists <=> Rows # {}
  /\ refs \subseteq Rows /\ files \subseteq Items /\ ledger \subseteq Items
  /\ worker \in
       [ pc : {"none", "start", "check", "mark", "send", "store", "record",
               "finish", "done"},
         todo : Seq(Items), verdict : Final ]
  /\ client \in
       [ Clients -> [ pc : {"idle", "cancelled", "settle", "clear", "remove"},
                      verdict : Final ] ]
  /\ crashed \in BOOLEAN /\ overlapped \in BOOLEAN

-----------------------------------------------------------------------------
Idle == [pc |-> "idle", verdict |-> "completed"]

NoWorker == [pc |-> "none", todo |-> <<>>, verdict |-> "completed"]

Working == worker.pc \notin {"none", "done"}

Init ==
  /\ batch = "none"
  /\ items = [i \in Items |-> "none"]
  /\ refs = {} /\ files = {} /\ ledger = {}
  /\ worker = NoWorker
  /\ client = [c \in Clients |-> Idle]
  /\ crashed = FALSE
  /\ overlapped = FALSE

\* image_batch_create inserts without a transaction: when an id comes twice the
\* rows before it stay, the client gets an error, and no worker is started.
Submit ==
  /\ batch = "none" /\ ~crashed
  /\ \E ids \in Submissions :
       LET inserted == {ids[n] : n \in {m \in DOMAIN ids :
                                          IsInjective(SubSeq(ids, 1, m))}}
       IN  /\ batch' = "queued"
           /\ items' = [i \in Items |-> IF i \in inserted THEN "queued" ELSE "none"]
           /\ worker' = IF IsInjective(ids)
                        THEN [NoWorker EXCEPT !.pc = "start", !.todo = ids]
                        ELSE worker
  /\ UNCHANGED <<refs, files, ledger, client, crashed, overlapped>>

-----------------------------------------------------------------------------
\* run_image_batch.
Item == Head(worker.todo)

At(step) == worker.pc = step

GoTo(step) == worker' = [worker EXCEPT !.pc = step]

NextItem == worker' = [worker EXCEPT !.pc = "check", !.todo = Tail(@)]

\* image_batch_item_update, which finds no row once the batch is removed.
UpdateItem(status) ==
  items' = IF items[Item] = "none" THEN items ELSE [items EXCEPT ![Item] = status]

\* image_batch_finish: whatever the status was.
Settled(status) == IF Exists THEN status ELSE batch

Start ==
  /\ At("start")
  /\ batch' = IF batch = "queued" THEN "running" ELSE batch
  /\ GoTo("check")
  /\ UNCHANGED <<items, refs, files, ledger, client, crashed, overlapped>>

\* A slip for the sensitivity check: an item that is not queued ends the work.
CheckOrLeave ==
  /\ At("check") /\ worker.todo # <<>>
  /\ GoTo(IF items[Item] = "queued" THEN "mark" ELSE "done")
  /\ UNCHANGED <<batch, items, refs, files, ledger, client, crashed, overlapped>>

Check ==
  /\ At("check") /\ worker.todo # <<>>
  /\ IF items[Item] = "queued" THEN GoTo("mark") ELSE NextItem
  /\ UNCHANGED <<batch, items, refs, files, ledger, client, crashed, overlapped>>

Mark ==
  /\ At("mark")
  /\ UpdateItem("running")
  /\ GoTo("send")
  /\ UNCHANGED <<batch, refs, files, ledger, client, crashed, overlapped>>

\* The backend cannot be reached, or answers with an error; or the output cannot
\* be stored (what a write that failed leaves behind is left out).
ItemFails ==
  /\ At("send")
  /\ UpdateItem("failed")
  /\ GoTo("record")
  /\ UNCHANGED <<batch, refs, files, ledger, client, crashed, overlapped>>

StoreOutput ==
  /\ At("send")
  /\ files' = files \cup {Item}
  /\ GoTo("store")
  /\ UNCHANGED <<batch, items, refs, ledger, client, crashed, overlapped>>

\* A slip for the sensitivity check: the output_ref is left out.
CompleteWithoutRef ==
  /\ At("store")
  /\ UpdateItem("completed")
  /\ GoTo("record")
  /\ UNCHANGED <<batch, refs, files, ledger, client, crashed, overlapped>>

ItemCompletes ==
  /\ At("store")
  /\ UpdateItem("completed")
  /\ refs' = refs \cup ({Item} \cap Rows)
  /\ GoTo("record")
  /\ UNCHANGED <<batch, files, ledger, client, crashed, overlapped>>

\* A slip for the sensitivity check: only a completed item is recorded.
RecordCompleted ==
  /\ At("record")
  /\ ledger' = IF items[Item] = "completed" THEN ledger \cup {Item} ELSE ledger
  /\ NextItem
  /\ UNCHANGED <<batch, items, refs, files, client, crashed, overlapped>>

Record ==
  /\ At("record")
  /\ ledger' = ledger \cup {Item}
  /\ NextItem
  /\ UNCHANGED <<batch, items, refs, files, client, crashed, overlapped>>

All(status) == Rows # {} /\ \A i \in Rows : items[i] = status

\* A slip for the sensitivity check: one failure is enough.
VerdictOfAny ==
  IF \E i \in Rows : items[i] = "failed" THEN "failed"
  ELSE IF All("cancelled") THEN "cancelled" ELSE "completed"

WorkerVerdict ==
  IF All("cancelled") THEN "cancelled"
  ELSE IF All("failed") THEN "failed" ELSE "completed"

Decide ==
  /\ At("check") /\ worker.todo = <<>>
  /\ worker' = [worker EXCEPT !.pc = "finish", !.verdict = WorkerVerdict]
  /\ UNCHANGED <<batch, items, refs, files, ledger, client, crashed, overlapped>>

Finish ==
  /\ At("finish")
  /\ batch' = Settled(worker.verdict)
  /\ GoTo("done")
  /\ UNCHANGED <<items, refs, files, ledger, client, crashed, overlapped>>

-----------------------------------------------------------------------------
\* image_batch_cancel, in three steps; it sets the final status itself when it
\* finds nothing queued or running.
Cancel(c) ==
  /\ client[c].pc = "idle" /\ Exists
  /\ items' = [i \in Items |-> IF items[i] = "queued" THEN "cancelled" ELSE items[i]]
  /\ client' = [client EXCEPT ![c].pc = "cancelled"]
  /\ UNCHANGED <<batch, refs, files, ledger, worker, crashed, overlapped>>

CancelVerdict ==
  IF \E i \in Rows : items[i] = "completed" THEN "completed" ELSE "cancelled"

CancelDecide(c) ==
  /\ client[c].pc = "cancelled"
  /\ client' = [client EXCEPT ![c] =
       IF Exists /\ \A i \in Rows : items[i] \notin {"queued", "running"}
       THEN [pc |-> "settle", verdict |-> CancelVerdict] ELSE Idle]
  /\ UNCHANGED <<batch, items, refs, files, ledger, worker, crashed, overlapped>>

CancelSettle(c) ==
  /\ client[c].pc = "settle"
  /\ batch' = Settled(client[c].verdict)
  /\ client' = [client EXCEPT ![c] = Idle]
  /\ UNCHANGED <<items, refs, files, ledger, worker, crashed, overlapped>>

\* image_batch_outputs_clear and image_batch_remove begin alike: the files that
\* the rows refer to are deleted.
DeleteFiles(c) ==
  /\ client[c].pc = "idle" /\ Exists
  /\ files' = files \ refs
  /\ \E step \in {"clear", "remove"} : client' = [client EXCEPT ![c].pc = step]
  /\ overlapped' = (overlapped \/ Working)
  /\ UNCHANGED <<batch, items, refs, ledger, worker, crashed>>

ClearRefs(c) ==
  /\ client[c].pc = "clear"
  /\ refs' = {}
  /\ client' = [client EXCEPT ![c] = Idle]
  /\ UNCHANGED <<batch, items, files, ledger, worker, crashed, overlapped>>

\* The items go with the batch (ON DELETE CASCADE).
Remove(c) ==
  /\ client[c].pc = "remove"
  /\ batch' = "deleted"
  /\ items' = [i \in Items |-> "none"]
  /\ refs' = {}
  /\ client' = [client EXCEPT ![c] = Idle]
  /\ UNCHANGED <<files, ledger, worker, crashed, overlapped>>

-----------------------------------------------------------------------------
\* The Host dies; the rows stay as they are when it comes back.
Crash ==
  /\ ~crashed
  /\ crashed' = TRUE
  /\ worker' = NoWorker
  /\ client' = [c \in Clients |-> Idle]
  /\ UNCHANGED <<batch, items, refs, files, ledger, overlapped>>

WorkerStep ==
  \/ Start \/ Check \/ Mark \/ ItemFails \/ StoreOutput \/ ItemCompletes
  \/ Record \/ Decide \/ Finish

ClientStep(c) ==
  \/ Cancel(c) \/ CancelDecide(c) \/ CancelSettle(c)
  \/ DeleteFiles(c) \/ ClearRefs(c) \/ Remove(c)

Next == Submit \/ WorkerStep \/ (\E c \in Clients : ClientStep(c)) \/ Crash

Spec == Init /\ [][Next]_vars

\* The runtime polls the worker, and the backend answers or the connection drops.
FairSpec == Spec /\ WF_vars(WorkerStep)

-----------------------------------------------------------------------------
\* Every output file is referred to by its item, and every output_ref names a
\* file, unless the Host died or outputs were deleted under the worker.
OutputsAreOwned ==
  ~crashed /\ ~overlapped =>
    /\ files \subseteq refs \cup (IF At("store") THEN {Item} ELSE {})
    /\ (\A c \in Clients : client[c].pc \notin {"clear", "remove"}) =>
         refs \subseteq files

\* An item that was generated or has failed is in the ledger, whatever was
\* cancelled, cleared or removed meanwhile; and a batch says "failed" only if all of
\* its items have failed: none was generated or cancelled, not even between the
\* worker's last look and its last word.
WorkIsRecorded ==
  /\ \A i \in Items :
       items[i] \in {"completed", "failed"} =>
         i \in ledger \/ crashed \/ (At("record") /\ i = Item)
  /\ batch = "failed" => \A i \in Rows : items[i] = "failed"

\* A batch that has a worker gets a final status or is removed, unless the Host
\* dies.
EveryBatchSettles ==
  Working ~> (batch \in Final \cup {"deleted"} \/ crashed)

\* "When nothing is left running the worker will not finalize the batch, so the
\* cancel call itself settles the terminal state": the worker does not change
\* the status that a cancel has set.
CancelSettles ==
  [][(WorkerStep /\ batch = "cancelled") => batch' = "cancelled"]_vars
==============================================================================
