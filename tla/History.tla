------------------------------ MODULE History ------------------------------
(***************************************************************************)
(* What the gateway makes of the conversation before it sends it upstream: *)
(* sanitize_responses_request in logic/responses_compat.rs, and the        *)
(* aggressive form that a retry uses.                                      *)
(*                                                                         *)
(* Codex sends the whole conversation with every request.  Providers       *)
(* other than OpenAI refuse it when a tool call has no result, a result    *)
(* has no call, or an id occurs twice; so the history is repaired, and     *)
(* folded when it is too long.  An item is [kind, id, sig, real]: id 0 is  *)
(* a missing id, ids from 1 on are the compatibility ids call_compat_<n>,  *)
(* larger ones are the provider's; sig stands for name and arguments, real *)
(* is FALSE of what the gateway itself wrote.                              *)
(***************************************************************************)
EXTENDS Integers, Sequences, SequencesExt, FiniteSetsExt

CONSTANTS
  Families,  \* "openai", "gemini", "other": how the model is treated
  Ids,       \* the ids that calls and results carry
  Sigs,      \* the signatures of calls
  MaxItems,  \* the longest conversation
  MinKeep,   \* COMPACT_MIN_KEEP_ITEMS
  KeepLast,  \* LOCAL_COMPACT_KEEP_LAST
  AggressiveKeep, \* AGGRESSIVE_COMPACT_KEEP_LAST
  KeepChars  \* RECENT_KEEP_CHARS

VARIABLES
  family,    \* of the model of the request
  history,   \* the conversation, as Codex has it
  request,   \* "none", "turn", "compact" or "retry": what was made of it last
  sent       \* the items that go upstream

vars == <<family, history, request, sent>>

Item(kind, id, sig, real) == [kind |-> kind, id |-> id, sig |-> sig, real |-> real]
Note == Item("message", 0, 0, FALSE)
Call(id, sig) == Item("call", id, sig, TRUE)
Synthetic(id) == Item("output", id, 0, FALSE)

\* message: user or assistant text; foreign: an item that third parties do not
\* know; leaky: text with a leaked call; marker: a compaction that is replayed.
Spoken ==
  {Item(k, 0, 0, TRUE) : k \in {"message", "foreign", "leaky", "marker"}}
    \cup {Call(i, g) : i \in Ids, g \in Sigs}
    \cup {Item("output", i, 0, TRUE) : i \in Ids \cup {0}}

IsCall(x) == x.kind = "call"
IsOutput(x) == x.kind = "output"

-----------------------------------------------------------------------------
(* OpenAI: only results without an id are repaired.                         *)

RepairOutput(r, x) ==
  IF IsCall(x)
  THEN [items |-> Append(r.items, x), pending |-> Append(r.pending, x.id)]
  ELSE IF ~IsOutput(x) THEN [items |-> Append(r.items, x), pending |-> <<>>]
  ELSE IF x.id # 0
       THEN [ items |-> Append(r.items, x),
              pending |-> SelectSeq(r.pending, LAMBDA p : p # x.id) ]
  ELSE IF Len(r.pending) = 1
       THEN [items |-> Append(r.items, [x EXCEPT !.id = r.pending[1]]), pending |-> <<>>]
  ELSE [r EXCEPT !.items = Append(@, Note)]

\* repair_openai_input_function_outputs.
RepairOutputs(items) ==
  FoldLeft(RepairOutput, [items |-> <<>>, pending |-> <<>>], items).items

-----------------------------------------------------------------------------
(* Folding.                                                                 *)

\* compact_split_at: the items before the split are folded; it never parts a
\* result from the item in front of it.
BeforeOutputs(items, split) ==
  Max({k \in 0 .. split : k = 0 \/ k >= Len(items) \/ ~IsOutput(items[k + 1])})

CompactSplitAt(items, keep) ==
  IF Len(items) <= keep THEN 0 ELSE BeforeOutputs(items, Len(items) - keep)

\* A result is longer than the other items.
CharLen(x) == IF IsOutput(x) THEN 2 ELSE 1
Chars(items) == FoldLeft(LAMBDA n, x : n + CharLen(x), 0, items)

\* compact_split_at_chars: as many of the last items as fit, one at least.
CompactSplitAtChars(items) ==
  IF items = <<>> THEN 0
  ELSE BeforeOutputs(items,
         Min({i \in 0 .. (Len(items) - 1) :
                i = Len(items) - 1 \/ Chars(SubSeq(items, i + 1, Len(items))) <= KeepChars}))

Larger(a, b) == IF a > b THEN a ELSE b
Smaller(a, b) == IF a < b THEN a ELSE b

\* The bounds of compact_keep_split.  (clamp panics unless low <= high.)
LowSplit(items, keep) == CompactSplitAt(items, Larger(keep, MinKeep))
HighSplit(items) == CompactSplitAt(items, MinKeep)

\* A slip for the sensitivity checks: the bounds are not applied.
UnclampedSplit(items, keep) ==
  IF Len(items) <= MinKeep THEN 0 ELSE CompactSplitAtChars(items)

CompactKeepSplit(items, keep) ==
  IF Len(items) <= MinKeep THEN 0
  ELSE Smaller(HighSplit(items), Larger(LowSplit(items, keep), CompactSplitAtChars(items)))

\* compact_input.
CompactInput(items, keep) ==
  LET split == CompactKeepSplit(items, keep) IN
  IF split = 0 THEN items ELSE <<Note>> \o SubSeq(items, split + 1, Len(items))

\* normalize_post_compact_replay: what a marker stands for is dropped.
AfterMarker(items) ==
  LET marks == {i \in DOMAIN items : items[i].kind = "marker"} IN
  IF marks = {} THEN items ELSE SubSeq(items, Max(marks), Len(items))

-----------------------------------------------------------------------------
(* normalize_tool_call_history.                                             *)

Start == [ out |-> <<>>, calls |-> {}, outputs |-> {}, pending |-> <<>>,
           renamed |-> [i \in {} |-> 0] ]

\* The ids of a sequence that are not among some.
Without(ids, some) ==
  LET kept[n \in 0 .. Len(ids)] ==
        IF n = 0 THEN <<>>
        ELSE IF ids[n] \in some THEN kept[n - 1] ELSE Append(kept[n - 1], ids[n])
  IN kept[Len(ids)]

\* next_unique_call_compat_id.
NextCompatId(used) == Min((1 .. Max(used \cup {0}) + 1) \ used)

Admit(r, x) ==
  [r EXCEPT !.out = Append(@, x), !.calls = @ \cup ({x.id} \ {0}),
            !.pending = IF x.id = 0 \/ x.id \in Range(@) THEN @ ELSE Append(@, x.id)]

\* A slip for the sensitivity checks: calls do not come in parallel.
AddCallAlone(r, x) ==
  LET missing == Without(r.pending, r.outputs) IN
  Admit([r EXCEPT !.out = @ \o [k \in DOMAIN missing |-> Synthetic(missing[k])],
                  !.outputs = @ \cup Range(missing), !.pending = <<>>], x)

\* A call whose id is taken is a repetition, or gets an id of its own.
AddCall(r, x) ==
  IF x.id # 0 /\ x.id \in r.calls
  THEN IF \E y \in Range(r.out) : IsCall(y) /\ y.sig = x.sig THEN r
       ELSE LET new == NextCompatId(r.calls) IN
            [Admit(r, [x EXCEPT !.id = new]) EXCEPT
               !.renamed = [i \in DOMAIN @ \cup {x.id} |-> IF i = x.id THEN new ELSE @[i]]]
  ELSE [Admit(r, x) EXCEPT
          !.renamed = [i \in DOMAIN @ \ {x.id} |-> @[i]]]

Place(r, x, pruneOrphans) ==
  IF pruneOrphans /\ x.id # 0 /\ x.id \notin r.calls
  THEN [r EXCEPT !.out = Append(@, Note)]
  ELSE [r EXCEPT !.out = Append(@, x), !.outputs = @ \cup ({x.id} \ {0}),
                 !.pending = Without(@, {x.id} \ {0})]

\* A second result of an id is dropped, or is that of the call that was renamed.
AddOutput(r, x, pruneOrphans) ==
  IF x.id # 0 /\ x.id \in r.outputs
  THEN IF x.id \in DOMAIN r.renamed /\ r.renamed[x.id] \notin r.outputs
       THEN Place(r, [x EXCEPT !.id = r.renamed[x.id]], pruneOrphans)
       ELSE r
  ELSE Place(r, x, pruneOrphans)

\* A slip for the sensitivity checks: nothing is supplied.
SupplyNothing(r) == r

\* A call that the conversation has left behind gets a result.
SupplyMissing(r) ==
  LET missing == Without(r.pending, r.outputs) IN
  [r EXCEPT !.out = @ \o [k \in DOMAIN missing |-> Synthetic(missing[k])],
            !.outputs = @ \cup Range(missing), !.pending = <<>>]

AddItem(r, x, pruneOrphans) ==
  IF IsCall(x) THEN AddCall(r, x)
  ELSE IF IsOutput(x) THEN AddOutput(r, x, pruneOrphans)
  ELSE [SupplyMissing(r) EXCEPT !.out = Append(@, x)]

\* The loop over the items: what it holds after each of them.
Paired(items, pruneOrphans) ==
  LET after[n \in 0 .. Len(items)] ==
        IF n = 0 THEN Start ELSE AddItem(after[n - 1], items[n], pruneOrphans)
  IN after

Normalized(items, pruneOrphans) == SupplyMissing(Paired(items, pruneOrphans)[Len(items)]).out

\* What third parties do not know becomes text, a leaked call becomes a call.
Converted(items) ==
  FlattenSeq([k \in DOMAIN items |->
    IF items[k].kind = "foreign" THEN <<Note>>
    ELSE IF items[k].kind = "leaky"
         THEN <<Item("message", 0, 0, TRUE), Item("call", 1, "leaked", FALSE)>>
    ELSE <<items[k]>>])

\* sanitize_responses_request: what precedes the repair, and the whole.
Prepared(items, compact) ==
  IF compact THEN CompactInput(Converted(items), KeepLast)
  ELSE Converted(AfterMarker(items))

Sanitized(items, compact) ==
  IF family = "openai"
  THEN IF compact THEN RepairOutputs(items) ELSE AfterMarker(RepairOutputs(items))
  ELSE Normalized(Prepared(items, compact), family = "gemini")

-----------------------------------------------------------------------------
Init ==
  /\ family \in Families
  /\ history = <<>>
  /\ request = "none"
  /\ sent = <<>>

\* The conversation goes on, in whatever order the client records it.
Converse ==
  /\ request = "none"
  /\ Len(history) < MaxItems
  /\ \E x \in Spoken : history' = Append(history, x)
  /\ UNCHANGED <<family, request, sent>>

Send ==
  /\ request = "none" /\ history # <<>>
  /\ request' \in {"turn", "compact"}
  /\ sent' = Sanitized(history, request' = "compact")
  /\ UNCHANGED <<family, history>>

\* sanitize_responses_request_aggressive: the folding comes after the repair.
RetryAggressively ==
  /\ request = "turn"
  /\ family # "openai"
  /\ request' = "retry"
  /\ sent' = CompactInput(sent, AggressiveKeep)
  /\ UNCHANGED <<family, history>>

Next == Converse \/ Send \/ RetryAggressively

Spec == Init /\ [][Next]_vars

-----------------------------------------------------------------------------
\* Every result that names a call stands behind it.
Orderly(items) ==
  \A i \in DOMAIN items : IsOutput(items[i]) /\ items[i].id # 0 =>
    \E k \in 1 .. (i - 1) : IsCall(items[k]) /\ items[k].id = items[i].id

Outputs(items, id) == {i \in DOMAIN items : IsOutput(items[i]) /\ items[i].id = id}

\* What goes to a third party is paired: no id names two calls or two results,
\* and a call has its result behind it, with no text between other than the
\* gateway's own.  For Gemini a result also has its call before it, whatever the conversation was; for
\* the others a result without its call stays, and may take the id of another.
HistoryIsPaired ==
  (/\ request \in {"turn", "compact"} /\ family # "openai"
   /\ family = "gemini" \/ Orderly(Prepared(history, request = "compact"))) =>
    /\ \A i, j \in DOMAIN sent :
         i # j /\ sent[i].id = sent[j].id /\ sent[i].id # 0 => sent[i].kind # sent[j].kind
    /\ \A i \in DOMAIN sent :
         IsCall(sent[i]) => \E j \in Outputs(sent, sent[i].id) :
           i < j /\ \A k \in i .. j : \/ sent[k].kind \in {"call", "output"}
                                     \/ (family = "gemini" /\ sent[k] = Note)
    /\ family = "gemini" =>
         \A i \in DOMAIN sent :
           IsOutput(sent[i]) /\ sent[i].id # 0 =>
             \E j \in 1 .. (i - 1) : IsCall(sent[j]) /\ sent[j].id = sent[i].id

\* The result of a call is sent as it is: it is never replaced by the words that
\* it is missing, when only calls and results stand between the two and no id
\* is used for two calls.
ResultsAreKept ==
  request = "turn" /\ family # "openai" =>
    \A i, j \in DOMAIN history :
      (/\ i < j /\ IsCall(history[i]) /\ IsOutput(history[j])
       /\ history[i].id = history[j].id
       /\ \A k \in i .. j : history[k].kind \in {"call", "output"}
       /\ \A k \in DOMAIN history :
            /\ history[k].kind # "leaky" /\ (k > i => history[k].kind # "marker")
            /\ \A l \in DOMAIN history :
                 k # l /\ history[k].id = history[l].id /\ history[k].id # 0 =>
                   history[k].kind # history[l].kind) =>
        \E m \in DOMAIN sent : IsOutput(sent[m]) /\ sent[m].id = history[i].id /\ sent[m].real

\* Folding keeps the end of the conversation: at least MinKeep items of it, word
\* for word, not parted between an item and its result; and the bounds that are
\* given to clamp are in order, or it would panic.
FoldingKeepsTheEnd ==
  (request = "compact" \/ request = "retry") /\ family # "openai" =>
    LET from == IF request = "compact" THEN Converted(history)
                ELSE Sanitized(history, FALSE)
        keep == IF request = "compact" THEN KeepLast ELSE AggressiveKeep
        split == CompactKeepSplit(from, keep)
    IN /\ LowSplit(from, keep) <= HighSplit(from) \/ Len(from) <= MinKeep
       /\ split > 0 =>
            /\ Len(from) - split >= MinKeep
            /\ ~IsOutput(from[split + 1])
            /\ request = "retry" =>
                 IsSuffix(SubSeq(from, Len(from) - MinKeep + 1, Len(from)), sent)
=============================================================================
