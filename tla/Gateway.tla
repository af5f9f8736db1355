------------------------------- MODULE Gateway -------------------------------
(***************************************************************************)
(* The Responses gateway between Codex and the Router Host: one request of *)
(* one client connection (connections share nothing).  The gateway opens   *)
(* the upstream and repeats that with a growing delay; it forwards the     *)
(* event stream and, when the stream breaks off, opens another one whose   *)
(* events it suppresses until the text that the client already has comes   *)
(* by again; it withholds a completion without a tool call and asks an     *)
(* xAI model to go on.  The client must see one consistent stream.         *)
(***************************************************************************)
EXTENDS Integers, Sequences, SequencesExt

CONSTANTS
  Deltas,        \* pieces of output text: non-empty sequences of characters
  MaxText,       \* bound: characters in one generated answer
  MaxRetries,    \* the configured retry count, clamped to 32
  Holding,       \* the values of hold_text_completed, TRUE for xAI models
  Hints,         \* Retry-After values of the upstream, in seconds
  Replies        \* how the upstream may answer a request

ReplyKinds ==
  { "stream",       \* 200 text/event-stream
    "unreachable",  \* connecting, writing or reading the header failed
    "limited",      \* 429, or 503 of an exhausted pool, other than quota
    "transient",    \* 408, 425, 502, 504, 401
    "refused",      \* any other error status
    "cut_error",    \* an error status whose body broke off
    "json",         \* 200 application/json
    "cut_json" }    \* the same, broken off

ASSUME GatewayAssumption ==
  /\ Deltas \subseteq Seq(STRING) \ {<<>>}
  /\ MaxText \in Nat
  /\ MaxRetries \in 0 .. 32
  /\ Holding \subseteq BOOLEAN
  /\ Hints \subseteq Nat
  /\ Replies \subseteq ReplyKinds

VARIABLES
  hold,        \* hold_text_completed: completions are withheld and nudged
  pc,          \* "open": opening the upstream; "stream": forwarding; "closed"
  budget,      \* RequestRetryBudget: retries used, seconds reserved, their cap
  prelude,     \* sse_prelude_sent
  resume,      \* stream_resume: {} or the text that the client has
  continuing,  \* continue_point is set
  nudges,      \* continue_attempts
  held,        \* last_held_completed is set
  sink,        \* SseSink: what is known of the stream being forwarded
  up,          \* the upstream's side of that stream
  out          \* what the client has received

vars == <<hold, pc, budget, prelude, resume, continuing, nudges, held, sink, up, out>>

Ends == {"completed", "failed", "incomplete"}

TypeOK ==
  /\ hold \in BOOLEAN
  /\ pc \in {"open", "stream", "closed"}
  /\ budget \in [used : 0 .. MaxRetries, wait : Nat, cap : Nat]
  /\ prelude \in BOOLEAN
  /\ resume \subseteq Seq(STRING)
  /\ continuing \in BOOLEAN
  /\ nudges \in 0 .. 2
  /\ held \in BOOLEAN
  /\ sink \in
       [ terminal : BOOLEAN, sent : BOOLEAN, textOnly : BOOLEAN,
         hadTool : BOOLEAN, heldCompleted : BOOLEAN, delivered : Seq(STRING),
         reconciling : BOOLEAN, regenerated : Seq(STRING), caughtUp : BOOLEAN ]
  /\ up \in
       [ stage : {"start", "created", "item", "item_done", "ended"},
         text : Seq(STRING), extras : SUBSET {"tool", "other"} ]
  /\ out \in
       [ http : Nat, created : Nat, added : Nat, text : Seq(STRING),
         recorded : Nat, tools : Nat, ends : Seq(Ends),
         answer : {"none", "limited", "error", "json"}, gone : BOOLEAN ]

-----------------------------------------------------------------------------
AtMost(a, b) == IF a < b THEN a ELSE b
AtLeast(a, b) == IF a > b THEN a ELSE b

\* 5 s, 25 s, 125 s, ...; a hint can only lengthen a step; at most an hour.
RateLimitRetryDelay(hint) == AtMost(AtLeast(5 ^ (budget.used + 1), hint), 3600)

\* MAX_REQUEST_RETRY_WAIT, MAX_PRECONTENT_RETRY_WAIT.
MaxWait == IF prelude THEN 180 ELSE 8

CanRetry(hint) ==
  /\ budget.used < MaxRetries
  /\ budget.wait + RateLimitRetryDelay(hint) <= budget.cap

\* A slip for the sensitivity check: a retry costs nothing.
ReserveNothing(hint) == budget' = [budget EXCEPT !.cap = MaxWait]

\* The wait is reserved; the cap is the one set at the head of the loop.
Reserve(hint) ==
  budget' = [used |-> budget.used + 1,
             wait |-> budget.wait + RateLimitRetryDelay(hint), cap |-> MaxWait]

FreshSink(prefixes) ==
  [ terminal |-> FALSE, sent |-> FALSE, textOnly |-> TRUE, hadTool |-> FALSE,
    heldCompleted |-> FALSE,
    delivered |-> IF prefixes = {} THEN <<>> ELSE CHOOSE p \in prefixes : TRUE,
    reconciling |-> prefixes # {}, regenerated |-> <<>>, caughtUp |-> FALSE ]

FreshUp == [stage |-> "start", text |-> <<>>, extras |-> {}]

Init ==
  /\ hold \in Holding
  /\ pc = "open"
  /\ budget = [used |-> 0, wait |-> 0, cap |-> 8]
  /\ prelude = FALSE
  /\ resume = {}
  /\ continuing = FALSE
  /\ nudges = 0
  /\ held = FALSE
  /\ sink = FreshSink({})
  /\ up = FreshUp
  /\ out = [ http |-> 0, created |-> 0, added |-> 0, text |-> <<>>,
             recorded |-> 0, tools |-> 0, ends |-> <<>>, answer |-> "none",
             gone |-> FALSE ]

\* Slips for the sensitivity checks: the open stream is left without an end; the
\* return after the answer is missing.
CloseQuietly(answer) ==
  /\ pc' = "closed"
  /\ out' = IF prelude THEN out ELSE [out EXCEPT !.http = @ + 1, !.answer = answer]

AnswerAndGoOn(answer) ==
  /\ UNCHANGED pc
  /\ out' = IF prelude THEN [out EXCEPT !.ends = Append(@, "failed")]
            ELSE [out EXCEPT !.http = @ + 1, !.answer = answer]

\* The request ends without a usable stream: a withheld completion is sent, an
\* open stream is closed with response.failed, else an HTTP error is sent.
Close(answer) ==
  /\ pc' = "closed"
  /\ out' = IF held THEN [out EXCEPT !.ends = Append(@, "completed")]
            ELSE IF prelude THEN [out EXCEPT !.ends = Append(@, "failed")]
            ELSE [out EXCEPT !.http = @ + 1, !.answer = answer]

-----------------------------------------------------------------------------
RetryHints(reply) == IF reply \in {"limited", "transient"} THEN Hints ELSE {0}

\* open_upstream_with_rate_limit_retry, and the retries of a broken body.
RetryOpen ==
  /\ pc = "open"
  /\ \E reply \in Replies \cap {"unreachable", "limited", "transient",
                                "cut_error", "cut_json"} :
       /\ reply = "cut_error" => ~prelude
       /\ \E hint \in RetryHints(reply) : CanRetry(hint) /\ Reserve(hint)
  /\ UNCHANGED <<hold, pc, prelude, resume, continuing, nudges, held, sink, up, out>>

\* No retry is left, or the upstream refuses.
OpenFails ==
  /\ pc = "open"
  /\ \E reply \in Replies \cap {"unreachable", "limited", "transient",
                                "refused", "cut_error"} :
       /\ \/ reply = "refused"
          \/ reply = "cut_error" /\ prelude
          \/ \E hint \in RetryHints(reply) : ~CanRetry(hint)
       /\ Close(IF reply = "limited" THEN "limited" ELSE "error")
  /\ UNCHANGED <<hold, budget, prelude, resume, continuing, nudges, held, sink, up>>

\* A JSON answer is written as an HTTP response, and so is the error when it
\* could not be read and no retry is left: whether or not a stream is open.
JsonReply ==
  /\ pc = "open"
  /\ pc' = "closed"
  /\ \/ /\ "json" \in Replies
        /\ out' = [out EXCEPT !.http = @ + 1, !.answer = "json"]
     \/ /\ "cut_json" \in Replies /\ ~CanRetry(0)
        /\ out' = [out EXCEPT !.http = @ + 1, !.answer = "error"]
  /\ UNCHANGED <<hold, budget, prelude, resume, continuing, nudges, held, sink, up>>

\* A slip for the sensitivity check: the text that was delivered is forgotten.
StartAfresh ==
  /\ pc = "open"
  /\ "stream" \in Replies
  /\ pc' = "stream"
  /\ prelude' = TRUE
  /\ out' = IF prelude THEN out ELSE [out EXCEPT !.http = @ + 1]
  /\ sink' = FreshSink({})
  /\ resume' = {}
  /\ up' = FreshUp
  /\ UNCHANGED <<hold, budget, continuing, nudges, held>>

\* The HTTP header goes to the client once per connection.
StartStream ==
  /\ pc = "open"
  /\ "stream" \in Replies
  /\ pc' = "stream"
  /\ prelude' = TRUE
  /\ out' = IF prelude THEN out ELSE [out EXCEPT !.http = @ + 1]
  /\ sink' = FreshSink(resume)
  /\ resume' = {}
  /\ up' = FreshUp
  /\ UNCHANGED <<hold, budget, continuing, nudges, held>>

-----------------------------------------------------------------------------
\* push_event, one action for each kind of event.  The events of one item come
\* together: item_added stands for output_item.added and content_part.added,
\* item_done for output_text.done, content_part.done and output_item.done.
Streaming(stages) == pc = "stream" /\ up.stage \in stages

Forwarded(s) == [s EXCEPT !.sent = TRUE]

\* A new stream that has not yet gone beyond the text that the client has.
CatchingUp == sink.reconciling /\ ~sink.caughtUp

\* Output text goes to the client.
Deliver(text, regenerated) ==
  /\ sink' = [Forwarded(sink) EXCEPT !.delivered = @ \o text,
                                     !.regenerated = regenerated,
                                     !.caughtUp = sink.reconciling]
  /\ out' = [out EXCEPT !.text = @ \o text]
  /\ UNCHANGED pc

\* A slip for the sensitivity check: the client is told that all went well.
AbortAsCompleted ==
  /\ pc' = "closed"
  /\ out' = [out EXCEPT !.ends = Append(@, "completed")]
  /\ UNCHANGED sink

\* AbortReconcile: the client keeps a consistent partial answer.
Abort ==
  /\ pc' = "closed"
  /\ out' = [out EXCEPT !.ends = Append(@, "failed")]
  /\ UNCHANGED sink

\* A slip for the sensitivity check: a continuation is announced to the client.
CreatedAgain ==
  /\ Streaming({"start"})
  /\ up' = [up EXCEPT !.stage = "created"]
  /\ IF sink.reconciling
     THEN UNCHANGED <<sink, out>>
     ELSE sink' = Forwarded(sink) /\ out' = [out EXCEPT !.created = @ + 1]
  /\ UNCHANGED <<hold, pc, budget, prelude, resume, continuing, nudges, held>>

Created ==
  /\ Streaming({"start"})
  /\ up' = [up EXCEPT !.stage = "created"]
  /\ IF continuing \/ sink.reconciling
     THEN UNCHANGED <<sink, out>>
     ELSE sink' = Forwarded(sink) /\ out' = [out EXCEPT !.created = @ + 1]
  /\ UNCHANGED <<hold, pc, budget, prelude, resume, continuing, nudges, held>>

ItemAdded ==
  /\ Streaming({"created"})
  /\ up' = [up EXCEPT !.stage = "item"]
  /\ IF sink.reconciling
     THEN UNCHANGED <<sink, out>>
     ELSE sink' = Forwarded(sink) /\ out' = [out EXCEPT !.added = @ + 1]
  /\ UNCHANGED <<hold, pc, budget, prelude, resume, continuing, nudges, held>>

\* The text of the new stream goes to the client from where it goes beyond the
\* text that the client has; a stream that says something else is given up.
Delta ==
  /\ Streaming({"item"})
  /\ \E d \in Deltas :
       LET again == sink.regenerated \o d
           beyond == SubSeq(again, Len(sink.delivered) + 1, Len(again))
       IN  /\ Len(up.text) + Len(d) <= MaxText
           /\ up' = [up EXCEPT !.text = @ \o d]
           /\ \/ /\ ~CatchingUp
                 /\ Deliver(d, sink.regenerated)
              \/ /\ CatchingUp
                 /\ IsPrefix(again, sink.delivered)
                 /\ sink' = [sink EXCEPT !.regenerated = again]
                 /\ UNCHANGED <<pc, out>>
              \/ /\ CatchingUp
                 /\ IsStrictPrefix(sink.delivered, again)
                 /\ Deliver(beyond, again)
              \/ /\ CatchingUp
                 /\ ~IsPrefix(again, sink.delivered)
                 /\ ~IsPrefix(sink.delivered, again)
                 /\ Abort
  /\ UNCHANGED <<hold, budget, prelude, resume, continuing, nudges, held>>

ItemDone ==
  /\ Streaming({"item"})
  /\ up' = [up EXCEPT !.stage = "item_done"]
  /\ IF CatchingUp
     THEN UNCHANGED <<sink, out>>
     ELSE sink' = Forwarded(sink) /\ out' = [out EXCEPT !.recorded = @ + 1]
  /\ UNCHANGED <<hold, pc, budget, prelude, resume, continuing, nudges, held>>

\* An event outside TEXT_RETRY_EVENT_TYPES, such as a reasoning delta or an
\* annotation: a retry cannot reproduce it.
OtherEvent ==
  /\ Streaming({"created", "item"})
  /\ "other" \notin up.extras
  /\ up' = [up EXCEPT !.extras = @ \cup {"other"}]
  /\ IF CatchingUp THEN Abort
     ELSE /\ sink' = [Forwarded(sink) EXCEPT
                        !.textOnly = @ /\ sink.reconciling]
          /\ UNCHANGED <<pc, out>>
  /\ UNCHANGED <<hold, budget, prelude, resume, continuing, nudges, held>>

\* A function_call item.
ToolCall ==
  /\ Streaming({"created", "item_done"})
  /\ "tool" \notin up.extras
  /\ up' = [up EXCEPT !.extras = @ \cup {"tool"}]
  /\ IF sink.reconciling THEN Abort
     ELSE /\ sink' = [Forwarded(sink) EXCEPT !.hadTool = TRUE, !.textOnly = FALSE]
          /\ out' = [out EXCEPT !.tools = @ + 1]
          /\ UNCHANGED pc
  /\ UNCHANGED <<hold, budget, prelude, resume, continuing, nudges, held>>

\* The new stream completed with less than the client already has.
CompletionDiffers(kind) ==
  /\ CatchingUp
  /\ kind = "completed"
  /\ sink.regenerated # sink.delivered

Terminal ==
  /\ Streaming({"created", "item", "item_done"})
  /\ up' = [up EXCEPT !.stage = "ended"]
  /\ \E kind \in IF up.stage = "item" THEN Ends \ {"completed"} ELSE Ends :
       IF CompletionDiffers(kind) THEN Abort
       ELSE /\ IF hold /\ kind = "completed" /\ ~sink.hadTool
               THEN /\ sink' = [sink EXCEPT !.heldCompleted = TRUE]
                    /\ UNCHANGED out
               ELSE /\ sink' = [Forwarded(sink) EXCEPT !.terminal = TRUE]
                    /\ out' = [out EXCEPT !.ends = Append(@, kind)]
            /\ UNCHANGED pc
  /\ UNCHANGED <<hold, budget, prelude, resume, continuing, nudges, held>>

-----------------------------------------------------------------------------
\* The upstream ended: end of file, read error, corrupt frame, 1800 s of
\* silence.  (The Host's own response.failed for a stream it lost is dropped
\* and the end of file follows.)  eof_outcome tells how the request goes on.
EndOfStream == pc = "stream"

\* IncompleteAgentTurn: the completion was withheld.  Whether the text looks
\* unfinished is decided by its wording.
Nudge ==
  /\ EndOfStream
  /\ sink.heldCompleted
  /\ held' = TRUE
  /\ nudges < 2
  /\ nudges' = nudges + 1
  /\ continuing' = TRUE
  /\ budget' = [budget EXCEPT !.cap = MaxWait]
  /\ pc' = "open"
  /\ UNCHANGED <<hold, prelude, resume, sink, up, out>>

SendHeld ==
  /\ EndOfStream
  /\ sink.heldCompleted
  /\ held' = TRUE
  /\ pc' = "closed"
  /\ out' = [out EXCEPT !.ends = Append(@, "completed")]
  /\ UNCHANGED <<hold, budget, prelude, resume, continuing, nudges, sink, up>>

StreamDone ==
  /\ EndOfStream
  /\ ~sink.heldCompleted
  /\ sink.terminal
  /\ pc' = "closed"
  /\ UNCHANGED <<hold, budget, prelude, resume, continuing, nudges, held, sink, up, out>>

\* A broken continuation is closed as if it had completed.
ContinuationBroken ==
  /\ EndOfStream
  /\ ~sink.heldCompleted /\ ~sink.terminal
  /\ continuing /\ sink.sent
  /\ pc' = "closed"
  /\ out' = [out EXCEPT !.ends = Append(@, "completed")]
  /\ UNCHANGED <<hold, budget, prelude, resume, continuing, nudges, held, sink, up>>

\* Structured events cannot be replayed: the stream is closed.
StructuredBroken ==
  /\ EndOfStream
  /\ ~sink.heldCompleted /\ ~sink.terminal
  /\ ~continuing /\ ~sink.reconciling /\ sink.sent
  /\ ~sink.textOnly \/ sink.hadTool
  /\ Abort
  /\ UNCHANGED <<hold, budget, prelude, resume, continuing, nudges, held, up>>

\* RetryableBeforeFirstEvent, RetryableWithPrefix.
Retryable ==
  /\ EndOfStream
  /\ ~sink.heldCompleted /\ ~sink.terminal
  /\ ~(continuing /\ sink.sent)
  /\ \/ ~sink.sent
     \/ sink.reconciling
     \/ sink.textOnly /\ ~sink.hadTool

RetryStream ==
  /\ Retryable
  /\ CanRetry(0)
  /\ Reserve(0)
  /\ resume' = IF sink.sent \/ sink.reconciling THEN {sink.delivered} ELSE {}
  /\ pc' = "open"
  /\ UNCHANGED <<hold, prelude, continuing, nudges, held, sink, up, out>>

RetriesExhausted ==
  /\ Retryable
  /\ ~CanRetry(0)
  /\ Close("error")
  /\ UNCHANGED <<hold, budget, prelude, resume, continuing, nudges, held, sink, up>>

\* Codex closes its connection: noticed by the next write, keep-alive or peek.
ClientGone ==
  /\ pc # "closed"
  /\ pc' = "closed"
  /\ out' = [out EXCEPT !.gone = TRUE]
  /\ UNCHANGED <<hold, budget, prelude, resume, continuing, nudges, held, sink, up>>

Opening == RetryOpen \/ OpenFails \/ JsonReply \/ StartStream
Event ==
  Created \/ ItemAdded \/ Delta \/ ItemDone \/ OtherEvent \/ ToolCall \/ Terminal
StreamEnd ==
  \/ Nudge \/ SendHeld \/ StreamDone \/ ContinuationBroken
  \/ StructuredBroken \/ RetryStream \/ RetriesExhausted

Next == Opening \/ Event \/ StreamEnd \/ ClientGone

Spec == Init /\ [][Next]_vars

\* The sockets have timeouts, so an upstream that is waited for answers, ends
\* its stream or is declared dead.
FairSpec == Spec /\ WF_vars(Opening) /\ WF_vars(StreamEnd)

-----------------------------------------------------------------------------
\* A stream given to the client ends with one terminal event, whatever broke.
EndsOnce ==
  /\ Len(out.ends) <= 1
  /\ (pc = "closed" /\ prelude /\ ~out.gone /\ out.http = 1) => Len(out.ends) = 1

\* "The client still holds a consistent partial answer": what it has is what
\* the current upstream stream has said, or all of that and the rest is being
\* repeated; and what is reported as completed is one answer that an upstream has
\* completed, word for word, however many streams it took.  (An answer that was
\* nudged to go on is made of several.)  And its end is told once.
ClientHasOneAnswer ==
  /\ EndsOnce
  /\ nudges = 0 =>
      /\ pc = "stream" =>
           IF CatchingUp THEN IsPrefix(up.text, out.text) ELSE out.text = up.text
      /\ out.ends = <<"completed">> => out.text = up.text

\* No structured event is replayed: "replaying them after the client has already
\* seen the first item creates a second reasoning/tool timeline".
NothingReplayed ==
  /\ out.created <= 1
  /\ out.added <= nudges + 1
  /\ out.tools <= nudges + 1

\* "Interrupted SSE requests always receive a terminal failure event": when the
\* last stream broke off, the client is told so, except that a follow-up that
\* broke off, or that could not be had, ends with the completion withheld before.
InterruptionIsReported ==
  (pc = "closed" /\ prelude /\ ~out.gone /\ up.stage # "ended" /\ out.http = 1) =>
    \/ out.ends = <<"failed">>
    \/ nudges > 0 /\ out.ends = <<"completed">>

\* No turn stays active for ever: retries, resumptions and nudges are bounded.
EveryTurnEnds == <>(pc = "closed")

\* What Codex may rely on, however the gateway gets there: module ClientStream.
Promise ==
  INSTANCE ClientStream WITH
    text <- out.text,
    status <- IF out.ends # <<>> THEN "ended"
              ELSE IF out.http = 0 THEN "waiting"
              ELSE IF prelude THEN "open" ELSE "error"
KeepsThePromise == Promise!Spec

\* "The new stream is suppressed until it regenerates exactly the text the client
\* already received": the client has the frame of the item whose text it has.
ItemIsFramed ==
  (out.ends = <<"completed">> /\ nudges = 0 /\ out.text # <<>>) =>
    out.added = 1 /\ out.recorded = 1
==============================================================================
