----------------------------- MODULE SseStream -----------------------------
(***************************************************************************)
(* One event stream through the host: wrap_sse_stream over SseRewriter, in *)
(* router_host.rs, with the terminal span of telemetry/structured_log.rs.  *)
(*                                                                         *)
(* The upstream's bytes come in chunks that end anywhere.  The rewriter    *)
(* passes whole lines on and keeps the last, unfinished one.  What matters *)
(* of the place where the bytes stop is whether an event is finished:      *)
(*   "event"  after the blank line that ends an event                      *)
(*   "line"   after the data line of an event                              *)
(*   "json"   inside it, the JSON being complete                           *)
(*   "half"   inside the JSON                                              *)
(***************************************************************************)
EXTENDS Naturals, Sequences

CONSTANT MaxEvents  \* the events of the upstream

VARIABLES
  httpOk,     \* the upstream's status is 2xx
  sent,       \* the kinds of the events the upstream has begun
  place,      \* where its bytes stop
  terminal,   \* terminal_seen: "none" or the kind of the last terminal event
  shut,       \* "no", "end" (upstream closed), "error", "dropped" (by the client)
  appended,   \* the failure that the host writes itself is at the end
  ledger,     \* the statuses of the ledger's rows for this request
  spans       \* the statuses of its terminal spans

vars == <<httpOk, sent, place, terminal, shut, appended, ledger, spans>>

\* A tool call of the provider itself ends with response.<call>.completed.
Kinds == {"delta", "call_completed", "completed", "failed", "incomplete", "done"}

\* process_line: every type that ends in .completed, .failed or .cancelled.
IsTerminal(kind) == kind \in {"call_completed", "completed", "failed", "done"}
IsSuccess(kind) == kind \in {"call_completed", "completed", "done"}

Noted(kind) == IF IsTerminal(kind) THEN kind ELSE terminal

Init ==
  /\ httpOk \in BOOLEAN
  /\ sent = <<>>
  /\ place = "event"
  /\ terminal = "none"
  /\ shut = "no"
  /\ appended = FALSE
  /\ ledger = <<>>
  /\ spans = <<>>

\* SseRewriter::feed: a finished line is processed and goes to the client, a
\* chunk that finishes none produces nothing.
FeedEvent ==
  /\ shut = "no"
  /\ place = "event"
  /\ Len(sent) < MaxEvents
  /\ \E kind \in Kinds, stop \in {"half", "json", "line", "event"} :
       /\ sent' = Append(sent, kind)
       /\ place' = stop
       /\ terminal' = IF stop \in {"line", "event"} THEN Noted(kind) ELSE terminal
  /\ UNCHANGED <<httpOk, shut, appended, ledger, spans>>

FeedRest ==
  /\ shut = "no"
  /\ place # "event"
  /\ \E stop \in {"json", "line", "event"} :
       /\ place = "line" => stop = "event"
       /\ place = "json" => stop # "json"
       /\ place' = stop
       /\ terminal' = IF stop \in {"line", "event"} THEN Noted(sent[Len(sent)])
                      ELSE terminal
  /\ UNCHANGED <<httpOk, sent, shut, appended, ledger, spans>>

\* SseRewriter::finish: the unfinished line is processed as it is; it can be
\* read when only the newline was missing, which it then gets.
Finished == IF place = "json" THEN Noted(sent[Len(sent)]) ELSE terminal
FinishedPlace == IF place = "json" THEN "line" ELSE place

Conclude(how, row, span, failure) ==
  /\ shut' = how
  /\ place' = FinishedPlace
  /\ terminal' = Finished
  /\ appended' = failure
  /\ ledger' = Append(ledger, row)
  /\ spans' = Append(spans, span)
  /\ UNCHANGED <<httpOk, sent>>

\* A slip for the sensitivity check: the client is not told of a stream that was
\* cut.
UpstreamEndsQuietly ==
  /\ shut = "no"
  /\ LET ok == httpOk /\ IsSuccess(Finished) IN
     Conclude("end", IF ok THEN "completed" ELSE "failed",
              IF ok THEN "ok" ELSE "upstream_error", FALSE)

\* None: a stream without a terminal event gets a failure at its end.
UpstreamEnds ==
  /\ shut = "no"
  /\ LET ok == httpOk /\ IsSuccess(Finished) IN
     Conclude("end", IF ok THEN "completed" ELSE "failed",
              IF ok THEN "ok" ELSE "upstream_error", Finished = "none")

\* Some(Err): it gets one whatever it has sent before.
UpstreamErrs ==
  /\ shut = "no"
  /\ Conclude("error", "failed", "upstream_error", TRUE)

\* The client closes the connection: the body is dropped with its guard, which
\* writes the span; the ledger gets no row.
ClientDrops ==
  /\ shut = "no"
  /\ shut' = "dropped"
  /\ spans' = Append(spans, "cancelled")
  /\ UNCHANGED <<httpOk, sent, place, terminal, appended, ledger>>

Next == FeedEvent \/ FeedRest \/ UpstreamEnds \/ UpstreamErrs \/ ClientDrops

Spec == Init /\ [][Next]_vars

-----------------------------------------------------------------------------
(* What the client can read: the events that are finished, the last one     *)
(* also when only the blank line is missing and nothing was glued to it.    *)

Cut == place # "event"
Readable == IF place = "half" \/ (Cut /\ appended)
            THEN SubSeq(sent, 1, Len(sent) - 1) ELSE sent
Ends(kinds) == {i \in DOMAIN kinds : kinds[i] \in {"completed", "failed", "incomplete", "done"}}

\* The client is never left without an end: unless the upstream stopped in the
\* middle of an event (the failure is then glued to it and cannot be read), or
\* the last thing it finished was a call of its own.
ClientIsTold ==
  shut \in {"end", "error"} /\ ~Cut /\ terminal # "call_completed" =>
    Ends(Readable) # {} \/ appended

\* The ledger and the span say the same of the stream as its last terminal
\* event: a success is recorded for streams that a success ended, and for all
\* of them that the upstream closed in order.
RecordsTellTheEnd ==
  /\ shut \in {"end", "error"} =>
       /\ ledger \in {<<"completed">>, <<"failed">>}
       /\ spans = <<IF ledger = <<"completed">> THEN "ok" ELSE "upstream_error">>
       /\ ledger = <<"completed">> =>
            httpOk /\ ~appended /\ \E i \in DOMAIN sent : IsSuccess(sent[i])
       /\ /\ shut = "end" /\ httpOk /\ Ends(sent) = {Len(sent)} /\ place # "half"
          /\ sent # <<>> /\ IsSuccess(sent[Len(sent)])
          => ledger = <<"completed">>
       /\ ledger = <<"completed">> =>
            ~ (Ends(sent) # {} /\ sent[Len(sent)] = "failed" /\ place # "half")
  /\ shut = "dropped" => ledger = <<>> /\ spans = <<"cancelled">>

\* However a stream goes, its end is known, and known as the same, to the client, to
\* the ledger and to the spans.
TheEndIsTold == ClientIsTold /\ RecordsTellTheEnd
=============================================================================
