---------------------------- MODULE GatewayProofs ----------------------------
(***************************************************************************)
(* Proofs about the Responses gateway, for any pieces of text, any bound   *)
(* on it and any number of retries: the client is given one consistent     *)
(* stream, and the gateway implements what Codex may rely on               *)
(* (ClientStream).                                                         *)
(***************************************************************************)
EXTENDS Gateway, SequenceTheorems, TLAPS

(* Prefixes of sequences. *)

LEMMA PrefixByElements ==
  ASSUME NEW S, NEW s \in Seq(S), NEW t \in Seq(S)
  PROVE  IsPrefix(s, t) <=> Len(s) <= Len(t) /\ \A i \in 1 .. Len(s) : s[i] = t[i]
BY DEF IsPrefix

LEMMA ConcatByElements ==
  ASSUME NEW S, NEW s \in Seq(S), NEW t \in Seq(S)
  PROVE  /\ s \o t \in Seq(S)
         /\ Len(s \o t) = Len(s) + Len(t)
         /\ \A i \in 1 .. Len(s) + Len(t) :
              (s \o t)[i] = IF i <= Len(s) THEN s[i] ELSE t[i - Len(s)]
BY ConcatProperties

\* What a longer text adds to its prefix, put behind the prefix, gives the longer text.
LEMMA BeyondCompletes ==
  ASSUME NEW S, NEW s \in Seq(S), NEW t \in Seq(S), IsStrictPrefix(s, t)
  PROVE  /\ SubSeq(t, Len(s) + 1, Len(t)) \in Seq(S) \ {<<>>}
         /\ s \o SubSeq(t, Len(s) + 1, Len(t)) = t
<1> DEFINE r == SubSeq(t, Len(s) + 1, Len(t))
<1>1. s # t /\ Len(s) <= Len(t) /\ \A i \in 1 .. Len(s) : s[i] = t[i]
  BY PrefixByElements DEF IsStrictPrefix
<1>2. Len(s) # Len(t)
  BY <1>1, SeqEqual
<1>3. Len(s) < Len(t) /\ Len(s) \in Nat /\ Len(t) \in Nat
  BY <1>1, <1>2
<1>4. /\ r \in Seq(S) /\ Len(r) = Len(t) - Len(s)
      /\ \A i \in 1 .. Len(t) - Len(s) : r[i] = t[Len(s) + i]
  BY <1>3
<1> HIDE DEF r
<1>5. s \o r = t
  <2>1. /\ s \o r \in Seq(S) /\ Len(s \o r) = Len(t)
        /\ \A i \in 1 .. Len(s) + Len(r) :
             (s \o r)[i] = IF i <= Len(s) THEN s[i] ELSE r[i - Len(s)]
    BY <1>3, <1>4, ConcatByElements
  <2>2. ASSUME NEW i \in 1 .. Len(t) PROVE (s \o r)[i] = t[i]
    <3>1. (s \o r)[i] = IF i <= Len(s) THEN s[i] ELSE r[i - Len(s)]
      BY <1>3, <1>4, <2>1
    <3>2. i > Len(s) => i - Len(s) \in 1 .. Len(t) - Len(s)
      BY <1>3
    <3>3. i > Len(s) => r[i - Len(s)] = t[i]
      BY <1>3, <1>4, <3>2
    <3> QED
      BY <1>1, <1>3, <3>1, <3>3
  <2> QED
    BY <2>1, <2>2, SeqEqual
<1>6. r # <<>>
  BY <1>3, <1>4
<1> QED
  BY <1>4, <1>5, <1>6 DEF r

LEMMA ConcatExtends ==
  ASSUME NEW S, NEW s \in Seq(S), NEW t \in Seq(S), t # <<>>
  PROVE  IsStrictPrefix(s, s \o t)
<1>1. /\ s \o t \in Seq(S) /\ Len(s \o t) = Len(s) + Len(t)
      /\ \A i \in 1 .. Len(s) + Len(t) :
           (s \o t)[i] = IF i <= Len(s) THEN s[i] ELSE t[i - Len(s)]
  BY ConcatByElements
<1>2. Len(s) \in Nat /\ Len(t) \in Nat /\ Len(t) > 0
  OBVIOUS
<1>3. \A i \in 1 .. Len(s) : s[i] = (s \o t)[i]
  BY <1>1, <1>2
<1>4. IsPrefix(s, s \o t) <=>
        Len(s) <= Len(s \o t) /\ \A i \in 1 .. Len(s) : s[i] = (s \o t)[i]
  BY <1>1, PrefixByElements
<1> QED
  BY <1>1, <1>2, <1>3, <1>4 DEF IsStrictPrefix

LEMMA EmptyIsAPrefix ==
  ASSUME NEW S, NEW s \in Seq(S)
  PROVE  IsPrefix(<<>>, s)
<1>1. Len(<<>>) = 0 /\ Len(s) \in Nat /\ SubSeq(<<>>, 1, 0) = <<>> /\ SubSeq(s, 1, 0) = <<>>
  BY SubSeqEmpty
<1> QED
  BY <1>1 DEF IsPrefix

-----------------------------------------------------------------------------
(* The type invariant. *)

Budgets == [used : 0 .. MaxRetries, wait : Nat, cap : Nat]
Sinks ==
  [ terminal : BOOLEAN, sent : BOOLEAN, textOnly : BOOLEAN,
    hadTool : BOOLEAN, heldCompleted : BOOLEAN, delivered : Seq(STRING),
    reconciling : BOOLEAN, regenerated : Seq(STRING), caughtUp : BOOLEAN ]
Ups ==
  [ stage : {"start", "created", "item", "item_done", "ended"},
    text : Seq(STRING), extras : SUBSET {"tool", "other"} ]
Outs ==
  [ http : Nat, created : Nat, added : Nat, text : Seq(STRING),
    recorded : Nat, tools : Nat, ends : Seq(Ends),
    answer : {"none", "limited", "error", "json"}, gone : BOOLEAN ]

Typed ==
  /\ hold \in BOOLEAN /\ pc \in {"open", "stream", "closed"}
  /\ budget \in Budgets /\ prelude \in BOOLEAN /\ resume \subseteq Seq(STRING)
  /\ continuing \in BOOLEAN /\ nudges \in 0 .. 2 /\ held \in BOOLEAN
  /\ sink \in Sinks /\ up \in Ups /\ out \in Outs

LEMMA TypesNamed == (TypeOK <=> Typed) /\ (TypeOK' <=> Typed')
BY DEF TypeOK, Typed, Budgets, Sinks, Ups, Outs

LEMMA DelayIsNat ==
  ASSUME Typed, NEW hint \in Nat
  PROVE  RateLimitRetryDelay(hint) \in Nat
<1>1. 5 ^ (budget.used + 1) \in Int
  BY GatewayAssumption DEF Typed, Budgets
<1> QED
  BY <1>1 DEF RateLimitRetryDelay, AtMost, AtLeast

LEMMA ReserveIsTyped ==
  ASSUME Typed, NEW hint \in Nat, CanRetry(hint), Reserve(hint)
  PROVE  budget' \in Budgets
<1>1. RateLimitRetryDelay(hint) \in Nat
  BY DelayIsNat
<1>2. budget.used \in Nat /\ budget.used < MaxRetries /\ MaxRetries \in Nat /\ budget.wait \in Nat
  BY GatewayAssumption DEF Typed, Budgets, CanRetry
<1>3. budget.used + 1 \in 0 .. MaxRetries /\ MaxWait \in Nat
  BY <1>2 DEF MaxWait
<1> QED
  BY <1>1, <1>2, <1>3 DEF Reserve, Budgets

LEMMA HintsAreNat ==
  ASSUME NEW reply, NEW hint \in RetryHints(reply)
  PROVE  hint \in Nat
BY GatewayAssumption DEF RetryHints

LEMMA FreshIsTyped ==
  ASSUME Typed
  PROVE  FreshUp \in Ups /\ FreshSink(resume) \in Sinks
<1>1. <<>> \in Seq(STRING)
  OBVIOUS
<1>2. (IF resume = {} THEN <<>> ELSE CHOOSE p \in resume : TRUE) \in Seq(STRING)
  <2>1. CASE resume = {}
    BY <1>1, <2>1
  <2>2. CASE resume # {}
    <3>1. \E p \in resume : TRUE
      BY <2>2
    <3>2. (CHOOSE p \in resume : TRUE) \in resume
      BY <3>1, Zenon
    <3> QED
      BY <2>2, <3>2 DEF Typed
  <2> QED
    BY <2>1, <2>2
<1> QED
  BY <1>1, <1>2 DEF FreshUp, FreshSink, Ups, Sinks

LEMMA EndIsTyped ==
  ASSUME Typed, NEW e \in Ends
  PROVE  [out EXCEPT !.ends = Append(@, e)] \in Outs
<1>1. Append(out.ends, e) \in Seq(Ends)
  BY DEF Typed, Outs
<1> QED
  BY <1>1 DEF Typed, Outs

LEMMA AnswerIsTyped ==
  ASSUME Typed, NEW a \in {"limited", "error", "json"}
  PROVE  [out EXCEPT !.http = @ + 1, !.answer = a] \in Outs
<1>1. /\ out \in Outs
      /\ out.http + 1 \in Nat /\ out.created + 1 \in Nat /\ out.added + 1 \in Nat
      /\ out.recorded + 1 \in Nat /\ out.tools + 1 \in Nat
  BY DEF Typed, Outs
<1> QED
  BY <1>1 DEF Outs

\* Something is counted, or the client goes.
LEMMA CountIsTyped ==
  ASSUME Typed
  PROVE  /\ [out EXCEPT !.http = @ + 1] \in Outs
         /\ [out EXCEPT !.created = @ + 1] \in Outs
         /\ [out EXCEPT !.added = @ + 1] \in Outs
         /\ [out EXCEPT !.recorded = @ + 1] \in Outs
         /\ [out EXCEPT !.tools = @ + 1] \in Outs
         /\ [out EXCEPT !.gone = TRUE] \in Outs
<1>1. /\ out \in Outs
      /\ out.http + 1 \in Nat /\ out.created + 1 \in Nat /\ out.added + 1 \in Nat
      /\ out.recorded + 1 \in Nat /\ out.tools + 1 \in Nat
  BY DEF Typed, Outs
<1> QED
  BY <1>1 DEF Outs

LEMMA UpIsTyped ==
  ASSUME Typed, NEW stage \in {"created", "item", "item_done", "ended"},
         NEW extra \in {"tool", "other"}
  PROVE  /\ [up EXCEPT !.stage = stage] \in Ups
         /\ [up EXCEPT !.extras = @ \cup {extra}] \in Ups
<1>1. up \in Ups
  BY DEF Typed
<1> QED
  BY <1>1 DEF Ups

LEMMA SinkIsTyped ==
  ASSUME Typed, NEW b \in BOOLEAN
  PROVE  /\ Forwarded(sink) \in Sinks
         /\ [Forwarded(sink) EXCEPT !.textOnly = b] \in Sinks
         /\ [Forwarded(sink) EXCEPT !.hadTool = TRUE, !.textOnly = FALSE] \in Sinks
         /\ [Forwarded(sink) EXCEPT !.terminal = TRUE] \in Sinks
         /\ [sink EXCEPT !.heldCompleted = TRUE] \in Sinks
<1>1. sink \in Sinks
  BY DEF Typed
<1> QED
  BY <1>1 DEF Forwarded, Sinks

LEMMA CloseIsTyped ==
  ASSUME Typed, NEW a \in {"limited", "error"}, Close(a)
  PROVE  pc' \in {"open", "stream", "closed"} /\ out' \in Outs
<1>1. "completed" \in Ends /\ "failed" \in Ends
  BY DEF Ends
<1> QED
  BY <1>1, EndIsTyped, AnswerIsTyped DEF Close

LEMMA AbortIsTyped ==
  ASSUME Typed, Abort
  PROVE  pc' \in {"open", "stream", "closed"} /\ sink' \in Sinks /\ out' \in Outs
<1>1. "failed" \in Ends
  BY DEF Ends
<1> QED
  BY <1>1, EndIsTyped DEF Abort, Typed

LEMMA OpeningIsTyped ==
  ASSUME Typed, Opening
  PROVE  Typed'
<1>1. CASE RetryOpen
  <2>1. PICK hint \in Nat : CanRetry(hint) /\ Reserve(hint)
    BY <1>1, HintsAreNat DEF RetryOpen
  <2>2. budget' \in Budgets
    BY <2>1, ReserveIsTyped
  <2> QED
    BY <1>1, <2>2 DEF RetryOpen, Typed
<1>2. CASE OpenFails
  <2>1. PICK a \in {"limited", "error"} : Close(a)
    BY <1>2 DEF OpenFails
  <2>2. pc' \in {"open", "stream", "closed"} /\ out' \in Outs
    BY <2>1, CloseIsTyped
  <2> QED
    BY <1>2, <2>2 DEF OpenFails, Typed
<1>3. CASE JsonReply
  <2>1. out' \in Outs
    BY <1>3, AnswerIsTyped DEF JsonReply
  <2> QED
    BY <1>3, <2>1 DEF JsonReply, Typed
<1>4. CASE StartStream
  <2>1. out' \in Outs
    BY <1>4, CountIsTyped DEF StartStream, Typed
  <2>2. sink' \in Sinks /\ up' \in Ups
    BY <1>4, FreshIsTyped DEF StartStream
  <2> QED
    BY <1>4, <2>1, <2>2 DEF StartStream, Typed
<1> QED
  BY <1>1, <1>2, <1>3, <1>4 DEF Opening

LEMMA DeltaIsTyped ==
  ASSUME Typed, Delta
  PROVE  Typed'
<1>1. PICK d \in Deltas :
        LET again == sink.regenerated \o d
            beyond == SubSeq(again, Len(sink.delivered) + 1, Len(again))
        IN  /\ up' = [up EXCEPT !.text = @ \o d]
            /\ \/ Deliver(d, sink.regenerated)
               \/ sink' = [sink EXCEPT !.regenerated = again] /\ UNCHANGED <<pc, out>>
               \/ IsStrictPrefix(sink.delivered, again) /\ Deliver(beyond, again)
               \/ Abort
  BY DEF Delta
<1> DEFINE again == sink.regenerated \o d
           beyond == SubSeq(again, Len(sink.delivered) + 1, Len(again))
<1>2. d \in Seq(STRING) /\ up.text \in Seq(STRING) /\ sink.delivered \in Seq(STRING)
      /\ sink.regenerated \in Seq(STRING) /\ out.text \in Seq(STRING)
  BY GatewayAssumption DEF Typed, Ups, Sinks, Outs
<1>3. again \in Seq(STRING)
  BY <1>2
<1>4. ASSUME NEW x \in Seq(STRING), NEW y \in Seq(STRING), Deliver(x, y)
      PROVE  pc' = pc /\ sink' \in Sinks /\ out' \in Outs
  <2>1. sink.delivered \o x \in Seq(STRING) /\ out.text \o x \in Seq(STRING)
    BY <1>2
  <2> QED
    BY <1>4, <2>1 DEF Deliver, Forwarded, Typed, Sinks, Outs
<1>5. IsStrictPrefix(sink.delivered, again) => beyond \in Seq(STRING)
  BY <1>2, <1>3, BeyondCompletes
<1>6. up' \in Ups
  <2>1. up \in Ups /\ up.text \o d \in Seq(STRING)
    BY <1>2 DEF Typed
  <2> QED
    BY <1>1, <2>1 DEF Ups
<1>7. [sink EXCEPT !.regenerated = again] \in Sinks
  BY <1>3 DEF Typed, Sinks
<1>8. UNCHANGED <<hold, budget, prelude, resume, continuing, nudges, held>>
  BY DEF Delta
<1> HIDE DEF again, beyond
<1>9. \/ Deliver(d, sink.regenerated)
      \/ sink' = [sink EXCEPT !.regenerated = again] /\ UNCHANGED <<pc, out>>
      \/ IsStrictPrefix(sink.delivered, again) /\ Deliver(beyond, again)
      \/ Abort
  BY <1>1 DEF again, beyond
<1>10. pc' \in {"open", "stream", "closed"} /\ sink' \in Sinks /\ out' \in Outs
  BY <1>2, <1>3, <1>4, <1>5, <1>7, <1>9, AbortIsTyped DEF Typed
<1> QED
  BY <1>6, <1>8, <1>10 DEF Typed

LEMMA EventIsTyped ==
  ASSUME Typed, Event
  PROVE  Typed'
<1>1. CASE Created
  BY <1>1, UpIsTyped, SinkIsTyped, CountIsTyped DEF Created, Typed
<1>2. CASE ItemAdded
  BY <1>2, UpIsTyped, SinkIsTyped, CountIsTyped DEF ItemAdded, Typed
<1>3. CASE ItemDone
  BY <1>3, UpIsTyped, SinkIsTyped, CountIsTyped DEF ItemDone, Typed
<1>4. CASE OtherEvent
  <2>1. pc' \in {"open", "stream", "closed"} /\ sink' \in Sinks /\ out' \in Outs
    <3>1. (sink.textOnly /\ sink.reconciling) \in BOOLEAN
      OBVIOUS
    <3>2. sink' = [Forwarded(sink) EXCEPT !.textOnly = sink.textOnly /\ sink.reconciling]
            => sink' \in Sinks
      BY <3>1, SinkIsTyped
    <3> QED
      BY <1>4, <3>2, AbortIsTyped DEF OtherEvent, Forwarded, Typed
  <2> QED
    BY <1>4, <2>1, UpIsTyped DEF OtherEvent, Typed
<1>5. CASE ToolCall
  <2>1. pc' \in {"open", "stream", "closed"} /\ sink' \in Sinks /\ out' \in Outs
    BY <1>5, AbortIsTyped, SinkIsTyped, CountIsTyped DEF ToolCall, Typed
  <2> QED
    BY <1>5, <2>1, UpIsTyped DEF ToolCall, Typed
<1>6. CASE Terminal
  <2>1. pc' \in {"open", "stream", "closed"} /\ sink' \in Sinks /\ out' \in Outs
    BY <1>6, AbortIsTyped, EndIsTyped, SinkIsTyped DEF Terminal, Typed
  <2> QED
    BY <1>6, <2>1, UpIsTyped DEF Terminal, Typed
<1> QED
  BY <1>1, <1>2, <1>3, <1>4, <1>5, <1>6, DeltaIsTyped DEF Event

LEMMA StreamEndIsTyped ==
  ASSUME Typed, StreamEnd \/ ClientGone
  PROVE  Typed'
<1>0. "completed" \in Ends
  BY DEF Ends
<1>1. CASE Nudge
  BY <1>1 DEF Nudge, MaxWait, Typed, Budgets
<1>2. CASE SendHeld
  BY <1>0, <1>2, EndIsTyped DEF SendHeld, Typed
<1>3. CASE StreamDone
  BY <1>3 DEF StreamDone, Typed
<1>4. CASE ContinuationBroken
  BY <1>0, <1>4, EndIsTyped DEF ContinuationBroken, Typed
<1>5. CASE StructuredBroken
  BY <1>5, AbortIsTyped DEF StructuredBroken, Typed
<1>6. CASE RetryStream
  <2>1. budget' \in Budgets
    BY <1>6, ReserveIsTyped DEF RetryStream
  <2>2. resume' \subseteq Seq(STRING)
    BY <1>6 DEF RetryStream, Typed, Sinks
  <2> QED
    BY <1>6, <2>1, <2>2 DEF RetryStream, Typed
<1>7. CASE RetriesExhausted
  BY <1>7, CloseIsTyped DEF RetriesExhausted, Typed
<1>8. CASE ClientGone
  BY <1>8, CountIsTyped DEF ClientGone, Typed
<1> QED
  BY <1>1, <1>2, <1>3, <1>4, <1>5, <1>6, <1>7, <1>8 DEF StreamEnd

LEMMA NextIsTyped ==
  ASSUME Typed, Next
  PROVE  Typed'
BY OpeningIsTyped, EventIsTyped, StreamEndIsTyped DEF Next

-----------------------------------------------------------------------------
(* The inductive invariant. *)

\* The header goes to the client once, before any stream, and a text to resume is
\* kept from the end of one stream to the start of the next.
HeaderOnce ==
  /\ pc # "closed" => out.http = (IF prelude THEN 1 ELSE 0) /\ ~out.gone
  /\ pc = "stream" => prelude /\ resume = {}
  /\ \A p, q \in resume : p = q

\* Only a turn that was nudged has a withheld completion in hand, or goes on.
Withheld ==
  /\ held => prelude
  /\ held /\ pc # "closed" => nudges > 0
  /\ continuing => nudges > 0

\* While the request is not closed, the client has been told an end exactly when the
\* present stream has told one; the gateway has then nothing else to tell.
EndsFollow ==
  /\ pc = "open" => out.ends = <<>>
  /\ pc = "stream" =>
       /\ up.stage = "ended" <=> sink.terminal \/ sink.heldCompleted
       /\ ~(sink.terminal /\ sink.heldCompleted)
       /\ IF sink.terminal THEN Len(out.ends) = 1 ELSE out.ends = <<>>

\* A turn that was not nudged: what the sink knows of the client's text is the text,
\* and a stream is resumed from the whole of it.
TextFollows ==
  nudges = 0 =>
    /\ pc = "open" =>
         /\ \A p \in resume : p = out.text
         /\ resume = {} => out.text = <<>>
    /\ pc = "stream" =>
         /\ sink.delivered = out.text
         /\ CatchingUp => sink.regenerated = up.text
         /\ sink.sent \/ sink.reconciling \/ out.text = <<>>
         /\ sink.heldCompleted => out.text = up.text

\* No structured event has been sent since the last nudge.
NothingSent ==
  /\ out.added <= nudges
  /\ out.tools <= nudges
  /\ ~continuing => out.created = 0

\* A stream that need not be reconciled is the first of its kind that says anything.
EventsAreFirst ==
  /\ pc = "open" /\ resume = {} => NothingSent
  /\ pc = "stream" /\ ~sink.reconciling =>
       /\ ~sink.sent => NothingSent
       /\ up.stage = "start" /\ ~continuing => out.created = 0
       /\ up.stage \in {"start", "created"} => out.added <= nudges
       /\ "tool" \notin up.extras => out.tools <= nudges

\* What ClientHasOneAnswer says of the text.
AnswerFollows ==
  nudges = 0 =>
    /\ pc = "stream" =>
         IF CatchingUp THEN IsPrefix(up.text, out.text) ELSE out.text = up.text
    /\ out.ends = <<"completed">> => out.text = up.text

Control == HeaderOnce /\ Withheld /\ EndsFollow /\ EndsOnce /\ InterruptionIsReported
Texts == TextFollows /\ AnswerFollows
Events == EventsAreFirst /\ NothingReplayed
IInv == TypeOK /\ Control /\ Texts /\ Events

-----------------------------------------------------------------------------
(* The ends of the client's stream. *)

\* What an event that is not a terminal one leaves alone.
Quiet ==
  /\ UNCHANGED pc
  /\ sink'.terminal = sink.terminal /\ sink'.heldCompleted = sink.heldCompleted
  /\ out'.http = out.http /\ out'.gone = out.gone /\ out'.ends = out.ends

LEMMA EventsAreQuiet ==
  ASSUME Typed,
         Created \/ ItemAdded \/ Delta \/ ItemDone \/ OtherEvent \/ ToolCall
  PROVE  /\ pc = "stream" /\ up.stage # "ended" /\ up'.stage # "ended"
         /\ UNCHANGED <<hold, budget, prelude, resume, continuing, nudges, held>>
         /\ Abort \/ Quiet
<1>0. up \in Ups /\ sink \in Sinks /\ out \in Outs
  BY DEF Typed
<1> USE DEF Quiet, Forwarded, Streaming
<1>1. CASE Created
  BY <1>0, <1>1 DEF Created, Ups, Sinks, Outs
<1>2. CASE ItemAdded
  BY <1>0, <1>2 DEF ItemAdded, Ups, Sinks, Outs
<1>3. CASE Delta
  <2>1. /\ pc = "stream" /\ up.stage = "item"
        /\ UNCHANGED <<hold, budget, prelude, resume, continuing, nudges, held>>
    BY <1>3 DEF Delta
  <2>2. PICK d \in Deltas :
          /\ up' = [up EXCEPT !.text = @ \o d]
          /\ \/ \E text, again : Deliver(text, again)
             \/ \E again : sink' = [sink EXCEPT !.regenerated = again] /\ UNCHANGED <<pc, out>>
             \/ Abort
    BY <1>3, Zenon DEF Delta
  <2>3. up'.stage = "item"
    BY <1>0, <2>1, <2>2 DEF Ups
  <2>4. ASSUME NEW text, NEW again, Deliver(text, again)
        PROVE  Quiet
    BY <1>0, <2>4 DEF Deliver, Sinks, Outs
  <2>5. ASSUME NEW again, sink' = [sink EXCEPT !.regenerated = again], UNCHANGED <<pc, out>>
        PROVE  Quiet
    BY <1>0, <2>5 DEF Sinks
  <2> QED
    BY <2>1, <2>2, <2>3, <2>4, <2>5
<1>4. CASE ItemDone
  BY <1>0, <1>4 DEF ItemDone, Ups, Sinks, Outs
<1>5. CASE OtherEvent
  BY <1>0, <1>5 DEF OtherEvent, Ups, Sinks, Outs
<1>6. CASE ToolCall
  <2>1. /\ pc = "stream" /\ up.stage \in {"created", "item_done"}
        /\ up' = [up EXCEPT !.extras = @ \cup {"tool"}]
        /\ UNCHANGED <<hold, budget, prelude, resume, continuing, nudges, held>>
        /\ \/ Abort
           \/ /\ sink' = [Forwarded(sink) EXCEPT !.hadTool = TRUE, !.textOnly = FALSE]
              /\ out' = [out EXCEPT !.tools = @ + 1] /\ UNCHANGED pc
    BY <1>6 DEF ToolCall
  <2>2. up'.stage = up.stage
    BY <1>0, <2>1 DEF Ups
  <2>3. ASSUME sink' = [Forwarded(sink) EXCEPT !.hadTool = TRUE, !.textOnly = FALSE],
               out' = [out EXCEPT !.tools = @ + 1], UNCHANGED pc
        PROVE  Quiet
    BY <1>0, <2>3 DEF Sinks, Outs
  <2> QED
    BY <2>1, <2>2, <2>3
<1> QED
  BY <1>1, <1>2, <1>3, <1>4, <1>5, <1>6

\* How many ends there are after one more.
LEMMA OneMoreEnd ==
  ASSUME Typed, out.ends = <<>>, NEW e \in Ends, out' = [out EXCEPT !.ends = Append(@, e)]
  PROVE  /\ out'.ends = <<e>> /\ Len(out'.ends) = 1
         /\ out'.http = out.http /\ out'.gone = out.gone
BY DEF Typed, Outs

\* A request that is given up tells its stream's failure.
LEMMA AbortKeepsControl ==
  ASSUME Typed, Control, pc = "stream", up.stage # "ended", Abort,
         UNCHANGED <<prelude, resume, continuing, nudges, held>>
  PROVE  Control'
<1>1. out.ends = <<>> /\ out.http = 1 /\ ~out.gone /\ prelude
  BY DEF Control, EndsFollow, HeaderOnce
<1>2. pc' = "closed" /\ out' = [out EXCEPT !.ends = Append(@, "failed")]
  BY DEF Abort
<1>3. out'.ends = <<"failed">> /\ Len(out'.ends) = 1 /\ out'.http = 1 /\ ~out'.gone
  BY <1>1, <1>2, OneMoreEnd DEF Ends
<1> QED
  BY <1>1, <1>2, <1>3
  DEF Control, HeaderOnce, Withheld, EndsFollow, EndsOnce, InterruptionIsReported

LEMMA CloseKeepsControl ==
  ASSUME Typed, Control, NEW a \in {"limited", "error"}, Close(a),
         out.ends = <<>>, pc # "closed",
         UNCHANGED <<prelude, resume, continuing, nudges, held, up>>
  PROVE  Control'
<1>1. out.http = (IF prelude THEN 1 ELSE 0) /\ ~out.gone /\ (held => prelude /\ nudges > 0)
  BY DEF Control, HeaderOnce, Withheld
<1>2. pc' = "closed"
  BY DEF Close
<1>3. CASE held
  <2>1. out'.ends = <<"completed">> /\ Len(out'.ends) = 1
    BY <1>3, OneMoreEnd DEF Close, Ends
  <2> QED
    BY <1>1, <1>2, <1>3, <2>1
    DEF Control, HeaderOnce, Withheld, EndsFollow, EndsOnce, InterruptionIsReported
<1>4. CASE ~held /\ prelude
  <2>1. out'.ends = <<"failed">> /\ Len(out'.ends) = 1
    BY <1>4, OneMoreEnd DEF Close, Ends
  <2> QED
    BY <1>1, <1>2, <1>4, <2>1
    DEF Control, HeaderOnce, Withheld, EndsFollow, EndsOnce, InterruptionIsReported
<1>5. CASE ~held /\ ~prelude
  <2>1. out'.ends = <<>> /\ Len(out'.ends) = 0
    BY <1>5 DEF Close, Typed, Outs
  <2> QED
    BY <1>1, <1>2, <1>5, <2>1
    DEF Control, HeaderOnce, Withheld, EndsFollow, EndsOnce, InterruptionIsReported
<1> QED
  BY <1>3, <1>4, <1>5

LEMMA OpeningKeepsControl ==
  ASSUME Typed, Control, Opening
  PROVE  Control'
<1>1. CASE RetryOpen
  BY <1>1
  DEF RetryOpen, Control, HeaderOnce, Withheld, EndsFollow, EndsOnce, InterruptionIsReported
<1>2. CASE OpenFails
  <2>1. PICK a \in {"limited", "error"} : Close(a)
    BY <1>2 DEF OpenFails
  <2>2. out.ends = <<>> /\ pc = "open" /\ UNCHANGED <<prelude, resume, continuing, nudges, held, up>>
    BY <1>2 DEF OpenFails, Control, EndsFollow
  <2> QED
    BY <2>1, <2>2, CloseKeepsControl
<1>3. CASE JsonReply
  <2>1. /\ pc' = "closed" /\ pc = "open"
        /\ out'.http = out.http + 1 /\ out'.ends = out.ends /\ out'.gone = out.gone
        /\ UNCHANGED <<prelude, resume, continuing, nudges, held, up>>
    BY <1>3 DEF JsonReply, Typed, Outs
  <2>2. out.ends = <<>> /\ out.http = IF prelude THEN 1 ELSE 0
    BY <2>1 DEF Control, EndsFollow, HeaderOnce
  <2>3. Len(out'.ends) = 0 /\ (prelude => out'.http = 2)
    BY <2>1, <2>2
  <2> QED
    BY <2>1, <2>2, <2>3
    DEF Control, HeaderOnce, Withheld, EndsFollow, EndsOnce, InterruptionIsReported
<1>4. CASE StartStream
  <2>1. /\ pc' = "stream" /\ pc = "open" /\ prelude' /\ resume' = {}
        /\ out'.ends = out.ends /\ out'.gone = out.gone
        /\ out'.http = IF prelude THEN out.http ELSE out.http + 1
        /\ UNCHANGED <<continuing, nudges, held>>
    BY <1>4 DEF StartStream, Typed, Outs
  <2>2. /\ up'.stage = "start" /\ ~sink'.terminal /\ ~sink'.heldCompleted
    BY <1>4 DEF StartStream, FreshUp, FreshSink
  <2>3. out.ends = <<>> /\ ~out.gone /\ out.http = IF prelude THEN 1 ELSE 0
    BY <2>1 DEF Control, EndsFollow, HeaderOnce
  <2>4. out'.ends = <<>> /\ Len(out'.ends) = 0 /\ out'.http = 1
    BY <2>1, <2>3
  <2> QED
    BY <2>1, <2>2, <2>3, <2>4
    DEF Control, HeaderOnce, Withheld, EndsFollow, EndsOnce, InterruptionIsReported
<1> QED
  BY <1>1, <1>2, <1>3, <1>4 DEF Opening

LEMMA EventKeepsControl ==
  ASSUME Typed, Control, Event
  PROVE  Control'
<1>1. CASE Created \/ ItemAdded \/ Delta \/ ItemDone \/ OtherEvent \/ ToolCall
  <2>1. /\ pc = "stream" /\ up.stage # "ended" /\ up'.stage # "ended"
        /\ UNCHANGED <<hold, budget, prelude, resume, continuing, nudges, held>>
        /\ Abort \/ Quiet
    BY <1>1, EventsAreQuiet
  <2>2. CASE Abort
    BY <2>1, <2>2, AbortKeepsControl
  <2>3. CASE Quiet
    BY <2>1, <2>3
    DEF Quiet, Control, HeaderOnce, Withheld, EndsFollow, EndsOnce, InterruptionIsReported
  <2> QED
    BY <2>1, <2>2, <2>3
<1>2. CASE Terminal
  <2>1. /\ pc = "stream" /\ up.stage # "ended" /\ up' = [up EXCEPT !.stage = "ended"]
        /\ UNCHANGED <<hold, budget, prelude, resume, continuing, nudges, held>>
    BY <1>2 DEF Terminal, Streaming
  <2>2. /\ out.ends = <<>> /\ ~sink.terminal /\ ~sink.heldCompleted
        /\ out.http = 1 /\ ~out.gone /\ prelude
    BY <2>1 DEF Control, EndsFollow, HeaderOnce
  <2>3. up'.stage = "ended"
    BY <2>1 DEF Typed, Ups
  <2>4. CASE Abort
    BY <2>1, <2>4, AbortKeepsControl
  <2>5. CASE sink' = [sink EXCEPT !.heldCompleted = TRUE] /\ UNCHANGED <<out, pc>>
    <3>1. sink'.heldCompleted /\ ~sink'.terminal
      BY <2>2, <2>5 DEF Typed, Sinks
    <3> QED
      BY <2>1, <2>2, <2>3, <2>5, <3>1
      DEF Control, HeaderOnce, Withheld, EndsFollow, EndsOnce, InterruptionIsReported
  <2>6. ASSUME NEW kind \in Ends,
               sink' = [Forwarded(sink) EXCEPT !.terminal = TRUE],
               out' = [out EXCEPT !.ends = Append(@, kind)], UNCHANGED pc
        PROVE  Control'
    <3>1. sink'.terminal /\ ~sink'.heldCompleted
      BY <2>2, <2>6 DEF Forwarded, Typed, Sinks
    <3>2. Len(out'.ends) = 1 /\ out'.http = 1 /\ ~out'.gone
      BY <2>2, <2>6, OneMoreEnd
    <3> QED
      BY <2>1, <2>2, <2>3, <2>6, <3>1, <3>2
      DEF Control, HeaderOnce, Withheld, EndsFollow, EndsOnce, InterruptionIsReported
  <2> QED
    BY <1>2, <2>4, <2>5, <2>6 DEF Terminal
<1> QED
  BY <1>1, <1>2 DEF Event

LEMMA StreamEndKeepsControl ==
  ASSUME Typed, Control, StreamEnd \/ ClientGone
  PROVE  Control'
<1> USE DEF EndOfStream
<1>1. CASE Nudge
  <2>1. /\ pc = "stream" /\ pc' = "open" /\ sink.heldCompleted /\ nudges' = nudges + 1
        /\ continuing' /\ UNCHANGED <<prelude, resume, out>>
    BY <1>1 DEF Nudge
  <2>2. out.ends = <<>> /\ prelude /\ nudges' > 0
    BY <2>1 DEF Control, EndsFollow, HeaderOnce, Typed
  <2> QED
    BY <2>1, <2>2
    DEF Control, HeaderOnce, Withheld, EndsFollow, EndsOnce, InterruptionIsReported
<1>2. CASE SendHeld
  <2>1. /\ pc = "stream" /\ pc' = "closed" /\ sink.heldCompleted
        /\ out' = [out EXCEPT !.ends = Append(@, "completed")]
        /\ UNCHANGED <<prelude, resume, continuing, nudges, up>>
    BY <1>2 DEF SendHeld
  <2>2. out.ends = <<>> /\ up.stage = "ended" /\ prelude
    BY <2>1 DEF Control, EndsFollow, HeaderOnce
  <2>3. Len(out'.ends) = 1
    BY <2>1, <2>2, OneMoreEnd DEF Ends
  <2> QED
    BY <2>1, <2>2, <2>3
    DEF Control, HeaderOnce, Withheld, EndsFollow, EndsOnce, InterruptionIsReported
<1>3. CASE StreamDone
  BY <1>3
  DEF StreamDone, Control, HeaderOnce, Withheld, EndsFollow, EndsOnce, InterruptionIsReported
<1>4. CASE ContinuationBroken
  <2>1. /\ pc = "stream" /\ pc' = "closed" /\ ~sink.terminal /\ continuing
        /\ out' = [out EXCEPT !.ends = Append(@, "completed")]
        /\ UNCHANGED <<prelude, resume, continuing, nudges, held, up>>
    BY <1>4 DEF ContinuationBroken
  <2>2. out.ends = <<>> /\ nudges > 0
    BY <2>1 DEF Control, EndsFollow, Withheld
  <2>3. out'.ends = <<"completed">> /\ Len(out'.ends) = 1
    BY <2>1, <2>2, OneMoreEnd DEF Ends
  <2> QED
    BY <2>1, <2>2, <2>3
    DEF Control, HeaderOnce, Withheld, EndsFollow, EndsOnce, InterruptionIsReported
<1>5. CASE StructuredBroken
  <2>1. pc = "stream" /\ up.stage # "ended"
    BY <1>5 DEF StructuredBroken, Control, EndsFollow
  <2> QED
    BY <1>5, <2>1, AbortKeepsControl DEF StructuredBroken
<1>6. CASE RetryStream
  <2>1. /\ pc = "stream" /\ pc' = "open" /\ ~sink.terminal
        /\ resume' = {} \/ resume' = {sink.delivered}
        /\ UNCHANGED <<prelude, continuing, nudges, held, sink, up, out>>
    BY <1>6 DEF RetryStream, Retryable
  <2> QED
    BY <2>1
    DEF Control, HeaderOnce, Withheld, EndsFollow, EndsOnce, InterruptionIsReported
<1>7. CASE RetriesExhausted
  <2>1. out.ends = <<>> /\ pc = "stream"
    BY <1>7 DEF RetriesExhausted, Retryable, Control, EndsFollow
  <2> QED
    BY <1>7, <2>1, CloseKeepsControl DEF RetriesExhausted
<1>8. CASE ClientGone
  <2>1. /\ pc' = "closed" /\ out'.gone /\ out'.ends = out.ends
        /\ UNCHANGED <<prelude, resume, continuing, nudges, held, up>>
    BY <1>8 DEF ClientGone, Typed, Outs
  <2> QED
    BY <2>1
    DEF Control, HeaderOnce, Withheld, EndsFollow, EndsOnce, InterruptionIsReported
<1> QED
  BY <1>1, <1>2, <1>3, <1>4, <1>5, <1>6, <1>7, <1>8 DEF StreamEnd

LEMMA NextKeepsControl ==
  ASSUME Typed, Control, Next
  PROVE  Control'
BY OpeningKeepsControl, EventKeepsControl, StreamEndKeepsControl DEF Next

-----------------------------------------------------------------------------
(* Structured events are not replayed. *)

\* A step that closes the request, or sends no structured event in the stream it is in.
LEMMA ClosingKeepsEvents ==
  ASSUME Events, pc' = "closed", nudges' = nudges,
         out'.created = out.created, out'.added = out.added, out'.tools = out.tools
  PROVE  Events'
BY DEF Events, EventsAreFirst, NothingReplayed

LEMMA OpeningKeepsEvents ==
  ASSUME Typed, Events, Opening
  PROVE  Events'
<1>0. out \in Outs /\ up \in Ups /\ sink \in Sinks
  BY DEF Typed
<1>1. CASE RetryOpen
  BY <1>1 DEF RetryOpen, Events, EventsAreFirst, NothingSent, NothingReplayed
<1>2. CASE OpenFails \/ JsonReply
  <2>1. /\ pc' = "closed" /\ nudges' = nudges
        /\ out'.created = out.created /\ out'.added = out.added /\ out'.tools = out.tools
    BY <1>0, <1>2 DEF OpenFails, Close, JsonReply, Outs
  <2> QED
    BY <2>1, ClosingKeepsEvents
<1>3. CASE StartStream
  <2>1. /\ pc = "open" /\ pc' = "stream" /\ UNCHANGED <<nudges, continuing>>
        /\ out'.created = out.created /\ out'.added = out.added /\ out'.tools = out.tools
        /\ ~sink'.reconciling => resume = {}
    BY <1>0, <1>3 DEF StartStream, FreshSink, Outs
  <2> QED
    BY <2>1 DEF Events, EventsAreFirst, NothingSent, NothingReplayed
<1> QED
  BY <1>1, <1>2, <1>3 DEF Opening

LEMMA EventKeepsEvents ==
  ASSUME Typed, Events, Event
  PROVE  Events'
<1>0. out \in Outs /\ up \in Ups /\ sink \in Sinks /\ nudges \in Nat
  BY DEF Typed
<1>a. UNCHANGED <<nudges, continuing>> /\ pc = "stream"
  BY DEF Event, Created, ItemAdded, Delta, ItemDone, OtherEvent, ToolCall, Terminal, Streaming
<1>b. CASE Abort
  <2>1. /\ pc' = "closed"
        /\ out'.created = out.created /\ out'.added = out.added /\ out'.tools = out.tools
    BY <1>0, <1>b DEF Abort, Outs
  <2> QED
    BY <1>a, <2>1, ClosingKeepsEvents
<1> USE DEF Events, EventsAreFirst, NothingSent, NothingReplayed
<1>1. CASE Created
  <2>1. /\ pc' = "stream" /\ up.stage = "start" /\ up'.stage = "created"
        /\ up'.extras = up.extras
    BY <1>0, <1>1, <1>a DEF Created, Streaming, Ups
  <2>2. CASE continuing \/ sink.reconciling
    <3>1. UNCHANGED <<sink, out>>
      BY <1>1, <2>2 DEF Created
    <3> QED
      BY <1>a, <2>1, <2>2, <3>1
  <2>3. CASE ~continuing /\ ~sink.reconciling
    <3>1. /\ sink'.sent /\ ~sink'.reconciling
          /\ out'.created = out.created + 1 /\ out'.added = out.added /\ out'.tools = out.tools
      BY <1>0, <1>1, <2>3 DEF Created, Forwarded, Sinks, Outs
    <3>2. out.created = 0 /\ out.added <= nudges /\ (out.tools <= nudges \/ "tool" \in up.extras)
      BY <1>a, <2>1, <2>3
    <3>3. NothingReplayed'
      BY <1>a, <3>1, <3>2
    <3>4. EventsAreFirst'
      BY <1>a, <2>1, <3>1, <3>2
    <3> QED
      BY <3>3, <3>4
  <2> QED
    BY <2>2, <2>3
<1>2. CASE ItemAdded
  <2>1. /\ pc' = "stream" /\ up.stage = "created" /\ up'.stage = "item"
        /\ up'.extras = up.extras
    BY <1>0, <1>2, <1>a DEF ItemAdded, Streaming, Ups
  <2>2. CASE sink.reconciling
    <3>1. UNCHANGED <<sink, out>>
      BY <1>2, <2>2 DEF ItemAdded
    <3> QED
      BY <1>a, <2>1, <2>2, <3>1
  <2>3. CASE ~sink.reconciling
    <3>1. /\ sink'.sent /\ ~sink'.reconciling
          /\ out'.added = out.added + 1 /\ out'.created = out.created /\ out'.tools = out.tools
      BY <1>0, <1>2, <2>3 DEF ItemAdded, Forwarded, Sinks, Outs
    <3>2. /\ out.added <= nudges /\ out.added \in Nat
          /\ out.tools <= nudges \/ "tool" \in up.extras
      BY <1>0, <1>a, <2>1, <2>3 DEF Outs
    <3>3. NothingReplayed'
      BY <1>0, <1>a, <3>1, <3>2
    <3>4. EventsAreFirst'
      BY <1>a, <2>1, <3>1, <3>2
    <3> QED
      BY <3>3, <3>4
  <2> QED
    BY <2>2, <2>3
<1>3. CASE ToolCall /\ ~Abort
  <2>1. /\ pc' = "stream" /\ up'.stage = up.stage
        /\ "tool" \notin up.extras /\ "tool" \in up'.extras
        /\ sink'.sent /\ ~sink.reconciling /\ ~sink'.reconciling
        /\ out'.tools = out.tools + 1 /\ out'.created = out.created /\ out'.added = out.added
    <3>1. /\ "tool" \notin up.extras /\ up' = [up EXCEPT !.extras = @ \cup {"tool"}]
          /\ ~sink.reconciling
          /\ sink' = [Forwarded(sink) EXCEPT !.hadTool = TRUE, !.textOnly = FALSE]
          /\ out' = [out EXCEPT !.tools = @ + 1] /\ pc' = pc
      BY <1>3 DEF ToolCall
    <3>2. up'.stage = up.stage /\ "tool" \in up'.extras
      BY <1>0, <3>1 DEF Ups
    <3>3. sink'.sent /\ sink'.reconciling = sink.reconciling
      BY <1>0, <3>1 DEF Forwarded, Sinks
    <3>4. out'.tools = out.tools + 1 /\ out'.created = out.created /\ out'.added = out.added
      BY <1>0, <3>1 DEF Outs
    <3> QED
      BY <1>a, <3>1, <3>2, <3>3, <3>4
  <2>2. out.tools <= nudges /\ out.tools \in Nat
    BY <1>0, <1>a, <2>1 DEF Outs
  <2> QED
    BY <1>0, <1>a, <2>1, <2>2
<1>4. CASE (Delta \/ ItemDone \/ OtherEvent \/ Terminal) /\ ~Abort
  <2>1. /\ up.stage # "start"
        /\ up'.stage \in {"start", "created"} => up.stage \in {"start", "created"}
        /\ up'.stage # "start"
        /\ "tool" \in up'.extras <=> "tool" \in up.extras
    BY <1>0, <1>4 DEF Delta, ItemDone, OtherEvent, Terminal, Streaming, Ups
  <2>2. /\ pc' = pc
        /\ out'.created = out.created /\ out'.added = out.added /\ out'.tools = out.tools
        /\ sink'.reconciling = sink.reconciling /\ (sink.sent => sink'.sent)
    <3>1. CASE Delta
      <4>1. \/ \E text, again : Deliver(text, again)
            \/ \E again : sink' = [sink EXCEPT !.regenerated = again] /\ UNCHANGED <<pc, out>>
        BY <1>4, <3>1, Zenon DEF Delta
      <4> QED
        BY <1>0, <4>1 DEF Deliver, Forwarded, Sinks, Outs
    <3>2. CASE ItemDone
      BY <1>0, <3>2 DEF ItemDone, Forwarded, Sinks, Outs
    <3>3. CASE OtherEvent
      BY <1>0, <1>4, <3>3 DEF OtherEvent, Forwarded, Sinks, Outs
    <3>4. CASE Terminal
      BY <1>0, <1>4, <3>4 DEF Terminal, Forwarded, Sinks, Outs
    <3> QED
      BY <1>4, <3>1, <3>2, <3>3, <3>4
  <2> QED
    BY <1>0, <1>a, <2>1, <2>2
<1> QED
  BY <1>b, <1>1, <1>2, <1>3, <1>4 DEF Event

LEMMA StreamEndKeepsEvents ==
  ASSUME Typed, Control, Events, StreamEnd \/ ClientGone
  PROVE  Events'
<1>0. out \in Outs /\ nudges \in Nat
  BY DEF Typed
<1>1. CASE Nudge
  <2>1. /\ pc' = "open" /\ nudges' = nudges + 1 /\ continuing' /\ out' = out
    BY <1>1 DEF Nudge
  <2> QED
    BY <1>0, <2>1 DEF Events, EventsAreFirst, NothingSent, NothingReplayed, Outs
<1>2. CASE RetryStream
  <2>1. /\ pc = "stream" /\ pc' = "open" /\ UNCHANGED <<nudges, continuing, out>>
        /\ resume' = {} => ~sink.sent /\ ~sink.reconciling
    BY <1>2 DEF RetryStream, Retryable, EndOfStream
  <2> QED
    BY <2>1 DEF Events, EventsAreFirst, NothingSent, NothingReplayed
<1>3. CASE SendHeld \/ StreamDone \/ ContinuationBroken \/ StructuredBroken
           \/ RetriesExhausted \/ ClientGone
  <2>1. /\ pc' = "closed" /\ nudges' = nudges
        /\ out'.created = out.created /\ out'.added = out.added /\ out'.tools = out.tools
    BY <1>0, <1>3
    DEF SendHeld, StreamDone, ContinuationBroken, StructuredBroken, RetriesExhausted,
        ClientGone, Abort, Close, Outs
  <2> QED
    BY <2>1, ClosingKeepsEvents
<1> QED
  BY <1>1, <1>2, <1>3 DEF StreamEnd

LEMMA NextKeepsEvents ==
  ASSUME Typed, Control, Events, Next
  PROVE  Events'
BY OpeningKeepsEvents, EventKeepsEvents, StreamEndKeepsEvents DEF Next

-----------------------------------------------------------------------------
(* The text is one answer. *)

\* A request that ends with a failure, or without an end, has promised no answer.
LEMMA ClosingKeepsTexts ==
  ASSUME Texts, pc' = "closed", nudges' = nudges,
         \/ out'.ends # <<"completed">>
         \/ out'.ends = out.ends /\ out'.text = out.text /\ up'.text = up.text
  PROVE  Texts'
BY DEF Texts, TextFollows, AnswerFollows

LEMMA AbortKeepsTexts ==
  ASSUME Typed, Control, Texts, pc = "stream", up.stage # "ended", Abort, nudges' = nudges
  PROVE  Texts'
<1>1. out.ends = <<>> /\ "failed" \in Ends
  BY DEF Control, EndsFollow, Ends
<1>2. pc' = "closed" /\ out'.ends = <<"failed">>
  BY <1>1, OneMoreEnd DEF Abort
<1>3. <<"failed">> # <<"completed">>
  OBVIOUS
<1> QED
  BY <1>2, <1>3, ClosingKeepsTexts

LEMMA CloseKeepsTexts ==
  ASSUME Typed, Control, Texts, NEW a \in {"limited", "error"}, Close(a),
         out.ends = <<>>, pc # "closed", nudges' = nudges
  PROVE  Texts'
<1>1. pc' = "closed"
  BY DEF Close
<1>2. CASE held
  <2>1. nudges # 0
    BY <1>2 DEF Control, Withheld
  <2> QED
    BY <2>1 DEF Texts, TextFollows, AnswerFollows
<1>3. CASE ~held
  <2>1. out'.ends \in {<<>>, <<"failed">>}
    BY <1>3, OneMoreEnd DEF Close, Ends, Typed, Outs
  <2>2. <<>> # <<"completed">> /\ <<"failed">> # <<"completed">>
    OBVIOUS
  <2>3. out'.ends # <<"completed">>
    BY <2>1, <2>2
  <2> QED
    BY <1>1, <2>3, ClosingKeepsTexts
<1> QED
  BY <1>2, <1>3

LEMMA OpeningKeepsTexts ==
  ASSUME Typed, Control, Texts, Opening
  PROVE  Texts'
<1>0. out \in Outs /\ resume \subseteq Seq(STRING)
  BY DEF Typed
<1>1. CASE RetryOpen
  BY <1>1 DEF RetryOpen, Texts, TextFollows, AnswerFollows, CatchingUp
<1>2. CASE OpenFails
  <2>1. PICK a \in {"limited", "error"} : Close(a)
    BY <1>2 DEF OpenFails
  <2>2. out.ends = <<>> /\ pc = "open" /\ nudges' = nudges
    BY <1>2 DEF OpenFails, Control, EndsFollow
  <2> QED
    BY <2>1, <2>2, CloseKeepsTexts
<1>3. CASE JsonReply
  <2>1. /\ pc' = "closed" /\ nudges' = nudges /\ up'.text = up.text
        /\ out'.ends = out.ends /\ out'.text = out.text
    BY <1>0, <1>3 DEF JsonReply, Outs
  <2> QED
    BY <2>1, ClosingKeepsTexts
<1>4. CASE StartStream
  <2>1. /\ pc = "open" /\ pc' = "stream" /\ nudges' = nudges
        /\ out'.ends = out.ends /\ out'.text = out.text
    BY <1>0, <1>4 DEF StartStream, Outs
  <2>2. /\ up'.text = <<>> /\ sink'.regenerated = <<>> /\ ~sink'.caughtUp
        /\ ~sink'.heldCompleted /\ sink'.reconciling = (resume # {})
        /\ resume = {} => sink'.delivered = <<>>
        /\ resume # {} => sink'.delivered \in resume
    <3>1. resume # {} => (CHOOSE p \in resume : TRUE) \in resume
      <4> SUFFICES ASSUME resume # {} PROVE (CHOOSE p \in resume : TRUE) \in resume
        OBVIOUS
      <4>1. \E p \in resume : TRUE
        OBVIOUS
      <4> QED
        BY <4>1, Zenon
    <3> QED
      BY <1>4, <3>1 DEF StartStream, FreshSink, FreshUp
  <2>3. out.ends = <<>> /\ <<>> # <<"completed">>
    BY <2>1 DEF Control, EndsFollow
  <2> SUFFICES ASSUME nudges = 0 PROVE Texts'
    BY <2>1 DEF Texts, TextFollows, AnswerFollows
  <2>4. /\ \A p \in resume : p = out.text
        /\ resume = {} => out.text = <<>>
    BY <2>1 DEF Texts, TextFollows
  <2>5. sink'.delivered = out.text
    BY <2>2, <2>4
  <2>6. IsPrefix(<<>>, out.text)
    BY <1>0, EmptyIsAPrefix DEF Outs
  <2>7. CatchingUp' <=> resume # {}
    BY <2>2 DEF CatchingUp
  <2>8. TextFollows'
    BY <2>1, <2>2, <2>4, <2>5, <2>7 DEF TextFollows
  <2>9. AnswerFollows'
    BY <2>1, <2>2, <2>3, <2>4, <2>6, <2>7 DEF AnswerFollows
  <2> QED
    BY <2>8, <2>9 DEF Texts
<1> QED
  BY <1>1, <1>2, <1>3, <1>4 DEF Opening

\* An event that is not text.
LEMMA OtherEventsKeepTexts ==
  ASSUME Typed, Control, Texts, Created \/ ItemAdded \/ ItemDone \/ OtherEvent \/ ToolCall
  PROVE  Texts'
<1>0. out \in Outs /\ up \in Ups /\ sink \in Sinks
  BY DEF Typed
<1>1. pc = "stream" /\ up.stage # "ended" /\ nudges' = nudges /\ (Abort \/ Quiet)
  BY EventsAreQuiet
<1>2. CASE Abort
  BY <1>1, <1>2, AbortKeepsTexts
<1>3. CASE ~Abort /\ Quiet
  <2>1. /\ up'.text = up.text /\ out'.text = out.text
        /\ sink'.delivered = sink.delivered /\ sink'.regenerated = sink.regenerated
        /\ sink'.reconciling = sink.reconciling /\ sink'.caughtUp = sink.caughtUp
        /\ sink.sent => sink'.sent
    <3>1. CASE Created
      BY <1>0, <3>1 DEF Created, Forwarded, Ups, Sinks, Outs
    <3>2. CASE ItemAdded
      BY <1>0, <3>2 DEF ItemAdded, Forwarded, Ups, Sinks, Outs
    <3>3. CASE ItemDone
      BY <1>0, <3>3 DEF ItemDone, Forwarded, Ups, Sinks, Outs
    <3>4. CASE OtherEvent
      BY <1>0, <1>3, <3>4 DEF OtherEvent, Forwarded, Ups, Sinks, Outs
    <3>5. CASE ToolCall
      <4>1. /\ up' = [up EXCEPT !.extras = @ \cup {"tool"}]
            /\ sink' = [Forwarded(sink) EXCEPT !.hadTool = TRUE, !.textOnly = FALSE]
            /\ out' = [out EXCEPT !.tools = @ + 1]
        BY <1>3, <3>5 DEF ToolCall
      <4>2. up'.text = up.text /\ out'.text = out.text
        BY <1>0, <4>1 DEF Ups, Outs
      <4>3. /\ sink'.delivered = sink.delivered /\ sink'.regenerated = sink.regenerated
            /\ sink'.reconciling = sink.reconciling /\ sink'.caughtUp = sink.caughtUp
            /\ sink.sent => sink'.sent
        BY <1>0, <4>1 DEF Forwarded, Sinks
      <4> QED
        BY <4>2, <4>3
    <3> QED
      BY <3>1, <3>2, <3>3, <3>4, <3>5
  <2>2. CatchingUp' <=> CatchingUp
    BY <2>1 DEF CatchingUp
  <2> QED
    BY <1>1, <1>3, <2>1, <2>2 DEF Quiet, Texts, TextFollows, AnswerFollows
<1> QED
  BY <1>1, <1>2, <1>3

\* Output text: what goes to the client is what the upstream has said beyond it.
LEMMA DeltaKeepsTexts ==
  ASSUME Typed, Control, Texts, Delta
  PROVE  Texts'
<1>0. out \in Outs /\ up \in Ups /\ sink \in Sinks
  BY DEF Typed
<1>1. pc = "stream" /\ up.stage # "ended" /\ nudges' = nudges /\ (Abort \/ Quiet)
  BY EventsAreQuiet
<1>2. out.ends = <<>> /\ <<>> # <<"completed">> /\ ~sink.heldCompleted
  BY <1>1 DEF Control, EndsFollow
<1>3. PICK d \in Deltas :
        LET again == sink.regenerated \o d
            beyond == SubSeq(again, Len(sink.delivered) + 1, Len(again))
        IN  /\ up' = [up EXCEPT !.text = @ \o d]
            /\ \/ /\ ~CatchingUp
                  /\ Deliver(d, sink.regenerated)
               \/ /\ CatchingUp
                  /\ IsPrefix(again, sink.delivered)
                  /\ sink' = [sink EXCEPT !.regenerated = again]
                  /\ UNCHANGED <<pc, out>>
               \/ /\ CatchingUp
                  /\ IsStrictPrefix(sink.delivered, again)
                  /\ Deliver(beyond, again)
               \/ Abort
  BY DEF Delta
<1> DEFINE again == sink.regenerated \o d
           beyond == SubSeq(again, Len(sink.delivered) + 1, Len(again))
<1>4. /\ d \in Seq(STRING) /\ sink.delivered \in Seq(STRING)
      /\ again \in Seq(STRING)
      /\ up'.text = up.text \o d
  BY <1>0, <1>3, GatewayAssumption DEF Ups, Sinks
<1>5. ASSUME NEW x, NEW y, Deliver(x, y)
      PROVE  /\ pc' = pc /\ out'.text = out.text \o x /\ out'.ends = out.ends
             /\ sink'.delivered = sink.delivered \o x
             /\ sink'.reconciling = sink.reconciling /\ sink'.caughtUp = sink.reconciling
             /\ sink'.sent /\ sink'.heldCompleted = sink.heldCompleted
  BY <1>0, <1>5 DEF Deliver, Forwarded, Sinks, Outs
<1> SUFFICES ASSUME nudges = 0, ~Abort PROVE Texts'
  BY <1>1, AbortKeepsTexts DEF Texts, TextFollows, AnswerFollows
<1>6. /\ sink.delivered = out.text
      /\ CatchingUp => sink.regenerated = up.text
      /\ ~CatchingUp => out.text = up.text
  BY <1>1 DEF Texts, TextFollows, AnswerFollows
<1>7. CASE ~CatchingUp /\ Deliver(d, sink.regenerated)
  <2>1. ~CatchingUp'
    BY <1>5, <1>7 DEF CatchingUp
  <2> QED
    BY <1>1, <1>2, <1>4, <1>5, <1>6, <1>7, <2>1 DEF Texts, TextFollows, AnswerFollows
<1>8. CASE /\ CatchingUp /\ IsPrefix(again, sink.delivered)
           /\ sink' = [sink EXCEPT !.regenerated = again] /\ UNCHANGED <<pc, out>>
  <2>1. /\ sink'.regenerated = again /\ sink'.delivered = sink.delivered
        /\ sink'.reconciling = sink.reconciling /\ sink'.caughtUp = sink.caughtUp
        /\ sink'.sent = sink.sent /\ sink'.heldCompleted = sink.heldCompleted
    BY <1>0, <1>8 DEF Sinks
  <2>2. CatchingUp' /\ sink'.reconciling
    BY <1>8, <2>1 DEF CatchingUp
  <2>3. up'.text = again
    BY <1>4, <1>6, <1>8
  <2> QED
    BY <1>1, <1>2, <1>6, <1>8, <2>1, <2>2, <2>3 DEF Texts, TextFollows, AnswerFollows
<1>9. CASE CatchingUp /\ IsStrictPrefix(sink.delivered, again) /\ Deliver(beyond, again)
  <2>1. sink.delivered \o beyond = again
    <3>1. \A s, t \in Seq(STRING) :
            IsStrictPrefix(s, t) => s \o SubSeq(t, Len(s) + 1, Len(t)) = t
      BY BeyondCompletes
    <3> HIDE DEF again
    <3> QED
      BY <1>4, <1>9, <3>1, Zenon
  <2>2. out'.text = up'.text /\ sink'.delivered = out'.text
    BY <1>4, <1>5, <1>6, <1>9, <2>1
  <2>3. ~CatchingUp' /\ sink'.sent
    BY <1>5, <1>9 DEF CatchingUp
  <2>4. pc' = pc /\ out'.ends = out.ends /\ ~sink'.heldCompleted
    BY <1>2, <1>5, <1>9
  <2> QED
    BY <1>1, <1>2, <2>2, <2>3, <2>4 DEF Texts, TextFollows, AnswerFollows
<1> QED
  BY <1>3, <1>7, <1>8, <1>9

\* A completion that the client is given, or that is withheld, is of all the text.
LEMMA TerminalKeepsTexts ==
  ASSUME Typed, Control, Texts, Terminal
  PROVE  Texts'
<1>0. out \in Outs /\ up \in Ups /\ sink \in Sinks
  BY DEF Typed
<1>1. pc = "stream" /\ up.stage # "ended" /\ nudges' = nudges /\ up'.text = up.text
  BY <1>0 DEF Terminal, Streaming, Ups
<1>2. out.ends = <<>> /\ <<>> # <<"completed">>
  BY <1>1 DEF Control, EndsFollow
<1> SUFFICES ASSUME nudges = 0, ~Abort PROVE Texts'
  BY <1>1, AbortKeepsTexts DEF Texts, TextFollows, AnswerFollows
<1>3. PICK kind \in Ends :
        /\ ~CompletionDiffers(kind)
        /\ UNCHANGED pc
        /\ \/ /\ kind = "completed"
              /\ sink' = [sink EXCEPT !.heldCompleted = TRUE]
              /\ UNCHANGED out
           \/ /\ sink' = [Forwarded(sink) EXCEPT !.terminal = TRUE]
              /\ out' = [out EXCEPT !.ends = Append(@, kind)]
  BY DEF Terminal
<1>4. kind = "completed" => out.text = up.text
  BY <1>1, <1>3 DEF CompletionDiffers, Texts, TextFollows, AnswerFollows
<1>5. /\ sink'.delivered = sink.delivered /\ sink'.regenerated = sink.regenerated
      /\ sink'.reconciling = sink.reconciling /\ sink'.caughtUp = sink.caughtUp
      /\ sink.sent => sink'.sent
      /\ out'.text = out.text
  BY <1>0, <1>3 DEF Forwarded, Sinks, Outs
<1>6. CatchingUp' <=> CatchingUp
  BY <1>5 DEF CatchingUp
<1>7. CASE kind = "completed" /\ sink' = [sink EXCEPT !.heldCompleted = TRUE] /\ UNCHANGED out
  BY <1>1, <1>2, <1>3, <1>4, <1>5, <1>6, <1>7 DEF Texts, TextFollows, AnswerFollows
<1>8. CASE /\ sink' = [Forwarded(sink) EXCEPT !.terminal = TRUE]
           /\ out' = [out EXCEPT !.ends = Append(@, kind)]
  <2>1. out'.ends = <<kind>>
    BY <1>2, <1>8, OneMoreEnd
  <2>2. out'.ends = <<"completed">> => kind = "completed"
    BY <2>1
  <2>3. sink'.heldCompleted = sink.heldCompleted
    BY <1>0, <1>8 DEF Forwarded, Sinks
  <2> QED
    BY <1>1, <1>3, <1>4, <1>5, <1>6, <2>2, <2>3 DEF Texts, TextFollows, AnswerFollows
<1> QED
  BY <1>3, <1>7, <1>8

LEMMA StreamEndKeepsTexts ==
  ASSUME Typed, Control, Texts, StreamEnd \/ ClientGone
  PROVE  Texts'
<1>0. out \in Outs /\ sink \in Sinks /\ nudges \in Nat
  BY DEF Typed
<1> USE DEF EndOfStream
<1>1. CASE Nudge
  <2>1. nudges' # 0
    BY <1>0, <1>1 DEF Nudge
  <2> QED
    BY <2>1 DEF Texts, TextFollows, AnswerFollows
<1>2. CASE SendHeld
  <2>1. /\ pc = "stream" /\ pc' = "closed" /\ sink.heldCompleted /\ nudges' = nudges
        /\ up' = up /\ out'.text = out.text
    BY <1>0, <1>2 DEF SendHeld, Outs
  <2>2. nudges = 0 => out.text = up.text
    BY <2>1 DEF Texts, TextFollows
  <2> QED
    BY <2>1, <2>2 DEF Texts, TextFollows, AnswerFollows
<1>3. CASE StreamDone \/ ClientGone
  <2>1. /\ pc' = "closed" /\ nudges' = nudges /\ up' = up
        /\ out'.ends = out.ends /\ out'.text = out.text
    BY <1>0, <1>3 DEF StreamDone, ClientGone, Outs
  <2> QED
    BY <2>1, ClosingKeepsTexts
<1>4. CASE ContinuationBroken
  <2>1. nudges # 0 /\ nudges' = nudges
    BY <1>4 DEF ContinuationBroken, Control, Withheld
  <2> QED
    BY <2>1 DEF Texts, TextFollows, AnswerFollows
<1>5. CASE StructuredBroken
  <2>1. pc = "stream" /\ up.stage # "ended" /\ nudges' = nudges
    BY <1>5 DEF StructuredBroken, Control, EndsFollow
  <2> QED
    BY <1>5, <2>1, AbortKeepsTexts DEF StructuredBroken
<1>6. CASE RetryStream
  <2>1. /\ pc = "stream" /\ pc' = "open" /\ UNCHANGED <<nudges, up, out>>
        /\ resume' = IF sink.sent \/ sink.reconciling THEN {sink.delivered} ELSE {}
    BY <1>6 DEF RetryStream, Retryable
  <2> QED
    BY <2>1 DEF Texts, TextFollows, AnswerFollows
<1>7. CASE RetriesExhausted
  <2>1. out.ends = <<>> /\ pc = "stream" /\ nudges' = nudges
    BY <1>7 DEF RetriesExhausted, Retryable, Control, EndsFollow
  <2> QED
    BY <1>7, <2>1, CloseKeepsTexts DEF RetriesExhausted
<1> QED
  BY <1>1, <1>2, <1>3, <1>4, <1>5, <1>6, <1>7 DEF StreamEnd

LEMMA NextKeepsTexts ==
  ASSUME Typed, Control, Texts, Next
  PROVE  Texts'
BY OpeningKeepsTexts, OtherEventsKeepTexts, DeltaKeepsTexts, TerminalKeepsTexts,
   StreamEndKeepsTexts
DEF Next, Event

-----------------------------------------------------------------------------
\* What the gateway keeps true: its types, and how the ends, the text and the
\* structured events that the client has follow what the stream being read has said.
THEOREM GatewayInvariant == Spec => []IInv
<1>1. Init => IInv
  <2> SUFFICES ASSUME Init PROVE IInv
    OBVIOUS
  <2>1. <<>> \in Seq(STRING) /\ <<>> \in Seq(Ends) /\ Len(<<>>) = 0 /\ <<>> # <<"completed">>
    OBVIOUS
  <2>2. Typed
    <3>1. up \in Ups
      BY <2>1 DEF Init, FreshUp, Ups
    <3>2. sink \in Sinks
      BY <2>1 DEF Init, FreshSink, Sinks
    <3>3. out \in Outs
      BY <2>1 DEF Init, Outs
    <3>4. budget \in Budgets
      BY GatewayAssumption DEF Init, Budgets
    <3>5. resume \subseteq Seq(STRING) /\ nudges \in 0 .. 2
      BY DEF Init
    <3>6. hold \in BOOLEAN /\ pc \in {"open", "stream", "closed"}
          /\ prelude \in BOOLEAN /\ continuing \in BOOLEAN /\ held \in BOOLEAN
      BY GatewayAssumption DEF Init
    <3> QED
      BY <3>1, <3>2, <3>3, <3>4, <3>5, <3>6 DEF Typed
  <2>3. Control
    BY <2>1
    DEF Init, Control, HeaderOnce, Withheld, EndsFollow, EndsOnce, InterruptionIsReported
  <2>4. Texts /\ Events
    BY <2>1
    DEF Init, Texts, TextFollows, AnswerFollows, Events, EventsAreFirst, NothingSent,
        NothingReplayed
  <2> QED
    BY <2>2, <2>3, <2>4, TypesNamed DEF IInv
<1>2. IInv /\ [Next]_vars => IInv'
  <2>1. ASSUME IInv, UNCHANGED vars PROVE IInv'
    <3>1. TypeOK'
      BY <2>1 DEF vars, IInv, TypeOK
    <3>2. Control'
      BY <2>1
      DEF vars, IInv, Control, HeaderOnce, Withheld, EndsFollow, EndsOnce,
          InterruptionIsReported
    <3>3. Texts'
      BY <2>1 DEF vars, IInv, Texts, TextFollows, AnswerFollows, CatchingUp
    <3>4. Events'
      BY <2>1 DEF vars, IInv, Events, EventsAreFirst, NothingSent, NothingReplayed
    <3> QED
      BY <3>1, <3>2, <3>3, <3>4 DEF IInv
  <2>2. ASSUME IInv, Next PROVE IInv'
    BY <2>2, TypesNamed, NextIsTyped, NextKeepsControl, NextKeepsTexts, NextKeepsEvents
    DEF IInv
  <2> QED
    BY <2>1, <2>2
<1> QED
  BY <1>1, <1>2, PTL DEF Spec

\* The gateway's state is well formed.
THEOREM TypeCorrect == Spec => []TypeOK
BY GatewayInvariant, PTL DEF IInv

\* The client holds one consistent answer: what it has is what the present upstream
\* stream has said, or is being repeated, what is reported as completed is what an
\* upstream completed, and its end is told once (run Turn).
THEOREM OneAnswer == Spec => []ClientHasOneAnswer
<1>1. IInv => ClientHasOneAnswer
  BY DEF IInv, Control, Texts, AnswerFollows, ClientHasOneAnswer
<1> QED
  BY <1>1, GatewayInvariant, PTL

\* A stream that broke off is reported to the client as failed, unless a completion
\* had been withheld (run Turn).
THEOREM InterruptionReported == Spec => []InterruptionIsReported
<1>1. IInv => InterruptionIsReported
  BY DEF IInv, Control
<1> QED
  BY <1>1, GatewayInvariant, PTL

\* However often a stream is repeated, no structured event of it is (run Turn).
THEOREM NotReplayed == Spec => []NothingReplayed
<1>1. IInv => NothingReplayed
  BY DEF IInv, Events
<1> QED
  BY <1>1, GatewayInvariant, PTL

-----------------------------------------------------------------------------
(* The gateway implements ClientStream. *)

\* The client's view of the response.
Status ==
  IF out.ends # <<>> THEN "ended"
  ELSE IF out.http = 0 THEN "waiting"
  ELSE IF prelude THEN "open" ELSE "error"

\* Codex sees no difference.
Unseen == Status' = Status /\ out'.text = out.text

LEMMA PromiseByStatus ==
  /\ Promise!Init <=> Status = "waiting" /\ out.text = <<>>
  /\ Promise!Open <=> Status = "waiting" /\ Status' = "open" /\ out'.text = out.text
  /\ Promise!Refuse <=> Status = "waiting" /\ Status' = "error" /\ out'.text = out.text
  /\ Promise!Say <=>
       Status = "open" /\ IsStrictPrefix(out.text, out'.text) /\ Status' = Status
  /\ Promise!End <=> Status = "open" /\ Status' = "ended" /\ out'.text = out.text
<1>1. Promise!Init <=> Status = "waiting" /\ out.text = <<>>
  BY DEF Status, Promise!Init
<1>2. Promise!Open <=> Status = "waiting" /\ Status' = "open" /\ out'.text = out.text
  BY DEF Status, Promise!Open
<1>3. Promise!Refuse <=> Status = "waiting" /\ Status' = "error" /\ out'.text = out.text
  BY DEF Status, Promise!Refuse
<1>4. Promise!Say <=>
        Status = "open" /\ IsStrictPrefix(out.text, out'.text) /\ Status' = Status
  <2>1. Promise!IsStrictPrefix(out.text, out'.text) <=> IsStrictPrefix(out.text, out'.text)
    BY DEF Promise!IsStrictPrefix, Promise!IsPrefix, IsStrictPrefix, IsPrefix
  <2> QED
    BY <2>1 DEF Status, Promise!Say
<1>5. Promise!End <=> Status = "open" /\ Status' = "ended" /\ out'.text = out.text
  BY DEF Status, Promise!End
<1> QED
  BY <1>1, <1>2, <1>3, <1>4, <1>5

\* The first end that an open stream is given.
LEMMA EndIsPromised ==
  ASSUME Typed, out.ends = <<>>, out.http = 1, prelude, NEW e \in Ends,
         out' = [out EXCEPT !.ends = Append(@, e)]
  PROVE  Promise!End
<1>1. Status = "open"
  BY DEF Status
<1>2. out'.ends = <<e>> /\ <<e>> # <<>>
  BY OneMoreEnd
<1>3. Status' = "ended" /\ out'.text = out.text
  BY <1>2 DEF Status, Typed, Outs
<1> QED
  BY <1>1, <1>3, PromiseByStatus

\* An HTTP error or a JSON answer: unseen by a client that has been given a stream.
LEMMA AnswerIsPromised ==
  ASSUME Typed, Control, pc = "open", prelude' = prelude, NEW a,
         out' = [out EXCEPT !.http = @ + 1, !.answer = a]
  PROVE  Promise!Refuse \/ Unseen
<1>1. out.ends = <<>> /\ out.http = IF prelude THEN 1 ELSE 0
  BY DEF Control, EndsFollow, HeaderOnce
<1>2. out'.ends = out.ends /\ out'.http = out.http + 1 /\ out'.text = out.text
  BY DEF Typed, Outs
<1>3. Status' = IF prelude THEN "open" ELSE "error"
  BY <1>1, <1>2 DEF Status
<1>4. Status = IF prelude THEN "open" ELSE "waiting"
  BY <1>1 DEF Status
<1> QED
  BY <1>2, <1>3, <1>4, PromiseByStatus DEF Unseen

LEMMA CloseIsPromised ==
  ASSUME Typed, Control, pc # "closed", out.ends = <<>>, pc = "stream" \/ pc = "open",
         NEW a, Close(a), prelude' = prelude
  PROVE  Promise!End \/ Promise!Refuse \/ Unseen
<1>1. "completed" \in Ends /\ "failed" \in Ends
  BY DEF Ends
<1>2. CASE prelude
  <2>1. out.http = 1
    BY <1>2 DEF Control, HeaderOnce
  <2>2. \E e \in Ends : out' = [out EXCEPT !.ends = Append(@, e)]
    BY <1>1, <1>2 DEF Close
  <2> QED
    BY <1>2, <2>1, <2>2, EndIsPromised
<1>3. CASE ~prelude
  <2>1. pc = "open" /\ ~held
    BY <1>3 DEF Control, HeaderOnce, Withheld
  <2>2. out' = [out EXCEPT !.http = @ + 1, !.answer = a]
    BY <1>3, <2>1 DEF Close
  <2> QED
    BY <2>1, <2>2, AnswerIsPromised
<1> QED
  BY <1>2, <1>3

\* A step of an open stream that neither ends it nor adds text.
LEMMA QuietIsUnseen ==
  ASSUME prelude' = prelude, out'.ends = out.ends, out'.http = out.http,
         out'.text = out.text
  PROVE  Unseen
BY DEF Unseen, Status

LEMMA OpeningIsPromised ==
  ASSUME Typed, Control, Opening
  PROVE  Promise!Next \/ Unseen
<1>1. pc = "open" /\ out.ends = <<>> /\ out.http = IF prelude THEN 1 ELSE 0
  BY DEF Opening, RetryOpen, OpenFails, JsonReply, StartStream, Control, EndsFollow,
         HeaderOnce
<1>2. CASE RetryOpen
  BY <1>2, QuietIsUnseen DEF RetryOpen
<1>3. CASE OpenFails
  <2>1. prelude' = prelude /\ \E a : Close(a)
    BY <1>3 DEF OpenFails
  <2> QED
    BY <1>1, <2>1, CloseIsPromised DEF Promise!Next
<1>4. CASE JsonReply
  <2>1. prelude' = prelude /\ \E a : out' = [out EXCEPT !.http = @ + 1, !.answer = a]
    BY <1>4 DEF JsonReply
  <2> QED
    BY <1>1, <2>1, AnswerIsPromised DEF Promise!Next
<1>5. CASE StartStream
  <2>1. /\ prelude' /\ out'.http = 1 /\ out'.ends = <<>> /\ out'.text = out.text
    BY <1>1, <1>5 DEF StartStream, Typed, Outs
  <2>2. Status' = "open" /\ Status = IF prelude THEN "open" ELSE "waiting"
    BY <1>1, <2>1 DEF Status
  <2> QED
    BY <2>1, <2>2, PromiseByStatus DEF Promise!Next, Unseen
<1> QED
  BY <1>2, <1>3, <1>4, <1>5 DEF Opening

\* Every piece of text that goes to the client adds to what it has.
LEMMA DeltaIsPromised ==
  ASSUME Typed, Control, Delta, ~Abort
  PROVE  Promise!Say \/ Unseen
<1>0. /\ out \in Outs /\ sink \in Sinks /\ prelude' = prelude
      /\ pc = "stream" /\ up.stage = "item"
  BY DEF Typed, Delta, Streaming
<1>1. prelude /\ out.http = 1 /\ out.ends = <<>>
  BY <1>0 DEF Control, HeaderOnce, EndsFollow
<1>2. Status = "open"
  BY <1>1 DEF Status
<1>3. ASSUME NEW x \in Seq(STRING) \ {<<>>}, NEW y, Deliver(x, y)
      PROVE  Promise!Say
  <2>1. out'.text = out.text \o x /\ out'.ends = out.ends /\ out'.http = out.http
    BY <1>0, <1>3 DEF Deliver, Outs
  <2>2. Status' = "open"
    BY <1>0, <1>1, <2>1 DEF Status
  <2>3. IsStrictPrefix(out.text, out'.text)
    BY <1>0, <1>3, <2>1, ConcatExtends DEF Outs
  <2> QED
    BY <1>2, <2>2, <2>3, PromiseByStatus
<1>4. PICK d \in Deltas :
        LET again == sink.regenerated \o d
            beyond == SubSeq(again, Len(sink.delivered) + 1, Len(again))
        IN  \/ Deliver(d, sink.regenerated)
            \/ out' = out
            \/ IsStrictPrefix(sink.delivered, again) /\ Deliver(beyond, again)
  BY DEF Delta
<1> DEFINE again == sink.regenerated \o d
           beyond == SubSeq(again, Len(sink.delivered) + 1, Len(again))
<1>5. /\ d \in Seq(STRING) \ {<<>>} /\ sink.delivered \in Seq(STRING)
      /\ again \in Seq(STRING)
  BY <1>0, GatewayAssumption DEF Sinks
<1>6. CASE Deliver(d, sink.regenerated)
  BY <1>3, <1>5, <1>6
<1>7. CASE out' = out
  BY <1>0, <1>7, QuietIsUnseen
<1>8. CASE IsStrictPrefix(sink.delivered, again) /\ Deliver(beyond, again)
  <2>1. \A s, t \in Seq(STRING) : IsStrictPrefix(s, t) =>
          SubSeq(t, Len(s) + 1, Len(t)) \in Seq(STRING) \ {<<>>}
    BY BeyondCompletes
  <2>2. beyond \in Seq(STRING) \ {<<>>}
    <3> HIDE DEF again
    <3> QED
      BY <1>5, <1>8, <2>1, Zenon
  <2> HIDE DEF again, beyond
  <2> QED
    BY <1>3, <1>8, <2>2
<1> QED
  BY <1>4, <1>6, <1>7, <1>8

LEMMA EventIsPromised ==
  ASSUME Typed, Control, Event
  PROVE  Promise!Next \/ Unseen
<1>0. out \in Outs /\ prelude' = prelude /\ pc = "stream" /\ up.stage # "ended"
  BY DEF Typed, Event, Created, ItemAdded, Delta, ItemDone, OtherEvent, ToolCall, Terminal,
         Streaming
<1>1. prelude /\ out.http = 1 /\ out.ends = <<>>
  BY <1>0 DEF Control, HeaderOnce, EndsFollow
<1>2. CASE Abort
  <2>1. out' = [out EXCEPT !.ends = Append(@, "failed")] /\ "failed" \in Ends
    BY <1>2 DEF Abort, Ends
  <2> QED
    BY <1>1, <2>1, EndIsPromised DEF Promise!Next
<1>3. CASE Delta /\ ~Abort
  BY <1>3, DeltaIsPromised DEF Promise!Next
<1>4. CASE Terminal /\ ~Abort
  <2>1. \/ out' = out
        \/ \E e \in Ends : out' = [out EXCEPT !.ends = Append(@, e)]
    BY <1>4 DEF Terminal
  <2> QED
    BY <1>0, <1>1, <2>1, EndIsPromised, QuietIsUnseen DEF Promise!Next
<1>5. CASE (Created \/ ItemAdded \/ ItemDone \/ OtherEvent \/ ToolCall) /\ ~Abort
  <2>1. out'.ends = out.ends /\ out'.http = out.http /\ out'.text = out.text
    BY <1>0, <1>5 DEF Created, ItemAdded, ItemDone, OtherEvent, ToolCall, Outs
  <2> QED
    BY <1>0, <2>1, QuietIsUnseen
<1> QED
  BY <1>2, <1>3, <1>4, <1>5 DEF Event

LEMMA StreamEndIsPromised ==
  ASSUME Typed, Control, StreamEnd \/ ClientGone
  PROVE  Promise!Next \/ Unseen
<1>0. out \in Outs /\ prelude' = prelude
  BY DEF Typed, StreamEnd, Nudge, SendHeld, StreamDone, ContinuationBroken, StructuredBroken,
         RetryStream, RetriesExhausted, ClientGone
<1>1. CASE Nudge \/ StreamDone \/ RetryStream \/ ClientGone
  <2>1. out'.ends = out.ends /\ out'.http = out.http /\ out'.text = out.text
    BY <1>0, <1>1 DEF Nudge, StreamDone, RetryStream, ClientGone, Outs
  <2> QED
    BY <1>0, <2>1, QuietIsUnseen
<1>2. CASE SendHeld \/ ContinuationBroken \/ StructuredBroken
  <2>1. /\ pc = "stream" /\ ~sink.terminal
        /\ \E e \in Ends : out' = [out EXCEPT !.ends = Append(@, e)]
    <3>1. pc = "stream" /\ (sink.heldCompleted \/ ~sink.terminal)
      BY <1>2 DEF SendHeld, ContinuationBroken, StructuredBroken, EndOfStream
    <3>2. sink.terminal /\ sink.heldCompleted => FALSE
      BY <3>1 DEF Control, EndsFollow
    <3>3. \E e \in {"completed", "failed"} : out' = [out EXCEPT !.ends = Append(@, e)]
      BY <1>2 DEF SendHeld, ContinuationBroken, StructuredBroken, Abort
    <3> QED
      BY <3>1, <3>2, <3>3 DEF Ends
  <2>2. prelude /\ out.http = 1 /\ out.ends = <<>>
    BY <2>1 DEF Control, HeaderOnce, EndsFollow
  <2> QED
    BY <2>1, <2>2, EndIsPromised DEF Promise!Next
<1>3. CASE RetriesExhausted
  <2>1. pc = "stream" /\ ~sink.terminal /\ Close("error")
    BY <1>3 DEF RetriesExhausted, Retryable, EndOfStream
  <2>2. out.ends = <<>>
    BY <2>1 DEF Control, EndsFollow
  <2> QED
    BY <1>0, <2>1, <2>2, CloseIsPromised DEF Promise!Next
<1> QED
  BY <1>1, <1>2, <1>3 DEF StreamEnd

\* Codex waits, and is then given either an HTTP error or one stream, whose text only
\* grows and which nothing follows once it has ended, whatever streams the gateway
\* opens, loses, repeats and nudges meanwhile (run Turn).
THEOREM PromiseKept == Spec => KeepsThePromise
<1>1. Init => Promise!Init
  <2> SUFFICES ASSUME Init PROVE Status = "waiting" /\ out.text = <<>>
    BY PromiseByStatus
  <2> QED
    BY DEF Init, Status
<1>2. IInv /\ [Next]_vars => Promise!Next \/ Unseen
  <2>1. IInv => Typed /\ Control
    BY TypesNamed DEF IInv
  <2>2. ASSUME UNCHANGED vars PROVE Unseen
    BY <2>2, QuietIsUnseen DEF vars
  <2>3. ASSUME Typed, Control, Next PROVE Promise!Next \/ Unseen
    BY <2>3, OpeningIsPromised, EventIsPromised, StreamEndIsPromised DEF Next
  <2> QED
    BY <2>1, <2>2, <2>3
<1>3. IInv /\ [Next]_vars => [Promise!Next]_<<Status, out.text>>
  BY <1>2 DEF Unseen
<1> QED
  BY <1>1, <1>3, GatewayInvariant, PTL DEF Spec, Status, KeepsThePromise, Promise!Spec
==============================================================================
