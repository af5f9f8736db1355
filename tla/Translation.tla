---------------------------- MODULE Translation ----------------------------
(***************************************************************************)
(* How the gateway turns the stream of a provider that speaks Chat         *)
(* Completions into Responses events (logic/responses_compat.rs).          *)
(*                                                                         *)
(* A provider writes everything into one text: prose, reasoning between    *)
(* think tags, tool calls that leaked into the prose and, for DeepSeek,    *)
(* tool markup.  Any of these may be cut anywhere by the chunks of the     *)
(* stream, so each layer holds back what it cannot classify yet.  A text   *)
(* is a sequence of tokens; xA and xB are the two parts of a cut token, a  *)
(* tag being cut where the code still recognises its first part.           *)
(* Responses streams take the same scan of think tags, event by event.     *)
(***************************************************************************)
EXTENDS Integers, Sequences, SequencesExt, FiniteSetsExt

CONSTANTS
  Vocabularies,  \* the sets of tokens a provider may draw its text from
  MaxText,       \* the longest text of a turn
  MaxChunk,      \* the longest text of a chunk
  MaxToolChunks, \* the native tool deltas of a turn
  Indexes        \* the indexes of native tool calls

VARIABLES
  vocabulary,    \* the tokens of this provider
  mode,          \* "chat", "deepseek" or "responses"
  s,             \* SseThinkState, and the events it has emitted
  said,          \* the text of the provider so far
  asked          \* the native tool deltas so far, [index, argument]

vars == <<vocabulary, mode, s, said, asked>>

Wholes == {"open", "close", "json", "inv", "end", "call"}
Halves(w) ==
  CASE w = "open" -> <<"openA", "openB">> [] w = "close" -> <<"closeA", "closeB">>
    [] w = "json" -> <<"jsonA", "jsonB">> [] w = "inv" -> <<"invA", "invB">>
    [] w = "end" -> <<"endA", "endB">>    [] w = "call" -> <<"callA", "callB">>

\* The token that is cut between the end of one text and the head of the next.
Join(a, b) == {w \in Wholes : Halves(w) = <<a, b>>}

\* What the bytes of a text say: two halves in a row are the token.
AppendToken(text, x) ==
  LET joined == IF text = <<>> THEN {} ELSE Join(Last(text), x)
  IN IF joined = {} THEN Append(text, x)
     ELSE Append(Front(text), CHOOSE w \in joined : TRUE)
Joined(text) ==
  LET read[n \in 0 .. Len(text)] ==
        IF n = 0 THEN <<>> ELSE AppendToken(read[n - 1], text[n])
  IN read[Len(text)]

-----------------------------------------------------------------------------
(* DeepSeekDsmlScan: the markup of an invocation is dropped, and so is the  *)
(* call in function notation that follows it.                              *)

FreshDsml == [inside |-> FALSE, suppress |-> FALSE, hold |-> <<>>]

DsmlToken(r, x) ==
  LET d == r.d
      plain == [d EXCEPT !.suppress = FALSE]
  IN IF x = "inv" THEN [r EXCEPT !.d = [d EXCEPT !.inside = TRUE, !.suppress = FALSE]]
     ELSE IF x = "end" THEN [r EXCEPT !.d = [d EXCEPT !.inside = FALSE, !.suppress = TRUE]]
     ELSE IF x \in {"invA", "endA"} /\ r.last
          THEN [r EXCEPT !.d = [(IF d.inside THEN d ELSE plain) EXCEPT !.hold = <<x>>]]
     ELSE IF d.inside THEN r
     ELSE IF d.suppress /\ x = "call" THEN [r EXCEPT !.d = plain]
     ELSE IF d.suppress /\ x = "callA" /\ r.last THEN [r EXCEPT !.d.hold = <<x>>]
     ELSE [r EXCEPT !.d = plain, !.visible = Append(@, x)]

DsmlScan(d, src) ==
  LET seen[n \in 0 .. Len(src)] ==
        IF n = 0 THEN [d |-> [d EXCEPT !.hold = <<>>], visible |-> <<>>, last |-> FALSE]
        ELSE DsmlToken([seen[n - 1] EXCEPT !.last = n = Len(src)], src[n])
  IN seen[Len(src)]

\* A slip for the sensitivity checks: what was held is forgotten.
DsmlPushAnew(d, text) == DsmlScan(d, text)

\* DeepSeekDsmlScan::push: the held text is scanned again with what follows.
DsmlPush(d, text) == DsmlScan(d, Joined(d.hold \o text))

-----------------------------------------------------------------------------
(* ThinkScan.                                                              *)

FreshScan == [inside |-> FALSE, hold |-> <<>>]

Piece(inside, text) ==
  IF text = <<>> THEN <<>>
  ELSE <<[kind |-> IF inside THEN "think" ELSE "visible", text |-> text]>>

\* find_open_think, find_close_think: the tag that ends the piece, and the first
\* part of it, which is held when the text ends with it.
Tag(inside) == IF inside THEN "close" ELSE "open"
Held(inside, text) ==
  IF text # <<>> /\ Last(text) = Halves(Tag(inside))[1] THEN <<Last(text)>> ELSE <<>>

ScanToken(r, x) ==
  IF x = Tag(r.inside)
  THEN [pieces |-> r.pieces \o Piece(r.inside, r.text), inside |-> ~r.inside, text |-> <<>>]
  ELSE [r EXCEPT !.text = Append(@, x)]

Scan(src, inside) ==
  LET seen[n \in 0 .. Len(src)] ==
        IF n = 0 THEN [pieces |-> <<>>, inside |-> inside, text |-> <<>>]
        ELSE ScanToken(seen[n - 1], src[n])
      r == seen[Len(src)]
      held == Held(r.inside, r.text)
  IN [ pieces |-> r.pieces \o Piece(r.inside, SubSeq(r.text, 1, Len(r.text) - Len(held))),
       scan |-> [inside |-> r.inside, hold |-> held] ]

\* A slip for the sensitivity checks: what was held is not scanned again.
ScanPushApart(scan, text) ==
  LET r == Scan(Joined(text), scan.inside) IN
  [r EXCEPT !.pieces = Piece(scan.inside, scan.hold) \o @]

ScanPush(scan, text) == Scan(Joined(scan.hold \o text), scan.inside)

ScanFlush(scan) == Piece(scan.inside, scan.hold)

-----------------------------------------------------------------------------
(* The items of the Responses stream.                                       *)

Emit(st, event) == [st EXCEPT !.out = Append(@, event)]
Added(of, at) == [e |-> "added", of |-> of, at |-> at, text |-> <<>>]
Delta(of, at, text) == [e |-> "delta", of |-> of, at |-> at, text |-> text]
Done(of, at, text) == [e |-> "done", of |-> of, at |-> at, text |-> text]

CloseReasoning(st) ==
  IF ~st.reasoning.open THEN st
  ELSE [Emit(st, Done("reasoning", st.reasoning.at, <<>>))
          EXCEPT !.reasoning.open = FALSE]

\* ensure_reasoning_open: in a Responses stream the item is put at index 0.
EnsureReasoningOpen(st) ==
  IF st.reasoning.open THEN st
  ELSE LET at == IF st.chat THEN st.next ELSE 0
       IN [Emit(st, Added("reasoning", at))
             EXCEPT !.reasoning = [open |-> TRUE, at |-> at],
                    !.next = IF st.chat THEN @ + 1 ELSE @]

EmitThinkDelta(st, text) ==
  IF text = <<>> THEN st
  ELSE LET opened == EnsureReasoningOpen(st)
       IN Emit(opened, Delta("reasoning", opened.reasoning.at, text))

\* The text of the message is never cleared: a second message repeats it.
CloseChatMessage(st) ==
  IF ~st.message.open THEN st
  ELSE [Emit(st, Done("message", st.message.at, st.message.text))
          EXCEPT !.message.open = FALSE]

EmitChatVisibleDelta(st, text) ==
  IF text = <<>> THEN st
  ELSE LET quiet == CloseReasoning(st)
           opened == IF quiet.message.open THEN quiet
                     ELSE [Emit(quiet, Added("message", quiet.next))
                             EXCEPT !.message.open = TRUE,
                                    !.message.at = quiet.next, !.next = @ + 1]
       IN [Emit(opened, Delta("message", opened.message.at, text))
             EXCEPT !.message.text = @ \o text]

FreshTool(at) == [at |-> at, started |-> FALSE, args |-> <<>>]

\* Slips for the sensitivity checks: the index of the item is not used up; a delta
\* replaces the arguments.
EmitToolAtSameIndex(st, index, argument) ==
  LET quiet == CloseChatMessage(CloseReasoning(st))
      known == index \in DOMAIN quiet.tools
      tool == IF known THEN quiet.tools[index] ELSE FreshTool(quiet.next)
      added == IF tool.started THEN quiet
               ELSE Emit(quiet, Added("call", tool.at))
  IN [Emit(added, Delta("call", tool.at, argument)) EXCEPT
        !.tools = [i \in DOMAIN @ \cup {index} |->
                     IF i = index
                     THEN [tool EXCEPT !.started = TRUE, !.args = @ \o argument]
                     ELSE @[i]]]

EmitLastArgument(st, index, argument) ==
  LET quiet == CloseChatMessage(CloseReasoning(st))
      known == index \in DOMAIN quiet.tools
      tool == IF known THEN quiet.tools[index] ELSE FreshTool(quiet.next)
      added == IF tool.started THEN quiet
               ELSE [Emit(quiet, Added("call", tool.at)) EXCEPT !.next = @ + 1]
  IN [Emit(added, Delta("call", tool.at, argument)) EXCEPT
        !.tools = [i \in DOMAIN @ \cup {index} |->
                     IF i = index
                     THEN [tool EXCEPT !.started = TRUE, !.args = argument]
                     ELSE @[i]]]

\* emit_chat_tool_delta: the index of a new call is taken when it is first
\* seen, an item is announced whenever the call is not started.
EmitChatToolDelta(st, index, argument) ==
  LET quiet == CloseChatMessage(CloseReasoning(st))
      known == index \in DOMAIN quiet.tools
      tool == IF known THEN quiet.tools[index] ELSE FreshTool(quiet.next)
      added == IF tool.started THEN quiet
               ELSE [Emit(quiet, Added("call", tool.at)) EXCEPT !.next = @ + 1]
      told == IF argument = <<>> THEN added
              ELSE Emit(added, Delta("call", tool.at, argument))
  IN [told EXCEPT
        !.tools = [i \in DOMAIN @ \cup {index} |->
                     IF i = index
                     THEN [tool EXCEPT !.started = TRUE, !.args = @ \o argument]
                     ELSE @[i]]]

CloseChatTool(st, index) ==
  IF ~st.tools[index].started THEN st
  ELSE [Emit(st, Done("call", st.tools[index].at, st.tools[index].args))
          EXCEPT !.tools[index].started = FALSE]

\* A number above those of a finite set.
Above(S) == Max(S \cup {0}) + 1

\* close_chat_tools: in the order of their indexes.
CloseChatTools(st) ==
  LET closed[n \in 0 .. Above(DOMAIN st.tools)] ==
        IF n = 0 THEN st
        ELSE IF n - 1 \in DOMAIN st.tools THEN CloseChatTool(closed[n - 1], n - 1)
        ELSE closed[n - 1]
  IN closed[Above(DOMAIN st.tools)]

\* next_chat_tool_index: the first number that no call has taken yet.
NextToolIndex(st) ==
  Min((st.nextLeak .. Above(DOMAIN st.tools \cup {st.nextLeak})) \ DOMAIN st.tools)

\* emit_chat_leaked_tool_value: a call that leaked is complete, and is closed.
EmitLeakedTool(st) ==
  LET index == NextToolIndex(st)
      taken == [st EXCEPT !.nextLeak = index + 1, !.leaked = @ \cup {index}]
  IN CloseChatTool(EmitChatToolDelta(taken, index, <<"json">>), index)

\* emit_chat_visible_text_with_leaked_tools: from a marker on, the text is
\* withheld until the JSON behind it is balanced; the words between go with it.
ShowProse(st) ==
  LET buffer == Joined(st.leak)
      marks == {i \in DOMAIN buffer : buffer[i] = "mark"}
      mark == IF marks = {} THEN Len(buffer) + 1 ELSE Min(marks)
  IN EmitChatVisibleDelta([st EXCEPT !.leak = SubSeq(buffer, mark, Len(buffer))],
                          SubSeq(buffer, 1, mark - 1))

\* One round of the loop, when there is a call left whose JSON is balanced.
DrainShown(st, shown) ==
  LET json == {i \in DOMAIN shown.leak : shown.leak[i] = "json"}
  IN IF json = {} THEN st
     ELSE [EmitLeakedTool(shown) EXCEPT
             !.leak = SubSeq(shown.leak, Min(json) + 1, Len(shown.leak))]
DrainLeak(st) == DrainShown(st, ShowProse(st))

DrainLeaks(st) ==
  LET drained[n \in 0 .. Len(st.leak)] ==
        IF n = 0 THEN st ELSE DrainLeak(drained[n - 1])
  IN ShowProse(drained[Len(st.leak)])

EmitVisible(st, text) == DrainLeaks([st EXCEPT !.leak = @ \o text])

\* emit_think_pieces: a Responses stream repeats its own event around the text
\* ("carrier"), and shows nothing when there is no such event.
EmitPiece(st, p, carrier) ==
  IF p.kind = "think" THEN EmitThinkDelta(st, p.text)
  ELSE IF st.chat THEN EmitVisible(CloseReasoning(st), p.text)
  ELSE IF carrier THEN Emit(CloseReasoning(st), Delta("message", 1, p.text))
  ELSE CloseReasoning(st)

EmitPieces(st, pieces, carrier) ==
  LET emitted[n \in 0 .. Len(pieces)] ==
        IF n = 0 THEN st ELSE EmitPiece(emitted[n - 1], pieces[n], carrier)
  IN emitted[Len(pieces)]

FlushThink(st) ==
  LET quiet == [st EXCEPT !.dsml.hold = <<>>, !.dsml.suppress = FALSE,
                          !.scan.hold = <<>>]
  IN CloseReasoning(EmitPieces(quiet, ScanFlush(st.scan), FALSE))

\* finish_chat_response.
FinishChat(st) ==
  IF ~st.chat \/ st.completed THEN st
  ELSE LET flushed == FlushThink(st)
           shown == EmitChatVisibleDelta([flushed EXCEPT !.leak = <<>>], flushed.leak)
       IN [Emit(CloseChatTools(CloseChatMessage(shown)),
                [e |-> "completed", of |-> "response", at |-> 0, text |-> <<>>])
             EXCEPT !.completed = TRUE]

\* scrub_deepseek_text, then the scan, then the items.
Feed(st, text, deepseek, carrier) ==
  LET clean == IF deepseek THEN DsmlPush(st.dsml, text)
               ELSE [d |-> st.dsml, visible |-> text]
      scanned == ScanPush(st.scan, clean.visible)
  IN IF clean.visible = <<>> THEN [st EXCEPT !.dsml = clean.d]
     ELSE EmitPieces([st EXCEPT !.dsml = clean.d, !.scan = scanned.scan],
                     scanned.pieces, carrier)

-----------------------------------------------------------------------------
\* What a whole text says, without looking at the chunks: a position is thought
\* when the last tag that counts before it is an opening one.
Thinking(text, i) ==
  \E j \in 1 .. (i - 1) :
    text[j] = "open" /\ \A k \in (j + 1) .. (i - 1) : text[k] # "close"
Part(text, thought) ==
  LET is(i) == /\ Thinking(text, i) = thought
               /\ text[i] # IF thought THEN "close" ELSE "open"
      part[n \in 0 .. Len(text)] ==
        IF n = 0 THEN <<>>
        ELSE IF is(n) THEN Append(part[n - 1], text[n]) ELSE part[n - 1]
  IN part[Len(text)]

-----------------------------------------------------------------------------
Fresh(chat) ==
  [ dsml |-> FreshDsml, scan |-> FreshScan,
    reasoning |-> [open |-> FALSE, at |-> 0], chat |-> chat,
    message |-> [open |-> FALSE, at |-> 0, text |-> <<>>], next |-> 0,
    tools |-> [i \in {} |-> FreshTool(0)], leak |-> <<>>, nextLeak |-> 0,
    leaked |-> {}, completed |-> FALSE, out |-> <<>> ]

Init ==
  /\ vocabulary \in Vocabularies
  /\ mode \in {"chat", "deepseek", "responses"}
  /\ ("inv" \in vocabulary) = (mode = "deepseek")
  /\ ("mark" \in vocabulary) => mode = "chat"
  /\ s = Fresh(mode # "responses")
  /\ said = <<>>
  /\ asked = <<>>

Texts == UNION {[1 .. n -> vocabulary] : n \in 1 .. MaxChunk}

\* rewrite_chat_completion_event: a chunk with content.
ChatContent ==
  /\ s.chat /\ ~s.completed
  /\ \E text \in Texts :
       /\ Len(said) + Len(text) <= MaxText
       /\ s' = Feed(s, text, mode = "deepseek", FALSE)
       /\ said' = said \o text
  /\ UNCHANGED <<vocabulary, mode, asked>>

\* ... with a delta of a native tool call.
ChatTool ==
  /\ s.chat /\ ~s.completed
  /\ Len(asked) < MaxToolChunks
  /\ \E i \in Indexes :
       /\ s' = EmitChatToolDelta(s, i, <<ToString(Len(asked))>>)
       /\ asked' = Append(asked, [index |-> i, argument |-> ToString(Len(asked))])
  /\ UNCHANGED <<vocabulary, mode, said>>

\* ... with a finish_reason, and [DONE], which usually follows it.
ChatFinish ==
  /\ s.chat
  /\ s' = FinishChat(s)
  /\ UNCHANGED <<vocabulary, mode, said, asked>>

\* rewrite_sse_event on output_text.delta: an event without a tag is passed on
\* as it is unless the scan is in the middle of something.
ResponsesDelta ==
  /\ ~s.chat /\ ~s.completed
  /\ \E text \in Texts :
       /\ Len(said) + Len(text) <= MaxText
       /\ said' = said \o text
       /\ s' = IF \/ s.scan.inside \/ s.scan.hold # <<>> \/ s.reasoning.open
                  \/ Range(text) \cap {"open", "openA"} # {}
               THEN Feed(s, text, FALSE, TRUE)
               ELSE Emit(s, Delta("message", 1, text))
  /\ UNCHANGED <<vocabulary, mode, asked>>

\* ... on an event that ends an item: what is held is flushed.
ResponsesBoundary ==
  /\ ~s.chat /\ ~s.completed
  /\ s' = [(IF \/ s.scan.inside \/ s.scan.hold # <<>> \/ s.reasoning.open
            THEN FlushThink(s) ELSE s) EXCEPT !.completed = TRUE]
  /\ UNCHANGED <<vocabulary, mode, said, asked>>

Next == \/ ChatContent \/ ChatTool \/ ChatFinish
        \/ ResponsesDelta \/ ResponsesBoundary

Spec == Init /\ [][Next]_vars

-----------------------------------------------------------------------------
\* A native call that has the number of a leaked one continues that call.
Collides == \E k \in DOMAIN asked : asked[k].index \in s.leaked

\* The text that the client reads: the deltas of the message, or of the reasoning.
Told(out, of) ==
  LET told[n \in 0 .. Len(out)] ==
        IF n = 0 THEN <<>>
        ELSE IF out[n].e = "delta" /\ out[n].of = of THEN told[n - 1] \o out[n].text
        ELSE told[n - 1]
  IN told[Len(out)]

\* Every delta and every end of an item belongs to an item that was announced
\* and has not ended, no index is announced twice, and when the response is
\* completed nothing is open and nothing follows.
ItemsAreFramed ==
  s.chat /\ ~Collides =>
    \A k \in DOMAIN s.out :
      LET x == s.out[k]
          before(e) == {j \in 1 .. (k - 1) : s.out[j].e = e /\ s.out[j].at = x.at}
      IN /\ x.e = "added" => before("added") = {}
         /\ x.e \in {"delta", "done"} => before("added") # {} /\ before("done") = {}
         /\ x.e = "completed" =>
              /\ k = Len(s.out)
              /\ \A a \in Range(s.out) : a.e = "added" =>
                   \E d \in Range(s.out) : d.e = "done" /\ d.at = a.at

\* However the chunks cut the text, the client reads exactly the prose and the
\* thoughts of it: nothing is lost, repeated, or shown on the wrong side.  (A
\* Responses stream that ends on half of an opening tag loses that half.)
ProseIsKept ==
  s.completed /\ vocabulary \cap {"mark", "inv"} = {} =>
    LET text == Joined(said)
        dangling == /\ ~s.chat /\ text # <<>> /\ Last(text) = "openA"
                    /\ ~Thinking(text, Len(text))
        prose == Part(text, FALSE)
    IN /\ Joined(Told(s.out, "reasoning")) = Joined(Part(text, TRUE))
       /\ Joined(Told(s.out, "message"))
            = Joined(IF dangling THEN Front(prose) ELSE prose)

\* The same for leaked calls and DeepSeek markup: a text cut into chunks gives
\* the answer that it gives in one piece.
Answer(st) ==
  [ text |-> Joined(Told(st.out, "message")),
    thought |-> Joined(Told(st.out, "reasoning")),
    calls |-> Len(SelectSeq(st.out, LAMBDA x : x.e = "done" /\ x.of = "call")) ]
CutsDoNotMatter ==
  s.completed /\ s.chat /\ asked = <<>> =>
    Answer(s) = Answer(FinishChat(Feed(Fresh(TRUE), said, mode = "deepseek", FALSE)))

\* What the deltas of an index say, one after the other.
Arguments(deltas, i) ==
  LET gathered[n \in 0 .. Len(deltas)] ==
        IF n = 0 THEN <<>>
        ELSE IF deltas[n].index = i THEN Append(gathered[n - 1], deltas[n].argument)
        ELSE gathered[n - 1]
  IN gathered[Len(deltas)]

\* A call that is announced as done has the arguments of its deltas, in order,
\* whatever was interleaved with them.
CallsAreWhole ==
  s.completed /\ s.chat /\ ~Collides =>
    \A i \in {a.index : a \in Range(asked)} :
      \E x \in Range(s.out) :
        x.e = "done" /\ x.of = "call" /\ x.text = Arguments(asked, i)
=============================================================================
