--------------------------- MODULE ProtocolProofs ---------------------------
(***************************************************************************)
(* Proofs about what passes through the protocol conversion, of any        *)
(* length.  An event stream through the host, whose bytes stop anywhere:   *)
(* its end is told, and told as the same to the client, to the ledger and  *)
(* to the spans.  The history that is repaired, folded and split before it *)
(* goes upstream: it is paired, and keeps its results and its end.         *)
(***************************************************************************)
EXTENDS MCProtocol, SequenceTheorems, WellFoundedInduction, TLAPS

TypeOK ==
  /\ httpOk \in BOOLEAN
  /\ sent \in Seq(Kinds)
  /\ place \in {"event", "line", "json", "half"}
  /\ terminal \in {"none", "call_completed", "completed", "failed", "done"}
  /\ shut \in {"no", "end", "error", "dropped"}
  /\ appended \in BOOLEAN

\* The events whose data line the rewriter has processed.
Processed == 1 .. (IF place \in {"line", "event"} THEN Len(sent) ELSE Len(sent) - 1)

\* terminal_seen is the last terminal event among the processed ones.  The flags that
\* decide the row, the span and the failure are functions of it, so that this carries
\* what the property says of the events the client reads.
SeenIsTheLast ==
  IF terminal = "none"
  THEN \A i \in Processed : ~IsTerminal(sent[i])
  ELSE \E i \in Processed :
         /\ sent[i] = terminal
         /\ \A j \in Processed : j > i => ~IsTerminal(sent[j])

\* Where the bytes stop inside an event there is an event they stop in; when the
\* stream is over, none of the unfinished text can be read any more.
PlaceIsInAnEvent ==
  /\ place # "event" => sent # <<>>
  /\ shut \in {"end", "error"} => place # "json"

\* What has been recorded of a stream, at each way it can be over.
RecordedOnce ==
  /\ shut = "no" => ledger = <<>> /\ spans = <<>> /\ ~appended
  /\ shut = "dropped" => ledger = <<>> /\ spans = <<"cancelled">>
  /\ shut = "error" => ledger = <<"failed">> /\ spans = <<"upstream_error">> /\ appended
  /\ shut = "end" =>
       /\ appended = (terminal = "none")
       /\ IF httpOk /\ IsSuccess(terminal)
          THEN ledger = <<"completed">> /\ spans = <<"ok">>
          ELSE ledger = <<"failed">> /\ spans = <<"upstream_error">>

IInv == TypeOK /\ SeenIsTheLast /\ PlaceIsInAnEvent /\ RecordedOnce

-----------------------------------------------------------------------------
\* Processing the next event, or the rest of the last one, keeps terminal_seen the last.
LEMMA FeedKeepsIInv ==
  ASSUME IInv, FeedEvent \/ FeedRest
  PROVE  IInv'
<1>1. CASE FeedEvent
  <2>1. PICK kind \in Kinds, stop \in {"half", "json", "line", "event"} :
          /\ sent' = Append(sent, kind)
          /\ place' = stop
          /\ terminal' = IF stop \in {"line", "event"} THEN Noted(kind) ELSE terminal
    BY <1>1 DEF FeedEvent
  <2>2. /\ Len(sent') = Len(sent) + 1 /\ sent'[Len(sent) + 1] = kind
        /\ \A i \in 1 .. Len(sent) : sent'[i] = sent[i]
        /\ sent' \in Seq(Kinds) /\ Len(sent) \in Nat
    BY <2>1 DEF IInv, TypeOK
  <2>3. Processed = 1 .. Len(sent)
    BY <1>1 DEF FeedEvent, Processed
  <2>4. TypeOK'
    BY <1>1, <2>1, <2>2 DEF FeedEvent, IInv, TypeOK, Noted, IsTerminal, Kinds
  <2>5. SeenIsTheLast'
    <3>1. CASE stop \in {"half", "json"}
      <4>1. Processed' = Processed /\ terminal' = terminal
        BY <2>1, <2>2, <2>3, <3>1 DEF Processed
      <4> QED
        BY <2>2, <2>3, <4>1 DEF IInv, SeenIsTheLast
    <3>2. CASE stop \in {"line", "event"}
      <4>1. Processed' = 1 .. Len(sent) + 1 /\ terminal' = Noted(kind)
        BY <2>1, <2>2, <3>2 DEF Processed
      <4>2. CASE IsTerminal(kind)
        BY <2>2, <4>1, <4>2 DEF SeenIsTheLast, Noted, IsTerminal
      <4>3. CASE ~IsTerminal(kind)
        BY <2>2, <2>3, <4>1, <4>3 DEF IInv, SeenIsTheLast, Noted
      <4> QED
        BY <4>2, <4>3
    <3> QED
      BY <2>1, <3>1, <3>2
  <2>6. PlaceIsInAnEvent' /\ RecordedOnce'
    BY <1>1, <2>1, <2>2 DEF FeedEvent, IInv, PlaceIsInAnEvent, RecordedOnce
  <2> QED
    BY <2>4, <2>5, <2>6 DEF IInv
<1>2. CASE FeedRest
  <2>1. PICK stop \in {"json", "line", "event"} :
          /\ place = "line" => stop = "event"
          /\ place = "json" => stop # "json"
          /\ place' = stop
          /\ terminal' = IF stop \in {"line", "event"} THEN Noted(sent[Len(sent)])
                         ELSE terminal
    BY <1>2 DEF FeedRest
  <2>2. sent \in Seq(Kinds) /\ sent # <<>> /\ sent' = sent /\ place # "event"
    BY <1>2 DEF FeedRest, IInv, TypeOK, PlaceIsInAnEvent
  <2>3. Len(sent) \in Nat /\ Len(sent) >= 1 /\ sent[Len(sent)] \in Kinds
    BY <2>2
  <2>4. TypeOK'
    BY <1>2, <2>1, <2>2, <2>3 DEF FeedRest, IInv, TypeOK, Noted, IsTerminal, Kinds
  <2>5. SeenIsTheLast'
    <3>1. CASE stop = "json"
      <4>1. Processed' = Processed /\ terminal' = terminal
        BY <2>1, <2>2, <3>1 DEF Processed, IInv, TypeOK
      <4> QED
        BY <2>2, <4>1 DEF IInv, SeenIsTheLast
    <3>2. CASE stop \in {"line", "event"}
      <4>1. Processed' = 1 .. Len(sent) /\ terminal' = Noted(sent[Len(sent)])
        BY <2>1, <2>2, <3>2 DEF Processed
      <4>2. CASE IsTerminal(sent[Len(sent)])
        BY <2>2, <2>3, <4>1, <4>2 DEF SeenIsTheLast, Noted, IsTerminal
      <4>3. CASE ~IsTerminal(sent[Len(sent)])
        BY <2>2, <2>3, <4>1, <4>3 DEF IInv, TypeOK, SeenIsTheLast, Noted, Processed
      <4> QED
        BY <4>2, <4>3
    <3> QED
      BY <2>1, <3>1, <3>2
  <2>6. PlaceIsInAnEvent' /\ RecordedOnce'
    BY <1>2, <2>1, <2>2 DEF FeedRest, IInv, PlaceIsInAnEvent, RecordedOnce
  <2> QED
    BY <2>4, <2>5, <2>6 DEF IInv
<1> QED
  BY <1>1, <1>2

\* Finishing the rewriter processes a line that only misses its newline.
LEMMA FinishKeepsTheLast ==
  ASSUME IInv, sent' = sent, place' = FinishedPlace, terminal' = Finished
  PROVE  /\ SeenIsTheLast'
         /\ terminal' \in {"none", "call_completed", "completed", "failed", "done"}
         /\ place' \in {"event", "line", "half"}
         /\ place' # "event" => sent' # <<>>
<1>1. sent \in Seq(Kinds) /\ Len(sent) \in Nat
  BY DEF IInv, TypeOK
<1>2. CASE place = "json"
  <2>1. sent # <<>> /\ Len(sent) >= 1 /\ sent[Len(sent)] \in Kinds
    BY <1>1, <1>2 DEF IInv, PlaceIsInAnEvent
  <2>2. terminal' = Noted(sent[Len(sent)]) /\ place' = "line"
    BY <1>2 DEF Finished, FinishedPlace
  <2>3. Processed = 1 .. Len(sent) - 1 /\ Processed' = 1 .. Len(sent)
    BY <1>2, <2>2 DEF Processed
  <2>4. SeenIsTheLast'
    <3>1. CASE IsTerminal(sent[Len(sent)])
      BY <1>1, <2>1, <2>2, <2>3, <3>1 DEF SeenIsTheLast, Noted, IsTerminal
    <3>2. CASE ~IsTerminal(sent[Len(sent)])
      BY <1>1, <2>1, <2>2, <2>3, <3>2 DEF IInv, SeenIsTheLast, Noted
    <3> QED
      BY <3>1, <3>2
  <2> QED
    BY <2>1, <2>2, <2>4 DEF IInv, TypeOK, Noted, IsTerminal, Kinds
<1>3. CASE place # "json"
  <2>1. UNCHANGED <<sent, place, terminal>>
    BY <1>3 DEF Finished, FinishedPlace
  <2> QED
    BY <1>3, <2>1 DEF IInv, TypeOK, SeenIsTheLast, Processed, PlaceIsInAnEvent
<1> QED
  BY <1>2, <1>3

LEMMA EndKeepsIInv ==
  ASSUME IInv, UpstreamEnds \/ UpstreamErrs \/ ClientDrops
  PROVE  IInv'
<1>1. CASE ClientDrops
  BY <1>1
  DEF ClientDrops, IInv, TypeOK, SeenIsTheLast, Processed, PlaceIsInAnEvent, RecordedOnce
<1>2. CASE UpstreamEnds \/ UpstreamErrs
  <2>1. sent' = sent /\ httpOk' = httpOk /\ place' = FinishedPlace /\ terminal' = Finished
    BY <1>2 DEF UpstreamEnds, UpstreamErrs, Conclude
  <2>2. ledger = <<>> /\ spans = <<>>
    BY <1>2 DEF UpstreamEnds, UpstreamErrs, IInv, RecordedOnce
  <2>3. /\ shut' \in {"end", "error"} /\ appended' \in BOOLEAN
        /\ RecordedOnce'
    <3>1. CASE UpstreamEnds
      <4>1. /\ shut' = "end" /\ appended' = (terminal' = "none")
            /\ ledger' = Append(<<>>, IF httpOk /\ IsSuccess(terminal')
                                      THEN "completed" ELSE "failed")
            /\ spans' = Append(<<>>, IF httpOk /\ IsSuccess(terminal')
                                     THEN "ok" ELSE "upstream_error")
        BY <2>1, <2>2, <3>1 DEF UpstreamEnds, Conclude
      <4> QED
        BY <2>1, <4>1 DEF RecordedOnce
    <3>2. CASE UpstreamErrs
      <4>1. /\ shut' = "error" /\ appended'
            /\ ledger' = Append(<<>>, "failed")
            /\ spans' = Append(<<>>, "upstream_error")
            /\ appended' = TRUE
        BY <2>2, <3>2 DEF UpstreamErrs, Conclude
      <4> QED
        BY <4>1 DEF RecordedOnce
    <3> QED
      BY <1>2, <3>1, <3>2
  <2>4. /\ SeenIsTheLast'
        /\ terminal' \in {"none", "call_completed", "completed", "failed", "done"}
        /\ place' \in {"event", "line", "half"}
        /\ place' # "event" => sent' # <<>>
    BY <2>1, FinishKeepsTheLast
  <2> QED
    BY <2>1, <2>3, <2>4 DEF IInv, TypeOK, PlaceIsInAnEvent
<1> QED
  BY <1>1, <1>2

\* The host knows the last terminal event it has processed, wherever the bytes stop, and records
\* a stream once, by the way it ended (wrap_sse_stream, SseRewriter).
THEOREM StreamInvariant == Spec => []IInv
<1>1. Init => IInv
  <2> SUFFICES ASSUME Init PROVE IInv
    OBVIOUS
  <2>1. sent = <<>> /\ <<>> \in Seq(Kinds)
    BY DEF Init
  <2>2. Processed = {} /\ terminal = "none"
    BY <2>1 DEF Init, Processed
  <2> QED
    BY <2>1, <2>2 DEF Init, IInv, TypeOK, SeenIsTheLast, PlaceIsInAnEvent, RecordedOnce
<1>2. IInv /\ [Next]_vars => IInv'
  <2>1. ASSUME IInv, UNCHANGED vars PROVE IInv'
    BY <2>1
    DEF vars, IInv, TypeOK, SeenIsTheLast, Processed, PlaceIsInAnEvent, RecordedOnce
  <2> QED
    BY <2>1, FeedKeepsIInv, EndKeepsIInv DEF Next
<1> QED
  BY <1>1, <1>2, PTL DEF Spec

-----------------------------------------------------------------------------
LEMMA InvariantTellsTheEnd ==
  ASSUME IInv
  PROVE  TheEndIsTold
<1>0. sent \in Seq(Kinds) /\ Len(sent) \in Nat
  BY DEF IInv, TypeOK
<1>1. ClientIsTold
  <2> SUFFICES ASSUME shut \in {"end", "error"}, place = "event",
                      terminal # "call_completed", ~appended
               PROVE  Ends(Readable) # {}
    BY DEF ClientIsTold, Cut
  <2>1. shut = "end" /\ terminal \in {"completed", "failed", "done"}
    BY DEF IInv, TypeOK, RecordedOnce
  <2>2. PICK i \in 1 .. Len(sent) : sent[i] = terminal
    BY <2>1 DEF IInv, SeenIsTheLast, Processed
  <2>3. Readable = sent
    BY DEF Readable, Cut
  <2>4. i \in Ends(sent)
    BY <1>0, <2>1, <2>2 DEF Ends
  <2> QED
    BY <2>3, <2>4
<1>2. RecordsTellTheEnd
  <2>1. CASE shut \in {"no", "dropped"}
    BY <2>1 DEF RecordsTellTheEnd, IInv, RecordedOnce
  <2>2. CASE shut = "error"
    <3>1. ledger = <<"failed">> /\ spans = <<"upstream_error">>
      BY <2>2 DEF IInv, RecordedOnce
    <3>2. <<"failed">> # <<"completed">>
      OBVIOUS
    <3> QED
      BY <2>2, <3>1, <3>2 DEF RecordsTellTheEnd
  <2>3. CASE shut = "end"
    <3>0. <<"failed">> # <<"completed">>
      OBVIOUS
    <3>1. /\ appended = (terminal = "none")
          /\ ledger \in {<<"completed">>, <<"failed">>}
          /\ ledger = <<"completed">> <=> httpOk /\ IsSuccess(terminal)
          /\ spans = <<IF ledger = <<"completed">> THEN "ok" ELSE "upstream_error">>
      BY <2>3, <3>0 DEF IInv, RecordedOnce
    <3>2. IsSuccess(terminal) =>
            /\ terminal # "none"
            /\ \E i \in DOMAIN sent : IsSuccess(sent[i])
      BY <1>0 DEF IInv, SeenIsTheLast, Processed, IsSuccess
    <3>3. ASSUME place # "half", sent # <<>>, IsTerminal(sent[Len(sent)])
          PROVE  terminal = sent[Len(sent)]
      <4>1. Processed = 1 .. Len(sent) /\ Len(sent) \in Processed
        BY <1>0, <2>3, <3>3 DEF Processed, IInv, TypeOK, PlaceIsInAnEvent
      <4> QED
        BY <1>0, <3>3, <4>1 DEF IInv, SeenIsTheLast
    <3>4. \A k : IsSuccess(k) => IsTerminal(k)
      BY DEF IsSuccess, IsTerminal
    <3>5. IsTerminal("failed") /\ ~IsSuccess("failed")
      BY DEF IsSuccess, IsTerminal
    <3>6. Ends(sent) # {} => sent # <<>>
      BY <1>0 DEF Ends
    <3> QED
      BY <2>3, <3>1, <3>2, <3>3, <3>4, <3>5, <3>6 DEF RecordsTellTheEnd
  <2> QED
    BY <2>1, <2>2, <2>3 DEF IInv, TypeOK
<1> QED
  BY <1>1, <1>2 DEF TheEndIsTold

\* However a stream goes, its end is known, and known as the same, to the client, to
\* the ledger and to the terminal spans (run Protocol).
THEOREM EndIsTold == Spec => []TheEndIsTold
BY StreamInvariant, InvariantTellsTheEnd, PTL

-----------------------------------------------------------------------------
(* Loops over a sequence: a recursive function on the numbers up to its     *)
(* length exists, is the only one, and stays where its steps stay.          *)

\* A set of numbers that is not empty has a least one.
LEMMA LeastNumber ==
  ASSUME NEW S \in SUBSET Nat, S # {}
  PROVE  \E m \in S : \A n \in S : m <= n
<1>1. PICK R : R = {p \in Nat \X Nat : p[1] < p[2]}
  OBVIOUS
<1>2. IsWellFoundedOn(R, Nat)
  BY <1>1, NatLessThanWellFounded DEF OpToRel
<1>3. PICK m \in S : \A n \in S : ~(<<n, m>> \in R)
  BY <1>2, WFMin
<1>4. \A n \in S : ~(n < m)
  BY <1>1, <1>3
<1> QED
  BY <1>4

\* What holds at first, and of each number when it holds of the one before, holds of all.
LEMMA UpTo ==
  ASSUME NEW n \in Nat, NEW Good, 0 \in Good, \A m \in 1 .. n : m - 1 \in Good => m \in Good
  PROVE  0 .. n \subseteq Good
<1> DEFINE S == {m \in 0 .. n : m \notin Good}
<1>1. SUFFICES ASSUME S # {} PROVE FALSE
  OBVIOUS
<1>2. S \in SUBSET Nat
  OBVIOUS
<1>3. PICK m \in S : \A k \in S : m <= k
  <2> HIDE DEF S
  <2> QED
    BY <1>1, <1>2, LeastNumber
<1>4. m \in 1 .. n /\ m - 1 \in 0 .. n /\ ~(m <= m - 1)
  BY <1>3
<1>5. m - 1 \in Good
  BY <1>3, <1>4
<1> QED
  BY <1>3, <1>4, <1>5

\* A function that begins with base and goes on by the steps, which stay in S; and one that
\* goes on by them wherever it is in S.
Steps(step, n, S) == step \in [S \X (1 .. n) -> S]
Loop(f, n, base, step, S) ==
  f \in [0 .. n -> S] /\ f[0] = base /\ \A m \in 1 .. n : f[m] = step[<<f[m - 1], m>>]
Follows(g, n, base, step, S) ==
  /\ g = [m \in 0 .. n |-> g[m]] /\ g[0] = base
  /\ \A m \in 1 .. n : g[m - 1] \in S => g[m] = step[<<g[m - 1], m>>]

LEMMA OnlyOne ==
  ASSUME NEW n \in Nat, NEW S, NEW base, NEW step, NEW f, NEW g,
         Loop(f, n, base, step, S), Follows(g, n, base, step, S)
  PROVE  g = f
<1> DEFINE Good == {m \in 0 .. n : f[m] = g[m]}
<1>1. 0 \in Good
  BY DEF Loop, Follows
<1>2. ASSUME NEW m \in 1 .. n, m - 1 \in Good PROVE m \in Good
  <2>1. m \in 0 .. n /\ m - 1 \in 0 .. n /\ f[m - 1] = g[m - 1]
    BY <1>2
  <2>2. f[m - 1] \in S
    BY <2>1 DEF Loop
  <2>3. g[m] = step[<<g[m - 1], m>>] /\ f[m] = step[<<f[m - 1], m>>]
    BY <2>1, <2>2 DEF Loop, Follows
  <2> QED
    BY <2>1, <2>3
<1>3. 0 .. n \subseteq Good
  <2> HIDE DEF Good
  <2> QED
    BY <1>1, <1>2, UpTo
<1>4. \A m \in 0 .. n : f[m] = g[m]
  BY <1>3
<1>5. f = [m \in 0 .. n |-> f[m]] /\ g = [m \in 0 .. n |-> g[m]]
  BY DEF Loop, Follows
<1> QED
  BY <1>4, <1>5

\* The loop, for steps that stay in a set.
LEMMA LoopExists ==
  ASSUME NEW n \in Nat, NEW S, NEW base \in S, NEW step, Steps(step, n, S)
  PROVE  \E f : Loop(f, n, base, step, S)
<1> USE DEF Steps
<1> DEFINE Runs(f, k) == /\ f \in [0 .. k -> S] /\ f[0] = base
                         /\ \A m \in 1 .. k : f[m] = step[<<f[m - 1], m>>]
           Good == {k \in 0 .. n : \E f : Runs(f, k)}
<1>1. 0 \in Good
  <2>1. PICK f : f = [m \in 0 .. 0 |-> base]
    OBVIOUS
  <2>2. Runs(f, 0)
    BY <2>1
  <2> QED
    BY <2>2
<1>2. ASSUME NEW k \in 1 .. n, k - 1 \in Good PROVE k \in Good
  <2>1. PICK f : Runs(f, k - 1)
    BY <1>2
  <2>2. k \in Nat /\ k - 1 \in Nat /\ k - 1 \in 0 .. k - 1
    OBVIOUS
  <2>3. f[k - 1] \in S
    BY <2>1, <2>2
  <2>4. step[<<f[k - 1], k>>] \in S
    BY <2>3
  <2>5. PICK g : g = [m \in 0 .. k |-> IF m = k THEN step[<<f[k - 1], k>>] ELSE f[m]]
    OBVIOUS
  <2>6. \A m \in 0 .. k - 1 : g[m] = f[m] /\ f[m] \in S
    BY <2>1, <2>5
  <2>7. g \in [0 .. k -> S] /\ g[0] = base
    <3>1. \A m \in 0 .. k : m # k => m \in 0 .. k - 1
      OBVIOUS
    <3>2. \A m \in 0 .. k : g[m] \in S
      BY <2>4, <2>5, <2>6, <3>1
    <3> QED
      BY <2>1, <2>5, <2>6, <3>2
  <2>8. \A m \in 1 .. k : g[m] = step[<<g[m - 1], m>>]
    <3>1. ASSUME NEW m \in 1 .. k PROVE g[m] = step[<<g[m - 1], m>>]
      <4>1. m - 1 \in 0 .. k - 1
        OBVIOUS
      <4>2. g[m - 1] = f[m - 1]
        BY <2>6, <4>1
      <4>3. CASE m = k
        <5>1. g[k] = step[<<f[k - 1], k>>]
          BY <2>2, <2>5
        <5>2. g[k - 1] = f[k - 1]
          BY <4>2, <4>3
        <5> QED
          BY <4>3, <5>1, <5>2
      <4>4. CASE m # k
        <5>1. m \in 1 .. k - 1 /\ m \in 0 .. k - 1
          BY <4>4
        <5> QED
          BY <2>1, <2>6, <4>2, <5>1
      <4> QED
        BY <4>3, <4>4
    <3> QED
      BY <3>1
  <2> QED
    BY <2>7, <2>8
<1>3. n \in Good
  <2>1. 0 .. n \subseteq Good
    <3> HIDE DEF Good
    <3> QED
      BY <1>1, <1>2, UpTo
  <2> QED
    BY <2>1
<1> QED
  BY <1>3 DEF Loop

-----------------------------------------------------------------------------
(* What goes upstream (History): the items.                                 *)

Signatures == Sigs \cup {"leaked", 0}
OtherKinds == {"message", "foreign", "leaky", "marker"}
Calls == [kind : {"call"}, id : Nat \ {0}, sig : Signatures, real : BOOLEAN]
Results == [kind : {"output"}, id : Nat, sig : Signatures, real : BOOLEAN]
Others == [kind : OtherKinds, id : {0}, sig : Signatures, real : BOOLEAN]
Items == Calls \cup Results \cup Others

LEMMA ItemShape ==
  ASSUME NEW x \in Items
  PROVE  /\ x.id \in Nat
         /\ P!IsCall(x) <=> x \in Calls
         /\ P!IsOutput(x) <=> x \in Results
         /\ P!IsCall(x) => x.id # 0 /\ ~P!IsOutput(x)
         /\ ~P!IsCall(x) /\ ~P!IsOutput(x) => x.id = 0
  BY DEF P!IsCall, P!IsOutput, Items, Calls, Results, Others, OtherKinds

LEMMA NewItems ==
  /\ P!Note \in Others
  /\ \A n \in Nat : P!Synthetic(n) \in Results /\ P!Synthetic(n).id = n
  /\ \A x \in Calls, n \in Nat \ {0} : [x EXCEPT !.id = n] \in Calls /\ [x EXCEPT !.id = n].id = n
  /\ \A x \in Results, n \in Nat :
       /\ [x EXCEPT !.id = n] \in Results
       /\ [x EXCEPT !.id = n].id = n /\ [x EXCEPT !.id = n].real = x.real
  BY DEF P!Note, P!Synthetic, P!Item, Calls, Results, Others, OtherKinds, Signatures

-----------------------------------------------------------------------------
(* Folding.                                                                 *)

LEMMA MinIs ==
  ASSUME NEW S \in SUBSET Nat, S # {}
  PROVE  P!Min(S) \in S /\ \A n \in S : P!Min(S) <= n
<1>1. \E m \in S : \A n \in S : m <= n
  BY LeastNumber
<1> QED
  BY <1>1 DEF P!Min

LEMMA GreatestNumber ==
  ASSUME NEW S \in SUBSET Nat, S # {}, NEW b \in Nat, \A n \in S : n <= b
  PROVE  \E m \in S : \A n \in S : m >= n
<1> DEFINE B == {m \in Nat : \A n \in S : n <= m}
<1>1. B \in SUBSET Nat /\ B # {}
  OBVIOUS
<1>2. PICK m \in B : \A k \in B : m <= k
  <2> HIDE DEF B
  <2> QED
    BY <1>1, LeastNumber
<1>3. CASE m \in S
  BY <1>2, <1>3
<1>4. CASE m \notin S
  <2>1. PICK n \in S : TRUE
    OBVIOUS
  <2>2. n <= m /\ n # m /\ n \in Nat /\ m \in Nat
    BY <1>2, <1>4, <2>1
  <2>3. m - 1 \in Nat /\ \A k \in S : k <= m - 1
    BY <1>2, <1>4, <2>2
  <2>4. m - 1 \in B
    BY <2>3
  <2>5. m <= m - 1
    BY <1>2, <2>4
  <2> QED
    BY <2>2, <2>5
<1> QED
  BY <1>3, <1>4

LEMMA MaxIs ==
  ASSUME NEW S \in SUBSET Nat, S # {}, NEW b \in Nat, \A n \in S : n <= b
  PROVE  P!Max(S) \in S /\ \A n \in S : P!Max(S) >= n
<1>1. \E m \in S : \A n \in S : m >= n
  BY GreatestNumber
<1> QED
  BY <1>1 DEF P!Max

\* Where the items are parted when no result may come first: not behind the place that was
\* asked for, and the further that is, the further.
NotAnOutput(items, k) == k = 0 \/ k >= Len(items) \/ ~P!IsOutput(items[k + 1])
LEMMA BeforeOutputsIs ==
  ASSUME NEW items, NEW split \in Nat
  PROVE  LET b == P!BeforeOutputs(items, split) IN
         /\ b \in 0 .. split /\ NotAnOutput(items, b)
         /\ \A k \in 0 .. split : NotAnOutput(items, k) => k <= b
<1> DEFINE S == {k \in 0 .. split : NotAnOutput(items, k)}
<1>1. S \in SUBSET Nat /\ 0 \in S /\ \A k \in S : k <= split
  BY DEF NotAnOutput
<1>2. P!BeforeOutputs(items, split) = P!Max(S)
  BY DEF P!BeforeOutputs, NotAnOutput
<1>3. P!Max(S) \in S /\ \A n \in S : P!Max(S) >= n
  <2> HIDE DEF S
  <2> QED
    BY <1>1, MaxIs
<1> QED
  BY <1>2, <1>3

LEMMA FurtherBefore ==
  ASSUME NEW items, NEW split \in Nat, NEW further \in Nat, split <= further
  PROVE  P!BeforeOutputs(items, split) <= P!BeforeOutputs(items, further)
<1> DEFINE b == P!BeforeOutputs(items, split)
<1>1. b \in 0 .. split /\ NotAnOutput(items, b)
  BY BeforeOutputsIs
<1>2. b \in 0 .. further
  BY <1>1
<1> HIDE DEF b
<1>3. b <= P!BeforeOutputs(items, further)
  BY <1>1, <1>2, BeforeOutputsIs
<1> QED
  BY <1>3 DEF b

LEMMA CharsSplit ==
  ASSUME NEW items, Len(items) \in Nat \ {0}, items # <<>>
  PROVE  LET b == P!CompactSplitAtChars(items) IN b \in Nat /\ NotAnOutput(items, b)
<1> DEFINE S == {i \in 0 .. (Len(items) - 1) :
                   i = Len(items) - 1 \/ P!Chars(SubSeq(items, i + 1, Len(items))) <= KeepChars}
<1>1. S \in SUBSET Nat /\ Len(items) - 1 \in S
  OBVIOUS
<1>2. P!CompactSplitAtChars(items) = P!BeforeOutputs(items, P!Min(S))
  BY DEF P!CompactSplitAtChars
<1> HIDE DEF S
<1>3. P!Min(S) \in Nat
  BY <1>1, MinIs
<1> QED
  BY <1>2, <1>3, BeforeOutputsIs

\* Where a history is folded: its bounds are in order, MinKeep items stay, and the first that
\* stays is not a result.
LEMMA FoldsWell ==
  ASSUME NEW items \in Seq(Items), NEW keep \in Nat, Len(items) > MinKeep
  PROVE  LET split == P!CompactKeepSplit(items, keep) IN
         /\ P!LowSplit(items, keep) <= P!HighSplit(items)
         /\ split \in Nat /\ split <= Len(items) - MinKeep
         /\ NotAnOutput(items, split)
<1> DEFINE n == Len(items)
           more == P!Larger(keep, MinKeep)
           low == P!LowSplit(items, keep)
           high == P!HighSplit(items)
           chars == P!CompactSplitAtChars(items)
<1>1. MinKeep \in Nat \ {0} /\ n \in Nat /\ items # <<>>
  BY ProtocolAssumption
<1>2. more \in Nat /\ more >= MinKeep
  BY <1>1 DEF P!Larger
<1>3. high = P!BeforeOutputs(items, n - MinKeep) /\ n - MinKeep \in Nat
  BY <1>1 DEF P!HighSplit, P!CompactSplitAt
<1>4. high \in 0 .. n - MinKeep /\ NotAnOutput(items, high)
  BY <1>3, BeforeOutputsIs
<1>5. low \in Nat /\ NotAnOutput(items, low) /\ low <= high
  <2>1. low = IF n <= more THEN 0 ELSE P!BeforeOutputs(items, n - more)
    BY DEF P!LowSplit, P!CompactSplitAt
  <2> HIDE DEF low, high, more, n
  <2>2. CASE n <= more
    BY <1>1, <1>2, <1>4, <2>1, <2>2 DEF NotAnOutput
  <2>3. CASE ~(n <= more)
    <3>1. n - more \in Nat /\ n - more <= n - MinKeep
      BY <1>1, <1>2, <2>3
    <3> QED
      BY <1>3, <2>1, <2>3, <3>1, BeforeOutputsIs, FurtherBefore
  <2> QED
    BY <2>2, <2>3
<1>6. chars \in Nat /\ NotAnOutput(items, chars)
  BY <1>1, CharsSplit
<1>7. P!CompactKeepSplit(items, keep) \in {low, high, chars}
  BY <1>1 DEF P!CompactKeepSplit, P!Smaller, P!Larger
<1>8. P!CompactKeepSplit(items, keep) <= high
  <2>1. P!CompactKeepSplit(items, keep) = P!Smaller(high, P!Larger(low, chars))
    BY <1>1 DEF P!CompactKeepSplit
  <2> HIDE DEF low, high, chars
  <2>2. P!Larger(low, chars) \in Nat
    BY <1>5, <1>6 DEF P!Larger
  <2> QED
    BY <1>4, <2>1, <2>2 DEF P!Smaller
<1> HIDE DEF low, high, chars
<1>9. LET split == P!CompactKeepSplit(items, keep) IN
      split \in Nat /\ split <= n - MinKeep /\ NotAnOutput(items, split)
  BY <1>1, <1>4, <1>5, <1>6, <1>7, <1>8
<1> QED
  BY <1>5, <1>9 DEF low, high

-----------------------------------------------------------------------------
(* The loop over the items of a history.                                    *)

NoRepeats(q) == \A i, j \in DOMAIN q : q[i] = q[j] => i = j

LEMMA Appended ==
  ASSUME NEW S, NEW q \in Seq(S), NEW x
  PROVE  /\ P!Range(Append(q, x)) = P!Range(q) \cup {x}
         /\ NoRepeats(q) /\ x \notin P!Range(q) => NoRepeats(Append(q, x))
<1>1. /\ DOMAIN q = 1 .. Len(q) /\ Len(q) \in Nat
      /\ DOMAIN Append(q, x) = 1 .. Len(q) + 1
      /\ \A i \in 1 .. Len(q) : Append(q, x)[i] = q[i]
      /\ Append(q, x)[Len(q) + 1] = x
  OBVIOUS
<1>2. P!Range(Append(q, x)) = P!Range(q) \cup {x}
  <2>1. ASSUME NEW v \in P!Range(Append(q, x)) PROVE v \in P!Range(q) \cup {x}
    <3>1. PICK i \in 1 .. Len(q) + 1 : v = Append(q, x)[i]
      BY <1>1, <2>1 DEF P!Range
    <3>2. CASE i \in 1 .. Len(q)
      BY <1>1, <3>1, <3>2 DEF P!Range
    <3>3. CASE i = Len(q) + 1
      BY <1>1, <3>1, <3>3
    <3> QED
      BY <1>1, <3>2, <3>3
  <2>2. ASSUME NEW v \in P!Range(q) PROVE v \in P!Range(Append(q, x))
    <3>1. PICK i \in 1 .. Len(q) : v = q[i]
      BY <1>1, <2>2 DEF P!Range
    <3>2. i \in 1 .. Len(q) + 1 /\ v = Append(q, x)[i]
      BY <1>1, <3>1
    <3> QED
      BY <1>1, <3>2 DEF P!Range
  <2>3. x \in P!Range(Append(q, x))
    <3>1. Len(q) + 1 \in 1 .. Len(q) + 1
      BY <1>1
    <3> QED
      BY <1>1, <3>1 DEF P!Range
  <2> QED
    BY <2>1, <2>2, <2>3
<1>3. ASSUME NoRepeats(q), x \notin P!Range(q) PROVE NoRepeats(Append(q, x))
  <2>1. \A i \in 1 .. Len(q) : q[i] # x
    BY <1>1, <1>3 DEF P!Range
  <2>2. \A i, j \in 1 .. Len(q) : q[i] = q[j] => i = j
    BY <1>1, <1>3 DEF NoRepeats
  <2>3. \A i \in 1 .. Len(q) + 1 : i \in 1 .. Len(q) \/ i = Len(q) + 1
    BY <1>1
  <2> QED
    BY <1>1, <2>1, <2>2, <2>3 DEF NoRepeats
<1> QED
  BY <1>2, <1>3

KeptOf(ids, some, f, m) == IF ids[m] \in some THEN f[m - 1] ELSE Append(f[m - 1], ids[m])
LEMMA WithoutLoops ==
  ASSUME NEW ids \in Seq(Nat), NEW some
  PROVE  \E f \in [0 .. Len(ids) -> Seq(Nat)] :
           /\ f[0] = <<>> /\ \A m \in 1 .. Len(ids) : f[m] = KeptOf(ids, some, f, m)
           /\ P!Without(ids, some) = f[Len(ids)]
<1>1. PICK n \in Nat : n = Len(ids)
  OBVIOUS
<1>2. PICK S : S = Seq(Nat)
  OBVIOUS
<1>3. PICK step : step = [p \in S \X (1 .. n) |->
                           IF ids[p[2]] \in some THEN p[1] ELSE Append(p[1], ids[p[2]])]
  OBVIOUS
<1>4. <<>> \in S /\ step \in [S \X (1 .. n) -> S]
  <2>1. ASSUME NEW q \in Seq(Nat), NEW m \in 1 .. n
        PROVE  (IF ids[m] \in some THEN q ELSE Append(q, ids[m])) \in Seq(Nat)
    BY <1>1
  <2> QED
    BY <1>2, <1>3, <2>1
<1>5. PICK f : Loop(f, n, <<>>, step, S)
  BY <1>4, LoopExists DEF Steps
<1>6. \A g : \A m \in 1 .. n : g[m - 1] \in S => KeptOf(ids, some, g, m) = step[<<g[m - 1], m>>]
  BY <1>3 DEF KeptOf
<1>7. \A m \in 1 .. n : f[m] = KeptOf(ids, some, f, m)
  <2> TAKE m \in 1 .. n
  <2>1. f[m - 1] \in S /\ f[m] = step[<<f[m - 1], m>>]
    BY <1>5 DEF Loop
  <2> QED
    BY <1>6, <2>1
<1> DEFINE All(g) == g = [m \in 0 .. n |-> IF m = 0 THEN <<>> ELSE KeptOf(ids, some, g, m)]
<1>8. All(f)
  <2>1. PICK h : h = [m \in 0 .. n |-> IF m = 0 THEN <<>> ELSE KeptOf(ids, some, f, m)]
    OBVIOUS
  <2>2. \A m \in 0 .. n : h[m] = f[m]
    BY <1>5, <1>7, <2>1 DEF Loop
  <2> QED
    BY <1>5, <2>1, <2>2 DEF Loop
<1>9. PICK g : g = CHOOSE h : All(h)
  OBVIOUS
<1>10. P!Without(ids, some) = g[n]
  BY <1>1, <1>9 DEF P!Without, KeptOf
<1>11. All(g)
  BY <1>8, <1>9
<1>12. Follows(g, n, <<>>, step, S)
  <2>1. PICK h : h = [m \in 0 .. n |-> IF m = 0 THEN <<>> ELSE KeptOf(ids, some, g, m)]
    OBVIOUS
  <2>2. g = h
    BY <1>11, <2>1
  <2>3. h = [m \in 0 .. n |-> h[m]] /\ h[0] = <<>>
    BY <2>1
  <2>4. \A m \in 1 .. n : h[m] = KeptOf(ids, some, g, m)
    BY <2>1
  <2> HIDE DEF All
  <2> QED
    BY <1>6, <2>2, <2>3, <2>4 DEF Follows
<1>13. g = f
  BY <1>5, <1>12, OnlyOne
<1> QED
  BY <1>1, <1>2, <1>5, <1>7, <1>10, <1>13 DEF Loop

\* What Without leaves: the others, and none of them twice if none was there twice.
LEMMA WithoutIs ==
  ASSUME NEW ids \in Seq(Nat), NEW some
  PROVE  /\ P!Without(ids, some) \in Seq(Nat)
         /\ P!Range(P!Without(ids, some)) = P!Range(ids) \ some
         /\ NoRepeats(ids) => NoRepeats(P!Without(ids, some))
<1> DEFINE n == Len(ids)
           Before(m) == {ids[k] : k \in 1 .. m}
<1>1. n \in Nat /\ DOMAIN ids = 1 .. n /\ \A m \in 1 .. n : ids[m] \in Nat
  OBVIOUS
<1>2. PICK f \in [0 .. n -> Seq(Nat)] :
        /\ f[0] = <<>> /\ \A m \in 1 .. n : f[m] = KeptOf(ids, some, f, m)
        /\ P!Without(ids, some) = f[n]
  BY WithoutLoops
<1>3. \A m \in 1 .. n : /\ m - 1 \in 0 .. n /\ m \in 0 .. n /\ f[m - 1] \in Seq(Nat)
                        /\ Before(m) = Before(m - 1) \cup {ids[m]}
  <2> TAKE m \in 1 .. n
  <2>1. m - 1 \in 0 .. n /\ m \in 0 .. n
    BY <1>1
  <2>2. 1 .. m = 1 .. m - 1 \cup {m}
    OBVIOUS
  <2> QED
    BY <1>2, <2>1, <2>2
<1> HIDE DEF Before, n
<1> DEFINE Q(m) == /\ P!Range(f[m]) = Before(m) \ some
                   /\ NoRepeats(ids) => NoRepeats(f[m])
           G == {m \in 0 .. n : Q(m)}
<1>4. 0 \in G
  <2>1. P!Range(f[0]) = {} /\ NoRepeats(f[0])
    BY <1>2 DEF P!Range, NoRepeats
  <2>2. Before(0) = {}
    BY DEF Before
  <2> QED
    BY <1>1, <2>1, <2>2
<1>5. ASSUME NEW m \in 1 .. n, m - 1 \in G PROVE m \in G
  <2>1. Q(m - 1) /\ f[m] = KeptOf(ids, some, f, m) /\ f[m - 1] \in Seq(Nat)
    BY <1>2, <1>3, <1>5
  <2>2. CASE ids[m] \in some
    <3>1. f[m] = f[m - 1]
      BY <2>1, <2>2 DEF KeptOf
    <3> QED
      BY <1>3, <2>1, <2>2, <3>1
  <2>3. CASE ids[m] \notin some
    <3>1. f[m] = Append(f[m - 1], ids[m])
      BY <2>1, <2>3 DEF KeptOf
    <3>2. P!Range(f[m]) = P!Range(f[m - 1]) \cup {ids[m]}
      BY <2>1, <3>1, Appended
    <3>3. P!Range(f[m]) = Before(m) \ some
      BY <1>3, <2>1, <2>3, <3>2
    <3>4. ASSUME NoRepeats(ids) PROVE NoRepeats(f[m])
      <4>1. ids[m] \notin Before(m - 1)
        <5>1. \A k \in 1 .. m - 1 : k \in 1 .. n /\ k # m
          BY <1>1
        <5>2. \A k \in 1 .. n : ids[k] = ids[m] => k = m
          BY <1>1, <3>4 DEF NoRepeats
        <5> QED
          BY <5>1, <5>2 DEF Before
      <4> QED
        BY <2>1, <3>1, <3>4, <4>1, Appended
    <3> QED
      BY <1>3, <3>3, <3>4
  <2> QED
    BY <2>2, <2>3
<1>6. n \in G
  <2>1. 0 .. n \subseteq G
    <3> HIDE DEF G
    <3> QED
      BY <1>1, <1>4, <1>5, UpTo
  <2> QED
    BY <1>1, <2>1
<1>7. Before(n) = P!Range(ids)
  BY <1>1 DEF Before, P!Range
<1> QED
  BY <1>1, <1>2, <1>6, <1>7

\* What the loop of normalize_tool_call_history holds.
Bounds == {U \in SUBSET Nat : \E b \in Nat : \A n \in U : n <= b}
Renamings == UNION {[D -> Nat \ {0}] : D \in SUBSET Nat}
Repairs == [out : Seq(Items), calls : Bounds, outputs : SUBSET Nat, pending : Seq(Nat),
            renamed : Renamings]

LEMMA CompatIdIsNew ==
  ASSUME NEW used \in Bounds
  PROVE  P!NextCompatId(used) \in Nat \ {0} /\ P!NextCompatId(used) \notin used
<1>1. PICK b \in Nat : \A n \in used : n <= b
  BY DEF Bounds
<1> DEFINE U == used \cup {0}
           top == P!Max(U)
           free == (1 .. top + 1) \ used
<1>2. U \in SUBSET Nat /\ U # {} /\ \A n \in U : n <= b
  BY <1>1 DEF Bounds
<1>3. top \in Nat /\ \A n \in U : top >= n
  <2> HIDE DEF U
  <2> QED
    BY <1>2, MaxIs
<1>4. top + 1 \in free /\ free \in SUBSET Nat /\ 0 \notin free
  <2>1. \A n \in used : top >= n
    BY <1>3
  <2> HIDE DEF top, U
  <2>2. top + 1 \notin used
    BY <1>3, <2>1
  <2> QED
    BY <1>3, <2>2
<1>5. P!NextCompatId(used) = P!Min(free)
  BY DEF P!NextCompatId
<1>6. P!Min(free) \in free
  <2> HIDE DEF free
  <2> QED
    BY <1>4, MinIs
<1> QED
  BY <1>4, <1>5, <1>6

Synthesized(m) == [k \in DOMAIN m |-> P!Synthetic(m[k])]
LEMMA SupplyShape ==
  ASSUME NEW r \in Repairs
  PROVE  LET a == P!SupplyMissing(r)
             m == P!Without(r.pending, r.outputs)
         IN /\ a \in Repairs /\ a.out = r.out \o Synthesized(m) /\ a.calls = r.calls
            /\ a.outputs = r.outputs \cup P!Range(m) /\ a.pending = <<>>
            /\ a.renamed = r.renamed
            /\ m \in Seq(Nat) /\ Synthesized(m) \in Seq(Items)
<1>1. PICK m : m = P!Without(r.pending, r.outputs)
  OBVIOUS
<1>2. m \in Seq(Nat)
  BY <1>1, WithoutIs DEF Repairs
<1>3. P!Range(m) \subseteq Nat
  BY <1>2 DEF P!Range
<1>4. Synthesized(m) \in Seq(Items)
  <2>1. \A k \in DOMAIN m : P!Synthetic(m[k]) \in Items
    BY <1>2, NewItems DEF Items
  <2>2. DOMAIN m = 1 .. Len(m) /\ Len(m) \in Nat
    BY <1>2
  <2>3. PICK S : S = Items
    OBVIOUS
  <2>4. [k \in 1 .. Len(m) |-> P!Synthetic(m[k])] \in Seq(S)
    BY <2>1, <2>2, <2>3
  <2> QED
    BY <2>2, <2>3, <2>4 DEF Synthesized
<1>5. P!SupplyMissing(r) = [r EXCEPT !.out = @ \o Synthesized(m), !.outputs = @ \cup P!Range(m),
                                     !.pending = <<>>]
  BY <1>1 DEF P!SupplyMissing, Synthesized
<1>6. r.out \in Seq(Items) /\ r.out \o Synthesized(m) \in Seq(Items)
  <2>1. PICK S : S = Items
    OBVIOUS
  <2>2. r.out \in Seq(S) /\ Synthesized(m) \in Seq(S)
    BY <1>4, <2>1 DEF Repairs
  <2> QED
    BY <2>1, <2>2
<1>7. <<>> \in Seq(Nat)
  OBVIOUS
<1> QED
  BY <1>1, <1>2, <1>3, <1>4, <1>5, <1>6, <1>7 DEF Repairs

\* What Admit does for a call.
Admits(a, r, x) ==
  /\ a.out = Append(r.out, x) /\ a.calls = r.calls \cup {x.id} /\ a.outputs = r.outputs
  /\ a.pending = IF x.id \in P!Range(r.pending) THEN r.pending ELSE Append(r.pending, x.id)
LEMMA AdmitShape ==
  ASSUME NEW r \in Repairs, NEW x \in Calls
  PROVE  LET a == P!Admit(r, x) IN a \in Repairs /\ Admits(a, r, x) /\ a.renamed = r.renamed
<1>1. x.id \in Nat \ {0}
  BY DEF Calls
<1>2. r.calls \cup {x.id} \in Bounds
  <2>1. PICK b \in Nat : \A n \in r.calls : n <= b
    BY DEF Repairs, Bounds
  <2>2. \A n \in r.calls : n \in Nat
    BY DEF Repairs, Bounds
  <2>3. b + x.id \in Nat /\ \A n \in r.calls \cup {x.id} : n <= b + x.id
    BY <1>1, <2>1, <2>2
  <2> QED
    BY <1>1, <2>2, <2>3 DEF Bounds
<1>3. Append(r.out, x) \in Seq(Items)
  <2>1. PICK S : S = Items
    OBVIOUS
  <2>2. r.out \in Seq(S) /\ x \in S
    BY <2>1 DEF Repairs, Items
  <2> QED
    BY <2>1, <2>2
<1>4. PICK pending : pending = IF x.id \in P!Range(r.pending) THEN r.pending
                               ELSE Append(r.pending, x.id)
  OBVIOUS
<1>5. pending \in Seq(Nat)
  BY <1>1, <1>4 DEF Repairs
<1>6. P!Admit(r, x) = [r EXCEPT !.out = Append(@, x), !.calls = @ \cup {x.id}, !.pending = pending]
  BY <1>1, <1>4 DEF P!Admit
<1> QED
  BY <1>2, <1>3, <1>4, <1>5, <1>6 DEF Repairs, Admits

\* A call is admitted under an id that no call has, or it is a repetition.
AdmitsAs(a, r, x, y) ==
  /\ y.id \notin r.calls /\ (y = x \/ x.id \in r.calls) /\ Admits(a, r, y)
  /\ \A i \in DOMAIN a.renamed :
       \/ i \in DOMAIN r.renamed /\ a.renamed[i] = r.renamed[i]
       \/ x.id \in r.calls /\ a.renamed[i] = y.id
LEMMA AddCallShape ==
  ASSUME NEW r \in Repairs, NEW x \in Calls
  PROVE  LET a == P!AddCall(r, x) IN
         /\ a \in Repairs
         /\ (a = r /\ x.id \in r.calls) \/ \E y \in Calls : AdmitsAs(a, r, x, y)
<1>1. x.id \in Nat \ {0}
  BY DEF Calls
<1>2. PICK D \in SUBSET Nat : r.renamed \in [D -> Nat \ {0}]
  BY DEF Repairs, Renamings
<1>3. CASE x.id \in r.calls
  <2>1. CASE \E y \in P!Range(r.out) : P!IsCall(y) /\ y.sig = x.sig
    BY <1>1, <1>3, <2>1 DEF P!AddCall
  <2>2. CASE ~ \E y \in P!Range(r.out) : P!IsCall(y) /\ y.sig = x.sig
    <3>1. PICK new : new = P!NextCompatId(r.calls)
      OBVIOUS
    <3>2. new \in Nat \ {0} /\ new \notin r.calls
      BY <3>1, CompatIdIsNew DEF Repairs
    <3>3. PICK y : y = [x EXCEPT !.id = new]
      OBVIOUS
    <3>4. y \in Calls /\ y.id = new
      BY <3>2, <3>3, NewItems
    <3>5. PICK b : b = P!Admit(r, y)
      OBVIOUS
    <3>6. b \in Repairs /\ Admits(b, r, y) /\ b.renamed = r.renamed
      BY <3>4, <3>5, AdmitShape
    <3>7. PICK f : f = [i \in D \cup {x.id} |-> IF i = x.id THEN new ELSE r.renamed[i]]
      OBVIOUS
    <3>8. f \in [D \cup {x.id} -> Nat \ {0}] /\ D \cup {x.id} \in SUBSET Nat
      BY <1>1, <1>2, <3>2, <3>7
    <3>9. f \in Renamings
      BY <3>8 DEF Renamings
    <3>10. P!AddCall(r, x) = [b EXCEPT !.renamed = f]
      <4>1. P!AddCall(r, x) = [b EXCEPT !.renamed = [i \in DOMAIN @ \cup {x.id} |->
                                                      IF i = x.id THEN new ELSE @[i]]]
        BY <1>1, <1>3, <2>2, <3>1, <3>3, <3>5 DEF P!AddCall
      <4>2. DOMAIN b.renamed = D
        BY <1>2, <3>6
      <4> QED
        BY <3>6, <3>7, <4>1, <4>2
    <3>11. PICK a : a = [b EXCEPT !.renamed = f]
      OBVIOUS
    <3>12. a \in Repairs /\ Admits(a, r, y) /\ a.renamed = f
      BY <3>6, <3>9, <3>11 DEF Repairs, Admits
    <3>13. \A i \in DOMAIN f : (i \in DOMAIN r.renamed /\ f[i] = r.renamed[i]) \/ f[i] = y.id
      BY <1>2, <3>4, <3>7
    <3>14. AdmitsAs(a, r, x, y)
      BY <1>3, <3>2, <3>4, <3>12, <3>13 DEF AdmitsAs
    <3> QED
      BY <3>4, <3>10, <3>11, <3>12, <3>14
  <2> QED
    BY <2>1, <2>2
<1>4. CASE x.id \notin r.calls
  <2>1. PICK b : b = P!Admit(r, x)
    OBVIOUS
  <2>2. b \in Repairs /\ Admits(b, r, x) /\ b.renamed = r.renamed
    BY <2>1, AdmitShape
  <2>3. PICK f : f = [i \in D \ {x.id} |-> r.renamed[i]]
    OBVIOUS
  <2>4. f \in [D \ {x.id} -> Nat \ {0}] /\ D \ {x.id} \in SUBSET Nat
    BY <1>2, <2>3
  <2>5. f \in Renamings
    BY <2>4 DEF Renamings
  <2>6. P!AddCall(r, x) = [b EXCEPT !.renamed = f]
    <3>1. P!AddCall(r, x) = [b EXCEPT !.renamed = [i \in DOMAIN @ \ {x.id} |-> @[i]]]
      BY <1>4, <2>1 DEF P!AddCall
    <3>2. DOMAIN b.renamed = D
      BY <1>2, <2>2
    <3> QED
      BY <2>2, <2>3, <3>1, <3>2
  <2>7. PICK a : a = [b EXCEPT !.renamed = f]
    OBVIOUS
  <2>8. a \in Repairs /\ Admits(a, r, x) /\ a.renamed = f
    BY <2>2, <2>5, <2>7 DEF Repairs, Admits
  <2>9. \A i \in DOMAIN f : i \in DOMAIN r.renamed /\ f[i] = r.renamed[i]
    BY <1>2, <2>3
  <2>10. AdmitsAs(a, r, x, x)
    BY <1>4, <2>8, <2>9 DEF AdmitsAs
  <2> QED
    BY <2>6, <2>7, <2>8, <2>10
<1> QED
  BY <1>3, <1>4

\* A result is placed, or a note in its place.
Places(a, r, x, prune) ==
  /\ a.calls = r.calls /\ a.renamed = r.renamed
  /\ IF prune /\ x.id # 0 /\ x.id \notin r.calls
     THEN a.out = Append(r.out, P!Note) /\ a.outputs = r.outputs /\ a.pending = r.pending
     ELSE /\ a.out = Append(r.out, x) /\ a.outputs = r.outputs \cup ({x.id} \ {0})
          /\ a.pending = P!Without(r.pending, {x.id} \ {0})
LEMMA PlaceShape ==
  ASSUME NEW r \in Repairs, NEW x \in Results, NEW prune
  PROVE  LET a == P!Place(r, x, prune) IN a \in Repairs /\ Places(a, r, x, prune)
<1>1. x.id \in Nat
  BY DEF Results
<1>2. \A y \in Items : Append(r.out, y) \in Seq(Items)
  <2>1. PICK S : S = Items
    OBVIOUS
  <2>2. r.out \in Seq(S)
    BY <2>1 DEF Repairs
  <2> QED
    BY <2>1, <2>2
<1>3. P!Note \in Items /\ x \in Items
  BY NewItems DEF Items
<1>4. CASE prune /\ x.id # 0 /\ x.id \notin r.calls
  <2>1. P!Place(r, x, prune) = [r EXCEPT !.out = Append(@, P!Note)]
    BY <1>4 DEF P!Place
  <2> QED
    BY <1>2, <1>3, <1>4, <2>1 DEF Repairs, Places
<1>5. CASE ~(prune /\ x.id # 0 /\ x.id \notin r.calls)
  <2>1. PICK pending : pending = P!Without(r.pending, {x.id} \ {0})
    OBVIOUS
  <2>2. pending \in Seq(Nat)
    BY <2>1, WithoutIs DEF Repairs
  <2>3. P!Place(r, x, prune) = [r EXCEPT !.out = Append(@, x), !.outputs = @ \cup ({x.id} \ {0}),
                                         !.pending = pending]
    BY <1>5, <2>1 DEF P!Place
  <2>4. Append(r.out, x) \in Seq(Items) /\ r.outputs \cup ({x.id} \ {0}) \in SUBSET Nat
    BY <1>1, <1>2, <1>3 DEF Repairs
  <2>5. PICK a : a = P!Place(r, x, prune)
    OBVIOUS
  <2>6. a \in Repairs
    BY <2>2, <2>3, <2>4, <2>5 DEF Repairs
  <2>7. /\ a.out = Append(r.out, x) /\ a.outputs = r.outputs \cup ({x.id} \ {0})
        /\ a.pending = pending /\ a.calls = r.calls /\ a.renamed = r.renamed
    BY <2>3, <2>5 DEF Repairs
  <2> QED
    BY <1>5, <2>1, <2>5, <2>6, <2>7 DEF Places
<1> QED
  BY <1>4, <1>5

LEMMA AddOutputShape ==
  ASSUME NEW r \in Repairs, NEW x \in Results, NEW prune
  PROVE  LET a == P!AddOutput(r, x, prune) IN
         /\ a \in Repairs
         /\ \/ a = r /\ x.id # 0 /\ x.id \in r.outputs
            \/ \E y \in Results :
                 /\ y.id = 0 \/ y.id \notin r.outputs
                 /\ y = x \/ (x.id \in DOMAIN r.renamed /\ y.id = r.renamed[x.id])
                 /\ Places(a, r, y, prune)
<1>1. CASE x.id # 0 /\ x.id \in r.outputs
  <2>1. CASE x.id \in DOMAIN r.renamed /\ r.renamed[x.id] \notin r.outputs
    <3>1. PICK D \in SUBSET Nat : r.renamed \in [D -> Nat \ {0}]
      BY DEF Repairs, Renamings
    <3>2. PICK y : y = [x EXCEPT !.id = r.renamed[x.id]]
      OBVIOUS
    <3>3. y \in Results /\ y.id = r.renamed[x.id]
      BY <2>1, <3>1, <3>2, NewItems
    <3>4. P!AddOutput(r, x, prune) = P!Place(r, y, prune)
      BY <1>1, <2>1, <3>2 DEF P!AddOutput
    <3> QED
      BY <2>1, <3>3, <3>4, PlaceShape
  <2>2. CASE ~(x.id \in DOMAIN r.renamed /\ r.renamed[x.id] \notin r.outputs)
    BY <1>1, <2>2 DEF P!AddOutput
  <2> QED
    BY <2>1, <2>2
<1>2. CASE ~(x.id # 0 /\ x.id \in r.outputs)
  <2>1. P!AddOutput(r, x, prune) = P!Place(r, x, prune)
    BY <1>2 DEF P!AddOutput
  <2> QED
    BY <1>2, <2>1, PlaceShape
<1> QED
  BY <1>1, <1>2

-----------------------------------------------------------------------------
(* The pairing of calls and results.                                        *)

\* One sequence of items behind another.
Extended(new, old, extra) ==
  /\ Len(new) = Len(old) + Len(extra)
  /\ \A k \in 1 .. Len(old) : new[k] = old[k]
  /\ \A k \in 1 .. Len(extra) : new[Len(old) + k] = extra[k]

LEMMA ItemSequence ==
  ASSUME NEW q \in Seq(Items)
  PROVE  /\ Len(q) \in Nat /\ DOMAIN q = 1 .. Len(q)
         /\ \A k \in 1 .. Len(q) : q[k] \in Items
         /\ \A x \in Items : /\ Append(q, x) \in Seq(Items) /\ Extended(Append(q, x), q, <<x>>)
                             /\ <<x>> \in Seq(Items) /\ Len(<<x>>) = 1 /\ <<x>>[1] = x
                             /\ Len(Append(q, x)) = Len(q) + 1
         /\ \A e \in Seq(Items) : q \o e \in Seq(Items) /\ Extended(q \o e, q, e)
<1>1. PICK S : S = Items
  OBVIOUS
<1>2. q \in Seq(S) /\ Len(q) \in Nat /\ DOMAIN q = 1 .. Len(q) /\ \A k \in 1 .. Len(q) : q[k] \in S
  BY <1>1
<1>3. ASSUME NEW x \in S
      PROVE  /\ Append(q, x) \in Seq(S) /\ <<x>> \in Seq(S) /\ Len(<<x>>) = 1 /\ <<x>>[1] = x
             /\ Len(Append(q, x)) = Len(q) + 1
             /\ \A k \in 1 .. Len(q) : Append(q, x)[k] = q[k]
             /\ Append(q, x)[Len(q) + 1] = x
  BY <1>2
<1>4. ASSUME NEW x \in S PROVE Extended(Append(q, x), q, <<x>>)
  BY <1>2, <1>3 DEF Extended
<1>5. ASSUME NEW e \in Seq(S)
      PROVE  /\ q \o e \in Seq(S) /\ Len(q \o e) = Len(q) + Len(e)
             /\ \A k \in 1 .. Len(q) + Len(e) : (q \o e)[k] = IF k <= Len(q) THEN q[k] ELSE e[k - Len(q)]
  BY <1>2
<1>6. ASSUME NEW e \in Seq(S) PROVE Extended(q \o e, q, e)
  <2>1. Len(e) \in Nat
    OBVIOUS
  <2>2. ASSUME NEW k \in 1 .. Len(q) PROVE (q \o e)[k] = q[k]
    BY <1>2, <1>5, <2>1
  <2>3. ASSUME NEW k \in 1 .. Len(e) PROVE (q \o e)[Len(q) + k] = e[k]
    <3>1. Len(q) + k \in 1 .. Len(q) + Len(e) /\ ~(Len(q) + k <= Len(q)) /\ Len(q) + k - Len(q) = k
      BY <1>2, <2>1
    <3> QED
      BY <1>5, <3>1
  <2> QED
    BY <1>5, <2>2, <2>3 DEF Extended
<1> QED
  BY <1>1, <1>2, <1>3, <1>4, <1>5, <1>6

\* An index of the longer sequence is one of the old part or of the new part.
LEMMA WhereItIs ==
  ASSUME NEW old \in Seq(Items), NEW extra \in Seq(Items), NEW new \in Seq(Items),
         Extended(new, old, extra), NEW k \in DOMAIN new
  PROVE  \/ k \in DOMAIN old /\ new[k] = old[k]
         \/ \E j \in DOMAIN extra : k = Len(old) + j /\ new[k] = extra[j]
<1>1. /\ Len(old) \in Nat /\ Len(extra) \in Nat /\ k \in 1 .. Len(old) + Len(extra)
      /\ DOMAIN old = 1 .. Len(old) /\ DOMAIN extra = 1 .. Len(extra)
  BY ItemSequence DEF Extended
<1>2. CASE k <= Len(old)
  <2>1. k \in 1 .. Len(old)
    BY <1>1, <1>2
  <2> QED
    BY <1>1, <2>1 DEF Extended
<1>3. CASE ~(k <= Len(old))
  <2>1. k - Len(old) \in 1 .. Len(extra) /\ k = Len(old) + (k - Len(old))
    BY <1>1, <1>3
  <2> QED
    BY <1>1, <2>1 DEF Extended
<1> QED
  BY <1>2, <1>3

LEMMA OldIndexes ==
  ASSUME NEW old \in Seq(Items), NEW extra \in Seq(Items), NEW new \in Seq(Items),
         Extended(new, old, extra)
  PROVE  /\ Len(old) \in Nat /\ Len(extra) \in Nat /\ Len(new) = Len(old) + Len(extra)
         /\ DOMAIN old = 1 .. Len(old) /\ DOMAIN extra = 1 .. Len(extra) /\ DOMAIN new = 1 .. Len(new)
         /\ \A k \in DOMAIN old : k \in DOMAIN new /\ new[k] = old[k]
         /\ \A k \in DOMAIN extra : Len(old) + k \in DOMAIN new /\ new[Len(old) + k] = extra[k]
<1>1. /\ Len(old) \in Nat /\ Len(extra) \in Nat /\ Len(new) = Len(old) + Len(extra)
      /\ DOMAIN old = 1 .. Len(old) /\ DOMAIN extra = 1 .. Len(extra) /\ DOMAIN new = 1 .. Len(new)
  BY ItemSequence DEF Extended
<1>2. \A k \in DOMAIN old : k \in DOMAIN new /\ new[k] = old[k]
  BY <1>1 DEF Extended
<1>3. \A k \in DOMAIN extra : Len(old) + k \in DOMAIN new /\ new[Len(old) + k] = extra[k]
  BY <1>1 DEF Extended
<1> QED
  BY <1>1, <1>2, <1>3

\* The parts of what HistoryIsPaired says, of the items that are there so far.
OnceEach(out) ==
  \A i \in DOMAIN out : \A j \in DOMAIN out :
    i # j /\ out[i].id = out[j].id /\ out[i].id # 0 => out[i].kind # out[j].kind
Called(out) ==
  \A i \in DOMAIN out : P!IsOutput(out[i]) /\ out[i].id # 0 =>
    \E j \in 1 .. (i - 1) : P!IsCall(out[j]) /\ out[j].id = out[i].id
Quiet(x, prune) == x.kind \in {"call", "output"} \/ (prune /\ x = P!Note)
HasItsResult(out, k, prune) ==
  \E j \in DOMAIN out : /\ k < j /\ P!IsOutput(out[j]) /\ out[j].id = out[k].id
                        /\ \A m \in k .. j : Quiet(out[m], prune)
Awaits(r, k, prune) ==
  r.out[k].id \in P!Range(r.pending) /\ \A m \in k .. Len(r.out) : Quiet(r.out[m], prune)

LEMMA OnceMore ==
  ASSUME NEW old \in Seq(Items), NEW extra \in Seq(Items), NEW new \in Seq(Items),
         Extended(new, old, extra), OnceEach(old), OnceEach(extra),
         \A i \in DOMAIN old : \A j \in DOMAIN extra :
           old[i].id = extra[j].id /\ old[i].id # 0 => old[i].kind # extra[j].kind
  PROVE  OnceEach(new)
<1> SUFFICES ASSUME NEW i \in DOMAIN new, NEW j \in DOMAIN new,
                    i # j, new[i].id = new[j].id, new[i].id # 0
             PROVE  new[i].kind # new[j].kind
  BY DEF OnceEach
<1>1. \/ i \in DOMAIN old /\ new[i] = old[i]
      \/ \E a \in DOMAIN extra : i = Len(old) + a /\ new[i] = extra[a]
  BY WhereItIs
<1>2. \/ j \in DOMAIN old /\ new[j] = old[j]
      \/ \E b \in DOMAIN extra : j = Len(old) + b /\ new[j] = extra[b]
  BY WhereItIs
<1>3. CASE i \in DOMAIN old /\ new[i] = old[i]
  <2>1. CASE j \in DOMAIN old /\ new[j] = old[j]
    BY <1>3, <2>1 DEF OnceEach
  <2>2. CASE \E b \in DOMAIN extra : j = Len(old) + b /\ new[j] = extra[b]
    BY <1>3, <2>2
  <2> QED
    BY <1>2, <2>1, <2>2
<1>4. CASE \E a \in DOMAIN extra : i = Len(old) + a /\ new[i] = extra[a]
  <2>1. PICK a \in DOMAIN extra : i = Len(old) + a /\ new[i] = extra[a]
    BY <1>4
  <2>2. CASE j \in DOMAIN old /\ new[j] = old[j]
    BY <2>1, <2>2
  <2>3. CASE \E b \in DOMAIN extra : j = Len(old) + b /\ new[j] = extra[b]
    <3>1. PICK b \in DOMAIN extra : j = Len(old) + b /\ new[j] = extra[b]
      BY <2>3
    <3>2. a # b
      BY <2>1, <3>1
    <3> QED
      BY <2>1, <3>1, <3>2 DEF OnceEach
  <2> QED
    BY <1>2, <2>2, <2>3
<1> QED
  BY <1>1, <1>3, <1>4

LEMMA CalledMore ==
  ASSUME NEW old \in Seq(Items), NEW extra \in Seq(Items), NEW new \in Seq(Items),
         Extended(new, old, extra), Called(old),
         \A j \in DOMAIN extra : P!IsOutput(extra[j]) /\ extra[j].id # 0 =>
           \E i \in DOMAIN old : P!IsCall(old[i]) /\ old[i].id = extra[j].id
  PROVE  Called(new)
<1> SUFFICES ASSUME NEW i \in DOMAIN new, P!IsOutput(new[i]), new[i].id # 0
             PROVE  \E j \in 1 .. (i - 1) : P!IsCall(new[j]) /\ new[j].id = new[i].id
  BY DEF Called
<1>1. CASE i \in DOMAIN old /\ new[i] = old[i]
  <2>1. PICK j \in 1 .. (i - 1) : P!IsCall(old[j]) /\ old[j].id = old[i].id
    BY <1>1 DEF Called
  <2>2. j \in DOMAIN old
    BY <1>1, <2>1, OldIndexes
  <2> QED
    BY <1>1, <2>1, <2>2, OldIndexes
<1>2. CASE \E a \in DOMAIN extra : i = Len(old) + a /\ new[i] = extra[a]
  <2>1. PICK a \in DOMAIN extra : i = Len(old) + a /\ new[i] = extra[a]
    BY <1>2
  <2>2. PICK j \in DOMAIN old : P!IsCall(old[j]) /\ old[j].id = new[i].id
    BY <2>1
  <2>3. j \in 1 .. (i - 1)
    BY <2>1, <2>2, OldIndexes
  <2> QED
    BY <2>2, <2>3, OldIndexes
<1> QED
  BY <1>1, <1>2, WhereItIs

LEMMA ResultStays ==
  ASSUME NEW old \in Seq(Items), NEW extra \in Seq(Items), NEW new \in Seq(Items), NEW prune,
         Extended(new, old, extra), NEW k \in DOMAIN old, HasItsResult(old, k, prune)
  PROVE  HasItsResult(new, k, prune)
<1>1. PICK j \in DOMAIN old : /\ k < j /\ P!IsOutput(old[j]) /\ old[j].id = old[k].id
                              /\ \A m \in k .. j : Quiet(old[m], prune)
  BY DEF HasItsResult
<1>2. \A m \in k .. j : m \in DOMAIN old /\ new[m] = old[m]
  BY <1>1, OldIndexes
<1>3. j \in DOMAIN new /\ new[j] = old[j] /\ new[k] = old[k]
  BY OldIndexes
<1>4. \A m \in k .. j : Quiet(new[m], prune)
  BY <1>1, <1>2
<1>5. k < j /\ P!IsOutput(new[j]) /\ new[j].id = new[k].id
  BY <1>1, <1>3
<1> QED
  BY <1>3, <1>4, <1>5 DEF HasItsResult

LEMMA StaysQuiet ==
  ASSUME NEW old \in Seq(Items), NEW extra \in Seq(Items), NEW new \in Seq(Items), NEW prune,
         Extended(new, old, extra), NEW k \in DOMAIN old,
         \A m \in k .. Len(old) : Quiet(old[m], prune), 
         \A m \in DOMAIN extra : Quiet(extra[m], prune)
  PROVE  \A m \in k .. Len(new) : Quiet(new[m], prune)
<1> TAKE m \in k .. Len(new)
<1>1. m \in DOMAIN new /\ m \in Nat /\ k <= m
  BY OldIndexes
<1>2. CASE m \in DOMAIN old /\ new[m] = old[m]
  <2>1. m \in k .. Len(old)
    BY <1>1, <1>2, OldIndexes
  <2> QED
    BY <1>2, <2>1
<1> QED
  BY <1>1, <1>2, WhereItIs

\* What the loop keeps: every id occurs once as a call and once as a result, a result has its
\* call before it, and a call has its result, or waits for it with nothing else between.
KnowsIds(r) ==
  /\ \A k \in DOMAIN r.out : P!IsCall(r.out[k]) => r.out[k].id \in r.calls
  /\ \A c \in r.calls : \E k \in DOMAIN r.out : P!IsCall(r.out[k]) /\ r.out[k].id = c
  /\ \A k \in DOMAIN r.out : P!IsOutput(r.out[k]) /\ r.out[k].id # 0 => r.out[k].id \in r.outputs
  /\ r.outputs \subseteq r.calls
KnowsPending(r) ==
  /\ P!Range(r.pending) \subseteq r.calls \ r.outputs /\ NoRepeats(r.pending)
  /\ \A i \in DOMAIN r.renamed : r.renamed[i] \in r.calls
ResultsCome(r, prune) ==
  \A k \in DOMAIN r.out : P!IsCall(r.out[k]) => HasItsResult(r.out, k, prune) \/ Awaits(r, k, prune)
PairedSoFar(r, prune) ==
  OnceEach(r.out) /\ Called(r.out) /\ KnowsIds(r) /\ KnowsPending(r) /\ ResultsCome(r, prune)

LEMMA Alone ==
  ASSUME NEW x \in Items
  PROVE  DOMAIN <<x>> = {1} /\ <<x>>[1] = x /\ OnceEach(<<x>>)
<1>1. DOMAIN <<x>> = {1} /\ <<x>>[1] = x
  OBVIOUS
<1> QED
  BY <1>1 DEF OnceEach

LEMMA StillAwaits ==
  ASSUME NEW r \in Repairs, NEW a \in Repairs, NEW extra \in Seq(Items), NEW prune,
         Extended(a.out, r.out, extra), \A m \in DOMAIN extra : Quiet(extra[m], prune),
         NEW k \in DOMAIN r.out, Awaits(r, k, prune), r.out[k].id \in P!Range(a.pending)
  PROVE  Awaits(a, k, prune)
<1>1. r.out \in Seq(Items) /\ a.out \in Seq(Items)
  BY DEF Repairs
<1>2. \A m \in k .. Len(r.out) : Quiet(r.out[m], prune)
  BY DEF Awaits
<1>3. \A m \in k .. Len(a.out) : Quiet(a.out[m], prune)
  BY <1>1, <1>2, StaysQuiet
<1>4. a.out[k] = r.out[k]
  BY <1>1, OldIndexes
<1> QED
  BY <1>3, <1>4 DEF Awaits

OneFurther(new, old, x, e) ==
  /\ new \in Seq(Items) /\ Extended(new, old, e) /\ DOMAIN e = {1} /\ e[1] = x /\ OnceEach(e)
  /\ Len(old) \in Nat /\ Len(new) = Len(old) + 1
  /\ Len(old) + 1 \in DOMAIN new /\ new[Len(old) + 1] = x
  /\ \A k \in DOMAIN old : k \in DOMAIN new /\ new[k] = old[k]
  /\ \A k \in DOMAIN new : \/ k \in DOMAIN old /\ new[k] = old[k]
                           \/ k = Len(old) + 1 /\ new[k] = x
LEMMA OneMore ==
  ASSUME NEW old \in Seq(Items), NEW x \in Items, NEW new, new = Append(old, x)
  PROVE  \E e \in Seq(Items) : OneFurther(new, old, x, e)
<1>1. PICK e : e = <<x>>
  OBVIOUS
<1>2. DOMAIN e = {1} /\ e[1] = x /\ Len(e) = 1 /\ OnceEach(e)
  <2>1. Len(e) = 1
    BY <1>1
  <2> QED
    BY <1>1, <2>1, Alone
<1>3. new \in Seq(Items) /\ e \in Seq(Items) /\ Extended(new, old, e)
  BY <1>1, ItemSequence
<1>4. /\ Len(old) \in Nat /\ Len(new) = Len(old) + 1
      /\ DOMAIN old = 1 .. Len(old) /\ DOMAIN new = 1 .. Len(new)
  BY <1>2, <1>3, ItemSequence DEF Extended
<1>5. new[Len(old) + 1] = x /\ \A k \in 1 .. Len(old) : new[k] = old[k]
  BY <1>2, <1>3 DEF Extended
<1>6. /\ Len(old) + 1 \in DOMAIN new
      /\ \A k \in DOMAIN old : k \in DOMAIN new
      /\ \A k \in DOMAIN new : k \in DOMAIN old \/ k = Len(old) + 1
  BY <1>4
<1>7. \A k \in DOMAIN old : new[k] = old[k]
  BY <1>4, <1>5
<1>8. \A k \in DOMAIN new : \/ k \in DOMAIN old /\ new[k] = old[k]
                            \/ k = Len(old) + 1 /\ new[k] = x
  BY <1>5, <1>6, <1>7
<1>9. OneFurther(new, old, x, e)
  <2>1. new \in Seq(Items) /\ Extended(new, old, e) /\ DOMAIN e = {1} /\ e[1] = x /\ OnceEach(e)
    BY <1>2, <1>3, Zenon
  <2>2. Len(old) \in Nat /\ Len(new) = Len(old) + 1
    BY <1>4
  <2>3. Len(old) + 1 \in DOMAIN new /\ new[Len(old) + 1] = x
    BY <1>5, <1>6
  <2>4. \A k \in DOMAIN old : k \in DOMAIN new /\ new[k] = old[k]
    BY <1>6, <1>7
  <2> QED
    BY <1>8, <2>1, <2>2, <2>3, <2>4 DEF OneFurther
<1> QED
  BY <1>3, <1>9

LEMMA AdmitKeeps ==
  ASSUME NEW r \in Repairs, NEW a \in Repairs, NEW y \in Calls, NEW prune, PairedSoFar(r, prune),
         y.id \notin r.calls, Admits(a, r, y), \A i \in DOMAIN a.renamed : a.renamed[i] \in a.calls
  PROVE  PairedSoFar(a, prune)
<1> DEFINE n == Len(r.out)
<1>1. y \in Items /\ y.kind = "call" /\ y.id \in Nat \ {0}
  BY DEF Calls, Items
<1>2. r.out \in Seq(Items) /\ a.out = Append(r.out, y)
  BY DEF Repairs, Admits
<1>3. PICK e \in Seq(Items) : OneFurther(a.out, r.out, y, e)
  BY <1>1, <1>2, OneMore
<1>4. /\ a.out \in Seq(Items) /\ Extended(a.out, r.out, e)
      /\ DOMAIN e = {1} /\ e[1] = y /\ OnceEach(e)
  BY <1>3 DEF OneFurther
<1>5. /\ n \in Nat /\ Len(a.out) = n + 1
      /\ n + 1 \in DOMAIN a.out /\ a.out[n + 1] = y
      /\ \A k \in DOMAIN r.out : k \in DOMAIN a.out /\ a.out[k] = r.out[k]
      /\ \A k \in DOMAIN a.out : (k \in DOMAIN r.out /\ a.out[k] = r.out[k]) \/ (k = n + 1 /\ a.out[k] = y)
  BY <1>3 DEF OneFurther
<1>6. /\ y.id \notin P!Range(r.pending) /\ a.pending = Append(r.pending, y.id)
      /\ P!Range(a.pending) = P!Range(r.pending) \cup {y.id} /\ NoRepeats(a.pending)
  <2>1. y.id \notin P!Range(r.pending) /\ NoRepeats(r.pending)
    BY DEF PairedSoFar, KnowsPending
  <2>2. a.pending = Append(r.pending, y.id) /\ r.pending \in Seq(Nat)
    BY <2>1 DEF Admits, Repairs
  <2> QED
    BY <2>1, <2>2, Appended
<1>7. a.calls = r.calls \cup {y.id} /\ a.outputs = r.outputs
  BY DEF Admits
<1>8. OnceEach(a.out)
  <2>1. \A i \in DOMAIN r.out : r.out[i].id = y.id => r.out[i].kind # "call"
    BY DEF PairedSoFar, KnowsIds, P!IsCall
  <2>2. OnceEach(r.out)
    BY DEF PairedSoFar
  <2>3. \A i \in DOMAIN r.out : \A j \in DOMAIN e :
          r.out[i].id = e[j].id /\ r.out[i].id # 0 => r.out[i].kind # e[j].kind
    BY <1>1, <1>4, <2>1
  <2> QED
    BY <1>2, <1>4, <2>2, <2>3, OnceMore
<1>9. Called(a.out)
  <2>1. ~P!IsOutput(y) /\ Called(r.out)
    BY <1>1 DEF PairedSoFar, P!IsOutput
  <2>2. \A j \in DOMAIN e : P!IsOutput(e[j]) /\ e[j].id # 0 =>
          \E i \in DOMAIN r.out : P!IsCall(r.out[i]) /\ r.out[i].id = e[j].id
    BY <1>4, <2>1
  <2> QED
    BY <1>2, <1>4, <2>1, <2>2, CalledMore
<1>10. KnowsIds(a)
  <2>1. KnowsIds(r)
    BY DEF PairedSoFar
  <2>2. \A k \in DOMAIN a.out : P!IsCall(a.out[k]) => a.out[k].id \in a.calls
    BY <1>7, <1>4, <1>5, <2>1 DEF KnowsIds
  <2>3. \A c \in a.calls : \E k \in DOMAIN a.out : P!IsCall(a.out[k]) /\ a.out[k].id = c
    <3>1. P!IsCall(y)
      BY <1>1 DEF P!IsCall
    <3> QED
      BY <1>7, <1>4, <1>5, <2>1, <3>1 DEF KnowsIds
  <2>4. \A k \in DOMAIN a.out : P!IsOutput(a.out[k]) /\ a.out[k].id # 0 => a.out[k].id \in a.outputs
    <3>1. ~P!IsOutput(y)
      BY <1>1 DEF P!IsOutput
    <3> QED
      BY <1>7, <1>4, <1>5, <2>1, <3>1 DEF KnowsIds
  <2>5. a.outputs \subseteq a.calls
    BY <1>7, <2>1 DEF KnowsIds
  <2> QED
    BY <2>2, <2>3, <2>4, <2>5 DEF KnowsIds
<1>11. KnowsPending(a)
  <2>1. y.id \notin r.outputs
    BY DEF PairedSoFar, KnowsIds
  <2>2. P!Range(r.pending) \subseteq r.calls \ r.outputs
    BY DEF PairedSoFar, KnowsPending
  <2> QED
    BY <1>6, <1>7, <2>1, <2>2 DEF KnowsPending
<1>12. ResultsCome(a, prune)
  <2>1. Quiet(y, prune)
    BY <1>1 DEF Quiet
  <2> SUFFICES ASSUME NEW k \in DOMAIN a.out, P!IsCall(a.out[k])
               PROVE  HasItsResult(a.out, k, prune) \/ Awaits(a, k, prune)
    BY DEF ResultsCome
  <2>2. CASE k \in DOMAIN r.out /\ a.out[k] = r.out[k]
    <3>1. HasItsResult(r.out, k, prune) \/ Awaits(r, k, prune)
      BY <2>2 DEF PairedSoFar, ResultsCome
    <3>2. CASE HasItsResult(r.out, k, prune)
      BY <1>2, <1>4, <2>2, <3>2, ResultStays
    <3>3. CASE Awaits(r, k, prune)
      <4>1. r.out[k].id \in P!Range(a.pending)
        BY <1>6, <3>3 DEF Awaits
      <4>2. \A m \in DOMAIN e : Quiet(e[m], prune)
        BY <1>4, <1>5, <2>1
      <4> QED
        BY <1>2, <1>4, <2>2, <3>3, <4>1, <4>2, StillAwaits
    <3> QED
      BY <3>1, <3>2, <3>3
  <2>3. CASE k = n + 1 /\ a.out[k] = y
    <3>1. \A m \in k .. Len(a.out) : m = k
      BY <1>4, <1>5, <2>3
    <3> QED
      BY <1>6, <2>1, <2>3, <3>1 DEF Awaits
  <2> QED
    BY <1>4, <1>5, <2>2, <2>3
<1> QED
  BY <1>8, <1>9, <1>10, <1>11, <1>12 DEF PairedSoFar

\* A result takes its call out of those that wait.
LEMMA PlaceKeeps ==
  ASSUME NEW r \in Repairs, NEW a \in Repairs, NEW y \in Results, NEW prune, PairedSoFar(r, prune),
         y.id = 0 \/ y.id \notin r.outputs, prune \/ y.id = 0 \/ y.id \in r.calls,
         Places(a, r, y, prune), ~(prune /\ y.id # 0 /\ y.id \notin r.calls)
  PROVE  PairedSoFar(a, prune)
<1> DEFINE n == Len(r.out)
<1>1. y \in Items /\ y.kind = "output" /\ P!IsOutput(y) /\ ~P!IsCall(y) /\ Quiet(y, prune) /\ y.id \in Nat
  BY DEF Results, Items, P!IsOutput, P!IsCall, Quiet
<1>2. /\ r.out \in Seq(Items) /\ a.out = Append(r.out, y) /\ a.calls = r.calls
      /\ a.renamed = r.renamed /\ a.outputs = r.outputs \cup ({y.id} \ {0})
      /\ a.pending = P!Without(r.pending, {y.id} \ {0}) /\ r.pending \in Seq(Nat)
      /\ y.id = 0 \/ y.id \in r.calls
  BY DEF Repairs, Places
<1>3. PICK e \in Seq(Items) : OneFurther(a.out, r.out, y, e)
  BY <1>1, <1>2, OneMore
<1>4. /\ a.out \in Seq(Items) /\ Extended(a.out, r.out, e)
      /\ DOMAIN e = {1} /\ e[1] = y /\ OnceEach(e)
  BY <1>3 DEF OneFurther
<1>5. /\ n \in Nat /\ Len(a.out) = n + 1 /\ n + 1 \in DOMAIN a.out /\ a.out[n + 1] = y
      /\ \A k \in DOMAIN r.out : k \in DOMAIN a.out /\ a.out[k] = r.out[k]
      /\ \A k \in DOMAIN a.out : (k \in DOMAIN r.out /\ a.out[k] = r.out[k]) \/ (k = n + 1 /\ a.out[k] = y)
  BY <1>3 DEF OneFurther
<1>6. /\ P!Range(a.pending) = P!Range(r.pending) \ ({y.id} \ {0})
      /\ NoRepeats(r.pending) => NoRepeats(a.pending)
  BY <1>2, WithoutIs
<1>7. KnowsIds(r) /\ KnowsPending(r) /\ OnceEach(r.out) /\ Called(r.out) /\ ResultsCome(r, prune)
  BY DEF PairedSoFar
<1>8. OnceEach(a.out)
  <2>1. \A i \in DOMAIN r.out : \A j \in DOMAIN e :
          r.out[i].id = e[j].id /\ r.out[i].id # 0 => r.out[i].kind # e[j].kind
    BY <1>1, <1>4, <1>7 DEF KnowsIds, P!IsOutput
  <2> QED
    BY <1>2, <1>4, <1>7, <2>1, OnceMore
<1>9. Called(a.out)
  <2>1. \A j \in DOMAIN e : P!IsOutput(e[j]) /\ e[j].id # 0 =>
          \E i \in DOMAIN r.out : P!IsCall(r.out[i]) /\ r.out[i].id = e[j].id
    BY <1>2, <1>4, <1>7 DEF KnowsIds
  <2> QED
    BY <1>2, <1>4, <1>7, <2>1, CalledMore
<1>10. KnowsIds(a)
  <2>1. \A k \in DOMAIN a.out : P!IsCall(a.out[k]) => a.out[k].id \in a.calls
    BY <1>1, <1>2, <1>5, <1>7 DEF KnowsIds
  <2>2. \A c \in a.calls : \E k \in DOMAIN a.out : P!IsCall(a.out[k]) /\ a.out[k].id = c
    BY <1>2, <1>5, <1>7 DEF KnowsIds
  <2>3. \A k \in DOMAIN a.out : P!IsOutput(a.out[k]) /\ a.out[k].id # 0 => a.out[k].id \in a.outputs
    BY <1>2, <1>5, <1>7 DEF KnowsIds
  <2>4. a.outputs \subseteq a.calls
    BY <1>2, <1>7 DEF KnowsIds
  <2> QED
    BY <2>1, <2>2, <2>3, <2>4 DEF KnowsIds
<1>11. KnowsPending(a)
  BY <1>2, <1>6, <1>7 DEF KnowsPending
<1>12. ResultsCome(a, prune)
  <2> SUFFICES ASSUME NEW k \in DOMAIN a.out, P!IsCall(a.out[k])
               PROVE  HasItsResult(a.out, k, prune) \/ Awaits(a, k, prune)
    BY DEF ResultsCome
  <2>1. k \in DOMAIN r.out /\ a.out[k] = r.out[k]
    BY <1>1, <1>5
  <2>2. \A m \in DOMAIN e : Quiet(e[m], prune)
    BY <1>1, <1>4
  <2>3. CASE HasItsResult(r.out, k, prune)
    BY <1>2, <1>4, <2>1, <2>3, ResultStays
  <2>4. CASE Awaits(r, k, prune)
    <3>1. CASE r.out[k].id \in P!Range(a.pending)
      BY <1>2, <1>4, <2>1, <2>2, <2>4, <3>1, StillAwaits
    <3>2. CASE r.out[k].id \notin P!Range(a.pending)
      <4>1. r.out[k].id = y.id
        BY <1>6, <2>4, <3>2 DEF Awaits
      <4>2. \A m \in k .. Len(r.out) : Quiet(r.out[m], prune)
        BY <2>4 DEF Awaits
      <4>3. \A m \in k .. Len(a.out) : Quiet(a.out[m], prune)
        BY <1>2, <1>4, <2>1, <2>2, <4>2, StaysQuiet
      <4>4. k < n + 1
        BY <1>2, <2>1, ItemSequence
      <4>5. P!IsOutput(a.out[n + 1]) /\ a.out[n + 1].id = a.out[k].id
        BY <1>1, <1>5, <2>1, <4>1
      <4>6. \A m \in k .. n + 1 : Quiet(a.out[m], prune)
        BY <1>5, <4>3
      <4> QED
        BY <1>5, <4>4, <4>5, <4>6 DEF HasItsResult
    <3> QED
      BY <3>1, <3>2
  <2> QED
    BY <1>7, <2>1, <2>3, <2>4 DEF ResultsCome
<1> QED
  BY <1>8, <1>9, <1>10, <1>11, <1>12 DEF PairedSoFar

\* An item that is neither a call nor a result; it may be quiet, or nothing waits.
LEMMA OtherKeeps ==
  ASSUME NEW r \in Repairs, NEW a \in Repairs, NEW x \in Others, NEW prune, PairedSoFar(r, prune),
         a.out = Append(r.out, x), a.calls = r.calls, a.outputs = r.outputs,
         a.pending = r.pending, a.renamed = r.renamed,
         r.pending = <<>> \/ Quiet(x, prune)
  PROVE  PairedSoFar(a, prune)
<1> DEFINE n == Len(r.out)
<1>1. x \in Items /\ ~P!IsOutput(x) /\ ~P!IsCall(x) /\ x.id = 0
  BY DEF Others, OtherKinds, Items, P!IsOutput, P!IsCall
<1>2. r.out \in Seq(Items)
  BY DEF Repairs
<1>3. PICK e \in Seq(Items) : OneFurther(a.out, r.out, x, e)
  BY <1>1, <1>2, OneMore
<1>4. /\ a.out \in Seq(Items) /\ Extended(a.out, r.out, e)
      /\ DOMAIN e = {1} /\ e[1] = x /\ OnceEach(e)
  BY <1>3 DEF OneFurther
<1>5. /\ n \in Nat /\ Len(a.out) = n + 1 /\ n + 1 \in DOMAIN a.out /\ a.out[n + 1] = x
      /\ \A k \in DOMAIN r.out : k \in DOMAIN a.out /\ a.out[k] = r.out[k]
      /\ \A k \in DOMAIN a.out : (k \in DOMAIN r.out /\ a.out[k] = r.out[k]) \/ (k = n + 1 /\ a.out[k] = x)
  BY <1>3 DEF OneFurther
<1>6. KnowsIds(r) /\ KnowsPending(r) /\ OnceEach(r.out) /\ Called(r.out) /\ ResultsCome(r, prune)
  BY DEF PairedSoFar
<1>7. OnceEach(a.out)
  <2>1. \A i \in DOMAIN r.out : \A j \in DOMAIN e :
          r.out[i].id = e[j].id /\ r.out[i].id # 0 => r.out[i].kind # e[j].kind
    BY <1>1, <1>4
  <2> QED
    BY <1>2, <1>4, <1>6, <2>1, OnceMore
<1>8. Called(a.out)
  <2>1. \A j \in DOMAIN e : P!IsOutput(e[j]) /\ e[j].id # 0 =>
          \E i \in DOMAIN r.out : P!IsCall(r.out[i]) /\ r.out[i].id = e[j].id
    BY <1>1, <1>4
  <2> QED
    BY <1>2, <1>4, <1>6, <2>1, CalledMore
<1>9. KnowsIds(a)
  <2>1. \A k \in DOMAIN a.out : P!IsCall(a.out[k]) => a.out[k].id \in a.calls
    BY <1>1, <1>5, <1>6 DEF KnowsIds
  <2>2. \A c \in a.calls : \E k \in DOMAIN a.out : P!IsCall(a.out[k]) /\ a.out[k].id = c
    BY <1>5, <1>6 DEF KnowsIds
  <2>3. \A k \in DOMAIN a.out : P!IsOutput(a.out[k]) /\ a.out[k].id # 0 => a.out[k].id \in a.outputs
    BY <1>1, <1>5, <1>6 DEF KnowsIds
  <2> QED
    BY <1>6, <2>1, <2>2, <2>3 DEF KnowsIds
<1>10. KnowsPending(a)
  BY <1>6 DEF KnowsPending
<1>11. ResultsCome(a, prune)
  <2> SUFFICES ASSUME NEW k \in DOMAIN a.out, P!IsCall(a.out[k])
               PROVE  HasItsResult(a.out, k, prune) \/ Awaits(a, k, prune)
    BY DEF ResultsCome
  <2>1. k \in DOMAIN r.out /\ a.out[k] = r.out[k]
    BY <1>1, <1>5
  <2>2. CASE HasItsResult(r.out, k, prune)
    BY <1>2, <1>4, <2>1, <2>2, ResultStays
  <2>3. CASE Awaits(r, k, prune)
    <3>1. r.out[k].id \in P!Range(a.pending) /\ P!Range(<<>>) = {}
      BY <2>3 DEF Awaits, P!Range
    <3>2. Quiet(x, prune)
      BY <3>1
    <3>3. \A m \in DOMAIN e : Quiet(e[m], prune)
      BY <1>4, <3>2
    <3> QED
      BY <1>2, <1>4, <2>1, <2>3, <3>1, <3>3, StillAwaits
  <2> QED
    BY <1>6, <2>1, <2>2, <2>3 DEF ResultsCome
<1> QED
  BY <1>7, <1>8, <1>9, <1>10, <1>11 DEF PairedSoFar

\* What is supplied is the result of every call that waits, once.
LEMMA SupplyKeeps ==
  ASSUME NEW r \in Repairs, NEW prune, PairedSoFar(r, prune)
  PROVE  LET a == P!SupplyMissing(r) IN
         a \in Repairs /\ PairedSoFar(a, prune) /\ a.pending = <<>> /\ a.calls = r.calls
<1>1. PICK a : a = P!SupplyMissing(r)
  OBVIOUS
<1>2. PICK m : m = P!Without(r.pending, r.outputs)
  OBVIOUS
<1>3. PICK e : e = Synthesized(m)
  OBVIOUS
<1>4. /\ a \in Repairs /\ a.out = r.out \o e /\ a.calls = r.calls
      /\ a.outputs = r.outputs \cup P!Range(m) /\ a.pending = <<>> /\ a.renamed = r.renamed
      /\ m \in Seq(Nat) /\ e \in Seq(Items)
  BY <1>1, <1>2, <1>3, SupplyShape
<1>5. KnowsIds(r) /\ KnowsPending(r) /\ OnceEach(r.out) /\ Called(r.out) /\ ResultsCome(r, prune)
  BY DEF PairedSoFar
<1>6. r.out \in Seq(Items) /\ a.out \in Seq(Items) /\ Extended(a.out, r.out, e)
  BY <1>4, ItemSequence DEF Repairs
<1>7. /\ DOMAIN e = DOMAIN m
      /\ \A j \in DOMAIN e : /\ e[j].id = m[j] /\ e[j].kind = "output" /\ P!IsOutput(e[j])
                             /\ ~P!IsCall(e[j]) /\ Quiet(e[j], prune) /\ m[j] \in P!Range(m)
  BY <1>3 DEF Synthesized, P!Synthetic, P!Item, P!IsOutput, P!IsCall, Quiet, P!Range
<1>8. P!Range(m) = P!Range(r.pending) /\ NoRepeats(m)
  <2>1. /\ P!Range(m) = P!Range(r.pending) \ r.outputs
        /\ NoRepeats(r.pending) => NoRepeats(m)
    BY <1>2, WithoutIs DEF Repairs
  <2> QED
    BY <1>5, <2>1 DEF KnowsPending
<1>9. P!Range(m) \subseteq r.calls \ r.outputs
  BY <1>5, <1>8 DEF KnowsPending
<1>10. OnceEach(a.out)
  <2>1. OnceEach(e)
    BY <1>7, <1>8 DEF OnceEach, NoRepeats
  <2>2. \A i \in DOMAIN r.out : \A j \in DOMAIN e :
          r.out[i].id = e[j].id /\ r.out[i].id # 0 => r.out[i].kind # e[j].kind
    <3> SUFFICES ASSUME NEW i \in DOMAIN r.out, NEW j \in DOMAIN e,
                        r.out[i].id = e[j].id, r.out[i].id # 0, r.out[i].kind = e[j].kind
                 PROVE  FALSE
      OBVIOUS
    <3>1. P!IsOutput(r.out[i]) /\ r.out[i].id \in P!Range(m)
      BY <1>7 DEF P!IsOutput
    <3> QED
      BY <1>5, <1>9, <3>1 DEF KnowsIds
  <2> QED
    BY <1>4, <1>5, <1>6, <2>1, <2>2, OnceMore
<1>11. Called(a.out)
  <2>1. \A j \in DOMAIN e : P!IsOutput(e[j]) /\ e[j].id # 0 =>
          \E i \in DOMAIN r.out : P!IsCall(r.out[i]) /\ r.out[i].id = e[j].id
    <3> TAKE j \in DOMAIN e
    <3>1. e[j].id \in r.calls
      BY <1>7, <1>9
    <3> QED
      BY <1>5, <3>1 DEF KnowsIds
  <2> QED
    BY <1>4, <1>5, <1>6, <2>1, CalledMore
<1>12. \A k \in DOMAIN a.out : \/ k \in DOMAIN r.out /\ a.out[k] = r.out[k]
                              \/ \E j \in DOMAIN e : k = Len(r.out) + j /\ a.out[k] = e[j]
  BY <1>4, <1>6, WhereItIs
<1>13. /\ \A k \in DOMAIN r.out : k \in DOMAIN a.out /\ a.out[k] = r.out[k]
       /\ \A j \in DOMAIN e : Len(r.out) + j \in DOMAIN a.out /\ a.out[Len(r.out) + j] = e[j]
       /\ Len(r.out) \in Nat /\ Len(e) \in Nat /\ Len(a.out) = Len(r.out) + Len(e)
       /\ DOMAIN r.out = 1 .. Len(r.out) /\ DOMAIN e = 1 .. Len(e)
  BY <1>4, <1>6, OldIndexes
<1>14. KnowsIds(a)
  <2>1. \A k \in DOMAIN a.out : P!IsCall(a.out[k]) => a.out[k].id \in a.calls
    <3> SUFFICES ASSUME NEW k \in DOMAIN a.out, P!IsCall(a.out[k]) PROVE a.out[k].id \in a.calls
      OBVIOUS
    <3>1. k \in DOMAIN r.out /\ a.out[k] = r.out[k]
      BY <1>7, <1>12
    <3> QED
      BY <1>4, <1>5, <3>1 DEF KnowsIds
  <2>2. \A c \in a.calls : \E k \in DOMAIN a.out : P!IsCall(a.out[k]) /\ a.out[k].id = c
    BY <1>4, <1>5, <1>13 DEF KnowsIds
  <2>3. \A k \in DOMAIN a.out : P!IsOutput(a.out[k]) /\ a.out[k].id # 0 => a.out[k].id \in a.outputs
    BY <1>4, <1>5, <1>7, <1>12 DEF KnowsIds
  <2>4. a.outputs \subseteq a.calls
    BY <1>4, <1>5, <1>9 DEF KnowsIds
  <2> QED
    BY <2>1, <2>2, <2>3, <2>4 DEF KnowsIds
<1>15. KnowsPending(a)
  <2>1. P!Range(<<>>) = {} /\ NoRepeats(<<>>)
    BY DEF P!Range, NoRepeats
  <2> QED
    BY <1>4, <1>5, <2>1 DEF KnowsPending
<1>16. ResultsCome(a, prune)
  <2> SUFFICES ASSUME NEW k \in DOMAIN a.out, P!IsCall(a.out[k])
               PROVE  HasItsResult(a.out, k, prune)
    BY DEF ResultsCome
  <2>1. k \in DOMAIN r.out /\ a.out[k] = r.out[k]
    BY <1>7, <1>12
  <2>2. CASE HasItsResult(r.out, k, prune)
    BY <1>4, <1>6, <2>1, <2>2, ResultStays
  <2>3. CASE Awaits(r, k, prune)
    <3>1. r.out[k].id \in P!Range(m) /\ \A i \in k .. Len(r.out) : Quiet(r.out[i], prune)
      BY <1>8, <2>3 DEF Awaits
    <3>2. PICK j \in DOMAIN e : m[j] = r.out[k].id
      BY <1>7, <3>1 DEF P!Range
    <3>3. PICK o : o = Len(r.out) + j
      OBVIOUS
    <3>4. \A i \in DOMAIN e : Quiet(e[i], prune)
      BY <1>7
    <3>5. \A i \in k .. Len(a.out) : Quiet(a.out[i], prune)
      BY <1>4, <1>6, <2>1, <3>1, <3>4, StaysQuiet
    <3>6. o \in DOMAIN a.out /\ a.out[o] = e[j]
      BY <1>13, <3>3
    <3>7. P!IsOutput(a.out[o]) /\ a.out[o].id = a.out[k].id
      BY <1>7, <2>1, <3>2, <3>6
    <3>8. k < o /\ k .. o \subseteq k .. Len(a.out)
      BY <1>13, <2>1, <3>3
    <3>9. \A i \in k .. o : Quiet(a.out[i], prune)
      BY <3>5, <3>8
    <3> QED
      BY <3>6, <3>7, <3>8, <3>9 DEF HasItsResult
  <2> QED
    BY <1>5, <2>1, <2>2, <2>3 DEF ResultsCome
<1>17. PairedSoFar(a, prune)
  BY <1>10, <1>11, <1>14, <1>15, <1>16 DEF PairedSoFar
<1> QED
  BY <1>1, <1>4, <1>17

\* One item more.
LEMMA AddOther ==
  ASSUME NEW r \in Repairs, NEW x \in Others
  PROVE  LET b == P!SupplyMissing(r)
             a == [b EXCEPT !.out = Append(@, x)]
         IN /\ a \in Repairs /\ b \in Repairs /\ a.out = Append(b.out, x) /\ a.calls = b.calls
            /\ a.outputs = b.outputs /\ a.pending = b.pending /\ a.renamed = b.renamed
<1>1. PICK b : b = P!SupplyMissing(r)
  OBVIOUS
<1>2. b \in Repairs
  BY <1>1, SupplyShape
<1>3. x \in Items
  BY DEF Items
<1>4. Append(b.out, x) \in Seq(Items)
  <2>1. b.out \in Seq(Items)
    BY <1>2 DEF Repairs
  <2> QED
    BY <1>3, <2>1, ItemSequence
<1>5. PICK a : a = [b EXCEPT !.out = Append(@, x)]
  OBVIOUS
<1>6. /\ a \in Repairs /\ a.out = Append(b.out, x) /\ a.calls = b.calls
      /\ a.outputs = b.outputs /\ a.pending = b.pending /\ a.renamed = b.renamed
  BY <1>2, <1>4, <1>5 DEF Repairs
<1> QED
  BY <1>1, <1>2, <1>5, <1>6

LEMMA AddItemShape ==
  ASSUME NEW r \in Repairs, NEW x \in Items, NEW prune
  PROVE  P!AddItem(r, x, prune) \in Repairs
<1>1. CASE x \in Calls
  <2>1. P!AddItem(r, x, prune) = P!AddCall(r, x)
    BY <1>1 DEF Calls, P!AddItem, P!IsCall
  <2> QED
    BY <1>1, <2>1, AddCallShape
<1>2. CASE x \in Results
  <2>1. P!AddItem(r, x, prune) = P!AddOutput(r, x, prune)
    BY <1>2 DEF Results, P!AddItem, P!IsCall, P!IsOutput
  <2> QED
    BY <1>2, <2>1, AddOutputShape
<1>3. CASE x \in Others
  <2>1. P!AddItem(r, x, prune) = [P!SupplyMissing(r) EXCEPT !.out = Append(@, x)]
    BY <1>3 DEF Others, OtherKinds, P!AddItem, P!IsCall, P!IsOutput
  <2> QED
    BY <1>3, <2>1, AddOther
<1> QED
  BY <1>1, <1>2, <1>3 DEF Items

LEMMA AddItemKeeps ==
  ASSUME NEW r \in Repairs, NEW x \in Items, NEW prune, PairedSoFar(r, prune),
         P!IsOutput(x) => prune \/ x.id = 0 \/ x.id \in r.calls
  PROVE  LET a == P!AddItem(r, x, prune) IN
         /\ a \in Repairs /\ PairedSoFar(a, prune) /\ r.calls \subseteq a.calls
         /\ P!IsCall(x) => x.id \in a.calls
<1>1. KnowsPending(r)
  BY DEF PairedSoFar
<1>2. PICK a : a = P!AddItem(r, x, prune)
  OBVIOUS
<1>3. a \in Repairs
  BY <1>2, AddItemShape
<1>4. CASE x \in Calls
  <2>1. a = P!AddCall(r, x)
    BY <1>2, <1>4 DEF Calls, P!AddItem, P!IsCall
  <2>2. CASE a = r /\ x.id \in r.calls
    BY <1>2, <1>3, <2>2
  <2>3. CASE \E y \in Calls : AdmitsAs(a, r, x, y)
    <3>1. PICK y \in Calls : AdmitsAs(a, r, x, y)
      BY <2>3
    <3>2. y.id \notin r.calls /\ (y = x \/ x.id \in r.calls) /\ Admits(a, r, y)
      BY <3>1 DEF AdmitsAs
    <3>3. a.calls = r.calls \cup {y.id}
      BY <3>2 DEF Admits
    <3>4. \A i \in DOMAIN a.renamed : a.renamed[i] \in a.calls
      BY <1>1, <3>1, <3>3 DEF KnowsPending, AdmitsAs
    <3>5. PairedSoFar(a, prune)
      BY <1>3, <3>2, <3>4, AdmitKeeps
    <3> QED
      BY <1>2, <1>3, <3>2, <3>3, <3>5
  <2> QED
    BY <1>4, <2>1, <2>2, <2>3, AddCallShape
<1>5. CASE x \in Results
  <2>1. a = P!AddOutput(r, x, prune) /\ ~P!IsCall(x) /\ P!IsOutput(x)
    BY <1>2, <1>5 DEF Results, P!AddItem, P!IsCall, P!IsOutput
  <2>2. CASE a = r
    BY <1>2, <1>3, <2>1, <2>2
  <2>3. CASE \E y \in Results :
               /\ y.id = 0 \/ y.id \notin r.outputs
               /\ y = x \/ (x.id \in DOMAIN r.renamed /\ y.id = r.renamed[x.id])
               /\ Places(a, r, y, prune)
    <3>1. PICK y \in Results :
               /\ y.id = 0 \/ y.id \notin r.outputs
               /\ y = x \/ (x.id \in DOMAIN r.renamed /\ y.id = r.renamed[x.id])
               /\ Places(a, r, y, prune)
      BY <2>3
    <3>2. prune \/ y.id = 0 \/ y.id \in r.calls
      BY <1>1, <2>1, <3>1 DEF KnowsPending
    <3>3. a.calls = r.calls
      BY <3>1 DEF Places
    <3>4. PairedSoFar(a, prune)
      <4>1. CASE prune /\ y.id # 0 /\ y.id \notin r.calls
        <5>1. P!Note \in Others
          BY NewItems
        <5>2. Quiet(P!Note, prune)
          BY <4>1 DEF Quiet
        <5>3. /\ a.out = Append(r.out, P!Note) /\ a.outputs = r.outputs /\ a.pending = r.pending
              /\ a.renamed = r.renamed
          BY <3>1, <4>1 DEF Places
        <5> QED
          BY <1>3, <3>3, <5>1, <5>2, <5>3, OtherKeeps
      <4>2. CASE ~(prune /\ y.id # 0 /\ y.id \notin r.calls)
        BY <1>3, <3>1, <3>2, <4>2, PlaceKeeps
      <4> QED
        BY <4>1, <4>2
    <3> QED
      BY <1>2, <1>3, <2>1, <3>3, <3>4
  <2> QED
    BY <1>5, <2>1, <2>2, <2>3, AddOutputShape
<1>6. CASE x \in Others
  <2>1. PICK b : b = P!SupplyMissing(r)
    OBVIOUS
  <2>2. a = [b EXCEPT !.out = Append(@, x)] /\ ~P!IsCall(x)
    BY <1>2, <1>6, <2>1 DEF Others, OtherKinds, P!AddItem, P!IsCall, P!IsOutput
  <2>3. /\ b \in Repairs /\ a.out = Append(b.out, x) /\ a.calls = b.calls
        /\ a.outputs = b.outputs /\ a.pending = b.pending /\ a.renamed = b.renamed
    BY <1>6, <2>1, <2>2, AddOther
  <2>4. PairedSoFar(b, prune) /\ b.pending = <<>> /\ b.calls = r.calls
    BY <2>1, SupplyKeeps
  <2>5. PairedSoFar(a, prune)
    BY <1>3, <1>6, <2>3, <2>4, OtherKeeps
  <2> QED
    BY <1>2, <1>3, <2>2, <2>3, <2>4, <2>5
<1> QED
  BY <1>4, <1>5, <1>6 DEF Items

LEMMA StartShape == P!Start \in Repairs /\ \A prune : PairedSoFar(P!Start, prune)
<1>1. PICK r : r = P!Start
  OBVIOUS
<1>2. PICK f : f = [i \in {} |-> 0]
  OBVIOUS
<1>3. f \in [{} -> Nat \ {0}] /\ DOMAIN f = {}
  BY <1>2
<1>4. f \in Renamings
  BY <1>3 DEF Renamings
<1>5. {} \in Bounds
  BY DEF Bounds
<1>6. /\ r.out = <<>> /\ r.calls = {} /\ r.outputs = {} /\ r.pending = <<>> /\ r.renamed = f
      /\ r = [out |-> <<>>, calls |-> {}, outputs |-> {}, pending |-> <<>>, renamed |-> f]
  BY <1>1, <1>2 DEF P!Start
<1>7. <<>> \in Seq(Items) /\ <<>> \in Seq(Nat)
  OBVIOUS
<1>8. r \in Repairs
  BY <1>4, <1>5, <1>6, <1>7 DEF Repairs
<1>9. DOMAIN r.out = {} /\ DOMAIN r.pending = {} /\ DOMAIN r.renamed = {}
  BY <1>3, <1>6
<1>10. ASSUME NEW prune PROVE PairedSoFar(r, prune)
  <2>1. KnowsIds(r)
    BY <1>6, <1>9 DEF KnowsIds
  <2>2. KnowsPending(r)
    BY <1>6, <1>9 DEF KnowsPending, P!Range, NoRepeats
  <2> QED
    BY <1>9, <2>1, <2>2 DEF PairedSoFar, OnceEach, Called, ResultsCome
<1> QED
  BY <1>1, <1>8, <1>10

\* The loop itself.
LEMMA PairedLoops ==
  ASSUME NEW items \in Seq(Items), NEW prune
  PROVE  \E f \in [0 .. Len(items) -> Repairs] :
           /\ f[0] = P!Start
           /\ \A m \in 1 .. Len(items) : f[m] = P!AddItem(f[m - 1], items[m], prune)
           /\ P!Normalized(items, prune) = P!SupplyMissing(f[Len(items)]).out
<1>1. PICK n \in Nat : n = Len(items) /\ \A m \in 1 .. n : items[m] \in Items
  BY ItemSequence
<1>2. PICK S : S = Repairs
  OBVIOUS
<1>3. PICK step : step = [p \in S \X (1 .. n) |-> P!AddItem(p[1], items[p[2]], prune)]
  OBVIOUS
<1>4. P!Start \in S /\ step \in [S \X (1 .. n) -> S]
  <2>1. ASSUME NEW r \in S, NEW m \in 1 .. n PROVE P!AddItem(r, items[m], prune) \in S
    BY <1>1, <1>2, AddItemShape
  <2> QED
    BY <1>2, <1>3, <2>1, StartShape
<1>5. PICK f : Loop(f, n, P!Start, step, S)
  BY <1>4, LoopExists DEF Steps
<1>6. \A g : \A m \in 1 .. n :
        g[m - 1] \in S => P!AddItem(g[m - 1], items[m], prune) = step[<<g[m - 1], m>>]
  BY <1>3
<1>7. \A m \in 1 .. n : f[m] = P!AddItem(f[m - 1], items[m], prune)
  <2> TAKE m \in 1 .. n
  <2>1. f[m - 1] \in S /\ f[m] = step[<<f[m - 1], m>>]
    BY <1>5 DEF Loop
  <2> QED
    BY <1>6, <2>1
<1> DEFINE All(g) == g = [m \in 0 .. n |-> IF m = 0 THEN P!Start
                                           ELSE P!AddItem(g[m - 1], items[m], prune)]
<1>8. All(f)
  <2>1. PICK h : h = [m \in 0 .. n |-> IF m = 0 THEN P!Start ELSE P!AddItem(f[m - 1], items[m], prune)]
    OBVIOUS
  <2>2. \A m \in 0 .. n : h[m] = f[m]
    BY <1>5, <1>7, <2>1 DEF Loop
  <2> QED
    BY <1>5, <2>1, <2>2 DEF Loop
<1>9. PICK g : g = CHOOSE h : All(h)
  OBVIOUS
<1>10. P!Paired(items, prune) = g
  BY <1>1, <1>9 DEF P!Paired
<1>11. All(g)
  BY <1>8, <1>9
<1>12. Follows(g, n, P!Start, step, S)
  <2>1. PICK h : h = [m \in 0 .. n |-> IF m = 0 THEN P!Start ELSE P!AddItem(g[m - 1], items[m], prune)]
    OBVIOUS
  <2>2. g = h
    BY <1>11, <2>1
  <2>3. h = [m \in 0 .. n |-> h[m]] /\ h[0] = P!Start
    BY <2>1
  <2>4. \A m \in 1 .. n : h[m] = P!AddItem(g[m - 1], items[m], prune)
    BY <2>1
  <2> HIDE DEF All
  <2> QED
    BY <1>6, <2>2, <2>3, <2>4 DEF Follows
<1>13. g = f
  BY <1>5, <1>12, OnlyOne
<1>14. P!Normalized(items, prune) = P!SupplyMissing(f[Len(items)]).out
  BY <1>10, <1>13 DEF P!Normalized
<1> QED
  BY <1>1, <1>2, <1>5, <1>7, <1>14 DEF Loop

LEMMA NormalizedShape ==
  ASSUME NEW items \in Seq(Items), NEW prune
  PROVE  P!Normalized(items, prune) \in Seq(Items)
<1>1. PICK f \in [0 .. Len(items) -> Repairs] :
        P!Normalized(items, prune) = P!SupplyMissing(f[Len(items)]).out
  BY PairedLoops
<1>2. Len(items) \in 0 .. Len(items)
  BY ItemSequence
<1>3. f[Len(items)] \in Repairs
  BY <1>2
<1>4. P!SupplyMissing(f[Len(items)]) \in Repairs
  BY <1>3, SupplyShape
<1> QED
  BY <1>1, <1>4 DEF Repairs

LEMMA NormalizedIsPaired ==
  ASSUME NEW items \in Seq(Items), NEW prune, prune \/ P!Orderly(items)
  PROVE  LET out == P!Normalized(items, prune) IN
         /\ OnceEach(out) /\ Called(out)
         /\ \A k \in DOMAIN out : P!IsCall(out[k]) => HasItsResult(out, k, prune)
<1>1. PICK n : n = Len(items)
  OBVIOUS
<1>2. n \in Nat /\ DOMAIN items = 1 .. n /\ \A m \in 1 .. n : items[m] \in Items
  BY <1>1, ItemSequence
<1>3. PICK f \in [0 .. n -> Repairs] :
        /\ f[0] = P!Start
        /\ \A m \in 1 .. n : f[m] = P!AddItem(f[m - 1], items[m], prune)
        /\ P!Normalized(items, prune) = P!SupplyMissing(f[n]).out
  BY <1>1, PairedLoops
<1> DEFINE Holds(m) == /\ PairedSoFar(f[m], prune)
                       /\ \A k \in 1 .. m : P!IsCall(items[k]) => items[k].id \in f[m].calls
           Good == {m \in 0 .. n : Holds(m)}
<1>4. 0 \in Good
  BY <1>2, <1>3, StartShape
<1>5. ASSUME NEW m \in 1 .. n, m - 1 \in Good PROVE m \in Good
  <2>1. m - 1 \in 0 .. n /\ m \in 0 .. n /\ Holds(m - 1)
    BY <1>2, <1>5
  <2>2. PICK r \in Repairs : r = f[m - 1]
    BY <2>1
  <2>3. PICK x \in Items : x = items[m]
    BY <1>2
  <2>4. P!IsOutput(x) => prune \/ x.id = 0 \/ x.id \in r.calls
    <3> SUFFICES ASSUME P!IsOutput(x), ~prune, x.id # 0 PROVE x.id \in r.calls
      OBVIOUS
    <3>1. PICK k \in 1 .. (m - 1) : P!IsCall(items[k]) /\ items[k].id = x.id
      BY <1>2, <2>3 DEF P!Orderly
    <3> QED
      BY <2>1, <2>2, <3>1
  <2>5. PICK a : a = P!AddItem(r, x, prune)
    OBVIOUS
  <2>6. /\ PairedSoFar(a, prune) /\ r.calls \subseteq a.calls
        /\ P!IsCall(x) => x.id \in a.calls
    BY <2>1, <2>2, <2>4, <2>5, AddItemKeeps
  <2>7. f[m] = a
    BY <1>3, <2>2, <2>3, <2>5
  <2>8. \A k \in 1 .. m : k \in 1 .. (m - 1) \/ k = m
    OBVIOUS
  <2> QED
    BY <2>1, <2>2, <2>3, <2>6, <2>7, <2>8
<1>6. n \in Good
  <2>1. 0 .. n \subseteq Good
    <3> HIDE DEF Good
    <3> QED
      BY <1>2, <1>4, <1>5, UpTo
  <2> QED
    BY <1>2, <2>1
<1>7. PICK a : a = P!SupplyMissing(f[n])
  OBVIOUS
<1>8. PairedSoFar(a, prune) /\ a.pending = <<>>
  <2>1. f[n] \in Repairs
    BY <1>2
  <2> QED
    BY <1>6, <1>7, <2>1, SupplyKeeps
<1>9. \A k \in DOMAIN a.out : ~Awaits(a, k, prune)
  <2>1. P!Range(<<>>) = {}
    BY DEF P!Range
  <2> QED
    BY <1>8, <2>1 DEF Awaits
<1>10. \A k \in DOMAIN a.out : P!IsCall(a.out[k]) => HasItsResult(a.out, k, prune)
  BY <1>8, <1>9 DEF PairedSoFar, ResultsCome
<1> QED
  BY <1>3, <1>7, <1>8, <1>10 DEF PairedSoFar

-----------------------------------------------------------------------------
(* What precedes the repair.                                                *)

LEMMA Flattens ==
  ASSUME NEW n \in Nat \ {0}, NEW seqs, Len(seqs) = n, \A i \in 1 .. n : seqs[i] \in Seq(Items)
  PROVE  \E f \in [0 .. n - 1 -> Seq(Items)] :
           /\ f[0] = seqs[1]
           /\ \A m \in 1 .. n - 1 : f[m] = f[m - 1] \o seqs[m + 1]
           /\ P!FlattenSeq(seqs) = f[n - 1]
<1>1. PICK S : S = Seq(Items)
  OBVIOUS
<1>2. PICK step : step = [p \in S \X (1 .. n - 1) |-> p[1] \o seqs[p[2] + 1]]
  OBVIOUS
<1>3. seqs[1] \in S /\ step \in [S \X (1 .. n - 1) -> S]
  <2>1. ASSUME NEW q \in S, NEW m \in 1 .. n - 1 PROVE q \o seqs[m + 1] \in S
    <3>1. seqs[m + 1] \in Seq(Items)
      OBVIOUS
    <3> QED
      BY <1>1, <3>1, ItemSequence
  <2> QED
    BY <1>1, <1>2, <2>1
<1>4. PICK f : Loop(f, n - 1, seqs[1], step, S)
  <2>1. n - 1 \in Nat
    OBVIOUS
  <2> QED
    BY <1>3, <2>1, LoopExists DEF Steps
<1>5. \A m \in 1 .. n - 1 : f[m] = f[m - 1] \o seqs[m + 1]
  <2> TAKE m \in 1 .. n - 1
  <2>1. f[m - 1] \in S /\ f[m] = step[<<f[m - 1], m>>]
    BY <1>4 DEF Loop
  <2>2. \A q \in S : step[<<q, m>>] = q \o seqs[m + 1]
    BY <1>2
  <2> QED
    BY <2>1, <2>2
<1> DEFINE All(g) == g = [i \in 1 .. n |-> IF i = 1 THEN seqs[i] ELSE g[i - 1] \o seqs[i]]
<1>6. \E h : All(h)
  <2>1. PICK h : h = [i \in 1 .. n |-> f[i - 1]]
    OBVIOUS
  <2>2. PICK j : j = [i \in 1 .. n |-> IF i = 1 THEN seqs[i] ELSE h[i - 1] \o seqs[i]]
    OBVIOUS
  <2>3. \A i \in 1 .. n : h[i] = j[i]
    <3> TAKE i \in 1 .. n
    <3>1. CASE i = 1
      BY <1>4, <2>1, <2>2, <3>1 DEF Loop
    <3>2. CASE i # 1
      <4>1. i - 1 \in 1 .. n - 1 /\ i - 1 \in 1 .. n /\ i - 1 + 1 = i
        BY <3>2
      <4>2. f[i - 1] = f[i - 1 - 1] \o seqs[i]
        BY <1>5, <4>1
      <4> QED
        BY <2>1, <2>2, <3>2, <4>1, <4>2
    <3> QED
      BY <3>1, <3>2
  <2>4. h = j
    BY <2>1, <2>2, <2>3
  <2> QED
    BY <2>2, <2>4
<1>7. PICK g : g = CHOOSE h : All(h)
  OBVIOUS
<1>8. P!FlattenSeq(seqs) = g[n]
  BY <1>7 DEF P!FlattenSeq
<1>9. All(g)
  BY <1>6, <1>7
<1>10. PICK k : k = [m \in 0 .. n - 1 |-> g[m + 1]]
  OBVIOUS
<1>11. Follows(k, n - 1, seqs[1], step, S)
  <2>1. k = [m \in 0 .. n - 1 |-> k[m]]
    BY <1>10
  <2>2. g[1] = seqs[1] /\ \A m \in 1 .. n - 1 : g[m + 1] = g[m] \o seqs[m + 1]
    <3>1. PICK j : j = [i \in 1 .. n |-> IF i = 1 THEN seqs[i] ELSE g[i - 1] \o seqs[i]]
      OBVIOUS
    <3>2. g = j
      BY <1>9, <3>1
    <3>3. j[1] = seqs[1]
      BY <3>1
    <3>4. ASSUME NEW m \in 1 .. n - 1 PROVE j[m + 1] = g[m] \o seqs[m + 1]
      <4>1. PICK i \in 1 .. n : i = m + 1 /\ i # 1 /\ i - 1 = m
        OBVIOUS
      <4>2. \A l \in 1 .. n : l # 1 => j[l] = g[l - 1] \o seqs[l]
        BY <3>1
      <4>3. j[i] = g[i - 1] \o seqs[i]
        BY <4>1, <4>2, Zenon
      <4> QED
        BY <4>1, <4>3, Zenon
    <3> QED
      BY <3>2, <3>3, <3>4
  <2>3. k[0] = seqs[1]
    BY <1>10, <2>2
  <2>4. ASSUME NEW m \in 1 .. n - 1, k[m - 1] \in S PROVE k[m] = step[<<k[m - 1], m>>]
    <3>1. m \in 0 .. n - 1 /\ m - 1 \in 0 .. n - 1 /\ m - 1 + 1 = m
      OBVIOUS
    <3>2. k[m] = g[m + 1] /\ k[m - 1] = g[m]
      BY <1>10, <3>1
    <3> QED
      BY <1>2, <2>2, <2>4, <3>2
  <2> QED
    BY <2>1, <2>3, <2>4 DEF Follows
<1>12. k = f
  BY <1>4, <1>11, OnlyOne
<1>13. P!FlattenSeq(seqs) = f[n - 1]
  <2>1. k[n - 1] = g[n]
    BY <1>10
  <2> QED
    BY <1>8, <1>12, <2>1
<1> QED
  BY <1>1, <1>4, <1>5, <1>13 DEF Loop

\* What third parties are given for an item; it is one item, unless a call leaked into it.
Known(x) ==
  IF x.kind = "foreign" THEN <<P!Note>>
  ELSE IF x.kind = "leaky"
       THEN <<P!Item("message", 0, 0, TRUE), P!Item("call", 1, "leaked", FALSE)>>
  ELSE <<x>>
Plain(x) == IF x.kind = "foreign" THEN P!Note ELSE x

LEMMA KnownShape ==
  ASSUME NEW x \in Items
  PROVE  /\ Known(x) \in Seq(Items) /\ Plain(x) \in Items
         /\ x.kind # "leaky" => Len(Known(x)) = 1 /\ Known(x)[1] = Plain(x)
<1>1. PICK S : S = Items
  OBVIOUS
<1>2. P!Note \in S /\ x \in S
  BY <1>1, NewItems DEF Items
<1>3. P!Item("message", 0, 0, TRUE) \in S /\ P!Item("call", 1, "leaked", FALSE) \in S
  BY <1>1 DEF Items, Others, OtherKinds, Calls, Signatures, P!Item
<1>4. \A y \in S, z \in S : <<y>> \in Seq(S) /\ <<y, z>> \in Seq(S)
  OBVIOUS
<1>5. Known(x) \in Seq(S)
  BY <1>2, <1>3, <1>4 DEF Known
<1>6. x.kind # "leaky" => Known(x) = <<Plain(x)>>
  BY DEF Known, Plain
<1> QED
  BY <1>1, <1>2, <1>5, <1>6 DEF Plain

LEMMA ConvertedShape ==
  ASSUME NEW items \in Seq(Items)
  PROVE  LET c == P!Converted(items) IN
         /\ c \in Seq(Items)
         /\ (\A k \in DOMAIN items : items[k].kind # "leaky") =>
              /\ Len(c) = Len(items) /\ \A k \in DOMAIN items : c[k] = Plain(items[k])
<1>1. PICK n : n = Len(items)
  OBVIOUS
<1>2. n \in Nat /\ DOMAIN items = 1 .. n /\ \A k \in 1 .. n : items[k] \in Items
  BY <1>1, ItemSequence
<1>3. PICK seqs : seqs = [k \in 1 .. n |-> Known(items[k])]
  OBVIOUS
<1>4. P!Converted(items) = P!FlattenSeq(seqs)
  <2>1. seqs = [k \in DOMAIN items |-> Known(items[k])]
    BY <1>2, <1>3
  <2> QED
    BY <2>1 DEF P!Converted, Known
<1>5. Len(seqs) = n
  BY <1>2, <1>3
<1>6. CASE n = 0
  <2>1. P!Converted(items) = seqs
    BY <1>4, <1>5, <1>6 DEF P!FlattenSeq
  <2>2. seqs \in Seq(Items)
    <3>1. 1 .. n = {}
      BY <1>6
    <3>2. PICK S : S = Items
      OBVIOUS
    <3>3. seqs \in [1 .. n -> S]
      BY <1>3, <3>1
    <3> QED
      BY <1>2, <3>2, <3>3
  <2> QED
    BY <1>1, <1>2, <1>5, <1>6, <2>1, <2>2
<1>7. CASE n # 0
  <2>1. n \in Nat \ {0} /\ n - 1 \in Nat /\ n - 1 \in 0 .. n - 1
    BY <1>2, <1>7
  <2>2. \A k \in 1 .. n : seqs[k] = Known(items[k]) /\ seqs[k] \in Seq(Items)
    BY <1>2, <1>3, KnownShape
  <2>3. PICK f \in [0 .. n - 1 -> Seq(Items)] :
          /\ f[0] = seqs[1]
          /\ \A m \in 1 .. n - 1 : f[m] = f[m - 1] \o seqs[m + 1]
          /\ P!FlattenSeq(seqs) = f[n - 1]
    BY <1>5, <2>1, <2>2, Flattens
  <2>4. f[n - 1] \in Seq(Items)
    BY <2>1
  <2>5. ASSUME \A k \in DOMAIN items : items[k].kind # "leaky"
        PROVE  Len(f[n - 1]) = n /\ \A k \in 1 .. n : f[n - 1][k] = Plain(items[k])
    <3> DEFINE Holds(m) == /\ Len(f[m]) = m + 1
                           /\ \A k \in 1 .. m + 1 : f[m][k] = Plain(items[k])
               Good == {m \in 0 .. n - 1 : Holds(m)}
    <3>1. \A k \in 1 .. n : Len(seqs[k]) = 1 /\ seqs[k][1] = Plain(items[k])
      <4> TAKE k \in 1 .. n
      <4>1. PICK x \in Items : x = items[k] /\ x.kind # "leaky"
        BY <1>2, <2>5
      <4>2. Len(Known(x)) = 1 /\ Known(x)[1] = Plain(x)
        BY <4>1, KnownShape
      <4>3. seqs[k] = Known(x)
        BY <2>2, <4>1
      <4> QED
        BY <4>1, <4>2, <4>3
    <3>2. 0 \in Good
      <4>1. 1 \in 1 .. n /\ 0 \in 0 .. n - 1 /\ \A k \in 1 .. 0 + 1 : k = 1
        <5>1. 1 \in 1 .. n /\ 0 \in 0 .. n - 1
          BY <2>1
        <5>2. \A k \in 1 .. 0 + 1 : k = 1
          OBVIOUS
        <5> QED
          BY <5>1, <5>2
      <4>2. Len(f[0]) = 1 /\ f[0][1] = Plain(items[1])
        BY <2>3, <3>1, <4>1
      <4>3. Holds(0)
        <5>1. PICK q : q = f[0]
          OBVIOUS
        <5>2. Len(q) = 0 + 1 /\ \A k \in 1 .. 0 + 1 : q[k] = Plain(items[k])
          BY <4>1, <4>2, <5>1
        <5> QED
          BY <5>1, <5>2
      <4> QED
        BY <4>1, <4>3
    <3>3. ASSUME NEW m \in 1 .. n - 1, m - 1 \in Good PROVE m \in Good
      <4>1. m - 1 \in 0 .. n - 1 /\ m \in 0 .. n - 1 /\ m + 1 \in 1 .. n /\ Holds(m - 1)
        BY <2>1, <3>3
      <4>2. PICK q \in Seq(Items) : q = f[m - 1]
        BY <4>1
      <4>3. PICK e \in Seq(Items) : e = seqs[m + 1]
        BY <2>2, <4>1
      <4>4. PICK new : new = f[m]
        OBVIOUS
      <4>5. new = q \o e
        BY <2>3, <4>2, <4>3, <4>4
      <4>6. Extended(new, q, e)
        BY <4>5, ItemSequence
      <4>7. Len(q) = m /\ Len(e) = 1 /\ e[1] = Plain(items[m + 1])
        BY <3>1, <4>1, <4>2, <4>3
      <4>8. \A k \in 1 .. m : q[k] = Plain(items[k])
        BY <4>1, <4>2
      <4>9. Len(new) = m + 1 /\ new[m + 1] = Plain(items[m + 1])
        BY <4>6, <4>7 DEF Extended
      <4>10. \A k \in 1 .. m : new[k] = Plain(items[k])
        BY <4>6, <4>7, <4>8 DEF Extended
      <4>11. \A k \in 1 .. m + 1 : k \in 1 .. m \/ k = m + 1
        OBVIOUS
      <4>12. Holds(m)
        BY <4>4, <4>9, <4>10, <4>11
      <4> QED
        BY <4>1, <4>12
    <3>4. 0 .. n - 1 \subseteq Good
      <4> HIDE DEF Good
      <4> QED
        BY <2>1, <3>2, <3>3, UpTo
    <3>5. Holds(n - 1)
      BY <2>1, <3>4
    <3> QED
      BY <2>1, <3>5
  <2> QED
    BY <1>1, <1>2, <1>4, <2>3, <2>4, <2>5
<1> QED
  BY <1>6, <1>7

LEMMA SubSequence ==
  ASSUME NEW q \in Seq(Items), NEW m \in 1 .. Len(q)
  PROVE  /\ SubSeq(q, m, Len(q)) \in Seq(Items) /\ Len(SubSeq(q, m, Len(q))) = Len(q) - m + 1
         /\ \A k \in 1 .. Len(q) - m + 1 : SubSeq(q, m, Len(q))[k] = q[m + k - 1]
<1>1. PICK S : S = Items
  OBVIOUS
<1>2. q \in Seq(S) /\ Len(q) \in Nat
  BY <1>1
<1>3. SubSeq(q, m, Len(q)) \in Seq(S)
  BY <1>2
<1>4. Len(SubSeq(q, m, Len(q))) = Len(q) - m + 1
  BY <1>2
<1>5. \A k \in 1 .. Len(q) - m + 1 : SubSeq(q, m, Len(q))[k] = q[m + k - 1]
  BY <1>2
<1> QED
  BY <1>1, <1>3, <1>4, <1>5

\* What is left of a compaction that is replayed begins with its last marker.
LEMMA AfterMarkerShape ==
  ASSUME NEW items \in Seq(Items)
  PROVE  /\ P!AfterMarker(items) \in Seq(Items)
         /\ \/ P!AfterMarker(items) = items
            \/ \E m \in DOMAIN items :
                 items[m].kind = "marker" /\ P!AfterMarker(items) = SubSeq(items, m, Len(items))
<1> DEFINE marks == {i \in DOMAIN items : items[i].kind = "marker"}
<1>1. Len(items) \in Nat /\ DOMAIN items = 1 .. Len(items)
  BY ItemSequence
<1>2. CASE marks = {}
  BY <1>2 DEF P!AfterMarker
<1>3. CASE marks # {}
  <2>1. marks \in SUBSET Nat /\ \A k \in marks : k <= Len(items)
    BY <1>1
  <2>2. PICK m : m = P!Max(marks)
    OBVIOUS
  <2>3. m \in marks
    <3> HIDE DEF marks
    <3> QED
      BY <1>1, <1>3, <2>1, <2>2, MaxIs
  <2>4. P!AfterMarker(items) = SubSeq(items, m, Len(items))
    BY <1>3, <2>2 DEF P!AfterMarker
  <2>5. m \in 1 .. Len(items)
    BY <1>1, <2>3
  <2> QED
    BY <1>1, <2>3, <2>4, <2>5, SubSequence
<1> QED
  BY <1>2, <1>3

LEMMA CompactShape ==
  ASSUME NEW items \in Seq(Items), NEW keep \in Nat
  PROVE  P!CompactInput(items, keep) \in Seq(Items)
<1> DEFINE split == P!CompactKeepSplit(items, keep)
<1>1. CASE Len(items) <= MinKeep
  <2>1. split = 0
    BY <1>1 DEF P!CompactKeepSplit
  <2> QED
    BY <2>1 DEF P!CompactInput
<1>2. CASE ~(Len(items) <= MinKeep)
  <2>1. Len(items) \in Nat /\ MinKeep \in Nat \ {0}
    BY ItemSequence, ProtocolAssumption
  <2>2. split \in Nat /\ split <= Len(items) - MinKeep
    BY <1>2, <2>1, FoldsWell
  <2> HIDE DEF split
  <2>3. PICK tail : tail = SubSeq(items, split + 1, Len(items))
    OBVIOUS
  <2>4. split + 1 \in 1 .. Len(items)
    BY <2>1, <2>2
  <2>5. tail \in Seq(Items)
    BY <2>3, <2>4, SubSequence
  <2>6. P!Note \in Items
    BY NewItems DEF Items
  <2>7. <<P!Note>> \in Seq(Items)
    BY <2>5, <2>6, ItemSequence
  <2>8. <<P!Note>> \o tail \in Seq(Items)
    BY <2>5, <2>7, ItemSequence
  <2> QED
    BY <2>3, <2>8 DEF P!CompactInput, split
<1> QED
  BY <1>1, <1>2

LEMMA SanitizedShape ==
  ASSUME NEW items \in Seq(Items), NEW compact \in BOOLEAN
  PROVE  /\ P!Prepared(items, compact) \in Seq(Items)
         /\ family # "openai" => P!Sanitized(items, compact) \in Seq(Items)
<1>1. P!Converted(items) \in Seq(Items) /\ P!Converted(P!AfterMarker(items)) \in Seq(Items)
  BY ConvertedShape, AfterMarkerShape
<1>2. P!CompactInput(P!Converted(items), KeepLast) \in Seq(Items)
  BY <1>1, CompactShape, ProtocolAssumption
<1>3. P!Prepared(items, compact) \in Seq(Items)
  BY <1>1, <1>2 DEF P!Prepared
<1> QED
  BY <1>3, NormalizedShape DEF P!Sanitized

-----------------------------------------------------------------------------
(* What goes upstream, for a conversation of any length.                    *)

\* What goes upstream was made of the conversation as it still is.
UpstreamIsTheHistory ==
  /\ history \in Seq(P!Spoken)
  /\ request \in {"none", "turn", "compact", "retry"}
  /\ request \in {"turn", "compact"} => upstream = P!Sanitized(history, request = "compact")
  /\ request = "retry" => /\ family # "openai"
                          /\ upstream = P!CompactInput(P!Sanitized(history, FALSE), AggressiveKeep)

LEMMA SpokenItems == P!Spoken \subseteq Items
<1> SUFFICES ASSUME NEW x \in P!Spoken PROVE x \in Items
  OBVIOUS
<1>1. PICK A : A = {P!Item(k, 0, 0, TRUE) : k \in OtherKinds}
  OBVIOUS
<1> DEFINE B == {P!Call(i, g) : i \in Ids, g \in Sigs}
<1>2. PICK C : C = {P!Item("output", i, 0, TRUE) : i \in Ids \cup {0}}
  OBVIOUS
<1>3. P!Spoken = A \cup B \cup C
  BY <1>1, <1>2 DEF P!Spoken, OtherKinds
<1>4. CASE x \in A
  <2>1. PICK k \in OtherKinds : x = P!Item(k, 0, 0, TRUE)
    BY <1>1, <1>4
  <2>2. x \in Others
    BY <2>1 DEF P!Item, Others, Signatures
  <2> QED
    BY <2>2 DEF Items
<1>5. CASE x \in B
  <2>1. PICK i \in Ids, g \in Sigs : x = P!Call(i, g)
    BY <1>5
  <2>2. i \in Nat \ {0} /\ g \in Signatures
    BY ProtocolAssumption DEF Signatures
  <2>3. x \in Calls
    BY <2>1, <2>2 DEF P!Call, P!Item, Calls
  <2> QED
    BY <2>3 DEF Items
<1>6. CASE x \in C
  <2>1. PICK i \in Ids \cup {0} : x = P!Item("output", i, 0, TRUE)
    BY <1>2, <1>6
  <2>2. i \in Nat
    BY ProtocolAssumption
  <2>3. x \in Results
    BY <2>1, <2>2 DEF P!Item, Results, Signatures
  <2> QED
    BY <2>3 DEF Items
<1> HIDE DEF B
<1> QED
  BY <1>3, <1>4, <1>5, <1>6

LEMMA HistoryStepKeeps ==
  ASSUME UpstreamIsTheHistory, P!Next
  PROVE  UpstreamIsTheHistory'
<1>1. CASE P!Converse
  <2>1. PICK x \in P!Spoken : history' = Append(history, x)
    BY <1>1 DEF P!Converse
  <2>2. history' \in Seq(P!Spoken)
    <3>1. PICK S : S = P!Spoken
      OBVIOUS
    <3>2. history \in Seq(S) /\ x \in S
      BY <2>1, <3>1 DEF UpstreamIsTheHistory
    <3> QED
      BY <2>1, <3>1, <3>2
  <2>3. request' = "none"
    BY <1>1 DEF P!Converse
  <2> QED
    BY <2>2, <2>3 DEF UpstreamIsTheHistory
<1>2. CASE P!Send
  <2>1. /\ request' \in {"turn", "compact"} /\ history' = history /\ family' = family
        /\ upstream' = P!Sanitized(history, request' = "compact")
    BY <1>2 DEF P!Send
  <2>2. P!Sanitized(history, request = "compact")' = P!Sanitized(history, request' = "compact")
    BY <2>1 DEF P!Sanitized
  <2> QED
    BY <2>1, <2>2 DEF UpstreamIsTheHistory
<1>3. CASE P!RetryAggressively
  <2>1. /\ request = "turn" /\ family # "openai" /\ request' = "retry"
        /\ upstream' = P!CompactInput(upstream, AggressiveKeep)
        /\ history' = history /\ family' = family
    BY <1>3 DEF P!RetryAggressively
  <2>2. P!Sanitized(history, FALSE)' = P!Sanitized(history, FALSE)
    BY <2>1 DEF P!Sanitized
  <2>3. upstream = P!Sanitized(history, FALSE)
    BY <2>1 DEF UpstreamIsTheHistory, P!Sanitized
  <2> QED
    BY <2>1, <2>2, <2>3 DEF UpstreamIsTheHistory
<1> QED
  BY <1>1, <1>2, <1>3 DEF P!Next

\* The conversation a request was made of stays, so that what went upstream can be told from it.
THEOREM UpstreamInvariant == MCSpec => []UpstreamIsTheHistory
<1>1. MCInit => UpstreamIsTheHistory
  <2>1. <<>> \in Seq(P!Spoken)
    OBVIOUS
  <2>2. MCInit => history = <<>> /\ request = "none"
    BY DEF MCInit, StillP, P!Init
  <2> QED
    BY <2>1, <2>2 DEF UpstreamIsTheHistory
<1>2. UpstreamIsTheHistory /\ [MCNext]_<<part, TVars, vars, PVars>> => UpstreamIsTheHistory'
  <2> SUFFICES ASSUME UpstreamIsTheHistory, [MCNext]_<<part, TVars, vars, PVars>>
               PROVE  UpstreamIsTheHistory'
    OBVIOUS
  <2>1. CASE P!Next
    BY <2>1, HistoryStepKeeps
  <2>2. CASE UNCHANGED PVars
    <3>1. family' = family /\ history' = history /\ request' = request /\ upstream' = upstream
      BY <2>2 DEF PVars
    <3>2. /\ P!Sanitized(history, request = "compact")' = P!Sanitized(history, request = "compact")
          /\ P!Sanitized(history, FALSE)' = P!Sanitized(history, FALSE)
      BY <3>1 DEF P!Sanitized
    <3> QED
      BY <3>1, <3>2 DEF UpstreamIsTheHistory
  <2> QED
    BY <2>1, <2>2 DEF MCNext
<1> QED
  BY <1>1, <1>2, PTL DEF MCSpec

LEMMA HistoryItems ==
  ASSUME UpstreamIsTheHistory
  PROVE  history \in Seq(Items)
<1>1. PICK S : S = P!Spoken
  OBVIOUS
<1>2. PICK I : I = Items
  OBVIOUS
<1>3. S \subseteq I /\ history \in Seq(S)
  BY <1>1, <1>2, SpokenItems DEF UpstreamIsTheHistory
<1> QED
  BY <1>2, <1>3

\* What goes to a third party is paired: normalize_tool_call_history, over the whole of it.
THEOREM HistoryPaired == MCSpec => []HistoryIsPaired
<1>1. UpstreamIsTheHistory => HistoryIsPaired
  <2> SUFFICES ASSUME UpstreamIsTheHistory, request \in {"turn", "compact"}, family # "openai",
                      family = "gemini" \/ P!Orderly(P!Prepared(history, request = "compact"))
               PROVE  /\ \A i, j \in DOMAIN upstream :
                           i # j /\ upstream[i].id = upstream[j].id /\ upstream[i].id # 0 =>
                             upstream[i].kind # upstream[j].kind
                      /\ \A i \in DOMAIN upstream :
                           P!IsCall(upstream[i]) => \E j \in P!Outputs(upstream, upstream[i].id) :
                             i < j /\ \A k \in i .. j :
                                        \/ upstream[k].kind \in {"call", "output"}
                                        \/ (family = "gemini" /\ upstream[k] = P!Note)
                      /\ family = "gemini" =>
                           \A i \in DOMAIN upstream :
                             P!IsOutput(upstream[i]) /\ upstream[i].id # 0 =>
                               \E j \in 1 .. (i - 1) :
                                 P!IsCall(upstream[j]) /\ upstream[j].id = upstream[i].id
    BY DEF HistoryIsPaired, P!HistoryIsPaired
  <2>1. PICK prune : prune = (family = "gemini")
    OBVIOUS
  <2>2. PICK items : items = P!Prepared(history, request = "compact")
    OBVIOUS
  <2>3. items \in Seq(Items)
    BY <2>2, HistoryItems, SanitizedShape
  <2>4. upstream = P!Normalized(items, prune)
    BY <2>1, <2>2 DEF UpstreamIsTheHistory, P!Sanitized
  <2>5. /\ OnceEach(upstream) /\ Called(upstream)
        /\ \A k \in DOMAIN upstream : P!IsCall(upstream[k]) => HasItsResult(upstream, k, prune)
    BY <2>1, <2>2, <2>3, <2>4, NormalizedIsPaired
  <2>6. ASSUME NEW i \in DOMAIN upstream, P!IsCall(upstream[i])
        PROVE  \E j \in P!Outputs(upstream, upstream[i].id) :
                 i < j /\ \A k \in i .. j : \/ upstream[k].kind \in {"call", "output"}
                                           \/ (family = "gemini" /\ upstream[k] = P!Note)
    BY <2>1, <2>5, <2>6 DEF HasItsResult, Quiet, P!Outputs
  <2> QED
    BY <2>5, <2>6 DEF OnceEach, Called
<1> QED
  BY <1>1, UpstreamInvariant, PTL

LEMMA ReverseIs ==
  ASSUME NEW q \in Seq(Items)
  PROVE  LET b == P!Reverse(q) IN
         /\ b \in Seq(Items) /\ Len(b) = Len(q)
         /\ \A i \in 1 .. Len(q) : b[i] = q[Len(q) - i + 1]
<1>1. PICK S : S = Items
  OBVIOUS
<1>2. PICK n \in Nat : n = Len(q)
  BY ItemSequence
<1>3. \A i \in 1 .. n : n - i + 1 \in 1 .. n
  OBVIOUS
<1>4. \A i \in 1 .. n : q[n - i + 1] \in S
  BY <1>1, <1>2, <1>3, ItemSequence
<1>5. PICK b : b = [i \in 1 .. n |-> q[n - i + 1]]
  OBVIOUS
<1>6. b \in [1 .. n -> S]
  BY <1>4, <1>5
<1>7. b \in Seq(S) /\ Len(b) = n
  BY <1>5, <1>6
<1> QED
  BY <1>1, <1>2, <1>5, <1>7 DEF P!Reverse

LEMMA SuffixIs ==
  ASSUME NEW t \in Seq(Items), NEW u \in Seq(Items), Len(t) <= Len(u),
         \A k \in 1 .. Len(t) : t[k] = u[Len(u) - Len(t) + k]
  PROVE  P!IsSuffix(t, u)
<1>1. Len(t) \in Nat /\ Len(u) \in Nat
  BY ItemSequence
<1>2. PICK a : a = P!Reverse(t)
  OBVIOUS
<1>3. PICK b : b = P!Reverse(u)
  OBVIOUS
<1>4. PICK S : S = Items
  OBVIOUS
<1>5. a \in Seq(S) /\ Len(a) = Len(t) /\ \A i \in 1 .. Len(t) : a[i] = t[Len(t) - i + 1]
  BY <1>2, <1>4, ReverseIs
<1>6. b \in Seq(S) /\ Len(b) = Len(u) /\ \A i \in 1 .. Len(u) : b[i] = u[Len(u) - i + 1]
  BY <1>3, <1>4, ReverseIs
<1>7. \A i \in 1 .. Len(t) : a[i] = b[i]
  <2> TAKE i \in 1 .. Len(t)
  <2>1. /\ Len(t) - i + 1 \in 1 .. Len(t) /\ i \in 1 .. Len(u)
        /\ Len(u) - Len(t) + (Len(t) - i + 1) = Len(u) - i + 1
    BY <1>1
  <2> QED
    BY <1>5, <1>6, <2>1
<1>8. SubSeq(a, 1, Len(a)) = SubSeq(b, 1, Len(a))
  BY <1>1, <1>5, <1>6, <1>7
<1> QED
  BY <1>1, <1>2, <1>3, <1>5, <1>6, <1>8 DEF P!IsSuffix, P!IsPrefix

LEMMA FoldedEnd ==
  ASSUME NEW from \in Seq(Items), NEW keep \in Nat, P!CompactKeepSplit(from, keep) > 0,
         Len(from) > MinKeep
  PROVE  P!IsSuffix(SubSeq(from, Len(from) - MinKeep + 1, Len(from)), P!CompactInput(from, keep))
<1>1. PICK n : n = Len(from)
  OBVIOUS
<1>2. PICK split : split = P!CompactKeepSplit(from, keep)
  OBVIOUS
<1>3. n \in Nat /\ MinKeep \in Nat \ {0} /\ split \in Nat /\ split <= n - MinKeep /\ split # 0
  BY <1>1, <1>2, ItemSequence, ProtocolAssumption, FoldsWell
<1>4. split + 1 \in 1 .. n /\ n - MinKeep + 1 \in 1 .. n
  BY <1>3
<1>5. PICK end : end = SubSeq(from, n - MinKeep + 1, n)
  OBVIOUS
<1>6. PICK tail : tail = SubSeq(from, split + 1, n)
  OBVIOUS
<1>7. /\ end \in Seq(Items) /\ Len(end) = n - (n - MinKeep + 1) + 1
      /\ \A k \in 1 .. n - (n - MinKeep + 1) + 1 : end[k] = from[n - MinKeep + 1 + k - 1]
  BY <1>1, <1>4, <1>5, SubSequence
<1>8. /\ tail \in Seq(Items) /\ Len(tail) = n - (split + 1) + 1
      /\ \A k \in 1 .. n - (split + 1) + 1 : tail[k] = from[split + 1 + k - 1]
  BY <1>1, <1>4, <1>6, SubSequence
<1>9. PICK one : one = <<P!Note>>
  OBVIOUS
<1>10. one \in Seq(Items) /\ Len(one) = 1
  <2>1. P!Note \in Items
    BY NewItems DEF Items
  <2> QED
    BY <1>9, <2>1, ItemSequence
<1>11. PICK u : u = one \o tail
  OBVIOUS
<1>12. u \in Seq(Items) /\ Extended(u, one, tail)
  BY <1>8, <1>10, <1>11, ItemSequence
<1>13. Len(u) = n - split + 1 /\ \A k \in 1 .. n - split : u[1 + k] = from[split + k]
  <2>1. Len(tail) = n - split
    BY <1>3, <1>8
  <2>2. \A k \in 1 .. n - split : u[1 + k] = tail[k] /\ tail[k] = from[split + k]
    <3> TAKE k \in 1 .. n - split
    <3>1. u[1 + k] = tail[k]
      BY <1>10, <1>12, <2>1 DEF Extended
    <3>2. k \in 1 .. n - (split + 1) + 1 /\ split + 1 + k - 1 = split + k
      BY <1>3
    <3>3. tail[k] = from[split + 1 + k - 1]
      BY <1>8, <3>2
    <3> QED
      BY <3>1, <3>2, <3>3
  <2> QED
    BY <1>3, <1>10, <1>12, <2>1, <2>2 DEF Extended
<1>14. Len(end) = MinKeep /\ \A k \in 1 .. MinKeep : end[k] = from[n - MinKeep + k]
  <2>1. n - (n - MinKeep + 1) + 1 = MinKeep
    BY <1>3
  <2>2. ASSUME NEW k \in 1 .. MinKeep PROVE end[k] = from[n - MinKeep + k]
    <3>1. n - MinKeep + 1 + k - 1 = n - MinKeep + k
      BY <1>3
    <3> QED
      BY <1>7, <2>1, <3>1
  <2> QED
    BY <1>7, <2>1, <2>2
<1>15. \A k \in 1 .. MinKeep : end[k] = u[Len(u) - MinKeep + k]
  <2> TAKE k \in 1 .. MinKeep
  <2>1. PICK i : i = n - split - MinKeep + k
    OBVIOUS
  <2>2. i \in 1 .. n - split /\ split + i = n - MinKeep + k /\ Len(u) - MinKeep + k = 1 + i
    BY <1>3, <1>13, <2>1
  <2> QED
    BY <1>13, <1>14, <2>2
<1>16. P!IsSuffix(end, u)
  <2>1. Len(end) <= Len(u)
    BY <1>3, <1>13, <1>14
  <2> QED
    BY <1>7, <1>12, <1>14, <1>15, <2>1, SuffixIs
<1> QED
  BY <1>1, <1>2, <1>3, <1>5, <1>6, <1>9, <1>11, <1>16 DEF P!CompactInput

\* Folding (compact_input) keeps the end of a conversation of any length, word for word.
THEOREM EndIsKept == MCSpec => []FoldingKeepsTheEnd
<1>1. UpstreamIsTheHistory => FoldingKeepsTheEnd
  <2> SUFFICES ASSUME UpstreamIsTheHistory, request = "compact" \/ request = "retry", family # "openai"
               PROVE  P!FoldingKeepsTheEnd
    BY DEF FoldingKeepsTheEnd, P!FoldingKeepsTheEnd
  <2> DEFINE from == IF request = "compact" THEN P!Converted(history)
                     ELSE P!Sanitized(history, FALSE)
             keep == IF request = "compact" THEN KeepLast ELSE AggressiveKeep
             split == P!CompactKeepSplit(from, keep)
             Kept == /\ P!LowSplit(from, keep) <= P!HighSplit(from) \/ Len(from) <= MinKeep
                     /\ split > 0 =>
                          /\ Len(from) - split >= MinKeep
                          /\ ~P!IsOutput(from[split + 1])
                          /\ request = "retry" =>
                               P!IsSuffix(SubSeq(from, Len(from) - MinKeep + 1, Len(from)), upstream)
  <2>1. Kept => P!FoldingKeepsTheEnd
    BY DEF P!FoldingKeepsTheEnd
  <2>2. from = IF request = "compact" THEN P!Converted(history) ELSE P!Sanitized(history, FALSE)
    OBVIOUS
  <2>3. keep = IF request = "compact" THEN KeepLast ELSE AggressiveKeep
    OBVIOUS
  <2>4. from \in Seq(Items) /\ keep \in Nat
    <3>1. history \in Seq(Items)
      BY HistoryItems
    <3>2. P!Converted(history) \in Seq(Items) /\ P!Sanitized(history, FALSE) \in Seq(Items)
      BY <3>1, ConvertedShape, SanitizedShape
    <3> QED
      BY <2>2, <2>3, <3>2, ProtocolAssumption
  <2> HIDE DEF from, keep
  <2>5. Len(from) \in Nat /\ MinKeep \in Nat \ {0}
    BY <2>4, ItemSequence, ProtocolAssumption
  <2>6. CASE Len(from) <= MinKeep
    <3>1. split = 0
      BY <2>6 DEF P!CompactKeepSplit
    <3>2. ~(split > 0)
      BY <3>1
    <3>3. Kept
      BY <2>6, <3>2
    <3> QED
      BY <2>1, <3>3
  <2>7. CASE ~(Len(from) <= MinKeep)
    <3>1. /\ P!LowSplit(from, keep) <= P!HighSplit(from)
          /\ split \in Nat /\ split <= Len(from) - MinKeep /\ NotAnOutput(from, split)
      BY <2>4, <2>5, <2>7, FoldsWell
    <3>2. ASSUME split > 0
          PROVE  /\ Len(from) - split >= MinKeep /\ ~P!IsOutput(from[split + 1])
                 /\ request = "retry" =>
                      P!IsSuffix(SubSeq(from, Len(from) - MinKeep + 1, Len(from)), upstream)
      <4>1. Len(from) - split >= MinKeep /\ ~P!IsOutput(from[split + 1])
        BY <2>5, <3>1, <3>2 DEF NotAnOutput
      <4>2. ASSUME request = "retry" PROVE upstream = P!CompactInput(from, keep)
        BY <2>2, <2>3, <4>2 DEF UpstreamIsTheHistory
      <4>3. P!IsSuffix(SubSeq(from, Len(from) - MinKeep + 1, Len(from)), P!CompactInput(from, keep))
        BY <2>4, <2>5, <2>7, <3>2, FoldedEnd
      <4> QED
        BY <4>1, <4>2, <4>3
    <3> QED
      BY <2>1, <3>1, <3>2
  <2> QED
    BY <2>6, <2>7
<1> QED
  BY <1>1, UpstreamInvariant, PTL

\* How the loop goes on when no id is taken twice: nothing is renamed.
OwnId(x) == {x.id} \ {0}
GoesOn(a, r, x) ==
  /\ DOMAIN a.renamed = {}
  /\ a.calls = r.calls \cup (IF P!IsCall(x) THEN OwnId(x) ELSE {})
  /\ P!Range(a.pending) \subseteq P!Range(r.pending) \cup (IF P!IsCall(x) THEN OwnId(x) ELSE {})
  /\ a.outputs \subseteq r.outputs \cup (IF P!IsOutput(x) THEN OwnId(x) ELSE {})
                           \cup (IF P!IsCall(x) \/ P!IsOutput(x) THEN {} ELSE P!Range(r.pending))
  /\ \A k \in DOMAIN r.out : k \in DOMAIN a.out /\ a.out[k] = r.out[k]
  /\ P!IsOutput(x) /\ x.id \in r.calls \ r.outputs /\ x.id # 0 => \E k \in DOMAIN a.out : a.out[k] = x

LEMMA OneMoreStays ==
  ASSUME NEW old \in Seq(Items), NEW x \in Items, NEW new, new = Append(old, x)
  PROVE  /\ \A k \in DOMAIN old : k \in DOMAIN new /\ new[k] = old[k]
         /\ \E k \in DOMAIN new : new[k] = x
<1>1. PICK e \in Seq(Items) : OneFurther(new, old, x, e)
  BY OneMore
<1> QED
  BY <1>1 DEF OneFurther

LEMMA NothingIsRenamed ==
  ASSUME NEW r \in Repairs, NEW x \in Items, NEW prune, DOMAIN r.renamed = {},
         P!IsCall(x) => x.id \notin r.calls
  PROVE  GoesOn(P!AddItem(r, x, prune), r, x)
<1>1. PICK a : a = P!AddItem(r, x, prune)
  OBVIOUS
<1>2. a \in Repairs /\ r.out \in Seq(Items) /\ r.pending \in Seq(Nat)
  BY <1>1, AddItemShape DEF Repairs
<1>3. CASE x \in Calls
  <2>1. a = P!AddCall(r, x) /\ P!IsCall(x) /\ ~P!IsOutput(x) /\ x.id \in Nat \ {0}
    BY <1>1, <1>3 DEF Calls, P!AddItem, P!IsCall, P!IsOutput
  <2>2. PICK y \in Calls : AdmitsAs(a, r, x, y)
    BY <1>3, <2>1, AddCallShape
  <2>3. y = x /\ Admits(a, r, x) /\ DOMAIN a.renamed = {}
    BY <2>1, <2>2 DEF AdmitsAs
  <2>4. /\ a.out = Append(r.out, x) /\ a.calls = r.calls \cup {x.id} /\ a.outputs = r.outputs
        /\ a.pending = r.pending \/ a.pending = Append(r.pending, x.id)
    BY <2>3 DEF Admits
  <2>5. P!Range(a.pending) \subseteq P!Range(r.pending) \cup {x.id}
    BY <1>2, <2>4, Appended
  <2>6. \A k \in DOMAIN r.out : k \in DOMAIN a.out /\ a.out[k] = r.out[k]
    BY <1>2, <2>4, OneMoreStays
  <2>7. OwnId(x) = {x.id}
    BY <2>1 DEF OwnId
  <2>8. GoesOn(a, r, x)
    BY <2>1, <2>3, <2>4, <2>5, <2>6, <2>7 DEF GoesOn
  <2> QED
    BY <1>1, <2>8
<1>4. CASE x \in Results
  <2>1. a = P!AddOutput(r, x, prune) /\ ~P!IsCall(x) /\ P!IsOutput(x)
    BY <1>1, <1>4 DEF Results, P!AddItem, P!IsCall, P!IsOutput
  <2>2. CASE a = r /\ x.id # 0 /\ x.id \in r.outputs
    <3>1. GoesOn(a, r, x)
      BY <2>1, <2>2 DEF GoesOn
    <3> QED
      BY <1>1, <3>1
  <2>3. CASE \E y \in Results :
               /\ y.id = 0 \/ y.id \notin r.outputs
               /\ y = x \/ (x.id \in DOMAIN r.renamed /\ y.id = r.renamed[x.id])
               /\ Places(a, r, y, prune)
    <3>1. Places(a, r, x, prune)
      BY <2>3
    <3>2. a.calls = r.calls /\ a.renamed = r.renamed
      BY <3>1 DEF Places
    <3>3. CASE prune /\ x.id # 0 /\ x.id \notin r.calls
      <4>1. a.out = Append(r.out, P!Note) /\ a.outputs = r.outputs /\ a.pending = r.pending
        BY <3>1, <3>3 DEF Places
      <4>2. P!Note \in Items
        BY NewItems DEF Items
      <4>3. \A k \in DOMAIN r.out : k \in DOMAIN a.out /\ a.out[k] = r.out[k]
        BY <1>2, <4>1, <4>2, OneMoreStays
      <4>4. GoesOn(a, r, x)
        BY <2>1, <3>2, <3>3, <4>1, <4>3 DEF GoesOn
      <4> QED
        BY <1>1, <4>4
    <3>4. CASE ~(prune /\ x.id # 0 /\ x.id \notin r.calls)
      <4>1. /\ a.out = Append(r.out, x) /\ a.outputs = r.outputs \cup OwnId(x)
            /\ a.pending = P!Without(r.pending, OwnId(x))
        BY <3>1, <3>4 DEF Places, OwnId
      <4>2. x \in Items
        OBVIOUS
      <4>3. P!Range(a.pending) = P!Range(r.pending) \ OwnId(x)
        BY <1>2, <4>1, WithoutIs
      <4>4. /\ \A k \in DOMAIN r.out : k \in DOMAIN a.out /\ a.out[k] = r.out[k]
            /\ \E k \in DOMAIN a.out : a.out[k] = x
        BY <1>2, <4>1, <4>2, OneMoreStays
      <4>5. GoesOn(a, r, x)
        BY <2>1, <3>2, <4>1, <4>3, <4>4 DEF GoesOn
      <4> QED
        BY <1>1, <4>5
    <3> QED
      BY <3>3, <3>4
  <2> QED
    BY <1>4, <2>1, <2>2, <2>3, AddOutputShape
<1>5. CASE x \in Others
  <2>1. PICK b : b = P!SupplyMissing(r)
    OBVIOUS
  <2>2. a = [b EXCEPT !.out = Append(@, x)] /\ ~P!IsCall(x) /\ ~P!IsOutput(x)
    BY <1>1, <1>5, <2>1 DEF Others, OtherKinds, P!AddItem, P!IsCall, P!IsOutput
  <2>3. /\ b \in Repairs /\ a.out = Append(b.out, x) /\ a.calls = b.calls
        /\ a.outputs = b.outputs /\ a.pending = b.pending /\ a.renamed = b.renamed
    BY <1>5, <2>1, <2>2, AddOther
  <2>4. PICK m : m = P!Without(r.pending, r.outputs)
    OBVIOUS
  <2>5. /\ b.out = r.out \o Synthesized(m) /\ b.calls = r.calls
        /\ b.outputs = r.outputs \cup P!Range(m) /\ b.pending = <<>> /\ b.renamed = r.renamed
        /\ Synthesized(m) \in Seq(Items)
    BY <2>1, <2>4, SupplyShape
  <2>6. P!Range(m) \subseteq P!Range(r.pending) /\ P!Range(<<>>) = {}
    <3>1. P!Range(m) = P!Range(r.pending) \ r.outputs
      BY <1>2, <2>4, WithoutIs
    <3>2. P!Range(<<>>) = {}
      BY DEF P!Range
    <3> QED
      BY <3>1, <3>2
  <2>7. \A k \in DOMAIN r.out : k \in DOMAIN b.out /\ b.out[k] = r.out[k]
    <3>1. b.out \in Seq(Items) /\ Extended(b.out, r.out, Synthesized(m))
      BY <1>2, <2>3, <2>5, ItemSequence DEF Repairs
    <3> QED
      BY <1>2, <2>5, <3>1, OldIndexes
  <2>8. \A k \in DOMAIN b.out : k \in DOMAIN a.out /\ a.out[k] = b.out[k]
    <3>1. b.out \in Seq(Items) /\ x \in Items
      BY <2>3 DEF Repairs
    <3> QED
      BY <2>3, <3>1, OneMoreStays
  <2>9. \A k \in DOMAIN r.out : k \in DOMAIN a.out /\ a.out[k] = r.out[k]
    BY <2>7, <2>8
  <2>10. GoesOn(a, r, x)
    BY <2>2, <2>3, <2>5, <2>6, <2>9 DEF GoesOn
  <2> QED
    BY <1>1, <2>10
<1> QED
  BY <1>3, <1>4, <1>5 DEF Items

\* A result that comes while its call waits is kept.
LEMMA TheResultIsKept ==
  ASSUME NEW items \in Seq(Items), NEW prune, OnceEach(items),
         NEW i \in DOMAIN items, NEW j \in DOMAIN items, i < j,
         P!IsCall(items[i]), P!IsOutput(items[j]), items[i].id = items[j].id,
         \A k \in i .. j : items[k].kind \in {"call", "output"}
  PROVE  LET out == P!Normalized(items, prune) IN \E m \in DOMAIN out : out[m] = items[j]
<1>1. PICK n : n = Len(items)
  OBVIOUS
<1>2. n \in Nat /\ DOMAIN items = 1 .. n /\ \A m \in 1 .. n : items[m] \in Items
  BY <1>1, ItemSequence
<1>3. PICK f \in [0 .. n -> Repairs] :
        /\ f[0] = P!Start
        /\ \A m \in 1 .. n : f[m] = P!AddItem(f[m - 1], items[m], prune)
        /\ P!Normalized(items, prune) = P!SupplyMissing(f[n]).out
  BY <1>1, PairedLoops
<1>4. PICK q : q = items[i].id
  OBVIOUS
<1>5. i \in 1 .. n /\ j \in 1 .. n /\ q \in Nat \ {0}
  BY <1>2, <1>4, ItemShape
<1>6. ASSUME NEW k \in 1 .. n, items[k].id = q, k # i, k # j PROVE FALSE
  <2>1. P!IsCall(items[k]) \/ P!IsOutput(items[k])
    BY <1>2, <1>5, <1>6, ItemShape
  <2>2. items[k].kind # items[i].kind /\ items[k].kind # items[j].kind
    BY <1>2, <1>4, <1>5, <1>6 DEF OnceEach
  <2> QED
    BY <2>1, <2>2 DEF P!IsCall, P!IsOutput
<1> DEFINE Ids4(r, m) ==
             /\ DOMAIN r.renamed = {}
             /\ \A c \in r.calls : \E k \in 1 .. m : P!IsCall(items[k]) /\ items[k].id = c
             /\ \A o \in r.outputs \cup P!Range(r.pending) : \E k \in 1 .. m : items[k].id = o /\ o # 0
           Kept(r, m) == /\ m >= i => q \in r.calls
                         /\ m < j => q \notin r.outputs
                         /\ m >= j => \E k \in DOMAIN r.out : r.out[k] = items[j]
           Good == {m \in 0 .. n : Ids4(f[m], m) /\ Kept(f[m], m)}
<1>7. 0 \in Good
  <2>1. PICK r : r = f[0]
    OBVIOUS
  <2>2. r.calls = {} /\ r.outputs = {} /\ r.pending = <<>> /\ r.renamed = [v \in {} |-> 0]
    BY <1>3, <2>1 DEF P!Start
  <2>3. DOMAIN r.renamed = {} /\ P!Range(r.pending) = {}
    BY <2>2 DEF P!Range
  <2>4. Ids4(r, 0) /\ Kept(r, 0)
    BY <1>5, <2>2, <2>3
  <2> HIDE DEF Ids4, Kept
  <2> QED
    BY <1>2, <2>1, <2>4
<1>8. ASSUME NEW m \in 1 .. n, m - 1 \in Good PROVE m \in Good
  <2>1. m - 1 \in 0 .. n /\ m \in 0 .. n /\ Ids4(f[m - 1], m - 1) /\ Kept(f[m - 1], m - 1)
    BY <1>2, <1>8
  <2>2. PICK r \in Repairs : r = f[m - 1]
    BY <2>1
  <2>3. Ids4(r, m - 1) /\ Kept(r, m - 1)
    BY <2>1, <2>2
  <2>4. PICK x \in Items : x = items[m]
    BY <1>2
  <2>5. PICK a : a = P!AddItem(r, x, prune)
    OBVIOUS
  <2>6. P!IsCall(x) => x.id \notin r.calls
    <3> SUFFICES ASSUME P!IsCall(x), x.id \in r.calls PROVE FALSE
      OBVIOUS
    <3>1. PICK k \in 1 .. m - 1 : P!IsCall(items[k]) /\ items[k].id = x.id
      BY <2>3
    <3>2. k \in 1 .. n /\ k # m /\ x.id # 0
      BY <1>2, <3>1, ItemShape
    <3>3. items[k].kind # items[m].kind
      BY <1>2, <2>4, <3>1, <3>2 DEF OnceEach
    <3> QED
      BY <2>4, <3>1, <3>3 DEF P!IsCall
  <2>7. GoesOn(a, r, x)
    BY <2>3, <2>5, <2>6, NothingIsRenamed
  <2>8. f[m] = a
    BY <1>3, <2>2, <2>4, <2>5
  <2>9. \A k \in 1 .. m - 1 : k \in 1 .. m /\ k \in 1 .. n /\ k # m
    BY <1>2
  <2>10. m \in 1 .. m
    OBVIOUS
  <2>11. Ids4(a, m)
    <3>1. ASSUME NEW c \in a.calls PROVE \E k \in 1 .. m : P!IsCall(items[k]) /\ items[k].id = c
      <4>1. CASE c \in r.calls
        BY <2>3, <2>9, <4>1
      <4>2. CASE P!IsCall(x) /\ c \in OwnId(x)
        BY <2>4, <2>10, <4>2 DEF OwnId
      <4> QED
        BY <2>7, <3>1, <4>1, <4>2 DEF GoesOn
    <3>2. ASSUME NEW o \in a.outputs \cup P!Range(a.pending)
          PROVE  \E k \in 1 .. m : items[k].id = o /\ o # 0
      <4>1. CASE o \in r.outputs \cup P!Range(r.pending)
        BY <2>3, <2>9, <4>1
      <4>2. CASE o \in OwnId(x)
        BY <2>4, <2>10, <4>2 DEF OwnId
      <4> QED
        BY <2>7, <3>2, <4>1, <4>2 DEF GoesOn
    <3> QED
      BY <2>7, <3>1, <3>2 DEF GoesOn
  <2>12. m >= i => q \in a.calls
    <3>1. CASE m = i
      BY <1>4, <1>5, <2>4, <2>7, <3>1 DEF GoesOn, OwnId
    <3>2. CASE m > i
      <4>1. m - 1 >= i
        BY <1>5, <3>2
      <4> QED
        BY <2>3, <2>7, <4>1 DEF GoesOn
    <3> QED
      BY <1>5, <3>1, <3>2
  <2>13. m < j => q \notin a.outputs
    <3> SUFFICES ASSUME m < j, q \in a.outputs PROVE FALSE
      OBVIOUS
    <3>1. q \notin r.outputs
      BY <1>5, <2>3
    <3>2. CASE P!IsOutput(x) /\ q \in OwnId(x)
      <4>1. items[m].id = q /\ m # j /\ m # i
        BY <1>5, <2>4, <3>2 DEF OwnId, P!IsOutput, P!IsCall
      <4> QED
        BY <1>6, <4>1
    <3>3. CASE ~P!IsCall(x) /\ ~P!IsOutput(x) /\ q \in P!Range(r.pending)
      <4>1. PICK k \in 1 .. m - 1 : items[k].id = q
        BY <2>3, <3>3
      <4>2. ~(m \in i .. j)
        BY <2>4, <3>3 DEF P!IsCall, P!IsOutput
      <4>3. k \in 1 .. n /\ k # i /\ k # j
        BY <1>2, <1>5, <4>2
      <4> QED
        BY <1>6, <4>1, <4>3
    <3> QED
      BY <2>7, <3>1, <3>2, <3>3 DEF GoesOn
  <2>14. m >= j => \E k \in DOMAIN a.out : a.out[k] = items[j]
    <3>1. CASE m = j
      <4>1. m - 1 >= i /\ m - 1 < j
        BY <1>5, <3>1
      <4>2. q \in r.calls \ r.outputs
        BY <2>3, <4>1
      <4> QED
        BY <1>4, <1>5, <2>4, <2>7, <3>1, <4>2 DEF GoesOn
    <3>2. CASE m > j
      <4>1. m - 1 >= j
        BY <1>5, <3>2
      <4> QED
        BY <2>3, <2>7, <4>1 DEF GoesOn
    <3> QED
      BY <1>5, <3>1, <3>2
  <2>15. Kept(a, m)
    BY <2>12, <2>13, <2>14
  <2> HIDE DEF Ids4, Kept
  <2> QED
    BY <2>1, <2>8, <2>11, <2>15
<1>9. n \in Good
  <2>1. 0 .. n \subseteq Good
    <3> HIDE DEF Good
    <3> QED
      BY <1>2, <1>7, <1>8, UpTo
  <2>2. n \in 0 .. n
    BY <1>2
  <2> HIDE DEF Good
  <2> QED
    BY <2>1, <2>2
<1>10. PICK r \in Repairs : r = f[n]
  BY <1>2
<1>11. PICK k \in DOMAIN r.out : r.out[k] = items[j]
  <2>1. n >= j
    BY <1>5
  <2> QED
    BY <1>9, <1>10, <2>1
<1>12. PICK e : e = Synthesized(P!Without(r.pending, r.outputs))
  OBVIOUS
<1>13. PICK b : b = P!SupplyMissing(r).out
  OBVIOUS
<1>14. b = r.out \o e /\ e \in Seq(Items) /\ r.out \in Seq(Items)
  BY <1>12, <1>13, SupplyShape DEF Repairs
<1>15. b \in Seq(Items) /\ Extended(b, r.out, e)
  BY <1>14, ItemSequence
<1>16. k \in DOMAIN b /\ b[k] = r.out[k]
  BY <1>14, <1>15, OldIndexes
<1> QED
  BY <1>3, <1>10, <1>11, <1>13, <1>16

\* The result of a call is sent as it is: no item that precedes the repair parts the two.
THEOREM ResultsKept == MCSpec => []ResultsAreKept
<1>1. UpstreamIsTheHistory => ResultsAreKept
  <2> SUFFICES ASSUME UpstreamIsTheHistory, request = "turn", family # "openai",
                      NEW i \in DOMAIN history, NEW j \in DOMAIN history,
                      i < j, P!IsCall(history[i]), P!IsOutput(history[j]),
                      history[i].id = history[j].id,
                      \A k \in i .. j : history[k].kind \in {"call", "output"},
                      \A k \in DOMAIN history :
                        /\ history[k].kind # "leaky" /\ (k > i => history[k].kind # "marker")
                        /\ \A l \in DOMAIN history :
                             k # l /\ history[k].id = history[l].id /\ history[k].id # 0 =>
                               history[k].kind # history[l].kind
               PROVE  \E m \in DOMAIN upstream : /\ P!IsOutput(upstream[m])
                                                 /\ upstream[m].id = history[i].id /\ upstream[m].real
    BY DEF ResultsAreKept, P!ResultsAreKept
  <2>1. PICK n : n = Len(history)
    OBVIOUS
  <2>2. /\ history \in Seq(Items) /\ n \in Nat /\ DOMAIN history = 1 .. n
        /\ \A k \in 1 .. n : history[k] \in Items
    BY <2>1, HistoryItems, ItemSequence
  <2>3. history[j].real
    <3>1. history[j] \in P!Spoken
      BY DEF UpstreamIsTheHistory
    <3>2. \A x \in P!Spoken : x.real
      BY DEF P!Spoken, P!Item, P!Call
    <3> QED
      BY <3>1, <3>2
  <2>4. PICK after : after = P!AfterMarker(history)
    OBVIOUS
  <2>5. PICK d \in 0 .. n : /\ d < i /\ after \in Seq(Items) /\ Len(after) = n - d
                            /\ \A k \in 1 .. n - d : after[k] = history[d + k]
    <3>1. CASE after = history
      <4>1. 0 \in 0 .. n /\ 0 < i /\ Len(after) = n - 0 /\ \A k \in 1 .. n - 0 : after[k] = history[0 + k]
        BY <2>1, <2>2, <3>1
      <4> QED
        BY <2>2, <3>1, <4>1
    <3>2. CASE \E m \in DOMAIN history :
                 history[m].kind = "marker" /\ after = SubSeq(history, m, Len(history))
      <4>1. PICK m \in DOMAIN history :
              history[m].kind = "marker" /\ after = SubSeq(history, m, Len(history))
        BY <3>2
      <4>2. m \in 1 .. n /\ ~(m > i) /\ i \in 1 .. n
        BY <2>2, <4>1
      <4>3. /\ after \in Seq(Items) /\ Len(after) = n - m + 1
            /\ \A k \in 1 .. n - m + 1 : after[k] = history[m + k - 1]
        BY <2>1, <2>2, <4>1, <4>2, SubSequence
      <4>4. PICK d : d = m - 1
        OBVIOUS
      <4>5. /\ d \in 0 .. n /\ d < i /\ n - m + 1 = n - d
            /\ \A k \in 1 .. n - d : m + k - 1 = d + k
        <5>1. d \in 0 .. n /\ d < i /\ n - m + 1 = n - d
          BY <2>2, <4>2, <4>4
        <5>2. \A k \in 1 .. n - d : m + k - 1 = d + k
          BY <2>2, <4>2, <4>4
        <5> QED
          BY <5>1, <5>2
      <4> QED
        BY <4>3, <4>5
    <3> QED
      BY <2>2, <2>4, <3>1, <3>2, AfterMarkerShape
  <2>6. \A k \in 1 .. n - d : d + k \in 1 .. n /\ after[k] = history[d + k]
    BY <2>2, <2>5
  <2>7. DOMAIN after = 1 .. n - d
    BY <2>5, ItemSequence
  <2>8. \A k \in DOMAIN after : after[k].kind # "leaky"
    BY <2>2, <2>6, <2>7
  <2>9. PICK items : items = P!Converted(after)
    OBVIOUS
  <2>10. /\ items \in Seq(Items) /\ Len(items) = n - d
         /\ \A k \in DOMAIN after : items[k] = Plain(after[k])
    BY <2>5, <2>8, <2>9, ConvertedShape
  <2>11. DOMAIN items = 1 .. n - d
    BY <2>10, ItemSequence
  <2>12. \A k \in 1 .. n - d : items[k] = Plain(history[d + k])
    BY <2>6, <2>7, <2>10
  <2>13. \A x \in Items : Plain(x).id = x.id /\ (x.id # 0 => Plain(x) = x)
    <3> SUFFICES ASSUME NEW x \in Items, x.kind = "foreign" PROVE P!Note.id = 0 /\ x.id = 0
      BY DEF Plain
    <3> QED
      BY DEF Items, Calls, Results, Others, P!Note, P!Item
  <2>14. OnceEach(items)
    <3> SUFFICES ASSUME NEW k \in 1 .. n - d, NEW l \in 1 .. n - d,
                        k # l, items[k].id = items[l].id, items[k].id # 0
                 PROVE  items[k].kind # items[l].kind
      BY <2>11 DEF OnceEach
    <3>1. d + k \in 1 .. n /\ d + l \in 1 .. n /\ d + k # d + l
      BY <2>5, <2>6
    <3>2. items[k] = history[d + k] /\ items[l] = history[d + l]
      BY <2>2, <2>12, <2>13, <3>1
    <3> QED
      BY <2>2, <3>1, <3>2
  <2>15. PICK a : a = i - d
    OBVIOUS
  <2>16. PICK b : b = j - d
    OBVIOUS
  <2>17. /\ a \in 1 .. n - d /\ b \in 1 .. n - d /\ a < b /\ d + a = i /\ d + b = j
         /\ \A k \in a .. b : k \in 1 .. n - d /\ d + k \in i .. j
    <3>1. i \in 1 .. n /\ j \in 1 .. n /\ d \in 0 .. n /\ d < i /\ n \in Nat
      BY <2>2, <2>5
    <3>2. a \in 1 .. n - d /\ b \in 1 .. n - d /\ a < b /\ d + a = i /\ d + b = j
      BY <2>15, <2>16, <3>1
    <3>3. \A k \in a .. b : k \in 1 .. n - d /\ d + k \in i .. j
      BY <3>1, <3>2
    <3> QED
      BY <3>2, <3>3
  <2>18. /\ \A x \in Items : x.kind \in {"call", "output"} => Plain(x) = x
         /\ \A k \in a .. b : items[k] = history[d + k]
    <3>1. \A x \in Items : x.kind \in {"call", "output"} => Plain(x) = x
      BY DEF Plain
    <3>2. ASSUME NEW k \in a .. b PROVE items[k] = history[d + k]
      BY <2>2, <2>6, <2>12, <2>17, <3>1
    <3> QED
      BY <3>1, <3>2
  <2>19. items[a] = history[i] /\ items[b] = history[j]
    <3>1. a \in a .. b /\ b \in a .. b
      BY <2>17
    <3> QED
      BY <2>17, <2>18, <3>1
  <2>20. \A k \in a .. b : items[k].kind \in {"call", "output"}
    BY <2>17, <2>18
  <2>21. PICK prune : prune = (family = "gemini")
    OBVIOUS
  <2>22. upstream = P!Normalized(items, prune)
    <3>1. P!Prepared(history, FALSE) = items
      BY <2>4, <2>9 DEF P!Prepared
    <3> QED
      BY <2>21, <3>1 DEF UpstreamIsTheHistory, P!Sanitized
  <2>23. PICK m \in DOMAIN upstream : upstream[m] = items[b]
    BY <2>10, <2>11, <2>14, <2>17, <2>19, <2>20, <2>22, TheResultIsKept
  <2> QED
    BY <2>3, <2>19, <2>23
<1> QED
  BY <1>1, UpstreamInvariant, PTL
=============================================================================
