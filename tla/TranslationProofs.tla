-------------------------- MODULE TranslationProofs --------------------------
(***************************************************************************)
(* Proofs about the stream that the gateway translates, for a text of any  *)
(* length, cut anywhere, and any native calls between: the items that the  *)
(* client is told of are framed, the calls are whole, and the prose and    *)
(* the thoughts are kept.                                                  *)
(*                                                                         *)
(* Everything that a text, a piece of it or a token makes of the state is  *)
(* a step of one relation (Goes): what is told stays framed, and native    *)
(* calls stay as they are.  A loop of the code is a function on 0 .. n,    *)
(* and keeps what each round keeps (Loop, of ProtocolProofs).              *)
(*                                                                         *)
(* The prose is compared with a reader of the tags, which takes the whole  *)
(* text token by token (Read): the scan is always where the reader is, and *)
(* what the client has read, with what the scan holds, is what the reader  *)
(* has read.  What a text makes of a reader, of a scan or of a text that   *)
(* is joined is a Run, so each is proved for a text with one token more.   *)
(***************************************************************************)
EXTENDS ProtocolProofs

-----------------------------------------------------------------------------
(* The translation of a chat stream: the events that are told, and what is   *)
(* open.                                                                     *)

\* What a text is made of: the marks, the words of a provider, the pieces of an argument.
\* (The token of an idle part is named: that a literal is a string the provers do not know.)
Words == STRING \cup {"t"}
Tokens == Words \cup T!Wholes \cup {T!ToString(n) : n \in Nat}
Texts == Seq(Tokens)
EventKinds == {"added", "delta", "done", "completed"}
Owners == {"reasoning", "message", "call", "response"}
Events == [e : EventKinds, of : Owners, at : Nat, text : Texts]

Heard(out, e, at) == \E k \in DOMAIN out : out[k].e = e /\ out[k].at = at
HeardBefore(out, n, e, at) == \E k \in 1 .. n - 1 : out[k].e = e /\ out[k].at = at

\* An item is announced once, and its deltas and its end come between the announcement
\* and the end; the response has not ended.
Framed(out) ==
  \A k \in DOMAIN out :
    /\ out[k].e # "completed"
    /\ out[k].e = "added" => ~HeardBefore(out, k, "added", out[k].at)
    /\ out[k].e # "added" => /\ HeardBefore(out, k, "added", out[k].at)
                             /\ ~HeardBefore(out, k, "done", out[k].at)

\* The indexes below next are used.  What is open, <<kind, number, index>>, was announced and
\* has not ended, each with an index of its own; the rest has ended.
Holds(out, next, open) ==
  /\ Framed(out)
  /\ \A k \in DOMAIN out : out[k].at < next
  /\ \A k \in DOMAIN out : Heard(out, "done", out[k].at) \/ \E o \in open : o[3] = out[k].at
  /\ \A o \in open : Heard(out, "added", o[3]) /\ ~Heard(out, "done", o[3])
  /\ \A o, p \in open : o[3] = p[3] => o = p

LEMMA EventAppended ==
  ASSUME NEW out \in Seq(Events), NEW x \in Events
  PROVE  LET told == Append(out, x) IN
         /\ told \in Seq(Events) /\ Len(out) \in Nat
         /\ DOMAIN out = 1 .. Len(out) /\ DOMAIN told = 1 .. Len(out) + 1
         /\ told[Len(out) + 1] = x
         /\ \A k \in 1 .. Len(out) : told[k] = out[k] /\ out[k] \in Events
         /\ \A k \in 1 .. Len(out) : out[k].at \in Nat
<1>1. \A y \in Events : y.at \in Nat
  BY DEF Events
<1> QED
  BY <1>1

LEMMA HeardAppended ==
  ASSUME NEW out \in Seq(Events), NEW x \in Events
  PROVE  /\ \A e, at : Heard(Append(out, x), e, at) <=> Heard(out, e, at) \/ (x.e = e /\ x.at = at)
         /\ \A e, at : \A n \in 1 .. Len(out) + 1 :
              HeardBefore(Append(out, x), n, e, at) <=> HeardBefore(out, n, e, at)
         /\ \A e, at : HeardBefore(out, Len(out) + 1, e, at) <=> Heard(out, e, at)
<1>1. PICK told : told = Append(out, x)
  OBVIOUS
<1>2. PICK n \in Nat : n = Len(out)
  OBVIOUS
<1>3. /\ DOMAIN out = 1 .. n /\ DOMAIN told = 1 .. n + 1 /\ told[n + 1] = x
      /\ \A k \in 1 .. n : told[k] = out[k]
  BY <1>1, <1>2, EventAppended
<1>4. \A e, at : Heard(told, e, at) <=> Heard(out, e, at) \/ (x.e = e /\ x.at = at)
  BY <1>3 DEF Heard
<1>5. \A e, at : \A m \in 1 .. n + 1 : HeardBefore(told, m, e, at) <=> HeardBefore(out, m, e, at)
  BY <1>3 DEF HeardBefore
<1>6. \A e, at : HeardBefore(out, n + 1, e, at) <=> Heard(out, e, at)
  BY <1>3 DEF HeardBefore, Heard
<1> QED
  BY <1>1, <1>2, <1>4, <1>5, <1>6

LEMMA FramedAppended ==
  ASSUME NEW out \in Seq(Events), NEW x \in Events, Framed(out), x.e # "completed",
         x.e = "added" => ~Heard(out, "added", x.at),
         x.e # "added" => Heard(out, "added", x.at) /\ ~Heard(out, "done", x.at)
  PROVE  Framed(Append(out, x))
<1>1. PICK told : told = Append(out, x)
  OBVIOUS
<1>2. PICK n \in Nat : n = Len(out)
  OBVIOUS
<1>3. /\ DOMAIN out = 1 .. n /\ DOMAIN told = 1 .. n + 1 /\ told[n + 1] = x
      /\ \A k \in 1 .. n : told[k] = out[k]
  BY <1>1, <1>2, EventAppended
<1>4. \A e, at : \A m \in 1 .. n + 1 : HeardBefore(told, m, e, at) <=> HeardBefore(out, m, e, at)
  BY <1>1, <1>2, HeardAppended
<1>5. \A e, at : HeardBefore(out, n + 1, e, at) <=> Heard(out, e, at)
  BY <1>2, HeardAppended
<1>6. ASSUME NEW k \in 1 .. n + 1
      PROVE  /\ told[k].e # "completed"
             /\ told[k].e = "added" => ~HeardBefore(told, k, "added", told[k].at)
             /\ told[k].e # "added" => /\ HeardBefore(told, k, "added", told[k].at)
                                       /\ ~HeardBefore(told, k, "done", told[k].at)
  <2>1. CASE k = n + 1
    BY <1>3, <1>4, <1>5, <2>1
  <2>2. CASE k # n + 1
    <3>1. k \in 1 .. n
      BY <2>2
    <3> QED
      BY <1>3, <1>4, <3>1 DEF Framed
  <2> QED
    BY <2>1, <2>2
<1> QED
  BY <1>1, <1>3, <1>6 DEF Framed

\* An item is announced at the next index, and is open.
LEMMA AddedHolds ==
  ASSUME NEW out \in Seq(Events), NEW next \in Nat, NEW open, Holds(out, next, open),
         NEW of \in Owners, NEW o, o[3] = next
  PROVE  Holds(Append(out, T!Added(of, next)), next + 1, open \cup {o})
<1>1. PICK x : x = T!Added(of, next)
  OBVIOUS
<1>2. x \in Events /\ x.e = "added" /\ x.at = next
  BY <1>1 DEF T!Added, Events, EventKinds, Texts
<1>3. PICK told : told = Append(out, x)
  OBVIOUS
<1>4. \A e, at : Heard(told, e, at) <=> Heard(out, e, at) \/ (x.e = e /\ x.at = at)
  BY <1>2, <1>3, HeardAppended
<1>5. PICK n \in Nat : n = Len(out)
  OBVIOUS
<1>6. /\ DOMAIN out = 1 .. n /\ DOMAIN told = 1 .. n + 1 /\ told[n + 1] = x
      /\ \A k \in 1 .. n : told[k] = out[k] /\ out[k].at \in Nat
  BY <1>2, <1>3, <1>5, EventAppended
<1>7. \A e : ~Heard(out, e, next)
  BY <1>6 DEF Holds, Heard
<1>8. Framed(told)
  BY <1>2, <1>3, <1>7, FramedAppended DEF Holds
<1>9. \A k \in DOMAIN told : told[k].at < next + 1
  BY <1>2, <1>6 DEF Holds
<1>10. \A k \in DOMAIN told :
         Heard(told, "done", told[k].at) \/ \E p \in open \cup {o} : p[3] = told[k].at
  BY <1>2, <1>4, <1>6 DEF Holds
<1>11. \A p \in open \cup {o} : Heard(told, "added", p[3]) /\ ~Heard(told, "done", p[3])
  BY <1>2, <1>4, <1>7 DEF Holds
<1>12. \A p \in open : p[3] # next
  BY <1>7 DEF Holds
<1>13. \A p, q \in open \cup {o} : p[3] = q[3] => p = q
  BY <1>12 DEF Holds
<1>14. Holds(told, next + 1, open \cup {o})
  BY <1>8, <1>9, <1>10, <1>11, <1>13 DEF Holds
<1> QED
  BY <1>1, <1>3, <1>14

\* An open item says something more.
LEMMA DeltaHolds ==
  ASSUME NEW out \in Seq(Events), NEW next \in Nat, NEW open, Holds(out, next, open),
         NEW of \in Owners, NEW o \in open, o[3] \in Nat, NEW text \in Texts
  PROVE  Holds(Append(out, T!Delta(of, o[3], text)), next, open)
<1>1. PICK x : x = T!Delta(of, o[3], text)
  OBVIOUS
<1>2. x \in Events /\ x.e = "delta" /\ x.at = o[3]
  BY <1>1 DEF T!Delta, Events, EventKinds
<1>3. PICK told : told = Append(out, x)
  OBVIOUS
<1>4. \A e, at : Heard(told, e, at) <=> Heard(out, e, at) \/ (x.e = e /\ x.at = at)
  BY <1>2, <1>3, HeardAppended
<1>5. PICK n \in Nat : n = Len(out)
  OBVIOUS
<1>6. /\ DOMAIN out = 1 .. n /\ DOMAIN told = 1 .. n + 1 /\ told[n + 1] = x
      /\ \A k \in 1 .. n : told[k] = out[k] /\ out[k].at \in Nat
  BY <1>2, <1>3, <1>5, EventAppended
<1>7. Framed(told)
  BY <1>2, <1>3, FramedAppended DEF Holds
<1>8. o[3] < next
  BY <1>6 DEF Holds, Heard
<1>9. \A k \in DOMAIN told : told[k].at < next
  BY <1>2, <1>6, <1>8 DEF Holds
<1>10. \A k \in DOMAIN told :
         Heard(told, "done", told[k].at) \/ \E p \in open : p[3] = told[k].at
  BY <1>2, <1>4, <1>6 DEF Holds
<1>11. \A p \in open : Heard(told, "added", p[3]) /\ ~Heard(told, "done", p[3])
  BY <1>2, <1>4 DEF Holds
<1>12. \A p, q \in open : p[3] = q[3] => p = q
  BY DEF Holds
<1>13. Holds(told, next, open)
  BY <1>7, <1>9, <1>10, <1>11, <1>12 DEF Holds
<1> QED
  BY <1>1, <1>3, <1>13

\* An open item ends.
LEMMA DoneHolds ==
  ASSUME NEW out \in Seq(Events), NEW next \in Nat, NEW open, Holds(out, next, open),
         NEW of \in Owners, NEW o \in open, o[3] \in Nat, NEW text \in Texts
  PROVE  Holds(Append(out, T!Done(of, o[3], text)), next, open \ {o})
<1>1. PICK x : x = T!Done(of, o[3], text)
  OBVIOUS
<1>2. x \in Events /\ x.e = "done" /\ x.at = o[3]
  BY <1>1 DEF T!Done, Events, EventKinds
<1>3. PICK told : told = Append(out, x)
  OBVIOUS
<1>4. \A e, at : Heard(told, e, at) <=> Heard(out, e, at) \/ (x.e = e /\ x.at = at)
  BY <1>2, <1>3, HeardAppended
<1>5. PICK n \in Nat : n = Len(out)
  OBVIOUS
<1>6. /\ DOMAIN out = 1 .. n /\ DOMAIN told = 1 .. n + 1 /\ told[n + 1] = x
      /\ \A k \in 1 .. n : told[k] = out[k] /\ out[k].at \in Nat
  BY <1>2, <1>3, <1>5, EventAppended
<1>7. Framed(told)
  BY <1>2, <1>3, FramedAppended DEF Holds
<1>8. o[3] < next
  BY <1>6 DEF Holds, Heard
<1>9. \A k \in DOMAIN told : told[k].at < next
  BY <1>2, <1>6, <1>8 DEF Holds
<1>10. \A k \in DOMAIN told :
         Heard(told, "done", told[k].at) \/ \E p \in open \ {o} : p[3] = told[k].at
  BY <1>2, <1>4, <1>6 DEF Holds
<1>11. \A p \in open \ {o} : Heard(told, "added", p[3]) /\ ~Heard(told, "done", p[3])
  BY <1>2, <1>4 DEF Holds
<1>12. \A p, q \in open \ {o} : p[3] = q[3] => p = q
  BY DEF Holds
<1>13. Holds(told, next, open \ {o})
  BY <1>7, <1>9, <1>10, <1>11, <1>12 DEF Holds
<1> QED
  BY <1>1, <1>3, <1>13


-----------------------------------------------------------------------------
(* The state of a stream, and how it goes on.                                *)

Dsmls == [inside : BOOLEAN, suppress : BOOLEAN, hold : Texts]
Scans == [inside : BOOLEAN, hold : Texts]
Reasonings == [open : BOOLEAN, at : Nat]
Messages == [open : BOOLEAN, at : Nat, text : Texts]
Tools == [at : Nat, started : BOOLEAN, args : Texts]
Tables == UNION {[D -> Tools] : D \in Bounds}
States == [dsml : Dsmls, scan : Scans, reasoning : Reasonings, chat : BOOLEAN,
           message : Messages, next : Nat, tools : Tables, leak : Texts, nextLeak : Nat,
           leaked : SUBSET Nat, completed : BOOLEAN, out : Seq(Events)]

\* The items that are open, <<kind, number of the call, index>>.
OpenThought(st) == IF st.reasoning.open THEN {<<"reasoning", 0, st.reasoning.at>>} ELSE {}
OpenMessage(st) == IF st.message.open THEN {<<"message", 0, st.message.at>>} ELSE {}
OpenCalls(st) == {<<"call", i, st.tools[i].at>> : i \in {j \in DOMAIN st.tools : st.tools[j].started}}
Open(st) == OpenThought(st) \cup OpenMessage(st) \cup OpenCalls(st)

Good(st) == Holds(st.out, st.next, Open(st))

\* What text, of whatever kind, makes of a state: native calls stay as they are, new calls
\* have leaked, and what is told stays well framed.
Further(st, a) ==
  /\ a.chat = st.chat /\ a.completed = st.completed
  /\ st.leaked \subseteq a.leaked
  /\ \A i \in DOMAIN st.tools : i \in DOMAIN a.tools /\ a.tools[i] = st.tools[i]
  /\ \A i \in DOMAIN a.tools : i \in DOMAIN st.tools \/ i \in a.leaked
  /\ st.chat /\ Good(st) => Good(a)
Goes(st) == {a \in States : Further(st, a)}

LEMMA Onwards ==
  ASSUME NEW st \in States
  PROVE  /\ st \in Goes(st)
         /\ \A a \in Goes(st) : a \in States /\ Goes(a) \subseteq Goes(st)
<1>1. Further(st, st)
  BY DEF Further
<1>2. ASSUME NEW a \in States, NEW b \in States, Further(st, a), Further(a, b)
      PROVE  Further(st, b)
  BY <1>2 DEF Further
<1> QED
  BY <1>1, <1>2 DEF Goes

\* A step that tells nothing and opens nothing.
LEMMA QuietGoes ==
  ASSUME NEW st \in States, NEW a \in States,
         a.chat = st.chat, a.completed = st.completed, a.out = st.out, a.next = st.next,
         a.tools = st.tools, a.leaked = st.leaked, a.reasoning = st.reasoning,
         a.message.open = st.message.open, a.message.at = st.message.at
  PROVE  a \in Goes(st)
<1>1. Open(a) = Open(st)
  BY DEF Open, OpenThought, OpenMessage, OpenCalls
<1>2. Good(st) => Good(a)
  BY <1>1 DEF Good
<1> QED
  BY <1>2 DEF Goes, Further

LEMMA Shape ==
  ASSUME NEW st \in States
  PROVE  /\ st.reasoning.open \in BOOLEAN /\ st.reasoning.at \in Nat
         /\ st.message.open \in BOOLEAN /\ st.message.at \in Nat /\ st.message.text \in Texts
         /\ st.next \in Nat /\ st.out \in Seq(Events) /\ st.leak \in Texts
         /\ st.nextLeak \in Nat /\ st.leaked \in SUBSET Nat /\ st.chat \in BOOLEAN
         /\ st.completed \in BOOLEAN /\ st.dsml \in Dsmls /\ st.scan \in Scans
         /\ st.tools \in Tables
  BY DEF States, Reasonings, Messages

LEMMA EmptyText == <<>> \in Texts
  BY DEF Texts

\* What an event is made of.
LEMMA EventShape ==
  ASSUME NEW of \in Owners, NEW at \in Nat, NEW text \in Texts
  PROVE  /\ T!Added(of, at) \in Events /\ T!Delta(of, at, text) \in Events
         /\ T!Done(of, at, text) \in Events
  BY EmptyText DEF T!Added, T!Delta, T!Done, Events, EventKinds

LEMMA CloseReasoningGoes ==
  ASSUME NEW st \in States
  PROVE  LET a == T!CloseReasoning(st) IN
         /\ a \in Goes(st) /\ ~a.reasoning.open
         /\ a.tools = st.tools /\ a.leaked = st.leaked /\ a.message = st.message
         /\ ~st.reasoning.open => a = st
<1>0. PICK a : a = T!CloseReasoning(st)
  OBVIOUS
<1>1. CASE ~st.reasoning.open
  <2>1. a = st
    BY <1>0, <1>1 DEF T!CloseReasoning
  <2>2. st \in Goes(st)
    BY Onwards
  <2> QED
    BY <1>0, <1>1, <2>1, <2>2
<1>2. CASE st.reasoning.open
  <2>2. PICK x : x = T!Done("reasoning", st.reasoning.at, <<>>)
    OBVIOUS
  <2>3. x \in Events
    BY <2>2, Shape, EmptyText, EventShape DEF Owners
  <2>4. a = [[st EXCEPT !.out = Append(@, x)] EXCEPT !.reasoning.open = FALSE]
    BY <1>0, <1>2, <2>2 DEF T!CloseReasoning, T!Emit
  <2>5. Append(st.out, x) \in Seq(Events)
    BY <2>3, Shape, EventAppended
  <2>6. /\ a \in States /\ a.out = Append(st.out, x) /\ a.next = st.next /\ ~a.reasoning.open
        /\ a.chat = st.chat /\ a.completed = st.completed /\ a.tools = st.tools
        /\ a.leaked = st.leaked /\ a.message = st.message
    BY <2>4, <2>5 DEF States, Reasonings
  <2>7. PICK o : o = <<"reasoning", 0, st.reasoning.at>>
    OBVIOUS
  <2>8. o \in Open(st) /\ o[3] = st.reasoning.at /\ Open(a) = Open(st) \ {o}
    BY <1>2, <2>6, <2>7 DEF Open, OpenThought, OpenMessage, OpenCalls
  <2>9. ASSUME Good(st) PROVE Good(a)
    <3>1. Holds(st.out, st.next, Open(st)) /\ o[3] \in Nat /\ st.out \in Seq(Events)
          /\ st.next \in Nat
      BY <2>8, <2>9, Shape DEF Good
    <3>2. Holds(Append(st.out, T!Done("reasoning", o[3], <<>>)), st.next, Open(st) \ {o})
      BY <2>8, <3>1, EmptyText, DoneHolds DEF Owners
    <3> QED
      BY <2>2, <2>6, <2>8, <3>2 DEF Good
  <2> QED
    BY <1>0, <2>6, <2>9, <1>2 DEF Goes, Further
<1> QED
  BY <1>1, <1>2, Shape


\* An open item says something more.
LEMMA DeltaGoes ==
  ASSUME NEW st \in States, NEW o \in Open(st), o[3] \in Nat, NEW of \in Owners,
         NEW text \in Texts, NEW a \in States,
         a.out = Append(st.out, T!Delta(of, o[3], text)),
         a.chat = st.chat, a.completed = st.completed, a.next = st.next,
         a.tools = st.tools, a.leaked = st.leaked, a.reasoning = st.reasoning,
         a.message.open = st.message.open, a.message.at = st.message.at
  PROVE  a \in Goes(st)
<1>1. Open(a) = Open(st)
  BY DEF Open, OpenThought, OpenMessage, OpenCalls
<1>2. ASSUME Good(st) PROVE Good(a)
  <2>1. Holds(st.out, st.next, Open(st)) /\ st.out \in Seq(Events) /\ st.next \in Nat
    BY <1>2, Shape DEF Good
  <2>2. Holds(Append(st.out, T!Delta(of, o[3], text)), st.next, Open(st))
    BY <2>1, DeltaHolds
  <2> QED
    BY <1>1, <2>2 DEF Good
<1> QED
  BY <1>2 DEF Goes, Further

LEMMA EnsureReasoningOpenGoes ==
  ASSUME NEW st \in States
  PROVE  LET a == T!EnsureReasoningOpen(st) IN
         a \in Goes(st) /\ a.reasoning.open /\ a.tools = st.tools /\ a.leaked = st.leaked
<1>0. PICK a : a = T!EnsureReasoningOpen(st)
  OBVIOUS
<1>1. CASE st.reasoning.open
  <2>1. a = st
    BY <1>0, <1>1 DEF T!EnsureReasoningOpen
  <2>2. st \in Goes(st)
    BY Onwards
  <2> QED
    BY <1>0, <1>1, <2>1, <2>2
<1>2. CASE ~st.reasoning.open
  <2>1. PICK at : at = IF st.chat THEN st.next ELSE 0
    OBVIOUS
  <2>2. at \in Nat /\ (st.chat => at = st.next)
    BY <2>1, Shape
  <2>3. PICK x : x = T!Added("reasoning", at)
    OBVIOUS
  <2>4. x \in Events
    BY <2>2, <2>3, EmptyText, EventShape DEF Owners
  <2>r. PICK r : r = [open |-> TRUE, at |-> at]
    OBVIOUS
  <2>n. PICK n : n = IF st.chat THEN st.next + 1 ELSE st.next
    OBVIOUS
  <2>5. a = [[st EXCEPT !.out = Append(@, x)] EXCEPT !.reasoning = r, !.next = n]
    BY <1>0, <1>2, <2>1, <2>3, <2>r, <2>n DEF T!EnsureReasoningOpen, T!Emit, States
  <2>6. Append(st.out, x) \in Seq(Events) /\ r \in Reasonings /\ n \in Nat
        /\ r.open /\ r.at = at
    BY <2>2, <2>4, <2>r, <2>n, Shape, EventAppended DEF Reasonings
  <2>7. /\ a \in States /\ a.out = Append(st.out, x) /\ a.reasoning.open /\ a.reasoning.at = at
        /\ a.next = n
        /\ a.chat = st.chat /\ a.completed = st.completed /\ a.tools = st.tools
        /\ a.leaked = st.leaked /\ a.message = st.message
    BY <2>5, <2>6 DEF States
  <2>8. PICK o : o = <<"reasoning", 0, at>>
    OBVIOUS
  <2>9. o[3] = at /\ Open(a) = Open(st) \cup {o}
    BY <1>2, <2>7, <2>8 DEF Open, OpenThought, OpenMessage, OpenCalls
  <2>10. ASSUME Good(st), st.chat PROVE Good(a)
    <3>1. Holds(st.out, st.next, Open(st)) /\ o[3] = st.next /\ st.out \in Seq(Events)
          /\ st.next \in Nat
      BY <2>2, <2>9, <2>10, Shape DEF Good
    <3>2. Holds(Append(st.out, T!Added("reasoning", st.next)), st.next + 1, Open(st) \cup {o})
      BY <3>1, AddedHolds DEF Owners
    <3>3. a.next = st.next + 1 /\ x = T!Added("reasoning", st.next)
      BY <2>2, <2>3, <2>n, <2>7, <2>10
    <3> QED
      BY <2>7, <2>9, <3>2, <3>3 DEF Good
  <2>11. a \in Goes(st)
    BY <2>7, <2>10 DEF Goes, Further
  <2> QED
    BY <1>0, <2>7, <2>11
<1> QED
  BY <1>1, <1>2, Shape

LEMMA EmitThinkDeltaGoes ==
  ASSUME NEW st \in States, NEW text \in Texts
  PROVE  T!EmitThinkDelta(st, text) \in Goes(st)
<1>1. CASE text = <<>>
  BY <1>1, Onwards DEF T!EmitThinkDelta
<1>2. CASE text # <<>>
  <2>1. PICK b : b = T!EnsureReasoningOpen(st)
    OBVIOUS
  <2>2. b \in Goes(st) /\ b \in States /\ b.reasoning.open /\ Goes(b) \subseteq Goes(st)
    BY <2>1, EnsureReasoningOpenGoes, Onwards
  <2>3. PICK x : x = T!Delta("reasoning", b.reasoning.at, text)
    OBVIOUS
  <2>4. b.reasoning.at \in Nat /\ x \in Events
    BY <2>2, <2>3, Shape, EventShape DEF Owners
  <2>5. PICK a : a = T!EmitThinkDelta(st, text)
    OBVIOUS
  <2>6. a = [b EXCEPT !.out = Append(@, x)]
    BY <1>2, <2>1, <2>3, <2>5 DEF T!EmitThinkDelta, T!Emit
  <2>7. Append(b.out, x) \in Seq(Events)
    BY <2>2, <2>4, Shape, EventAppended
  <2>8. /\ a \in States /\ a.out = Append(b.out, x) /\ a.next = b.next
        /\ a.chat = b.chat /\ a.completed = b.completed /\ a.tools = b.tools
        /\ a.leaked = b.leaked /\ a.message = b.message /\ a.reasoning = b.reasoning
    BY <2>2, <2>6, <2>7 DEF States
  <2>9. PICK o : o = <<"reasoning", 0, b.reasoning.at>>
    OBVIOUS
  <2>10. o \in Open(b) /\ o[3] = b.reasoning.at
    BY <2>2, <2>9 DEF Open, OpenThought
  <2>11. a.out = Append(b.out, T!Delta("reasoning", o[3], text)) /\ o[3] \in Nat
    BY <2>3, <2>4, <2>8, <2>10
  <2>12. "reasoning" \in Owners
    BY DEF Owners
  <2>13. a \in Goes(b)
    BY <2>2, <2>8, <2>10, <2>11, <2>12, DeltaGoes
  <2> QED
    BY <2>2, <2>5, <2>13
<1> QED
  BY <1>1, <1>2

LEMMA CloseChatMessageGoes ==
  ASSUME NEW st \in States
  PROVE  LET a == T!CloseChatMessage(st) IN
         /\ a \in Goes(st) /\ ~a.message.open
         /\ a.tools = st.tools /\ a.leaked = st.leaked /\ a.reasoning = st.reasoning
<1>0. PICK a : a = T!CloseChatMessage(st)
  OBVIOUS
<1>1. CASE ~st.message.open
  <2>1. a = st
    BY <1>0, <1>1 DEF T!CloseChatMessage
  <2>2. st \in Goes(st)
    BY Onwards
  <2> QED
    BY <1>0, <1>1, <2>1, <2>2
<1>2. CASE st.message.open
  <2>2. PICK x : x = T!Done("message", st.message.at, st.message.text)
    OBVIOUS
  <2>3. x \in Events
    BY <2>2, Shape, EventShape DEF Owners
  <2>4. a = [[st EXCEPT !.out = Append(@, x)] EXCEPT !.message.open = FALSE]
    BY <1>0, <1>2, <2>2 DEF T!CloseChatMessage, T!Emit
  <2>5. Append(st.out, x) \in Seq(Events)
    BY <2>3, Shape, EventAppended
  <2>6. /\ a \in States /\ a.out = Append(st.out, x) /\ a.next = st.next /\ ~a.message.open
        /\ a.chat = st.chat /\ a.completed = st.completed /\ a.tools = st.tools
        /\ a.leaked = st.leaked /\ a.reasoning = st.reasoning
    BY <2>4, <2>5 DEF States, Messages
  <2>7. PICK o : o = <<"message", 0, st.message.at>>
    OBVIOUS
  <2>8. o \in Open(st) /\ o[3] = st.message.at /\ Open(a) = Open(st) \ {o}
    BY <1>2, <2>6, <2>7 DEF Open, OpenThought, OpenMessage, OpenCalls
  <2>9. ASSUME Good(st) PROVE Good(a)
    <3>1. Holds(st.out, st.next, Open(st)) /\ o[3] \in Nat /\ st.out \in Seq(Events)
          /\ st.next \in Nat /\ st.message.text \in Texts
      BY <2>8, <2>9, Shape DEF Good
    <3>2. Holds(Append(st.out, T!Done("message", o[3], st.message.text)), st.next, Open(st) \ {o})
      BY <2>8, <3>1, DoneHolds DEF Owners
    <3> QED
      BY <2>2, <2>6, <2>8, <3>2 DEF Good
  <2>10. a \in Goes(st)
    BY <2>6, <2>9 DEF Goes, Further
  <2> QED
    BY <1>0, <2>6, <2>10
<1> QED
  BY <1>1, <1>2, Shape


LEMMA Together ==
  ASSUME NEW a \in Texts, NEW b \in Texts
  PROVE  a \o b \in Texts
  BY DEF Texts

\* The message is opened when there is text and none is open.
Spoken(st) == IF st.message.open THEN st
              ELSE [T!Emit(st, T!Added("message", st.next)) EXCEPT
                      !.message.open = TRUE, !.message.at = st.next, !.next = @ + 1]

LEMMA SpokenGoes ==
  ASSUME NEW st \in States
  PROVE  LET a == Spoken(st) IN
         /\ a \in Goes(st) /\ a.message.open
         /\ a.tools = st.tools /\ a.leaked = st.leaked /\ a.reasoning = st.reasoning
<1>0. PICK a : a = Spoken(st)
  OBVIOUS
<1>1. CASE st.message.open
  <2>1. a = st
    BY <1>0, <1>1 DEF Spoken
  <2>2. st \in Goes(st)
    BY Onwards
  <2> QED
    BY <1>0, <1>1, <2>1, <2>2
<1>2. CASE ~st.message.open
  <2>1. PICK n \in Nat : n = st.next
    BY Shape
  <2>2. PICK x : x = T!Added("message", n)
    OBVIOUS
  <2>3. x \in Events
    BY <2>2, EmptyText, EventShape DEF Owners
  <2>4. PICK m : m = [[st.message EXCEPT !.open = TRUE] EXCEPT !.at = n]
    OBVIOUS
  <2>5. m \in Messages /\ m.open /\ m.at = n
    BY <2>1, <2>4 DEF Messages, States
  <2>k. PICK k \in Nat : k = n + 1
    OBVIOUS
  <2>6. a = [[st EXCEPT !.out = Append(@, x)] EXCEPT !.message = m, !.next = k]
    BY <1>0, <1>2, <2>1, <2>2, <2>4, <2>k DEF Spoken, T!Emit, States, Messages
  <2>7. Append(st.out, x) \in Seq(Events)
    BY <2>3, Shape, EventAppended
  <2>8. /\ a \in States /\ a.out = Append(st.out, x) /\ a.message = m /\ a.next = k
        /\ a.chat = st.chat /\ a.completed = st.completed /\ a.tools = st.tools
        /\ a.leaked = st.leaked /\ a.reasoning = st.reasoning
    BY <2>5, <2>6, <2>7 DEF States
  <2>9. PICK o : o = <<"message", 0, n>>
    OBVIOUS
  <2>10. o[3] = n /\ Open(a) = Open(st) \cup {o}
    BY <1>2, <2>5, <2>8, <2>9 DEF Open, OpenThought, OpenMessage, OpenCalls
  <2>11. ASSUME Good(st) PROVE Good(a)
    <3>1. Holds(st.out, n, Open(st)) /\ st.out \in Seq(Events)
      BY <2>1, <2>11, Shape DEF Good
    <3>2. Holds(Append(st.out, T!Added("message", n)), n + 1, Open(st) \cup {o})
      BY <2>10, <3>1, AddedHolds DEF Owners
    <3> QED
      BY <2>2, <2>8, <2>10, <2>k, <3>2 DEF Good
  <2>12. a \in Goes(st)
    BY <2>8, <2>11 DEF Goes, Further
  <2> QED
    BY <1>0, <2>5, <2>8, <2>12
<1> QED
  BY <1>1, <1>2, Shape

LEMMA EmitChatVisibleDeltaGoes ==
  ASSUME NEW st \in States, NEW text \in Texts
  PROVE  LET a == T!EmitChatVisibleDelta(st, text) IN
         /\ a \in Goes(st) /\ a.tools = st.tools /\ a.leaked = st.leaked
         /\ ~st.reasoning.open => ~a.reasoning.open
<1>0. PICK a : a = T!EmitChatVisibleDelta(st, text)
  OBVIOUS
<1>1. CASE text = <<>>
  <2>1. a = st
    BY <1>0, <1>1 DEF T!EmitChatVisibleDelta
  <2>2. st \in Goes(st)
    BY Onwards
  <2> QED
    BY <1>0, <1>1, <2>1, <2>2
<1>2. CASE text # <<>>
  <2>1. PICK c : c = T!CloseReasoning(st)
    OBVIOUS
  <2>2. c \in States /\ Goes(c) \subseteq Goes(st) /\ ~c.reasoning.open
        /\ c.tools = st.tools /\ c.leaked = st.leaked
    BY <2>1, CloseReasoningGoes, Onwards
  <2>3. PICK b : b = Spoken(c)
    OBVIOUS
  <2>4. b \in Goes(c) /\ b.message.open /\ b.tools = c.tools /\ b.leaked = c.leaked
        /\ b.reasoning = c.reasoning
    BY <2>2, <2>3, SpokenGoes
  <2>5. b \in States /\ Goes(b) \subseteq Goes(c)
    BY <2>2, <2>4, Onwards
  <2>6. PICK x : x = T!Delta("message", b.message.at, text)
    OBVIOUS
  <2>7. b.message.at \in Nat /\ x \in Events
    BY <2>5, <2>6, Shape, EventShape DEF Owners
  <2>8. PICK m : m = [b.message EXCEPT !.text = @ \o text]
    OBVIOUS
  <2>9. m \in Messages /\ m.open = b.message.open /\ m.at = b.message.at
    <3>1. b.message \in Messages /\ b.message.text \o text \in Texts
      BY <2>5, Shape, Together DEF States
    <3> QED
      BY <2>8, <3>1 DEF Messages
  <2>10. a = [[b EXCEPT !.out = Append(@, x)] EXCEPT !.message = m]
    <3>1. a = [T!Emit(b, x) EXCEPT !.message.text = @ \o text]
      BY <1>0, <1>2, <2>1, <2>3, <2>6 DEF T!EmitChatVisibleDelta, Spoken
    <3> QED
      BY <2>5, <2>8, <3>1 DEF T!Emit, States
  <2>11. Append(b.out, x) \in Seq(Events)
    BY <2>5, <2>7, Shape, EventAppended
  <2>12. /\ a \in States /\ a.out = Append(b.out, x) /\ a.message = m /\ a.next = b.next
         /\ a.chat = b.chat /\ a.completed = b.completed /\ a.tools = b.tools
         /\ a.leaked = b.leaked /\ a.reasoning = b.reasoning
    BY <2>5, <2>9, <2>10, <2>11 DEF States
  <2>13. PICK o : o = <<"message", 0, b.message.at>>
    OBVIOUS
  <2>14. o \in Open(b) /\ o[3] = b.message.at
    BY <2>4, <2>13 DEF Open, OpenMessage
  <2>15. /\ a.out = Append(b.out, T!Delta("message", o[3], text)) /\ o[3] \in Nat
         /\ a.message.open = b.message.open /\ a.message.at = b.message.at
    BY <2>6, <2>7, <2>9, <2>12, <2>14
  <2>16. "message" \in Owners
    BY DEF Owners
  <2>17. a \in Goes(b)
    BY <2>5, <2>12, <2>14, <2>15, <2>16, DeltaGoes
  <2> QED
    BY <1>0, <2>2, <2>4, <2>5, <2>12, <2>17
<1> QED
  BY <1>1, <1>2


-----------------------------------------------------------------------------
(* Tool calls.                                                               *)

LEMMA TableShape ==
  ASSUME NEW table
  PROVE  table \in Tables <=>
           /\ DOMAIN table \in Bounds /\ table = [i \in DOMAIN table |-> table[i]]
           /\ \A i \in DOMAIN table : table[i] \in Tools
<1>1. ASSUME table \in Tables
      PROVE  /\ DOMAIN table \in Bounds /\ table = [i \in DOMAIN table |-> table[i]]
             /\ \A i \in DOMAIN table : table[i] \in Tools
  <2>1. PICK D \in Bounds : table \in [D -> Tools]
    BY <1>1 DEF Tables
  <2> QED
    BY <2>1
<1>2. ASSUME DOMAIN table \in Bounds, table = [i \in DOMAIN table |-> table[i]],
             \A i \in DOMAIN table : table[i] \in Tools
      PROVE  table \in Tables
  <2>1. table \in [DOMAIN table -> Tools]
    BY <1>2
  <2> QED
    BY <1>2, <2>1 DEF Tables
<1> QED
  BY <1>1, <1>2

LEMMA BoundsGrow ==
  ASSUME NEW D \in Bounds, NEW i \in Nat
  PROVE  D \cup {i} \in Bounds
<1>1. PICK b \in Nat : \A n \in D : n <= b
  BY DEF Bounds
<1>2. D \in SUBSET Nat
  BY DEF Bounds
<1>3. PICK c \in Nat : c >= b /\ c >= i
  OBVIOUS
<1>4. \A n \in D \cup {i} : n <= c
  BY <1>1, <1>2, <1>3
<1> QED
  BY <1>2, <1>3, <1>4 DEF Bounds

\* The table in which a call has gone on.
Placed(table, index, t) ==
  [i \in DOMAIN table \cup {index} |-> IF i = index THEN t ELSE table[i]]

LEMMA PlacedShape ==
  ASSUME NEW table \in Tables, NEW index \in Nat, NEW t \in Tools
  PROVE  /\ Placed(table, index, t) \in Tables
         /\ DOMAIN Placed(table, index, t) = DOMAIN table \cup {index}
         /\ Placed(table, index, t)[index] = t
         /\ \A i \in DOMAIN table : i # index => Placed(table, index, t)[i] = table[i]
<1>1. PICK placed : placed = Placed(table, index, t)
  OBVIOUS
<1>2. DOMAIN table \in Bounds /\ \A i \in DOMAIN table : table[i] \in Tools
  BY TableShape
<1>3. DOMAIN table \cup {index} \in Bounds
  BY <1>2, BoundsGrow
<1>4. /\ DOMAIN placed = DOMAIN table \cup {index} /\ placed[index] = t
      /\ placed = [i \in DOMAIN placed |-> placed[i]]
      /\ \A i \in DOMAIN table : i # index => placed[i] = table[i]
  BY <1>1 DEF Placed
<1>5. \A i \in DOMAIN placed : placed[i] \in Tools
  BY <1>2, <1>4
<1>6. placed \in Tables
  BY <1>3, <1>4, <1>5, TableShape
<1> QED
  BY <1>1, <1>4, <1>6

\* What a delta of a call makes of the state: that call goes on, the others are as they were.
CallGoesOn(st, a, index, argument) ==
  /\ a \in States /\ a.chat = st.chat /\ a.completed = st.completed /\ a.leaked = st.leaked
  /\ DOMAIN a.tools = DOMAIN st.tools \cup {index}
  /\ \A i \in DOMAIN st.tools : i # index => a.tools[i] = st.tools[i]
  /\ a.tools[index].started
  /\ index \in DOMAIN st.tools => a.tools[index].args = st.tools[index].args \o argument
  /\ index \notin DOMAIN st.tools => a.tools[index].args = argument
  /\ Good(st) /\ st.chat /\ (index \in DOMAIN st.tools => st.tools[index].started) => Good(a)

\* A call that is announced in a quiet state, and one that is known there.
AddedCall(st, t) ==
  IF t.started THEN st
  ELSE [T!Emit(st, T!Added("call", t.at)) EXCEPT !.next = @ + 1]
ToldCall(st, t, argument) ==
  IF argument = <<>> THEN st ELSE T!Emit(st, T!Delta("call", t.at, argument))

LEMMA AddedCallShape ==
  ASSUME NEW st \in States, NEW t \in Tools
  PROVE  LET a == AddedCall(st, t) IN
         /\ a \in States /\ a.chat = st.chat /\ a.completed = st.completed
         /\ a.leaked = st.leaked /\ a.tools = st.tools
         /\ a.reasoning = st.reasoning /\ a.message = st.message
         /\ \A open, o : ~t.started /\ t.at = st.next /\ o[3] = t.at /\ Holds(st.out, st.next, open)
                           => Holds(a.out, a.next, open \cup {o})
         /\ t.started => a = st
<1>0. PICK a : a = AddedCall(st, t)
  OBVIOUS
<1>1. CASE t.started
  <2>1. a = st
    BY <1>0, <1>1 DEF AddedCall
  <2> QED
    BY <1>0, <1>1, <2>1
<1>2. CASE ~t.started
  <2>1. PICK at \in Nat : at = t.at
    BY DEF Tools
  <2>2. PICK x : x = T!Added("call", at)
    OBVIOUS
  <2>3. x \in Events
    BY <2>2, EmptyText, EventShape DEF Owners
  <2>4. st.next \in Nat /\ st.out \in Seq(Events)
    BY Shape
  <2>5. PICK k \in Nat : k = st.next + 1
    BY <2>4
  <2>6. Append(st.out, x) \in Seq(Events)
    BY <2>3, <2>4, EventAppended
  <2>7. a = [[st EXCEPT !.out = Append(@, x)] EXCEPT !.next = k]
    BY <1>0, <1>2, <2>1, <2>2, <2>5 DEF AddedCall, T!Emit, States
  <2>8. /\ a \in States /\ a.out = Append(st.out, x) /\ a.next = k
        /\ a.chat = st.chat /\ a.completed = st.completed /\ a.tools = st.tools
        /\ a.leaked = st.leaked /\ a.reasoning = st.reasoning /\ a.message = st.message
    BY <2>6, <2>7 DEF States
  <2>9. ASSUME NEW open, NEW o, t.at = st.next, o[3] = t.at, Holds(st.out, st.next, open)
        PROVE  Holds(a.out, a.next, open \cup {o})
    <3>1. Holds(Append(st.out, T!Added("call", st.next)), st.next + 1, open \cup {o})
      BY <2>4, <2>9, AddedHolds DEF Owners
    <3> QED
      BY <2>1, <2>2, <2>5, <2>8, <2>9, <3>1
  <2> QED
    BY <1>0, <1>2, <2>8, <2>9
<1> QED
  BY <1>1, <1>2 DEF Tools

LEMMA ToldCallShape ==
  ASSUME NEW st \in States, NEW t \in Tools, NEW argument \in Texts
  PROVE  LET a == ToldCall(st, t, argument) IN
         /\ a \in States /\ a.chat = st.chat /\ a.completed = st.completed
         /\ a.leaked = st.leaked /\ a.tools = st.tools /\ a.next = st.next
         /\ a.reasoning = st.reasoning /\ a.message = st.message
         /\ \A open : \A o \in open : o[3] = t.at /\ Holds(st.out, st.next, open)
                                       => Holds(a.out, a.next, open)
<1>0. PICK a : a = ToldCall(st, t, argument)
  OBVIOUS
<1>1. CASE argument = <<>>
  <2>1. a = st
    BY <1>0, <1>1 DEF ToldCall
  <2> QED
    BY <1>0, <2>1
<1>2. CASE argument # <<>>
  <2>1. PICK at \in Nat : at = t.at
    BY DEF Tools
  <2>2. PICK x : x = T!Delta("call", at, argument)
    OBVIOUS
  <2>3. x \in Events
    BY <2>2, EventShape DEF Owners
  <2>4. st.next \in Nat /\ st.out \in Seq(Events)
    BY Shape
  <2>5. Append(st.out, x) \in Seq(Events)
    BY <2>3, <2>4, EventAppended
  <2>6. a = [st EXCEPT !.out = Append(@, x)]
    BY <1>0, <1>2, <2>1, <2>2 DEF ToldCall, T!Emit
  <2>7. /\ a \in States /\ a.out = Append(st.out, x) /\ a.next = st.next
        /\ a.chat = st.chat /\ a.completed = st.completed /\ a.tools = st.tools
        /\ a.leaked = st.leaked /\ a.reasoning = st.reasoning /\ a.message = st.message
    BY <2>5, <2>6 DEF States
  <2>8. ASSUME NEW open, NEW o \in open, o[3] = t.at, Holds(st.out, st.next, open)
        PROVE  Holds(a.out, a.next, open)
    <3>1. o[3] \in Nat
      BY <2>1, <2>8
    <3>2. Holds(Append(st.out, T!Delta("call", o[3], argument)), st.next, open)
      BY <2>4, <2>8, <3>1, DeltaHolds DEF Owners
    <3> QED
      BY <2>1, <2>2, <2>7, <2>8, <3>2
  <2> QED
    BY <1>0, <2>7, <2>8
<1> QED
  BY <1>1, <1>2


\* What is open, when a call is placed in the table.
LEMMA OpenPlaced ==
  ASSUME NEW b \in States, NEW a \in States, NEW index \in Nat, NEW t \in Tools, t.started,
         a.tools = Placed(b.tools, index, t), a.reasoning = b.reasoning, a.message = b.message,
         index \in DOMAIN b.tools /\ b.tools[index].started => b.tools[index].at = t.at
  PROVE  Open(a) = Open(b) \cup {<<"call", index, t.at>>}
<1>1. /\ DOMAIN a.tools = DOMAIN b.tools \cup {index} /\ a.tools[index] = t
      /\ \A i \in DOMAIN b.tools : i # index => a.tools[i] = b.tools[i]
  <2>1. PICK q \in Tables : q = b.tools
    BY Shape
  <2>2. /\ DOMAIN Placed(q, index, t) = DOMAIN q \cup {index}
        /\ Placed(q, index, t)[index] = t
        /\ \A i \in DOMAIN q : i # index => Placed(q, index, t)[i] = q[i]
    BY PlacedShape
  <2> QED
    BY <2>1, <2>2
<1>2. OpenThought(a) = OpenThought(b) /\ OpenMessage(a) = OpenMessage(b)
  BY DEF OpenThought, OpenMessage
<1>3. OpenCalls(a) = OpenCalls(b) \cup {<<"call", index, t.at>>}
  <2>1. ASSUME NEW o \in OpenCalls(a) PROVE o \in OpenCalls(b) \cup {<<"call", index, t.at>>}
    <3>1. PICK i \in DOMAIN a.tools : a.tools[i].started /\ o = <<"call", i, a.tools[i].at>>
      BY <2>1 DEF OpenCalls
    <3>2. CASE i = index
      BY <1>1, <3>1, <3>2
    <3>3. CASE i # index
      <4>1. i \in DOMAIN b.tools /\ a.tools[i] = b.tools[i]
        BY <1>1, <3>1, <3>3
      <4> QED
        BY <3>1, <4>1 DEF OpenCalls
    <3> QED
      BY <3>2, <3>3
  <2>2. <<"call", index, t.at>> \in OpenCalls(a)
    BY <1>1 DEF OpenCalls
  <2>3. ASSUME NEW o \in OpenCalls(b) PROVE o \in OpenCalls(a)
    <3>1. PICK i \in DOMAIN b.tools : b.tools[i].started /\ o = <<"call", i, b.tools[i].at>>
      BY <2>3 DEF OpenCalls
    <3>2. CASE i = index
      <4>1. o = <<"call", index, t.at>>
        BY <3>1, <3>2
      <4> QED
        BY <2>2, <4>1
    <3>3. CASE i # index
      <4>1. i \in DOMAIN a.tools /\ a.tools[i] = b.tools[i]
        BY <1>1, <3>1, <3>3
      <4> QED
        BY <3>1, <4>1 DEF OpenCalls
    <3> QED
      BY <3>2, <3>3
  <2> QED
    BY <2>1, <2>2, <2>3
<1> QED
  BY <1>2, <1>3 DEF Open

LEMMA EmitChatToolDeltaShape ==
  ASSUME NEW st \in States, NEW index \in Nat, NEW argument \in Texts
  PROVE  CallGoesOn(st, T!EmitChatToolDelta(st, index, argument), index, argument)
<1>1. PICK c : c = T!CloseReasoning(st)
  OBVIOUS
<1>2. c \in Goes(st) /\ c \in States /\ Goes(c) \subseteq Goes(st)
      /\ c.tools = st.tools /\ c.leaked = st.leaked
  BY <1>1, CloseReasoningGoes, Onwards
<1>3. PICK b : b = T!CloseChatMessage(c)
  OBVIOUS
<1>4. b \in States /\ Further(st, b) /\ b.tools = st.tools /\ b.leaked = st.leaked
  BY <1>2, <1>3, CloseChatMessageGoes DEF Goes
<1>5. PICK t : t = IF index \in DOMAIN b.tools THEN b.tools[index] ELSE T!FreshTool(b.next)
  OBVIOUS
<1>6. /\ t \in Tools
      /\ index \in DOMAIN b.tools => t = b.tools[index]
      /\ index \notin DOMAIN b.tools => ~t.started /\ t.at = b.next /\ t.args = <<>>
  <2>1. b.next \in Nat /\ \A i \in DOMAIN b.tools : b.tools[i] \in Tools
    BY <1>4, Shape, TableShape
  <2>2. T!FreshTool(b.next) \in Tools
    BY <2>1, EmptyText DEF T!FreshTool, Tools
  <2> QED
    BY <1>5, <2>1, <2>2 DEF T!FreshTool
<1>7. PICK d : d = AddedCall(b, t)
  OBVIOUS
<1>8. /\ d \in States /\ d.chat = b.chat /\ d.completed = b.completed
      /\ d.leaked = b.leaked /\ d.tools = b.tools
      /\ d.reasoning = b.reasoning /\ d.message = b.message
      /\ \A open, o : ~t.started /\ t.at = b.next /\ o[3] = t.at /\ Holds(b.out, b.next, open)
                        => Holds(d.out, d.next, open \cup {o})
      /\ t.started => d = b
  BY <1>4, <1>6, <1>7, AddedCallShape
<1>9. PICK e : e = ToldCall(d, t, argument)
  OBVIOUS
<1>10. /\ e \in States /\ e.chat = d.chat /\ e.completed = d.completed
       /\ e.leaked = d.leaked /\ e.tools = d.tools /\ e.next = d.next
       /\ e.reasoning = d.reasoning /\ e.message = d.message
       /\ \A open : \A o \in open : o[3] = t.at /\ Holds(d.out, d.next, open)
                                     => Holds(e.out, e.next, open)
  BY <1>6, <1>8, <1>9, ToldCallShape
<1>11. PICK u : u = [[t EXCEPT !.started = TRUE] EXCEPT !.args = @ \o argument]
  OBVIOUS
<1>12. u \in Tools /\ u.started /\ u.at = t.at /\ u.args = t.args \o argument
  <2>1. t.args \in Texts /\ t.args \o argument \in Texts
    BY <1>6, Together DEF Tools
  <2> QED
    BY <1>6, <1>11, <2>1 DEF Tools
<1>13. PICK a : a = T!EmitChatToolDelta(st, index, argument)
  OBVIOUS
<1>14. PICK table : table = Placed(b.tools, index, u)
  OBVIOUS
<1>15. a = [e EXCEPT !.tools = table]
  <2>1. a = [e EXCEPT !.tools = [i \in DOMAIN @ \cup {index} |->
                                   IF i = index
                                   THEN [t EXCEPT !.started = TRUE, !.args = @ \o argument]
                                   ELSE @[i]]]
    <3>1. b = T!CloseChatMessage(T!CloseReasoning(st))
      BY <1>1, <1>3
    <3>2. e = ToldCall(AddedCall(b, t), t, argument)
      BY <1>7, <1>9
    <3> QED
      BY <1>5, <1>13, <3>1, <3>2, ZenonT(60) DEF T!EmitChatToolDelta, AddedCall, ToldCall
  <2>2. u = [t EXCEPT !.started = TRUE, !.args = @ \o argument]
    BY <1>6, <1>11 DEF Tools
  <2>3. a = [e EXCEPT !.tools = [i \in DOMAIN @ \cup {index} |-> IF i = index THEN u ELSE @[i]]]
    BY <2>1, <2>2
  <2>4. e.tools = b.tools
    BY <1>8, <1>10
  <2> QED
    BY <1>10, <1>14, <2>3, <2>4 DEF Placed, States
<1>16. /\ table \in Tables /\ DOMAIN table = DOMAIN b.tools \cup {index} /\ table[index] = u
       /\ \A i \in DOMAIN b.tools : i # index => table[i] = b.tools[i]
  <2>1. PICK q \in Tables : q = b.tools
    BY <1>4, Shape
  <2>2. /\ Placed(q, index, u) \in Tables /\ DOMAIN Placed(q, index, u) = DOMAIN q \cup {index}
        /\ Placed(q, index, u)[index] = u
        /\ \A i \in DOMAIN q : i # index => Placed(q, index, u)[i] = q[i]
    <3>1. u \in Tools
      BY <1>12
    <3> QED
      BY <3>1, PlacedShape
  <2> QED
    BY <1>14, <2>1, <2>2
<1>17. /\ a \in States /\ a.chat = e.chat /\ a.completed = e.completed /\ a.leaked = e.leaked
       /\ a.next = e.next /\ a.out = e.out /\ a.tools = table
       /\ a.reasoning = e.reasoning /\ a.message = e.message
  BY <1>10, <1>15, <1>16 DEF States
<1>18. ASSUME Good(st), st.chat, index \in DOMAIN st.tools => st.tools[index].started
       PROVE  Good(a)
  <2>1. Holds(b.out, b.next, Open(b))
    BY <1>4, <1>18 DEF Further, Good
  <2>2. PICK o : o = <<"call", index, t.at>>
    OBVIOUS
  <2>3. o[3] = t.at
    BY <2>2
  <2>4. a.reasoning = b.reasoning /\ a.message = b.message
    BY <1>8, <1>10, <1>17
  <2>5. index \in DOMAIN b.tools /\ b.tools[index].started => b.tools[index].at = u.at
    BY <1>6, <1>12
  <2>6. Open(a) = Open(b) \cup {o}
    <3>1. Open(a) = Open(b) \cup {<<"call", index, u.at>>}
      BY <1>4, <1>12, <1>14, <1>17, <2>4, <2>5, OpenPlaced
    <3> QED
      BY <1>12, <2>2, <3>1
  <2>7. Holds(d.out, d.next, Open(a))
    <3>1. CASE index \in DOMAIN b.tools
      <4>1. t = b.tools[index] /\ t.started
        BY <1>4, <1>6, <1>18, <3>1
      <4>2. o \in Open(b)
        BY <2>2, <3>1, <4>1 DEF Open, OpenCalls
      <4>3. Open(a) = Open(b) /\ d = b
        BY <1>8, <2>6, <4>1, <4>2
      <4> QED
        BY <2>1, <4>3
    <3>2. CASE index \notin DOMAIN b.tools
      BY <1>6, <1>8, <2>1, <2>3, <2>6, <3>2
    <3> QED
      BY <3>1, <3>2
  <2>8. o \in Open(a)
    BY <2>6
  <2>9. Holds(e.out, e.next, Open(a))
    BY <1>10, <2>3, <2>7, <2>8
  <2> QED
    BY <1>17, <2>9 DEF Good
<1>19. <<>> \o argument = argument
  BY DEF Texts
<1>20. /\ a.chat = st.chat /\ a.completed = st.completed /\ a.leaked = st.leaked
       /\ DOMAIN a.tools = DOMAIN st.tools \cup {index}
       /\ \A i \in DOMAIN st.tools : i # index => a.tools[i] = st.tools[i]
       /\ a.tools[index] = u
  BY <1>4, <1>8, <1>10, <1>16, <1>17 DEF Further
<1>21. /\ index \in DOMAIN st.tools => a.tools[index].args = st.tools[index].args \o argument
       /\ index \notin DOMAIN st.tools => a.tools[index].args = argument
  BY <1>4, <1>6, <1>12, <1>19, <1>20
<1> QED
  BY <1>12, <1>13, <1>17, <1>18, <1>20, <1>21 DEF CallGoesOn


LEMMA CloseChatToolShape ==
  ASSUME NEW st \in States, NEW index \in DOMAIN st.tools
  PROVE  LET a == T!CloseChatTool(st, index) IN
         /\ a \in States /\ a.chat = st.chat /\ a.completed = st.completed
         /\ a.leaked = st.leaked /\ a.next = st.next
         /\ a.reasoning = st.reasoning /\ a.message = st.message
         /\ DOMAIN a.tools = DOMAIN st.tools
         /\ \A i \in DOMAIN st.tools : i # index => a.tools[i] = st.tools[i]
         /\ ~a.tools[index].started /\ a.tools[index].args = st.tools[index].args
         /\ ~st.tools[index].started => a.out = st.out
         /\ st.tools[index].started =>
              a.out = Append(st.out, T!Done("call", st.tools[index].at, st.tools[index].args))
         /\ Good(st) => Good(a)
<1>0. PICK a : a = T!CloseChatTool(st, index)
  OBVIOUS
<1>t. PICK t \in Tools : t = st.tools[index]
  <2>1. st.tools \in Tables
    BY Shape
  <2> QED
    BY <2>1, TableShape
<1>1. CASE ~t.started
  <2>1. a = st
    BY <1>0, <1>t, <1>1 DEF T!CloseChatTool
  <2> QED
    BY <1>0, <1>t, <1>1, <2>1
<1>2. CASE t.started
  <2>1. PICK at \in Nat : at = t.at
    BY DEF Tools
  <2>2. PICK x : x = T!Done("call", at, t.args)
    OBVIOUS
  <2>3. x \in Events /\ t.args \in Texts
    BY <2>2, EventShape DEF Owners, Tools
  <2>4. st.next \in Nat /\ st.out \in Seq(Events) /\ st.tools \in Tables
    BY Shape
  <2>5. Append(st.out, x) \in Seq(Events)
    BY <2>3, <2>4, EventAppended
  <2>6. PICK u : u = [t EXCEPT !.started = FALSE]
    OBVIOUS
  <2>7. u \in Tools /\ ~u.started /\ u.at = t.at /\ u.args = t.args
    BY <2>6 DEF Tools
  <2>8. PICK table : table = [st.tools EXCEPT ![index] = u]
    OBVIOUS
  <2>9. /\ table \in Tables /\ DOMAIN table = DOMAIN st.tools /\ table[index] = u
        /\ \A i \in DOMAIN st.tools : i # index => table[i] = st.tools[i]
    <3>1. PICK q \in Tables : q = st.tools
      BY <2>4
    <3>2. /\ DOMAIN q \in Bounds /\ q = [i \in DOMAIN q |-> q[i]]
          /\ \A i \in DOMAIN q : q[i] \in Tools
      BY TableShape
    <3>3. /\ DOMAIN table = DOMAIN q /\ table[index] = u
          /\ table = [i \in DOMAIN table |-> table[i]]
          /\ \A i \in DOMAIN q : i # index => table[i] = q[i]
      BY <2>8, <3>1, <3>2
    <3>4. \A i \in DOMAIN table : table[i] \in Tools
      BY <2>7, <3>2, <3>3
    <3>5. table \in Tables
      BY <3>2, <3>3, <3>4, TableShape
    <3> QED
      BY <3>1, <3>3, <3>5
  <2>10. a = [[st EXCEPT !.out = Append(@, x)] EXCEPT !.tools = table]
    <3>1. a = [T!Emit(st, x) EXCEPT !.tools[index].started = FALSE]
      BY <1>0, <1>t, <1>2, <2>1, <2>2 DEF T!CloseChatTool
    <3> QED
      BY <1>t, <2>6, <2>8, <3>1 DEF T!Emit, States
  <2>11. /\ a \in States /\ a.out = Append(st.out, x) /\ a.next = st.next
         /\ a.chat = st.chat /\ a.completed = st.completed /\ a.tools = table
         /\ a.leaked = st.leaked /\ a.reasoning = st.reasoning /\ a.message = st.message
    BY <2>5, <2>9, <2>10 DEF States
  <2>12. PICK o : o = <<"call", index, at>>
    OBVIOUS
  <2>13. ASSUME Good(st) PROVE Good(a)
    <3>1. o[3] = at /\ o \in Open(st)
      BY <1>t, <1>2, <2>1, <2>12 DEF Open, OpenCalls
    <3>2. OpenThought(a) = OpenThought(st) /\ OpenMessage(a) = OpenMessage(st)
      BY <2>11 DEF OpenThought, OpenMessage
    <3>3. OpenCalls(a) = OpenCalls(st) \ {o}
      <4>1. ASSUME NEW p \in OpenCalls(a) PROVE p \in OpenCalls(st) \ {o}
        <5>1. PICK i \in DOMAIN a.tools : a.tools[i].started /\ p = <<"call", i, a.tools[i].at>>
          BY <4>1 DEF OpenCalls
        <5>2. i # index
          BY <2>7, <2>9, <2>11, <5>1
        <5>3. i \in DOMAIN st.tools /\ a.tools[i] = st.tools[i]
          BY <2>9, <2>11, <5>1, <5>2
        <5> QED
          BY <2>12, <5>1, <5>2, <5>3 DEF OpenCalls
      <4>2. ASSUME NEW p \in OpenCalls(st), p # o PROVE p \in OpenCalls(a)
        <5>1. PICK i \in DOMAIN st.tools : st.tools[i].started /\ p = <<"call", i, st.tools[i].at>>
          BY <4>2 DEF OpenCalls
        <5>2. i # index
          BY <1>t, <2>1, <2>12, <4>2, <5>1
        <5>3. i \in DOMAIN a.tools /\ a.tools[i] = st.tools[i]
          BY <2>9, <2>11, <5>1, <5>2
        <5> QED
          BY <5>1, <5>3 DEF OpenCalls
      <4> QED
        BY <4>1, <4>2
    <3>4. o \notin OpenThought(st) /\ o \notin OpenMessage(st)
      BY <2>12 DEF OpenThought, OpenMessage
    <3>5. Open(a) = Open(st) \ {o}
      BY <3>2, <3>3, <3>4 DEF Open
    <3>6. Holds(st.out, st.next, Open(st)) /\ o[3] \in Nat
      BY <2>1, <2>13, <3>1 DEF Good
    <3>7. Holds(Append(st.out, T!Done("call", o[3], t.args)), st.next, Open(st) \ {o})
      BY <2>3, <2>4, <3>1, <3>6, DoneHolds DEF Owners
    <3> QED
      BY <2>2, <2>11, <3>1, <3>5, <3>7 DEF Good
  <2>14. a.out = Append(st.out, T!Done("call", st.tools[index].at, st.tools[index].args))
    BY <1>t, <2>1, <2>2, <2>11
  <2> QED
    BY <1>0, <1>t, <1>2, <2>7, <2>9, <2>11, <2>13, <2>14
<1> QED
  BY <1>1, <1>2 DEF Tools

LEMMA AboveIs ==
  ASSUME NEW D \in Bounds
  PROVE  T!Above(D) \in Nat /\ \A n \in D : n \in Nat /\ n < T!Above(D)
<1>1. PICK b \in Nat : \A n \in D : n <= b
  BY DEF Bounds
<1>2. PICK E : E = D \cup {0}
  OBVIOUS
<1>3. E \in SUBSET Nat /\ E # {} /\ (\A n \in E : n <= b) /\ D \subseteq E
  BY <1>1, <1>2 DEF Bounds
<1>4. \E m \in E : \A n \in E : m >= n
  BY <1>3, GreatestNumber
<1>5. T!Max(E) \in E /\ \A n \in E : T!Max(E) >= n
  BY <1>4 DEF T!Max
<1>6. PICK m : m = T!Max(E)
  OBVIOUS
<1>7. T!Above(D) = m + 1
  BY <1>2, <1>6 DEF T!Above
<1>8. m \in Nat /\ \A n \in D : n \in Nat /\ n <= m
  BY <1>3, <1>5, <1>6
<1> QED
  BY <1>7, <1>8

LEMMA LeastIs ==
  ASSUME NEW S \in SUBSET Nat, S # {}
  PROVE  T!Min(S) \in S /\ \A n \in S : T!Min(S) <= n
<1>1. \E m \in S : \A n \in S : m <= n
  BY LeastNumber
<1> QED
  BY <1>1 DEF T!Min

LEMMA NextToolIndexIs ==
  ASSUME NEW st \in States
  PROVE  T!NextToolIndex(st) \in Nat /\ T!NextToolIndex(st) \notin DOMAIN st.tools
<1>1. PICK D \in Bounds : D = DOMAIN st.tools
  <2>1. st.tools \in Tables
    BY Shape
  <2> QED
    BY <2>1, TableShape
<1>2. PICK n \in Nat : n = st.nextLeak
  BY Shape
<1>3. D \cup {n} \in Bounds
  BY BoundsGrow
<1>4. PICK m \in Nat : m = T!Above(D \cup {n}) /\ \A k \in D \cup {n} : k < m
  BY <1>3, AboveIs
<1>5. PICK S : S = (n .. m) \ D
  OBVIOUS
<1>6. S \in SUBSET Nat /\ m \in S
  BY <1>4, <1>5 DEF Bounds
<1>7. T!Min(S) \in S
  BY <1>6, LeastIs
<1> QED
  BY <1>1, <1>2, <1>4, <1>5, <1>6, <1>7 DEF T!NextToolIndex

LEMMA MarksAreTokens == T!Wholes \subseteq Tokens
  BY DEF Tokens

\* A call that leaked takes an index that is free, and is told in one piece.
LEMMA EmitLeakedToolGoes ==
  ASSUME NEW st \in States
  PROVE  T!EmitLeakedTool(st) \in Goes(st)
<1>1. PICK index : index = T!NextToolIndex(st)
  OBVIOUS
<1>2. index \in Nat /\ index \notin DOMAIN st.tools
  BY <1>1, NextToolIndexIs
<1>n. PICK n \in Nat : n = index + 1
  BY <1>2
<1>l. PICK l \in SUBSET Nat : l = st.leaked \cup {index}
  BY <1>2, Shape
<1>3. PICK b : b = [st EXCEPT !.nextLeak = n, !.leaked = l]
  OBVIOUS
<1>4. /\ b \in States /\ b.chat = st.chat /\ b.completed = st.completed /\ b.out = st.out
      /\ b.next = st.next /\ b.tools = st.tools /\ b.leaked = st.leaked \cup {index}
      /\ b.reasoning = st.reasoning /\ b.message = st.message
  BY <1>l, <1>3 DEF States
<1>5. PICK argument \in Texts : argument = <<"json">>
  <2>1. PICK x : x = "json"
    OBVIOUS
  <2>2. x \in Tokens
    BY <2>1, MarksAreTokens DEF T!Wholes
  <2>3. <<x>> \in Texts
    BY <2>2 DEF Texts
  <2> QED
    BY <2>1, <2>3
<1>6. PICK c : c = T!EmitChatToolDelta(b, index, argument)
  OBVIOUS
<1>7. CallGoesOn(b, c, index, argument)
  BY <1>2, <1>4, <1>6, EmitChatToolDeltaShape
<1>8. c \in States /\ index \in DOMAIN c.tools
  BY <1>7 DEF CallGoesOn
<1>9. PICK a : a = T!CloseChatTool(c, index)
  OBVIOUS
<1>10. /\ a \in States /\ a.chat = c.chat /\ a.completed = c.completed /\ a.leaked = c.leaked
       /\ DOMAIN a.tools = DOMAIN c.tools
       /\ \A i \in DOMAIN c.tools : i # index => a.tools[i] = c.tools[i]
       /\ Good(c) => Good(a)
  BY <1>8, <1>9, CloseChatToolShape
<1>11. a = T!EmitLeakedTool(st)
  <2>1. b = [st EXCEPT !.nextLeak = index + 1, !.leaked = @ \cup {index}]
    BY <1>n, <1>l, <1>3
  <2> QED
    BY <1>1, <1>5, <1>6, <1>9, <2>1 DEF T!EmitLeakedTool
<1>12. ASSUME st.chat, Good(st) PROVE Good(a)
  <2>1. Open(b) = Open(st)
    BY <1>4 DEF Open, OpenThought, OpenMessage, OpenCalls
  <2>2. Good(b) /\ b.chat
    BY <1>4, <1>12, <2>1 DEF Good
  <2>3. Good(c)
    BY <1>2, <1>4, <1>7, <2>2 DEF CallGoesOn
  <2> QED
    BY <1>10, <2>3
<1>13. DOMAIN c.tools = DOMAIN st.tools \cup {index} /\ c.leaked = st.leaked \cup {index}
       /\ c.chat = st.chat /\ c.completed = st.completed
       /\ \A i \in DOMAIN st.tools : i # index => c.tools[i] = st.tools[i]
  BY <1>4, <1>7 DEF CallGoesOn
<1>14. Further(st, a)
  BY <1>2, <1>10, <1>12, <1>13 DEF Further
<1> QED
  BY <1>10, <1>11, <1>14 DEF Goes



-----------------------------------------------------------------------------
(* Texts: their tokens are joined, scanned, and told piece by piece.         *)

LEMMA Counted ==
  /\ \A q \in Texts : Len(q) \in Nat /\ \A m \in 1 .. Len(q) : q[m] \in Tokens
  BY DEF Texts

\* What is left of a text, and its first part.
LEMMA CutText ==
  ASSUME NEW q \in Texts, NEW m \in 1 .. Len(q) + 1
  PROVE  /\ SubSeq(q, m, Len(q)) \in Texts /\ SubSeq(q, 1, m - 1) \in Texts
<1>1. PICK S : S = Tokens
  OBVIOUS
<1>2. q \in Seq(S) /\ Len(q) \in Nat
  BY <1>1 DEF Texts
<1>3. SubSeq(q, m, Len(q)) \in Seq(S) /\ SubSeq(q, 1, m - 1) \in Seq(S)
  BY <1>2
<1> QED
  BY <1>1, <1>3 DEF Texts

LEMMA AppendTokenShape ==
  ASSUME NEW text \in Texts, NEW x \in Tokens
  PROVE  T!AppendToken(text, x) \in Texts
<1>1. PICK joined : joined = IF text = <<>> THEN {} ELSE T!Join(T!Last(text), x)
  OBVIOUS
<1>2. joined \subseteq Tokens
  BY <1>1, MarksAreTokens DEF T!Join
<1>3. CASE joined = {}
  <2>1. T!AppendToken(text, x) = Append(text, x)
    BY <1>1, <1>3 DEF T!AppendToken
  <2> QED
    BY <2>1 DEF Texts
<1>4. CASE joined # {}
  <2>1. PICK w : w = CHOOSE v \in joined : TRUE
    OBVIOUS
  <2>2. w \in Tokens
    BY <1>2, <1>4, <2>1
  <2>3. T!AppendToken(text, x) = Append(T!Front(text), w)
    BY <1>1, <1>4, <2>1 DEF T!AppendToken
  <2>4. text # <<>>
    BY <1>1, <1>4
  <2>5. Len(text) \in 1 .. Len(text) + 1
    BY <2>4 DEF Texts
  <2>6. T!Front(text) \in Texts
    BY <2>5, CutText DEF T!Front
  <2> QED
    BY <2>2, <2>3, <2>6 DEF Texts
<1> QED
  BY <1>3, <1>4

\* Two halves in a row are one token.
LEMMA JoinedShape ==
  ASSUME NEW text \in Texts
  PROVE  T!Joined(text) \in Texts
<1>1. PICK n \in Nat : n = Len(text) /\ \A m \in 1 .. n : text[m] \in Tokens
  BY Counted
<1>2. PICK S : S = Texts
  OBVIOUS
<1>b. PICK base : base = <<>>
  OBVIOUS
<1>3. PICK step : step = [p \in S \X (1 .. n) |-> T!AppendToken(p[1], text[p[2]])]
  OBVIOUS
<1>4. base \in S /\ step \in [S \X (1 .. n) -> S]
  <2>1. ASSUME NEW r \in S, NEW m \in 1 .. n PROVE T!AppendToken(r, text[m]) \in S
    BY <1>1, <1>2, AppendTokenShape
  <2>2. base \in S
    BY <1>2, <1>b, EmptyText
  <2> QED
    BY <1>3, <2>1, <2>2
<1>5. PICK f : Loop(f, n, base, step, S)
  BY <1>4, LoopExists DEF Steps
<1>6. \A g : \A m \in 1 .. n : g[m - 1] \in S => T!AppendToken(g[m - 1], text[m]) = step[<<g[m - 1], m>>]
  BY <1>3
<1>7. \A m \in 1 .. n : f[m] = T!AppendToken(f[m - 1], text[m])
  <2> TAKE m \in 1 .. n
  <2>1. f[m - 1] \in S /\ f[m] = step[<<f[m - 1], m>>]
    BY <1>5 DEF Loop
  <2> QED
    BY <1>6, <2>1
<1> DEFINE All(g) == g = [m \in 0 .. n |-> IF m = 0 THEN base ELSE T!AppendToken(g[m - 1], text[m])]
<1>8. All(f)
  <2>1. PICK h : h = [m \in 0 .. n |-> IF m = 0 THEN base ELSE T!AppendToken(f[m - 1], text[m])]
    OBVIOUS
  <2>2. \A m \in 0 .. n : h[m] = f[m]
    BY <1>5, <1>7, <2>1 DEF Loop
  <2> QED
    BY <1>5, <2>1, <2>2 DEF Loop
<1>9. PICK g : g = CHOOSE h : All(h)
  OBVIOUS
<1>10. T!Joined(text) = g[n]
  BY <1>1, <1>b, <1>9 DEF T!Joined
<1>11. All(g)
  BY <1>8, <1>9
<1>12. Follows(g, n, base, step, S)
  <2>1. PICK h : h = [m \in 0 .. n |-> IF m = 0 THEN base ELSE T!AppendToken(g[m - 1], text[m])]
    OBVIOUS
  <2>2. g = h
    BY <1>11, <2>1
  <2>3. h = [m \in 0 .. n |-> h[m]] /\ h[0] = base
    BY <2>1
  <2>4. \A m \in 1 .. n : h[m] = T!AppendToken(g[m - 1], text[m])
    BY <2>1
  <2> HIDE DEF All
  <2> QED
    BY <1>6, <2>2, <2>3, <2>4 DEF Follows
<1>13. g = f
  BY <1>5, <1>12, OnlyOne
<1>14. n \in 0 .. n /\ f[n] \in S
  BY <1>5 DEF Loop
<1> HIDE DEF All
<1> QED
  BY <1>2, <1>10, <1>13, <1>14


\* DeepSeek's markup: what the scan holds, and what it lets through.
DsmlScans == [d : Dsmls, visible : Texts, last : BOOLEAN]

LEMMA DsmlTokenShape ==
  ASSUME NEW r \in DsmlScans, NEW x \in Tokens
  PROVE  T!DsmlToken(r, x) \in DsmlScans
<1>1. PICK d \in Dsmls : d = r.d
  BY DEF DsmlScans
<1>2. PICK plain : plain = [d EXCEPT !.suppress = FALSE]
  OBVIOUS
<1>3. PICK hold : hold = <<x>>
  OBVIOUS
<1>4. plain \in Dsmls /\ hold \in Texts
  <2>1. plain \in Dsmls
    BY <1>2 DEF Dsmls
  <2>2. hold \in Texts
    BY <1>3 DEF Texts
  <2> QED
    BY <2>1, <2>2
<1>5. PICK v : v = Append(r.visible, x)
  OBVIOUS
<1>6. v \in Texts
  BY <1>5 DEF DsmlScans, Texts
<1>7. /\ [d EXCEPT !.inside = TRUE, !.suppress = FALSE] \in Dsmls
      /\ [d EXCEPT !.inside = FALSE, !.suppress = TRUE] \in Dsmls
      /\ [(IF d.inside THEN d ELSE plain) EXCEPT !.hold = hold] \in Dsmls
      /\ [d EXCEPT !.hold = hold] \in Dsmls
  BY <1>4 DEF Dsmls
<1>8. \A e \in Dsmls : [r EXCEPT !.d = e] \in DsmlScans
  BY DEF DsmlScans
<1>9. [r EXCEPT !.d = plain, !.visible = v] \in DsmlScans
  BY <1>4, <1>6 DEF DsmlScans
<1>10. T!DsmlToken(r, x) \in
         { [r EXCEPT !.d = [d EXCEPT !.inside = TRUE, !.suppress = FALSE]],
           [r EXCEPT !.d = [d EXCEPT !.inside = FALSE, !.suppress = TRUE]],
           [r EXCEPT !.d = [(IF d.inside THEN d ELSE plain) EXCEPT !.hold = hold]],
           r, [r EXCEPT !.d = plain], [r EXCEPT !.d = [d EXCEPT !.hold = hold]],
           [r EXCEPT !.d = plain, !.visible = v] }
  <2>1. [r EXCEPT !.d.hold = hold] = [r EXCEPT !.d = [d EXCEPT !.hold = hold]]
    BY <1>1 DEF DsmlScans
  <2> QED
    BY <1>1, <1>2, <1>3, <1>5, <2>1 DEF T!DsmlToken
<1> QED
  BY <1>4, <1>7, <1>8, <1>9, <1>10

DsmlNext(r, x, last) == T!DsmlToken([r EXCEPT !.last = last], x)

\* The scan of a text.
LEMMA DsmlScanShape ==
  ASSUME NEW d \in Dsmls, NEW src \in Texts
  PROVE  T!DsmlScan(d, src) \in DsmlScans
<1>1. PICK n \in Nat : n = Len(src) /\ \A m \in 1 .. n : src[m] \in Tokens
  BY Counted
<1>2. PICK S : S = DsmlScans
  OBVIOUS
<1>b. PICK base : base = [d |-> [d EXCEPT !.hold = <<>>], visible |-> <<>>, last |-> FALSE]
  OBVIOUS
<1>3. PICK step : step = [p \in S \X (1 .. n) |-> DsmlNext(p[1], src[p[2]], p[2] = n)]
  OBVIOUS
<1>4. base \in S /\ step \in [S \X (1 .. n) -> S]
  <2>1. ASSUME NEW r \in S, NEW m \in 1 .. n PROVE DsmlNext(r, src[m], m = n) \in S
    <3>1. [r EXCEPT !.last = m = n] \in DsmlScans
      BY <1>2 DEF DsmlScans
    <3> QED
      BY <1>1, <1>2, <3>1, DsmlTokenShape DEF DsmlNext
  <2>2. base \in S
    BY <1>2, <1>b, EmptyText DEF DsmlScans, Dsmls
  <2> QED
    BY <1>3, <2>1, <2>2
<1>5. PICK f : Loop(f, n, base, step, S)
  BY <1>4, LoopExists DEF Steps
<1>6. \A g : \A m \in 1 .. n : g[m - 1] \in S => DsmlNext(g[m - 1], src[m], m = n) = step[<<g[m - 1], m>>]
  BY <1>3
<1>7. \A m \in 1 .. n : f[m] = DsmlNext(f[m - 1], src[m], m = n)
  <2> TAKE m \in 1 .. n
  <2>1. f[m - 1] \in S /\ f[m] = step[<<f[m - 1], m>>]
    BY <1>5 DEF Loop
  <2> QED
    BY <1>6, <2>1
<1> DEFINE All(g) == g = [m \in 0 .. n |-> IF m = 0 THEN base ELSE DsmlNext(g[m - 1], src[m], m = n)]
<1>8. All(f)
  <2>1. PICK h : h = [m \in 0 .. n |-> IF m = 0 THEN base ELSE DsmlNext(f[m - 1], src[m], m = n)]
    OBVIOUS
  <2>2. \A m \in 0 .. n : h[m] = f[m]
    BY <1>5, <1>7, <2>1 DEF Loop
  <2> QED
    BY <1>5, <2>1, <2>2 DEF Loop
<1>9. PICK g : g = CHOOSE h : All(h)
  OBVIOUS
<1>10. T!DsmlScan(d, src) = g[n]
  BY <1>1, <1>b, <1>9 DEF T!DsmlScan, DsmlNext
<1>11. All(g)
  BY <1>8, <1>9
<1>12. Follows(g, n, base, step, S)
  <2>1. PICK h : h = [m \in 0 .. n |-> IF m = 0 THEN base ELSE DsmlNext(g[m - 1], src[m], m = n)]
    OBVIOUS
  <2>2. g = h
    BY <1>11, <2>1
  <2>3. h = [m \in 0 .. n |-> h[m]] /\ h[0] = base
    BY <2>1
  <2>4. \A m \in 1 .. n : h[m] = DsmlNext(g[m - 1], src[m], m = n)
    BY <2>1
  <2> HIDE DEF All
  <2> QED
    BY <1>6, <2>2, <2>3, <2>4 DEF Follows
<1>13. g = f
  BY <1>5, <1>12, OnlyOne
<1>14. n \in 0 .. n /\ f[n] \in S
  BY <1>5 DEF Loop
<1> HIDE DEF All
<1> QED
  BY <1>2, <1>10, <1>13, <1>14

LEMMA DsmlPushShape ==
  ASSUME NEW d \in Dsmls, NEW text \in Texts
  PROVE  T!DsmlPush(d, text).d \in Dsmls /\ T!DsmlPush(d, text).visible \in Texts
<1>1. PICK src : src = T!Joined(d.hold \o text)
  OBVIOUS
<1>2. src \in Texts
  <2>1. d.hold \o text \in Texts
    BY Together DEF Dsmls
  <2> QED
    BY <1>1, <2>1, JoinedShape
<1>3. T!DsmlScan(d, src) \in DsmlScans
  BY <1>2, DsmlScanShape
<1> QED
  BY <1>1, <1>3 DEF T!DsmlPush, DsmlScans

\* Think tags: the pieces of a text, and what is held.
Pieces == [kind : {"think", "visible"}, text : Texts]
TagScans == [pieces : Seq(Pieces), inside : BOOLEAN, text : Texts]

LEMMA PieceShape ==
  ASSUME NEW inside \in BOOLEAN, NEW text \in Texts
  PROVE  T!Piece(inside, text) \in Seq(Pieces)
<1>1. PICK p : p = [kind |-> IF inside THEN "think" ELSE "visible", text |-> text]
  OBVIOUS
<1>2. p \in Pieces
  BY <1>1 DEF Pieces
<1>3. PICK S : S = Pieces
  OBVIOUS
<1>4. <<p>> \in Seq(S) /\ <<>> \in Seq(S)
  BY <1>2, <1>3
<1>5. T!Piece(inside, text) \in {<<>>, <<p>>}
  BY <1>1 DEF T!Piece
<1> QED
  BY <1>3, <1>4, <1>5

LEMMA PiecesTogether ==
  ASSUME NEW a \in Seq(Pieces), NEW b \in Seq(Pieces)
  PROVE  a \o b \in Seq(Pieces)
<1>1. PICK S : S = Pieces
  OBVIOUS
<1> QED
  BY <1>1

LEMMA ScanTokenShape ==
  ASSUME NEW r \in TagScans, NEW x \in Tokens
  PROVE  T!ScanToken(r, x) \in TagScans
<1>1. PICK p : p = r.pieces \o T!Piece(r.inside, r.text)
  OBVIOUS
<1>2. p \in Seq(Pieces)
  <2>1. r.pieces \in Seq(Pieces) /\ r.inside \in BOOLEAN /\ r.text \in Texts
    BY DEF TagScans
  <2>2. T!Piece(r.inside, r.text) \in Seq(Pieces)
    BY <2>1, PieceShape
  <2> QED
    BY <1>1, <2>1, <2>2, PiecesTogether
<1>3. PICK u : u = Append(r.text, x)
  OBVIOUS
<1>4. u \in Texts
  BY <1>3 DEF TagScans, Texts
<1>5. T!ScanToken(r, x) \in {[pieces |-> p, inside |-> ~r.inside, text |-> <<>>], [r EXCEPT !.text = u]}
  BY <1>1, <1>3 DEF T!ScanToken
<1>6. [r EXCEPT !.text = u] \in TagScans
  BY <1>4 DEF TagScans
<1>7. [pieces |-> p, inside |-> ~r.inside, text |-> <<>>] \in TagScans
  BY <1>2, EmptyText DEF TagScans
<1> QED
  BY <1>5, <1>6, <1>7

\* What is held is the end of the text, or nothing.
LEMMA HeldShape ==
  ASSUME NEW inside, NEW text \in Texts
  PROVE  /\ T!Held(inside, text) \in Texts
         /\ SubSeq(text, 1, Len(text) - Len(T!Held(inside, text))) \in Texts
<1>1. CASE T!Held(inside, text) = <<>>
  <2>1. Len(text) + 1 \in 1 .. Len(text) + 1 /\ Len(text) + 1 - 1 = Len(text) - 0 /\ Len(<<>>) = 0
    BY DEF Texts
  <2>2. SubSeq(text, 1, Len(text) + 1 - 1) \in Texts
    BY <2>1, CutText
  <2> QED
    BY <1>1, <2>1, <2>2, EmptyText
<1>2. CASE T!Held(inside, text) # <<>>
  <2>1. text # <<>> /\ T!Held(inside, text) = <<T!Last(text)>>
    BY <1>2 DEF T!Held
  <2>2. Len(text) \in 1 .. Len(text) + 1 /\ T!Last(text) \in Tokens
    BY <2>1 DEF Texts, T!Last
  <2>3. SubSeq(text, 1, Len(text) - 1) \in Texts
    BY <2>2, CutText
  <2>4. <<T!Last(text)>> \in Texts /\ Len(<<T!Last(text)>>) = 1
    BY <2>2 DEF Texts
  <2> QED
    BY <2>1, <2>3, <2>4
<1> QED
  BY <1>1, <1>2

\* What the scan of a text gives.
ScanGives(x) == x.pieces \in Seq(Pieces) /\ x.scan \in Scans

LEMMA ScannedShape ==
  ASSUME NEW r \in TagScans, NEW x, NEW held,
         held = T!Held(r.inside, r.text),
         x = [ pieces |-> r.pieces \o T!Piece(r.inside, SubSeq(r.text, 1, Len(r.text) - Len(held))),
               scan |-> [inside |-> r.inside, hold |-> held] ]
  PROVE  ScanGives(x)
<1>1. r.pieces \in Seq(Pieces) /\ r.inside \in BOOLEAN /\ r.text \in Texts
  BY DEF TagScans
<1>2. held \in Texts /\ SubSeq(r.text, 1, Len(r.text) - Len(held)) \in Texts
  BY <1>1, HeldShape
<1>3. T!Piece(r.inside, SubSeq(r.text, 1, Len(r.text) - Len(held))) \in Seq(Pieces)
  BY <1>1, <1>2, PieceShape
<1>4. r.pieces \o T!Piece(r.inside, SubSeq(r.text, 1, Len(r.text) - Len(held))) \in Seq(Pieces)
  BY <1>1, <1>3, PiecesTogether
<1>5. [inside |-> r.inside, hold |-> held] \in Scans
  BY <1>1, <1>2 DEF Scans
<1> QED
  BY <1>4, <1>5 DEF ScanGives

\* The scan for think tags.
LEMMA ScanShape ==
  ASSUME NEW src \in Texts, NEW inside \in BOOLEAN
  PROVE  ScanGives(T!Scan(src, inside))
<1>1. PICK n \in Nat : n = Len(src) /\ \A m \in 1 .. n : src[m] \in Tokens
  BY Counted
<1>2. PICK S : S = TagScans
  OBVIOUS
<1>b. PICK base : base = [pieces |-> <<>>, inside |-> inside, text |-> <<>>]
  OBVIOUS
<1>3. PICK step : step = [p \in S \X (1 .. n) |-> T!ScanToken(p[1], src[p[2]])]
  OBVIOUS
<1>4. base \in S /\ step \in [S \X (1 .. n) -> S]
  <2>1. ASSUME NEW r \in S, NEW m \in 1 .. n PROVE T!ScanToken(r, src[m]) \in S
    BY <1>1, <1>2, ScanTokenShape
  <2>2. base \in S
    <3>1. PICK none : none = <<>>
      OBVIOUS
    <3>2. none \in Seq(Pieces) /\ none \in Texts
      BY <3>1, EmptyText
    <3> QED
      BY <1>2, <1>b, <3>1, <3>2 DEF TagScans
  <2> QED
    BY <1>3, <2>1, <2>2
<1>5. PICK f : Loop(f, n, base, step, S)
  BY <1>4, LoopExists DEF Steps
<1>6. \A g : \A m \in 1 .. n : g[m - 1] \in S => T!ScanToken(g[m - 1], src[m]) = step[<<g[m - 1], m>>]
  BY <1>3
<1>7. \A m \in 1 .. n : f[m] = T!ScanToken(f[m - 1], src[m])
  <2> TAKE m \in 1 .. n
  <2>1. f[m - 1] \in S /\ f[m] = step[<<f[m - 1], m>>]
    BY <1>5 DEF Loop
  <2> QED
    BY <1>6, <2>1
<1> DEFINE All(g) == g = [m \in 0 .. n |-> IF m = 0 THEN base ELSE T!ScanToken(g[m - 1], src[m])]
<1>8. All(f)
  <2>1. PICK h : h = [m \in 0 .. n |-> IF m = 0 THEN base ELSE T!ScanToken(f[m - 1], src[m])]
    OBVIOUS
  <2>2. \A m \in 0 .. n : h[m] = f[m]
    BY <1>5, <1>7, <2>1 DEF Loop
  <2> QED
    BY <1>5, <2>1, <2>2 DEF Loop
<1>9. PICK g : g = CHOOSE h : All(h)
  OBVIOUS
<1>10. LET r == g[n] held == T!Held(r.inside, r.text) IN
       T!Scan(src, inside) =
         [ pieces |-> r.pieces \o T!Piece(r.inside, SubSeq(r.text, 1, Len(r.text) - Len(held))),
           scan |-> [inside |-> r.inside, hold |-> held] ]
  BY <1>1, <1>b, <1>9 DEF T!Scan
<1>11. All(g)
  BY <1>8, <1>9
<1>12. Follows(g, n, base, step, S)
  <2>1. PICK h : h = [m \in 0 .. n |-> IF m = 0 THEN base ELSE T!ScanToken(g[m - 1], src[m])]
    OBVIOUS
  <2>2. g = h
    BY <1>11, <2>1
  <2>3. h = [m \in 0 .. n |-> h[m]] /\ h[0] = base
    BY <2>1
  <2>4. \A m \in 1 .. n : h[m] = T!ScanToken(g[m - 1], src[m])
    BY <2>1
  <2> HIDE DEF All
  <2> QED
    BY <1>6, <2>2, <2>3, <2>4 DEF Follows
<1>13. g = f
  BY <1>5, <1>12, OnlyOne
<1>14. n \in 0 .. n /\ f[n] \in S
  BY <1>5 DEF Loop
<1> HIDE DEF All
<1> QED
  <2>1. PICK r \in TagScans : r = g[n]
    BY <1>2, <1>13, <1>14
  <2>2. PICK held : held = T!Held(r.inside, r.text)
    OBVIOUS
  <2>3. T!Scan(src, inside) =
          [ pieces |-> r.pieces \o T!Piece(r.inside, SubSeq(r.text, 1, Len(r.text) - Len(held))),
            scan |-> [inside |-> r.inside, hold |-> held] ]
    BY <1>10, <2>1, <2>2
  <2> QED
    BY <2>2, <2>3, ScannedShape

LEMMA ScanPushShape ==
  ASSUME NEW scan \in Scans, NEW text \in Texts
  PROVE  ScanGives(T!ScanPush(scan, text))
<1>1. scan.hold \o text \in Texts /\ scan.inside \in BOOLEAN
  BY Together DEF Scans
<1>2. T!Joined(scan.hold \o text) \in Texts
  BY <1>1, JoinedShape
<1> QED
  BY <1>1, <1>2, ScanShape DEF T!ScanPush


-----------------------------------------------------------------------------
(* From the pieces of a text to the items.                                   *)

LEMMA GoesThrough ==
  ASSUME NEW st \in States, NEW a \in Goes(st)
  PROVE  a \in States /\ \A b \in Goes(a) : b \in Goes(st) /\ b \in States
  BY Onwards

LEMMA LeakGoes ==
  ASSUME NEW st \in States, NEW text \in Texts
  PROVE  [st EXCEPT !.leak = text] \in Goes(st)
<1>1. PICK a : a = [st EXCEPT !.leak = text]
  OBVIOUS
<1>2. /\ a \in States /\ a.chat = st.chat /\ a.completed = st.completed /\ a.out = st.out
      /\ a.next = st.next /\ a.tools = st.tools /\ a.leaked = st.leaked
      /\ a.reasoning = st.reasoning /\ a.message = st.message
  BY <1>1 DEF States
<1>3. a \in Goes(st)
  BY <1>2, QuietGoes
<1> QED
  BY <1>1, <1>3

LEMMA ShowProseGoes ==
  ASSUME NEW st \in States
  PROVE  T!ShowProse(st) \in Goes(st)
<1>1. PICK buffer \in Texts : buffer = T!Joined(st.leak)
  <2>1. st.leak \in Texts
    BY Shape
  <2> QED
    BY <2>1, JoinedShape
<1>2. PICK n \in Nat : n = Len(buffer) /\ DOMAIN buffer = 1 .. n
  BY DEF Texts
<1>3. PICK marks : marks = {i \in DOMAIN buffer : buffer[i] = "mark"}
  OBVIOUS
<1>4. PICK m : m = IF marks = {} THEN Len(buffer) + 1 ELSE T!Min(marks)
  OBVIOUS
<1>5. m \in 1 .. Len(buffer) + 1
  <2>1. marks \in SUBSET (1 .. n)
    BY <1>2, <1>3
  <2>2. CASE marks = {}
    BY <1>2, <1>4, <2>2
  <2>3. CASE marks # {}
    <3>1. marks \in SUBSET Nat
      BY <2>1
    <3>2. T!Min(marks) \in marks
      BY <2>3, <3>1, LeastIs
    <3> QED
      BY <1>2, <1>4, <2>1, <2>3, <3>2
  <2> QED
    BY <2>2, <2>3
<1>6. PICK left \in Texts : left = SubSeq(buffer, m, Len(buffer))
  BY <1>5, CutText
<1>7. PICK first \in Texts : first = SubSeq(buffer, 1, m - 1)
  BY <1>5, CutText
<1>8. PICK a : a = [st EXCEPT !.leak = left]
  OBVIOUS
<1>9. a \in Goes(st) /\ a \in States
  BY <1>8, LeakGoes, GoesThrough
<1>10. T!ShowProse(st) = T!EmitChatVisibleDelta(a, first)
  BY <1>1, <1>3, <1>4, <1>6, <1>7, <1>8 DEF T!ShowProse
<1>11. T!EmitChatVisibleDelta(a, first) \in Goes(a)
  BY <1>9, EmitChatVisibleDeltaGoes
<1> QED
  BY <1>9, <1>10, <1>11, GoesThrough

LEMMA DrainLeakGoes ==
  ASSUME NEW st \in States
  PROVE  T!DrainLeak(st) \in Goes(st)
<1>1. PICK b : b = T!ShowProse(st)
  OBVIOUS
<1>2. b \in Goes(st) /\ b \in States
  BY <1>1, ShowProseGoes, GoesThrough
<1>3. PICK buffer \in Texts : buffer = b.leak
  BY <1>2, Shape
<1>4. PICK n \in Nat : n = Len(buffer) /\ DOMAIN buffer = 1 .. n
  BY DEF Texts
<1>5. PICK json : json = {i \in DOMAIN buffer : buffer[i] = "json"}
  OBVIOUS
<1>6. CASE json = {}
  <2>1. T!DrainLeak(st) = st
    BY <1>1, <1>3, <1>5, <1>6 DEF T!DrainLeak, T!DrainShown
  <2> QED
    BY <2>1, Onwards
<1>7. CASE json # {}
  <2>1. json \in SUBSET (1 .. n) /\ json \in SUBSET Nat
    BY <1>4, <1>5
  <2>2. PICK k \in 1 .. n : k = T!Min(json)
    <3>1. T!Min(json) \in json
      BY <1>7, <2>1, LeastIs
    <3> QED
      BY <2>1, <3>1
  <2>3. k + 1 \in 1 .. Len(buffer) + 1
    BY <1>4
  <2>4. PICK left \in Texts : left = SubSeq(buffer, T!Min(json) + 1, Len(buffer))
    BY <2>2, <2>3, CutText
  <2>5. PICK c : c = T!EmitLeakedTool(b)
    OBVIOUS
  <2>6. c \in Goes(b) /\ c \in States
    BY <1>2, <2>5, EmitLeakedToolGoes, GoesThrough
  <2>7. T!DrainLeak(st) = [c EXCEPT !.leak = left]
    BY <1>1, <1>3, <1>5, <1>7, <2>4, <2>5 DEF T!DrainLeak, T!DrainShown
  <2>8. [c EXCEPT !.leak = left] \in Goes(c)
    BY <2>6, LeakGoes
  <2>9. [c EXCEPT !.leak = left] \in Goes(b)
    BY <1>2, <2>6, <2>8, GoesThrough
  <2> QED
    BY <1>2, <2>7, <2>9, GoesThrough
<1> QED
  BY <1>6, <1>7

\* All calls that leaked, one after the other.
LEMMA DrainLeaksGoes ==
  ASSUME NEW st \in States
  PROVE  T!DrainLeaks(st) \in Goes(st)
<1>1. PICK n \in Nat : n = Len(st.leak)
  <2>1. st.leak \in Texts
    BY Shape
  <2> QED
    BY <2>1, Counted
<1>2. PICK S : S = Goes(st)
  OBVIOUS
<1>b. PICK base : base = st
  OBVIOUS
<1>3. PICK step : step = [p \in S \X (1 .. n) |-> T!DrainLeak(p[1])]
  OBVIOUS
<1>4. base \in S /\ step \in [S \X (1 .. n) -> S]
  <2>1. ASSUME NEW r \in S, NEW m \in 1 .. n PROVE T!DrainLeak(r) \in S
    <3>1. r \in Goes(st) /\ r \in States
      BY <1>2, GoesThrough
    <3>2. T!DrainLeak(r) \in Goes(r)
      BY <3>1, DrainLeakGoes
    <3> QED
      BY <1>2, <3>1, <3>2, GoesThrough
  <2>2. base \in S
    BY <1>2, <1>b, Onwards
  <2> QED
    BY <1>3, <2>1, <2>2
<1>5. PICK f : Loop(f, n, base, step, S)
  BY <1>4, LoopExists DEF Steps
<1>6. \A g : \A m \in 1 .. n : g[m - 1] \in S => T!DrainLeak(g[m - 1]) = step[<<g[m - 1], m>>]
  BY <1>3
<1>7. \A m \in 1 .. n : f[m] = T!DrainLeak(f[m - 1])
  <2> TAKE m \in 1 .. n
  <2>1. f[m - 1] \in S /\ f[m] = step[<<f[m - 1], m>>]
    BY <1>5 DEF Loop
  <2> QED
    BY <1>6, <2>1
<1> DEFINE All(g) == g = [m \in 0 .. n |-> IF m = 0 THEN base ELSE T!DrainLeak(g[m - 1])]
<1>8. All(f)
  <2>1. PICK h : h = [m \in 0 .. n |-> IF m = 0 THEN base ELSE T!DrainLeak(f[m - 1])]
    OBVIOUS
  <2>2. \A m \in 0 .. n : h[m] = f[m]
    BY <1>5, <1>7, <2>1 DEF Loop
  <2> QED
    BY <1>5, <2>1, <2>2 DEF Loop
<1>9. PICK g : g = CHOOSE h : All(h)
  OBVIOUS
<1>10. T!DrainLeaks(st) = T!ShowProse(g[n])
  BY <1>1, <1>b, <1>9 DEF T!DrainLeaks
<1>11. All(g)
  BY <1>8, <1>9
<1>12. Follows(g, n, base, step, S)
  <2>1. PICK h : h = [m \in 0 .. n |-> IF m = 0 THEN base ELSE T!DrainLeak(g[m - 1])]
    OBVIOUS
  <2>2. g = h
    BY <1>11, <2>1
  <2>3. h = [m \in 0 .. n |-> h[m]] /\ h[0] = base
    BY <2>1
  <2>4. \A m \in 1 .. n : h[m] = T!DrainLeak(g[m - 1])
    BY <2>1
  <2> HIDE DEF All
  <2> QED
    BY <1>6, <2>2, <2>3, <2>4 DEF Follows
<1>13. g = f
  BY <1>5, <1>12, OnlyOne
<1>14. n \in 0 .. n /\ f[n] \in S
  BY <1>5 DEF Loop
<1> HIDE DEF All
<1> QED
  <2>1. PICK r \in Goes(st) : r = g[n]
    BY <1>2, <1>13, <1>14
  <2>2. r \in States
    BY GoesThrough
  <2>3. T!ShowProse(r) \in Goes(r)
    BY <2>2, ShowProseGoes
  <2>4. T!ShowProse(r) \in Goes(st)
    BY <2>3, GoesThrough
  <2> QED
    BY <1>10, <2>1, <2>4

LEMMA EmitVisibleGoes ==
  ASSUME NEW st \in States, NEW text \in Texts
  PROVE  T!EmitVisible(st, text) \in Goes(st)
<1>1. PICK buffer \in Texts : buffer = st.leak \o text
  <2>1. st.leak \in Texts
    BY Shape
  <2> QED
    BY <2>1, Together
<1>2. PICK a : a = [st EXCEPT !.leak = buffer]
  OBVIOUS
<1>3. a \in Goes(st) /\ a \in States
  BY <1>2, LeakGoes, GoesThrough
<1>4. T!EmitVisible(st, text) = T!DrainLeaks(a)
  BY <1>1, <1>2 DEF T!EmitVisible
<1>5. T!DrainLeaks(a) \in Goes(a)
  BY <1>3, DrainLeaksGoes
<1> QED
  BY <1>3, <1>4, <1>5, GoesThrough

\* Only a stream of Responses tells a text in events of its own.
LEMMA CarriedGoes ==
  ASSUME NEW st \in States, ~st.chat, NEW text \in Texts
  PROVE  T!Emit(st, T!Delta("message", 1, text)) \in Goes(st)
<1>1. PICK x : x = T!Delta("message", 1, text)
  OBVIOUS
<1>2. x \in Events
  BY <1>1, EventShape DEF Owners
<1>3. Append(st.out, x) \in Seq(Events)
  BY <1>2, Shape, EventAppended
<1>4. PICK a : a = [st EXCEPT !.out = Append(@, x)]
  OBVIOUS
<1>5. /\ a \in States /\ a.chat = st.chat /\ a.completed = st.completed
      /\ a.tools = st.tools /\ a.leaked = st.leaked
  BY <1>3, <1>4 DEF States
<1>6. a \in Goes(st)
  BY <1>5 DEF Goes, Further
<1> QED
  BY <1>1, <1>4, <1>6 DEF T!Emit

LEMMA EmitPieceGoes ==
  ASSUME NEW st \in States, NEW p \in Pieces, NEW carrier \in BOOLEAN
  PROVE  T!EmitPiece(st, p, carrier) \in Goes(st)
<1>1. PICK text \in Texts : text = p.text
  BY DEF Pieces
<1>2. CASE p.kind = "think"
  BY <1>1, <1>2, EmitThinkDeltaGoes DEF T!EmitPiece
<1>3. CASE p.kind # "think"
  <2>1. PICK c : c = T!CloseReasoning(st)
    OBVIOUS
  <2>2. c \in Goes(st) /\ c \in States /\ c.chat = st.chat
    BY <2>1, CloseReasoningGoes, GoesThrough DEF Goes, Further
  <2>3. CASE st.chat
    <3>1. T!EmitPiece(st, p, carrier) = T!EmitVisible(c, text)
      BY <1>1, <1>3, <2>1, <2>3 DEF T!EmitPiece
    <3>2. T!EmitVisible(c, text) \in Goes(c)
      BY <2>2, EmitVisibleGoes
    <3> QED
      BY <2>2, <3>1, <3>2, GoesThrough
  <2>4. CASE ~st.chat /\ carrier
    <3>1. T!EmitPiece(st, p, carrier) = T!Emit(c, T!Delta("message", 1, text))
      BY <1>1, <1>3, <2>1, <2>4 DEF T!EmitPiece
    <3>2. T!Emit(c, T!Delta("message", 1, text)) \in Goes(c)
      BY <2>2, <2>4, CarriedGoes
    <3> QED
      BY <2>2, <3>1, <3>2, GoesThrough
  <2>5. CASE ~st.chat /\ ~carrier
    BY <1>3, <2>1, <2>2, <2>5 DEF T!EmitPiece
  <2> QED
    BY <2>3, <2>4, <2>5, Shape
<1> QED
  BY <1>2, <1>3

\* The pieces of a text, one after the other.
LEMMA EmitPiecesLoops ==
  ASSUME NEW st \in States, NEW pieces \in Seq(Pieces), NEW carrier \in BOOLEAN
  PROVE  \E f : /\ f \in [0 .. Len(pieces) -> Goes(st)] /\ f[0] = st
                /\ \A m \in 1 .. Len(pieces) : f[m] = T!EmitPiece(f[m - 1], pieces[m], carrier)
                /\ T!EmitPieces(st, pieces, carrier) = f[Len(pieces)]
<1>1. PICK n \in Nat : n = Len(pieces) /\ \A m \in 1 .. n : pieces[m] \in Pieces
  OBVIOUS
<1>2. PICK S : S = Goes(st)
  OBVIOUS
<1>b. PICK base : base = st
  OBVIOUS
<1>3. PICK step : step = [p \in S \X (1 .. n) |-> T!EmitPiece(p[1], pieces[p[2]], carrier)]
  OBVIOUS
<1>4. base \in S /\ step \in [S \X (1 .. n) -> S]
  <2>1. ASSUME NEW r \in S, NEW m \in 1 .. n PROVE T!EmitPiece(r, pieces[m], carrier) \in S
    <3>1. r \in Goes(st) /\ r \in States /\ pieces[m] \in Pieces
      BY <1>1, <1>2, GoesThrough
    <3>2. T!EmitPiece(r, pieces[m], carrier) \in Goes(r)
      BY <3>1, EmitPieceGoes
    <3> QED
      BY <1>2, <3>1, <3>2, GoesThrough
  <2>2. base \in S
    BY <1>2, <1>b, Onwards
  <2> QED
    BY <1>3, <2>1, <2>2
<1>5. PICK f : Loop(f, n, base, step, S)
  BY <1>4, LoopExists DEF Steps
<1>6. \A g : \A m \in 1 .. n :
        g[m - 1] \in S => T!EmitPiece(g[m - 1], pieces[m], carrier) = step[<<g[m - 1], m>>]
  BY <1>3
<1>7. \A m \in 1 .. n : f[m] = T!EmitPiece(f[m - 1], pieces[m], carrier)
  <2> TAKE m \in 1 .. n
  <2>1. f[m - 1] \in S /\ f[m] = step[<<f[m - 1], m>>]
    BY <1>5 DEF Loop
  <2> QED
    BY <1>6, <2>1
<1> DEFINE All(g) == g = [m \in 0 .. n |-> IF m = 0 THEN base ELSE T!EmitPiece(g[m - 1], pieces[m], carrier)]
<1>8. All(f)
  <2>1. PICK h : h = [m \in 0 .. n |-> IF m = 0 THEN base ELSE T!EmitPiece(f[m - 1], pieces[m], carrier)]
    OBVIOUS
  <2>2. \A m \in 0 .. n : h[m] = f[m]
    BY <1>5, <1>7, <2>1 DEF Loop
  <2> QED
    BY <1>5, <2>1, <2>2 DEF Loop
<1>9. PICK g : g = CHOOSE h : All(h)
  OBVIOUS
<1>10. T!EmitPieces(st, pieces, carrier) = g[n]
  BY <1>1, <1>b, <1>9 DEF T!EmitPieces
<1>11. All(g)
  BY <1>8, <1>9
<1>12. Follows(g, n, base, step, S)
  <2>1. PICK h : h = [m \in 0 .. n |-> IF m = 0 THEN base ELSE T!EmitPiece(g[m - 1], pieces[m], carrier)]
    OBVIOUS
  <2>2. g = h
    BY <1>11, <2>1
  <2>3. h = [m \in 0 .. n |-> h[m]] /\ h[0] = base
    BY <2>1
  <2>4. \A m \in 1 .. n : h[m] = T!EmitPiece(g[m - 1], pieces[m], carrier)
    BY <2>1
  <2> HIDE DEF All
  <2> QED
    BY <1>6, <2>2, <2>3, <2>4 DEF Follows
<1>13. g = f
  BY <1>5, <1>12, OnlyOne
<1> HIDE DEF All
<1> QED
  BY <1>1, <1>2, <1>b, <1>5, <1>7, <1>10, <1>13 DEF Loop

LEMMA EmitPiecesGoes ==
  ASSUME NEW st \in States, NEW pieces \in Seq(Pieces), NEW carrier \in BOOLEAN
  PROVE  T!EmitPieces(st, pieces, carrier) \in Goes(st)
<1>1. PICK f : /\ f \in [0 .. Len(pieces) -> Goes(st)]
               /\ T!EmitPieces(st, pieces, carrier) = f[Len(pieces)]
  BY EmitPiecesLoops
<1>2. Len(pieces) \in 0 .. Len(pieces)
  OBVIOUS
<1> QED
  BY <1>1, <1>2

LEMMA FlushThinkGoes ==
  ASSUME NEW st \in States
  PROVE  T!FlushThink(st) \in Goes(st) /\ ~T!FlushThink(st).reasoning.open
<1>1. PICK d \in Dsmls : d = [[st.dsml EXCEPT !.hold = <<>>] EXCEPT !.suppress = FALSE]
  BY EmptyText, Shape DEF Dsmls
<1>2. PICK sc \in Scans : sc = [st.scan EXCEPT !.hold = <<>>]
  BY EmptyText, Shape DEF Scans
<1>3. PICK a : a = [st EXCEPT !.dsml = d, !.scan = sc]
  OBVIOUS
<1>4. /\ a \in States /\ a.chat = st.chat /\ a.completed = st.completed /\ a.out = st.out
      /\ a.next = st.next /\ a.tools = st.tools /\ a.leaked = st.leaked
      /\ a.reasoning = st.reasoning /\ a.message = st.message
  BY <1>3 DEF States
<1>5. a \in Goes(st)
  BY <1>4, QuietGoes
<1>6. PICK pieces \in Seq(Pieces) : pieces = T!ScanFlush(st.scan)
  <2>1. st.scan.inside \in BOOLEAN /\ st.scan.hold \in Texts
    BY Shape DEF Scans
  <2> QED
    BY <2>1, PieceShape DEF T!ScanFlush
<1>7. PICK b : b = T!EmitPieces(a, pieces, FALSE)
  OBVIOUS
<1>8. b \in Goes(a) /\ b \in States
  BY <1>4, <1>7, EmitPiecesGoes, GoesThrough
<1>9. T!FlushThink(st) = T!CloseReasoning(b)
  <2>1. a = [st EXCEPT !.dsml.hold = <<>>, !.dsml.suppress = FALSE, !.scan.hold = <<>>]
    BY <1>1, <1>2, <1>3 DEF States, Dsmls, Scans
  <2> QED
    BY <1>6, <1>7, <2>1 DEF T!FlushThink
<1>10. T!CloseReasoning(b) \in Goes(b) /\ ~T!CloseReasoning(b).reasoning.open
  BY <1>8, CloseReasoningGoes
<1>11. T!CloseReasoning(b) \in Goes(a)
  BY <1>4, <1>8, <1>10, GoesThrough
<1> QED
  BY <1>5, <1>9, <1>10, <1>11, GoesThrough

LEMMA FeedGoes ==
  ASSUME NEW st \in States, NEW text \in Texts, NEW deepseek \in BOOLEAN, NEW carrier \in BOOLEAN
  PROVE  T!Feed(st, text, deepseek, carrier) \in Goes(st)
<1>1. PICK clean : clean = IF deepseek THEN T!DsmlPush(st.dsml, text)
                           ELSE [d |-> st.dsml, visible |-> text]
  OBVIOUS
<1>2. clean.d \in Dsmls /\ clean.visible \in Texts
  <2>1. st.dsml \in Dsmls
    BY Shape
  <2>2. T!DsmlPush(st.dsml, text).d \in Dsmls /\ T!DsmlPush(st.dsml, text).visible \in Texts
    BY <2>1, DsmlPushShape
  <2> QED
    BY <1>1, <2>1, <2>2
<1>3. PICK d \in Dsmls : d = clean.d
  BY <1>2
<1>4. CASE clean.visible = <<>>
  <2>1. T!Feed(st, text, deepseek, carrier) = [st EXCEPT !.dsml = d]
    BY <1>1, <1>3, <1>4 DEF T!Feed
  <2>2. PICK a : a = [st EXCEPT !.dsml = d]
    OBVIOUS
  <2>3. /\ a \in States /\ a.chat = st.chat /\ a.completed = st.completed /\ a.out = st.out
        /\ a.next = st.next /\ a.tools = st.tools /\ a.leaked = st.leaked
        /\ a.reasoning = st.reasoning /\ a.message = st.message
    BY <2>2 DEF States
  <2>4. a \in Goes(st)
    BY <2>3, QuietGoes
  <2> QED
    BY <2>1, <2>2, <2>4
<1>5. CASE clean.visible # <<>>
  <2>1. PICK scanned : scanned = T!ScanPush(st.scan, clean.visible)
    OBVIOUS
  <2>2. st.scan \in Scans
    BY Shape
  <2>3. PICK sc \in Scans : sc = scanned.scan
    BY <1>2, <2>1, <2>2, ScanPushShape DEF ScanGives
  <2>4. PICK pieces \in Seq(Pieces) : pieces = scanned.pieces
    BY <1>2, <2>1, <2>2, ScanPushShape DEF ScanGives
  <2>5. PICK a : a = [st EXCEPT !.dsml = d, !.scan = sc]
    OBVIOUS
  <2>6. T!Feed(st, text, deepseek, carrier) = T!EmitPieces(a, pieces, carrier)
    BY <1>1, <1>3, <1>5, <2>1, <2>3, <2>4, <2>5 DEF T!Feed
  <2>7. /\ a \in States /\ a.chat = st.chat /\ a.completed = st.completed /\ a.out = st.out
        /\ a.next = st.next /\ a.tools = st.tools /\ a.leaked = st.leaked
        /\ a.reasoning = st.reasoning /\ a.message = st.message
    BY <2>5 DEF States
  <2>8. a \in Goes(st)
    BY <2>7, QuietGoes
  <2>9. T!EmitPieces(a, pieces, carrier) \in Goes(a)
    BY <2>7, EmitPiecesGoes
  <2> QED
    BY <2>6, <2>8, <2>9, GoesThrough
<1> QED
  BY <1>4, <1>5


-----------------------------------------------------------------------------
(* The end of the stream closes every call that is open, and says its        *)
(* arguments.                                                                *)

DoneSays(out, args) == \E k \in DOMAIN out : out[k].e = "done" /\ out[k].of = "call" /\ out[k].text = args

\* Of the calls of st some are closed in a, each with its arguments.
Shuts(st) ==
  {a \in States :
     /\ a.chat = st.chat /\ a.completed = st.completed /\ a.leaked = st.leaked
     /\ a.reasoning = st.reasoning /\ a.message = st.message
     /\ DOMAIN a.tools = DOMAIN st.tools
     /\ \A i \in DOMAIN st.tools : a.tools[i].args = st.tools[i].args
     /\ \A i \in DOMAIN st.tools : a.tools[i].started => st.tools[i].started
     /\ \A i \in DOMAIN st.tools :
          st.tools[i].started /\ ~a.tools[i].started => DoneSays(a.out, st.tools[i].args)
     /\ Good(st) => Good(a)}

LEMMA SaysMore ==
  ASSUME NEW out \in Seq(Events), NEW x \in Events, NEW args, DoneSays(out, args)
  PROVE  DoneSays(Append(out, x), args)
<1>1. PICK told : told = Append(out, x)
  OBVIOUS
<1>2. PICK n \in Nat : n = Len(out)
  OBVIOUS
<1>3. /\ DOMAIN out = 1 .. n /\ DOMAIN told = 1 .. n + 1
      /\ \A k \in 1 .. n : told[k] = out[k]
  BY <1>1, <1>2, EventAppended
<1> QED
  BY <1>1, <1>3 DEF DoneSays

LEMMA SaysIt ==
  ASSUME NEW out \in Seq(Events), NEW at \in Nat, NEW args \in Texts
  PROVE  DoneSays(Append(out, T!Done("call", at, args)), args)
<1>1. PICK x : x = T!Done("call", at, args)
  OBVIOUS
<1>2. x \in Events /\ x.e = "done" /\ x.of = "call" /\ x.text = args
  <2>1. x \in Events
    BY <1>1, EventShape DEF Owners
  <2> QED
    BY <1>1, <2>1 DEF T!Done
<1>3. PICK told : told = Append(out, x)
  OBVIOUS
<1>4. PICK n \in Nat : n = Len(out)
  OBVIOUS
<1>5. DOMAIN told = 1 .. n + 1 /\ told[n + 1] = x
  BY <1>2, <1>3, <1>4, EventAppended
<1> QED
  BY <1>1, <1>2, <1>3, <1>5 DEF DoneSays

LEMMA CloseOneShuts ==
  ASSUME NEW st \in States, NEW r \in Shuts(st), NEW index \in DOMAIN st.tools
  PROVE  T!CloseChatTool(r, index) \in Shuts(st)
<1>1. PICK a : a = T!CloseChatTool(r, index)
  OBVIOUS
<1>2. r \in States /\ index \in DOMAIN r.tools /\ DOMAIN r.tools = DOMAIN st.tools
  BY DEF Shuts
<1>3. /\ a \in States /\ a.chat = r.chat /\ a.completed = r.completed
      /\ a.leaked = r.leaked /\ a.next = r.next
      /\ a.reasoning = r.reasoning /\ a.message = r.message
      /\ DOMAIN a.tools = DOMAIN r.tools
      /\ \A i \in DOMAIN r.tools : i # index => a.tools[i] = r.tools[i]
      /\ ~a.tools[index].started /\ a.tools[index].args = r.tools[index].args
      /\ ~r.tools[index].started => a.out = r.out
      /\ r.tools[index].started =>
           a.out = Append(r.out, T!Done("call", r.tools[index].at, r.tools[index].args))
      /\ Good(r) => Good(a)
  BY <1>1, <1>2, CloseChatToolShape
<1>4. PICK t \in Tools : t = r.tools[index]
  <2>1. r.tools \in Tables
    BY <1>2, Shape
  <2> QED
    BY <1>2, <2>1, TableShape
<1>5. t.at \in Nat /\ t.args \in Texts /\ t.started \in BOOLEAN /\ t.args = st.tools[index].args
      /\ r.out \in Seq(Events)
  BY <1>2, <1>4, Shape DEF Tools, Shuts
<1>6. ASSUME NEW args, DoneSays(r.out, args) PROVE DoneSays(a.out, args)
  <2>1. CASE ~t.started
    BY <1>3, <1>4, <1>6, <2>1
  <2>2. CASE t.started
    <3>1. a.out = Append(r.out, T!Done("call", t.at, t.args))
      BY <1>3, <1>4, <2>2
    <3>2. T!Done("call", t.at, t.args) \in Events
      BY <1>5, EventShape DEF Owners
    <3> QED
      BY <1>5, <1>6, <3>1, <3>2, SaysMore
  <2> QED
    BY <1>5, <2>1, <2>2
<1>7. ASSUME NEW i \in DOMAIN st.tools, st.tools[i].started, ~a.tools[i].started
      PROVE  DoneSays(a.out, st.tools[i].args)
  <2>1. CASE ~r.tools[i].started
    BY <1>6, <1>7, <2>1 DEF Shuts
  <2>2. CASE r.tools[i].started
    <3>1. i = index
      BY <1>2, <1>3, <1>7, <2>2
    <3>2. a.out = Append(r.out, T!Done("call", t.at, t.args))
      BY <1>3, <1>4, <2>2, <3>1
    <3>3. DoneSays(a.out, t.args)
      BY <1>5, <3>2, SaysIt
    <3> QED
      BY <1>5, <3>1, <3>3
  <2> QED
    BY <2>1, <2>2
<1>8. \A i \in DOMAIN st.tools : a.tools[i].args = st.tools[i].args
                                 /\ (a.tools[i].started => st.tools[i].started)
  BY <1>2, <1>3 DEF Shuts
<1>9. /\ a.chat = st.chat /\ a.completed = st.completed /\ a.leaked = st.leaked
      /\ a.reasoning = st.reasoning /\ a.message = st.message
      /\ DOMAIN a.tools = DOMAIN st.tools /\ (Good(st) => Good(a))
  BY <1>3 DEF Shuts
<1> QED
  BY <1>1, <1>3, <1>7, <1>8, <1>9 DEF Shuts

\* close_chat_tools, up to the last index.
LEMMA CloseChatToolsLoops ==
  ASSUME NEW st \in States
  PROVE  \E n \in Nat : \E f :
           /\ DOMAIN st.tools \subseteq Nat /\ \A i \in DOMAIN st.tools : i < n
           /\ f \in [0 .. n -> Shuts(st)] /\ f[0] = st
           /\ \A m \in 1 .. n :
                f[m] = IF m - 1 \in DOMAIN st.tools THEN T!CloseChatTool(f[m - 1], m - 1) ELSE f[m - 1]
           /\ T!CloseChatTools(st) = f[n]
<1>1. PICK n \in Nat : /\ n = T!Above(DOMAIN st.tools) /\ DOMAIN st.tools \subseteq Nat
                       /\ \A i \in DOMAIN st.tools : i < n
  <2>1. st.tools \in Tables
    BY Shape
  <2>2. DOMAIN st.tools \in Bounds
    BY <2>1, TableShape
  <2> QED
    BY <2>2, AboveIs
<1>2. PICK S : S = Shuts(st)
  OBVIOUS
<1>b. PICK base : base = st
  OBVIOUS
<1>3. PICK step : step = [p \in S \X (1 .. n) |->
                            (IF p[2] - 1 \in DOMAIN st.tools
                             THEN T!CloseChatTool(p[1], p[2] - 1) ELSE p[1])]
  OBVIOUS
<1>4. base \in S /\ step \in [S \X (1 .. n) -> S]
  <2>1. ASSUME NEW r \in S, NEW m \in 1 .. n
        PROVE  (IF m - 1 \in DOMAIN st.tools THEN T!CloseChatTool(r, m - 1) ELSE r) \in S
    BY <1>2, CloseOneShuts
  <2>2. base \in S
    BY <1>2, <1>b DEF Shuts
  <2> QED
    BY <1>3, <2>1, <2>2
<1>5. PICK f : Loop(f, n, base, step, S)
  BY <1>4, LoopExists DEF Steps
<1>6. \A g : \A m \in 1 .. n :
        g[m - 1] \in S =>
          (IF m - 1 \in DOMAIN st.tools THEN T!CloseChatTool(g[m - 1], m - 1) ELSE g[m - 1])
            = step[<<g[m - 1], m>>]
  BY <1>3
<1>7. \A m \in 1 .. n :
        f[m] = (IF m - 1 \in DOMAIN st.tools THEN T!CloseChatTool(f[m - 1], m - 1) ELSE f[m - 1])
  <2> TAKE m \in 1 .. n
  <2>1. f[m - 1] \in S /\ f[m] = step[<<f[m - 1], m>>]
    BY <1>5 DEF Loop
  <2> QED
    BY <1>6, <2>1
<1> DEFINE All(g) == g = [m \in 0 .. n |-> IF m = 0 THEN base ELSE
                           (IF m - 1 \in DOMAIN st.tools
                            THEN T!CloseChatTool(g[m - 1], m - 1) ELSE g[m - 1])]
<1>8. All(f)
  <2>1. PICK h : h = [m \in 0 .. n |-> IF m = 0 THEN base ELSE
                       (IF m - 1 \in DOMAIN st.tools
                        THEN T!CloseChatTool(f[m - 1], m - 1) ELSE f[m - 1])]
    OBVIOUS
  <2>2. \A m \in 0 .. n : h[m] = f[m]
    BY <1>5, <1>7, <2>1 DEF Loop
  <2> QED
    BY <1>5, <2>1, <2>2 DEF Loop
<1>9. PICK g : g = CHOOSE h : All(h)
  OBVIOUS
<1>10. T!CloseChatTools(st) = g[n]
  BY <1>1, <1>b, <1>9 DEF T!CloseChatTools
<1>11. All(g)
  BY <1>8, <1>9
<1>12. Follows(g, n, base, step, S)
  <2>1. PICK h : h = [m \in 0 .. n |-> IF m = 0 THEN base ELSE
                       (IF m - 1 \in DOMAIN st.tools
                        THEN T!CloseChatTool(g[m - 1], m - 1) ELSE g[m - 1])]
    OBVIOUS
  <2>2. g = h
    BY <1>11, <2>1
  <2>3. h = [m \in 0 .. n |-> h[m]] /\ h[0] = base
    BY <2>1
  <2>4. \A m \in 1 .. n :
          h[m] = (IF m - 1 \in DOMAIN st.tools THEN T!CloseChatTool(g[m - 1], m - 1) ELSE g[m - 1])
    BY <2>1
  <2> HIDE DEF All
  <2> QED
    BY <1>6, <2>2, <2>3, <2>4 DEF Follows
<1>13. g = f
  BY <1>5, <1>12, OnlyOne
<1> HIDE DEF All
<1> QED
  BY <1>1, <1>2, <1>b, <1>5, <1>7, <1>10, <1>13 DEF Loop

LEMMA CloseChatToolsShuts ==
  ASSUME NEW st \in States
  PROVE  /\ T!CloseChatTools(st) \in Shuts(st)
         /\ \A i \in DOMAIN st.tools : ~T!CloseChatTools(st).tools[i].started
<1>0. PICK n \in Nat : \E f :
        /\ DOMAIN st.tools \subseteq Nat /\ \A i \in DOMAIN st.tools : i < n
        /\ f \in [0 .. n -> Shuts(st)] /\ f[0] = st
        /\ \A m \in 1 .. n :
             f[m] = IF m - 1 \in DOMAIN st.tools THEN T!CloseChatTool(f[m - 1], m - 1) ELSE f[m - 1]
        /\ T!CloseChatTools(st) = f[n]
  BY CloseChatToolsLoops
<1>1. PICK f :
        /\ DOMAIN st.tools \subseteq Nat /\ \A i \in DOMAIN st.tools : i < n
        /\ f \in [0 .. n -> Shuts(st)] /\ f[0] = st
        /\ \A m \in 1 .. n :
             f[m] = IF m - 1 \in DOMAIN st.tools THEN T!CloseChatTool(f[m - 1], m - 1) ELSE f[m - 1]
        /\ T!CloseChatTools(st) = f[n]
  BY <1>0
<1>2. n \in 0 .. n /\ f[n] \in Shuts(st)
  BY <1>1
<1> QED
  <2> DEFINE Closed(m) == \A i \in DOMAIN st.tools : i < m => ~f[m].tools[i].started
             C == {m \in 0 .. n : Closed(m)}
  <2>1. 0 \in C
    BY <1>1
  <2>2. ASSUME NEW m \in 1 .. n, m - 1 \in C PROVE m \in C
    <3>1. PICK r : r = f[m - 1]
      OBVIOUS
    <3>2. r \in Shuts(st) /\ \A i \in DOMAIN st.tools : i < m - 1 => ~r.tools[i].started
      BY <1>1, <2>2, <3>1
    <3>3. r \in States /\ DOMAIN r.tools = DOMAIN st.tools
      BY <3>2 DEF Shuts
    <3>4. PICK k : k = m - 1
      OBVIOUS
    <3>5. PICK a : a = f[m]
      OBVIOUS
    <3>6. a = IF k \in DOMAIN st.tools THEN T!CloseChatTool(r, k) ELSE r
      BY <1>1, <3>1, <3>4, <3>5
    <3>7. ASSUME k \in DOMAIN st.tools
          PROVE  /\ ~a.tools[k].started
                 /\ \A i \in DOMAIN st.tools : i # k => a.tools[i] = r.tools[i]
      BY <3>3, <3>6, <3>7, CloseChatToolShape
    <3>8. ASSUME NEW i \in DOMAIN st.tools, i < m PROVE ~a.tools[i].started
      <4>1. i = k \/ i < m - 1
        BY <1>1, <3>4, <3>8
      <4>2. CASE i = k
        BY <3>7, <3>8, <4>2
      <4>3. CASE i # k
        BY <3>2, <3>6, <3>7, <4>1, <4>3
      <4> QED
        BY <4>2, <4>3
    <3> QED
      BY <3>5, <3>8
  <2>3. 0 .. n \subseteq C
    <3> HIDE DEF C
    <3> QED
      BY <1>1, <2>1, <2>2, UpTo
  <2>4. Closed(n)
    BY <1>2, <2>3
  <2> QED
    BY <1>1, <1>2, <2>4


-----------------------------------------------------------------------------
(* The arguments of a native call.                                           *)

Asks == [index : Nat, argument : Tokens]
ArgumentsWith(text, x, i) == IF x.index = i THEN Append(text, x.argument) ELSE text

\* The fold of Arguments, as a function.
LEMMA ArgumentsLoops ==
  ASSUME NEW deltas \in Seq(Asks), NEW i
  PROVE  \E f \in [0 .. Len(deltas) -> Texts] :
           /\ f[0] = <<>> /\ T!Arguments(deltas, i) = f[Len(deltas)]
           /\ \A m \in 1 .. Len(deltas) :
                f[m] = ArgumentsWith(f[m - 1], deltas[m], i)
<1>1. PICK n \in Nat : n = Len(deltas) /\ \A m \in 1 .. n : deltas[m] \in Asks
  OBVIOUS
<1>2. PICK S : S = Texts
  OBVIOUS
<1>b. PICK base : base = <<>>
  OBVIOUS
<1>3. PICK step : step = [p \in S \X (1 .. n) |-> ArgumentsWith(p[1], deltas[p[2]], i)]
  OBVIOUS
<1>4. base \in S /\ step \in [S \X (1 .. n) -> S]
  <2>1. ASSUME NEW r \in S, NEW m \in 1 .. n PROVE ArgumentsWith(r, deltas[m], i) \in S
    BY <1>1, <1>2 DEF Asks, Texts, ArgumentsWith
  <2>2. base \in S
    BY <1>2, <1>b, EmptyText
  <2> QED
    BY <1>3, <2>1, <2>2
<1>5. PICK f : Loop(f, n, base, step, S)
  BY <1>4, LoopExists DEF Steps
<1>6. \A g : \A m \in 1 .. n : g[m - 1] \in S => ArgumentsWith(g[m - 1], deltas[m], i) = step[<<g[m - 1], m>>]
  BY <1>3
<1>7. \A m \in 1 .. n : f[m] = ArgumentsWith(f[m - 1], deltas[m], i)
  <2> TAKE m \in 1 .. n
  <2>1. f[m - 1] \in S /\ f[m] = step[<<f[m - 1], m>>]
    BY <1>5 DEF Loop
  <2> QED
    BY <1>6, <2>1
<1> DEFINE All(g) == g = [m \in 0 .. n |-> IF m = 0 THEN base ELSE ArgumentsWith(g[m - 1], deltas[m], i)]
<1>8. All(f)
  <2>1. PICK h : h = [m \in 0 .. n |-> IF m = 0 THEN base ELSE ArgumentsWith(f[m - 1], deltas[m], i)]
    OBVIOUS
  <2>2. \A m \in 0 .. n : h[m] = f[m]
    BY <1>5, <1>7, <2>1 DEF Loop
  <2> QED
    BY <1>5, <2>1, <2>2 DEF Loop
<1>9. PICK g : g = CHOOSE h : All(h)
  OBVIOUS
<1>10. T!Arguments(deltas, i) = g[n]
  BY <1>1, <1>b, <1>9 DEF T!Arguments, ArgumentsWith
<1>11. All(g)
  BY <1>8, <1>9
<1>12. Follows(g, n, base, step, S)
  <2>1. PICK h : h = [m \in 0 .. n |-> IF m = 0 THEN base ELSE ArgumentsWith(g[m - 1], deltas[m], i)]
    OBVIOUS
  <2>2. g = h
    BY <1>11, <2>1
  <2>3. h = [m \in 0 .. n |-> h[m]] /\ h[0] = base
    BY <2>1
  <2>4. \A m \in 1 .. n : h[m] = ArgumentsWith(g[m - 1], deltas[m], i)
    BY <2>1
  <2> HIDE DEF All
  <2> QED
    BY <1>6, <2>2, <2>3, <2>4 DEF Follows
<1>13. g = f
  BY <1>5, <1>12, OnlyOne
<1>14. n \in 0 .. n /\ f[n] \in S
  BY <1>5 DEF Loop
<1> HIDE DEF All
<1> QED
  BY <1>1, <1>2, <1>b, <1>5, <1>7, <1>10, <1>13 DEF Loop

\* One delta more goes on with the arguments of its call, and with no others.
LEMMA ArgumentsGoOn ==
  ASSUME NEW deltas \in Seq(Asks), NEW x \in Asks, NEW i
  PROVE  /\ T!Arguments(deltas, i) \in Texts
         /\ T!Arguments(<<>>, i) = <<>>
         /\ T!Arguments(Append(deltas, x), i)
              = ArgumentsWith(T!Arguments(deltas, i), x, i)
<1>1. PICK n \in Nat : n = Len(deltas) /\ \A m \in 1 .. n : deltas[m] \in Asks
  OBVIOUS
<1>2. PICK more \in Seq(Asks) : more = Append(deltas, x)
  <2>1. PICK S : S = Asks
    OBVIOUS
  <2>2. Append(deltas, x) \in Seq(S)
    BY <2>1
  <2> QED
    BY <2>1, <2>2
<1>3. Len(more) = n + 1 /\ more[n + 1] = x /\ \A m \in 1 .. n : more[m] = deltas[m]
  BY <1>1, <1>2
<1>4. PICK f \in [0 .. Len(deltas) -> Texts] :
        /\ f[0] = <<>> /\ T!Arguments(deltas, i) = f[Len(deltas)]
        /\ \A m \in 1 .. Len(deltas) : f[m] = ArgumentsWith(f[m - 1], deltas[m], i)
  BY ArgumentsLoops
<1>5. PICK h \in [0 .. Len(more) -> Texts] :
        /\ h[0] = <<>> /\ T!Arguments(more, i) = h[Len(more)]
        /\ \A m \in 1 .. Len(more) : h[m] = ArgumentsWith(h[m - 1], more[m], i)
  BY ArgumentsLoops
<1>6. h[n] = f[n]
  <2> DEFINE C == {m \in 0 .. n : h[m] = f[m]}
  <2>1. 0 \in C
    BY <1>4, <1>5
  <2>2. ASSUME NEW m \in 1 .. n, m - 1 \in C PROVE m \in C
    BY <1>1, <1>3, <1>4, <1>5, <2>2
  <2>3. 0 .. n \subseteq C
    <3> HIDE DEF C
    <3> QED
      BY <2>1, <2>2, UpTo
  <2> QED
    BY <2>3
<1>7. h[n + 1] = ArgumentsWith(h[n], x, i)
  <2>1. n + 1 \in 1 .. Len(more) /\ (n + 1) - 1 = n
    BY <1>3
  <2> QED
    BY <1>3, <1>5, <2>1
<1>8. f[n] \in Texts
  BY <1>1, <1>4
<1>9. T!Arguments(<<>>, i) = <<>>
  <2>1. PICK none \in Seq(Asks) : none = <<>> /\ Len(none) = 0
    OBVIOUS
  <2>2. PICK e \in [0 .. Len(none) -> Texts] : e[0] = <<>> /\ T!Arguments(none, i) = e[Len(none)]
    BY ArgumentsLoops
  <2> QED
    BY <2>1, <2>2
<1> QED
  BY <1>1, <1>2, <1>3, <1>4, <1>5, <1>6, <1>7, <1>8, <1>9

-----------------------------------------------------------------------------
(* The end of a chat stream.                                                 *)

Ending == [e |-> "completed", of |-> "response", at |-> 0, text |-> <<>>]

\* All that was announced has ended, and then the response.
Ended(out) ==
  \E told \in Seq(Events) :
    /\ out = Append(told, Ending) /\ Framed(told)
    /\ \A k \in DOMAIN told : Heard(told, "done", told[k].at)

\* The calls that did not leak are open and have the arguments of their deltas; those that
\* have deltas are in the table.
Gathered(st, deltas) ==
  /\ \A i \in DOMAIN st.tools :
       i \notin st.leaked => st.tools[i].started /\ st.tools[i].args = T!Arguments(deltas, i)
  /\ \A i \in Nat \ DOMAIN st.tools : T!Arguments(deltas, i) = <<>>
  /\ \A k \in DOMAIN deltas : deltas[k].index \in DOMAIN st.tools

\* Every native call is told as done, with its arguments.
Said(out, deltas) ==
  \A k \in DOMAIN deltas : DoneSays(out, T!Arguments(deltas, deltas[k].index))

Clash(st, deltas) == \E k \in DOMAIN deltas : deltas[k].index \in st.leaked

LEMMA GatheredOn ==
  ASSUME NEW st \in States, NEW a \in Goes(st), NEW deltas, Gathered(st, deltas)
  PROVE  Gathered(a, deltas)
<1>1. /\ st.leaked \subseteq a.leaked
      /\ \A i \in DOMAIN st.tools : i \in DOMAIN a.tools /\ a.tools[i] = st.tools[i]
      /\ \A i \in DOMAIN a.tools : i \in DOMAIN st.tools \/ i \in a.leaked
  BY DEF Goes, Further
<1> QED
  BY <1>1 DEF Gathered

LEMMA GatheredCall ==
  ASSUME NEW st \in States, NEW deltas \in Seq(Asks), NEW x \in Asks, NEW a,
         CallGoesOn(st, a, x.index, <<x.argument>>), x.index \notin st.leaked,
         Gathered(st, deltas)
  PROVE  Gathered(a, Append(deltas, x))
<1>1. PICK index \in Nat : index = x.index
  BY DEF Asks
<1>2. PICK more : more = Append(deltas, x)
  OBVIOUS
<1>3. /\ DOMAIN a.tools = DOMAIN st.tools \cup {index} /\ a.leaked = st.leaked
      /\ \A i \in DOMAIN st.tools : i # index => a.tools[i] = st.tools[i]
      /\ a.tools[index].started
      /\ index \in DOMAIN st.tools => a.tools[index].args = st.tools[index].args \o <<x.argument>>
      /\ index \notin DOMAIN st.tools => a.tools[index].args = <<x.argument>>
  BY <1>1 DEF CallGoesOn
<1>4. \A i : i # index => T!Arguments(more, i) = T!Arguments(deltas, i)
  BY <1>1, <1>2, ArgumentsGoOn DEF ArgumentsWith
<1>5. /\ T!Arguments(deltas, index) \in Texts
      /\ T!Arguments(more, index) = Append(T!Arguments(deltas, index), x.argument)
  BY <1>1, <1>2, ArgumentsGoOn DEF ArgumentsWith
<1>6. a.tools[index].args = T!Arguments(more, index)
  <2>1. PICK q : q = T!Arguments(deltas, index)
    OBVIOUS
  <2>2. PICK y \in Tokens : y = x.argument
    BY DEF Asks
  <2>3. q \in Texts /\ q \o <<y>> = Append(q, y) /\ Append(<<>>, y) = <<y>>
    BY <1>5, <2>1 DEF Texts
  <2>4. CASE index \in DOMAIN st.tools
    <3>1. st.tools[index].args = q
      BY <1>1, <2>1, <2>4 DEF Gathered
    <3> QED
      BY <1>3, <1>5, <2>1, <2>2, <2>3, <2>4, <3>1
  <2>5. CASE index \notin DOMAIN st.tools
    <3>1. q = <<>>
      BY <2>1, <2>5 DEF Gathered
    <3> QED
      BY <1>3, <1>5, <2>1, <2>2, <2>3, <2>5, <3>1
  <2> QED
    BY <2>4, <2>5
<1>7. \A i \in DOMAIN a.tools :
        i \notin a.leaked => a.tools[i].started /\ a.tools[i].args = T!Arguments(more, i)
  BY <1>3, <1>4, <1>6 DEF Gathered
<1>8. \A i \in Nat \ DOMAIN a.tools : T!Arguments(more, i) = <<>>
  BY <1>3, <1>4 DEF Gathered
<1>9. \A k \in DOMAIN more : more[k].index \in DOMAIN a.tools
  <2>1. PICK n \in Nat : n = Len(deltas)
    OBVIOUS
  <2>2. /\ DOMAIN deltas = 1 .. n /\ DOMAIN more = 1 .. n + 1 /\ more[n + 1] = x
        /\ \A k \in 1 .. n : more[k] = deltas[k]
    BY <1>2, <2>1
  <2>3. \A k \in 1 .. n : deltas[k].index \in DOMAIN st.tools
    BY <2>2 DEF Gathered
  <2>4. \A k \in 1 .. n + 1 : k = n + 1 \/ k \in 1 .. n
    OBVIOUS
  <2> QED
    BY <1>1, <1>3, <2>2, <2>3, <2>4
<1> QED
  BY <1>2, <1>7, <1>8, <1>9 DEF Gathered

LEMMA FinishChatShape ==
  ASSUME NEW st \in States, st.chat, ~st.completed
  PROVE  LET a == T!FinishChat(st) IN
         /\ a \in States /\ a.chat /\ a.completed /\ st.leaked \subseteq a.leaked
         /\ Good(st) => Ended(a.out)
         /\ \A deltas \in Seq(Asks) :
              Gathered(st, deltas) /\ ~Clash(a, deltas) => Said(a.out, deltas)
<1>1. PICK f : f = T!FlushThink(st)
  OBVIOUS
<1>2. f \in Goes(st) /\ f \in States /\ ~f.reasoning.open
  BY <1>1, FlushThinkGoes, GoesThrough
<1>3. PICK b : b = [f EXCEPT !.leak = <<>>]
  OBVIOUS
<1>4. b \in Goes(f) /\ b \in States /\ b.reasoning = f.reasoning
  <2>1. b \in Goes(f)
    BY <1>2, <1>3, EmptyText, LeakGoes
  <2> QED
    BY <1>2, <1>3, <2>1, GoesThrough DEF States
<1>5. PICK c : c = T!EmitChatVisibleDelta(b, f.leak)
  OBVIOUS
<1>6. c \in Goes(b) /\ c \in States /\ ~c.reasoning.open
  <2>1. f.leak \in Texts
    BY <1>2, Shape
  <2> QED
    BY <1>2, <1>4, <1>5, <2>1, EmitChatVisibleDeltaGoes, GoesThrough
<1>7. PICK d : d = T!CloseChatMessage(c)
  OBVIOUS
<1>8. d \in Goes(c) /\ d \in States /\ ~d.message.open /\ d.reasoning = c.reasoning
  BY <1>6, <1>7, CloseChatMessageGoes, GoesThrough
<1>9. d \in Goes(st)
  <2>1. Goes(f) \subseteq Goes(st) /\ Goes(b) \subseteq Goes(f) /\ Goes(c) \subseteq Goes(b)
    BY <1>2, <1>4, <1>6, Onwards
  <2> QED
    BY <1>8, <2>1
<1>10. d.chat = st.chat /\ st.leaked \subseteq d.leaked /\ (Good(st) => Good(d))
  BY <1>9 DEF Goes, Further
<1>11. PICK e : e = T!CloseChatTools(d)
  OBVIOUS
<1>12. e \in Shuts(d) /\ \A i \in DOMAIN d.tools : ~e.tools[i].started
  BY <1>8, <1>11, CloseChatToolsShuts
<1>13. /\ e \in States /\ e.chat = d.chat /\ e.leaked = d.leaked
       /\ e.reasoning = d.reasoning /\ e.message = d.message
       /\ DOMAIN e.tools = DOMAIN d.tools
       /\ \A i \in DOMAIN d.tools :
            d.tools[i].started /\ ~e.tools[i].started => DoneSays(e.out, d.tools[i].args)
       /\ Good(d) => Good(e)
  BY <1>12 DEF Shuts
<1>14. Open(e) = {}
  BY <1>6, <1>8, <1>12, <1>13 DEF Open, OpenThought, OpenMessage, OpenCalls
<1>15. e.out \in Seq(Events)
  BY <1>13, Shape
<1>16. Ending \in Events
  BY EmptyText DEF Ending, Events, EventKinds, Owners
<1>17. Append(e.out, Ending) \in Seq(Events)
  BY <1>15, <1>16, EventAppended
<1>18. PICK a : a = T!FinishChat(st)
  OBVIOUS
<1>19. a = [[e EXCEPT !.out = Append(@, Ending)] EXCEPT !.completed = TRUE]
  BY <1>1, <1>3, <1>5, <1>7, <1>11, <1>18 DEF T!FinishChat, T!Emit, Ending
<1>20. /\ a \in States /\ a.chat = e.chat /\ a.completed /\ a.leaked = e.leaked
       /\ a.out = Append(e.out, Ending)
  BY <1>13, <1>17, <1>19 DEF States
<1>21. ASSUME Good(st) PROVE Ended(a.out)
  <2>1. Holds(e.out, e.next, {})
    BY <1>10, <1>13, <1>14, <1>21 DEF Good
  <2>2. Framed(e.out) /\ \A k \in DOMAIN e.out : Heard(e.out, "done", e.out[k].at)
    BY <2>1 DEF Holds
  <2> QED
    BY <1>15, <1>20, <2>2 DEF Ended
<1>22. ASSUME NEW deltas \in Seq(Asks), Gathered(st, deltas), ~Clash(a, deltas)
       PROVE  Said(a.out, deltas)
  <2>1. Gathered(d, deltas)
    BY <1>9, <1>22, GatheredOn
  <2>2. ASSUME NEW k \in DOMAIN deltas
        PROVE  DoneSays(a.out, T!Arguments(deltas, deltas[k].index))
    <3>1. PICK i : i = deltas[k].index
      OBVIOUS
    <3>2. i \in DOMAIN d.tools /\ i \notin d.leaked
      BY <1>13, <1>20, <1>22, <2>1, <3>1 DEF Gathered, Clash
    <3>3. d.tools[i].started /\ d.tools[i].args = T!Arguments(deltas, i)
      BY <2>1, <3>2 DEF Gathered
    <3>4. DoneSays(e.out, T!Arguments(deltas, i))
      BY <1>12, <1>13, <3>2, <3>3
    <3> QED
      BY <1>15, <1>16, <1>20, <3>1, <3>4, SaysMore
  <2> QED
    BY <2>2 DEF Said
<1> QED
  BY <1>10, <1>13, <1>18, <1>20, <1>21, <1>22

\* A well-framed stream is what the property says.
LEMMA FramedSays ==
  ASSUME s.out \in Seq(Events), Framed(s.out) \/ Ended(s.out)
  PROVE  T!ItemsAreFramed
<1>1. \A y : y \in T!Range(s.out) <=> \E k \in DOMAIN s.out : y = s.out[k]
  BY DEF T!Range
<1>2. CASE Framed(s.out)
  <2>1. ASSUME NEW k \in DOMAIN s.out
        PROVE  /\ s.out[k].e # "completed"
               /\ s.out[k].e = "added" =>
                    \A j \in 1 .. k - 1 : ~(s.out[j].e = "added" /\ s.out[j].at = s.out[k].at)
               /\ s.out[k].e # "added" =>
                    /\ \E j \in 1 .. k - 1 : s.out[j].e = "added" /\ s.out[j].at = s.out[k].at
                    /\ \A j \in 1 .. k - 1 : ~(s.out[j].e = "done" /\ s.out[j].at = s.out[k].at)
    BY <1>2 DEF Framed, HeardBefore
  <2> QED
    BY <2>1 DEF T!ItemsAreFramed
<1>3. CASE Ended(s.out)
  <2>1. PICK told \in Seq(Events) :
          /\ s.out = Append(told, Ending) /\ Framed(told)
          /\ \A k \in DOMAIN told : Heard(told, "done", told[k].at)
    BY <1>3 DEF Ended
  <2>2. PICK n \in Nat : n = Len(told)
    OBVIOUS
  <2>3. PICK x : x = Ending
    OBVIOUS
  <2>4. x.e = "completed"
    BY <2>3 DEF Ending
  <2>5. PICK out : out = s.out
    OBVIOUS
  <2>6. /\ DOMAIN told = 1 .. n /\ DOMAIN out = 1 .. n + 1 /\ out[n + 1] = x /\ Len(out) = n + 1
        /\ \A k \in 1 .. n : out[k] = told[k]
    <3>1. out = Append(told, x)
      BY <2>1, <2>3, <2>5
    <3>2. x \in Events
      BY <2>3, EmptyText DEF Ending, Events, EventKinds, Owners
    <3> QED
      BY <2>2, <3>1, <3>2, EventAppended
  <2>7. ASSUME NEW k \in 1 .. n
        PROVE  /\ out[k].e # "completed"
               /\ out[k].e = "added" =>
                    \A j \in 1 .. k - 1 : ~(out[j].e = "added" /\ out[j].at = out[k].at)
               /\ out[k].e # "added" =>
                    /\ \E j \in 1 .. k - 1 : out[j].e = "added" /\ out[j].at = out[k].at
                    /\ \A j \in 1 .. k - 1 : ~(out[j].e = "done" /\ out[j].at = out[k].at)
    <3>1. /\ told[k].e # "completed"
          /\ told[k].e = "added" =>
               \A j \in 1 .. k - 1 : ~(told[j].e = "added" /\ told[j].at = told[k].at)
          /\ told[k].e # "added" =>
               /\ \E j \in 1 .. k - 1 : told[j].e = "added" /\ told[j].at = told[k].at
               /\ \A j \in 1 .. k - 1 : ~(told[j].e = "done" /\ told[j].at = told[k].at)
      BY <2>1, <2>6 DEF Framed, HeardBefore
    <3> QED
      BY <2>6, <3>1
  <2>8. \A k \in DOMAIN out : out[k].e = "added" =>
          \E j \in DOMAIN out : out[j].e = "done" /\ out[j].at = out[k].at
    <3>1. \A k \in 1 .. n : \E j \in 1 .. n : told[j].e = "done" /\ told[j].at = told[k].at
      BY <2>1, <2>6 DEF Heard
    <3>2. \A k \in 1 .. n + 1 : k = n + 1 \/ k \in 1 .. n
      OBVIOUS
    <3>3. ASSUME NEW k \in DOMAIN out, out[k].e = "added"
          PROVE  \E j \in DOMAIN out : out[j].e = "done" /\ out[j].at = out[k].at
      <4>1. k \in 1 .. n
        BY <2>4, <2>6, <3>2, <3>3
      <4>2. PICK j \in 1 .. n : told[j].e = "done" /\ told[j].at = told[k].at
        BY <3>1, <4>1
      <4>3. out[j] = told[j] /\ out[k] = told[k] /\ j \in DOMAIN out
        BY <2>6, <4>1
      <4> QED
        BY <4>2, <4>3
    <3> QED
      BY <3>3
  <2>9. \A y \in T!Range(out) : y.e = "added" =>
          \E d \in T!Range(out) : d.e = "done" /\ d.at = y.at
    BY <1>1, <2>5, <2>8
  <2>10. \A k \in DOMAIN out : k = n + 1 \/ k \in 1 .. n
    BY <2>6
  <2>11. ASSUME NEW k \in DOMAIN s.out
         PROVE  /\ s.out[k].e = "added" =>
                     \A j \in 1 .. k - 1 : ~(s.out[j].e = "added" /\ s.out[j].at = s.out[k].at)
                /\ s.out[k].e \in {"delta", "done"} =>
                     /\ \E j \in 1 .. k - 1 : s.out[j].e = "added" /\ s.out[j].at = s.out[k].at
                     /\ \A j \in 1 .. k - 1 : ~(s.out[j].e = "done" /\ s.out[j].at = s.out[k].at)
                /\ s.out[k].e = "completed" => k = Len(s.out)
    <3>1. CASE k = n + 1
      BY <2>4, <2>5, <2>6, <3>1
    <3>2. CASE k \in 1 .. n
      BY <2>5, <2>7, <3>2
    <3> QED
      BY <2>5, <2>10, <3>1, <3>2
  <2> QED
    BY <2>5, <2>9, <2>11 DEF T!ItemsAreFramed
<1> QED
  BY <1>2, <1>3

\* Native calls that are told are what the property asks for.
LEMMA SaidSays ==
  ASSUME Said(s.out, asked)
  PROVE  T!CallsAreWhole
<1>1. ASSUME NEW i \in {a.index : a \in T!Range(asked)}
      PROVE  \E x \in T!Range(s.out) :
               x.e = "done" /\ x.of = "call" /\ x.text = T!Arguments(asked, i)
  <2>1. PICK k \in DOMAIN asked : i = asked[k].index
    BY <1>1 DEF T!Range
  <2>2. DoneSays(s.out, T!Arguments(asked, i))
    BY <2>1 DEF Said
  <2> QED
    BY <2>2 DEF DoneSays, T!Range
<1> QED
  BY <1>1 DEF T!CallsAreWhole

-----------------------------------------------------------------------------
(* The translation, step by step.                                            *)

\* While no native call has the number of a leaked one: before the end what is told is well
\* framed and the calls are gathered, and after it all has ended and every call was told.
TranslationInvariant ==
  /\ s \in States /\ asked \in Seq(Asks) /\ vocabulary \subseteq Words
  /\ s.chat /\ ~Clash(s, asked) =>
       IF s.completed THEN Ended(s.out) /\ Said(s.out, asked)
       ELSE Good(s) /\ Gathered(s, asked)

LEMMA FreshShape ==
  ASSUME NEW chat \in BOOLEAN
  PROVE  /\ T!Fresh(chat) \in States /\ ~T!Fresh(chat).completed
         /\ Good(T!Fresh(chat)) /\ Gathered(T!Fresh(chat), <<>>)
<1>1. PICK none : none = [i \in {} |-> T!FreshTool(0)]
  OBVIOUS
<1>2. DOMAIN none = {} /\ none = [i \in DOMAIN none |-> none[i]]
  BY <1>1
<1>3. {} \in Bounds
  BY DEF Bounds
<1>4. none \in Tables
  BY <1>2, <1>3, TableShape
<1>5. PICK out \in Seq(Events) : out = <<>> /\ DOMAIN out = {}
  <2>1. PICK S : S = Events
    OBVIOUS
  <2>2. <<>> \in Seq(S) /\ DOMAIN <<>> = {}
    OBVIOUS
  <2> QED
    BY <2>1, <2>2
<1>6. PICK a : a = T!Fresh(chat)
  OBVIOUS
<1>7. /\ a \in States /\ ~a.completed /\ a.out = out /\ a.next = 0 /\ a.tools = none
      /\ ~a.reasoning.open /\ ~a.message.open
  BY <1>1, <1>4, <1>5, <1>6, EmptyText
     DEF T!Fresh, T!FreshDsml, T!FreshScan, States, Dsmls, Scans, Reasonings, Messages
<1>8. Open(a) = {}
  BY <1>2, <1>7 DEF Open, OpenThought, OpenMessage, OpenCalls
<1>9. Good(a)
  BY <1>5, <1>7, <1>8 DEF Good, Holds, Framed
<1>10. \A i : T!Arguments(<<>>, i) = <<>>
  <2>1. PICK y \in Asks : TRUE
    <3>1. "open" \in Tokens
      BY DEF Tokens, T!Wholes
    <3>2. [index |-> 0, argument |-> "open"] \in Asks
      BY <3>1 DEF Asks
    <3> QED
      BY <3>2
  <2>2. <<>> \in Seq(Asks)
    OBVIOUS
  <2> QED
    BY <2>1, <2>2, ArgumentsGoOn
<1>11. Gathered(a, <<>>)
  BY <1>2, <1>7, <1>10 DEF Gathered
<1> QED
  BY <1>6, <1>7, <1>9, <1>11

\* What goes on in the stream keeps the invariant.
LEMMA GoesKeeps ==
  ASSUME TranslationInvariant, s' \in Goes(s), ~s.completed,
         asked' = asked, vocabulary' = vocabulary
  PROVE  TranslationInvariant'
<1>1. s' \in States /\ s'.chat = s.chat /\ ~s'.completed /\ s.leaked \subseteq s'.leaked
      /\ (s.chat /\ Good(s) => Good(s'))
  BY DEF TranslationInvariant, Goes, Further
<1>2. ASSUME s'.chat, ~Clash(s', asked') PROVE Good(s') /\ Gathered(s', asked')
  <2>1. ~Clash(s, asked)
    BY <1>1, <1>2 DEF Clash
  <2>2. s.chat /\ Good(s) /\ Gathered(s, asked) /\ s \in States
    BY <1>1, <1>2, <2>1 DEF TranslationInvariant
  <2> QED
    BY <1>1, <2>2, GatheredOn
<1> QED
  BY <1>1, <1>2 DEF TranslationInvariant

\* A text of the provider is a text.
LEMMA ProviderText ==
  ASSUME vocabulary \subseteq Words, NEW text \in T!Texts
  PROVE  text \in Texts
<1>1. PICK n \in 1 .. MaxChunk : text \in [1 .. n -> vocabulary]
  BY DEF T!Texts
<1>2. n \in Nat
  BY <1>1
<1>3. vocabulary \subseteq Tokens
  BY DEF Tokens
<1>4. PICK S : S = Tokens
  OBVIOUS
<1>5. text \in [1 .. n -> S]
  BY <1>1, <1>3, <1>4
<1>6. text \in Seq(S)
  BY <1>2, <1>5
<1> QED
  BY <1>4, <1>6 DEF Texts

LEMMA TranslationSteps ==
  ASSUME ProtocolAssumption, TranslationInvariant, T!Next
  PROVE  TranslationInvariant'
<1>1. s \in States /\ asked \in Seq(Asks) /\ vocabulary \subseteq Words
  BY DEF TranslationInvariant
<1>2. CASE T!ChatContent
  <2>1. PICK text \in T!Texts : s' = T!Feed(s, text, mode = "deepseek", FALSE)
    BY <1>2 DEF T!ChatContent
  <2>2. text \in Texts
    BY <1>1, ProviderText
  <2>3. PICK deepseek \in BOOLEAN : deepseek = (mode = "deepseek")
    OBVIOUS
  <2>4. s' \in Goes(s)
    BY <1>1, <2>1, <2>2, <2>3, FeedGoes
  <2> QED
    BY <1>2, <2>4, GoesKeeps DEF T!ChatContent
<1>3. CASE T!ChatTool
  <2>1. PICK i \in Indexes :
          /\ s' = T!EmitChatToolDelta(s, i, <<T!ToString(Len(asked))>>)
          /\ asked' = Append(asked, [index |-> i, argument |-> T!ToString(Len(asked))])
    BY <1>3 DEF T!ChatTool
  <2>2. PICK w : w = T!ToString(Len(asked))
    OBVIOUS
  <2>3. w \in Tokens
    <3>1. Len(asked) \in Nat
      BY <1>1
    <3> QED
      BY <2>2, <3>1 DEF Tokens
  <2>4. i \in Nat /\ <<w>> \in Texts
    BY <2>3 DEF ProtocolAssumption, Texts
  <2>5. PICK x : x = [index |-> i, argument |-> w]
    OBVIOUS
  <2>6. x \in Asks /\ x.index = i /\ x.argument = w
    BY <2>3, <2>4, <2>5 DEF Asks
  <2>7. CallGoesOn(s, s', i, <<w>>)
    BY <1>1, <2>1, <2>2, <2>4, EmitChatToolDeltaShape
  <2>8. asked' = Append(asked, x)
    BY <2>1, <2>2, <2>5
  <2>9. asked' \in Seq(Asks) /\ (\A k \in DOMAIN asked : k \in DOMAIN asked' /\ asked'[k] = asked[k])
        /\ \E k \in DOMAIN asked' : asked'[k] = x
    <3>1. PICK S : S = Asks
      OBVIOUS
    <3>2. PICK q \in Seq(S) : q = asked
      BY <1>1, <3>1
    <3>3. PICK more : more = Append(q, x)
      OBVIOUS
    <3>4. x \in S
      BY <2>6, <3>1
    <3>5. more \in Seq(S) /\ (\A k \in DOMAIN q : k \in DOMAIN more /\ more[k] = q[k])
          /\ Len(q) + 1 \in DOMAIN more /\ more[Len(q) + 1] = x
      BY <3>3, <3>4
    <3> QED
      BY <2>8, <3>1, <3>2, <3>3, <3>5
  <2>10. s' \in States /\ s'.chat = s.chat /\ s'.completed = s.completed /\ s'.leaked = s.leaked
         /\ (Good(s) /\ s.chat /\ (i \in DOMAIN s.tools => s.tools[i].started) => Good(s'))
    BY <2>7 DEF CallGoesOn
  <2>11. ASSUME ~Clash(s', asked') PROVE Good(s') /\ Gathered(s', asked')
    <3>1. ~Clash(s, asked) /\ i \notin s.leaked
      BY <2>6, <2>9, <2>10, <2>11 DEF Clash
    <3>2. Good(s) /\ Gathered(s, asked) /\ s.chat
      BY <1>3, <3>1 DEF TranslationInvariant, T!ChatTool
    <3>3. i \in DOMAIN s.tools => s.tools[i].started
      BY <3>1, <3>2 DEF Gathered
    <3>4. CallGoesOn(s, s', x.index, <<x.argument>>) /\ x.index \notin s.leaked
      BY <2>6, <2>7, <3>1
    <3>5. Gathered(s', asked')
      BY <1>1, <2>6, <2>8, <3>2, <3>4, GatheredCall
    <3> QED
      BY <2>10, <3>2, <3>3, <3>5
  <2>12. ~s'.completed /\ vocabulary' = vocabulary
    BY <1>3, <2>10 DEF T!ChatTool
  <2> QED
    BY <1>1, <2>9, <2>10, <2>11, <2>12 DEF TranslationInvariant
<1>4. CASE T!ChatFinish
  <2>1. s.chat /\ s' = T!FinishChat(s) /\ asked' = asked /\ vocabulary' = vocabulary
    BY <1>4 DEF T!ChatFinish
  <2>2. CASE s.completed
    <3>1. s' = s
      BY <2>1, <2>2 DEF T!FinishChat
    <3> QED
      BY <2>1, <3>1 DEF TranslationInvariant
  <2>3. CASE ~s.completed
    <3>1. /\ s' \in States /\ s'.chat /\ s'.completed /\ s.leaked \subseteq s'.leaked
          /\ Good(s) => Ended(s'.out)
          /\ Gathered(s, asked) /\ ~Clash(s', asked) => Said(s'.out, asked)
      BY <1>1, <2>1, <2>3, FinishChatShape
    <3>2. ASSUME ~Clash(s', asked') PROVE Ended(s'.out) /\ Said(s'.out, asked')
      <4>1. ~Clash(s, asked)
        BY <2>1, <3>1, <3>2 DEF Clash
      <4>2. Good(s) /\ Gathered(s, asked)
        BY <2>1, <2>3, <4>1 DEF TranslationInvariant
      <4> QED
        BY <2>1, <3>1, <3>2, <4>2
    <3> QED
      BY <1>1, <2>1, <3>1, <3>2 DEF TranslationInvariant
  <2> QED
    BY <2>2, <2>3
<1>5. CASE T!ResponsesDelta
  <2>1. PICK text \in T!Texts :
          \/ s' = T!Feed(s, text, FALSE, TRUE)
          \/ s' = T!Emit(s, T!Delta("message", 1, text))
    BY <1>5 DEF T!ResponsesDelta
  <2>2. text \in Texts /\ ~s.chat
    BY <1>1, <1>5, ProviderText DEF T!ResponsesDelta
  <2>3. s' \in Goes(s)
    BY <1>1, <2>1, <2>2, FeedGoes, CarriedGoes
  <2> QED
    BY <1>5, <2>3, GoesKeeps DEF T!ResponsesDelta
<1>6. CASE T!ResponsesBoundary
  <2>1. PICK a : a = IF s.scan.inside \/ s.scan.hold # <<>> \/ s.reasoning.open
                     THEN T!FlushThink(s) ELSE s
    OBVIOUS
  <2>2. a \in Goes(s)
    BY <1>1, <2>1, FlushThinkGoes, Onwards
  <2>3. a \in States /\ a.chat = s.chat
    BY <2>2 DEF Goes, Further
  <2>4. s' = [a EXCEPT !.completed = TRUE] /\ ~s.chat /\ asked' = asked /\ vocabulary' = vocabulary
    BY <1>6, <2>1 DEF T!ResponsesBoundary
  <2>5. s' \in States /\ ~s'.chat
    BY <2>3, <2>4 DEF States
  <2> QED
    BY <1>1, <2>4, <2>5 DEF TranslationInvariant
<1> QED
  BY <1>2, <1>3, <1>4, <1>5, <1>6 DEF T!Next

\* Where the events of a chat stream come from: the state of the stream is one that the code
\* can be in, and while no native call has the number of a leaked one, what was announced and
\* has not ended is the reasoning, the message and the calls that are open, each call with
\* the arguments of its deltas so far (SseThinkState, emit_chat_tool_delta).
THEOREM TranslationHolds == MCSpec => []TranslationInvariant
<1>1. MCInit => TranslationInvariant
  <2>1. SUFFICES ASSUME MCInit PROVE TranslationInvariant
    OBVIOUS
  <2>2. /\ \E chat \in BOOLEAN : s = T!Fresh(chat)
        /\ asked = <<>> /\ vocabulary \subseteq Words
    <3>1. CASE StillT
      <4>1. vocabulary = {"t"} /\ "t" \in Words
        BY <3>1 DEF StillT, Words
      <4>2. PICK chat \in BOOLEAN : chat = TRUE
        OBVIOUS
      <4>3. s = T!Fresh(chat) /\ asked = <<>> /\ vocabulary \subseteq Words
        BY <3>1, <4>1, <4>2 DEF StillT
      <4> QED
        BY <4>3
    <3>2. CASE T!Init
      <4>1. PICK chat \in BOOLEAN : chat = (mode # "responses")
        OBVIOUS
      <4>2. s = T!Fresh(chat)
        BY <3>2, <4>1 DEF T!Init
      <4> QED
        BY <3>2, <4>2, ProtocolAssumption DEF T!Init, ProtocolAssumption, Words
    <3> QED
      BY <2>1, <3>1, <3>2 DEF MCInit
  <2>3. PICK chat \in BOOLEAN : s = T!Fresh(chat)
    BY <2>2
  <2>4. s \in States /\ ~s.completed /\ Good(s) /\ Gathered(s, <<>>)
    BY <2>3, FreshShape
  <2>5. <<>> \in Seq(Asks)
    OBVIOUS
  <2> QED
    BY <2>2, <2>4, <2>5 DEF TranslationInvariant
<1>2. TranslationInvariant /\ [MCNext]_<<part, TVars, vars, PVars>> => TranslationInvariant'
  <2>1. SUFFICES ASSUME TranslationInvariant, [MCNext]_<<part, TVars, vars, PVars>>
                 PROVE  TranslationInvariant'
    OBVIOUS
  <2>2. CASE T!Next
    BY <2>1, <2>2, TranslationSteps, ProtocolAssumption
  <2>3. CASE UNCHANGED TVars
    <3>1. s' = s /\ asked' = asked /\ vocabulary' = vocabulary
      BY <2>3 DEF TVars
    <3> QED
      BY <2>1, <3>1 DEF TranslationInvariant
  <2> QED
    BY <2>1, <2>2, <2>3 DEF MCNext
<1> QED
  BY <1>1, <1>2, PTL DEF MCSpec

\* Every delta and every end of an item belongs to an item that was announced and has not
\* ended, no index is announced twice, and when the response is completed nothing is open
\* and nothing follows, however the text is cut and the calls are interleaved with it
\* (emit_chat_visible_delta, emit_chat_tool_delta, finish_chat_response).
THEOREM ItemsFramed == MCSpec => []ItemsAreFramed
<1>1. TranslationInvariant => ItemsAreFramed
  <2>1. SUFFICES ASSUME TranslationInvariant PROVE T!ItemsAreFramed
    BY DEF ItemsAreFramed
  <2>2. CASE s.chat /\ ~T!Collides
    <3>1. ~Clash(s, asked)
      BY <2>2 DEF Clash, T!Collides
    <3>2. Framed(s.out) \/ Ended(s.out)
      BY <2>1, <2>2, <3>1 DEF TranslationInvariant, Good, Holds
    <3>3. s.out \in Seq(Events)
      BY <2>1, Shape DEF TranslationInvariant
    <3> QED
      BY <3>2, <3>3, FramedSays
  <2>3. CASE ~(s.chat /\ ~T!Collides)
    BY <2>3 DEF T!ItemsAreFramed
  <2> QED
    BY <2>2, <2>3
<1> QED
  BY <1>1, TranslationHolds, PTL

\* A native call is told as done, with the arguments of its deltas in their order,
\* whatever was interleaved with them (emit_chat_tool_delta, close_chat_tools).
THEOREM CallsWhole == MCSpec => []CallsAreWhole
<1>1. TranslationInvariant => CallsAreWhole
  <2>1. SUFFICES ASSUME TranslationInvariant PROVE T!CallsAreWhole
    BY DEF CallsAreWhole
  <2>2. CASE s.completed /\ s.chat /\ ~T!Collides
    <3>1. ~Clash(s, asked)
      BY <2>2 DEF Clash, T!Collides
    <3>2. Said(s.out, asked)
      BY <2>1, <2>2, <3>1 DEF TranslationInvariant
    <3> QED
      BY <3>2, SaidSays
  <2>3. CASE ~(s.completed /\ s.chat /\ ~T!Collides)
    BY <2>3 DEF T!CallsAreWhole
  <2> QED
    BY <2>2, <2>3
<1> QED
  BY <1>1, TranslationHolds, PTL

-----------------------------------------------------------------------------
(* What a text says: its tokens, one after the other, make of a state what   *)
(* the steps make of it.                                                     *)

\* What the tokens, or the pieces, of q make of a state, step by step.
Run(step, base, q) ==
  LET f[n \in 0 .. Len(q)] == IF n = 0 THEN base ELSE step[<<f[n - 1], q[n]>>]
  IN f[Len(q)]

\* The states of a run, and the steps of the loop that makes them.
Through(f, step, base, q, S) ==
  /\ f \in [0 .. Len(q) -> S] /\ f[0] = base
  /\ \A m \in 1 .. Len(q) : f[m] = step[<<f[m - 1], q[m]>>]
Rounds(step, q, S) == [p \in S \X (1 .. Len(q)) |-> step[<<p[1], q[p[2]]>>]]

\* The steps stay among the states.
Machine(step, base, S, V) == base \in S /\ step \in [S \X V -> S]

LEMMA RunIs ==
  ASSUME NEW S, NEW V, NEW base, NEW step, Machine(step, base, S, V), NEW q \in Seq(V)
  PROVE  /\ \E f : Through(f, step, base, q, S)
         /\ \A f : Through(f, step, base, q, S) => Run(step, base, q) = f[Len(q)]
<1> USE DEF Machine
<1>1. PICK n \in Nat : n = Len(q) /\ \A m \in 1 .. n : q[m] \in V
  OBVIOUS
<1>2. PICK round : round = Rounds(step, q, S)
  OBVIOUS
<1>3. round \in [S \X (1 .. n) -> S]
  BY <1>1, <1>2 DEF Rounds
<1>4. PICK f : Loop(f, n, base, round, S)
  BY <1>3, LoopExists DEF Steps
<1>5. \A g : \A m \in 1 .. n : g[m - 1] \in S => step[<<g[m - 1], q[m]>>] = round[<<g[m - 1], m>>]
  BY <1>1, <1>2 DEF Rounds
<1>6. \A m \in 1 .. n : f[m] = step[<<f[m - 1], q[m]>>]
  <2> TAKE m \in 1 .. n
  <2>1. f[m - 1] \in S /\ f[m] = round[<<f[m - 1], m>>]
    BY <1>4 DEF Loop
  <2> QED
    BY <1>5, <2>1
<1>7. Through(f, step, base, q, S)
  BY <1>1, <1>4, <1>6 DEF Loop, Through
<1> DEFINE All(g) == g = [m \in 0 .. n |-> IF m = 0 THEN base ELSE step[<<g[m - 1], q[m]>>]]
<1>8. All(f)
  <2>1. PICK h : h = [m \in 0 .. n |-> IF m = 0 THEN base ELSE step[<<f[m - 1], q[m]>>]]
    OBVIOUS
  <2>2. \A m \in 0 .. n : h[m] = f[m]
    BY <1>4, <1>6, <2>1 DEF Loop
  <2> QED
    BY <1>4, <2>1, <2>2 DEF Loop
<1>9. PICK g : g = CHOOSE h : All(h)
  OBVIOUS
<1>10. Run(step, base, q) = g[n]
  BY <1>1, <1>9 DEF Run
<1>11. All(g)
  BY <1>8, <1>9
<1>12. Follows(g, n, base, round, S)
  <2>1. PICK h : h = [m \in 0 .. n |-> IF m = 0 THEN base ELSE step[<<g[m - 1], q[m]>>]]
    OBVIOUS
  <2>2. g = h
    BY <1>11, <2>1
  <2>3. h = [m \in 0 .. n |-> h[m]] /\ h[0] = base
    BY <2>1
  <2>4. \A m \in 1 .. n : h[m] = step[<<g[m - 1], q[m]>>]
    BY <2>1
  <2> HIDE DEF All
  <2> QED
    BY <1>5, <2>2, <2>3, <2>4 DEF Follows
<1>13. g = f
  BY <1>4, <1>12, OnlyOne
<1>14. ASSUME NEW h, Through(h, step, base, q, S) PROVE h = f
  <2>1. /\ h \in [0 .. n -> S] /\ h[0] = base
        /\ \A m \in 1 .. n : h[m] = step[<<h[m - 1], q[m]>>]
    BY <1>1, <1>14 DEF Through
  <2>2. Follows(h, n, base, round, S)
    BY <1>5, <2>1 DEF Follows
  <2> QED
    BY <1>4, <2>2, OnlyOne
<1> HIDE DEF All
<1> QED
  BY <1>1, <1>7, <1>10, <1>13, <1>14

LEMMA RunEnds ==
  ASSUME NEW S, NEW V, NEW base, NEW step, Machine(step, base, S, V), NEW q \in Seq(V), NEW f,
         Through(f, step, base, q, S)
  PROVE  Run(step, base, q) = f[Len(q)]
  BY RunIs

LEMMA RunEmpty ==
  ASSUME NEW S, NEW V, NEW base, NEW step, Machine(step, base, S, V)
  PROVE  Run(step, base, <<>>) = base
<1>0. <<>> \in Seq(V)
  OBVIOUS
<1>1. PICK e \in Seq(V) : e = <<>>
  BY <1>0
<1>2. PICK g : Through(g, step, base, e, S)
  BY RunIs
<1>3. Run(step, base, e) = g[Len(e)]
  BY <1>2, RunEnds
<1> QED
  BY <1>1, <1>2, <1>3 DEF Through

LEMMA RunIn ==
  ASSUME NEW S, NEW V, NEW base, NEW step, Machine(step, base, S, V), NEW q \in Seq(V)
  PROVE  Run(step, base, q) \in S
<1>1. PICK f : Through(f, step, base, q, S)
  BY RunIs
<1>2. Run(step, base, q) = f[Len(q)]
  BY <1>1, RunEnds
<1>3. Len(q) \in 0 .. Len(q)
  OBVIOUS
<1> QED
  BY <1>1, <1>2, <1>3 DEF Through

LEMMA RunOn ==
  ASSUME NEW S, NEW V, NEW base, NEW step, Machine(step, base, S, V), NEW q \in Seq(V), NEW x \in V
  PROVE  Run(step, base, Append(q, x)) = step[<<Run(step, base, q), x>>]
<1>1. PICK f : Through(f, step, base, q, S)
  BY RunIs
<1>2. PICK n \in Nat : n = Len(q) /\ \A m \in 1 .. n : q[m] \in V
  OBVIOUS
<1>3. Run(step, base, q) = f[n] /\ f[n] \in S
  <2>1. Run(step, base, q) = f[Len(q)]
    BY <1>1, RunEnds
  <2>2. n \in 0 .. n
    OBVIOUS
  <2> QED
    BY <1>1, <1>2, <2>1, <2>2 DEF Through
<1>4. PICK r : r = Append(q, x)
  OBVIOUS
<1>5. r \in Seq(V) /\ Len(r) = n + 1 /\ r[n + 1] = x /\ \A m \in 1 .. n : r[m] = q[m]
  BY <1>2, <1>4
<1>6. PICK y \in S : y = step[<<f[n], x>>]
  BY <1>3 DEF Machine
<1>7. PICK g : g = [m \in 0 .. n + 1 |-> IF m = n + 1 THEN y ELSE f[m]]
  OBVIOUS
<1>8. f \in [0 .. n -> S] /\ f[0] = base /\ \A m \in 1 .. n : f[m] = step[<<f[m - 1], q[m]>>]
  BY <1>1, <1>2 DEF Through
<1>9. \A m \in 0 .. n : g[m] = f[m] /\ f[m] \in S /\ m \in 0 .. n + 1
  BY <1>7, <1>8
<1>10. g[n + 1] = y
  BY <1>7
<1>11. g \in [0 .. n + 1 -> S]
  <2>1. \A m \in 0 .. n + 1 : m = n + 1 \/ m \in 0 .. n
    OBVIOUS
  <2>2. \A m \in 0 .. n + 1 : g[m] \in S
    BY <1>9, <1>10, <2>1
  <2> QED
    BY <1>7, <2>2
<1>12. \A m \in 1 .. n + 1 : g[m] = step[<<g[m - 1], r[m]>>]
  <2> TAKE m \in 1 .. n + 1
  <2>1. CASE m = n + 1
    <3>1. m - 1 = n /\ g[n] = f[n]
      BY <1>9, <2>1
    <3> QED
      BY <1>5, <1>6, <1>10, <2>1, <3>1
  <2>2. CASE m \in 1 .. n
    <3>1. m \in 0 .. n /\ m - 1 \in 0 .. n
      BY <2>2
    <3> QED
      BY <1>5, <1>8, <1>9, <2>2, <3>1
  <2> QED
    BY <2>1, <2>2
<1>13. Through(g, step, base, r, S)
  BY <1>5, <1>8, <1>9, <1>11, <1>12 DEF Through
<1>14. Run(step, base, r) = g[Len(r)]
  BY <1>5, <1>13, RunEnds
<1> QED
  BY <1>3, <1>4, <1>5, <1>6, <1>10, <1>14

\* What holds of the empty text, and of a text with one token more, holds of every text.
LEMMA TokenByToken ==
  ASSUME NEW V, NEW Fine, <<>> \in Fine,
         \A q \in Seq(V) : \A x \in V : q \in Fine => Append(q, x) \in Fine
  PROVE  Seq(V) \subseteq Fine
<1>1. SUFFICES ASSUME NEW q \in Seq(V) PROVE q \in Fine
  OBVIOUS
<1>2. PICK n \in Nat : n = Len(q)
  OBVIOUS
<1>3. PICK Parts : Parts = {m \in 0 .. n : SubSeq(q, 1, m) \in Fine}
  OBVIOUS
<1>4. 0 \in Parts
  <2>1. SubSeq(q, 1, 0) = <<>> /\ 0 \in 0 .. n
    BY <1>2
  <2> QED
    BY <1>3, <2>1
<1>5. ASSUME NEW m \in 1 .. n, m - 1 \in Parts PROVE m \in Parts
  <2>1. PICK r : r = SubSeq(q, 1, m - 1)
    OBVIOUS
  <2>2. r \in Seq(V) /\ q[m] \in V /\ SubSeq(q, 1, m) = Append(r, q[m])
    BY <1>2, <2>1
  <2>3. r \in Fine
    BY <1>3, <1>5, <2>1
  <2>4. Append(r, q[m]) \in Fine
    BY <2>2, <2>3
  <2> QED
    <3>1. SubSeq(q, 1, m) \in Fine
      BY <2>2, <2>4
    <3>2. m \in 0 .. n
      OBVIOUS
    <3> QED
      BY <1>3, <3>1, <3>2
<1>6. n \in Parts
  <2>1. 0 .. n \subseteq Parts
    BY <1>4, <1>5, UpTo
  <2> QED
    BY <2>1
<1>7. SubSeq(q, 1, n) = q
  BY <1>2
<1> QED
  BY <1>3, <1>6, <1>7

LEMMA RunTogether ==
  ASSUME NEW S, NEW V, NEW base, NEW step, Machine(step, base, S, V),
         NEW q \in Seq(V), NEW r \in Seq(V)
  PROVE  Run(step, base, q \o r) = Run(step, Run(step, base, q), r)
<1>1. PICK mid \in S : mid = Run(step, base, q)
  BY RunIn
<1>m. Machine(step, mid, S, V)
  BY DEF Machine
<1>2. PICK Fine : Fine = {e \in Seq(V) : Run(step, base, q \o e) = Run(step, mid, e)}
  OBVIOUS
<1>3. <<>> \in Fine
  <2>1. <<>> \in Seq(V) /\ q \o <<>> = q
    OBVIOUS
  <2>2. Run(step, mid, <<>>) = mid
    BY <1>m, RunEmpty
  <2> QED
    BY <1>1, <1>2, <2>1, <2>2
<1>4. ASSUME NEW e \in Seq(V), NEW x \in V, e \in Fine PROVE Append(e, x) \in Fine
  <2>0. q \o e \in Seq(V)
    OBVIOUS
  <2>1. PICK u \in Seq(V) : u = q \o e
    BY <2>0
  <2>2. q \o Append(e, x) = Append(u, x) /\ Append(e, x) \in Seq(V)
    BY <2>1
  <2>3. Run(step, base, Append(u, x)) = step[<<Run(step, base, u), x>>]
    BY RunOn
  <2>4. Run(step, mid, Append(e, x)) = step[<<Run(step, mid, e), x>>]
    BY <1>m, RunOn
  <2> QED
    BY <1>2, <1>4, <2>1, <2>2, <2>3, <2>4
<1>5. Seq(V) \subseteq Fine
  BY <1>3, <1>4, TokenByToken
<1> QED
  BY <1>1, <1>2, <1>5

-----------------------------------------------------------------------------
(* Tokens that were cut.                                                     *)

Firsts == {"openA", "closeA", "jsonA", "invA", "endA", "callA"}
Seconds == {"openB", "closeB", "jsonB", "invB", "endB", "callB"}

\* Two tokens are the halves of one; and that one.
Fit(a, b) == T!Join(a, b) # {}
Made(a, b) == CHOOSE w \in T!Join(a, b) : TRUE

LEMMA HalvesOf ==
  /\ T!Halves("open") = <<"openA", "openB">> /\ T!Halves("close") = <<"closeA", "closeB">>
  /\ T!Halves("json") = <<"jsonA", "jsonB">> /\ T!Halves("inv") = <<"invA", "invB">>
  /\ T!Halves("end") = <<"endA", "endB">> /\ T!Halves("call") = <<"callA", "callB">>
  BY DEF T!Halves

LEMMA Halving ==
  ASSUME NEW w \in T!Wholes
  PROVE  /\ T!Halves(w) = <<T!Halves(w)[1], T!Halves(w)[2]>>
         /\ T!Halves(w)[1] \in Firsts /\ T!Halves(w)[2] \in Seconds
         /\ w \notin Firsts /\ w \notin Seconds
         /\ T!Halves(w)[1] \notin Seconds /\ T!Halves(w)[2] \notin Firsts
         /\ T!Halves(w)[1] \notin T!Wholes /\ T!Halves(w)[2] \notin T!Wholes
  BY HalvesOf DEF T!Wholes, Firsts, Seconds

LEMMA HalvesDiffer ==
  ASSUME NEW w \in T!Wholes, NEW v \in T!Wholes,
         T!Halves(w)[1] = T!Halves(v)[1] \/ T!Halves(w)[2] = T!Halves(v)[2]
  PROVE  w = v
  BY HalvesOf DEF T!Wholes

LEMMA FitIs ==
  ASSUME NEW a, NEW b, Fit(a, b)
  PROVE  /\ Made(a, b) \in T!Wholes
         /\ a = T!Halves(Made(a, b))[1] /\ b = T!Halves(Made(a, b))[2]
         /\ a \in Firsts /\ b \in Seconds /\ a \notin Seconds /\ b \notin Firsts
         /\ a \notin T!Wholes /\ b \notin T!Wholes
<1>1. PICK w : w = Made(a, b)
  OBVIOUS
<1>2. w \in T!Join(a, b)
  BY <1>1 DEF Fit, Made
<1>3. w \in T!Wholes /\ T!Halves(w) = <<a, b>>
  BY <1>2 DEF T!Join
<1> QED
  BY <1>1, <1>3, Halving

LEMMA Fits ==
  ASSUME NEW w \in T!Wholes
  PROVE  Fit(T!Halves(w)[1], T!Halves(w)[2])
  BY Halving DEF Fit, T!Join

\* What a token makes of a text.
LEMMA AppendTokenIs ==
  ASSUME NEW text \in Texts, NEW x \in Tokens
  PROVE  /\ text = <<>> \/ ~Fit(T!Last(text), x) => T!AppendToken(text, x) = Append(text, x)
         /\ text # <<>> /\ Fit(T!Last(text), x) =>
              T!AppendToken(text, x) = Append(T!Front(text), Made(T!Last(text), x))
  BY DEF T!AppendToken, Fit, Made

\* The text but for its last token, and that token.
LEMMA LastOne ==
  ASSUME NEW V, NEW q \in Seq(V), q # <<>>
  PROVE  /\ T!Front(q) \in Seq(V) /\ T!Last(q) \in V /\ q = Append(T!Front(q), T!Last(q))
<1>1. Len(q) \in Nat \ {0}
  OBVIOUS
<1>2. T!Front(q) = SubSeq(q, 1, Len(q) - 1) /\ T!Last(q) = q[Len(q)]
  BY DEF T!Front, T!Last
<1> QED
  BY <1>1, <1>2

LEMMA LastAppended ==
  ASSUME NEW V, NEW q \in Seq(V), NEW x \in V
  PROVE  /\ Append(q, x) \in Seq(V) /\ Append(q, x) # <<>>
         /\ T!Last(Append(q, x)) = x /\ T!Front(Append(q, x)) = q
<1>1. PICK r : r = Append(q, x)
  OBVIOUS
<1>2. r \in Seq(V) /\ Len(r) = Len(q) + 1 /\ r[Len(r)] = x /\ r # <<>>
  BY <1>1
<1>3. SubSeq(r, 1, Len(r) - 1) = q
  BY <1>1
<1> QED
  BY <1>1, <1>2, <1>3 DEF T!Last, T!Front

LEMMA AppendOne ==
  ASSUME NEW text \in Texts, NEW x \in Tokens
  PROVE  /\ Append(text, x) \in Texts /\ Append(text, x) # <<>>
         /\ T!Last(Append(text, x)) = x /\ T!Front(Append(text, x)) = text
<1>1. PICK S : S = Tokens
  OBVIOUS
<1>2. text \in Seq(S) /\ x \in S
  BY <1>1 DEF Texts
<1>3. /\ Append(text, x) \in Seq(S) /\ Append(text, x) # <<>>
      /\ T!Last(Append(text, x)) = x /\ T!Front(Append(text, x)) = text
  BY <1>2, LastAppended
<1> QED
  BY <1>1, <1>3 DEF Texts

LEMMA EndOfText ==
  ASSUME NEW text \in Texts, text # <<>>
  PROVE  /\ T!Front(text) \in Texts /\ T!Last(text) \in Tokens
         /\ text = Append(T!Front(text), T!Last(text))
<1>1. PICK S : S = Tokens
  OBVIOUS
<1>2. text \in Seq(S)
  BY <1>1 DEF Texts
<1>3. /\ T!Front(text) \in Seq(S) /\ T!Last(text) \in S
      /\ text = Append(T!Front(text), T!Last(text))
  BY <1>2, LastOne
<1> QED
  BY <1>1, <1>3 DEF Texts

\* A token that is no second half stands behind the text.
LEMMA NoSecond ==
  ASSUME NEW text \in Texts, NEW x \in Tokens, x \notin Seconds
  PROVE  T!AppendToken(text, x) = Append(text, x)
<1>1. ~Fit(T!Last(text), x)
  BY FitIs
<1> QED
  BY <1>1, AppendTokenIs

\* The second half behind the first makes the token.
LEMMA SecondHalf ==
  ASSUME NEW text \in Texts, NEW a \in Tokens, NEW x \in Tokens, Fit(a, x)
  PROVE  T!AppendToken(Append(text, a), x) = Append(text, Made(a, x))
<1>1. PICK u \in Texts : u = Append(text, a) /\ u # <<>> /\ T!Last(u) = a /\ T!Front(u) = text
  BY AppendOne
<1>2. T!AppendToken(u, x) = Append(T!Front(u), Made(T!Last(u), x))
  BY <1>1, AppendTokenIs
<1> QED
  BY <1>1, <1>2

-----------------------------------------------------------------------------
(* Texts that are joined.                                                    *)

Joins == [p \in Texts \X Tokens |-> T!AppendToken(p[1], p[2])]
JoinTo(p, q) == Run(Joins, p, q)

LEMMA JoinsRun ==
  ASSUME NEW p \in Texts
  PROVE  Machine(Joins, p, Texts, Tokens)
  BY AppendTokenShape DEF Machine, Joins

LEMMA JoinToOn ==
  ASSUME NEW p \in Texts, NEW q \in Texts
  PROVE  /\ JoinTo(p, q) \in Texts
         /\ JoinTo(p, <<>>) = p
         /\ \A x \in Tokens : JoinTo(p, Append(q, x)) = T!AppendToken(JoinTo(p, q), x)
<1>1. q \in Seq(Tokens)
  BY DEF Texts
<1>2. Machine(Joins, p, Texts, Tokens)
  BY JoinsRun
<1>3. JoinTo(p, q) \in Texts
  BY <1>1, <1>2, RunIn DEF JoinTo
<1>4. JoinTo(p, <<>>) = p
  BY <1>2, RunEmpty DEF JoinTo
<1>5. ASSUME NEW x \in Tokens PROVE JoinTo(p, Append(q, x)) = T!AppendToken(JoinTo(p, q), x)
  <2>1. Run(Joins, p, Append(q, x)) = Joins[<<Run(Joins, p, q), x>>]
    BY <1>1, <1>2, RunOn
  <2>2. PICK u \in Texts : u = Run(Joins, p, q)
    BY <1>3 DEF JoinTo
  <2>3. Joins[<<u, x>>] = T!AppendToken(u, x)
    BY DEF Joins
  <2> QED
    BY <2>1, <2>2, <2>3 DEF JoinTo
<1> QED
  BY <1>3, <1>4, <1>5

LEMMA JoinToTogether ==
  ASSUME NEW p \in Texts, NEW q \in Texts, NEW r \in Texts
  PROVE  JoinTo(p, q \o r) = JoinTo(JoinTo(p, q), r)
<1>1. q \in Seq(Tokens) /\ r \in Seq(Tokens)
  BY DEF Texts
<1>2. Machine(Joins, p, Texts, Tokens)
  BY JoinsRun
<1>3. Run(Joins, p, q \o r) = Run(Joins, Run(Joins, p, q), r)
  BY <1>1, <1>2, RunTogether
<1> QED
  BY <1>3 DEF JoinTo

\* Joined is a run.
LEMMA JoinedIs ==
  ASSUME NEW text \in Texts
  PROVE  T!Joined(text) = JoinTo(<<>>, text)
<1>1. PICK n \in Nat : n = Len(text) /\ \A m \in 1 .. n : text[m] \in Tokens
  BY Counted
<1>2. PICK S : S = Texts
  OBVIOUS
<1>b. PICK base : base = <<>>
  OBVIOUS
<1>3. PICK step : step = [p \in S \X (1 .. n) |-> T!AppendToken(p[1], text[p[2]])]
  OBVIOUS
<1>4. base \in S /\ step \in [S \X (1 .. n) -> S]
  <2>1. ASSUME NEW r \in S, NEW m \in 1 .. n PROVE T!AppendToken(r, text[m]) \in S
    BY <1>1, <1>2, AppendTokenShape
  <2>2. base \in S
    BY <1>2, <1>b, EmptyText
  <2> QED
    BY <1>3, <2>1, <2>2
<1>5. PICK f : Loop(f, n, base, step, S)
  BY <1>4, LoopExists DEF Steps
<1>6. \A g : \A m \in 1 .. n : g[m - 1] \in S => T!AppendToken(g[m - 1], text[m]) = step[<<g[m - 1], m>>]
  BY <1>3
<1>7. \A m \in 1 .. n : f[m - 1] \in S /\ f[m] = T!AppendToken(f[m - 1], text[m])
  <2> TAKE m \in 1 .. n
  <2>1. f[m - 1] \in S /\ f[m] = step[<<f[m - 1], m>>]
    BY <1>5 DEF Loop
  <2> QED
    BY <1>6, <2>1
<1> DEFINE All(g) == g = [m \in 0 .. n |-> IF m = 0 THEN base ELSE T!AppendToken(g[m - 1], text[m])]
<1>8. All(f)
  <2>1. PICK h : h = [m \in 0 .. n |-> IF m = 0 THEN base ELSE T!AppendToken(f[m - 1], text[m])]
    OBVIOUS
  <2>2. \A m \in 0 .. n : h[m] = f[m]
    BY <1>5, <1>7, <2>1 DEF Loop
  <2> QED
    BY <1>5, <2>1, <2>2 DEF Loop
<1>9. PICK g : g = CHOOSE h : All(h)
  OBVIOUS
<1>10. T!Joined(text) = g[n]
  BY <1>1, <1>b, <1>9 DEF T!Joined
<1>11. All(g)
  BY <1>8, <1>9
<1>12. Follows(g, n, base, step, S)
  <2>1. PICK h : h = [m \in 0 .. n |-> IF m = 0 THEN base ELSE T!AppendToken(g[m - 1], text[m])]
    OBVIOUS
  <2>2. g = h
    BY <1>11, <2>1
  <2>3. h = [m \in 0 .. n |-> h[m]] /\ h[0] = base
    BY <2>1
  <2>4. \A m \in 1 .. n : h[m] = T!AppendToken(g[m - 1], text[m])
    BY <2>1
  <2> HIDE DEF All
  <2> QED
    BY <1>6, <2>2, <2>3, <2>4 DEF Follows
<1>13. g = f
  BY <1>5, <1>12, OnlyOne
<1> HIDE DEF All
<1>14. Through(f, Joins, base, text, S)
  <2>1. \A m \in 1 .. n : f[m] = Joins[<<f[m - 1], text[m]>>]
    BY <1>1, <1>2, <1>7 DEF Joins
  <2> QED
    BY <1>1, <1>5, <2>1 DEF Loop, Through
<1>15. Machine(Joins, base, S, Tokens) /\ text \in Seq(Tokens)
  BY <1>2, <1>b, EmptyText, JoinsRun DEF Texts
<1>16. Run(Joins, base, text) = f[Len(text)]
  BY <1>14, <1>15, RunEnds
<1> QED
  BY <1>1, <1>b, <1>10, <1>13, <1>16 DEF JoinTo

\* To join what is joined already changes nothing.
LEMMA JoinJoined ==
  ASSUME NEW p \in Texts, NEW q \in Texts
  PROVE  JoinTo(p, JoinTo(<<>>, q)) = JoinTo(p, q)
<1>1. PICK Fine : Fine = {e \in Texts : JoinTo(p, JoinTo(<<>>, e)) = JoinTo(p, e)}
  OBVIOUS
<1>2. PICK none \in Texts : none = <<>>
  BY EmptyText
<1>3. none \in Fine
  BY <1>1, <1>2, JoinToOn
<1>4. ASSUME NEW e \in Texts, NEW x \in Tokens, e \in Fine PROVE Append(e, x) \in Fine
  <2>1. PICK d \in Texts : d = JoinTo(none, e)
    BY <1>2, JoinToOn
  <2>2. PICK u \in Texts : u = JoinTo(p, d)
    BY JoinToOn
  <2>3. JoinTo(p, e) = u
    BY <1>1, <1>2, <1>4, <2>1, <2>2
  <2>4. JoinTo(p, Append(e, x)) = T!AppendToken(u, x)
    BY <2>3, JoinToOn
  <2>5. JoinTo(none, Append(e, x)) = T!AppendToken(d, x)
    BY <1>2, <2>1, JoinToOn
  <2>6. CASE d = <<>> \/ ~Fit(T!Last(d), x)
    <3>1. T!AppendToken(d, x) = Append(d, x)
      BY <2>6, AppendTokenIs
    <3>2. JoinTo(p, Append(d, x)) = T!AppendToken(u, x)
      BY <2>2, JoinToOn
    <3> QED
      BY <1>1, <1>2, <2>4, <2>5, <3>1, <3>2, AppendOne
  <2>7. CASE d # <<>> /\ Fit(T!Last(d), x)
    <3>1. PICK b \in Texts, l \in Tokens : b = T!Front(d) /\ l = T!Last(d) /\ d = Append(b, l)
      BY <2>7, EndOfText
    <3>2. Fit(l, x)
      BY <2>7, <3>1
    <3>3. PICK w \in T!Wholes : w = Made(l, x)
      BY <3>2, FitIs
    <3>4. w \in Tokens /\ w \notin Seconds /\ l \notin Seconds
      BY <3>2, <3>3, FitIs, Halving, MarksAreTokens
    <3>5. PICK c \in Texts : c = JoinTo(p, b)
      BY JoinToOn
    <3>6. u = T!AppendToken(c, l)
      <4>1. JoinTo(p, Append(b, l)) = T!AppendToken(JoinTo(p, b), l)
        BY JoinToOn
      <4> QED
        BY <2>2, <3>1, <3>5, <4>1
    <3>7. u = Append(c, l)
      BY <3>4, <3>6, NoSecond
    <3>8. T!AppendToken(u, x) = Append(c, w)
      BY <3>2, <3>3, <3>7, SecondHalf
    <3>9. T!AppendToken(d, x) = Append(b, w)
      <4>1. T!AppendToken(Append(b, l), x) = Append(b, Made(l, x))
        BY <3>2, SecondHalf
      <4> QED
        BY <3>1, <3>3, <4>1
    <3>10. JoinTo(p, Append(b, w)) = T!AppendToken(c, w)
      BY <3>4, <3>5, JoinToOn
    <3>11. T!AppendToken(c, w) = Append(c, w)
      BY <3>4, NoSecond
    <3> QED
      BY <1>1, <1>2, <2>4, <2>5, <3>8, <3>9, <3>10, <3>11, AppendOne
  <2> QED
    BY <2>6, <2>7
<1>5. PICK S : S = Tokens
  OBVIOUS
<1>6. Seq(S) \subseteq Fine
  <2>1. \A e \in Seq(S) : \A x \in S : e \in Fine => Append(e, x) \in Fine
    BY <1>4, <1>5 DEF Texts
  <2>2. <<>> \in Fine
    BY <1>2, <1>3
  <2> QED
    BY <2>1, <2>2, TokenByToken
<1> QED
  BY <1>1, <1>5, <1>6 DEF Texts

\* What a text is made of, and what its halves make, it is made of when it is joined.
LEMMA JoinedOf ==
  ASSUME NEW V \in SUBSET Tokens, \A a, b \in V : Fit(a, b) => Made(a, b) \in V,
         NEW p \in Seq(V), NEW q \in Seq(V)
  PROVE  JoinTo(p, q) \in Seq(V)
<1>1. PICK Fine : Fine = {e \in Seq(V) : JoinTo(p, e) \in Seq(V)}
  OBVIOUS
<1>2. Seq(V) \subseteq Texts
  <2>1. PICK S : S = Tokens
    OBVIOUS
  <2>2. V \subseteq S
    BY <2>1
  <2>3. Seq(V) \subseteq Seq(S)
    BY <2>2
  <2> QED
    BY <2>1, <2>3 DEF Texts
<1>3. <<>> \in Fine
  <2>1. <<>> \in Seq(V)
    OBVIOUS
  <2>2. JoinTo(p, <<>>) = p
    BY <1>2, EmptyText, JoinToOn
  <2> QED
    BY <1>1, <2>1, <2>2
<1>4. ASSUME NEW e \in Seq(V), NEW x \in V, e \in Fine PROVE Append(e, x) \in Fine
  <2>1. PICK u \in Seq(V) : u = JoinTo(p, e)
    BY <1>1, <1>4
  <2>2. u \in Texts /\ e \in Texts /\ p \in Texts /\ x \in Tokens
    BY <1>2
  <2>3. JoinTo(p, Append(e, x)) = T!AppendToken(u, x)
    BY <2>1, <2>2, JoinToOn
  <2>4. T!AppendToken(u, x) \in Seq(V)
    <3>1. CASE u = <<>> \/ ~Fit(T!Last(u), x)
      <4>1. T!AppendToken(u, x) = Append(u, x)
        BY <2>2, <3>1, AppendTokenIs
      <4> QED
        BY <4>1, LastAppended
    <3>2. CASE u # <<>> /\ Fit(T!Last(u), x)
      <4>1. T!AppendToken(u, x) = Append(T!Front(u), Made(T!Last(u), x))
        BY <2>2, <3>2, AppendTokenIs
      <4>2. T!Front(u) \in Seq(V) /\ T!Last(u) \in V
        BY <3>2, LastOne
      <4>3. Made(T!Last(u), x) \in V
        BY <3>2, <4>2
      <4> QED
        BY <4>1, <4>2, <4>3, LastAppended
    <3> QED
      BY <3>1, <3>2
  <2>5. Append(e, x) \in Seq(V)
    BY LastAppended
  <2> QED
    BY <1>1, <2>3, <2>4, <2>5
<1>5. Seq(V) \subseteq Fine
  BY <1>3, <1>4, TokenByToken
<1> QED
  BY <1>1, <1>5

-----------------------------------------------------------------------------
(* A reader of a text: on which side of the tags it is, and the text of each *)
(* side, TRUE being the thoughts.                                            *)

Readers == [inside : BOOLEAN, text : [BOOLEAN -> Texts]]

ReadToken(k, x) ==
  IF x = T!Tag(k.inside) THEN [k EXCEPT !.inside = ~@]
  ELSE [k EXCEPT !.text[k.inside] = T!AppendToken(@, x)]
Reads == [p \in Readers \X Tokens |-> ReadToken(p[1], p[2])]
Read(k, q) == Run(Reads, k, q)

LEMMA TagIs ==
  ASSUME NEW inside
  PROVE  /\ T!Tag(inside) \in T!Wholes /\ T!Tag(inside) \in Tokens
         /\ T!Tag(inside) \notin Firsts /\ T!Tag(inside) \notin Seconds
<1>1. T!Tag(inside) \in T!Wholes
  BY DEF T!Tag, T!Wholes
<1> QED
  BY <1>1, MarksAreTokens, Halving

LEMMA ReadTokenShape ==
  ASSUME NEW k \in Readers, NEW x \in Tokens
  PROVE  ReadToken(k, x) \in Readers
<1>1. k.inside \in BOOLEAN /\ k.text \in [BOOLEAN -> Texts]
  BY DEF Readers
<1>2. k.text[k.inside] \in Texts
  BY <1>1
<1>3. PICK u \in Texts : u = T!AppendToken(k.text[k.inside], x)
  BY <1>2, AppendTokenShape
<1>4. PICK t : t = [k.text EXCEPT ![k.inside] = u]
  OBVIOUS
<1>5. t \in [BOOLEAN -> Texts]
  BY <1>1, <1>4
<1>6. CASE x = T!Tag(k.inside)
  <2>1. ReadToken(k, x) = [k EXCEPT !.inside = ~@]
    BY <1>6 DEF ReadToken
  <2> QED
    BY <1>1, <2>1 DEF Readers
<1>7. CASE x # T!Tag(k.inside)
  <2>1. ReadToken(k, x) = [k EXCEPT !.text = t]
    BY <1>3, <1>4, <1>7 DEF ReadToken, Readers
  <2> QED
    BY <1>1, <1>5, <2>1 DEF Readers
<1> QED
  BY <1>6, <1>7

\* A token that is no tag is of the side on which the reader is.
LEMMA ReadWord ==
  ASSUME NEW k \in Readers, NEW x \in Tokens, x # T!Tag(k.inside)
  PROVE  LET a == ReadToken(k, x) IN
         /\ a \in Readers /\ a.inside = k.inside
         /\ a.text = [k.text EXCEPT ![k.inside] = T!AppendToken(@, x)]
<1>1. ReadToken(k, x) = [k EXCEPT !.text[k.inside] = T!AppendToken(@, x)]
  BY DEF ReadToken
<1> QED
  BY <1>1, ReadTokenShape DEF Readers

LEMMA ReadTag ==
  ASSUME NEW k \in Readers
  PROVE  LET a == ReadToken(k, T!Tag(k.inside)) IN
         a \in Readers /\ a.inside = ~k.inside /\ a.text = k.text
<1>1. ReadToken(k, T!Tag(k.inside)) = [k EXCEPT !.inside = ~@]
  BY DEF ReadToken
<1> QED
  BY <1>1, TagIs, ReadTokenShape DEF Readers

LEMMA SameReader ==
  ASSUME NEW k \in Readers, NEW a \in Readers, a.inside = k.inside, a.text = k.text
  PROVE  a = k
  BY DEF Readers

LEMMA ReadRuns ==
  ASSUME NEW k \in Readers
  PROVE  Machine(Reads, k, Readers, Tokens)
  BY ReadTokenShape DEF Machine, Reads

LEMMA ReadOn ==
  ASSUME NEW k \in Readers, NEW q \in Texts
  PROVE  /\ Read(k, q) \in Readers
         /\ Read(k, <<>>) = k
         /\ \A x \in Tokens : Read(k, Append(q, x)) = ReadToken(Read(k, q), x)
<1>1. q \in Seq(Tokens)
  BY DEF Texts
<1>2. Machine(Reads, k, Readers, Tokens)
  BY ReadRuns
<1>3. Read(k, q) \in Readers
  BY <1>1, <1>2, RunIn DEF Read
<1>4. Read(k, <<>>) = k
  BY <1>2, RunEmpty DEF Read
<1>5. ASSUME NEW x \in Tokens PROVE Read(k, Append(q, x)) = ReadToken(Read(k, q), x)
  <2>1. Run(Reads, k, Append(q, x)) = Reads[<<Run(Reads, k, q), x>>]
    BY <1>1, <1>2, RunOn
  <2>2. PICK u \in Readers : u = Run(Reads, k, q)
    BY <1>3 DEF Read
  <2>3. Reads[<<u, x>>] = ReadToken(u, x)
    BY DEF Reads
  <2> QED
    BY <2>1, <2>2, <2>3 DEF Read
<1> QED
  BY <1>3, <1>4, <1>5

-----------------------------------------------------------------------------
(* The half of a tag at the end of a text, and what the next token makes of  *)
(* the reader.                                                               *)

\* The text of the reader's side is one token shorter, and it is on the other side.
Unread(k) == [inside |-> ~k.inside, text |-> [k.text EXCEPT ![k.inside] = T!Front(@)]]

ReadNext(k, held, x) ==
  IF held # <<>> /\ x = T!Halves(T!Tag(k.inside))[2] THEN Unread(k) ELSE ReadToken(k, x)

\* What is held of a text that ends with x.
HeldNext(inside, x) == IF x = T!Halves(T!Tag(inside))[1] THEN <<x>> ELSE <<>>

LEMMA HeldIs ==
  ASSUME NEW inside, NEW text \in Texts
  PROVE  /\ text = <<>> => T!Held(inside, text) = <<>>
         /\ text # <<>> => T!Held(inside, text) = HeldNext(inside, T!Last(text))
  BY DEF T!Held, HeldNext

LEMMA HeldAppended ==
  ASSUME NEW inside, NEW text \in Texts, NEW x \in Tokens
  PROVE  T!Held(inside, T!AppendToken(text, x)) = HeldNext(inside, x)
<1>1. CASE text = <<>> \/ ~Fit(T!Last(text), x)
  <2>1. T!AppendToken(text, x) = Append(text, x)
    BY <1>1, AppendTokenIs
  <2>2. Append(text, x) \in Texts /\ Append(text, x) # <<>> /\ T!Last(Append(text, x)) = x
    BY AppendOne
  <2> QED
    BY <2>1, <2>2, HeldIs
<1>2. CASE text # <<>> /\ Fit(T!Last(text), x)
  <2>1. PICK w \in T!Wholes : w = Made(T!Last(text), x)
    BY <1>2, FitIs
  <2>2. w \in Tokens
    BY MarksAreTokens
  <2>3. T!AppendToken(text, x) = Append(T!Front(text), w)
    BY <1>2, <2>1, AppendTokenIs
  <2>4. PICK b \in Texts : b = T!Front(text)
    BY <1>2, EndOfText
  <2>5. Append(b, w) \in Texts /\ Append(b, w) # <<>> /\ T!Last(Append(b, w)) = w
    BY <2>2, AppendOne
  <2>6. T!Held(inside, Append(b, w)) = HeldNext(inside, w)
    BY <2>5, HeldIs
  <2>7. T!Halves(T!Tag(inside))[1] \notin T!Wholes /\ T!Halves(T!Tag(inside))[1] \in Firsts
    BY TagIs, Halving
  <2>8. x \notin Firsts
    BY <1>2, FitIs
  <2> QED
    BY <2>3, <2>4, <2>6, <2>7, <2>8 DEF HeldNext
<1> QED
  BY <1>1, <1>2

LEMMA ReadJoined ==
  ASSUME NEW k \in Readers, NEW text \in Texts, NEW x \in Tokens
  PROVE  LET a == Read(k, text) IN
         Read(k, T!AppendToken(text, x)) = ReadNext(a, T!Held(a.inside, text), x)
<1>1. PICK a \in Readers : a = Read(k, text)
  BY ReadOn
<1>2. PICK tag \in T!Wholes : tag = T!Tag(a.inside)
  BY TagIs
<1>3. PICK held : held = T!Held(a.inside, text)
  OBVIOUS
<1>4. CASE text = <<>> \/ ~Fit(T!Last(text), x)
  <2>1. T!AppendToken(text, x) = Append(text, x)
    BY <1>4, AppendTokenIs
  <2>2. Read(k, Append(text, x)) = ReadToken(a, x)
    BY <1>1, ReadOn
  <2>3. ~(held # <<>> /\ x = T!Halves(tag)[2])
    <3>1. SUFFICES ASSUME held # <<>>, x = T!Halves(tag)[2] PROVE FALSE
      OBVIOUS
    <3>2. text # <<>> /\ T!Last(text) = T!Halves(tag)[1]
      BY <1>2, <1>3, <3>1, HeldIs DEF HeldNext
    <3>3. Fit(T!Last(text), x)
      BY <3>1, <3>2, Fits
    <3> QED
      BY <1>4, <3>2, <3>3
  <2> QED
    BY <1>1, <1>2, <1>3, <2>1, <2>2, <2>3 DEF ReadNext
<1>5. CASE text # <<>> /\ Fit(T!Last(text), x)
  <2>1. PICK b \in Texts, l \in Tokens : b = T!Front(text) /\ l = T!Last(text) /\ text = Append(b, l)
    BY <1>5, EndOfText
  <2>2. Fit(l, x)
    BY <1>5, <2>1
  <2>3. PICK w \in T!Wholes : w = Made(l, x) /\ l = T!Halves(w)[1] /\ x = T!Halves(w)[2]
    BY <2>2, FitIs
  <2>4. w \in Tokens /\ w \notin Seconds /\ l \notin Seconds /\ l \notin T!Wholes /\ x \notin T!Wholes
    BY <2>2, FitIs, Halving, MarksAreTokens
  <2>5. PICK c \in Readers : c = Read(k, b)
    BY ReadOn
  <2>6. a = ReadToken(c, l)
    <3>1. Read(k, Append(b, l)) = ReadToken(Read(k, b), l)
      BY ReadOn
    <3> QED
      BY <1>1, <2>1, <2>5, <3>1
  <2>7. PICK i \in BOOLEAN, u \in [BOOLEAN -> Texts] : i = c.inside /\ u = c.text
    BY DEF Readers
  <2>8. u[i] \in Texts
    OBVIOUS
  <2>9. a.inside = i /\ a.text = [u EXCEPT ![i] = Append(@, l)]
    <3>1. l # T!Tag(c.inside)
      BY <2>4, TagIs
    <3>2. a.inside = c.inside /\ a.text = [c.text EXCEPT ![c.inside] = T!AppendToken(@, l)]
      BY <2>6, <3>1, ReadWord
    <3>3. T!AppendToken(u[i], l) = Append(u[i], l)
      BY <2>4, <2>8, NoSecond
    <3> QED
      BY <2>7, <3>2, <3>3
  <2>10. Read(k, T!AppendToken(text, x)) = ReadToken(c, w)
    <3>1. T!AppendToken(Append(b, l), x) = Append(b, Made(l, x))
      BY <2>2, SecondHalf
    <3>2. Read(k, Append(b, w)) = ReadToken(Read(k, b), w)
      BY <2>4, ReadOn
    <3> QED
      BY <2>1, <2>3, <2>5, <3>1, <3>2
  <2>11. T!Held(a.inside, text) = HeldNext(a.inside, l)
    BY <2>1, <1>5, HeldIs
  <2>12. CASE w = tag
    <3>1. held # <<>> /\ x = T!Halves(T!Tag(a.inside))[2]
      BY <1>2, <1>3, <2>3, <2>11, <2>12 DEF HeldNext
    <3>2. ReadNext(a, held, x) = Unread(a)
      BY <3>1 DEF ReadNext
    <3>3. PICK d \in Readers : d = ReadToken(c, w) /\ d.inside = ~i /\ d.text = u
      <4>1. w = T!Tag(c.inside)
        BY <1>2, <2>7, <2>9, <2>12
      <4> QED
        BY <2>7, <4>1, ReadTag
    <3>4. T!Front(a.text[a.inside]) = u[i]
      <4>1. a.text[i] = Append(u[i], l)
        BY <2>9
      <4> QED
        BY <2>8, <2>9, <4>1, AppendOne
    <3>5. [a.text EXCEPT ![a.inside] = T!Front(@)] = u
      BY <2>9, <3>4
    <3>6. Unread(a) = d
      <4>1. Unread(a) \in Readers /\ Unread(a).inside = ~i /\ Unread(a).text = u
        BY <2>9, <3>5 DEF Unread, Readers
      <4> QED
        BY <3>3, <4>1, SameReader
    <3> QED
      BY <1>1, <1>3, <2>10, <3>2, <3>3, <3>6
  <2>13. CASE w # tag
    <3>1. x # T!Halves(T!Tag(a.inside))[2]
      BY <1>2, <2>3, <2>13, HalvesDiffer
    <3>2. ReadNext(a, held, x) = ReadToken(a, x)
      BY <3>1 DEF ReadNext
    <3>3. PICK d \in Readers : d = ReadToken(c, w) /\ d.inside = i
                               /\ d.text = [u EXCEPT ![i] = T!AppendToken(@, w)]
      <4>1. w # T!Tag(c.inside)
        BY <1>2, <2>7, <2>9, <2>13
      <4> QED
        BY <2>4, <2>7, <4>1, ReadWord
    <3>4. PICK e \in Readers : e = ReadToken(a, x) /\ e.inside = i
                               /\ e.text = [a.text EXCEPT ![i] = T!AppendToken(@, x)]
      <4>1. x # T!Tag(a.inside)
        BY <2>4, TagIs
      <4>2. /\ ReadToken(a, x) \in Readers /\ ReadToken(a, x).inside = a.inside
            /\ ReadToken(a, x).text = [a.text EXCEPT ![a.inside] = T!AppendToken(@, x)]
        BY <4>1, ReadWord
      <4>3. a.inside = i
        BY <2>9
      <4> QED
        BY <4>2, <4>3
    <3>5. T!AppendToken(u[i], w) = Append(u[i], w)
      BY <2>4, <2>8, NoSecond
    <3>6. T!AppendToken(Append(u[i], l), x) = Append(u[i], w)
      BY <2>2, <2>3, <2>8, SecondHalf
    <3>7. a.text[i] = Append(u[i], l)
      BY <2>9
    <3>8. d.text = e.text
      BY <2>9, <3>3, <3>4, <3>5, <3>6, <3>7
    <3>9. d = e
      BY <3>3, <3>4, <3>8, SameReader
    <3> QED
      BY <1>1, <1>3, <2>10, <3>2, <3>3, <3>4, <3>9
  <2> QED
    BY <2>12, <2>13
<1> QED
  BY <1>4, <1>5

\* Two texts that two readers have read, and that go on alike: the readers agree, and of
\* both texts the same is held.
Alike(k, p, m, q) ==
  Read(k, p) = Read(m, q) /\ T!Held(Read(k, p).inside, p) = T!Held(Read(k, p).inside, q)

LEMMA ReadAlike ==
  ASSUME NEW k \in Readers, NEW m \in Readers, NEW p \in Texts, NEW q \in Texts,
         Alike(k, p, m, q), NEW text \in Texts
  PROVE  Alike(k, JoinTo(p, text), m, JoinTo(q, text))
<1>1. PICK Fine : Fine = {e \in Texts : Alike(k, JoinTo(p, e), m, JoinTo(q, e))}
  OBVIOUS
<1>2. <<>> \in Fine
  <2>1. JoinTo(p, <<>>) = p /\ JoinTo(q, <<>>) = q
    BY EmptyText, JoinToOn
  <2> QED
    BY <1>1, <2>1, EmptyText
<1>3. ASSUME NEW e \in Texts, NEW x \in Tokens, e \in Fine PROVE Append(e, x) \in Fine
  <2>1. PICK u \in Texts, v \in Texts : u = JoinTo(p, e) /\ v = JoinTo(q, e)
    BY JoinToOn
  <2>2. PICK a \in Readers : a = Read(k, u)
    BY ReadOn
  <2>3. a = Read(m, v) /\ T!Held(a.inside, u) = T!Held(a.inside, v)
    BY <1>1, <1>3, <2>1, <2>2 DEF Alike
  <2>4. JoinTo(p, Append(e, x)) = T!AppendToken(u, x) /\ JoinTo(q, Append(e, x)) = T!AppendToken(v, x)
    BY <2>1, JoinToOn
  <2>5. Read(k, T!AppendToken(u, x)) = ReadNext(a, T!Held(a.inside, u), x)
    BY <2>2, ReadJoined
  <2>6. Read(m, T!AppendToken(v, x)) = ReadNext(a, T!Held(a.inside, v), x)
    BY <2>3, ReadJoined
  <2>7. PICK b : b = Read(k, T!AppendToken(u, x)) /\ b = Read(m, T!AppendToken(v, x))
    BY <2>3, <2>5, <2>6
  <2>8. T!Held(b.inside, T!AppendToken(u, x)) = T!Held(b.inside, T!AppendToken(v, x))
    BY HeldAppended
  <2>9. Alike(k, T!AppendToken(u, x), m, T!AppendToken(v, x))
    BY <2>7, <2>8 DEF Alike
  <2> QED
    BY <1>1, <2>4, <2>9, AppendOne
<1>4. PICK S : S = Tokens
  OBVIOUS
<1>5. Seq(S) \subseteq Fine
  <2>1. \A e \in Seq(S) : \A x \in S : e \in Fine => Append(e, x) \in Fine
    BY <1>3, <1>4 DEF Texts
  <2> QED
    BY <1>2, <2>1, TokenByToken
<1> QED
  BY <1>1, <1>4, <1>5 DEF Texts

\* What is held is nothing or one token, and no tag.
LEMMA HeldOne ==
  ASSUME NEW inside \in BOOLEAN, NEW text \in Texts
  PROVE  LET held == T!Held(inside, text) IN
         /\ held \in Texts
         /\ held = <<>> \/ /\ text # <<>> /\ held = <<T!Last(text)>>
                           /\ T!Last(text) = T!Halves(T!Tag(inside))[1]
                           /\ T!Last(text) \in Tokens /\ T!Last(text) \notin Seconds
                           /\ T!Last(text) # T!Tag(inside)
         /\ T!Held(inside, held) = held
         /\ JoinTo(<<>>, held) = held
<1>1. PICK held : held = T!Held(inside, text)
  OBVIOUS
<1>2. PICK none \in Texts : none = <<>>
  BY EmptyText
<1>3. CASE held = <<>>
  <2>1. JoinTo(none, none) = none /\ T!Held(inside, none) = none
    BY <1>2, JoinToOn, HeldIs
  <2> QED
    BY <1>1, <1>2, <1>3, <2>1
<1>4. CASE held # <<>>
  <2>1. text # <<>> /\ T!Last(text) = T!Halves(T!Tag(inside))[1] /\ held = <<T!Last(text)>>
    BY <1>1, <1>4, HeldIs DEF HeldNext
  <2>2. PICK l \in Tokens : l = T!Last(text)
    BY <2>1, EndOfText
  <2>3. l \notin Seconds /\ l # T!Tag(inside)
    BY <2>1, <2>2, TagIs, Halving
  <2>4. held = Append(none, l)
    BY <1>2, <2>1, <2>2
  <2>5. held \in Texts /\ T!Last(held) = l /\ held # <<>>
    BY <2>4, AppendOne
  <2>6. T!Held(inside, held) = held
    BY <2>1, <2>2, <2>5, HeldIs DEF HeldNext
  <2>7. JoinTo(none, held) = held
    <3>1. JoinTo(none, Append(none, l)) = T!AppendToken(JoinTo(none, none), l)
      BY JoinToOn
    <3>2. JoinTo(none, none) = none
      BY <1>2, JoinToOn
    <3>3. T!AppendToken(none, l) = Append(none, l)
      BY <2>3, NoSecond
    <3> QED
      BY <2>4, <3>1, <3>2, <3>3
  <2> QED
    BY <1>1, <1>2, <2>1, <2>2, <2>3, <2>5, <2>6, <2>7
<1> QED
  BY <1>3, <1>4

\* A reader that reads what is held.
LEMMA ReadHeld ==
  ASSUME NEW k \in Readers, NEW text \in Texts
  PROVE  LET held == T!Held(k.inside, text)
             a == Read(k, held)
         IN a \in Readers /\ a.inside = k.inside /\ a.text = [k.text EXCEPT ![k.inside] = JoinTo(@, held)]
<1>0. k.inside \in BOOLEAN /\ k.text \in [BOOLEAN -> Texts]
  BY DEF Readers
<1>1. PICK held \in Texts : held = T!Held(k.inside, text)
  BY <1>0, HeldOne
<1>2. PICK none \in Texts : none = <<>>
  BY EmptyText
<1>3. PICK u \in Texts : u = k.text[k.inside]
  BY <1>0
<1>4. CASE held = <<>>
  <2>1. Read(k, none) = k /\ JoinTo(u, none) = u
    BY <1>2, ReadOn, JoinToOn
  <2>2. [k.text EXCEPT ![k.inside] = u] = k.text
    BY <1>0, <1>3
  <2> QED
    BY <1>1, <1>2, <1>3, <1>4, <2>1, <2>2
<1>5. CASE held # <<>>
  <2>1. PICK l \in Tokens : held = <<l>> /\ l # T!Tag(k.inside) /\ l \notin Seconds
    BY <1>0, <1>1, <1>5, HeldOne
  <2>2. held = Append(none, l)
    BY <1>2, <2>1
  <2>3. Read(k, held) = ReadToken(k, l)
    <3>1. Read(k, Append(none, l)) = ReadToken(Read(k, none), l)
      BY ReadOn
    <3>2. Read(k, none) = k
      BY <1>2, ReadOn
    <3> QED
      BY <2>2, <3>1, <3>2
  <2>4. JoinTo(u, held) = T!AppendToken(u, l)
    <3>1. JoinTo(u, Append(none, l)) = T!AppendToken(JoinTo(u, none), l)
      BY JoinToOn
    <3>2. JoinTo(u, none) = u
      BY <1>2, JoinToOn
    <3> QED
      BY <2>2, <3>1, <3>2
  <2>5. /\ ReadToken(k, l) \in Readers /\ ReadToken(k, l).inside = k.inside
        /\ ReadToken(k, l).text = [k.text EXCEPT ![k.inside] = T!AppendToken(@, l)]
    BY <2>1, ReadWord
  <2> QED
    BY <1>1, <1>3, <2>3, <2>4, <2>5
<1> QED
  BY <1>4, <1>5

\* What the code scans: what it held, and the text of the chunk.
LEMMA HeldAndMore ==
  ASSUME NEW k \in Readers, NEW heard \in Texts, NEW m \in Readers, NEW text \in Texts,
         LET a == Read(k, heard)
             held == T!Held(a.inside, heard)
         IN /\ m.inside = a.inside
            /\ a.text = [m.text EXCEPT ![m.inside] = JoinTo(@, held)]
  PROVE  LET held == T!Held(Read(k, heard).inside, heard)
             source == T!Joined(held \o text)
         IN source \in Texts /\ Alike(k, JoinTo(heard, text), m, source)
<1>1. PICK a \in Readers : a = Read(k, heard)
  BY ReadOn
<1>2. PICK held \in Texts : held = T!Held(a.inside, heard) /\ T!Held(a.inside, held) = held
                            /\ JoinTo(<<>>, held) = held
  <2>1. a.inside \in BOOLEAN
    BY DEF Readers
  <2> QED
    BY <2>1, HeldOne
<1>3. m.inside = a.inside /\ a.text = [m.text EXCEPT ![m.inside] = JoinTo(@, held)]
  BY <1>1, <1>2
<1>4. Read(m, held) = a
  <2>1. T!Held(m.inside, heard) = held
    BY <1>2, <1>3
  <2>2. /\ Read(m, held) \in Readers /\ Read(m, held).inside = m.inside
        /\ Read(m, held).text = [m.text EXCEPT ![m.inside] = JoinTo(@, held)]
    BY <2>1, ReadHeld
  <2> QED
    BY <1>3, <2>2, SameReader
<1>5. Alike(k, heard, m, held)
  BY <1>1, <1>2, <1>4 DEF Alike
<1>6. T!Joined(held \o text) = JoinTo(held, text)
  <2>1. held \o text \in Texts
    BY Together
  <2>2. T!Joined(held \o text) = JoinTo(<<>>, held \o text)
    BY <2>1, JoinedIs
  <2>3. JoinTo(<<>>, held \o text) = JoinTo(JoinTo(<<>>, held), text)
    BY EmptyText, JoinToTogether
  <2> QED
    BY <1>2, <2>2, <2>3
<1>7. JoinTo(held, text) \in Texts
  BY JoinToOn
<1>8. Alike(k, JoinTo(heard, text), m, JoinTo(held, text))
  BY <1>5, ReadAlike
<1> QED
  BY <1>1, <1>2, <1>6, <1>7, <1>8

-----------------------------------------------------------------------------
(* The pieces of a scanned text, and what they tell.                         *)

Sides == [BOOLEAN -> Texts]
Tells == [p \in Sides \X Pieces |-> [p[1] EXCEPT ![p[2].kind = "think"] = JoinTo(@, p[2].text)]]
Shown(t, pieces) == Run(Tells, t, pieces)

LEMMA SideOn ==
  ASSUME NEW t \in Sides, NEW inside \in BOOLEAN, NEW text \in Texts
  PROVE  [t EXCEPT ![inside] = JoinTo(@, text)] \in Sides
<1>1. t[inside] \in Texts
  BY DEF Sides
<1>2. JoinTo(t[inside], text) \in Texts
  BY <1>1, JoinToOn
<1> QED
  BY <1>2 DEF Sides

LEMMA ShownOn ==
  ASSUME NEW t \in Sides, NEW pieces \in Seq(Pieces)
  PROVE  /\ Shown(t, pieces) \in Sides
         /\ Shown(t, <<>>) = t
         /\ \A p \in Pieces : Shown(t, Append(pieces, p))
                                = [Shown(t, pieces) EXCEPT ![p.kind = "think"] = JoinTo(@, p.text)]
<1>1. Machine(Tells, t, Sides, Pieces)
  <2>1. ASSUME NEW u \in Sides, NEW p \in Pieces
        PROVE  [u EXCEPT ![p.kind = "think"] = JoinTo(@, p.text)] \in Sides
    <3>1. p.text \in Texts
      BY DEF Pieces
    <3>2. PICK b \in BOOLEAN : b = (p.kind = "think")
      OBVIOUS
    <3>3. [u EXCEPT ![b] = JoinTo(@, p.text)] \in Sides
      BY <3>1, SideOn
    <3> QED
      BY <3>2, <3>3
  <2> QED
    BY <2>1 DEF Machine, Tells
<1>2. Shown(t, pieces) \in Sides
  BY <1>1, RunIn DEF Shown
<1>3. Shown(t, <<>>) = t
  BY <1>1, RunEmpty DEF Shown
<1>4. ASSUME NEW p \in Pieces
      PROVE  Shown(t, Append(pieces, p)) = [Shown(t, pieces) EXCEPT ![p.kind = "think"] = JoinTo(@, p.text)]
  <2>1. Run(Tells, t, Append(pieces, p)) = Tells[<<Run(Tells, t, pieces), p>>]
    BY <1>1, RunOn
  <2>2. PICK u \in Sides : u = Run(Tells, t, pieces)
    BY <1>2 DEF Shown
  <2>3. Tells[<<u, p>>] = [u EXCEPT ![p.kind = "think"] = JoinTo(@, p.text)]
    BY DEF Tells
  <2> QED
    BY <2>1, <2>2, <2>3 DEF Shown
<1> QED
  BY <1>2, <1>3, <1>4

LEMMA ShownPiece ==
  ASSUME NEW t \in Sides, NEW pieces \in Seq(Pieces), NEW inside \in BOOLEAN, NEW text \in Texts
  PROVE  Shown(t, pieces \o T!Piece(inside, text)) = [Shown(t, pieces) EXCEPT ![inside] = JoinTo(@, text)]
<1>1. PICK u \in Sides : u = Shown(t, pieces)
  BY ShownOn
<1>2. CASE text = <<>>
  <2>1. T!Piece(inside, text) = <<>>
    BY <1>2 DEF T!Piece
  <2>2. pieces \o <<>> = pieces
    OBVIOUS
  <2>3. u[inside] \in Texts
    BY DEF Sides
  <2>4. JoinTo(u[inside], text) = u[inside]
    BY <1>2, <2>3, JoinToOn
  <2>5. [u EXCEPT ![inside] = u[inside]] = u
    BY DEF Sides
  <2> QED
    BY <1>1, <2>1, <2>2, <2>4, <2>5
<1>3. CASE text # <<>>
  <2>1. PICK p : p = [kind |-> IF inside THEN "think" ELSE "visible", text |-> text]
    OBVIOUS
  <2>2. p \in Pieces /\ (p.kind = "think") = inside /\ p.text = text
    BY <2>1 DEF Pieces
  <2>3. T!Piece(inside, text) = <<p>>
    BY <1>3, <2>1 DEF T!Piece
  <2>4. PICK more \in Seq(Pieces) : more = pieces
    OBVIOUS
  <2>5. pieces \o <<p>> = Append(pieces, p)
    <3>1. PICK S : S = Pieces
      OBVIOUS
    <3>2. pieces \in Seq(S) /\ p \in S
      BY <2>2, <3>1
    <3> QED
      BY <3>2
  <2>6. Shown(t, Append(pieces, p)) = [u EXCEPT ![p.kind = "think"] = JoinTo(@, p.text)]
    BY <1>1, <2>2, ShownOn
  <2> QED
    BY <1>1, <2>2, <2>3, <2>5, <2>6
<1> QED
  BY <1>2, <1>3

-----------------------------------------------------------------------------
(* The scan for think tags reads what a reader reads.                        *)

TagSteps == [p \in TagScans \X Tokens |-> T!ScanToken(p[1], p[2])]
ScanFrom(inside) == [pieces |-> <<>>, inside |-> inside, text |-> <<>>]
ScanRun(inside, src) == Run(TagSteps, ScanFrom(inside), src)

LEMMA ScanRuns ==
  ASSUME NEW inside \in BOOLEAN
  PROVE  Machine(TagSteps, ScanFrom(inside), TagScans, Tokens)
<1>1. ScanFrom(inside) \in TagScans
  <2>1. PICK none : none = <<>>
    OBVIOUS
  <2>2. none \in Seq(Pieces) /\ none \in Texts
    BY <2>1, EmptyText
  <2> QED
    BY <2>1, <2>2 DEF TagScans, ScanFrom
<1> QED
  BY <1>1, ScanTokenShape DEF Machine, TagSteps

LEMMA ScanRunOn ==
  ASSUME NEW inside \in BOOLEAN, NEW src \in Texts
  PROVE  /\ ScanRun(inside, src) \in TagScans
         /\ ScanRun(inside, <<>>) = ScanFrom(inside)
         /\ \A x \in Tokens : ScanRun(inside, Append(src, x)) = T!ScanToken(ScanRun(inside, src), x)
<1>1. src \in Seq(Tokens)
  BY DEF Texts
<1>2. Machine(TagSteps, ScanFrom(inside), TagScans, Tokens)
  BY ScanRuns
<1>3. ScanRun(inside, src) \in TagScans
  BY <1>1, <1>2, RunIn DEF ScanRun
<1>4. ScanRun(inside, <<>>) = ScanFrom(inside)
  BY <1>2, RunEmpty DEF ScanRun
<1>5. ASSUME NEW x \in Tokens PROVE ScanRun(inside, Append(src, x)) = T!ScanToken(ScanRun(inside, src), x)
  <2>1. Run(TagSteps, ScanFrom(inside), Append(src, x)) = TagSteps[<<Run(TagSteps, ScanFrom(inside), src), x>>]
    BY <1>1, <1>2, RunOn
  <2>2. PICK u \in TagScans : u = Run(TagSteps, ScanFrom(inside), src)
    BY <1>3 DEF ScanRun
  <2>3. TagSteps[<<u, x>>] = T!ScanToken(u, x)
    BY DEF TagSteps
  <2> QED
    BY <2>1, <2>2, <2>3 DEF ScanRun
<1> QED
  BY <1>3, <1>4, <1>5

LEMMA ScanIs ==
  ASSUME NEW src \in Texts, NEW inside \in BOOLEAN
  PROVE  LET r == ScanRun(inside, src)
             held == T!Held(r.inside, r.text)
         IN T!Scan(src, inside) =
              [ pieces |-> r.pieces \o T!Piece(r.inside, SubSeq(r.text, 1, Len(r.text) - Len(held))),
                scan |-> [inside |-> r.inside, hold |-> held] ]
<1>1. PICK n \in Nat : n = Len(src) /\ \A m \in 1 .. n : src[m] \in Tokens
  BY Counted
<1>2. PICK S : S = TagScans
  OBVIOUS
<1>b. PICK base : base = [pieces |-> <<>>, inside |-> inside, text |-> <<>>]
  OBVIOUS
<1>3. PICK step : step = [p \in S \X (1 .. n) |-> T!ScanToken(p[1], src[p[2]])]
  OBVIOUS
<1>4. base \in S /\ step \in [S \X (1 .. n) -> S]
  <2>1. ASSUME NEW r \in S, NEW m \in 1 .. n PROVE T!ScanToken(r, src[m]) \in S
    BY <1>1, <1>2, ScanTokenShape
  <2>2. base \in S
    <3>1. PICK none : none = <<>>
      OBVIOUS
    <3>2. none \in Seq(Pieces) /\ none \in Texts
      BY <3>1, EmptyText
    <3> QED
      BY <1>2, <1>b, <3>1, <3>2 DEF TagScans
  <2> QED
    BY <1>3, <2>1, <2>2
<1>5. PICK f : Loop(f, n, base, step, S)
  BY <1>4, LoopExists DEF Steps
<1>6. \A g : \A m \in 1 .. n : g[m - 1] \in S => T!ScanToken(g[m - 1], src[m]) = step[<<g[m - 1], m>>]
  BY <1>3
<1>7. \A m \in 1 .. n : f[m] = T!ScanToken(f[m - 1], src[m])
  <2> TAKE m \in 1 .. n
  <2>1. f[m - 1] \in S /\ f[m] = step[<<f[m - 1], m>>]
    BY <1>5 DEF Loop
  <2> QED
    BY <1>6, <2>1
<1> DEFINE All(g) == g = [m \in 0 .. n |-> IF m = 0 THEN base ELSE T!ScanToken(g[m - 1], src[m])]
<1>8. All(f)
  <2>1. PICK h : h = [m \in 0 .. n |-> IF m = 0 THEN base ELSE T!ScanToken(f[m - 1], src[m])]
    OBVIOUS
  <2>2. \A m \in 0 .. n : h[m] = f[m]
    BY <1>5, <1>7, <2>1 DEF Loop
  <2> QED
    BY <1>5, <2>1, <2>2 DEF Loop
<1>9. PICK g : g = CHOOSE h : All(h)
  OBVIOUS
<1>10. LET r == g[n] held == T!Held(r.inside, r.text) IN
       T!Scan(src, inside) =
         [ pieces |-> r.pieces \o T!Piece(r.inside, SubSeq(r.text, 1, Len(r.text) - Len(held))),
           scan |-> [inside |-> r.inside, hold |-> held] ]
  BY <1>1, <1>b, <1>9 DEF T!Scan
<1>11. All(g)
  BY <1>8, <1>9
<1>12. Follows(g, n, base, step, S)
  <2>1. PICK h : h = [m \in 0 .. n |-> IF m = 0 THEN base ELSE T!ScanToken(g[m - 1], src[m])]
    OBVIOUS
  <2>2. g = h
    BY <1>11, <2>1
  <2>3. h = [m \in 0 .. n |-> h[m]] /\ h[0] = base
    BY <2>1
  <2>4. \A m \in 1 .. n : h[m] = T!ScanToken(g[m - 1], src[m])
    BY <2>1
  <2> HIDE DEF All
  <2> QED
    BY <1>6, <2>2, <2>3, <2>4 DEF Follows
<1>13. g = f
  BY <1>5, <1>12, OnlyOne
<1>14. \A m \in 1 .. n : f[m - 1] \in S
  BY <1>5 DEF Loop
<1> HIDE DEF All
<1>15. Through(f, TagSteps, base, src, S)
  <2>1. \A m \in 1 .. n : f[m] = TagSteps[<<f[m - 1], src[m]>>]
    BY <1>1, <1>2, <1>7, <1>14 DEF TagSteps
  <2> QED
    BY <1>1, <1>5, <2>1 DEF Loop, Through
<1>16. Machine(TagSteps, base, S, Tokens)
  BY <1>2, <1>b, ScanRuns DEF ScanFrom
<1>17. src \in Seq(Tokens)
  BY DEF Texts
<1>18. Run(TagSteps, base, src) = f[Len(src)]
  BY <1>15, <1>16, <1>17, RunEnds
<1>19. ScanRun(inside, src) = g[n]
  BY <1>1, <1>b, <1>13, <1>18 DEF ScanRun, ScanFrom
<1> QED
  BY <1>10, <1>19

PiecesOf(V) == [kind : {"think", "visible"}, text : Seq(V)]

LEMMA PieceOf ==
  ASSUME NEW V, NEW pieces \in Seq(PiecesOf(V)), NEW inside \in BOOLEAN, NEW text \in Seq(V)
  PROVE  pieces \o T!Piece(inside, text) \in Seq(PiecesOf(V))
<1>1. PICK p : p = [kind |-> IF inside THEN "think" ELSE "visible", text |-> text]
  OBVIOUS
<1>2. p \in PiecesOf(V)
  BY <1>1 DEF PiecesOf
<1>3. PICK S : S = PiecesOf(V)
  OBVIOUS
<1>4. pieces \in Seq(S) /\ p \in S
  BY <1>2, <1>3
<1>5. pieces \o <<p>> \in Seq(S) /\ pieces \o <<>> \in Seq(S)
  BY <1>4
<1>6. T!Piece(inside, text) \in {<<>>, <<p>>}
  BY <1>1 DEF T!Piece
<1> QED
  BY <1>3, <1>5, <1>6

\* The text of the piece under way ends as the source does, unless a tag was the last.
SameEnd(u, q) ==
  /\ u = <<>> => q = <<>> \/ T!Last(q) \in T!Wholes
  /\ u # <<>> => q # <<>> /\ T!Last(u) = T!Last(q)

LEMMA SameHeld ==
  ASSUME NEW inside \in BOOLEAN, NEW u \in Texts, NEW q \in Texts, SameEnd(u, q)
  PROVE  T!Held(inside, u) = T!Held(inside, q)
<1>1. T!Halves(T!Tag(inside))[1] \notin T!Wholes
  BY TagIs, Halving
<1> QED
  BY <1>1, HeldIs DEF SameEnd, HeldNext

\* Where the scan is, and what its pieces tell, is where a reader is and what it has read.
Scanned(r, t, k, q, V) ==
  /\ r \in TagScans /\ r.pieces \in Seq(PiecesOf(V)) /\ r.text \in Seq(V)
  /\ r.inside = k.inside
  /\ Shown(t, r.pieces \o T!Piece(r.inside, r.text)) = k.text
  /\ SameEnd(r.text, q)

LEMMA PiecesOfText ==
  ASSUME NEW V \in SUBSET Tokens
  PROVE  Seq(V) \subseteq Texts /\ Seq(PiecesOf(V)) \subseteq Seq(Pieces)
<1>1. PICK S : S = Tokens
  OBVIOUS
<1>2. Seq(V) \subseteq Seq(S)
  BY <1>1
<1>3. Seq(V) \subseteq Texts
  BY <1>1, <1>2 DEF Texts
<1>4. PiecesOf(V) \subseteq Pieces
  BY <1>3 DEF PiecesOf, Pieces
<1>5. PICK A, B : A = PiecesOf(V) /\ B = Pieces
  OBVIOUS
<1>6. Seq(A) \subseteq Seq(B)
  BY <1>4, <1>5
<1> QED
  BY <1>3, <1>5, <1>6

LEMMA ScanReads ==
  ASSUME NEW V \in SUBSET Tokens, NEW inside \in BOOLEAN, NEW t \in Sides, NEW k \in Readers,
         k.inside = inside, k.text = t, NEW src \in Seq(V)
  PROVE  Scanned(ScanRun(inside, src), t, Read(k, src), src, V)
<1>1. PICK Fine : Fine = {e \in Seq(V) : Scanned(ScanRun(inside, e), t, Read(k, e), e, V)}
  OBVIOUS
<1>2. Seq(V) \subseteq Texts /\ Seq(PiecesOf(V)) \subseteq Seq(Pieces)
  BY PiecesOfText
<1>3. <<>> \in Fine
  <2>1. PICK none : none = <<>>
    OBVIOUS
  <2>2. none \in Seq(V) /\ none \in Seq(PiecesOf(V)) /\ none \in Texts /\ none \in Seq(Pieces)
    BY <2>1, EmptyText
  <2>3. Read(k, none) = k
    BY <2>1, EmptyText, ReadOn
  <2>4. PICK r \in TagScans : r = ScanRun(inside, none) /\ r = ScanFrom(inside)
    BY <2>1, EmptyText, ScanRunOn
  <2>5. r.pieces = none /\ r.inside = inside /\ r.text = none
    BY <2>1, <2>4 DEF ScanFrom
  <2>6. Shown(t, none \o T!Piece(inside, none)) = t
    <3>1. Shown(t, none \o T!Piece(inside, none)) = [Shown(t, none) EXCEPT ![inside] = JoinTo(@, none)]
      BY <2>2, ShownPiece
    <3>2. Shown(t, none) = t
      BY <2>1, <2>2, ShownOn
    <3>3. t[inside] \in Texts
      BY DEF Sides
    <3>4. JoinTo(t[inside], none) = t[inside]
      BY <2>1, <3>3, JoinToOn
    <3>5. [t EXCEPT ![inside] = t[inside]] = t
      BY DEF Sides
    <3> QED
      BY <3>1, <3>2, <3>4, <3>5
  <2>7. SameEnd(none, none)
    BY <2>1 DEF SameEnd
  <2>8. Scanned(r, t, k, none, V)
    BY <2>2, <2>4, <2>5, <2>6, <2>7 DEF Scanned
  <2> QED
    BY <1>1, <2>1, <2>2, <2>3, <2>4, <2>8
<1>4. ASSUME NEW e \in Seq(V), NEW x \in V, e \in Fine PROVE Append(e, x) \in Fine
  <2>1. e \in Texts /\ x \in Tokens
    BY <1>2
  <2>2. PICK r \in TagScans : r = ScanRun(inside, e)
    BY <2>1, ScanRunOn
  <2>3. PICK a \in Readers : a = Read(k, e)
    BY <2>1, ReadOn
  <2>4. Scanned(r, t, a, e, V)
    BY <1>1, <1>4, <2>2, <2>3
  <2>5. PICK i \in BOOLEAN, pieces \in Seq(PiecesOf(V)), u \in Seq(V) :
          i = r.inside /\ pieces = r.pieces /\ u = r.text /\ i = a.inside
    BY <2>4 DEF Scanned, Readers
  <2>6. u \in Texts /\ pieces \in Seq(Pieces)
    BY <1>2
  <2>7. PICK r2 \in TagScans : r2 = T!ScanToken(r, x)
    BY <2>1, ScanTokenShape
  <2>8. PICK a2 \in Readers : a2 = ReadToken(a, x)
    BY <2>1, ReadTokenShape
  <2>9. PICK q \in Seq(V) : q = Append(e, x) /\ q # <<>> /\ T!Last(q) = x
    BY LastAppended
  <2>10. ScanRun(inside, q) = r2 /\ Read(k, q) = a2
    <3>1. ScanRun(inside, Append(e, x)) = T!ScanToken(ScanRun(inside, e), x)
      BY <2>1, ScanRunOn
    <3>2. Read(k, Append(e, x)) = ReadToken(Read(k, e), x)
      BY <2>1, ReadOn
    <3> QED
      BY <2>2, <2>3, <2>7, <2>8, <2>9, <3>1, <3>2
  <2>11. PICK v \in Sides : v = Shown(t, pieces)
    BY <2>6, ShownOn
  <2>12. a.text = [v EXCEPT ![i] = JoinTo(@, u)]
    <3>1. Shown(t, pieces \o T!Piece(i, u)) = [Shown(t, pieces) EXCEPT ![i] = JoinTo(@, u)]
      BY <2>6, ShownPiece
    <3> QED
      BY <2>4, <2>5, <2>11, <3>1 DEF Scanned
  <2>13. v[i] \in Texts
    BY DEF Sides
  <2>14. CASE x = T!Tag(i)
    <3>1. PICK more \in Seq(PiecesOf(V)) : more = pieces \o T!Piece(i, u)
      BY PieceOf
    <3>2. PICK none : none = <<>>
      OBVIOUS
    <3>3. none \in Seq(V) /\ none \in Texts
      BY <3>2, EmptyText
    <3>4. r2.pieces = more /\ r2.inside = ~i /\ r2.text = none
      BY <2>5, <2>7, <2>14, <3>1, <3>2 DEF T!ScanToken
    <3>5. a2.inside = ~i /\ a2.text = a.text
      BY <2>5, <2>8, <2>14, ReadTag
    <3>6. Shown(t, more \o T!Piece(~i, none)) = a.text
      <4>1. Shown(t, more) = a.text
        BY <2>4, <2>5, <3>1 DEF Scanned
      <4>2. T!Piece(~i, none) = <<>>
        BY <3>2 DEF T!Piece
      <4>3. more \o <<>> = more
        OBVIOUS
      <4> QED
        BY <4>1, <4>2, <4>3
    <3>7. SameEnd(none, q)
      BY <2>9, <2>14, <3>2, TagIs DEF SameEnd
    <3>8. Scanned(r2, t, a2, q, V)
      BY <3>3, <3>4, <3>5, <3>6, <3>7 DEF Scanned
    <3> QED
      BY <1>1, <2>9, <2>10, <3>8
  <2>15. CASE x # T!Tag(i)
    <3>1. PICK w \in Seq(V) : w = Append(u, x) /\ w # <<>> /\ T!Last(w) = x
      BY LastAppended
    <3>2. r2.pieces = pieces /\ r2.inside = i /\ r2.text = w
      <4>1. r2 = [r EXCEPT !.text = Append(@, x)]
        BY <2>5, <2>7, <2>15 DEF T!ScanToken
      <4> QED
        BY <2>5, <3>1, <4>1 DEF TagScans
    <3>3. a2.inside = i /\ a2.text = [a.text EXCEPT ![i] = T!AppendToken(@, x)]
      <4>1. x # T!Tag(a.inside)
        BY <2>5, <2>15
      <4>2. /\ ReadToken(a, x).inside = a.inside
            /\ ReadToken(a, x).text = [a.text EXCEPT ![a.inside] = T!AppendToken(@, x)]
        BY <2>1, <4>1, ReadWord
      <4> QED
        BY <2>5, <2>8, <4>2
    <3>4. Shown(t, pieces \o T!Piece(i, w)) = [v EXCEPT ![i] = JoinTo(@, w)]
      BY <1>2, <2>6, <2>11, ShownPiece
    <3>5. JoinTo(v[i], w) = T!AppendToken(JoinTo(v[i], u), x)
      BY <2>1, <2>6, <2>13, <3>1, JoinToOn
    <3>6. a.text[i] = JoinTo(v[i], u)
      BY <2>12 DEF Sides
    <3>7. Shown(t, pieces \o T!Piece(i, w)) = a2.text
      <4>1. PICK y : y = JoinTo(v[i], u)
        OBVIOUS
      <4>2. PICK z : z = T!AppendToken(y, x)
        OBVIOUS
      <4>3. a.text = [v EXCEPT ![i] = y] /\ a.text[i] = y
        BY <2>12, <3>6, <4>1
      <4>4. a2.text = [[v EXCEPT ![i] = y] EXCEPT ![i] = z]
        BY <3>3, <4>2, <4>3
      <4>5. [[v EXCEPT ![i] = y] EXCEPT ![i] = z] = [v EXCEPT ![i] = z]
        BY DEF Sides
      <4>6. Shown(t, pieces \o T!Piece(i, w)) = [v EXCEPT ![i] = z]
        BY <3>4, <3>5, <4>1, <4>2
      <4> QED
        BY <4>4, <4>5, <4>6
    <3>8. SameEnd(w, q)
      BY <2>9, <3>1 DEF SameEnd
    <3>9. Scanned(r2, t, a2, q, V)
      BY <3>2, <3>3, <3>7, <3>8 DEF Scanned
    <3> QED
      BY <1>1, <2>9, <2>10, <3>9
  <2> QED
    BY <2>14, <2>15
<1>5. Seq(V) \subseteq Fine
  BY <1>3, <1>4, TokenByToken
<1> QED
  BY <1>1, <1>5

\* What the scan of a text gives: where it ends and what it holds, and that its pieces with
\* what it holds are what a reader has read.
Given(sc, t, a, src, V) ==
  /\ sc.pieces \in Seq(PiecesOf(V))
  /\ sc.scan.inside = a.inside /\ sc.scan.hold = T!Held(a.inside, src)
  /\ a.text = [Shown(t, sc.pieces) EXCEPT ![a.inside] = JoinTo(@, sc.scan.hold)]

LEMMA ScanSays ==
  ASSUME NEW V \in SUBSET Tokens, NEW t \in Sides, NEW k \in Readers, k.text = t, NEW src \in Seq(V)
  PROVE  Given(T!Scan(src, k.inside), t, Read(k, src), src, V)
<1>1. PICK inside \in BOOLEAN : inside = k.inside
  BY DEF Readers
<1>2. src \in Texts
  BY PiecesOfText
<1>3. PICK r \in TagScans : r = ScanRun(inside, src)
  BY <1>2, ScanRunOn
<1>4. PICK a \in Readers : a = Read(k, src)
  BY <1>2, ReadOn
<1>5. Scanned(r, t, a, src, V)
  BY <1>1, <1>3, <1>4, ScanReads
<1>6. PICK i \in BOOLEAN, pieces \in Seq(PiecesOf(V)), u \in Seq(V) :
        i = r.inside /\ pieces = r.pieces /\ u = r.text /\ i = a.inside
  BY <1>4, <1>5 DEF Scanned, Readers
<1>7. u \in Texts /\ pieces \in Seq(Pieces)
  BY PiecesOfText
<1>8. PICK held \in Texts : /\ held = T!Held(i, u)
                             /\ (held = <<>> \/ (u # <<>> /\ held = <<T!Last(u)>>))
  <2>1. u \in Texts
    BY <1>7
  <2>2. T!Held(i, u) \in Texts
    BY <2>1, HeldOne
  <2>3. T!Held(i, u) = <<>> \/ (u # <<>> /\ T!Held(i, u) = <<T!Last(u)>>)
    BY DEF T!Held
  <2> QED
    BY <2>2, <2>3
<1>9. PICK body : body = SubSeq(u, 1, Len(u) - Len(held))
  OBVIOUS
<1>10. body \in Seq(V) /\ u = body \o held
  <2>1. CASE held = <<>>
    <3>1. Len(held) = 0 /\ SubSeq(u, 1, Len(u)) = u /\ u \o <<>> = u /\ Len(u) - 0 = Len(u)
      BY <2>1
    <3> QED
      BY <1>9, <2>1, <3>1
  <2>2. CASE u # <<>> /\ held = <<T!Last(u)>>
    <3>1. PICK b \in Seq(V), l \in V : b = T!Front(u) /\ l = T!Last(u) /\ u = Append(b, l)
      BY <2>2, LastOne
    <3>2. Len(held) = 1
      BY <2>2
    <3>3. body = b
      BY <1>9, <3>1, <3>2 DEF T!Front
    <3>4. b \o <<l>> = Append(b, l)
      OBVIOUS
    <3> QED
      BY <2>2, <3>1, <3>3, <3>4
  <2> QED
    BY <1>8, <2>1, <2>2
<1>11. body \in Texts
  BY <1>10, PiecesOfText
<1>12. PICK all : all = pieces \o T!Piece(i, body)
  OBVIOUS
<1>13. all \in Seq(PiecesOf(V))
  BY <1>10, <1>12, PieceOf
<1>14. T!Scan(src, inside) = [pieces |-> all, scan |-> [inside |-> i, hold |-> held]]
  <2>1. LET h == T!Held(r.inside, r.text) IN
        T!Scan(src, inside) =
          [ pieces |-> r.pieces \o T!Piece(r.inside, SubSeq(r.text, 1, Len(r.text) - Len(h))),
            scan |-> [inside |-> r.inside, hold |-> h] ]
    BY <1>2, <1>3, ScanIs
  <2>2. T!Held(r.inside, r.text) = held /\ r.inside = i /\ r.pieces = pieces /\ r.text = u
    BY <1>6, <1>8
  <2>3. SubSeq(r.text, 1, Len(r.text) - Len(T!Held(r.inside, r.text))) = body
    BY <1>9, <2>2
  <2>4. r.pieces \o T!Piece(r.inside, SubSeq(r.text, 1, Len(r.text) - Len(T!Held(r.inside, r.text)))) = all
    BY <1>12, <2>2, <2>3
  <2> QED
    BY <2>1, <2>2, <2>4
<1>15. held = T!Held(i, src)
  <2>1. SameEnd(u, src)
    BY <1>5, <1>6 DEF Scanned
  <2>2. T!Held(i, u) = T!Held(i, src)
    BY <1>2, <1>7, <2>1, SameHeld
  <2> QED
    BY <1>8, <2>2
<1>16. PICK v \in Sides : v = Shown(t, pieces)
  BY <1>7, ShownOn
<1>17. v[i] \in Texts
  BY DEF Sides
<1>18. a.text = [v EXCEPT ![i] = JoinTo(@, u)]
  <2>1. Shown(t, pieces \o T!Piece(i, u)) = [v EXCEPT ![i] = JoinTo(@, u)]
    BY <1>7, <1>16, ShownPiece
  <2> QED
    BY <1>5, <1>6, <2>1 DEF Scanned
<1>19. Shown(t, all) = [v EXCEPT ![i] = JoinTo(@, body)]
  BY <1>7, <1>11, <1>12, <1>16, ShownPiece
<1>20. JoinTo(v[i], u) = JoinTo(JoinTo(v[i], body), held)
  BY <1>10, <1>11, <1>17, JoinToTogether
<1>21. a.text = [Shown(t, all) EXCEPT ![i] = JoinTo(@, held)]
  <2>1. Shown(t, all)[i] = JoinTo(v[i], body)
    BY <1>19 DEF Sides
  <2> QED
    BY <1>18, <1>19, <1>20, <2>1
<1>22. PICK sc : sc = T!Scan(src, k.inside)
  OBVIOUS
<1>23. sc.pieces = all /\ sc.scan.inside = i /\ sc.scan.hold = held
  BY <1>1, <1>14, <1>22
<1>24. a.inside = i
  BY <1>6
<1> QED
  BY <1>4, <1>13, <1>15, <1>21, <1>22, <1>23, <1>24 DEF Given

-----------------------------------------------------------------------------
(* What the client has read.                                                 *)

\* The text that an event adds to the item.
Adding(text, x, of) == IF x.e = "delta" /\ x.of = of THEN text \o x.text ELSE text
Adds(of) == [p \in Texts \X Events |-> Adding(p[1], p[2], of)]

LEMMA AddingShape ==
  ASSUME NEW text \in Texts, NEW x \in Events, NEW of
  PROVE  Adding(text, x, of) \in Texts
<1>1. x.text \in Texts
  BY DEF Events
<1>2. text \o x.text \in Texts
  BY <1>1, Together
<1> QED
  BY <1>2 DEF Adding

LEMMA AddsRun ==
  ASSUME NEW of
  PROVE  Machine(Adds(of), <<>>, Texts, Events)
  BY EmptyText, AddingShape DEF Machine, Adds

LEMMA ToldIs ==
  ASSUME NEW out \in Seq(Events), NEW of
  PROVE  T!Told(out, of) = Run(Adds(of), <<>>, out)
<1>1. PICK n \in Nat : n = Len(out) /\ \A m \in 1 .. n : out[m] \in Events
  OBVIOUS
<1>2. PICK S : S = Texts
  OBVIOUS
<1>b. PICK base : base = <<>>
  OBVIOUS
<1> DEFINE Grown(r, m) == IF out[m].e = "delta" /\ out[m].of = of THEN r \o out[m].text ELSE r
<1>n. \A r, m : Grown(r, m) = Adding(r, out[m], of)
  BY DEF Adding
<1>3. PICK step : step = [p \in S \X (1 .. n) |-> Grown(p[1], p[2])]
  OBVIOUS
<1>4. base \in S /\ step \in [S \X (1 .. n) -> S]
  <2>1. ASSUME NEW r \in S, NEW m \in 1 .. n PROVE Grown(r, m) \in S
    <3>1. out[m] \in Events
      BY <1>1
    <3>2. Adding(r, out[m], of) \in Texts
      BY <1>2, <3>1, AddingShape
    <3>3. Grown(r, m) = Adding(r, out[m], of)
      BY <1>n
    <3> HIDE DEF Grown
    <3> QED
      BY <1>2, <3>2, <3>3
  <2>2. base \in S
    BY <1>2, <1>b, EmptyText
  <2> HIDE DEF Grown
  <2> QED
    BY <1>3, <2>1, <2>2
<1>5. PICK f : Loop(f, n, base, step, S)
  BY <1>4, LoopExists DEF Steps
<1>6. \A g : \A m \in 1 .. n : g[m - 1] \in S => Grown(g[m - 1], m) = step[<<g[m - 1], m>>]
  <2> HIDE DEF Grown
  <2> QED
    BY <1>3
<1>7. \A m \in 1 .. n : f[m - 1] \in S /\ f[m] = Grown(f[m - 1], m)
  <2> TAKE m \in 1 .. n
  <2>1. f[m - 1] \in S /\ f[m] = step[<<f[m - 1], m>>]
    BY <1>5 DEF Loop
  <2> HIDE DEF Grown
  <2> QED
    BY <1>6, <2>1
<1> DEFINE All(g) == g = [m \in 0 .. n |-> IF m = 0 THEN base ELSE Grown(g[m - 1], m)]
<1>10. T!Told(out, of) = (CHOOSE g : All(g))[n]
  <2>1. \A g, m : Grown(g[m - 1], m)
                    = IF out[m].e = "delta" /\ out[m].of = of THEN g[m - 1] \o out[m].text ELSE g[m - 1]
    OBVIOUS
  <2> QED
    BY <1>1, <1>b DEF T!Told
<1> HIDE DEF Grown
<1>8. All(f)
  <2>1. PICK h : h = [m \in 0 .. n |-> IF m = 0 THEN base ELSE Grown(f[m - 1], m)]
    OBVIOUS
  <2>2. \A m \in 0 .. n : h[m] = f[m]
    BY <1>5, <1>7, <2>1 DEF Loop
  <2> QED
    BY <1>5, <2>1, <2>2 DEF Loop
<1>9. PICK g : g = CHOOSE h : All(h)
  OBVIOUS
<1>11. All(g)
  BY <1>8, <1>9
<1>12. Follows(g, n, base, step, S)
  <2>1. PICK h : h = [m \in 0 .. n |-> IF m = 0 THEN base ELSE Grown(g[m - 1], m)]
    OBVIOUS
  <2>2. g = h
    BY <1>11, <2>1
  <2>3. h = [m \in 0 .. n |-> h[m]] /\ h[0] = base
    BY <2>1
  <2>4. \A m \in 1 .. n : h[m] = Grown(g[m - 1], m)
    BY <2>1
  <2> HIDE DEF All
  <2> QED
    BY <1>6, <2>2, <2>3, <2>4 DEF Follows
<1>13. g = f
  BY <1>5, <1>12, OnlyOne
<1> HIDE DEF All
<1>14. Through(f, Adds(of), base, out, S)
  <2>1. \A m \in 1 .. n : f[m] = Adds(of)[<<f[m - 1], out[m]>>]
    BY <1>1, <1>2, <1>n, <1>7 DEF Adds
  <2> QED
    BY <1>1, <1>5, <2>1 DEF Loop, Through
<1>15. Machine(Adds(of), base, S, Events)
  BY <1>2, <1>b, AddsRun
<1>16. Run(Adds(of), base, out) = f[Len(out)]
  BY <1>14, <1>15, RunEnds
<1> QED
  BY <1>1, <1>b, <1>9, <1>10, <1>13, <1>16

LEMMA ToldOn ==
  ASSUME NEW out \in Seq(Events), NEW x \in Events, NEW of
  PROVE  T!Told(out, of) \in Texts /\ T!Told(Append(out, x), of) = Adding(T!Told(out, of), x, of)
<1>1. Machine(Adds(of), <<>>, Texts, Events)
  BY AddsRun
<1>2. T!Told(out, of) = Run(Adds(of), <<>>, out)
  BY ToldIs
<1>3. Append(out, x) \in Seq(Events)
  BY EventAppended
<1>4. T!Told(Append(out, x), of) = Run(Adds(of), <<>>, Append(out, x))
  BY <1>3, ToldIs
<1>5. Run(Adds(of), <<>>, out) \in Texts
  BY <1>1, RunIn
<1>6. Run(Adds(of), <<>>, Append(out, x)) = Adds(of)[<<Run(Adds(of), <<>>, out), x>>]
  BY <1>1, RunOn
<1>7. PICK u \in Texts : u = Run(Adds(of), <<>>, out)
  BY <1>5
<1>8. Adds(of)[<<u, x>>] = Adding(u, x, of)
  BY DEF Adds
<1> QED
  BY <1>2, <1>4, <1>6, <1>7, <1>8

LEMMA ToldNothing ==
  ASSUME NEW of
  PROVE  T!Told(<<>>, of) = <<>>
<1>1. Machine(Adds(of), <<>>, Texts, Events)
  BY AddsRun
<1>2. <<>> \in Seq(Events)
  OBVIOUS
<1>3. T!Told(<<>>, of) = Run(Adds(of), <<>>, <<>>)
  BY <1>2, ToldIs
<1>4. Run(Adds(of), <<>>, <<>>) = <<>>
  BY <1>1, RunEmpty
<1> QED
  BY <1>3, <1>4

\* The item of a side; and what the client has read of each side.
Side(b) == IF b THEN "reasoning" ELSE "message"
Reading(out) == [b \in BOOLEAN |-> T!Joined(T!Told(out, Side(b)))]

LEMMA ReadingIs ==
  ASSUME NEW out \in Seq(Events)
  PROVE  /\ Reading(out) \in Sides
         /\ \A b \in BOOLEAN : Reading(out)[b] = JoinTo(<<>>, T!Told(out, Side(b)))
<1>1. ASSUME NEW b \in BOOLEAN
      PROVE  /\ T!Joined(T!Told(out, Side(b))) \in Texts
             /\ T!Joined(T!Told(out, Side(b))) = JoinTo(<<>>, T!Told(out, Side(b)))
  <2>1. PICK u \in Texts : u = T!Told(out, Side(b))
    <3>1. Run(Adds(Side(b)), <<>>, out) \in Texts
      BY AddsRun, RunIn
    <3> QED
      BY <3>1, ToldIs
  <2>2. T!Joined(u) \in Texts /\ T!Joined(u) = JoinTo(<<>>, u)
    BY JoinedShape, JoinedIs
  <2> QED
    BY <2>1, <2>2
<1> QED
  BY <1>1 DEF Reading, Sides

\* An event that is no delta, or of no side, says nothing.
LEMMA ReadingQuiet ==
  ASSUME NEW out \in Seq(Events), NEW x \in Events, x.e # "delta" \/ x.of \notin {"reasoning", "message"}
  PROVE  Reading(Append(out, x)) = Reading(out)
<1>1. ASSUME NEW b \in BOOLEAN PROVE T!Told(Append(out, x), Side(b)) = T!Told(out, Side(b))
  <2>1. T!Told(Append(out, x), Side(b)) = Adding(T!Told(out, Side(b)), x, Side(b))
    BY ToldOn
  <2> QED
    BY <2>1 DEF Adding, Side
<1> QED
  BY <1>1 DEF Reading

LEMMA ReadingTells ==
  ASSUME NEW out \in Seq(Events), NEW b \in BOOLEAN, NEW at \in Nat, NEW text \in Texts
  PROVE  Reading(Append(out, T!Delta(Side(b), at, text)))
           = [Reading(out) EXCEPT ![b] = JoinTo(@, text)]
<1>1. PICK x : x = T!Delta(Side(b), at, text)
  OBVIOUS
<1>2. x \in Events /\ x.e = "delta" /\ x.of = Side(b) /\ x.text = text
  <2>1. Side(b) \in Owners
    BY DEF Side, Owners
  <2>2. x \in Events
    BY <1>1, <2>1, EventShape
  <2> QED
    BY <1>1, <2>2 DEF T!Delta
<1>3. PICK more \in Seq(Events) : more = Append(out, x)
  BY <1>2, EventAppended
<1>4. PICK w \in Sides : w = Reading(out)
  BY ReadingIs
<1>5. PICK v \in Sides : v = Reading(more)
  BY ReadingIs
<1>6. ASSUME NEW c \in BOOLEAN PROVE v[c] = IF c = b THEN JoinTo(w[c], text) ELSE w[c]
  <2>1. PICK u \in Texts : u = T!Told(out, Side(c))
    BY <1>2, ToldOn
  <2>2. w[c] = JoinTo(<<>>, u) /\ v[c] = JoinTo(<<>>, T!Told(more, Side(c)))
    BY <1>4, <1>5, <2>1, ReadingIs
  <2>3. T!Told(more, Side(c)) = Adding(u, x, Side(c))
    BY <1>2, <1>3, <2>1, ToldOn
  <2>4. CASE c = b
    <3>1. T!Told(more, Side(c)) = u \o text
      BY <1>2, <2>3, <2>4 DEF Adding
    <3>2. JoinTo(<<>>, u \o text) = JoinTo(JoinTo(<<>>, u), text)
      BY EmptyText, JoinToTogether
    <3> QED
      BY <2>2, <2>4, <3>1, <3>2
  <2>5. CASE c # b
    <3>1. Side(c) # Side(b)
      BY <2>5 DEF Side
    <3>2. T!Told(more, Side(c)) = u
      BY <1>2, <2>3, <3>1 DEF Adding
    <3> QED
      BY <2>2, <2>5, <3>2
  <2> QED
    BY <2>4, <2>5
<1>7. v = [w EXCEPT ![b] = JoinTo(@, text)]
  BY <1>6 DEF Sides
<1> QED
  BY <1>1, <1>3, <1>4, <1>5, <1>7

LEMMA ReadingNothing == Reading(<<>>) = [b \in BOOLEAN |-> <<>>]
<1>1. ASSUME NEW b \in BOOLEAN PROVE T!Joined(T!Told(<<>>, Side(b))) = <<>>
  <2>1. T!Told(<<>>, Side(b)) = <<>>
    BY ToldNothing
  <2>2. T!Joined(<<>>) = JoinTo(<<>>, <<>>)
    BY EmptyText, JoinedIs
  <2>3. JoinTo(<<>>, <<>>) = <<>>
    BY EmptyText, JoinToOn
  <2> QED
    BY <2>1, <2>2, <2>3
<1> QED
  BY <1>1 DEF Reading

-----------------------------------------------------------------------------
(* What the steps of the translation tell the client.                        *)

\* The states that a step may leave when the client has then read v.
Utters(st, v) ==
  {a \in States : /\ a.chat = st.chat /\ a.scan = st.scan /\ a.leak = st.leak
                  /\ Reading(a.out) = v}
Mute(st) == Utters(st, Reading(st.out))
Uttered(st, b, text) == [Reading(st.out) EXCEPT ![b] = JoinTo(@, text)]

LEMMA SaysNothing ==
  ASSUME NEW st \in States
  PROVE  st \in Mute(st)
  BY DEF Mute, Utters

LEMMA QuietThen ==
  ASSUME NEW st \in States, NEW a \in Mute(st)
  PROVE  a \in States /\ \A v : Utters(a, v) \subseteq Utters(st, v)
  BY DEF Mute, Utters

LEMMA QuietOn ==
  ASSUME NEW st \in States, NEW a \in Mute(st)
  PROVE  /\ a \in States /\ Mute(a) \subseteq Mute(st)
         /\ \A b, text : Utters(a, Uttered(a, b, text)) \subseteq Utters(st, Uttered(st, b, text))
<1>1. a \in States /\ Reading(a.out) = Reading(st.out)
  BY DEF Mute, Utters
<1>2. \A b, text : Uttered(a, b, text) = Uttered(st, b, text)
  BY <1>1 DEF Uttered
<1> QED
  BY <1>1, <1>2, QuietThen DEF Mute

LEMMA NothingUttered ==
  ASSUME NEW st \in States, NEW b \in BOOLEAN
  PROVE  Uttered(st, b, <<>>) = Reading(st.out)
<1>1. PICK v \in Sides : v = Reading(st.out)
  BY Shape, ReadingIs
<1>2. v[b] \in Texts
  BY DEF Sides
<1>3. JoinTo(v[b], <<>>) = v[b]
  BY <1>2, EmptyText, JoinToOn
<1>4. [v EXCEPT ![b] = v[b]] = v
  BY DEF Sides
<1> QED
  BY <1>1, <1>3, <1>4 DEF Uttered

\* A step whose event says nothing, and one whose event says a text.
LEMMA QuietEvent ==
  ASSUME NEW st \in States, NEW a \in States, NEW x \in Events,
         x.e # "delta" \/ x.of \notin {"reasoning", "message"},
         a.out = Append(st.out, x), a.chat = st.chat, a.scan = st.scan, a.leak = st.leak
  PROVE  a \in Mute(st)
<1>1. st.out \in Seq(Events)
  BY Shape
<1>2. Reading(Append(st.out, x)) = Reading(st.out)
  BY <1>1, ReadingQuiet
<1> QED
  BY <1>2 DEF Mute, Utters

LEMMA TellingEvent ==
  ASSUME NEW st \in States, NEW a \in States, NEW b \in BOOLEAN, NEW at \in Nat, NEW text \in Texts,
         a.out = Append(st.out, T!Delta(Side(b), at, text)),
         a.chat = st.chat, a.scan = st.scan, a.leak = st.leak
  PROVE  a \in Utters(st, Uttered(st, b, text))
<1>1. st.out \in Seq(Events)
  BY Shape
<1>2. Reading(Append(st.out, T!Delta(Side(b), at, text))) = Uttered(st, b, text)
  BY <1>1, ReadingTells DEF Uttered
<1> QED
  BY <1>2 DEF Utters

LEMMA CloseReasoningQuiet ==
  ASSUME NEW st \in States
  PROVE  T!CloseReasoning(st) \in Mute(st)
<1>0. PICK a : a = T!CloseReasoning(st)
  OBVIOUS
<1>1. CASE ~st.reasoning.open
  <2>1. a = st
    BY <1>0, <1>1 DEF T!CloseReasoning
  <2> QED
    BY <1>0, <2>1, SaysNothing
<1>2. CASE st.reasoning.open
  <2>1. PICK x : x = T!Done("reasoning", st.reasoning.at, <<>>)
    OBVIOUS
  <2>2. x \in Events /\ x.e = "done"
    <3>1. x \in Events
      BY <2>1, Shape, EmptyText, EventShape DEF Owners
    <3> QED
      BY <2>1, <3>1 DEF T!Done
  <2>3. a = [[st EXCEPT !.out = Append(@, x)] EXCEPT !.reasoning.open = FALSE]
    BY <1>0, <1>2, <2>1 DEF T!CloseReasoning, T!Emit
  <2>4. Append(st.out, x) \in Seq(Events)
    BY <2>2, Shape, EventAppended
  <2>5. /\ a \in States /\ a.out = Append(st.out, x)
        /\ a.chat = st.chat /\ a.scan = st.scan /\ a.leak = st.leak
    BY <2>3, <2>4 DEF States, Reasonings
  <2> QED
    BY <1>0, <2>2, <2>5, QuietEvent
<1> QED
  BY <1>1, <1>2, Shape

LEMMA EnsureReasoningOpenQuiet ==
  ASSUME NEW st \in States
  PROVE  T!EnsureReasoningOpen(st) \in Mute(st)
<1>0. PICK a : a = T!EnsureReasoningOpen(st)
  OBVIOUS
<1>1. CASE st.reasoning.open
  <2>1. a = st
    BY <1>0, <1>1 DEF T!EnsureReasoningOpen
  <2> QED
    BY <1>0, <2>1, SaysNothing
<1>2. CASE ~st.reasoning.open
  <2>1. PICK at \in Nat : at = IF st.chat THEN st.next ELSE 0
    BY Shape
  <2>2. PICK x : x = T!Added("reasoning", at)
    OBVIOUS
  <2>3. x \in Events /\ x.e = "added"
    <3>1. x \in Events
      BY <2>2, EmptyText, EventShape DEF Owners
    <3> QED
      BY <2>2, <3>1 DEF T!Added
  <2>4. PICK r \in Reasonings : r = [open |-> TRUE, at |-> at]
    BY DEF Reasonings
  <2>5. PICK n \in Nat : n = IF st.chat THEN st.next + 1 ELSE st.next
    BY Shape
  <2>6. a = [[st EXCEPT !.out = Append(@, x)] EXCEPT !.reasoning = r, !.next = n]
    BY <1>0, <1>2, <2>1, <2>2, <2>4, <2>5 DEF T!EnsureReasoningOpen, T!Emit, States
  <2>7. Append(st.out, x) \in Seq(Events)
    BY <2>3, Shape, EventAppended
  <2>8. /\ a \in States /\ a.out = Append(st.out, x)
        /\ a.chat = st.chat /\ a.scan = st.scan /\ a.leak = st.leak
    BY <2>6, <2>7 DEF States
  <2> QED
    BY <1>0, <2>3, <2>8, QuietEvent
<1> QED
  BY <1>1, <1>2, Shape

LEMMA EmitThinkDeltaUtters ==
  ASSUME NEW st \in States, NEW text \in Texts
  PROVE  T!EmitThinkDelta(st, text) \in Utters(st, Uttered(st, TRUE, text))
<1>1. CASE text = <<>>
  <2>1. T!EmitThinkDelta(st, text) = st
    BY <1>1 DEF T!EmitThinkDelta
  <2>2. Uttered(st, TRUE, text) = Reading(st.out)
    BY <1>1, NothingUttered
  <2> QED
    BY <2>1, <2>2, SaysNothing DEF Mute
<1>2. CASE text # <<>>
  <2>1. PICK b : b = T!EnsureReasoningOpen(st)
    OBVIOUS
  <2>2. b \in Mute(st) /\ b \in States
    BY <2>1, EnsureReasoningOpenQuiet, QuietOn
  <2>3. PICK at \in Nat : at = b.reasoning.at
    BY <2>2, Shape
  <2>4. PICK x : x = T!Delta(Side(TRUE), at, text)
    OBVIOUS
  <2>5. x \in Events
    BY <2>4, EventShape DEF Owners, Side
  <2>6. T!EmitThinkDelta(st, text) = [b EXCEPT !.out = Append(@, x)]
    BY <1>2, <2>1, <2>3, <2>4 DEF T!EmitThinkDelta, T!Emit, Side
  <2>7. Append(b.out, x) \in Seq(Events)
    BY <2>2, <2>5, Shape, EventAppended
  <2>8. PICK a : a = [b EXCEPT !.out = Append(@, x)]
    OBVIOUS
  <2>9. /\ a \in States /\ a.out = Append(b.out, x)
        /\ a.chat = b.chat /\ a.scan = b.scan /\ a.leak = b.leak
    BY <2>2, <2>7, <2>8 DEF States
  <2>10. a \in Utters(b, Uttered(b, TRUE, text))
    BY <2>2, <2>4, <2>9, TellingEvent
  <2>11. Utters(b, Uttered(b, TRUE, text)) \subseteq Utters(st, Uttered(st, TRUE, text))
    BY <2>2, QuietOn
  <2> QED
    BY <2>6, <2>8, <2>10, <2>11
<1> QED
  BY <1>1, <1>2

LEMMA CloseChatMessageQuiet ==
  ASSUME NEW st \in States
  PROVE  T!CloseChatMessage(st) \in Mute(st)
<1>0. PICK a : a = T!CloseChatMessage(st)
  OBVIOUS
<1>1. CASE ~st.message.open
  <2>1. a = st
    BY <1>0, <1>1 DEF T!CloseChatMessage
  <2> QED
    BY <1>0, <2>1, SaysNothing
<1>2. CASE st.message.open
  <2>1. PICK x : x = T!Done("message", st.message.at, st.message.text)
    OBVIOUS
  <2>2. x \in Events /\ x.e = "done"
    <3>1. x \in Events
      BY <2>1, Shape, EventShape DEF Owners
    <3> QED
      BY <2>1, <3>1 DEF T!Done
  <2>3. a = [[st EXCEPT !.out = Append(@, x)] EXCEPT !.message.open = FALSE]
    BY <1>0, <1>2, <2>1 DEF T!CloseChatMessage, T!Emit
  <2>4. Append(st.out, x) \in Seq(Events)
    BY <2>2, Shape, EventAppended
  <2>5. /\ a \in States /\ a.out = Append(st.out, x)
        /\ a.chat = st.chat /\ a.scan = st.scan /\ a.leak = st.leak
    BY <2>3, <2>4 DEF States, Messages
  <2> QED
    BY <1>0, <2>2, <2>5, QuietEvent
<1> QED
  BY <1>1, <1>2, Shape

LEMMA SpokenQuiet ==
  ASSUME NEW st \in States
  PROVE  Spoken(st) \in Mute(st)
<1>0. PICK a : a = Spoken(st)
  OBVIOUS
<1>1. CASE st.message.open
  <2>1. a = st
    BY <1>0, <1>1 DEF Spoken
  <2> QED
    BY <1>0, <2>1, SaysNothing
<1>2. CASE ~st.message.open
  <2>1. PICK n \in Nat : n = st.next
    BY Shape
  <2>2. PICK x : x = T!Added("message", n)
    OBVIOUS
  <2>3. x \in Events /\ x.e = "added"
    <3>1. x \in Events
      BY <2>2, EmptyText, EventShape DEF Owners
    <3> QED
      BY <2>2, <3>1 DEF T!Added
  <2>4. PICK m : m = [[st.message EXCEPT !.open = TRUE] EXCEPT !.at = n]
    OBVIOUS
  <2>5. m \in Messages
    BY <2>1, <2>4 DEF Messages, States
  <2>6. PICK k \in Nat : k = n + 1
    OBVIOUS
  <2>7. a = [[st EXCEPT !.out = Append(@, x)] EXCEPT !.message = m, !.next = k]
    BY <1>0, <1>2, <2>1, <2>2, <2>4, <2>6 DEF Spoken, T!Emit, States, Messages
  <2>8. Append(st.out, x) \in Seq(Events)
    BY <2>3, Shape, EventAppended
  <2>9. /\ a \in States /\ a.out = Append(st.out, x)
        /\ a.chat = st.chat /\ a.scan = st.scan /\ a.leak = st.leak
    BY <2>5, <2>7, <2>8 DEF States
  <2> QED
    BY <1>0, <2>3, <2>9, QuietEvent
<1> QED
  BY <1>1, <1>2, Shape

LEMMA EmitChatVisibleDeltaUtters ==
  ASSUME NEW st \in States, NEW text \in Texts
  PROVE  T!EmitChatVisibleDelta(st, text) \in Utters(st, Uttered(st, FALSE, text))
<1>0. PICK a : a = T!EmitChatVisibleDelta(st, text)
  OBVIOUS
<1>1. CASE text = <<>>
  <2>1. a = st
    BY <1>0, <1>1 DEF T!EmitChatVisibleDelta
  <2>2. Uttered(st, FALSE, text) = Reading(st.out)
    BY <1>1, NothingUttered
  <2> QED
    BY <1>0, <2>1, <2>2, SaysNothing DEF Mute
<1>2. CASE text # <<>>
  <2>1. PICK c : c = T!CloseReasoning(st)
    OBVIOUS
  <2>2. c \in Mute(st) /\ c \in States
    BY <2>1, CloseReasoningQuiet, QuietOn
  <2>3. PICK b : b = Spoken(c)
    OBVIOUS
  <2>4. b \in Mute(c)
    BY <2>2, <2>3, SpokenQuiet
  <2>5. b \in Mute(st) /\ b \in States
    BY <2>2, <2>4, QuietOn
  <2>6. PICK at \in Nat : at = b.message.at
    BY <2>5, Shape
  <2>7. PICK x : x = T!Delta(Side(FALSE), at, text)
    OBVIOUS
  <2>8. x \in Events
    BY <2>7, EventShape DEF Owners, Side
  <2>9. PICK m : m = [b.message EXCEPT !.text = @ \o text]
    OBVIOUS
  <2>10. m \in Messages
    <3>1. b.message \in Messages /\ b.message.text \o text \in Texts
      BY <2>5, Shape, Together DEF States
    <3> QED
      BY <2>9, <3>1 DEF Messages
  <2>11. a = [[b EXCEPT !.out = Append(@, x)] EXCEPT !.message = m]
    <3>1. a = [T!Emit(b, x) EXCEPT !.message.text = @ \o text]
      BY <1>0, <1>2, <2>1, <2>3, <2>6, <2>7 DEF T!EmitChatVisibleDelta, Spoken, Side
    <3> QED
      BY <2>5, <2>9, <3>1 DEF T!Emit, States
  <2>12. Append(b.out, x) \in Seq(Events)
    BY <2>5, <2>8, Shape, EventAppended
  <2>13. /\ a \in States /\ a.out = Append(b.out, x)
         /\ a.chat = b.chat /\ a.scan = b.scan /\ a.leak = b.leak
    BY <2>5, <2>10, <2>11, <2>12 DEF States
  <2>14. a \in Utters(b, Uttered(b, FALSE, text))
    BY <2>5, <2>7, <2>13, TellingEvent
  <2> QED
    BY <1>0, <2>5, <2>14, QuietOn
<1> QED
  BY <1>1, <1>2

LEMMA AddedCallQuiet ==
  ASSUME NEW st \in States, NEW t \in Tools
  PROVE  AddedCall(st, t) \in Mute(st)
<1>0. PICK a : a = AddedCall(st, t)
  OBVIOUS
<1>1. CASE t.started
  <2>1. a = st
    BY <1>0, <1>1 DEF AddedCall
  <2> QED
    BY <1>0, <2>1, SaysNothing
<1>2. CASE ~t.started
  <2>1. PICK at \in Nat : at = t.at
    BY DEF Tools
  <2>2. PICK x : x = T!Added("call", at)
    OBVIOUS
  <2>3. x \in Events /\ x.e = "added"
    <3>1. x \in Events
      BY <2>2, EmptyText, EventShape DEF Owners
    <3> QED
      BY <2>2, <3>1 DEF T!Added
  <2>4. PICK k \in Nat : k = st.next + 1
    BY Shape
  <2>5. Append(st.out, x) \in Seq(Events)
    BY <2>3, Shape, EventAppended
  <2>6. a = [[st EXCEPT !.out = Append(@, x)] EXCEPT !.next = k]
    BY <1>0, <1>2, <2>1, <2>2, <2>4 DEF AddedCall, T!Emit, States
  <2>7. /\ a \in States /\ a.out = Append(st.out, x)
        /\ a.chat = st.chat /\ a.scan = st.scan /\ a.leak = st.leak
    BY <2>5, <2>6 DEF States
  <2> QED
    BY <1>0, <2>3, <2>7, QuietEvent
<1> QED
  BY <1>1, <1>2 DEF Tools

LEMMA ToldCallQuiet ==
  ASSUME NEW st \in States, NEW t \in Tools, NEW argument \in Texts
  PROVE  ToldCall(st, t, argument) \in Mute(st)
<1>0. PICK a : a = ToldCall(st, t, argument)
  OBVIOUS
<1>1. CASE argument = <<>>
  <2>1. a = st
    BY <1>0, <1>1 DEF ToldCall
  <2> QED
    BY <1>0, <2>1, SaysNothing
<1>2. CASE argument # <<>>
  <2>1. PICK at \in Nat : at = t.at
    BY DEF Tools
  <2>2. PICK x : x = T!Delta("call", at, argument)
    OBVIOUS
  <2>3. x \in Events /\ x.of \notin {"reasoning", "message"}
    <3>1. x \in Events
      BY <2>2, EventShape DEF Owners
    <3> QED
      BY <2>2, <3>1 DEF T!Delta
  <2>4. Append(st.out, x) \in Seq(Events)
    BY <2>3, Shape, EventAppended
  <2>5. a = [st EXCEPT !.out = Append(@, x)]
    BY <1>0, <1>2, <2>1, <2>2 DEF ToldCall, T!Emit
  <2>6. /\ a \in States /\ a.out = Append(st.out, x)
        /\ a.chat = st.chat /\ a.scan = st.scan /\ a.leak = st.leak
    BY <2>4, <2>5 DEF States
  <2> QED
    BY <1>0, <2>3, <2>6, QuietEvent
<1> QED
  BY <1>1, <1>2

LEMMA EmitChatToolDeltaQuiet ==
  ASSUME NEW st \in States, NEW index \in Nat, NEW argument \in Texts
  PROVE  T!EmitChatToolDelta(st, index, argument) \in Mute(st)
<1>1. PICK c : c = T!CloseReasoning(st)
  OBVIOUS
<1>2. c \in Mute(st) /\ c \in States
  BY <1>1, CloseReasoningQuiet, QuietOn
<1>3. PICK b : b = T!CloseChatMessage(c)
  OBVIOUS
<1>4. b \in Mute(c)
  BY <1>2, <1>3, CloseChatMessageQuiet
<1>5. b \in Mute(st) /\ b \in States
  BY <1>2, <1>4, QuietOn
<1>6. PICK t : t = IF index \in DOMAIN b.tools THEN b.tools[index] ELSE T!FreshTool(b.next)
  OBVIOUS
<1>7. t \in Tools
  <2>1. b.next \in Nat /\ \A i \in DOMAIN b.tools : b.tools[i] \in Tools
    BY <1>5, Shape, TableShape
  <2>2. T!FreshTool(b.next) \in Tools
    BY <2>1, EmptyText DEF T!FreshTool, Tools
  <2> QED
    BY <1>6, <2>1, <2>2
<1>8. PICK d : d = AddedCall(b, t)
  OBVIOUS
<1>9. d \in Mute(b)
  BY <1>5, <1>7, <1>8, AddedCallQuiet
<1>10. d \in Mute(st) /\ d \in States
  BY <1>5, <1>9, QuietOn
<1>11. PICK e : e = ToldCall(d, t, argument)
  OBVIOUS
<1>12. e \in Mute(d)
  BY <1>7, <1>10, <1>11, ToldCallQuiet
<1>13. e \in Mute(st) /\ e \in States
  BY <1>10, <1>12, QuietOn
<1>14. PICK a : a = T!EmitChatToolDelta(st, index, argument)
  OBVIOUS
<1>15. PICK table : a = [e EXCEPT !.tools = table]
  <2>1. b = T!CloseChatMessage(T!CloseReasoning(st))
    BY <1>1, <1>3
  <2>2. e = ToldCall(AddedCall(b, t), t, argument)
    BY <1>8, <1>11
  <2>3. a = [e EXCEPT !.tools = [i \in DOMAIN @ \cup {index} |->
                                   IF i = index
                                   THEN [t EXCEPT !.started = TRUE, !.args = @ \o argument]
                                   ELSE @[i]]]
    BY <1>6, <1>14, <2>1, <2>2, ZenonT(60) DEF T!EmitChatToolDelta, AddedCall, ToldCall
  <2> QED
    BY <2>3
<1>16. a \in States
  BY <1>14, EmitChatToolDeltaShape DEF CallGoesOn
<1>17. a.chat = e.chat /\ a.scan = e.scan /\ a.leak = e.leak /\ a.out = e.out
  BY <1>13, <1>15 DEF States
<1> QED
  BY <1>13, <1>14, <1>16, <1>17 DEF Mute, Utters

LEMMA CloseChatToolQuiet ==
  ASSUME NEW st \in States, NEW index \in DOMAIN st.tools
  PROVE  T!CloseChatTool(st, index) \in Mute(st)
<1>0. PICK a : a = T!CloseChatTool(st, index)
  OBVIOUS
<1>1. PICK t \in Tools : t = st.tools[index]
  <2>1. st.tools \in Tables
    BY Shape
  <2> QED
    BY <2>1, TableShape
<1>2. a \in States
  BY <1>0, CloseChatToolShape
<1>3. CASE ~t.started
  <2>1. a = st
    BY <1>0, <1>1, <1>3 DEF T!CloseChatTool
  <2> QED
    BY <1>0, <2>1, SaysNothing
<1>4. CASE t.started
  <2>1. PICK at \in Nat : at = t.at
    BY DEF Tools
  <2>2. PICK x : x = T!Done("call", at, t.args)
    OBVIOUS
  <2>3. x \in Events /\ x.e = "done"
    <3>1. x \in Events
      BY <2>2, EventShape DEF Owners, Tools
    <3> QED
      BY <2>2, <3>1 DEF T!Done
  <2>4. a = [T!Emit(st, x) EXCEPT !.tools[index].started = FALSE]
    BY <1>0, <1>1, <1>4, <2>1, <2>2 DEF T!CloseChatTool
  <2>5. /\ a.out = Append(st.out, x)
        /\ a.chat = st.chat /\ a.scan = st.scan /\ a.leak = st.leak
    BY <2>4 DEF T!Emit, States
  <2> QED
    BY <1>0, <1>2, <2>3, <2>5, QuietEvent
<1> QED
  BY <1>3, <1>4 DEF Tools

LEMMA CloseChatToolsQuiet ==
  ASSUME NEW st \in States
  PROVE  T!CloseChatTools(st) \in Mute(st)
<1>0. PICK n \in Nat : \E f :
        /\ DOMAIN st.tools \subseteq Nat /\ \A i \in DOMAIN st.tools : i < n
        /\ f \in [0 .. n -> Shuts(st)] /\ f[0] = st
        /\ \A m \in 1 .. n :
             f[m] = IF m - 1 \in DOMAIN st.tools THEN T!CloseChatTool(f[m - 1], m - 1) ELSE f[m - 1]
        /\ T!CloseChatTools(st) = f[n]
  BY CloseChatToolsLoops
<1>1. PICK f :
        /\ f \in [0 .. n -> Shuts(st)] /\ f[0] = st
        /\ \A m \in 1 .. n :
             f[m] = IF m - 1 \in DOMAIN st.tools THEN T!CloseChatTool(f[m - 1], m - 1) ELSE f[m - 1]
        /\ T!CloseChatTools(st) = f[n]
  BY <1>0
<1>2. PICK C : C = {m \in 0 .. n : f[m] \in Mute(st)}
  OBVIOUS
<1>3. 0 \in C
  BY <1>1, <1>2, SaysNothing
<1>4. ASSUME NEW m \in 1 .. n, m - 1 \in C PROVE m \in C
  <2>1. PICK r : r = f[m - 1]
    OBVIOUS
  <2>2. r \in Mute(st) /\ r \in States /\ DOMAIN r.tools = DOMAIN st.tools
    <3>1. r \in Shuts(st)
      BY <1>1, <2>1
    <3> QED
      BY <1>2, <1>4, <2>1, <3>1 DEF Shuts
  <2>3. PICK k : k = m - 1
    OBVIOUS
  <2>4. f[m] = IF k \in DOMAIN st.tools THEN T!CloseChatTool(r, k) ELSE r
    BY <1>1, <2>1, <2>3
  <2>5. ASSUME k \in DOMAIN st.tools PROVE T!CloseChatTool(r, k) \in Mute(st)
    <3>1. T!CloseChatTool(r, k) \in Mute(r)
      BY <2>2, <2>5, CloseChatToolQuiet
    <3> QED
      BY <2>2, <3>1, QuietOn
  <2>6. f[m] \in Mute(st)
    BY <2>2, <2>4, <2>5
  <2> QED
    BY <1>2, <2>6
<1>5. 0 .. n \subseteq C
  BY <1>3, <1>4, UpTo
<1> QED
  BY <1>1, <1>2, <1>5

-----------------------------------------------------------------------------
(* Prose in which no call leaks: the tokens but the marker.                  *)

PlainTokens == Tokens \ {"mark"}

LEMMA PlainTexts ==
  /\ PlainTokens \in SUBSET Tokens /\ Seq(PlainTokens) \subseteq Texts
  /\ \A a, b \in PlainTokens : Fit(a, b) => Made(a, b) \in PlainTokens
<1>1. PlainTokens \in SUBSET Tokens
  BY DEF PlainTokens
<1>2. ASSUME NEW a \in PlainTokens, NEW b \in PlainTokens, Fit(a, b) PROVE Made(a, b) \in PlainTokens
  <2>1. Made(a, b) \in T!Wholes
    BY <1>2, FitIs
  <2>2. "mark" \notin T!Wholes
    BY DEF T!Wholes
  <2> QED
    BY <2>1, <2>2, MarksAreTokens DEF PlainTokens
<1> QED
  BY <1>1, <1>2, PiecesOfText

LEMMA PlainJoined ==
  ASSUME NEW text \in Seq(PlainTokens)
  PROVE  T!Joined(text) \in Seq(PlainTokens)
<1>1. text \in Texts
  BY PlainTexts
<1>2. T!Joined(text) = JoinTo(<<>>, text)
  BY <1>1, JoinedIs
<1>3. <<>> \in Seq(PlainTokens)
  OBVIOUS
<1>4. PICK none \in Seq(PlainTokens) : none = <<>>
  BY <1>3
<1>5. PICK V \in SUBSET Tokens : V = PlainTokens /\ \A a, b \in V : Fit(a, b) => Made(a, b) \in V
  BY PlainTexts
<1>6. JoinTo(none, text) \in Seq(V)
  BY <1>5, JoinedOf
<1> QED
  BY <1>2, <1>4, <1>5, <1>6

\* The states in which nothing is withheld, and the client has read v.
Clears(st, v) ==
  {a \in States : a.chat = st.chat /\ a.scan = st.scan /\ a.leak = <<>> /\ Reading(a.out) = v}

\* Without a marker all that was withheld is shown.
LEMMA ShowProsePlain ==
  ASSUME NEW st \in States, st.leak \in Seq(PlainTokens)
  PROVE  T!ShowProse(st) \in Clears(st, Uttered(st, FALSE, st.leak))
<1>1. PICK leak \in Seq(PlainTokens) : leak = st.leak
  OBVIOUS
<1>2. PICK buffer \in Seq(PlainTokens) : buffer = T!Joined(leak)
  BY PlainJoined
<1>3. leak \in Texts /\ buffer \in Texts
  BY PlainTexts
<1>4. PICK n \in Nat : n = Len(buffer) /\ \A i \in DOMAIN buffer : buffer[i] \in PlainTokens
  OBVIOUS
<1>5. PICK marks : marks = {i \in DOMAIN buffer : buffer[i] = "mark"}
  OBVIOUS
<1>e. marks = {}
  BY <1>4, <1>5 DEF PlainTokens
<1>m. PICK m \in Nat : m = IF marks = {} THEN Len(buffer) + 1 ELSE T!Min(marks)
  BY <1>e
<1>6. SubSeq(buffer, m, Len(buffer)) = <<>> /\ SubSeq(buffer, 1, m - 1) = buffer
  BY <1>4, <1>e, <1>m
<1>7. PICK a : a = [st EXCEPT !.leak = <<>>]
  OBVIOUS
<1>8. /\ a \in States /\ a.chat = st.chat /\ a.scan = st.scan /\ a.leak = <<>> /\ a.out = st.out
  BY <1>7, EmptyText DEF States
<1>9. T!ShowProse(st) = T!EmitChatVisibleDelta(a, buffer)
  BY <1>1, <1>2, <1>5, <1>m, <1>6, <1>7 DEF T!ShowProse
<1>10. T!EmitChatVisibleDelta(a, buffer) \in Utters(a, Uttered(a, FALSE, buffer))
  BY <1>3, <1>8, EmitChatVisibleDeltaUtters
<1>11. Uttered(a, FALSE, buffer) = Uttered(st, FALSE, leak)
  <2>1. PICK v \in Sides : v = Reading(st.out)
    BY Shape, ReadingIs
  <2>2. v[FALSE] \in Texts
    BY DEF Sides
  <2>3. buffer = JoinTo(<<>>, leak)
    BY <1>2, <1>3, JoinedIs
  <2>4. JoinTo(v[FALSE], JoinTo(<<>>, leak)) = JoinTo(v[FALSE], leak)
    BY <1>3, <2>2, JoinJoined
  <2> QED
    BY <1>8, <2>1, <2>3, <2>4 DEF Uttered
<1> QED
  BY <1>1, <1>8, <1>9, <1>10, <1>11 DEF Utters, Clears

LEMMA DrainLeakPlain ==
  ASSUME NEW st \in States, st.leak \in Seq(PlainTokens)
  PROVE  T!DrainLeak(st) = st
<1>1. PICK b : b = T!ShowProse(st)
  OBVIOUS
<1>2. b.leak = <<>>
  BY <1>1, ShowProsePlain DEF Clears
<1>3. {i \in DOMAIN b.leak : b.leak[i] = "json"} = {}
  BY <1>2
<1> QED
  BY <1>1, <1>3 DEF T!DrainLeak, T!DrainShown

LEMMA DrainLeaksPlain ==
  ASSUME NEW st \in States, st.leak \in Seq(PlainTokens)
  PROVE  T!DrainLeaks(st) = T!ShowProse(st)
<1>1. PICK n \in Nat : n = Len(st.leak)
  OBVIOUS
<1>2. PICK next : next = T!DrainLeak(st)
  OBVIOUS
<1>3. next = st
  BY <1>2, DrainLeakPlain
<1> DEFINE All(g) == g = [m \in 0 .. n |-> IF m = 0 THEN st ELSE T!DrainLeak(g[m - 1])]
<1>4. PICK g : g = CHOOSE h : All(h)
  OBVIOUS
<1>5. T!DrainLeaks(st) = T!ShowProse(g[n])
  BY <1>1, <1>4 DEF T!DrainLeaks
<1>6. All([m \in 0 .. n |-> st])
  <2>1. PICK f : f = [m \in 0 .. n |-> st]
    OBVIOUS
  <2>2. \A m \in 1 .. n : T!DrainLeak(f[m - 1]) = st
    BY <1>2, <1>3, <2>1
  <2>3. \A m \in 0 .. n : m = 0 \/ m \in 1 .. n
    OBVIOUS
  <2>4. \A m \in 0 .. n : (IF m = 0 THEN st ELSE T!DrainLeak(f[m - 1])) = st
    BY <2>2, <2>3
  <2>5. f = [m \in 0 .. n |-> IF m = 0 THEN st ELSE T!DrainLeak(f[m - 1])]
    BY <2>1, <2>4
  <2> QED
    BY <2>1, <2>5
<1>7. All(g)
  BY <1>4, <1>6
<1>8. g[0] = st /\ \A m \in 1 .. n : g[m] = T!DrainLeak(g[m - 1])
  <2>1. PICK h : h = [m \in 0 .. n |-> IF m = 0 THEN st ELSE T!DrainLeak(g[m - 1])]
    OBVIOUS
  <2>2. g = h
    BY <1>7, <2>1
  <2>3. h[0] = st /\ \A m \in 1 .. n : h[m] = T!DrainLeak(g[m - 1])
    BY <2>1
  <2> HIDE DEF All
  <2> QED
    BY <2>2, <2>3
<1> HIDE DEF All
<1>9. PICK C : C = {m \in 0 .. n : g[m] = st}
  OBVIOUS
<1>10. 0 \in C
  BY <1>8, <1>9
<1>a. ASSUME NEW m \in 1 .. n, m - 1 \in C PROVE m \in C
  <2>1. g[m - 1] = st /\ g[m] = T!DrainLeak(g[m - 1]) /\ m \in 0 .. n
    BY <1>8, <1>9, <1>a
  <2> QED
    BY <1>2, <1>3, <1>9, <2>1
<1>11. 0 .. n \subseteq C
  BY <1>10, <1>a, UpTo
<1>12. g[n] = st
  BY <1>9, <1>11
<1> QED
  BY <1>5, <1>12

LEMMA EmitVisiblePlain ==
  ASSUME NEW st \in States, st.leak = <<>>, NEW text \in Seq(PlainTokens)
  PROVE  T!EmitVisible(st, text) \in Utters(st, Uttered(st, FALSE, text))
<1>1. <<>> \o text = text
  OBVIOUS
<1>2. PICK a : a = [st EXCEPT !.leak = text]
  OBVIOUS
<1>3. /\ a \in States /\ a.chat = st.chat /\ a.scan = st.scan /\ a.leak = text /\ a.out = st.out
  BY <1>2, PlainTexts DEF States
<1>4. T!EmitVisible(st, text) = T!DrainLeaks(a)
  BY <1>1, <1>2 DEF T!EmitVisible
<1>5. T!DrainLeaks(a) = T!ShowProse(a)
  BY <1>3, DrainLeaksPlain
<1>6. T!ShowProse(a) \in Clears(a, Uttered(a, FALSE, a.leak))
  BY <1>3, ShowProsePlain
<1>7. Uttered(a, FALSE, a.leak) = Uttered(st, FALSE, text)
  BY <1>3 DEF Uttered
<1> QED
  BY <1>3, <1>4, <1>5, <1>6, <1>7 DEF Clears, Utters

\* Each piece is told, on its side.
LEMMA EmitPieceUtters ==
  ASSUME NEW st \in States, st.leak = <<>>, NEW p \in PiecesOf(PlainTokens), NEW carrier \in BOOLEAN,
         st.chat \/ carrier \/ p.kind = "think"
  PROVE  T!EmitPiece(st, p, carrier) \in Utters(st, Uttered(st, p.kind = "think", p.text))
<1>1. PICK text \in Seq(PlainTokens) : text = p.text
  BY DEF PiecesOf
<1>t. text \in Texts
  BY PlainTexts
<1>2. CASE p.kind = "think"
  <2>1. T!EmitPiece(st, p, carrier) = T!EmitThinkDelta(st, text)
    BY <1>1, <1>2 DEF T!EmitPiece
  <2>2. (p.kind = "think") = TRUE
    BY <1>2
  <2> QED
    BY <1>1, <1>t, <2>1, <2>2, EmitThinkDeltaUtters
<1>3. CASE p.kind # "think"
  <2>0. (p.kind = "think") = FALSE
    BY <1>3
  <2>1. PICK c : c = T!CloseReasoning(st)
    OBVIOUS
  <2>2. c \in Mute(st) /\ c \in States /\ c.chat = st.chat /\ c.leak = <<>>
    BY <2>1, CloseReasoningQuiet DEF Mute, Utters
  <2>3. Utters(c, Uttered(c, FALSE, text)) \subseteq Utters(st, Uttered(st, FALSE, text))
    BY <2>2, QuietOn
  <2>4. CASE st.chat
    <3>1. T!EmitPiece(st, p, carrier) = T!EmitVisible(c, text)
      BY <1>1, <1>3, <2>1, <2>4 DEF T!EmitPiece
    <3>2. T!EmitVisible(c, text) \in Utters(c, Uttered(c, FALSE, text))
      BY <2>2, EmitVisiblePlain
    <3> QED
      BY <1>1, <2>0, <2>3, <3>1, <3>2
  <2>5. CASE ~st.chat
    <3>1. T!EmitPiece(st, p, carrier) = T!Emit(c, T!Delta("message", 1, text))
      BY <1>1, <1>3, <2>1, <2>5 DEF T!EmitPiece
    <3>2. PICK x : x = T!Delta(Side(FALSE), 1, text)
      OBVIOUS
    <3>3. x \in Events /\ x = T!Delta("message", 1, text)
      BY <1>t, <3>2, EventShape DEF Owners, Side
    <3>4. PICK a : a = [c EXCEPT !.out = Append(@, x)]
      OBVIOUS
    <3>5. Append(c.out, x) \in Seq(Events)
      BY <2>2, <3>3, Shape, EventAppended
    <3>6. /\ a \in States /\ a.out = Append(c.out, x)
          /\ a.chat = c.chat /\ a.scan = c.scan /\ a.leak = c.leak
      BY <2>2, <3>4, <3>5 DEF States
    <3>7. a \in Utters(c, Uttered(c, FALSE, text))
      BY <1>t, <2>2, <3>2, <3>6, TellingEvent
    <3>8. T!EmitPiece(st, p, carrier) = a
      BY <3>1, <3>3, <3>4 DEF T!Emit
    <3> QED
      BY <1>1, <2>0, <2>3, <3>7, <3>8
  <2> QED
    BY <2>4, <2>5
<1> QED
  BY <1>2, <1>3

\* The pieces are told one after the other.
LEMMA EmitPiecesUtters ==
  ASSUME NEW st \in States, st.leak = <<>>, NEW pieces \in Seq(PiecesOf(PlainTokens)),
         NEW carrier \in BOOLEAN, st.chat \/ carrier
  PROVE  T!EmitPieces(st, pieces, carrier) \in Utters(st, Shown(Reading(st.out), pieces))
<1>1. pieces \in Seq(Pieces)
  BY PlainTexts, PiecesOfText
<1>2. PICK n \in Nat : n = Len(pieces) /\ \A m \in 1 .. n : pieces[m] \in PiecesOf(PlainTokens) /\ pieces[m] \in Pieces
  <2>1. PICK A : A = PiecesOf(PlainTokens)
    OBVIOUS
  <2>2. PICK n \in Nat : n = Len(pieces) /\ \A m \in 1 .. n : pieces[m] \in A
    BY <2>1
  <2>3. PICK B : B = Pieces
    OBVIOUS
  <2>4. \A m \in 1 .. n : pieces[m] \in B
    BY <1>1, <2>2, <2>3
  <2> QED
    BY <2>1, <2>2, <2>3, <2>4
<1>3. PICK f : /\ f \in [0 .. n -> Goes(st)] /\ f[0] = st
               /\ \A m \in 1 .. n : f[m] = T!EmitPiece(f[m - 1], pieces[m], carrier)
               /\ T!EmitPieces(st, pieces, carrier) = f[n]
  BY <1>1, <1>2, EmitPiecesLoops
<1>4. PICK base \in Sides : base = Reading(st.out)
  BY Shape, ReadingIs
<1>5. PICK like : like = {a \in States : a.chat = st.chat /\ a.scan = st.scan /\ a.leak = <<>>}
  OBVIOUS
<1>6. ASSUME NEW r \in like, NEW m \in 1 .. n
      PROVE  /\ T!EmitPiece(r, pieces[m], carrier) \in like
             /\ Reading(T!EmitPiece(r, pieces[m], carrier).out) = Tells[<<Reading(r.out), pieces[m]>>]
  <2>1. PICK p \in PiecesOf(PlainTokens) : p = pieces[m] /\ p \in Pieces
    BY <1>2
  <2>2. r \in States /\ r.leak = <<>> /\ (r.chat \/ carrier)
    BY <1>5
  <2>3. T!EmitPiece(r, p, carrier) \in Utters(r, Uttered(r, p.kind = "think", p.text))
    BY <2>2, EmitPieceUtters
  <2>4. Reading(r.out) \in Sides
    BY <2>2, Shape, ReadingIs
  <2>5. Tells[<<Reading(r.out), p>>] = Uttered(r, p.kind = "think", p.text)
    <3>1. PICK u \in Sides : u = Reading(r.out)
      BY <2>4
    <3>2. Tells[<<u, p>>] = [u EXCEPT ![p.kind = "think"] = JoinTo(@, p.text)]
      BY <2>1 DEF Tells
    <3> QED
      BY <3>1, <3>2 DEF Uttered
  <2> QED
    BY <1>5, <2>1, <2>3, <2>5 DEF Utters
<1>7. PICK C : C = {m \in 0 .. n : f[m] \in like}
  OBVIOUS
<1>8. 0 .. n \subseteq C
  <2>1. 0 \in C
    BY <1>3, <1>5, <1>7
  <2>2. ASSUME NEW m \in 1 .. n, m - 1 \in C PROVE m \in C
    <3>1. PICK r \in like : r = f[m - 1]
      BY <1>7, <2>2
    <3>2. f[m] = T!EmitPiece(r, pieces[m], carrier) /\ m \in 0 .. n
      BY <1>3, <3>1
    <3> QED
      BY <1>6, <1>7, <3>2
  <2> QED
    BY <2>1, <2>2, UpTo
<1>9. PICK h : h = [m \in 0 .. n |-> Reading(f[m].out)]
  OBVIOUS
<1>10. Through(h, Tells, base, pieces, Sides)
  <2>1. h \in [0 .. n -> Sides]
    <3>1. ASSUME NEW m \in 0 .. n PROVE Reading(f[m].out) \in Sides
      <4>1. f[m] \in States
        BY <1>5, <1>7, <1>8
      <4> QED
        BY <4>1, Shape, ReadingIs
    <3> QED
      BY <1>9, <3>1
  <2>2. h[0] = base
    BY <1>3, <1>4, <1>9
  <2>3. \A m \in 1 .. n : h[m] = Tells[<<h[m - 1], pieces[m]>>]
    <3> TAKE m \in 1 .. n
    <3>1. m - 1 \in 0 .. n /\ m \in 0 .. n
      OBVIOUS
    <3>2. PICK r \in like : r = f[m - 1]
      BY <1>7, <1>8, <3>1
    <3>3. f[m] = T!EmitPiece(r, pieces[m], carrier)
      BY <1>3, <3>2
    <3>4. Reading(f[m].out) = Tells[<<Reading(r.out), pieces[m]>>]
      BY <1>6, <3>3
    <3> QED
      BY <1>9, <3>1, <3>2, <3>4
  <2> QED
    BY <1>2, <2>1, <2>2, <2>3 DEF Through
<1>11. Machine(Tells, base, Sides, Pieces)
  <2>1. ASSUME NEW u \in Sides, NEW p \in Pieces
        PROVE  [u EXCEPT ![p.kind = "think"] = JoinTo(@, p.text)] \in Sides
    <3>1. PICK c \in BOOLEAN : c = (p.kind = "think")
      OBVIOUS
    <3>2. p.text \in Texts
      BY DEF Pieces
    <3>3. [u EXCEPT ![c] = JoinTo(@, p.text)] \in Sides
      BY <3>2, SideOn
    <3> QED
      BY <3>1, <3>3
  <2> QED
    BY <2>1 DEF Machine, Tells
<1>12. Run(Tells, base, pieces) = h[Len(pieces)]
  BY <1>1, <1>10, <1>11, RunEnds
<1>13. Shown(base, pieces) = Reading(f[n].out)
  BY <1>2, <1>9, <1>12 DEF Shown
<1>14. f[n] \in like
  BY <1>7, <1>8
<1> QED
  BY <1>3, <1>4, <1>5, <1>13, <1>14 DEF Utters

LEMMA EmitPiecesFew ==
  ASSUME NEW st \in States, NEW carrier \in BOOLEAN
  PROVE  /\ T!EmitPieces(st, <<>>, carrier) = st
         /\ \A p \in Pieces : T!EmitPieces(st, <<p>>, carrier) = T!EmitPiece(st, p, carrier)
<1>1. T!EmitPieces(st, <<>>, carrier) = st
  <2>1. <<>> \in Seq(Pieces)
    OBVIOUS
  <2>2. PICK none \in Seq(Pieces) : none = <<>>
    BY <2>1
  <2>3. PICK f : f[0] = st /\ T!EmitPieces(st, none, carrier) = f[Len(none)]
    BY EmitPiecesLoops
  <2> QED
    BY <2>2, <2>3
<1>2. ASSUME NEW p \in Pieces PROVE T!EmitPieces(st, <<p>>, carrier) = T!EmitPiece(st, p, carrier)
  <2>1. PICK S : S = Pieces /\ p \in S
    BY <1>2
  <2>2. PICK one \in Seq(S) : one = <<p>>
    <3>1. <<p>> \in Seq(S)
      BY <2>1
    <3> QED
      BY <3>1
  <2>6. Len(one) = 1 /\ one[1] = p
    BY <2>2
  <2>3. PICK f : /\ f[0] = st
                 /\ \A m \in 1 .. Len(one) : f[m] = T!EmitPiece(f[m - 1], one[m], carrier)
                 /\ T!EmitPieces(st, one, carrier) = f[Len(one)]
    BY <2>1, EmitPiecesLoops
  <2>4. 1 \in 1 .. Len(one) /\ 1 - 1 = 0
    BY <2>6
  <2>5. f[1] = T!EmitPiece(st, p, carrier)
    BY <2>3, <2>4, <2>6
  <2> QED
    BY <2>2, <2>3, <2>5, <2>6
<1> QED
  BY <1>1, <1>2

\* When the item ends, what is held is told; but a Responses stream has no event for prose.
LEMMA FlushThinkUtters ==
  ASSUME NEW st \in States, st.leak = <<>>, st.scan.hold \in Seq(PlainTokens)
  PROVE  LET a == T!FlushThink(st) IN
         /\ a \in States /\ a.chat = st.chat /\ a.leak = <<>>
         /\ Reading(a.out) = IF st.chat \/ st.scan.inside
                             THEN Uttered(st, st.scan.inside, st.scan.hold)
                             ELSE Reading(st.out)
<1>1. PICK inside \in BOOLEAN : inside = st.scan.inside
  BY Shape DEF Scans
<1>2. PICK hold \in Seq(PlainTokens) : hold = st.scan.hold
  OBVIOUS
<1>3. PICK d \in Dsmls : d = [[st.dsml EXCEPT !.hold = <<>>] EXCEPT !.suppress = FALSE]
  BY EmptyText, Shape DEF Dsmls
<1>4. PICK sc \in Scans : sc = [st.scan EXCEPT !.hold = <<>>]
  BY EmptyText, Shape DEF Scans
<1>5. PICK q : q = [st EXCEPT !.dsml = d, !.scan = sc]
  OBVIOUS
<1>6. q \in States /\ q.chat = st.chat /\ q.leak = <<>> /\ q.out = st.out
  BY <1>5 DEF States
<1>7. PICK b : b = T!EmitPieces(q, T!Piece(inside, hold), FALSE)
  OBVIOUS
<1>8. T!FlushThink(st) = T!CloseReasoning(b)
  <2>1. q = [st EXCEPT !.dsml.hold = <<>>, !.dsml.suppress = FALSE, !.scan.hold = <<>>]
    BY <1>3, <1>4, <1>5 DEF States, Dsmls, Scans
  <2> QED
    BY <1>1, <1>2, <1>7, <2>1 DEF T!FlushThink, T!ScanFlush
<1>9. PICK v : v = IF st.chat \/ inside THEN Uttered(q, inside, hold) ELSE Reading(q.out)
  OBVIOUS
<1>10. b \in Utters(q, v)
  <2>1. CASE hold = <<>>
    <3>1. T!Piece(inside, hold) = <<>>
      BY <2>1 DEF T!Piece
    <3>2. b = q
      BY <1>6, <1>7, <3>1, EmitPiecesFew
    <3>3. Uttered(q, inside, hold) = Reading(q.out)
      BY <1>6, <2>1, NothingUttered
    <3>4. q \in Mute(q)
      BY <1>6, SaysNothing
    <3> QED
      BY <1>9, <3>2, <3>3, <3>4 DEF Mute
  <2>2. CASE hold # <<>>
    <3>1. PICK p : p = [kind |-> IF inside THEN "think" ELSE "visible", text |-> hold]
      OBVIOUS
    <3>2. p \in PiecesOf(PlainTokens) /\ (p.kind = "think") = inside /\ p.text = hold
      BY <3>1 DEF PiecesOf
    <3>3. p \in Pieces
      <4>1. hold \in Texts
        BY PlainTexts
      <4> QED
        BY <3>1, <4>1 DEF Pieces
    <3>4. T!Piece(inside, hold) = <<p>>
      BY <2>2, <3>1 DEF T!Piece
    <3>5. b = T!EmitPiece(q, p, FALSE)
      BY <1>6, <1>7, <3>3, <3>4, EmitPiecesFew
    <3>6. CASE st.chat \/ inside
      <4>1. T!EmitPiece(q, p, FALSE) \in Utters(q, Uttered(q, p.kind = "think", p.text))
        <5>1. PICK carrier \in BOOLEAN : carrier = FALSE
          OBVIOUS
        <5>2. q.chat \/ carrier \/ p.kind = "think"
          BY <1>6, <3>2, <3>6
        <5>3. T!EmitPiece(q, p, carrier) \in Utters(q, Uttered(q, p.kind = "think", p.text))
          BY <1>6, <3>2, <5>2, EmitPieceUtters
        <5> QED
          BY <5>1, <5>3
      <4> QED
        BY <1>9, <3>2, <3>5, <3>6, <4>1
    <3>7. CASE ~(st.chat \/ inside)
      <4>1. p.kind # "think" /\ ~q.chat
        BY <1>6, <3>2, <3>7
      <4>2. b = T!CloseReasoning(q)
        BY <3>5, <4>1 DEF T!EmitPiece
      <4>3. b \in Mute(q)
        BY <1>6, <4>2, CloseReasoningQuiet
      <4> QED
        BY <1>9, <3>7, <4>3 DEF Mute
    <3> QED
      BY <3>6, <3>7
  <2> QED
    BY <2>1, <2>2
<1>11. b \in States /\ b.chat = st.chat /\ b.leak = <<>> /\ Reading(b.out) = v
  BY <1>6, <1>10 DEF Utters
<1>12. PICK a : a = T!CloseReasoning(b)
  OBVIOUS
<1>13. a \in Mute(b)
  BY <1>11, <1>12, CloseReasoningQuiet
<1>14. a \in States /\ a.chat = st.chat /\ a.leak = <<>> /\ Reading(a.out) = v
  BY <1>11, <1>13 DEF Mute, Utters
<1>15. v = IF st.chat \/ inside THEN Uttered(st, inside, hold) ELSE Reading(st.out)
  BY <1>6, <1>9 DEF Uttered
<1> QED
  BY <1>1, <1>2, <1>8, <1>12, <1>14, <1>15

LEMMA FinishChatUtters ==
  ASSUME NEW st \in States, st.chat, ~st.completed, st.leak = <<>>, st.scan.hold \in Seq(PlainTokens)
  PROVE  Reading(T!FinishChat(st).out) = Uttered(st, st.scan.inside, st.scan.hold)
<1>1. PICK f : f = T!FlushThink(st)
  OBVIOUS
<1>2. /\ f \in States /\ f.leak = <<>>
      /\ Reading(f.out) = Uttered(st, st.scan.inside, st.scan.hold)
  BY <1>1, FlushThinkUtters
<1>3. [f EXCEPT !.leak = <<>>] = f
  BY <1>2 DEF States
<1>4. T!EmitChatVisibleDelta(f, <<>>) = f
  BY DEF T!EmitChatVisibleDelta
<1>5. PICK d : d = T!CloseChatMessage(f)
  OBVIOUS
<1>6. d \in Mute(f) /\ d \in States
  BY <1>2, <1>5, CloseChatMessageQuiet, QuietOn
<1>7. PICK e : e = T!CloseChatTools(d)
  OBVIOUS
<1>8. e \in Mute(d)
  BY <1>6, <1>7, CloseChatToolsQuiet
<1>9. e \in States /\ Reading(e.out) = Reading(f.out)
  BY <1>6, <1>8 DEF Mute, Utters
<1>10. PICK x : x = Ending
  OBVIOUS
<1>11. x \in Events /\ x.e # "delta"
  BY <1>10, EmptyText DEF Ending, Events, EventKinds, Owners
<1>12. T!FinishChat(st) = [[e EXCEPT !.out = Append(@, x)] EXCEPT !.completed = TRUE]
  BY <1>1, <1>2, <1>3, <1>4, <1>5, <1>7, <1>10 DEF T!FinishChat, T!Emit, Ending
<1>13. PICK a : a = [[e EXCEPT !.out = Append(@, x)] EXCEPT !.completed = TRUE]
  OBVIOUS
<1>14. a.out = Append(e.out, x) /\ e.out \in Seq(Events)
  BY <1>9, <1>13, Shape DEF States
<1>15. Reading(a.out) = Reading(e.out)
  BY <1>11, <1>14, ReadingQuiet
<1> QED
  BY <1>2, <1>9, <1>12, <1>13, <1>15

-----------------------------------------------------------------------------
(* What a whole text says is what a reader has read.                         *)

\* A token is of the part.
Of(text, i, b) == T!Thinking(text, i) = b /\ text[i] # IF b THEN "close" ELSE "open"
Parted(f, text, b) ==
  /\ f \in [0 .. Len(text) -> Texts] /\ f[0] = <<>>
  /\ \A m \in 1 .. Len(text) : f[m] = IF Of(text, m, b) THEN Append(f[m - 1], text[m]) ELSE f[m - 1]

LEMMA PartIs ==
  ASSUME NEW text \in Texts, NEW b
  PROVE  /\ \E f : Parted(f, text, b)
         /\ \A f : Parted(f, text, b) => T!Part(text, b) = f[Len(text)]
<1>1. PICK n \in Nat : n = Len(text) /\ \A m \in 1 .. n : text[m] \in Tokens
  BY Counted
<1>2. PICK S : S = Texts
  OBVIOUS
<1>b. PICK base : base = <<>>
  OBVIOUS
<1> DEFINE Kept(r, m) == IF Of(text, m, b) THEN Append(r, text[m]) ELSE r
<1>3. PICK step : step = [p \in S \X (1 .. n) |-> Kept(p[1], p[2])]
  OBVIOUS
<1>4. base \in S /\ step \in [S \X (1 .. n) -> S]
  <2>1. ASSUME NEW r \in S, NEW m \in 1 .. n PROVE Kept(r, m) \in S
    <3>1. Append(r, text[m]) \in Texts
      BY <1>1, <1>2, AppendOne
    <3> QED
      BY <1>2, <3>1
  <2>2. base \in S
    BY <1>2, <1>b, EmptyText
  <2> HIDE DEF Kept
  <2> QED
    BY <1>3, <2>1, <2>2
<1>5. PICK f : Loop(f, n, base, step, S)
  BY <1>4, LoopExists DEF Steps
<1>6. \A g : \A m \in 1 .. n : g[m - 1] \in S => Kept(g[m - 1], m) = step[<<g[m - 1], m>>]
  <2> HIDE DEF Kept
  <2> QED
    BY <1>3
<1>7. \A m \in 1 .. n : f[m - 1] \in S /\ f[m] = Kept(f[m - 1], m)
  <2> TAKE m \in 1 .. n
  <2>1. f[m - 1] \in S /\ f[m] = step[<<f[m - 1], m>>]
    BY <1>5 DEF Loop
  <2> HIDE DEF Kept
  <2> QED
    BY <1>6, <2>1
<1> DEFINE All(g) == g = [m \in 0 .. n |-> IF m = 0 THEN base ELSE Kept(g[m - 1], m)]
<1>10. T!Part(text, b) = (CHOOSE g : All(g))[n]
  <2>1. \A g, m : Kept(g[m - 1], m)
                    = IF T!Thinking(text, m) = b /\ text[m] # IF b THEN "close" ELSE "open"
                      THEN Append(g[m - 1], text[m]) ELSE g[m - 1]
    BY DEF Of
  <2> QED
    BY <1>1, <1>b DEF T!Part, Of
<1>15. Parted(f, text, b)
  <2>1. \A m \in 1 .. n : f[m] = IF Of(text, m, b) THEN Append(f[m - 1], text[m]) ELSE f[m - 1]
    BY <1>7
  <2> QED
    BY <1>1, <1>2, <1>b, <1>5, <2>1 DEF Loop, Parted
<1>16. ASSUME NEW h, Parted(h, text, b) PROVE h = f
  <2>1. /\ h \in [0 .. n -> S] /\ h[0] = base
        /\ \A m \in 1 .. n : h[m] = Kept(h[m - 1], m)
    BY <1>1, <1>2, <1>b, <1>16 DEF Parted
  <2> HIDE DEF Kept
  <2>2. Follows(h, n, base, step, S)
    BY <1>6, <2>1 DEF Follows
  <2> QED
    BY <1>5, <2>2, OnlyOne
<1> HIDE DEF Kept
<1>8. All(f)
  <2>1. PICK h : h = [m \in 0 .. n |-> IF m = 0 THEN base ELSE Kept(f[m - 1], m)]
    OBVIOUS
  <2>2. \A m \in 0 .. n : h[m] = f[m]
    BY <1>5, <1>7, <2>1 DEF Loop
  <2> QED
    BY <1>5, <2>1, <2>2 DEF Loop
<1>9. PICK g : g = CHOOSE h : All(h)
  OBVIOUS
<1>11. All(g)
  BY <1>8, <1>9
<1>12. Follows(g, n, base, step, S)
  <2>1. PICK h : h = [m \in 0 .. n |-> IF m = 0 THEN base ELSE Kept(g[m - 1], m)]
    OBVIOUS
  <2>2. g = h
    BY <1>11, <2>1
  <2>3. h = [m \in 0 .. n |-> h[m]] /\ h[0] = base
    BY <2>1
  <2>4. \A m \in 1 .. n : h[m] = Kept(g[m - 1], m)
    BY <2>1
  <2> HIDE DEF All
  <2> QED
    BY <1>6, <2>2, <2>3, <2>4 DEF Follows
<1>13. g = f
  BY <1>5, <1>12, OnlyOne
<1> HIDE DEF All
<1> QED
  BY <1>1, <1>9, <1>10, <1>13, <1>15, <1>16

\* Whether a position is thought depends on what is before it.
LEMMA ThinkingOn ==
  ASSUME NEW text \in Texts, NEW x \in Tokens
  PROVE  /\ \A i \in 1 .. Len(text) + 1 : T!Thinking(Append(text, x), i) = T!Thinking(text, i)
         /\ T!Thinking(Append(text, x), Len(text) + 2)
              = IF T!Thinking(text, Len(text) + 1) THEN x # "close" ELSE x = "open"
<1>1. PICK n \in Nat : n = Len(text)
  BY Counted
<1>2. PICK more : more = Append(text, x)
  OBVIOUS
<1>3. more[n + 1] = x /\ \A m \in 1 .. n : more[m] = text[m]
  BY <1>1, <1>2 DEF Texts
<1>4. ASSUME NEW i \in 1 .. n + 1 PROVE T!Thinking(more, i) = T!Thinking(text, i)
  <2>1. \A j \in 1 .. (i - 1) : j \in 1 .. n /\ more[j] = text[j]
    BY <1>3
  <2>2. \A j \in 1 .. (i - 1) : \A k \in (j + 1) .. (i - 1) : k \in 1 .. n /\ more[k] = text[k]
    BY <1>3
  <2>3. T!Thinking(more, i) <=> T!Thinking(text, i)
    BY <2>1, <2>2 DEF T!Thinking
  <2> QED
    BY <2>3 DEF T!Thinking
<1>5. T!Thinking(more, n + 2) <=> IF T!Thinking(text, n + 1) THEN x # "close" ELSE x = "open"
  <2>1. T!Thinking(more, n + 2) <=>
          \E j \in 1 .. n + 1 : more[j] = "open" /\ \A k \in (j + 1) .. (n + 1) : more[k] # "close"
    <3>1. (n + 2) - 1 = n + 1
      OBVIOUS
    <3> QED
      BY <3>1 DEF T!Thinking
  <2>2. T!Thinking(text, n + 1) <=>
          \E j \in 1 .. n : text[j] = "open" /\ \A k \in (j + 1) .. n : text[k] # "close"
    <3>1. (n + 1) - 1 = n
      OBVIOUS
    <3> QED
      BY <3>1 DEF T!Thinking
  <2>3. CASE x = "open"
    <3>1. more[n + 1] = "open" /\ \A k \in (n + 1 + 1) .. (n + 1) : more[k] # "close"
      BY <1>3, <2>3
    <3> QED
      BY <2>1, <2>3, <3>1
  <2>4. CASE x = "close"
    <3>1. \A j \in 1 .. n : n + 1 \in (j + 1) .. (n + 1)
      OBVIOUS
    <3>2. \A j \in 1 .. n + 1 : j = n + 1 \/ j \in 1 .. n
      OBVIOUS
    <3> QED
      BY <1>3, <2>1, <2>4, <3>1, <3>2
  <2>5. CASE x # "open" /\ x # "close"
    <3>1. \A j \in 1 .. n + 1 : j = n + 1 \/ j \in 1 .. n
      OBVIOUS
    <3>2. \A j \in 1 .. n : (\A k \in (j + 1) .. (n + 1) : more[k] # "close")
                              <=> \A k \in (j + 1) .. n : text[k] # "close"
      <4> TAKE j \in 1 .. n
      <4>1. \A k : k \in (j + 1) .. (n + 1) <=> k = n + 1 \/ k \in (j + 1) .. n
        OBVIOUS
      <4>2. \A k \in (j + 1) .. n : k \in 1 .. n
        OBVIOUS
      <4> QED
        BY <1>3, <2>5, <4>1, <4>2
    <3>3. \A j \in 1 .. n : j \in 1 .. n + 1
      OBVIOUS
    <3> QED
      BY <1>3, <2>1, <2>2, <2>5, <3>1, <3>2, <3>3
  <2> QED
    BY <2>3, <2>4, <2>5
<1>6. T!Thinking(more, n + 2) = IF T!Thinking(text, n + 1) THEN x # "close" ELSE x = "open"
  BY <1>5 DEF T!Thinking
<1> QED
  BY <1>1, <1>2, <1>4, <1>6

LEMMA PartOn ==
  ASSUME NEW text \in Texts, NEW b \in BOOLEAN
  PROVE  /\ T!Part(text, b) \in Texts
         /\ T!Part(<<>>, b) = <<>>
         /\ \A x \in Tokens :
              T!Part(Append(text, x), b)
                = IF T!Thinking(text, Len(text) + 1) = b /\ x # T!Tag(b)
                  THEN Append(T!Part(text, b), x) ELSE T!Part(text, b)
<1>1. T!Part(text, b) \in Texts
  <2>1. PICK f : Parted(f, text, b)
    BY PartIs
  <2>2. T!Part(text, b) = f[Len(text)]
    BY <2>1, PartIs
  <2>3. Len(text) \in 0 .. Len(text)
    BY Counted
  <2> QED
    BY <2>1, <2>2, <2>3 DEF Parted
<1>2. T!Part(<<>>, b) = <<>>
  <2>1. PICK none \in Texts : none = <<>>
    BY EmptyText
  <2>2. PICK f : Parted(f, none, b)
    BY PartIs
  <2>3. T!Part(none, b) = f[Len(none)]
    BY <2>2, PartIs
  <2> QED
    BY <2>1, <2>2, <2>3 DEF Parted
<1>3. ASSUME NEW x \in Tokens
      PROVE  T!Part(Append(text, x), b)
               = IF T!Thinking(text, Len(text) + 1) = b /\ x # T!Tag(b)
                 THEN Append(T!Part(text, b), x) ELSE T!Part(text, b)
  <2>1. PICK n \in Nat : n = Len(text)
    BY Counted
  <2>2. PICK more \in Texts : more = Append(text, x)
    BY AppendOne
  <2>3. Len(more) = n + 1 /\ more[n + 1] = x /\ \A m \in 1 .. n : more[m] = text[m]
    BY <2>1, <2>2 DEF Texts
  <2>4. PICK f : Parted(f, more, b)
    BY PartIs
  <2>5. T!Part(more, b) = f[n + 1]
    BY <2>3, <2>4, PartIs
  <2>6. \A i \in 1 .. n + 1 : T!Thinking(more, i) = T!Thinking(text, i)
    BY <2>1, <2>2, ThinkingOn
  <2>7. \A m \in 1 .. n : Of(more, m, b) <=> Of(text, m, b)
    <3>1. \A m \in 1 .. n : m \in 1 .. n + 1
      OBVIOUS
    <3> QED
      BY <2>3, <2>6, <3>1 DEF Of
  <2>8. PICK g : g = [m \in 0 .. n |-> f[m]]
    OBVIOUS
  <2>9. Parted(g, text, b)
    <3>1. /\ f \in [0 .. n + 1 -> Texts] /\ f[0] = <<>>
          /\ \A m \in 1 .. n + 1 : f[m] = IF Of(more, m, b) THEN Append(f[m - 1], more[m]) ELSE f[m - 1]
      BY <2>3, <2>4 DEF Parted
    <3>2. g \in [0 .. n -> Texts] /\ g[0] = <<>>
      BY <2>8, <3>1
    <3>3. ASSUME NEW m \in 1 .. n
          PROVE  g[m] = IF Of(text, m, b) THEN Append(g[m - 1], text[m]) ELSE g[m - 1]
      <4>1. g[m] = f[m] /\ g[m - 1] = f[m - 1] /\ m \in 1 .. n + 1
        BY <2>8
      <4>2. f[m] = IF Of(more, m, b) THEN Append(f[m - 1], more[m]) ELSE f[m - 1]
        BY <3>1, <4>1
      <4> QED
        BY <2>3, <2>7, <4>1, <4>2
    <3> QED
      BY <2>1, <3>2, <3>3 DEF Parted
  <2>10. T!Part(text, b) = f[n]
    <3>1. T!Part(text, b) = g[n]
      BY <2>1, <2>9, PartIs
    <3> QED
      BY <2>8, <3>1
  <2>11. f[n + 1] = IF Of(more, n + 1, b) THEN Append(f[n], x) ELSE f[n]
    <3>1. n + 1 \in 1 .. n + 1 /\ (n + 1) - 1 = n
      OBVIOUS
    <3> QED
      BY <2>3, <2>4, <3>1 DEF Parted
  <2>12. Of(more, n + 1, b) <=> (T!Thinking(text, n + 1) = b /\ x # T!Tag(b))
    <3>1. n + 1 \in 1 .. n + 1
      OBVIOUS
    <3> QED
      BY <2>3, <2>6, <3>1 DEF Of, T!Tag
  <2> QED
    BY <2>1, <2>2, <2>5, <2>10, <2>11, <2>12
<1> QED
  BY <1>1, <1>2, <1>3

\* A reader that has read nothing yet.
Deaf == [inside |-> FALSE, text |-> [b \in BOOLEAN |-> <<>>]]

LEMMA DeafReads == Deaf \in Readers
  BY EmptyText DEF Deaf, Readers

\* A reader is inside when the text is, and it has read the parts of it.
LEMMA ReadParts ==
  ASSUME NEW text \in Texts
  PROVE  LET k == Read(Deaf, text) IN
         /\ k \in Readers /\ k.inside = T!Thinking(text, Len(text) + 1)
         /\ \A b \in BOOLEAN : k.text[b] = JoinTo(<<>>, T!Part(text, b))
<1> DEFINE Right(q) == LET k == Read(Deaf, q) IN
                       /\ k.inside = T!Thinking(q, Len(q) + 1)
                       /\ \A b \in BOOLEAN : k.text[b] = JoinTo(<<>>, T!Part(q, b))
           Fine == {q \in Texts : Right(q)}
<1>1. <<>> \in Fine
  <2>1. Read(Deaf, <<>>) = Deaf
    BY DeafReads, EmptyText, ReadOn
  <2>2. ~T!Thinking(<<>>, Len(<<>>) + 1) /\ T!Thinking(<<>>, Len(<<>>) + 1) \in BOOLEAN
    <3>1. Len(<<>>) + 1 - 1 = 0
      OBVIOUS
    <3> QED
      BY <3>1 DEF T!Thinking
  <2>3. \A b \in BOOLEAN : T!Part(<<>>, b) = <<>> /\ JoinTo(<<>>, <<>>) = <<>>
    BY EmptyText, PartOn, JoinToOn
  <2>4. Read(Deaf, <<>>).inside = FALSE /\ \A b \in BOOLEAN : Read(Deaf, <<>>).text[b] = <<>>
    BY <2>1 DEF Deaf
  <2>5. T!Thinking(<<>>, Len(<<>>) + 1) = FALSE
    BY <2>2
  <2>6. Right(<<>>)
    BY <2>3, <2>4, <2>5
  <2> QED
    BY <2>6, EmptyText
<1>2. ASSUME NEW q \in Texts, NEW x \in Tokens, Right(q) PROVE Right(Append(q, x))
  <2>1. PICK k \in Readers : k = Read(Deaf, q)
    BY DeafReads, ReadOn
  <2>2. PICK n \in Nat : n = Len(q) /\ Len(Append(q, x)) + 1 = n + 2
    BY DEF Texts
  <2>3. PICK a : a = ReadToken(k, x)
    OBVIOUS
  <2>4. Read(Deaf, Append(q, x)) = a
    BY <2>1, <2>3, DeafReads, ReadOn
  <2>5. PICK inside \in BOOLEAN : inside = k.inside
    BY DEF Readers
  <2>6. inside = T!Thinking(q, n + 1) /\ \A b \in BOOLEAN : k.text[b] = JoinTo(<<>>, T!Part(q, b))
    BY <1>2, <2>1, <2>2, <2>5
  <2>7. T!Thinking(Append(q, x), n + 2) = IF inside THEN x # "close" ELSE x = "open"
    BY <2>2, <2>6, ThinkingOn
  <2>8. \A b \in BOOLEAN : T!Part(Append(q, x), b) = IF inside = b /\ x # T!Tag(b)
                                                      THEN Append(T!Part(q, b), x) ELSE T!Part(q, b)
    BY <2>2, <2>6, PartOn
  <2>9. CASE x = T!Tag(inside)
    <3>1. a.inside = ~inside /\ a.text = k.text
      BY <2>3, <2>5, <2>9, ReadTag
    <3>2. T!Thinking(Append(q, x), n + 2) = ~inside
      BY <2>7, <2>9 DEF T!Tag
    <3>3. \A b \in BOOLEAN : T!Part(Append(q, x), b) = T!Part(q, b)
      BY <2>8, <2>9
    <3> QED
      BY <2>2, <2>4, <2>6, <3>1, <3>2, <3>3
  <2>10. CASE x # T!Tag(inside)
    <3>1. a.inside = inside /\ a.text = [k.text EXCEPT ![inside] = T!AppendToken(@, x)]
      BY <2>3, <2>5, <2>10, ReadWord
    <3>2. T!Thinking(Append(q, x), n + 2) = inside
      BY <2>7, <2>10 DEF T!Tag
    <3>3. k.text \in [BOOLEAN -> Texts]
      BY DEF Readers
    <3>4. ASSUME NEW b \in BOOLEAN PROVE a.text[b] = JoinTo(<<>>, T!Part(Append(q, x), b))
      <4>1. CASE b = inside
        <5>1. a.text[b] = T!AppendToken(JoinTo(<<>>, T!Part(q, b)), x)
          BY <2>6, <3>1, <3>3, <4>1
        <5>2. T!Part(q, b) \in Texts
          BY PartOn
        <5>3. JoinTo(<<>>, Append(T!Part(q, b), x)) = T!AppendToken(JoinTo(<<>>, T!Part(q, b)), x)
          BY <5>2, EmptyText, JoinToOn
        <5>4. T!Part(Append(q, x), b) = Append(T!Part(q, b), x)
          BY <2>8, <2>10, <4>1
        <5> QED
          BY <5>1, <5>3, <5>4
      <4>2. CASE b # inside
        <5>1. a.text[b] = k.text[b]
          BY <3>1, <3>3, <4>2
        <5>2. T!Part(Append(q, x), b) = T!Part(q, b)
          BY <2>8, <4>2
        <5> QED
          BY <2>6, <5>1, <5>2
      <4> QED
        BY <4>1, <4>2
    <3> QED
      BY <2>2, <2>4, <3>1, <3>2, <3>4
  <2> QED
    BY <2>9, <2>10
<1> HIDE DEF Right
<1>3. PICK V : V = Tokens
  OBVIOUS
<1>4. ASSUME NEW q \in Seq(V), NEW x \in V, q \in Fine PROVE Append(q, x) \in Fine
  BY <1>2, <1>3, <1>4, AppendOne
<1>5. Seq(V) \subseteq Fine
  <2> HIDE DEF Fine
  <2> QED
    BY <1>1, <1>4, TokenByToken
<1>6. text \in Fine
  BY <1>3, <1>5 DEF Texts
<1>7. Right(text)
  BY <1>6
<1>8. Read(Deaf, text) \in Readers
  BY DeafReads, ReadOn
<1> QED
  BY <1>7, <1>8 DEF Right

-----------------------------------------------------------------------------
(* What is told and what is held, against a reader of the whole text.        *)

\* The scan is where the reader is, and what it holds completes what the client has read.
Hears(st, heard) ==
  LET k == Read(Deaf, heard)
      held == T!Held(k.inside, heard)
  IN /\ st.leak = <<>> /\ st.scan = [inside |-> k.inside, hold |-> held]
     /\ k.text = [Reading(st.out) EXCEPT ![k.inside] = JoinTo(@, held)]

LEMMA HeldPlain ==
  ASSUME NEW inside \in BOOLEAN, NEW text \in Texts
  PROVE  T!Held(inside, text) \in Seq(PlainTokens)
<1>1. PICK held : held = T!Held(inside, text)
  OBVIOUS
<1>2. PICK S : S = PlainTokens
  OBVIOUS
<1>3. CASE held = <<>>
  <2>1. held \in Seq(S)
    BY <1>3
  <2> QED
    BY <1>1, <1>2, <2>1
<1>4. CASE held # <<>>
  <2>1. PICK x \in Tokens : held = <<x>> /\ x = T!Halves(T!Tag(inside))[1]
    BY <1>1, <1>4, HeldOne
  <2>2. x # "mark"
    BY <2>1, HalvesOf DEF T!Tag
  <2>3. x \in S
    BY <1>2, <2>2 DEF PlainTokens
  <2>4. held \in Seq(S)
    BY <2>1, <2>3
  <2> QED
    BY <1>1, <1>2, <2>4
<1> QED
  BY <1>3, <1>4

LEMMA FeedHears ==
  ASSUME NEW st \in States, NEW heard \in Texts, Hears(st, heard), NEW text \in Seq(PlainTokens),
         NEW carrier \in BOOLEAN, st.chat \/ carrier
  PROVE  Hears(T!Feed(st, text, FALSE, carrier), JoinTo(heard, text))
<1>0. text \in Texts
  BY PlainTexts
<1>1. PICK k \in Readers : k = Read(Deaf, heard)
  BY DeafReads, ReadOn
<1>2. PICK inside \in BOOLEAN : inside = k.inside
  BY DEF Readers
<1>3. PICK held \in Seq(PlainTokens) : held = T!Held(inside, heard)
  BY HeldPlain
<1>4. /\ st.leak = <<>> /\ st.scan = [inside |-> inside, hold |-> held]
      /\ k.text = [Reading(st.out) EXCEPT ![inside] = JoinTo(@, held)]
  BY <1>1, <1>2, <1>3 DEF Hears
<1>5. CASE text = <<>>
  <2>1. JoinTo(heard, text) = heard
    BY <1>0, <1>5, JoinToOn
  <2>2. T!Feed(st, text, FALSE, carrier) = [st EXCEPT !.dsml = st.dsml]
    BY <1>5 DEF T!Feed
  <2>3. [st EXCEPT !.dsml = st.dsml] = st
    BY DEF States
  <2> QED
    BY <2>1, <2>2, <2>3
<1>6. CASE text # <<>>
  <2>1. PICK t \in Sides : t = Reading(st.out)
    BY Shape, ReadingIs
  <2>2. PICK m \in Readers : m = [inside |-> inside, text |-> t]
    BY DEF Readers, Sides
  <2>3. m.inside = inside /\ m.text = t
    BY <2>2
  <2>4. PICK heldNow : heldNow = T!Held(k.inside, heard)
    OBVIOUS
  <2>5. PICK src : src = T!Joined(held \o text)
    OBVIOUS
  <2>6. src \in Texts /\ Alike(Deaf, JoinTo(heard, text), m, src)
    <3>1. m.inside = Read(Deaf, heard).inside
      BY <1>1, <1>2, <2>3
    <3>2. Read(Deaf, heard).text
            = [m.text EXCEPT ![m.inside] = JoinTo(@, T!Held(Read(Deaf, heard).inside, heard))]
      BY <1>1, <1>2, <1>3, <1>4, <2>1, <2>3
    <3>3. T!Joined(T!Held(Read(Deaf, heard).inside, heard) \o text) = src
      BY <1>1, <1>2, <1>3, <2>5
    <3> QED
      BY <1>0, <3>1, <3>2, <3>3, DeafReads, HeldAndMore
  <2>7. src \in Seq(PlainTokens)
    <3>1. PICK S : S = PlainTokens
      OBVIOUS
    <3>2. held \in Seq(S) /\ text \in Seq(S)
      BY <3>1
    <3>3. held \o text \in Seq(S)
      BY <3>2
    <3> QED
      BY <2>5, <3>1, <3>3, PlainJoined
  <2>8. PICK r \in Readers : r = Read(m, src)
    BY <2>6, ReadOn
  <2>9. r = Read(Deaf, JoinTo(heard, text)) /\ T!Held(r.inside, JoinTo(heard, text)) = T!Held(r.inside, src)
    BY <2>6, <2>8 DEF Alike
  <2>10. PICK sc : sc = T!Scan(src, inside)
    OBVIOUS
  <2>11. /\ sc.pieces \in Seq(PiecesOf(PlainTokens))
         /\ sc.scan.inside = r.inside /\ sc.scan.hold = T!Held(r.inside, src)
         /\ r.text = [Shown(t, sc.pieces) EXCEPT ![r.inside] = JoinTo(@, sc.scan.hold)]
    <3>1. PICK V \in SUBSET Tokens : V = PlainTokens
      BY PlainTexts
    <3>2. src \in Seq(V) /\ m.text = t
      BY <2>3, <2>7, <3>1
    <3>3. T!Scan(src, m.inside) = sc
      BY <2>3, <2>10
    <3>4. Given(T!Scan(src, m.inside), t, Read(m, src), src, V)
      BY <3>2, ScanSays
    <3> QED
      BY <2>8, <3>1, <3>3, <3>4 DEF Given
  <2>12. T!ScanPush(st.scan, text) = sc
    BY <1>4, <2>5, <2>10 DEF T!ScanPush
  <2>13. sc.scan \in Scans
    <3>1. st.scan \in Scans
      BY Shape
    <3> QED
      BY <1>0, <2>12, <3>1, ScanPushShape DEF ScanGives
  <2>14. sc.scan = [inside |-> r.inside, hold |-> T!Held(r.inside, src)]
    BY <2>11, <2>13 DEF Scans
  <2>15. PICK b : b = [st EXCEPT !.dsml = st.dsml, !.scan = sc.scan]
    OBVIOUS
  <2>16. b \in States /\ b.chat = st.chat /\ b.leak = <<>> /\ b.out = st.out /\ b.scan = sc.scan
    BY <1>4, <2>13, <2>15 DEF States
  <2>17. PICK a : a = T!EmitPieces(b, sc.pieces, carrier)
    OBVIOUS
  <2>18. T!Feed(st, text, FALSE, carrier) = a
    <3>1. T!Feed(st, text, FALSE, carrier)
            = T!EmitPieces([st EXCEPT !.dsml = st.dsml, !.scan = T!ScanPush(st.scan, text).scan],
                           T!ScanPush(st.scan, text).pieces, carrier)
      BY <1>6 DEF T!Feed
    <3> QED
      BY <2>12, <2>15, <2>17, <3>1
  <2>19. a \in Utters(b, Shown(Reading(b.out), sc.pieces))
    BY <2>11, <2>16, <2>17, EmitPiecesUtters
  <2>20. a.leak = <<>> /\ a.scan = sc.scan /\ Reading(a.out) = Shown(t, sc.pieces)
    BY <2>1, <2>16, <2>19 DEF Utters
  <2>21. Hears(a, JoinTo(heard, text))
    BY <2>9, <2>11, <2>14, <2>20 DEF Hears
  <2> QED
    BY <2>18, <2>21
<1> QED
  BY <1>5, <1>6

\* A text without an opening tag leaves a reader outside, and nothing of it is held.
Closed == Tokens \ {"open", "openA"}

LEMMA ClosedTexts ==
  /\ Closed \in SUBSET Tokens /\ Seq(Closed) \subseteq Texts
  /\ \A a, b \in Closed : Fit(a, b) => Made(a, b) \in Closed
<1>1. Closed \in SUBSET Tokens
  BY DEF Closed
<1>2. Seq(Closed) \subseteq Texts
  BY <1>1, PiecesOfText
<1>3. ASSUME NEW a \in Closed, NEW b \in Closed, Fit(a, b) PROVE Made(a, b) \in Closed
  <2>1. Made(a, b) \in T!Wholes /\ a = T!Halves(Made(a, b))[1]
    BY <1>3, FitIs
  <2>2. Made(a, b) # "open" /\ Made(a, b) # "openA"
    <3>1. a # "openA"
      BY DEF Closed
    <3>2. T!Halves("open")[1] = "openA"
      BY HalvesOf
    <3>3. "openA" \notin T!Wholes
      BY DEF T!Wholes
    <3> QED
      BY <2>1, <3>1, <3>2, <3>3
  <2> QED
    BY <2>1, <2>2, MarksAreTokens DEF Closed
<1> QED
  BY <1>1, <1>2, <1>3

LEMMA ReadOutside ==
  ASSUME NEW k \in Readers, ~k.inside, NEW src \in Seq(Closed)
  PROVE  LET a == Read(k, src) IN
         /\ ~a.inside /\ a.text = [k.text EXCEPT ![FALSE] = JoinTo(@, src)]
         /\ T!Held(FALSE, src) = <<>>
<1> DEFINE Outside(q) == LET a == Read(k, q) IN
                         /\ ~a.inside /\ a.text = [k.text EXCEPT ![FALSE] = JoinTo(@, q)]
                         /\ T!Held(FALSE, q) = <<>>
           Fine == {q \in Texts : Outside(q)}
<1>0. k.text \in [BOOLEAN -> Texts] /\ k.inside = FALSE
  BY DEF Readers
<1>f. PICK w \in Texts : w = k.text[FALSE]
  BY <1>0
<1>1. <<>> \in Fine
  <2>1. Read(k, <<>>) = k
    BY EmptyText, ReadOn
  <2>2. JoinTo(w, <<>>) = w /\ T!Held(FALSE, <<>>) = <<>>
    BY EmptyText, JoinToOn, HeldIs
  <2>3. [k.text EXCEPT ![FALSE] = w] = k.text
    BY <1>0, <1>f
  <2>4. Outside(<<>>)
    BY <1>0, <1>f, <2>1, <2>2, <2>3
  <2> QED
    BY <2>4, EmptyText
<1>2. ASSUME NEW q \in Texts, NEW x \in Closed, Outside(q) PROVE Outside(Append(q, x))
  <2>1. x \in Tokens /\ x # "open" /\ x # "openA"
    BY DEF Closed
  <2>2. PICK a \in Readers : a = Read(k, q)
    BY ReadOn
  <2>3. a.inside = FALSE /\ a.text = [k.text EXCEPT ![FALSE] = JoinTo(@, q)]
    BY <1>2, <2>2 DEF Readers
  <2>4. PICK b : b = ReadToken(a, x)
    OBVIOUS
  <2>5. x # T!Tag(a.inside)
    BY <2>1, <2>3 DEF T!Tag
  <2>6. b.inside = FALSE /\ b.text = [a.text EXCEPT ![FALSE] = T!AppendToken(@, x)]
    BY <2>1, <2>3, <2>4, <2>5, ReadWord
  <2>7. a.text[FALSE] = JoinTo(w, q)
    BY <1>0, <1>f, <2>3
  <2>8. JoinTo(w, Append(q, x)) = T!AppendToken(JoinTo(w, q), x)
    BY <2>1, JoinToOn
  <2>9. b.text = [k.text EXCEPT ![FALSE] = JoinTo(w, Append(q, x))]
    BY <1>0, <2>3, <2>6, <2>7, <2>8
  <2>10. Read(k, Append(q, x)) = b
    BY <2>1, <2>2, <2>4, ReadOn
  <2>11. T!Held(FALSE, Append(q, x)) = <<>>
    <3>1. T!Halves(T!Tag(FALSE))[1] = "openA"
      BY HalvesOf DEF T!Tag
    <3>2. Append(q, x) \in Texts /\ Append(q, x) # <<>> /\ T!Last(Append(q, x)) = x
      BY <2>1, AppendOne
    <3>3. T!Held(FALSE, Append(q, x)) = HeldNext(FALSE, x)
      BY <3>2, HeldIs
    <3> QED
      BY <2>1, <3>1, <3>3 DEF HeldNext
  <2>12. b.text = [k.text EXCEPT ![FALSE] = JoinTo(@, Append(q, x))]
    BY <1>0, <1>f, <2>9
  <2> QED
    BY <2>6, <2>10, <2>11, <2>12
<1> HIDE DEF Outside
<1>3. PICK V : V = Closed
  OBVIOUS
<1>4. ASSUME NEW q \in Seq(V), NEW x \in V, q \in Fine PROVE Append(q, x) \in Fine
  <2>1. x \in Tokens
    BY <1>3, <1>4 DEF Closed
  <2>2. Append(q, x) \in Texts
    BY <1>4, <2>1, AppendOne
  <2> QED
    BY <1>2, <1>3, <1>4, <2>2
<1>5. Seq(V) \subseteq Fine
  <2> HIDE DEF Fine
  <2> QED
    BY <1>1, <1>4, TokenByToken
<1>6. Outside(src)
  BY <1>3, <1>5
<1> QED
  BY <1>6 DEF Outside

\* The event of a Responses stream that is passed on as it is.
LEMMA PassHears ==
  ASSUME NEW st \in States, ~st.scan.inside, st.scan.hold = <<>>, NEW heard \in Texts, Hears(st, heard),
         NEW text \in Seq(Closed)
  PROVE  Hears(T!Emit(st, T!Delta("message", 1, text)), JoinTo(heard, text))
<1>0. text \in Texts
  BY ClosedTexts
<1>1. PICK k \in Readers : k = Read(Deaf, heard)
  BY DeafReads, ReadOn
<1>2. k.inside = FALSE /\ T!Held(k.inside, heard) = <<>>
  BY <1>1 DEF Hears, Readers
<1>3. PICK t \in Sides : t = Reading(st.out)
  BY Shape, ReadingIs
<1>4. k.text = t
  <2>1. k.text = [t EXCEPT ![FALSE] = JoinTo(@, <<>>)]
    BY <1>1, <1>2, <1>3 DEF Hears
  <2>2. PICK w \in Texts : w = t[FALSE]
    BY DEF Sides
  <2>3. JoinTo(w, <<>>) = w
    BY EmptyText, JoinToOn
  <2> QED
    BY <2>1, <2>2, <2>3 DEF Sides
<1>5. PICK src : src = T!Joined(text)
  OBVIOUS
<1>6. src = JoinTo(<<>>, text) /\ src \in Seq(Closed) /\ src \in Texts
  <2>1. src = JoinTo(<<>>, text)
    BY <1>0, <1>5, JoinedIs
  <2>2. <<>> \in Seq(Closed)
    OBVIOUS
  <2>3. JoinTo(<<>>, text) \in Seq(Closed)
    BY <2>2, ClosedTexts, JoinedOf
  <2> QED
    BY <2>1, <2>3, ClosedTexts
<1>7. Alike(Deaf, JoinTo(heard, text), k, src)
  <2>1. k.inside = Read(Deaf, heard).inside
    BY <1>1
  <2>2. Read(Deaf, heard).text
          = [k.text EXCEPT ![k.inside] = JoinTo(@, T!Held(Read(Deaf, heard).inside, heard))]
    BY <1>1, <1>2, <1>3, <1>4 DEF Hears
  <2>3. T!Joined(T!Held(Read(Deaf, heard).inside, heard) \o text) = src
    <3>1. <<>> \o text = text
      BY <1>0 DEF Texts
    <3> QED
      BY <1>1, <1>2, <1>5, <3>1
  <2> QED
    BY <1>0, <2>1, <2>2, <2>3, DeafReads, HeldAndMore
<1>8. PICK r : r = Read(k, src)
  OBVIOUS
<1>9. /\ r \in Readers /\ r.inside = FALSE /\ r.text = [t EXCEPT ![FALSE] = JoinTo(@, src)]
      /\ T!Held(FALSE, src) = <<>>
  <2>1. r \in Readers
    BY <1>6, <1>8, ReadOn
  <2>2. ~r.inside /\ r.text = [k.text EXCEPT ![FALSE] = JoinTo(@, src)] /\ T!Held(FALSE, src) = <<>>
    BY <1>2, <1>6, <1>8, ReadOutside
  <2> QED
    BY <1>4, <2>1, <2>2 DEF Readers
<1>10. r = Read(Deaf, JoinTo(heard, text)) /\ T!Held(r.inside, JoinTo(heard, text)) = <<>>
  BY <1>7, <1>8, <1>9 DEF Alike
<1>11. PICK a : a = T!Emit(st, T!Delta("message", 1, text))
  OBVIOUS
<1>12. a.out = Append(st.out, T!Delta(Side(FALSE), 1, text)) /\ a.scan = st.scan /\ a.leak = st.leak
       /\ a.chat = st.chat
  <2>1. Side(FALSE) = "message"
    BY DEF Side
  <2> QED
    BY <1>11, <2>1 DEF T!Emit, States
<1>13. Reading(a.out) = [t EXCEPT ![FALSE] = JoinTo(@, text)]
  <2>1. st.out \in Seq(Events)
    BY Shape
  <2>2. PICK b \in BOOLEAN : b = FALSE
    OBVIOUS
  <2>3. Reading(Append(st.out, T!Delta(Side(b), 1, text)))
          = [Reading(st.out) EXCEPT ![b] = JoinTo(@, text)]
    BY <1>0, <2>1, ReadingTells
  <2> QED
    BY <1>3, <1>12, <2>2, <2>3
<1>14. PICK w \in Texts : w = t[FALSE] /\ JoinTo(w, src) = JoinTo(w, text)
  <2>1. PICK w \in Texts : w = t[FALSE]
    BY DEF Sides
  <2> QED
    BY <1>0, <1>6, <2>1, JoinJoined
<1>15. r.text = Reading(a.out) /\ r.text \in Sides
  BY <1>9, <1>13, <1>14 DEF Readers, Sides
<1>16. r.text = [Reading(a.out) EXCEPT ![FALSE] = JoinTo(@, <<>>)]
  <2>1. PICK v \in Texts : v = r.text[FALSE]
    BY <1>15 DEF Sides
  <2>2. JoinTo(v, <<>>) = v
    BY EmptyText, JoinToOn
  <2> QED
    BY <1>15, <2>1, <2>2 DEF Sides
<1>17. st.scan = [inside |-> FALSE, hold |-> <<>>] /\ st.leak = <<>>
  BY <1>1, <1>2 DEF Hears
<1>18. Hears(a, JoinTo(heard, text))
  BY <1>9, <1>10, <1>12, <1>16, <1>17 DEF Hears
<1> QED
  BY <1>11, <1>18

\* When the stream has ended: only a Responses stream loses what it held outside.
HasHeard(st, heard) ==
  LET k == Read(Deaf, heard)
      held == T!Held(k.inside, heard)
  IN k.text = IF st.chat \/ k.inside THEN Reading(st.out)
              ELSE [Reading(st.out) EXCEPT ![k.inside] = JoinTo(@, held)]

\* A text that ends on half of an opening tag, outside.
Dangling(text) == text # <<>> /\ T!Last(text) = "openA" /\ ~T!Thinking(text, Len(text))

LEMMA DanglingIs ==
  ASSUME NEW text \in Texts
  PROVE  /\ Dangling(text) <=> ~Read(Deaf, text).inside /\ T!Held(FALSE, text) # <<>>
         /\ Dangling(text) => /\ T!Held(FALSE, text) = <<"openA">> /\ "openA" \in Tokens
                              /\ \E prose \in Texts : T!Part(text, FALSE) = Append(prose, "openA")
<1>1. T!Halves(T!Tag(FALSE))[1] = "openA" /\ T!Tag(FALSE) = "open"
  BY HalvesOf DEF T!Tag
<1>2. CASE text = <<>>
  BY <1>2, HeldIs DEF Dangling
<1>3. CASE text # <<>>
  <2>1. PICK q \in Texts, x \in Tokens : text = Append(q, x) /\ x = T!Last(text)
    BY <1>3, EndOfText
  <2>2. PICK n \in Nat : n = Len(q) /\ Len(text) = n + 1
    BY <2>1 DEF Texts
  <2>3. T!Held(FALSE, text) = IF x = "openA" THEN <<x>> ELSE <<>>
    BY <1>1, <1>3, <2>1, HeldIs DEF HeldNext
  <2>4. Read(Deaf, text).inside = T!Thinking(text, n + 2)
    <3>1. Len(text) + 1 = n + 2
      BY <2>2
    <3> QED
      BY <3>1, ReadParts
  <2>5. T!Thinking(text, n + 2) = IF T!Thinking(q, n + 1) THEN x # "close" ELSE x = "open"
    BY <2>1, <2>2, ThinkingOn
  <2>6. T!Thinking(text, Len(text)) = T!Thinking(q, n + 1)
    <3>1. n + 1 \in 1 .. Len(q) + 1
      BY <2>2
    <3> QED
      BY <2>1, <2>2, <3>1, ThinkingOn
  <2>7. CASE x # "openA"
    BY <2>1, <2>3, <2>7 DEF Dangling
  <2>8. CASE x = "openA"
    <3>1. Dangling(text) <=> ~T!Thinking(q, n + 1)
      BY <1>3, <2>1, <2>6, <2>8 DEF Dangling
    <3>2. Read(Deaf, text).inside = T!Thinking(q, n + 1)
      <4>1. T!Thinking(q, n + 1) \in BOOLEAN
        BY DEF T!Thinking
      <4> QED
        BY <2>4, <2>5, <2>8, <4>1
    <3>3. T!Held(FALSE, text) = <<"openA">> /\ <<"openA">> # <<>>
      BY <2>3, <2>8
    <3>4. ASSUME ~T!Thinking(q, n + 1)
          PROVE  \E prose \in Texts : T!Part(text, FALSE) = Append(prose, "openA")
      <4>1. PICK b \in BOOLEAN : b = FALSE
        OBVIOUS
      <4>2. T!Part(q, b) \in Texts
        BY PartOn
      <4>3. T!Part(Append(q, x), b) = IF T!Thinking(q, Len(q) + 1) = b /\ x # T!Tag(b)
                                      THEN Append(T!Part(q, b), x) ELSE T!Part(q, b)
        BY PartOn
      <4>4. T!Thinking(q, Len(q) + 1) = b
        <5>1. T!Thinking(q, n + 1) \in BOOLEAN
          BY DEF T!Thinking
        <5> QED
          BY <2>2, <3>4, <4>1, <5>1
      <4>5. T!Part(text, FALSE) = Append(T!Part(q, b), "openA")
        BY <1>1, <2>1, <2>8, <4>1, <4>3, <4>4
      <4> QED
        BY <4>2, <4>5
    <3> QED
      BY <2>8, <3>1, <3>2, <3>3, <3>4
  <2> QED
    BY <2>7, <2>8
<1> QED
  BY <1>2, <1>3

\* What was told, against the parts of the text: the formula of the property.
LEMMA HasHeardSays ==
  ASSUME NEW st \in States, NEW text \in Texts, HasHeard(st, text)
  PROVE  LET lost == ~st.chat /\ Dangling(text)
             prose == T!Part(text, FALSE)
         IN /\ T!Joined(T!Told(st.out, "reasoning")) = T!Joined(T!Part(text, TRUE))
            /\ T!Joined(T!Told(st.out, "message")) = T!Joined(IF lost THEN T!Front(prose) ELSE prose)
<1>1. PICK k \in Readers : k = Read(Deaf, text)
  BY DeafReads, ReadOn
<1>2. PICK inside \in BOOLEAN : inside = k.inside
  BY DEF Readers
<1>3. PICK t \in Sides : t = Reading(st.out)
  BY Shape, ReadingIs
<1>4. T!Joined(T!Told(st.out, "reasoning")) = t[TRUE] /\ T!Joined(T!Told(st.out, "message")) = t[FALSE]
  <2>1. t[TRUE] = T!Joined(T!Told(st.out, Side(TRUE))) /\ t[FALSE] = T!Joined(T!Told(st.out, Side(FALSE)))
    BY <1>3 DEF Reading
  <2> QED
    BY <2>1 DEF Side
<1>5. \A b \in BOOLEAN : T!Part(text, b) \in Texts /\ k.text[b] = T!Joined(T!Part(text, b))
  <2> TAKE b \in BOOLEAN
  <2>1. k.text[b] = JoinTo(<<>>, T!Part(text, b))
    BY <1>1, ReadParts
  <2>2. T!Part(text, b) \in Texts
    BY PartOn
  <2> QED
    BY <2>1, <2>2, JoinedIs
<1>6. k.text[TRUE] = T!Joined(T!Part(text, TRUE)) /\ k.text[FALSE] = T!Joined(T!Part(text, FALSE))
  BY <1>5
<1>7. PICK held \in Texts : held = T!Held(inside, text)
  BY HeldOne
<1>8. k.text = IF st.chat \/ inside THEN t ELSE [t EXCEPT ![inside] = JoinTo(@, held)]
  BY <1>1, <1>2, <1>3, <1>7 DEF HasHeard
<1>9. Dangling(text) <=> ~inside /\ T!Held(FALSE, text) # <<>>
  BY <1>1, <1>2, DanglingIs
<1>10. PICK w \in Texts : w = t[FALSE]
  BY DEF Sides
<1>11. CASE ~st.chat /\ Dangling(text)
  <2>1. inside = FALSE
    BY <1>9, <1>11
  <2>2. held = <<"openA">> /\ "openA" \in Tokens
    BY <1>7, <1>11, <2>1, DanglingIs
  <2>3. PICK prose \in Texts : T!Part(text, FALSE) = Append(prose, "openA")
    BY <1>11, DanglingIs
  <2>4. T!Front(T!Part(text, FALSE)) = prose
    BY <2>2, <2>3, AppendOne
  <2>5. k.text = [t EXCEPT ![FALSE] = JoinTo(w, held)]
    BY <1>8, <1>10, <1>11, <2>1
  <2>6. k.text[TRUE] = t[TRUE] /\ k.text[FALSE] = JoinTo(w, held)
    BY <2>5 DEF Sides
  <2>7. "openA" \notin Seconds
    BY DEF Seconds
  <2>8. JoinTo(w, held) = Append(w, "openA")
    <3>1. PICK none \in Texts : none = <<>>
      BY EmptyText
    <3>2. JoinTo(w, Append(none, "openA")) = T!AppendToken(JoinTo(w, none), "openA")
      BY <2>2, JoinToOn
    <3>3. JoinTo(w, none) = w
      BY <3>1, JoinToOn
    <3>4. Append(none, "openA") = held
      BY <2>2, <3>1
    <3> QED
      BY <2>2, <2>7, <3>2, <3>3, <3>4, NoSecond
  <2>9. T!Joined(T!Part(text, FALSE)) = Append(T!Joined(prose), "openA")
    <3>1. Append(prose, "openA") \in Texts
      BY <2>2, AppendOne
    <3>2. T!Joined(Append(prose, "openA")) = JoinTo(<<>>, Append(prose, "openA"))
      BY <3>1, JoinedIs
    <3>3. JoinTo(<<>>, Append(prose, "openA")) = T!AppendToken(JoinTo(<<>>, prose), "openA")
      BY <2>2, EmptyText, JoinToOn
    <3>4. JoinTo(<<>>, prose) = T!Joined(prose) /\ T!Joined(prose) \in Texts
      BY JoinedIs, JoinedShape
    <3> QED
      BY <2>2, <2>3, <2>7, <3>2, <3>3, <3>4, NoSecond
  <2>10. w = T!Joined(prose)
    <3>1. T!Joined(prose) \in Texts
      BY JoinedShape
    <3>2. Append(w, "openA") = Append(T!Joined(prose), "openA")
      BY <1>6, <2>6, <2>8, <2>9
    <3>3. T!Front(Append(w, "openA")) = w /\ T!Front(Append(T!Joined(prose), "openA")) = T!Joined(prose)
      BY <2>2, <3>1, AppendOne
    <3> QED
      BY <3>2, <3>3
  <2> QED
    BY <1>4, <1>6, <1>10, <1>11, <2>4, <2>6, <2>10
<1>12. CASE ~(~st.chat /\ Dangling(text))
  <2>1. k.text = t
    <3>1. CASE st.chat \/ inside
      BY <1>8, <3>1
    <3>2. CASE ~(st.chat \/ inside)
      <4>1. inside = FALSE /\ held = <<>>
        BY <1>7, <1>9, <1>12, <3>2
      <4>2. JoinTo(w, <<>>) = w
        BY EmptyText, JoinToOn
      <4>3. k.text = [t EXCEPT ![FALSE] = w]
        BY <1>8, <1>10, <3>2, <4>1, <4>2
      <4> QED
        BY <1>10, <4>3 DEF Sides
    <3> QED
      BY <3>1, <3>2
  <2> QED
    BY <1>4, <1>6, <1>12, <2>1
<1> QED
  BY <1>11, <1>12

-----------------------------------------------------------------------------
(* The prose and the thoughts, step by step.                                 *)

\* Without the markers of a leaked call and of DeepSeek: before the end, the scan is where a
\* reader of the whole text is, and what it holds completes what the client has read; after
\* it nothing but the half tag of a Responses stream is missing.
ProseInvariant ==
  /\ "inv" \notin vocabulary => mode # "deepseek"
  /\ "mark" \notin vocabulary /\ mode # "deepseek" =>
       /\ said \in Texts
       /\ IF s.completed THEN HasHeard(s, T!Joined(said)) ELSE Hears(s, T!Joined(said))

\* A text of a provider that leaks no calls.
LEMMA PlainText ==
  ASSUME vocabulary \subseteq Words, "mark" \notin vocabulary, NEW text \in T!Texts
  PROVE  text \in Seq(PlainTokens)
<1>1. PICK n \in 1 .. MaxChunk : text \in [1 .. n -> vocabulary]
  BY DEF T!Texts
<1>2. n \in Nat
  BY <1>1
<1>3. vocabulary \subseteq PlainTokens
  BY DEF Tokens, PlainTokens
<1>4. PICK S : S = PlainTokens
  OBVIOUS
<1>5. text \in [1 .. n -> S]
  BY <1>1, <1>3, <1>4
<1>6. text \in Seq(S)
  BY <1>2, <1>5
<1> QED
  BY <1>4, <1>6

LEMMA SaidMore ==
  ASSUME NEW so \in Texts, NEW text \in Texts
  PROVE  /\ so \o text \in Texts /\ T!Joined(so) \in Texts
         /\ T!Joined(so \o text) = JoinTo(T!Joined(so), text)
<1>1. so \o text \in Texts
  BY Together
<1>2. T!Joined(so \o text) = JoinTo(<<>>, so \o text) /\ T!Joined(so) = JoinTo(<<>>, so)
  BY <1>1, JoinedIs
<1>3. JoinTo(<<>>, so \o text) = JoinTo(JoinTo(<<>>, so), text)
  BY EmptyText, JoinToTogether
<1> QED
  BY <1>1, <1>2, <1>3, JoinedShape

\* The end of a stream: what was held is told, but for the half tag of a Responses stream.
LEMMA FinishChatHeard ==
  ASSUME NEW st \in States, st.chat, ~st.completed, NEW heard \in Texts, Hears(st, heard)
  PROVE  HasHeard(T!FinishChat(st), heard)
<1>1. PICK k \in Readers : k = Read(Deaf, heard)
  BY DeafReads, ReadOn
<1>2. PICK inside \in BOOLEAN : inside = k.inside
  BY DEF Readers
<1>3. PICK held \in Seq(PlainTokens) : held = T!Held(inside, heard)
  BY HeldPlain
<1>4. st.leak = <<>> /\ st.scan.inside = inside /\ st.scan.hold = held
      /\ k.text = [Reading(st.out) EXCEPT ![inside] = JoinTo(@, held)]
  BY <1>1, <1>2, <1>3 DEF Hears
<1>5. PICK a : a = T!FinishChat(st)
  OBVIOUS
<1>6. a.chat
  BY <1>5, FinishChatShape
<1>7. Reading(a.out) = Uttered(st, st.scan.inside, st.scan.hold)
  BY <1>4, <1>5, FinishChatUtters
<1>8. Reading(a.out) = k.text
  BY <1>4, <1>7 DEF Uttered
<1>9. HasHeard(a, heard)
  BY <1>1, <1>6, <1>8 DEF HasHeard
<1> QED
  BY <1>5, <1>9

LEMMA BoundaryHeard ==
  ASSUME NEW st \in States, ~st.chat, NEW heard \in Texts, Hears(st, heard), NEW a,
         a = [(IF st.scan.inside \/ st.scan.hold # <<>> \/ st.reasoning.open
               THEN T!FlushThink(st) ELSE st) EXCEPT !.completed = TRUE]
  PROVE  HasHeard(a, heard)
<1>1. PICK k \in Readers : k = Read(Deaf, heard)
  BY DeafReads, ReadOn
<1>2. PICK inside \in BOOLEAN : inside = k.inside
  BY DEF Readers
<1>3. PICK held \in Seq(PlainTokens) : held = T!Held(inside, heard)
  BY HeldPlain
<1>4. st.leak = <<>> /\ st.scan.inside = inside /\ st.scan.hold = held
      /\ k.text = [Reading(st.out) EXCEPT ![inside] = JoinTo(@, held)]
  BY <1>1, <1>2, <1>3 DEF Hears
<1>5. PICK b : b = IF st.scan.inside \/ st.scan.hold # <<>> \/ st.reasoning.open
                   THEN T!FlushThink(st) ELSE st
  OBVIOUS
<1>6. a = [b EXCEPT !.completed = TRUE]
  BY <1>5
<1>7. CASE st.scan.inside \/ st.scan.hold # <<>> \/ st.reasoning.open
  <2>1. b = T!FlushThink(st)
    BY <1>5, <1>7
  <2>2. /\ b \in States /\ ~b.chat
        /\ Reading(b.out) = IF inside THEN Uttered(st, inside, held) ELSE Reading(st.out)
    BY <1>4, <2>1, FlushThinkUtters
  <2>3. ~a.chat /\ a.out = b.out
    BY <1>6, <2>2 DEF States
  <2>4. k.text = IF inside THEN Reading(a.out) ELSE [Reading(a.out) EXCEPT ![inside] = JoinTo(@, held)]
    BY <1>4, <2>2, <2>3 DEF Uttered
  <2> QED
    BY <1>1, <1>2, <1>3, <2>3, <2>4 DEF HasHeard
<1>8. CASE ~(st.scan.inside \/ st.scan.hold # <<>> \/ st.reasoning.open)
  <2>1. a.chat = st.chat /\ a.out = st.out /\ ~inside
    BY <1>4, <1>5, <1>6, <1>8 DEF States
  <2> QED
    BY <1>1, <1>2, <1>3, <1>4, <2>1 DEF HasHeard
<1> QED
  BY <1>7, <1>8

\* What text makes of the state keeps the invariant.
LEMMA FedKeeps ==
  ASSUME s \in States, said \in Texts, ~s.completed, NEW text \in Texts, s' \in Goes(s),
         Hears(s', JoinTo(T!Joined(said), text)), said' = said \o text,
         vocabulary' = vocabulary, mode' = mode, mode # "deepseek"
  PROVE  ProseInvariant'
<1>1. ~s'.completed
  BY DEF Goes, Further
<1>2. said' \in Texts /\ T!Joined(said') = JoinTo(T!Joined(said), text)
  BY SaidMore
<1>3. Hears(s', T!Joined(said'))
  BY <1>2
<1> QED
  BY <1>1, <1>2, <1>3 DEF ProseInvariant

LEMMA ProseSteps ==
  ASSUME ProtocolAssumption, TranslationInvariant, ProseInvariant, T!Next
  PROVE  ProseInvariant'
<1>1. s \in States /\ asked \in Seq(Asks) /\ vocabulary \subseteq Words
  BY DEF TranslationInvariant
<1>2. vocabulary' = vocabulary /\ mode' = mode
  BY DEF T!Next, T!ChatContent, T!ChatTool, T!ChatFinish, T!ResponsesDelta, T!ResponsesBoundary
<1>3. CASE "mark" \in vocabulary \/ mode = "deepseek"
  BY <1>2, <1>3 DEF ProseInvariant
<1>4. CASE "mark" \notin vocabulary /\ mode # "deepseek"
  <2>1. /\ said \in Texts
        /\ IF s.completed THEN HasHeard(s, T!Joined(said)) ELSE Hears(s, T!Joined(said))
    BY <1>4 DEF ProseInvariant
  <2>2. PICK heard \in Texts : heard = T!Joined(said)
    BY <2>1, JoinedShape
  <2>3. CASE T!ChatContent
    <3>1. PICK text \in T!Texts : s' = T!Feed(s, text, mode = "deepseek", FALSE) /\ said' = said \o text
      BY <2>3 DEF T!ChatContent
    <3>2. text \in Seq(PlainTokens) /\ text \in Texts
      BY <1>1, <1>4, PlainText, PlainTexts
    <3>3. PICK no \in BOOLEAN : no = FALSE
      OBVIOUS
    <3>4. s' = T!Feed(s, text, no, no)
      BY <1>4, <3>1, <3>3
    <3>5. s.chat /\ ~s.completed
      BY <2>3 DEF T!ChatContent
    <3>6. Hears(s', JoinTo(heard, text))
      <4>1. Hears(s, heard)
        BY <2>1, <2>2, <3>5
      <4>2. Hears(T!Feed(s, text, FALSE, no), JoinTo(heard, text))
        BY <1>1, <3>2, <3>5, <4>1, FeedHears
      <4> QED
        BY <3>3, <3>4, <4>2
    <3>7. s' \in Goes(s)
      BY <1>1, <3>2, <3>4, FeedGoes
    <3> QED
      BY <1>1, <1>2, <1>4, <2>1, <2>2, <3>1, <3>2, <3>5, <3>6, <3>7, FedKeeps
  <2>4. CASE T!ChatTool
    <3>1. PICK i \in Indexes : s' = T!EmitChatToolDelta(s, i, <<T!ToString(Len(asked))>>)
      BY <2>4 DEF T!ChatTool
    <3>2. PICK w : w = T!ToString(Len(asked))
      OBVIOUS
    <3>3. i \in Nat /\ <<w>> \in Texts
      <4>1. Len(asked) \in Nat
        BY <1>1
      <4>2. w \in Tokens
        BY <3>2, <4>1 DEF Tokens
      <4> QED
        BY <4>2 DEF ProtocolAssumption, Texts
    <3>4. s' \in Mute(s) /\ CallGoesOn(s, s', i, <<w>>)
      BY <1>1, <3>1, <3>2, <3>3, EmitChatToolDeltaQuiet, EmitChatToolDeltaShape
    <3>5. /\ s'.completed = s.completed /\ s'.leak = s.leak /\ s'.scan = s.scan
          /\ Reading(s'.out) = Reading(s.out)
      BY <3>4 DEF Mute, Utters, CallGoesOn
    <3>6. ~s.completed /\ said' = said
      BY <2>4 DEF T!ChatTool
    <3>7. Hears(s', heard)
      BY <2>1, <2>2, <3>5, <3>6 DEF Hears
    <3> QED
      BY <1>2, <1>4, <2>1, <2>2, <3>5, <3>6, <3>7 DEF ProseInvariant
  <2>5. CASE T!ChatFinish
    <3>1. s.chat /\ s' = T!FinishChat(s) /\ said' = said
      BY <2>5 DEF T!ChatFinish
    <3>2. CASE s.completed
      <4>1. s' = s
        BY <3>1, <3>2 DEF T!FinishChat
      <4> QED
        BY <1>2, <1>4, <2>1, <3>1, <3>2, <4>1 DEF ProseInvariant
    <3>3. CASE ~s.completed
      <4>1. s'.completed
        BY <1>1, <3>1, <3>3, FinishChatShape
      <4>2. HasHeard(s', heard)
        BY <1>1, <2>1, <2>2, <3>1, <3>3, FinishChatHeard
      <4> QED
        BY <1>2, <1>4, <2>1, <2>2, <3>1, <4>1, <4>2 DEF ProseInvariant
    <3> QED
      BY <3>2, <3>3
  <2>6. CASE T!ResponsesDelta
    <3>1. ~s.chat /\ ~s.completed
      BY <2>6 DEF T!ResponsesDelta
    <3>2. PICK text \in T!Texts :
            /\ said' = said \o text
            /\ s' = IF \/ s.scan.inside \/ s.scan.hold # <<>> \/ s.reasoning.open
                       \/ T!Range(text) \cap {"open", "openA"} # {}
                    THEN T!Feed(s, text, FALSE, TRUE)
                    ELSE T!Emit(s, T!Delta("message", 1, text))
      BY <2>6 DEF T!ResponsesDelta
    <3>3. text \in Seq(PlainTokens) /\ text \in Texts
      BY <1>1, <1>4, PlainText, PlainTexts
    <3>4. Hears(s, heard)
      BY <2>1, <2>2, <3>1
    <3>5. CASE s' = T!Feed(s, text, FALSE, TRUE)
      <4>1. PICK yes \in BOOLEAN : yes = TRUE
        OBVIOUS
      <4>2. PICK no \in BOOLEAN : no = FALSE
        OBVIOUS
      <4>3. s' = T!Feed(s, text, no, yes)
        BY <3>5, <4>1, <4>2
      <4>4. Hears(T!Feed(s, text, FALSE, yes), JoinTo(heard, text))
        BY <1>1, <3>3, <3>4, <4>1, FeedHears
      <4>5. Hears(s', JoinTo(heard, text))
        BY <4>2, <4>3, <4>4
      <4>6. s' \in Goes(s)
        BY <1>1, <3>3, <4>3, FeedGoes
      <4> QED
        BY <1>1, <1>2, <1>4, <2>1, <2>2, <3>1, <3>2, <3>3, <4>5, <4>6, FedKeeps
    <3>6. CASE ~(\/ s.scan.inside \/ s.scan.hold # <<>> \/ s.reasoning.open
                 \/ T!Range(text) \cap {"open", "openA"} # {})
      <4>1. s' = T!Emit(s, T!Delta("message", 1, text))
        BY <3>2, <3>6
      <4>2. text \in Seq(Closed)
        <5>1. PICK S : S = Tokens
          OBVIOUS
        <5>2. text \in Seq(S)
          BY <3>3, <5>1 DEF Texts
        <5>3. \A m \in 1 .. Len(text) : text[m] \in S /\ m \in DOMAIN text
          BY <5>2
        <5>4. \A m \in 1 .. Len(text) : text[m] \notin {"open", "openA"}
          BY <3>6, <5>3 DEF T!Range
        <5>5. PICK C : C = Closed
          OBVIOUS
        <5>6. \A m \in 1 .. Len(text) : text[m] \in C
          BY <5>1, <5>3, <5>4, <5>5 DEF Closed
        <5>7. text \in Seq(C)
          BY <5>2, <5>6
        <5> QED
          BY <5>5, <5>7
      <4>3. Hears(s', JoinTo(heard, text))
        BY <1>1, <3>4, <3>6, <4>1, <4>2, PassHears
      <4>4. s' \in Goes(s)
        BY <1>1, <3>1, <3>3, <4>1, CarriedGoes
      <4> QED
        BY <1>1, <1>2, <1>4, <2>1, <2>2, <3>1, <3>2, <3>3, <4>3, <4>4, FedKeeps
    <3> QED
      BY <3>2, <3>5, <3>6
  <2>7. CASE T!ResponsesBoundary
    <3>1. ~s.chat /\ ~s.completed /\ said' = said
      BY <2>7 DEF T!ResponsesBoundary
    <3>2. s' = [(IF s.scan.inside \/ s.scan.hold # <<>> \/ s.reasoning.open
                 THEN T!FlushThink(s) ELSE s) EXCEPT !.completed = TRUE]
      BY <2>7 DEF T!ResponsesBoundary
    <3>3. HasHeard(s', heard)
      BY <1>1, <2>1, <2>2, <3>1, <3>2, BoundaryHeard
    <3>4. s'.completed
      <4>1. PICK a : a = IF s.scan.inside \/ s.scan.hold # <<>> \/ s.reasoning.open
                         THEN T!FlushThink(s) ELSE s
        OBVIOUS
      <4>2. a \in States
        BY <1>1, <4>1, FlushThinkGoes, Onwards
      <4> QED
        BY <3>2, <4>1, <4>2 DEF States
    <3> QED
      BY <1>2, <1>4, <2>1, <2>2, <3>1, <3>3, <3>4 DEF ProseInvariant
  <2> QED
    BY <2>3, <2>4, <2>5, <2>6, <2>7 DEF T!Next
<1> QED
  BY <1>3, <1>4

LEMMA FreshHears ==
  ASSUME NEW chat \in BOOLEAN
  PROVE  Hears(T!Fresh(chat), T!Joined(<<>>)) /\ ~T!Fresh(chat).completed
<1>1. T!Joined(<<>>) = <<>>
  BY EmptyText, JoinedIs, JoinToOn
<1>2. Read(Deaf, <<>>) = Deaf
  BY DeafReads, EmptyText, ReadOn
<1>3. T!Held(FALSE, <<>>) = <<>>
  BY EmptyText, HeldIs
<1>4. PICK a : a = T!Fresh(chat)
  OBVIOUS
<1>5. a.leak = <<>> /\ a.scan = [inside |-> FALSE, hold |-> <<>>] /\ a.out = <<>> /\ ~a.completed
  BY <1>4 DEF T!Fresh, T!FreshScan
<1>6. Reading(a.out) = [b \in BOOLEAN |-> <<>>]
  BY <1>5, ReadingNothing
<1>7. JoinTo(<<>>, <<>>) = <<>>
  BY EmptyText, JoinToOn
<1>8. Deaf.inside = FALSE /\ Deaf.text = [Reading(a.out) EXCEPT ![FALSE] = JoinTo(@, <<>>)]
  BY <1>6, <1>7 DEF Deaf
<1>9. Hears(a, <<>>)
  BY <1>2, <1>3, <1>5, <1>8 DEF Hears
<1> QED
  BY <1>1, <1>4, <1>5, <1>9

\* However the chunks cut the text, the client reads exactly the prose and the thoughts of it,
\* for a provider that leaks no calls and has no markup: the scan of think tags is where a
\* reader of the whole text is, and what it holds completes what was told (ThinkScan,
\* emit_think_pieces, flush_think).
THEOREM ProseKept == MCSpec => []ProseIsKept
<1>1. MCInit => ProseInvariant
  <2>1. SUFFICES ASSUME MCInit PROVE ProseInvariant
    OBVIOUS
  <2>2. /\ \E chat \in BOOLEAN : s = T!Fresh(chat)
        /\ said = <<>> /\ ("inv" \notin vocabulary => mode # "deepseek")
    <3>1. CASE StillT
      <4>1. PICK chat \in BOOLEAN : chat = TRUE
        OBVIOUS
      <4> QED
        BY <3>1, <4>1 DEF StillT
    <3>2. CASE T!Init
      <4>1. PICK chat \in BOOLEAN : chat = (mode # "responses")
        OBVIOUS
      <4>2. s = T!Fresh(chat) /\ said = <<>> /\ (("inv" \in vocabulary) = (mode = "deepseek"))
        BY <3>2, <4>1 DEF T!Init
      <4> QED
        BY <4>2
    <3> QED
      BY <2>1, <3>1, <3>2 DEF MCInit
  <2>3. PICK chat \in BOOLEAN : s = T!Fresh(chat)
    BY <2>2
  <2>4. Hears(s, T!Joined(said)) /\ ~s.completed
    BY <2>2, <2>3, FreshHears
  <2> QED
    BY <2>2, <2>4, EmptyText DEF ProseInvariant
<1>2. TranslationInvariant /\ ProseInvariant /\ [MCNext]_<<part, TVars, vars, PVars>> => ProseInvariant'
  <2>1. SUFFICES ASSUME TranslationInvariant, ProseInvariant, [MCNext]_<<part, TVars, vars, PVars>>
                 PROVE  ProseInvariant'
    OBVIOUS
  <2>2. CASE T!Next
    BY <2>1, <2>2, ProseSteps, ProtocolAssumption
  <2>3. CASE UNCHANGED TVars
    <3>1. s' = s /\ said' = said /\ vocabulary' = vocabulary /\ mode' = mode
      BY <2>3 DEF TVars
    <3> QED
      BY <2>1, <3>1 DEF ProseInvariant
  <2> QED
    BY <2>1, <2>2, <2>3 DEF MCNext
<1>3. TranslationInvariant /\ ProseInvariant => ProseIsKept
  <2>1. SUFFICES ASSUME TranslationInvariant, ProseInvariant,
                        s.completed, vocabulary \cap {"mark", "inv"} = {}
                 PROVE  T!ProseIsKept
    BY DEF ProseIsKept, T!ProseIsKept
  <2>2. s \in States /\ said \in Texts /\ HasHeard(s, T!Joined(said))
    BY <2>1 DEF TranslationInvariant, ProseInvariant
  <2>3. PICK text \in Texts : text = T!Joined(said)
    BY <2>2, JoinedShape
  <2>4. LET lost == ~s.chat /\ Dangling(text)
            prose == T!Part(text, FALSE)
        IN /\ T!Joined(T!Told(s.out, "reasoning")) = T!Joined(T!Part(text, TRUE))
           /\ T!Joined(T!Told(s.out, "message")) = T!Joined(IF lost THEN T!Front(prose) ELSE prose)
    BY <2>2, <2>3, HasHeardSays
  <2> QED
    BY <2>3, <2>4 DEF T!ProseIsKept, Dangling
<1> QED
  BY <1>1, <1>2, <1>3, TranslationHolds, PTL DEF MCSpec
=============================================================================
