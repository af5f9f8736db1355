----------------------------- MODULE MCProtocol -----------------------------
(***************************************************************************)
(* The history that goes upstream, the stream that comes back through the   *)
(* host, and the translation of a stream by the gateway, on small instances.*)
(* A behaviour is of one of the three.                                      *)
(***************************************************************************)
EXTENDS SseStream

CONSTANTS Vocabularies, MaxText, MaxChunk, MaxToolChunks, Indexes,
          Families, Ids, Sigs, MaxItems, MinKeep, KeepLast, AggressiveKeep, KeepChars

VARIABLES part, vocabulary, mode, s, said, asked,
          family, history, request, upstream

\* Ids and indexes are numbers, an id that is there is not 0, tokens are strings; the constant
\* COMPACT_MIN_KEEP_ITEMS (responses_compat.rs:23) keeps an item at least.
ASSUME ProtocolAssumption ==
  /\ Ids \subseteq Nat \ {0} /\ Indexes \subseteq Nat
  /\ \A v \in Vocabularies : v \subseteq STRING
  /\ {KeepLast, AggressiveKeep, KeepChars} \subseteq Nat
  /\ MinKeep \in Nat \ {0}

T == INSTANCE Translation
P == INSTANCE History WITH sent <- upstream

TVars == <<vocabulary, mode, s, said, asked>>
PVars == <<family, history, request, upstream>>

\* The parts that do not run stay in one of their initial states.
StillT == vocabulary = {"t"} /\ mode = "chat" /\ s = T!Fresh(TRUE) /\ said = <<>> /\ asked = <<>>
StillH ==
  /\ httpOk = TRUE /\ sent = <<>> /\ place = "event" /\ terminal = "none"
  /\ shut = "no" /\ appended = FALSE /\ ledger = <<>> /\ spans = <<>>
StillP == family = "openai" /\ history = <<>> /\ request = "none" /\ upstream = <<>>

MCInit == \/ part = "host" /\ Init /\ StillT /\ StillP
          \/ part = "translation" /\ T!Init /\ StillH /\ StillP
          \/ part = "history" /\ P!Init /\ StillT /\ StillH

MCNext == /\ UNCHANGED part
          /\ \/ part = "host" /\ Next /\ UNCHANGED <<TVars, PVars>>
             \/ part = "translation" /\ T!Next /\ UNCHANGED <<vars, PVars>>
             \/ part = "history" /\ P!Next /\ UNCHANGED <<TVars, vars>>

MCSpec == MCInit /\ [][MCNext]_<<part, TVars, vars, PVars>>

ItemsAreFramed == T!ItemsAreFramed
ProseIsKept == T!ProseIsKept
CutsDoNotMatter == T!CutsDoNotMatter
CallsAreWhole == T!CallsAreWhole
HistoryIsPaired == P!HistoryIsPaired
ResultsAreKept == P!ResultsAreKept
FoldingKeepsTheEnd == P!FoldingKeepsTheEnd
=============================================================================
