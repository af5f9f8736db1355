----------------------------- MODULE ClientStream -----------------------------
(***************************************************************************)
(* What a Codex turn sees of its response: it waits, and is then given     *)
(* either an HTTP error or one stream, whose text only grows and which     *)
(* nothing follows once it has ended.                                      *)
(***************************************************************************)
EXTENDS SequencesExt

VARIABLES status, text

Init == status = "waiting" /\ text = <<>>

Open == status = "waiting" /\ status' = "open" /\ UNCHANGED text
Refuse == status = "waiting" /\ status' = "error" /\ UNCHANGED text
Say == status = "open" /\ IsStrictPrefix(text, text') /\ UNCHANGED status
End == status = "open" /\ status' = "ended" /\ UNCHANGED text

Next == Open \/ Refuse \/ Say \/ End

Spec == Init /\ [][Next]_<<status, text>>
==============================================================================
