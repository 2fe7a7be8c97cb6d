---------------------------- MODULE ChunkedBody -----------------------------
(***************************************************************************)
(* What the readers of a chunked body may count on, whatever the stream is *)
(* cut into: the transfer is complete only with all of the content, all of *)
(* it is handed out before the page counts as read to its end, and the     *)
(* connection is dropped only before anything has been handed out.  That a *)
(* reader stops early, or for ever waits for more, is left open.           *)
(***************************************************************************)
EXTENDS Sequences, SequencesExt

VARIABLES content,   \* the data of all chunks
          decoded,   \* what has been decoded of it
          given,     \* what its reader has been handed of that
          mode,      \* "chunk", then "complete", or "unknown" once it is given up
          outcome    \* of the reader: "none", then "finish" or "fail"

bodyVars == <<content, decoded, given, mode, outcome>>

Init == decoded = <<>> /\ given = <<>> /\ mode = "chunk" /\ outcome = "none"

Decode ==
    /\ mode = "chunk" /\ outcome = "none"
    /\ IsPrefix(decoded, decoded') /\ IsPrefix(decoded', content)
    /\ UNCHANGED <<content, given, mode, outcome>>

Complete ==
    /\ mode = "chunk" /\ outcome = "none" /\ decoded = content
    /\ mode' = "complete"
    /\ UNCHANGED <<content, decoded, given, outcome>>

GiveUp ==
    /\ mode = "chunk" /\ outcome = "none" /\ given = <<>>
    /\ mode' = "unknown" /\ decoded' = <<>>
    /\ UNCHANGED <<content, given, outcome>>

(* The reader takes more, and may find that there is no more to come.      *)
Hand ==
    /\ outcome = "none"
    /\ IsPrefix(given, given') /\ IsPrefix(given', decoded)
    /\ \/ outcome' = "none"
       \/ outcome' = "finish" /\ mode = "complete" /\ given' = content
       \/ outcome' = "fail" /\ mode # "complete"
    /\ UNCHANGED <<content, decoded, mode>>

Next == Decode \/ Complete \/ GiveUp \/ Hand

Spec == Init /\ [][Next]_bodyVars

=============================================================================
