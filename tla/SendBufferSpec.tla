--------------------------- MODULE SendBufferSpec ---------------------------
(***************************************************************************)
(* One SendBuffer used through all of sendbufr.c's functions, over a       *)
(* socket that takes as much or as little as it likes and may fail at any  *)
(* send().                                                                 *)
(***************************************************************************)
EXTENDS SendBuffer

CONSTANTS MaxWrite,   \* bound: bytes in one write call
          MaxBytes    \* bound: bytes accepted over the buffer's life

ASSUME WriteBounds == MaxWrite \in Nat /\ MaxBytes \in Nat

VARIABLES sb,         \* the struct
          accepted,   \* history: bytes reported as written, in order
          delivered   \* history: bytes send() took, in order

vars == <<sb, accepted, delivered>>

Init ==
    /\ sb = sendBufferNew
    /\ accepted = <<>>
    /\ delivered = <<>>

(* sendBufferWriteData, sendBufferWriteText and sendBufferPrintf: the last *)
(* two only produce the data.                                              *)
Write(data) ==
    /\ Len(accepted) + Len(data) <= MaxBytes
    /\ \E net \in SendOutcome(Len(data)) :
        /\ sb' = sendBufferWriteData(sb, data, net)
        /\ delivered' = delivered \o WriteSent(sb, data, net)
        /\ accepted' = accepted \o SubSeq(data, 1, WriteReturn(sb, data, net))

Flush ==
    \E net \in FlushOutcome(sb) :
        /\ sb' = sendBufferFlush(sb, net)
        /\ delivered' = delivered \o FlushSent(sb, net)
        /\ UNCHANGED accepted

GetBuffer ==
    /\ sb' = sendBufferGetBuffer(sb)
    /\ UNCHANGED <<accepted, delivered>>

Data == UNION {[1..n -> Byte] : n \in 0..MaxWrite}

Next ==
    \/ \E data \in Data : Write(data)
    \/ Flush
    \/ GetBuffer

Spec == Init /\ [][Next]_vars

-----------------------------------------------------------------------------
TypeOK ==
    /\ sb \in SendBufferType
    /\ accepted \in Seq(Byte)
    /\ delivered \in Seq(Byte)

(* The seek position is inside the memory stream and there is no stream    *)
(* left over behind a NULL buffer: a stale idx would make the next flush   *)
(* skip bytes or send bytes twice (sendbufr.c:25, 32).                     *)
StreamShape == WellFormed(sb)

(* No byte is lost, duplicated or reordered between direct sends, appended *)
(* data, partial flushes and failed flushes: what the socket took followed *)
(* by what still waits in the memory stream is exactly what was accepted.  *)
NothingLost == accepted = delivered \o Pending(sb)

IInv == TypeOK /\ StreamShape /\ NothingLost

=============================================================================
