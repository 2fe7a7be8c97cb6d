----------------------------- MODULE SendBuffer -----------------------------
(***************************************************************************)
(* src/src/server/sendbufr.c: the buffer between the server and one        *)
(* non-blocking client socket.                                             *)
(*                                                                         *)
(* A SendBuffer is a value (the C struct): the operators of this module    *)
(* are the functions of sendbufr.c, taking the struct and what send() did. *)
(* The memory stream behind `buffer' (a temporary file) is a sequence of   *)
(* bytes; `idx' is how many of them the socket has already taken.          *)
(***************************************************************************)
EXTENDS Integers, Sequences

CONSTANTS
    Byte,           \* the bytes that can be written; only their identity matters
    SB_DATA_SIZE    \* size of the block sendBufferFlush reads and sends at once

ASSUME SbDataSizeAssumption == SB_DATA_SIZE \in Nat \ {0}

(* The struct.  `open' is `buffer != NULL'; `fail' is SOC_BUF_ERR_FAIL in  *)
(* `options'.  No function ever sets the other flags of enum SOC_BUF_OPT.  *)
SendBufferType ==
    [open : BOOLEAN, stream : Seq(Byte), idx : Nat, fail : BOOLEAN]

sendBufferNew == [open |-> FALSE, stream |-> <<>>, idx |-> 0, fail |-> FALSE]

(* The bytes from the seek position idx to the end of the memory stream.   *)
Pending(sb) == SubSeq(sb.stream, sb.idx + 1, Len(sb.stream))

PendingLen(sb) == Len(sb.stream) - sb.idx

(* The seek position is inside the memory stream, and nothing is left over *)
(* behind a NULL buffer.                                                   *)
WellFormed(sb) ==
    /\ sb.idx <= Len(sb.stream)
    /\ ~sb.open => sb.stream = <<>> /\ sb.idx = 0

(***************************************************************************)
(* sendBufferWriteData.  Without a memory stream the data goes straight to *)
(* send(): the socket takes the first k bytes (0 stands for EAGAIN) and    *)
(* the rest opens a memory stream; an error keeps nothing of the data.     *)
(* With a memory stream the data is appended to it and nothing is sent.    *)
(*                                                                         *)
(* A caller that makes several calls in a row (header lines, the parts of  *)
(* a chunk) gets what one call on all the data does, but the error may     *)
(* come after k bytes: SendsOutcome instead of SendOutcome.                *)
(***************************************************************************)
SendsOutcome(len) == {net \in [k : 0..len, err : BOOLEAN] : net.err => net.k < len}

SendOutcome(len) == {net \in [k : 0..len, err : BOOLEAN] : net.err => net.k = 0}

(* Mutant: what the socket did not take is dropped, not buffered.          *)
WriteDropsRest(sb, data, net) ==
    IF sb.open
    THEN [sb EXCEPT !.stream = @ \o data]
    ELSE [sb EXCEPT !.fail = @ \/ net.err]

sendBufferWriteData(sb, data, net) ==
    IF sb.open
    THEN [sb EXCEPT !.stream = @ \o data]
    ELSE IF net.err
    THEN [sb EXCEPT !.fail = TRUE]
    ELSE IF net.k < Len(data)
    THEN [sb EXCEPT !.open = TRUE, !.stream = SubSeq(data, net.k + 1, Len(data))]
    ELSE sb

(* What the socket received during the call, and what the call returned.   *)
(* Mutant: data is sent directly although a memory stream is waiting.      *)
WriteSentDirectly(sb, data, net) == SubSeq(data, 1, net.k)

WriteSent(sb, data, net) == IF sb.open THEN <<>> ELSE SubSeq(data, 1, net.k)

WriteReturn(sb, data, net) == IF ~sb.open /\ net.err THEN net.k ELSE Len(data)

(***************************************************************************)
(* sendBufferFlush.  The loop sends blocks of SB_DATA_SIZE bytes until the *)
(* stream is exhausted (the stream is freed), the socket takes less than a *)
(* whole block or returns EAGAIN (idx remembers how far it got), or the    *)
(* socket fails.  net.k is the number of bytes the whole loop sent: send() *)
(* can only fail between two blocks.                                       *)
(***************************************************************************)
FlushOutcome(sb) ==
    {net \in [k : 0..PendingLen(sb), err : BOOLEAN] :
        net.err => net.k < PendingLen(sb) /\ net.k % SB_DATA_SIZE = 0}

(* Mutant: the position moves the wrong way.                               *)
FlushRewinds(sb, net) ==
    IF ~sb.open THEN sb
    ELSE [sb EXCEPT !.idx = @ - net.k, !.fail = @ \/ net.err]

sendBufferFlush(sb, net) ==
    IF ~sb.open THEN sb
    ELSE IF net.err
    THEN [sb EXCEPT !.idx = @ + net.k, !.fail = TRUE]
    ELSE IF net.k = PendingLen(sb)
    THEN [sb EXCEPT !.open = FALSE, !.stream = <<>>, !.idx = 0]
    ELSE [sb EXCEPT !.idx = @ + net.k]

FlushSent(sb, net) == IF ~sb.open THEN <<>> ELSE SubSeq(Pending(sb), 1, net.k)

(* An error makes the call return 0 whatever it sent before.               *)
FlushReturn(sb, net) == IF ~sb.open \/ net.err THEN 0 ELSE net.k

(* sendBufferGetBuffer: open an empty stream, or leave the one there is.   *)
sendBufferGetBuffer(sb) ==
    IF sb.open THEN sb ELSE [sb EXCEPT !.open = TRUE, !.stream = <<>>]

=============================================================================
