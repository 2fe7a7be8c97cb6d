----------------------------- MODULE RecvChunk ------------------------------
(***************************************************************************)
(* src/src/client/recvbufr.c in chunk mode: the client decodes a chunked   *)
(* body while it arrives.  What came together with the header is decoded   *)
(* in place by HttpChunkParseExistingBuffer; the rest is decoded by        *)
(* recvBufferAppendChunk from what recv(MSG_PEEK) shows.  The reader is    *)
(* either the download of a file (httpSiteSchemeFileRead) or the parser of *)
(* a directory page, which asks for more until it is refused.              *)
(*                                                                         *)
(* Bytes are CR, LF, digits, and data, which is numbered and looks like    *)
(* none of the others.  A step ends at a recv() that has to wait.          *)
(***************************************************************************)
EXTENDS Integers, Sequences, SequencesExt

CONSTANTS
    Bodies,         \* the bodies to send, each the sizes of its chunks
    Readers,        \* who reads: subset of {"file", "page"}
    Radix,          \* 16: sizes are written in hexadecimal
    PEEK,           \* bytes looked at for the size of a chunk (19)
    SB_DATA_SIZE,   \* bytes a reader asks for
    MaxPre          \* bound: bytes of the body that came with the header

ASSUME ChunkAssumption ==
    /\ Bodies \subseteq Seq(Nat \ {0})
    /\ Readers \subseteq {"file", "page"}
    /\ Radix \in Nat \ {0, 1}
    /\ {PEEK, SB_DATA_SIZE, MaxPre} \subseteq Nat \ {0}

-----------------------------------------------------------------------------
(* What the server of this repository sends: httpBodyWriteChunk for every  *)
(* piece of the page and httpBodyWriteChunkEnding.                         *)

Byte == [is : {"cr", "lf", "digit", "data"}, n : Nat]

CR == [is |-> "cr", n |-> 0]
LF == [is |-> "lf", n |-> 0]
EOL == <<CR, LF>>
Digit(n) == [is |-> "digit", n |-> n]
Data(i) == [is |-> "data", n |-> i]

Hex(n) ==
    LET Written[k \in 0..n] ==
            IF k < Radix THEN <<Digit(k)>> ELSE Append(Written[k \div Radix], Digit(k % Radix))
    IN  Written[n]

(* Where the data of each chunk ends in the content.                       *)
Ends(sizes) ==
    LET End[i \in 0..Len(sizes)] == IF i = 0 THEN 0 ELSE End[i - 1] + sizes[i]
    IN  End

Content(sizes) == [i \in 1..Ends(sizes)[Len(sizes)] |-> Data(i)]

(* The stream from chunk i on; behind the last one comes an empty chunk.   *)
Chunk(sizes, i) == SubSeq(Content(sizes), Ends(sizes)[i - 1] + 1, Ends(sizes)[i])

Onward(sizes) ==
    LET From[i \in 1..Len(sizes) + 1] ==
            IF i > Len(sizes) THEN Hex(0) \o EOL \o EOL
            ELSE Hex(sizes[i]) \o EOL \o Chunk(sizes, i) \o EOL \o From[i + 1]
    IN  From

Encoded(sizes) == Onward(sizes)[1]

-----------------------------------------------------------------------------
VARIABLES
    body,      \* the sizes of the chunks of this response
    reader,    \* who reads it
    sending,   \* bytes that have not reached the client
    link,      \* "up", "fin" or "rst" once the server closed or reset, "off" once the client closed
    conn,      \* bytes recv() has not taken from the socket yet
    buf,       \* RecvBuffer.buffer[0 .. len - 1]
    mode,      \* "chunk", "complete", or "unknown" after the parser gave up
    next,      \* length.chunk.next: data of this chunk still to come, or -1
    total,     \* length.chunk.total: data of the chunks parsed in place
    pc,        \* "parse", "idle", "iterate", "head", "returned", "done", "spin", "crash"
    ask,       \* len of the recvBufferAppend call under way
    result,    \* what it returned
    out,       \* the data the reader was given
    outcome,   \* "none", then "finish" or "fail"
    lastHeld   \* history: the parser decoded the last chunk in place

fixedVars == <<body, reader>>
netVars == <<sending, link>>
callVars == <<ask, result>>
readerVars == <<out, outcome>>
vars == <<fixedVars, netVars, conn, buf, mode, next, total, pc, callVars, readerVars, lastHeld>>

First(s, n) == SubSeq(s, 1, n)
Drop(s, n) == SubSeq(s, n + 1, Len(s))
Least(S) == CHOOSE n \in S : \A m \in S : n <= m

(* recvBufferSetLengthChunk.                                               *)
Init ==
    /\ body \in Bodies /\ reader \in Readers
    /\ \E pre \in 0..MaxPre :
        /\ pre <= Len(Encoded(body))
        /\ buf = First(Encoded(body), pre)
        /\ sending = Drop(Encoded(body), pre)
        /\ next = IF pre = 0 THEN -1 ELSE 0
        /\ pc = IF pre = 0 THEN "idle" ELSE "parse"
    /\ link = "up" /\ conn = <<>> /\ mode = "chunk" /\ total = 0
    /\ ask = 0 /\ result = "ok" /\ out = <<>> /\ outcome = "none" /\ lastHeld = FALSE

-----------------------------------------------------------------------------
(* strstr(s, HTTP_EOL), and ioHttpBodyChunkHexToSize of a string.          *)

EolAt(s) == {p \in 1..Len(s) - 1 : s[p] = CR /\ s[p + 1] = LF}
HasEol(s) == EolAt(s) # {}
Line(s) == First(s, Least(EolAt(s)) - 1)

IsHex(s) == \A i \in 1..Len(s) : s[i].is = "digit"

(* Mutant: the value does not carry over from digit to digit.              *)
LastDigitOnly(s) == IF s = <<>> THEN 0 ELSE s[Len(s)].n

HexToSize(s) ==
    LET Value[i \in 0..Len(s)] == IF i = 0 THEN 0 ELSE Value[i - 1] * Radix + s[i].n
    IN  Value[Len(s)]

(* AppendWait polls until recv() has data, the end of the stream, or an    *)
(* error to report.                                                        *)
Ready == conn # <<>> \/ link # "up"

-----------------------------------------------------------------------------
(***************************************************************************)
(* HttpChunkParseExistingBuffer.  The data of the chunks met so far fills  *)
(* the first `total' bytes; the line with the next size is expected two    *)
(* bytes further on (at the start for the first chunk).                    *)
(***************************************************************************)
SizeAt == IF total = 0 THEN 0 ELSE total + 2

Held == First(Drop(buf, SizeAt), Least({PEEK, Len(buf) - SizeAt}))

(* Mutant: forgets the line break that ends the data before.               *)
RemovesTooLittle(line) == First(buf, total) \o Drop(buf, total + Len(line) + 2)

RemoveLine(line) ==
    First(buf, total) \o Drop(buf, total + Len(line) + (IF total = 0 THEN 2 ELSE 4))

ParseHeld ==
    /\ pc = "parse" /\ total < Len(buf) /\ SizeAt <= Len(buf) /\ HasEol(Held)
    /\ IF IsHex(Line(Held))
       THEN /\ buf' = RemoveLine(Line(Held))
            /\ next' = HexToSize(Line(Held))
            /\ total' = total + HexToSize(Line(Held))
            /\ lastHeld' = (HexToSize(Line(Held)) = 0)
            /\ UNCHANGED pc
       ELSE pc' = "spin" /\ UNCHANGED <<buf, next, total, lastHeld>>
    /\ UNCHANGED <<fixedVars, netVars, conn, mode, callVars, readerVars>>

(* The peek overwrites the beginning of what was held.                     *)
Pulled(held) ==
    LET k == Least({PEEK, Len(conn)})
    IN  First(conn, k) \o Drop(held, Least({k, Len(held)}))

(* Mutant: what was buffered stays.                                        *)
GiveUpKeepsBuffer ==
    /\ mode' = "unknown" /\ link' = "off" /\ pc' = "idle"
    /\ UNCHANGED <<buf, conn>>

GiveUp ==
    /\ buf' = <<>> /\ mode' = "unknown" /\ link' = "off" /\ pc' = "idle"
    /\ UNCHANGED conn

Pull(held) ==
    /\ Ready
    /\ IF link # "rst" /\ HasEol(Pulled(held))
       THEN LET n == Least(EolAt(Pulled(held))) + 1
            IN  /\ buf' = buf \o First(Pulled(held), n)
                /\ conn' = Drop(conn, n)
                /\ UNCHANGED <<mode, link, pc>>
       ELSE GiveUp
    /\ UNCHANGED <<next, total>>

(* Mutant: waits for as many bytes as it would look at.                    *)
PullsFullPeek ==
    /\ pc = "parse" /\ total < Len(buf) /\ SizeAt <= Len(buf) /\ ~HasEol(Held)
    /\ Len(conn) >= PEEK
    /\ Pull(Held)
    /\ UNCHANGED <<fixedVars, sending, callVars, readerVars, lastHeld>>

ParsePull ==
    /\ pc = "parse" /\ total < Len(buf) /\ SizeAt <= Len(buf) /\ ~HasEol(Held)
    /\ Pull(Held)
    /\ UNCHANGED <<fixedVars, sending, callVars, readerVars, lastHeld>>

(* The buffer ends between CR and LF: recvBufferFetch is asked for bytes   *)
(* behind the end, len - pos wraps, and it copies what the memory holds.   *)
(* That has no line break, or one after something that is not a size, over *)
(* which the loop never gets, or one that makes the memmove leave the      *)
(* buffer.                                                                 *)
ParseStale ==
    /\ pc = "parse" /\ total < Len(buf) /\ SizeAt > Len(buf)
    /\ \/ Pull(<<>>)
       \/ /\ pc' \in {"spin", "crash"}
          /\ UNCHANGED <<conn, buf, mode, link, next, total>>
    /\ UNCHANGED <<fixedVars, sending, callVars, readerVars, lastHeld>>

(* Mutant: the chunk the buffer ends in is taken for complete.             *)
ParseDoneAtChunk ==
    /\ pc = "parse" /\ total >= Len(buf)
    /\ next' = 0
    /\ pc' = "idle"
    /\ UNCHANGED <<fixedVars, netVars, conn, buf, mode, total, callVars, readerVars, lastHeld>>

ParseDone ==
    /\ pc = "parse" /\ total >= Len(buf)
    /\ next' = total - Len(buf)
    /\ pc' = "idle"
    /\ UNCHANGED <<fixedVars, netVars, conn, buf, mode, total, callVars, readerVars, lastHeld>>

-----------------------------------------------------------------------------
(* recvBufferAppend(len), called by the reader.                            *)

Wanted == IF reader = "file" THEN SB_DATA_SIZE - Len(buf) ELSE SB_DATA_SIZE

Call ==
    /\ pc = "idle" /\ (reader = "file" => Len(buf) < SB_DATA_SIZE)
    /\ ask' = Wanted
    /\ CASE mode = "complete" -> pc' = "returned" /\ result' = "completed"
         [] mode = "unknown" -> pc' = "returned" /\ result' = "error"
         [] mode = "chunk" -> pc' = (IF next = -1 THEN "head" ELSE "iterate") /\ UNCHANGED result
    /\ UNCHANGED <<fixedVars, netVars, conn, buf, mode, next, total, readerVars, lastHeld>>

Return(r) == pc' = "returned" /\ result' = r

(* recv() fails.                                                           *)
SocketError ==
    /\ pc \in {"iterate", "head"} /\ (pc = "iterate" => ask > 0 /\ next > 0)
    /\ link = "rst"
    /\ Return("error")
    /\ UNCHANGED <<fixedVars, netVars, conn, buf, mode, next, total, ask, readerVars, lastHeld>>

(***************************************************************************)
(* recvBufferAppendChunk, one turn of its loop: data up to the end of the  *)
(* chunk.  At the end of the stream recv() returns 0, which is less than   *)
(* was asked for and no error.                                             *)
(***************************************************************************)
Iterate ==
    /\ pc = "iterate" /\ ask > 0 /\ next > 0 /\ Ready /\ link # "rst"
    /\ LET s == Least({next, ask, SB_DATA_SIZE})
           l == Least({s, Len(conn)})
       IN  /\ buf' = buf \o First(conn, l)
           /\ conn' = Drop(conn, l)
           /\ next' = next - l /\ ask' = ask - l
           /\ IF l < s THEN Return("ok") ELSE UNCHANGED <<pc, result>>
    /\ UNCHANGED <<fixedVars, netVars, mode, total, readerVars, lastHeld>>

IterateDone ==
    /\ pc = "iterate" /\ (ask = 0 \/ next = 0)
    /\ IF ask = 0 THEN Return("ok") ELSE pc' = "head" /\ UNCHANGED result
    /\ UNCHANGED <<fixedVars, netVars, conn, buf, mode, next, total, ask, readerVars, lastHeld>>

(* Mutant: does not wait for the shortest line there can be.               *)
AnyIsEnough(k) == k > 0

EnoughForHead(k) == k >= IF next = -1 THEN 3 ELSE 5

(* The line with the size of the next chunk, and with it, behind a chunk,  *)
(* the line break that ends the data.                                      *)
Head1 == First(conn, Least({PEEK, Len(conn)}))
Skipped == IF next = -1 THEN 0 ELSE Least(EolAt(Head1)) + 1
SizeLine == Line(Drop(Head1, Skipped))

HeadComplete ==
    /\ next # -1 => HasEol(Head1)
    /\ HasEol(Drop(Head1, Skipped))

ChunkHead ==
    /\ pc = "head" /\ Ready /\ link # "rst"
    /\ CASE ~EnoughForHead(Len(Head1)) ->
                Return("ok") /\ UNCHANGED <<conn, next, total, mode>>
         [] EnoughForHead(Len(Head1)) /\ ~HeadComplete ->
                Return("malformed") /\ UNCHANGED <<conn, next, total, mode>>
         [] EnoughForHead(Len(Head1)) /\ HeadComplete /\ ~IsHex(SizeLine) ->
                Return("malformed") /\ UNCHANGED <<conn, next, total, mode>>
         [] OTHER ->
                /\ conn' = Drop(conn, Skipped + Len(SizeLine) + 2)
                /\ IF HexToSize(SizeLine) > 0
                   THEN /\ next' = HexToSize(SizeLine) /\ pc' = "iterate"
                        /\ UNCHANGED <<total, mode, result>>
                   ELSE /\ next' = -1 /\ total' = 0 /\ mode' = "complete"
                        /\ Return("ok")
    /\ UNCHANGED <<fixedVars, netVars, buf, ask, readerVars, lastHeld>>

-----------------------------------------------------------------------------
(* The readers.                                                            *)

(* httpSiteSchemeFileRead and the loop of queueEntryDownload...: a read    *)
(* that returns 0 ends the file, an error fails it.                        *)
FileRead ==
    /\ reader = "file"
    /\ pc = "returned" \/ (pc = "idle" /\ Len(buf) >= SB_DATA_SIZE)
    /\ LET failed == pc = "returned" /\ result \in {"error", "malformed"}
           n == Least({Len(buf), SB_DATA_SIZE})
       IN  /\ pc' = IF failed \/ n = 0 THEN "done" ELSE "idle"
           /\ outcome' = IF failed THEN "fail" ELSE IF n = 0 THEN "finish" ELSE outcome
           /\ out' = IF failed THEN out ELSE out \o First(buf, n)
           /\ buf' = IF failed THEN buf ELSE Drop(buf, n)
    /\ UNCHANGED <<fixedVars, netVars, conn, mode, next, total, callVars, lastHeld>>

(* httpSiteSchemeDirectoryListingOpen looks for one element after another  *)
(* until recvBufferAppend refuses.                                         *)
PageRead ==
    /\ reader = "page" /\ pc = "returned"
    /\ pc' = IF result = "ok" THEN "idle" ELSE "done"
    /\ outcome' = CASE result = "ok" -> outcome
                    [] result = "completed" -> "finish"
                    [] OTHER -> "fail"
    /\ out' = out \o buf /\ buf' = <<>>
    /\ UNCHANGED <<fixedVars, netVars, conn, mode, next, total, callVars, lastHeld>>

ClientStep ==
    \/ ParseHeld \/ ParsePull \/ ParseStale \/ ParseDone
    \/ Call \/ SocketError \/ Iterate \/ IterateDone \/ ChunkHead
    \/ FileRead \/ PageRead

(* External: bytes arrive in pieces, and the server may close or reset the *)
(* connection before it has sent everything.                               *)
Arrive ==
    /\ link = "up" /\ sending # <<>>
    /\ \E n \in 1..Len(sending) :
        /\ conn' = conn \o First(sending, n)
        /\ sending' = Drop(sending, n)
    /\ UNCHANGED <<fixedVars, link, buf, mode, next, total, pc, callVars, readerVars, lastHeld>>

ServerCloses ==
    /\ link = "up"
    /\ link' = "fin"
    /\ UNCHANGED <<fixedVars, sending, conn, buf, mode, next, total, pc, callVars, readerVars, lastHeld>>

ServerResets ==
    /\ link = "up"
    /\ link' = "rst" /\ conn' = <<>>
    /\ UNCHANGED <<fixedVars, sending, buf, mode, next, total, pc, callVars, readerVars, lastHeld>>

Next == ClientStep \/ Arrive \/ ServerCloses \/ ServerResets

(* The client is one thread that runs; a server that does not close sends  *)
(* what it has.                                                            *)
Spec == Init /\ [][Next]_vars /\ WF_vars(ClientStep) /\ WF_vars(Arrive)

-----------------------------------------------------------------------------
TypeOK ==
    /\ body \in Bodies /\ reader \in Readers
    /\ {sending, conn, buf, out} \subseteq Seq(Byte)
    /\ link \in {"up", "fin", "rst", "off"}
    /\ mode \in {"chunk", "complete", "unknown"}
    /\ next \in Nat \cup {-1} /\ total \in Nat /\ ask \in 0..SB_DATA_SIZE
    /\ pc \in {"parse", "idle", "iterate", "head", "returned", "done", "spin", "crash"}
    /\ result \in {"ok", "completed", "malformed", "error"}
    /\ outcome \in {"none", "finish", "fail"}
    /\ lastHeld \in BOOLEAN

(* What is decoded: while the buffer is parsed only its beginning is.      *)
Decoded ==
    out \o IF pc \in {"parse", "spin", "crash"} THEN First(buf, Least({total, Len(buf)})) ELSE buf

(* However the stream is cut into pieces, what the reader gets is a        *)
(* beginning of the content: no size line or line break is taken for data, *)
(* and no data is lost or repeated in between (recvbufr.c:90-185,          *)
(* 577-626).                                                               *)
DecodesPrefix == IsPrefix(Decoded, Content(body))

(* A response is complete, and its connection kept for the next request    *)
(* (recvbufr.c:497), only when all of the content has been decoded.  The   *)
(* line break that ends the body is never read: exactly that stays on the  *)
(* connection, in front of the next response.                              *)
CompleteWhole ==
    mode = "complete" => Decoded = Content(body) /\ (link = "up" => conn \o sending = EOL)

(* Between two calls the buffer agrees with the stream about where the     *)
(* next size line is: the data decoded and the data of the chunk still to  *)
(* come end where a chunk of the body ends.                                *)
InStep ==
    pc = "idle" /\ mode = "chunk" /\ next >= 0 =>
        \E i \in 0..Len(body) : Len(Decoded) + next = Ends(body)[i]

(* A sound stream is refused only where a size of at least two digits      *)
(* arrives in two pieces: with one digit, the bytes that ChunkHead waits   *)
(* for always hold the end of the line.                                    *)
NoFalseAlarm ==
    result = "malformed" => \E i \in DOMAIN body : Len(Hex(body[i])) >= 2

(* Seen by its readers, both parsers are one transfer: it only grows, it   *)
(* is complete, and a page read to its end, only with all of the content,  *)
(* and it is dropped only before anything was handed out (recvbufr.c:165-  *)
(* 176, 622).  A download that ends because the server closed is none of   *)
(* that: to the code it looks like the end of the file.                    *)
Body == INSTANCE ChunkedBody WITH
            content <- Content(body),
            decoded <- Decoded,
            given   <- out,
            mode    <- mode,
            outcome <- IF reader = "page" THEN outcome ELSE "none"

BodySpec == Body!Spec

(* The reader comes to an end while the connection stays up, except in     *)
(* what the parser of the buffer gets wrong: it does not know a last chunk *)
(* for one and goes on to wait for another, and it may never get over a    *)
(* buffer that ends between CR and LF.                                     *)
ReaderEnds ==
    <>(pc = "done" \/ link # "up" \/ lastHeld \/ pc \in {"spin", "crash"})

=============================================================================
