------------------------------ MODULE Download ------------------------------
(***************************************************************************)
(* The client's download queue: the QUEUE commands of cli/dl.c, the three  *)
(* download functions of client/queue.c, the HTTP source site              *)
(* (client/site/http.c) over one keep-alive connection                     *)
(* (client/recvbufr.c, client/io.c), and the local destination site        *)
(* (client/site/file.c).                                                   *)
(*                                                                         *)
(* The connection is a sequence of elements: the header of the response to *)
(* request n is one element, each byte of its body another.  The server    *)
(* answers or closes, and may close or reset at any moment; recv() hands   *)
(* out what is there in pieces of any size.                                *)
(***************************************************************************)
EXTENDS Integers, Sequences, FiniteSets

CONSTANTS
    N,             \* entries of the queue
    FileLen,       \* bytes of every file of the remote site
    Kinds,         \* what the source path can be: "file", or "page" (a directory's listing)
    Sources,       \* "http", or "file": a path of the local site itself
    Commands,      \* the QUEUE commands the user gives: START, UPDATE, MIRROR
    MaxCommands,   \* bound: commands given
    MaxFaults,     \* bound: closed or reset connections, refused connects, files with a short write
    SB_DATA_SIZE,  \* size of the block siteFileRead is asked for
    HeaderMax      \* elements recvBufferFindAndFetch buffers in search of a header (4096 bytes)

ASSUME DownloadAssumption ==
    /\ {N, FileLen, SB_DATA_SIZE} \subseteq Nat \ {0}
    /\ {MaxCommands, MaxFaults, HeaderMax} \subseteq Nat
    /\ Kinds \subseteq {"file", "page"} /\ Sources \subseteq {"http", "file"}
    /\ Commands \subseteq {"START", "UPDATE", "MIRROR"}

Entry == 1..N

VARIABLES
    cmd, pos, pc,  \* the command under way, its loop index, and where the download is
    given,         \* history: the commands given
    state,         \* QueueEntry.state: QUEUED, FINISHED or FAILED
    kind, source,  \* what each entry's source is, and on which site
    newer,         \* the source is newer than the file at the destination
    exists, dest,  \* the destination: is there a file, and its content
    rb,            \* the RecvBuffer
    conn,          \* elements on their way to the client
    link,          \* "up", or closed ("fin") or reset ("rst") by the server after conn
    req,           \* number of the last request
    short,         \* history: a write to this entry's destination was short
    faults,        \* history: faults that have happened
    skipped,       \* history: finished by UPDATE without a download
    spoiled,       \* history: a fault hit the copy of this entry
    header         \* history: the elements last taken for a header

queueVars == <<cmd, pos, pc, given, state, skipped>>
fixedVars == <<kind, source, newer>>
fileVars == <<exists, dest, short>>
netVars == <<rb, conn, link, req, header>>
vars == <<queueVars, fixedVars, fileVars, netVars, faults, spoiled>>

Old == <<[req |-> 0, at |-> 1]>>   \* what an existing destination holds

Init ==
    /\ cmd = "none" /\ pos = 1 /\ pc = "idle" /\ given = <<>>
    /\ state = [e \in Entry |-> "QUEUED"]
    /\ kind \in [Entry -> Kinds] /\ source \in [Entry -> Sources]
    /\ newer \in [Entry -> BOOLEAN]
    /\ exists \in [Entry -> BOOLEAN]
    /\ dest = [e \in Entry |-> IF exists[e] THEN Old ELSE <<>>]
    /\ rb = [buf |-> <<>>, mode |-> "unknown", escape |-> 0, total |-> 0]
    /\ conn = <<>> /\ link = "up" /\ req = 0
    /\ faults = 0 /\ short = [e \in Entry |-> FALSE]
    /\ skipped = [e \in Entry |-> FALSE] /\ spoiled = [e \in Entry |-> FALSE]
    /\ header = <<>>

Least(a, b) == IF a <= b THEN a ELSE b
First(s, n) == SubSeq(s, 1, n)
Drop(s, n) == SubSeq(s, n + 1, Len(s))

-----------------------------------------------------------------------------
(* cli/dl.c: QueueStart, QueueUpdate and QueueMirror walk the queue.       *)

Command ==
    /\ pc = "idle" /\ Len(given) < MaxCommands
    /\ cmd' \in Commands /\ given' = Append(given, cmd')
    /\ pos' = 1 /\ pc' = "entry"
    /\ UNCHANGED <<state, skipped, fixedVars, fileVars, netVars, faults, spoiled>>

(* Mutant: the loop does not advance.                                     *)
NextEntryStays ==
    /\ pc' = IF pos < N THEN "entry" ELSE "idle"
    /\ UNCHANGED <<cmd, pos, given>>

NextEntry ==
    /\ pos' = IF pos < N THEN pos + 1 ELSE 1
    /\ pc' = IF pos < N THEN "entry" ELSE "idle"
    /\ UNCHANGED <<cmd, given>>

Goto(place) == pc' = place /\ UNCHANGED <<cmd, pos, given>>

(***************************************************************************)
(* queue.c: the functions differ only in what they do with a file that is  *)
(* already there.                                                          *)
(***************************************************************************)
(* Mutant: an existing file is not looked at.                              *)
ClobberingEntry ==
    /\ pc = "entry"
    /\ IF state[pos] # "QUEUED" THEN NextEntry ELSE Goto("open")
    /\ UNCHANGED <<state, skipped, fixedVars, fileVars, netVars, faults, spoiled>>

DownloadEntry ==
    /\ pc = "entry"
    /\ IF state[pos] # "QUEUED" \/ (cmd = "START" /\ exists[pos])
       THEN NextEntry
       ELSE Goto(IF cmd = "UPDATE" /\ exists[pos] THEN "stat" ELSE "open")
    /\ UNCHANGED <<state, skipped, fixedVars, fileVars, netVars, faults, spoiled>>

(* platformTimeStructCompare(to, from) is 1 when `from' is newer, 0 when   *)
(* they are of the same time; `newer' stands for 1, its negation for -1.   *)
CompareDates ==
    IF newer[pos]
    THEN /\ state' = [state EXCEPT ![pos] = "FINISHED"]
         /\ skipped' = [skipped EXCEPT ![pos] = TRUE]
         /\ NextEntry
    ELSE Goto("open") /\ UNCHANGED <<state, skipped>>

StatLocal ==
    /\ pc = "stat" /\ source[pos] = "file"
    /\ CompareDates
    /\ UNCHANGED <<fixedVars, fileVars, netVars, faults, spoiled>>

-----------------------------------------------------------------------------
(* recvbufr.c and io.c.                                                    *)

(* External: the server's response to request n for the current entry.     *)
Response(n) == [i \in 1..(1 + FileLen) |-> [req |-> n, at |-> i - 1]]

(* Mutant: an unfinished connection is used again.                         *)
AlwaysReusable(b) == TRUE

Reusable(b) == b.mode \in {"unknown", "complete"}

(***************************************************************************)
(* recvBufferSend: a connection whose last response was not read to its    *)
(* end is replaced; then up to three attempts.  The request reaches the    *)
(* server on the connection there is, or on a new one; or it reaches       *)
(* nobody, because elements of an older response wait on a connection the  *)
(* server has closed and the peek takes them for the answer, or because    *)
(* the third attempt failed: that returns the result of the last           *)
(* reconnect, which may be NULL.  The callers have cleared the buffer.     *)
(***************************************************************************)
SendOn(b, line, up) == rb' = b /\ conn' = line /\ link' = up

recvBufferSend(answered, failed) ==
    LET fresh == [rb EXCEPT !.buf = <<>>, !.mode = "unknown", !.escape = 0]
        n == req + 1
    IN  /\ req' = n
        /\ \/ /\ Reusable(rb) /\ link = "up"
              /\ SendOn(fresh, conn \o Response(n), "up")
              /\ answered /\ UNCHANGED faults
           \/ /\ Reusable(rb) /\ link = "fin" /\ conn # <<>>
              /\ SendOn(fresh, conn, "fin")
              /\ answered /\ UNCHANGED faults
           \/ /\ ~Reusable(rb) \/ link = "rst" \/ (link = "fin" /\ conn = <<>>)
              /\ SendOn(fresh, Response(n), "up")
              /\ answered /\ UNCHANGED faults
           \/ /\ faults < MaxFaults /\ faults' = faults + 1
              /\ SendOn(fresh, <<>>, "fin")
              /\ answered \/ failed

(***************************************************************************)
(* ioHttpResponseHeaderRead: everything up to the first header on the      *)
(* connection is taken for the header; the recv() that brings its end may  *)
(* bring up to SB_DATA_SIZE - 1 elements more, which stay in the buffer.   *)
(***************************************************************************)
HeaderAt == {p \in 1..Len(conn) : conn[p].at = 0}
FirstHeader == CHOOSE p \in HeaderAt : \A q \in HeaderAt : p <= q

HeaderFound == HeaderAt # {} /\ FirstHeader - 1 <= HeaderMax

HeaderReads == FirstHeader..Least(Len(conn), FirstHeader + SB_DATA_SIZE - 1)

(* What is left in the buffer after a read that ended at k.                *)
BehindHeader(k) == SubSeq(conn, FirstHeader + 1, k)

ReadHeader(k) ==
    /\ header' = First(conn, FirstHeader)
    /\ conn' = Drop(conn, k)
    /\ UNCHANGED <<link, req>>

(* No header: the search fails and leaves the buffer in token mode.        *)
HeaderMissing ==
    /\ rb' = [rb EXCEPT !.mode = "token", !.buf = conn]
    /\ conn' = <<>>
    /\ UNCHANGED <<link, req, header>>

(* Mutant: what came with the header is not counted.                       *)
ComputeForgetsBuffered(buf) ==
    IF kind[pos] = "page"
    THEN [rb EXCEPT !.buf = buf, !.mode = "chunk"]
    ELSE [rb EXCEPT !.buf = <<>>, !.escape = Len(buf), !.total = FileLen,
                    !.mode = IF Len(buf) = FileLen THEN "complete" ELSE "known"]

(* HeadersCompute of a GET.  A page comes in chunks, a file has a length.  *)
HeadersCompute(buf) ==
    IF kind[pos] = "page"
    THEN [rb EXCEPT !.buf = buf, !.mode = "chunk"]
    ELSE [rb EXCEPT !.buf = buf, !.escape = Len(buf), !.total = FileLen,
                    !.mode = IF Len(buf) = FileLen THEN "complete" ELSE "known"]

-----------------------------------------------------------------------------
(* httpSiteSchemeStatOpenMeta: a GET whose body is never read, after which *)
(* HeadersCompute marks the connection complete.                           *)

StatSend ==
    /\ pc = "stat" /\ source[pos] = "http"
    /\ recvBufferSend(Goto("statHeader"), Goto("open"))
    /\ UNCHANGED <<state, skipped, header, fixedVars, fileVars, spoiled>>

(* A stat that failed does not stop the download.                          *)
StatHeader ==
    /\ pc = "statHeader"
    /\ IF HeaderFound
       THEN /\ \E k \in HeaderReads :
                  /\ ReadHeader(k)
                  /\ rb' = [rb EXCEPT !.buf = BehindHeader(k), !.mode = "complete"]
            /\ CompareDates
       ELSE HeaderMissing /\ Goto("open") /\ UNCHANGED <<state, skipped>>
    /\ UNCHANGED <<fixedVars, fileVars, faults, spoiled>>

(* siteFileOpenRead of an HTTP source: a failure returns with the entry    *)
(* still queued.                                                           *)
OpenSend ==
    /\ pc = "open" /\ source[pos] = "http"
    /\ recvBufferSend(Goto("header"), NextEntry)
    /\ UNCHANGED <<state, skipped, header, fixedVars, fileVars, spoiled>>

OpenHeader ==
    /\ pc = "header"
    /\ IF HeaderFound
       THEN \E k \in HeaderReads :
              /\ ReadHeader(k) /\ rb' = HeadersCompute(BehindHeader(k))
              /\ IF kind[pos] = "file" THEN Goto("write")
                 ELSE IF BehindHeader(k) = <<>> THEN NextEntry ELSE Goto("chunks")
       ELSE HeaderMissing /\ NextEntry
    /\ UNCHANGED <<state, skipped, fixedVars, fileVars, faults, spoiled>>

(***************************************************************************)
(* HttpChunkParseExistingBuffer on the part of a page that came with its   *)
(* header; how it ends depends on where the page was divided (module       *)
(* RecvChunk).  It is through, and the page is found to be no file; or it  *)
(* drops the connection; or it waits for a size line that may never come;  *)
(* or it has met one that is no number, which it reads for ever.           *)
(***************************************************************************)
DropConnection ==
    /\ rb' = [rb EXCEPT !.buf = <<>>, !.mode = "unknown"]
    /\ conn' = <<>> /\ link' = "fin"

ParsePage ==
    /\ pc = "chunks"
    /\ \/ NextEntry /\ UNCHANGED <<rb, conn, link>>
       \/ NextEntry /\ DropConnection
       \/ Goto("waiting") /\ UNCHANGED <<rb, conn, link>>
       \/ Goto("spinning") /\ UNCHANGED <<rb, conn, link>>
    /\ UNCHANGED <<state, skipped, req, header, fixedVars, fileVars, faults, spoiled>>

(* The wait ends when the server closes.                                   *)
PageWaitEnds ==
    /\ pc = "waiting" /\ link # "up"
    /\ NextEntry /\ DropConnection
    /\ UNCHANGED <<state, skipped, req, header, fixedVars, fileVars, faults, spoiled>>

OpenLocal ==
    /\ pc = "open" /\ source[pos] = "file"
    /\ IF kind[pos] = "file" THEN Goto("write") ELSE NextEntry
    /\ UNCHANGED <<state, skipped, fixedVars, fileVars, netVars, faults, spoiled>>

(* siteFileOpenWrite truncates the destination, or fails.                  *)
OpenWrite ==
    /\ pc = "write"
    /\ \/ /\ Goto("copy")
          /\ exists' = [exists EXCEPT ![pos] = TRUE] /\ dest' = [dest EXCEPT ![pos] = <<>>]
          /\ spoiled' = [spoiled EXCEPT ![pos] = link # "up"]
          /\ short' = [short EXCEPT ![pos] = FALSE]
          /\ UNCHANGED faults
       \/ /\ faults < MaxFaults /\ faults' = faults + 1
          /\ NextEntry /\ UNCHANGED <<exists, dest, short, spoiled>>
    /\ UNCHANGED <<state, skipped, fixedVars, netVars>>

-----------------------------------------------------------------------------
(* The copy loop.                                                          *)

Conclude(result) == state' = [state EXCEPT ![pos] = result] /\ NextEntry

(***************************************************************************)
(* recvBufferAppend(want) in known mode receives until it has that much,   *)
(* the announced length is reached, or the server has closed.              *)
(***************************************************************************)
Appended(want) ==
    IF rb.mode # "known" THEN {0}
    ELSE {k \in 0..Least(want, Len(conn)) :
            \/ k = Len(conn) /\ link # "up"
            \/ k > 0 /\ (k = want \/ rb.escape + k >= rb.total)}

(* recv() fails on a reset connection that has nothing left.               *)
AppendFails(want, k) ==
    rb.mode = "known" /\ link = "rst" /\ k < want /\ rb.escape + k < rb.total

(* Mutant: the transfer counts as complete one byte early.                 *)
AppendCompletesEarly(k) ==
    [rb EXCEPT !.buf = @ \o First(conn, k), !.escape = @ + k,
               !.mode = IF @ = "known" /\ k > 0 /\ rb.escape + k + 1 >= rb.total
                        THEN "complete" ELSE @]

AppendTo(k) ==
    [rb EXCEPT !.buf = @ \o First(conn, k), !.escape = @ + k,
               !.mode = IF @ = "known" /\ k > 0 /\ rb.escape + k >= rb.total
                        THEN "complete" ELSE @]

(* fwrite() takes everything, or less when the disk is full; either way    *)
(* siteFileWrite does not return -1, and the next block is written behind  *)
(* what was taken.  A file's first short write is the fault.               *)
siteFileWrite(data) ==
    \/ /\ dest' = [dest EXCEPT ![pos] = @ \o data]
       /\ UNCHANGED <<short, faults, spoiled>>
    \/ /\ data # <<>> /\ (short[pos] \/ faults < MaxFaults)
       /\ faults' = IF short[pos] THEN faults ELSE faults + 1
       /\ \E w \in 0..(Len(data) - 1) : dest' = [dest EXCEPT ![pos] = @ \o First(data, w)]
       /\ short' = [short EXCEPT ![pos] = TRUE]
       /\ spoiled' = [spoiled EXCEPT ![pos] = TRUE]

(* httpSiteSchemeFileRead: "no data" and "completed" count as success, so  *)
(* the end of the connection looks like the end of the file.               *)
CopyBlock ==
    LET want == SB_DATA_SIZE - Len(rb.buf)
    IN  /\ pc = "copy" /\ source[pos] = "http"
        /\ \E k \in IF want > 0 THEN Appended(want) ELSE {0} :
            LET b == AppendTo(k)
                n == Least(Len(b.buf), SB_DATA_SIZE)
            IN  /\ conn' = Drop(conn, k)
                /\ IF want > 0 /\ AppendFails(want, k)
                   THEN /\ rb' = b
                        /\ Conclude("FAILED") /\ UNCHANGED <<dest, short, faults, spoiled>>
                   ELSE /\ rb' = [b EXCEPT !.buf = Drop(b.buf, n)]
                        /\ IF n = 0
                           THEN Conclude("FINISHED") /\ UNCHANGED <<dest, short, faults, spoiled>>
                           ELSE /\ siteFileWrite(First(b.buf, n))
                                /\ UNCHANGED <<state, pos, pc, cmd, given>>
        /\ UNCHANGED <<skipped, exists, fixedVars, link, req, header>>

(* The source is on the destination's own site, which holds one open file: *)
(* opening the destination has closed the source, and reading a file that  *)
(* is open for writing gives nothing.                                      *)
CopyLocal ==
    /\ pc = "copy" /\ source[pos] = "file"
    /\ Conclude("FINISHED")
    /\ UNCHANGED <<skipped, fixedVars, fileVars, netVars, faults, spoiled>>

ClientStep ==
    \/ DownloadEntry \/ StatLocal \/ StatSend \/ StatHeader
    \/ OpenSend \/ OpenHeader \/ ParsePage \/ PageWaitEnds \/ OpenLocal
    \/ OpenWrite \/ CopyBlock \/ CopyLocal

(* External: the server closes or resets the connection; what it had not   *)
(* got out yet is lost.                                                    *)
ServerCloses ==
    /\ link = "up" /\ faults < MaxFaults
    /\ faults' = faults + 1
    /\ link' \in {"fin", "rst"}
    /\ \E n \in 0..Len(conn) : conn' = First(conn, n)
    /\ spoiled' = [spoiled EXCEPT ![pos] = @ \/ pc = "copy"]
    /\ UNCHANGED <<queueVars, fixedVars, fileVars, rb, req, header>>

Next == Command \/ ClientStep \/ ServerCloses

Spec == Init /\ [][Next]_vars

(* The program is one thread that goes on; recv() on a silent connection   *)
(* is polled for ever, so the server is taken to answer or to close.       *)
FairSpec == Spec /\ WF_vars(ClientStep)

-----------------------------------------------------------------------------
Element == [req : Nat, at : 0..FileLen]

TypeOK ==
    /\ cmd \in Commands \cup {"none"} /\ pos \in Entry /\ given \in Seq(Commands)
    /\ pc \in {"idle", "entry", "stat", "statHeader", "open", "header", "chunks", "waiting", "spinning",
               "write", "copy"}
    /\ state \in [Entry -> {"QUEUED", "FINISHED", "FAILED"}]
    /\ kind \in [Entry -> Kinds] /\ source \in [Entry -> Sources] /\ newer \in [Entry -> BOOLEAN]
    /\ exists \in [Entry -> BOOLEAN] /\ dest \in [Entry -> Seq(Element)]
    /\ rb \in [buf : Seq(Element), escape : Nat, total : Nat,
               mode : {"unknown", "token", "known", "chunk", "complete"}]
    /\ conn \in Seq(Element) /\ link \in {"up", "fin", "rst"} /\ req \in Nat
    /\ short \in [Entry -> BOOLEAN] /\ faults \in 0..MaxFaults
    /\ skipped \in [Entry -> BOOLEAN] /\ spoiled \in [Entry -> BOOLEAN]

(* What a download puts into its destination are bytes of the one file it  *)
(* asked for, in their order and none twice: no byte of an earlier         *)
(* response on the same connection.  None is missing in the middle either, *)
(* unless a write was short: then the next is written behind it.           *)
OwnBytes ==
    \A e \in Entry : dest[e] # Old =>
        /\ Len(dest[e]) <= FileLen
        /\ \A i \in 1..Len(dest[e]) :
              /\ dest[e][i].at \in 1..FileLen /\ dest[e][i].req = dest[e][1].req
              /\ \A j \in 1..i - 1 : dest[e][j].at < dest[e][i].at
              /\ ~short[e] => dest[e][i].at = i

(* http.c:1046: when a header has been read the connection is at the       *)
(* beginning of the body: what was taken for the header is the header of   *)
(* the request just sent, and nothing else.                                *)
HeaderOwn ==
    pc \in {"write", "copy"} /\ source[pos] = "http" => header = <<[req |-> req, at |-> 0]>>

(* It is, whatever connections break, as long as no UPDATE has left the    *)
(* body of its stat on the connection.                                     *)
HeaderOwnUnlessUpdated == (\A i \in 1..Len(given) : given[i] # "UPDATE") => HeaderOwn

Complete(e) == Len(dest[e]) = FileLen

(* A download that finished is complete unless a fault hit it on the way.  *)
FinishedUnlessSpoiled ==
    \A e \in Entry :
        state[e] = "FINISHED" /\ ~skipped[e] /\ source[e] = "http" => Complete(e) \/ spoiled[e]

(* queue.h: in update mode only newer files are overwritten, so an entry   *)
(* that is skipped is one whose source is not newer.                       *)
SkippedNotNewer == \A e \in Entry : skipped[e] => ~newer[e]

(* QUEUE START never touches a file that was there before.                 *)
NoClobber ==
    [][\A e \in Entry :
        cmd = "START" /\ exists[e] /\ ~(pc = "copy" /\ pos = e) => dest'[e] = dest[e]]_vars

(* A command comes to its end whatever the server closes or resets: no     *)
(* retry, poll or empty read goes on for ever.  The exception is the page  *)
(* that came with its header, in the parser of the buffer                  *)
(* (recvbufr.c:588,599).                                                   *)
CommandEnds == pc = "entry" ~> pc \in {"idle", "waiting", "spinning"}

=============================================================================
