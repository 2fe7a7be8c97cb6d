# Newth: TLA+ models of the HTTP server and the download client

Newth is a pair of small portable HTTP tools written in C: **TH**, a
single-threaded file server, and **DL**, an interactive download client. This
directory holds TLA+ modules that model their core logic, TLC configurations
that check them on small instances, and TLAPS proofs of what matters most.
Paths below are relative to the repository's `src/` directory; file names in
`PROJECT.json` are relative to the directory above the repository.

## 1. Inventory

### Server (TH)

| Component | State | Operations |
|---|---|---|
| send buffer, `server/sendbufr.c` | per response: memory stream, position `idx`, fail flag | `sendBufferWriteData` (send now, buffer the rest), `sendBufferFlush`, `sendBufferGetBuffer`, `sendBufferPrintf` |
| routine, `server/routine.c` | state (`FLUSH`, `CONTINUE`, `DEFER`, `FINISH`, `FAIL`), kind, send buffer, file position or directory handle | the cases of `RoutineTick`; `FileRoutineContinue`, `DirectoryRoutineContinue` |
| routine array, `server/routine.c` | `globalRoutineArray` | add, delete by index, by socket, by pointer |
| loop, `server/mltiplex/select.c` (or `poll.c`) | read, write (deferred) and listening sets | `serverTick`: tick the routines, `select()`, accept, handle, close, clear the write set |
| handlers, `server/server.c`, `server/http.c` | none of their own | `handleConnection`, `handlePath`, `handleDir`, `handleFile`, `httpHeaderHandleError` |
| events, `server/event.c` | four callback pointers | set and invoke; log lines in the console server, the statistics of the graphical one; closes the socket in a `TH_TCP_NEVER_REUSE` build |
| graphical server, `gui/win32/` | connection list, counters of connections and transfers, root path, the server's thread | start, the four callbacks, close |
| ports, `platform/platform.c`, `platform/mscrtdl.c` | listening sockets | `platformBindPort`, `platformServerStartup`, `platformCloseBindSockets` |

In the console server one thread does everything. A handler writes the header and queues a routine;
the routine sends a block per turn of the loop; when the socket is full it puts
the socket into the write set and waits until `select()` takes it out. The
routine array and the sets are shared by the loop, the handlers and the
routines, and all three are keyed by a descriptor number that the operating
system reuses as soon as it is closed. The graphical server runs the same loop in
a second thread; its callbacks send messages to controls that only the window's
own thread can answer.

What is hard: sockets that take part of the data; clients that close, reset or
stop reading between any two steps; descriptor reuse; deletion from the array
while it is walked; a second request on a connection whose first routine is
still there; everybody sharing one loop; in the graphical server, callbacks that
are attached and detached while the other thread calls them, and a window that
closes under a running server.

### Client (DL)

| Component | State | Operations |
|---|---|---|
| receive buffer, `client/recvbufr.c`, `client/io.c` | bytes received, transfer mode (unknown, token, known, chunk, complete) and counters, socket | `recvBufferSend` (reuse, reconnect, retry), `recvBufferAppend`, `recvBufferFindAndFetch`, `ioHttpResponseHeaderRead` |
| HTTP site, `client/site/http.c` | one keep-alive connection, working directory, one open file, one open listing | mount, change directory, stat, open, read, directory listing and stat of its entries |
| file site, `client/site/file.c` | working directory, one open file | change directory, stat, open, read, write |
| site array, `client/site.c` | sites, active site for reading and for writing | add, remove, select, look up by host |
| queue, `client/queue.c` | entries with state and pointers to two sites | append, search, remove, download in three modes |
| shell, `cli/dl.c` | the two arrays above | `MOUNT`, `UMOUNT`, selection, `CD`, `DIR`, `LS`, `COPY`, `XCOPY`, `QUEUE ...` |
| helpers | none | `client/uri.c` (URIs and paths), `client/xml.c` (elements), `common/hex.c` (escapes) |

What is hard: a connection reused after a response that was not read to its
end; the server closing at any byte; retries; bytes of the body that arrive with
the header; the text of an error behind the answer to a HEAD; a page cut short; short writes; paths
with `.`, `..` and escapes that client and server read differently; indices and
pointers into an array that other commands change.

### What makes each part correct

* send buffer: no byte lost, repeated or out of order.
* routine: what the client has is a beginning of the response; finished means
  delivered; waiting means there is something to send.
* server: a routine and the sets refer to the connection they were made for; no
  client sees another's bytes; the loop never dies, starves or leaks a client.
* receive buffer: only data is decoded, in order; complete means whole; the
  connection is dropped only while nothing was handed out.
* download: a file holds only bytes of the response asked for; finished means
  complete; START overwrites nothing; a command ends.
* browsing: the working directory is one the server confirmed and the one the
  user's path means; a listing shows nothing else than what is there, and its
  types; a call fails only for a reason.
* shell: an entry keeps meaning what it meant; removal is exact; an active index
  goes on meaning the site that was chosen, or a near one.
* graphical server: the statistics are those of the server; the window closes.

## 2. Modules

| Module | Models | Composes |
|---|---|---|
| `SendBuffer` | `sendbufr.c` as operators on the struct; what `send()` did is an argument | |
| `SendBufferSpec` | one buffer, a caller and a socket that does anything | `SendBuffer` |
| `Routine` | the cases of `RoutineTick` as operators on the struct | `SendBuffer` |
| `RoutineSpec` | one response and a socket that does anything | `Routine` |
| `Server` | `serverTick`, handlers, array, sets, descriptor table, clients | `Routine` |
| `Download` | the queue commands, the two sites, the connection, the server | |
| `RecvChunk` | the receive buffer in chunk mode, its two readers, the server's stream | |
| `ChunkedBody` | abstract: what a reader of a chunked body may count on | |
| `Uri` | `uri.c`: parts of a URI and paths, as operators | |
| `Shell` | the commands that change the site array, the working directories and the queue | `Uri` |
| `Browse` | the HTTP site's mount, working directory and listings, `io.c`, `hex.c`, and the pages and answers of the server | `Uri` |
| `Gui` | both windows, the server's thread, `event.c`, the callbacks, the choice of a port | |
| `Poll` | `poll.c` and its arrays, with routines that count blocks | |
| `SendBufferProofs` | proofs about the buffer | `RoutineLemmas` |
| `RoutineLemmas`, `RoutineProofs` | proofs: `SubSeq`, concatenation, `First` and `Drop`, the buffer's and the routine's operators; one response | |
| `ServerProofs` | proofs about the loop, with one and with several requests on a connection | `RoutineLemmas` |
| `GuiProofs`, `DownloadProofs`, `RecvChunkProofs`, `BrowseProofs` | proofs about the graphical server, the queue, the chunk decoder and browsing | |
| `MC*` | instances for TLC | |

Functions of the code keep their names. Structs are records; a C function that
changes a struct is an operator from the old record to the new one. The
outcome of a system call is a record `net` with the number of bytes taken and
whether the call failed; `*Outcome` sets give every outcome the call may have.

**SendBuffer.** `open` is `buffer != NULL`, `stream` the content of the memory
stream, `idx` the seek position, `fail` the flag `SOC_BUF_ERR_FAIL`.
`FlushOutcome` describes the whole loop of `sendBufferFlush`: it stops anywhere,
but can fail only between two blocks. Several writes in a row (header lines)
are one write that may fail after some bytes (`SendsOutcome`).
`SOC_BUF_ERR_FULL`, which the header promises, is never set in the code and is
not in the model.

**Routine.** `left` is what remains to be read: file bytes, or one element per
directory entry and one for the footer. A file read error is left out, and so is
a file that becomes shorter while it is sent.

**Server.** A server step is one turn of a loop of the code, so clients act
between the routines of one tick, before `select()`, and between two descriptors
of the scan. Inside one handler they do not, except where it makes a difference
to the result: `FlushedAfterDrain` is the client that reads between the write
and the flush of `httpHeaderHandleError`. A request is one message whose kind
decides what the handler does: `file`, `fileHead`, `unreadable` (fopen fails),
`dir`, `dirHead`, `special` (neither file nor directory), `notModified`,
`missing`, `tooLarge`, `malformed` (which is also what the tail of a split
request looks like). What a handler returns decides whether the connection is kept:
`handlePath` returns the number of the method, so a special file keeps it for a GET
(0) and closes it for any other (`HandleSpecial`). `handleConnection` takes everything that has arrived and
answers the first request. Each response byte is a pair of the connection and a
number, so bytes of different responses never look alike.

**Download.** The connection is a sequence of elements: one for the header of a
response, one for each byte of its body. `ReadHeader` takes everything up to the
first header it meets, as the search for an empty line does. `recv()` may bring
more than asked for with the header. `ServerCloses` cuts the connection
anywhere. A listing (kind `page`) is chunked. `ParsePage` is what becomes of the part
that came with its header, in `HttpChunkParseExistingBuffer`: it is through, it drops
the connection, it waits for a size line that may never come (`waiting`, which only
a close ends) or it reads one that is no number for ever (`spinning`). How
the page has to be divided for each is in `RecvChunk`. A write may be short (`siteFileWrite`):
nobody notices, and a later block is written behind the gap.

**RecvChunk.** How that chunked body is decoded. A byte is CR, LF, a digit or
a numbered data byte, and the stream is what the server's own chunk writers
produce. `Init` gives any number of its bytes to the buffer, as the search for
the end of the header does; `ParseHeld`, `ParsePull`, `ParseStale` and
`ParseDone` are the turns of `HttpChunkParseExistingBuffer`, `Iterate` and
`ChunkHead` the two halves of the loop of `recvBufferAppendChunk`. A step ends at
a `recv()` that has to wait, so the server sends, closes or resets between any
two of them. Where the parser reads behind the end of its buffer (`ParseStale`),
every outcome is allowed. The radix and the look-ahead `PEEK` are constants,
16 and 19 in the code. `FileRead` is a download, `PageRead` the directory parser.
It implements `ChunkedBody`: what was decoded grows by pieces of the content,
it is complete with all of it, it is given up only before anything was
handed out, and a reader that finds the end was handed everything. `decoded` is
what was handed out and what waits in the buffer; while the parser is at work on the
buffer, only the part of it that the parser has been through.

**Uri.** A string is a sequence of characters; a word in which nothing is ever
looked for is one character. `AppendLoop` is the loop of `uriPathAbsoluteAppend`,
`AppendTurn` one turn of it with its jumps. Where the code reads a character nobody wrote (`append[3]` of
`".."`, `r[0]` when a path goes up at once) the result is a set with every outcome.
`Components` is the reference: what a path means.

**Shell.** A site is its address in parts. A site pointer is a heap block and an
index; `block` counts the moves of `realloc()`. Each command of `ProcessCommand`
that changes state is an action, grouped by the three `switch` statements; what
only prints is left out unless it follows a NULL pointer. The model ends where the
program does (`Ends`): EXIT, CD, DIR or PWD without an active site, an unknown
host compared with a mounted one, an entry without a source site, QUEUE REMOVE
without a match, and the double free of the last entry. QUEUE REMOVE is the loop of
the code: the results of up to two search texts are collected by
`queueEntryArrayAppend` (`Hits`, with a number read as a place or, when `errno` was
left set or the number is 0, as text), then each is searched for again in what the
queue is by then and taken out (`queueEntryArrayRemove`). Text searches stop at an
entry whose pointer leads nowhere. Whether a server accepts a remote CD is left
open here; that is the business of `Browse`. `meant` remembers what COPY resolved, `chosen`
which sites the user selected.

**Browse.** One action is one call of the shell on one HTTP site: mount, CD, the
opening of a listing by DIR or LS, one turn of their loops, the close. A connection
is a sequence of pieces: a header, the text of an error, a page, a file, a rest, the
line break that ends a page. In an action the request is sent and answered; how much
of the answer comes with the header is left open, and what is not read meets the
next request. A request on a connection the server closed is lost, and whether the
client notices before it meets older bytes is a choice (`recvBufferSend`).

`Bodies` is what becomes of a body behind its header. A page read to its end
leaves its last line break on a connection that counts as complete. It may as well
be cut short after any number of its entries: because the receive buffer refused a
size line in two pieces, the connection went away, or an element has no end or no
address. What was found is then the listing (`http.c:326`). Where
the page came wholly with its header the call waits in the parser of the buffer
(`listing.idx = 0`) until the server closes (`ListingWaitEnds`), or for ever. Why
each happens is in `RecvChunk`.

A page is a sequence of
elements, written as `server/http.c` and `routine.c` write it (style `TH`), with
links by name, a query and an `<ADDRESS>` (`relative`), or with whole addresses
(`absolute`); the last two are external. Addresses are escaped and unescaped
character by character, since client and server do it differently. Files
disappear and the server restarts between two calls. `home` is what the server
took the working directory for, `last` the last call and its outcome.

**Gui.** The window's thread (`gui`) goes from the dialog through the creation of
the connection window, callback by callback, the message loop and `WM_DESTROY`,
line by line. The server's thread runs the loop of `select.c` reduced to the
events it reports; `Invoke` and `Call` are the test and the call of a callback,
which may read the pointer twice. `UpdateList` and `UpdateLabel` are the messages
a callback sends: they wait for the window's loop, unless the control is gone.
`getpeername()` on a reset connection gives any address (`Address`). The counters
have `CounterSize` values and wrap. `platformBindPort` is the scan of the port
list, with its step over the character behind a comma.

**Poll.** The phases of `serverTick` of `poll.c`, one array element per step.
`OutReported` is whether `POLL_OUT` is `POLLOUT`: FALSE on POSIX systems, where
`<signal.h>` has defined the name before. The array functions are right for one
element; what they do with more is undefined, and a behaviour ends there.

## 3. Runs

Passing runs:

| Run | Instance | Shows |
|---|---|---|
| `send_buffer` | 2 bytes, writes up to `MaxWrite`, block 2 | nothing lost |
| `routine` | every kind, block 2, bodies longer than two blocks | a beginning of the response is delivered; a finished file is whole; a deferred routine has data |
| `server` | 2 clients, 2 descriptors, 1 request each of all kinds, not patient, fairness of the loop | consistency of array, sets and descriptors; stream integrity; the loop survives; requests read, readers served, routines released |
| `server_keepalive` | 2 clients, 2 requests each, patient, a header of two sends | with two routines on a socket, leftovers are silent |
| `download` | 2 entries, 2 commands, 2 faults, both sources | own bytes, own header, complete unless a fault hit, no clobber, commands end outside the parser of a page |
| `recv_chunk` | bodies of 0 to 2 chunks, sizes of 1 to 3 digits, both readers | only data is decoded and all of it in order; complete means whole; implements `ChunkedBody`; which streams are refused; when a reader ends |
| `shell` | 3 mounts of a server, of an alias with another port, and of an unknown host, 2 unmounts, 1 move, 4 sites and entries, 3 search texts | entries lead back to what was resolved, exact removal, how far an active index drifts |
| `browse` | 9 nodes, 4 addresses, 8 paths, 3 page styles, 1 removal or restart | working directory confirmed and right, listings show nothing else and, if read to the end, everything, types true, failures only after an error or a line break left |
| `gui` | 2 clients, 2 requests, 1 reset, 2 port lists, codes 200 and 404 | connections, rows and transfers exact; the window closes |

Runs that must find a violation, each of a sentence of the repository
(section 6): `server_keepalive_lost`, `download_update`, `poll_defer`.

`TypeOK` of `Server` and `Download` is proved (section 4), that of `RecvChunk`
documents the ranges of its variables; the runs spend their time on the
invariants that use them.

**Bounds.** `SB_DATA_SIZE` is 2 and the data several blocks long, so that sends
end inside, at and after a block. `Cap`, the room in a connection, is smaller
than a response, so that every routine has to defer. In `server` a header is one byte:
its safety is proved for every length (section 4), and the fairness costs the time
a longer one would take; headers sent in parts are in `server_keepalive`. Two connections and two
descriptors are the smallest instance in which a number is reused while an old
routine may still hold it; one request per connection is enough for everything
but keep-alive, which has a run of its own. `DirMax` is 2 with a longer
directory, so that there is a batch that is not the last. In `Download` a file
is longer than a block, two entries share a connection, and two faults allow a
failed recovery; `HeaderMax` is shorter than a body, so that a search for a
header fails in both ways. In `RecvChunk` the radix is 2, so that small sizes
have several digits; `PEEK` is 8, longer than any line break, size line and
line break of these bodies, as 19 is in the code, and `MaxPre` covers the longest
stream, so that the header brings any part of the body; `SB_DATA_SIZE` is 3,
shorter than the longest chunk. In `Browse` the tree has a file and a directory of
the same depth, a directory in a directory, a hidden file, a name with an escape
and one with a space; `MaxPath` 5 lets a path go two directories down and up
again; one change is enough, since every other fault (an error's text, an unread
rest, a page cut short, a line break left) comes from the calls. `OutOfStep` bounds
`Browse` in another way: a listing refused behind a left line break leaves its own
page on a connection the client goes on to use, whose blank line ends the next
header, so that every answer is taken for that of another request until something
makes the client reconnect. The client is followed up to that state, and makes no further
call there (section 6). In `Shell` two names of one address and two ports give
every confusion of the lookup; three sites and two unmounts give a removal below, at
and above the active one and an index that comes to life again. `MaxHeld` bounds
sites and queue entries together: up to three entries with one site, so that
the second removal of a loop meets a shifted array. The search texts are two numbers
and one text that matches some of the entries, alone and in pairs. In `Gui` `CounterSize` is 4, more than there are clients, so that a
counter below zero shows. In `Poll` two blocks on a socket that takes one make the
transfer defer. The bounds on counters (`MaxRequests`, `MaxCommands`,
`MaxFaults`, `MaxSites`, `MaxUmounts`, `MaxMoves`, `MaxHeld`, `MaxChanges`,
`MaxPath`, `MaxConnections`) are in the guards.
No symmetry is used: `accept()` hands out the lowest descriptor.

`Patient` (a client sends its next request, or closes, only when it has been
answered) is an assumption on clients, not on the server. Without it, two
requests in flight give two routines that interleave on one socket, which the
code does not claim to support. With it, a routine may still be left behind by
`RoutineArrayDelSocket`, but it has nothing to send (`OrphansSilent`, proved for any
number of requests in section 4).

**Deadlock** is not checked where the clients or the user may stop and the
system then rests: a server without clients goes on looping without a change of
the model's state.

**Fairness.** `Server!FairSpec` is weak fairness of `ServerStep` as a whole: the
loop in `serverTick` runs for ever, and `select()` is given a timeout, so the
next step always comes. Nothing is assumed of clients, except that `ReaderServed`
has a premise about the one client it speaks of: that it goes on reading.
`Download!FairSpec` is weak fairness of the client's steps: the program is one
thread. `recv()` on a connection that is open and silent is polled for ever
(there is a TODO in `recvbufr.c`), so the external server is taken to answer or
to close; `CommandEnds` is relative to that. It names the places where the program
does stay: the wait and the loop in the parser of a page that came with its header.
Nobody makes a server close a connection, so that the wait is not assumed to end. `RecvChunk!Spec` has weak fairness of
the client's steps for the same reason and of `Arrive`: a server that neither
closes nor resets sends what it has. `Gui!Fairness` is weak fairness of each of the
two threads: the system schedules both. No user has to click, not even to dismiss
a message box, and no client has to do anything. `Poll!Fairness` is weak fairness of
the loop and of a client's reading: `DeferredResumes` is about clients that read.

## 4. Theorems

All are proved for every value of the constants that satisfies the assumptions
named in the modules, with no bound on the data: `SbDataSizeAssumption` and
`DirMaxAssumption` (a block and a batch are not empty), `WriteBounds`,
`ResponseAssumption`, `ServerAssumption` (finitely many clients and descriptors,
and a descriptor for each client), `ByteAssumption` (a byte of a response is
labelled with its connection and its place), `CounterAssumption`,
`ClientAssumption`, `NullAssumption`, `DownloadAssumption`, `ChunkAssumption`
(bodies are sequences of chunks that are not empty) and `BrowseAssumption`
(addresses and paths are strings, and `NULL` is none).

**Send buffer** (`SendBufferProofs`)

* `BufferCorrect`: `Spec => []IInv`. `NothingLost` alone is not inductive: that a
  flush appends to `delivered` exactly what leaves `Pending` needs `idx` inside
  the stream and an empty stream behind a closed buffer, which is `StreamShape`.
* `BufferTyped`, `BufferLosesNothing`: `accepted = delivered \o Pending(sb)`, always.

**Routine** (`RoutineProofs`)

* `RoutineInvariant`: `Spec => []RInv`. `RInv` is `Sound`, a predicate on a routine
  and the connection it writes to: delivered, pending and unread bytes together
  are the response as long as no error was seen, the buffer is open only with
  data in it, and each state implies something about them.
* `RoutineTyped`, `RoutineSkipsNothing`, `RoutineDeliversPrefix`,
  `FileFinishComplete` and `DeferredHasData` follow.

The argument rests on the lemmas of `RoutineLemmas`: first sequences, and what
one write or one flush does to the pair of delivered and pending bytes, whatever
the socket did; then the routine (each case of `RoutineTick` preserves `Sound`,
stated for any connection, so that `RoutineProofs` and `ServerProofs` share them).

**Server** (`ServerProofs`), for one request on each connection
(`MaxRequests = 1`), and otherwise any clients: they connect, stop reading, close
and reset between any two steps of the loop, and descriptors are used again.

* `ServerInvariant`: `Spec => []SInv`. None of the properties below is inductive by
  itself; `SInv` has these parts:
  - `Typed`, `Window` (the kernel holds at most `Cap` bytes), `Distinct` (a connection
    has one descriptor or one place in the backlog), `Watched` (the sets hold
    open descriptors only), `Reported` (what `select()` reported still holds when
    the scan reaches it, although clients went on in between);
  - `OneRequest` and `OneEach`: before a request is handled nothing is sent for it,
    and a connection has at most one routine;
  - `Served`: each routine's descriptor belongs to its connection, the routine is
    `Sound` for what is on the wire and the answer to the request, a failed one
    has lost its connection, and a deferred one whose socket has left the write
    set has room to send. The last part is what `FailOnlyIfLost` needs: a flush
    that takes nothing is a failure in the code, so it must never meet a full socket;
  - `Streams` and `DeferredOwned`.
* `ServerTyped` (also `taken` never runs ahead of the wire), `RoutineOwnsItsSocket`
  (`OwnerAlive`), `StreamsIntact` (`StreamIntegrity`), `DeferredSocketsOwned`,
  `FailuresReal` (`FailOnlyIfLost`), `ServerGoesOn` (`ServerSurvives`), and the action
  property `FilesNotAbandoned` (`NeverAbandoned`), which is a part of every step's
  lemma, since it speaks of the routine before and of the wire after the step.

The hypothesis is about the code, not about the prover: with a second request on a
kept connection `OwnerAlive` is false (a leftover routine may outlive its
connection), and so is `FailOnlyIfLost` (section 6, `server_keepalive_lost`).

**Server, kept connections** (`ServerProofs`), for any number of requests on a
connection and clients that are `Patient` (section 3).

* `PatientInvariant`: `Spec => []PInv`. A connection may now have several routines
  in the array, and one of them may outlive its socket, so `OneEach` and the
  ownership in `Served` are lost. In their place:
  - `Numbered`: each request answered adds at most `Longest` bytes to the answers, so
    that the numbers of the bytes do not run out;
  - `Attended`: a client goes on, or away, only when it has read all of its answers;
  - `AtWork`: every routine is `Quiet` (sound for the empty response: it has nothing
    buffered, nothing to read and has not failed), or it is the only one on its
    connection that is not, and then its descriptor still belongs to that
    connection and it is sound for the wire and the answers.
* The argument: a client that sends a request, closes or resets has been answered,
  so that no routine of its connection is at work at that moment. Whichever routine
  `RoutineArrayDelSocket` then removes or leaves behind is quiet, and it stays quiet
  in every later turn, whoever owns its descriptor by then. A turn of
  `RoutineTick` is followed once for any response (`Turns`, `Advances`); a quiet
  routine is the case of the empty one.
* `KeepAliveTyped`, `KeepAliveStreamsIntact` (`StreamIntegrity`), `OrphansNeverSend`
  (`OrphansSilent`), `KeepAliveDeferredOwned` (`DeferredOwned`) and `KeepAliveGoesOn`
  (`ServerSurvives`) follow.

`SInv` and `PInv` share `Base` (types, window, descriptors, sets, streams), whose
lemmas are proved once for both. For clients that are not patient, two
requests in flight give routines that interleave on one socket; nothing is
claimed.

**Graphical server** (`GuiProofs`), for any number of clients, any ports and any
size of the counters.

* `GuiInvariant`: `Spec => []GInv`. Between an event in the server and its message
  in the window, label, list and server differ; `GInv` says by what. The counters
  and rows account for `Shown`, the open connections without the one whose accept
  has not been told and with the one whose close has not. `Building` says what the
  two threads may see of each other while the window is created, `RowRight` what a
  row shows while the events of its connection are told.
* `ConnectionsCounted`, `RowsMatch`, `TransfersCounted` follow: between two events
  nothing is pending.

**Download** (`DownloadProofs`), for queues and files of any length, any block
size, commands and faults.

* `DownloadInvariant`: `Spec => []DInv`. `OwnBytes` needs to know where each byte in
  the buffer and on the connection comes from: `Wire` (a header is on the
  connection only between a request and the search for it, and its own body
  follows), `Clean` (without UPDATE a connection that is used again is empty),
  `Body` (buffer and connection continue the body where it was left) and
  `Copied` (the file's bytes are of one response, in order, up to that place, and
  all of them are there unless a write was short).
* `OnlyOwnBytes`, `HeadersOwn` (`HeaderOwnUnlessUpdated`), `FinishedComplete`
  (`FinishedUnlessSpoiled`), and the action property `StartClobbersNothing`
  (`NoClobber`), which needs `Walking`: while a download of START is under way, its
  destination did not exist when it began.

**Receive buffer** (`RecvChunkProofs`), for bodies of any number of chunks of any
size, any radix, any look-ahead, and a stream that is cut anywhere.

* `ChunkInvariant`: `Spec => []RInv`. What the reader was given and what is in the
  buffer (`Got`) is, in every state, the content up to the end of some chunk i, then
  a tail; behind it buffer, connection and server together hold the stream from
  there (`Flows`, `InStream`). Which tails there are depends on the program counter:
  `Parsing` while the buffer still holds framing, `Reading` afterwards, when the
  framing is on the connection only. `GaveUp` and `ResetEmpty` say what is left
  after a refusal and after a reset.
* `ChunkImplementsBody` (`BodySpec`): every step is a step of `ChunkedBody` or a
  stutter, with `Decoded` for what is decoded. That these are a part of the content
  in every state, and only ever grow until the transfer is complete or given up, is
  what `RInv` is needed for.
* `ChunkDecodes` (`DecodesPrefix`), `ChunkCompletes` (`CompleteWhole`), `ChunkInStep`
  (`InStep`), `ChunkNoFalseAlarm` (`NoFalseAlarm`) and `ChunkTyped` follow.
* The lemmas that carry it: `HexSize` (reading the digits that were written for a size
  gives the size), `SizeLineSeen` (the first line break of the stream is the one
  behind the size) and `LineOut` (taking a size line out of the buffer leaves
  content followed by the rest of the stream). They need inductions over digits
  and chunks. The library's induction theorems take an operator, which the provers
  cannot instantiate; `UpTo` states induction for a set of numbers instead (the
  least number outside it, by `WFMin`), and `Recursion` gives the values of the
  recursive functions `Ends`, `HexToSize` and `Onward`.

**Browsing** (`BrowseProofs`), for any tree, addresses, paths, removals and
restarts, and each style of pages.

* `BrowseInvariant`: `Spec => []BrowseInv`. `Left` says what a call may find in the
  buffer and on the connection where the last transfer is marked complete: nothing,
  the text of the error that the call before met, or the line break of a page
  that was read to its end; where it is not, `recvBufferSend` reconnects. Each call is
  followed through the sending, the header and the reading of its answer
  (`recvBufferSend`, `ioHttpResponseHeaderRead`, `Bodies`), for every way in which a
  page may be cut short.
* `ErrorsExplain` (`FailuresExplained`) follows: a call can only meet bytes that
  are not its answer when such a text or such a line break was left. Both are about
  the client as long as answers are in step (`OutOfStep`, section 3).
* `CwdConfirmed` (`CwdServed`) is about text. `fullUri` is the only memory of the
  working directory, and every call takes it apart, changes its path and puts it
  together again. `Mounted` says that it is always what `uriDetailsCreateString`
  wrote of parts that can be told apart (`Separable`), and that `home`, what the
  server found, is its path. `ReadBack` is the lemma behind it: what
  `uriDetailsCreateString` writes, `uriDetailsNewFrom` reads as the same parts.
  `AppendChars` says that `uriPathAbsoluteAppend` adds no character of its own but
  `/`, or gives a text that nobody wrote, so that a path the server confirms stays
  separable.
* The hypothesis `NoQuery`, that no path the user types has a `?` (one set of paths
  serves CD, DIR and LS; only CD needs it), is about the code.
  With a directory `b?a` and `CD b?a` the server answers for that directory, but
  the address is read back as the path `/b` with a query: TLC finds the property
  false. Addresses given to MOUNT may have a query, which is a part of its own.

`SInv`, `PInv`, `GInv`, `DInv`, `RInv` of `RecvChunkProofs`, and `BrowseInv` and
`Mounted`, were checked by TLC on the instances of `server`, `server_keepalive`,
`gui`, `download`, `recv_chunk` and `browse` before they were proved.

## 5. Checked by TLC only, and left out

Only model-checked:

* all liveness, here and in the refinements: the prover has no fairness and no
  `ENABLED`;
* `CdResolves`, `ListingExact` and `StatTruth` of `Browse`: the first compares
  `uriPathAbsoluteAppend` with what a path means (`Components`, a fold), the others
  say that a page survives being escaped, written, parsed and unescaped. Both are
  inductions over text against a second recursive definition, longer than those
  of `AppendChars` and `ReadBack`;
* `Shell`: `RemoveExact`, `ActiveDrift` and `EntriesLeadBack`. The last one
  holds for addresses as in its run only: with `COPY ..` from the trunk, or a site
  of another scheme, TLC finds it false, so that a theorem about every address
  needs a hypothesis on each of them;
* `Poll`: the array functions are right for one element only, so that there is
  little to say of every value of its constants.

Left out:

* the `TH_TCP_NEVER_REUSE` build; failure of `accept()` (there are as many
  descriptors as connections); allocation failure.
* the bytes of requests and headers: `handleConnection` reads a request whole, so
  that requests split over reads or joined in one are not modelled;
  ranges (`httpHeaderReadRange`) and dates are pure functions without a model.
* `ioHttpBodyChunkStrip`, which only a test calls; the extraction of attributes
  in `xml.c`, whose result is a field of the modelled element; the listing of a
  local directory, a loop over `readdir()`.
* the platform layer except the functions named above: wrappers, seen through
  the code that calls them. `doswatb.c` is the DOS variant of the same wrappers.
* the failure of `realloc()` when the queue shrinks (`queue.c:72`), like all allocation
  failures;
* the layout of the windows and the dialog that picks a directory.
* a signal during `select()`: it makes the call fail and the server exits, as
  `PLATFORM_SHOULD_EXIT` or `shutdownProgram` intends.

## 6. Disagreements between the code and its documentation

Shown by runs:

1. `server_keepalive_lost`: a client reads an answer to its end and sends its next
   request on the same connection, while the routine of the first answer is still in
   the array (an older routine was deleted in front of it, so that a pass of
   `RoutineTick` stepped over it). When it goes, `serverDeferredSocketRemove`
   takes their common socket out of the deferred set. The newer routine had met a
   full socket; its next flush sends nothing, which counts as a failure
   (`routine.c:247`), and the file of a client that is only slow is given up. Two
   clients are enough when a connection has room for two bytes.
2. `download_update`: QUEUE UPDATE skips what is newer and overwrites with what
   is older.
3. `poll_defer`: built with `poll()` on a POSIX system, a transfer that met a full
   socket never goes on.

Seen while modelling, part of the models, without a run of their own. Server:

* a directory listing is cut when its last flush meets a full socket, while
  `sendbufr.h:48` asks for a flush before a buffer is freed (`routine.c:74`);
* a second request on a kept connection may add a second routine for its socket,
  which a comment in `routine.c` rules out (`OrphansSilent`, disagreement 1);
* `PollArrayAdd` and `PollArrayDel` resize `servePoll` whichever array they are
  given, and index the pointer instead of the array from the second element on;
  the entry of a deferred socket that is closed stays (`poll.c:35, 61, 101`);
* `platformBindPort` never tries the port behind the last comma, although
  `platform.h:131` describes a list, and reads past a text that ends with a comma;
* `platformCloseBindSockets` closes the numbers 1 to n, not the sockets;
* the graphical server takes the network and the root path away under the running
  thread (the wait is commented out, `wrunserv.c:378`); a callback may be called
  after it was set to NULL (`event.c:28`); events before the list is assigned are
  lost (`wrunserv.c:272`); a HEAD counts as a transfer for ever.

Receive buffer and download:

* a body cut by the server is a finished download, while `queue.h:20` calls that
  state "successfully downloaded" (`FinishedUnlessSpoiled` says that only a fault
  does it);
* a last chunk that came with the header is not recognised: the parser waits for
  another size line, and throws the page away when the server closes
  (`lastHeld` in `ReaderEnds`);
* a size of two or more digits that arrives in two pieces is reported as malformed
  (`NoFalseAlarm`);
* a buffer that ends between the CR and the LF behind a chunk makes
  `recvBufferFetch` read past its end (`ParseStale`);
* the line break that ends a chunked body stays on a connection that is marked
  reusable, in front of the next header (`CompleteWhole`; what follows from it is
  under browsing);
* a page that came with its header may never let the command go: the parser waits
  for a size line behind the last chunk (`recvbufr.c:599`), or reads one that is no
  number again and again (`recvbufr.c:588`); `CommandEnds` and `ReaderEnds` except it;
* `fwrite()` that takes less than it was given is not an error (`file.c:330`): the file
  is marked finished, with a gap if there was room again later;
* a chunked file is marked finished when the next size line is late, because the
  read returns 0; at the end of the stream in the middle of a chunk the page
  reader goes on asking;
* a copy within the local site ends with an empty file marked finished (one
  `FileSite` has one open file), hence `FinishedUnlessSpoiled` speaks of HTTP;
* the stat of QUEUE UPDATE leaves its body on the connection
  (`HeaderOwnUnlessUpdated` says when a header is the right one).

Shell and browsing:

* `..` that reaches the trunk forgets the rest of the path: from `/a`, `../b` is
  `/`, while a test (`test/fetch.h:555`) says that going up still allows to go to a
  path afterwards (`trunk` in `CdResolves`);
* CD into a file succeeds, because a file is not told from an unknown answer; a
  directory whose address needs an escape lists as empty; DIR shows an entry that
  is gone as a directory; a name with a space asks for another node;
* the first call after an error answered to a HEAD fails, since the error's text
  stands in front of its answer (`FailuresExplained`);
* after LS of a page that was read to its end the next call that looks at a status
  (CD, DIR, LS) fails, since the line break left behind stands in front of its
  answer; in DIR the stat of the first entry consumes it, and nobody reads its status;
* when that next call is another listing, its page stays on the connection, which
  counts as complete; its blank line ends the next header, and answers are taken for
  those of other requests until the client reconnects (`OutOfStep`);
* a listing cut short is shown as if it were all (`http.c:326`; `ListingExact`);
* a `?` in a path given to CD: the server is asked for the whole name, and the
  working directory is then read back without what follows the `?` (`NoQuery`);
* queue entries point into an array that MOUNT reallocates, while `queue.h:35`
  has them hold enough to recreate their URIs (`EntriesLeadBack` ends there);
* sites are found by address without the port, HTTPS sites never, and an unknown
  host is compared as a NULL string (`site.c:77-130`); CD, PWD and DIR with a path
  do not ask whether a site is active;
* DIR and LS of a local path other than `.` never open, because the path is
  appended to the whole URI; an XCOPY after an equal COPY is dropped in silence;
  QUEUE FIND without a match lists everything;
* UMOUNT of a site below the active one makes the next site active, and an index that
  led nowhere means a site again once one is mounted (`ActiveDrift`);
* removing the last queue entry frees it twice; QUEUE REMOVE without a match
  follows a NULL pointer; queue number 0, which QUEUE LIST shows, is searched for as
  text although the help says "by queue id" (`dl.c:350`), and so is any number
  while `errno` is set from an earlier failure (`queue.c:115`).

## 7. Plan

Done, in this order: `SendBuffer` and its proofs; `Routine` and its proofs;
`Server` with its runs; `Download`; `RecvChunk`; `Uri` and `Shell` with
addresses and working directories; `Browse`; `Gui`; `Poll`; `ChunkedBody` and its
refinement; the proofs of `Server` for one request on
each connection and for patient clients with any number, of `Gui`, of `Download`,
of `RecvChunk` and of `Browse`.

Next:

1. `Browse` out of step, with the elements of a page that is read as another answer.
2. Proofs: `CdResolves` and `ListingExact` of `Browse`, and the properties of
   `Shell`, with hypotheses on the addresses.
3. `RequestReader`: `handleConnection` byte by byte: split, joined, oversized
   and closed requests, the limit of `BUFSIZ` and of 50 empty reads.
4. `Range`: `httpHeaderReadRange`, `httpHeaderWriteRange` and the use of the
   result in `handleFile`, checked against a reference definition.
5. The `TH_TCP_NEVER_REUSE` build and a full descriptor table as constants of
   `Server` and `Poll`.
