------------------------------- MODULE Server -------------------------------
(***************************************************************************)
(* The server's single-threaded loop: serverTick (mltiplex/select.c), the  *)
(* request handlers (server.c), the routine array and RoutineTick          *)
(* (routine.c), composed with the send buffers of modules SendBuffer and   *)
(* Routine, the operating system's sockets, and clients that connect, send *)
(* requests, read slowly, close and reset at any moment.                   *)
(*                                                                         *)
(* One step of the server is one turn of a loop of the code: one routine   *)
(* in RoutineTick, the call of select(), or one descriptor of the scan     *)
(* that follows it.  The clients act between any two steps.                *)
(***************************************************************************)
EXTENDS Routine, FiniteSets

CONSTANTS
    Conn,          \* connections clients make; each is used once
    Fd,            \* descriptors accept() hands out, lowest free first
    None,          \* not a connection: the descriptor is closed
    Cap,           \* bytes of a connection the kernel holds until the client reads
    HeaderLen,     \* bytes of a response the request handler writes itself
    FileLen,       \* bytes of the file that is served
    DirLen,        \* entries of the directory that is served, plus the footer
    Request,       \* the requests clients send
    MaxRequests,   \* bound: requests a client sends on one connection
    Patient        \* a client sends its next request, or closes, only when it has been answered

RequestKind ==
    {"file", "fileHead", "unreadable", "dir", "dirHead", "special", "notModified",
     "missing", "tooLarge", "malformed"}

ASSUME ServerAssumption ==
    /\ Fd \subseteq Nat \ {0} /\ None \notin Conn
    /\ IsFiniteSet(Conn) /\ IsFiniteSet(Fd) /\ Cardinality(Conn) <= Cardinality(Fd)
    /\ {Cap, HeaderLen, FileLen, DirLen, MaxRequests} \subseteq Nat \ {0}
    /\ Request \subseteq RequestKind
    /\ Patient \in BOOLEAN

(* A byte of a response is labelled with its connection and its place in   *)
(* all that is answered there.                                             *)
ASSUME ByteAssumption ==
    Conn \X (1..MaxRequests * (HeaderLen + FileLen + DirLen)) \subseteq Byte

Listen == 0   \* the listening descriptor, below every client's

VARIABLES
    routines,     \* globalRoutineArray: each a Routine, its clientSocket, and whom it answers
    readSet,      \* serverReadSockets, without the listening socket
    deferred,     \* serverWriteSockets
    pc,           \* "tick", "scan", or "exit" after select() failed
    idx,          \* RoutineTick's loop index
    readyRead,    \* descriptors of the scan still to be handled: readable ...
    readyWrite,   \* ... and writable
    table,        \* the process's descriptor table
    backlog,      \* connections waiting for accept()
    inbox,        \* requests a connection has received and the server not yet read
    wire,         \* every byte the server sent on a connection
    taken,        \* how many of them the client has read
    eof,          \* the client has closed its side
    broken,       \* the client has reset the connection
    asked,        \* history: how many requests the client sent
    answers       \* history: the bytes of the responses begun on a connection

serverVars == <<routines, readSet, deferred, pc, idx, readyRead, readyWrite, table>>
netVars == <<backlog, inbox, wire, taken, eof, broken, asked, answers>>
vars == <<serverVars, netVars>>

Init ==
    /\ routines = <<>> /\ readSet = {} /\ deferred = {}
    /\ pc = "tick" /\ idx = 1 /\ readyRead = {} /\ readyWrite = {}
    /\ table = [f \in Fd |-> None]
    /\ backlog = <<>>
    /\ inbox = [c \in Conn |-> <<>>]
    /\ wire = [c \in Conn |-> <<>>]
    /\ taken = [c \in Conn |-> 0]
    /\ eof = [c \in Conn |-> FALSE]
    /\ broken = [c \in Conn |-> FALSE]
    /\ asked = [c \in Conn |-> 0]
    /\ answers = [c \in Conn |-> <<>>]

-----------------------------------------------------------------------------
(* The sockets.                                                            *)

Open(f) == table[f] # None

Room(c) == Cap - (Len(wire[c]) - taken[c])

(* What send() does with len bytes on descriptor f: the kernel takes what  *)
(* it has room for; a reset or closed descriptor is an error.              *)
SendOn(f, len) ==
    IF ~Open(f) \/ broken[table[f]]
    THEN [k |-> 0, err |-> len > 0]
    ELSE [k |-> Least(Room(table[f]), len), err |-> FALSE]

Sent(f, bytes) ==
    IF bytes = <<>> THEN wire ELSE [wire EXCEPT ![table[f]] = @ \o bytes]

Readable(f) == inbox[table[f]] # <<>> \/ eof[table[f]] \/ broken[table[f]]
Writable(f) == Room(table[f]) > 0 \/ broken[table[f]]

-----------------------------------------------------------------------------
(* routine.c: the array.                                                   *)

RoutineArrayDelIdx(i) == First(routines, i - 1) \o Drop(routines, i)

(* Mutant: the search ends one routine too early.                          *)
DelSocketButLast(f) ==
    LET matching == {i \in 1..Len(routines) - 1 : routines[i].fd = f}
    IN  IF matching = {} THEN routines
        ELSE RoutineArrayDelIdx(CHOOSE i \in matching : \A j \in matching : i <= j)

(* RoutineArrayDelSocket: only the first routine of the socket.            *)
RoutineArrayDelSocket(f) ==
    LET matching == {i \in 1..Len(routines) : routines[i].fd = f}
    IN  IF matching = {} THEN routines
        ELSE RoutineArrayDelIdx(CHOOSE i \in matching : \A j \in matching : i <= j)

(***************************************************************************)
(* RoutineTick, one routine.  Deleting a routine moves the next one to its *)
(* index and the loop then steps over it: it waits for the next tick.      *)
(***************************************************************************)
Current == routines[idx]

Keep(r) == routines' = [routines EXCEPT ![idx].r = r]

DeleteCurrent ==
    /\ routines' = RoutineArrayDelIdx(idx)
    /\ deferred' = deferred \ {Current.fd}

TickWaiting ==
    /\ Current.r.state = "DEFER" /\ Current.fd \in deferred
    /\ UNCHANGED <<routines, deferred, wire>>

TickFlushing ==
    LET r == Current.r
        net == SendOn(Current.fd, PendingLen(r.sb))
    IN  /\ r.state = "FLUSH" \/ (r.state = "DEFER" /\ Current.fd \notin deferred)
        /\ Keep(IF r.state = "FLUSH" THEN TickFlush(r, net) ELSE TickDefer(r, net))
        /\ wire' = IF r.state = "DEFER" /\ r.sb.fail THEN wire
                   ELSE Sent(Current.fd, FlushSent(r.sb, net))
        /\ UNCHANGED deferred

(* Mutant: the routine defers but its socket is not in the set.            *)
TickFileForgetsDefer ==
    LET r == Current.r
        net == SendOn(Current.fd, Len(Block(r)))
        s == TickContinueFile(r, net)
    IN  /\ r.state = "CONTINUE" /\ r.type = "FILE"
        /\ wire' = Sent(Current.fd, WriteSent(r.sb, Block(r), net))
        /\ IF s.state = "FAIL" THEN DeleteCurrent ELSE Keep(s) /\ UNCHANGED deferred

TickFile ==
    LET r == Current.r
        net == SendOn(Current.fd, Len(Block(r)))
        s == TickContinueFile(r, net)
    IN  /\ r.state = "CONTINUE" /\ r.type = "FILE"
        /\ wire' = Sent(Current.fd, WriteSent(r.sb, Block(r), net))
        /\ IF s.state = "FAIL" THEN DeleteCurrent
           ELSE /\ Keep(s)
                /\ deferred' = IF s.state = "DEFER" THEN deferred \cup {Current.fd} ELSE deferred

TickDir ==
    LET r == Current.r
        wnet == SendOn(Current.fd, Len(Batch(r)))
        b == sendBufferWriteData(r.sb, Batch(r), wnet)
        written == WriteSent(r.sb, Batch(r), wnet)
        left == SendOn(Current.fd, Len(written) + PendingLen(b))
        fnet == [left EXCEPT !.k = @ - Len(written), !.err = @ /\ PendingLen(b) > 0]
        s == DirectoryRoutineContinue(r, wnet, fnet)
    IN  /\ r.state = "CONTINUE" /\ r.type = "DIR"
        /\ wire' = Sent(Current.fd, written \o FlushSent(b, fnet))
        /\ IF s.state = "FINISH" THEN DeleteCurrent ELSE Keep(s) /\ UNCHANGED deferred

TickPlain ==
    /\ Current.r.state = "CONTINUE" /\ Current.r.type = "ROUTINE"
    /\ Keep(TickContinuePlain(Current.r))
    /\ UNCHANGED <<deferred, wire>>

TickDelete ==
    /\ Current.r.state \in {"FINISH", "FAIL"}
    /\ DeleteCurrent
    /\ UNCHANGED wire

RoutineTick ==
    /\ pc = "tick" /\ idx <= Len(routines)
    /\ TickWaiting \/ TickFlushing \/ TickFile \/ TickDir \/ TickPlain \/ TickDelete
    /\ idx' = idx + 1
    /\ UNCHANGED <<readSet, pc, readyRead, readyWrite, table>>
    /\ UNCHANGED <<backlog, inbox, taken, eof, broken, asked, answers>>

-----------------------------------------------------------------------------
(* select(): with routines it polls, without it waits at most              *)
(* PLATFORM_SELECT_MAX_TIMEOUT seconds; a closed descriptor in a set makes *)
(* it fail and the server exits.                                           *)
Select ==
    /\ pc = "tick" /\ idx > Len(routines)
    /\ IF \A f \in readSet \cup deferred : Open(f)
       THEN /\ readyRead' = {f \in readSet : Readable(f)}
                              \cup (IF backlog # <<>> THEN {Listen} ELSE {})
            /\ readyWrite' = {f \in deferred : Writable(f)}
            /\ pc' = "scan"
       ELSE pc' = "exit" /\ UNCHANGED <<readyRead, readyWrite>>
    /\ idx' = 1
    /\ UNCHANGED <<routines, readSet, deferred, table, netVars>>

(* The scan looks at the descriptors in ascending order.                   *)
Lowest(S) == CHOOSE f \in S : \A g \in S : f <= g

Scanning(f) ==
    /\ pc = "scan" /\ readyRead \cup readyWrite # {}
    /\ f = Lowest(readyRead \cup readyWrite)
    /\ readyRead' = readyRead \ {f} /\ readyWrite' = readyWrite \ {f}
    /\ UNCHANGED <<pc, idx>>

ScanDone ==
    /\ pc = "scan" /\ readyRead \cup readyWrite = {}
    /\ pc' = "tick"
    /\ UNCHANGED <<routines, readSet, deferred, idx, readyRead, readyWrite, table, netVars>>

(* Mutant: the new socket is not put into the read set.                    *)
AcceptUnwatched ==
    /\ Scanning(Listen)
    /\ table' = [table EXCEPT ![Lowest({g \in Fd : ~Open(g)})] = Head(backlog)]
    /\ backlog' = Tail(backlog)
    /\ UNCHANGED <<routines, readSet, deferred, inbox, wire, taken, eof, broken, asked, answers>>

Accept ==
    /\ Scanning(Listen)
    /\ LET f == Lowest({g \in Fd : ~Open(g)})
       IN  /\ table' = [table EXCEPT ![f] = Head(backlog)]
           /\ readSet' = readSet \cup {f}
    /\ backlog' = Tail(backlog)
    /\ UNCHANGED <<routines, deferred, inbox, wire, taken, eof, broken, asked, answers>>

(* Mutant: the socket stays in the deferred set.                           *)
StaysDeferred(f) ==
    /\ Scanning(f) /\ f \notin readyRead
    /\ UNCHANGED <<routines, readSet, deferred, table, netVars>>

(* A deferred socket is writable again, and nothing came in on it.         *)
Undefer(f) ==
    /\ Scanning(f) /\ f \notin readyRead
    /\ deferred' = deferred \ {f}
    /\ UNCHANGED <<routines, readSet, table, netVars>>

(* handleConnection returned 0: the connection stays.                      *)
StayOpen(f) ==
    /\ deferred' = IF f \in readyWrite THEN deferred \ {f} ELSE deferred
    /\ UNCHANGED <<readSet, table>>

(* Mutants: one of the three clean-ups is missing.                         *)
CloseKeepsRoutine(f) ==
    /\ table' = [table EXCEPT ![f] = None]
    /\ readSet' = readSet \ {f} /\ deferred' = deferred \ {f}
    /\ UNCHANGED routines

CloseKeepsReadSet(f) ==
    /\ routines' = RoutineArrayDelSocket(f)
    /\ table' = [table EXCEPT ![f] = None]
    /\ deferred' = deferred \ {f}
    /\ UNCHANGED readSet

CloseKeepsDeferred(f) ==
    /\ routines' = RoutineArrayDelSocket(f)
    /\ table' = [table EXCEPT ![f] = None]
    /\ readSet' = readSet \ {f}
    /\ UNCHANGED deferred

(* handleConnection did not return 0.                                      *)
CloseSocket(f) ==
    /\ routines' = RoutineArrayDelSocket(f)
    /\ table' = [table EXCEPT ![f] = None]
    /\ readSet' = readSet \ {f}
    /\ deferred' = deferred \ {f}

(***************************************************************************)
(* server.c: the handlers.  handleConnection reads everything that has     *)
(* arrived and answers the first request in it.  The bytes of a response   *)
(* are numbered so that every byte sent in the run is different.           *)
(***************************************************************************)
Bytes(c, from, n) == [i \in 1..n |-> <<c, from + i>>]

Begin(c) == Len(answers[c])

Answer(c, n) == answers' = [answers EXCEPT ![c] = @ \o Bytes(c, Begin(c), n)]

(* The header is written through a new send buffer.                        *)
HeaderBytes(c) == Bytes(c, Begin(c), HeaderLen)
HeaderNet(f) == SendOn(f, HeaderLen)
HeaderBuffer(f) ==
    sendBufferWriteData(sendBufferNew, HeaderBytes(table[f]), HeaderNet(f))
SendHeader(f) == wire' = Sent(f, First(HeaderBytes(table[f]), HeaderNet(f).k))

RoutineArrayAdd(f, kind, sb, n) ==
    routines' = Append(routines,
        [r |-> RoutineNew(kind, sb, Bytes(table[f], Begin(table[f]) + HeaderLen, n)),
         fd |-> f, conn |-> table[f]])

(* Mutant: handleFile adds the routine but reports failure.                *)
HandleFileCloses(f) ==
    /\ SendHeader(f) /\ Answer(table[f], HeaderLen + FileLen)
    /\ RoutineArrayAdd(f, "FILE", HeaderBuffer(f), FileLen)
    /\ table' = [table EXCEPT ![f] = None]
    /\ readSet' = readSet \ {f} /\ deferred' = deferred \ {f}
    /\ UNCHANGED taken

(* Which requests the handlers answer with a routine, and which they       *)
(* answer on the spot.  A buffer that was not flushed is lost with what it *)
(* holds: fileHead returns without flushing.                               *)
HandleFile(f) ==
    /\ SendHeader(f) /\ Answer(table[f], HeaderLen + FileLen)
    /\ RoutineArrayAdd(f, "FILE", HeaderBuffer(f), FileLen)
    /\ StayOpen(f) /\ UNCHANGED taken

HandleFileHead(f) ==
    /\ SendHeader(f) /\ Answer(table[f], HeaderLen)
    /\ StayOpen(f) /\ UNCHANGED <<routines, taken>>

HandleNotModified(f) ==
    /\ SendHeader(f) /\ Answer(table[f], HeaderLen)
    /\ RoutineArrayAdd(f, "ROUTINE", HeaderBuffer(f), 0)
    /\ StayOpen(f) /\ UNCHANGED taken

HandleDir(f) ==
    /\ SendHeader(f) /\ UNCHANGED taken
    /\ IF HeaderNet(f).err
       THEN Answer(table[f], HeaderLen) /\ CloseSocket(f)
       ELSE /\ Answer(table[f], HeaderLen + DirLen)
            /\ RoutineArrayAdd(f, "DIR", HeaderBuffer(f), DirLen)
            /\ StayOpen(f)

(* handleDir of a HEAD request and httpHeaderHandleError take a flush that *)
(* moves nothing for an error and give up, whether nothing was left to     *)
(* flush or nothing could be flushed; 431 is always followed by a close.   *)
HandleAndClose(f) ==
    /\ SendHeader(f) /\ Answer(table[f], HeaderLen)
    /\ CloseSocket(f) /\ UNCHANGED taken

(* Unless the client made room between the write and the flush.            *)
FlushedAfterDrain(f) ==
    LET c == table[f]
        sb == HeaderBuffer(f)
        k == Least(Cap, PendingLen(sb))
    IN  /\ sb.open
        /\ wire' = Sent(f, First(HeaderBytes(c), HeaderNet(f).k + k))
        /\ taken' = [taken EXCEPT ![c] = Len(wire[c]) + HeaderNet(f).k]
        /\ StayOpen(f)

HandleDirHead(f) ==
    \/ HandleAndClose(f)
    \/ /\ FlushedAfterDrain(f)
       /\ Answer(table[f], HeaderLen + DirLen)
       /\ LET sb == HeaderBuffer(f)
          IN  RoutineArrayAdd(f, "DIR",
                  sendBufferFlush(sb, [k |-> Least(Cap, PendingLen(sb)), err |-> FALSE]), DirLen)

HandleMissing(f) ==
    \/ HandleAndClose(f)
    \/ /\ FlushedAfterDrain(f)
       /\ Answer(table[f], HeaderLen)
       /\ UNCHANGED routines

(* Mutant: the end of the input is taken for no input yet.                 *)
EofIgnored(f) == StayOpen(f) /\ UNCHANGED <<routines, wire, answers, taken>>

HandleNothing(f) == CloseSocket(f) /\ UNCHANGED <<wire, answers, taken>>

(* A request for neither file nor directory is left without any answer;    *)
(* the number of its method is the result, so that only a GET, number 0,   *)
(* keeps its connection.                                                   *)
HandleSpecial(f) ==
    \/ StayOpen(f) /\ UNCHANGED <<routines, wire, answers, taken>>
    \/ HandleNothing(f)

handleConnection(f) ==
    LET c == table[f]
        request == IF inbox[c] = <<>> THEN "none" ELSE Head(inbox[c])
    IN  /\ Scanning(f) /\ f \in readyRead /\ f # Listen
        /\ CASE request = "file" -> HandleFile(f)
             [] request = "fileHead" -> HandleFileHead(f)
             [] request = "dir" -> HandleDir(f)
             [] request = "dirHead" -> HandleDirHead(f)
             [] request = "notModified" -> HandleNotModified(f)
             [] request = "missing" -> HandleMissing(f)
             [] request = "tooLarge" -> HandleAndClose(f)
             [] request = "special" -> HandleSpecial(f)
             [] request \in {"none", "malformed", "unreadable"} -> HandleNothing(f)
        /\ inbox' = [inbox EXCEPT ![c] = <<>>]
        /\ UNCHANGED <<backlog, eof, broken, asked>>

ServerStep ==
    \/ RoutineTick \/ Select \/ ScanDone \/ Accept
    \/ \E f \in Fd : Undefer(f) \/ handleConnection(f)

-----------------------------------------------------------------------------
(* External: the clients.                                                  *)

Connected(c) == (\E f \in Fd : table[f] = c) \/ (\E i \in 1..Len(backlog) : backlog[i] = c)

(* The client has read all of every response it asked for.                 *)
Answered(c) == inbox[c] = <<>> /\ taken[c] = Len(answers[c])

Connect(c) ==
    /\ asked[c] = 0 /\ ~Connected(c) /\ ~eof[c]
    /\ backlog' = Append(backlog, c)
    /\ UNCHANGED <<serverVars, inbox, wire, taken, eof, broken, asked, answers>>

SendRequest(c) ==
    /\ Connected(c) /\ ~eof[c] /\ asked[c] < MaxRequests
    /\ Patient => Answered(c)
    /\ asked' = [asked EXCEPT ![c] = @ + 1]
    /\ \E request \in Request : inbox' = [inbox EXCEPT ![c] = Append(@, request)]
    /\ UNCHANGED <<serverVars, backlog, wire, taken, eof, broken, answers>>

Read(c) ==
    /\ taken[c] < Len(wire[c]) /\ ~broken[c]
    /\ taken' = [taken EXCEPT ![c] = @ + 1]
    /\ UNCHANGED <<serverVars, backlog, inbox, wire, eof, broken, asked, answers>>

Shutdown(c) ==
    /\ Connected(c) /\ ~eof[c]
    /\ Patient => Answered(c)
    /\ eof' = [eof EXCEPT ![c] = TRUE]
    /\ UNCHANGED <<serverVars, backlog, inbox, wire, taken, broken, asked, answers>>

Reset(c) ==
    /\ Connected(c) /\ eof[c] /\ ~broken[c]
    /\ broken' = [broken EXCEPT ![c] = TRUE]
    /\ UNCHANGED <<serverVars, backlog, inbox, wire, taken, eof, asked, answers>>

ClientStep == \E c \in Conn : Connect(c) \/ SendRequest(c) \/ Read(c) \/ Shutdown(c) \/ Reset(c)

Next == ServerStep \/ ClientStep

Spec == Init /\ [][Next]_vars

(* The loop in th.c calls serverTick for ever and select() never blocks    *)
(* for good, so the server always takes its next step.  Nothing is assumed *)
(* of the clients.                                                         *)
FairSpec == Spec /\ WF_vars(ServerStep)

-----------------------------------------------------------------------------
Index == 1..Len(routines)

Of(c) == {i \in Index : routines[i].conn = c}

TypeOK ==
    /\ routines \in Seq([r : RoutineType, fd : Fd, conn : Conn])
    /\ readSet \subseteq Fd /\ deferred \subseteq Fd
    /\ pc \in {"tick", "scan", "exit"} /\ idx \in Nat \ {0}
    /\ readyRead \subseteq Fd \cup {Listen} /\ readyWrite \subseteq Fd
    /\ table \in [Fd -> Conn \cup {None}]
    /\ backlog \in Seq(Conn)
    /\ inbox \in [Conn -> Seq(Request)]
    /\ wire \in [Conn -> Seq(Byte)] /\ answers \in [Conn -> Seq(Byte)]
    /\ \A c \in Conn : taken[c] \in 0..Len(wire[c])
    /\ eof \in [Conn -> BOOLEAN] /\ broken \in [Conn -> BOOLEAN]
    /\ asked \in [Conn -> 0..MaxRequests]

(* A routine's descriptor still belongs to the connection it answers: it   *)
(* is neither closed nor handed to a newer client by accept().             *)
OwnerAlive == \A i \in Index : table[routines[i].fd] = routines[i].conn

(* With two routines on a socket, RoutineArrayDelSocket leaves one behind  *)
(* when the socket closes.  Clients that wait for their answers before     *)
(* they go on can only leave behind one that has nothing more to send.     *)
OrphansSilent ==
    \A i \in Index : table[routines[i].fd] # routines[i].conn =>
        Pending(routines[i].r.sb) \o routines[i].r.left = <<>>

(* What a client finds on its connection is a beginning of the responses   *)
(* to its own requests, in order: no byte of another client's response, no *)
(* two responses interleaved, nothing after a gap.                         *)
StreamIntegrity ==
    \A c \in Conn : Len(wire[c]) <= Len(answers[c]) /\ wire[c] = First(answers[c], Len(wire[c]))

(* Every socket in the deferred set has a routine that waits for it:       *)
(* otherwise select() would report it writable for ever to nobody, and a   *)
(* later client on that descriptor would find itself deferred.             *)
DeferredOwned ==
    \A f \in deferred : \E i \in Index : routines[i].fd = f /\ routines[i].r.state = "DEFER"

(* A transfer is given up only when its connection is lost.  The flush in  *)
(* STATE_DEFER takes "nothing sent" for a failure (routine.c:247), which   *)
(* is right only if the socket is always writable by then.                 *)
FailOnlyIfLost == \A i \in Index : routines[i].r.state = "FAIL" => broken[routines[i].conn]

(* select() is never given a closed descriptor, so the server goes on.     *)
ServerSurvives == pc # "exit"

(* A file transfer leaves the array only when all of it is on the wire, or *)
(* the client has closed or reset the connection.                          *)
SendsFile(i) == routines[i].r.type = "FILE"

NeverAbandoned ==
    [][\A c \in Conn :
        (\E i \in Of(c) : SendsFile(i)) /\ Of(c)' = {}
            => wire'[c] = answers'[c] \/ eof[c] \/ broken[c]]_vars

(* A request that reached the server is read, whatever the other clients   *)
(* do or do not do.                                                        *)
RequestsRead == \A c \in Conn : (inbox[c] # <<>> /\ ~eof[c]) ~> inbox[c] = <<>>

(* A client that goes on reading gets all of the file response begun for   *)
(* it, even if the other clients never read a byte.                        *)
ReaderServed ==
    \A c \in Conn :
        WF_vars(Read(c)) =>
            ((\E i \in Of(c) : SendsFile(i)) ~> taken[c] = Len(answers[c]) \/ eof[c] \/ broken[c])

(* No routine stays in the array for ever once its client has gone.        *)
RoutinesReleased == \A c \in Conn : eof[c] ~> Of(c) = {}

=============================================================================
