-------------------------------- MODULE Gui ---------------------------------
(***************************************************************************)
(* The graphical server (src/src/gui/win32): a window around the server    *)
(* loop, which runs in a thread of its own and reports what it does        *)
(* through the callbacks of src/src/server/event.c.  The callbacks run in  *)
(* the server's thread and talk to the controls of the window, which only  *)
(* the window's own thread can answer.                                     *)
(*                                                                         *)
(* A connection is identified with the address of its peer.  The server    *)
(* loop is that of mltiplex/select.c, reduced to the events it reports.    *)
(***************************************************************************)
EXTENDS Integers, Sequences, FiniteSets, SequencesExt

CONSTANTS
    Client,       \* the addresses of the clients
    Unknown,      \* an address read from a structure nobody filled
    NULL,
    PortText,     \* what the dialog may give for the ports: sequences of characters
    Busy,         \* the ports other programs hold
    Code,         \* the response codes that occur
    CounterSize,  \* how many values the counters of the statistics have
    MaxRequests   \* bound: requests in a behaviour

ASSUME CounterAssumption == CounterSize \in Nat \ {0}

ASSUME ClientAssumption == IsFiniteSet(Client)

(* A row of the list names an address and shows the state of its           *)
(* connection: the method and the code of the last response, or TSYN.      *)
RowState == [type : {"T", "G", "H", "?"}, code : {0, 200, 206, 304, 404, 431}]

List == UNION {[addresses -> RowState] : addresses \in SUBSET (Client \cup {Unknown})}

ASSUME NullAssumption == NULL \notin List

VARIABLES
    gui,                 \* what the window's thread is doing
    callback,            \* the callbacks of event.c
    sConnectionList,     \* the rows of the list: address -> state; NULL when there is no list
    nActiveConnections,
    nActiveTransfers,
    serverRun,
    globalRootPath,
    listening,           \* the port platformServerStartup bound; NULL when there is no server
    stack,               \* the network is initialised
    thread,              \* what the server's thread is doing
    report,              \* the events it has still to report before it goes on
    conn,                \* the connections: open, reset by the peer, transfers under way
    requests,            \* bound: requests so far
    seen                 \* history: what the window was not told, or told wrongly

statistics == <<sConnectionList, nActiveConnections, nActiveTransfers>>
server == <<thread, report, conn, requests>>
window == <<gui, callback, serverRun, globalRootPath, listening, stack>>
vars == <<statistics, server, window, seen>>

Event == {"respond", "finish", "accept", "close"}

Closed == [open |-> FALSE, reset |-> FALSE, transfers |-> 0]

At(place) == [at |-> place]

Init ==
    /\ gui = At("new") /\ serverRun = TRUE
    /\ callback = [e \in Event |-> "NULL"]
    /\ sConnectionList = NULL /\ nActiveConnections = 0 /\ nActiveTransfers = 0
    /\ globalRootPath = "NULL" /\ listening = NULL /\ stack = FALSE
    /\ thread = At("none") /\ report = <<>>
    /\ conn = [c \in Client |-> Closed] /\ requests = 0
    /\ seen = [late |-> FALSE, reset |-> FALSE, untold |-> FALSE]

-----------------------------------------------------------------------------
(* Starting.                                                               *)

USHRT_MAX == 65535
Digit == {ToString(n) : n \in 0..9}

(* strtoul: up to the first character that is no digit.                    *)
Number(text) ==
    FoldLeft(LAMBDA n, c : IF n.end \/ c \notin Digit THEN [n EXCEPT !.end = TRUE]
                           ELSE [n EXCEPT !.value = @ * 10 + (CHOOSE d \in 0..9 : ToString(d) = c)],
             [value |-> 0, end |-> FALSE], text).value

(***************************************************************************)
(* platformBindPort: the ports it tries.  A port is taken when the comma   *)
(* behind it is met, and the character after a comma is stepped over, so   *)
(* that the port behind the last comma is never tried.  Only a text        *)
(* without any port before a comma is taken as a whole.                    *)
(***************************************************************************)
platformBindPort(text) ==
    LET Scan(s, c) ==
            CASE s.bad -> s
              [] s.skip -> [s EXCEPT !.skip = FALSE, !.token = Append(@, c)]
              [] ~s.skip /\ c = "," ->
                    [s EXCEPT !.skip = TRUE, !.token = <<>>,
                              !.list = IF Len(s.token) <= 5 /\ Number(s.token) < USHRT_MAX
                                       THEN Append(@, Number(s.token)) ELSE @]
              [] ~s.skip /\ c \in Digit -> [s EXCEPT !.token = Append(@, c)]
              [] OTHER -> [s EXCEPT !.bad = TRUE]
        end == FoldLeft(Scan, [list |-> <<>>, token |-> <<>>, skip |-> FALSE, bad |-> FALSE], text)
    IN  IF end.bad THEN <<>>
        ELSE IF end.list = <<>> /\ Number(end.token) < USHRT_MAX THEN <<Number(end.token)>>
        ELSE end.list

(* platformServerStartup, as startServer calls it: the first port of the   *)
(* list that is free, or NULL.                                             *)
platformServerStartup(text) ==
    LET tried == SelectSeq(platformBindPort(text), LAMBDA p : p \notin Busy)
    IN  IF tried = <<>> THEN NULL ELSE tried[1]

(***************************************************************************)
(* startServer and forkServerProcess, from BTN_START.  The root path may   *)
(* be no directory and the thread may not be created; the window is built  *)
(* either way in the latter case, and closes.                              *)
(***************************************************************************)
startServer(text) ==
    /\ gui = At("new") /\ globalRootPath = "NULL"
    /\ stack' = TRUE
    /\ \/ UNCHANGED <<gui, callback, globalRootPath, listening, thread>>
       \/ /\ platformServerStartup(text) # NULL
          /\ listening' = platformServerStartup(text)
          /\ globalRootPath' = "path"
          /\ callback' = [e \in Event |-> "noOp"]
          /\ \/ thread' = At("check") /\ gui' = [at |-> "create", quit |-> FALSE, next |-> 1]
             \/ thread' = thread /\ gui' = [at |-> "create", quit |-> TRUE, next |-> 1]
    /\ UNCHANGED <<statistics, report, conn, requests, serverRun, seen>>

(* newServerWindowCallback, WM_DESTROY without a server.                   *)
CloseNewServerWindow ==
    /\ gui = At("new")
    /\ gui' = At("end")
    /\ UNCHANGED <<statistics, server, callback, serverRun, globalRootPath, listening, stack, seen>>

(***************************************************************************)
(* connectionsListCreate attaches the callbacks one by one, after the list *)
(* is made and before connectionsWindowCreate assigns it to                *)
(* sConnectionList.                                                        *)
(***************************************************************************)
Attach == <<"respond", "finish", "accept", "close">>

connectionsListCreate ==
    /\ gui.at = "create" /\ gui.next <= Len(Attach)
    /\ callback' = [callback EXCEPT ![Attach[gui.next]] = "list"]
    /\ gui' = [gui EXCEPT !.next = @ + 1]
    /\ UNCHANGED <<statistics, server, serverRun, globalRootPath, listening, stack, seen>>

connectionsWindowCreate ==
    /\ gui.at = "create" /\ gui.next > Len(Attach)
    /\ sConnectionList' = <<>>
    /\ gui' = IF gui.quit THEN At("end") ELSE At("loop")
    /\ UNCHANGED <<nActiveConnections, nActiveTransfers, server, callback, serverRun, globalRootPath,
                   listening, stack, seen>>

-----------------------------------------------------------------------------
(* Stopping.                                                               *)

(* runServerWindowCallback, WM_CLOSE and the first line of WM_DESTROY: the *)
(* window with the list goes first.                                        *)
CloseRunServerWindow ==
    /\ gui = At("loop")
    /\ sConnectionList' = NULL
    /\ serverRun' = FALSE
    /\ gui' = [at |-> "detach", next |-> 1]
    /\ UNCHANGED <<nActiveConnections, nActiveTransfers, server, callback, globalRootPath, listening,
                   stack, seen>>

Detach == <<"finish", "respond", "accept", "close">>

DetachCallbacks ==
    /\ gui.at = "detach"
    /\ callback' = [callback EXCEPT ![Detach[gui.next]] = "NULL"]
    /\ gui' = IF gui.next = Len(Detach) THEN At("poke") ELSE [gui EXCEPT !.next = @ + 1]
    /\ UNCHANGED <<statistics, server, serverRun, globalRootPath, listening, stack, seen>>

(* Mutant: WaitForSingleObject, which the code has in a comment.           *)
WaitsForThread ==
    /\ gui = At("poke") /\ gui' = At("exit")
    /\ thread.at \in {"none", "done", "crashed", "failed"}
    /\ UNCHANGED <<statistics, server, callback, serverRun, globalRootPath, listening, stack, seen>>

(* serverPoke, and platformCloseBindSockets, which closes the numbers from *)
(* one to the number of sockets and not the sockets.                       *)
serverPoke ==
    /\ gui = At("poke") /\ gui' = At("exit")
    /\ UNCHANGED <<statistics, server, callback, serverRun, globalRootPath, listening, stack, seen>>

platformIpStackExit ==
    /\ gui = At("exit") /\ gui' = At("free")
    /\ stack' = FALSE
    /\ UNCHANGED <<statistics, server, callback, serverRun, globalRootPath, listening, seen>>

(* free(globalRootPath) and PostQuitMessage: the controls are destroyed,   *)
(* the loop of WinMain ends and the process with it.                       *)
FreeRootPath ==
    /\ gui = At("free") /\ gui' = At("quit")
    /\ globalRootPath' = "freed"
    /\ UNCHANGED <<statistics, server, callback, serverRun, listening, stack, seen>>

WinMainEnds ==
    /\ gui = At("quit") /\ gui' = At("end")
    /\ UNCHANGED <<statistics, server, callback, serverRun, globalRootPath, listening, stack, seen>>

-----------------------------------------------------------------------------
(* The server's thread: the loop of serverTick.                            *)

Alive == gui.at # "end"

Check ==
    /\ Alive /\ thread = At("check")
    /\ thread' = At(IF serverRun THEN "select" ELSE "done")
    /\ UNCHANGED <<statistics, window, report, conn, requests, seen>>

(* select() fails without a network, and the program exits.                *)
Select ==
    /\ Alive /\ thread = At("select")
    /\ thread' = At(IF stack THEN "serve" ELSE "failed")
    /\ UNCHANGED <<statistics, window, report, conn, requests, seen>>

(* Nothing is ready, or everything that was has been served.               *)
PassEnds ==
    /\ Alive /\ thread = At("serve")
    /\ thread' = At("check")
    /\ UNCHANGED <<statistics, window, report, conn, requests, seen>>

Reports(events) == thread' = At("report") /\ report' = events

Serving == Alive /\ thread = At("serve")

(* platformAcceptConnection.                                               *)
platformAcceptConnection(c) ==
    /\ Serving /\ ~conn[c].open /\ requests < MaxRequests
    /\ conn' = [conn EXCEPT ![c] = [Closed EXCEPT !.open = TRUE]]
    /\ Reports(<<[event |-> "accept", of |-> c]>>)
    /\ UNCHANGED <<statistics, window, requests, seen>>

(***************************************************************************)
(* handleConnection: what the handlers report.  A GET of a file or of a    *)
(* directory leaves a routine; the HEAD of a file does not, and a 304      *)
(* leaves one that reports no end.  What concerns a directory, and an      *)
(* error, closes when the header found the socket broken or was not        *)
(* buffered.  The answer to a path that is not there is reported as a GET. *)
(***************************************************************************)
Response ==
    {r \in [type : {"G", "H"}, code : {200}, routine : {TRUE}, close : BOOLEAN]
        \cup [type : {"G"}, code : {206}, routine : {TRUE}, close : {FALSE}]
        \cup [type : {"H"}, code : {200, 206}, routine : {FALSE}, close : {FALSE}]
        \cup [type : {"G", "H"}, code : {304}, routine : {FALSE}, close : {FALSE}]
        \cup [type : {"G"}, code : {404}, routine : {FALSE}, close : BOOLEAN]
        \cup [type : {"?"}, code : {431}, routine : {FALSE}, close : {TRUE}] : r.code \in Code}

Respond(c, r) == [event |-> "respond", of |-> c, type |-> r.type, code |-> r.code]
Close(c) == [event |-> "close", of |-> c]

(* handlePath reads globalRootPath: after it is freed, anything happens.   *)
handleConnection(c, r) ==
    /\ Serving /\ conn[c].open /\ ~conn[c].reset /\ requests < MaxRequests
    /\ requests' = requests + 1
    /\ conn' = [conn EXCEPT ![c].transfers = IF r.routine /\ ~r.close THEN @ + 1 ELSE @]
    /\ \/ Reports(IF r.close THEN <<Respond(c, r), Close(c)>> ELSE <<Respond(c, r)>>)
       \/ globalRootPath = "freed" /\ thread' = At("crashed") /\ report' = <<>>
    /\ seen' = [seen EXCEPT !.untold = @ \/ r.type = "H" \/ conn[c].transfers > 0]
    /\ UNCHANGED <<statistics, window>>

(* RoutineTick: a transfer ends, or fails because the peer is gone.        *)
RoutineTick(c) ==
    /\ Serving /\ conn[c].transfers > 0
    /\ conn' = [conn EXCEPT ![c].transfers = @ - 1]
    /\ Reports(<<[event |-> "finish", of |-> c]>>)
    /\ UNCHANGED <<statistics, window, requests, seen>>

(* handleConnection finds the connection ended: serverTick reports it      *)
(* before it closes the socket and drops the routine.                      *)
PeerGone(c) ==
    /\ Serving /\ conn[c].open
    /\ Reports(<<Close(c)>>)
    /\ UNCHANGED <<statistics, window, conn, requests, seen>>

(* External: the peer resets the connection; getpeername() fails from now. *)
(* Bound: one reset in a behaviour.                                        *)
Reset(c) ==
    /\ Alive /\ conn[c].open /\ ~seen.reset
    /\ conn' = [conn EXCEPT ![c].reset = TRUE]
    /\ seen' = [seen EXCEPT !.reset = TRUE]
    /\ UNCHANGED <<statistics, window, thread, report, requests>>

-----------------------------------------------------------------------------
(* event.c: the pointer is tested and then called; between the two the     *)
(* window's thread may change it, and the call may read it again.          *)

Reported ==
    /\ report' = Tail(report)
    /\ thread' = At(IF Len(report) = 1 THEN "serve" ELSE "report")
    /\ conn' = IF Head(report).event = "close" THEN [conn EXCEPT ![Head(report).of] = Closed] ELSE conn

Invoke ==
    /\ Alive /\ thread = At("report")
    /\ seen' = [seen EXCEPT !.late = @ \/ gui.at = "create"]
    /\ IF callback[Head(report).event] = "NULL" THEN Reported
       ELSE /\ thread' = [at |-> "call", with |-> callback[Head(report).event]]
            /\ UNCHANGED <<report, conn>>
    /\ UNCHANGED <<statistics, window, requests>>

Call ==
    /\ Alive /\ thread.at = "call"
    /\ \E called \in {thread.with, callback[Head(report).event]} :
        CASE called = "NULL" -> thread' = At("crashed") /\ UNCHANGED <<report, conn>>
          [] called = "noOp" -> Reported
          [] called = "list" -> thread' = At("rows") /\ UNCHANGED <<report, conn>>
    /\ UNCHANGED <<statistics, window, requests, seen>>

-----------------------------------------------------------------------------
(* The callbacks of wrunserv.c.  A message to a control is answered by the *)
(* window's thread in its loop; a control that is gone, or a list that is  *)
(* not assigned yet, answers nothing at once.                              *)

TSYN == [type |-> "T", code |-> 0]

Up(n) == (n + 1) % CounterSize
Down(n) == (n - 1) % CounterSize

(* getpeername() fails on a connection that was reset, and what was on the *)
(* stack is taken for the address.                                         *)
Address(c) == IF conn[c].reset THEN Client \cup {Unknown} ELSE {c}

Rows == IF sConnectionList = NULL THEN {} ELSE DOMAIN sConnectionList

updateRow(address, state) ==
    sConnectionList' = IF sConnectionList = NULL THEN NULL
                       ELSE [a \in Rows \cup {address} |-> IF a = address THEN state ELSE sConnectionList[a]]

Counted(code) == code \in {200, 206, 208}

(* Mutant: only the transfer of a part is counted down.                    *)
CountsParts(state) == state.type = "G" /\ state.code % 10 \in {6, 8}

(* The state of a row that is removed while its transfer goes on.          *)
InTransfer(state) == state.type = "G" /\ state.code % 10 \in {0, 6, 8}

(* Mutant: the row is not deleted.                                         *)
KeepsRow(address) ==
    /\ UNCHANGED sConnectionList
    /\ nActiveTransfers' = IF address \in Rows /\ InTransfer(sConnectionList[address])
                           THEN Down(nActiveTransfers) ELSE nActiveTransfers

removeRow(address) ==
    IF address \in Rows
    THEN /\ sConnectionList' = [a \in Rows \ {address} |-> sConnectionList[a]]
         /\ nActiveTransfers' = IF InTransfer(sConnectionList[address])
                                THEN Down(nActiveTransfers) ELSE nActiveTransfers
    ELSE UNCHANGED <<sConnectionList, nActiveTransfers>>

(* Mutant: a connection whose row is not found is not counted down.        *)
CountsKnownAddress(address) ==
    /\ removeRow(address)
    /\ nActiveConnections' = IF address \in Rows THEN Down(nActiveConnections) ELSE nActiveConnections

callbackCloseSocket(address) ==
    /\ removeRow(address)
    /\ nActiveConnections' = Down(nActiveConnections)

callbackNewSocket(address) ==
    /\ updateRow(address, TSYN)
    /\ nActiveConnections' = Up(nActiveConnections)
    /\ UNCHANGED nActiveTransfers

callbackHttpEnd(address) ==
    /\ updateRow(address, TSYN)
    /\ nActiveTransfers' = Down(nActiveTransfers)
    /\ UNCHANGED nActiveConnections

callbackHttpStart(address, type, code) ==
    /\ nActiveTransfers' = IF Counted(code) THEN Up(nActiveTransfers) ELSE nActiveTransfers
    /\ updateRow(address, [type |-> type, code |-> code])
    /\ UNCHANGED nActiveConnections

(* The messages to the list.  A row that is not found brings up a message  *)
(* box, in which the server's thread waits for the user.                   *)
UpdateList ==
    /\ Alive /\ thread = At("rows")
    /\ sConnectionList = NULL \/ gui = At("loop")
    /\ LET e == Head(report) IN
        \E address \in Address(e.of) :
        /\ CASE e.event = "close" -> callbackCloseSocket(address)
             [] e.event = "accept" -> callbackNewSocket(address)
             [] e.event = "finish" -> callbackHttpEnd(address)
             [] e.event = "respond" -> callbackHttpStart(address, e.type, e.code)
        /\ thread' = At(IF e.event = "close" /\ address \notin Rows THEN "box" ELSE "label")
    /\ UNCHANGED <<window, report, conn, requests, seen>>

Dismiss ==
    /\ Alive /\ thread = At("box")
    /\ thread' = At("label")
    /\ UNCHANGED <<statistics, window, report, conn, requests, seen>>

(* updateConnectionsLabel and updateTransferLabel: the label belongs to    *)
(* the running window.                                                     *)
UpdateLabel ==
    /\ Alive /\ thread = At("label")
    /\ gui.at \in {"loop", "quit"}
    /\ Reported
    /\ UNCHANGED <<statistics, window, requests, seen>>

-----------------------------------------------------------------------------
GuiStep ==
    \/ connectionsListCreate \/ connectionsWindowCreate
    \/ DetachCallbacks \/ serverPoke \/ platformIpStackExit \/ FreeRootPath \/ WinMainEnds

User == CloseNewServerWindow \/ CloseRunServerWindow \/ \E text \in PortText : startServer(text)

ServerStep ==
    \/ Check \/ Select \/ PassEnds \/ Invoke \/ Call \/ UpdateList \/ UpdateLabel
    \/ \E c \in Client :
        \/ platformAcceptConnection(c) \/ RoutineTick(c) \/ PeerGone(c)
        \/ \E r \in Response : handleConnection(c, r)

Next == GuiStep \/ User \/ ServerStep \/ Dismiss \/ \E c \in Client : Reset(c)

(* Both threads run.  Nobody has to click, and no client has to send.      *)
Fairness == WF_vars(GuiStep) /\ WF_vars(ServerStep)

Spec == Init /\ [][Next]_vars /\ Fairness

-----------------------------------------------------------------------------
(* The statistics are looked at between two events, in the loop of a       *)
(* window that missed no event while it was built.                         *)
Quiet == gui = At("loop") /\ report = <<>> /\ ~seen.late

Open == {c \in Client : conn[c].open}

(* The number of connections shown is that of the connections: whatever    *)
(* way they end, and whether or not their address can still be found.      *)
ConnectionsExact == Quiet => nActiveConnections = Cardinality(Open) % CounterSize

(* The list has a row for each connection and no other, as long as no peer *)
(* reset one: then the address of the event is left to chance.             *)
RowsExact == Quiet /\ ~seen.reset => Rows = Open

(* The number of transfers shown is that of the routines at work, as long  *)
(* as nobody asked with HEAD (counted up and never down), or for a second  *)
(* file before the first was sent, and no peer reset a connection.         *)
TransfersExact ==
    Quiet /\ ~seen.reset /\ ~seen.untold =>
        nActiveTransfers = Cardinality({c \in Client : conn[c].transfers > 0}) % CounterSize

(* Closing the window ends the program: the window's thread waits for      *)
(* nothing that only it could answer.                                      *)
WindowCloses == (gui.at = "detach") ~> (gui.at = "end")

=============================================================================
