----------------------------- MODULE GuiProofs ------------------------------
(***************************************************************************)
(* The statistics of the graphical server, for any number of clients and   *)
(* any size of its counters: the two threads may interleave in every way,  *)
(* and the window may be closed at any moment, but in a window that missed *)
(* no event the counters and the list are those of the server.             *)
(***************************************************************************)
EXTENDS Gui, FiniteSetTheorems, TLAPS

-----------------------------------------------------------------------------
(* The inductive invariant, in named parts.                                *)

Window ==
    [at : {"new", "loop", "poke", "exit", "free", "quit", "end"}]
    \cup [at : {"create"}, quit : BOOLEAN, next : 1..5]
    \cup [at : {"detach"}, next : 1..4]

Connection == [open : BOOLEAN, reset : BOOLEAN, transfers : Nat]

Typed ==
    /\ gui \in Window /\ conn \in [Client -> Connection]
    /\ nActiveConnections \in Int /\ nActiveTransfers \in Int
    /\ sConnectionList \in List \cup {NULL}
    /\ callback \in [Event -> {"NULL", "noOp", "list"}]
    /\ seen \in [late : BOOLEAN, reset : BOOLEAN, untold : BOOLEAN]

(* Resets are remembered, and a closed connection transfers nothing.       *)
Honest ==
    \A c \in Client : /\ conn[c].reset => seen.reset
                      /\ ~conn[c].open => conn[c].transfers = 0

(* The window has missed nothing and is not being closed.                  *)
Watching == ~seen.late /\ gui.at \in {"new", "create", "loop"}

(* The thread is between two events.                                       *)
Calm == thread.at \in {"none", "check", "select", "serve", "done", "failed"} /\ report = <<>>

Before == thread.at \in {"report", "call", "rows"}
After == thread.at \in {"box", "label"}

(* An event the thread has still to report, or is reporting.               *)
Telling ==
    LET e == Head(report)
    IN  /\ Before \/ After
        /\ report # <<>> /\ e.of \in Client /\ e.event \in Event /\ conn[e.of].open
        /\ (Len(report) = 1 /\ Tail(report) = <<>>)
              \/ (e.event = "respond" /\ Len(report) = 2 /\ Tail(report) = <<Close(e.of)>>)
        /\ e.event = "respond" => [type |-> e.type, code |-> e.code] \in RowState
        /\ thread.at = "box" => e.event = "close"

Speech ==
    /\ Calm \/ Telling \/ thread.at = "crashed"
    /\ gui.at = "new" => thread.at = "none"
    /\ thread.at = "call" => thread.with \in {"NULL", "noOp", "list"}

(* A connection that was accepted and not shown yet, or closed in the      *)
(* window and not yet in the server.                                       *)
Pending ==
    IF report # <<>> /\ ((Head(report).event = "accept" /\ Before) \/ (Head(report).event = "close" /\ After))
    THEN {Head(report).of} ELSE {}

Shown == Open \ Pending

(* Until the loop of the window runs, nothing is told.                     *)
Building ==
    /\ thread.at # "crashed"
    /\ gui.at \in {"new", "create"} =>
          /\ Calm \/ thread.at = "report"
          /\ nActiveConnections = 0 /\ nActiveTransfers = 0 /\ Shown = {}
          /\ \A c \in Client : conn[c].transfers = 0
    /\ gui.at = "create" => \A k \in 1..4 : k < gui.next => callback[Attach[k]] = "list"
    /\ gui.at = "loop" => sConnectionList # NULL /\ \A e \in Event : callback[e] = "list"
    /\ globalRootPath # "freed"
    /\ thread.at = "call" => thread.with = "list"

CountedRight == nActiveConnections = Cardinality(Shown) % CounterSize

ListedRight == gui.at = "loop" /\ ~seen.reset => Rows = Shown

(* The addresses whose row says that a transfer goes on.                   *)
Going == {a \in Rows : InTransfer(sConnectionList[a])}

(* Whether the row of a connection says what the server does, as far as    *)
(* the event it is telling has been told.                                  *)
RowRight(c) ==
    LET e == Head(report)
        busy == conn[c].transfers = 1
    IN  /\ report = <<>> \/ e.of # c => (c \in Going <=> busy)
        /\ report # <<>> /\ e.of = c =>
             /\ e.event = "accept" => c \notin Going /\ ~busy
             /\ e.event = "finish" => ~busy /\ (c \in Going <=> Before)
             /\ e.event = "respond" =>
                  LET shows == InTransfer([type |-> e.type, code |-> e.code])
                  IN  /\ Before => c \notin Going /\ (Counted(e.code) <=> shows)
                      /\ Before /\ Len(report) = 1 => (shows <=> busy)
                      /\ After /\ Len(report) = 1 => (c \in Going <=> busy)

TransfersRight ==
    gui.at = "loop" /\ ~seen.reset /\ ~seen.untold =>
        /\ nActiveTransfers = Cardinality(Going) % CounterSize
        /\ \A c \in Client : conn[c].transfers \in {0, 1} /\ RowRight(c)

GInv ==
    /\ Typed /\ Honest /\ Speech
    /\ Watching => Building /\ CountedRight /\ ListedRight /\ TransfersRight

-----------------------------------------------------------------------------
(* Counting modulo the size of a counter.                                  *)

LEMMA AtLeastOnce ==
    ASSUME NEW d \in Int, NEW C \in Int, d > 0, C > 0 PROVE d * C >= C
  OBVIOUS

LEMMA ModShape ==
    ASSUME NEW x \in Int, NEW C \in Nat \ {0}
    PROVE  x % C \in 0..(C - 1) /\ \E q \in Int : x = q * C + (x % C)
PROOF
  <1>1. x % C \in 0..(C - 1)
    OBVIOUS
  <1>2. x = (x \div C) * C + (x % C) /\ x \div C \in Int
    OBVIOUS
  <1> QED BY <1>1, <1>2

LEMMA ModUnique ==
    ASSUME NEW C \in Nat \ {0}, NEW q \in Int, NEW r \in 0..(C - 1),
           NEW p \in Int, NEW s \in 0..(C - 1), q * C + r = p * C + s
    PROVE  r = s
PROOF
  <1>1. CASE q = p
    BY <1>1
  <1>2. CASE q > p
    <2>1. (q - p) * C = q * C - p * C
      OBVIOUS
    <2>2. (q - p) * C >= C
      BY <1>2, AtLeastOnce
    <2> QED BY <2>1, <2>2
  <1>3. CASE q < p
    <2>1. (p - q) * C = p * C - q * C
      OBVIOUS
    <2>2. (p - q) * C >= C
      BY <1>3, AtLeastOnce
    <2> QED BY <2>1, <2>2
  <1> QED BY <1>1, <1>2, <1>3

(* A counter that wraps steps with the number it stands for.               *)
LEMMA WrapUp ==
    ASSUME NEW n \in Int, NEW C \in Nat \ {0} PROVE ((n % C) + 1) % C = (n + 1) % C
PROOF
  <1> DEFINE m == n % C
             a == (m + 1) % C
             b == (n + 1) % C
  <1>1. PICK q \in Int : n = q * C + m
    BY ModShape
  <1>2. m \in 0..(C - 1)
    BY ModShape
  <1> HIDE DEF m
  <1>3. m + 1 \in Int /\ n + 1 \in Int
    BY <1>2
  <1>4. a \in 0..(C - 1) /\ b \in 0..(C - 1)
    BY <1>3, ModShape
  <1>5. PICK p \in Int : m + 1 = p * C + a
    BY <1>3, ModShape
  <1>6. PICK s \in Int : n + 1 = s * C + b
    BY <1>3, ModShape
  <1> HIDE DEF a, b
  <1> DEFINE t == q + p
  <1>7. s * C + b = t * C + a /\ t \in Int
    <2>1. t * C = q * C + p * C
      OBVIOUS
    <2> QED BY <2>1, <1>1, <1>2, <1>4, <1>5, <1>6
  <1> HIDE DEF t
  <1>8. b = a
    BY <1>4, <1>7, ModUnique
  <1> QED BY <1>8 DEF a, b, m

LEMMA WrapDown ==
    ASSUME NEW n \in Int, NEW C \in Nat \ {0} PROVE ((n % C) - 1) % C = (n - 1) % C
PROOF
  <1> DEFINE k == n - 1
  <1>1. k \in Int /\ n = k + 1
    OBVIOUS
  <1> DEFINE m == n % C
             a == (m - 1) % C
             b == k % C
  <1>2. PICK q \in Int : n = q * C + m
    BY ModShape
  <1>3. m \in 0..(C - 1)
    BY ModShape
  <1> HIDE DEF m
  <1>4. a \in 0..(C - 1) /\ b \in 0..(C - 1)
    <2>1. m - 1 \in Int
      BY <1>3
    <2> QED BY <2>1, <1>1, ModShape
  <1>5. PICK p \in Int : m - 1 = p * C + a
    <2>1. m - 1 \in Int
      BY <1>3
    <2> QED BY <2>1, ModShape
  <1>6. PICK s \in Int : k = s * C + b
    BY <1>1, ModShape
  <1> HIDE DEF a, b
  <1> DEFINE t == q + p
  <1>7. s * C + b = t * C + a /\ t \in Int
    <2>1. t * C = q * C + p * C
      OBVIOUS
    <2> QED BY <2>1, <1>1, <1>2, <1>3, <1>4, <1>5, <1>6
  <1> HIDE DEF t
  <1>8. b = a
    BY <1>4, <1>7, ModUnique
  <1> QED BY <1>8 DEF a, b, m, k

(* One more and one less in a set that is counted.                         *)
LEMMA CountUp ==
    ASSUME NEW S, IsFiniteSet(S), NEW x, x \notin S
    PROVE  Up(Cardinality(S) % CounterSize) = Cardinality(S \cup {x}) % CounterSize
PROOF
  <1>1. Cardinality(S) \in Nat /\ Cardinality(S \cup {x}) = Cardinality(S) + 1
    BY FS_AddElement, FS_CardinalityType
  <1> QED BY <1>1, WrapUp, CounterAssumption DEF Up

LEMMA CountDown ==
    ASSUME NEW S, IsFiniteSet(S), NEW x, x \in S
    PROVE  Down(Cardinality(S) % CounterSize) = Cardinality(S \ {x}) % CounterSize
PROOF
  <1>1. Cardinality(S) \in Nat /\ Cardinality(S \ {x}) = Cardinality(S) - 1
    BY FS_RemoveElement, FS_CardinalityType
  <1> QED BY <1>1, WrapDown, CounterAssumption DEF Down

LEMMA CountNone == Cardinality({}) % CounterSize = 0
PROOF
  <1>1. Cardinality({}) = 0
    BY FS_EmptySet
  <1> QED BY <1>1, CounterAssumption

-----------------------------------------------------------------------------
(* Places and sequences of one or two events.                              *)

LEMMA Places == \A p : At(p).at = p
  BY DEF At

LEMMA OneTwo ==
    ASSUME NEW x, NEW y
    PROVE  /\ Len(<<x>>) = 1 /\ Head(<<x>>) = x /\ Tail(<<x>>) = <<>> /\ <<x>> # <<>>
           /\ Len(<<x, y>>) = 2 /\ Head(<<x, y>>) = x /\ Tail(<<x, y>>) = <<y>> /\ <<x, y>> # <<>>
  OBVIOUS

(* The kinds of a window.                                                  *)
LEMMA WindowKinds ==
    ASSUME Typed
    PROVE  /\ gui.at \in {"new", "loop", "poke", "exit", "free", "quit", "end", "create", "detach"}
           /\ gui.at = "create" => gui = [at |-> "create", quit |-> gui.quit, next |-> gui.next]
                                   /\ gui.next \in 1..5 /\ gui.quit \in BOOLEAN
           /\ gui.at = "detach" => gui = [at |-> "detach", next |-> gui.next] /\ gui.next \in 1..4
           /\ gui.at = "loop" => gui = At("loop")
PROOF
  <1>0. gui \in Window
    BY DEF Typed
  <1>1. CASE gui \in [at : {"new", "loop", "poke", "exit", "free", "quit", "end"}]
    BY <1>1 DEF At
  <1>2. CASE gui \in [at : {"create"}, quit : BOOLEAN, next : 1..5]
    BY <1>2
  <1>3. CASE gui \in [at : {"detach"}, next : 1..4]
    BY <1>3
  <1> QED BY <1>0, <1>1, <1>2, <1>3 DEF Window

(* In a window that is not watched only the types matter.                  *)
LEMMA Unwatched ==
    ASSUME Typed', Honest', Speech', ~Watching' PROVE GInv'
  BY DEF GInv

LEMMA SpeechSame ==
    ASSUME Speech, UNCHANGED <<thread, report, conn>>, gui'.at = "new" => gui.at = "new"
    PROVE  Speech'
  BY DEF Speech, Calm, Telling, Before, After, Close

LEMMA ShownFinite ==
    IsFiniteSet(Open) /\ IsFiniteSet(Shown) /\ Open \subseteq Client
PROOF
  <1>1. Open \subseteq Client /\ Shown \subseteq Client
    BY DEF Shown, Open
  <1> QED BY <1>1, ClientAssumption, FS_Subset

-----------------------------------------------------------------------------
(* The window's thread.                                                    *)

LEMMA InitHolds ==
    ASSUME Init PROVE GInv
PROOF
  <1>0. /\ gui = At("new") /\ callback = [e \in Event |-> "NULL"] /\ sConnectionList = NULL
        /\ nActiveConnections = 0 /\ nActiveTransfers = 0 /\ globalRootPath = "NULL"
        /\ thread = At("none") /\ report = <<>> /\ conn = [c \in Client |-> Closed]
        /\ seen = [late |-> FALSE, reset |-> FALSE, untold |-> FALSE]
    BY DEF Init
  <1>1. gui.at = "new" /\ thread.at = "none"
    BY <1>0, Places
  <1>2. \A c \in Client : ~conn[c].open /\ ~conn[c].reset /\ conn[c].transfers = 0
    BY <1>0 DEF Closed
  <1>3. Typed
    <2>1. gui \in Window
      BY <1>0 DEF Window, At
    <2>2. conn \in [Client -> Connection]
      BY <1>0 DEF Closed, Connection
    <2> QED BY <2>1, <2>2, <1>0 DEF Typed
  <1>4. Honest
    BY <1>2 DEF Honest
  <1>5. Speech
    BY <1>0, <1>1 DEF Speech, Calm
  <1>6. Open = {} /\ Shown = {}
    BY <1>2 DEF Open, Shown
  <1>7. Building
    BY <1>0, <1>1, <1>2, <1>6 DEF Building, Calm
  <1>8. CountedRight
    BY <1>0, <1>6, CountNone DEF CountedRight
  <1>9. ListedRight /\ TransfersRight
    BY <1>1 DEF ListedRight, TransfersRight
  <1> QED BY <1>3, <1>4, <1>5, <1>7, <1>8, <1>9 DEF GInv

LEMMA CloseNewStep ==
    ASSUME GInv, CloseNewServerWindow PROVE GInv'
PROOF
  <1>0. /\ gui' = At("end") /\ UNCHANGED <<sConnectionList, nActiveConnections, nActiveTransfers>>
        /\ UNCHANGED <<thread, report, conn, callback, seen>>
    BY DEF CloseNewServerWindow, statistics, server
  <1>1. gui'.at = "end" /\ gui' \in Window
    BY <1>0, Places DEF Window, At
  <1>2. Typed' /\ Honest'
    BY <1>0, <1>1 DEF GInv, Typed, Honest
  <1>3. Speech'
    BY <1>0, <1>1, SpeechSame DEF GInv
  <1>4. ~Watching'
    BY <1>1 DEF Watching
  <1> QED BY <1>2, <1>3, <1>4, Unwatched

(* The steps after the list's window was closed.                           *)
LEMMA ClosingStep ==
    ASSUME GInv, CloseRunServerWindow \/ DetachCallbacks \/ serverPoke \/ platformIpStackExit
                 \/ FreeRootPath \/ WinMainEnds
    PROVE  GInv'
PROOF
  <1>0. UNCHANGED <<nActiveConnections, nActiveTransfers, thread, report, conn, seen>>
    BY DEF CloseRunServerWindow, DetachCallbacks, serverPoke, platformIpStackExit, FreeRootPath,
           WinMainEnds, statistics, server
  <1>1. sConnectionList' \in List \cup {NULL}
    BY DEF GInv, Typed, CloseRunServerWindow, DetachCallbacks, serverPoke, platformIpStackExit,
           FreeRootPath, WinMainEnds, statistics
  <1>2. callback' \in [Event -> {"NULL", "noOp", "list"}]
    <2>1. CASE DetachCallbacks
      BY <2>1 DEF GInv, Typed, DetachCallbacks
    <2>2. CASE ~DetachCallbacks
      BY <2>2 DEF GInv, Typed, CloseRunServerWindow, serverPoke, platformIpStackExit,
                  FreeRootPath, WinMainEnds
    <2> QED BY <2>1, <2>2
  <1>3. gui' \in Window /\ gui'.at \in {"detach", "poke", "exit", "free", "quit", "end"}
    <2>1. CASE CloseRunServerWindow
      BY <2>1 DEF CloseRunServerWindow, Window
    <2>2. CASE DetachCallbacks
      <3>1. gui = [at |-> "detach", next |-> gui.next] /\ gui.next \in 1..4
        BY <2>2, WindowKinds DEF GInv, DetachCallbacks
      <3>2. CASE gui.next = 4
        <4>1. gui' = At("poke")
          BY <2>2, <3>2 DEF DetachCallbacks, Detach
        <4> QED BY <4>1, Places DEF Window, At
      <3>3. CASE gui.next # 4
        <4>1. gui' = [gui EXCEPT !.next = gui.next + 1]
          BY <2>2, <3>3 DEF DetachCallbacks, Detach
        <4>2. gui' = [at |-> "detach", next |-> gui.next + 1] /\ gui.next + 1 \in 1..4
          BY <4>1, <3>1, <3>3
        <4> QED BY <4>2 DEF Window
      <3> QED BY <3>2, <3>3
    <2>3. CASE serverPoke \/ platformIpStackExit \/ FreeRootPath \/ WinMainEnds
      <3>1. gui' = At("exit") \/ gui' = At("free") \/ gui' = At("quit") \/ gui' = At("end")
        BY <2>3 DEF serverPoke, platformIpStackExit, FreeRootPath, WinMainEnds
      <3> QED BY <3>1, Places DEF Window, At
    <2> QED BY <2>1, <2>2, <2>3
  <1>4. Typed' /\ Honest'
    BY <1>0, <1>1, <1>2, <1>3 DEF GInv, Typed, Honest
  <1>5. Speech'
    BY <1>0, <1>3, SpeechSame DEF GInv
  <1>6. ~Watching'
    BY <1>3 DEF Watching
  <1> QED BY <1>4, <1>5, <1>6, Unwatched

(* A step that changes nothing of what the invariant is about.             *)
LEMMA SameStep ==
    ASSUME GInv, UNCHANGED <<statistics, server, gui, callback, globalRootPath, seen>>
    PROVE  GInv'
PROOF
  <1>0. UNCHANGED <<sConnectionList, nActiveConnections, nActiveTransfers, thread, report, conn,
                    gui, callback, globalRootPath, seen>>
    BY DEF statistics, server
  <1>1. Typed' /\ Honest'
    BY <1>0 DEF GInv, Typed, Honest
  <1>2. Speech'
    BY <1>0, SpeechSame DEF GInv
  <1>3. Watching' <=> Watching
    BY <1>0 DEF Watching
  <1>4. Shown' = Shown /\ Rows' = Rows /\ Going' = Going
    BY <1>0 DEF Shown, Open, Pending, Before, After, Rows, Going
  <1>5. Building => Building'
    BY <1>0, <1>4 DEF Building, Calm
  <1>6. CountedRight => CountedRight'
    BY <1>0, <1>4 DEF CountedRight
  <1>7. ListedRight => ListedRight'
    BY <1>0, <1>4 DEF ListedRight
  <1>8. TransfersRight => TransfersRight'
    BY <1>0, <1>4 DEF TransfersRight, RowRight, Before, After
  <1> QED BY <1>1, <1>2, <1>3, <1>5, <1>6, <1>7, <1>8 DEF GInv

(* A window that is built shows nothing, and nobody is connected but one   *)
(* client whose accept is to be reported.                                  *)
LEMMA NothingYet ==
    ASSUME GInv, Watching, gui.at \in {"new", "create"}
    PROVE  /\ Shown = {} /\ (\A c \in Client : conn[c].transfers = 0)
           /\ nActiveConnections = 0 /\ nActiveTransfers = 0
           /\ Calm \/ (Telling /\ Before /\ Head(report).event = "accept")
           /\ thread.at # "crashed" /\ globalRootPath # "freed"
PROOF
  <1>1. Building
    BY DEF GInv
  <1>2. /\ Shown = {} /\ (\A c \in Client : conn[c].transfers = 0)
        /\ nActiveConnections = 0 /\ nActiveTransfers = 0
        /\ thread.at # "crashed" /\ globalRootPath # "freed"
        /\ Calm \/ thread.at = "report"
    BY <1>1 DEF Building
  <1>3. CASE ~Calm
    <2>1. Telling /\ Before /\ ~After
      BY <1>2, <1>3 DEF GInv, Speech, Before, After
    <2>2. Head(report).of \in Open
      BY <2>1 DEF Telling, Open
    <2>3. Head(report).of \in Pending
      BY <1>2, <2>2 DEF Shown
    <2>4. Head(report).event = "accept"
      BY <2>1, <2>3 DEF Pending
    <2> QED BY <1>2, <2>1, <2>4
  <1> QED BY <1>2, <1>3

LEMMA StartStep ==
    ASSUME GInv, NEW text, startServer(text) PROVE GInv'
PROOF
  <1>0. /\ gui = At("new") /\ gui.at = "new" /\ UNCHANGED <<statistics, report, conn, seen>>
        /\ UNCHANGED <<sConnectionList, nActiveConnections, nActiveTransfers>>
    BY Places DEF startServer, statistics
  <1>1. thread.at = "none" /\ report = <<>> /\ Calm
    BY <1>0 DEF GInv, Speech, Calm, Telling, Before, After
  <1>2. CASE UNCHANGED <<gui, callback, globalRootPath, listening, thread>>
    <2>1. UNCHANGED <<statistics, server, gui, callback, globalRootPath, seen>>
      BY <1>0, <1>2 DEF server, startServer
    <2> QED BY <2>1, SameStep
  <1>3. CASE ~UNCHANGED <<gui, callback, globalRootPath, listening, thread>>
    <2>1. /\ globalRootPath' = "path" /\ callback' = [e \in Event |-> "noOp"]
          /\ \/ thread' = At("check") /\ gui' = [at |-> "create", quit |-> FALSE, next |-> 1]
             \/ thread' = thread /\ gui' = [at |-> "create", quit |-> TRUE, next |-> 1]
      BY <1>3 DEF startServer
    <2>2. gui' \in Window /\ gui'.at = "create" /\ gui'.next = 1 /\ thread'.at \in {"check", "none"}
      <3>1. thread'.at \in {"check", "none"}
        BY <2>1, <1>1, Places
      <3>2. \E q \in BOOLEAN : gui' = [at |-> "create", quit |-> q, next |-> 1]
        BY <2>1
      <3>3. gui' \in Window
        BY <3>2 DEF Window
      <3> QED BY <3>1, <3>2, <3>3
    <2>3. Typed' /\ Honest'
      BY <1>0, <2>1, <2>2 DEF GInv, Typed, Honest
    <2>4. Calm' /\ report' = <<>>
      BY <1>0, <1>1, <2>2 DEF Calm
    <2>5. Speech'
      BY <2>2, <2>4 DEF Speech
    <2>6. ASSUME Watching' PROVE Building' /\ CountedRight' /\ ListedRight' /\ TransfersRight'
      <3>1. Watching
        BY <1>0, <2>6 DEF Watching
      <3>2. Shown = {} /\ (\A c \in Client : conn[c].transfers = 0)
            /\ nActiveConnections = 0 /\ nActiveTransfers = 0
        BY <1>0, <3>1, NothingYet
      <3>3. Shown' = {}
        BY <1>0, <1>1, <3>2 DEF Shown, Open, Pending
      <3>4. \A k \in 1..4 : ~(k < gui'.next)
        BY <2>2
      <3>5. Building'
        BY <1>0, <2>1, <2>2, <2>4, <3>2, <3>3, <3>4 DEF Building
      <3>6. CountedRight'
        BY <1>0, <3>2, <3>3, CountNone DEF CountedRight
      <3>7. ListedRight' /\ TransfersRight'
        BY <2>2 DEF ListedRight, TransfersRight
      <3> QED BY <3>5, <3>6, <3>7
    <2> QED BY <2>3, <2>5, <2>6 DEF GInv
  <1> QED BY <1>2, <1>3

LEMMA ListCreateStep ==
    ASSUME GInv, connectionsListCreate PROVE GInv'
PROOF
  <1> DEFINE n == gui.next
  <1>0. /\ gui.at = "create" /\ n <= 4 /\ callback' = [callback EXCEPT ![Attach[n]] = "list"]
        /\ gui' = [gui EXCEPT !.next = n + 1]
        /\ UNCHANGED <<sConnectionList, nActiveConnections, nActiveTransfers, thread, report, conn,
                       globalRootPath, seen>>
    BY DEF connectionsListCreate, statistics, server, Attach
  <1>1. gui = [at |-> "create", quit |-> gui.quit, next |-> n] /\ n \in 1..5 /\ gui.quit \in BOOLEAN
    BY <1>0, WindowKinds DEF GInv
  <1>2. gui' = [at |-> "create", quit |-> gui.quit, next |-> n + 1] /\ n + 1 \in 1..5 /\ n \in 1..4
    BY <1>0, <1>1
  <1>3. gui' \in Window /\ gui'.at = "create" /\ gui'.next = n + 1
    BY <1>1, <1>2 DEF Window
  <1> HIDE DEF n
  <1>4. \A k \in 1..4 : Attach[k] \in Event
    BY DEF Attach, Event
  <1>5. callback \in [Event -> {"NULL", "noOp", "list"}]
    BY DEF GInv, Typed
  <1>6. callback' \in [Event -> {"NULL", "noOp", "list"}]
    BY <1>0, <1>5
  <1>7. Typed' /\ Honest'
    BY <1>0, <1>3, <1>6 DEF GInv, Typed, Honest
  <1>8. Speech'
    BY <1>0, <1>3, SpeechSame DEF GInv
  <1>9. ASSUME Watching' PROVE Building' /\ CountedRight' /\ ListedRight' /\ TransfersRight'
    <2>1. Watching /\ Building /\ CountedRight
      BY <1>0, <1>9 DEF Watching, GInv
    <2>2. Shown' = Shown
      BY <1>0 DEF Shown, Open, Pending, Before, After
    <2>3. ASSUME NEW k \in 1..4, k < gui'.next PROVE callback'[Attach[k]] = "list"
      <3>1. CASE Attach[k] = Attach[n]
        BY <1>0, <1>2, <1>4, <1>5, <3>1
      <3>2. CASE Attach[k] # Attach[n]
        <4>1. k < n
          BY <1>2, <1>3, <2>3, <3>2
        <4>2. callback[Attach[k]] = "list"
          BY <1>0, <2>1, <4>1 DEF Building, n
        <4>3. Attach[k] \in Event
          BY <1>4
        <4> QED BY <1>0, <1>5, <3>2, <4>2, <4>3
      <3> QED BY <3>1, <3>2
    <2>4. Building'
      BY <1>0, <1>3, <2>1, <2>2, <2>3 DEF Building, Calm
    <2>5. CountedRight'
      BY <1>0, <2>1, <2>2 DEF CountedRight
    <2>6. ListedRight' /\ TransfersRight'
      BY <1>3 DEF ListedRight, TransfersRight
    <2> QED BY <2>4, <2>5, <2>6
  <1> QED BY <1>7, <1>8, <1>9 DEF GInv

LEMMA NoRow == <<>> \in List /\ DOMAIN <<>> = {}
PROOF
  <1>1. <<>> \in [{} -> RowState] /\ DOMAIN <<>> = {}
    OBVIOUS
  <1> QED BY <1>1 DEF List

LEMMA WindowCreateStep ==
    ASSUME GInv, connectionsWindowCreate PROVE GInv'
PROOF
  <1>0. /\ gui.at = "create" /\ gui.next > 4 /\ sConnectionList' = <<>>
        /\ gui' = At("end") \/ gui' = At("loop")
        /\ UNCHANGED <<nActiveConnections, nActiveTransfers, thread, report, conn, callback,
                       globalRootPath, seen>>
    BY DEF connectionsWindowCreate, server, Attach
  <1>1. gui' \in Window /\ gui'.at \in {"loop", "end"}
    BY <1>0, Places DEF Window, At
  <1>2. Typed' /\ Honest'
    BY <1>0, <1>1, NoRow DEF GInv, Typed, Honest
  <1>3. Speech'
    BY <1>0, <1>1, SpeechSame DEF GInv
  <1>4. ASSUME Watching' PROVE Building' /\ CountedRight' /\ ListedRight' /\ TransfersRight'
    <2>1. Watching /\ Building /\ CountedRight /\ gui'.at = "loop"
      BY <1>0, <1>1, <1>4 DEF Watching, GInv
    <2>2. Shown' = Shown
      BY <1>0 DEF Shown, Open, Pending, Before, After
    <2>3. /\ Shown = {} /\ (\A c \in Client : conn[c].transfers = 0)
          /\ nActiveConnections = 0 /\ nActiveTransfers = 0
          /\ Calm \/ (Telling /\ Before /\ Head(report).event = "accept")
          /\ thread.at # "crashed" /\ globalRootPath # "freed"
      BY <1>0, <2>1, NothingYet
    <2>4. Rows' = {} /\ sConnectionList' # NULL
      BY <1>0, NoRow, NullAssumption DEF Rows
    <2>5. Going' = {}
      BY <2>4 DEF Going
    <2>6. \A e \in Event : callback'[e] = "list"
      <3>1. gui.next \in 1..5 /\ \A k \in 1..4 : k < gui.next => callback[Attach[k]] = "list"
        BY <1>0, <2>1, WindowKinds DEF Building, GInv
      <3>2. \A k \in 1..4 : callback[Attach[k]] = "list"
        BY <1>0, <3>1
      <3> QED BY <1>0, <3>2 DEF Attach, Event
    <2>7. thread.at = "call" => thread.with = "list"
      BY <2>1 DEF Building
    <2>8. Building'
      BY <1>0, <2>1, <2>3, <2>4, <2>6, <2>7 DEF Building
    <2>9. CountedRight'
      BY <1>0, <2>1, <2>2 DEF CountedRight
    <2>10. ListedRight'
      BY <2>2, <2>3, <2>4 DEF ListedRight
    <2>11. ASSUME NEW c \in Client PROVE conn'[c].transfers \in {0, 1} /\ RowRight(c)'
      <3>1. conn'[c].transfers = 0 /\ c \notin Going'
        BY <1>0, <2>3, <2>5
      <3>2. report = <<>> \/ Head(report).event = "accept"
        BY <2>3 DEF Calm
      <3> QED BY <1>0, <3>1, <3>2 DEF RowRight
    <2>12. TransfersRight'
      BY <1>0, <2>3, <2>5, <2>11, CountNone DEF TransfersRight
    <2> QED BY <2>8, <2>9, <2>10, <2>12
  <1> QED BY <1>2, <1>3, <1>4 DEF GInv

-----------------------------------------------------------------------------
(* The server's thread between two events.                                 *)

LEMMA Serves ==
    ASSUME GInv, thread.at \in {"check", "select", "serve"}
    PROVE  Calm /\ report = <<>> /\ Pending = {} /\ Shown = Open /\ gui.at # "new"
PROOF
  <1>1. Calm /\ report = <<>> /\ gui.at # "new"
    BY DEF GInv, Speech, Calm, Telling, Before, After
  <1>2. Pending = {}
    BY <1>1 DEF Pending
  <1> QED BY <1>1, <1>2 DEF Shown

(* While a connection is shown, the window is watched in its loop.         *)
LEMMA InTheLoop ==
    ASSUME GInv, Watching, gui.at # "new", Shown # {} PROVE gui.at = "loop"
PROOF
  <1>1. gui.at \notin {"new", "create"}
    BY NothingYet
  <1> QED BY <1>1 DEF Watching

LEMMA PassStep ==
    ASSUME GInv, Check \/ Select \/ PassEnds PROVE GInv'
PROOF
  <1>0. UNCHANGED <<sConnectionList, nActiveConnections, nActiveTransfers, gui, callback,
                    globalRootPath, report, conn, seen>>
    BY DEF Check, Select, PassEnds, statistics, window
  <1>1. thread.at \in {"check", "select", "serve"}
    BY Places DEF Check, Select, PassEnds
  <1>2. thread'.at \in {"check", "select", "serve", "done", "failed"}
    BY Places DEF Check, Select, PassEnds
  <1>3. Calm /\ report = <<>> /\ Pending = {} /\ Shown = Open /\ gui.at # "new"
    BY <1>1, Serves
  <1>4. Calm' /\ report' = <<>>
    BY <1>0, <1>2, <1>3 DEF Calm
  <1>5. Typed' /\ Honest'
    BY <1>0 DEF GInv, Typed, Honest
  <1>6. Speech'
    BY <1>0, <1>2, <1>3, <1>4 DEF Speech
  <1>7. Watching' <=> Watching
    BY <1>0 DEF Watching
  <1>8. Shown' = Shown /\ Rows' = Rows /\ Going' = Going
    BY <1>0, <1>3, <1>4 DEF Shown, Open, Pending, Rows, Going
  <1>9. Building => Building'
    BY <1>0, <1>2, <1>4, <1>8 DEF Building
  <1>10. CountedRight => CountedRight'
    BY <1>0, <1>8 DEF CountedRight
  <1>11. ListedRight => ListedRight'
    BY <1>0, <1>8 DEF ListedRight
  <1>12. TransfersRight => TransfersRight'
    BY <1>0, <1>3, <1>4, <1>8 DEF TransfersRight, RowRight
  <1> QED BY <1>5, <1>6, <1>7, <1>9, <1>10, <1>11, <1>12 DEF GInv

LEMMA AcceptStep ==
    ASSUME GInv, NEW c \in Client, platformAcceptConnection(c) PROVE GInv'
PROOF
  <1> DEFINE e == [event |-> "accept", of |-> c]
  <1>0. /\ UNCHANGED <<sConnectionList, nActiveConnections, nActiveTransfers, gui, callback,
                       globalRootPath, seen>>
        /\ thread = At("serve") /\ thread' = At("report") /\ report' = <<e>> /\ ~conn[c].open
        /\ conn' = [conn EXCEPT ![c] = [Closed EXCEPT !.open = TRUE]]
    BY DEF platformAcceptConnection, Serving, Reports, statistics, window
  <1>1. thread.at = "serve" /\ thread'.at = "report"
    BY <1>0, Places
  <1>2. Calm /\ report = <<>> /\ Pending = {} /\ Shown = Open /\ gui.at # "new"
    BY <1>1, Serves
  <1>3. /\ Len(report') = 1 /\ Head(report') = e /\ Tail(report') = <<>> /\ report' # <<>>
        /\ e.event = "accept" /\ e.of = c
    BY <1>0, OneTwo
  <1> HIDE DEF e
  <1>4. conn \in [Client -> Connection]
    BY DEF GInv, Typed
  <1>5. /\ conn'[c].open /\ ~conn'[c].reset /\ conn'[c].transfers = 0 /\ conn[c].transfers = 0
        /\ \A d \in Client \ {c} : conn'[d] = conn[d]
    <2> DEFINE n == [Closed EXCEPT !.open = TRUE]
    <2>1. n.open /\ ~n.reset /\ n.transfers = 0
      BY DEF Closed
    <2>2. conn'[c] = n
      BY <1>0, <1>4
    <2>3. \A d \in Client \ {c} : conn'[d] = conn[d]
      BY <1>0, <1>4
    <2>4. conn[c].transfers = 0
      BY <1>0 DEF GInv, Honest
    <2> HIDE DEF n
    <2> QED BY <2>1, <2>2, <2>3, <2>4
  <1>6. conn' \in [Client -> Connection]
    <2>1. [Closed EXCEPT !.open = TRUE] \in Connection
      BY DEF Closed, Connection
    <2> QED BY <1>0, <1>4, <2>1
  <1>7. Typed' /\ Honest'
    BY <1>0, <1>5, <1>6 DEF GInv, Typed, Honest
  <1>8. Telling'
    BY <1>1, <1>3, <1>5 DEF Telling, Before, Event
  <1>9. Speech'
    BY <1>0, <1>1, <1>2, <1>8 DEF Speech
  <1>10. ASSUME Watching' PROVE Building' /\ CountedRight' /\ ListedRight' /\ TransfersRight'
    <2>1. Watching /\ Building /\ CountedRight /\ ListedRight /\ TransfersRight
      BY <1>0, <1>10 DEF Watching, GInv
    <2>2. Before' /\ ~After'
      BY <1>1 DEF Before, After
    <2>3. Pending' = {c}
      BY <1>3, <2>2 DEF Pending
    <2>4. Open' = Open \cup {c} /\ c \notin Open
      BY <1>0, <1>5 DEF Open
    <2>5. Shown' = Shown
      BY <1>2, <2>3, <2>4 DEF Shown
    <2>6. Rows' = Rows /\ Going' = Going
      BY <1>0 DEF Rows, Going
    <2>7. \A d \in Client : conn'[d].transfers = conn[d].transfers
      BY <1>5
    <2>8. Building'
      BY <1>0, <1>1, <2>1, <2>5, <2>7 DEF Building
    <2>9. CountedRight'
      BY <1>0, <2>1, <2>5 DEF CountedRight
    <2>10. ListedRight'
      BY <1>0, <2>1, <2>5, <2>6 DEF ListedRight
    <2>11. ASSUME ~seen.reset, ~seen.untold, gui.at = "loop"
           PROVE  \A d \in Client : conn'[d].transfers \in {0, 1} /\ RowRight(d)'
      <3>1. \A d \in Client : conn[d].transfers \in {0, 1} /\ (d \in Going <=> conn[d].transfers = 1)
        BY <1>2, <2>1, <2>11 DEF TransfersRight, RowRight
      <3>2. RowRight(c)'
        BY <1>3, <1>5, <2>6, <3>1 DEF RowRight
      <3>3. ASSUME NEW d \in Client \ {c} PROVE RowRight(d)'
        BY <1>3, <1>5, <2>6, <3>1 DEF RowRight
      <3> QED BY <2>7, <3>1, <3>2, <3>3
    <2>12. TransfersRight'
      BY <1>0, <2>1, <2>6, <2>11 DEF TransfersRight
    <2> QED BY <2>8, <2>9, <2>10, <2>12
  <1> QED BY <1>7, <1>9, <1>10 DEF GInv

LEMMA PeerGoneStep ==
    ASSUME GInv, NEW c \in Client, PeerGone(c) PROVE GInv'
PROOF
  <1>0. /\ UNCHANGED <<sConnectionList, nActiveConnections, nActiveTransfers, gui, callback,
                       globalRootPath, seen, conn>>
        /\ thread = At("serve") /\ thread' = At("report") /\ report' = <<Close(c)>> /\ conn[c].open
    BY DEF PeerGone, Serving, Reports, statistics, window
  <1>1. thread.at = "serve" /\ thread'.at = "report"
    BY <1>0, Places
  <1>2. Calm /\ report = <<>> /\ Pending = {} /\ Shown = Open /\ gui.at # "new"
    BY <1>1, Serves
  <1>3. /\ Len(report') = 1 /\ Head(report') = Close(c) /\ Tail(report') = <<>> /\ report' # <<>>
        /\ Close(c).event = "close" /\ Close(c).of = c
    BY <1>0, OneTwo DEF Close
  <1>7. Typed' /\ Honest'
    BY <1>0 DEF GInv, Typed, Honest
  <1>8. Telling'
    BY <1>0, <1>1, <1>3 DEF Telling, Before, Event
  <1>9. Speech'
    BY <1>0, <1>1, <1>2, <1>8 DEF Speech
  <1>10. ASSUME Watching' PROVE Building' /\ CountedRight' /\ ListedRight' /\ TransfersRight'
    <2>1. Watching /\ Building /\ CountedRight /\ ListedRight /\ TransfersRight
      BY <1>0, <1>10 DEF Watching, GInv
    <2>2. gui.at = "loop"
      BY <1>0, <1>2, <2>1, InTheLoop DEF Open
    <2>3. Pending' = {} /\ Open' = Open
      BY <1>0, <1>1, <1>3 DEF Pending, Before, After, Open
    <2>5. Shown' = Shown
      BY <1>2, <2>3 DEF Shown
    <2>6. Rows' = Rows /\ Going' = Going
      BY <1>0 DEF Rows, Going
    <2>8. Building'
      BY <1>0, <1>1, <2>1, <2>2 DEF Building
    <2>9. CountedRight'
      BY <1>0, <2>1, <2>5 DEF CountedRight
    <2>10. ListedRight'
      BY <1>0, <2>1, <2>5, <2>6 DEF ListedRight
    <2>11. TransfersRight'
      BY <1>0, <1>2, <1>3, <2>1, <2>6 DEF TransfersRight, RowRight
    <2> QED BY <2>8, <2>9, <2>10, <2>11
  <1> QED BY <1>7, <1>9, <1>10 DEF GInv

LEMMA RoutineTickStep ==
    ASSUME GInv, NEW c \in Client, RoutineTick(c) PROVE GInv'
PROOF
  <1> DEFINE e == [event |-> "finish", of |-> c]
  <1>0. /\ UNCHANGED <<sConnectionList, nActiveConnections, nActiveTransfers, gui, callback,
                       globalRootPath, seen>>
        /\ thread = At("serve") /\ thread' = At("report") /\ report' = <<e>> /\ conn[c].transfers > 0
        /\ conn' = [conn EXCEPT ![c].transfers = conn[c].transfers - 1]
    BY DEF RoutineTick, Serving, Reports, statistics, window
  <1>1. thread.at = "serve" /\ thread'.at = "report"
    BY <1>0, Places
  <1>2. Calm /\ report = <<>> /\ Pending = {} /\ Shown = Open /\ gui.at # "new"
    BY <1>1, Serves
  <1>3. /\ Len(report') = 1 /\ Head(report') = e /\ Tail(report') = <<>> /\ report' # <<>>
        /\ e.event = "finish" /\ e.of = c
    BY <1>0, OneTwo
  <1> HIDE DEF e
  <1>4. conn \in [Client -> Connection] /\ conn[c] \in Connection /\ conn[c].transfers \in Nat
    BY DEF GInv, Typed, Connection
  <1>5. /\ conn'[c] = [open |-> conn[c].open, reset |-> conn[c].reset,
                       transfers |-> conn[c].transfers - 1]
        /\ \A d \in Client \ {c} : conn'[d] = conn[d]
    BY <1>0, <1>4 DEF Connection
  <1>6. conn' \in [Client -> Connection]
    <2>1. conn[c].transfers - 1 \in Nat
      BY <1>0, <1>4
    <2> QED BY <1>0, <1>4, <2>1 DEF Connection
  <1>7. conn[c].open /\ \A d \in Client : conn'[d].open = conn[d].open /\ conn'[d].reset = conn[d].reset
    BY <1>0, <1>5 DEF GInv, Honest
  <1>8. Typed' /\ Honest'
    BY <1>0, <1>5, <1>6, <1>7 DEF GInv, Typed, Honest
  <1>9. Telling'
    BY <1>1, <1>3, <1>7 DEF Telling, Before, Event
  <1>10. Speech'
    BY <1>0, <1>1, <1>2, <1>9 DEF Speech
  <1>11. ASSUME Watching' PROVE Building' /\ CountedRight' /\ ListedRight' /\ TransfersRight'
    <2>1. Watching /\ Building /\ CountedRight /\ ListedRight /\ TransfersRight
      BY <1>0, <1>11 DEF Watching, GInv
    <2>2. gui.at = "loop"
      BY <1>2, <1>7, <2>1, InTheLoop DEF Open
    <2>3. Before' /\ ~After'
      BY <1>1 DEF Before, After
    <2>4. Pending' = {} /\ Open' = Open
      BY <1>3, <1>7, <2>3 DEF Pending, Open
    <2>5. Shown' = Shown
      BY <1>2, <2>4 DEF Shown
    <2>6. Rows' = Rows /\ Going' = Going
      BY <1>0 DEF Rows, Going
    <2>7. Building'
      BY <1>0, <1>1, <2>1, <2>2 DEF Building
    <2>8. CountedRight'
      BY <1>0, <2>1, <2>5 DEF CountedRight
    <2>9. ListedRight'
      BY <1>0, <2>1, <2>5, <2>6 DEF ListedRight
    <2>10. ASSUME ~seen.reset, ~seen.untold
           PROVE  \A d \in Client : conn'[d].transfers \in {0, 1} /\ RowRight(d)'
      <3>1. /\ nActiveTransfers = Cardinality(Going) % CounterSize
            /\ \A d \in Client : conn[d].transfers \in {0, 1} /\ (d \in Going <=> conn[d].transfers = 1)
        BY <1>2, <2>1, <2>2, <2>10 DEF TransfersRight, RowRight
      <3>2. conn[c].transfers = 1 /\ c \in Going /\ conn'[c].transfers = 0
        BY <1>0, <1>5, <3>1
      <3>3. RowRight(c)'
        BY <1>3, <2>3, <2>6, <3>2 DEF RowRight
      <3>4. ASSUME NEW d \in Client \ {c} PROVE RowRight(d)'
        BY <1>3, <1>5, <2>6, <3>1 DEF RowRight
      <3> QED BY <1>5, <3>1, <3>2, <3>3, <3>4
    <2>11. TransfersRight'
      BY <1>0, <2>1, <2>6, <2>10 DEF TransfersRight
    <2> QED BY <2>7, <2>8, <2>9, <2>11
  <1> QED BY <1>8, <1>10, <1>11 DEF GInv

(* What is counted as a transfer is what the list shows as one; and when   *)
(* nobody asks with HEAD, that is what leaves a routine.                   *)
LEMMA ResponseShape ==
    ASSUME NEW r \in Response
    PROVE  LET state == [type |-> r.type, code |-> r.code]
           IN  /\ state \in RowState /\ r.routine \in BOOLEAN /\ r.close \in BOOLEAN
               /\ r.type # "H" => /\ Counted(r.code) <=> InTransfer(state)
                                  /\ ~r.close => (InTransfer(state) <=> r.routine)
PROOF
  <1> DEFINE state == [type |-> r.type, code |-> r.code]
  <1>1. CASE r.code \in {200, 206} /\ r.type \in {"G", "H"} /\ r.close \in BOOLEAN
             /\ r.routine \in BOOLEAN /\ (r.type # "H" => r.routine)
    <2>1. state \in RowState /\ Counted(r.code)
      BY <1>1 DEF RowState, Counted
    <2>2. r.type # "H" => InTransfer(state)
      BY <1>1 DEF InTransfer
    <2> QED BY <1>1, <2>1, <2>2
  <1>2. CASE r.code \in {304, 404, 431} /\ r.type \in {"G", "H", "?"} /\ r.close \in BOOLEAN
             /\ r.routine = FALSE
    <2>1. state \in RowState /\ ~Counted(r.code)
      BY <1>2 DEF RowState, Counted
    <2>2. ~InTransfer(state)
      BY <1>2 DEF InTransfer
    <2> QED BY <1>2, <2>1, <2>2
  <1> QED BY ZenonT(60), <1>1, <1>2 DEF Response

LEMMA HandleStep ==
    ASSUME GInv, NEW c \in Client, NEW r \in Response, handleConnection(c, r) PROVE GInv'
PROOF
  <1> DEFINE e == Respond(c, r)
             more == r.routine /\ ~r.close
  <1>0. /\ UNCHANGED <<sConnectionList, nActiveConnections, nActiveTransfers, gui, callback,
                       globalRootPath>>
        /\ thread = At("serve") /\ conn[c].open
        /\ \/ thread' = At("report") /\ report' = IF r.close THEN <<e, Close(c)>> ELSE <<e>>
           \/ globalRootPath = "freed" /\ thread' = At("crashed") /\ report' = <<>>
        /\ conn' = [conn EXCEPT ![c].transfers = IF more THEN @ + 1 ELSE @]
        /\ seen' = [seen EXCEPT !.untold = seen.untold \/ r.type = "H" \/ conn[c].transfers > 0]
    BY DEF handleConnection, Serving, Reports, statistics, window
  <1>1. thread.at = "serve" /\ thread'.at \in {"report", "crashed"}
    BY <1>0, Places
  <1>2. Calm /\ report = <<>> /\ Pending = {} /\ Shown = Open /\ gui.at # "new"
    BY <1>1, Serves
  <1>3. /\ e.event = "respond" /\ e.of = c /\ e.type = r.type /\ e.code = r.code
        /\ [type |-> e.type, code |-> e.code] \in RowState
    BY ResponseShape DEF Respond
  <1> HIDE DEF e, more
  <1>4. thread'.at = "report" =>
           /\ Head(report') = e /\ report' # <<>>
           /\ r.close => Len(report') = 2 /\ Tail(report') = <<Close(c)>>
           /\ ~r.close => Len(report') = 1 /\ Tail(report') = <<>>
    <2>1. thread'.at = "report" => report' = IF r.close THEN <<e, Close(c)>> ELSE <<e>>
      BY <1>0, Places
    <2> DEFINE one == <<e>>
               two == <<e, Close(c)>>
    <2>2. /\ Len(one) = 1 /\ Head(one) = e /\ Tail(one) = <<>> /\ one # <<>>
          /\ Len(two) = 2 /\ Head(two) = e /\ Tail(two) = <<Close(c)>> /\ two # <<>>
      BY OneTwo
    <2> HIDE DEF one, two
    <2>3. thread'.at = "report" => (r.close => report' = two) /\ (~r.close => report' = one)
      BY <2>1 DEF one, two
    <2> QED BY <2>2, <2>3
  <1>5. /\ conn \in [Client -> Connection] /\ conn[c] \in Connection /\ conn[c].transfers \in Nat
        /\ seen \in [late : BOOLEAN, reset : BOOLEAN, untold : BOOLEAN]
    BY DEF GInv, Typed, Connection
  <1>6. /\ conn'[c] = [open |-> conn[c].open, reset |-> conn[c].reset,
                       transfers |-> IF more THEN conn[c].transfers + 1 ELSE conn[c].transfers]
        /\ \A d \in Client \ {c} : conn'[d] = conn[d]
    BY <1>0, <1>5 DEF Connection
  <1>7. conn' \in [Client -> Connection]
    <2>1. (IF more THEN conn[c].transfers + 1 ELSE conn[c].transfers) \in Nat
      BY <1>5
    <2> QED BY <1>0, <1>5, <2>1 DEF Connection
  <1>8. \A d \in Client : conn'[d].open = conn[d].open /\ conn'[d].reset = conn[d].reset
    BY <1>6
  <1>9. /\ seen'.late = seen.late /\ seen'.reset = seen.reset
        /\ seen'.untold = (seen.untold \/ r.type = "H" \/ conn[c].transfers > 0)
        /\ seen' \in [late : BOOLEAN, reset : BOOLEAN, untold : BOOLEAN]
    BY <1>0, <1>5
  <1>10. Typed' /\ Honest'
    BY <1>0, <1>6, <1>7, <1>8, <1>9 DEF GInv, Typed, Honest
  <1>11. thread'.at = "report" => Telling'
    BY <1>0, <1>3, <1>4, <1>8 DEF Telling, Before, Event
  <1>12. Speech'
    BY <1>0, <1>1, <1>2, <1>11 DEF Speech
  <1>13. ASSUME Watching' PROVE Building' /\ CountedRight' /\ ListedRight' /\ TransfersRight'
    <2>1. Watching /\ Building /\ CountedRight /\ ListedRight /\ TransfersRight
      BY <1>0, <1>9, <1>13 DEF Watching, GInv
    <2>2. gui.at = "loop"
      BY <1>0, <1>2, <2>1, InTheLoop DEF Open
    <2>3. thread'.at = "report" /\ Before' /\ ~After'
      BY <1>0, <2>1, Places DEF Building, Before, After
    <2>4. Pending' = {} /\ Open' = Open
      BY <1>3, <1>4, <1>8, <2>3 DEF Pending, Open
    <2>5. Shown' = Shown
      BY <1>2, <2>4 DEF Shown
    <2>6. Rows' = Rows /\ Going' = Going
      BY <1>0 DEF Rows, Going
    <2>7. Building'
      BY <1>0, <2>1, <2>2, <2>3 DEF Building
    <2>8. CountedRight'
      BY <1>0, <2>1, <2>5 DEF CountedRight
    <2>9. ListedRight'
      BY <1>0, <1>9, <2>1, <2>5, <2>6 DEF ListedRight
    <2>10. ASSUME ~seen'.reset, ~seen'.untold
           PROVE  /\ nActiveTransfers = Cardinality(Going) % CounterSize
                  /\ \A d \in Client : conn'[d].transfers \in {0, 1} /\ RowRight(d)'
      <3>1. /\ nActiveTransfers = Cardinality(Going) % CounterSize
            /\ \A d \in Client : conn[d].transfers \in {0, 1} /\ (d \in Going <=> conn[d].transfers = 1)
        BY <1>2, <1>9, <2>1, <2>2, <2>10 DEF TransfersRight, RowRight
      <3>2. r.type # "H" /\ conn[c].transfers = 0 /\ c \notin Going
        BY <1>9, <2>10, <3>1
      <3>3. conn'[c].transfers = IF more THEN 1 ELSE 0
        BY <1>6, <3>2
      <3>4. /\ Counted(e.code) <=> InTransfer([type |-> e.type, code |-> e.code])
            /\ ~r.close => (InTransfer([type |-> e.type, code |-> e.code]) <=> more)
        BY <1>3, <3>2, ResponseShape DEF more
      <3>5. Len(report') = 1 => ~r.close
        BY <1>4, <2>3
      <3>6. RowRight(c)'
        BY <1>3, <1>4, <2>3, <2>6, <3>2, <3>3, <3>4, <3>5 DEF RowRight
      <3>7. ASSUME NEW d \in Client \ {c} PROVE RowRight(d)'
        BY <1>3, <1>4, <1>6, <2>3, <2>6, <3>1 DEF RowRight
      <3> QED BY <1>6, <3>1, <3>3, <3>6, <3>7
    <2>11. TransfersRight'
      BY <1>0, <2>6, <2>10 DEF TransfersRight
    <2> QED BY <2>7, <2>8, <2>9, <2>11
  <1> QED BY <1>10, <1>12, <1>13 DEF GInv

(* After a reset only the connections are counted.                         *)
LEMMA ResetStep ==
    ASSUME GInv, NEW c \in Client, Reset(c) PROVE GInv'
PROOF
  <1>0. /\ UNCHANGED <<sConnectionList, nActiveConnections, nActiveTransfers, gui, callback,
                       globalRootPath, thread, report>>
        /\ conn' = [conn EXCEPT ![c].reset = TRUE] /\ seen' = [seen EXCEPT !.reset = TRUE]
    BY DEF Reset, statistics, window
  <1>1. /\ conn \in [Client -> Connection]
        /\ seen \in [late : BOOLEAN, reset : BOOLEAN, untold : BOOLEAN]
    BY DEF GInv, Typed
  <1>2. /\ seen'.late = seen.late /\ seen'.reset /\ seen'.untold = seen.untold
        /\ seen' \in [late : BOOLEAN, reset : BOOLEAN, untold : BOOLEAN]
    BY <1>0, <1>1
  <1>3. conn' \in [Client -> Connection]
    BY <1>0, <1>1 DEF Connection
  <1>4. \A d \in Client : conn'[d].open = conn[d].open /\ conn'[d].transfers = conn[d].transfers
    BY <1>0, <1>1 DEF Connection
  <1>5. Typed' /\ Honest'
    BY <1>0, <1>2, <1>3, <1>4 DEF GInv, Typed, Honest
  <1>6. Telling => Telling'
    BY <1>0, <1>4 DEF Telling, Before, After, Close
  <1>7. Speech'
    BY <1>0, <1>6 DEF GInv, Speech, Calm
  <1>8. ASSUME Watching' PROVE Building' /\ CountedRight' /\ ListedRight' /\ TransfersRight'
    <2>1. Watching /\ Building /\ CountedRight
      BY <1>0, <1>2, <1>8 DEF Watching, GInv
    <2>2. Shown' = Shown
      BY <1>0, <1>4 DEF Shown, Open, Pending, Before, After
    <2>3. Building'
      BY <1>0, <1>4, <2>1, <2>2 DEF Building, Calm
    <2>4. CountedRight'
      BY <1>0, <2>1, <2>2 DEF CountedRight
    <2>5. ListedRight' /\ TransfersRight'
      BY <1>2 DEF ListedRight, TransfersRight
    <2> QED BY <2>3, <2>4, <2>5
  <1> QED BY <1>5, <1>7, <1>8 DEF GInv

-----------------------------------------------------------------------------
(* The server's thread while it tells an event.                            *)

(* When the event is told there is one more, the end of the connection     *)
(* whose response it was, or none.                                         *)
LEMMA ToldKeeps ==
    ASSUME GInv, Telling, Reported, seen'.reset = seen.reset
    PROVE  /\ thread'.at \in {"serve", "report"}
           /\ Len(report) = 1 => Calm' /\ report' = <<>>
           /\ Len(report) # 1 => /\ Telling' /\ conn' = conn /\ Before' /\ ~After'
                                 /\ report' # <<>> /\ Head(report') = Close(Head(report).of)
                                 /\ Head(report).event = "respond"
           /\ conn' \in [Client -> Connection] /\ Honest'
           /\ Head(report).event = "close" =>
                 /\ ~conn'[Head(report).of].open /\ conn'[Head(report).of].transfers = 0
                 /\ \A d \in Client \ {Head(report).of} : conn'[d] = conn[d]
           /\ Head(report).event # "close" => conn' = conn
PROOF
  <1> DEFINE e == Head(report)
  <1>0. /\ report' = Tail(report) /\ thread' = At(IF Len(report) = 1 THEN "serve" ELSE "report")
        /\ conn' = IF e.event = "close" THEN [conn EXCEPT ![e.of] = Closed] ELSE conn
    BY DEF Reported
  <1>1. thread'.at = IF Len(report) = 1 THEN "serve" ELSE "report"
    BY <1>0, Places
  <1>2. /\ e.of \in Client /\ conn[e.of].open
        /\ (Len(report) = 1 /\ Tail(report) = <<>>)
              \/ (e.event = "respond" /\ Len(report) = 2 /\ Tail(report) = <<Close(e.of)>>)
    BY DEF Telling
  <1> HIDE DEF e
  <1>3. Len(report) = 1 => Calm' /\ report' = <<>>
    BY <1>0, <1>1, <1>2 DEF Calm
  <1>4. Len(report) # 1 => /\ Telling' /\ conn' = conn /\ Before' /\ ~After'
                           /\ report' # <<>> /\ Head(report') = Close(e.of) /\ e.event = "respond"
    <2>1. SUFFICES ASSUME Len(report) # 1
                   PROVE  /\ Telling' /\ conn' = conn /\ Before' /\ ~After'
                          /\ report' # <<>> /\ Head(report') = Close(e.of) /\ e.event = "respond"
      OBVIOUS
    <2>2. /\ report' = <<Close(e.of)>> /\ conn' = conn /\ thread'.at = "report"
          /\ e.event = "respond"
      BY <1>0, <1>1, <1>2, <2>1
    <2>3. /\ Len(report') = 1 /\ Head(report') = Close(e.of) /\ Tail(report') = <<>> /\ report' # <<>>
          /\ Close(e.of).event = "close" /\ Close(e.of).of = e.of
      BY <2>2, OneTwo DEF Close
    <2>4. Before' /\ ~After'
      BY <2>2 DEF Before, After
    <2>5. Telling'
      BY <1>2, <2>2, <2>3, <2>4 DEF Telling, Event
    <2> QED BY <2>2, <2>3, <2>4, <2>5
  <1>5. conn \in [Client -> Connection]
    BY DEF GInv, Typed
  <1>6. e.event = "close" => /\ ~conn'[e.of].open /\ ~conn'[e.of].reset /\ conn'[e.of].transfers = 0
                             /\ \A d \in Client \ {e.of} : conn'[d] = conn[d]
    <2>1. ~Closed.open /\ ~Closed.reset /\ Closed.transfers = 0
      BY DEF Closed
    <2>2. e.event = "close" => conn'[e.of] = Closed /\ \A d \in Client \ {e.of} : conn'[d] = conn[d]
      BY <1>0, <1>2, <1>5
    <2> QED BY <2>1, <2>2
  <1>7. e.event # "close" => conn' = conn
    BY <1>0
  <1>8. conn' \in [Client -> Connection]
    <2>1. Closed \in Connection
      BY DEF Closed, Connection
    <2> QED BY <1>0, <1>2, <1>5, <2>1
  <1>9. Honest'
    BY <1>2, <1>6, <1>7 DEF GInv, Honest
  <1> QED BY <1>1, <1>3, <1>4, <1>6, <1>7, <1>8, <1>9 DEF e

LEMMA Tells ==
    ASSUME GInv, thread.at \in {"report", "call", "rows", "box", "label"}
    PROVE  /\ Telling /\ report # <<>> /\ Head(report).of \in Client /\ Head(report).event \in Event
           /\ conn[Head(report).of].open /\ gui.at # "new"
  BY DEF GInv, Speech, Calm, Telling

LEMMA InvokeStep ==
    ASSUME GInv, Invoke PROVE GInv'
PROOF
  <1> DEFINE e == Head(report)
  <1>0. /\ UNCHANGED <<sConnectionList, nActiveConnections, nActiveTransfers, gui, callback,
                       globalRootPath>>
        /\ thread = At("report") /\ seen' = [seen EXCEPT !.late = seen.late \/ gui.at = "create"]
        /\ IF callback[e.event] = "NULL" THEN Reported
           ELSE /\ thread' = [at |-> "call", with |-> callback[e.event]]
                /\ UNCHANGED <<report, conn>>
    BY DEF Invoke, statistics, window
  <1>1. thread.at = "report"
    BY <1>0, Places
  <1>2. Telling /\ report # <<>> /\ e.of \in Client /\ e.event \in Event /\ conn[e.of].open
        /\ gui.at # "new"
    BY <1>1, Tells
  <1>3. /\ seen'.late = (seen.late \/ gui.at = "create") /\ seen'.reset = seen.reset
        /\ seen'.untold = seen.untold
        /\ seen' \in [late : BOOLEAN, reset : BOOLEAN, untold : BOOLEAN]
    BY <1>0 DEF GInv, Typed
  <1>4. callback[e.event] \in {"NULL", "noOp", "list"}
    BY <1>2 DEF GInv, Typed
  <1> HIDE DEF e
  <1>5. CASE callback[e.event] = "NULL"
    <2>1. Reported
      BY <1>0, <1>5
    <2>2. /\ thread'.at \in {"serve", "report"} /\ (Calm' \/ Telling')
          /\ conn' \in [Client -> Connection] /\ Honest'
      BY <1>2, <1>3, <2>1, ToldKeeps
    <2>3. Typed'
      BY <1>0, <1>3, <2>2 DEF GInv, Typed
    <2>4. Speech'
      BY <1>0, <1>2, <2>2 DEF Speech
    <2>5. ~Watching'
      <3>1. SUFFICES ASSUME Watching' PROVE FALSE
        OBVIOUS
      <3>2. Watching /\ gui.at = "loop"
        BY <1>0, <1>2, <1>3, <3>1 DEF Watching
      <3>3. callback[e.event] = "list"
        BY <1>2, <3>2 DEF GInv, Building
      <3> QED BY <1>5, <3>3
    <2> QED BY <2>2, <2>3, <2>4, <2>5, Unwatched
  <1>6. CASE callback[e.event] # "NULL"
    <2>1. /\ thread' = [at |-> "call", with |-> callback[e.event]] /\ UNCHANGED <<report, conn>>
          /\ thread'.at = "call" /\ thread'.with = callback[e.event]
      BY <1>0, <1>6
    <2>2. Typed' /\ Honest'
      BY <1>0, <1>3, <2>1 DEF GInv, Typed, Honest
    <2>3. Telling' /\ Before' /\ ~After' /\ Before /\ ~After
      BY <1>1, <1>2, <2>1 DEF Telling, Before, After, Close
    <2>4. Speech'
      BY <1>0, <1>2, <1>4, <2>1, <2>3 DEF Speech
    <2>5. ASSUME Watching' PROVE Building' /\ CountedRight' /\ ListedRight' /\ TransfersRight'
      <3>1. Watching /\ gui.at = "loop"
        BY <1>0, <1>2, <1>3, <2>5 DEF Watching
      <3>2. Building /\ CountedRight /\ ListedRight /\ TransfersRight
        BY <3>1 DEF GInv
      <3>3. Shown' = Shown /\ Rows' = Rows /\ Going' = Going
        BY <1>0, <2>1, <2>3 DEF Shown, Open, Pending, Rows, Going
      <3>4. thread'.with = "list"
        BY <1>2, <2>1, <3>1, <3>2 DEF Building
      <3>5. Building'
        BY <1>0, <2>1, <3>1, <3>2, <3>4 DEF Building
      <3>6. CountedRight'
        BY <1>0, <3>2, <3>3 DEF CountedRight
      <3>7. ListedRight'
        BY <1>0, <1>3, <3>2, <3>3 DEF ListedRight
      <3>8. TransfersRight'
        BY <1>0, <1>3, <2>1, <2>3, <3>2, <3>3 DEF TransfersRight, RowRight
      <3> QED BY <3>5, <3>6, <3>7, <3>8
    <2> QED BY <2>2, <2>4, <2>5 DEF GInv
  <1> QED BY <1>5, <1>6

LEMMA CallStep ==
    ASSUME GInv, Call PROVE GInv'
PROOF
  <1> DEFINE e == Head(report)
  <1>0. /\ UNCHANGED <<sConnectionList, nActiveConnections, nActiveTransfers, gui, callback,
                       globalRootPath, seen>>
        /\ thread.at = "call"
    BY DEF Call, statistics, window
  <1>1. PICK called \in {thread.with, callback[e.event]} :
            CASE called = "NULL" -> thread' = At("crashed") /\ UNCHANGED <<report, conn>>
              [] called = "noOp" -> Reported
              [] called = "list" -> thread' = At("rows") /\ UNCHANGED <<report, conn>>
    BY DEF Call
  <1>2. Telling /\ report # <<>> /\ e.of \in Client /\ e.event \in Event /\ conn[e.of].open
        /\ gui.at # "new"
    BY <1>0, Tells
  <1>3. called \in {"NULL", "noOp", "list"}
    BY <1>0, <1>1, <1>2 DEF GInv, Typed, Speech
  <1>4. Watching => called = "list" /\ gui.at = "loop"
    <2>1. SUFFICES ASSUME Watching PROVE called = "list" /\ gui.at = "loop"
      OBVIOUS
    <2>2. Building
      BY <2>1 DEF GInv
    <2>3. gui.at # "create"
      BY <1>0, <2>2 DEF Building, Calm
    <2>4. gui.at = "loop"
      BY <1>2, <2>1, <2>3 DEF Watching
    <2>5. callback[e.event] = "list" /\ thread.with = "list"
      BY <1>0, <1>2, <2>2, <2>4 DEF Building
    <2> QED BY <1>1, <2>4, <2>5
  <1>5. Watching' <=> Watching
    BY <1>0 DEF Watching
  <1> HIDE DEF e
  <1>6. CASE called = "NULL"
    <2>1. thread' = At("crashed") /\ UNCHANGED <<report, conn>>
      BY <1>1, <1>6
    <2>2. thread'.at = "crashed"
      BY <2>1, Places
    <2>3. Typed' /\ Honest'
      BY <1>0, <2>1 DEF GInv, Typed, Honest
    <2>4. Speech'
      BY <1>0, <1>2, <2>2 DEF Speech
    <2>5. ~Watching'
      BY <1>4, <1>5, <1>6
    <2> QED BY <2>3, <2>4, <2>5, Unwatched
  <1>7. CASE called = "noOp"
    <2>1. Reported
      BY <1>1, <1>7
    <2>2. /\ thread'.at \in {"serve", "report"} /\ (Calm' \/ Telling')
          /\ conn' \in [Client -> Connection] /\ Honest'
      BY <1>0, <1>2, <2>1, ToldKeeps
    <2>3. Typed'
      BY <1>0, <2>2 DEF GInv, Typed
    <2>4. Speech'
      BY <1>0, <1>2, <2>2 DEF Speech
    <2>5. ~Watching'
      BY <1>4, <1>5, <1>7
    <2> QED BY <2>2, <2>3, <2>4, <2>5, Unwatched
  <1>8. CASE called = "list"
    <2>1. thread' = At("rows") /\ UNCHANGED <<report, conn>>
      BY <1>1, <1>8
    <2>2. thread'.at = "rows"
      BY <2>1, Places
    <2>3. Typed' /\ Honest'
      BY <1>0, <2>1 DEF GInv, Typed, Honest
    <2>4. Telling' /\ Before' /\ ~After' /\ Before /\ ~After
      BY <1>0, <1>2, <2>1, <2>2 DEF Telling, Before, After, Close
    <2>5. Speech'
      BY <1>0, <1>2, <2>2, <2>4 DEF Speech
    <2>6. ASSUME Watching' PROVE Building' /\ CountedRight' /\ ListedRight' /\ TransfersRight'
      <3>1. Watching /\ gui.at = "loop"
        BY <1>4, <1>5, <2>6
      <3>2. Building /\ CountedRight /\ ListedRight /\ TransfersRight
        BY <3>1 DEF GInv
      <3>3. Shown' = Shown /\ Rows' = Rows /\ Going' = Going
        BY <1>0, <2>1, <2>4 DEF Shown, Open, Pending, Rows, Going
      <3>4. Building'
        BY <1>0, <2>1, <2>2, <3>1, <3>2 DEF Building
      <3>5. CountedRight'
        BY <1>0, <3>2, <3>3 DEF CountedRight
      <3>6. ListedRight'
        BY <1>0, <3>2, <3>3 DEF ListedRight
      <3>7. TransfersRight'
        BY <1>0, <2>1, <2>4, <3>2, <3>3 DEF TransfersRight, RowRight
      <3> QED BY <3>4, <3>5, <3>6, <3>7
    <2> QED BY <2>3, <2>5, <2>6 DEF GInv
  <1> QED BY <1>3, <1>6, <1>7, <1>8

LEMMA DismissStep ==
    ASSUME GInv, Dismiss PROVE GInv'
PROOF
  <1>0. /\ UNCHANGED <<sConnectionList, nActiveConnections, nActiveTransfers, gui, callback,
                       globalRootPath, report, conn, seen>>
        /\ thread = At("box") /\ thread' = At("label")
    BY DEF Dismiss, statistics, window
  <1>1. thread.at = "box" /\ thread'.at = "label"
    BY <1>0, Places
  <1>2. Telling /\ gui.at # "new"
    BY <1>1, Tells
  <1>3. Typed' /\ Honest'
    BY <1>0 DEF GInv, Typed, Honest
  <1>4. Telling' /\ After' /\ ~Before' /\ After /\ ~Before
    BY <1>0, <1>1, <1>2 DEF Telling, Before, After, Close
  <1>5. Speech'
    BY <1>0, <1>1, <1>2, <1>4 DEF Speech
  <1>6. Watching' <=> Watching
    BY <1>0 DEF Watching
  <1>7. Shown' = Shown /\ Rows' = Rows /\ Going' = Going
    BY <1>0, <1>4 DEF Shown, Open, Pending, Rows, Going
  <1>8. Building => Building'
    BY <1>0, <1>1, <1>7 DEF Building, Calm
  <1>9. CountedRight => CountedRight'
    BY <1>0, <1>7 DEF CountedRight
  <1>10. ListedRight => ListedRight'
    BY <1>0, <1>7 DEF ListedRight
  <1>11. TransfersRight => TransfersRight'
    BY <1>0, <1>4, <1>7 DEF TransfersRight, RowRight
  <1> QED BY <1>3, <1>5, <1>6, <1>8, <1>9, <1>10, <1>11 DEF GInv

LEMMA LabelStep ==
    ASSUME GInv, UpdateLabel PROVE GInv'
PROOF
  <1> DEFINE e == Head(report)
             c == e.of
  <1>0. /\ UNCHANGED <<sConnectionList, nActiveConnections, nActiveTransfers, gui, callback,
                       globalRootPath, seen>>
        /\ thread = At("label") /\ gui.at \in {"loop", "quit"} /\ Reported
    BY DEF UpdateLabel, statistics, window
  <1>1. thread.at = "label" /\ After /\ ~Before
    BY <1>0, Places DEF After, Before
  <1>2. Telling /\ report # <<>> /\ c \in Client /\ e.event \in Event /\ conn[c].open
    BY <1>1, Tells
  <1>3. /\ thread'.at \in {"serve", "report"}
        /\ Len(report) = 1 => Calm' /\ report' = <<>>
        /\ Len(report) # 1 => /\ Telling' /\ conn' = conn /\ Before' /\ ~After'
                              /\ report' # <<>> /\ Head(report') = Close(c)
                              /\ e.event = "respond"
        /\ conn' \in [Client -> Connection] /\ Honest'
        /\ e.event = "close" => /\ ~conn'[c].open /\ conn'[c].transfers = 0
                                /\ \A d \in Client \ {c} : conn'[d] = conn[d]
        /\ e.event # "close" => conn' = conn
    BY <1>0, <1>2, ToldKeeps
  <1>4. Typed'
    BY <1>0, <1>3 DEF GInv, Typed
  <1>5. Speech'
    BY <1>0, <1>3 DEF Speech
  <1>6. ASSUME Watching' PROVE Building' /\ CountedRight' /\ ListedRight' /\ TransfersRight'
    <2>1. Watching /\ gui.at = "loop" /\ Building /\ CountedRight /\ ListedRight /\ TransfersRight
      BY <1>0, <1>6 DEF Watching, GInv
    <2>2. Rows' = Rows /\ Going' = Going
      BY <1>0 DEF Rows, Going
    <2>3. Pending = IF e.event = "close" THEN {c} ELSE {}
      BY <1>1, <1>2 DEF Pending
    <2>4. Pending' = {}
      <3>1. CASE Len(report) = 1
        BY <1>3, <3>1 DEF Pending
      <3>2. CASE Len(report) # 1
        <4>1. Head(report').event = "close" /\ ~After' /\ Before'
          BY <1>3, <3>2 DEF Close
        <4> QED BY <4>1 DEF Pending
      <3> QED BY <3>1, <3>2
    <2> HIDE DEF e, c
    <2>5. Open' = IF e.event = "close" THEN Open \ {c} ELSE Open
      BY <1>2, <1>3 DEF Open
    <2>6. Shown' = Shown /\ (e.event = "close" => c \notin Shown)
      BY <2>3, <2>4, <2>5 DEF Shown
    <2>7. Building'
      BY <1>0, <1>3, <2>1 DEF Building
    <2>8. CountedRight'
      BY <1>0, <2>1, <2>6 DEF CountedRight
    <2>9. ListedRight'
      BY <1>0, <2>1, <2>2, <2>6 DEF ListedRight
    <2>10. ASSUME ~seen.reset, ~seen.untold, NEW d \in Client
           PROVE  conn'[d].transfers \in {0, 1} /\ RowRight(d)'
      <3>1. conn[d].transfers \in {0, 1} /\ RowRight(d)
        BY <2>1, <2>10 DEF TransfersRight
      <3>2. conn'[d].transfers \in {0, 1}
        BY <1>3, <3>1
      <3>3. CASE d # c
        <4>1. (d \in Going <=> conn[d].transfers = 1) /\ conn'[d] = conn[d]
          BY <1>3, <3>1, <3>3 DEF RowRight, e, c
        <4>2. report' = <<>> \/ Head(report').of = c
          BY <1>3 DEF Close
        <4> QED BY <2>2, <3>2, <3>3, <4>1, <4>2 DEF RowRight
      <3>4. CASE d = c /\ e.event = "close"
        <4>1. report' = <<>> /\ conn'[d].transfers = 0
          BY <1>3, <3>4
        <4>2. c \notin Going
          BY <2>1, <2>6, <2>10, <3>4 DEF Going, ListedRight
        <4> QED BY <2>2, <3>2, <3>4, <4>1, <4>2 DEF RowRight
      <3>5. CASE d = c /\ e.event # "close" /\ Len(report) = 1
        <4>1. report' = <<>> /\ conn' = conn
          BY <1>3, <3>5
        <4>2. c \in Going <=> conn[c].transfers = 1
          BY <1>1, <1>2, <3>1, <3>5 DEF RowRight, Event, e, c
        <4> QED BY <2>2, <3>2, <3>5, <4>1, <4>2 DEF RowRight
      <3>6. CASE d = c /\ Len(report) # 1
        <4>1. report' # <<>> /\ Head(report').event = "close" /\ Head(report').of = c
          BY <1>3, <3>6 DEF Close
        <4> QED BY <3>2, <3>6, <4>1 DEF RowRight
      <3> QED BY <3>3, <3>4, <3>5, <3>6
    <2>11. TransfersRight'
      BY <1>0, <2>1, <2>2, <2>10 DEF TransfersRight
    <2> QED BY <2>7, <2>8, <2>9, <2>11
  <1> QED BY <1>3, <1>4, <1>5, <1>6 DEF GInv

-----------------------------------------------------------------------------
(* The list.                                                               *)

LEMMA ListRows ==
    ASSUME sConnectionList \in List
    PROVE  /\ Rows \subseteq Client \cup {Unknown} /\ sConnectionList \in [Rows -> RowState]
           /\ sConnectionList # NULL
PROOF
  <1>1. sConnectionList # NULL
    BY NullAssumption
  <1>2. PICK addresses \in SUBSET (Client \cup {Unknown}) : sConnectionList \in [addresses -> RowState]
    BY DEF List
  <1>3. Rows = addresses
    BY <1>1, <1>2 DEF Rows
  <1> QED BY <1>1, <1>2, <1>3

LEMMA RowUpdated ==
    ASSUME sConnectionList \in List, NEW address \in Client \cup {Unknown}, NEW state \in RowState,
           updateRow(address, state)
    PROVE  /\ sConnectionList' \in List /\ sConnectionList' # NULL
           /\ Rows' = Rows \cup {address}
           /\ Going' = IF InTransfer(state) THEN Going \cup {address} ELSE Going \ {address}
PROOF
  <1>1. /\ Rows \subseteq Client \cup {Unknown} /\ sConnectionList \in [Rows -> RowState]
        /\ sConnectionList # NULL
    BY ListRows
  <1> DEFINE next == [a \in Rows \cup {address} |-> IF a = address THEN state ELSE sConnectionList[a]]
  <1>2. sConnectionList' = next
    BY <1>1 DEF updateRow
  <1>3. next \in [Rows \cup {address} -> RowState] /\ Rows \cup {address} \subseteq Client \cup {Unknown}
    BY <1>1
  <1>4. sConnectionList' \in List /\ sConnectionList' # NULL
    BY <1>2, <1>3, NullAssumption DEF List
  <1>5. Rows' = Rows \cup {address}
    BY <1>2, <1>4 DEF Rows
  <1>6. /\ sConnectionList'[address] = state
        /\ \A a \in Rows \ {address} : sConnectionList'[a] = sConnectionList[a]
    BY <1>2
  <1>7. Going' = {a \in Rows' : InTransfer(sConnectionList'[a])}
    BY DEF Going
  <1> HIDE DEF next
  <1>8. \A a : a \in Going' <=> a \in Rows' /\ InTransfer(sConnectionList'[a])
    BY <1>7
  <1>9. \A a : a \in Going <=> a \in Rows /\ InTransfer(sConnectionList[a])
    BY DEF Going
  <1>10. \A a : a \in Going' <=> IF a = address THEN InTransfer(state) ELSE a \in Going
    BY <1>5, <1>6, <1>8, <1>9
  <1> QED BY <1>4, <1>5, <1>10

LEMMA RowRemoved ==
    ASSUME sConnectionList \in List, NEW address \in Rows, removeRow(address)
    PROVE  /\ sConnectionList' \in List /\ sConnectionList' # NULL
           /\ Rows' = Rows \ {address}
           /\ Going' = Going \ {address}
           /\ nActiveTransfers' = IF address \in Going THEN Down(nActiveTransfers)
                                  ELSE nActiveTransfers
PROOF
  <1>1. /\ Rows \subseteq Client \cup {Unknown} /\ sConnectionList \in [Rows -> RowState]
        /\ sConnectionList # NULL
    BY ListRows
  <1>2. /\ sConnectionList' = [a \in Rows \ {address} |-> sConnectionList[a]]
        /\ nActiveTransfers' = IF InTransfer(sConnectionList[address])
                               THEN Down(nActiveTransfers) ELSE nActiveTransfers
    BY DEF removeRow
  <1>3. sConnectionList' \in [Rows \ {address} -> RowState]
        /\ Rows \ {address} \subseteq Client \cup {Unknown}
    BY <1>1, <1>2
  <1>4. sConnectionList' \in List /\ sConnectionList' # NULL
    BY <1>3, NullAssumption DEF List
  <1>5. Rows' = Rows \ {address}
    BY <1>2, <1>4 DEF Rows
  <1>6. \A a \in Rows \ {address} : sConnectionList'[a] = sConnectionList[a]
    BY <1>2
  <1>7. Going' = {a \in Rows' : InTransfer(sConnectionList'[a])}
    BY DEF Going
  <1>8. Going' = Going \ {address}
    BY <1>5, <1>6, <1>7 DEF Going
  <1>9. address \in Going <=> InTransfer(sConnectionList[address])
    BY DEF Going
  <1> QED BY <1>2, <1>4, <1>5, <1>8, <1>9

LEMMA NoneRemoved ==
    ASSUME NEW address, address \notin Rows, removeRow(address)
    PROVE  UNCHANGED <<sConnectionList, nActiveTransfers>>
  BY DEF removeRow

LEMMA Wraps == \A n \in Int : Up(n) \in Int /\ Down(n) \in Int
PROOF
  <1>1. \A n \in Int : n + 1 \in Int /\ n - 1 \in Int
    OBVIOUS
  <1>2. \A x \in Int : x % CounterSize \in Int
    BY ModShape, CounterAssumption
  <1> QED BY <1>1, <1>2 DEF Up, Down

LEMMA StartRow == TSYN \in RowState /\ ~InTransfer(TSYN)
  BY DEF TSYN, RowState, InTransfer

(* What an event does to the list and to the counters.                     *)
LEMMA ListTyped ==
    ASSUME GInv, UpdateList
    PROVE  /\ sConnectionList' \in List \cup {NULL}
           /\ nActiveConnections' \in Int /\ nActiveTransfers' \in Int
PROOF
  <1> DEFINE e == Head(report)
  <1>0. thread.at = "rows"
    BY Places DEF UpdateList
  <1>1. /\ Telling /\ e.of \in Client /\ e.event \in Event
        /\ e.event = "respond" => [type |-> e.type, code |-> e.code] \in RowState
    BY <1>0, Tells DEF Telling
  <1> HIDE DEF e
  <1>2. PICK address \in Address(e.of) :
            CASE e.event = "close" -> callbackCloseSocket(address)
              [] e.event = "accept" -> callbackNewSocket(address)
              [] e.event = "finish" -> callbackHttpEnd(address)
              [] e.event = "respond" -> callbackHttpStart(address, e.type, e.code)
    BY DEF UpdateList, e
  <1>3. address \in Client \cup {Unknown}
    BY <1>1, <1>2 DEF Address
  <1>4. /\ nActiveConnections \in Int /\ nActiveTransfers \in Int
        /\ sConnectionList \in List \cup {NULL}
    BY DEF GInv, Typed
  <1>5. \A state \in RowState : updateRow(address, state) => sConnectionList' \in List \cup {NULL}
    <2>1. CASE sConnectionList = NULL
      BY <2>1 DEF updateRow
    <2>2. CASE sConnectionList # NULL
      BY <1>3, <1>4, <2>2, RowUpdated
    <2> QED BY <2>1, <2>2
  <1>6. removeRow(address) => sConnectionList' \in List \cup {NULL} /\ nActiveTransfers' \in Int
    <2>1. CASE address \in Rows
      <3>1. sConnectionList \in List
        BY <1>4, <2>1 DEF Rows
      <3> QED BY <1>4, <2>1, <3>1, RowRemoved, Wraps
    <2>2. CASE address \notin Rows
      BY <1>4, <2>2, NoneRemoved
    <2> QED BY <2>1, <2>2
  <1>7. CASE e.event = "close"
    <2>1. callbackCloseSocket(address)
      BY <1>2, <1>7
    <2> QED BY <1>4, <1>6, <2>1, Wraps DEF callbackCloseSocket
  <1>8. CASE e.event = "accept"
    <2>1. callbackNewSocket(address)
      BY <1>2, <1>8
    <2> QED BY <1>4, <1>5, <2>1, Wraps, StartRow DEF callbackNewSocket
  <1>9. CASE e.event = "finish"
    <2>1. callbackHttpEnd(address)
      BY <1>2, <1>9
    <2> QED BY <1>4, <1>5, <2>1, Wraps, StartRow DEF callbackHttpEnd
  <1>10. CASE e.event = "respond"
    <2>1. callbackHttpStart(address, e.type, e.code)
      BY <1>2, <1>10
    <2> QED BY <1>1, <1>4, <1>5, <1>10, <2>1, Wraps DEF callbackHttpStart
  <1> QED BY <1>1, <1>7, <1>8, <1>9, <1>10 DEF Event

LEMMA UpdateListStep ==
    ASSUME GInv, UpdateList PROVE GInv'
PROOF
  <1> DEFINE e == Head(report)
             c == e.of
             state == [type |-> e.type, code |-> e.code]
  <1>0. /\ UNCHANGED <<gui, callback, globalRootPath, report, conn, seen>>
        /\ thread = At("rows") /\ (sConnectionList = NULL \/ gui = At("loop"))
    BY DEF UpdateList, window
  <1>1. thread.at = "rows" /\ Before /\ ~After
    BY <1>0, Places DEF Before, After
  <1>2. /\ Telling /\ report # <<>> /\ c \in Client /\ e.event \in Event /\ conn[c].open
        /\ e.event = "respond" => state \in RowState
        /\ gui.at # "new"
    BY <1>1, Tells DEF Telling
  <1>3. PICK address \in Address(c) :
          /\ CASE e.event = "close" -> callbackCloseSocket(address)
               [] e.event = "accept" -> callbackNewSocket(address)
               [] e.event = "finish" -> callbackHttpEnd(address)
               [] e.event = "respond" -> callbackHttpStart(address, e.type, e.code)
          /\ thread' = At(IF e.event = "close" /\ address \notin Rows THEN "box" ELSE "label")
    BY DEF UpdateList
  <1>4. /\ thread'.at \in {"box", "label"} /\ (thread'.at = "box" => e.event = "close")
        /\ After' /\ ~Before'
    BY <1>3, Places DEF After, Before
  <1>5. Typed' /\ Honest'
    BY <1>0, ListTyped DEF GInv, Typed, Honest
  <1>6. Telling'
    BY <1>0, <1>2, <1>4 DEF Telling, Close
  <1>7. Speech'
    BY <1>0, <1>2, <1>4, <1>6 DEF Speech
  <1>8. ASSUME Watching' PROVE Building' /\ CountedRight' /\ ListedRight' /\ TransfersRight'
    <2>1. Watching /\ Building /\ CountedRight /\ ListedRight /\ TransfersRight
      BY <1>0, <1>8 DEF Watching, GInv
    <2>2. gui.at = "loop" /\ sConnectionList # NULL
      BY <1>1, <1>2, <2>1 DEF Building, Calm, Watching
    <2>3. sConnectionList \in List /\ nActiveTransfers \in Int
      BY <2>2 DEF GInv, Typed
    <2>4. address \in Client \cup {Unknown}
      BY <1>2, <1>3 DEF Address
    <2>5. Pending = IF e.event = "accept" THEN {c} ELSE {}
      BY <1>1, <1>2 DEF Pending
    <2>6. Pending' = IF e.event = "close" THEN {c} ELSE {}
      BY <1>0, <1>2, <1>4 DEF Pending
    <2>7. Open' = Open /\ c \in Open /\ IsFiniteSet(Shown)
      BY <1>0, <1>2, ShownFinite DEF Open
    <2>8. (~seen.reset => address = c) /\ Rows \subseteq Client \cup {Unknown}
      BY <1>2, <1>3, <2>3, ListRows DEF GInv, Honest, Address
    <2>9. IsFiniteSet(Going)
      <3>1. IsFiniteSet(Client \cup {Unknown}) /\ Going \subseteq Client \cup {Unknown}
        BY <2>8, ClientAssumption, FS_AddElement DEF Going
      <3> QED BY <3>1, FS_Subset
    <2>10. ASSUME ~seen.reset, ~seen.untold
           PROVE  /\ nActiveTransfers = Cardinality(Going) % CounterSize
                  /\ \A d \in Client : conn[d].transfers \in {0, 1} /\ RowRight(d)
      BY <2>1, <2>2, <2>10 DEF TransfersRight
    <2>11. ~seen.reset /\ ~seen.untold =>
              \A d \in Client \ {c} : d \in Going <=> conn[d].transfers = 1
      BY <2>10 DEF RowRight
    <2> DEFINE Right(going) == \A d \in Client \ {c} : d \in going <=> d \in Going
    (* What remains to be shown for each event.                            *)
    <2>12. ASSUME sConnectionList' # NULL,
                  nActiveConnections' = Cardinality(Shown') % CounterSize,
                  ~seen.reset => Rows' = Shown',
                  ~seen.reset /\ ~seen.untold =>
                      /\ nActiveTransfers' = Cardinality(Going') % CounterSize
                      /\ Right(Going') /\ RowRight(c)'
           PROVE  Building' /\ CountedRight' /\ ListedRight' /\ TransfersRight'
      <3>1. Building'
        BY <1>0, <1>4, <2>1, <2>2, <2>12 DEF Building
      <3>2. CountedRight' /\ ListedRight'
        BY <1>0, <2>12 DEF CountedRight, ListedRight
      <3>3. ASSUME ~seen.reset, ~seen.untold, NEW d \in Client \ {c} PROVE RowRight(d)'
        BY <1>0, <2>11, <2>12, <3>3 DEF RowRight
      <3>4. TransfersRight'
        BY <1>0, <2>10, <2>12, <3>3 DEF TransfersRight
      <3> QED BY <3>1, <3>2, <3>4
    <2>13. CASE e.event = "close"
      <3>1. callbackCloseSocket(address)
        BY <1>3, <2>13
      <3>2. removeRow(address) /\ nActiveConnections' = Down(nActiveConnections)
        BY <3>1 DEF callbackCloseSocket
      <3>3. Shown = Open /\ Shown' = Shown \ {c} /\ c \in Shown
        BY <2>5, <2>6, <2>7, <2>13 DEF Shown
      <3>4. nActiveConnections' = Cardinality(Shown') % CounterSize
        BY <2>1, <2>7, <3>2, <3>3, CountDown DEF CountedRight
      <3>5. sConnectionList' # NULL
        <4>1. CASE address \in Rows
          BY <2>3, <3>2, <4>1, RowRemoved
        <4>2. CASE address \notin Rows
          BY <2>2, <3>2, <4>2, NoneRemoved
        <4> QED BY <4>1, <4>2
      <3>6. ~seen.reset =>
              /\ Rows' = Rows \ {c} /\ Going' = Going \ {c} /\ Rows = Shown
              /\ nActiveTransfers' = IF c \in Going THEN Down(nActiveTransfers) ELSE nActiveTransfers
        <4>1. SUFFICES ASSUME ~seen.reset
                       PROVE  /\ Rows' = Rows \ {c} /\ Going' = Going \ {c} /\ Rows = Shown
                              /\ nActiveTransfers' = IF c \in Going THEN Down(nActiveTransfers)
                                                     ELSE nActiveTransfers
          OBVIOUS
        <4>2. Rows = Shown /\ address = c /\ c \in Rows /\ removeRow(c)
          BY <2>1, <2>2, <2>8, <3>2, <3>3, <4>1 DEF ListedRight
        <4> HIDE DEF c
        <4> QED BY <2>3, <4>2, RowRemoved
      <3>7. RowRight(c)'
        BY <1>0, <1>2, <2>13 DEF RowRight
      <3> HIDE DEF c
      <3>8. ~seen.reset /\ ~seen.untold => nActiveTransfers' = Cardinality(Going') % CounterSize
        <4>1. CASE c \in Going
          BY <2>9, <2>10, <3>6, <4>1, CountDown
        <4>2. CASE c \notin Going
          <5>1. Going \ {c} = Going
            BY <4>2
          <5> QED BY <2>10, <3>6, <4>2, <5>1
        <4> QED BY <4>1, <4>2
      <3> QED BY <2>12, <3>3, <3>4, <3>5, <3>6, <3>7, <3>8
    <2>14. CASE e.event = "accept"
      <3>1. callbackNewSocket(address)
        BY <1>3, <2>14
      <3>2. /\ updateRow(address, TSYN) /\ nActiveConnections' = Up(nActiveConnections)
            /\ nActiveTransfers' = nActiveTransfers
        BY <3>1 DEF callbackNewSocket
      <3>3. Shown' = Shown \cup {c} /\ c \notin Shown
        BY <2>5, <2>6, <2>7, <2>14 DEF Shown
      <3>4. nActiveConnections' = Cardinality(Shown') % CounterSize
        BY <2>1, <2>7, <3>2, <3>3, CountUp DEF CountedRight
      <3>5. /\ sConnectionList' # NULL /\ Rows' = Rows \cup {address}
            /\ Going' = Going \ {address}
        BY <2>3, <2>4, <3>2, StartRow, RowUpdated
      <3>6. ~seen.reset => Rows' = Shown'
        BY <2>1, <2>2, <2>8, <3>3, <3>5 DEF ListedRight
      <3>7. ~seen.reset /\ ~seen.untold => c \notin Going /\ conn[c].transfers # 1
        BY <1>2, <2>10, <2>14 DEF RowRight
      <3>8. ~seen.reset /\ ~seen.untold => Going' = Going
        BY <2>8, <3>5, <3>7
      <3>9. ~seen.reset /\ ~seen.untold => RowRight(c)'
        BY <1>0, <1>2, <2>14, <3>7, <3>8 DEF RowRight
      <3> QED BY <2>10, <2>12, <3>2, <3>4, <3>5, <3>6, <3>8, <3>9
    <2>15. CASE e.event = "finish"
      <3>1. callbackHttpEnd(address)
        BY <1>3, <2>15
      <3>2. /\ updateRow(address, TSYN) /\ nActiveTransfers' = Down(nActiveTransfers)
            /\ nActiveConnections' = nActiveConnections
        BY <3>1 DEF callbackHttpEnd
      <3>3. Shown' = Shown /\ c \in Shown
        BY <2>5, <2>6, <2>7, <2>15 DEF Shown
      <3>4. /\ sConnectionList' # NULL /\ Rows' = Rows \cup {address}
            /\ Going' = Going \ {address}
        BY <2>3, <2>4, <3>2, StartRow, RowUpdated
      <3>5. ~seen.reset => Rows' = Shown'
        BY <2>1, <2>2, <2>8, <3>3, <3>4 DEF ListedRight
      <3>6. ~seen.reset /\ ~seen.untold => c \in Going /\ conn[c].transfers # 1
        BY <1>1, <1>2, <2>10, <2>15 DEF RowRight
      <3>7. ~seen.reset /\ ~seen.untold => Going' = Going \ {c}
        BY <2>8, <3>4
      <3>8. ~seen.reset /\ ~seen.untold => RowRight(c)'
        BY <1>0, <1>2, <1>4, <2>15, <3>6, <3>7 DEF RowRight
      <3> HIDE DEF c
      <3>9. ~seen.reset /\ ~seen.untold => nActiveTransfers' = Cardinality(Going') % CounterSize
        BY <2>9, <2>10, <3>2, <3>6, <3>7, CountDown
      <3> QED BY <2>1, <2>12, <3>2, <3>3, <3>4, <3>5, <3>7, <3>8, <3>9 DEF CountedRight
    <2>16. CASE e.event = "respond"
      <3>1. callbackHttpStart(address, e.type, e.code)
        BY <1>3, <2>16
      <3>2. /\ updateRow(address, state) /\ nActiveConnections' = nActiveConnections
            /\ nActiveTransfers' = IF Counted(e.code) THEN Up(nActiveTransfers) ELSE nActiveTransfers
        BY <3>1 DEF callbackHttpStart
      <3>3. Shown' = Shown /\ c \in Shown
        BY <2>5, <2>6, <2>7, <2>16 DEF Shown
      <3>4. /\ sConnectionList' # NULL /\ Rows' = Rows \cup {address}
            /\ Going' = IF InTransfer(state) THEN Going \cup {address} ELSE Going \ {address}
        <4>1. state \in RowState
          BY <1>2, <2>16
        <4> HIDE DEF state
        <4> QED BY <2>3, <2>4, <3>2, <4>1, RowUpdated
      <3>5. ~seen.reset => Rows' = Shown'
        BY <2>1, <2>2, <2>8, <3>3, <3>4 DEF ListedRight
      <3>6. ~seen.reset /\ ~seen.untold =>
              /\ c \notin Going /\ (Counted(e.code) <=> InTransfer(state))
              /\ Len(report) = 1 => (InTransfer(state) <=> conn[c].transfers = 1)
        BY <1>1, <1>2, <2>10, <2>16 DEF RowRight
      <3>7. ~seen.reset /\ ~seen.untold =>
              Going' = IF InTransfer(state) THEN Going \cup {c} ELSE Going
        BY <2>8, <3>4, <3>6
      <3>8. ~seen.reset /\ ~seen.untold => (c \in Going' <=> InTransfer(state))
        BY <3>6, <3>7
      <3>9. ~seen.reset /\ ~seen.untold => RowRight(c)'
        BY <1>0, <1>2, <1>4, <2>16, <3>6, <3>8 DEF RowRight
      <3> HIDE DEF c, state
      <3>10. ~seen.reset /\ ~seen.untold => nActiveTransfers' = Cardinality(Going') % CounterSize
        <4>1. CASE InTransfer(state)
          BY <2>9, <2>10, <3>2, <3>6, <3>7, <4>1, CountUp
        <4>2. CASE ~InTransfer(state)
          BY <2>10, <3>2, <3>6, <3>7, <4>2
        <4> QED BY <4>1, <4>2
      <3> QED BY <2>1, <2>12, <3>2, <3>3, <3>4, <3>5, <3>7, <3>9, <3>10 DEF CountedRight
    <2> QED BY <1>2, <2>13, <2>14, <2>15, <2>16 DEF Event
  <1> QED BY <1>5, <1>7, <1>8 DEF GInv

-----------------------------------------------------------------------------
(* The theorems.                                                           *)

LEMMA GuiNext ==
    ASSUME GInv, [Next]_vars PROVE GInv'
PROOF
  <1>1. CASE GuiStep
    BY <1>1, ListCreateStep, WindowCreateStep, ClosingStep DEF GuiStep
  <1>2. CASE User
    <2>1. ASSUME NEW text \in PortText, startServer(text) PROVE GInv'
      BY <2>1, StartStep
    <2> QED BY <1>2, <2>1, CloseNewStep, ClosingStep DEF User
  <1>3. CASE ServerStep
    <2>1. CASE Check \/ Select \/ PassEnds \/ Invoke \/ Call \/ UpdateList \/ UpdateLabel
      BY <2>1, PassStep, InvokeStep, CallStep, UpdateListStep, LabelStep
    <2>2. ASSUME NEW c \in Client, platformAcceptConnection(c) \/ RoutineTick(c) \/ PeerGone(c)
          PROVE  GInv'
      BY <2>2, AcceptStep, RoutineTickStep, PeerGoneStep
    <2>3. ASSUME NEW c \in Client, NEW r \in Response, handleConnection(c, r) PROVE GInv'
      BY <2>3, HandleStep
    <2> QED BY <1>3, <2>1, <2>2, <2>3 DEF ServerStep
  <1>4. CASE Dismiss
    BY <1>4, DismissStep
  <1>5. ASSUME NEW c \in Client, Reset(c) PROVE GInv'
    BY <1>5, ResetStep
  <1>6. CASE UNCHANGED vars
    <2>1. UNCHANGED <<statistics, server, gui, callback, globalRootPath, seen>>
      BY <1>6 DEF vars, window
    <2> QED BY <2>1, SameStep
  <1> QED BY <1>1, <1>2, <1>3, <1>4, <1>5, <1>6 DEF Next

(* The threads of the graphical server keep the invariant: every step of   *)
(* the window's thread, of serverTick and of the callbacks of wrunserv.c,  *)
(* in every order, from the dialog to the end of the program.              *)
THEOREM GuiInvariant == Spec => []GInv
PROOF
  <1>1. Init => GInv
    BY InitHolds
  <1>2. GInv /\ [Next]_vars => GInv'
    BY GuiNext
  <1> QED BY <1>1, <1>2, PTL DEF Spec

LEMMA AtRest ==
    ASSUME GInv, Quiet
    PROVE  /\ CountedRight /\ ListedRight /\ TransfersRight /\ Shown = Open /\ gui.at = "loop"
           /\ report = <<>>
PROOF
  <1>1. gui.at = "loop" /\ Watching /\ report = <<>>
    BY Places DEF Quiet, Watching
  <1>2. Shown = Open
    BY <1>1 DEF Shown, Pending
  <1> QED BY <1>1, <1>2 DEF GInv

(* Between two events the label of the connections says how many there     *)
(* are, modulo the size of the counter, whichever way connections end and  *)
(* also when getpeername() in callbackCloseSocket fails.                   *)
THEOREM ConnectionsCounted == Spec => []ConnectionsExact
PROOF
  <1>1. GInv => ConnectionsExact
    BY AtRest DEF CountedRight, ConnectionsExact
  <1> QED BY <1>1, GuiInvariant, PTL

(* Between two events the list of updateRow and removeRow has a row for    *)
(* each connection and no other, as long as no peer reset one.             *)
THEOREM RowsMatch == Spec => []RowsExact
PROOF
  <1>1. GInv => RowsExact
    BY AtRest DEF ListedRight, RowsExact
  <1> QED BY <1>1, GuiInvariant, PTL

(* Between two events the label of the transfers says how many routines    *)
(* are at work: what callbackHttpStart counts up is counted down once, by  *)
(* callbackHttpEnd or by removeRow, while there is no HEAD, no second      *)
(* request before the first is answered and no reset.                      *)
THEOREM TransfersCounted == Spec => []TransfersExact
PROOF
  <1>1. GInv => TransfersExact
    <2>1. SUFFICES ASSUME GInv, Quiet, ~seen.reset, ~seen.untold
                   PROVE  nActiveTransfers =
                              Cardinality({c \in Client : conn[c].transfers > 0}) % CounterSize
      BY DEF TransfersExact
    <2>2. /\ nActiveTransfers = Cardinality(Going) % CounterSize
          /\ \A c \in Client : conn[c].transfers \in {0, 1} /\ (c \in Going <=> conn[c].transfers = 1)
      BY <2>1, AtRest DEF TransfersRight, RowRight
    <2>3. Going \subseteq Client
      BY <2>1, AtRest DEF Going, ListedRight, Open
    <2>4. Going = {c \in Client : conn[c].transfers > 0}
      BY <2>2, <2>3
    <2> QED BY <2>2, <2>4
  <1> QED BY <1>1, GuiInvariant, PTL

=============================================================================
