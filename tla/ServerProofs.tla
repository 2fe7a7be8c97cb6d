---------------------------- MODULE ServerProofs ----------------------------
(***************************************************************************)
(* For any number of connections and descriptors, any sizes of buffers,    *)
(* files and directories, and clients that connect, read, close and reset  *)
(* as they like but send one request on each connection: the server loop   *)
(* keeps every response on its own connection, in order and without gaps,  *)
(* gives a file up only when its client is gone, and never stops.  In the  *)
(* second part clients send any number of requests, each after the answer  *)
(* to the one before.                                                      *)
(***************************************************************************)
EXTENDS Server, RoutineLemmas, FiniteSetTheorems, WellFoundedInduction

-----------------------------------------------------------------------------
(* The inductive invariant, in named parts.                                *)

Entry == [r : RoutineType, fd : Fd, conn : Conn]

Typed ==
    /\ routines \in Seq(Entry) /\ readSet \subseteq Fd /\ deferred \subseteq Fd
    /\ pc \in {"tick", "scan"} /\ idx \in Nat \ {0}
    /\ readyRead \subseteq Fd \cup {Listen} /\ readyWrite \subseteq Fd
    /\ table \in [Fd -> Conn \cup {None}] /\ backlog \in Seq(Conn)
    /\ inbox \in [Conn -> Seq(Request)]
    /\ wire \in [Conn -> Seq(Byte)] /\ answers \in [Conn -> Seq(Byte)]
    /\ taken \in [Conn -> Nat]
    /\ eof \in [Conn -> BOOLEAN] /\ broken \in [Conn -> BOOLEAN]
    /\ asked \in [Conn -> 0..MaxRequests]

(* The kernel holds at most Cap bytes the client has not read.             *)
Window == \A c \in Conn : taken[c] <= Len(wire[c]) /\ Len(wire[c]) - taken[c] <= Cap

(* The sets select() watches hold open descriptors only.                   *)
Watched == readSet = {f \in Fd : Open(f)} /\ deferred \subseteq readSet

(* A connection has one descriptor, or one place in the backlog, or        *)
(* neither.                                                                *)
Distinct ==
    /\ \A f, g \in Fd : Open(f) /\ table[f] = table[g] => f = g
    /\ \A i, j \in 1..Len(backlog) : backlog[i] = backlog[j] => i = j
    /\ \A f \in Fd, i \in 1..Len(backlog) : table[f] # backlog[i]

(* What select() reported still holds when the scan reaches it.            *)
Reported ==
    pc = "scan" =>
        /\ \A f \in readyRead \ {Listen} : f \in readSet /\ Readable(f)
        /\ \A f \in readyWrite : f \in deferred /\ Writable(f)
        /\ Listen \in readyRead => backlog # <<>>

Streams == \A c \in Conn : Begins(wire[c], answers[c])

(* What holds whatever the clients send.                                   *)
Base == Typed /\ Window /\ Watched /\ Distinct /\ Reported /\ Streams

(* One request on a connection: while it waits nothing has been answered,  *)
(* and before it is answered nothing is sent and nobody sends.             *)
OneRequest ==
    \A c \in Conn :
        /\ asked[c] = 0 => inbox[c] = <<>> /\ answers[c] = <<>>
        /\ inbox[c] # <<>> => answers[c] = <<>>
        /\ answers[c] = <<>> => wire[c] = <<>>
        /\ answers[c] = <<>> => \A i \in Index : routines[i].conn # c

(* An entry of the array whose descriptor belongs to owner, over a         *)
(* connection that took d of the response R and has room for more; the     *)
(* descriptors in waiting are deferred.                                    *)
Fit(e, owner, d, R, room, lost, waiting) ==
    /\ owner = e.conn
    /\ Sound(e.r, d, R, lost)
    /\ e.r.state = "FAIL" => lost
    /\ e.r.state = "DEFER" /\ e.fd \notin waiting => room > 0 \/ lost

Served ==
    \A i \in Index :
        LET e == routines[i]
        IN  Fit(e, table[e.fd], wire[e.conn], answers[e.conn], Room(e.conn), broken[e.conn],
                deferred)

OneEach == \A i, j \in Index : routines[i].conn = routines[j].conn => i = j

(* What a step does to the file routines (NeverAbandoned is [][Kept]_vars). *)
Kept ==
    \A c \in Conn :
        (\E i \in Of(c) : SendsFile(i)) /\ Of(c)' = {}
            => wire'[c] = answers'[c] \/ eof[c] \/ broken[c]

SInv == Base /\ OneRequest /\ Served /\ OneEach /\ DeferredOwned

-----------------------------------------------------------------------------
(* Facts about the operators of the model.                                 *)

(* The lowest element of a set of descriptors is in it.                    *)
LEMMA LowestIn ==
    ASSUME NEW S, S \subseteq Nat, S # {}
    PROVE  Lowest(S) \in S /\ \A g \in S : Lowest(S) <= g
PROOF
  <1>1. PICK x \in S : \A y \in S : <<y, x>> \notin OpToRel(<, Nat)
    BY NatLessThanWellFounded, WFMin
  <1>2. \A y \in S : ~(y < x)
    BY <1>1 DEF OpToRel
  <1>3. \A y \in S : x <= y
    BY <1>2
  <1> QED BY <1>3 DEF Lowest

(* The array without its i-th routine.                                     *)
Without(s, i) == First(s, i - 1) \o Drop(s, i)
Skip(i, j) == IF j < i THEN j ELSE j + 1

LEMMA DelIdx ==
    ASSUME NEW S, NEW s \in Seq(S), NEW i \in 1..Len(s)
    PROVE  LET t == Without(s, i)
           IN  /\ t \in Seq(S) /\ Len(t) = Len(s) - 1
               /\ \A j \in 1..Len(t) : /\ Skip(i, j) \in 1..Len(s) /\ Skip(i, j) # i
                                       /\ t[j] = s[Skip(i, j)]
               /\ \A j, k \in 1..Len(t) : Skip(i, j) = Skip(i, k) => j = k
               /\ \A k \in 1..Len(s) : k # i => \E j \in 1..Len(t) : Skip(i, j) = k
PROOF
  <1> DEFINE t == Without(s, i)
             a == SubSeq(s, 1, i - 1)
             b == SubSeq(s, i + 1, Len(s))
  <1>0. Len(s) \in Nat /\ i \in Nat /\ 1 <= i /\ i <= Len(s) /\ \A k \in 1..Len(s) : s[k] \in S
    BY LenProperties, ElementOfSeq
  <1>1. a \in Seq(S) /\ Len(a) = i - 1 /\ \A k \in 1..(i - 1) : a[k] = s[k]
    <2>1. \A k \in 1..(i - 1) : s[k] \in S
      BY <1>0
    <2>2. /\ a \in Seq(S) /\ Len(a) = (IF 1 <= i - 1 THEN i - 1 - 1 + 1 ELSE 0)
          /\ \A k \in 1..(i - 1 - 1 + 1) : a[k] = s[1 + k - 1]
      BY <1>0, <2>1, SubSeqProperties
    <2> HIDE DEF a
    <2> QED BY <1>0, <2>2
  <1>2. b \in Seq(S) /\ Len(b) = Len(s) - i /\ \A k \in 1..(Len(s) - i) : b[k] = s[i + k]
    <2>1. \A k \in (i + 1)..Len(s) : s[k] \in S
      BY <1>0
    <2>2. /\ b \in Seq(S) /\ Len(b) = (IF i + 1 <= Len(s) THEN Len(s) - (i + 1) + 1 ELSE 0)
          /\ \A k \in 1..(Len(s) - (i + 1) + 1) : b[k] = s[i + 1 + k - 1]
      BY <1>0, <2>1, SubSeqProperties
    <2> HIDE DEF b
    <2> QED BY <1>0, <2>2
  <1>3. t = a \o b
    BY DEF Without, First, Drop
  <1> HIDE DEF a, b, t
  <1>4. /\ t \in Seq(S) /\ Len(t) = Len(s) - 1
        /\ \A k \in 1..Len(t) : t[k] = IF k <= i - 1 THEN a[k] ELSE b[k - (i - 1)]
    <2>1. /\ a \o b \in Seq(S) /\ Len(a \o b) = Len(a) + Len(b)
          /\ \A k \in 1..(Len(a) + Len(b)) :
                (a \o b)[k] = IF k <= Len(a) THEN a[k] ELSE b[k - Len(a)]
      BY <1>1, <1>2, ConcatProperties
    <2>2. Len(a) = i - 1 /\ Len(a) + Len(b) = Len(s) - 1
      BY <1>0, <1>1, <1>2
    <2>3. Len(t) = Len(s) - 1
      BY <2>1, <2>2, <1>3
    <2>4. \A k \in 1..(Len(s) - 1) : t[k] = IF k <= i - 1 THEN a[k] ELSE b[k - (i - 1)]
      BY <2>1, <2>2, <1>3
    <2> QED BY <2>1, <2>3, <2>4, <1>3
  <1>5. ASSUME NEW j \in 1..Len(t)
        PROVE  Skip(i, j) \in 1..Len(s) /\ Skip(i, j) # i /\ t[j] = s[Skip(i, j)]
    <2>1. CASE j < i
      <3>1. t[j] = a[j] /\ a[j] = s[j]
        BY <2>1, <1>0, <1>1, <1>4
      <3> QED BY <3>1, <2>1, <1>0, <1>4 DEF Skip
    <2>2. CASE ~(j < i)
      <3>1. t[j] = b[j - (i - 1)] /\ b[j - (i - 1)] = s[i + (j - (i - 1))]
        BY <2>2, <1>0, <1>2, <1>4
      <3>2. i + (j - (i - 1)) = j + 1
        BY <1>0
      <3> QED BY <3>1, <3>2, <2>2, <1>0, <1>4 DEF Skip
    <2> QED BY <2>1, <2>2
  <1>6. \A j, k \in 1..Len(t) : Skip(i, j) = Skip(i, k) => j = k
    BY <1>0, <1>4 DEF Skip
  <1>7. ASSUME NEW k \in 1..Len(s), k # i PROVE \E j \in 1..Len(t) : Skip(i, j) = k
    <2>1. CASE k < i
      <3>1. k \in 1..Len(t) /\ Skip(i, k) = k
        BY <2>1, <1>0, <1>4 DEF Skip
      <3> QED BY <3>1
    <2>2. CASE ~(k < i)
      <3>1. k - 1 \in 1..Len(t) /\ Skip(i, k - 1) = k
        BY <2>2, <1>7, <1>0, <1>4 DEF Skip
      <3> QED BY <3>1
    <2> QED BY <2>1, <2>2
  <1> QED BY <1>4, <1>5, <1>6, <1>7 DEF t

(* What the kernel takes when descriptor f belongs to connection c.        *)
LEMMA SendOnShape ==
    ASSUME Typed, Window, NEW f \in Fd, NEW c \in Conn, table[f] = c, NEW len \in Nat,
           NEW net, net = SendOn(f, len)
    PROVE  /\ net \in SendOutcome(len)
           /\ net = [k |-> net.k, err |-> net.err]
           /\ net.k \in 0..len /\ net.err \in BOOLEAN
           /\ net.k <= Room(c) /\ Room(c) \in 0..Cap
           /\ net.err => broken[c] /\ len > 0 /\ net.k = 0
           /\ broken[c] => net.k = 0 /\ (net.err <=> len > 0)
           /\ ~broken[c] => net.k = Least(Room(c), len)
           /\ ~broken[c] /\ Room(c) > 0 /\ len > 0 => net.k > 0
PROOF
  <1>1. Open(f) /\ c # None
    BY ServerAssumption DEF Open
  <1>2. Room(c) \in 0..Cap /\ broken[c] \in BOOLEAN
    <2>1. Len(wire[c]) \in Nat /\ taken[c] \in Nat /\ Cap \in Nat
      BY LenProperties, ServerAssumption DEF Typed
    <2> QED BY <2>1 DEF Room, Window, Typed
  <1>3. CASE broken[c]
    <2>1. net = [k |-> 0, err |-> len > 0]
      BY <1>1, <1>3 DEF SendOn
    <2>2. net.k = 0 /\ (net.err <=> len > 0)
      <3>1. net.k = 0 /\ net.err = (len > 0)
        BY <2>1
      <3> QED BY <3>1
    <2>3. net \in [k : 0..len, err : BOOLEAN]
      BY <2>1
    <2>4. net \in SendOutcome(len)
      BY <2>2, <2>3 DEF SendOutcome
    <2>5. net = [k |-> net.k, err |-> net.err] /\ net.k \in 0..len /\ net.err \in BOOLEAN
      BY <2>3
    <2> QED BY <2>2, <2>4, <2>5, <1>2, <1>3
  <1>4. CASE ~broken[c]
    <2> DEFINE m == Least(Room(c), len)
    <2>1. net = [k |-> m, err |-> FALSE]
      BY <1>1, <1>4 DEF SendOn
    <2>2. m \in 0..len /\ m <= Room(c) /\ (Room(c) > 0 /\ len > 0 => m > 0)
      BY <1>2 DEF Least
    <2> HIDE DEF m
    <2>3. net.k = m /\ net.err = FALSE /\ net \in [k : 0..len, err : BOOLEAN]
      BY <2>1, <2>2
    <2>4. m = Least(Room(c), len)
      BY DEF m
    <2> QED BY <2>1, <2>2, <2>3, <2>4, <1>2, <1>4 DEF SendOutcome
  <1> QED BY <1>3, <1>4

(* Sending x on the descriptor of a connection.                            *)
LEMMA SentShape ==
    ASSUME Typed, NEW f, table[f] \in Conn, NEW x \in Seq(Byte)
    PROVE  Sent(f, x) = [wire EXCEPT ![table[f]] = wire[table[f]] \o x]
PROOF
  <1>1. CASE x = <<>>
    <2>1. wire[table[f]] \o x = wire[table[f]]
      BY <1>1, ConcatEmptySeq DEF Typed
    <2>2. Sent(f, x) = wire
      BY <1>1 DEF Sent
    <2> QED BY <2>1, <2>2 DEF Typed
  <1>2. CASE x # <<>>
    BY <1>2 DEF Sent
  <1> QED BY <1>1, <1>2

(* The fields of an entry of the array.                                    *)
LEMMA EntryFields ==
    ASSUME Typed, NEW i \in Index
    PROVE  /\ routines[i] \in Entry /\ routines[i].fd \in Fd /\ routines[i].conn \in Conn
           /\ routines[i].r \in RoutineType
           /\ routines[i] = [r |-> routines[i].r, fd |-> routines[i].fd, conn |-> routines[i].conn]
PROOF
  <1>1. routines[i] \in Entry
    BY ElementOfSeq DEF Typed, Index
  <1> QED BY <1>1 DEF Entry

(* The fields of a connection.                                             *)
LEMMA ConnFields ==
    ASSUME Typed, NEW c \in Conn
    PROVE  /\ wire[c] \in Seq(Byte) /\ answers[c] \in Seq(Byte) /\ inbox[c] \in Seq(Request)
           /\ Len(wire[c]) \in Nat /\ Len(answers[c]) \in Nat /\ taken[c] \in Nat /\ Cap \in Nat
           /\ eof[c] \in BOOLEAN /\ broken[c] \in BOOLEAN /\ asked[c] \in 0..MaxRequests
           /\ c # None
PROOF
  <1>1. /\ wire[c] \in Seq(Byte) /\ answers[c] \in Seq(Byte) /\ inbox[c] \in Seq(Request)
        /\ taken[c] \in Nat /\ asked[c] \in 0..MaxRequests
        /\ eof[c] \in BOOLEAN /\ broken[c] \in BOOLEAN
    BY DEF Typed
  <1>2. Len(wire[c]) \in Nat /\ Len(answers[c]) \in Nat
    BY <1>1, LenProperties
  <1>3. Cap \in Nat /\ c # None
    BY ServerAssumption
  <1> QED BY <1>1, <1>2, <1>3

(* A routine at work stays so when its connection is lost or drained.      *)
LEMMA FitKeep ==
    ASSUME NEW e, NEW owner, NEW d, NEW R, NEW room, NEW lost \in BOOLEAN, NEW waiting,
           Fit(e, owner, d, R, room, lost, waiting),
           NEW more, room > 0 => more > 0, NEW gone \in BOOLEAN, lost => gone,
           NEW still, e.fd \in waiting => e.fd \in still \/ more > 0 \/ gone
    PROVE  Fit(e, owner, d, R, more, gone, still)
  BY DEF Fit, Sound, Track

(* A step that touches neither the routines nor what they depend on.       *)
LEMMA ServedKeep ==
    ASSUME Served, UNCHANGED <<routines, deferred, table, wire, taken, answers, broken>>
    PROVE  Served'
  BY DEF Served, Index, Room

(* A client can make a socket ready, never the other way round.            *)
LEMMA ReportedKeep ==
    ASSUME Typed, Watched, Reported,
           UNCHANGED <<pc, readyRead, readyWrite, readSet, deferred, table>>,
           backlog # <<>> => backlog' # <<>>,
           \A c \in Conn : inbox[c] # <<>> \/ eof[c] \/ broken[c]
                               => inbox'[c] # <<>> \/ eof'[c] \/ broken'[c],
           \A c \in Conn : Room(c) > 0 \/ broken[c] => Room(c)' > 0 \/ broken'[c]
    PROVE  Reported'
PROOF
  <1>1. \A f \in readSet : table[f] \in Conn
    BY DEF Watched, Open, Typed
  <1>2. SUFFICES ASSUME pc = "scan"
                 PROVE  /\ \A f \in readyRead \ {Listen} : f \in readSet /\ Readable(f)'
                        /\ \A f \in readyWrite : f \in deferred /\ Writable(f)'
                        /\ Listen \in readyRead => backlog' # <<>>
    BY DEF Reported
  <1>3. ASSUME NEW f \in readyRead \ {Listen} PROVE f \in readSet /\ Readable(f)'
    <2>1. f \in readSet /\ (inbox[table[f]] # <<>> \/ eof[table[f]] \/ broken[table[f]])
      BY <1>2 DEF Reported, Readable
    <2> QED BY <2>1, <1>1 DEF Readable
  <1>4. ASSUME NEW f \in readyWrite PROVE f \in deferred /\ Writable(f)'
    <2>1. f \in deferred /\ (Room(table[f]) > 0 \/ broken[table[f]])
      BY <1>2 DEF Reported, Writable
    <2>2. table[f] \in Conn
      BY <2>1, <1>1 DEF Watched
    <2>3. Room(table[f])' > 0 \/ broken'[table'[f]]
      BY <2>1, <2>2 DEF Room
    <2> QED BY <2>1, <2>3 DEF Writable
  <1> QED BY <1>2, <1>3, <1>4 DEF Reported

-----------------------------------------------------------------------------
(* The clients' steps.                                                     *)

(* A client that acts on a connection of its own changes what the server   *)
(* has of it, and can make its socket ready, never the other way round.    *)
LEMMA ClientBase ==
    ASSUME Base,
           UNCHANGED <<routines, readSet, deferred, pc, idx, readyRead, readyWrite, table>>,
           UNCHANGED <<backlog, wire, answers>>,
           inbox' \in [Conn -> Seq(Request)], asked' \in [Conn -> 0..MaxRequests],
           eof' \in [Conn -> BOOLEAN], broken' \in [Conn -> BOOLEAN], taken' \in [Conn -> Nat],
           \A d \in Conn : /\ inbox[d] # <<>> => inbox'[d] # <<>>
                           /\ eof[d] => eof'[d]
                           /\ broken[d] => broken'[d]
                           /\ taken[d] <= taken'[d] /\ taken'[d] <= Len(wire[d])
    PROVE  Base' /\ \A d \in Conn : Room(d) > 0 => Room(d)' > 0
PROOF
  <1>0. Typed /\ Window /\ Watched /\ Distinct /\ Reported /\ Streams
    BY DEF Base
  <1>1. \A d \in Conn : Len(wire[d]) \in Nat /\ taken[d] \in Nat /\ taken'[d] \in Nat /\ Cap \in Nat
    BY <1>0, ConnFields
  <1>2. Typed'
    <2>1. /\ UNCHANGED <<routines, readSet, deferred, pc, idx, readyRead, readyWrite, table>>
          /\ UNCHANGED <<backlog, wire, answers>>
          /\ inbox' \in [Conn -> Seq(Request)] /\ asked' \in [Conn -> 0..MaxRequests]
          /\ eof' \in [Conn -> BOOLEAN] /\ broken' \in [Conn -> BOOLEAN]
          /\ taken' \in [Conn -> Nat]
      OBVIOUS
    <2> QED BY <2>1, <1>0, Zenon DEF Typed
  <1>3. Window'
    <2> SUFFICES ASSUME NEW d \in Conn
                 PROVE  taken'[d] <= Len(wire[d]) /\ Len(wire[d]) - taken'[d] <= Cap
      BY DEF Window
    <2>1. /\ Len(wire[d]) \in Nat /\ taken[d] \in Nat /\ taken'[d] \in Nat /\ Cap \in Nat
          /\ taken[d] <= taken'[d] /\ taken'[d] <= Len(wire[d]) /\ Len(wire[d]) - taken[d] <= Cap
      BY <1>0, <1>1 DEF Window
    <2> QED BY <2>1
  <1>4. Watched' /\ Distinct' /\ Streams'
    BY <1>0 DEF Watched, Distinct, Streams, Open
  <1>5. \A d \in Conn : Room(d) > 0 => Room(d)' > 0
    BY <1>1 DEF Room
  <1>6. Reported'
    BY <1>0, <1>5, ReportedKeep
  <1> QED BY <1>2, <1>3, <1>4, <1>5, <1>6 DEF Base

LEMMA ConnectBase ==
    ASSUME Base, NEW c \in Conn, Connect(c) PROVE Base'
PROOF
  <1>0. Typed /\ Window /\ Watched /\ Distinct /\ Reported /\ Streams
    BY DEF Base
  <1>1. /\ ~Connected(c) /\ backlog' = Append(backlog, c)
        /\ UNCHANGED <<routines, readSet, deferred, pc, idx, readyRead, readyWrite, table>>
        /\ UNCHANGED <<inbox, wire, taken, eof, broken, asked, answers>>
    BY DEF Connect, serverVars
  <1>2. /\ backlog \in Seq(Conn) /\ Len(backlog) \in Nat
        /\ backlog' \in Seq(Conn) /\ backlog' # <<>> /\ Len(backlog') = Len(backlog) + 1
        /\ \A i \in 1..Len(backlog) : backlog'[i] = backlog[i]
        /\ backlog'[Len(backlog) + 1] = c
    <2>1. backlog \in Seq(Conn) /\ backlog' = Append(backlog, c)
      BY <1>0, <1>1 DEF Typed
    <2>2. Len(backlog) \in Nat
      BY <2>1, LenProperties
    <2> QED BY <2>1, <2>2, AppendProperties
  <1>3. Typed'
    BY <1>0, <1>1, <1>2 DEF Typed
  <1>4. Distinct'
    <2>1. \A i \in 1..Len(backlog') : i \in 1..Len(backlog) \/ i = Len(backlog) + 1
      BY <1>2
    <2>2. \A i \in 1..Len(backlog) : backlog[i] # c
      BY <1>1 DEF Connected
    <2>3. \A f \in Fd : table[f] # c
      BY <1>1 DEF Connected
    <2>4. \A i, j \in 1..Len(backlog') : backlog'[i] = backlog'[j] => i = j
      BY <1>0, <1>2, <2>1, <2>2 DEF Distinct
    <2>5. \A f \in Fd, i \in 1..Len(backlog') : table'[f] # backlog'[i]
      BY <1>0, <1>1, <1>2, <2>1, <2>3 DEF Distinct
    <2> QED BY <2>4, <2>5, <1>0, <1>1 DEF Distinct, Open
  <1>5. Window' /\ Watched' /\ Streams'
    BY <1>0, <1>1 DEF Window, Watched, Streams, Open
  <1>6. Reported'
    BY <1>0, <1>1, <1>2, ReportedKeep DEF Room
  <1> QED BY <1>3, <1>4, <1>5, <1>6 DEF Base

LEMMA ConnectStep ==
    ASSUME SInv, NEW c \in Conn, Connect(c) PROVE SInv'
PROOF
  <1>1. /\ UNCHANGED <<routines, deferred, table>>
        /\ UNCHANGED <<inbox, wire, taken, eof, broken, asked, answers>>
    BY DEF Connect, serverVars
  <1>2. OneRequest' /\ Served' /\ OneEach' /\ DeferredOwned'
    BY <1>1, ServedKeep DEF SInv, OneRequest, OneEach, DeferredOwned, Index
  <1> QED BY <1>2, ConnectBase DEF SInv

(* The request that arrives.                                               *)
LEMMA RequestArrives ==
    ASSUME Base, NEW c \in Conn, SendRequest(c)
    PROVE  /\ Base' /\ asked[c] < MaxRequests /\ asked'[c] = asked[c] + 1 /\ inbox'[c] # <<>>
           /\ \A d \in Conn : d # c => inbox'[d] = inbox[d] /\ asked'[d] = asked[d]
           /\ UNCHANGED <<routines, readSet, deferred, pc, idx, readyRead, readyWrite, table>>
           /\ UNCHANGED <<backlog, wire, taken, eof, broken, answers>>
PROOF
  <1>0. Typed /\ Window
    BY DEF Base
  <1>1. PICK request \in Request : inbox' = [inbox EXCEPT ![c] = Append(@, request)]
    BY DEF SendRequest
  <1>2. /\ asked[c] < MaxRequests /\ asked' = [asked EXCEPT ![c] = @ + 1]
        /\ UNCHANGED <<routines, readSet, deferred, pc, idx, readyRead, readyWrite, table>>
        /\ UNCHANGED <<backlog, wire, taken, eof, broken, answers>>
    BY DEF SendRequest, serverVars
  <1>3. inbox[c] \in Seq(Request) /\ asked[c] \in 0..MaxRequests /\ MaxRequests \in Nat
    BY <1>0, ServerAssumption DEF Typed
  <1>4. /\ inbox'[c] # <<>> /\ inbox'[c] \in Seq(Request)
        /\ \A d \in Conn : d # c => inbox'[d] = inbox[d] /\ asked'[d] = asked[d]
        /\ asked'[c] = asked[c] + 1
        /\ inbox' \in [Conn -> Seq(Request)] /\ asked' \in [Conn -> 0..MaxRequests]
    <2>1. Append(inbox[c], request) \in Seq(Request) /\ Append(inbox[c], request) # <<>>
      BY <1>3, AppendProperties
    <2>2. asked[c] + 1 \in 0..MaxRequests
      BY <1>2, <1>3
    <2>3. inbox \in [Conn -> Seq(Request)] /\ asked \in [Conn -> 0..MaxRequests]
      BY <1>0 DEF Typed
    <2> QED BY <2>1, <2>2, <2>3, <1>1, <1>2
  <1>5. \A d \in Conn : taken[d] <= taken[d] /\ taken[d] <= Len(wire[d])
    BY <1>0, ConnFields DEF Window
  <1>6. \A d \in Conn : inbox[d] # <<>> => inbox'[d] # <<>>
    BY <1>4
  <1>7. Base'
    BY <1>0, <1>2, <1>4, <1>5, <1>6, ClientBase DEF Typed
  <1> QED BY <1>2, <1>4, <1>7

LEMMA SendRequestStep ==
    ASSUME MaxRequests = 1, SInv, NEW c \in Conn, SendRequest(c) PROVE SInv'
PROOF
  <1>1. /\ Base' /\ asked[c] < 1 /\ asked'[c] = asked[c] + 1 /\ inbox'[c] # <<>>
        /\ \A d \in Conn : d # c => inbox'[d] = inbox[d] /\ asked'[d] = asked[d]
        /\ UNCHANGED <<routines, deferred, table, wire, taken, broken, answers>>
    BY RequestArrives DEF SInv
  <1>2. asked[c] = 0 /\ asked'[c] = 1
    BY <1>1, ConnFields DEF SInv, Base
  <1>3. OneRequest' /\ Served' /\ OneEach' /\ DeferredOwned'
    BY <1>1, <1>2, ServedKeep DEF SInv, OneRequest, OneEach, DeferredOwned, Index
  <1> QED BY <1>1, <1>3 DEF SInv

LEMMA ReadBase ==
    ASSUME Base, NEW c \in Conn, Read(c)
    PROVE  /\ Base' /\ taken[c] < Len(wire[c])
           /\ \A d \in Conn : d # c => taken'[d] = taken[d]
           /\ \A d \in Conn : Room(d) > 0 => Room(d)' > 0
           /\ UNCHANGED <<routines, readSet, deferred, pc, idx, readyRead, readyWrite, table>>
           /\ UNCHANGED <<backlog, inbox, wire, eof, broken, asked, answers>>
PROOF
  <1>0. Typed /\ Window
    BY DEF Base
  <1>1. /\ taken[c] < Len(wire[c]) /\ taken' = [taken EXCEPT ![c] = @ + 1]
        /\ UNCHANGED <<routines, readSet, deferred, pc, idx, readyRead, readyWrite, table>>
        /\ UNCHANGED <<backlog, inbox, wire, eof, broken, asked, answers>>
    BY DEF Read, serverVars
  <1>2. taken' \in [Conn -> Nat] /\ \A d \in Conn : d # c => taken'[d] = taken[d]
    BY <1>0, <1>1 DEF Typed
  <1>3. \A d \in Conn : taken[d] <= taken'[d] /\ taken'[d] <= Len(wire[d])
    <2>1. taken[c] \in Nat /\ Len(wire[c]) \in Nat /\ taken'[c] = taken[c] + 1
      BY <1>0, <1>1, ConnFields DEF Typed
    <2>2. taken[c] <= taken'[c] /\ taken'[c] <= Len(wire[c])
      BY <2>1, <1>1
    <2>3. \A d \in Conn : d # c => taken[d] <= taken'[d] /\ taken'[d] <= Len(wire[d])
      BY <1>0, <1>2, ConnFields DEF Window
    <2> QED BY <2>2, <2>3
  <1>4. Base' /\ \A d \in Conn : Room(d) > 0 => Room(d)' > 0
    BY <1>0, <1>1, <1>2, <1>3, ClientBase DEF Typed
  <1> QED BY <1>1, <1>2, <1>4

LEMMA ReadStep ==
    ASSUME SInv, NEW c \in Conn, Read(c) PROVE SInv'
PROOF
  <1>0. Typed /\ Served
    BY DEF SInv, Base
  <1>1. /\ Base' /\ \A d \in Conn : Room(d) > 0 => Room(d)' > 0
        /\ UNCHANGED <<routines, deferred, table>>
        /\ UNCHANGED <<inbox, wire, broken, asked, answers>>
    BY ReadBase DEF SInv
  <1>2. OneRequest' /\ OneEach' /\ DeferredOwned'
    BY <1>1 DEF SInv, OneRequest, OneEach, DeferredOwned, Index
  <1>3. Served'
    <2> SUFFICES ASSUME NEW i \in Index
                 PROVE  Fit(routines[i], table[routines[i].fd], wire[routines[i].conn],
                            answers[routines[i].conn], Room(routines[i].conn)',
                            broken[routines[i].conn], deferred)
      BY <1>1 DEF Served, Index, Room
    <2>1. routines[i].conn \in Conn /\ broken[routines[i].conn] \in BOOLEAN
      BY <1>0, EntryFields DEF Typed
    <2>2. Fit(routines[i], table[routines[i].fd], wire[routines[i].conn],
              answers[routines[i].conn], Room(routines[i].conn), broken[routines[i].conn], deferred)
      BY <1>0 DEF Served
    <2>3. Room(routines[i].conn) > 0 => Room(routines[i].conn)' > 0
      BY <2>1, <1>1 DEF Room
    <2> QED BY <2>1, <2>2, <2>3, FitKeep
  <1> QED BY <1>1, <1>2, <1>3 DEF SInv

LEMMA ShutdownBase ==
    ASSUME Base, NEW c \in Conn, Shutdown(c)
    PROVE  /\ Base' /\ eof'[c] /\ \A d \in Conn : d # c => eof'[d] = eof[d]
           /\ UNCHANGED <<routines, readSet, deferred, pc, idx, readyRead, readyWrite, table>>
           /\ UNCHANGED <<backlog, inbox, wire, taken, broken, asked, answers>>
PROOF
  <1>0. Typed /\ Window
    BY DEF Base
  <1>1. /\ eof' = [eof EXCEPT ![c] = TRUE]
        /\ UNCHANGED <<routines, readSet, deferred, pc, idx, readyRead, readyWrite, table>>
        /\ UNCHANGED <<backlog, inbox, wire, taken, broken, asked, answers>>
    BY DEF Shutdown, serverVars
  <1>2. eof' \in [Conn -> BOOLEAN] /\ eof'[c] /\ \A d \in Conn : d # c => eof'[d] = eof[d]
    BY <1>0, <1>1 DEF Typed
  <1>3. \A d \in Conn : taken[d] <= taken[d] /\ taken[d] <= Len(wire[d])
    BY <1>0, ConnFields DEF Window
  <1>4. \A d \in Conn : eof[d] => eof'[d]
    BY <1>2
  <1>5. Base'
    BY <1>0, <1>1, <1>2, <1>3, <1>4, ClientBase DEF Typed
  <1> QED BY <1>1, <1>2, <1>5

LEMMA ShutdownStep ==
    ASSUME SInv, NEW c \in Conn, Shutdown(c) PROVE SInv'
PROOF
  <1>1. /\ Base' /\ UNCHANGED <<routines, deferred, table>>
        /\ UNCHANGED <<inbox, wire, taken, broken, asked, answers>>
    BY ShutdownBase DEF SInv
  <1>2. OneRequest' /\ Served' /\ OneEach' /\ DeferredOwned'
    BY <1>1, ServedKeep DEF SInv, OneRequest, OneEach, DeferredOwned, Index
  <1> QED BY <1>1, <1>2 DEF SInv

LEMMA ResetBase ==
    ASSUME Base, NEW c \in Conn, Reset(c)
    PROVE  /\ Base' /\ eof[c] /\ \A d \in Conn : d # c => broken'[d] = broken[d]
           /\ \A d \in Conn : broken'[d] \in BOOLEAN /\ (broken[d] => broken'[d])
           /\ UNCHANGED <<routines, readSet, deferred, pc, idx, readyRead, readyWrite, table>>
           /\ UNCHANGED <<backlog, inbox, wire, taken, eof, asked, answers>>
PROOF
  <1>0. Typed /\ Window
    BY DEF Base
  <1>1. /\ eof[c] /\ broken' = [broken EXCEPT ![c] = TRUE]
        /\ UNCHANGED <<routines, readSet, deferred, pc, idx, readyRead, readyWrite, table>>
        /\ UNCHANGED <<backlog, inbox, wire, taken, eof, asked, answers>>
    BY DEF Reset, serverVars
  <1>2. /\ broken' \in [Conn -> BOOLEAN]
        /\ \A d \in Conn : d # c => broken'[d] = broken[d]
        /\ \A d \in Conn : broken'[d] \in BOOLEAN /\ (broken[d] => broken'[d])
    BY <1>0, <1>1 DEF Typed
  <1>3. \A d \in Conn : taken[d] <= taken[d] /\ taken[d] <= Len(wire[d])
    BY <1>0, ConnFields DEF Window
  <1>4. Base'
    BY <1>0, <1>1, <1>2, <1>3, ClientBase DEF Typed
  <1> QED BY <1>1, <1>2, <1>4

LEMMA ResetStep ==
    ASSUME SInv, NEW c \in Conn, Reset(c) PROVE SInv'
PROOF
  <1>0. Typed /\ Served
    BY DEF SInv, Base
  <1>1. /\ Base' /\ UNCHANGED <<routines, deferred, table>>
        /\ \A d \in Conn : broken'[d] \in BOOLEAN /\ (broken[d] => broken'[d])
        /\ UNCHANGED <<inbox, wire, taken, asked, answers>>
    BY ResetBase DEF SInv
  <1>2. OneRequest' /\ OneEach' /\ DeferredOwned'
    BY <1>1 DEF SInv, OneRequest, OneEach, DeferredOwned, Index
  <1>3. Served'
    <2> SUFFICES ASSUME NEW i \in Index
                 PROVE  Fit(routines[i], table[routines[i].fd], wire[routines[i].conn],
                            answers[routines[i].conn], Room(routines[i].conn),
                            broken'[routines[i].conn], deferred)
      BY <1>1 DEF Served, Index, Room
    <2>1. routines[i].conn \in Conn
      BY <1>0, EntryFields
    <2>2. Fit(routines[i], table[routines[i].fd], wire[routines[i].conn],
              answers[routines[i].conn], Room(routines[i].conn), broken[routines[i].conn], deferred)
      BY <1>0 DEF Served
    <2>3. /\ broken[routines[i].conn] \in BOOLEAN /\ broken'[routines[i].conn] \in BOOLEAN
          /\ broken[routines[i].conn] => broken'[routines[i].conn]
      BY <2>1, <1>0, <1>1, ConnFields
    <2> QED BY <2>2, <2>3, FitKeep
  <1> QED BY <1>1, <1>2, <1>3 DEF SInv

-----------------------------------------------------------------------------
(* select(), and the sockets the scan finds.                               *)

LEMMA SelectBase ==
    ASSUME Base, Select
    PROVE  /\ Base' /\ UNCHANGED <<routines, readSet, deferred, table>>
           /\ UNCHANGED <<backlog, inbox, wire, taken, eof, broken, asked, answers>>
PROOF
  <1>0. Typed /\ Window /\ Watched /\ Distinct /\ Reported /\ Streams
    BY DEF Base
  <1>1. \A f \in readSet \cup deferred : Open(f)
    BY <1>0 DEF Watched
  <1>2. /\ readyRead' = {f \in readSet : Readable(f)} \cup (IF backlog # <<>> THEN {Listen} ELSE {})
        /\ readyWrite' = {f \in deferred : Writable(f)}
        /\ pc' = "scan" /\ idx' = 1
        /\ UNCHANGED <<routines, readSet, deferred, table>>
        /\ UNCHANGED <<backlog, inbox, wire, taken, eof, broken, asked, answers>>
    BY <1>1 DEF Select, netVars
  <1>3. Typed'
    <2>1. readyRead' \subseteq Fd \cup {Listen} /\ readyWrite' \subseteq Fd
      BY <1>0, <1>2 DEF Typed
    <2> QED BY SMTT(30), <2>1, <1>0, <1>2 DEF Typed
  <1>4. Window' /\ Watched' /\ Streams' /\ Distinct'
    BY <1>0, <1>2 DEF Window, Watched, Streams, Open, Distinct
  <1>5. Reported'
    <2>1. \A f \in readyRead' \ {Listen} : f \in readSet /\ Readable(f)
      BY <1>2
    <2>2. \A f \in readyWrite' : f \in deferred /\ Writable(f)
      BY <1>2
    <2>3. Listen \in readyRead' => backlog # <<>>
      <3>1. Listen \notin readSet
        BY <1>0, ServerAssumption DEF Typed, Listen
      <3> QED BY <3>1, <1>2
    <2> QED BY <2>1, <2>2, <2>3, <1>2 DEF Reported, Readable, Writable, Room
  <1> QED BY <1>2, <1>3, <1>4, <1>5 DEF Base

LEMMA ScanDoneBase ==
    ASSUME Base, ScanDone
    PROVE  /\ Base' /\ UNCHANGED <<routines, readSet, deferred, table>>
           /\ UNCHANGED <<backlog, inbox, wire, taken, eof, broken, asked, answers>>
PROOF
  <1>1. /\ pc' = "tick"
        /\ UNCHANGED <<routines, readSet, deferred, idx, readyRead, readyWrite, table>>
        /\ UNCHANGED <<backlog, inbox, wire, taken, eof, broken, asked, answers>>
    BY DEF ScanDone, netVars
  <1>2. Typed'
    BY <1>1 DEF Base, Typed
  <1>3. Window' /\ Watched' /\ Streams' /\ Distinct' /\ Reported'
    BY <1>1 DEF Base, Window, Watched, Streams, Open, Distinct, Reported
  <1> QED BY <1>1, <1>2, <1>3 DEF Base

(* Neither concerns the routines.                                          *)
LEMMA SelectStep ==
    ASSUME SInv, Select \/ ScanDone PROVE SInv'
PROOF
  <1>1. /\ Base' /\ UNCHANGED <<routines, deferred, table>>
        /\ UNCHANGED <<inbox, wire, taken, eof, broken, asked, answers>>
    BY SelectBase, ScanDoneBase DEF SInv
  <1>2. OneRequest' /\ Served' /\ OneEach' /\ DeferredOwned'
    BY <1>1, ServedKeep DEF SInv, OneRequest, OneEach, DeferredOwned, Index
  <1> QED BY <1>1, <1>2 DEF SInv

(* The descriptor the scan is at.                                          *)
LEMMA ScanningShape ==
    ASSUME Typed, NEW f, Scanning(f)
    PROVE  /\ pc = "scan" /\ f \in readyRead \cup readyWrite /\ f \in Nat
           /\ \A g \in readyRead \cup readyWrite : f <= g
           /\ readyRead' = readyRead \ {f} /\ readyWrite' = readyWrite \ {f}
           /\ pc' = pc /\ idx' = idx
PROOF
  <1>1. readyRead \cup readyWrite \subseteq Nat
    BY ServerAssumption DEF Typed, Listen
  <1>2. f = Lowest(readyRead \cup readyWrite) /\ readyRead \cup readyWrite # {}
    BY DEF Scanning
  <1>3. f \in readyRead \cup readyWrite /\ \A g \in readyRead \cup readyWrite : f <= g
    BY <1>1, <1>2, LowestIn
  <1> QED BY <1>1, <1>3 DEF Scanning

LEMMA UndeferBase ==
    ASSUME Base, NEW f \in Fd, Undefer(f)
    PROVE  /\ Base' /\ f \in deferred /\ (Room(table[f]) > 0 \/ broken[table[f]])
           /\ deferred' = deferred \ {f} /\ UNCHANGED <<routines, readSet, table>>
           /\ UNCHANGED <<backlog, inbox, wire, taken, eof, broken, asked, answers>>
PROOF
  <1>0. Typed /\ Window /\ Watched /\ Distinct /\ Reported /\ Streams
    BY DEF Base
  <1>1. /\ Scanning(f) /\ f \notin readyRead /\ deferred' = deferred \ {f}
        /\ UNCHANGED <<routines, readSet, table>>
        /\ UNCHANGED <<backlog, inbox, wire, taken, eof, broken, asked, answers>>
    BY DEF Undefer, netVars
  <1>2. /\ pc = "scan" /\ f \in readyWrite /\ pc' = pc /\ idx' = idx
        /\ readyRead' = readyRead \ {f} /\ readyWrite' = readyWrite \ {f}
    BY <1>0, <1>1, ScanningShape
  <1>3. f \in deferred /\ (Room(table[f]) > 0 \/ broken[table[f]])
    BY <1>0, <1>2 DEF Reported, Writable
  <1>4. Typed'
    BY <1>0, <1>1, <1>2 DEF Typed
  <1>5. Window' /\ Watched' /\ Streams' /\ Distinct'
    BY <1>0, <1>1 DEF Window, Watched, Streams, Open, Distinct
  <1>6. Reported'
    <2>1. \A g \in readyRead' \ {Listen} : g \in readSet' /\ Readable(g)
      BY <1>0, <1>1, <1>2 DEF Reported
    <2>2. \A g \in readyWrite' : g \in deferred' /\ Writable(g)
      BY <1>0, <1>1, <1>2 DEF Reported
    <2>3. Listen \in readyRead' => backlog' # <<>>
      BY <1>0, <1>1, <1>2 DEF Reported
    <2> QED BY <2>1, <2>2, <2>3, <1>1 DEF Reported, Readable, Writable, Room
  <1> QED BY <1>1, <1>3, <1>4, <1>5, <1>6 DEF Base

LEMMA UndeferStep ==
    ASSUME SInv, NEW f \in Fd, Undefer(f) PROVE SInv'
PROOF
  <1>0. Typed /\ Served
    BY DEF SInv, Base
  <1>1. /\ Base' /\ f \in deferred /\ (Room(table[f]) > 0 \/ broken[table[f]])
        /\ deferred' = deferred \ {f} /\ UNCHANGED <<routines, table>>
        /\ UNCHANGED <<inbox, wire, taken, eof, broken, asked, answers>>
    BY UndeferBase DEF SInv
  <1>2. OneEach' /\ OneRequest' /\ DeferredOwned'
    BY <1>1 DEF SInv, OneEach, DeferredOwned, Index, OneRequest
  <1>3. Served'
    <2> SUFFICES ASSUME NEW i \in Index
                 PROVE  Fit(routines[i], table[routines[i].fd], wire[routines[i].conn],
                            answers[routines[i].conn], Room(routines[i].conn),
                            broken[routines[i].conn], deferred')
      BY <1>1 DEF Served, Index, Room
    <2>1. routines[i].conn \in Conn /\ broken[routines[i].conn] \in BOOLEAN
      BY <1>0, EntryFields, ConnFields
    <2>2. Fit(routines[i], table[routines[i].fd], wire[routines[i].conn],
              answers[routines[i].conn], Room(routines[i].conn), broken[routines[i].conn], deferred)
      BY <1>0 DEF Served
    <2>3. table[routines[i].fd] = routines[i].conn
      BY <2>2 DEF Fit
    <2>4. routines[i].fd \in deferred => \/ routines[i].fd \in deferred'
                                         \/ Room(routines[i].conn) > 0 \/ broken[routines[i].conn]
      BY <2>3, <1>1
    <2> QED BY <2>1, <2>2, <2>4, FitKeep
  <1> QED BY <1>1, <1>2, <1>3 DEF SInv

(* While a connection waits for accept() a descriptor is free: there are   *)
(* no more connections than descriptors, and each has one of its own.      *)
LEMMA FreeDescriptor ==
    ASSUME Typed, Distinct, backlog # <<>> PROVE {g \in Fd : ~Open(g)} # {}
PROOF
  <1> SUFFICES ASSUME \A g \in Fd : Open(g) PROVE FALSE
    OBVIOUS
  <1> DEFINE h == Head(backlog)
             T == Conn \ {h}
  <1>1. h \in Conn /\ h = backlog[1] /\ 1 \in 1..Len(backlog)
    <2>1. backlog \in Seq(Conn) /\ Len(backlog) \in Nat \ {0}
      BY EmptySeq DEF Typed
    <2>2. h \in Conn
      BY <2>1, HeadTailProperties
    <2>3. h = backlog[1]
      BY <2>1
    <2> QED BY <2>1, <2>2, <2>3
  <1> HIDE DEF h
  <1>2. \A g \in Fd : table[g] \in T
    BY <1>1 DEF Open, Typed, Distinct
  <1>3. table \in [Fd -> T] /\ \A f, g \in Fd : table[f] = table[g] => f = g
    BY <1>2 DEF Typed, Distinct
  <1>4. IsFiniteSet(T) /\ Cardinality(T) = Cardinality(Conn) - 1
    BY <1>1, FS_RemoveElement, ServerAssumption
  <1>5. /\ IsFiniteSet(Fd) /\ Cardinality(Fd) \in Nat /\ Cardinality(Conn) \in Nat
        /\ Cardinality(Conn) <= Cardinality(Fd)
    BY ServerAssumption, FS_CardinalityType
  <1>6. Cardinality(T) < Cardinality(Fd)
    BY <1>4, <1>5
  <1> HIDE DEF T
  <1>7. \E x, y \in Fd : x # y /\ table[x] = table[y]
    BY <1>3, <1>4, <1>5, <1>6, FS_PigeonHole
  <1> QED BY <1>3, <1>7

(* accept() hands out a descriptor that was closed.                        *)
LEMMA AcceptBase ==
    ASSUME Base, Accept
    PROVE  /\ Base' /\ \A g \in Fd : Open(g) => table'[g] = table[g]
           /\ UNCHANGED <<routines, deferred, inbox, wire, taken, eof, broken, asked, answers>>
PROOF
  <1>0. Typed /\ Window /\ Watched /\ Distinct /\ Reported /\ Streams
    BY DEF Base
  <1> DEFINE f == Lowest({g \in Fd : ~Open(g)})
             c == Head(backlog)
  <1>1. /\ Scanning(Listen)
        /\ table' = [table EXCEPT ![f] = c] /\ readSet' = readSet \cup {f}
        /\ backlog' = Tail(backlog)
        /\ UNCHANGED <<routines, deferred, inbox, wire, taken, eof, broken, asked, answers>>
    BY DEF Accept
  <1>2. /\ pc = "scan" /\ Listen \in readyRead /\ pc' = pc /\ idx' = idx
        /\ readyRead' = readyRead \ {Listen} /\ readyWrite' = readyWrite \ {Listen}
    BY <1>0, <1>1, ScanningShape, ServerAssumption DEF Typed, Listen
  <1>3. backlog # <<>> /\ backlog \in Seq(Conn)
    BY <1>0, <1>2 DEF Reported, Typed
  <1>4. f \in Fd /\ ~Open(f)
    <2>1. {g \in Fd : ~Open(g)} \subseteq Nat /\ {g \in Fd : ~Open(g)} # {}
      BY <1>0, <1>3, FreeDescriptor, ServerAssumption
    <2> QED BY <2>1, LowestIn
  <1>5. /\ c \in Conn /\ backlog' \in Seq(Conn) /\ Len(backlog') = Len(backlog) - 1
        /\ \A i \in 1..Len(backlog') : i + 1 \in 1..Len(backlog) /\ backlog'[i] = backlog[i + 1]
        /\ c = backlog[1] /\ Len(backlog) \in Nat \ {0}
    <2>1. Len(backlog) \in Nat \ {0}
      BY <1>3, EmptySeq
    <2>2. /\ c \in Conn /\ backlog' \in Seq(Conn) /\ Len(backlog') = Len(backlog) - 1
          /\ \A i \in 1..Len(backlog') : backlog'[i] = backlog[i + 1]
      BY <1>1, <1>3, HeadTailProperties
    <2>3. \A i \in 1..(Len(backlog) - 1) : i + 1 \in 1..Len(backlog)
      BY <2>1
    <2>4. c = backlog[1]
      BY <1>3, <2>1
    <2> QED BY <2>1, <2>2, <2>3, <2>4
  <1> HIDE DEF f, c
  <1>6. /\ table' \in [Fd -> Conn \cup {None}] /\ table'[f] = c /\ c # None
        /\ \A g \in Fd : g # f => table'[g] = table[g]
    BY <1>0, <1>1, <1>4, <1>5, ServerAssumption DEF Typed
  <1>7. Typed'
    BY <1>0, <1>1, <1>2, <1>4, <1>5, <1>6 DEF Typed
  <1>8. Watched'
    BY <1>0, <1>1, <1>4, <1>6 DEF Watched, Open
  <1>9. Distinct'
    <2>1. \A g \in Fd : table[g] # c
      BY <1>0, <1>5 DEF Distinct
    <2>2. \A g, k \in Fd : Open(g)' /\ table'[g] = table'[k] => g = k
      BY <1>0, <1>6, <2>1 DEF Distinct, Open
    <2>3. \A i, j \in 1..Len(backlog') : backlog'[i] = backlog'[j] => i = j
      <3> SUFFICES ASSUME NEW i \in 1..Len(backlog'), NEW j \in 1..Len(backlog'),
                          backlog'[i] = backlog'[j]
                   PROVE  i = j
        OBVIOUS
      <3>1. i + 1 \in 1..Len(backlog) /\ j + 1 \in 1..Len(backlog) /\ backlog[i + 1] = backlog[j + 1]
        BY <1>5
      <3>2. i + 1 = j + 1
        BY <3>1, <1>0 DEF Distinct
      <3> QED BY <3>2, <1>5
    <2>4. \A g \in Fd, i \in 1..Len(backlog') : table'[g] # backlog'[i]
      <3> SUFFICES ASSUME NEW g \in Fd, NEW i \in 1..Len(backlog') PROVE table'[g] # backlog'[i]
        OBVIOUS
      <3>1. i + 1 \in 1..Len(backlog) /\ backlog'[i] = backlog[i + 1] /\ i + 1 # 1
            /\ 1 \in 1..Len(backlog)
        BY <1>5
      <3>2. backlog[i + 1] # c /\ table[g] # backlog[i + 1]
        BY <3>1, <1>0, <1>5 DEF Distinct
      <3> QED BY <3>1, <3>2, <1>6
    <2> QED BY <2>2, <2>3, <2>4 DEF Distinct
  <1>10. Window' /\ Streams'
    BY <1>0, <1>1 DEF Window, Streams
  <1>11. \A g \in readSet : g # f /\ g \in Fd
    BY <1>0, <1>4 DEF Watched
  <1>12. Reported'
    <2>1. \A g \in readyRead' \ {Listen} : g \in readSet' /\ Readable(g)'
      BY <1>0, <1>1, <1>2, <1>6, <1>11 DEF Reported, Readable
    <2>2. \A g \in readyWrite' : g \in deferred' /\ Writable(g)'
      BY <1>0, <1>1, <1>2, <1>6, <1>11 DEF Reported, Writable, Room, Watched
    <2>3. Listen \notin readyRead'
      BY <1>2
    <2> QED BY <2>1, <2>2, <2>3 DEF Reported
  <1>13. \A g \in Fd : Open(g) => table'[g] = table[g]
    BY <1>4, <1>6
  <1> QED BY <1>1, <1>7, <1>8, <1>9, <1>10, <1>12, <1>13 DEF Base

LEMMA AcceptStep ==
    ASSUME SInv, Accept PROVE SInv'
PROOF
  <1>0. Typed /\ Served
    BY DEF SInv, Base
  <1>1. /\ Base' /\ \A g \in Fd : Open(g) => table'[g] = table[g]
        /\ UNCHANGED <<routines, deferred, inbox, wire, taken, eof, broken, asked, answers>>
    BY AcceptBase DEF SInv
  <1>2. OneEach' /\ OneRequest' /\ DeferredOwned'
    BY <1>1 DEF SInv, OneEach, DeferredOwned, Index, OneRequest
  <1>3. Served'
    <2> SUFFICES ASSUME NEW i \in Index
                 PROVE  Fit(routines[i], table'[routines[i].fd], wire[routines[i].conn],
                            answers[routines[i].conn], Room(routines[i].conn),
                            broken[routines[i].conn], deferred)
      BY <1>1 DEF Served, Index, Room
    <2>1. Fit(routines[i], table[routines[i].fd], wire[routines[i].conn],
              answers[routines[i].conn], Room(routines[i].conn), broken[routines[i].conn], deferred)
      BY <1>0 DEF Served
    <2>2. routines[i].fd \in Fd /\ Open(routines[i].fd)
      BY ZenonT(60), <2>1, <1>0, EntryFields, ServerAssumption DEF Fit, Open
    <2> QED BY <2>1, <2>2, <1>1
  <1> QED BY <1>1, <1>2, <1>3 DEF SInv

-----------------------------------------------------------------------------
(* RoutineTick.                                                            *)

(* The routine at work waits for its socket only in STATE_DEFER.           *)
LEMMA NotWaiting ==
    ASSUME SInv, NEW i \in Index, routines[i].r.state # "DEFER"
    PROVE  routines[i].fd \notin deferred
PROOF
  <1> SUFFICES ASSUME routines[i].fd \in deferred PROVE FALSE
    OBVIOUS
  <1>1. PICK k \in Index : routines[k].fd = routines[i].fd /\ routines[k].r.state = "DEFER"
    BY DEF SInv, Base, DeferredOwned
  <1>2. table[routines[k].fd] = routines[k].conn /\ table[routines[i].fd] = routines[i].conn
    BY DEF SInv, Base, Served, Fit
  <1>3. k = i
    BY <1>1, <1>2 DEF SInv, Base, OneEach
  <1> QED BY <1>1, <1>3

(* A connection that is sent x, as far as the kernel has room for it.      *)
LEMMA WireGrows ==
    ASSUME Base, NEW c \in Conn, NEW x \in Seq(Byte), Len(x) <= Room(c),
           wire' = [wire EXCEPT ![c] = wire[c] \o x], UNCHANGED <<taken, answers>>,
           Begins(wire[c] \o x, answers[c])
    PROVE  /\ wire' \in [Conn -> Seq(Byte)] /\ Window' /\ Streams'
           /\ wire'[c] = wire[c] \o x
           /\ \A d \in Conn : d # c => wire'[d] = wire[d] /\ Room(d)' = Room(d)
PROOF
  <1>0. Typed /\ Window /\ Streams
    BY DEF Base
  <1>1. /\ wire[c] \in Seq(Byte) /\ Len(wire[c]) \in Nat /\ taken[c] \in Nat /\ Cap \in Nat
        /\ Len(x) \in Nat
    BY <1>0, ConnFields, LenProperties
  <1>2. wire[c] \o x \in Seq(Byte) /\ Len(wire[c] \o x) = Len(wire[c]) + Len(x)
    BY <1>1, ConcatProperties
  <1>3. /\ wire' \in [Conn -> Seq(Byte)] /\ wire'[c] = wire[c] \o x
        /\ \A d \in Conn : d # c => wire'[d] = wire[d]
    BY <1>0, <1>2 DEF Typed
  <1>4. Window'
    <2> SUFFICES ASSUME NEW d \in Conn
                 PROVE  taken[d] <= Len(wire'[d]) /\ Len(wire'[d]) - taken[d] <= Cap
      BY DEF Window
    <2>1. CASE d = c
      BY <2>1, <1>0, <1>1, <1>2, <1>3 DEF Window, Room
    <2>2. CASE d # c
      BY <2>2, <1>0, <1>3 DEF Window
    <2> QED BY <2>1, <2>2
  <1>5. Streams'
    BY <1>0, <1>3 DEF Streams
  <1> QED BY <1>3, <1>4, <1>5 DEF Room

(* What the loop does for a routine leaves the sockets as they are; x goes *)
(* out on one connection.                                                  *)
LEMMA TickBase ==
    ASSUME Base, pc = "tick", NEW c \in Conn, NEW x \in Seq(Byte), Len(x) <= Room(c),
           wire' = [wire EXCEPT ![c] = wire[c] \o x], Begins(wire[c] \o x, answers[c]),
           routines' \in Seq(Entry), deferred' \subseteq readSet, idx' = idx + 1,
           UNCHANGED <<readSet, pc, readyRead, readyWrite, table>>,
           UNCHANGED <<backlog, inbox, taken, eof, broken, asked, answers>>
    PROVE  /\ Base' /\ wire'[c] = wire[c] \o x
           /\ \A d \in Conn : d # c => wire'[d] = wire[d] /\ Room(d)' = Room(d)
PROOF
  <1>0. Typed /\ Watched /\ Distinct /\ Reported
    BY DEF Base
  <1>1. /\ wire' \in [Conn -> Seq(Byte)] /\ Window' /\ Streams'
        /\ wire'[c] = wire[c] \o x
        /\ \A d \in Conn : d # c => wire'[d] = wire[d] /\ Room(d)' = Room(d)
    BY WireGrows
  <1>2. Typed'
    <2>1. deferred' \subseteq Fd /\ idx' \in Nat \ {0}
      BY <1>0 DEF Typed
    <2> QED BY <2>1, <1>0, <1>1 DEF Typed
  <1>3. Watched' /\ Distinct' /\ Reported'
    BY <1>0 DEF Watched, Distinct, Reported, Open
  <1> QED BY <1>1, <1>2, <1>3 DEF Base

(* The routine takes a step and stays in the array.                        *)
LEMMA TickKeep ==
    ASSUME SInv, pc = "tick", idx \in Index, NEW c, c = routines[idx].conn,
           NEW f, f = routines[idx].fd, f \notin deferred,
           NEW s, NEW x \in Seq(Byte), Len(x) <= Room(c),
           wire' = [wire EXCEPT ![c] = wire[c] \o x],
           Sound(s, wire[c] \o x, answers[c], broken[c]), s.state = "FAIL" => broken[c],
           routines' = [routines EXCEPT ![idx].r = s],
           deferred' = IF s.state = "DEFER" THEN deferred \cup {f} ELSE deferred,
           idx' = idx + 1,
           UNCHANGED <<readSet, pc, readyRead, readyWrite, table>>,
           UNCHANGED <<backlog, inbox, taken, eof, broken, asked, answers>>
    PROVE  SInv'
PROOF
  <1>0. Typed /\ Window /\ Watched /\ Distinct /\ Reported /\ OneRequest
        /\ Served /\ OneEach /\ Streams /\ DeferredOwned
    BY DEF SInv, Base
  <1>1. /\ c \in Conn /\ f \in Fd /\ broken[c] \in BOOLEAN
        /\ routines[idx] = [r |-> routines[idx].r, fd |-> f, conn |-> c]
        /\ routines \in Seq(Entry) /\ idx \in 1..Len(routines)
    BY <1>0, EntryFields, ConnFields DEF Index, Typed
  <1> DEFINE e == [r |-> s, fd |-> f, conn |-> c]
  <1>2. e \in Entry /\ e.r = s /\ e.fd = f /\ e.conn = c
    BY <1>1 DEF Entry, Sound
  <1>3. routines' = [routines EXCEPT ![idx] = e]
    <2>1. [routines[idx] EXCEPT !.r = s] = e
      BY <1>1
    <2> QED BY <2>1
  <1> HIDE DEF e
  <1>4. /\ routines' \in Seq(Entry) /\ Len(routines') = Len(routines)
        /\ \A i \in 1..Len(routines) : routines'[i] = IF i = idx THEN e ELSE routines[i]
    BY <1>1, <1>2, <1>3, ExceptSeq
  <1>5. /\ Index' = Index /\ routines'[idx] = e
        /\ \A i \in Index : i # idx => routines'[i] = routines[i]
        /\ \A i \in Index : routines'[i].conn = routines[i].conn /\ routines'[i].fd = routines[i].fd
    BY <1>1, <1>2, <1>4 DEF Index
  <1>6. Begins(wire[c] \o x, answers[c])
    BY DEF Sound, Track
  <1>7. f \in readSet
    <2>1. table[f] = c
      BY <1>0, <1>1 DEF Served, Fit
    <2> QED BY <2>1, <1>0, <1>1, ServerAssumption DEF Watched, Open
  <1>8. deferred' \subseteq readSet
    BY <1>0, <1>7 DEF Watched
  <1>9. /\ Base' /\ wire'[c] = wire[c] \o x
        /\ \A d \in Conn : d # c => wire'[d] = wire[d] /\ Room(d)' = Room(d)
    BY <1>1, <1>4, <1>6, <1>8, TickBase DEF SInv
  <1>10. OneRequest'
    <2>1. answers[c] # <<>>
      BY <1>0, <1>1 DEF OneRequest
    <2> QED BY <2>1, <1>0, <1>5, <1>9 DEF OneRequest
  <1>11. OneEach'
    BY <1>0, <1>5 DEF OneEach
  <1>12. DeferredOwned'
    <2> SUFFICES ASSUME NEW g \in deferred'
                 PROVE  \E i \in Index : routines'[i].fd = g /\ routines'[i].r.state = "DEFER"
      BY <1>5 DEF DeferredOwned
    <2>1. CASE g = f
      <3>1. s.state = "DEFER"
        BY <2>1
      <3> QED BY <3>1, <2>1, <1>2, <1>5
    <2>2. CASE g # f
      <3>1. g \in deferred
        BY <2>2
      <3>2. PICK i \in Index : routines[i].fd = g /\ routines[i].r.state = "DEFER"
        BY <3>1, <1>0 DEF DeferredOwned
      <3> QED BY <3>2, <2>2, <1>5
    <2> QED BY <2>1, <2>2
  <1>13. Served'
    <2> DEFINE space(d) == Cap - (Len(wire'[d]) - taken'[d])
    <2> SUFFICES ASSUME NEW i \in Index
                 PROVE  Fit(routines'[i], table[routines'[i].fd], wire'[routines'[i].conn],
                            answers[routines'[i].conn], space(routines'[i].conn),
                            broken[routines'[i].conn], deferred')
      BY <1>5 DEF Served, Room
    <2>1. Fit(routines[i], table[routines[i].fd], wire[routines[i].conn],
              answers[routines[i].conn], Room(routines[i].conn), broken[routines[i].conn], deferred)
      BY <1>0 DEF Served
    <2>2. CASE i = idx
      <3>1. table[f] = c
        BY <2>1, <2>2, <1>1 DEF Fit
      <3>2. Fit(e, table[f], wire'[c], answers[c], space(c), broken[c], deferred')
        BY <3>1, <1>2, <1>9 DEF Fit
      <3> QED BY <3>2, <2>2, <1>2, <1>5
    <2>3. CASE i # idx
      <3>1. routines[i].conn \in Conn /\ routines[i].conn # c /\ broken[routines[i].conn] \in BOOLEAN
        BY <2>3, <1>0, EntryFields, ConnFields DEF OneEach
      <3>2. wire'[routines[i].conn] = wire[routines[i].conn]
            /\ space(routines[i].conn) = Room(routines[i].conn)
        BY <3>1, <1>9 DEF Room
      <3>3. routines[i].fd \in deferred => routines[i].fd \in deferred'
        OBVIOUS
      <3>4. routines'[i] = routines[i]
        BY <2>3, <1>5
      <3>5. Fit(routines[i], table[routines[i].fd], wire[routines[i].conn],
                answers[routines[i].conn], Room(routines[i].conn), broken[routines[i].conn],
                deferred')
        BY <2>1, <3>1, <3>3, FitKeep
      <3> QED BY <3>2, <3>4, <3>5
    <2> QED BY <2>2, <2>3
  <1> QED BY <1>9, <1>10, <1>11, <1>12, <1>13 DEF SInv

(* The array without its k-th routine: the others stay, and none comes.    *)
LEMMA OthersMove ==
    ASSUME Typed, NEW k \in Index, routines' = RoutineArrayDelIdx(k)
    PROVE  /\ routines' \in Seq(Entry)
           /\ \A i \in Index' : /\ Skip(k, i) \in Index /\ Skip(k, i) # k
                               /\ routines'[i] = routines[Skip(k, i)]
           /\ \A i, j \in Index' : Skip(k, i) = Skip(k, j) => i = j
           /\ \A j \in Index : j # k => \E i \in Index' : routines'[i] = routines[j]
PROOF
  <1> DEFINE t == Without(routines, k)
  <1>1. routines \in Seq(Entry) /\ k \in 1..Len(routines) /\ routines' = t
    BY DEF Typed, Index, RoutineArrayDelIdx, Without
  <1>2. t \in Seq(Entry)
    BY <1>1, DelIdx
  <1>3. \A i \in 1..Len(t) : Skip(k, i) \in 1..Len(routines) /\ Skip(k, i) # k
    BY <1>1, DelIdx
  <1>4. \A i \in 1..Len(t) : t[i] = routines[Skip(k, i)]
    BY <1>1, DelIdx
  <1>5. \A i, j \in 1..Len(t) : Skip(k, i) = Skip(k, j) => i = j
    BY <1>1, DelIdx
  <1>6. \A j \in 1..Len(routines) : j # k => \E i \in 1..Len(t) : Skip(k, i) = j
    BY <1>1, DelIdx
  <1> HIDE DEF t
  <1>7. Index = 1..Len(routines) /\ Index' = 1..Len(t)
    BY <1>1 DEF Index
  <1>8. routines' \in Seq(Entry)
    BY <1>1, <1>2
  <1>9. \A i \in Index' : /\ Skip(k, i) \in Index /\ Skip(k, i) # k
                          /\ routines'[i] = routines[Skip(k, i)]
    BY <1>1, <1>3, <1>4, <1>7
  <1>10. \A i, j \in Index' : Skip(k, i) = Skip(k, j) => i = j
    BY <1>5, <1>7
  <1>11. \A j \in Index : j # k => \E i \in Index' : routines'[i] = routines[j]
    <2>1. \A j \in Index : j # k => \E i \in Index' : Skip(k, i) = j
      BY <1>6, <1>7
    <2> QED BY <2>1, <1>9
  <1> QED BY <1>8, <1>9, <1>10, <1>11

LEMMA ArrayWithout ==
    ASSUME Typed, OneEach, NEW k \in Index, routines' = RoutineArrayDelIdx(k)
    PROVE  /\ routines' \in Seq(Entry) /\ OneEach'
           /\ \A i \in Index' : \E j \in Index : j # k /\ routines'[i] = routines[j]
           /\ \A j \in Index : j # k => \E i \in Index' : routines'[i] = routines[j]
PROOF
  <1>1. /\ routines' \in Seq(Entry)
        /\ \A i \in Index' : /\ Skip(k, i) \in Index /\ Skip(k, i) # k
                            /\ routines'[i] = routines[Skip(k, i)]
        /\ \A i, j \in Index' : Skip(k, i) = Skip(k, j) => i = j
        /\ \A j \in Index : j # k => \E i \in Index' : routines'[i] = routines[j]
    BY OthersMove
  <1>2. OneEach'
    <2> SUFFICES ASSUME NEW i \in Index', NEW j \in Index', routines'[i].conn = routines'[j].conn
                 PROVE  i = j
      BY DEF OneEach
    <2>1. routines[Skip(k, i)].conn = routines[Skip(k, j)].conn
      BY <1>1
    <2> QED BY <2>1, <1>1 DEF OneEach
  <1> QED BY <1>1, <1>2

(* The routine takes a step and leaves the array.                          *)
LEMMA TickDrop ==
    ASSUME SInv, pc = "tick", idx \in Index, NEW c, c = routines[idx].conn,
           NEW f, f = routines[idx].fd,
           NEW x \in Seq(Byte), Len(x) <= Room(c),
           wire' = [wire EXCEPT ![c] = wire[c] \o x],
           Begins(wire[c] \o x, answers[c]),
           routines' = RoutineArrayDelIdx(idx), deferred' = deferred \ {f},
           idx' = idx + 1,
           UNCHANGED <<readSet, pc, readyRead, readyWrite, table>>,
           UNCHANGED <<backlog, inbox, taken, eof, broken, asked, answers>>
    PROVE  SInv'
PROOF
  <1>0. Typed /\ Window /\ Watched /\ Distinct /\ Reported /\ OneRequest
        /\ Served /\ OneEach /\ Streams /\ DeferredOwned
    BY DEF SInv, Base
  <1>1. c \in Conn /\ f \in Fd
    BY <1>0, EntryFields DEF Index, Typed
  <1>2. /\ routines' \in Seq(Entry) /\ OneEach'
        /\ \A i \in Index' : \E j \in Index : j # idx /\ routines'[i] = routines[j]
        /\ \A j \in Index : j # idx => \E i \in Index' : routines'[i] = routines[j]
    BY <1>0, ArrayWithout
  <1>3. /\ Base' /\ wire'[c] = wire[c] \o x
        /\ \A d \in Conn : d # c => wire'[d] = wire[d] /\ Room(d)' = Room(d)
    <2>1. deferred' \subseteq readSet
      BY <1>0 DEF Watched
    <2> QED BY <2>1, <1>1, <1>2, TickBase DEF SInv
  <1>5. OneRequest'
    <2>1. answers[c] # <<>>
      BY <1>0, <1>1 DEF OneRequest
    <2>2. \A d \in Conn : answers[d] = <<>> => \A i \in Index' : routines'[i].conn # d
      BY <1>0, <1>2 DEF OneRequest
    <2>3. \A d \in Conn : answers[d] = <<>> => wire'[d] = <<>>
      BY <2>1, <1>0, <1>3 DEF OneRequest
    <2> QED BY <2>2, <2>3, <1>0 DEF OneRequest
  <1>6. DeferredOwned'
    <2> SUFFICES ASSUME NEW g \in deferred'
                 PROVE  \E i \in Index' : routines'[i].fd = g /\ routines'[i].r.state = "DEFER"
      BY DEF DeferredOwned
    <2>1. g \in deferred /\ g # f
      OBVIOUS
    <2>2. PICK j \in Index : routines[j].fd = g /\ routines[j].r.state = "DEFER"
      BY <2>1, <1>0 DEF DeferredOwned
    <2>3. PICK i \in Index' : routines'[i] = routines[j]
      BY <2>1, <2>2, <1>2
    <2> QED BY <2>2, <2>3
  <1>7. Served'
    <2> DEFINE space(d) == Cap - (Len(wire'[d]) - taken'[d])
    <2> SUFFICES ASSUME NEW i \in Index'
                 PROVE  Fit(routines'[i], table[routines'[i].fd], wire'[routines'[i].conn],
                            answers[routines'[i].conn], space(routines'[i].conn),
                            broken[routines'[i].conn], deferred')
      BY DEF Served, Room
    <2>1. PICK j \in Index : j # idx /\ routines'[i] = routines[j]
      BY <1>2
    <2>2. Fit(routines[j], table[routines[j].fd], wire[routines[j].conn],
              answers[routines[j].conn], Room(routines[j].conn), broken[routines[j].conn], deferred)
      BY <1>0 DEF Served
    <2>3. routines[j].conn \in Conn /\ routines[j].conn # c /\ broken[routines[j].conn] \in BOOLEAN
      BY <2>1, <1>0, EntryFields, ConnFields DEF OneEach
    <2>4. wire'[routines[j].conn] = wire[routines[j].conn]
          /\ space(routines[j].conn) = Room(routines[j].conn)
      BY <2>3, <1>3 DEF Room
    <2>5. routines[j].fd # f
      BY <2>2, <2>3, <1>0 DEF Served, Fit
    <2>6. Fit(routines[j], table[routines[j].fd], wire[routines[j].conn],
              answers[routines[j].conn], Room(routines[j].conn), broken[routines[j].conn], deferred')
      BY <2>2, <2>3, <2>5, FitKeep
    <2> QED BY <2>1, <2>4, <2>6
  <1> QED BY <1>2, <1>3, <1>5, <1>6, <1>7 DEF SInv

(* As long as its connection has a routine, nobody is abandoned.           *)
LEMMA KeptStays ==
    ASSUME \A i \in Index : \E j \in Index' : routines'[j].conn = routines[i].conn
    PROVE  Kept
PROOF
  <1> SUFFICES ASSUME NEW c \in Conn, \E i \in Of(c) : SendsFile(i), Of(c)' = {}
               PROVE  FALSE
    BY DEF Kept
  <1>1. PICK i \in Index : routines[i].conn = c
    BY DEF Of
  <1>2. PICK j \in Index' : routines'[j].conn = c
    BY <1>1
  <1>3. j \in Of(c)'
    BY <1>2 DEF Of
  <1> QED BY <1>3

(* A routine may go when its file is sent or its client gone.              *)
LEMMA KeptWithout ==
    ASSUME SInv, NEW k \in Index, routines' = RoutineArrayDelIdx(k),
           NEW c, c = routines[k].conn,
           routines[k].r.type = "FILE" => wire'[c] = answers'[c] \/ eof[c] \/ broken[c]
    PROVE  Kept
PROOF
  <1> SUFFICES ASSUME NEW d \in Conn, \E i \in Of(d) : SendsFile(i), Of(d)' = {}
               PROVE  wire'[d] = answers'[d] \/ eof[d] \/ broken[d]
    BY DEF Kept
  <1>1. PICK i \in Index : routines[i].conn = d /\ routines[i].r.type = "FILE"
    BY DEF Of, SendsFile
  <1>2. CASE i = k
    BY <1>1, <1>2
  <1>3. CASE i # k
    <2>1. PICK j \in Index' : routines'[j] = routines[i]
      BY <1>3, ArrayWithout DEF SInv, Base
    <2>2. j \in Of(d)'
      BY <2>1, <1>1 DEF Of
    <2> QED BY <2>2
  <1> QED BY <1>2, <1>3

(* How much a flush and a write put on the wire.                           *)
LEMMA FlushSentLen ==
    ASSUME NEW b \in SendBufferType, WellFormed(b), NEW net, net.k \in 0..PendingLen(b)
    PROVE  /\ FlushSent(b, net) \in Seq(Byte)
           /\ Len(FlushSent(b, net)) = IF b.open THEN net.k ELSE 0
PROOF
  <1>1. b.stream \in Seq(Byte) /\ b.idx \in Nat /\ Len(b.stream) \in Nat /\ b.idx <= Len(b.stream)
    BY LenProperties DEF SendBufferType, WellFormed
  <1>2. Pending(b) \in Seq(Byte) /\ Len(Pending(b)) = PendingLen(b)
    BY <1>1, SplitJoin DEF Pending, PendingLen
  <1>3. SubSeq(Pending(b), 1, net.k) \in Seq(Byte) /\ Len(SubSeq(Pending(b), 1, net.k)) = net.k
    BY <1>2, SplitJoin
  <1> QED BY <1>3, EmptySeq DEF FlushSent

LEMMA WriteSentLen ==
    ASSUME NEW b, NEW data \in Seq(Byte), NEW net, net.k \in 0..Len(data)
    PROVE  /\ WriteSent(b, data, net) \in Seq(Byte)
           /\ Len(WriteSent(b, data, net)) = IF b.open THEN 0 ELSE net.k
PROOF
  <1>1. SubSeq(data, 1, net.k) \in Seq(Byte) /\ Len(SubSeq(data, 1, net.k)) = net.k
    BY SplitJoin
  <1> QED BY <1>1, EmptySeq DEF WriteSent

(* Bytes put on the wire in two parts.                                     *)
LEMMA JoinBytes ==
    ASSUME NEW p \in Seq(Byte), NEW q \in Seq(Byte), NEW t \in Seq(Byte)
    PROVE  (p \o q) \o t = p \o (q \o t)
  BY ConcatAssociative

(* What send() of len bytes does on a connection that has room for n more  *)
(* bytes, or is lost.                                                      *)
Offer(net, len, n, lost) ==
    /\ net = [k |-> net.k, err |-> net.err]
    /\ net.k \in 0..len /\ net.err \in BOOLEAN /\ net.k <= n
    /\ net.err => lost /\ len > 0
    /\ IF lost THEN net.k = 0 ELSE net.k = Least(n, len)

LEMMA Offered ==
    ASSUME Typed, Window, NEW f \in Fd, NEW c \in Conn, table[f] = c, NEW len \in Nat
    PROVE  Room(c) \in Nat /\ Offer(SendOn(f, len), len, Room(c), broken[c])
PROOF
  <1> DEFINE net == SendOn(f, len)
  <1>1. /\ net = [k |-> net.k, err |-> net.err]
        /\ net.k \in 0..len /\ net.err \in BOOLEAN
        /\ net.k <= Room(c) /\ Room(c) \in 0..Cap
        /\ net.err => broken[c] /\ len > 0
        /\ broken[c] => net.k = 0
        /\ ~broken[c] => net.k = Least(Room(c), len)
    BY SendOnShape
  <1>2. Room(c) \in Nat
    BY <1>1, ServerAssumption
  <1> HIDE DEF net
  <1>3. Offer(net, len, Room(c), broken[c])
    BY <1>1 DEF Offer
  <1> QED BY <1>2, <1>3 DEF net

(* The fields of a sound routine.                                          *)
LEMMA SoundFields ==
    ASSUME NEW r, NEW d, NEW R, NEW lost, Sound(r, d, R, lost)
    PROVE  /\ r \in RoutineType /\ r.left \in Seq(Byte) /\ d \in Seq(Byte) /\ Begins(d, R)
           /\ r.sb \in SendBufferType /\ WellFormed(r.sb) /\ (r.sb.fail => lost)
           /\ r.sb.open \in BOOLEAN /\ r.sb.fail \in BOOLEAN
           /\ PendingLen(r.sb) \in Nat /\ (r.sb.open => PendingLen(r.sb) > 0)
PROOF
  <1>1. /\ r \in RoutineType /\ d \in Seq(Byte) /\ Begins(d, R)
        /\ r.sb \in SendBufferType /\ WellFormed(r.sb) /\ (r.sb.fail => lost)
        /\ (r.sb.open => PendingLen(r.sb) > 0)
    BY DEF Sound, Track
  <1>2. r.left \in Seq(Byte) /\ r.sb.open \in BOOLEAN /\ r.sb.fail \in BOOLEAN
    BY <1>1, RoutineFields
  <1>3. r.sb.stream \in Seq(Byte) /\ r.sb.idx \in Nat /\ r.sb.idx <= Len(r.sb.stream)
    BY <1>1 DEF SendBufferType, WellFormed
  <1>4. PendingLen(r.sb) \in Nat
    <2>1. Len(r.sb.stream) \in Nat
      BY <1>3, LenProperties
    <2> QED BY <2>1, <1>3 DEF PendingLen
  <1> QED BY <1>1, <1>2, <1>4

(* A turn of a routine whose buffer is being flushed: what becomes of the  *)
(* routine, and the bytes it sends.                                        *)
FlushTurn(r, net) == IF r.state = "FLUSH" THEN TickFlush(r, net) ELSE TickDefer(r, net)
FlushTurnSent(r, net) ==
    IF r.state = "DEFER" /\ r.sb.fail THEN <<>> ELSE FlushSent(r.sb, net)

LEMMA FlushSends ==
    ASSUME NEW r, NEW d, NEW R \in Seq(Byte), NEW n \in Nat, NEW lost \in BOOLEAN,
           Sound(r, d, R, lost), r.state = "FLUSH" \/ r.state = "DEFER",
           NEW net, Offer(net, PendingLen(r.sb), n, lost)
    PROVE  LET s == FlushTurn(r, net)
               x == FlushTurnSent(r, net)
           IN  /\ x \in Seq(Byte) /\ Len(x) <= n /\ Sound(s, d \o x, R, lost)
               /\ s.state # "DEFER"
               /\ r.state = "FLUSH" \/ n > 0 => (s.state = "FAIL" => lost)
PROOF
  <1> DEFINE s == FlushTurn(r, net)
             x == FlushTurnSent(r, net)
  <1>1. /\ r.left \in Seq(Byte) /\ d \in Seq(Byte)
        /\ r.sb \in SendBufferType /\ WellFormed(r.sb) /\ (r.sb.fail => lost)
        /\ PendingLen(r.sb) \in Nat /\ (r.sb.open => PendingLen(r.sb) > 0)
    BY SoundFields
  <1>2. /\ net = [k |-> net.k, err |-> net.err]
        /\ net.k \in 0..PendingLen(r.sb) /\ net.err \in BOOLEAN /\ net.k <= n
        /\ (net.err => lost /\ PendingLen(r.sb) > 0)
        /\ (IF lost THEN net.k = 0 ELSE net.k = Least(n, PendingLen(r.sb)))
    BY DEF Offer
  <1>3. net \in FlushOutcome(r.sb) /\ (lost /\ PendingLen(r.sb) > 0 => net.k = 0)
    <2>1. 0 % SB_DATA_SIZE = 0
      BY SbDataSizeAssumption
    <2>2. net.err => net.k < PendingLen(r.sb) /\ net.k % SB_DATA_SIZE = 0
      BY <2>1, <1>1, <1>2
    <2>3. net \in [k : 0..PendingLen(r.sb), err : BOOLEAN]
      BY <1>2
    <2> QED BY <2>2, <2>3, <1>2 DEF FlushOutcome
  <1> DEFINE sent == FlushSent(r.sb, net)
  <1>4. sent \in Seq(Byte) /\ Len(sent) <= n
    <2>1. sent \in Seq(Byte) /\ Len(sent) = IF r.sb.open THEN net.k ELSE 0
      BY <1>1, <1>2, FlushSentLen
    <2> QED BY <2>1, <1>2
  <1>5. (lost \/ net.err) = lost /\ (lost \/ (~r.sb.fail /\ net.err)) = lost
    BY <1>2
  <1>6. CASE r.state = "FLUSH"
    <2>0. s = TickFlush(r, net) /\ x = sent
      BY <1>6 DEF FlushTurn, FlushTurnSent
    <2> HIDE DEF s, x
    <2>1. /\ Sound(s, d \o sent, R, lost \/ net.err)
          /\ s.state \in {"CONTINUE", "FAIL", "FLUSH"}
          /\ s.state = "FAIL" => r.sb.fail \/ net.err
      BY <2>0, <1>3, FlushingLemma
    <2>2. x = sent
      BY <2>0
    <2> HIDE DEF sent
    <2>3. Sound(s, d \o x, R, lost) /\ s.state # "DEFER" /\ (s.state = "FAIL" => lost)
      BY <2>1, <2>2, <1>1, <1>2, <1>5
    <2> QED BY <2>2, <2>3, <1>4 DEF s, x
  <1>7. CASE r.state = "DEFER"
    <2>0. s = TickDefer(r, net) /\ x = IF r.sb.fail THEN <<>> ELSE sent
      BY <1>7 DEF FlushTurn, FlushTurnSent
    <2> HIDE DEF s, x
    <2>1. /\ Sound(s, IF r.sb.fail THEN d ELSE d \o sent, R, lost \/ (~r.sb.fail /\ net.err))
          /\ s.state \in {"FAIL", "FLUSH"}
          /\ s.state = "FAIL" => r.sb.fail \/ net.err \/ ~r.sb.open \/ net.k = 0
      BY <2>0, <1>3, DeferLemma
    <2>2. x = IF r.sb.fail THEN <<>> ELSE sent
      BY <2>0
    <2> HIDE DEF sent
    <2>3. d \o x = IF r.sb.fail THEN d ELSE d \o sent
      BY <2>2, <1>1, ConcatEmptySeq
    <2>4. x \in Seq(Byte) /\ Len(x) <= n
      <3>1. <<>> \in Seq(Byte) /\ Len(<<>>) = 0
        BY EmptySeq
      <3>2. CASE r.sb.fail
        BY <2>2, <3>1, <3>2
      <3>3. CASE ~r.sb.fail
        BY <2>2, <3>3, <1>4
      <3> QED BY <3>2, <3>3
    <2>5. r.sb.open
      BY <1>7 DEF Sound, Shape
    <2>6. n > 0 => (s.state = "FAIL" => lost)
      <3>1. ~lost /\ net.k = 0 => n = 0
        BY <2>5, <1>1, <1>2 DEF Least
      <3> QED BY <3>1, <2>1, <2>5, <1>1, <1>2
    <2>7. s.state # "DEFER" /\ Sound(s, d \o x, R, lost)
      BY <2>1, <2>3, <1>5
    <2> QED BY <2>4, <2>6, <2>7, <1>7 DEF s, x
  <1> QED BY <1>6, <1>7

(* The next block of a file is a sequence of bytes.                        *)
LEMMA BlockShape ==
    ASSUME NEW r, r.left \in Seq(Byte)
    PROVE  Block(r) \in Seq(Byte) /\ Len(Block(r)) \in Nat
PROOF
  <1> DEFINE n == Least(SB_DATA_SIZE, Len(r.left))
  <1>1. Len(r.left) \in Nat
    BY LenProperties
  <1>2. n \in 0..Len(r.left)
    BY <1>1, SbDataSizeAssumption DEF Least
  <1>3. Block(r) = SubSeq(r.left, 1, n)
    BY DEF Block, First
  <1> HIDE DEF n
  <1> QED BY <1>2, <1>3, SplitJoin, LenProperties

(* A turn of a file routine that writes its next block.                    *)
LEMMA FileSends ==
    ASSUME NEW r, NEW d, NEW R \in Seq(Byte), NEW n \in Nat, NEW lost \in BOOLEAN,
           Sound(r, d, R, lost), r.state = "CONTINUE", r.type = "FILE",
           NEW net, Offer(net, Len(Block(r)), n, lost)
    PROVE  LET s == TickContinueFile(r, net)
               x == WriteSent(r.sb, Block(r), net)
           IN  /\ x \in Seq(Byte) /\ Len(x) <= n /\ Sound(s, d \o x, R, lost)
               /\ s.state = "FAIL" => lost
PROOF
  <1> DEFINE s == TickContinueFile(r, net)
             x == WriteSent(r.sb, Block(r), net)
  <1>1. r.left \in Seq(Byte) /\ Block(r) \in Seq(Byte) /\ Len(Block(r)) \in Nat
    BY SoundFields, BlockShape
  <1>2. /\ net = [k |-> net.k, err |-> net.err]
        /\ net.k \in 0..Len(Block(r)) /\ net.err \in BOOLEAN /\ net.k <= n
        /\ (net.err => lost /\ Len(Block(r)) > 0) /\ (lost => net.k = 0)
    BY DEF Offer
  <1>3. net \in SendOutcome(Len(Block(r)))
    <2>1. net \in [k : 0..Len(Block(r)), err : BOOLEAN]
      BY <1>2
    <2> QED BY <2>1, <1>1, <1>2 DEF SendOutcome
  <1>4. x \in Seq(Byte) /\ Len(x) = IF r.sb.open THEN 0 ELSE net.k
    BY <1>1, <1>2, WriteSentLen
  <1>5. /\ Sound(s, d \o x, R, lost \/ net.err)
        /\ s.state = "FAIL" => lost \/ net.err
    BY <1>2, <1>3, ContinueFileLemma
  <1>6. (lost \/ net.err) = lost
    BY <1>2
  <1> QED BY <1>2, <1>4, <1>5, <1>6

(* The next batch of a directory is a sequence of bytes.                   *)
LEMMA BatchShape ==
    ASSUME NEW r, r.left \in Seq(Byte)
    PROVE  Batch(r) \in Seq(Byte) /\ Len(Batch(r)) \in Nat
PROOF
  <1> DEFINE n == Least(DirMax, Len(r.left))
  <1>1. Len(r.left) \in Nat
    BY LenProperties
  <1>2. n \in 0..Len(r.left)
    BY <1>1, DirMaxAssumption DEF Least
  <1>3. Batch(r) = SubSeq(r.left, 1, n)
    BY DEF Batch, First
  <1> HIDE DEF n
  <1> QED BY <1>2, <1>3, SplitJoin, LenProperties

(* The write of a batch: the buffer after it, the bytes it sends, and what *)
(* the flush that follows then does on a socket that takes left of both.   *)
BatchBuffer(r, net) == sendBufferWriteData(r.sb, Batch(r), net)
BatchSent(r, net) == WriteSent(r.sb, Batch(r), net)
BatchTotal(r, net) == Len(BatchSent(r, net)) + PendingLen(BatchBuffer(r, net))
BatchFlush(r, net, left) ==
    [left EXCEPT !.k = @ - Len(BatchSent(r, net)),
                 !.err = @ /\ PendingLen(BatchBuffer(r, net)) > 0]

LEMMA BatchWritten ==
    ASSUME NEW r, NEW d, NEW R, NEW n \in Nat, NEW lost \in BOOLEAN, Sound(r, d, R, lost),
           NEW wnet, Offer(wnet, Len(Batch(r)), n, lost)
    PROVE  LET b == BatchBuffer(r, wnet)
               written == BatchSent(r, wnet)
           IN  /\ b \in SendBufferType /\ WellFormed(b) /\ PendingLen(b) \in Nat
               /\ written \in Seq(Byte) /\ Len(written) \in Nat
               /\ Len(written) = (IF r.sb.open THEN 0 ELSE wnet.k)
               /\ BatchTotal(r, wnet) = Len(written) + PendingLen(b)
               /\ BatchTotal(r, wnet) \in Nat
PROOF
  <1> DEFINE b == BatchBuffer(r, wnet)
             written == BatchSent(r, wnet)
  <1>1. /\ r.left \in Seq(Byte) /\ r.sb \in SendBufferType /\ WellFormed(r.sb)
        /\ Batch(r) \in Seq(Byte) /\ Len(Batch(r)) \in Nat
    BY SoundFields, BatchShape
  <1>2. /\ wnet = [k |-> wnet.k, err |-> wnet.err]
        /\ wnet.k \in 0..Len(Batch(r)) /\ wnet.err \in BOOLEAN
    BY DEF Offer
  <1>3. wnet \in [k : 0..Len(Batch(r)), err : BOOLEAN]
    BY <1>2
  <1>4. b \in SendBufferType /\ WellFormed(b)
    BY <1>1, <1>3, WriteLemma DEF BatchBuffer
  <1>5. PendingLen(b) \in Nat
    <2>1. b.stream \in Seq(Byte) /\ b.idx \in Nat /\ b.idx <= Len(b.stream)
      BY <1>4 DEF SendBufferType, WellFormed
    <2>2. Len(b.stream) \in Nat
      BY <2>1, LenProperties
    <2> QED BY <2>1, <2>2 DEF PendingLen
  <1>6. written \in Seq(Byte) /\ Len(written) = IF r.sb.open THEN 0 ELSE wnet.k
    BY <1>1, <1>2, WriteSentLen DEF BatchSent
  <1>7. Len(written) \in Nat
    BY <1>6, LenProperties
  <1>8. BatchTotal(r, wnet) = Len(written) + PendingLen(b)
    BY DEF BatchTotal
  <1> QED BY <1>4, <1>5, <1>6, <1>7, <1>8

(* A turn of a directory routine: the batch is written, and what the       *)
(* socket did not take is flushed into the room that is left.              *)
DirTurn(r, wnet, left) == DirectoryRoutineContinue(r, wnet, BatchFlush(r, wnet, left))
DirTurnSent(r, wnet, left) ==
    BatchSent(r, wnet) \o FlushSent(BatchBuffer(r, wnet), BatchFlush(r, wnet, left))

LEMMA DirSends ==
    ASSUME NEW r, NEW d, NEW R \in Seq(Byte), NEW n \in Nat, NEW lost \in BOOLEAN,
           Sound(r, d, R, lost), r.state = "CONTINUE", r.type = "DIR",
           NEW wnet, Offer(wnet, Len(Batch(r)), n, lost),
           NEW left, Offer(left, BatchTotal(r, wnet), n, lost)
    PROVE  LET s == DirTurn(r, wnet, left)
               x == DirTurnSent(r, wnet, left)
           IN  /\ x \in Seq(Byte) /\ Len(x) <= n /\ Sound(s, d \o x, R, lost)
               /\ s.state \in {"FINISH", "CONTINUE"}
PROOF
  <1> DEFINE b == BatchBuffer(r, wnet)
             written == BatchSent(r, wnet)
             fnet == BatchFlush(r, wnet, left)
             s == DirectoryRoutineContinue(r, wnet, fnet)
             flushed == FlushSent(b, fnet)
             x == written \o flushed
             total == Len(written) + PendingLen(b)
  <1>1. /\ r.left \in Seq(Byte) /\ d \in Seq(Byte)
        /\ r.sb \in SendBufferType /\ WellFormed(r.sb)
        /\ (r.sb.open => PendingLen(r.sb) > 0) /\ r.sb.open \in BOOLEAN
        /\ Batch(r) \in Seq(Byte) /\ Len(Batch(r)) \in Nat
    BY SoundFields, BatchShape
  <1>2. /\ wnet = [k |-> wnet.k, err |-> wnet.err]
        /\ wnet.k \in 0..Len(Batch(r)) /\ wnet.err \in BOOLEAN /\ wnet.k <= n
        /\ (wnet.err => lost /\ Len(Batch(r)) > 0) /\ (lost => wnet.k = 0)
        /\ (~lost => wnet.k = Least(n, Len(Batch(r))))
    BY DEF Offer
  <1>3. wnet \in SendsOutcome(Len(Batch(r)))
    <2>1. wnet \in [k : 0..Len(Batch(r)), err : BOOLEAN]
      BY <1>2
    <2> QED BY <2>1, <1>1, <1>2 DEF SendsOutcome
  <1>4. /\ b \in SendBufferType /\ WellFormed(b) /\ PendingLen(b) \in Nat
        /\ written \in Seq(Byte) /\ Len(written) \in Nat
        /\ Len(written) = (IF r.sb.open THEN 0 ELSE wnet.k)
        /\ total \in Nat /\ BatchTotal(r, wnet) = total
    BY BatchWritten
  <1>5. /\ left = [k |-> left.k, err |-> left.err] /\ left.k \in 0..total /\ left.err \in BOOLEAN
        /\ left.k <= n /\ (left.err => lost) /\ (lost => left.k = 0)
        /\ (~lost => left.k = Least(n, total))
    BY <1>4 DEF Offer
  <1>6. fnet = [k |-> left.k - Len(written), err |-> left.err /\ PendingLen(b) > 0]
    <2> DEFINE taking == left.k
               failed == left.err
    <2>1. left = [k |-> taking, err |-> failed]
      BY <1>5
    <2>2. fnet = [left EXCEPT !.k = taking - Len(written), !.err = failed /\ PendingLen(b) > 0]
      BY DEF BatchFlush
    <2> HIDE DEF taking, failed, fnet
    <2>3. fnet = [k |-> taking - Len(written), err |-> failed /\ PendingLen(b) > 0]
      BY <2>1, <2>2
    <2> QED BY <2>3 DEF taking, failed
  <1>7. /\ fnet.k = left.k - Len(written) /\ (fnet.err <=> left.err /\ PendingLen(b) > 0)
        /\ fnet.err \in BOOLEAN
    <2>1. fnet.k = left.k - Len(written) /\ fnet.err = (left.err /\ PendingLen(b) > 0)
      BY <1>6
    <2> QED BY <2>1, <1>5
  <1>8. left.k - Len(written) \in 0..PendingLen(b)
    <2>1. CASE lost
      <3>1. Len(written) = 0 /\ left.k = 0
        BY <2>1, <1>2, <1>4, <1>5
      <3> QED BY <3>1, <1>4
    <2>2. CASE ~lost
      <3>1. left.k = Least(n, total) /\ Len(written) <= n
        BY <2>2, <1>2, <1>4, <1>5
      <3> QED BY <3>1, <1>4 DEF Least
    <2> QED BY <2>1, <2>2
  <1>9. fnet \in FlushOutcome(b) /\ ((lost \/ wnet.err) /\ PendingLen(b) > 0 => fnet.k = 0)
    <2>1. fnet \in [k : 0..PendingLen(b), err : BOOLEAN]
      BY <1>5, <1>6, <1>8
    <2>2. lost => fnet.k = 0
      <3> SUFFICES ASSUME lost PROVE fnet.k = 0
        OBVIOUS
      <3>1. Len(written) = 0 /\ left.k = 0
        BY <1>2, <1>4, <1>5
      <3> QED BY <3>1, <1>7
    <2>3. 0 % SB_DATA_SIZE = 0
      BY SbDataSizeAssumption
    <2>4. fnet.err => fnet.k < PendingLen(b) /\ fnet.k % SB_DATA_SIZE = 0
      BY <2>2, <2>3, <1>4, <1>5, <1>7
    <2> QED BY <2>1, <2>2, <2>4, <1>2 DEF FlushOutcome
  <1>10. /\ Sound(s, (d \o written) \o flushed, R, lost \/ wnet.err \/ fnet.err)
         /\ s.state \in {"FINISH", "CONTINUE"}
    <2>1. lost /\ Len(Batch(r)) > 0 => wnet.k = 0
      BY <1>2
    <2> QED BY <2>1, <1>3, <1>9, ContinueDirLemma DEF BatchBuffer, BatchSent
  <1>11. flushed \in Seq(Byte) /\ Len(flushed) = IF b.open THEN fnet.k ELSE 0
    <2>1. fnet.k \in 0..PendingLen(b)
      BY <1>7, <1>8
    <2> QED BY <2>1, <1>4, FlushSentLen
  <1>12. x \in Seq(Byte) /\ Len(x) <= n
    <2>1. x \in Seq(Byte) /\ Len(x) = Len(written) + Len(flushed)
      BY <1>4, <1>11, ConcatProperties
    <2> HIDE DEF x, flushed
    <2>2. Len(flushed) <= left.k - Len(written)
      BY <1>4, <1>5, <1>7, <1>8, <1>11
    <2> QED BY SMTT(30), <2>1, <2>2, <1>2, <1>4, <1>5, <1>11
  <1>13. Sound(s, d \o x, R, lost)
    <2>1. (d \o written) \o flushed = d \o x
      <3>1. x = written \o flushed
        OBVIOUS
      <3> HIDE DEF flushed, written, x
      <3>2. d \in Seq(Byte) /\ written \in Seq(Byte) /\ flushed \in Seq(Byte)
        BY <1>1, <1>4, <1>11
      <3>3. (d \o written) \o flushed = d \o (written \o flushed)
        BY <3>2, JoinBytes
      <3> QED BY <3>1, <3>3
    <2>2. (lost \/ wnet.err \/ fnet.err) = lost
      BY <1>2, <1>5, <1>7
    <2> QED BY <2>1, <2>2, <1>10
  <1> QED BY <1>10, <1>12, <1>13 DEF DirTurn, DirTurnSent

(* The routine RoutineTick looks at.                                       *)
LEMMA CurrentShape ==
    ASSUME SInv, RoutineTick
    PROVE  /\ idx \in Index /\ Current = routines[idx] /\ pc = "tick" /\ idx' = idx + 1
           /\ Current.conn \in Conn /\ Current.fd \in Fd /\ table[Current.fd] = Current.conn
           /\ Sound(Current.r, wire[Current.conn], answers[Current.conn], broken[Current.conn])
           /\ answers[Current.conn] \in Seq(Byte) /\ wire[Current.conn] \in Seq(Byte)
           /\ broken[Current.conn] \in BOOLEAN
           /\ Current.r.state = "FAIL" => broken[Current.conn]
           /\ Current.r.sb.fail => broken[Current.conn]
           /\ Current.r.sb \in SendBufferType /\ WellFormed(Current.r.sb)
           /\ PendingLen(Current.r.sb) \in Nat /\ (Current.r.sb.open => PendingLen(Current.r.sb) > 0)
           /\ Current.r.left \in Seq(Byte)
           /\ UNCHANGED <<readSet, pc, readyRead, readyWrite, table>>
           /\ UNCHANGED <<backlog, inbox, taken, eof, broken, asked, answers>>
PROOF
  <1>0. Typed /\ Served
    BY DEF SInv, Base
  <1>1. /\ idx \in Index /\ Current = routines[idx] /\ pc = "tick" /\ idx' = idx + 1
        /\ UNCHANGED <<readSet, pc, readyRead, readyWrite, table>>
        /\ UNCHANGED <<backlog, inbox, taken, eof, broken, asked, answers>>
    <2>1. Len(routines) \in Nat
      BY <1>0, LenProperties DEF Typed
    <2>2. idx \in Nat \ {0} /\ idx <= Len(routines)
      BY <1>0 DEF Typed, RoutineTick
    <2> QED BY <2>1, <2>2 DEF RoutineTick, Index, Current
  <1>2. Current.conn \in Conn /\ Current.fd \in Fd
    BY <1>0, <1>1, EntryFields
  <1>3. /\ answers[Current.conn] \in Seq(Byte) /\ wire[Current.conn] \in Seq(Byte)
        /\ broken[Current.conn] \in BOOLEAN
    BY <1>0, <1>2, ConnFields
  <1>4. Fit(Current, table[Current.fd], wire[Current.conn], answers[Current.conn],
            Room(Current.conn), broken[Current.conn], deferred)
    BY <1>0, <1>1 DEF Served
  <1>5. /\ table[Current.fd] = Current.conn
        /\ Sound(Current.r, wire[Current.conn], answers[Current.conn], broken[Current.conn])
        /\ Current.r.state = "FAIL" => broken[Current.conn]
    BY <1>4 DEF Fit
  <1>6. /\ Current.r.sb.fail => broken[Current.conn]
        /\ Current.r.sb \in SendBufferType /\ WellFormed(Current.r.sb)
        /\ (Current.r.sb.open => PendingLen(Current.r.sb) > 0)
        /\ Current.r.left \in Seq(Byte)
    BY <1>5 DEF Sound, Track
  <1>7. PendingLen(Current.r.sb) \in Nat
    <2>1. /\ Current.r.sb.stream \in Seq(Byte) /\ Current.r.sb.idx \in Nat
          /\ Current.r.sb.idx <= Len(Current.r.sb.stream)
      BY <1>6 DEF SendBufferType, WellFormed
    <2>2. Len(Current.r.sb.stream) \in Nat
      BY <2>1, LenProperties
    <2> QED BY <2>1, <2>2 DEF PendingLen
  <1> QED BY <1>1, <1>2, <1>3, <1>5, <1>6, <1>7

LEMMA TickWaitingStep ==
    ASSUME SInv, RoutineTick, TickWaiting PROVE SInv' /\ Kept
PROOF
  <1>0. Typed /\ Window /\ Watched /\ Distinct /\ Reported /\ OneRequest
        /\ Served /\ OneEach /\ Streams /\ DeferredOwned
    BY DEF SInv, Base
  <1>1. /\ pc = "tick" /\ idx' = idx + 1 /\ UNCHANGED <<routines, deferred, wire>>
        /\ UNCHANGED <<readSet, pc, readyRead, readyWrite, table>>
        /\ UNCHANGED <<backlog, inbox, taken, eof, broken, asked, answers>>
    BY CurrentShape DEF TickWaiting
  <1>2. Typed'
    <2>1. idx' \in Nat \ {0}
      BY <1>0, <1>1 DEF Typed
    <2> QED BY <2>1, <1>0, <1>1 DEF Typed
  <1>3. Window' /\ Watched' /\ OneEach' /\ Streams' /\ DeferredOwned' /\ Distinct' /\ OneRequest'
    BY <1>0, <1>1 DEF Window, Watched, OneEach, Streams, DeferredOwned, Index, Open, Distinct,
                      OneRequest
  <1>4. Served' /\ Reported'
    BY <1>0, <1>1, ServedKeep DEF Reported
  <1>5. Kept
    BY <1>1, KeptStays DEF Index
  <1> QED BY <1>2, <1>3, <1>4, <1>5 DEF SInv, Base

(* RoutineTick sends x for the current routine, and keeps it ...           *)
LEMMA CurrentKeep ==
    ASSUME SInv, RoutineTick, Current.fd \notin deferred,
           NEW x \in Seq(Byte), Len(x) <= Room(Current.conn), wire' = Sent(Current.fd, x),
           NEW s,
           Sound(s, wire[Current.conn] \o x, answers[Current.conn], broken[Current.conn]),
           s.state = "FAIL" => broken[Current.conn],
           Keep(s),
           deferred' = IF s.state = "DEFER" THEN deferred \cup {Current.fd} ELSE deferred
    PROVE  SInv' /\ Kept
PROOF
  <1>1. /\ idx \in Index /\ Current = routines[idx] /\ pc = "tick" /\ idx' = idx + 1
        /\ Current.conn \in Conn /\ table[Current.fd] = Current.conn
        /\ UNCHANGED <<readSet, pc, readyRead, readyWrite, table>>
        /\ UNCHANGED <<backlog, inbox, taken, eof, broken, asked, answers>>
    BY CurrentShape
  <1>2. wire' = [wire EXCEPT ![Current.conn] = wire[Current.conn] \o x]
    <2>1. Sent(Current.fd, x)
            = [wire EXCEPT ![table[Current.fd]] = wire[table[Current.fd]] \o x]
      BY <1>1, SentShape DEF SInv, Base
    <2> QED BY <2>1, <1>1
  <1>3. routines' = [routines EXCEPT ![idx].r = s]
    BY DEF Keep
  <1> DEFINE c == Current.conn
             f == Current.fd
  <1>4. c = routines[idx].conn /\ f = routines[idx].fd
    BY <1>1
  <1>5. /\ f \notin deferred /\ Len(x) <= Room(c)
        /\ wire' = [wire EXCEPT ![c] = wire[c] \o x]
        /\ Sound(s, wire[c] \o x, answers[c], broken[c]) /\ (s.state = "FAIL" => broken[c])
        /\ deferred' = IF s.state = "DEFER" THEN deferred \cup {f} ELSE deferred
    BY <1>2
  <1> HIDE DEF c, f
  <1>6. SInv'
    BY <1>1, <1>3, <1>4, <1>5, TickKeep
  <1>7. Kept
    <2>1. routines \in Seq(Entry)
      BY DEF SInv, Base, Typed
    <2>2. DOMAIN routines = 1..Len(routines) /\ Len(routines) \in Nat
      BY <2>1, LenProperties
    <2>3. routines' \in Seq(Entry)
      BY <1>6 DEF SInv, Base, Typed
    <2>4. DOMAIN routines' = 1..Len(routines') /\ Len(routines') \in Nat
      BY <2>3, LenProperties
    <2>5. DOMAIN routines' = DOMAIN routines
      BY <1>3
    <2>6. Index' = Index
      BY <2>2, <2>4, <2>5 DEF Index
    <2>7. \A i \in Index : routines'[i].conn = routines[i].conn
      BY <1>3, <2>2 DEF Index
    <2> QED BY <2>6, <2>7, KeptStays
  <1> QED BY <1>6, <1>7

(* ... or deletes it.                                                      *)
LEMMA CurrentDrop ==
    ASSUME SInv, RoutineTick,
           NEW x \in Seq(Byte), Len(x) <= Room(Current.conn), wire' = Sent(Current.fd, x),
           Begins(wire[Current.conn] \o x, answers[Current.conn]),
           DeleteCurrent,
           Current.r.type = "FILE" =>
               wire'[Current.conn] = answers[Current.conn] \/ broken[Current.conn]
    PROVE  SInv' /\ Kept
PROOF
  <1>1. /\ idx \in Index /\ Current = routines[idx] /\ pc = "tick" /\ idx' = idx + 1
        /\ Current.conn \in Conn /\ table[Current.fd] = Current.conn
        /\ UNCHANGED <<readSet, pc, readyRead, readyWrite, table>>
        /\ UNCHANGED <<backlog, inbox, taken, eof, broken, asked, answers>>
    BY CurrentShape
  <1> DEFINE c == Current.conn
             f == Current.fd
  <1>2. /\ wire' = [wire EXCEPT ![c] = wire[c] \o x]
        /\ routines' = RoutineArrayDelIdx(idx) /\ deferred' = deferred \ {f}
    <2>1. Sent(f, x) = [wire EXCEPT ![table[f]] = wire[table[f]] \o x]
      BY <1>1, SentShape DEF SInv, Base
    <2> QED BY <2>1, <1>1 DEF DeleteCurrent
  <1>3. /\ c = routines[idx].conn /\ f = routines[idx].fd
        /\ Len(x) <= Room(c) /\ Begins(wire[c] \o x, answers[c])
        /\ (routines[idx].r.type = "FILE" => wire'[c] = answers'[c] \/ eof[c] \/ broken[c])
    BY <1>1
  <1> HIDE DEF c, f
  <1>4. SInv'
    BY <1>1, <1>2, <1>3, TickDrop
  <1>5. Kept
    BY <1>1, <1>2, <1>3, KeptWithout
  <1> QED BY <1>4, <1>5

LEMMA TickFlushingStep ==
    ASSUME SInv, RoutineTick, TickFlushing PROVE SInv' /\ Kept
PROOF
  <1> DEFINE r == Current.r
             c == Current.conn
             f == Current.fd
             net == SendOn(f, PendingLen(r.sb))
             s == FlushTurn(r, net)
             x == FlushTurnSent(r, net)
  <1>1. /\ r.state = "FLUSH" \/ (r.state = "DEFER" /\ f \notin deferred)
        /\ Keep(s) /\ wire' = Sent(f, x) /\ deferred' = deferred
    BY DEF TickFlushing, Sent, FlushTurn, FlushTurnSent
  <1>2. /\ idx \in Index /\ Current = routines[idx] /\ c \in Conn /\ f \in Fd /\ table[f] = c
        /\ Sound(r, wire[c], answers[c], broken[c])
        /\ answers[c] \in Seq(Byte) /\ wire[c] \in Seq(Byte) /\ broken[c] \in BOOLEAN
        /\ PendingLen(r.sb) \in Nat
    BY CurrentShape
  <1>3. Room(c) \in Nat /\ Offer(net, PendingLen(r.sb), Room(c), broken[c])
    BY <1>2, Offered DEF SInv, Base
  <1> HIDE DEF net
  <1>4. /\ x \in Seq(Byte) /\ Len(x) <= Room(c) /\ Sound(s, wire[c] \o x, answers[c], broken[c])
        /\ s.state # "DEFER"
        /\ r.state = "FLUSH" \/ Room(c) > 0 => (s.state = "FAIL" => broken[c])
    <2>1. /\ r.state = "FLUSH" \/ r.state = "DEFER"
          /\ Sound(r, wire[c], answers[c], broken[c])
          /\ Room(c) \in Nat /\ Offer(net, PendingLen(r.sb), Room(c), broken[c])
          /\ answers[c] \in Seq(Byte) /\ broken[c] \in BOOLEAN
      BY <1>1, <1>2, <1>3
    <2> DEFINE room == Room(c)
               wired == wire[c]
               response == answers[c]
               gone == broken[c]
    <2> HIDE DEF s, x, r, room, wired, response, gone
    <2>2. /\ FlushTurnSent(r, net) \in Seq(Byte) /\ Len(FlushTurnSent(r, net)) <= room
          /\ Sound(FlushTurn(r, net), wired \o FlushTurnSent(r, net), response, gone)
          /\ FlushTurn(r, net).state # "DEFER"
          /\ r.state = "FLUSH" \/ room > 0 => (FlushTurn(r, net).state = "FAIL" => gone)
      <3>1. /\ r.state = "FLUSH" \/ r.state = "DEFER"
            /\ Sound(r, wired, response, gone)
            /\ room \in Nat /\ Offer(net, PendingLen(r.sb), room, gone)
            /\ response \in Seq(Byte) /\ gone \in BOOLEAN
        BY <2>1 DEF room, wired, response, gone
      <3> QED BY <3>1, FlushSends
    <2> QED BY <2>2 DEF s, x, room, wired, response, gone
  <1> HIDE DEF s, x
  <1>5. f \notin deferred
    <2>1. CASE r.state = "FLUSH"
      BY <2>1, <1>2, NotWaiting
    <2>2. CASE r.state # "FLUSH"
      BY <2>2, <1>1
    <2> QED BY <2>1, <2>2
  <1>6. s.state = "FAIL" => broken[c]
    <2>1. r.state = "DEFER" => Room(c) > 0 \/ broken[c]
      BY <1>2, <1>5 DEF SInv, Base, Served, Fit
    <2> QED BY <2>1, <1>1, <1>4
  <1>7. deferred' = IF s.state = "DEFER" THEN deferred \cup {f} ELSE deferred
    BY <1>1, <1>4
  <1> QED BY <1>1, <1>4, <1>5, <1>6, <1>7, CurrentKeep

LEMMA TickFileStep ==
    ASSUME SInv, RoutineTick, TickFile PROVE SInv' /\ Kept
PROOF
  <1> DEFINE r == Current.r
             c == Current.conn
             f == Current.fd
             net == SendOn(f, Len(Block(r)))
             s == TickContinueFile(r, net)
             x == WriteSent(r.sb, Block(r), net)
  <1>1. /\ r.state = "CONTINUE" /\ r.type = "FILE" /\ wire' = Sent(f, x)
        /\ IF s.state = "FAIL" THEN DeleteCurrent
           ELSE /\ Keep(s)
                /\ deferred' = IF s.state = "DEFER" THEN deferred \cup {f} ELSE deferred
    BY DEF TickFile
  <1>2. /\ idx \in Index /\ Current = routines[idx] /\ c \in Conn /\ f \in Fd /\ table[f] = c
        /\ Sound(r, wire[c], answers[c], broken[c])
        /\ answers[c] \in Seq(Byte) /\ wire[c] \in Seq(Byte) /\ broken[c] \in BOOLEAN
        /\ r.left \in Seq(Byte)
    BY CurrentShape
  <1>3. Len(Block(r)) \in Nat
    BY <1>2, BlockShape
  <1>4. Room(c) \in Nat /\ Offer(net, Len(Block(r)), Room(c), broken[c])
    BY <1>2, <1>3, Offered DEF SInv, Base
  <1> HIDE DEF net
  <1>5. /\ x \in Seq(Byte) /\ Len(x) <= Room(c) /\ Sound(s, wire[c] \o x, answers[c], broken[c])
        /\ s.state = "FAIL" => broken[c]
    BY <1>1, <1>2, <1>4, FileSends
  <1> HIDE DEF s, x
  <1>6. CASE s.state = "FAIL"
    <2>1. Begins(wire[c] \o x, answers[c])
      BY <1>5 DEF Sound, Track
    <2> QED BY <2>1, <1>1, <1>5, <1>6, CurrentDrop
  <1>7. CASE s.state # "FAIL"
    <2>1. f \notin deferred
      BY <1>1, <1>2, NotWaiting
    <2> QED BY <2>1, <1>1, <1>5, <1>7, CurrentKeep
  <1> QED BY <1>6, <1>7

LEMMA TickDirStep ==
    ASSUME SInv, RoutineTick, TickDir PROVE SInv' /\ Kept
PROOF
  <1> DEFINE r == Current.r
             c == Current.conn
             f == Current.fd
             wnet == SendOn(f, Len(Batch(r)))
             left == SendOn(f, BatchTotal(r, wnet))
             fnet == BatchFlush(r, wnet, left)
             s == DirectoryRoutineContinue(r, wnet, fnet)
             x == BatchSent(r, wnet) \o FlushSent(BatchBuffer(r, wnet), fnet)
  <1>1. /\ r.state = "CONTINUE" /\ r.type = "DIR" /\ wire' = Sent(f, x)
        /\ IF s.state = "FINISH" THEN DeleteCurrent ELSE Keep(s) /\ deferred' = deferred
    BY DEF TickDir, BatchBuffer, BatchSent, BatchTotal, BatchFlush
  <1>2. /\ idx \in Index /\ Current = routines[idx] /\ c \in Conn /\ f \in Fd /\ table[f] = c
        /\ Sound(r, wire[c], answers[c], broken[c])
        /\ answers[c] \in Seq(Byte) /\ wire[c] \in Seq(Byte) /\ broken[c] \in BOOLEAN
        /\ r.left \in Seq(Byte)
    BY CurrentShape
  <1>3. Len(Batch(r)) \in Nat
    BY <1>2, BatchShape
  <1>4. Room(c) \in Nat /\ Offer(wnet, Len(Batch(r)), Room(c), broken[c])
    BY <1>2, <1>3, Offered DEF SInv, Base
  <1> HIDE DEF wnet
  <1>5. BatchTotal(r, wnet) \in Nat
    BY <1>2, <1>4, BatchWritten
  <1>6. Offer(left, BatchTotal(r, wnet), Room(c), broken[c])
    BY <1>2, <1>5, Offered DEF SInv, Base
  <1> HIDE DEF left
  <1>7. /\ x \in Seq(Byte) /\ Len(x) <= Room(c) /\ Sound(s, wire[c] \o x, answers[c], broken[c])
        /\ s.state \in {"FINISH", "CONTINUE"}
    <2> DEFINE room == Room(c)
               wired == wire[c]
               response == answers[c]
               gone == broken[c]
    <2>1. /\ r.state = "CONTINUE" /\ r.type = "DIR" /\ Sound(r, wired, response, gone)
          /\ response \in Seq(Byte) /\ gone \in BOOLEAN /\ room \in Nat
          /\ Offer(wnet, Len(Batch(r)), room, gone) /\ Offer(left, BatchTotal(r, wnet), room, gone)
      BY <1>1, <1>2, <1>4, <1>6
    <2> HIDE DEF s, x, fnet, r, room, wired, response, gone
    <2>2. /\ DirTurnSent(r, wnet, left) \in Seq(Byte) /\ Len(DirTurnSent(r, wnet, left)) <= room
          /\ Sound(DirTurn(r, wnet, left), wired \o DirTurnSent(r, wnet, left), response, gone)
          /\ DirTurn(r, wnet, left).state \in {"FINISH", "CONTINUE"}
      BY <2>1, DirSends
    <2> QED BY <2>2 DEF s, x, fnet, room, wired, response, gone, DirTurn, DirTurnSent
  <1> HIDE DEF s, x
  <1>8. CASE s.state = "FINISH"
    <2>1. Begins(wire[c] \o x, answers[c])
      BY <1>7 DEF Sound, Track
    <2> QED BY <2>1, <1>1, <1>7, <1>8, CurrentDrop
  <1>9. CASE s.state # "FINISH"
    <2>1. f \notin deferred
      BY <1>1, <1>2, NotWaiting
    <2>2. deferred' = IF s.state = "DEFER" THEN deferred \cup {f} ELSE deferred
      BY <1>1, <1>7, <1>9
    <2> QED BY <2>1, <2>2, <1>1, <1>7, <1>9, CurrentKeep
  <1> QED BY <1>8, <1>9

LEMMA TickPlainStep ==
    ASSUME SInv, RoutineTick, TickPlain PROVE SInv' /\ Kept
PROOF
  <1> DEFINE r == Current.r
             c == Current.conn
             s == TickContinuePlain(r)
             x == <<>>
  <1>1. r.state = "CONTINUE" /\ r.type = "ROUTINE" /\ Keep(s) /\ deferred' = deferred /\ wire' = wire
    BY DEF TickPlain
  <1>2. /\ idx \in Index /\ Current = routines[idx] /\ c \in Conn
        /\ Sound(r, wire[c], answers[c], broken[c]) /\ wire[c] \in Seq(Byte)
    BY CurrentShape
  <1>3. Sound(s, wire[c], answers[c], broken[c]) /\ s.state = "FINISH"
    BY <1>1, <1>2, ContinuePlainLemma
  <1>4. Current.fd \notin deferred
    BY <1>1, <1>2, NotWaiting
  <1>5. x \in Seq(Byte) /\ Len(x) <= Room(c) /\ wire' = Sent(Current.fd, x) /\ wire[c] \o x = wire[c]
    <2>1. Room(c) >= 0
      <3>1. Len(wire[c]) \in Nat /\ taken[c] \in Nat /\ Cap \in Nat
        BY <1>2, ConnFields DEF SInv, Base
      <3> QED BY <3>1, <1>2 DEF SInv, Base, Window, Room
    <2> QED BY <2>1, <1>1, <1>2, EmptySeq, ConcatEmptySeq DEF Sent
  <1> HIDE DEF s, x
  <1> QED BY <1>1, <1>3, <1>4, <1>5, CurrentKeep

LEMMA TickDeleteStep ==
    ASSUME SInv, RoutineTick, TickDelete PROVE SInv' /\ Kept
PROOF
  <1> DEFINE r == Current.r
             c == Current.conn
             x == <<>>
  <1>1. r.state \in {"FINISH", "FAIL"} /\ DeleteCurrent /\ wire' = wire
    BY DEF TickDelete
  <1>2. /\ c \in Conn /\ Sound(r, wire[c], answers[c], broken[c]) /\ wire[c] \in Seq(Byte)
        /\ answers[c] \in Seq(Byte) /\ (r.state = "FAIL" => broken[c])
    BY CurrentShape
  <1>3. x \in Seq(Byte) /\ Len(x) <= Room(c) /\ wire' = Sent(Current.fd, x) /\ wire[c] \o x = wire[c]
    <2>1. Room(c) >= 0
      <3>1. Len(wire[c]) \in Nat /\ taken[c] \in Nat /\ Cap \in Nat
        BY <1>2, ConnFields DEF SInv, Base
      <3> QED BY <3>1, <1>2 DEF SInv, Base, Window, Room
    <2> QED BY <2>1, <1>1, <1>2, EmptySeq, ConcatEmptySeq DEF Sent
  <1> HIDE DEF x
  <1>4. Begins(wire[c] \o x, answers[c])
    BY <1>2, <1>3 DEF Sound, Track
  <1>5. r.type = "FILE" => wire'[c] = answers[c] \/ broken[c]
    <2> SUFFICES ASSUME r.type = "FILE", r.state = "FINISH" PROVE wire[c] = answers[c]
      BY <1>1, <1>2
    <2>1. ~r.sb.fail /\ ~r.sb.open /\ r.left = <<>> /\ r.sb \in SendBufferType /\ WellFormed(r.sb)
      BY <1>2 DEF Sound, Shape, Track
    <2>2. (wire[c] \o Pending(r.sb)) \o r.left = answers[c]
      BY <2>1, <1>2 DEF Sound, Track
    <2>3. Pending(r.sb) = <<>>
      BY <2>1, NothingPending
    <2> QED BY <2>1, <2>2, <2>3, <1>2, ConcatEmptySeq
  <1> QED BY <1>1, <1>3, <1>4, <1>5, CurrentDrop

LEMMA RoutineTickStep ==
    ASSUME SInv, RoutineTick PROVE SInv' /\ Kept
  BY TickWaitingStep, TickFlushingStep, TickFileStep, TickDirStep, TickPlainStep, TickDeleteStep
     DEF RoutineTick

-----------------------------------------------------------------------------
(* handleConnection.                                                       *)

(* What the handlers find: the descriptor the scan is at is open and ready *)
(* to read.                                                                *)
LEMMA HandlerShape ==
    ASSUME Base, NEW f \in Fd, handleConnection(f), NEW c, c = table[f]
    PROVE  /\ c \in Conn /\ f \in readSet /\ f # Listen
           /\ inbox[c] # <<>> \/ eof[c] \/ broken[c]
           /\ pc = "scan" /\ pc' = pc /\ idx' = idx
           /\ readyRead' = readyRead \ {f} /\ readyWrite' = readyWrite \ {f}
           /\ inbox' = [inbox EXCEPT ![c] = <<>>]
           /\ UNCHANGED <<backlog, eof, broken, asked>>
PROOF
  <1>0. Typed /\ Watched /\ Reported
    BY DEF Base
  <1>1. /\ Scanning(f) /\ f \in readyRead /\ f # Listen
        /\ inbox' = [inbox EXCEPT ![c] = <<>>]
        /\ UNCHANGED <<backlog, eof, broken, asked>>
    BY DEF handleConnection
  <1>2. /\ pc = "scan" /\ pc' = pc /\ idx' = idx
        /\ readyRead' = readyRead \ {f} /\ readyWrite' = readyWrite \ {f}
    BY <1>0, <1>1, ScanningShape
  <1>3. f \in readSet /\ (inbox[c] # <<>> \/ eof[c] \/ broken[c])
    BY <1>0, <1>1, <1>2 DEF Reported, Readable
  <1>4. c \in Conn
    BY <1>0, <1>3 DEF Watched, Open, Typed
  <1> QED BY <1>1, <1>2, <1>3, <1>4

(* The part of the step that all handlers share: connection c, on          *)
(* descriptor f, now stands at w of the response A, of which the client    *)
(* has read t.                                                             *)
Handled(f, c, w, A, t) ==
    /\ f \in Fd /\ c = table[f] /\ c \in Conn /\ f \in readSet /\ f # Listen
    /\ pc = "scan" /\ pc' = pc /\ idx' = idx
    /\ readyRead' = readyRead \ {f} /\ readyWrite' = readyWrite \ {f}
    /\ inbox' = [inbox EXCEPT ![c] = <<>>]
    /\ UNCHANGED <<backlog, eof, broken, asked>>
    /\ wire' = [wire EXCEPT ![c] = w] /\ w \in Seq(Byte)
    /\ answers' = [answers EXCEPT ![c] = A] /\ A \in Seq(Byte)
    /\ taken' = [taken EXCEPT ![c] = t] /\ t \in Nat
    /\ t <= Len(w) /\ Len(w) - t <= Cap
    /\ Begins(w, A) /\ (A = <<>> => w = <<>>) /\ (asked[c] = 0 => A = <<>>)

LEMMA HandledNet ==
    ASSUME Base, NEW f, NEW c, NEW w, NEW A, NEW t, Handled(f, c, w, A, t)
    PROVE  /\ wire' \in [Conn -> Seq(Byte)] /\ answers' \in [Conn -> Seq(Byte)]
           /\ taken' \in [Conn -> Nat] /\ inbox' \in [Conn -> Seq(Request)]
           /\ wire'[c] = w /\ answers'[c] = A /\ taken'[c] = t /\ inbox'[c] = <<>>
           /\ \A d \in Conn : d # c => /\ wire'[d] = wire[d] /\ answers'[d] = answers[d]
                                       /\ taken'[d] = taken[d] /\ inbox'[d] = inbox[d]
           /\ Window' /\ Streams'
           /\ readyRead' \subseteq Fd \cup {Listen} /\ readyWrite' \subseteq Fd
           /\ \A g \in Fd : g # f => table[g] # c
PROOF
  <1>0. Typed /\ Window /\ Streams /\ Distinct /\ Watched
    BY DEF Base
  <1>1. /\ wire' \in [Conn -> Seq(Byte)] /\ answers' \in [Conn -> Seq(Byte)]
        /\ taken' \in [Conn -> Nat] /\ inbox' \in [Conn -> Seq(Request)]
        /\ wire'[c] = w /\ answers'[c] = A /\ taken'[c] = t /\ inbox'[c] = <<>>
    BY <1>0, EmptySeq DEF Typed, Handled
  <1>2. \A d \in Conn : d # c => /\ wire'[d] = wire[d] /\ answers'[d] = answers[d]
                                 /\ taken'[d] = taken[d] /\ inbox'[d] = inbox[d]
    BY <1>0 DEF Typed, Handled
  <1>3. Window'
    BY <1>0, <1>1, <1>2 DEF Window, Handled
  <1>4. Streams'
    BY <1>0, <1>1, <1>2 DEF Streams, Handled
  <1>5. readyRead' \subseteq Fd \cup {Listen} /\ readyWrite' \subseteq Fd
    BY <1>0 DEF Typed, Handled
  <1>6. \A g \in Fd : g # f => table[g] # c
    BY <1>0 DEF Distinct, Watched, Handled
  <1> QED BY <1>1, <1>2, <1>3, <1>4, <1>5, <1>6

(* What select() reported of the other descriptors is not touched.         *)
Others(f) ==
    \A g \in Fd : g # f => /\ table'[g] = table[g]
                           /\ g \in readSet => g \in readSet'
                           /\ g \in deferred => g \in deferred'

LEMMA HandledReported ==
    ASSUME Base, NEW f, NEW c, NEW w, NEW A, NEW t, Handled(f, c, w, A, t),
           Others(f)
    PROVE  Reported'
PROOF
  <1>0. Typed /\ Reported /\ Watched
    BY DEF Base
  <1>1. /\ pc = "scan" /\ readyRead' = readyRead \ {f} /\ readyWrite' = readyWrite \ {f}
        /\ UNCHANGED <<backlog, eof, broken>> /\ f # Listen
    BY DEF Handled
  <1>2. /\ \A d \in Conn : d # c => wire'[d] = wire[d] /\ taken'[d] = taken[d] /\ inbox'[d] = inbox[d]
        /\ \A g \in Fd : g # f => table[g] # c
    BY HandledNet
  <1>3. \A g \in readyRead' \ {Listen} : g \in readSet' /\ Readable(g)'
    <2> SUFFICES ASSUME NEW g \in readyRead' \ {Listen}
                 PROVE  /\ g \in readSet'
                        /\ inbox'[table'[g]] # <<>> \/ eof'[table'[g]] \/ broken'[table'[g]]
      BY DEF Readable
    <2>1. /\ g \in Fd /\ g # f /\ g \in readSet
          /\ inbox[table[g]] # <<>> \/ eof[table[g]] \/ broken[table[g]]
      BY <1>0, <1>1 DEF Reported, Readable, Typed
    <2>2. table[g] \in Conn /\ table[g] # c
      BY <2>1, <1>0, <1>2 DEF Watched, Open, Typed
    <2> QED BY <2>1, <2>2, <1>1, <1>2 DEF Others
  <1>4. \A g \in readyWrite' : g \in deferred' /\ Writable(g)'
    <2> SUFFICES ASSUME NEW g \in readyWrite'
                 PROVE  /\ g \in deferred'
                        /\ Cap - (Len(wire'[table'[g]]) - taken'[table'[g]]) > 0 \/ broken'[table'[g]]
      BY DEF Writable, Room
    <2>1. /\ g \in Fd /\ g # f /\ g \in deferred
          /\ Cap - (Len(wire[table[g]]) - taken[table[g]]) > 0 \/ broken[table[g]]
      BY <1>0, <1>1 DEF Reported, Writable, Room, Typed
    <2>2. table[g] \in Conn /\ table[g] # c
      BY <2>1, <1>0, <1>2 DEF Watched, Open, Typed
    <2> QED BY <2>1, <2>2, <1>1, <1>2 DEF Others
  <1>5. Listen \in readyRead' => backlog' # <<>>
    BY <1>0, <1>1 DEF Reported
  <1> QED BY <1>3, <1>4, <1>5 DEF Reported

(* The sockets of a handler that keeps its own open ...                    *)
LEMMA StayBase ==
    ASSUME Base, NEW f, NEW c, NEW w, NEW A, NEW t, Handled(f, c, w, A, t),
           routines' \in Seq(Entry), UNCHANGED <<readSet, deferred, table>>
    PROVE  Base'
PROOF
  <1>0. Typed /\ Watched /\ Distinct
    BY DEF Base
  <1>1. /\ wire' \in [Conn -> Seq(Byte)] /\ answers' \in [Conn -> Seq(Byte)]
        /\ taken' \in [Conn -> Nat] /\ inbox' \in [Conn -> Seq(Request)]
        /\ Window' /\ Streams'
        /\ readyRead' \subseteq Fd \cup {Listen} /\ readyWrite' \subseteq Fd
    BY HandledNet
  <1>2. pc' = pc /\ idx' = idx /\ UNCHANGED <<backlog, eof, broken, asked>>
    BY DEF Handled
  <1>3. Typed'
    <2>0. UNCHANGED <<readSet, deferred, table>>
      OBVIOUS
    <2> QED BY <1>0, <1>1, <1>2, <2>0 DEF Typed
  <1>4. Watched' /\ Distinct'
    BY <1>0, <1>2 DEF Watched, Distinct, Open
  <1>5. Reported'
    BY HandledReported DEF Others
  <1> QED BY <1>1, <1>3, <1>4, <1>5 DEF Base

(* ... and of one that closes it.                                          *)
LEMMA CloseBase ==
    ASSUME Base, NEW f, NEW c, NEW w, NEW A, NEW t, Handled(f, c, w, A, t),
           routines' \in Seq(Entry), table' = [table EXCEPT ![f] = None],
           readSet' = readSet \ {f}, deferred' = deferred \ {f}
    PROVE  Base' /\ table'[f] = None /\ \A g \in Fd : g # f => table'[g] = table[g]
PROOF
  <1>0. Typed /\ Watched /\ Distinct
    BY DEF Base
  <1>1. /\ wire' \in [Conn -> Seq(Byte)] /\ answers' \in [Conn -> Seq(Byte)]
        /\ taken' \in [Conn -> Nat] /\ inbox' \in [Conn -> Seq(Request)]
        /\ Window' /\ Streams'
        /\ readyRead' \subseteq Fd \cup {Listen} /\ readyWrite' \subseteq Fd
    BY HandledNet
  <1>2. /\ pc' = pc /\ idx' = idx /\ UNCHANGED <<backlog, eof, broken, asked>>
        /\ f \in Fd /\ f \in readSet
    BY DEF Handled
  <1>3. table' \in [Fd -> Conn \cup {None}] /\ table'[f] = None
        /\ \A g \in Fd : g # f => table'[g] = table[g]
    BY <1>0, <1>2 DEF Typed
  <1>4. Typed'
    <2>1. readSet' \subseteq Fd /\ deferred' \subseteq Fd
      BY <1>0 DEF Typed
    <2> QED BY <2>1, <1>0, <1>1, <1>2, <1>3 DEF Typed
  <1>5. Watched'
    BY <1>0, <1>2, <1>3 DEF Watched, Open
  <1>6. Distinct'
    <2>1. \A g \in Fd : table'[g] # None => table'[g] = table[g] /\ table[g] # None
      BY <1>3
    <2>2. \A g, h \in Fd : table'[g] # None /\ table'[g] = table'[h] => g = h
      BY <2>1, <1>0 DEF Distinct, Open
    <2>3. \A g \in Fd, i \in 1..Len(backlog) : table'[g] # backlog[i]
      <3> SUFFICES ASSUME NEW g \in Fd, NEW i \in 1..Len(backlog) PROVE table'[g] # backlog[i]
        OBVIOUS
      <3>0. backlog \in Seq(Conn)
        BY <1>0 DEF Typed
      <3>1. backlog[i] \in Conn /\ backlog[i] # None
        <4>1. backlog[i] \in Conn
          BY <3>0, ElementOfSeq
        <4> QED BY <4>1, ServerAssumption
      <3>2. CASE table'[g] = None
        BY <3>1, <3>2
      <3>3. CASE table'[g] # None
        BY <3>3, <2>1, <1>0 DEF Distinct
      <3> QED BY <3>2, <3>3
    <2> QED BY <2>2, <2>3, <1>0, <1>2 DEF Distinct, Open
  <1>7. Reported'
    <2>1. Others(f)
      BY <1>3 DEF Others
    <2> QED BY <2>1, HandledReported
  <1> QED BY <1>1, <1>3, <1>4, <1>5, <1>6, <1>7 DEF Base

(* The routines of other connections are not touched either.               *)
LEMMA HandledOthers ==
    ASSUME SInv, NEW f, NEW c, NEW w, NEW A, NEW t, Handled(f, c, w, A, t),
           NEW i \in Index, routines[i].conn # c,
           routines[i].fd # f => table'[routines[i].fd] = table[routines[i].fd],
           routines[i].fd # f /\ routines[i].fd \in deferred => routines[i].fd \in deferred'
    PROVE  LET e == routines[i]
           IN  Fit(e, table'[e.fd], wire'[e.conn], answers'[e.conn],
                   Cap - (Len(wire'[e.conn]) - taken'[e.conn]), broken'[e.conn], deferred')
PROOF
  <1>0. Typed /\ Served
    BY DEF SInv, Base
  <1>1. /\ routines[i].fd \in Fd /\ routines[i].conn \in Conn
        /\ broken[routines[i].conn] \in BOOLEAN
    BY <1>0, EntryFields, ConnFields
  <1>2. Fit(routines[i], table[routines[i].fd], wire[routines[i].conn],
            answers[routines[i].conn], Room(routines[i].conn), broken[routines[i].conn], deferred)
    BY <1>0 DEF Served
  <1>3. table[routines[i].fd] = routines[i].conn /\ routines[i].fd # f
    <2>1. table[routines[i].fd] = routines[i].conn
      BY <1>2 DEF Fit
    <2> QED BY <2>1 DEF Handled
  <1>4. Fit(routines[i], table[routines[i].fd], wire[routines[i].conn],
            answers[routines[i].conn], Room(routines[i].conn), broken[routines[i].conn], deferred')
    BY <1>1, <1>2, <1>3, FitKeep
  <1>5. /\ wire'[routines[i].conn] = wire[routines[i].conn]
        /\ answers'[routines[i].conn] = answers[routines[i].conn]
        /\ taken'[routines[i].conn] = taken[routines[i].conn]
    BY <1>1, HandledNet DEF SInv
  <1>6. broken' = broken
    BY DEF Handled
  <1> QED BY <1>3, <1>4, <1>5, <1>6 DEF Room

(* A handler that leaves the array as it is: connection c has no routine.  *)
LEMMA HandledStay ==
    ASSUME SInv, NEW f, NEW c, NEW w, NEW A, NEW t, Handled(f, c, w, A, t),
           \A i \in Index : routines[i].conn # c,
           UNCHANGED <<routines, readSet, deferred, table>>
    PROVE  SInv' /\ Kept
PROOF
  <1>0. Typed /\ Window /\ Watched /\ Distinct /\ Reported /\ OneRequest
        /\ Served /\ OneEach /\ Streams /\ DeferredOwned
    BY DEF SInv, Base
  <1>1. /\ wire'[c] = w /\ answers'[c] = A /\ taken'[c] = t /\ inbox'[c] = <<>>
        /\ \A d \in Conn : d # c => /\ wire'[d] = wire[d] /\ answers'[d] = answers[d]
                                    /\ inbox'[d] = inbox[d]
    BY HandledNet DEF SInv
  <1>2. /\ UNCHANGED <<broken, asked>> /\ c \in Conn
        /\ (A = <<>> => w = <<>>) /\ (asked[c] = 0 => A = <<>>)
    BY DEF Handled
  <1>3. Base'
    <2>1. routines' \in Seq(Entry)
      BY <1>0 DEF Typed
    <2> QED BY <2>1, StayBase DEF SInv
  <1>6. OneRequest'
    BY <1>0, <1>1, <1>2 DEF OneRequest, Index
  <1>7. Served'
    <2> SUFFICES ASSUME NEW i \in Index
                 PROVE  Fit(routines[i], table'[routines[i].fd], wire'[routines[i].conn],
                            answers'[routines[i].conn],
                            Cap - (Len(wire'[routines[i].conn]) - taken'[routines[i].conn]),
                            broken'[routines[i].conn], deferred')
      BY DEF Served, Index, Room
    <2> QED BY HandledOthers
  <1>8. OneEach' /\ DeferredOwned'
    BY <1>0 DEF OneEach, DeferredOwned, Index
  <1>9. Kept
    BY KeptStays DEF Index
  <1> QED BY <1>3, <1>6, <1>7, <1>8, <1>9 DEF SInv

(* A handler that adds a routine for the response it has begun.            *)
LEMMA HandledAdd ==
    ASSUME SInv, NEW f, NEW c, NEW w, NEW A, NEW t, Handled(f, c, w, A, t),
           \A i \in Index : routines[i].conn # c, A # <<>>,
           NEW s, Sound(s, w, A, broken[c]), s.state = "FLUSH",
           routines' = Append(routines, [r |-> s, fd |-> f, conn |-> c]),
           UNCHANGED <<readSet, deferred, table>>
    PROVE  SInv' /\ Kept
PROOF
  <1> DEFINE e == [r |-> s, fd |-> f, conn |-> c]
             n == Len(routines)
  <1>0. Typed /\ Window /\ Watched /\ Distinct /\ Reported /\ OneRequest
        /\ Served /\ OneEach /\ Streams /\ DeferredOwned
    BY DEF SInv, Base
  <1>1. /\ wire'[c] = w /\ answers'[c] = A /\ taken'[c] = t /\ inbox'[c] = <<>>
    BY HandledNet DEF SInv
  <1>2. \A d \in Conn : d # c => wire'[d] = wire[d] /\ answers'[d] = answers[d] /\ inbox'[d] = inbox[d]
    BY HandledNet DEF SInv
  <1>3. /\ UNCHANGED <<broken, asked>> /\ c \in Conn /\ f \in Fd /\ c = table[f]
        /\ (A = <<>> => w = <<>>) /\ (asked[c] = 0 => A = <<>>)
    BY DEF Handled
  <1>4. e \in Entry /\ e.r = s /\ e.fd = f /\ e.conn = c
    BY <1>3 DEF Entry, Sound
  <1>5. /\ routines \in Seq(Entry) /\ n \in Nat /\ routines' \in Seq(Entry)
        /\ Len(routines') = n + 1 /\ routines'[n + 1] = e
        /\ \A i \in 1..n : routines'[i] = routines[i]
    <2> HIDE DEF e
    <2>1. routines \in Seq(Entry) /\ n \in Nat
      BY <1>0, LenProperties DEF Typed
    <2>2. routines' = Append(routines, e)
      BY DEF e
    <2> QED BY <2>1, <2>2, <1>4, AppendProperties
  <1> HIDE DEF e, n
  <1>6. /\ Index = 1..n /\ Index' = 1..(n + 1)
        /\ \A i \in Index' : i \in Index \/ i = n + 1
    BY <1>5 DEF Index, n
  <1>7. Base'
    BY <1>5, StayBase DEF SInv
  <1>9. OneRequest'
    <2>1. \A d \in Conn : answers'[d] = <<>> => \A i \in Index' : routines'[i].conn # d
      <3> SUFFICES ASSUME NEW d \in Conn, answers'[d] = <<>>, NEW i \in Index'
                   PROVE  routines'[i].conn # d
        OBVIOUS
      <3>1. d # c /\ answers[d] = <<>>
        BY <1>1, <1>2
      <3>2. CASE i \in Index
        BY <3>1, <3>2, <1>0, <1>5, <1>6 DEF OneRequest
      <3>3. CASE i = n + 1
        BY <3>1, <3>3, <1>4, <1>5
      <3> QED BY <3>2, <3>3, <1>6
    <2>2. ASSUME NEW d \in Conn
          PROVE  /\ asked'[d] = 0 => inbox'[d] = <<>> /\ answers'[d] = <<>>
                 /\ inbox'[d] # <<>> => answers'[d] = <<>>
                 /\ answers'[d] = <<>> => wire'[d] = <<>>
      <3>1. CASE d = c
        BY <1>1, <1>3, <3>1
      <3>2. CASE d # c
        BY <1>0, <1>2, <1>3, <3>2 DEF OneRequest
      <3> QED BY <3>1, <3>2
    <2> QED BY <2>1, <2>2 DEF OneRequest
  <1>10. Served'
    <2> DEFINE space(d) == Cap - (Len(wire'[d]) - taken'[d])
    <2> SUFFICES ASSUME NEW i \in Index'
                 PROVE  Fit(routines'[i], table[routines'[i].fd], wire'[routines'[i].conn],
                            answers'[routines'[i].conn], space(routines'[i].conn),
                            broken[routines'[i].conn], deferred)
      BY <1>3 DEF Served, Room
    <2>1. CASE i \in Index
      <3>1. routines'[i] = routines[i]
        BY <2>1, <1>5, <1>6
      <3>2. Fit(routines[i], table'[routines[i].fd], wire'[routines[i].conn],
                answers'[routines[i].conn], space(routines[i].conn),
                broken'[routines[i].conn], deferred')
        BY <2>1, HandledOthers
      <3> QED BY <3>1, <3>2, <1>3
    <2>2. CASE i = n + 1
      <3>1. routines'[i] = e
        BY <2>2, <1>5
      <3>2. Fit(e, table[e.fd], wire'[e.conn], answers'[e.conn], space(e.conn), broken[e.conn],
                deferred)
        BY <1>1, <1>3, <1>4 DEF Fit
      <3> QED BY <3>1, <3>2
    <2> QED BY <2>1, <2>2, <1>6
  <1>11. OneEach'
    <2> SUFFICES ASSUME NEW i \in Index', NEW j \in Index', routines'[i].conn = routines'[j].conn
                 PROVE  i = j
      BY DEF OneEach
    <2>1. \A k \in Index : routines'[k] = routines[k] /\ routines[k].conn # c
      BY <1>5, <1>6
    <2>2. routines'[n + 1].conn = c
      BY <1>4, <1>5
    <2>3. CASE i \in Index /\ j \in Index
      BY <2>1, <2>3, <1>0 DEF OneEach
    <2>4. CASE i = n + 1 /\ j \in Index
      BY <2>1, <2>2, <2>4
    <2>5. CASE i \in Index /\ j = n + 1
      BY <2>1, <2>2, <2>5
    <2>6. CASE i = n + 1 /\ j = n + 1
      BY <2>6
    <2> QED BY <2>3, <2>4, <2>5, <2>6, <1>6
  <1>12. DeferredOwned'
    <2> SUFFICES ASSUME NEW g \in deferred
                 PROVE  \E i \in Index' : routines'[i].fd = g /\ routines'[i].r.state = "DEFER"
      BY DEF DeferredOwned
    <2>1. PICK i \in Index : routines[i].fd = g /\ routines[i].r.state = "DEFER"
      BY <1>0 DEF DeferredOwned
    <2>2. i \in Index' /\ routines'[i] = routines[i]
      BY <2>1, <1>5, <1>6
    <2> QED BY <2>1, <2>2
  <1>13. Kept
    <2>1. \A i \in Index : i \in Index' /\ routines'[i] = routines[i]
      BY <1>5, <1>6
    <2> QED BY <2>1, KeptStays
  <1> QED BY <1>7, <1>9, <1>10, <1>11, <1>12, <1>13 DEF SInv

(* RoutineArrayDelSocket takes one routine of the socket, if it has one.   *)
LEMMA SocketRoutine ==
    ASSUME NEW f, routines' = RoutineArrayDelSocket(f)
    PROVE  \/ routines' = routines /\ \A i \in Index : routines[i].fd # f
           \/ \E k \in Index : routines[k].fd = f /\ routines' = RoutineArrayDelIdx(k)
PROOF
  <1> DEFINE M == {i \in 1..Len(routines) : routines[i].fd = f}
             k == CHOOSE i \in M : \A j \in M : i <= j
  <1>1. CASE M = {}
    BY <1>1 DEF RoutineArrayDelSocket, Index
  <1>2. CASE M # {}
    <2>1. routines' = RoutineArrayDelIdx(k)
      BY <1>2 DEF RoutineArrayDelSocket
    <2>2. k \in M
      <3>1. M \subseteq Nat
        OBVIOUS
      <3>2. Lowest(M) \in M
        BY <3>1, <1>2, LowestIn
      <3> QED BY <3>2 DEF Lowest
    <2>3. k \in Index /\ routines[k].fd = f
      BY <2>2 DEF Index
    <2> HIDE DEF k
    <2> QED BY <2>1, <2>3
  <1> QED BY <1>1, <1>2

(* With one routine on a connection none is left.                          *)
LEMMA SocketGone ==
    ASSUME SInv, NEW f \in Fd, NEW c \in Conn, c = table[f], routines' = RoutineArrayDelSocket(f)
    PROVE  /\ routines' \in Seq(Entry) /\ OneEach'
           /\ \A i \in Index' : \E j \in Index : routines'[i] = routines[j] /\ routines[j].conn # c
           /\ \A j \in Index : routines[j].fd # f => \E i \in Index' : routines'[i] = routines[j]
           /\ \/ /\ routines' = routines /\ \A i \in Index : routines[i].conn # c
              \/ \E k \in Index : routines[k].conn = c /\ routines' = RoutineArrayDelIdx(k)
PROOF
  <1>0. Typed /\ Served /\ OneEach /\ Distinct
    BY DEF SInv, Base
  <1>1. \A i \in Index : routines[i].fd \in Fd /\ table[routines[i].fd] = routines[i].conn
    BY <1>0, EntryFields DEF Served, Fit
  <1>2. \A i \in Index : routines[i].fd = f <=> routines[i].conn = c
    <2>1. Open(f)
      BY ServerAssumption DEF Open
    <2> QED BY <2>1, <1>0, <1>1 DEF Distinct
  <1>3. CASE routines' = routines /\ \A i \in Index : routines[i].fd # f
    BY <1>0, <1>2, <1>3 DEF Index, Typed, OneEach
  <1>4. ASSUME NEW k \in Index, routines[k].fd = f, routines' = RoutineArrayDelIdx(k)
        PROVE  /\ routines' \in Seq(Entry) /\ OneEach' /\ routines[k].conn = c
               /\ \A i \in Index' : \E j \in Index : routines'[i] = routines[j] /\ routines[j].conn # c
               /\ \A j \in Index : routines[j].fd # f => \E i \in Index' : routines'[i] = routines[j]
    <2>1. routines[k].conn = c
      BY <1>2, <1>4
    <2>2. /\ routines' \in Seq(Entry) /\ OneEach'
          /\ \A i \in Index' : \E j \in Index : j # k /\ routines'[i] = routines[j]
          /\ \A j \in Index : j # k => \E i \in Index' : routines'[i] = routines[j]
      BY <1>4, <1>0, ArrayWithout
    <2>3. \A j \in Index : j # k => routines[j].conn # c
      BY <2>1, <1>0 DEF OneEach
    <2>4. \A i \in Index' : \E j \in Index : routines'[i] = routines[j] /\ routines[j].conn # c
      BY <2>2, <2>3
    <2>5. \A j \in Index : routines[j].fd # f => \E i \in Index' : routines'[i] = routines[j]
      BY <1>4, <2>2
    <2> QED BY <2>1, <2>2, <2>4, <2>5
  <1>5. CASE \E k \in Index : routines[k].fd = f /\ routines' = RoutineArrayDelIdx(k)
    <2>1. PICK k \in Index : routines[k].fd = f /\ routines' = RoutineArrayDelIdx(k)
      BY <1>5
    <2>2. /\ routines' \in Seq(Entry) /\ OneEach' /\ routines[k].conn = c
          /\ \A i \in Index' : \E j \in Index : routines'[i] = routines[j] /\ routines[j].conn # c
          /\ \A j \in Index : routines[j].fd # f => \E i \in Index' : routines'[i] = routines[j]
      BY <2>1, <1>4
    <2> QED BY <2>1, <2>2
  <1> QED BY <1>3, <1>5, SocketRoutine

(* A handler that gives the connection up: its socket is closed and left   *)
(* out of the sets, and its routine goes with it.                          *)
LEMMA HandledClose ==
    ASSUME SInv, NEW f, NEW c, NEW w, NEW A, NEW t, Handled(f, c, w, A, t),
           (\A i \in Index : routines[i].conn # c) \/ eof[c] \/ broken[c],
           CloseSocket(f)
    PROVE  SInv' /\ Kept
PROOF
  <1>0. Typed /\ Window /\ Watched /\ Distinct /\ Reported /\ OneRequest
        /\ Served /\ OneEach /\ Streams /\ DeferredOwned
    BY DEF SInv, Base
  <1>1. wire'[c] = w /\ answers'[c] = A /\ taken'[c] = t /\ inbox'[c] = <<>>
    BY HandledNet DEF SInv
  <1>2. \A d \in Conn : d # c => wire'[d] = wire[d] /\ answers'[d] = answers[d] /\ inbox'[d] = inbox[d]
    BY HandledNet DEF SInv
  <1>3. /\ UNCHANGED <<broken, asked>> /\ c \in Conn /\ f \in Fd /\ c = table[f]
        /\ (A = <<>> => w = <<>>) /\ (asked[c] = 0 => A = <<>>)
    BY DEF Handled
  <1>4. /\ routines' = RoutineArrayDelSocket(f) /\ table' = [table EXCEPT ![f] = None]
        /\ readSet' = readSet \ {f} /\ deferred' = deferred \ {f}
    BY DEF CloseSocket
  <1>5. /\ routines' \in Seq(Entry) /\ OneEach'
        /\ \A i \in Index' : \E j \in Index : routines'[i] = routines[j] /\ routines[j].conn # c
        /\ \A j \in Index : routines[j].fd # f => \E i \in Index' : routines'[i] = routines[j]
    BY <1>3, <1>4, SocketGone
  <1>6. Base' /\ \A g \in Fd : g # f => table'[g] = table[g]
    <2>1. /\ Base /\ routines' \in Seq(Entry) /\ table' = [table EXCEPT ![f] = None]
          /\ readSet' = readSet \ {f} /\ deferred' = deferred \ {f}
      BY <1>4, <1>5 DEF SInv
    <2> QED BY <2>1, CloseBase
  <1>11. OneRequest'
    <2>1. \A d \in Conn : answers'[d] = <<>> => \A i \in Index' : routines'[i].conn # d
      <3> SUFFICES ASSUME NEW d \in Conn, answers'[d] = <<>>, NEW i \in Index'
                   PROVE  routines'[i].conn # d
        OBVIOUS
      <3>1. PICK j \in Index : routines'[i] = routines[j] /\ routines[j].conn # c
        BY <1>5
      <3>2. CASE d = c
        BY <3>1, <3>2
      <3>3. CASE d # c
        BY <3>1, <3>3, <1>0, <1>2 DEF OneRequest
      <3> QED BY <3>2, <3>3
    <2>2. ASSUME NEW d \in Conn
          PROVE  /\ asked'[d] = 0 => inbox'[d] = <<>> /\ answers'[d] = <<>>
                 /\ inbox'[d] # <<>> => answers'[d] = <<>>
                 /\ answers'[d] = <<>> => wire'[d] = <<>>
      <3>1. CASE d = c
        BY <1>1, <1>3, <3>1
      <3>2. CASE d # c
        BY <1>0, <1>2, <1>3, <3>2 DEF OneRequest
      <3> QED BY <3>1, <3>2
    <2> QED BY <2>1, <2>2 DEF OneRequest
  <1>12. Served'
    <2> DEFINE space(d) == Cap - (Len(wire'[d]) - taken'[d])
    <2> SUFFICES ASSUME NEW i \in Index'
                 PROVE  Fit(routines'[i], table'[routines'[i].fd], wire'[routines'[i].conn],
                            answers'[routines'[i].conn], space(routines'[i].conn),
                            broken'[routines'[i].conn], deferred')
      BY DEF Served, Room
    <2>1. PICK j \in Index : routines'[i] = routines[j] /\ routines[j].conn # c
      BY <1>5
    <2>2. routines[j].fd \in Fd
      BY <1>0, EntryFields
    <2>3. routines[j].fd # f => table'[routines[j].fd] = table[routines[j].fd]
      BY <2>2, <1>6
    <2>4. routines[j].fd # f /\ routines[j].fd \in deferred => routines[j].fd \in deferred'
      BY <1>4
    <2>5. Fit(routines[j], table'[routines[j].fd], wire'[routines[j].conn],
              answers'[routines[j].conn], space(routines[j].conn),
              broken'[routines[j].conn], deferred')
      BY <2>1, <2>3, <2>4, HandledOthers
    <2> QED BY <2>1, <2>5
  <1>13. DeferredOwned'
    <2> SUFFICES ASSUME NEW g \in deferred'
                 PROVE  \E i \in Index' : routines'[i].fd = g /\ routines'[i].r.state = "DEFER"
      BY DEF DeferredOwned
    <2>1. g \in deferred /\ g # f
      BY <1>4
    <2>2. PICK j \in Index : routines[j].fd = g /\ routines[j].r.state = "DEFER"
      BY <2>1, <1>0 DEF DeferredOwned
    <2>3. PICK i \in Index' : routines'[i] = routines[j]
      BY <2>1, <2>2, <1>5
    <2> QED BY <2>2, <2>3
  <1>14. Kept
    <2>1. CASE routines' = routines /\ \A i \in Index : routines[i].conn # c
      BY <2>1, KeptStays DEF Index
    <2>2. ASSUME NEW k \in Index, routines[k].conn = c, routines' = RoutineArrayDelIdx(k)
          PROVE  Kept
      <3>1. eof[c] \/ broken[c]
        BY <2>2
      <3> QED BY <2>2, <3>1, KeptWithout
    <2> QED BY <2>1, <2>2, <1>3, <1>4, SocketGone
  <1> QED BY <1>5, <1>6, <1>11, <1>12, <1>13, <1>14 DEF SInv

-----------------------------------------------------------------------------
(* The responses.  Those of a connection are numbered one after another,   *)
(* and there are enough bytes for all the requests it may send.            *)
Longest == HeaderLen + FileLen + DirLen
Total == MaxRequests * Longest

LEMMA Sizes ==
    /\ HeaderLen \in Nat /\ HeaderLen > 0 /\ FileLen \in Nat /\ DirLen \in Nat
    /\ Cap \in Nat /\ Longest \in Nat /\ Longest > 0 /\ Total \in Nat
    /\ Longest = HeaderLen + FileLen + DirLen
PROOF
  <1>1. /\ HeaderLen \in Nat /\ HeaderLen > 0 /\ FileLen \in Nat /\ DirLen \in Nat
        /\ Cap \in Nat /\ MaxRequests \in Nat
    BY ServerAssumption
  <1>2. Longest \in Nat /\ Longest > 0
    BY <1>1 DEF Longest
  <1>3. Total \in Nat
    <2>1. \A a, b \in Nat : a * b \in Nat
      OBVIOUS
    <2> QED BY <2>1, <1>1, <1>2 DEF Total
  <1>4. Longest = HeaderLen + FileLen + DirLen
    BY DEF Longest
  <1> QED BY <1>1, <1>2, <1>3, <1>4

LEMMA BytesShape ==
    ASSUME NEW c \in Conn, NEW from \in Nat, NEW n \in Nat, from + n <= Total
    PROVE  /\ Bytes(c, from, n) \in Seq(Byte) /\ Len(Bytes(c, from, n)) = n
           /\ \A i \in 1..n : Bytes(c, from, n)[i] = <<c, from + i>>
           /\ n = 0 => Bytes(c, from, n) = <<>>
PROOF
  <1>1. Conn \X (1..Total) \subseteq Byte
    BY Zenon, ByteAssumption DEF Total, Longest
  <1>2. \A i \in 1..n : from + i \in 1..Total
    BY Sizes
  <1>3. \A i \in 1..n : <<c, from + i>> \in Byte
    <2>1. ASSUME NEW i \in 1..n PROVE <<c, from + i>> \in Conn \X (1..Total)
      BY <1>2
    <2> QED BY <2>1, <1>1
  <1> DEFINE s == Bytes(c, from, n)
  <1>4. s = [i \in 1..n |-> <<c, from + i>>]
    BY DEF Bytes
  <1>5. s \in Seq(Byte) /\ Len(s) = n
    <2>1. s \in [1..n -> Byte] /\ DOMAIN s = 1..n
      BY <1>3, <1>4
    <2> HIDE DEF s
    <2>2. s \in Seq(Byte)
      BY <2>1, SeqDef
    <2>3. Len(s) \in Nat /\ 1..Len(s) = 1..n
      BY <2>1, <2>2, LenProperties
    <2> QED BY <2>2, <2>3
  <1>6. \A i \in 1..n : s[i] = <<c, from + i>>
    BY <1>4
  <1>7. n = 0 => s = <<>>
    BY <1>5, EmptySeq
  <1> QED BY <1>5, <1>6, <1>7

LEMMA BytesSplit ==
    ASSUME NEW c \in Conn, NEW from \in Nat, NEW h \in Nat, NEW n \in Nat,
           from + (h + n) <= Total
    PROVE  Bytes(c, from, h + n) = Bytes(c, from, h) \o Bytes(c, from + h, n)
PROOF
  <1> DEFINE u == Bytes(c, from, h + n)
             p == Bytes(c, from, h)
             q == Bytes(c, from + h, n)
  <1>0. Total \in Nat
    BY Sizes
  <1>1. u \in Seq(Byte) /\ Len(u) = h + n /\ \A i \in 1..(h + n) : u[i] = <<c, from + i>>
    <2>1. h + n \in Nat
      OBVIOUS
    <2> QED BY <2>1, BytesShape
  <1>2. p \in Seq(Byte) /\ Len(p) = h /\ \A i \in 1..h : p[i] = <<c, from + i>>
    <2>1. from + h <= Total
      BY <1>0
    <2> QED BY <2>1, BytesShape
  <1>3. q \in Seq(Byte) /\ Len(q) = n /\ \A i \in 1..n : q[i] = <<c, (from + h) + i>>
    <2>1. from + h \in Nat /\ (from + h) + n <= Total
      BY <1>0
    <2> QED BY <2>1, BytesShape
  <1> HIDE DEF u, p, q
  <1>4. /\ p \o q \in Seq(Byte) /\ Len(p \o q) = h + n
        /\ \A i \in 1..(h + n) : (p \o q)[i] = IF i <= h THEN p[i] ELSE q[i - h]
    BY <1>2, <1>3, ConcatProperties
  <1>5. ASSUME NEW i \in 1..(h + n) PROVE u[i] = (p \o q)[i]
    <2>1. CASE i <= h
      <3>1. i \in 1..h
        BY <2>1
      <3>2. (p \o q)[i] = p[i] /\ p[i] = <<c, from + i>>
        BY <3>1, <2>1, <1>2, <1>4
      <3> QED BY <3>2, <1>1
    <2>2. CASE ~(i <= h)
      <3>1. i - h \in 1..n /\ (from + h) + (i - h) = from + i
        BY <2>2
      <3>2. q[i - h] = <<c, from + i>>
        BY <3>1, <1>3
      <3> QED BY <3>2, <2>2, <1>1, <1>4
    <2> QED BY <2>1, <2>2
  <1>6. u = p \o q
    BY <1>1, <1>4, <1>5, SeqEqual
  <1> QED BY <1>6 DEF u, p, q

LEMMA JoinLen ==
    ASSUME NEW p \in Seq(Byte), NEW q \in Seq(Byte)
    PROVE  p \o q \in Seq(Byte) /\ Len(p \o q) = Len(p) + Len(q)
  BY ConcatProperties

(* Two beginnings of the same length are the same.                         *)
LEMMA SameBeginning ==
    ASSUME NEW d \in Seq(Byte), NEW e \in Seq(Byte), NEW R \in Seq(Byte),
           Begins(d, R), Begins(e, R), Len(d) = Len(e)
    PROVE  d = e
PROOF
  <1>1. Len(d) \in Nat /\ \A i \in 1..Len(d) : d[i] = e[i]
    BY LenProperties DEF Begins
  <1> QED BY <1>1, SeqEqual

LEMMA FirstBegins ==
    ASSUME NEW s \in Seq(Byte), NEW n \in 0..Len(s), NEW l \in Seq(Byte)
    PROVE  First(s, n) \in Seq(Byte) /\ Len(First(s, n)) = n /\ Begins(First(s, n), s \o l)
PROOF
  <1> DEFINE d == SubSeq(s, 1, n)
             p == SubSeq(s, n + 1, Len(s))
  <1>1. d \in Seq(Byte) /\ p \in Seq(Byte) /\ Len(d) = n /\ d \o p = s
    BY SplitJoin
  <1> HIDE DEF d, p
  <1> DEFINE R == s \o l
  <1>2. R = (d \o p) \o l
    BY <1>1
  <1> HIDE DEF R
  <1>3. Begins(d, R)
    <2>1. d \in Seq(Byte) /\ p \in Seq(Byte)
      BY <1>1
    <2>2. Len(d) <= Len(R) /\ \A i \in 1..Len(d) : d[i] = R[i]
      BY <2>1, <1>2, PartBegins
    <2> QED BY <2>2 DEF Begins
  <1> QED BY <1>1, <1>3 DEF First, d, R

(* What was answered before comes in front.                                *)
LEMMA BeginsAfter ==
    ASSUME NEW p \in Seq(Byte), NEW d \in Seq(Byte), NEW R \in Seq(Byte), Begins(d, R)
    PROVE  Begins(p \o d, p \o R)
PROOF
  <1>1. /\ Len(p) \in Nat /\ Len(d) \in Nat /\ Len(R) \in Nat
        /\ Len(p \o d) = Len(p) + Len(d) /\ Len(p \o R) = Len(p) + Len(R)
        /\ \A i \in 1..(Len(p) + Len(d)) : (p \o d)[i] = IF i <= Len(p) THEN p[i] ELSE d[i - Len(p)]
        /\ \A i \in 1..(Len(p) + Len(R)) : (p \o R)[i] = IF i <= Len(p) THEN p[i] ELSE R[i - Len(p)]
    BY ConcatProperties, LenProperties
  <1>2. Len(d) <= Len(R) /\ \A i \in 1..Len(d) : d[i] = R[i]
    BY DEF Begins
  <1>3. ASSUME NEW i \in 1..(Len(p) + Len(d)) PROVE (p \o d)[i] = (p \o R)[i]
    <2>1. i \in 1..(Len(p) + Len(R))
      BY <1>1, <1>2
    <2>2. CASE i <= Len(p)
      BY <2>1, <2>2, <1>1
    <2>3. CASE ~(i <= Len(p))
      <3>1. i - Len(p) \in 1..Len(d)
        BY <2>3, <1>1
      <3> QED BY <3>1, <2>1, <2>3, <1>1, <1>2
    <2> QED BY <2>2, <2>3
  <1> QED BY <1>1, <1>2, <1>3 DEF Begins

LEMMA SoundAfter ==
    ASSUME NEW r, NEW d, NEW R \in Seq(Byte), NEW lost, NEW p \in Seq(Byte), Sound(r, d, R, lost)
    PROVE  Sound(r, p \o d, p \o R, lost)
PROOF
  <1>1. /\ r \in RoutineType /\ Shape(r) /\ d \in Seq(Byte) /\ Begins(d, R)
        /\ r.left \in Seq(Byte) /\ r.sb \in SendBufferType /\ WellFormed(r.sb)
        /\ (r.sb.open => PendingLen(r.sb) > 0) /\ (r.sb.fail => lost)
        /\ (~r.sb.fail => (d \o Pending(r.sb)) \o r.left = R)
    BY DEF Sound, Track
  <1> DEFINE q == Pending(r.sb)
             l == r.left
  <1>2. q \in Seq(Byte)
    <2>1. r.sb.stream \in Seq(Byte) /\ r.sb.idx \in 0..Len(r.sb.stream)
      BY <1>1, LenProperties DEF SendBufferType, WellFormed
    <2> QED BY <2>1, SplitJoin DEF Pending
  <1>3. ((p \o d) \o q) \o l = p \o ((d \o q) \o l)
    <2>1. l \in Seq(Byte)
      BY <1>1
    <2> HIDE DEF q, l
    <2>a. d \in Seq(Byte) /\ q \in Seq(Byte)
      BY <1>1, <1>2
    <2>b. (p \o d) \o q = p \o (d \o q)
      BY <2>a, JoinBytes
    <2>c. d \o q \in Seq(Byte)
      BY <2>a, JoinLen
    <2>2. (p \o d) \o q = p \o (d \o q) /\ d \o q \in Seq(Byte)
      BY <2>b, <2>c
    <2>3. (p \o (d \o q)) \o l = p \o ((d \o q) \o l)
      BY <2>1, <2>c, JoinBytes
    <2> QED BY <2>2, <2>3
  <1>4. p \o d \in Seq(Byte) /\ Begins(p \o d, p \o R)
    BY <1>1, JoinLen, BeginsAfter
  <1> QED BY <1>1, <1>3, <1>4 DEF Sound, Track

(* The connection a request is answered on: the client has all of the      *)
(* responses to its earlier requests, and nobody waits on the socket.      *)
Ready(f, c) ==
    /\ wire[c] = answers[c] /\ taken[c] = Len(answers[c])
    /\ Len(answers[c]) + Longest <= Total
    /\ asked[c] # 0 /\ f \notin deferred

(* A response of n bytes after the header, begun on connection c.          *)
Begun(f, c, n) ==
    /\ f \in Fd /\ handleConnection(f) /\ c = table[f] /\ inbox[c] # <<>> /\ Ready(f, c)
    /\ n \in Nat /\ n <= FileLen + DirLen
    /\ Answer(c, HeaderLen + n)

Whole(c, n) == Bytes(c, Begin(c), HeaderLen + n)
Body(c, n) == Bytes(c, Begin(c) + HeaderLen, n)

LEMMA BegunShape ==
    ASSUME Base, NEW f, NEW c, NEW n, Begun(f, c, n)
    PROVE  /\ c \in Conn /\ f \in Fd /\ c = table[f] /\ broken[c] \in BOOLEAN /\ n \in Nat
           /\ answers[c] \in Seq(Byte) /\ wire[c] = answers[c] /\ taken[c] = Len(answers[c])
           /\ Len(answers[c]) \in Nat /\ asked[c] # 0 /\ f \notin deferred
           /\ HeaderBytes(c) \in Seq(Byte) /\ Len(HeaderBytes(c)) = HeaderLen
           /\ Body(c, n) \in Seq(Byte) /\ (n = 0 => Body(c, n) = <<>>)
           /\ Whole(c, n) = HeaderBytes(c) \o Body(c, n)
           /\ Whole(c, n) \in Seq(Byte) /\ Len(Whole(c, n)) = HeaderLen + n
           /\ answers' = [answers EXCEPT ![c] = answers[c] \o Whole(c, n)]
PROOF
  <1>0. /\ Typed /\ f \in Fd /\ c = table[f] /\ n \in Nat /\ n <= FileLen + DirLen
        /\ Answer(c, HeaderLen + n) /\ handleConnection(f)
        /\ wire[c] = answers[c] /\ taken[c] = Len(answers[c])
        /\ Len(answers[c]) + Longest <= Total /\ asked[c] # 0 /\ f \notin deferred
    BY DEF Base, Begun, Ready
  <1>1. c \in Conn
    BY <1>0, HandlerShape
  <1>2. answers[c] \in Seq(Byte) /\ Len(answers[c]) \in Nat /\ broken[c] \in BOOLEAN
    BY <1>0, <1>1, ConnFields
  <1> DEFINE from == Len(answers[c])
  <1>3. Begin(c) = from
    BY DEF Begin
  <1>4. /\ from \in Nat /\ HeaderLen \in Nat /\ from + HeaderLen \in Nat
        /\ from + HeaderLen <= Total
        /\ (from + HeaderLen) + n <= Total /\ from + (HeaderLen + n) <= Total
        /\ HeaderLen + n \in Nat
    <2>1. from \in Nat /\ from + Longest <= Total
      BY <1>0, <1>2
    <2>2. /\ HeaderLen \in Nat /\ FileLen \in Nat /\ DirLen \in Nat /\ Total \in Nat
          /\ Longest = HeaderLen + FileLen + DirLen
      BY Sizes
    <2> HIDE DEF from
    <2> QED BY <2>1, <2>2, <1>0
  <1> HIDE DEF from
  <1>5. HeaderBytes(c) \in Seq(Byte) /\ Len(HeaderBytes(c)) = HeaderLen
    BY <1>1, <1>3, <1>4, BytesShape DEF HeaderBytes
  <1>6. Body(c, n) \in Seq(Byte) /\ (n = 0 => Body(c, n) = <<>>)
    BY <1>0, <1>1, <1>3, <1>4, BytesShape DEF Body
  <1>7. Whole(c, n) = HeaderBytes(c) \o Body(c, n)
    <2>a. c \in Conn /\ from \in Nat /\ HeaderLen \in Nat /\ n \in Nat /\ from + (HeaderLen + n) <= Total
      BY <1>0, <1>1, <1>4
    <2>1. Bytes(c, from, HeaderLen + n) = Bytes(c, from, HeaderLen) \o Bytes(c, from + HeaderLen, n)
      BY <2>a, BytesSplit
    <2> QED BY <2>1, <1>3 DEF Whole, HeaderBytes, Body
  <1>8. Whole(c, n) \in Seq(Byte) /\ Len(Whole(c, n)) = HeaderLen + n
    BY <1>1, <1>3, <1>4, BytesShape DEF Whole
  <1>9. answers' = [answers EXCEPT ![c] = answers[c] \o Whole(c, n)]
    BY <1>0 DEF Answer, Whole
  <1> QED BY <1>0, <1>1, <1>2, <1>5, <1>6, <1>7, <1>8, <1>9

(* How much of the header the socket takes at once.                        *)
LEMMA HeaderTaken ==
    ASSUME Base, NEW f, NEW c, NEW n, Begun(f, c, n)
    PROVE  /\ HeaderNet(f) \in [k : 0..HeaderLen, err : BOOLEAN]
           /\ HeaderNet(f).k \in 0..HeaderLen /\ HeaderNet(f).k <= Cap
           /\ HeaderNet(f).err = broken[c]
PROOF
  <1> DEFINE net == HeaderNet(f)
  <1>1. c \in Conn /\ f \in Fd /\ c = table[f] /\ broken[c] \in BOOLEAN /\ Typed /\ Window
    BY BegunShape DEF Base
  <1>2. HeaderLen \in Nat /\ HeaderLen > 0 /\ Cap \in Nat
    BY Sizes
  <1>3. net = SendOn(f, HeaderLen)
    BY DEF HeaderNet
  <1> HIDE DEF net
  <1>4. /\ net = [k |-> net.k, err |-> net.err]
        /\ net.k \in 0..HeaderLen /\ net.err \in BOOLEAN
    BY <1>1, <1>2, <1>3, SendOnShape
  <1>5. net.k <= Room(c) /\ Room(c) \in 0..Cap
    BY <1>1, <1>2, <1>3, SendOnShape
  <1>6. (net.err => broken[c]) /\ (broken[c] => (net.err <=> HeaderLen > 0))
    BY <1>1, <1>2, <1>3, SendOnShape
  <1>7. net.err = broken[c]
    BY <1>1, <1>2, <1>4, <1>6
  <1>8. net.k <= Cap
    BY <1>2, <1>4, <1>5
  <1>9. net \in [k : 0..HeaderLen, err : BOOLEAN]
    BY <1>4
  <1> QED BY <1>4, <1>7, <1>8, <1>9 DEF net

(* What the connection has after the header was written to its socket.     *)
LEMMA BegunHandled ==
    ASSUME Base, NEW f, NEW c, NEW n, Begun(f, c, n),
           NEW k \in 0..HeaderLen, NEW j \in 0..k, k - j <= Cap,
           wire' = Sent(f, First(HeaderBytes(c), k)),
           taken' = [taken EXCEPT ![c] = taken[c] + j]
    PROVE  Handled(f, c, answers[c] \o First(HeaderBytes(c), k), answers[c] \o Whole(c, n),
                   taken[c] + j)
PROOF
  <1> DEFINE p == answers[c]
             x == First(HeaderBytes(c), k)
             W == Whole(c, n)
             t == taken[c] + j
  <1>0. Typed /\ f \in Fd /\ c = table[f] /\ handleConnection(f)
    BY DEF Base, Begun
  <1>1. /\ c \in Conn /\ p \in Seq(Byte) /\ wire[c] = p /\ taken[c] = Len(p) /\ Len(p) \in Nat
        /\ asked[c] # 0
        /\ HeaderBytes(c) \in Seq(Byte) /\ Len(HeaderBytes(c)) = HeaderLen
        /\ Body(c, n) \in Seq(Byte) /\ n \in Nat
        /\ W \in Seq(Byte) /\ Len(W) = HeaderLen + n
        /\ answers' = [answers EXCEPT ![c] = p \o W]
    BY BegunShape
  <1>2. W = HeaderBytes(c) \o Body(c, n)
    BY BegunShape
  <1>3. x \in Seq(Byte) /\ Len(x) = k /\ Begins(x, W)
    BY <1>1, <1>2, FirstBegins
  <1>4. wire' = [wire EXCEPT ![c] = p \o x]
    <2> HIDE DEF x
    <2>1. wire' = [wire EXCEPT ![c] = wire[c] \o x]
      BY <1>0, <1>1, <1>3, SentShape DEF x
    <2> QED BY <2>1, <1>1
  <1>5. /\ f \in readSet /\ f # Listen /\ pc = "scan" /\ pc' = pc /\ idx' = idx
        /\ readyRead' = readyRead \ {f} /\ readyWrite' = readyWrite \ {f}
        /\ inbox' = [inbox EXCEPT ![c] = <<>>]
        /\ UNCHANGED <<backlog, eof, broken, asked>>
    BY <1>0, HandlerShape
  <1> HIDE DEF p, x, W
  <1>6. /\ p \o x \in Seq(Byte) /\ Len(p \o x) = Len(p) + k
        /\ p \o W \in Seq(Byte) /\ Len(p \o W) = Len(p) + (HeaderLen + n)
        /\ Begins(p \o x, p \o W)
    <2>1. p \o x \in Seq(Byte) /\ Len(p \o x) = Len(p) + k
      BY <1>1, <1>3, JoinLen
    <2>a. p \in Seq(Byte) /\ W \in Seq(Byte) /\ Len(W) = HeaderLen + n
      BY <1>1
    <2>2. p \o W \in Seq(Byte) /\ Len(p \o W) = Len(p) + (HeaderLen + n)
      BY <2>a, JoinLen
    <2>3. Begins(p \o x, p \o W)
      BY <1>1, <1>3, BeginsAfter
    <2> QED BY <2>1, <2>2, <2>3
  <1>7. HeaderLen \in Nat /\ HeaderLen > 0 /\ Cap \in Nat
    BY Sizes
  <1>8. t \in Nat /\ t <= Len(p \o x) /\ Len(p \o x) - t <= Cap
    BY <1>1, <1>6, <1>7
  <1>9. p \o W # <<>>
    <2>1. Len(p \o W) # 0
      BY <1>1, <1>6, <1>7
    <2> QED BY <2>1, EmptySeq
  <1>10. taken' = [taken EXCEPT ![c] = t]
    OBVIOUS
  <1> HIDE DEF t
  <1>11. Handled(f, c, p \o x, p \o W, t)
    BY <1>0, <1>1, <1>4, <1>5, <1>6, <1>8, <1>9, <1>10 DEF Handled
  <1> QED BY <1>11 DEF p, x, W, t

(* The routine for the body, with the header in its buffer.                *)
LEMMA BegunRoutine ==
    ASSUME Base, NEW f, NEW c, NEW n, Begun(f, c, n),
           NEW kind \in RoutineKind, kind = "ROUTINE" => n = 0
    PROVE  /\ Sound(RoutineNew(kind, HeaderBuffer(f), Body(c, n)),
                    First(HeaderBytes(c), HeaderNet(f).k), Whole(c, n), broken[c])
           /\ RoutineNew(kind, HeaderBuffer(f), Body(c, n)).state = "FLUSH"
PROOF
  <1> DEFINE head == HeaderBytes(c)
             body == Body(c, n)
             net == HeaderNet(f)
             b == HeaderBuffer(f)
             e == First(head, net.k)
             s == RoutineNew(kind, b, body)
             R == Whole(c, n)
  <1>1. /\ head \in Seq(Byte) /\ Len(head) = HeaderLen /\ R \in Seq(Byte)
        /\ body \in Seq(Byte) /\ (n = 0 => body = <<>>) /\ c \in Conn
        /\ net \in [k : 0..HeaderLen, err : BOOLEAN] /\ net.err = broken[c]
    BY BegunShape, HeaderTaken
  <1>2. R = head \o body
    BY BegunShape
  <1>3. b = sendBufferWriteData(sendBufferNew, head, net)
    BY DEF HeaderBuffer, Begun
  <1>4. e = WriteSent(sendBufferNew, head, net)
    BY DEF WriteSent, sendBufferNew, First
  <1>5. s = RoutineNew(kind, b, body)
    OBVIOUS
  <1> HIDE DEF head, body, net, b, e, R
  <1>7. Sound(RoutineNew(kind, b, body), e, head \o body, net.err)
    BY <1>1, <1>3, <1>4, NewRoutineLemma
  <1>8. RoutineNew(kind, b, body).state = "FLUSH"
    BY DEF RoutineNew
  <1>9. Sound(RoutineNew(kind, b, body), e, R, broken[c])
    BY <1>1, <1>2, <1>7
  <1> QED BY <1>8, <1>9 DEF head, body, net, b, e, R

(* What becomes of a buffer whose flush found room that the write did not. *)
LEMMA DrainedRoutine ==
    ASSUME Base, NEW f, NEW c, NEW n, Begun(f, c, n), HeaderBuffer(f).open,
           NEW k, k = Least(Cap, PendingLen(HeaderBuffer(f))),
           NEW b, b = sendBufferFlush(HeaderBuffer(f), [k |-> k, err |-> FALSE])
    PROVE  /\ ~broken[c] /\ k \in Nat /\ k <= Cap /\ HeaderNet(f).k + k <= HeaderLen
           /\ Sound(RoutineNew("DIR", b, Body(c, n)),
                    First(HeaderBytes(c), HeaderNet(f).k + k), Whole(c, n), broken[c])
           /\ RoutineNew("DIR", b, Body(c, n)).state = "FLUSH"
PROOF
  <1> DEFINE head == HeaderBytes(c)
             body == Body(c, n)
             net == HeaderNet(f)
             sb == HeaderBuffer(f)
             d == First(head, net.k)
             R == Whole(c, n)
             out == [k |-> k, err |-> FALSE]
             e == d \o FlushSent(sb, out)
  <1>1. /\ head \in Seq(Byte) /\ Len(head) = HeaderLen /\ HeaderLen \in Nat
        /\ body \in Seq(Byte) /\ R \in Seq(Byte)
        /\ net \in [k : 0..HeaderLen, err : BOOLEAN] /\ net.err = broken[c]
        /\ c \in Conn /\ Cap \in Nat /\ broken[c] \in BOOLEAN
    BY BegunShape, HeaderTaken, Sizes
  <1>2. R = head \o body
    BY BegunShape
  <1>3. sb = sendBufferWriteData(sendBufferNew, head, net)
    BY DEF HeaderBuffer, Begun
  <1>4. Sound(RoutineNew("DIR", sb, body), d, R, broken[c])
    BY BegunRoutine DEF RoutineKind
  <1>5. RoutineNew("DIR", sb, body).sb = sb /\ RoutineNew("DIR", sb, body).left = body
    BY DEF RoutineNew
  <1> HIDE DEF sb
  <1>6. Track(sb, d, body, R, broken[c])
    BY <1>4, <1>5 DEF Sound
  <1>7. ~net.err /\ sb = [sendBufferNew EXCEPT !.open = TRUE,
                                              !.stream = SubSeq(head, net.k + 1, Len(head))]
    <2>1. sb.open
      BY DEF sb
    <2>2. sendBufferNew.open = FALSE
      BY DEF sendBufferNew
    <2>3. [sendBufferNew EXCEPT !.fail = TRUE].open = FALSE
      BY DEF sendBufferNew
    <2> QED BY <2>1, <2>2, <2>3, <1>3 DEF sendBufferWriteData
  <1>8. sb.stream = SubSeq(head, net.k + 1, Len(head)) /\ sb.idx = 0 /\ sb.open
    BY <1>7 DEF sendBufferNew
  <1>9. ~broken[c]
    BY <1>1, <1>7
  <1>10. PendingLen(sb) = HeaderLen - net.k /\ net.k \in 0..HeaderLen
    <2>1. net.k \in 0..Len(head)
      BY <1>1
    <2>2. Len(SubSeq(head, net.k + 1, Len(head))) = Len(head) - net.k
      BY <2>1, <1>1, SplitJoin
    <2>3. PendingLen(sb) = (HeaderLen - net.k) - 0
      BY <2>2, <1>1, <1>8 DEF PendingLen
    <2> QED BY <2>1, <2>3, <1>1
  <1>11. k \in 0..PendingLen(sb) /\ k <= Cap /\ k \in Nat /\ net.k + k <= HeaderLen
    <2>1. k = Least(Cap, PendingLen(sb))
      BY DEF sb
    <2> QED BY <2>1, <1>1, <1>10 DEF Least
  <1>12. out \in FlushOutcome(sb) /\ out.err = FALSE /\ out.k = k
    BY <1>11 DEF FlushOutcome
  <1> HIDE DEF head, body, net, d, R, out
  <1>13. b = sendBufferFlush(sb, out)
    BY DEF sb, out
  <1>14. Track(b, e, body, R, broken[c])
    <2>1. broken[c] \in BOOLEAN
      BY <1>1
    <2> HIDE DEF e
    <2>2. e = d \o FlushSent(sb, out)
      BY DEF e
    <2>3. Track(b, e, body, R, broken[c] \/ out.err)
      BY <2>1, <2>2, <1>1, <1>6, <1>9, <1>12, <1>13, FlushTrack
    <2>4. (broken[c] \/ out.err) = broken[c]
      BY <2>1, <1>12
    <2> QED BY <2>3, <2>4
  <1>15. e = First(head, net.k + k)
    <2>1. FlushSent(sb, out) \in Seq(Byte) /\ Len(FlushSent(sb, out)) = k
      <3>1. sb \in SendBufferType /\ WellFormed(sb)
        BY <1>6 DEF Track
      <3> QED BY <3>1, <1>8, <1>11, <1>12, FlushSentLen
    <2>2. d \in Seq(Byte) /\ Len(d) = net.k
      BY <1>1, <1>10, FirstBegins DEF d
    <2>3. e \in Seq(Byte) /\ Len(e) = net.k + k
      <3> DEFINE x == FlushSent(sb, out)
      <3>1. x \in Seq(Byte) /\ Len(x) = k
        BY <2>1
      <3> HIDE DEF x
      <3>2. d \o x \in Seq(Byte) /\ Len(d \o x) = Len(d) + Len(x)
        BY <3>1, <2>2, JoinLen
      <3>3. e = d \o x
        BY DEF x
      <3> QED BY <3>1, <3>2, <3>3, <2>2
    <2>4. Begins(e, R)
      BY <1>14 DEF Track
    <2>5. net.k + k \in 0..Len(head)
      BY <1>1, <1>10, <1>11
    <2>6. /\ First(head, net.k + k) \in Seq(Byte) /\ Len(First(head, net.k + k)) = net.k + k
          /\ Begins(First(head, net.k + k), head \o body)
      BY <2>5, <1>1, FirstBegins
    <2> HIDE DEF e
    <2> QED BY <2>3, <2>4, <2>6, <1>1, <1>2, SameBeginning
  <1> DEFINE s == RoutineNew("DIR", b, body)
  <1>16. s = [type |-> "DIR", state |-> "FLUSH", sb |-> b, left |-> body]
    BY DEF RoutineNew
  <1>17. b \in SendBufferType
    BY <1>14 DEF Track
  <1> HIDE DEF s
  <1>18. /\ s \in RoutineType /\ s.type = "DIR" /\ s.state = "FLUSH" /\ s.sb = b /\ s.left = body
    BY <1>1, <1>16, <1>17, RoutineBuild DEF RoutineKind, RoutineState
  <1>19. Shape(s)
    BY <1>18 DEF Shape
  <1>20. Sound(s, First(head, net.k + k), R, broken[c])
    BY <1>14, <1>15, <1>18, <1>19 DEF Sound
  <1> QED BY <1>9, <1>11, <1>18, <1>20 DEF s, head, body, net, R

-----------------------------------------------------------------------------
(* The handlers, by what they do to the connection and the array.          *)

(* A response A that answers the request which waited on connection c.     *)
Response(f, c, w, A, t) ==
    /\ Handled(f, c, w, A, t) /\ inbox[c] # <<>> /\ Ready(f, c)
    /\ A # <<>> /\ Len(A) <= Len(answers[c]) + Longest

(* The three ways a handler ends: with a new routine s for the response,   *)
(* with the response sent, and with the connection given up.               *)
Added(f, c, s, w, A, t) ==
    /\ Response(f, c, w, A, t)
    /\ Sound(s, w, A, broken[c]) /\ s.state = "FLUSH"
    /\ routines' = Append(routines, [r |-> s, fd |-> f, conn |-> c])
    /\ UNCHANGED <<readSet, deferred, table>>

Stayed(f, c, w, A, t) ==
    /\ Handled(f, c, w, A, t) /\ inbox[c] # <<>> /\ Ready(f, c)
    /\ Len(A) <= Len(answers[c]) + Longest
    /\ UNCHANGED <<routines, readSet, deferred, table>>

Closed(f, c, w, A, t) ==
    /\ Handled(f, c, w, A, t) /\ CloseSocket(f)
    /\ \/ /\ inbox[c] # <<>> /\ Ready(f, c) /\ Len(A) <= Len(answers[c]) + Longest
       \/ w = wire[c] /\ A = answers[c] /\ t = taken[c] /\ (inbox[c] # <<>> => Ready(f, c))

Ended(f, c) ==
    \E w, A, t : (\E s : Added(f, c, s, w, A, t)) \/ Stayed(f, c, w, A, t) \/ Closed(f, c, w, A, t)

(* handleConnection returns 0, and nobody waited on the socket.            *)
LEMMA StaysOpen ==
    ASSUME NEW f, NEW c, Ready(f, c), StayOpen(f)
    PROVE  UNCHANGED <<readSet, deferred, table>>
PROOF
  <1>1. f \notin deferred
    BY DEF Ready
  <1>2. deferred \ {f} = deferred
    BY <1>1
  <1> QED BY <1>2 DEF StayOpen

LEMMA BegunResponse ==
    ASSUME Base, NEW f, NEW c, NEW n, Begun(f, c, n), NEW w, NEW t,
           Handled(f, c, w, answers[c] \o Whole(c, n), t)
    PROVE  Response(f, c, w, answers[c] \o Whole(c, n), t)
PROOF
  <1>1. /\ answers[c] \in Seq(Byte) /\ Whole(c, n) \in Seq(Byte)
        /\ Len(Whole(c, n)) = HeaderLen + n /\ Len(answers[c]) \in Nat
    BY BegunShape
  <1>2. inbox[c] # <<>> /\ Ready(f, c) /\ n \in Nat /\ n <= FileLen + DirLen
    BY DEF Begun
  <1> DEFINE A == answers[c] \o Whole(c, n)
  <1>3. Len(A) = Len(answers[c]) + (HeaderLen + n)
    BY <1>1, JoinLen
  <1>4. /\ HeaderLen \in Nat /\ HeaderLen > 0 /\ FileLen \in Nat /\ DirLen \in Nat
        /\ Longest = HeaderLen + FileLen + DirLen
    BY Sizes
  <1> HIDE DEF A
  <1>5. Len(A) <= Len(answers[c]) + Longest /\ Len(A) # 0
    <2> DEFINE m == Len(answers[c])
    <2>1. n \in Nat /\ n <= FileLen + DirLen /\ m \in Nat /\ Len(A) = m + (HeaderLen + n)
      BY <1>1, <1>2, <1>3
    <2> HIDE DEF m
    <2>2. Len(A) <= m + Longest /\ Len(A) # 0
      BY <2>1, <1>4
    <2> QED BY <2>2 DEF m
  <1>6. A # <<>>
    BY <1>5, EmptySeq
  <1> QED BY <1>2, <1>5, <1>6 DEF Response, A

LEMMA HeaderSent ==
    ASSUME Base, NEW f, NEW c, NEW n, Begun(f, c, n), SendHeader(f), UNCHANGED taken
    PROVE  Response(f, c, answers[c] \o First(HeaderBytes(c), HeaderNet(f).k),
                    answers[c] \o Whole(c, n), taken[c])
PROOF
  <1> DEFINE k == HeaderNet(f).k
             t == taken[c] + 0
  <1>1. taken[c] = Len(answers[c]) /\ Len(answers[c]) \in Nat /\ c \in Conn /\ Typed
    BY BegunShape DEF Base
  <1>2. k \in 0..HeaderLen /\ k <= Cap /\ HeaderLen \in Nat /\ Cap \in Nat
    BY HeaderTaken, Sizes
  <1>3. t = taken[c] /\ taken' = [taken EXCEPT ![c] = t]
    BY <1>1 DEF Typed
  <1>4. wire' = Sent(f, First(HeaderBytes(c), k))
    BY DEF SendHeader, Begun
  <1> HIDE DEF k
  <1>5. 0 \in 0..k /\ k - 0 <= Cap
    BY <1>2
  <1>6. Handled(f, c, answers[c] \o First(HeaderBytes(c), k), answers[c] \o Whole(c, n), t)
    BY <1>2, <1>3, <1>4, <1>5, BegunHandled
  <1>7. Handled(f, c, answers[c] \o First(HeaderBytes(c), k), answers[c] \o Whole(c, n), taken[c])
    BY <1>3, <1>6
  <1> QED BY <1>7, BegunResponse DEF k

(* The header is sent, and a routine is left with the body.                *)
LEMMA AnswerByRoutine ==
    ASSUME Base, NEW f, NEW c, NEW n, Begun(f, c, n),
           SendHeader(f), UNCHANGED taken, StayOpen(f),
           NEW kind \in RoutineKind, kind = "ROUTINE" => n = 0,
           RoutineArrayAdd(f, kind, HeaderBuffer(f), n)
    PROVE  Ended(f, c)
PROOF
  <1> DEFINE s == RoutineNew(kind, HeaderBuffer(f), Body(c, n))
             x == First(HeaderBytes(c), HeaderNet(f).k)
             w == answers[c] \o x
             A == answers[c] \o Whole(c, n)
  <1>1. Response(f, c, w, A, taken[c])
    BY HeaderSent
  <1>2. Sound(s, x, Whole(c, n), broken[c]) /\ s.state = "FLUSH"
    BY BegunRoutine
  <1>3. answers[c] \in Seq(Byte) /\ Whole(c, n) \in Seq(Byte) /\ c = table[f] /\ Ready(f, c)
    BY BegunShape DEF Begun
  <1>4. routines' = Append(routines, [r |-> s, fd |-> f, conn |-> c])
    BY <1>3 DEF RoutineArrayAdd, Body
  <1>5. UNCHANGED <<readSet, deferred, table>>
    BY <1>3, StaysOpen
  <1> HIDE DEF s, x
  <1>6. Sound(s, w, A, broken[c])
    BY <1>2, <1>3, SoundAfter
  <1> HIDE DEF w, A
  <1>7. Added(f, c, s, w, A, taken[c])
    BY <1>1, <1>2, <1>4, <1>5, <1>6 DEF Added
  <1> QED BY <1>7 DEF Ended

(* The header is sent, and nothing else is.                                *)
LEMMA AnswerHeader ==
    ASSUME Base, NEW f, NEW c, Begun(f, c, 0),
           SendHeader(f), UNCHANGED <<taken, routines>>, StayOpen(f)
    PROVE  Ended(f, c)
PROOF
  <1> DEFINE w == answers[c] \o First(HeaderBytes(c), HeaderNet(f).k)
             A == answers[c] \o Whole(c, 0)
  <1>1. Response(f, c, w, A, taken[c])
    BY HeaderSent
  <1>2. UNCHANGED <<readSet, deferred, table>>
    BY StaysOpen DEF Begun
  <1> HIDE DEF w, A
  <1>3. Stayed(f, c, w, A, taken[c])
    BY <1>1, <1>2 DEF Response, Stayed
  <1> QED BY <1>3 DEF Ended

LEMMA AnswerAndClose ==
    ASSUME Base, NEW f, NEW c, Begun(f, c, 0),
           SendHeader(f), UNCHANGED taken, CloseSocket(f)
    PROVE  Ended(f, c)
PROOF
  <1> DEFINE w == answers[c] \o First(HeaderBytes(c), HeaderNet(f).k)
             A == answers[c] \o Whole(c, 0)
  <1>1. Response(f, c, w, A, taken[c])
    BY HeaderSent
  <1> HIDE DEF w, A
  <1>2. Closed(f, c, w, A, taken[c])
    BY <1>1 DEF Response, Closed
  <1> QED BY <1>2 DEF Ended

(* The client made room between the write and the flush.                   *)
LEMMA DrainSent ==
    ASSUME Base, NEW f, NEW c, NEW n, Begun(f, c, n), FlushedAfterDrain(f),
           NEW k, k = Least(Cap, PendingLen(HeaderBuffer(f)))
    PROVE  /\ Response(f, c, answers[c] \o First(HeaderBytes(c), HeaderNet(f).k + k),
                       answers[c] \o Whole(c, n), taken[c] + HeaderNet(f).k)
           /\ HeaderBuffer(f).open
           /\ UNCHANGED <<readSet, deferred, table>>
PROOF
  <1> DEFINE j == HeaderNet(f).k
  <1>1. /\ HeaderBuffer(f).open /\ StayOpen(f) /\ Ready(f, c)
        /\ wire' = Sent(f, First(HeaderBytes(c), j + k))
        /\ taken' = [taken EXCEPT ![c] = Len(wire[c]) + j]
    BY DEF FlushedAfterDrain, Begun
  <1>2. k \in Nat /\ k <= Cap /\ j + k <= HeaderLen
    BY <1>1, DrainedRoutine
  <1>3. j \in 0..HeaderLen /\ HeaderLen \in Nat /\ Cap \in Nat
    BY HeaderTaken, Sizes
  <1>4. Len(wire[c]) = taken[c]
    BY <1>1 DEF Ready
  <1> HIDE DEF j
  <1> DEFINE m == j + k
  <1>5. m \in 0..HeaderLen /\ j \in 0..m /\ m - j <= Cap
    BY <1>2, <1>3
  <1>6. wire' = Sent(f, First(HeaderBytes(c), m)) /\ taken' = [taken EXCEPT ![c] = taken[c] + j]
    BY <1>1, <1>4
  <1> HIDE DEF m
  <1>7. Handled(f, c, answers[c] \o First(HeaderBytes(c), m), answers[c] \o Whole(c, n),
                taken[c] + j)
    BY <1>5, <1>6, BegunHandled
  <1>8. Response(f, c, answers[c] \o First(HeaderBytes(c), m), answers[c] \o Whole(c, n),
                 taken[c] + j)
    BY <1>7, BegunResponse
  <1>9. UNCHANGED <<readSet, deferred, table>>
    BY <1>1, StaysOpen
  <1> QED BY <1>1, <1>8, <1>9 DEF j, m

LEMMA DrainHeader ==
    ASSUME Base, NEW f, NEW c, Begun(f, c, 0), FlushedAfterDrain(f), UNCHANGED routines
    PROVE  Ended(f, c)
PROOF
  <1> DEFINE k == Least(Cap, PendingLen(HeaderBuffer(f)))
             w == answers[c] \o First(HeaderBytes(c), HeaderNet(f).k + k)
             A == answers[c] \o Whole(c, 0)
             t == taken[c] + HeaderNet(f).k
  <1>1. Response(f, c, w, A, t) /\ UNCHANGED <<readSet, deferred, table>>
    BY DrainSent
  <1> HIDE DEF w, A, t
  <1>2. Stayed(f, c, w, A, t)
    BY <1>1 DEF Response, Stayed
  <1> QED BY <1>2 DEF Ended

LEMMA DrainByRoutine ==
    ASSUME Base, NEW f, NEW c, NEW n, Begun(f, c, n), FlushedAfterDrain(f),
           NEW k, k = Least(Cap, PendingLen(HeaderBuffer(f))),
           RoutineArrayAdd(f, "DIR", sendBufferFlush(HeaderBuffer(f), [k |-> k, err |-> FALSE]), n)
    PROVE  Ended(f, c)
PROOF
  <1> DEFINE b == sendBufferFlush(HeaderBuffer(f), [k |-> k, err |-> FALSE])
             s == RoutineNew("DIR", b, Body(c, n))
             x == First(HeaderBytes(c), HeaderNet(f).k + k)
             w == answers[c] \o x
             A == answers[c] \o Whole(c, n)
             t == taken[c] + HeaderNet(f).k
  <1>1. /\ Response(f, c, w, A, t)
        /\ HeaderBuffer(f).open /\ UNCHANGED <<readSet, deferred, table>>
    BY DrainSent
  <1>2. Sound(s, x, Whole(c, n), broken[c]) /\ s.state = "FLUSH"
    BY <1>1, DrainedRoutine
  <1>3. answers[c] \in Seq(Byte) /\ Whole(c, n) \in Seq(Byte) /\ c = table[f]
    BY BegunShape
  <1>4. routines' = Append(routines, [r |-> s, fd |-> f, conn |-> c])
    BY <1>3 DEF RoutineArrayAdd, Body
  <1> HIDE DEF s, x
  <1>5. Sound(s, w, A, broken[c])
    BY <1>2, <1>3, SoundAfter
  <1> HIDE DEF w, A, t
  <1>6. Added(f, c, s, w, A, t)
    BY <1>1, <1>2, <1>4, <1>5 DEF Added
  <1> QED BY <1>6 DEF Ended

(* Nothing is answered.                                                    *)
LEMMA HandledSame ==
    ASSUME Base, NEW f \in Fd, handleConnection(f), NEW c, c = table[f],
           asked[c] = 0 => answers[c] = <<>>, UNCHANGED <<wire, answers, taken>>
    PROVE  Handled(f, c, wire[c], answers[c], taken[c])
PROOF
  <1>0. Typed /\ Window /\ Streams
    BY DEF Base
  <1>1. /\ c \in Conn /\ f \in readSet /\ f # Listen
        /\ pc = "scan" /\ pc' = pc /\ idx' = idx
        /\ readyRead' = readyRead \ {f} /\ readyWrite' = readyWrite \ {f}
        /\ inbox' = [inbox EXCEPT ![c] = <<>>]
        /\ UNCHANGED <<backlog, eof, broken, asked>>
    BY HandlerShape
  <1>2. /\ wire' = [wire EXCEPT ![c] = wire[c]] /\ wire[c] \in Seq(Byte)
        /\ answers' = [answers EXCEPT ![c] = answers[c]] /\ answers[c] \in Seq(Byte)
        /\ taken' = [taken EXCEPT ![c] = taken[c]] /\ taken[c] \in Nat
    BY <1>0, <1>1 DEF Typed
  <1>3. /\ taken[c] <= Len(wire[c]) /\ Len(wire[c]) - taken[c] <= Cap
        /\ Begins(wire[c], answers[c])
    BY <1>0, <1>1 DEF Window, Streams
  <1>4. answers[c] = <<>> => wire[c] = <<>>
    <2>1. answers[c] = <<>> => Len(wire[c]) <= 0
      BY <1>3, EmptySeq DEF Begins
    <2>2. Len(wire[c]) \in Nat /\ (wire[c] # <<>> => Len(wire[c]) \in Nat \ {0})
      BY <1>2, LenProperties, EmptySeq
    <2> QED BY <2>1, <2>2
  <1> QED BY <1>1, <1>2, <1>3, <1>4 DEF Handled

(* Whatever is requested, the handler ends in one of the three ways.       *)
LEMMA HandlerEnds ==
    ASSUME Base, NEW f \in Fd, handleConnection(f),
           inbox[table[f]] # <<>> => Ready(f, table[f]),
           asked[table[f]] = 0 => answers[table[f]] = <<>>
    PROVE  Ended(f, table[f])
PROOF
  <1> DEFINE c == table[f]
             request == IF inbox[c] = <<>> THEN "none" ELSE Head(inbox[c])
  <1>0. /\ HeaderLen \in Nat /\ FileLen \in Nat /\ DirLen \in Nat
        /\ HeaderLen + 0 = HeaderLen /\ 0 <= FileLen + DirLen
        /\ FileLen <= FileLen + DirLen /\ DirLen <= FileLen + DirLen
    <2>1. HeaderLen \in Nat /\ FileLen \in Nat /\ DirLen \in Nat
      BY ServerAssumption
    <2> QED BY <2>1
  <1>1. c \in Conn /\ (inbox[c] # <<>> => Ready(f, c))
    BY HandlerShape
  <1>2. CASE request = "file" \/ request = "fileHead" \/ request = "dir"
    <2>0. inbox[c] # <<>>
      BY <1>2
    <2>1. CASE request = "file"
      <3>1. HandleFile(f)
        BY <2>1 DEF handleConnection
      <3>2. Begun(f, c, FileLen)
        BY <3>1, <2>0, <1>0, <1>1 DEF HandleFile, Begun
      <3>3. /\ SendHeader(f) /\ UNCHANGED taken /\ StayOpen(f)
            /\ RoutineArrayAdd(f, "FILE", HeaderBuffer(f), FileLen)
        BY <3>1 DEF HandleFile
      <3> QED BY <3>2, <3>3, AnswerByRoutine DEF RoutineKind
    <2>2. CASE request = "fileHead"
      <3>1. HandleFileHead(f)
        BY <2>2 DEF handleConnection
      <3>2. Begun(f, c, 0)
        BY <3>1, <2>0, <1>0, <1>1 DEF HandleFileHead, Begun
      <3>3. SendHeader(f) /\ UNCHANGED <<taken, routines>> /\ StayOpen(f)
        BY <3>1 DEF HandleFileHead
      <3> QED BY <3>2, <3>3, AnswerHeader
    <2>3. CASE request = "dir"
      <3>1. HandleDir(f)
        BY <2>3 DEF handleConnection
      <3>2. CASE HeaderNet(f).err
        <4>1. Begun(f, c, 0)
          BY <3>1, <3>2, <2>0, <1>0, <1>1 DEF HandleDir, Begun
        <4>2. SendHeader(f) /\ UNCHANGED taken /\ CloseSocket(f)
          BY <3>1, <3>2 DEF HandleDir
        <4> QED BY <4>1, <4>2, AnswerAndClose
      <3>3. CASE ~HeaderNet(f).err
        <4>1. Begun(f, c, DirLen)
          BY <3>1, <3>3, <2>0, <1>0, <1>1 DEF HandleDir, Begun
        <4>2. /\ SendHeader(f) /\ UNCHANGED taken /\ StayOpen(f)
              /\ RoutineArrayAdd(f, "DIR", HeaderBuffer(f), DirLen)
          BY <3>1, <3>3 DEF HandleDir
        <4> QED BY <4>1, <4>2, AnswerByRoutine DEF RoutineKind
      <3> QED BY <3>2, <3>3
    <2> QED BY <2>1, <2>2, <2>3, <1>2
  <1>3. ASSUME inbox[c] # <<>>, HandleAndClose(f) PROVE Ended(f, c)
    <2>1. Begun(f, c, 0)
      BY <1>0, <1>1, <1>3 DEF HandleAndClose, Begun
    <2>2. SendHeader(f) /\ UNCHANGED taken /\ CloseSocket(f)
      BY <1>3 DEF HandleAndClose
    <2> QED BY <2>1, <2>2, AnswerAndClose
  <1>4. CASE request = "dirHead"
    <2>0. inbox[c] # <<>>
      BY <1>4
    <2> DEFINE k == Least(Cap, PendingLen(HeaderBuffer(f)))
    <2>1. HandleDirHead(f)
      BY <1>4 DEF handleConnection
    <2>2. CASE ~HandleAndClose(f)
      <3>1. /\ FlushedAfterDrain(f) /\ Answer(c, HeaderLen + DirLen)
            /\ RoutineArrayAdd(f, "DIR",
                   sendBufferFlush(HeaderBuffer(f), [k |-> k, err |-> FALSE]), DirLen)
        BY <2>1, <2>2 DEF HandleDirHead
      <3>2. Begun(f, c, DirLen)
        BY <3>1, <2>0, <1>0, <1>1 DEF Begun
      <3> QED BY <3>1, <3>2, DrainByRoutine
    <2> QED BY <2>0, <2>2, <1>3
  <1>5. CASE request = "notModified"
    <2>1. HandleNotModified(f) /\ inbox[c] # <<>>
      BY <1>5 DEF handleConnection
    <2>2. Begun(f, c, 0)
      BY <2>1, <1>0, <1>1 DEF HandleNotModified, Begun
    <2>3. /\ SendHeader(f) /\ UNCHANGED taken /\ StayOpen(f)
          /\ RoutineArrayAdd(f, "ROUTINE", HeaderBuffer(f), 0)
      BY <2>1 DEF HandleNotModified
    <2> QED BY <2>2, <2>3, AnswerByRoutine DEF RoutineKind
  <1>6. CASE request = "missing"
    <2>1. HandleMissing(f) /\ inbox[c] # <<>>
      BY <1>6 DEF handleConnection
    <2>2. CASE ~HandleAndClose(f)
      <3>1. FlushedAfterDrain(f) /\ Answer(c, HeaderLen) /\ UNCHANGED routines
        BY <2>1, <2>2 DEF HandleMissing
      <3>2. Begun(f, c, 0)
        BY <3>1, <2>1, <1>0, <1>1 DEF Begun
      <3> QED BY <3>1, <3>2, DrainHeader
    <2> QED BY <2>1, <2>2, <1>3
  <1>7. CASE request = "tooLarge"
    <2>1. HandleAndClose(f) /\ inbox[c] # <<>>
      BY <1>7 DEF handleConnection
    <2> QED BY <2>1, <1>3
  <1>8. CASE request = "special" /\ ~HandleNothing(f)
    <2>1. HandleSpecial(f) /\ inbox[c] # <<>>
      BY <1>8 DEF handleConnection
    <2>2. UNCHANGED <<routines, wire, answers, taken>> /\ StayOpen(f)
      BY <1>8, <2>1 DEF HandleSpecial
    <2>3. UNCHANGED <<readSet, deferred, table>>
      BY <2>1, <2>2, <1>1, StaysOpen
    <2>4. Handled(f, c, wire[c], answers[c], taken[c])
      BY <2>2, HandledSame
    <2>5. Len(answers[c]) <= Len(answers[c]) + Longest
      <3>1. Len(answers[c]) \in Nat /\ Longest \in Nat
        BY <1>1, ConnFields, Sizes DEF Base
      <3> QED BY <3>1
    <2>6. Stayed(f, c, wire[c], answers[c], taken[c])
      BY <2>1, <2>2, <2>3, <2>4, <2>5, <1>1 DEF Stayed
    <2> QED BY <2>6 DEF Ended
  <1>9. CASE HandleNothing(f)
    <2>2. UNCHANGED <<wire, answers, taken>> /\ CloseSocket(f)
      BY <1>9 DEF HandleNothing
    <2>3. Handled(f, c, wire[c], answers[c], taken[c])
      BY <2>2, HandledSame
    <2>4. Closed(f, c, wire[c], answers[c], taken[c])
      BY <2>2, <2>3, <1>1 DEF Closed
    <2> QED BY <2>4 DEF Ended
  <1>11. CASE request \in {"none", "malformed", "unreadable"}
    <2>1. HandleNothing(f)
      BY <1>11 DEF handleConnection
    <2> QED BY <1>9, <2>1
  <1>10. request \in RequestKind \cup {"none"}
    <2>1. CASE inbox[c] = <<>>
      BY <2>1
    <2>2. CASE inbox[c] # <<>>
      <3>1. inbox[c] \in Seq(Request)
        BY <1>1 DEF Base, Typed
      <3>2. Head(inbox[c]) \in Request
        BY <3>1, <2>2, HeadTailProperties
      <3> QED BY <3>2, <2>2, ServerAssumption
    <2> QED BY <2>1, <2>2
  <1> QED BY <1>2, <1>4, <1>5, <1>6, <1>7, <1>8, <1>9, <1>10, <1>11 DEF RequestKind

(* With one request on a connection nothing was answered before it.        *)
LEMMA OnlyRequest ==
    ASSUME MaxRequests = 1, SInv, NEW f \in Fd, NEW c \in Conn, c = table[f], inbox[c] # <<>>
    PROVE  Ready(f, c) /\ \A i \in Index : routines[i].conn # c
PROOF
  <1>0. Typed /\ Window /\ OneRequest /\ Served /\ DeferredOwned
    BY DEF SInv, Base
  <1>1. /\ asked[c] # 0 /\ answers[c] = <<>> /\ wire[c] = <<>>
        /\ \A i \in Index : routines[i].conn # c
    BY <1>0 DEF OneRequest
  <1>2. f \notin deferred
    <2> SUFFICES ASSUME f \in deferred PROVE FALSE
      OBVIOUS
    <2>1. PICK i \in Index : routines[i].fd = f
      BY <1>0 DEF DeferredOwned
    <2>2. routines[i].conn = c
      BY <2>1, <1>0 DEF Served, Fit
    <2> QED BY <2>2, <1>1
  <1>3. Len(wire[c]) = 0 /\ Len(answers[c]) = 0
    BY <1>1, EmptySeq
  <1>4. taken[c] = Len(answers[c])
    <2>1. taken[c] \in Nat /\ taken[c] <= Len(wire[c])
      BY <1>0 DEF Typed, Window
    <2> QED BY <2>1, <1>3
  <1>5. Len(answers[c]) + Longest <= Total
    <2>1. Longest \in Nat /\ Total = 1 * Longest
      BY Sizes DEF Total
    <2> QED BY <2>1, <1>3
  <1> QED BY <1>1, <1>2, <1>4, <1>5 DEF Ready

LEMMA handleConnectionStep ==
    ASSUME MaxRequests = 1, SInv, NEW f \in Fd, handleConnection(f) PROVE SInv' /\ Kept
PROOF
  <1> DEFINE c == table[f]
  <1>1. c \in Conn /\ (inbox[c] # <<>> \/ eof[c] \/ broken[c])
    BY HandlerShape DEF SInv
  <1>2. inbox[c] # <<>> => Ready(f, c) /\ \A i \in Index : routines[i].conn # c
    BY <1>1, OnlyRequest
  <1>3. asked[c] = 0 => answers[c] = <<>>
    BY <1>1 DEF SInv, OneRequest
  <1>4. Ended(f, c)
    BY <1>2, <1>3, HandlerEnds DEF SInv
  <1> HIDE DEF c
  <1>5. PICK w, A, t : \/ \E s : Added(f, c, s, w, A, t)
                      \/ Stayed(f, c, w, A, t)
                      \/ Closed(f, c, w, A, t)
    BY <1>4 DEF Ended
  <1>6. ASSUME NEW s, Added(f, c, s, w, A, t) PROVE SInv' /\ Kept
    BY <1>2, <1>6, HandledAdd DEF Added, Response
  <1>7. CASE Stayed(f, c, w, A, t)
    BY <1>2, <1>7, HandledStay DEF Stayed
  <1>8. CASE Closed(f, c, w, A, t)
    BY <1>1, <1>2, <1>8, HandledClose DEF Closed
  <1> QED BY <1>5, <1>6, <1>7, <1>8

-----------------------------------------------------------------------------
(* The invariant.                                                          *)

LEMMA InitStep ==
    ASSUME Init PROVE SInv
PROOF
  <1>0. /\ routines = <<>> /\ readSet = {} /\ deferred = {}
        /\ pc = "tick" /\ idx = 1 /\ readyRead = {} /\ readyWrite = {}
        /\ table = [f \in Fd |-> None] /\ backlog = <<>>
        /\ inbox = [c \in Conn |-> <<>>] /\ wire = [c \in Conn |-> <<>>]
        /\ taken = [c \in Conn |-> 0]
        /\ eof = [c \in Conn |-> FALSE] /\ broken = [c \in Conn |-> FALSE]
        /\ asked = [c \in Conn |-> 0] /\ answers = [c \in Conn |-> <<>>]
    BY DEF Init
  <1>1. Len(<<>>) = 0 /\ Index = {}
    <2>1. Len(<<>>) = 0
      BY EmptySeq
    <2> QED BY <2>1, <1>0 DEF Index
  <1>2. MaxRequests \in Nat /\ Cap \in Nat
    BY ServerAssumption
  <1>3. Typed
    <2>1. routines \in Seq(Entry) /\ backlog \in Seq(Conn)
      BY <1>0, EmptySeq
    <2>2. /\ inbox \in [Conn -> Seq(Request)] /\ wire \in [Conn -> Seq(Byte)]
          /\ answers \in [Conn -> Seq(Byte)]
      BY <1>0, EmptySeq
    <2>3. asked \in [Conn -> 0..MaxRequests] /\ taken \in [Conn -> Nat]
      BY <1>0, <1>2
    <2>4. table \in [Fd -> Conn \cup {None}]
      BY <1>0
    <2> QED BY <2>1, <2>2, <2>3, <2>4, <1>0 DEF Typed
  <1>4. Window
    BY <1>0, <1>1, <1>2 DEF Window
  <1>5. Watched /\ Reported /\ DeferredOwned
    BY <1>0 DEF Watched, Open, Reported, DeferredOwned
  <1>6. Distinct
    BY <1>0, <1>1 DEF Distinct, Open
  <1>7. OneRequest /\ Served /\ OneEach
    BY <1>0, <1>1 DEF OneRequest, Served, OneEach
  <1>8. Streams
    BY <1>0, <1>1 DEF Streams, Begins
  <1> QED BY <1>3, <1>4, <1>5, <1>6, <1>7, <1>8 DEF SInv, Base

(* As long as the array does not change, nobody is abandoned.              *)
LEMMA KeptSame ==
    ASSUME routines' = routines PROVE Kept
PROOF
  <1>1. \A i \in Index : i \in Index' /\ routines'[i].conn = routines[i].conn
    BY DEF Index
  <1> QED BY <1>1, KeptStays

LEMMA ServerStepKeeps ==
    ASSUME MaxRequests = 1, SInv, ServerStep PROVE SInv' /\ Kept
PROOF
  <1>1. CASE RoutineTick
    BY <1>1, RoutineTickStep
  <1>2. CASE Select
    <2>1. routines' = routines
      BY <1>2 DEF Select
    <2> QED BY <2>1, <1>2, SelectStep, KeptSame
  <1>3. CASE ScanDone
    <2>1. routines' = routines
      BY <1>3 DEF ScanDone
    <2> QED BY <2>1, <1>3, SelectStep, KeptSame
  <1>4. CASE Accept
    <2>1. routines' = routines
      BY <1>4 DEF Accept
    <2> QED BY <2>1, <1>4, AcceptStep, KeptSame
  <1>5. ASSUME NEW f \in Fd, Undefer(f) PROVE SInv' /\ Kept
    <2>1. routines' = routines
      BY <1>5 DEF Undefer
    <2> QED BY <2>1, <1>5, UndeferStep, KeptSame
  <1>6. ASSUME NEW f \in Fd, handleConnection(f) PROVE SInv' /\ Kept
    BY <1>6, handleConnectionStep
  <1> QED BY <1>1, <1>2, <1>3, <1>4, <1>5, <1>6 DEF ServerStep

LEMMA ClientStepKeeps ==
    ASSUME MaxRequests = 1, SInv, ClientStep PROVE SInv' /\ Kept
PROOF
  <1> SUFFICES ASSUME NEW c \in Conn,
                      Connect(c) \/ SendRequest(c) \/ Read(c) \/ Shutdown(c) \/ Reset(c)
               PROVE  SInv' /\ Kept
    BY DEF ClientStep
  <1>1. SInv'
    BY ConnectStep, SendRequestStep, ReadStep, ShutdownStep, ResetStep
  <1>2. routines' = routines
    BY DEF Connect, SendRequest, Read, Shutdown, Reset, serverVars
  <1> QED BY <1>1, <1>2, KeptSame

LEMMA StutterBase ==
    ASSUME Base, UNCHANGED vars
    PROVE  /\ Base'
           /\ UNCHANGED <<routines, readSet, deferred, pc, idx, readyRead, readyWrite, table>>
           /\ UNCHANGED <<backlog, inbox, wire, taken, eof, broken, asked, answers>>
PROOF
  <1>1. /\ UNCHANGED <<routines, readSet, deferred, pc, idx, readyRead, readyWrite, table>>
        /\ UNCHANGED <<backlog, inbox, wire, taken, eof, broken, asked, answers>>
    BY DEF vars, serverVars, netVars
  <1>2. Typed' /\ Window' /\ Watched' /\ Distinct' /\ Reported' /\ Streams'
    BY <1>1 DEF Base, Typed, Window, Watched, Distinct, Open, Reported, Readable, Writable, Room,
                Streams
  <1> QED BY <1>1, <1>2 DEF Base

LEMMA StutterKeeps ==
    ASSUME SInv, UNCHANGED vars PROVE SInv' /\ Kept
PROOF
  <1>1. /\ Base'
        /\ UNCHANGED <<routines, readSet, deferred, pc, idx, readyRead, readyWrite, table>>
        /\ UNCHANGED <<backlog, inbox, wire, taken, eof, broken, asked, answers>>
    BY StutterBase DEF SInv
  <1>2. OneRequest' /\ Served' /\ OneEach' /\ DeferredOwned'
    BY <1>1, ServedKeep DEF SInv, OneRequest, OneEach, DeferredOwned, Index
  <1> QED BY <1>1, <1>2, KeptSame DEF SInv

(* What holds whatever the clients send says of the types ...              *)
LEMMA BaseTyped ==
    ASSUME Base PROVE TypeOK
PROOF
  <1>1. \A c \in Conn : taken[c] \in 0..Len(wire[c])
    <2> SUFFICES ASSUME NEW c \in Conn PROVE taken[c] \in 0..Len(wire[c])
      OBVIOUS
    <2>1. taken[c] \in Nat /\ Len(wire[c]) \in Nat /\ taken[c] <= Len(wire[c])
      BY ConnFields DEF Base, Window
    <2> QED BY <2>1
  <1> QED BY <1>1 DEF Base, Typed, TypeOK, Entry

(* ... and of the streams.                                                 *)
LEMMA BaseStreams ==
    ASSUME Base PROVE StreamIntegrity
PROOF
  <1> SUFFICES ASSUME NEW c \in Conn
               PROVE  /\ Len(wire[c]) <= Len(answers[c])
                      /\ wire[c] = First(answers[c], Len(wire[c]))
    BY DEF StreamIntegrity
  <1> DEFINE w == wire[c]
             A == answers[c]
  <1>1. w \in Seq(Byte) /\ A \in Seq(Byte) /\ Len(w) \in Nat /\ Len(A) \in Nat
    BY ConnFields DEF Base
  <1>2. Begins(w, A)
    BY DEF Base, Streams
  <1> HIDE DEF w, A
  <1>3. Len(w) <= Len(A)
    BY <1>2 DEF Begins
  <1>4. <<>> \in Seq(Byte) /\ A \o <<>> = A
    BY <1>1, EmptySeq, ConcatEmptySeq
  <1>5. /\ First(A, Len(w)) \in Seq(Byte) /\ Len(First(A, Len(w))) = Len(w)
        /\ Begins(First(A, Len(w)), A)
    <2>1. Len(w) \in 0..Len(A)
      BY <1>1, <1>3
    <2>2. /\ First(A, Len(w)) \in Seq(Byte) /\ Len(First(A, Len(w))) = Len(w)
          /\ Begins(First(A, Len(w)), A \o <<>>)
      BY <2>1, <1>1, <1>4, FirstBegins
    <2> QED BY <2>2, <1>4
  <1>6. w = First(A, Len(w))
    BY <1>1, <1>2, <1>5, SameBeginning
  <1> QED BY <1>3, <1>6 DEF w, A

-----------------------------------------------------------------------------
(* The theorems.  On each connection one request is sent.                  *)

(* The invariant the others follow from: every routine of the array works  *)
(* for the connection its descriptor belongs to, has put a beginning of    *)
(* that connection's response on the wire, and the sets of select.c name   *)
(* open sockets and sockets a routine waits for.                           *)
THEOREM ServerInvariant == ASSUME MaxRequests = 1 PROVE Spec => []SInv
PROOF
  <1>1. Init => SInv
    BY InitStep
  <1>2. SInv /\ [Next]_vars => SInv'
    BY ServerStepKeeps, ClientStepKeeps, StutterKeeps DEF Next
  <1> QED BY <1>1, <1>2, PTL DEF Spec

(* Every field of the loop's state has its type, and the client never has  *)
(* read more than was sent.                                                *)
THEOREM ServerTyped == ASSUME MaxRequests = 1 PROVE Spec => []TypeOK
PROOF
  <1>1. SInv => TypeOK
    BY BaseTyped DEF SInv
  <1> QED BY <1>1, ServerInvariant, PTL

(* A routine never holds a descriptor that was closed, or that accept()    *)
(* has given to another client since (select.c:120-131 drops the routine   *)
(* with the socket).                                                       *)
THEOREM RoutineOwnsItsSocket == ASSUME MaxRequests = 1 PROVE Spec => []OwnerAlive
PROOF
  <1>1. SInv => OwnerAlive
    BY DEF SInv, Base, Served, Fit, OwnerAlive
  <1> QED BY <1>1, ServerInvariant, PTL

(* However the routines of all clients take turns in RoutineTick, and      *)
(* however little each socket takes: what is on a connection is a          *)
(* beginning of the response to its own request.                           *)
THEOREM StreamsIntact == ASSUME MaxRequests = 1 PROVE Spec => []StreamIntegrity
PROOF
  <1>1. SInv => StreamIntegrity
    BY BaseStreams DEF SInv
  <1> QED BY <1>1, ServerInvariant, PTL

(* A socket is in the deferred set only while a routine waits for it       *)
(* (routine.c defers it, select.c and RoutineArrayDel take it out).        *)
THEOREM DeferredSocketsOwned == ASSUME MaxRequests = 1 PROVE Spec => []DeferredOwned
PROOF
  <1>1. SInv => DeferredOwned
    BY DEF SInv, Base
  <1> QED BY <1>1, ServerInvariant, PTL

(* A routine fails only when its connection is lost: the flush of          *)
(* STATE_DEFER that takes nothing sent for a failure (routine.c:247) is    *)
(* never reached with a full socket.                                       *)
THEOREM FailuresReal == ASSUME MaxRequests = 1 PROVE Spec => []FailOnlyIfLost
PROOF
  <1>1. SInv => FailOnlyIfLost
    BY DEF SInv, Base, Served, Fit, FailOnlyIfLost
  <1> QED BY <1>1, ServerInvariant, PTL

(* serverTick never gives select() a closed descriptor.                    *)
THEOREM ServerGoesOn == ASSUME MaxRequests = 1 PROVE Spec => []ServerSurvives
PROOF
  <1>1. SInv => ServerSurvives
    BY DEF SInv, Base, Typed, ServerSurvives
  <1> QED BY <1>1, ServerInvariant, PTL

(* A file's routine leaves the array only when the whole response is on    *)
(* the wire or the client has gone: neither another client's close nor     *)
(* the order of the array can drop it.                                     *)
THEOREM FilesNotAbandoned == ASSUME MaxRequests = 1 PROVE Spec => NeverAbandoned
PROOF
  <1>1. SInv /\ [Next]_vars => [Kept]_vars
    BY ServerStepKeeps, ClientStepKeeps DEF Next
  <1>2. Spec => [][Kept]_vars
    BY <1>1, ServerInvariant, PTL DEF Spec
  <1> QED BY <1>2 DEF NeverAbandoned, Kept

-----------------------------------------------------------------------------
(***************************************************************************)
(* Any number of requests on a connection, for clients that wait for a     *)
(* whole answer before they go on (Patient).                               *)
(*                                                                         *)
(* A second request may arrive while the routine of the first is still in  *)
(* the array, and when the socket then closes RoutineArrayDelSocket leaves *)
(* one of the two behind.  What saves the server is that a client that has *)
(* been answered leaves no routine with anything to send: every routine is *)
(* Quiet, or it is the only one at work on its connection, and its socket  *)
(* is still that connection's.  PInv says so; Base is as above.            *)
(***************************************************************************)

(* Each request answered has made the answers at most Longest bytes longer. *)
Numbered ==
    \A c \in Conn :
        Len(answers[c]) + (IF inbox[c] = <<>> THEN 0 ELSE Longest) <= asked[c] * Longest

(* A client goes on, or away, only with all of the answers read.           *)
Attended ==
    \A c \in Conn :
        /\ inbox[c] # <<>> \/ eof[c] => taken[c] = Len(answers[c])
        /\ eof[c] => inbox[c] = <<>>
        /\ broken[c] => eof[c]

(* A routine that has nothing to send and has not failed.                  *)
Quiet(r) == Sound(r, <<>>, <<>>, FALSE)

(* A routine whose socket is still its client's, at work on the answers.   *)
Working(e) == table[e.fd] = e.conn /\ Sound(e.r, wire[e.conn], answers[e.conn], FALSE)

AtWork ==
    /\ \A i \in Index : Quiet(routines[i].r) \/ Working(routines[i])
    /\ \A i, j \in Index :
          ~Quiet(routines[i].r) /\ ~Quiet(routines[j].r) /\ routines[i].conn = routines[j].conn
              => i = j

PInv == Base /\ Numbered /\ Attended /\ AtWork /\ DeferredOwned

-----------------------------------------------------------------------------
(* Routines with nothing to send.                                          *)

(* Nothing joined to nothing.                                              *)
LEMMA EmptyCat == <<>> \o <<>> = <<>>
  BY EmptySeq, ConcatProperties

(* What a buffer holds back.                                               *)
LEMMA PendingShape ==
    ASSUME NEW b \in SendBufferType, WellFormed(b)
    PROVE  Pending(b) \in Seq(Byte) /\ Len(Pending(b)) = PendingLen(b) /\ PendingLen(b) \in Nat
PROOF
  <1>1. /\ b.stream \in Seq(Byte) /\ b.idx \in 0..Len(b.stream) /\ Len(b.stream) \in Nat
    BY LenProperties DEF SendBufferType, WellFormed
  <1>2. Pending(b) \in Seq(Byte) /\ Len(Pending(b)) = Len(b.stream) - b.idx
    BY <1>1, SplitJoin DEF Pending
  <1> QED BY <1>1, <1>2 DEF PendingLen

(* What a sound routine still owes of the response is in its buffer or     *)
(* still to be read.                                                       *)
LEMMA OwedParts ==
    ASSUME NEW r, NEW d, NEW R \in Seq(Byte), Sound(r, d, R, FALSE)
    PROVE  /\ d \in Seq(Byte) /\ Len(d) \in Nat /\ Len(R) \in Nat /\ Len(r.left) \in Nat
           /\ Pending(r.sb) \in Seq(Byte) /\ Len(Pending(r.sb)) = PendingLen(r.sb)
           /\ PendingLen(r.sb) \in Nat /\ r.left \in Seq(Byte)
           /\ (d \o Pending(r.sb)) \o r.left = R
           /\ PendingLen(r.sb) + Len(r.left) = Len(R) - Len(d)
PROOF
  <1>1. /\ r.sb \in SendBufferType /\ WellFormed(r.sb) /\ d \in Seq(Byte) /\ r.left \in Seq(Byte)
        /\ (d \o Pending(r.sb)) \o r.left = R
    BY DEF Sound, Track
  <1>2. Pending(r.sb) \in Seq(Byte) /\ Len(Pending(r.sb)) = PendingLen(r.sb) /\ PendingLen(r.sb) \in Nat
    BY <1>1, PendingShape
  <1>3. Len(d) \in Nat /\ Len(R) \in Nat /\ Len(r.left) \in Nat
    BY <1>1, LenProperties
  <1>4. d \o Pending(r.sb) \in Seq(Byte) /\ Len(d \o Pending(r.sb)) = Len(d) + PendingLen(r.sb)
    BY <1>1, <1>2, ConcatProperties
  <1>5. Len(R) = Len(d \o Pending(r.sb)) + Len(r.left)
    BY <1>1, <1>4, ConcatProperties
  <1> QED BY <1>1, <1>2, <1>3, <1>4, <1>5

(* A quiet routine has an empty buffer and nothing left; it never waits.   *)
LEMMA QuietFacts ==
    ASSUME NEW r, Quiet(r)
    PROVE  /\ r \in RoutineType /\ ~r.sb.open /\ ~r.sb.fail /\ r.state # "DEFER"
           /\ Pending(r.sb) = <<>> /\ PendingLen(r.sb) = 0 /\ r.left = <<>>
           /\ Pending(r.sb) \o r.left = <<>>
PROOF
  <1>1. /\ r \in RoutineType /\ r.sb \in SendBufferType /\ WellFormed(r.sb) /\ ~r.sb.fail
        /\ (r.sb.open => PendingLen(r.sb) > 0) /\ (r.state = "DEFER" => r.sb.open)
        /\ r.left \in Seq(Byte)
        /\ (<<>> \o Pending(r.sb)) \o r.left = <<>>
    BY DEF Quiet, Sound, Shape, Track
  <1>2. <<>> \in Seq(Byte) /\ Len(<<>>) = 0
    BY EmptySeq
  <1>3. /\ Pending(r.sb) \in Seq(Byte) /\ Len(Pending(r.sb)) = PendingLen(r.sb)
        /\ PendingLen(r.sb) \in Nat /\ Len(r.left) \in Nat
        /\ PendingLen(r.sb) + Len(r.left) = Len(<<>>) - Len(<<>>)
    BY <1>2, OwedParts DEF Quiet
  <1>4. PendingLen(r.sb) = 0 /\ Len(Pending(r.sb)) = 0 /\ Len(r.left) = 0
    BY <1>2, <1>3
  <1>5. Pending(r.sb) = <<>> /\ r.left = <<>>
    BY <1>1, <1>3, <1>4, EmptySeq
  <1>6. ~r.sb.open
    BY <1>1, <1>4
  <1>7. <<>> \o <<>> = <<>>
    BY EmptyCat
  <1> QED BY <1>1, <1>4, <1>5, <1>6, <1>7

(* A routine whose response is all out is quiet.                           *)
LEMMA QuietWhenWhole ==
    ASSUME NEW r, NEW R \in Seq(Byte), Sound(r, R, R, FALSE)
    PROVE  Quiet(r)
PROOF
  <1>1. /\ r \in RoutineType /\ Shape(r) /\ r.sb \in SendBufferType /\ WellFormed(r.sb)
        /\ (r.sb.open => PendingLen(r.sb) > 0) /\ ~r.sb.fail
    BY DEF Sound, Track
  <1>2. /\ Pending(r.sb) \in Seq(Byte) /\ Len(Pending(r.sb)) = PendingLen(r.sb)
        /\ PendingLen(r.sb) \in Nat /\ r.left \in Seq(Byte) /\ Len(r.left) \in Nat
        /\ Len(R) \in Nat /\ PendingLen(r.sb) + Len(r.left) = Len(R) - Len(R)
    BY OwedParts
  <1>3. Len(Pending(r.sb)) = 0 /\ Len(r.left) = 0
    BY <1>2
  <1>4. Pending(r.sb) = <<>> /\ r.left = <<>>
    BY <1>2, <1>3, EmptySeq
  <1>5. <<>> \in Seq(Byte) /\ (<<>> \o Pending(r.sb)) \o r.left = <<>>
    BY <1>4, EmptyCat, EmptySeq
  <1>6. Begins(<<>>, <<>>)
    BY EmptySeq DEF Begins
  <1> QED BY <1>1, <1>2, <1>5, <1>6 DEF Quiet, Sound, Track

-----------------------------------------------------------------------------
(* RoutineTick.  A turn is followed for any response it may be at work on, *)
(* so that a quiet routine is the case of the empty response.              *)

(* Descriptor f takes up to most bytes as a connection with room n does.   *)
Takes(f, n, most) == \A len \in 0..most : Offer(SendOn(f, len), len, n, FALSE)

(* The turn that leaves s and sends x keeps up with the response R.        *)
Turned(s, x, d, R, n) == x \in Seq(Byte) /\ Len(x) <= n /\ Sound(s, d \o x, R, FALSE)

Turns(r, f, s, x) ==
    \A d \in Seq(Byte), R \in Seq(Byte), n \in Nat :
        Sound(r, d, R, FALSE) /\ Takes(f, n, Len(R) - Len(d)) => Turned(s, x, d, R, n)

(* A routine that waits or goes on without sending.                        *)
LEMMA StillTurns ==
    ASSUME NEW r, NEW f, NEW s,
           \A d \in Seq(Byte), R \in Seq(Byte) : Sound(r, d, R, FALSE) => Sound(s, d, R, FALSE)
    PROVE  Turns(r, f, s, <<>>)
PROOF
  <1> SUFFICES ASSUME NEW d \in Seq(Byte), NEW R \in Seq(Byte), NEW n \in Nat,
                      Sound(r, d, R, FALSE)
               PROVE  Turned(s, <<>>, d, R, n)
    BY DEF Turns
  <1>1. <<>> \in Seq(Byte) /\ Len(<<>>) = 0 /\ d \o <<>> = d
    BY EmptySeq, ConcatEmptySeq
  <1> DEFINE e == d \o <<>>
  <1>2. Sound(s, e, R, FALSE)
    <2>1. Sound(s, d, R, FALSE)
      OBVIOUS
    <2>2. e = d
      BY <1>1
    <2> HIDE DEF e
    <2> QED BY <2>1, <2>2
  <1>3. <<>> \in Seq(Byte) /\ Len(<<>>) <= n
    BY <1>1
  <1> HIDE DEF e
  <1>4. Turned(s, <<>>, d, R, n) <=> <<>> \in Seq(Byte) /\ Len(<<>>) <= n /\ Sound(s, e, R, FALSE)
    BY DEF Turned, e
  <1> QED BY <1>2, <1>3, <1>4

(* A turn that flushes (routine.c:237-266).                                *)
LEMMA FlushTurns ==
    ASSUME NEW r, NEW f, r.state = "FLUSH" \/ r.state = "DEFER"
    PROVE  LET net == SendOn(f, PendingLen(r.sb))
           IN  Turns(r, f, FlushTurn(r, net), FlushTurnSent(r, net))
PROOF
  <1> DEFINE net == SendOn(f, PendingLen(r.sb))
  <1> SUFFICES ASSUME NEW d \in Seq(Byte), NEW R \in Seq(Byte), NEW n \in Nat,
                      Sound(r, d, R, FALSE), Takes(f, n, Len(R) - Len(d))
               PROVE  Turned(FlushTurn(r, net), FlushTurnSent(r, net), d, R, n)
    BY DEF Turns
  <1>1. PendingLen(r.sb) \in 0..(Len(R) - Len(d))
    <2>1. /\ PendingLen(r.sb) \in Nat /\ Len(r.left) \in Nat
          /\ PendingLen(r.sb) + Len(r.left) = Len(R) - Len(d)
      BY OwedParts
    <2> QED BY <2>1
  <1>2. Offer(net, PendingLen(r.sb), n, FALSE)
    BY <1>1 DEF Takes
  <1> HIDE DEF net
  <1>3. /\ FlushTurnSent(r, net) \in Seq(Byte) /\ Len(FlushTurnSent(r, net)) <= n
        /\ Sound(FlushTurn(r, net), d \o FlushTurnSent(r, net), R, FALSE)
    BY <1>2, FlushSends
  <1> QED BY <1>3 DEF Turned

(* A turn of a file routine (routine.c:267-295).                           *)
LEMMA FileTurns ==
    ASSUME NEW r, NEW f, r.state = "CONTINUE", r.type = "FILE"
    PROVE  LET net == SendOn(f, Len(Block(r)))
           IN  Turns(r, f, TickContinueFile(r, net), WriteSent(r.sb, Block(r), net))
PROOF
  <1> DEFINE net == SendOn(f, Len(Block(r)))
  <1> SUFFICES ASSUME NEW d \in Seq(Byte), NEW R \in Seq(Byte), NEW n \in Nat,
                      Sound(r, d, R, FALSE), Takes(f, n, Len(R) - Len(d))
               PROVE  Turned(TickContinueFile(r, net), WriteSent(r.sb, Block(r), net), d, R, n)
    BY DEF Turns
  <1>1. Len(Block(r)) \in 0..(Len(R) - Len(d))
    <2>1. /\ PendingLen(r.sb) \in Nat /\ Len(r.left) \in Nat /\ r.left \in Seq(Byte)
          /\ PendingLen(r.sb) + Len(r.left) = Len(R) - Len(d)
      BY OwedParts
    <2>2. Len(Block(r)) = Least(SB_DATA_SIZE, Len(r.left))
      <3> DEFINE k == Least(SB_DATA_SIZE, Len(r.left))
      <3>1. k \in 0..Len(r.left)
        BY <2>1, SbDataSizeAssumption DEF Least
      <3>2. Block(r) = SubSeq(r.left, 1, k)
        BY DEF Block, First
      <3> HIDE DEF k
      <3>3. Len(SubSeq(r.left, 1, k)) = k
        BY <2>1, <3>1, SplitJoin
      <3> QED BY <3>2, <3>3 DEF k
    <2>3. Least(SB_DATA_SIZE, Len(r.left)) \in 0..Len(r.left)
      BY <2>1, SbDataSizeAssumption DEF Least
    <2> QED BY <2>1, <2>2, <2>3
  <1>2. Offer(net, Len(Block(r)), n, FALSE)
    BY <1>1 DEF Takes
  <1> HIDE DEF net
  <1>3. /\ WriteSent(r.sb, Block(r), net) \in Seq(Byte) /\ Len(WriteSent(r.sb, Block(r), net)) <= n
        /\ Sound(TickContinueFile(r, net), d \o WriteSent(r.sb, Block(r), net), R, FALSE)
    BY <1>2, FileSends
  <1> QED BY <1>3 DEF Turned

(* A write that does not fail moves everything: what the buffer held and   *)
(* the new data are what was sent and what the buffer holds now.           *)
LEMMA WriteBalance ==
    ASSUME NEW b \in SendBufferType, WellFormed(b), NEW data \in Seq(Byte),
           NEW net \in [k : 0..Len(data), err : BOOLEAN], ~net.err
    PROVE  LET c == sendBufferWriteData(b, data, net)
               sent == WriteSent(b, data, net)
           IN  /\ Len(sent) \in Nat /\ PendingLen(c) \in Nat
               /\ Len(sent) + PendingLen(c) = PendingLen(b) + Len(data)
PROOF
  <1> DEFINE c == sendBufferWriteData(b, data, net)
             sent == WriteSent(b, data, net)
  <1>1. SubSeq(data, 1, Len(data)) = data
    <2>1. Len(data) \in Nat
      BY LenProperties
    <2> QED BY <2>1, SubSeqFull
  <1>2. SubSeq(data, 1, WriteReturn(b, data, net)) = data
    BY <1>1 DEF WriteReturn
  <1>3. /\ c \in SendBufferType /\ WellFormed(c) /\ sent \in Seq(Byte)
        /\ Pending(b) \in Seq(Byte) /\ Pending(c) \in Seq(Byte)
        /\ Pending(b) \o data = sent \o Pending(c)
    BY <1>2, WriteLemma
  <1> HIDE DEF c, sent
  <1>4. /\ Len(Pending(b)) = PendingLen(b) /\ PendingLen(b) \in Nat
        /\ Len(Pending(c)) = PendingLen(c) /\ PendingLen(c) \in Nat
    BY <1>3, PendingShape
  <1>5. /\ Len(Pending(b) \o data) = Len(Pending(b)) + Len(data)
        /\ Len(sent \o Pending(c)) = Len(sent) + Len(Pending(c))
    BY <1>3, ConcatProperties
  <1>6. Len(sent) \in Nat
    BY <1>3, LenProperties
  <1> QED BY <1>3, <1>4, <1>5, <1>6 DEF c, sent

(* A turn of a directory routine (routine.c:300-311).                      *)
LEMMA DirTurns ==
    ASSUME NEW r, NEW f, r.state = "CONTINUE", r.type = "DIR"
    PROVE  LET wnet == SendOn(f, Len(Batch(r)))
               left == SendOn(f, BatchTotal(r, wnet))
           IN  Turns(r, f, DirTurn(r, wnet, left), DirTurnSent(r, wnet, left))
PROOF
  <1> DEFINE wnet == SendOn(f, Len(Batch(r)))
             left == SendOn(f, BatchTotal(r, wnet))
  <1> SUFFICES ASSUME NEW d \in Seq(Byte), NEW R \in Seq(Byte), NEW n \in Nat,
                      Sound(r, d, R, FALSE), Takes(f, n, Len(R) - Len(d))
               PROVE  Turned(DirTurn(r, wnet, left), DirTurnSent(r, wnet, left), d, R, n)
    BY DEF Turns
  <1>1. /\ PendingLen(r.sb) \in Nat /\ Len(r.left) \in Nat /\ r.left \in Seq(Byte)
        /\ PendingLen(r.sb) + Len(r.left) = Len(R) - Len(d)
        /\ r.sb \in SendBufferType /\ WellFormed(r.sb)
    BY OwedParts DEF Sound, Track
  <1>2. Batch(r) \in Seq(Byte) /\ Len(Batch(r)) \in 0..Len(r.left)
    <2> DEFINE k == Least(DirMax, Len(r.left))
    <2>1. k \in 0..Len(r.left)
      BY <1>1, DirMaxAssumption DEF Least
    <2>2. Batch(r) = SubSeq(r.left, 1, k)
      BY DEF Batch, First
    <2> HIDE DEF k
    <2>3. SubSeq(r.left, 1, k) \in Seq(Byte) /\ Len(SubSeq(r.left, 1, k)) = k
      BY <1>1, <2>1, SplitJoin
    <2> QED BY <2>1, <2>2, <2>3
  <1>3. Offer(wnet, Len(Batch(r)), n, FALSE)
    <2>1. Len(Batch(r)) \in 0..(Len(R) - Len(d))
      BY <1>1, <1>2
    <2> QED BY <2>1 DEF Takes
  <1> HIDE DEF wnet
  <1>4. BatchTotal(r, wnet) \in 0..(Len(R) - Len(d))
    <2>1. /\ wnet = [k |-> wnet.k, err |-> wnet.err]
          /\ wnet.k \in 0..Len(Batch(r)) /\ wnet.err \in BOOLEAN /\ ~wnet.err
      BY <1>3 DEF Offer
    <2>2. wnet \in [k : 0..Len(Batch(r)), err : BOOLEAN]
      BY <2>1
    <2>3. /\ Len(BatchSent(r, wnet)) \in Nat /\ PendingLen(BatchBuffer(r, wnet)) \in Nat
          /\ Len(BatchSent(r, wnet)) + PendingLen(BatchBuffer(r, wnet))
                 = PendingLen(r.sb) + Len(Batch(r))
      BY <1>1, <1>2, <2>1, <2>2, WriteBalance DEF BatchSent, BatchBuffer
    <2> QED BY <1>1, <1>2, <2>3 DEF BatchTotal
  <1>5. Offer(left, BatchTotal(r, wnet), n, FALSE)
    BY <1>4 DEF Takes
  <1> HIDE DEF left
  <1>6. /\ DirTurnSent(r, wnet, left) \in Seq(Byte) /\ Len(DirTurnSent(r, wnet, left)) <= n
        /\ Sound(DirTurn(r, wnet, left), d \o DirTurnSent(r, wnet, left), R, FALSE)
    BY <1>3, <1>5, DirSends
  <1> QED BY <1>6 DEF Turned

(* A plain routine has nothing to send (routine.c:296-299).                *)
LEMMA PlainTurns ==
    ASSUME NEW r, NEW f, r.state = "CONTINUE", r.type = "ROUTINE"
    PROVE  Turns(r, f, TickContinuePlain(r), <<>>)
PROOF
  <1>1. ASSUME NEW d \in Seq(Byte), NEW R \in Seq(Byte), Sound(r, d, R, FALSE)
        PROVE  Sound(TickContinuePlain(r), d, R, FALSE)
    BY <1>1, ContinuePlainLemma
  <1> QED BY <1>1, StillTurns

-----------------------------------------------------------------------------
(* What the clients' patience gives.                                       *)

(* When a connection has a request waiting, or its client has gone, all of *)
(* its answers are out and read: no routine at work belongs to it.         *)
LEMMA Caught ==
    ASSUME Base, Attended, AtWork, NEW c \in Conn, inbox[c] # <<>> \/ eof[c] \/ broken[c]
    PROVE  /\ wire[c] = answers[c] /\ taken[c] = Len(answers[c])
           /\ \A i \in Index : ~Quiet(routines[i].r) =>
                  routines[i].conn # c /\ table[routines[i].fd] # c
PROOF
  <1>1. /\ wire[c] \in Seq(Byte) /\ answers[c] \in Seq(Byte) /\ taken[c] \in Nat
        /\ Len(wire[c]) \in Nat /\ Len(answers[c]) \in Nat
    BY ConnFields DEF Base
  <1>2. taken[c] = Len(answers[c])
    BY DEF Attended
  <1>3. Begins(wire[c], answers[c]) /\ taken[c] <= Len(wire[c])
    BY DEF Base, Streams, Window
  <1>4. Len(wire[c]) = Len(answers[c])
    BY <1>1, <1>2, <1>3 DEF Begins
  <1>5. Begins(answers[c], answers[c])
    BY <1>1 DEF Begins
  <1>6. wire[c] = answers[c]
    BY <1>1, <1>3, <1>4, <1>5, SameBeginning
  <1>7. ASSUME NEW i \in Index, ~Quiet(routines[i].r), routines[i].conn = c
        PROVE  FALSE
    <2>1. Sound(routines[i].r, wire[c], answers[c], FALSE)
      BY <1>7 DEF AtWork, Working
    <2>2. Sound(routines[i].r, answers[c], answers[c], FALSE)
      BY <2>1, <1>6
    <2> QED BY <2>2, <1>1, <1>7, QuietWhenWhole
  <1>8. ASSUME NEW i \in Index, ~Quiet(routines[i].r)
        PROVE  routines[i].conn # c /\ table[routines[i].fd] # c
    <2>1. table[routines[i].fd] = routines[i].conn
      BY <1>8 DEF AtWork, Working
    <2> QED BY <2>1, <1>7, <1>8
  <1> QED BY <1>2, <1>6, <1>8

(* A routine that is not quiet works for a client that has not gone.       *)
LEMMA AtWorkNow ==
    ASSUME Base, Attended, AtWork, NEW i \in Index, ~Quiet(routines[i].r)
    PROVE  /\ routines[i].fd \in Fd /\ routines[i].conn \in Conn
           /\ table[routines[i].fd] = routines[i].conn /\ routines[i].fd \in readSet
           /\ Open(routines[i].fd) /\ ~broken[routines[i].conn]
           /\ inbox[routines[i].conn] = <<>> /\ ~eof[routines[i].conn]
           /\ Sound(routines[i].r, wire[routines[i].conn], answers[routines[i].conn], FALSE)
PROOF
  <1>1. routines[i].fd \in Fd /\ routines[i].conn \in Conn
    BY EntryFields DEF Base
  <1>2. Working(routines[i])
    BY DEF AtWork
  <1>3. Open(routines[i].fd)
    <2>1. routines[i].conn # None
      BY <1>1, ConnFields DEF Base
    <2> QED BY <2>1, <1>2 DEF Working, Open
  <1>4. routines[i].fd \in readSet
    BY <1>1, <1>3 DEF Base, Watched
  <1>5. ~(inbox[routines[i].conn] # <<>> \/ eof[routines[i].conn] \/ broken[routines[i].conn])
    BY <1>1, Caught
  <1> QED BY <1>1, <1>2, <1>3, <1>4, <1>5 DEF Working

(* A turn of the current routine: a quiet one stays quiet and sends        *)
(* nothing; one at work stays at work.                                     *)
Advances(s, x) ==
    /\ x \in Seq(Byte)
    /\ Quiet(Current.r) => Quiet(s) /\ x = <<>>
    /\ ~Quiet(Current.r) =>
          /\ Len(x) <= Room(Current.conn)
          /\ Sound(s, wire[Current.conn] \o x, answers[Current.conn], FALSE)

LEMMA QuietAdvances ==
    ASSUME Base, NEW r, Quiet(r), NEW f \in Fd, NEW s, NEW x, Turns(r, f, s, x)
    PROVE  Quiet(s) /\ x = <<>>
PROOF
  <1>1. <<>> \in Seq(Byte) /\ Len(<<>>) = 0 /\ Len(<<>>) - Len(<<>>) = 0
    BY EmptySeq
  <1>2. SendOn(f, 0) = [k |-> 0, err |-> FALSE]
    <2>1. CASE ~Open(f) \/ broken[table[f]]
      <3>1. SendOn(f, 0) = [k |-> 0, err |-> 0 > 0]
        BY <2>1 DEF SendOn
      <3>2. (0 > 0) = FALSE
        OBVIOUS
      <3> QED BY Zenon, <3>1, <3>2
    <2>2. CASE ~(~Open(f) \/ broken[table[f]])
      <3>1. table[f] \in Conn
        BY <2>2 DEF Base, Typed, Open
      <3>2. Room(table[f]) \in Nat
        BY <3>1, Offered DEF Base
      <3>3. Least(Room(table[f]), 0) = 0
        BY <3>2 DEF Least
      <3> QED BY <2>2, <3>3 DEF SendOn
    <2> QED BY <2>1, <2>2
  <1>3. Offer(SendOn(f, 0), 0, 0, FALSE)
    <2> DEFINE net == SendOn(f, 0)
    <2> HIDE DEF net
    <2>1. net = [k |-> 0, err |-> FALSE]
      BY <1>2 DEF net
    <2>2. net.k = 0 /\ net.err = FALSE /\ net = [k |-> net.k, err |-> net.err]
      BY <2>1
    <2>a. Least(0, 0) = 0
      BY DEF Least
    <2>b. net.k = 0
      BY <2>2
    <2>c. net.k \in 0..0 /\ net.k <= 0
      BY <2>b
    <2>3. Least(0, 0) = 0 /\ net.k \in 0..0 /\ net.k <= 0 /\ net.err \in BOOLEAN
      BY <2>2, <2>a, <2>c
    <2>4. Offer(net, 0, 0, FALSE) <=>
             /\ net = [k |-> net.k, err |-> net.err]
             /\ net.k \in 0..0 /\ net.err \in BOOLEAN /\ net.k <= 0
             /\ net.err => FALSE /\ 0 > 0
             /\ net.k = Least(0, 0)
      BY Zenon DEF Offer
    <2>5. Offer(net, 0, 0, FALSE)
      BY <2>2, <2>3, <2>4
    <2> QED BY <2>5 DEF net
  <1>4. Takes(f, 0, Len(<<>>) - Len(<<>>))
    <2>1. \A len \in 0..0 : len = 0
      OBVIOUS
    <2> QED BY <2>1, <1>1, <1>3 DEF Takes
  <1>5. Turned(s, x, <<>>, <<>>, 0)
    BY <1>1, <1>4 DEF Turns, Quiet
  <1>6. x \in Seq(Byte) /\ Len(x) = 0
    BY <1>5, LenProperties DEF Turned
  <1>7. x = <<>>
    BY <1>6, EmptySeq
  <1>8. <<>> \o x = <<>>
    BY <1>7, EmptyCat
  <1> QED BY <1>5, <1>7, <1>8 DEF Turned, Quiet

(* The routine RoutineTick looks at.                                       *)
LEMMA CurrentEntry ==
    ASSUME Base, RoutineTick
    PROVE  /\ idx \in Index /\ Current = routines[idx] /\ pc = "tick" /\ idx' = idx + 1
           /\ Current.conn \in Conn /\ Current.fd \in Fd /\ Current.r \in RoutineType
           /\ wire[Current.conn] \in Seq(Byte) /\ answers[Current.conn] \in Seq(Byte)
           /\ Room(Current.conn) \in Nat
           /\ UNCHANGED <<readSet, pc, readyRead, readyWrite, table>>
           /\ UNCHANGED <<backlog, inbox, taken, eof, broken, asked, answers>>
PROOF
  <1>1. /\ pc = "tick" /\ idx <= Len(routines) /\ idx' = idx + 1
        /\ UNCHANGED <<readSet, pc, readyRead, readyWrite, table>>
        /\ UNCHANGED <<backlog, inbox, taken, eof, broken, asked, answers>>
    BY DEF RoutineTick
  <1>2. idx \in Index
    BY <1>1, LenProperties DEF Base, Typed, Index
  <1>3. Current = routines[idx]
    BY DEF Current
  <1>4. Current.conn \in Conn /\ Current.fd \in Fd /\ Current.r \in RoutineType
    BY <1>2, <1>3, EntryFields DEF Base
  <1>5. /\ wire[Current.conn] \in Seq(Byte) /\ answers[Current.conn] \in Seq(Byte)
        /\ taken[Current.conn] \in Nat /\ Len(wire[Current.conn]) \in Nat /\ Cap \in Nat
    BY <1>4, ConnFields DEF Base
  <1>6. Room(Current.conn) \in Nat
    BY <1>4, <1>5 DEF Base, Window, Room
  <1> QED BY <1>1, <1>2, <1>3, <1>4, <1>5, <1>6

LEMMA CurrentAdvances ==
    ASSUME Base, Attended, AtWork, RoutineTick, NEW s, NEW x,
           Turns(Current.r, Current.fd, s, x)
    PROVE  Advances(s, x)
PROOF
  <1> DEFINE c == Current.conn
             f == Current.fd
             r == Current.r
  <1>1. /\ idx \in Index /\ Current = routines[idx] /\ c \in Conn /\ f \in Fd
        /\ wire[c] \in Seq(Byte) /\ answers[c] \in Seq(Byte) /\ Room(c) \in Nat
    BY CurrentEntry
  <1>2. CASE Quiet(r)
    <2>1. Quiet(s) /\ x = <<>>
      BY <1>1, <1>2, QuietAdvances
    <2> QED BY <2>1, <1>2, EmptySeq DEF Advances
  <1>3. CASE ~Quiet(r)
    <2>1. ~broken[c] /\ table[f] = c /\ Sound(r, wire[c], answers[c], FALSE)
      BY <1>1, <1>3, AtWorkNow
    <2>2. Takes(f, Room(c), Len(answers[c]) - Len(wire[c]))
      <3> SUFFICES ASSUME NEW len \in 0..(Len(answers[c]) - Len(wire[c]))
                   PROVE  Offer(SendOn(f, len), len, Room(c), FALSE)
        BY DEF Takes
      <3>1. len \in Nat
        OBVIOUS
      <3>2. Offer(SendOn(f, len), len, Room(c), broken[c])
        BY <1>1, <2>1, <3>1, Offered DEF Base
      <3>3. broken[c] = FALSE
        <4>1. broken[c] \in BOOLEAN
          BY <1>1, ConnFields DEF Base
        <4> QED BY <2>1, <4>1
      <3> QED BY <3>2, <3>3
    <2> DEFINE wired == wire[c]
               response == answers[c]
               room == Room(c)
    <2>3. /\ wired \in Seq(Byte) /\ response \in Seq(Byte) /\ room \in Nat
          /\ Sound(r, wired, response, FALSE) /\ Takes(f, room, Len(response) - Len(wired))
      BY <1>1, <2>1, <2>2
    <2> HIDE DEF wired, response, room
    <2>4. Turned(s, x, wired, response, room)
      BY <2>3 DEF Turns
    <2>5. x \in Seq(Byte) /\ Len(x) <= Room(c) /\ Sound(s, wire[c] \o x, answers[c], FALSE)
      BY <2>4 DEF Turned, wired, response, room
    <2> QED BY <2>5, <1>3 DEF Advances
  <1> QED BY <1>2, <1>3

(* The bytes of a turn on the wire.                                        *)
LEMMA CurrentWire ==
    ASSUME Base, Attended, AtWork, RoutineTick, NEW s, NEW x, Advances(s, x),
           wire' = Sent(Current.fd, x)
    PROVE  /\ Len(x) <= Room(Current.conn)
           /\ wire' = [wire EXCEPT ![Current.conn] = wire[Current.conn] \o x]
           /\ Begins(wire[Current.conn] \o x, answers[Current.conn])
           /\ x = <<>> => wire' = wire
PROOF
  <1> DEFINE c == Current.conn
             f == Current.fd
             r == Current.r
  <1>1. /\ idx \in Index /\ Current = routines[idx] /\ c \in Conn /\ f \in Fd
        /\ wire[c] \in Seq(Byte) /\ answers[c] \in Seq(Byte) /\ Room(c) \in Nat
    BY CurrentEntry
  <1>2. x = <<>> => wire' = wire
    BY DEF Sent
  <1>3. CASE Quiet(r)
    <2>1. x = <<>> /\ Len(x) = 0 /\ wire' = wire
      BY <1>2, <1>3, EmptySeq DEF Advances
    <2>2. wire[c] \o x = wire[c]
      BY <1>1, <2>1, ConcatEmptySeq
    <2>3. wire = [wire EXCEPT ![c] = wire[c]]
      BY DEF Base, Typed
    <2>4. Begins(wire[c], answers[c])
      BY <1>1 DEF Base, Streams
    <2>5. Len(x) <= Room(c)
      BY <1>1, <2>1
    <2> QED BY <2>1, <2>2, <2>3, <2>4, <2>5, <1>2
  <1>4. CASE ~Quiet(r)
    <2>1. table[f] = c
      BY <1>1, <1>4, AtWorkNow
    <2>2. x \in Seq(Byte) /\ Len(x) <= Room(c) /\ Sound(s, wire[c] \o x, answers[c], FALSE)
      BY <1>4 DEF Advances
    <2>3. wire' = [wire EXCEPT ![c] = wire[c] \o x]
      <3>1. Typed /\ table[f] \in Conn /\ x \in Seq(Byte) /\ wire' = Sent(f, x)
        BY <1>1, <2>1, <2>2 DEF Base
      <3>2. Sent(f, x) = [wire EXCEPT ![table[f]] = wire[table[f]] \o x]
        BY <3>1, SentShape
      <3> QED BY Zenon, <2>1, <3>1, <3>2
    <2>4. Begins(wire[c] \o x, answers[c])
      BY <2>2 DEF Sound, Track
    <2> QED BY <2>2, <2>3, <2>4, <1>2
  <1> QED BY <1>3, <1>4

(* A tick leaves everything but the routine, the wire and the deferred     *)
(* sockets as it was.                                                      *)
LEMMA TickCounts ==
    ASSUME PInv, RoutineTick, NEW s, NEW x, Advances(s, x), wire' = Sent(Current.fd, x),
           routines' \in Seq(Entry), deferred' \subseteq readSet
    PROVE  /\ Base' /\ Numbered' /\ Attended'
           /\ \A d \in Conn : d # Current.conn \/ x = <<>> => wire'[d] = wire[d]
           /\ wire'[Current.conn] = wire[Current.conn] \o x
           /\ UNCHANGED <<table, answers, readSet>>
PROOF
  <1> DEFINE c == Current.conn
  <1>1. /\ c \in Conn /\ pc = "tick" /\ idx' = idx + 1
        /\ UNCHANGED <<readSet, pc, readyRead, readyWrite, table>>
        /\ UNCHANGED <<backlog, inbox, taken, eof, broken, asked, answers>>
    BY CurrentEntry DEF PInv
  <1>2. /\ x \in Seq(Byte) /\ Len(x) <= Room(c) /\ wire' = [wire EXCEPT ![c] = wire[c] \o x]
        /\ Begins(wire[c] \o x, answers[c]) /\ (x = <<>> => wire' = wire)
    BY CurrentWire DEF PInv, Advances
  <1> HIDE DEF c
  <1>3. /\ Base' /\ wire'[c] = wire[c] \o x
        /\ \A d \in Conn : d # c => wire'[d] = wire[d]
    <2>1. Base
      BY DEF PInv
    <2> QED BY <2>1, <1>1, <1>2, TickBase
  <1>4. Numbered'
    BY <1>1 DEF PInv, Numbered
  <1>5. Attended'
    BY <1>1 DEF PInv, Attended
  <1> QED BY <1>1, <1>2, <1>3, <1>4, <1>5 DEF c

(* A routine that is not the current one keeps working, and a quiet one    *)
(* needs nothing.                                                          *)
LEMMA OtherWorks ==
    ASSUME PInv, RoutineTick, NEW s, NEW x, Advances(s, x),
           \A d \in Conn : d # Current.conn \/ x = <<>> => wire'[d] = wire[d],
           UNCHANGED <<table, answers>>,
           NEW i \in Index, i # idx, ~Quiet(routines[i].r), NEW e, e = routines[i]
    PROVE  Working(e)'
PROOF
  <1>1. idx \in Index /\ Current = routines[idx]
    BY CurrentEntry DEF PInv
  <1>2. /\ routines[i].conn \in Conn /\ table[routines[i].fd] = routines[i].conn
        /\ Sound(routines[i].r, wire[routines[i].conn], answers[routines[i].conn], FALSE)
    BY AtWorkNow DEF PInv
  <1>3. routines[i].conn # Current.conn \/ x = <<>>
    <2>1. CASE Quiet(Current.r)
      BY <2>1 DEF Advances
    <2>2. CASE ~Quiet(Current.r)
      BY <2>2, <1>1 DEF PInv, AtWork
    <2> QED BY <2>1, <2>2
  <1>4. wire'[routines[i].conn] = wire[routines[i].conn]
    BY <1>2, <1>3
  <1>5. /\ table'[e.fd] = e.conn
        /\ Sound(e.r, wire'[e.conn], answers'[e.conn], FALSE)
    BY <1>2, <1>4
  <1> QED BY <1>5 DEF Working

(* The current routine after a turn that keeps it.                         *)
LEMMA CurrentWorks ==
    ASSUME PInv, RoutineTick, NEW s, NEW x, Advances(s, x), ~Quiet(s),
           wire'[Current.conn] = wire[Current.conn] \o x, UNCHANGED <<table, answers>>
    PROVE  /\ ~Quiet(Current.r)
           /\ table'[Current.fd] = Current.conn
           /\ Sound(s, wire'[Current.conn], answers'[Current.conn], FALSE)
           /\ Current.fd \in readSet
PROOF
  <1>1. idx \in Index /\ Current = routines[idx]
    BY CurrentEntry DEF PInv
  <1>2. ~Quiet(Current.r) /\ Sound(s, wire[Current.conn] \o x, answers[Current.conn], FALSE)
    BY DEF Advances
  <1>3. table[Current.fd] = Current.conn /\ Current.fd \in readSet
    BY <1>1, <1>2, AtWorkNow DEF PInv
  <1> QED BY <1>2, <1>3

(* The array with another routine in one entry.                            *)
LEMMA EntryKept ==
    ASSUME routines \in Seq(Entry), NEW k \in Index, NEW s \in RoutineType,
           routines' = [routines EXCEPT ![k].r = s]
    PROVE  /\ routines' \in Seq(Entry) /\ Index' = Index
           /\ routines'[k].r = s /\ routines'[k].fd = routines[k].fd
           /\ routines'[k].conn = routines[k].conn
           /\ \A i \in Index : i # k => routines'[i] = routines[i]
           /\ \A i \in Index : routines'[i].conn = routines[i].conn /\ routines'[i].fd = routines[i].fd
PROOF
  <1>1. k \in 1..Len(routines) /\ routines[k] \in Entry
    BY ElementOfSeq DEF Index
  <1> DEFINE e == [routines[k] EXCEPT !.r = s]
  <1>2. /\ e \in Entry /\ e.r = s /\ e.fd = routines[k].fd /\ e.conn = routines[k].conn
    BY <1>1 DEF Entry
  <1>3. routines' = [routines EXCEPT ![k] = e]
    OBVIOUS
  <1> HIDE DEF e
  <1>4. /\ routines' \in Seq(Entry) /\ Len(routines') = Len(routines)
        /\ routines'[k] = e /\ \A i \in 1..Len(routines) : i # k => routines'[i] = routines[i]
    BY <1>1, <1>2, <1>3, ExceptSeq
  <1> QED BY <1>1, <1>2, <1>4 DEF Index

(* A turn that keeps the routine.                                          *)
LEMMA KeepsWorking ==
    ASSUME PInv, RoutineTick, NEW s, NEW x, Turns(Current.r, Current.fd, s, x),
           wire' = Sent(Current.fd, x), Keep(s),
           deferred' = IF s.state = "DEFER" THEN deferred \cup {Current.fd} ELSE deferred,
           Current.r.state = "DEFER" /\ Current.fd \in deferred => s.state = "DEFER"
    PROVE  PInv'
PROOF
  <1>1. /\ idx \in Index /\ Current = routines[idx] /\ routines \in Seq(Entry)
        /\ Current.fd \in Fd /\ Current.conn \in Conn /\ deferred \subseteq readSet
    BY CurrentEntry DEF PInv, Base, Typed, Watched
  <1>2. Advances(s, x)
    BY CurrentAdvances DEF PInv
  <1>3. routines' = [routines EXCEPT ![idx].r = s] /\ s \in RoutineType
    BY <1>2 DEF Keep, Advances, Quiet, Sound
  <1>4. /\ routines' \in Seq(Entry) /\ Index' = Index
        /\ routines'[idx].r = s /\ routines'[idx].fd = Current.fd
        /\ routines'[idx].conn = Current.conn
        /\ \A i \in Index : i # idx => routines'[i] = routines[i]
        /\ \A i \in Index : routines'[i].conn = routines[i].conn /\ routines'[i].fd = routines[i].fd
    BY <1>1, <1>3, EntryKept
  <1>5. s.state = "DEFER" => ~Quiet(s)
    BY QuietFacts
  <1>6. deferred' \subseteq readSet
    <2>1. CASE s.state = "DEFER"
      <3>1. ~Quiet(Current.r)
        BY <2>1, <1>2, <1>5 DEF Advances
      <3>2. Current.fd \in readSet
        BY <3>1, <1>1, AtWorkNow DEF PInv
      <3> QED BY <3>2, <1>1
    <2>2. CASE s.state # "DEFER"
      BY <2>2, <1>1
    <2> QED BY <2>1, <2>2
  <1>7. /\ Base' /\ Numbered' /\ Attended'
        /\ \A d \in Conn : d # Current.conn \/ x = <<>> => wire'[d] = wire[d]
        /\ wire'[Current.conn] = wire[Current.conn] \o x
        /\ UNCHANGED <<table, answers, readSet>>
    BY <1>2, <1>4, <1>6, TickCounts
  <1>8. ~Quiet(s) => /\ ~Quiet(Current.r) /\ table'[Current.fd] = Current.conn
                     /\ Sound(s, wire'[Current.conn], answers'[Current.conn], FALSE)
    BY <1>2, <1>7, CurrentWorks
  <1>9. AtWork'
    <2>1. ASSUME NEW i \in Index
          PROVE  Quiet(routines'[i].r) \/ Working(routines[i])'
      <3>1. CASE i = idx
        BY <3>1, <1>4, <1>8 DEF Working
      <3>2. CASE i # idx
        <4>1. routines'[i] = routines[i]
          BY <3>2, <1>4
        <4>2. CASE Quiet(routines[i].r)
          BY <4>1, <4>2
        <4>3. CASE ~Quiet(routines[i].r)
          <5>1. \A e : e = routines[i] => Working(e)'
            BY <3>2, <4>3, <1>2, <1>7, OtherWorks
          <5>2. /\ table'[routines[i].fd] = routines[i].conn
                /\ Sound(routines[i].r, wire'[routines[i].conn], answers'[routines[i].conn], FALSE)
            BY <5>1 DEF Working
          <5> QED BY <4>1, <5>2 DEF Working
        <4> QED BY <4>2, <4>3
      <3> QED BY <3>1, <3>2
    <2>2. ASSUME NEW i \in Index, ~Quiet(routines'[i].r) PROVE ~Quiet(routines[i].r)
      <3>1. CASE i = idx
        BY <3>1, <2>2, <1>1, <1>4, <1>8
      <3>2. CASE i # idx
        BY <3>2, <2>2, <1>4
      <3> QED BY <3>1, <3>2
    <2>3. \A i, j \in Index : ~Quiet(routines[i].r) /\ ~Quiet(routines[j].r)
                /\ routines[i].conn = routines[j].conn => i = j
      BY DEF PInv, AtWork
    <2>4. \A i, j \in Index : ~Quiet(routines'[i].r) /\ ~Quiet(routines'[j].r)
                /\ routines'[i].conn = routines'[j].conn => i = j
      BY <2>2, <2>3, <1>4
    <2> QED BY <2>1, <2>4, <1>4 DEF AtWork, Quiet
  <1>10. DeferredOwned'
    <2> SUFFICES ASSUME NEW f \in deferred'
                 PROVE  \E i \in Index : routines'[i].fd = f /\ routines'[i].r.state = "DEFER"
      BY <1>4 DEF DeferredOwned
    <2>1. CASE f \notin deferred
      <3>1. f = Current.fd /\ s.state = "DEFER"
        BY <2>1
      <3> QED BY <3>1, <1>1, <1>4
    <2>2. CASE f \in deferred
      <3>1. PICK i \in Index : routines[i].fd = f /\ routines[i].r.state = "DEFER"
        BY <2>2 DEF PInv, DeferredOwned
      <3>2. CASE i = idx
        <4>1. s.state = "DEFER"
          BY <2>2, <3>1, <3>2, <1>1
        <4> QED BY <4>1, <3>1, <3>2, <1>1, <1>4
      <3>3. CASE i # idx
        BY <3>1, <3>3, <1>4
      <3> QED BY <3>2, <3>3
    <2> QED BY <2>1, <2>2
  <1> QED BY <1>7, <1>9, <1>10 DEF PInv

(* Removing one routine leaves the others as they were.  A routine of the  *)
(* new array is one of the old, and still works if that one did; f is the  *)
(* socket that leaves the deferred set with the routine.                   *)
LEMMA WithoutOne ==
    ASSUME PInv, NEW k \in Index, routines' = RoutineArrayDelIdx(k),
           \A i \in Index : \A e : i # k /\ e = routines[i] /\ ~Quiet(e.r) => Working(e)'
    PROVE  routines' \in Seq(Entry) /\ AtWork'
PROOF
  <1>1. /\ routines' \in Seq(Entry)
        /\ \A i \in Index' : /\ Skip(k, i) \in Index /\ Skip(k, i) # k
                             /\ routines'[i] = routines[Skip(k, i)]
        /\ \A i, j \in Index' : Skip(k, i) = Skip(k, j) => i = j
    BY OthersMove DEF PInv, Base
  <1>2. ASSUME NEW i \in Index'
        PROVE  Quiet(routines'[i].r) \/ Working(routines[i])'
    <2>1. Skip(k, i) \in Index /\ Skip(k, i) # k /\ routines'[i] = routines[Skip(k, i)]
      BY <1>1
    <2>2. ASSUME ~Quiet(routines'[i].r) PROVE Working(routines[i])'
      <3>1. \A e : e = routines'[i] => Working(e)'
        BY <2>1, <2>2
      <3>2. /\ table'[routines'[i].fd] = routines'[i].conn
            /\ Sound(routines'[i].r, wire'[routines'[i].conn], answers'[routines'[i].conn], FALSE)
        BY <3>1 DEF Working
      <3> QED BY <3>2 DEF Working
    <2> QED BY <2>2
  <1>3. ASSUME NEW i \in Index', NEW j \in Index', ~Quiet(routines'[i].r), ~Quiet(routines'[j].r),
               routines'[i].conn = routines'[j].conn
        PROVE  i = j
    <2>1. /\ Skip(k, i) \in Index /\ routines'[i] = routines[Skip(k, i)]
          /\ Skip(k, j) \in Index /\ routines'[j] = routines[Skip(k, j)]
      BY <1>1
    <2>2. Skip(k, i) = Skip(k, j)
      BY <2>1, <1>3 DEF PInv, AtWork
    <2> QED BY <2>2, <1>1
  <1> QED BY <1>1, <1>2, <1>3 DEF AtWork, Quiet

LEMMA WithoutOwned ==
    ASSUME PInv, NEW k \in Index, routines' = RoutineArrayDelIdx(k),
           deferred' = deferred \ {routines[k].fd}
    PROVE  DeferredOwned'
PROOF
  <1> SUFFICES ASSUME NEW f \in deferred'
               PROVE  \E i \in Index' : routines'[i].fd = f /\ routines'[i].r.state = "DEFER"
    BY DEF DeferredOwned
  <1>1. PICK j \in Index : routines[j].fd = f /\ routines[j].r.state = "DEFER"
    BY DEF PInv, DeferredOwned
  <1>2. j # k
    BY <1>1
  <1>3. \E i \in Index' : routines'[i] = routines[j]
    BY <1>2, OthersMove DEF PInv, Base
  <1> QED BY <1>1, <1>3

(* A turn that ends with the routine's removal.                            *)
LEMMA DropsWorking ==
    ASSUME PInv, RoutineTick, NEW s, NEW x, Turns(Current.r, Current.fd, s, x),
           wire' = Sent(Current.fd, x), DeleteCurrent
    PROVE  PInv'
PROOF
  <1>1. /\ idx \in Index /\ Current = routines[idx] /\ deferred \subseteq readSet
    BY CurrentEntry DEF PInv, Base, Watched
  <1>2. Advances(s, x)
    BY CurrentAdvances DEF PInv
  <1>3. routines' = RoutineArrayDelIdx(idx) /\ deferred' = deferred \ {routines[idx].fd}
    BY <1>1 DEF DeleteCurrent
  <1>4. routines' \in Seq(Entry) /\ deferred' \subseteq readSet
    BY <1>1, <1>3, OthersMove DEF PInv, Base
  <1>5. /\ Base' /\ Numbered' /\ Attended'
        /\ \A d \in Conn : d # Current.conn \/ x = <<>> => wire'[d] = wire[d]
        /\ UNCHANGED <<table, answers>>
    BY <1>2, <1>4, TickCounts
  <1>6. \A i \in Index : \A e : i # idx /\ e = routines[i] /\ ~Quiet(e.r) => Working(e)'
    BY <1>2, <1>5, OtherWorks
  <1>7. AtWork'
    BY <1>1, <1>3, <1>6, WithoutOne
  <1>8. DeferredOwned'
    BY <1>1, <1>3, WithoutOwned
  <1> QED BY <1>5, <1>7, <1>8 DEF PInv

(* RoutineTick, case by case.                                              *)
LEMMA TickWaitingWorks ==
    ASSUME PInv, RoutineTick, TickWaiting PROVE PInv'
PROOF
  <1> DEFINE r == Current.r
             x == <<>>
  <1>1. /\ idx \in Index /\ Current = routines[idx] /\ r \in RoutineType
        /\ routines \in Seq(Entry)
    BY CurrentEntry DEF PInv, Base, Typed
  <1>2. /\ r.state = "DEFER" /\ Current.fd \in deferred
        /\ routines' = routines /\ deferred' = deferred /\ wire' = wire
    BY DEF TickWaiting
  <1>3. Turns(r, Current.fd, r, x)
    BY StillTurns
  <1>4. wire' = Sent(Current.fd, x)
    BY <1>2 DEF Sent
  <1>5. Keep(r)
    <2>1. routines[idx] = [routines[idx] EXCEPT !.r = routines[idx].r]
      BY <1>1, EntryFields DEF PInv, Base, Entry
    <2>2. routines = [routines EXCEPT ![idx] = routines[idx]]
      BY <1>1
    <2>3. [routines EXCEPT ![idx].r = routines[idx].r] = [routines EXCEPT ![idx] = routines[idx]]
      BY <2>1
    <2> QED BY <1>1, <1>2, <2>2, <2>3 DEF Keep
  <1>6. deferred' = IF r.state = "DEFER" THEN deferred \cup {Current.fd} ELSE deferred
    BY <1>2
  <1> HIDE DEF x
  <1> QED BY <1>2, <1>3, <1>4, <1>5, <1>6, KeepsWorking

LEMMA TickFlushingWorks ==
    ASSUME PInv, RoutineTick, TickFlushing PROVE PInv'
PROOF
  <1> DEFINE r == Current.r
             f == Current.fd
             net == SendOn(f, PendingLen(r.sb))
             s == FlushTurn(r, net)
             x == FlushTurnSent(r, net)
  <1>1. /\ r.state = "FLUSH" \/ (r.state = "DEFER" /\ f \notin deferred)
        /\ Keep(s) /\ wire' = Sent(f, x) /\ deferred' = deferred
    BY DEF TickFlushing, Sent, FlushTurn, FlushTurnSent
  <1>2. Turns(r, f, s, x)
    BY <1>1, FlushTurns
  <1>3. s.state # "DEFER"
    <2>1. r \in RoutineType
      BY CurrentEntry DEF PInv
    <2> HIDE DEF r, net
    <2>2. TickFlush(r, net).state # "DEFER"
      BY <2>1 DEF TickFlush, RoutineType
    <2>3. TickDefer(r, net).state # "DEFER"
      BY <2>1 DEF TickDefer, RoutineType
    <2> QED BY <2>2, <2>3 DEF FlushTurn
  <1> HIDE DEF s, x
  <1> QED BY <1>1, <1>2, <1>3, KeepsWorking

LEMMA TickFileWorks ==
    ASSUME PInv, RoutineTick, TickFile PROVE PInv'
PROOF
  <1> DEFINE r == Current.r
             f == Current.fd
             net == SendOn(f, Len(Block(r)))
             s == TickContinueFile(r, net)
             x == WriteSent(r.sb, Block(r), net)
  <1>1. /\ r.state = "CONTINUE" /\ r.type = "FILE" /\ wire' = Sent(f, x)
        /\ IF s.state = "FAIL" THEN DeleteCurrent
           ELSE /\ Keep(s)
                /\ deferred' = IF s.state = "DEFER" THEN deferred \cup {f} ELSE deferred
    BY DEF TickFile
  <1>2. Turns(r, f, s, x)
    BY <1>1, FileTurns
  <1> HIDE DEF s, x
  <1>3. CASE s.state = "FAIL"
    BY <1>1, <1>2, <1>3, DropsWorking
  <1>4. CASE s.state # "FAIL"
    BY <1>1, <1>2, <1>4, KeepsWorking
  <1> QED BY <1>3, <1>4

LEMMA TickDirWorks ==
    ASSUME PInv, RoutineTick, TickDir PROVE PInv'
PROOF
  <1> DEFINE r == Current.r
             f == Current.fd
             wnet == SendOn(f, Len(Batch(r)))
             left == SendOn(f, BatchTotal(r, wnet))
             s == DirTurn(r, wnet, left)
             x == DirTurnSent(r, wnet, left)
  <1>1. /\ r.state = "CONTINUE" /\ r.type = "DIR" /\ wire' = Sent(f, x)
        /\ IF s.state = "FINISH" THEN DeleteCurrent ELSE Keep(s) /\ deferred' = deferred
    BY DEF TickDir, DirTurn, DirTurnSent, BatchBuffer, BatchSent, BatchTotal, BatchFlush
  <1>2. Turns(r, f, s, x)
    BY <1>1, DirTurns
  <1>3. s.state # "DEFER"
    <2>1. r \in RoutineType
      BY CurrentEntry DEF PInv
    <2> HIDE DEF r, wnet, left
    <2> QED BY <2>1 DEF DirTurn, DirectoryRoutineContinue, RoutineType
  <1> HIDE DEF s, x
  <1>4. CASE s.state = "FINISH"
    BY <1>1, <1>2, <1>4, DropsWorking
  <1>5. CASE s.state # "FINISH"
    BY <1>1, <1>2, <1>3, <1>5, KeepsWorking
  <1> QED BY <1>4, <1>5

LEMMA TickPlainWorks ==
    ASSUME PInv, RoutineTick, TickPlain PROVE PInv'
PROOF
  <1> DEFINE r == Current.r
             s == TickContinuePlain(r)
             x == <<>>
  <1>1. /\ r.state = "CONTINUE" /\ r.type = "ROUTINE" /\ Keep(s)
        /\ deferred' = deferred /\ wire' = wire
    BY DEF TickPlain
  <1>2. Turns(r, Current.fd, s, x)
    BY <1>1, PlainTurns
  <1>3. wire' = Sent(Current.fd, x)
    BY <1>1 DEF Sent
  <1>4. s.state # "DEFER"
    <2>1. r \in RoutineType
      BY CurrentEntry DEF PInv
    <2> QED BY <2>1 DEF TickContinuePlain, RoutineType
  <1> HIDE DEF s, x
  <1> QED BY <1>1, <1>2, <1>3, <1>4, KeepsWorking

LEMMA TickDeleteWorks ==
    ASSUME PInv, RoutineTick, TickDelete PROVE PInv'
PROOF
  <1> DEFINE r == Current.r
             x == <<>>
  <1>1. DeleteCurrent /\ wire' = wire
    BY DEF TickDelete
  <1>2. Turns(r, Current.fd, r, x)
    BY StillTurns
  <1>3. wire' = Sent(Current.fd, x)
    BY <1>1 DEF Sent
  <1> HIDE DEF x
  <1> QED BY <1>1, <1>2, <1>3, DropsWorking

LEMMA RoutineTickWorks ==
    ASSUME PInv, RoutineTick PROVE PInv'
  BY TickWaitingWorks, TickFlushingWorks, TickFileWorks, TickDirWorks, TickPlainWorks,
     TickDeleteWorks DEF RoutineTick

-----------------------------------------------------------------------------
(* The steps that touch neither a routine nor the wire.                    *)
LEMMA SameWork ==
    ASSUME PInv, UNCHANGED <<routines, wire, answers>>,
           \A g \in Fd : Open(g) => table'[g] = table[g], deferred' \subseteq deferred
    PROVE  AtWork' /\ DeferredOwned'
PROOF
  <1>1. Index' = Index
    BY DEF Index
  <1>2. ASSUME NEW i \in Index
        PROVE  Quiet(routines'[i].r) \/ Working(routines[i])'
    <2>1. CASE Quiet(routines[i].r)
      BY <2>1
    <2>2. CASE ~Quiet(routines[i].r)
      <3>1. /\ routines[i].fd \in Fd /\ Open(routines[i].fd)
            /\ table[routines[i].fd] = routines[i].conn
            /\ Sound(routines[i].r, wire[routines[i].conn], answers[routines[i].conn], FALSE)
        BY <2>2, AtWorkNow DEF PInv
      <3>2. table'[routines[i].fd] = routines[i].conn
        BY <3>1
      <3>3. Working(routines[i])'
        BY <3>1, <3>2 DEF Working
      <3> QED BY <3>3
    <2> QED BY <2>1, <2>2
  <1>3. \A i, j \in Index : ~Quiet(routines[i].r) /\ ~Quiet(routines[j].r)
              /\ routines[i].conn = routines[j].conn => i = j
    BY DEF PInv, AtWork
  <1>4. AtWork'
    BY <1>1, <1>2, <1>3 DEF AtWork, Quiet
  <1>5. DeferredOwned'
    BY <1>1 DEF PInv, DeferredOwned
  <1> QED BY <1>4, <1>5

LEMMA ConnectWorks ==
    ASSUME PInv, NEW c \in Conn, Connect(c) PROVE PInv'
PROOF
  <1>1. Base'
    BY ConnectBase DEF PInv
  <1>2. /\ UNCHANGED <<routines, readSet, deferred, table>>
        /\ UNCHANGED <<inbox, wire, taken, eof, broken, asked, answers>>
    BY DEF Connect, serverVars
  <1>3. Numbered' /\ Attended'
    BY <1>2 DEF PInv, Numbered, Attended
  <1>4. AtWork' /\ DeferredOwned'
    BY <1>2, SameWork
  <1> QED BY <1>1, <1>3, <1>4 DEF PInv

(* One request more makes room in the numbering for one answer more.       *)
LEMMA SendRequestWorks ==
    ASSUME Patient, PInv, NEW c \in Conn, SendRequest(c) PROVE PInv'
PROOF
  <1>1. /\ Base' /\ asked[c] < MaxRequests /\ asked'[c] = asked[c] + 1 /\ inbox'[c] # <<>>
        /\ \A d \in Conn : d # c => inbox'[d] = inbox[d] /\ asked'[d] = asked[d]
        /\ UNCHANGED <<routines, readSet, deferred, table, wire, taken, eof, broken, answers>>
    BY RequestArrives DEF PInv
  <1>2. inbox[c] = <<>> /\ taken[c] = Len(answers[c]) /\ ~eof[c]
    BY DEF SendRequest, Answered
  <1>3. /\ Len(answers[c]) \in Nat /\ asked[c] \in Nat /\ Longest \in Nat
    BY ConnFields, Sizes DEF PInv, Base
  <1>4. Len(answers[c]) + Longest <= asked'[c] * Longest
    <2>1. Len(answers[c]) + 0 <= asked[c] * Longest
      BY <1>2 DEF PInv, Numbered
    <2>2. (asked[c] + 1) * Longest = asked[c] * Longest + Longest
      BY <1>3
    <2>3. asked[c] * Longest \in Nat
      <3>1. \A a, b \in Nat : a * b \in Nat
        OBVIOUS
      <3> QED BY <3>1, <1>3
    <2> DEFINE p == asked[c] * Longest
    <2>4. asked'[c] * Longest = p + Longest
      BY <1>1, <2>2
    <2> HIDE DEF p
    <2>5. Len(answers[c]) <= p /\ p \in Nat
      BY <2>1, <2>3, <1>3 DEF p
    <2>6. Len(answers[c]) + Longest <= p + Longest
      BY <2>5, <1>3
    <2> QED BY <2>4, <2>6
  <1>5. Numbered'
    <2> SUFFICES ASSUME NEW d \in Conn
                 PROVE  Len(answers'[d]) + (IF inbox'[d] = <<>> THEN 0 ELSE Longest)
                            <= asked'[d] * Longest
      BY DEF Numbered, Longest
    <2>1. CASE d = c
      BY <2>1, <1>1, <1>4
    <2>2. CASE d # c
      <3>1. Len(answers[d]) + (IF inbox[d] = <<>> THEN 0 ELSE Longest) <= asked[d] * Longest
        BY DEF PInv, Numbered
      <3>2. inbox'[d] = inbox[d] /\ asked'[d] = asked[d] /\ answers' = answers
        BY <2>2, <1>1
      <3> QED BY <3>1, <3>2
    <2> QED BY <2>1, <2>2
  <1>6. Attended'
    <2> SUFFICES ASSUME NEW d \in Conn
                 PROVE  /\ inbox'[d] # <<>> \/ eof[d] => taken[d] = Len(answers[d])
                        /\ eof[d] => inbox'[d] = <<>>
                        /\ broken[d] => eof[d]
      BY <1>1 DEF Attended
    <2>1. CASE d = c
      BY <2>1, <1>2 DEF PInv, Attended
    <2>2. CASE d # c
      BY <2>2, <1>1 DEF PInv, Attended
    <2> QED BY <2>1, <2>2
  <1>7. AtWork' /\ DeferredOwned'
    BY <1>1, SameWork
  <1> QED BY <1>1, <1>5, <1>6, <1>7 DEF PInv

(* A client that reads has not been answered, so it has not gone on.       *)
LEMMA ReadWorks ==
    ASSUME PInv, NEW c \in Conn, Read(c) PROVE PInv'
PROOF
  <1>1. /\ Base' /\ taken[c] < Len(wire[c])
        /\ \A d \in Conn : d # c => taken'[d] = taken[d]
        /\ UNCHANGED <<routines, readSet, deferred, table>>
        /\ UNCHANGED <<inbox, wire, eof, broken, asked, answers>>
    BY ReadBase DEF PInv
  <1>2. ~(inbox[c] # <<>> \/ eof[c])
    <2> SUFFICES ASSUME inbox[c] # <<>> \/ eof[c] PROVE FALSE
      OBVIOUS
    <2>1. wire[c] = answers[c] /\ taken[c] = Len(answers[c])
      BY Caught DEF PInv
    <2>2. taken[c] \in Nat
      BY ConnFields DEF PInv, Base
    <2> QED BY <2>1, <2>2, <1>1
  <1>3. Numbered'
    BY <1>1 DEF PInv, Numbered
  <1>4. Attended'
    <2> SUFFICES ASSUME NEW d \in Conn
                 PROVE  /\ inbox[d] # <<>> \/ eof[d] => taken'[d] = Len(answers[d])
                        /\ eof[d] => inbox[d] = <<>>
                        /\ broken[d] => eof[d]
      BY <1>1 DEF Attended
    <2>1. CASE d = c
      BY <2>1, <1>2 DEF PInv, Attended
    <2>2. CASE d # c
      BY <2>2, <1>1 DEF PInv, Attended
    <2> QED BY <2>1, <2>2
  <1>5. AtWork' /\ DeferredOwned'
    BY <1>1, SameWork
  <1> QED BY <1>1, <1>3, <1>4, <1>5 DEF PInv

LEMMA ShutdownWorks ==
    ASSUME Patient, PInv, NEW c \in Conn, Shutdown(c) PROVE PInv'
PROOF
  <1>1. /\ Base' /\ eof'[c] /\ \A d \in Conn : d # c => eof'[d] = eof[d]
        /\ UNCHANGED <<routines, readSet, deferred, table>>
        /\ UNCHANGED <<inbox, wire, taken, broken, asked, answers>>
    BY ShutdownBase DEF PInv
  <1>2. inbox[c] = <<>> /\ taken[c] = Len(answers[c])
    BY DEF Shutdown, Answered
  <1>3. Numbered'
    BY <1>1 DEF PInv, Numbered
  <1>4. Attended'
    <2> SUFFICES ASSUME NEW d \in Conn
                 PROVE  /\ inbox[d] # <<>> \/ eof'[d] => taken[d] = Len(answers[d])
                        /\ eof'[d] => inbox[d] = <<>>
                        /\ broken[d] => eof'[d]
      BY <1>1 DEF Attended
    <2>1. CASE d = c
      BY <2>1, <1>1, <1>2 DEF PInv, Attended
    <2>2. CASE d # c
      BY <2>2, <1>1 DEF PInv, Attended
    <2> QED BY <2>1, <2>2
  <1>5. AtWork' /\ DeferredOwned'
    BY <1>1, SameWork
  <1> QED BY <1>1, <1>3, <1>4, <1>5 DEF PInv

LEMMA ResetWorks ==
    ASSUME PInv, NEW c \in Conn, Reset(c) PROVE PInv'
PROOF
  <1>1. /\ Base' /\ eof[c] /\ \A d \in Conn : d # c => broken'[d] = broken[d]
        /\ UNCHANGED <<routines, readSet, deferred, table>>
        /\ UNCHANGED <<inbox, wire, taken, eof, asked, answers>>
    BY ResetBase DEF PInv
  <1>2. Numbered'
    BY <1>1 DEF PInv, Numbered
  <1>3. Attended'
    <2> SUFFICES ASSUME NEW d \in Conn
                 PROVE  /\ inbox[d] # <<>> \/ eof[d] => taken[d] = Len(answers[d])
                        /\ eof[d] => inbox[d] = <<>>
                        /\ broken'[d] => eof[d]
      BY <1>1 DEF Attended
    <2>1. CASE d = c
      BY <2>1, <1>1 DEF PInv, Attended
    <2>2. CASE d # c
      BY <2>2, <1>1 DEF PInv, Attended
    <2> QED BY <2>1, <2>2
  <1>4. AtWork' /\ DeferredOwned'
    BY <1>1, SameWork
  <1> QED BY <1>1, <1>2, <1>3, <1>4 DEF PInv

(* The server's own steps outside RoutineTick and the handlers.            *)
LEMMA SelectWorks ==
    ASSUME PInv, Select \/ ScanDone PROVE PInv'
PROOF
  <1>1. /\ Base' /\ UNCHANGED <<routines, readSet, deferred, table>>
        /\ UNCHANGED <<backlog, inbox, wire, taken, eof, broken, asked, answers>>
    BY SelectBase, ScanDoneBase DEF PInv
  <1>2. Numbered' /\ Attended'
    BY <1>1 DEF PInv, Numbered, Attended
  <1>3. AtWork' /\ DeferredOwned'
    BY <1>1, SameWork
  <1> QED BY <1>1, <1>2, <1>3 DEF PInv

LEMMA UndeferWorks ==
    ASSUME PInv, NEW f \in Fd, Undefer(f) PROVE PInv'
PROOF
  <1>1. /\ Base' /\ deferred' = deferred \ {f} /\ UNCHANGED <<routines, readSet, table>>
        /\ UNCHANGED <<backlog, inbox, wire, taken, eof, broken, asked, answers>>
    BY UndeferBase DEF PInv
  <1>2. Numbered' /\ Attended'
    BY <1>1 DEF PInv, Numbered, Attended
  <1>3. deferred' \subseteq deferred
    BY <1>1
  <1>4. AtWork' /\ DeferredOwned'
    BY <1>1, <1>3, SameWork
  <1> QED BY <1>1, <1>2, <1>4 DEF PInv

LEMMA AcceptWorks ==
    ASSUME PInv, Accept PROVE PInv'
PROOF
  <1>1. /\ Base' /\ \A g \in Fd : Open(g) => table'[g] = table[g]
        /\ UNCHANGED <<routines, deferred, inbox, wire, taken, eof, broken, asked, answers>>
    BY AcceptBase DEF PInv
  <1>2. Numbered' /\ Attended'
    BY <1>1 DEF PInv, Numbered, Attended
  <1>3. AtWork' /\ DeferredOwned'
    BY <1>1, SameWork
  <1> QED BY <1>1, <1>2, <1>3 DEF PInv

-----------------------------------------------------------------------------
(* handleConnection: whoever it concerns has been answered, so no routine  *)
(* at work is on its socket.                                               *)

LEMMA HandlerReady ==
    ASSUME PInv, NEW f \in Fd, handleConnection(f), NEW c, c = table[f]
    PROVE  /\ c \in Conn /\ (inbox[c] # <<>> => Ready(f, c))
           /\ asked[c] = 0 => answers[c] = <<>>
           /\ \A i \in Index : ~Quiet(routines[i].r) =>
                  /\ routines[i].conn \in Conn /\ routines[i].fd \in Fd
                  /\ routines[i].conn # c /\ routines[i].fd # f
                  /\ table[routines[i].fd] = routines[i].conn
                  /\ Sound(routines[i].r, wire[routines[i].conn], answers[routines[i].conn], FALSE)
PROOF
  <1>1. c \in Conn /\ (inbox[c] # <<>> \/ eof[c] \/ broken[c])
    BY HandlerShape DEF PInv
  <1>2. /\ wire[c] = answers[c] /\ taken[c] = Len(answers[c])
        /\ \A i \in Index : ~Quiet(routines[i].r) =>
               routines[i].conn # c /\ table[routines[i].fd] # c
    BY <1>1, Caught DEF PInv
  <1>3. /\ Len(answers[c]) \in Nat /\ answers[c] \in Seq(Byte)
        /\ asked[c] \in 0..MaxRequests /\ Longest \in Nat /\ Longest > 0 /\ MaxRequests \in Nat
    <2>1. MaxRequests \in Nat
      BY ServerAssumption
    <2> QED BY <1>1, <2>1, ConnFields, Sizes DEF PInv, Base
  <1>4. /\ Len(answers[c]) + (IF inbox[c] = <<>> THEN 0 ELSE Longest) <= asked[c] * Longest
    BY <1>1 DEF PInv, Numbered
  <1>5. asked[c] = 0 => answers[c] = <<>>
    <2> SUFFICES ASSUME asked[c] = 0 PROVE answers[c] = <<>>
      OBVIOUS
    <2>1. asked[c] * Longest = 0
      BY <1>3
    <2> DEFINE more == IF inbox[c] = <<>> THEN 0 ELSE Longest
    <2>a. more \in Nat
      BY <1>3
    <2>b. Len(answers[c]) + more <= 0
      BY <1>4, <2>1
    <2> HIDE DEF more
    <2>2. Len(answers[c]) = 0
      BY <1>3, <2>a, <2>b
    <2> QED BY <2>2, <1>3, EmptySeq
  <1>6. inbox[c] # <<>> => Ready(f, c)
    <2> SUFFICES ASSUME inbox[c] # <<>> PROVE Ready(f, c)
      OBVIOUS
    <2>1. Len(answers[c]) + Longest <= asked[c] * Longest
      BY <1>4
    <2>2. asked[c] # 0
      <3> SUFFICES ASSUME asked[c] = 0 PROVE FALSE
        OBVIOUS
      <3>1. asked[c] * Longest = 0
        BY <1>3
      <3> QED BY <2>1, <3>1, <1>3
    <2>3. Len(answers[c]) + Longest <= Total
      <3>1. asked[c] * Longest <= MaxRequests * Longest
        <4>1. \A a, b, n \in Nat : a <= b => a * n <= b * n
          OBVIOUS
        <4> QED BY <4>1, <1>3
      <3> DEFINE p == asked[c] * Longest
                 q == MaxRequests * Longest
      <3>2. p \in Nat /\ q \in Nat
        <4>1. \A a, b \in Nat : a * b \in Nat
          OBVIOUS
        <4> QED BY <4>1, <1>3
      <3>3. Len(answers[c]) + Longest <= p /\ p <= q /\ Total = q
        BY <2>1, <3>1 DEF Total
      <3> HIDE DEF p, q
      <3> QED BY <3>2, <3>3, <1>3
    <2>4. f \notin deferred
      <3> SUFFICES ASSUME f \in deferred PROVE FALSE
        OBVIOUS
      <3>1. PICK i \in Index : routines[i].fd = f /\ routines[i].r.state = "DEFER"
        BY DEF PInv, DeferredOwned
      <3>2. ~Quiet(routines[i].r)
        BY <3>1, QuietFacts
      <3> QED BY <3>1, <3>2, <1>2
    <2> QED BY <1>2, <2>2, <2>3, <2>4 DEF Ready
  <1>7. ASSUME NEW i \in Index, ~Quiet(routines[i].r)
        PROVE  /\ routines[i].conn \in Conn /\ routines[i].fd \in Fd
               /\ routines[i].conn # c /\ routines[i].fd # f
               /\ table[routines[i].fd] = routines[i].conn
               /\ Sound(routines[i].r, wire[routines[i].conn], answers[routines[i].conn], FALSE)
    BY <1>2, <1>7, AtWorkNow DEF PInv
  <1> QED BY <1>1, <1>5, <1>6, <1>7

(* The counts after a handler: one answer more for a request read, or the  *)
(* same answers.                                                           *)
LEMMA HandledCounts ==
    ASSUME PInv, NEW f, NEW c, NEW w, NEW A, NEW t, Handled(f, c, w, A, t),
           \/ inbox[c] # <<>> /\ Len(A) <= Len(answers[c]) + Longest
           \/ A = answers[c] /\ t = taken[c]
    PROVE  Numbered' /\ Attended'
PROOF
  <1>1. /\ answers'[c] = A /\ taken'[c] = t /\ inbox'[c] = <<>>
        /\ \A d \in Conn : d # c => /\ answers'[d] = answers[d] /\ taken'[d] = taken[d]
                                    /\ inbox'[d] = inbox[d]
    BY HandledNet DEF PInv
  <1>2. c \in Conn /\ UNCHANGED <<eof, broken, asked>> /\ A \in Seq(Byte)
    BY DEF Handled
  <1>3. /\ Len(answers[c]) + (IF inbox[c] = <<>> THEN 0 ELSE Longest) <= asked[c] * Longest
        /\ inbox[c] # <<>> \/ eof[c] => taken[c] = Len(answers[c])
        /\ eof[c] => inbox[c] = <<>>
        /\ broken[c] => eof[c]
    BY <1>2 DEF PInv, Numbered, Attended
  <1>4. Len(A) <= asked[c] * Longest
    <2> DEFINE p == asked[c] * Longest
    <2>1. Len(A) \in Nat /\ Len(answers[c]) \in Nat /\ Longest \in Nat /\ p \in Nat
      <3>1. asked[c] \in Nat /\ Len(answers[c]) \in Nat
        BY <1>2, ConnFields DEF PInv, Base
      <3>2. \A a, b \in Nat : a * b \in Nat
        OBVIOUS
      <3>3. Longest \in Nat
        BY Sizes
      <3>4. Len(A) \in Nat
        BY <1>2, LenProperties
      <3> QED BY <3>1, <3>2, <3>3, <3>4
    <2>2. /\ inbox[c] # <<>> => Len(answers[c]) + Longest <= p
          /\ inbox[c] = <<>> => Len(answers[c]) + 0 <= p
      BY <1>3
    <2> HIDE DEF p
    <2>3. CASE inbox[c] # <<>> /\ Len(A) <= Len(answers[c]) + Longest
      <3>1. Len(A) <= p
        BY <2>1, <2>2, <2>3
      <3> QED BY <3>1 DEF p
    <2>4. CASE A = answers[c]
      <3>1. Len(answers[c]) <= p
        BY <2>1, <2>2
      <3> QED BY <3>1, <2>4 DEF p
    <2> QED BY <2>3, <2>4
  <1>5. Numbered'
    <2> SUFFICES ASSUME NEW d \in Conn
                 PROVE  Len(answers'[d]) + (IF inbox'[d] = <<>> THEN 0 ELSE Longest)
                            <= asked[d] * Longest
      BY <1>2 DEF Numbered, Longest
    <2>1. CASE d = c
      <3>1. Len(A) + 0 <= asked[c] * Longest
        <4>1. Len(A) \in Nat
          BY <1>2, LenProperties
        <4> QED BY <4>1, <1>4
      <3> QED BY <3>1, <2>1, <1>1
    <2>2. CASE d # c
      <3>1. Len(answers[d]) + (IF inbox[d] = <<>> THEN 0 ELSE Longest) <= asked[d] * Longest
        BY DEF PInv, Numbered
      <3>2. inbox'[d] = inbox[d] /\ answers'[d] = answers[d]
        BY <2>2, <1>1
      <3> QED BY <3>1, <3>2
    <2> QED BY <2>1, <2>2
  <1>6. Attended'
    <2> SUFFICES ASSUME NEW d \in Conn
                 PROVE  /\ inbox'[d] # <<>> \/ eof[d] => taken'[d] = Len(answers'[d])
                        /\ eof[d] => inbox'[d] = <<>>
                        /\ broken[d] => eof[d]
      BY <1>2 DEF Attended
    <2>1. CASE d = c
      <3>1. eof[c] => A = answers[c] /\ t = taken[c]
        BY <1>3
      <3> QED BY <3>1, <2>1, <1>1, <1>3
    <2>2. CASE d # c
      BY <2>2, <1>1 DEF PInv, Attended
    <2> QED BY <2>1, <2>2
  <1> QED BY <1>5, <1>6

(* A routine at work elsewhere is not touched by a handler.                *)
LEMMA WorksElsewhere ==
    ASSUME PInv, NEW f, NEW c, NEW w, NEW A, NEW t, Handled(f, c, w, A, t),
           \A g \in Fd : g # f => table'[g] = table[g],
           NEW i \in Index, ~Quiet(routines[i].r), NEW e, e = routines[i],
           e.conn \in Conn, e.fd \in Fd, e.conn # c, e.fd # f, table[e.fd] = e.conn,
           Sound(e.r, wire[e.conn], answers[e.conn], FALSE)
    PROVE  Working(e)'
PROOF
  <1>1. \A d \in Conn : d # c => wire'[d] = wire[d] /\ answers'[d] = answers[d]
    BY HandledNet DEF PInv
  <1>2. table'[e.fd] = e.conn /\ Sound(e.r, wire'[e.conn], answers'[e.conn], FALSE)
    BY <1>1
  <1> QED BY <1>2 DEF Working

(* The three ways a handler ends.                                          *)
Elsewhere(f, c) ==
    \A i \in Index : ~Quiet(routines[i].r) =>
        /\ routines[i].conn \in Conn /\ routines[i].fd \in Fd
        /\ routines[i].conn # c /\ routines[i].fd # f
        /\ table[routines[i].fd] = routines[i].conn
        /\ Sound(routines[i].r, wire[routines[i].conn], answers[routines[i].conn], FALSE)

LEMMA AllElsewhere ==
    ASSUME PInv, NEW f, NEW c, Elsewhere(f, c), NEW w, NEW A, NEW t, Handled(f, c, w, A, t),
           \A g \in Fd : g # f => table'[g] = table[g]
    PROVE  \A i \in Index : \A e : e = routines[i] /\ ~Quiet(e.r) => Working(e)'
PROOF
  <1> SUFFICES ASSUME NEW i \in Index, NEW e, e = routines[i], ~Quiet(e.r)
               PROVE  Working(e)'
    OBVIOUS
  <1>1. /\ e.conn \in Conn /\ e.fd \in Fd /\ e.conn # c /\ e.fd # f /\ table[e.fd] = e.conn
        /\ Sound(e.r, wire[e.conn], answers[e.conn], FALSE) /\ ~Quiet(routines[i].r)
    BY DEF Elsewhere
  <1> QED BY <1>1, WorksElsewhere

LEMMA StayedWorks ==
    ASSUME PInv, NEW f, NEW c, Elsewhere(f, c), NEW w, NEW A, NEW t, Stayed(f, c, w, A, t)
    PROVE  PInv'
PROOF
  <1>1. /\ Handled(f, c, w, A, t) /\ inbox[c] # <<>> /\ Len(A) <= Len(answers[c]) + Longest
        /\ UNCHANGED <<routines, readSet, deferred, table>>
    BY DEF Stayed
  <1>2. Base'
    <2>1. Base /\ routines' \in Seq(Entry)
      BY <1>1 DEF PInv, Base, Typed
    <2> QED BY <2>1, <1>1, StayBase
  <1>3. Numbered' /\ Attended'
    BY <1>1, HandledCounts
  <1>4. \A i \in Index : \A e : e = routines[i] /\ ~Quiet(e.r) => Working(e)'
    BY <1>1, AllElsewhere
  <1>5. Index' = Index /\ routines' = routines
    BY <1>1 DEF Index
  <1>6. AtWork'
    <2>1. ASSUME NEW i \in Index PROVE Quiet(routines'[i].r) \/ Working(routines[i])'
      BY <1>4, <1>5 DEF Working
    <2>2. \A i, j \in Index : ~Quiet(routines[i].r) /\ ~Quiet(routines[j].r)
                /\ routines[i].conn = routines[j].conn => i = j
      BY DEF PInv, AtWork
    <2> QED BY <2>1, <2>2, <1>5 DEF AtWork, Quiet
  <1>7. DeferredOwned'
    BY <1>1, <1>5 DEF PInv, DeferredOwned
  <1> QED BY <1>2, <1>3, <1>6, <1>7 DEF PInv

LEMMA AddedWorks ==
    ASSUME PInv, NEW f, NEW c, Elsewhere(f, c), NEW s, NEW w, NEW A, NEW t, Added(f, c, s, w, A, t)
    PROVE  PInv'
PROOF
  <1> DEFINE new == [r |-> s, fd |-> f, conn |-> c]
  <1>1. /\ Handled(f, c, w, A, t) /\ inbox[c] # <<>> /\ Len(A) <= Len(answers[c]) + Longest
        /\ Sound(s, w, A, broken[c]) /\ routines' = Append(routines, new)
        /\ UNCHANGED <<readSet, deferred, table>>
    BY DEF Added, Response
  <1>2. f \in Fd /\ c \in Conn /\ c = table[f] /\ s \in RoutineType
    BY <1>1 DEF Handled, Sound
  <1>3. broken[c] = FALSE
    <2>1. broken[c] \in BOOLEAN
      BY <1>2, ConnFields DEF PInv, Base
    <2>2. ~broken[c]
      BY <1>1, <1>2 DEF PInv, Attended
    <2> QED BY <2>1, <2>2
  <1>4. new \in Entry /\ new.r = s /\ new.fd = f /\ new.conn = c
    BY <1>2 DEF Entry
  <1>5. Working(new)'
    <2>1. wire'[c] = w /\ answers'[c] = A
      BY <1>1, HandledNet DEF PInv
    <2>2. Sound(s, w, A, FALSE)
      BY <1>1, <1>3
    <2>3. table'[f] = c
      BY <1>1, <1>2
    <2> QED BY <1>4, <2>1, <2>2, <2>3 DEF Working
  <1> HIDE DEF new
  <1> DEFINE n == Len(routines)
  <1>6. /\ routines' \in Seq(Entry) /\ n \in Nat /\ Index = 1..n /\ Index' = 1..(n + 1)
        /\ routines'[n + 1] = new /\ \A i \in 1..n : routines'[i] = routines[i]
    <2>1. routines \in Seq(Entry)
      BY DEF PInv, Base, Typed
    <2>2. /\ Append(routines, new) \in Seq(Entry) /\ Len(Append(routines, new)) = Len(routines) + 1
          /\ \A i \in 1..Len(routines) : Append(routines, new)[i] = routines[i]
          /\ Append(routines, new)[Len(routines) + 1] = new
      BY <2>1, <1>4, AppendProperties
    <2>3. Len(routines) \in Nat
      BY <2>1, LenProperties
    <2> QED BY <2>2, <2>3, <1>1 DEF Index
  <1> HIDE DEF n
  <1>7. Base'
    <2>1. Base
      BY DEF PInv
    <2> QED BY <2>1, <1>1, <1>6, StayBase
  <1>8. Numbered' /\ Attended'
    BY <1>1, HandledCounts
  <1>9. \A i \in Index : \A e : e = routines[i] /\ ~Quiet(e.r) => Working(e)'
    BY <1>1, AllElsewhere
  <1>10. \A i \in 1..(n + 1) : i = n + 1 \/ i \in 1..n
    BY <1>6
  <1>11. AtWork'
    <2>1. ASSUME NEW i \in Index' PROVE Quiet(routines'[i].r) \/ Working(routines[i])'
      <3>1. CASE i = n + 1
        BY <3>1, <1>5, <1>6 DEF Working
      <3>2. CASE i \in 1..n
        <4>1. routines'[i] = routines[i] /\ i \in Index
          BY <3>2, <1>6
        <4>2. \A e : e = routines'[i] /\ ~Quiet(e.r) => Working(e)'
          BY <4>1, <1>9
        <4> QED BY <4>2 DEF Working
      <3> QED BY <3>1, <3>2, <1>6, <1>10
    <2>2. ASSUME NEW i \in Index', NEW j \in Index', ~Quiet(routines'[i].r),
                 ~Quiet(routines'[j].r), routines'[i].conn = routines'[j].conn
          PROVE  i = j
      <3>1. ASSUME NEW k \in 1..n, ~Quiet(routines'[k].r) PROVE routines'[k].conn # c
        BY <3>1, <1>6 DEF Elsewhere
      <3>2. routines'[n + 1].conn = c
        BY <1>4, <1>6
      <3>3. CASE i \in 1..n /\ j \in 1..n
        BY <3>3, <2>2, <1>6 DEF PInv, AtWork
      <3>4. CASE i = n + 1 /\ j = n + 1
        BY <3>4
      <3>5. CASE (i = n + 1 /\ j \in 1..n) \/ (j = n + 1 /\ i \in 1..n)
        BY <3>5, <3>1, <3>2, <2>2
      <3> QED BY <3>3, <3>4, <3>5, <1>6, <1>10
    <2> QED BY <2>1, <2>2 DEF AtWork, Quiet
  <1>12. DeferredOwned'
    <2> SUFFICES ASSUME NEW g \in deferred
                 PROVE  \E i \in Index' : routines'[i].fd = g /\ routines'[i].r.state = "DEFER"
      BY <1>1 DEF DeferredOwned
    <2>1. PICK i \in Index : routines[i].fd = g /\ routines[i].r.state = "DEFER"
      BY DEF PInv, DeferredOwned
    <2>2. i \in Index' /\ routines'[i] = routines[i]
      BY <1>6
    <2> QED BY <2>1, <2>2
  <1> QED BY <1>7, <1>8, <1>11, <1>12 DEF PInv

LEMMA ClosedWorks ==
    ASSUME PInv, NEW f, NEW c, Elsewhere(f, c), NEW w, NEW A, NEW t, Closed(f, c, w, A, t)
    PROVE  PInv'
PROOF
  <1>1. /\ Handled(f, c, w, A, t) /\ routines' = RoutineArrayDelSocket(f)
        /\ table' = [table EXCEPT ![f] = None] /\ readSet' = readSet \ {f}
        /\ deferred' = deferred \ {f}
        /\ \/ inbox[c] # <<>> /\ Len(A) <= Len(answers[c]) + Longest
           \/ A = answers[c] /\ t = taken[c]
    BY DEF Closed, CloseSocket
  <1>2. Base /\ Typed /\ routines \in Seq(Entry)
    BY DEF PInv, Base, Typed
  <1>3. \/ routines' = routines /\ \A i \in Index : routines[i].fd # f
        \/ \E k \in Index : routines[k].fd = f /\ routines' = RoutineArrayDelIdx(k)
    BY <1>1, SocketRoutine
  <1>4. routines' \in Seq(Entry)
    <2>1. CASE routines' = routines
      BY <2>1, <1>2
    <2>2. CASE \E k \in Index : routines' = RoutineArrayDelIdx(k)
      BY <2>2, <1>2, OthersMove
    <2> QED BY <2>1, <2>2, <1>3
  <1>5. Base' /\ \A g \in Fd : g # f => table'[g] = table[g]
    BY <1>1, <1>2, <1>4, CloseBase
  <1>6. Numbered' /\ Attended'
    BY <1>1, HandledCounts
  <1>7. \A i \in Index : \A e : e = routines[i] /\ ~Quiet(e.r) => Working(e)'
    BY <1>1, <1>5, AllElsewhere
  <1>8. CASE routines' = routines /\ \A i \in Index : routines[i].fd # f
    <2>1. Index' = Index
      BY <1>8 DEF Index
    <2>2. AtWork'
      <3>1. ASSUME NEW i \in Index PROVE Quiet(routines'[i].r) \/ Working(routines[i])'
        BY <1>7, <1>8 DEF Working
      <3>2. \A i, j \in Index : ~Quiet(routines[i].r) /\ ~Quiet(routines[j].r)
                  /\ routines[i].conn = routines[j].conn => i = j
        BY DEF PInv, AtWork
      <3> QED BY <3>1, <3>2, <2>1, <1>8 DEF AtWork, Quiet
    <2>3. DeferredOwned'
      BY <1>1, <1>8, <2>1 DEF PInv, DeferredOwned
    <2> QED BY <2>2, <2>3, <1>5, <1>6 DEF PInv
  <1>9. ASSUME NEW k \in Index, routines[k].fd = f, routines' = RoutineArrayDelIdx(k)
        PROVE  PInv'
    <2>1. AtWork'
      BY <1>7, <1>9, WithoutOne
    <2>2. DeferredOwned'
      BY <1>1, <1>9, WithoutOwned
    <2> QED BY <2>1, <2>2, <1>5, <1>6 DEF PInv
  <1> QED BY <1>3, <1>8, <1>9

LEMMA handleConnectionWorks ==
    ASSUME PInv, NEW f \in Fd, handleConnection(f) PROVE PInv'
PROOF
  <1> DEFINE c == table[f]
  <1>1. /\ inbox[c] # <<>> => Ready(f, c)
        /\ asked[c] = 0 => answers[c] = <<>>
        /\ Elsewhere(f, c)
    BY HandlerReady DEF Elsewhere
  <1>2. Ended(f, c)
    BY <1>1, HandlerEnds DEF PInv
  <1> HIDE DEF c
  <1>3. PICK w, A, t : (\E s : Added(f, c, s, w, A, t)) \/ Stayed(f, c, w, A, t)
                       \/ Closed(f, c, w, A, t)
    BY <1>2 DEF Ended
  <1> QED BY <1>1, <1>3, AddedWorks, StayedWorks, ClosedWorks

-----------------------------------------------------------------------------
(* The invariant.                                                          *)

LEMMA InitWorks ==
    ASSUME Init PROVE PInv
PROOF
  <1>1. Base
    BY InitStep DEF SInv
  <1>2. /\ routines = <<>> /\ deferred = {}
        /\ \A c \in Conn : /\ inbox[c] = <<>> /\ answers[c] = <<>> /\ asked[c] = 0
                           /\ taken[c] = 0 /\ ~eof[c] /\ ~broken[c]
    BY DEF Init
  <1>3. Len(<<>>) = 0 /\ Index = {}
    BY <1>2, EmptySeq DEF Index
  <1>4. Longest \in Nat /\ 0 * Longest = 0
    <2>1. Longest \in Nat
      BY Sizes
    <2> QED BY <2>1
  <1>5. Numbered
    <2> SUFFICES ASSUME NEW c \in Conn
                 PROVE  Len(answers[c]) + (IF inbox[c] = <<>> THEN 0 ELSE Longest)
                            <= asked[c] * Longest
      BY DEF Numbered
    <2>1. Len(answers[c]) = 0 /\ inbox[c] = <<>> /\ asked[c] * Longest = 0
      BY <1>2, <1>3, <1>4
    <2> QED BY <2>1
  <1>6. Attended
    BY <1>2, <1>3 DEF Attended
  <1>7. AtWork /\ DeferredOwned
    BY <1>2, <1>3 DEF AtWork, DeferredOwned
  <1> QED BY <1>1, <1>5, <1>6, <1>7 DEF PInv

LEMMA NextWorks ==
    ASSUME Patient, PInv, Next PROVE PInv'
PROOF
  <1>1. CASE ServerStep
    BY <1>1, RoutineTickWorks, SelectWorks, AcceptWorks, UndeferWorks, handleConnectionWorks
       DEF ServerStep
  <1>2. CASE ClientStep
    BY <1>2, ConnectWorks, SendRequestWorks, ReadWorks, ShutdownWorks, ResetWorks
       DEF ClientStep
  <1> QED BY <1>1, <1>2 DEF Next

LEMMA StutterWorks ==
    ASSUME PInv, UNCHANGED vars PROVE PInv'
PROOF
  <1>1. /\ Base' /\ UNCHANGED <<routines, readSet, deferred, table>>
        /\ UNCHANGED <<backlog, inbox, wire, taken, eof, broken, asked, answers>>
    BY StutterBase DEF PInv
  <1>2. Numbered' /\ Attended'
    BY <1>1 DEF PInv, Numbered, Attended
  <1>3. AtWork' /\ DeferredOwned'
    BY <1>1, SameWork
  <1> QED BY <1>1, <1>2, <1>3 DEF PInv

(* Whatever clients that wait for their answers do, and however many       *)
(* requests they make of a connection, PInv holds: Init, every turn of     *)
(* RoutineTick, select(), accept() and handleConnection keep it.           *)
THEOREM PatientInvariant == ASSUME Patient PROVE Spec => []PInv
PROOF
  <1>1. Init => PInv
    BY InitWorks
  <1>2. PInv /\ [Next]_vars => PInv'
    BY NextWorks, StutterWorks
  <1> QED BY <1>1, <1>2, PTL DEF Spec

-----------------------------------------------------------------------------
(* The theorems: any number of requests on a connection, patient clients.  *)

(* Every field of the loop's state has its type.                           *)
THEOREM KeepAliveTyped == ASSUME Patient PROVE Spec => []TypeOK
PROOF
  <1>1. PInv => TypeOK
    BY BaseTyped DEF PInv
  <1> QED BY <1>1, PatientInvariant, PTL

(* The responses to all the requests of a connection follow each other on  *)
(* it without a gap and without a byte of another client's, even when the  *)
(* routine of an earlier one is still in the array (routine.c:222-320).    *)
THEOREM KeepAliveStreamsIntact == ASSUME Patient PROVE Spec => []StreamIntegrity
PROOF
  <1>1. PInv => StreamIntegrity
    BY BaseStreams DEF PInv
  <1> QED BY <1>1, PatientInvariant, PTL

(* A routine that RoutineArrayDelSocket leaves behind when it removes only *)
(* the first of a socket's two (routine.c:106-118) has nothing to send: it *)
(* cannot write to the client that gets the descriptor next.               *)
THEOREM OrphansNeverSend == ASSUME Patient PROVE Spec => []OrphansSilent
PROOF
  <1>1. PInv => OrphansSilent
    BY QuietFacts DEF PInv, AtWork, Working, OrphansSilent
  <1> QED BY <1>1, PatientInvariant, PTL

(* A socket is in the deferred set only while a routine waits for it, also *)
(* when the array holds a second routine of that socket.                   *)
THEOREM KeepAliveDeferredOwned == ASSUME Patient PROVE Spec => []DeferredOwned
PROOF
  <1>1. PInv => DeferredOwned
    BY DEF PInv
  <1> QED BY <1>1, PatientInvariant, PTL

(* A routine left behind on a closed descriptor never puts it back into a  *)
(* set of select(): the server goes on.                                    *)
THEOREM KeepAliveGoesOn == ASSUME Patient PROVE Spec => []ServerSurvives
PROOF
  <1>1. PInv => ServerSurvives
    BY DEF PInv, Base, Typed, ServerSurvives
  <1> QED BY <1>1, PatientInvariant, PTL

=============================================================================
