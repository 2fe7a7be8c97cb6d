-------------------------------- MODULE Poll --------------------------------
(***************************************************************************)
(* The other multiplexer: serverTick of src/src/server/mltiplex/poll.c,    *)
(* with which the server can be built instead of select.c, and its three   *)
(* arrays of descriptors.                                                  *)
(*                                                                         *)
(* What a routine sends is only counted: `left' blocks, on a socket that   *)
(* takes one until the peer has read it.  The functions of the arrays read *)
(* and move foreign memory as soon as an array has two elements, and       *)
(* resize the wrong one: what follows is undefined and ends a behaviour.   *)
(***************************************************************************)
EXTENDS Integers, Sequences, FiniteSets, SequencesExt

CONSTANTS
    Fd,            \* descriptors accept() hands out, lowest free first
    Blocks,        \* blocks of the file that is served
    OutReported,   \* POLL_OUT is POLLOUT; with <signal.h> it is SI_POLL's 2, which is POLLPRI
    MaxConnections \* bound: connections made

VARIABLES
    servePoll, deferredPoll,   \* the arrays; <<>> is the null pointer
    undefined,                 \* a function of the arrays left the arrays
    routine,                   \* globalRoutineArray by descriptor: blocks left and state
    peer,                      \* the other end of a descriptor: "none", "open" or "closed"
    inbox,                     \* a request waits to be read
    full,                      \* the socket takes no more
    waiting,                   \* connections to accept
    made,                      \* bound: connections made
    pc                         \* the phase of serverTick and the elements left in it

arrays == <<servePoll, deferredPoll, undefined>>
net == <<peer, inbox, full, waiting, made>>
vars == <<arrays, routine, net, pc>>

NoRoutine == [state |-> "none", left |-> 0]
Phase(p, todo) == [phase |-> p, todo |-> todo]

Init ==
    /\ servePoll = <<>> /\ deferredPoll = <<>> /\ undefined = FALSE
    /\ routine = [fd \in Fd |-> NoRoutine]
    /\ peer = [fd \in Fd |-> "none"] /\ inbox = [fd \in Fd |-> FALSE] /\ full = [fd \in Fd |-> FALSE]
    /\ waiting = 0 /\ made = 0
    /\ pc = Phase("deferred", <<>>)

-----------------------------------------------------------------------------
(* The arrays.  An array of one element is handled as it should be.        *)

(* PollArrayAdd reallocates servePoll, whichever array it adds to.         *)
ServeAdd(fd) == servePoll' = Append(servePoll, fd) /\ UNCHANGED <<deferredPoll, undefined>>

serverDeferredSocketAdd(fd) ==
    IF deferredPoll = <<>> THEN deferredPoll' = <<fd>> /\ UNCHANGED <<servePoll, undefined>>
    ELSE undefined' = TRUE /\ UNCHANGED <<servePoll, deferredPoll>>

(* PollArrayDel and PollArrayContains take the elements after the first    *)
(* from behind the pointer and not from behind what it points to.          *)
PollArrayDel(array, fd) == IF array = <<fd>> THEN <<>> ELSE array

ServeDel(fd) ==
    /\ servePoll' = PollArrayDel(servePoll, fd)
    /\ undefined' = (Len(servePoll) > 1)
    /\ UNCHANGED deferredPoll

serverDeferredSocketRemove(fd) ==
    /\ deferredPoll' = PollArrayDel(deferredPoll, fd)
    /\ UNCHANGED <<servePoll, undefined>>

serverDeferredSocketExists(fd) == deferredPoll = <<fd>>

-----------------------------------------------------------------------------
(* serverTick, one element at a time.                                      *)

Running(phase) == ~undefined /\ pc.phase = phase
Element == Head(pc.todo)
Done == pc' = [pc EXCEPT !.todo = Tail(@)]

(* poll() is asked about a whole array, then each element is looked at.    *)
NextPhase(from, to, todo) ==
    /\ Running(from) /\ pc.todo = <<>>
    /\ pc' = Phase(to, todo)
    /\ UNCHANGED <<arrays, routine, net>>

Routines == SetToSortSeq({fd \in Fd : routine[fd].state # "none"}, <)

(* ProcessDeferredPoll.  A descriptor that was closed is never writable.   *)
Writable(fd) == (peer[fd] = "open" /\ ~full[fd]) \/ peer[fd] = "closed"

ProcessDeferredPoll ==
    /\ Running("deferred") /\ pc.todo # <<>>
    /\ IF OutReported /\ Writable(Element) THEN serverDeferredSocketRemove(Element) ELSE UNCHANGED arrays
    /\ Done
    /\ UNCHANGED <<routine, net>>

(* RoutineTick for a file: defer when the socket is full, flush when the   *)
(* socket is no longer deferred, finish when nothing is left.              *)
TickFile ==
    /\ Running("routines") /\ pc.todo # <<>>
    /\ LET fd == Element
           r == routine[fd]
       IN  \/ /\ r.state = "defer" /\ serverDeferredSocketExists(fd)
              /\ UNCHANGED <<arrays, routine, full>>
           \/ /\ r.state = "defer" /\ ~serverDeferredSocketExists(fd)
              /\ routine' = [routine EXCEPT ![fd].state = "continue"]
              /\ UNCHANGED <<arrays, full>>
           \/ /\ r.state = "continue" /\ r.left > 0 /\ peer[fd] = "open" /\ ~full[fd]
              /\ routine' = [routine EXCEPT ![fd].left = @ - 1]
              /\ full' = [full EXCEPT ![fd] = TRUE]
              /\ UNCHANGED arrays
           \/ /\ r.state = "continue" /\ r.left > 0 /\ peer[fd] = "open" /\ full[fd]
              /\ routine' = [routine EXCEPT ![fd].state = "defer"]
              /\ serverDeferredSocketAdd(fd)
              /\ UNCHANGED full
           \/ /\ r.state = "continue" /\ (r.left = 0 \/ peer[fd] # "open")
              /\ routine' = [routine EXCEPT ![fd] = NoRoutine]
              /\ serverDeferredSocketRemove(fd)
              /\ UNCHANGED full
    /\ Done
    /\ UNCHANGED <<peer, inbox, waiting, made>>

(* ProcessServePoll: a request begins a routine; the end of the connection *)
(* drops the routine and closes, and forgets the array of the deferred.    *)
ProcessServePoll ==
    /\ Running("serve") /\ pc.todo # <<>>
    /\ LET fd == Element
       IN  \/ /\ fd \in Fd /\ inbox[fd]
              /\ inbox' = [inbox EXCEPT ![fd] = FALSE]
              /\ routine' = [routine EXCEPT ![fd] = [state |-> "continue", left |-> Blocks]]
              /\ UNCHANGED <<arrays, peer, full>>
           \/ /\ fd \in Fd /\ ~inbox[fd] /\ peer[fd] = "closed"
              /\ routine' = [routine EXCEPT ![fd] = NoRoutine]
              /\ peer' = [peer EXCEPT ![fd] = "none"]
              /\ full' = [full EXCEPT ![fd] = FALSE]
              /\ ServeDel(fd)
              /\ UNCHANGED inbox
           \/ /\ fd \notin Fd \/ (~inbox[fd] /\ peer[fd] # "closed")
              /\ UNCHANGED <<arrays, routine, peer, inbox, full>>
    /\ Done
    /\ UNCHANGED <<waiting, made>>

(* ProcessListeningPoll: a failed accept() adds -1, which poll() skips.    *)
ProcessListeningPoll ==
    /\ Running("listen") /\ pc.todo # <<>>
    /\ LET free == {fd \in Fd : peer[fd] = "none"}
           fd == IF free = {} THEN -1 ELSE CHOOSE i \in free : \A j \in free : i <= j
       IN  IF waiting = 0 THEN UNCHANGED <<arrays, peer, waiting>>
           ELSE /\ ServeAdd(fd)
                /\ waiting' = IF free = {} THEN waiting ELSE waiting - 1
                /\ peer' = IF free = {} THEN peer ELSE [peer EXCEPT ![fd] = "open"]
    /\ Done
    /\ UNCHANGED <<routine, inbox, full, made>>

serverTick ==
    \/ NextPhase("deferred", "routines", Routines)
    \/ NextPhase("routines", "serve", servePoll)
    \/ NextPhase("serve", "listen", <<0>>)
    \/ NextPhase("listen", "deferred", deferredPoll)
    \/ ProcessDeferredPoll \/ TickFile \/ ProcessServePoll \/ ProcessListeningPoll

-----------------------------------------------------------------------------
(* External: the clients.                                                  *)
Connect ==
    /\ ~undefined /\ made < MaxConnections
    /\ made' = made + 1 /\ waiting' = waiting + 1
    /\ UNCHANGED <<arrays, routine, peer, inbox, full, pc>>

Ask(fd) ==
    /\ ~undefined /\ peer[fd] = "open" /\ ~inbox[fd] /\ routine[fd].state = "none"
    /\ inbox' = [inbox EXCEPT ![fd] = TRUE]
    /\ UNCHANGED <<arrays, routine, peer, full, waiting, made, pc>>

Read(fd) ==
    /\ ~undefined /\ peer[fd] = "open" /\ full[fd]
    /\ full' = [full EXCEPT ![fd] = FALSE]
    /\ UNCHANGED <<arrays, routine, peer, inbox, waiting, made, pc>>

Hangup(fd) ==
    /\ ~undefined /\ peer[fd] = "open"
    /\ peer' = [peer EXCEPT ![fd] = "closed"]
    /\ UNCHANGED <<arrays, routine, inbox, full, waiting, made, pc>>

Next == serverTick \/ Connect \/ \E fd \in Fd : Ask(fd) \/ Read(fd) \/ Hangup(fd)

(* The loop runs on, and the clients read what they are sent.              *)
Fairness == WF_vars(serverTick) /\ \A fd \in Fd : WF_vars(Read(fd))

Spec == Init /\ [][Next]_vars /\ Fairness

-----------------------------------------------------------------------------
(* A transfer that was put off until the socket takes more goes on when it *)
(* does, or ends with its connection.                                      *)
DeferredResumes ==
    \A fd \in Fd : (routine[fd].state = "defer") ~> (routine[fd].state # "defer" \/ undefined)

=============================================================================
