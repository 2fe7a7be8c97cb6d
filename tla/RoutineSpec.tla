---------------------------- MODULE RoutineSpec -----------------------------
(***************************************************************************)
(* One routine from the request that creates it to its deletion, driven by *)
(* RoutineTick over a connection that takes as much or as little of each   *)
(* send() as it likes and may break for good at any moment.                *)
(***************************************************************************)
EXTENDS Routine

CONSTANTS Header,   \* the bytes the request handler writes before the routine exists
          Body,     \* what the routine sends: file content, or entries and footer
          Kinds     \* the kinds of routine to start

ASSUME ResponseAssumption ==
    /\ Header \in Seq(Byte)
    /\ Body \in Seq(Byte)
    /\ Kinds \subseteq RoutineKind

VARIABLES r,          \* the Routine
          deferred,   \* its socket is in serverWriteSockets
          broken,     \* the connection is lost: every later send() fails
          outcome,    \* "none" while the routine lives, then how it was deleted
          delivered   \* history: the bytes send() took, in order

vars == <<r, deferred, broken, outcome, delivered>>

Content(kind) == IF kind = "ROUTINE" THEN <<>> ELSE Body

Response == Header \o Content(r.type)

(* A lost connection answers every send() with an error.                   *)
Possible(lost, outcomes, len) ==
    {net \in outcomes : lost /\ len > 0 => net.err /\ net.k = 0}

(* The handler writes the header through a new buffer, ignores whether it  *)
(* succeeded, and adds the routine (handleFile, handleDir, handlePath).    *)
Init ==
    \E kind \in Kinds, net \in SendsOutcome(Len(Header)) :
        /\ r = RoutineNew(kind, sendBufferWriteData(sendBufferNew, Header, net), Content(kind))
        /\ delivered = WriteSent(sendBufferNew, Header, net)
        /\ broken = net.err
        /\ deferred = FALSE
        /\ outcome = "none"

Alive == outcome = "none"

(* STATE_DEFER waits until select() reports the socket writable.           *)
Defer ==
    /\ Alive /\ r.state = "DEFER" /\ ~deferred
    /\ \E net \in Possible(broken, FlushOutcome(r.sb), PendingLen(r.sb)) :
        /\ r' = TickDefer(r, net)
        /\ delivered' = IF r.sb.fail THEN delivered ELSE delivered \o FlushSent(r.sb, net)
        /\ broken' = IF r.sb.fail THEN broken ELSE broken \/ net.err
    /\ UNCHANGED <<deferred, outcome>>

Flush ==
    /\ Alive /\ r.state = "FLUSH"
    /\ \E net \in Possible(broken, FlushOutcome(r.sb), PendingLen(r.sb)) :
        /\ r' = TickFlush(r, net)
        /\ delivered' = delivered \o FlushSent(r.sb, net)
        /\ broken' = (broken \/ net.err)
    /\ UNCHANGED <<deferred, outcome>>

(* A failed file routine falls through to its deletion in the same tick.   *)
ContinueFile ==
    /\ Alive /\ r.state = "CONTINUE" /\ r.type = "FILE"
    /\ \E net \in Possible(broken, SendOutcome(Len(Block(r))), Len(Block(r))) :
        /\ r' = TickContinueFile(r, net)
        /\ delivered' = delivered \o WriteSent(r.sb, Block(r), net)
        /\ broken' = (broken \/ net.err)
    /\ deferred' = (r'.state = "DEFER")
    /\ outcome' = IF r'.state = "FAIL" THEN "fail" ELSE "none"

(* So does a directory routine at the end of its directory.                *)
ContinueDir ==
    /\ Alive /\ r.state = "CONTINUE" /\ r.type = "DIR"
    /\ \E wnet \in Possible(broken, SendsOutcome(Len(Batch(r))), Len(Batch(r))) :
        LET sb == sendBufferWriteData(r.sb, Batch(r), wnet)
        IN  \E fnet \in Possible(broken \/ wnet.err, FlushOutcome(sb), PendingLen(sb)) :
            /\ r' = DirectoryRoutineContinue(r, wnet, fnet)
            /\ delivered' = delivered \o WriteSent(r.sb, Batch(r), wnet) \o FlushSent(sb, fnet)
            /\ broken' = (broken \/ wnet.err \/ fnet.err)
    /\ outcome' = IF r'.state = "FINISH" THEN "finish" ELSE "none"
    /\ UNCHANGED deferred

ContinuePlain ==
    /\ Alive /\ r.state = "CONTINUE" /\ r.type = "ROUTINE"
    /\ r' = TickContinuePlain(r)
    /\ UNCHANGED <<deferred, broken, outcome, delivered>>

(* STATE_FINISH and STATE_FAIL: the buffer is freed with what it holds.    *)
Delete ==
    /\ Alive /\ r.state \in {"FINISH", "FAIL"}
    /\ outcome' = IF r.state = "FAIL" THEN "fail" ELSE "finish"
    /\ deferred' = FALSE
    /\ UNCHANGED <<r, broken, delivered>>

(* serverTick: the socket became writable; or it was closed and            *)
(* RoutineArrayDelSocket removed the routine.                              *)
Writable ==
    /\ Alive /\ deferred
    /\ deferred' = FALSE
    /\ UNCHANGED <<r, broken, outcome, delivered>>

SocketClosed ==
    /\ Alive
    /\ outcome' = "closed"
    /\ deferred' = FALSE
    /\ UNCHANGED <<r, broken, delivered>>

(* External: the peer resets the connection.                               *)
Break ==
    /\ ~broken
    /\ broken' = TRUE
    /\ UNCHANGED <<r, deferred, outcome, delivered>>

RoutineTick == Defer \/ Flush \/ ContinueFile \/ ContinueDir \/ ContinuePlain \/ Delete

Next == RoutineTick \/ Writable \/ SocketClosed \/ Break

Spec == Init /\ [][Next]_vars

-----------------------------------------------------------------------------
TypeOK ==
    /\ r \in RoutineType /\ r.type \in Kinds
    /\ deferred \in BOOLEAN /\ broken \in BOOLEAN
    /\ outcome \in {"none", "finish", "fail", "closed"}
    /\ delivered \in Seq(Byte)

(* The buffer is well formed and, when there is a memory stream, it still  *)
(* holds unsent bytes.                                                     *)
BufferShape == WellFormed(r.sb) /\ (r.sb.open => PendingLen(r.sb) > 0)

(* Only a lost connection makes a buffer fail.                             *)
FailMeansBroken == r.sb.fail => broken

(* Until an error, what was sent, what waits in the buffer and what is     *)
(* still to be read make up the response: no block is skipped, read twice  *)
(* or rewound too far (routine.c:118-141).                                 *)
NothingSkipped ==
    ~r.sb.fail => delivered \o Pending(r.sb) \o r.left = Response

(* Whatever fails, the client has received a beginning of the response:    *)
(* nothing is sent after a gap.                                            *)
DeliversPrefix ==
    Len(delivered) <= Len(Response) /\ \A i \in 1..Len(delivered) : delivered[i] = Response[i]

(* A routine that waits for its socket has something to send: otherwise    *)
(* the flush in routine.c:246 returns 0 and a healthy transfer would be    *)
(* abandoned as failed.                                                    *)
DeferHasData == r.state = "DEFER" => r.sb.open /\ PendingLen(r.sb) > 0

(* A routine in the deferred set is in STATE_DEFER, so leaving the set     *)
(* always wakes it.                                                        *)
DeferredOnlyInDefer == Alive /\ deferred => r.state = "DEFER"

(* A file routine that ends in STATE_FINISH, reported with response 0 to   *)
(* the finish event, has put the whole response on the wire.               *)
FinishComplete ==
    r.type = "FILE" /\ (r.state = "FINISH" \/ outcome = "finish") => delivered = Response

(* What the states say about the struct, so that the invariants above are  *)
(* inductive.                                                              *)
StateShape ==
    /\ outcome = "finish" => r.state = "FINISH"
    /\ r.state = "DEFER" => r.sb.open
    /\ r.type = "ROUTINE" => r.left = <<>> /\ (r.state \in {"CONTINUE", "FINISH"} => ~r.sb.open)
    /\ r.type = "FILE" /\ r.state = "FINISH" => ~r.sb.fail /\ ~r.sb.open /\ r.left = <<>>

RInv ==
    /\ TypeOK /\ BufferShape /\ FailMeansBroken /\ StateShape
    /\ NothingSkipped /\ DeliversPrefix /\ DeferredOnlyInDefer

=============================================================================
