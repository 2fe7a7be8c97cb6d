------------------------------ MODULE Routine -------------------------------
(***************************************************************************)
(* src/src/server/routine.c: a response that is sent a piece at a time.    *)
(*                                                                         *)
(* A Routine is a value (the C struct); the operators are the cases of the *)
(* state machine in RoutineTick, each taking the struct and what the       *)
(* socket did (module SendBuffer).  `left' is the data still to be read:   *)
(* for a file the bytes from the file position to `end', for a directory   *)
(* one element per entry not yet listed and a last one for the footer and  *)
(* the chunk that ends the body, for a plain routine nothing.              *)
(***************************************************************************)
EXTENDS SendBuffer

CONSTANT DirMax   \* entries one call of DirectoryRoutineContinue lists (10)

ASSUME DirMaxAssumption == DirMax \in Nat \ {0}

RoutineKind == {"ROUTINE", "DIR", "FILE"}
RoutineState == {"FLUSH", "CONTINUE", "DEFER", "FINISH", "FAIL"}

RoutineType ==
    [type : RoutineKind, state : RoutineState, sb : SendBufferType, left : Seq(Byte)]

(* RoutineNew, FileRoutineNew and DirectoryRoutineNew: the header is       *)
(* already written into sb.                                                *)
RoutineNew(kind, sb, left) ==
    [type |-> kind, state |-> "FLUSH", sb |-> sb, left |-> left]

Least(a, b) == IF a <= b THEN a ELSE b

First(s, n) == SubSeq(s, 1, n)
Drop(s, n) == SubSeq(s, n + 1, Len(s))

(***************************************************************************)
(* case STATE_DEFER, once the socket has left the deferred set.  A flush   *)
(* that moves nothing is taken for a failure.                              *)
(***************************************************************************)
(* Mutant: STATE_DEFER is not cleared next to the new state.               *)
TickDeferKeepsFlag(r, net) ==
    [r EXCEPT !.sb = sendBufferFlush(r.sb, net),
              !.state = IF FlushReturn(r.sb, net) = 0 THEN "DEFER|FAIL" ELSE "DEFER|FLUSH"]

TickDefer(r, net) ==
    IF r.sb.fail
    THEN [r EXCEPT !.state = "FAIL"]
    ELSE [r EXCEPT !.sb = sendBufferFlush(r.sb, net),
                   !.state = IF FlushReturn(r.sb, net) = 0 \/ net.err
                             THEN "FAIL" ELSE "FLUSH"]

(* case STATE_FLUSH: send what waits, then go on.                          *)
TickFlush(r, net) ==
    IF ~r.sb.open
    THEN [r EXCEPT !.state = "CONTINUE"]
    ELSE [r EXCEPT !.sb = sendBufferFlush(r.sb, net),
                   !.state = IF FlushReturn(r.sb, net) = 0 /\ (r.sb.fail \/ net.err)
                             THEN "FAIL" ELSE "FLUSH"]

(***************************************************************************)
(* case STATE_CONTINUE of a file: FileRoutineContinue reads a block and    *)
(* writes it, seeking back over what the write did not accept.  The memory *)
(* stream is at its end after the write, so platformMemoryStreamTell is    *)
(* its length.                                                             *)
(***************************************************************************)
Block(r) == First(r.left, Least(SB_DATA_SIZE, Len(r.left)))

(* Mutant: seeks back over what the socket did not take, buffered or not.  *)
ContinueRewindsTooFar(r, net) ==
    IF r.left = <<>> THEN r
    ELSE [r EXCEPT !.sb = sendBufferWriteData(r.sb, Block(r), net),
                   !.left = Drop(r.left, Len(WriteSent(r.sb, Block(r), net)))]

FileRoutineContinue(r, net) ==
    IF r.left = <<>> THEN r
    ELSE [r EXCEPT !.sb = sendBufferWriteData(r.sb, Block(r), net),
                   !.left = Drop(r.left, WriteReturn(r.sb, Block(r), net))]

FileRoutineWrote(r, net) == r.left # <<>> /\ WriteReturn(r.sb, Block(r), net) # 0

(* Mutants: the end of the file finishes the routine whatever is buffered, *)
(* or defers it whether anything is buffered or not.                       *)
FinishAtEof(r, net) ==
    LET s == FileRoutineContinue(r, net)
    IN  [s EXCEPT !.state = IF FileRoutineWrote(r, net) THEN "CONTINUE"
                            ELSE IF s.sb.fail THEN "FAIL" ELSE "FINISH"]

DeferAtEof(r, net) ==
    LET s == FileRoutineContinue(r, net)
    IN  [s EXCEPT !.state = IF FileRoutineWrote(r, net) THEN "CONTINUE"
                            ELSE IF s.sb.fail THEN "FAIL" ELSE "DEFER"]

TickContinueFile(r, net) ==
    LET s == FileRoutineContinue(r, net)
    IN  [s EXCEPT !.state =
            IF FileRoutineWrote(r, net)
            THEN IF s.sb.open /\ Len(s.sb.stream) > SB_DATA_SIZE THEN "DEFER" ELSE "CONTINUE"
            ELSE IF s.sb.fail THEN "FAIL"
            ELSE IF s.sb.open THEN "DEFER" ELSE "FINISH"]

(***************************************************************************)
(* case STATE_CONTINUE of a directory: DirectoryRoutineContinue writes up  *)
(* to DirMax entries, or the last entries and the footer, then flushes.    *)
(* It returns 0 at the end of the directory, which finishes the routine    *)
(* whatever the flush left behind; errors are not looked at.               *)
(***************************************************************************)
LastBatch(r) == Len(r.left) <= DirMax

Batch(r) == First(r.left, Least(DirMax, Len(r.left)))

DirectoryRoutineContinue(r, wnet, fnet) ==
    [r EXCEPT !.sb = sendBufferFlush(sendBufferWriteData(r.sb, Batch(r), wnet), fnet),
              !.left = Drop(r.left, Len(Batch(r))),
              !.state = IF LastBatch(r) THEN "FINISH" ELSE "CONTINUE"]

(* case STATE_CONTINUE of a plain routine: there is no body.               *)
TickContinuePlain(r) == [r EXCEPT !.state = "FINISH"]

=============================================================================
