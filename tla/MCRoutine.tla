----------------------------- MODULE MCRoutine ------------------------------
(* RoutineSpec for TLC: every byte of the response is distinct.            *)
EXTENDS RoutineSpec

CONSTANTS HeaderLen, BodyLen

MCByte == 1..(HeaderLen + BodyLen)
MCHeader == [i \in 1..HeaderLen |-> i]
MCBody == [i \in 1..BodyLen |-> HeaderLen + i]
=============================================================================
