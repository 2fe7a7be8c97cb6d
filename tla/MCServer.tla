------------------------------ MODULE MCServer ------------------------------
(* Server for TLC: a byte is the connection it is meant for and its place. *)
EXTENDS Server

CONSTANT MaxStream   \* bound: bytes of all responses on one connection

MCByte == Conn \X (1..MaxStream)
=============================================================================
