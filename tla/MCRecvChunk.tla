---------------------------- MODULE MCRecvChunk -----------------------------
(* RecvChunk for TLC: bodies of no, one and two chunks whose sizes have    *)
(* one, two and three digits.                                              *)
EXTENDS RecvChunk

MCBodies == {<<>>, <<1>>, <<2, 1>>, <<1, 4>>, <<3, 2>>}
=============================================================================
