---------------------------- MODULE MCSendBuffer ----------------------------
(* SendBufferSpec for TLC: two distinguishable bytes, blocks of two.       *)
EXTENDS SendBufferSpec
=============================================================================
