-------------------------- MODULE SendBufferProofs --------------------------
(***************************************************************************)
(* For every set of bytes, every block size and every bound: the buffer of *)
(* sendbufr.c loses, duplicates and reorders nothing.                      *)
(***************************************************************************)
EXTENDS SendBufferSpec, RoutineLemmas

-----------------------------------------------------------------------------
(* Every step of the buffer preserves the inductive invariant.             *)
LEMMA StepPreserves == IInv /\ [Next]_vars => IInv'
PROOF
  <1> SUFFICES ASSUME IInv, [Next]_vars PROVE IInv'
    OBVIOUS
  <1>0. /\ sb \in SendBufferType /\ WellFormed(sb)
        /\ accepted \in Seq(Byte) /\ delivered \in Seq(Byte)
        /\ accepted = delivered \o Pending(sb)
    BY DEF IInv, TypeOK, StreamShape, NothingLost
  <1>1. ASSUME NEW data \in Data, Write(data) PROVE IInv'
    <2>1. data \in Seq(Byte)
      BY SeqDef DEF Data
    <2>2. PICK net \in SendOutcome(Len(data)) :
            /\ sb' = sendBufferWriteData(sb, data, net)
            /\ delivered' = delivered \o WriteSent(sb, data, net)
            /\ accepted' = accepted \o SubSeq(data, 1, WriteReturn(sb, data, net))
      BY <1>1 DEF Write
    <2> DEFINE acc == SubSeq(data, 1, WriteReturn(sb, data, net))
               sent == WriteSent(sb, data, net)
    <2>3. /\ sb' \in SendBufferType /\ WellFormed(sb')
          /\ acc \in Seq(Byte) /\ sent \in Seq(Byte)
          /\ Pending(sb) \in Seq(Byte) /\ Pending(sb') \in Seq(Byte)
          /\ Pending(sb) \o acc = sent \o Pending(sb')
      BY <1>0, <2>1, <2>2, WriteLemma DEF SendOutcome
    <2> HIDE DEF acc, sent
    <2>4. accepted' = accepted \o acc /\ delivered' = delivered \o sent
      BY <2>2 DEF acc, sent
    <2>5. accepted' \in Seq(Byte) /\ delivered' \in Seq(Byte)
      BY <1>0, <2>3, <2>4, ConcatProperties
    <2>6. accepted' = delivered \o (Pending(sb) \o acc)
      <3>1. delivered \in Seq(Byte) /\ Pending(sb) \in Seq(Byte) /\ acc \in Seq(Byte)
        BY <1>0, <2>3
      <3>2. (delivered \o Pending(sb)) \o acc = delivered \o (Pending(sb) \o acc)
        BY <3>1, ConcatAssociative
      <3> QED BY <3>2, <2>4, <1>0
    <2>7. delivered' \o Pending(sb') = delivered \o (sent \o Pending(sb'))
      <3>1. (delivered \o sent) \o Pending(sb') = delivered \o (sent \o Pending(sb'))
        BY SMTT(30), <1>0, <2>3, ConcatAssociative
      <3> QED BY <3>1, <2>4
    <2> QED BY <2>3, <2>5, <2>6, <2>7 DEF IInv, TypeOK, StreamShape, NothingLost, WellFormed, Pending
  <1>2. ASSUME Flush PROVE IInv'
    <2>1. PICK net \in FlushOutcome(sb) :
            /\ sb' = sendBufferFlush(sb, net)
            /\ delivered' = delivered \o FlushSent(sb, net)
            /\ accepted' = accepted
      BY <1>2 DEF Flush
    <2> DEFINE sent == FlushSent(sb, net)
    <2>2. /\ sb' \in SendBufferType /\ WellFormed(sb') /\ sent \in Seq(Byte)
          /\ Pending(sb) \in Seq(Byte) /\ Pending(sb') \in Seq(Byte)
          /\ Pending(sb) = sent \o Pending(sb')
      BY <1>0, <2>1, FlushLemma
    <2> HIDE DEF sent
    <2>3. delivered' = delivered \o sent
      BY <2>1 DEF sent
    <2>4. delivered' \in Seq(Byte)
      BY <1>0, <2>2, <2>3, ConcatProperties
    <2>5. delivered' \o Pending(sb') = delivered \o (sent \o Pending(sb'))
      BY <1>0, <2>2, <2>3, ConcatAssociative
    <2> QED BY <1>0, <2>1, <2>2, <2>4, <2>5 DEF IInv, TypeOK, StreamShape, NothingLost, WellFormed, Pending
  <1>3. ASSUME GetBuffer PROVE IInv'
    <2>1. /\ sb' \in SendBufferType /\ WellFormed(sb') /\ Pending(sb') = Pending(sb)
          /\ accepted' = accepted /\ delivered' = delivered
      BY <1>0, <1>3, GetBufferLemma DEF GetBuffer
    <2> QED BY <1>0, <2>1 DEF IInv, TypeOK, StreamShape, NothingLost, WellFormed, Pending
  <1>4. CASE UNCHANGED vars
    BY <1>0, <1>4 DEF vars, IInv, TypeOK, StreamShape, NothingLost, WellFormed, Pending
  <1> QED BY <1>1, <1>2, <1>3, <1>4 DEF Next

(* The buffer's struct is always well formed and delivered followed by the *)
(* pending bytes is always what was accepted (sendbufr.c:17-142).          *)
THEOREM BufferCorrect == Spec => []IInv
PROOF
  <1>1. Init => IInv
    BY EmptySeq, SubSeqEmpty, ConcatEmptySeq
       DEF Init, IInv, TypeOK, StreamShape, NothingLost, WellFormed, Pending,
           sendBufferNew, SendBufferType
  <1> QED BY <1>1, StepPreserves, PTL DEF Spec

(* Nothing is lost, duplicated or reordered between write and send().      *)
THEOREM BufferLosesNothing == Spec => []NothingLost
PROOF
  <1>1. IInv => NothingLost
    BY DEF IInv
  <1> QED BY <1>1, BufferCorrect, PTL

(* The struct keeps its type through every write and flush.                *)
THEOREM BufferTyped == Spec => []TypeOK
PROOF
  <1>1. IInv => TypeOK
    BY DEF IInv
  <1> QED BY <1>1, BufferCorrect, PTL

=============================================================================
