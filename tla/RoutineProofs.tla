--------------------------- MODULE RoutineProofs ----------------------------
(***************************************************************************)
(* For every response, block size and batch size: a routine sends its      *)
(* response in order and without gaps, and a file routine that finishes    *)
(* has sent all of it.                                                     *)
(***************************************************************************)
EXTENDS RoutineSpec, RoutineLemmas

-----------------------------------------------------------------------------
(* The rest of the invariant, next to the routine's being Sound.           *)
Around ==
    /\ r.type \in Kinds /\ deferred \in BOOLEAN /\ broken \in BOOLEAN
    /\ outcome \in {"none", "finish", "fail", "closed"}
    /\ outcome = "finish" => r.state = "FINISH"
    /\ Alive /\ deferred => r.state = "DEFER"

LEMMA RInvSplit == RInv <=> Sound(r, delivered, Response, broken) /\ Around
PROOF
  <1>1. ASSUME r \in RoutineType
        PROVE  r.sb \in SendBufferType /\ r.left \in Seq(Byte)
    BY <1>1 DEF RoutineType
  <1> QED BY <1>1 DEF RInv, TypeOK, BufferShape, FailMeansBroken, NothingSkipped, StateShape, Around,
                      DeferredOnlyInDefer, DeliversPrefix, Sound, Shape, Track, Begins

(* The same of the next state.                                             *)
LEMMA RInvSplitPrime ==
    Sound(r', delivered', Header \o Content(r'.type), broken') /\ Around' => RInv'
  BY DEF RInv, TypeOK, BufferShape, FailMeansBroken, NothingSkipped, StateShape, Around, Response,
         Content, DeferredOnlyInDefer, DeliversPrefix, Sound, Shape, Track, Begins, WellFormed,
         Pending, PendingLen, Alive

(* The response is a sequence of bytes.                                    *)
LEMMA ResponseType ==
    ASSUME NEW kind PROVE Content(kind) \in Seq(Byte) /\ Header \o Content(kind) \in Seq(Byte)
  BY ResponseAssumption, EmptySeq, ConcatProperties DEF Content

(* A deferred routine that wakes keeps the invariant.                      *)
LEMMA DeferStep == RInv /\ Defer => RInv'
PROOF
  <1> SUFFICES ASSUME RInv, Defer PROVE RInv'
    OBVIOUS
  <1>0. Sound(r, delivered, Response, broken) /\ Around /\ Response \in Seq(Byte)
    BY RInvSplit, ResponseType DEF Response
  <1>1. PICK net \in Possible(broken, FlushOutcome(r.sb), PendingLen(r.sb)) :
            /\ r' = TickDefer(r, net)
            /\ delivered' = IF r.sb.fail THEN delivered ELSE delivered \o FlushSent(r.sb, net)
            /\ broken' = IF r.sb.fail THEN broken ELSE broken \/ net.err
    BY DEF Defer
  <1>2. outcome' = outcome /\ deferred' = deferred /\ outcome = "none" /\ ~deferred
    BY DEF Defer, Alive
  <1>3. /\ net \in FlushOutcome(r.sb) /\ (broken /\ PendingLen(r.sb) > 0 => net.k = 0)
        /\ broken \in BOOLEAN /\ net.err \in BOOLEAN /\ r.sb.fail \in BOOLEAN
    BY <1>0, RoutineFields DEF Possible, FlushOutcome, Around, Sound
  <1>4. /\ Sound(r', delivered', Response, broken \/ (~r.sb.fail /\ net.err)) /\ r'.type = r.type
        /\ r'.state \in {"FAIL", "FLUSH"}
    BY <1>0, <1>1, <1>3, DeferLemma
  <1>5. broken' = (broken \/ (~r.sb.fail /\ net.err)) /\ broken' \in BOOLEAN
    BY <1>1, <1>3
  <1>6. Around'
    BY <1>0, <1>2, <1>4, <1>5 DEF Around, Alive
  <1> QED BY <1>4, <1>5, <1>6, RInvSplitPrime DEF Response

(* So does a flushing routine.                                             *)
LEMMA FlushStep == RInv /\ Flush => RInv'
PROOF
  <1> SUFFICES ASSUME RInv, Flush PROVE RInv'
    OBVIOUS
  <1>0. Sound(r, delivered, Response, broken) /\ Around /\ Response \in Seq(Byte)
    BY RInvSplit, ResponseType DEF Response
  <1>1. PICK net \in Possible(broken, FlushOutcome(r.sb), PendingLen(r.sb)) :
            /\ r' = TickFlush(r, net)
            /\ delivered' = delivered \o FlushSent(r.sb, net)
            /\ broken' = (broken \/ net.err)
    BY DEF Flush
  <1>2. outcome' = outcome /\ deferred' = deferred /\ outcome = "none" /\ r.state = "FLUSH"
    BY DEF Flush, Alive
  <1>3. /\ net \in FlushOutcome(r.sb) /\ (broken /\ PendingLen(r.sb) > 0 => net.k = 0)
        /\ broken \in BOOLEAN /\ net.err \in BOOLEAN
    BY <1>0 DEF Possible, FlushOutcome, Around
  <1>4. Sound(r', delivered', Response, broken') /\ r'.type = r.type
    BY <1>0, <1>1, <1>3, FlushingLemma
  <1>5. Around'
    BY <1>0, <1>1, <1>2, <1>3, <1>4 DEF Around, Alive
  <1> QED BY <1>4, <1>5, RInvSplitPrime DEF Response

(* So does sending the next block of a file.                               *)
LEMMA ContinueFileStep == RInv /\ ContinueFile => RInv'
PROOF
  <1> SUFFICES ASSUME RInv, ContinueFile PROVE RInv'
    OBVIOUS
  <1>0. Sound(r, delivered, Response, broken) /\ Around /\ Response \in Seq(Byte)
    BY RInvSplit, ResponseType DEF Response
  <1>1. PICK net \in Possible(broken, SendOutcome(Len(Block(r))), Len(Block(r))) :
            /\ r' = TickContinueFile(r, net)
            /\ delivered' = delivered \o WriteSent(r.sb, Block(r), net)
            /\ broken' = (broken \/ net.err)
    BY DEF ContinueFile
  <1>2. /\ deferred' = (r'.state = "DEFER") /\ r.state = "CONTINUE" /\ r.type = "FILE"
        /\ outcome' = IF r'.state = "FAIL" THEN "fail" ELSE "none"
    BY DEF ContinueFile
  <1>3. /\ net \in SendOutcome(Len(Block(r))) /\ (broken /\ Len(Block(r)) > 0 => net.k = 0)
        /\ broken \in BOOLEAN /\ net.err \in BOOLEAN
    BY <1>0 DEF Possible, SendOutcome, Around
  <1>4. Sound(r', delivered', Response, broken') /\ r'.type = r.type
    BY <1>0, <1>1, <1>2, <1>3, ContinueFileLemma
  <1>5. Around'
    BY <1>0, <1>1, <1>2, <1>3, <1>4 DEF Around, Alive
  <1> QED BY <1>4, <1>5, RInvSplitPrime DEF Response

(* So does listing the next entries of a directory.                        *)
LEMMA ContinueDirStep == RInv /\ ContinueDir => RInv'
PROOF
  <1> SUFFICES ASSUME RInv, ContinueDir PROVE RInv'
    OBVIOUS
  <1>0. Sound(r, delivered, Response, broken) /\ Around /\ Response \in Seq(Byte)
    BY RInvSplit, ResponseType DEF Response
  <1>1. PICK wnet \in Possible(broken, SendsOutcome(Len(Batch(r))), Len(Batch(r))) :
          LET sb == sendBufferWriteData(r.sb, Batch(r), wnet)
          IN  \E fnet \in Possible(broken \/ wnet.err, FlushOutcome(sb), PendingLen(sb)) :
                /\ r' = DirectoryRoutineContinue(r, wnet, fnet)
                /\ delivered' = delivered \o WriteSent(r.sb, Batch(r), wnet) \o FlushSent(sb, fnet)
                /\ broken' = (broken \/ wnet.err \/ fnet.err)
    BY DEF ContinueDir
  <1> DEFINE b == sendBufferWriteData(r.sb, Batch(r), wnet)
  <1>2. PICK fnet \in Possible(broken \/ wnet.err, FlushOutcome(b), PendingLen(b)) :
                /\ r' = DirectoryRoutineContinue(r, wnet, fnet)
                /\ delivered' = (delivered \o WriteSent(r.sb, Batch(r), wnet)) \o FlushSent(b, fnet)
                /\ broken' = (broken \/ wnet.err \/ fnet.err)
    BY <1>1
  <1>3. /\ deferred' = deferred /\ r.state = "CONTINUE" /\ r.type = "DIR"
        /\ outcome' = (IF r'.state = "FINISH" THEN "finish" ELSE "none") /\ outcome = "none"
    BY DEF ContinueDir, Alive
  <1>4. /\ wnet \in SendsOutcome(Len(Batch(r))) /\ (broken /\ Len(Batch(r)) > 0 => wnet.k = 0)
        /\ fnet \in FlushOutcome(b) /\ ((broken \/ wnet.err) /\ PendingLen(b) > 0 => fnet.k = 0)
        /\ broken \in BOOLEAN /\ wnet.err \in BOOLEAN /\ fnet.err \in BOOLEAN
    BY <1>0 DEF Possible, SendsOutcome, FlushOutcome, Around
  <1>5. /\ Sound(r', delivered', Response, broken \/ wnet.err \/ fnet.err) /\ r'.type = r.type
        /\ r'.state \in {"FINISH", "CONTINUE"}
    BY <1>0, <1>2, <1>3, <1>4, ContinueDirLemma
  <1>6. Around'
    BY <1>0, <1>2, <1>3, <1>4, <1>5 DEF Around, Alive
  <1> QED BY <1>2, <1>5, <1>6, RInvSplitPrime DEF Response

(* So do the actions that neither write nor flush.                         *)
LEMMA QuietStep ==
    RInv /\ (ContinuePlain \/ Delete \/ Writable \/ SocketClosed \/ Break \/ UNCHANGED vars) => RInv'
PROOF
  <1> SUFFICES ASSUME RInv,
                      ContinuePlain \/ Delete \/ Writable \/ SocketClosed \/ Break \/ UNCHANGED vars
               PROVE  RInv'
    OBVIOUS
  <1>0. Sound(r, delivered, Response, broken) /\ Around /\ broken \in BOOLEAN
    BY RInvSplit DEF Around
  <1>1. CASE ContinuePlain
    <2>1. /\ r.state = "CONTINUE" /\ r.type = "ROUTINE" /\ r' = TickContinuePlain(r)
          /\ deferred' = deferred /\ broken' = broken /\ outcome' = outcome
          /\ delivered' = delivered /\ outcome = "none"
      BY <1>1 DEF ContinuePlain, Alive
    <2>2. Sound(r', delivered', Response, broken') /\ r'.type = r.type
      BY <1>0, <2>1, ContinuePlainLemma
    <2>3. Around'
      BY <1>0, <2>1, <2>2 DEF Around, Alive
    <2> QED BY <2>2, <2>3, RInvSplitPrime DEF Response
  <1>2. CASE Delete \/ Writable \/ SocketClosed \/ UNCHANGED vars
    <2>1. r' = r /\ broken' = broken /\ delivered' = delivered
      BY <1>2 DEF Delete, Writable, SocketClosed, vars
    <2>2. Around'
      <3>1. CASE Delete
        <4>1. /\ outcome' \in {"finish", "fail"} /\ (outcome' = "finish" => r.state = "FINISH")
              /\ deferred' = FALSE
          BY <3>1 DEF Delete
        <4> QED BY <4>1, <2>1, <1>0 DEF Around, Alive
      <3>2. CASE Writable
        <4>1. outcome' = outcome /\ deferred' = FALSE
          BY <3>2 DEF Writable
        <4> QED BY <4>1, <2>1, <1>0 DEF Around, Alive
      <3>3. CASE SocketClosed
        <4>1. outcome' = "closed" /\ deferred' = FALSE
          BY <3>3 DEF SocketClosed
        <4> QED BY <4>1, <2>1, <1>0 DEF Around, Alive
      <3>4. CASE UNCHANGED vars
        <4>1. outcome' = outcome /\ deferred' = deferred
          BY <3>4 DEF vars
        <4> QED BY <4>1, <2>1, <1>0 DEF Around, Alive
      <3> QED BY <1>2, <3>1, <3>2, <3>3, <3>4
    <2> QED BY <1>0, <2>1, <2>2, RInvSplitPrime DEF Response
  <1>3. CASE Break
    <2>1. /\ r' = r /\ broken' = TRUE /\ delivered' = delivered /\ deferred' = deferred
          /\ outcome' = outcome
      BY <1>3 DEF Break
    <2>2. Around'
      BY <1>0, <2>1 DEF Around, Alive
    <2>3. Sound(r, delivered, Response, TRUE)
      BY <1>0 DEF Sound, Track
    <2> QED BY <2>1, <2>2, <2>3, RInvSplitPrime DEF Response
  <1> QED BY <1>1, <1>2, <1>3

(* A routine just created tracks its response, also when the header could  *)
(* not be written.                                                         *)
LEMMA InitTracks == Init => RInv
PROOF
  <1> SUFFICES ASSUME Init PROVE RInv
    OBVIOUS
  <1>1. PICK kind \in Kinds, net \in SendsOutcome(Len(Header)) :
        /\ r = RoutineNew(kind, sendBufferWriteData(sendBufferNew, Header, net), Content(kind))
        /\ delivered = WriteSent(sendBufferNew, Header, net)
        /\ broken = net.err
        /\ deferred = FALSE
        /\ outcome = "none"
    BY DEF Init
  <1>2. /\ Content(kind) \in Seq(Byte) /\ Header \in Seq(Byte) /\ kind \in RoutineKind
        /\ (kind = "ROUTINE" => Content(kind) = <<>>)
        /\ net \in [k : 0..Len(Header), err : BOOLEAN] /\ net.err \in BOOLEAN
    BY ResponseType, ResponseAssumption DEF SendsOutcome, Content
  <1>3. /\ Sound(r, delivered, Header \o Content(kind), broken)
        /\ r.state = "FLUSH" /\ r.type = kind
    BY <1>1, <1>2, NewRoutineLemma
  <1>4. Around
    BY <1>1, <1>2, <1>3 DEF Around
  <1> QED BY <1>3, <1>4, RInvSplit DEF Response

-----------------------------------------------------------------------------
(* The invariant holds of every routine.                                   *)
THEOREM RoutineInvariant == Spec => []RInv
PROOF
  <1>1. RInv /\ [Next]_vars => RInv'
    BY DeferStep, FlushStep, ContinueFileStep, ContinueDirStep, QuietStep DEF Next, RoutineTick
  <1> QED BY <1>1, InitTracks, PTL DEF Spec

(* The struct keeps its type through every tick, flush and defer.          *)
THEOREM RoutineTyped == Spec => []TypeOK
PROOF
  <1>1. RInv => TypeOK
    BY DEF RInv
  <1> QED BY <1>1, RoutineInvariant, PTL

(* Until an error nothing of the response is skipped, read twice or        *)
(* rewound too far.                                                        *)
THEOREM RoutineSkipsNothing == Spec => []NothingSkipped
PROOF
  <1>1. RInv => NothingSkipped
    BY DEF RInv
  <1> QED BY <1>1, RoutineInvariant, PTL

(* The client never receives anything but a beginning of the response.     *)
THEOREM RoutineDeliversPrefix == Spec => []DeliversPrefix
PROOF
  <1>1. RInv => DeliversPrefix
    BY DEF RInv
  <1> QED BY <1>1, RoutineInvariant, PTL

(* A file routine that ends without failure has sent the whole response.   *)
THEOREM FileFinishComplete == Spec => []FinishComplete
PROOF
  <1>1. RInv => FinishComplete
    <2> SUFFICES ASSUME RInv, r.type = "FILE", r.state = "FINISH" \/ outcome = "finish"
                 PROVE  delivered = Response
      BY DEF FinishComplete
    <2>1. /\ ~r.sb.fail /\ ~r.sb.open /\ r.left = <<>>
          /\ (delivered \o Pending(r.sb)) \o r.left = Response /\ delivered \in Seq(Byte)
          /\ WellFormed(r.sb)
      BY DEF RInv, StateShape, NothingSkipped, TypeOK, BufferShape
    <2>2. Pending(r.sb) = <<>>
      <3>1. r.sb.stream = <<>> /\ r.sb.idx = 0 /\ Len(<<>>) = 0
        BY <2>1, EmptySeq DEF WellFormed
      <3> QED BY <3>1, SubSeqEmpty DEF Pending
    <2> QED BY <2>1, <2>2, ConcatEmptySeq
  <1> QED BY <1>1, RoutineInvariant, PTL

(* A routine that waits for its socket always has something to send, so    *)
(* waking it cannot be mistaken for a failure.                             *)
THEOREM DeferredHasData == Spec => []DeferHasData
PROOF
  <1>1. RInv => DeferHasData
    BY DEF RInv, StateShape, BufferShape, DeferHasData
  <1> QED BY <1>1, RoutineInvariant, PTL

=============================================================================
