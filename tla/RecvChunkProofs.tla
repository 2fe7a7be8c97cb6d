-------------------------- MODULE RecvChunkProofs ---------------------------
(***************************************************************************)
(* Proofs about module RecvChunk, for any bodies, any radix, any sizes of  *)
(* the peek and of the reader's block, however the stream is cut and       *)
(* wherever the connection is closed or reset: what is decoded is the      *)
(* beginning of the content, a response that is taken for complete is      *)
(* complete, between two calls the buffer is in step with the stream, and  *)
(* a sound stream is refused only where a long size comes in two pieces.   *)
(***************************************************************************)
EXTENDS RecvChunk, SequenceTheorems, WellFoundedInduction, TLAPS

-----------------------------------------------------------------------------
(* The inductive invariant.  Take the chunk line by line out of the stream *)
(* as they are met: at any time there is the content up to the end of some *)
(* chunk i, and behind it the rest of the stream.                          *)

(* What stands behind the data of chunk i: the line break and the chunks   *)
(* that follow, or after the last of them was met the last line break,     *)
(* which the parser of the buffer may have taken for an empty size.        *)
Break(i) == IF i = 0 THEN <<>> ELSE EOL

Tails(i) ==
    IF mode = "complete" THEN {EOL}
    ELSE IF lastHeld THEN {EOL} \cup (IF i = 0 THEN {<<>>} ELSE {})
    ELSE {Break(i) \o Onward(body)[i + 1]}

Before(i) == First(Content(body), Ends(body)[i])

Whole(i, t) == Before(i) \o t

Got == out \o buf

(* What the client has and what it has not is the whole, until a reset     *)
(* loses the latter.                                                       *)
Flows(i, t) ==
    /\ lastHeld \/ mode = "complete" => i = Len(body)
    /\ IsPrefix(Got, Whole(i, t))
    /\ link # "rst" => Whole(i, t) = Got \o (conn \o sending)

ParserPc == {"parse", "spin", "crash"}

(* The parser of the buffer has met the sizes of the chunks up to i.       *)
Parsing(i) ==
    /\ mode = "chunk" /\ out = <<>> /\ total = Ends(body)[i]
    /\ i = 0 /\ ~lastHeld => buf # <<>>

(* The readers' calls are in chunk i, before the first, or done.           *)
Reading(i) ==
    /\ pc = "iterate" => next >= 0 /\ mode = "chunk"
    /\ pc = "head" => next <= 0 /\ mode = "chunk"
    /\ IF mode = "complete" THEN Got = Content(body) /\ next = -1
       ELSE IF next = -1 THEN i = 0 /\ ~lastHeld /\ Got = <<>>
       ELSE Len(Got) + next = Ends(body)[i] /\ (i = 0 => lastHeld)

InStream ==
    mode # "unknown" =>
        /\ link # "off"
        /\ \E i \in 0..Len(body) : \E t \in Tails(i) :
            /\ Flows(i, t)
            /\ IF pc \in ParserPc THEN Parsing(i) ELSE Reading(i)

(* After the parser gave up nothing is held and nothing was read.          *)
GaveUp ==
    mode = "unknown" => Got = <<>> /\ pc \in {"idle", "returned", "done"}

(* A reset takes with it what recv() had not taken.                        *)
ResetEmpty == link = "rst" => conn = <<>>

RInv == TypeOK /\ InStream /\ GaveUp /\ ResetEmpty /\ NoFalseAlarm

-----------------------------------------------------------------------------
(* Induction, for sets of numbers, and functions defined by it.            *)

(* What holds of 0 and goes on from one number to the next holds up to n.  *)
LEMMA UpTo ==
    ASSUME NEW n \in Nat, NEW S, 0 \in S, \A i \in 0..(n - 1) : i \in S => i + 1 \in S
    PROVE  0..n \subseteq S
PROOF
  <1> DEFINE T == {i \in 0..n : i \notin S}
  <1> SUFFICES ASSUME T # {} PROVE FALSE
    OBVIOUS
  <1>1. T \subseteq Nat
    OBVIOUS
  <1>2. PICK m \in T : \A k \in T : ~(k < m)
    <2> HIDE DEF T
    <2>1. PICK m \in T : \A k \in T : <<k, m>> \notin OpToRel(<, Nat)
      BY <1>1, NatLessThanWellFounded, WFMin
    <2>2. \A k \in T : ~(k < m)
      BY <1>1, <2>1 DEF OpToRel
    <2> QED BY <2>2
  <1>3. m \in Nat /\ m # 0 /\ m <= n /\ m \notin S
    OBVIOUS
  <1>4. m - 1 \in 0..(n - 1) /\ m - 1 \in S
    BY <1>2, <1>3
  <1> QED BY <1>3, <1>4

(* g starts with a and goes on from each number to the next by F.          *)
Goes(g, n, T, a, F) ==
    g \in [0..n -> T] /\ g[0] = a /\ \A i \in 1..n : g[i] = F[i][g[i - 1]]

(* There is such a function.                                               *)
LEMMA Recursion ==
    ASSUME NEW n \in Nat, NEW T, NEW a \in T, NEW F \in [1..n -> [T -> T]]
    PROVE  \E g : Goes(g, n, T, a, F)
PROOF
  <1> DEFINE Good(m, g) == g[0] = a /\ \A i \in 1..m : g[i] = F[i][g[i - 1]]
             S == {m \in 0..n : \E g \in [0..m -> T] : Good(m, g)}
  <1>1. 0 \in S
    <2> DEFINE g == [i \in 0..0 |-> a]
    <2>1. g \in [0..0 -> T] /\ Good(0, g)
      OBVIOUS
    <2> HIDE DEF g, Good
    <2> QED BY <2>1
  <1>2. ASSUME NEW m \in 0..(n - 1), m \in S PROVE m + 1 \in S
    <2>1. PICK g \in [0..m -> T] : Good(m, g)
      BY <1>2
    <2> DEFINE h == [i \in 0..(m + 1) |-> IF i <= m THEN g[i] ELSE F[m + 1][g[m]]]
    <2>2. m \in Nat /\ m + 1 \in 1..n /\ g[m] \in T
      OBVIOUS
    <2>3. F[m + 1][g[m]] \in T
      BY <2>2
    <2>4. h \in [0..(m + 1) -> T]
      BY <2>2, <2>3
    <2>5. h[0] = a
      BY <2>1, <2>2
    <2>6. ASSUME NEW i \in 1..(m + 1) PROVE h[i] = F[i][h[i - 1]]
      <3>1. CASE i <= m
        <4>1. i \in 1..m /\ i - 1 \in 0..m /\ i \in 0..m
          BY <3>1, <2>2
        <4>2. h[i] = g[i] /\ h[i - 1] = g[i - 1]
          BY <4>1, <2>2
        <4> QED BY <4>1, <4>2, <2>1
      <3>2. CASE i = m + 1
        <4>1. h[i] = F[m + 1][g[m]] /\ h[i - 1] = g[m]
          BY <3>2, <2>2
        <4> QED BY <3>2, <4>1
      <3> QED BY <3>1, <3>2, <2>2
    <2>7. m + 1 \in 0..n
      BY <2>2
    <2> HIDE DEF h
    <2> QED BY <2>4, <2>5, <2>6, <2>7
  <1>3. n \in S
    <2> HIDE DEF S
    <2>1. 0..n \subseteq S
      BY <1>1, <1>2, UpTo
    <2> QED BY <2>1
  <1> QED BY <1>3 DEF Goes

-----------------------------------------------------------------------------
(* What the recursive definitions of the model compute.                    *)

(* The chunks of a body end behind one another.                            *)
LEMMA EndsRecursive ==
    ASSUME NEW s \in Seq(Nat \ {0})
    PROVE  /\ Ends(s) \in [0..Len(s) -> Nat] /\ Ends(s)[0] = 0
           /\ \A i \in 1..Len(s) : Ends(s)[i] = Ends(s)[i - 1] + s[i]
PROOF
  <1> DEFINE n == Len(s)
             F == [i \in 1..n |-> [v \in Nat |-> v + s[i]]]
             Is(g) == g = [i \in 0..n |-> IF i = 0 THEN 0 ELSE g[i - 1] + s[i]]
  <1>1. n \in Nat /\ \A i \in 1..n : s[i] \in Nat \ {0}
    BY LenProperties, ElementOfSeq
  <1>2. PICK g \in [0..n -> Nat] : g[0] = 0 /\ \A i \in 1..n : g[i] = F[i][g[i - 1]]
    <2>1. F \in [1..n -> [Nat -> Nat]]
      BY <1>1
    <2>2. PICK g : Goes(g, n, Nat, 0, F)
      <3>1. n \in Nat /\ 0 \in Nat
        BY <1>1
      <3> HIDE DEF F, n, Is
      <3> QED BY <2>1, <3>1, Recursion
    <2> QED BY <2>2 DEF Goes
  <1>3. ASSUME NEW i \in 1..n PROVE g[i] = g[i - 1] + s[i]
    <2>1. g[i - 1] \in Nat
      BY <1>1
    <2> QED BY <1>2, <2>1
  <1>4. Is(g)
    <2> HIDE DEF n
    <2> QED BY <1>1, <1>2, <1>3
  <1>5. Ends(s) = CHOOSE f : Is(f)
    BY DEF Ends
  <1>6. Is(Ends(s))
    <2> HIDE DEF Is
    <2> QED BY <1>4, <1>5
  <1>7. \A i \in 0..n : Ends(s)[i] = IF i = 0 THEN 0 ELSE Ends(s)[i - 1] + s[i]
    <2> HIDE DEF n
    <2> QED BY <1>6
  <1>8. \A i \in 0..n : Ends(s)[i] \in Nat
    <2> DEFINE S == {i \in 0..n : Ends(s)[i] \in Nat}
    <2>1. 0 \in S
      BY <1>1, <1>7
    <2>2. \A i \in 0..(n - 1) : i \in S => i + 1 \in S
      <3> HIDE DEF n
      <3> TAKE i \in 0..(n - 1)
      <3>1. i + 1 \in 1..n /\ (i + 1) - 1 = i /\ i + 1 \in 0..n /\ i + 1 # 0
        BY <1>1
      <3>2. Ends(s)[i + 1] = Ends(s)[i] + s[i + 1]
        BY <1>7, <3>1
      <3> QED BY <1>1, <3>1, <3>2
    <2>3. 0..n \subseteq S
      <3> HIDE DEF S, n
      <3> QED BY <1>1, <2>1, <2>2, UpTo
    <2> QED BY <2>3
  <1>9. Ends(s) = [i \in 0..n |-> Ends(s)[i]]
    <2> HIDE DEF n
    <2> QED BY <1>6
  <1> HIDE DEF n
  <1>10. Ends(s) \in [0..n -> Nat]
    BY <1>8, <1>9
  <1> QED BY <1>1, <1>7, <1>10 DEF n

(* The value of a size line is built digit by digit.                       *)
LEMMA ValueRecursive ==
    ASSUME NEW s \in Seq(Byte)
    PROVE  \E V \in [0..Len(s) -> Nat] :
              /\ V[0] = 0 /\ \A i \in 1..Len(s) : V[i] = V[i - 1] * Radix + s[i].n
              /\ HexToSize(s) = V[Len(s)]
PROOF
  <1> DEFINE n == Len(s)
             F == [i \in 1..n |-> [v \in Nat |-> v * Radix + s[i].n]]
             Is(g) == g = [i \in 0..n |-> IF i = 0 THEN 0 ELSE g[i - 1] * Radix + s[i].n]
             V == CHOOSE f : Is(f)
  <1>1. n \in Nat /\ Radix \in Nat /\ \A i \in 1..n : s[i].n \in Nat
    <2>1. n \in Nat /\ \A i \in 1..n : s[i] \in Byte
      BY LenProperties, ElementOfSeq
    <2> HIDE DEF n
    <2> QED BY <2>1, ChunkAssumption DEF Byte
  <1>2. \A v, m \in Nat : v * Radix + m \in Nat
    BY <1>1
  <1>3. PICK g \in [0..n -> Nat] : g[0] = 0 /\ \A i \in 1..n : g[i] = F[i][g[i - 1]]
    <2>1. F \in [1..n -> [Nat -> Nat]]
      <3> HIDE DEF n
      <3> QED BY <1>1, <1>2
    <2>2. PICK g : Goes(g, n, Nat, 0, F)
      <3>1. n \in Nat /\ 0 \in Nat
        BY <1>1
      <3> HIDE DEF F, n, Is, V
      <3> QED BY <2>1, <3>1, Recursion
    <2> QED BY <2>2 DEF Goes
  <1>4. ASSUME NEW i \in 1..n PROVE g[i] = g[i - 1] * Radix + s[i].n
    <2>1. g[i - 1] \in Nat
      BY <1>1
    <2> QED BY <1>3, <2>1
  <1>5. Is(g)
    <2> HIDE DEF n
    <2> QED BY <1>1, <1>3, <1>4
  <1>6. Is(V)
    <2> HIDE DEF Is
    <2> QED BY <1>5
  <1>7. \A i \in 0..n : V[i] = IF i = 0 THEN 0 ELSE V[i - 1] * Radix + s[i].n
    <2> HIDE DEF n, V
    <2> QED BY <1>6
  <1>8. \A i \in 0..n : V[i] \in Nat
    <2> DEFINE S == {i \in 0..n : V[i] \in Nat}
    <2> HIDE DEF V
    <2>1. 0 \in S
      BY <1>1, <1>7
    <2>2. \A i \in 0..(n - 1) : i \in S => i + 1 \in S
      <3> HIDE DEF n
      <3> TAKE i \in 0..(n - 1)
      <3>1. i + 1 \in 1..n /\ (i + 1) - 1 = i /\ i + 1 \in 0..n /\ i + 1 # 0
        BY <1>1
      <3>2. V[i + 1] = V[i] * Radix + s[i + 1].n
        BY <1>7, <3>1
      <3> QED BY <1>1, <1>2, <3>1, <3>2
    <2>3. 0..n \subseteq S
      <3> HIDE DEF S, n
      <3> QED BY <1>1, <2>1, <2>2, UpTo
    <2> QED BY <2>3
  <1>9. V = [i \in 0..n |-> V[i]]
    <2> HIDE DEF n, V
    <2> QED BY <1>6
  <1>10. HexToSize(s) = V[n]
    BY DEF HexToSize
  <1> HIDE DEF n, V, Is, F
  <1>11. V \in [0..n -> Nat]
    BY <1>8, <1>9
  <1>12. V[0] = 0 /\ \A i \in 1..n : V[i] = V[i - 1] * Radix + s[i].n
    BY <1>1, <1>7
  <1> QED BY <1>10, <1>11, <1>12 DEF n

LEMMA SizeEmpty == HexToSize(<<>>) = 0
PROOF
  <1>1. <<>> \in Seq(Byte) /\ Len(<<>>) = 0
    BY EmptySeq
  <1> QED BY <1>1, ValueRecursive

(* One more digit carries the value over.                                  *)
LEMMA SizeAppend ==
    ASSUME NEW s \in Seq(Byte), NEW d \in Byte
    PROVE  HexToSize(Append(s, d)) = HexToSize(s) * Radix + d.n /\ HexToSize(s) \in Nat
PROOF
  <1> DEFINE t == Append(s, d)  n == Len(s)
  <1>1. /\ n \in Nat /\ t \in Seq(Byte) /\ Len(t) = n + 1
        /\ \A i \in 1..n : t[i] = s[i]
        /\ t[n + 1] = d
    BY LenProperties, AppendProperties
  <1>2. PICK V \in [0..n -> Nat] :
            /\ V[0] = 0 /\ \A i \in 1..n : V[i] = V[i - 1] * Radix + s[i].n
            /\ HexToSize(s) = V[n]
    BY ValueRecursive
  <1>3. PICK W \in [0..(n + 1) -> Nat] :
            /\ W[0] = 0 /\ \A i \in 1..(n + 1) : W[i] = W[i - 1] * Radix + t[i].n
            /\ HexToSize(t) = W[n + 1]
    <2> HIDE DEF t, n
    <2> QED BY <1>1, ValueRecursive
  <1> HIDE DEF t, n
  <1>4. 0..n \subseteq {i \in 0..n : V[i] = W[i]}
    <2> DEFINE S == {i \in 0..n : V[i] = W[i]}
    <2>1. 0 \in S
      BY <1>1, <1>2, <1>3
    <2>2. ASSUME NEW i \in 0..(n - 1), i \in S PROVE i + 1 \in S
      <3>1. i + 1 \in 1..n /\ i + 1 \in 1..(n + 1) /\ (i + 1) - 1 = i /\ i + 1 \in 0..n
        BY <1>1
      <3>2. V[i + 1] = V[i] * Radix + s[i + 1].n
        BY <1>2, <3>1
      <3>3. W[i + 1] = W[i] * Radix + s[i + 1].n
        BY <1>1, <1>3, <3>1
      <3> QED BY <2>2, <3>1, <3>2, <3>3
    <2> HIDE DEF S
    <2> QED BY <1>1, <2>1, <2>2, UpTo DEF S
  <1>5. V[n] = W[n]
    BY <1>1, <1>4
  <1>6. W[n + 1] = W[n] * Radix + d.n
    <2>1. n + 1 \in 1..(n + 1) /\ (n + 1) - 1 = n
      BY <1>1
    <2> QED BY <1>1, <1>3, <2>1
  <1>7. V[n] \in Nat
    BY <1>1
  <1> QED BY <1>2, <1>3, <1>5, <1>6, <1>7 DEF t

(* Dividing by the radix, which is at least two.                           *)
LEMMA Division ==
    ASSUME NEW k \in Nat
    PROVE  /\ k \div Radix \in Nat /\ k % Radix \in Nat
           /\ k = (k \div Radix) * Radix + (k % Radix)
           /\ k >= Radix => k \div Radix < k
  BY ChunkAssumption

Digits == [is : {"digit"}, n : Nat]

(* The digits of a number are digits, at least one of them, and they read  *)
(* back as the number.                                                     *)
LEMMA HexSize ==
    ASSUME NEW n \in Nat
    PROVE  Hex(n) \in Seq(Digits) /\ Len(Hex(n)) >= 1 /\ HexToSize(Hex(n)) = n
PROOF
  <1> DEFINE Step(g, k) ==
                 IF k < Radix THEN <<Digit(k)>> ELSE Append(g[k \div Radix], Digit(k % Radix))
             Is(g) == g = [k \in 0..n |-> Step(g, k)]
             W == CHOOSE f : Is(f)
             S == {m \in 0..n : \E g \in [0..m -> Seq(Digits)] : \A k \in 0..m : g[k] = Step(g, k)}
  <1>1. \A k \in Nat : Digit(k) \in Digits /\ <<Digit(k)>> \in Seq(Digits)
    BY DEF Digit, Digits
  <1>2. \A s \in Seq(Digits), k \in Nat : Append(s, Digit(k)) \in Seq(Digits)
    BY <1>1, AppendProperties
  <1>3. Radix \in Nat \ {0, 1}
    BY ChunkAssumption
  <1>4. 0 \in S
    <2> DEFINE g == [k \in 0..0 |-> <<Digit(0)>>]
    <2>1. g \in [0..0 -> Seq(Digits)]
      BY <1>1
    <2>2. \A k \in 0..0 : g[k] = Step(g, k)
      BY <1>3
    <2> HIDE DEF g, Step
    <2> QED BY <2>1, <2>2
  <1>5. ASSUME NEW m \in 0..(n - 1), m \in S PROVE m + 1 \in S
    <2>1. PICK g \in [0..m -> Seq(Digits)] : \A k \in 0..m : g[k] = Step(g, k)
      BY <1>5
    <2> DEFINE h == [k \in 0..(m + 1) |-> IF k <= m THEN g[k] ELSE Step(g, m + 1)]
    <2>2. m \in Nat /\ m + 1 \in Nat /\ m + 1 \in 0..n
      OBVIOUS
    <2>3. \A k \in 0..(m + 1) : k < Radix \/ (k \div Radix \in 0..m /\ k % Radix \in Nat)
      <3> TAKE k \in 0..(m + 1)
      <3>1. k \in Nat /\ k <= m + 1
        BY <2>2
      <3>2. k \div Radix \in Nat /\ k % Radix \in Nat /\ (k >= Radix => k \div Radix < k)
        BY <3>1, Division
      <3> HIDE DEF Step
      <3> QED BY <1>3, <2>2, <3>1, <3>2
    <2>4. Step(g, m + 1) \in Seq(Digits)
      <3>1. CASE m + 1 < Radix
        BY <1>1, <2>2, <3>1
      <3>2. CASE ~(m + 1 < Radix)
        <4>1. m + 1 \in 0..(m + 1)
          BY <2>2
        <4>2. (m + 1) \div Radix \in 0..m /\ (m + 1) % Radix \in Nat
          BY <2>3, <3>2, <4>1
        <4>3. g[(m + 1) \div Radix] \in Seq(Digits)
          BY <4>2
        <4> QED BY <1>2, <3>2, <4>2, <4>3
      <3> QED BY <3>1, <3>2
    <2>5. h \in [0..(m + 1) -> Seq(Digits)]
      <3> HIDE DEF Step
      <3> QED BY <2>2, <2>4
    <2>6. ASSUME NEW k \in 0..(m + 1) PROVE h[k] = Step(h, k)
      <3>1. h[k] = Step(g, k)
        <4>1. CASE k <= m
          BY <2>1, <2>2, <4>1
        <4>2. CASE k = m + 1
          <5> HIDE DEF Step
          <5> QED BY <2>2, <4>2
        <4> QED BY <2>2, <4>1, <4>2
      <3>2. k < Radix \/ h[k \div Radix] = g[k \div Radix]
        BY <2>2, <2>3
      <3> QED BY <3>1, <3>2
    <2> HIDE DEF h, Step
    <2> QED BY <2>2, <2>5, <2>6
  <1>6. n \in S
    <2> HIDE DEF S
    <2>1. 0..n \subseteq S
      BY <1>4, <1>5, UpTo
    <2> QED BY <2>1
  <1>7. PICK g \in [0..n -> Seq(Digits)] : \A k \in 0..n : g[k] = Step(g, k)
    BY <1>6
  <1>8. Is(g)
    <2> HIDE DEF Step
    <2> QED BY <1>7
  <1>9. Is(W)
    <2> HIDE DEF Is
    <2> QED BY <1>8
  <1>10. \A k \in 0..n : W[k] = Step(W, k)
    <2> HIDE DEF W, Step
    <2> QED BY <1>9
  <1>11. Hex(n) = W[n]
    BY DEF Hex
  <1> DEFINE Right(k) == /\ W[k] \in Seq(Digits) /\ Len(W[k]) >= 1 /\ HexToSize(W[k]) = k
             T == {m \in 0..n : \A k \in 0..m : Right(k)}
  <1> HIDE DEF W
  <1>12. ASSUME NEW k \in 0..n, \A j \in 0..(k - 1) : Right(j) PROVE Right(k)
    <2>0. Seq(Digits) \subseteq Seq(Byte) /\ Digits \subseteq Byte
      BY SeqMonotonic DEF Digits, Byte
    <2>1. CASE k < Radix
      <3>1. W[k] = <<Digit(k)>> /\ Digit(k) \in Byte /\ Digit(k).n = k
        <4>1. Digit(k) \in Byte /\ Digit(k).n = k
          BY <1>1, <2>0 DEF Digit
        <4>2. W[k] = Step(W, k)
          BY <1>10
        <4> QED BY <2>1, <4>1, <4>2
      <3>2. <<Digit(k)>> = Append(<<>>, Digit(k)) /\ Len(<<Digit(k)>>) = 1
        OBVIOUS
      <3>3. HexToSize(<<Digit(k)>>) = 0 * Radix + k
        BY <3>1, <3>2, SizeAppend, SizeEmpty, EmptySeq
      <3>4. 0 * Radix + k = k
        BY <1>3
      <3> QED BY <1>1, <3>1, <3>2, <3>3, <3>4
    <2>2. CASE ~(k < Radix)
      <3> DEFINE q == k \div Radix  r == k % Radix
      <3>1. q \in 0..(k - 1) /\ r \in Nat /\ k = q * Radix + r
        <4>1. k \in Nat /\ q \in Nat /\ r \in Nat /\ k = q * Radix + r /\ (k >= Radix => q < k)
          <5>1. k \in Nat
            OBVIOUS
          <5> QED BY <5>1, Division
        <4> HIDE DEF q, r
        <4> QED BY <1>3, <2>2, <4>1
      <3>2. W[k] = Append(W[q], Digit(r))
        BY <1>10, <2>2
      <3> HIDE DEF q, r
      <3>3. W[q] \in Seq(Digits) /\ Len(W[q]) >= 1 /\ HexToSize(W[q]) = q
        BY <1>12, <3>1
      <3>4. Digit(r) \in Byte /\ Digit(r) \in Digits /\ Digit(r).n = r
        BY <1>1, <2>0, <3>1 DEF Digit
      <3>5. W[k] \in Seq(Digits) /\ Len(W[k]) = Len(W[q]) + 1
        BY <3>2, <3>3, <3>4, AppendProperties
      <3>6. HexToSize(W[k]) = q * Radix + r
        BY <2>0, <3>2, <3>3, <3>4, SizeAppend
      <3>7. Len(W[q]) \in Nat
        BY <3>3, LenProperties
      <3> QED BY <3>1, <3>3, <3>5, <3>6, <3>7
    <2> QED BY <2>1, <2>2
  <1>13. 0 \in T
    <2>1. Right(0)
      BY <1>12
    <2> HIDE DEF Right
    <2> QED BY <2>1
  <1>14. ASSUME NEW m \in 0..(n - 1), m \in T PROVE m + 1 \in T
    <2> HIDE DEF Right
    <2>1. Right(m + 1)
      BY <1>12, <1>14
    <2> QED BY <1>14, <2>1
  <1>15. n \in T
    <2> HIDE DEF T
    <2>1. 0..n \subseteq T
      BY <1>13, <1>14, UpTo
    <2> QED BY <2>1
  <1> QED BY <1>11, <1>15

(* Nothing is written as one digit.                                        *)
LEMMA HexZero == Len(Hex(0)) = 1
PROOF
  <1> DEFINE Is(g) == g = [k \in 0..0 |-> IF k < Radix THEN <<Digit(k)>>
                                          ELSE Append(g[k \div Radix], Digit(k % Radix))]
             W == CHOOSE f : Is(f)
  <1>1. Radix \in Nat \ {0, 1}
    BY ChunkAssumption
  <1>2. Is([k \in 0..0 |-> <<Digit(k)>>])
    BY <1>1
  <1>3. Is(W)
    <2> HIDE DEF Is
    <2> QED BY <1>2
  <1>4. Hex(0) = W[0]
    BY DEF Hex
  <1>5. W[0] = <<Digit(0)>>
    <2> HIDE DEF W
    <2> QED BY <1>1, <1>3
  <1> HIDE DEF W
  <1> QED BY <1>4, <1>5

(* No chunk is empty, and none ends behind the last.                       *)
LEMMA EndsOrdered ==
    ASSUME NEW s \in Seq(Nat \ {0})
    PROVE  /\ \A i \in 0..Len(s) : Ends(s)[i] <= Ends(s)[Len(s)]
           /\ \A i \in 1..Len(s) : Ends(s)[i - 1] < Ends(s)[i]
PROOF
  <1> DEFINE n == Len(s)  E == Ends(s)
             S == {k \in 0..n : E[n - k] <= E[n]}
  <1>1. n \in Nat /\ \A i \in 1..n : s[i] \in Nat \ {0}
    BY LenProperties, ElementOfSeq
  <1>2. E \in [0..n -> Nat] /\ \A i \in 1..n : E[i] = E[i - 1] + s[i]
    BY EndsRecursive
  <1> HIDE DEF n, E
  <1>3. \A i \in 1..n : E[i - 1] < E[i]
    <2> TAKE i \in 1..n
    <2>1. i - 1 \in 0..n /\ E[i - 1] \in Nat /\ s[i] \in Nat \ {0}
      BY <1>1, <1>2
    <2> QED BY <1>2, <2>1
  <1>4. 0 \in S
    BY <1>1, <1>2
  <1>5. ASSUME NEW k \in 0..(n - 1), k \in S PROVE k + 1 \in S
    <2>1. n - k \in 1..n /\ (n - k) - 1 = n - (k + 1) /\ k + 1 \in 0..n
      BY <1>1
    <2>2. E[n - (k + 1)] < E[n - k]
      BY <1>3, <2>1
    <2>3. E[n - (k + 1)] \in Nat /\ E[n - k] \in Nat /\ E[n] \in Nat
      BY <1>1, <1>2, <2>1
    <2> QED BY <1>5, <2>1, <2>2, <2>3
  <1>6. 0..n \subseteq S
    <2> HIDE DEF S
    <2> QED BY <1>1, <1>4, <1>5, UpTo
  <1>7. ASSUME NEW i \in 0..n PROVE E[i] <= E[n]
    <2>1. n - i \in 0..n /\ n - (n - i) = i
      BY <1>1
    <2> QED BY <1>6, <2>1
  <1> QED BY <1>3, <1>7 DEF n, E

LEMMA ContentShape ==
    ASSUME NEW s \in Seq(Nat \ {0})
    PROVE  Content(s) \in Seq(Byte) /\ Len(Content(s)) = Ends(s)[Len(s)]
PROOF
  <1> DEFINE n == Ends(s)[Len(s)]
  <1>1. n \in Nat
    <2>1. Len(s) \in 0..Len(s)
      BY LenProperties
    <2> QED BY <2>1, EndsRecursive
  <1>2. \A i \in 1..n : Data(i) \in Byte
    BY <1>1 DEF Data, Byte
  <1> HIDE DEF n
  <1>3. [i \in 1..n |-> Data(i)] \in Seq(Byte) /\ Len([i \in 1..n |-> Data(i)]) = n
    BY <1>1, <1>2
  <1> QED BY <1>3 DEF Content, n

(* The pieces a sequence of bytes is cut into.                             *)
LEMMA Cut ==
    ASSUME NEW S, NEW s \in Seq(S), NEW n \in 0..Len(s)
    PROVE  /\ First(s, n) \in Seq(S) /\ Len(First(s, n)) = n
           /\ \A i \in 1..n : First(s, n)[i] = s[i]
           /\ Drop(s, n) \in Seq(S) /\ Len(Drop(s, n)) = Len(s) - n
           /\ \A i \in 1..(Len(s) - n) : Drop(s, n)[i] = s[n + i]
           /\ First(s, n) \o Drop(s, n) = s
PROOF
  <1>0. Len(s) \in Nat /\ n \in Nat /\ n <= Len(s) /\ \A i \in 1..Len(s) : s[i] \in S
    BY LenProperties, ElementOfSeq
  <1>1. /\ SubSeq(s, 1, n) \in Seq(S) /\ Len(SubSeq(s, 1, n)) = n
        /\ \A i \in 1..n : SubSeq(s, 1, n)[i] = s[i]
    <2>1. \A i \in 1..n : s[i] \in S
      BY <1>0
    <2>2. /\ SubSeq(s, 1, n) \in Seq(S)
          /\ Len(SubSeq(s, 1, n)) = IF 1 <= n THEN n - 1 + 1 ELSE 0
          /\ \A i \in 1..(n - 1 + 1) : SubSeq(s, 1, n)[i] = s[1 + i - 1]
      BY <1>0, <2>1, SubSeqProperties
    <2> QED BY <1>0, <2>2
  <1>2. /\ SubSeq(s, n + 1, Len(s)) \in Seq(S) /\ Len(SubSeq(s, n + 1, Len(s))) = Len(s) - n
        /\ \A i \in 1..(Len(s) - n) : SubSeq(s, n + 1, Len(s))[i] = s[n + i]
    <2>1. \A i \in (n + 1)..Len(s) : s[i] \in S
      BY <1>0
    <2>2. /\ SubSeq(s, n + 1, Len(s)) \in Seq(S)
          /\ Len(SubSeq(s, n + 1, Len(s))) = IF n + 1 <= Len(s) THEN Len(s) - (n + 1) + 1 ELSE 0
          /\ \A i \in 1..(Len(s) - (n + 1) + 1) : SubSeq(s, n + 1, Len(s))[i] = s[(n + 1) + i - 1]
      BY <1>0, <2>1, SubSeqProperties
    <2> QED BY <1>0, <2>2
  <1>3. SubSeq(s, 1, n) \o SubSeq(s, n + 1, Len(s)) = s
    <2>1. 1 \in 1..(Len(s) + 1) /\ n \in (1 - 1)..Len(s) /\ Len(s) \in n..Len(s)
      BY <1>0
    <2>2. SubSeq(s, 1, n) \o SubSeq(s, n + 1, Len(s)) = SubSeq(s, 1, Len(s))
      BY <2>1, ConcatAdjacentSubSeq
    <2> QED BY <2>2, SubSeqFull
  <1> QED BY <1>1, <1>2, <1>3 DEF First, Drop

(* The data of chunk i continues the content where chunk i - 1 ends.       *)
LEMMA ChunkContinues ==
    ASSUME NEW s \in Seq(Nat \ {0}), NEW i \in 1..Len(s)
    PROVE  /\ Chunk(s, i) \in Seq(Byte) /\ Len(Chunk(s, i)) = s[i]
           /\ First(Content(s), Ends(s)[i - 1]) \o Chunk(s, i) = First(Content(s), Ends(s)[i])
PROOF
  <1> DEFINE C == Content(s)  a == Ends(s)[i - 1]  b == Ends(s)[i]
  <1>1. Len(s) \in Nat /\ i \in Nat /\ i - 1 \in 0..Len(s) /\ i \in 0..Len(s) /\ Len(s) \in 0..Len(s)
    BY LenProperties
  <1>2. a \in Nat /\ b \in Nat /\ b = a + s[i] /\ s[i] \in Nat
    BY <1>1, EndsRecursive, ElementOfSeq
  <1>3. C \in Seq(Byte) /\ Len(C) = Ends(s)[Len(s)] /\ Len(C) \in Nat
    BY ContentShape, LenProperties
  <1>4. b <= Len(C)
    BY <1>1, <1>3, EndsOrdered
  <1> HIDE DEF C, a, b
  <1>5. \A j \in (a + 1)..b : C[j] \in Byte
    BY <1>2, <1>3, <1>4, ElementOfSeq
  <1>6. SubSeq(C, a + 1, b) \in Seq(Byte) /\ Len(SubSeq(C, a + 1, b)) = s[i]
    <2>1. a + 1 \in Int /\ b \in Int
      BY <1>2
    <2>2. /\ SubSeq(C, a + 1, b) \in Seq(Byte)
          /\ Len(SubSeq(C, a + 1, b)) = IF a + 1 <= b THEN b - (a + 1) + 1 ELSE 0
      BY <1>5, <2>1, SubSeqProperties
    <2> QED BY <1>2, <2>2
  <1>7. SubSeq(C, 1, a) \o SubSeq(C, a + 1, b) = SubSeq(C, 1, b)
    <2>1. 1 \in 1..(Len(C) + 1) /\ a \in (1 - 1)..Len(C) /\ b \in a..Len(C)
      BY <1>2, <1>3, <1>4
    <2> QED BY <1>3, <2>1, ConcatAdjacentSubSeq
  <1> QED BY <1>6, <1>7 DEF Chunk, First, C, a, b

-----------------------------------------------------------------------------
(* Beginnings of sequences.                                                *)

(* Two ways to cut a sequence at the same place are the same.              *)
LEMMA SameCut ==
    ASSUME NEW S, NEW a \in Seq(S), NEW b \in Seq(S), NEW x \in Seq(S), NEW y \in Seq(S),
           a \o x = b \o y, Len(a) = Len(b)
    PROVE  a = b /\ x = y
PROOF
  <1>1. Len(a) \in Nat /\ Len(x) \in Nat /\ Len(y) \in Nat
    BY LenProperties
  <1>2. \A i \in 1..Len(a) : (a \o x)[i] = a[i] /\ (b \o y)[i] = b[i]
    <2> TAKE i \in 1..Len(a)
    <2>1. i \in 1..(Len(a) + Len(x)) /\ i \in 1..(Len(b) + Len(y)) /\ i <= Len(a)
      BY <1>1
    <2> QED BY <2>1, ConcatProperties
  <1>3. a = b
    BY <1>2, SeqEqual
  <1> QED BY <1>3, ConcatSimplifications

(* A prefix is what can be completed.                                      *)
LEMMA PrefixOf ==
    ASSUME NEW S, NEW s \in Seq(S), NEW u \in Seq(S)
    PROVE  IsPrefix(s, s \o u)
PROOF
  <1>1. s \o u \in Seq(S) /\ Len(s \o u) = Len(s) + Len(u) /\ Len(s) \in Nat /\ Len(u) \in Nat
    BY ConcatProperties, LenProperties
  <1>2. Len(s) \in 0..Len(s \o u)
    BY <1>1
  <1>3. /\ First(s \o u, Len(s)) \in Seq(S) /\ Len(First(s \o u, Len(s))) = Len(s)
        /\ Drop(s \o u, Len(s)) \in Seq(S)
        /\ First(s \o u, Len(s)) \o Drop(s \o u, Len(s)) = s \o u
    BY <1>1, <1>2, Cut
  <1>4. First(s \o u, Len(s)) = s
    <2> DEFINE f == First(s \o u, Len(s))  d == Drop(s \o u, Len(s))
    <2>1. f \in Seq(S) /\ d \in Seq(S) /\ f \o d = s \o u /\ Len(f) = Len(s)
      BY <1>3
    <2> HIDE DEF f, d
    <2>2. f = s
      BY <2>1, SameCut
    <2> QED BY <2>2 DEF f
  <1>5. SubSeq(s, 1, Len(s)) = s
    BY SubSeqFull
  <1> QED BY <1>1, <1>4, <1>5 DEF IsPrefix, First

LEMMA PrefixRest ==
    ASSUME NEW S, NEW s \in Seq(S), NEW t \in Seq(S), IsPrefix(s, t)
    PROVE  Drop(t, Len(s)) \in Seq(S) /\ t = s \o Drop(t, Len(s)) /\ Len(s) <= Len(t)
PROOF
  <1>1. Len(s) \in 0..Len(t)
    BY LenProperties DEF IsPrefix
  <1>2. First(t, Len(s)) = s
    BY SubSeqFull DEF IsPrefix, First
  <1> QED BY <1>1, <1>2, Cut DEF IsPrefix

(* A prefix of x and y in a row that is at least as long as x starts with  *)
(* x and goes on with a prefix of y.                                       *)
LEMMA PrefixBehind ==
    ASSUME NEW S, NEW c \in Seq(S), NEW x \in Seq(S), NEW y \in Seq(S),
           IsPrefix(c, x \o y), Len(x) <= Len(c)
    PROVE  /\ First(c, Len(x)) = x /\ Drop(c, Len(x)) \in Seq(S)
           /\ c = x \o Drop(c, Len(x)) /\ IsPrefix(Drop(c, Len(x)), y)
           /\ Len(Drop(c, Len(x))) = Len(c) - Len(x)
PROOF
  <1> DEFINE u == Drop(x \o y, Len(c))  f == First(c, Len(x))  d == Drop(c, Len(x))
  <1>1. x \o y \in Seq(S)
    BY ConcatProperties
  <1>2. u \in Seq(S) /\ x \o y = c \o u
    BY <1>1, PrefixRest
  <1>3. f \in Seq(S) /\ Len(f) = Len(x) /\ d \in Seq(S) /\ f \o d = c /\ Len(d) = Len(c) - Len(x)
    <2>1. Len(x) \in 0..Len(c)
      BY LenProperties
    <2> QED BY <2>1, Cut
  <1> HIDE DEF u, f, d
  <1>4. f \o (d \o u) = x \o y /\ d \o u \in Seq(S)
    <2>1. (f \o d) \o u = f \o (d \o u)
      <3>1. f \in Seq(S) /\ d \in Seq(S) /\ u \in Seq(S)
        BY <1>2, <1>3
      <3> QED BY <3>1, ConcatAssociative
    <2>2. d \o u \in Seq(S)
      BY <1>2, <1>3, ConcatProperties
    <2> QED BY <1>2, <1>3, <2>1, <2>2
  <1>5. f = x /\ d \o u = y
    BY <1>3, <1>4, SameCut
  <1>6. IsPrefix(d, y)
    BY <1>2, <1>3, <1>5, PrefixOf
  <1> QED BY <1>3, <1>5, <1>6 DEF f, d

(* One that is not longer than x is a prefix of x.                         *)
LEMMA PrefixWithin ==
    ASSUME NEW S, NEW c \in Seq(S), NEW x \in Seq(S), NEW y \in Seq(S),
           IsPrefix(c, x \o y), Len(c) <= Len(x)
    PROVE  IsPrefix(c, x)
PROOF
  <1> DEFINE u == Drop(x \o y, Len(c))  f == First(x, Len(c))  d == Drop(x, Len(c))
  <1>1. x \o y \in Seq(S)
    BY ConcatProperties
  <1>2. u \in Seq(S) /\ x \o y = c \o u
    BY <1>1, PrefixRest
  <1>3. f \in Seq(S) /\ Len(f) = Len(c) /\ d \in Seq(S) /\ f \o d = x
    <2>1. Len(c) \in 0..Len(x)
      BY LenProperties
    <2> QED BY <2>1, Cut
  <1> HIDE DEF u, f, d
  <1>4. f \o (d \o y) = c \o u /\ d \o y \in Seq(S)
    <2>1. (f \o d) \o y = f \o (d \o y)
      <3>1. f \in Seq(S) /\ d \in Seq(S)
        BY <1>3
      <3> QED BY <3>1, ConcatAssociative
    <2>2. d \o y \in Seq(S)
      BY <1>3, ConcatProperties
    <2> QED BY <1>2, <1>3, <2>1, <2>2
  <1>5. f = c
    BY <1>2, <1>3, <1>4, SameCut
  <1> QED BY <1>3, <1>5, PrefixOf

LEMMA PrefixTransitive ==
    ASSUME NEW S, NEW a \in Seq(S), NEW b \in Seq(S), NEW c \in Seq(S),
           IsPrefix(a, b), IsPrefix(b, c)
    PROVE  IsPrefix(a, c)
PROOF
  <1>1. PICK x \in Seq(S) : b = a \o x
    BY PrefixRest
  <1>2. PICK y \in Seq(S) : c = b \o y
    BY PrefixRest
  <1>3. c = a \o (x \o y) /\ x \o y \in Seq(S)
    BY <1>1, <1>2, ConcatAssociative, ConcatProperties
  <1> QED BY <1>3, PrefixOf

LEMMA FirstIsPrefix ==
    ASSUME NEW S, NEW s \in Seq(S), NEW n \in 0..Len(s)
    PROVE  IsPrefix(First(s, n), s) /\ First(s, 0) = <<>> /\ First(s, Len(s)) = s
PROOF
  <1>1. IsPrefix(First(s, n), s)
    <2> DEFINE f == First(s, n)  d == Drop(s, n)
    <2>1. f \in Seq(S) /\ d \in Seq(S) /\ f \o d = s
      BY Cut
    <2> HIDE DEF f, d
    <2>2. IsPrefix(f, f \o d)
      BY <2>1, PrefixOf
    <2> QED BY <2>1, <2>2 DEF f
  <1>2. First(s, Len(s)) = s
    BY SubSeqFull DEF First
  <1>3. First(s, 0) = <<>>
    <2>1. 0 \in 0..Len(s)
      BY LenProperties
    <2>2. First(s, 0) \in Seq(S) /\ Len(First(s, 0)) = 0
      BY <2>1, Cut
    <2> QED BY <2>2, EmptySeq
  <1> QED BY <1>1, <1>2, <1>3

-----------------------------------------------------------------------------
(* The stream, line by line.                                               *)

LEMMA Eol ==
    EOL \in Seq(Byte) /\ Len(EOL) = 2 /\ EOL[1] = CR /\ EOL[2] = LF /\ CR \in Byte /\ LF \in Byte
  BY DEF EOL, CR, LF, Byte

LEMMA ConcatBytes ==
    ASSUME NEW x \in Seq(Byte), NEW y \in Seq(Byte)
    PROVE  /\ x \o y \in Seq(Byte) /\ Len(x \o y) = Len(x) + Len(y)
           /\ \A i \in 1..Len(x) + Len(y) : (x \o y)[i] = IF i <= Len(x) THEN x[i] ELSE y[i - Len(x)]
  BY ConcatProperties

Assoc(x, y, z) == (x \o y) \o z = x \o (y \o z)

LEMMA AssocBytes ==
    ASSUME NEW x \in Seq(Byte), NEW y \in Seq(Byte), NEW z \in Seq(Byte)
    PROVE  Assoc(x, y, z)
  BY ConcatAssociative DEF Assoc

(* The pieces of a chunk, put together from either end.                    *)
Joins(h, e, c, o) == (((h \o e) \o c) \o e) \o o = h \o (e \o (c \o (e \o o)))

LEMMA ChunkJoins ==
    ASSUME NEW h \in Seq(Byte), NEW e \in Seq(Byte), NEW c \in Seq(Byte), NEW o \in Seq(Byte)
    PROVE  Joins(h, e, c, o)
PROOF
  <1> DEFINE he == h \o e  hec == he \o c  eo == e \o o  ceo == c \o eo
  <1>1. he \in Seq(Byte) /\ hec \in Seq(Byte) /\ eo \in Seq(Byte) /\ ceo \in Seq(Byte)
    BY ConcatBytes
  <1>2. Assoc(hec, e, o) /\ Assoc(he, c, eo) /\ Assoc(h, e, ceo)
    <2> HIDE DEF he, hec, eo, ceo
    <2> QED BY <1>1, AssocBytes
  <1> QED BY <1>2 DEF Joins, Assoc

Size(s, i) == IF i > Len(s) THEN 0 ELSE s[i]

(* What follows the line with the size of chunk i.                         *)
Behind(s, i) ==
    IF i > Len(s) THEN EOL ELSE Chunk(s, i) \o (EOL \o Onward(s)[i + 1])

LEMMA HexBytes ==
    ASSUME NEW n \in Nat
    PROVE  Hex(n) \in Seq(Byte) /\ Hex(n) \in Seq(Digits)
PROOF
  <1>1. Seq(Digits) \subseteq Seq(Byte)
    BY SeqMonotonic DEF Digits, Byte
  <1> QED BY <1>1, HexSize

LEMMA OnwardBytes ==
    ASSUME NEW s \in Seq(Nat \ {0})
    PROVE  /\ \A i \in 1..Len(s) + 1 : Onward(s)[i] \in Seq(Byte)
           /\ Onward(s)[Len(s) + 1] = Hex(0) \o EOL \o EOL
           /\ \A i \in 1..Len(s) :
                Onward(s)[i] = Hex(s[i]) \o EOL \o Chunk(s, i) \o EOL \o Onward(s)[i + 1]
PROOF
  <1> DEFINE n == Len(s)
             B == Seq(Byte)
             Z == Hex(0) \o EOL \o EOL
             P(i) == Hex(s[i]) \o EOL \o Chunk(s, i) \o EOL
             F == [k \in 1..n |-> [v \in B |-> P(n + 1 - k) \o v]]
             Is(g) == g = [i \in 1..n + 1 |-> IF i > n THEN Z ELSE P(i) \o g[i + 1]]
  <1>1. n \in Nat /\ \A i \in 1..n : s[i] \in Nat
    BY LenProperties, ElementOfSeq
  <1>2. Z \in B
    BY Eol, HexBytes, ConcatProperties
  <1>3. \A i \in 1..n : P(i) \in B
    <2> TAKE i \in 1..n
    <2>1. Hex(s[i]) \in B /\ EOL \in B /\ Chunk(s, i) \in B
      BY <1>1, Eol, HexBytes, ChunkContinues
    <2> QED BY <2>1, ConcatProperties
  <1>4. \A i \in 1..n : \A v \in B : P(i) \o v \in B
    <2> HIDE DEF P, n
    <2> QED BY <1>3, ConcatProperties
  <1>5. PICK g \in [0..n -> B] : g[0] = Z /\ \A k \in 1..n : g[k] = F[k][g[k - 1]]
    <2>1. F \in [1..n -> [B -> B]]
      <3> HIDE DEF P, B, n
      <3>1. \A k \in 1..n : n + 1 - k \in 1..n
        BY <1>1
      <3> QED BY <1>4, <3>1
    <2>2. PICK g : Goes(g, n, B, Z, F)
      <3> HIDE DEF F, n, Is, B, Z
      <3> QED BY <1>1, <1>2, <2>1, Recursion
    <2> QED BY <2>2 DEF Goes
  <1> DEFINE h == [i \in 1..n + 1 |-> g[n + 1 - i]]
  <1>6. \A i \in 1..n + 1 : h[i] = IF i > n THEN Z ELSE P(i) \o h[i + 1]
    <2> HIDE DEF Z, P, B, n
    <2> TAKE i \in 1..n + 1
    <2>1. CASE i = n + 1
      <3>1. n + 1 - i = 0 /\ i > n
        BY <1>1, <2>1
      <3> QED BY <1>5, <3>1
    <2>2. CASE i \in 1..n
      <3> DEFINE k == n + 1 - i
      <3>1. /\ k \in 1..n /\ k - 1 \in 0..n /\ n + 1 - (i + 1) = k - 1 /\ i + 1 \in 1..n + 1
            /\ n + 1 - k = i /\ ~(i > n)
        BY <1>1, <2>2
      <3>2. g[k - 1] \in B
        BY <1>5, <3>1
      <3>3. g[k] = P(n + 1 - k) \o g[k - 1]
        <4> HIDE DEF k
        <4> QED BY <1>5, <3>1, <3>2
      <3>4. h[i] = g[k] /\ h[i + 1] = g[k - 1]
        BY <3>1
      <3> QED BY <3>1, <3>3, <3>4
    <2> QED BY <1>1, <2>1, <2>2
  <1>7. Is(h)
    <2> HIDE DEF Z, P, B, n
    <2>1. h = [i \in 1..n + 1 |-> h[i]]
      OBVIOUS
    <2> HIDE DEF h
    <2> QED BY <1>6, <2>1
  <1>8. Onward(s) = CHOOSE f : Is(f)
    BY DEF Onward
  <1>9. Is(Onward(s))
    <2> HIDE DEF Is, h
    <2> QED BY <1>7, <1>8
  <1>10. \A i \in 1..n + 1 : Onward(s)[i] = IF i > n THEN Z ELSE P(i) \o Onward(s)[i + 1]
    <2> HIDE DEF n, Z, P
    <2> QED BY <1>9
  <1>11. 0..n \subseteq {k \in 0..n : Onward(s)[n + 1 - k] \in B}
    <2> DEFINE S == {k \in 0..n : Onward(s)[n + 1 - k] \in B}
    <2> HIDE DEF Z, P, B, n
    <2>1. 0 \in S
      <3>1. n + 1 - 0 \in 1..n + 1 /\ n + 1 - 0 > n /\ 0 \in 0..n
        BY <1>1
      <3> QED BY <1>2, <1>10, <3>1
    <2>2. ASSUME NEW k \in 0..(n - 1), k \in S PROVE k + 1 \in S
      <3> DEFINE i == n + 1 - (k + 1)
      <3>1. i \in 1..n /\ i \in 1..n + 1 /\ i + 1 = n + 1 - k /\ k + 1 \in 0..n /\ ~(i > n)
        BY <1>1
      <3>2. Onward(s)[i] = P(i) \o Onward(s)[n + 1 - k]
        <4> HIDE DEF i
        <4> QED BY <1>10, <3>1
      <3>3. Onward(s)[n + 1 - k] \in B
        BY <2>2
      <3> QED BY <1>4, <3>1, <3>2, <3>3
    <2> HIDE DEF S
    <2> QED BY <1>1, <2>1, <2>2, UpTo DEF S
  <1> HIDE DEF n, B, Z
  <1>12. \A i \in 1..n + 1 : Onward(s)[i] \in B
    <2> TAKE i \in 1..n + 1
    <2>1. n + 1 - i \in 0..n /\ n + 1 - (n + 1 - i) = i
      BY <1>1
    <2> QED BY <1>11, <2>1
  <1>13. Onward(s)[n + 1] = Z
    <2>1. n + 1 \in 1..n + 1 /\ n + 1 > n
      BY <1>1
    <2> QED BY <1>10, <2>1
  <1>14. \A i \in 1..n : Onward(s)[i] = P(i) \o Onward(s)[i + 1]
    <2> HIDE DEF P
    <2> TAKE i \in 1..n
    <2>1. i \in 1..n + 1 /\ ~(i > n)
      BY <1>1
    <2> QED BY <1>10, <2>1
  <1> QED BY <1>12, <1>13, <1>14 DEF n, B, Z

(* The stream from chunk i on begins with a size line.                     *)
LEMMA OnwardLine ==
    ASSUME NEW s \in Seq(Nat \ {0}), NEW i \in 1..Len(s) + 1
    PROVE  /\ Size(s, i) \in Nat /\ (Size(s, i) = 0 <=> i = Len(s) + 1)
           /\ Behind(s, i) \in Seq(Byte)
           /\ Onward(s)[i] = Hex(Size(s, i)) \o (EOL \o Behind(s, i))
           /\ Onward(s)[i] \in Seq(Byte)
PROOF
  <1>1. Len(s) \in Nat
    BY LenProperties
  <1>2. CASE i = Len(s) + 1
    <2>0. i > Len(s)
      BY <1>1, <1>2
    <2>1. Size(s, i) = 0 /\ Behind(s, i) = EOL
      BY <2>0 DEF Size, Behind
    <2> DEFINE o == Onward(s)[i]
    <2>2. o = (Hex(0) \o EOL) \o EOL /\ o \in Seq(Byte)
      BY <1>2, OnwardBytes
    <2>3. (Hex(0) \o EOL) \o EOL = Hex(0) \o (EOL \o EOL)
      <3>1. Hex(0) \in Seq(Byte) /\ EOL \in Seq(Byte)
        BY Eol, HexBytes
      <3> QED BY <3>1, ConcatAssociative
    <2> HIDE DEF o
    <2>4. o = Hex(Size(s, i)) \o (EOL \o Behind(s, i)) /\ Behind(s, i) \in Seq(Byte)
      BY <2>1, <2>2, <2>3, Eol
    <2>5. Size(s, i) \in Nat
      BY <2>1
    <2> QED BY <1>2, <2>1, <2>2, <2>4, <2>5, Zenon DEF o
  <1>3. CASE i \in 1..Len(s)
    <2>0. PICK h, c, o : h = Hex(s[i]) /\ c = Chunk(s, i) /\ o = Onward(s)[i + 1]
      OBVIOUS
    <2>1. i \in Nat /\ s[i] \in Nat \ {0} /\ ~(i > Len(s)) /\ i + 1 \in 1..Len(s) + 1 /\ i # Len(s) + 1
      BY <1>1, <1>3, ElementOfSeq
    <2>2. Size(s, i) = s[i] /\ Behind(s, i) = c \o (EOL \o o)
      BY <2>0, <2>1 DEF Size, Behind
    <2>3. h \in Seq(Byte) /\ c \in Seq(Byte) /\ o \in Seq(Byte) /\ EOL \in Seq(Byte)
      BY <1>3, <2>0, <2>1, HexBytes, ChunkContinues, OnwardBytes, Eol
    <2>4. Onward(s)[i] = (((h \o EOL) \o c) \o EOL) \o o /\ Onward(s)[i] \in Seq(Byte)
      BY <1>3, <2>0, OnwardBytes
    <2>5. c \o (EOL \o o) \in Seq(Byte)
      BY <2>3, ConcatBytes
    <2>6. (((h \o EOL) \o c) \o EOL) \o o = h \o (EOL \o (c \o (EOL \o o)))
      <3>1. Joins(h, EOL, c, o)
        BY <2>3, ChunkJoins
      <3> QED BY <3>1 DEF Joins
    <2>9. Onward(s)[i] = h \o (EOL \o Behind(s, i)) /\ Behind(s, i) \in Seq(Byte)
      BY <2>2, <2>4, <2>5, <2>6
    <2> QED BY <2>0, <2>1, <2>2, <2>4, <2>9
  <1>4. i = Len(s) + 1 \/ i \in 1..Len(s)
    BY <1>1
  <1> QED BY <1>2, <1>3, <1>4, Zenon

(* The size line of a stream, seen in a beginning of it: it is found as    *)
(* soon as all of it is there, it is found for what it is, and until then  *)
(* there is no LF.                                                         *)
LEMMA SizeLineSeen ==
    ASSUME NEW h \in Seq(Digits), NEW z \in Seq(Byte), NEW s \in Seq(Byte),
           IsPrefix(s, h \o (EOL \o z))
    PROVE  /\ HasEol(s) <=> Len(s) >= Len(h) + 2
           /\ HasEol(s) => Least(EolAt(s)) = Len(h) + 1 /\ Line(s) = h
           /\ ~HasEol(s) => \A i \in 1..Len(s) : s[i] # LF
           /\ IsHex(h)
PROOF
  <1> DEFINE w == h \o (EOL \o z)  n == Len(h)
  <1>1. h \in Seq(Byte) /\ n \in Nat /\ Len(z) \in Nat /\ Len(s) \in Nat
    BY SeqMonotonic, LenProperties DEF Digits, Byte
  <1>2. /\ EOL \o z \in Seq(Byte) /\ Len(EOL \o z) = 2 + Len(z)
        /\ (EOL \o z)[1] = CR /\ (EOL \o z)[2] = LF
    <2>1. /\ EOL \o z \in Seq(Byte) /\ Len(EOL \o z) = Len(EOL) + Len(z)
          /\ \A i \in 1..Len(EOL) + Len(z) :
                (EOL \o z)[i] = IF i <= Len(EOL) THEN EOL[i] ELSE z[i - Len(EOL)]
      BY Eol, ConcatProperties
    <2> HIDE DEF w, n
    <2> QED BY <1>1, <2>1, Eol
  <1>3. /\ w \in Seq(Byte) /\ Len(w) = n + (2 + Len(z))
        /\ \A i \in 1..n : w[i] = h[i]
        /\ w[n + 1] = CR /\ w[n + 2] = LF
    <2> DEFINE e == EOL \o z
    <2>1. e \in Seq(Byte) /\ Len(e) = 2 + Len(z) /\ e[1] = CR /\ e[2] = LF
      BY <1>2
    <2> HIDE DEF e
    <2>2. /\ h \o e \in Seq(Byte) /\ Len(h \o e) = Len(h) + Len(e)
          /\ \A i \in 1..Len(h) + Len(e) : (h \o e)[i] = IF i <= Len(h) THEN h[i] ELSE e[i - Len(h)]
      BY <1>1, <2>1, ConcatBytes
    <2>3. n + 1 - n = 1 /\ n + 2 - n = 2 /\ n + 1 \in 1..Len(h) + Len(e) /\ n + 2 \in 1..Len(h) + Len(e)
      BY <1>1, <2>1
    <2> QED BY <1>1, <2>1, <2>2, <2>3 DEF e
  <1>4. \A i \in 1..n : h[i].is = "digit" /\ h[i] # CR /\ h[i] # LF
    <2> TAKE i \in 1..n
    <2>1. h[i] \in Digits
      BY ElementOfSeq
    <2>2. h[i].is = "digit" /\ CR.is = "cr" /\ LF.is = "lf"
      BY <2>1 DEF Digits, CR, LF
    <2> QED BY <2>2
  <1>5. Len(s) <= Len(w) /\ \A i \in 1..Len(s) : s[i] = w[i]
    <2> HIDE DEF w
    <2> DEFINE d == Drop(w, Len(s))
    <2>1. d \in Seq(Byte) /\ w = s \o d /\ Len(s) <= Len(w)
      <3>1. IsPrefix(s, w)
        BY DEF w
      <3> QED BY <1>3, <3>1, PrefixRest
    <2> HIDE DEF d
    <2>2. \A i \in 1..Len(s) + Len(d) : (s \o d)[i] = IF i <= Len(s) THEN s[i] ELSE d[i - Len(s)]
      BY <2>1, ConcatProperties
    <2>3. Len(d) \in Nat
      BY <2>1, LenProperties
    <2> QED BY <1>1, <2>1, <2>2, <2>3
  <1> HIDE DEF w, n
  <1>6. IsHex(h)
    BY <1>4 DEF IsHex, n
  <1>7. ASSUME NEW p \in EolAt(s) PROVE p >= n + 1
    <2>1. p \in 1..Len(s) /\ s[p] = CR
      BY <1>1, <1>7 DEF EolAt
    <2> QED BY <1>1, <1>3, <1>4, <1>5, <2>1
  <1>8. CASE Len(s) >= n + 2
    <2>1. n + 1 \in 1..Len(s) - 1 /\ s[n + 1] = CR /\ s[n + 1 + 1] = LF
      <3>1. n + 1 \in 1..Len(s) /\ n + 2 \in 1..Len(s) /\ n + 1 + 1 = n + 2 /\ n + 1 \in 1..Len(s) - 1
        BY <1>1, <1>8
      <3>2. s[n + 1] = w[n + 1] /\ s[n + 2] = w[n + 2]
        BY <1>5, <3>1
      <3> QED BY <1>3, <3>1, <3>2
    <2>2. n + 1 \in EolAt(s)
      BY <2>1 DEF EolAt
    <2>3. Least(EolAt(s)) = n + 1
      <3>1. \A p \in EolAt(s) : p \in Int
        BY <1>1 DEF EolAt
      <3>2. PICK q \in EolAt(s) : Least(EolAt(s)) = q /\ \A m \in EolAt(s) : q <= m
        BY <1>7, <2>2 DEF Least
      <3> QED BY <1>1, <1>7, <2>2, <3>1, <3>2
    <2>4. Line(s) = h
      <3>1. Line(s) = First(s, n)
        BY <1>1, <2>3 DEF Line
      <3>2. n \in 0..Len(s)
        BY <1>1, <1>8
      <3>3. First(s, n) \in Seq(Byte) /\ Len(First(s, n)) = n /\ \A i \in 1..n : First(s, n)[i] = s[i]
        BY <3>2, Cut
      <3>4. \A i \in 1..n : s[i] = h[i]
        <4> TAKE i \in 1..n
        <4>1. i \in 1..Len(s)
          BY <1>1, <1>8
        <4> QED BY <1>3, <1>5, <4>1
      <3>5. First(s, n) = h
        BY <1>1, <3>3, <3>4, SeqEqual DEF n
      <3> QED BY <3>1, <3>5
    <2> QED BY <1>1, <1>6, <1>8, <2>2, <2>3, <2>4 DEF HasEol, n
  <1>9. CASE ~(Len(s) >= n + 2)
    <2>1. EolAt(s) = {}
      <3> SUFFICES ASSUME NEW p \in EolAt(s) PROVE FALSE
        OBVIOUS
      <3>1. p \in 1..Len(s) - 1
        BY DEF EolAt
      <3> QED BY <1>1, <1>7, <1>9, <3>1
    <2>2. \A i \in 1..Len(s) : s[i] # LF
      <3> TAKE i \in 1..Len(s)
      <3>1. i \in 1..n \/ i = n + 1
        BY <1>1, <1>9
      <3>2. CR # LF
        BY DEF CR, LF
      <3> QED BY <1>3, <1>4, <1>5, <3>1, <3>2
    <2> QED BY <1>1, <1>6, <1>9, <2>1, <2>2 DEF HasEol, n
  <1> QED BY <1>8, <1>9

-----------------------------------------------------------------------------
(* Moving bytes from one sequence to the next.                             *)

(* The least of some numbers is one of them.                               *)
LEMMA LeastIs ==
    ASSUME NEW T \in SUBSET Nat, T # {}
    PROVE  Least(T) \in T /\ \A m \in T : Least(T) <= m
PROOF
  <1>1. PICK n \in T : \A m \in T : <<m, n>> \notin OpToRel(<, Nat)
    BY NatLessThanWellFounded, WFMin
  <1>2. \A m \in T : n <= m
    <2> TAKE m \in T
    <2>1. m \in Nat /\ n \in Nat
      OBVIOUS
    <2>2. ~(m < n)
      BY <1>1, <2>1 DEF OpToRel
    <2> QED BY <2>1, <2>2
  <1> QED BY <1>2 DEF Least

LEMMA LeastOfTwo ==
    ASSUME NEW a \in Nat, NEW b \in Nat
    PROVE  Least({a, b}) = IF a <= b THEN a ELSE b
  BY LeastIs, {a, b} \in SUBSET Nat

(* The line break that is found is the first.                              *)
LEMMA EolFound ==
    ASSUME NEW s \in Seq(Byte), HasEol(s)
    PROVE  /\ Least(EolAt(s)) \in 1..Len(s) - 1 /\ s[Least(EolAt(s)) + 1] = LF
           /\ Line(s) \in Seq(Byte) /\ Len(Line(s)) = Least(EolAt(s)) - 1
PROOF
  <1>1. Len(s) \in Nat
    BY LenProperties
  <1>2. Least(EolAt(s)) \in EolAt(s)
    <2>1. EolAt(s) \in SUBSET Nat /\ EolAt(s) # {}
      BY <1>1 DEF EolAt, HasEol
    <2> QED BY <2>1, LeastIs
  <1>3. Least(EolAt(s)) \in 1..Len(s) - 1 /\ s[Least(EolAt(s)) + 1] = LF
    BY <1>2 DEF EolAt
  <1>4. Least(EolAt(s)) - 1 \in 0..Len(s)
    BY <1>1, <1>3
  <1> QED BY <1>3, <1>4, Cut DEF Line

LEMMA FirstBytes ==
    ASSUME NEW s \in Seq(Byte), NEW n \in 0..Len(s)
    PROVE  /\ First(s, n) \in Seq(Byte) /\ Len(First(s, n)) = n
           /\ \A i \in 1..n : First(s, n)[i] = s[i]
  BY Cut

(* What is behind the end is nothing.                                      *)
LEMMA DropBytes ==
    ASSUME NEW s \in Seq(Byte), NEW n \in Nat
    PROVE  /\ Drop(s, n) \in Seq(Byte)
           /\ Len(Drop(s, n)) = IF n <= Len(s) THEN Len(s) - n ELSE 0
PROOF
  <1>1. Len(s) \in Nat
    BY LenProperties
  <1>2. CASE n <= Len(s)
    <2>1. n \in 0..Len(s)
      BY <1>1, <1>2
    <2> QED BY <1>2, <2>1, Cut
  <1>3. CASE ~(n <= Len(s))
    <2>1. /\ SubSeq(s, n + 1, Len(s)) \in Seq(Byte)
          /\ Len(SubSeq(s, n + 1, Len(s))) = IF n + 1 <= Len(s) THEN Len(s) - (n + 1) + 1 ELSE 0
      <3>1. n + 1 \in Int /\ Len(s) \in Int /\ \A i \in n + 1..Len(s) : s[i] \in Byte
        BY <1>1, <1>3
      <3> QED BY <3>1, SubSeqProperties
    <2> QED BY <1>1, <1>3, <2>1 DEF Drop
  <1> QED BY <1>2, <1>3

(* The first n bytes of c go to the end of x.                              *)
Passes(x, c, n) == (x \o First(c, n)) \o Drop(c, n) = x \o c

LEMMA Passed ==
    ASSUME NEW x \in Seq(Byte), NEW c \in Seq(Byte), NEW n \in 0..Len(c)
    PROVE  Passes(x, c, n)
PROOF
  <1>1. First(c, n) \in Seq(Byte) /\ Drop(c, n) \in Seq(Byte) /\ First(c, n) \o Drop(c, n) = c
    BY Cut
  <1>2. Assoc(x, First(c, n), Drop(c, n))
    BY <1>1, AssocBytes
  <1> QED BY <1>1, <1>2 DEF Passes, Assoc

(* And what is behind c stays behind.                                      *)
Pulls(x, c, n, s) == (x \o First(c, n)) \o (Drop(c, n) \o s) = x \o (c \o s)

LEMMA Pulling ==
    ASSUME NEW x \in Seq(Byte), NEW c \in Seq(Byte), NEW n \in 0..Len(c), NEW s \in Seq(Byte)
    PROVE  Pulls(x, c, n, s)
PROOF
  <1>1. First(c, n) \in Seq(Byte) /\ Drop(c, n) \in Seq(Byte) /\ First(c, n) \o Drop(c, n) = c
    BY Cut
  <1>2. x \o First(c, n) \in Seq(Byte)
    BY <1>1, ConcatBytes
  <1>3. Assoc(x \o First(c, n), Drop(c, n), s) /\ Assoc(x, c, s)
    BY <1>1, <1>2, AssocBytes
  <1>4. Passes(x, c, n)
    BY Passed
  <1> QED BY <1>3, <1>4 DEF Pulls, Passes, Assoc

-----------------------------------------------------------------------------
(* The content and the stream behind the end of a chunk.                   *)

BodyOK == body \in Seq(Nat \ {0})

LEMMA TypedBody == ASSUME TypeOK PROVE BodyOK
  BY ChunkAssumption DEF TypeOK, BodyOK

LEMMA BeforeTail ==
    ASSUME BodyOK, NEW i \in 0..Len(body)
    PROVE  /\ Ends(body)[i] \in Nat /\ Before(i) \in Seq(Byte) /\ Len(Before(i)) = Ends(body)[i]
           /\ IsPrefix(Before(i), Content(body)) /\ Content(body) \in Seq(Byte)
           /\ Ends(body)[i] = 0 <=> i = 0
           /\ i = 0 => Before(i) = <<>>
           /\ i = Len(body) => Before(i) = Content(body)
PROOF
  <1>1. Len(body) \in Nat /\ Content(body) \in Seq(Byte) /\ Len(Content(body)) = Ends(body)[Len(body)]
    BY LenProperties, ContentShape DEF BodyOK
  <1>2. Ends(body)[i] \in Nat /\ Ends(body)[i] <= Len(Content(body)) /\ Ends(body)[0] = 0
    <2>1. body \in Seq(Nat \ {0})
      BY DEF BodyOK
    <2> QED BY <1>1, <2>1, EndsRecursive, EndsOrdered
  <1>3. Ends(body)[i] \in 0..Len(Content(body))
    <2>1. Len(Content(body)) \in Nat
      BY <1>1, LenProperties
    <2> QED BY <1>2, <2>1
  <1>4. Before(i) \in Seq(Byte) /\ Len(Before(i)) = Ends(body)[i] /\ IsPrefix(Before(i), Content(body))
    BY <1>1, <1>3, FirstBytes, FirstIsPrefix DEF Before
  <1>5. i # 0 => Ends(body)[i] > 0
    <2> HAVE i # 0
    <2>1. i \in 1..Len(body) /\ i - 1 \in 0..Len(body) /\ body \in Seq(Nat \ {0})
      BY <1>1 DEF BodyOK
    <2>2. Ends(body)[i - 1] < Ends(body)[i] /\ Ends(body)[i - 1] \in Nat
      BY <2>1, EndsRecursive, EndsOrdered
    <2> QED BY <1>2, <2>2
  <1>6. i = 0 => Before(i) = <<>>
    BY <1>1, <1>2, <1>3, FirstIsPrefix DEF Before
  <1>7. i = Len(body) => Before(i) = Content(body)
    BY <1>1, <1>3, FirstIsPrefix DEF Before
  <1> QED BY <1>1, <1>2, <1>4, <1>5, <1>6, <1>7

(* The line with the next size, and what taking it off leaves.             *)
LEMMA NextLine ==
    ASSUME BodyOK, NEW i \in 0..Len(body)
    PROVE  /\ Size(body, i + 1) \in Nat /\ Behind(body, i + 1) \in Seq(Byte)
           /\ Break(i) \in Seq(Byte) /\ Len(Break(i)) = (IF i = 0 THEN 0 ELSE 2)
           /\ Onward(body)[i + 1] = Hex(Size(body, i + 1)) \o (EOL \o Behind(body, i + 1))
           /\ Onward(body)[i + 1] \in Seq(Byte)
           /\ Size(body, i + 1) > 0 =>
                /\ i + 1 \in 1..Len(body) /\ Size(body, i + 1) = body[i + 1]
                /\ Ends(body)[i + 1] = Ends(body)[i] + Size(body, i + 1)
                /\ Before(i) \o Behind(body, i + 1) = Whole(i + 1, Break(i + 1) \o Onward(body)[(i + 1) + 1])
           /\ Size(body, i + 1) = 0 => i = Len(body) /\ Behind(body, i + 1) = EOL
PROOF
  <1>1. Len(body) \in Nat /\ body \in Seq(Nat \ {0}) /\ i + 1 \in 1..Len(body) + 1
    BY LenProperties DEF BodyOK
  <1>2. Break(i) \in Seq(Byte) /\ Len(Break(i)) = IF i = 0 THEN 0 ELSE 2
    BY Eol, EmptySeq DEF Break
  <1>3. /\ Size(body, i + 1) \in Nat /\ (Size(body, i + 1) = 0 <=> i + 1 = Len(body) + 1)
        /\ Behind(body, i + 1) \in Seq(Byte)
        /\ Onward(body)[i + 1] = Hex(Size(body, i + 1)) \o (EOL \o Behind(body, i + 1))
        /\ Onward(body)[i + 1] \in Seq(Byte)
    BY <1>1, OnwardLine
  <1>4. ASSUME Size(body, i + 1) = 0 PROVE i = Len(body) /\ Behind(body, i + 1) = EOL
    <2>1. i = Len(body) /\ i + 1 > Len(body)
      BY <1>1, <1>3, <1>4
    <2> QED BY <2>1 DEF Behind
  <1>5. ASSUME Size(body, i + 1) > 0
        PROVE  /\ i + 1 \in 1..Len(body) /\ Size(body, i + 1) = body[i + 1]
               /\ Ends(body)[i + 1] = Ends(body)[i] + Size(body, i + 1)
               /\ Before(i) \o Behind(body, i + 1)
                    = Whole(i + 1, Break(i + 1) \o Onward(body)[(i + 1) + 1])
    <2>1. /\ i + 1 \in 1..Len(body) /\ ~(i + 1 > Len(body)) /\ (i + 1) - 1 = i /\ i + 1 # 0
          /\ (i + 1) + 1 \in 1..Len(body) + 1
      BY <1>1, <1>3, <1>5
    <2>2. Size(body, i + 1) = body[i + 1]
      BY <2>1 DEF Size
    <2>3. Ends(body)[i + 1] = Ends(body)[i] + body[i + 1]
      BY <1>1, <2>1, EndsRecursive
    <2> PICK c, e : c = Chunk(body, i + 1) /\ e = EOL \o Onward(body)[(i + 1) + 1]
      OBVIOUS
    <2>4. Behind(body, i + 1) = c \o e
      BY <2>1 DEF Behind
    <2>5. c \in Seq(Byte) /\ Before(i) \o c = Before(i + 1)
      BY <1>1, <2>1, ChunkContinues DEF Before
    <2>6. e \in Seq(Byte)
      <3>1. Onward(body)[(i + 1) + 1] \in Seq(Byte)
        BY <1>1, <2>1, OnwardBytes
      <3> QED BY <3>1, Eol, ConcatBytes
    <2>7. Assoc(Before(i), c, e)
      BY <2>5, <2>6, BeforeTail, AssocBytes
    <2>8. Break(i + 1) = EOL
      BY <2>1 DEF Break
    <2>9. Before(i) \o (c \o e) = Before(i + 1) \o e
      BY <2>5, <2>7 DEF Assoc
    <2> QED BY <2>1, <2>2, <2>3, <2>4, <2>8, <2>9 DEF Whole
  <1> QED BY <1>2, <1>3, <1>4, <1>5

LEMMA TailBytes ==
    ASSUME BodyOK, NEW i \in 0..Len(body), NEW t \in Tails(i)
    PROVE  t \in Seq(Byte) /\ Whole(i, t) \in Seq(Byte)
PROOF
  <1>1. t \in Seq(Byte)
    <2>1. Break(i) \o Onward(body)[i + 1] \in Seq(Byte)
      <3>1. Break(i) \in Seq(Byte) /\ Onward(body)[i + 1] \in Seq(Byte)
        BY NextLine
      <3> QED BY <3>1, ConcatBytes
    <2>2. EOL \in Seq(Byte) /\ <<>> \in Seq(Byte)
      BY Eol, EmptySeq
    <2> QED BY <2>1, <2>2 DEF Tails
  <1> QED BY <1>1, BeforeTail, ConcatBytes DEF Whole

-----------------------------------------------------------------------------
(* Steps that take no line off the stream.                                 *)

(* Bytes go from the connection to the client, or a reset loses them.      *)
Moves ==
    \/ link # "rst" /\ Got' \o (conn' \o sending') = Got \o (conn \o sending)
    \/ Got' = Got /\ link' = "rst"

LEMMA GotBytes ==
    ASSUME TypeOK
    PROVE  /\ out \in Seq(Byte) /\ buf \in Seq(Byte) /\ conn \in Seq(Byte) /\ sending \in Seq(Byte)
           /\ Got \in Seq(Byte) /\ Len(Got) = Len(out) + Len(buf) /\ Len(Got) \in Nat
           /\ conn \o sending \in Seq(Byte)
           /\ Len(out) \in Nat /\ Len(buf) \in Nat /\ Len(conn) \in Nat
PROOF
  <1>1. out \in Seq(Byte) /\ buf \in Seq(Byte) /\ conn \in Seq(Byte) /\ sending \in Seq(Byte)
    BY DEF TypeOK
  <1> QED BY <1>1, ConcatBytes, LenProperties DEF Got

LEMMA FlowsOn ==
    ASSUME TypeOK, TypeOK', NEW i \in 0..Len(body), NEW t \in Tails(i), Flows(i, t),
           UNCHANGED <<body, mode, lastHeld>>, Moves
    PROVE  i \in 0..Len(body') /\ t \in Tails(i)' /\ Flows(i, t)'
PROOF
  <1>1. Tails(i)' = Tails(i) /\ Whole(i, t)' = Whole(i, t) /\ i \in 0..Len(body')
    BY DEF Tails, Whole, Before, Break
  <1>2. t \in Seq(Byte) /\ Whole(i, t) \in Seq(Byte)
    BY TypedBody, TailBytes
  <1>3. (lastHeld \/ mode = "complete" => i = Len(body))'
    BY DEF Flows
  <1>4. CASE link # "rst" /\ Got' \o (conn' \o sending') = Got \o (conn \o sending)
    <2>1. Whole(i, t)' = Got' \o (conn' \o sending')
      BY <1>1, <1>4 DEF Flows
    <2>2. Got' \in Seq(Byte) /\ conn' \o sending' \in Seq(Byte)
      <3>1. /\ out' \in Seq(Byte) /\ buf' \in Seq(Byte)
            /\ conn' \in Seq(Byte) /\ sending' \in Seq(Byte)
        BY DEF TypeOK
      <3> QED BY <3>1, ConcatBytes DEF Got
    <2>3. IsPrefix(Got', Got' \o (conn' \o sending'))
      BY <2>2, PrefixOf
    <2>4. IsPrefix(Got, Whole(i, t))'
      BY <2>1, <2>3 DEF IsPrefix
    <2> QED BY <1>1, <1>3, <2>1, <2>4 DEF Flows
  <1>5. CASE Got' = Got /\ link' = "rst"
    <2>1. IsPrefix(Got, Whole(i, t))'
      BY <1>1, <1>5 DEF Flows, IsPrefix
    <2> QED BY <1>1, <1>3, <1>5, <2>1 DEF Flows
  <1> QED BY <1>4, <1>5 DEF Moves

(* What the alarm and a reset say does not change with the bytes.          *)
Quiet ==
    /\ TypeOK' /\ GaveUp' /\ ResetEmpty'
    /\ result' = "malformed" =>
        result = "malformed" \/ \E i \in DOMAIN body : Len(Hex(body[i])) >= 2
    /\ UNCHANGED <<body, mode, lastHeld>>
    /\ mode # "unknown" => link' # "off"

LEMMA QuietAlarm == ASSUME NoFalseAlarm, Quiet PROVE NoFalseAlarm'
  BY DEF NoFalseAlarm, Quiet

(* A step of a reader, or of the connection while one reads.               *)
LEMMA ReaderMoves ==
    ASSUME RInv, Quiet, Moves, pc \notin ParserPc, pc' \notin ParserPc,
           pc' = "iterate" => next' >= 0 /\ mode = "chunk",
           pc' = "head" => next' <= 0 /\ mode = "chunk",
           \/ Got' = Got /\ next' = next
           \/ next >= 0 /\ next' >= 0 /\ mode # "complete" /\ Len(Got') + next' = Len(Got) + next
    PROVE  RInv'
PROOF
  <1>1. TypeOK /\ TypeOK' /\ UNCHANGED <<body, mode, lastHeld>>
    BY DEF RInv, Quiet
  <1>2. ASSUME mode # "unknown"
        PROVE  link' # "off" /\ \E i \in 0..Len(body) : \E t \in Tails(i) : Flows(i, t)' /\ Reading(i)'
                                                                            /\ t \in Tails(i)'
    <2> PICK i \in 0..Len(body) : \E t \in Tails(i) : Flows(i, t) /\ Reading(i)
      BY <1>2 DEF RInv, InStream
    <2>1. PICK t \in Tails(i) : Flows(i, t) /\ Reading(i)
      OBVIOUS
    <2>2. t \in Tails(i)' /\ Flows(i, t)'
      BY <1>1, <2>1, FlowsOn
    <2>3. next \in Int /\ next' \in Int /\ Len(Got) \in Nat
      BY <1>1, GotBytes DEF TypeOK
    <2>4. Reading(i)'
      <3>1. CASE Got' = Got /\ next' = next
        BY <1>1, <2>1, <3>1 DEF Reading
      <3>2. CASE next >= 0 /\ next' >= 0 /\ mode # "complete" /\ Len(Got') + next' = Len(Got) + next
        <4>1. next # -1 /\ next' # -1
          BY <2>3, <3>2
        <4>2. Len(Got) + next = Ends(body)[i] /\ (i = 0 => lastHeld)
          BY <2>1, <3>2, <4>1 DEF Reading
        <4> QED BY <1>1, <3>2, <4>1, <4>2 DEF Reading
      <3> QED BY <3>1, <3>2
    <2>5. link' # "off"
      BY <1>2 DEF Quiet
    <2> QED BY <2>2, <2>4, <2>5
  <1>3. InStream'
    BY <1>1, <1>2 DEF InStream
  <1>4. NoFalseAlarm'
    BY QuietAlarm DEF RInv
  <1> QED BY <1>3, <1>4 DEF RInv, Quiet

(* A step of the parser that takes no line off, or of the connection.      *)
LEMMA ParserMoves ==
    ASSUME RInv, Quiet, Moves, pc \in ParserPc, pc' \in ParserPc,
           UNCHANGED <<out, total>>, buf # <<>> => buf' # <<>>
    PROVE  RInv'
PROOF
  <1>1. TypeOK /\ TypeOK' /\ UNCHANGED <<body, mode, lastHeld>>
    BY DEF RInv, Quiet
  <1>2. ASSUME mode # "unknown"
        PROVE  link' # "off" /\ \E i \in 0..Len(body) : \E t \in Tails(i) : Flows(i, t)' /\ Parsing(i)'
                                                                            /\ t \in Tails(i)'
    <2> PICK i \in 0..Len(body) : \E t \in Tails(i) : Flows(i, t) /\ Parsing(i)
      BY <1>2 DEF RInv, InStream
    <2>1. PICK t \in Tails(i) : Flows(i, t) /\ Parsing(i)
      OBVIOUS
    <2>2. t \in Tails(i)' /\ Flows(i, t)'
      BY <1>1, <2>1, FlowsOn
    <2>3. Parsing(i)'
      BY <1>1, <2>1 DEF Parsing
    <2>4. link' # "off"
      BY <1>2 DEF Quiet
    <2> QED BY <2>2, <2>3, <2>4
  <1>3. InStream'
    BY <1>1, <1>2 DEF InStream
  <1>4. NoFalseAlarm'
    BY QuietAlarm DEF RInv
  <1> QED BY <1>3, <1>4 DEF RInv, Quiet

LEMMA Sizes == PEEK \in Nat \ {0} /\ SB_DATA_SIZE \in Nat \ {0} /\ MaxPre \in Nat \ {0}
  BY ChunkAssumption

(* The connection, and steps of nobody.                                    *)
LEMMA ConnectionStep ==
    ASSUME RInv, Arrive \/ ServerCloses \/ ServerResets \/ UNCHANGED vars
    PROVE  RInv'
PROOF
  <1> USE DEF fixedVars, netVars, callVars, readerVars
  <1>1. TypeOK /\ GaveUp /\ ResetEmpty
    BY DEF RInv
  <1>2. UNCHANGED <<body, reader, buf, mode, next, total, pc, ask, result, out, outcome, lastHeld>>
    BY DEF Arrive, ServerCloses, ServerResets, vars
  <1>3. Got' = Got
    BY <1>2 DEF Got
  <1>4. TypeOK' /\ ResetEmpty' /\ Moves /\ (mode # "unknown" => link' # "off")
    <2>0. link # "off" \/ mode = "unknown"
      BY DEF RInv, InStream
    <2>1. CASE Arrive
      <3>1. PICK n \in 1..Len(sending) : conn' = conn \o First(sending, n) /\ sending' = Drop(sending, n)
        BY <2>1 DEF Arrive
      <3>2. conn \in Seq(Byte) /\ sending \in Seq(Byte) /\ n \in 0..Len(sending)
        BY <1>1 DEF TypeOK
      <3>3. First(sending, n) \in Seq(Byte) /\ Drop(sending, n) \in Seq(Byte)
        BY <3>2, Cut
      <3>4. conn' \in Seq(Byte) /\ sending' \in Seq(Byte)
        BY <3>1, <3>2, <3>3, ConcatBytes
      <3>5. Passes(conn, sending, n)
        BY <3>2, Passed
      <3>6. link = "up" /\ link' = "up"
        BY <2>1 DEF Arrive
      <3>7. TypeOK'
        BY <1>1, <1>2, <3>4, <3>6 DEF TypeOK
      <3>8. conn' \o sending' = conn \o sending
        BY <3>1, <3>5 DEF Passes
      <3> QED BY <1>3, <3>6, <3>7, <3>8 DEF Moves, ResetEmpty
    <2>2. CASE ServerCloses
      <3>1. link = "up" /\ link' = "fin" /\ UNCHANGED <<conn, sending>>
        BY <2>2 DEF ServerCloses
      <3> QED BY <1>1, <1>2, <1>3, <3>1 DEF Moves, ResetEmpty, TypeOK
    <2>3. CASE ServerResets
      <3>1. link' = "rst" /\ conn' = <<>> /\ UNCHANGED sending
        BY <2>3 DEF ServerResets
      <3>2. TypeOK'
        BY <1>1, <1>2, <3>1, EmptySeq DEF TypeOK
      <3> QED BY <1>3, <3>1, <3>2 DEF Moves, ResetEmpty
    <2>4. CASE UNCHANGED vars
      <3>1. UNCHANGED <<conn, sending, link>>
        BY <2>4 DEF vars
      <3>2. TypeOK' /\ ResetEmpty'
        BY <1>1, <1>2, <3>1 DEF ResetEmpty, TypeOK
      <3> QED BY <2>0, <1>3, <3>1, <3>2 DEF Moves
    <2> QED BY <2>1, <2>2, <2>3, <2>4
  <1>5. GaveUp'
    BY <1>1, <1>2, <1>3 DEF GaveUp
  <1>6. Quiet
    BY <1>2, <1>4, <1>5 DEF Quiet
  <1>7. CASE pc \in ParserPc
    BY <1>2, <1>4, <1>6, <1>7, ParserMoves
  <1>8. CASE pc \notin ParserPc
    <2>1. /\ pc' = "iterate" => next' >= 0 /\ mode = "chunk"
          /\ pc' = "head" => next' <= 0 /\ mode = "chunk"
      BY <1>2, <1>8 DEF RInv, InStream, GaveUp, Reading
    <2> QED BY <1>2, <1>3, <1>4, <1>6, <1>8, <2>1, ReaderMoves
  <1> QED BY <1>7, <1>8

(* The steps of a reader that move no bytes.                               *)
LEMMA CallStep == ASSUME RInv, Call \/ SocketError \/ IterateDone PROVE RInv'
PROOF
  <1> USE DEF fixedVars, netVars, callVars, readerVars
  <1>1. TypeOK /\ GaveUp /\ ResetEmpty
    BY DEF RInv
  <1>2. /\ UNCHANGED <<body, reader, sending, link, conn, buf, mode, next, total, out, outcome, lastHeld>>
        /\ pc \in {"idle", "iterate", "head"}
    BY DEF Call, SocketError, IterateDone
  <1>3. Got' = Got
    BY <1>2 DEF Got
  <1>4. /\ pc' \in {"returned", "iterate", "head"} /\ ask' \in 0..SB_DATA_SIZE
        /\ result' \in {"ok", "completed", "malformed", "error"}
        /\ result' = "malformed" => result = "malformed"
        /\ pc' = "iterate" => next' >= 0 /\ mode = "chunk"
        /\ pc' = "head" => next' <= 0 /\ mode = "chunk"
    <2>0. next \in Nat \cup {-1} /\ Len(buf) \in Nat /\ SB_DATA_SIZE \in Nat
      BY <1>1, GotBytes, Sizes DEF TypeOK
    <2>1. CASE Call
      <3>1. ask' \in 0..SB_DATA_SIZE
        BY <2>0, <2>1 DEF Call, Wanted
      <3>2. CASE mode = "chunk"
        <4>1. pc' = (IF next = -1 THEN "head" ELSE "iterate") /\ result' = result
          BY <2>1, <3>2 DEF Call
        <4> QED BY <1>1, <1>2, <2>0, <3>1, <3>2, <4>1 DEF TypeOK
      <3>3. CASE mode # "chunk"
        <4>1. mode = "complete" \/ mode = "unknown"
          BY <1>1, <3>3 DEF TypeOK
        <4>2. pc' = "returned" /\ result' \in {"completed", "error"}
          BY <2>1, <4>1 DEF Call
        <4> QED BY <3>1, <4>2
      <3> QED BY <3>2, <3>3
    <2>2. CASE SocketError
      BY <1>1, <2>2 DEF SocketError, Return, TypeOK
    <2>3. CASE IterateDone
      <3>1. mode = "chunk"
        BY <1>1, <2>3 DEF IterateDone, RInv, InStream, GaveUp, Reading, ParserPc
      <3> QED BY <1>1, <1>2, <2>0, <2>3, <3>1 DEF IterateDone, Return, TypeOK
    <2> QED BY <2>1, <2>2, <2>3
  <1>5. TypeOK'
    BY <1>1, <1>2, <1>4 DEF TypeOK
  <1>6. GaveUp' /\ ResetEmpty'
    <2>1. ASSUME mode = "unknown" PROVE pc' = "returned"
      BY <1>4, <2>1
    <2> QED BY <1>1, <1>2, <1>3, <2>1 DEF GaveUp, ResetEmpty
  <1>7. link # "off" \/ mode = "unknown"
    BY DEF RInv, InStream
  <1>8. Moves
    BY <1>2, <1>3 DEF Moves
  <1>9. Quiet
    BY <1>2, <1>4, <1>5, <1>6, <1>7 DEF Quiet
  <1> QED BY <1>2, <1>3, <1>4, <1>8, <1>9, ReaderMoves DEF ParserPc

(* Taking data off the connection, up to the end of the chunk.             *)
LEMMA IterateStep == ASSUME RInv, Iterate PROVE RInv'
PROOF
  <1> USE DEF fixedVars, netVars, callVars, readerVars
  <1>1. TypeOK /\ GaveUp /\ ResetEmpty
    BY DEF RInv
  <1> DEFINE s == Least({next, ask, SB_DATA_SIZE})
             l == Least({s, Len(conn)})
  <1>2. /\ UNCHANGED <<body, reader, sending, link, mode, total, out, outcome, lastHeld>>
        /\ pc = "iterate" /\ next > 0 /\ link # "rst"
        /\ buf' = buf \o First(conn, l) /\ conn' = Drop(conn, l)
        /\ next' = next - l /\ ask' = ask - l
        /\ \/ pc' = "returned" /\ result' = "ok"
           \/ pc' = pc /\ result' = result
    BY DEF Iterate, Return
  <1>3. l \in Nat /\ l <= next /\ l <= ask /\ l <= Len(conn)
    <2>1. next \in Nat /\ ask \in Nat /\ SB_DATA_SIZE \in Nat /\ Len(conn) \in Nat
      BY <1>1, <1>2, GotBytes, Sizes DEF TypeOK
    <2>2. s \in {next, ask, SB_DATA_SIZE} /\ s <= next /\ s <= ask
      <3>1. {next, ask, SB_DATA_SIZE} \in SUBSET Nat
        BY <2>1
      <3> QED BY <3>1, LeastIs
    <2>3. s \in Nat
      BY <2>1, <2>2
    <2> HIDE DEF s
    <2>4. l = IF s <= Len(conn) THEN s ELSE Len(conn)
      BY <2>1, <2>3, LeastOfTwo
    <2> HIDE DEF l
    <2> QED BY <2>1, <2>2, <2>3, <2>4
  <1> HIDE DEF s, l
  <1>4. conn \in Seq(Byte) /\ buf \in Seq(Byte) /\ out \in Seq(Byte) /\ sending \in Seq(Byte)
        /\ l \in 0..Len(conn)
    BY <1>1, <1>3, GotBytes
  <1>5. First(conn, l) \in Seq(Byte) /\ Len(First(conn, l)) = l /\ Drop(conn, l) \in Seq(Byte)
    BY <1>4, Cut
  <1>6. buf' \in Seq(Byte) /\ Len(buf') = Len(buf) + l /\ conn' \in Seq(Byte)
    <2>1. buf \o First(conn, l) \in Seq(Byte) /\ Len(buf \o First(conn, l)) = Len(buf) + Len(First(conn, l))
      BY <1>4, <1>5, ConcatBytes
    <2> QED BY <1>2, <1>5, <2>1
  <1>7. TypeOK'
    <2>1. next' \in Nat /\ ask' \in 0..SB_DATA_SIZE
      BY <1>1, <1>2, <1>3, Sizes DEF TypeOK
    <2> QED BY <1>1, <1>2, <1>6, <2>1 DEF TypeOK
  <1>8. Got' = Got \o First(conn, l)
    <2>1. Assoc(out, buf, First(conn, l))
      BY <1>4, <1>5, AssocBytes
    <2> QED BY <1>2, <2>1 DEF Got, Assoc
  <1>9. Moves
    <2>1. Pulls(Got, conn, l, sending)
      BY <1>1, <1>4, GotBytes, Pulling
    <2> QED BY <1>2, <1>8, <2>1 DEF Moves, Pulls
  <1>10. Len(Got') = Len(Got) + l /\ Len(Got) \in Nat
    <2>1. Got \in Seq(Byte) /\ Len(Got) \in Nat
      BY <1>1, GotBytes
    <2>2. Len(Got \o First(conn, l)) = Len(Got) + Len(First(conn, l))
      BY <1>5, <2>1, ConcatBytes
    <2> QED BY <1>5, <1>8, <2>1, <2>2
  <1>11. mode = "chunk" /\ link # "off"
    BY <1>1, <1>2 DEF RInv, InStream, GaveUp, Reading, ParserPc
  <1>12. Quiet
    BY <1>2, <1>7, <1>11 DEF Quiet, GaveUp, ResetEmpty
  <1>13. next' >= 0 /\ Len(Got') + next' = Len(Got) + next
    <2>1. next \in Nat
      BY <1>1, <1>2 DEF TypeOK
    <2> QED BY <1>2, <1>3, <1>10, <2>1
  <1>14. /\ next >= 0 /\ mode # "complete" /\ pc \notin ParserPc /\ pc' \notin ParserPc
         /\ pc' # "head"
    BY <1>1, <1>2, <1>11 DEF ParserPc, TypeOK
  <1> QED BY <1>9, <1>11, <1>12, <1>13, <1>14, ReaderMoves

(* The readers take what is held.                                          *)
LEMMA ReadStep == ASSUME RInv, FileRead \/ PageRead PROVE RInv'
PROOF
  <1> USE DEF fixedVars, netVars, callVars, readerVars
  <1>1. TypeOK /\ GaveUp /\ ResetEmpty
    BY DEF RInv
  <1>2. /\ UNCHANGED <<body, reader, sending, link, conn, mode, next, total, ask, result, lastHeld>>
        /\ pc \in {"returned", "idle"} /\ pc' \in {"idle", "done"}
    BY DEF FileRead, PageRead
  <1>3. out \in Seq(Byte) /\ buf \in Seq(Byte) /\ Len(buf) \in Nat
    BY <1>1, GotBytes
  <1>4. Got' = Got /\ out' \in Seq(Byte) /\ buf' \in Seq(Byte) /\ outcome' \in {"none", "finish", "fail"}
    <2>1. CASE FileRead
      <3> DEFINE n == Least({Len(buf), SB_DATA_SIZE})
      <3>1. n \in 0..Len(buf)
        BY <1>3, Sizes, LeastOfTwo
      <3>2. \/ out' = out /\ buf' = buf
            \/ out' = out \o First(buf, n) /\ buf' = Drop(buf, n)
        BY <2>1 DEF FileRead
      <3>3. outcome' \in {"fail", "finish", outcome}
        BY <2>1 DEF FileRead
      <3> HIDE DEF n
      <3>4. Passes(out, buf, n) /\ First(buf, n) \in Seq(Byte) /\ Drop(buf, n) \in Seq(Byte)
        BY <1>3, <3>1, Passed, Cut
      <3>5. out \o First(buf, n) \in Seq(Byte)
        BY <1>3, <3>4, ConcatBytes
      <3> QED BY <1>1, <1>3, <3>2, <3>3, <3>4, <3>5 DEF Passes, Got, TypeOK
    <2>2. CASE PageRead
      <3>1. out' = out \o buf /\ buf' = <<>> /\ outcome' \in {"fail", "finish", outcome}
        BY <2>2 DEF PageRead
      <3>2. out \o buf \in Seq(Byte) /\ <<>> \in Seq(Byte)
        BY <1>3, ConcatBytes, EmptySeq
      <3>3. (out \o buf) \o <<>> = out \o buf
        BY <3>2, ConcatEmptySeq
      <3> QED BY <1>1, <3>1, <3>2, <3>3 DEF Got, TypeOK
    <2> QED BY <2>1, <2>2
  <1>5. TypeOK'
    BY <1>1, <1>2, <1>4 DEF TypeOK
  <1>6. GaveUp' /\ ResetEmpty'
    BY <1>1, <1>2, <1>4 DEF GaveUp, ResetEmpty
  <1>7. link # "off" \/ mode = "unknown"
    BY DEF RInv, InStream
  <1>8. Moves
    BY <1>2, <1>4 DEF Moves
  <1>9. Quiet
    BY <1>2, <1>5, <1>6, <1>7 DEF Quiet
  <1> QED BY <1>2, <1>4, <1>8, <1>9, ReaderMoves DEF ParserPc

-----------------------------------------------------------------------------
(* The parser of the buffer.                                               *)

(* The facts on beginnings, for bytes.                                     *)
LEMMA BytesBehind ==
    ASSUME NEW c \in Seq(Byte), NEW x \in Seq(Byte), NEW y \in Seq(Byte),
           IsPrefix(c, x \o y), Len(x) <= Len(c)
    PROVE  /\ First(c, Len(x)) = x /\ Drop(c, Len(x)) \in Seq(Byte)
           /\ c = x \o Drop(c, Len(x)) /\ IsPrefix(Drop(c, Len(x)), y)
  BY PrefixBehind

LEMMA BytesRest ==
    ASSUME NEW s \in Seq(Byte), NEW t \in Seq(Byte), IsPrefix(s, t)
    PROVE  Drop(t, Len(s)) \in Seq(Byte) /\ t = s \o Drop(t, Len(s))
  BY PrefixRest

LEMMA BytesCancel ==
    ASSUME NEW x \in Seq(Byte), NEW y \in Seq(Byte), NEW z \in Seq(Byte), x \o y = x \o z
    PROVE  y = z
  BY SameCut

(* Taking a size line, and the line break in front of it, out of what is   *)
(* held behind the data f.                                                 *)
LineGone(f, b, h, z, c, r, n) ==
    /\ First(c, Len(f)) = f /\ Drop(c, n) \in Seq(Byte)
    /\ f \o Drop(c, n) \in Seq(Byte) /\ IsPrefix(f \o Drop(c, n), f \o z)
    /\ c \o r = f \o (b \o (h \o (EOL \o z))) => (f \o Drop(c, n)) \o r = f \o z

LEMMA LineOut ==
    ASSUME NEW f \in Seq(Byte), NEW b \in Seq(Byte), NEW h \in Seq(Byte), NEW z \in Seq(Byte),
           NEW c \in Seq(Byte), NEW r \in Seq(Byte), NEW n \in Nat,
           IsPrefix(c, f \o (b \o (h \o (EOL \o z)))),
           n = Len(f) + Len(b) + Len(h) + 2, n <= Len(c)
    PROVE  LineGone(f, b, h, z, c, r, n)
PROOF
  <1>0. Len(f) \in Nat /\ Len(b) \in Nat /\ Len(h) \in Nat /\ EOL \in Seq(Byte) /\ Len(EOL) = 2
    BY LenProperties, Eol
  <1> PICK ez, hez, w : ez = EOL \o z /\ hez = h \o ez /\ w = b \o hez
    OBVIOUS
  <1> PICK fb, fbh, x : fb = f \o b /\ fbh = fb \o h /\ x = fbh \o EOL
    OBVIOUS
  <1>1. /\ ez \in Seq(Byte) /\ hez \in Seq(Byte) /\ w \in Seq(Byte)
        /\ fb \in Seq(Byte) /\ Len(fb) = Len(f) + Len(b)
        /\ fbh \in Seq(Byte) /\ Len(fbh) = Len(f) + Len(b) + Len(h)
        /\ x \in Seq(Byte) /\ Len(x) = n
    <2>1. ez \in Seq(Byte)
      BY <1>0, ConcatBytes
    <2>2. hez \in Seq(Byte)
      BY <2>1, ConcatBytes
    <2>3. w \in Seq(Byte)
      BY <2>2, ConcatBytes
    <2>4. fb \in Seq(Byte) /\ Len(fb) = Len(f) + Len(b)
      BY ConcatBytes
    <2>5. fbh \in Seq(Byte) /\ Len(fbh) = Len(fb) + Len(h)
      BY <2>4, ConcatBytes
    <2>6. x \in Seq(Byte) /\ Len(x) = Len(fbh) + Len(EOL)
      BY <1>0, <2>5, ConcatBytes
    <2> QED BY <1>0, <2>1, <2>2, <2>3, <2>4, <2>5, <2>6
  <1>2. f \o w = x \o z
    <2>1. Assoc(f, b, hez) /\ Assoc(fb, h, ez) /\ Assoc(fbh, EOL, z)
      BY <1>0, <1>1, AssocBytes
    <2> QED BY <2>1 DEF Assoc
  <1>3. IsPrefix(c, f \o w) /\ IsPrefix(c, x \o z)
    BY <1>2
  <1>4. First(c, Len(f)) = f
    <2>1. Len(f) <= Len(c)
      BY <1>0
    <2> QED BY <1>1, <1>3, <2>1, BytesBehind
  <1> PICK d : d = Drop(c, n)
    OBVIOUS
  <1>5. d \in Seq(Byte) /\ c = x \o d /\ IsPrefix(d, z)
    <2>1. Len(x) <= Len(c)
      BY <1>1
    <2>2. /\ Drop(c, Len(x)) \in Seq(Byte) /\ c = x \o Drop(c, Len(x))
          /\ IsPrefix(Drop(c, Len(x)), z)
      BY <1>1, <1>3, <2>1, BytesBehind
    <2> QED BY <1>1, <2>2
  <1>6. f \o d \in Seq(Byte) /\ IsPrefix(f \o d, f \o z)
    <2>1. f \o d \in Seq(Byte)
      BY <1>5, ConcatBytes
    <2>2. PICK y \in Seq(Byte) : z = d \o y
      <3>1. Drop(z, Len(d)) \in Seq(Byte) /\ z = d \o Drop(z, Len(d))
        BY <1>5, BytesRest
      <3> QED BY <3>1, Zenon
    <2>3. Assoc(f, d, y)
      BY <1>5, AssocBytes
    <2>4. IsPrefix(f \o d, (f \o d) \o y)
      BY <2>1, PrefixOf
    <2> QED BY <2>1, <2>2, <2>3, <2>4 DEF Assoc
  <1>7. ASSUME c \o r = f \o w PROVE (f \o d) \o r = f \o z
    <2>1. Assoc(x, d, r) /\ Assoc(f, d, r)
      BY <1>1, <1>5, AssocBytes
    <2>2. x \o (d \o r) = x \o z
      BY <1>2, <1>5, <1>7, <2>1 DEF Assoc
    <2>3. d \o r \in Seq(Byte)
      BY <1>5, ConcatBytes
    <2>4. d \o r = z
      BY <1>1, <2>2, <2>3, BytesCancel
    <2> QED BY <2>1, <2>4 DEF Assoc
  <1> QED BY <1>4, <1>5, <1>6, <1>7 DEF LineGone

(* A line break in front of anything is an empty line.                     *)
LEMMA EmptyLine ==
    ASSUME NEW z \in Seq(Byte)
    PROVE  <<>> \in Seq(Digits) /\ <<>> \o (EOL \o z) = EOL \o z /\ EOL \o z \in Seq(Byte)
PROOF
  <1>1. EOL \o z \in Seq(Byte)
    BY Eol, ConcatBytes
  <1> QED BY <1>1, EmptySeq, ConcatEmptySeq

(* The parser is in the stream.                                            *)
LEMMA Parsed ==
    ASSUME RInv, pc \in ParserPc
    PROVE  /\ mode = "chunk" /\ out = <<>> /\ Got = buf /\ link # "off"
           /\ \E i \in 0..Len(body) : \E t \in Tails(i) : Flows(i, t) /\ Parsing(i)
PROOF
  <1>1. mode # "unknown"
    BY DEF RInv, GaveUp, ParserPc
  <1>2. link # "off" /\ \E i \in 0..Len(body) : \E t \in Tails(i) : Flows(i, t) /\ Parsing(i)
    BY <1>1 DEF RInv, InStream
  <1>3. mode = "chunk" /\ out = <<>>
    BY <1>2 DEF Parsing
  <1>4. <<>> \o buf = buf
    <2>1. buf \in Seq(Byte)
      BY DEF RInv, TypeOK
    <2> QED BY <2>1, ConcatEmptySeq
  <1> QED BY <1>2, <1>3, <1>4 DEF Got

(* Where the next size is looked for, there is a size line, or the last    *)
(* line break, or nothing.                                                 *)
SizeLineAt(h, z, i) ==
    /\ h \in Seq(Digits) /\ z \in Seq(Byte)
    /\ IF lastHeld THEN h = <<>> /\ z = <<>> /\ i = 0
       ELSE h = Hex(Size(body, i + 1)) /\ z = Behind(body, i + 1)

LEMMA HeldSeen ==
    ASSUME TypeOK, NEW i \in 0..Len(body), NEW t \in Tails(i), Flows(i, t), Parsing(i), Got = buf,
           total < Len(buf), SizeAt <= Len(buf)
    PROVE  /\ Held \in Seq(Byte) /\ Len(Held) <= Len(buf) - SizeAt
           /\ SizeAt = Len(Before(i)) + Len(Break(i)) /\ Len(Before(i)) = total
           /\ \/ lastHeld /\ Len(Held) = 0
              \/ \E h, z : /\ SizeLineAt(h, z, i) /\ IsPrefix(Held, h \o (EOL \o z))
                           /\ Whole(i, t) = Before(i) \o (Break(i) \o (h \o (EOL \o z)))
PROOF
  <1>1. /\ BodyOK /\ buf \in Seq(Byte) /\ Len(buf) \in Nat /\ t \in Seq(Byte)
        /\ total = Ends(body)[i] /\ total \in Nat /\ mode = "chunk"
    BY TypedBody, GotBytes, TailBytes DEF TypeOK, Parsing
  <1>2. /\ Before(i) \in Seq(Byte) /\ Len(Before(i)) = total /\ (total = 0 <=> i = 0)
        /\ Break(i) \in Seq(Byte) /\ Len(Break(i)) = (IF i = 0 THEN 0 ELSE 2)
    BY <1>1, BeforeTail, NextLine
  <1>3. SizeAt = total + Len(Break(i)) /\ SizeAt \in Nat
    BY <1>1, <1>2 DEF SizeAt
  <1>4. IsPrefix(buf, Before(i) \o t)
    BY DEF Flows, Whole
  <1> PICK d : d = Drop(buf, SizeAt)
    OBVIOUS
  <1>5. d \in Seq(Byte) /\ Len(d) = Len(buf) - SizeAt
    BY <1>1, <1>3, DropBytes
  <1> PICK k : k = Least({PEEK, Len(buf) - SizeAt})
    OBVIOUS
  <1>6. k \in 0..Len(d) /\ Held = First(d, k)
    <2>1. Len(buf) - SizeAt \in Nat /\ PEEK \in Nat
      BY <1>1, <1>3, Sizes
    <2> QED BY <1>5, <2>1, LeastOfTwo DEF Held
  <1>7. Held \in Seq(Byte) /\ Len(Held) <= Len(buf) - SizeAt /\ Len(Held) \in Nat /\ IsPrefix(Held, d)
    BY <1>5, <1>6, FirstBytes, FirstIsPrefix
  <1>8. CASE ~lastHeld
    <2> PICK h, z : h = Hex(Size(body, i + 1)) /\ z = Behind(body, i + 1)
      OBVIOUS
    <2>1. /\ t = Break(i) \o Onward(body)[i + 1] /\ Onward(body)[i + 1] \in Seq(Byte)
          /\ Onward(body)[i + 1] = h \o (EOL \o z)
          /\ h \in Seq(Digits) /\ z \in Seq(Byte)
      BY <1>1, <1>8, NextLine, HexBytes DEF Tails
    <2> PICK w, fb : w = Onward(body)[i + 1] /\ fb = Before(i) \o Break(i)
      OBVIOUS
    <2>2. fb \in Seq(Byte) /\ Len(fb) = SizeAt
      BY <1>2, <1>3, ConcatBytes
    <2>3. Assoc(Before(i), Break(i), w)
      BY <1>2, <2>1, AssocBytes
    <2>4. IsPrefix(buf, fb \o w)
      BY <1>4, <2>1, <2>3 DEF Assoc
    <2>5. IsPrefix(d, w)
      <3>1. w \in Seq(Byte) /\ Len(fb) <= Len(buf)
        BY <2>1, <2>2
      <3>2. IsPrefix(Drop(buf, Len(fb)), w)
        BY <1>1, <2>2, <2>4, <3>1, PrefixBehind
      <3> QED BY <2>2, <3>2
    <2>6. IsPrefix(Held, w)
      BY <1>5, <1>7, <2>1, <2>5, PrefixTransitive
    <2>7. SizeLineAt(h, z, i)
      BY <1>8, <2>1 DEF SizeLineAt
    <2>8. Whole(i, t) = Before(i) \o (Break(i) \o (h \o (EOL \o z)))
      BY <2>1 DEF Whole
    <2> QED BY <1>2, <1>3, <1>7, <2>1, <2>6, <2>7, <2>8
  <1>9. CASE lastHeld /\ i # 0
    <2>1. t = EOL
      BY <1>1, <1>9 DEF Tails
    <2>2. Len(Before(i) \o t) = total + 2
      BY <1>2, <2>1, Eol, ConcatBytes
    <2>3. Len(buf) <= total + 2
      BY <1>4, <2>2 DEF IsPrefix
    <2>4. Len(Held) = 0
      BY <1>1, <1>2, <1>3, <1>7, <1>9, <2>3
    <2> QED BY <1>2, <1>3, <1>7, <1>9, <2>4
  <1>10. CASE lastHeld /\ i = 0
    <2>1. Before(i) = <<>> /\ Break(i) = <<>> /\ total = 0 /\ SizeAt = 0
      BY <1>1, <1>2, <1>10, BeforeTail DEF Break, SizeAt
    <2>2. IsPrefix(buf, t) /\ Whole(i, t) = t
      <3>1. <<>> \o t = t
        BY <1>1, ConcatEmptySeq
      <3> QED BY <1>4, <2>1, <3>1 DEF Whole
    <2>3. t = EOL
      <3>1. t = EOL \/ t = <<>>
        BY <1>1, <1>10 DEF Tails
      <3>2. Len(buf) > 0 /\ Len(buf) <= Len(t)
        BY <1>1, <2>1, <2>2 DEF IsPrefix
      <3> QED BY <1>1, <3>1, <3>2
    <2>4. /\ <<>> \in Seq(Byte) /\ EOL \in Seq(Byte)
          /\ EOL \o <<>> = EOL /\ <<>> \o EOL = EOL
      BY Eol, EmptySeq, ConcatEmptySeq
    <2>5. <<>> \in Seq(Digits)
      BY EmptySeq
    <2>6. SizeLineAt(<<>>, <<>>, i)
      BY <1>10, <2>4, <2>5 DEF SizeLineAt
    <2>7. d = buf
      BY <1>1, <2>1, SubSeqFull DEF Drop
    <2>8. IsPrefix(Held, EOL)
      BY <1>1, <1>7, <2>2, <2>3, <2>4, <2>7, PrefixTransitive
    <2>9. IsPrefix(Held, <<>> \o (EOL \o <<>>))
      BY <2>4, <2>8
    <2>10. Whole(i, t) = Before(i) \o (Break(i) \o (<<>> \o (EOL \o <<>>)))
      BY <2>1, <2>2, <2>3, <2>4
    <2> QED BY <1>2, <1>3, <1>7, <2>6, <2>9, <2>10
  <1> QED BY <1>8, <1>9, <1>10

(* A step that takes the size line of chunk i + 1 off the stream: what is  *)
(* left is the next chunk and what follows it, or the end.                 *)
LineTaken(i, z) ==
    /\ IsPrefix(Got', Before(i) \o z)
    /\ link' # "rst" => Got' \o (conn' \o sending') = Before(i) \o z

LEMMA LineStep ==
    ASSUME BodyOK, NEW i \in 0..Len(body), UNCHANGED body, ~lastHeld,
           LineTaken(i, Behind(body, i + 1)),
           mode' # "complete", lastHeld' = (Size(body, i + 1) = 0)
    PROVE  LET j == IF Size(body, i + 1) = 0 THEN i ELSE i + 1
           IN  /\ j \in 0..Len(body) /\ Ends(body)[j] = Ends(body)[i] + Size(body, i + 1)
               /\ j = 0 => lastHeld'
               /\ \E t \in Tails(j)' : Flows(j, t)'
PROOF
  <1>1. Len(body) \in Nat /\ Size(body, i + 1) \in Nat /\ Ends(body)[i] \in Nat
    BY NextLine, BeforeTail, LenProperties DEF BodyOK
  <1>2. CASE Size(body, i + 1) = 0
    <2>1. i = Len(body) /\ Behind(body, i + 1) = EOL
      BY <1>2, NextLine
    <2>2. Whole(i, EOL)' = Before(i) \o EOL
      BY DEF Whole, Before
    <2>3. EOL \in Tails(i)'
      BY <1>2 DEF Tails
    <2>4. Flows(i, EOL)'
      BY <2>1, <2>2 DEF Flows, LineTaken
    <2>5. lastHeld' /\ Ends(body)[i] = Ends(body)[i] + Size(body, i + 1)
      <3>1. lastHeld'
        BY <1>2, Zenon
      <3>2. Ends(body)[i] = Ends(body)[i] + Size(body, i + 1)
        BY <1>1, <1>2
      <3> QED BY <3>1, <3>2
    <2> QED BY <1>2, <2>3, <2>4, <2>5
  <1>3. CASE Size(body, i + 1) > 0
    <2> PICK t : t = Break(i + 1) \o Onward(body)[(i + 1) + 1]
      OBVIOUS
    <2>1. /\ i + 1 \in 1..Len(body) /\ Ends(body)[i + 1] = Ends(body)[i] + Size(body, i + 1)
          /\ Before(i) \o Behind(body, i + 1) = Whole(i + 1, t)
      BY <1>3, NextLine
    <2>2. Whole(i + 1, t)' = Whole(i + 1, t)
      BY DEF Whole, Before
    <2>3. ~lastHeld'
      <3>1. Size(body, i + 1) # 0
        BY <1>1, <1>3
      <3> QED BY <3>1, Zenon
    <2>4. t \in Tails(i + 1)'
      BY <2>3 DEF Tails, Break
    <2>5. Flows(i + 1, t)'
      BY <2>1, <2>2, <2>3 DEF Flows, LineTaken
    <2>6. i + 1 \in 0..Len(body) /\ i + 1 # 0 /\ Size(body, i + 1) # 0
      BY <1>1, <1>3, <2>1
    <2> QED BY <2>1, <2>4, <2>5, <2>6
  <1> QED BY <1>1, <1>2, <1>3

(* A size line is taken out of the buffer.                                 *)
LEMMA ParseHeldStep == ASSUME RInv, ParseHeld PROVE RInv'
PROOF
  <1> USE DEF fixedVars, netVars, callVars, readerVars
  <1>1. TypeOK /\ BodyOK /\ pc = "parse" /\ pc \in ParserPc /\ total < Len(buf) /\ SizeAt <= Len(buf)
        /\ HasEol(Held)
    BY TypedBody DEF RInv, ParseHeld, ParserPc
  <1>2. mode = "chunk" /\ out = <<>> /\ Got = buf /\ link # "off"
    BY <1>1, Parsed
  <1> PICK i \in 0..Len(body) : \E t \in Tails(i) : Flows(i, t) /\ Parsing(i)
    BY <1>1, Parsed
  <1> PICK t \in Tails(i) : Flows(i, t) /\ Parsing(i)
    OBVIOUS
  <1>3. /\ Held \in Seq(Byte) /\ Len(Held) <= Len(buf) - SizeAt
        /\ SizeAt = Len(Before(i)) + Len(Break(i)) /\ Len(Before(i)) = total
        /\ \/ lastHeld /\ Len(Held) = 0
           \/ \E h, z : /\ SizeLineAt(h, z, i) /\ IsPrefix(Held, h \o (EOL \o z))
                        /\ Whole(i, t) = Before(i) \o (Break(i) \o (h \o (EOL \o z)))
    BY <1>1, <1>2, HeldSeen
  <1>4. Len(Held) # 0
    <2>1. Least(EolAt(Held)) \in 1..Len(Held) - 1
      BY <1>1, <1>3, EolFound
    <2> QED BY <2>1
  <1> PICK h, z : /\ SizeLineAt(h, z, i) /\ IsPrefix(Held, h \o (EOL \o z))
                  /\ Whole(i, t) = Before(i) \o (Break(i) \o (h \o (EOL \o z)))
    BY <1>3, <1>4
  <1>5. h \in Seq(Digits) /\ h \in Seq(Byte) /\ z \in Seq(Byte) /\ Len(h) \in Nat
    <2>1. Seq(Digits) \subseteq Seq(Byte)
      BY SeqMonotonic DEF Digits, Byte
    <2> QED BY <2>1, LenProperties DEF SizeLineAt
  <1>6. Line(Held) = h /\ IsHex(h) /\ Len(Held) >= Len(h) + 2
    BY <1>1, <1>3, <1>5, SizeLineSeen
  <1>7. /\ buf \in Seq(Byte) /\ conn \in Seq(Byte) /\ sending \in Seq(Byte) /\ Len(buf) \in Nat
        /\ conn \o sending \in Seq(Byte) /\ total \in Nat
    BY <1>1, GotBytes DEF TypeOK
  <1>8. /\ Before(i) \in Seq(Byte) /\ Break(i) \in Seq(Byte) /\ (total = 0 <=> i = 0)
        /\ Len(Break(i)) = (IF i = 0 THEN 0 ELSE 2) /\ Len(Before(i)) \in Nat
    BY <1>1, <1>7, BeforeTail, NextLine DEF Parsing
  <1> PICK n : n = total + Len(Break(i)) + Len(h) + 2
    OBVIOUS
  <1>9. n \in Nat /\ n <= Len(buf) /\ n = total + Len(h) + (IF total = 0 THEN 2 ELSE 4)
    <2> PICK b, g, l : b = Len(Break(i)) /\ g = Len(Held) /\ l = Len(h)
      OBVIOUS
    <2>1. b = (IF total = 0 THEN 0 ELSE 2) /\ l \in Nat /\ g \in Nat
      BY <1>3, <1>5, <1>8, LenProperties
    <2>2. g <= Len(buf) - SizeAt /\ SizeAt = total + b /\ g >= l + 2 /\ n = total + b + l + 2
      BY <1>3, <1>6
    <2>3. total = 0 \/ total # 0
      OBVIOUS
    <2> PICK a, m : a = SizeAt /\ m = Len(buf)
      OBVIOUS
    <2>4. g <= m - a /\ a = total + b /\ g >= l + 2 /\ n = total + b + l + 2 /\ m \in Nat
      BY <1>7, <2>2
    <2>5. CASE total = 0
      <3>1. b = 0
        BY <2>1, <2>5
      <3>2. n = l + 2 /\ n <= m
        BY <2>1, <2>4, <2>5, <3>1
      <3> QED BY <1>7, <2>1, <2>5, <3>2
    <2>6. CASE total # 0
      <3>1. b = 2
        BY <2>1, <2>6
      <3>2. n = total + l + 4 /\ n <= m
        BY <1>7, <2>1, <2>4, <3>1
      <3> QED BY <1>7, <2>1, <2>6, <3>2
    <2> QED BY <2>5, <2>6
  <1>10. /\ First(buf, total) = Before(i) /\ Before(i) \o Drop(buf, n) \in Seq(Byte)
         /\ IsPrefix(Before(i) \o Drop(buf, n), Before(i) \o z)
         /\ link # "rst" => (Before(i) \o Drop(buf, n)) \o (conn \o sending) = Before(i) \o z
    <2>1. IsPrefix(buf, Before(i) \o (Break(i) \o (h \o (EOL \o z))))
      BY <1>2 DEF Flows
    <2>2. n = Len(Before(i)) + Len(Break(i)) + Len(h) + 2
      BY <1>3
    <2>3. link # "rst" => buf \o (conn \o sending) = Before(i) \o (Break(i) \o (h \o (EOL \o z)))
      BY <1>2 DEF Flows
    <2> PICK r : r = conn \o sending
      OBVIOUS
    <2>4. LineGone(Before(i), Break(i), h, z, buf, r, n)
      BY <1>5, <1>7, <1>8, <1>9, <2>1, <2>2, LineOut
    <2> QED BY <1>3, <2>3, <2>4 DEF LineGone
  <1>11. /\ buf' = Before(i) \o Drop(buf, n)
         /\ next' = HexToSize(h) /\ total' = total + HexToSize(h) /\ lastHeld' = (HexToSize(h) = 0)
         /\ UNCHANGED <<body, reader, sending, link, conn, mode, pc, ask, result, out, outcome>>
    <2>1. buf' = RemoveLine(h)
      BY <1>6 DEF ParseHeld
    <2>2. buf' = Before(i) \o Drop(buf, n)
      BY <1>9, <1>10, <2>1 DEF RemoveLine
    <2> QED BY <1>6, <2>2 DEF ParseHeld
  <1>12. HexToSize(h) \in Nat
    <2>1. CASE lastHeld
      BY <2>1, SizeEmpty DEF SizeLineAt
    <2>2. CASE ~lastHeld
      BY <1>1, <2>2, NextLine, HexSize DEF SizeLineAt
    <2> QED BY <2>1, <2>2
  <1>13. TypeOK'
    <2>1. buf' \in Seq(Byte) /\ next' \in Nat /\ total' \in Nat /\ lastHeld' \in BOOLEAN
      BY <1>7, <1>10, <1>11, <1>12
    <2> QED BY <1>1, <1>11, <2>1 DEF TypeOK
  <1>14. Got' = buf' /\ out' = <<>>
    <2>1. out' = <<>> /\ buf' \in Seq(Byte)
      BY <1>2, <1>10, <1>11
    <2>2. <<>> \o buf' = buf'
      BY <2>1, ConcatEmptySeq
    <2> QED BY <2>1, <2>2 DEF Got
  <1>15. LineTaken(i, z)
    BY <1>10, <1>11, <1>14 DEF LineTaken
  <1>16. \E j \in 0..Len(body) : \E u \in Tails(j)' : Flows(j, u)' /\ Parsing(j)'
    <2>1. CASE lastHeld
      <3>1. h = <<>> /\ z = <<>> /\ i = 0 /\ HexToSize(h) = 0 /\ lastHeld'
        BY <1>11, <2>1, SizeEmpty DEF SizeLineAt
      <3>2. <<>> \in Tails(0)'
        BY <1>2, <1>11, <3>1 DEF Tails
      <3>3. Whole(0, <<>>)' = Before(0) \o <<>>
        BY <1>11 DEF Whole, Before
      <3>4. (lastHeld \/ mode = "complete" => i = Len(body))'
        BY <1>11, <2>1 DEF Flows
      <3>5. Flows(0, <<>>)'
        BY <1>15, <3>1, <3>3, <3>4 DEF Flows, LineTaken
      <3>6. Parsing(0)'
        BY <1>2, <1>7, <1>11, <1>14, <3>1 DEF Parsing
      <3> QED BY <3>1, <3>2, <3>5, <3>6
    <2>2. CASE ~lastHeld
      <3>1. /\ h = Hex(Size(body, i + 1)) /\ z = Behind(body, i + 1)
            /\ HexToSize(h) = Size(body, i + 1)
        BY <1>1, <2>2, NextLine, HexSize DEF SizeLineAt
      <3> PICK j : j = IF Size(body, i + 1) = 0 THEN i ELSE i + 1
        OBVIOUS
      <3>2. /\ j \in 0..Len(body) /\ Ends(body)[j] = Ends(body)[i] + Size(body, i + 1)
            /\ j = 0 => lastHeld'
            /\ \E u \in Tails(j)' : Flows(j, u)'
        BY <1>1, <1>2, <1>11, <1>15, <2>2, <3>1, LineStep
      <3>3. Parsing(j)'
        BY <1>2, <1>11, <1>14, <3>1, <3>2 DEF Parsing
      <3> QED BY <3>2, <3>3
    <2> QED BY <2>1, <2>2
  <1>17. InStream'
    <2>1. pc' \in ParserPc /\ link' # "off" /\ body' = body
      BY <1>1, <1>2, <1>11
    <2> QED BY <1>16, <2>1 DEF InStream
  <1>18. GaveUp' /\ ResetEmpty' /\ NoFalseAlarm'
    BY <1>2, <1>11 DEF RInv, GaveUp, ResetEmpty, NoFalseAlarm
  <1> QED BY <1>13, <1>17, <1>18 DEF RInv

(* While a size line is not all there, there is no LF.                     *)
LEMMA HeldNoLF ==
    ASSUME RInv, pc \in ParserPc, total < Len(buf), SizeAt <= Len(buf), ~HasEol(Held)
    PROVE  Held \in Seq(Byte) /\ \A k \in 1..Len(Held) : Held[k] # LF
PROOF
  <1>1. TypeOK
    BY DEF RInv
  <1>2. mode = "chunk" /\ Got = buf
    BY Parsed
  <1> PICK i \in 0..Len(body) : \E t \in Tails(i) : Flows(i, t) /\ Parsing(i)
    BY Parsed
  <1> PICK t \in Tails(i) : Flows(i, t) /\ Parsing(i)
    OBVIOUS
  <1>3. /\ Held \in Seq(Byte)
        /\ \/ lastHeld /\ Len(Held) = 0
           \/ \E h, z : SizeLineAt(h, z, i) /\ IsPrefix(Held, h \o (EOL \o z))
    BY <1>1, <1>2, HeldSeen
  <1>4. CASE Len(Held) = 0
    BY <1>3, <1>4
  <1>5. CASE \E h, z : SizeLineAt(h, z, i) /\ IsPrefix(Held, h \o (EOL \o z))
    <2> PICK h, z : SizeLineAt(h, z, i) /\ IsPrefix(Held, h \o (EOL \o z))
      BY <1>5
    <2>1. h \in Seq(Digits) /\ z \in Seq(Byte)
      BY DEF SizeLineAt
    <2> QED BY <1>3, <2>1, SizeLineSeen
  <1> QED BY <1>3, <1>4, <1>5

(* Bytes are pulled up to the first line break, which is in the connection *)
(* because what was held has no LF, or the parser gives up.                *)
LEMMA PullStep ==
    ASSUME RInv, pc = "parse", NEW held \in Seq(Byte), \A k \in 1..Len(held) : held[k] # LF,
           Pull(held), UNCHANGED <<body, reader, sending, ask, result, out, outcome, lastHeld>>
    PROVE  RInv'
PROOF
  <1>1. TypeOK /\ ResetEmpty /\ pc \in ParserPc
    BY DEF RInv, ParserPc
  <1>2. mode = "chunk" /\ out = <<>> /\ Got = buf /\ link # "off"
    BY <1>1, Parsed
  <1>3. /\ buf \in Seq(Byte) /\ conn \in Seq(Byte) /\ sending \in Seq(Byte)
        /\ Len(conn) \in Nat /\ Len(buf) \in Nat
    BY <1>1, GotBytes
  <1>4. UNCHANGED <<next, total>>
    BY DEF Pull
  <1>5. CASE GiveUp
    <2>1. buf' = <<>> /\ mode' = "unknown" /\ link' = "off" /\ pc' = "idle" /\ conn' = conn
      BY <1>5 DEF GiveUp
    <2>2. TypeOK'
      BY <1>1, <1>4, <2>1, EmptySeq DEF TypeOK
    <2>3. Got' = <<>>
      <3>1. <<>> \o <<>> = <<>>
        BY EmptySeq, ConcatEmptySeq
      <3> QED BY <1>2, <2>1, <3>1 DEF Got
    <2>4. GaveUp' /\ ResetEmpty' /\ InStream' /\ NoFalseAlarm'
      BY <2>1, <2>3 DEF GaveUp, ResetEmpty, InStream, RInv, NoFalseAlarm
    <2> QED BY <2>2, <2>4 DEF RInv
  <1>6. CASE ~GiveUp
    <2> PICK p : p = Pulled(held)
      OBVIOUS
    <2> PICK n : n = Least(EolAt(p)) + 1
      OBVIOUS
    <2>1. /\ link # "rst" /\ HasEol(p)
          /\ buf' = buf \o First(p, n) /\ conn' = Drop(conn, n) /\ UNCHANGED <<mode, link, pc>>
      BY <1>6 DEF Pull
    <2> PICK k, m : k = Least({PEEK, Len(conn)}) /\ m = Least({k, Len(held)})
      OBVIOUS
    <2>2. /\ k \in 0..Len(conn) /\ m \in 0..Len(held) /\ Len(held) \in Nat
      <3>1. Len(held) \in Nat /\ PEEK \in Nat
        BY LenProperties, Sizes
      <3>2. k \in 0..Len(conn)
        <4>1. k = IF PEEK <= Len(conn) THEN PEEK ELSE Len(conn)
          BY <1>3, <3>1, LeastOfTwo
        <4> QED BY <1>3, <3>1, <4>1
      <3>3. m = IF k <= Len(held) THEN k ELSE Len(held)
        <4>1. k \in Nat
          BY <3>2
        <4> QED BY <3>1, <4>1, LeastOfTwo
      <3> QED BY <3>1, <3>2, <3>3
    <2>3. p = First(conn, k) \o Drop(held, m)
      BY DEF Pulled
    <2>4. /\ First(conn, k) \in Seq(Byte) /\ Len(First(conn, k)) = k
          /\ \A j \in 1..k : First(conn, k)[j] = conn[j]
      BY <1>3, <2>2, FirstBytes
    <2>5. /\ Drop(held, m) \in Seq(Byte) /\ Len(Drop(held, m)) = Len(held) - m
          /\ \A j \in 1..(Len(held) - m) : Drop(held, m)[j] = held[m + j]
      BY <2>2, Cut
    <2>6. /\ p \in Seq(Byte) /\ Len(p) = k + (Len(held) - m)
          /\ \A j \in 1..k + (Len(held) - m) :
                p[j] = IF j <= k THEN conn[j] ELSE held[m + (j - k)]
      <3> PICK a, b : a = First(conn, k) /\ b = Drop(held, m)
        OBVIOUS
      <3>1. a \in Seq(Byte) /\ b \in Seq(Byte) /\ Len(a) = k /\ Len(b) = Len(held) - m /\ p = a \o b
        BY <2>3, <2>4, <2>5
      <3>2. /\ a \o b \in Seq(Byte) /\ Len(a \o b) = Len(a) + Len(b)
            /\ \A j \in 1..Len(a) + Len(b) : (a \o b)[j] = IF j <= Len(a) THEN a[j] ELSE b[j - Len(a)]
        <4>1. a \in Seq(Byte) /\ b \in Seq(Byte)
          BY <3>1
        <4> QED BY <4>1, ConcatBytes
      <3>3. \A j \in 1..k + (Len(held) - m) : p[j] = IF j <= k THEN a[j] ELSE b[j - k]
        <4> PICK g : g = a \o b
          OBVIOUS
        <4>1. /\ p = g
              /\ \A j \in 1..Len(a) + Len(b) : g[j] = IF j <= Len(a) THEN a[j] ELSE b[j - Len(a)]
          BY <3>1, <3>2
        <4>2. Len(a) = k /\ Len(b) = Len(held) - m
          BY <3>1
        <4> QED BY <4>1, <4>2
      <3>4. \A j \in 1..k : a[j] = conn[j]
        BY <2>4
      <3>5. \A j \in 1..(Len(held) - m) : b[j] = held[m + j]
        BY <2>5
      <3>6. ASSUME NEW j \in 1..k + (Len(held) - m)
            PROVE  p[j] = IF j <= k THEN conn[j] ELSE held[m + (j - k)]
        <4>1. k \in Nat /\ Len(held) - m \in Nat
          BY <2>2
        <4>2. CASE j <= k
          <5>1. j \in 1..k
            BY <4>1, <4>2
          <5> QED BY <3>3, <3>4, <4>2, <5>1
        <4>3. CASE ~(j <= k)
          <5>1. j - k \in 1..(Len(held) - m)
            BY <4>1, <4>3
          <5> QED BY <3>3, <3>5, <4>3, <5>1
        <4> QED BY <4>2, <4>3
      <3> QED BY <3>1, <3>2, <3>6
    <2>7. n \in 2..Len(p) /\ p[n] = LF
      <3>1. Least(EolAt(p)) \in 1..Len(p) - 1 /\ p[Least(EolAt(p)) + 1] = LF
        BY <2>1, <2>6, EolFound
      <3>2. Len(p) \in Nat
        BY <2>6, LenProperties
      <3> QED BY <3>1, <3>2
    <2>8. n <= k
      <3> SUFFICES ASSUME ~(n <= k) PROVE FALSE
        OBVIOUS
      <3>1. n \in 1..k + (Len(held) - m) /\ k \in Nat /\ m \in Nat /\ n \in Nat
        BY <2>2, <2>6, <2>7
      <3>2. p[n] = held[m + (n - k)]
        BY <2>6, <3>1
      <3>3. m + (n - k) \in 1..Len(held)
        BY <2>2, <3>1
      <3> QED BY <2>7, <3>2, <3>3
    <2>9. n \in 0..Len(conn) /\ n \in 0..Len(p) /\ n >= 2
      BY <1>3, <2>2, <2>6, <2>7, <2>8
    <2>10. First(p, n) = First(conn, n) /\ First(conn, n) \in Seq(Byte) /\ Len(First(conn, n)) = n
           /\ Drop(conn, n) \in Seq(Byte)
      <3>1. /\ First(p, n) \in Seq(Byte) /\ Len(First(p, n)) = n
            /\ \A j \in 1..n : First(p, n)[j] = p[j]
        BY <2>6, <2>9, FirstBytes
      <3>2. /\ First(conn, n) \in Seq(Byte) /\ Len(First(conn, n)) = n
            /\ \A j \in 1..n : First(conn, n)[j] = conn[j]
        BY <1>3, <2>9, FirstBytes
      <3>3. \A j \in 1..n : p[j] = conn[j]
        <4> TAKE j \in 1..n
        <4>1. j <= k /\ j \in 1..k + (Len(held) - m)
          BY <2>2, <2>7, <2>8
        <4> QED BY <2>6, <4>1
      <3>4. First(p, n) = First(conn, n)
        BY <3>1, <3>2, <3>3, SeqEqual
      <3>5. Drop(conn, n) \in Seq(Byte)
        BY <1>3, <2>9, Cut
      <3> QED BY <3>2, <3>4, <3>5
    <2>11. /\ buf' = buf \o First(conn, n) /\ buf' \in Seq(Byte) /\ Len(buf') = Len(buf) + n
           /\ conn' \in Seq(Byte)
      <3>1. buf' = buf \o First(conn, n)
        BY <2>1, <2>10
      <3>2. /\ buf \o First(conn, n) \in Seq(Byte)
            /\ Len(buf \o First(conn, n)) = Len(buf) + Len(First(conn, n))
        BY <1>3, <2>10, ConcatBytes
      <3> QED BY <2>1, <2>10, <3>1, <3>2
    <2>12. TypeOK'
      BY <1>1, <1>4, <2>1, <2>11 DEF TypeOK
    <2>13. Got' = Got \o First(conn, n)
      <3>1. <<>> \o buf' = buf'
        BY <2>11, ConcatEmptySeq
      <3> QED BY <1>2, <2>11, <3>1 DEF Got
    <2>14. Moves
      <3>1. Pulls(Got, conn, n, sending)
        BY <1>1, <1>3, <2>9, GotBytes, Pulling
      <3> QED BY <2>1, <2>13, <3>1 DEF Moves, Pulls
    <2>15. Quiet
      BY <1>2, <2>1, <2>12 DEF Quiet, GaveUp, ResetEmpty
    <2>16. buf' # <<>>
      <3>1. Len(buf') # 0
        BY <1>3, <2>9, <2>11
      <3> QED BY <3>1, EmptySeq
    <2>17. pc' \in ParserPc
      BY <1>1, <2>1
    <2> QED BY <1>1, <1>4, <2>14, <2>15, <2>16, <2>17, ParserMoves
  <1> QED BY <1>5, <1>6

LEMMA ParsePullStep == ASSUME RInv, ParsePull PROVE RInv'
PROOF
  <1> PICK held : held = Held
    OBVIOUS
  <1>1. /\ pc = "parse" /\ total < Len(buf) /\ SizeAt <= Len(buf) /\ ~HasEol(Held) /\ Pull(held)
        /\ UNCHANGED <<body, reader, sending, ask, result, out, outcome, lastHeld>>
    BY DEF ParsePull, fixedVars, callVars, readerVars
  <1>2. held \in Seq(Byte) /\ \A k \in 1..Len(held) : held[k] # LF
    BY <1>1, HeldNoLF DEF ParserPc
  <1> QED BY <1>1, <1>2, PullStep

(* Where nothing is held the bytes are pulled just so, or the parser stays *)
(* where it is for good.                                                   *)
LEMMA ParseStaleStep == ASSUME RInv, ParseStale PROVE RInv'
PROOF
  <1>1. /\ pc = "parse"
        /\ UNCHANGED <<body, reader, sending, ask, result, out, outcome, lastHeld>>
    BY DEF ParseStale, fixedVars, callVars, readerVars
  <1>2. CASE Pull(<<>>)
    <2>1. <<>> \in Seq(Byte) /\ \A k \in 1..Len(<<>>) : <<>>[k] # LF
      BY EmptySeq
    <2> QED BY <1>1, <1>2, <2>1, PullStep
  <1>3. CASE ~Pull(<<>>)
    <2>1. pc' \in {"spin", "crash"} /\ UNCHANGED <<conn, buf, mode, link, next, total>>
      BY <1>3 DEF ParseStale
    <2>2. TypeOK /\ ResetEmpty /\ pc \in ParserPc /\ pc' \in ParserPc
      BY <1>1, <2>1 DEF RInv, ParserPc
    <2>3. mode = "chunk" /\ link # "off"
      BY <2>2, Parsed
    <2>4. TypeOK' /\ Got' = Got
      BY <1>1, <2>1, <2>2 DEF TypeOK, Got
    <2>5. Quiet
      BY <1>1, <2>1, <2>2, <2>3, <2>4 DEF Quiet, GaveUp, ResetEmpty
    <2>6. Moves
      BY <1>1, <2>1, <2>4 DEF Moves
    <2> QED BY <1>1, <2>1, <2>2, <2>5, <2>6, ParserMoves
  <1> QED BY <1>2, <1>3

(* The parser is done: the rest of the chunk has not arrived.              *)
LEMMA ParseDoneStep == ASSUME RInv, ParseDone PROVE RInv'
PROOF
  <1>1. /\ pc = "parse" /\ pc \in ParserPc /\ total >= Len(buf) /\ next' = total - Len(buf) /\ pc' = "idle"
        /\ UNCHANGED <<body, reader, sending, link, conn, buf, mode, total, ask, result, out,
                       outcome, lastHeld>>
    BY DEF ParseDone, fixedVars, netVars, callVars, readerVars, ParserPc
  <1>2. TypeOK /\ ResetEmpty /\ mode = "chunk" /\ Got = buf /\ Got' = Got /\ link # "off"
    BY <1>1, Parsed DEF RInv, Got
  <1> PICK i \in 0..Len(body) : \E t \in Tails(i) : Flows(i, t) /\ Parsing(i)
    BY <1>1, Parsed
  <1> PICK t \in Tails(i) : Flows(i, t) /\ Parsing(i)
    OBVIOUS
  <1>3. Len(buf) \in Nat /\ total \in Nat /\ next' \in Nat
    <2>1. Len(buf) \in Nat /\ total \in Nat
      BY <1>2, GotBytes DEF TypeOK
    <2> QED BY <1>1, <2>1
  <1>4. TypeOK'
    BY <1>1, <1>2, <1>3 DEF TypeOK
  <1>5. Moves
    BY <1>1, <1>2 DEF Moves
  <1>6. t \in Tails(i)' /\ Flows(i, t)' /\ i \in 0..Len(body')
    BY <1>1, <1>2, <1>4, <1>5, FlowsOn
  <1>7. i = 0 => lastHeld
    <2> SUFFICES ASSUME i = 0, ~lastHeld PROVE FALSE
      OBVIOUS
    <2>1. buf # <<>> /\ total = 0
      <3>1. BodyOK
        BY <1>2, TypedBody
      <3> QED BY <3>1, BeforeTail DEF Parsing
    <2> QED BY <1>1, <1>2, <1>3, <2>1, EmptySeq DEF TypeOK
  <1>8. Reading(i)'
    <2>1. Len(Got') + next' = Ends(body')[i]
      <3>1. total = Ends(body)[i]
        BY DEF Parsing
      <3> QED BY <1>1, <1>2, <1>3, <3>1
    <2>2. next' # -1 /\ mode' # "complete"
      BY <1>1, <1>2, <1>3
    <2> QED BY <1>1, <1>7, <2>1, <2>2 DEF Reading
  <1>9. InStream'
    <2>1. pc' \notin ParserPc /\ link' # "off"
      BY <1>1, <1>2 DEF ParserPc
    <2> QED BY <1>6, <1>8, <2>1 DEF InStream
  <1>10. GaveUp' /\ ResetEmpty' /\ NoFalseAlarm'
    BY <1>1, <1>2 DEF GaveUp, ResetEmpty, RInv, NoFalseAlarm
  <1> QED BY <1>4, <1>9, <1>10 DEF RInv

-----------------------------------------------------------------------------
(* The line with the size of the next chunk.                               *)

(* Between two chunks everything that was taken is content, and what has   *)
(* not been taken begins with the tail.                                    *)
LEMMA AtTheEnd ==
    ASSUME TypeOK, NEW i \in 0..Len(body), NEW t \in Tails(i), Flows(i, t), link # "rst",
           Len(Got) = Ends(body)[i]
    PROVE  Got = Before(i) /\ conn \o sending = t
PROOF
  <1>1. Before(i) \in Seq(Byte) /\ Len(Before(i)) = Ends(body)[i] /\ t \in Seq(Byte)
    BY TypedBody, BeforeTail, TailBytes
  <1>2. Got \in Seq(Byte) /\ conn \o sending \in Seq(Byte)
    BY GotBytes
  <1>3. Got \o (conn \o sending) = Before(i) \o t
    BY DEF Flows, Whole
  <1> PICK r : r = conn \o sending
    OBVIOUS
  <1>4. Got = Before(i) /\ r = t
    BY <1>1, <1>2, <1>3, SameCut
  <1> QED BY <1>4

(* What is looked at is a beginning of what has not been taken.            *)
LEMMA HeadSeen ==
    ASSUME TypeOK
    PROVE  /\ Head1 \in Seq(Byte) /\ Len(Head1) \in Nat /\ Len(Head1) <= Len(conn)
           /\ IsPrefix(Head1, conn \o sending)
PROOF
  <1>1. conn \in Seq(Byte) /\ sending \in Seq(Byte) /\ Len(conn) \in Nat /\ PEEK \in Nat
    BY GotBytes, Sizes
  <1> PICK k : k = Least({PEEK, Len(conn)})
    OBVIOUS
  <1>2. k = IF PEEK <= Len(conn) THEN PEEK ELSE Len(conn)
    BY <1>1, LeastOfTwo
  <1>3. k \in 0..Len(conn)
    BY <1>1, <1>2
  <1>4. Head1 = First(conn, k)
    BY DEF Head1
  <1>5. Head1 \in Seq(Byte) /\ Len(Head1) = k /\ IsPrefix(Head1, conn)
    BY <1>1, <1>3, <1>4, FirstBytes, FirstIsPrefix
  <1> PICK r : r = conn \o sending
    OBVIOUS
  <1>6. IsPrefix(conn, r) /\ r \in Seq(Byte)
    BY <1>1, PrefixOf, ConcatBytes
  <1>7. IsPrefix(Head1, r)
    BY <1>1, <1>5, <1>6, PrefixTransitive
  <1> QED BY <1>1, <1>3, <1>5, <1>7

(* The line is skipped to, and found when all of it can be seen.           *)
LineFound(i, h) ==
    /\ Skipped = Len(Break(i))
    /\ ~HeadComplete => Len(h) >= 2
    /\ HeadComplete => /\ SizeLine = h /\ IsHex(SizeLine)
                       /\ Len(Break(i)) + Len(h) + 2 <= Len(conn)

LEMMA HeadLine ==
    ASSUME TypeOK, NEW i \in 0..Len(body), next = -1 <=> i = 0,
           NEW h \in Seq(Digits), NEW z \in Seq(Byte), h \in Seq(Byte),
           conn \o sending = Break(i) \o (h \o (EOL \o z)),
           EnoughForHead(Len(Head1))
    PROVE  LineFound(i, h)
PROOF
  <1>1. /\ Head1 \in Seq(Byte) /\ Len(Head1) \in Nat /\ Len(Head1) <= Len(conn)
        /\ IsPrefix(Head1, conn \o sending)
    BY HeadSeen
  <1>2. Break(i) \in Seq(Byte) /\ Len(Break(i)) = (IF i = 0 THEN 0 ELSE 2) /\ Len(h) \in Nat
    BY TypedBody, NextLine, LenProperties
  <1>3. Len(Head1) >= Len(Break(i)) + 3
    BY <1>2 DEF EnoughForHead
  <1> PICK w : w = h \o (EOL \o z)
    OBVIOUS
  <1>4. w \in Seq(Byte) /\ IsPrefix(Head1, Break(i) \o w)
    <2>1. EOL \o z \in Seq(Byte)
      BY Eol, ConcatBytes
    <2>2. w \in Seq(Byte)
      BY <2>1, ConcatBytes
    <2> QED BY <1>1, <2>2
  <1>5. Skipped = Len(Break(i)) /\ (next # -1 => HasEol(Head1))
    <2>1. CASE i = 0
      BY <1>2, <2>1 DEF Skipped
    <2>2. CASE i # 0
      <3>1. IsPrefix(Head1, <<>> \o (EOL \o w)) /\ <<>> \in Seq(Digits)
        <4>1. <<>> \in Seq(Digits) /\ <<>> \o (EOL \o w) = EOL \o w
          BY <1>4, EmptyLine
        <4>2. Break(i) = EOL
          BY <2>2 DEF Break
        <4> QED BY <1>4, <4>1, <4>2
      <3>2. Len(<<>>) = 0 /\ Len(Head1) >= 2
        BY <1>1, <1>2, <1>3, <2>2
      <3>3. HasEol(Head1) /\ Least(EolAt(Head1)) = 1
        <4>1. /\ HasEol(Head1) <=> Len(Head1) >= Len(<<>>) + 2
              /\ HasEol(Head1) => Least(EolAt(Head1)) = Len(<<>>) + 1
          BY <1>1, <1>4, <3>1, SizeLineSeen
        <4> QED BY <3>2, <4>1
      <3> QED BY <1>2, <2>2, <3>3 DEF Skipped
    <2> QED BY <2>1, <2>2
  <1> PICK d : d = Drop(Head1, Skipped)
    OBVIOUS
  <1>6. /\ d \in Seq(Byte) /\ Len(d) = Len(Head1) - Len(Break(i)) /\ IsPrefix(d, w)
    <2>1. Len(Break(i)) <= Len(Head1) /\ Len(Break(i)) \in Nat
      BY <1>1, <1>2, <1>3
    <2>2. Drop(Head1, Len(Break(i))) \in Seq(Byte) /\ IsPrefix(Drop(Head1, Len(Break(i))), w)
      BY <1>1, <1>2, <1>4, <2>1, BytesBehind
    <2>3. Len(Drop(Head1, Len(Break(i)))) = Len(Head1) - Len(Break(i))
      BY <1>1, <2>1, DropBytes
    <2> QED BY <1>5, <2>2, <2>3
  <1>7. /\ HasEol(d) <=> Len(d) >= Len(h) + 2
        /\ HasEol(d) => Line(d) = h
        /\ IsHex(h)
    BY <1>6, SizeLineSeen
  <1>8. HeadComplete <=> HasEol(d)
    BY <1>5 DEF HeadComplete
  <1>9. ~HeadComplete => Len(h) >= 2
    BY <1>1, <1>2, <1>3, <1>6, <1>7, <1>8
  <1>10. HeadComplete => Len(Break(i)) + Len(h) + 2 <= Len(conn)
    <2>1. Len(conn) \in Nat
      BY GotBytes
    <2> QED BY <1>1, <1>2, <1>6, <1>7, <1>8, <2>1
  <1> QED BY <1>5, <1>7, <1>8, <1>9, <1>10 DEF SizeLine, LineFound

(* Where the next size is looked for, at the end of chunk i.               *)
HeadAt(i, t) ==
    /\ i \in 0..Len(body) /\ t \in Tails(i) /\ Flows(i, t)
    /\ Got = Before(i) /\ conn \o sending = t
    /\ next = -1 <=> i = 0 /\ ~lastHeld

LEMMA HeadInStream ==
    ASSUME RInv, pc = "head", link # "rst"
    PROVE  mode = "chunk" /\ link # "off" /\ \E i, t : HeadAt(i, t)
PROOF
  <1>1. TypeOK /\ BodyOK /\ mode # "unknown" /\ pc \notin ParserPc
    BY TypedBody DEF RInv, GaveUp, ParserPc
  <1>2. link # "off" /\ \E i \in 0..Len(body) : \E t \in Tails(i) : Flows(i, t) /\ Reading(i)
    BY <1>1 DEF RInv, InStream
  <1> PICK i \in 0..Len(body) : \E t \in Tails(i) : Flows(i, t) /\ Reading(i)
    BY <1>2
  <1> PICK t \in Tails(i) : Flows(i, t) /\ Reading(i)
    OBVIOUS
  <1>3. next <= 0 /\ mode = "chunk" /\ (next = -1 \/ next = 0)
    BY <1>1 DEF Reading, TypeOK
  <1>4. Len(Got) = Ends(body)[i] /\ (next = -1 <=> i = 0 /\ ~lastHeld)
    <2>1. CASE next = -1
      <3>1. i = 0 /\ ~lastHeld /\ Got = <<>>
        BY <1>3, <2>1 DEF Reading
      <3>2. Ends(body)[i] = 0
        BY <1>1, <3>1, BeforeTail
      <3> QED BY <2>1, <3>1, <3>2, EmptySeq
    <2>2. CASE next = 0
      <3>1. Len(Got) + next = Ends(body)[i] /\ (i = 0 => lastHeld)
        BY <1>3, <2>2 DEF Reading
      <3>2. Len(Got) \in Nat
        BY <1>1, GotBytes
      <3> QED BY <2>2, <3>1, <3>2
    <2> QED BY <1>3, <2>1, <2>2
  <1>5. Got = Before(i) /\ conn \o sending = t
    BY <1>1, <1>4, AtTheEnd
  <1>6. HeadAt(i, t)
    BY <1>4, <1>5 DEF HeadAt
  <1> QED BY <1>2, <1>3, <1>6

(* After the last chunk was met there is not enough for another line.      *)
LEMMA NothingBehind ==
    ASSUME TypeOK, NEW i, NEW t, HeadAt(i, t), mode = "chunk", lastHeld
    PROVE  ~EnoughForHead(Len(Head1))
PROOF
  <1>1. t = EOL \/ t = <<>>
    BY DEF HeadAt, Tails
  <1>2. IsPrefix(Head1, t) /\ Len(Head1) \in Nat
    BY HeadSeen DEF HeadAt
  <1>3. Len(Head1) <= 2
    BY <1>1, <1>2, Eol, EmptySeq DEF IsPrefix
  <1>4. next # -1
    BY DEF HeadAt
  <1> QED BY <1>2, <1>3, <1>4 DEF EnoughForHead

(* Otherwise there is the line with the size of chunk i + 1.               *)
LEMMA LineAhead ==
    ASSUME TypeOK, NEW i, NEW t, HeadAt(i, t), mode = "chunk", ~lastHeld,
           EnoughForHead(Len(Head1)), NEW n, n = Size(body, i + 1)
    PROVE  /\ n \in Nat /\ Skipped = Len(Break(i))
           /\ ~HeadComplete => \E j \in DOMAIN body : Len(Hex(body[j])) >= 2
           /\ HeadComplete => /\ SizeLine = Hex(n) /\ IsHex(SizeLine) /\ HexToSize(SizeLine) = n
                              /\ Len(Break(i)) + Len(Hex(n)) + 2 <= Len(conn)
           /\ conn \o sending = Break(i) \o (Hex(n) \o (EOL \o Behind(body, i + 1)))
PROOF
  <1>1. i \in 0..Len(body) /\ BodyOK /\ (next = -1 <=> i = 0) /\ Len(body) \in Nat
    BY TypedBody, LenProperties DEF HeadAt, BodyOK
  <1>2. n \in Nat /\ Behind(body, i + 1) \in Seq(Byte)
        /\ Onward(body)[i + 1] = Hex(n) \o (EOL \o Behind(body, i + 1))
    BY <1>1, NextLine
  <1>3. /\ Hex(n) \in Seq(Digits) /\ Hex(n) \in Seq(Byte) /\ HexToSize(Hex(n)) = n
        /\ Len(Hex(n)) \in Nat
    BY <1>2, HexSize, HexBytes, LenProperties
  <1>4. conn \o sending = Break(i) \o (Hex(n) \o (EOL \o Behind(body, i + 1)))
    BY <1>2 DEF HeadAt, Tails
  <1> PICK h, z : h = Hex(n) /\ z = Behind(body, i + 1)
    OBVIOUS
  <1>5. /\ Skipped = Len(Break(i))
        /\ ~HeadComplete => Len(h) >= 2
        /\ HeadComplete => /\ SizeLine = h /\ IsHex(SizeLine)
                           /\ Len(Break(i)) + Len(h) + 2 <= Len(conn)
    <2>1. /\ h \in Seq(Digits) /\ z \in Seq(Byte) /\ h \in Seq(Byte)
          /\ conn \o sending = Break(i) \o (h \o (EOL \o z))
      BY <1>2, <1>3, <1>4
    <2>2. LineFound(i, h)
      BY <1>1, <2>1, HeadLine
    <2> QED BY <2>2 DEF LineFound
  <1>6. ASSUME Len(h) >= 2 PROVE \E j \in DOMAIN body : Len(Hex(body[j])) >= 2
    <2>1. n # 0
      <3> SUFFICES ASSUME n = 0 PROVE FALSE
        OBVIOUS
      <3>1. Len(h) = 1
        BY HexZero
      <3> QED BY <1>6, <3>1
    <2>2. n > 0
      BY <1>2, <2>1
    <2>3. i + 1 \in 1..Len(body) /\ n = body[i + 1]
      BY <1>1, <2>2, NextLine
    <2>4. i + 1 \in DOMAIN body
      BY <1>1, <2>3, LenProperties DEF BodyOK
    <2> QED BY <1>6, <2>3, <2>4
  <1> QED BY <1>2, <1>3, <1>4, <1>5, <1>6

LEMMA ChunkHeadStep == ASSUME RInv, ChunkHead PROVE RInv'
PROOF
  <1> USE DEF fixedVars, netVars, callVars, readerVars
  <1>1. /\ TypeOK /\ BodyOK /\ ResetEmpty /\ NoFalseAlarm /\ pc = "head" /\ link # "rst"
        /\ UNCHANGED <<body, reader, sending, link, buf, ask, out, outcome, lastHeld>>
    BY TypedBody DEF RInv, ChunkHead
  <1>2. mode = "chunk" /\ link # "off" /\ \E i, t : HeadAt(i, t)
    BY <1>1, HeadInStream
  <1> PICK i, t : HeadAt(i, t)
    BY <1>2
  <1> PICK n : n = Size(body, i + 1)
    OBVIOUS
  <1>3. Got' = Got
    BY <1>1 DEF Got
  <1>4. CASE ~(EnoughForHead(Len(Head1)) /\ HeadComplete /\ IsHex(SizeLine))
    <2>0. UNCHANGED <<conn, next, total, mode>>
      BY <1>4 DEF ChunkHead
    <2>1. pc' = "returned" /\ result' \in {"ok", "malformed"} /\ (result' = "malformed" =>
             /\ EnoughForHead(Len(Head1)) /\ ~(HeadComplete /\ IsHex(SizeLine)))
      BY <1>4 DEF ChunkHead, Return
    <2>2. result' = "malformed" => \E j \in DOMAIN body : Len(Hex(body[j])) >= 2
      <3> HAVE result' = "malformed"
      <3>1. EnoughForHead(Len(Head1)) /\ ~(HeadComplete /\ IsHex(SizeLine))
        BY <2>1
      <3>2. ~lastHeld
        BY <1>1, <1>2, <3>1, NothingBehind
      <3>3. /\ ~HeadComplete => \E j \in DOMAIN body : Len(Hex(body[j])) >= 2
            /\ HeadComplete => IsHex(SizeLine)
        BY <1>1, <1>2, <3>1, <3>2, LineAhead
      <3> QED BY <3>1, <3>3
    <2>3. TypeOK'
      BY <1>1, <2>0, <2>1 DEF TypeOK
    <2>4. Quiet
      BY <1>1, <1>2, <2>0, <2>1, <2>2, <2>3 DEF Quiet, GaveUp, ResetEmpty
    <2>5. Moves
      BY <1>1, <1>3, <2>0 DEF Moves
    <2>6. pc \notin ParserPc /\ pc' \notin ParserPc /\ pc' # "iterate" /\ pc' # "head"
      BY <1>1, <2>1 DEF ParserPc
    <2> QED BY <1>3, <2>0, <2>4, <2>5, <2>6, ReaderMoves
  <1>5. CASE EnoughForHead(Len(Head1)) /\ HeadComplete /\ IsHex(SizeLine)
    <2>1. EnoughForHead(Len(Head1)) /\ HeadComplete /\ IsHex(SizeLine)
      BY <1>5
    <2>2. ~lastHeld
      BY <1>1, <1>2, <2>1, NothingBehind
    <2>3. /\ n \in Nat /\ Skipped = Len(Break(i)) /\ SizeLine = Hex(n) /\ HexToSize(SizeLine) = n
          /\ Len(Break(i)) + Len(Hex(n)) + 2 <= Len(conn)
          /\ conn \o sending = Break(i) \o (Hex(n) \o (EOL \o Behind(body, i + 1)))
      BY <1>1, <1>2, <2>1, <2>2, LineAhead
    <2> PICK k : k = Len(Break(i)) + Len(Hex(n)) + 2
      OBVIOUS
    <2>4. /\ conn' = Drop(conn, k)
          /\ \/ /\ n > 0 /\ next' = n /\ pc' = "iterate" /\ UNCHANGED <<total, mode, result>>
             \/ /\ ~(n > 0) /\ next' = -1 /\ total' = 0 /\ mode' = "complete"
                /\ pc' = "returned" /\ result' = "ok"
      BY <2>1, <2>3 DEF ChunkHead, Return
    <2>5. /\ i \in 0..Len(body) /\ (next = -1 <=> i = 0) /\ Got = Before(i)
      BY <2>2 DEF HeadAt
    <2>6. /\ conn \in Seq(Byte) /\ sending \in Seq(Byte) /\ Got \in Seq(Byte) /\ Len(conn) \in Nat
      BY <1>1, GotBytes
    <2>7. /\ Hex(n) \in Seq(Byte) /\ Break(i) \in Seq(Byte) /\ Behind(body, i + 1) \in Seq(Byte)
          /\ Before(i) \in Seq(Byte) /\ Len(Before(i)) = Ends(body)[i] /\ Ends(body)[i] \in Nat
          /\ Len(Break(i)) \in Nat /\ Len(Hex(n)) \in Nat
      BY <1>1, <2>3, <2>5, HexBytes, NextLine, BeforeTail, LenProperties
    <2>8. Drop(conn, k) \in Seq(Byte) /\ Drop(conn, k) \o sending = Behind(body, i + 1)
      <3> PICK b, h, z : b = Break(i) /\ h = Hex(n) /\ z = Behind(body, i + 1)
        OBVIOUS
      <3>1. <<>> \in Seq(Byte) /\ Len(<<>>) = 0
        BY EmptySeq
      <3> PICK w : w = b \o (h \o (EOL \o z))
        OBVIOUS
      <3>2. w \in Seq(Byte) /\ <<>> \o w = w
        <4>1. EOL \o z \in Seq(Byte)
          BY <2>7, Eol, ConcatBytes
        <4>2. h \o (EOL \o z) \in Seq(Byte)
          BY <2>7, <4>1, ConcatBytes
        <4>3. w \in Seq(Byte)
          BY <2>7, <4>2, ConcatBytes
        <4> QED BY <4>3, ConcatEmptySeq
      <3>3. conn \o sending = <<>> \o (b \o (h \o (EOL \o z)))
        BY <2>3, <3>2
      <3>4. IsPrefix(conn, <<>> \o (b \o (h \o (EOL \o z))))
        <4>1. IsPrefix(conn, conn \o sending)
          BY <2>6, PrefixOf
        <4> QED BY <3>3, <4>1
      <3>5. k \in Nat /\ k <= Len(conn) /\ k = Len(<<>>) + Len(b) + Len(h) + 2
        BY <2>3, <2>7, <3>1
      <3>6. LineGone(<<>>, b, h, z, conn, sending, k)
        <4>1. b \in Seq(Byte) /\ h \in Seq(Byte) /\ z \in Seq(Byte)
          BY <2>7
        <4> QED BY <2>6, <3>1, <3>4, <3>5, <4>1, LineOut
      <3> PICK d : d = Drop(conn, k)
        OBVIOUS
      <3>7. d \in Seq(Byte) /\ (<<>> \o d) \o sending = <<>> \o z
        BY <3>3, <3>6 DEF LineGone
      <3>8. <<>> \o d = d /\ <<>> \o z = z
        BY <2>7, <3>7, ConcatEmptySeq
      <3> QED BY <3>7, <3>8
    <2>9. conn' \in Seq(Byte) /\ conn' \o sending' = Behind(body, i + 1)
      BY <1>1, <2>4, <2>8
    <2>10. TypeOK'
      BY <1>1, <2>3, <2>4, <2>9 DEF TypeOK
    <2>11. GaveUp' /\ ResetEmpty' /\ NoFalseAlarm'
      BY <1>1, <1>2, <2>4 DEF GaveUp, ResetEmpty, NoFalseAlarm
    <2>12. LineTaken(i, Behind(body, i + 1))
      <3>1. IsPrefix(Before(i), Before(i) \o Behind(body, i + 1))
        BY <2>7, PrefixOf
      <3> QED BY <1>3, <2>5, <2>9, <3>1 DEF LineTaken
    <2>13. CASE n > 0
      <3>1. next' = n /\ pc' = "iterate" /\ mode' = "chunk"
        BY <1>2, <2>4, <2>13
      <3>2. lastHeld' = (Size(body, i + 1) = 0) /\ mode' # "complete"
        <4>1. Size(body, i + 1) # 0
          BY <2>3, <2>13
        <4>2. lastHeld' = lastHeld /\ lastHeld \in BOOLEAN
          BY <1>1 DEF TypeOK
        <4> QED BY <2>2, <3>1, <4>1, <4>2
      <3> PICK j : j = IF Size(body, i + 1) = 0 THEN i ELSE i + 1
        OBVIOUS
      <3>3. /\ j \in 0..Len(body) /\ Ends(body)[j] = Ends(body)[i] + Size(body, i + 1)
            /\ j = 0 => lastHeld'
            /\ \E u \in Tails(j)' : Flows(j, u)'
        BY <1>1, <2>2, <2>5, <2>12, <3>2, LineStep
      <3>4. Reading(j)'
        <4>1. Len(Got') + next' = Ends(body')[j]
          BY <1>1, <1>3, <2>5, <2>7, <3>1, <3>3
        <4>2. next' # -1 /\ next' >= 0
          BY <2>3, <3>1
        <4> QED BY <3>1, <3>3, <4>1, <4>2 DEF Reading
      <3>5. InStream'
        <4>1. pc' \notin ParserPc /\ link' # "off" /\ body' = body
          BY <1>1, <1>2, <3>1 DEF ParserPc
        <4> QED BY <3>3, <3>4, <4>1 DEF InStream
      <3> QED BY <2>10, <2>11, <3>5 DEF RInv
    <2>14. CASE ~(n > 0)
      <3>1. next' = -1 /\ mode' = "complete" /\ pc' = "returned"
        BY <2>4, <2>14
      <3>2. n = 0
        BY <2>3, <2>14
      <3>3. i = Len(body) /\ Behind(body, i + 1) = EOL /\ Before(i) = Content(body)
        BY <1>1, <2>5, <3>2, NextLine, BeforeTail
      <3>4. EOL \in Tails(i)'
        BY <3>1 DEF Tails
      <3>5. Whole(i, EOL)' = Before(i) \o EOL
        BY <1>1 DEF Whole, Before
      <3>6. Flows(i, EOL)'
        BY <1>1, <2>12, <3>3, <3>5 DEF Flows, LineTaken
      <3>7. Reading(i)'
        BY <1>1, <1>3, <2>5, <3>1, <3>3 DEF Reading
      <3>8. InStream'
        <4>1. pc' \notin ParserPc /\ link' # "off" /\ body' = body
          BY <1>1, <1>2, <3>1 DEF ParserPc
        <4> QED BY <2>5, <3>4, <3>6, <3>7, <4>1 DEF InStream
      <3> QED BY <2>10, <2>11, <3>8 DEF RInv
    <2> QED BY <2>13, <2>14
  <1> QED BY <1>4, <1>5

-----------------------------------------------------------------------------
(* The theorems.                                                           *)

(* What came with the header is held, and the rest is on its way.          *)
LEMMA InitInv == Init => RInv
PROOF
  <1> SUFFICES ASSUME Init PROVE RInv
    OBVIOUS
  <1> PICK pre \in 0..MaxPre :
        /\ pre <= Len(Encoded(body))
        /\ buf = First(Encoded(body), pre)
        /\ sending = Drop(Encoded(body), pre)
        /\ next = (IF pre = 0 THEN -1 ELSE 0)
        /\ pc = (IF pre = 0 THEN "idle" ELSE "parse")
    BY DEF Init
  <1>1. /\ body \in Bodies /\ reader \in Readers /\ link = "up" /\ conn = <<>> /\ mode = "chunk"
        /\ total = 0 /\ ask = 0 /\ result = "ok" /\ out = <<>> /\ outcome = "none" /\ lastHeld = FALSE
    BY DEF Init
  <1>2. BodyOK /\ Len(body) \in Nat
    BY <1>1, ChunkAssumption, LenProperties DEF BodyOK
  <1> PICK e : e = Encoded(body)
    OBVIOUS
  <1>3. e = Onward(body)[1] /\ e \in Seq(Byte)
    <2>1. 0 \in 0..Len(body) /\ 0 + 1 = 1
      BY <1>2
    <2> QED BY <1>2, <2>1, NextLine DEF Encoded
  <1>4. /\ buf = First(e, pre) /\ sending = Drop(e, pre) /\ buf \in Seq(Byte) /\ sending \in Seq(Byte)
        /\ Len(buf) = pre /\ buf \o sending = e
    <2>1. pre \in 0..Len(e)
      <3>1. Len(e) \in Nat
        BY <1>3, LenProperties
      <3> QED BY <3>1
    <2> QED BY <1>3, <2>1, Cut
  <1>5. TypeOK
    <2>1. next \in Nat \cup {-1} /\ ask \in 0..SB_DATA_SIZE
      BY <1>1, Sizes
    <2>2. <<>> \in Seq(Byte)
      BY EmptySeq
    <2> QED BY <1>1, <1>4, <2>1, <2>2 DEF TypeOK
  <1>6. Got = buf /\ <<>> \o sending = sending /\ <<>> \o e = e
    BY <1>1, <1>3, <1>4, ConcatEmptySeq DEF Got
  <1>7. 0 \in 0..Len(body) /\ e \in Tails(0) /\ Before(0) = <<>> /\ Ends(body)[0] = 0
    <2>1. 0 \in 0..Len(body)
      BY <1>2
    <2>2. Break(0) \o Onward(body)[0 + 1] = e
      BY <1>3, <1>6 DEF Break
    <2>3. e \in Tails(0)
      BY <1>1, <2>2 DEF Tails
    <2> QED BY <1>2, <2>1, <2>3, BeforeTail
  <1>8. Flows(0, e)
    <2>1. Whole(0, e) = e
      BY <1>6, <1>7 DEF Whole
    <2>2. IsPrefix(buf, e)
      BY <1>4, PrefixOf
    <2> QED BY <1>1, <1>4, <1>6, <2>1, <2>2 DEF Flows
  <1>9. IF pc \in ParserPc THEN Parsing(0) ELSE Reading(0)
    <2>1. CASE pre = 0
      <3>1. buf = <<>>
        BY <1>4, <2>1, EmptySeq
      <3> QED BY <1>1, <1>6, <2>1, <3>1 DEF Reading, ParserPc
    <2>2. CASE pre # 0
      <3>1. buf # <<>>
        BY <1>4, <2>2, EmptySeq
      <3> QED BY <1>1, <1>7, <2>2, <3>1 DEF Parsing, ParserPc
    <2> QED BY <2>1, <2>2
  <1>10. InStream
    BY <1>1, <1>7, <1>8, <1>9 DEF InStream
  <1>11. GaveUp /\ ResetEmpty /\ NoFalseAlarm
    BY <1>1 DEF GaveUp, ResetEmpty, NoFalseAlarm
  <1> QED BY <1>5, <1>10, <1>11 DEF RInv

LEMMA StepInv == RInv /\ [Next]_vars => RInv'
PROOF
  <1> SUFFICES ASSUME RInv, [Next]_vars PROVE RInv'
    OBVIOUS
  <1>1. CASE ParseHeld
    BY <1>1, ParseHeldStep
  <1>2. CASE ParsePull
    BY <1>2, ParsePullStep
  <1>3. CASE ParseStale
    BY <1>3, ParseStaleStep
  <1>4. CASE ParseDone
    BY <1>4, ParseDoneStep
  <1>5. CASE Call \/ SocketError \/ IterateDone
    BY <1>5, CallStep
  <1>6. CASE Iterate
    BY <1>6, IterateStep
  <1>7. CASE ChunkHead
    BY <1>7, ChunkHeadStep
  <1>8. CASE FileRead \/ PageRead
    BY <1>8, ReadStep
  <1>9. CASE Arrive \/ ServerCloses \/ ServerResets \/ UNCHANGED vars
    BY <1>9, ConnectionStep
  <1> QED BY <1>1, <1>2, <1>3, <1>4, <1>5, <1>6, <1>7, <1>8, <1>9 DEF Next, ClientStep

(* The invariant of the proofs: content up to the end of a chunk, and the  *)
(* rest of the stream behind it.                                           *)
THEOREM ChunkInvariant == Spec => []RInv
PROOF
  <1>1. Init => RInv
    BY InitInv
  <1>2. RInv /\ [Next]_vars => RInv'
    BY StepInv
  <1> QED BY <1>1, <1>2, PTL DEF Spec

(* Types: what the client holds is always bytes, and the data still to     *)
(* come is a number or the -1 of a chunk not begun.                        *)
THEOREM ChunkTyped == Spec => []TypeOK
PROOF
  <1>1. RInv => TypeOK
    BY DEF RInv
  <1> QED BY <1>1, ChunkInvariant, PTL

(* However the stream is cut, what the reader is given is a beginning of   *)
(* the content (recvbufr.c:90-185, 577-626).                               *)
THEOREM ChunkDecodes == Spec => []DecodesPrefix
PROOF
  <1>1. RInv => DecodesPrefix
    <2> SUFFICES ASSUME RInv PROVE DecodesPrefix
      OBVIOUS
    <2>1. TypeOK /\ BodyOK
      BY TypedBody DEF RInv
    <2>2. /\ Got \in Seq(Byte) /\ buf \in Seq(Byte) /\ Len(Got) \in Nat /\ Len(buf) \in Nat
          /\ Content(body) \in Seq(Byte)
      <3>1. 0 \in 0..Len(body)
        BY <2>1, LenProperties DEF BodyOK
      <3> QED BY <2>1, <3>1, GotBytes, BeforeTail
    <2>3. CASE pc \in ParserPc
      <3>1. out = <<>> /\ Got = buf
        BY <2>3, Parsed
      <3> PICK i \in 0..Len(body) : \E t \in Tails(i) : Flows(i, t) /\ Parsing(i)
        BY <2>3, Parsed
      <3> PICK t \in Tails(i) : Flows(i, t) /\ Parsing(i)
        OBVIOUS
      <3>2. /\ Before(i) \in Seq(Byte) /\ Len(Before(i)) = total /\ total \in Nat
            /\ IsPrefix(Before(i), Content(body))
        BY <2>1, BeforeTail DEF Parsing
      <3>3. t \in Seq(Byte) /\ IsPrefix(buf, Before(i) \o t)
        BY <2>1, <3>1, TailBytes DEF Flows, Whole
      <3> PICK n : n = Least({total, Len(buf)})
        OBVIOUS
      <3>4. n = IF total <= Len(buf) THEN total ELSE Len(buf)
        BY <2>2, <3>2, LeastOfTwo
      <3>5. First(buf, n) \in Seq(Byte) /\ IsPrefix(First(buf, n), Before(i))
        <4>1. CASE total <= Len(buf)
          <5>1. First(buf, n) = Before(i)
            BY <2>2, <3>2, <3>3, <3>4, <4>1, BytesBehind
          <5>2. Len(Before(i)) \in 0..Len(Before(i)) /\ First(Before(i), Len(Before(i))) = Before(i)
            BY <3>2, SubSeqFull DEF First
          <5>3. IsPrefix(Before(i), Before(i))
            BY <3>2, <5>2, FirstIsPrefix
          <5> QED BY <3>2, <5>1, <5>3
        <4>2. CASE ~(total <= Len(buf))
          <5>1. First(buf, n) = buf
            BY <2>2, <3>2, <3>4, <4>2, SubSeqFull DEF First
          <5>2. IsPrefix(buf, Before(i))
            BY <2>2, <3>2, <3>3, <4>2, PrefixWithin
          <5> QED BY <2>2, <5>1, <5>2
        <4> QED BY <4>1, <4>2
      <3>6. Decoded = First(buf, n)
        <4>1. Decoded = <<>> \o First(buf, n)
          BY <2>3, <3>1 DEF Decoded, ParserPc
        <4> QED BY <3>5, <4>1, ConcatEmptySeq
      <3>7. IsPrefix(First(buf, n), Content(body))
        BY <2>2, <3>2, <3>5, PrefixTransitive
      <3> QED BY <3>6, <3>7 DEF DecodesPrefix
    <2>4. CASE pc \notin ParserPc
      <3>1. Decoded = Got
        BY <2>4 DEF Decoded, Got, ParserPc
      <3>2. IsPrefix(<<>>, Content(body)) /\ IsPrefix(Content(body), Content(body))
        <4>1. Len(Content(body)) \in Nat
          BY <2>2, LenProperties
        <4>2. 0 \in 0..Len(Content(body)) /\ Len(Content(body)) \in 0..Len(Content(body))
          BY <4>1
        <4> QED BY <2>2, <4>2, FirstIsPrefix
      <3>3. CASE mode = "unknown"
        <4>1. Got = <<>>
          BY <3>3 DEF RInv, GaveUp
        <4> QED BY <3>1, <3>2, <4>1 DEF DecodesPrefix
      <3>4. CASE mode # "unknown"
        <4> PICK i \in 0..Len(body) : \E t \in Tails(i) : Flows(i, t) /\ Reading(i)
          BY <2>4, <3>4 DEF RInv, InStream
        <4> PICK t \in Tails(i) : Flows(i, t) /\ Reading(i)
          OBVIOUS
        <4>1. CASE mode = "complete"
          BY <3>1, <3>2, <4>1 DEF Reading, DecodesPrefix
        <4>2. CASE mode # "complete" /\ next = -1
          BY <3>1, <3>2, <4>2 DEF Reading, DecodesPrefix
        <4>3. CASE mode # "complete" /\ next # -1
          <5>1. Len(Got) + next = Ends(body)[i] /\ next \in Nat
            BY <2>1, <4>3 DEF Reading, TypeOK
          <5>2. /\ Before(i) \in Seq(Byte) /\ Len(Before(i)) = Ends(body)[i]
                /\ IsPrefix(Before(i), Content(body)) /\ t \in Seq(Byte)
            BY <2>1, BeforeTail, TailBytes
          <5>3. IsPrefix(Got, Before(i) \o t) /\ Len(Got) <= Len(Before(i))
            BY <2>2, <5>1, <5>2 DEF Flows, Whole
          <5>4. IsPrefix(Got, Before(i))
            BY <2>2, <5>2, <5>3, PrefixWithin
          <5>5. IsPrefix(Got, Content(body))
            BY <2>2, <5>2, <5>4, PrefixTransitive
          <5> QED BY <3>1, <5>5 DEF DecodesPrefix
        <4> QED BY <4>1, <4>2, <4>3
      <3> QED BY <3>3, <3>4
    <2> QED BY <2>3, <2>4
  <1> QED BY <1>1, ChunkInvariant, PTL

(* A response is complete only when all of the content has been decoded,   *)
(* and then the line break that ends the body is all that stays on the     *)
(* connection (recvbufr.c:497).                                            *)
THEOREM ChunkCompletes == Spec => []CompleteWhole
PROOF
  <1>1. RInv => CompleteWhole
    <2> SUFFICES ASSUME RInv, mode = "complete"
                 PROVE  Decoded = Content(body) /\ (link = "up" => conn \o sending = EOL)
      BY DEF CompleteWhole
    <2>1. TypeOK /\ BodyOK
      BY TypedBody DEF RInv
    <2>2. pc \notin ParserPc
      BY Parsed
    <2> PICK i \in 0..Len(body) : \E t \in Tails(i) : Flows(i, t) /\ Reading(i)
      BY <2>2 DEF RInv, InStream
    <2> PICK t \in Tails(i) : Flows(i, t) /\ Reading(i)
      OBVIOUS
    <2>3. Got = Content(body) /\ t = EOL /\ i = Len(body)
      BY DEF Reading, Tails, Flows
    <2>4. Decoded = Got
      BY <2>2 DEF Decoded, Got, ParserPc
    <2>5. Len(Got) = Ends(body)[i]
      BY <2>1, <2>3, BeforeTail
    <2>6. link = "up" => conn \o sending = EOL
      BY <2>1, <2>3, <2>5, AtTheEnd
    <2> QED BY <2>3, <2>4, <2>6
  <1> QED BY <1>1, ChunkInvariant, PTL

(* Between two calls the data decoded and the data still to come of the    *)
(* chunk end where a chunk of the body ends.                               *)
THEOREM ChunkInStep == Spec => []InStep
PROOF
  <1>1. RInv => InStep
    <2> SUFFICES ASSUME RInv, pc = "idle", mode = "chunk", next >= 0
                 PROVE  \E i \in 0..Len(body) : Len(Decoded) + next = Ends(body)[i]
      BY DEF InStep
    <2>1. pc \notin ParserPc /\ mode # "unknown" /\ mode # "complete" /\ next # -1
      BY DEF ParserPc
    <2> PICK i \in 0..Len(body) : \E t \in Tails(i) : Flows(i, t) /\ Reading(i)
      BY <2>1 DEF RInv, InStream
    <2>2. Len(Got) + next = Ends(body)[i]
      BY <2>1 DEF Reading
    <2>3. Decoded = Got
      BY DEF Decoded, Got
    <2> QED BY <2>2, <2>3
  <1> QED BY <1>1, ChunkInvariant, PTL

(* A sound stream is refused only where a size of at least two digits      *)
(* comes in two pieces.                                                    *)
THEOREM ChunkNoFalseAlarm == Spec => []NoFalseAlarm
PROOF
  <1>1. RInv => NoFalseAlarm
    BY DEF RInv
  <1> QED BY <1>1, ChunkInvariant, PTL

-----------------------------------------------------------------------------
(* The two parsers as one transfer.                                        *)

(* What a call returned agrees with the mode, and a page that is still     *)
(* read has no outcome.                                                    *)
Phase ==
    /\ reader = "page" /\ pc # "done" => outcome = "none"
    /\ pc = "returned" /\ result = "completed" => mode = "complete"
    /\ pc = "returned" /\ mode = "complete" => result \in {"ok", "completed"}

LEMMA InChunkMode == ASSUME RInv, pc \in {"iterate", "head"} PROVE mode = "chunk"
PROOF
  <1>1. mode # "unknown"
    BY DEF RInv, GaveUp
  <1>2. pc \notin ParserPc
    BY DEF ParserPc
  <1> QED BY <1>1, <1>2 DEF RInv, InStream, Reading

LEMMA PhaseStep == ASSUME RInv, Phase, [Next]_vars PROVE Phase'
PROOF
  <1> USE DEF fixedVars, netVars, callVars, readerVars
  <1>1. CASE ParseHeld \/ ParseDone
    BY <1>1 DEF Phase, ParseHeld, ParseDone
  <1>2. CASE ParsePull \/ ParseStale
    <2>1. UNCHANGED <<reader, outcome>> /\ pc = "parse"
      BY <1>2 DEF ParsePull, ParseStale
    <2>2. ASSUME NEW held, Pull(held) PROVE pc' # "returned" /\ pc' # "done"
      BY <2>1, <2>2 DEF Pull, GiveUp
    <2>3. pc' # "returned" /\ pc' # "done"
      BY <1>2, <2>2 DEF ParsePull, ParseStale
    <2> QED BY <2>1, <2>3 DEF Phase
  <1>3. CASE Call
    <2>1. mode \in {"chunk", "complete", "unknown"} /\ pc = "idle" /\ UNCHANGED <<reader, outcome, mode>>
      BY <1>3 DEF RInv, TypeOK, Call
    <2>2. \/ mode' = "complete" /\ pc' = "returned" /\ result' = "completed"
          \/ mode' = "unknown" /\ pc' = "returned" /\ result' = "error"
          \/ mode' = "chunk" /\ pc' \in {"head", "iterate"}
      BY <1>3, <2>1 DEF Call
    <2> QED BY <2>1, <2>2 DEF Phase
  <1>4. CASE SocketError
    BY <1>4, InChunkMode DEF Phase, SocketError, Return
  <1>5. CASE Iterate \/ IterateDone
    BY <1>5, InChunkMode DEF Phase, Iterate, IterateDone, Return
  <1>6. CASE ChunkHead
    <2>1. pc = "head" /\ mode = "chunk"
      BY <1>6, InChunkMode DEF ChunkHead
    <2>2. UNCHANGED <<reader, outcome>> /\ pc' \in {"returned", "iterate"}
          /\ (pc' = "returned" => result' \in {"ok", "malformed"} /\ (mode' = mode \/ result' = "ok"))
      <3> PICK e, w : e = EnoughForHead(Len(Head1)) /\ w = (HeadComplete /\ IsHex(SizeLine))
        OBVIOUS
      <3>1. CASE ~e
        BY <1>6, <3>1 DEF ChunkHead, Return
      <3>2. CASE e /\ ~w
        BY <1>6, <3>2 DEF ChunkHead, Return
      <3>3. CASE e /\ w
        BY <1>6, <2>1, <3>3 DEF ChunkHead, Return
      <3> QED BY <3>1, <3>2, <3>3
    <2> QED BY <2>1, <2>2 DEF Phase
  <1>7. CASE FileRead \/ PageRead
    BY <1>7 DEF Phase, FileRead, PageRead
  <1>8. CASE Arrive \/ ServerCloses \/ ServerResets \/ UNCHANGED vars
    BY <1>8 DEF Phase, Arrive, ServerCloses, ServerResets, vars
  <1> QED BY <1>1, <1>2, <1>3, <1>4, <1>5, <1>6, <1>7, <1>8 DEF Next, ClientStep

(* Of two beginnings of the same content the shorter begins the longer.    *)
LEMMA Shorter ==
    ASSUME NEW S, NEW a \in Seq(S), NEW b \in Seq(S), NEW c \in Seq(S),
           IsPrefix(a, c), IsPrefix(b, c), Len(a) <= Len(b)
    PROVE  IsPrefix(a, b)
PROOF
  <1>1. PICK y \in Seq(S) : c = b \o y
    BY PrefixRest
  <1> QED BY <1>1, PrefixWithin

(* What has been decoded is a sequence of bytes; how much of it there is.  *)
LEMMA HeldBytes ==
    ASSUME NEW b \in Seq(Byte), NEW t \in Nat
    PROVE  /\ First(b, Least({t, Len(b)})) \in Seq(Byte)
           /\ Len(First(b, Least({t, Len(b)}))) = IF t <= Len(b) THEN t ELSE Len(b)
PROOF
  <1> PICK n : n = Least({t, Len(b)})
    OBVIOUS
  <1>1. Len(b) \in Nat
    BY LenProperties
  <1>2. n = IF t <= Len(b) THEN t ELSE Len(b)
    BY <1>1, LeastOfTwo
  <1>3. n \in 0..Len(b)
    BY <1>1, <1>2
  <1> QED BY <1>2, <1>3, FirstBytes

LEMMA DecodedBytes ==
    ASSUME TypeOK, TypeOK'
    PROVE  /\ Decoded \in Seq(Byte) /\ Decoded' \in Seq(Byte)
           /\ Len(Decoded) =
                Len(out) + IF pc \in ParserPc /\ total <= Len(buf) THEN total ELSE Len(buf)
           /\ Len(Decoded') =
                Len(out') + IF pc' \in ParserPc /\ total' <= Len(buf') THEN total' ELSE Len(buf')
PROOF
  <1>1. /\ out \in Seq(Byte) /\ buf \in Seq(Byte) /\ total \in Nat
        /\ out' \in Seq(Byte) /\ buf' \in Seq(Byte) /\ total' \in Nat
    BY DEF TypeOK
  <1>2. /\ Decoded \in Seq(Byte)
        /\ Len(Decoded) =
              Len(out) + IF pc \in ParserPc /\ total <= Len(buf) THEN total ELSE Len(buf)
    <2> PICK x \in Seq(Byte) : /\ x = First(buf, Least({total, Len(buf)}))
                               /\ Len(x) = IF total <= Len(buf) THEN total ELSE Len(buf)
      BY <1>1, HeldBytes
    <2>1. CASE pc \in ParserPc
      <3>1. Decoded = out \o x
        BY <2>1 DEF Decoded, ParserPc
      <3>2. out \o x \in Seq(Byte) /\ Len(out \o x) = Len(out) + Len(x)
        BY <1>1, ConcatBytes
      <3> QED BY <2>1, <3>1, <3>2
    <2>2. CASE pc \notin ParserPc
      <3>1. Decoded = out \o buf
        BY <2>2 DEF Decoded, ParserPc
      <3>2. out \o buf \in Seq(Byte) /\ Len(out \o buf) = Len(out) + Len(buf)
        BY <1>1, ConcatBytes
      <3> QED BY <2>2, <3>1, <3>2
    <2> QED BY <2>1, <2>2
  <1>3. /\ Decoded' \in Seq(Byte)
        /\ Len(Decoded') =
              Len(out') + IF pc' \in ParserPc /\ total' <= Len(buf') THEN total' ELSE Len(buf')
    <2> PICK x \in Seq(Byte) : /\ x = First(buf', Least({total', Len(buf')}))
                               /\ Len(x) = IF total' <= Len(buf') THEN total' ELSE Len(buf')
      BY <1>1, HeldBytes
    <2>1. CASE pc' \in ParserPc
      <3>1. Decoded' = out' \o x
        BY <2>1 DEF Decoded, ParserPc
      <3>2. out' \o x \in Seq(Byte) /\ Len(out' \o x) = Len(out') + Len(x)
        BY <1>1, ConcatBytes
      <3> QED BY <2>1, <3>1, <3>2
    <2>2. CASE pc' \notin ParserPc
      <3>1. Decoded' = out' \o buf'
        BY <2>2 DEF Decoded, ParserPc
      <3>2. out' \o buf' \in Seq(Byte) /\ Len(out' \o buf') = Len(out') + Len(buf')
        BY <1>1, ConcatBytes
      <3> QED BY <2>2, <3>1, <3>2
    <2> QED BY <2>1, <2>2
  <1> QED BY <1>2, <1>3

(* IsPrefix is one operator.                                               *)
LEMMA BodyPrefix == ASSUME NEW s, NEW t PROVE Body!IsPrefix(s, t) <=> IsPrefix(s, t)
  BY DEF IsPrefix, Body!IsPrefix

(* The reader takes from the buffer what it is given.                      *)
LEMMA ReadGives ==
    ASSUME RInv, FileRead \/ PageRead
    PROVE  Decoded' = Decoded /\ IsPrefix(out, out') /\ IsPrefix(out', Decoded)
PROOF
  <1>1. TypeOK /\ TypeOK'
    BY ReadStep DEF RInv
  <1>2. out \in Seq(Byte) /\ buf \in Seq(Byte) /\ out' \in Seq(Byte) /\ buf' \in Seq(Byte)
        /\ Len(buf) \in Nat
    BY <1>1, GotBytes DEF TypeOK
  <1>3. pc \notin ParserPc /\ pc' \notin ParserPc
    BY DEF FileRead, PageRead, ParserPc
  <1>4. PICK x \in Seq(Byte) : out' = out \o x /\ (out \o x) \o buf' = out \o buf
    <2>1. <<>> \in Seq(Byte) /\ out \o <<>> = out
      BY <1>2, EmptySeq, ConcatEmptySeq
    <2>2. CASE FileRead
      <3> PICK n : n = Least({Len(buf), SB_DATA_SIZE})
        OBVIOUS
      <3>1. n \in 0..Len(buf)
        <4>1. n = IF Len(buf) <= SB_DATA_SIZE THEN Len(buf) ELSE SB_DATA_SIZE
          BY <1>2, Sizes, LeastOfTwo
        <4> QED BY <1>2, <4>1, Sizes
      <3>2. \/ out' = out /\ buf' = buf
            \/ out' = out \o First(buf, n) /\ buf' = Drop(buf, n)
        BY <2>2 DEF FileRead
      <3>3. Passes(out, buf, n) /\ First(buf, n) \in Seq(Byte)
        BY <1>2, <3>1, Passed, Cut
      <3> QED BY <2>1, <3>2, <3>3 DEF Passes
    <2>3. CASE PageRead
      <3>1. out' = out \o buf /\ buf' = <<>> /\ (out \o buf) \o <<>> = out \o buf
        <4>1. out \o buf \in Seq(Byte)
          BY <1>2, ConcatBytes
        <4> QED BY <2>3, <4>1, ConcatEmptySeq DEF PageRead
      <3> QED BY <1>2, <3>1
    <2> QED BY <2>2, <2>3
  <1>5. Decoded = out \o buf /\ Decoded' = out' \o buf'
    BY <1>3 DEF Decoded, ParserPc
  <1>6. IsPrefix(out, out')
    BY <1>2, <1>4, PrefixOf
  <1>7. IsPrefix(out', out' \o buf')
    BY <1>2, PrefixOf
  <1> QED BY <1>4, <1>5, <1>6, <1>7

(* Any step of a parser that leaves it with at least as much is a Decode.  *)
LEMMA MoreDecoded ==
    ASSUME RInv, RInv', Phase, DecodesPrefix, DecodesPrefix', pc # "done", mode = "chunk",
           UNCHANGED <<body, reader, out, mode, outcome>>, Len(Decoded) <= Len(Decoded')
    PROVE  Body!Decode
PROOF
  <1>1. Decoded \in Seq(Byte) /\ Decoded' \in Seq(Byte)
    BY DecodedBytes DEF RInv
  <1>2. Content(body) \in Seq(Byte)
    <2>1. BodyOK
      BY TypedBody DEF RInv
    <2>2. 0 \in 0..Len(body)
      BY <2>1, LenProperties DEF BodyOK
    <2> QED BY <2>1, <2>2, BeforeTail
  <1>3. IsPrefix(Decoded, Content(body)) /\ IsPrefix(Decoded', Content(body))
    BY DEF DecodesPrefix
  <1>4. IsPrefix(Decoded, Decoded')
    BY <1>1, <1>2, <1>3, Shorter
  <1>5. reader = "page" => outcome = "none"
    BY DEF Phase
  <1>6. Body!IsPrefix(Decoded, Decoded') /\ Body!IsPrefix(Decoded', Content(body))
    BY <1>3, <1>4, BodyPrefix
  <1> QED BY <1>5, <1>6 DEF Body!Decode

(* A step that touches neither what is held nor the mode.                  *)
LEMMA SameBody ==
    ASSUME UNCHANGED <<body, reader, out, buf, total, mode, outcome>>,
           pc \in ParserPc <=> pc' \in ParserPc
    PROVE  UNCHANGED Body!bodyVars
PROOF
  <1>1. Decoded' = Decoded
    BY DEF Decoded, ParserPc
  <1> QED BY <1>1 DEF Body!bodyVars

LEMMA PullBody ==
    ASSUME RInv, RInv', Phase, DecodesPrefix, DecodesPrefix', pc = "parse",
           NEW held, Pull(held), UNCHANGED <<body, reader, out, outcome>>
    PROVE  [Body!Next]_(Body!bodyVars)
PROOF
  <1>1. mode = "chunk" /\ out = <<>> /\ total' = total
    BY Parsed DEF ParserPc, Pull
  <1>2. CASE GiveUp
    <2>1. buf' = <<>> /\ mode' = "unknown" /\ pc' = "idle"
      BY <1>2 DEF GiveUp
    <2>2. Decoded' = <<>>
      <3>1. Decoded' = <<>> \o <<>>
        BY <1>1, <2>1 DEF Decoded
      <3> QED BY <3>1, EmptySeq, ConcatEmptySeq
    <2> QED BY <1>1, <2>1, <2>2 DEF Body!Next, Body!GiveUp, Phase
  <1>3. CASE ~GiveUp
    <2>1. PICK x : buf' = buf \o First(x, Least(EolAt(x)) + 1) /\ x = Pulled(held)
      BY <1>3 DEF Pull
    <2>2. UNCHANGED <<mode, link, pc>>
      BY <1>3 DEF Pull
    <2> PICK y : y = First(x, Least(EolAt(x)) + 1)
      OBVIOUS
    <2>3. buf \in Seq(Byte) /\ buf' \in Seq(Byte) /\ Len(buf) \in Nat /\ Len(buf') \in Nat /\ total \in Nat
      BY GotBytes, LenProperties DEF RInv, TypeOK
    <2>4. Len(buf) <= Len(buf')
      BY <1>3, <2>3 DEF Pull
    <2>5. Len(Decoded) <= Len(Decoded')
      BY <1>1, <2>2, <2>3, <2>4, DecodedBytes DEF RInv, ParserPc
    <2> QED BY <1>1, <2>2, <2>5, MoreDecoded DEF Body!Next
  <1> QED BY <1>2, <1>3

LEMMA HeldLine ==
    ASSUME buf \in Seq(Byte), Len(buf) \in Nat, SizeAt \in Nat, SizeAt <= Len(buf), HasEol(Held)
    PROVE  Line(Held) \in Seq(Byte)
PROOF
  <1> PICK z, d : z = SizeAt /\ d = Drop(buf, SizeAt)
    OBVIOUS
  <1>1. z \in 0..Len(buf) /\ PEEK \in Nat /\ Len(buf) - z \in Nat
    BY Sizes
  <1>2. d \in Seq(Byte) /\ Len(d) = Len(buf) - z
    BY <1>1, Cut
  <1> PICK n : n = Least({PEEK, Len(buf) - z})
    OBVIOUS
  <1>3. n = IF PEEK <= Len(buf) - z THEN PEEK ELSE Len(buf) - z
    BY <1>1, LeastOfTwo
  <1>4. n \in 0..Len(d)
    BY <1>1, <1>2, <1>3
  <1>5. Held = First(d, n)
    BY DEF Held
  <1>6. Held \in Seq(Byte)
    BY <1>2, <1>4, <1>5, FirstBytes
  <1> QED BY <1>6, EolFound

(* What a step of the client's parsers and readers is to their body.       *)
LEMMA HeldBody ==
    ASSUME RInv, RInv', Phase, DecodesPrefix, DecodesPrefix', ParseHeld \/ ParseDone
    PROVE  Body!Decode
PROOF
  <1> USE DEF fixedVars, netVars, callVars, readerVars
  <1>1. /\ pc = "parse" /\ pc \in ParserPc /\ mode = "chunk" /\ TypeOK /\ TypeOK'
        /\ UNCHANGED <<body, reader, out, mode, outcome>>
    <2>1. pc = "parse" /\ UNCHANGED <<body, reader, out, mode, outcome>>
      BY DEF ParseHeld, ParseDone
    <2> QED BY <2>1, Parsed DEF RInv, ParserPc
  <1>2. /\ buf \in Seq(Byte) /\ buf' \in Seq(Byte) /\ Len(buf) \in Nat /\ Len(buf') \in Nat
        /\ total \in Nat /\ total' \in Nat
    BY <1>1, LenProperties DEF TypeOK
  <1>3. Len(Decoded) <= Len(Decoded')
    <2>1. CASE ParseDone
      <3>1. pc' \notin ParserPc /\ buf' = buf /\ total >= Len(buf)
        BY <2>1 DEF ParseDone, ParserPc
      <3>2. Len(out) \in Nat
        BY <1>1, GotBytes
      <3> QED BY <1>1, <1>2, <3>1, <3>2, DecodedBytes
    <2>2. CASE ParseHeld
      <3>1. total < Len(buf) /\ pc' \in ParserPc
        BY <1>1, <2>2 DEF ParseHeld, ParserPc
      <3>2. total <= total' /\ total <= Len(buf')
        <4>1. CASE UNCHANGED <<buf, total>>
          BY <1>2, <3>1, <4>1
        <4>2. CASE ~UNCHANGED <<buf, total>>
          <5> PICK line, v : line = Line(Held) /\ v = HexToSize(Line(Held))
            OBVIOUS
          <5>1. buf' = RemoveLine(line) /\ total' = total + v
            BY <2>2, <4>2 DEF ParseHeld
          <5>2. v \in Nat /\ Len(line) \in Nat
            <6>1. line \in Seq(Byte)
              <7>1. SizeAt <= Len(buf) /\ SizeAt \in Nat /\ HasEol(Held)
                BY <1>2, <2>2 DEF ParseHeld, SizeAt
              <7> QED BY <1>2, <7>1, HeldLine
            <6> QED BY <6>1, LenProperties, ValueRecursive
          <5> PICK k \in Nat : k = total + Len(line) + (IF total = 0 THEN 2 ELSE 4)
            BY <1>2, <5>2
          <5> PICK f, d : f = First(buf, total) /\ d = Drop(buf, k)
            OBVIOUS
          <5>3. f \in Seq(Byte) /\ Len(f) = total /\ d \in Seq(Byte) /\ Len(d) \in Nat
            <6>1. total \in 0..Len(buf)
              BY <1>2, <3>1
            <6> QED BY <1>2, <6>1, FirstBytes, DropBytes, LenProperties
          <5>4. buf' = f \o d
            BY <5>1 DEF RemoveLine
          <5>5. Len(buf') = total + Len(d)
            BY <5>3, <5>4, ConcatBytes
          <5> QED BY <1>2, <5>1, <5>2, <5>3, <5>5
        <4> QED BY <4>1, <4>2
      <3>3. Len(out) \in Nat
        BY <1>1, GotBytes
      <3> QED BY <1>1, <1>2, <3>1, <3>2, <3>3, DecodedBytes
    <2> QED BY <2>1, <2>2
  <1> QED BY <1>1, <1>3, MoreDecoded

LEMMA IterateBody ==
    ASSUME RInv, RInv', Phase, DecodesPrefix, DecodesPrefix', Iterate
    PROVE  Body!Decode
PROOF
  <1> USE DEF fixedVars, netVars, callVars, readerVars
  <1> PICK l : l = Least({Least({next, ask, SB_DATA_SIZE}), Len(conn)})
    OBVIOUS
  <1>1. /\ pc = "iterate" /\ pc' \in {"iterate", "returned"}
        /\ UNCHANGED <<body, reader, out, mode, outcome>> /\ buf' = buf \o First(conn, l)
    BY DEF Iterate, Return
  <1>2. mode = "chunk" /\ TypeOK /\ TypeOK'
    BY <1>1, InChunkMode DEF RInv
  <1>3. /\ buf \in Seq(Byte) /\ buf' \in Seq(Byte) /\ Len(buf) \in Nat /\ Len(buf') \in Nat
        /\ Len(out) \in Nat
    BY <1>2, LenProperties DEF TypeOK
  <1>4. Len(buf) <= Len(buf')
    BY <1>1, <1>3
  <1>5. Len(Decoded) <= Len(Decoded')
    BY <1>1, <1>2, <1>3, <1>4, DecodedBytes DEF ParserPc
  <1> QED BY <1>1, <1>2, <1>5, MoreDecoded

LEMMA HeadBody ==
    ASSUME RInv, Phase, CompleteWhole', ChunkHead
    PROVE  [Body!Next]_(Body!bodyVars)
PROOF
  <1> USE DEF fixedVars, netVars, callVars, readerVars
  <1>1. /\ pc = "head" /\ UNCHANGED <<body, reader, out, buf, outcome>> /\ pc \notin ParserPc
        /\ mode = "chunk" /\ pc' \in {"returned", "iterate"} /\ mode' \in {mode, "complete"}
    <2>1. pc = "head" /\ UNCHANGED <<body, reader, out, buf, outcome>>
      BY DEF ChunkHead
    <2>2. pc' \in {"returned", "iterate"} /\ mode' \in {mode, "complete"}
      <3> PICK e, w : e = EnoughForHead(Len(Head1)) /\ w = (HeadComplete /\ IsHex(SizeLine))
        OBVIOUS
      <3>1. CASE ~e
        BY <3>1 DEF ChunkHead, Return
      <3>2. CASE e /\ ~w
        BY <3>2 DEF ChunkHead, Return
      <3>3. CASE e /\ w
        BY <3>3 DEF ChunkHead, Return
      <3> QED BY <3>1, <3>2, <3>3
    <2> QED BY <2>1, <2>2, InChunkMode DEF ParserPc
  <1>2. Decoded' = Decoded
    BY <1>1 DEF Decoded, ParserPc
  <1>3. CASE mode' = mode
    BY <1>1, <1>2, <1>3 DEF Body!bodyVars
  <1>4. CASE mode' = "complete"
    <2>1. Decoded = Content(body)
      BY <1>1, <1>2, <1>4 DEF CompleteWhole
    <2>2. reader = "page" => outcome = "none"
      BY <1>1 DEF Phase
    <2> QED BY <1>1, <1>2, <1>4, <2>1, <2>2 DEF Body!Next, Body!Complete
  <1> QED BY <1>1, <1>3, <1>4

LEMMA ReadBody ==
    ASSUME RInv, Phase, CompleteWhole, FileRead \/ PageRead
    PROVE  Body!Hand
PROOF
  <1> USE DEF fixedVars, netVars, callVars, readerVars
  <1>1. Decoded' = Decoded /\ Body!IsPrefix(out, out') /\ Body!IsPrefix(out', Decoded)
    BY ReadGives, BodyPrefix
  <1>2. UNCHANGED <<body, reader, mode>>
    BY DEF FileRead, PageRead
  <1>3. CASE FileRead
    <2>1. reader = "file"
      BY <1>3 DEF FileRead
    <2> QED BY <1>1, <1>2, <2>1 DEF Body!Hand
  <1>4. CASE PageRead
    <2>1. /\ reader = "page" /\ pc = "returned" /\ outcome = "none" /\ out' = out \o buf
          /\ result \in {"ok", "completed", "malformed", "error"}
      BY <1>4 DEF PageRead, Phase, RInv, TypeOK
    <2>2. CASE result = "ok"
      BY <1>1, <1>2, <1>4, <2>1, <2>2 DEF Body!Hand, PageRead
    <2>3. CASE result = "completed"
      <3>1. mode = "complete" /\ Decoded = Content(body)
        BY <2>1, <2>3 DEF Phase, CompleteWhole
      <3>2. Decoded = out \o buf
        BY <2>1 DEF Decoded
      <3>3. outcome' = "finish"
        BY <1>4, <2>3 DEF PageRead
      <3> QED BY <1>1, <1>2, <2>1, <3>1, <3>2, <3>3 DEF Body!Hand
    <2>4. CASE result \in {"malformed", "error"}
      <3>1. mode # "complete" /\ outcome' = "fail"
        BY <1>4, <2>1, <2>4 DEF Phase, PageRead
      <3> QED BY <1>1, <1>2, <2>1, <3>1 DEF Body!Hand
    <2> QED BY <2>1, <2>2, <2>3, <2>4
  <1> QED BY <1>3, <1>4

(* However the stream is cut, the two parsers together are one transfer of *)
(* the body: what is decoded only grows, the response is complete, and a   *)
(* page read to its end, only with all of the content, and it is dropped   *)
(* only before anything was handed out (recvbufr.c:90-185, 577-626).       *)
THEOREM ChunkImplementsBody == Spec => BodySpec
PROOF
  <1> USE DEF fixedVars, netVars, callVars, readerVars
  <1>1. Init => Phase /\ Body!Init
    <2> SUFFICES ASSUME Init PROVE Phase /\ Body!Init
      OBVIOUS
    <2>1. /\ pc \in {"idle", "parse"} /\ mode = "chunk" /\ total = 0 /\ out = <<>>
          /\ outcome = "none" /\ (pc = "idle" => buf = <<>>)
      <3>1. PICK pre \in 0..MaxPre : /\ pre <= Len(Encoded(body))
                                     /\ buf = First(Encoded(body), pre)
                                     /\ pc = IF pre = 0 THEN "idle" ELSE "parse"
        BY DEF Init
      <3>2. First(Encoded(body), 0) = <<>>
        BY SubSeqEmpty DEF First
      <3> QED BY <3>1, <3>2 DEF Init
    <2>2. Decoded = <<>>
      <3>1. TypeOK
        BY InitInv DEF RInv
      <3>2. <<>> \o <<>> = <<>>
        BY EmptySeq, ConcatEmptySeq
      <3>3. CASE pc = "idle"
        BY <2>1, <3>2, <3>3 DEF Decoded
      <3>4. CASE pc = "parse"
        <4>1. buf \in Seq(Byte) /\ Len(buf) \in Nat
          BY <3>1, GotBytes
        <4>2. First(buf, Least({0, Len(buf)})) \in Seq(Byte) /\ Len(First(buf, Least({0, Len(buf)}))) = 0
          BY <4>1, HeldBytes
        <4>3. First(buf, Least({0, Len(buf)})) = <<>>
          BY <4>2, EmptySeq
        <4> QED BY <2>1, <3>2, <3>4, <4>3 DEF Decoded
      <3> QED BY <2>1, <3>3, <3>4
    <2> QED BY <2>1, <2>2 DEF Phase, Body!Init
  <1>2. /\ RInv /\ Phase /\ DecodesPrefix /\ DecodesPrefix' /\ CompleteWhole /\ CompleteWhole'
        /\ [Next]_vars
        => Phase' /\ [Body!Next]_(Body!bodyVars)
    <2> SUFFICES ASSUME RInv, Phase, DecodesPrefix, DecodesPrefix', CompleteWhole, CompleteWhole',
                        [Next]_vars
                 PROVE  [Body!Next]_(Body!bodyVars)
      BY PhaseStep
    <2>0. RInv'
      BY StepInv
    <2>1. CASE ParseHeld \/ ParseDone
      BY <2>0, <2>1, HeldBody DEF Body!Next
    <2>2. CASE ParsePull
      BY <2>0, <2>2, PullBody DEF ParsePull
    <2>3. CASE ParseStale
      <3>1. pc = "parse" /\ UNCHANGED <<body, reader, out, outcome>>
        BY <2>3 DEF ParseStale
      <3>2. CASE Pull(<<>>)
        BY <2>0, <3>1, <3>2, PullBody
      <3>3. CASE ~Pull(<<>>)
        <4>1. pc' \in {"spin", "crash"} /\ UNCHANGED <<buf, mode, total>>
          BY <2>3, <3>3 DEF ParseStale
        <4> QED BY <3>1, <4>1, SameBody DEF ParserPc
      <3> QED BY <3>2, <3>3
    <2>4. CASE Call \/ SocketError \/ IterateDone
      <3>1. /\ UNCHANGED <<body, reader, out, buf, total, mode, outcome>>
            /\ pc \in {"idle", "iterate", "head"}
        BY <2>4 DEF Call, SocketError, IterateDone
      <3>2. pc' \in {"returned", "iterate", "head"}
        <4>1. CASE Call
          <5>1. mode \in {"chunk", "complete", "unknown"}
            BY DEF RInv, TypeOK
          <5> QED BY <4>1, <5>1 DEF Call
        <4>2. CASE SocketError \/ IterateDone
          BY <4>2 DEF SocketError, IterateDone, Return
        <4> QED BY <2>4, <4>1, <4>2
      <3> QED BY <3>1, <3>2, SameBody DEF ParserPc
    <2>5. CASE Iterate
      BY <2>0, <2>5, IterateBody DEF Body!Next
    <2>6. CASE ChunkHead
      BY <2>6, HeadBody
    <2>7. CASE FileRead \/ PageRead
      BY <2>7, ReadBody DEF Body!Next
    <2>8. CASE Arrive \/ ServerCloses \/ ServerResets \/ UNCHANGED vars
      <3>1. UNCHANGED <<body, reader, out, buf, total, mode, outcome, pc>>
        BY <2>8 DEF Arrive, ServerCloses, ServerResets, vars
      <3> QED BY <3>1, SameBody
    <2> QED BY <2>1, <2>2, <2>3, <2>4, <2>5, <2>6, <2>7, <2>8 DEF Next, ClientStep
  <1> QED BY <1>1, <1>2, ChunkInvariant, ChunkDecodes, ChunkCompletes, PTL DEF Spec, BodySpec, Body!Spec

=============================================================================
