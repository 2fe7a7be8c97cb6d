--------------------------- MODULE RoutineLemmas ----------------------------
(***************************************************************************)
(* Facts about cutting and joining sequences, what each function of        *)
(* sendbufr.c guarantees and what one tick of routine.c does to a routine, *)
(* whatever the socket does: what the proofs about one buffer              *)
(* (SendBufferProofs), one routine (RoutineProofs) and the routines of all *)
(* connections (ServerProofs) rest on.                                     *)
(***************************************************************************)
EXTENDS Routine, SequenceTheorems, TLAPS

-----------------------------------------------------------------------------
(* Sequences.                                                              *)

(* Concatenation as an operator the SMT solver has no axioms for: it keeps *)
(* the solver from unfolding long concatenations.                          *)
Cat(x, y) == x \o y

(* Concatenation is closed and associative.                                *)
LEMMA CatAssoc ==
    ASSUME NEW S
    PROVE  /\ \A x, y \in Seq(S) : Cat(x, y) \in Seq(S)
           /\ \A x, y, z \in Seq(S) : Cat(Cat(x, y), z) = Cat(x, Cat(y, z))
PROOF
  <1>1. \A x, y \in Seq(S) : Cat(x, y) \in Seq(S)
    BY ConcatProperties DEF Cat
  <1>2. \A x, y, z \in Seq(S) : Cat(Cat(x, y), z) = Cat(x, Cat(y, z))
    BY ConcatAssociative DEF Cat
  <1> QED BY <1>1, <1>2

(* Bytes that move from the data to the buffer and from the buffer to the  *)
(* socket stay in the same place of the whole.                             *)
LEMMA MoveWrite ==
    ASSUME NEW S, NEW d \in Seq(S), NEW p \in Seq(S), NEW a \in Seq(S), NEW l \in Seq(S),
           NEW s \in Seq(S), NEW q \in Seq(S), Cat(p, a) = Cat(s, q)
    PROVE  Cat(Cat(d, p), Cat(a, l)) = Cat(Cat(Cat(d, s), q), l)
PROOF
  <1>1. Cat(Cat(d, p), Cat(a, l)) = Cat(Cat(Cat(d, p), a), l)
    BY CatAssoc
  <1>2. Cat(Cat(d, p), a) = Cat(Cat(d, s), q)
    BY CatAssoc
  <1> QED BY <1>1, <1>2

(* The same when nothing is read.                                          *)
LEMMA MoveFlush ==
    ASSUME NEW S, NEW d \in Seq(S), NEW p \in Seq(S), NEW l \in Seq(S),
           NEW s \in Seq(S), NEW q \in Seq(S), p = Cat(s, q)
    PROVE  Cat(Cat(d, p), l) = Cat(Cat(Cat(d, s), q), l)
  BY CatAssoc

(* The first part of a concatenation begins it.                            *)
LEMMA PartBegins ==
    ASSUME NEW S, NEW d \in Seq(S), NEW p \in Seq(S), NEW l \in Seq(S),
           NEW w, w = (d \o p) \o l
    PROVE  Len(d) <= Len(w) /\ \A i \in 1..Len(d) : d[i] = w[i]
PROOF
  <1>1. d \o p \in Seq(S) /\ Len(d \o p) = Len(d) + Len(p)
        /\ \A i \in 1..(Len(d) + Len(p)) : (d \o p)[i] = IF i <= Len(d) THEN d[i] ELSE p[i - Len(d)]
    BY ConcatProperties
  <1>2. Len((d \o p) \o l) = Len(d \o p) + Len(l)
        /\ \A i \in 1..(Len(d \o p) + Len(l)) : ((d \o p) \o l)[i]
              = IF i <= Len(d \o p) THEN (d \o p)[i] ELSE l[i - Len(d \o p)]
    BY <1>1, ConcatProperties
  <1>3. Len(d) \in Nat /\ Len(p) \in Nat /\ Len(l) \in Nat
    BY LenProperties
  <1> QED BY <1>1, <1>2, <1>3

(* Taking m of the first n elements is taking m elements.                  *)
LEMMA FirstOfFirst ==
    ASSUME NEW S, NEW s \in Seq(S), NEW n \in 0..Len(s), NEW m \in 0..n
    PROVE  SubSeq(SubSeq(s, 1, n), 1, m) = SubSeq(s, 1, m)
PROOF
  <1> DEFINE f == SubSeq(s, 1, n)  l == SubSeq(f, 1, m)  t == SubSeq(s, 1, m)
  <1>0. /\ Len(s) \in Nat /\ n \in Nat /\ m \in Nat /\ m <= n /\ n <= Len(s)
        /\ \A i \in 1..Len(s) : s[i] \in S
    BY LenProperties, ElementOfSeq
  <1>1. f \in Seq(S) /\ Len(f) = n /\ \A i \in 1..n : f[i] = s[i]
    <2>1. \A i \in 1..n : s[i] \in S
      BY <1>0
    <2>2. f \in Seq(S) /\ Len(f) = (IF 1 <= n THEN n - 1 + 1 ELSE 0)
          /\ \A i \in 1..(n - 1 + 1) : f[i] = s[1 + i - 1]
      BY <2>1, <1>0, SubSeqProperties
    <2> QED BY <2>2, <1>0
  <1>2. t \in Seq(S) /\ Len(t) = m /\ \A i \in 1..m : t[i] = s[i]
    <2>1. \A i \in 1..m : s[i] \in S
      BY <1>0
    <2>2. t \in Seq(S) /\ Len(t) = (IF 1 <= m THEN m - 1 + 1 ELSE 0)
          /\ \A i \in 1..(m - 1 + 1) : t[i] = s[1 + i - 1]
      BY <2>1, <1>0, SubSeqProperties
    <2> QED BY <2>2, <1>0
  <1>3. l \in Seq(S) /\ Len(l) = m /\ \A i \in 1..m : l[i] = f[i]
    <2> HIDE DEF f
    <2>1. \A i \in 1..m : f[i] \in S
      BY <1>0, <1>1, ElementOfSeq
    <2>2. l \in Seq(S) /\ Len(l) = (IF 1 <= m THEN m - 1 + 1 ELSE 0)
          /\ \A i \in 1..(m - 1 + 1) : l[i] = f[1 + i - 1]
      BY <2>1, <1>0, SubSeqProperties
    <2> QED BY <2>2, <1>0
  <1>4. \A i \in 1..Len(l) : l[i] = t[i]
    <2> HIDE DEF f, l, t
    <2> QED BY <1>0, <1>1, <1>2, <1>3
  <1> QED BY <1>2, <1>3, <1>4, SeqEqual

(* The two parts of a sequence cut after n elements, and that they join.   *)
LEMMA SplitJoin ==
    ASSUME NEW S, NEW s \in Seq(S), NEW n \in 0..Len(s)
    PROVE  /\ SubSeq(s, 1, n) \in Seq(S)
           /\ SubSeq(s, n + 1, Len(s)) \in Seq(S)
           /\ Len(SubSeq(s, 1, n)) = n
           /\ Len(SubSeq(s, n + 1, Len(s))) = Len(s) - n
           /\ SubSeq(s, 1, n) \o SubSeq(s, n + 1, Len(s)) = s
PROOF
  <1>0. Len(s) \in Nat /\ n \in Nat /\ n <= Len(s)
    BY LenProperties
  <1>1. \A i \in 1..Len(s) : s[i] \in S
    BY ElementOfSeq
  <1>2. SubSeq(s, 1, n) \in Seq(S) /\ Len(SubSeq(s, 1, n)) = n
    BY <1>0, <1>1, SubSeqProperties
  <1>3. /\ SubSeq(s, n + 1, Len(s)) \in Seq(S)
        /\ Len(SubSeq(s, n + 1, Len(s))) = Len(s) - n
    BY <1>0, <1>1, SubSeqProperties
  <1>4. SubSeq(s, 1, n) \o SubSeq(s, n + 1, Len(s)) = SubSeq(s, 1, Len(s))
    <2>1. 1 \in 1..(Len(s) + 1) /\ n \in (1 - 1)..Len(s) /\ Len(s) \in n..Len(s)
      BY <1>0
    <2> QED BY <2>1, ConcatAdjacentSubSeq
  <1> QED BY <1>2, <1>3, <1>4, SubSeqFull

(* Dropping more of the front is dropping from what is left.               *)
LEMMA DropDrop ==
    ASSUME NEW S, NEW s \in Seq(S), NEW n \in 0..Len(s), NEW k \in 0..(Len(s) - n)
    PROVE  SubSeq(SubSeq(s, n + 1, Len(s)), k + 1, Len(s) - n)
             = SubSeq(s, n + k + 1, Len(s))
PROOF
  <1> DEFINE p == SubSeq(s, n + 1, Len(s))
             l == SubSeq(p, k + 1, Len(s) - n)
             r == SubSeq(s, n + k + 1, Len(s))
  <1>0. /\ Len(s) \in Nat /\ n \in Nat /\ k \in Nat /\ n + k <= Len(s)
        /\ \A i \in 1..Len(s) : s[i] \in S
    BY LenProperties, ElementOfSeq
  <1>1. /\ p \in Seq(S) /\ Len(p) = Len(s) - n
        /\ \A i \in 1..(Len(s) - n) : p[i] = s[n + i]
    <2>1. \A i \in (n + 1)..Len(s) : s[i] \in S
      BY <1>0
    <2>2. /\ p \in Seq(S) /\ Len(p) = IF n + 1 <= Len(s) THEN Len(s) - (n + 1) + 1 ELSE 0
          /\ \A i \in 1..(Len(s) - (n + 1) + 1) : p[i] = s[(n + 1) + i - 1]
      BY <2>1, <1>0, SubSeqProperties
    <2> QED BY <2>2, <1>0
  <1>2. /\ r \in Seq(S) /\ Len(r) = Len(s) - n - k
        /\ \A i \in 1..(Len(s) - n - k) : r[i] = s[n + k + i]
    <2>1. \A i \in (n + k + 1)..Len(s) : s[i] \in S
      BY <1>0
    <2>2. /\ r \in Seq(S)
          /\ Len(r) = IF n + k + 1 <= Len(s) THEN Len(s) - (n + k + 1) + 1 ELSE 0
          /\ \A i \in 1..(Len(s) - (n + k + 1) + 1) : r[i] = s[(n + k + 1) + i - 1]
      BY <2>1, <1>0, SubSeqProperties
    <2> QED BY <2>2, <1>0
  <1>3. /\ l \in Seq(S) /\ Len(l) = Len(s) - n - k
        /\ \A i \in 1..(Len(s) - n - k) : l[i] = p[k + i]
    <2> HIDE DEF p
    <2>1. \A i \in (k + 1)..(Len(s) - n) : p[i] \in S
      BY <1>0, <1>1, ElementOfSeq
    <2>2. /\ l \in Seq(S)
          /\ Len(l) = IF k + 1 <= Len(s) - n THEN (Len(s) - n) - (k + 1) + 1 ELSE 0
          /\ \A i \in 1..((Len(s) - n) - (k + 1) + 1) : l[i] = p[(k + 1) + i - 1]
      BY <2>1, <1>0, SubSeqProperties
    <2> QED BY SMTT(30), <2>2, <1>0
  <1>4. \A i \in 1..Len(l) : l[i] = r[i]
    <2> HIDE DEF p, l, r
    <2> TAKE i \in 1..Len(l)
    <2>1. i \in 1..(Len(s) - n - k) /\ k + i \in 1..(Len(s) - n)
      BY <1>0, <1>3
    <2>2. l[i] = p[k + i] /\ p[k + i] = s[n + (k + i)] /\ r[i] = s[n + k + i]
      BY <2>1, <1>1, <1>2, <1>3
    <2>3. n + (k + i) = n + k + i
      BY <2>1, <1>0
    <2> QED BY <2>2, <2>3
  <1> QED BY <1>2, <1>3, <1>4, SeqEqual

(* Appending to a sequence appends to every suffix of it.                  *)
LEMMA AppendSuffix ==
    ASSUME NEW S, NEW s \in Seq(S), NEW t \in Seq(S), NEW n \in 0..Len(s)
    PROVE  SubSeq(s \o t, n + 1, Len(s \o t)) = SubSeq(s, n + 1, Len(s)) \o t
PROOF
  <1> DEFINE u == s \o t
             p == SubSeq(s, n + 1, Len(s))
             l == SubSeq(u, n + 1, Len(u))
             r == p \o t
  <1>0. /\ Len(s) \in Nat /\ Len(t) \in Nat /\ n \in Nat /\ n <= Len(s)
        /\ \A i \in 1..Len(s) : s[i] \in S
    BY LenProperties, ElementOfSeq
  <1>1. /\ u \in Seq(S) /\ Len(u) = Len(s) + Len(t)
        /\ \A i \in 1..(Len(s) + Len(t)) :
              u[i] = IF i <= Len(s) THEN s[i] ELSE t[i - Len(s)]
    BY ConcatProperties
  <1>2. /\ p \in Seq(S) /\ Len(p) = Len(s) - n
        /\ \A i \in 1..(Len(s) - n) : p[i] = s[n + i]
    <2>1. \A i \in (n + 1)..Len(s) : s[i] \in S
      BY <1>0
    <2>2. /\ p \in Seq(S) /\ Len(p) = IF n + 1 <= Len(s) THEN Len(s) - (n + 1) + 1 ELSE 0
          /\ \A i \in 1..(Len(s) - (n + 1) + 1) : p[i] = s[(n + 1) + i - 1]
      BY <2>1, <1>0, SubSeqProperties
    <2> QED BY <2>2, <1>0
  <1>3. /\ r \in Seq(S) /\ Len(r) = Len(s) - n + Len(t)
        /\ \A i \in 1..(Len(s) - n + Len(t)) :
              r[i] = IF i <= Len(s) - n THEN p[i] ELSE t[i - (Len(s) - n)]
    <2> HIDE DEF p
    <2>1. /\ r \in Seq(S) /\ Len(r) = Len(p) + Len(t)
          /\ \A i \in 1..(Len(p) + Len(t)) :
                r[i] = IF i <= Len(p) THEN p[i] ELSE t[i - Len(p)]
      BY <1>2, ConcatProperties
    <2> QED BY <2>1, <1>2
  <1>4. /\ l \in Seq(S) /\ Len(l) = Len(s) - n + Len(t)
        /\ \A i \in 1..(Len(s) - n + Len(t)) : l[i] = u[n + i]
    <2> HIDE DEF u
    <2>1. \A i \in (n + 1)..Len(u) : u[i] \in S
      BY <1>0, <1>1, ElementOfSeq
    <2>2. /\ l \in Seq(S)
          /\ Len(l) = IF n + 1 <= Len(u) THEN Len(u) - (n + 1) + 1 ELSE 0
          /\ \A i \in 1..(Len(u) - (n + 1) + 1) : l[i] = u[(n + 1) + i - 1]
      BY <2>1, <1>0, <1>1, SubSeqProperties
    <2> QED BY <2>2, <1>0, <1>1
  <1>5. \A i \in 1..Len(l) : l[i] = r[i]
    <2> HIDE DEF p, l, r, u
    <2> TAKE i \in 1..Len(l)
    <2>1. i \in 1..(Len(s) - n + Len(t)) /\ n + i \in 1..(Len(s) + Len(t))
      BY <1>0, <1>4
    <2>2. /\ l[i] = u[n + i]
          /\ u[n + i] = IF n + i <= Len(s) THEN s[n + i] ELSE t[(n + i) - Len(s)]
          /\ r[i] = IF i <= Len(s) - n THEN p[i] ELSE t[i - (Len(s) - n)]
      BY <2>1, <1>1, <1>3, <1>4
    <2>3. CASE n + i <= Len(s)
      <3>1. i \in 1..(Len(s) - n)
        BY <2>3, <2>1, <1>0
      <3> QED BY <3>1, <2>2, <2>3, <1>0, <1>2
    <2>4. CASE ~(n + i <= Len(s))
      <3>1. ~(i <= Len(s) - n) /\ (n + i) - Len(s) = i - (Len(s) - n)
        BY <2>4, <2>1, <1>0
      <3> QED BY <3>1, <2>2, <2>4
    <2> QED BY <2>3, <2>4
  <1> QED BY <1>3, <1>4, <1>5, SeqEqual

-----------------------------------------------------------------------------
(* The send buffer.                                                        *)

(* What sendBufferWriteData guarantees whatever send() does: the struct    *)
(* stays well formed, and the bytes that waited followed by the accepted   *)
(* ones are the bytes sent followed by the ones that wait now.             *)
LEMMA WriteLemma ==
    ASSUME NEW b \in SendBufferType, WellFormed(b),
           NEW data \in Seq(Byte), NEW net \in [k : 0..Len(data), err : BOOLEAN]
    PROVE  LET c == sendBufferWriteData(b, data, net)
               acc == SubSeq(data, 1, WriteReturn(b, data, net))
               sent == WriteSent(b, data, net)
           IN  /\ c \in SendBufferType /\ WellFormed(c)
               /\ acc \in Seq(Byte) /\ sent \in Seq(Byte)
               /\ Pending(b) \in Seq(Byte) /\ Pending(c) \in Seq(Byte)
               /\ Pending(b) \o acc = sent \o Pending(c)
PROOF
  <1> DEFINE c == sendBufferWriteData(b, data, net)
             acc == SubSeq(data, 1, WriteReturn(b, data, net))
             sent == WriteSent(b, data, net)
  <1>0. /\ Len(data) \in Nat /\ net.k \in 0..Len(data) /\ net.err \in BOOLEAN
    BY LenProperties
  <1>1. /\ b.open \in BOOLEAN /\ b.stream \in Seq(Byte) /\ b.idx \in Nat
        /\ b.fail \in BOOLEAN /\ b.idx \in 0..Len(b.stream)
        /\ b = [open |-> b.open, stream |-> b.stream, idx |-> b.idx, fail |-> b.fail]
    BY LenProperties DEF SendBufferType, WellFormed
  <1>2. Pending(b) \in Seq(Byte) /\ Len(Pending(b)) = Len(b.stream) - b.idx
    BY <1>1, SplitJoin DEF Pending
  <1>3. SubSeq(data, 1, Len(data)) = data /\ SubSeq(data, 1, 0) = <<>>
    BY <1>0, SubSeqFull, SubSeqEmpty
  <1>e. <<>> \in Seq(Byte) /\ Len(<<>>) = 0
    BY EmptySeq
  <1>n. ~b.open => Pending(b) = <<>>
    <2> SUFFICES ASSUME ~b.open PROVE SubSeq(<<>>, 0 + 1, 0) = <<>>
      BY <1>e DEF WellFormed, Pending
    <2> QED BY SubSeqEmpty
  <1>4. CASE b.open
    <2>1. /\ c = [b EXCEPT !.stream = b.stream \o data]
          /\ acc = data /\ sent = <<>>
      BY <1>4, <1>3 DEF sendBufferWriteData, WriteReturn, WriteSent
    <2>2. /\ b.stream \o data \in Seq(Byte)
          /\ Len(b.stream \o data) = Len(b.stream) + Len(data)
      BY <1>1, ConcatProperties
    <2>3. c \in SendBufferType /\ c.open /\ c.idx = b.idx /\ c.stream = b.stream \o data
      BY <2>1, <2>2, <1>1, <1>4 DEF SendBufferType
    <2>4. c.idx <= Len(c.stream)
      BY <2>2, <2>3, <1>0, <1>1, LenProperties
    <2>5. Pending(c) = Pending(b) \o data
      <3>1. SubSeq(b.stream \o data, b.idx + 1, Len(b.stream \o data))
              = SubSeq(b.stream, b.idx + 1, Len(b.stream)) \o data
        BY <1>1, AppendSuffix
      <3> HIDE DEF c
      <3> QED BY <3>1, <2>3 DEF Pending
    <2>6. Pending(c) \in Seq(Byte)
      BY <2>5, <1>2, ConcatProperties
    <2> QED BY <2>1, <2>3, <2>4, <2>5, <2>6, <1>2, <1>e, ConcatEmptySeq DEF WellFormed
  <1>5. CASE ~b.open /\ net.err
    <2>1. /\ c = [b EXCEPT !.fail = TRUE]
          /\ acc = SubSeq(data, 1, net.k) /\ sent = SubSeq(data, 1, net.k)
      BY <1>5 DEF sendBufferWriteData, WriteReturn, WriteSent
    <2>a. SubSeq(data, 1, net.k) \in Seq(Byte)
      BY <1>0, SplitJoin
    <2>2. c \in SendBufferType /\ c.open = b.open /\ c.idx = b.idx /\ c.stream = b.stream
      BY <2>1, <1>1 DEF SendBufferType
    <2>3. WellFormed(c) /\ Pending(c) = Pending(b)
      BY <2>2 DEF WellFormed, Pending
    <2> QED BY <2>1, <2>a, <2>2, <2>3, <1>2, <1>n, <1>5, ConcatEmptySeq
  <1>6. CASE ~b.open /\ ~net.err /\ net.k < Len(data)
    <2> DEFINE rest == SubSeq(data, net.k + 1, Len(data))
    <2>1. /\ c = [b EXCEPT !.open = TRUE, !.stream = rest]
          /\ acc = data /\ sent = SubSeq(data, 1, net.k)
      BY <1>6, <1>3 DEF sendBufferWriteData, WriteReturn, WriteSent
    <2>2. /\ rest \in Seq(Byte) /\ sent \in Seq(Byte) /\ sent \o rest = data
      <3>1. /\ rest \in Seq(Byte) /\ SubSeq(data, 1, net.k) \in Seq(Byte)
            /\ SubSeq(data, 1, net.k) \o rest = data
        BY <1>0, SplitJoin
      <3> QED BY <2>1, <3>1
    <2>3. b.idx = 0
      BY <1>6 DEF WellFormed
    <2>4. c \in SendBufferType /\ c.open /\ c.idx = 0 /\ c.stream = rest
      BY <2>1, <2>2, <2>3, <1>1 DEF SendBufferType
    <2>5. Len(rest) \in Nat /\ SubSeq(rest, 1, Len(rest)) = rest
      BY <2>2, LenProperties, SubSeqFull
    <2>6. WellFormed(c) /\ Pending(c) = rest
      <3> HIDE DEF rest, c
      <3>1. c.idx + 1 = 1 /\ c.idx <= Len(c.stream)
        BY <2>4, <2>5
      <3> QED BY <3>1, <2>4, <2>5 DEF WellFormed, Pending
    <2> QED BY <2>1, <2>2, <2>4, <2>6, <1>n, <1>6, <1>2, ConcatEmptySeq
  <1>7. CASE ~b.open /\ ~net.err /\ ~(net.k < Len(data))
    <2>1. net.k = Len(data)
      BY <1>7, <1>0
    <2>2. c = b /\ acc = data /\ sent = data
      BY <1>7, <1>3, <2>1 DEF sendBufferWriteData, WriteReturn, WriteSent
    <2> QED BY <2>2, <1>n, <1>7, <1>2, ConcatEmptySeq
  <1> QED BY <1>4, <1>5, <1>6, <1>7

(* The same of sendBufferFlush, which accepts nothing.                     *)
LEMMA FlushLemma ==
    ASSUME NEW b \in SendBufferType, WellFormed(b), NEW net \in FlushOutcome(b)
    PROVE  LET c == sendBufferFlush(b, net)
               sent == FlushSent(b, net)
           IN  /\ c \in SendBufferType /\ WellFormed(c)
               /\ sent \in Seq(Byte)
               /\ Pending(b) \in Seq(Byte) /\ Pending(c) \in Seq(Byte)
               /\ Pending(b) = sent \o Pending(c)
PROOF
  <1> DEFINE c == sendBufferFlush(b, net)
             sent == FlushSent(b, net)
             p == Pending(b)
  <1>1. /\ b.open \in BOOLEAN /\ b.stream \in Seq(Byte) /\ b.idx \in Nat
        /\ b.fail \in BOOLEAN /\ b.idx \in 0..Len(b.stream) /\ Len(b.stream) \in Nat
        /\ b = [open |-> b.open, stream |-> b.stream, idx |-> b.idx, fail |-> b.fail]
    BY LenProperties DEF SendBufferType, WellFormed
  <1>2. p \in Seq(Byte) /\ Len(p) = Len(b.stream) - b.idx
    BY <1>1, SplitJoin DEF Pending
  <1>3. net.k \in 0..Len(p) /\ net.k \in 0..PendingLen(b) /\ net.err \in BOOLEAN
    <2>1. PendingLen(b) = Len(p) /\ Len(p) \in Nat
      BY <1>1, <1>2 DEF PendingLen
    <2>2. net.k \in 0..PendingLen(b) /\ net.err \in BOOLEAN
      BY DEF FlushOutcome
    <2> QED BY <2>1, <2>2
  <1>e. <<>> \in Seq(Byte) /\ Len(<<>>) = 0
    BY EmptySeq
  <1>4. CASE ~b.open
    <2>1. c = b /\ sent = <<>>
      BY <1>4 DEF sendBufferFlush, FlushSent
    <2> QED BY <2>1, <1>2, <1>e, ConcatEmptySeq
  <1>5. CASE b.open
    <2> DEFINE rest == SubSeq(p, net.k + 1, Len(p))
    <2>1. /\ sent = SubSeq(p, 1, net.k) /\ sent \in Seq(Byte) /\ rest \in Seq(Byte)
          /\ sent \o rest = p
      <3>1. sent = SubSeq(p, 1, net.k)
        BY <1>5 DEF FlushSent
      <3> QED BY <3>1, <1>2, <1>3, SplitJoin
    <2>2. ASSUME NEW d \in SendBufferType, d.open, d.stream = b.stream, d.idx = b.idx + net.k
          PROVE  WellFormed(d) /\ Pending(d) = rest
      <3>1. d.idx <= Len(d.stream)
        BY <2>2, <1>1, <1>2, <1>3
      <3>2. net.k \in 0..(Len(b.stream) - b.idx) /\ Len(p) = Len(b.stream) - b.idx
        BY <1>2, <1>3
      <3>3. SubSeq(SubSeq(b.stream, b.idx + 1, Len(b.stream)), net.k + 1, Len(b.stream) - b.idx)
              = SubSeq(b.stream, b.idx + net.k + 1, Len(b.stream))
        BY <3>2, <1>1, DropDrop
      <3> QED BY <3>1, <3>2, <3>3, <2>2 DEF WellFormed, Pending
    <2>3. CASE net.err
      <3>1. c = [b EXCEPT !.idx = b.idx + net.k, !.fail = TRUE]
        BY <1>5, <2>3 DEF sendBufferFlush
      <3>2. c \in SendBufferType /\ c.open /\ c.stream = b.stream /\ c.idx = b.idx + net.k
        <4>1. b.idx + net.k \in Nat
          BY <1>1, <1>3
        <4>2. c = [open |-> b.open, stream |-> b.stream, idx |-> b.idx + net.k, fail |-> TRUE]
          BY <3>1, <1>1
        <4> HIDE DEF c
        <4> QED BY <4>1, <4>2, <1>1, <1>5 DEF SendBufferType
      <3> QED BY <3>2, <2>1, <2>2, <1>2
    <2>4. CASE ~net.err /\ net.k = PendingLen(b)
      <3>1. c = [b EXCEPT !.open = FALSE, !.stream = <<>>, !.idx = 0]
        BY <1>5, <2>4 DEF sendBufferFlush
      <3>2. c \in SendBufferType /\ c.open = FALSE /\ c.stream = <<>> /\ c.idx = 0
        <4>1. c = [open |-> FALSE, stream |-> <<>>, idx |-> 0, fail |-> b.fail]
          BY <3>1, <1>1
        <4> HIDE DEF c
        <4> QED BY <4>1, <1>1, <1>e DEF SendBufferType
      <3>3. WellFormed(c) /\ Pending(c) = <<>>
        BY <3>2, <1>e, SubSeqEmpty DEF WellFormed, Pending
      <3>4. net.k = Len(p)
        BY <2>4, <1>1, <1>2 DEF PendingLen
      <3>5. rest = <<>>
        BY <3>4, <1>1, <1>2, SubSeqEmpty
      <3> QED BY <3>2, <3>3, <3>5, <2>1, <1>2, <1>e
    <2>5. CASE ~net.err /\ net.k # PendingLen(b)
      <3>1. c = [b EXCEPT !.idx = b.idx + net.k]
        BY <1>5, <2>5 DEF sendBufferFlush
      <3>2. c \in SendBufferType /\ c.open /\ c.stream = b.stream /\ c.idx = b.idx + net.k
        BY <3>1, <1>1, <1>3, <1>5 DEF SendBufferType
      <3> QED BY <3>2, <2>1, <2>2, <1>2
    <2> QED BY <2>3, <2>4, <2>5
  <1> QED BY <1>4, <1>5

(* And of sendBufferGetBuffer, which neither accepts nor sends.            *)
LEMMA GetBufferLemma ==
    ASSUME NEW b \in SendBufferType, WellFormed(b)
    PROVE  LET c == sendBufferGetBuffer(b)
           IN  c \in SendBufferType /\ WellFormed(c) /\ Pending(c) = Pending(b)
PROOF
  <1> DEFINE c == sendBufferGetBuffer(b)
  <1>1. CASE b.open
    BY <1>1 DEF sendBufferGetBuffer
  <1>2. CASE ~b.open
    <2>1. b.stream = <<>> /\ b.idx = 0
      BY <1>2 DEF WellFormed
    <2>2. c = [b EXCEPT !.open = TRUE, !.stream = <<>>]
      BY <1>2 DEF sendBufferGetBuffer
    <2>3. c \in SendBufferType /\ c.stream = <<>> /\ c.idx = 0 /\ c.open
      BY <2>1, <2>2, EmptySeq DEF SendBufferType
    <2> QED BY <2>1, <2>3, EmptySeq DEF WellFormed, Pending
  <1>3. b.open \in BOOLEAN
    BY DEF SendBufferType
  <1> QED BY <1>1, <1>2, <1>3

-----------------------------------------------------------------------------
(* The part of the invariant that every write and flush preserves: buffer  *)
(* b over a connection that took d, with l still to be read, tracks the    *)
(* response R.                                                             *)
Begins(d, R) == Len(d) <= Len(R) /\ \A i \in 1..Len(d) : d[i] = R[i]

Track(b, d, l, R, lost) ==
    /\ b \in SendBufferType /\ WellFormed(b) /\ (b.open => PendingLen(b) > 0)
    /\ d \in Seq(Byte) /\ l \in Seq(Byte)
    /\ b.fail => lost
    /\ ~b.fail => (d \o Pending(b)) \o l = R
    /\ Begins(d, R)

(* What send() may do with n bytes: a lost connection takes none.          *)
Allowed(net, n, lost) == net \in [k : 0..n, err : BOOLEAN] /\ (lost /\ n > 0 => net.k = 0)

(* The flags and lengths sendBufferWriteData leaves behind.                *)
LEMMA WriteShape ==
    ASSUME NEW b \in SendBufferType, WellFormed(b), b.open => PendingLen(b) > 0,
           NEW data \in Seq(Byte), NEW net \in [k : 0..Len(data), err : BOOLEAN],
           NEW c, c = sendBufferWriteData(b, data, net)
    PROVE  /\ c.open => PendingLen(c) > 0
           /\ c.fail = (b.fail \/ (~b.open /\ net.err))
           /\ c.open = (b.open \/ (~net.err /\ net.k < Len(data)))
PROOF
  <1>0. /\ Len(data) \in Nat /\ net.k \in 0..Len(data) /\ net.err \in BOOLEAN
    BY LenProperties
  <1>1. /\ b.open \in BOOLEAN /\ b.stream \in Seq(Byte) /\ b.idx \in Nat
        /\ b.fail \in BOOLEAN /\ Len(b.stream) \in Nat /\ b.idx <= Len(b.stream)
        /\ b = [open |-> b.open, stream |-> b.stream, idx |-> b.idx, fail |-> b.fail]
    BY LenProperties DEF SendBufferType, WellFormed
  <1>2. CASE b.open
    <2>1. c = [open |-> b.open, stream |-> b.stream \o data, idx |-> b.idx, fail |-> b.fail]
      BY <1>1, <1>2 DEF sendBufferWriteData
    <2>2. Len(b.stream \o data) = Len(b.stream) + Len(data)
      BY <1>1, ConcatProperties
    <2>3. Len(b.stream) - b.idx > 0
      BY <1>2 DEF PendingLen
    <2>4. c.open = b.open /\ c.fail = b.fail /\ c.idx = b.idx /\ c.stream = b.stream \o data
      BY <2>1
    <2>5. PendingLen(c) > 0
      BY <2>2, <2>3, <2>4, <1>0, <1>1 DEF PendingLen
    <2> QED BY <2>4, <2>5, <1>0, <1>1, <1>2
  <1>3. CASE ~b.open /\ net.err
    <2>1. c = [open |-> b.open, stream |-> b.stream, idx |-> b.idx, fail |-> TRUE]
      BY <1>1, <1>3 DEF sendBufferWriteData
    <2>2. c.open = b.open /\ c.fail = TRUE
      BY <2>1
    <2> QED BY <2>2, <1>0, <1>1, <1>3
  <1>4. CASE ~b.open /\ ~net.err /\ net.k < Len(data)
    <2> DEFINE rest == SubSeq(data, net.k + 1, Len(data))
    <2>1. c = [open |-> TRUE, stream |-> rest, idx |-> b.idx, fail |-> b.fail]
      BY <1>1, <1>4 DEF sendBufferWriteData
    <2>2. c.open = TRUE /\ c.fail = b.fail /\ c.idx = b.idx /\ c.stream = rest
      BY <2>1
    <2>3. Len(rest) = Len(data) - net.k
      BY <1>0, SplitJoin
    <2>4. b.idx = 0
      BY <1>4 DEF WellFormed
    <2> HIDE DEF rest
    <2>5. PendingLen(c) > 0
      BY <2>2, <2>3, <2>4, <1>0, <1>4 DEF PendingLen
    <2> QED BY <2>2, <2>5, <1>0, <1>1, <1>4
  <1>5. CASE ~b.open /\ ~net.err /\ ~(net.k < Len(data))
    <2>1. c = b
      BY <1>5 DEF sendBufferWriteData
    <2> QED BY <2>1, <1>0, <1>1, <1>5
  <1> QED BY <1>2, <1>3, <1>4, <1>5

(* The flags and lengths sendBufferFlush leaves behind.                    *)
LEMMA FlushShape ==
    ASSUME NEW b \in SendBufferType, WellFormed(b), b.open => PendingLen(b) > 0,
           NEW net \in FlushOutcome(b), NEW c, c = sendBufferFlush(b, net)
    PROVE  /\ c.open => PendingLen(c) > 0
           /\ c.fail = (b.fail \/ net.err)
           /\ c.open => b.open
           /\ FlushReturn(b, net) > 0 => ~net.err
PROOF
  <1>1. /\ b.open \in BOOLEAN /\ b.stream \in Seq(Byte) /\ b.idx \in Nat
        /\ b.fail \in BOOLEAN /\ Len(b.stream) \in Nat /\ b.idx <= Len(b.stream)
        /\ b = [open |-> b.open, stream |-> b.stream, idx |-> b.idx, fail |-> b.fail]
    BY LenProperties DEF SendBufferType, WellFormed
  <1>2. /\ net.k \in 0..PendingLen(b) /\ net.err \in BOOLEAN
        /\ net.err => net.k < PendingLen(b)
    BY DEF FlushOutcome
  <1>3. PendingLen(b) = Len(b.stream) - b.idx
    BY DEF PendingLen
  <1>4. ~b.open => ~net.err
    <2> SUFFICES ASSUME ~b.open PROVE ~net.err
      OBVIOUS
    <2>1. Len(b.stream) = 0 /\ b.idx = 0
      BY EmptySeq DEF WellFormed
    <2> QED BY <2>1, <1>2, <1>3
  <1>5. FlushReturn(b, net) > 0 => ~net.err
    BY DEF FlushReturn
  <1>6. CASE ~b.open
    <2>1. c = b
      BY <1>6 DEF sendBufferFlush
    <2> QED BY <2>1, <1>1, <1>2, <1>4, <1>5, <1>6
  <1>7. CASE b.open /\ net.err
    <2>1. c = [open |-> b.open, stream |-> b.stream, idx |-> b.idx + net.k, fail |-> TRUE]
      BY <1>1, <1>7 DEF sendBufferFlush
    <2>2. c.open = b.open /\ c.stream = b.stream /\ c.idx = b.idx + net.k /\ c.fail = TRUE
      BY <2>1
    <2>3. PendingLen(c) > 0
      BY <2>2, <1>1, <1>2, <1>3, <1>7 DEF PendingLen
    <2> QED BY <2>2, <2>3, <1>1, <1>2, <1>5, <1>7
  <1>8. CASE b.open /\ ~net.err /\ net.k = PendingLen(b)
    <2>1. c = [open |-> FALSE, stream |-> <<>>, idx |-> 0, fail |-> b.fail]
      BY <1>1, <1>8 DEF sendBufferFlush
    <2>2. c.open = FALSE /\ c.fail = b.fail
      BY <2>1
    <2> QED BY <2>2, <1>1, <1>2, <1>5, <1>8
  <1>9. CASE b.open /\ ~net.err /\ net.k # PendingLen(b)
    <2>1. c = [open |-> b.open, stream |-> b.stream, idx |-> b.idx + net.k, fail |-> b.fail]
      BY <1>1, <1>9 DEF sendBufferFlush
    <2>2. c.open = b.open /\ c.stream = b.stream /\ c.idx = b.idx + net.k /\ c.fail = b.fail
      BY <2>1
    <2>3. PendingLen(c) > 0
      BY <2>2, <1>1, <1>2, <1>3, <1>9 DEF PendingLen
    <2> QED BY <2>2, <2>3, <1>1, <1>2, <1>5, <1>9
  <1> QED BY <1>6, <1>7, <1>8, <1>9

(* A flush keeps the buffer on track.                                      *)
LEMMA FlushTrack ==
    ASSUME NEW b, NEW d, NEW l, NEW R \in Seq(Byte), NEW lost \in BOOLEAN,
           Track(b, d, l, R, lost),
           NEW net \in FlushOutcome(b), lost /\ PendingLen(b) > 0 => net.k = 0,
           NEW c, c = sendBufferFlush(b, net), NEW e, e = d \o FlushSent(b, net)
    PROVE  Track(c, e, l, R, lost \/ net.err)
PROOF
  <1> DEFINE sent == FlushSent(b, net)
  <1>0. /\ b \in SendBufferType /\ WellFormed(b) /\ (b.open => PendingLen(b) > 0)
        /\ d \in Seq(Byte) /\ l \in Seq(Byte) /\ (b.fail => lost)
        /\ (~b.fail => (d \o Pending(b)) \o l = R) /\ Begins(d, R)
        /\ net \in FlushOutcome(b) /\ (lost /\ PendingLen(b) > 0 => net.k = 0)
    BY DEF Track
  <1>1. /\ c \in SendBufferType /\ WellFormed(c) /\ sent \in Seq(Byte)
        /\ Pending(b) \in Seq(Byte) /\ Pending(c) \in Seq(Byte)
        /\ Pending(b) = sent \o Pending(c)
    BY <1>0, FlushLemma
  <1>2. (c.open => PendingLen(c) > 0) /\ c.fail = (b.fail \/ net.err)
    BY <1>0, FlushShape
  <1>3. e \in Seq(Byte) /\ e = d \o sent
    BY <1>0, <1>1, ConcatProperties
  <1>4. b.fail \in BOOLEAN /\ net.err \in BOOLEAN /\ net.k \in 0..PendingLen(b)
        /\ PendingLen(b) \in Nat
    BY <1>0, LenProperties DEF SendBufferType, FlushOutcome, PendingLen, WellFormed
  <1>5. ASSUME ~b.fail PROVE (e \o Pending(c)) \o l = R
    <2> HIDE DEF sent
    <2>1. /\ d \in Seq(Byte) /\ Pending(b) \in Seq(Byte) /\ l \in Seq(Byte)
          /\ sent \in Seq(Byte) /\ Pending(c) \in Seq(Byte)
      BY <1>0, <1>1
    <2>2. Pending(b) = Cat(sent, Pending(c))
      BY <1>1 DEF Cat
    <2>3. Cat(Cat(d, Pending(b)), l) = Cat(Cat(Cat(d, sent), Pending(c)), l)
      BY <2>1, <2>2, MoveFlush
    <2>4. (d \o Pending(b)) \o l = ((d \o sent) \o Pending(c)) \o l
      BY <2>3 DEF Cat
    <2> QED BY <2>4, <1>0, <1>3, <1>5
  <1>6. Begins(e, R)
    <2>1. CASE ~b.fail
      <3>1. e \in Seq(Byte) /\ Pending(c) \in Seq(Byte) /\ l \in Seq(Byte)
        BY <1>0, <1>1, <1>3
      <3>2. R = (e \o Pending(c)) \o l
        BY <2>1, <1>5
      <3> QED BY <3>1, <3>2, PartBegins DEF Begins
    <2>2. CASE b.fail
      <3>1. net.k = 0
        BY <2>2, <1>0, <1>4
      <3>2. sent = <<>>
        BY <3>1, <1>1, SubSeqEmpty DEF FlushSent
      <3>3. e = d
        BY <3>2, <1>0, <1>3, ConcatEmptySeq
      <3> QED BY <3>3, <1>0
    <2> QED BY <2>1, <2>2, <1>4
  <1> QED BY <1>0, <1>1, <1>2, <1>3, <1>4, <1>5, <1>6 DEF Track

(* So does writing the next n elements of the data, provided that the data *)
(* counts as read only as far as the write accepted it.                    *)
LEMMA WriteTrack ==
    ASSUME NEW b, NEW d, NEW l, NEW R \in Seq(Byte), NEW lost \in BOOLEAN,
           Track(b, d, l, R, lost),
           NEW n \in 0..Len(l), NEW net, Allowed(net, n, lost),
           NEW m \in Seq(Byte),
           ~sendBufferWriteData(b, First(l, n), net).fail => m = Drop(l, n)
    PROVE  Track(sendBufferWriteData(b, First(l, n), net), d \o WriteSent(b, First(l, n), net),
                 m, R, lost \/ net.err)
PROOF
  <1> DEFINE data == First(l, n)
             c == sendBufferWriteData(b, data, net)
             sent == WriteSent(b, data, net)
             e == d \o sent
             ret == WriteReturn(b, data, net)
             acc == SubSeq(data, 1, ret)
             rest == SubSeq(l, ret + 1, Len(l))
  <1>0. /\ b \in SendBufferType /\ WellFormed(b) /\ (b.open => PendingLen(b) > 0)
        /\ d \in Seq(Byte) /\ l \in Seq(Byte) /\ (b.fail => lost)
        /\ (~b.fail => (d \o Pending(b)) \o l = R) /\ Begins(d, R)
        /\ net \in [k : 0..n, err : BOOLEAN] /\ (lost /\ n > 0 => net.k = 0)
    BY DEF Track, Allowed
  <1>1. /\ data \in Seq(Byte) /\ Len(data) = n /\ n \in Nat /\ Len(l) \in Nat
        /\ b.fail \in BOOLEAN /\ b.open \in BOOLEAN
    BY <1>0, SplitJoin, LenProperties DEF First, SendBufferType
  <1>2. /\ c \in SendBufferType /\ WellFormed(c) /\ acc \in Seq(Byte) /\ sent \in Seq(Byte)
        /\ Pending(b) \in Seq(Byte) /\ Pending(c) \in Seq(Byte)
        /\ Pending(b) \o acc = sent \o Pending(c)
    BY <1>0, <1>1, WriteLemma
  <1>3. /\ (c.open => PendingLen(c) > 0)
        /\ c.fail = (b.fail \/ (~b.open /\ net.err))
    BY <1>0, <1>1, WriteShape
  <1>4. e \in Seq(Byte) /\ e = d \o sent
    BY <1>0, <1>2, ConcatProperties
  <1>5. ret \in 0..n /\ (~c.fail => ret = n)
    <2>1. ret = IF ~b.open /\ net.err THEN net.k ELSE n
      BY <1>1 DEF WriteReturn
    <2> HIDE DEF ret
    <2> QED BY <2>1, <1>0, <1>1, <1>3
  <1>6. ASSUME ~b.fail PROVE (e \o Pending(c)) \o rest = R
    <2>1. acc = SubSeq(l, 1, ret)
      BY <1>0, <1>5, FirstOfFirst DEF First
    <2>2. ret \in 0..Len(l)
      BY <1>1, <1>5
    <2>3. rest \in Seq(Byte) /\ acc \o rest = l
      BY <2>1, <2>2, <1>0, SplitJoin
    <2> HIDE DEF sent, acc, rest, ret
    <2>4. (d \o Pending(b)) \o (acc \o rest) = ((d \o sent) \o Pending(c)) \o rest
      <3>1. /\ d \in Seq(Byte) /\ Pending(b) \in Seq(Byte) /\ acc \in Seq(Byte)
            /\ rest \in Seq(Byte) /\ sent \in Seq(Byte) /\ Pending(c) \in Seq(Byte)
        BY <1>0, <1>2, <2>3
      <3>2. Cat(Pending(b), acc) = Cat(sent, Pending(c))
        BY <1>2 DEF Cat
      <3>3. Cat(Cat(d, Pending(b)), Cat(acc, rest)) = Cat(Cat(Cat(d, sent), Pending(c)), rest)
        BY SMTT(30), <3>1, <3>2, MoveWrite
      <3> QED BY <3>3 DEF Cat
    <2> QED BY <2>3, <2>4, <1>0, <1>4, <1>6
  <1>7. ~c.fail => (e \o Pending(c)) \o m = R
    <2> SUFFICES ASSUME ~c.fail PROVE (e \o Pending(c)) \o m = R
      OBVIOUS
    <2>1. m = rest /\ ~b.fail
      BY <1>3, <1>5 DEF Drop
    <2> QED BY <2>1, <1>6
  <1>8. Begins(e, R)
    <2>1. CASE ~b.fail
      <3>1. rest \in Seq(Byte)
        BY <1>0, <1>1, <1>5, SplitJoin
      <3> HIDE DEF rest
      <3>2. e \in Seq(Byte) /\ Pending(c) \in Seq(Byte)
        BY <1>2, <1>4
      <3>3. R = (e \o Pending(c)) \o rest
        BY <2>1, <1>6
      <3> QED BY <3>1, <3>2, <3>3, PartBegins DEF Begins
    <2>2. CASE b.fail
      <3>1. net.k = 0
        BY <2>2, <1>0, <1>1
      <3>2. sent = <<>>
        BY <3>1, <1>1, SubSeqEmpty DEF WriteSent
      <3>3. e = d
        BY <3>2, <1>0, <1>4, ConcatEmptySeq
      <3> QED BY <3>3, <1>0
    <2> QED BY <2>1, <2>2, <1>1
  <1>9. c.fail => (lost \/ net.err)
    BY <1>0, <1>1, <1>3
  <1> QED BY <1>2, <1>3, <1>4, <1>7, <1>8, <1>9 DEF Track

-----------------------------------------------------------------------------
(* What the states say about the struct.                                   *)
Shape(r) ==
    /\ r.state = "DEFER" => r.sb.open
    /\ r.type = "ROUTINE" => r.left = <<>> /\ (r.state \in {"CONTINUE", "FINISH"} => ~r.sb.open)
    /\ r.type = "FILE" /\ r.state = "FINISH" => ~r.sb.fail /\ ~r.sb.open /\ r.left = <<>>

(* Routine r is at work on response R, of which the connection took d.     *)
Sound(r, d, R, lost) == r \in RoutineType /\ Shape(r) /\ Track(r.sb, d, r.left, R, lost)

(* The fields of a routine.                                                *)
LEMMA RoutineFields ==
    ASSUME NEW r \in RoutineType
    PROVE  /\ r.type \in RoutineKind /\ r.state \in RoutineState
           /\ r.sb \in SendBufferType /\ r.left \in Seq(Byte) /\ Len(r.left) \in Nat
           /\ r.sb.open \in BOOLEAN /\ r.sb.fail \in BOOLEAN
           /\ r = [type |-> r.type, state |-> r.state, sb |-> r.sb, left |-> r.left]
  BY LenProperties DEF RoutineType, SendBufferType

(* A routine put together from its fields.                                 *)
LEMMA RoutineBuild ==
    ASSUME NEW ty \in RoutineKind, NEW st \in RoutineState, NEW b \in SendBufferType,
           NEW l \in Seq(Byte), NEW s,
           s = [type |-> ty, state |-> st, sb |-> b, left |-> l]
    PROVE  s \in RoutineType /\ s.type = ty /\ s.state = st /\ s.sb = b /\ s.left = l
  BY DEF RoutineType

(* A buffer without a memory stream has nothing pending.                   *)
LEMMA NothingPending ==
    ASSUME NEW b \in SendBufferType, WellFormed(b), ~b.open
    PROVE  PendingLen(b) = 0 /\ Pending(b) = <<>>
PROOF
  <1>1. b.stream = <<>> /\ b.idx = 0 /\ Len(<<>>) = 0
    BY EmptySeq DEF WellFormed
  <1> QED BY <1>1, SubSeqEmpty DEF Pending, PendingLen

(* A deferred routine that wakes (routine.c:237-257).                      *)
LEMMA DeferLemma ==
    ASSUME NEW r, NEW d, NEW R \in Seq(Byte), NEW lost \in BOOLEAN, Sound(r, d, R, lost),
           NEW net \in FlushOutcome(r.sb), lost /\ PendingLen(r.sb) > 0 => net.k = 0
    PROVE  LET s == TickDefer(r, net)
               e == IF r.sb.fail THEN d ELSE d \o FlushSent(r.sb, net)
           IN  /\ Sound(s, e, R, lost \/ (~r.sb.fail /\ net.err)) /\ s.type = r.type
               /\ s.state \in {"FAIL", "FLUSH"}
               /\ s.state = "FAIL" => r.sb.fail \/ net.err \/ ~r.sb.open \/ net.k = 0
PROOF
  <1> DEFINE s == TickDefer(r, net)
             e == IF r.sb.fail THEN d ELSE d \o FlushSent(r.sb, net)
  <1>0. r \in RoutineType /\ Shape(r) /\ Track(r.sb, d, r.left, R, lost)
    BY DEF Sound
  <1>1. /\ r.type \in RoutineKind /\ r.left \in Seq(Byte) /\ r.sb \in SendBufferType
        /\ r.sb.open \in BOOLEAN /\ r.sb.fail \in BOOLEAN
        /\ r = [type |-> r.type, state |-> r.state, sb |-> r.sb, left |-> r.left]
    BY <1>0, RoutineFields
  <1>2. net.err \in BOOLEAN
    BY DEF FlushOutcome
  <1>3. CASE r.sb.fail
    <2>1. s = [type |-> r.type, state |-> "FAIL", sb |-> r.sb, left |-> r.left]
      BY <1>1, <1>3 DEF TickDefer
    <2>2. s \in RoutineType /\ s.type = r.type /\ s.state = "FAIL" /\ s.sb = r.sb /\ s.left = r.left
      BY <2>1, <1>1, RoutineBuild DEF RoutineState
    <2>3. Shape(s)
      BY <2>2, <1>0 DEF Shape
    <2>4. Track(s.sb, e, s.left, R, lost \/ (~r.sb.fail /\ net.err))
      BY <2>2, <1>0, <1>3 DEF Track
    <2> QED BY <2>2, <2>3, <2>4, <1>3 DEF Sound
  <1>4. CASE ~r.sb.fail
    <2> DEFINE c == sendBufferFlush(r.sb, net)
               st == IF FlushReturn(r.sb, net) = 0 \/ net.err THEN "FAIL" ELSE "FLUSH"
    <2>1. s = [type |-> r.type, state |-> st, sb |-> c, left |-> r.left]
      BY <1>1, <1>4 DEF TickDefer
    <2>2. Track(c, e, r.left, R, lost \/ net.err)
      BY <1>0, <1>4, FlushTrack
    <2>3. c \in SendBufferType /\ st \in {"FAIL", "FLUSH"}
      BY <2>2 DEF Track
    <2>4. st = "FAIL" => net.err \/ ~r.sb.open \/ net.k = 0
      BY DEF FlushReturn
    <2> HIDE DEF c, st
    <2>5. s \in RoutineType /\ s.type = r.type /\ s.state = st /\ s.sb = c /\ s.left = r.left
      BY <2>1, <2>3, <1>1, RoutineBuild DEF RoutineState
    <2>6. Shape(s)
      BY <2>3, <2>5, <1>0 DEF Shape
    <2>7. Track(s.sb, e, s.left, R, lost \/ (~r.sb.fail /\ net.err))
      BY <2>2, <2>5, <1>2, <1>4 DEF Track
    <2> QED BY <2>3, <2>4, <2>5, <2>6, <2>7 DEF Sound
  <1> QED BY <1>3, <1>4

(* A flushing routine (routine.c:259-268).                                 *)
LEMMA FlushingLemma ==
    ASSUME NEW r, NEW d, NEW R \in Seq(Byte), NEW lost \in BOOLEAN, Sound(r, d, R, lost),
           NEW net \in FlushOutcome(r.sb), lost /\ PendingLen(r.sb) > 0 => net.k = 0
    PROVE  LET s == TickFlush(r, net)
               e == d \o FlushSent(r.sb, net)
           IN  /\ Sound(s, e, R, lost \/ net.err) /\ s.type = r.type
               /\ s.state \in {"CONTINUE", "FAIL", "FLUSH"}
               /\ s.state = "FAIL" => r.sb.fail \/ net.err
PROOF
  <1> DEFINE s == TickFlush(r, net)
             e == d \o FlushSent(r.sb, net)
  <1>0. r \in RoutineType /\ Shape(r) /\ Track(r.sb, d, r.left, R, lost)
    BY DEF Sound
  <1>1. /\ r.type \in RoutineKind /\ r.left \in Seq(Byte) /\ r.sb \in SendBufferType
        /\ r.sb.open \in BOOLEAN /\ r.sb.fail \in BOOLEAN
        /\ r = [type |-> r.type, state |-> r.state, sb |-> r.sb, left |-> r.left]
    BY <1>0, RoutineFields
  <1>2. net.err \in BOOLEAN
    BY DEF FlushOutcome
  <1> DEFINE c == sendBufferFlush(r.sb, net)
             st == IF ~r.sb.open THEN "CONTINUE"
                   ELSE IF FlushReturn(r.sb, net) = 0 /\ (r.sb.fail \/ net.err) THEN "FAIL"
                   ELSE "FLUSH"
  <1>3. s = [type |-> r.type, state |-> st, sb |-> c, left |-> r.left]
    BY <1>1 DEF TickFlush, sendBufferFlush
  <1>4. Track(c, e, r.left, R, lost \/ net.err)
    BY <1>0, FlushTrack
  <1>5. c \in SendBufferType /\ (~r.sb.open => c = r.sb)
    BY <1>4 DEF Track, sendBufferFlush
  <1>6. /\ st \in {"CONTINUE", "FAIL", "FLUSH"} /\ (st = "CONTINUE" => ~c.open)
        /\ (st = "FAIL" => r.sb.fail \/ net.err)
    BY <1>1, <1>2, <1>5
  <1> HIDE DEF c, st
  <1>7. s \in RoutineType /\ s.type = r.type /\ s.state = st /\ s.sb = c /\ s.left = r.left
    BY <1>3, <1>5, <1>6, <1>1, RoutineBuild DEF RoutineState
  <1>8. Shape(s)
    BY <1>6, <1>7, <1>0 DEF Shape
  <1> QED BY <1>4, <1>6, <1>7, <1>8 DEF Sound

(* The next block of a file (routine.c:118-141, 274-294).                  *)
LEMMA ContinueFileLemma ==
    ASSUME NEW r, NEW d, NEW R \in Seq(Byte), NEW lost \in BOOLEAN, Sound(r, d, R, lost),
           r.state = "CONTINUE", r.type = "FILE",
           NEW net \in SendOutcome(Len(Block(r))), lost /\ Len(Block(r)) > 0 => net.k = 0
    PROVE  LET s == TickContinueFile(r, net)
               e == d \o WriteSent(r.sb, Block(r), net)
           IN  /\ Sound(s, e, R, lost \/ net.err) /\ s.type = r.type
               /\ s.state \in {"FAIL", "DEFER", "FINISH", "CONTINUE"}
               /\ s.state = "FAIL" => lost \/ net.err
PROOF
  <1> DEFINE s == TickContinueFile(r, net)
             e == d \o WriteSent(r.sb, Block(r), net)
  <1>0. r \in RoutineType /\ Shape(r) /\ Track(r.sb, d, r.left, R, lost)
    BY DEF Sound
  <1>1. /\ r.type \in RoutineKind /\ r.left \in Seq(Byte) /\ r.sb \in SendBufferType
        /\ r.sb.open \in BOOLEAN /\ r.sb.fail \in BOOLEAN /\ Len(r.left) \in Nat
        /\ r = [type |-> r.type, state |-> r.state, sb |-> r.sb, left |-> r.left]
    BY <1>0, RoutineFields
  <1> DEFINE n == Least(SB_DATA_SIZE, Len(r.left))
             data == Block(r)
             c == sendBufferWriteData(r.sb, data, net)
             ret == WriteReturn(r.sb, data, net)
             m == Drop(r.left, ret)
  <1>2. n \in 0..Len(r.left) /\ data = First(r.left, n) /\ Len(data) = n /\ data \in Seq(Byte)
    <2>1. n \in 0..Len(r.left)
      BY <1>1, SbDataSizeAssumption DEF Least
    <2>2. data = First(r.left, n)
      BY DEF Block
    <2> HIDE DEF n
    <2> QED BY <2>1, <2>2, <1>1, SplitJoin DEF First
  <1>3. /\ net \in [k : 0..n, err : BOOLEAN] /\ (lost /\ n > 0 => net.k = 0)
        /\ net.k \in 0..n /\ net.err \in BOOLEAN /\ (net.err => net.k = 0)
    BY <1>2 DEF SendOutcome
  <1>4. /\ ret = (IF ~r.sb.open /\ net.err THEN 0 ELSE n)
        /\ c.fail = (r.sb.fail \/ (~r.sb.open /\ net.err))
        /\ c.open = (r.sb.open \/ (~net.err /\ net.k < n))
    <2>1. WellFormed(r.sb) /\ (r.sb.open => PendingLen(r.sb) > 0)
      BY <1>0 DEF Track
    <2>2. /\ c.fail = (r.sb.fail \/ (~r.sb.open /\ net.err))
          /\ c.open = (r.sb.open \/ (~net.err /\ net.k < Len(data)))
      BY <1>1, <1>2, <1>3, <2>1, WriteShape
    <2>3. ret = (IF ~r.sb.open /\ net.err THEN 0 ELSE n)
      BY <1>2, <1>3 DEF WriteReturn
    <2> QED BY <2>2, <2>3, <1>2
  <1>5. m \in Seq(Byte) /\ (~c.fail => m = Drop(r.left, n))
    <2> HIDE DEF ret, c, n, data
    <2>1. ret \in 0..Len(r.left) /\ (~c.fail => ret = n)
      BY <1>1, <1>2, <1>3, <1>4
    <2> QED BY <2>1, <1>1, SplitJoin DEF Drop
  <1>6. Track(c, e, m, R, lost \/ net.err)
    <2> HIDE DEF m, n, ret
    <2>1. Allowed(net, n, lost)
      BY <1>3 DEF Allowed
    <2>2. Track(c, d \o WriteSent(r.sb, data, net), m, R, lost \/ net.err)
      <3>1. /\ Track(r.sb, d, r.left, R, lost) /\ n \in 0..Len(r.left) /\ data = First(r.left, n)
            /\ m \in Seq(Byte) /\ (~c.fail => m = Drop(r.left, n))
        BY <1>0, <1>2, <1>5
      <3> HIDE DEF data
      <3> QED BY <3>1, <2>1, WriteTrack
    <2> QED BY <2>2
  <1>7. c \in SendBufferType /\ (c.fail => lost \/ net.err)
    BY <1>6 DEF Track
  <1>8. CASE r.left = <<>>
    <2>1. n = 0 /\ data = <<>>
      BY <1>8, <1>1, <1>2, EmptySeq, SbDataSizeAssumption DEF Least
    <2>2. e = d
      <3>1. net.k = 0
        BY <1>3, <2>1
      <3>2. WriteSent(r.sb, data, net) = <<>>
        BY <3>1, SubSeqEmpty DEF WriteSent
      <3>3. d \in Seq(Byte)
        BY <1>0 DEF Track
      <3> QED BY <3>2, <3>3, ConcatEmptySeq
    <2> DEFINE st == IF r.sb.fail THEN "FAIL" ELSE IF r.sb.open THEN "DEFER" ELSE "FINISH"
    <2>3. s = [type |-> r.type, state |-> st, sb |-> r.sb, left |-> r.left]
      BY <1>1, <1>8 DEF TickContinueFile, FileRoutineContinue, FileRoutineWrote
    <2>4. Track(r.sb, e, r.left, R, lost \/ net.err)
      BY <1>0, <1>3, <2>2 DEF Track
    <2>5. /\ st \in {"FAIL", "DEFER", "FINISH"} /\ (st = "DEFER" => r.sb.open)
          /\ (st = "FINISH" => ~r.sb.open /\ ~r.sb.fail)
          /\ (st = "FAIL" => r.sb.fail)
      BY <1>1
    <2> HIDE DEF st
    <2>6. s \in RoutineType /\ s.type = r.type /\ s.state = st /\ s.sb = r.sb /\ s.left = r.left
      BY <2>3, <2>5, <1>1, RoutineBuild DEF RoutineState
    <2>7. Shape(s)
      BY <2>5, <2>6, <1>8 DEF Shape
    <2>8. r.sb.fail => lost
      BY <1>0 DEF Track
    <2> QED BY <2>4, <2>5, <2>6, <2>7, <2>8 DEF Sound
  <1>9. CASE r.left # <<>>
    <2> DEFINE st == IF ret # 0
                     THEN IF c.open /\ Len(c.stream) > SB_DATA_SIZE THEN "DEFER" ELSE "CONTINUE"
                     ELSE IF c.fail THEN "FAIL" ELSE IF c.open THEN "DEFER" ELSE "FINISH"
    <2>1. s = [type |-> r.type, state |-> st, sb |-> c, left |-> m]
      <3> DEFINE t == FileRoutineContinue(r, net)
      <3>1. t = [r EXCEPT !.sb = c, !.left = m]
        BY <1>9 DEF FileRoutineContinue
      <3>2. FileRoutineWrote(r, net) <=> ret # 0
        BY <1>9 DEF FileRoutineWrote
      <3>3. s = [t EXCEPT !.state =
                   IF FileRoutineWrote(r, net)
                   THEN IF t.sb.open /\ Len(t.sb.stream) > SB_DATA_SIZE THEN "DEFER" ELSE "CONTINUE"
                   ELSE IF t.sb.fail THEN "FAIL" ELSE IF t.sb.open THEN "DEFER" ELSE "FINISH"]
        BY DEF TickContinueFile
      <3> HIDE DEF c, m, ret, s, t, data
      <3>4. t = [type |-> r.type, state |-> r.state, sb |-> c, left |-> m]
        BY <3>1, <1>1
      <3>5. t.sb = c
        BY <3>4
      <3>6. s = [t EXCEPT !.state = st]
        BY <3>2, <3>3, <3>5
      <3> HIDE DEF st
      <3> QED BY <3>4, <3>6
    <2>2. /\ st \in {"FAIL", "DEFER", "CONTINUE"} /\ (st = "DEFER" => c.open)
          /\ (st = "FAIL" => c.fail)
      <3>1. n # 0
        BY <1>1, <1>9, EmptySeq, SbDataSizeAssumption DEF Least
      <3>2. ret = 0 => c.fail
        BY <3>1, <1>1, <1>3, <1>4
      <3> HIDE DEF ret, c
      <3> QED BY <3>2
    <2> HIDE DEF st, c, m
    <2>3. s \in RoutineType /\ s.type = r.type /\ s.state = st /\ s.sb = c /\ s.left = m
      BY <2>1, <2>2, <1>1, <1>5, <1>7, RoutineBuild DEF RoutineState
    <2>4. Shape(s)
      BY <2>2, <2>3 DEF Shape
    <2> QED BY <1>6, <1>7, <2>2, <2>3, <2>4 DEF Sound
  <1> QED BY <1>8, <1>9

(* The next entries of a directory (routine.c:9-83).                       *)
LEMMA ContinueDirLemma ==
    ASSUME NEW r, NEW d, NEW R \in Seq(Byte), NEW lost \in BOOLEAN, Sound(r, d, R, lost),
           r.state = "CONTINUE", r.type = "DIR",
           NEW wnet \in SendsOutcome(Len(Batch(r))), lost /\ Len(Batch(r)) > 0 => wnet.k = 0,
           NEW b, b = sendBufferWriteData(r.sb, Batch(r), wnet),
           NEW fnet \in FlushOutcome(b), (lost \/ wnet.err) /\ PendingLen(b) > 0 => fnet.k = 0
    PROVE  LET s == DirectoryRoutineContinue(r, wnet, fnet)
               e == (d \o WriteSent(r.sb, Batch(r), wnet)) \o FlushSent(b, fnet)
           IN  /\ Sound(s, e, R, lost \/ wnet.err \/ fnet.err) /\ s.type = r.type
               /\ s.state \in {"FINISH", "CONTINUE"}
PROOF
  <1> DEFINE s == DirectoryRoutineContinue(r, wnet, fnet)
             e == (d \o WriteSent(r.sb, Batch(r), wnet)) \o FlushSent(b, fnet)
  <1>0. r \in RoutineType /\ Shape(r) /\ Track(r.sb, d, r.left, R, lost)
    BY DEF Sound
  <1>1. /\ r.type \in RoutineKind /\ r.left \in Seq(Byte) /\ r.sb \in SendBufferType
        /\ Len(r.left) \in Nat
        /\ r = [type |-> r.type, state |-> r.state, sb |-> r.sb, left |-> r.left]
    BY <1>0, RoutineFields
  <1> DEFINE n == Least(DirMax, Len(r.left))
             data == Batch(r)
             m == Drop(r.left, n)
             f == d \o WriteSent(r.sb, data, wnet)
             c == sendBufferFlush(b, fnet)
             st == IF LastBatch(r) THEN "FINISH" ELSE "CONTINUE"
  <1>2. n \in 0..Len(r.left) /\ data = First(r.left, n) /\ Len(data) = n
    <2>1. n \in 0..Len(r.left)
      BY <1>1, DirMaxAssumption DEF Least
    <2>2. data = First(r.left, n)
      BY DEF Batch
    <2> HIDE DEF n
    <2> QED BY <2>1, <2>2, <1>1, SplitJoin DEF First
  <1>3. /\ wnet \in [k : 0..n, err : BOOLEAN] /\ wnet.err \in BOOLEAN /\ fnet.err \in BOOLEAN
        /\ (lost /\ n > 0 => wnet.k = 0)
    BY <1>2 DEF SendsOutcome, FlushOutcome
  <1>4. m \in Seq(Byte)
    BY <1>1, <1>2, SplitJoin DEF Drop
  <1>5. Track(b, f, m, R, lost \/ wnet.err)
    <2> HIDE DEF n
    <2>1. Allowed(wnet, n, lost)
      BY <1>3 DEF Allowed
    <2> QED BY <1>0, <1>2, <1>4, <2>1, WriteTrack
  <1>6. Track(c, e, m, R, (lost \/ wnet.err) \/ fnet.err)
    <2> HIDE DEF f, m, n
    <2>1. /\ Track(b, f, m, R, lost \/ wnet.err) /\ (lost \/ wnet.err) \in BOOLEAN
          /\ e = f \o FlushSent(b, fnet)
      BY <1>3, <1>5 DEF f
    <2> QED BY <2>1, FlushTrack
  <1>7. s = [type |-> r.type, state |-> st, sb |-> c, left |-> m]
    <2>1. s = [r EXCEPT !.sb = c, !.left = m, !.state = st]
      BY <1>2 DEF DirectoryRoutineContinue
    <2> HIDE DEF s, c, m, st
    <2> QED BY <2>1, <1>1
  <1>8. c \in SendBufferType
    BY <1>6 DEF Track
  <1>9. st \in {"FINISH", "CONTINUE"}
    OBVIOUS
  <1> HIDE DEF st, c, m, f, n
  <1>10. s \in RoutineType /\ s.type = r.type /\ s.state = st /\ s.sb = c /\ s.left = m
    BY <1>4, <1>7, <1>8, <1>9, <1>1, RoutineBuild DEF RoutineState
  <1>11. Shape(s)
    BY <1>9, <1>10 DEF Shape
  <1>12. Track(c, e, m, R, lost \/ wnet.err \/ fnet.err)
    BY <1>6
  <1> QED BY <1>9, <1>10, <1>11, <1>12 DEF Sound

(* The plain routine, which has nothing more to send.                      *)
LEMMA ContinuePlainLemma ==
    ASSUME NEW r, NEW d, NEW R, NEW lost, Sound(r, d, R, lost),
           r.state = "CONTINUE", r.type = "ROUTINE", NEW s, s = TickContinuePlain(r)
    PROVE  Sound(s, d, R, lost) /\ s.type = r.type /\ s.state = "FINISH"
PROOF
  <1>0. r \in RoutineType /\ Shape(r) /\ Track(r.sb, d, r.left, R, lost)
    BY DEF Sound
  <1>1. /\ r.type \in RoutineKind /\ r.left \in Seq(Byte) /\ r.sb \in SendBufferType
        /\ r = [type |-> r.type, state |-> r.state, sb |-> r.sb, left |-> r.left]
    BY <1>0, RoutineFields
  <1>2. s = [type |-> r.type, state |-> "FINISH", sb |-> r.sb, left |-> r.left]
    BY <1>1 DEF TickContinuePlain
  <1>3. s \in RoutineType /\ s.type = r.type /\ s.state = "FINISH" /\ s.sb = r.sb /\ s.left = r.left
    BY <1>1, <1>2, RoutineBuild DEF RoutineState
  <1>4. Shape(s)
    BY <1>0, <1>3 DEF Shape
  <1> QED BY <1>0, <1>3, <1>4 DEF Sound

(* The routine a handler adds: its header went through a new buffer, also  *)
(* when it could not be written.                                           *)
LEMMA NewRoutineLemma ==
    ASSUME NEW kind \in RoutineKind, NEW head \in Seq(Byte), NEW body \in Seq(Byte),
           kind = "ROUTINE" => body = <<>>,
           NEW net \in [k : 0..Len(head), err : BOOLEAN],
           NEW b, b = sendBufferWriteData(sendBufferNew, head, net),
           NEW e, e = WriteSent(sendBufferNew, head, net)
    PROVE  /\ Sound(RoutineNew(kind, b, body), e, head \o body, net.err)
           /\ RoutineNew(kind, b, body).state = "FLUSH"
           /\ RoutineNew(kind, b, body).type = kind
PROOF
  <1> DEFINE new == sendBufferNew
             R == head \o body
             n == Len(head)
             ret == WriteReturn(new, head, net)
             acc == SubSeq(head, 1, ret)
             s == RoutineNew(kind, b, body)
  <1>1. R \in Seq(Byte)
    BY ConcatProperties
  <1>2. new \in SendBufferType /\ WellFormed(new) /\ new.open = FALSE /\ new.fail = FALSE
    BY EmptySeq DEF sendBufferNew, SendBufferType, WellFormed
  <1>3. net.k \in 0..n /\ net.err \in BOOLEAN /\ n \in Nat
    BY LenProperties
  <1>4. Pending(new) = <<>>
    BY <1>2, NothingPending
  <1>5. /\ b \in SendBufferType /\ WellFormed(b) /\ acc \in Seq(Byte) /\ e \in Seq(Byte)
        /\ Pending(b) \in Seq(Byte) /\ Pending(new) \o acc = e \o Pending(b)
    BY <1>2, <1>3, WriteLemma
  <1>6. (b.open => PendingLen(b) > 0) /\ b.fail = net.err
    BY <1>2, <1>3, WriteShape
  <1>7. acc = e \o Pending(b)
    BY <1>4, <1>5, ConcatEmptySeq
  <1>8. ~b.fail => (e \o Pending(b)) \o body = R
    <2> SUFFICES ASSUME ~b.fail PROVE (e \o Pending(b)) \o body = R
      OBVIOUS
    <2>1. ret = n
      BY <1>2, <1>6 DEF WriteReturn
    <2>2. acc = head
      BY <2>1, SubSeqFull
    <2> QED BY <2>2, <1>7
  <1>9. Begins(e, R)
    <2>1. e = SubSeq(head, 1, net.k)
      BY <1>2 DEF WriteSent
    <2> DEFINE rest == SubSeq(head, net.k + 1, n)
    <2>2. rest \in Seq(Byte) /\ e \o rest = head
      BY <2>1, <1>3, SplitJoin
    <2> HIDE DEF rest
    <2>3. R = (e \o rest) \o body
      BY <2>2
    <2> HIDE DEF R
    <2> QED BY SMTT(30), <2>2, <2>3, <1>5, PartBegins DEF Begins
  <1>10. Track(b, e, body, R, net.err)
    <2> HIDE DEF R
    <2> QED BY <1>5, <1>6, <1>8, <1>9 DEF Track
  <1>11. s = [type |-> kind, state |-> "FLUSH", sb |-> b, left |-> body]
    BY DEF RoutineNew
  <1> HIDE DEF R, s
  <1>12. s \in RoutineType /\ s.type = kind /\ s.state = "FLUSH" /\ s.sb = b /\ s.left = body
    BY <1>5, <1>11, RoutineBuild DEF RoutineState
  <1>13. Shape(s)
    BY <1>12 DEF Shape
  <1> QED BY <1>10, <1>12, <1>13 DEF Sound, R, s

=============================================================================
