---------------------------- MODULE BrowseProofs ----------------------------
(***************************************************************************)
(* For every tree, every address and every path without a query: the       *)
(* working directory of an HTTP site is one the server has confirmed, and  *)
(* a call fails for a path that is served only after one that was not.     *)
(*                                                                         *)
(* Both rest on what an exchange may leave for the next one: nothing, or   *)
(* the text of one error.  The first also rests on the arithmetic of       *)
(* uri.c: what uriDetailsCreateString writes, uriDetailsNewFrom reads.     *)
(***************************************************************************)
EXTENDS Browse, SequenceTheorems, WellFoundedInduction, TLAPS

-----------------------------------------------------------------------------
(* Induction, for sets of numbers, and functions defined by it.            *)

LEMMA UpTo ==
    ASSUME NEW n \in Nat, NEW S, 0 \in S, \A i \in 0..(n - 1) : i \in S => i + 1 \in S
    PROVE  0..n \subseteq S
PROOF
  <1> DEFINE T == {i \in 0..n : i \notin S}
  <1> SUFFICES ASSUME T # {} PROVE FALSE
    OBVIOUS
  <1>1. T \subseteq Nat
    OBVIOUS
  <1>2. PICK m \in T : \A k \in T : ~(k < m)
    <2> HIDE DEF T
    <2>1. PICK m \in T : \A k \in T : <<k, m>> \notin OpToRel(<, Nat)
      BY <1>1, NatLessThanWellFounded, WFMin
    <2>2. \A k \in T : ~(k < m)
      BY <1>1, <2>1 DEF OpToRel
    <2> QED BY <2>2
  <1>3. m \in Nat /\ m # 0 /\ m <= n /\ m \notin S
    OBVIOUS
  <1>4. m - 1 \in 0..(n - 1) /\ m - 1 \in S
    BY <1>2, <1>3
  <1> QED BY <1>3, <1>4

(* g starts with a and goes on from each number to the next by F.          *)
Goes(g, n, T, a, F) ==
    g \in [0..n -> T] /\ g[0] = a /\ \A i \in 1..n : g[i] = F[i][g[i - 1]]

(* There is such a function.                                               *)
LEMMA Recursion ==
    ASSUME NEW n \in Nat, NEW T, NEW a \in T, NEW F \in [1..n -> [T -> T]]
    PROVE  \E g : Goes(g, n, T, a, F)
PROOF
  <1> DEFINE Good(m, g) == g[0] = a /\ \A i \in 1..m : g[i] = F[i][g[i - 1]]
             S == {m \in 0..n : \E g \in [0..m -> T] : Good(m, g)}
  <1>1. 0 \in S
    <2> DEFINE g == [i \in 0..0 |-> a]
    <2>1. g \in [0..0 -> T] /\ Good(0, g)
      OBVIOUS
    <2> HIDE DEF g, Good
    <2> QED BY <2>1
  <1>2. ASSUME NEW m \in 0..(n - 1), m \in S PROVE m + 1 \in S
    <2>1. PICK g \in [0..m -> T] : Good(m, g)
      BY <1>2
    <2> DEFINE h == [i \in 0..(m + 1) |-> IF i <= m THEN g[i] ELSE F[m + 1][g[m]]]
    <2>2. m \in Nat /\ m + 1 \in 1..n /\ g[m] \in T
      OBVIOUS
    <2>3. F[m + 1][g[m]] \in T
      BY <2>2
    <2>4. h \in [0..(m + 1) -> T]
      BY <2>2, <2>3
    <2>5. h[0] = a
      BY <2>1, <2>2
    <2>6. ASSUME NEW i \in 1..(m + 1) PROVE h[i] = F[i][h[i - 1]]
      <3>1. CASE i <= m
        <4>1. i \in 1..m /\ i - 1 \in 0..m /\ i \in 0..m
          BY <3>1, <2>2
        <4>2. h[i] = g[i] /\ h[i - 1] = g[i - 1]
          BY <4>1, <2>2
        <4> QED BY <4>1, <4>2, <2>1
      <3>2. CASE i = m + 1
        <4>1. h[i] = F[m + 1][g[m]] /\ h[i - 1] = g[m]
          BY <3>2, <2>2
        <4> QED BY <3>2, <4>1
      <3> QED BY <3>1, <3>2, <2>2
    <2>7. m + 1 \in 0..n
      BY <2>2
    <2> HIDE DEF h
    <2> QED BY <2>4, <2>5, <2>6, <2>7
  <1>3. n \in S
    <2> HIDE DEF S
    <2>1. 0..n \subseteq S
      BY <1>1, <1>2, UpTo
    <2> QED BY <2>1
  <1> QED BY <1>3 DEF Goes

(* A set of numbers has a least one, and below a bound a greatest one.     *)
LEMMA LeastExists ==
    ASSUME NEW K \in SUBSET Nat, K # {}
    PROVE  \E n \in K : \A m \in K : n <= m
PROOF
  <1>1. PICK n \in K : \A m \in K : <<m, n>> \notin OpToRel(<, Nat)
    BY NatLessThanWellFounded, WFMin
  <1>2. \A m \in K : n <= m
    <2> TAKE m \in K
    <2>1. m \in Nat /\ n \in Nat
      OBVIOUS
    <2>2. ~(m < n)
      BY <1>1, <2>1 DEF OpToRel
    <2> QED BY <2>1, <2>2
  <1> QED BY <1>2

(* The greatest one below a bound.                                         *)
LEMMA GreatestExists ==
    ASSUME NEW b \in Nat, NEW K \in SUBSET (0..b), K # {}
    PROVE  \E n \in K : \A m \in K : m <= n
PROOF
  <1> DEFINE B == {k \in 0..b : b - k \in K}
  <1>1. B \in SUBSET Nat /\ B # {}
    <2>1. PICK k \in K : TRUE
      OBVIOUS
    <2>2. b - k \in B
      OBVIOUS
    <2> QED BY <2>2
  <1>2. PICK n \in B : \A m \in B : n <= m
    <2> HIDE DEF B
    <2> QED BY <1>1, LeastExists
  <1>3. \A m \in K : m <= b - n
    <2> TAKE m \in K
    <2>1. b - m \in B /\ m \in Int /\ n \in Int
      OBVIOUS
    <2>2. n <= b - m
      <3> HIDE DEF B
      <3> QED BY <1>2, <2>1
    <2> QED BY <2>1, <2>2
  <1>4. b - n \in K
    OBVIOUS
  <1> QED BY <1>3, <1>4

-----------------------------------------------------------------------------
(* Cutting and searching strings.                                          *)

(* A part of a string is a string.                                         *)
LEMMA PartOf ==
    ASSUME NEW S, NEW s \in Seq(S), NEW m \in Nat \ {0}, NEW n \in 0..Len(s)
    PROVE  /\ SubSeq(s, m, n) \in Seq(S)
           /\ Len(SubSeq(s, m, n)) = IF m <= n THEN n - m + 1 ELSE 0
           /\ \A i \in 1..n - m + 1 : SubSeq(s, m, n)[i] = s[m + i - 1]
PROOF
  <1>1. Len(s) \in Nat
    BY LenProperties
  <1>2. \A i \in m..n : s[i] \in S
    BY <1>1, ElementOfSeq
  <1> QED BY <1>1, <1>2, SubSeqProperties

(* What From cuts off, and what Upto.                                      *)
LEMMA FromPart ==
    ASSUME NEW S, NEW s \in Seq(S), NEW i \in Nat \ {0}
    PROVE  /\ From(s, i) \in Seq(S)
           /\ i <= Len(s) + 1 => Len(From(s, i)) = Len(s) - i + 1
           /\ \A k \in 1..Len(s) - i + 1 : From(s, i)[k] = s[i + k - 1]
PROOF
  <1>1. Len(s) \in Nat
    BY LenProperties
  <1> QED BY <1>1, PartOf DEF From

LEMMA UptoPart ==
    ASSUME NEW S, NEW s \in Seq(S), NEW i \in Nat
    PROVE  /\ Upto(s, i) \in Seq(S)
           /\ i <= Len(s) => Upto(s, i) = SubSeq(s, 1, i) /\ Len(Upto(s, i)) = i
           /\ \A k \in 1..Len(s) : k <= i => Upto(s, i)[k] = s[k]
PROOF
  <1>1. Len(s) \in Nat
    BY LenProperties
  <1> DEFINE n == IF i < Len(s) THEN i ELSE Len(s)
  <1>2. n \in 0..Len(s) /\ Upto(s, i) = SubSeq(s, 1, n)
    BY <1>1 DEF Upto
  <1>3. i <= Len(s) => n = i
    BY <1>1
  <1>4. /\ SubSeq(s, 1, n) \in Seq(S) /\ Len(SubSeq(s, 1, n)) = IF 1 <= n THEN n - 1 + 1 ELSE 0
        /\ \A k \in 1..n - 1 + 1 : SubSeq(s, 1, n)[k] = s[1 + k - 1]
    <2> HIDE DEF n
    <2> QED BY <1>2, PartOf
  <1>5. \A k \in 1..Len(s) : k <= i => k \in 1..n - 1 + 1 /\ 1 + k - 1 = k
    BY <1>1
  <1> HIDE DEF n
  <1> QED BY <1>1, <1>2, <1>3, <1>4, <1>5

(* A part of one character.                                                *)
LEMMA OnePiece ==
    ASSUME NEW S, NEW s \in Seq(S), NEW m \in 1..Len(s)
    PROVE  SubSeq(s, m, m) = <<s[m]>>
PROOF
  <1>1. Len(s) \in Nat
    BY LenProperties
  <1>2. m \in Nat \ {0} /\ m \in 0..Len(s) /\ m <= m /\ m - m + 1 = 1 /\ m + 1 - 1 = m
    BY <1>1
  <1>3. PICK z : z = SubSeq(s, m, m)
    OBVIOUS
  <1>4. z \in Seq(S) /\ Len(z) = 1 /\ \A i \in 1..1 : z[i] = s[m + i - 1]
    BY <1>2, <1>3, PartOf
  <1>5. z[1] = s[m]
    BY <1>2, <1>4
  <1>6. s[m] \in S
    BY <1>1, ElementOfSeq
  <1>7. PICK y : y = <<s[m]>>
    OBVIOUS
  <1>8. y \in Seq(S) /\ Len(y) = 1 /\ y[1] = s[m]
    BY <1>6, <1>7
  <1>9. \A i \in 1..Len(z) : z[i] = y[i]
    BY <1>4, <1>5, <1>8
  <1>10. z = y
    BY <1>4, <1>8, <1>9, SeqEqual
  <1> QED BY <1>3, <1>7, <1>10

(* What strchr and strstr find is the first.                               *)
LEMMA FindFirst ==
    ASSUME NEW S, NEW s \in Seq(S), NEW from \in Nat \ {0}, NEW t \in Seq(S)
    PROVE  \/ Find(s, from, t) = 0 /\ Positions(s, from, t) = {}
           \/ /\ Find(s, from, t) \in Positions(s, from, t)
              /\ Find(s, from, t) \in from..(Len(s) - Len(t) + 1)
              /\ \A j \in Positions(s, from, t) : Find(s, from, t) <= j
PROOF
  <1>1. Len(s) \in Nat /\ Len(t) \in Nat
    BY LenProperties
  <1>2. Positions(s, from, t) \in SUBSET Nat /\ Positions(s, from, t) \subseteq from..(Len(s) - Len(t) + 1)
    BY <1>1 DEF Positions
  <1>3. CASE Positions(s, from, t) = {}
    BY <1>3 DEF Find
  <1>4. CASE Positions(s, from, t) # {}
    <2>1. \E n \in Positions(s, from, t) : \A m \in Positions(s, from, t) : n <= m
      BY <1>2, <1>4, LeastExists
    <2> QED BY <1>2, <1>4, <2>1 DEF Find
  <1> QED BY <1>3, <1>4

(* The characters the code itself puts in.                                 *)
LEMMA SomeChars == {"", "/", ":", "?"} \subseteq Char
  BY DEF Char

(* A character is found where it is first.                                 *)
LEMMA FindChar ==
    ASSUME NEW s \in Seq(Char), NEW from \in Nat \ {0}, NEW c \in Char
    PROVE  \/ /\ Find(s, from, <<c>>) = 0
              /\ \A i \in from..Len(s) : s[i] # c
           \/ /\ Find(s, from, <<c>>) \in from..Len(s) /\ s[Find(s, from, <<c>>)] = c
              /\ \A i \in from..Len(s) : i < Find(s, from, <<c>>) => s[i] # c
PROOF
  <1>1. Len(s) \in Nat /\ <<c>> \in Seq(Char) /\ Len(<<c>>) = 1
    BY LenProperties
  <1>2. Positions(s, from, <<c>>) = {i \in from..Len(s) : s[i] = c}
    <2>1. ASSUME NEW i \in from..Len(s) PROVE SubSeq(s, i, i) = <<s[i]>>
      <3>1. i \in 1..Len(s)
        BY <1>1
      <3> QED BY <3>1, OnePiece
    <2>2. \A i \in from..Len(s) : SubSeq(s, i, i + 1 - 1) = <<c>> <=> s[i] = c
      BY <1>1, <2>1
    <2>3. Len(s) - Len(<<c>>) + 1 = Len(s)
      BY <1>1
    <2> QED BY <1>1, <2>2, <2>3 DEF Positions
  <1>3. \A i \in from..Len(s) : i \in Int
    BY <1>1
  <1>4. \/ Find(s, from, <<c>>) = 0 /\ Positions(s, from, <<c>>) = {}
        \/ /\ Find(s, from, <<c>>) \in Positions(s, from, <<c>>)
           /\ \A j \in Positions(s, from, <<c>>) : Find(s, from, <<c>>) <= j
    BY <1>1, FindFirst
  <1>5. PICK f : f = Find(s, from, <<c>>)
    OBVIOUS
  <1> QED BY <1>1, <1>2, <1>3, <1>4, <1>5

(* The marker between a scheme and a host, and where one stands.           *)
Marker == <<":", "/", "/">>

Marked(s, i) == i \in 1..Len(s) - 2 /\ s[i] = ":" /\ s[i + 1] = "/" /\ s[i + 2] = "/"

(* What strstr finds of the marker is the first one.                       *)
LEMMA FindMarker ==
    ASSUME NEW s \in Seq(Char)
    PROVE  \/ Find(s, 1, Marker) = 0 /\ \A i \in Nat : ~Marked(s, i)
           \/ /\ Find(s, 1, Marker) \in 1..Len(s) - 2 /\ Marked(s, Find(s, 1, Marker))
              /\ \A i \in Nat : Marked(s, i) => Find(s, 1, Marker) <= i
PROOF
  <1>1. Len(s) \in Nat /\ Marker \in Seq(Char) /\ Len(Marker) = 3
    <2>1. ":" \in Char /\ "/" \in Char /\ Len(s) \in Nat
      BY LenProperties, SomeChars
    <2> QED BY <2>1 DEF Marker
  <1>2. ASSUME NEW i \in 1..Len(s) - 2 PROVE SubSeq(s, i, i + 2) = Marker <=> Marked(s, i)
    <2>1. i \in Nat \ {0} /\ i + 2 \in 0..Len(s)
      BY <1>1
    <2>2. /\ SubSeq(s, i, i + 2) \in Seq(Char) /\ Len(SubSeq(s, i, i + 2)) = 3
          /\ \A k \in 1..3 : SubSeq(s, i, i + 2)[k] = s[i + k - 1]
      <3>1. i <= i + 2 /\ (i + 2) - i + 1 = 3
        BY <2>1
      <3> QED BY <2>1, <3>1, PartOf
    <2>3. /\ SubSeq(s, i, i + 2)[1] = s[i] /\ SubSeq(s, i, i + 2)[2] = s[i + 1]
          /\ SubSeq(s, i, i + 2)[3] = s[i + 2]
      <3>1. i + 1 - 1 = i /\ i + 2 - 1 = i + 1 /\ i + 3 - 1 = i + 2
        BY <2>1
      <3> QED BY <2>2, <3>1
    <2>4. Marker[1] = ":" /\ Marker[2] = "/" /\ Marker[3] = "/"
      BY DEF Marker
    <2>5. Marked(s, i) => SubSeq(s, i, i + 2) = Marker
      <3> SUFFICES ASSUME Marked(s, i) PROVE SubSeq(s, i, i + 2) = Marker
        OBVIOUS
      <3>1. \A k \in 1..3 : k = 1 \/ k = 2 \/ k = 3
        OBVIOUS
      <3>2. \A k \in 1..3 : SubSeq(s, i, i + 2)[k] = Marker[k]
        BY <2>3, <2>4, <3>1 DEF Marked
      <3> HIDE DEF Marker
      <3> QED BY <1>1, <2>2, <3>2, SeqEqual
    <2> QED BY <2>3, <2>4, <2>5 DEF Marked
  <1>3. Positions(s, 1, Marker) = {i \in 1..Len(s) - 2 : Marked(s, i)}
    <2>1. \A i \in 1..Len(s) - 2 : i + 3 - 1 = i + 2
      BY <1>1
    <2>2. Len(s) - 3 + 1 = Len(s) - 2
      BY <1>1
    <2> QED BY <1>1, <1>2, <2>1, <2>2 DEF Positions
  <1>4. \A i : Marked(s, i) => i \in 1..Len(s) - 2
    BY DEF Marked
  <1> QED BY <1>1, <1>3, <1>4, FindFirst

-----------------------------------------------------------------------------
(* The parts of a URI.                                                     *)

Text == Seq(Char)
Part == Text \cup {NULL}

Without(s, chars) == \A i \in 1..Len(s) : s[i] \notin chars

(* Parts that cannot be mistaken for one another when they are joined.     *)
Separable(d) ==
    /\ d \in [scheme : Part, host : Part, port : Part, path : Part, query : Part]
    /\ d.scheme # NULL => \A i \in 1..Len(d.scheme) : ~Marked(d.scheme \o Marker, i)
    /\ d.host # NULL => Without(d.host, {"/", ":"})
    /\ d.port # NULL => Without(d.port, {"/"})
    /\ d.path # NULL => At(d.path, 1) = "/" /\ Without(d.path, {"?"})

(* uriDetailsNewFrom gives such parts, whatever it is given.               *)
LEMMA NewFromSeparable ==
    ASSUME NEW uri \in Text
    PROVE  Separable(uriDetailsNewFrom(uri))
PROOF
  <1> DEFINE s == Find(uri, 1, <<":", "/", "/">>)
             q == IF s = 0 THEN uri ELSE From(uri, s + 3)
             p == Find(q, 1, Slash)
             c == Find(q, 1, <<":">>)
             hasPort == c > 0 /\ (p = 0 \/ c < p)
             mark == IF p = 0 THEN 0 ELSE Find(q, p, <<"?">>)
             scheme == IF s = 0 THEN NULL ELSE Upto(uri, s - 1)
             host == IF hasPort THEN Upto(q, c - 1)
                     ELSE IF p > 0 THEN Upto(q, p - 1)
                     ELSE IF q = <<>> THEN NULL ELSE q
             port == IF ~hasPort THEN NULL
                     ELSE SubSeq(q, c + 1, IF p = 0 THEN Len(q) ELSE p - 1)
             path == IF p = 0 THEN NULL
                     ELSE SubSeq(q, p, IF mark = 0 THEN Len(q) ELSE mark - 1)
             query == IF mark = 0 THEN NULL ELSE From(q, mark + 1)
  <1>1. uriDetailsNewFrom(uri) = [scheme |-> scheme, host |-> host, port |-> port,
                                  path |-> path, query |-> query]
    <2>1. uri # NULL
      BY BrowseAssumption DEF Text
    <2> QED BY <2>1 DEF uriDetailsNewFrom
  <1>2. /\ Len(uri) \in Nat
        /\ \/ s = 0 /\ \A i \in Nat : ~Marked(uri, i)
           \/ /\ s \in 1..Len(uri) - 2 /\ Marked(uri, s)
              /\ \A i \in Nat : Marked(uri, i) => s <= i
    BY FindMarker, LenProperties DEF Text, Marker
  <1>3. q \in Text /\ Len(q) \in Nat
    <2>1. s = 0 \/ s + 3 \in Nat \ {0}
      BY <1>2
    <2>2. q \in Text
      <3> HIDE DEF s
      <3> QED BY <2>1, FromPart DEF Text
    <2> HIDE DEF q
    <2> QED BY <2>2, LenProperties DEF Text
  <1>4. scheme \in Part /\ (scheme # NULL => \A i \in 1..Len(scheme) : ~Marked(scheme \o Marker, i))
    <2>1. CASE s = 0
      BY <2>1 DEF Part
    <2>2. CASE s # 0
      <3> HIDE DEF s
      <3>1. s \in 1..Len(uri) - 2 /\ s - 1 \in Nat /\ s - 1 <= Len(uri) /\ Marked(uri, s)
        BY <1>2, <2>2
      <3>2. /\ scheme = Upto(uri, s - 1) /\ Upto(uri, s - 1) \in Text /\ Len(Upto(uri, s - 1)) = s - 1
            /\ \A k \in 1..Len(uri) : k <= s - 1 => Upto(uri, s - 1)[k] = uri[k]
        BY <2>2, <3>1, UptoPart DEF Text
      <3> DEFINE t == Upto(uri, s - 1) \o Marker
      <3>3. Marker \in Text /\ Len(Marker) = 3 /\ Marker[1] = ":" /\ Marker[2] = "/" /\ Marker[3] = "/"
        <4>1. ":" \in Char /\ "/" \in Char
          BY SomeChars
        <4> QED BY <4>1 DEF Marker, Text
      <3>4. /\ Len(t) = s + 2
            /\ \A k \in 1..s + 2 : t[k] = IF k <= s - 1 THEN uri[k] ELSE Marker[k - (s - 1)]
        <4>1. /\ Len(t) = (s - 1) + 3
              /\ \A k \in 1..(s - 1) + 3 :
                    t[k] = IF k <= s - 1 THEN Upto(uri, s - 1)[k] ELSE Marker[k - (s - 1)]
          <5>1. PICK u : u = Upto(uri, s - 1)
            OBVIOUS
          <5>2. u \in Seq(Char) /\ Marker \in Seq(Char) /\ Len(u) = s - 1
            BY <3>2, <3>3, <5>1 DEF Text
          <5>3. PICK v : v = u \o Marker
            OBVIOUS
          <5>4. /\ Len(v) = (s - 1) + 3
                /\ \A k \in 1..(s - 1) + 3 : v[k] = IF k <= s - 1 THEN u[k] ELSE Marker[k - (s - 1)]
            <6>1. /\ Len(u \o Marker) = Len(u) + Len(Marker)
                  /\ \A k \in 1..Len(u) + Len(Marker) :
                        (u \o Marker)[k] = IF k <= Len(u) THEN u[k] ELSE Marker[k - Len(u)]
              BY <5>2, ConcatProperties
            <6> HIDE DEF t, Marker
            <6> QED BY <3>3, <5>2, <5>3, <6>1
          <5>5. t = v
            BY <5>1, <5>3
          <5> HIDE DEF t
          <5> QED BY <5>1, <5>4, <5>5
        <4>2. (s - 1) + 3 = s + 2 /\ s + 2 <= Len(uri)
          BY <1>2, <3>1
        <4>3. \A k \in 1..s + 2 : k <= s - 1 => k \in 1..Len(uri)
          BY <1>2, <4>2
        <4> HIDE DEF t
        <4> QED BY <3>2, <4>1, <4>2, <4>3
      <3> HIDE DEF t
      <3>5. \A k \in 1..s + 2 : t[k] = uri[k]
        <4> TAKE k \in 1..s + 2
        <4>1. CASE k <= s - 1
          BY <3>4, <4>1
        <4>2. CASE k > s - 1
          <5>1. k = s \/ k = s + 1 \/ k = s + 2
            BY <3>1, <4>2
          <5>2. s - (s - 1) = 1 /\ (s + 1) - (s - 1) = 2 /\ (s + 2) - (s - 1) = 3
            BY <3>1
          <5>3. t[k] = Marker[k - (s - 1)]
            BY <3>1, <3>4, <4>2
          <5> QED BY <3>1, <3>3, <5>1, <5>2, <5>3 DEF Marked
        <4> QED BY <3>1, <4>1, <4>2
      <3>6. ASSUME NEW i \in 1..s - 1, Marked(t, i) PROVE FALSE
        <4>1. i \in Nat /\ i \in 1..s + 2 /\ i + 1 \in 1..s + 2 /\ i + 2 \in 1..s + 2
              /\ i \in 1..Len(uri) - 2 /\ i < s
          BY <1>2, <3>1
        <4>2. Marked(uri, i)
          BY <3>5, <3>6, <4>1 DEF Marked
        <4>3. s <= i
          BY <1>2, <2>2, <4>1, <4>2
        <4> QED BY <3>1, <4>1, <4>3
      <3>7. scheme # NULL => \A i \in 1..Len(scheme) : ~Marked(scheme \o Marker, i)
        BY <3>2, <3>6 DEF t
      <3> QED BY <3>2, <3>7 DEF Part
    <2> QED BY <2>1, <2>2
  <1> HIDE DEF s, q, scheme
  <1>5. /\ \/ p = 0 /\ \A i \in 1..Len(q) : q[i] # "/"
           \/ p \in 1..Len(q) /\ q[p] = "/" /\ \A i \in 1..Len(q) : i < p => q[i] # "/"
        /\ \/ c = 0 /\ \A i \in 1..Len(q) : q[i] # ":"
           \/ c \in 1..Len(q) /\ q[c] = ":" /\ \A i \in 1..Len(q) : i < c => q[i] # ":"
    <2>1. "/" \in Char /\ ":" \in Char /\ q \in Seq(Char) /\ 1 \in Nat \ {0}
      <3> HIDE DEF q
      <3>1. q \in Seq(Char)
        BY <1>3 DEF Text
      <3>2. "/" \in Char /\ ":" \in Char
        BY SomeChars
      <3>3. 1 \in Nat \ {0}
        OBVIOUS
      <3> QED BY <3>1, <3>2, <3>3
    <2>2. p = Find(q, 1, <<"/">>) /\ c = Find(q, 1, <<":">>)
      BY DEF Slash
    <2> HIDE DEF p, c
    <2>3. /\ \/ p = 0 /\ \A i \in 1..Len(q) : q[i] # "/"
             \/ p \in 1..Len(q) /\ q[p] = "/" /\ \A i \in 1..Len(q) : i < p => q[i] # "/"
      BY <2>1, <2>2, FindChar
    <2>4. /\ \/ c = 0 /\ \A i \in 1..Len(q) : q[i] # ":"
             \/ c \in 1..Len(q) /\ q[c] = ":" /\ \A i \in 1..Len(q) : i < c => q[i] # ":"
      BY <2>1, <2>2, FindChar
    <2> QED BY <2>3, <2>4
  <1> HIDE DEF p, c
  <1>6. p # 0 => \/ mark = 0 /\ \A i \in p..Len(q) : q[i] # "?"
                 \/ mark \in p..Len(q) /\ q[mark] = "?" /\ \A i \in p..Len(q) : i < mark => q[i] # "?"
    <2> SUFFICES ASSUME p # 0
                 PROVE  \/ mark = 0 /\ \A i \in p..Len(q) : q[i] # "?"
                        \/ /\ mark \in p..Len(q) /\ q[mark] = "?"
                           /\ \A i \in p..Len(q) : i < mark => q[i] # "?"
      OBVIOUS
    <2>1. p \in Nat \ {0}
      BY <1>3, <1>5
    <2>2. "?" \in Char /\ mark = Find(q, p, <<"?">>)
      BY SomeChars
    <2> HIDE DEF mark
    <2> QED BY <1>3, <2>1, <2>2, FindChar DEF Text
  <1>7. p = 0 => mark = 0
    OBVIOUS
  <1> HIDE DEF mark
  <1>8. host \in Part /\ (host # NULL => Without(host, {"/", ":"}))
    <2>1. CASE hasPort
      <3>1. /\ host = Upto(q, c - 1) /\ c \in 1..Len(q) /\ c - 1 \in Nat /\ c - 1 <= Len(q)
            /\ \A i \in 1..c - 1 : i \in 1..Len(q) /\ i < c /\ (p = 0 \/ i < p)
        BY <1>3, <1>5, <2>1
      <3>2. Upto(q, c - 1) \in Text /\ Len(Upto(q, c - 1)) = c - 1
            /\ \A k \in 1..Len(q) : k <= c - 1 => Upto(q, c - 1)[k] = q[k]
        BY <1>3, <3>1, UptoPart DEF Text
      <3>3. \A i \in 1..c - 1 : Upto(q, c - 1)[i] # "/" /\ Upto(q, c - 1)[i] # ":"
        BY <1>3, <1>5, <3>1, <3>2
      <3> QED BY <3>1, <3>2, <3>3 DEF Without, Part
    <2>2. CASE ~hasPort /\ p > 0
      <3>1. /\ host = Upto(q, p - 1) /\ p \in 1..Len(q) /\ p - 1 \in Nat /\ p - 1 <= Len(q)
            /\ \A i \in 1..p - 1 : i \in 1..Len(q) /\ i < p /\ (c = 0 \/ i < c)
        BY <1>3, <1>5, <2>2
      <3>2. Upto(q, p - 1) \in Text /\ Len(Upto(q, p - 1)) = p - 1
            /\ \A k \in 1..Len(q) : k <= p - 1 => Upto(q, p - 1)[k] = q[k]
        BY <1>3, <3>1, UptoPart DEF Text
      <3>3. \A i \in 1..p - 1 : Upto(q, p - 1)[i] # "/" /\ Upto(q, p - 1)[i] # ":"
        BY <1>3, <1>5, <3>1, <3>2
      <3> QED BY <3>1, <3>2, <3>3 DEF Without, Part
    <2>3. CASE ~hasPort /\ ~(p > 0)
      <3>1. p = 0 /\ c = 0
        BY <1>3, <1>5, <2>3
      <3> QED BY <1>3, <1>5, <2>3, <3>1 DEF Without, Part
    <2> QED BY <2>1, <2>2, <2>3
  <1>9. port \in Part /\ (port # NULL => Without(port, {"/"}))
    <2>1. CASE ~hasPort
      BY <2>1 DEF Part
    <2>2. CASE hasPort
      <3> DEFINE e == IF p = 0 THEN Len(q) ELSE p - 1
      <3>1. /\ port = SubSeq(q, c + 1, e) /\ c + 1 \in Nat \ {0} /\ e \in 0..Len(q)
            /\ \A i \in 1..e - (c + 1) + 1 : (c + 1) + i - 1 \in 1..Len(q)
                                            /\ (p = 0 \/ (c + 1) + i - 1 < p)
        BY <1>3, <1>5, <2>2
      <3> HIDE DEF e
      <3>2. /\ SubSeq(q, c + 1, e) \in Text
            /\ Len(SubSeq(q, c + 1, e)) = (IF c + 1 <= e THEN e - (c + 1) + 1 ELSE 0)
            /\ \A i \in 1..e - (c + 1) + 1 : SubSeq(q, c + 1, e)[i] = q[(c + 1) + i - 1]
        BY <1>3, <3>1, PartOf DEF Text
      <3>3. \A i \in 1..Len(SubSeq(q, c + 1, e)) : i \in 1..e - (c + 1) + 1
        BY <1>3, <3>1, <3>2
      <3>4. \A i \in 1..Len(SubSeq(q, c + 1, e)) : SubSeq(q, c + 1, e)[i] # "/"
        BY <1>5, <3>1, <3>2, <3>3
      <3> QED BY <3>1, <3>2, <3>4 DEF Without, Part
    <2> QED BY <2>1, <2>2
  <1>10. path \in Part /\ (path # NULL => At(path, 1) = "/" /\ Without(path, {"?"}))
    <2>1. CASE p = 0
      BY <2>1 DEF Part
    <2>2. CASE p # 0
      <3> DEFINE e == IF mark = 0 THEN Len(q) ELSE mark - 1
      <3>1. p \in 1..Len(q) /\ q[p] = "/" /\ "/" # "?"
        BY <1>5, <2>2
      <3>2. mark # p
        BY <1>6, <2>2, <3>1
      <3>3. /\ path = SubSeq(q, p, e) /\ p \in Nat \ {0} /\ e \in p..Len(q) /\ e \in 0..Len(q)
            /\ \A i \in 1..e - p + 1 : p + i - 1 \in p..Len(q) /\ (mark = 0 \/ p + i - 1 < mark)
        BY <1>3, <1>6, <2>2, <3>1, <3>2
      <3> HIDE DEF e
      <3>4. /\ SubSeq(q, p, e) \in Text /\ Len(SubSeq(q, p, e)) = e - p + 1
            /\ \A i \in 1..e - p + 1 : SubSeq(q, p, e)[i] = q[p + i - 1]
        <4>1. p <= e
          BY <3>3
        <4> QED BY <1>3, <3>3, <4>1, PartOf DEF Text
      <3>5. \A i \in 1..e - p + 1 : SubSeq(q, p, e)[i] # "?"
        BY <1>6, <2>2, <3>3, <3>4
      <3>6. 1 \in 1..e - p + 1 /\ p + 1 - 1 = p
        BY <3>3
      <3>7. At(SubSeq(q, p, e), 1) = "/"
        BY <3>1, <3>4, <3>6 DEF At
      <3> QED BY <3>3, <3>4, <3>5, <3>7 DEF Without, Part
    <2> QED BY <2>1, <2>2
  <1>11. query \in Part
    <2>1. mark = 0 \/ mark + 1 \in Nat \ {0}
      BY <1>3, <1>5, <1>6, <1>7
    <2> QED BY <1>3, <2>1, FromPart DEF Part, Text
  <1> HIDE DEF host, port, path, query, hasPort
  <1> QED BY <1>1, <1>4, <1>8, <1>9, <1>10, <1>11 DEF Separable

(* Two strings in a row, character by character.                           *)
LEMMA JoinedTwo ==
    ASSUME NEW x \in Text, NEW y \in Text
    PROVE  /\ x \o y \in Text /\ Len(x) \in Nat /\ Len(y) \in Nat /\ Len(x \o y) = Len(x) + Len(y)
           /\ \A i \in 1..Len(x) : (x \o y)[i] = x[i]
           /\ \A i \in 1..Len(y) : (x \o y)[Len(x) + i] = y[i]
PROOF
  <1>1. x \in Seq(Char) /\ y \in Seq(Char)
    BY DEF Text
  <1>2. Len(x) \in Nat /\ Len(y) \in Nat
    BY <1>1, LenProperties
  <1>3. /\ x \o y \in Seq(Char) /\ Len(x \o y) = Len(x) + Len(y)
        /\ \A i \in 1..Len(x) + Len(y) : (x \o y)[i] = IF i <= Len(x) THEN x[i] ELSE y[i - Len(x)]
    BY <1>1, ConcatProperties
  <1>4. PICK z : z = x \o y
    OBVIOUS
  <1>5. ASSUME NEW i \in 1..Len(x) PROVE z[i] = x[i]
    <2>1. i \in 1..Len(x) + Len(y) /\ i <= Len(x)
      BY <1>2
    <2> QED BY <1>3, <1>4, <2>1
  <1>6. ASSUME NEW i \in 1..Len(y) PROVE z[Len(x) + i] = y[i]
    <2>1. Len(x) + i \in 1..Len(x) + Len(y) /\ ~(Len(x) + i <= Len(x)) /\ (Len(x) + i) - Len(x) = i
      BY <1>2
    <2> QED BY <1>3, <1>4, <2>1
  <1>7. z \in Text /\ Len(z) = Len(x) + Len(y)
    BY <1>3, <1>4 DEF Text
  <1> QED BY <1>2, <1>4, <1>5, <1>6, <1>7

(* A piece of a string is known by its place.                              *)
LEMMA PieceIs ==
    ASSUME NEW t \in Text, NEW y \in Text, NEW k \in Nat, k + Len(y) <= Len(t),
           \A i \in 1..Len(y) : t[k + i] = y[i]
    PROVE  SubSeq(t, k + 1, k + Len(y)) = y
PROOF
  <1>1. Len(y) \in Nat /\ Len(t) \in Nat /\ t \in Seq(Char) /\ y \in Seq(Char)
    BY LenProperties DEF Text
  <1>2. k + 1 \in Nat \ {0} /\ k + Len(y) \in 0..Len(t) /\ (k + Len(y)) - (k + 1) + 1 = Len(y)
    BY <1>1
  <1>3. PICK z : z = SubSeq(t, k + 1, k + Len(y))
    OBVIOUS
  <1>4. /\ z \in Seq(Char)
        /\ Len(z) = (IF k + 1 <= k + Len(y) THEN (k + Len(y)) - (k + 1) + 1 ELSE 0)
        /\ \A i \in 1..(k + Len(y)) - (k + 1) + 1 : z[i] = t[(k + 1) + i - 1]
    BY <1>1, <1>2, <1>3, PartOf
  <1>5. Len(z) = Len(y)
    BY <1>1, <1>2, <1>4
  <1>6. \A i \in 1..Len(y) : z[i] = y[i]
    <2> TAKE i \in 1..Len(y)
    <2>1. (k + 1) + i - 1 = k + i
      BY <1>1
    <2> QED BY <1>2, <1>4, <2>1
  <1> QED BY <1>1, <1>3, <1>4, <1>5, <1>6, SeqEqual

(* A port and a query carry their mark along.                              *)
LEMMA OptionalText ==
    ASSUME NEW c \in Char, NEW part \in Part
    PROVE  /\ Optional(<<c>>, part) \in Text
           /\ part = NULL => Optional(<<c>>, part) = <<>> /\ Len(Optional(<<c>>, part)) = 0
           /\ part # NULL => /\ part \in Text /\ Len(Optional(<<c>>, part)) = Len(part) + 1
                             /\ Optional(<<c>>, part)[1] = c
                             /\ \A i \in 1..Len(part) : Optional(<<c>>, part)[1 + i] = part[i]
PROOF
  <1>1. PICK m : m = <<c>>
    OBVIOUS
  <1>2. m \in Text /\ Len(m) = 1 /\ m[1] = c
    BY <1>1 DEF Text
  <1>3. CASE part = NULL
    <2>1. PICK o : o = Optional(m, part)
      OBVIOUS
    <2>2. o = <<>>
      BY <1>3, <2>1 DEF Optional
    <2>3. o \in Text /\ Len(o) = 0
      BY <2>2 DEF Text
    <2> QED BY <1>1, <1>3, <2>1, <2>2, <2>3
  <1>4. CASE part # NULL
    <2>1. part \in Text /\ Optional(m, part) = m \o part
      BY <1>4 DEF Optional, Part
    <2>2. PICK o : o = m \o part
      OBVIOUS
    <2>3. /\ o \in Text /\ Len(part) \in Nat /\ Len(o) = Len(m) + Len(part)
          /\ \A i \in 1..Len(m) : o[i] = m[i]
          /\ \A i \in 1..Len(part) : o[Len(m) + i] = part[i]
      BY <1>2, <2>1, <2>2, JoinedTwo
    <2>4. Len(o) = Len(part) + 1 /\ o[1] = c
      BY <1>2, <2>3
    <2> QED BY <1>1, <1>2, <1>4, <2>1, <2>2, <2>3, <2>4
  <1> QED BY <1>3, <1>4

(* What uriDetailsNewFrom makes of a string, by where the marks are in it. *)
CutAt(uri, s, q, p, c, mark) ==
    [scheme |-> Upto(uri, s - 1),
     host |-> IF c > 0 /\ c < p THEN Upto(q, c - 1) ELSE Upto(q, p - 1),
     port |-> IF c > 0 /\ c < p THEN SubSeq(q, c + 1, p - 1) ELSE NULL,
     path |-> SubSeq(q, p, IF mark = 0 THEN Len(q) ELSE mark - 1),
     query |-> IF mark = 0 THEN NULL ELSE From(q, mark + 1)]

(* The parts, when a scheme and a path are there.                          *)
LEMMA NewFromMarks ==
    ASSUME NEW uri \in Text, NEW s \in Nat \ {0}, s = Find(uri, 1, Marker),
           NEW q, q = From(uri, s + 3), NEW p \in Nat \ {0}, p = Find(q, 1, <<"/">>),
           NEW c \in Nat, c = Find(q, 1, <<":">>), NEW mark \in Nat, mark = Find(q, p, <<"?">>)
    PROVE  uriDetailsNewFrom(uri) = CutAt(uri, s, q, p, c, mark)
PROOF
  <1>1. uri # NULL /\ s # 0 /\ p # 0 /\ p > 0
    BY BrowseAssumption DEF Text
  <1> QED BY <1>1, Zenon DEF uriDetailsNewFrom, Marker, Slash, CutAt

(* What uriDetailsCreateString writes, uriDetailsNewFrom reads.            *)
LEMMA ReadBack ==
    ASSUME NEW d, Separable(d), d.scheme # NULL, d.host # NULL, d.path # NULL
    PROVE  uriDetailsCreateString(d) \in Text /\ uriDetailsNewFrom(uriDetailsCreateString(d)) = d
PROOF
  <1> DEFINE sm == d.scheme \o Marker
             pp == Optional(<<":">>, d.port)
             qq == Optional(<<"?">>, d.query)
             hp == d.host \o pp
             hpp == hp \o d.path
             q == hpp \o qq
             a == Len(d.host)
             b == Len(pp)
             n == Len(d.path)
             m == Len(qq)
             L == Len(d.scheme)
  <1> HIDE DEF sm, pp, qq, hp, hpp, q, a, b, n, m, L
  <1>1. /\ d \in [scheme : Part, host : Part, port : Part, path : Part, query : Part]
        /\ d.scheme \in Text /\ d.host \in Text /\ d.path \in Text /\ Marker \in Text /\ Len(Marker) = 3
        /\ d.port \in Part /\ d.query \in Part
        /\ Marker[1] = ":" /\ Marker[2] = "/" /\ Marker[3] = "/"
    <2>1. ":" \in Char /\ "/" \in Char
      BY SomeChars
    <2>2. Marker \in Text /\ Len(Marker) = 3 /\ Marker[1] = ":" /\ Marker[2] = "/" /\ Marker[3] = "/"
      BY <2>1 DEF Marker, Text
    <2> QED BY <2>2 DEF Separable, Part
  <1>2. /\ pp \in Text /\ (d.port = NULL => pp = <<>> /\ b = 0)
        /\ d.port # NULL => /\ d.port \in Text /\ b = Len(d.port) + 1 /\ pp[1] = ":"
                            /\ \A i \in 1..Len(d.port) : pp[1 + i] = d.port[i]
    <2>1. ":" \in Char
      BY SomeChars
    <2>2. PICK port : port = d.port
      OBVIOUS
    <2>3. port \in Part
      BY <1>1, <2>2
    <2>4. /\ Optional(<<":">>, port) \in Text
          /\ port = NULL => Optional(<<":">>, port) = <<>> /\ Len(Optional(<<":">>, port)) = 0
          /\ port # NULL => /\ port \in Text /\ Len(Optional(<<":">>, port)) = Len(port) + 1
                            /\ Optional(<<":">>, port)[1] = ":"
                            /\ \A i \in 1..Len(port) : Optional(<<":">>, port)[1 + i] = port[i]
      BY <2>1, <2>3, OptionalText
    <2> QED BY <2>2, <2>4 DEF pp, b
  <1>3. /\ qq \in Text /\ (d.query = NULL => qq = <<>> /\ m = 0)
        /\ d.query # NULL => /\ d.query \in Text /\ m = Len(d.query) + 1 /\ qq[1] = "?"
                             /\ \A i \in 1..Len(d.query) : qq[1 + i] = d.query[i]
    <2>1. "?" \in Char
      BY SomeChars
    <2>2. PICK query : query = d.query
      OBVIOUS
    <2>3. query \in Part
      BY <1>1, <2>2
    <2>4. /\ Optional(<<"?">>, query) \in Text
          /\ query = NULL => Optional(<<"?">>, query) = <<>> /\ Len(Optional(<<"?">>, query)) = 0
          /\ query # NULL => /\ query \in Text /\ Len(Optional(<<"?">>, query)) = Len(query) + 1
                             /\ Optional(<<"?">>, query)[1] = "?"
                             /\ \A i \in 1..Len(query) : Optional(<<"?">>, query)[1 + i] = query[i]
      BY <2>1, <2>3, OptionalText
    <2> QED BY <2>2, <2>4 DEF qq, m
  <1>4. /\ a \in Nat /\ b \in Nat /\ hp \in Text /\ Len(hp) = a + b
        /\ \A i \in 1..a : hp[i] = d.host[i]
        /\ \A i \in 1..b : hp[a + i] = pp[i]
    BY <1>1, <1>2, JoinedTwo DEF hp, a, b
  <1>5. /\ n \in Nat /\ hpp \in Text /\ Len(hpp) = Len(hp) + n
        /\ \A i \in 1..Len(hp) : hpp[i] = hp[i]
        /\ \A i \in 1..n : hpp[Len(hp) + i] = d.path[i]
    BY <1>1, <1>4, JoinedTwo DEF hpp, n
  <1>6. /\ m \in Nat /\ q \in Text /\ Len(q) = Len(hpp) + m
        /\ \A i \in 1..Len(hpp) : q[i] = hpp[i]
        /\ \A i \in 1..m : q[Len(hpp) + i] = qq[i]
    BY <1>3, <1>5, JoinedTwo DEF q, m
  <1>7. /\ L \in Nat /\ sm \in Text /\ Len(sm) = L + 3
        /\ \A i \in 1..L : sm[i] = d.scheme[i]
        /\ \A i \in 1..3 : sm[L + i] = Marker[i]
    <2>1. PICK t : t = d.scheme
      OBVIOUS
    <2>2. t \in Text
      BY <1>1, <2>1
    <2>3. /\ t \o Marker \in Text /\ Len(t) \in Nat /\ Len(t \o Marker) = Len(t) + Len(Marker)
          /\ \A i \in 1..Len(t) : (t \o Marker)[i] = t[i]
          /\ \A i \in 1..Len(Marker) : (t \o Marker)[Len(t) + i] = Marker[i]
      BY <1>1, <2>2, JoinedTwo
    <2> QED BY <1>1, <2>1, <2>3 DEF sm, L
  <1>8. PICK u : u = sm \o q
    OBVIOUS
  <1>9. /\ u \in Text /\ Len(u) = (L + 3) + Len(q)
        /\ \A i \in 1..(L + 3) : u[i] = sm[i]
        /\ \A i \in 1..Len(q) : u[(L + 3) + i] = q[i]
    <2>1. /\ sm \o q \in Text /\ Len(sm) \in Nat /\ Len(q) \in Nat /\ Len(sm \o q) = Len(sm) + Len(q)
          /\ \A i \in 1..Len(sm) : (sm \o q)[i] = sm[i]
          /\ \A i \in 1..Len(q) : (sm \o q)[Len(sm) + i] = q[i]
      BY <1>6, <1>7, JoinedTwo
    <2> QED BY <1>7, <1>8, <2>1
  <1>10. uriDetailsCreateString(d) = u
    <2>1. NULL \notin {d.scheme, d.host, d.path}
      OBVIOUS
    <2>2. uriDetailsCreateString(d) = ((((d.scheme \o Marker) \o d.host) \o pp) \o d.path) \o qq
      BY <2>1 DEF uriDetailsCreateString, Marker, pp, qq
    <2>3. \A x, y, z \in Text : (x \o y) \o z = x \o (y \o z)
      BY ConcatAssociative DEF Text
    <2>4. (sm \o d.host) \o pp = sm \o hp
      BY <1>1, <1>2, <1>7, <2>3 DEF hp
    <2>5. (sm \o hp) \o d.path = sm \o hpp
      BY <1>1, <1>4, <1>7, <2>3 DEF hpp
    <2>6. (sm \o hpp) \o qq = sm \o q
      BY <1>3, <1>5, <1>7, <2>3 DEF q
    <2> QED BY <1>8, <2>2, <2>4, <2>5, <2>6 DEF sm
  <1>11. /\ Len(q) = a + b + n + m
         /\ \A i \in 1..a : q[i] = d.host[i]
         /\ \A i \in 1..b : q[a + i] = pp[i]
         /\ \A i \in 1..n : q[a + b + i] = d.path[i]
         /\ \A i \in 1..m : q[a + b + n + i] = qq[i]
    <2>1. Len(hp) = a + b /\ Len(hpp) = a + b + n /\ Len(q) = a + b + n + m
      BY <1>4, <1>5, <1>6
    <2>2. \A i \in 1..a : i \in 1..Len(hp) /\ i \in 1..Len(hpp)
      BY <1>4, <1>5, <2>1
    <2>3. \A i \in 1..b : a + i \in 1..Len(hp) /\ a + i \in 1..Len(hpp)
      BY <1>4, <1>5, <2>1
    <2>4. \A i \in 1..n : Len(hp) + i = a + b + i /\ a + b + i \in 1..Len(hpp)
      BY <1>4, <1>5, <2>1
    <2>5. \A i \in 1..m : Len(hpp) + i = a + b + n + i
      BY <1>4, <1>5, <2>1
    <2>6. \A i \in 1..a : q[i] = d.host[i]
      BY <1>4, <1>5, <1>6, <2>2
    <2>7. \A i \in 1..b : q[a + i] = pp[i]
      BY <1>4, <1>5, <1>6, <2>3
    <2>8. \A i \in 1..n : q[a + b + i] = d.path[i]
      BY <1>5, <1>6, <2>4
    <2>9. \A i \in 1..m : q[a + b + n + i] = qq[i]
      BY <1>6, <2>5
    <2> QED BY <2>1, <2>6, <2>7, <2>8, <2>9
  <1>12. n >= 1 /\ d.path[1] = "/" /\ Without(d.path, {"?"})
    <2>1. At(d.path, 1) = "/" /\ Without(d.path, {"?"})
      BY DEF Separable
    <2>2. 1 \in 1..Len(d.path) /\ d.path[1] = "/"
      BY <2>1 DEF At
    <2> QED BY <1>5, <2>1, <2>2 DEF n
  <1>13. \A i \in 1..a : q[i] # "/" /\ q[i] # ":"
    <2>1. Without(d.host, {"/", ":"})
      BY DEF Separable
    <2> QED BY <1>11, <2>1 DEF Without, a
  <1>14. \A i \in 1..b : q[a + i] # "/"
    <2>1. CASE d.port = NULL
      BY <1>2, <2>1
    <2>2. CASE d.port # NULL
      <3>1. Without(d.port, {"/"}) /\ b = Len(d.port) + 1 /\ pp[1] = ":" /\ Len(d.port) \in Nat
        BY <1>2, <2>2, LenProperties DEF Separable, Text
      <3>2. ASSUME NEW i \in 1..b PROVE q[a + i] # "/"
        <4>1. i = 1 \/ (i - 1 \in 1..Len(d.port) /\ 1 + (i - 1) = i)
          BY <3>1
        <4>2. i = 1 => pp[i] # "/"
          BY <3>1
        <4>3. i - 1 \in 1..Len(d.port) => d.port[i - 1] # "/" /\ pp[1 + (i - 1)] = d.port[i - 1]
          BY <1>2, <2>2, <3>1 DEF Without
        <4> QED BY <1>11, <4>1, <4>2, <4>3
      <3> QED BY <3>2
    <2> QED BY <2>1, <2>2
  <1>15. Find(u, 1, Marker) = L + 1
    <2>1. Len(q) \in Nat /\ Len(u) \in Nat
      BY <1>6, <1>9, LenProperties DEF Text
    <2>2. L + 1 \in 1..L + 3 /\ L + 2 \in 1..L + 3 /\ L + 3 \in 1..L + 3 /\ L + 1 \in 1..Len(u) - 2
          /\ (L + 1) + 1 = L + 2 /\ (L + 1) + 2 = L + 3
      BY <1>7, <1>9, <2>1
    <2>3. Marked(u, L + 1)
      BY <1>1, <1>7, <1>9, <2>2 DEF Marked
    <2>4. ASSUME NEW i \in 1..L PROVE ~Marked(u, i)
      <3>1. ~Marked(sm, i)
        BY DEF Separable, sm, L
      <3>2. i \in 1..Len(sm) - 2 /\ i \in 1..L + 3 /\ i + 1 \in 1..L + 3 /\ i + 2 \in 1..L + 3
        BY <1>7
      <3> QED BY <1>9, <3>1, <3>2 DEF Marked
    <2>5. PICK f : f = Find(u, 1, Marker)
      OBVIOUS
    <2>6. \/ f = 0 /\ \A i \in Nat : ~Marked(u, i)
          \/ /\ f \in 1..Len(u) - 2 /\ Marked(u, f)
             /\ \A i \in Nat : Marked(u, i) => f <= i
      BY <1>9, <2>5, FindMarker DEF Text
    <2>7. f \in Nat /\ f <= L + 1 /\ f # 0 /\ Marked(u, f)
      BY <1>7, <2>1, <2>3, <2>6
    <2>8. f \notin 1..L
      BY <2>4, <2>7
    <2> QED BY <1>7, <2>5, <2>7, <2>8
  <1>16. Upto(u, (L + 1) - 1) = d.scheme
    <2>1. Len(q) \in Nat /\ L <= Len(u) /\ 0 + L = L /\ 0 + 1 = 1 /\ (L + 1) - 1 = L
      BY <1>6, <1>7, <1>9, LenProperties DEF Text
    <2>2. Upto(u, L) = SubSeq(u, 1, L)
      BY <1>7, <1>9, <2>1, UptoPart DEF Text
    <2>3. PICK t : t = d.scheme
      OBVIOUS
    <2>4. t \in Text /\ Len(t) = L
      BY <1>1, <2>3 DEF L
    <2>5. \A i \in 1..Len(t) : u[0 + i] = t[i]
      <3> TAKE i \in 1..Len(t)
      <3>1. i \in 1..L /\ i \in 1..L + 3 /\ 0 + i = i
        BY <1>7, <2>4
      <3> QED BY <1>7, <1>9, <2>3, <3>1
    <2>6. 0 \in Nat /\ 0 + Len(t) <= Len(u)
      BY <1>7, <2>1, <2>4
    <2>7. SubSeq(u, 0 + 1, 0 + Len(t)) = t
      BY <1>9, <2>4, <2>5, <2>6, PieceIs
    <2> QED BY <2>1, <2>2, <2>3, <2>4, <2>7
  <1>17. From(u, (L + 1) + 3) = q
    <2>1. Len(q) \in Nat /\ L + 3 \in Nat /\ (L + 3) + Len(q) <= Len(u) /\ (L + 1) + 3 = (L + 3) + 1
      BY <1>6, <1>7, <1>9, LenProperties DEF Text
    <2>2. SubSeq(u, (L + 3) + 1, (L + 3) + Len(q)) = q
      BY <1>6, <1>9, <2>1, PieceIs
    <2> QED BY <1>9, <2>1, <2>2 DEF From
  <1>18. Find(q, 1, <<"/">>) = a + b + 1
    <2>1. /\ a + b + 1 \in 1..Len(q) /\ q[a + b + 1] = "/"
      BY <1>4, <1>5, <1>6, <1>11, <1>12
    <2>2. \A i \in 1..a + b : q[i] # "/"
      <3> TAKE i \in 1..a + b
      <3>1. i \in 1..a \/ (i - a \in 1..b /\ a + (i - a) = i)
        BY <1>4
      <3> QED BY <1>13, <1>14, <3>1
    <2>3. PICK f : f = Find(q, 1, <<"/">>)
      OBVIOUS
    <2>4. "/" \in Char
      BY SomeChars
    <2>9. 1 \in Nat \ {0} /\ q \in Seq(Char)
      BY <1>6 DEF Text
    <2>10. \/ /\ Find(q, 1, <<"/">>) = 0 /\ \A i \in 1..Len(q) : q[i] # "/"
           \/ /\ Find(q, 1, <<"/">>) \in 1..Len(q) /\ q[Find(q, 1, <<"/">>)] = "/"
              /\ \A i \in 1..Len(q) : i < Find(q, 1, <<"/">>) => q[i] # "/"
      BY <2>4, <2>9, FindChar
    <2>5. \/ /\ f = 0 /\ \A i \in 1..Len(q) : q[i] # "/"
          \/ /\ f \in 1..Len(q) /\ q[f] = "/"
             /\ \A i \in 1..Len(q) : i < f => q[i] # "/"
      BY <2>3, <2>10
    <2>6. f # 0 /\ f \in 1..Len(q) /\ q[f] = "/" /\ ~(a + b + 1 < f)
      BY <2>1, <2>5
    <2>7. f \notin 1..a + b
      BY <2>2, <2>6
    <2>8. Len(q) \in Nat
      BY <1>6, LenProperties DEF Text
    <2> QED BY <1>4, <2>3, <2>6, <2>7, <2>8
  <1>19. PICK c \in Nat : /\ c = Find(q, 1, <<":">>)
                          /\ d.port # NULL => c = a + 1
                          /\ d.port = NULL => ~(c > 0 /\ c < a + b + 1)
    <2>1. 1 \in Nat \ {0} /\ q \in Seq(Char) /\ Len(q) \in Nat
      BY <1>6, LenProperties DEF Text
    <2>7. ":" \in Char
      BY SomeChars
    <2>8. \/ /\ Find(q, 1, <<":">>) = 0 /\ \A i \in 1..Len(q) : q[i] # ":"
          \/ /\ Find(q, 1, <<":">>) \in 1..Len(q) /\ q[Find(q, 1, <<":">>)] = ":"
             /\ \A i \in 1..Len(q) : i < Find(q, 1, <<":">>) => q[i] # ":"
      BY <2>1, <2>7, FindChar
    <2>2. PICK f : f = Find(q, 1, <<":">>)
      OBVIOUS
    <2>3. \/ /\ f = 0 /\ \A i \in 1..Len(q) : q[i] # ":"
          \/ /\ f \in 1..Len(q) /\ q[f] = ":"
             /\ \A i \in 1..Len(q) : i < f => q[i] # ":"
      BY <2>2, <2>8
    <2>4. f \in Nat /\ f \notin 1..a
      BY <1>13, <2>1, <2>3
    <2>5. CASE d.port = NULL
      <3>1. b = 0
        BY <1>2, <2>5
      <3> QED BY <1>4, <2>2, <2>4, <2>5, <3>1
    <2>6. CASE d.port # NULL
      <3>1. b = Len(d.port) + 1 /\ pp[1] = ":" /\ Len(d.port) \in Nat
        BY <1>2, <2>6, LenProperties DEF Text
      <3>2. 1 \in 1..b /\ a + 1 \in 1..Len(q)
        BY <1>4, <1>5, <1>6, <1>11, <3>1
      <3>3. q[a + 1] = ":"
        BY <1>11, <3>1, <3>2
      <3>4. f # 0 /\ f \in 1..Len(q) /\ ~(a + 1 < f)
        BY <2>3, <3>2, <3>3
      <3>5. f = a + 1
        BY <1>4, <2>1, <2>4, <3>4
      <3> QED BY <2>2, <2>4, <2>6, <3>5
    <2> QED BY <2>5, <2>6
  <1>20. PICK mark \in Nat : /\ mark = Find(q, a + b + 1, <<"?">>)
                             /\ d.query # NULL => mark = a + b + n + 1
                             /\ d.query = NULL => mark = 0
    <2>1. a + b + 1 \in Nat \ {0} /\ q \in Seq(Char) /\ Len(q) \in Nat
      BY <1>4, <1>6, LenProperties DEF Text
    <2>8. "?" \in Char
      BY SomeChars
    <2>9. PICK from : from = a + b + 1
      OBVIOUS
    <2>10. \/ /\ Find(q, from, <<"?">>) = 0 /\ \A i \in from..Len(q) : q[i] # "?"
           \/ /\ Find(q, from, <<"?">>) \in from..Len(q) /\ q[Find(q, from, <<"?">>)] = "?"
              /\ \A i \in from..Len(q) : i < Find(q, from, <<"?">>) => q[i] # "?"
      BY <2>1, <2>8, <2>9, FindChar
    <2>2. PICK f : f = Find(q, a + b + 1, <<"?">>)
      OBVIOUS
    <2>3. \/ /\ f = 0 /\ \A i \in a + b + 1..Len(q) : q[i] # "?"
          \/ /\ f \in a + b + 1..Len(q) /\ q[f] = "?"
             /\ \A i \in a + b + 1..Len(q) : i < f => q[i] # "?"
      BY <2>2, <2>9, <2>10
    <2>4. \A i \in a + b + 1..a + b + n : q[i] # "?"
      <3> TAKE i \in a + b + 1..a + b + n
      <3>1. i - (a + b) \in 1..n /\ a + b + (i - (a + b)) = i
        BY <1>4, <1>5
      <3> QED BY <1>11, <1>12, <3>1 DEF Without, n
    <2>5. f \in Nat /\ f \notin a + b + 1..a + b + n
      BY <2>1, <2>3, <2>4
    <2>6. CASE d.query = NULL
      <3>1. Len(q) = a + b + n
        BY <1>3, <1>4, <1>5, <1>11, <2>6
      <3>2. f = 0
        BY <2>3, <2>5, <3>1
      <3> QED BY <2>2, <2>6, <3>2
    <2>7. CASE d.query # NULL
      <3>1. m = Len(d.query) + 1 /\ qq[1] = "?" /\ Len(d.query) \in Nat
        BY <1>3, <2>7, LenProperties DEF Text
      <3>2. 1 \in 1..m /\ a + b + n + 1 \in a + b + 1..Len(q)
        BY <1>4, <1>5, <1>6, <1>11, <3>1
      <3>3. q[a + b + n + 1] = "?"
        BY <1>11, <3>1, <3>2
      <3>6. PICK k : k = a + b + n + 1
        OBVIOUS
      <3>7. k \in a + b + 1..Len(q) /\ q[k] = "?"
        BY <3>2, <3>3, <3>6
      <3>4. f \in a + b + 1..Len(q) /\ ~(k < f)
        BY <2>3, <3>7
      <3>5. f = a + b + n + 1
        BY <1>4, <1>5, <2>1, <2>5, <3>4, <3>6
      <3> QED BY <2>2, <2>5, <2>7, <3>5
    <2> QED BY <2>6, <2>7
  <1>21. q \in Text /\ Len(q) \in Nat /\ a + b + n <= Len(q)
    BY <1>3, <1>4, <1>5, <1>6, <1>11
  <1>22. Upto(q, a) = d.host
    <2>1. PICK t : t = d.host
      OBVIOUS
    <2>2. t \in Text /\ Len(t) = a /\ a <= Len(q)
      BY <1>1, <1>4, <1>5, <1>21, <2>1 DEF a
    <2>3. 0 \in Nat /\ 0 + Len(t) <= Len(q)
      BY <1>4, <2>2
    <2>4. \A i \in 1..Len(t) : q[0 + i] = t[i]
      <3> TAKE i \in 1..Len(t)
      <3>1. i \in 1..a /\ 0 + i = i
        BY <1>4, <2>2
      <3> QED BY <1>11, <2>1, <3>1
    <2>5. SubSeq(q, 0 + 1, 0 + Len(t)) = t
      BY <1>21, <2>2, <2>3, <2>4, PieceIs
    <2>6. Upto(q, a) = SubSeq(q, 1, a)
      BY <1>4, <1>21, <2>2, UptoPart DEF Text
    <2>7. 0 + 1 = 1 /\ 0 + a = a
      BY <1>4
    <2> QED BY <2>1, <2>2, <2>5, <2>6, <2>7
  <1>23. d.port # NULL => SubSeq(q, (a + 1) + 1, a + b) = d.port
    <2> SUFFICES ASSUME d.port # NULL PROVE SubSeq(q, (a + 1) + 1, a + b) = d.port
      OBVIOUS
    <2>1. PICK t : t = d.port
      OBVIOUS
    <2>2. t \in Text /\ Len(t) \in Nat /\ b = Len(t) + 1
      BY <1>2, <2>1, LenProperties DEF Text
    <2>3. a + 1 \in Nat /\ (a + 1) + Len(t) <= Len(q) /\ (a + 1) + Len(t) = a + b
      BY <1>4, <1>5, <1>21, <2>2
    <2>4. \A i \in 1..Len(t) : q[(a + 1) + i] = t[i]
      <3> TAKE i \in 1..Len(t)
      <3>1. 1 + i \in 1..b /\ a + (1 + i) = (a + 1) + i
        BY <1>4, <2>2
      <3>2. q[a + (1 + i)] = pp[1 + i] /\ pp[1 + i] = t[i]
        BY <1>2, <1>11, <2>1, <3>1
      <3> QED BY <3>1, <3>2
    <2>5. SubSeq(q, (a + 1) + 1, (a + 1) + Len(t)) = t
      BY <1>21, <2>2, <2>3, <2>4, PieceIs
    <2> QED BY <2>1, <2>3, <2>5
  <1>24. SubSeq(q, (a + b) + 1, (a + b) + n) = d.path
    <2>1. PICK t : t = d.path
      OBVIOUS
    <2>2. t \in Text /\ Len(t) = n
      BY <1>1, <2>1 DEF n
    <2>3. a + b \in Nat /\ (a + b) + Len(t) <= Len(q)
      BY <1>4, <1>5, <1>21, <2>2
    <2>4. \A i \in 1..Len(t) : q[(a + b) + i] = t[i]
      BY <1>11, <2>1, <2>2
    <2>5. SubSeq(q, (a + b) + 1, (a + b) + Len(t)) = t
      BY <1>21, <2>2, <2>3, <2>4, PieceIs
    <2> QED BY <2>1, <2>2, <2>5
  <1>25. d.query # NULL => From(q, (a + b + n + 1) + 1) = d.query
    <2> SUFFICES ASSUME d.query # NULL PROVE From(q, (a + b + n + 1) + 1) = d.query
      OBVIOUS
    <2>1. PICK t : t = d.query
      OBVIOUS
    <2>2. t \in Text /\ Len(t) \in Nat /\ m = Len(t) + 1
      BY <1>3, <2>1, LenProperties DEF Text
    <2>3. a + b + n + 1 \in Nat /\ (a + b + n + 1) + Len(t) <= Len(q) /\ (a + b + n + 1) + Len(t) = Len(q)
      BY <1>4, <1>5, <1>11, <1>21, <2>2
    <2>4. \A i \in 1..Len(t) : q[(a + b + n + 1) + i] = t[i]
      <3> TAKE i \in 1..Len(t)
      <3>1. 1 + i \in 1..m /\ a + b + n + (1 + i) = (a + b + n + 1) + i
        BY <1>4, <1>5, <2>2
      <3>2. q[a + b + n + (1 + i)] = qq[1 + i] /\ qq[1 + i] = t[i]
        BY <1>3, <1>11, <2>1, <3>1
      <3> QED BY <3>1, <3>2
    <2>5. SubSeq(q, (a + b + n + 1) + 1, (a + b + n + 1) + Len(t)) = t
      BY <1>21, <2>2, <2>3, <2>4, PieceIs
    <2> QED BY <2>1, <2>3, <2>5 DEF From
  <1>26. PICK p \in Nat \ {0} : p = a + b + 1 /\ p - 1 = a + b /\ (c > 0 /\ c < p <=> d.port # NULL)
    <2>1. d.port # NULL => b >= 1
      BY <1>2, LenProperties DEF Text
    <2>2. a + b + 1 \in Nat \ {0} /\ (a + b + 1) - 1 = a + b
      BY <1>4
    <2>3. d.port # NULL => c > 0 /\ c < a + b + 1
      <3> SUFFICES ASSUME d.port # NULL PROVE c > 0 /\ c < a + b + 1
        OBVIOUS
      <3>1. c = a + 1 /\ b >= 1
        BY <1>19, <2>1
      <3> QED BY <1>4, <3>1
    <2>4. d.port = NULL => ~(c > 0 /\ c < a + b + 1)
      BY <1>19
    <2>5. PICK p : p = a + b + 1
      OBVIOUS
    <2> QED BY <2>2, <2>3, <2>4, <2>5
  <1>27. uriDetailsNewFrom(u) = CutAt(u, L + 1, q, p, c, mark)
    <2>1. PICK s \in Nat \ {0} : s = L + 1
      BY <1>7
    <2>2. /\ s = Find(u, 1, Marker) /\ q = From(u, s + 3) /\ p = Find(q, 1, <<"/">>)
          /\ c = Find(q, 1, <<":">>) /\ mark = Find(q, p, <<"?">>)
      BY <1>15, <1>17, <1>18, <1>19, <1>20, <1>26, <2>1
    <2>4. u \in Text
      BY <1>9
    <2>3. uriDetailsNewFrom(u) = CutAt(u, s, q, p, c, mark)
      BY <2>2, <2>4, NewFromMarks
    <2> QED BY <2>1, <2>3
  <1>28. (IF c > 0 /\ c < p THEN Upto(q, c - 1) ELSE Upto(q, p - 1)) = d.host
    <2>1. d.port # NULL => c - 1 = a
      BY <1>4, <1>19
    <2>2. d.port = NULL => p - 1 = a
      BY <1>2, <1>4, <1>26
    <2> QED BY <1>22, <1>26, <2>1, <2>2
  <1>29. (IF c > 0 /\ c < p THEN SubSeq(q, c + 1, p - 1) ELSE NULL) = d.port
    BY <1>19, <1>23, <1>26
  <1>30. SubSeq(q, p, IF mark = 0 THEN Len(q) ELSE mark - 1) = d.path
    <2>1. (IF mark = 0 THEN Len(q) ELSE mark - 1) = (a + b) + n
      BY <1>3, <1>4, <1>5, <1>11, <1>20
    <2> QED BY <1>24, <1>26, <2>1
  <1>31. (IF mark = 0 THEN NULL ELSE From(q, mark + 1)) = d.query
    <2>1. d.query # NULL => mark # 0
      BY <1>4, <1>5, <1>20
    <2> QED BY <1>20, <1>25, <2>1
  <1>32. d = [scheme |-> d.scheme, host |-> d.host, port |-> d.port, path |-> d.path, query |-> d.query]
    BY <1>1
  <1>33. uriDetailsNewFrom(u) = d
    BY <1>16, <1>27, <1>28, <1>29, <1>30, <1>31, <1>32 DEF CutAt
  <1> QED BY <1>9, <1>10, <1>33

-----------------------------------------------------------------------------
(* What CD makes of a path: characters of the two paths, or one that was   *)
(* never written.                                                          *)

LEMMA JumpNat ==
    ASSUME NEW S, NEW c \in Seq(S), NEW i \in 1..Len(c)
    PROVE  JumpOverDotPaths(c, i) \in Nat
PROOF
  <1> DEFINE runs == {n \in 0..Len(c) - i + 1 :
                        \A k \in 0..n - 1 : c[i + k] = IF k % 2 = 0 THEN "/" ELSE "."}
  <1>1. Len(c) \in Nat
    BY LenProperties
  <1>2. PICK b \in Nat : b = Len(c) - i + 1
    BY <1>1
  <1>3. 0 \in runs
    <2>1. 0 \in 0..Len(c) - i + 1 /\ 0..0 - 1 = {}
      BY <1>1
    <2> QED BY <2>1
  <1>4. runs \in SUBSET (0..b)
    BY <1>2
  <1>5. JumpOverDotPaths(c, i) = CHOOSE n \in runs : \A m \in runs : m <= n
    BY DEF JumpOverDotPaths
  <1> HIDE DEF runs
  <1>6. \E n \in runs : \A m \in runs : m <= n
    BY <1>3, <1>4, GreatestExists
  <1>7. JumpOverDotPaths(c, i) \in runs
    BY <1>5, <1>6
  <1>8. JumpOverDotPaths(c, i) \in 0..b
    BY <1>4, <1>7
  <1> QED BY <1>8

(* Going up leaves a part of what was written (DropLast).                  *)
LEMMA DropLastPart ==
    ASSUME NEW S, NEW r \in Seq(S)
    PROVE  DropLast(r) \in Seq(S)
PROOF
  <1> DEFINE K == {i \in 1..Len(r) : r[i] = "/"}
             k == CHOOSE i \in K : \A j \in K : j <= i
  <1>1. Len(r) \in Nat /\ K \in SUBSET (0..Len(r)) /\ K \subseteq 1..Len(r)
    <2>1. Len(r) \in Nat
      BY LenProperties
    <2> QED BY <2>1
  <1>2. DropLast(r) = IF K = {} THEN <<>> ELSE Upto(r, k - 1)
    BY DEF DropLast
  <1> HIDE DEF K
  <1>3. K # {} => k \in K
    <2> SUFFICES ASSUME K # {} PROVE k \in K
      OBVIOUS
    <2>1. \E n \in K : \A m \in K : m <= n
      BY <1>1, GreatestExists
    <2> QED BY <2>1
  <1> HIDE DEF k
  <1>4. K # {} => k \in 1..Len(r)
    BY <1>1, <1>3
  <1>5. CASE K = {}
    BY <1>2, <1>5
  <1>6. CASE K # {}
    <2>1. PICK m \in Nat : m = k - 1
      BY <1>1, <1>4, <1>6
    <2>2. Upto(r, m) \in Seq(S)
      BY UptoPart
    <2> QED BY <1>2, <1>6, <2>1, <2>2
  <1> QED BY <1>5, <1>6

(* What the loop may have reached.                                         *)
Turns(S, c) ==
    [at : Nat \ {0}, out : Seq(S)] \cup {[at |-> Len(c) + 1, out |-> <<Garbage>>]}

HasEnd(S) == "" \in S /\ "/" \in S

(* One turn writes characters of the path it reads, a terminator, or what  *)
(* nobody wrote (uriPathAbsoluteAppend).                                   *)
LEMMA TurnStays ==
    ASSUME NEW S, HasEnd(S), NEW c \in Seq(S), NEW t \in Turns(S, c)
    PROVE  AppendTurn(c, t.at, t.out) \in Turns(S, c)
PROOF
  <1>1. Len(c) \in Nat
    BY LenProperties
  <1> DEFINE CopyTo(s, k) == [at |-> k + 1, out |-> Append(s, At(c, k))]
             Finish(s) == [at |-> Len(c) + 1, out |-> s]
  <1>2. ASSUME NEW s \in Seq(S), NEW k \in Nat PROVE CopyTo(s, k) \in Turns(S, c)
    <2>1. At(c, k) \in S
      BY <1>1, ElementOfSeq DEF At, HasEnd
    <2>2. Append(s, At(c, k)) \in Seq(S)
      BY <2>1, AppendProperties
    <2>3. k + 1 \in Nat \ {0}
      OBVIOUS
    <2> QED BY <2>2, <2>3 DEF Turns
  <1>3. ASSUME NEW s, s \in Seq(S) \/ s = <<Garbage>> PROVE Finish(s) \in Turns(S, c)
    <2>1. Len(c) + 1 \in Nat \ {0}
      BY <1>1
    <2> QED BY <1>3, <2>1 DEF Turns
  <1>4. CASE t.at > Len(c)
    <2>1. AppendTurn(c, t.at, t.out) = Finish(t.out)
      BY <1>4 DEF AppendTurn
    <2>2. t.out \in Seq(S) \/ t.out = <<Garbage>>
      BY DEF Turns
    <2> HIDE DEF Finish
    <2> QED BY <1>3, <2>1, <2>2
  <1>5. CASE ~(t.at > Len(c))
    <2>1. t.at \in 1..Len(c) /\ t.out \in Seq(S)
      BY <1>1, <1>5 DEF Turns
    <2> DEFINE i == t.at
               r == t.out
               jump == i + JumpOverDotPaths(c, i)
               up == DropLast(r)
               after == i + 3
               first == IF r = <<>> THEN <<Garbage>> ELSE <<r[1]>>
    <2>2. jump \in Nat /\ jump >= 1 /\ i \in Nat
      <3>1. JumpOverDotPaths(c, i) \in Nat
        BY <2>1, JumpNat
      <3> QED BY <1>1, <2>1, <3>1
    <2>3. up \in Seq(S)
      BY <2>1, DropLastPart
    <2>4. first \in Seq(S) \/ first = <<Garbage>>
      <3>1. CASE r = <<>>
        BY <3>1
      <3>2. CASE r # <<>>
        <4>1. r[1] \in S
          BY <2>1, <3>2, EmptySeq, ElementOfSeq, LenProperties
        <4> QED BY <3>2, <4>1
      <3> QED BY <3>1, <3>2
    <2>5. after \in Nat /\ (after <= Len(c) => after + JumpOverDotPaths(c, after) - 1 \in Nat)
      <3>1. after \in Nat /\ (after <= Len(c) => after \in 1..Len(c))
        BY <1>1, <2>2
      <3>2. after <= Len(c) => JumpOverDotPaths(c, after) \in Nat
        BY <3>1, JumpNat
      <3>3. after >= 1
        BY <2>2
      <3> QED BY <3>1, <3>2, <3>3
    <2>6. AppendTurn(c, i, r) =
            IF ~(At(c, i) = "/" /\ At(c, i + 1) = ".") THEN CopyTo(r, i)
            ELSE CASE At(c, i + 2) = "/" ->
                        IF jump > Len(c) THEN Finish(r)
                        ELSE IF At(c, jump) = "." /\ jump > 4 /\ c[jump - 1] = "." /\ c[jump - 2] = "/"
                        THEN CopyTo(r, jump - 3) ELSE CopyTo(r, jump - 1)
                   [] At(c, i + 2) = "" -> Finish(r)
                   [] At(c, i + 2) = "." /\ At(c, after) \in {"/", ""} ->
                        IF up = <<>> THEN Finish(first)
                        ELSE IF after > Len(c) THEN Finish(up)
                        ELSE IF At(c, after + 1) # "." THEN CopyTo(up, after)
                        ELSE IF At(c, after + 2) # "/" THEN CopyTo(up, after - 1)
                        ELSE CopyTo(up, after + JumpOverDotPaths(c, after) - 1)
                   [] OTHER -> CopyTo(r, i)
      BY <1>5, Zenon DEF AppendTurn
    <2>7. Finish(r) \in Turns(S, c) /\ Finish(up) \in Turns(S, c) /\ Finish(first) \in Turns(S, c)
      <3> HIDE DEF Finish, up, first
      <3> QED BY <1>3, <2>1, <2>3, <2>4
    <2>8. CopyTo(r, i) \in Turns(S, c)
      BY <1>2, <2>1, <2>2
    <2>9. CopyTo(r, jump - 1) \in Turns(S, c) /\ (jump > 4 => CopyTo(r, jump - 3) \in Turns(S, c))
      <3>1. jump - 1 \in Nat /\ (jump > 4 => jump - 3 \in Nat)
        BY <2>2
      <3> HIDE DEF CopyTo, jump
      <3> QED BY <1>2, <2>1, <3>1
    <2>10. /\ CopyTo(up, after) \in Turns(S, c) /\ CopyTo(up, after - 1) \in Turns(S, c)
           /\ after <= Len(c) => CopyTo(up, after + JumpOverDotPaths(c, after) - 1) \in Turns(S, c)
      <3>1. after - 1 \in Nat
        BY <2>2
      <3> HIDE DEF CopyTo, up, after
      <3> QED BY <1>2, <2>3, <2>5, <3>1
    <2>11. after > Len(c) \/ after <= Len(c)
      BY <1>1, <2>5
    <2> HIDE DEF CopyTo, Finish, jump, up, after, first
    <2>12. AppendTurn(c, i, r) \in Turns(S, c)
      BY <2>6, <2>7, <2>8, <2>9, <2>10, <2>11, Zenon
    <2> QED BY <2>12
  <1> QED BY <1>4, <1>5

(* So does the loop.                                                       *)
LEMMA LoopChars ==
    ASSUME NEW S, HasEnd(S), NEW c \in Seq(S)
    PROVE  AppendLoop(c) \in Seq(S) \cup {<<Garbage>>}
PROOF
  <1> DEFINE n == Len(c)
             T == Turns(S, c)
             start == [at |-> 1, out |-> <<>>]
             F == [i \in 1..n |-> [t \in T |-> AppendTurn(c, t.at, t.out)]]
             Is(g) == g = [k \in 0..n |-> IF k = 0 THEN start
                                          ELSE AppendTurn(c, g[k - 1].at, g[k - 1].out)]
             Turned == CHOOSE g : Is(g)
  <1>1. n \in Nat
    BY LenProperties
  <1>2. start \in T
    <2>1. 1 \in Nat \ {0} /\ <<>> \in Seq(S)
      OBVIOUS
    <2> QED BY <2>1 DEF Turns
  <1>3. F \in [1..n -> [T -> T]]
    <2>1. \A t \in T : AppendTurn(c, t.at, t.out) \in T
      BY TurnStays
    <2> HIDE DEF T, n
    <2> QED BY <2>1
  <1>4. PICK g : Goes(g, n, T, start, F)
    <2> HIDE DEF T, n, start, F
    <2> QED BY <1>1, <1>2, <1>3, Recursion
  <1>5. Is(g)
    <2> HIDE DEF T, n, start
    <2>1. g \in [0..n -> T] /\ g[0] = start /\ \A i \in 1..n : g[i] = F[i][g[i - 1]]
      BY <1>4 DEF Goes
    <2>2. ASSUME NEW k \in 0..n, k # 0 PROVE g[k] = AppendTurn(c, g[k - 1].at, g[k - 1].out)
      <3>1. k \in 1..n /\ k - 1 \in 0..n
        BY <1>1, <2>2
      <3>2. g[k - 1] \in T
        BY <2>1, <3>1
      <3> QED BY <2>1, <3>1, <3>2
    <2> QED BY <2>1, <2>2
  <1>6. AppendLoop(c) = Turned[n].out
    BY DEF AppendLoop
  <1>7. Is(Turned)
    <2> HIDE DEF Is
    <2> QED BY <1>5
  <1>8. /\ Turned[0] = start
        /\ \A k \in 1..n : Turned[k] = AppendTurn(c, Turned[k - 1].at, Turned[k - 1].out)
    <2> HIDE DEF n, Turned, start
    <2>1. 0 \in 0..n /\ \A k \in 1..n : k \in 0..n /\ k # 0
      BY <1>1
    <2> QED BY <1>7, <2>1
  <1> HIDE DEF Turned, Is, start
  <1>9. Turned[n] \in T
    <2> DEFINE G == {k \in 0..n : Turned[k] \in T}
    <2>1. 0 \in G
      BY <1>1, <1>2, <1>8
    <2>2. \A k \in 0..(n - 1) : k \in G => k + 1 \in G
      <3> HIDE DEF n, T
      <3> SUFFICES ASSUME NEW k \in 0..(n - 1), k \in G PROVE k + 1 \in G
        OBVIOUS
      <3>1. k + 1 \in 1..n /\ (k + 1) - 1 = k /\ k + 1 \in 0..n
        BY <1>1
      <3>2. Turned[k] \in T
        OBVIOUS
      <3>3. AppendTurn(c, Turned[k].at, Turned[k].out) \in T
        BY <3>2, TurnStays DEF T
      <3> QED BY <1>8, <3>1, <3>3
    <2>3. 0..n \subseteq G
      <3> HIDE DEF G, n
      <3> QED BY <1>1, <2>1, <2>2, UpTo
    <2> QED BY <1>1, <2>3
  <1> QED BY <1>6, <1>9 DEF Turns

(* A divider is a string.                                                  *)
LEMMA SlashChar ==
    ASSUME NEW S, HasEnd(S)
    PROVE  Slash \in Seq(S) /\ <<>> \in Seq(S)
PROOF
  <1>1. PICK s : s = "/"
    OBVIOUS
  <1>2. s \in S
    BY <1>1 DEF HasEnd
  <1>3. <<s>> \in Seq(S)
    BY <1>2
  <1> QED BY <1>1, <1>3 DEF Slash

(* uriPathCombine adds nothing but a divider.                              *)
LEMMA CombineChars ==
    ASSUME NEW S, HasEnd(S), NEW x \in Seq(S), NEW y \in Seq(S)
    PROVE  uriPathCombine(x, y) \in Seq(S)
PROOF
  <1>1. Len(x) \in Nat /\ Len(y) \in Nat /\ Slash \in Seq(S)
    BY SlashChar, LenProperties
  <1>2. TrimRight(x) \in Seq(S)
    <2> DEFINE K == {i \in 2..Len(x) : x[i] # "/"}
               k == CHOOSE i \in K : \A j \in K : j <= i
    <2>1. K \in SUBSET (0..Len(x)) /\ K \subseteq Nat
      BY <1>1
    <2>2. TrimRight(x) = IF K # {} THEN Upto(x, k) ELSE IF x[1] = "/" THEN Slash ELSE x
      BY DEF TrimRight
    <2> HIDE DEF K
    <2>3. K # {} => k \in K
      <3> SUFFICES ASSUME K # {} PROVE k \in K
        OBVIOUS
      <3>1. \E n \in K : \A m \in K : m <= n
        BY <1>1, <2>1, GreatestExists
      <3> QED BY <3>1
    <2> HIDE DEF k
    <2>4. K # {} => Upto(x, k) \in Seq(S)
      BY <2>1, <2>3, UptoPart
    <2> QED BY <1>1, <2>2, <2>4
  <1>3. TrimLeft(y) \in Seq(S)
    <2> DEFINE K == {i \in 1..Len(y) : y[i] # "/"}
               k == CHOOSE i \in K : \A j \in K : i <= j
    <2>1. K \in SUBSET Nat /\ K \subseteq Nat \ {0}
      BY <1>1
    <2>2. TrimLeft(y) = IF K = {} THEN <<>> ELSE From(y, k)
      BY DEF TrimLeft
    <2> HIDE DEF K
    <2>3. K # {} => k \in K
      <3> SUFFICES ASSUME K # {} PROVE k \in K
        OBVIOUS
      <3>1. \E n \in K : \A m \in K : n <= m
        BY <2>1, LeastExists
      <3> QED BY <3>1
    <2> HIDE DEF k
    <2>4. K # {} => From(y, k) \in Seq(S)
      BY <2>1, <2>3, FromPart
    <2> QED BY <2>2, <2>4
  <1>4. PICK l : l = TrimRight(x)
    OBVIOUS
  <1>5. PICK r : r = TrimLeft(y)
    OBVIOUS
  <1>6. l \in Seq(S) /\ r \in Seq(S)
    BY <1>2, <1>3, <1>4, <1>5
  <1>7. l \o Slash \in Seq(S)
    BY <1>1, <1>6, ConcatProperties
  <1>8. PICK w : w = IF Len(l) > 1 THEN l \o Slash ELSE l
    OBVIOUS
  <1>9. w \in Seq(S)
    BY <1>6, <1>7, <1>8
  <1>10. w \o r \in Seq(S)
    BY <1>6, <1>9, ConcatProperties
  <1> QED BY <1>4, <1>5, <1>8, <1>10 DEF uriPathCombine

(* uriPathAbsoluteAppend gives the characters of its arguments, or one     *)
(* that was never written.                                                 *)
LEMMA AppendChars ==
    ASSUME NEW S, HasEnd(S), NEW current \in Seq(S), NEW append \in Seq(S),
           NEW r \in uriPathAbsoluteAppend(current, append)
    PROVE  r = NULL \/ r \in Seq(S) \/ r = <<Garbage>>
PROOF
  <1>1. PICK l : l = AppendLoop(uriPathCombine(current, append))
    OBVIOUS
  <1>2. l \in Seq(S) \cup {<<Garbage>>}
    BY <1>1, CombineChars, LoopChars
  <1>3. Slash \in Seq(S) /\ <<>> \in Seq(S)
    BY SlashChar
  <1>4. r \in {append, current, Slash, NULL, <<>>, l}
    BY <1>1, Zenon DEF uriPathAbsoluteAppend
  <1> QED BY <1>2, <1>3, <1>4

-----------------------------------------------------------------------------
(* An address the server finds begins with a divider, as it was sent.      *)

Words == {" ", "/", "."}

(* Cutting a string short leaves its first character.                      *)
LEMMA UptoFirst ==
    ASSUME NEW S, NEW s \in Seq(S), NEW k \in Nat, At(Upto(s, k), 1) = "/"
    PROVE  At(s, 1) = "/"
PROOF
  <1>1. Len(s) \in Nat
    BY LenProperties
  <1>2. PICK u : u = Upto(s, k)
    OBVIOUS
  <1>3. u \in Seq(S) /\ (k <= Len(s) => Len(u) = k) /\ \A i \in 1..Len(s) : i <= k => u[i] = s[i]
    BY <1>2, UptoPart
  <1>4. CASE Len(s) = 0
    <2>1. s = <<>> /\ Upto(s, k) = SubSeq(s, 1, 0)
      BY <1>1, <1>4, EmptySeq DEF Upto
    <2>2. Len(SubSeq(s, 1, 0)) = 0
      BY <1>1, PartOf
    <2>3. Len(u) = 0
      BY <1>2, <2>1, <2>2
    <2>4. 1 \notin 1..Len(u)
      BY <2>3
    <2> QED BY <1>2, <2>4 DEF At
  <1>5. CASE Len(s) # 0 /\ k = 0
    <2>1. Len(u) = 0
      BY <1>1, <1>3, <1>5
    <2>2. 1 \notin 1..Len(u)
      BY <2>1
    <2> QED BY <1>2, <2>2 DEF At
  <1>6. CASE Len(s) # 0 /\ k # 0
    <2>1. 1 \in 1..Len(s) /\ 1 <= k
      BY <1>1, <1>6
    <2>2. u[1] = s[1]
      BY <1>3, <2>1
    <2>3. At(u, 1) = "/"
      BY <1>2
    <2>4. u[1] = "/"
      BY <2>3 DEF At
    <2> QED BY <2>1, <2>2, <2>4 DEF At
  <1> QED BY <1>4, <1>5, <1>6

(* Taking "/.." out leaves the first character.                            *)
Strip(r) ==
    LET i == Find(r, 1, <<"/", ".", ".">>)
    IN  IF i = 0 THEN r ELSE Upto(r, i) \o From(r, i + 3)

(* Taking one "/.." out does, too.                                         *)
LEMMA StripFirst ==
    ASSUME NEW S, Words \subseteq S, NEW r \in Seq(S)
    PROVE  Strip(r) \in Seq(S) /\ (At(Strip(r), 1) = "/" => At(r, 1) = "/")
PROOF
  <1>1. PICK t : t = <<"/", ".", ".">>
    OBVIOUS
  <1>2. t \in Seq(S) /\ Len(t) = 3
    <2>1. PICK a : a = "/"
      OBVIOUS
    <2>2. PICK b : b = "."
      OBVIOUS
    <2>3. a \in S /\ b \in S
      BY <2>1, <2>2 DEF Words
    <2>4. <<a, b, b>> \in Seq(S) /\ Len(<<a, b, b>>) = 3
      BY <2>3
    <2> QED BY <1>1, <2>1, <2>2, <2>4
  <1>3. PICK i : i = Find(r, 1, t)
    OBVIOUS
  <1>4. Len(r) \in Nat /\ 1 \in Nat \ {0}
    BY LenProperties
  <1>5. i = 0 \/ i \in 1..(Len(r) - Len(t) + 1)
    BY <1>2, <1>3, <1>4, FindFirst
  <1>6. CASE i = 0
    BY <1>1, <1>3, <1>6 DEF Strip
  <1>7. CASE i # 0
    <2>1. i \in Nat \ {0} /\ i + 3 \in Nat \ {0} /\ i <= Len(r) /\ 1 \in 1..Len(r) /\ 1 <= i
      BY <1>2, <1>4, <1>5, <1>7
    <2>2. PICK x : x = Upto(r, i)
      OBVIOUS
    <2>3. PICK y : y = From(r, i + 3)
      OBVIOUS
    <2>4. x \in Seq(S) /\ Len(x) = i /\ \A k \in 1..Len(r) : k <= i => x[k] = r[k]
      BY <2>1, <2>2, UptoPart
    <2>5. y \in Seq(S) /\ Len(y) \in Nat
      BY <2>1, <2>3, FromPart, LenProperties
    <2>6. Strip(r) = x \o y
      BY <1>1, <1>3, <1>7, <2>2, <2>3 DEF Strip
    <2>7. PICK z : z = x \o y
      OBVIOUS
    <2>8. z \in Seq(S) /\ \A k \in 1..Len(x) + Len(y) : z[k] = IF k <= Len(x) THEN x[k] ELSE y[k - Len(x)]
      BY <2>4, <2>5, <2>7, ConcatProperties
    <2>9. 1 \in 1..Len(x) + Len(y) /\ 1 <= Len(x)
      BY <2>1, <2>4, <2>5
    <2>10. z[1] = r[1]
      BY <2>1, <2>4, <2>8, <2>9
    <2>11. At(z, 1) = "/" => r[1] = "/"
      BY <2>10 DEF At
    <2> QED BY <2>1, <2>6, <2>7, <2>8, <2>11 DEF At
  <1> QED BY <1>6, <1>7

(* And so does taking all of them out (hexConvertStringToAscii).           *)
LEMMA StripUpFirst ==
    ASSUME NEW S, Words \subseteq S, NEW s \in Seq(S), At(StripUp(s), 1) = "/"
    PROVE  At(s, 1) = "/"
PROOF
  <1> DEFINE n == Len(s)
             T == {r \in Seq(S) : At(r, 1) = "/" => At(s, 1) = "/"}
             F == [i \in 1..n |-> [r \in T |-> Strip(r)]]
             Is(g) == g = [k \in 0..n |-> IF k = 0 THEN s ELSE Strip(g[k - 1])]
             Stripped == CHOOSE g : Is(g)
  <1>1. n \in Nat
    BY LenProperties
  <1>2. s \in T
    OBVIOUS
  <1>3. \A r \in T : Strip(r) \in T
    BY StripFirst
  <1>4. F \in [1..n -> [T -> T]]
    <2> HIDE DEF T, n
    <2> QED BY <1>3
  <1>5. PICK g : Goes(g, n, T, s, F)
    <2> HIDE DEF T, n, F
    <2> QED BY <1>1, <1>2, <1>4, Recursion
  <1>6. Is(g)
    <2> HIDE DEF T, n
    <2>1. g \in [0..n -> T] /\ g[0] = s /\ \A i \in 1..n : g[i] = F[i][g[i - 1]]
      BY <1>5 DEF Goes
    <2>2. ASSUME NEW k \in 0..n, k # 0 PROVE g[k] = Strip(g[k - 1])
      <3>1. k \in 1..n /\ k - 1 \in 0..n
        BY <1>1, <2>2
      <3>2. g[k - 1] \in T
        BY <2>1, <3>1
      <3> QED BY <2>1, <3>1, <3>2
    <2> QED BY <2>1, <2>2
  <1>7. StripUp(s) = Stripped[n]
    BY DEF StripUp, Strip
  <1>8. Is(Stripped)
    <2> HIDE DEF Is
    <2> QED BY <1>6
  <1>9. /\ Stripped[0] = s
        /\ \A k \in 1..n : Stripped[k] = Strip(Stripped[k - 1])
    <2> HIDE DEF n, Stripped
    <2>1. 0 \in 0..n /\ \A k \in 1..n : k \in 0..n /\ k # 0
      BY <1>1
    <2> QED BY <1>8, <2>1
  <1> HIDE DEF Stripped, Is
  <1>10. Stripped[n] \in T
    <2> DEFINE G == {k \in 0..n : Stripped[k] \in T}
    <2>1. 0 \in G
      <3> HIDE DEF n, T
      <3> QED BY <1>1, <1>2, <1>9
    <2>2. \A k \in 0..(n - 1) : k \in G => k + 1 \in G
      <3> HIDE DEF n, T
      <3> SUFFICES ASSUME NEW k \in 0..(n - 1), k \in G PROVE k + 1 \in G
        OBVIOUS
      <3>1. k + 1 \in 1..n /\ (k + 1) - 1 = k /\ k + 1 \in 0..n
        BY <1>1
      <3>2. Stripped[k] \in T
        OBVIOUS
      <3> QED BY <1>3, <1>9, <3>1, <3>2
    <2>3. 0..n \subseteq G
      <3> HIDE DEF G, n
      <3> QED BY <1>1, <2>1, <2>2, UpTo
    <2> QED BY <1>1, <2>3
  <1> QED BY <1>7, <1>10

(* No escape stands for a divider.                                         *)
LEMMA UnescapeFirst ==
    ASSUME NEW S, Words \subseteq S, NEW s \in Seq(S)
    PROVE  Unescape(s) \in Seq(S) /\ (At(Unescape(s), 1) = "/" => At(s, 1) = "/")
PROOF
  <1>1. DOMAIN Escape = {".", " "}
    BY DEF Escape
  <1>2. PICK D : D = DOMAIN Escape
    OBVIOUS
  <1>3. D \subseteq S /\ "/" \notin D
    BY <1>1, <1>2 DEF Words
  <1> DEFINE Char1(w) == IF \E c \in D : Escape[c] = w
                         THEN CHOOSE c \in D : Escape[c] = w ELSE w
  <1>4. ASSUME NEW w \in S PROVE Char1(w) \in S /\ (Char1(w) = "/" => w = "/")
    <2>1. CASE \E c \in D : Escape[c] = w
      <3>1. Char1(w) \in D
        BY <2>1
      <3> QED BY <1>3, <3>1
    <2>2. CASE ~\E c \in D : Escape[c] = w
      <3>1. Char1(w) = w
        BY <2>2
      <3> QED BY <3>1
    <2> QED BY <2>1, <2>2
  <1>5. Unescape(s) = [i \in 1..Len(s) |-> Char1(s[i])]
    BY <1>2 DEF Unescape
  <1> HIDE DEF Char1
  <1>6. Len(s) \in Nat /\ \A i \in 1..Len(s) : s[i] \in S
    BY LenProperties, ElementOfSeq
  <1>7. PICK u : u = Unescape(s)
    OBVIOUS
  <1>8. u = [i \in 1..Len(s) |-> Char1(s[i])] /\ u \in [1..Len(s) -> S]
    BY <1>4, <1>5, <1>6, <1>7
  <1>9. u \in Seq(S) /\ Len(u) = Len(s)
    BY <1>6, <1>8
  <1>10. ASSUME 1 \in 1..Len(s), u[1] = "/" PROVE s[1] = "/"
    <2>1. u[1] = Char1(s[1])
      BY <1>8, <1>10
    <2> QED BY <1>4, <1>6, <1>10, <2>1
  <1> QED BY <1>7, <1>9, <1>10 DEF At

(* The server reads a divider first only where one was sent                *)
(* (httpClientReadUri).                                                    *)
LEMMA ReadUriFirst ==
    ASSUME NEW S, Words \subseteq S, NEW path \in Seq(S), At(httpClientReadUri(path), 1) = "/"
    PROVE  At(path, 1) = "/"
PROOF
  <1>1. PICK t : t = <<" ">>
    OBVIOUS
  <1>2. t \in Seq(S)
    <2>1. PICK a : a = " "
      OBVIOUS
    <2>2. a \in S
      BY <2>1 DEF Words
    <2>3. <<a>> \in Seq(S)
      BY <2>2
    <2> QED BY <1>1, <2>1, <2>3
  <1>3. PICK space : space = Find(path, 1, t)
    OBVIOUS
  <1>4. space \in Nat
    <2>1. 1 \in Nat \ {0} /\ Len(path) \in Nat /\ Len(t) \in Nat
      BY <1>2, LenProperties
    <2>2. space = 0 \/ space \in 1..(Len(path) - Len(t) + 1)
      BY <1>2, <1>3, <2>1, FindFirst
    <2> QED BY <2>2
  <1>5. PICK s : s = IF space = 0 THEN path ELSE Upto(path, space - 1)
    OBVIOUS
  <1>6. httpClientReadUri(path) = StripUp(Unescape(s))
    BY <1>1, <1>3, <1>5 DEF httpClientReadUri, hexConvertStringToAscii
  <1>7. s \in Seq(S) /\ (At(s, 1) = "/" => At(path, 1) = "/")
    <2>1. CASE space = 0
      BY <1>5, <2>1
    <2>2. CASE space # 0
      <3>1. PICK k \in Nat : k = space - 1
        BY <1>4, <2>2
      <3>2. s = Upto(path, k)
        BY <1>5, <2>2, <3>1
      <3>3. s \in Seq(S)
        BY <3>2, UptoPart
      <3> QED BY <3>2, <3>3, UptoFirst
    <2> QED BY <2>1, <2>2
  <1>8. PICK u : u = Unescape(s)
    OBVIOUS
  <1>9. u \in Seq(S) /\ (At(u, 1) = "/" => At(s, 1) = "/")
    BY <1>7, <1>8, UnescapeFirst
  <1>10. At(u, 1) = "/"
    BY <1>6, <1>8, <1>9, StripUpFirst
  <1> QED BY <1>7, <1>9, <1>10

-----------------------------------------------------------------------------
(* One request and its answer.                                             *)

(* What is left for the next request: nothing, the text of an error, or    *)
(* the line break that ends a page.                                        *)
Nothing(b, s) == b.buf = <<>> /\ s.data = <<>>

One(b, s, p) ==
    \/ b.buf = <<p>> /\ s.data = <<>>
    \/ b.buf = <<>> /\ s.data = <<p>>

Stray(b, s) == One(b, s, ErrorText)

Broken(b, s) == One(b, s, LineBreak)

Rests(b, s) == Nothing(b, s) \/ Stray(b, s) \/ Broken(b, s)

Records(b, s) == b = [mode |-> b.mode, buf |-> b.buf] /\ s = [up |-> s.up, data |-> s.data]

(* The server answers a path it does not find with an error or nothing.    *)
IsBody(p) == p.piece \in {"page", "content"}

Found(a, more) ==
    \E kind \in {"dir", "file"} :
        \/ a.data = <<Header(kind)>>
        \/ more /\ \E p : IsBody(p) /\ a.data = <<Header(kind), p>>

(* The answers of the server, by whether it finds the path.                *)
LEMMA Answered ==
    ASSUME NEW method, NEW request, NEW a, a = Answer(method, request)
    PROVE  /\ a = [up |-> a.up, data |-> a.data]
           /\ Names(request) = {} => ~a.up /\ a.data \in {<<>>, <<Header("missing"), ErrorText>>}
           /\ Names(request) # {} => Found(a, method # "HEAD")
PROOF
  <1>1. PICK path : path = httpClientReadUri(request)
    OBVIOUS
  <1>2. PICK found : found = Lookup(path)
    OBVIOUS
  <1>3. Names(request) = {n.at : n \in found}
    BY <1>1, <1>2 DEF Names
  <1>4. At(path, 1) # "/" => found = {}
    BY <1>2 DEF Lookup
  <1> DEFINE n == CHOOSE n \in found : TRUE
             entries == SetToSeq(Visible(n.at))
             page == Page(CASE style = "TH" -> PageTH(path, entries)
                            [] style = "relative" -> PageRelative(entries)
                            [] style = "absolute" -> PageAbsolute(path, entries))
  <1>5. Answer(method, request) =
          IF At(path, 1) # "/" THEN [up |-> FALSE, data |-> <<>>]
          ELSE IF found = {} THEN [up |-> FALSE, data |-> <<Header("missing"), ErrorText>>]
          ELSE IF method = "HEAD"
          THEN [up |-> ~n.dir, data |-> <<Header(IF n.dir THEN "dir" ELSE "file")>>]
          ELSE [up |-> TRUE, data |-> IF n.dir THEN <<Header("dir"), page>>
                                      ELSE <<Header("file"), Content>>]
    BY <1>1, <1>2, Zenon DEF Answer
  <1>6. IsBody(page) /\ IsBody(Content)
    BY DEF Page, Content, IsBody
  <1> HIDE DEF page, n
  <1>7. CASE At(path, 1) # "/"
    BY <1>3, <1>4, <1>5, <1>7
  <1>8. CASE At(path, 1) = "/" /\ found = {}
    BY <1>3, <1>5, <1>8
  <1>9. CASE At(path, 1) = "/" /\ found # {}
    <2>1. Names(request) # {}
      BY <1>3, <1>9
    <2>2. CASE method = "HEAD"
      <3>1. a = [up |-> ~n.dir, data |-> <<Header(IF n.dir THEN "dir" ELSE "file")>>]
        BY <1>5, <1>9, <2>2
      <3>2. a.data = <<Header("dir")>> \/ a.data = <<Header("file")>>
        BY <3>1
      <3>3. a = [up |-> a.up, data |-> a.data]
        BY <3>1
      <3> QED BY <2>1, <3>2, <3>3 DEF Found
    <2>3. CASE method # "HEAD"
      <3>1. a = [up |-> TRUE, data |-> IF n.dir THEN <<Header("dir"), page>> ELSE <<Header("file"), Content>>]
        BY <1>5, <1>9, <2>3
      <3>2. a.data = <<Header("dir"), page>> \/ a.data = <<Header("file"), Content>>
        BY <3>1
      <3>3. a = [up |-> a.up, data |-> a.data]
        BY <3>1
      <3> QED BY <1>6, <2>1, <2>3, <3>2, <3>3, Zenon DEF Found
    <2> QED BY <2>2, <2>3
  <1> QED BY <1>7, <1>8, <1>9

(* A path names one node: the one its components lead to.                  *)
LEMMA NamesOne ==
    ASSUME NEW request, Names(request) # {}
    PROVE  /\ Names(request) = {Components(httpClientReadUri(request))}
           /\ At(httpClientReadUri(request), 1) = "/"
PROOF
  <1>1. PICK path : path = httpClientReadUri(request)
    OBVIOUS
  <1>2. Names(request) = {n.at : n \in Lookup(path)}
    BY <1>1 DEF Names
  <1>3. Lookup(path) # {}
    BY <1>2
  <1>4. At(path, 1) = "/"
    BY <1>3 DEF Lookup
  <1>5. \A n \in Lookup(path) : n.at = Components(path)
    BY DEF Lookup, Node
  <1>6. Names(request) = {Components(path)}
    BY <1>2, <1>3, <1>5
  <1> QED BY <1>1, <1>4, <1>6

(* What reading a header makes of the bytes there are.                     *)
LEMMA NoHeader ==
    ASSUME NEW b, NEW s, Records(b, s), HeaderAt(b.buf \o s.data) = {},
           NEW x \in ioHttpResponseHeaderRead(b, s)
    PROVE  x.err /\ Records(x.b, x.s) /\ x.b.mode = "token"
PROOF
  <1>1. PICK all : all = b.buf \o s.data
    OBVIOUS
  <1>2. x = [b |-> [mode |-> "token", buf |-> all], s |-> [s EXCEPT !.data = <<>>],
             err |-> TRUE, header |-> "none", before |-> all]
    BY <1>1 DEF ioHttpResponseHeaderRead
  <1>3. [s EXCEPT !.data = <<>>] = [up |-> s.up, data |-> <<>>]
    BY DEF Records
  <1> QED BY <1>2, <1>3 DEF Records

Bytes(b, s) == b.buf \o s.data

(* The bytes there are, with one header among them, and what reading it    *)
(* gives.                                                                  *)
OneIn(all, U, j) ==
    /\ all \in Seq(U) /\ j \in 1..Len(all) /\ HeaderAt(all) = {j} /\ Len(all) <= j + 1

OneRead(x, all, j, s) ==
    /\ x.err = FALSE /\ Records(x.b, x.s) /\ x.b.mode = "complete" /\ x.s.up = s.up
    /\ x.header = all[j].kind /\ x.before = Upto(all, j - 1)
    /\ \/ Len(all) = j /\ Nothing(x.b, x.s)
       \/ /\ Len(all) = j + 1
          /\ \/ x.b.buf = <<>> /\ x.s.data = <<all[j + 1]>>
             \/ x.b.buf = <<all[j + 1]>> /\ x.s.data = <<>>

(* A header is cut off; what is behind it stays in the buffer or on the    *)
(* connection (ioHttpResponseHeaderRead).                                  *)
LEMMA OneHeader ==
    ASSUME NEW b, NEW s, Records(b, s), NEW all, NEW U, NEW j, OneIn(all, U, j), all = Bytes(b, s),
           NEW x \in ioHttpResponseHeaderRead(b, s)
    PROVE  OneRead(x, all, j, s)
PROOF
  <1> USE DEF OneIn
  <1>1. Len(all) \in Nat /\ j \in Nat
    BY LenProperties
  <1>11. all \in Seq(U) /\ j \in 1..Len(all) /\ HeaderAt(all) = {j} /\ Len(all) <= j + 1
    OBVIOUS
  <1> HIDE DEF OneIn
  <1>2. (CHOOSE k \in HeaderAt(all) : \A i \in HeaderAt(all) : k <= i) = j
    <2>1. j <= j
      BY <1>1, <1>11
    <2> QED BY <1>11, <2>1
  <1>3. PICK k \in j..Len(all) :
          x = [b |-> [mode |-> "complete", buf |-> SubSeq(all, j + 1, k)],
               s |-> [s EXCEPT !.data = From(all, k + 1)],
               err |-> FALSE, header |-> all[j].kind, before |-> Upto(all, j - 1)]
    BY <1>2, <1>11 DEF ioHttpResponseHeaderRead, Bytes
  <1>4. [s EXCEPT !.data = From(all, k + 1)] = [up |-> s.up, data |-> From(all, k + 1)]
    BY DEF Records
  <1>5. /\ x.err = FALSE /\ Records(x.b, x.s) /\ x.b.mode = "complete" /\ x.s.up = s.up
        /\ x.header = all[j].kind /\ x.before = Upto(all, j - 1)
        /\ x.b.buf = SubSeq(all, j + 1, k) /\ x.s.data = SubSeq(all, k + 1, Len(all))
    BY <1>3, <1>4 DEF Records, From
  <1>6. ASSUME NEW m \in Nat \ {0}, m <= Len(all) + 1 PROVE SubSeq(all, m, m - 1) = <<>>
    <2>1. m - 1 \in 0..Len(all) /\ ~(m <= m - 1)
      BY <1>1, <1>6
    <2>2. SubSeq(all, m, m - 1) \in Seq(U) /\ Len(SubSeq(all, m, m - 1)) = 0
      BY <2>1, <1>11, PartOf
    <2> QED BY <2>2, EmptySeq
  <1>7. ASSUME NEW m \in 1..Len(all) PROVE SubSeq(all, m, m) = <<all[m]>>
    BY <1>11, OnePiece
  <1>8. CASE Len(all) = j
    <2>1. k = j /\ j + 1 \in Nat \ {0} /\ j + 1 <= Len(all) + 1 /\ (j + 1) - 1 = j
      BY <1>1, <1>8, <1>11
    <2>2. SubSeq(all, j + 1, j) = <<>>
      <3>1. SubSeq(all, j + 1, (j + 1) - 1) = <<>>
        BY <1>6, <2>1
      <3> QED BY <2>1, <3>1
    <2> QED BY <1>5, <1>8, <2>1, <2>2 DEF Nothing, OneRead
  <1>9. CASE Len(all) = j + 1
    <2>1. j + 1 \in 1..Len(all) /\ j + 1 \in Nat \ {0} /\ j + 1 <= Len(all) + 1 /\ (j + 1) - 1 = j
          /\ j + 2 \in Nat \ {0} /\ j + 2 <= Len(all) + 1 /\ (j + 2) - 1 = j + 1 /\ (j + 1) + 1 = j + 2
      BY <1>1, <1>9, <1>11
    <2>2. SubSeq(all, j + 1, j) = <<>> /\ SubSeq(all, j + 2, j + 1) = <<>>
      <3>1. SubSeq(all, j + 1, (j + 1) - 1) = <<>> /\ SubSeq(all, j + 2, (j + 2) - 1) = <<>>
        BY <1>6, <2>1
      <3> QED BY <2>1, <3>1
    <2>3. SubSeq(all, j + 1, j + 1) = <<all[j + 1]>>
      BY <1>7, <2>1
    <2>4. k = j \/ k = j + 1
      BY <1>1, <1>9, <1>11
    <2>5. CASE k = j
      BY <1>5, <1>9, <2>2, <2>3, <2>5 DEF OneRead
    <2>6. CASE k = j + 1
      BY <1>5, <1>9, <2>1, <2>2, <2>3, <2>6 DEF OneRead
    <2> QED BY <2>4, <2>5, <2>6
  <1>10. Len(all) = j \/ Len(all) = j + 1
    BY <1>1, <1>11
  <1> QED BY <1>5, <1>8, <1>9, <1>10 DEF OneRead

(* A header behind what was left, with or without more behind it.          *)
IsShape(all, U, j, pre, h, tail) ==
    /\ all \in Seq(U) /\ all = pre \o tail /\ j \in 1..Len(all)
    /\ HeaderAt(all) = {j} /\ Len(all) <= j + 1
    /\ all[j] = h /\ Upto(all, j - 1) = pre
    /\ tail = <<h>> => Len(all) = j
    /\ \A p : tail = <<h, p>> => Len(all) = j + 1 /\ all[j + 1] = p

(* Every answer over every rest has this shape.                            *)
LEMMA Shape ==
    ASSUME NEW e, e.piece # "header", NEW pre, pre = <<>> \/ pre = <<e>>, NEW h, h.piece = "header",
           NEW tail, tail = <<h>> \/ \E p : p.piece # "header" /\ tail = <<h, p>>
    PROVE  \E all, U, j : IsShape(all, U, j, pre, h, tail)
PROOF
  <1>2. e.piece # "header"
    OBVIOUS
  <1>3. CASE pre = <<>> /\ tail = <<h>>
    <2>1. PICK all : all = <<h>>
      OBVIOUS
    <2>2. all \in Seq({h}) /\ all = pre \o tail /\ Len(all) = 1 /\ all[1] = h
      BY <1>3, <2>1
    <2>3. HeaderAt(all) = {1}
      BY <2>2 DEF HeaderAt
    <2>4. Upto(all, 1 - 1) = pre
      BY <1>3, <2>2 DEF Upto
    <2>5. \A p : tail # <<h, p>>
      BY <1>3
    <2>6. IsShape(all, {h}, 1, pre, h, tail)
      BY <1>3, <2>2, <2>3, <2>4, <2>5 DEF IsShape
    <2> QED BY <2>6
  <1>4. CASE pre = <<>> /\ tail # <<h>>
    <2>1. PICK p : p.piece # "header" /\ tail = <<h, p>>
      BY <1>4
    <2>2. PICK all : all = <<h, p>>
      OBVIOUS
    <2>3. all \in Seq({h, p}) /\ all = pre \o tail /\ Len(all) = 2 /\ all[1] = h /\ all[2] = p
      BY <1>4, <2>1, <2>2
    <2>4. HeaderAt(all) = {1}
      BY <2>1, <2>3 DEF HeaderAt
    <2>5. Upto(all, 1 - 1) = pre
      BY <1>4, <2>3 DEF Upto
    <2>6. \A o : tail = <<h, o>> => o = p
      BY <2>1
    <2>7. tail # <<h>> /\ 1 \in 1..Len(all) /\ Len(all) <= 1 + 1 /\ 1 + 1 = 2
      <3>1. Len(all) = 2
        BY <2>3
      <3>2. 1 \in 1..Len(all) /\ Len(all) <= 1 + 1 /\ 1 + 1 = 2
        BY <3>1
      <3> QED BY <1>4, <3>2
    <2>8. \A o : tail = <<h, o>> => Len(all) = 1 + 1 /\ all[1 + 1] = o
      BY <2>3, <2>6
    <2>9. IsShape(all, {h, p}, 1, pre, h, tail)
      BY <2>3, <2>4, <2>5, <2>7, <2>8, Zenon DEF IsShape
    <2> QED BY <2>9
  <1>5. CASE pre = <<e>> /\ tail = <<h>>
    <2>1. PICK all : all = <<e, h>>
      OBVIOUS
    <2>2. all \in Seq({e, h}) /\ all = pre \o tail /\ Len(all) = 2 /\ all[1] = e /\ all[2] = h
      BY <1>5, <2>1
    <2>3. HeaderAt(all) = {2}
      BY <1>2, <2>2 DEF HeaderAt
    <2>4. Upto(all, 2 - 1) = pre
      <3>3. 1 \in 1..Len(all) /\ all[1] = e
        BY <2>2
      <3>1. SubSeq(all, 1, 1) = <<e>>
        BY <2>2, <3>3, OnePiece
      <3>2. Upto(all, 2 - 1) = SubSeq(all, 1, 1)
        BY <2>2 DEF Upto
      <3> QED BY <1>5, <3>1, <3>2
    <2>5. \A p : tail # <<h, p>>
      BY <1>5
    <2>6. IsShape(all, {e, h}, 2, pre, h, tail)
      BY <1>5, <2>2, <2>3, <2>4, <2>5 DEF IsShape
    <2> QED BY <2>6
  <1>6. CASE pre = <<e>> /\ tail # <<h>>
    <2>1. PICK p : p.piece # "header" /\ tail = <<h, p>>
      BY <1>6
    <2>2. PICK all : all = <<e, h, p>>
      OBVIOUS
    <2>3. /\ all \in Seq({e, h, p}) /\ all = pre \o tail /\ Len(all) = 3
         /\ all[1] = e /\ all[2] = h /\ all[3] = p
      BY <1>6, <2>1, <2>2
    <2>4. HeaderAt(all) = {2}
      BY <1>2, <2>1, <2>3 DEF HeaderAt
    <2>5. Upto(all, 2 - 1) = pre
      <3>3. 1 \in 1..Len(all) /\ all[1] = e
        BY <2>3
      <3>1. SubSeq(all, 1, 1) = <<e>>
        BY <2>3, <3>3, OnePiece
      <3>2. Upto(all, 2 - 1) = SubSeq(all, 1, 1)
        BY <2>3 DEF Upto
      <3> QED BY <1>6, <3>1, <3>2
    <2>6. \A o : tail = <<h, o>> => o = p
      BY <2>1
    <2>7. IsShape(all, {e, h, p}, 2, pre, h, tail)
      BY <1>6, <2>3, <2>4, <2>5, <2>6 DEF IsShape
    <2> QED BY <2>7
  <1> QED BY <1>3, <1>4, <1>5, <1>6

(* What is left is one piece at most, and no header.                       *)
LEMMA OnePieceLeft ==
    ASSUME NEW b, NEW s, Rests(b, s)
    PROVE  \E e : e.piece # "header" /\ (Nothing(b, s) \/ One(b, s, e))
PROOF
  <1>1. PICK t, k : t = ErrorText /\ k = LineBreak
    OBVIOUS
  <1>2. t.piece # "header" /\ k.piece # "header"
    BY <1>1 DEF ErrorText, LineBreak
  <1>3. Nothing(b, s) \/ One(b, s, t) \/ One(b, s, k)
    BY <1>1 DEF Rests, Stray, Broken
  <1> QED BY <1>2, <1>3

(* One request over what the last one may have left.                       *)
LEMMA Exchanged ==
    ASSUME NEW b, NEW s, Records(b, s), Rests(b, s),
           NEW method, NEW request, NEW x \in Exchange(b, s, method, request)
    PROVE  /\ Records(x.b, x.s)
           /\ x.err => x.b.mode = "token" /\ (Names(request) = {} \/ s.data # <<>>)
           /\ ~x.err => /\ x.b.mode = "complete" /\ (Nothing(b, s) => x.before = <<>>)
                        /\ x.header = "missing" => Names(request) = {} /\ (Nothing(x.b, x.s) \/ Stray(x.b, x.s))
                        /\ x.header # "missing" =>
                              /\ Names(request) # {}
                              /\ \/ Nothing(x.b, x.s)
                                 \/ method # "HEAD" /\ \E p : IsBody(p) /\ One(x.b, x.s, p)
PROOF
  <1>1. PICK a : a = Answer(method, request)
    OBVIOUS
  <1>2. /\ a = [up |-> a.up, data |-> a.data]
        /\ Names(request) = {} => ~a.up /\ a.data \in {<<>>, <<Header("missing"), ErrorText>>}
        /\ Names(request) # {} => Found(a, method # "HEAD")
    BY <1>1, Answered
  <1>3. PICK t : /\ x \in ioHttpResponseHeaderRead([b EXCEPT !.mode = "none"], t)
                 /\ \/ s.up /\ t = [up |-> a.up, data |-> s.data \o a.data]
                    \/ ~s.up /\ t = a
                    \/ ~s.up /\ s.data # <<>> /\ t = s
    <2>1. PICK y \in recvBufferSend(b, s, a) : x \in ioHttpResponseHeaderRead(y.b, y.s)
      BY <1>1 DEF Exchange
    <2>2. PICK t \in (IF s.up THEN {[up |-> a.up, data |-> s.data \o a.data]} ELSE {a})
                       \cup (IF ~s.up /\ s.data # <<>> THEN {s} ELSE {}) :
            y = [b |-> [b EXCEPT !.mode = "none"], s |-> t]
      BY DEF recvBufferSend
    <2> QED BY <2>1, <2>2
  <1>4. PICK c : c = [b EXCEPT !.mode = "none"]
    OBVIOUS
  <1>5. c = [mode |-> "none", buf |-> b.buf] /\ c.buf = b.buf
    BY <1>4 DEF Records
  <1>8. x \in ioHttpResponseHeaderRead(c, t)
    BY <1>3, <1>4
  <1>9. PICK e : e.piece # "header" /\ (Nothing(b, s) \/ One(b, s, e))
    BY OnePieceLeft
  <1>6. CASE ~s.up /\ s.data # <<>> /\ t = s
    <2>1. b.buf = <<>> /\ s.data = <<e>>
      BY <1>6, <1>9 DEF Nothing, One
    <2>2. HeaderAt(c.buf \o t.data) = {}
      <3>3. PICK all : all = <<e>>
        OBVIOUS
      <3>4. <<>> \o <<e>> = all /\ Len(all) = 1 /\ all[1] = e
        BY <3>3
      <3>5. HeaderAt(all) = {}
        BY <1>9, <3>4 DEF HeaderAt
      <3> QED BY <1>5, <1>6, <2>1, <3>4, <3>5
    <2>3. Records(c, t)
      BY <1>5, <1>6 DEF Records
    <2>4. x.err /\ Records(x.b, x.s) /\ x.b.mode = "token"
      BY <1>8, <2>2, <2>3, NoHeader
    <2> QED BY <1>6, <2>4
  <1>7. CASE ~(~s.up /\ s.data # <<>> /\ t = s)
    <2>1. t.up = a.up /\ Records(c, t)
          /\ (s.up => t.data = s.data \o a.data) /\ (~s.up => t.data = a.data)
      <3>1. CASE s.up
        BY <1>3, <1>5, <3>1 DEF Records
      <3>2. CASE ~s.up
        <4>1. t = a
          BY <1>3, <1>7, <3>2
        <4> QED BY <1>2, <1>5, <3>2, <4>1 DEF Records
      <3> QED BY <3>1, <3>2
    <2>12. PICK T : T = {a.data[1], a.data[2]}
      OBVIOUS
    <2>2. a.data \in Seq(T)
      <3>1. CASE Names(request) = {}
        <4>1. PICK h, g : h = Header("missing") /\ g = ErrorText
          OBVIOUS
        <4>2. a.data = <<>> \/ a.data = <<h, g>>
          BY <1>2, <3>1, <4>1
        <4>3. CASE a.data = <<h, g>>
          <5>1. <<h, g>> \in Seq({h, g}) /\ <<h, g>>[1] = h /\ <<h, g>>[2] = g
            OBVIOUS
          <5>2. T = {h, g}
            BY <2>12, <4>3, <5>1
          <5> QED BY <4>3, <5>1, <5>2
        <4>4. CASE a.data = <<>>
          BY <4>4
        <4> QED BY <4>2, <4>3, <4>4
      <3>2. CASE Names(request) # {}
        <4>1. PICK h, p : a.data = <<h>> \/ a.data = <<h, p>>
          BY <1>2, <3>2 DEF Found
        <4>3. CASE a.data = <<h, p>>
          <5>1. <<h, p>> \in Seq({h, p}) /\ <<h, p>>[1] = h /\ <<h, p>>[2] = p
            OBVIOUS
          <5>2. T = {h, p}
            BY <2>12, <4>3, <5>1
          <5> QED BY <4>3, <5>1, <5>2
        <4>4. CASE a.data = <<h>>
          <5>1. <<h>> \in [1..1 -> T]
            <6>1. <<h>>[1] = h /\ h \in T
              BY <2>12, <4>4
            <6> QED BY <6>1
          <5> QED BY <4>4, <5>1
        <4> QED BY <4>1, <4>3, <4>4
      <3> QED BY <3>1, <3>2
    <2>3. PICK d : d = a.data
      OBVIOUS
    <2>9. PICK one : one = <<e>>
      OBVIOUS
    <2>8. d \in Seq(T) /\ <<>> \o d = d /\ <<>> \o (one \o d) = one \o d /\ one # <<>>
      <3>1. PICK V : V = T \cup {e}
        OBVIOUS
      <3>2. d \in Seq(V)
        <4>1. PICK n \in Nat : d \in [1..n -> T]
          BY <2>2, <2>3
        <4>2. d \in [1..n -> V]
          BY <3>1, <4>1
        <4> QED BY <4>2
      <3>3. one \in Seq(V)
        BY <2>9, <3>1
      <3>4. one \o d \in Seq(V)
        BY <3>2, <3>3
      <3>5. \A q \in Seq(V) : <<>> \o q = q
        OBVIOUS
      <3> QED BY <2>2, <2>3, <2>9, <3>2, <3>4, <3>5
    <2>10. PICK pre : /\ pre = <<>> \/ pre = one
                      /\ Bytes(c, t) = pre \o d /\ (Nothing(b, s) => pre = <<>>)
      <3>1. CASE b.buf = <<>> /\ s.data = <<>>
        <4>1. Bytes(c, t) = <<>> \o d
          BY <1>5, <2>1, <2>3, <2>8, <3>1 DEF Bytes
        <4> QED BY <4>1
      <3>2. CASE b.buf = one /\ s.data = <<>>
        <4>1. Bytes(c, t) = one \o d /\ ~Nothing(b, s)
          BY <1>5, <2>1, <2>3, <2>8, <3>2 DEF Bytes, Nothing
        <4> QED BY <4>1
      <3>3. CASE b.buf = <<>> /\ s.data = one /\ s.up
        <4>1. Bytes(c, t) = one \o d /\ ~Nothing(b, s)
          BY <1>5, <2>1, <2>3, <2>8, <3>3 DEF Bytes, Nothing
        <4> QED BY <4>1
      <3>4. CASE b.buf = <<>> /\ s.data = one /\ ~s.up
        <4>1. Bytes(c, t) = <<>> \o d
          BY <1>5, <2>1, <2>3, <2>8, <3>4 DEF Bytes
        <4> QED BY <4>1
      <3> QED BY <1>9, <2>9, <3>1, <3>2, <3>3, <3>4 DEF Nothing, One
    <2>11. pre = <<>> \/ pre = <<e>>
      BY <2>9, <2>10
    <2>4. CASE Names(request) = {} /\ a.data = <<>>
      <3>1. HeaderAt(Bytes(c, t)) = {}
        <4>3. pre \o <<>> = pre
          BY <2>11
        <4>4. pre = <<>> => HeaderAt(pre) = {}
          BY DEF HeaderAt
        <4>5. pre = <<e>> => HeaderAt(pre) = {}
          <5>1. SUFFICES ASSUME pre = <<e>> PROVE HeaderAt(pre) = {}
            OBVIOUS
          <5>2. Len(pre) = 1 /\ pre[1] = e
            BY <5>1
          <5> QED BY <1>9, <5>2 DEF HeaderAt
        <4> QED BY <2>3, <2>4, <2>10, <2>11, <4>3, <4>4, <4>5
      <3>2. x.err /\ Records(x.b, x.s) /\ x.b.mode = "token"
        BY <1>8, <2>1, <3>1, NoHeader DEF Bytes
      <3> QED BY <2>4, <3>2
    <2>5. CASE Names(request) = {} /\ a.data # <<>>
      <3>1. PICK h : h = Header("missing")
        OBVIOUS
      <3>2. h.piece = "header" /\ h.kind = "missing"
        BY <3>1 DEF Header
      <3>3. PICK g : g = ErrorText
        OBVIOUS
      <3>4. g.piece # "header"
        BY <3>3 DEF ErrorText
      <3>5. d = <<h, g>> /\ d # <<h>>
        BY <1>2, <2>3, <2>5, <3>1, <3>3
      <3>6. PICK all, U, j : IsShape(all, U, j, pre, h, d)
        BY <1>9, <2>11, <3>2, <3>4, <3>5, Shape
      <3>7. /\ OneIn(all, U, j) /\ all = Bytes(c, t)
            /\ all[j].kind = "missing" /\ Upto(all, j - 1) = pre
            /\ Len(all) = j + 1 /\ all[j + 1] = g
        BY <2>10, <3>2, <3>5, <3>6 DEF IsShape, OneIn
      <3>10. OneRead(x, all, j, t)
        BY <1>8, <2>1, <3>7, OneHeader
      <3>8. /\ x.err = FALSE /\ Records(x.b, x.s) /\ x.b.mode = "complete"
            /\ x.header = all[j].kind /\ x.before = Upto(all, j - 1)
            /\ Nothing(x.b, x.s) \/ One(x.b, x.s, g)
        BY <3>7, <3>10 DEF OneRead, One
      <3> QED BY <2>5, <2>10, <3>3, <3>7, <3>8 DEF Stray
    <2>6. CASE Names(request) # {}
      <3>1. PICK kind \in {"dir", "file"} :
              \/ a.data = <<Header(kind)>>
              \/ method # "HEAD" /\ \E p : IsBody(p) /\ a.data = <<Header(kind), p>>
        BY <1>2, <2>6 DEF Found
      <3>2. PICK h : h = Header(kind)
        OBVIOUS
      <3>3. h.piece = "header" /\ h.kind # "missing"
        BY <3>1, <3>2 DEF Header
      <3>5. d = <<h>> \/ (method # "HEAD" /\ \E p : IsBody(p) /\ d = <<h, p>>)
        BY <2>3, <3>1, <3>2
      <3>4. d = <<h>> \/ \E p : p.piece # "header" /\ d = <<h, p>>
        BY <3>5 DEF IsBody
      <3>6. PICK all, U, j : IsShape(all, U, j, pre, h, d)
        BY <1>9, <2>11, <3>3, <3>4, Shape
      <3>7. /\ OneIn(all, U, j) /\ all = Bytes(c, t)
            /\ all[j].kind # "missing" /\ Upto(all, j - 1) = pre
            /\ \/ Len(all) = j
               \/ method # "HEAD" /\ IsBody(all[j + 1])
        <4>1. /\ all \in Seq(U) /\ all = pre \o d /\ j \in 1..Len(all)
              /\ HeaderAt(all) = {j} /\ Len(all) <= j + 1
              /\ all[j] = h /\ Upto(all, j - 1) = pre
              /\ d = <<h>> => Len(all) = j
              /\ \A p : d = <<h, p>> => Len(all) = j + 1 /\ all[j + 1] = p
          BY <3>6, Zenon DEF IsShape
        <4>2. \/ Len(all) = j
              \/ method # "HEAD" /\ IsBody(all[j + 1])
          BY <3>5, <4>1, Zenon
        <4> QED BY <2>10, <3>3, <4>1, <4>2 DEF OneIn
      <3>10. OneRead(x, all, j, t)
        BY <1>8, <2>1, <3>7, OneHeader
      <3>8. /\ x.err = FALSE /\ Records(x.b, x.s) /\ x.b.mode = "complete"
            /\ x.header = all[j].kind /\ x.before = Upto(all, j - 1)
            /\ \/ Len(all) = j /\ Nothing(x.b, x.s)
               \/ Len(all) = j + 1 /\ One(x.b, x.s, all[j + 1])
        BY <3>10 DEF OneRead, One
      <3>9. \/ Nothing(x.b, x.s)
            \/ method # "HEAD" /\ \E p : IsBody(p) /\ One(x.b, x.s, p)
        <4>1. Len(all) = j => ~(Len(all) = j + 1)
          BY <3>7, LenProperties DEF OneIn
        <4> QED BY <3>7, <3>8, <4>1, Zenon
      <3> QED BY <2>6, <2>10, <3>7, <3>8, <3>9
    <2> QED BY <2>4, <2>5, <2>6
  <1> QED BY <1>6, <1>7

-----------------------------------------------------------------------------
(* What the connection may hold between two calls.                         *)

(* The records are records.                                                *)
Types ==
    /\ Records(rb, sock) /\ changes \in Nat
    /\ {"op", "end"} \subseteq DOMAIN last

(* Where the last transfer is complete, nothing is left of it, unless the  *)
(* call before was refused: then the text of its error may be, but never   *)
(* when a listing was opened since, except through the questions of DIR;   *)
(* or a page was read to its end: then its last line break may be, until   *)
(* the next request.  (Beyond the bound, a page or a file that was refused.)*)
Left ==
    rb.mode \in {"none", "complete"} =>
        \/ Nothing(rb, sock)
        \/ Stray(rb, sock) /\ last.end = "refused" /\ (listing # NULL => listing.command = "DIR")
        \/ Broken(rb, sock) /\ LineBreakLeft /\ fullUri # NULL
        \/ OutOfStep /\ rb.buf = <<>> /\ listing = NULL

(* A call is made when the client is still followed.                       *)
Called == ~OutOfStep \/ listing # NULL

(* recvBufferSend begins with nothing left, with the text of the error of  *)
(* the call before or with the line break of the page read before.         *)
LEMMA ReusableLeft ==
    ASSUME Types, Left, Called
    PROVE  /\ Records(Reusable.b, Reusable.s)
           /\ Rests(Reusable.b, Reusable.s)
           /\ Reusable.b.buf # <<>> \/ Reusable.s.data # <<>> => last.end = "refused" \/ LineBreakLeft
PROOF
  <1>1. CASE rb.mode \in {"none", "complete"}
    <2>1. Reusable.b = rb /\ Reusable.s = sock
      BY <1>1 DEF Reusable
    <2> QED BY <1>1, <2>1 DEF Types, Left, Called, Rests, Nothing
  <1>2. CASE rb.mode \notin {"none", "complete"}
    <2>1. Reusable.b = [mode |-> rb.mode, buf |-> <<>>] /\ Reusable.s = Fresh
      BY <1>2 DEF Reusable, recvBufferClear, Types, Records
    <2>2. Reusable.b.buf = <<>> /\ Reusable.s.data = <<>> /\ Records(Reusable.b, Reusable.s)
      BY <2>1 DEF Fresh, Records
    <2> QED BY <2>2 DEF Rests, Nothing
  <1> QED BY <1>1, <1>2

(* What a call learns of a path with a HEAD, and what it leaves: b and s   *)
(* are what it found.                                                      *)
Heard(x, path, b, s) ==
    /\ Records(x.b, x.s)
    /\ x.b.mode \in {"none", "complete"} =>
          \/ Nothing(x.b, x.s)
          \/ Stray(x.b, x.s) /\ Names(path) = {} /\ x.header = "missing" /\ ~x.err
    /\ ~x.err /\ x.header # "missing" => Names(path) # {}
    /\ Names(path) # {} =>
          \/ b.buf # <<>> \/ s.data # <<>>
          \/ ~x.err /\ HttpResponseOk(x)

(* A HEAD over such a rest.                                                *)
LEMMA HeadHeard ==
    ASSUME NEW b, NEW s, Records(b, s), Rests(b, s),
           NEW path, NEW x \in Exchange(b, s, "HEAD", path)
    PROVE  Heard(x, path, b, s)
PROOF
  <1>1. /\ Records(x.b, x.s)
        /\ x.err => x.b.mode = "token" /\ (Names(path) = {} \/ s.data # <<>>)
        /\ ~x.err => /\ x.b.mode = "complete" /\ (Nothing(b, s) => x.before = <<>>)
                     /\ x.header = "missing" => Names(path) = {} /\ (Nothing(x.b, x.s) \/ Stray(x.b, x.s))
                     /\ x.header # "missing" => Names(path) # {} /\ Nothing(x.b, x.s)
    BY Exchanged
  <1>2. "token" \notin {"none", "complete"}
    OBVIOUS
  <1>3. b.buf = <<>> /\ s.data = <<>> => Nothing(b, s)
    BY DEF Nothing
  <1> QED BY <1>1, <1>2, <1>3 DEF Heard, HttpResponseOk

(* A listing is asked for with a GET, over an empty buffer.  A call that   *)
(* is refused leaves nothing, the text of an error, or the body.           *)
LEMMA Asked ==
    ASSUME Types, Left, Called, NEW path,
           NEW x \in Exchange([Reusable.b EXCEPT !.buf = <<>>], Reusable.s, "GET", path)
    PROVE  /\ Records(x.b, x.s)
           /\ ~(~x.err /\ HttpResponseOk(x)) =>
                 /\ x.b.mode \in {"none", "complete"} =>
                        \/ Names(path) = {} /\ (Nothing(x.b, x.s) \/ Stray(x.b, x.s))
                        \/ Nothing(x.b, x.s)
                        \/ \E p : IsBody(p) /\ One(x.b, x.s, p)
                 /\ Names(path) # {} => last.end = "refused" \/ LineBreakLeft
PROOF
  <1>1. PICK b : b = [Reusable.b EXCEPT !.buf = <<>>]
    OBVIOUS
  <1>2. PICK s : s = Reusable.s
    OBVIOUS
  <1>3. b = [mode |-> Reusable.b.mode, buf |-> <<>>] /\ Records(b, s)
    BY <1>1, <1>2, ReusableLeft DEF Records
  <1>4. Rests(b, s) /\ (Nothing(b, s) \/ last.end = "refused" \/ LineBreakLeft)
    <2>1. b.buf = <<>>
      BY <1>3
    <2>2. s.data # <<>> => last.end = "refused" \/ LineBreakLeft
      BY <1>2, ReusableLeft
    <2>3. PICK t, k : t = <<ErrorText>> /\ k = <<LineBreak>>
      OBVIOUS
    <2>4. s.data = <<>> \/ s.data = t \/ s.data = k
      BY <1>2, <2>3, ReusableLeft DEF Rests, Nothing, Stray, Broken, One
    <2> QED BY <2>1, <2>2, <2>3, <2>4 DEF Rests, Nothing, Stray, Broken, One
  <1>5. x \in Exchange(b, s, "GET", path)
    BY <1>1, <1>2
  <1>6. /\ Records(x.b, x.s)
        /\ x.err => x.b.mode = "token" /\ (Names(path) = {} \/ s.data # <<>>)
        /\ ~x.err => /\ x.b.mode = "complete" /\ (Nothing(b, s) => x.before = <<>>)
                     /\ x.header = "missing" => Names(path) = {} /\ (Nothing(x.b, x.s) \/ Stray(x.b, x.s))
                     /\ x.header # "missing" =>
                           Nothing(x.b, x.s) \/ \E p : IsBody(p) /\ One(x.b, x.s, p)
    BY <1>3, <1>4, <1>5, Exchanged
  <1>7. s.data # <<>> => ~Nothing(b, s)
    BY DEF Nothing
  <1>9. "token" \notin {"none", "complete"}
    OBVIOUS
  <1> QED BY <1>4, <1>6, <1>7, <1>9 DEF HttpResponseOk

(* How a call ends.                                                        *)
LEMMA OutcomeEnd ==
    ASSUME NEW op, NEW path, NEW ok \in BOOLEAN
    PROVE  /\ {"op", "end"} \subseteq DOMAIN Outcome(op, path, ok) /\ Outcome(op, path, ok).op = op
           /\ Outcome(op, path, ok).end =
                 IF ok THEN "ok" ELSE IF Names(path) = {} THEN "refused" ELSE "spurious"
PROOF
  BY DEF Outcome

-----------------------------------------------------------------------------
(* Every call keeps both, and fails for a path that is served only after   *)
(* one that was refused or a page read to its end.                         *)
Explained ==
    changes' = changes /\ last'.op # "close" /\ last'.end = "spurious"
        => last.end = "refused" \/ LineBreakLeft

Kept == Types' /\ Left' /\ Explained

(* MOUNT (httpSiteSchemeNew) begins with a new connection.                 *)
LEMMA MountKeeps ==
    ASSUME Types, Left, NEW uri, httpSiteSchemeNew(uri)
    PROVE  Kept
PROOF
  <1> DEFINE d == uriDetailsNewFrom(uri)
             details == IF d.path = NULL THEN [d EXCEPT !.path = Slash] ELSE d
  <1>1. UNCHANGED <<style, tree, listing, changes>> /\ listing = NULL /\ fullUri = NULL
    BY DEF httpSiteSchemeNew
  <1>2. CASE /\ last' = [op |-> "mount", end |-> "refused"]
             /\ UNCHANGED <<rb, sock, fullUri, home>>
    <2>1. last'.end = "refused" /\ {"op", "end"} \subseteq DOMAIN last'
      BY <1>2
    <2>2. rb' = rb /\ sock' = sock /\ changes' = changes /\ listing' = NULL
      BY <1>1, <1>2
    <2>3. Records(rb', sock') /\ changes' \in Nat
      BY <2>2 DEF Types
    <2>4. rb.mode \in {"none", "complete"} =>
            Nothing(rb, sock) \/ Stray(rb, sock) \/ (OutOfStep /\ rb.buf = <<>>)
      BY <1>1 DEF Left
    <2>5. rb'.mode \in {"none", "complete"} =>
            Nothing(rb', sock') \/ Stray(rb', sock') \/ (OutOfStep' /\ rb'.buf = <<>>)
      BY <2>2, <2>4 DEF OutOfStep
    <2>6. Left'
      BY <2>1, <2>2, <2>5 DEF Left
    <2> QED BY <2>1, <2>2, <2>3, <2>6 DEF Kept, Types, Explained
  <1>3. CASE \E new \in recvBufferNewFromUriDetails(details) :
             \E x \in Exchange(new.b, new.s, "HEAD", details.path) :
                /\ rb' = x.b /\ sock' = x.s
                /\ last' = Outcome("mount", details.path, ~x.err /\ HttpResponseOk(x))
    <2>1. PICK path : path = details.path
      OBVIOUS
    <2>2. PICK new, x :
                /\ new \in recvBufferNewFromUriDetails(details)
                /\ x \in Exchange(new.b, new.s, "HEAD", path)
                /\ rb' = x.b /\ sock' = x.s
                /\ last' = Outcome("mount", path, ~x.err /\ HttpResponseOk(x))
      BY <1>3, <2>1
    <2>3. new.b = EmptyBuffer /\ new.s = Fresh
      BY <2>2 DEF recvBufferNewFromUriDetails
    <2>4. new.b.buf = <<>> /\ new.s.data = <<>> /\ Records(new.b, new.s) /\ Rests(new.b, new.s)
      BY <2>3 DEF EmptyBuffer, Fresh, Records, Nothing, Rests
    <2>5. Heard(x, path, new.b, new.s)
      BY <2>2, <2>4, HeadHeard
    <2>6. PICK ok \in BOOLEAN : ok = (~x.err /\ HttpResponseOk(x))
      OBVIOUS
    <2>7. /\ {"op", "end"} \subseteq DOMAIN last'
          /\ last'.end = IF ok THEN "ok" ELSE IF Names(path) = {} THEN "refused" ELSE "spurious"
      <3>1. last' = Outcome("mount", path, ok)
        BY <2>2, <2>6
      <3> QED BY <3>1, OutcomeEnd
    <2>8. Names(path) # {} => ok
      BY <2>4, <2>5, <2>6 DEF Heard
    <2>9. last'.end # "spurious"
      BY <2>7, <2>8
    <2>10. x.header = "missing" => ~ok
      BY <2>6 DEF HttpResponseOk
    <2>11. Records(rb', sock')
      BY <2>2, <2>5 DEF Heard
    <2>12. rb'.mode \in {"none", "complete"} =>
              Nothing(rb', sock') \/ (Stray(rb', sock') /\ last'.end = "refused")
      BY <2>2, <2>5, <2>7, <2>10 DEF Heard
    <2>13. listing' = NULL /\ changes' = changes
      BY <1>1
    <2>14. Left'
      BY <2>12, <2>13 DEF Left
    <2> QED BY <2>7, <2>9, <2>11, <2>13, <2>14 DEF Kept, Types, Explained
  <1> QED BY <1>2, <1>3 DEF httpSiteSchemeNew

(* CD (httpSiteSchemeWorkingDirectorySet).                                 *)
LEMMA CdKeeps ==
    ASSUME Types, Left, NEW path, httpSiteSchemeWorkingDirectorySet(path)
    PROVE  Kept
PROOF
  <1>1. PICK newPath, x :
          /\ x \in Exchange(Reusable.b, Reusable.s, "HEAD", newPath)
          /\ rb' = x.b /\ sock' = x.s
          /\ last' = [op |-> "cd",
                      end |-> Outcome("cd", newPath, ~x.err /\ HttpResponseOk(x) /\ HttpResponseIsDir(x) # 0).end,
                      want |-> Meant(path), trunk |-> ReachesTrunk(path)]
    BY DEF httpSiteSchemeWorkingDirectorySet
  <1>2. UNCHANGED <<listing, changes>> /\ listing = NULL
    BY DEF httpSiteSchemeWorkingDirectorySet
  <1>3. PICK ok \in BOOLEAN : ok = (~x.err /\ HttpResponseOk(x))
    OBVIOUS
  <1>4. HttpResponseIsDir(x) # 0
    BY DEF HttpResponseIsDir
  <1>12. Called
    BY DEF httpSiteSchemeWorkingDirectorySet, Called
  <1>5. Heard(x, newPath, Reusable.b, Reusable.s)
    BY <1>1, <1>12, ReusableLeft, HeadHeard
  <1>6. /\ {"op", "end"} \subseteq DOMAIN last'
        /\ last'.end = IF ok THEN "ok" ELSE IF Names(newPath) = {} THEN "refused" ELSE "spurious"
    <2>1. Outcome("cd", newPath, ok).end =
             IF ok THEN "ok" ELSE IF Names(newPath) = {} THEN "refused" ELSE "spurious"
      BY OutcomeEnd
    <2>2. PICK e : e = Outcome("cd", newPath, ok).end
      OBVIOUS
    <2>3. (~x.err /\ HttpResponseOk(x) /\ HttpResponseIsDir(x) # 0) = ok
      BY <1>3, <1>4
    <2>4. last' = [op |-> "cd", end |-> e, want |-> Meant(path), trunk |-> ReachesTrunk(path)]
      BY <1>1, <2>2, <2>3
    <2>5. {"op", "end"} \subseteq DOMAIN last' /\ last'.end = e
      BY <2>4
    <2> QED BY <2>1, <2>2, <2>5
  <1>7. last'.end = "spurious" => last.end = "refused" \/ LineBreakLeft
    <2>1. last'.end = "spurious" => ~ok /\ Names(newPath) # {}
      BY <1>6
    <2> QED BY <1>3, <1>5, <1>12, <2>1, ReusableLeft DEF Heard
  <1>8. x.header = "missing" => ~ok
    BY <1>3 DEF HttpResponseOk
  <1>9. Records(rb', sock')
    BY <1>1, <1>5 DEF Heard
  <1>10. rb'.mode \in {"none", "complete"} =>
            Nothing(rb', sock') \/ (Stray(rb', sock') /\ last'.end = "refused")
    BY <1>1, <1>5, <1>6, <1>8 DEF Heard
  <1>11. listing' = NULL /\ changes' = changes
    BY <1>2
  <1>13. Left'
    BY <1>10, <1>11 DEF Left
  <1>14. changes' \in Nat
    BY <1>11 DEF Types
  <1> QED BY <1>6, <1>7, <1>9, <1>11, <1>13, <1>14 DEF Kept, Types, Explained

(* What reading a body leaves: nothing or a line break, unless the         *)
(* transfer is not complete.                                               *)
BodyLeft(x, y) ==
    /\ Records(y.b, y.s)
    /\ y.b.mode \in {"none", "complete"} => Nothing(y.b, y.s) \/ (y.b.buf = <<>> /\ y.s.data = <<LineBreak>>)

LEMMA BodiesLeave ==
    ASSUME NEW x, Records(x.b, x.s), NEW entries, NEW y \in Bodies(x, entries)
    PROVE  BodyLeft(x, y)
PROOF
  <1>1. \A mode, data, n, read :
          Body(x, mode, data, n, read) =
            [b |-> [mode |-> mode, buf |-> <<>>], s |-> [up |-> x.s.up, data |-> data], n |-> n, read |-> read]
    <2>1. \A data : [x.s EXCEPT !.data = data] = [up |-> x.s.up, data |-> data]
      BY DEF Records
    <2> QED BY <2>1 DEF Body
  <1>2. PICK k, r : k = <<LineBreak>> /\ r = <<Rest>>
    OBVIOUS
  <1>3. \/ \E mode, data, n, read :
              /\ y = Body(x, mode, data, n, read)
              /\ mode \in {"chunk", "known"} \/ data = <<>> \/ data = k
        \/ y = [Body(x, "none", <<>>, 0, "cut") EXCEPT !.s = NoConnection]
    <2>1. CASE x.header = "dir"
      <3>1. \/ y = Body(x, "chunk", <<>>, 0, "waits")
            \/ y = Body(x, "complete", k, Len(entries), "whole")
            \/ y = [Body(x, "none", <<>>, 0, "cut") EXCEPT !.s = NoConnection]
            \/ \E n : y = Body(x, "complete", k, n, "cut")
            \/ \E n : y = Body(x, "chunk", r, n, "cut")
        BY <1>2, <2>1, Zenon DEF Bodies, PageBodies
      <3> QED BY <3>1, Zenon
    <2>2. CASE x.header # "dir"
      <3>1. y = Body(x, "complete", <<>>, 0, "whole") \/ y = Body(x, "known", r, 0, "cut")
        BY <1>2, <2>2, Zenon DEF Bodies, FileBodies
      <3> QED BY <3>1, Zenon
    <2> QED BY <2>1, <2>2
  <1>4. ASSUME NEW mode, NEW data, NEW n, NEW read, y = Body(x, mode, data, n, read),
               mode \in {"chunk", "known"} \/ data = <<>> \/ data = k
        PROVE  BodyLeft(x, y)
    <2>1. y.b = [mode |-> mode, buf |-> <<>>] /\ y.s = [up |-> x.s.up, data |-> data]
      BY <1>1, <1>4
    <2>2. Records(y.b, y.s) /\ y.b.mode = mode /\ y.b.buf = <<>> /\ y.s.data = data
      BY <2>1 DEF Records
    <2>3. "chunk" \notin {"none", "complete"} /\ "known" \notin {"none", "complete"}
      OBVIOUS
    <2> QED BY <1>2, <1>4, <2>2, <2>3 DEF BodyLeft, Nothing
  <1>5. CASE y = [Body(x, "none", <<>>, 0, "cut") EXCEPT !.s = NoConnection]
    <2>1. y.b = [mode |-> "none", buf |-> <<>>] /\ y.s = NoConnection
      BY <1>1, <1>5
    <2> QED BY <2>1 DEF BodyLeft, Nothing, NoConnection, Records
  <1> QED BY <1>3, <1>4, <1>5

(* The beginning of DIR and LS (httpSiteSchemeDirectoryListingOpen).       *)
LEMMA OpenKeeps ==
    ASSUME Types, Left, NEW path, httpSiteSchemeDirectoryListingOpen(path)
    PROVE  Kept
PROOF
  <1>1. PICK absPath, x :
          /\ x \in Exchange([Reusable.b EXCEPT !.buf = <<>>], Reusable.s, "GET", absPath)
          /\ \/ /\ ~x.err /\ HttpResponseOk(x)
                /\ \E entries, command, truth, y :
                      /\ y \in Bodies(x, entries)
                      /\ rb' = y.b /\ sock' = y.s
                      /\ last' = [op |-> "open", end |-> IF y.read = "waits" THEN "waits" ELSE "ok",
                                  path |-> absPath, read |-> y.read, entry |-> Upto(entries, y.n),
                                  left |-> y.s.data = <<LineBreak>>, truth |-> truth]
             \/ /\ ~(~x.err /\ HttpResponseOk(x))
                /\ rb' = recvBufferClear(x.b) /\ sock' = x.s /\ listing' = NULL
                /\ last' = Outcome("open", absPath, FALSE)
    <2>1. PICK absPath, x :
            /\ x \in Exchange([Reusable.b EXCEPT !.buf = <<>>], Reusable.s, "GET", absPath)
            /\ IF ~x.err /\ HttpResponseOk(x)
               THEN LET details == [uriDetailsNewFrom(fullUri) EXCEPT !.path = absPath]
                        entries == ListingEntries(details, Elements(x))
                        truth == {NameOf(n) : n \in UNION {Visible(at) : at \in Names(absPath)}}
                    IN  \E y \in Bodies(x, entries), command \in {"DIR", "LS"} :
                           /\ rb' = y.b /\ sock' = y.s
                           /\ listing' = Opened(DirectoryListingCreate(absPath, entries, command), y)
                           /\ last' = [op |-> "open", end |-> IF y.read = "waits" THEN "waits" ELSE "ok",
                                       path |-> absPath, read |-> y.read, entry |-> Upto(entries, y.n),
                                       left |-> y.s.data = <<LineBreak>>, truth |-> truth]
               ELSE /\ rb' = recvBufferClear(x.b) /\ sock' = x.s /\ listing' = NULL
                    /\ last' = Outcome("open", absPath, FALSE)
      BY Zenon DEF httpSiteSchemeDirectoryListingOpen
    <2>2. CASE ~x.err /\ HttpResponseOk(x)
      <3>1. PICK entries, truth :
              \E y \in Bodies(x, entries), command \in {"DIR", "LS"} :
                           /\ rb' = y.b /\ sock' = y.s
                           /\ listing' = Opened(DirectoryListingCreate(absPath, entries, command), y)
                           /\ last' = [op |-> "open", end |-> IF y.read = "waits" THEN "waits" ELSE "ok",
                                       path |-> absPath, read |-> y.read, entry |-> Upto(entries, y.n),
                                       left |-> y.s.data = <<LineBreak>>, truth |-> truth]
        BY <2>1, <2>2, Zenon
      <3>2. PICK y, command :
                           /\ y \in Bodies(x, entries)
                           /\ rb' = y.b /\ sock' = y.s
                           /\ last' = [op |-> "open", end |-> IF y.read = "waits" THEN "waits" ELSE "ok",
                                       path |-> absPath, read |-> y.read, entry |-> Upto(entries, y.n),
                                       left |-> y.s.data = <<LineBreak>>, truth |-> truth]
        BY <3>1, Zenon
      <3>3. x \in Exchange([Reusable.b EXCEPT !.buf = <<>>], Reusable.s, "GET", absPath)
        BY <2>1
      <3> QED BY <2>2, <3>2, <3>3, Zenon
    <2>3. CASE ~(~x.err /\ HttpResponseOk(x))
      BY <2>1, <2>3, Zenon
    <2> QED BY <2>2, <2>3
  <1>2. changes' = changes /\ fullUri' = fullUri /\ fullUri # NULL /\ Called
    BY DEF httpSiteSchemeDirectoryListingOpen, Called
  <1>3. /\ Records(x.b, x.s)
        /\ ~(~x.err /\ HttpResponseOk(x)) =>
              /\ x.b.mode \in {"none", "complete"} =>
                    \/ Names(absPath) = {} /\ (Nothing(x.b, x.s) \/ Stray(x.b, x.s))
                    \/ Nothing(x.b, x.s)
                    \/ \E p : IsBody(p) /\ One(x.b, x.s, p)
              /\ Names(absPath) # {} => last.end = "refused" \/ LineBreakLeft
    BY <1>1, <1>2, Asked
  <1>4. CASE \E entries, command, truth, y :
                      /\ y \in Bodies(x, entries)
                      /\ rb' = y.b /\ sock' = y.s
                      /\ last' = [op |-> "open", end |-> IF y.read = "waits" THEN "waits" ELSE "ok",
                                  path |-> absPath, read |-> y.read, entry |-> Upto(entries, y.n),
                                  left |-> y.s.data = <<LineBreak>>, truth |-> truth]
    <2>1. PICK entries, truth, y, end, seen :
            /\ y \in Bodies(x, entries) /\ end \in {"waits", "ok"}
            /\ rb' = y.b /\ sock' = y.s
            /\ last' = [op |-> "open", end |-> end, path |-> absPath, read |-> y.read, entry |-> seen,
                        left |-> y.s.data = <<LineBreak>>, truth |-> truth]
      BY <1>4
    <2>2. PICK k : k = <<LineBreak>>
      OBVIOUS
    <2>3. PICK w \in BOOLEAN : w = (y.s.data = k)
      OBVIOUS
    <2>4. last' = [op |-> "open", end |-> end, path |-> absPath, read |-> y.read, entry |-> seen,
                   left |-> w, truth |-> truth]
      BY <2>1, <2>2, <2>3
    <2>5. {"op", "end"} \subseteq DOMAIN last' /\ last'.end = end /\ (y.s.data = k => LineBreakLeft')
      BY <2>3, <2>4 DEF LineBreakLeft
    <2>6. BodyLeft(x, y)
      BY <1>3, <2>1, BodiesLeave
    <2>7. Left'
      BY <1>2, <2>1, <2>2, <2>5, <2>6 DEF Left, BodyLeft, Broken, One, Nothing
    <2> QED BY <1>2, <2>1, <2>5, <2>6, <2>7 DEF Kept, Types, Explained, BodyLeft
  <1>5. CASE /\ ~(~x.err /\ HttpResponseOk(x))
             /\ rb' = recvBufferClear(x.b) /\ sock' = x.s /\ listing' = NULL
             /\ last' = Outcome("open", absPath, FALSE)
    <2>2. recvBufferClear(x.b) = [mode |-> x.b.mode, buf |-> <<>>]
      BY <1>3 DEF recvBufferClear, Records
    <2>3. /\ {"op", "end"} \subseteq DOMAIN last'
          /\ last'.end = IF Names(absPath) = {} THEN "refused" ELSE "spurious"
      BY <1>5, OutcomeEnd
    <2>4. rb'.mode = x.b.mode /\ rb'.buf = <<>> /\ Records(rb', sock')
      BY <1>3, <1>5, <2>2 DEF Records
    <2>5. ASSUME NEW p, One(x.b, x.s, p) PROVE Nothing(rb', sock') \/ sock'.data = <<p>>
      BY <1>5, <2>4, <2>5 DEF One, Nothing
    <2>6. Nothing(x.b, x.s) => Nothing(rb', sock')
      BY <1>5, <2>4 DEF Nothing
    <2>7. Stray(x.b, x.s) => Nothing(rb', sock') \/ Stray(rb', sock')
      BY <2>4, <2>5 DEF Stray, One
    <2>8. ASSUME NEW p, IsBody(p), One(x.b, x.s, p) PROVE Nothing(rb', sock') \/ OutOfStep'
      <3>1. sock'.data = <<p>> => 1 \in DOMAIN sock'.data /\ sock'.data[1] = p
        OBVIOUS
      <3> QED BY <2>5, <2>8, <3>1 DEF OutOfStep, IsBody
    <2>9. x.b.mode \in {"none", "complete"} =>
            \/ Nothing(rb', sock')
            \/ Stray(rb', sock') /\ last'.end = "refused"
            \/ OutOfStep'
      <3> HIDE DEF Called
      <3>1. CASE Names(absPath) = {} /\ (Nothing(x.b, x.s) \/ Stray(x.b, x.s))
        BY <2>3, <2>6, <2>7, <3>1
      <3>2. CASE Nothing(x.b, x.s)
        BY <2>6, <3>2
      <3>3. CASE \E p : IsBody(p) /\ One(x.b, x.s, p)
        BY <2>8, <3>3
      <3> QED BY <1>3, <1>5, <3>1, <3>2, <3>3
    <2>10. Left'
      BY <1>5, <2>4, <2>9 DEF Left
    <2>11. last'.end = "spurious" => last.end = "refused" \/ LineBreakLeft
      BY <1>3, <1>5, <2>3
    <2> QED BY <1>2, <2>3, <2>4, <2>10, <2>11 DEF Kept, Types, Explained
  <1> QED BY <1>1, <1>4, <1>5

(* The end of a wait for more of a page.                                   *)
LEMMA WaitKeeps ==
    ASSUME Types, Left, ListingWaitEnds
    PROVE  Kept
PROOF
  <1>1. PICK seen, mode :
          /\ rb' = [mode |-> mode, buf |-> <<>>] /\ sock' = NoConnection
          /\ last' = [last EXCEPT !.end = "ok", !.read = "cut", !.entry = seen]
          /\ changes' = changes
    BY DEF ListingWaitEnds
  <1>2. DOMAIN last' = DOMAIN last /\ last'.end = "ok"
    BY <1>1 DEF Types
  <1>3. Nothing(rb', sock') /\ Records(rb', sock')
    BY <1>1 DEF Nothing, Records, NoConnection
  <1>4. Left'
    BY <1>3 DEF Left
  <1> QED BY <1>1, <1>2, <1>3, <1>4 DEF Kept, Types, Explained

(* DIR asks about every entry (httpSiteSchemeDirectoryListingEntryStat).   *)
LEMMA DirKeeps ==
    ASSUME Types, Left, PrintDirectoryFilesDosLike
    PROVE  Kept
PROOF
  <1>1. PICK path, x, name, truth :
          /\ x \in Exchange(Reusable.b, Reusable.s, "HEAD", path)
          /\ rb' = x.b /\ sock' = x.s
          /\ last' = IF x.err THEN Outcome("stat", path, FALSE)
                     ELSE [op |-> "stat", end |-> IF x.header = "missing" THEN "refused" ELSE "ok",
                           name |-> name,
                           type |-> IF HeadersPopulateFileName(x) THEN "file" ELSE "dir",
                           truth |-> truth]
    BY DEF PrintDirectoryFilesDosLike, httpSiteSchemeDirectoryListingEntryStat
  <1>2. listing'.command = "DIR" /\ changes' = changes
    <2>1. listing.command = "DIR" /\ listing' = [listing EXCEPT !.idx = @ + 1]
      BY DEF PrintDirectoryFilesDosLike, httpSiteSchemeDirectoryListingRead
    <2>2. listing'.command = listing.command
      BY <2>1
    <2> QED BY <2>1, <2>2 DEF PrintDirectoryFilesDosLike
  <1>6. Called
    BY DEF PrintDirectoryFilesDosLike, Called
  <1>3. Heard(x, path, Reusable.b, Reusable.s)
    BY <1>1, <1>6, ReusableLeft, HeadHeard
  <1>4. CASE x.err
    <2>1. /\ {"op", "end"} \subseteq DOMAIN last'
          /\ last'.end = IF Names(path) = {} THEN "refused" ELSE "spurious"
      BY <1>1, <1>4, OutcomeEnd
    <2>2. last'.end = "spurious" => last.end = "refused" \/ LineBreakLeft
      BY <1>3, <1>4, <1>6, <2>1, ReusableLeft DEF Heard
    <2>3. Records(rb', sock') /\ (rb'.mode \in {"none", "complete"} => Nothing(rb', sock'))
      BY <1>1, <1>3, <1>4 DEF Heard
    <2>4. Left' /\ changes' \in Nat
      BY <1>2, <2>3 DEF Left, Types
    <2> QED BY <2>1, <2>2, <2>3, <2>4 DEF Kept, Types, Explained
  <1>5. CASE ~x.err
    <2>1. {"op", "end"} \subseteq DOMAIN last' /\ last'.end = IF x.header = "missing" THEN "refused" ELSE "ok"
      BY <1>1, <1>5
    <2>2. last'.end # "spurious"
      BY <2>1
    <2>3. Records(rb', sock')
      BY <1>1, <1>3 DEF Heard
    <2>4. rb'.mode \in {"none", "complete"} =>
             Nothing(rb', sock') \/ (Stray(rb', sock') /\ last'.end = "refused")
      BY <1>1, <1>3, <2>1 DEF Heard
    <2>5. Left' /\ changes' \in Nat
      BY <1>2, <2>4 DEF Left, Types
    <2> QED BY <2>1, <2>2, <2>3, <2>5 DEF Kept, Types, Explained
  <1> QED BY <1>4, <1>5

(* Every step.                                                             *)
LEMMA StepKeeps ==
    ASSUME Types, Left, Next
    PROVE  Kept
PROOF
  <1>1. ASSUME NEW uri \in MountUri, httpSiteSchemeNew(uri) PROVE Kept
    BY <1>1, MountKeeps
  <1>2. ASSUME NEW path \in UserPath, httpSiteSchemeWorkingDirectorySet(path) PROVE Kept
    BY <1>2, CdKeeps
  <1>3. ASSUME NEW path \in UserPath, httpSiteSchemeDirectoryListingOpen(path) PROVE Kept
    BY <1>3, OpenKeeps
  <1>9. CASE ListingWaitEnds
    BY <1>9, WaitKeeps
  <1>4. CASE PrintDirectoryFilesDosLike
    BY <1>4, DirKeeps
  <1>5. CASE PrintDirectoryFilesUnixLike
    <2>5. PICK w \in BOOLEAN : w = LineBreakLeft
      BY DEF LineBreakLeft
    <2>1. /\ listing # NULL /\ listing.command = "LS"
          /\ last' = [op |-> "read", end |-> "ok", left |-> w]
          /\ rb' = rb /\ sock' = sock /\ changes' = changes /\ fullUri' = fullUri
      BY <1>5, <2>5 DEF PrintDirectoryFilesUnixLike
    <2>2. {"op", "end"} \subseteq DOMAIN last' /\ last'.end = "ok" /\ (w => LineBreakLeft')
      BY <2>1 DEF LineBreakLeft
    <2>3. rb.mode \in {"none", "complete"} =>
            Nothing(rb, sock) \/ (Broken(rb, sock) /\ w /\ fullUri # NULL)
      BY <2>1, <2>5 DEF Left
    <2>4. Left'
      BY <2>1, <2>2, <2>3 DEF Left
    <2> QED BY <2>1, <2>2, <2>4 DEF Kept, Types, Explained
  <1>6. CASE httpSiteSchemeDirectoryListingClose
    <2>5. PICK w \in BOOLEAN : w = LineBreakLeft
      BY DEF LineBreakLeft
    <2>1. /\ listing # NULL /\ listing' = NULL
          /\ last' = [op |-> "close", end |-> last.end, left |-> w]
          /\ rb' = rb /\ sock' = sock /\ changes' = changes /\ fullUri' = fullUri
      BY <1>6, <2>5 DEF httpSiteSchemeDirectoryListingClose
    <2>2. /\ {"op", "end"} \subseteq DOMAIN last' /\ last'.end = last.end /\ last'.op = "close"
          /\ w => LineBreakLeft'
      BY <2>1 DEF LineBreakLeft
    <2>3. rb.mode \in {"none", "complete"} =>
            \/ Nothing(rb, sock)
            \/ Stray(rb, sock) /\ last.end = "refused"
            \/ Broken(rb, sock) /\ w /\ fullUri # NULL
      BY <2>1, <2>5 DEF Left
    <2>4. Left'
      BY <2>1, <2>2, <2>3 DEF Left
    <2> QED BY <2>1, <2>2, <2>4 DEF Kept, Types, Explained
  <1>7. CASE RemoveFile
    <2>1. rb' = rb /\ sock' = sock /\ listing' = listing /\ last' = last
          /\ changes' = changes + 1 /\ fullUri' = fullUri
      BY <1>7 DEF RemoveFile
    <2>2. changes' \in Nat /\ changes' # changes
      BY <2>1 DEF Types
    <2>3. Left'
      BY <2>1 DEF Left, OutOfStep, LineBreakLeft
    <2> QED BY <2>1, <2>2, <2>3 DEF Kept, Types, Explained
  <1>8. CASE Restart
    <2>1. rb' = rb /\ listing' = listing /\ last' = last /\ fullUri' = fullUri
          /\ changes' = changes + 1 /\ sock' \in {NoConnection, [sock EXCEPT !.up = FALSE]}
      BY <1>8 DEF Restart
    <2>2. changes' \in Nat /\ changes' # changes
      BY <2>1 DEF Types
    <2>3. CASE sock' = NoConnection
      <3>1. sock'.data = <<>> /\ Records(rb', sock')
        BY <2>1, <2>3 DEF NoConnection, Types, Records
      <3>2. LineBreakLeft' = LineBreakLeft
        BY <2>1 DEF LineBreakLeft
      <3>3. Left'
        <4>1. rb.buf = <<>> => Nothing(rb, sock')
          BY <3>1 DEF Nothing
        <4>2. Stray(rb, sock) => Nothing(rb, sock') \/ Stray(rb, sock')
          BY <3>1 DEF Nothing, Stray, One
        <4>3. Broken(rb, sock) => Nothing(rb, sock') \/ Broken(rb, sock')
          BY <3>1 DEF Nothing, Broken, One
        <4>4. Nothing(rb, sock) => rb.buf = <<>>
          BY DEF Nothing
        <4> QED BY <2>1, <3>2, <4>1, <4>2, <4>3, <4>4 DEF Left
      <3> QED BY <2>1, <2>2, <3>1, <3>3 DEF Kept, Types, Explained
    <2>4. CASE sock' = [sock EXCEPT !.up = FALSE]
      <3>1. sock'.data = sock.data /\ Records(rb', sock')
        BY <2>1, <2>4 DEF Types, Records
      <3>2. LineBreakLeft' = LineBreakLeft /\ OutOfStep' = OutOfStep
        BY <2>1, <3>1 DEF LineBreakLeft, OutOfStep
      <3>3. Left'
        BY <2>1, <3>1, <3>2 DEF Left, Nothing, Stray, Broken, One
      <3> QED BY <2>1, <2>2, <3>1, <3>3 DEF Kept, Types, Explained
    <2> QED BY <2>1, <2>3, <2>4
  <1> QED BY <1>1, <1>2, <1>3, <1>4, <1>5, <1>6, <1>7, <1>8, <1>9 DEF Next

BrowseInv == Types /\ Left

(* What a connection may hold between two calls once the transfer is       *)
(* complete (recvbufr.c): nothing, the text of the error the call before   *)
(* met, or the line break behind the page read before; beyond the bound    *)
(* OutOfStep, a page or a file that was refused.                           *)
THEOREM BrowseInvariant == Spec => []BrowseInv
PROOF
  <1>1. Init => BrowseInv
    BY DEF Init, BrowseInv, Types, Left, Records, Nothing, EmptyBuffer, NoConnection
  <1>2. BrowseInv /\ [Next]_vars => BrowseInv'
    <2> SUFFICES ASSUME BrowseInv, [Next]_vars PROVE BrowseInv'
      OBVIOUS
    <2>1. CASE Next
      BY <2>1, StepKeeps DEF BrowseInv, Kept
    <2>2. CASE UNCHANGED vars
      <3>1. UNCHANGED <<rb, sock, listing, last, changes, fullUri>>
        BY <2>2 DEF vars
      <3>2. LineBreakLeft' = LineBreakLeft /\ OutOfStep' = OutOfStep
        BY <3>1 DEF LineBreakLeft, OutOfStep
      <3> QED BY <3>1, <3>2 DEF BrowseInv, Types, Left
    <2> QED BY <2>1, <2>2
  <1> QED BY <1>1, <1>2, PTL DEF Spec

(* A call fails for a path the server does serve only right after one the  *)
(* server refused, or after a page read to its end, whatever the tree, the *)
(* addresses and the paths: neither a restart nor a listing cut short      *)
(* before its end makes one fail (recvBufferSend,                          *)
(* ioHttpResponseHeaderRead).                                              *)
THEOREM ErrorsExplain == Spec => FailuresExplained
PROOF
  <1>1. BrowseInv /\ [Next]_vars =>
          [changes' = changes /\ last'.op # "close" /\ last'.end = "spurious"
              => last.end = "refused" \/ LineBreakLeft]_vars
    <2> SUFFICES ASSUME BrowseInv, Next
                 PROVE  changes' = changes /\ last'.op # "close" /\ last'.end = "spurious"
                            => last.end = "refused" \/ LineBreakLeft
      OBVIOUS
    <2> QED BY StepKeeps DEF BrowseInv, Kept, Explained
  <1> QED BY <1>1, BrowseInvariant, PTL DEF Spec, FailuresExplained

-----------------------------------------------------------------------------
(* The working directory.                                                  *)

(* No path the user types has a query.                                     *)
NoQuery == \A path \in UserPath : "?" \notin ToSet(path)

(* fullUri is what uriDetailsCreateString wrote, of parts that are told    *)
(* apart, and its path is what the server found.                           *)
Mounted ==
    fullUri # NULL =>
        LET d == uriDetailsNewFrom(fullUri)
        IN  /\ Separable(d) /\ d.scheme # NULL /\ d.host # NULL /\ d.path # NULL
            /\ home = {Components(httpClientReadUri(d.path))}

Clean == Char \ {"?"}

(* A path without a query, as a string of other characters, and back.      *)
LEMMA CleanPath ==
    ASSUME NEW path \in Text, Without(path, {"?"})
    PROVE  path \in Seq(Clean)
PROOF
  <1>1. path \in Seq(Char) /\ Len(path) \in Nat
    BY LenProperties DEF Text
  <1>2. \A i \in 1..Len(path) : path[i] \in Clean
    BY <1>1, ElementOfSeq DEF Without, Clean
  <1>3. path = [i \in 1..Len(path) |-> path[i]]
    BY <1>1, LenProperties
  <1>4. PICK n \in Nat : n = Len(path)
    BY <1>1
  <1>5. path \in [1..n -> Clean]
    BY <1>2, <1>3, <1>4
  <1> HIDE DEF Clean
  <1> QED BY <1>5

LEMMA PathClean ==
    ASSUME NEW path \in Seq(Clean)
    PROVE  path \in Text /\ Without(path, {"?"})
PROOF
  <1>1. Len(path) \in Nat /\ \A i \in 1..Len(path) : path[i] \in Clean
    BY LenProperties, ElementOfSeq
  <1>2. \A i \in 1..Len(path) : path[i] \in Char /\ path[i] # "?"
    BY <1>1 DEF Clean
  <1>3. path = [i \in 1..Len(path) |-> path[i]]
    BY LenProperties
  <1>4. PICK n \in Nat : n = Len(path)
    BY <1>1
  <1>5. path \in [1..n -> Char]
    BY <1>2, <1>3, <1>4
  <1>6. path \in Text
    BY <1>5 DEF Text
  <1> QED BY <1>2, <1>6 DEF Without

(* What is written into fullUri is what is read from it.                   *)
LEMMA Written ==
    ASSUME NEW d, Separable(d), fullUri' = uriDetailsCreateString(d),
           home' = Names(d.path), Names(d.path) # {}
    PROVE  Mounted'
PROOF
  <1> SUFFICES ASSUME fullUri' # NULL
               PROVE  LET e == uriDetailsNewFrom(fullUri')
                      IN  /\ Separable(e) /\ e.scheme # NULL /\ e.host # NULL /\ e.path # NULL
                          /\ home' = {Components(httpClientReadUri(e.path))}
    BY DEF Mounted
  <1>1. d.scheme # NULL /\ d.host # NULL /\ d.path # NULL
    BY DEF uriDetailsCreateString
  <1>2. uriDetailsNewFrom(fullUri') = d
    BY <1>1, ReadBack
  <1>3. home' = {Components(httpClientReadUri(d.path))}
    BY NamesOne
  <1> QED BY <1>1, <1>2, <1>3

(* MOUNT writes the address the server answered for.                       *)
LEMMA MountServes ==
    ASSUME BrowseInv, Mounted, NEW uri \in MountUri, httpSiteSchemeNew(uri)
    PROVE  Mounted'
PROOF
  <1>1. PICK d : d = uriDetailsNewFrom(uri)
    OBVIOUS
  <1>2. Separable(d)
    <2>1. uri \in Text
      BY BrowseAssumption DEF Text
    <2> QED BY <1>1, <2>1, NewFromSeparable
  <1>3. PICK details : details = IF d.path = NULL THEN [d EXCEPT !.path = Slash] ELSE d
    OBVIOUS
  <1>4. Separable(details)
    <2>1. CASE d.path = NULL
      <3>1. HasEnd(Clean)
        BY SomeChars DEF HasEnd, Clean
      <3>2. PICK slash : slash = Slash
        OBVIOUS
      <3>3. slash \in Text /\ Without(slash, {"?"})
        BY <3>1, <3>2, SlashChar, PathClean
      <3>4. At(slash, 1) = "/"
        BY <3>2 DEF At, Slash
      <3>5. details = [d EXCEPT !.path = slash]
        BY <1>3, <2>1, <3>2
      <3> QED BY <1>2, <3>3, <3>4, <3>5 DEF Separable, Part
    <2>2. CASE d.path # NULL
      BY <1>2, <1>3, <2>2
    <2> QED BY <2>1, <2>2
  <1>5. CASE UNCHANGED <<fullUri, home>>
    BY <1>5 DEF Mounted
  <1>6. CASE ~UNCHANGED <<fullUri, home>>
    <2>1. PICK new, x :
            /\ new \in recvBufferNewFromUriDetails(details)
            /\ x \in Exchange(new.b, new.s, "HEAD", details.path)
            /\ ~x.err /\ HttpResponseOk(x)
            /\ fullUri' = uriDetailsCreateString(details) /\ home' = Names(details.path)
      BY <1>1, <1>3, <1>6 DEF httpSiteSchemeNew
    <2>2. new.b = EmptyBuffer /\ new.s = Fresh
      BY <2>1 DEF recvBufferNewFromUriDetails
    <2>3. Records(new.b, new.s) /\ Rests(new.b, new.s)
      BY <2>2 DEF EmptyBuffer, Fresh, Records, Nothing, Rests
    <2>4. PICK path : path = details.path
      OBVIOUS
    <2>5. Heard(x, path, new.b, new.s)
      BY <2>1, <2>3, <2>4, HeadHeard
    <2>6. Names(details.path) # {}
      BY <2>1, <2>4, <2>5 DEF Heard, HttpResponseOk
    <2> QED BY <1>4, <2>1, <2>6, Written
  <1> QED BY <1>5, <1>6

(* CD writes the path the server answered for.                             *)
LEMMA CdServes ==
    ASSUME NoQuery, BrowseInv, Mounted, NEW path \in UserPath, httpSiteSchemeWorkingDirectorySet(path)
    PROVE  Mounted'
PROOF
  <1>1. CASE UNCHANGED <<fullUri, home>>
    BY <1>1 DEF Mounted
  <1>2. CASE ~UNCHANGED <<fullUri, home>>
    <2>1. PICK newPath, x :
            /\ newPath \in uriPathAbsoluteAppend(CurrentPath, path) /\ newPath # NULL
            /\ x \in Exchange(Reusable.b, Reusable.s, "HEAD", newPath)
            /\ ~x.err /\ HttpResponseOk(x)
            /\ fullUri' = uriDetailsCreateString([uriDetailsNewFrom(fullUri) EXCEPT !.path = newPath])
            /\ home' = Names(newPath)
      BY <1>2 DEF httpSiteSchemeWorkingDirectorySet
    <2>2. PICK d : d = uriDetailsNewFrom(fullUri)
      OBVIOUS
    <2>3. Separable(d) /\ d.path # NULL /\ CurrentPath = d.path
      BY <2>2 DEF Mounted, CurrentPath, httpSiteSchemeWorkingDirectorySet
    <2>4. HasEnd(Clean)
      BY SomeChars DEF HasEnd, Clean
    <2>5. CurrentPath \in Seq(Clean)
      <3>1. d.path \in Text /\ Without(d.path, {"?"})
        BY <2>3 DEF Separable, Part
      <3> QED BY <2>3, <3>1, CleanPath
    <2>6. path \in Seq(Clean)
      <3>1. path \in Text
        BY BrowseAssumption DEF Text
      <3>2. "?" \notin ToSet(path)
        BY DEF NoQuery
      <3>3. Without(path, {"?"})
        BY <3>2 DEF ToSet, Without
      <3> QED BY <3>1, <3>3, CleanPath
    <2>7. Names(newPath) # {}
      <3>2. Called
        BY DEF httpSiteSchemeWorkingDirectorySet, Called
      <3>1. Heard(x, newPath, Reusable.b, Reusable.s)
        BY <2>1, <3>2, ReusableLeft, HeadHeard DEF BrowseInv
      <3> QED BY <2>1, <3>1 DEF Heard, HttpResponseOk
    <2>8. newPath \in Seq(Clean) \/ newPath = <<Garbage>>
      BY <2>1, <2>4, <2>5, <2>6, AppendChars
    <2>9. At(newPath, 1) = "/"
      <3>1. PICK X : X = Clean \cup Words \cup {Garbage}
        OBVIOUS
      <3>2. Words \subseteq X /\ Clean \subseteq X /\ Garbage \in X
        BY <3>1
      <3>3. newPath \in Seq(X)
        <4>1. CASE newPath \in Seq(Clean)
          <5>1. PICK n \in Nat : newPath \in [1..n -> Clean]
            BY <4>1
          <5>2. newPath \in [1..n -> X]
            BY <3>2, <5>1
          <5> QED BY <5>2
        <4>2. CASE newPath = <<Garbage>>
          BY <3>2, <4>2
        <4> QED BY <2>8, <4>1, <4>2
      <3>4. At(httpClientReadUri(newPath), 1) = "/"
        BY <2>7, NamesOne
      <3> QED BY <3>2, <3>3, <3>4, ReadUriFirst
    <2>10. newPath \in Text /\ Without(newPath, {"?"})
      <3>1. CASE newPath \in Seq(Clean)
        BY <3>1, PathClean
      <3>2. CASE newPath = <<Garbage>>
        <4>1. Garbage = "/"
          BY <2>9, <3>2 DEF At
        <4>2. newPath = Slash
          BY <3>2, <4>1 DEF Slash
        <4> QED BY <2>4, <4>2, SlashChar, PathClean
      <3> QED BY <2>8, <3>1, <3>2
    <2>11. PICK e : e = [d EXCEPT !.path = newPath]
      OBVIOUS
    <2>12. Separable(e) /\ e.path = newPath
      BY <2>3, <2>9, <2>10, <2>11 DEF Separable, Part
    <2> QED BY <2>1, <2>2, <2>7, <2>11, <2>12, Written
  <1> QED BY <1>1, <1>2

(* The working directory is one the server has confirmed, whatever the     *)
(* tree and the addresses, as long as CD is given no path with a "?":      *)
(* fullUri is read back, and a "?" in a name would end the path there      *)
(* (uriDetailsNewFrom, httpSiteSchemeWorkingDirectorySet).                 *)
THEOREM CwdConfirmed ==
    ASSUME NoQuery
    PROVE  Spec => []CwdServed
PROOF
  <1>1. Init => Mounted
    BY DEF Init, Mounted
  <1>2. BrowseInv /\ Mounted /\ [Next]_vars => Mounted'
    <2> SUFFICES ASSUME BrowseInv, Mounted, [Next]_vars PROVE Mounted'
      OBVIOUS
    <2>1. ASSUME NEW uri \in MountUri, httpSiteSchemeNew(uri) PROVE Mounted'
      BY <2>1, MountServes
    <2>2. ASSUME NEW path \in UserPath, httpSiteSchemeWorkingDirectorySet(path) PROVE Mounted'
      BY <2>2, CdServes
    <2>3. ASSUME UNCHANGED <<fullUri, home>> PROVE Mounted'
      BY <2>3 DEF Mounted
    <2>4. ASSUME NEW path \in UserPath, httpSiteSchemeDirectoryListingOpen(path) PROVE Mounted'
      BY <2>3, <2>4 DEF httpSiteSchemeDirectoryListingOpen
    <2>5. CASE \/ ListingWaitEnds \/ PrintDirectoryFilesDosLike \/ PrintDirectoryFilesUnixLike
               \/ httpSiteSchemeDirectoryListingClose \/ RemoveFile \/ Restart \/ UNCHANGED vars
      BY <2>3, <2>5 DEF ListingWaitEnds, PrintDirectoryFilesDosLike, PrintDirectoryFilesUnixLike,
                        httpSiteSchemeDirectoryListingClose, RemoveFile, Restart, vars
    <2> QED BY <2>1, <2>2, <2>4, <2>5 DEF Next
  <1>3. Mounted => CwdServed
    BY DEF Mounted, CwdServed, CurrentPath
  <1> QED BY <1>1, <1>2, <1>3, BrowseInvariant, PTL DEF Spec

=============================================================================
