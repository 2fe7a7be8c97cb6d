-------------------------------- MODULE Uri ---------------------------------
(***************************************************************************)
(* src/src/client/uri.c: the parts of a URI and the arithmetic of paths.   *)
(*                                                                         *)
(* A string is a sequence of characters.  A word in which nothing is ever  *)
(* looked for (a scheme, a host name, a run of letters) is one character.  *)
(* Positions count from 1; At is "" (the terminator) after the last one.   *)
(***************************************************************************)
EXTENDS Integers, Sequences, SequencesExt

CONSTANTS
    NULL,      \* a pointer to nothing
    Garbage    \* a character read from memory nobody wrote

Slash == <<"/">>

At(s, i) == IF i \in 1..Len(s) THEN s[i] ELSE ""

(* strchr and strstr from a position on: the position found, or 0.         *)
Positions(s, from, t) ==
    {i \in from..(Len(s) - Len(t) + 1) : SubSeq(s, i, i + Len(t) - 1) = t}

Find(s, from, t) ==
    LET P == Positions(s, from, t)
    IN  IF P = {} THEN 0 ELSE CHOOSE i \in P : \A j \in P : i <= j

From(s, i) == SubSeq(s, i, Len(s))
Upto(s, i) == SubSeq(s, 1, IF i < Len(s) THEN i ELSE Len(s))

-----------------------------------------------------------------------------
(* The parts of a URI.                                                     *)

NoDetails == [scheme |-> NULL, host |-> NULL, port |-> NULL, path |-> NULL, query |-> NULL]

(* uriDetailsNewFrom: the host ends at the first `:' or `/'; a port is     *)
(* only a port when the `:' is before the `/'; a query needs a path.       *)
uriDetailsNewFrom(uri) ==
    IF uri = NULL THEN NoDetails
    ELSE LET s == Find(uri, 1, <<":", "/", "/">>)
             q == IF s = 0 THEN uri ELSE From(uri, s + 3)
             p == Find(q, 1, Slash)
             c == Find(q, 1, <<":">>)
             hasPort == c > 0 /\ (p = 0 \/ c < p)
             mark == IF p = 0 THEN 0 ELSE Find(q, p, <<"?">>)
         IN  [scheme |-> IF s = 0 THEN NULL ELSE Upto(uri, s - 1),
              host   |-> IF hasPort THEN Upto(q, c - 1)
                         ELSE IF p > 0 THEN Upto(q, p - 1)
                         ELSE IF q = <<>> THEN NULL ELSE q,
              port   |-> IF ~hasPort THEN NULL
                         ELSE SubSeq(q, c + 1, IF p = 0 THEN Len(q) ELSE p - 1),
              path   |-> IF p = 0 THEN NULL
                         ELSE SubSeq(q, p, IF mark = 0 THEN Len(q) ELSE mark - 1),
              query  |-> IF mark = 0 THEN NULL ELSE From(q, mark + 1)]

Optional(mark, part) == IF part = NULL THEN <<>> ELSE mark \o part

uriDetailsCreateString(d) ==
    IF NULL \in {d.scheme, d.host, d.path} THEN NULL
    ELSE d.scheme \o <<":", "/", "/">> \o d.host \o Optional(<<":">>, d.port)
            \o d.path \o Optional(<<"?">>, d.query)

(* uriDetailsGetScheme: the port a scheme stands for; 0 when unknown.  The *)
(* cases of a four letter scheme fall into one another, so that two words  *)
(* that are no schemes pass for one.                                       *)
SchemePort ==
    [http |-> 80, https |-> 443, ftp |-> 21, ftps |-> 990, file |-> 1, fips |-> 990, fttp |-> 80]

uriDetailsGetScheme(d) ==
    IF d.scheme # NULL /\ Len(d.scheme) = 1 /\ d.scheme[1] \in DOMAIN SchemePort
    THEN SchemePort[d.scheme[1]] ELSE 0

(* uriDetailsGetPort: 0 for anything but the digits of an unsigned short.  *)
USHRT_MAX == 65535

Digit == {ToString(n) : n \in 0..9}
DigitValue(c) == CHOOSE n \in 0..9 : ToString(n) = c

uriDetailsGetPort(d) ==
    IF d.port = NULL THEN uriDetailsGetScheme(d)
    ELSE LET r == FoldLeft(LAMBDA n, c : IF n < 0 \/ c \notin Digit \/ n * 10 + DigitValue(c) > USHRT_MAX
                                         THEN -1 ELSE n * 10 + DigitValue(c),
                           0, d.port)
         IN  IF r < 0 THEN 0 ELSE r

(* uriDetailsCreateSocketAddress: the port to connect to, or 0 when the    *)
(* host does not resolve or there is no port.                              *)
uriDetailsCreateSocketAddress(d, known) ==
    IF d.host \notin known THEN 0
    ELSE IF d.port # NULL THEN uriDetailsGetPort(d) ELSE uriDetailsGetScheme(d)

(* uriDetailsCreateStringBase.                                             *)
uriDetailsCreateStringBase(d) ==
    IF d.scheme = NULL THEN NULL
    ELSE IF uriDetailsGetScheme(d) = SchemePort.file
    THEN <<"file", ":", "/", "/", "/">>
    ELSE IF d.host = NULL THEN NULL
    ELSE d.scheme \o <<":", "/", "/">> \o d.host \o Optional(<<":">>, d.port) \o Slash

-----------------------------------------------------------------------------
(* Paths.                                                                  *)

(* uriPathCombine: one divider between the two, whatever they end and      *)
(* begin with; a first path of one character gets none.                    *)
TrimRight(s) ==
    LET K == {i \in 2..Len(s) : s[i] # "/"}
    IN  IF K # {} THEN Upto(s, CHOOSE i \in K : \A j \in K : j <= i)
        ELSE IF s[1] = "/" THEN Slash ELSE s

TrimLeft(s) ==
    LET K == {i \in 1..Len(s) : s[i] # "/"}
    IN  IF K = {} THEN <<>> ELSE From(s, CHOOSE i \in K : \A j \in K : i <= j)

uriPathCombine(path1, path2) ==
    LET left == TrimRight(path1)
    IN  (IF Len(left) > 1 THEN left \o Slash ELSE left) \o TrimLeft(path2)

(* uriPathLast: what follows the last divider that is not at the end.      *)
uriPathLast(path) ==
    LET K == {i \in 1..Len(path) - 1 : path[i] = "/"}
        body == IF At(path, Len(path)) = "/" THEN Upto(path, Len(path) - 1) ELSE path
    IN  IF K = {} THEN NULL ELSE From(body, (CHOOSE i \in K : \A j \in K : j <= i) + 1)

(* JumpOverDotPaths: the length of the run "/./././" that begins here.     *)
JumpOverDotPaths(c, i) ==
    LET runs == {n \in 0..Len(c) - i + 1 :
                    \A k \in 0..n - 1 : c[i + k] = IF k % 2 = 0 THEN "/" ELSE "."}
    IN  CHOOSE n \in runs : \A m \in runs : m <= n

(* Mutant: the divider is searched for from the front.                     *)
DropFromFirst(r) ==
    LET p == Find(r, 1, Slash) IN IF p = 0 THEN <<>> ELSE Upto(r, p - 1)

(* Going up: drop the last component written, its divider included.        *)
DropLast(r) ==
    LET K == {i \in 1..Len(r) : r[i] = "/"}
    IN  IF K = {} THEN <<>> ELSE Upto(r, (CHOOSE i \in K : \A j \in K : j <= i) - 1)

(***************************************************************************)
(* One turn of the loop of uriPathAbsoluteAppend: i reads the combined     *)
(* path c, r is what has been written.  Every case ends by copying the     *)
(* character the read position has come to, or finishes.                   *)
(***************************************************************************)
AppendTurn(c, i, r) ==
    LET CopyTo(s, k) == [at |-> k + 1, out |-> Append(s, At(c, k))]
        Finish(s) == [at |-> Len(c) + 1, out |-> s]
        jump == i + JumpOverDotPaths(c, i)
        up == DropLast(r)
        after == i + 3
    IN  IF i > Len(c) THEN Finish(r)
        ELSE IF ~(At(c, i) = "/" /\ At(c, i + 1) = ".") THEN CopyTo(r, i)
        ELSE CASE At(c, i + 2) = "/" ->
                    IF jump > Len(c) THEN Finish(r)
                    ELSE IF At(c, jump) = "." /\ jump > 4 /\ c[jump - 1] = "." /\ c[jump - 2] = "/"
                    THEN CopyTo(r, jump - 3) ELSE CopyTo(r, jump - 1)
               [] At(c, i + 2) = "" -> Finish(r)
               [] At(c, i + 2) = "." /\ At(c, after) \in {"/", ""} ->
                    IF up = <<>> THEN Finish(IF r = <<>> THEN <<Garbage>> ELSE <<r[1]>>)
                    ELSE IF after > Len(c) THEN Finish(up)
                    ELSE IF At(c, after + 1) # "." THEN CopyTo(up, after)
                    ELSE IF At(c, after + 2) # "/" THEN CopyTo(up, after - 1)
                    ELSE CopyTo(up, after + JumpOverDotPaths(c, after) - 1)
               [] OTHER -> CopyTo(r, i)

(* The loop: no more turns than characters, since each moves on.           *)
AppendLoop(c) ==
    LET Turned[n \in 0..Len(c)] ==
            IF n = 0 THEN [at |-> 1, out |-> <<>>]
            ELSE AppendTurn(c, Turned[n - 1].at, Turned[n - 1].out)
    IN  Turned[Len(c)].out

(***************************************************************************)
(* uriPathAbsoluteAppend: the results a call may have.  The test for going *)
(* up from the trunk looks at append[3], past the end of "..": it may find *)
(* anything there.  Going up from the trunk in the loop counts a character *)
(* that was never written: a leftover divider, a terminator, or another.   *)
(***************************************************************************)
uriPathAbsoluteAppend(currentPath, append) ==
    LET r == AppendLoop(uriPathCombine(currentPath, append))
        resolved == IF At(currentPath, 1) # "/" THEN {NULL}
                    ELSE IF r = <<Garbage>> THEN {<<>>, Slash, r} ELSE {r}
        up == At(append, 1) = "." /\ At(append, 2) = "." /\ currentPath = Slash
    IN  IF At(append, 1) = "/" THEN {append}
        ELSE IF append = <<".">> THEN {currentPath}
        ELSE IF up /\ Len(append) = 2 THEN {Slash} \cup resolved
        ELSE IF up /\ At(append, 4) \in {"", "/"} THEN {Slash}
        ELSE resolved

-----------------------------------------------------------------------------
(* What a path names, for reference: its components without "." and empty  *)
(* ones, ".." taking the one before it away.                               *)
Split(s) ==
    LET Names[i \in 1..Len(s) + 1] ==
            LET p == Find(s, i, Slash)
            IN  IF p = 0 THEN <<From(s, i)>> ELSE <<SubSeq(s, i, p - 1)>> \o Names[p + 1]
    IN  Names[1]

Components(s) ==
    FoldLeft(LAMBDA names, n :
                IF n \in {<<>>, <<".">>} THEN names
                ELSE IF n = <<".", ".">> THEN Upto(names, Len(names) - 1)
                ELSE Append(names, n),
             <<>>, Split(s))

=============================================================================
