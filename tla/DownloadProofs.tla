--------------------------- MODULE DownloadProofs ---------------------------
(***************************************************************************)
(* What the download queue leaves on the disk, for queues and files of any *)
(* length, any block size and any number of commands and faults.           *)
(***************************************************************************)
EXTENDS Download, SequenceTheorems, TLAPS

-----------------------------------------------------------------------------
(* The inductive invariant, in named parts.                                *)

NoUpdate == \A i \in 1..Len(given) : given[i] # "UPDATE"

(* A request was sent and its header not been looked for yet.              *)
Fetching == pc \in {"statHeader", "header"}

(* Where an entry is while the queue is walked.                            *)
Walking ==
    /\ pc \notin {"idle", "entry"} => state[pos] = "QUEUED"
    /\ pc \in {"stat", "statHeader"} => cmd = "UPDATE"
    /\ NoUpdate => cmd # "UPDATE"
    /\ cmd = "START" /\ pc \in {"open", "header", "write"} => ~exists[pos]
    /\ Fetching => source[pos] = "http"

(* There is a header on the connection only between a request and the      *)
(* search for it, and what follows it is the body of that request.         *)
Wire ==
    /\ ~Fetching => HeaderAt = {}
    /\ Fetching => \A p \in HeaderAt :
                      /\ \A q \in p..Len(conn) : conn[q] = [req |-> req, at |-> q - p]
                      /\ link = "up" => Len(conn) = p + FileLen

(* Without UPDATE a connection that is used again is empty.                *)
Clean ==
    NoUpdate => IF Fetching THEN HeaderAt \subseteq {1} ELSE Reusable(rb) => conn = <<>>

(* How much of the body has left the buffer.                               *)
Consumed == rb.escape - Len(rb.buf)

(* The buffer and the connection continue the body where it was left.      *)
Body ==
    pc \in {"write", "copy"} /\ source[pos] = "http" =>
        /\ Consumed >= 0 /\ rb.total = FileLen /\ rb.mode \in {"known", "complete"}
        /\ rb.mode = "complete" <=> rb.escape = FileLen
        /\ rb.escape + Len(conn) <= FileLen
        /\ link = "up" => rb.escape + Len(conn) = FileLen
        /\ \A i \in 1..Len(rb.buf) : rb.buf[i] = [req |-> req, at |-> Consumed + i]
        /\ \A i \in 1..Len(conn) : conn[i] = [req |-> req, at |-> rb.escape + i]
        /\ pc = "write" => Consumed = 0
        /\ NoUpdate => header = <<[req |-> req, at |-> 0]>>

(* Bytes of response r, of its first n, in their order and none twice.      *)
OfResponse(d, r, n) ==
    \A i \in 1..Len(d) :
        /\ d[i].req = r /\ d[i].at \in 1..n
        /\ \A j \in 1..i - 1 : d[j].at < d[i].at

Gapless(d) == \A i \in 1..Len(d) : d[i].at = i

(* What left the buffer is in the file, unless a write was short.          *)
Copied ==
    pc = "copy" /\ source[pos] = "http" =>
        /\ Len(dest[pos]) <= Consumed /\ OfResponse(dest[pos], req, Consumed)
        /\ ~short[pos] => Len(dest[pos]) = Consumed /\ Gapless(dest[pos])
        /\ short[pos] => spoiled[pos]
        /\ ~spoiled[pos] => link = "up"

DInv ==
    /\ TypeOK /\ Walking /\ Wire /\ Clean /\ Body /\ Copied
    /\ OwnBytes /\ FinishedUnlessSpoiled

-----------------------------------------------------------------------------
(* Cutting and joining.                                                    *)

LEMMA FirstFacts ==
    ASSUME NEW S, NEW s \in Seq(S), NEW n \in 0..Len(s)
    PROVE  /\ First(s, n) \in Seq(S) /\ Len(First(s, n)) = n
           /\ \A i \in 1..n : First(s, n)[i] = s[i]
PROOF
  <1>1. Len(s) \in Nat /\ \A i \in 1..n : s[i] \in S
    BY LenProperties, ElementOfSeq
  <1>2. /\ SubSeq(s, 1, n) \in Seq(S) /\ Len(SubSeq(s, 1, n)) = (IF 1 <= n THEN n - 1 + 1 ELSE 0)
        /\ \A i \in 1..(n - 1 + 1) : SubSeq(s, 1, n)[i] = s[1 + i - 1]
    BY <1>1, SubSeqProperties
  <1> QED BY <1>1, <1>2 DEF First

LEMMA DropFacts ==
    ASSUME NEW S, NEW s \in Seq(S), NEW n \in 0..Len(s)
    PROVE  /\ Drop(s, n) \in Seq(S) /\ Len(Drop(s, n)) = Len(s) - n
           /\ \A i \in 1..(Len(s) - n) : Drop(s, n)[i] = s[n + i]
PROOF
  <1> DEFINE d == SubSeq(s, n + 1, Len(s))
  <1>1. Len(s) \in Nat /\ \A i \in (n + 1)..Len(s) : s[i] \in S
    BY LenProperties, ElementOfSeq
  <1>2. /\ d \in Seq(S) /\ Len(d) = (IF n + 1 <= Len(s) THEN Len(s) - (n + 1) + 1 ELSE 0)
        /\ \A i \in 1..(Len(s) - (n + 1) + 1) : d[i] = s[(n + 1) + i - 1]
    BY <1>1, SubSeqProperties
  <1> QED BY <1>1, <1>2 DEF Drop

LEMMA CutFacts ==
    ASSUME NEW S, NEW s \in Seq(S), NEW n \in 0..Len(s), NEW m \in n..Len(s)
    PROVE  /\ SubSeq(s, n + 1, m) \in Seq(S) /\ Len(SubSeq(s, n + 1, m)) = m - n
           /\ \A i \in 1..(m - n) : SubSeq(s, n + 1, m)[i] = s[n + i]
PROOF
  <1> DEFINE d == SubSeq(s, n + 1, m)
  <1>1. Len(s) \in Nat /\ \A i \in (n + 1)..m : s[i] \in S
    BY LenProperties, ElementOfSeq
  <1>2. /\ d \in Seq(S) /\ Len(d) = (IF n + 1 <= m THEN m - (n + 1) + 1 ELSE 0)
        /\ \A i \in 1..(m - (n + 1) + 1) : d[i] = s[(n + 1) + i - 1]
    BY <1>1, SubSeqProperties
  <1> QED BY <1>1, <1>2

LEMMA JoinFacts ==
    ASSUME NEW S, NEW s \in Seq(S), NEW t \in Seq(S)
    PROVE  /\ s \o t \in Seq(S) /\ Len(s \o t) = Len(s) + Len(t)
           /\ \A i \in 1..(Len(s) + Len(t)) : (s \o t)[i] = IF i <= Len(s) THEN s[i] ELSE t[i - Len(s)]
  BY ConcatProperties

LEMMA LeastFacts ==
    ASSUME NEW a \in Int, NEW b \in Int
    PROVE  Least(a, b) \in {a, b} /\ Least(a, b) <= a /\ Least(a, b) <= b
  BY DEF Least

-----------------------------------------------------------------------------
(* Steps that leave the connection alone.                                  *)

LEMMA NextFacts ==
    ASSUME TypeOK, NextEntry
    PROVE  pos' \in Entry /\ pc' \in {"entry", "idle"} /\ cmd' = cmd /\ given' = given
PROOF
  <1>1. N \in Nat \ {0} /\ pos \in 1..N
    BY DownloadAssumption DEF TypeOK, Entry
  <1> QED BY <1>1 DEF NextEntry, Entry

(* Files and results that do not change stay right.                        *)
LEMMA FilesSame ==
    ASSUME DInv, UNCHANGED <<dest, source, state, skipped, short>>,
           \A e \in Entry : spoiled[e] => spoiled'[e]
    PROVE  OwnBytes' /\ FinishedUnlessSpoiled'
PROOF
  <1>1. OwnBytes'
    BY DEF DInv, OwnBytes
  <1>2. FinishedUnlessSpoiled'
    BY DEF DInv, FinishedUnlessSpoiled, Complete
  <1> QED BY <1>1, <1>2

(* Between two requests only the connection matters.                       *)
LEMMA AtRest ==
    ASSUME TypeOK', Walking', pc' \notin {"statHeader", "header", "write", "copy"},
           HeaderAt' = {}, NoUpdate' /\ Reusable(rb)' => conn' = <<>>,
           OwnBytes', FinishedUnlessSpoiled'
    PROVE  DInv'
PROOF
  <1>1. ~Fetching'
    BY DEF Fetching
  <1>2. Wire' /\ Clean'
    BY <1>1 DEF Wire, Clean
  <1>3. Body' /\ Copied'
    BY DEF Body, Copied
  <1> QED BY <1>2, <1>3 DEF DInv

LEMMA InitHolds ==
    ASSUME Init PROVE DInv
PROOF
  <1>0. /\ cmd = "none" /\ pos = 1 /\ pc = "idle" /\ given = <<>>
        /\ state = [e \in Entry |-> "QUEUED"]
        /\ kind \in [Entry -> Kinds] /\ source \in [Entry -> Sources]
        /\ newer \in [Entry -> BOOLEAN] /\ exists \in [Entry -> BOOLEAN]
        /\ dest = [e \in Entry |-> IF exists[e] THEN Old ELSE <<>>]
        /\ rb = [buf |-> <<>>, mode |-> "unknown", escape |-> 0, total |-> 0]
        /\ conn = <<>> /\ link = "up" /\ req = 0 /\ faults = 0
        /\ short = [e \in Entry |-> FALSE]
        /\ skipped = [e \in Entry |-> FALSE] /\ spoiled = [e \in Entry |-> FALSE]
    BY DEF Init
  <1>1. N \in Nat \ {0} /\ FileLen \in Nat \ {0} /\ MaxFaults \in Nat
    BY DownloadAssumption
  <1>2. Old \in Seq(Element) /\ <<>> \in Seq(Element) /\ <<>> \in Seq(Commands)
    <2>1. [req |-> 0, at |-> 1] \in Element
      BY <1>1 DEF Element
    <2> QED BY <2>1 DEF Old
  <1>3. dest \in [Entry -> Seq(Element)] /\ \A e \in Entry : dest[e] \in {Old, <<>>}
    BY <1>0, <1>2
  <1>4. TypeOK
    <2>1. pos \in Entry /\ faults \in 0..MaxFaults
      BY <1>0, <1>1 DEF Entry
    <2>2. rb \in [buf : Seq(Element), escape : Nat, total : Nat,
                  mode : {"unknown", "token", "known", "chunk", "complete"}]
      BY <1>0, <1>2
    <2> QED BY <1>0, <1>2, <1>3, <2>1, <2>2 DEF TypeOK
  <1>5. Walking
    BY <1>0 DEF Walking, Fetching
  <1>6. ~Fetching /\ HeaderAt = {}
    BY <1>0 DEF Fetching, HeaderAt
  <1>7. Wire /\ Clean
    BY <1>0, <1>6 DEF Wire, Clean
  <1>8. Body /\ Copied
    BY <1>0 DEF Body, Copied
  <1>9. OwnBytes
    <2>1. Len(<<>>) = 0
      OBVIOUS
    <2> QED BY <1>1, <1>3, <2>1 DEF OwnBytes
  <1>10. FinishedUnlessSpoiled
    BY <1>0 DEF FinishedUnlessSpoiled
  <1> QED BY <1>4, <1>5, <1>7, <1>8, <1>9, <1>10 DEF DInv

LEMMA CommandStep ==
    ASSUME DInv, Command PROVE DInv'
PROOF
  <1>0. /\ pc = "idle" /\ cmd' \in Commands /\ given' = Append(given, cmd') /\ pos' = 1 /\ pc' = "entry"
        /\ UNCHANGED <<state, skipped, kind, source, newer, exists, dest, short, rb, conn, link, req,
                       header, faults, spoiled>>
    BY DEF Command, fixedVars, fileVars, netVars
  <1>1. TypeOK /\ Walking /\ Wire /\ Clean
    BY DEF DInv
  <1>2. pos' \in Entry /\ given' \in Seq(Commands)
    <2>1. N \in Nat \ {0} /\ given \in Seq(Commands)
      BY <1>1, DownloadAssumption DEF TypeOK
    <2> QED BY <1>0, <2>1, AppendProperties DEF Entry
  <1>3. TypeOK'
    BY <1>0, <1>1, <1>2 DEF TypeOK
  <1>4. NoUpdate' => NoUpdate /\ cmd' # "UPDATE"
    <2>1. given \in Seq(Commands) /\ Len(given) \in Nat
      BY <1>1, LenProperties DEF TypeOK
    <2>2. /\ Len(given') = Len(given) + 1 /\ given'[Len(given) + 1] = cmd'
          /\ \A i \in 1..Len(given) : given'[i] = given[i]
      BY <1>0, <2>1, AppendProperties
    <2> QED BY <2>1, <2>2 DEF NoUpdate
  <1>5. Walking'
    BY <1>0, <1>4 DEF Walking, Fetching
  <1>6. ~Fetching /\ HeaderAt = {} /\ HeaderAt' = HeaderAt
    BY <1>0, <1>1 DEF Fetching, Wire, HeaderAt
  <1>7. NoUpdate' /\ Reusable(rb)' => conn' = <<>>
    BY <1>0, <1>1, <1>4, <1>6 DEF Clean, Reusable
  <1>8. OwnBytes' /\ FinishedUnlessSpoiled'
    BY <1>0, FilesSame
  <1> QED BY <1>0, <1>3, <1>5, <1>6, <1>7, <1>8, AtRest

(* UPDATE compares the dates: it skips the entry or opens its source.      *)
LEMMA CompareFacts ==
    ASSUME DInv, pc \in {"stat", "statHeader"}, CompareDates,
           UNCHANGED <<kind, source, newer, exists, dest, short, faults, spoiled>>
    PROVE  /\ pos' \in Entry /\ pc' \in {"entry", "idle", "open"} /\ cmd' = cmd /\ given' = given
           /\ state' \in [Entry -> {"QUEUED", "FINISHED", "FAILED"}]
           /\ skipped' \in [Entry -> BOOLEAN]
           /\ Walking' /\ (NoUpdate' <=> NoUpdate)
           /\ OwnBytes' /\ FinishedUnlessSpoiled'
PROOF
  <1>0. TypeOK /\ Walking /\ OwnBytes /\ FinishedUnlessSpoiled
    BY DEF DInv
  <1>1. CASE newer[pos]
    <2>1. /\ state' = [state EXCEPT ![pos] = "FINISHED"]
          /\ skipped' = [skipped EXCEPT ![pos] = TRUE] /\ NextEntry
      BY <1>1 DEF CompareDates
    <2>2. pos' \in Entry /\ pc' \in {"entry", "idle"} /\ cmd' = cmd /\ given' = given
      BY <1>0, <2>1, NextFacts
    <2>3. /\ state' \in [Entry -> {"QUEUED", "FINISHED", "FAILED"}]
          /\ skipped' \in [Entry -> BOOLEAN]
      BY <1>0, <2>1 DEF TypeOK
    <2>4. Walking' /\ (NoUpdate' <=> NoUpdate)
      BY <1>0, <2>2 DEF Walking, Fetching, NoUpdate
    <2>5. OwnBytes'
      BY <1>0 DEF OwnBytes
    <2>6. FinishedUnlessSpoiled'
      <3>1. SUFFICES ASSUME NEW e \in Entry, state'[e] = "FINISHED", ~skipped'[e], source'[e] = "http"
                     PROVE  Complete(e)' \/ spoiled'[e]
        BY DEF FinishedUnlessSpoiled
      <3>2. e # pos
        BY <1>0, <2>1, <3>1 DEF TypeOK
      <3>3. state[e] = "FINISHED" /\ ~skipped[e] /\ source[e] = "http"
        BY <1>0, <2>1, <3>1, <3>2 DEF TypeOK
      <3> QED BY <1>0, <3>3 DEF FinishedUnlessSpoiled, Complete
    <2> QED BY <2>2, <2>3, <2>4, <2>5, <2>6
  <1>2. CASE ~newer[pos]
    <2>1. pc' = "open" /\ UNCHANGED <<cmd, pos, given, state, skipped>>
      BY <1>2 DEF CompareDates, Goto
    <2>2. Walking' /\ (NoUpdate' <=> NoUpdate)
      BY <1>0, <2>1 DEF Walking, Fetching, NoUpdate
    <2>3. OwnBytes' /\ FinishedUnlessSpoiled'
      BY <2>1, FilesSame
    <2> QED BY <1>0, <2>1, <2>2, <2>3 DEF TypeOK
  <1> QED BY <1>1, <1>2

LEMMA EntryStep ==
    ASSUME DInv, DownloadEntry PROVE DInv'
PROOF
  <1>0. /\ pc = "entry"
        /\ UNCHANGED <<state, skipped, kind, source, newer, exists, dest, short, rb, conn, link, req,
                       header, faults, spoiled>>
    BY DEF DownloadEntry, fixedVars, fileVars, netVars
  <1>1. TypeOK /\ Walking /\ Wire /\ Clean
    BY DEF DInv
  <1>2. /\ pos' \in Entry /\ pc' \in {"entry", "idle", "stat", "open"} /\ cmd' = cmd /\ given' = given
        /\ pc' \in {"stat", "open"} =>
              /\ pos' = pos /\ state[pos] = "QUEUED" /\ ~(cmd = "START" /\ exists[pos])
              /\ pc' = "stat" => cmd = "UPDATE"
    <2>1. CASE state[pos] # "QUEUED" \/ (cmd = "START" /\ exists[pos])
      <3>1. NextEntry
        BY <2>1 DEF DownloadEntry
      <3> QED BY <1>1, <3>1, NextFacts
    <2>2. CASE ~(state[pos] # "QUEUED" \/ (cmd = "START" /\ exists[pos]))
      <3>1. Goto(IF cmd = "UPDATE" /\ exists[pos] THEN "stat" ELSE "open")
        BY <2>2 DEF DownloadEntry
      <3> QED BY <1>1, <2>2, <3>1 DEF Goto, TypeOK
    <2> QED BY <2>1, <2>2
  <1>3. TypeOK'
    BY <1>0, <1>1, <1>2 DEF TypeOK
  <1>4. NoUpdate' <=> NoUpdate
    BY <1>2 DEF NoUpdate
  <1>5. Walking'
    BY <1>0, <1>1, <1>2, <1>4 DEF Walking, Fetching
  <1>6. ~Fetching /\ HeaderAt = {} /\ HeaderAt' = HeaderAt
    BY <1>0, <1>1 DEF Fetching, Wire, HeaderAt
  <1>7. NoUpdate' /\ Reusable(rb)' => conn' = <<>>
    BY <1>0, <1>1, <1>4, <1>6 DEF Clean, Reusable
  <1>8. OwnBytes' /\ FinishedUnlessSpoiled'
    BY <1>0, FilesSame
  <1> QED BY <1>2, <1>3, <1>5, <1>6, <1>7, <1>8, AtRest

LEMMA StatLocalStep ==
    ASSUME DInv, StatLocal PROVE DInv'
PROOF
  <1>0. /\ pc = "stat" /\ CompareDates
        /\ UNCHANGED <<kind, source, newer, exists, dest, short, rb, conn, link, req, header, faults,
                       spoiled>>
    BY DEF StatLocal, fixedVars, fileVars, netVars
  <1>1. TypeOK /\ Wire /\ Clean
    BY DEF DInv
  <1>2. /\ pos' \in Entry /\ pc' \in {"entry", "idle", "open"} /\ cmd' = cmd /\ given' = given
        /\ state' \in [Entry -> {"QUEUED", "FINISHED", "FAILED"}]
        /\ skipped' \in [Entry -> BOOLEAN]
        /\ Walking' /\ (NoUpdate' <=> NoUpdate)
        /\ OwnBytes' /\ FinishedUnlessSpoiled'
    BY <1>0, CompareFacts
  <1>3. TypeOK'
    BY <1>0, <1>1, <1>2 DEF TypeOK
  <1>4. ~Fetching /\ HeaderAt = {} /\ HeaderAt' = HeaderAt
    BY <1>0, <1>1 DEF Fetching, Wire, HeaderAt
  <1>5. NoUpdate' /\ Reusable(rb)' => conn' = <<>>
    BY <1>0, <1>1, <1>2, <1>4 DEF Clean, Reusable
  <1> QED BY <1>2, <1>3, <1>4, <1>5, AtRest

LEMMA OpenLocalStep ==
    ASSUME DInv, OpenLocal PROVE DInv'
PROOF
  <1>0. /\ pc = "open" /\ source[pos] = "file"
        /\ UNCHANGED <<state, skipped, kind, source, newer, exists, dest, short, rb, conn, link, req,
                       header, faults, spoiled>>
    BY DEF OpenLocal, fixedVars, fileVars, netVars
  <1>1. TypeOK /\ Walking /\ Wire /\ Clean
    BY DEF DInv
  <1>2. /\ pos' \in Entry /\ pc' \in {"entry", "idle", "write"} /\ cmd' = cmd /\ given' = given
        /\ pc' = "write" => pos' = pos
    <2>1. CASE kind[pos] = "file"
      BY <1>0, <1>1, <2>1 DEF OpenLocal, Goto, TypeOK
    <2>2. CASE kind[pos] # "file"
      <3>1. NextEntry
        BY <2>2 DEF OpenLocal
      <3> QED BY <1>1, <3>1, NextFacts
    <2> QED BY <2>1, <2>2
  <1>3. TypeOK'
    BY <1>0, <1>1, <1>2 DEF TypeOK
  <1>4. NoUpdate' <=> NoUpdate
    BY <1>2 DEF NoUpdate
  <1>5. Walking'
    BY <1>0, <1>1, <1>2, <1>4 DEF Walking, Fetching
  <1>6. ~Fetching /\ HeaderAt = {} /\ HeaderAt' = HeaderAt /\ ~Fetching'
    BY <1>0, <1>1, <1>2 DEF Fetching, Wire, HeaderAt
  <1>7. NoUpdate' /\ Reusable(rb)' => conn' = <<>>
    BY <1>0, <1>1, <1>4, <1>6 DEF Clean, Reusable
  <1>8. OwnBytes' /\ FinishedUnlessSpoiled'
    BY <1>0, FilesSame
  <1>9. Wire' /\ Clean'
    BY <1>6, <1>7 DEF Wire, Clean
  <1>10. Body' /\ Copied'
    BY <1>0, <1>2 DEF Body, Copied
  <1> QED BY <1>3, <1>5, <1>8, <1>9, <1>10 DEF DInv

(* A result that is right for the entry under way is right for all.        *)
LEMMA Concluded ==
    ASSUME DInv, pc \notin {"idle", "entry"}, NEW result \in {"FINISHED", "FAILED"},
           Conclude(result),
           UNCHANGED <<dest, source, skipped, exists, short>>,
           \A e \in Entry : spoiled[e] => spoiled'[e],
           result = "FINISHED" /\ source[pos] = "http" => Complete(pos) \/ spoiled[pos]
    PROVE  /\ pos' \in Entry /\ pc' \in {"entry", "idle"} /\ cmd' = cmd /\ given' = given
           /\ state' \in [Entry -> {"QUEUED", "FINISHED", "FAILED"}]
           /\ Walking' /\ (NoUpdate' <=> NoUpdate)
           /\ OwnBytes' /\ FinishedUnlessSpoiled'
PROOF
  <1>0. TypeOK /\ Walking /\ OwnBytes /\ FinishedUnlessSpoiled
    BY DEF DInv
  <1>1. state' = [state EXCEPT ![pos] = result] /\ NextEntry
    BY DEF Conclude
  <1>2. pos' \in Entry /\ pc' \in {"entry", "idle"} /\ cmd' = cmd /\ given' = given
    BY <1>0, <1>1, NextFacts
  <1>3. state' \in [Entry -> {"QUEUED", "FINISHED", "FAILED"}]
    BY <1>0, <1>1 DEF TypeOK
  <1>4. Walking' /\ (NoUpdate' <=> NoUpdate)
    BY <1>0, <1>2 DEF Walking, Fetching, NoUpdate
  <1>5. OwnBytes'
    BY <1>0 DEF OwnBytes
  <1>6. FinishedUnlessSpoiled'
    <2>1. SUFFICES ASSUME NEW e \in Entry, state'[e] = "FINISHED", ~skipped[e], source[e] = "http"
                   PROVE  Complete(e) \/ spoiled'[e]
      BY DEF FinishedUnlessSpoiled, Complete
    <2>2. CASE e = pos
      <3>1. result = "FINISHED"
        BY <1>0, <1>1, <2>1, <2>2 DEF TypeOK
      <3> QED BY <2>1, <2>2, <3>1
    <2>3. CASE e # pos
      <3>1. state[e] = "FINISHED"
        BY <1>0, <1>1, <2>1, <2>3 DEF TypeOK
      <3> QED BY <1>0, <2>1, <3>1 DEF FinishedUnlessSpoiled
    <2> QED BY <2>2, <2>3
  <1> QED BY <1>2, <1>3, <1>4, <1>5, <1>6

LEMMA CopyLocalStep ==
    ASSUME DInv, CopyLocal PROVE DInv'
PROOF
  <1>0. /\ pc = "copy" /\ source[pos] = "file" /\ Conclude("FINISHED")
        /\ UNCHANGED <<skipped, kind, source, newer, exists, dest, short, rb, conn, link, req,
                       header, faults, spoiled>>
    BY DEF CopyLocal, fixedVars, fileVars, netVars
  <1>1. TypeOK /\ Wire /\ Clean
    BY DEF DInv
  <1>2. /\ pos' \in Entry /\ pc' \in {"entry", "idle"} /\ cmd' = cmd /\ given' = given
        /\ state' \in [Entry -> {"QUEUED", "FINISHED", "FAILED"}]
        /\ Walking' /\ (NoUpdate' <=> NoUpdate)
        /\ OwnBytes' /\ FinishedUnlessSpoiled'
    BY <1>0, Concluded
  <1>3. TypeOK'
    BY <1>0, <1>1, <1>2 DEF TypeOK
  <1>4. ~Fetching /\ HeaderAt = {} /\ HeaderAt' = HeaderAt
    BY <1>0, <1>1 DEF Fetching, Wire, HeaderAt
  <1>5. NoUpdate' /\ Reusable(rb)' => conn' = <<>>
    BY <1>0, <1>1, <1>2, <1>4 DEF Clean, Reusable
  <1> QED BY <1>2, <1>3, <1>4, <1>5, AtRest

-----------------------------------------------------------------------------
(* Sending.                                                                *)

LEMMA ResponseFacts ==
    ASSUME NEW n \in Nat
    PROVE  /\ Response(n) \in Seq(Element) /\ Len(Response(n)) = 1 + FileLen
           /\ \A i \in 1..(1 + FileLen) : Response(n)[i] = [req |-> n, at |-> i - 1]
PROOF
  <1>1. FileLen \in Nat /\ 1 + FileLen \in Nat
    BY DownloadAssumption
  <1>2. \A i \in 1..(1 + FileLen) : [req |-> n, at |-> i - 1] \in Element
    BY <1>1 DEF Element
  <1>3. Response(n) \in [1..(1 + FileLen) -> Element]
    BY <1>2 DEF Response
  <1>4. Response(n) \in Seq(Element) /\ Len(Response(n)) = 1 + FileLen
    BY <1>1, <1>3
  <1> QED BY <1>4 DEF Response

(* A header on the connection begins the response to the last request.     *)
FollowsHeader(line, up, n) ==
    \A p \in 1..Len(line) : line[p].at = 0 =>
        /\ \A q \in p..Len(line) : line[q] = [req |-> n, at |-> q - p]
        /\ up = "up" => Len(line) = p + FileLen

LEMMA ResponseFollows ==
    ASSUME NEW n \in Nat, NEW s \in Seq(Element), \A i \in 1..Len(s) : s[i].at # 0, NEW up
    PROVE  /\ s \o Response(n) \in Seq(Element) /\ FollowsHeader(s \o Response(n), up, n)
           /\ \A p \in 1..Len(s \o Response(n)) : (s \o Response(n))[p].at = 0 => p = Len(s) + 1
PROOF
  <1> DEFINE r == Response(n)
             t == s \o r
  <1>1. /\ r \in Seq(Element) /\ Len(r) = 1 + FileLen
        /\ \A i \in 1..(1 + FileLen) : r[i] = [req |-> n, at |-> i - 1]
    BY ResponseFacts
  <1>2. FileLen \in Nat /\ Len(s) \in Nat
    BY DownloadAssumption, LenProperties
  <1> HIDE DEF r
  <1>3. /\ t \in Seq(Element) /\ Len(t) = Len(s) + Len(r)
        /\ \A i \in 1..(Len(s) + Len(r)) : t[i] = IF i <= Len(s) THEN s[i] ELSE r[i - Len(s)]
    BY <1>1, JoinFacts
  <1> HIDE DEF t
  <1>4. \A q \in 1..Len(t) : q > Len(s) => t[q] = [req |-> n, at |-> q - Len(s) - 1]
    <2>1. SUFFICES ASSUME NEW q \in 1..Len(t), q > Len(s)
                   PROVE  t[q] = [req |-> n, at |-> q - Len(s) - 1]
      OBVIOUS
    <2>2. q - Len(s) \in 1..(1 + FileLen) /\ t[q] = r[q - Len(s)]
      BY <1>1, <1>2, <1>3, <2>1
    <2>3. r[q - Len(s)] = [req |-> n, at |-> (q - Len(s)) - 1] /\ (q - Len(s)) - 1 = q - Len(s) - 1
      BY <1>1, <2>2
    <2> QED BY <2>2, <2>3
  <1>5. ASSUME NEW p \in 1..Len(t), t[p].at = 0
        PROVE  /\ p = Len(s) + 1 /\ Len(t) = p + FileLen
               /\ \A q \in p..Len(t) : t[q] = [req |-> n, at |-> q - p]
    <2>1. p > Len(s)
      BY <1>1, <1>2, <1>3, <1>5
    <2>2. p - Len(s) - 1 = 0
      <3>1. t[p] = [req |-> n, at |-> p - Len(s) - 1]
        BY <1>4, <1>5, <2>1
      <3>2. t[p].at = p - Len(s) - 1
        BY <3>1
      <3> QED BY <1>5, <3>2
    <2>3. p = Len(s) + 1
      BY <1>2, <2>2
    <2>4. Len(t) = p + FileLen
      BY <1>1, <1>2, <1>3, <2>3
    <2>5. ASSUME NEW q \in p..Len(t) PROVE t[q] = [req |-> n, at |-> q - p]
      <3>1. q \in 1..Len(t) /\ q > Len(s) /\ q - Len(s) - 1 = q - p
        BY <1>2, <2>3
      <3> QED BY <1>4, <3>1
    <2> QED BY <2>3, <2>4, <2>5
  <1>6. FollowsHeader(t, up, n)
    BY <1>5 DEF FollowsHeader
  <1> QED BY <1>3, <1>5, <1>6 DEF t, r

LEMMA SendFacts ==
    ASSUME DInv, ~Fetching, recvBufferSend(TRUE, TRUE)
    PROVE  /\ rb' \in [buf : Seq(Element), escape : Nat, total : Nat,
                       mode : {"unknown", "token", "known", "chunk", "complete"}]
           /\ conn' \in Seq(Element) /\ link' \in {"up", "fin", "rst"} /\ req' \in Nat
           /\ faults' \in 0..MaxFaults
           /\ FollowsHeader(conn', link', req')
           /\ NoUpdate => \A p \in 1..Len(conn') : conn'[p].at = 0 => p = 1
PROOF
  <1> DEFINE fresh == [rb EXCEPT !.buf = <<>>, !.mode = "unknown", !.escape = 0]
             n == req + 1
             none == <<>>
  <1>0. TypeOK /\ Wire /\ Clean
    BY DEF DInv
  <1>1. conn \in Seq(Element) /\ \A i \in 1..Len(conn) : conn[i].at # 0
    BY <1>0 DEF Wire, HeaderAt, TypeOK
  <1>2. n \in Nat /\ req' = n /\ rb' = fresh
    BY <1>0 DEF recvBufferSend, SendOn, TypeOK
  <1>3. fresh \in [buf : Seq(Element), escape : Nat, total : Nat,
                   mode : {"unknown", "token", "known", "chunk", "complete"}]
    <2>1. rb \in [buf : Seq(Element), escape : Nat, total : Nat,
                  mode : {"unknown", "token", "known", "chunk", "complete"}]
      BY <1>0 DEF TypeOK
    <2>2. <<>> \in Seq(Element)
      OBVIOUS
    <2> QED BY <2>1, <2>2
  <1>4. link' \in {"up", "fin", "rst"} /\ faults' \in 0..MaxFaults
    <2>1. faults \in 0..MaxFaults /\ MaxFaults \in Nat
      BY <1>0, DownloadAssumption DEF TypeOK
    <2>2. link' \in {"up", "fin", "rst"}
      BY DEF recvBufferSend, SendOn
    <2>3. faults' = faults \/ (faults < MaxFaults /\ faults' = faults + 1)
      BY DEF recvBufferSend
    <2> QED BY <2>1, <2>2, <2>3
  <1>5. \/ conn' = conn \o Response(n) /\ Reusable(rb)
        \/ conn' = conn
        \/ conn' = Response(n)
        \/ conn' = none
    BY DEF recvBufferSend, SendOn
  <1>6. /\ none \in Seq(Element) /\ Len(none) = 0
        /\ Response(n) = none \o Response(n)
    BY <1>2, ResponseFacts, ConcatEmptySeq
  <1> HIDE DEF n, fresh, none
  <1>7. CASE conn' = conn \o Response(n) /\ Reusable(rb)
    <2>1. /\ conn' \in Seq(Element) /\ FollowsHeader(conn', link', n)
          /\ \A p \in 1..Len(conn') : conn'[p].at = 0 => p = Len(conn) + 1
      BY <1>1, <1>2, <1>7, ResponseFollows
    <2>2. NoUpdate => Len(conn) = 0
      BY <1>0, <1>7 DEF Clean
    <2> QED BY <1>2, <1>3, <1>4, <2>1, <2>2
  <1>8. CASE conn' = conn
    <2>1. FollowsHeader(conn', link', n)
      BY <1>1, <1>8 DEF FollowsHeader
    <2> QED BY <1>1, <1>2, <1>3, <1>4, <1>8, <2>1
  <1>9. CASE conn' = Response(n)
    <2>1. \A i \in 1..Len(none) : none[i].at # 0
      BY <1>6
    <2>2. /\ none \o Response(n) \in Seq(Element) /\ FollowsHeader(none \o Response(n), link', n)
          /\ \A p \in 1..Len(none \o Response(n)) :
                (none \o Response(n))[p].at = 0 => p = Len(none) + 1
      BY <1>2, <1>6, <2>1, ResponseFollows
    <2>3. /\ conn' \in Seq(Element) /\ FollowsHeader(conn', link', n)
          /\ \A p \in 1..Len(conn') : conn'[p].at = 0 => p = 1
      BY <1>6, <1>9, <2>2
    <2> QED BY <1>2, <1>3, <1>4, <2>3
  <1>10. CASE conn' = none
    <2>1. FollowsHeader(conn', link', n)
      BY <1>6, <1>10 DEF FollowsHeader
    <2> QED BY <1>2, <1>3, <1>4, <1>6, <1>10, <2>1
  <1> QED BY <1>5, <1>7, <1>8, <1>9, <1>10

(* The wire as the invariant states it.                                    *)
LEMMA WireSent ==
    ASSUME Fetching', FollowsHeader(conn', link', req'),
           NoUpdate' => \A p \in 1..Len(conn') : conn'[p].at = 0 => p = 1
    PROVE  Wire' /\ Clean'
  BY DEF Wire, Clean, HeaderAt, FollowsHeader

LEMMA Nothing == conn' = <<>> => HeaderAt' = {}
  BY DEF HeaderAt

LEMMA StatSendStep ==
    ASSUME DInv, StatSend PROVE DInv'
PROOF
  <1>0. /\ pc = "stat" /\ source[pos] = "http"
        /\ UNCHANGED <<state, skipped, header, kind, source, newer, exists, dest, short, spoiled>>
        /\ recvBufferSend(Goto("statHeader"), Goto("open"))
    BY DEF StatSend, fixedVars, fileVars
  <1>1. TypeOK /\ Walking /\ ~Fetching
    BY <1>0 DEF DInv, Fetching
  <1>2. recvBufferSend(TRUE, TRUE)
    BY <1>0 DEF recvBufferSend
  <1>3. Goto("statHeader") \/ (Goto("open") /\ conn' = <<>>)
    BY <1>0 DEF recvBufferSend, SendOn
  <1>4. /\ UNCHANGED <<cmd, pos, given>>
        /\ pc' = "statHeader" \/ (pc' = "open" /\ conn' = <<>>)
    BY <1>3 DEF Goto
  <1>5. /\ rb' \in [buf : Seq(Element), escape : Nat, total : Nat,
                    mode : {"unknown", "token", "known", "chunk", "complete"}]
        /\ conn' \in Seq(Element) /\ link' \in {"up", "fin", "rst"} /\ req' \in Nat
        /\ faults' \in 0..MaxFaults
        /\ FollowsHeader(conn', link', req')
        /\ NoUpdate => \A p \in 1..Len(conn') : conn'[p].at = 0 => p = 1
    BY <1>1, <1>2, SendFacts
  <1>6. TypeOK'
    BY <1>0, <1>1, <1>4, <1>5 DEF TypeOK
  <1>7. NoUpdate' <=> NoUpdate
    BY <1>4 DEF NoUpdate
  <1>8. Walking'
    BY <1>0, <1>1, <1>4, <1>7 DEF Walking, Fetching
  <1>9. OwnBytes' /\ FinishedUnlessSpoiled'
    BY <1>0, FilesSame
  <1>10. CASE pc' = "statHeader"
    <2>1. Wire' /\ Clean'
      BY <1>5, <1>7, <1>10, WireSent DEF Fetching
    <2>2. Body' /\ Copied'
      BY <1>10 DEF Body, Copied
    <2> QED BY <1>6, <1>8, <1>9, <2>1, <2>2 DEF DInv
  <1>11. CASE pc' = "open" /\ conn' = <<>>
    BY <1>6, <1>8, <1>9, <1>11, Nothing, AtRest
  <1> QED BY <1>4, <1>10, <1>11

LEMMA OpenSendStep ==
    ASSUME DInv, OpenSend PROVE DInv'
PROOF
  <1>0. /\ pc = "open" /\ source[pos] = "http"
        /\ UNCHANGED <<state, skipped, header, kind, source, newer, exists, dest, short, spoiled>>
        /\ recvBufferSend(Goto("header"), NextEntry)
    BY DEF OpenSend, fixedVars, fileVars
  <1>1. TypeOK /\ Walking /\ ~Fetching
    BY <1>0 DEF DInv, Fetching
  <1>2. recvBufferSend(TRUE, TRUE)
    BY <1>0 DEF recvBufferSend
  <1>3. Goto("header") \/ (NextEntry /\ conn' = <<>>)
    BY <1>0 DEF recvBufferSend, SendOn
  <1>4. /\ cmd' = cmd /\ given' = given /\ pos' \in Entry
        /\ \/ pc' = "header" /\ pos' = pos
           \/ pc' \in {"entry", "idle"} /\ conn' = <<>>
    BY <1>1, <1>3, NextFacts DEF Goto, TypeOK
  <1>5. /\ rb' \in [buf : Seq(Element), escape : Nat, total : Nat,
                    mode : {"unknown", "token", "known", "chunk", "complete"}]
        /\ conn' \in Seq(Element) /\ link' \in {"up", "fin", "rst"} /\ req' \in Nat
        /\ faults' \in 0..MaxFaults
        /\ FollowsHeader(conn', link', req')
        /\ NoUpdate => \A p \in 1..Len(conn') : conn'[p].at = 0 => p = 1
    BY <1>1, <1>2, SendFacts
  <1>6. TypeOK'
    BY <1>0, <1>1, <1>4, <1>5 DEF TypeOK
  <1>7. NoUpdate' <=> NoUpdate
    BY <1>4 DEF NoUpdate
  <1>8. Walking'
    BY <1>0, <1>1, <1>4, <1>7 DEF Walking, Fetching
  <1>9. OwnBytes' /\ FinishedUnlessSpoiled'
    BY <1>0, FilesSame
  <1>10. CASE pc' = "header"
    <2>1. Wire' /\ Clean'
      BY <1>5, <1>7, <1>10, WireSent DEF Fetching
    <2>2. Body' /\ Copied'
      BY <1>10 DEF Body, Copied
    <2> QED BY <1>6, <1>8, <1>9, <2>1, <2>2 DEF DInv
  <1>11. CASE pc' \in {"entry", "idle"} /\ conn' = <<>>
    BY <1>6, <1>8, <1>9, <1>11, Nothing, AtRest
  <1> QED BY <1>4, <1>10, <1>11

-----------------------------------------------------------------------------
(* The header.                                                             *)

(* There is one header at most, and behind it the body of its request.     *)
LEMMA HeaderFacts ==
    ASSUME DInv, Fetching, HeaderFound, NEW k \in HeaderReads, ReadHeader(k)
    PROVE  /\ conn' \in Seq(Element) /\ link' = link /\ req' = req
           /\ BehindHeader(k) \in Seq(Element)
           /\ \A i \in 1..Len(BehindHeader(k)) : BehindHeader(k)[i] = [req |-> req, at |-> i]
           /\ \A i \in 1..Len(conn') : conn'[i] = [req |-> req, at |-> Len(BehindHeader(k)) + i]
           /\ Len(BehindHeader(k)) + Len(conn') <= FileLen
           /\ link = "up" => Len(BehindHeader(k)) + Len(conn') = FileLen
           /\ NoUpdate => header' = <<[req |-> req, at |-> 0]>>
PROOF
  <1> DEFINE p == FirstHeader
             b == BehindHeader(k)
  <1>0. /\ conn \in Seq(Element) /\ Len(conn) \in Nat /\ FileLen \in Nat /\ SB_DATA_SIZE \in Nat \ {0}
        /\ \A i \in 1..Len(conn) : conn[i] \in Element
    BY DownloadAssumption, LenProperties, ElementOfSeq DEF DInv, TypeOK
  <1>1. \A x \in HeaderAt : /\ x \in 1..Len(conn) /\ conn[x].at = 0
                            /\ \A q \in x..Len(conn) : conn[q] = [req |-> req, at |-> q - x]
                            /\ link = "up" => Len(conn) = x + FileLen
    BY DEF DInv, Wire, HeaderAt
  <1>2. \A x, y \in HeaderAt : x <= y
    <2>1. SUFFICES ASSUME NEW x \in HeaderAt, NEW y \in HeaderAt, y < x PROVE FALSE
      BY <1>0, <1>1
    <2>2. conn[x] = [req |-> req, at |-> x - y]
      BY <1>0, <1>1, <2>1
    <2>3. conn[x].at = x - y
      BY <2>2
    <2> QED BY <1>0, <1>1, <2>1, <2>3
  <1>3. p \in HeaderAt
    <2>1. \E x \in HeaderAt : \A y \in HeaderAt : x <= y
      BY <1>2 DEF HeaderFound
    <2> QED BY <2>1 DEF FirstHeader
  <1>4. /\ p \in 1..Len(conn) /\ conn[p].at = 0
        /\ \A q \in p..Len(conn) : conn[q] = [req |-> req, at |-> q - p]
        /\ link = "up" => Len(conn) = p + FileLen
    BY <1>1, <1>3
  <1> HIDE DEF p
  <1>5. k \in p..Len(conn)
    <2>1. Least(Len(conn), p + SB_DATA_SIZE - 1) <= Len(conn)
          /\ Least(Len(conn), p + SB_DATA_SIZE - 1) \in Int
      BY <1>0, <1>4 DEF Least
    <2> QED BY <1>0, <1>4, <2>1 DEF HeaderReads, p
  <1>6. /\ header' = First(conn, p) /\ conn' = Drop(conn, k) /\ link' = link /\ req' = req
        /\ b = SubSeq(conn, p + 1, k)
    BY DEF ReadHeader, BehindHeader, p
  <1> HIDE DEF b
  <1>7. b \in Seq(Element) /\ Len(b) = k - p /\ \A i \in 1..(k - p) : b[i] = conn[p + i]
    BY <1>0, <1>4, <1>5, <1>6, CutFacts
  <1>8. /\ conn' \in Seq(Element) /\ Len(conn') = Len(conn) - k
        /\ \A i \in 1..(Len(conn) - k) : conn'[i] = conn[k + i]
    <2>1. k \in 0..Len(conn)
      BY <1>0, <1>4, <1>5
    <2> QED BY <1>0, <1>6, <2>1, DropFacts
  <1>9. ASSUME NEW i \in 1..Len(b) PROVE b[i] = [req |-> req, at |-> i]
    <2>1. p + i \in p..Len(conn) /\ (p + i) - p = i /\ b[i] = conn[p + i]
      BY <1>0, <1>4, <1>5, <1>7
    <2> QED BY <1>4, <2>1
  <1>10. ASSUME NEW i \in 1..Len(conn') PROVE conn'[i] = [req |-> req, at |-> Len(b) + i]
    <2>1. k + i \in p..Len(conn) /\ (k + i) - p = Len(b) + i /\ conn'[i] = conn[k + i]
      BY <1>0, <1>4, <1>5, <1>7, <1>8
    <2> QED BY <1>4, <2>1
  <1>11. Len(conn) - p \in 0..FileLen
    <2>1. conn[Len(conn)] = [req |-> req, at |-> Len(conn) - p] /\ conn[Len(conn)] \in Element
      BY <1>0, <1>4
    <2>2. conn[Len(conn)].at = Len(conn) - p /\ conn[Len(conn)].at \in 0..FileLen
      BY <2>1 DEF Element
    <2> QED BY <2>2
  <1>12. Len(b) + Len(conn') = Len(conn) - p
    BY <1>0, <1>4, <1>5, <1>7, <1>8
  <1>13. Len(b) + Len(conn') <= FileLen /\ (link = "up" => Len(b) + Len(conn') = FileLen)
    BY <1>0, <1>4, <1>11, <1>12
  <1>14. NoUpdate => header' = <<[req |-> req, at |-> 0]>>
    <2>1. SUFFICES ASSUME NoUpdate PROVE header' = <<[req |-> req, at |-> 0]>>
      OBVIOUS
    <2>2. p = 1
      BY <1>3, <2>1 DEF DInv, Clean
    <2>3. header' = First(conn, 1)
      BY <1>6, <2>2
    <2>4. /\ First(conn, 1) \in Seq(Element) /\ Len(First(conn, 1)) = 1
          /\ First(conn, 1)[1] = conn[1]
      <3>1. 1 \in 0..Len(conn) /\ 1 \in 1..1
        BY <1>0, <1>4, <2>2
      <3> QED BY <1>0, <3>1, FirstFacts
    <2>5. conn[1] = [req |-> req, at |-> 0]
      <3>1. 1 \in p..Len(conn) /\ 1 - p = 0
        BY <1>0, <1>4, <2>2
      <3> QED BY <1>4, <3>1
    <2> DEFINE h == [req |-> req, at |-> 0]
    <2>6. First(conn, 1)[1] = h
      BY <2>4, <2>5
    <2> HIDE DEF h
    <2>7. First(conn, 1) = <<h>>
      BY <2>4, <2>6
    <2> QED BY <2>3, <2>7 DEF h
  <1> QED BY <1>6, <1>7, <1>8, <1>9, <1>10, <1>13, <1>14 DEF b

LEMMA MissingFacts ==
    ASSUME DInv, HeaderMissing
    PROVE  /\ rb' \in [buf : Seq(Element), escape : Nat, total : Nat,
                       mode : {"unknown", "token", "known", "chunk", "complete"}]
           /\ conn' = <<>> /\ conn' \in Seq(Element) /\ HeaderAt' = {}
           /\ UNCHANGED <<link, req, header>>
PROOF
  <1>1. /\ rb' = [rb EXCEPT !.mode = "token", !.buf = conn] /\ conn' = <<>>
        /\ UNCHANGED <<link, req, header>>
    BY DEF HeaderMissing
  <1>2. conn' \in Seq(Element) /\ HeaderAt' = {}
    BY <1>1, Nothing
  <1>3. /\ conn \in Seq(Element)
        /\ rb \in [buf : Seq(Element), escape : Nat, total : Nat,
                   mode : {"unknown", "token", "known", "chunk", "complete"}]
    BY DEF DInv, TypeOK
  <1> QED BY <1>1, <1>2, <1>3

LEMMA StatHeaderStep ==
    ASSUME DInv, StatHeader PROVE DInv'
PROOF
  <1>0. /\ pc = "statHeader"
        /\ UNCHANGED <<kind, source, newer, exists, dest, short, faults, spoiled>>
    BY DEF StatHeader, fixedVars, fileVars
  <1>1. TypeOK /\ Walking /\ Fetching /\ ~NoUpdate
    BY <1>0 DEF DInv, Walking, Fetching
  <1>2. CASE HeaderFound
    <2>1. PICK k \in HeaderReads :
             ReadHeader(k) /\ rb' = [rb EXCEPT !.buf = BehindHeader(k), !.mode = "complete"]
      BY <1>2 DEF StatHeader
    <2>2. CompareDates
      BY <1>2 DEF StatHeader
    <2> DEFINE b == BehindHeader(k)
    <2>3. /\ conn' \in Seq(Element) /\ link' = link /\ req' = req /\ b \in Seq(Element)
          /\ \A i \in 1..Len(conn') : conn'[i] = [req |-> req, at |-> Len(b) + i]
      BY <1>1, <1>2, <2>1, HeaderFacts
    <2> HIDE DEF b
    <2>4. rb' \in [buf : Seq(Element), escape : Nat, total : Nat,
                   mode : {"unknown", "token", "known", "chunk", "complete"}]
      <3>1. rb' = [rb EXCEPT !.buf = b, !.mode = "complete"]
        BY <2>1 DEF b
      <3>2. /\ b \in Seq(Element)
            /\ rb \in [buf : Seq(Element), escape : Nat, total : Nat,
                       mode : {"unknown", "token", "known", "chunk", "complete"}]
        BY <1>1, <2>3 DEF TypeOK
      <3> QED BY <3>1, <3>2
    <2>5. HeaderAt' = {}
      <3>1. Len(b) \in Nat /\ Len(conn') \in Nat
        BY <2>3, LenProperties
      <3>2. ASSUME NEW i \in 1..Len(conn') PROVE conn'[i].at = Len(b) + i
        <4>1. conn'[i] = [req |-> req, at |-> Len(b) + i]
          BY <2>3
        <4> QED BY <4>1
      <3> QED BY <3>1, <3>2 DEF HeaderAt
    <2>6. /\ pos' \in Entry /\ pc' \in {"entry", "idle", "open"} /\ cmd' = cmd /\ given' = given
          /\ state' \in [Entry -> {"QUEUED", "FINISHED", "FAILED"}]
          /\ skipped' \in [Entry -> BOOLEAN]
          /\ Walking' /\ (NoUpdate' <=> NoUpdate)
          /\ OwnBytes' /\ FinishedUnlessSpoiled'
      BY <1>0, <2>2, CompareFacts
    <2>7. TypeOK'
      BY <1>0, <1>1, <2>3, <2>4, <2>6 DEF TypeOK
    <2> QED BY <1>1, <2>5, <2>6, <2>7, AtRest
  <1>3. CASE ~HeaderFound
    <2>1. /\ HeaderMissing /\ pc' = "open" /\ UNCHANGED <<cmd, pos, given, state, skipped>>
      BY <1>3 DEF StatHeader, Goto
    <2>2. /\ rb' \in [buf : Seq(Element), escape : Nat, total : Nat,
                      mode : {"unknown", "token", "known", "chunk", "complete"}]
          /\ conn' = <<>> /\ conn' \in Seq(Element) /\ HeaderAt' = {}
          /\ UNCHANGED <<link, req, header>>
      BY <2>1, MissingFacts
    <2>3. TypeOK'
      BY <1>0, <1>1, <2>1, <2>2 DEF TypeOK
    <2>4. Walking'
      BY <1>0, <1>1, <2>1 DEF Walking, Fetching, NoUpdate
    <2>5. OwnBytes' /\ FinishedUnlessSpoiled'
      BY <1>0, <2>1, FilesSame
    <2> QED BY <2>1, <2>2, <2>3, <2>4, <2>5, AtRest
  <1> QED BY <1>2, <1>3

LEMMA OpenHeaderStep ==
    ASSUME DInv, OpenHeader PROVE DInv'
PROOF
  <1>0. /\ pc = "header"
        /\ UNCHANGED <<state, skipped, kind, source, newer, exists, dest, short, faults, spoiled>>
    BY DEF OpenHeader, fixedVars, fileVars
  <1>1. TypeOK /\ Walking /\ Fetching /\ source[pos] = "http"
    BY <1>0 DEF DInv, Walking, Fetching
  <1>2. OwnBytes' /\ FinishedUnlessSpoiled'
    BY <1>0, FilesSame
  <1>3. CASE ~HeaderFound
    <2>1. HeaderMissing /\ NextEntry
      BY <1>3 DEF OpenHeader
    <2>2. /\ rb' \in [buf : Seq(Element), escape : Nat, total : Nat,
                      mode : {"unknown", "token", "known", "chunk", "complete"}]
          /\ conn' = <<>> /\ conn' \in Seq(Element) /\ HeaderAt' = {}
          /\ UNCHANGED <<link, req, header>>
      BY <2>1, MissingFacts
    <2>3. pos' \in Entry /\ pc' \in {"entry", "idle"} /\ cmd' = cmd /\ given' = given
      BY <1>1, <2>1, NextFacts
    <2>4. TypeOK'
      BY <1>0, <1>1, <2>2, <2>3 DEF TypeOK
    <2>5. Walking'
      BY <1>0, <1>1, <2>3 DEF Walking, Fetching, NoUpdate
    <2> QED BY <1>2, <2>2, <2>3, <2>4, <2>5, AtRest
  <1>4. CASE HeaderFound
    <2>1. PICK k \in HeaderReads : ReadHeader(k) /\ rb' = HeadersCompute(BehindHeader(k))
      BY <1>4 DEF OpenHeader
    <2>2. /\ kind[pos] = "file" => Goto("write")
          /\ kind[pos] # "file" => NextEntry \/ Goto("chunks")
      BY <1>4 DEF OpenHeader
    <2> DEFINE b == BehindHeader(k)
    <2>3. /\ conn' \in Seq(Element) /\ link' = link /\ req' = req /\ b \in Seq(Element)
          /\ \A i \in 1..Len(b) : b[i] = [req |-> req, at |-> i]
          /\ \A i \in 1..Len(conn') : conn'[i] = [req |-> req, at |-> Len(b) + i]
          /\ Len(b) + Len(conn') <= FileLen
          /\ link = "up" => Len(b) + Len(conn') = FileLen
          /\ NoUpdate => header' = <<[req |-> req, at |-> 0]>>
      BY <1>1, <1>4, <2>1, HeaderFacts
    <2>4. rb' = HeadersCompute(b)
      BY <2>1
    <2> HIDE DEF b
    <2>5. Len(b) \in Nat /\ Len(conn') \in Nat /\ FileLen \in Nat \ {0} /\ FileLen \in Nat
      BY <2>3, LenProperties, DownloadAssumption
    <2>6. HeaderAt' = {}
      <3>1. ASSUME NEW i \in 1..Len(conn') PROVE conn'[i].at = Len(b) + i
        <4>1. conn'[i] = [req |-> req, at |-> Len(b) + i]
          BY <2>3
        <4> QED BY <4>1
      <3> QED BY <2>5, <3>1 DEF HeaderAt
    <2>7. rb \in [buf : Seq(Element), escape : Nat, total : Nat,
                  mode : {"unknown", "token", "known", "chunk", "complete"}]
          /\ pos \in Entry
      BY <1>1 DEF TypeOK
    <2>8. CASE kind[pos] = "page"
      <3>1. rb' = [rb EXCEPT !.buf = b, !.mode = "chunk"] /\ (NextEntry \/ Goto("chunks"))
        BY <2>2, <2>4, <2>8 DEF HeadersCompute
      <3>2. /\ pos' \in Entry /\ cmd' = cmd /\ given' = given
            /\ pc' \in {"entry", "idle"} \/ (pc' = "chunks" /\ pos' = pos)
        BY <1>1, <3>1, NextFacts DEF Goto, TypeOK
      <3>3. /\ rb' \in [buf : Seq(Element), escape : Nat, total : Nat,
                        mode : {"unknown", "token", "known", "chunk", "complete"}]
            /\ rb'.mode = "chunk"
        <4>1. b \in Seq(Element)
          BY <2>3
        <4> QED BY <2>7, <3>1, <4>1
      <3>4. TypeOK'
        BY <1>0, <1>1, <2>3, <3>2, <3>3 DEF TypeOK
      <3>5. Walking'
        BY <1>0, <1>1, <3>2 DEF Walking, Fetching, NoUpdate
      <3>6. ~Reusable(rb)'
        BY <3>3 DEF Reusable
      <3> QED BY <1>2, <2>6, <3>2, <3>4, <3>5, <3>6, AtRest
    <2>9. CASE kind[pos] # "page"
      <3>1. kind[pos] = "file"
        BY <1>1, <2>7, <2>9, DownloadAssumption DEF TypeOK
      <3>2. /\ rb' = [rb EXCEPT !.buf = b, !.escape = Len(b), !.total = FileLen,
                              !.mode = IF Len(b) = FileLen THEN "complete" ELSE "known"]
            /\ pc' = "write" /\ UNCHANGED <<cmd, pos, given>>
        BY <2>2, <2>4, <2>9, <3>1 DEF HeadersCompute, Goto
      <3>3. /\ rb'.buf = b /\ rb'.escape = Len(b) /\ rb'.total = FileLen
            /\ rb'.mode = IF Len(b) = FileLen THEN "complete" ELSE "known"
        BY <2>7, <3>2
      <3>4. rb' \in [buf : Seq(Element), escape : Nat, total : Nat,
                     mode : {"unknown", "token", "known", "chunk", "complete"}]
        BY <2>3, <2>5, <2>7, <3>2
      <3>5. TypeOK'
        BY <1>0, <1>1, <2>3, <3>2, <3>4 DEF TypeOK
      <3>6. Walking'
        BY <1>0, <1>1, <3>2 DEF Walking, Fetching, NoUpdate
      <3>7. ~Fetching' /\ (NoUpdate' <=> NoUpdate)
        BY <3>2 DEF Fetching, NoUpdate
      <3>8. Consumed' = 0
        BY <2>5, <3>3 DEF Consumed
      <3>9. NoUpdate' /\ Reusable(rb)' => conn' = <<>>
        <4>1. SUFFICES ASSUME Reusable(rb)' PROVE conn' = <<>>
          OBVIOUS
        <4>2. Len(b) = FileLen
          BY <3>3, <4>1 DEF Reusable
        <4>3. Len(conn') = 0
          BY <2>3, <2>5, <4>2
        <4> QED BY <2>3, <4>3, EmptySeq
      <3>10. Wire' /\ Clean'
        BY <2>6, <3>7, <3>9 DEF Wire, Clean
      <3>11. Body'
        <4>1. Consumed' >= 0 /\ rb'.total = FileLen /\ rb'.mode \in {"known", "complete"}
          BY <3>3, <3>8
        <4>2. rb'.mode = "complete" <=> rb'.escape = FileLen
          BY <3>3
        <4>3. rb'.escape + Len(conn') <= FileLen /\ (link' = "up" => rb'.escape + Len(conn') = FileLen)
          BY <2>3, <3>3
        <4>4. \A i \in 1..Len(rb'.buf) : rb'.buf[i] = [req |-> req', at |-> Consumed' + i]
          BY <2>3, <2>5, <3>3, <3>8
        <4>5. \A i \in 1..Len(conn') : conn'[i] = [req |-> req', at |-> rb'.escape + i]
          BY <2>3, <3>3
        <4> QED BY <2>3, <3>7, <3>8, <4>1, <4>2, <4>3, <4>4, <4>5 DEF Body
      <3>12. Copied'
        BY <3>2 DEF Copied
      <3> QED BY <1>2, <3>5, <3>6, <3>10, <3>11, <3>12 DEF DInv
    <2> QED BY <2>8, <2>9
  <1> QED BY <1>3, <1>4

(* What the parser of the buffer leaves of a page: the connection as it    *)
(* was, or none.                                                           *)
LEMMA PageStep ==
    ASSUME DInv, pc \in {"chunks", "waiting"},
           UNCHANGED <<state, skipped, req, header, kind, source, newer, exists, dest, short, faults,
                       spoiled>>,
           UNCHANGED <<rb, conn, link>> \/ DropConnection,
           NextEntry \/ Goto("waiting") \/ Goto("spinning")
    PROVE  DInv'
PROOF
  <1>1. TypeOK /\ Walking /\ Wire /\ Clean /\ ~Fetching
    BY DEF DInv, Fetching
  <1>2. /\ pos' \in Entry /\ cmd' = cmd /\ given' = given
        /\ pc' \in {"entry", "idle"} \/ (pc' \in {"waiting", "spinning"} /\ pos' = pos)
    BY <1>1, NextFacts DEF Goto, TypeOK
  <1>3. /\ rb' \in [buf : Seq(Element), escape : Nat, total : Nat,
                     mode : {"unknown", "token", "known", "chunk", "complete"}]
        /\ conn' \in Seq(Element) /\ link' \in {"up", "fin", "rst"}
        /\ conn' = <<>> \/ UNCHANGED <<rb, conn>>
    <2>1. <<>> \in Seq(Element)
      OBVIOUS
    <2> QED BY <1>1, <2>1 DEF DropConnection, TypeOK
  <1>4. TypeOK'
    BY <1>1, <1>2, <1>3 DEF TypeOK
  <1>5. NoUpdate' <=> NoUpdate
    BY <1>2 DEF NoUpdate
  <1>6. Walking'
    BY <1>1, <1>2, <1>5 DEF Walking, Fetching
  <1>7. HeaderAt' = {}
    <2>1. HeaderAt = {}
      BY <1>1 DEF Wire
    <2>2. CASE conn' = <<>>
      BY <2>2, Nothing
    <2>3. CASE UNCHANGED conn
      BY <2>1, <2>3 DEF HeaderAt
    <2> QED BY <1>3, <2>2, <2>3
  <1>8. NoUpdate' /\ Reusable(rb)' => conn' = <<>>
    BY <1>1, <1>3, <1>5 DEF Clean, Reusable
  <1>9. OwnBytes' /\ FinishedUnlessSpoiled'
    BY FilesSame
  <1> QED BY <1>2, <1>4, <1>6, <1>7, <1>8, <1>9, AtRest

LEMMA ParsePageStep ==
    ASSUME DInv, ParsePage PROVE DInv'
PROOF
  <1>1. /\ pc = "chunks"
        /\ UNCHANGED <<state, skipped, req, header, kind, source, newer, exists, dest, short, faults,
                       spoiled>>
        /\ UNCHANGED <<rb, conn, link>> \/ DropConnection
        /\ NextEntry \/ Goto("waiting") \/ Goto("spinning")
    BY DEF ParsePage, fixedVars, fileVars
  <1> QED BY <1>1, PageStep

LEMMA PageWaitEndsStep ==
    ASSUME DInv, PageWaitEnds PROVE DInv'
PROOF
  <1>1. /\ pc = "waiting" /\ DropConnection /\ NextEntry
        /\ UNCHANGED <<state, skipped, req, header, kind, source, newer, exists, dest, short, faults,
                       spoiled>>
    BY DEF PageWaitEnds, fixedVars, fileVars
  <1> QED BY <1>1, PageStep

-----------------------------------------------------------------------------
(* The file.                                                               *)

LEMMA OpenWriteStep ==
    ASSUME DInv, OpenWrite PROVE DInv'
PROOF
  <1>0. /\ pc = "write"
        /\ UNCHANGED <<state, skipped, kind, source, newer, rb, conn, link, req, header>>
    BY DEF OpenWrite, fixedVars, netVars
  <1>1. TypeOK /\ Walking /\ Wire /\ Clean /\ Body /\ OwnBytes /\ FinishedUnlessSpoiled
    BY DEF DInv
  <1>2. /\ ~Fetching /\ HeaderAt = {} /\ HeaderAt' = HeaderAt
        /\ NoUpdate /\ Reusable(rb) => conn = <<>>
    BY <1>0, <1>1 DEF Fetching, Wire, Clean, HeaderAt
  <1>3. CASE /\ Goto("copy")
             /\ exists' = [exists EXCEPT ![pos] = TRUE] /\ dest' = [dest EXCEPT ![pos] = <<>>]
             /\ spoiled' = [spoiled EXCEPT ![pos] = link # "up"]
             /\ short' = [short EXCEPT ![pos] = FALSE]
             /\ UNCHANGED faults
    <2>1. pc' = "copy" /\ UNCHANGED <<cmd, pos, given>>
      BY <1>3 DEF Goto
    <2>2. <<>> \in Seq(Element) /\ Len(<<>>) = 0 /\ FileLen \in Nat
      BY DownloadAssumption
    <2>3. /\ exists' \in [Entry -> BOOLEAN] /\ dest' \in [Entry -> Seq(Element)]
          /\ spoiled' \in [Entry -> BOOLEAN] /\ short' \in [Entry -> BOOLEAN]
      BY <1>1, <1>3, <2>2 DEF TypeOK
    <2>4. TypeOK'
      BY <1>0, <1>1, <1>3, <2>1, <2>3 DEF TypeOK
    <2>5. Walking'
      BY <1>0, <1>1, <2>1 DEF Walking, Fetching, NoUpdate
    <2>6. ~Fetching' /\ (NoUpdate' <=> NoUpdate)
      BY <2>1 DEF Fetching, NoUpdate
    <2>7. Wire' /\ Clean'
      BY <1>0, <1>2, <2>6 DEF Wire, Clean, Reusable
    <2>8. Consumed' = Consumed
      BY <1>0 DEF Consumed
    <2>9. Body'
      BY <1>0, <1>1, <2>1, <2>6, <2>8 DEF Body
    <2>10. pos \in Entry /\ dest'[pos] = <<>> /\ spoiled'[pos] = (link # "up")
           /\ ~short'[pos]
           /\ \A e \in Entry \ {pos} :
                 dest'[e] = dest[e] /\ spoiled'[e] = spoiled[e] /\ short'[e] = short[e]
      BY <1>1, <1>3 DEF TypeOK
    <2>11. Copied'
      <3>1. SUFFICES ASSUME source[pos] = "http" PROVE Copied'
        BY <1>0, <2>1 DEF Copied
      <3>2. Consumed' = 0
        BY <1>0, <1>1, <2>8, <3>1 DEF Body
      <3>3. dest'[pos'] = <<>> /\ spoiled'[pos'] = (link # "up") /\ link' = link /\ ~short'[pos']
        BY <1>0, <2>1, <2>10
      <3>4. Len(dest'[pos']) = 0 /\ \A i \in 1..Len(dest'[pos']) : FALSE
        BY <2>2, <3>3
      <3>5. /\ Len(dest'[pos']) <= Consumed' /\ Len(dest'[pos']) = Consumed'
            /\ OfResponse(dest'[pos'], req', Consumed') /\ Gapless(dest'[pos'])
            /\ ~short'[pos'] /\ (~spoiled'[pos'] => link' = "up")
        <4>1. Len(dest'[pos']) = Consumed' /\ Len(dest'[pos']) <= Consumed'
          BY <3>2, <3>4
        <4>2. OfResponse(dest'[pos'], req', Consumed') /\ Gapless(dest'[pos'])
          BY <3>4 DEF OfResponse, Gapless
        <4>3. ~spoiled'[pos'] => link' = "up"
          BY <3>3
        <4> QED BY <3>3, <4>1, <4>2, <4>3
      <3> QED BY <3>5 DEF Copied
    <2>12. OwnBytes'
      BY <1>1, <2>2, <2>10 DEF OwnBytes
    <2>13. FinishedUnlessSpoiled'
      BY <1>0, <1>1, <2>10 DEF FinishedUnlessSpoiled, Complete, Walking
    <2> QED BY <2>4, <2>5, <2>7, <2>9, <2>11, <2>12, <2>13 DEF DInv
  <1>4. CASE /\ faults < MaxFaults /\ faults' = faults + 1
             /\ NextEntry /\ UNCHANGED <<exists, dest, short, spoiled>>
    <2>1. pos' \in Entry /\ pc' \in {"entry", "idle"} /\ cmd' = cmd /\ given' = given
      BY <1>1, <1>4, NextFacts
    <2>2. faults' \in 0..MaxFaults
      <3>1. faults \in 0..MaxFaults /\ MaxFaults \in Nat
        BY <1>1, DownloadAssumption DEF TypeOK
      <3> QED BY <1>4, <3>1
    <2>3. TypeOK'
      BY <1>0, <1>1, <1>4, <2>1, <2>2 DEF TypeOK
    <2>4. Walking' /\ (NoUpdate' <=> NoUpdate)
      BY <1>0, <1>1, <2>1 DEF Walking, Fetching, NoUpdate
    <2>5. OwnBytes' /\ FinishedUnlessSpoiled'
      BY <1>0, <1>4, FilesSame
    <2>6. NoUpdate' /\ Reusable(rb)' => conn' = <<>>
      BY <1>0, <1>2, <2>4 DEF Reusable
    <2> QED BY <1>2, <2>1, <2>3, <2>4, <2>5, <2>6, AtRest
  <1> QED BY <1>3, <1>4 DEF OpenWrite

LEMMA ServerClosesStep ==
    ASSUME DInv, ServerCloses PROVE DInv'
PROOF
  <1>0. /\ UNCHANGED <<cmd, pos, pc, given, state, skipped, kind, source, newer, exists, dest, short,
                       rb, req, header>>
        /\ faults < MaxFaults /\ faults' = faults + 1 /\ link' \in {"fin", "rst"}
        /\ spoiled' = [spoiled EXCEPT ![pos] = spoiled[pos] \/ pc = "copy"]
    BY DEF ServerCloses, queueVars, fixedVars, fileVars
  <1>1. PICK n \in 0..Len(conn) : conn' = First(conn, n)
    BY DEF ServerCloses
  <1>2. TypeOK /\ Walking /\ Wire /\ Clean /\ Body /\ Copied
    BY DEF DInv
  <1>3. conn \in Seq(Element) /\ Len(conn) \in Nat /\ pos \in Entry /\ FileLen \in Nat
    BY <1>2, LenProperties, DownloadAssumption DEF TypeOK
  <1>4. /\ conn' \in Seq(Element) /\ Len(conn') = n /\ n <= Len(conn) /\ n \in Nat
        /\ \A i \in 1..n : conn'[i] = conn[i] /\ i \in 1..Len(conn)
    BY <1>1, <1>3, FirstFacts
  <1>5. faults' \in 0..MaxFaults
    <2>1. faults \in 0..MaxFaults /\ MaxFaults \in Nat
      BY <1>2, DownloadAssumption DEF TypeOK
    <2> QED BY <1>0, <2>1
  <1>6. /\ spoiled' \in [Entry -> BOOLEAN] /\ \A e \in Entry : spoiled[e] => spoiled'[e]
        /\ pc = "copy" => spoiled'[pos]
    BY <1>0, <1>2, <1>3 DEF TypeOK
  <1>7. TypeOK'
    BY <1>0, <1>2, <1>4, <1>5, <1>6 DEF TypeOK
  <1>8. Walking' /\ (NoUpdate' <=> NoUpdate) /\ (Fetching' <=> Fetching)
    BY <1>0, <1>2 DEF Walking, Fetching, NoUpdate
  <1>9. HeaderAt' \subseteq HeaderAt
    BY <1>4 DEF HeaderAt
  <1>10. Wire'
    <2>1. ASSUME Fetching, NEW p \in HeaderAt', NEW q \in p..Len(conn')
          PROVE  conn'[q] = [req |-> req, at |-> q - p]
      <3>1. p \in HeaderAt /\ p \in 1..Len(conn)
        BY <1>9, <2>1 DEF HeaderAt
      <3>2. q \in p..Len(conn) /\ q \in 1..n
        BY <1>3, <1>4, <3>1
      <3>3. conn[q] = [req |-> req, at |-> q - p]
        BY <1>2, <2>1, <3>1, <3>2 DEF Wire
      <3> QED BY <1>4, <3>2, <3>3
    <2> QED BY <1>0, <1>2, <1>8, <1>9, <2>1 DEF Wire
  <1>11. Clean'
    <2>1. conn = <<>> => conn' = <<>>
      BY <1>3, <1>4, EmptySeq
    <2> QED BY <1>0, <1>2, <1>8, <1>9, <2>1 DEF Clean, Reusable
  <1>12. Consumed' = Consumed
    BY <1>0 DEF Consumed
  <1>13. Body'
    <2>1. SUFFICES ASSUME pc \in {"write", "copy"}, source[pos] = "http" PROVE Body'
      BY <1>0 DEF Body
    <2>2. rb.escape \in Nat /\ rb.escape + Len(conn') <= FileLen
      BY <1>2, <1>3, <1>4, <2>1 DEF Body, TypeOK
    <2>3. \A i \in 1..Len(conn') : conn'[i] = [req |-> req, at |-> rb.escape + i]
      BY <1>2, <1>4, <2>1 DEF Body
    <2> QED BY <1>0, <1>2, <1>8, <1>12, <2>1, <2>2, <2>3 DEF Body
  <1>14. Copied'
    BY <1>0, <1>2, <1>6, <1>12 DEF Copied
  <1>15. OwnBytes' /\ FinishedUnlessSpoiled'
    BY <1>0, <1>6, FilesSame
  <1> QED BY <1>7, <1>8, <1>10, <1>11, <1>13, <1>14, <1>15 DEF DInv

(* What recvBufferAppend leaves in the buffer and on the connection.       *)
LEMMA AppendFacts ==
    ASSUME DInv, pc = "copy", source[pos] = "http",
           NEW k \in 0..Len(conn), k = 0 \/ rb.mode = "known"
    PROVE  /\ AppendTo(k).buf \in Seq(Element) /\ Len(AppendTo(k).buf) = Len(rb.buf) + k
           /\ AppendTo(k) \in [buf : Seq(Element), escape : Nat, total : Nat,
                               mode : {"unknown", "token", "known", "chunk", "complete"}]
           /\ AppendTo(k).escape = rb.escape + k /\ AppendTo(k).total = FileLen
           /\ AppendTo(k).mode \in {"known", "complete"}
           /\ AppendTo(k).mode = "complete" <=> rb.escape + k = FileLen
           /\ \A i \in 1..(Len(rb.buf) + k) :
                 AppendTo(k).buf[i] = [req |-> req, at |-> Consumed + i]
           /\ Drop(conn, k) \in Seq(Element) /\ Len(Drop(conn, k)) = Len(conn) - k
           /\ \A i \in 1..(Len(conn) - k) :
                 Drop(conn, k)[i] = [req |-> req, at |-> rb.escape + k + i]
           /\ rb.escape + k <= FileLen
PROOF
  <1> DEFINE f == First(conn, k)
             j == rb.buf \o f
             d == Drop(conn, k)
             m == IF rb.mode = "known" /\ k > 0 /\ rb.escape + k >= rb.total
                  THEN "complete" ELSE rb.mode
  <1>0. TypeOK /\ Body
    BY DEF DInv
  <1>1. /\ rb \in [buf : Seq(Element), escape : Nat, total : Nat,
                   mode : {"unknown", "token", "known", "chunk", "complete"}]
        /\ conn \in Seq(Element) /\ rb.buf \in Seq(Element) /\ rb.escape \in Nat /\ rb.total \in Nat
    BY <1>0 DEF TypeOK
  <1>2. Len(conn) \in Nat /\ Len(rb.buf) \in Nat /\ FileLen \in Nat /\ k \in Nat /\ k <= Len(conn)
    BY <1>1, LenProperties, DownloadAssumption
  <1>3. f \in Seq(Element) /\ Len(f) = k /\ \A i \in 1..k : f[i] = conn[i]
    BY <1>1, FirstFacts
  <1>4. /\ d \in Seq(Element) /\ Len(d) = Len(conn) - k
        /\ \A i \in 1..(Len(conn) - k) : d[i] = conn[k + i]
    BY <1>1, DropFacts
  <1> HIDE DEF f, d
  <1>5. /\ j \in Seq(Element) /\ Len(j) = Len(rb.buf) + k
        /\ \A i \in 1..(Len(rb.buf) + k) :
              j[i] = IF i <= Len(rb.buf) THEN rb.buf[i] ELSE f[i - Len(rb.buf)]
    <2> DEFINE u == rb.buf
    <2>1. u \in Seq(Element)
      BY <1>1
    <2> HIDE DEF u
    <2>2. /\ u \o f \in Seq(Element) /\ Len(u \o f) = Len(u) + Len(f)
          /\ \A i \in 1..(Len(u) + Len(f)) : (u \o f)[i] = IF i <= Len(u) THEN u[i] ELSE f[i - Len(u)]
      BY <1>3, <2>1, JoinFacts
    <2>3. j = u \o f /\ u = rb.buf
      BY DEF u
    <2> HIDE DEF j
    <2>4. /\ j \in Seq(Element) /\ Len(j) = Len(u) + k
          /\ \A i \in 1..(Len(u) + k) : j[i] = IF i <= Len(u) THEN u[i] ELSE f[i - Len(u)]
      BY <1>3, <2>2, <2>3
    <2> QED BY <2>3, <2>4
  <1> HIDE DEF j
  <1>6. /\ rb.total = FileLen /\ rb.mode \in {"known", "complete"}
        /\ rb.mode = "complete" <=> rb.escape = FileLen
        /\ rb.escape + Len(conn) <= FileLen
        /\ \A i \in 1..Len(rb.buf) : rb.buf[i] = [req |-> req, at |-> Consumed + i]
        /\ \A i \in 1..Len(conn) : conn[i] = [req |-> req, at |-> rb.escape + i]
    <2>1. pc \in {"write", "copy"} /\ source[pos] = "http"
      OBVIOUS
    <2>2. /\ rb.total = FileLen /\ rb.mode \in {"known", "complete"}
          /\ rb.mode = "complete" <=> rb.escape = FileLen
          /\ rb.escape + Len(conn) <= FileLen
      BY <1>0, <2>1 DEF Body
    <2>3. \A i \in 1..Len(rb.buf) : rb.buf[i] = [req |-> req, at |-> Consumed + i]
      BY <1>0, <2>1 DEF Body
    <2>4. \A i \in 1..Len(conn) : conn[i] = [req |-> req, at |-> rb.escape + i]
      BY <1>0, <2>1 DEF Body
    <2> QED BY <2>2, <2>3, <2>4
  <1>7. rb.escape + k <= FileLen
    <2>1. rb.escape + Len(conn) <= FileLen
      BY <1>6
    <2> QED BY <1>1, <1>2, <2>1
  <1>8. m \in {"known", "complete"} /\ (m = "complete" <=> rb.escape + k = FileLen)
    <2>1. CASE rb.mode = "known" /\ k > 0 /\ rb.escape + k >= rb.total
      <3>1. m = "complete"
        BY <2>1
      <3>2. rb.escape + k = FileLen
        BY <1>1, <1>2, <1>6, <1>7, <2>1
      <3> QED BY <3>1, <3>2
    <2>2. CASE ~(rb.mode = "known" /\ k > 0 /\ rb.escape + k >= rb.total)
      <3>1. m = rb.mode
        BY <2>2
      <3>2. rb.mode = "complete" <=> rb.escape + k = FileLen
        <4>1. CASE k = 0
          BY <1>1, <1>6, <4>1
        <4>2. CASE k # 0
          <5>1. rb.mode = "known" /\ k > 0 /\ rb.total = FileLen
            BY <1>2, <1>6, <4>2
          <5>2. rb.escape + k < FileLen
            BY <1>1, <1>2, <2>2, <5>1
          <5> QED BY <1>1, <1>2, <5>1, <5>2
        <4> QED BY <4>1, <4>2
      <3> QED BY <1>6, <3>1, <3>2
    <2> QED BY <2>1, <2>2
  <1> HIDE DEF m
  <1> DEFINE b == [rb EXCEPT !.buf = j, !.escape = rb.escape + k, !.mode = m]
  <1>9. AppendTo(k) = [rb EXCEPT !.buf = j, !.escape = rb.escape + k, !.mode = m]
    BY DEF AppendTo, j, f, m
  <1>10. /\ AppendTo(k).buf = j /\ AppendTo(k).escape = rb.escape + k /\ AppendTo(k).mode = m
         /\ AppendTo(k).total = rb.total
    <2>1. b.buf = j /\ b.escape = rb.escape + k /\ b.mode = m /\ b.total = rb.total
      BY <1>1
    <2> QED BY <1>9, <2>1
  <1>11. AppendTo(k) \in [buf : Seq(Element), escape : Nat, total : Nat,
                          mode : {"unknown", "token", "known", "chunk", "complete"}]
    <2>1. j \in Seq(Element) /\ rb.escape + k \in Nat
          /\ m \in {"unknown", "token", "known", "chunk", "complete"}
      BY <1>1, <1>2, <1>5, <1>8
    <2> QED BY <1>1, <1>9, <2>1
  <1>12. ASSUME NEW i \in 1..(Len(rb.buf) + k) PROVE j[i] = [req |-> req, at |-> Consumed + i]
    <2>1. CASE i <= Len(rb.buf)
      BY <1>2, <1>5, <1>6, <2>1
    <2>2. CASE i > Len(rb.buf)
      <3>1. /\ i - Len(rb.buf) \in 1..k /\ i - Len(rb.buf) \in 1..Len(conn)
            /\ j[i] = f[i - Len(rb.buf)]
        BY <1>2, <1>5, <2>2
      <3>2. f[i - Len(rb.buf)] = conn[i - Len(rb.buf)]
        BY <1>3, <3>1
      <3>3. conn[i - Len(rb.buf)] = [req |-> req, at |-> rb.escape + (i - Len(rb.buf))]
        BY <1>6, <3>1
      <3>4. rb.escape + (i - Len(rb.buf)) = Consumed + i
        BY <1>1, <1>2 DEF Consumed
      <3> QED BY <3>1, <3>2, <3>3, <3>4
    <2> QED BY <1>2, <2>1, <2>2
  <1>13. ASSUME NEW i \in 1..(Len(conn) - k)
         PROVE  d[i] = [req |-> req, at |-> rb.escape + k + i]
    <2>1. k + i \in 1..Len(conn) /\ rb.escape + (k + i) = rb.escape + k + i
      BY <1>1, <1>2
    <2>2. d[i] = conn[k + i] /\ conn[k + i] = [req |-> req, at |-> rb.escape + (k + i)]
      BY <1>4, <1>6, <2>1
    <2> QED BY <2>1, <2>2
  <1> QED BY <1>4, <1>5, <1>6, <1>7, <1>8, <1>10, <1>11, <1>12, <1>13 DEF d

(* A file that holds some of the first m bytes is written what follows.    *)
LEMMA Grown ==
    ASSUME NEW d \in Seq(Element), NEW t \in Seq(Element), NEW r \in Nat,
           NEW m \in Nat, NEW n \in Nat, Len(t) <= n,
           OfResponse(d, r, m),
           \A i \in 1..Len(t) : t[i] = [req |-> r, at |-> m + i]
    PROVE  /\ d \o t \in Seq(Element) /\ Len(d \o t) = Len(d) + Len(t)
           /\ OfResponse(d \o t, r, m + n)
           /\ Len(d) = m /\ Gapless(d) => Gapless(d \o t)
PROOF
  <1> DEFINE j == d \o t
  <1>1. /\ j \in Seq(Element) /\ Len(j) = Len(d) + Len(t)
        /\ \A i \in 1..(Len(d) + Len(t)) : j[i] = IF i <= Len(d) THEN d[i] ELSE t[i - Len(d)]
    BY JoinFacts
  <1>2. Len(d) \in Nat /\ Len(t) \in Nat
    BY LenProperties
  <1> HIDE DEF j
  <1>3. ASSUME NEW i \in 1..Len(j), i > Len(d)
        PROVE  j[i].req = r /\ j[i].at = m + (i - Len(d)) /\ i - Len(d) \in 1..Len(t)
    <2>1. i - Len(d) \in 1..Len(t) /\ j[i] = t[i - Len(d)]
      BY <1>1, <1>2, <1>3
    <2>2. t[i - Len(d)] = [req |-> r, at |-> m + (i - Len(d))]
      BY <2>1
    <2> QED BY <2>1, <2>2
  <1>4. ASSUME NEW i \in 1..Len(j), i <= Len(d)
        PROVE  i \in 1..Len(d) /\ j[i] = d[i]
    BY <1>1, <1>2, <1>4
  <1>5. \A i \in 1..Len(d) : d[i].req = r /\ d[i].at \in 1..m
    BY DEF OfResponse
  <1>6. ASSUME NEW i \in 1..Len(j) PROVE j[i].req = r /\ j[i].at \in 1..(m + n)
    <2>1. CASE i <= Len(d)
      BY <1>4, <1>5, <2>1
    <2>2. CASE i > Len(d)
      <3>1. j[i].req = r /\ j[i].at = m + (i - Len(d)) /\ i - Len(d) \in 1..Len(t)
        BY <1>3, <2>2
      <3> QED BY <1>2, <3>1
    <2> QED BY <1>2, <2>1, <2>2
  <1>7. ASSUME NEW i \in 1..Len(j), NEW h \in 1..i - 1 PROVE j[h].at < j[i].at
    <2>0. h \in 1..Len(j) /\ h < i /\ i \in Nat /\ h \in Nat
      BY <1>1, <1>2
    <2>1. CASE i <= Len(d)
      <3>1. j[i] = d[i] /\ i \in 1..Len(d)
        BY <1>4, <2>1
      <3>2. j[h] = d[h]
        BY <1>2, <1>4, <2>0, <2>1
      <3> QED BY <3>1, <3>2 DEF OfResponse
    <2>2. CASE i > Len(d)
      <3>1. j[i].at = m + (i - Len(d)) /\ i - Len(d) \in 1..Len(t)
        BY <1>3, <2>2
      <3>2. CASE h <= Len(d)
        <4>1. j[h].at \in 1..m
          BY <1>4, <1>5, <2>0, <3>2
        <4> QED BY <1>2, <2>0, <3>1, <4>1
      <3>3. CASE h > Len(d)
        <4>1. j[h].at = m + (h - Len(d))
          BY <1>3, <2>0, <3>3
        <4> QED BY <1>2, <2>0, <3>1, <4>1
      <3> QED BY <1>2, <2>0, <3>2, <3>3
    <2> QED BY <1>2, <2>0, <2>1, <2>2
  <1>8. OfResponse(j, r, m + n)
    BY <1>6, <1>7 DEF OfResponse
  <1>9. ASSUME Len(d) = m, Gapless(d), NEW i \in 1..Len(j) PROVE j[i].at = i
    <2>1. CASE i <= Len(d)
      <3>1. i \in 1..Len(d) /\ j[i] = d[i]
        BY <1>4, <2>1
      <3> QED BY <1>9, <3>1 DEF Gapless
    <2>2. CASE i > Len(d)
      <3>1. j[i].at = m + (i - Len(d))
        BY <1>3, <2>2
      <3> QED BY <1>2, <1>9, <3>1
    <2> QED BY <1>2, <2>1, <2>2
  <1>10. Len(d) = m /\ Gapless(d) => Gapless(j)
    BY <1>9 DEF Gapless
  <1> QED BY <1>1, <1>8, <1>10 DEF j

(* What siteFileWrite leaves of data that continues the file.              *)
LEMMA WriteFacts ==
    ASSUME DInv, pc = "copy", source[pos] = "http", NEW data \in Seq(Element), siteFileWrite(data),
           Consumed \in Nat,
           \A i \in 1..Len(data) : data[i] = [req |-> req, at |-> Consumed + i]
    PROVE  /\ dest' \in [Entry -> Seq(Element)] /\ short' \in [Entry -> BOOLEAN]
           /\ faults' \in 0..MaxFaults /\ spoiled' \in [Entry -> BOOLEAN]
           /\ \A e \in Entry \ {pos} :
                 dest'[e] = dest[e] /\ spoiled'[e] = spoiled[e] /\ short'[e] = short[e]
           /\ Len(dest'[pos]) <= Consumed + Len(data)
           /\ OfResponse(dest'[pos], req, Consumed + Len(data))
           /\ ~short'[pos] => Len(dest'[pos]) = Consumed + Len(data) /\ Gapless(dest'[pos])
           /\ short'[pos] => spoiled'[pos]
           /\ ~spoiled'[pos] => ~spoiled[pos]
PROOF
  <1> DEFINE d == dest[pos]
             c == Consumed
  <1>0. TypeOK /\ Copied
    BY DEF DInv
  <1>1. /\ pos \in Entry /\ d \in Seq(Element) /\ req \in Nat /\ Len(d) \in Nat /\ Len(data) \in Nat
        /\ dest \in [Entry -> Seq(Element)] /\ spoiled \in [Entry -> BOOLEAN]
        /\ short \in [Entry -> BOOLEAN] /\ faults \in 0..MaxFaults /\ MaxFaults \in Nat
    BY <1>0, LenProperties, DownloadAssumption DEF TypeOK
  <1>2. /\ c \in Nat /\ Len(d) <= c /\ OfResponse(d, req, c)
        /\ ~short[pos] => Len(d) = c /\ Gapless(d)
        /\ short[pos] => spoiled[pos]
        /\ \A i \in 1..Len(data) : data[i] = [req |-> req, at |-> c + i]
    BY <1>0 DEF Copied
  <1> HIDE DEF d, c
  <1>3. CASE /\ dest' = [dest EXCEPT ![pos] = dest[pos] \o data]
             /\ UNCHANGED <<short, faults, spoiled>>
    <2> DEFINE j == d \o data
    <2>1. /\ j \in Seq(Element) /\ Len(j) = Len(d) + Len(data) /\ OfResponse(j, req, c + Len(data))
          /\ Len(d) = c /\ Gapless(d) => Gapless(j)
      <3>1. Len(data) <= Len(data)
        BY <1>1
      <3> QED BY <1>1, <1>2, <3>1, Grown
    <2>2. dest' = [dest EXCEPT ![pos] = j]
      BY <1>3 DEF d
    <2> HIDE DEF j
    <2>3. /\ dest' \in [Entry -> Seq(Element)] /\ dest'[pos] = j
          /\ \A e \in Entry \ {pos} : dest'[e] = dest[e]
      BY <1>1, <2>1, <2>2
    <2>4. Len(j) <= c + Len(data) /\ (~short[pos] => Len(j) = c + Len(data) /\ Gapless(j))
      <3>1. Len(j) = Len(d) + Len(data) /\ Len(d) <= c /\ (~short[pos] => Len(d) = c)
        BY <1>2, <2>1
      <3>2. Len(j) <= c + Len(data)
        <4>1. Len(d) \in Nat /\ Len(data) \in Nat /\ c \in Nat
          BY <1>1, <1>2
        <4>2. Len(j) = Len(d) + Len(data) /\ Len(d) <= c
          BY <3>1
        <4>3. Len(d) + Len(data) <= c + Len(data)
          BY <4>1, <4>2
        <4> QED BY <4>2, <4>3
      <3>4. ~short[pos] => Len(j) = c + Len(data)
        BY <3>1
      <3>3. ~short[pos] => Gapless(j)
        BY <1>2, <2>1
      <3> QED BY <3>2, <3>3, <3>4
    <2>5. UNCHANGED <<short, faults, spoiled>>
      BY <1>3
    <2>6. /\ short' \in [Entry -> BOOLEAN] /\ faults' \in 0..MaxFaults
          /\ spoiled' \in [Entry -> BOOLEAN]
          /\ short'[pos] => spoiled'[pos]
          /\ ~spoiled'[pos] => ~spoiled[pos]
          /\ \A e \in Entry : spoiled'[e] = spoiled[e] /\ short'[e] = short[e]
      BY <1>1, <1>2, <2>5
    <2>7. ~short'[pos] => Len(j) = c + Len(data) /\ Gapless(j)
      BY <2>4, <2>5
    <2> QED BY <2>1, <2>3, <2>4, <2>6, <2>7 DEF c
  <1>4. CASE /\ data # <<>> /\ (short[pos] \/ faults < MaxFaults)
             /\ faults' = IF short[pos] THEN faults ELSE faults + 1
             /\ \E w \in 0..(Len(data) - 1) : dest' = [dest EXCEPT ![pos] = dest[pos] \o First(data, w)]
             /\ short' = [short EXCEPT ![pos] = TRUE]
             /\ spoiled' = [spoiled EXCEPT ![pos] = TRUE]
    <2>1. PICK w \in 0..(Len(data) - 1) : dest' = [dest EXCEPT ![pos] = dest[pos] \o First(data, w)]
      BY <1>4
    <2> DEFINE f == First(data, w)
               j == d \o f
    <2>2. f \in Seq(Element) /\ Len(f) = w /\ w <= Len(data) /\ \A i \in 1..w : f[i] = data[i]
      <3>1. w \in 0..Len(data) /\ w <= Len(data)
        BY <1>1
      <3> QED BY <3>1, FirstFacts
    <2> HIDE DEF f
    <2>3. ASSUME NEW i \in 1..Len(f) PROVE f[i] = [req |-> req, at |-> c + i]
      <3>1. i \in 1..Len(data) /\ f[i] = data[i]
        BY <1>1, <2>2
      <3> QED BY <1>2, <3>1
    <2>4. j \in Seq(Element) /\ Len(j) = Len(d) + Len(f) /\ OfResponse(j, req, c + Len(data))
      BY <1>1, <1>2, <2>2, <2>3, Grown
    <2>5. dest' = [dest EXCEPT ![pos] = j]
      BY <2>1 DEF d, f
    <2> HIDE DEF j
    <2>6. /\ dest' \in [Entry -> Seq(Element)] /\ dest'[pos] = j
          /\ \A e \in Entry \ {pos} : dest'[e] = dest[e]
      BY <1>1, <2>4, <2>5
    <2>7. /\ spoiled' \in [Entry -> BOOLEAN] /\ spoiled'[pos]
          /\ short' \in [Entry -> BOOLEAN] /\ short'[pos]
          /\ \A e \in Entry \ {pos} : spoiled'[e] = spoiled[e] /\ short'[e] = short[e]
      BY <1>1, <1>4
    <2>8. Len(j) <= c + Len(data)
      BY <1>1, <1>2, <2>2, <2>4
    <2>9. faults' \in 0..MaxFaults
      BY <1>1, <1>4
    <2> QED BY <2>4, <2>6, <2>7, <2>8, <2>9 DEF c
  <1> QED BY <1>3, <1>4 DEF siteFileWrite

(* A block of the response: one that ends the copy ends it rightly, any    *)
(* other goes to the end of the file.                                      *)
LEMMA CopyBlockStep ==
    ASSUME DInv, CopyBlock PROVE DInv'
PROOF
  <1> DEFINE want == SB_DATA_SIZE - Len(rb.buf)
  <1>0. /\ pc = "copy" /\ source[pos] = "http"
        /\ UNCHANGED <<skipped, exists, kind, source, newer, link, req, header>>
    BY DEF CopyBlock, fixedVars
  <1>1. TypeOK /\ Walking /\ Wire /\ Clean /\ Body /\ Copied /\ OwnBytes /\ FinishedUnlessSpoiled
    BY DEF DInv
  <1>2. PICK k \in IF want > 0 THEN Appended(want) ELSE {0} :
            LET b == AppendTo(k)
                n == Least(Len(b.buf), SB_DATA_SIZE)
            IN  /\ conn' = Drop(conn, k)
                /\ IF want > 0 /\ AppendFails(want, k)
                   THEN /\ rb' = b
                        /\ Conclude("FAILED") /\ UNCHANGED <<dest, short, faults, spoiled>>
                   ELSE /\ rb' = [b EXCEPT !.buf = Drop(b.buf, n)]
                        /\ IF n = 0
                           THEN Conclude("FINISHED") /\ UNCHANGED <<dest, short, faults, spoiled>>
                           ELSE /\ siteFileWrite(First(b.buf, n))
                                /\ UNCHANGED <<state, pos, pc, cmd, given>>
    BY DEF CopyBlock
  <1>3. /\ conn \in Seq(Element) /\ Len(conn) \in Nat /\ rb.buf \in Seq(Element) /\ Len(rb.buf) \in Nat
        /\ rb.escape \in Nat /\ FileLen \in Nat \ {0} /\ SB_DATA_SIZE \in Nat \ {0} /\ pos \in Entry
    BY <1>1, LenProperties, DownloadAssumption DEF TypeOK
  <1>4. /\ k \in 0..Len(conn) /\ (k = 0 \/ rb.mode = "known")
        /\ want > 0 /\ rb.mode = "known" /\ k = 0 => Len(conn) = 0 /\ link # "up"
    <2>1. CASE want > 0 /\ rb.mode = "known"
      <3>1. k \in 0..Least(want, Len(conn)) /\ ((k = Len(conn) /\ link # "up") \/ k > 0)
        BY <1>2, <2>1 DEF Appended
      <3>2. want \in Int
        BY <1>3
      <3>3. k \in 0..Len(conn)
        BY <1>3, <3>1, <3>2 DEF Least
      <3> QED BY <1>3, <2>1, <3>1, <3>3
    <2>2. CASE ~(want > 0 /\ rb.mode = "known")
      <3>1. k = 0
        BY <1>2, <2>2 DEF Appended
      <3> QED BY <1>3, <2>2, <3>1
    <2> QED BY <2>1, <2>2
  <1> DEFINE b == AppendTo(k)
             u == b.buf
             rest == Drop(conn, k)
             n == Least(Len(u), SB_DATA_SIZE)
  <1>5. /\ u \in Seq(Element) /\ Len(u) = Len(rb.buf) + k
        /\ b \in [buf : Seq(Element), escape : Nat, total : Nat,
                  mode : {"unknown", "token", "known", "chunk", "complete"}]
        /\ b.escape = rb.escape + k /\ b.total = FileLen /\ b.mode \in {"known", "complete"}
        /\ b.mode = "complete" <=> rb.escape + k = FileLen
        /\ \A i \in 1..(Len(rb.buf) + k) : u[i] = [req |-> req, at |-> Consumed + i]
        /\ rest \in Seq(Element) /\ Len(rest) = Len(conn) - k
        /\ \A i \in 1..(Len(conn) - k) : rest[i] = [req |-> req, at |-> rb.escape + k + i]
        /\ rb.escape + k <= FileLen
    BY <1>0, <1>4, AppendFacts
  <1>6. /\ conn' = rest
        /\ IF want > 0 /\ AppendFails(want, k)
           THEN /\ rb' = b
                /\ Conclude("FAILED") /\ UNCHANGED <<dest, short, faults, spoiled>>
           ELSE /\ rb' = [b EXCEPT !.buf = Drop(u, n)]
                /\ IF n = 0
                   THEN Conclude("FINISHED") /\ UNCHANGED <<dest, short, faults, spoiled>>
                   ELSE /\ siteFileWrite(First(u, n))
                        /\ UNCHANGED <<state, pos, pc, cmd, given>>
    BY <1>2
  <1> HIDE DEF b, u, rest
  <1>7. /\ k \in Nat /\ k <= Len(conn) /\ Len(u) \in Nat /\ n \in 0..Len(u) /\ n <= SB_DATA_SIZE
        /\ n = 0 => Len(u) = 0
    <2>1. k \in Nat /\ k <= Len(conn) /\ Len(u) \in Nat
      BY <1>3, <1>4, <1>5
    <2>2. n \in {Len(u), SB_DATA_SIZE} /\ n <= Len(u) /\ n <= SB_DATA_SIZE
      BY <1>3, <2>1, LeastFacts
    <2> QED BY <1>3, <2>1, <2>2
  <1> HIDE DEF n
  <1>8. HeaderAt' = {}
    <2>1. ASSUME NEW p \in 1..Len(conn') PROVE conn'[p].at # 0
      <3>1. p \in 1..(Len(conn) - k) /\ conn'[p] = rest[p]
        BY <1>5, <1>6, <2>1
      <3>2. rest[p] = [req |-> req, at |-> rb.escape + k + p]
        BY <1>5, <3>1
      <3>3. rb.escape + k + p # 0
        BY <1>3, <1>7, <2>1
      <3> QED BY <3>1, <3>2, <3>3
    <2> QED BY <2>1 DEF HeaderAt
  <1>9. /\ Consumed >= 0 /\ Consumed \in Int
        /\ rb.mode \in {"known", "complete"} /\ (rb.mode = "complete" <=> rb.escape = FileLen)
        /\ rb.escape + Len(conn) <= FileLen
        /\ link = "up" => rb.escape + Len(conn) = FileLen
        /\ NoUpdate => header = <<[req |-> req, at |-> 0]>>
    BY <1>0, <1>1, <1>3 DEF Body, Consumed
  <1>10. b.mode = "complete" => conn' = <<>>
    <2>1. ASSUME b.mode = "complete" PROVE Len(rest) = 0
      BY SMTT(30), <1>3, <1>5, <1>7, <1>9, <2>1
    <2> QED BY <1>5, <1>6, <2>1, EmptySeq
  <1>11. rb'.mode = b.mode /\ rb'.escape = b.escape /\ rb'.total = b.total
    BY <1>5, <1>6
  <1>12. Reusable(rb)' => conn' = <<>>
    BY <1>5, <1>10, <1>11 DEF Reusable
  <1>13. CASE want > 0 /\ AppendFails(want, k)
    <2>1. rb' = b /\ Conclude("FAILED") /\ UNCHANGED <<dest, short, faults, spoiled>>
      BY <1>6, <1>13
    <2>2. /\ pos' \in Entry /\ pc' \in {"entry", "idle"} /\ cmd' = cmd /\ given' = given
          /\ state' \in [Entry -> {"QUEUED", "FINISHED", "FAILED"}]
          /\ Walking' /\ OwnBytes' /\ FinishedUnlessSpoiled'
      BY <1>0, <2>1, Concluded
    <2>3. TypeOK'
      BY <1>0, <1>1, <1>5, <1>6, <2>1, <2>2 DEF TypeOK
    <2> QED BY <1>8, <1>12, <2>2, <2>3, AtRest
  <1>14. CASE ~(want > 0 /\ AppendFails(want, k)) /\ n = 0
    <2>1. /\ rb' = [b EXCEPT !.buf = Drop(u, n)]
          /\ Conclude("FINISHED") /\ UNCHANGED <<dest, short, faults, spoiled>>
      BY <1>6, <1>14
    <2>2. Len(rb.buf) = 0 /\ k = 0 /\ want > 0
      BY <1>3, <1>5, <1>7, <1>14
    <2>3. Complete(pos) \/ spoiled[pos]
      <3>1. CASE rb.mode = "known"
        <4>1. link # "up"
          BY <1>4, <2>2, <3>1
        <4> QED BY <1>0, <1>1, <4>1 DEF Copied
      <3>2. CASE rb.mode = "complete"
        <4>1. Consumed = FileLen
          BY <1>3, <1>9, <2>2, <3>2 DEF Consumed
        <4> QED BY <1>0, <1>1, <4>1 DEF Copied, Complete
      <3> QED BY <1>9, <3>1, <3>2
    <2>4. /\ pos' \in Entry /\ pc' \in {"entry", "idle"} /\ cmd' = cmd /\ given' = given
          /\ state' \in [Entry -> {"QUEUED", "FINISHED", "FAILED"}]
          /\ Walking' /\ OwnBytes' /\ FinishedUnlessSpoiled'
      BY <1>0, <2>1, <2>3, Concluded
    <2>5. rb' \in [buf : Seq(Element), escape : Nat, total : Nat,
                   mode : {"unknown", "token", "known", "chunk", "complete"}]
      <3>1. Drop(u, n) \in Seq(Element)
        BY <1>5, <1>7, DropFacts
      <3> QED BY <1>5, <2>1, <3>1
    <2>6. TypeOK'
      BY <1>0, <1>1, <1>5, <1>6, <2>1, <2>4, <2>5 DEF TypeOK
    <2> QED BY <1>8, <1>12, <2>4, <2>6, AtRest
  <1>15. CASE ~(want > 0 /\ AppendFails(want, k)) /\ n # 0
    <2> DEFINE data == First(u, n)
               left == Drop(u, n)
    <2>1. /\ rb' = [b EXCEPT !.buf = left] /\ siteFileWrite(data)
          /\ UNCHANGED <<state, pos, pc, cmd, given>>
      BY <1>6, <1>15
    <2>2. data \in Seq(Element) /\ Len(data) = n /\ \A i \in 1..n : data[i] = u[i]
      BY <1>5, <1>7, FirstFacts
    <2>3. /\ left \in Seq(Element) /\ Len(left) = Len(u) - n
          /\ \A i \in 1..(Len(u) - n) : left[i] = u[n + i]
      BY SMTT(30), <1>5, <1>7, DropFacts
    <2> HIDE DEF data, left
    <2>4. rb'.buf = left /\ rb' \in [buf : Seq(Element), escape : Nat, total : Nat,
                                     mode : {"unknown", "token", "known", "chunk", "complete"}]
      BY <1>5, <2>1, <2>3
    <2>5. Consumed' = Consumed + n
      <3>1. Len(rb'.buf) = Len(rb.buf) + k - n /\ rb'.escape = rb.escape + k
        <4>1. Len(rb'.buf) = Len(left) /\ Len(left) = Len(u) - n /\ Len(u) = Len(rb.buf) + k
          BY <1>5, <2>3, <2>4
        <4>2. rb'.escape = rb.escape + k
          BY <1>5, <1>11
        <4> QED BY <1>3, <1>7, <4>1, <4>2
      <3>2. k \in Int /\ n \in Int
        BY <1>7
      <3> QED BY <1>3, <3>1, <3>2 DEF Consumed
    <2>6. ASSUME NEW i \in 1..Len(data) PROVE data[i] = [req |-> req, at |-> Consumed + i]
      <3>1. i \in 1..n /\ i \in 1..(Len(rb.buf) + k)
        BY <1>5, <1>7, <2>2
      <3>2. data[i] = u[i]
        BY <2>2, <3>1
      <3>3. u[i] = [req |-> req, at |-> Consumed + i]
        BY <1>5, <3>1
      <3> QED BY <3>2, <3>3
    <2>7. /\ dest' \in [Entry -> Seq(Element)] /\ short' \in [Entry -> BOOLEAN]
          /\ faults' \in 0..MaxFaults /\ spoiled' \in [Entry -> BOOLEAN]
          /\ \A e \in Entry \ {pos} :
                dest'[e] = dest[e] /\ spoiled'[e] = spoiled[e] /\ short'[e] = short[e]
          /\ Len(dest'[pos]) <= Consumed + Len(data)
          /\ OfResponse(dest'[pos], req, Consumed + Len(data))
          /\ ~short'[pos] => Len(dest'[pos]) = Consumed + Len(data) /\ Gapless(dest'[pos])
          /\ short'[pos] => spoiled'[pos]
          /\ ~spoiled'[pos] => ~spoiled[pos]
      <3>1. Consumed \in Nat
        BY <1>9
      <3> QED BY <1>0, <2>1, <2>2, <2>6, <3>1, WriteFacts
    <2>8. TypeOK'
      BY <1>0, <1>1, <1>5, <1>6, <2>1, <2>4, <2>7 DEF TypeOK
    <2>9. Walking' /\ ~Fetching' /\ (NoUpdate' <=> NoUpdate)
      BY <1>0, <1>1, <2>1 DEF Walking, Fetching, NoUpdate
    <2>10. Wire' /\ Clean'
      BY <1>8, <1>12, <2>9 DEF Wire, Clean
    <2>11. ASSUME NEW i \in 1..Len(rb'.buf) PROVE rb'.buf[i] = [req |-> req, at |-> Consumed' + i]
      <3>1. i \in 1..(Len(u) - n) /\ n + i \in 1..(Len(rb.buf) + k) /\ Consumed + (n + i) = Consumed' + i
        BY SMTT(30), <1>3, <1>5, <1>7, <1>9, <2>3, <2>4, <2>5
      <3>2. left[i] = u[n + i]
        BY <2>3, <3>1
      <3>3. u[n + i] = [req |-> req, at |-> Consumed + (n + i)]
        BY <1>5, <3>1
      <3> QED BY <2>4, <3>1, <3>2, <3>3
    <2>12. ASSUME NEW i \in 1..Len(conn') PROVE conn'[i] = [req |-> req, at |-> rb'.escape + i]
      <3>1. i \in 1..(Len(conn) - k) /\ conn'[i] = rest[i] /\ rb'.escape = rb.escape + k
        BY <1>5, <1>6, <1>11, <2>12
      <3>2. rest[i] = [req |-> req, at |-> rb.escape + k + i]
        BY <1>5, <3>1
      <3> QED BY <3>1, <3>2
    <2>13. /\ Consumed' >= 0 /\ rb'.total = FileLen /\ rb'.mode \in {"known", "complete"}
           /\ rb'.mode = "complete" <=> rb'.escape = FileLen
           /\ rb'.escape + Len(conn') <= FileLen
           /\ link' = "up" => rb'.escape + Len(conn') = FileLen
      <3>1. /\ rb'.total = FileLen /\ rb'.mode \in {"known", "complete"}
            /\ rb'.mode = "complete" <=> rb'.escape = FileLen
        BY <1>5, <1>11
      <3>2. Consumed' >= 0
        BY <1>7, <1>9, <2>5
      <3>3. rb'.escape + Len(conn') = rb.escape + Len(conn)
        BY <1>3, <1>5, <1>6, <1>7, <1>11
      <3> QED BY <1>0, <1>9, <3>1, <3>2, <3>3
    <2>14. Body'
      <3>1. NoUpdate' => header' = <<[req |-> req', at |-> 0]>>
        BY <1>0, <1>9, <2>9
      <3>2. pc' # "write" /\ req' = req
        BY <1>0, <2>1
      <3> QED BY <2>11, <2>12, <2>13, <3>1, <3>2 DEF Body
    <2>15. /\ Len(dest'[pos]) <= Consumed' /\ OfResponse(dest'[pos], req, Consumed')
           /\ ~short'[pos] => Len(dest'[pos]) = Consumed' /\ Gapless(dest'[pos])
      BY <2>2, <2>5, <2>7
    <2>16. Copied'
      <3>1. ~spoiled'[pos] => link' = "up"
        BY <1>0, <1>1, <2>7 DEF Copied
      <3>2. pos' = pos /\ req' = req
        BY <1>0, <2>1
      <3> QED BY <2>7, <2>15, <3>1, <3>2 DEF Copied
    <2>17. Consumed' <= FileLen
      <3>1. /\ rb'.escape = rb.escape + k /\ rb.escape + k <= FileLen /\ Len(rb'.buf) = Len(u) - n
            /\ Len(u) - n >= 0
        BY <1>5, <1>7, <1>11, <2>3, <2>4
      <3> QED BY <1>3, <1>7, <3>1 DEF Consumed
    <2>18. OwnBytes'
      <3>1. SUFFICES ASSUME NEW e \in Entry, dest'[e] # Old
                     PROVE  /\ Len(dest'[e]) <= FileLen
                            /\ \A i \in 1..Len(dest'[e]) :
                                  /\ dest'[e][i].at \in 1..FileLen
                                  /\ dest'[e][i].req = dest'[e][1].req
                                  /\ \A j \in 1..i - 1 : dest'[e][j].at < dest'[e][i].at
                                  /\ ~short'[e] => dest'[e][i].at = i
        BY DEF OwnBytes
      <3>2. CASE e = pos
        <4>1. Len(dest'[e]) \in Nat /\ Consumed' \in Int /\ Len(dest'[e]) <= FileLen
          <5>1. Len(dest'[e]) \in Nat /\ Consumed' \in Int
            BY <1>7, <1>9, <2>5, <2>7, LenProperties
          <5> QED BY <1>3, <2>15, <2>17, <3>2, <5>1
        <4>2. ASSUME NEW i \in 1..Len(dest'[e])
              PROVE  /\ dest'[e][i].req = req /\ dest'[e][i].at \in 1..Consumed'
                     /\ \A j \in 1..i - 1 : dest'[e][j].at < dest'[e][i].at
                     /\ ~short'[e] => dest'[e][i].at = i
          BY <2>15, <3>2, <4>2 DEF OfResponse, Gapless
        <4>3. ASSUME NEW i \in 1..Len(dest'[e])
              PROVE  dest'[e][i].at \in 1..FileLen /\ dest'[e][i].req = dest'[e][1].req
          <5>1. 1 \in 1..Len(dest'[e])
            BY <4>1
          <5> QED BY <1>3, <2>17, <4>1, <4>2, <5>1
        <4> QED BY <4>1, <4>2, <4>3
      <3>3. CASE e # pos
        <4>1. dest'[e] = dest[e] /\ short'[e] = short[e]
          BY <2>7, <3>3
        <4> QED BY <1>1, <3>1, <4>1 DEF OwnBytes
      <3> QED BY <3>2, <3>3
    <2>19. FinishedUnlessSpoiled'
      <3>1. SUFFICES ASSUME NEW e \in Entry, state[e] = "FINISHED", ~skipped[e], source[e] = "http"
                     PROVE  Complete(e)' \/ spoiled'[e]
        BY <1>0, <2>1 DEF FinishedUnlessSpoiled
      <3>2. e # pos
        BY <1>0, <1>1, <3>1 DEF Walking
      <3>3. dest'[e] = dest[e] /\ spoiled'[e] = spoiled[e]
        BY <2>7, <3>2
      <3> QED BY <1>1, <3>1, <3>3 DEF FinishedUnlessSpoiled, Complete
    <2> QED BY <2>8, <2>9, <2>10, <2>14, <2>16, <2>18, <2>19 DEF DInv
  <1> QED BY <1>13, <1>14, <1>15

-----------------------------------------------------------------------------
(* The theorems.                                                           *)

LEMMA DownloadNext ==
    ASSUME DInv, [Next]_vars PROVE DInv'
PROOF
  <1>1. CASE Command
    BY <1>1, CommandStep
  <1>2. CASE DownloadEntry
    BY <1>2, EntryStep
  <1>3. CASE StatLocal
    BY <1>3, StatLocalStep
  <1>4. CASE StatSend
    BY <1>4, StatSendStep
  <1>5. CASE StatHeader
    BY <1>5, StatHeaderStep
  <1>6. CASE OpenSend
    BY <1>6, OpenSendStep
  <1>7. CASE OpenHeader
    BY <1>7, OpenHeaderStep
  <1>8. CASE OpenLocal
    BY <1>8, OpenLocalStep
  <1>9. CASE OpenWrite
    BY <1>9, OpenWriteStep
  <1>10. CASE CopyBlock
    BY <1>10, CopyBlockStep
  <1>11. CASE CopyLocal
    BY <1>11, CopyLocalStep
  <1>12. CASE ServerCloses
    BY <1>12, ServerClosesStep
  <1>14. CASE ParsePage
    BY <1>14, ParsePageStep
  <1>15. CASE PageWaitEnds
    BY <1>15, PageWaitEndsStep
  <1>13. CASE UNCHANGED vars
    <2>1. UNCHANGED <<cmd, pos, pc, given, state, skipped, kind, source, newer, exists, dest, short, rb,
                      conn, link, req, header, faults, spoiled>>
      BY <1>13 DEF vars, queueVars, fixedVars, fileVars, netVars
    <2>2. (NoUpdate' <=> NoUpdate) /\ (Fetching' <=> Fetching) /\ HeaderAt' = HeaderAt
          /\ Consumed' = Consumed /\ (Reusable(rb)' <=> Reusable(rb))
      BY <2>1 DEF NoUpdate, Fetching, HeaderAt, Consumed, Reusable
    <2>3. TypeOK /\ Walking /\ Wire /\ Clean /\ Body /\ Copied /\ OwnBytes /\ FinishedUnlessSpoiled
      BY DEF DInv
    <2>4. TypeOK' /\ Walking'
      BY <2>1, <2>2, <2>3 DEF TypeOK, Walking
    <2>5. Wire' /\ Clean'
      BY <2>1, <2>2, <2>3 DEF Wire, Clean
    <2>6. Body'
      BY <2>1, <2>2, <2>3 DEF Body
    <2>7. Copied'
      BY <2>1, <2>2, <2>3 DEF Copied
    <2>8. OwnBytes' /\ FinishedUnlessSpoiled'
      BY <2>1, FilesSame
    <2> QED BY <2>4, <2>5, <2>6, <2>7, <2>8 DEF DInv
  <1> QED
    BY <1>1, <1>2, <1>3, <1>4, <1>5, <1>6, <1>7, <1>8, <1>9, <1>10, <1>11, <1>12, <1>13,
       <1>14, <1>15
    DEF Next, ClientStep

(* The queue, the connection, the buffer and the destination stay in step  *)
(* (dl.c's commands, queue.c, http.c, recvbufr.c, file.c): the invariant   *)
(* the theorems below follow from.                                         *)
THEOREM DownloadInvariant == Spec => []DInv
PROOF
  <1>1. Init => DInv
    BY InitHolds
  <1>2. DInv /\ [Next]_vars => DInv'
    BY DownloadNext
  <1> QED BY <1>1, <1>2, PTL DEF Spec

(* Whatever a download leaves at the destination are bytes of the one file *)
(* it asked for, in their order (httpSiteSchemeFileRead, siteFileWrite),   *)
(* and a beginning of it unless a write was short: also after an UPDATE    *)
(* has left the body of its stat on the connection.                        *)
THEOREM OnlyOwnBytes == Spec => []OwnBytes
PROOF
  <1>1. DInv => OwnBytes
    BY DEF DInv
  <1> QED BY <1>1, DownloadInvariant, PTL

(* As long as no UPDATE was given, what ioHttpResponseHeaderRead takes for *)
(* the header of a response is the header of that response alone.          *)
THEOREM HeadersOwn == Spec => []HeaderOwnUnlessUpdated
PROOF
  <1>1. DInv => HeaderOwnUnlessUpdated
    BY DEF DInv, Body, HeaderOwnUnlessUpdated, HeaderOwn, NoUpdate
  <1> QED BY <1>1, DownloadInvariant, PTL

(* queue.c's downloads end FINISHED with the whole file, unless a closed   *)
(* connection or a short write hit the copy, which the read and the write    *)
(* both report as success.                                                 *)
THEOREM FinishedComplete == Spec => []FinishedUnlessSpoiled
PROOF
  <1>1. DInv => FinishedUnlessSpoiled
    BY DEF DInv
  <1> QED BY <1>1, DownloadInvariant, PTL

(* QUEUE START looks before it opens (queueEntryDownloadNoClobber): no     *)
(* step of it changes a file that was there, save the one it is copying.   *)
THEOREM StartClobbersNothing == Spec => NoClobber
PROOF
  <1> DEFINE A == \A e \in Entry :
                    cmd = "START" /\ exists[e] /\ ~(pc = "copy" /\ pos = e) => dest'[e] = dest[e]
  <1>1. DInv /\ [Next]_vars => [A]_vars
    <2> SUFFICES ASSUME DInv, Next PROVE A
      OBVIOUS
    <2>1. TypeOK /\ Walking
      BY DEF DInv
    <2>2. CASE OpenWrite
      <3>1. pc = "write" /\ (dest' = [dest EXCEPT ![pos] = <<>>] \/ dest' = dest)
        BY <2>2 DEF OpenWrite
      <3>2. cmd = "START" => ~exists[pos]
        BY <2>1, <3>1 DEF Walking
      <3> QED BY <2>1, <3>1, <3>2 DEF TypeOK
    <2>3. CASE CopyBlock
      <3>1. pc = "copy"
        BY <2>3 DEF CopyBlock
      <3>2. ASSUME NEW data, siteFileWrite(data) PROVE \A e \in Entry \ {pos} : dest'[e] = dest[e]
        BY <2>1, <3>2 DEF siteFileWrite, TypeOK
      <3>3. dest' = dest \/ \E data : siteFileWrite(data)
        BY <2>3 DEF CopyBlock
      <3> QED BY <3>1, <3>2, <3>3
    <2>4. CASE ~OpenWrite /\ ~CopyBlock
      <3>1. dest' = dest
        BY <2>4 DEF Next, Command, ClientStep, DownloadEntry, StatLocal, StatSend, StatHeader, OpenSend,
                    OpenHeader, ParsePage, PageWaitEnds, OpenLocal, CopyLocal, ServerCloses, fileVars
      <3> QED BY <3>1
    <2> QED BY <2>2, <2>3, <2>4
  <1> QED BY <1>1, DownloadInvariant, PTL DEF Spec, NoClobber

=============================================================================
