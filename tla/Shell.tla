------------------------------- MODULE Shell --------------------------------
(***************************************************************************)
(* The download client's shell (cli/dl.c): the commands that mount,        *)
(* unmount and select sites (client/site.c, the SiteArray), change their   *)
(* working directories, and build, show and prune the queue                *)
(* (client/queue.c, the QueueEntryArray).                                  *)
(*                                                                         *)
(* A queue entry keeps `Site *' pointers into the SiteArray.  A pointer is *)
(* the block it points into and an index; `block' changes when realloc()   *)
(* moves the array.  Indices are the C ones, from 0; -1 is "no site".      *)
(* A site is its fullUri, in its parts; what a server answers is left open *)
(* here (module Browse), and what a download does (module Download).       *)
(***************************************************************************)
EXTENDS Uri, FiniteSets

CONSTANTS
    Address,       \* what host names resolve to: a function of the known ones
    MountUri,      \* the addresses given to MOUNT
    LocalDir,      \* the local directories, as sequences of names
    Here,          \* the directory the program is started in, one of them
    CdPath,        \* the paths given to CD, DIR and LS
    CopyCommand,   \* COPY and XCOPY: the path, and whether it is the latter
    SearchText,    \* what QUEUE FIND and REMOVE are given to search for: texts and numbers
    MaxPath,       \* bound: characters of a remote working directory
    MaxSites,      \* bound: sites mounted over the program's life
    MaxUmounts,    \* bound: sites unmounted
    MaxMoves,      \* bound: times realloc() moves the array
    MaxHeld        \* bound: sites and queue entries there are together

ASSUME ShellAssumption ==
    /\ Here \in LocalDir
    /\ {MaxPath, MaxSites, MaxUmounts, MaxMoves, MaxHeld} \subseteq Nat

VARIABLES
    sites,                   \* SiteArray.array: the working directory of each, and an id that tells
                             \* them apart
    activeRead, activeWrite, \* SiteArray's indices
    block,                   \* which heap block the array is
    queue,                   \* queueEntryArray; <<>> stands for NULL.  `meant' is history: what COPY
                             \* resolved its path to, until a site is mounted or unmounted
    chosen,                  \* history: the sites last mounted or selected, for reading and writing
    mounts, umounts,         \* history: sites mounted and unmounted
    ended                    \* what ended the program, "no" while it runs

siteVars == <<sites, activeRead, activeWrite, chosen, block, mounts, umounts>>
vars == <<siteVars, queue, ended>>

Index == 0..(Len(sites) - 1)

(* siteArrayActiveGetNth, siteArrayActiveGetWriteNth and siteArrayGet.     *)
InRange(n) == IF n \in Index THEN n ELSE -1

(* Which site an index means; 0 when it means none.                        *)
ActiveId(n) == IF n \in Index THEN sites[n + 1].id ELSE 0

(* siteWorkingDirectoryGet.                                                *)
WorkingDirectory(n) == sites[n + 1].wd

IsFile(details) == uriDetailsGetScheme(details) = SchemePort.file
IsHttp(details) == uriDetailsGetScheme(details) = SchemePort.http

(* uriDetailsGetHostAddr.                                                  *)
HostAddr(details) == IF details.host \in DOMAIN Address THEN Address[details.host] ELSE NULL

(* SiteArrayGetByUriHostNth: any local site, or the first site of the same *)
(* address, whatever its port.                                             *)
Serves(n, details) ==
    \/ IsFile(details) /\ IsFile(WorkingDirectory(n))
    \/ /\ IsHttp(details) /\ ~IsFile(WorkingDirectory(n))
       /\ HostAddr(WorkingDirectory(n)) = HostAddr(details)

(* Mutant: the kind of the site is not compared.                           *)
ByUriAnyKind(uri) ==
    LET serving == {n \in Index : HostAddr(WorkingDirectory(n)) = HostAddr(uriDetailsNewFrom(uri))
                                    \/ IsFile(WorkingDirectory(n))}
    IN  IF serving = {} THEN -1 ELSE CHOOSE i \in serving : \A j \in serving : i <= j

ByUriHost(uri) ==
    LET d == uriDetailsNewFrom(uri)
        serving == {n \in Index : Serves(n, d)}
    IN  IF serving = {} THEN -1 ELSE CHOOSE i \in serving : \A j \in serving : i <= j

(* The address of an unknown host, NULL, is compared with that of every    *)
(* HTTP site.                                                              *)
LookupCrashes(uri) ==
    LET d == uriDetailsNewFrom(uri)
    IN  /\ IsHttp(d) /\ HostAddr(d) = NULL
        /\ \E n \in Index : ~IsFile(WorkingDirectory(n))

(* siteArrayGetFromInputNth, of "#", ">" and "+": a number or an address.  *)
FromInput(input) ==
    IF At(input, 1) \in Digit /\ DigitValue(input[1]) \in Index THEN DigitValue(input[1])
    ELSE ByUriHost(input)

(* &array[n]; NULL for -1.                                                 *)
Pointer(n) == [block |-> IF n = -1 THEN 0 ELSE block, idx |-> n]

Valid(p) == p.block = block /\ p.idx \in Index

(* The end of the program, and with it of its memory.                      *)
Ends(why) ==
    /\ ended' = why
    /\ sites' = <<>> /\ queue' = <<>>
    /\ activeRead' = -1 /\ activeWrite' = -1 /\ chosen' = [read |-> 0, write |-> 0]
    /\ block' = 0 /\ mounts' = 0 /\ umounts' = 0

-----------------------------------------------------------------------------
(* client/site/file.c: the local site.                                     *)

(* platformPathSystemToFileScheme, through realpath().                     *)
FileUri(names) ==
    [NoDetails EXCEPT !.scheme = <<"file">>, !.host = <<>>,
        !.path = IF names = <<>> THEN Slash ELSE FlattenSeq([i \in DOMAIN names |-> Slash \o names[i]])]

IsDirectory(path) == path # NULL /\ At(path, 1) = "/" /\ Components(path) \in LocalDir

(* fileSiteSchemeNew: MOUNT of a local directory, or the one the program   *)
(* was started in.                                                         *)
fileSiteSchemeNew(details) ==
    IF details = NULL THEN FileUri(Here)
    ELSE IF IsDirectory(details.path) THEN FileUri(Components(details.path)) ELSE NULL

(* fileSiteSchemeWorkingDirectorySet: where the site may be afterwards.    *)
fileSiteSchemeWorkingDirectorySet(wd, path) ==
    {IF IsDirectory(p) THEN FileUri(Components(p)) ELSE wd : p \in uriPathAbsoluteAppend(wd.path, path)}

-----------------------------------------------------------------------------
(* siteArrayInit, from InteractiveMode.                                    *)
Init ==
    /\ sites = <<[wd |-> fileSiteSchemeNew(NULL), id |-> 1]>>
    /\ activeRead = 0 /\ activeWrite = 0 /\ chosen = [read |-> 1, write |-> 1] /\ block = 0
    /\ queue = <<>> /\ mounts = 1 /\ umounts = 0
    /\ ended = "no"

Forgotten == [i \in DOMAIN queue |-> [queue[i] EXCEPT !.meant = NULL]]

(* siteNew: a server that answers gives the site its address (Browse).     *)
siteNew(d) ==
    IF d.host = NULL THEN NULL
    ELSE IF IsFile(d) THEN fileSiteSchemeNew(d)
    ELSE IF uriDetailsGetScheme(d) \notin {SchemePort.http, SchemePort.https} \/ HostAddr(d) = NULL THEN NULL
    ELSE IF d.path = NULL THEN [d EXCEPT !.path = Slash] ELSE d

(* siteArrayAdd: the realloc() may move the array, which only entries that *)
(* point into it can tell.                                                 *)
siteArrayAdd(wd) ==
    /\ sites' = Append(sites, [wd |-> wd, id |-> mounts + 1])
    /\ block' \in IF queue = <<>> THEN {block} ELSE {b \in {block, block + 1} : b <= MaxMoves}

(* MountSite, which also makes the new site the active one.                *)
Mount(uri) ==
    /\ mounts < MaxSites /\ Len(sites) + Len(queue) < MaxHeld
    /\ siteNew(uriDetailsNewFrom(uri)) # NULL
    /\ siteArrayAdd(siteNew(uriDetailsNewFrom(uri)))
    /\ activeRead' = Len(sites) /\ chosen' = [chosen EXCEPT !.read = mounts + 1]
    /\ mounts' = mounts + 1
    /\ queue' = Forgotten
    /\ UNCHANGED <<activeWrite, umounts, ended>>

(* MOUNT without a parameter lists the sites; when there is none it first  *)
(* calls siteArrayInit, which forgets the old block.                       *)
MountList ==
    /\ sites = <<>> /\ mounts < MaxSites /\ Len(queue) < MaxHeld
    /\ sites' = <<[wd |-> fileSiteSchemeNew(NULL), id |-> mounts + 1]>>
    /\ activeRead' = 0 /\ activeWrite' = 0
    /\ chosen' = [read |-> mounts + 1, write |-> mounts + 1]
    /\ block' = IF queue = <<>> THEN block ELSE block + 1
    /\ mounts' = mounts + 1
    /\ queue' = Forgotten
    /\ UNCHANGED <<umounts, ended>>

(* Mutant: the indices go down with the sites, but one too many of them.   *)
RemoveStepsBack(n) ==
    /\ sites' = SubSeq(sites, 1, n) \o SubSeq(sites, n + 2, Len(sites))
    /\ activeRead' = IF activeRead >= n THEN activeRead - 1 ELSE activeRead
    /\ activeWrite' = IF activeWrite >= n THEN activeWrite - 1 ELSE activeWrite

(* siteArrayRemoveNth: the sites above n move down; an index equal to n    *)
(* becomes -1, one above n stays as it is.                                 *)
siteArrayRemoveNth(n) ==
    /\ sites' = SubSeq(sites, 1, n) \o SubSeq(sites, n + 2, Len(sites))
    /\ activeRead' = IF activeRead = n THEN -1 ELSE activeRead
    /\ activeWrite' = IF activeWrite = n THEN -1 ELSE activeWrite

(* UMOUNT, of the active site or of one that is named: siteFree, then the  *)
(* search for the freed site by its bytes.                                 *)
Umount(n) ==
    /\ n \in Index /\ umounts < MaxUmounts
    /\ siteArrayRemoveNth(n)
    /\ umounts' = umounts + 1
    /\ queue' = Forgotten
    /\ UNCHANGED <<chosen, block, mounts, ended>>

(* "#" and ">#": siteArrayActiveSetNth.                                    *)
SelectRead(n) ==
    /\ n \in Index
    /\ activeRead' = n /\ chosen' = [chosen EXCEPT !.read = ActiveId(n)]
    /\ UNCHANGED <<sites, activeWrite, block, mounts, umounts, queue, ended>>

(* "+#".                                                                   *)
SelectWrite(n) ==
    /\ n \in Index
    /\ activeWrite' = n /\ chosen' = [chosen EXCEPT !.write = ActiveId(n)]
    /\ UNCHANGED <<sites, activeRead, block, mounts, umounts, queue, ended>>

(* ">" and "+" with an address, and UMOUNT with one.                       *)
SelectByAddress(uri) ==
    \/ LookupCrashes(uri) /\ Ends("null")
    \/ ~LookupCrashes(uri) /\ (SelectRead(FromInput(uri)) \/ SelectWrite(FromInput(uri)))

UmountByAddress(uri) ==
    \/ LookupCrashes(uri) /\ Ends("null")
    \/ ~LookupCrashes(uri) /\ Umount(FromInput(uri))

(* "+>".                                                                   *)
WriteHere ==
    /\ activeWrite' = InRange(activeRead) /\ chosen' = [chosen EXCEPT !.write = chosen.read]
    /\ UNCHANGED <<sites, activeRead, block, mounts, umounts, queue, ended>>

(* "+!".                                                                   *)
ReverseDirection ==
    /\ activeWrite' = InRange(activeRead)
    /\ activeRead' = InRange(activeWrite)
    /\ chosen' = [read |-> chosen.write, write |-> chosen.read]
    /\ UNCHANGED <<sites, block, mounts, umounts, queue, ended>>

-----------------------------------------------------------------------------
(* CD, DIR, LS and PWD on the active site, without a test whether there is *)
(* one.  A remote CD is answered by a server, which takes only what begins *)
(* with a divider.  A listing changes nothing here: the local one opens    *)
(* for "." only, a remote one is the business of module Browse.            *)

ChangeDirectory(path) ==
    LET n == InRange(activeRead)
        d == WorkingDirectory(n)
    IN  \/ n = -1 /\ Ends("null")
        \/ /\ n # -1
           /\ \E wd \in IF IsFile(d) THEN fileSiteSchemeWorkingDirectorySet(d, path)
                        ELSE {[d EXCEPT !.path = p] : p \in {q \in uriPathAbsoluteAppend(d.path, path) :
                                                                At(q, 1) = "/" /\ Len(q) <= MaxPath}} :
                sites' = [sites EXCEPT ![n + 1].wd = wd]
           /\ UNCHANGED <<activeRead, activeWrite, chosen, block, mounts, umounts, queue, ended>>

(* PWD, and DIR and LS with a path.                                        *)
ShowWithoutSite == InRange(activeRead) = -1 /\ Ends("null")

-----------------------------------------------------------------------------
(* siteArrayUserPathResolve: "#:path" from the trunk of a site by number,  *)
(* a whole address, or a path from a working directory.                    *)
siteArrayUserPathResolve(path, active) ==
    LET n == IF At(path, 1) \in Digit THEN InRange(DigitValue(path[1])) ELSE active
        d == WorkingDirectory(n)
        uri == uriDetailsNewFrom(path)
    IN  IF At(path, 1) \in Digit /\ Find(path, 2, <<":">>) > 0
        THEN IF n = -1 \/ At(path, 2) # ":" \/ Len(path) = 2 THEN {NULL}
             ELSE {uriDetailsCreateStringBase(d) \o From(path, 3)}
        ELSE IF Find(path, 1, <<":", "/", "/">>) > 0
        THEN {IF uri.path = NULL THEN NULL ELSE uriDetailsCreateString(uri)}
        ELSE IF active = -1 THEN {NULL}
        ELSE {IF p = NULL THEN NULL ELSE uriDetailsCreateString([WorkingDirectory(active) EXCEPT !.path = p]) :
                 p \in uriPathAbsoluteAppend(WorkingDirectory(active).path, path)}

(* The destination of a copy: the last name of the source in the working   *)
(* directory of the site for writing.                                      *)
Destination(source) ==
    LET w == WorkingDirectory(activeWrite)
    IN  IF uriPathLast(source) = NULL THEN {NULL}
        ELSE {IF p = NULL THEN NULL ELSE uriDetailsCreateString([w EXCEPT !.path = p]) :
                 p \in uriPathAbsoluteAppend(w.path, uriPathLast(source))}

(* queueEntryNewFromPath: the sites are found again by their addresses, a  *)
(* source that no mounted site serves as NULL.                             *)
queueEntryNewFromPath(source, destination, recursive) ==
    [src |-> Pointer(ByUriHost(source)), dst |-> Pointer(ByUriHost(destination)),
     sourcePath |-> uriDetailsNewFrom(source).path,
     destinationPath |-> uriDetailsNewFrom(destination).path,
     recursive |-> recursive,
     meant |-> [src |-> source, dst |-> destination]]

(* queueEntryArrayFindNth: equal pointers and equal paths.                 *)
Same(a, b) ==
    /\ a.src = b.src /\ a.dst = b.dst
    /\ a.sourcePath = b.sourcePath /\ a.destinationPath = b.destinationPath

(* Mutant: an equal entry is not looked for.                              *)
AppendTwice(q, entry) == Append(q, entry)

queueEntryArrayAppend(q, entry) ==
    IF \E i \in 1..Len(q) : Same(q[i], entry) THEN q ELSE Append(q, entry)

(* COPY and XCOPY, which say that they queued an entry also when an equal  *)
(* one was there, of either kind.                                          *)
Copy(path, recursive) ==
    /\ Len(sites) + Len(queue) < MaxHeld /\ InRange(activeWrite) # -1
    /\ \E s \in siteArrayUserPathResolve(path, InRange(activeRead)) \ {NULL} :
       \E d \in Destination(s) \ {NULL} :
        \/ LookupCrashes(s) /\ Ends("null")
        \/ /\ ~LookupCrashes(s)
           /\ queue' = queueEntryArrayAppend(queue, queueEntryNewFromPath(s, d, recursive))
           /\ UNCHANGED <<siteVars, ended>>

-----------------------------------------------------------------------------
(* queueEntryGetUri: the site's address with the entry's path.             *)
queueEntryGetUri(pointer, path) ==
    uriDetailsCreateString([WorkingDirectory(pointer.idx) EXCEPT !.path = path])

Readable == \A i \in 1..Len(queue) : Valid(queue[i].src) /\ Valid(queue[i].dst)

(* QUEUE LIST, FIND, START, UPDATE and MIRROR follow the pointers of the   *)
(* entries: the model goes no further than one that leads nowhere.  The    *)
(* queue itself stays as it is.                                            *)
FollowNull ==
    /\ \E i \in 1..Len(queue) : queue[i].src.idx = -1
    /\ Ends("null")

(* QUEUE CLEAR.                                                            *)
QueueClear ==
    /\ queue' = <<>>
    /\ UNCHANGED <<siteVars, ended>>

ContainsText(entry, text) ==
    \/ Find(queueEntryGetUri(entry.src, entry.sourcePath), 1, text) > 0
    \/ Find(queueEntryGetUri(entry.dst, entry.destinationPath), 1, text) > 0

(***************************************************************************)
(* queueEntryArraySearch: what may be found.  A number means the entry at  *)
(* that place; but 0, and any number while errno still holds an error of   *)
(* an earlier call, is searched for as text in both URIs of every entry.   *)
(***************************************************************************)
Hits(text) ==
    LET n == IF At(text, 1) \in Digit THEN DigitValue(text[1]) ELSE 0
    IN  (IF n = 0 THEN {} ELSE {IF n < Len(queue) THEN <<queue[n + 1]>> ELSE <<>>})
        \cup (IF Readable THEN {SelectSeq(queue, LAMBDA entry : ContainsText(entry, text))} ELSE {})

(* queueEntryArrayRemove: the entry is found again in what the queue is by *)
(* then, and the later ones move down.                                     *)
queueEntryArrayRemove(q, entry) ==
    LET equal == {i \in 1..Len(q) : Same(q[i], entry)}
    IN  IF equal = {} THEN q ELSE RemoveAt(q, CHOOSE i \in equal : \A j \in equal : i <= j)

(* QUEUE REMOVE of up to two texts: all are searched for first, then each  *)
(* result is removed.  When nothing was found there is no array of results *)
(* to walk; the queue's last entry is freed and then freed again with the  *)
(* array.                                                                  *)
QueueRemove(hits) ==
    LET found == FoldLeft(queueEntryArrayAppend, <<>>, hits)
        left == FoldLeft(queueEntryArrayRemove, queue, found)
    IN  \/ found = <<>> /\ Ends("null")
        \/ found # <<>> /\ left = <<>> /\ Ends("doubleFree")
        \/ found # <<>> /\ left # <<>> /\ queue' = left /\ UNCHANGED <<siteVars, ended>>

RemoveFound(one, other) == \E a \in Hits(one), b \in Hits(other) : QueueRemove(a \o b)

(* EXIT: siteArrayFree.                                                    *)
Exit == Ends("exit")

(* ProcessCommand tells its commands apart by how many parameters they     *)
(* have.  What shows help, a working directory or a list, or runs another  *)
(* program ("!"), changes nothing.                                         *)
NoParameter ==
    \/ \E n \in Index : SelectRead(n) \/ SelectWrite(n)
    \/ \E uri \in MountUri : SelectByAddress(uri)
    \/ WriteHere \/ ReverseDirection
    \/ ShowWithoutSite
    \/ MountList
    \/ Umount(InRange(activeRead))
    \/ Exit

OneParameter ==
    \/ \E path \in CdPath : ChangeDirectory(path)
    \/ \E c \in CopyCommand : Copy(c.path, c.recursive)
    \/ \E uri \in MountUri : Mount(uri) \/ UmountByAddress(uri)
    \/ \E n \in Index : Umount(n)
    \/ QueueClear \/ FollowNull

ManyParameters == \E one, other \in SearchText : RemoveFound(one, other)

(* InteractiveMode.                                                        *)
Next == ended = "no" /\ (NoParameter \/ OneParameter \/ ManyParameters)

Spec == Init /\ [][Next]_vars

-----------------------------------------------------------------------------
(* QUEUE REMOVE takes out all that was found, counted and searched for     *)
(* before the first went, and nothing else: although each entry is found   *)
(* again by pointers and paths, in an array the earlier removals shifted,  *)
(* after whatever was copied, mounted, unmounted and removed before.       *)
RemoveExact ==
    [][Len(queue') < Len(queue) /\ queue' # <<>> =>
        \E one, other \in SearchText : \E a \in Hits(one), b \in Hits(other) :
            queue' = SelectSeq(queue, LAMBDA entry : entry \notin Range(a \o b))]_vars

(* Unmounting moves the sites above the removed one and no index with      *)
(* them, and an index that leads nowhere comes to life again when a site   *)
(* is mounted.  What an index means then is still never a site before the  *)
(* one the user chose, and each unmount moves it on by one at most.        *)
ActiveDrift ==
    LET Drifted(id, choice) == id # 0 => choice <= id /\ id <= choice + umounts
    IN  Drifted(ActiveId(activeRead), chosen.read) /\ Drifted(ActiveId(activeWrite), chosen.write)

(* queue.h: an entry has "enough information to recreate the full URI for  *)
(* both source and destination".  Until a site is mounted or unmounted,    *)
(* what is recreated is what COPY had resolved, on a server of the same    *)
(* address: changing directories and selecting other sites in between does *)
(* not redirect an entry.                                                  *)
SamePlace(uri, pointer, path) ==
    LET is == uriDetailsNewFrom(queueEntryGetUri(pointer, path))
        meant == uriDetailsNewFrom(uri)
    IN  is.path = meant.path /\ is.scheme = meant.scheme /\ HostAddr(is) = HostAddr(meant)

EntriesLeadBack ==
    \A i \in 1..Len(queue) :
        LET e == queue[i] IN
        e.meant # NULL =>
            /\ e.src.idx # -1 => SamePlace(e.meant.src, e.src, e.sourcePath)
            /\ SamePlace(e.meant.dst, e.dst, e.destinationPath)

=============================================================================
