------------------------------- MODULE Browse -------------------------------
(***************************************************************************)
(* Browsing a server with the download shell: the working directory and    *)
(* the directory listings of an HTTP site (src/src/client/site/http.c),    *)
(* over the one connection its receive buffer keeps (recvbufr.c), against  *)
(* the pages and headers src/src/server writes.                            *)
(*                                                                         *)
(* One action is one call of the shell.  In it the request is sent and     *)
(* answered; how much of the answer the client has read when it goes on is *)
(* left open, and what it has not read meets its next request.  Between    *)
(* two calls files disappear and the server restarts.                      *)
(***************************************************************************)
EXTENDS Uri, FiniteSets

CONSTANTS
    Tree,        \* the served nodes: [at |-> sequence of names, dir |-> BOOLEAN]
    Fleeting,    \* the files that may be removed
    Host,        \* the host names that resolve to the server
    MountUri,    \* the addresses given to MOUNT
    UserPath,    \* the paths given to CD, DIR and LS
    Style,       \* the pages served: "TH" as server/http.c, others as other servers do
    MaxPath,     \* bound: characters of a working directory
    MaxChanges   \* bound: files removed and restarts

(* What the user types, and what the code puts in between.                 *)
Char == {"", "/", ":", "?"} \cup UNION {ToSet(text) : text \in MountUri \cup UserPath}

ASSUME BrowseAssumption ==
    /\ MountUri \cup UserPath \subseteq Seq(Char)
    /\ NULL \notin Seq(Char)

VARIABLES
    style,       \* how the server writes its pages
    tree,        \* what the server serves now
    fullUri,     \* HttpSite.fullUri: the working directory
    rb,          \* HttpSite.socket: the mode of the receive buffer and what it holds
    sock,        \* the connection: open on the server's side, and bytes not yet read
    listing,     \* the open HttpSiteDirectoryListing
    changes,     \* history: how many changes there were
    home,        \* history: what the server took the working directory for
    last         \* history: what the last call was and how it ended

vars == <<style, tree, fullUri, rb, sock, listing, changes, home, last>>

(* Bytes come in pieces: a header, the text of an error, a page, a file,   *)
(* the rest of one of them, or the line break that ends a page.            *)
Header(kind) == [piece |-> "header", kind |-> kind]
ErrorText == [piece |-> "error"]
Content == [piece |-> "content"]
Rest == [piece |-> "rest"]
LineBreak == [piece |-> "break"]
Page(elements) == [piece |-> "page", elements |-> elements]

NoConnection == [up |-> FALSE, data |-> <<>>]
Fresh == [up |-> TRUE, data |-> <<>>]
EmptyBuffer == [mode |-> "none", buf |-> <<>>]

Init ==
    /\ style \in Style /\ tree = Tree /\ changes = 0
    /\ fullUri = NULL /\ home = NULL /\ listing = NULL
    /\ rb = EmptyBuffer /\ sock = NoConnection
    /\ last = [op |-> "start", end |-> "ok"]

-----------------------------------------------------------------------------
(* common/hex.c and server/http.c: the characters of an address.           *)

Escape == [c \in {".", " "} |-> IF c = "." THEN "%2e" ELSE "%20"]

Plain(c) == c \notin DOMAIN Escape \cup {Escape[e] : e \in DOMAIN Escape}

(* convertPathToUrl: everything but letters, digits and dividers.          *)
convertPathToUrl(path) ==
    [i \in 1..Len(path) |-> IF path[i] \in DOMAIN Escape THEN Escape[path[i]] ELSE path[i]]

Unescape(path) ==
    [i \in 1..Len(path) |->
        IF \E c \in DOMAIN Escape : Escape[c] = path[i]
        THEN CHOOSE c \in DOMAIN Escape : Escape[c] = path[i] ELSE path[i]]

(* hexConvertStringToAscii also takes the dots out of every "/..".         *)
StripUp(s) ==
    LET Strip(r) == LET i == Find(r, 1, <<"/", ".", ".">>)
                    IN  IF i = 0 THEN r ELSE Upto(r, i) \o From(r, i + 3)
        Stripped[n \in 0..Len(s)] == IF n = 0 THEN s ELSE Strip(Stripped[n - 1])
    IN  Stripped[Len(s)]

hexConvertStringToAscii(s) == StripUp(Unescape(s))

(* httpClientReadUri: the address ends at the next space.                  *)
httpClientReadUri(path) ==
    LET space == Find(path, 1, <<" ">>)
    IN  hexConvertStringToAscii(IF space = 0 THEN path ELSE Upto(path, space - 1))

-----------------------------------------------------------------------------
(* The server.                                                             *)

Node(at) == {n \in tree : n.at = at}
Children(at) == {n \in tree : Len(n.at) = Len(at) + 1 /\ Upto(n.at, Len(at)) = at}
NameOf(n) == n.at[Len(n.at)]

(* platformDirEntryIsHidden.                                               *)
Visible(at) == {n \in Children(at) : NameOf(n)[1] # "."}

(* htmlBreadCrumbWrite, with GetPathCount and GetPathName: a link for the  *)
(* trunk and for every directory on the way, each with its divider.        *)
GetPathCount(path) == Cardinality({i \in 1..Len(path) - 1 : path[i] = "/"})

GetPathName(path, k) ==
    LET K == {i \in 1..Len(path) : path[i] = "/"}
        nth == {i \in K : Cardinality({j \in K : j < i}) = k}
    IN  IF nth = {} THEN path \o Slash ELSE Upto(path, CHOOSE i \in nth : TRUE)

Element(tag) == [tag |-> tag, href |-> NULL]
Link(href) == [tag |-> "A", href |-> href]

htmlBreadCrumbWrite(webPath) ==
    [k \in 1..GetPathCount(webPath) + 1 |-> Link(convertPathToUrl(GetPathName(webPath, k - 1)))]

(* DirectoryRoutineContinue: the address of an entry.                      *)
EntryPath(webPath, n) ==
    (IF webPath[Len(webPath)] = "/" THEN webPath ELSE webPath \o Slash)
        \o NameOf(n) \o (IF n.dir THEN Slash ELSE <<>>)

PageTH(webPath, entries) ==
    <<Element("HEAD"), Element("BODY"), Element("DIV")>> \o htmlBreadCrumbWrite(webPath)
        \o <<Element("HR"), Element("UL")>>
        \o FlattenSeq([i \in DOMAIN entries |->
               <<Element("LI"), Link(convertPathToUrl(EntryPath(webPath, entries[i])))>>])

(* External: other servers link to their entries by name, offer to sort by *)
(* a query and sign the page with an <ADDRESS>, or give whole addresses.   *)
PageRelative(entries) ==
    <<Element("BODY"), Link(<<"?", "a">>), Link(Slash)>>
        \o [i \in DOMAIN entries |->
               Link(convertPathToUrl(NameOf(entries[i])) \o (IF entries[i].dir THEN Slash ELSE <<>>))]
        \o <<Element("ADDRESS")>>

PageAbsolute(webPath, entries) ==
    <<Element("BODY")>> \o
        [i \in DOMAIN entries |->
            Link(<<"http", ":", "/", "/", "host">> \o uriPathCombine(webPath, convertPathToUrl(NameOf(entries[i]))))]

(* handleConnection and the handlers: what a request is answered with, and *)
(* whether the connection is kept.  A HEAD of a directory and every error  *)
(* end with a flush that has nothing to flush, which closes; an error has  *)
(* its text behind the header whatever the method.                         *)
Lookup(path) ==
    IF At(path, 1) # "/" THEN {}
    ELSE {n \in Node(Components(path)) : n.dir \/ path[Len(path)] # "/"}

Answer(method, request) ==
    LET path == httpClientReadUri(request)
        found == Lookup(path)
        n == CHOOSE n \in found : TRUE
        entries == SetToSeq(Visible(n.at))
        page == Page(CASE style = "TH" -> PageTH(path, entries)
                       [] style = "relative" -> PageRelative(entries)
                       [] style = "absolute" -> PageAbsolute(path, entries))
    IN  IF At(path, 1) # "/" THEN [up |-> FALSE, data |-> <<>>]
        ELSE IF found = {} THEN [up |-> FALSE, data |-> <<Header("missing"), ErrorText>>]
        ELSE IF method = "HEAD"
        THEN [up |-> ~n.dir, data |-> <<Header(IF n.dir THEN "dir" ELSE "file")>>]
        ELSE [up |-> TRUE, data |-> IF n.dir THEN <<Header("dir"), page>>
                                    ELSE <<Header("file"), Content>>]

-----------------------------------------------------------------------------
(* recvbufr.c: one request on the connection the receive buffer keeps.     *)

recvBufferClear(b) == [b EXCEPT !.buf = <<>>]

(* Mutant: a transfer that was cut short is no reason to reconnect.        *)
NeverReconnects == [b |-> rb, s |-> sock]

(* The beginning of recvBufferSend: the last transfer must be complete.    *)
Reusable ==
    IF rb.mode \in {"none", "complete"} THEN [b |-> rb, s |-> sock]
    ELSE [b |-> recvBufferClear(rb), s |-> Fresh]

(***************************************************************************)
(* recvBufferSend.  A connection the server has closed takes the request   *)
(* and loses it; whether that shows before the peek finds bytes of an      *)
(* older answer is a race.  Otherwise it reconnects and sends again, at    *)
(* most three times in all.                                                *)
(***************************************************************************)
recvBufferSend(b, s, answer) ==
    {[b |-> [b EXCEPT !.mode = "none"], s |-> t] :
        t \in (IF s.up THEN {[up |-> answer.up, data |-> s.data \o answer.data]} ELSE {answer})
                \cup (IF ~s.up /\ s.data # <<>> THEN {s} ELSE {})}

(***************************************************************************)
(* ioHttpResponseHeaderRead: read until a header is in the buffer, and cut *)
(* everything through it off.  More may come with it.  `before' is what    *)
(* stood in front of the header and is now taken for its first line.       *)
(***************************************************************************)
HeaderAt(bytes) == {i \in 1..Len(bytes) : bytes[i].piece = "header"}

ioHttpResponseHeaderRead(b, s) ==
    LET all == b.buf \o s.data
        i == CHOOSE k \in HeaderAt(all) : \A j \in HeaderAt(all) : k <= j
    IN  IF HeaderAt(all) = {}
        THEN {[b |-> [mode |-> "token", buf |-> all], s |-> [s EXCEPT !.data = <<>>],
               err |-> TRUE, header |-> "none", before |-> all]}
        ELSE {[b |-> [mode |-> "complete", buf |-> SubSeq(all, i + 1, k)],
               s |-> [s EXCEPT !.data = From(all, k + 1)],
               err |-> FALSE, header |-> all[i].kind, before |-> Upto(all, i - 1)] : k \in i..Len(all)}

(* Bound: the client is followed until a listing is refused behind a line  *)
(* break and its page, or file, lies on the connection it goes on to use.  *)
(* The blank line that ends the page would end the next header, and every  *)
(* later answer on that connection be taken for that of another request.   *)
OutOfStep == \E i \in DOMAIN sock.data : sock.data[i].piece \in {"page", "content"}

Exchange(b, s, method, path) ==
    UNION {ioHttpResponseHeaderRead(x.b, x.s) :
              x \in recvBufferSend(b, s, Answer(method, path))}

(* HttpResponseOk: what is left in front of the header hides the status    *)
(* (ioHttpResponseHeaderEssential).                                        *)
HttpResponseOk(x) == x.before = <<>> /\ x.header # "missing"

(* HttpResponseIsDir: the server names its files without "attachment", so  *)
(* that only pages can be told: 1, and -1 for everything else.             *)
HttpResponseIsDir(x) == IF x.header = "dir" THEN 1 ELSE -1

CurrentPath ==
    LET p == uriDetailsNewFrom(fullUri).path IN IF p = NULL THEN Slash ELSE p

(* What the server would make of a path, and what the user meant by one:   *)
(* for the histories.                                                      *)
Whole(path) == IF At(path, 1) = "/" THEN path ELSE CurrentPath \o Slash \o path
Meant(path) == Components(Whole(path))
ReachesTrunk(path) ==
    At(path, 1) # "/" /\ \E i \in 1..Len(path) : Components(CurrentPath \o Slash \o Upto(path, i)) = <<>>
Names(path) == {n.at : n \in Lookup(httpClientReadUri(path))}

Outcome(op, path, ok) ==
    [op |-> op, end |-> IF ok THEN "ok" ELSE IF Names(path) = {} THEN "refused" ELSE "spurious"]

-----------------------------------------------------------------------------
(* recvBufferNewFromUriDetails: a connection to the address, if it has one.*)
recvBufferNewFromUriDetails(details) ==
    IF uriDetailsCreateSocketAddress(details, Host) = 0 THEN {} ELSE {[b |-> EmptyBuffer, s |-> Fresh]}

(* httpSiteSchemeNew, as MOUNT calls it on an unmounted site.              *)
httpSiteSchemeNew(uri) ==
    LET d == uriDetailsNewFrom(uri)
        details == IF d.path = NULL THEN [d EXCEPT !.path = Slash] ELSE d
    IN  /\ fullUri = NULL /\ listing = NULL
        /\ \/ /\ recvBufferNewFromUriDetails(details) = {}
              /\ last' = [op |-> "mount", end |-> "refused"]
              /\ UNCHANGED <<rb, sock, fullUri, home>>
           \/ \E new \in recvBufferNewFromUriDetails(details) :
              \E x \in Exchange(new.b, new.s, "HEAD", details.path) :
                /\ rb' = x.b /\ sock' = x.s
                /\ last' = Outcome("mount", details.path, ~x.err /\ HttpResponseOk(x))
                /\ IF ~x.err /\ HttpResponseOk(x) /\ HttpResponseIsDir(x) # 0
                   THEN /\ fullUri' = uriDetailsCreateString(details)
                        /\ home' = Names(details.path)
                   ELSE UNCHANGED <<fullUri, home>>
        /\ UNCHANGED <<style, tree, listing, changes>>

(* Mutant: the answer's status is not looked at.                           *)
WorkingDirectoryUnchecked(path) ==
    /\ fullUri # NULL /\ listing = NULL /\ ~OutOfStep
    /\ \E newPath \in uriPathAbsoluteAppend(CurrentPath, path) :
        /\ newPath # NULL /\ Len(newPath) <= MaxPath
        /\ \E x \in Exchange(Reusable.b, Reusable.s, "HEAD", newPath) :
            /\ rb' = x.b /\ sock' = x.s
            /\ last' = [op |-> "cd", end |-> Outcome("cd", newPath, TRUE).end,
                         want |-> Meant(path), trunk |-> ReachesTrunk(path)]
            /\ fullUri' = uriDetailsCreateString([uriDetailsNewFrom(fullUri) EXCEPT !.path = newPath])
            /\ home' = IF Names(newPath) = {} THEN home ELSE Names(newPath)
    /\ UNCHANGED <<style, tree, listing, changes>>

(* httpSiteSchemeWorkingDirectorySet, as CD calls it.                      *)
httpSiteSchemeWorkingDirectorySet(path) ==
    /\ fullUri # NULL /\ listing = NULL /\ ~OutOfStep
    /\ \E newPath \in uriPathAbsoluteAppend(CurrentPath, path) :
        /\ newPath # NULL /\ Len(newPath) <= MaxPath
        /\ \E x \in Exchange(Reusable.b, Reusable.s, "HEAD", newPath) :
            LET ok == ~x.err /\ HttpResponseOk(x) /\ HttpResponseIsDir(x) # 0
            IN  /\ rb' = x.b /\ sock' = x.s
                /\ last' = [op |-> "cd", end |-> Outcome("cd", newPath, ok).end,
                             want |-> Meant(path), trunk |-> ReachesTrunk(path)]
                /\ IF ok
                   THEN /\ fullUri' = uriDetailsCreateString(
                                [uriDetailsNewFrom(fullUri) EXCEPT !.path = newPath])
                        /\ home' = Names(newPath)
                   ELSE UNCHANGED <<fullUri, home>>
    /\ UNCHANGED <<style, tree, listing, changes>>

-----------------------------------------------------------------------------
(* Listings.  xml.c: an element is found by the beginning of its name.     *)

XmlFindElement(elements, from, tags) ==
    LET K == {i \in from..Len(elements) : elements[i].tag \in tags}
    IN  IF K = {} THEN 0 ELSE CHOOSE i \in K : \A j \in K : i <= j

BeginsWithA == {"A", "ADDRESS"}

(* HtmlExtractNextLink: the next link, if the stream still has a "</A>"    *)
(* and the element found an HREF.  0 ends the listing.                     *)
HtmlExtractNextLink(elements, from) ==
    LET i == XmlFindElement(elements, from, BeginsWithA)
    IN  IF i = 0 \/ XmlFindElement(elements, i, {"A"}) = 0 THEN 0
        ELSE IF elements[i].href = NULL THEN 0 ELSE i

Links(elements, first) ==
    LET Further[from \in 1..Len(elements) + 1] ==
            LET i == HtmlExtractNextLink(elements, from)
            IN  IF i = 0 THEN <<>> ELSE <<elements[i].href>> \o Further[i + 1]
    IN  Further[first]

(* Mutant: the directory itself is not told from its entries.              *)
LinkPathIsBelow(details, link) ==
    IF At(link, 1) = "." THEN FALSE
    ELSE IF At(link, 1) # "/" THEN TRUE
    ELSE Upto(link, Len(details.path)) = details.path

(* LinkPathIsDirectSub: a whole address, an absolute path, or a name that  *)
(* has to be trusted.  A whole address may not end with a divider.         *)
LinkPathIsDirectSub(details, link) ==
    LET path == details.path
        uri == uriDetailsNewFrom(link)
    IN  IF Find(link, 1, <<":", "/", "/">>) > 0
        THEN /\ uri.scheme = details.scheme /\ uri.host = details.host
             /\ uriDetailsGetPort(uri) = uriDetailsGetPort(details)
             /\ Upto(uri.path, Len(path)) = path
             /\ Find(uri.path, Len(path) + 2, Slash) = 0
        ELSE IF At(link, 1) = "." THEN FALSE
        ELSE IF At(link, 1) # "/" THEN TRUE
        ELSE /\ Upto(link, Len(path)) = path
             /\ Len(link) > Len(path)
             /\ ~(Len(link) = Len(path) + 1 /\ link[Len(link)] = "/")
             /\ Find(link, Len(path) + 2, Slash) \in {0, Len(link)}

(* LinkPathConvertToRelativeSubdirectory, with the dividers stripped.      *)
LinkPathConvertToRelativeSubdirectory(link) ==
    LET K == {i \in 1..Len(link) - 1 : link[i] = "/" /\ link[i + 1] # "/"}
        from == IF K = {} THEN 1 ELSE (CHOOSE i \in K : \A j \in K : j <= i) + 1
        name == From(link, from)
        end == Find(name, 1, Slash)
    IN  IF end = 0 THEN name ELSE Upto(name, end - 1)

(* The loop of httpSiteSchemeDirectoryListingOpen.                         *)
BeforeQuery(link) == LET q == Find(link, 1, <<"?">>) IN IF q = 0 THEN link ELSE Upto(link, q - 1)

ListingEntries(details, elements) ==
    LET body == XmlFindElement(elements, 1, {"BODY"})
        links == Links(elements, body + 1)
        paths == [i \in DOMAIN links |-> BeforeQuery(links[i])]
        direct == SelectSeq(paths, LAMBDA l : l # <<>> /\ LinkPathIsDirectSub(details, l))
    IN  [i \in DOMAIN direct |->
            hexConvertStringToAscii(LinkPathConvertToRelativeSubdirectory(direct[i]))]

(***************************************************************************)
(* What becomes of the body whose header was x: the first n of the entries *)
(* on the page are found until recvBufferAppend refuses.  A page is        *)
(* chunked; what its two parsers do is in modules RecvChunk and            *)
(* ChunkedBody.  It is decoded to its end, and then its last line break    *)
(* stays behind; or it is cut short: a size line that came in two pieces,  *)
(* a connection that went away, an element that has no end within the      *)
(* limit, or no HREF.  The parser of the buffer may drop the connection or *)
(* wait for more without end, and it waits when all of the page has come   *)
(* with the header.  (A page of which a part has, counts as not come.)  A  *)
(* file, of known length, has no elements here.                            *)
(***************************************************************************)
Elements(x) ==
    LET all == x.b.buf \o x.s.data IN IF all # <<>> /\ all[1].piece = "page" THEN all[1].elements ELSE <<>>

Body(x, mode, data, n, read) ==
    [b |-> [mode |-> mode, buf |-> <<>>], s |-> [x.s EXCEPT !.data = data], n |-> n, read |-> read]

FileBodies(x) == {Body(x, "complete", <<>>, 0, "whole"), Body(x, "known", <<Rest>>, 0, "cut")}

PageBodies(x, entries) ==
    {Body(x, "chunk", <<>>, 0, "waits")} \cup
        (IF x.b.buf # <<>> THEN {}
         ELSE {Body(x, "complete", <<LineBreak>>, Len(entries), "whole"),
               [Body(x, "none", <<>>, 0, "cut") EXCEPT !.s = NoConnection]}
                \cup {Body(x, "complete", <<LineBreak>>, n, "cut") : n \in 0..Len(entries)}
                \cup {Body(x, "chunk", <<Rest>>, n, "cut") : n \in 0..Len(entries)})

Bodies(x, entries) == IF x.header = "dir" THEN PageBodies(x, entries) ELSE FileBodies(x)

(* While the listing is opened its index is 0, and it has the entries that *)
(* are there to be found.                                                  *)
DirectoryListingCreate(path, entries, command) ==
    [path |-> path, entry |-> entries, idx |-> 1, command |-> command]

Opened(l, y) ==
    IF y.read = "waits" THEN [l EXCEPT !.idx = 0]
    ELSE IF y.n = 0 THEN NULL ELSE [l EXCEPT !.entry = Upto(@, y.n)]

(* httpSiteSchemeDirectoryListingOpen.  An empty listing is closed again;  *)
(* whatever ended the page, what was found is the listing.  When the       *)
(* header is refused the body stays on the connection, which is kept.      *)
httpSiteSchemeDirectoryListingOpen(path) ==
    /\ fullUri # NULL /\ listing = NULL /\ ~OutOfStep
    /\ \E absPath \in uriPathAbsoluteAppend(CurrentPath, path) :
        /\ absPath # NULL /\ Len(absPath) <= MaxPath
        /\ \E x \in Exchange([Reusable.b EXCEPT !.buf = <<>>], Reusable.s, "GET", absPath) :
            IF ~x.err /\ HttpResponseOk(x)
            THEN LET details == [uriDetailsNewFrom(fullUri) EXCEPT !.path = absPath]
                     entries == ListingEntries(details, Elements(x))
                     truth == {NameOf(n) : n \in UNION {Visible(at) : at \in Names(absPath)}}
                 IN  \E y \in Bodies(x, entries), command \in {"DIR", "LS"} :
                        /\ rb' = y.b /\ sock' = y.s
                        /\ listing' = Opened(DirectoryListingCreate(absPath, entries, command), y)
                        /\ last' = [op |-> "open", end |-> IF y.read = "waits" THEN "waits" ELSE "ok",
                                    path |-> absPath, read |-> y.read, entry |-> Upto(entries, y.n),
                                    left |-> y.s.data = <<LineBreak>>, truth |-> truth]
            ELSE /\ rb' = recvBufferClear(x.b) /\ sock' = x.s /\ listing' = NULL
                 /\ last' = Outcome("open", absPath, FALSE)
    /\ UNCHANGED <<style, tree, fullUri, changes, home>>

(* A wait for more of the page ends, if ever, when the server has closed   *)
(* the connection: the parser of the buffer drops it, or recv() refuses.   *)
ListingWaitEnds ==
    /\ listing # NULL /\ listing.idx = 0 /\ ~sock.up
    /\ \E n \in 0..Len(listing.entry) : \E mode \in {"none", "chunk"} :
        /\ mode = "none" => n = 0
        /\ rb' = [mode |-> mode, buf |-> <<>>] /\ sock' = NoConnection
        /\ listing' = IF n = 0 THEN NULL ELSE [listing EXCEPT !.entry = Upto(@, n), !.idx = 1]
        /\ last' = [last EXCEPT !.end = "ok", !.read = "cut", !.entry = Upto(listing.entry, n)]
    /\ UNCHANGED <<style, tree, fullUri, changes, home>>

(* Mutant: only "attachment" makes a file.                                 *)
FileNameNeedsAttachment(x) == FALSE

(* HeadersPopulate: a Content-Disposition with a filename, "attachment" or *)
(* not, names a file.                                                      *)
HeadersPopulateFileName(x) == x.header = "file"

httpSiteSchemeDirectoryListingRead ==
    /\ listing # NULL /\ listing.idx \in 1..Len(listing.entry)
    /\ listing' = [listing EXCEPT !.idx = @ + 1]

(* httpSiteSchemeDirectoryListingEntryStat: the name is sent as it is      *)
(* displayed, and the status of the answer is not looked at.               *)
httpSiteSchemeDirectoryListingEntryStat(name) ==
    LET entryPath == uriPathCombine(listing.path, name)
        named == {m \in UNION {Children(at) : at \in Names(listing.path)} : NameOf(m) = name}
    IN  \E x \in Exchange(Reusable.b, Reusable.s, "HEAD", entryPath) :
            /\ rb' = x.b /\ sock' = x.s
            /\ last' = IF x.err THEN Outcome("stat", entryPath, FALSE)
                       ELSE [op |-> "stat", end |-> IF x.header = "missing" THEN "refused" ELSE "ok",
                             name |-> name,
                             type |-> IF HeadersPopulateFileName(x) THEN "file" ELSE "dir",
                             truth |-> {IF n.dir THEN "dir" ELSE "file" : n \in named}]

(* A line break was left behind a page, and no request has been sent since.*)
LineBreakLeft == "left" \in DOMAIN last /\ last.left

(* The loops of DIR, which asks about every entry, and of LS.              *)
PrintDirectoryFilesDosLike ==
    /\ listing # NULL /\ listing.command = "DIR"
    /\ httpSiteSchemeDirectoryListingRead
    /\ httpSiteSchemeDirectoryListingEntryStat(listing.entry[listing.idx])
    /\ UNCHANGED <<style, tree, fullUri, changes, home>>

PrintDirectoryFilesUnixLike ==
    /\ listing # NULL /\ listing.command = "LS"
    /\ httpSiteSchemeDirectoryListingRead
    /\ last' = [op |-> "read", end |-> "ok", left |-> LineBreakLeft]
    /\ UNCHANGED <<style, tree, fullUri, rb, sock, changes, home>>

httpSiteSchemeDirectoryListingClose ==
    /\ listing # NULL /\ listing.idx > Len(listing.entry)
    /\ listing' = NULL
    /\ last' = [op |-> "close", end |-> last.end, left |-> LineBreakLeft]
    /\ UNCHANGED <<style, tree, fullUri, rb, sock, changes, home>>

-----------------------------------------------------------------------------
(* External: somebody removes a file, or the server is started again.      *)
RemoveFile ==
    /\ changes < MaxChanges /\ changes' = changes + 1
    /\ \E n \in tree \cap Fleeting : tree' = tree \ {n}
    /\ UNCHANGED <<style, fullUri, rb, sock, listing, home, last>>

(* What had come before can be read to the end, unless there was a reset.  *)
Restart ==
    /\ changes < MaxChanges /\ changes' = changes + 1
    /\ sock.up /\ sock' \in {NoConnection, [sock EXCEPT !.up = FALSE]}
    /\ UNCHANGED <<style, tree, fullUri, rb, listing, home, last>>

Next ==
    \/ \E uri \in MountUri : httpSiteSchemeNew(uri)
    \/ \E path \in UserPath :
        \/ httpSiteSchemeWorkingDirectorySet(path)
        \/ httpSiteSchemeDirectoryListingOpen(path)
    \/ ListingWaitEnds
    \/ PrintDirectoryFilesDosLike \/ PrintDirectoryFilesUnixLike
    \/ httpSiteSchemeDirectoryListingClose
    \/ RemoveFile \/ Restart

Spec == Init /\ [][Next]_vars

-----------------------------------------------------------------------------
(* What follows holds as far as the client is followed (OutOfStep).        *)

(* The working directory is one the server has confirmed: read back from   *)
(* fullUri and decoded as the server decodes a request, it is the node the *)
(* server found when it answered, however late answers to earlier requests *)
(* arrive, whatever was left in the buffer and whichever calls failed.     *)
CwdServed ==
    fullUri # NULL => home = {Components(httpClientReadUri(CurrentPath))}

(* A call fails for a path the server does serve only right after one of   *)
(* two things: a path the server refused, the text of whose error page,    *)
(* which a HEAD does not ask for, is taken for the beginning of the next   *)
(* answer; or a listing whose page was read to its end, when the line      *)
(* break left behind it is (recvbufr.c:165-176, 498).  Restarts, and       *)
(* listings cut short anywhere else, never make a call fail.               *)
FailuresExplained ==
    [][changes' = changes /\ last'.op # "close" /\ last'.end = "spurious"
        => last.end = "refused" \/ LineBreakLeft]_vars

(* A listing shows each entry once and nothing that is not there: not the  *)
(* links of the bread crumb, not those that sort the page.  Of a directory *)
(* whose address needs no escapes it shows all that is visible, if the     *)
(* page was read to its end.  A page cut short is shown as if it were all. *)
ListingExact ==
    last.op = "open" /\ last.end = "ok" =>
        /\ ToSet(last.entry) \subseteq last.truth
        /\ (\A i \in 1..Len(last.path) : Plain(last.path[i])) =>
                /\ Len(last.entry) = Cardinality(ToSet(last.entry))
                /\ last.read = "whole" => ToSet(last.entry) = last.truth

(* DIR shows the type the node has, although the header of the answer is   *)
(* read behind whatever an earlier error or the listing left there and the *)
(* status is ignored.  A name with a space is out of it: the request ends  *)
(* at the space and asks for another node.                                 *)
StatTruth ==
    last.op = "stat" /\ last.end = "ok" /\ " " \notin ToSet(last.name) =>
        last.truth = {last.type}

(* CD goes where the path leads from the working directory, "." and ".."   *)
(* resolved (uriPathAbsoluteAppend), unless ".." reaches the trunk: then   *)
(* the rest of the path is forgotten and CD ends at the trunk.  A working  *)
(* directory with a space is out of it: the request ends at the space.     *)
CdResolves ==
    last.op = "cd" /\ last.end = "ok" /\ " " \notin ToSet(fullUri) =>
        \/ home = {last.want}
        \/ last.trunk /\ home = {<<>>}

=============================================================================
