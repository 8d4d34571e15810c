----------------------------- MODULE ProxyChild -----------------------------
(***************************************************************************)
(* A child with its browser connection: ProxyHandler::Proxy() and          *)
(* CommunicationHTTP() with what they call in ConnectionToHTTP2.  A        *)
(* browser may send several requests on a connection and the child may     *)
(* keep its server connection from one to the next; a request that fails   *)
(* early is tried again.  The decisions of Cache(), the network, the       *)
(* servers and the browser are chosen freely; what the cache stores is the *)
(* subject of CacheFile, and the row's lock that of EditLock.  Here a lock *)
(* is only taken and freed, by SQL statements that succeed.                *)
(*                                                                         *)
(* No parent proxy is configured; FTP, which then is an invalid request,   *)
(* and SSL tunnels are left out.                                           *)
(***************************************************************************)
EXTENDS Integers, FiniteSets

CONSTANTS
  Hosts,     \* the hosts the browser asks for
  NoHost,    \* the address nobody has resolved yet
  MaxBody,   \* bound: the longest body announced
  Extra,     \* bound: bytes a server may send beyond what it announced
  MaxIPs,    \* bound: addresses of a host; one without any counts as one
  AliveMax   \* Proxy(): kept requests until idle browsers are dropped (99)

ASSUME ProxyAssumption ==
  /\ Hosts # {} /\ NoHost \notin Hosts
  /\ MaxBody \in Nat \ {0} /\ Extra \in Nat /\ MaxIPs \in Nat \ {0} /\ AliveMax \in Nat

VARIABLES
  pc,               \* where the child is in Proxy() and CommunicationHTTP()
  req,              \* the request of the browser
  drop,             \* which of DropBrowser, BrowserDropped, DropServer are set
  alivecount,       \* requests on the browser connection, to AliveMax + 1
  retries,          \* how often the request was tried again
  code,             \* CommunicationAnswer
  ServerConnected,
  ConnectedHost,
  addr,             \* the host whose address is in my_s_addr
  link,             \* the server connection
  file,             \* what Cache() decided, and the lock of the file's row
  ans,              \* the answer: the length announced, counted and sent
  headed,           \* history: a header has gone to the browser
  bodies            \* history: how often the request's body was read, to 2

vars == <<pc, req, drop, alivecount, retries, code, ServerConnected,
          ConnectedHost, addr, link, file, ans, headed, bodies>>

Flags == {"DropBrowser", "BrowserDropped", "DropServer"}

\* body is the request's Content-Length: none, 0 or more.
Requests ==
  [type : {"GET", "HEAD", "POST"}, host : Hosts, body : {"none", "empty", "some"}]

\* host is whom the connection reaches, named says that its address comes
\* from the request's own host name, and rest counts the bytes of the current
\* answer's body that the server has yet to deliver.
Links ==
  [open : BOOLEAN, host : Hosts \cup {NoHost}, named : BOOLEAN,
   rest : 0 .. (MaxBody + Extra)]
Closed == [open |-> FALSE, host |-> NoHost, named |-> FALSE, rest |-> 0]
Open(host, named) == [open |-> TRUE, host |-> host, named |-> named, rest |-> 0]

\* match, hit and rewrited as in the source, disk for miss2hit, early for
\* headerReader, editing for ~exists_transaction_editing_file, freed for
\* was_liberate, page for r.domain = youtube_IDs, and taken: the row has this
\* child's file_used=1.
Files ==
  [match : BOOLEAN, hit : BOOLEAN, disk : BOOLEAN, early : BOOLEAN,
   taken : BOOLEAN, editing : BOOLEAN, freed : BOOLEAN,
   page : BOOLEAN, rewrited : BOOLEAN]
Blank ==
  [match |-> FALSE, hit |-> FALSE, disk |-> FALSE, early |-> FALSE,
   taken |-> FALSE, editing |-> FALSE, freed |-> FALSE,
   page |-> FALSE, rewrited |-> FALSE]

\* got is what the returned lengths add up to (ContentLength), sent what the
\* parts held that went to the browser or are about to.
Unknown == -1
Answers ==
  [length : Unknown .. MaxBody, got : 0 .. (MaxBody + Extra + 1),
   sent : 0 .. (MaxBody + Extra + 2)]
NoAnswer == [length |-> 0, got |-> 0, sent |-> 0]

Phases ==
  {"top", "wait", "read",              \* Proxy(): between two requests
   "comm", "cache", "dial", "recache", \* CommunicationHTTP(): connecting
   "send", "body", "header",           \* the request, the answer's header
   "nobody", "first", "head", "part", "more",  \* the answer's body
   "return",                           \* back in Proxy()
   "ended"}

TypeOK ==
  /\ pc \in Phases
  /\ req \in Requests
  /\ drop \subseteq Flags
  /\ alivecount \in 0 .. (AliveMax + 1)
  /\ retries \in 0 .. MaxIPs
  /\ code \in {0, -10, -51, -60, -61, -74, -75, -76, -80, -233}
  /\ ServerConnected \in BOOLEAN
  /\ ConnectedHost \in Hosts \cup {NoHost}
  /\ addr \in Hosts \cup {NoHost}
  /\ link \in Links
  /\ file \in Files
  /\ ans \in Answers
  /\ headed \in BOOLEAN
  /\ bodies \in 0 .. 2

(***************************************************************************)
(* The file's lock, and the parts of ConnectionToHTTP2 that end with it.   *)
(***************************************************************************)

Kept == [Blank EXCEPT !.taken = TRUE, !.editing = TRUE]
Locked(hit) == [Kept EXCEPT !.match = TRUE, !.hit = hit]

\* The general plugin takes no lock for a request without a range.
Lockless == [Blank EXCEPT !.editing = TRUE, !.freed = TRUE]
General(hit) == [Lockless EXCEPT !.match = TRUE, !.hit = hit]

liberate_edition(f) ==
  IF f.editing /\ ~f.freed THEN [f EXCEPT !.taken = FALSE, !.freed = TRUE] ELSE f

\* r.match = hit = false and liberate_edition().
Cancel(f) == [liberate_edition(f) EXCEPT !.match = FALSE, !.hit = FALSE]
MayCancel(f) == IF f.match THEN {f, Cancel(f)} ELSE {f}

Update(f) == IF f.match THEN liberate_edition(f) ELSE f

\* Mutant of CloseUpdate: nothing is freed but by Update().
CloseAfterUpdate(f) ==
  /\ file' = Update(f)
  /\ link' = Closed
  /\ ServerConnected' = FALSE

\* CloseUpdate(), with the assignment that follows each of its calls.
CloseUpdate(f) ==
  /\ file' = liberate_edition(Update(f))
  /\ link' = Closed
  /\ ServerConnected' = FALSE

\* A page whose links to videos are rewritten on the way to the browser.
Page == [Blank EXCEPT !.page = TRUE]

\* A URL of a plugin of the domain "rewrite", whose answer is a 302.
Redirect == [Kept EXCEPT !.rewrited = TRUE]

\* What Cache() may decide without asking the server: no plugin, a refused
\* lock or an error; a page of youtube; a redirection; r.match lost with the
\* lock kept or freed; MISS or HIT.  A lock this child has forgotten to free
\* refuses it like anybody's.
Decided ==
  IF file.taken THEN {[Blank EXCEPT !.taken = TRUE]}
  ELSE {Blank, Page, Redirect, Kept, Cancel(Kept)}
         \cup {Locked(hit) : hit \in BOOLEAN} \cup {General(hit) : hit \in BOOLEAN}

\* The general plugin has read the answer's header (headerReader), which may
\* not be a 200.
HeaderDecided ==
  {[f EXCEPT !.early = TRUE] : f \in {Lockless, General(TRUE), General(FALSE)}}

\* getHeaderFromServer() failed at the name, the connection, the request, the
\* answer; each with what CommunicationHTTP() makes of it.
HeaderErrors ==
  {[code |-> -51, flags |-> {}, addr |-> addr, link |-> link],
   [code |-> -61, flags |-> {}, addr |-> req.host, link |-> Closed]}
    \cup {[code |-> c, flags |-> {"DropServer"}, addr |-> req.host,
           link |-> Open(req.host, TRUE)] : c \in {-60, -80}}

ReadEarly ==
  \E f \in HeaderDecided :
    /\ file' = f
    /\ addr' = req.host
    /\ link' = IF f.hit THEN Closed ELSE Open(req.host, TRUE)

(***************************************************************************)
(* Proxy(): between two requests.                                          *)
(***************************************************************************)

Return(c, flags) ==
  /\ pc' = "return"
  /\ code' = c
  /\ drop' = drop \cup flags

\* The head of the loop: the end of the connection, or the next request.  It
\* is for another file: a lock that was not freed is out of sight, and the
\* flags of the last file are set anew before they are read.
Top ==
  /\ pc = "top"
  /\ file' = Blank /\ ans' = NoAnswer
  /\ headed' = FALSE /\ bodies' = 0 /\ retries' = 0 /\ code' = 0
  /\ IF drop \cap {"DropBrowser", "BrowserDropped"} # {}
     THEN /\ pc' = "ended"
          /\ link' = Closed
          /\ ServerConnected' = FALSE
          /\ UNCHANGED <<drop, alivecount>>
     ELSE /\ alivecount' = IF alivecount <= AliveMax THEN alivecount + 1 ELSE alivecount
          /\ pc' = IF alivecount' > 1 THEN "wait" ELSE "read"
          /\ drop' = {}
          /\ UNCHANGED <<link, ServerConnected>>
  /\ UNCHANGED <<req, ConnectedHost, addr>>

\* CheckForData(5): the browser sends something or is given up.
CheckForData ==
  /\ pc = "wait"
  /\ \/ pc' = "read" /\ UNCHANGED drop
     \/ pc' = "top" /\ drop' = drop \cup {"DropBrowser"}
  /\ UNCHANGED <<req, alivecount, retries, code, ServerConnected, ConnectedHost,
                 addr, link, file, ans, headed, bodies>>

\* No header, or not one of a request, which is answered with an error page:
\* the connection ends.
BadRequest ==
  /\ pc = "read"
  /\ pc' = "top"
  /\ drop' \in {drop \cup {"DropBrowser"}, drop \cup {"DropBrowser", "BrowserDropped"}}
  /\ UNCHANGED <<req, alivecount, retries, code, ServerConnected, ConnectedHost,
                 addr, link, file, ans, headed, bodies>>

GoodRequest(r, keep) ==
  /\ pc = "read"
  /\ pc' = "comm"
  /\ req' = r
  /\ \/ /\ keep /\ r.type = "GET"
        /\ UNCHANGED drop
     \/ /\ ~keep \/ r.type # "GET" \/ alivecount > AliveMax
        /\ drop' = drop \cup {"DropBrowser"}
  /\ UNCHANGED <<alivecount, retries, code, ServerConnected, ConnectedHost, addr,
                 link, file, ans, headed, bodies>>

(***************************************************************************)
(* CommunicationHTTP(): to the server.                                     *)
(***************************************************************************)

\* Mutant of Start: the kept connection is used for any host.
StartKept ==
  /\ pc = "comm"
  /\ file' = [file EXCEPT !.editing = FALSE]
  /\ ans' = NoAnswer
  /\ IF req.type = "POST" /\ req.body = "none"
     THEN /\ Return(-10, {"BrowserDropped"})
          /\ UNCHANGED <<link, ServerConnected>>
     ELSE /\ UNCHANGED <<code, drop, link, ServerConnected>>
          /\ pc' = IF ServerConnected THEN "recache" ELSE "cache"
  /\ UNCHANGED <<req, alivecount, retries, ConnectedHost, addr, headed, bodies>>

\* initializeVariables(), the check of a POST, and the server connection of
\* an earlier request, closed if it is another host's.
Start ==
  /\ pc = "comm"
  /\ file' = [file EXCEPT !.editing = FALSE]
  /\ ans' = NoAnswer
  /\ IF req.type = "POST" /\ req.body = "none"
     THEN /\ Return(-10, {"BrowserDropped"})
          /\ UNCHANGED <<link, ServerConnected>>
     ELSE LET keep == ServerConnected /\ ConnectedHost = req.host IN
          /\ link' = IF ServerConnected /\ ~keep THEN Closed ELSE link
          /\ ServerConnected' = keep
          /\ pc' = IF keep THEN "recache" ELSE "cache"
          /\ UNCHANGED <<code, drop>>
  /\ UNCHANGED <<req, alivecount, retries, ConnectedHost, addr, headed, bodies>>

\* Cache() as SetDomainAndPort() calls it, with its errors.
Cache ==
  /\ pc = "cache"
  /\ \/ /\ file' \in Decided
        /\ pc' = "dial"
        /\ UNCHANGED <<addr, link, code, drop>>
     \/ /\ ~file.taken
        /\ ReadEarly
        /\ pc' = "dial"
        /\ UNCHANGED <<code, drop>>
     \/ \E e \in HeaderErrors :
          /\ ~file.taken
          /\ file' = Lockless
          /\ addr' = e.addr
          /\ link' = e.link
          /\ Return(e.code, e.flags)
  /\ UNCHANGED <<req, alivecount, retries, ServerConnected, ConnectedHost, ans,
                 headed, bodies>>

\* Cache() as SendHeader() calls it for the next request on a server
\* connection: its errors are not looked at.
CacheAgain ==
  /\ pc = "recache"
  /\ pc' = "send"
  /\ \/ file' \in Decided /\ UNCHANGED <<addr, link>>
     \/ ~file.taken /\ ReadEarly
     \/ \E e \in HeaderErrors :
          /\ ~file.taken
          /\ file' = Lockless
          /\ addr' = e.addr
          /\ link' = e.link
  /\ UNCHANGED <<req, drop, alivecount, retries, code, ServerConnected,
                 ConnectedHost, ans, headed, bodies>>

Connected ==
  /\ ServerConnected' = TRUE
  /\ ConnectedHost' = req.host
  /\ pc' = "send"
  /\ UNCHANGED <<code, drop>>

\* The rest of SetDomainAndPort(), and ConnectToServer().  A name that is not
\* resolved gives 0, which the caller takes for success, and leaves the last
\* address in my_s_addr.
ConnectToServer ==
  /\ pc = "dial"
  /\ \/ /\ file.hit \/ file.early
        /\ UNCHANGED <<addr, link>> /\ Connected
     \/ /\ file.rewrited
        /\ addr' \in {req.host, addr}
        /\ UNCHANGED link /\ Connected
     \/ /\ ~file.hit /\ ~file.early /\ ~file.rewrited
        /\ \E named \in BOOLEAN :
             /\ addr' = IF named THEN req.host ELSE addr
             /\ \/ link' = Open(addr', named) /\ Connected
                \/ /\ link' = Closed
                   /\ Return(-60, {})
                   /\ UNCHANGED <<ServerConnected, ConnectedHost>>
  /\ UNCHANGED <<req, alivecount, retries, file, ans, headed, bodies>>

\* A HIT, a redirection and a header that was read need no request; a HIT that left its
\* socket closed makes the next request on the connection fail here.
SendHeader ==
  /\ pc = "send"
  /\ \/ /\ file.hit \/ file.early \/ file.rewrited \/ link.open
        /\ pc' = "body"
        /\ UNCHANGED <<code, drop>>
     \/ /\ ~file.hit /\ ~file.early /\ ~file.rewrited
        /\ Return(-60, {"DropServer"})
  /\ UNCHANGED <<req, alivecount, retries, ServerConnected, ConnectedHost, addr,
                 link, file, ans, headed, bodies>>

\* The body of the request, from the browser to the server, and the look for
\* something after it.
SendBody ==
  /\ pc = "body"
  /\ bodies' = IF req.body = "some" /\ bodies < 2 THEN bodies + 1 ELSE bodies
  /\ \/ /\ req.body = "some" => link.open
        /\ pc' = "header"
        /\ UNCHANGED <<code, drop>>
     \/ req.body # "none" /\ Return(-10, {"BrowserDropped"})
     \/ req.body = "some" /\ Return(-76, {"DropServer"})
  /\ UNCHANGED <<req, alivecount, retries, ServerConnected, ConnectedHost, addr,
                 link, file, ans, headed>>

(***************************************************************************)
(* CommunicationHTTP(): the answer's header.                               *)
(***************************************************************************)

Replies ==
  [keep : BOOLEAN, length : Unknown .. MaxBody, chunked : BOOLEAN,
   status : {"full", "empty", "other"}]  \* 200 and 206, 304 and 204, others

\* ReadHeader() fails.
HeaderLost ==
  /\ pc = "header" /\ ~file.hit /\ ~file.early /\ ~file.rewrited
  /\ Return(-80, {"DropServer"})
  /\ UNCHANGED <<req, alivecount, retries, ServerConnected, ConnectedHost, addr,
                 link, file, ans, headed, bodies>>

\* Cache2(): with the length of the answer the request turns out to be a HIT.
\* The server is about to send its body all the same.
LateHit ==
  /\ pc = "header" /\ ~file.hit /\ file.match
  /\ file.early \/ link.open
  /\ file' = [file EXCEPT !.hit = TRUE]
  /\ \E n \in 1 .. MaxBody : link' = [link EXCEPT !.rest = n]
  /\ UNCHANGED <<pc, req, drop, alivecount, retries, code, ServerConnected,
                 ConnectedHost, addr, ans, headed, bodies>>

\* UpdateFileSizeinPartial() takes the second line of a header that never came,
\* of a request for a range, and a plugin may take a part that a URL lacks: the
\* exception ends the child, with the lock it may hold.
ChildDies ==
  /\ \/ pc \in {"cache", "recache"}
     \/ pc = "header" /\ ~file.hit /\ ~file.early /\ file.match
  /\ pc' = "ended"
  /\ UNCHANGED <<req, drop, alivecount, retries, code, ServerConnected, ConnectedHost,
                 addr, link, file, ans, headed, bodies>>

\* A late HIT with If-None-Match, seen only when the header for the browser is
\* made: it is a 304 after all, under the length of the HIT, the flags of one
\* and the status of an earlier answer, by which it has a body or none.
LateNotModified ==
  /\ pc = "header" /\ ~file.hit /\ file.match
  /\ file.early \/ link.open
  /\ file' = [Cancel(file) EXCEPT !.rewrited = TRUE]
  /\ \E n \in 1 .. MaxBody : link' = [link EXCEPT !.rest = n]
  /\ \/ pc' = "nobody" /\ UNCHANGED ans
     \/ /\ pc' = "first" /\ req.type # "HEAD"
        /\ \E n \in 1 .. MaxBody : ans' = [NoAnswer EXCEPT !.length = n]
  /\ UNCHANGED <<req, drop, alivecount, retries, code, ServerConnected, ConnectedHost,
                 addr, headed, bodies>>

\* The header of a HIT; with If-None-Match it is a 304 and a closed connection.
HitHeader ==
  /\ pc = "header" /\ file.hit
  /\ \/ /\ \E n \in 1 .. MaxBody :
             ans' = [NoAnswer EXCEPT !.length = IF req.type = "HEAD" THEN 0 ELSE n]
        /\ pc' = IF req.type = "HEAD" THEN "nobody" ELSE "first"
        /\ UNCHANGED <<drop, file>>
     \/ /\ file' = [Cancel(file) EXCEPT !.rewrited = TRUE]
        /\ drop' = drop \cup {"DropServer", "DropBrowser"}
        /\ pc' = "nobody"
        /\ UNCHANGED ans
  /\ UNCHANGED <<req, alivecount, retries, code, ServerConnected, ConnectedHost,
                 addr, link, headed, bodies>>

\* The header of a redirection: no length but 0, and a connection to close.
RedirectHeader ==
  /\ pc = "header" /\ file.rewrited
  /\ pc' = "nobody"
  /\ drop' = drop \cup {"DropServer"}
  /\ UNCHANGED <<req, alivecount, retries, code, ServerConnected, ConnectedHost,
                 addr, link, file, ans, headed, bodies>>

\* AnalyseHeader() to GetResponse() on a header from the server, a malformed
\* one too: ConnectionToHTTP2::AnalyseHeader() is a bool, which is never below
\* 0, and such an answer has the status of the one before it.  An answer of
\* a length out of bounds, or other than a 200 or 206, is not for the cache; a
\* missing length is below every bound.
ServerHeader(r) ==
  LET known  == r.length # Unknown
      nobody == r.length = 0 \/ r.status = "empty" \/ req.type = "HEAD"
      flags  == (IF r.keep THEN {} ELSE {"DropServer"})
                  \cup (IF known /\ ~r.chunked THEN {} ELSE {"DropBrowser"})
  IN
  /\ pc = "header" /\ ~file.hit /\ ~file.rewrited
  /\ file.early \/ link.open
  /\ IF known /\ r.chunked
     THEN /\ file' \in MayCancel(file)
          /\ Return(-233, {"DropServer"})
          /\ UNCHANGED <<ans, link>>
     ELSE /\ file' \in IF file.match /\ (~known \/ r.status # "full")
                       THEN {Cancel(file)} ELSE MayCancel(file)
          /\ drop' = drop \cup flags
          /\ ans' = [NoAnswer EXCEPT !.length = IF nobody THEN 0 ELSE r.length]
          /\ \E n \in 0 .. (IF known THEN ans'.length + Extra ELSE MaxBody) :
               link' = [link EXCEPT !.rest = n]
          /\ pc' = IF nobody THEN "nobody" ELSE "first"
          /\ UNCHANGED code
  /\ UNCHANGED <<req, alivecount, retries, ServerConnected, ConnectedHost, addr,
                 headed, bodies>>

\* An answer without a body; a body seen all the same closes the connection.
NoBody ==
  /\ pc = "nobody"
  /\ \/ /\ headed' = TRUE
        /\ \/ Return(0, {})
           \/ ~file.hit /\ link.rest > 0 /\ Return(0, {"DropServer"})
     \/ Return(-10, {"BrowserDropped"}) /\ UNCHANGED headed
  /\ UNCHANGED <<req, alivecount, retries, ServerConnected, ConnectedHost, addr,
                 link, file, ans, bodies>>

(***************************************************************************)
(* CommunicationHTTP(): the answer's body.                                 *)
(***************************************************************************)

FromDisk == file.hit \/ file.disk

\* Bytes of a part that its returned length leaves out: a rewritten page grows,
\* and a line break is appended to the one before it.  One byte in an answer
\* stands for all (a bound).
Uncounted ==
  CASE ans.sent # ans.got -> {0}
    [] ans.sent = ans.got /\ file.rewrited -> IF ans.got = 0 THEN {0} ELSE {1}
    [] ans.sent = ans.got /\ ~file.rewrited -> IF file.page THEN {0, 1} ELSE {0}

\* ReadBodyPart() returns n bytes.  A 304 that was announced as a HIT is filled
\* with line breaks.  The disk has the rest of the answer; the server's part may
\* be the last before the disk takes over (miss2hit).
ReadPart(n) ==
  /\ \E u \in Uncounted : ans' = [ans EXCEPT !.got = @ + n, !.sent = @ + n + u]
  /\ IF file.rewrited
     THEN n = 2 /\ UNCHANGED <<link, file>>
     ELSE IF FromDisk
     THEN ans'.got <= ans.length /\ UNCHANGED <<link, file>>
     ELSE /\ n <= link.rest
          /\ link' = [link EXCEPT !.rest = @ - n]
          /\ \/ UNCHANGED file
             \/ /\ file.match /\ ans'.got < ans.length
                /\ file' = [file EXCEPT !.disk = TRUE]

\* ReadBodyPart() returns -1: the connection broke, the body or the file on
\* disk does not fit the request (which is then not for the cache).
ReadFails == ~file.rewrited /\ file' \in MayCancel(file) \cup {file} /\ UNCHANGED link

\* ReadBodyPart() returns 0: the server has closed the connection.
ReadEnds ==
  ~file.rewrited /\ ~FromDisk /\ link.rest = 0 /\ UNCHANGED <<link, file>>

\* The lengths of a part.
Parts == 1 .. (MaxBody + Extra + 1)

\* The part is cut by what exceeds the announced length.
Cut(a) ==
  IF a.length > 0 /\ a.got > a.length
  THEN [a EXCEPT !.got = a.length, !.sent = @ - (a.got - a.length)]
  ELSE a

\* The first part, read before the header goes to the browser.
ReadFirst ==
  /\ pc = "first"
  /\ \/ \E n \in Parts :
          ReadPart(n) /\ pc' = "head" /\ UNCHANGED <<code, drop, headed>>
     \/ ReadFails /\ Return(-74, {"DropServer"}) /\ UNCHANGED <<ans, headed>>
     \/ /\ ReadEnds
        /\ \/ Return(0, {"DropBrowser"}) /\ headed' = TRUE
           \/ Return(-10, {"DropBrowser", "BrowserDropped"}) /\ UNCHANGED headed
        /\ UNCHANGED ans
  /\ UNCHANGED <<req, alivecount, retries, ServerConnected, ConnectedHost, addr,
                 bodies>>

AnswerHeader ==
  /\ pc = "head"
  /\ \/ headed' = TRUE /\ pc' = "part" /\ UNCHANGED <<code, drop>>
     \/ Return(-10, {"BrowserDropped"}) /\ UNCHANGED headed
  /\ UNCHANGED <<req, alivecount, retries, ServerConnected, ConnectedHost, addr,
                 link, file, ans, bodies>>

\* Mutant of SendPart: a server that sends too much is an error.
SendPartStrict ==
  LET over  == Cut(ans) # ans
      extra == IF over THEN {"DropServer"} ELSE {}
  IN
  /\ pc = "part"
  /\ ans' = Cut(ans)
  /\ \/ /\ ans'.got = ans.length
        /\ file' = Update(file)
        /\ Return(IF over THEN -75 ELSE 0, extra)
     \/ /\ ans'.got # ans.length
        /\ pc' = "more"
        /\ UNCHANGED <<code, drop, file>>
  /\ UNCHANGED <<req, alivecount, retries, ServerConnected, ConnectedHost, addr,
                 link, headed, bodies>>

\* A part goes to the browser, without what exceeds the announced length.
SendPart ==
  LET over  == Cut(ans) # ans
      extra == IF over THEN {"DropServer"} ELSE {}
  IN
  /\ pc = "part"
  /\ ans' = Cut(ans)
  /\ \/ /\ file' = Update(file)
        /\ Return(-10, {"BrowserDropped"} \cup extra)
     \/ /\ ans'.got = ans.length
        /\ file' = Update(file)
        /\ Return(0, extra)
     \/ /\ ans'.got # ans.length
        /\ pc' = "more"
        /\ UNCHANGED <<code, drop, file>>
  /\ UNCHANGED <<req, alivecount, retries, ServerConnected, ConnectedHost, addr,
                 link, headed, bodies>>

\* Mutant of ReadMore: an answer cut short keeps the browser.
ReadMoreOrEnd ==
  /\ pc = "more"
  /\ \/ \E n \in Parts :
          ReadPart(n) /\ pc' = "part" /\ UNCHANGED <<code, drop>>
     \/ /\ ReadEnds
        /\ Return(0, {})
        /\ UNCHANGED ans
  /\ UNCHANGED <<req, alivecount, retries, ServerConnected, ConnectedHost, addr,
                 headed, bodies>>

ReadMore ==
  /\ pc = "more"
  /\ \/ \E n \in Parts :
          ReadPart(n) /\ pc' = "part" /\ UNCHANGED <<code, drop>>
     \/ /\ ~file.rewrited
        /\ file' \in {Update(f) : f \in MayCancel(file)}
        /\ Return(-75, {"DropServer"})
        /\ UNCHANGED <<link, ans>>
     \/ /\ ~file.rewrited /\ ~FromDisk /\ link.rest = 0
        /\ file' = Update(file)
        /\ Return(0, IF ans.got < ans.length THEN {"DropBrowser"} ELSE {})
        /\ UNCHANGED <<link, ans>>
  /\ UNCHANGED <<req, alivecount, retries, ServerConnected, ConnectedHost, addr,
                 headed, bodies>>

(***************************************************************************)
(* Proxy(): after CommunicationHTTP().                                     *)
(***************************************************************************)

\* The access log asks GetResponse(), which cancels a MISS whose last answer
\* (of whichever request) was no 200 or 206.
Logged == IF retries = 0 /\ ~file.hit THEN MayCancel(file) ELSE {file}

Retryable == code \in {-60, -61} \/ (code = -80 /\ req.type = "GET")

\* Mutant of Retry: broken bodies are tried again as well.
RetryBroken ==
  /\ pc = "return"
  /\ code \in {-60, -61, -80, -75}
  /\ retries < MaxIPs
  /\ retries' = retries + 1
  /\ \E f \in Logged : CloseUpdate(f)
  /\ pc' = "comm" /\ code' = 0
  /\ UNCHANGED <<req, drop, alivecount, ConnectedHost, addr, ans, headed, bodies>>

\* Mutant of Retry: whatever the method.
RetryAlways ==
  /\ pc = "return"
  /\ code \in {-60, -61, -80}
  /\ retries < MaxIPs
  /\ retries' = retries + 1
  /\ \E f \in Logged : CloseUpdate(f)
  /\ pc' = "comm" /\ code' = 0
  /\ UNCHANGED <<req, drop, alivecount, ConnectedHost, addr, ans, headed, bodies>>

\* Mutant of Retry: without an end.
RetryForever ==
  /\ pc = "return"
  /\ Retryable
  /\ retries' = IF retries <= MaxIPs THEN retries + 1 ELSE retries
  /\ \E f \in Logged : CloseUpdate(f)
  /\ pc' = "comm" /\ code' = 0
  /\ UNCHANGED <<req, drop, alivecount, ConnectedHost, addr, ans, headed, bodies>>

\* Once more with a new connection, as often as the host has addresses and at
\* least once.
Retry ==
  /\ pc = "return"
  /\ Retryable
  /\ retries < MaxIPs
  /\ retries' = retries + 1
  /\ \E f \in Logged : CloseUpdate(f)
  /\ pc' = "comm" /\ code' = 0
  /\ UNCHANGED <<req, drop, alivecount, ConnectedHost, addr, ans, headed, bodies>>

\* The error page goes to a browser that is still there, and to a HEAD only its
\* header; the flags if this fails or not.
ProxyMessage(flags) ==
  IF "BrowserDropped" \in flags \/ req.type = "HEAD" THEN {flags}
  ELSE {flags, flags \cup {"BrowserDropped"}}

\* "No need to stop Keep-Alive if retry is clean": the flag goes whoever set it.
Finish ==
  LET d == IF retries > 0 /\ code = 0 THEN drop \ {"DropServer"} ELSE drop IN
  /\ pc = "return"
  /\ ~Retryable \/ retries > 0
  /\ pc' = "top"
  /\ \E f \in Logged :
       IF d # {} THEN CloseUpdate(f)
       ELSE file' = f /\ UNCHANGED <<link, ServerConnected>>
  /\ drop' \in IF code = 0 THEN {d}
               ELSE {flags \cup {"DropBrowser"} : flags \in ProxyMessage(d)}
  /\ UNCHANGED <<req, alivecount, retries, code, ConnectedHost, addr, ans, headed,
                 bodies>>

(***************************************************************************)
(* The specification.                                                      *)
(***************************************************************************)

Init ==
  /\ pc = "top" /\ drop = {} /\ alivecount = 0 /\ retries = 0 /\ code = 0
  /\ req = CHOOSE r \in Requests : r.type = "GET"
  /\ ServerConnected = FALSE /\ ConnectedHost = NoHost /\ addr = NoHost
  /\ link = Closed /\ file = Blank /\ ans = NoAnswer
  /\ headed = FALSE /\ bodies = 0

Browser == Top \/ CheckForData \/ BadRequest
             \/ \E r \in Requests, keep \in BOOLEAN : GoodRequest(r, keep)

CommunicationHTTP ==
  \/ Start \/ Cache \/ CacheAgain \/ ConnectToServer \/ SendHeader \/ SendBody
  \/ HeaderLost \/ ChildDies \/ LateHit \/ LateNotModified \/ HitHeader
  \/ RedirectHeader \/ (\E r \in Replies : ServerHeader(r))
  \/ NoBody \/ ReadFirst \/ AnswerHeader \/ SendPart \/ ReadMore

Next == Browser \/ CommunicationHTTP \/ Retry \/ Finish

Spec == Init /\ [][Next]_vars

\* The child runs on: each of its waits has a time limit.
FairSpec == Spec /\ WF_vars(Next)

(***************************************************************************)
(* Properties.                                                             *)
(***************************************************************************)

\* A request goes to the host it names, if the host's name was resolved for
\* the connection: kept connections, retries and early headers included.
RightServer ==
  pc \in {"body", "header"} /\ ~file.hit /\ link.open /\ link.named
    => link.host = req.host

\* A request is tried again only while the browser has seen nothing of an
\* answer to it.
RetryUnseen == [][retries' > retries => ~headed]_vars

\* The body of a request is taken from the browser once, so that a retry does
\* not eat the next request; only a GET with a body can be read again.
BodyOnce == req.type # "GET" => bodies <= 1

\* The browser is kept for another request only after it has got the answer
\* that was announced to it, of neither fewer nor more bytes.  Two answers may
\* come out longer, a rewritten page and the 304 of a late HIT: these end with
\* the announced length counted, and not short of it.
WholeBeforeNext ==
  pc = "top" /\ drop \cap {"DropBrowser", "BrowserDropped"} = {}
    => /\ ans.got = ans.length /\ ans.sent >= ans.length
       /\ ans.sent # ans.length => file.page \/ file.rewrited

\* Behind a whole answer the browser gets no error page, which it would take
\* for the answer to its next request.
NoPageBehindAnswer ==
  pc = "return" /\ code # 0 /\ headed /\ "BrowserDropped" \notin drop
    => ans.got # ans.length

\* A retry never meets the lock of its own failed attempt, whichever way that
\* attempt lost the file.
NoSelfLock == pc = "cache" => ~file.taken

\* Every request comes to an end, retries and broken bodies included, or the
\* child with it.
RequestEnds == pc = "comm" ~> pc \in {"top", "ended"}

\* "Make sure server connection is closed if needed" (proxyhandler.cpp:164):
\* a header is read only from a connection without the rest of a body.
NoStaleAnswer ==
  pc = "header" /\ ~file.hit /\ ~file.early /\ ~file.rewrited => link.rest = 0
=============================================================================
