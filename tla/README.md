# haarp in TLA+

Specifications, model-checking configurations and proofs for haarp, a caching
HTTP proxy (a fork of HAVP). Its children download videos and other large files
through a browser's request, keep what they receive in cache files, and serve
later requests, also for parts of a file, from there. The modules are written
from the C++ sources; the constants `Lease`, `MAXSERVERS` and so on carry the
sources' names where there are any.

## 1. The system

| Part | State | Operations | Talks to |
|---|---|---|---|
| Process pool: `haarp.cpp`, `helper.cpp` | `Instances`, `startchild`, the children, `rereadall` | the endless loop of `main()`: reload, reap, fork, look for waiting connections | children (fork, waitpid, signals), the listening socket |
| Proxy child: `proxyhandler.cpp` | `Header`, `alivecount`, `DropBrowser`, `DropServer`, `ServerConnected` | `Proxy()`: one browser connection with its requests; `CommunicationHTTP()`; retries | browser and server sockets, `ConnectionToHTTP2` |
| Cache of a file: `connectiontohttp2.cpp` | `r`, `hit`, `miss2hit`, `range_min/max`, `lranges`, `lrangeswork`, `brange`, `acumulate`, the stream `cachefile` | `Cache()`, `Cache2()`, `ReadHeader()`, `ReadBodyPart()`, `SubUpdate()`, `Update()`, `CloseUpdate()`, `Close()` | the row of the file, the cache file |
| Edit lock: `lockFile()`, `liberate_edition()` | columns `file_used`, `modified`, `last_request`; `exists_transaction_editing_file`, `was_liberate` | take, refuse, take over, renew, free | the table `haarp` (MySQL) |
| Range algebra: `utils.cpp` | none (lists of `intervalPositionByteDisk`) | `getRangeWork`, `appendNode`, `appendSubNode`, `getPointEnd`, ... | called by the cache |
| Cleaners: `etc/haarp/haarpClean*.cpp` | dates, phase and hit count of a pass, the list of a SELECT | choose old rows, delete files and rows | the table and the disk, without the lock |
| HTTP headers and bodies, socket buffers: `httphandler.cpp`, `sockethandler.cpp` | `RecvBuf`, `headerT`, the counts of a look ahead | `Recv`, `RecvLength`, `ReadHeader`, `ReadBodyPart` with chunks | sockets |
| Users of a file: `utils.cpp` | column `users` | `addUserCache`, `lusercache2str` | `SubUpdate`, `Update` |
| Plugins and names: `plugins/`, `getdomain()`, `getLimitBytes()`, `Cache()` up to the lock | `r`, `range_min/max`, `partial`; the globals of three plugins | a URL and a Range header to a file name and a range | called by `Cache()` |
| Netflix rows, request and reply headers, configuration, logs, md5, the PHP page, scripts | | see "Not modelled" | |

What is hard in it: children are processes that share nothing but the table and
the disk, and any of them may die anywhere. The lock is a lease without an
owner. The bytes of a file and the map that names them are saved by separate
steps through a buffered stream. Blocks are stored in the order they were
downloaded, so offsets and disk positions are two different orders. The lists of
blocks change while they are walked. Cleaners delete without asking, in three
steps that do not know of each other. Readers look ahead into a buffer that has
what `recv()` happened to return. And a child names files with what it kept from
the request before.

What makes each part right:

* Edit lock: one editor per file; nobody is robbed who still works; no lock is
  lost for ever.
* Range algebra: a list of blocks is exactly the request, split into what is
  there (and where) and what is not.
* Cache file: the map in the table names bytes that are on the disk, whenever a
  child dies; what is served is the original; saved parts are not lost.
* Pool: the count of children is right, the pool is bounded, new children come
  for waiting connections, ended children are reaped.
* Proxy child: a request goes to its own host, once or with clean retries; the
  browser is never left waiting for the rest of an answer; each request of a
  connection starts clean.
* Readers: every byte comes out once and in order; header and body parts are
  what was sent, however it was cut; every read ends.
* Names: the name of a file depends on the request alone; the first byte of an
  answer is cached at its own place.
* Cleaners: a file loses its row only with its bytes; the oldest go first; a run
  ends; maps that children save next to it name bytes that are there.

The hazards, with their lines and the properties aimed at them, are in
`PROJECT.json`.

## 2. Modules

| Module | Models | Theorems |
|---|---|---|
| `FileMutex` | what the edit lock promises: at most one editor | |
| `EditLock` | the row's lock protocol in time | `Processes_proofs` |
| `MCEditLock` | `EditLock` with symmetric children | |
| `Segments` | the range algebra over sets of segments | `Segments_proofs` |
| `RangeWalk` | `getRangeWork()` as the code walks, on all maps that arise | `RangeWalk_proofs` |
| `CacheFile` | one cache file: disk, row, and the children that fill and serve it | `CacheFile_proofs` |
| `ProcessPool` | the parent's loop and its children | `Processes_proofs` |
| `ProxyChild` | a child with its browser: requests, retries, the two connections | `ProxyChild_proofs` |
| `HttpReader` | a socket's buffer and the two readers that look ahead in it | `HttpReader_proofs` |
| `MCHttpReader` | `HttpReader` with answers of every kind of end and size line | |
| `Plugins` | every plugin, as an operator over the parts of a URL | |
| `Naming` | a child that names one request after another | `Naming_proofs` |
| `MCNaming` | `Naming` with URLs for every plugin | |
| `Cleaner` | haarpClean next to children at work | `Cleaner_proofs` |

`RangeWalk` and `CacheFile` extend `Segments`, `Naming` extends `Plugins`. `EditLock` instantiates
`FileMutex` with a refinement mapping; `CacheFile` takes the lock as
`FileMutex` describes it, so its results hold as long as the lock does.

### EditLock

The row is `[there, used, age]`; `age` is the number of seconds since
`GREATEST(modified, last_request)`, the only thing the code asks about the two
dates, and stops counting one second after the lease. One action is one
transaction or statement. `lockFile()` is `InsertLock`, `TakeFree`,
`RefuseBusy`, `TakeStale` and `LockError`. `Touch` and `liberate_edition` may
fail, as SQL statements do. The result of `COMMIT` is not looked at
(connectiontohttp2.cpp:288, 313, 330), so a child whose COMMIT fails goes on as an
owner while the row stays as it was: `CommitLost`, if `CommitFails`. `KeepLock` and `NextRequest` are the paths that go
on without the cache and never free the lock; `Cancel` collects those that free
it. `SubUpdate` needs `RenewAfter` seconds of silence: the code wants more than
15 flushes with more than 1.2 seconds between them, measured with `time()`, so
two whole seconds each, which is 32. `Holder(p)` is a child that would free the
lock (`!exists_transaction_editing_file && !was_liberate`). The history
variables `quiet` and `breach` are read by properties and by the bound on time;
`breach` says what first let a second child edit the file, a theft or a lost COMMIT.
`Patience` bounds how long a holder stays silent; nothing in the code bounds it
but the network timeouts of 120 seconds.

### Segments and RangeWalk

The code's lists are sets of segments: every function sorts its list by `a` or
looks for the node with the largest position, and these are never equal within
a list, so the order of a list carries nothing. `getRangeWork()` is defined by
what it returns (the pieces of segments inside the request and the gaps between
them) and, in `RangeWalk`, by its loops: `Call` is a request, `PassBy`,
`StartsBefore`, `StartsIn`, `EndsBefore`, `EndsIn`, `Passes` are the turns, one for
each branch, `AfterLoops` what follows them, and `Download` puts some of the
missing blocks into the map. `rest` has the segments still to come, `tope` is the
code's variable, `pr` the blocks so far. `TailLost` is the one
place where the code's answer is not the request: `interval_b > tope` at the
end of the walk leaves out a last gap of one byte.

### CacheFile

`disk` maps a position of the cache file to the byte of the original that is
there, and a byte of the original is named by its offset. `row` has the map
(`rg` and `pos` together), `null` for a row whose columns were never written,
and the size of the original. `t[p]` is the request of a child; `phase` follows
`Cache()` (`locked`), the decision (`miss`, `hit`), the body (`body`, and `tail`
once `miss2hit` is set) and the end (`done`). `dirty` counts the bytes of the
current block that the stream still holds: `Write` puts a part into the
buffer, `Drain` and the flushes take it out, a crash loses it.

`ReadBodyPart()` handles one part of the body in a loop over the blocks; one
action is one turn: `Receive`, then `Overflow` for every block that the part
fills, then `Write` or `WriteEnd`. Only the last of them ends a part, and the
other operations of the child (`SubUpdate`, `Update`, `Leave`) wait for it;
`Crash` does not.

Requests are those the code can be left with after `getLimitBytes()` and the
plugin: the whole file or a range in the URL; files named `206-...` with Range
headers; and files of the general plugin, which mixes them (`Kinds`). Ranges
may be open, in the URL as in the header, and may go beyond the end. A child that
was refused the lock is not one of `t`, but it comes to `Cache2()` too and writes the
row's size when its range has no end: `RefusedHeader`, at any time. A server sends what was asked for, with
the right length, cut short anywhere or with up to `Extra` bytes too many.

The static cache of `Cache()` (827-903), whose switch needs a character class
that no URL satisfies, the renaming of netflix rows and the expiry of the
general plugin are not part of the module. The cleaner's two deletions act here while nobody
has the file: the file and then its row, or the row alone, when the `rm` has failed or an
empty record is deleted. `Cleaner` has them next to children.

### ProcessPool

`main` is the place in the loop of `main()`. `Top` is the reload, `Reap` one
`waitpid()` that finds a child, `Fork` and `ForkError` one turn of the fork
loop, `Look` and `LookAgain` the two `CheckForData(0)` around `sleep(1)`. The
children are counts: `waiting` in `accept()`, `serving`, `zombies`. A child may
end while it waits (`Die`: its signals could not be installed, or it was killed), and
exits after one connection (`Proxy()` breaks out of its loop when the browser
is dropped), so every connection costs a fork. `room` is the number of
processes the system grants; an ended child that was not waited for has its
place. `fork()` may fail below that limit too, for want of memory. SIGUSR1 makes a child set `childrestart`, which nothing reads, so it has
no action of its own.

### ProxyChild

`pc` is the place in `Proxy()` (`top`, `wait`, `read`, `return`) or in
`CommunicationHTTP()` (the others); every early `return` there is a `Return`
with its code and the flags it sets. `link` is the server connection: whom it
reaches, whether its address was resolved from the request's own name, and how
much of an answer the server still has to deliver on it. `file` has what
`Cache()` decides and whether the row has this child's `file_used`. `Cache()` is
called from two places: `SetDomainAndPort()` for a new connection (`Cache`) and
`SendHeader()` for a kept one (`CacheAgain`), which drops its errors. `LateHit`
is `Cache2()`, `disk` stands for `miss2hit`, `early` for `headerReader`. `page` is an
answer of YouTube whose links are rewritten on the way (`youtube_IDs()`), `rewrited` the
flag of that name, set by the plugins that answer with a redirection (`Redirect`,
`RedirectHeader`: no server is asked) and by the 304 of a HIT. An answer has two counts:
`got` is what the lengths returned by `ReadBodyPart()` add up to, by which the code
judges, and `sent` is what the browser got; a rewritten page and the line breaks of a
late 304 are longer than what is returned for them (`Uncounted`). `LateNotModified`
is the 304 of a HIT that was found after `AnalyseHeader()`: it is made by
`PrepareHeaderForBrowser()`, so that neither connection is marked for closing, and its
body is line breaks. `ChildDies` is the exception of `UpdateFileSizeinPartial()` for a
header that never came, and that of a plugin for a URL it cannot take apart. The
decisions themselves, the servers and the browser are free choices: what is
cached is the subject of `CacheFile`, and the lock among children that of
`EditLock`. `Retry` is one turn of the loop at proxyhandler.cpp:147, `Finish`
what follows it, in the code's order. The names that fail to resolve leave the
previous address in place, since `ConnectionToHTTP2::SetDomainAndPort()` turns
`false` into 0, which is no error to its caller. A malformed header is an answer
like any other, since `ConnectionToHTTP2::AnalyseHeader()` turns an error into
`true`.

`ProxyMessage()` is what it does to the flags: a page goes to the browser whether
a part of an answer went before it or not, and the browser connection is
dropped. Left out: a parent proxy (not configured), SSL tunnels (which do not
compile), FTP. `headed` and `bodies` are history.

### HttpReader

A byte is its position in the server's stream, and `RecvBuf`, `headerT` and every
string are sequences of positions, so "once and in order" is one equation.
Two calls are all there is to reading: `Recv(Temp, false)` looks at a piece and
leaves it in `RecvBuf`; `RecvLength()` takes bytes out and waits for as many as
it was asked for. `recv()` returns a piece of any length up to `MAXRECV`, and
the server may send any part of an answer, then fall silent or close. `SkipBlanks`,
`KeepHeader`, `MoreHeader`, `EndHeader`, `EndBareHeader` and `ClosedHeader` are
the loops of `HTTPHandler::ReadHeader()`; `SizeLine` is one look of the chunk
reader with all four outcomes; `length` is the `RecvLength()` under way and what
its caller does with the result (`Then`). `unsigned int` arguments are taken modulo
`UINT`. `eaten`, `body` and `split` are history. An answer is a text with its layout:
how many blanks come before the header, where it ends and with which kind of line,
and where in the body each chunk begins and with which digits of its size.
`IsHeader` and `IsBody` say what such a layout means byte by byte, without building the
text, so that a proof can use it; `MCHttpReader` builds the texts, and TLC evaluates
`HttpReaderAssumption` on them.

### Plugins and Naming

A URL is a record of the parts that the plugins look at: the labels of the host,
the segments of the path, the arguments, and the marks that `url.find()` looks
for. A file name is the sequence of the parts that the code joins. Every plugin is
one operator of `Plugins`, named after its source file, and `hgetmatch2` picks
among them as `dlopen()` does; a call that throws (`at()`, `substr()`) gives
`Thrown`: the name `<<"/&">>`, which no URL gives, since paths are cut at slashes and arguments
at ampersands. `IsUrl` says what a URL is: those two things, a mark where there are arguments,
and what a mark found in the path says of the path. Where the arms of a
`CASE` stand for a chain of `if`s, their guards exclude each other, as a `CASE` with two
true guards means either arm. `Naming` has what surrounds them: `getLimitBytes()` of the browser's
header, `getdomain()`, the branches of `Cache()` with a plugin, with the general
plugin and with none, and what a child carries from one request to the next: `r`
and `dominiotxt`, the global of each of the three libraries that have one. `NamingAssumption`
asks of the requests that they are URLs (`IsUrl`) and that a header counts within the file,
the first byte of a range not behind its last (`IsHeader`).

### Cleaner

haarpClean SELECTs rows, removes their files one by one, and deletes rows by
evaluating the condition again: `Select`, `RemoveFile`, `Delete` are steps of
their own, and each may be the last. `getNewDateMax`, `NextHit` and `NextPass`
are the phases and passes. `mode` is what the program was started for: `limit`
(the disk is full, `deleteEmptyRecords` otherwise), `dates` (with any day for
either date), `file`. The result of the `rm` is not looked at (haarpClean.cpp:227, 454),
and `--file` does not quote its path (447): `RemoveFails` counts the file as removed and
leaves it. A child has the steps that meet the cleaner: lock, look for the file, read
the map, open (creating what is gone), write, `SubUpdate()` and `Update()`, or open
to read and serve. Children ask without end; `MaxAsked` only stops the count of what
was asked of a file, and `Popular` are the files they ask for. A file that is
removed while it is open stays an inode without a name (`linked`). The rows of a
SELECT are a set (`todo`), since the order in which their files go tells nothing
apart; the order of the table's ids, which decides what a LIMIT reaches, is the
relation `older`. Size and
requested bytes are counted in blocks, dates in days. `EXACT` is the first phase
in which the doubles of `pow()` round `kn` to 1. `met`, `crossed`, `raced` and `stuck`
are history: whom the cleaner met, whether a child stepped in since the SELECT,
on which files one of the two races struck, and which files an `rm` has left.
A child's lock is taken over only when that child is gone: the take-over of the
lease from a living one is `EditLock`'s, and neither `Cleaner` nor `CacheFile` has it.

## 3. Runs

| Run | Constants | What it shows |
|---|---|---|
| `lock` | 3 children, lease 1, renewal 2, patience 2, a COMMIT may fail | Two holders come only from a take-over of a live holder's lock or a lost COMMIT (`ExclusiveUntilTheft`); the first take-over robs a child silent for longer than the lease (`TheftNeedsSilence`); a taken lock can be taken again (`LockableAgain`) |
| `lock_short` | 3 children, lease 3, patience 3, every COMMIT works | With no holder silent for longer than the lease and no COMMIT lost, one editor (`OneEditor`), and `EditLock` implements `FileMutex` (`MutexSpec`) |
| `lock_code` (violation) | 2 children, 30, 32, 33 | The code's own numbers: two children receive a body into one file |
| `ranges` | 6 bytes | On every map reachable by partial downloads: the map fills the file without holes (`MapOK`), the loops return the definition (`WalkAgrees`), what is read is where it is said to be (`WorkSound`), at most the last byte is lost (`OnlyTheTail`) |
| `cachefile` | 1 child at a time, 4 bytes, parts of up to 2, 1 byte too many | The saved map is on the disk after every step of every request, crash and clean-up (`MapOnDisk`), does not overlap (`MapDisjoint`), never shrinks (`MapGrows`); what will be served from disk is right (`ServesRight`) |
| `pool` | 2 to 4 servers, room for 3 or 7, 3 waiting connections | The count is exact and bounded by `MAXSERVERS + 1`, whether `fork()` fails or not; waiting connections get children, ended children are reaped, SIGHUP is acted upon |
| `proxy` | 2 hosts, bodies of up to 2 and 1 byte too many, 2 addresses | Kept connections, retries and early headers go to the host of the request (`RightServer`); a request with a body is not read twice (`BodyOnce`); the browser stays only after a whole answer, or one of the two kinds that come out longer (`WholeBeforeNext`) and sees one answer whatever is retried (`RetryUnseen`); no error page follows a whole answer (`NoPageBehindAnswer`); no attempt meets the lock of the one before it (`NoSelfLock`); requests end (`RequestEnds`) |
| `proxy_stale` (violation) | 1 host, bodies of up to 2 | The unread rest of a body is taken for the next answer's header |
| `reader` | 8 answers, 2 in a row, pieces of up to 5 bytes | Every byte once and in order (`InOrder`); header and body parts are exact (`HeaderExact`, `BodyExact`); a whole answer within the limits fails only when it is cut at one of the known places (`FailsOnlySplit`); every read ends (`ReaderEnds`) |
| `naming` | every plugin, URLs of every shape it knows, 6 Range headers | A name owes nothing to the requests before (`OwnName`); the first byte goes to its place (`RightPlace`); what ends a child (`Survives`); each with its exceptions spelt out |
| `cleaner_table` | 2 files of one block, 2 days, 1 child that asks for one of them without end | A file without a row comes only from a race or a failed `rm` (`FilesHaveRows`); what a pass leaves is known (`NothingForgotten`); the newest day goes last (`NewestLast`) |
| `cleaner_children` | 1 file of two blocks, 2 children that ask for it without end | A saved map names bytes on the disk unless one of two races struck (`SavedOnDisk`); the cleaner ends, unless requests go on for ever (`CleanerEnds`) |

Bounds. The lock's times matter only in their order and by one second, so a
lease of one second and a patience of two have every case; three children are a robbed holder, its
robber and one more. Six bytes make maps of three segments with gaps before,
between and behind them, in all orders on the disk. Four bytes and parts of two
are blocks that one part fills, overflows and leaves open; the requests of
several children are one after another under the lock, so one child that forgets
everything between requests is all of them. Five children of the pool are
the bound `MAXSERVERS + 1`; three waiting connections keep one waiting after
two are taken by the two that are started. For the proxy child two hosts are the
kept and the wanted one, a body of two bytes can be cut in the middle, and two
addresses allow a retry of a retry; the number of requests on a connection is
not bounded, and `AliveMax`, the code's 99, decides only when idle browsers are
dropped. The reader's limits are scaled down (65536 to 16, 14600 to 5, 256 to 6, seven
digits to two, 1 MB to 2 bytes, 2^32 to 1000) so that answers below, at and above
each of them fit into a few pieces; the second answer is there for what the
first one leaves in the buffer. A visited domain is one behaviour of `naming`,
since nothing but `r` and one library's globals joins two requests; two requests
in a row reach every value of both. Two files are a row before and a row behind
the LIMIT of one; two days are the newest and one before it; `EXACT` is
small, so that the last phase is reached; up to three requests of a block are counted,
which is beyond `MAX_HIT`, so that every pass has rows below and above it. One byte stands for
all those that a page or a redirection is sent beyond its returned length.

Deadlock is checked except where the system stops: in `ProxyChild`, `HttpReader` and
`Cleaner`, where the child ends with its browser connection, the reader with a
failed read and the cleaner with its work.

Fairness. `ProxyChild!FairSpec` lets the child take its next step, whichever it
is: all its waits have time limits. `EditLock!FairSpec` lets time pass and requests end (all waits of a
child have time limits); it asks nothing of those who want the lock.
`FairPool` runs the parent and lets a child accept what waits; no
property needs connections to end. A `fork()` that is tried again and again with room in the
table works at last (`SF_poolvars(Fork)`): the code says no more than "Lets hope the the
causing error goes away soon" (haarp.cpp:153), and where it does not, the parent stays in
that loop. The liveness of the pool is stated for systems
with room for the largest pool (`Roomy`): in a smaller table the children that ended may
keep it full, and nothing promises more. `HttpReader!FairSpec` lets the
reader go on, since `recv()` gives up after RECVTIMEOUT seconds. `Cleaner!Spec`
lets the cleaner go on (`WF_vars(Work)`): it waits for nobody; it asks nothing of
the children, and `CleanerEnds` says nothing of a run in which they never stop.

## 4. Differences between the code and what is said of it

Shown by runs:

* `lock_code`: the lease of 30 seconds (connectiontohttp2.cpp:259) ends before
  the first renewal of a transfer (1620-1638), against "Fix Problem with
  concurrent caching of files." (README.md:374). The comment at 318 speaks of 60
  seconds.
* `proxy_stale`: a MISS that turns out to be a HIT (connectiontohttp2.cpp:147,
  1571) leaves the rest of the server's body on a connection that
  proxyhandler.cpp:164 keeps.

Met while modelling, and where they touch a property, its stated exception:

* Ranges. utils.cpp:335 compares with `>`: a gap of the last byte alone is
  no block, and the request passes for a HIT.
* Edit lock. The result of COMMIT is not looked at (connectiontohttp2.cpp:288, 313, 330),
  and a child may edit a file whose row is not its own.
* Cache file. The columns `rg` and `pos` of a new row are NULL (haarp.sql:13);
  if the first transfer ends without `Update()`, `Database::get()` makes a string
  of a null pointer and every later request for the file ends its child. Requests of
  the general plugin without a range take no lock (connectiontohttp2.cpp:538).
* Pool. The fork loop of `main()` has no `waitpid()`: where ended children fill
  the process table, the parent repeats `fork()` for ever. `haarp.conf` calls
  MAXSERVERS a limit; the pool may exceed it by one, which is `InstancesBound`.
* Proxy child. proxyhandler.cpp:369 refuses a malformed header by a negative
  result that the `bool` of connectiontohttp2.cpp:1210 never has. Nothing sets
  `HeaderSend`, so an error page follows the part of a broken answer
  (proxyhandler.cpp:872); `NoPageBehindAnswer` is what is left of the intention.
  `youtube_IDs()` (connectiontohttp2.cpp:1401-1411) makes a page longer and returns its old
  length, so the browser gets more bytes than were announced to it and its connection is kept. A
  HIT that `Cache2()` finds for a request with If-None-Match is answered by a 304 with neither
  connection closed, and its body (1302) is a line break appended to the part before, of which only the
  line break is counted; `WholeBeforeNext` names these two. `UpdateFileSizeinPartial()` (158) counts to
  `lines.size() - 1`, which wraps for an empty header, and throws, which ends the child with its lock.
  With a parent proxy `SetDomainAndPort()` is called without the request (214), so
  `Cache()` sees an empty one on a new connection. `CommunicationSSL()` calls
  `PrepareHeaderForServer` (560) with arguments that connectiontobrowser.h:43 does
  not have: SSLTUNNEL does not compile.
* Reader. When a piece ends between the last CR and LF of a header,
  `position - poscount + 2` is -1, and the unsigned `RecvLength()` swallows what comes
  and fails (httphandler.cpp:101). When a piece ends inside a size line or inside
  the CRLF behind a chunk, the reader looks at the same bytes again until it
  has counted more than 256 (226, 264). `received` counts the first piece of a header twice (27, 76) and
  the CRLF left behind the last chunk, so a header may be refused that is shorter by a piece than
  MAXHTTPHEADERLENGTH, which default.h.in:49 calls the maximum length of headers; `Refusable`
  allows for that. The
  comment on the chunk size says eight digits; `hpos > 7` refuses the
  eighth. Whole lines of a header count as a header when the connection
  ends (87-94). `GetLine()` (481-507) has no caller.
* Names. `getdomain()` throws for hosts of two short labels (t.co), gives no plugin
  for the root of a site (utils.cpp:540), and counts "nai" as short, so the plugin
  of nai.com is never asked (553). xtube and xvideos miss `fs` as the first argument.
  Steam, riotgames and edgesuite match with an empty name, under which all such
  URLs are one file. grandchase.com.br returns nothing. The general plugin's name has
  no subdomain. "bytes=-n" is read as "n-"; "range:" is not seen but is sent on; a
  Range header and a start in the URL are not added up. `dominiotxt` keeps the last
  match in akamaihd, socialpointgames and zgncdn. The static branch of `Cache()`
  (828) asks for a character class no URL satisfies.
* Cleaner. Rows requested more than 96 and up to 106 times their size are in no pass
  (haarpClean.cpp:533-545), against the help of `--dates` (323). The phases end only because `kn`
  rounds to 1 (208); after that the last one selects again whatever requests have put back
  into it, and where they put back rows of today without a file each time, `mb_eliminate` never grows
  and the loop (203-245) has no end. The result of `rm` is not looked at (227, 454), and the
  path of `--file` is not quoted (447): the row goes and the file stays. `deleteEmptyRecords`
  (299-314) leaves files without rows, and
  the next request for one ends its child or passes by the cache. The DELETE evaluates its condition with
  its LIMIT again, so the row of another file may go. A child that opens after the `rm` makes a new
  file and loses its row; a late `Update()` writes its map into a new row of the same
  name. haarpClean2 asks for the column `requested` (134), which haarp.sql calls
  `bytes_requested`: its first SELECT fails and it deletes nothing.

## 5. Proofs

All theorems are for every value of the constants under the modules'
assumptions (`NobodyAssumption`, `TimesAssumption`, `CommitAssumption`, `PoolAssumption`,
`ProxyAssumption`, `HttpReaderAssumption`, `CacheFileAssumption`, `SizeAssumption`,
`NamingAssumption`, `CleanerAssumption`, `PhasesAssumption`). They are what the code and its types
give: positive limits, finite sets of blocks and of files. `PhasesAssumption` is
arithmetic that the provers do not have, since they know nothing of powers: kn is below 1
in every phase that is not rounded, and takes less than a day from all days in the last
of them, as (1 - 2^-53)^107 does in the code. TLC evaluates it for the numbers of the runs.

`Processes_proofs` has the edit lock and the pool, which share no name and no variable.

Of the edit lock the inductive invariant is `TypeOK /\ LeaseInv`. It is needed
because exclusion alone is not inductive: that `TakeFree` finds no holder
follows only from "a holder's lock is in the row", and that `TakeStale` robs
nobody but the silent from "the row is at least as young as the holder's last
touch". Both end with the first theft or lost COMMIT, hence the history variable. From it
follow `Exclusive` (`ExclusiveUntilTheft`) and `Silence` (`TheftNeedsSilence`).
With `Patience <= Lease` and `~CommitFails` the invariant `ShortInv` (nobody is silent for longer
than `Patience`, so there is no breach) gives `ShortHolders` (`OneEditor`) and
`Refinement` (`MutexSpec`): every step of the row is a `Take`, a `Leave` or a
stutter of `FileMutex`.

Of the pool the invariant `PoolInv` adds to type, count and bound that
what is still to be started fits (`Instances + startchild <= MAXSERVERS + 1`
while `startchild > 0`) and that nothing is to be started while the parent looks
for waiting connections. It gives `PoolTypeCorrect`, `CountExact`, `CountBound` and
`ForkFindsRoom` (with room for the largest pool `fork()` is never tried on a full table,
which is the premise of the liveness properties: what else makes it fail is assumed to
pass).

`ProxyChild_proofs`: `Shape` is the types, with the fields that an answer, a link
and the file have at each place. Above it stands one invariant for each property, since
each is about another path through `CommunicationHTTP()`. `LockInv` says where
the row may have this child's `file_used` (`NoSelfLock`: every path back to `Retry`
has freed it or never had it). `BodyInv` says that a request whose body was read
is on its last attempt (`BodyOnce`). `HeadedInv` says that nothing of an answer has
gone to the browser while an attempt can still be repeated (`RetryUnseen`). `ServerInv`
ties the open link to the host of the request from the moment it is chosen
(`RightServer`). `WholeInv` says what the flags mean at the places where `Finish` will read
them, and `SentInv` that what was sent differs from what was counted only in the two
answers that come out longer (`WholeBeforeNext`, and with `StepPage` `NoPageBehindAnswer`).

`HttpReader_proofs`: `EachByteOnce` (`InOrder`) rests on `BufferInv`: `RecvBuf` is
what was received and not yet eaten, the last piece of a header is the whole
buffer, and a look at a chunk that led to nothing begins with the first byte
of the buffer, so that what is taken next is what was looked at.
The other theorems rest on `Inv` (`Placed`), which says at each place of the
readers where they are in the answer; the code knows that only from what it has
counted. `StreamInv`: the answer is the end of the stream. `SkipInv`: only blanks
were skipped, the CRLF behind the answer before among them. `HeaderInv`: `headerT` is
the header as far as it is eaten, `tempheader` as far as it has come, and no end of it
has been passed by, unless a piece ended right before the last byte of the empty line,
which is then `split`. So the end found is the header's own (`HeaderEnds`), and the length
to take is right, or it is -1: as an unsigned number more than will ever come
(`HeaderEndInv`), so such a header fails and is never a wrong one.
`ChunkInv`: the chunk reader is at a size line or at the CRLF before one (`BetweenChunks`),
and if it has looked before it is `Stuck`: neither what it has seen nor what is
in the buffer has a CRLF, nor have both together, so it can only look again and
be refused. `SizeInv` and `DataInv` tie the length under way to the chunk (`ChunkIs` says
byte by byte what a chunk is). `BodyInv`: the body returned is the data up to there.
It holds for every limit, every cut, any number of answers and chunks. What a size is
worth (`Value`, a fold over its digits) is never unfolded: the layout of an answer
and `ReadBodyPart()` use the same one. `HttpReaderAssumption` asks that answers have a layout
that fits their text, and that no answer and no piece is as long as an unsigned int can count.

`Segments_proofs` is for the range algebra of every size. A set of
numbers has a least member because strict inclusion is well-founded on the
finite intervals below its members. On it rest what the `CHOOSE`s of `Segments`
return: the last node of a map is one, `getPointEnd` lies behind every segment
(`PointEnd`), a gap has an end. `Placed` is a map that names no byte and no
place on the disk twice; a block that is clear of it and placed at its point
end leaves it so, covers all it covered, and becomes the new end
(`AppendPlaced`, `AppendCovers`, `AppendPointEnd`). `getRangeWork()` of such a
map is a chain from the first byte asked for, without overlap, whose blocks are
parts of segments or clear of all of them (`WorkChain`, `WorkPlaces`).

`RangeWalk_proofs`: the loops change what they walk, so the invariant speaks of the
part they are behind. `WalkInv`: the blocks so far are exactly the definition's blocks
of the request up to `tope`, no segment still to come begins before `tope`, and
`hit` tells whether one of them is missing. The two loops differ in what `tope` is
(`SecondInv`), and what comes after them closes the last gap (`LastInv`), which is
where the code loses a tail of one byte. `MapInv` says that the map is `Placed` and
fills its file without a hole (`Filled`), which each download keeps. Together:
`MapIsWhole` (`MapOK`), `LoopsReturnTheWork` (`WalkAgrees`), `BlocksAreSound`
(`WorkSound`) and `OnlyTheTailIsLost` (`OnlyTheTail`), for files and requests of any size.

`CacheFile_proofs`: the invariant is `MapInv`. That the saved map is on the disk is
not inductive: it stays so because of what the child at work has in hand.
`Known` says that its `lranges` covers all of the row's map, that both are on the
disk and end below `getPointEnd(lranges)`, and that each block of its work is
where it says or, if it is still to come, clear of `lranges`. `Current` says that the
block being written lies at the point end, so that writing it touches nothing
that a map names (`WrittenKeeps`), and that what has left the buffer is there;
a block that is there already is written with the same bytes (`PutAgain`). A
crash leaves the row and the disk as they are, which is why nothing more is
needed for it. Since one child at a time has the file, the others' steps are
those of idle ones (`Stepped`). The bound `Size` on the file, `MaxPart` on
the parts, the number of children and the length of a run are gone; what stays is
that the general plugin, which takes no lock, is not among the files
(`"general" \notin Kinds`, an assumption of each theorem). It gives `MapIsOnDisk`,
`MapHasNoOverlap`, `ServedBytesAreRight` and `MapOnlyGrows`, and the types
(`TypeCorrect`), which no run repeats.

`Cleaner_proofs`: the invariant is `CleanerInv`. Of each file that no race has struck
`FileInv` says that one child at most is at work on it, that this child's lock is in the
row, and that it knows the file as it is: what it has looked for, what it has opened
and the map in its hand agree with the disk, the row or both, as its place demands.
That is what the lock is for, and it is inductive only because the cleaner's two
ways to break it (an `rm` between look and open, a DELETE under a child or after a
child's step) put the file into `raced`. `FilesFirst` says that what a DELETE will
reach has lost its file, is still to lose it, or has met an `rm` that failed (`stuck`), while
no child has stepped in since the SELECT. They give `MapsNameWhatIsThere` (`SavedOnDisk`) and `RowsGoAfterFiles`
(`FilesHaveRows`). The passes have an invariant of their own, `PassInv`: once the
pass with `>` is reached, no row up to the date of the last pass with `<=` was
asked for less than that pass takes, and once the phases are rounded, no row before the
newest day is left that is in a pass at all; it needs that the hit counts step exactly
on `PassHits` (`HitsInOrder`), that dates shrink with each pass (`PhaseEnds`), and that a
statement with a LIMIT reaches a row if there is one (`NothingMatches`, since
`Ordered` makes the ids an order). They give `PassesReachAll` (`NothingForgotten`) and
`NewestDayGoesLast` (`NewestLast`).

`Naming_proofs`: what a request is answered depends on which of 109 libraries is asked, so
the proof begins with one statement that every one of them satisfies, `Fits`: its answer is
the exception only for a URL that `Deadly` names; a match has a name, but for the five domains
of `Unnamed`; its first byte is the URL's own start (`UrlStart`), but for `fs` as the first
argument; and a YouTube answer to a URL with a start carries the range of the URL.
`PluginsFit` is that for all of them: 73 by one lemma, since they ask a condition and
take the last parts (`PlainFits`), the others one by one, and `GeneralFits` for the plugin of all
other domains. They rest on what the parts of a URL are (`PartsAre`, `LastPartsAre`, `ArgsAre`).
`AdjustedIs` says what `Cache()` makes of an answer, `LimitsAre` what `getLimitBytes()` says of a
header. `NamingInv` adds what is carried from request to request: no library with a
global calls its domain "youtube" (`TextIsNot`), without which a header would change the
name of one child's file and not of another's, and the limits are those of the header until a
plugin is asked. It gives `NamesAreOwn` (`OwnName`: `StickyFile`, since the texts that a child has
collected reach the domain and never the file), `PlacesAreRight` (`RightPlace`) and
`OnlyDeadlyKill` (`Survives`), for every URL, header and sequence of requests.
How a text is cut is not part of it: which marks and numbers a URL has is its record.

Only model-checked: liveness (out of the prover's reach).

## 6. Plan

Done: `FileMutex`, `EditLock`, `ProcessPool`, `ProxyChild`, `Segments`, `RangeWalk`,
`CacheFile`, `Cleaner`, `HttpReader`, `Plugins` and `Naming`, with proofs of every safety property
that a run checks. Next, in this order:

1. `CacheFile`: versions of the original, for the expiry of the general plugin (674): a
   Last-Modified older than the row's `modified`, which every partial download
   moves on, keeps a file of two versions.
2. `ProxyChild` with a parent proxy.
3. `UserCache`: `addUserCache()` and the ten entries kept in the table, which
   children read, change and write back without a lock.

Not modelled: SSL tunnels (they do not compile); FTP over a parent proxy; the parsing of headers
and the headers that are sent on (string work; the parts that decide what happens are in
`ProxyChild` and `Naming`); logging, parameters, md5 (pure output, read once, a library
function); netflix rows (renamed after the md5 of their first bytes, for a service
that no longer answers over plain HTTP); the PHP page and the scripts.
