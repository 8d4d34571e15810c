------------------------------ MODULE CacheFile ------------------------------
(***************************************************************************)
(* One cached file: its bytes on the disk, its row in the table `haarp`,   *)
(* and the children that fill and serve it.  A child reads the map of the  *)
(* file (`rg` and `pos`) into lranges when it has the edit lock, writes    *)
(* the bytes that the map lacks behind the others, and saves the map with  *)
(* SubUpdate() and Update().  The disk and the row change separately, the  *)
(* stream buffers what it writes, and a child may die between any two      *)
(* steps.                                                                  *)
(*                                                                         *)
(* The bytes of the original file are named by their offsets, and the      *)
(* original does not change.  The edit lock is taken here as what it       *)
(* promises (FileMutex); EditLock has the protocol behind it.  The general *)
(* plugin takes no lock for requests without a range.                      *)
(***************************************************************************)
EXTENDS Segments, FiniteSets

CONSTANTS
  Workers,   \* the forked children that request the file
  Size,      \* bytes of the original file
  MaxPart,   \* bound: the most bytes one ReadBodyPart() returns
  Extra,     \* bound: bytes a server may send beyond Content-Length
  Kinds      \* what files there are: "whole", "ranges", "general"

ASSUME CacheFileAssumption ==
  Size \in Nat \ {0} /\ MaxPart \in Nat \ {0} /\ Extra \in Nat
    /\ Kinds \subseteq {"whole", "ranges", "general"}

VARIABLES
  kind,   \* whose file it is
  there,  \* the cache file exists
  disk,   \* its contents: position -> offset of the byte in the original
  row,    \* the file's row in the database
  t       \* the request each child works on

vars == <<kind, there, disk, row, t>>

Offsets == 0 .. Size - 1

(***************************************************************************)
(* Requests: the range the program understood, and what the server will    *)
(* answer.  hi <= 0 stands for "to the end".                               *)
(***************************************************************************)

PlainRequest ==
  [lo |-> 0, hi |-> 0, partial |-> FALSE, total |-> 0, cl |-> Size]

\* Range: bytes=a-b, b may lie behind the end of the file; bytes=a-
RangeRequests ==
  {q \in [lo : Offsets, hi : -1 .. Size, partial : {TRUE}, total : {0}, cl : 1 .. Size] :
     q.cl = (IF q.hi = -1 THEN Size ELSE Smaller(q.hi + 1, Size)) - q.lo}

\* A range in the URL that the plugin has read, with an end or only with a start
\* (4shared, justin.tv, xtube), and with or without the length of the whole
\* file (youtube's clen).
UrlRequests ==
  {q \in [lo : Offsets, hi : 0 .. Size, partial : {FALSE}, total : {0, Size}, cl : 1 .. Size] :
     q.cl = (IF q.hi = 0 THEN Size ELSE Smaller(q.hi + 1, Size)) - q.lo}

\* Requests with a Range header have a cache file of their own, named 206-...,
\* except with the general plugin, and except for 0-0 (whose 0 is no end).
Requests ==
  [ranges |-> {q \in RangeRequests : q.hi # 0},
   whole |-> {PlainRequest} \cup UrlRequests \cup {q \in RangeRequests : q.hi = 0},
   general |-> {PlainRequest} \cup RangeRequests][kind]

\* `if (!isgeneralplugin)`: the general plugin has the lock only for ranges.
Locks(q) == kind = "general" => q.partial

(***************************************************************************)
(* The state of a request in a child.                                      *)
(***************************************************************************)

Phases ==
  {"idle",
   "locked",   \* Cache() has the row
   "miss",     \* MISS decided, the server's header not read
   "body",     \* MISS, the body is coming
   "tail",     \* miss2hit: the rest comes from the cache file
   "hit",      \* HIT
   "done",     \* the transfer is over, Update() comes next
   "aborted"}  \* std::string(NULL): the process is gone

NoBlock == Segment(0, -1, Missing)

Idle ==
  [phase |-> "idle", req |-> PlainRequest, inserted |-> FALSE,
   hi |-> 0,               \* range_max
   size |-> 0,             \* size_orig_file
   neto |-> 0,             \* filesizeneto
   lranges |-> {},
   work |-> {},            \* lrangeswork
   blk |-> NoBlock,        \* *brange, NoBlock at the end of the list
   bwrite |-> FALSE,
   opened |-> FALSE,       \* cachefile.is_open()
   off |-> 0,              \* range_min + filesended
   dirty |-> 0,            \* bytes of the block the stream has not written
   rest |-> 0]             \* bytes of the body part not dealt with yet

acumulate(r) == r.off - r.blk.a
limit(r) == Length(r.blk)
AtEnd(r) == r.blk = NoBlock

NoRow == [there |-> FALSE, null |-> FALSE, map |-> {}, size |-> 0]

\* UPDATE haarp SET rg=..., pos=...: nothing happens without a row.
SaveMap(map) ==
  row' = IF row.there THEN [row EXCEPT !.map = map, !.null = FALSE] ELSE row

SaveSize(size) == IF row.there THEN [row EXCEPT !.size = size] ELSE row

(***************************************************************************)
(* The stream.                                                             *)
(***************************************************************************)

\* n bytes of the original, from the offset x on, at a position.
Put(position, x, n) ==
  [y \in DOMAIN disk \cup (position .. position + n - 1) |->
     IF y >= position /\ y < position + n THEN x + y - position ELSE disk[y]]

\* The disk once the bytes of r up to the offset `to` are out of the buffer.
Written(r, to) ==
  Put(r.blk.position + acumulate(r) - r.dirty, r.off - r.dirty,
      to - r.off + r.dirty)

(***************************************************************************)
(* Walking along the work.                                                 *)
(***************************************************************************)

\* The first block of the list from an offset on.
BlockFrom(work, x) ==
  LET ahead == {w \in work : w.a >= x}
  IN  IF ahead = {} THEN NoBlock
      ELSE CHOOSE w \in ahead : \A v \in ahead : w.a <= v.a

\* Mutant of Enter: a missing block is not placed.
EnterUnplaced(r, b) ==
  [r EXCEPT !.blk = b, !.bwrite = b # NoBlock /\ b.position = Missing]

\* brange moves to a block; a missing one is placed behind all others.
Enter(r, b) ==
  [r EXCEPT !.blk = IF b # NoBlock /\ b.position = Missing
                    THEN [b EXCEPT !.position = getPointEnd(r.lranges)] ELSE b,
            !.bwrite = b # NoBlock /\ b.position = Missing]

\* A block is complete: it goes into lranges when it was missing.
Complete(r) ==
  IF r.bwrite THEN [r EXCEPT !.lranges = appendNode(@, r.blk)] ELSE r

(***************************************************************************)
(* Cache(): the row, the file, the decision.                               *)
(***************************************************************************)

Become(p, r) == t' = [t EXCEPT ![p] = r]

\* lockFile(), or the INSERT of the general plugin.  A new row has no map:
\* rg and pos are NULL.
Lock(p) ==
  /\ t[p].phase = "idle"
  /\ \E q \in Requests :
       /\ Locks(q) => \A o \in Workers : t[o].phase = "idle" \/ ~Locks(t[o].req)
       /\ Become(p, [Idle EXCEPT !.phase = "locked", !.req = q, !.hi = q.hi,
                                 !.inserted = ~row.there, !.off = q.lo])
  /\ row' = IF row.there THEN row
            ELSE [there |-> TRUE, null |-> TRUE, map |-> {}, size |-> 0]
  /\ UNCHANGED <<kind, there, disk>>

\* Mutant of FileAbsent: the map of the file that is gone is kept.
AbsentKeepsMap(p) ==
  LET r == t[p] IN
  /\ r.phase = "locked" /\ ~there
  /\ Become(p, [r EXCEPT !.phase = "miss", !.lranges = row.map,
                         !.work = IF r.hi > 0
                                  THEN getRangeWork(row.map, r.req.lo, r.hi)
                                  ELSE {}])
  /\ UNCHANGED <<kind, there, disk, row>>

\* "The file NOT is ON disk": MISS; the map of a row that was there is reset.
\* The row's size is set, size_orig_file is not.
FileAbsent(p) ==
  LET r == t[p] IN
  /\ r.phase = "locked" /\ ~there
  /\ Become(p, [r EXCEPT !.phase = "miss", !.lranges = {},
                         !.work = IF r.hi > 0 THEN getRangeWork({}, r.req.lo, r.hi)
                                  ELSE {}])
  /\ row' = IF r.inserted \/ ~row.there THEN row
            ELSE [row EXCEPT !.map = {}, !.null = FALSE, !.size = r.req.total]
  /\ UNCHANGED <<kind, there, disk>>

\* The file is on disk and its row has no map: Database::get("rg") makes a
\* std::string of a null pointer.
FileUnmapped(p) ==
  /\ t[p].phase = "locked" /\ there /\ row.there /\ row.null
  /\ Become(p, [t[p] EXCEPT !.phase = "aborted"])
  /\ UNCHANGED <<kind, there, disk, row>>

\* range_max once the size is known: the end of the file for an open range,
\* and for one that goes beyond the end unless it starts with the last byte.
Truncated(lo, hi, size) ==
  IF hi <= 0 \/ (size > lo + 1 /\ size < hi + 1) THEN size - 1 ELSE hi

\* Mutant of FileSized: the work is computed and the map not kept.
FileSizedForgets(p) ==
  LET r == t[p]
      hi == Truncated(r.req.lo, r.hi, row.size)
      work == getRangeWork(row.map, r.req.lo, hi)
  IN
  /\ r.phase = "locked" /\ there /\ row.there /\ ~row.null
  /\ row.size # 0
  /\ Become(p, [r EXCEPT !.phase = IF IsHit(work) THEN "hit" ELSE "miss",
                         !.hi = hi, !.size = row.size, !.work = work,
                         !.neto = hi - r.req.lo + 1])
  /\ UNCHANGED <<kind, there, disk, row>>

\* "The file is ON disk!" and the size of the original is known.
FileSized(p) ==
  LET r == t[p]
      size == IF row.size = 0 THEN r.req.total ELSE row.size
      hi == Truncated(r.req.lo, r.hi, size)
      work == getRangeWork(row.map, r.req.lo, hi)
  IN
  /\ r.phase = "locked" /\ there /\ row.there /\ ~row.null
  /\ size # 0
  /\ Become(p, [r EXCEPT !.phase = IF IsHit(work) THEN "hit" ELSE "miss",
                         !.hi = hi, !.size = size, !.work = work,
                         !.neto = hi - r.req.lo + 1, !.lranges = row.map])
  /\ row' = SaveSize(size)
  /\ UNCHANGED <<kind, there, disk>>

\* It is not known: the decision may wait for the header (Cache2()).
FileUnsized(p) ==
  LET r == t[p]
      last == getExtremeb(row.map)
      decided == r.hi > 0 /\ (last < r.req.lo \/ r.hi <= last)
      work == IF decided THEN getRangeWork(row.map, r.req.lo, r.hi) ELSE {}
  IN
  /\ r.phase = "locked" /\ there /\ row.there /\ ~row.null
  /\ row.size = 0 /\ r.req.total = 0
  /\ Become(p, [r EXCEPT !.phase = IF decided /\ IsHit(work) THEN "hit" ELSE "miss",
                         !.work = work, !.neto = r.hi - r.req.lo + 1,
                         !.lranges = row.map])
  /\ UNCHANGED <<kind, there, disk, row>>

(***************************************************************************)
(* ReadHeader(): the server's header of a MISS.                            *)
(***************************************************************************)

\* Without a size, the header gives it (UpdateFileSizeinPartial(), Cache2()),
\* the range is made to fit Content-Length, and what waited is decided.
HeaderUnsized(p) ==
  LET r == t[p]
      sized == r.req.partial \/ r.hi <= 0
      hi == r.req.lo + r.req.cl - 1
      before == IF r.req.partial /\ r.hi <= 0 THEN Size - 1 ELSE r.hi
      work == IF before # hi \/ r.work = {}
              THEN getRangeWork(r.lranges, r.req.lo, hi) ELSE r.work
      asked == before # hi \/ r.work = {}
  IN
  /\ r.phase = "miss" /\ r.size = 0
  /\ Become(p, [r EXCEPT !.phase = IF asked /\ IsHit(work) THEN "hit" ELSE "body",
                         !.hi = hi, !.neto = r.req.cl, !.work = work,
                         !.size = IF sized THEN Size ELSE 0])
  /\ row' = IF sized THEN SaveSize(Size) ELSE row
  /\ UNCHANGED <<kind, there, disk>>

\* With a size, a length that is not the whole file's brings Cache2() for a
\* range in the URL, which shortens one that goes beyond the end.
HeaderSized(p) ==
  LET r == t[p]
      hi == r.req.lo + r.req.cl - 1
      asked == ~r.req.partial /\ r.req.cl # r.size /\ r.hi # hi
      work == IF asked THEN getRangeWork(r.lranges, r.req.lo, hi) ELSE r.work
  IN
  /\ r.phase = "miss" /\ r.size # 0
  /\ Become(p, [r EXCEPT !.phase = IF asked /\ IsHit(work) THEN "hit" ELSE "body",
                         !.work = work,
                         !.hi = IF asked THEN hi ELSE @,
                         !.neto = IF asked THEN r.req.cl ELSE @])
  /\ UNCHANGED <<kind, there, disk, row>>

\* A child that was refused the lock comes to Cache2() as well, with a size of
\* 0 and no map: for a range without an end it writes the row's size.
RefusedHeader ==
  /\ \E q \in Requests :
       /\ Locks(q) /\ ~q.partial /\ q.hi <= 0
       /\ row' = SaveSize(q.cl + q.lo)
  /\ UNCHANGED <<kind, there, disk, t>>

(***************************************************************************)
(* ReadBodyPart() on a MISS.                                               *)
(***************************************************************************)

\* A part arrives; the first one opens the cache file, and creates it.
Receive(p) ==
  LET r == t[p]
      left == r.req.lo + r.req.cl + Extra - r.off
  IN
  /\ r.phase = "body" /\ r.rest = 0
  /\ \E n \in 1 .. Smaller(MaxPart, left) :
       Become(p, IF r.opened THEN [r EXCEPT !.rest = n]
                 ELSE [Enter(r, BlockFrom(r.work, r.req.lo))
                         EXCEPT !.rest = n, !.opened = TRUE])
  /\ there' = TRUE
  /\ UNCHANGED <<kind, disk, row>>

\* The next block, where the rest of the part goes; a run of blocks that are
\* all there is read from the cache file.
GoOn(r) ==
  LET next == BlockFrom(r.work, r.blk.b + 1)
      e == Enter(r, next)
  IN  [e EXCEPT !.phase = IF ~e.bwrite /\ is_all_hit(r.work, next)
                          THEN "tail" ELSE @]

\* `while (acumulate + BodyLength > limit)`: the part fills the block, with
\* more behind it.  No block left: the transfer is given up, and nothing of
\* it is saved.
Overflow(p) ==
  LET r == t[p]
      filled == [Complete(r) EXCEPT !.off = r.blk.b + 1, !.dirty = 0,
                                    !.rest = r.rest - (limit(r) - acumulate(r))]
  IN
  /\ r.phase \in {"body", "tail"} /\ ~AtEnd(r) /\ r.rest > 0
  /\ acumulate(r) + r.rest > limit(r)
  /\ disk' = Written(r, r.blk.b + 1)
  /\ Become(p, IF BlockFrom(r.work, r.blk.b + 1) = NoBlock THEN Idle
               ELSE GoOn(filled))
  /\ UNCHANGED <<kind, there, row>>

\* The rest of the part ends inside the block: it stays in the buffer, unless
\* the cache file is to be read next.
Write(p) ==
  LET r == t[p]
      to == r.off + r.rest
  IN
  /\ r.phase \in {"body", "tail"} /\ ~AtEnd(r) /\ r.rest > 0
  /\ acumulate(r) + r.rest < limit(r)
  /\ disk' = IF r.phase = "tail" THEN Written(r, to) ELSE disk
  /\ Become(p, [r EXCEPT !.off = to, !.rest = 0,
                         !.dirty = IF r.phase = "tail" THEN 0 ELSE @ + r.rest])
  /\ UNCHANGED <<kind, there, row>>

\* The rest of the part ends the block, which is flushed.
WriteEnd(p) ==
  LET r == t[p]
      filled == [Complete(r) EXCEPT !.off = r.blk.b + 1, !.dirty = 0, !.rest = 0]
      over == \/ BlockFrom(r.work, r.blk.b + 1) = NoBlock
              \/ filled.off - r.req.lo = r.neto
  IN
  /\ r.phase \in {"body", "tail"} /\ ~AtEnd(r) /\ r.rest > 0
  /\ acumulate(r) + r.rest = limit(r)
  /\ disk' = Written(r, r.blk.b + 1)
  /\ Become(p, IF over
               THEN [filled EXCEPT !.phase = "done", !.blk = NoBlock,
                                   !.bwrite = FALSE]
               ELSE GoOn(filled))
  /\ UNCHANGED <<kind, there, row>>

\* The buffer is written out: it is full, or flush() after 1.2 seconds.
Drain(p) ==
  LET r == t[p] IN
  /\ r.dirty > 0
  /\ disk' = Written(r, r.off)
  /\ Become(p, [r EXCEPT !.dirty = 0])
  /\ UNCHANGED <<kind, there, row>>

\* Mutant of SubUpdate: the part is saved and not taken off the block.
SubUpdateKeepBlock(p) ==
  LET r == t[p]
      lranges == appendSubNode(r.lranges, r.blk, acumulate(r))
  IN
  /\ r.phase = "body" /\ r.rest = 0 /\ r.bwrite /\ acumulate(r) > 0
  /\ SaveMap(lranges)
  /\ disk' = Written(r, r.off)
  /\ Become(p, [r EXCEPT !.lranges = lranges, !.dirty = 0])
  /\ UNCHANGED <<kind, there>>

\* After more than 15 flushes: the part of the block that is on the disk goes
\* into the map.
SubUpdate(p) ==
  LET r == t[p]
      lranges == appendSubNode(r.lranges, r.blk, acumulate(r))
  IN
  /\ r.phase = "body" /\ r.rest = 0 /\ r.bwrite /\ acumulate(r) > 0
  /\ SaveMap(lranges)
  /\ disk' = Written(r, r.off)
  /\ Become(p, [r EXCEPT !.lranges = lranges, !.dirty = 0,
                         !.blk.position = @ + acumulate(r), !.blk.a = r.off])
  /\ UNCHANGED <<kind, there>>

(***************************************************************************)
(* ReadBodyPart() on a HIT, or once a MISS has come to the blocks it has.  *)
(***************************************************************************)

Readable(r) ==
  {n \in 1 .. Smaller(MaxPart, limit(r) - acumulate(r)) :
     \A i \in 0 .. n - 1 : r.blk.position + acumulate(r) + i \in DOMAIN disk}

OpenHit(p) ==
  LET r == t[p] IN
  /\ r.phase = "hit" /\ ~r.opened
  /\ Become(p, [Enter(r, BlockFrom(r.work, r.req.lo)) EXCEPT !.opened = TRUE])
  /\ UNCHANGED <<kind, there, disk, row>>

\* A read; the end of the list, or of filesizeneto, ends the answer.
Serve(p) ==
  LET r == t[p] IN
  /\ r.phase \in {"hit", "tail"} /\ r.opened /\ r.rest = 0 /\ ~AtEnd(r)
  /\ \E n \in Readable(r) :
       LET read == [r EXCEPT !.off = @ + n]
           next == BlockFrom(r.work, r.blk.b + 1)
           full == read.off = r.blk.b + 1
           over == (full /\ next = NoBlock) \/ read.off - r.req.lo = r.neto
       IN  Become(p, IF over
                     THEN [read EXCEPT !.phase = IF @ = "tail" THEN "done" ELSE @,
                                       !.blk = NoBlock, !.bwrite = FALSE]
                     ELSE IF full THEN Enter(read, next) ELSE read)
  /\ UNCHANGED <<kind, there, disk, row>>

(***************************************************************************)
(* The end of a request.                                                   *)
(***************************************************************************)

\* Mutant of Update: the map is saved before the bytes are out of the buffer.
UpdateKeepsBuffer(p) ==
  LET r == t[p]
      part == r.bwrite /\ ~AtEnd(r) /\ acumulate(r) > 0
  IN
  /\ r.phase \in {"miss", "body", "tail", "done"} /\ r.rest = 0
  /\ SaveMap(IF part THEN appendNode(r.lranges, [r.blk EXCEPT !.b = r.off - 1])
             ELSE r.lranges)
  /\ Become(p, Idle)
  /\ UNCHANGED <<kind, there, disk>>

\* Update() of a MISS, complete or cut short by either side: what is there of
\* the current block is flushed and the map saved.
Update(p) ==
  LET r == t[p]
      part == r.bwrite /\ ~AtEnd(r) /\ acumulate(r) > 0
  IN
  /\ r.phase \in {"miss", "body", "tail", "done"} /\ r.rest = 0
  /\ SaveMap(IF part THEN appendNode(r.lranges, [r.blk EXCEPT !.b = r.off - 1])
             ELSE r.lranges)
  /\ disk' = IF r.dirty > 0 THEN Written(r, r.off) ELSE disk
  /\ Become(p, Idle)
  /\ UNCHANGED <<kind, there>>

\* The request is over without a save: a HIT, a cancelled MISS, an SQL error.
\* Closing the stream writes its buffer.
Leave(p) ==
  LET r == t[p] IN
  /\ r.phase \notin {"idle", "aborted"} /\ r.rest = 0
  /\ disk' = IF r.dirty > 0 THEN Written(r, r.off) ELSE disk
  /\ Become(p, Idle)
  /\ UNCHANGED <<kind, there, row>>

\* The child dies, and its buffer with it.
Crash(p) ==
  /\ t[p].phase # "idle"
  /\ Become(p, Idle)
  /\ UNCHANGED <<kind, there, disk, row>>

(***************************************************************************)
(* The cleaner, which deletes the file and then the row, or the row alone  *)
(* when the rm fails or the record is empty.  It is taken to run when      *)
(* nobody has the file.                                                    *)
(***************************************************************************)

Unused == \A p \in Workers : t[p].phase = "idle"

CleanFile ==
  /\ Unused /\ there
  /\ there' = FALSE /\ disk' = [y \in {} |-> 0]
  /\ UNCHANGED <<kind, row, t>>

CleanRow ==
  /\ Unused /\ row.there
  /\ row' = NoRow
  /\ UNCHANGED <<kind, there, disk, t>>

(***************************************************************************)
(* The specification.                                                      *)
(***************************************************************************)

Init ==
  /\ kind \in Kinds
  /\ there = FALSE
  /\ disk = [y \in {} |-> 0]
  /\ row = NoRow
  /\ t = [p \in Workers |-> Idle]

Cache(p) ==
  Lock(p) \/ FileAbsent(p) \/ FileUnmapped(p) \/ FileSized(p) \/ FileUnsized(p)

ReadHeader(p) == HeaderUnsized(p) \/ HeaderSized(p)

ReadBodyPart(p) ==
  \/ Receive(p) \/ Overflow(p) \/ Write(p) \/ WriteEnd(p) \/ Drain(p)
  \/ SubUpdate(p) \/ OpenHit(p) \/ Serve(p)

Next ==
  \/ \E p \in Workers :
       \/ Cache(p) \/ ReadHeader(p) \/ ReadBodyPart(p)
       \/ Update(p) \/ Leave(p) \/ Crash(p)
  \/ RefusedHeader \/ CleanFile \/ CleanRow

Spec == Init /\ [][Next]_vars

(***************************************************************************)
(* Properties.                                                             *)
(***************************************************************************)

SegmentSet == [a : Nat, b : Nat, position : Nat]

\* The row and the copies that children have of its map are maps; the size of
\* the original is unknown or right.
TypeOK ==
  /\ kind \in Kinds
  /\ there \in BOOLEAN
  /\ row \in [there : BOOLEAN, null : BOOLEAN, map : SUBSET SegmentSet, size : {0, Size}]
  /\ \A p \in Workers :
       t[p].phase \in Phases /\ t[p].lranges \subseteq SegmentSet

\* A segment's bytes are on the disk, at its position.
OnDisk(s) ==
  \A x \in Bytes(s) : LET y == s.position + x - s.a IN
    y \in DOMAIN disk /\ disk[y] = x

\* What the database says of the file is on the disk, whenever a child dies
\* and whatever it has in its buffer: the map is saved after the bytes.
MapOnDisk == there => \A s \in row.map : OnDisk(s)

\* No byte is in two segments of the saved map and no position in two either.
MapDisjoint ==
  \A s, u \in row.map : s # u =>
    /\ Bytes(s) \cap Bytes(u) = {}
    /\ DiskEnd(s) <= u.position \/ DiskEnd(u) <= s.position

\* Everything a child will read for its client is the client's: each block of
\* a HIT, and of the end of a MISS that turns into one.
ServesRight ==
  \A p \in Workers : t[p].phase \in {"hit", "tail"} =>
    \A w \in t[p].work : w.a >= t[p].off => OnDisk(w)

\* A transfer never takes bytes out of the saved map: what one request has
\* stored and saved, later ones find, until the file or its row is deleted.
MapGrows ==
  [][there /\ there' /\ row.there /\ row'.there
       => Covered(row.map) \subseteq Covered(row'.map)]_vars
=============================================================================
