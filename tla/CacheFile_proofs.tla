--------------------------- MODULE CacheFile_proofs ---------------------------
(***************************************************************************)
(* The map of a cache file names bytes that are on the disk, for every     *)
(* size of file, every cut of its bodies, any number of children and a     *)
(* crash after any step, as long as the edit lock holds: every file but    *)
(* the general plugin's.                                                   *)
(***************************************************************************)
EXTENDS CacheFile, Segments_proofs

(***************************************************************************)
(* The invariant.                                                          *)
(***************************************************************************)

\* The bytes of a segment are at its place on a disk d.
On(d, s) ==
  \A x \in Bytes(s) : s.position + x - s.a \in DOMAIN d
                        /\ d[s.position + x - s.a] = x

\* A request of Requests, whatever the kind of file.
Asked(q) ==
  /\ q.lo \in Nat /\ q.lo < Size
  /\ q.hi \in Int /\ (q.hi > 0 => q.lo <= q.hi)
  /\ q.total \in {0, Size}
  /\ q.cl \in Nat /\ 1 <= q.cl
  /\ q.partial \in BOOLEAN

Fields ==
  [phase : Phases, req : [lo : Nat, hi : Int, partial : BOOLEAN, total : Nat, cl : Nat],
   inserted : BOOLEAN, hi : Int, size : Nat, neto : Int,
   lranges : SUBSET Segs, work : SUBSET Blocks,
   blk : Segs \cup {NoBlock}, bwrite : BOOLEAN, opened : BOOLEAN,
   off : Nat, dirty : Nat, rest : Nat]

Children == {r \in Fields : Asked(r.req) /\ (r.hi > 0 => r.req.lo <= r.hi)}

\* Nothing was received or read yet.
Unopened(r) ==
  /\ AtEnd(r) /\ ~r.opened /\ r.off = r.req.lo

\* What a child knows of the file: its map holds all of the row's, both are on
\* the disk, and its work is the request, with what is there where it is said
\* to be and what is missing missing.
Known(r, map, d) ==
  /\ Placed(r.lranges)
  /\ Covered(map) \subseteq Covered(r.lranges)
  /\ \A s \in map : DiskEnd(s) <= getPointEnd(r.lranges) /\ On(d, s)
  /\ \A s \in r.lranges : On(d, s)
  /\ Chain(r.work, r.req.lo)
  /\ \A w \in r.work : w.position # Missing =>
       DiskEnd(w) <= getPointEnd(r.lranges) /\ On(d, w)
  /\ \A w \in r.work : w.position = Missing /\ w.a > r.blk.b /\ r.phase # "done" =>
       \A s \in r.lranges : Clear(s, w)

\* The block that is being written or read: a missing one goes behind all
\* others, and what the stream has let go of it is on the disk.
Current(r, d) ==
  /\ r.blk \in Segs
  /\ r.blk.a <= r.off /\ r.off <= r.blk.b /\ r.dirty <= r.off - r.blk.a
  /\ \E w \in r.work : w.b = r.blk.b /\ w.a <= r.blk.a
  /\ r.bwrite => Fits(r.lranges, r.blk)
                   /\ On(d, [r.blk EXCEPT !.b = r.off - r.dirty - 1])
  /\ ~r.bwrite => On(d, r.blk) /\ DiskEnd(r.blk) <= getPointEnd(r.lranges)

Transfer == {"miss", "body", "tail", "hit", "done"}

Sound(r, map, d) ==
  /\ Known(r, map, d)
  /\ ~AtEnd(r) => Current(r, d)
  /\ r.phase = "miss" => ~r.opened
  /\ r.phase \in {"tail", "hit"} =>
       /\ ~r.bwrite /\ r.dirty = 0
       /\ \A w \in r.work : r.phase = "hit" \/ w.a >= r.off => w.position # Missing

ChildOK(r, map, d) ==
  /\ r \in Children
  /\ AtEnd(r) => r.dirty = 0 /\ ~r.bwrite
  /\ r.phase \in {"locked", "miss", "body", "hit"} /\ ~r.opened => Unopened(r)
  /\ r.phase = "locked" => ~r.opened /\ (r.inserted => map = {})
  /\ IF r.phase \in Transfer THEN Sound(r, map, d) ELSE AtEnd(r)

RowOK(rw) ==
  /\ rw \in [there : BOOLEAN, null : BOOLEAN, map : SUBSET Segs, size : {0, Size}]
  /\ Placed(rw.map)
  /\ ~rw.there => rw.map = {}

\* One child at a time has the file; the row's map is on the disk; and the
\* child at work is sound.
MapInv ==
  /\ kind \in Kinds
  /\ RowOK(row)
  /\ there => \A s \in row.map : On(disk, s)
  /\ t \in [Workers -> Children]
  /\ \A p, o \in Workers : t[p].phase # "idle" /\ t[o].phase # "idle" => p = o
  /\ \A p \in Workers : ChildOK(t[p], row.map, disk)

(***************************************************************************)
(* The disk.                                                               *)
(***************************************************************************)

\* Put() and Written() on a disk d.
PutOn(d, position, x, n) ==
  [y \in DOMAIN d \cup (position .. position + n - 1) |->
     IF y >= position /\ y < position + n THEN x + y - position ELSE d[y]]

WrittenOn(d, r, to) ==
  PutOn(d, r.blk.position + acumulate(r) - r.dirty, r.off - r.dirty,
        to - r.off + r.dirty)

\* What is written behind a segment leaves it alone.
LEMMA PutBehind ==
  ASSUME NEW d, NEW position \in Nat, NEW x \in Nat, NEW n \in Nat,
         NEW s \in Segs, On(d, s), DiskEnd(s) <= position
  PROVE  On(PutOn(d, position, x, n), s)
<1> USE DEF Segs
<1> DEFINE e == PutOn(d, position, x, n)
<1>1. SUFFICES ASSUME NEW z \in Bytes(s)
               PROVE  s.position + z - s.a \in DOMAIN e /\ e[s.position + z - s.a] = z
  BY DEF On
<1>2. PICK y : y = s.position + z - s.a
  OBVIOUS
<1>3. y \in Nat /\ y < position
  BY <1>2 DEF Bytes, DiskEnd, Length
<1>4. y \in DOMAIN d /\ d[y] = z
  BY <1>2 DEF On
<1>5. y \in DOMAIN e /\ e[y] = d[y]
  BY <1>3, <1>4 DEF PutOn
<1>6. QED  BY <1>2, <1>4, <1>5

\* Bytes that are there already, written again, change nothing.
LEMMA PutAgain ==
  ASSUME NEW d, NEW u \in Segs, On(d, u), NEW x \in Nat, NEW n \in Nat,
         u.a <= x, x + n <= u.b + 1,
         NEW s \in Segs, On(d, s)
  PROVE  On(PutOn(d, u.position + x - u.a, x, n), s)
<1> USE DEF Segs
<1>1. PICK position \in Int : position = u.position + x - u.a
  OBVIOUS
<1> DEFINE e == PutOn(d, position, x, n)
<1>2. ASSUME NEW y \in Int, y \in DOMAIN d PROVE y \in DOMAIN e /\ e[y] = d[y]
  <2>1. y \in DOMAIN e
    BY <1>2 DEF PutOn
  <2>2. e[y] = IF y >= position /\ y < position + n THEN x + y - position ELSE d[y]
    BY <1>2 DEF PutOn
  <2>3. ASSUME y \in position .. position + n - 1 PROVE d[y] = x + y - position
    <3>1. PICK z \in Int : z = x + y - position
      BY <2>3
    <3>2. z \in Bytes(u) /\ y = u.position + z - u.a
      BY <1>1, <2>3, <3>1 DEF Bytes
    <3>3. QED  BY <3>1, <3>2 DEF On
  <2>4. CASE y >= position /\ y < position + n
    <3>1. y \in position .. position + n - 1
      BY <2>4
    <3>2. QED  BY <2>1, <2>2, <2>3, <3>1
  <2>5. QED  BY <2>1, <2>2, <2>4
<1>3. ASSUME NEW z \in Bytes(s)
      PROVE  s.position + z - s.a \in DOMAIN e /\ e[s.position + z - s.a] = z
  <2>1. s.position + z - s.a \in Int
    BY DEF Bytes
  <2>2. s.position + z - s.a \in DOMAIN d /\ d[s.position + z - s.a] = z
    BY DEF On
  <2>3. QED  BY <1>2, <2>1, <2>2
<1>4. QED  BY <1>1, <1>3 DEF On

\* A block of which the first bytes are there has more of them when they are
\* written behind those.
LEMMA PutNext ==
  ASSUME NEW d, NEW a \in Nat, NEW position \in Nat, NEW x \in Nat, NEW n \in Nat,
         a <= x, On(d, Segment(a, x - 1, position))
  PROVE  On(PutOn(d, position + x - a, x, n), Segment(a, x + n - 1, position))
<1> DEFINE e == PutOn(d, position + x - a, x, n)
<1>1. SUFFICES ASSUME NEW z \in a .. x + n - 1
               PROVE  position + z - a \in DOMAIN e /\ e[position + z - a] = z
  BY DEF On, Bytes, Segment
<1>2. PICK y \in Nat : y = position + z - a
  OBVIOUS
<1>3. PICK from \in Nat : from = position + x - a
  OBVIOUS
<1>4. e = PutOn(d, from, x, n)
  BY <1>3
<1>5. CASE x <= z
  <2>1. y \in from .. from + n - 1
    BY <1>2, <1>3, <1>5
  <2>2. y \in DOMAIN e /\ e[y] = x + y - from
    BY <1>4, <2>1 DEF PutOn
  <2>3. x + y - from = z
    BY <1>2, <1>3
  <2>4. QED  BY <1>2, <2>2, <2>3
<1>6. CASE z < x
  <2>1. y < from
    BY <1>2, <1>3, <1>6
  <2>2. z \in a .. x - 1
    BY <1>6
  <2>3. y \in DOMAIN d /\ d[y] = z
    BY <1>2, <2>2 DEF On, Bytes, Segment
  <2>4. y \in DOMAIN e /\ e[y] = d[y]
    BY <1>4, <2>1, <2>3 DEF PutOn
  <2>5. QED  BY <1>2, <2>3, <2>4
<1>7. QED  BY <1>5, <1>6

(***************************************************************************)
(* What a write does to the map and to the block.                          *)
(***************************************************************************)

\* From a disk d to a disk e, everything in front of the point end stays.
Keeps(S, d, e) ==
  \A s \in Segs : On(d, s) /\ DiskEnd(s) <= getPointEnd(S) => On(e, s)

LEMMA Unwritten == \A S, d : Keeps(S, d, d)
BY DEF Keeps

LEMMA WrittenKeeps ==
  ASSUME NEW r \in Children, NEW d, Placed(r.lranges), Current(r, d),
         NEW to \in Nat, r.off <= to, to <= r.blk.b + 1
  PROVE  /\ Keeps(r.lranges, d, WrittenOn(d, r, to))
         /\ r.bwrite => On(WrittenOn(d, r, to), [r.blk EXCEPT !.b = to - 1])
         /\ ~r.bwrite => On(WrittenOn(d, r, to), r.blk)
<1> DEFINE b == r.blk
           e == WrittenOn(d, r, to)
           end == getPointEnd(r.lranges)
<1>1. b \in Segs /\ b.a \in Nat /\ b.b \in Nat /\ b.position \in Nat
  BY DEF Current, Segs
<1>2. r.off \in Nat /\ r.dirty \in Nat /\ b.a <= r.off /\ r.off <= b.b /\ r.dirty <= r.off - b.a
  BY DEF Children, Fields, Current
<1>3. PICK x \in Nat : x = r.off - r.dirty /\ b.a <= x /\ x <= to
  BY <1>1, <1>2
<1>4. PICK n \in Nat : n = to - r.off + r.dirty /\ x + n = to
  BY <1>2, <1>3
<1>5. PICK position \in Nat :
        position = b.position + x - b.a
          /\ position = b.position + acumulate(r) - r.dirty /\ b.position <= position
  BY <1>1, <1>2, <1>3 DEF acumulate
<1>6. e = PutOn(d, position, x, n)
  BY <1>3, <1>4, <1>5 DEF WrittenOn
<1>7. CASE r.bwrite
  <2>1. b.position = end
    BY <1>7 DEF Current, Fits
  <2>2. ASSUME NEW s \in Segs, On(d, s), DiskEnd(s) <= end PROVE On(e, s)
    <3>1. DiskEnd(s) \in Int
      BY DEF DiskEnd, Length, Segs
    <3>2. DiskEnd(s) <= position
      BY <1>1, <1>5, <2>1, <2>2, <3>1
    <3>3. QED  BY <1>6, <2>2, <3>2, PutBehind
  <2>3. [b EXCEPT !.b = x - 1] = Segment(b.a, x - 1, b.position)
    BY <1>1 DEF Segs, Segment
  <2>4. On(d, Segment(b.a, x - 1, b.position))
    BY <1>3, <1>7, <2>3 DEF Current
  <2>5. On(PutOn(d, b.position + x - b.a, x, n), Segment(b.a, x + n - 1, b.position))
    BY <1>1, <1>3, <2>4, PutNext
  <2>6. [b EXCEPT !.b = to - 1] = Segment(b.a, x + n - 1, b.position)
    BY <1>1, <1>4 DEF Segs, Segment
  <2>7. On(e, [b EXCEPT !.b = to - 1])
    BY <1>5, <1>6, <2>5, <2>6
  <2>8. QED  BY <1>7, <2>2, <2>7 DEF Keeps
<1>8. CASE ~r.bwrite
  <2>1. On(d, b)
    BY <1>8 DEF Current
  <2>2. x + n <= b.b + 1
    BY <1>4
  <2>3. ASSUME NEW s \in Segs, On(d, s) PROVE On(e, s)
    BY <1>1, <1>3, <1>5, <1>6, <2>1, <2>2, <2>3, PutAgain
  <2>4. QED  BY <1>1, <1>8, <2>1, <2>3 DEF Keeps
<1>9. QED  BY <1>7, <1>8

LEMMA AppendOn ==
  ASSUME NEW S, Placed(S), NEW n, Fits(S, n), NEW d, \A s \in S : On(d, s), On(d, n)
  PROVE  \A s \in appendNode(S, n) : On(d, s)
<1> USE DEF Segs
<1>1. n \in Segs /\ n.a <= n.b
  BY DEF Fits
<1>2. \A s \in S : s \in Segs /\ s.a <= s.b
  BY DEF Placed
<1>3. CASE appendNode(S, n) = S \cup {n}
  BY <1>3
<1>4. CASE \E last \in S :
             /\ appendNode(S, n) = (S \ {last}) \cup {Grown(last, n)}
             /\ last.b + 1 = n.a
             /\ DiskEnd(last) = n.position
  <2>1. PICK last \in S : /\ appendNode(S, n) = (S \ {last}) \cup {Grown(last, n)}
                          /\ last.b + 1 = n.a
                          /\ DiskEnd(last) = n.position
    BY <1>4
  <2>2. PICK g \in Segs : /\ g = Grown(last, n) /\ g.a = last.a /\ g.b = n.b
                          /\ g.position = last.position
    BY <1>1, <1>2, <2>1, GrownNode
  <2>3. ASSUME NEW x \in Bytes(g)
        PROVE  g.position + x - g.a \in DOMAIN d /\ d[g.position + x - g.a] = x
    <3>1. CASE x <= last.b
      <4>1. x \in Bytes(last)
        BY <1>2, <2>2, <3>1 DEF Bytes
      <4>2. QED  BY <2>2, <4>1 DEF On
    <3>2. CASE n.a <= x
      <4>1. x \in Bytes(n)
        BY <1>1, <2>2, <3>2 DEF Bytes
      <4>2. g.position + x - g.a = n.position + x - n.a
        BY <1>1, <1>2, <2>1, <2>2, <2>3 DEF DiskEnd, Length, Bytes
      <4>3. QED  BY <4>1, <4>2 DEF On
    <3>3. QED  BY <1>1, <1>2, <2>1, <2>2, <3>1, <3>2 DEF Bytes
  <2>4. On(d, g)
    BY <2>3 DEF On
  <2>5. QED  BY <2>1, <2>2, <2>4
<1>5. QED  BY <1>3, <1>4, AppendNode

(***************************************************************************)
(* What a child knows, from step to step.                                  *)
(***************************************************************************)

\* A step that leaves lranges and the work alone.
LEMMA KnownKept ==
  ASSUME NEW r \in Children, NEW d, NEW map \in SUBSET Segs, Known(r, map, d),
         NEW e, Keeps(r.lranges, d, e),
         NEW q, q.lranges = r.lranges, q.work = r.work, q.req = r.req,
         \A w \in r.work : w.position = Missing /\ w.a > q.blk.b /\ q.phase # "done" =>
                             w.a > r.blk.b /\ r.phase # "done"
  PROVE  Known(q, map, e)
<1>1. \A s \in r.lranges : s \in Segs /\ DiskEnd(s) <= getPointEnd(r.lranges)
  BY PointEnd DEF Known, Placed
<1>2. \A s \in r.lranges : On(e, s)
  BY <1>1 DEF Keeps, Known
<1>3. \A s \in map : DiskEnd(s) <= getPointEnd(r.lranges) /\ On(e, s)
  BY DEF Keeps, Known
<1>4. \A w \in r.work : w.position # Missing => w \in Segs
  BY DEF Known, Chain, Blocks, Segs
<1>5. \A w \in r.work : w.position # Missing =>
        DiskEnd(w) <= getPointEnd(r.lranges) /\ On(e, w)
  BY <1>4 DEF Keeps, Known
<1>6. \A w \in r.work : w.position = Missing /\ w.a > q.blk.b /\ q.phase # "done" =>
        \A s \in r.lranges : Clear(s, w)
  BY DEF Known
<1>7. Placed(q.lranges) /\ Chain(q.work, q.req.lo)
      /\ Covered(map) \subseteq Covered(q.lranges)
  BY DEF Known
<1>8. QED  BY <1>2, <1>3, <1>5, <1>6, <1>7 DEF Known

\* A step that appends a block which is on the disk, and may save the result.
LEMMA KnownGrows ==
  ASSUME NEW r \in Children, NEW d, NEW map \in SUBSET Segs, Known(r, map, d),
         r.phase # "done",
         NEW e, Keeps(r.lranges, d, e),
         NEW n, Fits(r.lranges, n), On(e, n), n.b <= r.blk.b,
         NEW q, q.lranges = appendNode(r.lranges, n), q.work = r.work, q.req = r.req,
         q.phase = "done" \/ r.blk.b <= q.blk.b,
         q.blk.b \in Int, r.blk.b \in Int,
         NEW newmap \in {map, q.lranges}
  PROVE  Known(q, newmap, e)
<1> DEFINE S == r.lranges
           T == appendNode(S, n)
<1>1. Placed(S) /\ Placed(T) /\ getPointEnd(T) = DiskEnd(n)
  BY AppendPlaced, AppendPointEnd DEF Known
<1>2. n \in Segs /\ n.a <= n.b /\ n.position = getPointEnd(S)
  BY DEF Fits
<1>3. getPointEnd(S) <= getPointEnd(T) /\ getPointEnd(S) \in Nat /\ getPointEnd(T) \in Nat
  BY <1>1, <1>2, PointEnd DEF DiskEnd, Length, Segs
<1>4. \A s \in S : On(e, s)
  <2>1. \A s \in S : s \in Segs /\ DiskEnd(s) <= getPointEnd(S)
    BY <1>1, PointEnd DEF Placed
  <2>2. QED  BY <2>1 DEF Keeps, Known
<1>5. \A s \in T : On(e, s)
  BY <1>1, <1>4, AppendOn
<1>6. \A s \in T : DiskEnd(s) <= getPointEnd(T)
  BY <1>1, PointEnd
<1>7. Covered(S) \subseteq Covered(T)
  BY <1>1, AppendCovers
<1>8. ASSUME NEW s \in Segs, DiskEnd(s) <= getPointEnd(S), On(d, s)
      PROVE  DiskEnd(s) <= getPointEnd(T) /\ On(e, s)
  <2>1. DiskEnd(s) \in Int
    BY DEF DiskEnd, Length, Segs
  <2>2. QED  BY <1>3, <1>8, <2>1 DEF Keeps
<1>9. \A s \in newmap : DiskEnd(s) <= getPointEnd(T) /\ On(e, s)
  <2>1. CASE newmap = map
    <3>1. \A s \in map : DiskEnd(s) <= getPointEnd(S) /\ On(d, s)
      BY DEF Known
    <3>2. QED  BY <1>8, <2>1, <3>1
  <2>2. CASE newmap = q.lranges
    BY <1>5, <1>6, <2>2
  <2>3. QED  BY <2>1, <2>2
<1>10. Covered(newmap) \subseteq Covered(T)
  BY <1>7 DEF Known
<1>11. \A w \in r.work : w.position # Missing =>
         DiskEnd(w) <= getPointEnd(T) /\ On(e, w)
  <2>1. \A w \in r.work : w.position # Missing => w \in Segs
    BY DEF Known, Chain, Blocks, Segs
  <2>2. \A w \in r.work : w.position # Missing =>
          DiskEnd(w) <= getPointEnd(S) /\ On(d, w)
    BY DEF Known
  <2>3. QED  BY <1>8, <2>1, <2>2
<1>12. ASSUME NEW w \in r.work, w.position = Missing, w.a > q.blk.b, q.phase # "done"
       PROVE  \A s \in T : Clear(s, w)
  <2>1. w.a \in Nat /\ w.b \in Nat /\ w.a <= w.b
    BY DEF Known, Chain, Blocks
  <2>2. w.a > r.blk.b /\ n.b < w.a
    <3>1. n.b \in Nat
      BY <1>2 DEF Segs
    <3>2. QED  BY <1>12, <2>1, <3>1
  <2>3. \A s \in S : Clear(s, w)
    BY <1>12, <2>2 DEF Known
  <2>4. QED  BY <1>1, <2>1, <2>2, <2>3, AppendClear
<1>13. Chain(r.work, r.req.lo)
  BY DEF Known
<1>14. QED  BY <1>1, <1>5, <1>9, <1>10, <1>11, <1>12, <1>13 DEF Known

(***************************************************************************)
(* Blocks of the work.                                                     *)
(***************************************************************************)

\* The first block from x on, where a block ends in front of x or the work
\* begins.
LEMMA BlockFromIs ==
  ASSUME NEW work, NEW lo \in Nat, Chain(work, lo), NEW x \in Nat,
         x = lo \/ \E w \in work : w.b + 1 = x
  PROVE  \/ BlockFrom(work, x) = NoBlock
         \/ BlockFrom(work, x) \in work /\ BlockFrom(work, x).a = x
<1> DEFINE ahead == {w \in work : w.a >= x}
           Starts == {w.a : w \in ahead}
<1>1. \A w \in work : w \in Blocks /\ w.a \in Nat /\ w.b \in Nat /\ lo <= w.a /\ w.a <= w.b
  BY DEF Chain, Blocks
<1>2. CASE ahead = {}
  BY <1>2 DEF BlockFrom
<1>3. CASE ahead # {}
  <2>1. Starts \in SUBSET Nat /\ Starts # {}
    BY <1>1, <1>3
  <2>2. PICK m \in Starts : \A a \in Starts : m <= a
    BY <2>1, LeastNat
  <2>3. \E w \in ahead : \A v \in ahead : w.a <= v.a
    BY <2>2
  <2>4. PICK w \in ahead : w = BlockFrom(work, x) /\ \A v \in ahead : w.a <= v.a
    BY <1>3, <2>3 DEF BlockFrom
  <2>5. w \in work /\ x <= w.a
    BY <1>1, <2>4
  <2>6. ASSUME w.a # x PROVE FALSE
    <3>1. w.a # lo
      <4>1. CASE x = lo
        BY <2>6, <4>1
      <4>2. CASE \E u \in work : u.b + 1 = x
        BY <1>1, <2>5, <4>2
      <4>3. QED  BY <4>1, <4>2
    <3>2. PICK v \in work : v.b + 1 = w.a
      BY <2>5, <3>1 DEF Chain
    <3>3. v.a \in Nat /\ v.b \in Nat /\ v.a <= v.b /\ lo <= v.a /\ w.a \in Nat
      BY <1>1, <2>5
    <3>4. ~ (x <= v.a)
      <4>1. SUFFICES ASSUME x <= v.a PROVE FALSE
        OBVIOUS
      <4>2. v \in ahead
        BY <3>3, <4>1
      <4>3. w.a <= v.a
        BY <2>4, <4>2
      <4>4. QED  BY <3>2, <3>3, <4>3
    <3>5. x # lo
      BY <3>3, <3>4
    <3>6. PICK u \in work : u.b + 1 = x
      BY <3>5
    <3>7. u.a \in Nat /\ u.b \in Nat /\ u.a <= u.b
      BY <1>1
    <3>8. v = u \/ Clear(v, u)
      BY DEF Chain
    <3>9. QED  BY <2>5, <2>6, <3>2, <3>3, <3>4, <3>6, <3>7, <3>8 DEF Clear
  <2>7. QED  BY <2>4, <2>5, <2>6
<1>4. QED  BY <1>2, <1>3

\* Entering a block: its first byte is the next one.
LEMMA Entered ==
  ASSUME NEW r \in Children, NEW map, NEW d, Known(r, map, d), r.phase # "done",
         NEW b \in r.work, b.a > r.blk.b, r.off = b.a, r.dirty = 0
  PROVE  /\ Current(Enter(r, b), d) /\ ~AtEnd(Enter(r, b))
         /\ Enter(r, b).blk \in Segs
         /\ Enter(r, b).blk.a = b.a /\ Enter(r, b).blk.b = b.b
         /\ Enter(r, b).bwrite <=> b.position = Missing
<1> USE DEF Segs, Blocks
<1> DEFINE e == Enter(r, b)
           end == getPointEnd(r.lranges)
<1>1. b \in Blocks /\ b.a <= b.b
  BY DEF Known, Chain
<1>2. b # NoBlock
  BY <1>1 DEF NoBlock, Segment
<1>3. end \in Nat
  BY PointEnd DEF Known
<1>4. r \in Fields
  BY DEF Children
<1>5. /\ e.lranges = r.lranges /\ e.work = r.work /\ e.off = r.off /\ e.dirty = r.dirty
      /\ e.blk = IF b.position = Missing THEN [b EXCEPT !.position = end] ELSE b
      /\ e.bwrite = (b.position = Missing)
  BY <1>2, <1>4 DEF Enter, Fields
<1>6. e.blk \in Segs /\ e.blk.a = b.a /\ e.blk.b = b.b
  BY <1>1, <1>3, <1>5 DEF Missing
<1>7. e.blk # NoBlock
  BY <1>6 DEF NoBlock, Segment
<1>8. CASE b.position = Missing
  <2>1. \A s \in r.lranges : Clear(s, b)
    BY <1>8 DEF Known
  <2>2. e.blk.position = end
    BY <1>1, <1>5, <1>8
  <2>3. Fits(e.lranges, e.blk)
    BY <1>1, <1>5, <1>6, <2>1, <2>2 DEF Fits, Clear
  <2>4. Bytes([e.blk EXCEPT !.b = e.off - e.dirty - 1]) = {}
    BY <1>1, <1>5, <1>6 DEF Bytes
  <2>5. On(d, [e.blk EXCEPT !.b = e.off - e.dirty - 1])
    BY <2>4 DEF On
  <2>6. e.bwrite
    BY <1>5, <1>8
  <2>7. QED  BY <1>1, <1>5, <1>6, <1>7, <1>8, <2>3, <2>5, <2>6 DEF Current, AtEnd
<1>9. CASE b.position # Missing
  <2>1. e.blk = b /\ ~e.bwrite
    BY <1>5, <1>9
  <2>2. On(d, b) /\ DiskEnd(b) <= end
    BY <1>9 DEF Known
  <2>3. QED  BY <1>1, <1>5, <1>6, <1>7, <1>9, <2>1, <2>2 DEF Current, AtEnd
<1>10. QED  BY <1>8, <1>9

(***************************************************************************)
(* The decision.                                                           *)
(***************************************************************************)

LEMMA InsideOn ==
  ASSUME NEW d, NEW s \in Segs, NEW w \in Segs, Inside(w, s), On(d, s)
  PROVE  On(d, w) /\ DiskEnd(w) <= DiskEnd(s)
<1> USE DEF Segs
<1>1. DiskEnd(w) <= DiskEnd(s)
  BY DEF Inside, DiskEnd, Length
<1>2. ASSUME NEW x \in Bytes(w)
      PROVE  w.position + x - w.a \in DOMAIN d /\ d[w.position + x - w.a] = x
  <2>1. x \in Bytes(s)
    BY DEF Inside, Bytes
  <2>2. w.position + x - w.a = s.position + x - s.a
    BY DEF Inside, Bytes
  <2>3. QED  BY <2>1, <2>2 DEF On
<1>3. QED  BY <1>1, <1>2 DEF On

\* A map that is on the disk and the work that getRangeWork() finds in it.
LEMMA WorkKnown ==
  ASSUME NEW S, Placed(S), NEW d, \A s \in S : On(d, s),
         NEW map, Covered(map) \subseteq Covered(S),
         \A s \in map : DiskEnd(s) <= getPointEnd(S) /\ On(d, s),
         NEW q, q.lranges = S, q.req.lo \in Nat,
         NEW hi \in Nat, q.req.lo <= hi,
         q.work = {} \/ q.work = getRangeWork(S, q.req.lo, hi)
  PROVE  Known(q, map, d)
<1>1. CASE q.work = {}
  <2>1. Chain(q.work, q.req.lo)
    BY <1>1 DEF Chain
  <2>2. QED  BY <1>1, <2>1 DEF Known
<1>2. CASE q.work = getRangeWork(S, q.req.lo, hi)
  <2>1. Chain(q.work, q.req.lo)
    BY <1>2, WorkChain
  <2>2. \A s \in S : s \in Segs /\ DiskEnd(s) <= getPointEnd(S)
    BY PointEnd DEF Placed
  <2>3. ASSUME NEW w \in q.work, w.position # Missing
        PROVE  DiskEnd(w) <= getPointEnd(S) /\ On(d, w)
    <3>1. w \in Segs
      BY <1>2, <2>3, WorkPlaces
    <3>2. PICK s \in S : Inside(w, s)
      BY <1>2, <2>3, WorkPlaces
    <3>3. On(d, w) /\ DiskEnd(w) <= DiskEnd(s)
      BY <2>2, <3>1, <3>2, InsideOn
    <3>4. DiskEnd(w) \in Int /\ DiskEnd(s) \in Int /\ getPointEnd(S) \in Nat
      BY <2>2, <3>1, PointEnd DEF DiskEnd, Length, Segs
    <3>5. QED  BY <2>2, <3>3, <3>4
  <2>4. \A w \in q.work : w.position = Missing => \A s \in S : Clear(s, w)
    BY <1>2, WorkPlaces
  <2>5. QED  BY <2>1, <2>3, <2>4 DEF Known
<1>3. QED  BY <1>1, <1>2

(***************************************************************************)
(* The requests, and the state of an idle child.                           *)
(***************************************************************************)

ReqFields == [lo : Nat, hi : Int, partial : BOOLEAN, total : Nat, cl : Nat]

LEMMA RequestsAsked ==
  ASSUME kind \in Kinds, NEW q \in Requests
  PROVE  q \in ReqFields /\ Asked(q)
<1>1. Size \in Nat /\ 1 <= Size
  BY CacheFileAssumption
<1>2. kind \in {"whole", "ranges", "general"}
  BY CacheFileAssumption
<1>3. q \in {PlainRequest} \cup UrlRequests \cup RangeRequests
  BY <1>2 DEF Requests
<1>4. CASE q = PlainRequest
  BY <1>1, <1>4 DEF PlainRequest, ReqFields, Asked
<1>5. CASE q \in UrlRequests \/ q \in RangeRequests
  <2>1. /\ q.lo \in Offsets /\ q.hi \in -1 .. Size /\ q.partial \in BOOLEAN
        /\ q.total \in {0, Size} /\ q.cl \in 1 .. Size
        /\ q = [lo |-> q.lo, hi |-> q.hi, partial |-> q.partial, total |-> q.total,
                cl |-> q.cl]
    <3>1. CASE q \in UrlRequests
      <4>1. q.hi \in 0 .. Size
        BY <3>1 DEF UrlRequests
      <4>2. q.hi \in -1 .. Size
        BY <1>1, <4>1
      <4>3. QED  BY <3>1, <4>2 DEF UrlRequests
    <3>2. CASE q \in RangeRequests
      BY <3>2 DEF RangeRequests
    <3>3. QED  BY <1>5, <3>1, <3>2
  <2>2. q.hi > 0 => q.cl = Smaller(q.hi + 1, Size) - q.lo
    <3>1. CASE q \in UrlRequests
      <4>1. q.cl = (IF q.hi = 0 THEN Size ELSE Smaller(q.hi + 1, Size)) - q.lo
        BY <3>1 DEF UrlRequests
      <4>2. QED  BY <4>1
    <3>2. CASE q \in RangeRequests
      <4>1. q.cl = (IF q.hi = -1 THEN Size ELSE Smaller(q.hi + 1, Size)) - q.lo
        BY <3>2 DEF RangeRequests
      <4>2. QED  BY <4>1
    <3>3. QED  BY <1>5, <3>1, <3>2
  <2>3. PICK lo \in Offsets, hi \in -1 .. Size, partial \in BOOLEAN,
             total \in {0, Size}, cl \in 1 .. Size :
          q = [lo |-> lo, hi |-> hi, partial |-> partial, total |-> total, cl |-> cl]
    BY <2>1
  <2>4. lo \in Nat /\ lo < Size /\ hi \in Int /\ total \in Nat /\ cl \in Nat /\ 1 <= cl
    BY <1>1 DEF Offsets
  <2>5. hi > 0 => lo <= hi
    BY <1>1, <2>2, <2>3, <2>4 DEF Smaller
  <2>6. QED  BY <2>3, <2>4, <2>5 DEF ReqFields, Asked
<1>6. QED  BY <1>3, <1>4, <1>5

LEMMA IdleOK ==
  ASSUME NEW map, NEW d
  PROVE  Idle \in Children /\ AtEnd(Idle) /\ ChildOK(Idle, map, d)
<1>1. Size \in Nat /\ 1 <= Size
  BY CacheFileAssumption
<1>2. PlainRequest \in ReqFields /\ Asked(PlainRequest)
  BY <1>1 DEF PlainRequest, ReqFields, Asked
<1>3. Idle \in Fields
  BY <1>2 DEF Idle, Fields, ReqFields, Phases
<1>4. Idle \in Children
  BY <1>2, <1>3 DEF Children, Idle
<1>5. QED  BY <1>4 DEF ChildOK, Idle, AtEnd, Transfer

(***************************************************************************)
(* One child takes a step, and the others have no part in it.              *)
(***************************************************************************)

OnlyOne(p) == t[p].phase # "idle" \/ \A o \in Workers : t[o].phase = "idle"

LEMMA Stepped ==
  ASSUME MapInv, NEW p \in Workers, OnlyOne(p), NEW r, Become(p, r),
         kind' = kind, RowOK(row'), ChildOK(r, row'.map, disk'),
         there' => \A s \in row'.map : On(disk', s)
  PROVE  MapInv'
<1>1. t' = [t EXCEPT ![p] = r]
  BY DEF Become
<1>2. r \in Children /\ t \in [Workers -> Children]
  BY DEF ChildOK, MapInv
<1>3. t' \in [Workers -> Children] /\ t'[p] = r
      /\ \A o \in Workers : o # p => t'[o] = t[o]
  BY <1>1, <1>2
<1>4. ASSUME NEW o \in Workers, o # p PROVE t[o].phase = "idle"
  BY <1>4 DEF MapInv, OnlyOne
<1>5. ASSUME NEW o \in Workers PROVE ChildOK(t'[o], row'.map, disk')
  <2>1. CASE o = p
    BY <1>3, <2>1
  <2>2. CASE o # p
    <3>1. t'[o] = t[o] /\ t[o].phase = "idle" /\ ChildOK(t[o], row.map, disk)
      BY <1>3, <1>4, <2>2 DEF MapInv
    <3>2. QED  BY <3>1 DEF ChildOK, Transfer
  <2>3. QED  BY <2>1, <2>2
<1>6. \A q, o \in Workers : t'[q].phase # "idle" /\ t'[o].phase # "idle" => q = o
  BY <1>3, <1>4
<1>7. kind' \in Kinds
  BY DEF MapInv
<1>8. QED  BY <1>3, <1>5, <1>6, <1>7 DEF MapInv

\* What the invariant says of a child that is at work.
LEMMA AtWork ==
  ASSUME MapInv, NEW p \in Workers
  PROVE  /\ t[p] \in Children /\ t[p] \in Fields /\ t[p].req \in ReqFields
         /\ Asked(t[p].req) /\ ChildOK(t[p], row.map, disk)
         /\ RowOK(row) /\ row.map \in SUBSET Segs
         /\ t[p].phase \in Transfer =>
              /\ Sound(t[p], row.map, disk) /\ Known(t[p], row.map, disk)
              /\ Placed(t[p].lranges)
              /\ \A s \in row.map : On(disk, s)
BY DEF MapInv, ChildOK, Sound, Known, RowOK, Children, Fields, ReqFields

(***************************************************************************)
(* One lemma for each operation.                                           *)
(***************************************************************************)

LEMMA LockStep ==
  ASSUME MapInv, "general" \notin Kinds, NEW p \in Workers, Lock(p)
  PROVE  MapInv'
<1>1. PICK q \in Requests :
        /\ Locks(q) => \A o \in Workers : t[o].phase = "idle" \/ ~Locks(t[o].req)
        /\ Become(p, [Idle EXCEPT !.phase = "locked", !.req = q, !.hi = q.hi,
                                  !.inserted = ~row.there, !.off = q.lo])
  BY DEF Lock
<1> DEFINE r == [Idle EXCEPT !.phase = "locked", !.req = q, !.hi = q.hi,
                             !.inserted = ~row.there, !.off = q.lo]
<1>2. kind \in Kinds /\ kind # "general"
  BY DEF MapInv
<1>3. OnlyOne(p)
  BY <1>1, <1>2 DEF Locks, OnlyOne
<1>4. q \in ReqFields /\ Asked(q)
  BY <1>2, RequestsAsked
<1>5. Idle \in Fields /\ Idle.blk = NoBlock /\ ~Idle.opened
      /\ Idle.dirty = 0 /\ Idle.bwrite = FALSE
  BY IdleOK DEF Children, Idle
<1>6. r \in Fields
  BY <1>4, <1>5 DEF Fields, ReqFields, Phases, Asked
<1>7. /\ r.phase = "locked" /\ r.req = q /\ r.hi = q.hi /\ r.inserted = ~row.there
      /\ r.off = q.lo /\ r.blk = NoBlock /\ ~r.opened /\ r.dirty = 0 /\ ~r.bwrite
  BY <1>5 DEF Fields
<1>8. r \in Children
  BY <1>4, <1>6, <1>7 DEF Children, Asked
<1>9. RowOK(row) /\ (there => \A s \in row.map : On(disk, s))
  BY DEF MapInv
<1>10. row' = IF row.there THEN row
              ELSE [there |-> TRUE, null |-> TRUE, map |-> {}, size |-> 0]
  BY DEF Lock
<1>11. RowOK(row') /\ row'.map = row.map
  BY <1>9, <1>10, EmptyPlaced DEF RowOK
<1>12. r.inserted => row'.map = {}
  BY <1>7, <1>9, <1>11 DEF RowOK
<1>13. ChildOK(r, row'.map, disk')
  BY <1>7, <1>8, <1>12 DEF ChildOK, AtEnd, Unopened, Transfer
<1>14. kind' = kind /\ there' = there /\ disk' = disk
  BY DEF Lock
<1>15. QED  BY <1>1, <1>3, <1>9, <1>11, <1>13, <1>14, Stepped

\* A child that was locked and now knows what to do.
LEMMA DecidedOK ==
  ASSUME MapInv, NEW p \in Workers, t[p].phase = "locked",
         NEW r \in Fields, r.phase \in {"miss", "hit"},
         r.req = t[p].req, r.blk = t[p].blk, r.bwrite = t[p].bwrite,
         r.opened = t[p].opened, r.off = t[p].off, r.dirty = t[p].dirty,
         r.hi > 0 => r.req.lo <= r.hi,
         NEW S, Placed(S), r.lranges = S, \A s \in S : On(disk, s),
         NEW hi \in Nat, r.req.lo <= hi,
         r.work = {} \/ r.work = getRangeWork(S, r.req.lo, hi),
         r.phase = "hit" => IsHit(r.work)
  PROVE  ChildOK(r, S, disk)
<1>1. Asked(r.req) /\ r.req.lo \in Nat
  BY AtWork DEF Asked
<1>2. AtEnd(r) /\ ~r.opened /\ r.dirty = 0 /\ ~r.bwrite /\ r.off = r.req.lo
  BY AtWork DEF ChildOK, Unopened, AtEnd
<1>3. \A s \in S : DiskEnd(s) <= getPointEnd(S)
  BY PointEnd
<1>4. Known(r, S, disk)
  BY <1>1, <1>3, WorkKnown
<1>5. r.phase = "hit" => \A w \in r.work : w.position # Missing
  BY DEF IsHit
<1>6. Sound(r, S, disk)
  BY <1>2, <1>4, <1>5 DEF Sound
<1>7. r \in Children
  BY <1>1 DEF Children
<1>8. QED  BY <1>2, <1>6, <1>7 DEF ChildOK, Unopened

LEMMA FileAbsentStep ==
  ASSUME MapInv, NEW p \in Workers, FileAbsent(p)
  PROVE  MapInv'
<1> DEFINE r == t[p]
           work == IF r.hi > 0 THEN getRangeWork({}, r.req.lo, r.hi) ELSE {}
           q == [r EXCEPT !.phase = "miss", !.lranges = {}, !.work = work]
<1>1. r.phase = "locked" /\ ~there /\ Become(p, q)
  BY DEF FileAbsent
<1>2. r \in Fields /\ Asked(r.req) /\ (r.hi > 0 => r.req.lo <= r.hi) /\ r.hi \in Int
  BY AtWork DEF Children, Fields
<1>3. r.req.lo \in Nat
  BY <1>2 DEF Asked
<1>4. PICK hi \in Nat : r.req.lo <= hi /\ (r.hi > 0 => hi = r.hi)
  BY <1>2, <1>3
<1>5. work = {} \/ work = getRangeWork({}, r.req.lo, hi)
  BY <1>4
<1>6. work \subseteq Blocks
  BY <1>3, <1>4, <1>5, WorkChain, EmptyPlaced DEF Chain
<1> HIDE DEF work
<1>7. q \in Fields
  BY <1>2, <1>6 DEF Fields, Phases
<1>8. /\ q.phase = "miss" /\ q.lranges = {} /\ q.work = work /\ q.req = r.req
      /\ q.hi = r.hi /\ q.blk = r.blk /\ q.bwrite = r.bwrite /\ q.opened = r.opened
      /\ q.off = r.off /\ q.dirty = r.dirty
  BY <1>2 DEF Fields
<1> HIDE DEF q
<1>9. RowOK(row) /\ (r.inserted => row.map = {})
  BY <1>1, AtWork DEF ChildOK
<1>10. row' = IF r.inserted \/ ~row.there THEN row
              ELSE [row EXCEPT !.map = {}, !.null = FALSE, !.size = r.req.total]
  BY DEF FileAbsent
<1>11. r.req.total \in {0, Size}
  BY <1>2 DEF Asked
<1>12. RowOK(row') /\ row'.map = {}
  BY <1>9, <1>10, <1>11, EmptyPlaced DEF RowOK
<1>13. ChildOK(q, {}, disk)
  BY <1>1, <1>2, <1>4, <1>5, <1>7, <1>8, DecidedOK, EmptyPlaced
<1>14. kind' = kind /\ there' = there /\ disk' = disk
  BY DEF FileAbsent
<1>15. ChildOK(q, row'.map, disk')
  BY <1>12, <1>13, <1>14
<1>16. OnlyOne(p)
  BY <1>1 DEF OnlyOne
<1>17. QED  BY <1>1, <1>12, <1>14, <1>15, <1>16, Stepped

LEMMA FileUnmappedStep ==
  ASSUME MapInv, NEW p \in Workers, FileUnmapped(p)
  PROVE  MapInv'
<1> DEFINE r == t[p]
           q == [r EXCEPT !.phase = "aborted"]
<1>1. r.phase = "locked" /\ Become(p, q) /\ UNCHANGED <<kind, there, disk, row>>
  BY DEF FileUnmapped
<1>2. r \in Fields /\ r \in Children /\ ChildOK(r, row.map, disk)
  BY AtWork
<1>3. q \in Fields
  BY <1>2 DEF Fields, Phases
<1>4. /\ q.phase = "aborted" /\ q.blk = r.blk /\ q.dirty = r.dirty /\ q.bwrite = r.bwrite
      /\ q.req = r.req /\ q.hi = r.hi
  BY <1>2 DEF Fields
<1>5. q \in Children
  BY <1>2, <1>3, <1>4 DEF Children
<1>6. ChildOK(q, row.map, disk)
  BY <1>1, <1>2, <1>4, <1>5 DEF ChildOK, AtEnd, Transfer
<1>7. OnlyOne(p) /\ RowOK(row) /\ (there => \A s \in row.map : On(disk, s))
  BY <1>1 DEF OnlyOne, MapInv
<1>8. QED  BY <1>1, <1>6, <1>7, Stepped

\* range_max is never in front of range_min.
LEMMA TruncatedRange ==
  ASSUME NEW lo \in Nat, lo < Size, NEW hi \in Int, hi > 0 => lo <= hi
  PROVE  Truncated(lo, hi, Size) \in Nat /\ lo <= Truncated(lo, hi, Size)
<1>1. Size \in Nat
  BY CacheFileAssumption
<1>2. QED  BY <1>1 DEF Truncated

LEMMA FileSizedStep ==
  ASSUME MapInv, NEW p \in Workers, FileSized(p)
  PROVE  MapInv'
<1> DEFINE r == t[p]
           size == IF row.size = 0 THEN r.req.total ELSE row.size
           hi == Truncated(r.req.lo, r.hi, size)
           work == getRangeWork(row.map, r.req.lo, hi)
           q == [r EXCEPT !.phase = IF IsHit(work) THEN "hit" ELSE "miss",
                          !.hi = hi, !.size = size, !.work = work,
                          !.neto = hi - r.req.lo + 1, !.lranges = row.map]
<1>1. r.phase = "locked" /\ there /\ size # 0 /\ Become(p, q)
  BY DEF FileSized
<1>2. r \in Fields /\ Asked(r.req) /\ (r.hi > 0 => r.req.lo <= r.hi) /\ r.hi \in Int
      /\ RowOK(row) /\ row.map \in SUBSET Segs /\ Placed(row.map)
      /\ \A s \in row.map : On(disk, s)
  BY <1>1, AtWork DEF Children, Fields, RowOK, MapInv
<1>3. r.req.lo \in Nat /\ r.req.lo < Size /\ r.req.total \in {0, Size}
  BY <1>2 DEF Asked
<1>4. size = Size
  BY <1>1, <1>2, <1>3 DEF RowOK
<1>5. Size \in Nat
  BY CacheFileAssumption
<1>6. hi \in Nat /\ r.req.lo <= hi
  BY <1>2, <1>3, <1>4, TruncatedRange
<1>7. work \subseteq Blocks
  BY <1>2, <1>3, <1>6, WorkChain DEF Chain
<1>8. SaveSize(size) = [row EXCEPT !.size = size] \/ SaveSize(size) = row
  BY DEF SaveSize
<1> HIDE DEF hi, work, size
<1>9. q \in Fields
  <2>1. (IF IsHit(work) THEN "hit" ELSE "miss") \in Phases /\ size \in Nat
    BY <1>4, <1>5 DEF Phases
  <2>2. hi \in Int /\ hi - r.req.lo + 1 \in Int
    BY <1>3, <1>6
  <2>3. row.map \in SUBSET Segs /\ work \in SUBSET Blocks
    BY <1>2, <1>7
  <2>4. QED  BY <1>2, <2>1, <2>2, <2>3 DEF Fields
<1>10. /\ q.phase = (IF IsHit(work) THEN "hit" ELSE "miss")
       /\ q.lranges = row.map /\ q.work = work /\ q.req = r.req
       /\ q.hi = hi /\ q.blk = r.blk /\ q.bwrite = r.bwrite /\ q.opened = r.opened
       /\ q.off = r.off /\ q.dirty = r.dirty
  BY <1>2 DEF Fields
<1> HIDE DEF q
<1>11. row' = SaveSize(size) /\ kind' = kind /\ there' = there /\ disk' = disk
  BY DEF FileSized, size
<1>12. RowOK(row') /\ row'.map = row.map
  BY <1>2, <1>4, <1>8, <1>11 DEF RowOK
<1>13. work = getRangeWork(row.map, r.req.lo, hi)
  BY DEF work
<1>14. q.phase \in {"miss", "hit"} /\ (q.phase = "hit" => IsHit(q.work))
  BY <1>10
<1>15. ChildOK(q, row.map, disk)
  BY <1>1, <1>2, <1>6, <1>9, <1>10, <1>13, <1>14, DecidedOK
<1>16. OnlyOne(p)
  BY <1>1 DEF OnlyOne
<1>17. QED  BY <1>1, <1>2, <1>11, <1>12, <1>15, <1>16, Stepped

LEMMA FileUnsizedStep ==
  ASSUME MapInv, NEW p \in Workers, FileUnsized(p)
  PROVE  MapInv'
<1> DEFINE r == t[p]
           last == getExtremeb(row.map)
           decided == r.hi > 0 /\ (last < r.req.lo \/ r.hi <= last)
           work == IF decided THEN getRangeWork(row.map, r.req.lo, r.hi) ELSE {}
           q == [r EXCEPT !.phase = IF decided /\ IsHit(work) THEN "hit" ELSE "miss",
                          !.work = work, !.neto = r.hi - r.req.lo + 1,
                          !.lranges = row.map]
<1>1. r.phase = "locked" /\ there /\ Become(p, q) /\ UNCHANGED <<kind, there, disk, row>>
  BY DEF FileUnsized
<1>2. r \in Fields /\ Asked(r.req) /\ (r.hi > 0 => r.req.lo <= r.hi) /\ r.hi \in Int
      /\ RowOK(row) /\ row.map \in SUBSET Segs /\ Placed(row.map)
      /\ \A s \in row.map : On(disk, s)
  BY <1>1, AtWork DEF Children, Fields, RowOK, MapInv
<1>3. r.req.lo \in Nat
  BY <1>2 DEF Asked
<1>4. PICK hi \in Nat : r.req.lo <= hi /\ (r.hi > 0 => hi = r.hi)
  BY <1>2, <1>3
<1>5. work = {} \/ work = getRangeWork(row.map, r.req.lo, hi)
  BY <1>4
<1>6. work \subseteq Blocks
  BY <1>2, <1>3, <1>4, <1>5, WorkChain DEF Chain
<1> HIDE DEF work, decided
<1>7. q \in Fields
  <2>1. (IF decided /\ IsHit(work) THEN "hit" ELSE "miss") \in Phases
    BY DEF Phases
  <2>2. r.hi - r.req.lo + 1 \in Int
    BY <1>2, <1>3
  <2>3. row.map \in SUBSET Segs /\ work \in SUBSET Blocks
    BY <1>2, <1>6
  <2>4. QED  BY <1>2, <2>1, <2>2, <2>3 DEF Fields
<1>8. /\ q.phase = (IF decided /\ IsHit(work) THEN "hit" ELSE "miss")
      /\ q.lranges = row.map /\ q.work = work /\ q.req = r.req
      /\ q.hi = r.hi /\ q.blk = r.blk /\ q.bwrite = r.bwrite /\ q.opened = r.opened
      /\ q.off = r.off /\ q.dirty = r.dirty
  BY <1>2 DEF Fields
<1> HIDE DEF q
<1>9. q.phase \in {"miss", "hit"} /\ (q.phase = "hit" => IsHit(q.work))
  BY <1>8
<1>10. ChildOK(q, row.map, disk)
  BY <1>1, <1>2, <1>4, <1>5, <1>7, <1>8, <1>9, DecidedOK
<1>11. OnlyOne(p)
  BY <1>1 DEF OnlyOne
<1>12. QED  BY <1>1, <1>2, <1>10, <1>11, Stepped

\* The header leaves the map alone; the work stays or is made again.
LEMMA HeaderOK ==
  ASSUME MapInv, NEW p \in Workers, t[p].phase = "miss",
         NEW r \in Fields, r.phase \in {"body", "hit"},
         r.req = t[p].req, r.blk = t[p].blk, r.bwrite = t[p].bwrite,
         r.opened = t[p].opened, r.off = t[p].off, r.dirty = t[p].dirty,
         r.lranges = t[p].lranges, r.hi > 0 => r.req.lo <= r.hi,
         NEW hi \in Nat, r.req.lo <= hi,
         \/ r.work = t[p].work /\ r.phase = "body"
         \/ /\ r.work = getRangeWork(t[p].lranges, r.req.lo, hi)
            /\ r.phase = "hit" => IsHit(r.work)
  PROVE  ChildOK(r, row.map, disk)
<1>1. /\ t[p] \in Children /\ Asked(r.req) /\ Known(t[p], row.map, disk)
      /\ Sound(t[p], row.map, disk) /\ ChildOK(t[p], row.map, disk)
      /\ row.map \in SUBSET Segs
  BY AtWork DEF Transfer
<1>2. AtEnd(r) /\ ~r.opened /\ r.dirty = 0 /\ ~r.bwrite /\ r.off = r.req.lo
  BY <1>1 DEF Sound, ChildOK, Unopened, AtEnd
<1>3. CASE r.work = t[p].work /\ r.phase = "body"
  <2>1. Known(r, row.map, disk)
    BY <1>1, <1>3, KnownKept, Unwritten
  <2>2. QED  BY <1>1, <1>2, <1>3, <2>1 DEF ChildOK, Sound, Children, Unopened
<1>4. CASE /\ r.work = getRangeWork(t[p].lranges, r.req.lo, hi)
           /\ r.phase = "hit" => IsHit(r.work)
  <2> DEFINE S == t[p].lranges
  <2>1. /\ Placed(S) /\ Covered(row.map) \subseteq Covered(S)
        /\ \A s \in S : On(disk, s)
        /\ \A s \in row.map : DiskEnd(s) <= getPointEnd(S) /\ On(disk, s)
    BY <1>1 DEF Known
  <2>2. r.req.lo \in Nat
    BY <1>1 DEF Asked
  <2>3. Known(r, row.map, disk)
    BY <1>4, <2>1, <2>2, WorkKnown
  <2>4. r.phase = "hit" => \A w \in r.work : w.position # Missing
    BY <1>4 DEF IsHit
  <2>5. QED  BY <1>1, <1>2, <2>3, <2>4 DEF ChildOK, Sound, Children, Unopened
<1>5. QED  BY <1>3, <1>4

LEMMA HeaderUnsizedStep ==
  ASSUME MapInv, NEW p \in Workers, HeaderUnsized(p)
  PROVE  MapInv'
<1> DEFINE r == t[p]
           sized == r.req.partial \/ r.hi <= 0
           hi == r.req.lo + r.req.cl - 1
           before == IF r.req.partial /\ r.hi <= 0 THEN Size - 1 ELSE r.hi
           asked == before # hi \/ r.work = {}
           work == IF asked THEN getRangeWork(r.lranges, r.req.lo, hi) ELSE r.work
           q == [r EXCEPT !.phase = IF asked /\ IsHit(work) THEN "hit" ELSE "body",
                          !.hi = hi, !.neto = r.req.cl, !.work = work,
                          !.size = IF sized THEN Size ELSE 0]
<1>1. r.phase = "miss" /\ Become(p, q)
  BY DEF HeaderUnsized
<1>2. /\ r \in Fields /\ r.req \in ReqFields /\ Asked(r.req) /\ RowOK(row)
      /\ Placed(r.lranges) /\ \A s \in row.map : On(disk, s)
  BY <1>1, AtWork DEF Transfer
<1>3. r.req.lo \in Nat /\ hi \in Nat /\ r.req.lo <= hi /\ r.req.cl \in Nat
  BY <1>2 DEF Asked
<1>4. Size \in Nat
  BY CacheFileAssumption
<1>5. getRangeWork(r.lranges, r.req.lo, hi) \subseteq Blocks
  BY <1>2, <1>3, WorkChain DEF Chain
<1>6. work \subseteq Blocks
  BY <1>2, <1>5 DEF Fields
<1>7. \/ work = r.work /\ ~asked
      \/ work = getRangeWork(r.lranges, r.req.lo, hi)
  OBVIOUS
<1> HIDE DEF work, asked, hi, sized
<1>8. q \in Fields
  <2>1. (IF asked /\ IsHit(work) THEN "hit" ELSE "body") \in Phases
    BY DEF Phases
  <2>2. hi \in Int /\ r.req.cl \in Int /\ (IF sized THEN Size ELSE 0) \in Nat
    BY <1>3, <1>4
  <2>3. work \in SUBSET Blocks
    BY <1>6
  <2>4. QED  BY <1>2, <2>1, <2>2, <2>3 DEF Fields
<1>9. /\ q.phase = (IF asked /\ IsHit(work) THEN "hit" ELSE "body")
      /\ q.lranges = r.lranges /\ q.work = work /\ q.req = r.req
      /\ q.hi = hi /\ q.blk = r.blk /\ q.bwrite = r.bwrite /\ q.opened = r.opened
      /\ q.off = r.off /\ q.dirty = r.dirty
  BY <1>2 DEF Fields
<1> HIDE DEF q
<1>10. /\ row' = (IF sized THEN SaveSize(Size) ELSE row)
       /\ kind' = kind /\ there' = there /\ disk' = disk
  BY DEF HeaderUnsized, sized
<1>11. RowOK(row') /\ row'.map = row.map
  BY <1>2, <1>10 DEF RowOK, SaveSize
<1>12. q.phase \in {"body", "hit"} /\ (q.phase = "hit" => IsHit(q.work) /\ asked)
  BY <1>9
<1>13. ChildOK(q, row.map, disk)
  BY <1>1, <1>3, <1>7, <1>8, <1>9, <1>12, HeaderOK
<1>14. OnlyOne(p)
  BY <1>1 DEF OnlyOne
<1>15. QED  BY <1>1, <1>2, <1>10, <1>11, <1>13, <1>14, Stepped

LEMMA HeaderSizedStep ==
  ASSUME MapInv, NEW p \in Workers, HeaderSized(p)
  PROVE  MapInv'
<1> DEFINE r == t[p]
           hi == r.req.lo + r.req.cl - 1
           asked == ~r.req.partial /\ r.req.cl # r.size /\ r.hi # hi
           work == IF asked THEN getRangeWork(r.lranges, r.req.lo, hi) ELSE r.work
           q == [r EXCEPT !.phase = IF asked /\ IsHit(work) THEN "hit" ELSE "body",
                          !.work = work,
                          !.hi = IF asked THEN hi ELSE @,
                          !.neto = IF asked THEN r.req.cl ELSE @]
<1>1. r.phase = "miss" /\ Become(p, q) /\ UNCHANGED <<kind, there, disk, row>>
  BY DEF HeaderSized
<1>2. /\ r \in Fields /\ r \in Children /\ r.req \in ReqFields /\ Asked(r.req) /\ RowOK(row)
      /\ Placed(r.lranges) /\ \A s \in row.map : On(disk, s)
  BY <1>1, AtWork DEF Transfer
<1>3. r.req.lo \in Nat /\ hi \in Nat /\ r.req.lo <= hi /\ r.req.cl \in Nat
  BY <1>2 DEF Asked
<1>4. getRangeWork(r.lranges, r.req.lo, hi) \subseteq Blocks
  BY <1>2, <1>3, WorkChain DEF Chain
<1>5. work \subseteq Blocks
  BY <1>2, <1>4 DEF Fields
<1>6. \/ work = r.work /\ ~asked
      \/ work = getRangeWork(r.lranges, r.req.lo, hi)
  OBVIOUS
<1> HIDE DEF work, asked, hi
<1>7. q \in Fields
  <2>1. (IF asked /\ IsHit(work) THEN "hit" ELSE "body") \in Phases
    BY DEF Phases
  <2>2. (IF asked THEN hi ELSE r.hi) \in Int /\ (IF asked THEN r.req.cl ELSE r.neto) \in Int
    BY <1>2, <1>3 DEF Fields
  <2>3. work \in SUBSET Blocks
    BY <1>5
  <2>4. QED  BY <1>2, <2>1, <2>2, <2>3 DEF Fields
<1>8. /\ q.phase = (IF asked /\ IsHit(work) THEN "hit" ELSE "body")
      /\ q.lranges = r.lranges /\ q.work = work /\ q.req = r.req
      /\ q.hi = (IF asked THEN hi ELSE r.hi)
      /\ q.blk = r.blk /\ q.bwrite = r.bwrite /\ q.opened = r.opened
      /\ q.off = r.off /\ q.dirty = r.dirty
  BY <1>2 DEF Fields
<1> HIDE DEF q
<1>9. q.phase \in {"body", "hit"} /\ (q.phase = "hit" => IsHit(q.work) /\ asked)
  BY <1>8
<1>10. q.hi > 0 => q.req.lo <= q.hi
  BY <1>2, <1>3, <1>8 DEF Children
<1>11. ChildOK(q, row.map, disk)
  BY <1>1, <1>3, <1>6, <1>7, <1>8, <1>9, <1>10, HeaderOK
<1>12. OnlyOne(p)
  BY <1>1 DEF OnlyOne
<1>13. QED  BY <1>1, <1>2, <1>11, <1>12, Stepped

(***************************************************************************)
(* The blocks, from one to the next.                                       *)
(***************************************************************************)

\* The fields that only the block's own steps change.
SameBlock(q, r) ==
  /\ q.blk = r.blk /\ q.bwrite = r.bwrite /\ q.lranges = r.lranges
  /\ q.work = r.work /\ q.req = r.req

LEMMA CurrentKept ==
  ASSUME NEW r, NEW q, NEW d, Current(r, d), SameBlock(q, r),
         q.off = r.off, q.dirty = r.dirty
  PROVE  Current(q, d)
BY DEF Current, SameBlock

\* What Enter() leaves alone.
LEMMA EnterFrame ==
  ASSUME NEW r \in Fields, Placed(r.lranges), NEW b \in r.work \cup {NoBlock}
  PROVE  /\ Enter(r, b) \in Fields
         /\ Enter(r, b).phase = r.phase /\ Enter(r, b).req = r.req
         /\ Enter(r, b).hi = r.hi /\ Enter(r, b).lranges = r.lranges
         /\ Enter(r, b).work = r.work /\ Enter(r, b).opened = r.opened
         /\ Enter(r, b).off = r.off /\ Enter(r, b).dirty = r.dirty
         /\ Enter(r, b).rest = r.rest
         /\ b = NoBlock => Enter(r, b).blk = NoBlock /\ ~Enter(r, b).bwrite
<1> DEFINE missing == b # NoBlock /\ b.position = Missing
           blk == IF missing THEN [b EXCEPT !.position = getPointEnd(r.lranges)] ELSE b
           e == [r EXCEPT !.blk = blk, !.bwrite = missing]
<1>1. Enter(r, b) = e
  BY DEF Enter
<1>2. getPointEnd(r.lranges) \in Nat
  BY PointEnd
<1>3. b \in Blocks \/ b = NoBlock
  BY DEF Fields
<1>4. blk \in Segs \cup {NoBlock}
  BY <1>2, <1>3 DEF Blocks, Segs
<1>5. missing \in BOOLEAN /\ (b = NoBlock => blk = NoBlock /\ ~missing)
  OBVIOUS
<1> HIDE DEF missing, blk
<1>6. e \in Fields
  BY <1>4, <1>5 DEF Fields
<1>7. QED  BY <1>1, <1>5, <1>6 DEF Fields

\* The first block is entered when the file is opened.
LEMMA OpenOK ==
  ASSUME MapInv, NEW p \in Workers, t[p].phase \in {"body", "hit"}, ~t[p].opened,
         NEW q \in Fields,
         SameBlock(q, Enter(t[p], BlockFrom(t[p].work, t[p].req.lo))),
         q.phase = t[p].phase, q.opened, q.hi = t[p].hi,
         q.off = t[p].off, q.dirty = t[p].dirty
  PROVE  ChildOK(q, row.map, disk)
<1> DEFINE r == t[p]
           b == BlockFrom(r.work, r.req.lo)
           e == Enter(r, b)
<1>1. /\ r \in Children /\ r \in Fields /\ Asked(r.req) /\ Known(r, row.map, disk)
      /\ Sound(r, row.map, disk) /\ ChildOK(r, row.map, disk)
      /\ row.map \in SUBSET Segs /\ Placed(r.lranges)
  BY AtWork DEF Transfer
<1>2. AtEnd(r) /\ r.off = r.req.lo /\ r.dirty = 0 /\ ~r.bwrite
  BY <1>1 DEF ChildOK, Unopened
<1>3. r.req.lo \in Nat /\ Chain(r.work, r.req.lo)
  BY <1>1 DEF Asked, Known
<1>4. b = NoBlock \/ (b \in r.work /\ b.a = r.req.lo)
  BY <1>3, BlockFromIs
<1>5. r.blk.b = -1
  BY <1>2 DEF AtEnd, NoBlock, Segment
<1>6. /\ q.lranges = r.lranges /\ q.work = r.work /\ q.req = r.req
      /\ q.blk = e.blk /\ q.bwrite = e.bwrite
  BY <1>1, <1>4, EnterFrame DEF SameBlock
<1>7. q \in Children
  BY <1>1, <1>6 DEF Children
<1>8. q.phase \in Transfer /\ q.phase # "done" /\ q.phase # "tail" /\ q.phase # "miss"
  BY DEF Transfer
<1>9. CASE b = NoBlock
  <2>1. q.blk = NoBlock /\ ~q.bwrite
    BY <1>1, <1>6, <1>9, EnterFrame
  <2>2. Known(q, row.map, disk)
    BY <1>1, <1>2, <1>6, <2>1, KnownKept, Unwritten DEF AtEnd
  <2>3. Sound(q, row.map, disk)
    BY <1>1, <1>2, <1>6, <1>8, <2>1, <2>2 DEF Sound, AtEnd
  <2>4. QED  BY <1>2, <1>7, <1>8, <2>1, <2>3 DEF ChildOK, AtEnd
<1>10. CASE b \in r.work /\ b.a = r.req.lo
  <2>1. b.a > r.blk.b
    BY <1>3, <1>5, <1>10
  <2>2. /\ Current(e, disk) /\ ~AtEnd(e) /\ e.blk.b = b.b
        /\ e.bwrite <=> b.position = Missing
    BY <1>1, <1>2, <1>8, <1>10, <2>1, Entered
  <2>3. b.b \in Nat /\ b.a <= b.b /\ b.a \in Nat
    BY <1>3, <1>10 DEF Chain, Blocks
  <2>4. \A w \in r.work : w.a \in Nat
    BY <1>3 DEF Chain, Blocks
  <2>5. \A w \in r.work : w.a > q.blk.b => w.a > r.blk.b
    BY <1>5, <2>4
  <2>6. Known(q, row.map, disk)
    BY <1>1, <1>6, <1>8, <2>5, KnownKept, Unwritten
  <2>7. e.off = q.off /\ e.dirty = q.dirty
    BY <1>1, <1>10, EnterFrame
  <2>8. Current(q, disk) /\ ~AtEnd(q)
    BY <2>2, <2>7, CurrentKept DEF AtEnd, SameBlock
  <2>9. q.phase = "hit" => ~q.bwrite /\ \A w \in q.work : w.position # Missing
    BY <1>1, <1>6, <1>10, <2>2 DEF Sound
  <2>10. Sound(q, row.map, disk)
    BY <1>2, <1>8, <2>6, <2>8, <2>9 DEF Sound
  <2>11. QED  BY <1>7, <1>8, <2>8, <2>10 DEF ChildOK
<1>11. QED  BY <1>4, <1>9, <1>10

\* A block is complete and there is another one.
LEMMA GoneOn ==
  ASSUME NEW f \in Children, NEW map \in SUBSET Segs, NEW d, Known(f, map, d),
         f.phase \in {"body", "tail"}, f.opened \/ f.phase = "tail", f.dirty = 0,
         f.blk \in Segs, f.off = f.blk.b + 1,
         \E w \in f.work : w.b + 1 = f.off,
         f.phase = "tail" => \A w \in f.work : w.a >= f.off => w.position # Missing,
         BlockFrom(f.work, f.blk.b + 1) # NoBlock
  PROVE  ChildOK(GoOn(f), map, d)
<1> DEFINE b == BlockFrom(f.work, f.blk.b + 1)
           e == Enter(f, b)
           g == GoOn(f)
<1>1. f \in Fields /\ Asked(f.req) /\ Placed(f.lranges) /\ Chain(f.work, f.req.lo)
  BY DEF Children, Known
<1>2. f.req.lo \in Nat /\ f.off \in Nat /\ f.blk.b \in Nat
  BY <1>1 DEF Asked, Fields, Segs
<1>3. b \in f.work /\ b.a = f.off
  BY <1>1, <1>2, BlockFromIs
<1>4. b.a > f.blk.b
  BY <1>2, <1>3
<1>5. /\ Current(e, d) /\ ~AtEnd(e) /\ e.blk.b = b.b
      /\ e.bwrite <=> b.position = Missing
  BY <1>3, <1>4, Entered
<1>6. /\ e \in Fields /\ e.phase = f.phase /\ e.req = f.req /\ e.hi = f.hi
      /\ e.lranges = f.lranges /\ e.work = f.work /\ e.opened = f.opened
      /\ e.off = f.off /\ e.dirty = f.dirty
  BY <1>1, <1>3, EnterFrame
<1> DEFINE tail == ~e.bwrite /\ is_all_hit(f.work, b)
           phase == IF tail THEN "tail" ELSE e.phase
<1>7. g = [e EXCEPT !.phase = phase]
  BY DEF GoOn
<1>8. phase \in Phases
  BY <1>6 DEF Phases
<1> HIDE DEF phase
<1>9. g \in Fields
  BY <1>6, <1>7, <1>8 DEF Fields
<1>10. g.phase = phase /\ SameBlock(g, e) /\ g.off = f.off /\ g.dirty = 0
       /\ g.opened = f.opened /\ g.hi = f.hi
  BY <1>6, <1>7 DEF Fields, SameBlock
<1> HIDE DEF g, e
<1>11. g \in Children
  BY <1>6, <1>9, <1>10 DEF Children, SameBlock
<1>12. Current(g, d) /\ ~AtEnd(g)
  BY <1>5, <1>6, <1>10, CurrentKept DEF AtEnd, SameBlock
<1>13. b.b \in Nat /\ b.a \in Nat /\ b.a <= b.b /\ \A w \in f.work : w.a \in Nat
  BY <1>1, <1>3 DEF Chain, Blocks
<1>14. g.blk.b = b.b /\ g.lranges = f.lranges /\ g.work = f.work /\ g.req = f.req
  BY <1>5, <1>6, <1>10 DEF SameBlock
<1>15. \A w \in f.work : w.a > g.blk.b => w.a > f.blk.b
  BY <1>2, <1>4, <1>13, <1>14
<1>16. Known(g, map, d)
  BY <1>14, <1>15, KnownKept, Unwritten
<1>17. phase \in {"body", "tail"} /\ (phase = "tail" => tail \/ f.phase = "tail")
       /\ (phase = "body" => f.phase = "body")
  BY <1>6 DEF phase
<1>18. ASSUME phase = "tail"
       PROVE  ~g.bwrite /\ \A w \in g.work : w.a >= g.off => w.position # Missing
  <2>1. CASE tail
    <3>1. ~g.bwrite
      BY <1>10, <2>1 DEF SameBlock
    <3>2. \A w \in f.work : w.a >= b.a => w.position # Missing
      BY <2>1 DEF is_all_hit
    <3>3. QED  BY <1>3, <1>10, <1>14, <3>1, <3>2
  <2>2. CASE f.phase = "tail"
    <3>1. b.a >= f.off
      BY <1>2, <1>3
    <3>2. b.position # Missing
      BY <1>3, <2>2, <3>1
    <3>3. ~g.bwrite
      BY <1>5, <1>10, <3>2 DEF SameBlock
    <3>4. QED  BY <1>10, <1>14, <2>2, <3>3
  <2>3. QED  BY <1>17, <1>18, <2>1, <2>2
<1>19. Sound(g, map, d)
  BY <1>10, <1>12, <1>16, <1>17, <1>18 DEF Sound
<1>20. g.phase = "body" => g.opened
  BY <1>10, <1>17
<1>21. g.phase \in Transfer /\ g.phase \notin {"locked", "miss", "hit"}
  BY <1>10, <1>17 DEF Transfer
<1>22. ChildOK(g, map, d)
  BY <1>11, <1>12, <1>19, <1>20, <1>21 DEF ChildOK
<1>23. QED  BY <1>22 DEF g

(***************************************************************************)
(* The body.                                                               *)
(***************************************************************************)

LEMMA ReceiveStep ==
  ASSUME MapInv, NEW p \in Workers, Receive(p)
  PROVE  MapInv'
<1> DEFINE r == t[p]
           b == BlockFrom(r.work, r.req.lo)
           e == Enter(r, b)
<1>1. PICK n \in 1 .. Smaller(MaxPart, r.req.lo + r.req.cl + Extra - r.off) :
        Become(p, IF r.opened THEN [r EXCEPT !.rest = n]
                  ELSE [e EXCEPT !.rest = n, !.opened = TRUE])
  BY DEF Receive
<1>2. r.phase = "body" /\ there' = TRUE /\ UNCHANGED <<kind, disk, row>>
  BY DEF Receive
<1>3. /\ r \in Children /\ r \in Fields /\ Asked(r.req) /\ Known(r, row.map, disk)
      /\ Sound(r, row.map, disk) /\ ChildOK(r, row.map, disk) /\ RowOK(row)
      /\ row.map \in SUBSET Segs /\ Placed(r.lranges)
      /\ \A s \in row.map : On(disk, s)
  BY <1>2, AtWork DEF Transfer
<1>4. n \in Nat
  OBVIOUS
<1>5. ASSUME NEW q, Become(p, q), ChildOK(q, row.map, disk) PROVE MapInv'
  <2>1. OnlyOne(p)
    BY <1>2 DEF OnlyOne
  <2>2. QED  BY <1>2, <1>3, <1>5, <2>1, Stepped
<1>6. CASE r.opened
  <2> DEFINE q == [r EXCEPT !.rest = n]
  <2>1. q \in Fields
    BY <1>3, <1>4 DEF Fields
  <2>2. /\ SameBlock(q, r) /\ q.phase = r.phase /\ q.opened = r.opened /\ q.off = r.off
        /\ q.dirty = r.dirty /\ q.hi = r.hi
    BY <1>3 DEF Fields, SameBlock
  <2> HIDE DEF q
  <2>3. q \in Children
    BY <1>3, <2>1, <2>2 DEF Children, SameBlock
  <2>4. Known(q, row.map, disk)
    BY <1>3, <2>2, KnownKept, Unwritten DEF SameBlock
  <2>5. ~AtEnd(q) => Current(q, disk)
    BY <1>3, <2>2, CurrentKept DEF Sound, AtEnd, SameBlock
  <2>6. Sound(q, row.map, disk)
    BY <1>2, <2>2, <2>4, <2>5 DEF Sound
  <2>7. AtEnd(q) => q.dirty = 0 /\ ~q.bwrite
    BY <1>3, <2>2 DEF ChildOK, AtEnd, SameBlock
  <2>8. ChildOK(q, row.map, disk)
    BY <1>2, <1>6, <2>2, <2>3, <2>6, <2>7 DEF ChildOK, Transfer
  <2>9. Become(p, q)
    BY <1>1, <1>6 DEF q
  <2>10. QED  BY <1>5, <2>8, <2>9
<1>7. CASE ~r.opened
  <2> DEFINE q == [e EXCEPT !.rest = n, !.opened = TRUE]
  <2>1. r.off = r.req.lo /\ r.req.lo \in Nat /\ Chain(r.work, r.req.lo)
    BY <1>2, <1>3, <1>7 DEF ChildOK, Unopened, Asked, Known
  <2>2. b \in r.work \cup {NoBlock}
    BY <2>1, BlockFromIs
  <2>3. /\ e \in Fields /\ e.phase = r.phase /\ e.hi = r.hi /\ e.off = r.off
        /\ e.dirty = r.dirty
    BY <1>3, <2>2, EnterFrame
  <2> HIDE DEF e
  <2>4. q \in Fields
    BY <1>4, <2>3 DEF Fields
  <2>5. /\ SameBlock(q, e) /\ q.phase = r.phase /\ q.opened /\ q.hi = r.hi
        /\ q.off = r.off /\ q.dirty = r.dirty
    BY <2>3 DEF Fields, SameBlock
  <2> HIDE DEF q
  <2>6. SameBlock(q, Enter(r, BlockFrom(r.work, r.req.lo)))
    BY <2>5 DEF e
  <2>7. ChildOK(q, row.map, disk)
    BY <1>2, <1>7, <2>4, <2>5, <2>6, OpenOK
  <2>8. Become(p, q)
    BY <1>1, <1>7 DEF q, e
  <2>9. QED  BY <1>5, <2>7, <2>8
<1>8. QED  BY <1>6, <1>7

LEMMA OpenHitStep ==
  ASSUME MapInv, NEW p \in Workers, OpenHit(p)
  PROVE  MapInv'
<1> DEFINE r == t[p]
           b == BlockFrom(r.work, r.req.lo)
           e == Enter(r, b)
           q == [e EXCEPT !.opened = TRUE]
<1>1. r.phase = "hit" /\ ~r.opened /\ Become(p, q) /\ UNCHANGED <<kind, there, disk, row>>
  BY DEF OpenHit
<1>2. /\ r \in Fields /\ Asked(r.req) /\ Known(r, row.map, disk)
      /\ ChildOK(r, row.map, disk) /\ RowOK(row) /\ Placed(r.lranges)
      /\ \A s \in row.map : On(disk, s)
  BY <1>1, AtWork DEF Transfer
<1>3. r.off = r.req.lo /\ r.req.lo \in Nat /\ Chain(r.work, r.req.lo)
  BY <1>1, <1>2 DEF ChildOK, Unopened, Asked, Known
<1>4. b \in r.work \cup {NoBlock}
  BY <1>3, BlockFromIs
<1>5. /\ e \in Fields /\ e.phase = r.phase /\ e.hi = r.hi /\ e.off = r.off
      /\ e.dirty = r.dirty
  BY <1>2, <1>4, EnterFrame
<1> HIDE DEF e
<1>6. q \in Fields
  BY <1>5 DEF Fields
<1>7. /\ SameBlock(q, e) /\ q.phase = r.phase /\ q.opened /\ q.hi = r.hi
      /\ q.off = r.off /\ q.dirty = r.dirty
  BY <1>5 DEF Fields, SameBlock
<1> HIDE DEF q
<1>8. SameBlock(q, Enter(r, BlockFrom(r.work, r.req.lo)))
  BY <1>7 DEF e
<1>9. ChildOK(q, row.map, disk)
  BY <1>1, <1>6, <1>7, <1>8, OpenOK
<1>10. OnlyOne(p)
  BY <1>1 DEF OnlyOne
<1>11. QED  BY <1>1, <1>2, <1>9, <1>10, Stepped

\* The disk of a write.
LEMMA WrittenIs == ASSUME NEW r, NEW to PROVE Written(r, to) = WrittenOn(disk, r, to)
BY DEF Written, WrittenOn, Put, PutOn

\* A block of which something was received and that is not at its end.
LEMMA WritingFacts ==
  ASSUME MapInv, NEW p \in Workers, t[p].phase \in Transfer, ~AtEnd(t[p]),
         NEW to \in Nat, t[p].off <= to, to <= t[p].blk.b + 1
  PROVE  /\ Keeps(t[p].lranges, disk, Written(t[p], to))
         /\ \A s \in row.map : On(Written(t[p], to), s)
         /\ t[p].bwrite => On(Written(t[p], to), [t[p].blk EXCEPT !.b = to - 1])
         /\ ~t[p].bwrite => On(Written(t[p], to), t[p].blk)
<1> DEFINE r == t[p]
<1>1. /\ r \in Children /\ Known(r, row.map, disk) /\ Sound(r, row.map, disk)
      /\ row.map \in SUBSET Segs /\ Placed(r.lranges)
  BY AtWork
<1>2. Current(r, disk)
  BY <1>1 DEF Sound
<1>3. /\ Keeps(r.lranges, disk, WrittenOn(disk, r, to))
      /\ r.bwrite => On(WrittenOn(disk, r, to), [r.blk EXCEPT !.b = to - 1])
      /\ ~r.bwrite => On(WrittenOn(disk, r, to), r.blk)
  BY <1>1, <1>2, WrittenKeeps
<1>4. Written(r, to) = WrittenOn(disk, r, to)
  BY WrittenIs
<1>5. \A s \in row.map : On(Written(r, to), s)
  BY <1>1, <1>3, <1>4 DEF Keeps, Known
<1>6. QED  BY <1>3, <1>4, <1>5

\* A block that its part of the body completes, seen from what follows it.
LEMMA FilledKnown ==
  ASSUME MapInv, NEW p \in Workers, t[p].phase \in {"body", "tail"}, ~AtEnd(t[p]),
         NEW q, q.lranges = Complete(t[p]).lranges, q.work = t[p].work,
         q.req = t[p].req, q.phase = "done" \/ q.blk = t[p].blk, q.blk.b \in Int
  PROVE  Known(q, row.map, Written(t[p], t[p].blk.b + 1))
<1> DEFINE r == t[p]
           d == Written(r, r.blk.b + 1)
<1>1. /\ r \in Children /\ r \in Fields /\ Known(r, row.map, disk)
      /\ Sound(r, row.map, disk)
      /\ row.map \in SUBSET Segs /\ Placed(r.lranges)
  BY AtWork DEF Transfer
<1>2. Current(r, disk)
  BY <1>1 DEF Sound
<1>3. r.blk.b + 1 \in Nat /\ r.blk.b \in Nat /\ r.blk.a \in Nat /\ r.off \in Nat
      /\ r.off <= r.blk.b + 1 /\ r.blk \in Segs /\ r.blk.a <= r.blk.b
  BY <1>1, <1>2 DEF Current, Segs, Fields
<1>4. Keeps(r.lranges, disk, d) /\ (r.bwrite => On(d, [r.blk EXCEPT !.b = r.blk.b + 1 - 1]))
  BY <1>3, WritingFacts DEF Transfer
<1>5. CASE r.bwrite
  <2>1. q.lranges = appendNode(r.lranges, r.blk)
    BY <1>1, <1>5 DEF Complete, Fields
  <2>2. [r.blk EXCEPT !.b = r.blk.b + 1 - 1] = r.blk
    BY <1>3 DEF Segs
  <2>3. On(d, r.blk) /\ Fits(r.lranges, r.blk)
    BY <1>2, <1>4, <1>5, <2>2 DEF Current
  <2>4. r.phase # "done" /\ (q.phase = "done" \/ r.blk.b <= q.blk.b)
    BY <1>3
  <2>5. r.blk.b <= r.blk.b
    BY <1>3
  <2>6. QED  BY <1>1, <1>3, <1>4, <2>1, <2>3, <2>4, <2>5, KnownGrows
<1>6. CASE ~r.bwrite
  <2>1. q.lranges = r.lranges
    BY <1>6 DEF Complete
  <2>2. QED  BY <1>1, <1>4, <2>1, KnownKept
<1>7. QED  BY <1>5, <1>6

\* A block that is complete, with the rest of the part.
LEMMA FilledStep ==
  ASSUME MapInv, NEW p \in Workers, t[p].phase \in {"body", "tail"}, ~AtEnd(t[p]),
         NEW rest \in Nat
  PROVE  LET r == t[p]
             f == [Complete(r) EXCEPT !.off = r.blk.b + 1, !.dirty = 0, !.rest = rest]
             d == Written(r, r.blk.b + 1)
         IN  /\ f \in Children /\ SameBlock(f, Complete(r)) /\ f.phase = r.phase
             /\ f.blk = r.blk /\ f.work = r.work /\ f.req = r.req /\ f.off = r.blk.b + 1
             /\ f.dirty = 0 /\ f.opened = r.opened
             /\ f.bwrite = r.bwrite /\ f.rest = rest
             /\ Known(f, row.map, d)
             /\ BlockFrom(r.work, r.blk.b + 1) # NoBlock => ChildOK(GoOn(f), row.map, d)
<1> DEFINE r == t[p]
           c == Complete(r)
           f == [c EXCEPT !.off = r.blk.b + 1, !.dirty = 0, !.rest = rest]
           d == Written(r, r.blk.b + 1)
<1>1. /\ r \in Children /\ r \in Fields /\ Asked(r.req) /\ Sound(r, row.map, disk)
      /\ ChildOK(r, row.map, disk) /\ row.map \in SUBSET Segs /\ Placed(r.lranges)
  BY AtWork DEF Transfer
<1>2. Current(r, disk)
  BY <1>1 DEF Sound
<1>3. r.blk.b + 1 \in Nat /\ r.blk.b \in Nat /\ r.blk.a \in Nat /\ r.blk \in Segs
      /\ r.off \in Nat /\ r.off <= r.blk.b
  BY <1>1, <1>2 DEF Current, Segs, Fields
<1>4. c.lranges \in SUBSET Segs
  <2>1. CASE r.bwrite
    <3>1. Placed(appendNode(r.lranges, r.blk))
      BY <1>1, <1>2, <2>1, AppendPlaced DEF Current
    <3>2. c.lranges = appendNode(r.lranges, r.blk)
      BY <1>1, <2>1 DEF Complete, Fields
    <3>3. QED  BY <3>1, <3>2 DEF Placed
  <2>2. CASE ~r.bwrite
    BY <1>1, <2>2 DEF Complete, Fields
  <2>3. QED  BY <2>1, <2>2
<1>5. /\ c \in Fields /\ c.phase = r.phase /\ c.blk = r.blk /\ c.work = r.work
      /\ c.req = r.req /\ c.opened = r.opened /\ c.bwrite = r.bwrite /\ c.hi = r.hi
  <2>1. CASE r.bwrite
    <3>1. c = [r EXCEPT !.lranges = appendNode(r.lranges, r.blk)]
      BY <2>1 DEF Complete
    <3>2. appendNode(r.lranges, r.blk) \in SUBSET Segs
      BY <1>1, <1>4, <3>1 DEF Fields
    <3>3. QED  BY <1>1, <3>1, <3>2 DEF Fields
  <2>2. CASE ~r.bwrite
    BY <1>1, <2>2 DEF Complete
  <2>3. QED  BY <2>1, <2>2
<1> HIDE DEF c
<1>6. f \in Fields
  BY <1>3, <1>5 DEF Fields
<1>7. /\ SameBlock(f, c) /\ f.phase = r.phase /\ f.blk = r.blk /\ f.work = r.work
      /\ f.req = r.req /\ f.off = r.blk.b + 1 /\ f.dirty = 0 /\ f.opened = r.opened
      /\ f.bwrite = r.bwrite /\ f.rest = rest /\ f.hi = r.hi
  BY <1>5 DEF Fields, SameBlock
<1> HIDE DEF f
<1>8. f \in Children
  BY <1>1, <1>6, <1>7 DEF Children
<1>9. f.lranges = Complete(t[p]).lranges
  BY <1>7 DEF SameBlock, c
<1>10. f.blk.b \in Int
  BY <1>3, <1>7
<1>11. Known(f, row.map, d)
  BY <1>7, <1>9, <1>10, FilledKnown
<1>12. ASSUME BlockFrom(r.work, r.blk.b + 1) # NoBlock PROVE ChildOK(GoOn(f), row.map, d)
  <2>1. \E w \in f.work : w.b + 1 = f.off
    BY <1>2, <1>7 DEF Current
  <2>2. f.opened \/ f.phase = "tail"
    BY <1>1, <1>7 DEF ChildOK, Unopened
  <2>3. \A w \in r.work : w.a \in Nat
    BY <1>1 DEF Sound, Known, Chain, Blocks
  <2>4. f.phase = "tail" => \A w \in f.work : w.a >= f.off => w.position # Missing
    <3>1. f.phase = "tail" => \A w \in r.work : w.a >= r.off => w.position # Missing
      BY <1>1, <1>7 DEF Sound
    <3>2. \A w \in r.work : w.a >= f.off => w.a >= r.off
      BY <1>3, <1>7, <2>3
    <3>3. QED  BY <1>7, <3>1, <3>2
  <2>5. BlockFrom(f.work, f.blk.b + 1) # NoBlock
    BY <1>7, <1>12
  <2>6. f.phase \in {"body", "tail"} /\ f.blk \in Segs /\ f.off = f.blk.b + 1
    BY <1>3, <1>7
  <2>7. QED  BY <1>1, <1>7, <1>8, <1>11, <2>1, <2>2, <2>4, <2>5, <2>6, GoneOn
<1>13. QED  BY <1>7, <1>8, <1>11, <1>12 DEF c, f

LEMMA OverflowStep ==
  ASSUME MapInv, NEW p \in Workers, Overflow(p)
  PROVE  MapInv'
<1> DEFINE r == t[p]
           rest == r.rest - (limit(r) - acumulate(r))
           f == [Complete(r) EXCEPT !.off = r.blk.b + 1, !.dirty = 0, !.rest = rest]
           d == Written(r, r.blk.b + 1)
<1>1. /\ r.phase \in {"body", "tail"} /\ ~AtEnd(r) /\ r.rest > 0
      /\ acumulate(r) + r.rest > limit(r) /\ disk' = d
      /\ UNCHANGED <<kind, there, row>>
      /\ Become(p, IF BlockFrom(r.work, r.blk.b + 1) = NoBlock THEN Idle ELSE GoOn(f))
  BY DEF Overflow
<1>2. r \in Fields /\ Sound(r, row.map, disk) /\ RowOK(row)
  BY <1>1, AtWork DEF Transfer
<1>3. Current(r, disk)
  BY <1>1, <1>2 DEF Sound
<1>4. /\ r.blk.b + 1 \in Nat /\ r.off \in Nat /\ r.off <= r.blk.b + 1
      /\ r.blk.a \in Nat /\ r.blk.b \in Nat /\ r.rest \in Nat
  BY <1>2, <1>3 DEF Current, Segs, Fields
<1>5. rest \in Nat
  BY <1>1, <1>4 DEF limit, acumulate, Length
<1>6. \A s \in row.map : On(d, s)
  <2>1. r.blk.b + 1 <= r.blk.b + 1
    BY <1>4
  <2>2. QED  BY <1>1, <1>4, <2>1, WritingFacts DEF Transfer
<1>7. OnlyOne(p)
  BY <1>1 DEF OnlyOne
<1>8. CASE BlockFrom(r.work, r.blk.b + 1) = NoBlock
  <2>1. Become(p, Idle)
    BY <1>1, <1>8
  <2>2. ChildOK(Idle, row'.map, disk')
    BY IdleOK
  <2>3. QED  BY <1>1, <1>2, <1>6, <1>7, <2>1, <2>2, Stepped
<1>9. CASE BlockFrom(r.work, r.blk.b + 1) # NoBlock
  <2>1. Become(p, GoOn(f))
    BY <1>1, <1>9
  <2>2. ChildOK(GoOn(f), row.map, d)
    BY <1>1, <1>5, <1>9, FilledStep
  <2>3. QED  BY <1>1, <1>2, <1>6, <1>7, <2>1, <2>2, Stepped
<1>10. QED  BY <1>8, <1>9

LEMMA WriteEndStep ==
  ASSUME MapInv, NEW p \in Workers, WriteEnd(p)
  PROVE  MapInv'
<1> DEFINE r == t[p]
           f == [Complete(r) EXCEPT !.off = r.blk.b + 1, !.dirty = 0, !.rest = 0]
           d == Written(r, r.blk.b + 1)
           last == BlockFrom(r.work, r.blk.b + 1) = NoBlock
           over == last \/ f.off - r.req.lo = r.neto
           q == [f EXCEPT !.phase = "done", !.blk = NoBlock, !.bwrite = FALSE]
<1>1. /\ r.phase \in {"body", "tail"} /\ ~AtEnd(r) /\ disk' = d
      /\ UNCHANGED <<kind, there, row>>
      /\ Become(p, IF over THEN q ELSE GoOn(f))
  BY DEF WriteEnd
<1>2. r \in Fields /\ Sound(r, row.map, disk) /\ RowOK(row)
  BY <1>1, AtWork DEF Transfer
<1>3. Current(r, disk)
  BY <1>1, <1>2 DEF Sound
<1>4. /\ r.blk.b + 1 \in Nat /\ r.off \in Nat /\ r.off <= r.blk.b + 1
  BY <1>2, <1>3 DEF Current, Segs, Fields
<1>5. \A s \in row.map : On(d, s)
  <2>1. r.blk.b + 1 <= r.blk.b + 1
    BY <1>4
  <2>2. QED  BY <1>1, <1>4, <2>1, WritingFacts DEF Transfer
<1>6. OnlyOne(p)
  BY <1>1 DEF OnlyOne
<1>7. /\ f \in Children /\ SameBlock(f, Complete(r)) /\ f.work = r.work /\ f.req = r.req
      /\ f.dirty = 0 /\ (~last => ChildOK(GoOn(f), row.map, d))
  BY <1>1, FilledStep
<1>8. ASSUME NEW c, Become(p, c), ChildOK(c, row.map, d) PROVE MapInv'
  BY <1>1, <1>2, <1>5, <1>6, <1>8, Stepped
<1>9. CASE over
  <2> HIDE DEF f
  <2>1. f \in Fields /\ Asked(f.req) /\ (f.hi > 0 => f.req.lo <= f.hi)
    BY <1>7 DEF Children
  <2>2. q \in Fields
    BY <2>1 DEF Fields, Phases
  <2>3. /\ q.phase = "done" /\ q.blk = NoBlock /\ ~q.bwrite /\ q.dirty = 0
        /\ q.lranges = Complete(t[p]).lranges /\ q.work = r.work /\ q.req = r.req
        /\ q.hi = f.hi
    BY <1>7, <2>1 DEF Fields, SameBlock
  <2> HIDE DEF q
  <2>4. q.blk.b \in Int
    BY <2>3 DEF NoBlock, Segment
  <2>5. Known(q, row.map, d)
    BY <1>1, <2>3, <2>4, FilledKnown
  <2>6. q \in Children
    BY <1>7, <2>1, <2>2, <2>3 DEF Children
  <2>7. ChildOK(q, row.map, d)
    BY <2>3, <2>5, <2>6 DEF ChildOK, Sound, AtEnd, Transfer
  <2>8. Become(p, q)
    BY <1>1, <1>9
  <2>9. QED  BY <1>8, <2>7, <2>8
<1>10. CASE ~over
  BY <1>1, <1>7, <1>8, <1>10
<1>11. QED  BY <1>9, <1>10

LEMMA WriteStep ==
  ASSUME MapInv, NEW p \in Workers, Write(p)
  PROVE  MapInv'
<1> DEFINE r == t[p]
           to == r.off + r.rest
           dirty == IF r.phase = "tail" THEN 0 ELSE r.dirty + r.rest
           d == IF r.phase = "tail" THEN Written(r, to) ELSE disk
           q == [r EXCEPT !.off = to, !.rest = 0, !.dirty = dirty]
<1>1. /\ r.phase \in {"body", "tail"} /\ ~AtEnd(r) /\ r.rest > 0
      /\ acumulate(r) + r.rest < limit(r) /\ disk' = d
      /\ UNCHANGED <<kind, there, row>> /\ Become(p, q)
  BY DEF Write
<1>2. /\ r \in Children /\ r \in Fields /\ Known(r, row.map, disk)
      /\ Sound(r, row.map, disk) /\ ChildOK(r, row.map, disk) /\ RowOK(row)
      /\ row.map \in SUBSET Segs /\ \A s \in row.map : On(disk, s)
  BY <1>1, AtWork DEF Transfer
<1>3. Current(r, disk)
  BY <1>1, <1>2 DEF Sound
<1>4. /\ r.blk \in Segs /\ r.blk.a \in Nat /\ r.blk.b \in Nat /\ r.off \in Nat
      /\ r.rest \in Nat /\ r.dirty \in Nat /\ r.blk.a <= r.off /\ r.off <= r.blk.b
      /\ r.dirty <= r.off - r.blk.a
  BY <1>2, <1>3 DEF Current, Segs, Fields
<1>5. to \in Nat /\ r.off <= to /\ to <= r.blk.b /\ r.blk.a <= to
  BY <1>1, <1>4 DEF limit, acumulate, Length
<1>6. to <= r.blk.b + 1
  BY <1>4, <1>5
<1>7. /\ Keeps(r.lranges, disk, d) /\ \A s \in row.map : On(d, s)
      /\ r.phase = "body" => d = disk
      /\ ~r.bwrite => On(d, r.blk)
  <2>1. CASE r.phase = "tail"
    BY <1>1, <1>5, <1>6, <2>1, WritingFacts DEF Transfer
  <2>2. CASE r.phase = "body"
    BY <1>2, <1>3, <2>2, Unwritten DEF Current
  <2>3. QED  BY <1>1, <2>1, <2>2
<1>8. r.phase = "tail" => ~r.bwrite /\ \A w \in r.work : w.a >= r.off => w.position # Missing
  BY <1>2 DEF Sound
<1>9. dirty \in Nat /\ dirty <= to - r.blk.a
  BY <1>4, <1>5
<1>10. r.phase = "body" => to - dirty - 1 = r.off - r.dirty - 1
  BY <1>4
<1> HIDE DEF to, dirty, d
<1>11. q \in Fields
  BY <1>2, <1>5, <1>9 DEF Fields
<1>12. /\ SameBlock(q, r) /\ q.phase = r.phase /\ q.opened = r.opened /\ q.off = to
       /\ q.dirty = dirty /\ q.hi = r.hi
  BY <1>2 DEF Fields, SameBlock
<1> HIDE DEF q
<1>13. q \in Children
  BY <1>2, <1>11, <1>12 DEF Children, SameBlock
<1>14. Known(q, row.map, d)
  BY <1>2, <1>7, <1>12, KnownKept DEF SameBlock
<1>15. r.bwrite => Fits(r.lranges, r.blk) /\ On(d, [r.blk EXCEPT !.b = to - dirty - 1])
  <2>1. SUFFICES ASSUME r.bwrite
                 PROVE  Fits(r.lranges, r.blk) /\ On(d, [r.blk EXCEPT !.b = to - dirty - 1])
    OBVIOUS
  <2>2. r.phase = "body" /\ d = disk
    BY <1>1, <1>7, <1>8, <2>1
  <2>3. QED  BY <1>3, <1>10, <2>1, <2>2 DEF Current
<1>16. Current(q, d) /\ ~AtEnd(q)
  BY <1>1, <1>3, <1>4, <1>5, <1>7, <1>9, <1>12, <1>15 DEF Current, AtEnd, SameBlock
<1>17. \A w \in r.work : w.a \in Nat
  BY <1>2 DEF Known, Chain, Blocks
<1>18. r.phase = "tail" => dirty = 0
  BY DEF dirty
<1>19. q.phase = "tail" =>
         ~q.bwrite /\ q.dirty = 0 /\ \A w \in q.work : w.a >= q.off => w.position # Missing
  <2>1. \A w \in r.work : w.a >= to => w.a >= r.off
    BY <1>4, <1>5, <1>17
  <2>2. QED  BY <1>8, <1>12, <1>18, <2>1 DEF SameBlock
<1>20. Sound(q, row.map, d)
  BY <1>1, <1>12, <1>14, <1>16, <1>19 DEF Sound
<1>21. q.phase = "body" => q.opened
  BY <1>1, <1>2, <1>12 DEF ChildOK, Unopened
<1>22. q.phase \in Transfer /\ q.phase \notin {"locked", "miss", "hit"}
  BY <1>1, <1>12 DEF Transfer
<1>23. ChildOK(q, row.map, d)
  BY <1>13, <1>16, <1>20, <1>21, <1>22 DEF ChildOK
<1>24. OnlyOne(p)
  BY <1>1 DEF OnlyOne
<1>25. QED  BY <1>1, <1>2, <1>7, <1>23, <1>24, Stepped

LEMMA DrainStep ==
  ASSUME MapInv, NEW p \in Workers, Drain(p)
  PROVE  MapInv'
<1> DEFINE r == t[p]
           d == Written(r, r.off)
           q == [r EXCEPT !.dirty = 0]
<1>1. r.dirty > 0 /\ disk' = d /\ Become(p, q) /\ UNCHANGED <<kind, there, row>>
  BY DEF Drain
<1>2. r \in Children /\ r \in Fields /\ ChildOK(r, row.map, disk) /\ RowOK(row)
      /\ row.map \in SUBSET Segs
  BY AtWork
<1>3. ~AtEnd(r) /\ r.phase \in Transfer
  BY <1>1, <1>2 DEF ChildOK
<1>4. Known(r, row.map, disk) /\ Sound(r, row.map, disk) /\ Current(r, disk)
  BY <1>2, <1>3 DEF ChildOK, Sound
<1>5. /\ r.blk \in Segs /\ r.blk.a \in Nat /\ r.blk.b \in Nat /\ r.off \in Nat
      /\ r.blk.a <= r.off /\ r.off <= r.blk.b /\ r.off <= r.off /\ r.off <= r.blk.b + 1
      /\ 0 <= r.off - r.blk.a
  BY <1>2, <1>4 DEF Current, Segs, Fields
<1>6. /\ Keeps(r.lranges, disk, d) /\ \A s \in row.map : On(d, s)
      /\ r.bwrite => On(d, [r.blk EXCEPT !.b = r.off - 1])
      /\ ~r.bwrite => On(d, r.blk)
  BY <1>3, <1>5, WritingFacts
<1> HIDE DEF d
<1>7. q \in Fields
  BY <1>2 DEF Fields
<1>8. /\ SameBlock(q, r) /\ q.phase = r.phase /\ q.opened = r.opened /\ q.off = r.off
      /\ q.dirty = 0 /\ q.hi = r.hi
  BY <1>2 DEF Fields, SameBlock
<1> HIDE DEF q
<1>9. q \in Children
  BY <1>2, <1>7, <1>8 DEF Children, SameBlock
<1>10. Known(q, row.map, d)
  BY <1>2, <1>4, <1>6, <1>8, KnownKept DEF SameBlock
<1>11. r.off - 0 - 1 = r.off - 1
  BY <1>5
<1>12. Current(q, d) /\ ~AtEnd(q)
  BY <1>3, <1>4, <1>5, <1>6, <1>8, <1>11 DEF Current, AtEnd, SameBlock
<1>13. Sound(q, row.map, d)
  BY <1>4, <1>8, <1>10, <1>12 DEF Sound, SameBlock
<1>14. r.phase \in {"locked", "miss", "body", "hit"} => r.opened
  BY <1>2, <1>3 DEF ChildOK, Unopened
<1>15. ChildOK(q, row.map, d)
  BY <1>2, <1>3, <1>8, <1>9, <1>12, <1>13, <1>14 DEF ChildOK, Transfer
<1>16. OnlyOne(p)
  BY <1>3 DEF OnlyOne, Transfer
<1>17. QED  BY <1>1, <1>2, <1>6, <1>15, <1>16, Stepped

\* A block that begins with what is left of it.
LEMMA MovedOn ==
  ASSUME NEW b \in Segs, NEW n \in Nat, NEW x \in Nat
  PROVE  [[b EXCEPT !.position = @ + n] EXCEPT !.a = x]
           = [a |-> x, b |-> b.b, position |-> b.position + n]
<1>1. ASSUME NEW e \in Segs
      PROVE  [e EXCEPT !.a = x] = [a |-> x, b |-> e.b, position |-> e.position]
  BY DEF Segs
<1>2. [b EXCEPT !.position = @ + n] \in Segs
  BY DEF Segs
<1>3. [[b EXCEPT !.position = @ + n] EXCEPT !.a = x]
        = [a |-> x, b |-> [b EXCEPT !.position = @ + n].b,
           position |-> [b EXCEPT !.position = @ + n].position]
  BY <1>1, <1>2
<1>4. /\ [b EXCEPT !.position = @ + n].b = b.b
      /\ [b EXCEPT !.position = @ + n].position = b.position + n
  BY DEF Segs
<1>5. QED  BY <1>3, <1>4

LEMMA SubUpdateStep ==
  ASSUME MapInv, NEW p \in Workers, SubUpdate(p)
  PROVE  MapInv'
<1> USE DEF Segs
<1> DEFINE r == t[p]
           S == appendSubNode(r.lranges, r.blk, acumulate(r))
           d == Written(r, r.off)
           q == [r EXCEPT !.lranges = S, !.dirty = 0,
                          !.blk.position = @ + acumulate(r), !.blk.a = r.off]
           n == [r.blk EXCEPT !.b = r.off - 1]
           rest == [a |-> r.off, b |-> r.blk.b, position |-> r.blk.position + acumulate(r)]
<1>1. /\ r.phase = "body" /\ r.bwrite /\ acumulate(r) > 0 /\ disk' = d /\ Become(p, q)
      /\ SaveMap(S) /\ UNCHANGED <<kind, there>>
  BY DEF SubUpdate
<1>2. /\ r \in Children /\ r \in Fields /\ Known(r, row.map, disk)
      /\ Sound(r, row.map, disk) /\ ChildOK(r, row.map, disk) /\ RowOK(row)
      /\ row.map \in SUBSET Segs /\ Placed(r.lranges)
  BY <1>1, AtWork DEF Transfer
<1>3. ~AtEnd(r) /\ r.opened /\ Current(r, disk)
  BY <1>1, <1>2 DEF ChildOK, Unopened, Sound
<1>4. /\ r.blk \in Segs /\ r.blk.a \in Nat /\ r.blk.b \in Nat /\ r.blk.position \in Nat
      /\ r.off \in Nat /\ r.off <= r.blk.b /\ r.blk.a + 1 <= r.off
      /\ r.off <= r.blk.b + 1 /\ r.off <= r.off /\ acumulate(r) \in Nat
      /\ acumulate(r) = r.off - r.blk.a
  BY <1>1, <1>2, <1>3 DEF Current, Fields, acumulate
<1>5. Fits(r.lranges, r.blk)
  BY <1>1, <1>3 DEF Current
<1>6. n \in Segs /\ n.b = r.off - 1 /\ DiskEnd(n) = r.blk.position + r.off - r.blk.a
      /\ Fits(r.lranges, n)
  BY <1>2, <1>4, <1>5, PartFits
<1>7. Keeps(r.lranges, disk, d) /\ On(d, n)
  BY <1>1, <1>3, <1>4, WritingFacts DEF Transfer
<1>8. S = appendNode(r.lranges, n)
  <2>1. r.blk.a + acumulate(r) - 1 = r.off - 1
    BY <1>4
  <2>2. QED  BY <2>1 DEF appendSubNode
<1>9. Placed(S) /\ S \in SUBSET Segs /\ getPointEnd(S) = DiskEnd(n)
  <2>1. Placed(S) /\ getPointEnd(S) = DiskEnd(n)
    BY <1>2, <1>6, <1>8, AppendPlaced, AppendPointEnd
  <2>2. QED  BY <2>1 DEF Placed
<1> HIDE DEF S, d, n
<1>10. rest \in Segs
  BY <1>4
<1>11. q = [r EXCEPT !.lranges = S, !.dirty = 0, !.blk = rest]
  <2>1. [[r.blk EXCEPT !.position = @ + acumulate(r)] EXCEPT !.a = r.off] = rest
    BY <1>4, MovedOn DEF rest
  <2>2. q = [r EXCEPT !.lranges = S, !.dirty = 0,
                      !.blk = [[r.blk EXCEPT !.position = @ + acumulate(r)] EXCEPT !.a = r.off]]
    BY <1>2 DEF Fields
  <2>3. QED  BY <2>1, <2>2
<1> HIDE DEF rest, q
<1>12. q \in Fields
  BY <1>2, <1>9, <1>10, <1>11 DEF Fields
<1>13. /\ q.lranges = S /\ q.dirty = 0 /\ q.blk = rest /\ q.work = r.work /\ q.req = r.req
       /\ q.phase = "body" /\ q.bwrite /\ q.opened /\ q.off = r.off /\ q.hi = r.hi
  BY <1>1, <1>2, <1>3, <1>11 DEF Fields
<1>14. q \in Children
  BY <1>2, <1>12, <1>13 DEF Children
<1>15. rest.a = r.off /\ rest.b = r.blk.b /\ rest.position = r.blk.position + acumulate(r)
  BY DEF rest
<1>16. row'.map \in {row.map, S} /\ RowOK(row')
  BY <1>1, <1>2, <1>9 DEF SaveMap, RowOK
<1>17. Known(q, row'.map, d)
  <2>1. n.b <= r.blk.b /\ r.blk.b <= q.blk.b /\ q.blk.b \in Int /\ r.blk.b \in Int
    BY <1>4, <1>6, <1>13, <1>15
  <2>2. q.lranges = appendNode(r.lranges, n) /\ row'.map \in {row.map, q.lranges}
    BY <1>8, <1>13, <1>16
  <2>3. r.phase # "done"
    BY <1>1
  <2>4. QED  BY <1>2, <1>6, <1>7, <1>13, <2>1, <2>2, <2>3, KnownGrows
<1>18. Fits(S, rest)
  <2>1. \A s \in r.lranges : Clear(s, rest)
    <3>1. SUFFICES ASSUME NEW s \in r.lranges PROVE Clear(s, rest)
      OBVIOUS
    <3>2. s \in Segs /\ Clear(s, r.blk)
      BY <1>2, <1>5 DEF Fits, Placed
    <3>3. QED  BY <1>4, <1>15, <3>2 DEF Clear
  <2>2. n.b < rest.a /\ rest.a <= rest.b
    BY <1>4, <1>6, <1>15
  <2>3. \A s \in S : Clear(s, rest)
    BY <1>2, <1>6, <1>8, <1>10, <2>1, <2>2, AppendClear
  <2>4. rest.position = getPointEnd(S)
    BY <1>4, <1>6, <1>9, <1>15
  <2>5. QED  BY <1>10, <2>2, <2>3, <2>4 DEF Fits
<1>19. On(d, [rest EXCEPT !.b = r.off - 0 - 1])
  <2>1. Bytes([rest EXCEPT !.b = r.off - 0 - 1]) = {}
    BY <1>4, <1>10, <1>15 DEF Bytes
  <2>2. QED  BY <2>1 DEF On
<1>20. \E w \in r.work : w.b = rest.b /\ w.a <= rest.a
  <2>1. PICK w \in r.work : w.b = r.blk.b /\ w.a <= r.blk.a
    BY <1>3 DEF Current
  <2>2. w.a \in Nat
    BY <1>2 DEF Known, Chain, Blocks
  <2>3. QED  BY <1>4, <1>15, <2>1, <2>2
<1>21. rest # NoBlock
  BY <1>4, <1>15 DEF NoBlock, Segment
<1>22. Current(q, d) /\ ~AtEnd(q)
  BY <1>4, <1>10, <1>13, <1>15, <1>18, <1>19, <1>20, <1>21 DEF Current, AtEnd
<1>23. Sound(q, row'.map, d)
  BY <1>13, <1>17, <1>22 DEF Sound
<1>24. ChildOK(q, row'.map, d)
  BY <1>13, <1>14, <1>22, <1>23 DEF ChildOK, Transfer
<1>25. \A s \in row'.map : On(d, s)
  BY <1>17 DEF Known
<1>26. OnlyOne(p)
  BY <1>1 DEF OnlyOne
<1>27. QED  BY <1>1, <1>16, <1>24, <1>25, <1>26, Stepped


LEMMA ServeStep ==
  ASSUME MapInv, NEW p \in Workers, Serve(p)
  PROVE  MapInv'
<1> DEFINE r == t[p]
           next == BlockFrom(r.work, r.blk.b + 1)
<1>1. /\ r.phase \in {"hit", "tail"} /\ r.opened /\ ~AtEnd(r)
      /\ UNCHANGED <<kind, there, disk, row>>
  BY DEF Serve
<1>2. /\ r \in Children /\ r \in Fields /\ Asked(r.req) /\ Known(r, row.map, disk)
      /\ Sound(r, row.map, disk) /\ RowOK(row)
      /\ row.map \in SUBSET Segs /\ Placed(r.lranges) /\ \A s \in row.map : On(disk, s)
  BY <1>1, AtWork DEF Transfer
<1>3. Current(r, disk) /\ ~r.bwrite /\ r.dirty = 0
  BY <1>1, <1>2 DEF Sound
<1>4. /\ r.blk \in Segs /\ r.blk.a \in Nat /\ r.blk.b \in Nat /\ r.off \in Nat
      /\ r.blk.a <= r.off /\ r.off <= r.blk.b /\ r.blk.b + 1 \in Nat
      /\ r.req.lo \in Nat
  BY <1>2, <1>3 DEF Current, Segs, Fields, Asked
<1>5. PICK n \in Readable(r) :
        LET read == [r EXCEPT !.off = @ + n]
            full == read.off = r.blk.b + 1
            over == (full /\ next = NoBlock) \/ read.off - r.req.lo = r.neto
        IN  Become(p, IF over
                      THEN [read EXCEPT !.phase = IF @ = "tail" THEN "done" ELSE @,
                                        !.blk = NoBlock, !.bwrite = FALSE]
                      ELSE IF full THEN Enter(read, next) ELSE read)
  BY DEF Serve
<1> DEFINE to == r.off + n
           read == [r EXCEPT !.off = to]
           over == (to = r.blk.b + 1 /\ next = NoBlock) \/ to - r.req.lo = r.neto
           phase == IF r.phase = "tail" THEN "done" ELSE "hit"
           last == [read EXCEPT !.phase = phase, !.blk = NoBlock, !.bwrite = FALSE]
<1>6. to \in Nat /\ r.off <= to /\ to <= r.blk.b + 1
  <2>1. n \in 1 .. Smaller(MaxPart, limit(r) - acumulate(r))
    BY DEF Readable
  <2>2. n \in Nat /\ n <= limit(r) - acumulate(r)
    BY <2>1, <1>4, CacheFileAssumption DEF Smaller, limit, acumulate, Length
  <2>3. QED  BY <1>4, <2>2 DEF limit, acumulate, Length
<1>7. read \in Fields
  BY <1>2, <1>6 DEF Fields
<1>8. /\ SameBlock(read, r) /\ read.phase = r.phase /\ read.opened /\ read.hi = r.hi
      /\ read.off = to /\ read.dirty = 0
  BY <1>1, <1>2, <1>3 DEF Fields, SameBlock
<1>9. /\ over => Become(p, last)
      /\ ~over /\ to = r.blk.b + 1 => Become(p, Enter(read, next))
      /\ ~over /\ to # r.blk.b + 1 => Become(p, read)
  <2>1. Become(p, IF (read.off = r.blk.b + 1 /\ next = NoBlock)
                       \/ read.off - r.req.lo = r.neto
                  THEN [read EXCEPT !.phase = IF @ = "tail" THEN "done" ELSE @,
                                    !.blk = NoBlock, !.bwrite = FALSE]
                  ELSE IF read.off = r.blk.b + 1 THEN Enter(read, next) ELSE read)
    BY <1>5
  <2>2. [read EXCEPT !.phase = IF @ = "tail" THEN "done" ELSE @,
                     !.blk = NoBlock, !.bwrite = FALSE] = last
    BY <1>1, <1>7, <1>8 DEF Fields
  <2>3. QED  BY <1>8, <2>1, <2>2
<1>10. ASSUME NEW q, Become(p, q), ChildOK(q, row.map, disk) PROVE MapInv'
  <2>1. OnlyOne(p)
    BY <1>1 DEF OnlyOne
  <2>2. QED  BY <1>1, <1>2, <1>10, <2>1, Stepped
<1> HIDE DEF to, read, over, phase
<1>11. read \in Children
  BY <1>2, <1>7, <1>8 DEF Children, SameBlock
<1>12. r.phase = "hit" => \A w \in r.work : w.position # Missing
  BY <1>2 DEF Sound
<1>13. r.phase = "tail" => \A w \in r.work : w.a >= to => w.position # Missing
  <2>1. r.phase = "tail" => \A w \in r.work : w.a >= r.off => w.position # Missing
    BY <1>2 DEF Sound
  <2>2. \A w \in r.work : w.a \in Nat
    BY <1>2 DEF Known, Chain, Blocks
  <2>3. \A w \in r.work : w.a >= to => w.a >= r.off
    BY <1>4, <1>6, <2>2
  <2>4. QED  BY <2>1, <2>3
<1>14. Known(read, row.map, disk)
  BY <1>2, <1>8, KnownKept, Unwritten DEF SameBlock
<1>15. CASE over
  <2>1. phase \in {"hit", "done"} /\ (phase = "hit" => r.phase = "hit")
    BY <1>1 DEF phase
  <2>2. last \in Fields
    BY <1>7, <2>1 DEF Fields, Phases
  <2>3. /\ last.phase = phase /\ last.blk = NoBlock /\ ~last.bwrite /\ last.dirty = 0
        /\ last.lranges = r.lranges /\ last.work = r.work /\ last.req = r.req
        /\ last.hi = r.hi /\ last.opened
    BY <1>7, <1>8 DEF Fields, SameBlock
  <2> HIDE DEF last
  <2>4. last \in Children
    BY <1>2, <2>2, <2>3 DEF Children
  <2>5. Known(last, row.map, disk)
    <3>1. \A w \in r.work : w.position = Missing /\ w.a > last.blk.b /\ last.phase # "done" =>
                              w.a > r.blk.b /\ r.phase # "done"
      BY <1>12, <2>1, <2>3
    <3>2. QED  BY <1>2, <2>3, <3>1, KnownKept, Unwritten
  <2>6. Sound(last, row.map, disk)
    BY <1>12, <2>1, <2>3, <2>5 DEF Sound, AtEnd
  <2>7. ChildOK(last, row.map, disk)
    BY <2>1, <2>3, <2>4, <2>6 DEF ChildOK, AtEnd, Transfer
  <2>8. QED  BY <1>9, <1>10, <1>15, <2>7
<1>16. CASE ~over /\ to = r.blk.b + 1
  <2> DEFINE e == Enter(read, next)
  <2>1. next # NoBlock
    BY <1>16 DEF over
  <2>2. \E w \in r.work : w.b + 1 = to
    BY <1>3, <1>16 DEF Current
  <2>3. next \in r.work /\ next.a = to
    BY <1>2, <1>4, <1>16, <2>1, <2>2, BlockFromIs DEF Known
  <2>4. next.a > read.blk.b /\ read.off = next.a /\ next \in read.work
    BY <1>4, <1>8, <1>16, <2>3 DEF SameBlock
  <2>5. /\ Current(e, disk) /\ ~AtEnd(e) /\ e.blk.b = next.b
        /\ e.bwrite <=> next.position = Missing
    BY <1>1, <1>8, <1>11, <1>14, <2>4, Entered
  <2>6. /\ e \in Fields /\ e.phase = r.phase /\ e.req = r.req /\ e.hi = r.hi
        /\ e.lranges = r.lranges /\ e.work = r.work /\ e.opened
        /\ e.off = to /\ e.dirty = 0
    <3>1. Placed(read.lranges) /\ next \in read.work \cup {NoBlock}
      BY <1>2, <1>8, <2>4 DEF SameBlock
    <3>2. QED  BY <1>7, <1>8, <3>1, EnterFrame DEF SameBlock
  <2> HIDE DEF e, next
  <2>7. e \in Children
    BY <1>2, <2>6 DEF Children
  <2>8. ~e.bwrite
    <3>1. next.a >= to
      BY <1>6, <2>3
    <3>2. next.position # Missing
      BY <1>1, <1>12, <1>13, <2>3, <3>1
    <3>3. QED  BY <2>5, <3>2
  <2>9. \A w \in r.work : w.a > e.blk.b => w.a > r.blk.b
    <3>1. /\ next.a \in Nat /\ next.b \in Nat /\ next.a <= next.b
          /\ \A w \in r.work : w.a \in Nat
      BY <1>2, <2>3 DEF Known, Chain, Blocks
    <3>2. e.blk.b = next.b /\ next.a = r.blk.b + 1
      BY <1>16, <2>3, <2>5
    <3>3. QED  BY <1>4, <3>1, <3>2
  <2>10. Known(e, row.map, disk)
    BY <1>1, <1>2, <2>6, <2>9, KnownKept, Unwritten
  <2>11. Sound(e, row.map, disk)
    BY <1>1, <1>12, <1>13, <2>5, <2>6, <2>8, <2>10 DEF Sound
  <2>12. ChildOK(e, row.map, disk)
    BY <1>1, <2>5, <2>6, <2>7, <2>11 DEF ChildOK, Transfer
  <2>13. Become(p, e)
    BY <1>9, <1>16 DEF e
  <2>14. QED  BY <1>10, <2>12, <2>13
<1>17. CASE ~over /\ to # r.blk.b + 1
  <2>1. to <= r.blk.b /\ r.blk.a <= to /\ 0 <= to - r.blk.a
    BY <1>4, <1>6, <1>17
  <2>2. Current(read, disk) /\ ~AtEnd(read)
    BY <1>1, <1>3, <1>8, <2>1 DEF Current, AtEnd, SameBlock
  <2>3. Sound(read, row.map, disk)
    BY <1>1, <1>3, <1>8, <1>12, <1>13, <1>14, <2>2 DEF Sound, SameBlock
  <2>4. ChildOK(read, row.map, disk)
    BY <1>1, <1>8, <1>11, <2>2, <2>3 DEF ChildOK, Transfer
  <2>5. QED  BY <1>9, <1>10, <1>17, <2>4
<1>18. QED  BY <1>15, <1>16, <1>17

(***************************************************************************)
(* The end of a request.                                                   *)
(***************************************************************************)

LEMMA UpdateStep ==
  ASSUME MapInv, NEW p \in Workers, Update(p)
  PROVE  MapInv'
<1> DEFINE r == t[p]
           part == r.bwrite /\ ~AtEnd(r) /\ acumulate(r) > 0
           n == [r.blk EXCEPT !.b = r.off - 1]
           S == IF part THEN appendNode(r.lranges, n) ELSE r.lranges
           d == IF r.dirty > 0 THEN Written(r, r.off) ELSE disk
<1>1. /\ r.phase \in Transfer /\ SaveMap(S) /\ disk' = d /\ Become(p, Idle)
      /\ UNCHANGED <<kind, there>>
  BY DEF Update, Transfer
<1>2. /\ r \in Children /\ r \in Fields /\ Known(r, row.map, disk)
      /\ Sound(r, row.map, disk) /\ ChildOK(r, row.map, disk) /\ RowOK(row)
      /\ row.map \in SUBSET Segs /\ Placed(r.lranges) /\ \A s \in row.map : On(disk, s)
  BY <1>1, AtWork
<1>3. /\ Keeps(r.lranges, disk, d) /\ \A s \in row.map : On(d, s)
      /\ part => On(d, n)
  <2>1. CASE r.dirty > 0
    <3>1. ~AtEnd(r)
      BY <1>2, <2>1 DEF ChildOK
    <3>2. Current(r, disk)
      BY <1>2, <3>1 DEF Sound
    <3>3. r.off \in Nat /\ r.off <= r.off /\ r.off <= r.blk.b + 1
      BY <1>2, <3>2 DEF Current, Segs, Fields
    <3>4. QED  BY <1>1, <2>1, <3>1, <3>3, WritingFacts
  <2>2. CASE r.dirty = 0
    <3>1. d = disk
      BY <2>2
    <3>2. ASSUME part PROVE On(d, n)
      <4>1. Current(r, disk)
        BY <1>2, <3>2 DEF Sound
      <4>2. r.off - r.dirty - 1 = r.off - 1
        BY <1>2, <2>2 DEF Fields
      <4>3. QED  BY <3>1, <3>2, <4>1, <4>2 DEF Current
    <3>3. QED  BY <1>2, <3>1, <3>2, Unwritten
  <2>3. r.dirty \in Nat
    BY <1>2 DEF Fields
  <2>4. QED  BY <2>1, <2>2, <2>3
<1>4. \A s \in r.lranges : On(d, s)
  <2>1. \A s \in r.lranges : s \in Segs /\ DiskEnd(s) <= getPointEnd(r.lranges) /\ On(disk, s)
    BY <1>2, PointEnd DEF Known, Placed
  <2>2. QED  BY <1>3, <2>1 DEF Keeps
<1>5. Placed(S) /\ \A s \in S : On(d, s)
  <2>1. CASE part
    <3>1. Current(r, disk) /\ Fits(r.lranges, r.blk)
      BY <1>2, <2>1 DEF Sound, Current
    <3>2. r.blk.a + 1 <= r.off /\ r.off <= r.blk.b + 1 /\ r.off \in Nat
      BY <1>2, <2>1, <3>1 DEF Current, Segs, Fields, acumulate
    <3>3. Fits(r.lranges, n)
      BY <1>2, <3>1, <3>2, PartFits
    <3>4. S = appendNode(r.lranges, n)
      BY <2>1
    <3>5. QED  BY <1>2, <1>3, <1>4, <2>1, <3>3, <3>4, AppendPlaced, AppendOn
  <2>2. CASE ~part
    BY <1>2, <1>4, <2>2
  <2>3. QED  BY <2>1, <2>2
<1> HIDE DEF S, d
<1>6. RowOK(row') /\ row'.map \in {row.map, S}
  BY <1>1, <1>2, <1>5 DEF SaveMap, RowOK, Placed
<1>7. \A s \in row'.map : On(d, s)
  BY <1>3, <1>5, <1>6
<1>8. ChildOK(Idle, row'.map, disk')
  BY IdleOK
<1>9. OnlyOne(p)
  BY <1>1 DEF OnlyOne, Transfer
<1>10. QED  BY <1>1, <1>6, <1>7, <1>8, <1>9, Stepped

LEMMA LeaveStep ==
  ASSUME MapInv, NEW p \in Workers, Leave(p)
  PROVE  MapInv'
<1> DEFINE r == t[p]
           d == IF r.dirty > 0 THEN Written(r, r.off) ELSE disk
<1>1. /\ r.phase # "idle" /\ disk' = d /\ Become(p, Idle)
      /\ UNCHANGED <<kind, there, row>>
  BY DEF Leave
<1>2. /\ r \in Fields /\ ChildOK(r, row.map, disk) /\ RowOK(row)
      /\ (there => \A s \in row.map : On(disk, s))
  BY AtWork DEF MapInv
<1>3. there => \A s \in row.map : On(d, s)
  <2>1. CASE r.dirty > 0
    <3>1. ~AtEnd(r) /\ r.phase \in Transfer
      BY <1>2, <2>1 DEF ChildOK
    <3>2. Current(r, disk)
      BY <1>2, <3>1 DEF ChildOK, Sound
    <3>3. r.off \in Nat /\ r.off <= r.off /\ r.off <= r.blk.b + 1
      BY <1>2, <3>2 DEF Current, Segs, Fields
    <3>4. QED  BY <2>1, <3>1, <3>3, WritingFacts
  <2>2. CASE ~ (r.dirty > 0)
    BY <1>2, <2>2
  <2>3. QED  BY <2>1, <2>2
<1> HIDE DEF d
<1>4. ChildOK(Idle, row'.map, disk')
  BY IdleOK
<1>5. OnlyOne(p)
  BY <1>1 DEF OnlyOne
<1>6. QED  BY <1>1, <1>2, <1>3, <1>4, <1>5, Stepped

LEMMA CrashStep ==
  ASSUME MapInv, NEW p \in Workers, Crash(p)
  PROVE  MapInv'
<1>1. OnlyOne(p) /\ Become(p, Idle) /\ UNCHANGED <<kind, there, disk, row>>
  BY DEF Crash, OnlyOne
<1>2. RowOK(row) /\ (there => \A s \in row.map : On(disk, s))
  BY DEF MapInv
<1>3. ChildOK(Idle, row'.map, disk')
  BY IdleOK
<1>4. QED  BY <1>1, <1>2, <1>3, Stepped

(***************************************************************************)
(* The cleaners, and the invariant.                                        *)
(***************************************************************************)

\* An idle child knows nothing that the cleaners could take away.
LEMMA UnusedKept ==
  ASSUME MapInv, Unused, kind' = kind, t' = t, RowOK(row'),
         there' => \A s \in row'.map : On(disk', s)
  PROVE  MapInv'
<1>1. \A p \in Workers : ChildOK(t[p], row'.map, disk')
  BY DEF MapInv, Unused, ChildOK, Transfer
<1>2. QED  BY <1>1 DEF MapInv

LEMMA CleanFileStep == ASSUME MapInv, CleanFile PROVE MapInv'
<1>1. Unused /\ ~there' /\ kind' = kind /\ t' = t /\ RowOK(row')
  BY DEF CleanFile, MapInv
<1>2. QED  BY <1>1, UnusedKept

LEMMA CleanRowStep == ASSUME MapInv, CleanRow PROVE MapInv'
<1>1. Unused /\ kind' = kind /\ t' = t /\ row' = NoRow
  BY DEF CleanRow
<1>2. RowOK(row') /\ row'.map = {}
  BY <1>1, EmptyPlaced DEF RowOK, NoRow
<1>3. QED  BY <1>1, <1>2, UnusedKept

\* A request that is asked for to the end gets the rest of the file.
LEMMA OpenSize ==
  ASSUME kind \in Kinds, NEW q \in Requests, ~q.partial, q.hi <= 0
  PROVE  q.cl + q.lo = Size
<1>1. Size \in Nat /\ kind \in {"whole", "ranges", "general"}
  BY CacheFileAssumption
<1>2. q = PlainRequest \/ q \in UrlRequests
  <2>1. q \in {PlainRequest} \cup UrlRequests \cup RangeRequests
    BY <1>1 DEF Requests
  <2>2. q \notin RangeRequests
    BY DEF RangeRequests
  <2>3. QED  BY <2>1, <2>2
<1>3. CASE q = PlainRequest
  BY <1>1, <1>3 DEF PlainRequest
<1>4. CASE q \in UrlRequests
  <2>1. /\ q.lo \in Offsets /\ q.hi \in 0 .. Size
        /\ q.cl = (IF q.hi = 0 THEN Size ELSE Smaller(q.hi + 1, Size)) - q.lo
    BY <1>4 DEF UrlRequests
  <2>2. q.cl = Size - q.lo /\ q.lo \in Nat
    BY <1>1, <2>1 DEF Offsets
  <2>3. QED  BY <1>1, <2>2
<1>5. QED  BY <1>2, <1>3, <1>4

\* A refused child writes the size of the original, and nothing else.
LEMMA RefusedHeaderStep == ASSUME MapInv, RefusedHeader PROVE MapInv'
<1>1. row' = SaveSize(Size)
  <2>1. PICK q \in Requests : ~q.partial /\ q.hi <= 0 /\ row' = SaveSize(q.cl + q.lo)
    BY DEF RefusedHeader
  <2>2. q.cl + q.lo = Size
    BY <2>1, OpenSize DEF MapInv
  <2>3. QED  BY <2>1, <2>2
<1>2. kind' = kind /\ there' = there /\ disk' = disk /\ t' = t
  BY DEF RefusedHeader
<1>3. RowOK(row)
  BY DEF MapInv
<1>4. row' = [row EXCEPT !.size = Size] \/ row' = row
  BY <1>1 DEF SaveSize
<1>5. RowOK(row') /\ row'.map = row.map
  BY <1>3, <1>4 DEF RowOK
<1>6. QED  BY <1>2, <1>5 DEF MapInv

LEMMA InitInv == ASSUME Init PROVE MapInv
<1>1. /\ kind \in Kinds /\ row = NoRow /\ ~there /\ t = [p \in Workers |-> Idle]
  BY DEF Init
<1>2. RowOK(row)
  BY <1>1, EmptyPlaced DEF RowOK, NoRow
<1>3. \A p \in Workers : ChildOK(t[p], row.map, disk) /\ t[p] \in Children
  BY <1>1, IdleOK
<1>4. \A p \in Workers : t[p].phase = "idle"
  BY <1>1 DEF Idle
<1>5. t \in [Workers -> Children]
  BY <1>1, IdleOK
<1>6. QED  BY <1>1, <1>2, <1>3, <1>4, <1>5 DEF MapInv

LEMMA StutterStep == ASSUME MapInv, UNCHANGED vars PROVE MapInv'
BY DEF MapInv, vars

LEMMA NextStep == ASSUME MapInv, "general" \notin Kinds, Next PROVE MapInv'
<1>1. ASSUME NEW p \in Workers, Cache(p) PROVE MapInv'
  BY <1>1, LockStep, FileAbsentStep, FileUnmappedStep, FileSizedStep, FileUnsizedStep
     DEF Cache
<1>2. ASSUME NEW p \in Workers, ReadHeader(p) PROVE MapInv'
  BY <1>2, HeaderUnsizedStep, HeaderSizedStep DEF ReadHeader
<1>3. ASSUME NEW p \in Workers, ReadBodyPart(p) PROVE MapInv'
  BY <1>3, ReceiveStep, OverflowStep, WriteStep, WriteEndStep, DrainStep,
     SubUpdateStep, OpenHitStep, ServeStep DEF ReadBodyPart
<1>4. ASSUME NEW p \in Workers, Update(p) \/ Leave(p) \/ Crash(p) PROVE MapInv'
  BY <1>4, UpdateStep, LeaveStep, CrashStep
<1>5. ASSUME CleanFile \/ CleanRow PROVE MapInv'
  BY <1>5, CleanFileStep, CleanRowStep
<1>6. QED  BY <1>1, <1>2, <1>3, <1>4, <1>5, RefusedHeaderStep DEF Next

\* Whatever a child does, and wherever it dies: one child at a time has the
\* file, and what the row says and what that child knows of it is so.
THEOREM OneChildAndItsMap ==
  ASSUME "general" \notin Kinds
  PROVE  Spec => []MapInv
<1>1. Init => MapInv
  BY InitInv
<1>2. MapInv /\ [Next]_vars => MapInv'
  BY NextStep, StutterStep
<1>3. QED  BY <1>1, <1>2, PTL DEF Spec

(***************************************************************************)
(* What follows from it.                                                   *)
(***************************************************************************)

\* Whatever is run, the variables have their types: a row's map is a set of
\* segments, and its size is unknown or the original's.
THEOREM TypeCorrect ==
  ASSUME "general" \notin Kinds
  PROVE  Spec => []TypeOK
<1> DEFINE Fact == there \in BOOLEAN
<1>1. Init => Fact
  BY DEF Init
<1>2. Fact /\ [Next]_vars => Fact'
  <2>1. SUFFICES ASSUME there \in BOOLEAN, [Next]_vars PROVE there' \in BOOLEAN
    OBVIOUS
  <2>2. ASSUME NEW p \in Workers, Cache(p) \/ ReadHeader(p) PROVE there' = there
    BY <2>2 DEF Cache, Lock, FileAbsent, FileUnmapped, FileSized, FileUnsized,
                ReadHeader, HeaderUnsized, HeaderSized
  <2>3. ASSUME NEW p \in Workers, ReadBodyPart(p) PROVE there' \in {there, TRUE}
    BY <2>3 DEF ReadBodyPart, Receive, Overflow, Write, WriteEnd, Drain, SubUpdate,
                OpenHit, Serve
  <2>4. ASSUME NEW p \in Workers, Update(p) \/ Leave(p) \/ Crash(p) PROVE there' = there
    BY <2>4 DEF Update, Leave, Crash
  <2>5. ASSUME CleanFile \/ CleanRow PROVE there' \in {there, FALSE}
    BY <2>5 DEF CleanFile, CleanRow
  <2>6. ASSUME RefusedHeader PROVE there' = there
    BY <2>6 DEF RefusedHeader
  <2>7. QED  BY <2>1, <2>2, <2>3, <2>4, <2>5, <2>6 DEF Next, vars
<1>3. MapInv /\ Fact => TypeOK
  <2>1. SUFFICES ASSUME MapInv, there \in BOOLEAN PROVE TypeOK
    OBVIOUS
  <2>2. \A p \in Workers : t[p].phase \in Phases /\ t[p].lranges \in SUBSET Segs
    BY <2>1 DEF MapInv, Children, Fields
  <2>3. kind \in Kinds /\ RowOK(row)
    BY <2>1 DEF MapInv
  <2>4. QED  BY <2>1, <2>2, <2>3 DEF TypeOK, RowOK, SegmentSet, Segs
<1> HIDE DEF Fact
<1>4. QED  BY <1>1, <1>2, <1>3, OneChildAndItsMap, PTL DEF Spec

\* The bytes that the row's map names are in the cache file, where it says,
\* after every step: the map is saved behind the bytes it speaks of.
THEOREM MapIsOnDisk ==
  ASSUME "general" \notin Kinds
  PROVE  Spec => []MapOnDisk
<1>1. MapInv => MapOnDisk
  BY DEF MapInv, MapOnDisk, OnDisk, On
<1>2. QED  BY <1>1, OneChildAndItsMap, PTL

\* No byte of the original and no place in the cache file is in two segments
\* of the row's map.
THEOREM MapHasNoOverlap ==
  ASSUME "general" \notin Kinds
  PROVE  Spec => []MapDisjoint
<1>1. MapInv => MapDisjoint
  <2>1. SUFFICES ASSUME MapInv, NEW s \in row.map, NEW u \in row.map, s # u
                 PROVE  /\ Bytes(s) \cap Bytes(u) = {}
                        /\ DiskEnd(s) <= u.position \/ DiskEnd(u) <= s.position
    BY DEF MapDisjoint
  <2>2. Placed(row.map)
    BY <2>1 DEF MapInv, RowOK
  <2>3. /\ Clear(s, u) /\ s \in Segs /\ u \in Segs
        /\ DiskEnd(s) <= u.position \/ DiskEnd(u) <= s.position
    BY <2>1, <2>2 DEF Placed
  <2>4. Bytes(s) \cap Bytes(u) = {}
    BY <2>3 DEF Clear, Bytes, Segs
  <2>5. QED  BY <2>3, <2>4
<1>2. QED  BY <1>1, OneChildAndItsMap, PTL

\* Every block that a child will read for its client, of a HIT or of the rest
\* of a MISS, is in the cache file at the place it reads.
THEOREM ServedBytesAreRight ==
  ASSUME "general" \notin Kinds
  PROVE  Spec => []ServesRight
<1>1. MapInv => ServesRight
  <2>1. SUFFICES ASSUME MapInv, NEW p \in Workers, t[p].phase \in {"hit", "tail"},
                        NEW w \in t[p].work, w.a >= t[p].off
                 PROVE  OnDisk(w)
    BY DEF ServesRight
  <2>2. Sound(t[p], row.map, disk) /\ Known(t[p], row.map, disk)
    BY <2>1, AtWork DEF Transfer
  <2>3. w.position # Missing
    BY <2>1, <2>2 DEF Sound
  <2>4. On(disk, w)
    BY <2>2, <2>3 DEF Known
  <2>5. QED  BY <2>4 DEF On, OnDisk
<1>2. QED  BY <1>1, OneChildAndItsMap, PTL

\* The row's map with the part of the current block that is saved.
LEMMA SavedGrows ==
  ASSUME MapInv, NEW p \in Workers, t[p].phase \in Transfer, t[p].bwrite, ~AtEnd(t[p]),
         acumulate(t[p]) > 0
  PROVE  Covered(row.map)
           \subseteq Covered(appendNode(t[p].lranges, [t[p].blk EXCEPT !.b = t[p].off - 1]))
<1> DEFINE r == t[p]
           n == [r.blk EXCEPT !.b = r.off - 1]
<1>1. r \in Fields /\ Known(r, row.map, disk) /\ Sound(r, row.map, disk) /\ Placed(r.lranges)
  BY AtWork
<1>2. Current(r, disk) /\ Fits(r.lranges, r.blk)
  BY <1>1 DEF Sound, Current
<1>3. r.blk.a + 1 <= r.off /\ r.off <= r.blk.b + 1 /\ r.off \in Nat
  BY <1>1, <1>2 DEF Current, Segs, Fields, acumulate
<1>4. Fits(r.lranges, n)
  BY <1>1, <1>2, <1>3, PartFits
<1>5. Covered(r.lranges) \subseteq Covered(appendNode(r.lranges, n))
  BY <1>1, <1>4, AppendCovers
<1>6. QED  BY <1>1, <1>5 DEF Known

\* Whatever a child was told of the file, the map it saves has every byte that
\* the row's had: only a cleaner, or the loss of the file, takes some away.
THEOREM MapOnlyGrows ==
  ASSUME "general" \notin Kinds
  PROVE  Spec => MapGrows
<1> DEFINE grows == there /\ there' /\ row.there /\ row'.there
                      => Covered(row.map) \subseteq Covered(row'.map)
<1>1. ASSUME MapInv, Next PROVE grows
  <2>1. SUFFICES ASSUME there, there', row.there, row'.there, row'.map # row.map
                 PROVE  Covered(row.map) \subseteq Covered(row'.map)
    OBVIOUS
  <2>2. ASSUME NEW p \in Workers, SubUpdate(p)
        PROVE  Covered(row.map) \subseteq Covered(row'.map)
    <3> DEFINE r == t[p]
    <3>1. /\ r.phase \in Transfer /\ r.bwrite /\ acumulate(r) > 0
          /\ SaveMap(appendSubNode(r.lranges, r.blk, acumulate(r)))
      BY <2>2 DEF SubUpdate, Transfer
    <3>2. ~AtEnd(r) /\ r \in Fields
      BY <1>1, <3>1, AtWork DEF ChildOK
    <3>3. r.blk.a + acumulate(r) - 1 = r.off - 1
      BY <3>2 DEF Fields, Segs, acumulate, AtEnd
    <3>4. row'.map = row.map
            \/ row'.map = appendNode(r.lranges, [r.blk EXCEPT !.b = r.off - 1])
      BY <1>1, <3>1, <3>3 DEF SaveMap, appendSubNode, MapInv, RowOK
    <3>5. QED  BY <1>1, <2>1, <3>1, <3>2, <3>4, SavedGrows
  <2>3. ASSUME NEW p \in Workers, Update(p)
        PROVE  Covered(row.map) \subseteq Covered(row'.map)
    <3> DEFINE r == t[p]
               part == r.bwrite /\ ~AtEnd(r) /\ acumulate(r) > 0
               S == IF part THEN appendNode(r.lranges, [r.blk EXCEPT !.b = r.off - 1])
                    ELSE r.lranges
    <3>1. r.phase \in Transfer /\ SaveMap(S)
      BY <2>3 DEF Update, Transfer
    <3>2. row'.map = row.map \/ row'.map = S
      BY <1>1, <3>1 DEF SaveMap, MapInv, RowOK
    <3>3. Covered(row.map) \subseteq Covered(r.lranges)
      BY <1>1, <3>1, AtWork DEF Known
    <3>4. QED  BY <1>1, <2>1, <3>1, <3>2, <3>3, SavedGrows
  <2>4. ASSUME NEW p \in Workers, FileSized(p) \/ HeaderUnsized(p)
        PROVE  row'.map = row.map
    BY <1>1, <2>4 DEF FileSized, HeaderUnsized, SaveSize, MapInv, RowOK
  <2>5. ASSUME NEW p \in Workers, Cache(p) PROVE row'.map = row.map
    BY <2>1, <2>4, <2>5 DEF Cache, Lock, FileAbsent, FileUnmapped, FileUnsized
  <2>6. ASSUME NEW p \in Workers, ReadHeader(p) PROVE row'.map = row.map
    BY <2>4, <2>6 DEF ReadHeader, HeaderSized
  <2>7. ASSUME NEW p \in Workers, ReadBodyPart(p), ~SubUpdate(p) PROVE row' = row
    BY <2>7 DEF ReadBodyPart, Receive, Overflow, Write, WriteEnd, Drain, OpenHit, Serve
  <2>8. ASSUME NEW p \in Workers, Leave(p) \/ Crash(p) PROVE row' = row
    BY <2>8 DEF Leave, Crash
  <2>9. ASSUME CleanFile \/ CleanRow PROVE row' = row \/ ~row'.there
    BY <2>9 DEF CleanFile, CleanRow, NoRow
  <2>10. ASSUME RefusedHeader PROVE row'.map = row.map
    BY <1>1, <2>10 DEF RefusedHeader, SaveSize, MapInv, RowOK
  <2>11. QED  BY <1>1, <2>1, <2>2, <2>3, <2>5, <2>6, <2>7, <2>8, <2>9, <2>10 DEF Next
<1>2. MapInv /\ [Next]_vars => [grows]_vars
  BY <1>1
<1>3. QED  BY <1>2, OneChildAndItsMap, PTL DEF Spec, MapGrows
=============================================================================
