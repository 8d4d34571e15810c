--------------------------- MODULE Segments_proofs ---------------------------
(***************************************************************************)
(* Maps that have every byte at one place, whatever was downloaded in      *)
(* whatever order: what getPointEnd() says of them, what appendNode()      *)
(* makes of them, and that getRangeWork() takes a request apart without a  *)
(* hole and without an overlap.                                            *)
(***************************************************************************)
EXTENDS Segments, WellFoundedInduction, TLAPS

(***************************************************************************)
(* Sets of numbers have a least member, and bounded ones have a greatest.  *)
(* What the CHOOSEs of Segments mean rests on it.                          *)
(***************************************************************************)

LEMMA LeastNat ==
  ASSUME NEW T \in SUBSET Nat, T # {}
  PROVE  \E m \in T : \A n \in T : m <= n
<1>1. PICK m \in T : \A n \in T : ~ (<<n, m>> \in OpToRel(<, Nat))
  BY WFMin, NatLessThanWellFounded
<1>2. ASSUME NEW n \in T PROVE m <= n
  <2>1. n \in Nat /\ m \in Nat
    OBVIOUS
  <2>2. ~ (n < m)
    BY <1>1, <2>1 DEF OpToRel
  <2>3. QED  BY <2>1, <2>2
<1>3. QED  BY <1>2

LEMMA GreatestNat ==
  ASSUME NEW T \in SUBSET Nat, T # {}, NEW bound \in Nat, \A n \in T : n <= bound
  PROVE  \E m \in T : \A n \in T : n <= m
<1> DEFINE Gaps == {bound - n : n \in T}
<1>1. Gaps \in SUBSET Nat /\ Gaps # {}
  <2>1. ASSUME NEW n \in T PROVE bound - n \in Nat
    <3>1. n \in Nat /\ n <= bound
      OBVIOUS
    <3>2. QED  BY <3>1
  <2>2. QED  BY <2>1
<1>2. PICK g \in Gaps : \A h \in Gaps : g <= h
  BY <1>1, LeastNat
<1>3. PICK m \in T : g = bound - m
  BY <1>2
<1>4. ASSUME NEW n \in T PROVE n <= m
  <2>1. bound - n \in Gaps
    OBVIOUS
  <2>2. g <= bound - n
    BY <1>2, <2>1
  <2>3. m \in Nat /\ n \in Nat
    OBVIOUS
  <2>4. QED  BY <1>3, <2>2, <2>3
<1>5. QED  BY <1>4

(***************************************************************************)
(* Maps.                                                                   *)
(***************************************************************************)

Segs == [a : Nat, b : Nat, position : Nat]

\* Two blocks without a common byte.
Clear(s, u) == s.b < u.a \/ u.b < s.a

\* A map as the program keeps it: whole segments, no byte of the original and
\* no place on the disk in two of them.
Placed(S) ==
  /\ S \subseteq Segs
  /\ \A s \in S : s.a <= s.b
  /\ \A s, u \in S : s # u => Clear(s, u)
  /\ \A s, u \in S : s # u => DiskEnd(s) <= u.position \/ DiskEnd(u) <= s.position
  /\ \E n \in Nat : \A s \in S : s.position <= n

LEMMA EmptyPlaced == Placed({})
BY DEF Placed

(***************************************************************************)
(* The end of the list.                                                    *)
(***************************************************************************)

LEMMA LastNode ==
  ASSUME NEW S, Placed(S), S # {}
  PROVE  getlastnode(S) \in S /\ \A s \in S : s.position <= getlastnode(S).position
<1> DEFINE Positions == {s.position : s \in S}
<1>1. Positions \in SUBSET Nat /\ Positions # {}
  BY DEF Placed, Segs
<1>2. PICK n \in Nat : \A x \in Positions : x <= n
  BY DEF Placed
<1>3. PICK m \in Positions : \A x \in Positions : x <= m
  BY <1>1, <1>2, GreatestNat
<1>4. \E s \in S : \A u \in S : u.position <= s.position
  BY <1>3
<1>5. QED  BY <1>4 DEF getlastnode

\* Nothing of a map lies behind its point end.
LEMMA PointEnd ==
  ASSUME NEW S, Placed(S)
  PROVE  getPointEnd(S) \in Nat /\ \A s \in S : DiskEnd(s) <= getPointEnd(S)
<1>1. CASE S = {}
  BY <1>1 DEF getPointEnd
<1>2. CASE S # {}
  <2>1. PICK last \in S : last = getlastnode(S) /\ \A s \in S : s.position <= last.position
    BY <1>2, LastNode
  <2>2. getPointEnd(S) = DiskEnd(last)
    BY <1>2, <2>1 DEF getPointEnd
  <2>3. ASSUME NEW s \in S PROVE s \in Segs /\ s.a <= s.b
    BY DEF Placed
  <2>4. DiskEnd(last) \in Nat
    BY <2>3 DEF DiskEnd, Length, Segs
  <2>5. ASSUME NEW s \in S PROVE DiskEnd(s) <= DiskEnd(last)
    <3>1. CASE s = last
      BY <3>1, <2>4
    <3>2. CASE s # last
      <4>1. DiskEnd(s) <= last.position \/ DiskEnd(last) <= s.position
        BY <3>2 DEF Placed
      <4>2. s.position <= last.position
        BY <2>1
      <4>3. QED  BY <2>3, <4>1, <4>2 DEF DiskEnd, Length, Segs
    <3>3. QED  BY <3>1, <3>2
  <2>6. QED  BY <2>2, <2>4, <2>5
<1>3. QED  BY <1>1, <1>2

(***************************************************************************)
(* A new block.                                                            *)
(***************************************************************************)

\* A block that was downloaded: behind the point end, and of bytes that the
\* map lacks.
Fits(S, n) ==
  /\ n \in Segs /\ n.a <= n.b
  /\ n.position = getPointEnd(S)
  /\ \A s \in S : Clear(s, n)

\* The last node with a block that continues it.
Grown(last, n) == [last EXCEPT !.b = n.b]

\* The two outcomes of appendNode().
LEMMA AppendNode ==
  ASSUME NEW S, Placed(S), NEW n, Fits(S, n)
  PROVE  \/ /\ appendNode(S, n) = S \cup {n}
            /\ \A s \in S : DiskEnd(s) <= n.position
         \/ \E last \in S :
              /\ appendNode(S, n) = (S \ {last}) \cup {Grown(last, n)}
              /\ last.b + 1 = n.a
              /\ \A s \in S : s.position <= last.position
              /\ DiskEnd(last) = n.position
<1>1. \A s \in S : DiskEnd(s) <= n.position
  BY PointEnd DEF Fits
<1>2. CASE S = {} \/ getlastnode(S).b + 1 # n.a
  BY <1>1, <1>2 DEF appendNode
<1>3. CASE S # {} /\ getlastnode(S).b + 1 = n.a
  <2>1. PICK last \in S : last = getlastnode(S) /\ \A s \in S : s.position <= last.position
    BY <1>3, LastNode
  <2>2. DiskEnd(last) = n.position
    BY <1>3, <2>1 DEF Fits, getPointEnd
  <2>3. appendNode(S, n) = (S \ {last}) \cup {Grown(last, n)}
    BY <1>3, <2>1 DEF appendNode, Grown
  <2>4. last.b + 1 = n.a
    BY <1>3, <2>1
  <2>5. QED  BY <2>1, <2>2, <2>3, <2>4
<1>4. QED  BY <1>2, <1>3

\* The grown node as a record.
LEMMA GrownNode ==
  ASSUME NEW last \in Segs, NEW n \in Segs, last.b + 1 = n.a, DiskEnd(last) = n.position
  PROVE  /\ Grown(last, n) \in Segs
         /\ Grown(last, n).a = last.a /\ Grown(last, n).b = n.b
         /\ Grown(last, n).position = last.position
         /\ DiskEnd(Grown(last, n)) = DiskEnd(n)
BY DEF Grown, DiskEnd, Length, Segs

\* Two nodes of the new map that lie apart, in the file and on the disk.
Apart(s, u) ==
  Clear(s, u) /\ (DiskEnd(s) <= u.position \/ DiskEnd(u) <= s.position)

LEMMA PlacedApart ==
  ASSUME NEW S, S \subseteq Segs, \A s \in S : s.a <= s.b,
         \A s, u \in S : s # u => Apart(s, u),
         \E n \in Nat : \A s \in S : s.position <= n
  PROVE  Placed(S)
BY DEF Placed, Apart

LEMMA AppendPlaced ==
  ASSUME NEW S, Placed(S), NEW n, Fits(S, n)
  PROVE  Placed(appendNode(S, n))
<1> USE DEF Segs
<1>1. n \in Segs /\ n.a <= n.b /\ \A s \in S : Clear(s, n)
  BY DEF Fits
<1>2. PICK bound \in Nat : \A s \in S : s.position <= bound
  BY DEF Placed
<1>3. \A s \in S : s \in Segs /\ s.a <= s.b
  BY DEF Placed
<1>4. \A s, u \in S : s # u => Apart(s, u)
  BY DEF Placed, Apart
<1>5. CASE appendNode(S, n) = S \cup {n} /\ \A s \in S : DiskEnd(s) <= n.position
  <2> DEFINE T == S \cup {n}
  <2>1. T \subseteq Segs /\ \A s \in T : s.a <= s.b
    BY <1>1, <1>3
  <2>2. ASSUME NEW s \in S PROVE Apart(s, n) /\ Apart(n, s)
    BY <1>1, <1>5 DEF Apart, Clear
  <2>3. \A s, u \in T : s # u => Apart(s, u)
    BY <1>4, <2>2
  <2>4. \A s \in T : s.position <= bound + n.position
    BY <1>1, <1>2, <1>3
  <2>5. bound + n.position \in Nat
    BY <1>1
  <2>6. Placed(T)
    BY <2>1, <2>3, <2>4, <2>5, PlacedApart
  <2>7. QED  BY <1>5, <2>6
<1>6. CASE \E last \in S :
             /\ appendNode(S, n) = (S \ {last}) \cup {Grown(last, n)}
             /\ last.b + 1 = n.a
             /\ \A s \in S : s.position <= last.position
             /\ DiskEnd(last) = n.position
  <2>1. PICK last \in S : /\ appendNode(S, n) = (S \ {last}) \cup {Grown(last, n)}
                          /\ last.b + 1 = n.a
                          /\ \A s \in S : s.position <= last.position
                          /\ DiskEnd(last) = n.position
    BY <1>6
  <2>2. PICK g \in Segs : /\ g = Grown(last, n)
                          /\ g.a = last.a /\ g.b = n.b /\ g.position = last.position
                          /\ DiskEnd(g) = DiskEnd(n)
    BY <1>1, <1>3, <2>1, GrownNode
  <2> DEFINE T == (S \ {last}) \cup {g}
  <2>3. T \subseteq Segs /\ \A s \in T : s.a <= s.b
    <3>1. g.a <= g.b
      BY <1>1, <1>3, <2>1, <2>2
    <3>2. QED  BY <1>3, <3>1
  <2>4. ASSUME NEW s \in S \ {last} PROVE Apart(s, g) /\ Apart(g, s)
    <3>1. s \in Segs /\ s.a <= s.b /\ last \in Segs /\ last.a <= last.b
      BY <1>3
    <3>2. Clear(s, last) /\ (DiskEnd(s) <= last.position \/ DiskEnd(last) <= s.position)
      BY <1>4 DEF Apart
    <3>3. Clear(s, n)
      BY <1>1
    <3>4. s.b < g.a \/ g.b < s.a
      BY <1>1, <2>1, <2>2, <3>1, <3>2, <3>3 DEF Clear
    <3>5. s.position <= last.position
      BY <2>1
    <3>6. DiskEnd(s) <= last.position
      BY <3>1, <3>2, <3>5 DEF DiskEnd, Length
    <3>7. QED  BY <2>2, <3>4, <3>6 DEF Apart, Clear
  <2>5. \A s, u \in T : s # u => Apart(s, u)
    BY <1>4, <2>4
  <2>6. \A s \in T : s.position <= bound
    BY <1>2, <2>2
  <2>7. Placed(T)
    BY <2>3, <2>5, <2>6, PlacedApart
  <2>8. QED  BY <2>1, <2>2, <2>7
<1>7. QED  BY <1>5, <1>6, AppendNode

\* The next block goes behind the one appended.
LEMMA AppendPointEnd ==
  ASSUME NEW S, Placed(S), NEW n, Fits(S, n)
  PROVE  getPointEnd(appendNode(S, n)) = DiskEnd(n)
<1> USE DEF Segs
<1> DEFINE T == appendNode(S, n)
<1>1. n \in Segs /\ n.a <= n.b
  BY DEF Fits
<1>2. \A s \in S : s \in Segs /\ s.a <= s.b
  BY DEF Placed
<1>3. Placed(T)
  BY AppendPlaced
<1>4. CASE T = S \cup {n} /\ \A s \in S : DiskEnd(s) <= n.position
  <2>1. PICK last \in T : last = getlastnode(T) /\ \A s \in T : s.position <= last.position
    BY <1>3, <1>4, LastNode
  <2>2. n.position <= last.position
    BY <1>4, <2>1
  <2>3. last = n
    <3>1. SUFFICES ASSUME last \in S PROVE FALSE
      BY <1>4
    <3>2. DiskEnd(last) <= n.position
      BY <1>4, <3>1
    <3>3. QED  BY <1>1, <1>2, <2>2, <3>1, <3>2 DEF DiskEnd, Length
  <2>4. QED  BY <1>4, <2>1, <2>3 DEF getPointEnd
<1>5. CASE \E last \in S :
             /\ T = (S \ {last}) \cup {Grown(last, n)}
             /\ last.b + 1 = n.a
             /\ \A s \in S : s.position <= last.position
             /\ DiskEnd(last) = n.position
  <2>1. PICK last \in S : /\ T = (S \ {last}) \cup {Grown(last, n)}
                          /\ last.b + 1 = n.a
                          /\ \A s \in S : s.position <= last.position
                          /\ DiskEnd(last) = n.position
    BY <1>5
  <2>2. PICK g \in Segs : /\ g = Grown(last, n)
                          /\ g.position = last.position
                          /\ DiskEnd(g) = DiskEnd(n)
    BY <1>1, <1>2, <2>1, GrownNode
  <2>3. PICK end \in T : end = getlastnode(T) /\ \A s \in T : s.position <= end.position
    BY <1>3, <2>1, LastNode
  <2>4. g.position <= end.position
    BY <2>1, <2>2, <2>3
  <2>5. end = g
    <3>1. SUFFICES ASSUME end \in S, end # last PROVE FALSE
      BY <2>1, <2>2
    <3>2. DiskEnd(end) <= last.position \/ DiskEnd(last) <= end.position
      BY <3>1 DEF Placed
    <3>3. end.position <= last.position
      BY <2>1, <3>1
    <3>4. end \in Segs /\ end.a <= end.b /\ last \in Segs /\ last.a <= last.b
      BY <1>2, <3>1
    <3>5. QED  BY <2>2, <2>4, <3>2, <3>3, <3>4 DEF DiskEnd, Length
  <2>6. QED  BY <2>1, <2>2, <2>3, <2>5 DEF getPointEnd
<1>6. QED  BY <1>4, <1>5, AppendNode

\* Nothing is lost from the map.
LEMMA AppendCovers ==
  ASSUME NEW S, Placed(S), NEW n, Fits(S, n)
  PROVE  Covered(S) \subseteq Covered(appendNode(S, n))
<1> USE DEF Segs
<1>1. n \in Segs /\ n.a <= n.b
  BY DEF Fits
<1>2. \A s \in S : s \in Segs /\ s.a <= s.b
  BY DEF Placed
<1>3. CASE appendNode(S, n) = S \cup {n}
  BY <1>3 DEF Covered
<1>4. CASE \E last \in S :
             /\ appendNode(S, n) = (S \ {last}) \cup {Grown(last, n)}
             /\ last.b + 1 = n.a
             /\ DiskEnd(last) = n.position
  <2>1. PICK last \in S : /\ appendNode(S, n) = (S \ {last}) \cup {Grown(last, n)}
                          /\ last.b + 1 = n.a
                          /\ DiskEnd(last) = n.position
    BY <1>4
  <2>2. Grown(last, n).a = last.a /\ Grown(last, n).b = n.b
    BY <1>1, <1>2, <2>1, GrownNode
  <2>3. Bytes(last) \subseteq Bytes(Grown(last, n))
    BY <1>1, <1>2, <2>1, <2>2 DEF Bytes
  <2>4. QED  BY <2>1, <2>3 DEF Covered
<1>5. QED  BY <1>3, <1>4, AppendNode

\* A block that lies clear of a map and of what is appended to it lies clear
\* of the result.
LEMMA AppendClear ==
  ASSUME NEW S, Placed(S), NEW n, Fits(S, n), NEW w,
         w.a \in Nat, w.b \in Nat, w.a <= w.b,
         \A s \in S : Clear(s, w), n.b < w.a
  PROVE  \A s \in appendNode(S, n) : Clear(s, w)
<1> USE DEF Segs
<1>1. n \in Segs /\ n.a <= n.b
  BY DEF Fits
<1>2. \A s \in S : s \in Segs /\ s.a <= s.b
  BY DEF Placed
<1>3. CASE appendNode(S, n) = S \cup {n}
  BY <1>3 DEF Clear
<1>4. CASE \E last \in S :
             /\ appendNode(S, n) = (S \ {last}) \cup {Grown(last, n)}
             /\ last.b + 1 = n.a
             /\ DiskEnd(last) = n.position
  <2>1. PICK last \in S : /\ appendNode(S, n) = (S \ {last}) \cup {Grown(last, n)}
                          /\ last.b + 1 = n.a
                          /\ DiskEnd(last) = n.position
    BY <1>4
  <2>2. Grown(last, n).b = n.b
    BY <1>1, <1>2, <2>1, GrownNode
  <2>3. QED  BY <2>1, <2>2 DEF Clear
<1>5. QED  BY <1>3, <1>4, AppendNode

\* The block as the map will have it, when its bytes up to the offset x are in.
LEMMA PartFits ==
  ASSUME NEW S, Placed(S), NEW blk, Fits(S, blk), NEW x \in Nat, blk.a + 1 <= x, x <= blk.b + 1
  PROVE  /\ [blk EXCEPT !.b = x - 1] \in Segs
         /\ [blk EXCEPT !.b = x - 1].b = x - 1
         /\ DiskEnd([blk EXCEPT !.b = x - 1]) = blk.position + x - blk.a
         /\ Fits(S, [blk EXCEPT !.b = x - 1])
<1> USE DEF Segs
<1>1. blk \in Segs /\ blk.a <= blk.b /\ \A s \in S : Clear(s, blk)
  BY DEF Fits
<1>2. PICK n \in Segs : /\ n = [blk EXCEPT !.b = x - 1]
                        /\ n.a = blk.a /\ n.b = x - 1 /\ n.position = blk.position
  <2>1. x - 1 \in Nat
    BY <1>1
  <2>2. /\ [blk EXCEPT !.b = x - 1] \in Segs
        /\ [blk EXCEPT !.b = x - 1].a = blk.a /\ [blk EXCEPT !.b = x - 1].b = x - 1
        /\ [blk EXCEPT !.b = x - 1].position = blk.position
    BY <1>1, <2>1
  <2>3. QED  BY <2>2
<1>3. \A s \in S : Clear(s, n)
  <2>1. ASSUME NEW s \in S PROVE Clear(s, n)
    <3>1. s.b < blk.a \/ blk.b < s.a
      BY <1>1 DEF Clear
    <3>2. CASE s.b < blk.a
      BY <1>2, <3>2 DEF Clear
    <3>3. CASE blk.b < s.a
      <4>1. s.a \in Nat
        BY DEF Placed
      <4>2. QED  BY <1>1, <1>2, <3>3, <4>1 DEF Clear
    <3>4. QED  BY <3>1, <3>2, <3>3
  <2>2. QED  BY <2>1
<1>4. QED  BY <1>1, <1>2, <1>3 DEF Fits, DiskEnd, Length

(***************************************************************************)
(* The gaps of a request.                                                  *)
(***************************************************************************)

\* x .. y is a gap: a longest run of numbers in a set.
Gap(free, x, y) ==
  /\ x <= y /\ x .. y \subseteq free
  /\ x - 1 \notin free /\ y + 1 \notin free

LEMMA GapEnd ==
  ASSUME NEW free \in SUBSET Nat, NEW hi \in Nat, \A x \in free : x <= hi,
         NEW x \in free
  PROVE  \E y \in free : x <= y /\ x .. y \subseteq free /\ y + 1 \notin free
<1> DEFINE Runs == {y \in free : x <= y /\ x .. y \subseteq free}
<1>1. x \in Nat
  OBVIOUS
<1>2. x \in Runs
  BY <1>1
<1>3. PICK y \in Runs : \A z \in Runs : z <= y
  <2>1. Runs \in SUBSET Nat /\ Runs # {} /\ \A z \in Runs : z <= hi
    BY <1>2
  <2>2. QED  BY <2>1, GreatestNat
<1>4. y \in free /\ y \in Nat /\ x <= y /\ x .. y \subseteq free
  BY <1>3
<1>5. ASSUME y + 1 \in free PROVE FALSE
  <2>1. x .. y + 1 \subseteq free
    <3>1. ASSUME NEW z \in x .. y + 1 PROVE z \in x .. y \/ z = y + 1
      BY <1>1, <1>4
    <3>2. QED  BY <1>4, <1>5, <3>1
  <2>2. y + 1 \in Runs
    BY <1>1, <1>4, <1>5, <2>1
  <2>3. y + 1 <= y
    BY <1>3, <2>2
  <2>4. QED  BY <1>4, <2>3
<1>6. QED  BY <1>4, <1>5

LEMMA GapStart ==
  ASSUME NEW free \in SUBSET Nat, NEW x \in free
  PROVE  \E y \in free : y <= x /\ y .. x \subseteq free /\ y - 1 \notin free
<1> DEFINE Runs == {y \in free : y <= x /\ y .. x \subseteq free}
<1>1. x \in Nat
  OBVIOUS
<1>2. x \in Runs
  BY <1>1
<1>3. PICK y \in Runs : \A z \in Runs : y <= z
  <2>1. Runs \in SUBSET Nat /\ Runs # {}
    BY <1>2
  <2>2. QED  BY <2>1, LeastNat
<1>4. y \in free /\ y \in Nat /\ y <= x /\ y .. x \subseteq free
  BY <1>3
<1>5. ASSUME y - 1 \in free PROVE FALSE
  <2>1. y - 1 \in Nat
    BY <1>5
  <2>2. y - 1 .. x \subseteq free
    <3>1. ASSUME NEW z \in y - 1 .. x PROVE z \in y .. x \/ z = y - 1
      BY <1>1, <1>4
    <3>2. QED  BY <1>4, <1>5, <3>1
  <2>3. y - 1 \in Runs
    BY <1>1, <1>4, <1>5, <2>1, <2>2
  <2>4. y <= y - 1
    BY <1>3, <2>3
  <2>5. QED  BY <1>4, <2>4
<1>6. QED  BY <1>4, <1>5

\* A gap is known by its start.
LEMMA GapUnique ==
  ASSUME NEW free \in SUBSET Nat, NEW x \in Nat, NEW y \in Nat, NEW z \in Nat,
         Gap(free, x, y), x <= z, x .. z \subseteq free, z + 1 \notin free
  PROVE  z = y
<1>1. y < z => y + 1 \in x .. z
  BY DEF Gap
<1>2. z < y => z + 1 \in x .. y
  BY DEF Gap
<1>3. QED  BY <1>1, <1>2 DEF Gap

Free(S, lo, hi) == (lo .. hi) \ Covered(S)

LEMMA FreeBounds ==
  ASSUME NEW S, NEW lo \in Nat, NEW hi \in Nat
  PROVE  /\ Free(S, lo, hi) \in SUBSET Nat
         /\ \A x \in Free(S, lo, hi) : lo <= x /\ x <= hi
BY DEF Free

\* Every missing block is a gap, and every gap a missing block.
LEMMA MissIsGap ==
  ASSUME NEW S, NEW lo \in Nat, NEW hi \in Nat, NEW m \in MissBlocks(S, lo, hi)
  PROVE  \E x, y \in Free(S, lo, hi) :
           m = Segment(x, y, Missing) /\ Gap(Free(S, lo, hi), x, y)
<1> DEFINE free == Free(S, lo, hi)
           first == {x \in free : x - 1 \notin free}
           last == {x \in free : x + 1 \notin free}
<1>1. PICK x \in first :
        m = Segment(x, CHOOSE y \in last : y >= x /\ x .. y \subseteq free, Missing)
  BY DEF MissBlocks, Free
<1>2. free \in SUBSET Nat /\ \A z \in free : lo <= z /\ z <= hi
  BY FreeBounds
<1>3. \E y \in free : x <= y /\ x .. y \subseteq free /\ y + 1 \notin free
  BY <1>2, GapEnd
<1>4. \E y \in last : y >= x /\ x .. y \subseteq free
  BY <1>2, <1>3
<1>5. PICK y : y = CHOOSE v \in last : v >= x /\ x .. v \subseteq free
  OBVIOUS
<1>6. y \in last /\ y >= x /\ x .. y \subseteq free
  BY <1>4, <1>5
<1>7. m = Segment(x, y, Missing)
  BY <1>1, <1>5
<1>8. x <= y
  BY <1>2, <1>6
<1>9. QED  BY <1>6, <1>7, <1>8 DEF Gap

LEMMA GapIsMiss ==
  ASSUME NEW S, NEW lo \in Nat, NEW hi \in Nat,
         NEW x \in Nat, NEW y \in Nat, Gap(Free(S, lo, hi), x, y)
  PROVE  Segment(x, y, Missing) \in MissBlocks(S, lo, hi)
<1> DEFINE free == Free(S, lo, hi)
           first == {z \in free : z - 1 \notin free}
           last == {z \in free : z + 1 \notin free}
<1>1. free \in SUBSET Nat
  BY FreeBounds
<1>2. x \in x .. y /\ y \in x .. y
  BY DEF Gap
<1>3. x \in first /\ y \in last
  BY <1>2 DEF Gap
<1>4. PICK z : z = CHOOSE v \in last : v >= x /\ x .. v \subseteq free
  OBVIOUS
<1>5. y >= x /\ x .. y \subseteq free
  BY DEF Gap
<1>6. z \in last /\ z >= x /\ x .. z \subseteq free
  BY <1>3, <1>4, <1>5
<1>7. z \in Nat /\ z + 1 \notin free /\ x <= z
  BY <1>1, <1>6
<1>8. z = y
  BY <1>1, <1>6, <1>7, GapUnique
<1>9. Segment(x, z, Missing) \in MissBlocks(S, lo, hi)
  BY <1>3, <1>4 DEF MissBlocks, Free
<1>10. QED  BY <1>8, <1>9

(***************************************************************************)
(* The work of a request.                                                  *)
(***************************************************************************)

Blocks == [a : Nat, b : Nat, position : Nat \cup {Missing}]

\* The blocks follow one another from lo on, without a hole and without an
\* overlap.
Chain(work, lo) ==
  /\ work \subseteq Blocks
  /\ \A w \in work : lo <= w.a /\ w.a <= w.b
  /\ \A w \in work : w.a = lo \/ \E v \in work : v.b + 1 = w.a
  /\ \A v, w \in work : v = w \/ Clear(v, w)

\* A block that is a part of a segment, at the segment's place.
Inside(w, s) ==
  s.a <= w.a /\ w.b <= s.b /\ w.position = s.position + w.a - s.a

\* The part of a segment that a request has.
Hit(s, lo, hi) ==
  Segment(Larger(lo, s.a), Smaller(hi, s.b), s.position + Larger(lo, s.a) - s.a)

LEMMA HitInside ==
  ASSUME NEW s \in Segs, s.a <= s.b, NEW lo \in Nat, NEW hi \in Nat, lo <= hi,
         lo <= s.b, s.a <= hi
  PROVE  /\ Hit(s, lo, hi) \in Segs
         /\ Inside(Hit(s, lo, hi), s)
         /\ lo <= Hit(s, lo, hi).a /\ Hit(s, lo, hi).a <= Hit(s, lo, hi).b
         /\ Hit(s, lo, hi).b <= hi
         /\ Hit(s, lo, hi).a = lo \/ Hit(s, lo, hi).a = s.a
         /\ s.b <= hi => Hit(s, lo, hi).b = s.b
BY DEF Hit, Inside, Segment, Larger, Smaller, Segs

LEMMA HitIsHit ==
  ASSUME NEW S, NEW lo, NEW hi
  PROVE  HitBlocks(S, lo, hi)
           = {Hit(s, lo, hi) : s \in {u \in S : u.b >= lo /\ u.a <= hi}}
BY DEF HitBlocks, Hit

\* A segment of which the request has a part gives a hit, and every hit comes
\* from one.
LEMMA HitsOf ==
  ASSUME NEW S, Placed(S), NEW lo \in Nat, NEW hi \in Nat, lo <= hi
  PROVE  /\ \A h \in HitBlocks(S, lo, hi) :
              \E s \in S : h = Hit(s, lo, hi) /\ lo <= s.b /\ s.a <= hi
         /\ \A s \in S : lo <= s.b /\ s.a <= hi => Hit(s, lo, hi) \in HitBlocks(S, lo, hi)
<1>1. \A s \in S : s.a \in Nat /\ s.b \in Nat
  BY DEF Placed, Segs
<1>2. \A s \in S : s.b >= lo <=> lo <= s.b
  BY <1>1
<1>3. QED  BY <1>2, HitIsHit

\* A gap is clear of every segment.
LEMMA GapClear ==
  ASSUME NEW S, Placed(S), NEW lo \in Nat, NEW hi \in Nat,
         NEW x \in Nat, NEW y \in Nat, Gap(Free(S, lo, hi), x, y),
         NEW s \in S
  PROVE  s.b < x \/ y < s.a
<1>1. s \in Segs /\ s.a <= s.b
  BY DEF Placed
<1>2. x <= y /\ \A z \in x .. y : z \notin Bytes(s)
  BY DEF Gap, Free, Covered
<1>3. x \notin Bytes(s)
  BY <1>2
<1>4. s.a <= y /\ x <= s.a => s.a \notin Bytes(s)
  BY <1>1, <1>2 DEF Segs
<1>5. QED  BY <1>1, <1>3, <1>4 DEF Bytes, Segs

\* The request taken apart, a last byte that getRangeWork() leaves out included.
Parts(S, lo, hi) == HitBlocks(S, lo, hi) \cup MissBlocks(S, lo, hi)

LEMMA WorkParts ==
  ASSUME NEW S, NEW lo, NEW hi
  PROVE  /\ getRangeWork(S, lo, hi) \subseteq Parts(S, lo, hi)
         /\ ~ TailLost(S, lo, hi) => getRangeWork(S, lo, hi) = Parts(S, lo, hi)
BY DEF getRangeWork, Parts

\* The parts, block by block.
LEMMA PartBlocks ==
  ASSUME NEW S, Placed(S), NEW lo \in Nat, NEW hi \in Nat, lo <= hi,
         NEW w \in Parts(S, lo, hi)
  PROVE  \/ /\ w \in Segs /\ lo <= w.a /\ w.a <= w.b /\ w.b <= hi
            /\ \E s \in S : /\ w = Hit(s, lo, hi) /\ lo <= s.b /\ s.a <= hi
                            /\ Inside(w, s) /\ (w.a = lo \/ w.a = s.a)
         \/ /\ w \in Blocks /\ lo <= w.a /\ w.a <= w.b /\ w.b <= hi
            /\ w.position = Missing
            /\ Gap(Free(S, lo, hi), w.a, w.b)
            /\ \A s \in S : Clear(s, w)
<1>1. CASE w \in HitBlocks(S, lo, hi)
  <2>1. PICK s \in S : w = Hit(s, lo, hi) /\ lo <= s.b /\ s.a <= hi
    BY <1>1, HitsOf
  <2>2. s \in Segs /\ s.a <= s.b
    BY DEF Placed
  <2>3. QED  BY <2>1, <2>2, HitInside
<1>2. CASE w \in MissBlocks(S, lo, hi)
  <2>1. PICK x, y \in Free(S, lo, hi) :
          w = Segment(x, y, Missing) /\ Gap(Free(S, lo, hi), x, y)
    BY <1>2, MissIsGap
  <2>2. x \in Nat /\ y \in Nat /\ lo <= x /\ y <= hi
    BY FreeBounds
  <2>3. w.a = x /\ w.b = y /\ w.position = Missing /\ w \in Blocks
    BY <2>1, <2>2 DEF Segment, Blocks
  <2>4. x <= y
    BY <2>1 DEF Gap
  <2>5. \A s \in S : Clear(s, w)
    BY <2>1, <2>2, <2>3, GapClear DEF Clear
  <2>6. QED  BY <2>1, <2>2, <2>3, <2>4, <2>5
<1>3. QED  BY <1>1, <1>2 DEF Parts

LEMMA WorkBlocks ==
  ASSUME NEW S, Placed(S), NEW lo \in Nat, NEW hi \in Nat, lo <= hi,
         NEW w \in getRangeWork(S, lo, hi)
  PROVE  \/ /\ w \in Segs /\ lo <= w.a /\ w.a <= w.b /\ w.b <= hi
            /\ \E s \in S : /\ w = Hit(s, lo, hi) /\ lo <= s.b /\ s.a <= hi
                            /\ Inside(w, s) /\ (w.a = lo \/ w.a = s.a)
         \/ /\ w \in Blocks /\ lo <= w.a /\ w.a <= w.b /\ w.b <= hi
            /\ w.position = Missing
            /\ Gap(Free(S, lo, hi), w.a, w.b)
            /\ \A s \in S : Clear(s, w)
BY PartBlocks, WorkParts

LEMMA GapsApart ==
  ASSUME NEW free \in SUBSET Nat, NEW v \in Blocks, NEW w \in Blocks,
         Gap(free, v.a, v.b), Gap(free, w.a, w.b),
         v.position = Missing, w.position = Missing
  PROVE  v = w \/ Clear(v, w)
<1> USE DEF Blocks
<1>1. v.a <= v.b /\ w.a <= w.b
  BY DEF Gap
<1>2. CASE v.a = w.a
  <2>1. w.a .. w.b \subseteq free /\ w.b + 1 \notin free
    BY DEF Gap
  <2>2. w.b = v.b
    BY <1>1, <1>2, <2>1, GapUnique
  <2>3. QED  BY <1>2, <2>2
<1>3. CASE v.a < w.a
  <2>1. w.a - 1 \notin v.a .. v.b
    BY DEF Gap
  <2>2. QED  BY <1>1, <1>3, <2>1 DEF Clear
<1>4. CASE w.a < v.a
  <2>1. v.a - 1 \notin w.a .. w.b
    BY DEF Gap
  <2>2. QED  BY <1>1, <1>4, <2>1 DEF Clear
<1>5. QED  BY <1>2, <1>3, <1>4

LEMMA WorkApart ==
  ASSUME NEW S, Placed(S), NEW lo \in Nat, NEW hi \in Nat, lo <= hi,
         NEW v \in getRangeWork(S, lo, hi), NEW w \in getRangeWork(S, lo, hi)
  PROVE  v = w \/ Clear(v, w)
<1> USE DEF Segs, Blocks
<1> DEFINE HitOf(x, s) == /\ x \in Segs /\ x.a <= x.b
                          /\ x = Hit(s, lo, hi) /\ Inside(x, s)
           MissOf(x) == /\ x \in Blocks /\ x.a <= x.b /\ x.position = Missing
                        /\ Gap(Free(S, lo, hi), x.a, x.b)
                        /\ \A s \in S : Clear(s, x)
<1>1. ASSUME NEW x \in getRangeWork(S, lo, hi)
      PROVE  (\E s \in S : HitOf(x, s)) \/ MissOf(x)
  BY WorkBlocks
<1>2. \A s \in S : s \in Segs /\ s.a <= s.b
  BY DEF Placed
<1>3. ASSUME NEW x, NEW y, NEW s \in S, HitOf(x, s), MissOf(y) PROVE Clear(x, y) /\ Clear(y, x)
  <2>1. Clear(s, y)
    BY <1>3
  <2>2. QED  BY <1>2, <1>3, <2>1 DEF Clear, Inside
<1>4. ASSUME NEW x, NEW y, NEW s \in S, NEW u \in S, HitOf(x, s), HitOf(y, u)
      PROVE  x = y \/ Clear(x, y)
  <2>1. CASE s = u
    BY <1>4, <2>1
  <2>2. CASE s # u
    <3>1. Clear(s, u)
      BY <2>2 DEF Placed
    <3>2. QED  BY <1>2, <1>4, <3>1 DEF Clear, Inside
  <2>3. QED  BY <2>1, <2>2
<1>5. ASSUME MissOf(v), MissOf(w) PROVE v = w \/ Clear(v, w)
  <2>1. Free(S, lo, hi) \in SUBSET Nat
    BY FreeBounds
  <2>2. QED  BY <1>5, <2>1, GapsApart
<1> HIDE DEF HitOf, MissOf
<1>6. QED  BY <1>1, <1>3, <1>4, <1>5

LEMMA WorkFollows ==
  ASSUME NEW S, Placed(S), NEW lo \in Nat, NEW hi \in Nat, lo <= hi,
         NEW w \in getRangeWork(S, lo, hi), w.a # lo
  PROVE  \E v \in getRangeWork(S, lo, hi) : v.b + 1 = w.a
<1> USE DEF Segs, Blocks
<1>1. w.a \in Nat /\ w.b \in Nat /\ lo <= w.a /\ w.a <= w.b /\ w.b <= hi
  BY WorkBlocks
<1>2. PICK x \in Nat : x + 1 = w.a /\ lo <= x /\ x <= hi /\ x # hi
  BY <1>1
<1>3. \A s \in S : s \in Segs /\ s.a <= s.b
  BY DEF Placed
<1>4. ASSUME NEW s \in S, s.b = x
      PROVE  \E v \in getRangeWork(S, lo, hi) : v.b + 1 = w.a
  <2>1. lo <= s.b /\ s.a <= hi
    BY <1>2, <1>3, <1>4
  <2>2. Hit(s, lo, hi) \in getRangeWork(S, lo, hi)
    BY <2>1, HitsOf DEF getRangeWork
  <2>3. Hit(s, lo, hi).b = s.b
    BY <1>2, <1>3, <1>4, <2>1, HitInside
  <2>4. QED  BY <1>2, <1>4, <2>2, <2>3
<1>5. ASSUME NEW u \in S, x \in Bytes(u), u.b < w.a
      PROVE  \E v \in getRangeWork(S, lo, hi) : v.b + 1 = w.a
  <2>1. u.b = x
    BY <1>2, <1>3, <1>5 DEF Bytes
  <2>2. QED  BY <1>4, <2>1
<1>6. CASE /\ Gap(Free(S, lo, hi), w.a, w.b)
           /\ \A s \in S : Clear(s, w)
  <2>1. x \notin Free(S, lo, hi)
    BY <1>2, <1>6 DEF Gap
  <2>2. PICK u \in S : x \in Bytes(u)
    BY <1>2, <2>1 DEF Free, Covered
  <2>3. u.b < w.a
    <3>1. Clear(u, w)
      BY <1>6
    <3>2. QED  BY <1>1, <1>2, <1>3, <2>2, <3>1 DEF Clear, Bytes
  <2>4. QED  BY <1>5, <2>2, <2>3
<1>7. ASSUME NEW s \in S, w.a = s.a
      PROVE  \E v \in getRangeWork(S, lo, hi) : v.b + 1 = w.a
  <2>1. CASE \E u \in S : x \in Bytes(u)
    <3>1. PICK u \in S : x \in Bytes(u)
      BY <2>1
    <3>2. u # s
      BY <1>2, <1>3, <1>7, <3>1 DEF Bytes
    <3>3. Clear(u, s)
      BY <3>2 DEF Placed
    <3>4. u.b < w.a
      BY <1>2, <1>3, <1>7, <3>1, <3>3 DEF Bytes, Clear
    <3>5. QED  BY <1>5, <3>1, <3>4
  <2>2. CASE \A u \in S : x \notin Bytes(u)
    <3> DEFINE free == Free(S, lo, hi)
    <3>1. x \in free
      BY <1>2, <2>2 DEF Free, Covered
    <3>2. s.a \in Bytes(s)
      BY <1>3 DEF Bytes
    <3>3. x + 1 \notin free
      BY <1>2, <1>7, <3>2 DEF Free, Covered
    <3>4. free \in SUBSET Nat /\ \A z \in free : lo <= z /\ z <= hi
      BY FreeBounds
    <3>5. PICK y \in free : y <= x /\ y .. x \subseteq free /\ y - 1 \notin free
      BY <3>1, <3>4, GapStart
    <3>6. Gap(free, y, x)
      BY <3>3, <3>5 DEF Gap
    <3>7. y \in Nat
      BY <3>4
    <3>8. Segment(y, x, Missing) \in MissBlocks(S, lo, hi)
      BY <3>6, <3>7, GapIsMiss
    <3>9. y # hi
      BY <1>2, <3>5, <3>7
    <3>10. Segment(y, x, Missing).a = y /\ Segment(y, x, Missing).b = x
      BY DEF Segment
    <3>11. Segment(y, x, Missing) \in getRangeWork(S, lo, hi)
      BY <3>8, <3>9, <3>10 DEF getRangeWork
    <3>12. QED  BY <1>2, <3>10, <3>11
  <2>3. QED  BY <2>1, <2>2
<1>8. QED  BY <1>6, <1>7, WorkBlocks

\* The work of a request is the request, block behind block.
LEMMA WorkChain ==
  ASSUME NEW S, Placed(S), NEW lo \in Nat, NEW hi \in Nat, lo <= hi
  PROVE  Chain(getRangeWork(S, lo, hi), lo)
<1> DEFINE work == getRangeWork(S, lo, hi)
<1>1. \A w \in work : w \in Blocks /\ lo <= w.a /\ w.a <= w.b
  BY WorkBlocks DEF Segs, Blocks
<1>2. \A w \in work : w.a = lo \/ \E v \in work : v.b + 1 = w.a
  BY WorkFollows
<1>3. \A v, w \in work : v = w \/ Clear(v, w)
  BY WorkApart
<1>4. QED  BY <1>1, <1>2, <1>3 DEF Chain

\* Its blocks that are there are parts of segments, the others lie clear of
\* all segments.
LEMMA WorkPlaces ==
  ASSUME NEW S, Placed(S), NEW lo \in Nat, NEW hi \in Nat, lo <= hi,
         NEW w \in getRangeWork(S, lo, hi)
  PROVE  /\ w.position # Missing => w \in Segs /\ \E s \in S : Inside(w, s)
         /\ w.position = Missing => \A s \in S : Clear(s, w)
<1>1. w \in Segs => w.position # Missing
  BY DEF Segs, Missing
<1>2. QED  BY <1>1, WorkBlocks

=============================================================================
