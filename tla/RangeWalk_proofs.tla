-------------------------- MODULE RangeWalk_proofs --------------------------
(***************************************************************************)
(* The two loops of getRangeWork() return what Segments states, on every   *)
(* map that downloads build, for files of every size.                      *)
(***************************************************************************)
EXTENDS RangeWalk, Segments_proofs, SequenceTheorems

(***************************************************************************)
(* Lists of blocks.                                                        *)
(***************************************************************************)

LEMMA Appended ==
  ASSUME NEW T, NEW q \in Seq(T), NEW e \in T
  PROVE  /\ Append(q, e) \in Seq(T)
         /\ Append(q, e) # <<>>
         /\ Len(q) \in Nat /\ Len(Append(q, e)) = Len(q) + 1
         /\ Append(q, e)[Len(q) + 1] = e
         /\ \A i \in 1 .. Len(q) : Append(q, e)[i] = q[i]
         /\ DOMAIN Append(q, e) = 1 .. Len(q) + 1
         /\ ToSet(Append(q, e)) = ToSet(q) \cup {e}
<1>1. /\ Append(q, e) \in Seq(T) /\ Len(q) \in Nat
      /\ Len(Append(q, e)) = Len(q) + 1
      /\ Append(q, e)[Len(q) + 1] = e
      /\ \A i \in 1 .. Len(q) : Append(q, e)[i] = q[i]
  BY AppendProperties, LenProperties
<1>2. DOMAIN q = 1 .. Len(q) /\ DOMAIN Append(q, e) = 1 .. Len(q) + 1
  BY <1>1, LenProperties
<1>3. ToSet(Append(q, e)) = ToSet(q) \cup {e}
  <2>1. ASSUME NEW i \in 1 .. Len(q) + 1
        PROVE  Append(q, e)[i] \in {q[j] : j \in 1 .. Len(q)} \cup {e}
    <3>1. i \in 1 .. Len(q) \/ i = Len(q) + 1
      BY <1>1
    <3>2. QED  BY <1>1, <3>1
  <2>2. ASSUME NEW j \in 1 .. Len(q)
        PROVE  q[j] \in {Append(q, e)[i] : i \in 1 .. Len(q) + 1}
    <3>1. j \in 1 .. Len(q) + 1 /\ Append(q, e)[j] = q[j]
      BY <1>1
    <3>2. QED  BY <3>1
  <2>3. Len(q) + 1 \in 1 .. Len(q) + 1
    BY <1>1
  <2>4. QED  BY <1>1, <1>2, <2>1, <2>2, <2>3 DEF ToSet
<1>4. Append(q, e) # <<>>
  BY <1>1, EmptySeq
<1>5. QED  BY <1>1, <1>2, <1>3, <1>4

LEMMA NoneListed == ToSet(<<>>) = {}
BY DEF ToSet

\* The blocks of a list are those from lo up to x, one behind the other.
Lined(q, lo, x) ==
  /\ q = <<>> => x = lo
  /\ q # <<>> => q[1].a = lo /\ q[Len(q)].b + 1 = x
  /\ \A i \in DOMAIN q : q[i].a <= q[i].b
  /\ \A i \in 1 .. Len(q) - 1 : q[i + 1].a = q[i].b + 1

LEMMA LinedOn ==
  ASSUME NEW q \in Seq(Blocks), NEW lo, NEW x, Lined(q, lo, x),
         NEW e \in Blocks, e.a = x, e.a <= e.b
  PROVE  Lined(Append(q, e), lo, e.b + 1)
<1> DEFINE r == Append(q, e)
           n == Len(q)
<1>1. /\ r # <<>> /\ n \in Nat /\ Len(r) = n + 1 /\ r[n + 1] = e
      /\ \A i \in 1 .. n : r[i] = q[i]
      /\ DOMAIN r = 1 .. n + 1
  BY Appended
<1>2. DOMAIN q = 1 .. n
  BY LenProperties
<1> HIDE DEF r, n
<1>3. r[1].a = lo
  <2>1. CASE q = <<>>
    <3>1. n = 0
      BY <2>1, EmptySeq DEF n
    <3>2. QED  BY <1>1, <2>1, <3>1 DEF Lined
  <2>2. CASE q # <<>>
    <3>1. n # 0
      BY <2>2, EmptySeq DEF n
    <3>2. 1 \in 1 .. n
      BY <1>1, <3>1
    <3>3. QED  BY <1>1, <2>2, <3>2 DEF Lined
  <2>3. QED  BY <2>1, <2>2
<1>4. ASSUME NEW i \in 1 .. n + 1 PROVE r[i].a <= r[i].b
  <2>1. i \in 1 .. n \/ i = n + 1
    BY <1>1
  <2>2. QED  BY <1>1, <1>2, <2>1 DEF Lined
<1>5. ASSUME NEW i \in 1 .. n PROVE r[i + 1].a = r[i].b + 1
  <2>1. CASE i = n
    <3>1. q # <<>>
      BY <1>1, <2>1, EmptySeq DEF n
    <3>2. q[n].b + 1 = x
      BY <3>1 DEF Lined, n
    <3>3. QED  BY <1>1, <2>1, <3>2
  <2>2. CASE i # n
    <3>1. i \in 1 .. n - 1 /\ i + 1 \in 1 .. n
      BY <1>1, <2>2
    <3>2. q[i + 1].a = q[i].b + 1
      BY <3>1 DEF Lined, n
    <3>3. QED  BY <1>1, <3>1, <3>2
  <2>3. QED  BY <2>1, <2>2
<1>6. n + 1 - 1 = n
  BY <1>1
<1>7. Lined(r, lo, e.b + 1)
  BY <1>1, <1>3, <1>4, <1>5, <1>6 DEF Lined
<1>8. QED  BY <1>7 DEF r

(***************************************************************************)
(* One turn: the parts of the request up to a byte.                        *)
(***************************************************************************)

\* What the blocks up to, but not with, byte x are.
PartsTo(S, lo, hi, x) == {w \in Parts(S, lo, hi) : w.b < x}

LEMMA NoPartsYet ==
  ASSUME NEW S, Placed(S), NEW lo \in Nat, NEW hi \in Nat, lo <= hi
  PROVE  PartsTo(S, lo, hi, lo) = {}
<1>1. ASSUME NEW w \in Parts(S, lo, hi) PROVE ~ (w.b < lo)
  BY PartBlocks DEF Segs, Blocks
<1>2. QED  BY <1>1 DEF PartsTo

LEMMA AllParts ==
  ASSUME NEW S, Placed(S), NEW lo \in Nat, NEW hi \in Nat, lo <= hi,
         NEW x \in Nat, hi < x
  PROVE  PartsTo(S, lo, hi, x) = Parts(S, lo, hi)
<1>1. ASSUME NEW w \in Parts(S, lo, hi) PROVE w.b < x
  BY PartBlocks DEF Segs, Blocks
<1>2. QED  BY <1>1 DEF PartsTo

\* The segments behind the iterator have been dealt with up to byte t.
Behind(S, R, t) == R \subseteq S /\ \A s \in S \ R : s.b < t

\* Between the byte reached and the next segment, or the end of the request,
\* is a gap.
LEMMA GapFrom ==
  ASSUME NEW S, Placed(S), NEW lo \in Nat, NEW hi \in Nat, lo <= hi,
         NEW R, NEW t \in Nat, Behind(S, R, t), lo <= t,
         t = lo \/ \E s \in S : s.b + 1 = t,
         NEW y \in Nat, t <= y, y <= hi, \A s \in R : y < s.a,
         y = hi \/ \E s \in S : s.a = y + 1
  PROVE  /\ Gap(Free(S, lo, hi), t, y)
         /\ Segment(t, y, Missing) \in Parts(S, lo, hi)
         /\ PartsTo(S, lo, hi, y + 1)
              = PartsTo(S, lo, hi, t) \cup {Segment(t, y, Missing)}
<1> USE DEF Segs
<1> DEFINE free == Free(S, lo, hi)
           g == Segment(t, y, Missing)
<1>1. \A s \in S : s \in Segs /\ s.a <= s.b
  BY DEF Placed
<1>2. ASSUME NEW s \in S PROVE s.b < t \/ y < s.a
  BY DEF Behind
<1>3. t .. y \subseteq free
  <2>1. ASSUME NEW z \in t .. y, NEW s \in S PROVE z \notin Bytes(s)
    BY <1>1, <1>2 DEF Bytes
  <2>2. t .. y \subseteq lo .. hi
    OBVIOUS
  <2>3. QED  BY <2>1, <2>2 DEF Free, Covered
<1>4. t - 1 \notin free
  <2>1. CASE t = lo
    BY <2>1 DEF Free
  <2>2. CASE \E s \in S : s.b + 1 = t
    <3>1. PICK s \in S : s.b + 1 = t
      BY <2>2
    <3>2. t - 1 \in Bytes(s)
      BY <1>1, <3>1 DEF Bytes
    <3>3. QED  BY <3>2 DEF Free, Covered
  <2>3. QED  BY <2>1, <2>2
<1>5. y + 1 \notin free
  <2>1. CASE y = hi
    BY <2>1 DEF Free
  <2>2. CASE \E s \in S : s.a = y + 1
    <3>1. PICK s \in S : s.a = y + 1
      BY <2>2
    <3>2. y + 1 \in Bytes(s)
      BY <1>1, <3>1 DEF Bytes
    <3>3. QED  BY <3>2 DEF Free, Covered
  <2>3. QED  BY <2>1, <2>2
<1>6. Gap(free, t, y)
  BY <1>3, <1>4, <1>5 DEF Gap
<1>7. g \in Parts(S, lo, hi)
  BY <1>6, GapIsMiss DEF Parts
<1>8. g \in Blocks /\ g.a = t /\ g.b = y /\ g.position = Missing
  BY DEF g, Segment, Blocks
<1> HIDE DEF g
<1>9. ASSUME NEW w \in Parts(S, lo, hi), w.b < y + 1 PROVE w.b < t \/ w = g
  <2>1. CASE /\ w \in Segs
             /\ \E s \in S : Inside(w, s) /\ w.a <= w.b
    <3>1. PICK s \in S : Inside(w, s) /\ w.a <= w.b
      BY <2>1
    <3>2. s.a <= w.a /\ w.b <= s.b
      BY <3>1 DEF Inside
    <3>3. QED  BY <1>1, <1>2, <1>9, <2>1, <3>1, <3>2
  <2>2. CASE /\ w \in Blocks /\ w.a <= w.b /\ w.position = Missing
             /\ Gap(free, w.a, w.b)
    <3>1. free \in SUBSET Nat
      BY FreeBounds
    <3>2. w = g \/ Clear(w, g)
      BY <1>6, <1>8, <2>2, <3>1, GapsApart
    <3>3. QED  BY <1>8, <1>9, <2>2, <3>2 DEF Clear, Blocks
  <2>3. QED  BY <2>1, <2>2, PartBlocks
<1>10. PartsTo(S, lo, hi, y + 1) = PartsTo(S, lo, hi, t) \cup {g}
  <2>1. ASSUME NEW w \in Parts(S, lo, hi), w.b < t PROVE w.b < y + 1
    <3>1. w.b \in Nat
      BY PartBlocks DEF Blocks
    <3>2. QED  BY <2>1, <3>1
  <2>2. g.b < y + 1
    BY <1>8
  <2>3. QED  BY <1>7, <1>9, <2>1, <2>2 DEF PartsTo
<1>11. QED  BY <1>6, <1>7, <1>10 DEF g

\* The next segment gives the next part.
LEMMA HitFrom ==
  ASSUME NEW S, Placed(S), NEW lo \in Nat, NEW hi \in Nat, lo <= hi,
         NEW R, NEW t \in Nat, Behind(S, R, t), lo <= t, t <= hi,
         NEW s \in R, \A u \in R : s.a <= u.a, t <= s.b,
         s.a = t \/ (t = lo /\ s.a <= lo)
  PROVE  /\ Hit(s, lo, hi) \in Parts(S, lo, hi)
         /\ PartsTo(S, lo, hi, Smaller(hi, s.b) + 1)
              = PartsTo(S, lo, hi, t) \cup {Hit(s, lo, hi)}
<1> USE DEF Segs
<1> DEFINE h == Hit(s, lo, hi)
<1>1. s \in S /\ \A u \in S : u \in Segs /\ u.a <= u.b
  BY DEF Placed, Behind
<1>2. s.a <= t /\ lo <= s.b /\ s.a <= hi
  BY <1>1
<1>3. h \in Parts(S, lo, hi)
  BY <1>1, <1>2, HitsOf DEF Parts
<1>4. h \in Segs /\ h.b <= hi /\ h.b = Smaller(hi, s.b) /\ h.b <= s.b
  BY <1>1, <1>2 DEF Hit, Segment, Larger, Smaller
<1> HIDE DEF h
<1>5. ASSUME NEW w \in Parts(S, lo, hi), w.b < h.b + 1 PROVE w.b < t \/ w = h
  <2>1. ASSUME w \in Segs, w.a <= w.b,
               NEW u \in S, w = Hit(u, lo, hi), Inside(w, u), u # s
        PROVE  w.b < t
    <3>1. u.a <= w.a /\ w.b <= u.b
      BY <2>1 DEF Inside
    <3>2. CASE u \in R
      <4>1. s.a <= u.a
        BY <3>2
      <4>2. Clear(s, u)
        BY <1>1, <2>1 DEF Placed
      <4>3. s.b < u.a
        BY <1>1, <4>1, <4>2 DEF Clear
      <4>4. QED  BY <1>1, <1>4, <1>5, <2>1, <3>1, <4>3
    <3>3. CASE u \notin R
      <4>1. u.b < t
        BY <3>3 DEF Behind
      <4>2. QED  BY <1>1, <2>1, <3>1, <4>1
    <3>4. QED  BY <3>2, <3>3
  <2>2. CASE w \in Segs /\ w.a <= w.b /\ \E u \in S : w = Hit(u, lo, hi) /\ Inside(w, u)
    BY <2>1, <2>2 DEF h
  <2>3. CASE w \in Blocks /\ w.a <= w.b /\ \A u \in S : Clear(u, w)
    <3>1. Clear(s, w)
      BY <1>1, <2>3
    <3>2. QED  BY <1>1, <1>2, <1>4, <1>5, <2>3, <3>1 DEF Clear, Blocks
  <2>4. QED  BY <2>2, <2>3, PartBlocks
<1>6. t <= h.b
  BY <1>1, <1>4 DEF Smaller
<1>7. ASSUME NEW w \in Parts(S, lo, hi), w.b < t PROVE w.b < h.b + 1
  <2>1. w.b \in Nat
    BY PartBlocks DEF Blocks
  <2>2. QED  BY <1>4, <1>6, <1>7, <2>1
<1>8. h.b < h.b + 1
  BY <1>4
<1>9. PartsTo(S, lo, hi, h.b + 1) = PartsTo(S, lo, hi, t) \cup {h}
  BY <1>3, <1>5, <1>7, <1>8 DEF PartsTo
<1>10. QED  BY <1>3, <1>4, <1>9 DEF h

(***************************************************************************)
(* The walk.                                                               *)
(***************************************************************************)

\* What is true of a call at each place, over a map that is as it should be.
\* A last gap of one byte is not left out behind a segment that reaches the
\* end of the request.
WalkTypes ==
  /\ at \in {"out", "first", "second", "last", "returned"}
  /\ interval_a \in Offsets /\ interval_b \in Offsets /\ interval_a <= interval_b
  /\ pr \in Seq(Blocks)
  /\ hit \in BOOLEAN
  /\ rest \subseteq lranges

Fresh == pr = <<>> /\ tope = -1

\* What has been dealt with is what is in front of `tope`.
FirstInv == Fresh /\ Behind(lranges, rest, interval_a)

SecondInv ==
  /\ tope \in Nat /\ interval_a <= tope /\ tope <= interval_b
  /\ \A s \in rest : tope <= s.a
  /\ Behind(lranges, rest, tope)
  /\ \/ tope = interval_a /\ rest # {}
     \/ \E s \in lranges : interval_a <= s.b /\ s.b + 1 = tope
  /\ ToSet(pr) = PartsTo(lranges, interval_a, interval_b, tope)
  /\ Lined(pr, interval_a, tope)

LastInv ==
  /\ tope \in Nat /\ interval_b < tope
  /\ \E s \in lranges : interval_b <= s.b
  /\ ToSet(pr) = Parts(lranges, interval_a, interval_b)
  /\ Lined(pr, interval_a, interval_b + 1)

ReturnedInv ==
  /\ ToSet(pr) = getRangeWork(lranges, interval_a, interval_b)
  /\ pr # <<>>
  /\ Lined(pr, interval_a, IF TailLost(lranges, interval_a, interval_b)
                           THEN interval_b ELSE interval_b + 1)

WalkInv ==
  /\ WalkTypes
  /\ at = "out" => Fresh
  /\ at = "first" => FirstInv
  /\ at = "second" => SecondInv
  /\ at = "last" => LastInv
  /\ at = "returned" => ReturnedInv
  /\ hit <=> IsHit(ToSet(pr))

\* The segments are of the file, and fill the cache file up to its end.
Filled(S) ==
  \A p \in 0 .. getPointEnd(S) - 1 :
    \E s \in S : s.position <= p /\ p < DiskEnd(s)

MapInv ==
  /\ Placed(lranges)
  /\ \A s \in lranges : s.b \in Offsets
  /\ Filled(lranges)

LEMMA OffsetsAre == Offsets \subseteq Nat /\ 0 \in Offsets /\ \A x \in Offsets : 0 .. x \subseteq Offsets
BY SizeAssumption DEF Offsets

LEMMA Ready ==
  ASSUME MapInv, WalkInv
  PROVE  /\ Placed(lranges)
         /\ interval_a \in Nat /\ interval_b \in Nat /\ interval_a <= interval_b
         /\ pr \in Seq(Blocks)
         /\ \A s \in lranges : s \in Segs /\ s \in Blocks /\ s.a <= s.b /\ s.position # Missing
<1>1. Placed(lranges) /\ WalkTypes
  BY DEF MapInv, WalkInv
<1>2. \A s \in lranges : s \in Segs /\ s.a <= s.b
  BY <1>1 DEF Placed
<1>3. \A s \in Segs : s \in Blocks /\ s.position # Missing
  BY DEF Segs, Blocks, Missing
<1>4. QED  BY <1>1, <1>2, <1>3, OffsetsAre DEF WalkTypes

LEMMA HitsAndOne ==
  ASSUME NEW work, NEW e
  PROVE  IsHit(work \cup {e}) <=> IsHit(work) /\ e.position # Missing
BY DEF IsHit

LEMMA NothingIsHit == IsHit({}) /\ IsHit(ToSet(<<>>))
BY NoneListed DEF IsHit

LEMMA Single ==
  ASSUME NEW e \in Blocks, e.a <= e.b
  PROVE  /\ <<e>> \in Seq(Blocks) /\ <<e>> # <<>>
         /\ ToSet(<<e>>) = {e}
         /\ Lined(<<e>>, e.a, e.b + 1)
<1>1. <<e>> \in Seq(Blocks) /\ <<e>> # <<>> /\ Len(<<e>>) = 1 /\ <<e>>[1] = e
      /\ DOMAIN <<e>> = {1}
  OBVIOUS
<1>2. ToSet(<<e>>) = {e}
  BY <1>1 DEF ToSet
<1>3. Lined(<<e>>, e.a, e.b + 1)
  BY <1>1 DEF Lined
<1>4. QED  BY <1>1, <1>2, <1>3

\* Behind the first segment of the rest come the others.
LEMMA OthersBehind ==
  ASSUME NEW S, Placed(S), NEW R, R \subseteq S, NEW s \in R, \A u \in R : s.a <= u.a
  PROVE  \A u \in R \ {s} : s.b + 1 <= u.a
<1>1. ASSUME NEW u \in R \ {s} PROVE s.b + 1 <= u.a
  <2>1. s \in Segs /\ u \in Segs /\ s.a <= s.b /\ u.a <= u.b /\ s.a <= u.a
    BY DEF Placed
  <2>2. Clear(s, u)
    BY DEF Placed
  <2>3. QED  BY <2>1, <2>2 DEF Clear, Segs
<1>2. QED  BY <1>1

LEMMA TailKept ==
  ASSUME NEW S, Placed(S), NEW lo, NEW hi \in Nat, NEW s \in S, hi <= s.b
  PROVE  ~ TailLost(S, lo, hi)
<1>1. s.b \in Nat
  BY DEF Placed, Segs
<1>2. QED  BY <1>1 DEF TailLost

\* Without its tail the work is what lies in front of the last byte.
LEMMA TailWork ==
  ASSUME NEW S, Placed(S), NEW lo \in Nat, NEW hi \in Nat, lo <= hi,
         TailLost(S, lo, hi)
  PROVE  getRangeWork(S, lo, hi) = PartsTo(S, lo, hi, hi)
<1> USE DEF Segs, Blocks
<1>1. PICK s \in S : s.b = hi - 1
  BY DEF TailLost
<1>2. s \in Segs /\ s.a <= s.b /\ \A u \in S : u.b < hi /\ u \in Segs
  BY DEF Placed, TailLost
<1>3. ASSUME NEW w \in HitBlocks(S, lo, hi) PROVE w.b < hi
  <2>1. PICK u \in S : w = Hit(u, lo, hi) /\ lo <= u.b /\ u.a <= hi
    BY HitsOf
  <2>2. w.b <= u.b /\ w \in Segs
    <3>1. u \in Segs /\ u.a <= u.b
      BY DEF Placed
    <3>2. QED  BY <2>1, <3>1, HitInside DEF Inside
  <2>3. QED  BY <1>2, <2>2
<1>4. ASSUME NEW w \in MissBlocks(S, lo, hi) PROVE w.a # hi <=> w.b < hi
  <2>1. PICK x, y \in Free(S, lo, hi) :
          w = Segment(x, y, Missing) /\ Gap(Free(S, lo, hi), x, y)
    BY MissIsGap
  <2>2. x \in Nat /\ y \in Nat /\ lo <= x /\ y <= hi /\ x <= y
    BY <2>1, FreeBounds DEF Gap
  <2>3. s.b < x \/ y < s.a
    BY <2>1, <2>2, GapClear
  <2>4. w.a = x /\ w.b = y
    BY <2>1 DEF Segment
  <2>5. QED  BY <1>1, <1>2, <2>2, <2>3, <2>4
<1>5. QED  BY <1>3, <1>4 DEF getRangeWork, Parts, PartsTo

(***************************************************************************)
(* The steps of the walk.                                                  *)
(***************************************************************************)

LEMMA CallStep == ASSUME MapInv, WalkInv, Call PROVE WalkInv'
<1>1. /\ at = "out" /\ at' = "first" /\ rest' = lranges
      /\ interval_a' \in Offsets /\ interval_b' \in Offsets /\ interval_a' <= interval_b'
      /\ lranges' = lranges /\ tope' = tope /\ pr' = pr /\ hit' = hit
  BY DEF Call
<1>2. WalkTypes' /\ (hit <=> IsHit(ToSet(pr)))'
  BY <1>1 DEF WalkInv, WalkTypes
<1>3. FirstInv'
  BY <1>1 DEF WalkInv, FirstInv, Fresh, Behind
<1>4. QED  BY <1>1, <1>2, <1>3 DEF WalkInv

LEMMA PassByStep ==
  ASSUME MapInv, WalkInv, NEW s \in rest, PassBy(s)
  PROVE  WalkInv'
<1>1. /\ at = "first" /\ at' = at /\ s.b < interval_a /\ rest' = rest \ {s}
      /\ lranges' = lranges /\ interval_a' = interval_a /\ interval_b' = interval_b
      /\ tope' = tope /\ pr' = pr /\ hit' = hit
  BY DEF PassBy, call
<1>2. WalkTypes' /\ (hit <=> IsHit(ToSet(pr)))'
  BY <1>1 DEF WalkInv, WalkTypes
<1>3. FirstInv'
  BY <1>1 DEF WalkInv, FirstInv, Fresh, Behind
<1>4. QED  BY <1>1, <1>2, <1>3 DEF WalkInv

LEMMA StartsBeforeStep ==
  ASSUME MapInv, WalkInv, NEW s \in rest, StartsBefore(s)
  PROVE  WalkInv'
<1>1. /\ at = "first" /\ at' = "second" /\ Here(s) /\ interval_a < s.a
      /\ tope' = interval_a
      /\ rest' = rest /\ lranges' = lranges
      /\ interval_a' = interval_a /\ interval_b' = interval_b
      /\ pr' = pr /\ hit' = hit
  BY DEF StartsBefore, call
<1>2. WalkTypes' /\ (hit <=> IsHit(ToSet(pr)))'
  BY <1>1 DEF WalkInv, WalkTypes
<1>3. /\ Placed(lranges) /\ interval_a \in Nat /\ interval_b \in Nat
      /\ interval_a <= interval_b /\ rest \subseteq lranges
      /\ \A u \in lranges : u \in Segs
  BY Ready DEF WalkInv, WalkTypes
<1>4. pr = <<>> /\ Behind(lranges, rest, interval_a)
  BY <1>1 DEF WalkInv, FirstInv, Fresh
<1>5. ASSUME NEW u \in rest PROVE interval_a <= u.a
  <2>1. s.a <= u.a /\ u \in Segs /\ s \in Segs
    BY <1>1, <1>3 DEF Here
  <2>2. QED  BY <1>1, <1>3, <2>1 DEF Segs
<1>6. ToSet(pr) = PartsTo(lranges, interval_a, interval_b, interval_a)
  BY <1>3, <1>4, NoPartsYet, NoneListed
<1>7. Lined(pr, interval_a, interval_a)
  <2>1. DOMAIN pr = {} /\ Len(pr) = 0
    BY <1>4
  <2>2. \A i \in 1 .. Len(pr) - 1 : FALSE
    BY <2>1
  <2>3. QED  BY <1>4, <2>1, <2>2 DEF Lined
<1>8. SecondInv'
  <2>1. tope' \in Nat /\ interval_a <= tope' /\ tope' <= interval_b
    BY <1>1, <1>3
  <2>2. tope' = interval_a /\ rest # {}
    BY <1>1
  <2>3. QED  BY <1>1, <1>4, <1>5, <1>6, <1>7, <2>1, <2>2 DEF SecondInv
<1>9. QED  BY <1>1, <1>2, <1>8 DEF WalkInv

LEMMA StartsInStep ==
  ASSUME MapInv, WalkInv, NEW s \in rest, StartsIn(s)
  PROVE  WalkInv'
<1> USE DEF Segs
<1> DEFINE lo == interval_a
           hi == interval_b
           h == Hit(s, lo, hi)
           Facts ==
             /\ at = "first" /\ Here(s) /\ s.a <= lo /\ lo <= s.b
             /\ pr' = <<h>>
             /\ lranges' = lranges /\ interval_a' = lo /\ interval_b' = hi /\ hit' = hit
<1>1. /\ Placed(lranges) /\ lo \in Nat /\ hi \in Nat /\ lo <= hi /\ rest \subseteq lranges
      /\ \A u \in lranges : u \in Segs /\ u.a <= u.b
  BY Ready DEF WalkInv, WalkTypes
<1>2. s \in lranges /\ s \in Segs
  BY <1>1
<1>3. Facts
  <2>1. s.a <= lo
    BY DEF StartsIn
  <2>2. Larger(lo, s.a) = lo
    BY <1>1, <1>2, <2>1 DEF Larger
  <2>3. QED  BY <2>2 DEF StartsIn, Hit, call
<1>4. \A u \in rest : s.a <= u.a
  BY <1>3 DEF Here
<1>5. Fresh /\ Behind(lranges, rest, lo)
  BY <1>3 DEF WalkInv, FirstInv
<1>6. /\ h \in Parts(lranges, lo, hi)
      /\ PartsTo(lranges, lo, hi, Smaller(hi, s.b) + 1) = {h}
  <2>1. PartsTo(lranges, lo, hi, lo) = {}
    BY <1>1, NoPartsYet
  <2>2. /\ h \in Parts(lranges, lo, hi)
        /\ PartsTo(lranges, lo, hi, Smaller(hi, s.b) + 1)
             = PartsTo(lranges, lo, hi, lo) \cup {h}
    <3>1. lo <= lo /\ lo <= s.b /\ s.a <= lo
      BY <1>1, <1>3
    <3>2. QED  BY <1>1, <1>3, <1>4, <1>5, <3>1, HitFrom
  <2>3. QED  BY <2>1, <2>2
<1>7. /\ h \in Segs /\ h \in Blocks /\ h.position # Missing
      /\ h.a = lo /\ h.b = Smaller(hi, s.b) /\ h.a <= h.b
  <2>1. Larger(lo, s.a) = lo
    BY <1>1, <1>2, <1>3 DEF Larger
  <2>2. h = Segment(lo, Smaller(hi, s.b), s.position + lo - s.a)
    BY <2>1 DEF Hit
  <2>3. Smaller(hi, s.b) \in Nat /\ lo <= Smaller(hi, s.b)
    BY <1>1, <1>2, <1>3 DEF Smaller
  <2>4. s.position + lo - s.a \in Nat
    BY <1>1, <1>2, <1>3
  <2>5. QED  BY <1>1, <2>2, <2>3, <2>4 DEF Segment, Blocks, Missing
<1> HIDE DEF h
<1>8. /\ pr' \in Seq(Blocks) /\ pr' # <<>> /\ ToSet(pr') = {h}
      /\ Lined(pr', lo, h.b + 1)
  BY <1>3, <1>7, Single
<1>9. (hit <=> IsHit(ToSet(pr)))'
  <2>1. hit
    BY <1>5, NothingIsHit DEF WalkInv, Fresh
  <2>2. IsHit({h})
    BY <1>7 DEF IsHit
  <2>3. QED  BY <1>3, <1>8, <2>1, <2>2
<1>10. CASE hi <= s.b
  <2>1. at' = "returned" /\ rest' = rest
    BY <1>10 DEF StartsIn
  <2>2. WalkTypes'
    BY <1>3, <1>8, <2>1 DEF WalkInv, WalkTypes
  <2>3. Smaller(hi, s.b) = hi
    BY <1>1, <1>2, <1>10 DEF Smaller
  <2>4. Parts(lranges, lo, hi) = {h}
    <3>1. hi + 1 \in Nat /\ hi < hi + 1
      BY <1>1
    <3>2. PartsTo(lranges, lo, hi, hi + 1) = Parts(lranges, lo, hi)
      BY <1>1, <3>1, AllParts
    <3>3. QED  BY <1>6, <2>3, <3>2
  <2>5. ~ TailLost(lranges, lo, hi)
    BY <1>1, <1>2, <1>10, TailKept
  <2>6. getRangeWork(lranges, lo, hi) = {h}
    BY <2>4, <2>5, WorkParts
  <2>7. ReturnedInv'
    BY <1>3, <1>7, <1>8, <2>3, <2>5, <2>6 DEF ReturnedInv
  <2>8. QED  BY <1>9, <2>1, <2>2, <2>7 DEF WalkInv
<1>11. CASE ~ (hi <= s.b)
  <2>1. at' = "second" /\ rest' = rest \ {s} /\ tope' = s.b + 1
    BY <1>11 DEF StartsIn
  <2>2. WalkTypes'
    BY <1>3, <1>8, <2>1 DEF WalkInv, WalkTypes
  <2>3. Smaller(hi, s.b) = s.b
    BY <1>1, <1>2, <1>11 DEF Smaller
  <2>4. s.b + 1 \in Nat /\ lo <= s.b + 1 /\ s.b + 1 <= hi
    BY <1>1, <1>2, <1>3, <1>11
  <2>5. \A u \in rest \ {s} : s.b + 1 <= u.a
    BY <1>1, <1>4, OthersBehind
  <2>6. Behind(lranges, rest \ {s}, s.b + 1)
    <3>1. ASSUME NEW u \in lranges \ (rest \ {s}) PROVE u.b < s.b + 1
      <4>1. CASE u = s
        BY <1>2, <4>1
      <4>2. CASE u \notin rest
        <5>1. u.b < lo
          BY <1>5, <4>2 DEF Behind
        <5>2. u \in Segs
          BY <1>1
        <5>3. QED  BY <1>1, <1>2, <1>3, <5>1, <5>2
      <4>3. QED  BY <4>1, <4>2
    <3>2. QED  BY <1>1, <3>1 DEF Behind
  <2>7. ToSet(pr') = PartsTo(lranges, lo, hi, s.b + 1) /\ Lined(pr', lo, s.b + 1)
    BY <1>6, <1>7, <1>8, <2>3
  <2>8. \E u \in lranges : lo <= u.b /\ u.b + 1 = s.b + 1
    BY <1>2, <1>3
  <2>9. SecondInv'
    BY <1>3, <2>1, <2>4, <2>5, <2>6, <2>7, <2>8 DEF SecondInv
  <2>10. QED  BY <1>9, <2>1, <2>2, <2>9 DEF WalkInv
<1>12. QED  BY <1>10, <1>11

\* In the second loop, at segment s.
InSecond(s) ==
  /\ Placed(lranges)
  /\ interval_a \in Nat /\ interval_b \in Nat /\ interval_a <= interval_b
  /\ pr \in Seq(Blocks)
  /\ \A u \in lranges : u \in Segs /\ u \in Blocks /\ u.a <= u.b /\ u.position # Missing
  /\ s \in lranges /\ s \in rest /\ rest \subseteq lranges /\ \A u \in rest : s.a <= u.a
  /\ tope \in Nat /\ interval_a <= tope /\ tope <= interval_b /\ tope <= s.a
  /\ Behind(lranges, rest, tope)
  /\ tope = interval_a \/ \E u \in lranges : u.b + 1 = tope
  /\ ToSet(pr) = PartsTo(lranges, interval_a, interval_b, tope)
  /\ Lined(pr, interval_a, tope)
  /\ hit <=> IsHit(ToSet(pr))

LEMMA SecondAt ==
  ASSUME MapInv, WalkInv, at = "second", NEW s \in rest, Here(s)
  PROVE  InSecond(s)
<1>1. SecondInv /\ rest \subseteq lranges /\ (hit <=> IsHit(ToSet(pr)))
  BY DEF WalkInv, WalkTypes
<1>2. QED  BY <1>1, Ready DEF InSecond, SecondInv, Here

\* The gap in front of s.
LEMMA UpToIs ==
  ASSUME NEW s, InSecond(s), s.a <= interval_b
  PROVE  /\ UpTo(s) \in Seq(Blocks)
         /\ ToSet(UpTo(s)) = PartsTo(lranges, interval_a, interval_b, s.a)
         /\ Lined(UpTo(s), interval_a, s.a)
         /\ IsHit(ToSet(UpTo(s))) <=> hit /\ ~(tope < s.a)
<1> USE DEF Segs
<1>1. /\ s \in lranges /\ s \in Segs /\ s.a <= s.b
      /\ tope \in Nat /\ tope <= s.a /\ s \in rest
      /\ interval_a \in Nat /\ interval_b \in Nat /\ interval_a <= tope
  BY DEF InSecond
<1>2. CASE tope < s.a
  <2> DEFINE y == s.a - 1
             g == Segment(tope, y, Missing)
  <2>1. y \in Nat /\ tope <= y /\ y <= interval_b /\ y + 1 = s.a
    BY <1>1, <1>2
  <2>2. \A u \in rest : y < u.a
    <3>1. ASSUME NEW u \in rest PROVE y < u.a
      <4>1. s.a <= u.a /\ u \in Segs
        BY DEF InSecond
      <4>2. QED  BY <1>1, <2>1, <4>1
    <3>2. QED  BY <3>1
  <2>3. PartsTo(lranges, interval_a, interval_b, y + 1)
          = PartsTo(lranges, interval_a, interval_b, tope) \cup {g}
    <3>1. \E u \in lranges : u.a = y + 1
      BY <1>1, <2>1
    <3>2. /\ Placed(lranges) /\ interval_a <= interval_b /\ Behind(lranges, rest, tope)
          /\ tope = interval_a \/ \E u \in lranges : u.b + 1 = tope
      BY DEF InSecond
    <3> HIDE DEF y
    <3>3. QED  BY <1>1, <2>1, <2>2, <3>1, <3>2, GapFrom
  <2>4. g \in Blocks /\ g.a = tope /\ g.b = y /\ g.position = Missing
    BY <1>1, <2>1 DEF Segment, Blocks
  <2>5. UpTo(s) = Append(pr, g)
    BY <1>2 DEF UpTo
  <2> HIDE DEF g
  <2>6. UpTo(s) \in Seq(Blocks) /\ ToSet(UpTo(s)) = ToSet(pr) \cup {g}
    BY <2>4, <2>5, Appended DEF InSecond
  <2>7. Lined(UpTo(s), interval_a, g.b + 1)
    <3>1. g.a <= g.b
      BY <2>1, <2>4
    <3>2. QED  BY <2>4, <2>5, <3>1, LinedOn DEF InSecond
  <2>8. ~ IsHit(ToSet(UpTo(s)))
    BY <2>4, <2>6 DEF IsHit
  <2>9. ToSet(UpTo(s)) = PartsTo(lranges, interval_a, interval_b, s.a)
    BY <2>1, <2>3, <2>6 DEF InSecond
  <2>10. Lined(UpTo(s), interval_a, s.a)
    BY <2>1, <2>4, <2>7
  <2>11. QED  BY <1>2, <2>6, <2>8, <2>9, <2>10
<1>3. CASE ~(tope < s.a)
  <2>1. UpTo(s) = pr /\ tope = s.a
    BY <1>1, <1>3 DEF UpTo
  <2>2. QED  BY <1>3, <2>1 DEF InSecond
<1>4. QED  BY <1>2, <1>3

\* And s itself.
LEMMA PartAt ==
  ASSUME NEW s, InSecond(s), s.a <= interval_b
  PROVE  LET h == Hit(s, interval_a, interval_b) IN
         /\ h \in Blocks /\ h.position # Missing
         /\ h.a = s.a /\ h.b = Smaller(interval_b, s.b) /\ h.a <= h.b
         /\ h = Segment(s.a, Smaller(interval_b, s.b), s.position)
         /\ PartsTo(lranges, interval_a, interval_b, h.b + 1)
              = PartsTo(lranges, interval_a, interval_b, s.a) \cup {h}
<1> USE DEF Segs
<1> DEFINE h == Hit(s, interval_a, interval_b)
<1>1. /\ s \in lranges /\ s \in Segs /\ s.a <= s.b /\ s \in rest
      /\ interval_a \in Nat /\ interval_b \in Nat /\ interval_a <= interval_b
      /\ tope \in Nat /\ interval_a <= tope /\ tope <= s.a
      /\ Placed(lranges) /\ \A u \in rest : s.a <= u.a
  BY DEF InSecond
<1>2. interval_a <= s.a
  BY <1>1
<1>3. Larger(interval_a, s.a) = s.a
  BY <1>1, <1>2 DEF Larger
<1>4. s.position + s.a - s.a = s.position
  BY <1>1
<1>5. h = Segment(s.a, Smaller(interval_b, s.b), s.position)
  BY <1>3, <1>4 DEF Hit
<1>6. Smaller(interval_b, s.b) \in Nat /\ s.a <= Smaller(interval_b, s.b)
  BY <1>1 DEF Smaller
<1>7. /\ h \in Blocks /\ h.position # Missing
      /\ h.a = s.a /\ h.b = Smaller(interval_b, s.b) /\ h.a <= h.b
  BY <1>1, <1>5, <1>6 DEF Segment, Blocks, Missing
<1>8. Behind(lranges, rest, s.a)
  <2>1. ASSUME NEW u \in lranges \ rest PROVE u.b < s.a
    <3>1. u.b < tope /\ u \in Segs
      BY DEF InSecond, Behind
    <3>2. QED  BY <1>1, <3>1
  <2>2. QED  BY <2>1 DEF InSecond, Behind
<1>9. PartsTo(lranges, interval_a, interval_b, Smaller(interval_b, s.b) + 1)
        = PartsTo(lranges, interval_a, interval_b, s.a) \cup {h}
  <2>1. s.a = s.a /\ s.a \in Nat /\ s.a <= s.b /\ interval_a <= s.a
    BY <1>1, <1>2
  <2> HIDE DEF h
  <2>2. QED  BY <1>1, <1>8, <2>1, HitFrom DEF h
<1>10. QED  BY <1>5, <1>7, <1>9

LEMMA EndsBeforeStep ==
  ASSUME MapInv, WalkInv, NEW s \in rest, EndsBefore(s)
  PROVE  WalkInv'
<1> USE DEF Segs
<1> DEFINE g == Segment(tope, interval_b, Missing)
<1>1. /\ at = "second" /\ at' = "last" /\ Here(s) /\ interval_b < s.a
      /\ pr' = Append(pr, g) /\ hit' = FALSE /\ tope' = interval_b + 1
      /\ rest' = rest /\ lranges' = lranges
      /\ interval_a' = interval_a /\ interval_b' = interval_b
  BY DEF EndsBefore, call
<1>2. InSecond(s)
  BY <1>1, SecondAt
<1>3. /\ Placed(lranges) /\ s \in Segs /\ s \in lranges /\ s.a <= s.b
      /\ interval_a \in Nat /\ interval_b \in Nat /\ interval_a <= interval_b
      /\ tope \in Nat /\ interval_a <= tope /\ tope <= interval_b
  BY <1>2 DEF InSecond
<1>4. \A u \in rest : interval_b < u.a
  <2>1. ASSUME NEW u \in rest PROVE interval_b < u.a
    <3>1. s.a <= u.a /\ u \in Segs
      BY <1>2 DEF InSecond
    <3>2. QED  BY <1>1, <1>3, <3>1
  <2>2. QED  BY <2>1
<1>5. PartsTo(lranges, interval_a, interval_b, interval_b + 1) = ToSet(pr) \cup {g}
  <2>1. /\ ToSet(pr) = PartsTo(lranges, interval_a, interval_b, tope)
        /\ Behind(lranges, rest, tope)
        /\ tope = interval_a \/ \E u \in lranges : u.b + 1 = tope
    BY <1>2 DEF InSecond
  <2>2. PartsTo(lranges, interval_a, interval_b, interval_b + 1)
          = PartsTo(lranges, interval_a, interval_b, tope) \cup {g}
    <3>1. PICK y \in Nat : y = interval_b
      BY <1>3
    <3>2. tope <= y /\ y <= interval_b /\ \A u \in rest : y < u.a
      BY <1>3, <1>4, <3>1
    <3>3. PartsTo(lranges, interval_a, interval_b, y + 1)
            = PartsTo(lranges, interval_a, interval_b, tope) \cup {Segment(tope, y, Missing)}
      <4>1. /\ Placed(lranges) /\ interval_a \in Nat /\ interval_b \in Nat
            /\ interval_a <= interval_b /\ tope \in Nat /\ interval_a <= tope
        BY <1>3
      <4>2. y = interval_b \/ \E u \in lranges : u.a = y + 1
        BY <3>1
      <4>3. /\ Behind(lranges, rest, tope)
            /\ tope = interval_a \/ \E u \in lranges : u.b + 1 = tope
        BY <2>1
      <4>4. QED  BY <3>2, <4>1, <4>2, <4>3, GapFrom
    <3>4. QED  BY <3>1, <3>3
  <2>3. QED  BY <2>1, <2>2
<1>6. g \in Blocks /\ g.a = tope /\ g.b = interval_b /\ g.position = Missing
  BY <1>3 DEF Segment, Blocks
<1> HIDE DEF g
<1>7. pr' \in Seq(Blocks) /\ ToSet(pr') = ToSet(pr) \cup {g}
  BY <1>1, <1>2, <1>6, Appended DEF InSecond
<1>8. Lined(pr', interval_a, interval_b + 1)
  BY <1>1, <1>2, <1>3, <1>6, LinedOn DEF InSecond
<1>9. WalkTypes'
  BY <1>1, <1>7 DEF WalkInv, WalkTypes
<1>10. (hit <=> IsHit(ToSet(pr)))'
  BY <1>1, <1>6, <1>7 DEF IsHit
<1>11. interval_b + 1 \in Nat /\ interval_b < interval_b + 1 /\ interval_b <= s.b
  BY <1>1, <1>3
<1>12. ToSet(pr') = Parts(lranges, interval_a, interval_b)
  BY <1>3, <1>5, <1>7, <1>11, AllParts
<1>13. LastInv'
  BY <1>1, <1>3, <1>8, <1>11, <1>12 DEF LastInv
<1>14. QED  BY <1>1, <1>9, <1>10, <1>13 DEF WalkInv

LEMMA EndsInStep ==
  ASSUME MapInv, WalkInv, NEW s \in rest, EndsIn(s)
  PROVE  WalkInv'
<1> USE DEF Segs
<1> DEFINE h == Hit(s, interval_a, interval_b)
<1>1. /\ at = "second" /\ at' = "last" /\ Here(s)
      /\ s.a <= interval_b /\ interval_b <= s.b
      /\ pr' = Append(UpTo(s), Segment(Larger(tope, s.a), interval_b, s.position))
      /\ hit' = (hit /\ ~(tope < s.a)) /\ tope' = s.b + 1
      /\ rest' = rest /\ lranges' = lranges
      /\ interval_a' = interval_a /\ interval_b' = interval_b
  BY DEF EndsIn, call
<1>2. InSecond(s)
  BY <1>1, SecondAt
<1>3. /\ Placed(lranges) /\ s \in Segs /\ s \in lranges /\ s.a <= s.b
      /\ interval_a \in Nat /\ interval_b \in Nat /\ interval_a <= interval_b
      /\ tope \in Nat /\ tope <= s.a
  BY <1>2 DEF InSecond
<1>4. Larger(tope, s.a) = s.a /\ Smaller(interval_b, s.b) = interval_b
  BY <1>1, <1>3 DEF Larger, Smaller
<1>5. /\ h \in Blocks /\ h.position # Missing
      /\ h.a = s.a /\ h.b = interval_b /\ h.a <= h.b
      /\ h = Segment(s.a, interval_b, s.position)
      /\ PartsTo(lranges, interval_a, interval_b, interval_b + 1)
           = PartsTo(lranges, interval_a, interval_b, s.a) \cup {h}
  BY <1>1, <1>2, <1>4, PartAt
<1>6. pr' = Append(UpTo(s), h)
  BY <1>1, <1>4, <1>5
<1> HIDE DEF h
<1>7. /\ UpTo(s) \in Seq(Blocks)
      /\ ToSet(UpTo(s)) = PartsTo(lranges, interval_a, interval_b, s.a)
      /\ Lined(UpTo(s), interval_a, s.a)
      /\ IsHit(ToSet(UpTo(s))) <=> hit /\ ~(tope < s.a)
  BY <1>1, <1>2, UpToIs
<1>8. pr' \in Seq(Blocks) /\ ToSet(pr') = ToSet(UpTo(s)) \cup {h}
  BY <1>5, <1>6, <1>7, Appended
<1>9. Lined(pr', interval_a, interval_b + 1)
  BY <1>5, <1>6, <1>7, LinedOn
<1>10. WalkTypes'
  BY <1>1, <1>8 DEF WalkInv, WalkTypes
<1>11. (hit <=> IsHit(ToSet(pr)))'
  BY <1>1, <1>5, <1>7, <1>8, HitsAndOne
<1>12. s.b + 1 \in Nat /\ interval_b < s.b + 1
       /\ interval_b + 1 \in Nat /\ interval_b < interval_b + 1
  BY <1>1, <1>3
<1>13. ToSet(pr') = Parts(lranges, interval_a, interval_b)
  BY <1>3, <1>5, <1>7, <1>8, <1>12, AllParts
<1>14. LastInv'
  BY <1>1, <1>3, <1>9, <1>12, <1>13 DEF LastInv
<1>15. QED  BY <1>1, <1>10, <1>11, <1>14 DEF WalkInv

LEMMA PassesStep ==
  ASSUME MapInv, WalkInv, NEW s \in rest, Passes(s)
  PROVE  WalkInv'
<1> USE DEF Segs
<1> DEFINE h == Hit(s, interval_a, interval_b)
<1>1. /\ at = "second" /\ at' = at /\ Here(s)
      /\ s.a <= interval_b /\ s.b < interval_b
      /\ pr' = Append(UpTo(s), s)
      /\ hit' = (hit /\ ~(tope < s.a)) /\ tope' = s.b + 1
      /\ rest' = rest \ {s} /\ lranges' = lranges
      /\ interval_a' = interval_a /\ interval_b' = interval_b
  BY DEF Passes, call
<1>2. InSecond(s)
  BY <1>1, SecondAt
<1>3. /\ Placed(lranges) /\ s \in Segs /\ s \in lranges /\ s.a <= s.b
      /\ interval_a \in Nat /\ interval_b \in Nat /\ interval_a <= interval_b
      /\ tope \in Nat /\ interval_a <= tope /\ tope <= s.a
      /\ rest \subseteq lranges /\ \A u \in rest : s.a <= u.a
  BY <1>2 DEF InSecond
<1>4. Smaller(interval_b, s.b) = s.b
  BY <1>1, <1>3 DEF Smaller
<1>5. /\ h \in Blocks /\ h.position # Missing
      /\ h.a = s.a /\ h.b = s.b /\ h.a <= h.b
      /\ h = Segment(s.a, s.b, s.position)
      /\ PartsTo(lranges, interval_a, interval_b, s.b + 1)
           = PartsTo(lranges, interval_a, interval_b, s.a) \cup {h}
  BY <1>1, <1>2, <1>4, PartAt
<1>6. h = s
  BY <1>3, <1>5 DEF Segment
<1> HIDE DEF h
<1>7. /\ UpTo(s) \in Seq(Blocks)
      /\ ToSet(UpTo(s)) = PartsTo(lranges, interval_a, interval_b, s.a)
      /\ Lined(UpTo(s), interval_a, s.a)
      /\ IsHit(ToSet(UpTo(s))) <=> hit /\ ~(tope < s.a)
  BY <1>1, <1>2, UpToIs
<1>8. pr' \in Seq(Blocks) /\ ToSet(pr') = ToSet(UpTo(s)) \cup {s}
  BY <1>1, <1>5, <1>6, <1>7, Appended
<1>9. Lined(pr', interval_a, s.b + 1)
  BY <1>1, <1>5, <1>6, <1>7, LinedOn
<1>10. WalkTypes'
  BY <1>1, <1>8 DEF WalkInv, WalkTypes
<1>11. (hit <=> IsHit(ToSet(pr)))'
  BY <1>1, <1>5, <1>6, <1>7, <1>8, HitsAndOne
<1>12. s.b + 1 \in Nat /\ interval_a <= s.b + 1 /\ s.b + 1 <= interval_b
       /\ interval_a <= s.b
  BY <1>1, <1>3
<1>13. \A u \in rest \ {s} : s.b + 1 <= u.a
  BY <1>3, OthersBehind
<1>14. Behind(lranges, rest \ {s}, s.b + 1)
  <2>1. ASSUME NEW u \in lranges \ (rest \ {s}) PROVE u.b < s.b + 1
    <3>1. CASE u = s
      BY <1>3, <3>1
    <3>2. CASE u \notin rest
      <4>1. u.b < tope /\ u \in Segs
        BY <1>2, <3>2 DEF InSecond, Behind
      <4>2. QED  BY <1>3, <4>1
    <3>3. QED  BY <3>1, <3>2
  <2>2. QED  BY <1>3, <2>1 DEF Behind
<1>15. ToSet(pr') = PartsTo(lranges, interval_a, interval_b, s.b + 1)
  BY <1>5, <1>6, <1>7, <1>8
<1>16. SecondInv'
  BY <1>1, <1>3, <1>9, <1>12, <1>13, <1>14, <1>15 DEF SecondInv
<1>17. QED  BY <1>1, <1>10, <1>11, <1>16 DEF WalkInv

LEMMA AfterLoopsStep ==
  ASSUME MapInv, WalkInv, AfterLoops
  PROVE  WalkInv'
<1> USE DEF Segs
<1> DEFINE lo == interval_a
           hi == interval_b
           all == Parts(lranges, lo, hi)
           g(t) == Segment(t, hi, Missing)
<1>1. /\ at' = "returned" /\ rest' = rest /\ lranges' = lranges
      /\ interval_a' = lo /\ interval_b' = hi
      /\ at = "last" \/ (at \in {"first", "second"} /\ rest = {})
  BY DEF AfterLoops, LoopsOver, call
<1>2. /\ Placed(lranges) /\ lo \in Nat /\ hi \in Nat /\ lo <= hi /\ pr \in Seq(Blocks)
      /\ \A u \in lranges : u \in Segs /\ u.a <= u.b
      /\ hit \in BOOLEAN /\ (hit <=> IsHit(ToSet(pr)))
  BY Ready DEF WalkInv, WalkTypes
<1>3. hi + 1 \in Nat /\ hi < hi + 1 /\ hi + 1 - 1 = hi
  BY <1>2
<1>4. PartsTo(lranges, lo, hi, hi + 1) = all
  BY <1>2, <1>3, AllParts
\* The gap from t to the end of the request.
<1>5. ASSUME NEW t \in Nat, lo <= t, t <= hi, rest = {}, Behind(lranges, rest, t),
             t = lo \/ \E u \in lranges : u.b + 1 = t
      PROVE  /\ g(t) \in Blocks /\ g(t).a = t /\ g(t).b = hi /\ g(t).position = Missing
             /\ all = PartsTo(lranges, lo, hi, t) \cup {g(t)}
  <2>1. g(t) \in Blocks /\ g(t).a = t /\ g(t).b = hi /\ g(t).position = Missing
    BY <1>2 DEF Segment, Blocks
  <2>2. PICK y \in Nat : y = hi
    BY <1>2
  <2>3. t <= y /\ y <= hi /\ \A u \in rest : y < u.a
    BY <1>2, <1>5, <2>2
  <2>4. PartsTo(lranges, lo, hi, y + 1)
          = PartsTo(lranges, lo, hi, t) \cup {Segment(t, y, Missing)}
    BY <1>2, <1>5, <2>2, <2>3, GapFrom
  <2>5. QED  BY <1>4, <2>1, <2>2, <2>4
<1>6. CASE at = "last"
  <2>1. LastInv
    BY <1>6 DEF WalkInv
  <2>2. tope # -1 /\ ~ (hi > tope)
    BY <1>2, <2>1 DEF LastInv
  <2>3. pr' = pr /\ hit' = hit
    BY <2>2 DEF AfterLoops
  <2>4. ~ TailLost(lranges, lo, hi)
    BY <1>2, <2>1, TailKept DEF LastInv
  <2>5. pr # <<>>
    <3>1. hi + 1 # lo
      BY <1>2
    <3>2. QED  BY <2>1, <3>1 DEF LastInv, Lined
  <2>6. getRangeWork(lranges, lo, hi) = all
    BY <2>4, WorkParts
  <2>7. ReturnedInv'
    BY <1>1, <2>1, <2>3, <2>4, <2>5, <2>6 DEF ReturnedInv, LastInv
  <2>8. WalkTypes'
    BY <1>1, <2>3 DEF WalkInv, WalkTypes
  <2>9. QED  BY <1>1, <1>2, <2>3, <2>7, <2>8 DEF WalkInv
<1>7. CASE at = "first" /\ rest = {}
  <2>1. Fresh /\ Behind(lranges, rest, lo)
    BY <1>7 DEF WalkInv, FirstInv
  <2>2. pr' = <<g(lo)>> /\ hit' = FALSE
    BY <2>1 DEF AfterLoops, Fresh
  <2>3. /\ g(lo) \in Blocks /\ g(lo).a = lo /\ g(lo).b = hi /\ g(lo).position = Missing
        /\ all = {g(lo)}
    <3>1. PartsTo(lranges, lo, hi, lo) = {}
      BY <1>2, NoPartsYet
    <3>2. lo <= lo
      BY <1>2
    <3>3. QED  BY <1>2, <1>5, <1>7, <2>1, <3>1, <3>2
  <2>4. ~ TailLost(lranges, lo, hi)
    <3>1. SUFFICES ASSUME TailLost(lranges, lo, hi) PROVE FALSE
      OBVIOUS
    <3>2. PICK u \in lranges : u.b = hi - 1 /\ lo < hi
      BY <3>1 DEF TailLost
    <3>3. u.b < lo
      BY <1>7, <2>1 DEF Behind
    <3>4. QED  BY <1>2, <3>2, <3>3
  <2> HIDE DEF g
  <2>5. /\ pr' \in Seq(Blocks) /\ pr' # <<>> /\ ToSet(pr') = {g(lo)}
        /\ Lined(pr', lo, hi + 1)
    BY <1>2, <2>2, <2>3, Single
  <2>6. getRangeWork(lranges, lo, hi) = all
    BY <2>4, WorkParts
  <2>7. ReturnedInv'
    BY <1>1, <2>3, <2>4, <2>5, <2>6 DEF ReturnedInv
  <2>8. WalkTypes'
    BY <1>1, <2>2, <2>5 DEF WalkInv, WalkTypes
  <2>9. (hit <=> IsHit(ToSet(pr)))'
    BY <2>2, <2>3, <2>5 DEF IsHit
  <2>10. QED  BY <1>1, <2>7, <2>8, <2>9 DEF WalkInv
<1>8. CASE at = "second" /\ rest = {}
  <2>1. SecondInv
    BY <1>8 DEF WalkInv
  <2>2. PICK s \in lranges : lo <= s.b /\ s.b + 1 = tope
    BY <1>8, <2>1 DEF SecondInv
  <2>3. /\ tope \in Nat /\ lo <= tope /\ tope <= hi /\ tope # -1
        /\ Behind(lranges, rest, tope) /\ s \in Segs
        /\ ToSet(pr) = PartsTo(lranges, lo, hi, tope)
        /\ Lined(pr, lo, tope)
    BY <1>2, <2>1 DEF SecondInv
  <2>4. ASSUME NEW u \in lranges PROVE u.b < tope
    BY <1>8, <2>3 DEF Behind
  <2>5. CASE hi > tope
    <3>1. pr' = Append(pr, g(tope)) /\ hit' = FALSE
      BY <2>3, <2>5 DEF AfterLoops
    <3>2. /\ g(tope) \in Blocks /\ g(tope).a = tope /\ g(tope).b = hi
          /\ g(tope).position = Missing
          /\ all = PartsTo(lranges, lo, hi, tope) \cup {g(tope)}
      BY <1>5, <1>8, <2>2, <2>3
    <3>3. ~ TailLost(lranges, lo, hi)
      <4>1. SUFFICES ASSUME TailLost(lranges, lo, hi) PROVE FALSE
        OBVIOUS
      <4>2. PICK u \in lranges : u.b = hi - 1
        BY <4>1 DEF TailLost
      <4>3. u.b < tope /\ u \in Segs
        BY <1>2, <2>4
      <4>4. QED  BY <1>2, <2>3, <2>5, <4>2, <4>3
    <3> HIDE DEF g
    <3>4. /\ pr' \in Seq(Blocks) /\ pr' # <<>> /\ ToSet(pr') = ToSet(pr) \cup {g(tope)}
      BY <1>2, <3>1, <3>2, Appended
    <3>5. Lined(pr', lo, hi + 1)
      BY <1>2, <2>3, <3>1, <3>2, LinedOn
    <3>6. getRangeWork(lranges, lo, hi) = all
      BY <3>3, WorkParts
    <3>7. ReturnedInv'
      BY <1>1, <2>3, <3>2, <3>3, <3>4, <3>5, <3>6 DEF ReturnedInv
    <3>8. WalkTypes'
      BY <1>1, <3>1, <3>4 DEF WalkInv, WalkTypes
    <3>9. (hit <=> IsHit(ToSet(pr)))'
      BY <3>1, <3>2, <3>4 DEF IsHit
    <3>10. QED  BY <1>1, <3>7, <3>8, <3>9 DEF WalkInv
  <2>6. CASE ~ (hi > tope)
    <3>1. pr' = pr /\ hit' = hit
      BY <2>3, <2>6 DEF AfterLoops
    <3>2. tope = hi /\ lo < hi /\ s.b = hi - 1
      BY <1>2, <2>2, <2>3, <2>6
    <3>3. TailLost(lranges, lo, hi)
      BY <2>4, <3>2 DEF TailLost
    <3>4. getRangeWork(lranges, lo, hi) = ToSet(pr)
      BY <1>2, <2>3, <3>2, <3>3, TailWork
    <3>5. pr # <<>>
      BY <1>2, <2>3, <3>2 DEF Lined
    <3>6. ReturnedInv'
      BY <1>1, <2>3, <3>1, <3>2, <3>3, <3>4, <3>5 DEF ReturnedInv
    <3>7. WalkTypes'
      BY <1>1, <3>1 DEF WalkInv, WalkTypes
    <3>8. QED  BY <1>1, <1>2, <3>1, <3>6, <3>7 DEF WalkInv
  <2>7. QED  BY <2>5, <2>6
<1>9. QED  BY <1>1, <1>6, <1>7, <1>8

(***************************************************************************)
(* The map.                                                                *)
(***************************************************************************)

\* Appending leaves no hole and names no byte but the old ones and the new.
LEMMA AppendFills ==
  ASSUME NEW S, Placed(S), NEW n, Fits(S, n), Filled(S)
  PROVE  Filled(appendNode(S, n)) /\ \A u \in appendNode(S, n) : u \in S \/ u.b = n.b
<1> USE DEF Segs
<1> DEFINE T == appendNode(S, n)
           end == getPointEnd(S)
           At(u, p) == u.position <= p /\ p < DiskEnd(u)
<1>1. n \in Segs /\ n.a <= n.b /\ n.position = end /\ end \in Nat
  BY PointEnd DEF Fits
<1>2. \A u \in S : u \in Segs /\ u.a <= u.b
  BY DEF Placed
<1>3. getPointEnd(T) = DiskEnd(n)
  BY AppendPointEnd
<1> HIDE DEF end, T
<1>4. ASSUME \A u \in S : \E v \in T : \A p \in Nat : At(u, p) => At(v, p),
             \E v \in T : \A p \in Nat : At(n, p) => At(v, p)
      PROVE  Filled(T)
  <2>1. SUFFICES ASSUME NEW p \in 0 .. DiskEnd(n) - 1 PROVE \E v \in T : At(v, p)
    BY <1>3 DEF Filled
  <2>2. DiskEnd(n) \in Nat
    BY <1>1 DEF DiskEnd, Length
  <2>3. p \in Nat /\ p < DiskEnd(n)
    BY <2>2
  <2>4. CASE p < end
    <3>1. p \in 0 .. end - 1
      BY <1>1, <2>3, <2>4
    <3>2. PICK u \in S : At(u, p)
      BY <3>1 DEF Filled, end
    <3>3. QED  BY <1>4, <2>3, <3>2
  <2>5. CASE ~ (p < end)
    <3>1. At(n, p)
      BY <1>1, <2>3, <2>5
    <3>2. QED  BY <1>4, <2>3, <3>1
  <2>6. QED  BY <2>4, <2>5
<1>5. CASE T = S \cup {n}
  <2>1. Filled(T)
    BY <1>4, <1>5
  <2>2. QED  BY <1>5, <2>1 DEF T
<1>6. CASE \E last \in S :
             /\ T = (S \ {last}) \cup {Grown(last, n)}
             /\ last.b + 1 = n.a
             /\ DiskEnd(last) = n.position
  <2>1. PICK last \in S : /\ T = (S \ {last}) \cup {Grown(last, n)}
                          /\ last.b + 1 = n.a
                          /\ DiskEnd(last) = n.position
    BY <1>6
  <2>2. PICK g \in Segs : /\ g = Grown(last, n)
                          /\ g.b = n.b
                          /\ g.position = last.position
                          /\ DiskEnd(g) = DiskEnd(n)
    BY <1>1, <1>2, <2>1, GrownNode
  <2>3. g \in T /\ last \in Segs /\ last.a <= last.b
    BY <1>2, <2>1, <2>2
  <2>4. /\ DiskEnd(last) \in Nat /\ DiskEnd(n) \in Nat
        /\ last.position <= n.position /\ DiskEnd(last) <= DiskEnd(n)
    BY <1>1, <2>1, <2>3 DEF DiskEnd, Length
  <2>5. \A p \in Nat : (At(last, p) => At(g, p)) /\ (At(n, p) => At(g, p))
    BY <1>1, <2>2, <2>3, <2>4
  <2> HIDE DEF At
  <2>6. \A u \in S : \E v \in T : \A p \in Nat : At(u, p) => At(v, p)
    <3>1. ASSUME NEW u \in S, u # last PROVE u \in T
      BY <2>1, <3>1
    <3>2. QED  BY <2>3, <2>5, <3>1
  <2>7. Filled(T)
    BY <1>4, <2>3, <2>5, <2>6
  <2>8. QED  BY <2>1, <2>2, <2>7 DEF T
<1>7. QED  BY <1>5, <1>6, AppendNode DEF T

\* A block of the returned list that is not in the cache file, once it is
\* there.
LEMMA MissingFits ==
  ASSUME MapInv, WalkInv, at = "returned",
         NEW block \in ToSet(pr), block.position = Missing
  PROVE  /\ Fits(lranges, [block EXCEPT !.position = getPointEnd(lranges)])
         /\ block \in Blocks /\ block.a <= block.b /\ block.b \in Offsets
<1> USE DEF Blocks
<1> DEFINE n == [block EXCEPT !.position = getPointEnd(lranges)]
<1>1. /\ Placed(lranges) /\ interval_a \in Nat /\ interval_b \in Nat
      /\ interval_a <= interval_b
  BY Ready
<1>2. block \in getRangeWork(lranges, interval_a, interval_b)
  BY DEF WalkInv, ReturnedInv
<1>3. block \in Blocks /\ block.a <= block.b /\ block.b <= interval_b
  BY <1>1, <1>2, WorkBlocks DEF Segs
<1>4. \A s \in lranges : Clear(s, block)
  BY <1>1, <1>2, WorkPlaces
<1>5. getPointEnd(lranges) \in Nat
  BY <1>1, PointEnd
<1>6. n \in Segs /\ n.a = block.a /\ n.b = block.b /\ n.position = getPointEnd(lranges)
  BY <1>3, <1>5 DEF Segs
<1>7. Fits(lranges, n)
  BY <1>3, <1>4, <1>6 DEF Fits, Clear
<1>8. block.b \in Offsets
  <2>1. interval_b \in Offsets
    BY DEF WalkInv, WalkTypes
  <2>2. block.b \in 0 .. interval_b
    BY <1>1, <1>3
  <2>3. QED  BY <2>1, <2>2, OffsetsAre
<1>9. QED  BY <1>3, <1>7, <1>8

LEMMA LeaveStep == ASSUME Leave PROVE WalkInv'
<1>1. at' = "out" /\ pr' = <<>> /\ tope' = -1 /\ hit' = TRUE /\ rest' = {}
      /\ interval_a' = 0 /\ interval_b' = 0
  BY DEF Leave
<1>2. pr' \in Seq(Blocks)
  BY <1>1
<1>3. WalkTypes'
  BY <1>1, <1>2, OffsetsAre DEF WalkTypes, Offsets
<1>4. (hit <=> IsHit(ToSet(pr)))'
  BY <1>1, NothingIsHit
<1>5. QED  BY <1>1, <1>3, <1>4 DEF WalkInv, Fresh

LEMMA SubNodeIs ==
  ASSUME NEW S, NEW n, NEW length, NEW last, last = n.a + length - 1
  PROVE  appendSubNode(S, n, length) = appendNode(S, [n EXCEPT !.b = last])
BY DEF appendSubNode

LEMMA DownloadStep ==
  ASSUME MapInv, WalkInv, Download
  PROVE  MapInv'
<1>1. PICK block \in ToSet(pr), length \in 1 .. Size :
        /\ block.position = Missing
        /\ length <= Length(block)
        /\ lranges' = appendSubNode(lranges,
                                    [block EXCEPT !.position = getPointEnd(lranges)],
                                    length)
  BY DEF Download
<1>2. at = "returned" /\ Placed(lranges) /\ Filled(lranges)
  BY DEF Download, MapInv
<1>3. PICK n : n = [block EXCEPT !.position = getPointEnd(lranges)]
  OBVIOUS
<1>4. /\ Fits(lranges, n)
      /\ block \in Blocks /\ block.a <= block.b /\ block.b \in Offsets
      /\ n.a = block.a /\ n.b = block.b /\ n \in Segs
  <2>1. /\ Fits(lranges, n)
        /\ block \in Blocks /\ block.a <= block.b /\ block.b \in Offsets
    BY <1>1, <1>2, <1>3, MissingFits
  <2>2. QED  BY <1>3, <2>1 DEF Blocks, Fits
<1>5. PICK x : x = n.a + length
  OBVIOUS
<1>6. x \in Nat /\ n.a + 1 <= x /\ x <= n.b + 1
  <2>1. length \in Nat /\ 1 <= length
    BY SizeAssumption
  <2>2. QED  BY <1>1, <1>4, <1>5, <2>1 DEF Length, Segs
<1> DEFINE part == [n EXCEPT !.b = x - 1]
<1>7. lranges' = appendNode(lranges, part) /\ Fits(lranges, part) /\ part.b = x - 1
  <2>1. lranges' = appendSubNode(lranges, n, length)
    BY <1>1, <1>3
  <2>2. x - 1 = n.a + length - 1
    BY <1>4, <1>5, SizeAssumption DEF Segs
  <2>3. QED  BY <1>2, <1>4, <1>6, <2>1, <2>2, SubNodeIs, PartFits
<1>8. part.b \in Offsets
  <2>1. part.b \in 0 .. n.b
    BY <1>4, <1>6, <1>7 DEF Segs
  <2>2. QED  BY <1>4, <2>1, OffsetsAre
<1> HIDE DEF part
<1>9. Placed(lranges')
  BY <1>2, <1>7, AppendPlaced
<1>10. Filled(lranges') /\ \A u \in lranges' : u \in lranges \/ u.b = part.b
  BY <1>2, <1>7, AppendFills
<1>11. \A u \in lranges' : u.b \in Offsets
  BY <1>8, <1>10 DEF MapInv
<1>12. MapInv' <=> /\ Placed(lranges')
                   /\ \A s \in lranges' : s.b \in Offsets
                   /\ Filled(lranges')
  BY DEF MapInv, Offsets
<1>13. QED  BY <1>9, <1>10, <1>11, <1>12

LEMMA InitInv == ASSUME Init PROVE MapInv /\ WalkInv
<1>1. lranges = {} /\ at = "out" /\ pr = <<>> /\ tope = -1 /\ hit = TRUE
      /\ rest = {} /\ interval_a = 0 /\ interval_b = 0
  BY DEF Init, Idle
<1>2. WalkTypes
  <2>1. pr \in Seq(Blocks)
    BY <1>1
  <2>2. QED  BY <1>1, <2>1, OffsetsAre DEF WalkTypes
<1>3. WalkInv
  BY <1>1, <1>2, NothingIsHit DEF WalkInv, Fresh
<1>4. getPointEnd(lranges) = 0
  BY <1>1 DEF getPointEnd
<1>5. MapInv
  BY <1>1, <1>4, EmptyPlaced DEF MapInv, Filled
<1>6. QED  BY <1>3, <1>5

\* One lemma for each turn, and the map changes in one step only.
LEMMA NextStep ==
  ASSUME MapInv, WalkInv, [Next]_vars
  PROVE  MapInv' /\ WalkInv'
<1>1. ASSUME lranges' = lranges PROVE MapInv'
  BY <1>1 DEF MapInv
<1>2. CASE Call
  BY <1>1, <1>2, CallStep DEF Call
<1>3. ASSUME NEW s \in rest,
             \/ PassBy(s) \/ StartsBefore(s) \/ StartsIn(s)
             \/ EndsBefore(s) \/ EndsIn(s) \/ Passes(s)
      PROVE  MapInv' /\ WalkInv'
  <2>1. lranges' = lranges
    BY <1>3 DEF PassBy, StartsBefore, StartsIn, EndsBefore, EndsIn, Passes
  <2>2. WalkInv'
    BY <1>3, PassByStep, StartsBeforeStep, StartsInStep, EndsBeforeStep, EndsInStep,
       PassesStep
  <2>3. QED  BY <1>1, <2>1, <2>2
<1>4. CASE AfterLoops
  BY <1>1, <1>4, AfterLoopsStep DEF AfterLoops
<1>5. CASE Download
  BY <1>5, DownloadStep, LeaveStep DEF Download
<1>6. CASE GiveUp
  BY <1>1, <1>6, LeaveStep DEF GiveUp
<1>7. CASE UNCHANGED vars
  <2>1. /\ lranges' = lranges /\ at' = at /\ rest' = rest /\ tope' = tope /\ pr' = pr
        /\ hit' = hit /\ interval_a' = interval_a /\ interval_b' = interval_b
    BY <1>7 DEF vars, call
  <2>2. WalkInv'
    BY <2>1 DEF WalkInv, WalkTypes, Fresh, FirstInv, SecondInv, LastInv, ReturnedInv
  <2>3. QED  BY <1>1, <2>1, <2>2
<1>8. QED  BY <1>2, <1>3, <1>4, <1>5, <1>6, <1>7 DEF Next, Turn

(***************************************************************************)
(* The theorems.                                                           *)
(***************************************************************************)

LEMMA Invariant == Spec => [](MapInv /\ WalkInv)
<1> DEFINE Inv == MapInv /\ WalkInv
<1>1. Init => Inv
  BY InitInv
<1>2. Inv /\ [Next]_vars => Inv'
  BY NextStep
<1> HIDE DEF Inv
<1>3. Spec => []Inv
  BY <1>1, <1>2, PTL DEF Spec
<1>4. QED  BY <1>3 DEF Inv

\* The byte of a segment is where the segment says.
LEMMA WhereIs ==
  ASSUME NEW S, Placed(S), NEW s \in S, NEW x \in Bytes(s)
  PROVE  Where(S, x) = s.position + x - s.a
<1>1. ASSUME NEW u \in S, x \in Bytes(u) PROVE u = s
  <2>1. u \in Segs /\ s \in Segs /\ x \in Nat
    BY DEF Placed, Bytes, Segs
  <2>2. u # s => Clear(u, s)
    BY DEF Placed
  <2>3. QED  BY <1>1, <2>1, <2>2 DEF Clear, Bytes, Segs
<1>2. (CHOOSE u \in S : x \in Bytes(u)) = s
  BY <1>1
<1>3. QED  BY <1>2 DEF Where

LEMMA MapIs == ASSUME MapInv PROVE MapOK
<1> USE DEF Segs
<1> DEFINE end == getPointEnd(lranges)
<1>1. Placed(lranges) /\ end \in Nat /\ \A s \in lranges : DiskEnd(s) <= end
  BY PointEnd DEF MapInv
<1>2. \A s \in lranges : s \in Segs /\ s.a <= s.b
  BY <1>1 DEF Placed
<1>3. ASSUME NEW s \in lranges PROVE Bytes(s) \subseteq Offsets
  <2>1. s.b \in Offsets
    BY DEF MapInv
  <2>2. Bytes(s) \subseteq 0 .. s.b
    BY <1>2 DEF Bytes
  <2>3. QED  BY <2>1, <2>2, OffsetsAre
<1>4. ASSUME NEW s \in lranges, NEW t \in lranges, s # t
      PROVE  Bytes(s) \cap Bytes(t) = {}
  <2>1. Clear(s, t)
    BY <1>1, <1>4 DEF Placed
  <2>2. s \in Segs /\ t \in Segs
    BY <1>2
  <2>3. QED  BY <2>1, <2>2 DEF Clear, Bytes
<1>5. ASSUME NEW x \in Covered(lranges) PROVE Where(lranges, x) \in 0 .. end - 1
  <2>1. PICK s \in lranges : x \in Bytes(s)
    BY DEF Covered
  <2>2. Where(lranges, x) = s.position + x - s.a
    BY <1>1, <2>1, WhereIs
  <2>3. s \in Segs /\ DiskEnd(s) <= end
    BY <1>1, <1>2
  <2>4. x \in Nat /\ s.a <= x /\ x <= s.b
    BY <2>1, <2>3 DEF Bytes
  <2>5. QED  BY <1>1, <2>2, <2>3, <2>4 DEF DiskEnd, Length
<1>6. ASSUME NEW p \in 0 .. end - 1
      PROVE  \E x \in Covered(lranges) : Where(lranges, x) = p
  <2>1. PICK s \in lranges : s.position <= p /\ p < DiskEnd(s)
    BY DEF MapInv, Filled
  <2>2. PICK x \in Nat : x = s.a + p - s.position
    BY <1>1, <1>2, <2>1
  <2>3. s \in Segs /\ p \in Nat
    BY <1>1, <1>2
  <2>4. x \in Bytes(s)
    BY <2>1, <2>2, <2>3 DEF Bytes, DiskEnd, Length
  <2>5. Where(lranges, x) = s.position + x - s.a
    BY <1>1, <2>4, WhereIs
  <2>6. s.position + x - s.a = p
    BY <2>2, <2>3
  <2>7. QED  BY <2>4, <2>5, <2>6 DEF Covered
<1>7. {Where(lranges, x) : x \in Covered(lranges)} = 0 .. end - 1
  BY <1>5, <1>6
<1>8. QED  BY <1>2, <1>3, <1>4, <1>7 DEF MapOK

\* The map that downloads build names every byte and every place once, and the
\* cache file has no hole below getPointEnd().
THEOREM MapIsWhole == Spec => []MapOK
BY Invariant, MapIs, PTL

\* The two loops of getRangeWork() return the pieces of segments and the gaps
\* of the request, no more and no less but for the lost tail, and `hit` says of
\* the list what IsHit() says of the set.
THEOREM LoopsReturnTheWork == Spec => []WalkAgrees
<1>1. WalkInv => WalkAgrees
  BY DEF WalkInv, ReturnedInv, WalkAgrees
<1>2. QED  BY <1>1, Invariant, PTL

\* What is read from the cache file is read from where it is, and what is
\* downloaded is not there.
THEOREM BlocksAreSound == Spec => []WorkSound
<1>1. ASSUME MapInv, WalkInv, at = "returned", NEW i \in DOMAIN pr
      PROVE  IF pr[i].position = Missing
             THEN Bytes(pr[i]) \cap Covered(lranges) = {}
             ELSE \A x \in Bytes(pr[i]) :
                    pr[i].position + x - pr[i].a = Where(lranges, x)
  <2> USE DEF Segs
  <2>1. PICK w : w = pr[i]
    OBVIOUS
  <2>2. w \in getRangeWork(lranges, interval_a, interval_b)
    BY <1>1, <2>1 DEF WalkInv, ReturnedInv, ToSet
  <2>3. /\ Placed(lranges) /\ interval_a \in Nat /\ interval_b \in Nat
        /\ interval_a <= interval_b
        /\ \A s \in lranges : s \in Segs /\ s.a <= s.b
    BY <1>1, Ready
  <2>4. CASE w.position = Missing
    <3>1. \A s \in lranges : Clear(s, w)
      BY <2>2, <2>3, <2>4, WorkPlaces
    <3>2. w.a \in Nat /\ w.b \in Nat
      BY <2>2, <2>3, WorkBlocks DEF Blocks
    <3>3. ASSUME NEW s \in lranges, NEW x \in Bytes(w) PROVE x \notin Bytes(s)
      <4>1. Clear(s, w) /\ s \in Segs
        BY <2>3, <3>1
      <4>2. QED  BY <3>2, <4>1 DEF Clear, Bytes
    <3>4. QED  BY <2>1, <2>4, <3>3 DEF Covered
  <2>5. CASE w.position # Missing
    <3>1. PICK s \in lranges : w \in Segs /\ Inside(w, s)
      BY <2>2, <2>3, <2>5, WorkPlaces
    <3>2. ASSUME NEW x \in Bytes(w) PROVE w.position + x - w.a = Where(lranges, x)
      <4>1. s \in Segs /\ x \in Nat /\ w.a <= x /\ x <= w.b
        BY <2>3, <3>1 DEF Bytes
      <4>2. x \in Bytes(s)
        BY <3>1, <4>1 DEF Bytes, Inside
      <4>3. Where(lranges, x) = s.position + x - s.a
        BY <2>3, <4>2, WhereIs
      <4>4. QED  BY <3>1, <4>1, <4>3 DEF Inside
    <3>3. QED  BY <2>1, <2>5, <3>2
  <2>6. QED  BY <2>4, <2>5
<1>2. MapInv /\ WalkInv => WorkSound
  BY <1>1 DEF WorkSound
<1>3. QED  BY <1>2, Invariant, PTL

\* The list is the request from its first byte on, block behind block, and ends
\* with its last byte, or with the one before it when all of that is there.
THEOREM OnlyTheTailIsLost == Spec => []OnlyTheTail
<1>1. ASSUME MapInv, WalkInv, at = "returned"
      PROVE  OnlyTheTail
  <2>1. ReturnedInv /\ interval_b \in Nat
    BY <1>1, Ready DEF WalkInv
  <2>2. PICK lost \in BOOLEAN : lost = TailLost(lranges, interval_a, interval_b)
    BY DEF TailLost
  <2>3. /\ pr # <<>> /\ pr[1].a = interval_a
        /\ pr[Len(pr)].b + 1 = IF lost THEN interval_b ELSE interval_b + 1
        /\ \A i \in DOMAIN pr : pr[i].a <= pr[i].b
        /\ \A i \in 1 .. Len(pr) - 1 : pr[i + 1].a = pr[i].b + 1
    BY <2>1, <2>2 DEF ReturnedInv, Lined
  <2>4. pr[Len(pr)].b \in Nat
    <3>1. pr \in Seq(Blocks)
      BY <1>1, Ready
    <3>2. Len(pr) \in 1 .. Len(pr)
      BY <2>3, <3>1, EmptySeq, LenProperties
    <3>3. pr[Len(pr)] \in Blocks
      BY <3>1, <3>2, ElementOfSeq
    <3>4. QED  BY <3>3 DEF Blocks
  <2>5. pr[Len(pr)].b = IF lost THEN interval_b - 1 ELSE interval_b
    <3>1. PICK last \in Nat : last = pr[Len(pr)].b
      BY <2>4
    <3>2. last + 1 = IF lost THEN interval_b ELSE interval_b + 1
      BY <2>3, <3>1
    <3>3. last = IF lost THEN interval_b - 1 ELSE interval_b
      BY <2>1, <3>2
    <3>4. QED  BY <3>1, <3>3
  <2>6. QED  BY <2>2, <2>3, <2>5 DEF OnlyTheTail
<1>2. MapInv /\ WalkInv => OnlyTheTail
  BY <1>1 DEF OnlyTheTail
<1>3. QED  BY <1>2, Invariant, PTL

=============================================================================
