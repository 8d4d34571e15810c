------------------------------ MODULE Segments ------------------------------
(***************************************************************************)
(* The map of a cache file: utils.cpp's list of intervalPositionByteDisk.  *)
(* A segment [a, b, position] says that the bytes a .. b of the original   *)
(* file are at position, position + 1, ... of the cache file.  The lists   *)
(* are sets here: every function sorts its list by `a` or picks one node   *)
(* by its position, and the positions of a list differ.                    *)
(*                                                                         *)
(* getRangeWork() is stated here as the set of blocks it returns; module   *)
(* RangeWalk has the code's walk along the list, and shows that it agrees.  *)
(***************************************************************************)
EXTENDS Integers

\* The position of a block that has to be downloaded.
Missing == -1

Segment(a, b, position) == [a |-> a, b |-> b, position |-> position]

Bytes(s) == s.a .. s.b
Length(s) == s.b - s.a + 1
DiskEnd(s) == s.position + Length(s)

\* What the blocks of a list cover of the original file.
Covered(S) == UNION {Bytes(s) : s \in S}

Larger(x, y) == IF x > y THEN x ELSE y
Smaller(x, y) == IF x < y THEN x ELSE y

(***************************************************************************)
(* The end of the list.                                                    *)
(***************************************************************************)

\* The node with the largest position.
getlastnode(S) == CHOOSE s \in S : \A t \in S : t.position <= s.position

\* Where the next new block goes on the disk.
getPointEnd(S) == IF S = {} THEN 0 ELSE DiskEnd(getlastnode(S))

\* The last byte of the original file that the list has.
getExtremeb(S) ==
  IF S = {} THEN -1 ELSE (CHOOSE s \in S : \A t \in S : t.b <= s.b).b

\* Mutant of appendNode: the last node grows whatever follows it.
AppendAnywhere(S, n) ==
  IF S = {} THEN {n}
  ELSE LET last == getlastnode(S)
       IN  (S \ {last}) \cup {[last EXCEPT !.b = n.b]}

\* A block that continues the last node extends it, any other is a new node.
appendNode(S, n) ==
  IF S = {} \/ getlastnode(S).b + 1 # n.a THEN S \cup {n}
  ELSE LET last == getlastnode(S)
       IN  (S \ {last}) \cup {[last EXCEPT !.b = n.b]}

\* The first `length` bytes of a block.
appendSubNode(S, n, length) == appendNode(S, [n EXCEPT !.b = n.a + length - 1])

\* From a block of the work on, everything is in the cache file.
is_all_hit(work, from) ==
  \A w \in work : w.a >= from.a => w.position # Missing

(***************************************************************************)
(* The work of a request for lo .. hi.                                     *)
(***************************************************************************)

\* What the cache file has of the request, segment by segment.
HitBlocks(S, lo, hi) ==
  {Segment(Larger(lo, s.a), Smaller(hi, s.b),
           s.position + Larger(lo, s.a) - s.a) :
     s \in {t \in S : t.b >= lo /\ t.a <= hi}}

\* The gaps between them.
MissBlocks(S, lo, hi) ==
  LET free == (lo .. hi) \ Covered(S)
      first == {x \in free : x - 1 \notin free}
      last == {x \in free : x + 1 \notin free}
  IN  {Segment(x, CHOOSE y \in last : y >= x /\ x .. y \subseteq free, Missing) :
         x \in first}

\* `interval_b > tope`: a last gap of exactly one byte is left out.
TailLost(S, lo, hi) ==
  /\ lo < hi
  /\ \E s \in S : s.b = hi - 1
  /\ \A s \in S : s.b < hi

\* The blocks of the request, in the order of their first bytes.
getRangeWork(S, lo, hi) ==
  HitBlocks(S, lo, hi)
    \cup {m \in MissBlocks(S, lo, hi) : TailLost(S, lo, hi) => m.a # hi}

\* The flag it returns: nothing to download.
IsHit(work) == \A w \in work : w.position # Missing
=============================================================================
