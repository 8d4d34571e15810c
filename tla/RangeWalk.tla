----------------------------- MODULE RangeWalk -----------------------------
(***************************************************************************)
(* getRangeWork() as utils.cpp computes it: two loops along the list of    *)
(* segments, sorted by their first bytes, one action per turn.  It is      *)
(* called for requests on a map that grows by what they download, so that  *)
(* every map the program can build is walked, and what is returned is      *)
(* compared with the set of blocks that Segments states.                   *)
(***************************************************************************)
EXTENDS Segments, Sequences, SequencesExt

CONSTANT Size  \* the bytes of the original file

ASSUME SizeAssumption == Size \in Nat \ {0}

VARIABLES
  lranges,                 \* the map of the file, as the database keeps it
  at,                      \* "out" of getRangeWork(), or where in it
  interval_a, interval_b,  \* the request
  rest,                    \* the segments from the iterator to end()
  tope,                    \* the first byte not dealt with, -1: not found yet
  pr,                      \* the blocks, in the order they will be served
  hit                      \* the flag: nothing to download

call == <<interval_a, interval_b>>
vars == <<lranges, at, call, rest, tope, pr, hit>>

Offsets == 0 .. Size - 1

Idle ==
  /\ at = "out" /\ interval_a = 0 /\ interval_b = 0
  /\ rest = {} /\ tope = -1 /\ pr = <<>> /\ hit = TRUE

Init == lranges = {} /\ Idle

Call ==
  /\ at = "out"
  /\ \E lo, hi \in Offsets :
       lo <= hi /\ interval_a' = lo /\ interval_b' = hi
  /\ rest' = lranges
  /\ at' = "first"
  /\ UNCHANGED <<lranges, tope, pr, hit>>

\* The iterator is at s: the list is sorted.
Here(s) == s \in rest /\ \A t \in rest : s.a <= t.a

(***************************************************************************)
(* The first loop looks for the segment that the request starts in.        *)
(***************************************************************************)

PassBy(s) ==
  /\ at = "first" /\ Here(s)
  /\ s.a <= interval_a /\ s.b < interval_a
  /\ rest' = rest \ {s}
  /\ UNCHANGED <<lranges, at, call, tope, pr, hit>>

StartsBefore(s) ==
  /\ at = "first" /\ Here(s)
  /\ interval_a < s.a
  /\ tope' = interval_a
  /\ at' = "second"
  /\ UNCHANGED <<lranges, call, rest, pr, hit>>

\* Mutant: the block is read from where the segment starts.
StartsAtStart(s) ==
  /\ at = "first" /\ Here(s)
  /\ s.a <= interval_a /\ interval_a <= s.b
  /\ pr' = <<Segment(interval_a, Smaller(interval_b, s.b), s.position)>>
  /\ IF interval_b <= s.b
       THEN at' = "returned" /\ UNCHANGED <<rest, tope>>
       ELSE at' = "second" /\ rest' = rest \ {s} /\ tope' = s.b + 1
  /\ UNCHANGED <<lranges, call, hit>>

StartsIn(s) ==
  /\ at = "first" /\ Here(s)
  /\ s.a <= interval_a /\ interval_a <= s.b
  /\ pr' = <<Segment(interval_a, Smaller(interval_b, s.b),
                     s.position + interval_a - s.a)>>
  /\ IF interval_b <= s.b
       THEN at' = "returned" /\ UNCHANGED <<rest, tope>>
       ELSE at' = "second" /\ rest' = rest \ {s} /\ tope' = s.b + 1
  /\ UNCHANGED <<lranges, call, hit>>

(***************************************************************************)
(* The second loop goes on to the segment that the request ends in.        *)
(***************************************************************************)

EndsBefore(s) ==
  /\ at = "second" /\ Here(s)
  /\ interval_b < s.a
  /\ pr' = Append(pr, Segment(tope, interval_b, Missing))
  /\ hit' = FALSE
  /\ tope' = interval_b + 1
  /\ at' = "last"
  /\ UNCHANGED <<lranges, call, rest>>

\* The gap in front of s, if there is one.
UpTo(s) ==
  IF tope < s.a THEN Append(pr, Segment(tope, s.a - 1, Missing)) ELSE pr

EndsIn(s) ==
  /\ at = "second" /\ Here(s)
  /\ s.a <= interval_b /\ interval_b <= s.b
  /\ pr' = Append(UpTo(s), Segment(Larger(tope, s.a), interval_b, s.position))
  /\ hit' = (hit /\ ~(tope < s.a))
  /\ tope' = s.b + 1
  /\ at' = "last"
  /\ UNCHANGED <<lranges, call, rest>>

\* Mutant: the gap in front of the segment is forgotten.
PassesGap(s) ==
  /\ at = "second" /\ Here(s)
  /\ s.a <= interval_b /\ s.b < interval_b
  /\ pr' = Append(pr, s)
  /\ hit' = (hit /\ ~(tope < s.a))
  /\ tope' = s.b + 1
  /\ rest' = rest \ {s}
  /\ UNCHANGED <<lranges, at, call>>

Passes(s) ==
  /\ at = "second" /\ Here(s)
  /\ s.a <= interval_b /\ s.b < interval_b
  /\ pr' = Append(UpTo(s), s)
  /\ hit' = (hit /\ ~(tope < s.a))
  /\ tope' = s.b + 1
  /\ rest' = rest \ {s}
  /\ UNCHANGED <<lranges, at, call>>

(***************************************************************************)
(* Behind the loops.                                                       *)
(***************************************************************************)

LoopsOver == at = "last" \/ (at \in {"first", "second"} /\ rest = {})

\* Mutant: the flag does not notice a last gap.
AfterLoopsKeepsHit ==
  /\ LoopsOver
  /\ IF tope = -1
       THEN pr' = <<Segment(interval_a, interval_b, Missing)>> /\ hit' = FALSE
       ELSE /\ pr' = IF interval_b > tope
                     THEN Append(pr, Segment(tope, interval_b, Missing)) ELSE pr
            /\ UNCHANGED hit
  /\ at' = "returned"
  /\ UNCHANGED <<lranges, call, rest, tope>>

AfterLoops ==
  /\ LoopsOver
  /\ IF tope = -1
       THEN pr' = <<Segment(interval_a, interval_b, Missing)>> /\ hit' = FALSE
       ELSE IF interval_b > tope
       THEN pr' = Append(pr, Segment(tope, interval_b, Missing)) /\ hit' = FALSE
       ELSE UNCHANGED <<pr, hit>>
  /\ at' = "returned"
  /\ UNCHANGED <<lranges, call, rest, tope>>

Turn ==
  \/ \E s \in rest :
       \/ PassBy(s) \/ StartsBefore(s) \/ StartsIn(s)
       \/ EndsBefore(s) \/ EndsIn(s) \/ Passes(s)
  \/ AfterLoops

(***************************************************************************)
(* What is done with the blocks.                                           *)
(***************************************************************************)

Leave ==
  /\ at' = "out" /\ interval_a' = 0 /\ interval_b' = 0
  /\ rest' = {} /\ tope' = -1 /\ pr' = <<>> /\ hit' = TRUE

\* The first `length` bytes of a missing block arrive, or all of them.
Download ==
  /\ at = "returned"
  /\ \E block \in ToSet(pr), length \in 1 .. Size :
       /\ block.position = Missing
       /\ length <= Length(block)
       /\ lranges' = appendSubNode(lranges,
                                   [block EXCEPT !.position = getPointEnd(lranges)],
                                   length)
  /\ Leave

\* Nothing arrives, or nothing is missing.
GiveUp == at = "returned" /\ Leave /\ UNCHANGED lranges

Next == Call \/ Turn \/ Download \/ GiveUp

Spec == Init /\ [][Next]_vars

(***************************************************************************)
(* Properties.                                                             *)
(***************************************************************************)

\* The disk position of a byte of the original file.
Where(S, x) ==
  LET s == CHOOSE s \in S : x \in Bytes(s) IN s.position + x - s.a

\* No byte is in two segments, no disk position holds two bytes, and the
\* segments fill the cache file from 0 to getPointEnd without a hole.
MapOK ==
  /\ \A s \in lranges : s.a <= s.b /\ Bytes(s) \subseteq Offsets
  /\ \A s, t \in lranges : s # t => Bytes(s) \cap Bytes(t) = {}
  /\ {Where(lranges, x) : x \in Covered(lranges)}
       = 0 .. getPointEnd(lranges) - 1

\* The walk returns the blocks that Segments states, and the flag that is true
\* of them, for every request on every map.
WalkAgrees ==
  at = "returned" =>
    LET work == getRangeWork(lranges, interval_a, interval_b) IN
      ToSet(pr) = work /\ (hit <=> IsHit(work))

\* A block that is found in the cache file is where the map has its bytes, and
\* no block downloads what the file has.
WorkSound ==
  at = "returned" =>
    \A i \in DOMAIN pr :
      IF pr[i].position = Missing
      THEN Bytes(pr[i]) \cap Covered(lranges) = {}
      ELSE \A x \in Bytes(pr[i]) :
             pr[i].position + x - pr[i].a = Where(lranges, x)

\* The blocks are in the order in which a child serves them, one behind the
\* other from the first byte of the request; all that ever lacks is its last
\* byte, when everything up to it is there.
OnlyTheTail ==
  at = "returned" =>
    /\ pr # <<>>
    /\ pr[1].a = interval_a
    /\ \A i \in DOMAIN pr : pr[i].a <= pr[i].b
    /\ \A i \in 1 .. Len(pr) - 1 : pr[i + 1].a = pr[i].b + 1
    /\ pr[Len(pr)].b =
         IF TailLost(lranges, interval_a, interval_b) THEN interval_b - 1
         ELSE interval_b
=============================================================================
