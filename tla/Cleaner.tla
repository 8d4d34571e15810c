------------------------------- MODULE Cleaner -------------------------------
(***************************************************************************)
(* haarpClean at work next to children that use the cache.                 *)
(*                                                                         *)
(* The cleaner chooses rows with a SELECT, removes their files one by one, *)
(* and deletes rows with a second evaluation of the same condition, each   *)
(* of the three a step of its own.  A child takes the row's lock, looks    *)
(* for the file, reads the map, opens the file (creating it when it is     *)
(* missing), transfers, and saves its copy of the map under the file's     *)
(* name, now and then on the way and at the end.  Both may die between any *)
(* two steps, the cleaner's rm may fail, and browsers ask without end.     *)
(*                                                                         *)
(* Days stand for dates; one block of a file is the unit of its size and   *)
(* of the bytes requested.  The lock is what EditLock makes of it while    *)
(* nobody is silent: taken from a child that works on the row only when    *)
(* the row is gone.                                                        *)
(***************************************************************************)
EXTENDS FiniteSets, Integers, SequencesExt, FiniteSetsExt

CONSTANTS
  Files,      \* names of cached files (of the domain that is cleaned)
  Children,
  Blocks,     \* the blocks of a file
  Today,      \* the newest day; 0 is the oldest
  NUM_FILES,  \* LIMIT of the SELECT and of the DELETE
  MAX_HIT, TURN, STEP,  \* 100, 15 and 10 in the code
  EXACT,      \* the first phase in which the arithmetic rounds kn^i to 1
  TotalMB,    \* total_delete_mb of a run that the full disk asks for
  Asked,      \* bound: what may have been requested of a file at the start
  MaxAsked,   \* bound: where the blocks requested of a file stop being counted
  Popular,    \* bound: the files that are requested
  Wanted      \* bound: the sets of blocks that are requested

ASSUME CleanerAssumption ==
  /\ {Today, MaxAsked, TURN} \cup Asked \subseteq Nat
  /\ {NUM_FILES, MAX_HIT, STEP, EXACT, TotalMB} \subseteq Nat \ {0}
  /\ IsFiniteSet(Files) /\ IsFiniteSet(Blocks) /\ -1 \notin Blocks
  /\ Popular \subseteq Files /\ Wanted \subseteq (SUBSET Blocks) \ {{}}

\* The powers of kn are numbers below 1; and the last phase that is not rounded
\* goes up to the day before the newest (in the code (1 - 2^-53)^107 of the
\* days is less than one day short of all).
ASSUME PhasesAssumption ==
  \A i \in 0 .. EXACT - 1, n \in 1 .. MAX_HIT + STEP + 1 :
    LET k == 4 * 2 ^ i IN
    /\ {(k - 1) ^ n, k ^ n} \subseteq Nat
    /\ (k - 1) ^ n < k ^ n
    /\ i = EXACT - 1 => \A d \in 0 .. Today : (d * (k - 1) ^ n) \div k ^ n >= d - 1

VARIABLES
  row,    \* the row of each file, or NoRow
  older,  \* the pairs of rows, the one with the lower id first
  disk,   \* the blocks in the file of each name, or NoFile
  child,  \* the request of each child
  mode,   \* what the cleaner was started for
  pc,     \* where the cleaner is
  date_min, date_max,
  fase, hit, flag,
  todo,   \* the rows of the last SELECT that are not handled yet
  mb_eliminate,
  \* Of the past, for the properties:
  met,      \* files a child worked on since the cleaner began
  crossed,  \* a child took a step since the last SELECT
  raced,    \* files that the cleaner removed while a child was about to open
            \* them, or whose row it deleted while a child was at work on them,
            \* or after a child's step since the SELECT
  stuck     \* files that an rm has left where they were

base == <<row, older, disk>>
cleaner == <<mode, pc, date_min, date_max, fase, hit, flag, todo, mb_eliminate>>
past == <<met, crossed, raced, stuck>>
vars == <<base, child, cleaner, past>>

NoRow == [day |-> -1]
NoFile == {-1}
NULL == {-1}          \* `rg` and `pos` of an inserted row

Row(day, asked, map) ==
  [day |-> day, asked |-> asked, map |-> map, used |-> FALSE,
   size |-> IF map = NULL THEN 0 ELSE Cardinality(map)]

HasRow(f) == row[f] # NoRow
OnDisk(f) == disk[f] # NoFile

Idle == [at |-> "idle"]
AtWork(c, f) == child[c].at # "idle" /\ child[c].f = f
Busy(f) == \E c \in Children : AtWork(c, f)
AboutToOpen(f) ==
  \E c \in Children : AtWork(c, f) /\ child[c].at \in {"found", "miss"}

Counted(n) == Min({n, MaxAsked})

(***************************************************************************)
(* The children.                                                           *)
(***************************************************************************)

\* Every step of a child on f is remembered against the cleaner's progress.
Met(f) ==
  /\ met' = IF pc = "begin" THEN met ELSE met \cup {f}
  /\ crossed' = (pc = "remove")
  /\ UNCHANGED <<raced, stuck, cleaner>>

ChildAt(c, at, f) ==
  /\ child[c].at = at
  /\ child[c].f = f
  /\ Met(f)

To(c, at) == child' = [child EXCEPT ![c].at = at]

\* lockFile(): a missing row is inserted with the lock, an unused one is
\* locked, and so is one whose holder has died.
lockFile(c, f, want) ==
  /\ child[c].at = "idle"
  /\ HasRow(f) /\ row[f].used => ~Busy(f)
  /\ child' = [child EXCEPT ![c] =
       [at |-> "locked", f |-> f, want |-> want, map |-> {}, new |-> ~HasRow(f),
        linked |-> FALSE]]
  /\ IF HasRow(f)
       THEN /\ row' = [row EXCEPT ![f].used = TRUE]
            /\ UNCHANGED older
       ELSE /\ row' = [row EXCEPT ![f] = [Row(Today, 0, NULL) EXCEPT !.used = TRUE]]
            /\ older' = older \cup {<<g, f>> : g \in {h \in Files : HasRow(h)}}
  /\ Met(f)
  /\ UNCHANGED disk

\* Cache() looks for the file in the cache directories.
Look(c, f) ==
  /\ ChildAt(c, "locked", f)
  /\ To(c, IF OnDisk(f) THEN "found" ELSE "missing")
  /\ UNCHANGED base

\* MISS with the blocks the file has, or HIT, which needs no map.
Decide(c, at, map) == child' = [child EXCEPT ![c].at = at, ![c].map = map, ![c].new = FALSE]

\* Mutant: the row keeps its map.
NotOnDiskKeepsMap(c, f) ==
  /\ ChildAt(c, "missing", f)
  /\ Decide(c, "miss", {})
  /\ UNCHANGED base

\* Not found: the row, unless it is new, and the list start empty.
NotOnDisk(c, f) ==
  /\ ChildAt(c, "missing", f)
  /\ row' = IF HasRow(f) /\ ~child[c].new THEN [row EXCEPT ![f].map = {}] ELSE row
  /\ Decide(c, "miss", {})
  /\ UNCHANGED <<older, disk>>

\* Found, but the row is gone: the answer passes by the cache.
RowMissing(c, f) ==
  /\ ChildAt(c, "found", f)
  /\ ~HasRow(f)
  /\ child' = [child EXCEPT ![c] = Idle]
  /\ UNCHANGED base

\* Found, and the row has no map: a string is made from NULL and the child dies.
MapMissing(c, f) ==
  /\ ChildAt(c, "found", f)
  /\ HasRow(f) /\ row[f].map = NULL
  /\ child' = [child EXCEPT ![c] = Idle]
  /\ UNCHANGED base

MissOrHit(c, f) ==
  /\ ChildAt(c, "found", f)
  /\ HasRow(f) /\ row[f].map # NULL
  /\ IF child[c].want \subseteq row[f].map
       THEN Decide(c, "hit", {})
       ELSE Decide(c, "miss", row[f].map)
  /\ UNCHANGED base

\* ReadBodyPart(), MISS: the file is created when it is not there any more.
OpenToWrite(c, f) ==
  /\ ChildAt(c, "miss", f)
  /\ disk' = [disk EXCEPT ![f] = IF OnDisk(f) THEN @ ELSE {}]
  /\ child' = [child EXCEPT ![c].at = "open", ![c].linked = TRUE]
  /\ UNCHANGED <<row, older>>

\* A missing block goes to the file, or to an inode that has lost its name.
Write(c, f) ==
  /\ ChildAt(c, "open", f)
  /\ \E b \in child[c].want \ child[c].map :
       /\ child' = [child EXCEPT ![c].map = @ \cup {b}]
       /\ disk' = IF child[c].linked THEN [disk EXCEPT ![f] = @ \cup {b}] ELSE disk
  /\ UNCHANGED <<row, older>>

\* The child's map goes into the row of that name, if there is one.
MapSaved(c, f, used) ==
  IF HasRow(f)
    THEN [row EXCEPT ![f].map = child[c].map, ![f].used = used,
                     ![f].size = Cardinality(child[c].map)]
    ELSE row

\* SubUpdate() saves the map during a long transfer and keeps the lock.
SubUpdate(c, f) ==
  /\ ChildAt(c, "open", f)
  /\ child[c].map # {}
  /\ row' = MapSaved(c, f, TRUE)
  /\ UNCHANGED <<older, disk, child>>

\* Update() at the end or at a cut, MISS: the map is saved and the lock given back.
Update(c, f) ==
  /\ ChildAt(c, "open", f)
  /\ row' = MapSaved(c, f, FALSE)
  /\ child' = [child EXCEPT ![c] = Idle]
  /\ UNCHANGED <<older, disk>>

\* ReadBodyPart(), HIT.
OpenToRead(c, f) ==
  /\ ChildAt(c, "hit", f)
  /\ OnDisk(f)
  /\ To(c, "reading")
  /\ UNCHANGED base

\* HIT: n blocks of the file, which may have lost its name, and Update().
\* The n is counted in the row, and the lock given back.
ServeHit(c, f, n) ==
  /\ \/ ChildAt(c, "reading", f)
     \/ ChildAt(c, "hit", f) /\ ~OnDisk(f) /\ n = 0
  /\ n <= Cardinality(child[c].want)
  /\ row' = IF HasRow(f)
              THEN [row EXCEPT ![f].used = FALSE, ![f].asked = Counted(@ + n)]
              ELSE row
  /\ child' = [child EXCEPT ![c] = Idle]
  /\ UNCHANGED <<older, disk>>

\* A crash, or one of the paths that forget the lock.
Die(c, f) ==
  /\ AtWork(c, f)
  /\ child' = [child EXCEPT ![c] = Idle]
  /\ UNCHANGED <<base, past, cleaner>>

ChildStep ==
  \E c \in Children, f \in Popular :
    \/ \E want \in Wanted : lockFile(c, f, want)
    \/ Look(c, f) \/ NotOnDisk(c, f) \/ RowMissing(c, f) \/ MapMissing(c, f)
    \/ MissOrHit(c, f) \/ OpenToWrite(c, f) \/ Write(c, f) \/ SubUpdate(c, f)
    \/ Update(c, f) \/ OpenToRead(c, f) \/ Die(c, f)
    \/ \E n \in 0 .. Cardinality(Blocks) : ServeHit(c, f, n)

(***************************************************************************)
(* The cleaner.                                                            *)
(***************************************************************************)

\* Mutants: rounded up; as the numbers are on paper.
getNewDateMaxCeil ==
  LET k == 4 * 2 ^ fase IN
  date_min + ((date_max - date_min) * (k - 1) ^ (hit + 1) + k ^ (hit + 1) - 1) \div k ^ (hit + 1)

getNewDateMaxOnPaper ==
  LET k == 4 * 2 ^ fase IN
  date_min + ((date_max - date_min) * (k - 1) ^ (hit + 1)) \div k ^ (hit + 1)

\* kn^(hit + 1) of the days between the dates, in doubles: it is 1 when
\* 4*2^fase - 1 and 4*2^fase are one number.
getNewDateMax ==
  LET k == 4 * 2 ^ fase IN
  IF fase >= EXACT
    THEN date_max
    ELSE date_min + ((date_max - date_min) * (k - 1) ^ (hit + 1)) \div k ^ (hit + 1)

\* Mutant: > date_min where >= is meant.
ConditionAfter(f) ==
  /\ HasRow(f)
  /\ mode \in {"limit", "dates"} =>
       /\ date_min < row[f].day /\ row[f].day <= getNewDateMax
       /\ IF flag THEN row[f].asked > hit * row[f].size
                  ELSE row[f].asked <= hit * row[f].size

\* The condition of SELECT and DELETE.
Condition(f) ==
  /\ HasRow(f)
  /\ mode \in {"limit", "dates"} =>
       /\ date_min <= row[f].day /\ row[f].day <= getNewDateMax
       /\ IF flag THEN row[f].asked > hit * row[f].size
                  ELSE row[f].asked <= hit * row[f].size

Matching == {f \in Files : Condition(f)}

\* The rows that a statement with that condition and the LIMIT reaches; the
\* table is read in the order of its ids.  --file has no LIMIT.
mysql_files ==
  {f \in Matching :
     mode = "file" \/ Cardinality({g \in Matching : <<g, f>> \in older}) < NUM_FILES}

\* The rows of a result, with what the cleaner reads of them.
Fetched == {[file |-> f, filesize |-> row[f].size] : f \in mysql_files}

\* The table without some of its rows.
Deleted(gone) ==
  /\ row' = [f \in Files |-> IF f \in gone THEN NoRow ELSE row[f]]
  /\ older' = {p \in older : p[1] \notin gone /\ p[2] \notin gone}

Days == {row[f].day : f \in {g \in Files : HasRow(g)}}

\* The total_delete_mb of --dates, 10^9, is more than a cache holds: what such
\* a run removes is not counted.
total_delete_mb == TotalMB
Removed(r) == IF mode = "limit" /\ OnDisk(r.file) THEN r.filesize ELSE 0

\* getDateMin() and getDateMax(), and with --dates any day for either; an empty
\* table is the end.  Dates in the wrong order, which select nothing, are left out.
Begin ==
  /\ pc = "begin" /\ mode \in {"limit", "dates"}
  /\ \/ /\ Days # {}
        /\ pc' = "select"
        /\ date_min' \in {Min(Days)} \cup {d \in 0 .. Today : mode = "dates"}
        /\ date_max' \in {Max(Days)} \cup {d \in 0 .. Today : mode = "dates"}
        /\ date_min' <= date_max'
     \/ /\ Days = {}
        /\ pc' = "empty"
        /\ UNCHANGED <<date_min, date_max>>
  /\ met' = {}
  /\ UNCHANGED <<base, child, mode, fase, hit, flag, todo, mb_eliminate, crossed, raced, stuck>>

\* The hit counts of the passes: one by one, then in steps.
NextHit == IF hit > TURN THEN hit + STEP ELSE hit + 1

\* A pass that finds nothing is over.  After the last one of a phase comes the
\* next phase, unless its dates went up to the last day.
NextPass ==
  \/ /\ ~flag
     /\ hit' = NextHit
     /\ flag' = (NextHit >= MAX_HIT)
     /\ UNCHANGED <<fase, pc>>
  \/ /\ flag /\ getNewDateMax # date_max /\ mb_eliminate < total_delete_mb
     /\ fase' = IF fase < EXACT THEN fase + 1 ELSE EXACT
     /\ hit' = 0
     /\ flag' = FALSE
     /\ UNCHANGED pc
  \/ /\ flag /\ (getNewDateMax = date_max \/ mb_eliminate >= total_delete_mb)
     /\ pc' = "end"
     /\ UNCHANGED <<fase, hit, flag>>

\* mysql_select_files() of delete_by_block().
Select ==
  /\ pc = "select"
  /\ IF mysql_files = {}
       THEN NextPass /\ UNCHANGED <<todo, crossed>>
       ELSE /\ todo' = Fetched
            /\ pc' = "remove"
            /\ crossed' = FALSE
            /\ UNCHANGED <<fase, hit, flag>>
  /\ UNCHANGED <<base, child, mode, date_min, date_max, mb_eliminate, met, raced, stuck>>

\* The SELECT of --file.
SelectNamed ==
  /\ pc = "begin" /\ mode = "file"
  /\ todo' = Fetched
  /\ pc' = "remove"
  /\ crossed' = FALSE
  /\ met' = {}
  /\ UNCHANGED <<base, child, mode, date_min, date_max, fase, hit, flag, mb_eliminate, raced, stuck>>

\* rm of one file.  Children that have it open keep the inode.
RemoveFile ==
  /\ pc = "remove"
  /\ \E r \in todo :
       /\ disk' = [disk EXCEPT ![r.file] = NoFile]
       /\ child' = [c \in Children |->
            IF AtWork(c, r.file) THEN [child[c] EXCEPT !.linked = FALSE] ELSE child[c]]
       /\ mb_eliminate' = mb_eliminate + Removed(r)
       /\ raced' = IF AboutToOpen(r.file) THEN raced \cup {r.file} ELSE raced
       /\ todo' = todo \ {r}
  /\ UNCHANGED <<row, older, mode, pc, date_min, date_max, fase, hit, flag, met, crossed, stuck>>

\* An rm that fails, for want of a permission or, with --file, because a blank
\* in the name makes it two: system()'s result is not looked at, and the file
\* counts as removed.
RemoveFails ==
  /\ pc = "remove"
  /\ \E r \in todo :
       /\ OnDisk(r.file)
       /\ mb_eliminate' = mb_eliminate + Removed(r)
       /\ stuck' = stuck \cup {r.file}
       /\ todo' = todo \ {r}
  /\ UNCHANGED <<base, child, mode, pc, date_min, date_max, fase, hit, flag, met, crossed, raced>>

\* Mutant: the DELETE without its LIMIT.
DeleteAll ==
  /\ pc = "remove" /\ todo = {}
  /\ Deleted(Matching)
  /\ raced' = raced \cup {f \in Matching : crossed \/ Busy(f)}
  /\ pc' = IF mode = "file" \/ mb_eliminate > total_delete_mb THEN "end" ELSE "select"
  /\ UNCHANGED <<disk, child, mode, date_min, date_max, fase, hit, flag, todo,
                 mb_eliminate, met, crossed, stuck>>

\* mysql_delete_files(): the condition is evaluated again.
Delete ==
  /\ pc = "remove" /\ todo = {}
  /\ Deleted(mysql_files)
  /\ raced' = raced \cup {f \in mysql_files : crossed \/ Busy(f)}
  /\ pc' = IF mode = "file" \/ mb_eliminate > total_delete_mb THEN "end" ELSE "select"
  /\ UNCHANGED <<disk, child, mode, date_min, date_max, fase, hit, flag, todo,
                 mb_eliminate, met, crossed, stuck>>

\* deleteEmptyRecords() of a run that finds the disk not full: rows with an
\* empty map and no size that were not modified for a day.
deleteEmptyRecords ==
  /\ pc = "begin" /\ mode = "limit"
  /\ \E old \in SUBSET {f \in Files : ~Busy(f)} :
       Deleted({f \in old : HasRow(f) /\ row[f].map = {} /\ row[f].size = 0})
  /\ pc' = "tidy"
  /\ UNCHANGED <<disk, child, mode, date_min, date_max, fase, hit, flag, todo,
                 mb_eliminate, past>>

\* Killed, or exit(1) after an error of the database.
CleanerDies ==
  /\ pc \in {"begin", "select", "remove"}
  /\ pc' = "dead"
  /\ UNCHANGED <<base, child, mode, date_min, date_max, fase, hit, flag, todo,
                 mb_eliminate, past>>

Work == Begin \/ Select \/ SelectNamed \/ RemoveFile \/ RemoveFails \/ Delete

(***************************************************************************)
(* The specification.                                                      *)
(***************************************************************************)

\* What the children of earlier days leave behind: no file; a whole file; the
\* row of a child that died before it saved a map, with and without a file.
Left ==
  {<<NoRow, NoFile>>}
    \cup {<<Row(d, a, Blocks), Blocks>> : d \in 0 .. Today, a \in Asked}
    \cup {<<Row(0, 0, m), NoFile>> : m \in {NULL, {}}}
    \cup {<<Row(0, 0, {}), {}>>}

Init ==
  /\ \E left \in [Files -> Left] :
       /\ row = [f \in Files |-> left[f][1]]
       /\ disk = [f \in Files |-> left[f][2]]
       /\ \E ids \in SetToSeqs({f \in Files : left[f][1] # NoRow}) :
            older = {p \in Files \X Files :
                       \E i, j \in DOMAIN ids : i < j /\ p = <<ids[i], ids[j]>>}
  /\ child = [c \in Children |-> Idle]
  /\ mode \in {"limit", "dates", "file"}
  /\ pc = "begin"
  /\ date_min = 0 /\ date_max = 0
  /\ fase = 0 /\ hit = 0 /\ flag = FALSE
  /\ todo = {} /\ mb_eliminate = 0
  /\ met = {} /\ crossed = FALSE /\ raced = {} /\ stuck = {}

Next == ChildStep \/ Work \/ deleteEmptyRecords \/ CleanerDies

\* The cleaner is a process of its own that nothing waits for: it goes on when
\* it can.  Nothing is asked of the children.
Spec == Init /\ [][Next]_vars /\ WF_vars(Work)

(***************************************************************************)
(* Properties.                                                             *)
(***************************************************************************)

\* A file without a row is never found by a cleaner again, and a request for
\* it ends its child (MapMissing).  delete_by_block() and --file leave one
\* behind, whether the cleaner is killed or not, only of two kinds: a child
\* stepped in between SELECT and DELETE, or an rm failed and the row went all
\* the same.  deleteEmptyRecords() does not look at the disk at all.
FilesHaveRows ==
  \A f \in Files : OnDisk(f) /\ ~HasRow(f) => f \in raced \cup stuck \/ pc = "tidy"

\* A saved map names bytes that are on the disk, as long as a file is there,
\* unless the cleaner removed the file between the child's look and its open,
\* or deleted the row under a child: what a reader has open, or a writer, may
\* be removed at any time.
SavedOnDisk ==
  \A f \in Files :
    HasRow(f) /\ OnDisk(f) /\ row[f].map # NULL => row[f].map \subseteq disk[f] \/ f \in raced

\* What no pass reaches: the last pass with <= takes up to hit = 96, the pass
\* with > begins behind 106.
PassHits == {h \in 0 .. MAX_HIT - 1 : h <= TURN + 1 \/ (h - TURN - 1) % STEP = 0}
Between(f) ==
  /\ row[f].asked > Max(PassHits) * row[f].size
  /\ row[f].asked <= (IF Max(PassHits) > TURN THEN Max(PassHits) + STEP ELSE MAX_HIT) * row[f].size

Spared(f) == Between(f) \/ f \in met

\* A cleaner that has not met its amount leaves no row of its dates, except
\* those between the last two passes and those that children worked on.
NothingForgotten ==
  pc = "end" /\ mode \in {"limit", "dates"} /\ mb_eliminate < total_delete_mb =>
    \A f \in Files :
      HasRow(f) /\ date_min <= row[f].day /\ row[f].day <= date_max => Spared(f)

\* The files of the newest day go last: when the cleaner deletes a row of that
\* day, no older row of its dates is left that it could have deleted.
NewestLast ==
  [][Delete /\ mode # "file" =>
       \A f, g \in Files :
         (row[f] # row'[f] /\ row[f].day = date_max
            /\ HasRow(g) /\ date_min <= row[g].day /\ row[g].day < date_max)
         => Spared(g)]_vars

\* The cleaner comes to an end, its phases only because kn is rounded to 1, or
\* requests go on for ever: a row of today without a file that is inserted, or
\* one whose file grows again, before each pass is selected each time, and what
\* the row said of its size does not make the megabytes grow.
CleanerEnds ==
  \/ <>(pc \in {"end", "empty", "tidy", "dead"})
  \/ \E c \in Children : []<>(child[c] = Idle) /\ []<>(child[c] # Idle)

=============================================================================
